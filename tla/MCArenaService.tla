--------------------------- MODULE MCArenaService ---------------------------
(***************************************************************************)
(* Small instances of ArenaService.                                        *)
(*                                                                         *)
(* Two seats, A and B.  A's requests x and xy: xy's request_id contains    *)
(* x's, so a memo written for xy also names x.  B's request bx uses the    *)
(* same request_id as A's x.                                               *)
(***************************************************************************)
EXTENDS ArenaService, TLC

CONSTANTS A, B, idx, idxy, x, xy, bx, v

MCRequests == {x, xy, bx}
MCIdOf == [r \in MCRequests |-> IF r = xy THEN idxy ELSE idx]
MCSeatOf == [r \in MCRequests |-> IF r = bx THEN B ELSE A]
MCServiceOf == [r \in MCRequests |-> "trust_snapshot"]
MCMemoFits == [r \in MCRequests |-> IF r = xy THEN MCRequests ELSE {x, bx}]

Entry(seat, amount, memo) == [by |-> seat, amount |-> amount, ours |-> TRUE, memo |-> memo]

\* A pays for x, or for xy; B pays for bx.
MCTransfers == {Entry(A, 4, x), Entry(A, 4, xy), Entry(B, 4, bx)}

\* Watchers are interchangeable.
WatcherSymmetry == Permutations(Watchers)

\* The instance for what can go wrong around one good request x: a request v with an
\* input that is refused, chatter, and transfers to another payee.
MiscIdOf == [r \in {x, v} |-> IF r = x THEN idx ELSE idxy]
MiscSeatOf == [r \in {x, v} |-> A]
MiscServiceOf == [r \in {x, v} |-> IF r = x THEN "trust_snapshot" ELSE "verify_delivery"]
MiscMemoFits == [r \in {x, v} |-> {r}]
MiscTransfers == {Entry(A, 4, x), [Entry(A, 4, x) EXCEPT !.ours = FALSE]}
MiscContents == {x, v, NotARequest}
MiscReceipts == {NoTxn, MalformedTxn, UnknownTxn}
=============================================================================
