----------------------------- MODULE ArenaLedger -----------------------------
(***************************************************************************)
(* What a buyer asks for, what the SharedNet ledger records, when the one  *)
(* pays for the other, and what Counterparty answers.                      *)
(*                                                                         *)
(* A member of Requests is a logical request: the sender's seat, the       *)
(* request_id, the service and the input that requestFingerprint hashes.   *)
(* Equality of two members stands for equality of their fingerprints.      *)
(* The ledger is append-only, and a txn_ id is the position of its entry.  *)
(***************************************************************************)
EXTENDS Integers, Sequences, FiniteSets

CONSTANTS
  Requests,     \* logical requests (fingerprints)
  RequestIds,   \* the request_id strings buyers choose
  Seats,        \* the i_ seats of buyers
  IdOf,         \* IdOf[r]: the request_id of r
  SeatOf,       \* SeatOf[r]: the seat r is sent from
  ServiceOf,    \* ServiceOf[r]: the service r asks for
  Invalid,      \* the requests whose input validateInput refuses
  MemoFits,     \* MemoFits[r]: whose request_id and service r's memo contains
  Transfers,    \* the transfers people may make
  Window        \* how many of the latest entries `ledger --last` returns

\* The fixed prices, in credits.
PRICES == [trust_snapshot |-> 4, verify_delivery |-> 7, best_execution |-> 10]

Services == DOMAIN PRICES

Price(r) == PRICES[ServiceOf[r]]

\* An entry of the ledger: `ours` when it is addressed to our payee and carries our
\* Room's id, `memo` the request whose payment_required memo it quotes.
Transfer == [by : Seats, amount : Nat, ours : BOOLEAN, memo : Requests]

\* The memo is matched by substring, so it can name more requests than the one it
\* was written for; it always names those with its own request_id and service.
ASSUME RequestsAssumption ==
  /\ IdOf \in [Requests -> RequestIds]
  /\ SeatOf \in [Requests -> Seats]
  /\ ServiceOf \in [Requests -> Services]
  /\ Invalid \subseteq Requests
  /\ MemoFits \in [Requests -> SUBSET Requests]
  /\ \A r, s \in Requests :
       IdOf[r] = IdOf[s] /\ ServiceOf[r] = ServiceOf[s] => s \in MemoFits[r]
  /\ Transfers \subseteq Transfer
  /\ Window \in Nat

ledgerPaymentMatches(item, r) ==
  /\ item.amount = Price(r)
  /\ item.ours
  /\ item.by = SeatOf[r]
  /\ r \in MemoFits[item.memo]

\* The entry `txn` of the ledger pays for r.
PaysFor(ledger, txn, r) ==
  /\ txn \in 1..Len(ledger)
  /\ ledgerPaymentMatches(ledger[txn], r)

\* Variant: the entry is found by its id and not compared with the request.
verifyPayment_ById(ledger, txn, r) == txn \in 1..Len(ledger)

\* What verifyPayment answers: it looks the id up among the latest entries only.
verifyPayment(ledger, txn, r) ==
  /\ txn > Len(ledger) - Window
  /\ PaysFor(ledger, txn, r)
-----------------------------------------------------------------------------
\* payment_txn_id when it is absent, when it is not a txn_ id, and when it is one
\* the ledger never issued.
NoTxn        == -2
MalformedTxn == -1
UnknownTxn   == 0
TxnField     == {NoTxn, MalformedTxn, UnknownTxn} \cup (Nat \ {0})

States == {"INVALID_REQUEST", "REJECTED", "PAYMENT_REQUIRED",
           "PAYMENT_NOT_VERIFIED", "INCONCLUSIVE", "DELIVERED"}

\* A response as far as the protocol tells two apart; `result` is what the Router
\* completed with, and `trace` identifies the turn it came from.
Response == [req : Requests, state : States, txn : TxnField, trace : Nat,
             result : {"none", "served", "INCONCLUSIVE"}]

\* Variant: the response is built without its common part.
Refusal_NoBase(r, state) == [state |-> state]

\* A response that carries no receipt and no result.
Refusal(r, state) ==
  [req |-> r, state |-> state, txn |-> NoTxn, trace |-> 0, result |-> "none"]
==============================================================================
