-------------------------- MODULE ArenaServiceProofs --------------------------
(***************************************************************************)
(* What the service loop keeps true for any requests, memos, watchers,     *)
(* batches, transfers and crashes.                                         *)
(***************************************************************************)
EXTENDS ArenaService, TLAPS

\* The process is past the cache lookup of the message in hand.
Busy == {"ledger", "claim", "grants", "start", "turn"}

\* Where a process stands in the inbox; past the lookup it has a request in hand.
InHand ==
  \A w \in Watchers :
    /\ cursor[w] <= upto[w] /\ upto[w] <= Len(inbox) /\ at[w] >= 1
    /\ pc[w] \notin {"idle", "stopped"} => at[w] <= upto[w] + 1
    /\ pc[w] \in Busy => at[w] <= upto[w] /\ req(w) \in Requests

\* A verified payment pays for the request in hand, and a claimed one is bound to it.
HandPaid ==
  \A w \in Watchers :
    /\ pc[w] = "claim" => PaysFor(ledger, txn(w), req(w))
    /\ pc[w] \in {"grants", "start", "turn"} => \E row \in payments : row.req = req(w)

\* What the batch in hand has answered so far is waiting for the exit.
BatchAnswered ==
  \A w \in Watchers : pc[w] \notin {"idle", "stopped"} =>
    \A i \in (cursor[w] + 1)..(at[w] - 1) :
      inbox[i].req \in Requests => \E p \in out[w] : p.req = inbox[i].req

ClaimsArePaid == \A row \in payments : PaysFor(ledger, row.txn, row.req)

\* The deliveries saved, collected and posted.
DeliveriesClaimed ==
  \A p \in responses \cup posted \cup UNION {out[w] : w \in Watchers} :
    p.state = "DELIVERED" => \E row \in payments : row.req = p.req

\* A process with a message in hand has a request and a receipt field there.
LEMMA InHandTyped ==
  ASSUME TypeOK, InHand, NEW w \in Watchers,
         at[w] <= upto[w]
  PROVE  /\ at[w] \in 1..Len(inbox)
         /\ inbox[at[w]] \in Message
         /\ req(w) \in Requests \cup {NotARequest}
         /\ txn(w) \in TxnField
  <1>1. at[w] \in 1..Len(inbox)
    BY DEF TypeOK, ProcessOK, WorldOK, InHand
  <1>2. inbox[at[w]] \in Message
    BY <1>1 DEF TypeOK, WorldOK
  <1> QED
    BY <1>1, <1>2 DEF Message, req, txn

\* A refusal is a Response.
LEMMA RefusalTyped ==
  ASSUME NEW r \in Requests, NEW state \in States
  PROVE  Refusal(r, state) \in Response /\ Refusal(r, state).req = r
         /\ Refusal(r, state).state = state
  BY DEF Refusal, Response, TxnField, NoTxn


\* Returning a response keeps the types.
LEMMA AnswerTyped ==
  ASSUME TypeOK, NEW w \in Watchers, NEW p \in Response, Answer(w, p),
         payments' \subseteq Row, responses' \subseteq Response, grants' \in Nat,
         trace' \in [Watchers -> Nat]
  PROVE  TypeOK'
  <1>1. WorldOK'
    BY DEF TypeOK, WorldOK, Answer, world
  <1>2. StoreOK'
    BY DEF TypeOK, StoreOK, Answer, history
  <1>3. out' \in [Watchers -> SUBSET Response]
    BY DEF TypeOK, ProcessOK, Answer
  <1>4. ProcessOK'
    BY <1>3 DEF TypeOK, ProcessOK, Answer
  <1> QED
    BY <1>1, <1>2, <1>4 DEF TypeOK

\* Returning a refusal keeps the types.
LEMMA RefuseTyped ==
  ASSUME TypeOK, NEW w \in Watchers, req(w) \in Requests, NEW state \in States,
         Refuse(w, state)
  PROVE  TypeOK'
  BY AnswerTyped, RefusalTyped DEF Refuse, TypeOK, StoreOK, ProcessOK, tables

\* Every step keeps the types.
LEMMA TypeStep ==
  ASSUME TypeOK, InHand, HandPaid, [Next]_vars
  PROVE  TypeOK'
  <1> USE RequestsAssumption, WatchAssumption
  <1>1. CASE UNCHANGED vars
    BY <1>1 DEF TypeOK, WorldOK, StoreOK, ProcessOK, vars, world, tables, history, process
  <1>2. CASE Outside
    <2> USE DEF Outside, TypeOK, WorldOK
    <2>1. WorldOK'
      <3>1. CASE Post
        <4>1. PICK r \in Contents, t \in Receipts \cup 1..Len(ledger) :
                inbox' = Append(inbox, [req |-> r, txn |-> t])
          BY <3>1 DEF Post
        <4>2. [req |-> r, txn |-> t] \in Message
          BY DEF Message, TxnField
        <4> QED
          BY <3>1, <4>1, <4>2 DEF Post
      <3>2. CASE Pay
        BY <3>2 DEF Pay
      <3>3. CASE CoreFails
        <4>1. coreUp' \in BOOLEAN
          BY <3>3, Zenon DEF CoreFails
        <4> QED
          BY <3>3, <4>1 DEF CoreFails
      <3>4. CASE CoreRecovers
        <4>1. coreUp' \in BOOLEAN
          BY <3>4, Zenon DEF CoreRecovers
        <4> QED
          BY <3>4, <4>1 DEF CoreRecovers
      <3> QED
        BY <1>2, <3>1, <3>2, <3>3, <3>4
    <2>2. UNCHANGED <<tables, history, process>>
      BY <1>2 DEF Post, Pay, CoreFails, CoreRecovers
    <2>3. StoreOK' /\ ProcessOK'
      BY <2>2 DEF StoreOK, ProcessOK, tables, history, process
    <2> QED
      BY <2>1, <2>3
  <1>3. ASSUME NEW w \in Watchers, Die(w) \/ Restart(w)
        PROVE  TypeOK'
    <2>1. WorldOK' /\ StoreOK'
      BY <1>3 DEF Die, Restart, TypeOK, WorldOK, StoreOK, world, tables, history
    <2>2. CASE Die(w)
      <3>1. out' \in [Watchers -> SUBSET Response]
        BY <2>2 DEF Die, TypeOK, ProcessOK
      <3> QED
        BY <2>1, <2>2, <3>1 DEF Die, TypeOK, ProcessOK
    <2>3. CASE Restart(w)
      BY <2>1, <2>3 DEF Restart, TypeOK, ProcessOK
    <2> QED
      BY <1>3, <2>2, <2>3
  <1>4. ASSUME NEW w \in Watchers, Step(w)
        PROVE  TypeOK'
    <2> DEFINE r == req(w)
    <2>1. CASE Wake(w)
      BY <2>1 DEF Wake, TypeOK, WorldOK, StoreOK, ProcessOK, world, tables, history
    <2>2. CASE Exit(w)
      BY <2>2 DEF Exit, TypeOK, WorldOK, StoreOK, ProcessOK, world, tables
    <2>3. CASE SkipChatter(w)
      BY <2>3 DEF SkipChatter, TypeOK, WorldOK, StoreOK, ProcessOK, world, tables, history
    <2>4. CASE RefuseInput(w)
      BY <2>4, RefuseTyped DEF RefuseInput, AtRequest, States
    <2>5. CASE ReplayCached(w)
      <3>1. PICK p \in responses : Answer(w, p)
        BY <2>5 DEF ReplayCached, Cached
      <3> QED
        BY <2>5, <3>1, AnswerTyped DEF ReplayCached, TypeOK, StoreOK, ProcessOK, tables
    <2>6. CASE RefuseReusedId(w)
      BY <2>6, RefuseTyped DEF RefuseReusedId, AtRequest, States
    <2>7. CASE QuotePrice(w)
      BY <2>7, RefuseTyped DEF QuotePrice, Uncached, AtRequest, States
    <2>8. CASE RefuseMalformedTxn(w)
      BY <2>8, RefuseTyped DEF RefuseMalformedTxn, Uncached, AtRequest, States
    <2>9. CASE AskLedger(w) \/ PaymentVerified(w) \/ ClaimAgain(w)
      BY <2>9 DEF AskLedger, PaymentVerified, ClaimAgain,
                  TypeOK, WorldOK, StoreOK, ProcessOK, world, tables, history
    <2>10. CASE LedgerUnavailable(w)
      BY <2>10, RefuseTyped DEF LedgerUnavailable, InHand, Busy, States
    <2>11. CASE PaymentNotVerified(w)
      BY <2>11, RefuseTyped DEF PaymentNotVerified, InHand, Busy, States
    <2>12. CASE ClaimPayment(w)
      <3>1. req(w) \in Requests /\ txn(w) \in Nat
        BY <2>12 DEF ClaimPayment, HandPaid, PaysFor, InHand, Busy, TypeOK, WorldOK
      <3> QED
        BY <2>12, <3>1 DEF ClaimPayment, TypeOK, WorldOK, StoreOK, ProcessOK, Row,
                           world, tables, history
    <2>13. CASE ClaimConflict(w)
      BY <2>13, RefuseTyped DEF ClaimConflict, InHand, Busy, States
    <2>14. CASE MintGrants(w)
      BY <2>14 DEF MintGrants, TypeOK, WorldOK, StoreOK, ProcessOK, world, tables, history
    <2>15. CASE StartTurn(w)
      BY <2>15 DEF StartTurn, InHand, Busy,
                   TypeOK, WorldOK, StoreOK, ProcessOK, world, tables, history
    <2>16. CASE TurnSucceeds(w)
      <3>1. PICK result \in TurnResult :
              LET p == [req |-> req(w), state |-> "DELIVERED", txn |-> txn(w),
                        trace |-> trace[w], result |-> result]
              IN  saveResponse(p) /\ Answer(w, p)
        BY <2>16 DEF TurnSucceeds
      <3> DEFINE p == [req |-> req(w), state |-> "DELIVERED", txn |-> txn(w),
                       trace |-> trace[w], result |-> result]
      <3>2. p \in Response
        <4>1. req(w) \in Requests /\ txn(w) \in TxnField
          BY <2>16, InHandTyped DEF TurnSucceeds, InHand, Busy
        <4>2. trace[w] \in Nat
          BY DEF TypeOK, ProcessOK
        <4>3. result \in {"served", "INCONCLUSIVE"}
          BY <3>1 DEF TurnResult
        <4> QED
          BY <4>1, <4>2, <4>3 DEF Response, States
      <3>3. responses' \subseteq Response
        BY <3>1, <3>2 DEF saveResponse, TypeOK, StoreOK
      <3>4. trace' \in [Watchers -> Nat] /\ UNCHANGED <<payments, grants>>
        BY <2>16 DEF TurnSucceeds, TypeOK, ProcessOK
      <3> QED
        BY <3>1, <3>2, <3>3, <3>4, AnswerTyped DEF TypeOK, StoreOK
    <2>17. CASE TurnFails(w)
      <3> DEFINE p == [req |-> req(w), state |-> "INCONCLUSIVE", txn |-> txn(w),
                       trace |-> trace[w], result |-> "INCONCLUSIVE"]
      <3>1. p \in Response
        <4>1. req(w) \in Requests /\ txn(w) \in TxnField
          BY <2>17, InHandTyped DEF TurnFails, InHand, Busy
        <4> QED
          BY <4>1 DEF Response, States, TypeOK, ProcessOK
      <3>2. Answer(w, p) /\ UNCHANGED tables /\ trace' \in [Watchers -> Nat]
        BY <2>17 DEF TurnFails, TypeOK, ProcessOK
      <3> QED
        BY <3>1, <3>2, AnswerTyped DEF TypeOK, StoreOK, tables
    <2> QED
      BY <1>4, <2>1, <2>2, <2>3, <2>4, <2>5, <2>6, <2>7, <2>8, <2>9, <2>10, <2>11,
         <2>12, <2>13, <2>14, <2>15, <2>16, <2>17 DEF Step
  <1> QED
    BY <1>1, <1>2, <1>3, <1>4 DEF Next
-------------------------------------------------------------------------------
\* Rows, posted responses, messages and ledger entries are never taken back.
LEMMA Monotone ==
  ASSUME TypeOK, [Next]_vars
  PROVE  /\ payments \subseteq payments' /\ posted \subseteq posted'
         /\ Len(inbox) <= Len(inbox') /\ Len(inbox) \in Nat /\ Len(inbox') \in Nat
         /\ \A i \in 1..Len(inbox) : inbox'[i] = inbox[i]
         /\ \A t, r : PaysFor(ledger, t, r) => PaysFor(ledger', t, r)
  <1> USE DEF TypeOK, WorldOK
  <1>1. CASE UNCHANGED vars
    BY <1>1 DEF vars, world, tables, history
  <1>2. CASE Outside
    <2>1. UNCHANGED <<payments, posted>>
      BY <1>2 DEF Outside, Post, Pay, CoreFails, CoreRecovers, tables, history
    <2>2. CASE UNCHANGED ledger /\ \E m : inbox' = Append(inbox, m)
      BY <2>1, <2>2
    <2>3. CASE UNCHANGED inbox /\ \E item : ledger' = Append(ledger, item)
      BY <2>1, <2>3 DEF PaysFor
    <2>4. CASE UNCHANGED <<inbox, ledger>>
      BY <2>1, <2>4
    <2> QED
      BY <1>2, <2>2, <2>3, <2>4 DEF Outside, Post, Pay, CoreFails, CoreRecovers
  <1>3. ASSUME NEW w \in Watchers, Die(w) \/ Restart(w)
        PROVE  UNCHANGED <<inbox, ledger, payments, posted>>
    BY <1>3 DEF Die, Restart, world, tables, history
  <1>4. ASSUME NEW w \in Watchers, Step(w)
        PROVE  /\ UNCHANGED <<inbox, ledger>>
               /\ payments \subseteq payments' /\ posted \subseteq posted'
    BY <1>4 DEF Step, Wake, Exit, SkipChatter, RefuseInput, ReplayCached, RefuseReusedId,
                QuotePrice, RefuseMalformedTxn, AskLedger, LedgerUnavailable,
                PaymentNotVerified, PaymentVerified, ClaimPayment, ClaimAgain,
                ClaimConflict, MintGrants, StartTurn, TurnSucceeds, TurnFails,
                Refuse, Answer, world, tables, history
  <1> QED
    BY <1>1, <1>2, <1>3, <1>4 DEF Next

\* A step of watcher w.
Moves(w) == Step(w) \/ Die(w) \/ Restart(w)

\* What a step of watcher w leaves alone, and where w itself may go.
LEMMA MovesFrame ==
  ASSUME ProcessOK, NEW w \in Watchers, Moves(w)
  PROVE  /\ UNCHANGED <<inbox, ledger>>
         /\ \A v \in Watchers \ {w} :
              /\ pc'[v] = pc[v] /\ at'[v] = at[v] /\ out'[v] = out[v]
              /\ cursor'[v] = cursor[v] /\ upto'[v] = upto[v]
  BY DEF Moves, Step, Die, Restart, Wake, Exit, SkipChatter, RefuseInput, ReplayCached,
         RefuseReusedId, QuotePrice, RefuseMalformedTxn, AskLedger, LedgerUnavailable,
         PaymentNotVerified, PaymentVerified, ClaimPayment, ClaimAgain, ClaimConflict,
         MintGrants, StartTurn, TurnSucceeds, TurnFails, Refuse, Answer, world, ProcessOK

\* A step of the outside touches no table, history or process.
LEMMA OutsideFrame ==
  ASSUME Outside \/ UNCHANGED vars
  PROVE  UNCHANGED <<failures, tables, history, process>>
  BY DEF Outside, Post, Pay, CoreFails, CoreRecovers, vars

\* A step is one of the outside or of one watcher, or changes nothing.
LEMMA NextCases ==
  ASSUME [Next]_vars
  PROVE  Outside \/ UNCHANGED vars \/ \E w \in Watchers : Moves(w)
  BY DEF Next, Moves

\* What arrives from outside touches no message a process has in hand.
LEMMA OutsideInHand ==
  ASSUME TypeOK, InHand, Outside \/ UNCHANGED vars
  PROVE  /\ UNCHANGED <<pc, cursor, upto, at, out, payments>>
         /\ Len(inbox) \in Nat /\ Len(inbox') \in Nat /\ Len(inbox) <= Len(inbox')
         /\ \A w \in Watchers : pc[w] \in Busy => inbox'[at[w]] = inbox[at[w]]
  <1>1. UNCHANGED <<pc, cursor, upto, at, out, payments>>
    BY OutsideFrame DEF process, tables
  <1>2. [Next]_vars
    BY DEF Next
  <1>3. Len(inbox) \in Nat /\ Len(inbox') \in Nat
    BY <1>2, Monotone
  <1>4. \A w \in Watchers : pc[w] \in Busy => at[w] \in 1..Len(inbox)
    BY <1>3 DEF InHand, TypeOK, ProcessOK
  <1> QED
    BY <1>1, <1>2, <1>3, <1>4, Monotone

\* The places in the inbox stay in order.
LEMMA InHandStep ==
  ASSUME TypeOK, InHand, [Next]_vars
  PROVE  InHand'
  <1> USE DEF TypeOK
  <1>1. CASE Outside \/ UNCHANGED vars
    <2>1. ASSUME NEW w \in Watchers
          PROVE  upto[w] <= Len(inbox')
      BY <1>1, OutsideInHand DEF InHand, ProcessOK
    <2> QED
      BY <1>1, <2>1, OutsideInHand DEF InHand, req
  <1>2. ASSUME NEW w \in Watchers, Moves(w)
        PROVE  InHand'
    <2> DEFINE InPlace ==
                 /\ cursor'[w] <= upto'[w] /\ upto'[w] <= Len(inbox) /\ at'[w] >= 1
                 /\ pc'[w] \notin {"idle", "stopped"} => at'[w] <= upto'[w] + 1
                 /\ pc'[w] \in Busy => at'[w] <= upto'[w] /\ inbox[at'[w]].req \in Requests
    <2>1. InPlace
      <3> USE DEF InHand, ProcessOK, Busy, req
      <3>1. CASE Wake(w)
        BY <3>1 DEF Wake
      <3>2. CASE Exit(w) \/ SkipChatter(w) \/ Die(w) \/ Restart(w)
        BY <3>2 DEF Exit, SkipChatter, Die, Restart
      <3>3. CASE AskLedger(w) \/ PaymentVerified(w) \/ ClaimPayment(w) \/ ClaimAgain(w)
                 \/ MintGrants(w) \/ StartTurn(w)
        BY <3>3 DEF AskLedger, PaymentVerified, ClaimPayment, ClaimAgain, MintGrants,
                    StartTurn, Uncached, AtRequest
      <3>4. ASSUME NEW p, Answer(w, p), AtRequest(w) \/ pc[w] \in Busy
            PROVE  InPlace
        BY <3>4 DEF Answer, AtRequest
      <3> QED
        BY <1>2, <3>1, <3>2, <3>3, <3>4 DEF Moves, Step, RefuseInput, ReplayCached,
           RefuseReusedId, QuotePrice, RefuseMalformedTxn, LedgerUnavailable,
           PaymentNotVerified, ClaimConflict, TurnSucceeds, TurnFails, Refuse, Uncached
    <2> QED
      BY <1>2, <2>1, MovesFrame DEF InHand, req
  <1> QED
    BY <1>1, <1>2, NextCases

\* A payment seen by verifyPayment still pays when it is claimed, and a claim stays.
LEMMA HandPaidStep ==
  ASSUME TypeOK, InHand, HandPaid, [Next]_vars
  PROVE  HandPaid'
  <1> USE DEF TypeOK
  <1>1. CASE Outside \/ UNCHANGED vars
    BY <1>1, OutsideInHand, Monotone DEF HandPaid, Busy, req, txn
  <1>2. ASSUME NEW w \in Watchers, Moves(w)
        PROVE  HandPaid'
    <2>1. /\ pc'[w] = "claim" => PaysFor(ledger, inbox[at'[w]].txn, inbox[at'[w]].req)
          /\ pc'[w] \in {"grants", "start", "turn"} =>
               \E row \in payments' : row.req = inbox[at'[w]].req
      <3> USE DEF HandPaid, ProcessOK, req, txn
      <3>1. CASE Wake(w) \/ Exit(w) \/ SkipChatter(w) \/ Die(w) \/ Restart(w)
        BY <3>1 DEF Wake, Exit, SkipChatter, Die, Restart
      <3>2. CASE AskLedger(w)
        BY <3>2 DEF AskLedger
      <3>3. CASE PaymentVerified(w)
        BY <3>3 DEF PaymentVerified, verifyPayment
      <3>4. CASE ClaimPayment(w)
        <4>1. [txn |-> txn(w), req |-> req(w)] \in payments'
          BY <3>4 DEF ClaimPayment
        <4> QED
          BY <3>4, <4>1 DEF ClaimPayment
      <3>7. CASE ClaimAgain(w)
        BY <3>7 DEF ClaimAgain, Bound, tables
      <3>5. CASE MintGrants(w) \/ StartTurn(w)
        BY <3>5 DEF MintGrants, StartTurn
      <3>6. ASSUME NEW p, Answer(w, p)
            PROVE  pc'[w] = "request"
        BY <3>6 DEF Answer
      <3> QED
        BY <1>2, <3>1, <3>2, <3>3, <3>4, <3>5, <3>6, <3>7 DEF Moves, Step, RefuseInput,
           ReplayCached, RefuseReusedId, QuotePrice, RefuseMalformedTxn,
           LedgerUnavailable, PaymentNotVerified, ClaimConflict, TurnSucceeds,
           TurnFails, Refuse
    <2> QED
      BY <1>2, <2>1, MovesFrame, Monotone DEF HandPaid, req, txn
  <1> QED
    BY <1>1, <1>2, NextCases

\* Only ClaimPayment changes arena_payments.
LEMMA PaymentsChange ==
  ASSUME [Next]_vars
  PROVE  payments' = payments \/ \E w \in Watchers : ClaimPayment(w)
  BY DEF Next, Outside, Post, Pay, CoreFails, CoreRecovers, vars, Step, Die, Restart,
         Wake, Exit, SkipChatter, RefuseInput, ReplayCached, RefuseReusedId, QuotePrice,
         RefuseMalformedTxn, AskLedger, LedgerUnavailable, PaymentNotVerified,
         PaymentVerified, ClaimAgain, ClaimConflict, MintGrants, StartTurn,
         TurnSucceeds, TurnFails, Refuse, Answer, tables

\* Only StartTurn starts a Router turn.
LEMMA TurnsChange ==
  ASSUME [Next]_vars
  PROVE  turns' = turns \/ \E w \in Watchers : StartTurn(w)
  BY DEF Next, Outside, Post, Pay, CoreFails, CoreRecovers, vars, Step, Die, Restart,
         Wake, Exit, SkipChatter, RefuseInput, ReplayCached, RefuseReusedId, QuotePrice,
         RefuseMalformedTxn, AskLedger, LedgerUnavailable, PaymentNotVerified,
         PaymentVerified, ClaimPayment, ClaimAgain, ClaimConflict, MintGrants,
         TurnSucceeds, TurnFails, Refuse, Answer, history

\* A row is inserted for a payment that was verified, and only where neither the
\* transaction nor the request_id has one.
LEMMA ClaimsStep ==
  ASSUME TypeOK, HandPaid, ClaimsArePaid, ClaimsAreUnique, [Next]_vars
  PROVE  ClaimsArePaid' /\ ClaimsAreUnique'
  <1>1. CASE payments' = payments
    BY <1>1, Monotone DEF ClaimsArePaid, ClaimsAreUnique
  <1>2. ASSUME NEW w \in Watchers, ClaimPayment(w)
        PROVE  ClaimsArePaid' /\ ClaimsAreUnique'
    <2> DEFINE new == [txn |-> txn(w), req |-> req(w)]
    <2>1. payments' = payments \cup {new} /\ PaysFor(ledger, new.txn, new.req)
      BY <1>2 DEF ClaimPayment, HandPaid
    <2>2. \A row \in payments : row.txn # new.txn /\ IdOf[row.req] # IdOf[new.req]
      BY <1>2 DEF ClaimPayment, Bound
    <2> QED
      BY <2>1, <2>2, Monotone DEF ClaimsArePaid, ClaimsAreUnique
  <1> QED
    BY <1>1, <1>2, PaymentsChange

\* The request of a turn that starts has its claimed payment already.
LEMMA PaidBeforeTurnStep ==
  ASSUME TypeOK, HandPaid, ClaimsArePaid, PaidBeforeTurn, [Next]_vars
  PROVE  PaidBeforeTurn'
  <1>1. CASE turns' = turns
    BY <1>1, Monotone DEF PaidBeforeTurn
  <1>2. ASSUME NEW w \in Watchers, StartTurn(w)
        PROVE  PaidBeforeTurn'
    <2>1. turns' = Append(turns, req(w))
      BY <1>2 DEF StartTurn
    <2>2. PICK row \in payments : row.req = req(w)
      BY <1>2 DEF StartTurn, HandPaid
    <2>3. row \in payments' /\ PaysFor(ledger', row.txn, row.req)
      BY Monotone DEF ClaimsArePaid
    <2>4. ASSUME NEW k \in 1..Len(turns')
          PROVE  \E b \in payments' : b.req = turns'[k] /\ PaysFor(ledger', b.txn, b.req)
      <3>1. CASE k \in 1..Len(turns)
        BY <2>1, <3>1, Monotone DEF PaidBeforeTurn, TypeOK, StoreOK
      <3>2. CASE k = Len(turns) + 1
        BY <2>1, <2>2, <2>3, <3>2 DEF TypeOK, StoreOK
      <3> QED
        BY <2>1, <3>1, <3>2 DEF TypeOK, StoreOK
    <2> QED
      BY <2>4 DEF PaidBeforeTurn
  <1> QED
    BY <1>1, <1>2, TurnsChange

\* A delivery is made for a claimed request, saved, returned, and later posted.
LEMMA DeliveriesClaimedStep ==
  ASSUME TypeOK, HandPaid, DeliveriesClaimed, [Next]_vars
  PROVE  DeliveriesClaimed'
  <1> DEFINE Told == responses \cup posted \cup UNION {out[w] : w \in Watchers}
             Claimed(p) == p.state = "DELIVERED" => \E row \in payments' : row.req = p.req
  <1>1. \A p \in Told : Claimed(p)
    BY Monotone DEF DeliveriesClaimed
  <1>2. CASE Outside \/ UNCHANGED vars
    BY <1>2, <1>1, OutsideFrame DEF DeliveriesClaimed, tables, history, process
  <1>3. ASSUME NEW w \in Watchers, Moves(w)
        PROVE  DeliveriesClaimed'
    <2> DEFINE Kept == \A p \in responses' \cup posted' \cup out'[w] : p \in Told \/ Claimed(p)
    <2>1. Kept
      <3> USE DEF TypeOK, ProcessOK
      <3>1. CASE Exit(w)
        BY <3>1 DEF Exit, tables
      <3>2. CASE Wake(w) \/ SkipChatter(w) \/ Die(w) \/ Restart(w) \/ AskLedger(w)
                 \/ PaymentVerified(w) \/ ClaimPayment(w) \/ ClaimAgain(w)
                 \/ MintGrants(w) \/ StartTurn(w)
        BY <3>2 DEF Wake, SkipChatter, Die, Restart, AskLedger, PaymentVerified,
                    ClaimPayment, ClaimAgain, MintGrants, StartTurn, tables, history
      <3>3. ASSUME NEW state \in States \ {"DELIVERED"}, Refuse(w, state)
            PROVE  Kept
        <4>1. /\ out'[w] = out[w] \cup {Refusal(req(w), state)}
              /\ UNCHANGED <<responses, posted>>
          BY <3>3 DEF Refuse, Answer, tables, history
        <4>2. Refusal(req(w), state).state # "DELIVERED"
          BY <3>3 DEF Refusal
        <4> QED
          BY <4>1, <4>2
      <3>4. CASE ReplayCached(w)
        BY <3>4 DEF ReplayCached, Cached, Answer, tables, history
      <3>5. CASE TurnSucceeds(w)
        <4>1. PICK p : saveResponse(p) /\ Answer(w, p) /\ p.req = req(w)
          BY <3>5 DEF TurnSucceeds
        <4>2. Claimed(p)
          BY <3>5, <4>1, Monotone DEF TurnSucceeds, HandPaid
        <4> QED
          BY <4>1, <4>2 DEF saveResponse, Answer, history
      <3>6. CASE TurnFails(w)
        BY <3>6 DEF TurnFails, Answer, tables, history
      <3> QED
        BY <1>3, <3>1, <3>2, <3>3, <3>4, <3>5, <3>6 DEF Moves, Step, RefuseInput,
           RefuseReusedId, QuotePrice, RefuseMalformedTxn, LedgerUnavailable,
           PaymentNotVerified, ClaimConflict, States
    <2>2. \A v \in Watchers \ {w} : out'[v] = out[v]
      BY <1>3, MovesFrame DEF TypeOK
    <2>3. ASSUME NEW v \in Watchers
          PROVE  \A p \in out'[v] : p \in Told \/ Claimed(p)
      BY <2>1, <2>2
    <2> QED
      BY <1>1, <2>1, <2>3 DEF DeliveriesClaimed
  <1> QED
    BY <1>2, <1>3, NextCases

\* The response returned for a message is for the request in that message.
LEMMA AnswerIsForRequest ==
  ASSUME ProcessOK, NEW w \in Watchers, Moves(w),
         pc[w] # "idle", pc'[w] \notin {"idle", "stopped"}
  PROVE  /\ UNCHANGED <<inbox, cursor>>
         /\ \/ at'[w] = at[w] /\ out'[w] = out[w]
            \/ /\ at'[w] = at[w] + 1 /\ out'[w] = out[w]
               /\ req(w) \notin Requests
            \/ /\ at'[w] = at[w] + 1
               /\ \E p : p.req = req(w) /\ out'[w] = out[w] \cup {p}
  <1> DEFINE Goal == /\ UNCHANGED <<inbox, cursor>>
                     /\ \/ at'[w] = at[w] /\ out'[w] = out[w]
                        \/ /\ at'[w] = at[w] + 1 /\ out'[w] = out[w]
                           /\ req(w) \notin Requests
                        \/ /\ at'[w] = at[w] + 1
                           /\ \E p : p.req = req(w) /\ out'[w] = out[w] \cup {p}
  <1>1. CASE Wake(w) \/ Exit(w) \/ Die(w) \/ Restart(w)
    BY <1>1 DEF Wake, Exit, Die, Restart, ProcessOK
  <1>2. CASE AskLedger(w) \/ PaymentVerified(w) \/ ClaimPayment(w) \/ ClaimAgain(w)
             \/ MintGrants(w) \/ StartTurn(w)
    BY <1>2 DEF AskLedger, PaymentVerified, ClaimPayment, ClaimAgain, MintGrants,
                StartTurn, world
  <1>3. CASE SkipChatter(w)
    BY <1>3 DEF SkipChatter, world, ProcessOK
  <1>4. ASSUME NEW p, p.req = req(w), Answer(w, p)
        PROVE  Goal
    BY <1>4 DEF Answer, world, ProcessOK
  <1>5. ASSUME NEW state, Refuse(w, state)
        PROVE  Goal
    BY <1>4, <1>5 DEF Refuse, Refusal
  <1>6. CASE ReplayCached(w) \/ TurnSucceeds(w) \/ TurnFails(w)
    BY <1>4, <1>6 DEF ReplayCached, TurnSucceeds, TurnFails
  <1> QED
    BY <1>1, <1>2, <1>3, <1>5, <1>6 DEF Moves, Step, RefuseInput, RefuseReusedId,
       QuotePrice, RefuseMalformedTxn, LedgerUnavailable, PaymentNotVerified, ClaimConflict

\* The answers of the batch in hand cover the requests it is past.
LEMMA BatchAnsweredStep ==
  ASSUME TypeOK, InHand, BatchAnswered, [Next]_vars
  PROVE  BatchAnswered'
  <1> USE DEF TypeOK
  <1>1. CASE Outside \/ UNCHANGED vars
    <2>1. UNCHANGED process
      BY <1>1, OutsideFrame
    <2>2. ASSUME NEW w \in Watchers, NEW i \in (cursor[w] + 1)..(at[w] - 1),
                 pc[w] \notin {"idle", "stopped"}, i \in 1..Len(inbox)
          PROVE  inbox'[i].req \in Requests => \E p \in out[w] : p.req = inbox'[i].req
      BY <2>2, Monotone DEF BatchAnswered
    <2>3. \A w \in Watchers : pc[w] \notin {"idle", "stopped"} => at[w] <= Len(inbox) + 1
      BY DEF InHand, ProcessOK, WorldOK
    <2> QED
      <3> SUFFICES ASSUME NEW w \in Watchers, pc[w] \notin {"idle", "stopped"},
                          NEW i \in (cursor[w] + 1)..(at[w] - 1)
                   PROVE  inbox'[i].req \in Requests => \E p \in out[w] : p.req = inbox'[i].req
        BY <2>1 DEF BatchAnswered, process
      <3>1. i \in 1..Len(inbox)
        BY <2>3, Monotone DEF ProcessOK
      <3> QED
        BY <2>2, <3>1
  <1>2. ASSUME NEW w \in Watchers, Moves(w)
        PROVE  BatchAnswered'
    <2> DEFINE Answered(v) == \A i \in (cursor'[v] + 1)..(at'[v] - 1) :
                 inbox[i].req \in Requests => \E p \in out'[v] : p.req = inbox[i].req
    <2>1. ASSUME pc[w] = "idle", pc'[w] \notin {"idle", "stopped"}
          PROVE  Answered(w)
      <3>1. cursor'[w] = cursor[w] /\ at'[w] = cursor[w] + 1
        BY <1>2, <2>1 DEF Moves, Step, Die, Restart, Wake, Exit, SkipChatter, RefuseInput,
           ReplayCached, RefuseReusedId, QuotePrice, RefuseMalformedTxn, AskLedger,
           LedgerUnavailable, PaymentNotVerified, PaymentVerified, ClaimPayment,
           ClaimAgain, ClaimConflict, MintGrants, StartTurn, TurnSucceeds, TurnFails,
           Uncached, AtRequest, ProcessOK
      <3> QED
        BY <3>1 DEF ProcessOK
    <2>2. ASSUME pc[w] \notin {"idle", "stopped"}, pc'[w] \notin {"idle", "stopped"}
          PROVE  Answered(w)
      <3>1. \A i \in (cursor[w] + 1)..(at[w] - 1) :
              inbox[i].req \in Requests => \E p \in out[w] : p.req = inbox[i].req
        BY <2>2 DEF BatchAnswered
      <3>2. cursor'[w] = cursor[w] /\ cursor[w] \in Nat /\ at[w] \in Nat
        BY <1>2, <2>2, AnswerIsForRequest DEF ProcessOK
      <3>3. CASE at'[w] = at[w] /\ out'[w] = out[w]
        BY <3>1, <3>2, <3>3
      <3>4. CASE at'[w] = at[w] + 1 /\ out'[w] = out[w] /\ req(w) \notin Requests
        BY <3>1, <3>2, <3>4 DEF req
      <3>5. ASSUME NEW p, at'[w] = at[w] + 1, p.req = req(w), out'[w] = out[w] \cup {p}
            PROVE  Answered(w)
        BY <3>1, <3>2, <3>5 DEF req
      <3> QED
        BY <1>2, <2>2, <3>3, <3>4, <3>5, AnswerIsForRequest
    <2>3. pc[w] = "stopped" => pc'[w] \in {"idle", "stopped"}
      BY <1>2 DEF Moves, Step, Die, Restart, Wake, Exit, SkipChatter, RefuseInput,
         ReplayCached, RefuseReusedId, QuotePrice, RefuseMalformedTxn, AskLedger,
         LedgerUnavailable, PaymentNotVerified, PaymentVerified, ClaimPayment,
         ClaimAgain, ClaimConflict, MintGrants, StartTurn, TurnSucceeds, TurnFails,
         Uncached, AtRequest, ProcessOK
    <2>4. pc'[w] \notin {"idle", "stopped"} => Answered(w)
      BY <2>1, <2>2, <2>3
    <2> QED
      BY <1>2, <2>4, MovesFrame DEF BatchAnswered
  <1> QED
    BY <1>1, <1>2, NextCases

\* A batch is passed for good only by the exit that posts its answers.
LEMMA HandledStep ==
  ASSUME TypeOK, InHand, BatchAnswered, HandledIsAnswered, [Next]_vars
  PROVE  HandledIsAnswered'
  <1> USE DEF TypeOK
  <1>1. ASSUME NEW w \in Watchers, NEW i \in 1..cursor[w]
        PROVE  inbox'[i].req \in Requests => \E p \in posted' : p.req = inbox'[i].req
    <2>1. i \in 1..Len(inbox)
      BY Monotone DEF InHand, ProcessOK
    <2> QED
      BY <2>1, Monotone DEF HandledIsAnswered
  <1>2. CASE Outside \/ UNCHANGED vars
    BY <1>1, <1>2, OutsideFrame DEF HandledIsAnswered, process
  <1>3. ASSUME NEW w \in Watchers, Moves(w)
        PROVE  HandledIsAnswered'
    <2>1. CASE Exit(w)
      <3>1. cursor'[w] = upto[w] /\ at[w] > upto[w] /\ posted' = posted \cup out[w]
        BY <2>1 DEF Exit, ProcessOK
      <3>2. ASSUME NEW i \in 1..upto[w], i > cursor[w]
            PROVE  inbox[i].req \in Requests => \E p \in posted' : p.req = inbox[i].req
        <4>1. i \in (cursor[w] + 1)..(at[w] - 1)
          BY <3>1, <3>2 DEF ProcessOK
        <4> QED
          BY <2>1, <3>1, <4>1 DEF Exit, BatchAnswered
      <3>3. UNCHANGED inbox
        BY <1>3, MovesFrame
      <3>4. ASSUME NEW i \in 1..cursor'[w]
            PROVE  inbox'[i].req \in Requests => \E p \in posted' : p.req = inbox'[i].req
        BY <1>1, <3>1, <3>2, <3>3 DEF ProcessOK
      <3> QED
        BY <1>1, <1>3, <3>4, MovesFrame DEF HandledIsAnswered
    <2>2. CASE ~Exit(w)
      <3>1. cursor' = cursor
        BY <1>3, <2>2 DEF Moves, Step, Die, Restart, Wake, SkipChatter, RefuseInput,
           ReplayCached, RefuseReusedId, QuotePrice, RefuseMalformedTxn, AskLedger,
           LedgerUnavailable, PaymentNotVerified, PaymentVerified, ClaimPayment,
           ClaimAgain, ClaimConflict, MintGrants, StartTurn, TurnSucceeds, TurnFails,
           Refuse, Answer
      <3> QED
        BY <1>1, <3>1 DEF HandledIsAnswered
    <2> QED
      BY <2>1, <2>2
  <1> QED
    BY <1>2, <1>3, NextCases
-------------------------------------------------------------------------------
\* The invariant that carries them all from step to step.
IInv == /\ TypeOK /\ InHand /\ HandPaid
        /\ ClaimsArePaid /\ ClaimsAreUnique /\ PaidBeforeTurn
        /\ DeliveriesClaimed /\ BatchAnswered /\ HandledIsAnswered

\* IInv is an invariant of the service: it holds at the start and every step keeps it.
THEOREM Inductive == Spec => []IInv
  <1>1. Init => IInv
    <2> SUFFICES ASSUME Init PROVE IInv
      OBVIOUS
    <2>1. TypeOK
      BY DEF Init, TypeOK, WorldOK, StoreOK, ProcessOK
    <2>2. InHand /\ HandPaid /\ BatchAnswered /\ HandledIsAnswered
      BY DEF Init, InHand, HandPaid, BatchAnswered, HandledIsAnswered, Busy
    <2>3. ClaimsArePaid /\ ClaimsAreUnique /\ PaidBeforeTurn /\ DeliveriesClaimed
      BY DEF Init, ClaimsArePaid, ClaimsAreUnique, PaidBeforeTurn, DeliveriesClaimed
    <2> QED
      BY <2>1, <2>2, <2>3 DEF IInv
  <1>2. IInv /\ [Next]_vars => IInv'
    BY TypeStep, InHandStep, HandPaidStep, ClaimsStep, PaidBeforeTurnStep,
       DeliveriesClaimedStep, BatchAnsweredStep, HandledStep DEF IInv
  <1> QED
    BY <1>1, <1>2, PTL DEF Spec

\* Every variable keeps to its type.
THEOREM TypeCorrect == Spec => []TypeOK
  BY Inductive, PTL DEF IInv

\* No Router turn starts for a request without a claimed transfer of its own seat and
\* price, whatever the retries, repeated messages and crashes.
THEOREM TurnsArePaid == Spec => []PaidBeforeTurn
  BY Inductive, PTL DEF IInv

\* arena_payments never binds a transaction or a request_id to two requests.
THEOREM ClaimsStayUnique == Spec => []ClaimsAreUnique
  BY Inductive, PTL DEF IInv

\* No request the watcher has passed for good goes without an answer in the Room.
THEOREM HandledAreAnswered == Spec => []HandledIsAnswered
  BY Inductive, PTL DEF IInv

\* A credit transfer never buys two deliveries.
THEOREM TransfersBuyOnce == Spec => []OneTransferOneDelivery
  <1>1. IInv => OneTransferOneDelivery
    <2> SUFFICES ASSUME IInv PROVE OneTransferOneDelivery
      OBVIOUS
    <2> DEFINE served == {p.req : p \in Delivered}
               rowOf(r) == CHOOSE row \in payments : row.req = r
               f == [r \in served |-> rowOf(r).txn]
    <2>1. \A r \in served : \E row \in payments : row.req = r
      BY DEF IInv, DeliveriesClaimed, Delivered
    <2>2. \A r \in served : rowOf(r) \in payments /\ rowOf(r).req = r
      BY <2>1
    <2>3. \A r \in served : PaysFor(ledger, f[r], r)
      BY <2>2 DEF IInv, ClaimsArePaid
    <2>4. f \in [served -> 1..Len(ledger)]
      BY <2>3 DEF PaysFor
    <2>5. ASSUME NEW r \in served, NEW s \in served, f[r] = f[s]
          PROVE  r = s
      <3> HIDE DEF rowOf, served
      <3>1. rowOf(r).txn = rowOf(s).txn
        BY <2>5
      <3>2. rowOf(r) = rowOf(s)
        BY <2>2, <3>1 DEF IInv, ClaimsAreUnique
      <3> QED
        BY <2>2, <3>2
    <2>6. OneTransferOneDelivery <=>
            \E g \in [served -> 1..Len(ledger)] :
              /\ \A r \in served : PaysFor(ledger, g[r], r)
              /\ \A r, s \in served : g[r] = g[s] => r = s
      BY Zenon DEF OneTransferOneDelivery
    <2> HIDE DEF f, served
    <2> QED
      BY <2>3, <2>4, <2>5, <2>6
  <1> QED
    BY <1>1, Inductive, PTL
===============================================================================
