--------------------------- MODULE OneWatcherProofs ---------------------------
(***************************************************************************)
(* What the service loop keeps true when the seat is watched by one        *)
(* process: a request is executed until it is delivered and no more, every *)
(* delivery of it is the same, and the loop implements PaidDelivery.       *)
(***************************************************************************)
EXTENDS ArenaTurnsProofs

\* One `sharednet watch` at a time for the seat.
OneWatcher == \A v, w \in Watchers : v = w

\* Nothing is saved under the request_id of the request in hand once it was looked up.
NothingSaved ==
  \A w \in Watchers : pc[w] \in Busy => Cached(IdOf[req(w)]) = {}

\* The turn in hand is the last that was started.
LatestTurn == \A w \in Watchers : pc[w] = "turn" => trace[w] = Len(turns)

\* A delivery that is collected or posted has been saved before, exactly as it is.
ToldWasSaved == Deliveries \subseteq responses

OneInv == NothingSaved /\ LatestTurn /\ ToldWasSaved /\ NoTurnAfterDelivery

\* Past the lookup the message in hand stays, and the lookup found nothing.
LEMMA BusyFrame ==
  ASSUME ProcessOK, NEW w \in Watchers, Moves(w), pc'[w] \in Busy
  PROVE  /\ UNCHANGED <<inbox, responses>> /\ at'[w] = at[w]
         /\ pc[w] \in Busy \/ Cached(IdOf[req(w)]) = {}
  <1>1. \A p : ~Answer(w, p)
    BY DEF Answer, Busy, ProcessOK
  <1>2. ~(Wake(w) \/ Exit(w) \/ Die(w) \/ Restart(w) \/ SkipChatter(w))
    BY DEF Wake, Exit, Die, Restart, SkipChatter, Busy, ProcessOK
  <1>3. AskLedger(w) \/ PaymentVerified(w) \/ ClaimPayment(w) \/ ClaimAgain(w)
        \/ MintGrants(w) \/ StartTurn(w)
    BY <1>1, <1>2 DEF Moves, Step, RefuseInput, ReplayCached, RefuseReusedId, QuotePrice,
       RefuseMalformedTxn, LedgerUnavailable, PaymentNotVerified, ClaimConflict,
       TurnSucceeds, TurnFails, Refuse
  <1> QED
    BY <1>3 DEF AskLedger, PaymentVerified, ClaimPayment, ClaimAgain, MintGrants,
                StartTurn, Uncached, Busy, tables, world

\* The delivery of the turn in hand is inserted: it replaces nothing.
LEMMA SaveFrame ==
  ASSUME ProcessOK, NothingSaved, NEW w \in Watchers, Moves(w)
  PROVE  \/ responses' = responses /\ Deliveries' \subseteq Deliveries
         \/ /\ pc[w] = "turn" /\ pc'[w] = "request"
            /\ UNCHANGED <<ledger, payments, turns, posted>>
            /\ \E p : /\ p.req = req(w) /\ p.trace = trace[w] /\ p.state = "DELIVERED"
                      /\ Cached(IdOf[p.req]) = {}
                      /\ responses' = responses \cup {p}
                      /\ Deliveries' \subseteq Deliveries \cup {p}
  <1>1. pc[w] = "turn" => Cached(IdOf[req(w)]) = {}
    BY DEF NothingSaved, Busy
  <1>2. ASSUME NEW p, Cached(IdOf[p.req]) = {}, saveResponse(p)
        PROVE  responses' = responses \cup {p}
    BY <1>2 DEF saveResponse
  <1> QED
    BY <1>1, <1>2, NewDelivery

\* A step of the only watcher keeps what is known of its one turn and its answers.
LEMMA OneStep ==
  ASSUME TypeOK, InHand, OneWatcher, OneInv, [Next]_vars
  PROVE  OneInv'
  <1> USE DEF TypeOK
  <1>1. CASE Outside \/ UNCHANGED vars
    <2>1. UNCHANGED <<turns, pc, trace, at, responses, posted, out>>
      BY <1>1, OutsideFrame DEF history, process, tables
    <2>2. NothingSaved'
      BY <1>1, <2>1, OutsideInHand DEF OneInv, NothingSaved, req, Cached
    <2> QED
      BY <2>1, <2>2 DEF OneInv, LatestTurn, ToldWasSaved, NoTurnAfterDelivery, Deliveries
  <1>2. ASSUME NEW w \in Watchers, Moves(w)
        PROVE  OneInv'
    <2>1. \A v \in Watchers : v = w
      BY DEF OneWatcher
    <2>2. Len(turns) \in Nat /\ turns \in Seq(Requests)
      BY DEF StoreOK
    <2>3. NothingSaved'
      <3>1. ASSUME pc'[w] \in Busy
            PROVE  Cached(IdOf[req(w)])' = {}
        BY <1>2, <3>1, BusyFrame DEF OneInv, NothingSaved, Cached, req
      <3> QED
        BY <2>1, <3>1 DEF NothingSaved
    <2>4. LatestTurn'
      BY <1>2, <2>1, <2>2, TurnFrame DEF LatestTurn
    <2>5. ToldWasSaved'
      BY <1>2, SaveFrame DEF OneInv, ToldWasSaved
    <2>6. NoTurnAfterDelivery'
      <3>1. CASE responses' = responses /\ turns' = turns
        BY <3>1 DEF OneInv, NoTurnAfterDelivery
      <3>2. CASE responses' = responses /\ turns' = Append(turns, req(w)) /\ pc[w] = "start"
        <4>1. \A p \in responses : p.req # req(w)
          BY <3>2 DEF OneInv, NothingSaved, Cached, Busy
        <4>2. ASSUME NEW p \in responses, NEW k \in 1..Len(turns'), turns'[k] = p.req
              PROVE  k \in 1..Len(turns) /\ turns[k] = p.req
          BY <2>2, <3>2, <4>1, <4>2
        <4> QED
          BY <3>2, <4>2 DEF OneInv, NoTurnAfterDelivery
      <3>3. ASSUME NEW p, turns' = turns, p.trace = Len(turns),
                   responses' = responses \cup {p}
            PROVE  NoTurnAfterDelivery'
        BY <2>2, <3>3 DEF OneInv, NoTurnAfterDelivery
      <3> QED
        BY <1>2, <3>1, <3>2, <3>3, SaveFrame, TurnFrame DEF OneInv, LatestTurn
    <2> QED
      BY <2>3, <2>4, <2>5, <2>6 DEF OneInv
  <1> QED
    BY <1>1, <1>2, NextCases
-------------------------------------------------------------------------------
\* What one watcher keeps true of its turn, its answers and the table of responses.
THEOREM OneInductive ==
  ASSUME OneWatcher
  PROVE  Spec => [](IInv /\ TurnsInv /\ OneInv)
  <1>1. Init => OneInv
    <2> SUFFICES ASSUME Init PROVE OneInv
      OBVIOUS
    <2>1. Deliveries = {} /\ responses = {} /\ \A w \in Watchers : pc[w] = "idle"
      BY DEF Init, Deliveries
    <2> QED
      BY <2>1 DEF OneInv, NothingSaved, LatestTurn, ToldWasSaved, NoTurnAfterDelivery, Busy
  <1>2. IInv /\ OneInv /\ [Next]_vars => OneInv'
    BY OneStep DEF IInv
  <1> QED
    BY <1>1, <1>2, TurnsInductive, PTL DEF Spec

\* With one watcher a request is never executed again once its response is saved.
THEOREM NeverRunAgain ==
  ASSUME OneWatcher
  PROVE  Spec => []NoTurnAfterDelivery
  BY OneInductive, PTL DEF OneInv

\* With one watcher every delivery of a request that is ever posted is the same one.
THEOREM AnsweredAlike ==
  ASSUME OneWatcher
  PROVE  Spec => []OneAnswerPerRequest
  <1>1. TurnsInv /\ OneInv => OneAnswerPerRequest
    <2> SUFFICES ASSUME TurnsInv, OneInv,
                        NEW p \in Delivered, NEW q \in Delivered, p.req = q.req
                 PROVE  p = q
      BY DEF OneAnswerPerRequest
    <2>1. p \in responses /\ q \in responses
      BY DEF OneInv, ToldWasSaved, Delivered, Deliveries
    <2> QED
      BY <2>1 DEF TurnsInv, SavedDeliveries
  <1> QED
    BY <1>1, OneInductive, PTL
-------------------------------------------------------------------------------
(* PaidDelivery: payments are what is bound, responses what is delivered.  *)

\* Both modules mean the same by a transfer that pays for a request.
LEMMA SamePayment ==
  ASSUME NEW l, NEW t, NEW r, PaysFor(l, t, r)
  PROVE  Promise!PaysFor(l, t, r)
  BY DEF PaysFor, ledgerPaymentMatches, Price, PRICES, Promise!PaysFor,
         Promise!ledgerPaymentMatches, Promise!Price, Promise!PRICES

\* A claim binds, a turn that succeeds delivers, the exit of a batch tells; no other step
\* is seen by the promise.
LEMMA PromiseStep ==
  ASSUME IInv, OneInv, [Next]_vars
  PROVE  [Promise!Next]_Promise!vars
  <1> USE DEF IInv, TypeOK
  <1>1. CASE Outside \/ UNCHANGED vars
    <2>1. UNCHANGED <<payments, responses, posted>>
      BY <1>1, OutsideFrame DEF history, tables
    <2>2. Delivered' = Delivered
      BY <2>1 DEF Delivered
    <2>3. CASE Pay
      BY <2>1, <2>2, <2>3 DEF Pay, Promise!Next, Promise!Pay
    <2>4. CASE ~Pay
      <3>1. ledger' = ledger
        BY <1>1, <2>4 DEF Outside, Post, CoreFails, CoreRecovers, vars, world
      <3> QED
        BY <2>1, <2>2, <3>1 DEF Promise!vars
    <2> QED
      BY <2>3, <2>4
  <1>2. ASSUME NEW w \in Watchers, Moves(w)
        PROVE  [Promise!Next]_Promise!vars
    <2>1. CASE ClaimPayment(w)
      <3>1. PaysFor(ledger, txn(w), req(w)) /\ req(w) \in Requests
        BY <2>1 DEF ClaimPayment, HandPaid, InHand, Busy
      <3>2. \A b \in payments : b.txn # txn(w) /\ IdOf[b.req] # IdOf[req(w)]
        BY <2>1 DEF ClaimPayment, Bound
      <3>3. payments' = payments \cup {[txn |-> txn(w), req |-> req(w)]}
            /\ UNCHANGED <<ledger, responses, posted>>
        BY <2>1 DEF ClaimPayment, world, history
      <3>4. txn(w) \in 1..Len(ledger) /\ Delivered' = Delivered
        BY <3>1, <3>3 DEF PaysFor, Delivered
      <3> QED
        BY <3>1, <3>2, <3>3, <3>4, SamePayment DEF Promise!Next, Promise!Bind
    <2>2. CASE Exit(w)
      <3>1. UNCHANGED <<ledger, payments, responses>> /\ posted' = posted \cup out[w]
        BY <2>2 DEF Exit, world, tables
      <3>2. Delivered \subseteq Delivered' /\ Delivered' \subseteq responses
        BY <3>1 DEF OneInv, ToldWasSaved, Delivered, Deliveries
      <3> QED
        BY <3>1, <3>2 DEF Promise!Next, Promise!Tell
    <2>3. ASSUME pc[w] = "turn", UNCHANGED <<ledger, payments, posted>>,
                 NEW p, p.req = req(w), p.state = "DELIVERED", Cached(IdOf[p.req]) = {},
                 responses' = responses \cup {p}
          PROVE  Promise!Deliver
      <3>1. \E b \in payments : b.req = p.req
        BY <2>3 DEF HandPaid
      <3>2. \A d \in responses : IdOf[d.req] # IdOf[p.req]
        BY <2>3 DEF Cached
      <3>3. Delivered' = Delivered
        BY <2>3 DEF Delivered
      <3> QED
        BY <2>3, <3>1, <3>2, <3>3 DEF Promise!Deliver
    <2>4. CASE responses' = responses /\ ~ClaimPayment(w) /\ ~Exit(w)
      <3>1. UNCHANGED <<ledger, payments, posted>>
        BY <1>2, <2>4 DEF Moves, Step, Die, Restart, Wake, SkipChatter, RefuseInput,
           ReplayCached, RefuseReusedId, QuotePrice, RefuseMalformedTxn, AskLedger,
           LedgerUnavailable, PaymentNotVerified, PaymentVerified, ClaimAgain,
           ClaimConflict, MintGrants, StartTurn, TurnSucceeds, TurnFails, Refuse, Answer,
           world, tables, history
      <3> QED
        BY <2>4, <3>1 DEF Promise!vars, Delivered
    <2> QED
      BY <1>2, <2>1, <2>2, <2>3, <2>4, SaveFrame DEF OneInv, Promise!Next
  <1> QED
    BY <1>1, <1>2, NextCases

\* With one watcher the service loop, with its retries, crashes and replays, implements
\* PaidDelivery, which has none of them.
THEOREM PromiseIsKept ==
  ASSUME OneWatcher
  PROVE  Spec => KeepsPromise
  <1>1. Init => Promise!Init
    BY DEF Init, Promise!Init, Delivered
  <1>2. IInv /\ OneInv /\ [Next]_vars => [Promise!Next]_Promise!vars
    BY PromiseStep
  <1> QED
    BY <1>1, <1>2, OneInductive, PTL DEF Spec, KeepsPromise
===============================================================================
