--------------------------- MODULE ArenaTurnsProofs ---------------------------
(***************************************************************************)
(* Turns, answers and grants of the service loop for any number of         *)
(* watchers: which turn a delivery comes from, what becomes of a saved     *)
(* response, and how many one-use grants there are.                        *)
(***************************************************************************)
EXTENDS ArenaServiceProofs, FiniteSetTheorems

\* The deliveries saved, collected and posted.
Deliveries ==
  {p \in responses \cup posted \cup UNION {out[w] : w \in Watchers} : p.state = "DELIVERED"}

\* The turn a process waits for was started for the message it has in hand.
TurnInHand ==
  \A w \in Watchers : pc[w] = "turn" =>
    trace[w] \in 1..Len(turns) /\ turns[trace[w]] = req(w)

\* Two processes never wait for the same turn.
TurnsApart ==
  \A v, w \in Watchers : pc[v] = "turn" /\ pc[w] = "turn" /\ trace[v] = trace[w] => v = w

\* A delivery comes from a turn for its request that nobody waits for any more.
RanItsTurn ==
  \A p \in Deliveries :
    /\ p.trace \in 1..Len(turns) /\ turns[p.trace] = p.req
    /\ \A w \in Watchers : pc[w] = "turn" => trace[w] # p.trace

OneAnswerPerTurn == \A p, q \in Deliveries : p.trace = q.trace => p = q

\* arena_responses holds deliveries only, one for each request_id.
SavedDeliveries ==
  /\ \A p \in responses : p.state = "DELIVERED"
  /\ \A p, q \in responses : IdOf[p.req] = IdOf[q.req] => p = q

TurnsInv == /\ TurnInHand /\ TurnsApart /\ RanItsTurn
            /\ OneAnswerPerTurn /\ SavedDeliveries

\* A turn in hand begins with StartTurn, and no other step adds a turn.
LEMMA TurnFrame ==
  ASSUME ProcessOK, StoreOK, NEW w \in Watchers, Moves(w)
  PROVE  /\ \A v \in Watchers \ {w} : pc'[v] = pc[v] /\ trace'[v] = trace[v]
                                      /\ at'[v] = at[v] /\ out'[v] = out[v]
         /\ UNCHANGED inbox
         /\ \/ /\ turns' = turns /\ pc'[w] # "turn"
            \/ /\ turns' = Append(turns, req(w)) /\ pc[w] = "start" /\ pc'[w] = "turn"
               /\ trace'[w] = Len(turns) + 1 /\ at'[w] = at[w]
               /\ UNCHANGED <<responses, posted, out>>
  <1>1. CASE StartTurn(w)
    BY <1>1 DEF StartTurn, world, ProcessOK, StoreOK
  <1>2. CASE Wake(w) \/ Exit(w) \/ SkipChatter(w) \/ Die(w) \/ Restart(w) \/ AskLedger(w)
             \/ PaymentVerified(w) \/ ClaimPayment(w) \/ ClaimAgain(w) \/ MintGrants(w)
    BY <1>2 DEF Wake, Exit, SkipChatter, Die, Restart, AskLedger, PaymentVerified,
                ClaimPayment, ClaimAgain, MintGrants, world, history, ProcessOK
  <1>3. ASSUME NEW p, Answer(w, p), \A v \in Watchers \ {w} : trace'[v] = trace[v]
        PROVE  /\ \A v \in Watchers \ {w} : pc'[v] = pc[v] /\ trace'[v] = trace[v]
                                            /\ at'[v] = at[v] /\ out'[v] = out[v]
               /\ UNCHANGED inbox /\ turns' = turns /\ pc'[w] # "turn"
    BY <1>3 DEF Answer, world, history, ProcessOK
  <1>4. ASSUME NEW state, Refuse(w, state)
        PROVE  \E p : Answer(w, p) /\ trace' = trace
    BY <1>4 DEF Refuse
  <1>5. CASE ReplayCached(w) \/ TurnSucceeds(w) \/ TurnFails(w)
    <2>1. \E p : Answer(w, p)
      BY <1>5 DEF ReplayCached, TurnSucceeds, TurnFails
    <2>2. \A v \in Watchers \ {w} : trace'[v] = trace[v]
      BY <1>5 DEF ReplayCached, TurnSucceeds, TurnFails, ProcessOK
    <2> QED
      BY <1>3, <2>1, <2>2
  <1> QED
    BY <1>1, <1>2, <1>3, <1>4, <1>5 DEF Moves, Step, RefuseInput, RefuseReusedId,
       QuotePrice, RefuseMalformedTxn, LedgerUnavailable, PaymentNotVerified, ClaimConflict

\* Only TurnSucceeds makes a delivery, out of the turn in hand, and saves it.
LEMMA NewDelivery ==
  ASSUME ProcessOK, NEW w \in Watchers, Moves(w)
  PROVE  \/ responses' = responses /\ Deliveries' \subseteq Deliveries
         \/ /\ pc[w] = "turn" /\ pc'[w] = "request"
            /\ UNCHANGED <<ledger, payments, turns, posted>>
            /\ \E p : /\ p.req = req(w) /\ p.trace = trace[w] /\ p.state = "DELIVERED"
                      /\ saveResponse(p)
                      /\ Deliveries' \subseteq Deliveries \cup {p}
  <1> DEFINE Told == responses \cup posted \cup UNION {out[v] : v \in Watchers}
             Kept(S) == \A p \in responses' \cup posted' \cup out'[w] :
                          p \in Told \cup S \/ p.state # "DELIVERED"
  <1>1. ASSUME NEW S, Kept(S)
        PROVE  Deliveries' \subseteq Deliveries \cup S
    <2>1. \A v \in Watchers \ {w} : out'[v] = out[v]
      BY MovesFrame
    <2>2. ASSUME NEW p \in Deliveries'
          PROVE  p \in Told \cup S
      <3>1. p.state = "DELIVERED"
        BY DEF Deliveries
      <3>2. CASE p \in responses' \cup posted' \cup out'[w]
        BY <1>1, <3>1, <3>2
      <3>3. CASE \E v \in Watchers \ {w} : p \in out'[v]
        BY <2>1, <3>3
      <3> QED
        BY <3>2, <3>3 DEF Deliveries
    <2> QED
      BY <2>2 DEF Deliveries
  <1>7. ~TurnSucceeds(w) => responses' = responses
    BY DEF Moves, Step, Die, Restart, Wake, Exit, SkipChatter, RefuseInput, ReplayCached,
           RefuseReusedId, QuotePrice, RefuseMalformedTxn, AskLedger, LedgerUnavailable,
           PaymentNotVerified, PaymentVerified, ClaimPayment, ClaimAgain, ClaimConflict,
           MintGrants, StartTurn, TurnFails, Refuse, tables
  <1>2. ASSUME Wake(w) \/ SkipChatter(w) \/ Die(w) \/ Restart(w) \/ AskLedger(w)
               \/ PaymentVerified(w) \/ ClaimPayment(w) \/ ClaimAgain(w)
               \/ MintGrants(w) \/ StartTurn(w) \/ Exit(w)
        PROVE  Deliveries' \subseteq Deliveries
    <2>1. Kept({})
      BY <1>2 DEF Wake, SkipChatter, Die, Restart, AskLedger, PaymentVerified, Exit,
                  ClaimPayment, ClaimAgain, MintGrants, StartTurn, tables, history, ProcessOK
    <2> QED
      BY <1>1, <2>1
  <1>3. ASSUME NEW state \in States \ {"DELIVERED"}, Refuse(w, state)
        PROVE  Deliveries' \subseteq Deliveries
    <2>1. /\ out'[w] = out[w] \cup {Refusal(req(w), state)}
          /\ UNCHANGED <<responses, posted>>
      BY <1>3 DEF Refuse, Answer, tables, history, ProcessOK
    <2>2. Refusal(req(w), state).state # "DELIVERED"
      BY <1>3 DEF Refusal
    <2>3. Kept({})
      BY <2>1, <2>2
    <2> QED
      BY <1>1, <2>3
  <1>4. ASSUME ReplayCached(w)
        PROVE  Deliveries' \subseteq Deliveries
    <2>1. Kept({})
      BY <1>4 DEF ReplayCached, Cached, Answer, tables, history, ProcessOK
    <2> QED
      BY <1>1, <2>1
  <1>5. ASSUME TurnFails(w)
        PROVE  Deliveries' \subseteq Deliveries
    <2>1. Kept({})
      BY <1>5 DEF TurnFails, Answer, tables, history, ProcessOK
    <2> QED
      BY <1>1, <2>1
  <1>6. CASE TurnSucceeds(w)
    <2>1. PICK p : /\ saveResponse(p) /\ Answer(w, p) /\ p.state = "DELIVERED"
                   /\ p.req = req(w) /\ p.trace = trace[w]
      BY <1>6 DEF TurnSucceeds
    <2>2. Kept({p})
      BY <2>1 DEF saveResponse, Answer, history, ProcessOK
    <2>3. /\ pc[w] = "turn" /\ pc'[w] = "request"
          /\ UNCHANGED <<ledger, payments, turns, posted>>
      BY <1>6, <2>1 DEF TurnSucceeds, Answer, ProcessOK, world, history
    <2> QED
      BY <1>1, <2>1, <2>2, <2>3
  <1> QED
    BY <1>2, <1>3, <1>4, <1>5, <1>6, <1>7 DEF Moves, Step, RefuseInput, RefuseReusedId,
       QuotePrice, RefuseMalformedTxn, LedgerUnavailable, PaymentNotVerified,
       ClaimConflict, States

\* The turns in hand stay the ones started for what is in hand, each for one process.
LEMMA TurnInHandStep ==
  ASSUME TypeOK, InHand, TurnInHand, TurnsApart, [Next]_vars
  PROVE  TurnInHand' /\ TurnsApart'
  <1> USE DEF TypeOK
  <1>1. CASE Outside \/ UNCHANGED vars
    <2>1. UNCHANGED <<turns, pc, trace, at>>
      BY <1>1, OutsideFrame DEF history, process
    <2> QED
      BY <1>1, <2>1, OutsideInHand DEF TurnInHand, TurnsApart, req, Busy
  <1>2. ASSUME NEW w \in Watchers, Moves(w)
        PROVE  TurnInHand' /\ TurnsApart'
    <2>1. \A v \in Watchers : pc[v] = "turn" =>
            trace[v] \in 1..Len(turns) /\ turns[trace[v]] = inbox[at[v]].req
      BY DEF TurnInHand, req
    <2>2. Len(turns) \in Nat /\ turns \in Seq(Requests)
      BY DEF StoreOK
    <2>3. CASE turns' = turns /\ pc'[w] # "turn"
      BY <1>2, <2>1, <2>3, TurnFrame DEF TurnInHand, TurnsApart, req
    <2>4. CASE turns' = Append(turns, req(w)) /\ trace'[w] = Len(turns) + 1 /\ at'[w] = at[w]
      <3>1. Len(turns') = Len(turns) + 1 /\ turns'[Len(turns) + 1] = req(w)
            /\ \A k \in 1..Len(turns) : turns'[k] = turns[k]
        BY <2>2, <2>4
      <3>2. UNCHANGED inbox /\ \A v \in Watchers \ {w} :
              pc'[v] = pc[v] /\ trace'[v] = trace[v] /\ at'[v] = at[v]
        BY <1>2, TurnFrame
      <3>3. ASSUME NEW v \in Watchers, pc'[v] = "turn"
            PROVE  trace'[v] \in 1..Len(turns') /\ turns'[trace'[v]] = inbox'[at'[v]].req
        BY <2>1, <2>2, <2>4, <3>1, <3>2, <3>3 DEF req
      <3>4. \A v \in Watchers \ {w} : pc'[v] = "turn" => trace'[v] < trace'[w]
        BY <2>1, <2>2, <2>4, <3>2
      <3> QED
        BY <2>1, <2>2, <3>2, <3>3, <3>4 DEF TurnInHand, TurnsApart, req
    <2> QED
      BY <1>2, <2>3, <2>4, TurnFrame
  <1> QED
    BY <1>1, <1>2, NextCases

\* A delivery is made of a turn once, when its process stops waiting for it.
LEMMA DeliveriesStep ==
  ASSUME TypeOK, InHand, TurnInHand, TurnsApart, RanItsTurn, OneAnswerPerTurn, [Next]_vars
  PROVE  RanItsTurn' /\ OneAnswerPerTurn'
  <1> USE DEF TypeOK
  <1>1. CASE Outside \/ UNCHANGED vars
    <2>1. UNCHANGED <<turns, pc, trace, responses, posted, out>>
      BY <1>1, OutsideFrame DEF history, process, tables
    <2> QED
      BY <2>1 DEF RanItsTurn, OneAnswerPerTurn, Deliveries
  <1>2. ASSUME NEW w \in Watchers, Moves(w)
        PROVE  RanItsTurn' /\ OneAnswerPerTurn'
    <2> DEFINE Ended(k) == \A v \in Watchers : pc'[v] = "turn" => trace'[v] # k
    <2>1. /\ Len(turns) \in Nat /\ Len(turns) <= Len(turns')
          /\ \A k \in 1..Len(turns) : k \in 1..Len(turns') /\ turns'[k] = turns[k]
      BY <1>2, TurnFrame DEF StoreOK
    <2>2. \A p \in Deliveries : /\ p.trace \in 1..Len(turns') /\ turns'[p.trace] = p.req
                                /\ Ended(p.trace)
      <3> TAKE p \in Deliveries
      <3>1. p.trace \in 1..Len(turns) /\ turns[p.trace] = p.req
            /\ \A v \in Watchers : pc[v] = "turn" => trace[v] # p.trace
        BY DEF RanItsTurn
      <3>2. pc'[w] = "turn" => trace'[w] = Len(turns) + 1
        BY <1>2, TurnFrame
      <3>3. Ended(p.trace)
        BY <1>2, <2>1, <3>1, <3>2, TurnFrame
      <3> QED
        BY <2>1, <3>1, <3>3
    <2>3. CASE Deliveries' \subseteq Deliveries
      BY <2>2, <2>3 DEF RanItsTurn, OneAnswerPerTurn
    <2>4. ASSUME NEW p, pc[w] = "turn", pc'[w] = "request",
                 p.req = req(w), p.trace = trace[w],
                 Deliveries' \subseteq Deliveries \cup {p}
          PROVE  RanItsTurn' /\ OneAnswerPerTurn'
      <3>1. p.trace \in 1..Len(turns') /\ turns'[p.trace] = p.req
        BY <2>1, <2>4 DEF TurnInHand
      <3>2. Ended(p.trace)
        BY <1>2, <2>4, TurnFrame DEF TurnsApart
      <3>3. \A q \in Deliveries : q.trace # p.trace
        BY <2>4 DEF RanItsTurn
      <3> QED
        BY <2>2, <2>4, <3>1, <3>2, <3>3 DEF RanItsTurn, OneAnswerPerTurn
    <2> QED
      BY <1>2, <2>3, <2>4, NewDelivery
  <1> QED
    BY <1>1, <1>2, NextCases

\* Only TurnSucceeds saves a response, for the request in hand.
LEMMA ResponsesChange ==
  ASSUME [Next]_vars
  PROVE  responses' = responses
         \/ \E p : p.state = "DELIVERED" /\ saveResponse(p)
  BY DEF Next, Outside, Post, Pay, CoreFails, CoreRecovers, vars, Step, Die, Restart,
         Wake, Exit, SkipChatter, RefuseInput, ReplayCached, RefuseReusedId, QuotePrice,
         RefuseMalformedTxn, AskLedger, LedgerUnavailable, PaymentNotVerified,
         PaymentVerified, ClaimPayment, ClaimAgain, ClaimConflict, MintGrants, StartTurn,
         TurnSucceeds, TurnFails, Refuse, tables

LEMMA SavedStep ==
  ASSUME SavedDeliveries, [Next]_vars
  PROVE  /\ SavedDeliveries'
         /\ \A p \in responses : \E q \in responses' : q.req = p.req
  <1>1. ASSUME NEW p, p.state = "DELIVERED", saveResponse(p)
        PROVE  /\ SavedDeliveries'
               /\ \A s \in responses : \E q \in responses' : q.req = s.req
    BY <1>1 DEF SavedDeliveries, saveResponse, Cached
  <1>2. CASE responses' = responses
    BY <1>2 DEF SavedDeliveries
  <1> QED
    BY <1>1, <1>2, ResponsesChange
-------------------------------------------------------------------------------
\* Grants are minted on the way to the start and spent there; a death leaves one at most.
LEMMA GrantsFrame ==
  ASSUME ProcessOK, StoreOK, WorldOK, NEW w \in Watchers, Moves(w)
  PROVE  /\ \A v \in Watchers \ {w} : pc'[v] = pc[v]
         /\ \/ /\ pc[w] # "start" /\ pc'[w] = "start"
               /\ grants' = grants + 1 /\ failures' = failures
            \/ /\ pc[w] = "start" /\ pc'[w] # "start"
               /\ grants > 0 /\ grants' = grants - 1 /\ failures' = failures
            \/ /\ pc[w] = "start" /\ pc'[w] # "start"
               /\ grants' = grants /\ failures' = failures + 1
            \/ /\ pc[w] # "start" /\ pc'[w] # "start"
               /\ grants' = grants /\ failures' \in Nat /\ failures' >= failures
  <1>1. CASE MintGrants(w) \/ StartTurn(w)
    BY <1>1 DEF MintGrants, StartTurn, ProcessOK, StoreOK
  <1>2. CASE Die(w)
    BY <1>2 DEF Die, tables, ProcessOK, WorldOK
  <1>3. CASE Wake(w) \/ Exit(w) \/ SkipChatter(w) \/ Restart(w)
    BY <1>3 DEF Wake, Exit, SkipChatter, Restart, tables, ProcessOK, WorldOK
  <1>4. CASE AskLedger(w) \/ PaymentVerified(w) \/ ClaimPayment(w) \/ ClaimAgain(w)
    <2>1. pc[w] # "start"
      BY <1>4 DEF AskLedger, PaymentVerified, ClaimPayment, ClaimAgain, Uncached, AtRequest
    <2>2. UNCHANGED <<grants, failures>> /\ \E s \in {"ledger", "claim", "grants"} :
            pc' = [pc EXCEPT ![w] = s]
      BY <1>4 DEF AskLedger, PaymentVerified, ClaimPayment, ClaimAgain, tables
    <2> QED
      BY <2>1, <2>2 DEF ProcessOK, WorldOK
  <1>5. ASSUME NEW p, Answer(w, p), pc[w] # "start", grants' = grants
        PROVE  /\ \A v \in Watchers \ {w} : pc'[v] = pc[v]
               /\ pc'[w] # "start" /\ failures' = failures /\ failures \in Nat
    BY <1>5 DEF Answer, ProcessOK, WorldOK
  <1>6. CASE RefuseInput(w) \/ RefuseReusedId(w) \/ QuotePrice(w) \/ RefuseMalformedTxn(w)
             \/ LedgerUnavailable(w) \/ PaymentNotVerified(w) \/ ClaimConflict(w)
             \/ ReplayCached(w) \/ TurnSucceeds(w) \/ TurnFails(w)
    <2>1. pc[w] # "start" /\ grants' = grants
      BY <1>6 DEF RefuseInput, RefuseReusedId, QuotePrice, RefuseMalformedTxn, Uncached,
                  LedgerUnavailable, PaymentNotVerified, ClaimConflict, ReplayCached,
                  AtRequest, TurnSucceeds, TurnFails, Refuse, tables
    <2>2. \E p : Answer(w, p)
      BY <1>6 DEF RefuseInput, RefuseReusedId, QuotePrice, RefuseMalformedTxn,
                  LedgerUnavailable, PaymentNotVerified, ClaimConflict, ReplayCached,
                  TurnSucceeds, TurnFails, Refuse
    <2> QED
      BY <1>5, <2>1, <2>2 DEF WorldOK
  <1> QED
    BY <1>1, <1>2, <1>3, <1>4, <1>6 DEF Moves, Step

\* The number of processes about to start changes by the one that moves.
LEMMA GrantsStep ==
  ASSUME IsFiniteSet(Watchers), TypeOK, LeftoverGrants, [Next]_vars
  PROVE  LeftoverGrants'
  <1> USE DEF TypeOK
  <1> DEFINE n == Cardinality(Starting)
  <1>1. IsFiniteSet(Starting) /\ n \in Nat
    BY FS_Subset, FS_CardinalityType DEF Starting
  <1>2. grants \in Nat /\ failures \in Nat /\ n <= grants /\ grants <= failures + n
    BY DEF StoreOK, WorldOK, LeftoverGrants
  <1>3. CASE Outside \/ UNCHANGED vars
    <2>1. UNCHANGED <<grants, failures, pc>>
      BY <1>3, OutsideFrame DEF tables, process
    <2> QED
      BY <2>1 DEF LeftoverGrants, Starting
  <1>4. ASSUME NEW w \in Watchers, Moves(w)
        PROVE  LeftoverGrants'
    <2>1. \A v \in Watchers \ {w} : pc'[v] = pc[v]
      BY <1>4, GrantsFrame
    <2>2. ASSUME pc[w] # "start", pc'[w] = "start"
          PROVE  Cardinality(Starting') = n + 1
      <3>1. Starting' = Starting \cup {w} /\ w \notin Starting
        BY <2>1, <2>2 DEF Starting
      <3> QED
        BY <1>1, <3>1, FS_AddElement
    <2>3. ASSUME pc[w] = "start", pc'[w] # "start"
          PROVE  Cardinality(Starting') = n - 1
      <3>1. Starting' = Starting \ {w} /\ w \in Starting
        BY <2>1, <2>3 DEF Starting
      <3> QED
        BY <1>1, <3>1, FS_RemoveElement
    <2>4. ASSUME pc[w] # "start", pc'[w] # "start"
          PROVE  Cardinality(Starting') = n
      BY <2>1, <2>4 DEF Starting
    <2> HIDE DEF n
    <2> QED
      BY <1>1, <1>2, <1>4, <2>2, <2>3, <2>4, GrantsFrame DEF LeftoverGrants
  <1> QED
    BY <1>3, <1>4, NextCases
-------------------------------------------------------------------------------
\* IInv and TurnsInv together are kept by every step of any number of watchers.
THEOREM TurnsInductive == Spec => [](IInv /\ TurnsInv)
  <1>1. Init => TurnsInv
    <2> SUFFICES ASSUME Init PROVE TurnsInv
      OBVIOUS
    <2>1. Deliveries = {} /\ responses = {} /\ \A w \in Watchers : pc[w] = "idle"
      BY DEF Init, Deliveries
    <2> QED
      BY <2>1 DEF TurnsInv, TurnInHand, TurnsApart, RanItsTurn, OneAnswerPerTurn,
                  SavedDeliveries
  <1>2. IInv /\ TurnsInv /\ [Next]_vars => TurnsInv'
    BY TurnInHandStep, DeliveriesStep, SavedStep DEF IInv, TurnsInv
  <1> QED
    BY <1>1, <1>2, Inductive, PTL DEF Spec

\* A delivery posted to the Room comes from a turn run for its own request, and no two
\* deliveries from the same turn, however many watchers overlap.
THEOREM DeliveriesWereRun == Spec => []DeliveredWasRun
  <1>1. TurnsInv => DeliveredWasRun
    BY DEF TurnsInv, RanItsTurn, OneAnswerPerTurn, DeliveredWasRun, Delivered, Deliveries
  <1> QED
    BY <1>1, TurnsInductive, PTL

\* And that turn was paid for: by a ledger entry of the buyer's seat, claimed for it.
THEOREM DeliveriesWerePaidTurns ==
  Spec => [](\A p \in Delivered :
    /\ turns[p.trace] = p.req
    /\ \E row \in payments : row.req = p.req /\ PaysFor(ledger, row.txn, p.req))
  <1>1. IInv /\ TurnsInv => \A p \in Delivered :
          /\ turns[p.trace] = p.req
          /\ \E row \in payments : row.req = p.req /\ PaysFor(ledger, row.txn, p.req)
    BY DEF IInv, TurnsInv, RanItsTurn, PaidBeforeTurn, Delivered, Deliveries
  <1> QED
    BY <1>1, TurnsInductive, PTL

\* A saved response may be replaced by a later delivery of its own request, but never lost
\* and never turned into the response of another request with the same request_id.
THEOREM SavedForGood ==
  Spec => [][\A p \in responses : \E q \in responses' : q.req = p.req]_vars
  <1>1. TurnsInv /\ [Next]_vars => [\A p \in responses : \E q \in responses' : q.req = p.req]_vars
    BY SavedStep DEF TurnsInv
  <1> QED
    BY <1>1, TurnsInductive, PTL DEF Spec

\* Every process about to start a turn finds a grant, and grants are left over only from
\* attempts that died, for any finite number of watchers.
THEOREM GrantsAreSpent ==
  ASSUME IsFiniteSet(Watchers)
  PROVE  Spec => []LeftoverGrants
  <1>1. Init => LeftoverGrants
    <2> SUFFICES ASSUME Init PROVE LeftoverGrants
      OBVIOUS
    <2>1. Starting = {} /\ grants = 0 /\ failures = 0
      BY DEF Init, Starting
    <2> QED
      BY <2>1, FS_EmptySet DEF LeftoverGrants
  <1>2. TypeOK /\ LeftoverGrants /\ [Next]_vars => LeftoverGrants'
    BY GrantsStep
  <1> QED
    BY <1>1, <1>2, TypeCorrect, PTL DEF Spec
===============================================================================
