------------------------ MODULE EvidenceServiceProofs ------------------------
(***************************************************************************)
(* What the private backend keeps true for any sellers, task types,        *)
(* deliveries, evidence, canaries and worker threads.                      *)
(***************************************************************************)
EXTENDS EvidenceService, FiniteSetTheorems, SequenceTheorems, TLAPS

\* The probes decide on one of the three states, and PASS only when the whole contract is
\* there and met.
LEMMA OutcomeProven ==
  ASSUME NEW e \in Evidence
  PROVE  /\ outcome(e) \in EvidenceState
         /\ outcome(e) = "PASS" => Proven(e)
  <1>1. outcome(e) \in EvidenceState
    BY DEF outcome, aggregate, EvidenceState
  <1>2. ASSUME outcome(e) = "PASS"
        PROVE  Proven(e)
    <2>1. "FAIL" \notin ProbeStates(e) /\ "INCONCLUSIVE" \notin ProbeStates(e)
      BY <1>2 DEF outcome, aggregate
    <2>2. schema_probe(e) \notin {"FAIL", "INCONCLUSIVE"}
      BY <2>1 DEF ProbeStates
    <2>3. assertions_probe(e) \notin {"FAIL", "INCONCLUSIVE"}
      BY <2>1 DEF ProbeStates
    <2>4. injection_probe(e) # "FAIL" /\ contradiction_probe(e) # "FAIL"
      BY <2>1 DEF ProbeStates
    <2>5. \A c \in e.checks : c.state = "PASS"
      BY <2>1 DEF ProbeStates, Evidence, Check, EvidenceState
    <2>6. e.cited => \E c \in e.checks : c.citations
      <3>1. "INCONCLUSIVE" \notin citations_probe(e)
        BY <2>1 DEF ProbeStates
      <3> QED
        BY <3>1 DEF citations_probe
    <2>7. e.schema = "satisfied"
      BY <2>2 DEF schema_probe, Evidence
    <2>8. e.assertions = "hold"
      BY <2>3 DEF assertions_probe, Evidence
    <2>9. ~e.marked /\ ~e.contradictory
      BY <2>4 DEF injection_probe, contradiction_probe
    <2> QED
      BY <2>5, <2>6, <2>7, <2>8, <2>9 DEF Proven
  <1> QED
    BY <1>1, <1>2

\* A FAIL has a reason: nothing that is merely missing makes one.
LEMMA OutcomeRefuted ==
  ASSUME NEW e \in Evidence, outcome(e) = "FAIL"
  PROVE  Refuted(e)
  <1>1. "FAIL" \in ProbeStates(e)
    BY DEF outcome, aggregate
  <1>2. schema_probe(e) = "FAIL" => e.schema = "violated"
    BY DEF schema_probe, Evidence
  <1>3. assertions_probe(e) = "FAIL" => e.assertions = "fail"
    BY DEF assertions_probe, Evidence
  <1>4. /\ injection_probe(e) = "FAIL" => e.marked
        /\ contradiction_probe(e) = "FAIL" => e.contradictory
    BY DEF injection_probe, contradiction_probe
  <1>5. "FAIL" \notin citations_probe(e)
    BY DEF citations_probe
  <1> QED
    BY <1>1, <1>2, <1>3, <1>4, <1>5 DEF ProbeStates, Refuted

\* The contract of a canary is always decided.
LEMMA CanaryDecided ==
  ASSUME NEW q \in Canaries
  PROVE  outcome(q.evidence) \in {"PASS", "FAIL"}
  <1>1. /\ q.evidence.schema \in {"satisfied", "violated"}
        /\ q.evidence.assertions \in {"hold", "fail"}
        /\ ~q.evidence.cited /\ q.evidence.checks = {}
    BY EvidenceAssumption
  <1>2. /\ schema_probe(q.evidence) \in {"PASS", "FAIL"}
        /\ assertions_probe(q.evidence) \in {"PASS", "FAIL"}
        /\ injection_probe(q.evidence) \in {"PASS", "FAIL"}
        /\ contradiction_probe(q.evidence) \in {"PASS", "FAIL"}
        /\ citations_probe(q.evidence) = {}
    BY <1>1
    DEF schema_probe, assertions_probe, injection_probe, contradiction_probe, citations_probe
  <1>3. "INCONCLUSIVE" \notin ProbeStates(q.evidence)
    BY <1>1, <1>2 DEF ProbeStates
  <1> QED
    BY <1>3 DEF outcome, aggregate

\* The confidence is a fraction of natural numbers between 0 and 1.
LEMMA ConfidenceTyped ==
  ASSUME NEW rp \in Counts
  PROVE  \E a, b \in Nat : confidence(rp) = <<a, b>> /\ a < b
  <1>1. Size(rp) \in Nat
    BY DEF Counts, Size
  <1>2. CASE 100 * Size(rp) < 99 * (Size(rp) + 8)
    BY <1>1, <1>2 DEF confidence
  <1>3. CASE ~(100 * Size(rp) < 99 * (Size(rp) + 8))
    BY <1>1, <1>3 DEF confidence
  <1> QED
    BY <1>2, <1>3

\* Whoever reaches 75 reaches 55.
LEMMA ScoreOrder ==
  ASSUME NEW rp \in Counts, ScoreAtLeast(rp, 75)
  PROVE  ScoreAtLeast(rp, 55)
  <1>1. PICK a \in Nat, b \in Nat : confidence(rp) = <<a, b>>
    BY ConfidenceTyped
  <1> DEFINE n == Size(rp)
             N == b * (n + 4)
             X == 10000 * ((b - a) * (n + 4) + 2 * a * (2 + rp.successes))
  <1>2. n \in Nat /\ rp.successes \in Nat
    BY DEF Counts, Size
  <1>3. N \in Nat /\ X \in Int
    BY <1>1, <1>2
  <1>4. (200 * 75 - 1) * b * (n + 4) = 14999 * N /\ (200 * 55 - 1) * b * (n + 4) = 10999 * N
    BY <1>1, <1>2
  <1>5. X >= 14999 * N
    BY <1>1, <1>4 DEF ScoreAtLeast
  <1>6. X >= 10999 * N
    <2> HIDE DEF X, N
    <2> QED
      BY <1>3, <1>5
  <1> QED
    BY <1>1, <1>4, <1>6 DEF ScoreAtLeast

\* The cases of a tier and of a verdict leave nothing out.
LEMMA VerdictTyped ==
  ASSUME NEW rp \in Counts, NEW canary \in Counts
  PROVE  evidence_tier(rp, canary) \in Tiers /\ verdict(rp, canary) \in Verdicts
  <1>1. Size(rp) \in Nat /\ Size(canary) \in Nat
    BY DEF Counts, Size
  <1>2. evidence_tier(rp, canary) \in Tiers
    BY <1>1 DEF evidence_tier, Tiers
  <1>3. verdict(rp, canary) \in Verdicts
    BY <1>1, ScoreOrder DEF verdict, Verdicts
  <1> QED
    BY <1>2, <1>3

\* What is counted in a finite table is a pair of numbers.
LEMMA TallyTyped ==
  ASSUME NEW rows, IsFiniteSet(rows)
  PROVE  Tally(rows) \in Counts
  <1>1. \A x : IsFiniteSet({o \in rows : o.outcome = x})
    BY FS_Subset
  <1> QED
    BY <1>1, FS_CardinalityType DEF Tally, Counts
------------------------------------------------------------------------------
Finite == IsFiniteSet(observations) /\ IsFiniteSet(protocol_observations)

\* A thread in the middle of a reading call has a query, and a seller left to read while
\* it still reads.
HandOK ==
  \A h \in Handlers :
    /\ pc[h] # "idle" => call[h] \in Query
    /\ pc[h] \in {"reputation", "protocol"} => call[h].sellers # <<>>

\* What verify_delivery does: at most a row, and always an event that says whether.
LEMMA VerifyStep ==
  ASSUME TypeOK, NEW q \in Verifications, verify_delivery(q)
  PROVE  \E e \in RecordEvent :
           /\ e.type = "verify_delivery" /\ e.of = q /\ e.state = outcome(q.evidence)
           /\ e.updated = (reputation_eligible(q.evidence) /\ Decisive(e.state)
                             /\ ~DeliveryTaken(q))
           /\ e.replay_suppressed = (Decisive(e.state) /\ ~e.updated)
           /\ audit' = Append(audit, e)
           /\ observations' = WithRow(observations, q, e.state, e.updated)
           /\ UNCHANGED <<protocol_observations, calls>>
  <1> DEFINE state == outcome(q.evidence)
             updated == reputation_eligible(q.evidence) /\ Decisive(state) /\ ~DeliveryTaken(q)
             event == [type |-> "verify_delivery", of |-> q, state |-> state,
                       updated |-> updated,
                       replay_suppressed |-> Decisive(state) /\ ~updated]
  <1>1. state \in EvidenceState
    BY OutcomeProven, EvidenceAssumption
  <1>2. updated \in BOOLEAN /\ (Decisive(state) /\ ~updated) \in BOOLEAN
    BY Zenon DEF Decisive, reputation_eligible
  <1>3. event \in RecordEvent
    <2> HIDE DEF state, updated
    <2> QED
      BY <1>1, <1>2, Zenon DEF RecordEvent
  <1>4. /\ audit' = Append(audit, event)
        /\ observations' = WithRow(observations, q, state, updated)
        /\ UNCHANGED <<protocol_observations, calls>>
    BY DEF verify_delivery, append_audit
  <1> QED
    BY <1>3, <1>4, Zenon

\* What recording a canary does; it always comes out as the probes say, PASS or FAIL.
LEMMA CanaryStep ==
  ASSUME TypeOK, NEW q \in Canaries, probe_observation(q)
  PROVE  \E e \in RecordEvent :
           /\ e.type = "protocol_probe" /\ e.of = q
           /\ e.updated = ~CanaryTaken(q)
           /\ audit' = Append(audit, e)
           /\ protocol_observations' = WithRow(protocol_observations, q, e.state, e.updated)
           /\ e.state = outcome(q.evidence) /\ e.state \in {"PASS", "FAIL"}
           /\ UNCHANGED <<observations, calls>>
  <1> DEFINE state == IF outcome(q.evidence) = "PASS" THEN "PASS" ELSE "FAIL"
             updated == ~CanaryTaken(q)
             event == [type |-> "protocol_probe", of |-> q, state |-> state,
                       updated |-> updated, replay_suppressed |-> ~updated]
  <1>1. state \in {"PASS", "FAIL"} /\ state = outcome(q.evidence)
    BY CanaryDecided
  <1>2. updated \in BOOLEAN /\ (~updated) \in BOOLEAN
    BY Zenon
  <1>3. event \in RecordEvent
    <2> HIDE DEF state, updated
    <2> QED
      BY <1>1, <1>2, Zenon DEF RecordEvent
  <1>4. /\ audit' = Append(audit, event)
        /\ protocol_observations' = WithRow(protocol_observations, q, state, updated)
        /\ UNCHANGED <<observations, calls>>
    BY DEF probe_observation, append_audit
  <1> QED
    BY <1>1, <1>3, <1>4, Zenon

\* A snapshot appends one event with what was read, and leaves the evidence alone.
LEMMA SnapshotStep ==
  ASSUME TypeOK, HandOK, NEW h \in Handlers, trust_snapshot(h)
  PROVE  /\ \E c \in seen[h], e \in ReportEvent :
              /\ e.type = "trust_snapshot" /\ e.seller = c.seller /\ e.task = call[h].task
              /\ e.rep = c.rep /\ e.canary = c.canary /\ e.since = since[h]
              /\ e.verdict = verdict(c.rep, c.canary)
              /\ audit' = Append(audit, e)
         /\ UNCHANGED <<observations, protocol_observations>>
         /\ Finish(h)
  <1> DEFINE event(c) ==
        [type |-> "trust_snapshot", seller |-> c.seller, task |-> call[h].task,
         rep |-> c.rep, canary |-> c.canary, evidence_tier |-> evidence_tier(c.rep, c.canary),
         verdict |-> verdict(c.rep, c.canary), since |-> since[h]]
  <1>1. PICK c \in seen[h] : append_audit(event(c))
    BY DEF trust_snapshot
  <1>2. call[h].task \in TaskTypes
    BY DEF HandOK, trust_snapshot, Query
  <1>3. c.seller \in Sellers /\ c.rep \in Counts /\ c.canary \in Counts /\ since[h] \in Nat
    BY DEF TypeOK
  <1>4. evidence_tier(c.rep, c.canary) \in Tiers /\ verdict(c.rep, c.canary) \in Verdicts
    BY <1>3, VerdictTyped
  <1>5. event(c) \in ReportEvent
    BY <1>2, <1>3, <1>4, Zenon DEF ReportEvent
  <1>6. audit' = Append(audit, event(c))
    BY <1>1 DEF append_audit
  <1>7. /\ UNCHANGED <<observations, protocol_observations>>
        /\ Finish(h)
    BY DEF trust_snapshot
  <1> QED
    BY <1>5, <1>6, <1>7, Zenon

\* So does a recommendation; one in safe mode is of a seller read as ready.
LEMMA RouteStep ==
  ASSUME TypeOK, HandOK, NEW h \in Handlers, best_execution(h)
  PROVE  /\ \E e \in ReportEvent :
              /\ e.type = "best_execution" /\ e.since = since[h]
              /\ e.state = "PASS" /\ e.mode = "safe" =>
                   \E c \in seen[h] :
                     /\ e.recommended = c.seller /\ e.task = call[h].task
                     /\ Tier(c) \in {"VERIFIED", "PROVISIONAL"}
              /\ audit' = Append(audit, e)
         /\ UNCHANGED <<observations, protocol_observations>>
         /\ Finish(h)
  <1> DEFINE event(c) ==
               [type |-> "best_execution", state |-> "PASS", mode |-> call[h].mode,
                task |-> call[h].task, recommended |-> c.seller,
                evidence_tier |-> Tier(c), since |-> since[h]]
             nobody ==
               [type |-> "best_execution", state |-> "INCONCLUSIVE",
                mode |-> call[h].mode, since |-> since[h]]
  <1>1. call[h].task \in TaskTypes /\ call[h].mode \in {"safe", "explore"}
    BY DEF HandOK, best_execution, Query
  <1>2. since[h] \in Nat /\ seen[h] \subseteq [seller : Sellers, rep : Counts, canary : Counts]
    BY DEF TypeOK
  <1>3. /\ UNCHANGED <<observations, protocol_observations>>
        /\ Finish(h)
    BY DEF best_execution
  <1>4. CASE \E c \in Eligible(h) : append_audit(event(c))
    <2>1. PICK c \in Eligible(h) : append_audit(event(c))
      BY <1>4
    <2>2. /\ c \in seen[h] /\ Tier(c) # "REJECTED"
          /\ call[h].mode = "safe" => Tier(c) \in {"VERIFIED", "PROVISIONAL"}
      BY DEF Eligible, evidence_ready, routeable, viable
    <2>3. c.seller \in Sellers /\ Tier(c) \in Tiers \ {"REJECTED"}
      BY <1>2, <2>2, VerdictTyped DEF Tier
    <2>4. event(c) \in ReportEvent
      BY <1>1, <1>2, <2>3, Zenon DEF ReportEvent
    <2>5. audit' = Append(audit, event(c))
      BY <2>1 DEF append_audit
    <2>6. /\ event(c).mode = call[h].mode /\ event(c).since = since[h]
          /\ event(c).type = "best_execution" /\ event(c).state = "PASS"
          /\ event(c).recommended = c.seller /\ event(c).task = call[h].task
      OBVIOUS
    <2> HIDE DEF event
    <2> QED
      BY <1>3, <2>2, <2>4, <2>5, <2>6
  <1>5. CASE append_audit(nobody)
    <2>1. nobody \in ReportEvent
      BY <1>1, <1>2, Zenon DEF ReportEvent
    <2>2. audit' = Append(audit, nobody)
      BY <1>5 DEF append_audit
    <2>3. /\ nobody.type = "best_execution" /\ nobody.since = since[h]
          /\ nobody.state # "PASS"
      OBVIOUS
    <2> HIDE DEF nobody
    <2> QED
      BY <1>3, <2>1, <2>2, <2>3
  <1> QED
    BY <1>4, <1>5 DEF best_execution

\* Either way a report is appended, and the thread is done.
LEMMA ReportStep ==
  ASSUME TypeOK, HandOK, NEW h \in Handlers, trust_snapshot(h) \/ best_execution(h)
  PROVE  /\ \E e \in ReportEvent : audit' = Append(audit, e)
         /\ UNCHANGED <<observations, protocol_observations>>
         /\ Finish(h)
  BY SnapshotStep, RouteStep

\* What a step does to the tables and the trail.
LEMMA StepKinds ==
  ASSUME TypeOK, HandOK, [Next]_vars
  PROVE  \/ \E q \in Verifications : verify_delivery(q)
         \/ \E q \in Canaries : probe_observation(q)
         \/ /\ UNCHANGED <<observations, protocol_observations>>
            /\ audit' = audit \/ \E e \in ReportEvent : audit' = Append(audit, e)
  <1>1. CASE \E h \in Handlers : trust_snapshot(h) \/ best_execution(h)
    BY <1>1, ReportStep
  <1>2. CASE \E h \in Handlers : Begin(h) \/ ReadReputation(h) \/ ReadProtocolReputation(h)
                                   \/ Die(h)
    BY <1>2 DEF Begin, ReadReputation, ReadProtocolReputation, Die, tables
  <1>3. CASE UNCHANGED vars
    BY <1>3 DEF vars, tables
  <1> QED
    BY <1>1, <1>2, <1>3, Zenon DEF Next
------------------------------------------------------------------------------
(* Types.                                                                  *)

TypeInv == TypeOK /\ Finite /\ HandOK

\* The empty database with idle threads is well typed.
LEMMA TypeInit == ASSUME Init PROVE TypeInv
  <1>1. Finite
    BY FS_EmptySet DEF Init, Finite
  <1>2. NoEvidence \in Counts
    BY DEF NoEvidence, Counts
  <1>3. audit \in Seq(RecordEvent \cup ReportEvent)
    BY DEF Init
  <1> QED
    BY <1>1, <1>2, <1>3 DEF Init, TypeInv, TypeOK, HandOK

\* A thread that ends its call is left well typed.
LEMMA FinishTyped ==
  ASSUME TypeInv, NEW h \in Handlers, Finish(h)
  PROVE  /\ pc' \in [Handlers -> {"idle", "reputation", "protocol", "append"}]
         /\ call' \in [Handlers -> Query \cup {NoCall}]
         /\ rep' \in [Handlers -> Counts]
         /\ seen' \in [Handlers -> SUBSET [seller : Sellers, rep : Counts, canary : Counts]]
         /\ since' \in [Handlers -> Nat]
         /\ HandOK'
  <1>1. NoEvidence \in Counts
    BY DEF NoEvidence, Counts
  <1> QED
    BY <1>1 DEF TypeInv, TypeOK, HandOK, Finish

\* A sequence of more than one element has a tail.
LEMMA LongTail ==
  ASSUME NEW S, NEW s \in Seq(S), Len(s) > 1
  PROVE  Tail(s) # <<>>
  <1>1. Tail(s) \in Seq(S) /\ Len(Tail(s)) = Len(s) - 1
    OBVIOUS
  <1>2. Len(s) \in Nat
    OBVIOUS
  <1>3. Len(Tail(s)) # 0
    BY <1>1, <1>2
  <1> QED
    BY <1>1, <1>3, EmptySeq

\* A query with its first seller crossed off is still a query.
LEMMA SellersLeft ==
  ASSUME NEW q \in Query, q.sellers # <<>>
  PROVE  /\ [q EXCEPT !.sellers = Tail(@)] \in Query
         /\ [q EXCEPT !.sellers = Tail(@)].sellers = Tail(q.sellers)
         /\ Len(q.sellers) > 1 => Tail(q.sellers) # <<>>
  <1>1. q.sellers \in Seq(Sellers)
    BY DEF Query
  <1>2. Tail(q.sellers) \in Seq(Sellers) /\ Len(Tail(q.sellers)) = Len(q.sellers) - 1
    BY <1>1
  <1>3. /\ [q EXCEPT !.sellers = Tail(@)] \in Query
        /\ [q EXCEPT !.sellers = Tail(@)].sellers = Tail(q.sellers)
    BY <1>2 DEF Query
  <1>5. Len(q.sellers) > 1 => Tail(q.sellers) # <<>>
    BY <1>1, LongTail
  <1> QED
    BY <1>3, <1>5

\* Types, finite tables and queries in hand survive every step.
LEMMA TypeStep == ASSUME TypeInv, [Next]_vars PROVE TypeInv'
  <1> USE DEF TypeInv
  <1>1. ASSUME NEW q \in Verifications, verify_delivery(q) PROVE TypeInv'
    <2>1. PICK e \in RecordEvent :
            /\ e.type = "verify_delivery" /\ e.of = q /\ e.state = outcome(q.evidence)
            /\ e.updated = (reputation_eligible(q.evidence) /\ Decisive(e.state)
                              /\ ~DeliveryTaken(q))
            /\ e.replay_suppressed = (Decisive(e.state) /\ ~e.updated)
            /\ audit' = Append(audit, e)
            /\ observations' = WithRow(observations, q, e.state, e.updated)
            /\ UNCHANGED <<protocol_observations, calls>>
      BY <1>1, VerifyStep
    <2>2. e.updated => e.state \in {"PASS", "FAIL"}
      BY <2>1 DEF Decisive
    <2>3. observations' \subseteq [of : Verifications, outcome : {"PASS", "FAIL"}]
      BY <2>1, <2>2 DEF TypeOK, WithRow
    <2>4. Finite'
      BY <2>1, FS_AddElement, FS_EmptySet, FS_Union DEF Finite, WithRow
    <2>5. audit' \in Seq(RecordEvent \cup ReportEvent)
      BY <2>1 DEF TypeOK
    <2> QED
      BY <2>1, <2>3, <2>4, <2>5 DEF TypeOK, HandOK, calls
  <1>2. ASSUME NEW q \in Canaries, probe_observation(q) PROVE TypeInv'
    <2>1. PICK e \in RecordEvent :
            /\ audit' = Append(audit, e)
            /\ protocol_observations' = WithRow(protocol_observations, q, e.state, e.updated)
            /\ e.state \in {"PASS", "FAIL"}
            /\ UNCHANGED <<observations, calls>>
      BY <1>2, CanaryStep
    <2>2. protocol_observations' \subseteq [of : Canaries, outcome : {"PASS", "FAIL"}]
      BY <2>1 DEF TypeOK, WithRow
    <2>3. Finite'
      BY <2>1, FS_AddElement, FS_EmptySet, FS_Union DEF Finite, WithRow
    <2>4. audit' \in Seq(RecordEvent \cup ReportEvent)
      BY <2>1 DEF TypeOK
    <2> QED
      BY <2>1, <2>2, <2>3, <2>4 DEF TypeOK, HandOK, calls
  <1>3. ASSUME NEW h \in Handlers, Begin(h) PROVE TypeInv'
    <2>1. PICK q \in Queries : call' = [call EXCEPT ![h] = q]
      BY <1>3 DEF Begin
    <2>2. q \in Query /\ q.sellers # <<>>
      BY EvidenceAssumption
    <2>3. Len(audit) \in Nat
      BY DEF TypeOK
    <2> QED
      BY <1>3, <2>1, <2>2, <2>3 DEF Begin, TypeOK, HandOK, Finite, tables
  <1>4. ASSUME NEW h \in Handlers, ReadReputation(h) PROVE TypeInv'
    <2>1. reputation(Head(call[h].sellers), call[h].task) \in Counts
      BY TallyTyped, FS_Subset DEF Finite, reputation, About
    <2> QED
      BY <1>4, <2>1 DEF ReadReputation, TypeOK, HandOK, Finite, tables
  <1>5. ASSUME NEW h \in Handlers, ReadProtocolReputation(h) PROVE TypeInv'
    <2> DEFINE s == Head(call[h].sellers)
    <2>1. call[h] \in Query /\ call[h].sellers # <<>> /\ call[h].sellers \in Seq(Sellers)
      BY <1>5 DEF ReadProtocolReputation, HandOK, Query
    <2>2. s \in Sellers
      BY <2>1
    <2>3. protocol_reputation(s) \in Counts
      BY TallyTyped, FS_Subset DEF Finite, protocol_reputation
    <2>4. rep[h] \in Counts
      BY DEF TypeOK
    <2>5. [call[h] EXCEPT !.sellers = Tail(@)] \in Query
      BY <2>1, SellersLeft
    <2>6. Len(call[h].sellers) > 1 => Tail(call[h].sellers) # <<>>
      BY <2>1, SellersLeft
    <2>7. seen' \in [Handlers -> SUBSET [seller : Sellers, rep : Counts, canary : Counts]]
      BY <1>5, <2>2, <2>3, <2>4 DEF ReadProtocolReputation, TypeOK
    <2>8. /\ call' \in [Handlers -> Query \cup {NoCall}]
          /\ call'[h] \in Query /\ call'[h].sellers = Tail(call[h].sellers)
          /\ \A g \in Handlers \ {h} : call'[g] = call[g]
      BY <1>5, <2>1, <2>5 DEF ReadProtocolReputation, TypeOK, Query
    <2>9. HandOK'
      BY <1>5, <2>6, <2>8 DEF ReadProtocolReputation, TypeOK, HandOK
    <2> QED
      BY <1>5, <2>7, <2>8, <2>9 DEF ReadProtocolReputation, TypeOK, Finite, tables
  <1>6. ASSUME NEW h \in Handlers, trust_snapshot(h) \/ best_execution(h) PROVE TypeInv'
    <2>1. /\ \E e \in ReportEvent : audit' = Append(audit, e)
          /\ UNCHANGED <<observations, protocol_observations>>
          /\ Finish(h)
      BY <1>6, ReportStep
    <2>2. audit' \in Seq(RecordEvent \cup ReportEvent)
      BY <2>1 DEF TypeOK
    <2> QED
      BY <2>1, <2>2, FinishTyped DEF TypeOK, Finite
  <1>7. ASSUME NEW h \in Handlers, Die(h) PROVE TypeInv'
    BY <1>7, FinishTyped DEF Die, TypeOK, Finite, tables
  <1>8. CASE UNCHANGED vars
    BY <1>8 DEF vars, tables, calls, TypeOK, Finite, HandOK
  <1> QED
    BY <1>1, <1>2, <1>3, <1>4, <1>5, <1>6, <1>7, <1>8, Zenon DEF Next
------------------------------------------------------------------------------
(* The trail and the tables.                                               *)

\* An event appended to the trail changes nothing before it.
LEMMA Appended ==
  ASSUME TypeOK, NEW e \in RecordEvent \cup ReportEvent, audit' = Append(audit, e)
  PROVE  /\ Len(audit) \in Nat /\ Len(audit') = Len(audit) + 1
         /\ audit'[Len(audit) + 1] = e
         /\ \A k \in 1..Len(audit) : audit'[k] = audit[k]
  BY DEF TypeOK

\* The updates up to a moment of the past, and up to now.
LEMMA UpdatesAppend ==
  ASSUME TypeOK, NEW e \in RecordEvent \cup ReportEvent, audit' = Append(audit, e), NEW type
  PROVE  /\ \A n \in 0..Len(audit) : Updates(type, n)' = Updates(type, n)
         /\ e.type = type /\ e.updated =>
              Updates(type, Len(audit))' = Updates(type, Len(audit)) \cup {Len(audit) + 1}
         /\ ~(e.type = type /\ e.updated) =>
              Updates(type, Len(audit))' = Updates(type, Len(audit))
  BY Appended DEF Updates

\* The rows rebuilt from the trail grow by the row of an update, and by nothing else.
LEMMA RebuiltAppend ==
  ASSUME TypeOK, NEW e \in RecordEvent \cup ReportEvent, audit' = Append(audit, e), NEW type
  PROVE  /\ e.type = type /\ e.updated =>
              Rebuilt(type)' = Rebuilt(type) \cup {[of |-> e.of, outcome |-> e.state]}
         /\ ~(e.type = type /\ e.updated) => Rebuilt(type)' = Rebuilt(type)
  <1> DEFINE U == Updates(type, Len(audit))
             V == Updates(type, Len(audit))'
             row(k) == [of |-> audit[k].of, outcome |-> audit[k].state]
             next(k) == [of |-> audit'[k].of, outcome |-> audit'[k].state]
             new == Len(audit) + 1
  <1>1. U \subseteq 1..Len(audit)
    BY DEF Updates
  <1>2. \A k \in U : next(k) = row(k)
    BY <1>1, Appended
  <1>3. Rebuilt(type) = {row(k) : k \in U} /\ Rebuilt(type)' = {next(k) : k \in V}
    BY DEF Rebuilt
  <1>4. next(new) = [of |-> e.of, outcome |-> e.state]
    BY Appended
  <1>5. ASSUME e.type = type, e.updated
        PROVE  Rebuilt(type)' = Rebuilt(type) \cup {[of |-> e.of, outcome |-> e.state]}
    <2>1. V = U \cup {new}
      BY <1>5, UpdatesAppend
    <2> HIDE DEF U, V, row, next, new
    <2> QED
      BY <1>2, <1>3, <1>4, <2>1
  <1>6. ASSUME ~(e.type = type /\ e.updated)
        PROVE  Rebuilt(type)' = Rebuilt(type)
    <2>1. V = U
      BY <1>6, UpdatesAppend
    <2> HIDE DEF U, V, row, next
    <2> QED
      BY <1>2, <1>3, <2>1
  <1> QED
    BY <1>5, <1>6

\* The outcome of a row is what the probes say of its evidence, and a delivery's row has
\* a whole contract.
RowsJudged ==
  /\ \A o \in observations \cup protocol_observations : o.outcome = outcome(o.of.evidence)
  /\ \A o \in observations : reputation_eligible(o.of.evidence)

TrailInv == TrailMatchesTables /\ CountedOnce /\ SuppressedWasCounted /\ RowsJudged

\* Nothing is in the trail or the tables at first.
LEMMA TrailInit == ASSUME Init PROVE TrailInv
  <1>1. Len(audit) = 0
    BY DEF Init
  <1>2. \A type : Updates(type, Len(audit)) = {}
    BY <1>1 DEF Updates
  <1> QED
    BY <1>1, <1>2
    DEF Init, TrailInv, TrailMatchesTables, Rebuilt, CountedOnce, SuppressedWasCounted,
        RowsJudged

\* The UNIQUE constraints refuse exactly what an update of the trail has used up.
LEMMA TakenIsCounted ==
  ASSUME TrailMatchesTables
  PROVE  /\ \A q \in Verifications :
              DeliveryTaken(q) <=> \E j \in Updates("verify_delivery", Len(audit)) :
                                     audit[j].of.delivery = q.delivery
         /\ \A q \in Canaries :
              CanaryTaken(q) <=> \E j \in Updates("protocol_probe", Len(audit)) :
                                   audit[j].of.probe = q.probe
  <1>1. ASSUME NEW q \in Verifications
        PROVE  DeliveryTaken(q) <=> \E o \in observations : o.of.delivery = q.delivery
    BY DEF DeliveryTaken, fingerprint
  <1>2. ASSUME NEW q \in Canaries
        PROVE  CanaryTaken(q) <=> \E o \in protocol_observations : o.of.probe = q.probe
    BY DEF CanaryTaken
  <1>3. ASSUME NEW type
        PROVE  /\ \A o \in Rebuilt(type) : \E j \in Updates(type, Len(audit)) :
                                             o.of = audit[j].of
               /\ \A j \in Updates(type, Len(audit)) : \E o \in Rebuilt(type) :
                                                         o.of = audit[j].of
    <2> DEFINE row(k) == [of |-> audit[k].of, outcome |-> audit[k].state]
    <2>1. \A k : row(k).of = audit[k].of
      OBVIOUS
    <2>2. Rebuilt(type) = {row(k) : k \in Updates(type, Len(audit))}
      BY DEF Rebuilt
    <2> HIDE DEF row
    <2> QED
      BY <2>1, <2>2
  <1>4. /\ observations = Rebuilt("verify_delivery")
        /\ protocol_observations = Rebuilt("protocol_probe")
    BY DEF TrailMatchesTables
  <1>5. \A q \in Verifications :
          DeliveryTaken(q) <=> \E j \in Updates("verify_delivery", Len(audit)) :
                                 audit[j].of.delivery = q.delivery
    BY <1>1, <1>3, <1>4
  <1>6. \A q \in Canaries :
          CanaryTaken(q) <=> \E j \in Updates("protocol_probe", Len(audit)) :
                               audit[j].of.probe = q.probe
    BY <1>2, <1>3, <1>4
  <1> QED
    BY <1>5, <1>6

\* What was suppressed stays justified; an event of another kind needs no justification.
LEMMA KeepsSuppressed ==
  ASSUME TypeOK, SuppressedWasCounted,
         NEW e \in RecordEvent \cup ReportEvent, audit' = Append(audit, e),
         e.type # "verify_delivery"
  PROVE  SuppressedWasCounted'
  <1> DEFINE V == "verify_delivery"
             new == Len(audit) + 1
  <1>1. /\ Len(audit) \in Nat /\ Len(audit') = new /\ audit'[new] = e
        /\ \A k \in 1..Len(audit) : audit'[k] = audit[k]
    BY Appended
  <1>2. \A n \in 0..Len(audit) : Updates(V, n)' = Updates(V, n)
    BY UpdatesAppend
  <1>3. \A n : Updates(V, n) \subseteq 1..n
    BY DEF Updates
  <1> SUFFICES ASSUME NEW k \in 1..new,
                      audit'[k].type = V, reputation_eligible(audit'[k].of.evidence),
                      audit'[k].replay_suppressed
               PROVE  \E j \in Updates(V, k - 1)' :
                        audit'[j].of.delivery = audit'[k].of.delivery
    BY <1>1 DEF SuppressedWasCounted
  <1>4. k \in 1..Len(audit)
    BY <1>1
  <1>5. \E j \in Updates(V, k - 1) : audit[j].of.delivery = audit[k].of.delivery
    BY <1>1, <1>4 DEF SuppressedWasCounted
  <1>6. k - 1 \in 0..Len(audit) /\ \A j \in Updates(V, k - 1) : j \in 1..Len(audit)
    BY <1>1, <1>3, <1>4
  <1> QED
    BY <1>1, <1>2, <1>4, <1>5, <1>6

\* verify_delivery: the row goes in exactly when the event says so, and is the first.
LEMMA VerifyKeepsTrail ==
  ASSUME TypeOK, TrailInv, NEW q \in Verifications, verify_delivery(q)
  PROVE  TrailInv'
  <1> DEFINE V == "verify_delivery"
             P == "protocol_probe"
             new == Len(audit) + 1
  <1>1. PICK e \in RecordEvent :
          /\ e.type = V /\ e.of = q /\ e.state = outcome(q.evidence)
          /\ e.updated = (reputation_eligible(q.evidence) /\ Decisive(e.state)
                            /\ ~DeliveryTaken(q))
          /\ e.replay_suppressed = (Decisive(e.state) /\ ~e.updated)
          /\ audit' = Append(audit, e)
          /\ observations' = WithRow(observations, q, e.state, e.updated)
          /\ UNCHANGED <<protocol_observations, calls>>
    BY VerifyStep
  <1>2. /\ Len(audit) \in Nat /\ Len(audit') = new /\ audit'[new] = e
        /\ \A k \in 1..Len(audit) : audit'[k] = audit[k]
    BY <1>1, Appended
  <1>3. /\ \A n \in 0..Len(audit) : Updates(V, n)' = Updates(V, n)
        /\ e.updated => Updates(V, Len(audit))' = Updates(V, Len(audit)) \cup {new}
        /\ ~e.updated => Updates(V, Len(audit))' = Updates(V, Len(audit))
        /\ Updates(P, Len(audit))' = Updates(P, Len(audit))
    BY <1>1, UpdatesAppend
  <1>4. DeliveryTaken(q) <=> \E j \in Updates(V, Len(audit)) :
                               audit[j].of.delivery = q.delivery
    BY TakenIsCounted DEF TrailInv
  <1>5. \A t, n : Updates(t, n) \subseteq 1..n
    BY DEF Updates
  <1>6. TrailMatchesTables'
    <2>1. /\ e.updated => Rebuilt(V)' = Rebuilt(V) \cup {[of |-> q, outcome |-> e.state]}
          /\ ~e.updated => Rebuilt(V)' = Rebuilt(V)
          /\ Rebuilt(P)' = Rebuilt(P)
      BY <1>1, RebuiltAppend
    <2> QED
      BY <1>1, <2>1 DEF TrailInv, TrailMatchesTables, WithRow
  <1>7. CountedOnce'
    <2>1. ASSUME NEW j \in Updates(V, Len(audit))', NEW k \in Updates(V, Len(audit))',
                 audit'[j].of.delivery = audit'[k].of.delivery
          PROVE  j = k
      <3>1. CASE j \in Updates(V, Len(audit)) /\ k \in Updates(V, Len(audit))
        BY <1>2, <1>5, <2>1, <3>1 DEF TrailInv, CountedOnce
      <3>2. CASE j = new /\ k = new
        BY <3>2
      <3>3. CASE /\ e.updated
                 /\ \/ j = new /\ k \in Updates(V, Len(audit))
                    \/ k = new /\ j \in Updates(V, Len(audit))
        BY <1>1, <1>2, <1>4, <1>5, <2>1, <3>3
      <3> QED
        BY <1>3, <2>1, <3>1, <3>2, <3>3
    <2>2. ASSUME NEW j \in Updates(P, Len(audit))', NEW k \in Updates(P, Len(audit))',
                 audit'[j].of.probe = audit'[k].of.probe
          PROVE  j = k
      BY <1>2, <1>3, <1>5, <2>2 DEF TrailInv, CountedOnce
    <2> QED
      BY <2>1, <2>2 DEF CountedOnce
  <1>8. SuppressedWasCounted'
    <2> SUFFICES ASSUME NEW k \in 1..new,
                        audit'[k].type = V, reputation_eligible(audit'[k].of.evidence),
                        audit'[k].replay_suppressed
                 PROVE  \E j \in Updates(V, k - 1)' :
                          audit'[j].of.delivery = audit'[k].of.delivery
      BY <1>2 DEF SuppressedWasCounted
    <2>1. k - 1 \in 0..Len(audit)
      BY <1>2
    <2>2. Updates(V, k - 1)' = Updates(V, k - 1)
      BY <1>3, <2>1
    <2>3. CASE k = new
      <3>1. DeliveryTaken(q)
        BY <1>1, <1>2, <2>3
      <3>2. Updates(V, k - 1)' = Updates(V, Len(audit))
        BY <1>2, <2>2, <2>3
      <3> QED
        BY <1>1, <1>2, <1>4, <1>5, <2>3, <3>1, <3>2
    <2>4. CASE k \in 1..Len(audit)
      <3>1. \E j \in Updates(V, k - 1) : audit[j].of.delivery = audit[k].of.delivery
        BY <1>2, <2>4 DEF TrailInv, SuppressedWasCounted
      <3>2. \A j \in Updates(V, k - 1) : j \in 1..Len(audit)
        BY <1>2, <1>5, <2>1
      <3> QED
        BY <1>2, <2>2, <2>4, <3>1, <3>2
    <2> QED
      BY <1>2, <2>3, <2>4
  <1>9. RowsJudged'
    <2>1. ASSUME NEW o \in observations' \cup protocol_observations'
          PROVE  o.outcome = outcome(o.of.evidence)
      BY <1>1 DEF TrailInv, RowsJudged, WithRow
    <2>2. ASSUME NEW o \in observations' PROVE reputation_eligible(o.of.evidence)
      <3>1. CASE o \in observations
        BY <3>1 DEF TrailInv, RowsJudged
      <3>2. CASE e.updated /\ o = [of |-> q, outcome |-> e.state]
        <4>1. reputation_eligible(q.evidence)
          BY <1>1, <3>2
        <4> QED
          BY <3>2, <4>1
      <3> QED
        BY <1>1, <3>1, <3>2 DEF WithRow
    <2> QED
      BY <2>1, <2>2 DEF RowsJudged
  <1> QED
    BY <1>6, <1>7, <1>8, <1>9 DEF TrailInv

\* probe_observation, likewise.
LEMMA CanaryKeepsTrail ==
  ASSUME TypeOK, TrailInv, NEW q \in Canaries, probe_observation(q)
  PROVE  TrailInv'
  <1> DEFINE V == "verify_delivery"
             P == "protocol_probe"
             new == Len(audit) + 1
  <1>1. PICK e \in RecordEvent :
          /\ e.type = P /\ e.of = q
          /\ e.updated = ~CanaryTaken(q)
          /\ audit' = Append(audit, e)
          /\ protocol_observations' = WithRow(protocol_observations, q, e.state, e.updated)
          /\ e.state = outcome(q.evidence)
          /\ UNCHANGED <<observations, calls>>
    BY CanaryStep
  <1>2. /\ Len(audit) \in Nat /\ Len(audit') = new /\ audit'[new] = e
        /\ \A k \in 1..Len(audit) : audit'[k] = audit[k]
    BY <1>1, Appended
  <1>3. /\ \A n \in 0..Len(audit) : Updates(V, n)' = Updates(V, n)
        /\ e.updated => Updates(P, Len(audit))' = Updates(P, Len(audit)) \cup {new}
        /\ ~e.updated => Updates(P, Len(audit))' = Updates(P, Len(audit))
        /\ Updates(V, Len(audit))' = Updates(V, Len(audit))
    BY <1>1, UpdatesAppend
  <1>4. CanaryTaken(q) <=> \E j \in Updates(P, Len(audit)) : audit[j].of.probe = q.probe
    BY TakenIsCounted DEF TrailInv
  <1>5. \A t, n : Updates(t, n) \subseteq 1..n
    BY DEF Updates
  <1>6. TrailMatchesTables'
    <2>1. /\ e.updated => Rebuilt(P)' = Rebuilt(P) \cup {[of |-> q, outcome |-> e.state]}
          /\ ~e.updated => Rebuilt(P)' = Rebuilt(P)
          /\ Rebuilt(V)' = Rebuilt(V)
      BY <1>1, RebuiltAppend
    <2> QED
      BY <1>1, <2>1 DEF TrailInv, TrailMatchesTables, WithRow
  <1>7. CountedOnce'
    <2>1. ASSUME NEW j \in Updates(P, Len(audit))', NEW k \in Updates(P, Len(audit))',
                 audit'[j].of.probe = audit'[k].of.probe
          PROVE  j = k
      <3>1. CASE j \in Updates(P, Len(audit)) /\ k \in Updates(P, Len(audit))
        BY <1>2, <1>5, <2>1, <3>1 DEF TrailInv, CountedOnce
      <3>2. CASE j = new /\ k = new
        BY <3>2
      <3>3. CASE /\ e.updated
                 /\ \/ j = new /\ k \in Updates(P, Len(audit))
                    \/ k = new /\ j \in Updates(P, Len(audit))
        BY <1>1, <1>2, <1>4, <1>5, <2>1, <3>3
      <3> QED
        BY <1>3, <2>1, <3>1, <3>2, <3>3
    <2>2. ASSUME NEW j \in Updates(V, Len(audit))', NEW k \in Updates(V, Len(audit))',
                 audit'[j].of.delivery = audit'[k].of.delivery
          PROVE  j = k
      BY <1>2, <1>3, <1>5, <2>2 DEF TrailInv, CountedOnce
    <2> QED
      BY <2>1, <2>2 DEF CountedOnce
  <1>8. SuppressedWasCounted'
    BY <1>1, <1>2, KeepsSuppressed DEF TrailInv
  <1>9. RowsJudged'
    BY <1>1 DEF TrailInv, RowsJudged, WithRow
  <1> QED
    BY <1>6, <1>7, <1>8, <1>9 DEF TrailInv

\* A report is an update of nothing.
LEMMA ReportKeepsTrail ==
  ASSUME TypeOK, TrailInv, UNCHANGED <<observations, protocol_observations>>,
         NEW e \in ReportEvent, audit' = Append(audit, e)
  PROVE  TrailInv'
  <1> DEFINE V == "verify_delivery"
             P == "protocol_probe"
  <1>1. e.type \notin {V, P}
    BY DEF ReportEvent
  <1>2. /\ Len(audit) \in Nat
        /\ \A k \in 1..Len(audit) : audit'[k] = audit[k]
    BY Appended
  <1>3. /\ Updates(V, Len(audit))' = Updates(V, Len(audit))
        /\ Updates(P, Len(audit))' = Updates(P, Len(audit))
    BY <1>1, UpdatesAppend
  <1>4. Rebuilt(V)' = Rebuilt(V) /\ Rebuilt(P)' = Rebuilt(P)
    BY <1>1, RebuiltAppend
  <1>5. \A t, n : Updates(t, n) \subseteq 1..n
    BY DEF Updates
  <1>6. TrailMatchesTables'
    BY <1>4 DEF TrailInv, TrailMatchesTables
  <1>7. CountedOnce'
    BY <1>2, <1>3, <1>5 DEF TrailInv, CountedOnce
  <1>8. SuppressedWasCounted'
    BY <1>1, KeepsSuppressed DEF TrailInv
  <1>9. RowsJudged'
    BY DEF TrailInv, RowsJudged
  <1> QED
    BY <1>6, <1>7, <1>8, <1>9 DEF TrailInv

\* Every step keeps the trail and the tables in agreement.
LEMMA TrailStep == ASSUME TypeInv, TrailInv, [Next]_vars PROVE TrailInv'
  <1>1. CASE \E q \in Verifications : verify_delivery(q)
    BY <1>1, VerifyKeepsTrail DEF TypeInv
  <1>2. CASE \E q \in Canaries : probe_observation(q)
    BY <1>2, CanaryKeepsTrail DEF TypeInv
  <1>3. CASE /\ UNCHANGED <<observations, protocol_observations>>
             /\ audit' = audit
    BY <1>3
    DEF TrailInv, TrailMatchesTables, Rebuilt, Updates, CountedOnce, SuppressedWasCounted,
        RowsJudged
  <1>4. CASE /\ UNCHANGED <<observations, protocol_observations>>
             /\ \E e \in ReportEvent : audit' = Append(audit, e)
    BY <1>4, ReportKeepsTrail DEF TypeInv
  <1> QED
    BY <1>1, <1>2, <1>3, <1>4, StepKinds DEF TypeInv
------------------------------------------------------------------------------
(* What the calls read.                                                    *)

\* The rows, and the updates, that are about requests of F and came out as x.
RowsOf(type, F, x) == {o \in Rebuilt(type) : o.of \in F /\ o.outcome = x}
UpdatesOf(type, F, x) ==
  {k \in Updates(type, Len(audit)) : audit[k].of \in F /\ audit[k].state = x}

\* Rows and updates correspond one to one, so they count the same.
LEMMA RowsAndUpdates ==
  ASSUME TypeOK, NEW type, NEW F, NEW x,
         \A j, k \in Updates(type, Len(audit)) : audit[j].of = audit[k].of => j = k
  PROVE  Cardinality(RowsOf(type, F, x)) = Cardinality(UpdatesOf(type, F, x))
  <1> DEFINE U == Updates(type, Len(audit))
             row(k) == [of |-> audit[k].of, outcome |-> audit[k].state]
             K == {k \in U : audit[k].of \in F /\ audit[k].state = x}
             R == {o \in Rebuilt(type) : o.of \in F /\ o.outcome = x}
             f == [k \in K |-> row(k)]
  <1>1. Rebuilt(type) = {row(k) : k \in U}
    BY DEF Rebuilt
  <1>2. \A k : row(k).of = audit[k].of /\ row(k).outcome = audit[k].state
    OBVIOUS
  <1>3. IsFiniteSet(K)
    <2>1. Len(audit) \in Nat
      BY DEF TypeOK
    <2>2. IsFiniteSet(1..Len(audit))
      BY <2>1, FS_Interval
    <2>3. K \subseteq 1..Len(audit)
      BY DEF Updates
    <2> QED
      BY <2>2, <2>3, FS_Subset
  <1>4. f \in Bijection(K, R)
    <2> HIDE DEF row
    <2>1. \A k \in K : row(k) \in R
      BY <1>1, <1>2
    <2>2. f \in [K -> R]
      BY <2>1
    <2>3. \A j, k \in K : f[j] = f[k] => j = k
      BY <1>2
    <2>4. \A o \in R : \E k \in K : f[k] = o
      BY <1>1, <1>2
    <2> QED
      BY <2>2, <2>3, <2>4 DEF Bijection, Injection, Surjection, IsInjective
  <1> HIDE DEF K, R, f
  <1>5. Cardinality(R) = Cardinality(K)
    BY <1>3, <1>4, FS_Bijection DEF ExistsBijection
  <1> QED
    BY <1>5 DEF K, R, RowsOf, UpdatesOf

\* What is read from the tables is what the trail says now.
LEMMA ReadIsNow ==
  ASSUME TypeOK, TrailInv, NEW s, NEW t
  PROVE  /\ reputation(s, t) = CountsAt(Len(audit), s, t)
         /\ protocol_reputation(s) = CanaryAt(Len(audit), s)
  <1> DEFINE V == "verify_delivery"
             P == "protocol_probe"
             n == Len(audit)
             F == {q \in Verifications : q.service = s /\ q.task \in {t, General}}
             G == {q \in Canaries : q.service = s}
  <1>1. observations = Rebuilt(V) /\ protocol_observations = Rebuilt(P)
    BY DEF TrailInv, TrailMatchesTables
  <1>2. /\ \A j, k \in Updates(V, n) : audit[j].of = audit[k].of => j = k
        /\ \A j, k \in Updates(P, n) : audit[j].of = audit[k].of => j = k
    BY DEF TrailInv, CountedOnce
  <1>3. /\ \A o \in observations : o.of \in Verifications
        /\ \A o \in protocol_observations : o.of \in Canaries
    BY DEF TypeOK
  <1>4. \A k \in 1..n : audit[k] \in RecordEvent \cup ReportEvent
    BY DEF TypeOK
  <1>5. /\ \A k \in Updates(V, n) : audit[k].of \in Verifications
        /\ \A k \in Updates(P, n) : audit[k].of \in Canaries
    BY <1>4 DEF Updates, RecordEvent, ReportEvent
  <1>6. ASSUME NEW x
        PROVE  /\ Cardinality({o \in About(observations, s, t) : o.outcome = x})
                    = Cardinality({k \in {k \in Updates(V, n) : /\ audit[k].of.service = s
                                              /\ audit[k].of.task \in {t, General}} :
                                     audit[k].state = x})
               /\ Cardinality({o \in {o \in protocol_observations : o.of.service = s} :
                                 o.outcome = x})
                    = Cardinality({k \in {k \in Updates(P, n) : audit[k].of.service = s} :
                                     audit[k].state = x})
    <2>1. {o \in About(observations, s, t) : o.outcome = x} = RowsOf(V, F, x)
      BY <1>1, <1>3 DEF About, RowsOf
    <2>2. {k \in {k \in Updates(V, n) : /\ audit[k].of.service = s
                      /\ audit[k].of.task \in {t, General}} : audit[k].state = x}
            = UpdatesOf(V, F, x)
      BY <1>5 DEF UpdatesOf
    <2>3. {o \in {o \in protocol_observations : o.of.service = s} : o.outcome = x}
            = RowsOf(P, G, x)
      BY <1>1, <1>3 DEF RowsOf
    <2>4. {k \in {k \in Updates(P, n) : audit[k].of.service = s} : audit[k].state = x}
            = UpdatesOf(P, G, x)
      BY <1>5 DEF UpdatesOf
    <2>5. /\ Cardinality(RowsOf(V, F, x)) = Cardinality(UpdatesOf(V, F, x))
          /\ Cardinality(RowsOf(P, G, x)) = Cardinality(UpdatesOf(P, G, x))
      <3> HIDE DEF F, G
      <3> QED
        BY <1>2, RowsAndUpdates
    <2> QED
      BY <2>1, <2>2, <2>3, <2>4, <2>5
  <1>7. reputation(s, t) = CountsAt(n, s, t)
    BY <1>6 DEF reputation, Tally, CountsAt
  <1>8. protocol_reputation(s) = CanaryAt(n, s)
    BY <1>6 DEF protocol_reputation, Tally, CanaryAt
  <1> QED
    BY <1>7, <1>8

\* The trail grows by at most an event.
TrailGrows == audit' = audit \/ \E e \in RecordEvent \cup ReportEvent : audit' = Append(audit, e)

\* Whatever was in the trail stays where it was.
LEMMA Grown ==
  ASSUME TypeOK, TrailGrows
  PROVE  /\ Len(audit) \in Nat /\ Len(audit') \in Nat /\ Len(audit) <= Len(audit')
         /\ \A k \in 1..Len(audit) : audit'[k] = audit[k]
         /\ \A type : \A n \in 0..Len(audit) : Updates(type, n)' = Updates(type, n)
  <1>1. CASE audit' = audit
    <2>1. Len(audit) \in Nat
      BY DEF TypeOK
    <2> QED
      BY <1>1, <2>1 DEF Updates
  <1>2. CASE \E e \in RecordEvent \cup ReportEvent : audit' = Append(audit, e)
    <2>1. PICK e \in RecordEvent \cup ReportEvent : audit' = Append(audit, e)
      BY <1>2
    <2>2. /\ Len(audit) \in Nat /\ Len(audit') = Len(audit) + 1
          /\ \A k \in 1..Len(audit) : audit'[k] = audit[k]
      BY <2>1, Appended
    <2>3. \A type : \A n \in 0..Len(audit) : Updates(type, n)' = Updates(type, n)
      BY <2>1, UpdatesAppend
    <2> QED
      BY <2>2, <2>3
  <1> QED
    BY <1>1, <1>2 DEF TrailGrows

\* What the trail said at a moment of the past is never revised.
LEMMA PastStays ==
  ASSUME TypeOK, TrailGrows
  PROVE  \A s, t : \A n \in 0..Len(audit) :
           CountsAt(n, s, t)' = CountsAt(n, s, t) /\ CanaryAt(n, s)' = CanaryAt(n, s)
  <1> SUFFICES ASSUME NEW n \in 0..Len(audit), NEW s, NEW t
               PROVE  CountsAt(n, s, t)' = CountsAt(n, s, t) /\ CanaryAt(n, s)' = CanaryAt(n, s)
    OBVIOUS
  <1>1. \A type : Updates(type, n)' = Updates(type, n)
    BY Grown
  <1>2. \A type : \A k \in Updates(type, n) : audit'[k] = audit[k]
    <2>1. \A type : Updates(type, n) \subseteq 1..n
      BY DEF Updates
    <2>2. 1..n \subseteq 1..Len(audit)
      BY Grown
    <2> QED
      BY <2>1, <2>2, Grown
  <1> DEFINE V == "verify_delivery"
             P == "protocol_probe"
  <1>3. \A x : {k \in {k \in Updates(V, n) : /\ audit[k].of.service = s
                                           /\ audit[k].of.task \in {t, General}} :
                  audit[k].state = x}
               = {k \in {k \in Updates(V, n) : /\ audit'[k].of.service = s
                                             /\ audit'[k].of.task \in {t, General}} :
                    audit'[k].state = x}
    BY <1>2
  <1>4. \A x : {k \in {k \in Updates(P, n) : audit[k].of.service = s} : audit[k].state = x}
               = {k \in {k \in Updates(P, n) : audit'[k].of.service = s} :
                    audit'[k].state = x}
    BY <1>2
  <1>5. CountsAt(n, s, t)' = CountsAt(n, s, t)
    BY <1>1, <1>3 DEF CountsAt
  <1>6. CanaryAt(n, s)' = CanaryAt(n, s)
    BY <1>1, <1>4 DEF CanaryAt
  <1> QED
    BY <1>5, <1>6

\* What a thread has read so far is what the trail said at moments of its call, for each
\* seller the deliveries no later than the canaries.
ReadsOf(h) ==
  /\ since[h] \in 0..Len(audit)
  /\ pc[h] = "protocol" =>
       \E i \in since[h]..Len(audit) :
         rep[h] = CountsAt(i, Head(call[h].sellers), call[h].task)
  /\ \A c \in seen[h] : \E i, j \in since[h]..Len(audit) :
       /\ i <= j
       /\ c.rep = CountsAt(i, c.seller, call[h].task)
       /\ c.canary = CanaryAt(j, c.seller)

ReadsOK == \A h \in Handlers : ReadsOf(h)

\* A thread that did not move keeps its reads when the trail grows.
LEMMA ReadsStay ==
  ASSUME TypeOK, TrailGrows, NEW h \in Handlers, ReadsOf(h),
         pc'[h] = pc[h], call'[h] = call[h], rep'[h] = rep[h], seen'[h] = seen[h],
         since'[h] = since[h]
  PROVE  ReadsOf(h)'
  <1>1. Len(audit) \in Nat /\ Len(audit') \in Nat /\ Len(audit) <= Len(audit')
    BY Grown
  <1>2. \A s, t : \A n \in 0..Len(audit) :
          CountsAt(n, s, t)' = CountsAt(n, s, t) /\ CanaryAt(n, s)' = CanaryAt(n, s)
    BY PastStays
  <1>3. since[h] \in 0..Len(audit)
    BY DEF ReadsOf
  <1>4. \A i \in since[h]..Len(audit) : i \in 0..Len(audit) /\ i \in since[h]..Len(audit')
    BY <1>1, <1>3
  <1>5. since'[h] \in 0..Len(audit')
    BY <1>1, <1>3
  <1>6. ASSUME pc'[h] = "protocol"
        PROVE  \E i \in since'[h]..Len(audit') :
                 rep'[h] = CountsAt(i, Head(call[h].sellers), call[h].task)'
    <2>1. PICK i \in since[h]..Len(audit) :
            rep[h] = CountsAt(i, Head(call[h].sellers), call[h].task)
      BY <1>6 DEF ReadsOf
    <2>2. CountsAt(i, Head(call[h].sellers), call[h].task)'
            = CountsAt(i, Head(call[h].sellers), call[h].task)
      BY <1>2, <1>4
    <2> QED
      BY <1>4, <2>1, <2>2
  <1>7. ASSUME NEW c \in seen'[h]
        PROVE  \E i, j \in since'[h]..Len(audit') :
                 /\ i <= j
                 /\ c.rep = CountsAt(i, c.seller, call[h].task)'
                 /\ c.canary = CanaryAt(j, c.seller)'
    <2>1. PICK i \in since[h]..Len(audit), j \in since[h]..Len(audit) :
            /\ i <= j
            /\ c.rep = CountsAt(i, c.seller, call[h].task)
            /\ c.canary = CanaryAt(j, c.seller)
      BY <1>7 DEF ReadsOf
    <2>2. /\ i \in 0..Len(audit) /\ i \in since'[h]..Len(audit')
          /\ j \in 0..Len(audit) /\ j \in since'[h]..Len(audit')
      BY <1>4
    <2>3. /\ CountsAt(i, c.seller, call[h].task)' = CountsAt(i, c.seller, call[h].task)
          /\ CanaryAt(j, c.seller)' = CanaryAt(j, c.seller)
      BY <2>2, PastStays
    <2> QED
      BY <2>1, <2>2, <2>3
  <1> QED
    BY <1>5, <1>6, <1>7 DEF ReadsOf

\* Every step of the backend lets the trail grow by at most an event.
LEMMA StepGrows == ASSUME TypeInv, [Next]_vars PROVE TrailGrows
  <1>1. ASSUME NEW q \in Verifications, verify_delivery(q) PROVE TrailGrows
    BY <1>1, VerifyStep DEF TypeInv, TrailGrows
  <1>2. ASSUME NEW q \in Canaries, probe_observation(q) PROVE TrailGrows
    BY <1>2, CanaryStep DEF TypeInv, TrailGrows
  <1> QED
    BY <1>1, <1>2, StepKinds DEF TypeInv, TrailGrows

\* A call that ends leaves no reads, and the others keep theirs.
LEMMA FinishReads ==
  ASSUME TypeInv, ReadsOK, TrailGrows, NEW h \in Handlers, Finish(h)
  PROVE  ReadsOK'
  <1>1. Len(audit) \in Nat /\ Len(audit') \in Nat
    BY Grown DEF TypeInv
  <1>2. ReadsOf(h)'
    BY <1>1 DEF Finish, TypeInv, TypeOK, ReadsOf
  <1>3. ASSUME NEW g \in Handlers \ {h}
        PROVE  ReadsOf(g)'
    BY <1>3, ReadsStay DEF Finish, TypeInv, TypeOK, ReadsOK
  <1> QED
    BY <1>2, <1>3 DEF ReadsOK

\* Every read is of a moment of the call, and stays one while the call lasts.
LEMMA ReadsStep ==
  ASSUME TypeInv, TrailInv, ReadsOK, [Next]_vars
  PROVE  ReadsOK'
  <1> USE DEF TypeInv
  <1>1. TrailGrows
    BY StepGrows
  <1>2. Len(audit) \in Nat
    BY DEF TypeOK
  <1>3. ASSUME UNCHANGED calls PROVE ReadsOK'
    BY <1>1, <1>3, ReadsStay DEF calls, ReadsOK
  <1>4. ASSUME NEW h \in Handlers, Begin(h) PROVE ReadsOK'
    <2>1. ReadsOf(h)'
      BY <1>2, <1>4 DEF Begin, TypeOK, ReadsOf, tables
    <2>2. ASSUME NEW g \in Handlers \ {h} PROVE ReadsOf(g)'
      BY <1>1, <1>4, <2>2, ReadsStay DEF Begin, TypeOK, ReadsOK
    <2> QED
      BY <2>1, <2>2 DEF ReadsOK
  <1>5. ASSUME NEW h \in Handlers, ReadReputation(h) PROVE ReadsOK'
    <2>1. rep'[h] = CountsAt(Len(audit), Head(call[h].sellers), call[h].task)
      BY <1>5, ReadIsNow DEF ReadReputation, TypeOK
    <2>2. ReadsOf(h)'
      <3>1. UNCHANGED <<audit, call, seen, since>>
        BY <1>5 DEF ReadReputation, tables
      <3>2. since[h] \in 0..Len(audit) /\ Len(audit) \in since[h]..Len(audit)
        BY <1>2 DEF ReadsOK, ReadsOf
      <3>3. \A s, t : \A n \in 0..Len(audit) :
              CountsAt(n, s, t)' = CountsAt(n, s, t) /\ CanaryAt(n, s)' = CanaryAt(n, s)
        BY <1>1, PastStays
      <3>4. rep'[h] = CountsAt(Len(audit), Head(call[h].sellers), call[h].task)'
        BY <1>2, <2>1, <3>1, <3>3
      <3>5. \A c \in seen'[h] : \E i, j \in since'[h]..Len(audit') :
              /\ i <= j
              /\ c.rep = CountsAt(i, c.seller, call[h].task)'
              /\ c.canary = CanaryAt(j, c.seller)'
        <4> SUFFICES ASSUME NEW c \in seen[h]
                     PROVE  \E i, j \in since[h]..Len(audit) :
                              /\ i <= j
                              /\ c.rep = CountsAt(i, c.seller, call[h].task)'
                              /\ c.canary = CanaryAt(j, c.seller)'
          BY <3>1
        <4>1. PICK i \in since[h]..Len(audit), j \in since[h]..Len(audit) :
                /\ i <= j
                /\ c.rep = CountsAt(i, c.seller, call[h].task)
                /\ c.canary = CanaryAt(j, c.seller)
          BY DEF ReadsOK, ReadsOf
        <4>2. i \in 0..Len(audit) /\ j \in 0..Len(audit)
          BY <3>2
        <4>3. /\ CountsAt(i, c.seller, call[h].task)' = CountsAt(i, c.seller, call[h].task)
              /\ CanaryAt(j, c.seller)' = CanaryAt(j, c.seller)
          BY <3>1, <3>3, <4>2
        <4> QED
          BY <4>1, <4>3
      <3> QED
        BY <3>1, <3>2, <3>4, <3>5 DEF ReadsOf
    <2>3. ASSUME NEW g \in Handlers \ {h} PROVE ReadsOf(g)'
      BY <1>1, <1>5, <2>3, ReadsStay DEF ReadReputation, TypeOK, ReadsOK
    <2> QED
      BY <2>2, <2>3 DEF ReadsOK
  <1>6. ASSUME NEW h \in Handlers, ReadProtocolReputation(h) PROVE ReadsOK'
    <2> DEFINE s == Head(call[h].sellers)
               c0 == [seller |-> s, rep |-> rep[h], canary |-> protocol_reputation(s)]
    <2>1. UNCHANGED <<tables, rep, since>>
      BY <1>6 DEF ReadProtocolReputation
    <2>2. UNCHANGED audit
      BY <2>1 DEF tables
    <2>3. call[h] \in Query
      BY <1>6 DEF ReadProtocolReputation, HandOK
    <2>4. call'[h].task = call[h].task
      BY <1>6, <2>3 DEF ReadProtocolReputation, TypeOK, Query
    <2>5. seen'[h] = seen[h] \cup {c0} /\ pc'[h] # "protocol"
      BY <1>6 DEF ReadProtocolReputation, TypeOK
    <2>6. c0.canary = CanaryAt(Len(audit), s)
      BY ReadIsNow
    <2>7. since[h] \in 0..Len(audit) /\ Len(audit) \in since[h]..Len(audit)
      BY <1>2 DEF ReadsOK, ReadsOf
    <2>8. PICK i0 \in since[h]..Len(audit) : rep[h] = CountsAt(i0, s, call[h].task)
      BY <1>6 DEF ReadProtocolReputation, ReadsOK, ReadsOf
    <2>9. \A c \in seen'[h] : \E i, j \in since[h]..Len(audit) :
            /\ i <= j
            /\ c.rep = CountsAt(i, c.seller, call[h].task)
            /\ c.canary = CanaryAt(j, c.seller)
      <3>1. /\ i0 <= Len(audit)
            /\ c0.rep = CountsAt(i0, c0.seller, call[h].task)
            /\ c0.canary = CanaryAt(Len(audit), c0.seller)
        BY <2>6, <2>7, <2>8
      <3>2. \A c \in seen[h] : \E i, j \in since[h]..Len(audit) :
              /\ i <= j
              /\ c.rep = CountsAt(i, c.seller, call[h].task)
              /\ c.canary = CanaryAt(j, c.seller)
        BY DEF ReadsOK, ReadsOf
      <3> HIDE DEF c0
      <3> QED
        BY <2>5, <2>7, <2>8, <3>1, <3>2
    <2>10. \A x, t : \A n \in 0..Len(audit) :
             CountsAt(n, x, t)' = CountsAt(n, x, t) /\ CanaryAt(n, x)' = CanaryAt(n, x)
      BY <1>1, PastStays
    <2>11. \A c \in seen'[h] : \E i, j \in since'[h]..Len(audit') :
             /\ i <= j
             /\ c.rep = CountsAt(i, c.seller, call[h].task)'
             /\ c.canary = CanaryAt(j, c.seller)'
      <3> SUFFICES ASSUME NEW c \in seen'[h]
                   PROVE  \E i, j \in since[h]..Len(audit) :
                            /\ i <= j
                            /\ c.rep = CountsAt(i, c.seller, call[h].task)'
                            /\ c.canary = CanaryAt(j, c.seller)'
        BY <2>1, <2>2
      <3>1. PICK i \in since[h]..Len(audit), j \in since[h]..Len(audit) :
              /\ i <= j
              /\ c.rep = CountsAt(i, c.seller, call[h].task)
              /\ c.canary = CanaryAt(j, c.seller)
        BY <2>9
      <3>2. i \in 0..Len(audit) /\ j \in 0..Len(audit)
        BY <2>7
      <3>3. /\ CountsAt(i, c.seller, call[h].task)' = CountsAt(i, c.seller, call[h].task)
            /\ CanaryAt(j, c.seller)' = CanaryAt(j, c.seller)
        BY <2>4, <2>10, <3>2
      <3> QED
        BY <3>1, <3>3
    <2>12. ReadsOf(h)'
      BY <2>1, <2>2, <2>5, <2>7, <2>11 DEF ReadsOf
    <2>13. ASSUME NEW g \in Handlers \ {h} PROVE ReadsOf(g)'
      BY <1>1, <1>6, <2>13, ReadsStay DEF ReadProtocolReputation, TypeOK, ReadsOK
    <2> QED
      BY <2>12, <2>13 DEF ReadsOK
  <1>7. ASSUME NEW h \in Handlers, trust_snapshot(h) \/ best_execution(h) PROVE ReadsOK'
    BY <1>1, <1>7, ReportStep, FinishReads
  <1>8. ASSUME NEW h \in Handlers, Die(h) PROVE ReadsOK'
    BY <1>1, <1>8, FinishReads DEF Die
  <1>9. CASE \E q \in Verifications : verify_delivery(q)
    BY <1>3, <1>9 DEF verify_delivery
  <1>10. CASE \E q \in Canaries : probe_observation(q)
    BY <1>3, <1>10 DEF probe_observation
  <1>11. CASE UNCHANGED vars
    BY <1>3, <1>11 DEF vars
  <1> QED
    BY <1>4, <1>5, <1>6, <1>7, <1>8, <1>9, <1>10, <1>11 DEF Next
------------------------------------------------------------------------------
(* What the reports say.                                                   *)

ReportsInv == SnapshotIsOfTheCall /\ SafeRouteIsJustified

\* A report in the trail is typed as one.
LEMMA ReportTyped ==
  ASSUME TypeOK, NEW k \in 1..Len(audit),
         audit[k].type \in {"trust_snapshot", "best_execution"}
  PROVE  audit[k].since \in Nat
  <1>1. audit[k] \in RecordEvent \cup ReportEvent
    BY DEF TypeOK
  <1> QED
    BY <1>1 DEF RecordEvent, ReportEvent

\* What was reported earlier is as true as it was when it was reported.
LEMMA OldSnapshotStays ==
  ASSUME TypeOK, TrailGrows, SnapshotIsOfTheCall,
         NEW k \in 1..Len(audit), audit'[k].type = "trust_snapshot"
  PROVE  \E i, j \in audit'[k].since..(k - 1) :
           /\ i <= j
           /\ audit'[k].rep = CountsAt(i, audit[k].seller, audit[k].task)'
           /\ audit'[k].canary = CanaryAt(j, audit[k].seller)'
  <1>1. audit'[k] = audit[k] /\ Len(audit) \in Nat
    BY Grown
  <1>2. PICK i \in audit[k].since..(k - 1), j \in audit[k].since..(k - 1) :
          /\ i <= j
          /\ audit[k].rep = CountsAt(i, audit[k].seller, audit[k].task)
          /\ audit[k].canary = CanaryAt(j, audit[k].seller)
    BY <1>1 DEF SnapshotIsOfTheCall
  <1>3. audit[k].since \in Nat
    BY <1>1, ReportTyped
  <1>4. i \in 0..Len(audit) /\ j \in 0..Len(audit)
    BY <1>1, <1>3
  <1>5. /\ CountsAt(i, audit[k].seller, audit[k].task)'
             = CountsAt(i, audit[k].seller, audit[k].task)
        /\ CanaryAt(j, audit[k].seller)' = CanaryAt(j, audit[k].seller)
    BY <1>1, <1>4, PastStays
  <1> QED
    BY <1>1, <1>2, <1>5

\* The same for recommendations.
LEMMA OldRouteStays ==
  ASSUME TypeOK, TrailGrows, SafeRouteIsJustified,
         NEW k \in 1..Len(audit),
         audit'[k].type = "best_execution" /\ audit'[k].state = "PASS"
           /\ audit'[k].mode = "safe"
  PROVE  \E j \in audit'[k].since..(k - 1) :
           \/ Size(CountsAt(j, audit[k].recommended, audit[k].task))' > 0
           \/ /\ Size(CanaryAt(j, audit[k].recommended))' > 0
              /\ ~MostlyFailing(CanaryAt(j, audit[k].recommended))'
  <1>1. audit'[k] = audit[k] /\ Len(audit) \in Nat
    BY Grown
  <1>2. PICK j \in audit[k].since..(k - 1) :
          \/ Size(CountsAt(j, audit[k].recommended, audit[k].task)) > 0
          \/ /\ Size(CanaryAt(j, audit[k].recommended)) > 0
             /\ ~MostlyFailing(CanaryAt(j, audit[k].recommended))
    BY <1>1 DEF SafeRouteIsJustified
  <1>3. audit[k].since \in Nat
    BY <1>1, ReportTyped
  <1>4. j \in 0..Len(audit)
    BY <1>1, <1>3
  <1>5. /\ CountsAt(j, audit[k].recommended, audit[k].task)'
             = CountsAt(j, audit[k].recommended, audit[k].task)
        /\ CanaryAt(j, audit[k].recommended)' = CanaryAt(j, audit[k].recommended)
    BY <1>1, <1>4, PastStays
  <1> QED
    BY <1>1, <1>2, <1>5 DEF Size, MostlyFailing

\* An event that is no report of the one kind leaves the property of that kind alone.
LEMMA SnapshotsStay ==
  ASSUME TypeOK, TrailGrows, SnapshotIsOfTheCall,
         \A k \in 1..Len(audit') : audit'[k].type = "trust_snapshot" => k \in 1..Len(audit)
  PROVE  SnapshotIsOfTheCall'
  BY OldSnapshotStays, Grown DEF SnapshotIsOfTheCall

\* The same for recommendations.
LEMMA RoutesStay ==
  ASSUME TypeOK, TrailGrows, SafeRouteIsJustified,
         \A k \in 1..Len(audit') :
           audit'[k].type = "best_execution" /\ audit'[k].state = "PASS"
             /\ audit'[k].mode = "safe" => k \in 1..Len(audit)
  PROVE  SafeRouteIsJustified'
  BY OldRouteStays, Grown DEF SafeRouteIsJustified

\* A new snapshot reports what its thread has read.
LEMMA NewSnapshot ==
  ASSUME TypeInv, ReadsOK, SnapshotIsOfTheCall, NEW h \in Handlers, trust_snapshot(h)
  PROVE  SnapshotIsOfTheCall'
  <1> USE DEF TypeInv
  <1>1. PICK c \in seen[h], e \in ReportEvent :
          /\ e.type = "trust_snapshot" /\ e.seller = c.seller /\ e.task = call[h].task
          /\ e.rep = c.rep /\ e.canary = c.canary /\ e.since = since[h]
          /\ audit' = Append(audit, e)
    BY SnapshotStep
  <1>2. TrailGrows
    BY <1>1 DEF TrailGrows
  <1> DEFINE new == Len(audit) + 1
  <1>3. Len(audit) \in Nat /\ Len(audit') = new /\ audit'[new] = e
    BY <1>1, Appended
  <1>4. \E i, j \in audit'[new].since..(new - 1) :
          /\ i <= j
          /\ audit'[new].rep = CountsAt(i, e.seller, e.task)'
          /\ audit'[new].canary = CanaryAt(j, e.seller)'
    <2>1. PICK i \in since[h]..Len(audit), j \in since[h]..Len(audit) :
            /\ i <= j
            /\ c.rep = CountsAt(i, c.seller, call[h].task)
            /\ c.canary = CanaryAt(j, c.seller)
      BY DEF ReadsOK, ReadsOf
    <2>2. i \in 0..Len(audit) /\ j \in 0..Len(audit)
      BY <1>3 DEF ReadsOK, ReadsOf
    <2>3. CountsAt(i, e.seller, e.task)' = CountsAt(i, e.seller, e.task)
          /\ CanaryAt(j, e.seller)' = CanaryAt(j, e.seller)
      BY <1>2, <2>2, PastStays
    <2>4. new - 1 = Len(audit)
      BY <1>3
    <2> QED
      BY <1>1, <1>3, <2>1, <2>3, <2>4
  <1> SUFFICES ASSUME NEW k \in 1..new, audit'[k].type = "trust_snapshot"
               PROVE  \E i, j \in audit'[k].since..(k - 1) :
                        /\ i <= j
                        /\ audit'[k].rep = CountsAt(i, audit[k].seller, audit[k].task)'
                        /\ audit'[k].canary = CanaryAt(j, audit[k].seller)'
    BY <1>3 DEF SnapshotIsOfTheCall
  <1>5. CASE k = new
    BY <1>3, <1>4, <1>5
  <1>6. CASE k \in 1..Len(audit)
    BY <1>2, <1>6, OldSnapshotStays
  <1> QED
    BY <1>3, <1>5, <1>6

\* A tier read as ready rests on a delivery, or on canaries not mostly failed.
LEMMA ReadyTier ==
  ASSUME NEW rp \in Counts, NEW canary \in Counts,
         evidence_tier(rp, canary) \in {"VERIFIED", "PROVISIONAL"}
  PROVE  Size(rp) > 0 \/ (Size(canary) > 0 /\ ~MostlyFailing(canary))
  <1>1. Size(rp) \in Nat /\ Size(canary) \in Nat
    BY DEF Counts, Size
  <1> QED
    BY <1>1 DEF evidence_tier

\* A new recommendation is justified by what its thread has read.
LEMMA NewRoute ==
  ASSUME TypeInv, ReadsOK, SafeRouteIsJustified, NEW h \in Handlers, best_execution(h)
  PROVE  SafeRouteIsJustified'
  <1> USE DEF TypeInv
  <1>1. PICK e \in ReportEvent :
          /\ e.type = "best_execution" /\ e.since = since[h]
          /\ e.state = "PASS" /\ e.mode = "safe" =>
               \E c \in seen[h] :
                 /\ e.recommended = c.seller /\ e.task = call[h].task
                 /\ Tier(c) \in {"VERIFIED", "PROVISIONAL"}
          /\ audit' = Append(audit, e)
    BY RouteStep
  <1>2. TrailGrows
    BY <1>1 DEF TrailGrows
  <1> DEFINE new == Len(audit) + 1
  <1>3. Len(audit) \in Nat /\ Len(audit') = new /\ audit'[new] = e
    BY <1>1, Appended
  <1>4. ASSUME e.state = "PASS" /\ e.mode = "safe"
        PROVE  \E j \in e.since..(new - 1) :
                 \/ Size(CountsAt(j, e.recommended, e.task))' > 0
                 \/ /\ Size(CanaryAt(j, e.recommended))' > 0
                    /\ ~MostlyFailing(CanaryAt(j, e.recommended))'
    <2>1. PICK c \in seen[h] :
            /\ e.recommended = c.seller /\ e.task = call[h].task
            /\ Tier(c) \in {"VERIFIED", "PROVISIONAL"}
      BY <1>1, <1>4
    <2>2. PICK i \in since[h]..Len(audit), j \in since[h]..Len(audit) :
            /\ i <= j
            /\ c.rep = CountsAt(i, c.seller, call[h].task)
            /\ c.canary = CanaryAt(j, c.seller)
      BY DEF ReadsOK, ReadsOf
    <2>3. i \in 0..Len(audit) /\ j \in 0..Len(audit)
      BY <1>3 DEF ReadsOK, ReadsOf
    <2>4. CountsAt(i, e.recommended, e.task)' = c.rep
          /\ CanaryAt(j, e.recommended)' = c.canary
      BY <1>2, <2>1, <2>2, <2>3, PastStays
    <2>5. c.rep \in Counts /\ c.canary \in Counts
      BY DEF TypeOK
    <2>6. Size(c.rep) > 0 \/ (Size(c.canary) > 0 /\ ~MostlyFailing(c.canary))
      BY <2>1, <2>5, ReadyTier DEF Tier
    <2>7. new - 1 = Len(audit)
      BY <1>3
    <2> QED
      BY <1>1, <2>2, <2>4, <2>6, <2>7 DEF Size, MostlyFailing
  <1> SUFFICES ASSUME NEW k \in 1..new,
                      audit'[k].type = "best_execution" /\ audit'[k].state = "PASS"
                        /\ audit'[k].mode = "safe"
               PROVE  \E j \in audit'[k].since..(k - 1) :
                        \/ Size(CountsAt(j, audit[k].recommended, audit[k].task))' > 0
                        \/ /\ Size(CanaryAt(j, audit[k].recommended))' > 0
                           /\ ~MostlyFailing(CanaryAt(j, audit[k].recommended))'
    BY <1>3 DEF SafeRouteIsJustified
  <1>5. CASE k = new
    BY <1>3, <1>4, <1>5 DEF Size, MostlyFailing
  <1>6. CASE k \in 1..Len(audit)
    BY <1>2, <1>6, OldRouteStays
  <1> QED
    BY <1>3, <1>5, <1>6

\* Every report that is appended is justified, and the earlier ones stay so.
LEMMA ReportsStep ==
  ASSUME TypeInv, ReadsOK, ReportsInv, [Next]_vars
  PROVE  ReportsInv'
  <1> USE DEF TypeInv, ReportsInv
  <1>1. TrailGrows
    BY StepGrows
  <1>2. ASSUME NEW e \in RecordEvent, audit' = Append(audit, e) PROVE ReportsInv'
    <2>1. e.type \notin {"trust_snapshot", "best_execution"}
      BY DEF RecordEvent
    <2> QED
      BY <1>1, <1>2, <2>1, Appended, SnapshotsStay, RoutesStay
  <1>3. ASSUME NEW h \in Handlers, trust_snapshot(h) PROVE ReportsInv'
    <2>1. PICK e \in ReportEvent : e.type = "trust_snapshot" /\ audit' = Append(audit, e)
      BY <1>3, SnapshotStep
    <2>2. SafeRouteIsJustified'
      BY <1>1, <2>1, Appended, RoutesStay
    <2> QED
      BY <1>3, <2>2, NewSnapshot
  <1>4. ASSUME NEW h \in Handlers, best_execution(h) PROVE ReportsInv'
    <2>1. PICK e \in ReportEvent : e.type = "best_execution" /\ audit' = Append(audit, e)
      BY <1>4, RouteStep
    <2>2. SnapshotIsOfTheCall'
      BY <1>1, <2>1, Appended, SnapshotsStay
    <2> QED
      BY <1>4, <2>2, NewRoute
  <1>5. ASSUME audit' = audit PROVE ReportsInv'
    BY <1>1, <1>5, SnapshotsStay, RoutesStay
  <1>6. CASE \E q \in Verifications : verify_delivery(q)
    BY <1>2, <1>6, VerifyStep
  <1>7. CASE \E q \in Canaries : probe_observation(q)
    BY <1>2, <1>7, CanaryStep
  <1>8. CASE \E h \in Handlers : Begin(h) \/ ReadReputation(h) \/ ReadProtocolReputation(h)
                                   \/ Die(h)
    BY <1>5, <1>8 DEF Begin, ReadReputation, ReadProtocolReputation, Die, tables
  <1>9. CASE UNCHANGED vars
    BY <1>5, <1>9 DEF vars, tables
  <1> QED
    BY <1>3, <1>4, <1>6, <1>7, <1>8, <1>9 DEF Next
------------------------------------------------------------------------------
(* The theorems.                                                           *)

IInv == TypeInv /\ TrailInv /\ ReadsOK /\ ReportsInv

\* Everything the backend keeps, together: each part is kept by the help of the others.
THEOREM Inductive == Spec => []IInv
  <1>1. Init => IInv
    <2> SUFFICES ASSUME Init PROVE IInv
      OBVIOUS
    <2>1. Len(audit) = 0
      BY DEF Init
    <2>2. ReadsOK
      BY <2>1 DEF Init, ReadsOK, ReadsOf
    <2>3. ReportsInv
      BY <2>1 DEF ReportsInv, SnapshotIsOfTheCall, SafeRouteIsJustified
    <2> QED
      BY <2>2, <2>3, TypeInit, TrailInit DEF IInv
  <1>2. IInv /\ [Next]_vars => IInv'
    BY TypeStep, TrailStep, ReadsStep, ReportsStep DEF IInv
  <1> QED
    BY <1>1, <1>2, PTL DEF Spec

\* Every variable keeps to its type; nobody REJECTED is ever recommended.
THEOREM TypeCorrect == Spec => []TypeOK
  BY Inductive, PTL DEF IInv, TypeInv

\* The evidence tables and the audit trail say the same after every step and every crash.
THEOREM TrailAndTablesAgree == Spec => []TrailMatchesTables
  BY Inductive, PTL DEF IInv, TrailInv

\* No delivery and no canary is counted twice.
THEOREM NothingCountsTwice == Spec => []CountedOnce
  BY Inductive, PTL DEF IInv, TrailInv

\* A report that could count is suppressed only when its delivery has been counted.
THEOREM SuppressionIsJustified == Spec => []SuppressedWasCounted
  BY Inductive, PTL DEF IInv, TrailInv

\* No PASS is in the evidence tables without the whole contract there and met, and no FAIL
\* without a whole contract of which a part was found broken.
THEOREM OutcomesShown == Spec => []OutcomesAreShown
  <1>1. IInv => OutcomesAreShown
    <2> SUFFICES ASSUME IInv PROVE OutcomesAreShown
      OBVIOUS
    <2>1. ASSUME NEW o \in observations \cup protocol_observations
          PROVE  /\ o.outcome = "PASS" => Proven(o.of.evidence)
                 /\ o.outcome = "FAIL" => Refuted(o.of.evidence)
      <3>1. o.of.evidence \in Evidence
        BY EvidenceAssumption DEF IInv, TypeInv, TypeOK
      <3>2. o.outcome = outcome(o.of.evidence)
        BY DEF IInv, TrailInv, RowsJudged
      <3> QED
        BY <3>1, <3>2, OutcomeProven, OutcomeRefuted
    <2> QED
      BY <2>1 DEF OutcomesAreShown, IInv, TrailInv, RowsJudged
  <1> QED
    BY <1>1, Inductive, PTL

\* What a snapshot reports was true, count by count, while the call ran.
THEOREM SnapshotsAreOfTheCall == Spec => []SnapshotIsOfTheCall
  BY Inductive, PTL DEF IInv, ReportsInv

\* A safe recommendation is justified by what the trail said while the call ran.
THEOREM SafeRoutesAreJustified == Spec => []SafeRouteIsJustified
  BY Inductive, PTL DEF IInv, ReportsInv
==============================================================================
