------------------------- MODULE EvidenceStoreProofs -------------------------
(***************************************************************************)
(* The transactions of storage.py make one step of each store call, for    *)
(* any number of workers, any requests and any failures; so what is proved *)
(* of the handlers holds of the store statement by statement.              *)
(***************************************************************************)
EXTENDS EvidenceStore, EvidenceServiceProofs

StoreShape ==
  /\ stage \in [Handlers -> {"none", "row", "head", "commit"}]
  /\ work \in [Handlers -> Task \cup {NoCall}]
  /\ tx = [h \in Handlers |-> [updated |-> tx[h].updated, head |-> tx[h].head]]

\* A worker without a reading call has nothing left of the last one.
IdleHands ==
  \A h \in Handlers : pc[h] = "idle" =>
    call[h] = NoCall /\ rep[h] = NoEvidence /\ seen[h] = {} /\ since[h] = 0

\* BEGIN IMMEDIATE: the write lock has one owner.
OneWriter ==
  \A g, h \in Handlers : stage[g] # "none" /\ stage[h] # "none" => g = h

\* What the transaction knows of the tables is true until it commits.
Prepared ==
  \A h \in Handlers :
    /\ stage[h] = "row" => work[h] # NoCall
    /\ stage[h] # "none" /\ work[h] = NoCall => pc[h] = "append"
    /\ stage[h] \in {"head", "commit"} /\ work[h] # NoCall
         => tx[h].updated = Inserts(work[h])

StoreInv == TypeInv /\ StoreShape /\ IdleHands /\ OneWriter /\ Prepared

LEMMA StoreInvInit == ASSUME StoreInit PROVE StoreInv
  BY TypeInit
     DEF StoreInit, StoreInv, StoreShape, IdleHands, OneWriter, Prepared, NoTransaction, Init

\* The functions of EvidenceService are functions on the workers.
LEMMA CallsShaped ==
  ASSUME TypeInv
  PROVE  /\ pc = [h \in Handlers |-> pc[h]] /\ call = [h \in Handlers |-> call[h]]
         /\ rep = [h \in Handlers |-> rep[h]] /\ seen = [h \in Handlers |-> seen[h]]
         /\ since = [h \in Handlers |-> since[h]]
  BY DEF TypeInv, TypeOK

\* Giving up a record call changes nothing that EvidenceService knows; giving up a reading
\* call is the death of its thread.
LEMMA GivesUpIsDeath ==
  ASSUME StoreInv, NEW h \in Handlers, GivesUp(h)
  PROVE  Die(h) \/ UNCHANGED vars
  <1>1. CASE pc[h] # "idle"
    BY <1>1 DEF GivesUp, Die
  <1>2. CASE pc[h] = "idle"
    <2>1. call[h] = NoCall /\ rep[h] = NoEvidence /\ seen[h] = {} /\ since[h] = 0
      BY <1>2 DEF StoreInv, IdleHands
    <2>2. UNCHANGED calls
      <3>1. pc' = pc
        BY <1>2, CallsShaped DEF StoreInv, GivesUp, Finish
      <3>2. call' = call
        BY <2>1, CallsShaped DEF StoreInv, GivesUp, Finish
      <3>3. rep' = rep
        BY <2>1, CallsShaped DEF StoreInv, GivesUp, Finish
      <3>4. seen' = seen
        BY <2>1, CallsShaped DEF StoreInv, GivesUp, Finish
      <3>5. since' = since
        BY <2>1, CallsShaped DEF StoreInv, GivesUp, Finish
      <3> QED
        BY <3>1, <3>2, <3>3, <3>4, <3>5 DEF calls
    <2> QED
      BY <2>2 DEF GivesUp, vars
  <1> QED
    BY <1>1, <1>2

\* The COMMIT of a record call is the whole of verify_delivery or probe_observation.
LEMMA CommitIsRecord ==
  ASSUME StoreInv, NEW h \in Handlers, CommitRecord(h)
  PROVE  \/ \E q \in Verifications : verify_delivery(q)
         \/ \E q \in Canaries : probe_observation(q)
  <1> DEFINE t == work[h]
             event == Recorded(t, tx[h].updated)
  <1>1. t \in Task /\ tx[h].updated = Inserts(t)
    BY DEF StoreInv, StoreShape, Prepared, CommitRecord
  <1>2. append_audit(event) /\ UNCHANGED calls
    BY DEF CommitRecord
  <1>3. CASE t.type = "verify_delivery"
    <2>1. t.of \in Verifications
      BY <1>1, <1>3 DEF Task
    <2>2. observations' = WithRow(observations, t.of, event.state, tx[h].updated)
          /\ UNCHANGED protocol_observations
      BY <1>3 DEF CommitRecord
    <2>3. event = [type |-> "verify_delivery", of |-> t.of, state |-> outcome(t.of.evidence),
                   updated |-> tx[h].updated,
                   replay_suppressed |-> Decisive(outcome(t.of.evidence)) /\ ~tx[h].updated]
      BY <1>3 DEF Recorded
    <2>4. tx[h].updated = (reputation_eligible(t.of.evidence) /\ Decisive(outcome(t.of.evidence))
                             /\ ~DeliveryTaken(t.of))
      BY <1>1, <1>3, Zenon DEF Inserts
    <2>5. event.state = outcome(t.of.evidence)
      BY <2>3
    <2>6. verify_delivery(t.of)
      BY <1>2, <2>2, <2>3, <2>4, <2>5, Zenon DEF verify_delivery
    <2> QED
      BY <2>1, <2>6
  <1>4. CASE t.type # "verify_delivery"
    <2>1. t.of \in Canaries
      BY <1>1, <1>4 DEF Task
    <2> DEFINE state == IF outcome(t.of.evidence) = "PASS" THEN "PASS" ELSE "FAIL"
    <2>2. protocol_observations' =
            WithRow(protocol_observations, t.of, event.state, tx[h].updated)
          /\ UNCHANGED observations
      BY <1>4 DEF CommitRecord
    <2>3. event = [type |-> "protocol_probe", of |-> t.of, state |-> state,
                   updated |-> tx[h].updated, replay_suppressed |-> ~tx[h].updated]
      BY <1>4 DEF Recorded
    <2>4. tx[h].updated = (~CanaryTaken(t.of))
      BY <1>1, <1>4, Zenon DEF Inserts
    <2>5. event.state = state
      BY <2>3
    <2>6. probe_observation(t.of)
      BY <1>2, <2>2, <2>3, <2>4, <2>5, Zenon DEF probe_observation
    <2> QED
      BY <2>1, <2>6
  <1> QED
    BY <1>3, <1>4

\* Every statement is a step of EvidenceService or none.
LEMMA StatementIsStep ==
  ASSUME StoreInv, [StoreNext]_storeVars
  PROVE  [Next]_vars
  <1>1. CASE UNCHANGED storeVars
    BY <1>1 DEF storeVars
  <1>2. ASSUME NEW h \in Handlers, TakeRecord(h) \/ BeginImmediate(h) \/ InsertRow(h) \/ ReadHead(h)
        PROVE  UNCHANGED vars
    BY <1>2 DEF TakeRecord, BeginImmediate, InsertRow, ReadHead
  <1>3. ASSUME NEW h \in Handlers, TakeReport(h) \/ Read(h) \/ CommitReport(h)
        PROVE  Next
    BY <1>3 DEF TakeReport, Read, CommitReport, Next
  <1>4. ASSUME NEW h \in Handlers, CommitRecord(h)
        PROVE  Next
    BY <1>4, CommitIsRecord DEF Next
  <1>5. ASSUME NEW h \in Handlers, Locked(h) \/ Fails(h)
        PROVE  Next \/ UNCHANGED vars
    BY <1>5, GivesUpIsDeath DEF Locked, Fails, Next
  <1> QED
    BY <1>1, <1>2, <1>3, <1>4, <1>5 DEF StoreNext, Proceed
------------------------------------------------------------------------------
(* The strengthening is kept.                                              *)

\* A worker whose call is over, one way or the other.
LEMMA EndedShape ==
  ASSUME StoreInv, NEW h \in Handlers, EndCall(h)
  PROVE  /\ StoreShape' /\ OneWriter'
         /\ stage'[h] = "none" /\ work'[h] = NoCall
         /\ \A g \in Handlers : g # h => stage'[g] = stage[g] /\ work'[g] = work[g] /\ tx'[g] = tx[g]
  <1>1. StoreShape'
    BY DEF StoreInv, StoreShape, EndCall, NoTransaction
  <1>2. /\ stage'[h] = "none" /\ work'[h] = NoCall
        /\ \A g \in Handlers : g # h => stage'[g] = stage[g] /\ work'[g] = work[g] /\ tx'[g] = tx[g]
    BY DEF StoreInv, StoreShape, EndCall
  <1>3. OneWriter'
    BY <1>2 DEF StoreInv, OneWriter
  <1> QED
    BY <1>1, <1>2, <1>3

\* A finished thread keeps nothing, and the other threads are as they were.
LEMMA FinishedIdle ==
  ASSUME StoreInv, NEW h \in Handlers, Finish(h)
  PROVE  IdleHands' /\ \A g \in Handlers : g # h => pc'[g] = pc[g]
  <1>1. \A g \in Handlers \ {h} :
          /\ pc'[g] = pc[g] /\ call'[g] = call[g] /\ rep'[g] = rep[g]
          /\ seen'[g] = seen[g] /\ since'[g] = since[g]
    BY CallsShaped DEF StoreInv, Finish
  <1>2. call'[h] = NoCall /\ rep'[h] = NoEvidence /\ seen'[h] = {} /\ since'[h] = 0
    BY CallsShaped DEF StoreInv, Finish
  <1> QED
    BY <1>1, <1>2 DEF StoreInv, IdleHands

\* The steps that open and fill a transaction.
LEMMA StatementKeeps ==
  ASSUME StoreInv, NEW h \in Handlers,
         TakeRecord(h) \/ BeginImmediate(h) \/ InsertRow(h) \/ ReadHead(h)
  PROVE  StoreShape' /\ IdleHands' /\ OneWriter' /\ Prepared'
  <1> USE DEF StoreInv
  <1>0. UNCHANGED vars
    BY DEF TakeRecord, BeginImmediate, InsertRow, ReadHead
  <1>1. IdleHands'
    BY <1>0 DEF IdleHands, vars, calls
  <1>2. \A t : Inserts(t)' = Inserts(t)
    BY <1>0 DEF Inserts, DeliveryTaken, CanaryTaken, vars, tables
  <1>3. pc' = pc
    BY <1>0 DEF vars, calls
  <1>4. CASE TakeRecord(h)
    <2>1. PICK t \in Task : work' = [work EXCEPT ![h] = t]
      BY <1>4 DEF TakeRecord
    <2>2. stage[h] = "none" /\ stage' = stage /\ tx' = tx
      BY <1>4 DEF TakeRecord, Busy
    <2>3. StoreShape' /\ OneWriter'
      BY <2>1, <2>2 DEF StoreShape, OneWriter
    <2>4. \A g \in Handlers : g # h => work'[g] = work[g]
      BY <2>1 DEF StoreShape
    <2>5. Prepared'
      BY <1>2, <1>3, <2>2, <2>4 DEF Prepared
    <2> QED
      BY <1>1, <2>3, <2>5
  <1>5. CASE BeginImmediate(h)
    <2>1. /\ Wants(h) /\ LockFree(h) /\ work' = work /\ tx' = tx
          /\ stage' = [stage EXCEPT ![h] = IF work[h] = NoCall THEN "head" ELSE "row"]
      BY <1>5 DEF BeginImmediate
    <2>2. \A g \in Handlers : g # h => stage'[g] = "none"
      BY <2>1 DEF LockFree, StoreShape
    <2>3. stage'[h] = IF work[h] = NoCall THEN "head" ELSE "row"
      BY <2>1 DEF StoreShape
    <2>4. StoreShape' /\ OneWriter'
      BY <2>1, <2>2 DEF StoreShape, OneWriter
    <2>5. Prepared'
      BY <1>3, <2>1, <2>2, <2>3 DEF Prepared, Wants
    <2> QED
      BY <1>1, <2>4, <2>5
  <1>6. CASE InsertRow(h)
    <2>1. /\ stage[h] = "row" /\ work' = work
          /\ stage' = [stage EXCEPT ![h] = "head"]
          /\ tx' = [tx EXCEPT ![h].updated = Inserts(work[h])]
      BY <1>6 DEF InsertRow
    <2>2. /\ tx'[h].updated = Inserts(work[h])
          /\ \A g \in Handlers : g # h => stage'[g] = stage[g] /\ tx'[g] = tx[g]
          /\ stage'[h] = "head"
      BY <2>1 DEF StoreShape
    <2>3. StoreShape'
      BY <2>1 DEF StoreShape
    <2>4. OneWriter'
      BY <2>1, <2>2 DEF OneWriter
    <2>5. Prepared'
      BY <1>2, <1>3, <2>1, <2>2 DEF Prepared
    <2> QED
      BY <1>1, <2>3, <2>4, <2>5
  <1>7. CASE ReadHead(h)
    <2>1. /\ stage[h] = "head" /\ work' = work
          /\ stage' = [stage EXCEPT ![h] = "commit"]
          /\ tx' = [tx EXCEPT ![h].head = audit_head]
      BY <1>7 DEF ReadHead
    <2>2. /\ tx'[h].updated = tx[h].updated
          /\ \A g \in Handlers : g # h => stage'[g] = stage[g] /\ tx'[g] = tx[g]
          /\ stage'[h] = "commit"
      BY <2>1 DEF StoreShape
    <2>3. StoreShape'
      BY <2>1 DEF StoreShape
    <2>4. OneWriter'
      BY <2>1, <2>2 DEF OneWriter
    <2>5. Prepared'
      BY <1>2, <1>3, <2>1, <2>2 DEF Prepared
    <2> QED
      BY <1>1, <2>3, <2>4, <2>5
  <1> QED
    BY <1>4, <1>5, <1>6, <1>7

\* The steps of a reading call before its append touch no transaction.
LEMMA ReadingKeeps ==
  ASSUME StoreInv, NEW h \in Handlers, TakeReport(h) \/ Read(h)
  PROVE  StoreShape' /\ IdleHands' /\ OneWriter' /\ Prepared'
  <1> USE DEF StoreInv
  <1>1. UNCHANGED <<tables, links, stage, work, tx>>
    BY DEF TakeReport, Read, Begin, ReadReputation, ReadProtocolReputation
  <1>2. StoreShape' /\ OneWriter'
    BY <1>1 DEF StoreShape, OneWriter
  <1>3. \A g \in Handlers : g # h =>
          pc'[g] = pc[g] /\ call'[g] = call[g] /\ rep'[g] = rep[g] /\ seen'[g] = seen[g]
          /\ since'[g] = since[g]
    BY CallsShaped DEF TakeReport, Read, Begin, ReadReputation, ReadProtocolReputation
  <1>4. pc'[h] # "idle"
    BY CallsShaped DEF TakeReport, Read, Begin, ReadReputation, ReadProtocolReputation
  <1>5. IdleHands'
    BY <1>3, <1>4 DEF IdleHands
  <1>6. pc[h] # "append"
    BY DEF TakeReport, Read, Begin, ReadReputation, ReadProtocolReputation
  <1>7. \A t : Inserts(t)' = Inserts(t)
    BY <1>1 DEF Inserts, DeliveryTaken, CanaryTaken, tables
  <1>8. Prepared'
    BY <1>1, <1>3, <1>6, <1>7 DEF Prepared
  <1> QED
    BY <1>2, <1>5, <1>8

\* The ends of calls.  A COMMIT changes the tables when nobody else has read them for a
\* transaction of its own.
LEMMA EndKeeps ==
  ASSUME StoreInv, NEW h \in Handlers,
         CommitRecord(h) \/ CommitReport(h) \/ Locked(h) \/ Fails(h)
  PROVE  StoreShape' /\ IdleHands' /\ OneWriter' /\ Prepared'
  <1> USE DEF StoreInv
  <1>1. EndCall(h)
    BY DEF CommitRecord, CommitReport, Locked, Fails, GivesUp
  <1>2. Finish(h) \/ UNCHANGED calls
    BY DEF CommitRecord, CommitReport, Locked, Fails, GivesUp, trust_snapshot, best_execution
  <1>3. IdleHands' /\ \A g \in Handlers : g # h => pc'[g] = pc[g]
    BY <1>2, FinishedIdle DEF calls, IdleHands
  <1>4. UNCHANGED <<observations, protocol_observations>> \/ stage[h] # "none"
    BY DEF CommitRecord, CommitReport, Locked, Fails, GivesUp, tables
  <1>5. \A g \in Handlers : g # h /\ stage[g] # "none" => \A t : Inserts(t)' = Inserts(t)
    BY <1>4 DEF OneWriter, Inserts, DeliveryTaken, CanaryTaken
  <1>6. Prepared'
    BY <1>1, <1>3, <1>5, EndedShape DEF Prepared
  <1> QED
    BY <1>1, <1>3, <1>6, EndedShape

LEMMA StoreInvStep == ASSUME StoreInv, [StoreNext]_storeVars PROVE StoreInv'
  <1>1. TypeInv'
    BY StatementIsStep, TypeStep DEF StoreInv
  <1>2. CASE UNCHANGED storeVars
    <2>1. UNCHANGED <<vars, stage, work, tx>>
      BY <1>2 DEF storeVars
    <2>2. UNCHANGED <<pc, call, rep, seen, since, observations, protocol_observations>>
      BY <2>1 DEF vars, calls, tables
    <2> QED
      BY <1>1, <2>1, <2>2
         DEF StoreInv, StoreShape, IdleHands, OneWriter, Prepared, Inserts, DeliveryTaken,
             CanaryTaken
  <1>3. CASE StoreNext
    BY <1>1, <1>3, StatementKeeps, ReadingKeeps, EndKeeps DEF StoreNext, Proceed, StoreInv
  <1> QED
    BY <1>2, <1>3

\* The types, the one writer, and what an open transaction knows of the tables.
THEOREM StoreInductive == StoreSpec => []StoreInv
  <1>1. StoreInit => StoreInv
    BY StoreInvInit
  <1>2. StoreInv /\ [StoreNext]_storeVars => StoreInv'
    BY StoreInvStep
  <1> QED
    BY <1>1, <1>2, PTL DEF StoreSpec

\* The store, statement by statement, with workers that overlap, fail, wait and die
\* anywhere, implements the handlers that take one step for each store call.
THEOREM StoreImplements == StoreSpec => StoreIsAtomic
  <1>1. StoreInit => Init
    BY DEF StoreInit
  <1>2. StoreInv /\ [StoreNext]_storeVars => [Next]_vars
    BY StatementIsStep
  <1> QED
    BY <1>1, <1>2, StoreInductive, PTL DEF StoreSpec, StoreIsAtomic, Spec

\* So what snapshots report was true while their call ran, here too.
THEOREM StoreSnapshots == StoreSpec => []SnapshotIsOfTheCall
  BY StoreImplements, SnapshotsAreOfTheCall, PTL DEF StoreIsAtomic

\* And safe recommendations are justified.
THEOREM StoreRoutes == StoreSpec => []SafeRouteIsJustified
  BY StoreImplements, SafeRoutesAreJustified, PTL DEF StoreIsAtomic

\* What the handlers keep in one step each is kept by their transactions, which are taken
\* statement by statement, wait for each other, fail, and are undone.
THEOREM StoreEvidence ==
  StoreSpec => [](/\ TrailMatchesTables /\ CountedOnce
                  /\ SuppressedWasCounted /\ OutcomesAreShown)
  BY StoreImplements, TrailAndTablesAgree, NothingCountsTwice, SuppressionIsJustified,
     OutcomesShown, PTL
  DEF StoreIsAtomic
------------------------------------------------------------------------------
(* The hash chain.                                                         *)

\* There is a link for each event, and links verify.
Chained ==
  /\ \E S : links \in Seq(S)
  /\ Len(links) = Len(audit)
  /\ verify_audit

\* Whoever is about to append knows the head of the chain.
HeadKnown == \A h \in Handlers : stage[h] = "commit" => tx[h].head = audit_head

\* A receipt names a link by its seq, which is part of what is hashed.
Receipted ==
  \A r \in receipts : \E k \in 1..Len(links) :
    r = [hash |-> links[k].hash, event |-> audit[k]]

ChainInv == Chained /\ HeadKnown /\ Receipted

\* The head of a chain that verifies: what the next link has to follow.
LEMMA HeadOfChain ==
  ASSUME Chained
  PROVE  /\ Len(links) \in Nat
         /\ audit_head.count = Len(links)
         /\ audit_head.head = IF Len(links) = 0 THEN ZERO_HASH ELSE links[Len(links)].hash
  <1>1. PICK S : links \in Seq(S)
    BY DEF Chained
  <1>2. Len(links) \in Nat /\ (links = <<>> <=> Len(links) = 0)
    BY <1>1, EmptySeq, LenProperties
  <1>3. links # <<>> => links[Len(links)].seq = Len(links)
    BY <1>2 DEF Chained, verify_audit
  <1> QED
    BY <1>2, <1>3 DEF audit_head

\* An append behind the head extends the chain and every receipt still resolves.
LEMMA ChainExtended ==
  ASSUME TypeOK, TypeOK', Chained, Receipted, HeadKnown,
         NEW h \in Handlers, stage[h] = "commit",
         NEW event, audit' = Append(audit, event),
         links' = Append(links, Link(h, event)),
         receipts' = receipts \cup {[hash |-> Link(h, event).hash, event |-> event]}
  PROVE  Chained' /\ Receipted'
  <1> DEFINE n == Len(links)
             link == Link(h, event)
  <1>1. PICK S : links \in Seq(S)
    BY DEF Chained
  <1>2. n \in Nat /\ tx[h].head.count = n
        /\ tx[h].head.head = IF n = 0 THEN ZERO_HASH ELSE links[n].hash
    BY HeadOfChain DEF HeadKnown
  <1>3. links \in Seq(S \cup {link})
    BY <1>1, SeqMonotonic
  <1>4. /\ links' \in Seq(S \cup {link}) /\ Len(links') = n + 1
        /\ links'[n + 1] = link /\ \A k \in 1..n : links'[k] = links[k]
    BY <1>3
  <1>5. /\ Len(audit) = n /\ Len(audit') = n + 1 /\ audit'[n + 1] = event
        /\ \A k \in 1..n : audit'[k] = audit[k]
    BY DEF TypeOK, Chained
  <1>6. /\ link.seq = n + 1
        /\ link.previous_hash = IF n = 0 THEN ZERO_HASH ELSE links[n].hash
        /\ link.hash = Hash(n + 1, event, link.previous_hash)
    BY <1>2 DEF Link
  <1> HIDE DEF n, link
  <1>7. verify_audit'
    <2> SUFFICES ASSUME NEW k \in 1..(n + 1)
                 PROVE  /\ links'[k].seq = k
                        /\ links'[k].previous_hash = IF k = 1 THEN ZERO_HASH ELSE links'[k - 1].hash
                        /\ links'[k].hash = Hash(k, audit'[k], links'[k].previous_hash)
      BY <1>4 DEF verify_audit, Hash, ZERO_HASH
    <2>1. CASE k = n + 1
      BY <2>1, <1>2, <1>4, <1>5, <1>6
    <2>2. CASE k # n + 1
      <3>1. k \in 1..n /\ (k # 1 => k - 1 \in 1..n)
        BY <2>2, <1>2
      <3>2. /\ links[k].seq = k
            /\ links[k].previous_hash = IF k = 1 THEN ZERO_HASH ELSE links[k - 1].hash
            /\ links[k].hash = Hash(k, audit[k], links[k].previous_hash)
        BY <3>1 DEF Chained, verify_audit, n
      <3> QED
        BY <3>1, <3>2, <1>4, <1>5
    <2> QED
      BY <2>1, <2>2
  <1>8. Chained'
    BY <1>4, <1>5, <1>7 DEF Chained
  <1>9. Receipted'
    <2> SUFFICES ASSUME NEW r \in receipts'
                 PROVE  \E k \in 1..(n + 1) : r = [hash |-> links'[k].hash, event |-> audit'[k]]
      BY <1>4 DEF Receipted
    <2>1. CASE r \in receipts
      <3>1. PICK k \in 1..n : r = [hash |-> links[k].hash, event |-> audit[k]]
        BY <2>1 DEF Receipted, n
      <3> QED
        BY <3>1, <1>2, <1>4, <1>5
    <2>2. CASE r = [hash |-> link.hash, event |-> event]
      BY <2>2, <1>2, <1>4, <1>5
    <2> QED
      BY <2>1, <2>2 DEF link
  <1> QED
    BY <1>8, <1>9

LEMMA ChainInit == ASSUME StoreInit PROVE ChainInv
  <1>1. links = <<>> /\ audit = <<>> /\ receipts = {}
    BY DEF StoreInit, Init
  <1>2. links \in Seq({}) /\ Len(links) = 0 /\ Len(audit) = 0
    BY <1>1
  <1>3. Chained
    BY <1>2 DEF Chained, verify_audit
  <1> QED
    BY <1>1, <1>3 DEF ChainInv, HeadKnown, Receipted, StoreInit

\* Only a COMMIT touches the chain, and only its owner can be at one.
LEMMA ChainStep ==
  ASSUME StoreInv, StoreInv', ChainInv, [StoreNext]_storeVars
  PROVE  ChainInv'
  <1> USE DEF ChainInv
  <1>1. ASSUME UNCHANGED <<links, audit, receipts>> PROVE Chained' /\ Receipted'
    BY <1>1 DEF Chained, Receipted, verify_audit
  <1>2. CASE UNCHANGED storeVars
    BY <1>1, <1>2 DEF storeVars, vars, tables, HeadKnown, audit_head
  <1>3. ASSUME NEW h \in Handlers, TakeRecord(h) \/ TakeReport(h) \/ Read(h)
        PROVE  ChainInv'
    BY <1>1, <1>3
       DEF TakeRecord, TakeReport, Read, Begin, ReadReputation, ReadProtocolReputation, vars,
           tables, HeadKnown, audit_head
  <1>4. ASSUME NEW h \in Handlers, BeginImmediate(h) \/ InsertRow(h)
        PROVE  ChainInv'
    <2>1. UNCHANGED <<links, audit, receipts>>
      BY <1>4 DEF BeginImmediate, InsertRow, vars, tables
    <2>2. /\ stage'[h] # "commit"
          /\ \A g \in Handlers : g # h => stage'[g] = stage[g] /\ tx'[g] = tx[g]
      BY <1>4 DEF BeginImmediate, InsertRow, StoreInv, StoreShape
    <2> QED
      BY <1>1, <2>1, <2>2 DEF HeadKnown, audit_head
  <1>5. ASSUME NEW h \in Handlers, ReadHead(h) PROVE ChainInv'
    <2>1. UNCHANGED <<links, audit, receipts>>
      BY <1>5 DEF ReadHead, vars, tables
    <2>2. /\ tx'[h].head = audit_head
          /\ \A g \in Handlers : g # h => stage'[g] = stage[g] /\ tx'[g] = tx[g]
      BY <1>5 DEF ReadHead, StoreInv, StoreShape
    <2> QED
      BY <1>1, <2>1, <2>2 DEF HeadKnown, audit_head
  <1>6. ASSUME NEW h \in Handlers, CommitRecord(h) \/ CommitReport(h) PROVE ChainInv'
    <2>1. stage[h] = "commit" /\ EndCall(h)
      BY <1>6 DEF CommitRecord, CommitReport
    <2>2. \E event : /\ audit' = Append(audit, event)
                     /\ links' = Append(links, Link(h, event))
                     /\ receipts' = receipts \cup {[hash |-> Link(h, event).hash, event |-> event]}
      <3>1. CASE CommitRecord(h)
        BY <3>1 DEF CommitRecord, append_audit
      <3>2. CASE CommitReport(h)
        <4>1. PICK e \in ReportEvent : audit' = Append(audit, e)
          BY <3>2, ReportStep DEF CommitReport, StoreInv, TypeInv
        <4>2. audit'[Len(audit')] = e
          BY <4>1, Appended DEF StoreInv, TypeInv
        <4> QED
          BY <3>2, <4>1, <4>2 DEF CommitReport
      <3> QED
        BY <1>6, <3>1, <3>2
    <2>3. Chained' /\ Receipted'
      BY <2>1, <2>2, ChainExtended DEF StoreInv, TypeInv
    <2>4. \A g \in Handlers : stage'[g] = "none"
      BY <2>1, EndedShape DEF StoreInv, OneWriter
    <2> QED
      BY <2>3, <2>4 DEF HeadKnown
  <1>7. ASSUME NEW h \in Handlers, Locked(h) \/ Fails(h) PROVE ChainInv'
    <2>1. UNCHANGED <<links, audit, receipts>> /\ EndCall(h)
      BY <1>7 DEF Locked, Fails, GivesUp, tables
    <2> QED
      BY <1>1, <2>1, EndedShape DEF HeadKnown, audit_head
  <1> QED
    BY <1>2, <1>3, <1>4, <1>5, <1>6, <1>7 DEF StoreNext, Proceed

THEOREM ChainInductive == StoreSpec => [](StoreInv /\ ChainInv)
  <1>1. StoreInit => ChainInv
    BY ChainInit
  <1>2. StoreInv /\ StoreInv' /\ ChainInv /\ [StoreNext]_storeVars => ChainInv'
    BY ChainStep
  <1> QED
    BY <1>1, <1>2, StoreInductive, PTL DEF StoreSpec

\* The trail verifies after every step, whoever appends, waits, fails or dies.
THEOREM ChainAlwaysVerifies == StoreSpec => []ChainVerifies
  <1>1. ChainInv => ChainVerifies
    BY DEF ChainInv, Chained, ChainVerifies
  <1> QED
    BY <1>1, ChainInductive, PTL

\* A receipt resolves for good, to the one event of the call that got it, and a list shows
\* it exactly while fewer events came after it than were asked for and a page holds.
THEOREM ReceiptsAlwaysResolve == StoreSpec => []ReceiptsResolve
  <1>1. StoreInv /\ ChainInv => ReceiptsResolve
    <2> SUFFICES ASSUME StoreInv, ChainInv, NEW r \in receipts
                 PROVE  /\ get_audit_event(r.hash) = {r.event}
                        /\ \A limit \in 1..(PageLimit + 1) :
                             LET page == audit_events(limit)
                                 newer == Len(audit) - r.hash[1]
                             IN  (\E i \in DOMAIN page : page[i] = r)
                                   <=> newer < limit /\ newer < PageLimit
      BY DEF ReceiptsResolve
    <2> DEFINE n == Len(audit)
    <2>1. n \in Nat /\ Len(links) = n /\ verify_audit
      BY HeadOfChain DEF ChainInv, Chained
    <2>2. PICK k \in 1..n : r = [hash |-> links[k].hash, event |-> audit[k]]
      BY <2>1 DEF ChainInv, Receipted
    <2>3. \A j \in 1..n : links[j].hash[1] = j
      BY <2>1 DEF verify_audit, Hash
    <2>4. r.hash[1] = k
      BY <2>2, <2>3
    <2>5. {j \in 1..n : links[j].hash = r.hash} = {k}
      BY <2>2, <2>3
    <2>6. get_audit_event(r.hash) = {r.event}
      BY <2>1, <2>2, <2>5 DEF get_audit_event
    <2>7. ASSUME NEW limit \in 1..(PageLimit + 1)
          PROVE  (\E i \in DOMAIN audit_events(limit) : audit_events(limit)[i] = r)
                   <=> n - k < limit /\ n - k < PageLimit
      <3> DEFINE capped == IF limit > PageLimit THEN PageLimit ELSE limit
                 skipped == IF n > capped THEN n - capped ELSE 0
      <3>1. /\ limit \in Nat /\ limit >= 1 /\ PageLimit \in Nat /\ capped \in Nat
            /\ skipped \in 0..n
        BY <2>1, StoreAssumption
      <3>2. audit_events(limit) = [i \in 1..(n - skipped) |->
                [hash |-> links[skipped + i].hash, event |-> audit[skipped + i]]]
        BY <3>1 DEF audit_events
      <3>3. skipped < k <=> n - k < limit /\ n - k < PageLimit
        BY <2>1, <2>2, <3>1
      <3> HIDE DEF skipped, capped
      <3>4. ASSUME skipped < k
            PROVE  \E i \in DOMAIN audit_events(limit) : audit_events(limit)[i] = r
        <4>1. k - skipped \in 1..(n - skipped) /\ skipped + (k - skipped) = k
          BY <2>1, <2>2, <3>1, <3>4
        <4> QED
          BY <2>2, <3>2, <4>1
      <3>5. ASSUME NEW i \in DOMAIN audit_events(limit), audit_events(limit)[i] = r
            PROVE  skipped < k
        <4>1. i \in 1..(n - skipped) /\ r.hash = links[skipped + i].hash
          BY <3>2, <3>5
        <4>2. skipped + i \in 1..n /\ skipped < skipped + i
          BY <2>1, <3>1, <4>1
        <4>3. skipped + i = k
          BY <2>5, <4>1, <4>2
        <4> QED
          BY <4>2, <4>3
      <3> QED
        BY <3>3, <3>4, <3>5
    <2> QED
      BY <2>4, <2>6, <2>7
  <1> QED
    BY <1>1, ChainInductive, PTL
------------------------------------------------------------------------------
(* Types.                                                                  *)

StoreTyped ==
  /\ \A k \in 1..Len(links) : DOMAIN links[k] = {"seq", "previous_hash", "hash"}
  /\ \A h \in Handlers :
       /\ tx[h].updated \in BOOLEAN /\ tx[h].head.count \in Nat
       /\ stage[h] = "none" => tx[h] = NoTransaction
       /\ work[h] # NoCall => pc[h] = "idle"

\* A transaction is left as it is before one has begun.
LEMMA EndedTyped ==
  ASSUME StoreInv, StoreTyped, NEW h \in Handlers, EndCall(h),
         \A g \in Handlers : g # h => pc'[g] = pc[g]
  PROVE  \A g \in Handlers :
           /\ tx'[g].updated \in BOOLEAN /\ tx'[g].head.count \in Nat
           /\ stage'[g] = "none" => tx'[g] = NoTransaction
           /\ work'[g] # NoCall => pc'[g] = "idle"
  <1>1. tx'[h] = NoTransaction
    BY DEF EndCall, StoreInv, StoreShape
  <1>2. NoTransaction.updated \in BOOLEAN /\ NoTransaction.head.count \in Nat
    BY DEF NoTransaction
  <1> QED
    BY <1>1, <1>2, EndedShape DEF StoreTyped

LEMMA StoreTypedStep ==
  ASSUME StoreInv, ChainInv, StoreTyped, [StoreNext]_storeVars
  PROVE  StoreTyped'
  <1> USE DEF StoreTyped
  <1>1. CASE UNCHANGED storeVars
    BY <1>1 DEF storeVars, vars, calls
  <1>2. ASSUME NEW h \in Handlers, TakeRecord(h) PROVE StoreTyped'
    BY <1>2 DEF TakeRecord, Busy, vars, calls, StoreInv, StoreShape
  <1>3. ASSUME NEW h \in Handlers, TakeReport(h) \/ Read(h) PROVE StoreTyped'
    <2>1. UNCHANGED <<links, stage, work, tx>> /\ (pc[h] = "idle" => work[h] = NoCall)
      BY <1>3 DEF TakeReport, Read, Busy, ReadReputation, ReadProtocolReputation
    <2>2. work[h] = NoCall
      BY <1>3, <2>1 DEF TakeReport, Read, Begin, ReadReputation, ReadProtocolReputation
    <2>3. \A g \in Handlers : g # h => pc'[g] = pc[g]
      BY <1>3, CallsShaped
         DEF StoreInv, TakeReport, Read, Begin, ReadReputation, ReadProtocolReputation
    <2> QED
      BY <2>1, <2>2, <2>3
  <1>4. ASSUME NEW h \in Handlers, BeginImmediate(h) PROVE StoreTyped'
    BY <1>4 DEF BeginImmediate, vars, calls, StoreInv, StoreShape
  <1>5. ASSUME NEW h \in Handlers, InsertRow(h) PROVE StoreTyped'
    <2>1. /\ \A g \in Handlers : g # h => tx'[g] = tx[g] /\ stage'[g] = stage[g]
          /\ tx'[h].updated = Inserts(work[h]) /\ tx'[h].head = tx[h].head
          /\ stage'[h] = "head" /\ UNCHANGED <<links, work, pc>>
      BY <1>5 DEF InsertRow, vars, calls, StoreInv, StoreShape
    <2>2. Inserts(work[h]) \in BOOLEAN
      BY Zenon DEF Inserts, reputation_eligible, Decisive, DeliveryTaken, CanaryTaken
    <2> QED
      BY <2>1, <2>2
  <1>6. ASSUME NEW h \in Handlers, ReadHead(h) PROVE StoreTyped'
    <2>1. /\ \A g \in Handlers : g # h => tx'[g] = tx[g] /\ stage'[g] = stage[g]
          /\ tx'[h].updated = tx[h].updated /\ tx'[h].head = audit_head
          /\ stage'[h] = "commit" /\ UNCHANGED <<links, work, pc>>
      BY <1>6 DEF ReadHead, vars, calls, StoreInv, StoreShape
    <2>2. audit_head.count \in Nat
      BY HeadOfChain DEF ChainInv
    <2> QED
      BY <2>1, <2>2
  <1>7. ASSUME NEW h \in Handlers, CommitRecord(h) \/ CommitReport(h) \/ Locked(h) \/ Fails(h)
        PROVE  StoreTyped'
    <2>1. EndCall(h)
      BY <1>7 DEF CommitRecord, CommitReport, Locked, Fails, GivesUp
    <2>2. Finish(h) \/ UNCHANGED calls
      BY <1>7
         DEF CommitRecord, CommitReport, Locked, Fails, GivesUp, trust_snapshot, best_execution
    <2>3. \A g \in Handlers : g # h => pc'[g] = pc[g]
      BY <2>2, FinishedIdle DEF calls
    <2>4. links' = links \/ \E event : links' = Append(links, Link(h, event))
      BY <1>7 DEF CommitRecord, CommitReport, Locked, Fails, GivesUp
    <2>5. \A k \in 1..Len(links') : DOMAIN links'[k] = {"seq", "previous_hash", "hash"}
      <3>1. ASSUME NEW event, links' = Append(links, Link(h, event))
            PROVE  \A k \in 1..Len(links') : DOMAIN links'[k] = {"seq", "previous_hash", "hash"}
        <4>1. PICK S : links \in Seq(S)
          BY DEF ChainInv, Chained
        <4>2. links \in Seq(S \cup {Link(h, event)})
          BY <4>1, SeqMonotonic
        <4>3. DOMAIN Link(h, event) = {"seq", "previous_hash", "hash"}
          BY DEF Link
        <4> QED
          BY <3>1, <4>2, <4>3
      <3> QED
        BY <2>4, <3>1
    <2> QED
      BY <2>1, <2>3, <2>5, EndedTyped
  <1> QED
    BY <1>1, <1>2, <1>3, <1>4, <1>5, <1>6, <1>7 DEF StoreNext, Proceed

\* Every variable keeps to its type, and a worker's transaction to its call.
THEOREM StoreTypeCorrect == StoreSpec => []StoreTypeOK
  <1>1. StoreInit => StoreTyped
    <2> SUFFICES ASSUME StoreInit PROVE StoreTyped
      OBVIOUS
    <2>1. Len(links) = 0
      BY DEF StoreInit
    <2>2. \A h \in Handlers : tx[h] = NoTransaction /\ work[h] = NoCall
      BY DEF StoreInit
    <2>3. NoTransaction.updated \in BOOLEAN /\ NoTransaction.head.count \in Nat
      BY DEF NoTransaction
    <2> QED
      BY <2>1, <2>2, <2>3 DEF StoreTyped
  <1>2. StoreInv /\ ChainInv /\ StoreTyped /\ [StoreNext]_storeVars => StoreTyped'
    BY StoreTypedStep
  <1>3. StoreInv /\ ChainInv /\ StoreTyped => StoreTypeOK
    <2> SUFFICES ASSUME StoreInv, ChainInv, StoreTyped PROVE StoreTypeOK
      OBVIOUS
    <2>1. TypeOK /\ Len(links) = Len(audit)
      BY DEF StoreInv, TypeInv, ChainInv, Chained
    <2>2. \A r \in receipts : r.event \in RecordEvent \cup ReportEvent
      BY <2>1, HeadOfChain DEF ChainInv, Receipted, TypeOK
    <2>3. \A h \in Handlers : stage[h] # "none" => (work[h] = NoCall <=> pc[h] = "append")
      BY DEF StoreInv, Prepared, StoreTyped
    <2> QED
      BY <2>1, <2>2, <2>3 DEF StoreTypeOK, StoreTyped, StoreInv, StoreShape
  <1> QED
    BY <1>1, <1>2, <1>3, ChainInductive, PTL DEF StoreSpec
==============================================================================
