---------------------------- MODULE EvidenceStore ----------------------------
(***************************************************************************)
(* CounterpartyStore statement by statement.  EvidenceService takes a      *)
(* store call for one step; here it is what storage.py makes of it: a      *)
(* connection of its own, BEGIN IMMEDIATE, the statements, COMMIT or       *)
(* ROLLBACK, while other workers wait for the write lock, give it up after *)
(* their busy timeout, or read.                                            *)
(*                                                                         *)
(* The variables of EvidenceService are the committed database.  In WAL    *)
(* mode a reader sees nothing else, and an open transaction that its       *)
(* process does not live to commit is nowhere.                             *)
(***************************************************************************)
EXTENDS EvidenceService

CONSTANT PageLimit   \* the most events a caller gets in one page (1000)

ASSUME StoreAssumption == PageLimit \in Nat \ {0}

VARIABLES
  links,     \* the columns seq, previous_hash and hash of audit_events, as committed
  stage,     \* the next statement of each worker's transaction, "none" without one
  work,      \* the record call each worker has in hand
  tx,        \* what its transaction knows: [updated, head]
  receipts   \* history: [hash, event] of every call that was answered

storeVars == <<vars, links, stage, work, tx, receipts>>

\* What a worker is asked to record.
Task == [type : {"verify_delivery"}, of : Verifications]
          \cup [type : {"protocol_probe"}, of : Canaries]

ZERO_HASH == <<>>

\* The digest of an event as appended.  SHA-256 is taken to be injective, so the digest
\* may as well be what it is computed from.
Hash(seq, event, previous_hash) == <<seq, event, previous_hash>>

\* SELECT seq, hash ... ORDER BY seq DESC LIMIT 1
audit_head ==
  IF links = <<>> THEN [count |-> 0, head |-> ZERO_HASH]
  ELSE [count |-> links[Len(links)].seq, head |-> links[Len(links)].hash]

NoTransaction == [updated |-> FALSE, head |-> [count |-> 0, head |-> ZERO_HASH]]

\* A worker has a call to write for: a record call, or a report that has done its reads.
Wants(h) == stage[h] = "none" /\ (work[h] # NoCall \/ pc[h] = "append")

Busy(h) == stage[h] # "none" \/ work[h] # NoCall \/ pc[h] # "idle"

\* Bound: every call in progress may append one event.
Room == Len(audit) + Cardinality({h \in Handlers : Busy(h)}) < MaxEvents

StoreInit ==
  /\ Init
  /\ links = <<>>
  /\ stage = [h \in Handlers |-> "none"]
  /\ work = [h \in Handlers |-> NoCall]
  /\ tx = [h \in Handlers |-> NoTransaction]
  /\ receipts = {}
-----------------------------------------------------------------------------
\* A worker takes a record call.  The probes are pure: the outcome is settled here.
TakeRecord(h) ==
  /\ ~Busy(h) /\ Room
  /\ \E t \in Task : work' = [work EXCEPT ![h] = t]
  /\ UNCHANGED <<vars, links, stage, tx, receipts>>

\* A worker takes a reading call.
TakeReport(h) ==
  /\ ~Busy(h) /\ Room
  /\ Begin(h)
  /\ UNCHANGED <<links, stage, work, tx, receipts>>

Read(h) ==
  /\ ReadReputation(h) \/ ReadProtocolReputation(h)
  /\ UNCHANGED <<links, stage, work, tx, receipts>>

\* Variant: a plain BEGIN, with nothing to keep a second writer from the same head.
LockFree_Deferred(h) == TRUE

\* The database's write lock is nobody's.
LockFree(h) == \A g \in Handlers : stage[g] = "none"

\* connect, BEGIN IMMEDIATE
BeginImmediate(h) ==
  /\ Wants(h) /\ LockFree(h)
  /\ stage' = [stage EXCEPT ![h] = IF work[h] = NoCall THEN "head" ELSE "row"]
  /\ UNCHANGED <<vars, links, work, tx, receipts>>

\* Whether the row is inserted, and not refused by a UNIQUE constraint.
Inserts(t) ==
  IF t.type = "verify_delivery"
  THEN /\ reputation_eligible(t.of.evidence) /\ Decisive(outcome(t.of.evidence))
       /\ ~DeliveryTaken(t.of)
  ELSE ~CanaryTaken(t.of)

\* Variant: no transaction is open, so that the row is there for good at once.
InsertRow_Autocommit(h) ==
  /\ stage[h] = "row"
  /\ stage' = [stage EXCEPT ![h] = "head"]
  /\ tx' = [tx EXCEPT ![h].updated = Inserts(work[h])]
  /\ observations' =
       IF work[h].type = "verify_delivery"
       THEN WithRow(observations, work[h].of, outcome(work[h].of.evidence), Inserts(work[h]))
       ELSE observations
  /\ UNCHANGED <<protocol_observations, audit, calls, links, work, receipts>>

\* INSERT INTO observations or protocol_observations; an IntegrityError is caught.
InsertRow(h) ==
  /\ stage[h] = "row"
  /\ stage' = [stage EXCEPT ![h] = "head"]
  /\ tx' = [tx EXCEPT ![h].updated = Inserts(work[h])]
  /\ UNCHANGED <<vars, links, work, receipts>>

\* _append_audit_tx reads the head of the chain ...
ReadHead(h) ==
  /\ stage[h] = "head"
  /\ stage' = [stage EXCEPT ![h] = "commit"]
  /\ tx' = [tx EXCEPT ![h].head = audit_head]
  /\ UNCHANGED <<vars, links, work, receipts>>

\* ... and inserts the event behind it: what the row of an event says of the chain.
Link(h, event) ==
  LET seq == tx[h].head.count + 1
      previous_hash == tx[h].head.head
  IN  [seq |-> seq, previous_hash |-> previous_hash, hash |-> Hash(seq, event, previous_hash)]

\* The audit event of a record call.
Recorded(t, updated) ==
  IF t.type = "verify_delivery"
  THEN [type |-> "verify_delivery", of |-> t.of, state |-> outcome(t.of.evidence),
        updated |-> updated,
        replay_suppressed |-> Decisive(outcome(t.of.evidence)) /\ ~updated]
  ELSE [type |-> "protocol_probe", of |-> t.of,
        state |-> IF outcome(t.of.evidence) = "PASS" THEN "PASS" ELSE "FAIL",
        updated |-> updated, replay_suppressed |-> ~updated]

\* Variant: what the last transaction knew is still there.
EndCall_KeepsState(h) ==
  /\ stage' = [stage EXCEPT ![h] = "none"]
  /\ work' = [work EXCEPT ![h] = NoCall]
  /\ UNCHANGED tx

\* The transaction, and the call with it, is over.
EndCall(h) ==
  /\ stage' = [stage EXCEPT ![h] = "none"]
  /\ work' = [work EXCEPT ![h] = NoCall]
  /\ tx' = [tx EXCEPT ![h] = NoTransaction]

\* INSERT INTO audit_events, COMMIT: row and event appear together, and the caller gets
\* the receipt.
CommitRecord(h) ==
  LET t == work[h]
      event == Recorded(t, tx[h].updated)
      row == [of |-> t.of, outcome |-> event.state]
  IN  /\ stage[h] = "commit" /\ t # NoCall
      /\ IF t.type = "verify_delivery"
         THEN /\ observations' = WithRow(observations, t.of, event.state, tx[h].updated)
              /\ UNCHANGED protocol_observations
         ELSE /\ protocol_observations' =
                   WithRow(protocol_observations, t.of, event.state, tx[h].updated)
              /\ UNCHANGED observations
      /\ append_audit(event)
      /\ links' = Append(links, Link(h, event))
      /\ receipts' = receipts \cup {[hash |-> Link(h, event).hash, event |-> event]}
      /\ EndCall(h)
      /\ UNCHANGED calls

\* The same for a report, whose event is made of what the thread has read.
CommitReport(h) ==
  /\ stage[h] = "commit" /\ work[h] = NoCall
  /\ trust_snapshot(h) \/ best_execution(h)
  /\ LET event == audit'[Len(audit')]
     IN  /\ links' = Append(links, Link(h, event))
         /\ receipts' = receipts \cup {[hash |-> Link(h, event).hash, event |-> event]}
  /\ EndCall(h)

\* The call ends without an answer and leaves nothing in the database.
GivesUp(h) ==
  /\ EndCall(h) /\ Finish(h)
  /\ UNCHANGED <<tables, links, receipts>>

\* Variant: waiting for the lock has no timeout.
Locked_Never(h) == Wants(h) /\ LockFree(h) /\ ~LockFree(h) /\ GivesUp(h)

\* "database is locked": the busy timeout expires while another worker has the lock.  The
\* ROLLBACK without a transaction raises too; either way the call fails.
Locked(h) == Wants(h) /\ (\E g \in Handlers : stage[g] # "none") /\ GivesUp(h)

\* Variant: the receipt is handed out although the COMMIT did not go through.
Fails_Answered(h) ==
  /\ Busy(h)
  /\ receipts' = IF stage[h] = "commit" /\ work[h] # NoCall
                 THEN LET event == Recorded(work[h], tx[h].updated)
                      IN  receipts \cup {[hash |-> Link(h, event).hash, event |-> event]}
                 ELSE receipts
  /\ EndCall(h) /\ Finish(h)
  /\ UNCHANGED <<tables, links>>

\* A statement raises and ROLLBACK undoes the transaction, or the worker dies and recovery
\* does.
Fails(h) == Busy(h) /\ GivesUp(h)

Proceed(h) ==
  \/ Read(h) \/ BeginImmediate(h) \/ Locked(h) \/ InsertRow(h) \/ ReadHead(h)
  \/ CommitRecord(h) \/ CommitReport(h)

StoreNext == \E h \in Handlers : TakeRecord(h) \/ TakeReport(h) \/ Proceed(h) \/ Fails(h)

\* A worker with something to do does it.  Nobody has to fail, nor to call.
StoreSpec == StoreInit /\ [][StoreNext]_storeVars /\ \A h \in Handlers : WF_storeVars(Proceed(h))
-----------------------------------------------------------------------------
(* What the surface for auditors reads.                                    *)

verify_audit ==
  \A k \in 1..Len(links) :
    /\ links[k].seq = k
    /\ links[k].previous_hash = IF k = 1 THEN ZERO_HASH ELSE links[k - 1].hash
    /\ links[k].hash = Hash(k, audit[k], links[k].previous_hash)

\* The events whose hash is a receipt.
get_audit_event(receipt) == {audit[k] : k \in {j \in 1..Len(links) : links[j].hash = receipt}}

\* GET /v1/audit: the last events, oldest first, and at most PageLimit of them whatever
\* `limit` says.  There is no way to ask for those before them.
audit_events(limit) ==
  LET capped == IF limit < 1 THEN 1 ELSE IF limit > PageLimit THEN PageLimit ELSE limit
      skipped == IF Len(audit) > capped THEN Len(audit) - capped ELSE 0
  IN  [i \in 1..(Len(audit) - skipped) |->
         [hash |-> links[skipped + i].hash, event |-> audit[skipped + i]]]
-----------------------------------------------------------------------------
(* Properties.                                                             *)

StoreTypeOK ==
  /\ TypeOK
  /\ Len(links) = Len(audit)
  /\ \A k \in 1..Len(links) : DOMAIN links[k] = {"seq", "previous_hash", "hash"}
  /\ stage \in [Handlers -> {"none", "row", "head", "commit"}]
  /\ work \in [Handlers -> Task \cup {NoCall}]
  /\ \A h \in Handlers :
       /\ tx[h].updated \in BOOLEAN /\ tx[h].head.count \in Nat
       /\ stage[h] = "none" => tx[h] = NoTransaction
       /\ stage[h] # "none" => (work[h] = NoCall <=> pc[h] = "append")
  /\ \A r \in receipts : r.event \in RecordEvent \cup ReportEvent

\* The trail verifies after every step: writers that come at the same moment, fail or die
\* anywhere leave one chain without a gap, a fork or a repeated seq ("so two requests
\* cannot mint the same sequence number", storage.py).
ChainVerifies == verify_audit

\* A receipt that was handed out resolves for good, to the event of the call that got it.
\* The list shows it as long as fewer than PageLimit events came after it, to a caller who
\* asks for enough of them; from then on no caller's list does.
ReceiptsResolve ==
  \A r \in receipts :
    /\ get_audit_event(r.hash) = {r.event}
    /\ \A limit \in 1..(PageLimit + 1) :
         LET page == audit_events(limit)
             newer == Len(audit) - r.hash[1]
         IN  (\E i \in DOMAIN page : page[i] = r) <=> newer < limit /\ newer < PageLimit

\* Statement by statement, with failures anywhere, the store does what EvidenceService
\* says it does in one step, so that what holds of its handlers holds here.
StoreIsAtomic == Spec

\* A call ends, with an answer or an error, whoever else wants the write lock.
CallsEnd == \A h \in Handlers : Busy(h) ~> ~Busy(h)
=============================================================================
