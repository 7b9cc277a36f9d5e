--------------------------- MODULE EvidenceService ---------------------------
(***************************************************************************)
(* Counterparty's private backend: the handlers of app.py, which FastAPI   *)
(* runs side by side in a thread pool, on the tables of storage.py.        *)
(*                                                                         *)
(* verify_delivery and probe_observation each touch the store in one       *)
(* BEGIN IMMEDIATE transaction.  trust_snapshot and best_execution read    *)
(* the two evidence tables once per seller and table, each time on a new   *)
(* connection, and append their audit event last; anything can be written  *)
(* in between.  A worker may die in the middle of a call.                  *)
(*                                                                         *)
(* The hash chain is kept as the sequence it secures, so a receipt is a    *)
(* position in it, and audit[k] is what GET /v1/audit/{receipt} returns.   *)
(***************************************************************************)
EXTENDS Verification, Reputation, Sequences, FiniteSets

CONSTANTS
  Handlers,     \* worker threads that can be in the middle of a reading call
  Sellers,      \* provider_id / service_id
  TaskTypes,    \* task_type values
  General,      \* the task_type whose observations count for every task
  Verifications,  \* verify_delivery requests: [delivery, service, task, evidence]
  Canaries,     \* probe_observation requests: [probe, service, evidence]
  Queries,      \* trust_snapshot and best_execution requests
  NoCall,       \* what an idle thread works on
  MaxEvents     \* bound: audit events

\* A reading call: the sellers it asks about in order, and those of them whose price is
\* within the budget.  A trust snapshot asks about one.
Query == [kind : {"trust_snapshot", "best_execution"}, task : TaskTypes,
          mode : {"safe", "explore"}, sellers : Seq(Sellers), affordable : SUBSET Sellers]

ASSUME EvidenceAssumption ==
  /\ General \in TaskTypes
  /\ \A q \in Verifications :
       q.service \in Sellers /\ q.task \in TaskTypes /\ q.evidence \in Evidence
  /\ \A q \in Canaries :
       /\ q.service \in Sellers /\ q.evidence \in Evidence
       /\ q.evidence.schema \in {"satisfied", "violated"}
       /\ q.evidence.assertions \in {"hold", "fail"}
       /\ ~q.evidence.cited /\ q.evidence.checks = {}
  /\ Queries \subseteq Query /\ NoCall \notin Query
  /\ \A q \in Queries :
       q.sellers # <<>> /\ (q.kind = "trust_snapshot" => Len(q.sellers) = 1)

VARIABLES
  observations,          \* table: [of, outcome], of a verification
  protocol_observations, \* table: [of, outcome], of a canary
  audit,                 \* table audit_events in order
  pc,                    \* what each thread does next
  call,                  \* the query it works on, `sellers` being those left to read
  rep,                   \* the delivery counts a thread has read for the seller at hand
  seen,                  \* [seller, rep, canary] for the sellers it is done with
  since                  \* history: the length of the audit trail when the call began

tables == <<observations, protocol_observations, audit>>
calls  == <<pc, call, rep, seen, since>>
vars   == <<tables, calls>>
-----------------------------------------------------------------------------
\* The audit events of the two calls that record evidence and the two that report it.
RecordEvent ==
  [type : {"verify_delivery"}, of : Verifications, state : EvidenceState,
   updated : BOOLEAN, replay_suppressed : BOOLEAN]
  \cup [type : {"protocol_probe"}, of : Canaries, state : {"PASS", "FAIL"},
        updated : BOOLEAN, replay_suppressed : BOOLEAN]

ReportEvent ==
  [type : {"trust_snapshot"}, seller : Sellers, task : TaskTypes, rep : Counts,
   canary : Counts, evidence_tier : Tiers, verdict : Verdicts, since : Nat]
  \cup [type : {"best_execution"}, state : {"PASS"}, mode : {"safe", "explore"},
        task : TaskTypes, recommended : Sellers, evidence_tier : Tiers \ {"REJECTED"},
        since : Nat]
  \cup [type : {"best_execution"}, state : {"INCONCLUSIVE"}, mode : {"safe", "explore"},
        since : Nat]

\* What evidence_hash is computed from; task_type is not part of it.
fingerprint(q) == [delivery |-> q.delivery, service |-> q.service, evidence |-> q.evidence]

\* Variants: only the evidence is unique; any report uses the delivery_id up.
DeliveryTaken_ByEvidence(q) ==
  \E o \in observations : o.of.service = q.service /\ fingerprint(o.of) = fingerprint(q)
DeliveryTaken_ByReport(q) ==
  \E k \in 1..Len(audit) :
    audit[k].type = "verify_delivery" /\ audit[k].of.delivery = q.delivery

\* UNIQUE(delivery_id) and UNIQUE(service_id, evidence_hash).
DeliveryTaken(q) ==
  \E o \in observations :
    \/ o.of.delivery = q.delivery
    \/ o.of.service = q.service /\ fingerprint(o.of) = fingerprint(q)

\* UNIQUE(probe_id) and UNIQUE(service_id, evidence_hash); the hash covers the probe_id.
CanaryTaken(q) == \E o \in protocol_observations : o.of.probe = q.probe \/ o.of = q

\* SELECT outcome ...: how many of the rows passed and failed.
Tally(rows) == [successes |-> Cardinality({o \in rows : o.outcome = "PASS"}),
                failures  |-> Cardinality({o \in rows : o.outcome = "FAIL"})]

\* Variant: general evidence is left out.
About_TaskOnly(rows, s, t) == {o \in rows : o.of.service = s /\ o.of.task = t}

\* The rows on a seller that count for a task: the task's own and the general ones.
About(rows, s, t) == {o \in rows : o.of.service = s /\ o.of.task \in {t, General}}

reputation(s, t) == Tally(About(observations, s, t))

protocol_reputation(s) == Tally({o \in protocol_observations : o.of.service = s})
-----------------------------------------------------------------------------
Init ==
  /\ observations = {} /\ protocol_observations = {} /\ audit = <<>>
  /\ pc = [h \in Handlers |-> "idle"]
  /\ call = [h \in Handlers |-> NoCall]
  /\ rep = [h \in Handlers |-> NoEvidence]
  /\ seen = [h \in Handlers |-> {}]
  /\ since = [h \in Handlers |-> 0]

append_audit(event) == Len(audit) < MaxEvents /\ audit' = Append(audit, event)

\* Variant: every verdict goes to the table.
Decisive_Any(state) == TRUE

Decisive(state) == state \in {"PASS", "FAIL"}

\* Variant: the row is inserted whether or not the insert is reported.
WithRow_Always(rows, q, state, updated) == rows \cup {[of |-> q, outcome |-> state]}

\* The table after the insert, which a UNIQUE constraint may have refused.
WithRow(rows, q, state, updated) ==
  rows \cup (IF updated THEN {[of |-> q, outcome |-> state]} ELSE {})

\* record_verification: the row, when there is one to insert, and its receipt commit
\* together.
verify_delivery(q) ==
  LET state == outcome(q.evidence)
      updated == reputation_eligible(q.evidence) /\ Decisive(state) /\ ~DeliveryTaken(q)
  IN  /\ observations' = WithRow(observations, q, state, updated)
      /\ append_audit([type |-> "verify_delivery", of |-> q, state |-> state,
                       updated |-> updated, replay_suppressed |-> Decisive(state) /\ ~updated])
      /\ UNCHANGED <<protocol_observations, calls>>

\* The canary's contract is the server's own; were it undecided it would count as FAIL.
probe_observation(q) ==
  LET state == IF outcome(q.evidence) = "PASS" THEN "PASS" ELSE "FAIL"
      updated == ~CanaryTaken(q)
  IN  /\ protocol_observations' = WithRow(protocol_observations, q, state, updated)
      /\ append_audit([type |-> "protocol_probe", of |-> q, state |-> state,
                       updated |-> updated, replay_suppressed |-> ~updated])
      /\ UNCHANGED <<observations, calls>>
-----------------------------------------------------------------------------
\* A thread takes a reading call.
Begin(h) ==
  /\ pc[h] = "idle"
  /\ \E q \in Queries : call' = [call EXCEPT ![h] = q]
  /\ pc' = [pc EXCEPT ![h] = "reputation"]
  /\ seen' = [seen EXCEPT ![h] = {}]
  /\ since' = [since EXCEPT ![h] = Len(audit)]
  /\ UNCHANGED <<tables, rep>>

\* store.reputation(...) of the seller at hand
ReadReputation(h) ==
  /\ pc[h] = "reputation"
  /\ rep' = [rep EXCEPT ![h] = reputation(Head(call[h].sellers), call[h].task)]
  /\ pc' = [pc EXCEPT ![h] = "protocol"]
  /\ UNCHANGED <<tables, call, seen, since>>

\* store.protocol_reputation(...) of the same seller; then the next one, if any
ReadProtocolReputation(h) ==
  /\ pc[h] = "protocol"
  /\ LET s == Head(call[h].sellers)
     IN  seen' = [seen EXCEPT ![h] =
           @ \cup {[seller |-> s, rep |-> rep[h], canary |-> protocol_reputation(s)]}]
  /\ call' = [call EXCEPT ![h].sellers = Tail(@)]
  /\ pc' = [pc EXCEPT ![h] = IF Len(call[h].sellers) > 1 THEN "reputation" ELSE "append"]
  /\ UNCHANGED <<tables, rep, since>>

\* The thread is done with the call, or dies in the middle of it.
Finish(h) ==
  /\ pc' = [pc EXCEPT ![h] = "idle"]
  /\ call' = [call EXCEPT ![h] = NoCall]
  /\ rep' = [rep EXCEPT ![h] = NoEvidence]
  /\ seen' = [seen EXCEPT ![h] = {}]
  /\ since' = [since EXCEPT ![h] = 0]

trust_snapshot(h) ==
  /\ pc[h] = "append" /\ call[h].kind = "trust_snapshot"
  /\ \E c \in seen[h] :
       append_audit([type |-> "trust_snapshot", seller |-> c.seller, task |-> call[h].task,
                     rep |-> c.rep, canary |-> c.canary,
                     evidence_tier |-> evidence_tier(c.rep, c.canary),
                     verdict |-> verdict(c.rep, c.canary), since |-> since[h]])
  /\ Finish(h)
  /\ UNCHANGED <<observations, protocol_observations>>

Tier(c) == evidence_tier(c.rep, c.canary)

\* Who may be recommended.  Prices, task fit and latencies come with the call, so the
\* utilities may put any of them first.
viable(h) == {c \in seen[h] : c.seller \in call[h].affordable}

\* Variant: nobody is turned away.
routeable_All(h) == viable(h)

routeable(h) == {c \in viable(h) : Tier(c) # "REJECTED"}

evidence_ready(h) == {c \in routeable(h) : Tier(c) \in {"VERIFIED", "PROVISIONAL"}}

\* Variant: safe mode takes anyone not rejected.
Eligible_Routeable(h) == routeable(h)

\* Safe mode asks for evidence; explore mode only that the seller is not rejected.
Eligible(h) == IF call[h].mode = "safe" THEN evidence_ready(h) ELSE routeable(h)

best_execution(h) ==
  /\ pc[h] = "append" /\ call[h].kind = "best_execution"
  /\ \/ \E c \in Eligible(h) :
          append_audit([type |-> "best_execution", state |-> "PASS", mode |-> call[h].mode,
                        task |-> call[h].task, recommended |-> c.seller,
                        evidence_tier |-> Tier(c), since |-> since[h]])
     \/ /\ Eligible(h) = {}
        /\ append_audit([type |-> "best_execution", state |-> "INCONCLUSIVE",
                         mode |-> call[h].mode, since |-> since[h]])
  /\ Finish(h)
  /\ UNCHANGED <<observations, protocol_observations>>

Die(h) == pc[h] # "idle" /\ Finish(h) /\ UNCHANGED tables

Next ==
  \/ \E q \in Verifications : verify_delivery(q)
  \/ \E q \in Canaries : probe_observation(q)
  \/ \E h \in Handlers :
       \/ Begin(h) \/ ReadReputation(h) \/ ReadProtocolReputation(h)
       \/ trust_snapshot(h) \/ best_execution(h) \/ Die(h)

Spec == Init /\ [][Next]_vars
-----------------------------------------------------------------------------
(* Properties.                                                             *)

TypeOK ==
  /\ observations \subseteq [of : Verifications, outcome : {"PASS", "FAIL"}]
  /\ protocol_observations \subseteq [of : Canaries, outcome : {"PASS", "FAIL"}]
  /\ audit \in Seq(RecordEvent \cup ReportEvent)
  /\ pc \in [Handlers -> {"idle", "reputation", "protocol", "append"}]
  /\ call \in [Handlers -> Query \cup {NoCall}]
  /\ rep \in [Handlers -> Counts]
  /\ seen \in [Handlers -> SUBSET [seller : Sellers, rep : Counts, canary : Counts]]
  /\ since \in [Handlers -> Nat]

\* The events of a type among the first n that report an update.
Updates(type, n) == {k \in 1..n : audit[k].type = type /\ audit[k].updated}

\* The rows those updates stand for.
Rebuilt(type) ==
  {[of |-> audit[k].of, outcome |-> audit[k].state] : k \in Updates(type, Len(audit))}

\* The evidence tables can be rebuilt from the audit trail: each row was reported by one
\* event as an update, and each reported update is a row ("a crash cannot leave a
\* trust observation without its audit record, or vice versa", storage.py).
TrailMatchesTables ==
  /\ observations = Rebuilt("verify_delivery")
  /\ protocol_observations = Rebuilt("protocol_probe")

\* However often, in whatever order and with whatever evidence a delivery or a canary is
\* reported, it counts once: no two updates share a delivery_id or a probe_id.
CountedOnce ==
  /\ \A j, k \in Updates("verify_delivery", Len(audit)) :
       audit[j].of.delivery = audit[k].of.delivery => j = k
  /\ \A j, k \in Updates("protocol_probe", Len(audit)) :
       audit[j].of.probe = audit[k].of.probe => j = k

\* A contract that could count and was decided, but is reported as suppressed, had been
\* counted by an earlier event.
SuppressedWasCounted ==
  \A k \in 1..Len(audit) :
    /\ audit[k].type = "verify_delivery"
    /\ reputation_eligible(audit[k].of.evidence) /\ audit[k].replay_suppressed
    => \E j \in Updates("verify_delivery", k - 1) :
         audit[j].of.delivery = audit[k].of.delivery

\* Missing evidence becomes neither PASS nor FAIL in a table that reputation is read from:
\* a PASS was proven part by part, a FAIL is of a whole contract with a part found broken.
\* So the fallback of probe_observation never decides ("always decidable", app.py).
OutcomesAreShown ==
  /\ \A o \in observations \cup protocol_observations :
       /\ o.outcome = "PASS" => Proven(o.of.evidence)
       /\ o.outcome = "FAIL" => Refuted(o.of.evidence)
  /\ \A o \in observations : reputation_eligible(o.of.evidence)

\* What the first n audit events say of a seller.
CountsAt(n, s, t) ==
  LET ks == {k \in Updates("verify_delivery", n) :
               audit[k].of.service = s /\ audit[k].of.task \in {t, General}}
  IN  [successes |-> Cardinality({k \in ks : audit[k].state = "PASS"}),
       failures  |-> Cardinality({k \in ks : audit[k].state = "FAIL"})]

CanaryAt(n, s) ==
  LET ks == {k \in Updates("protocol_probe", n) : audit[k].of.service = s}
  IN  [successes |-> Cardinality({k \in ks : audit[k].state = "PASS"}),
       failures  |-> Cardinality({k \in ks : audit[k].state = "FAIL"})]

\* Each of the two counts a snapshot reports is what the trail said at some moment of the
\* call, and the canary count is of a moment no earlier than the delivery count's.
SnapshotIsOfTheCall ==
  \A k \in 1..Len(audit) :
    LET e == audit[k]
    IN  e.type = "trust_snapshot" =>
          \E i, j \in e.since..(k - 1) :
            i <= j /\ e.rep = CountsAt(i, e.seller, e.task) /\ e.canary = CanaryAt(j, e.seller)

\* What a seller's deliveries and canaries have to be for a verdict on it.  Of sellers
\* without a failed delivery, 15 passes are the least for BUY and 3 for CAUTION.
Earned(v, d, c) ==
  /\ v = "BUY" => d.successes >= 15 /\ d.successes > 3 * d.failures
  /\ v = "CAUTION" => /\ d.successes >= 3 /\ d.successes > d.failures
                      /\ d.failures > 0 \/ d.successes < 15
  /\ v = "TRY_SMALL" => Size(d) = 0 /\ c.successes > 0 /\ c.successes >= c.failures
  /\ v = "AVOID" => \/ Size(d) > 0 /\ (d.failures > 0 \/ d.successes < 3)
                    \/ Size(d) = 0 /\ c.failures > c.successes
  /\ v = "UNPROVEN" => Size(d) = 0 /\ Size(c) = 0

\* No verdict comes from one lucky pass, from stale counts or from counts of another
\* task: what the trail said of the seller at moments of the call earns it.
VerdictIsEarned ==
  \A k \in 1..Len(audit) :
    LET e == audit[k]
    IN  e.type = "trust_snapshot" =>
          \E i, j \in e.since..(k - 1) :
            i <= j /\ Earned(e.verdict, CountsAt(i, e.seller, e.task), CanaryAt(j, e.seller))

\* A safe recommendation can be justified from the trail alone: at some moment of the
\* call the seller had a counted delivery for the task, or canaries not mostly failed.
SafeRouteIsJustified ==
  \A k \in 1..Len(audit) :
    LET e == audit[k]
    IN  /\ e.type = "best_execution" /\ e.state = "PASS" /\ e.mode = "safe"
        => \E j \in e.since..(k - 1) :
             \/ Size(CountsAt(j, e.recommended, e.task)) > 0
             \/ /\ Size(CanaryAt(j, e.recommended)) > 0
                /\ ~MostlyFailing(CanaryAt(j, e.recommended))

-----------------------------------------------------------------------------
(* What the documents say and the code does not do.                        *)

\* README.md: "Failed-canary majority becomes `REJECTED` and is not routeable in safe
\* mode."  Nobody is recommended who was mostly failing canaries all through the call.
RejectedIsNotRouted ==
  \A k \in 1..Len(audit) :
    LET e == audit[k]
    IN  /\ e.type = "best_execution" /\ e.state = "PASS" /\ e.mode = "safe"
        => \E j \in e.since..(k - 1) : ~MostlyFailing(CanaryAt(j, e.recommended))
=============================================================================
