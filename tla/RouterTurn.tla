----------------------------- MODULE RouterTurn -----------------------------
(***************************************************************************)
(* What happens inside a Router turn: the phases of the two role drivers   *)
(* of router-driver.ts, the grants processRequest mints for an attempt,    *)
(* the Probe turn nested in the Router's, the canary in the Room and the   *)
(* poll for its reply, and the calls of the private backend.               *)
(*                                                                         *)
(* Turns of overlapping processes run side by side, on one grant table,    *)
(* one Room and one backend.  A process may die, and the Router's timer    *)
(* may end the turn, between any two steps.  The UUIDs of an attempt - its *)
(* grant ids, its probe_id, its nonce - are the turn itself.               *)
(*                                                                         *)
(* An authorization (load, getUsage, tryConsume, one after the other) is   *)
(* one step.  load refuses after an abort; the three are synchronous       *)
(* SQLite calls, so no timer goes off between them, and between processes  *)
(* the conditional UPDATE of tryConsume decides.  The audit record that    *)
(* follows is awaited on the network: what was authorized is a later step. *)
(***************************************************************************)
EXTENDS Naturals, Sequences, FiniteSets

Services == {"trust_snapshot", "verify_delivery", "best_execution"}

\* The grants with maxUses 1.
OneUse == {"router-exec", "router-probe", "probe-exec", "probe-target"}

\* The grants without a bound, which stay for later turns: one per service tool, and
\* the escalation grant.
Lasting == Services \cup {"escalation"}

CONSTANTS
  Turns,        \* attempts to serve a paid request
  Seats,        \* SharedNet seats of the Room
  OwnSeat,      \* Counterparty's own seat
  Orders,       \* what turns are for, and the grants each is given
  NoOrder,      \* the order of a turn that has not begun
  NoReply,      \* no seller reply captured
  NoResult,     \* the turn has not ended
  OtherNonce,   \* a counterparty_probe_id that is no turn's nonce
  MaxLive,      \* bound: turns going on at a time
  MaxReplies    \* bound: Room messages of sellers that look like a canary's reply

ASSUME TurnAssumption ==
  /\ OwnSeat \in Seats
  /\ Orders \subseteq [service : Services, target : Seats, grants : SUBSET (OneUse \cup Lasting)]
  /\ NoOrder \notin Orders /\ OtherNonce \notin Turns
  /\ MaxLive \in Nat /\ MaxReplies \in Nat

VARIABLES
  \* ArenaStore
  granted,   \* table grants: the one-use grants
  used,      \* table grant_usage
  lasting,   \* table grants: the unbounded ones
  \* the Room
  asked,     \* turns whose canary was handed to `sharednet say`
  replies,   \* what sellers posted, in order: [from, nonce, says]
  \* the backend
  posts,     \* POST /v1/probe-observation requests on their way
  canaries,  \* table protocol_observations
  \* one turn each
  order,     \* the Router's message and the grants minted for it
  phase,     \* where the Router driver stands
  probe,     \* where the nested Probe turn stands
  after,     \* sendCanary's read position
  reply,     \* what sendCanary returned
  fresh,     \* state of fresh_probe
  result     \* what the turn ended with

store   == <<granted, used, lasting>>
room    == <<asked, replies>>
backend == <<posts, canaries>>
turn    == <<order, phase, probe, after, reply, fresh, result>>
vars    == <<store, room, backend, turn>>
-----------------------------------------------------------------------------
Grant == [kind : OneUse, attempt : Turns]

\* What a reply says: ack true; ack true beside text that the manipulation or the
\* consistency probe flags; something else.
Sayings == {"ack", "flagged_ack", "other"}

Reply == [from : Seats, nonce : Turns \cup {OtherNonce}, says : Sayings]

Observation == [probe : Turns, provider : Seats, output : Reply]

FreshStates == {"none", "INCONCLUSIVE", "PASS", "FAIL"}

\* seen: the canaries a trust snapshot's counts were read from.
Result == [status : {"succeeded", "escalated", "denied", "timed_out"}, fresh : FreshStates,
           seen : SUBSET Observation]

Waiting == {"await_probe", "await_record", "await_service"}
Live(k) == phase[k] \in {"minted", "start"} \cup Waiting

\* The Probe's nested turn; "adrift": it is over, but the ticket for its canary was taken
\* and `say` is not spawned yet.
ProbePlaces == {"off", "open", "ticketed", "polling", "observed", "failed", "ended", "adrift"}

HoldsTicket(k) == probe[k] \in {"ticketed", "adrift"}

target(k) == order[k].target

\* Variant: it is looked for an acknowledgement, not for what it acknowledges.
Acknowledges_Any(m, k) == m.says # "other"

\* The reply sendCanary accepts: JSON with the nonce and ack true.
Acknowledges(m, k) == m.nonce = k /\ m.says # "other"

\* The verdict of probe_observation on a reply.
verdict(c) ==
  IF Acknowledges(c.output, c.probe) /\ c.output.says # "flagged_ack" THEN "PASS" ELSE "FAIL"
-----------------------------------------------------------------------------
(* Grants.                                                                 *)

\* Variant: a message ticket for the Probe is good for any seat.
Covers_AnySeat(g, kind, seat) == g.kind = kind

\* The capability of a grant: for the Probe's message ticket, one exact seat.
Covers(g, kind, seat) ==
  g.kind = kind /\ (kind = "probe-target" => target(g.attempt) = seat)

\* Variant: the count is compared after one use too many.
Usable_Twice(kind, seat) == {g \in granted : Covers(g, kind, seat) /\ used[g] <= 1}

\* The unspent ones, which WHERE used < maxUses lets through.
Usable(kind, seat) == {g \in granted : Covers(g, kind, seat) /\ used[g] < 1}

\* The authorizer picks a grant that covers the call, of this attempt or of an earlier
\* one, and tryConsume counts the use.
tryConsume(kind, seat) ==
  \E g \in Usable(kind, seat) : used' = [used EXCEPT ![g] = @ + 1]
-----------------------------------------------------------------------------
Init ==
  /\ granted = {} /\ used = [g \in Grant |-> 0] /\ lasting = {}
  /\ asked = {} /\ replies = <<>>
  /\ posts = {} /\ canaries = {}
  /\ order = [k \in Turns |-> NoOrder]
  /\ phase = [k \in Turns |-> "none"]
  /\ probe = [k \in Turns |-> "off"]
  /\ after = [k \in Turns |-> 0]
  /\ reply = [k \in Turns |-> NoReply]
  /\ fresh = [k \in Turns |-> "none"]
  /\ result = [k \in Turns |-> NoResult]

\* Variant: the ticket for a seller is stored under an id made from the seat alone.
MintedFor_Seat(k, o) ==
  LET first == CHOOSE j \in Turns : order'[j] # NoOrder /\ order'[j].target = o.target
  IN  {[kind |-> t, attempt |-> IF t = "probe-target" THEN first ELSE k]
        : t \in OneUse \cap o.grants}

\* The one-use grants of an attempt, under ids of its own.
MintedFor(k, o) == {[kind |-> t, attempt |-> k] : t \in OneUse \cap o.grants}

\* A request has been claimed: its grants are stored and the turn is set up.  The poll
\* will read from the last Room message of the batch on.
Mint(k, o) ==
  /\ phase[k] = "none" /\ Cardinality({j \in Turns : Live(j)}) < MaxLive
  /\ order' = [order EXCEPT ![k] = o]
  /\ granted' = granted \cup MintedFor(k, o)
  /\ lasting' = lasting \cup (Lasting \cap o.grants)
  /\ \E n \in 0..Len(replies) : after' = [after EXCEPT ![k] = n]
  /\ phase' = [phase EXCEPT ![k] = "minted"]
  /\ UNCHANGED <<used, room, backend, probe, reply, fresh, result>>

\* The executor admits the Router for one use of an execution grant.
Admit(k) ==
  /\ phase[k] = "minted"
  /\ tryConsume("router-exec", target(k))
  /\ phase' = [phase EXCEPT ![k] = "start"]
  /\ UNCHANGED <<granted, lasting, room, backend, order, probe, after, reply, fresh, result>>

\* The Probe's turn of k is over, on a result or on its signal.  The signal kills a
\* SharedNet command that runs, but nobody looks at it before one is spawned.
LeaveProbe(k) ==
  probe' = [probe EXCEPT ![k] = IF HoldsTicket(k) THEN "adrift" ELSE "ended"]

\* The turn of k is over, and with it a Probe turn that still runs.
End(k, status, state, seen) ==
  /\ phase' = [phase EXCEPT ![k] = "ended"]
  /\ LeaveProbe(k)
  /\ result' = [result EXCEPT ![k] = [status |-> status, fresh |-> state, seen |-> seen]]
  /\ UNCHANGED <<store, room, backend, order, after, reply, fresh>>

NotAdmitted(k) ==
  /\ phase[k] = "minted" /\ Usable("router-exec", target(k)) = {}
  /\ End(k, "denied", "none", {})
-----------------------------------------------------------------------------
(* CounterpartyRouterDriver.                                               *)

\* The tool of the service is not there: ask for it, or complete INCONCLUSIVE.
Unavailable(k) ==
  /\ phase[k] = "start" /\ order[k].service \notin lasting
  /\ End(k, IF "escalation" \in lasting THEN "escalated" ELSE "succeeded", "none", {})

\* Both messages.request, to the Probe, and record_probe are there.  record_probe is
\* invoked under the trust_snapshot grant.
canActivelyProbe(k) ==
  order[k].service = "trust_snapshot" /\ Usable("router-probe", target(k)) # {}

AskProbe(k) ==
  /\ phase[k] = "start" /\ order[k].service \in lasting /\ canActivelyProbe(k)
  /\ tryConsume("router-probe", target(k))
  /\ phase' = [phase EXCEPT ![k] = "await_probe"]
  /\ UNCHANGED <<granted, lasting, room, backend, order, probe, after, reply, fresh, result>>

\* serviceCall(), with what is known of the canary.
CallService(k, state) ==
  /\ fresh' = [fresh EXCEPT ![k] = state]
  /\ phase' = [phase EXCEPT ![k] = "await_service"]

NoActiveProbe(k) ==
  /\ phase[k] = "start" /\ order[k].service \in lasting /\ ~canActivelyProbe(k)
  /\ CallService(k, IF order[k].service = "trust_snapshot" THEN "INCONCLUSIVE" ELSE "none")
  /\ UNCHANGED <<store, room, backend, order, probe, after, reply, result>>

\* The Probe's message comes back with an observation of this very canary: it is sent to
\* the backend.
Record(k) ==
  /\ phase[k] = "await_probe" /\ probe[k] = "observed"
  /\ posts' = posts \cup {[probe |-> k, provider |-> target(k), output |-> reply[k]]}
  /\ phase' = [phase EXCEPT ![k] = "await_record"]
  /\ probe' = [probe EXCEPT ![k] = "ended"]
  /\ UNCHANGED <<store, room, canaries, order, after, reply, fresh, result>>

\* The Probe was refused, timed out, got no reply in time, or could not reach the Room.
ProbeInconclusive(k) ==
  /\ phase[k] = "await_probe"
  /\ LeaveProbe(k)
  /\ CallService(k, "INCONCLUSIVE")
  /\ UNCHANGED <<store, room, backend, order, after, reply, result>>

\* The backend's answer to record_probe.
Recorded(k) ==
  /\ phase[k] = "await_record"
  /\ \E c \in canaries : c.probe = k /\ CallService(k, verdict(c))
  /\ UNCHANGED <<store, room, backend, order, probe, after, reply, result>>

\* Variant: the status of the call is not looked at.
RecordFails_Taken(k) ==
  /\ phase[k] = "await_record"
  /\ CallService(k, "PASS")
  /\ UNCHANGED <<store, room, backend, order, probe, after, reply, result>>

\* No answer, or an error: the request may have arrived all the same, or arrive later.
RecordFails(k) ==
  /\ phase[k] = "await_record"
  /\ CallService(k, "INCONCLUSIVE")
  /\ UNCHANGED <<store, room, backend, order, probe, after, reply, result>>

\* The service tool answers; a snapshot counts the canaries recorded so far.
ServiceAnswers(k) ==
  /\ phase[k] = "await_service"
  /\ End(k, "succeeded", fresh[k], IF order[k].service = "trust_snapshot"
                                   THEN {c \in canaries : c.provider = target(k)} ELSE {})

\* The service tool fails: the turn completes INCONCLUSIVE, without a fresh_probe.
ServiceFails(k) ==
  /\ phase[k] = "await_service"
  /\ End(k, "succeeded", "none", {})
-----------------------------------------------------------------------------
(* CounterpartyProbeDriver and sendCanary.  The guards are those of the    *)
(* Probe's own turn, which only its signal ties to the Router's.           *)

ProbeAdmitted(k) ==
  /\ phase[k] = "await_probe" /\ probe[k] = "off"
  /\ tryConsume("probe-exec", target(k))
  /\ probe' = [probe EXCEPT ![k] = "open"]
  /\ UNCHANGED <<granted, lasting, room, backend, order, phase, after, reply, fresh, result>>

\* messages.request to the seller is authorized: one ticket for its exact seat.  load
\* refuses once the signal has fired.
TakeTicket(k) ==
  /\ probe[k] = "open"
  /\ tryConsume("probe-target", target(k))
  /\ probe' = [probe EXCEPT ![k] = "ticketed"]
  /\ UNCHANGED <<granted, lasting, room, backend, order, phase, after, reply, fresh, result>>

\* The canary is handed to `say`, and is in the Room, where everybody reads the nonce.  A
\* signal that has fired in the meantime is seen only when `say` closes, and then nobody
\* polls.  Counterparty does not ask itself.
SayCanary(k) ==
  /\ HoldsTicket(k)
  /\ asked' = IF target(k) = OwnSeat THEN asked ELSE asked \cup {k}
  /\ probe' = [probe EXCEPT ![k] = IF @ = "adrift" THEN "ended"
                                    ELSE IF target(k) = OwnSeat THEN "failed" ELSE "polling"]
  /\ UNCHANGED <<store, replies, backend, order, phase, after, reply, fresh, result>>

\* read --after --from-instance: the target's own messages past the position.
Page(k) == {i \in (after[k] + 1)..Len(replies) : replies[i].from = target(k)}

Matches(k) == {i \in Page(k) : Acknowledges(replies[i], k)}

\* The first match is taken.
ReadReply(k) ==
  /\ probe[k] = "polling"
  /\ \E i \in Matches(k) :
       /\ \A j \in Matches(k) : i <= j
       /\ reply' = [reply EXCEPT ![k] = replies[i]]
       /\ after' = [after EXCEPT ![k] = i]
  /\ probe' = [probe EXCEPT ![k] = "observed"]
  /\ UNCHANGED <<store, room, backend, order, phase, fresh, result>>

\* Nothing else in the page counts: the poll goes on behind its last message.
SkipPage(k) ==
  /\ probe[k] = "polling" /\ Matches(k) = {}
  /\ \E i \in Page(k) :
       /\ \A j \in Page(k) : j <= i
       /\ after' = [after EXCEPT ![k] = i]
  /\ UNCHANGED <<store, room, backend, order, phase, probe, reply, fresh, result>>
-----------------------------------------------------------------------------
(* Timers, crashes, and the outside.                                       *)

\* Variants: the Probe turn does not get the Router's signal; the call of the service
\* tool does not.
TimesOut_ProbeGoesOn(k) ==
  /\ phase[k] \in {"start"} \cup Waiting
  /\ phase' = [phase EXCEPT ![k] = "ended"]
  /\ result' = [result EXCEPT ![k] = [status |-> "timed_out", fresh |-> "none", seen |-> {}]]
  /\ UNCHANGED <<store, room, backend, order, probe, after, reply, fresh>>
TimesOut_NotInService(k) ==
  /\ phase[k] \in {"start", "await_probe", "await_record"}
  /\ End(k, "timed_out", "none", {})

\* The Router's timer ends the turn, whatever it waits for.
TimesOut(k) ==
  /\ phase[k] \in {"start"} \cup Waiting
  /\ End(k, "timed_out", "none", {})

\* The process dies; what it asked of others is on its way.
Die(k) ==
  /\ Live(k)
  /\ phase' = [phase EXCEPT ![k] = "died"]
  /\ probe' = [probe EXCEPT ![k] = "ended"]
  /\ UNCHANGED <<store, room, backend, order, after, reply, fresh, result>>

\* Any other seat answers any canary it has read, rightly or wrongly, late or twice.
Answer ==
  /\ Len(replies) < MaxReplies
  /\ \E m \in Reply :
       /\ m.from # OwnSeat /\ m.nonce \in asked \cup {OtherNonce}
       /\ replies' = Append(replies, m)
  /\ UNCHANGED <<store, asked, backend, turn>>

\* probe_observation commits a canary, once per probe_id.
Store(c) ==
  /\ posts' = posts \ {c}
  /\ canaries' = IF \E d \in canaries : d.probe = c.probe THEN canaries ELSE canaries \cup {c}
  /\ UNCHANGED <<store, room, turn>>

Lose(c) ==
  /\ posts' = posts \ {c}
  /\ UNCHANGED <<store, room, canaries, turn>>

RouterStep(k) ==
  \/ Admit(k) \/ NotAdmitted(k) \/ Unavailable(k) \/ AskProbe(k) \/ NoActiveProbe(k)
  \/ Record(k) \/ ProbeInconclusive(k) \/ Recorded(k) \/ RecordFails(k)
  \/ ServiceAnswers(k) \/ ServiceFails(k)

ProbeStep(k) ==
  ProbeAdmitted(k) \/ TakeTicket(k) \/ SayCanary(k) \/ ReadReply(k) \/ SkipPage(k)

Next ==
  \/ \E k \in Turns, o \in Orders : Mint(k, o)
  \/ \E k \in Turns : RouterStep(k) \/ ProbeStep(k) \/ TimesOut(k) \/ Die(k)
  \/ \E c \in posts : Store(c) \/ Lose(c)
  \/ Answer

\* The process takes its next step and its timer goes off.  Sellers and the backend may
\* be silent for good.
Fairness == \A k \in Turns : WF_vars(Admit(k) \/ NotAdmitted(k)) /\ WF_vars(TimesOut(k))

Spec == Init /\ [][Next]_vars /\ Fairness
-----------------------------------------------------------------------------
(* Properties.                                                             *)

\* Types, and where the Probe's turn can stand while the Router's does.
TypeOK ==
  /\ granted \subseteq Grant /\ used \in [Grant -> 0..1] /\ lasting \subseteq Lasting
  /\ asked \subseteq Turns /\ replies \in Seq(Reply)
  /\ posts \subseteq Observation /\ canaries \subseteq Observation
  /\ order \in [Turns -> Orders \cup {NoOrder}]
  /\ phase \in [Turns -> {"none", "minted", "start", "ended", "died"} \cup Waiting]
  /\ probe \in [Turns -> ProbePlaces]
  /\ after \in [Turns -> 0..Len(replies)]
  /\ reply \in [Turns -> Reply \cup {NoReply}]
  /\ fresh \in [Turns -> FreshStates]
  /\ result \in [Turns -> Result \cup {NoResult}]

\* A canary in the evidence was said to the Room for that seller, and that very seat
\* acknowledged that very nonce: no late reply to another turn's canary, no message of
\* another seat is ever recorded (sendCanary, record_probe).
RecordedIsObserved ==
  \A c \in canaries :
    /\ c.probe \in asked /\ c.provider = target(c.probe)
    /\ c.output.from = c.provider /\ c.output.nonce = c.probe /\ c.output.says # "other"
    /\ \E i \in 1..Len(replies) : replies[i] = c.output

\* Every canary said to a seat has used up a ticket of its own for that exact seat,
\* whichever attempt's ticket was taken (probeMessageGrant, tryConsume).
ContactsAreTicketed ==
  \E f \in [asked -> granted] :
    /\ \A k \in asked :
         /\ f[k].kind = "probe-target" /\ target(f[k].attempt) = target(k)
         /\ used[f[k]] > 0
    /\ \A j, k \in asked : f[j] = f[k] => j = k

\* The grant a turn needs next.
Needs(k, kind) ==
  \/ phase[k] = "minted" /\ kind = "router-exec"
  \/ phase[k] = "start" /\ order[k].service = "trust_snapshot" /\ kind = "router-probe"
  \/ phase[k] = "await_probe" /\ probe[k] = "off" /\ kind = "probe-exec"
  \/ probe[k] = "open" /\ kind = "probe-target"

\* Concurrent and repeated attempts, which spend each other's grants, never leave one of
\* them without: request-scoped ids never share a maxUses counter (grants.ts:117).
\* It is checked of orders that give a turn all it needs, as processRequest does.
NobodyIsShort ==
  \A k \in Turns, kind \in OneUse : Needs(k, kind) => Usable(kind, target(k)) # {}

\* A snapshot that reports a fresh canary counts it: it is this turn's, about this
\* seller, and was committed before the counts were read.
FreshIsCounted ==
  \A k \in Turns :
    result[k] # NoResult /\ result[k].status = "succeeded" /\ result[k].fresh \in {"PASS", "FAIL"}
      => \E c \in result[k].seen :
           c.probe = k /\ c.provider = target(k) /\ verdict(c) = result[k].fresh

\* A turn that has ended begins nothing: it takes no ticket any more, nothing of it is sent
\* to the backend, and its result stands.  All that may still reach a seller is the one
\* canary whose ticket it took before it ended; its answer is never recorded.
EndedTurnsStartNothing ==
  [][\A k \in Turns : ~Live(k) /\ order[k] # NoOrder =>
       /\ HoldsTicket(k)' => HoldsTicket(k)
       /\ k \in asked' => k \in asked \/ HoldsTicket(k)
       /\ \A c \in posts' : c.probe = k => c \in posts
       /\ result'[k] = result[k]]_vars

\* Every turn comes to an end, whoever keeps silent.
TurnsEnd == \A k \in Turns : Live(k) ~> ~Live(k)

\* "Wrong canary nonce/schema -> deterministic FAIL" (docs/ARENA_RUNBOOK.md:137): a snapshot
\* whose poll met a wrong answer of the seller to its canary, and no right one, says FAIL.
WrongAnswerFails ==
  \A k \in Turns :
    LET answers == {i \in 1..after[k] : replies[i].from = target(k) /\ replies[i].nonce = k}
    IN  /\ result[k] # NoResult /\ result[k].status = "succeeded"
        /\ result[k].fresh # "none" /\ answers # {} /\ \A i \in answers : replies[i].says = "other"
        => result[k].fresh = "FAIL"
=============================================================================
