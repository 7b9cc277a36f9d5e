-------------------------- MODULE MCEvidenceService --------------------------
(***************************************************************************)
(* Small instances of EvidenceService: two sellers, the deliveries         *)
(* d1 to d3 and the canaries p1 to p3.                                     *)
(***************************************************************************)
EXTENDS EvidenceService

CONSTANTS alpha, beta, general, coding, d1, d2, d3, p1, p2, p3, h1, h2

Met == [schema |-> "satisfied", assertions |-> "hold", marked |-> FALSE,
        contradictory |-> FALSE, cited |-> FALSE, checks |-> {}]
Broken     == [Met EXCEPT !.assertions = "fail"]
NoContract == [Met EXCEPT !.schema = "absent", !.assertions = "none", !.marked = TRUE]
Unchecked  == [Met EXCEPT !.cited = TRUE]
Failed     == [Met EXCEPT !.schema = "violated", !.assertions = "fail"]

Verify(d, seller, task, e) == [delivery |-> d, service |-> seller, task |-> task, evidence |-> e]
Canary(p, seller, e) == [probe |-> p, service |-> seller, evidence |-> e]
Snapshot(seller, task) ==
  [kind |-> "trust_snapshot", task |-> task, mode |-> "safe", sellers |-> <<seller>>,
   affordable |-> {}]
Route(task, mode, sellers, affordable) ==
  [kind |-> "best_execution", task |-> task, mode |-> mode, sellers |-> sellers,
   affordable |-> affordable]

\* Replays and reruns: one delivery with good, bad and unfinished evidence, one without a
\* contract, one of another seller under the same delivery_id.
ReplayVerifications ==
  {Verify(d1, alpha, coding, Met), Verify(d1, alpha, coding, Broken),
   Verify(d1, alpha, coding, Unchecked), Verify(d2, alpha, general, NoContract), Verify(d2, alpha, general, Broken),
   Verify(d2, alpha, general, Met),    Verify(d1, beta, coding, Met), Verify(d3, alpha, coding, Met)}
ReplayCanaries == {Canary(p1, alpha, Met), Canary(p1, alpha, Failed), Canary(p2, beta, Failed)}
ReplayQueries ==
  {Snapshot(alpha, coding), Route(general, "explore", <<beta, alpha>>, {beta})}

\* Reads that race with writes.
RaceVerifications == {Verify(d1, alpha, coding, Met), Verify(d2, beta, general, Broken)}
RaceCanaries == {Canary(p1, alpha, Failed), Canary(p2, beta, Met), Canary(p3, beta, Failed)}
RaceQueries ==
  {Snapshot(beta, coding), Route(coding, "safe", <<alpha, beta>>, {alpha, beta}),
   Route(general, "explore", <<beta, alpha>>, {beta})}
=============================================================================
