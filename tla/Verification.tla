---------------------------- MODULE Verification ----------------------------
(***************************************************************************)
(* The deterministic probes of verification.py and how their states become *)
(* one verdict.  What a probe finds in an output is data here: `schema`    *)
(* says what became of the expected schema, `assertions` of the task's     *)
(* assertions; `marked` and `contradictory` are what the two text probes   *)
(* look for; `cited` says that URLs were cited.                            *)
(***************************************************************************)
EvidenceState == {"PASS", "FAIL", "INCONCLUSIVE"}

\* A check the host attached: is it the one named "citations", and what it found.
Check == [citations : BOOLEAN, state : EvidenceState]

Evidence == [schema : {"absent", "empty", "invalid", "satisfied", "violated"},
             assertions : {"none", "hold", "fail"},
             marked : BOOLEAN, contradictory : BOOLEAN, cited : BOOLEAN,
             checks : SUBSET Check]

schema_probe(e) ==
  CASE e.schema = "satisfied" -> "PASS"
    [] e.schema = "violated"  -> "FAIL"
    [] e.schema \in {"absent", "empty", "invalid"} -> "INCONCLUSIVE"

assertions_probe(e) ==
  CASE e.assertions = "hold" -> "PASS"
    [] e.assertions = "fail" -> "FAIL"
    [] e.assertions = "none" -> "INCONCLUSIVE"

injection_probe(e) == IF e.marked THEN "FAIL" ELSE "PASS"

\* A reason that is a list or an object, beside extreme negative certainty, makes the code
\* raise instead: that call ends in a 500 and has changed nothing, a stutter here.
contradiction_probe(e) == IF e.contradictory THEN "FAIL" ELSE "PASS"

\* Variant: cited URLs count as no obstacle.
citations_probe_Trusting(e) == {}

\* URLs alone are no evidence; the host's own citation check replaces this probe.
citations_probe(e) ==
  IF e.cited /\ \A c \in e.checks : ~c.citations THEN {"INCONCLUSIVE"} ELSE {}

\* The states of the probes verify_delivery runs.
ProbeStates(e) ==
  {schema_probe(e), assertions_probe(e), injection_probe(e), contradiction_probe(e)}
    \cup {c.state : c \in e.checks} \cup citations_probe(e)

aggregate(states) ==
  CASE "FAIL" \in states -> "FAIL"
    [] "FAIL" \notin states /\ "INCONCLUSIVE" \in states -> "INCONCLUSIVE"
    [] states \cap {"FAIL", "INCONCLUSIVE"} = {} -> "PASS"

outcome(e) == aggregate(ProbeStates(e))

\* Whether the verdict may count for the provider's reputation.
reputation_eligible(e) == e.schema # "absent" /\ e.assertions # "none"

\* What a PASS must rest on: every part of the contract there and met.
Proven(e) ==
  /\ e.schema = "satisfied" /\ e.assertions = "hold"
  /\ ~e.marked /\ ~e.contradictory
  /\ \A c \in e.checks : c.state = "PASS"
  /\ e.cited => \E c \in e.checks : c.citations

\* What a FAIL must rest on: some part of it found broken.
Refuted(e) ==
  \/ e.schema = "violated" \/ e.assertions = "fail" \/ e.marked \/ e.contradictory
  \/ \E c \in e.checks : c.state = "FAIL"
=============================================================================
