--------------------------- MODULE MCEvidenceStore ---------------------------
(***************************************************************************)
(* The small instance of EvidenceStore, with the requests of               *)
(* MCEvidenceService.                                                      *)
(***************************************************************************)
EXTENDS EvidenceStore, MCEvidenceService

\* One delivery reported for two sellers.
StoreVerifications == {Verify(d1, alpha, coding, Met), Verify(d1, beta, general, Broken)}
StoreCanaries == {Canary(p1, alpha, Failed), Canary(p2, beta, Met)}
StoreQueries == {Snapshot(beta, coding), Route(coding, "safe", <<alpha, beta>>, {alpha, beta})}
=============================================================================
