----------------------------- MODULE Reputation -----------------------------
(***************************************************************************)
(* BayesianReputation and what a trust snapshot reads off it, in integers: *)
(* with s successes in n observations the mean is (2+s)/(4+n), and the     *)
(* score is (1 - confidence) / 2 + confidence * mean, in hundredths.       *)
(* A score is rounded to two decimals before it is compared.               *)
(***************************************************************************)
EXTENDS Integers

Counts == [successes : Nat, failures : Nat]

NoEvidence == [successes |-> 0, failures |-> 0]

Size(rep) == rep.successes + rep.failures

\* n/(n+8), but at most 0.99, as a numerator and a denominator.
confidence(rep) ==
  LET n == Size(rep)
  IN  IF 100 * n < 99 * (n + 8) THEN <<n, n + 8>> ELSE <<99, 100>>

\* Variant: sparse evidence is not shrunk toward neutral.
ScoreAtLeast_Unshrunk(rep, k) ==
  20000 * (2 + rep.successes) >= (200 * k - 1) * (Size(rep) + 4)

\* score_100() >= k
ScoreAtLeast(rep, k) ==
  LET n == Size(rep)
      c == confidence(rep)
  IN  10000 * ((c[2] - c[1]) * (n + 4) + 2 * c[1] * (2 + rep.successes))
        >= (200 * k - 1) * c[2] * (n + 4)

\* confidence >= 1/2
Confident(rep) == 2 * confidence(rep)[1] >= confidence(rep)[2]

MostlyFailing(rep) == rep.failures > rep.successes

Tiers == {"VERIFIED", "PROVISIONAL", "REJECTED", "UNPROVEN"}

Verdicts == {"BUY", "TRY_SMALL", "CAUTION", "UNPROVEN", "AVOID"}

\* The evidence tier a seller's delivery and canary counts give it.
evidence_tier(rep, canary) ==
  CASE Size(rep) > 0 -> "VERIFIED"
    [] Size(rep) = 0 /\ Size(canary) > 0 /\ MostlyFailing(canary) -> "REJECTED"
    [] Size(rep) = 0 /\ Size(canary) > 0 /\ ~MostlyFailing(canary) -> "PROVISIONAL"
    [] Size(rep) = 0 /\ Size(canary) = 0 -> "UNPROVEN"

verdict(rep, canary) ==
  CASE Size(rep) = 0 /\ Size(canary) = 0 -> "UNPROVEN"
    [] Size(rep) = 0 /\ Size(canary) > 0 /\ MostlyFailing(canary) -> "AVOID"
    [] Size(rep) = 0 /\ Size(canary) > 0 /\ ~MostlyFailing(canary) -> "TRY_SMALL"
    [] Size(rep) > 0 /\ ScoreAtLeast(rep, 75) /\ Confident(rep) -> "BUY"
    [] Size(rep) > 0 /\ ScoreAtLeast(rep, 55) /\ ~(ScoreAtLeast(rep, 75) /\ Confident(rep))
         -> "CAUTION"
    [] Size(rep) > 0 /\ ~ScoreAtLeast(rep, 55) -> "AVOID"
=============================================================================
