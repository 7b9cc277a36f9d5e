---------------------------- MODULE VerdictProofs ----------------------------
(***************************************************************************)
(* What it takes to be told BUY, CAUTION or AVOID: the thresholds of a     *)
(* trust snapshot as numbers of deliveries, and that the trail had them.   *)
(***************************************************************************)
EXTENDS EvidenceStoreProofs

------------------------------------------------------------------------------
(* The thresholds.                                                         *)

\* Of up to 791 deliveries, the confidence is n/(n+8).
LEMMA ScoreOfFew ==
  ASSUME NEW rp \in Counts, NEW n \in Nat, n = Size(rp), n < 792, NEW k \in {55, 75}
  PROVE  ScoreAtLeast(rp, k) <=>
           20000 * (4 * (n + 4) + n * (2 + rp.successes)) >= (200 * k - 1) * ((n + 8) * (n + 4))
  <1>1. confidence(rp) = <<n, n + 8>> /\ rp.successes \in Nat
    BY DEF confidence, Counts
  <1>2. (200 * k - 1) * (n + 8) * (n + 4) = (200 * k - 1) * ((n + 8) * (n + 4))
    BY Z3
  <1>3. 10000 * ((n + 8 - n) * (n + 4) + 2 * n * (2 + rp.successes))
          = 20000 * (4 * (n + 4) + n * (2 + rp.successes))
    BY <1>1, Z3
  <1> QED
    BY <1>1, <1>2, <1>3 DEF ScoreAtLeast

\* Of more, it is 99/100.
LEMMA ScoreOfMany ==
  ASSUME NEW rp \in Counts, NEW n \in Nat, n = Size(rp), n >= 792, NEW k \in {55, 75}
  PROVE  ScoreAtLeast(rp, k) <=>
           10000 * (n + 4 + 198 * (2 + rp.successes)) >= 100 * (200 * k - 1) * (n + 4)
  <1>1. confidence(rp) = <<99, 100>> /\ rp.successes \in Nat
    BY DEF confidence, Counts
  <1> QED
    BY <1>1 DEF ScoreAtLeast

\* The few, multiplied out.
LEMMA FewForBuy ==
  ASSUME NEW rp \in Counts, NEW n \in Nat, n = Size(rp), n < 792
  PROVE  ScoreAtLeast(rp, 75) <=>
           20000 * (n * rp.successes) >= 14999 * (n * n) + 59988 * n + 159968
  <1>1. rp.successes \in Nat
    BY DEF Counts
  <1>2. n * (2 + rp.successes) = 2 * n + n * rp.successes
    BY <1>1, Z3
  <1>3. (n + 8) * (n + 4) = n * n + 12 * n + 32
    BY Z3
  <1>4. n * rp.successes \in Int /\ n * n \in Int
    BY <1>1
  <1>5. ScoreAtLeast(rp, 75) <=>
          20000 * (4 * (n + 4) + n * (2 + rp.successes)) >= 14999 * ((n + 8) * (n + 4))
    BY ScoreOfFew
  <1> DEFINE p == n * rp.successes
             q == n * n
  <1>6. ScoreAtLeast(rp, 75) <=>
          20000 * (4 * (n + 4) + (2 * n + p)) >= 14999 * (q + 12 * n + 32)
    BY <1>2, <1>3, <1>5
  <1> SUFFICES 20000 * (4 * (n + 4) + (2 * n + p)) >= 14999 * (q + 12 * n + 32)
               <=> 20000 * p >= 14999 * q + 59988 * n + 159968
    BY <1>6
  <1>7. p \in Int /\ q \in Int
    BY <1>4
  <1> HIDE DEF p, q
  <1> QED
    BY <1>7

LEMMA FewForCaution ==
  ASSUME NEW rp \in Counts, NEW n \in Nat, n = Size(rp), n < 792
  PROVE  ScoreAtLeast(rp, 55) <=>
           20000 * (n * rp.successes) >= 10999 * (n * n) + 11988 * n + 31968
  <1>1. rp.successes \in Nat
    BY DEF Counts
  <1>2. n * (2 + rp.successes) = 2 * n + n * rp.successes
    BY <1>1, Z3
  <1>3. (n + 8) * (n + 4) = n * n + 12 * n + 32
    BY Z3
  <1>4. n * rp.successes \in Int /\ n * n \in Int
    BY <1>1
  <1>5. ScoreAtLeast(rp, 55) <=>
          20000 * (4 * (n + 4) + n * (2 + rp.successes)) >= 10999 * ((n + 8) * (n + 4))
    BY ScoreOfFew
  <1> DEFINE p == n * rp.successes
             q == n * n
  <1>6. ScoreAtLeast(rp, 55) <=>
          20000 * (4 * (n + 4) + (2 * n + p)) >= 10999 * (q + 12 * n + 32)
    BY <1>2, <1>3, <1>5
  <1>7. p \in Int /\ q \in Int
    BY <1>4
  <1> SUFFICES 20000 * (4 * (n + 4) + (2 * n + p)) >= 10999 * (q + 12 * n + 32)
               <=> 20000 * p >= 10999 * q + 11988 * n + 31968
    BY <1>6
  <1> HIDE DEF p, q
  <1> QED
    BY <1>7

\* 75 takes 15 passes and three times as many passes as failures; the confidence that is
\* asked for beside it comes with them.
LEMMA BuyTakes ==
  ASSUME NEW rp \in Counts, ScoreAtLeast(rp, 75)
  PROVE  rp.successes >= 15 /\ rp.successes > 3 * rp.failures /\ Confident(rp)
  <1> DEFINE s == rp.successes
             f == rp.failures
             n == Size(rp)
             sn == n * s
             nn == n * n
  <1>1. s \in Nat /\ f \in Nat /\ n \in Nat /\ n = s + f
    BY DEF Counts, Size
  <1>2. CASE n < 792
    <2>1. 20000 * sn >= 14999 * nn + 59988 * n + 159968
      BY <1>1, <1>2, FewForBuy
    <2>2. sn \in Int /\ nn \in Int
      BY <1>1
    <2>3. nn >= 28 * n - 196 /\ nn <= 791 * n /\ sn <= nn /\ (n <= 13 => nn <= 13 * n)
      <3>1. (n - 14) * (n - 14) >= 0 /\ (n - 14) * (n - 14) = n * n - 28 * n + 196
        BY <1>1, Z3
      <3>2. n * (791 - n) >= 0 /\ n * (791 - n) = 791 * n - n * n
        BY <1>1, <1>2, Z3
      <3>3. n * f >= 0 /\ n * s + n * f = n * n
        BY <1>1, Z3
      <3>4. n <= 13 => n * (13 - n) >= 0 /\ n * (13 - n) = 13 * n - n * n
        BY <1>1, Z3
      <3>5. n * f \in Int
        BY <1>1
      <3> QED
        BY <1>1, <2>2, <3>1, <3>2, <3>3, <3>4, <3>5
    <2>4. s <= 14 => sn <= 14 * n
      <3>1. ASSUME s <= 14 PROVE n * (14 - s) >= 0 /\ n * (14 - s) = 14 * n - n * s
        BY <1>1, <3>1, Z3
      <3> QED
        BY <1>1, <2>2, <3>1
    <2>5. s <= 3 * f => 4 * sn <= 3 * nn
      <3>1. ASSUME s <= 3 * f
            PROVE  n * (3 * n - 4 * s) >= 0 /\ n * (3 * n - 4 * s) = 3 * (n * n) - 4 * (n * s)
        BY <1>1, <3>1, Z3
      <3> QED
        BY <1>1, <2>2, <3>1
    <2>6. s >= 15 /\ s > 3 * f
      <3> HIDE DEF sn, nn, s, f, n
      <3>1. s >= 15
        BY <1>1, <2>1, <2>2, <2>3, <2>4
      <3>2. s > 3 * f
        BY <1>1, <2>1, <2>2, <2>3, <2>5
      <3> QED
        BY <3>1, <3>2
    <2>7. confidence(rp) = <<n, n + 8>>
      BY <1>1, <1>2 DEF confidence
    <2> QED
      BY <1>1, <2>6, <2>7 DEF Confident
  <1>3. CASE n >= 792
    <2>1. 10000 * (n + 4 + 198 * (2 + s)) >= 100 * (200 * 75 - 1) * (n + 4)
      BY <1>1, <1>3, ScoreOfMany
    <2>2. s >= 15 /\ s > 3 * f
      <3> HIDE DEF s, f, n
      <3> QED
        BY <1>1, <1>3, <2>1
    <2>3. confidence(rp) = <<99, 100>>
      BY <1>1, <1>3 DEF confidence
    <2> QED
      BY <2>2, <2>3 DEF Confident
  <1> QED
    BY <1>1, <1>2, <1>3

\* 55 takes three passes, and more passes than failures.
LEMMA CautionTakes ==
  ASSUME NEW rp \in Counts, ScoreAtLeast(rp, 55), Size(rp) > 0
  PROVE  rp.successes >= 3 /\ rp.successes > rp.failures
  <1> DEFINE s == rp.successes
             f == rp.failures
             n == Size(rp)
             sn == n * s
             nn == n * n
  <1>1. s \in Nat /\ f \in Nat /\ n \in Nat /\ n = s + f /\ n > 0
    BY DEF Counts, Size
  <1>2. CASE n < 792
    <2>1. 20000 * sn >= 10999 * nn + 11988 * n + 31968
      BY <1>1, <1>2, FewForCaution
    <2>2. sn \in Int /\ nn \in Int
      BY <1>1
    <2>3. nn >= 4 * n - 4 /\ nn >= 0 /\ nn >= 2 * n - 1
      <3>1. (n - 2) * (n - 2) >= 0 /\ (n - 2) * (n - 2) = n * n - 4 * n + 4
        BY <1>1, Z3
      <3>2. (n - 1) * (n - 1) >= 0 /\ (n - 1) * (n - 1) = n * n - 2 * n + 1
        BY <1>1, Z3
      <3>3. n * n >= 0
        BY <1>1, Z3
      <3> QED
        BY <1>1, <2>2, <3>1, <3>2, <3>3
    <2>4. s <= 2 => sn <= 2 * n
      <3>1. ASSUME s <= 2 PROVE n * (2 - s) >= 0 /\ n * (2 - s) = 2 * n - n * s
        BY <1>1, <3>1, Z3
      <3> QED
        BY <1>1, <2>2, <3>1
    <2>5. s <= f => 2 * sn <= nn
      <3>1. ASSUME s <= f
            PROVE  n * (n - 2 * s) >= 0 /\ n * (n - 2 * s) = n * n - 2 * (n * s)
        BY <1>1, <3>1, Z3
      <3> QED
        BY <1>1, <2>2, <3>1
    <2> HIDE DEF sn, nn, s, f, n
    <2>6. s >= 3
      BY <1>1, <2>1, <2>2, <2>3, <2>4
    <2>7. s > f
      BY <1>1, <2>1, <2>2, <2>3, <2>5
    <2> QED
      BY <2>6, <2>7 DEF s, f
  <1>3. CASE n >= 792
    <2>1. 10000 * (n + 4 + 198 * (2 + s)) >= 100 * (200 * 55 - 1) * (n + 4)
      BY <1>1, <1>3, ScoreOfMany
    <2> HIDE DEF s, f, n
    <2>2. s >= 3 /\ s > f
      BY <1>1, <1>3, <2>1
    <2> QED
      BY <2>2 DEF s, f
  <1> QED
    BY <1>1, <1>2, <1>3

\* Without a failure, 15 passes are enough for 75 and three for 55.
LEMMA CleanReaches ==
  ASSUME NEW rp \in Counts, rp.failures = 0
  PROVE  /\ rp.successes >= 15 => ScoreAtLeast(rp, 75)
         /\ rp.successes >= 3 => ScoreAtLeast(rp, 55)
  <1> DEFINE n == Size(rp)
             nn == n * n
  <1>1. n \in Nat /\ rp.successes = n /\ nn \in Int
    BY DEF Counts, Size
  <1>2. (n >= 15 => nn >= 15 * n) /\ (n >= 3 => nn >= 3 * n)
    <2>1. ASSUME n >= 15 PROVE n * (n - 15) >= 0 /\ n * (n - 15) = n * n - 15 * n
      BY <1>1, <2>1, Z3
    <2>2. ASSUME n >= 3 PROVE n * (n - 3) >= 0 /\ n * (n - 3) = n * n - 3 * n
      BY <1>1, <2>2, Z3
    <2> QED
      BY <1>1, <2>1, <2>2
  <1>3. CASE n < 792
    <2>1. ScoreAtLeast(rp, 75) <=> 20000 * nn >= 14999 * nn + 59988 * n + 159968
      BY <1>1, <1>3, FewForBuy
    <2>2. ScoreAtLeast(rp, 55) <=> 20000 * nn >= 10999 * nn + 11988 * n + 31968
      BY <1>1, <1>3, FewForCaution
    <2> HIDE DEF nn, n
    <2> QED
      BY <1>1, <1>2, <2>1, <2>2
  <1>4. CASE n >= 792
    <2>1. ScoreAtLeast(rp, 75)
            <=> 10000 * (n + 4 + 198 * (2 + n)) >= 100 * (200 * 75 - 1) * (n + 4)
      BY <1>1, <1>4, ScoreOfMany
    <2>2. ScoreAtLeast(rp, 55)
            <=> 10000 * (n + 4 + 198 * (2 + n)) >= 100 * (200 * 55 - 1) * (n + 4)
      BY <1>1, <1>4, ScoreOfMany
    <2> HIDE DEF n
    <2> QED
      BY <1>1, <1>4, <2>1, <2>2
  <1> QED
    BY <1>1, <1>3, <1>4

\* A verdict is earned by the counts it is computed from.
LEMMA VerdictEarned ==
  ASSUME NEW rp \in Counts, NEW canary \in Counts
  PROVE  Earned(verdict(rp, canary), rp, canary)
  <1>1. /\ Size(rp) \in Nat /\ rp.successes \in Nat /\ rp.failures \in Nat
        /\ Size(rp) = rp.successes + rp.failures
    BY DEF Counts, Size
  <1>2. /\ Size(canary) \in Nat /\ canary.successes \in Nat /\ canary.failures \in Nat
        /\ Size(canary) = canary.successes + canary.failures
    BY DEF Counts, Size
  <1>3. CASE Size(rp) = 0 /\ Size(canary) = 0
    <2>1. verdict(rp, canary) = "UNPROVEN"
      BY <1>3 DEF verdict
    <2> QED
      BY <1>3, <2>1 DEF Earned
  <1>4. CASE Size(rp) = 0 /\ Size(canary) > 0 /\ MostlyFailing(canary)
    <2>1. verdict(rp, canary) = "AVOID"
      BY <1>4 DEF verdict
    <2> QED
      BY <1>4, <2>1 DEF Earned, MostlyFailing
  <1>5. CASE Size(rp) = 0 /\ Size(canary) > 0 /\ ~MostlyFailing(canary)
    <2>1. verdict(rp, canary) = "TRY_SMALL"
      BY <1>5 DEF verdict
    <2> QED
      BY <1>2, <1>5, <2>1 DEF Earned, MostlyFailing
  <1>6. CASE Size(rp) > 0 /\ ScoreAtLeast(rp, 75)
    <2>1. Confident(rp) /\ rp.successes >= 15 /\ rp.successes > 3 * rp.failures
      BY <1>6, BuyTakes
    <2>2. verdict(rp, canary) = "BUY"
      BY <1>6, <2>1, ScoreOrder DEF verdict
    <2> QED
      BY <2>1, <2>2 DEF Earned
  <1>7. CASE Size(rp) > 0 /\ ScoreAtLeast(rp, 55) /\ ~ScoreAtLeast(rp, 75)
    <2>1. verdict(rp, canary) = "CAUTION"
      BY <1>7 DEF verdict
    <2>2. rp.successes >= 3 /\ rp.successes > rp.failures
      BY <1>7, CautionTakes
    <2>3. rp.failures > 0 \/ rp.successes < 15
      BY <1>1, <1>7, CleanReaches
    <2> QED
      BY <2>1, <2>2, <2>3 DEF Earned
  <1>8. CASE Size(rp) > 0 /\ ~ScoreAtLeast(rp, 55)
    <2>1. ~ScoreAtLeast(rp, 75)
      BY <1>8, ScoreOrder
    <2>2. verdict(rp, canary) = "AVOID"
      BY <1>8, <2>1 DEF verdict
    <2>3. rp.failures > 0 \/ rp.successes < 3
      BY <1>1, <1>8, CleanReaches
    <2> QED
      BY <1>8, <2>2, <2>3 DEF Earned
  <1> QED
    BY <1>1, <1>2, <1>3, <1>4, <1>5, <1>6, <1>7, <1>8
------------------------------------------------------------------------------
(* One report more.                                                        *)

OnePassMore(rp) == [rp EXCEPT !.successes = @ + 1]
OneFailMore(rp) == [rp EXCEPT !.failures = @ + 1]

\* One report more is one observation more.
LEMMA OneMore ==
  ASSUME NEW rp \in Counts
  PROVE  /\ OnePassMore(rp) \in Counts /\ OneFailMore(rp) \in Counts
         /\ OnePassMore(rp).successes = rp.successes + 1
         /\ OneFailMore(rp).successes = rp.successes
         /\ Size(OnePassMore(rp)) = Size(rp) + 1 /\ Size(OneFailMore(rp)) = Size(rp) + 1
         /\ rp.successes \in Nat /\ Size(rp) \in Nat /\ rp.successes <= Size(rp)
  BY DEF Counts, Size, OnePassMore, OneFailMore

\* A score with a pass more is no lower.
LEMMA PassRaises ==
  ASSUME NEW rp \in Counts, Size(rp) > 0, NEW k \in {55, 75}, ScoreAtLeast(rp, k)
  PROVE  ScoreAtLeast(OnePassMore(rp), k)
  <1> DEFINE s == rp.successes
             n == Size(rp)
             sn == n * s
             nn == n * n
             more == OnePassMore(rp)
  <1>1. /\ s \in Nat /\ n \in Nat /\ n > 0 /\ s <= n /\ sn \in Int /\ nn \in Int
        /\ more \in Counts /\ more.successes = s + 1 /\ Size(more) = n + 1
    <2>1. /\ s \in Nat /\ n \in Nat /\ s <= n
          /\ more \in Counts /\ more.successes = s + 1 /\ Size(more) = n + 1
      BY OneMore
    <2>2. sn \in Int /\ nn \in Int
      BY <2>1
    <2> QED
      BY <2>1, <2>2
  <1>2. (n + 1) * (s + 1) = sn + s + n + 1 /\ (n + 1) * (n + 1) = nn + 2 * n + 1
    <2>1. (n + 1) * (s + 1) = n * s + s + n + 1
      <3> HIDE DEF n, s
      <3> QED
        BY <1>1
    <2>2. (n + 1) * (n + 1) = n * n + 2 * n + 1
      BY <1>1
    <2> QED
      BY <2>1, <2>2
  <1>3. CASE n < 792
    <2>1. CASE k = 75
      <3>1. 20000 * sn >= 14999 * nn + 59988 * n + 159968
        BY <1>1, <1>3, <2>1, FewForBuy
      <3>2. 20000 * s >= 14999 * n + 59988
        <4>1. 20000 * s < 14999 * n + 59988
                => n * (14999 * n + 59988 - 20000 * s) >= 0
          BY <1>1, Z3
        <4>2. n * (14999 * n + 59988 - 20000 * s) = 14999 * nn + 59988 * n - 20000 * sn
          BY <1>1, Z3
        <4> HIDE DEF sn, nn, s, n
        <4> QED
          BY <1>1, <3>1, <4>1, <4>2
      <3>3. CASE n < 791
        <4>1. ScoreAtLeast(more, 75) <=>
                20000 * ((n + 1) * (s + 1))
                  >= 14999 * ((n + 1) * (n + 1)) + 59988 * (n + 1) + 159968
          BY <1>1, <3>3, FewForBuy
        <4>2. 20000 * (sn + s + n + 1)
                >= 14999 * (nn + 2 * n + 1) + 59988 * (n + 1) + 159968
          <5> HIDE DEF sn, nn, s, n
          <5> QED
            BY <1>1, <3>1, <3>2
        <4> QED
          BY <1>2, <2>1, <4>1, <4>2
      <3>4. CASE n = 791
        <4>1. ScoreAtLeast(more, 75) <=>
                10000 * (792 + 4 + 198 * (2 + (s + 1))) >= 100 * (200 * 75 - 1) * (792 + 4)
          BY <1>1, <3>4, ScoreOfMany
        <4> QED
          BY <1>1, <2>1, <3>2, <3>4, <4>1
      <3> QED
        BY <1>1, <1>3, <3>3, <3>4
    <2>2. CASE k = 55
      <3>1. 20000 * sn >= 10999 * nn + 11988 * n + 31968
        BY <1>1, <1>3, <2>2, FewForCaution
      <3>2. 20000 * s >= 10999 * n + 11988
        <4>1. 20000 * s < 10999 * n + 11988
                => n * (10999 * n + 11988 - 20000 * s) >= 0
          BY <1>1, Z3
        <4>2. n * (10999 * n + 11988 - 20000 * s) = 10999 * nn + 11988 * n - 20000 * sn
          BY <1>1, Z3
        <4> HIDE DEF sn, nn, s, n
        <4> QED
          BY <1>1, <3>1, <4>1, <4>2
      <3>3. CASE n < 791
        <4>1. ScoreAtLeast(more, 55) <=>
                20000 * ((n + 1) * (s + 1))
                  >= 10999 * ((n + 1) * (n + 1)) + 11988 * (n + 1) + 31968
          BY <1>1, <3>3, FewForCaution
        <4>2. 20000 * (sn + s + n + 1)
                >= 10999 * (nn + 2 * n + 1) + 11988 * (n + 1) + 31968
          <5> HIDE DEF sn, nn, s, n
          <5> QED
            BY <1>1, <3>1, <3>2
        <4> QED
          BY <1>2, <2>2, <4>1, <4>2
      <3>4. CASE n = 791
        <4>1. ScoreAtLeast(more, 55) <=>
                10000 * (792 + 4 + 198 * (2 + (s + 1))) >= 100 * (200 * 55 - 1) * (792 + 4)
          BY <1>1, <3>4, ScoreOfMany
        <4> QED
          BY <1>1, <2>2, <3>2, <3>4, <4>1
      <3> QED
        BY <1>1, <1>3, <3>3, <3>4
    <2> QED
      BY <2>1, <2>2
  <1>4. CASE n >= 792
    <2>1. 10000 * (n + 4 + 198 * (2 + s)) >= 100 * (200 * k - 1) * (n + 4)
      BY <1>1, <1>4, ScoreOfMany
    <2>2. ScoreAtLeast(more, k) <=>
            10000 * ((n + 1) + 4 + 198 * (2 + (s + 1))) >= 100 * (200 * k - 1) * ((n + 1) + 4)
      BY <1>1, <1>4, ScoreOfMany
    <2> QED
      BY <1>1, <2>1, <2>2
  <1> QED
    BY <1>1, <1>3, <1>4

\* A score with a failure more is no higher.
LEMMA FailLowers ==
  ASSUME NEW rp \in Counts, Size(rp) > 0, NEW k \in {55, 75},
         ScoreAtLeast(OneFailMore(rp), k)
  PROVE  ScoreAtLeast(rp, k)
  <1> DEFINE s == rp.successes
             n == Size(rp)
             sn == n * s
             nn == n * n
             more == OneFailMore(rp)
  <1>1. /\ s \in Nat /\ n \in Nat /\ n > 0 /\ s <= n /\ sn \in Int /\ nn \in Int
        /\ more \in Counts /\ more.successes = s /\ Size(more) = n + 1
    <2>1. /\ s \in Nat /\ n \in Nat /\ s <= n
          /\ more \in Counts /\ more.successes = s /\ Size(more) = n + 1
      BY OneMore
    <2>2. sn \in Int /\ nn \in Int
      BY <2>1
    <2> QED
      BY <2>1, <2>2
  <1>2. (n + 1) * s = sn + s /\ (n + 1) * (n + 1) = nn + 2 * n + 1
    BY <1>1, Z3
  <1>3. CASE n < 791
    <2>1. CASE k = 75
      <3>1. 20000 * ((n + 1) * s) >= 14999 * ((n + 1) * (n + 1)) + 59988 * (n + 1) + 159968
        BY <1>1, <1>3, <2>1, FewForBuy
      <3>2. 20000 * (sn + s) >= 14999 * (nn + 2 * n + 1) + 59988 * (n + 1) + 159968
        BY <1>2, <3>1
      <3>3. 20000 * sn >= 14999 * nn + 59988 * n + 159968
        <4> HIDE DEF sn, nn, s, n
        <4> QED
          BY <1>1, <3>2
      <3> QED
        BY <1>1, <1>3, <2>1, <3>3, FewForBuy
    <2>2. CASE k = 55
      <3>1. 20000 * ((n + 1) * s) >= 10999 * ((n + 1) * (n + 1)) + 11988 * (n + 1) + 31968
        BY <1>1, <1>3, <2>2, FewForCaution
      <3>2. 20000 * (sn + s) >= 10999 * (nn + 2 * n + 1) + 11988 * (n + 1) + 31968
        BY <1>2, <3>1
      <3>3. 20000 * sn >= 10999 * nn + 11988 * n + 31968
        <4> HIDE DEF sn, nn, s, n
        <4> QED
          BY <1>1, <3>2
      <3> QED
        BY <1>1, <1>3, <2>2, <3>3, FewForCaution
    <2> QED
      BY <2>1, <2>2
  <1>4. CASE n = 791
    <2>1. 10000 * (792 + 4 + 198 * (2 + s)) >= 100 * (200 * k - 1) * (792 + 4)
      BY <1>1, <1>4, ScoreOfMany
    <2>2. 20000 * (4 * (791 + 4) + 791 * (2 + s)) >= (200 * k - 1) * ((791 + 8) * (791 + 4))
      BY <1>1, <2>1
    <2> QED
      BY <1>1, <1>4, <2>2, ScoreOfFew
  <1>5. CASE n >= 792
    <2>1. 10000 * ((n + 1) + 4 + 198 * (2 + s)) >= 100 * (200 * k - 1) * ((n + 1) + 4)
      BY <1>1, <1>5, ScoreOfMany
    <2>2. ScoreAtLeast(rp, k) <=>
            10000 * (n + 4 + 198 * (2 + s)) >= 100 * (200 * k - 1) * (n + 4)
      BY <1>1, <1>5, ScoreOfMany
    <2> QED
      BY <1>1, <2>1, <2>2
  <1> QED
    BY <1>1, <1>3, <1>4, <1>5

\* What the score says of a seller with deliveries, its verdict says.
LEMMA VerdictByScore ==
  ASSUME NEW rp \in Counts, NEW canary \in Counts, Size(rp) > 0
  PROVE  /\ verdict(rp, canary) = "BUY" <=> ScoreAtLeast(rp, 75)
         /\ verdict(rp, canary) \in {"BUY", "CAUTION"} <=> ScoreAtLeast(rp, 55)
  <1>1. CASE ScoreAtLeast(rp, 75)
    <2>1. Confident(rp) /\ ScoreAtLeast(rp, 55)
      BY <1>1, BuyTakes, ScoreOrder
    <2>2. verdict(rp, canary) = "BUY"
      BY <1>1, <2>1 DEF verdict
    <2> QED
      BY <1>1, <2>1, <2>2
  <1>2. CASE ~ScoreAtLeast(rp, 75) /\ ScoreAtLeast(rp, 55)
    <2>1. verdict(rp, canary) = "CAUTION"
      BY <1>2 DEF verdict
    <2> QED
      BY <1>2, <2>1
  <1>3. CASE ~ScoreAtLeast(rp, 55)
    <2>1. ~ScoreAtLeast(rp, 75)
      BY <1>3, ScoreOrder
    <2>2. verdict(rp, canary) = "AVOID"
      BY <1>3, <2>1 DEF verdict
    <2> QED
      BY <1>3, <2>1, <2>2
  <1> QED
    BY <1>1, <1>2, <1>3

\* Once a seller has counted deliveries, a counted PASS never costs it its verdict and a
\* counted FAIL never improves it, for however many reports there are.  (The first counted
\* delivery may: it ends TRY_SMALL.)
THEOREM ReportsMoveVerdicts ==
  ASSUME NEW rp \in Counts, NEW canary \in Counts, Size(rp) > 0
  PROVE  /\ verdict(rp, canary) = "BUY" => verdict(OnePassMore(rp), canary) = "BUY"
         /\ verdict(rp, canary) = "CAUTION" =>
              verdict(OnePassMore(rp), canary) \in {"BUY", "CAUTION"}
         /\ verdict(rp, canary) = "AVOID" => verdict(OneFailMore(rp), canary) = "AVOID"
         /\ verdict(rp, canary) = "CAUTION" =>
              verdict(OneFailMore(rp), canary) \in {"AVOID", "CAUTION"}
  <1>1. /\ OnePassMore(rp) \in Counts /\ Size(OnePassMore(rp)) > 0
        /\ OneFailMore(rp) \in Counts /\ Size(OneFailMore(rp)) > 0
    <2>1. /\ Size(rp) \in Nat
          /\ Size(OnePassMore(rp)) = Size(rp) + 1 /\ Size(OneFailMore(rp)) = Size(rp) + 1
      BY OneMore
    <2> QED
      BY <2>1, OneMore
  <1>2. /\ ScoreAtLeast(rp, 75) => ScoreAtLeast(OnePassMore(rp), 75)
        /\ ScoreAtLeast(rp, 55) => ScoreAtLeast(OnePassMore(rp), 55)
    BY PassRaises
  <1>3. /\ ScoreAtLeast(OneFailMore(rp), 75) => ScoreAtLeast(rp, 75)
        /\ ScoreAtLeast(OneFailMore(rp), 55) => ScoreAtLeast(rp, 55)
    BY FailLowers
  <1>4. verdict(OneFailMore(rp), canary) \in {"BUY", "CAUTION", "AVOID"}
    <2>1. ~(Size(OneFailMore(rp)) = 0)
      BY <1>1
    <2> QED
      BY <1>1, <2>1, VerdictEarned, VerdictTyped, OneMore DEF Verdicts, Earned
  <1> QED
    BY <1>1, <1>2, <1>3, <1>4, VerdictByScore
------------------------------------------------------------------------------
(* The trail.                                                              *)

\* Every snapshot says what follows from the two counts in it.
VerdictsFollow ==
  \A k \in 1..Len(audit) :
    LET e == audit[k]
    IN  e.type = "trust_snapshot" =>
          /\ e.rep \in Counts /\ e.canary \in Counts
          /\ e.verdict = verdict(e.rep, e.canary)

\* An appended event that follows leaves VerdictsFollow true; so does one of another type.
LEMMA FollowsOn ==
  ASSUME TypeOK, VerdictsFollow, NEW e \in RecordEvent \cup ReportEvent,
         audit' = Append(audit, e),
         e.type = "trust_snapshot" =>
           e.rep \in Counts /\ e.canary \in Counts /\ e.verdict = verdict(e.rep, e.canary)
  PROVE  VerdictsFollow'
  <1>1. /\ Len(audit) \in Nat /\ Len(audit') = Len(audit) + 1 /\ audit'[Len(audit) + 1] = e
        /\ \A k \in 1..Len(audit) : audit'[k] = audit[k]
    BY Appended
  <1> SUFFICES ASSUME NEW k \in 1..Len(audit'), audit'[k].type = "trust_snapshot"
               PROVE  /\ audit'[k].rep \in Counts /\ audit'[k].canary \in Counts
                      /\ audit'[k].verdict = verdict(audit'[k].rep, audit'[k].canary)
    BY Zenon DEF VerdictsFollow
  <1>2. CASE k \in 1..Len(audit)
    BY <1>1, <1>2 DEF VerdictsFollow
  <1>3. CASE k = Len(audit) + 1
    BY <1>1, <1>3
  <1> QED
    BY <1>1, <1>2, <1>3

\* Only trust_snapshot writes a snapshot, with the verdict on what its thread has read.
LEMMA FollowsStep ==
  ASSUME TypeInv, VerdictsFollow, [Next]_vars
  PROVE  VerdictsFollow'
  <1> USE DEF TypeInv
  <1>1. ASSUME NEW h \in Handlers, trust_snapshot(h) PROVE VerdictsFollow'
    <2>1. PICK c \in seen[h], e \in ReportEvent :
            /\ e.rep = c.rep /\ e.canary = c.canary
            /\ e.verdict = verdict(c.rep, c.canary) /\ audit' = Append(audit, e)
      BY <1>1, SnapshotStep
    <2>2. c.rep \in Counts /\ c.canary \in Counts
      BY DEF TypeOK
    <2> QED
      BY <2>1, <2>2, FollowsOn
  <1>2. ASSUME NEW h \in Handlers, best_execution(h) PROVE VerdictsFollow'
    BY <1>2, RouteStep, FollowsOn
  <1>3. ASSUME NEW e \in RecordEvent, audit' = Append(audit, e) PROVE VerdictsFollow'
    <2>1. e.type # "trust_snapshot"
      BY DEF RecordEvent
    <2> QED
      BY <1>3, <2>1, FollowsOn
  <1>4. ASSUME audit' = audit PROVE VerdictsFollow'
    BY <1>4 DEF VerdictsFollow
  <1>5. CASE \E q \in Verifications : verify_delivery(q)
    BY <1>3, <1>5, VerifyStep
  <1>6. CASE \E q \in Canaries : probe_observation(q)
    BY <1>3, <1>6, CanaryStep
  <1>7. CASE \E h \in Handlers : Begin(h) \/ ReadReputation(h) \/ ReadProtocolReputation(h)
                                   \/ Die(h)
    BY <1>4, <1>7 DEF Begin, ReadReputation, ReadProtocolReputation, Die, tables
  <1>8. CASE UNCHANGED vars
    BY <1>4, <1>8 DEF vars, tables
  <1> QED
    BY <1>1, <1>2, <1>5, <1>6, <1>7, <1>8 DEF Next

\* Whatever is asked and reported in whatever order, a verdict rests on deliveries and
\* canaries that the trail had while the call ran: BUY on 15 passes and three times as
\* many passes as failures, CAUTION on three and more passes than failures, TRY_SMALL on
\* canaries that are not mostly failed.
THEOREM VerdictsAreEarned == Spec => []VerdictIsEarned
  <1>1. Init => VerdictsFollow
    BY DEF Init, VerdictsFollow
  <1>2. TypeInv /\ VerdictsFollow /\ [Next]_vars => VerdictsFollow'
    BY FollowsStep
  <1>3. IInv => TypeInv
    BY DEF IInv
  <1>4. Spec => []VerdictsFollow
    BY <1>1, <1>2, <1>3, Inductive, PTL DEF Spec
  <1>5. SnapshotIsOfTheCall /\ VerdictsFollow => VerdictIsEarned
    <2> SUFFICES ASSUME SnapshotIsOfTheCall, VerdictsFollow,
                        NEW k \in 1..Len(audit), audit[k].type = "trust_snapshot"
                 PROVE  \E i, j \in audit[k].since..(k - 1) :
                          /\ i <= j
                          /\ Earned(audit[k].verdict,
                                    CountsAt(i, audit[k].seller, audit[k].task),
                                    CanaryAt(j, audit[k].seller))
      BY DEF VerdictIsEarned
    <2>1. Earned(audit[k].verdict, audit[k].rep, audit[k].canary)
      BY VerdictEarned DEF VerdictsFollow
    <2>2. \E i, j \in audit[k].since..(k - 1) :
            /\ i <= j
            /\ audit[k].rep = CountsAt(i, audit[k].seller, audit[k].task)
            /\ audit[k].canary = CanaryAt(j, audit[k].seller)
      BY DEF SnapshotIsOfTheCall
    <2> QED
      BY <2>1, <2>2
  <1> QED
    BY <1>4, <1>5, SnapshotsAreOfTheCall, PTL

\* The same of the store whose calls are transactions that wait, fail and are undone.
THEOREM StoreVerdicts == StoreSpec => []VerdictIsEarned
  BY StoreImplements, VerdictsAreEarned, PTL DEF StoreIsAtomic
==============================================================================
