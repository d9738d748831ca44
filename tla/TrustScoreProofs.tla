-------------------------- MODULE TrustScoreProofs --------------------------
(***************************************************************************)
(* Proofs about TrustScore: the score of any log is between 0 and 100, one *)
(* event moves it by a bounded amount, a half-life moves it towards        *)
(* neutral, and so a score that nobody recomputed is only too extreme.     *)
(* The flag: merits alone never raise it, and a half-life never does.      *)
(***************************************************************************)
EXTENDS TrustScore, TLAPS

(***************************************************************************)
(* The arithmetic of the score                                             *)
(***************************************************************************)

\* Every score is in the range of Math.max(0, Math.min(100, ...)).
LEMMA ScoreInRange ==
    ASSUME NEW total \in Int
    PROVE  ScoreOf(total) \in 0..100
  BY SMT DEF ScoreOf, Rounded, Neutral, Top, PointScale, Scale

\* A larger total never has a smaller score.
LEMMA ScoreIsMonotone ==
    ASSUME NEW s \in Int, NEW t \in Int, s <= t
    PROVE  ScoreOf(s) <= ScoreOf(t)
  BY SMT DEF ScoreOf, Rounded, Neutral, Top, PointScale, Scale

\* The score is above neutral only for a positive total.
LEMMA ScoreSides ==
    ASSUME NEW t \in Int
    PROVE  /\ t >= 0 => ScoreOf(t) >= 50
           /\ t <= 0 => ScoreOf(t) <= 50
  BY SMT DEF ScoreOf, Rounded, Neutral, Top, PointScale, Scale

\* Half of a total has a score nearer to neutral.
LEMMA HalvesAreMilder ==
    ASSUME NEW t \in Int
    PROVE  AsExtreme(ScoreOf(2 * t), ScoreOf(t))
<1>1. /\ ScoreOf(t) \in Int
      /\ ScoreOf(2 * t) \in Int
      /\ 2 * t \in Int
  BY ScoreInRange
<1>2. CASE t >= 0
  <2>1. ScoreOf(t) <= ScoreOf(2 * t) /\ ScoreOf(t) >= 50
    BY <1>1, <1>2, ScoreIsMonotone, ScoreSides
  <2> QED BY <1>1, <2>1 DEF AsExtreme
<1>3. CASE t <= 0
  <2>1. ScoreOf(2 * t) <= ScoreOf(t) /\ ScoreOf(t) <= 50
    BY <1>1, <1>3, ScoreIsMonotone, ScoreSides
  <2> QED BY <1>1, <2>1 DEF AsExtreme
<1> QED BY <1>2, <1>3

\* One merit, of at most 15, adds at most four points.
LEMMA MeritsAddLittle ==
    ASSUME NEW t \in Int, NEW w \in 0..15
    PROVE  ScoreOf(t + 8 * w) - ScoreOf(t) \in 0..4
  BY SMT DEF ScoreOf, Rounded, Neutral, Top, PointScale, Scale

\* One penalty, of at least 30, takes at least seven points between the bounds.
LEMMA PenaltiesTakeMore ==
    ASSUME NEW t \in Int, NEW w \in Int, w <= -30
    PROVE  \/ ScoreOf(t) - ScoreOf(t + 8 * w) >= 7
           \/ ScoreOf(t) = 100
           \/ ScoreOf(t + 8 * w) = 0
  BY SMT DEF ScoreOf, Rounded, Neutral, Top, PointScale, Scale
(***************************************************************************)
(* The total of a log                                                      *)
(***************************************************************************)

\* The weights that count, after the defaults replaced the penalties.
LEMMA BaseWeights ==
    /\ BaseWeight("identity") = 15
    /\ BaseWeight("studentCompleted") = 5  /\ BaseWeight("ownerCompleted") = 10
    /\ BaseWeight("reviewWorst") = 2       /\ BaseWeight("reviewBest") = 10
    /\ BaseWeight("studentDisputed") = -30 /\ BaseWeight("ownerDisputed") = -30
    /\ BaseWeight("reported") = -60
    /\ BaseWeight("reporter") = -60
    /\ BaseWeight("duplicate") = -60
  BY SMT DEF BaseWeight, RecordedWeight, DefaultWeight, TypeOf

\* A merit weighs at most 15, a penalty at least 30 the other way.
LEMMA MeritsAndPenalties ==
    ASSUME NEW k \in Kind
    PROVE  /\ BaseWeight(k) \in Int
           /\ TypeOf[k] \notin Negative => BaseWeight(k) \in 0..15
           /\ TypeOf[k] \in Negative => BaseWeight(k) <= -30
<1>1. /\ TypeOf["identity"] \notin Negative
      /\ TypeOf["studentCompleted"] \notin Negative
      /\ TypeOf["ownerCompleted"] \notin Negative
      /\ TypeOf["reviewWorst"] \notin Negative
      /\ TypeOf["reviewBest"] \notin Negative
      /\ TypeOf["studentDisputed"] \in Negative
      /\ TypeOf["ownerDisputed"] \in Negative
      /\ TypeOf["reported"] \in Negative
      /\ TypeOf["reporter"] \in Negative
      /\ TypeOf["duplicate"] \in Negative
  BY SMT DEF TypeOf, Negative
<1>2. \/ k = "identity" \/ k = "studentCompleted" \/ k = "ownerCompleted"
      \/ k = "reviewWorst" \/ k = "reviewBest" \/ k = "studentDisputed"
      \/ k = "ownerDisputed" \/ k = "reported" \/ k = "reporter" \/ k = "duplicate"
  BY DEF Kind
<1> QED BY <1>1, <1>2, BaseWeights

\* A log counts natural numbers of events.
LEMMA LogCounts ==
    ASSUME NEW l \in Log, NEW k \in Kind
    PROVE  /\ l[k] \in [Age -> Nat]
           /\ l[k][0] \in Nat /\ l[k][1] \in Nat /\ l[k][2] \in Nat /\ l[k][3] \in Nat
           /\ Decayed(l[k]) \in Nat
  BY SMT DEF Log, Age, Decayed

(***************************************************************************)
(* Sums over the kinds                                                     *)
(***************************************************************************)

\* What a function on the kinds is at each of them.
LEMMA AtEveryKind ==
    ASSUME NEW f \in [Kind -> Int]
    PROVE  /\ f["identity"] \in Int
           /\ f["studentCompleted"] \in Int  /\ f["ownerCompleted"] \in Int
           /\ f["reviewWorst"] \in Int       /\ f["reviewBest"] \in Int
           /\ f["studentDisputed"] \in Int   /\ f["ownerDisputed"] \in Int
           /\ f["reported"] \in Int
           /\ f["reporter"] \in Int
           /\ f["duplicate"] \in Int
  BY DEF Kind

\* A sum of integers is one.
LEMMA SumIsInteger ==
    ASSUME NEW f \in [Kind -> Int]
    PROVE  OverKinds(f) \in Int
  BY AtEveryKind DEF OverKinds

\* The sum adds up.
LEMMA SumsAddUp ==
    ASSUME NEW f \in [Kind -> Int], NEW g \in [Kind -> Int], NEW h \in [Kind -> Int],
           \A k \in Kind : h[k] = f[k] + g[k]
    PROVE  OverKinds(h) = OverKinds(f) + OverKinds(g)
<1>1. /\ h["identity"] = f["identity"] + g["identity"]
      /\ h["studentCompleted"] = f["studentCompleted"] + g["studentCompleted"]
      /\ h["ownerCompleted"] = f["ownerCompleted"] + g["ownerCompleted"]
      /\ h["reviewWorst"] = f["reviewWorst"] + g["reviewWorst"]
      /\ h["reviewBest"] = f["reviewBest"] + g["reviewBest"]
      /\ h["studentDisputed"] = f["studentDisputed"] + g["studentDisputed"]
      /\ h["ownerDisputed"] = f["ownerDisputed"] + g["ownerDisputed"]
      /\ h["reported"] = f["reported"] + g["reported"]
      /\ h["reporter"] = f["reporter"] + g["reporter"]
      /\ h["duplicate"] = f["duplicate"] + g["duplicate"]
  BY DEF Kind
<1> QED BY <1>1, AtEveryKind DEF OverKinds

\* The sum of larger terms is not smaller.
LEMMA SumIsMonotone ==
    ASSUME NEW f \in [Kind -> Int], NEW g \in [Kind -> Int],
           \A k \in Kind : f[k] <= g[k]
    PROVE  OverKinds(f) <= OverKinds(g)
<1>1. /\ f["identity"] <= g["identity"]
      /\ f["studentCompleted"] <= g["studentCompleted"]
      /\ f["ownerCompleted"] <= g["ownerCompleted"]
      /\ f["reviewWorst"] <= g["reviewWorst"]
      /\ f["reviewBest"] <= g["reviewBest"]
      /\ f["studentDisputed"] <= g["studentDisputed"]
      /\ f["ownerDisputed"] <= g["ownerDisputed"]
      /\ f["reported"] <= g["reported"]
      /\ f["reporter"] <= g["reporter"]
      /\ f["duplicate"] <= g["duplicate"]
  BY DEF Kind
<1> QED BY <1>1, AtEveryKind DEF OverKinds

\* A sum is the sum of its merits and its penalties.
LEMMA SumInHalves ==
    ASSUME NEW f \in [Kind -> Int]
    PROVE  OverKinds(f) = (f["identity"] + f["studentCompleted"] + f["ownerCompleted"]
                             + f["reviewWorst"] + f["reviewBest"])
                        + (f["studentDisputed"] + f["ownerDisputed"] + f["reported"]
                             + f["reporter"] + f["duplicate"])
  BY AtEveryKind DEF OverKinds

\* A common factor can be taken out.
LEMMA SumOfMultiples ==
    ASSUME NEW f \in [Kind -> Int], NEW g \in [Kind -> Int], NEW c \in Int,
           \A k \in Kind : g[k] = c * f[k]
    PROVE  OverKinds(g) = c * OverKinds(f)
<1>1. /\ g["identity"] = c * f["identity"]
      /\ g["studentCompleted"] = c * f["studentCompleted"]
      /\ g["ownerCompleted"] = c * f["ownerCompleted"]
      /\ g["reviewWorst"] = c * f["reviewWorst"]
      /\ g["reviewBest"] = c * f["reviewBest"]
      /\ g["studentDisputed"] = c * f["studentDisputed"]
      /\ g["ownerDisputed"] = c * f["ownerDisputed"]
      /\ g["reported"] = c * f["reported"]
      /\ g["reporter"] = c * f["reporter"]
      /\ g["duplicate"] = c * f["duplicate"]
  BY DEF Kind
<1>2. /\ f["identity"] \in Int
      /\ f["studentCompleted"] \in Int  /\ f["ownerCompleted"] \in Int
      /\ f["reviewWorst"] \in Int       /\ f["reviewBest"] \in Int
      /\ f["studentDisputed"] \in Int   /\ f["ownerDisputed"] \in Int
      /\ f["reported"] \in Int
      /\ f["reporter"] \in Int
      /\ f["duplicate"] \in Int
  BY AtEveryKind
<1> DEFINE merits == f["identity"] + f["studentCompleted"] + f["ownerCompleted"]
                    + f["reviewWorst"] + f["reviewBest"]
           penalties == f["studentDisputed"] + f["ownerDisputed"] + f["reported"]
                    + f["reporter"] + f["duplicate"]
<1>3. c * merits = c * f["identity"] + c * f["studentCompleted"] + c * f["ownerCompleted"]
                    + c * f["reviewWorst"] + c * f["reviewBest"]
  BY <1>2
<1>4. c * penalties = c * f["studentDisputed"] + c * f["ownerDisputed"] + c * f["reported"]
                    + c * f["reporter"] + c * f["duplicate"]
  BY <1>2
<1>5. c * (merits + penalties) = c * merits + c * penalties
  <2>1. merits \in Int /\ penalties \in Int
    BY <1>2
  <2> HIDE DEF merits, penalties
  <2> QED BY <2>1
<1>6. OverKinds(f) = merits + penalties
  BY SumInHalves, Zenon
<1>7. OverKinds(g) = c * merits + c * penalties
  <2>1. g["identity"] + g["studentCompleted"] + g["ownerCompleted"]
        + g["reviewWorst"] + g["reviewBest"] = c * merits
    BY <1>1, <1>3, Zenon
  <2>2. g["studentDisputed"] + g["ownerDisputed"] + g["reported"]
        + g["reporter"] + g["duplicate"] = c * penalties
    BY <1>1, <1>4, Zenon
  <2> HIDE DEF merits, penalties
  <2>3. OverKinds(g) = (g["identity"] + g["studentCompleted"] + g["ownerCompleted"]
                          + g["reviewWorst"] + g["reviewBest"])
                     + (g["studentDisputed"] + g["ownerDisputed"] + g["reported"]
                          + g["reporter"] + g["duplicate"])
    BY SumInHalves, Zenon
  <2> QED BY <2>1, <2>2, <2>3, Zenon
<1> QED BY <1>5, <1>6, <1>7

\* The sum of the same terms is the same.
LEMMA SumOfSame ==
    ASSUME NEW f, NEW g, \A k \in Kind : f[k] = g[k]
    PROVE  OverKinds(f) = OverKinds(g)
  BY DEF OverKinds, Kind

\* The sum over a single kind.
LEMMA SumOfOne ==
    ASSUME NEW k \in Kind, NEW c \in Int
    PROVE  OverKinds([j \in Kind |-> IF j = k THEN c ELSE 0]) = c
<1> USE DEF OverKinds, Kind
<1>1. CASE k = "identity" BY <1>1
<1>2. CASE k = "studentCompleted" BY <1>2
<1>3. CASE k = "ownerCompleted" BY <1>3
<1>4. CASE k = "reviewWorst" BY <1>4
<1>5. CASE k = "reviewBest" BY <1>5
<1>6. CASE k = "studentDisputed" BY <1>6
<1>7. CASE k = "ownerDisputed" BY <1>7
<1>8. CASE k = "reported" BY <1>8
<1>9. CASE k = "reporter" BY <1>9
<1>10. CASE k = "duplicate" BY <1>10
<1> QED BY <1>1, <1>2, <1>3, <1>4, <1>5, <1>6, <1>7, <1>8, <1>9, <1>10

(***************************************************************************)
(* The total of a log                                                      *)
(***************************************************************************)

\* What the events of each kind weigh.
Weights(l) == [k \in Kind |-> Weight(l, k)]

\* A weight is an integer.
LEMMA WeightIsInteger ==
    ASSUME NEW l \in Log, NEW k \in Kind
    PROVE  Weight(l, k) \in Int
<1>1. BaseWeight(k) \in Int
  BY MeritsAndPenalties
<1>2. Decayed(l[k]) \in Int
  BY LogCounts
<1> QED BY <1>1, <1>2 DEF Weight

\* The total is the sum of the weights.
LEMMA TotalIsSum ==
    ASSUME NEW l \in Log
    PROVE  /\ Weights(l) \in [Kind -> Int]
           /\ Total(l) = OverKinds(Weights(l))
           /\ Total(l) \in Int
<1>1. Weights(l) \in [Kind -> Int]
  BY WeightIsInteger DEF Weights
<1>2. Total(l) = OverKinds(Weights(l))
  BY DEF Total, Weights
<1> QED BY <1>1, <1>2, SumIsInteger

\* An event counts in full when it is recorded.
LEMMA RecordedTotal ==
    ASSUME NEW l \in Log, NEW k \in Kind, NEW m,
           m = [l EXCEPT ![k][0] = @ + 1]
    PROVE  /\ m \in Log
           /\ Total(m) = Total(l) + 8 * BaseWeight(k)
<1> DEFINE one == [j \in Kind |-> IF j = k THEN 8 * BaseWeight(k) ELSE 0]
<1>1. m \in Log
  BY LogCounts DEF Log, Age
<1>2. /\ m[k][0] = l[k][0] + 1
      /\ m[k][1] = l[k][1] /\ m[k][2] = l[k][2] /\ m[k][3] = l[k][3]
      /\ \A j \in Kind \ {k} : m[j] = l[j]
  BY LogCounts DEF Log, Age
<1>3. Decayed(m[k]) = Decayed(l[k]) + 8
  BY <1>1, <1>2, LogCounts DEF Decayed
<1>4. BaseWeight(k) \in Int
  BY MeritsAndPenalties
<1>5. \A j \in Kind : Weights(m)[j] = Weights(l)[j] + one[j]
  <2>1. ASSUME NEW j \in Kind, j # k
        PROVE  Weights(m)[j] = Weights(l)[j] + one[j]
    <3>1. Weight(m, j) = Weight(l, j) /\ Weight(l, j) \in Int
      BY <1>2, <2>1, WeightIsInteger DEF Weight
    <3> QED BY <2>1, <3>1 DEF Weights
  <2>2. Weights(m)[k] = Weights(l)[k] + one[k]
    <3>1. Decayed(l[k]) \in Int
      BY LogCounts
    <3>2. BaseWeight(k) * (Decayed(l[k]) + 8) = BaseWeight(k) * Decayed(l[k]) + 8 * BaseWeight(k)
      <4> HIDE DEF BaseWeight, Decayed
      <4> QED BY <1>4, <3>1
    <3> QED BY <1>3, <3>2 DEF Weights, Weight
  <2> QED BY <2>1, <2>2
<1>6. one \in [Kind -> Int]
  BY <1>4
<1>7. OverKinds(one) = 8 * BaseWeight(k)
  <2>1. 8 * BaseWeight(k) \in Int
    BY <1>4
  <2> QED BY <2>1, SumOfOne
<1> HIDE DEF one
<1>8. OverKinds(Weights(m)) = OverKinds(Weights(l)) + OverKinds(one)
  BY <1>1, <1>5, <1>6, TotalIsSum, SumsAddUp
<1> QED BY <1>1, <1>7, <1>8, TotalIsSum

\* The log a half-life later.
Aged(l) == [k \in Kind |-> [a \in Age |-> IF a = 0 THEN 0 ELSE l[k][a - 1]]]

\* An older log, kind by kind.
LEMMA AgedLog ==
    ASSUME NEW l \in Log
    PROVE  /\ Aged(l) \in Log
           /\ \A k \in Kind : /\ Aged(l)[k][0] = 0
                             /\ Aged(l)[k][1] = l[k][0]
                             /\ Aged(l)[k][2] = l[k][1]
                             /\ Aged(l)[k][3] = l[k][2]
<1>1. Aged(l) \in Log
  BY LogCounts DEF Log, Age, Aged
<1>2. ASSUME NEW k \in Kind
      PROVE  /\ Aged(l)[k][0] = 0
             /\ Aged(l)[k][1] = l[k][0]
             /\ Aged(l)[k][2] = l[k][1]
             /\ Aged(l)[k][3] = l[k][2]
  BY DEF Age, Aged
<1> QED BY <1>1, <1>2

\* A half-life halves the total.
LEMMA AgedTotal ==
    ASSUME NEW l \in Log, \A k \in Kind : l[k][3] = 0
    PROVE  Total(l) = 2 * Total(Aged(l))
<1>1. Aged(l) \in Log
  BY AgedLog
<1>2. ASSUME NEW k \in Kind
      PROVE  Weights(l)[k] = 2 * Weights(Aged(l))[k]
  <2>1. Decayed(l[k]) = 2 * Decayed(Aged(l)[k])
    <3>1. /\ Aged(l)[k][0] = 0
          /\ Aged(l)[k][1] = l[k][0]
          /\ Aged(l)[k][2] = l[k][1]
          /\ Aged(l)[k][3] = l[k][2]
      BY AgedLog
    <3> QED BY <3>1, LogCounts DEF Decayed
  <2>2. BaseWeight(k) \in Int /\ Decayed(Aged(l)[k]) \in Int
    BY <1>1, MeritsAndPenalties, LogCounts
  <2>3. BaseWeight(k) * (2 * Decayed(Aged(l)[k])) = 2 * (BaseWeight(k) * Decayed(Aged(l)[k]))
    <3> HIDE DEF BaseWeight, Decayed
    <3> QED BY <2>2
  <2> QED BY <2>1, <2>3 DEF Weights, Weight
<1>3. OverKinds(Weights(l)) = 2 * OverKinds(Weights(Aged(l)))
  BY <1>1, <1>2, TotalIsSum, SumOfMultiples
<1> QED BY <1>1, <1>3, TotalIsSum

(***************************************************************************)
(* The flag                                                                *)
(***************************************************************************)

\* How many events there are of each kind, and their squares.
Numbers(l) == [k \in Kind |-> l[k][0] + l[k][1] + l[k][2] + l[k][3]]
SquareOf(l) == [k \in Kind |-> Square(l, k)]

\* The number of events and the sum of squares are integers.
LEMMA CountIsSum ==
    ASSUME NEW l \in Log
    PROVE  /\ Numbers(l) \in [Kind -> Int]
           /\ \A k \in Kind : Numbers(l)[k] >= 0
           /\ Count(l) = OverKinds(Numbers(l))
           /\ Count(l) \in Nat
<1>1. ASSUME NEW k \in Kind
      PROVE  l[k][0] + l[k][1] + l[k][2] + l[k][3] \in Nat
  BY LogCounts
<1>2. Numbers(l) \in [Kind -> Int] /\ \A k \in Kind : Numbers(l)[k] >= 0
  BY <1>1 DEF Numbers
<1>3. Count(l) = OverKinds(Numbers(l))
  BY DEF Count, Numbers
<1>4. OverKinds(Numbers(l)) >= 0
  <2> DEFINE none == [k \in Kind |-> 0]
  <2>1. OverKinds(none) = 0
    BY DEF OverKinds, Kind
  <2>2. none \in [Kind -> Int] /\ \A k \in Kind : none[k] <= Numbers(l)[k]
    BY <1>2
  <2> HIDE DEF none
  <2>3. OverKinds(none) <= OverKinds(Numbers(l))
    BY <1>2, <2>2, SumIsMonotone
  <2>4. OverKinds(Numbers(l)) \in Int
    BY <1>2, SumIsInteger
  <2> QED BY <2>1, <2>3, <2>4
<1>5. OverKinds(Numbers(l)) \in Int
  BY <1>2, SumIsInteger
<1> QED BY <1>2, <1>3, <1>4, <1>5

LEMMA SquaresIsSum ==
    ASSUME NEW l \in Log
    PROVE  /\ SquareOf(l) \in [Kind -> Int]
           /\ Squares(l) = OverKinds(SquareOf(l))
           /\ Squares(l) \in Int
<1>1. ASSUME NEW k \in Kind
      PROVE  Square(l, k) \in Int
  <2>1. BaseWeight(k) \in Int
    BY MeritsAndPenalties
  <2>2. 64 * l[k][0] + 16 * l[k][1] + 4 * l[k][2] + l[k][3] \in Int
    BY LogCounts
  <2> HIDE DEF BaseWeight
  <2>3. BaseWeight(k) * BaseWeight(k) \in Int
    BY <2>1
  <2> QED BY <2>2, <2>3 DEF Square
<1>2. SquareOf(l) \in [Kind -> Int]
  BY <1>1 DEF SquareOf
<1>3. Squares(l) = OverKinds(SquareOf(l))
  BY DEF Squares, SquareOf
<1> QED BY <1>2, <1>3, SumIsInteger

\* The events of some types are a log, and stay one as they age.
LEMMA OfTypesIsLog ==
    ASSUME NEW l \in Log, NEW types
    PROVE  /\ OfTypes(l, types) \in Log
           /\ \A k \in Kind, a \in Age :
                  OfTypes(l, types)[k][a] = IF TypeOf[k] \in types THEN l[k][a] ELSE 0
           /\ OfTypes(Aged(l), types) = Aged(OfTypes(l, types))
<1>1. OfTypes(l, types) \in Log
  BY DEF OfTypes, Log
<1>2. \A k \in Kind, a \in Age :
          OfTypes(l, types)[k][a] = IF TypeOf[k] \in types THEN l[k][a] ELSE 0
  BY DEF OfTypes
<1>3. OfTypes(Aged(l), types) = Aged(OfTypes(l, types))
  <2>1. ASSUME NEW k \in Kind, TypeOf[k] \in types
        PROVE  OfTypes(Aged(l), types)[k] = Aged(OfTypes(l, types))[k]
    BY <2>1 DEF OfTypes, Aged
  <2>2. ASSUME NEW k \in Kind, TypeOf[k] \notin types
        PROVE  OfTypes(Aged(l), types)[k] = Aged(OfTypes(l, types))[k]
    <3>1. OfTypes(l, types)[k] = [a \in Age |-> 0]
      BY <2>2 DEF OfTypes
    <3>2. Aged(OfTypes(l, types))[k] = [a \in Age |-> IF a = 0 THEN 0 ELSE [b \in Age |-> 0][a - 1]]
      BY <3>1 DEF Aged
    <3>3. ASSUME NEW a \in Age
          PROVE  (IF a = 0 THEN 0 ELSE [b \in Age |-> 0][a - 1]) = 0
      BY DEF Age
    <3>4. [a \in Age |-> IF a = 0 THEN 0 ELSE [b \in Age |-> 0][a - 1]] = [a \in Age |-> 0]
      BY <3>3
    <3> QED BY <2>2, <3>2, <3>4 DEF OfTypes
  <2> QED BY <2>1, <2>2 DEF OfTypes, Aged
<1> QED BY <1>1, <1>2, <1>3

\* A variance that exceeds no limit over 60 * 60: weights between 0 and 120
\* with sum t and sum of squares q.
LEMMA NearWeights ==
    ASSUME NEW n \in Nat, NEW t \in Int, NEW q \in Int, q <= 120 * t,
           NEW limit \in Nat, limit >= 60
    PROVE  ~(q * n - t * t > limit * 8 * 8 * n * n)
<1>1. q * n <= (120 * t) * n
  OBVIOUS
<1>2. (60 * n - t) * (60 * n - t) >= 0
  <2>1. \A x \in Int : x * x >= 0
    OBVIOUS
  <2>2. 60 * n - t \in Int
    OBVIOUS
  <2> QED BY <2>1, <2>2
<1>3. (120 * t) * n - t * t <= 3600 * (n * n)
  BY <1>2
<1>4. limit * 8 * 8 * n * n >= 3840 * (n * n)
  <2>1. n * n \in Nat
    OBVIOUS
  <2>2. limit * 8 * 8 * n * n = (64 * limit) * (n * n)
    OBVIOUS
  <2>3. \A x \in Nat, m \in Nat : m >= 3840 => m * x >= 3840 * x
    OBVIOUS
  <2> QED BY <2>1, <2>2, <2>3
<1>5. n * n \in Nat
  OBVIOUS
<1>6. q * n \in Int /\ (120 * t) * n \in Int /\ t * t \in Int /\ limit * 8 * 8 * n * n \in Int
  OBVIOUS
<1> QED BY <1>1, <1>3, <1>4, <1>5, <1>6

\* Nothing but merits, of whatever kind and age.
MeritsOnly(l) == \A k \in Kind, a \in Age : TypeOf[k] \in Negative => l[k][a] = 0

\* The square of a merit is at most 120 times the merit.
LEMMA SquareOfMerit ==
    ASSUME NEW l \in Log, MeritsOnly(l), NEW k \in Kind
    PROVE  Square(l, k) <= 120 * Weight(l, k)
<1> DEFINE s == 64 * l[k][0] + 16 * l[k][1] + 4 * l[k][2] + l[k][3]
           d == Decayed(l[k])
           b == BaseWeight(k)
<1>1. s \in Nat /\ d \in Nat /\ s <= 8 * d
  BY LogCounts DEF Decayed
<1>2. Square(l, k) = b * b * s /\ Weight(l, k) = b * d
  BY DEF Square, Weight
<1>3. CASE TypeOf[k] \notin Negative
  <2>1. b \in 0..15
    BY <1>3, MeritsAndPenalties
  <2> HIDE DEF s, d, b
  <2>2. b * b <= 15 * b /\ b * b \in Nat /\ 15 * b \in Nat
    BY <2>1
  <2>3. (b * b) * s <= (15 * b) * s
    BY <1>1, <2>2
  <2>4. (15 * b) * s <= (15 * b) * (8 * d)
    BY <1>1, <2>2
  <2>5. (15 * b) * (8 * d) = 120 * (b * d)
    BY <1>1, <2>1
  <2>6. (b * b) * s \in Int /\ (15 * b) * s \in Int /\ (15 * b) * (8 * d) \in Int
    BY <1>1, <2>1, <2>2
  <2> QED BY <1>2, <2>3, <2>4, <2>5, <2>6
<1>4. CASE TypeOf[k] \in Negative
  <2>1. l[k][0] = 0 /\ l[k][1] = 0 /\ l[k][2] = 0 /\ l[k][3] = 0
    BY <1>4 DEF MeritsOnly, Age
  <2>2. s = 0 /\ d = 0
    BY <2>1 DEF Decayed
  <2>3. b \in Int
    BY MeritsAndPenalties
  <2> HIDE DEF s, d, b
  <2>4. b * b * 0 = 0 /\ b * 0 = 0
    BY <2>3
  <2> QED BY <1>2, <2>2, <2>4
<1> QED BY <1>3, <1>4

\* Merits are too close to each other for either limit of the flag.
LEMMA MeritsVaryLittle ==
    ASSUME NEW l \in Log, MeritsOnly(l), NEW limit \in Nat, limit >= 60
    PROVE  ~VarianceExceeds(l, limit)
<1> DEFINE bounds == [k \in Kind |-> 120 * Weights(l)[k]]
<1>1. /\ Weights(l) \in [Kind -> Int]
      /\ Total(l) = OverKinds(Weights(l))
      /\ Total(l) \in Int
  BY TotalIsSum
<1>2. /\ SquareOf(l) \in [Kind -> Int]
      /\ Squares(l) = OverKinds(SquareOf(l))
      /\ Squares(l) \in Int
  BY SquaresIsSum
<1>3. bounds \in [Kind -> Int]
  BY <1>1
<1>4. OverKinds(bounds) = 120 * OverKinds(Weights(l))
  BY <1>1, <1>3, SumOfMultiples
<1>5. \A k \in Kind : SquareOf(l)[k] <= bounds[k]
  BY SquareOfMerit DEF SquareOf, Weights
<1> HIDE DEF bounds
<1>6. OverKinds(SquareOf(l)) <= OverKinds(bounds)
  BY <1>2, <1>3, <1>5, SumIsMonotone
<1>7. Squares(l) <= 120 * Total(l)
  BY <1>1, <1>2, <1>4, <1>6
<1>8. Count(l) \in Nat
  BY CountIsSum
<1>9. ~(Squares(l) * Count(l) - Total(l) * Total(l) > limit * 8 * 8 * Count(l) * Count(l))
  BY <1>1, <1>2, <1>7, <1>8, NearWeights
<1> HIDE DEF Squares, Count, Total
<1> QED BY <1>9 DEF VarianceExceeds, Scale

\* A user with nothing but merits is not flagged.
LEMMA MeritsRaiseNoFlag ==
    ASSUME NEW l \in Log, MeritsOnly(l)
    PROVE  ~Flagged(l)
<1>1. ASSUME NEW t \in Type
      PROVE  ~VarianceExceeds(OfTypes(l, {t}), 200)
  <2>1. OfTypes(l, {t}) \in Log /\ MeritsOnly(OfTypes(l, {t}))
    BY OfTypesIsLog DEF MeritsOnly
  <2> QED BY <2>1, MeritsVaryLittle
<1>2. ~VarianceExceeds(l, 100)
  BY MeritsVaryLittle
<1>3. ~RecentDispute(l)
  <2>1. \A k \in Kind : TypeOf[k] \in Negative => l[k][0] = 0
    BY DEF MeritsOnly, Age
  <2> QED BY <2>1 DEF RecentDispute
<1> QED BY <1>1, <1>2, <1>3 DEF Flagged

\* A half-life leaves the number of events and quarters the squares.
LEMMA AgedSquares ==
    ASSUME NEW l \in Log, \A k \in Kind : l[k][3] = 0
    PROVE  /\ Count(Aged(l)) = Count(l)
           /\ Squares(l) = 4 * Squares(Aged(l))
<1>1. Aged(l) \in Log
  BY AgedLog
<1>2. \A k \in Kind : /\ Aged(l)[k][0] = 0
                     /\ Aged(l)[k][1] = l[k][0]
                     /\ Aged(l)[k][2] = l[k][1]
                     /\ Aged(l)[k][3] = l[k][2]
  BY AgedLog
<1>3. Count(Aged(l)) = Count(l)
  <2>1. \A k \in Kind : Numbers(Aged(l))[k] = Numbers(l)[k]
    BY <1>2, LogCounts DEF Numbers
  <2>2. OverKinds(Numbers(Aged(l))) = OverKinds(Numbers(l))
    BY <2>1, SumOfSame
  <2> QED BY <1>1, <2>2, CountIsSum
<1>4. ASSUME NEW k \in Kind
      PROVE  SquareOf(l)[k] = 4 * SquareOf(Aged(l))[k]
  <2> DEFINE s == 64 * l[k][0] + 16 * l[k][1] + 4 * l[k][2] + l[k][3]
             t == 64 * Aged(l)[k][0] + 16 * Aged(l)[k][1] + 4 * Aged(l)[k][2] + Aged(l)[k][3]
  <2>1. s = 4 * t /\ t \in Int
    BY <1>2, LogCounts
  <2>2. BaseWeight(k) \in Int
    BY MeritsAndPenalties
  <2>3. SquareOf(l)[k] = BaseWeight(k) * BaseWeight(k) * s
    BY DEF SquareOf, Square
  <2>4. SquareOf(Aged(l))[k] = BaseWeight(k) * BaseWeight(k) * t
    BY DEF SquareOf, Square
  <2> HIDE DEF s, t, BaseWeight
  <2>5. BaseWeight(k) * BaseWeight(k) * (4 * t) = 4 * (BaseWeight(k) * BaseWeight(k) * t)
    BY <2>1, <2>2
  <2> QED BY <2>1, <2>3, <2>4, <2>5
<1>5. OverKinds(SquareOf(l)) = 4 * OverKinds(SquareOf(Aged(l)))
  BY <1>1, <1>4, SquaresIsSum, SumOfMultiples
<1> QED BY <1>1, <1>3, <1>5, SquaresIsSum

\* A half-life quarters the variance: what exceeds a limit did before.
LEMMA AgedVariance ==
    ASSUME NEW l \in Log, \A k \in Kind : l[k][3] = 0, NEW limit \in Nat,
           VarianceExceeds(Aged(l), limit)
    PROVE  VarianceExceeds(l, limit)
<1> DEFINE n == Count(l)
           t == Total(Aged(l))
           q == Squares(Aged(l))
<1>1. n \in Nat /\ t \in Int /\ q \in Int
  BY AgedLog, CountIsSum, TotalIsSum, SquaresIsSum
<1>2. Total(l) = 2 * t /\ Squares(l) = 4 * q /\ Count(Aged(l)) = n
  BY AgedTotal, AgedSquares
<1> DEFINE c == limit * Scale * Scale * n * n
<1>3. q * n - t * t > c
  <2> HIDE DEF Squares, Count, Total
  <2> QED BY <1>2 DEF VarianceExceeds
<1>4. c \in Nat
  <2> HIDE DEF n
  <2> QED BY <1>1 DEF Scale
<1>5. (4 * q) * n - (2 * t) * (2 * t) > c
  <2> HIDE DEF n, t, q, c
  <2>1. (4 * q) * n = 4 * (q * n) /\ (2 * t) * (2 * t) = 4 * (t * t)
    BY <1>1
  <2>2. q * n \in Int /\ t * t \in Int
    BY <1>1
  <2> QED BY <1>3, <1>4, <2>1, <2>2
<1> HIDE DEF t, q, Squares, Count, Total
<1> QED BY <1>2, <1>5 DEF VarianceExceeds

\* A half-life flags nobody.
LEMMA AgedFlag ==
    ASSUME NEW l \in Log, \A k \in Kind : l[k][3] = 0, Flagged(Aged(l))
    PROVE  Flagged(l)
<1>1. ~RecentDispute(Aged(l))
  <2>1. \A k \in Kind : ~(Aged(l)[k][0] > 0)
    BY AgedLog
  <2> QED BY <2>1 DEF RecentDispute
<1>2. ASSUME NEW u \in Type, Count(OfTypes(Aged(l), {u})) > 1,
             VarianceExceeds(OfTypes(Aged(l), {u}), 200)
      PROVE  Flagged(l)
  <2> DEFINE own == OfTypes(l, {u})
  <2>1. own \in Log /\ OfTypes(Aged(l), {u}) = Aged(own)
    BY OfTypesIsLog
  <2>2. \A k \in Kind : own[k][3] = 0
    BY OfTypesIsLog DEF Age
  <2>3. VarianceExceeds(Aged(own), 200)
    BY <1>2, <2>1, Zenon
  <2> HIDE DEF own
  <2>4. VarianceExceeds(own, 200)
    BY <2>1, <2>2, <2>3, AgedVariance
  <2>5. Count(own) > 1
    BY <1>2, <2>1, <2>2, AgedSquares
  <2> QED BY <2>4, <2>5 DEF Flagged, own
<1>3. CASE Count(Aged(l)) > 3 /\ VarianceExceeds(Aged(l), 100)
  <2>1. Count(l) > 3 /\ VarianceExceeds(l, 100)
    BY <1>3, AgedSquares, AgedVariance
  <2> QED BY <2>1 DEF Flagged
<1> HIDE DEF RecentDispute, VarianceExceeds, Count, OfTypes
<1> QED BY <1>1, <1>2, <1>3 DEF Flagged

(***************************************************************************)
(* The specification                                                       *)
(***************************************************************************)

\* The score of every log.
LEMMA ScoreOfLog ==
    ASSUME NEW l \in Log
    PROVE  Score(l) \in 0..100
  BY TotalIsSum, ScoreInRange DEF Score

\* A half-life brings the score nearer to neutral.
LEMMA AgedScore ==
    ASSUME NEW l \in Log, \A k \in Kind : l[k][3] = 0
    PROVE  AsExtreme(Score(l), Score(Aged(l)))
<1>1. Total(Aged(l)) \in Int
  BY AgedLog, TotalIsSum
<1> QED BY <1>1, AgedTotal, HalvesAreMilder DEF Score

\* The log stays a log: a new event, or older events.
LEMMA LogStays ==
    ASSUME TypeOK, [Next]_vars
    PROVE  log' \in Log
<1> USE KindsAssumption DEF TypeOK
<1>1. ASSUME NEW k \in Kinds, Record(k)
      PROVE  log' \in Log
  BY <1>1, RecordedTotal DEF Record
<1>2. CASE HalfLife
  BY <1>2, AgedLog DEF HalfLife, Aged
<1>3. CASE RecomputeRead \/ RecomputeWrite \/ UNCHANGED vars
  BY <1>3 DEF RecomputeRead, RecomputeWrite, vars
<1> QED BY <1>1, <1>2, <1>3 DEF Next

\* Every variable keeps its type; the score stays between 0 and 100 for any
\* number of events.
THEOREM TypeCorrect == Spec => []TypeOK
<1>1. Init => TypeOK
  <2> SUFFICES ASSUME Init PROVE TypeOK
    OBVIOUS
  <2>1. NoEvents \in Log
    BY DEF NoEvents, Log
  <2>2. PICK n \in Histories : log = [NoEvents EXCEPT !["ownerCompleted"][0] = n]
    BY DEF Init
  <2>3. log \in Log
    BY <2>1, <2>2, HistoriesAssumption DEF Log, Age, Kind
  <2> QED BY <2>3 DEF Init, TypeOK
<1>2. TypeOK /\ [Next]_vars => TypeOK'
  <2> SUFFICES ASSUME TypeOK, [Next]_vars PROVE TypeOK'
    OBVIOUS
  <2>1. log' \in Log
    BY LogStays
  <2>2. Score(log) \in 0..100
    BY ScoreOfLog DEF TypeOK
  <2> HIDE DEF Score, Log
  <2>3. ASSUME NEW k \in Kinds, Record(k)
        PROVE  TypeOK'
    BY <2>1, <2>3 DEF TypeOK, Record
  <2>4. CASE RecomputeRead
    BY <2>1, <2>2, <2>4 DEF TypeOK, RecomputeRead
  <2>5. CASE RecomputeWrite
    BY <2>1, <2>5 DEF TypeOK, RecomputeWrite
  <2>6. CASE HalfLife
    BY <2>1, <2>6 DEF TypeOK, HalfLife
  <2>7. CASE UNCHANGED vars
    BY <2>1, <2>7 DEF TypeOK, vars
  <2> QED BY <2>3, <2>4, <2>5, <2>6, <2>7 DEF Next
<1> QED BY <1>1, <1>2, PTL DEF Spec

\* What the worker has read is as extreme as the log, too, unless an event was
\* recorded meanwhile.  This makes StaleScoresAreExtreme inductive.
StaleInv ==
    /\ ~uncounted => cached # Null /\ AsExtreme(cached, Score(log))
    /\ computed # Null /\ ~unread => AsExtreme(computed, Score(log))

\* As extreme as something that was as extreme.
LEMMA ExtremesChain ==
    ASSUME NEW r \in 0..100, NEW s \in 0..100, NEW t \in 0..100,
           AsExtreme(r, s), AsExtreme(s, t)
    PROVE  AsExtreme(r, t)
  BY DEF AsExtreme

\* A cached score that counts every event is farther from neutral than a fresh
\* one or as far, however long ago it was computed.
THEOREM StaleExtreme == Spec => []StaleScoresAreExtreme
<1>1. Init => StaleInv
  BY DEF Init, StaleInv
<1>2. TypeOK /\ StaleInv /\ [Next]_vars => StaleInv'
  <2> SUFFICES ASSUME TypeOK, StaleInv, [Next]_vars PROVE StaleInv'
    OBVIOUS
  <2>1. /\ Score(log) \in 0..100
        /\ Score(log') \in 0..100
    BY LogStays, ScoreOfLog DEF TypeOK
  <2>2. Null \notin 0..100
    BY NullIsNoScore
  <2> HIDE DEF Score, Log
  <2>3. ASSUME NEW k \in Kinds, Record(k)
        PROVE  StaleInv'
    BY <2>3 DEF StaleInv, Record
  <2>4. CASE RecomputeRead
    BY <2>1, <2>4 DEF StaleInv, RecomputeRead, AsExtreme
  <2>5. CASE RecomputeWrite
    BY <2>5 DEF StaleInv, RecomputeWrite
  <2>6. CASE HalfLife
    <3>1. AsExtreme(Score(log), Score(log'))
      BY <2>6, AgedScore DEF HalfLife, Aged, TypeOK
    <3>2. cached # Null /\ AsExtreme(cached, Score(log)) => AsExtreme(cached, Score(log'))
      BY <2>1, <3>1, ExtremesChain DEF TypeOK
    <3>3. computed # Null /\ AsExtreme(computed, Score(log))
              => AsExtreme(computed, Score(log'))
      BY <2>1, <3>1, ExtremesChain DEF TypeOK
    <3> QED BY <2>6, <3>2, <3>3 DEF StaleInv, HalfLife
  <2>7. CASE UNCHANGED vars
    BY <2>7 DEF StaleInv, vars
  <2> QED BY <2>3, <2>4, <2>5, <2>6, <2>7 DEF Next
<1>3. StaleInv => StaleScoresAreExtreme
  BY DEF StaleInv, StaleScoresAreExtreme
<1> QED BY <1>1, <1>2, <1>3, TypeCorrect, PTL DEF Spec

\* A dispute or a report takes more than a merit adds, whatever weight was
\* recorded with it and however long the history of the user.
THEOREM DisputesOutweigh == Spec => DisputesOutweighMerits
<1> DEFINE Outweighed ==
      recorded' # recorded =>
          \/ Score(log') - Score(log) \in 0..4
             /\ \E k \in Kind : TypeOf[k] \notin Negative /\ log'[k] # log[k]
          \/ (Score(log) - Score(log') >= 7 \/ Score(log) = 100 \/ Score(log') = 0)
             /\ \E k \in Kind : TypeOf[k] \in Negative /\ log'[k] # log[k]
<1>1. TypeOK /\ [Next]_vars => [Outweighed]_vars
  <2> SUFFICES ASSUME TypeOK, [Next]_vars PROVE Outweighed
    OBVIOUS
  <2>1. ASSUME NEW k \in Kind, Record(k)
        PROVE  Outweighed
    <3>1. /\ Total(log) \in Int
          /\ Total(log') = Total(log) + 8 * BaseWeight(k)
      BY <2>1, RecordedTotal, TotalIsSum DEF Record, TypeOK
    <3>2. log'[k] # log[k]
      <4>1. log'[k][0] = log[k][0] + 1 /\ log[k][0] \in Nat
        BY <2>1, LogCounts DEF Record, TypeOK, Log, Age
      <4> QED BY <4>1
    <3>3. CASE TypeOf[k] \notin Negative
      <4>1. Score(log') - Score(log) \in 0..4
        BY <3>1, <3>3, MeritsAndPenalties, MeritsAddLittle DEF Score
      <4> QED BY <3>2, <3>3, <4>1
    <3>4. CASE TypeOf[k] \in Negative
      <4>1. Score(log) - Score(log') >= 7 \/ Score(log) = 100 \/ Score(log') = 0
        BY <3>1, <3>4, MeritsAndPenalties, PenaltiesTakeMore DEF Score
      <4> QED BY <3>2, <3>4, <4>1
    <3> QED BY <3>3, <3>4
  <2>2. CASE RecomputeRead \/ RecomputeWrite \/ HalfLife \/ UNCHANGED vars
    BY <2>2 DEF RecomputeRead, RecomputeWrite, HalfLife, vars
  <2> QED BY <2>1, <2>2, KindsAssumption DEF Next
<1> QED BY <1>1, TypeCorrect, PTL DEF Spec, DisputesOutweighMerits

\* A user with nothing but merits, however many and however old, is never
\* flagged for review.
THEOREM GoodRecords == Spec => []GoodRecordsAreNotFlagged
<1>1. TypeOK => GoodRecordsAreNotFlagged
  BY MeritsRaiseNoFlag DEF TypeOK, GoodRecordsAreNotFlagged, MeritsOnly
<1> QED BY <1>1, TypeCorrect, PTL

\* Steps that record no event bring every score nearer to neutral, on its side,
\* and flag nobody.
THEOREM TimeOnlyForgives == Spec => TimeForgives
<1> DEFINE Forgiven ==
      recorded' = recorded => /\ AsExtreme(Score(log), Score(log'))
                              /\ Flagged(log') => Flagged(log)
<1>1. TypeOK /\ [Next]_vars => [Forgiven]_vars
  <2> SUFFICES ASSUME TypeOK, [Next]_vars PROVE Forgiven
    OBVIOUS
  <2>1. log \in Log
    BY DEF TypeOK
  <2>2. CASE HalfLife
    <3>1. log' = Aged(log) /\ \A k \in Kind : log[k][3] = 0
      BY <2>2 DEF HalfLife, Aged
    <3>2. AsExtreme(Score(log), Score(Aged(log))) /\ (Flagged(Aged(log)) => Flagged(log))
      BY <2>1, <3>1, AgedScore, AgedFlag
    <3> QED BY <3>1, <3>2
  <2>3. CASE RecomputeRead \/ RecomputeWrite \/ UNCHANGED vars
    <3>1. log' = log
      BY <2>3 DEF RecomputeRead, RecomputeWrite, vars
    <3>2. Score(log) \in 0..100
      BY <2>1, ScoreOfLog
    <3> HIDE DEF Score, Flagged
    <3>3. AsExtreme(Score(log), Score(log))
      BY <3>2 DEF AsExtreme
    <3> QED BY <3>1, <3>3
  <2>4. ASSUME NEW k \in Kinds, Record(k)
        PROVE  recorded' # recorded
    BY <2>4 DEF Record, TypeOK
  <2> QED BY <2>2, <2>3, <2>4 DEF Next
<1> QED BY <1>1, TypeCorrect, PTL DEF Spec, TimeForgives

=============================================================================
