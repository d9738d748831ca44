----------------------------- MODULE TrustScore -----------------------------
(***************************************************************************)
(* computeTrustScore of domain/trust/trust-score.engine.ts, with the       *)
(* weights its callers record, as the events of one user grow old: the     *)
(* arithmetic that module Trust leaves out.                                *)
(*                                                                         *)
(* Time advances by half-lives, at which the decay is a power of two, and  *)
(* weights are kept in eighths (Scale): what is computed is exact.  The    *)
(* reviewer's trust factor is left out, because its only caller passes 1.  *)
(* An event is its kind and its age; the log counts the events of each.    *)
(***************************************************************************)
EXTENDS Integers

CONSTANTS
    Kinds,         \* the kinds of event that may be recorded
    Histories,     \* the numbers of completed bookings a provider may begin with
    MaxEvents,     \* bound on the events recorded after that
    Null

ASSUME HistoriesAssumption == Histories \subseteq Nat
ASSUME NullIsNoScore == Null \notin Int

VARIABLES
    log,           \* log[k][a]: how many events of kind k are a half-lives old
    recorded,      \* how many events were recorded, for the bound
    computed,      \* the score the recompute worker has yet to write, or Null
    cached,        \* users.trust_score, Null before the first recompute
    unread,        \* an event was recorded after the worker's last read
    uncounted      \* an event was recorded after the read behind the cache

vars == <<log, recorded, computed, cached, unread, uncounted>>

\* The bound on the age of an event, in half-lives of 180 days.
Age == 0..3
Scale == 8

\* The events the services record: the type of each and the recorded weight.
\* A review is worth twice its rating; the worst and the best stand for all.
TypeOf ==
    [identity |-> "IDENTITY_VERIFIED",
     studentCompleted |-> "BOOKING_COMPLETED",
     ownerCompleted |-> "BOOKING_COMPLETED",
     reviewWorst |-> "REVIEW_RECEIVED",
     reviewBest |-> "REVIEW_RECEIVED",
     studentDisputed |-> "DISPUTE_RESOLVED_AGAINST",
     ownerDisputed |-> "DISPUTE_RESOLVED_AGAINST",
     reported |-> "FRAUD_REPORT_CONFIRMED",
     reporter |-> "FRAUD_REPORT_CONFIRMED",
     duplicate |-> "FRAUD_REPORT_CONFIRMED"]

RecordedWeight ==
    [identity |-> 15, studentCompleted |-> 5, ownerCompleted |-> 10,
     reviewWorst |-> 2, reviewBest |-> 10, studentDisputed |-> -5,
     ownerDisputed |-> -30, reported |-> -60, reporter |-> -10, duplicate |-> -40]

DefaultWeight ==
    [IDENTITY_VERIFIED |-> 15, BOOKING_COMPLETED |-> 20, REVIEW_RECEIVED |-> 10,
     DISPUTE_RESOLVED_AGAINST |-> -30, FRAUD_REPORT_CONFIRMED |-> -60]

Kind == {"identity", "studentCompleted", "ownerCompleted", "reviewWorst", "reviewBest",
         "studentDisputed", "ownerDisputed", "reported", "reporter", "duplicate"}
Type == {"IDENTITY_VERIFIED", "BOOKING_COMPLETED", "REVIEW_RECEIVED",
         "DISPUTE_RESOLVED_AGAINST", "FRAUD_REPORT_CONFIRMED"}
Negative == {"DISPUTE_RESOLVED_AGAINST", "FRAUD_REPORT_CONFIRMED"}

ASSUME KindsAssumption == Kinds \subseteq Kind

Log == [Kind -> [Age -> Nat]]

-----------------------------------------------------------------------------
(* The score                                                               *)

\* Fault: every recorded weight counts as it is.
BaseWeightAsRecorded(k) == RecordedWeight[k]

\* A weight that is not positive is replaced by the default of its type.
BaseWeight(k) ==
    IF RecordedWeight[k] > 0 THEN RecordedWeight[k] ELSE DefaultWeight[TypeOf[k]]

\* Fault: an event of this very moment does not count yet.
DecayedLate(ages) == 4 * ages[1] + 2 * ages[2] + ages[3]

\* How much the events of one kind count, in eighths of one recent event.
Decayed(ages) == 8 * ages[0] + 4 * ages[1] + 2 * ages[2] + ages[3]

\* Fault: the default replaces what is left of the weight, and so does not decay.
WeightReplacedLate(l, k) ==
    IF RecordedWeight[k] > 0 THEN BaseWeight(k) * Decayed(l[k])
    ELSE BaseWeight(k) * 8 * (l[k][0] + l[k][1] + l[k][2] + l[k][3])

Weight(l, k) == BaseWeight(k) * Decayed(l[k])

\* A sum over the kinds.
OverKinds(f) ==
      f["identity"]
    + f["studentCompleted"] + f["ownerCompleted"]
    + f["reviewWorst"]      + f["reviewBest"]
    + f["studentDisputed"]  + f["ownerDisputed"]
    + f["reported"] + f["reporter"] + f["duplicate"]

\* The sum of all effective weights, in units of 1 / Scale.
Total(l) == OverKinds([k \in Kind |-> Weight(l, k)])

\* The score moves by one point for every four of the total, so in sums of
\* weights, of which each is Scale units, by one for every PointScale units.
PointScale == 4 * Scale
Neutral == 50 * PointScale
Top == 100 * PointScale

\* Math.round: to the nearest point, halves upwards.
Rounded(x) == (2 * x + PointScale) \div (2 * PointScale)

\* Fault: the bounds are forgotten.
ScoreOfUnclamped(total) == Rounded(Neutral + total)

ScoreOf(total) ==
    LET x == Neutral + total
    IN  Rounded(IF x < 0 THEN 0 ELSE IF x > Top THEN Top ELSE x)

Score(l) == ScoreOf(Total(l))

-----------------------------------------------------------------------------
(* The flag                                                                *)

\* The events of the given types only.
OfTypes(l, types) ==
    [k \in Kind |-> IF TypeOf[k] \in types THEN l[k] ELSE [a \in Age |-> 0]]

\* The squares of the effective weights of one kind, in units of 1 / Scale^2.
Square(l, k) ==
    BaseWeight(k) * BaseWeight(k) * (64 * l[k][0] + 16 * l[k][1] + 4 * l[k][2] + l[k][3])

Squares(l) == OverKinds([k \in Kind |-> Square(l, k)])
Count(l) == OverKinds([k \in Kind |-> l[k][0] + l[k][1] + l[k][2] + l[k][3]])

\* Fault: the squared distances are summed up and not averaged.
VarianceExceedsUndivided(l, limit) ==
    LET n == Count(l)
    IN  n > 0 /\ Squares(l) * n - Total(l) * Total(l) > limit * Scale * Scale * n

\* The variance, which is (squares / n) - (total / n)^2, multiplied out.
VarianceExceeds(l, limit) ==
    LET n == Count(l)
    IN  Squares(l) * n - Total(l) * Total(l) > limit * Scale * Scale * n * n

\* Less than one half-life ago, that is: it has not passed since.
RecentDispute(l) == \E k \in Kind : TypeOf[k] \in Negative /\ l[k][0] > 0

Flagged(l) ==
    \/ \E t \in Type : Count(OfTypes(l, {t})) > 1 /\ VarianceExceeds(OfTypes(l, {t}), 200)
    \/ Count(l) > 3 /\ VarianceExceeds(l, 100)
    \/ RecentDispute(l)

-----------------------------------------------------------------------------
(* The log, the clock and the cached score                                 *)

NoEvents == [k \in Kind |-> [a \in Age |-> 0]]

TypeOK ==
    /\ log \in Log
    /\ recorded \in Nat
    /\ computed \in 0..100 \cup {Null}
    /\ cached \in 0..100 \cup {Null}
    /\ unread \in BOOLEAN
    /\ uncounted \in BOOLEAN

Init ==
    /\ \E n \in Histories : log = [NoEvents EXCEPT !["ownerCompleted"][0] = n]
    /\ recorded = 0
    /\ computed = Null
    /\ cached = Null
    /\ unread = TRUE
    /\ uncounted = TRUE

Record(k) ==
    /\ recorded < MaxEvents
    /\ log' = [log EXCEPT ![k][0] = @ + 1]
    /\ recorded' = recorded + 1
    /\ unread' = TRUE
    /\ uncounted' = TRUE
    /\ UNCHANGED <<computed, cached>>

\* A job of the worker may come at any time: confirmBooking adds jobs, too,
\* and records nothing.  It reads the log and computes.
RecomputeRead ==
    /\ computed = Null
    /\ computed' = Score(log)
    /\ unread' = FALSE
    /\ UNCHANGED <<log, recorded, cached, uncounted>>

RecomputeWrite ==
    /\ computed # Null
    /\ cached' = computed
    /\ computed' = Null
    /\ uncounted' = unread
    /\ UNCHANGED <<log, recorded, unread>>

\* 180 days pass.  No event gets older than the bound.
HalfLife ==
    /\ \A k \in Kind : log[k][3] = 0
    /\ log' = [k \in Kind |-> [a \in Age |-> IF a = 0 THEN 0 ELSE log[k][a - 1]]]
    /\ UNCHANGED <<recorded, computed, cached, unread, uncounted>>

Next ==
    \/ \E k \in Kinds : Record(k)
    \/ RecomputeRead
    \/ RecomputeWrite
    \/ HalfLife

Spec == Init /\ [][Next]_vars

-----------------------------------------------------------------------------
(* Properties                                                              *)

\* Score s is as far from the neutral 50 as score t or farther, on the same side.
AsExtreme(s, t) == (t > 50 => s >= t) /\ (t < 50 => s <= t)

\* users.trust_score is not recomputed as time passes, only on events.  What it
\* may still promise: as long as it counts every event, a fresh score is not
\* farther from neutral, and on the same side.
StaleScoresAreExtreme == ~uncounted => AsExtreme(cached, Score(log))

\* backend-documentry.md, lines 57-58: "high variance in event weights triggers
\* flaggedForReview".  A user with nothing but merits, of whatever kind and age,
\* is not flagged: the weights of merits are too close to each other.
GoodRecordsAreNotFlagged ==
    (\A k \in Kind, a \in Age : TypeOf[k] \in Negative => log[k][a] = 0) => ~Flagged(log)

\* Lines 56 and 59: time alone brings a score nearer to neutral and flags nobody.
TimeForgives ==
    [][recorded' = recorded => /\ AsExtreme(Score(log), Score(log'))
                               /\ Flagged(log') => Flagged(log)]_vars

\* Line 59: "disputes against an agent subtract more than positive events add".
\* A merit adds at most four points; a dispute or a report, whichever weight was
\* recorded with it, takes at least seven, unless the score is at a bound.
DisputesOutweighMerits ==
    [][recorded' # recorded =>
          \/ Score(log') - Score(log) \in 0..4
             /\ \E k \in Kind : TypeOf[k] \notin Negative /\ log'[k] # log[k]
          \/ (Score(log) - Score(log') >= 7 \/ Score(log) = 100 \/ Score(log') = 0)
             /\ \E k \in Kind : TypeOf[k] \in Negative /\ log'[k] # log[k]]_vars
=============================================================================
