------------------------------- MODULE MCTrust -------------------------------
(* Small instances of Trust for TLC: one student, one owner. *)
EXTENDS TrustRefinement, FiniteSets, TLC

CONSTANTS s, o, b1, p1, d1, r1, r2

Parties == {s, o}
OneBooking == {b1}
TheReporter == {s}
TheSuspect == {o}
OneReport == {p1}
OneDuplicate == {d1}
OneRequest == {r1}
TwoRequests == {r1, r2}

TheStudent == [b \in {b1} |-> s]
TheOwner == [b \in {b1} |-> o]
\* The listings of d1 belong to two owners, one of whom is also a student.
TheOwners == [d \in {d1} |-> <<o, s>>]

\* The writers of a booking, and the services that queue a job for every event.
ScoredOps == {"confirmBooking", "cancelBooking", "recordOutcome",
              "flagDuplicate", "resolveDuplicateFlag"}
\* With those that do not, or too early, and the reader that writes a score.
AllOps == ScoredOps \cup
          {"createReview", "moderate", "reportFraud", "resolveFraudReport",
           "verifyIdentity", "getTrustScore"}
FraudOps == {"reportFraud", "resolveFraudReport"}

NoFaults == {}
AllFaults == {"crash", "dbError"}

Symmetry == Permutations(TwoRequests)

\* Bound: confirmBooking, which records nothing, has no other request beside it, but its
\* jobs wait with those of later requests.
ConfirmedAlone ==
    \A r, q \in Reqs : call[r].verdict = "BOOKED" => q = r \/ call[q].pc = "idle"

\* The outcomes that are recorded or that a request is about to record.
OutcomesToCome ==
    events[s][<<"COMPLETED", b1>>] + events[s][<<"DISPUTED", b1>>]
        + Cardinality({r \in Reqs : call[r].pc = "writeOutcome"})

\* Bound: a booking that gets two outcomes has no duplicate beside it.
\* Neither bound keeps a request that has started from going on.
FewEvents == ConfirmedAlone /\ (OutcomesToCome > 1 => duplicate[d1] = "NONE")

ConcurrentSpec == Init /\ [][Next /\ FewEvents']_vars /\ Fairness

\* What the behaviours of a small instance are about: one of these at most.
Topics == <<booking[b1] # "HELD", report[p1] # NoReport, duplicate[d1] # "NONE",
            events[o][<<"identity", o>>] > 0>>

\* Bound: one job waits for the worker; the reader that writes a score is asked for the
\* owner's, while the booking is a hold, and has no other request beside it; only the
\* owner is verified; and a report, a duplicate, the verification and a booking that is
\* more than a hold come one without the others.
Small ==
    /\ Len(queue) <= MaxQueue
    /\ \A r, q \in Reqs :
          call[r].pc \in {"inlineRead", "inlineWrite"} =>
              /\ call[r].subject = o
              /\ q = r \/ call[q].pc = "idle"
              /\ booking[b1] = "HELD"
    /\ events[s][<<"identity", s>>] = 0
    /\ \A i, j \in DOMAIN Topics : Topics[i] /\ Topics[j] => i = j

\* The steps between such states in which no report is decided twice at once.
SmallAndSerial == (OneVerdictPerReport /\ Small)'
=============================================================================
