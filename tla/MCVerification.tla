--------------------------- MODULE MCVerification ---------------------------
(* Small instances of Verification for TLC. *)
EXTENDS Verification, TLC

CONSTANTS ann, bob, r1, r2, r3, r4, blank, agency, house

AnnAndBob == {ann, bob}
OwnerRequests == {r1, r2}
AdminRequests == {r3, r4}
Symmetry == Permutations(OwnerRequests) \cup Permutations(AdminRequests)

\* A Page that lacks its proof of license, an agent's and a landlord's.
ThreeContents == {blank, agency, house}
CompleteContents == {agency, house}
TypeOfContents == [c \in ThreeContents |-> IF c = agency THEN "AGENT" ELSE "LANDLORD"]

DbErrors == {"dbError"}

\* Both requests of a side are in flight.
Overlap == \E side \in {OwnerReqs, AdminReqs} : \A r \in side : call[r].pc # "idle"

BobStaysAway ==
    /\ account[bob] = "NONE"
    /\ \A r \in Reqs : call[r].person # bob

\* Everybody is a landlord, and Bob only an onboarded one.
OnlyHouses ==
    /\ \A p \in People :
          /\ account[p] # "AGENT"
          /\ {studentProfile[p].content, providerPage[p].content} \subseteq {house, Null}
    /\ \A r \in Reqs : call[r].content \in {house, Null} /\ call[r].choice # "AGENT"
    /\ studentProfile[bob] = NoRow
    /\ \A r \in Reqs : call[r].person = bob => call[r].pc # "createProfile"

\* Bound: the queue is shorter while requests of one side overlap, or with two
\* people, who then have less to say.
Small ==
    /\ Overlap => Len(submissions) <= 2
    /\ BobStaysAway \/ (OnlyHouses /\ Len(submissions) <= 2)

SmallSpec == Init /\ [][Next /\ OneAtATimeEach' /\ Small']_vars
=============================================================================
