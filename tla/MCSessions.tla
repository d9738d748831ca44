----------------------------- MODULE MCSessions -----------------------------
(* Small instances of Sessions for TLC. *)
EXTENDS Sessions, TLC

CONSTANTS i1, i2, i3, i4, p1, p2, p3, s1, s2, q1, q2

FourRows == {i1, i2, i3, i4}
ThreeResets == {p1, p2, p3}
OneSessionReq == {s1}
TwoSessionReqs == {s1, s2}
OnePasswordReq == {q1}
TwoPasswordReqs == {q1, q2}

NoFaults == {}
DbErrors == {"dbError"}

Symmetry == Permutations(FourRows) \cup Permutations(TwoSessionReqs)

\* Bound: requests about sessions and requests about passwords, which have
\* nothing in common but the clock, come in different behaviours.
OneHalf ==
    \/ resetToken = [i \in Resets |-> NoReset]
    \/ refreshToken = [i \in Rows |-> NoRow] /\ \A r \in SessionReqs : Idle(r)

HalvesSpec == Init /\ [][Next /\ OneRefreshPerRow' /\ OneReset' /\ OneHalf']_vars
=============================================================================
