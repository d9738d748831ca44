--------------------------- MODULE SessionsProofs ---------------------------
(***************************************************************************)
(* Proofs about Sessions, for any number of rows, tokens and requests, any *)
(* times to live and any faults.                                           *)
(***************************************************************************)
EXTENDS Sessions, FiniteSetTheorems, TLAPS

-----------------------------------------------------------------------------
(* Type correctness                                                        *)

Calls == [Reqs -> Request \cup {IdleCall}]

\* What a request may remember, by the await it is at.
LEMMA CallAt ==
    ASSUME TypeOK, NEW r \in Reqs
    PROVE  /\ call[r].pc = "revoke" => call[r].row \in Rows
           /\ call[r].pc \in {"issue", "store"} => call[r].row \in Rows \cup {Null}
           /\ call[r].pc = "store" => call[r].token \in Nat
           /\ call[r].pc \in {"addMail", "resetPassword"} => call[r].row \in Resets
           /\ call[r].pc \in {"idle", "revoke", "issue", "store", "addMail", "resetPassword"}
           /\ call[r].pc = "idle" => Idle(r)
<1>1. call[r] \in Request \cup {IdleCall}
  BY DEF TypeOK
<1>2. CASE call[r] \in Request
  BY <1>2 DEF Request, Second
<1>3. CASE call[r] = IdleCall
  BY <1>3 DEF IdleCall, Idle
<1>4. QED
  BY <1>1, <1>2, <1>3

LEMMA DoneType ==
    ASSUME TypeOK, NEW r \in Reqs, Done(r)
    PROVE  /\ call' \in Calls
           /\ call'[r] = IdleCall
           /\ \A q \in Reqs : q # r => call'[q] = call[q]
BY DEF TypeOK, Done, Calls

LEMMA GoToType ==
    ASSUME TypeOK, NEW r \in Reqs, NEW pc, NEW row, NEW token, GoTo(r, pc, row, token),
           [pc |-> pc, row |-> row, token |-> token] \in Request
    PROVE  /\ call' \in Calls
           /\ call'[r] = [pc |-> pc, row |-> row, token |-> token]
           /\ \A q \in Reqs : q # r => call'[q] = call[q]
BY DEF TypeOK, GoTo, Calls

\* The row a request is about to revoke exists: no row is ever deleted.
RowsExist == \A r \in Reqs : call[r].pc = "revoke" => refreshToken[call[r].row] # NoRow

\* What each step of a session request does to the tables and to its caller.
LEMMA RefreshReadEffect ==
    ASSUME TypeOK, NEW r \in SessionReqs, NEW t \in handed, NEW i \in Rows,
           RefreshRead(r, t, i)
    PROVE  call' \in Calls /\ call'[r] = [pc |-> "revoke", row |-> i, token |-> Null]
<1>1. [pc |-> "revoke", row |-> i, token |-> Null] \in Request
  BY DEF Request
<1>2. QED
  BY <1>1, GoToType DEF RefreshRead, Reqs

LEMMA LoginReadEffect ==
    ASSUME TypeOK, NEW r \in SessionReqs, LoginRead(r)
    PROVE  call' \in Calls /\ call'[r] = [pc |-> "issue", row |-> Null, token |-> Null]
<1>1. [pc |-> "issue", row |-> Null, token |-> Null] \in Request
  BY DEF Request
<1>2. QED
  BY <1>1, GoToType DEF LoginRead, Reqs

LEMMA RefreshRevokeEffect ==
    ASSUME TypeOK, NEW r \in SessionReqs, RefreshRevoke(r),
           RowsExist
    PROVE  /\ call' \in Calls
           /\ call'[r] = [pc |-> "issue", row |-> call[r].row, token |-> Null]
           /\ call[r].row \in Rows
           /\ refreshToken[call[r].row] # NoRow
           /\ refreshToken' \in [Rows -> RefreshRow \cup {NoRow}]
           /\ refreshToken[call[r].row].token \in Second
           /\ refreshToken'[call[r].row] =
                 [status |-> "REVOKED", token |-> refreshToken[call[r].row].token]
           /\ refreshToken'[call[r].row].status = "REVOKED"
           /\ refreshToken'[call[r].row].token = refreshToken[call[r].row].token
           /\ \A j \in Rows : j # call[r].row => refreshToken'[j] = refreshToken[j]
<1>1. call[r].row \in Rows
  BY CallAt DEF RefreshRevoke, Reqs
<1>2. [pc |-> "issue", row |-> call[r].row, token |-> Null] \in Request
  BY <1>1 DEF Request
<1>3. call' \in Calls /\ call'[r] = [pc |-> "issue", row |-> call[r].row, token |-> Null]
  BY <1>2, GoToType DEF RefreshRevoke, Reqs
<1>4. refreshToken[call[r].row].token \in Second
  BY <1>1 DEF TypeOK, RefreshRow, RowsExist, RefreshRevoke, Reqs
<1>5. QED
  BY <1>1, <1>3, <1>4 DEF RefreshRevoke, TypeOK, RefreshRow, RowsExist, Reqs

LEMMA IssueEffect ==
    ASSUME TypeOK, NEW r \in SessionReqs, Issue(r)
    PROVE  /\ call' \in Calls
           /\ call'[r] = [pc |-> "store", row |-> call[r].row, token |-> clock]
           /\ call[r].row \in Rows \cup {Null}
<1>1. call[r].row \in Rows \cup {Null}
  BY CallAt DEF Issue, Reqs
<1>2. [pc |-> "store", row |-> call[r].row, token |-> clock] \in Request
  BY <1>1 DEF Request, TypeOK
<1>3. QED
  BY <1>1, <1>2, GoToType DEF Issue, Reqs

LEMMA StoreEffect ==
    ASSUME TypeOK, NEW r \in SessionReqs, NEW i \in Rows, Store(r, i)
    PROVE  /\ call' \in Calls
           /\ call'[r] = IdleCall
           /\ call[r].token \in Nat
           /\ call[r].row \in Rows \cup {Null}
           /\ refreshToken' \in [Rows -> RefreshRow \cup {NoRow}]
           /\ refreshToken'[i] = [status |-> "VALID", token |-> call[r].token]
           /\ \A j \in Rows : j # i => refreshToken'[j] = refreshToken[j]
           /\ logins' \in Nat
<1>1. call[r].token \in Nat /\ call[r].row \in Rows \cup {Null}
  BY CallAt DEF Store, Reqs
<1>2. call' \in Calls /\ call'[r] = IdleCall
  BY DoneType DEF Store, Reqs
<1>3. QED
  BY <1>1, <1>2 DEF Store, TypeOK, RefreshRow, Second

LEMMA LogoutType ==
    ASSUME TypeOK, NEW r \in SessionReqs, NEW t \in handed, Logout(r, t)
    PROVE  /\ refreshToken' \in [Rows -> RefreshRow \cup {NoRow}]
           /\ loggedOut' \subseteq Second
<1>1. t \in Second
  BY DEF TypeOK
<1>2. refreshToken' \in [Rows -> RefreshRow \cup {NoRow}]
  BY <1>1 DEF Logout, TypeOK, RefreshRow
<1>3. loggedOut' \subseteq Second
  BY <1>1 DEF Logout, TypeOK
<1>4. QED
  BY <1>2, <1>3

LEMMA ForgotCreateEffect ==
    ASSUME TypeOK, NEW r \in PasswordReqs, NEW i \in Resets, ForgotCreate(r, i)
    PROVE  /\ call' \in Calls
           /\ call'[r].pc = "addMail"
           /\ resetToken' \in [Resets -> ResetRow \cup {NoReset}]
           /\ resetToken'[i].after = resets
           /\ \A j \in Resets : j # i => resetToken'[j] = resetToken[j]
<1>1. [pc |-> "addMail", row |-> i, token |-> Null] \in Request
  BY DEF Request
<1>2. call' \in Calls /\ call'[r].pc = "addMail"
  BY <1>1, GoToType DEF ForgotCreate, Reqs
<1>3. [status |-> "STORED", expiresAt |-> clock + PASSWORD_RESET_TTL, after |-> resets]
          \in ResetRow
  BY TtlAssumption DEF ResetRow, TypeOK, Second
<1>4. QED
  BY <1>2, <1>3 DEF ForgotCreate, TypeOK

LEMMA ResetReadEffect ==
    ASSUME TypeOK, NEW r \in PasswordReqs, NEW i \in Resets, ResetRead(r, i)
    PROVE  call' \in Calls /\ call'[r] = [pc |-> "resetPassword", row |-> i, token |-> Null]
<1>1. [pc |-> "resetPassword", row |-> i, token |-> Null] \in Request
  BY DEF Request
<1>2. QED
  BY <1>1, GoToType DEF ResetRead, Reqs

LEMMA ResetWriteEffect ==
    ASSUME TypeOK, NEW r \in PasswordReqs, ResetWrite(r)
    PROVE  /\ call' \in Calls
           /\ call'[r] = IdleCall
           /\ resetToken' \in [Resets -> ResetRow \cup {NoReset}]
           /\ \A i \in Resets : resetToken'[i].status # "STORED"
           /\ resets' \in Nat
<1>1. call' \in Calls /\ call'[r] = IdleCall
  BY DoneType DEF ResetWrite, Reqs
<1>2. resetToken' = [i \in Resets |->
          IF resetToken[i].status = "STORED"
          THEN [resetToken[i] EXCEPT !.status = "DELETED"] ELSE resetToken[i]]
  BY DEF ResetWrite
<1>3. ASSUME NEW i \in Resets, resetToken[i].status = "STORED"
      PROVE  /\ [resetToken[i] EXCEPT !.status = "DELETED"] \in ResetRow
             /\ [resetToken[i] EXCEPT !.status = "DELETED"].status = "DELETED"
  <2>1. resetToken[i] \in ResetRow
    BY <1>3 DEF TypeOK, NoReset
  <2>2. QED
    BY <2>1 DEF ResetRow
<1>4. resetToken' \in [Resets -> ResetRow \cup {NoReset}]
  BY <1>2, <1>3 DEF TypeOK
<1>5. \A i \in Resets : resetToken'[i].status # "STORED"
  BY <1>2, <1>3
<1>6. QED
  BY <1>1, <1>4, <1>5 DEF ResetWrite, TypeOK

-----------------------------------------------------------------------------
LEMMA InitTyped == Init => TypeOK /\ RowsExist
<1> SUFFICES ASSUME Init
             PROVE  TypeOK /\ RowsExist
  OBVIOUS
<1>1. signedNow \in BOOLEAN
  BY Zenon DEF Init
<1>2. QED
  BY <1>1 DEF Init, TypeOK, RowsExist, Second, IdleCall

\* One step per action.
LEMMA TypeStep ==
    ASSUME TypeOK, RowsExist, Next
    PROVE  TypeOK'
<1>1. ASSUME NEW r \in SessionReqs, LoginRead(r)
      PROVE  TypeOK'
  BY <1>1, LoginReadEffect DEF LoginRead, TypeOK, Calls, sessionVars, history, resetVars
<1>2. ASSUME NEW r \in SessionReqs, NEW t \in handed, NEW i \in Rows, RefreshRead(r, t, i)
      PROVE  TypeOK'
  BY <1>2, RefreshReadEffect DEF RefreshRead, TypeOK, Calls, sessionVars, history, resetVars
<1>3. ASSUME NEW r \in SessionReqs, NEW t \in handed, Logout(r, t)
      PROVE  TypeOK'
  BY <1>3, LogoutType DEF Logout, TypeOK, resetVars
<1>4. ASSUME NEW r \in SessionReqs, RefreshRevoke(r)
      PROVE  TypeOK'
  <2>1. /\ call' \in Calls /\ refreshToken[call[r].row].token \in Second
        /\ refreshToken' \in [Rows -> RefreshRow \cup {NoRow}]
    BY <1>4, RefreshRevokeEffect
  <2>2. exchanged' \subseteq Second
    BY <1>4, <2>1 DEF RefreshRevoke, TypeOK
  <2>3. UNCHANGED <<clock, handed, logins, loggedOut, signedNow, signedTwice, resetVars>>
    BY <1>4 DEF RefreshRevoke
  <2>4. QED
    BY <2>1, <2>2, <2>3 DEF TypeOK, Calls, resetVars
<1>5. ASSUME NEW r \in SessionReqs, Issue(r)
      PROVE  TypeOK'
  <2>1. call' \in Calls
    BY <1>5, IssueEffect
  <2>2. signedNow' \in BOOLEAN
    BY <1>5, Zenon DEF Issue, Signed
  <2>3. signedTwice' \subseteq Second
    BY <1>5 DEF Issue, Signed, TypeOK
  <2>4. UNCHANGED <<clock, refreshToken, handed, logins, exchanged, loggedOut, resetVars>>
    BY <1>5 DEF Issue
  <2>5. QED
    BY <2>1, <2>2, <2>3, <2>4 DEF TypeOK, Calls, resetVars
<1>6. ASSUME NEW r \in SessionReqs, NEW i \in Rows, Store(r, i)
      PROVE  TypeOK'
  <2>1. /\ call' \in Calls /\ logins' \in Nat /\ call[r].token \in Second
        /\ refreshToken' \in [Rows -> RefreshRow \cup {NoRow}]
    BY <1>6, StoreEffect DEF Second
  <2>2. handed' \subseteq Second /\ UNCHANGED <<clock, history, resetVars>>
    BY <1>6, <2>1 DEF Store, TypeOK
  <2>3. QED
    BY <2>1, <2>2 DEF TypeOK, Calls, history, resetVars
<1>7. ASSUME NEW r \in PasswordReqs, NEW i \in Resets, ForgotCreate(r, i)
      PROVE  TypeOK'
  BY <1>7, ForgotCreateEffect DEF ForgotCreate, TypeOK, Calls, sessionVars, history
<1>8. ASSUME NEW r \in PasswordReqs, NEW i \in Resets, ResetRead(r, i)
      PROVE  TypeOK'
  BY <1>8, ResetReadEffect DEF ResetRead, TypeOK, Calls, sessionVars, history, resetVars
<1>9. ASSUME NEW r \in PasswordReqs, ForgotMail(r)
      PROVE  TypeOK'
  <2>1. r \in Reqs /\ call[r].row \in Resets
    BY <1>9, CallAt DEF ForgotMail, Reqs
  <2>2. call' \in Calls
    BY <1>9, <2>1, DoneType DEF ForgotMail
  <2>3. [reset |-> call[r].row, type |-> Null] \in Job
    BY <2>1 DEF Job
  <2>4. QED
    BY <1>9, <2>2, <2>3 DEF ForgotMail, TypeOK, Calls, sessionVars, history
<1>10. ASSUME NEW r \in PasswordReqs, ResetWrite(r)
       PROVE  TypeOK'
  BY <1>10, ResetWriteEffect DEF ResetWrite, TypeOK, Calls, sessionVars, history
<1>11. ASSUME NEW r \in Reqs, CallFails(r)
       PROVE  TypeOK'
  BY <1>11, DoneType DEF CallFails, TypeOK, Calls, sessionVars, history, resetVars
<1>12. ASSUME NEW j \in Job, EmailJob(j)
       PROVE  TypeOK'
  <2>1. j.reset \in Resets
    BY DEF Job
  <2>2. mailed' \subseteq Resets /\ emailQueue' \subseteq Job
    BY <1>12, <2>1 DEF EmailJob, TypeOK
  <2>3. UNCHANGED <<clock, sessionVars, resetToken, resets, call>>
    BY <1>12 DEF EmailJob
  <2>4. QED
    BY <2>2, <2>3 DEF TypeOK, sessionVars, history
<1>13. ASSUME Tick
       PROVE  TypeOK'
  <2>1. clock' \in Second
    BY <1>13 DEF Tick, TypeOK, Second
  <2>2. signedNow' \in BOOLEAN
    BY <1>13, Zenon DEF Tick
  <2>3. UNCHANGED <<refreshToken, handed, logins, exchanged, loggedOut, signedTwice>>
    BY <1>13 DEF Tick
  <2>4. UNCHANGED <<resetVars, call>>
    BY <1>13 DEF Tick
  <2>5. QED
    BY <2>1, <2>2, <2>3, <2>4 DEF TypeOK, resetVars
<1>14. QED
  BY <1>1, <1>2, <1>3, <1>4, <1>5, <1>6, <1>7, <1>8, <1>9, <1>10, <1>11, <1>12, <1>13
  DEF Next, SessionCallGoesOn, PasswordCallGoesOn, EmailWorker

\* What any step does to the rows: none disappears, and one that begins to hold
\* a token was stored by a request that had signed it.
LEMMA RowsStep ==
    ASSUME TypeOK, RowsExist, Next, NEW i \in Rows
    PROVE  /\ refreshToken[i] # NoRow => refreshToken'[i] # NoRow
           /\ \/ refreshToken'[i].status # "VALID"
              \/ refreshToken'[i] = refreshToken[i]
              \/ \E r \in Reqs : /\ call[r].pc = "store"
                                 /\ refreshToken'[i].token = call[r].token
<1> DEFINE Shown == /\ refreshToken[i] # NoRow => refreshToken'[i] # NoRow
                    /\ \/ refreshToken'[i].status # "VALID"
                       \/ refreshToken'[i] = refreshToken[i]
                       \/ \E r \in Reqs : /\ call[r].pc = "store"
                                          /\ refreshToken'[i].token = call[r].token
<1>0. NoRow.status = "ABSENT"
  BY DEF NoRow
<1>1. ASSUME NEW r \in SessionReqs, RefreshRevoke(r)
      PROVE  Shown
  <2>1. PICK j \in Rows : j = call[r].row
    BY <1>1, RefreshRevokeEffect
  <2>2. /\ refreshToken'[j].status = "REVOKED"
        /\ \A k \in Rows : k # j => refreshToken'[k] = refreshToken[k]
    BY <1>1, <2>1, RefreshRevokeEffect
  <2>3. CASE i = j
    BY <1>0, <2>2, <2>3
  <2>4. CASE i # j
    BY <2>2, <2>4
  <2>5. QED
    BY <2>3, <2>4
<1>2. ASSUME NEW r \in SessionReqs, NEW j \in Rows, Store(r, j)
      PROVE  Shown
  <2>1. call[r].pc = "store" /\ r \in Reqs
    BY <1>2 DEF Store, Reqs
  <2>2. CASE i = j
    <3>1. refreshToken'[i] = [status |-> "VALID", token |-> call[r].token]
      BY <1>2, <2>2, StoreEffect
    <3>2. refreshToken'[i].status = "VALID" /\ refreshToken'[i].token = call[r].token
      BY <3>1
    <3>3. QED
      BY <1>0, <2>1, <3>2
  <2>3. CASE i # j
    BY <1>2, <2>3, StoreEffect
  <2>4. QED
    BY <2>2, <2>3
<1>3. ASSUME NEW r \in SessionReqs, NEW t \in handed, Logout(r, t)
      PROVE  Shown
  BY <1>0, <1>3 DEF Logout
<1>4. CASE UNCHANGED refreshToken
  BY <1>4
<1>5. QED
  BY <1>1, <1>2, <1>3, <1>4
  DEF Next, SessionCallGoesOn, PasswordCallGoesOn, EmailWorker, sessionVars, history, LoginRead,
      RefreshRead, Issue, ForgotCreate, ResetRead, ForgotMail, ResetWrite, CallFails,
      EmailJob, Tick

\* What any step does to the other requests, and to the clock.
LEMMA CallStep ==
    ASSUME TypeOK, RowsExist, Next, NEW q \in Reqs
    PROVE  \/ call'[q] = call[q]
           \/ call'[q].pc \in {"idle", "issue", "addMail", "resetPassword"}
           \/ call'[q].pc = "store" /\ call'[q].token = clock
           \/ call'[q].pc = "revoke" /\ refreshToken'[call'[q].row] # NoRow
<1>1. IdleCall.pc = "idle"
  BY DEF IdleCall
<1>2. ASSUME NEW r \in SessionReqs, LoginRead(r)
      PROVE  call'[q] = call[q] \/ call'[q].pc = "issue"
  BY <1>2, LoginReadEffect DEF LoginRead, GoTo, Reqs, TypeOK
<1>3. ASSUME NEW r \in SessionReqs, NEW t \in handed, NEW i \in Rows, RefreshRead(r, t, i)
      PROVE  \/ call'[q] = call[q]
             \/ call'[q].pc = "revoke" /\ refreshToken'[call'[q].row] # NoRow
  <2>1. refreshToken'[i] # NoRow
    BY <1>3 DEF RefreshRead, HoldsToken, NoRow, sessionVars, history
  <2>2. QED
    BY <1>3, <2>1, RefreshReadEffect DEF RefreshRead, GoTo, Reqs, TypeOK
<1>4. ASSUME NEW r \in SessionReqs, RefreshRevoke(r)
      PROVE  call'[q] = call[q] \/ call'[q].pc = "issue"
  BY <1>4, RefreshRevokeEffect DEF RefreshRevoke, GoTo, Reqs, TypeOK
<1>5. ASSUME NEW r \in SessionReqs, Issue(r)
      PROVE  call'[q] = call[q] \/ (call'[q].pc = "store" /\ call'[q].token = clock)
  BY <1>5, IssueEffect DEF Issue, GoTo, Reqs, TypeOK
<1>6. ASSUME NEW r \in PasswordReqs, NEW i \in Resets, ForgotCreate(r, i)
      PROVE  call'[q] = call[q] \/ call'[q].pc = "addMail"
  BY <1>6, ForgotCreateEffect DEF ForgotCreate, GoTo, Reqs, TypeOK
<1>7. ASSUME NEW r \in PasswordReqs, NEW i \in Resets, ResetRead(r, i)
      PROVE  call'[q] = call[q] \/ call'[q].pc = "resetPassword"
  BY <1>7, ResetReadEffect DEF ResetRead, GoTo, Reqs, TypeOK
<1>8. ASSUME NEW r \in Reqs, Done(r)
      PROVE  call'[q] = call[q] \/ call'[q].pc = "idle"
  BY <1>1, <1>8, DoneType
<1>9. CASE UNCHANGED call
  BY <1>9
<1>10. QED
  BY <1>2, <1>3, <1>4, <1>5, <1>6, <1>7, <1>8, <1>9
  DEF Next, SessionCallGoesOn, PasswordCallGoesOn, EmailWorker, Store, Logout, ForgotMail,
      ResetWrite, CallFails, EmailJob, Tick, Reqs

LEMMA RowsExistStep ==
    ASSUME TypeOK, RowsExist, Next
    PROVE  RowsExist'
<1> SUFFICES ASSUME NEW q \in Reqs, call'[q].pc = "revoke"
             PROVE  refreshToken'[call'[q].row] # NoRow
  BY DEF RowsExist, Reqs
<1>1. CASE call'[q] = call[q]
  BY <1>1, RowsStep, CallAt DEF RowsExist
<1>2. CASE call'[q] # call[q]
  BY <1>2, CallStep
<1>3. QED
  BY <1>1, <1>2

LEMMA RowsAlwaysExist == Spec => [](TypeOK /\ RowsExist)
<1>1. TypeOK /\ RowsExist /\ [Next]_vars => TypeOK' /\ RowsExist'
  <2> SUFFICES ASSUME TypeOK, RowsExist, [Next]_vars
               PROVE  TypeOK' /\ RowsExist'
    OBVIOUS
  <2>1. CASE Next
    BY <2>1, TypeStep, RowsExistStep
  <2>2. CASE UNCHANGED vars
    BY <2>2 DEF vars, sessionVars, history, resetVars, TypeOK, RowsExist
  <2>3. QED
    BY <2>1, <2>2
<1>2. QED
  BY <1>1, InitTyped, PTL DEF Spec

\* Every record has its shape, in every behaviour.
THEOREM TypeCorrect == Spec => []TypeOK
BY RowsAlwaysExist, PTL

-----------------------------------------------------------------------------
(* Tokens that were logged out                                             *)

LEMMA ClockStep ==
    ASSUME TypeOK, Next
    PROVE  clock' >= clock /\ clock \in Nat /\ clock' \in Nat
<1>1. clock' = clock \/ clock' = clock + 1
  BY DEF Next, SessionCallGoesOn, PasswordCallGoesOn, EmailWorker, LoginRead, RefreshRead,
         RefreshRevoke, Issue, Store, Logout, ForgotCreate, ResetRead, ForgotMail,
         ResetWrite, CallFails, EmailJob, Tick
<1>2. QED
  BY <1>1 DEF TypeOK, Second

\* The token's second is over, no row makes it work and nobody will create one.
Over(t) == t < clock /\ ~AboutToStore(t) /\ \A i \in Rows : ~HoldsToken(i, t)

\* It is over for good: a request that signs a token signs the second the clock
\* shows, which is later, and a row that appears holds a token that was signed.
LEMMA OverStep ==
    ASSUME TypeOK, RowsExist, Next, NEW t \in Nat, Over(t)
    PROVE  Over(t)'
<1>1. t < clock /\ t < clock'
  BY ClockStep DEF Over
<1>2. \A r \in Reqs : call[r].pc = "store" => call[r].token # t
  BY DEF Over, AboutToStore
<1>3. ASSUME NEW i \in Rows, HoldsToken(i, t)'
      PROVE  HoldsToken(i, t)
  <2>1. refreshToken'[i].status = "VALID" /\ refreshToken'[i].token = t
    BY <1>3 DEF HoldsToken
  <2>2. refreshToken'[i] = refreshToken[i]
    BY <1>2, <2>1, RowsStep
  <2>3. QED
    BY <1>3, <2>2 DEF HoldsToken
<1>4. ASSUME NEW q \in Reqs, call'[q].pc = "store"
      PROVE  call'[q].token # t
  <2>1. CASE call'[q] = call[q]
    BY <1>2, <1>4, <2>1
  <2>2. CASE call'[q] # call[q]
    BY <1>1, <1>4, <2>2, CallStep, ClockStep
  <2>3. QED
    BY <2>1, <2>2
<1>5. ~AboutToStore(t)'
  BY <1>4 DEF AboutToStore, Reqs
<1>6. \A i \in Rows : ~HoldsToken(i, t)'
  BY <1>3 DEF Over
<1>7. QED
  BY <1>1, <1>5, <1>6 DEF Over

LogoutInv == \A t \in loggedOut : Over(t)

\* A logout ends the token: it revokes every row that holds it.
LEMMA LogoutEnds ==
    ASSUME TypeOK, NEW r \in SessionReqs, NEW t \in handed, Logout(r, t),
           t < clock, ~AboutToStore(t)
    PROVE  Over(t)'
<1>1. \A i \in Rows : ~HoldsToken(i, t)'
  <2> SUFFICES ASSUME NEW i \in Rows
               PROVE  ~HoldsToken(i, t)'
    OBVIOUS
  <2>1. refreshToken'[i] = IF HoldsToken(i, t) THEN [status |-> "REVOKED", token |-> t]
                                               ELSE refreshToken[i]
    BY DEF Logout
  <2>2. QED
    BY <2>1 DEF HoldsToken
<1>2. clock' = clock /\ ~AboutToStore(t)'
  BY DEF Logout, AboutToStore
<1>3. QED
  BY <1>1, <1>2 DEF Over

LEMMA LogoutStep ==
    ASSUME TypeOK, RowsExist, LogoutInv, Next
    PROVE  LogoutInv'
<1>1. ASSUME NEW t \in loggedOut
      PROVE  Over(t)'
  <2>1. t \in Nat /\ Over(t)
    BY DEF TypeOK, Second, LogoutInv
  <2>2. QED
    BY <2>1, OverStep
<1>2. CASE loggedOut' = loggedOut
  BY <1>1, <1>2 DEF LogoutInv
<1>3. ASSUME NEW r \in SessionReqs, NEW t \in handed, Logout(r, t)
      PROVE  LogoutInv'
  <2>1. CASE t < clock /\ ~AboutToStore(t)
    <3>1. loggedOut' = loggedOut \cup {t} /\ Over(t)'
      BY <1>3, <2>1, LogoutEnds DEF Logout
    <3>2. QED
      BY <1>1, <3>1 DEF LogoutInv
  <2>2. CASE ~(t < clock /\ ~AboutToStore(t))
    BY <1>2, <1>3, <2>2 DEF Logout
  <2>3. QED
    BY <2>1, <2>2
<1>4. QED
  BY <1>2, <1>3
  DEF Next, SessionCallGoesOn, PasswordCallGoesOn, EmailWorker, LoginRead, RefreshRead,
      RefreshRevoke, Issue, Store, ForgotCreate, ResetRead, ForgotMail, ResetWrite,
      CallFails, EmailJob, Tick, sessionVars, history

\* A token that was logged out when its second was over and nobody had it to store
\* never works again, however many rows held it, whatever overlaps and whatever fails.
THEOREM LogoutsAreFinal == Spec => []LoggedOutTokensNeverWork
<1>1. Init => LogoutInv
  BY DEF Init, LogoutInv
<1>2. TypeOK /\ RowsExist /\ LogoutInv /\ [Next]_vars => LogoutInv'
  <2> SUFFICES ASSUME TypeOK, RowsExist, LogoutInv, [Next]_vars
               PROVE  LogoutInv'
    OBVIOUS
  <2>1. CASE Next
    BY <2>1, LogoutStep
  <2>2. CASE UNCHANGED vars
    BY <2>2 DEF vars, sessionVars, history, LogoutInv, Over, AboutToStore, HoldsToken, Reqs
  <2>3. QED
    BY <2>1, <2>2
<1>3. LogoutInv => LoggedOutTokensNeverWork
  BY DEF LogoutInv, Over, LoggedOutTokensNeverWork, Usable
<1>4. QED
  BY <1>1, <1>2, <1>3, RowsAlwaysExist, PTL DEF Spec

-----------------------------------------------------------------------------
(* Tokens that were exchanged                                              *)

Storing(r) == call[r].pc = "store"
Row(i) == refreshToken[i] # NoRow

\* No token is of a later second, and one of this second was signed in it.
SignedBy(t, now, signed) == t \in Nat /\ t <= now /\ (t = now => signed)

\* A token that was signed once is in one row or with one request, and not in both.
TokensInv ==
    /\ \A i \in Rows : Row(i) => SignedBy(refreshToken[i].token, clock, signedNow)
    /\ \A r \in Reqs : Storing(r) => SignedBy(call[r].token, clock, signedNow)
    /\ \A i, j \in Rows :
          i # j /\ Row(i) /\ Row(j) /\ refreshToken[i].token = refreshToken[j].token
          => refreshToken[i].token \in signedTwice
    /\ \A i \in Rows, r \in Reqs :
          Row(i) /\ Storing(r) /\ refreshToken[i].token = call[r].token
          => call[r].token \in signedTwice
    /\ \A q, r \in Reqs :
          q # r /\ Storing(q) /\ Storing(r) /\ call[q].token = call[r].token
          => call[r].token \in signedTwice

\* The row an exchanged token was in stays revoked.
ExchangeInv ==
    \A t \in exchanged : \E i \in Rows : refreshToken[i] = [status |-> "REVOKED", token |-> t]

\* A step that creates no row, signs nothing and leaves every token where it is.
LEMMA TokensStay ==
    ASSUME TypeOK, TokensInv,
           \A i \in Rows : Row(i)' => Row(i) /\ refreshToken'[i].token = refreshToken[i].token,
           \A r \in Reqs : Storing(r)' => Storing(r) /\ call'[r].token = call[r].token,
           signedTwice' = signedTwice,
           \/ clock' = clock /\ signedNow' = signedNow
           \/ clock' = clock + 1
    PROVE  TokensInv'
<1>1. ASSUME NEW t, SignedBy(t, clock, signedNow)
      PROVE  SignedBy(t, clock', signedNow')
  BY <1>1 DEF SignedBy, TypeOK, Second
<1>2. /\ \A i \in Rows : Row(i)' => SignedBy(refreshToken'[i].token, clock', signedNow')
      /\ \A r \in Reqs : Storing(r)' => SignedBy(call'[r].token, clock', signedNow')
  BY <1>1 DEF TokensInv
<1>3. QED
  BY <1>2 DEF TokensInv, SignedBy

LEMMA IssueKeepsTokens ==
    ASSUME TypeOK, TokensInv, NEW r \in SessionReqs, Issue(r)
    PROVE  TokensInv'
<1>1. /\ r \in Reqs /\ clock' = clock /\ refreshToken' = refreshToken /\ signedNow' = TRUE
      /\ signedTwice \subseteq signedTwice'
      /\ signedNow => clock \in signedTwice'
      /\ ~Storing(r) /\ Storing(r)' /\ call'[r].token = clock /\ clock \in Nat
      /\ \A q \in Reqs : q # r => call'[q] = call[q]
  BY IssueEffect DEF Issue, Signed, GoTo, Storing, Reqs, TypeOK, Second
<1>2. ASSUME NEW t, SignedBy(t, clock, signedNow)
      PROVE  SignedBy(t, clock', signedNow') /\ (t = clock => t \in signedTwice')
  BY <1>1, <1>2 DEF SignedBy
<1>3. SignedBy(call'[r].token, clock', signedNow')
  BY <1>1 DEF SignedBy
<1>4. ASSUME NEW i \in Rows, Row(i)'
      PROVE  SignedBy(refreshToken'[i].token, clock', signedNow')
  BY <1>1, <1>2, <1>4 DEF TokensInv, Row
<1>5. ASSUME NEW q \in Reqs, Storing(q)'
      PROVE  SignedBy(call'[q].token, clock', signedNow')
  BY <1>1, <1>2, <1>3, <1>5 DEF TokensInv, Storing
<1>6. ASSUME NEW i \in Rows, NEW j \in Rows, i # j, Row(i)', Row(j)',
             refreshToken'[i].token = refreshToken'[j].token
      PROVE  refreshToken'[i].token \in signedTwice'
  BY <1>1, <1>6 DEF TokensInv, Row
<1>7. ASSUME NEW i \in Rows, NEW q \in Reqs, Row(i)', Storing(q)',
             refreshToken'[i].token = call'[q].token
      PROVE  call'[q].token \in signedTwice'
  BY <1>1, <1>2, <1>7 DEF TokensInv, Row, Storing
<1>8. ASSUME NEW p \in Reqs, NEW q \in Reqs, p # q, Storing(p)', Storing(q)',
             call'[p].token = call'[q].token
      PROVE  call'[q].token \in signedTwice'
  BY <1>1, <1>2, <1>8 DEF TokensInv, Storing
<1>9. QED
  BY <1>4, <1>5, <1>6, <1>7, <1>8 DEF TokensInv, Reqs

LEMMA StoreKeepsTokens ==
    ASSUME TypeOK, TokensInv, NEW r \in SessionReqs, NEW i \in Rows, Store(r, i)
    PROVE  TokensInv'
<1>1. /\ r \in Reqs /\ UNCHANGED <<clock, signedNow, signedTwice>>
      /\ Storing(r) /\ ~Storing(r)'
      /\ refreshToken'[i].token = call[r].token
      /\ \A j \in Rows : j # i => refreshToken'[j] = refreshToken[j]
      /\ \A q \in Reqs : q # r => call'[q] = call[q]
  <2>1. r \in Reqs /\ UNCHANGED <<clock, signedNow, signedTwice>> /\ Storing(r)
    BY DEF Store, Storing, Reqs, history
  <2>2. ~Storing(r)' /\ \A q \in Reqs : q # r => call'[q] = call[q]
    BY <2>1, DoneType DEF Store, Storing, IdleCall
  <2>3. refreshToken'[i] = [status |-> "VALID", token |-> call[r].token]
    BY StoreEffect
  <2>4. \A j \in Rows : j # i => refreshToken'[j] = refreshToken[j]
    BY StoreEffect
  <2>5. QED
    BY <2>1, <2>2, <2>3, <2>4
<1>2. \A t : SignedBy(t, clock', signedNow') <=> SignedBy(t, clock, signedNow)
  BY <1>1 DEF SignedBy
<1>3. ASSUME NEW j \in Rows, Row(j)'
      PROVE  SignedBy(refreshToken'[j].token, clock', signedNow')
  BY <1>1, <1>2, <1>3 DEF TokensInv, Row
<1>4. ASSUME NEW q \in Reqs, Storing(q)'
      PROVE  SignedBy(call'[q].token, clock', signedNow')
  BY <1>1, <1>2, <1>4 DEF TokensInv, Storing
<1>5. ASSUME NEW j \in Rows, NEW k \in Rows, j # k, Row(j)', Row(k)',
             refreshToken'[j].token = refreshToken'[k].token
      PROVE  refreshToken'[j].token \in signedTwice'
  BY <1>1, <1>5 DEF TokensInv, Row
<1>6. ASSUME NEW j \in Rows, NEW q \in Reqs, Row(j)', Storing(q)',
             refreshToken'[j].token = call'[q].token
      PROVE  call'[q].token \in signedTwice'
  BY <1>1, <1>6 DEF TokensInv, Row, Storing
<1>7. ASSUME NEW p \in Reqs, NEW q \in Reqs, p # q, Storing(p)', Storing(q)',
             call'[p].token = call'[q].token
      PROVE  call'[q].token \in signedTwice'
  BY <1>1, <1>7 DEF TokensInv, Storing
<1>8. QED
  BY <1>3, <1>4, <1>5, <1>6, <1>7 DEF TokensInv, Reqs

LEMMA TokensStep ==
    ASSUME TypeOK, RowsExist, TokensInv, Next
    PROVE  TokensInv'
<1>0. IdleCall.pc = "idle"
  BY DEF IdleCall
<1>1. ASSUME NEW r \in Reqs, UNCHANGED <<clock, refreshToken, signedNow, signedTwice>>,
             \A q \in Reqs : q # r => call'[q] = call[q],
             call'[r].pc # "store"
      PROVE  TokensInv'
  <2>1. \A q \in Reqs : Storing(q)' => Storing(q) /\ call'[q].token = call[q].token
    BY <1>1 DEF Storing
  <2>2. \A i \in Rows : Row(i)' => Row(i) /\ refreshToken'[i].token = refreshToken[i].token
    BY <1>1 DEF Row
  <2>3. QED
    BY <1>1, <2>1, <2>2, TokensStay
<1>2. ASSUME NEW r \in SessionReqs, LoginRead(r)
      PROVE  TokensInv'
  BY <1>1, <1>2, LoginReadEffect DEF LoginRead, GoTo, Reqs, TypeOK, sessionVars, history
<1>3. ASSUME NEW r \in SessionReqs, NEW t \in handed, NEW i \in Rows, RefreshRead(r, t, i)
      PROVE  TokensInv'
  BY <1>1, <1>3, RefreshReadEffect DEF RefreshRead, GoTo, Reqs, TypeOK, sessionVars, history
<1>4. ASSUME NEW r \in SessionReqs, RefreshRevoke(r)
      PROVE  TokensInv'
  <2>1. \A q \in Reqs : Storing(q)' => Storing(q) /\ call'[q].token = call[q].token
    BY <1>4, RefreshRevokeEffect DEF RefreshRevoke, GoTo, Reqs, TypeOK, Storing
  <2>2. PICK j \in Rows : j = call[r].row
    BY <1>4, RefreshRevokeEffect
  <2>3. /\ refreshToken[j] # NoRow /\ refreshToken'[j].token = refreshToken[j].token
        /\ \A i \in Rows : i # j => refreshToken'[i] = refreshToken[i]
    BY <1>4, <2>2, RefreshRevokeEffect
  <2>4. \A i \in Rows : Row(i)' => Row(i) /\ refreshToken'[i].token = refreshToken[i].token
    BY <2>3 DEF Row
  <2>5. QED
    BY <1>4, <2>1, <2>4, TokensStay DEF RefreshRevoke
<1>5. ASSUME NEW r \in SessionReqs, NEW t \in handed, Logout(r, t)
      PROVE  TokensInv'
  <2>1. \A i \in Rows : Row(i)' => Row(i) /\ refreshToken'[i].token = refreshToken[i].token
    BY <1>5 DEF Logout, HoldsToken, Row, NoRow
  <2>2. QED
    BY <1>5, <2>1, TokensStay DEF Logout, Storing
<1>6. ASSUME NEW r \in PasswordReqs, NEW i \in Resets, ForgotCreate(r, i)
      PROVE  TokensInv'
  BY <1>1, <1>6, ForgotCreateEffect DEF ForgotCreate, GoTo, Reqs, TypeOK, sessionVars, history
<1>7. ASSUME NEW r \in PasswordReqs, NEW i \in Resets, ResetRead(r, i)
      PROVE  TokensInv'
  BY <1>1, <1>7, ResetReadEffect DEF ResetRead, GoTo, Reqs, TypeOK, sessionVars, history
<1>8. ASSUME NEW r \in Reqs, Done(r), UNCHANGED <<clock, sessionVars>>
      PROVE  TokensInv'
  BY <1>0, <1>1, <1>8, DoneType DEF sessionVars, history
<1>9. ASSUME UNCHANGED <<call, refreshToken, signedTwice>>,
             (clock' = clock /\ signedNow' = signedNow) \/ clock' = clock + 1
      PROVE  TokensInv'
  BY <1>9, TokensStay DEF Row, Storing
<1>10. QED
  BY <1>2, <1>3, <1>4, <1>5, <1>6, <1>7, <1>8, <1>9, IssueKeepsTokens, StoreKeepsTokens
  DEF Next, SessionCallGoesOn, PasswordCallGoesOn, EmailWorker, ForgotMail, ResetWrite,
      CallFails, EmailJob, Tick, Reqs, sessionVars, history

LEMMA ExchangeStep ==
    ASSUME TypeOK, RowsExist, ExchangeInv, Next
    PROVE  ExchangeInv'
<1>1. ASSUME exchanged' = exchanged, NEW t \in exchanged,
             \A i \in Rows : refreshToken[i].status = "REVOKED"
                             => refreshToken'[i] = refreshToken[i]
      PROVE  \E i \in Rows : refreshToken'[i] = [status |-> "REVOKED", token |-> t]
  BY <1>1 DEF ExchangeInv
<1>2. CASE UNCHANGED <<refreshToken, exchanged>>
  BY <1>2 DEF ExchangeInv
<1>3. ASSUME NEW r \in SessionReqs, NEW i \in Rows, Store(r, i)
      PROVE  ExchangeInv'
  <2>1. \A j \in Rows : refreshToken[j].status = "REVOKED" => refreshToken'[j] = refreshToken[j]
    BY <1>3, StoreEffect DEF Store, NoRow
  <2>2. exchanged' = exchanged
    BY <1>3 DEF Store, history
  <2>3. QED
    BY <1>1, <2>1, <2>2 DEF ExchangeInv
<1>4. ASSUME NEW r \in SessionReqs, NEW t \in handed, Logout(r, t)
      PROVE  ExchangeInv'
  <2>1. \A j \in Rows : refreshToken[j].status = "REVOKED" => refreshToken'[j] = refreshToken[j]
    BY <1>4 DEF Logout, HoldsToken
  <2>2. exchanged' = exchanged
    BY <1>4 DEF Logout
  <2>3. QED
    BY <1>1, <2>1, <2>2 DEF ExchangeInv
<1>5. ASSUME NEW r \in SessionReqs, RefreshRevoke(r)
      PROVE  ExchangeInv'
  <2>1. PICK i \in Rows : i = call[r].row
    BY <1>5, RefreshRevokeEffect
  <2>2. /\ refreshToken'[i] = [status |-> "REVOKED", token |-> refreshToken[i].token]
        /\ \A j \in Rows : j # i => refreshToken'[j] = refreshToken[j]
        /\ exchanged' = exchanged \cup {refreshToken[i].token}
    BY <1>5, <2>1, RefreshRevokeEffect DEF RefreshRevoke
  <2>3. ASSUME NEW t \in exchanged
        PROVE  \E j \in Rows : refreshToken'[j] = [status |-> "REVOKED", token |-> t]
    <3>1. PICK j \in Rows : refreshToken[j] = [status |-> "REVOKED", token |-> t]
      BY DEF ExchangeInv
    <3>2. refreshToken[j].token = t
      BY <3>1
    <3>3. refreshToken'[j] = [status |-> "REVOKED", token |-> t]
      BY <2>2, <3>1, <3>2
    <3>4. QED
      BY <3>3
  <2>4. QED
    BY <2>2, <2>3 DEF ExchangeInv
<1>6. QED
  BY <1>2, <1>3, <1>4, <1>5
  DEF Next, SessionCallGoesOn, PasswordCallGoesOn, EmailWorker, LoginRead, RefreshRead, Issue,
      ForgotCreate, ResetRead, ForgotMail, ResetWrite, CallFails, EmailJob, Tick,
      sessionVars, history

\* An exchanged token works again for one reason only: it was signed once more in
\* its second.  Whatever overlaps, two refreshes of one row among it.
THEOREM ExchangesEndTokens == Spec => []ExchangedTokensWorkOnlyIfSignedTwice
<1>1. Init => TokensInv /\ ExchangeInv
  BY DEF Init, TokensInv, ExchangeInv, Row, Storing, IdleCall
<1>2. TypeOK /\ RowsExist /\ TokensInv /\ ExchangeInv /\ [Next]_vars
      => TokensInv' /\ ExchangeInv'
  <2> SUFFICES ASSUME TypeOK, RowsExist, TokensInv, ExchangeInv, [Next]_vars
               PROVE  TokensInv' /\ ExchangeInv'
    OBVIOUS
  <2>1. CASE Next
    BY <2>1, TokensStep, ExchangeStep
  <2>2. CASE UNCHANGED vars
    BY <2>2 DEF vars, sessionVars, history, TokensInv, ExchangeInv, Row, Storing, SignedBy,
                Reqs
  <2>3. QED
    BY <2>1, <2>2
<1>3. TokensInv /\ ExchangeInv => ExchangedTokensWorkOnlyIfSignedTwice
  <2> SUFFICES ASSUME TokensInv, ExchangeInv, NEW t \in exchanged, NEW j \in Rows,
                      HoldsToken(j, t)
               PROVE  t \in signedTwice
    BY DEF ExchangedTokensWorkOnlyIfSignedTwice, Usable
  <2>1. PICK i \in Rows : refreshToken[i] = [status |-> "REVOKED", token |-> t]
    BY DEF ExchangeInv
  <2>2. /\ refreshToken[i].status = "REVOKED" /\ refreshToken[i].token = t
        /\ refreshToken[j].status = "VALID" /\ refreshToken[j].token = t
    BY <2>1 DEF HoldsToken
  <2>3. i # j /\ Row(i) /\ Row(j)
    BY <2>2 DEF Row, NoRow
  <2>4. QED
    BY <2>2, <2>3 DEF TokensInv
<1>4. QED
  BY <1>1, <1>2, <1>3, RowsAlwaysExist, PTL DEF Spec

-----------------------------------------------------------------------------
(* Resets, as long as no two of them overlap                               *)

\* Only requests about passwords come to write a reset.
ResetsInv ==
    /\ ResetsEndEarlierTokens
    /\ \A r \in SessionReqs : call[r].pc # "resetPassword"

LEMMA ResetsStep ==
    ASSUME TypeOK, RowsExist, ResetsInv, OneReset, Next
    PROVE  ResetsInv'
<1>0. /\ NoReset.status = "ABSENT" /\ IdleCall.pc = "idle"
      /\ SessionReqs \cap PasswordReqs = {} /\ Reqs = SessionReqs \cup PasswordReqs
  BY ReqsAssumption DEF NoReset, IdleCall, Reqs
<1>1. ASSUME UNCHANGED <<resetToken, resets>>,
             \A q \in Reqs : call'[q].pc = "resetPassword" => call'[q] = call[q]
      PROVE  ResetsInv'
  BY <1>0, <1>1 DEF ResetsInv, ResetsEndEarlierTokens
<1>2. ASSUME NEW r \in SessionReqs, LoginRead(r)
      PROVE  ResetsInv'
  <2>1. \A q \in Reqs : call'[q].pc = "resetPassword" => call'[q] = call[q]
    BY <1>2, LoginReadEffect DEF LoginRead, GoTo, Reqs, TypeOK
  <2>2. QED
    BY <1>1, <1>2, <2>1 DEF LoginRead, resetVars
<1>3. ASSUME NEW r \in SessionReqs, NEW t \in handed, NEW i \in Rows, RefreshRead(r, t, i)
      PROVE  ResetsInv'
  <2>1. \A q \in Reqs : call'[q].pc = "resetPassword" => call'[q] = call[q]
    BY <1>3, RefreshReadEffect DEF RefreshRead, GoTo, Reqs, TypeOK
  <2>2. QED
    BY <1>1, <1>3, <2>1 DEF RefreshRead, resetVars
<1>4. ASSUME NEW r \in SessionReqs, RefreshRevoke(r)
      PROVE  ResetsInv'
  <2>1. \A q \in Reqs : call'[q].pc = "resetPassword" => call'[q] = call[q]
    BY <1>4, RefreshRevokeEffect DEF RefreshRevoke, GoTo, Reqs, TypeOK
  <2>2. QED
    BY <1>1, <1>4, <2>1 DEF RefreshRevoke, resetVars
<1>5. ASSUME NEW r \in SessionReqs, Issue(r)
      PROVE  ResetsInv'
  <2>1. \A q \in Reqs : call'[q].pc = "resetPassword" => call'[q] = call[q]
    BY <1>5, IssueEffect DEF Issue, GoTo, Reqs, TypeOK
  <2>2. QED
    BY <1>1, <1>5, <2>1 DEF Issue, resetVars
<1>6. ASSUME NEW r \in Reqs, Done(r), UNCHANGED <<resetToken, resets>>
      PROVE  ResetsInv'
  <2>1. \A q \in Reqs : call'[q].pc = "resetPassword" => call'[q] = call[q]
    BY <1>0, <1>6, DoneType
  <2>2. QED
    BY <1>1, <1>6, <2>1
<1>7. CASE UNCHANGED <<call, resetToken, resets>>
  BY <1>1, <1>7
<1>8. ASSUME NEW r \in PasswordReqs, NEW i \in Resets, ForgotCreate(r, i)
      PROVE  ResetsInv'
  <2>1. /\ \A q \in Reqs : call'[q].pc = "resetPassword" => call'[q] = call[q]
        /\ resets' = resets /\ resetToken'[i].after = resets
        /\ \A j \in Resets : j # i => resetToken'[j] = resetToken[j]
    BY <1>8, ForgotCreateEffect DEF ForgotCreate, GoTo, Reqs, TypeOK
  <2>2. \A q \in Reqs : call[q].pc = "resetPassword" => call[q].row \in Resets
    BY CallAt
  <2>3. QED
    BY <1>0, <2>1, <2>2 DEF ResetsInv, ResetsEndEarlierTokens
<1>9. ASSUME NEW r \in PasswordReqs, NEW i \in Resets, ResetRead(r, i)
      PROVE  ResetsInv'
  <2>1. /\ \A q \in Reqs : call'[q].pc = "resetPassword" =>
                               \/ call'[q] = call[q]
                               \/ q = r /\ call'[q].row = i
        /\ \A q \in SessionReqs : call'[q] = call[q]
        /\ resets' = resets /\ resetToken' = resetToken
        /\ resetToken[i].status = "STORED"
    BY <1>0, <1>9, ResetReadEffect DEF ResetRead, GoTo, TypeOK, resetVars
  <2>2. QED
    BY <1>0, <2>1 DEF ResetsInv, ResetsEndEarlierTokens
<1>10. ASSUME NEW r \in PasswordReqs, ResetWrite(r)
       PROVE  ResetsInv'
  <2>1. /\ \A i \in Resets : resetToken'[i].status # "STORED"
        /\ call'[r] = IdleCall
        /\ \A q \in Reqs : q # r => call'[q] = call[q]
    BY <1>0, <1>10, ResetWriteEffect, DoneType DEF ResetWrite
  <2>2. \A q \in PasswordReqs : q # r => call[q].pc # "resetPassword"
    BY <1>10 DEF OneReset, ResetWrite
  <2>3. \A q \in Reqs : call'[q].pc # "resetPassword"
    BY <1>0, <2>1, <2>2 DEF ResetsInv
  <2>4. QED
    BY <1>0, <2>1, <2>3 DEF ResetsInv, ResetsEndEarlierTokens
<1>11. QED
  BY <1>2, <1>3, <1>4, <1>5, <1>6, <1>7, <1>8, <1>9, <1>10
  DEF Next, SessionCallGoesOn, PasswordCallGoesOn, EmailWorker, Store, Logout, ForgotMail,
      CallFails, EmailJob, Tick, Reqs, resetVars

\* As long as no two resets overlap: after a reset no earlier token resets the
\* password again, whatever is asked for meanwhile and whatever fails.
THEOREM ResetsEnd == Spec /\ []OneReset => []ResetsEndEarlierTokens
<1>1. Init => ResetsInv
  BY DEF Init, ResetsInv, ResetsEndEarlierTokens, NoReset, IdleCall, Reqs
<1>2. TypeOK /\ RowsExist /\ ResetsInv /\ OneReset /\ [Next]_vars => ResetsInv'
  <2> SUFFICES ASSUME TypeOK, RowsExist, ResetsInv, OneReset, [Next]_vars
               PROVE  ResetsInv'
    OBVIOUS
  <2>1. CASE Next
    BY <2>1, ResetsStep
  <2>2. CASE UNCHANGED vars
    BY <2>2 DEF vars, resetVars, ResetsInv, ResetsEndEarlierTokens
  <2>3. QED
    BY <2>1, <2>2
<1>3. ResetsInv => ResetsEndEarlierTokens
  BY DEF ResetsInv
<1>4. QED
  BY <1>1, <1>2, <1>3, RowsAlwaysExist, PTL DEF Spec

-----------------------------------------------------------------------------
(* Sessions, as long as no two refreshes exchange one row                  *)

\* The rows that can be refreshed or are being exchanged, and the refreshes that
\* have revoked a row and still owe the account one.
Held ==
    {i \in Rows : \/ refreshToken[i].status = "VALID"
                  \/ \E r \in SessionReqs : call[r].pc = "revoke" /\ call[r].row = i}

Owing == {r \in SessionReqs : call[r].pc \in {"issue", "store"} /\ call[r].row # Null}

\* What is held and what is owed goes back to a login each.
SessionsInv ==
    /\ IsFiniteSet(Owing)
    /\ Cardinality(Held) + Cardinality(Owing) <= logins

LEMMA HeldIsFinite == IsFiniteSet(Held) /\ Cardinality(Held) \in Nat
<1>1. Held \in SUBSET Rows
  BY DEF Held
<1>2. QED
  BY <1>1, RowsAssumption, FS_Subset, FS_CardinalityType

\* A step that adds to neither.
LEMMA NothingHeld ==
    ASSUME TypeOK, SessionsInv, Held' \subseteq Held, Owing' \subseteq Owing, logins' = logins
    PROVE  SessionsInv'
<1>1. /\ IsFiniteSet(Held') /\ Cardinality(Held') <= Cardinality(Held)
      /\ Cardinality(Held') \in Nat /\ Cardinality(Held) \in Nat
  BY HeldIsFinite, FS_Subset, FS_CardinalityType
<1>2. /\ IsFiniteSet(Owing') /\ Cardinality(Owing') <= Cardinality(Owing)
      /\ Cardinality(Owing') \in Nat /\ Cardinality(Owing) \in Nat
  BY FS_Subset, FS_CardinalityType DEF SessionsInv
<1>3. logins \in Nat
  BY DEF TypeOK
<1>4. QED
  BY <1>1, <1>2, <1>3 DEF SessionsInv

LEMMA RevokeKeepsSessions ==
    ASSUME TypeOK, RowsExist, SessionsInv, OneRefreshPerRow,
           NEW r \in SessionReqs, RefreshRevoke(r)
    PROVE  SessionsInv'
<1>1. PICK i \in Rows : i = call[r].row
  BY CallAt DEF RefreshRevoke, Reqs
<1>2. /\ call[r].pc = "revoke" /\ call'[r].pc = "issue" /\ call'[r].row = i
      /\ \A q \in SessionReqs : q # r => call'[q] = call[q]
      /\ refreshToken'[i].status = "REVOKED"
      /\ \A j \in Rows : j # i => refreshToken'[j] = refreshToken[j]
      /\ logins' = logins
  BY <1>1, RefreshRevokeEffect DEF RefreshRevoke, GoTo, TypeOK, Reqs
<1>3. i \in Held /\ Held' = Held \ {i}
  <2>1. \A q \in SessionReqs : q # r => ~(call'[q].pc = "revoke" /\ call'[q].row = i)
    BY <1>1, <1>2 DEF OneRefreshPerRow
  <2>2. i \in Held /\ i \notin Held'
    BY <1>1, <1>2, <2>1 DEF Held
  <2>3. \A j \in Rows : j # i => (j \in Held' <=> j \in Held)
    BY <1>1, <1>2 DEF Held
  <2>4. Held \subseteq Rows /\ Held' \subseteq Rows
    BY DEF Held
  <2>5. QED
    BY <2>2, <2>3, <2>4
<1>4. r \notin Owing /\ Owing' = Owing \cup {r}
  <2>1. i # Null
    BY <1>1, NullIsNothing
  <2>2. r \notin Owing
    BY <1>2 DEF Owing
  <2>3. r \in Owing'
    BY <1>2, <2>1 DEF Owing
  <2>4. \A q \in SessionReqs : q # r => (q \in Owing' <=> q \in Owing)
    BY <1>2 DEF Owing
  <2>5. Owing \subseteq SessionReqs /\ Owing' \subseteq SessionReqs
    BY DEF Owing
  <2>6. QED
    BY <2>2, <2>3, <2>4, <2>5
<1>5. Cardinality(Held') = Cardinality(Held) - 1 /\ Cardinality(Held) \in Nat
  BY <1>3, HeldIsFinite, FS_RemoveElement
<1>6. /\ Cardinality(Owing') = Cardinality(Owing) + 1 /\ Cardinality(Owing) \in Nat
      /\ IsFiniteSet(Owing')
  BY <1>4, FS_AddElement, FS_CardinalityType DEF SessionsInv
<1>7. logins \in Nat
  BY DEF TypeOK
<1>8. QED
  BY <1>2, <1>5, <1>6, <1>7 DEF SessionsInv

LEMMA StoreKeepsSessions ==
    ASSUME TypeOK, RowsExist, SessionsInv, NEW r \in SessionReqs, NEW i \in Rows, Store(r, i)
    PROVE  SessionsInv'
<1>1. /\ call[r].pc = "store" /\ call'[r] = IdleCall /\ IdleCall.pc = "idle"
      /\ \A q \in SessionReqs : q # r => call'[q] = call[q]
      /\ refreshToken[i] = NoRow /\ refreshToken'[i].status = "VALID"
      /\ \A j \in Rows : j # i => refreshToken'[j] = refreshToken[j]
  <2>1. /\ call'[r] = IdleCall
        /\ refreshToken'[i] = [status |-> "VALID", token |-> call[r].token]
        /\ \A j \in Rows : j # i => refreshToken'[j] = refreshToken[j]
    BY StoreEffect
  <2>2. \A q \in Reqs : q # r => call'[q] = call[q]
    BY DoneType DEF Store, Reqs
  <2>3. call[r].pc = "store" /\ refreshToken[i] = NoRow
    BY DEF Store
  <2>4. IdleCall.pc = "idle"
    BY DEF IdleCall
  <2>5. QED
    BY <2>1, <2>2, <2>3, <2>4 DEF Reqs
<1>2. i \notin Held /\ Held' = Held \cup {i}
  <2>1. i \notin Held
    BY <1>1 DEF Held, RowsExist, NoRow, Reqs
  <2>2. i \in Held'
    BY <1>1 DEF Held
  <2>3. \A j \in Rows : j # i => (j \in Held' <=> j \in Held)
    BY <1>1 DEF Held
  <2>4. Held \subseteq Rows /\ Held' \subseteq Rows
    BY DEF Held
  <2>5. QED
    BY <2>1, <2>2, <2>3, <2>4
<1>3. Cardinality(Held') = Cardinality(Held) + 1 /\ Cardinality(Held) \in Nat
  BY <1>2, HeldIsFinite, FS_AddElement
<1>4. logins \in Nat /\ Cardinality(Owing) \in Nat
  BY FS_CardinalityType DEF TypeOK, SessionsInv
<1>5. /\ r \notin Owing'
      /\ \A q \in SessionReqs : q # r => (q \in Owing' <=> q \in Owing)
      /\ Owing \subseteq SessionReqs /\ Owing' \subseteq SessionReqs
  BY <1>1 DEF Owing
<1>6. CASE call[r].row = Null
  <2>1. r \notin Owing
    BY <1>6 DEF Owing
  <2>2. Owing' = Owing
    BY <1>5, <2>1
  <2>3. logins' = logins + 1
    BY <1>6 DEF Store
  <2>4. QED
    BY <1>3, <1>4, <2>2, <2>3 DEF SessionsInv
<1>7. CASE call[r].row # Null
  <2>1. r \in Owing
    BY <1>1, <1>7 DEF Owing
  <2>2. Owing' = Owing \ {r}
    BY <1>5, <2>1
  <2>3. Cardinality(Owing') = Cardinality(Owing) - 1 /\ IsFiniteSet(Owing')
    BY <2>1, <2>2, FS_RemoveElement DEF SessionsInv
  <2>4. logins' = logins
    BY <1>7 DEF Store
  <2>5. QED
    BY <1>3, <1>4, <2>3, <2>4 DEF SessionsInv
<1>8. QED
  BY <1>6, <1>7

LEMMA SessionsStep ==
    ASSUME TypeOK, RowsExist, SessionsInv, OneRefreshPerRow, Next
    PROVE  SessionsInv'
<1>0. /\ IdleCall.pc = "idle"
      /\ SessionReqs \cap PasswordReqs = {} /\ Reqs = SessionReqs \cup PasswordReqs
  BY ReqsAssumption DEF IdleCall, Reqs
<1>1. ASSUME NEW r \in SessionReqs, LoginRead(r)
      PROVE  SessionsInv'
  <2>1. /\ UNCHANGED sessionVars
        /\ call'[r].pc = "issue" /\ call'[r].row = Null
        /\ \A q \in SessionReqs : q # r => call'[q] = call[q]
    BY <1>1, LoginReadEffect DEF LoginRead, GoTo, TypeOK, Reqs
  <2>2. Held' \subseteq Held /\ Owing' \subseteq Owing /\ logins' = logins
    BY <2>1 DEF sessionVars, history, Held, Owing
  <2>3. QED
    BY <2>2, NothingHeld
<1>2. ASSUME NEW r \in SessionReqs, NEW t \in handed, NEW i \in Rows, RefreshRead(r, t, i)
      PROVE  SessionsInv'
  <2>1. /\ UNCHANGED sessionVars /\ refreshToken[i].status = "VALID"
        /\ call'[r].pc = "revoke" /\ call'[r].row = i
        /\ \A q \in SessionReqs : q # r => call'[q] = call[q]
    BY <1>2, RefreshReadEffect DEF RefreshRead, HoldsToken, GoTo, TypeOK, Reqs
  <2>2. Held' \subseteq Held
    BY <2>1 DEF sessionVars, history, Held
  <2>3. Owing' \subseteq Owing /\ logins' = logins
    BY <2>1 DEF sessionVars, history, Owing
  <2>4. QED
    BY <2>2, <2>3, NothingHeld
<1>3. ASSUME NEW r \in SessionReqs, Issue(r)
      PROVE  SessionsInv'
  <2>1. /\ UNCHANGED <<refreshToken, logins>>
        /\ call[r].pc = "issue" /\ call'[r].pc = "store" /\ call'[r].row = call[r].row
        /\ \A q \in SessionReqs : q # r => call'[q] = call[q]
    BY <1>3, IssueEffect DEF Issue, GoTo, TypeOK, Reqs
  <2>2. Held' \subseteq Held
    BY <2>1 DEF Held
  <2>3. Owing' \subseteq Owing /\ logins' = logins
    BY <2>1 DEF Owing
  <2>4. QED
    BY <2>2, <2>3, NothingHeld
<1>4. ASSUME NEW r \in SessionReqs, NEW t \in handed, Logout(r, t)
      PROVE  SessionsInv'
  <2>1. /\ call' = call /\ logins' = logins
        /\ \A i \in Rows : refreshToken'[i].status = "VALID" => refreshToken[i].status = "VALID"
    BY <1>4 DEF Logout
  <2>2. Held' \subseteq Held /\ Owing' \subseteq Owing
    BY <2>1 DEF Held, Owing
  <2>3. QED
    BY <2>1, <2>2, NothingHeld
<1>5. ASSUME UNCHANGED <<refreshToken, logins>>,
             \A q \in SessionReqs : call'[q] = call[q] \/ call'[q] = IdleCall
      PROVE  SessionsInv'
  <2>1. Held' \subseteq Held /\ Owing' \subseteq Owing /\ logins' = logins
    BY <1>0, <1>5 DEF Held, Owing
  <2>2. QED
    BY <2>1, NothingHeld
<1>6. ASSUME NEW r \in PasswordReqs, UNCHANGED <<refreshToken, logins>>,
             \A q \in Reqs : q # r => call'[q] = call[q]
      PROVE  SessionsInv'
  BY <1>0, <1>5, <1>6
<1>7. ASSUME NEW r \in PasswordReqs, NEW i \in Resets, ForgotCreate(r, i) \/ ResetRead(r, i)
      PROVE  SessionsInv'
  <2>1. UNCHANGED <<refreshToken, logins>> /\ \A q \in Reqs : q # r => call'[q] = call[q]
    BY <1>7 DEF ForgotCreate, ResetRead, GoTo, TypeOK, sessionVars
  <2>2. QED
    BY <1>6, <2>1
<1>8. ASSUME NEW r \in PasswordReqs, ForgotMail(r) \/ ResetWrite(r)
      PROVE  SessionsInv'
  <2>1. UNCHANGED <<refreshToken, logins>> /\ \A q \in Reqs : q # r => call'[q] = call[q]
    BY <1>8 DEF ForgotMail, ResetWrite, Done, TypeOK, sessionVars
  <2>2. QED
    BY <1>6, <2>1
<1>9. ASSUME NEW r \in Reqs, CallFails(r)
      PROVE  SessionsInv'
  BY <1>0, <1>5, <1>9, DoneType DEF CallFails, sessionVars
<1>10. CASE UNCHANGED <<call, refreshToken, logins>>
  BY <1>5, <1>10
<1>11. QED
  BY <1>1, <1>2, <1>3, <1>4, <1>7, <1>8, <1>9, <1>10, RevokeKeepsSessions, StoreKeepsSessions
  DEF Next, SessionCallGoesOn, PasswordCallGoesOn, EmailWorker, EmailJob, Tick,
      sessionVars

\* As long as no two refreshes exchange one row: no login leads to more than one
\* row that can be refreshed, whatever overlaps and whichever of the writes fail.
THEOREM SessionsAreFew == Spec /\ []OneRefreshPerRow => []SessionsAreNotMultiplied
<1>1. Init => SessionsInv
  <2> SUFFICES ASSUME Init
               PROVE  SessionsInv
    OBVIOUS
  <2>1. Held = {} /\ Owing = {}
    BY DEF Init, NoRow, IdleCall, Held, Owing, Reqs
  <2>2. Cardinality(Held) = 0 /\ Cardinality(Owing) = 0 /\ IsFiniteSet(Owing)
    BY <2>1, FS_EmptySet
  <2>3. QED
    BY <2>2 DEF Init, SessionsInv
<1>2. TypeOK /\ RowsExist /\ SessionsInv /\ OneRefreshPerRow /\ [Next]_vars => SessionsInv'
  <2> SUFFICES ASSUME TypeOK, RowsExist, SessionsInv, OneRefreshPerRow, [Next]_vars
               PROVE  SessionsInv'
    OBVIOUS
  <2>1. CASE Next
    BY <2>1, SessionsStep
  <2>2. CASE UNCHANGED vars
    <3>1. Held' \subseteq Held /\ Owing' \subseteq Owing /\ logins' = logins
      BY <2>2 DEF vars, sessionVars, history, Held, Owing
    <3>2. QED
      BY <3>1, NothingHeld
  <2>3. QED
    BY <2>1, <2>2
<1>3. TypeOK /\ SessionsInv => SessionsAreNotMultiplied
  <2> SUFFICES ASSUME TypeOK, SessionsInv
               PROVE  SessionsAreNotMultiplied
    OBVIOUS
  <2> DEFINE Valid == {i \in Rows : refreshToken[i].status = "VALID"}
  <2>1. Valid \subseteq Held
    BY DEF Held
  <2>2. /\ Cardinality(Valid) <= Cardinality(Held)
        /\ Cardinality(Valid) \in Nat /\ Cardinality(Held) \in Nat
    BY <2>1, HeldIsFinite, FS_Subset, FS_CardinalityType
  <2>3. Cardinality(Owing) \in Nat /\ logins \in Nat
    BY FS_CardinalityType DEF SessionsInv, TypeOK
  <2> HIDE DEF Valid
  <2>4. Cardinality(Valid) <= logins
    BY <2>2, <2>3 DEF SessionsInv
  <2>5. QED
    BY <2>4 DEF SessionsAreNotMultiplied, Valid
<1>4. QED
  BY <1>1, <1>2, <1>3, RowsAlwaysExist, PTL DEF Spec
=============================================================================
