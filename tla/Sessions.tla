------------------------------ MODULE Sessions ------------------------------
(***************************************************************************)
(* The refresh tokens and the password-reset tokens of one account:        *)
(* modules/auth/auth.service.ts and the worker of                          *)
(* infra/queue/email.processor.ts.  Accounts share no row.                 *)
(*                                                                         *)
(* A refresh token is a JWT over the account and the second it was signed  *)
(* in, and nothing else: two tokens of one second are the same token.  So  *)
(* a token is represented by that second.  No index makes token_hash       *)
(* unique, and several rows may hold one token.                            *)
(*                                                                         *)
(* As in the other modules a method is one action per await and call[r]    *)
(* is what the request r remembers.  Passwords are left out: whoever logs  *)
(* in has the right one.  A row's expires_at is computed right after its   *)
(* token was signed and is never earlier than the token's own expiry.      *)
(***************************************************************************)
EXTENDS Naturals, FiniteSets

CONSTANTS
    Rows,              \* ids of refresh_tokens rows
    Resets,            \* ids of password_reset_tokens rows
    SessionReqs,       \* requests to login, refresh and logout in flight
    PasswordReqs,      \* requests to forgot-password and reset-password in flight
    REFRESH_TOKEN_TTL, \* seconds until a refresh token expires
    PASSWORD_RESET_TTL,\* seconds until a reset token expires
    MaxClock,          \* bound on the clock
    Faults,            \* {"dbError"} if any await may be rejected, or {}
    Null

ASSUME TtlAssumption == REFRESH_TOKEN_TTL \in Nat /\ PASSWORD_RESET_TTL \in Nat
ASSUME ReqsAssumption == SessionReqs \cap PasswordReqs = {}
ASSUME RowsAssumption == IsFiniteSet(Rows)
ASSUME NullIsNothing == Null \notin Rows \cup Resets \cup Nat

VARIABLES
    clock,         \* the time, in seconds
    refreshToken,  \* refreshToken[i]: the row, status "ABSENT" before it exists
    handed,        \* the refresh tokens that were answered to a client
    logins,        \* how many logins stored a token
    exchanged,     \* the tokens whose row a refresh has revoked
    loggedOut,     \* the tokens that were logged out when nobody could store them any more
    signedNow,     \* whether a token was signed in this second
    signedTwice,   \* the tokens that were signed more than once: seconds with two of them
    resetToken,    \* resetToken[i]: the row, status "DELETED" after it existed
    resets,        \* how many resets were written
    emailQueue,    \* the jobs of forgotPassword: which token, and their type
    mailed,        \* the reset tokens the worker sent to the account's address
    call           \* call[r]: where the request r stands

\* What happened to the tokens; the code keeps none of it.
history == <<exchanged, loggedOut, signedNow, signedTwice>>

sessionVars == <<refreshToken, handed, logins, history>>
resetVars == <<resetToken, resets, emailQueue, mailed>>
vars == <<clock, sessionVars, resetVars, call>>

Reqs == SessionReqs \cup PasswordReqs
Second == Nat

NoRow == [status |-> "ABSENT", token |-> Null]
RefreshRow == [status : {"VALID", "REVOKED"}, token : Second]

NoReset == [status |-> "ABSENT", expiresAt |-> Null, after |-> Null]

\* after: how many resets had been written when the token was made.
ResetRow == [status : {"STORED", "DELETED"}, expiresAt : Second, after : Nat]

IdleCall == [pc |-> "idle", row |-> Null, token |-> Null]

\* A request in flight, by its next await.  row: the row it read; token: the
\* token it has signed.  A login has read no row.
Request ==
    [pc : {"revoke"}, row : Rows, token : {Null}]
    \cup
    [pc : {"issue"}, row : Rows \cup {Null}, token : {Null}]
    \cup
    [pc : {"store"}, row : Rows \cup {Null}, token : Second]
    \cup
    [pc : {"addMail", "resetPassword"}, row : Resets, token : {Null}]

\* A job's type decides what the worker sends.
Job == [reset : Resets, type : {"password-reset", Null}]

TypeOK ==
    /\ clock \in Second
    /\ refreshToken \in [Rows -> RefreshRow \cup {NoRow}]
    /\ handed \subseteq Second
    /\ logins \in Nat
    /\ exchanged \subseteq Second
    /\ loggedOut \subseteq Second
    /\ signedNow \in BOOLEAN
    /\ signedTwice \subseteq Second
    /\ resetToken \in [Resets -> ResetRow \cup {NoReset}]
    /\ resets \in Nat
    /\ emailQueue \subseteq Job
    /\ mailed \subseteq Resets
    /\ call \in [Reqs -> Request \cup {IdleCall}]

Init ==
    /\ clock = 0
    /\ refreshToken = [i \in Rows |-> NoRow]
    /\ handed = {}
    /\ logins = 0
    /\ exchanged = {}
    /\ loggedOut = {}
    /\ signedNow = FALSE
    /\ signedTwice = {}
    /\ resetToken = [i \in Resets |-> NoReset]
    /\ resets = 0
    /\ emailQueue = {}
    /\ mailed = {}
    /\ call = [r \in Reqs |-> IdleCall]

Idle(r) == call[r] = IdleCall
Done(r) == call' = [call EXCEPT ![r] = IdleCall]
GoTo(r, pc, row, token) ==
    call' = [call EXCEPT ![r] = [pc |-> pc, row |-> row, token |-> token]]

\* What jwtService.verify accepts.
Unexpired(t) == clock < t + REFRESH_TOKEN_TTL

HoldsToken(i, t) == refreshToken[i] = [status |-> "VALID", token |-> t]

\* Somebody has signed the token and has yet to create its row.
AboutToStore(t) == \E r \in Reqs : call[r].pc = "store" /\ call[r].token = t

\* A token is signed now.
Signed ==
    /\ signedNow' = TRUE
    /\ signedTwice' = IF signedNow THEN signedTwice \cup {clock} ELSE signedTwice

-----------------------------------------------------------------------------
(* login, refresh, logout                                                  *)

\* The user is read; the password is the right one.
LoginRead(r) ==
    /\ Idle(r)
    /\ GoTo(r, "issue", Null, Null)
    /\ UNCHANGED <<clock, sessionVars, resetVars>>

\* Fault: the row is found although it is revoked.
RefreshReadRevoked(r, t, i) ==
    /\ Idle(r)
    /\ t \in handed
    /\ Unexpired(t)
    /\ refreshToken[i].token = t
    /\ GoTo(r, "revoke", i, Null)
    /\ UNCHANGED <<clock, sessionVars, resetVars>>

\* findFirst, in no particular order, of a row that holds the token.
RefreshRead(r, t, i) ==
    /\ Idle(r)
    /\ t \in handed
    /\ Unexpired(t)
    /\ HoldsToken(i, t)
    /\ GoTo(r, "revoke", i, Null)
    /\ UNCHANGED <<clock, sessionVars, resetVars>>

\* The update by id, which does not ask again.
RefreshRevoke(r) ==
    LET i == call[r].row IN
    /\ call[r].pc = "revoke"
    /\ refreshToken' = [refreshToken EXCEPT ![i] = [status |-> "REVOKED", token |-> @.token]]
    /\ exchanged' = exchanged \cup {refreshToken[i].token}
    /\ GoTo(r, "issue", i, Null)
    /\ UNCHANGED <<clock, handed, logins, loggedOut, signedNow, signedTwice, resetVars>>

\* Fault: the verified payload is signed again as it is, its iat included.
IssueAgain(r) ==
    LET i == call[r].row IN
    /\ call[r].pc = "issue"
    /\ GoTo(r, "store", i, IF i = Null THEN clock ELSE refreshToken[i].token)
    /\ Signed
    /\ UNCHANGED <<clock, refreshToken, handed, logins, exchanged, loggedOut, resetVars>>

\* Fault: the row is created before there is a token.
IssueNothing(r) ==
    /\ call[r].pc = "issue"
    /\ GoTo(r, "store", call[r].row, call[r].token)
    /\ UNCHANGED <<clock, sessionVars, resetVars>>

\* issueTokens, when the await before it is over.
Issue(r) ==
    /\ call[r].pc = "issue"
    /\ GoTo(r, "store", call[r].row, clock)
    /\ Signed
    /\ UNCHANGED <<clock, refreshToken, handed, logins, exchanged, loggedOut, resetVars>>

\* refreshToken.create, and the answer.
Store(r, i) ==
    /\ call[r].pc = "store"
    /\ refreshToken[i] = NoRow
    /\ refreshToken' = [refreshToken EXCEPT ![i] =
                           [status |-> "VALID", token |-> call[r].token]]
    /\ handed' = handed \cup {call[r].token}
    /\ logins' = IF call[r].row = Null THEN logins + 1 ELSE logins
    /\ Done(r)
    /\ UNCHANGED <<clock, history, resetVars>>

\* Fault: one row that holds the token is revoked, as refresh does it.
LogoutOneRow(r, t) ==
    /\ Idle(r)
    /\ t \in handed
    /\ Unexpired(t)
    /\ \E i \in Rows :
          /\ HoldsToken(i, t)
          /\ refreshToken' = [refreshToken EXCEPT ![i].status = "REVOKED"]
    /\ loggedOut' = IF t < clock /\ ~AboutToStore(t) THEN loggedOut \cup {t} ELSE loggedOut
    /\ UNCHANGED <<clock, handed, logins, exchanged, signedNow, signedTwice, resetVars, call>>

\* updateMany: every row that holds the token.
Logout(r, t) ==
    /\ Idle(r)
    /\ t \in handed
    /\ Unexpired(t)
    /\ refreshToken' = [i \in Rows |->
           IF HoldsToken(i, t) THEN [status |-> "REVOKED", token |-> t] ELSE refreshToken[i]]
    /\ loggedOut' = IF t < clock /\ ~AboutToStore(t) THEN loggedOut \cup {t} ELSE loggedOut
    /\ UNCHANGED <<clock, handed, logins, exchanged, signedNow, signedTwice, resetVars, call>>

-----------------------------------------------------------------------------
(* forgotPassword, resetPassword, and the worker of the email queue        *)

ForgotCreate(r, i) ==
    /\ Idle(r)
    /\ resetToken[i] = NoReset
    /\ resetToken' = [resetToken EXCEPT ![i] =
           [status |-> "STORED", expiresAt |-> clock + PASSWORD_RESET_TTL, after |-> resets]]
    /\ GoTo(r, "addMail", i, Null)
    /\ UNCHANGED <<clock, sessionVars, resets, emailQueue, mailed>>

\* emailQueue.add with the address and the token, and no type.
ForgotMail(r) ==
    /\ call[r].pc = "addMail"
    /\ emailQueue' = emailQueue \cup {[reset |-> call[r].row, type |-> Null]}
    /\ Done(r)
    /\ UNCHANGED <<clock, sessionVars, resetToken, resets, mailed>>

\* Whoever has a token that is stored and not expired.  argon2.hash follows.
ResetRead(r, i) ==
    /\ Idle(r)
    /\ resetToken[i].status = "STORED"
    /\ resetToken[i].expiresAt >= clock
    /\ GoTo(r, "resetPassword", i, Null)
    /\ UNCHANGED <<clock, sessionVars, resetVars>>

\* Fault: only the token that was used is deleted.
ResetWriteOne(r) ==
    /\ call[r].pc = "resetPassword"
    /\ resets' = resets + 1
    /\ resetToken' = [resetToken EXCEPT ![call[r].row].status = "DELETED"]
    /\ Done(r)
    /\ UNCHANGED <<clock, sessionVars, emailQueue, mailed>>

\* The transaction: the password, and every reset token of the account.
ResetWrite(r) ==
    /\ call[r].pc = "resetPassword"
    /\ resets' = resets + 1
    /\ resetToken' = [i \in Resets |->
           IF resetToken[i].status = "STORED"
           THEN [resetToken[i] EXCEPT !.status = "DELETED"] ELSE resetToken[i]]
    /\ Done(r)
    /\ UNCHANGED <<clock, sessionVars, emailQueue, mailed>>

\* A job of no known type is done when none of the branches takes it.
EmailJob(j) ==
    /\ j \in emailQueue
    /\ mailed' = IF j.type = "password-reset" THEN mailed \cup {j.reset} ELSE mailed
    /\ emailQueue' = emailQueue \ {j}
    /\ UNCHANGED <<clock, sessionVars, resetToken, resets, call>>

-----------------------------------------------------------------------------
\* A rejected await, or a process that dies: the request answers an error.
CallFails(r) ==
    /\ "dbError" \in Faults
    /\ ~Idle(r)
    /\ Done(r)
    /\ UNCHANGED <<clock, sessionVars, resetVars>>

Tick ==
    /\ clock < MaxClock
    /\ clock' = clock + 1
    /\ signedNow' = FALSE
    /\ UNCHANGED <<refreshToken, handed, logins, exchanged, loggedOut, signedTwice>>
    /\ UNCHANGED <<resetVars, call>>

SessionCallGoesOn(r) ==
    \/ RefreshRevoke(r)
    \/ Issue(r)
    \/ \E i \in Rows : Store(r, i)

PasswordCallGoesOn(r) == ForgotMail(r) \/ ResetWrite(r)

EmailWorker == \E j \in Job : EmailJob(j)

Next ==
    \/ \E r \in SessionReqs :
          \/ LoginRead(r)
          \/ \E t \in handed, i \in Rows : RefreshRead(r, t, i)
          \/ \E t \in handed : Logout(r, t)
          \/ SessionCallGoesOn(r)
    \/ \E r \in PasswordReqs :
          \/ \E i \in Resets : ForgotCreate(r, i) \/ ResetRead(r, i)
          \/ PasswordCallGoesOn(r)
    \/ \E r \in Reqs : CallFails(r)
    \/ EmailWorker
    \/ Tick

Spec == Init /\ [][Next]_vars

\* Node resumes a request, and the worker of the email queue takes every job.
Fairness ==
    /\ \A r \in SessionReqs : WF_vars(SessionCallGoesOn(r))
    /\ \A r \in PasswordReqs : WF_vars(PasswordCallGoesOn(r))
    /\ WF_vars(EmailWorker)

FairSpec == Spec /\ Fairness

-----------------------------------------------------------------------------
(* Properties                                                              *)

Usable(t) == Unexpired(t) /\ \E i \in Rows : HoldsToken(i, t)

\* A refresh revokes one row by its id, and as many rows hold a token as times it
\* was signed.  Whatever overlaps and whatever fails, an exchanged token works again
\* for that reason only: it was signed once more in its second, by another login or
\* by the refresh itself.
ExchangedTokensWorkOnlyIfSignedTwice ==
    \A t \in exchanged : Usable(t) => t \in signedTwice

\* A logout revokes every row that holds the token.  Once the token's second is over
\* and no request has yet to store it, it is for good, tokens signed twice among them:
\* no refresh that overlaps, no retry and no later login makes the token work again.
LoggedOutTokensNeverWork ==
    \A t \in loggedOut : ~Usable(t)

-----------------------------------------------------------------------------
(* Properties that hold while no two refreshes exchange one row, and no    *)
(* two resets of the account, overlap.  The code prevents neither: both    *)
(* read the row, await, and write without asking again.                    *)

OneRefreshPerRow ==
    \A q, r \in SessionReqs :
        /\ call[q].pc = "revoke"
        /\ call[r].pc = "revoke"
        /\ call[q].row = call[r].row
        => q = r

OneReset ==
    \A q, r \in PasswordReqs :
        call[q].pc = "resetPassword" /\ call[r].pc = "resetPassword" => q = r

\* No login leads to more than one row that can be refreshed, although the
\* revocation and the new row are two writes, either of which may fail, a logout
\* may come between them, and equal tokens share rows.
SessionsAreNotMultiplied ==
    Cardinality({i \in Rows : refreshToken[i].status = "VALID"}) <= logins

\* No token that was made before the last reset can reset the password again.
ResetsEndEarlierTokens ==
    /\ \A i \in Resets : resetToken[i].status = "STORED" => resetToken[i].after = resets
    /\ \A r \in Reqs : call[r].pc = "resetPassword" => resetToken[call[r].row].after = resets

-----------------------------------------------------------------------------
(* What the documentation promises and the code does not keep              *)

\* README.md of the backend, line 81: "Refresh token rotation - each use invalidates
\* the previous token".
ExchangedTokensNeverWork ==
    \A t \in exchanged : ~Usable(t)

\* README.md of the backend, line 100: "POST /auth/forgot-password - Send
\* password reset email".  A request whose job was queued ends in a mail.
ResetMailsAreSent ==
    \A i \in Resets :
        (\E j \in emailQueue : j.reset = i) ~> i \in mailed
=============================================================================
