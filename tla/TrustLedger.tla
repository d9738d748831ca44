---------------------------- MODULE TrustLedger ----------------------------
(***************************************************************************)
(* What the trust ledger promises, without requests, jobs or a worker: a   *)
(* log that only grows, a score that counts what is in the log, and a set  *)
(* of users whose score is due.  Trust implements this while no job is     *)
(* lost and a score has one writer at a time (module TrustRefinement).     *)
(***************************************************************************)
EXTENDS Naturals

CONSTANTS
    People,      \* the users
    Causes,      \* what an event is about
    Promised,    \* the causes whose events are promised to reach the score
    Unscored     \* a score that was never computed

VARIABLES
    log,         \* log[u][c]: how many events about c the user has
    score,       \* score[u]: how many of them the score counts
    due          \* the users whose score is to be computed

ledgerVars == <<log, score, due>>

Counting == [Causes -> Nat]

Counted(s, c) == IF s = Unscored THEN 0 ELSE s[c]

LedgerInit ==
    /\ log = [u \in People |-> [c \in Causes |-> 0]]
    /\ score = [u \in People |-> Unscored]
    /\ due = {}

\* Something happens to one or two users, or twice to one.  If it is promised to
\* count, their scores are due from this step on.
Happen(c, times) ==
    /\ log' = [u \in People |-> [log[u] EXCEPT ![c] = @ + times[u]]]
    /\ due' = due \cup {u \in People : c \in Promised /\ times[u] > 0}
    /\ UNCHANGED score

\* The scores of some users become due without an event.
Ask(users) ==
    /\ due' = due \cup users
    /\ UNCHANGED <<log, score>>

\* The score of u is computed.  It may lack events, but none that it counted
\* before; and it is due until it lacks none of those that were promised.
Rescore(u) ==
    /\ score' \in [People -> Counting \cup {Unscored}]
    /\ score'[u] # Unscored
    /\ \A v \in People \ {u} : score'[v] = score[v]
    /\ \A c \in Causes : Counted(score'[u], c) \in Counted(score[u], c)..log[u][c]
    /\ \/ due' = due
       \/ /\ due' = due \ {u}
          /\ \A c \in Promised : Counted(score'[u], c) = log[u][c]
    /\ UNCHANGED log

LedgerNext ==
    \/ \E c \in Causes, times \in [People -> 0..2] : Happen(c, times)
    \/ \E users \in SUBSET People : Ask(users)
    \/ \E u \in People : Rescore(u)

LedgerSpec == LedgerInit /\ [][LedgerNext]_ledgerVars
=============================================================================
