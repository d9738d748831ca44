-------------------------- MODULE TrustRefinement --------------------------
(***************************************************************************)
(* Trust implements TrustLedger.  A score is due while a job for its user  *)
(* is in the queue or running, or a request has yet to add one.            *)
(***************************************************************************)
EXTENDS Trust

\* What the services queue a job for, after the event.
Promised == OutcomeCause \cup DuplicateCause

Due(u) == Awaited(u) \/ worker.user = u

Ledger == INSTANCE TrustLedger WITH
              People <- Users,
              Causes <- Cause,
              Promised <- Promised,
              Unscored <- Null,
              log <- events,
              score <- score,
              due <- {u \in Users : Due(u)}

\* README.md of the backend, lines 72-74, and backend-documentry.md, lines 63-64,
\* as a refinement: whatever the services record, in whichever order they queue
\* jobs and the worker reads and writes, is a step of a log with a cache that
\* stays due until it has counted every outcome and every duplicate.
ImplementsLedger == Ledger!LedgerSpec
=============================================================================
