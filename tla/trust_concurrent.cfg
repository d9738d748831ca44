\* Two requests that record events and queue jobs overlap with the worker, and nothing
\* fails.  The model stops when every booking and duplicate has its verdict.
SPECIFICATION ConcurrentSpec
CONSTANTS
  s = s
  o = o
  b1 = b1
  p1 = p1
  d1 = d1
  r1 = r1
  r2 = r2
  Null = Null
  Users <- Parties
  Bookings <- OneBooking
  Reports <- OneReport
  Duplicates <- OneDuplicate
  Reporters <- TheReporter
  Suspects <- TheSuspect
  Reqs <- TwoRequests
  StudentOf <- TheStudent
  OwnerOf <- TheOwner
  OwnersOf <- TheOwners
  Ops <- ScoredOps
  Faults <- NoFaults
  MaxTimes = 1
  MaxQueue = 4
CHECK_DEADLOCK FALSE
INVARIANTS
  OutcomesReachTheScore
PROPERTIES
  ScoresNeverForget
  ScoresSettle
  ImplementsLedger
