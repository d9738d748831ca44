\* A fraud report is confirmed while the worker runs.
SPECIFICATION Spec
CONSTANTS
  s = s
  o = o
  b1 = b1
  p1 = p1
  d1 = d1
  r1 = r1
  r2 = r2
  Null = Null
  Users <- Parties
  Bookings <- OneBooking
  Reports <- OneReport
  Duplicates <- OneDuplicate
  Reporters <- TheReporter
  Suspects <- TheSuspect
  Reqs <- OneRequest
  StudentOf <- TheStudent
  OwnerOf <- TheOwner
  OwnersOf <- TheOwners
  Ops <- FraudOps
  Faults <- NoFaults
  MaxTimes = 1
  MaxQueue = 4
CHECK_DEADLOCK FALSE
INVARIANTS
  PenaltiesReachTheScore
