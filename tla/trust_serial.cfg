\* Two requests overlap with each other and with the worker, except that a report has one
\* administrator at a time.  Anything may fail.
SPECIFICATION Spec
ACTION_CONSTRAINT SmallAndSerial
CONSTANTS
  s = s
  o = o
  b1 = b1
  p1 = p1
  d1 = d1
  r1 = r1
  r2 = r2
  Null = Null
  Users <- Parties
  Bookings <- OneBooking
  Reports <- OneReport
  Duplicates <- OneDuplicate
  Reporters <- TheReporter
  Suspects <- TheSuspect
  Reqs <- TwoRequests
  StudentOf <- TheStudent
  OwnerOf <- TheOwner
  OwnersOf <- TheOwners
  Ops <- AllOps
  Faults <- AllFaults
  MaxTimes = 1
  MaxQueue = 1
SYMMETRY Symmetry
CHECK_DEADLOCK FALSE
INVARIANTS
  TypeOK
  VerdictsCountOnce
  ReviewsAreEarned
  ConfirmedReportsArePenalised
