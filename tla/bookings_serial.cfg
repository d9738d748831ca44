\* On approved homes, one booking request per home at a time.  Either one home, where two
\* listing requests, the worker, crashes and failing awaits overlap with it, or two homes
\* with a request each.  The model stops when ids are used up.
SPECIFICATION MarketsSpec
ACTION_CONSTRAINT SmallAndSerial
CONSTANTS
  l1 = l1
  l2 = l2
  m1 = m1
  m2 = m2
  b1 = b1
  b2 = b2
  r1 = r1
  r2 = r2
  Null = Null
  MaxEdits = 0
  HOLD_DURATION = 1
  Listings <- TwoListings
  ListingReqs <- TwoModerators
  Bookings <- TwoBookings
  BookingReqs <- TwoRequests
  Ops <- EveryBookingOp
  Faults <- AllFaults
CHECK_DEADLOCK FALSE
INVARIANTS
  ExclusiveHold
  OneOutcome
PROPERTIES
  HoldLastsItsTime
  DeletedHomesStayDeleted
  ImplementsRoomLock
SYMMETRY Symmetry
