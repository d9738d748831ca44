\* Two booking requests, one listing request and the worker overlap, from the first
\* listing on; no await fails and nobody is obliged to send a request.  The model stops
\* when the ids of listings and bookings are used up.
SPECIFICATION FairSpec
CONSTANTS
  l1 = l1
  l2 = l2
  m1 = m1
  m2 = m2
  b1 = b1
  b2 = b2
  r1 = r1
  r2 = r2
  Null = Null
  MaxEdits = 1
  HOLD_DURATION = 1
  Listings <- OneListing
  ListingReqs <- OneModerator
  Bookings <- OneBooking
  BookingReqs <- TwoRequests
  Ops <- EveryListingOpAndBook
  Faults <- NoFaults
CHECK_DEADLOCK FALSE
INVARIANTS
  TypeOK
  ReviewedHomesAreComplete
  OutcomesArePaidAndRecorded
  OutcomesAreRescored
  BookedHomesWereApproved
  MarketHomesWereApproved
  EveryHoldHasAJob
PROPERTIES
  HoldsEnd
