\* A student cancels and confirms the same booking at once.
SPECIFICATION MarketSpec
CONSTANTS
  l1 = l1
  l2 = l2
  m1 = m1
  m2 = m2
  b1 = b1
  b2 = b2
  r1 = r1
  r2 = r2
  Null = Null
  MaxEdits = 0
  HOLD_DURATION = 1
  Listings <- OneListing
  ListingReqs <- NoModerator
  Bookings <- OneBooking
  BookingReqs <- TwoRequests
  Ops <- BookingOps
  Faults <- NoFaults
CHECK_DEADLOCK FALSE
PROPERTIES
  LegalTransitions
