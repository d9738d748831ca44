\* One request after the other and nothing fails: a login and, within the second, a refresh.
SPECIFICATION Spec
CONSTANTS
  i1 = i1
  i2 = i2
  i3 = i3
  i4 = i4
  p1 = p1
  p2 = p2
  p3 = p3
  s1 = s1
  s2 = s2
  q1 = q1
  q2 = q2
  Null = Null
  REFRESH_TOKEN_TTL = 2
  PASSWORD_RESET_TTL = 1
  MaxClock = 1
  Rows <- FourRows
  Resets <- ThreeResets
  SessionReqs <- OneSessionReq
  PasswordReqs <- OnePasswordReq
  Faults <- NoFaults
CHECK_DEADLOCK FALSE
INVARIANTS
  ExchangedTokensNeverWork
