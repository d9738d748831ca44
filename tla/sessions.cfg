\* Two requests about sessions, or two about passwords, overlap, but not two that
\* exchange one row or two resets; any await may fail.  The model stops when ids
\* and seconds are used up.
SPECIFICATION HalvesSpec
CONSTANTS
  i1 = i1
  i2 = i2
  i3 = i3
  i4 = i4
  p1 = p1
  p2 = p2
  p3 = p3
  s1 = s1
  s2 = s2
  q1 = q1
  q2 = q2
  Null = Null
  REFRESH_TOKEN_TTL = 2
  PASSWORD_RESET_TTL = 1
  MaxClock = 2
  Rows <- FourRows
  Resets <- ThreeResets
  SessionReqs <- TwoSessionReqs
  PasswordReqs <- TwoPasswordReqs
  Faults <- DbErrors
CHECK_DEADLOCK FALSE
INVARIANTS
  TypeOK
  SessionsAreNotMultiplied
  ExchangedTokensWorkOnlyIfSignedTwice
  LoggedOutTokensNeverWork
  ResetsEndEarlierTokens
SYMMETRY Symmetry
