\* Ann on both tracks, and Bob with a Page: two requests of theirs and two of
\* administrators overlap, though not about one thing, and may fail.  The model
\* stops when the queue is full.
SPECIFICATION SmallSpec
CONSTANTS
  ann = ann
  bob = bob
  r1 = r1
  r2 = r2
  r3 = r3
  r4 = r4
  blank = blank
  agency = agency
  house = house
  Null = Null
  People <- AnnAndBob
  OwnerReqs <- OwnerRequests
  AdminReqs <- AdminRequests
  Contents <- ThreeContents
  Complete <- CompleteContents
  ProviderType <- TypeOfContents
  Faults <- DbErrors
  MaxSubmissions = 3
SYMMETRY Symmetry
CHECK_DEADLOCK FALSE
INVARIANTS
  VerificationTypeOK
  QueueMatchesItsSubjects
  VerdictsAreAboutWhatIsShown
  ApprovalsCountOnce
  RolesAreEarned
  MailsTellTheVerdict
PROPERTIES
  LifecycleIsKept
