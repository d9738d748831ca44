\* A user, new or long established, gets three more events while time passes and the
\* worker recomputes now and then.  The model stops when the events are too old.
SPECIFICATION Spec
CONSTANTS
  Null = Null
  MaxEvents = 3
  Kinds <- SomeKinds
  Histories <- NewAndOldUsers
CHECK_DEADLOCK FALSE
INVARIANTS
  TypeOK
  StaleScoresAreExtreme
  GoodRecordsAreNotFlagged
PROPERTIES
  TimeForgives
  DisputesOutweighMerits
