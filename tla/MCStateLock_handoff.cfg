SPECIFICATION FairSpec
CONSTANTS
  Daemons = {d1, d2}
  Ghost = ghost
  Pids = {p1, p2}
  Here = here
  Elsewhere = elsewhere
  Absent = absent
  Garbage = garbage
  FlockModes = {"exclusive", "noop", "absent"}
  Pinned = FALSE
  GracefulRelease = TRUE
CHECK_DEADLOCK FALSE
INVARIANTS TypeOK SingleWriter
PROPERTIES FailClosed ImplementsWriterLock BootBounded
