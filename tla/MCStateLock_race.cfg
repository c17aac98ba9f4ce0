SPECIFICATION Spec
CONSTANTS
  Daemons = {d1, d2, d3}
  Ghost = ghost
  Pids = {p1, p2, p3}
  Here = here
  Elsewhere = elsewhere
  Absent = absent
  Garbage = garbage
  FlockModes = {"exclusive"}
  Pinned = TRUE
  GracefulRelease = TRUE
SYMMETRY Symmetry
CHECK_DEADLOCK FALSE
INVARIANT SingleWriter
