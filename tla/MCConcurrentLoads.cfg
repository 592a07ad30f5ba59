SPECIFICATION LoadsSpec
CONSTANTS
  Loaders = {l1, l2}
  Readers = {r1}
  Manager = host
  Observers = {o1}
  Modules = {m1, m2, m3}
  Paths = {p1, p2}
  Images = {v1, bad}
  ValidImages = {v1}
  None = None
INVARIANTS
  ObserversSeeEverySwap
PROPERTIES
  RetiredAreDeleted
  AllUnmappedInTheEnd
CHECK_DEADLOCK FALSE
