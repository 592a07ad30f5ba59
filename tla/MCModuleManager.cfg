SPECIFICATION Spec
CONSTANTS
  Loaders = {l1}
  Readers = {r1, r2}
  Manager = host
  Observers = {o1}
  Modules = {m1, m2, m3, m4}
  Paths = {p1, p2}
  Images = {v1, bad}
  ValidImages = {v1}
  None = None
SYMMETRY Symmetry
INVARIANTS
  TypeOK
  HeldIsMapped
  OpensAreOwned
  CountsAreExact
PROPERTIES
  SnapshotsKeepTheirCode
  ImplementsHotSwap
