SPECIFICATION Spec
CONSTANTS
  Process = {p1, p2, p3}
  Inode = {i1, i2}
  None = None
SYMMETRY Symmetry
INVARIANTS MutualExclusion PIDNamesHolder NoOrphanLock
