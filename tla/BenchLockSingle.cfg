SPECIFICATION Spec
CONSTANTS
  Runner = {r1, r2, r3}
  Inode = {i1, i2, i3, i4}
  None = None
INVARIANTS
  SingleRunner
SYMMETRY Symmetry
