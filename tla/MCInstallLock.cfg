CONSTANTS
  p1 = p1
  p2 = p2
  p3 = p3
  i1 = i1
  i2 = i2
  i3 = i3
  i4 = i4
  Process = {p1, p2, p3}
  Inode = {i1, i2, i3, i4}
  NoInode = NoInode
  Nobody = Nobody
  Unsupported = {p3}
SYMMETRY Symmetry
SPECIFICATION LockSpec
INVARIANTS OneOwner AdoptsFromTheDead
