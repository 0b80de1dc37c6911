CONSTANTS
  up1 = up1
  up2 = up2
  c1 = c1
  c2 = c2
  i1 = i1
  i2 = i2
  x1 = x1
  x2 = x2
  a1 = a1
  a2 = a2
  Uploader = {up1, up2}
  Committer = {c1, c2}
  Nobody = Nobody
  Upload = {i1, i2}
  None = None
  Archive = {a1, a2}
  Size <- Sizes
  ByteBudget = 2
  EntryBudget = 2
  MaxOperations = 3
  Package = {x1}
  MaxTime = 1
  RenewalAge = 1
  MaxSnapshots = 3
  MaxKeys = 3
SPECIFICATION Spec
SYMMETRY Symmetry
INVARIANTS HeadsAreWhole UploadsAreSound
PROPERTY HistoryOnlyGrows
CHECK_DEADLOCK FALSE
