SPECIFICATION Spec
CONSTANTS
  Devices = {d1}
  Keys = {k1, k2}
  Images = {i1, i2}
  NoImage = NoImage
  NoDoc = NoDoc
  NoKey = NoKey
  Closed = Closed
  MaxWrites = 1
  Env <- NothingFails
SYMMETRY DetailSymmetry
INVARIANT NeverTraps
