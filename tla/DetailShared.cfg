SPECIFICATION Spec
CONSTANTS
  Devices = {d1, d2}
  Keys = {k1}
  Images = {i1, i2}
  NoImage = NoImage
  NoDoc = NoDoc
  NoKey = NoKey
  Closed = Closed
  MaxWrites = 2
  Env <- Kills
SYMMETRY DetailSymmetry
INVARIANT ImageBehindUrl
INVARIANT DeletedStaysGone
