SPECIFICATION Spec
CONSTANTS
  Books = {b1, b2}
  NoBook = NoBook
  MaxStamp = 2
  MaxRows = 2
  Env <- SaveFaults
SYMMETRY BookSymmetry
INVARIANT EveryBookHasImage
