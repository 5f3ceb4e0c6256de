SPECIFICATION Spec
CONSTANTS
  Uids = {u1, u2}
  NoUser = NoUser
  Anon = Anon
  Calls = {c1}
  Env <- AllFaults
  Fruits = {f1}
  New = New
  Closed = Closed
  MaxWrites = 2
  MaxGets = 2
SYMMETRY FruitSymmetry
INVARIANT FruitTypeOK
INVARIANT SessionTypeOK
PROPERTY OwnerStable
