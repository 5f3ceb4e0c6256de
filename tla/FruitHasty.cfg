SPECIFICATION Spec
CONSTANTS
  Uids = {u1, u2}
  NoUser = NoUser
  Anon = Anon
  Calls = {c1, c2}
  Env <- HastyUse
  Fruits = {f1}
  New = New
  Closed = Closed
  MaxWrites = 1
  MaxGets = 1
SYMMETRY FruitSymmetry
INVARIANT OwnedByAccount
INVARIANT RootMatchesLogin
INVARIANT LoginImpliesSavedUser
