SPECIFICATION SessionSpec
CONSTANTS
  Uids = {u1, u2}
  NoUser = NoUser
  Anon = Anon
  Calls = {c1, c2, c3}
  Env <- WriteFaults
SYMMETRY SessionSymmetry
PROPERTY FailedSignupStays
