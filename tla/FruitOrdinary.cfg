SPECIFICATION FairSpec
CONSTANTS
  Uids = {u1, u2}
  NoUser = NoUser
  Anon = Anon
  Calls = {c1}
  Env <- OrdinaryUse
  Fruits = {f1, f2}
  New = New
  Closed = Closed
  MaxWrites = 2
  MaxGets = 2
INVARIANT ListMatchesStore
INVARIANT DeletedStaysDeleted
INVARIANT SessionConsistent
INVARIANT SessionInv
PROPERTY ImplementsSignedIn
PROPERTY ListSettles
