SPECIFICATION FairSpec
CONSTANTS
  Books = {b1, b2}
  NoBook = NoBook
  MaxStamp = 4
  MaxRows = 2
  Env <- DiskFaults
INVARIANT EveryBookHasImage
INVARIANT NoSharedImage
INVARIANT CleanContext
INVARIANT Coherent
PROPERTY OnlyStaleListOutOfRange
PROPERTY SavedAsShown
PROPERTY OthersUntouched
PROPERTY ImplementsShelf
PROPERTY SaveLeadsHome
