SPECIFICATION ScreensSpec
CONSTANTS
  Records = {r1, r2}
  Pictures = {p1, p2}
  NoPicture = NoPicture
  NotListed = NotListed
  Cells = {c1}
  NoRow = NoRow
  MaxLoads = 3
  Marks = 3
  Dates = {d1, d2}
  NoDate = NoDate
  Texts <- FourTexts
  NoNumber = NoNumber
  Companies <- ThreeCompanies
  Students = {k1}
  Typed = {t1}
  Empty = Empty
  Adds = Adds
  Shut = Shut
  MaxUploads = 1
INVARIANTS
  SettledCellShowsItsRow
  WheelShowsSelection
  SelectionMatchesText
  ConfirmedDateStays
  BarMatchesText
  RowsMatchArrays
  DeletedStudentGone
  StoredAsTapped
PROPERTIES
  OwnPictureComes
  AnswerShown
  LaunchNotifies
CHECK_DEADLOCK FALSE
