SPECIFICATION ScreensSpec
CONSTANTS
  week1 = week1
  week2 = week2
  row1 = row1
  row2 = row2
  Panels <- AppPanels
  Subjects <- TwoSubjects
  Rows <- TwoRows
  MaxActs = 3
  Overtaken <- ReloadMayMissASave
  LastReplyWins <- LateReplyStays
  Unheld <- FormsDismissable
  LastBusyOnly <- OneBusyRow
SYMMETRY Alike
INVARIANTS NoTwinWrites NothingStaysBusy  ShowsOwnWrites
PROPERTY ClosesItsOwnForm
CHECK_DEADLOCK FALSE
