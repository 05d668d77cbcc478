SPECIFICATION Spec
CONSTANTS
  Logs <- MCLogs
  Contents <- MCContents
  KeyTypes <- MCKeyTypes
  TicksPerHour = 1
  MaxRecords = 4
  FanIns = {1, 3, 4}
  GroupRows = {1, 2}
INVARIANTS MergeInv FirstArrivalsStaged RowsReadBack StreamedAsWhole FiledByDate NoneLost
PROPERTIES Progress
