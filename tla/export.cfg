SPECIFICATION Spec
CONSTANTS
  Capacity = 3
  Symbols <- MCSymbols
  FieldMax = 4
  LineMax = 30
  DigitsMax = 3
  FlagMax = 2
  SizeMax = 40
  U32Max = 15
  KindMax = 11
  ActionMax = 4
  Samples <- MCSamples
  RowCounts = {0, 1, 3}
  Rooms <- MCRooms
  ReportSamples <- MCReportSamples
  NoneText <- MCNoneText
  IndexMod = 8
  StoresPerLine = 2
INVARIANTS TypeOK ImportRestores OnlyAuxIsCut LinesHandedOnce ReportsComeBack
PROPERTIES ExportEnds
