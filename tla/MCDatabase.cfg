SPECIFICATION Spec
CONSTANTS
  HalfRange = 4
  SlotsPerDay = 3
  SlotDuration = 2
  StartTime = 6
  MaxTime = 13
  Reports <- MCReports
INVARIANTS
  TypeOK
  RawHoldsReports
  ArchivesAreComplete
  ArchivesGiveBack
  ChartShowsArchive
