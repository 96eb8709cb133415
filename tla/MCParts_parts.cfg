SPECIFICATION Spec
CONSTANTS
  Bits = 3
  Waves = 10
  Tapes <- MCTapes
  MaxOpened = 1
  Files = {"a", "b"}
  Numbers = {2, 15}
  MaxChoices = 3
  LineCells = 4
  PictureCells = 3
  RtcLine = 1
  LastLine = 4
  FrameLines = 5
  CellBytes = 2
  Top = 24
  Modes <- MCModes
  CharRows <- MCCharRows
  Length <- MCLength
  EndLine <- MCEndLine
  Starts <- MCStarts
  Sign = 128
  Configs <- MCConfigs
  Banks <- MCBanks
  MaxSteps = 4
  MaxTrack = 1
  MaxSector = 1
  Bytes <- MCBytes
  Block = 2
  Formats <- MCFormats
  CpuBytes = {1}
  NotFoundPolls = 1
  MaxCommands = 4
INVARIANTS
  PartsTypeOK
  InstructionsRight
  DisplayRight
  LoadedReadsAsSaved
  AdfInStep
  FdiInStep
  CswInOrder
  StartupRight
