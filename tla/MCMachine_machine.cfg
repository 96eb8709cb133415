SPECIFICATION Spec
CONSTANTS
  LineCells = 3
  PictureCells = 2
  RtcLine = 1
  LastLine = 3
  FrameLines = 4
  CellBytes = 1
  Top = 16
  Modes <- MCModes
  CharRows <- MCCharRows
  Length <- MCLength
  EndLine <- MCEndLine
  Starts <- MCStarts
  Slice = 2
  UlaModes <- MCUlaModes
  Shapes <- MCShapes
  Masks <- MCMasks
  ModeLines <- MCModeLines
  MaxResets = 1
INVARIANTS TypeOK IrqFresh
PROPERTIES InterruptTaken ImplementsFrame
