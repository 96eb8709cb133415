\* One drive, three tracks of two sectors, an image that ends within the second
\* track, a driver that waits for every command and serves every request.
SPECIFICATION Spec
CONSTANTS
  MaxTrack = 2
  MaxSector = 1
  Bytes <- MCBytes
  Drives = {0}
  Discs = {1}
  NoDisc = 0
  SectorSize = 2
  AddressBytes = 1
  NotFoundPolls = 1
  CpuBytes = {2}
  SectorNumbers = {0, 1}
  Original <- ShortOriginal
  Commands <- DriverCommands
  Polite = TRUE
  Swaps = FALSE
  Toggles = FALSE
  MaxMoved = 2
INVARIANTS
  TypeOK
  TracksNotMixed
  TransferInStep
PROPERTIES
  FormatBlanks
