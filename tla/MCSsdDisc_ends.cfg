\* One drive, three tracks of three one-byte sectors, such a driver, and every
\* timer: each command ends.  A read address leaves the track number in the
\* sector register.
SPECIFICATION FairSpec
CONSTANTS
  MaxTrack = 2
  MaxSector = 2
  Bytes <- MCBytes
  Drives = {0}
  Discs = {1}
  NoDisc = 0
  SectorSize = 1
  AddressBytes = 1
  NotFoundPolls = 1
  CpuBytes = {0}
  SectorNumbers = {0}
  Original <- BlankOriginal
  Commands <- EndsCommands
  Polite = TRUE
  Swaps = FALSE
  Toggles = FALSE
  MaxMoved = 0
PROPERTIES
  CommandEnds
