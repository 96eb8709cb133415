\* Two drives, any driver and any user: commands, timers, swaps and switches
\* of the noise in any order.
SPECIFICATION Spec
CONSTANTS
  MaxTrack = 0
  MaxSector = 0
  Bytes <- MCBytes
  Drives = {0, 1}
  Discs = {1}
  NoDisc = 0
  SectorSize = 1
  AddressBytes = 1
  NotFoundPolls = 1
  CpuBytes = {0}
  SectorNumbers = {0, 1}
  Original <- FullOriginal
  Commands <- AnyCommands
  Polite = FALSE
  Swaps = TRUE
  Toggles = TRUE
  MaxMoved = 0
INVARIANTS
  MotorBit
  MotorOnWhileBusy
  RequestOnlyWhileBusy
PROPERTIES
  ProtectedDiscUnchanged
