\* Every interrupt source, masks, the serial line and resets.
SPECIFICATION FairSpec
CONSTANTS
  DataBits = 2
  DummyByte = 2
  Tape <- DummyTape
  BitLength = 1
  FastPolls = 1
  Masks <- AllSources
  Values = {3}
  MaxWrites = 1
  MaxCredit = 3
  Outputs = {FALSE}
  Roms = {0}
  Raster = {"vbl"}
  Plus1 = TRUE
  Fast = FALSE
  Resets = TRUE
  Reloads = FALSE
INVARIANTS
  InterruptSeen
PROPERTIES
  LineFollows
