\* A tape of every kind of chunk, played, stopped, rewound, removed and really
\* fast, while the CPU sends.  No interrupt is enabled.
SPECIFICATION FairSpec
CONSTANTS
  DataBits = 2
  DummyByte = 2
  Tape <- LongTape
  BitLength = 2
  FastPolls = 2
  Masks = {}
  Values = {3}
  MaxWrites = 1
  MaxCredit = 5
  Outputs = {FALSE}
  Roms = {0}
  Raster = {}
  Plus1 = FALSE
  Fast = TRUE
  Resets = FALSE
  Reloads = TRUE
INVARIANTS
  TypeOK
  ByteOrTone
PROPERTIES
  NoByteSkipped
  LatchedInStep
  TapeIsRead
