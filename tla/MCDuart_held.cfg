\* A fourth character arrives behind a full FIFO.
SPECIFICATION Spec
CONSTANTS
  Chars = {1, 2, 3, 4, 5}
  NoChar = 0
  Sizes = {2}
  DefaultSize = 2
  NChannels = 1
  MaxChars = 5
  IntLimit = 4
  Rates = {1}
  PollCycles = {1, 2}
  Commands <- SteadyCommands
  Modes1 <- BothModes
  Modes2 = {}
  OutputPort = {}
  Masks = {}
  Reads = TRUE
  Resets = TRUE
  ModesFirst = TRUE
INVARIANTS
  HeldCharacterKept
