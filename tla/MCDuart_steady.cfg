\* One channel enabled once and left alone, its interrupts masked and unmasked.
SPECIFICATION FairSpec
CONSTANTS
  Chars = {1, 2}
  NoChar = 0
  Sizes = {2}
  DefaultSize = 2
  NChannels = 1
  MaxChars = 2
  IntLimit = 4
  Rates = {1, 2}
  PollCycles = {1, 2}
  Commands <- SteadyCommands
  Modes1 = {}
  Modes2 = {}
  OutputPort = {}
  Masks <- AllSources
  Reads = TRUE
  Resets = FALSE
  ModesFirst = TRUE
INVARIANTS
  NothingLost
PROPERTIES
  AcceptedIsSent
  ArrivedIsTaken
  PollReturns
  InterruptFollows
