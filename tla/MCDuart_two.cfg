\* Two channels on the one socket, receiving.
SPECIFICATION Spec
CONSTANTS
  Chars = {1, 2, 3}
  NoChar = 0
  Sizes = {1}
  DefaultSize = 1
  NChannels = 2
  MaxChars = 3
  IntLimit = 3
  Rates = {1}
  PollCycles = {2}
  Commands <- ChannelCommands
  Modes1 = {}
  Modes2 = {}
  OutputPort = {TRUE}
  Masks = {}
  Reads = TRUE
  Resets = TRUE
  ModesFirst = TRUE
INVARIANTS
  NoCharacterOnBothChannels
