\* One channel, its transmitter: every transmitter command, TxCTS on and off.
SPECIFICATION Spec
CONSTANTS
  Chars = {1, 2, 3, 4}
  NoChar = 0
  Sizes = {2}
  DefaultSize = 2
  NChannels = 1
  MaxChars = 4
  IntLimit = 4
  Rates = {1}
  PollCycles = {1, 2}
  Commands <- TransmitCommands
  Modes1 = {}
  Modes2 = {TRUE, FALSE}
  OutputPort = {TRUE, FALSE}
  Masks = {}
  Reads = FALSE
  Resets = TRUE
  ModesFirst = TRUE
INVARIANTS
  SentInOrder
  TransmitHandshake
