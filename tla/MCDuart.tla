------------------------------ MODULE MCDuart ------------------------------
(***************************************************************************)
(* Instances of Duart for TLC: the command and mode values of each run.    *)
(***************************************************************************)
EXTENDS Duart

Cmd(op, rxOn, rxOff, txOn, txOff) ==
  [op |-> op, rxOn |-> rxOn, rxOff |-> rxOff, txOn |-> txOn, txOff |-> txOff]

EnableRx == Cmd("none", TRUE, FALSE, FALSE, FALSE)
DisableRx == Cmd("none", FALSE, TRUE, FALSE, FALSE)
ResetRx == Cmd("resetReceiver", FALSE, FALSE, FALSE, FALSE)
ResetErr == Cmd("resetError", FALSE, FALSE, FALSE, FALSE)
ResetMR == Cmd("resetMR", FALSE, FALSE, FALSE, FALSE)
ResetRxOn == Cmd("resetReceiver", TRUE, TRUE, FALSE, FALSE)
EnableTx == Cmd("none", FALSE, FALSE, TRUE, FALSE)
DisableTx == Cmd("none", FALSE, FALSE, FALSE, TRUE)
ResetTx == Cmd("resetTransmitter", FALSE, FALSE, FALSE, FALSE)

ReceiveCommands == {EnableRx, DisableRx, ResetRx, ResetErr, ResetMR, ResetRxOn}
TransmitCommands == {EnableTx, DisableTx, ResetTx}
SteadyCommands == {EnableRx, EnableTx}
ChannelCommands == {EnableRx, DisableRx, ResetRx}

Mode(size, intFull, rtsControl) ==
  [size |-> size, intFull |-> intFull, rtsControl |-> rtsControl]
BothModes == {Mode(2, FALSE, FALSE), Mode(2, TRUE, TRUE)}

AllSources == {{}, Source}
=============================================================================
