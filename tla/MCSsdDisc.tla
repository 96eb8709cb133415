----------------------------- MODULE MCSsdDisc -----------------------------
(***************************************************************************)
(* Instances of SsdDisc for TLC: the commands of each run, and the bytes   *)
(* that can be in its registers and buffers.                               *)
(***************************************************************************)
EXTENDS SsdDisc

DriverCommands == {"seek", "read", "write", "format"}
AnyCommands == {"read", "write", "force"}
EndsCommands == {"seek", "in+", "read", "write", "address", "format"}

(* Images as long as the file they come from, each byte its own, or, where  *)
(* bytes do not matter, all bytes 0                                         *)
TrackSize == (MaxSector + 1) * SectorSize
FullLength == (MaxTrack + 1) * TrackSize
Image(length, Byte(_)) ==
  [t \in Tracks |-> [p \in Positions |->
     LET place == t * TrackSize + p
     IN  IF place < length THEN Byte(place) ELSE EndOfFile]]
OwnBytes(length) == [d \in Discs |-> Image(length, LAMBDA place : 10 * d + place)]
FullOriginal == OwnBytes(FullLength)
ShortOriginal == OwnBytes(TrackSize + 1)
BlankOriginal == [d \in Discs |-> Image(FullLength, LAMBDA place : 0)]
MCBytes == Tracks \cup Sectors \cup SectorNumbers \cup CpuBytes
           \cup {0, 1, Blank}
           \cup {10 * d + place : d \in Discs, place \in 0..(FullLength - 1)}
=============================================================================
