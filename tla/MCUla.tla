------------------------------- MODULE MCUla -------------------------------
(***************************************************************************)
(* Instances of Ula for TLC: the tapes, of bytes of two bits.              *)
(***************************************************************************)
EXTENDS Ula

MCChunk(id, bytes, polls) ==
  [id |-> id, bytes |-> bytes, narrow |-> FALSE, polls |-> polls]

LongTape ==
  << MCChunk("dummy", <<>>, 0), MCChunk("rate", <<>>, 0),
     MCChunk("data", <<1, 3>>, 0), MCChunk("shorttone", <<>>, 0),
     [MCChunk("defined", <<2>>, 0) EXCEPT !.narrow = TRUE],
     MCChunk("skipped", <<>>, 0), MCChunk("tone", <<>>, 0),
     MCChunk("floatgap", <<>>, 1) >>
DummyTape == << MCChunk("dummy", <<>>, 0), MCChunk("gap", <<>>, 1) >>

AllSources == {Source}
=============================================================================
