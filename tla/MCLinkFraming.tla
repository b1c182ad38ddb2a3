----------------------------- MODULE MCLinkFraming -----------------------------
(***************************************************************************)
(* LinkFraming with its set of frames: two types, and the sequence numbers *)
(* that MaxFrames allows.                                                  *)
(***************************************************************************)
EXTENDS LinkFraming

EncoderDelta == 3               \* a control frame without payload
RadarChunk == 19                \* a bulk frame
Payload(type) == IF type = RadarChunk THEN <<1, 0>> ELSE <<>>

MCFrames ==
  {[type |-> t, sequence |-> n, payload |-> Payload(t)] :
     t \in {EncoderDelta, RadarChunk}, n \in 0..(MaxFrames - 1)}
MCControl == {f \in MCFrames : f.type = EncoderDelta}
=============================================================================
