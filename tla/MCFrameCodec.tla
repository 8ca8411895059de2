---------------------------- MODULE MCFrameCodec ----------------------------
(* Frames for TLC: an empty payload, a payload that looks like a header, and *)
(* one longer than what the socket takes at once.                            *)
EXTENDS FrameCodec

MCHeader(id, flags) ==
  [stream_id |-> id, operation_id |-> 0, flags |-> flags, frame_type |-> 2]

MCMessages ==
  {[header |-> MCHeader(198, 1), payload |-> <<>>],
   [header |-> MCHeader(1, 0), payload |-> <<1, 0, 0>>]}
=============================================================================
