---------------------------- MODULE MCMuxSession ----------------------------
(* Scenarios of MuxSession for TLC. *)
EXTENDS MuxService

Both       == Side
ClientOnly == {"client"}
ServerOnly == {"server"}
Neither    == {}

\* A frame an application may build for the stream its peer is about to open.
RejectSecond == {Control(2, open_reset)}
=============================================================================
