------------------------------- MODULE Frames -------------------------------
(***************************************************************************)
(* The frames two sessions exchange (foctet-core: frame.rs, stream.rs).    *)
(* A frame keeps the stream it belongs to, its flags, and a body: 0 for a  *)
(* control frame, n for the n-th data frame a stream sends.  The frame     *)
(* type and the operation id are never read by the session layer and are   *)
(* left out.                                                               *)
(***************************************************************************)
EXTENDS Naturals

CONSTANT
  MaxStreamId   \* u32::MAX

ASSUME MaxStreamIdAssumption == MaxStreamId \in Nat /\ MaxStreamId >= 2

StreamIds == 0 .. MaxStreamId

\* The bits of FrameFlags.
FlagNames == {"REQUEST", "RESPONSE", "OPEN", "CLOSE", "RESET", "FIN", "FRAGMENTED"}

open_request   == {"REQUEST", "OPEN"}
open_response  == {"RESPONSE", "OPEN"}
open_reset     == {"RESPONSE", "OPEN", "RESET"}
close_request  == {"REQUEST", "CLOSE"}
close_response == {"RESPONSE", "CLOSE"}

Frame == [id : StreamIds, flags : SUBSET FlagNames, body : Nat]

\* FrameBuilder for a frame without payload.
Control(id, flags) == [id |-> id, flags |-> flags, body |-> 0]

\* send_bytes: a data frame carries no flags.
Data(id, n) == [id |-> id, flags |-> {}, body |-> n]

\* Mutant: the id leaves its range.
fetch_add_unchecked(id, n) == id + n

\* StreamId::fetch_add keeps the value in range by starting again from 0.
fetch_add(id, n) == IF id + n <= MaxStreamId THEN id + n ELSE 0
=============================================================================
