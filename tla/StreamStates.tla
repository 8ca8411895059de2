---------------------------- MODULE StreamStates ----------------------------
(***************************************************************************)
(* The state machine of a logical stream (foctet-mux: stream.rs): what     *)
(* close() and a received frame do to StreamState, and which events        *)
(* close() hands to the session.                                           *)
(***************************************************************************)
EXTENDS Frames, Sequences

StreamState == {"Init", "OpenSent", "OpenReceived", "Established",
                "LocalClosing", "RemoteClosing", "Closed", "Reset"}

StreamEvent == [kind : {"Frame", "Closed"}, frame : Frame]

FrameEvent(frame) == [kind |-> "Frame", frame |-> frame]
ClosedEvent(id)   == [kind |-> "Closed", frame |-> Control(id, {})]

\* close(): the state it sets before its first await.
StateAfterClose(state) ==
  IF state \in {"OpenSent", "OpenReceived", "Established", "Init"}
  THEN "LocalClosing"
  ELSE "Closed"

\* Mutant: close() sends the peer its request and never tells the session.
EventsOfCloseUntold(id, state) ==
  IF state \in {"OpenSent", "OpenReceived", "Established", "Init", "RemoteClosing"}
  THEN <<FrameEvent(Control(id, close_request))>> ELSE <<>>

\* close(): the events it then sends, in order.
EventsOfClose(id, state) ==
  (IF state \in {"OpenSent", "OpenReceived", "Established", "Init", "RemoteClosing"}
   THEN <<FrameEvent(Control(id, close_request))>> ELSE <<>>)
  \o
  (IF state \in {"RemoteClosing", "Reset", "Closed", "LocalClosing"}
   THEN <<ClosedEvent(id)>> ELSE <<>>)

\* LogicalStreamReader::set_state_from_flags, the reader of a split stream.
ReaderStateFromFlags(state, flags) ==
  CASE flags = open_request  -> "OpenReceived"
    [] flags = open_response -> "Established"
    [] flags = open_reset    -> "Reset"
    [] OTHER                 -> state

\* LogicalStream::set_state_from_flags, a stream that was not split.
StreamStateFromFlags(state, flags) ==
  CASE flags = close_request  -> "RemoteClosing"
    [] flags = close_response -> "Closed"
    [] OTHER                  -> ReaderStateFromFlags(state, flags)

\* Mutant: no reader looks at the close flags.
set_state_without_close(split, state, flags) == ReaderStateFromFlags(state, flags)

set_state_from_flags(split, state, flags) ==
  IF split THEN ReaderStateFromFlags(state, flags)
           ELSE StreamStateFromFlags(state, flags)
=============================================================================
