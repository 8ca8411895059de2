----------------------------- MODULE MuxSession -----------------------------
(***************************************************************************)
(* Two foctet-mux sessions over one transport connection (session.rs and   *)
(* stream.rs).  Each side has a SessionActor task that owns the stream     *)
(* tables and serves, one at a time, what tokio::select! hands it: frames  *)
(* from the connection, commands of the Session handle, and events of the  *)
(* logical streams.  The applications on both sides open, accept, use,     *)
(* close and drop streams, and shut the session down or drop it.           *)
(*                                                                         *)
(* A handler that awaits (a full channel, a full socket buffer) keeps the  *)
(* actor where it is: pc says at which await, cur which frame it holds.    *)
(***************************************************************************)
EXTENDS StreamStates, FiniteSets

CONSTANTS
  EventCap,    \* mpsc::channel(32) from the streams to the actor
  ControlCap,  \* mpsc::channel(8) from the Session handle to the actor
  AcceptCap,   \* mpsc::channel(32) of streams waiting for accept_stream
  FrameCap,    \* mpsc::channel(32) from the actor to each stream
  WireCap,     \* frames the socket buffers of one direction hold
  Openers,     \* sides whose application calls open_stream
  Closers,     \* sides whose application calls Session::shutdown
  Droppers,    \* sides whose application may drop the Session handle
  Senders,     \* sides whose application sends data frames
  Splitters,   \* sides whose application splits its streams, as TcpConnection does
  Failures,    \* the connection may fail
  Abandons,    \* a caller may give up waiting for open_stream
  Drops,       \* the application may drop a stream without closing it
  RawFrames,   \* frames of its own making that the application sends
  MaxOpens,    \* bound: open_stream calls of one side
  MaxSends,    \* bound: data frames of one stream
  MaxCloses    \* bound: close() calls on one stream

Side == {"client", "server"}
Peer(s) == IF s = "client" THEN "server" ELSE "client"

ASSUME CapAssumption ==
  /\ {EventCap, ControlCap, AcceptCap, FrameCap, WireCap} \subseteq Nat \ {0}
  /\ {MaxOpens, MaxSends, MaxCloses} \subseteq Nat

ASSUME ScenarioAssumption ==
  /\ Openers \subseteq Side /\ Closers \subseteq Side
  /\ Droppers \subseteq Side /\ Senders \subseteq Side /\ Splitters \subseteq Side
  /\ {Failures, Abandons, Drops} \subseteq BOOLEAN
  /\ RawFrames \subseteq Frame

VARIABLES
  pc,               \* where the SessionActor of each side is
  cur,              \* the frame its current handler holds
  next_stream_id,
  pending_streams,  \* stream id -> open_stream call waiting for the response
  streams,          \* stream id -> logical stream its frames go to
  local_closed,
  remote_closed,
  event_chan, control_chan, stream_chan,
  wire,             \* frames a side has written and its peer has not read
  link,             \* what the peer's reader finds after those frames
  logical,          \* every LogicalStream a side has created, in order
  calls,            \* outcome of every open_stream call, in order
  closer,           \* progress of the Session::shutdown call
  cancel,           \* the CancellationToken
  held              \* the application still holds the Session

actorVars == <<pc, cur, next_stream_id, pending_streams, streams, local_closed,
               remote_closed>>
chanVars  == <<event_chan, control_chan, stream_chan>>
netVars   == <<wire, link>>
appVars   == <<logical, calls, closer, cancel, held>>
vars      == <<actorVars, chanVars, netVars, appVars>>

None     == 0    \* an id that is not a key of the map
Shutdown == 0    \* Command::Shutdown; Command::OpenStream is its call, 1, 2, ...

EmptyMap == [id \in StreamIds |-> None]

PC == {"select",    \* in select!
       "deliver",   \* sender.send(frame).await of a stream's channel
       "offer",     \* stream_sender.send(logical_stream).await
       "respond",   \* writing the open response
       "open",      \* writing an open request
       "write",     \* writing the frame of a stream event
       "closing",   \* left the loop, closing the writer
       "finished"}  \* returned or aborted: everything it owned is dropped

\* rx: "offered" while in the accept channel, "held" by the application.
LogicalStream == [id : StreamIds, by : {"open", "accept"}, state : StreamState,
                  rx : {"offered", "held", "dropped"},
                  chan : Seq(Frame),        \* frames from the actor
                  out : Seq(StreamEvent),   \* events an operation still sends
                  sent : Nat, got : Seq(Nat), closes : Nat, peer_closed : BOOLEAN]

NewStream(id, by, rx) ==
  [id |-> id, by |-> by, state |-> "Established", rx |-> rx, chan |-> <<>>,
   out |-> <<>>, sent |-> 0, got |-> <<>>, closes |-> 0, peer_closed |-> FALSE]

\* The receiver is dropped, and the frames it still held.
Dropped(l) == [l EXCEPT !.rx = "dropped", !.chan = <<>>]

CallStatus == {"waiting", "abandoned", "ok", "err"}

TypeOK ==
  /\ pc \in [Side -> PC]
  /\ cur \in [Side -> Frame]
  /\ next_stream_id \in [Side -> StreamIds]
  /\ pending_streams \in [Side -> [StreamIds -> Nat]]
  /\ streams \in [Side -> [StreamIds -> Nat]]
  /\ local_closed \in [Side -> BOOLEAN]
  /\ remote_closed \in [Side -> BOOLEAN]
  /\ event_chan \in [Side -> Seq(StreamEvent)]
  /\ control_chan \in [Side -> Seq(Nat)]
  /\ stream_chan \in [Side -> Seq(Nat)]
  /\ wire \in [Side -> Seq(Frame)]
  /\ link \in [Side -> {"open", "eof", "gone"}]
  /\ logical \in [Side -> Seq(LogicalStream)]
  /\ calls \in [Side -> Seq(CallStatus)]
  /\ closer \in [Side -> {"idle", "sent", "replied", "done"}]
  /\ cancel \in [Side -> BOOLEAN]
  /\ held \in [Side -> BOOLEAN]

NoFrame == Control(0, {})

\* Session::spawn on both ends of a fresh connection.
Init ==
  /\ pc = [s \in Side |-> "select"]
  /\ cur = [s \in Side |-> NoFrame]
  /\ next_stream_id = [s \in Side |-> IF s = "client" THEN 1 ELSE 2]
  /\ pending_streams = [s \in Side |-> EmptyMap]
  /\ streams = [s \in Side |-> EmptyMap]
  /\ local_closed = [s \in Side |-> FALSE]
  /\ remote_closed = [s \in Side |-> FALSE]
  /\ event_chan = [s \in Side |-> <<>>]
  /\ control_chan = [s \in Side |-> <<>>]
  /\ stream_chan = [s \in Side |-> <<>>]
  /\ wire = [s \in Side |-> <<>>]
  /\ link = [s \in Side |-> "open"]
  /\ logical = [s \in Side |-> <<>>]
  /\ calls = [s \in Side |-> <<>>]
  /\ closer = [s \in Side |-> "idle"]
  /\ cancel = [s \in Side |-> FALSE]
  /\ held = [s \in Side |-> TRUE]

-----------------------------------------------------------------------------
(* The actor: one select! branch, or one await of a handler, at a time.    *)

\* The outcome r of open_stream call c reaches its caller, if it still waits.
Reply(s, c, r) == [calls EXCEPT ![s][c] = IF @ = "waiting" THEN r ELSE @]

\* The loop ends: shutdown() clears the stream table and closes the writer.
Break(s) ==
  /\ pc' = [pc EXCEPT ![s] = "closing"]
  /\ streams' = [streams EXCEPT ![s] = EmptyMap]

\* No byte that s writes will be read any more.
Dead(s) == pc[Peer(s)] = "finished" \/ link[s] = "gone"

Incoming(s) == Head(wire[Peer(s)])

\* select! takes framed_reader.next() = Some(Ok(frame)).
TakeFrame(s) ==
  /\ pc[s] = "select"
  /\ wire[Peer(s)] # <<>>
  /\ wire' = [wire EXCEPT ![Peer(s)] = Tail(@)]
  /\ UNCHANGED <<link, next_stream_id, local_closed, remote_closed, chanVars,
                 closer, cancel, held>>

\* handle_incoming_frame, first branch: the stream is in the table.
ReceiveForStream(s) ==
  /\ TakeFrame(s)
  /\ streams[s][Incoming(s).id] # None
  /\ pc' = [pc EXCEPT ![s] = "deliver"]
  /\ cur' = [cur EXCEPT ![s] = Incoming(s)]
  /\ UNCHANGED <<pending_streams, streams, logical, calls>>

\* Mutant: try_send, which drops the frame when the channel is full.
DeliverOrDrop(s) ==
  LET k == streams[s][cur[s].id]
  IN /\ pc[s] = "deliver"
     /\ logical' = IF logical[s][k].rx # "dropped" /\ Len(logical[s][k].chan) < FrameCap
                   THEN [logical EXCEPT ![s][k].chan = Append(@, cur[s])]
                   ELSE logical
     /\ pc' = [pc EXCEPT ![s] = "select"]
     /\ cur' = [cur EXCEPT ![s] = NoFrame]
     /\ UNCHANGED <<next_stream_id, pending_streams, streams, local_closed, remote_closed,
                    chanVars, netVars, calls, closer, cancel, held>>

\* Its sender.send(frame).await: waits for room, fails once the receiver is gone.
Deliver(s) ==
  LET id == cur[s].id
      k  == streams[s][id]
  IN /\ pc[s] = "deliver"
     /\ \/ /\ logical[s][k].rx # "dropped"
           /\ Len(logical[s][k].chan) < FrameCap
           /\ logical' = [logical EXCEPT ![s][k].chan = Append(@, cur[s])]
           /\ UNCHANGED streams
        \/ /\ logical[s][k].rx = "dropped"
           /\ streams' = [streams EXCEPT ![s][id] = None]
           /\ UNCHANGED logical
     /\ pc' = [pc EXCEPT ![s] = "select"]
     /\ cur' = [cur EXCEPT ![s] = NoFrame]
     /\ UNCHANGED <<next_stream_id, pending_streams, local_closed, remote_closed,
                    chanVars, netVars, calls, closer, cancel, held>>

\* Mutant: the sender is filed under the id of the next own stream.
RegisterUnderNextId(s, id, stream) ==
  /\ logical' = [logical EXCEPT ![s] = Append(@, stream)]
  /\ streams' = [streams EXCEPT ![s][next_stream_id[s]] = Len(logical[s]) + 1]

\* A LogicalStream is made, and its sender enters the table under id.
Register(s, id, stream) ==
  /\ logical' = [logical EXCEPT ![s] = Append(@, stream)]
  /\ streams' = [streams EXCEPT ![s][id] = Len(logical[s]) + 1]

\* handle_incoming_frame: the peer opens a stream.
ReceiveOpenRequest(s) ==
  LET id == Incoming(s).id
  IN /\ TakeFrame(s)
     /\ streams[s][id] = None
     /\ Incoming(s).flags = open_request
     /\ Register(s, id, NewStream(id, "accept", "offered"))
     /\ pc' = [pc EXCEPT ![s] = "offer"]
     /\ cur' = [cur EXCEPT ![s] = Incoming(s)]
     /\ UNCHANGED <<pending_streams, calls>>

\* Its stream_sender.send(logical_stream).await; it answers either way.
Offer(s) ==
  LET id == cur[s].id
      k  == streams[s][id]
  IN /\ pc[s] = "offer"
     /\ \/ /\ held[s]
           /\ Len(stream_chan[s]) < AcceptCap
           /\ stream_chan' = [stream_chan EXCEPT ![s] = Append(@, k)]
           /\ UNCHANGED <<streams, logical>>
        \/ /\ ~held[s]
           /\ streams' = [streams EXCEPT ![s][id] = None]
           /\ logical' = [logical EXCEPT ![s][k] = Dropped(@)]
           /\ UNCHANGED stream_chan
     /\ pc' = [pc EXCEPT ![s] = "respond"]
     /\ cur' = [cur EXCEPT ![s] = Control(id, open_response)]
     /\ UNCHANGED <<next_stream_id, pending_streams, local_closed, remote_closed,
                    event_chan, control_chan, netVars, calls, closer, cancel, held>>

\* handle_incoming_frame: the peer answered one of our open requests.
ReceiveOpenResponse(s) ==
  LET id == Incoming(s).id
      c  == pending_streams[s][id]
  IN /\ TakeFrame(s)
     /\ streams[s][id] = None
     /\ Incoming(s).flags = open_response
     /\ c # None
     /\ pending_streams' = [pending_streams EXCEPT ![s][id] = None]
     /\ Register(s, id, NewStream(id, "open", IF calls[s][c] = "waiting"
                                              THEN "held" ELSE "dropped"))
     /\ calls' = Reply(s, c, "ok")
     /\ UNCHANGED <<pc, cur>>

\* Mutant: a rejected call is told that it succeeded.
ReceiveOpenResetAsOk(s) ==
  LET id == Incoming(s).id
      c  == pending_streams[s][id]
  IN /\ TakeFrame(s)
     /\ streams[s][id] = None
     /\ Incoming(s).flags = open_reset
     /\ c # None
     /\ pending_streams' = [pending_streams EXCEPT ![s][id] = None]
     /\ calls' = Reply(s, c, "ok")
     /\ UNCHANGED <<pc, cur, streams, logical>>

\* handle_incoming_frame: the peer rejected one of our open requests.
ReceiveOpenReset(s) ==
  LET id == Incoming(s).id
      c  == pending_streams[s][id]
  IN /\ TakeFrame(s)
     /\ streams[s][id] = None
     /\ Incoming(s).flags = open_reset
     /\ c # None
     /\ pending_streams' = [pending_streams EXCEPT ![s][id] = None]
     /\ calls' = Reply(s, c, "err")
     /\ UNCHANGED <<pc, cur, streams, logical>>

\* handle_incoming_frame: nobody knows the stream; the frame is dropped.
ReceiveStray(s) ==
  /\ TakeFrame(s)
  /\ streams[s][Incoming(s).id] = None
  /\ Incoming(s).flags # open_request
  /\ Incoming(s).flags \in {open_response, open_reset} =>
       pending_streams[s][Incoming(s).id] = None
  /\ UNCHANGED <<pc, cur, pending_streams, streams, logical, calls>>

\* Mutant: the loop goes on after a read error.
ReadErrorIgnored(s) ==
  /\ pc[s] = "select"
  /\ wire[Peer(s)] = <<>> /\ link[Peer(s)] = "gone"
  /\ remote_closed' = [remote_closed EXCEPT ![s] = TRUE]
  /\ UNCHANGED <<pc, cur, next_stream_id, pending_streams, streams, local_closed,
                 chanVars, netVars, appVars>>

\* select! takes framed_reader.next() = Some(Err(e)).  A clean end of the
\* connection is None: that branch of select! is then disabled, no step.
ReadError(s) ==
  /\ pc[s] = "select"
  /\ wire[Peer(s)] = <<>> /\ link[Peer(s)] = "gone"
  /\ remote_closed' = [remote_closed EXCEPT ![s] = TRUE]
  /\ Break(s)
  /\ UNCHANGED <<cur, next_stream_id, pending_streams, local_closed, chanVars,
                 netVars, appVars>>

\* Mutant: the command stays in the channel.
PeekCommand(s) ==
  /\ pc[s] = "select"
  /\ control_chan[s] # <<>>
  /\ UNCHANGED control_chan

\* select! takes control_receiver.recv() = Some(cmd).
TakeCommand(s) ==
  /\ pc[s] = "select"
  /\ control_chan[s] # <<>>
  /\ control_chan' = [control_chan EXCEPT ![s] = Tail(@)]

\* handle_control_command, OpenStream: reserve an id, then write the request.
HandleOpen(s) ==
  LET c  == Head(control_chan[s])
      id == next_stream_id[s]
  IN /\ TakeCommand(s)
     /\ c # Shutdown
     /\ next_stream_id' = [next_stream_id EXCEPT ![s] = fetch_add(id, 1)]
     /\ pending_streams' = [pending_streams EXCEPT ![s][id] = c]
        \* insert drops the sender an earlier call left under this id
     /\ calls' = IF pending_streams[s][id] = None THEN calls
                 ELSE Reply(s, pending_streams[s][id], "err")
     /\ pc' = [pc EXCEPT ![s] = "open"]
     /\ cur' = [cur EXCEPT ![s] = Control(id, open_request)]
     /\ UNCHANGED <<streams, local_closed, remote_closed, event_chan, stream_chan,
                    netVars, logical, closer, cancel, held>>

\* handle_control_command, Shutdown.
HandleShutdown(s) ==
  /\ TakeCommand(s)
  /\ Head(control_chan[s]) = Shutdown
  /\ local_closed' = [local_closed EXCEPT ![s] = TRUE]
  /\ closer' = [closer EXCEPT ![s] = "replied"]
  /\ UNCHANGED <<pc, cur, next_stream_id, pending_streams, streams, remote_closed,
                 event_chan, stream_chan, netVars, logical, calls, cancel, held>>

\* handle_stream_event, Frame: write it to the connection.
HandleFrameEvent(s) ==
  /\ pc[s] = "select"
  /\ event_chan[s] # <<>> /\ Head(event_chan[s]).kind = "Frame"
  /\ event_chan' = [event_chan EXCEPT ![s] = Tail(@)]
  /\ pc' = [pc EXCEPT ![s] = "write"]
  /\ cur' = [cur EXCEPT ![s] = Head(event_chan[s]).frame]
  /\ UNCHANGED <<next_stream_id, pending_streams, streams, local_closed,
                 remote_closed, control_chan, stream_chan, netVars, appVars>>

\* handle_stream_event, Closed: forget the stream.
HandleClosedEvent(s) ==
  /\ pc[s] = "select"
  /\ event_chan[s] # <<>> /\ Head(event_chan[s]).kind = "Closed"
  /\ event_chan' = [event_chan EXCEPT ![s] = Tail(@)]
  /\ streams' = [streams EXCEPT ![s][Head(event_chan[s]).frame.id] = None]
  /\ UNCHANGED <<pc, cur, next_stream_id, pending_streams, local_closed,
                 remote_closed, control_chan, stream_chan, netVars, appVars>>

\* framed_writer.send(frame).await returns Ok: the socket took every byte.
WriteOk(s) ==
  /\ pc[s] \in {"respond", "open", "write"}
  /\ \/ /\ ~Dead(s)
        /\ Len(wire[s]) < WireCap
        /\ wire' = [wire EXCEPT ![s] = Append(@, cur[s])]
     \/ /\ Dead(s)
        /\ UNCHANGED wire
  /\ pc' = [pc EXCEPT ![s] = "select"]
  /\ cur' = [cur EXCEPT ![s] = NoFrame]
  /\ UNCHANGED <<next_stream_id, pending_streams, streams, local_closed,
                 remote_closed, chanVars, link, appVars>>

\* It returns an error: the open response is given up, the others end the loop.
\* With the open request goes the reply channel of its call.
WriteError(s) ==
  /\ pc[s] \in {"respond", "open", "write"}
  /\ Dead(s)
  /\ IF pc[s] = "respond"
     THEN pc' = [pc EXCEPT ![s] = "select"] /\ UNCHANGED streams
     ELSE Break(s)
  /\ calls' = IF pc[s] = "open" THEN Reply(s, pending_streams[s][cur[s].id], "err")
              ELSE calls
  /\ cur' = [cur EXCEPT ![s] = NoFrame]
  /\ UNCHANGED <<next_stream_id, pending_streams, local_closed, remote_closed,
                 chanVars, netVars, logical, closer, cancel, held>>

\* select! takes cancel.cancelled().
HandleCancel(s) ==
  /\ pc[s] = "select"
  /\ cancel[s]
  /\ Break(s)
  /\ UNCHANGED <<cur, next_stream_id, pending_streams, local_closed,
                 remote_closed, chanVars, netVars, appVars>>

\* Mutant: the reply channels outlive the actor.
KeepReplies(outcomes) == outcomes

\* The reply channels are dropped: whoever waits gets an error.
DropReplies(outcomes) ==
  [c \in DOMAIN outcomes |-> IF outcomes[c] = "waiting" THEN "err" ELSE outcomes[c]]

\* The actor is dropped, and with it its channels, tables and socket halves.
Finish(s, how) ==
  /\ pc' = [pc EXCEPT ![s] = "finished"]
  /\ cur' = [cur EXCEPT ![s] = NoFrame]
  /\ pending_streams' = [pending_streams EXCEPT ![s] = EmptyMap]
  /\ streams' = [streams EXCEPT ![s] = EmptyMap]
  /\ event_chan' = [event_chan EXCEPT ![s] = <<>>]
  /\ control_chan' = [control_chan EXCEPT ![s] = <<>>]
  /\ calls' = [calls EXCEPT ![s] = DropReplies(@)]
  /\ link' = [link EXCEPT ![s] = how]
  /\ wire' = [wire EXCEPT ![Peer(s)] = <<>>]
  /\ UNCHANGED <<next_stream_id, local_closed, remote_closed, stream_chan,
                 closer, cancel, held>>

\* shutdown(): framed_writer.close().await, then run returns.
CloseWriter(s) ==
  /\ pc[s] = "closing"
  /\ Dead(s) \/ Len(wire[s]) < WireCap
  /\ Finish(s, IF Dead(s) THEN "gone" ELSE "eof")
  /\ UNCHANGED logical

\* AbortOnDropHandle: the task is dropped at an await, the connection with it.
\* A stream the actor was handing over goes too.
Abort(s) ==
  /\ ~held[s]
  /\ pc[s] # "finished"
  /\ Finish(s, "gone")
  /\ logical' = IF pc[s] # "offer" THEN logical
                ELSE [logical EXCEPT ![s][streams[s][cur[s].id]] = Dropped(@)]

Actor(s) ==
  \/ ReceiveForStream(s) \/ Deliver(s)
  \/ ReceiveOpenRequest(s) \/ Offer(s)
  \/ ReceiveOpenResponse(s) \/ ReceiveOpenReset(s) \/ ReceiveStray(s)
  \/ ReadError(s)
  \/ HandleOpen(s) \/ HandleShutdown(s)
  \/ HandleFrameEvent(s) \/ HandleClosedEvent(s)
  \/ WriteOk(s) \/ WriteError(s)
  \/ HandleCancel(s) \/ CloseWriter(s) \/ Abort(s)
-----------------------------------------------------------------------------
(* The applications.                                                       *)

\* Session::open_stream: the command goes into the channel, unless the actor,
\* and with it the receiver, is gone.
OpenStream(s) ==
  /\ s \in Openers /\ held[s]
  /\ Len(calls[s]) < MaxOpens
  /\ \/ /\ pc[s] # "finished" /\ Len(control_chan[s]) < ControlCap
        /\ calls' = [calls EXCEPT ![s] = Append(@, "waiting")]
        /\ control_chan' = [control_chan EXCEPT ![s] = Append(@, Len(calls[s]) + 1)]
     \/ /\ pc[s] = "finished"
        /\ calls' = [calls EXCEPT ![s] = Append(@, "err")]
        /\ UNCHANGED control_chan
  /\ UNCHANGED <<actorVars, event_chan, stream_chan, netVars, logical, closer,
                 cancel, held>>

\* The caller drops the open_stream future.
AbandonOpen(s, c) ==
  /\ Abandons
  /\ c \in DOMAIN calls[s] /\ calls[s][c] = "waiting"
  /\ calls' = [calls EXCEPT ![s][c] = "abandoned"]
  /\ UNCHANGED <<actorVars, chanVars, netVars, logical, closer, cancel, held>>

\* Session::accept_stream.
AcceptStream(s) ==
  /\ held[s]
  /\ stream_chan[s] # <<>>
  /\ stream_chan' = [stream_chan EXCEPT ![s] = Tail(@)]
  /\ logical' = [logical EXCEPT ![s][Head(stream_chan[s])].rx = "held"]
  /\ UNCHANGED <<actorVars, event_chan, control_chan, netVars, calls, closer,
                 cancel, held>>

\* Stream k of side s is in the application's hands and no operation of it runs.
Idle(s, k) ==
  /\ k \in DOMAIN logical[s]
  /\ logical[s][k].rx = "held" /\ logical[s][k].out = <<>>

\* send_bytes.
SendBytes(s, k) ==
  /\ s \in Senders /\ Idle(s, k)
  /\ logical[s][k].sent < MaxSends
  /\ pc[s] # "finished"
  /\ logical' = [logical EXCEPT ![s][k].out =
                   <<FrameEvent(Data(logical[s][k].id, logical[s][k].sent + 1))>>]
  /\ UNCHANGED <<actorVars, chanVars, netVars, calls, closer, cancel, held>>

\* send_frame with a frame the application built.
SendFrame(s, k, f) ==
  /\ Idle(s, k)
  /\ pc[s] # "finished"
  /\ logical' = [logical EXCEPT ![s][k].out = <<FrameEvent(f)>>]
  /\ UNCHANGED <<actorVars, chanVars, netVars, calls, closer, cancel, held>>

\* close(): the new state, and the events it is going to send.
AfterClose(l) ==
  [l EXCEPT !.state = StateAfterClose(@), !.out = EventsOfClose(l.id, l.state),
            !.closes = @ + 1]

Close(s, k) ==
  /\ Idle(s, k)
  /\ logical[s][k].closes < MaxCloses
  /\ logical' = [logical EXCEPT ![s][k] = AfterClose(@)]
  /\ UNCHANGED <<actorVars, chanVars, netVars, calls, closer, cancel, held>>

\* The first of the events is sent; sent counts the data frames.
AfterSend(l) ==
  LET e == Head(l.out)
  IN [l EXCEPT !.out = Tail(@), !.sent = IF e.frame.body # 0 THEN e.frame.body ELSE @]

\* One frame_sender.send(event).await of the operation that runs on stream k.
\* Without a receiver it fails, and the operation with it.
SendEvent(s, k) ==
  /\ k \in DOMAIN logical[s] /\ logical[s][k].out # <<>>
  /\ \/ /\ pc[s] # "finished" /\ Len(event_chan[s]) < EventCap
        /\ event_chan' = [event_chan EXCEPT ![s] = Append(@, Head(logical[s][k].out))]
        /\ logical' = [logical EXCEPT ![s][k] = AfterSend(@)]
     \/ /\ pc[s] = "finished"
        /\ logical' = [logical EXCEPT ![s][k].out = <<>>]
        /\ UNCHANGED event_chan
  /\ UNCHANGED <<actorVars, control_chan, stream_chan, netVars, calls, closer,
                 cancel, held>>

\* Mutant: the frame stays in the channel.
AfterPeek(split, l) ==
  LET f == Head(l.chan)
  IN [l EXCEPT !.state = set_state_from_flags(split, @, f.flags),
               !.got = IF f.body # 0 THEN Append(@, f.body) ELSE @,
               !.peer_closed = @ \/ f.flags = close_request]

\* The first frame in the channel is handed to the application.
AfterRecv(split, l) ==
  LET f == Head(l.chan)
  IN [l EXCEPT !.chan = Tail(@),
               !.state = set_state_from_flags(split, @, f.flags),
               !.got = IF f.body # 0 THEN Append(@, f.body) ELSE @,
               !.peer_closed = @ \/ f.flags = close_request]

\* recv_frame.
RecvFrame(s, k) ==
  /\ k \in DOMAIN logical[s]
  /\ logical[s][k].rx = "held" /\ logical[s][k].chan # <<>>
  /\ s \in Splitters \/ logical[s][k].out = <<>>
  /\ logical' = [logical EXCEPT ![s][k] = AfterRecv(s \in Splitters, @)]
  /\ UNCHANGED <<actorVars, chanVars, netVars, calls, closer, cancel, held>>

\* The application drops the stream, both halves of it.
DropStream(s, k) ==
  /\ Drops
  /\ Idle(s, k)
  /\ logical' = [logical EXCEPT ![s][k] = Dropped(@)]
  /\ UNCHANGED <<actorVars, chanVars, netVars, calls, closer, cancel, held>>

\* Session::shutdown up to the await of the reply.
ShutdownSession(s) ==
  /\ s \in Closers /\ held[s]
  /\ closer[s] = "idle"
  /\ pc[s] # "finished" /\ Len(control_chan[s]) < ControlCap
  /\ control_chan' = [control_chan EXCEPT ![s] = Append(@, Shutdown)]
  /\ closer' = [closer EXCEPT ![s] = "sent"]
  /\ UNCHANGED <<actorVars, event_chan, stream_chan, netVars, logical, calls,
                 cancel, held>>

\* Mutant: the token is not cancelled.
ShutdownReturnsOnly(s) ==
  /\ closer[s] = "replied" \/ (closer[s] = "sent" /\ pc[s] = "finished")
  /\ closer' = [closer EXCEPT ![s] = "done"]
  /\ UNCHANGED <<actorVars, chanVars, netVars, logical, calls, cancel, held>>

\* Session::shutdown after it: a reply, or none because the actor is gone.
ShutdownReturns(s) ==
  /\ closer[s] = "replied" \/ (closer[s] = "sent" /\ pc[s] = "finished")
  /\ cancel' = [cancel EXCEPT ![s] = TRUE]
  /\ closer' = [closer EXCEPT ![s] = "done"]
  /\ UNCHANGED <<actorVars, chanVars, netVars, logical, calls, held>>

\* The application drops the Session, which no call of its borrows any more.
\* The streams still in the accept channel go with it.
DropSession(s) ==
  /\ s \in Droppers /\ held[s]
  /\ \A c \in DOMAIN calls[s] : calls[s][c] # "waiting"
  /\ closer[s] \in {"idle", "done"}
  /\ held' = [held EXCEPT ![s] = FALSE]
  /\ stream_chan' = [stream_chan EXCEPT ![s] = <<>>]
  /\ logical' = [logical EXCEPT ![s] =
                   [k \in DOMAIN @ |->
                      IF \E i \in DOMAIN stream_chan[s] : stream_chan[s][i] = k
                      THEN Dropped(@[k]) ELSE @[k]]]
  /\ UNCHANGED <<actorVars, event_chan, control_chan, netVars, calls, closer, cancel>>

\* The network: the connection fails and what was on its way is lost.
Sever ==
  /\ Failures
  /\ \E s \in Side : link[s] = "open"
  /\ link' = [s \in Side |-> "gone"]
  /\ wire' = [s \in Side |-> <<>>]
  /\ UNCHANGED <<actorVars, chanVars, appVars>>

MaxStreams == 2 * MaxOpens

App(s) ==
  \/ OpenStream(s) \/ AcceptStream(s)
  \/ \E c \in 1 .. MaxOpens : AbandonOpen(s, c)
  \/ \E k \in 1 .. MaxStreams :
       \/ SendBytes(s, k) \/ Close(s, k) \/ SendEvent(s, k) \/ RecvFrame(s, k)
       \/ DropStream(s, k)
       \/ \E f \in RawFrames : SendFrame(s, k, f)
  \/ ShutdownSession(s) \/ ShutdownReturns(s) \/ DropSession(s)

Next == Sever \/ \E s \in Side : Actor(s) \/ App(s)

Spec == Init /\ [][Next]_vars
-----------------------------------------------------------------------------
(* Fairness.  A task that can go on is polled again; select! starts from a *)
(* random branch, so none that stays ready is passed over for ever.  What  *)
(* the application begins is its own choice, except that it keeps          *)
(* accepting streams and reading those it has.                             *)

ActorFairness(s) ==
  /\ WF_vars(ReceiveForStream(s) \/ ReceiveOpenRequest(s) \/ ReceiveOpenResponse(s)
             \/ ReceiveOpenReset(s) \/ ReceiveStray(s) \/ ReadError(s))
  /\ WF_vars(HandleOpen(s) \/ HandleShutdown(s))
  /\ WF_vars(HandleFrameEvent(s) \/ HandleClosedEvent(s))
  /\ WF_vars(HandleCancel(s))
  /\ WF_vars(Deliver(s)) /\ WF_vars(Offer(s))
  /\ WF_vars(WriteOk(s) \/ WriteError(s))
  /\ WF_vars(CloseWriter(s)) /\ WF_vars(Abort(s))

AppFairness(s) ==
  /\ WF_vars(AcceptStream(s))
  /\ WF_vars(ShutdownReturns(s))
  /\ \A k \in 1 .. MaxStreams : WF_vars(SendEvent(s, k)) /\ WF_vars(RecvFrame(s, k))

FairSpec == Spec /\ \A s \in Side : ActorFairness(s) /\ AppFairness(s)

-----------------------------------------------------------------------------
(* Properties.                                                             *)

Queued(s, c)  == \E i \in DOMAIN control_chan[s] : control_chan[s][i] = c
Pending(s, c) == \E id \in StreamIds : pending_streams[s][id] = c

\* Every open_stream call that still waits is known to a live actor: its command
\* is queued, or its reply channel is in pending_streams.  Nobody waits on a
\* reply channel that was forgotten, whatever is aborted, cancelled, severed or
\* overwritten after the ids have wrapped around.
OpenAccounted ==
  \A s \in Side : \A c \in DOMAIN calls[s] :
    calls[s][c] = "waiting" => pc[s] # "finished" /\ (Queued(s, c) \/ Pending(s, c))

OneServer(s) ==
  /\ \A i, j \in DOMAIN control_chan[s] :
       control_chan[s][i] = control_chan[s][j] /\ control_chan[s][i] # Shutdown => i = j
  /\ \A i, j \in StreamIds :
       pending_streams[s][i] = pending_streams[s][j] /\ pending_streams[s][i] # None => i = j
  /\ \A i \in DOMAIN control_chan[s], id \in StreamIds :
       control_chan[s][i] = pending_streams[s][id] => pending_streams[s][id] = None

\* And by one place only: no call is queued twice, pending under two ids, or
\* both queued and pending, so that no call can be served twice.
ServedOnce == \A s \in Side : OneServer(s)

\* Frames are routed to the stream they name: the table never leads to a
\* stream of another id, whatever ids the applications close or reuse.
RoutesToOwnId ==
  \A s \in Side : \A id \in StreamIds :
    LET k == streams[s][id]
    IN k # None => k \in DOMAIN logical[s] /\ logical[s][k].id = id

\* Among the frames, the data frames of stream id are a+1, ..., b, in this order.
Numbered(frames, id, a, b) ==
  LET mine == {i \in DOMAIN frames : frames[i].id = id /\ frames[i].body # 0}
  IN /\ {frames[i].body : i \in mine} = a + 1 .. b
     /\ \A i, j \in mine : i < j => frames[i].body < frames[j].body

Frames(events) == [i \in DOMAIN events |-> events[i].frame]

\* The frame that the actor of s holds at an await.
InHand(s, await) == IF pc[s] = await THEN <<cur[s]>> ELSE <<>>

\* The frames between the application of s and stream j of its peer, the oldest
\* first.
InTransit(s, j) ==
  LET p == Peer(s)
  IN logical[p][j].chan \o InHand(p, "deliver") \o wire[s]
     \o InHand(s, "write") \o Frames(event_chan[s])

Up(s) == pc[s] \notin {"closing", "finished"} /\ link[s] = "open"

\* While both actors serve the connection and the receiving stream is in the
\* table, a frame whose send returned Ok is received or on its way: neither a
\* full channel nor a full socket nor another stream's close loses one.
Conserved ==
  \A s \in Side : \A k \in DOMAIN logical[s], j \in DOMAIN logical[Peer(s)] :
    LET id == logical[s][k].id
        r  == logical[Peer(s)][j]
    IN (/\ Up(s) /\ Up(Peer(s))
        /\ r.id = id /\ r.rx # "dropped" /\ streams[Peer(s)][id] = j)
       => /\ r.got = [i \in 1 .. Len(r.got) |-> i]
          /\ Numbered(InTransit(s, j), id, Len(r.got), logical[s][k].sent)

\* Once close() has closed a stream and the actor has seen its last event, the
\* table has let go of it.
ClosedReleased ==
  \A s \in Side : \A k \in DOMAIN logical[s] :
    LET l == logical[s][k]
    IN (/\ l.state = "Closed" /\ l.out = <<>>
        /\ ClosedEvent(l.id) \notin {event_chan[s][i] : i \in DOMAIN event_chan[s]})
       => streams[s][l.id] # k

\* A whole stream that has returned the peer's close request is in a state that
\* says so.  The reader of a split one ignores the close flags.
RemoteCloseObserved ==
  \A s \in Side \ Splitters : \A k \in DOMAIN logical[s] :
    logical[s][k].peer_closed => logical[s][k].state \in {"RemoteClosing", "Closed"}

\* A stream id identifies one stream of the connection: while a side waits for
\* the answer to an open request, its table has no other stream under that id.
PendingIdFresh ==
  \A s \in Side : \A id \in StreamIds :
    pending_streams[s][id] # None => streams[s][id] = None

Waiting(s, c) == c \in DOMAIN calls[s] /\ calls[s][c] = "waiting"

\* Both actors are writing to a full socket that the other one, busy writing,
\* does not read.
Jammed ==
  \A s \in Side : /\ pc[s] \in {"respond", "open", "write", "closing"}
                  /\ ~Dead(s) /\ Len(wire[s]) = WireCap

\* Every open_stream call returns, with two exceptions only: the actors block
\* each other, or the peer ended the connection cleanly, which select! ignores.
OpenReturns ==
  \A s \in Side : \A c \in 1 .. MaxOpens :
    Waiting(s, c) ~> (~Waiting(s, c) \/ Jammed \/ link[Peer(s)] = "eof")

\* Every data frame whose send returned Ok is received by the peer's stream,
\* unless one of the actors ends or the connection does.
DataArrives ==
  \A s \in Side : \A k \in 1 .. MaxStreams, n \in 1 .. MaxSends :
    (k \in DOMAIN logical[s] /\ logical[s][k].sent >= n)
    ~> \/ ~Up(s) \/ ~Up(Peer(s))
       \/ k \in DOMAIN logical[s] /\ \E j \in DOMAIN logical[Peer(s)] :
            /\ logical[Peer(s)][j].id = logical[s][k].id
            /\ Len(logical[Peer(s)][j].got) >= n

\* Session::shutdown returns, and the actor it stops does stop, unless the
\* actors block each other.
ShutdownCompletes ==
  \A s \in Side :
    closer[s] = "sent" ~> ((closer[s] = "done" /\ pc[s] = "finished") \/ Jammed)

\* When one side of the connection breaks off (its Session was dropped, or the
\* connection failed), the other side's actor ends too.
BreakReachesPeer ==
  \A s \in Side : link[s] = "gone" ~> pc[Peer(s)] = "finished"

\* When the actor of one side has ended, the other side takes the remote side
\* as closed.
EndReachesPeer ==
  \A s \in Side : pc[s] = "finished" ~> (remote_closed[Peer(s)] \/ pc[Peer(s)] = "finished")
=============================================================================
