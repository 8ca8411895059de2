-------------------------- MODULE MuxSessionProofs --------------------------
(***************************************************************************)
(* Proofs about MuxSession, for every capacity, every bound, every width   *)
(* of the stream id and every scenario.                                    *)
(***************************************************************************)
EXTENDS MuxSession, TLAPS

\* What the sequence operators return.
LEMMA LenOf ==
  ASSUME NEW T, NEW q \in Seq(T)
  PROVE  Len(q) \in Nat /\ q \in [1..Len(q) -> T] /\ DOMAIN q = 1..Len(q)
  OBVIOUS

LEMMA ElementOf == ASSUME NEW T, NEW q \in Seq(T), NEW i \in 1..Len(q) PROVE q[i] \in T
  OBVIOUS

LEMMA HeadTail ==
  ASSUME NEW T, NEW q \in Seq(T), q # <<>>
  PROVE  /\ Head(q) \in T /\ Tail(q) \in Seq(T) /\ Len(Tail(q)) = Len(q) - 1
         /\ \A i \in 1..Len(Tail(q)) : Tail(q)[i] = q[i + 1]
  OBVIOUS

LEMMA AppendOf ==
  ASSUME NEW T, NEW q \in Seq(T), NEW e \in T
  PROVE  /\ Append(q, e) \in Seq(T) /\ Append(q, e) # <<>>
         /\ Len(Append(q, e)) = Len(q) + 1 /\ Append(q, e)[Len(q) + 1] = e
         /\ \A i \in 1..Len(q) : Append(q, e)[i] = q[i]
  OBVIOUS

LEMMA ExceptOf ==
  ASSUME NEW T, NEW q \in Seq(T), NEW i \in 1..Len(q), NEW e \in T
  PROVE  /\ [q EXCEPT ![i] = e] \in Seq(T)
         /\ Len([q EXCEPT ![i] = e]) = Len(q)
         /\ \A j \in 1..Len(q) : [q EXCEPT ![i] = e][j] = IF j = i THEN e ELSE q[j]
  OBVIOUS
LEMMA EmptyOf ==
  ASSUME NEW T
  PROVE  <<>> \in Seq(T) /\ Len(<<>>) = 0 /\ \A q \in Seq(T) : q # <<>> => Len(q) \in Nat \ {0}
  OBVIOUS

\* Replacing an element of a sequence keeps its type, its length and the
\* other elements.
LEMMA UpdateSeq ==
  ASSUME NEW T, NEW q \in Seq(T), NEW k, NEW e, k \in DOMAIN q => e \in T
  PROVE  /\ [q EXCEPT ![k] = e] \in Seq(T)
         /\ Len([q EXCEPT ![k] = e]) = Len(q)
<1>1. CASE k \in DOMAIN q
  BY <1>1, ExceptOf, LenOf
<1>2. CASE k \notin DOMAIN q
  <2>1. [q EXCEPT ![k] = e] = q
    BY <1>2
  <2>2. QED
    BY Zenon, <2>1
<1>3. QED
  BY <1>1, <1>2

\* The peer of a side is the other side.
LEMMA PeerSide == \A s \in Side : Peer(s) \in Side /\ Peer(s) # s
  BY DEF Side, Peer

LEMMA FetchAddType == \A id \in StreamIds : fetch_add(id, 1) \in StreamIds
  BY MaxStreamIdAssumption DEF StreamIds, fetch_add

LEMMA ControlType ==
  ASSUME NEW id \in StreamIds,
         NEW flags \in {{}, open_request, open_response, open_reset, close_request}
  PROVE  Control(id, flags) \in Frame
  BY DEF Control, Frame, open_request, open_response, open_reset, close_request, FlagNames

LEMMA NewStreamType ==
  ASSUME NEW id \in StreamIds, NEW by \in {"open", "accept"},
         NEW rx \in {"offered", "held", "dropped"}
  PROVE  NewStream(id, by, rx) \in LogicalStream
  BY DEF NewStream, LogicalStream, StreamState

LEMMA EmptyMapType == EmptyMap \in [StreamIds -> Nat] /\ \A id \in StreamIds : EmptyMap[id] = None
  BY DEF EmptyMap, None

LEMMA ReplyType ==
  ASSUME TypeOK, NEW s \in Side, NEW c, NEW r \in CallStatus
  PROVE  /\ Reply(s, c, r) \in [Side -> Seq(CallStatus)]
         /\ \A t \in Side : Len(Reply(s, c, r)[t]) = Len(calls[t])
<1> DEFINE e == IF calls[s][c] = "waiting" THEN r ELSE calls[s][c]
           q == [calls[s] EXCEPT ![c] = e]
<1>1. calls[s] \in Seq(CallStatus)
  BY DEF TypeOK
<1>2. c \in DOMAIN calls[s] => e \in CallStatus
  BY <1>1
<1>3. q \in Seq(CallStatus) /\ Len(q) = Len(calls[s])
  BY <1>1, <1>2, UpdateSeq
<1>4. Reply(s, c, r) = [calls EXCEPT ![s] = q]
  BY DEF Reply
<1>5. QED
  BY <1>3, <1>4 DEF TypeOK

LEMMA DropRepliesType ==
  ASSUME NEW q \in Seq(CallStatus)
  PROVE  /\ DropReplies(q) \in Seq(CallStatus)
         /\ DOMAIN DropReplies(q) = DOMAIN q
         /\ \A c \in DOMAIN q : DropReplies(q)[c] # "waiting"
<1>1. Len(q) \in Nat /\ DOMAIN q = 1 .. Len(q)
  BY LenOf
<1>2. \A c \in 1 .. Len(q) : DropReplies(q)[c] \in CallStatus \ {"waiting"}
  BY <1>1 DEF DropReplies, CallStatus
<1>3. DropReplies(q) \in [1 .. Len(q) -> CallStatus]
  BY <1>1, <1>2 DEF DropReplies
<1>4. QED
  BY <1>1, <1>2, <1>3 DEF DropReplies

LEMMA UpdateStream ==
  ASSUME TypeOK, NEW s \in Side, NEW k, NEW l, k \in DOMAIN logical[s] => l \in LogicalStream
  PROVE  [logical EXCEPT ![s] = [logical[s] EXCEPT ![k] = l]] \in [Side -> Seq(LogicalStream)]
  BY Zenon, UpdateSeq DEF TypeOK

\* The variables an action changes; the conjuncts of TypeOK about the others
\* carry over.
LEMMA TypeStutter == TypeOK /\ UNCHANGED vars => TypeOK'
  BY DEF TypeOK, vars, actorVars, chanVars, netVars, appVars

LEMMA TypeInit == Init => TypeOK
  BY EmptyMapType, ControlType, MaxStreamIdAssumption
     DEF Init, TypeOK, PC, NoFrame, Side, StreamIds

LEMMA NoFrameType == NoFrame \in Frame
  BY ControlType, MaxStreamIdAssumption DEF NoFrame, StreamIds

LEMMA IncomingType ==
  ASSUME TypeOK, NEW s \in Side, wire[Peer(s)] # <<>>
  PROVE  Incoming(s) \in Frame /\ Incoming(s).id \in StreamIds
<1>1. wire[Peer(s)] \in Seq(Frame)
  BY PeerSide DEF TypeOK
<1>2. Incoming(s) \in Frame
  BY <1>1, HeadTail DEF Incoming
<1>3. QED
  BY <1>2 DEF Frame

LEMMA TakeFrameType ==
  ASSUME TypeOK, NEW s \in Side, TakeFrame(s)
  PROVE  wire' \in [Side -> Seq(Frame)]
<1>1. wire[Peer(s)] \in Seq(Frame) /\ wire[Peer(s)] # <<>>
  BY PeerSide DEF TakeFrame, TypeOK
<1>2. Tail(wire[Peer(s)]) \in Seq(Frame)
  BY <1>1, HeadTail
<1>3. QED
  BY <1>2, PeerSide DEF TakeFrame, TypeOK

LEMMA ActorTypeReceive ==
  ASSUME TypeOK, NEW s \in Side
  PROVE  /\ ReceiveForStream(s) => TypeOK'
         /\ ReceiveOpenRequest(s) => TypeOK'
         /\ ReceiveOpenResponse(s) => TypeOK'
         /\ ReceiveOpenReset(s) => TypeOK'
         /\ ReceiveStray(s) => TypeOK'
<1>1. ASSUME ReceiveForStream(s) PROVE TypeOK'
  BY Zenon, <1>1, IncomingType, TakeFrameType DEF ReceiveForStream, TakeFrame, TypeOK, PC, chanVars
<1>2. ASSUME ReceiveOpenRequest(s) PROVE TypeOK'
  <2>1. NewStream(Incoming(s).id, "accept", "offered") \in LogicalStream
    BY <1>2, IncomingType, NewStreamType DEF ReceiveOpenRequest, Register, TakeFrame
  <2>2. logical' \in [Side -> Seq(LogicalStream)] /\ streams' \in [Side -> [StreamIds -> Nat]]
    BY SMTT(60), <1>2, <2>1, IncomingType DEF ReceiveOpenRequest, Register, TakeFrame, TypeOK
  <2>3. QED
    BY Zenon, <1>2, <2>2, IncomingType, TakeFrameType
       DEF ReceiveOpenRequest, Register, TakeFrame, TypeOK, PC, chanVars
<1>3. ASSUME ReceiveOpenResponse(s) PROVE TypeOK'
  <2> DEFINE id == Incoming(s).id
             c  == pending_streams[s][id]
  <2>1. id \in StreamIds
    BY <1>3, IncomingType DEF ReceiveOpenResponse, Register, TakeFrame
  <2>2. NewStream(id, "open", IF calls[s][c] = "waiting" THEN "held" ELSE "dropped")
          \in LogicalStream
    BY <2>1, NewStreamType
  <2>3. logical' \in [Side -> Seq(LogicalStream)] /\ streams' \in [Side -> [StreamIds -> Nat]]
    BY SMTT(60), <1>3, <2>1, <2>2 DEF ReceiveOpenResponse, Register, TypeOK
  <2>4. calls' \in [Side -> Seq(CallStatus)]
    BY <1>3, ReplyType DEF ReceiveOpenResponse, Register, CallStatus
  <2>5. pending_streams' \in [Side -> [StreamIds -> Nat]]
    BY SMTT(60), <1>3, <2>1 DEF ReceiveOpenResponse, Register, TypeOK, None
  <2>6. QED
    BY Zenon, <1>3, <2>3, <2>4, <2>5, TakeFrameType
       DEF ReceiveOpenResponse, Register, TakeFrame, TypeOK, chanVars
<1>4. ASSUME ReceiveOpenReset(s) PROVE TypeOK'
  <2>1. calls' \in [Side -> Seq(CallStatus)]
    BY <1>4, ReplyType DEF ReceiveOpenReset, CallStatus
  <2>2. pending_streams' \in [Side -> [StreamIds -> Nat]]
    BY <1>4, IncomingType DEF ReceiveOpenReset, TakeFrame, TypeOK, None
  <2>3. QED
    BY Zenon, <1>4, <2>1, <2>2, TakeFrameType DEF ReceiveOpenReset, TakeFrame, TypeOK, chanVars
<1>5. ASSUME ReceiveStray(s) PROVE TypeOK'
  BY Zenon, <1>5, TakeFrameType DEF ReceiveStray, TakeFrame, TypeOK, chanVars
<1>6. QED
  BY <1>1, <1>2, <1>3, <1>4, <1>5

LEMMA MapUpdate ==
  ASSUME NEW m \in [Side -> [StreamIds -> Nat]], NEW s \in Side, NEW id \in StreamIds,
         NEW n \in Nat
  PROVE  [m EXCEPT ![s][id] = n] \in [Side -> [StreamIds -> Nat]]
  OBVIOUS

LEMMA StreamOf ==
  ASSUME TypeOK, NEW s \in Side, NEW k \in DOMAIN logical[s]
  PROVE  logical[s][k] \in LogicalStream
<1>1. logical[s] \in Seq(LogicalStream)
  BY DEF TypeOK
<1>2. QED
  BY <1>1, ElementOf, LenOf

\* What the operations make of a stream is a stream.
LEMMA HeldType ==
  ASSUME NEW l \in LogicalStream
  PROVE  [l EXCEPT !.rx = "held"] \in LogicalStream
  BY Zenon DEF LogicalStream

LEMMA OutType ==
  ASSUME NEW l \in LogicalStream, NEW out \in Seq(StreamEvent)
  PROVE  [l EXCEPT !.out = out] \in LogicalStream
  BY SMTT(60) DEF LogicalStream

LEMMA DroppedType ==
  ASSUME NEW l \in LogicalStream
  PROVE  Dropped(l) \in LogicalStream
<1>1. ASSUME NEW chan \in Seq(Frame)
      PROVE  [l EXCEPT !.rx = "dropped", !.chan = chan] \in LogicalStream
  BY ZenonT(60) DEF LogicalStream
<1>2. <<>> \in Seq(Frame)
  OBVIOUS
<1>3. QED
  BY <1>1, <1>2, Zenon DEF Dropped

LEMMA ActorTypeHandOver ==
  ASSUME TypeOK, NEW s \in Side
  PROVE  /\ Deliver(s) => TypeOK'
         /\ Offer(s) => TypeOK'
<1> DEFINE id == cur[s].id
           k  == streams[s][id]
<1>1. id \in StreamIds /\ k \in Nat /\ cur[s] \in Frame
  BY SMTT(60) DEF TypeOK, Frame
<1>2. ASSUME Deliver(s) PROVE TypeOK'
  <2> DEFINE l == [logical[s][k] EXCEPT !.chan = Append(@, cur[s])]
  <2>1. k \in DOMAIN logical[s] => l \in LogicalStream
    <3>1. SUFFICES ASSUME k \in DOMAIN logical[s] PROVE l \in LogicalStream
      BY Zenon
    <3>2. logical[s][k] \in LogicalStream
      BY SMTT(60), <3>1, StreamOf
    <3>3. Append(logical[s][k].chan, cur[s]) \in Seq(Frame)
      <4>1. logical[s][k].chan \in Seq(Frame)
        BY Zenon, <3>2 DEF LogicalStream
      <4>2. QED
        BY Zenon, <1>1, <4>1, AppendOf
    <3>4. QED
      BY ZenonT(60), <3>2, <3>3 DEF LogicalStream
  <2>2. [logical EXCEPT ![s] = [logical[s] EXCEPT ![k] = l]] \in [Side -> Seq(LogicalStream)]
    BY ZenonT(60), <2>1, UpdateStream
  <2>3. logical' \in [Side -> Seq(LogicalStream)]
    BY ZenonT(60), <1>2, <2>2 DEF Deliver, TypeOK
  <2>4. streams' \in [Side -> [StreamIds -> Nat]]
    <3>1. [streams EXCEPT ![s][id] = None] \in [Side -> [StreamIds -> Nat]]
      BY SMTT(60), <1>1, MapUpdate DEF TypeOK, None
    <3>2. QED
      BY Zenon, <1>2, <3>1 DEF Deliver, TypeOK
  <2>5. QED
    BY Zenon, <1>2, <2>3, <2>4, NoFrameType DEF Deliver, TypeOK, PC, chanVars, netVars
<1>3. ASSUME Offer(s) PROVE TypeOK'
  <2> DEFINE l == Dropped(logical[s][k])
  <2>1. k \in DOMAIN logical[s] => l \in LogicalStream
    BY StreamOf, DroppedType
  <2>2. [logical EXCEPT ![s] = [logical[s] EXCEPT ![k] = l]] \in [Side -> Seq(LogicalStream)]
    BY Zenon, <2>1, UpdateStream
  <2>3. logical' \in [Side -> Seq(LogicalStream)]
    BY Zenon, <1>3, <2>2 DEF Offer, TypeOK
  <2>4. streams' \in [Side -> [StreamIds -> Nat]] /\ stream_chan' \in [Side -> Seq(Nat)]
    <3>1. [streams EXCEPT ![s][id] = None] \in [Side -> [StreamIds -> Nat]]
      BY <1>1, MapUpdate DEF TypeOK, None
    <3>2. [stream_chan EXCEPT ![s] = Append(@, k)] \in [Side -> Seq(Nat)]
      BY <1>1 DEF TypeOK
    <3>3. QED
      BY Zenon, <1>3, <3>1, <3>2 DEF Offer, TypeOK
  <2>5. QED
    BY Zenon, <1>1, <1>3, <2>3, <2>4, ControlType DEF Offer, TypeOK, PC, netVars
<1>4. QED
  BY <1>2, <1>3

LEMMA BreakType ==
  ASSUME TypeOK, NEW s \in Side, Break(s)
  PROVE  pc' \in [Side -> PC] /\ streams' \in [Side -> [StreamIds -> Nat]]
  BY EmptyMapType DEF Break, TypeOK, PC

LEMMA ActorTypeHandle ==
  ASSUME TypeOK, NEW s \in Side
  PROVE  /\ HandleOpen(s) => TypeOK'
         /\ HandleShutdown(s) => TypeOK'
         /\ HandleFrameEvent(s) => TypeOK'
         /\ HandleClosedEvent(s) => TypeOK'
<1>1. ASSUME HandleOpen(s) PROVE TypeOK'
  <2>1. control_chan[s] \in Seq(Nat) /\ control_chan[s] # <<>>
    BY <1>1 DEF HandleOpen, TakeCommand, TypeOK
  <2>2. Head(control_chan[s]) \in Nat /\ Tail(control_chan[s]) \in Seq(Nat)
    BY <2>1, HeadTail
  <2>3. next_stream_id[s] \in StreamIds
    BY DEF TypeOK
  <2>4. calls' \in [Side -> Seq(CallStatus)]
    BY Zenon, <1>1, ReplyType DEF HandleOpen, TakeCommand, CallStatus, TypeOK
  <2>5. pending_streams' \in [Side -> [StreamIds -> Nat]]
    BY <1>1, <2>2, <2>3 DEF HandleOpen, TakeCommand, TypeOK
  <2>6. cur' \in [Side -> Frame]
    BY <1>1, <2>3, ControlType DEF HandleOpen, TakeCommand, TypeOK
  <2>7. QED
    BY SMTT(60), <1>1, <2>2, <2>3, <2>4, <2>5, <2>6, FetchAddType DEF HandleOpen, TakeCommand, TypeOK, PC, netVars
<1>2. ASSUME HandleShutdown(s) PROVE TypeOK'
  <2>1. Tail(control_chan[s]) \in Seq(Nat)
    BY <1>2, HeadTail DEF HandleShutdown, TakeCommand, TypeOK
  <2>2. QED
    BY SMTT(60), <1>2, <2>1 DEF HandleShutdown, TakeCommand, TypeOK, netVars
<1>3. ASSUME event_chan[s] # <<>>
      PROVE  Head(event_chan[s]) \in StreamEvent /\ Tail(event_chan[s]) \in Seq(StreamEvent)
  BY SMTT(60), <1>3, HeadTail DEF TypeOK
<1>4. ASSUME HandleFrameEvent(s) PROVE TypeOK'
  <2>1. Head(event_chan[s]).frame \in Frame
    BY <1>3, <1>4 DEF HandleFrameEvent, StreamEvent
  <2>2. QED
    BY SMTT(60), <1>3, <1>4, <2>1 DEF HandleFrameEvent, TypeOK, PC, netVars, appVars
<1>5. ASSUME HandleClosedEvent(s) PROVE TypeOK'
  <2>1. Head(event_chan[s]).frame.id \in StreamIds
    BY <1>3, <1>5 DEF HandleClosedEvent, StreamEvent, Frame
  <2>2. streams' \in [Side -> [StreamIds -> Nat]]
    BY <1>5, <2>1 DEF HandleClosedEvent, TypeOK, None
  <2>3. QED
    BY Zenon, <1>3, <1>5, <2>2 DEF HandleClosedEvent, TypeOK, netVars, appVars
<1>6. QED
  BY SMTT(60), <1>1, <1>2, <1>4, <1>5

LEMMA FinishType ==
  ASSUME TypeOK, NEW s \in Side, NEW how \in {"eof", "gone"}, Finish(s, how),
         logical' \in [Side -> Seq(LogicalStream)]
  PROVE  TypeOK'
<1>1. DropReplies(calls[s]) \in Seq(CallStatus)
  BY DropRepliesType DEF TypeOK
<1>2. calls' \in [Side -> Seq(CallStatus)]
  BY <1>1 DEF Finish, TypeOK
<1>3. /\ event_chan' \in [Side -> Seq(StreamEvent)]
      /\ control_chan' \in [Side -> Seq(Nat)]
      /\ wire' \in [Side -> Seq(Frame)]
  <2>1. <<>> \in Seq(StreamEvent) /\ <<>> \in Seq(Nat) /\ <<>> \in Seq(Frame)
    OBVIOUS
  <2>2. QED
    BY <2>1, PeerSide, Zenon DEF Finish, TypeOK
<1>4. QED
  BY Zenon, <1>2, <1>3, EmptyMapType, NoFrameType DEF Finish, TypeOK, PC

LEMMA ActorTypeEnd ==
  ASSUME TypeOK, NEW s \in Side
  PROVE  /\ ReadError(s) => TypeOK'
         /\ WriteOk(s) => TypeOK'
         /\ WriteError(s) => TypeOK'
         /\ HandleCancel(s) => TypeOK'
         /\ CloseWriter(s) => TypeOK'
         /\ Abort(s) => TypeOK'
<1>1. ASSUME ReadError(s) PROVE TypeOK'
  BY Zenon, <1>1, BreakType DEF ReadError, TypeOK, chanVars, netVars, appVars
<1>2. ASSUME WriteOk(s) PROVE TypeOK'
  <2>1. [wire EXCEPT ![s] = Append(@, cur[s])] \in [Side -> Seq(Frame)]
    BY DEF TypeOK
  <2>2. wire' \in [Side -> Seq(Frame)]
    BY Zenon, <1>2, <2>1 DEF WriteOk, TypeOK
  <2>3. QED
    BY Zenon, <1>2, <2>2, NoFrameType DEF WriteOk, TypeOK, PC, chanVars, appVars
<1>3. ASSUME WriteError(s) PROVE TypeOK'
  <2>1. calls' \in [Side -> Seq(CallStatus)]
    BY <1>3, ReplyType DEF WriteError, CallStatus, TypeOK
  <2>2. pc' \in [Side -> PC] /\ streams' \in [Side -> [StreamIds -> Nat]]
    <3>1. CASE pc[s] = "respond"
      BY Zenon, <1>3, <3>1 DEF WriteError, TypeOK, PC
    <3>2. CASE pc[s] # "respond"
      BY <1>3, <3>2, BreakType DEF WriteError
    <3>3. QED
      BY <3>1, <3>2
  <2>3. QED
    BY Zenon, <1>3, <2>1, <2>2, NoFrameType DEF WriteError, TypeOK, chanVars, netVars
<1>4. ASSUME HandleCancel(s) PROVE TypeOK'
  BY Zenon, <1>4, BreakType DEF HandleCancel, TypeOK, chanVars, netVars, appVars
<1>5. ASSUME CloseWriter(s) PROVE TypeOK'
  BY Zenon, <1>5, FinishType DEF CloseWriter, TypeOK
<1>6. ASSUME Abort(s) PROVE TypeOK'
  <2> DEFINE k == streams[s][cur[s].id]
             l == Dropped(logical[s][k])
  <2>1. k \in DOMAIN logical[s] => l \in LogicalStream
    BY StreamOf, DroppedType
  <2>2. [logical EXCEPT ![s] = [logical[s] EXCEPT ![k] = l]] \in [Side -> Seq(LogicalStream)]
    BY Zenon, <2>1, UpdateStream
  <2>3. logical' \in [Side -> Seq(LogicalStream)]
    BY <1>6, <2>2 DEF Abort, TypeOK
  <2>4. QED
    BY <1>6, <2>3, FinishType DEF Abort
<1>7. QED
  BY <1>1, <1>2, <1>3, <1>4, <1>5, <1>6

\* What close() leaves behind is a state and a list of events.
LEMMA CloseType ==
  ASSUME NEW id \in StreamIds, NEW state \in StreamState
  PROVE  /\ StateAfterClose(state) \in StreamState
         /\ EventsOfClose(id, state) \in Seq(StreamEvent)
<1>1. StateAfterClose(state) \in StreamState
  BY DEF StateAfterClose, StreamState
<1>2. /\ FrameEvent(Control(id, close_request)) \in StreamEvent
      /\ ClosedEvent(id) \in StreamEvent
  BY ControlType DEF FrameEvent, ClosedEvent, StreamEvent
<1>3. QED
  BY <1>1, <1>2 DEF EventsOfClose

LEMMA FlagsType ==
  ASSUME NEW split, NEW state \in StreamState, NEW flags
  PROVE  set_state_from_flags(split, state, flags) \in StreamState
<1>1. ReaderStateFromFlags(state, flags) \in StreamState
  BY DEF ReaderStateFromFlags, StreamState
<1>2. StreamStateFromFlags(state, flags) \in StreamState
  BY <1>1 DEF StreamStateFromFlags, StreamState
<1>3. QED
  BY <1>1, <1>2 DEF set_state_from_flags

\* An operation of the application on one of its streams.
LEMMA StreamOperation ==
  ASSUME TypeOK, NEW s \in Side, NEW k, NEW l, k \in DOMAIN logical[s] => l \in LogicalStream,
         logical' = [logical EXCEPT ![s] = [logical[s] EXCEPT ![k] = l]],
         UNCHANGED <<actorVars, control_chan, stream_chan, netVars, calls, closer, cancel, held>>,
         event_chan' \in [Side -> Seq(StreamEvent)]
  PROVE  TypeOK'
<1>1. logical' \in [Side -> Seq(LogicalStream)]
  BY Zenon, UpdateStream
<1>2. QED
  BY <1>1 DEF TypeOK, actorVars, netVars

LEMMA AfterCloseType ==
  ASSUME NEW l \in LogicalStream
  PROVE  AfterClose(l) \in LogicalStream
<1>1. ASSUME NEW state \in StreamState, NEW out \in Seq(StreamEvent), NEW closes \in Nat
      PROVE  [l EXCEPT !.state = state, !.out = out, !.closes = closes] \in LogicalStream
  BY Zenon DEF LogicalStream
<1>2. StateAfterClose(l.state) \in StreamState /\ EventsOfClose(l.id, l.state) \in Seq(StreamEvent)
  BY CloseType DEF LogicalStream
<1>3. l.closes + 1 \in Nat
  BY DEF LogicalStream
<1>4. QED
  BY Zenon, <1>1, <1>2, <1>3 DEF AfterClose

LEMMA AfterSendType ==
  ASSUME NEW l \in LogicalStream, l.out # <<>>
  PROVE  Head(l.out) \in StreamEvent /\ AfterSend(l) \in LogicalStream
<1>1. l.out \in Seq(StreamEvent) /\ l.sent \in Nat
  BY DEF LogicalStream
<1>2. Head(l.out) \in StreamEvent /\ Tail(l.out) \in Seq(StreamEvent)
  BY <1>1, HeadTail
<1>3. Head(l.out).frame.body \in Nat
  BY <1>2 DEF StreamEvent, Frame
<1>4. ASSUME NEW out \in Seq(StreamEvent), NEW sent \in Nat
      PROVE  [l EXCEPT !.out = out, !.sent = sent] \in LogicalStream
  BY Zenon DEF LogicalStream
<1>5. QED
  BY Zenon, <1>1, <1>2, <1>3, <1>4 DEF AfterSend

LEMMA AfterRecvType ==
  ASSUME NEW l \in LogicalStream, l.chan # <<>>, NEW split
  PROVE  AfterRecv(split, l) \in LogicalStream
<1> DEFINE f == Head(l.chan)
<1>1. l.chan \in Seq(Frame) /\ l.got \in Seq(Nat) /\ l.state \in StreamState
      /\ l.peer_closed \in BOOLEAN
  BY DEF LogicalStream
<1>2. f \in Frame /\ Tail(l.chan) \in Seq(Frame)
  BY <1>1, HeadTail
<1>3. (IF f.body # 0 THEN Append(l.got, f.body) ELSE l.got) \in Seq(Nat)
  BY <1>1, <1>2 DEF Frame
<1>4. set_state_from_flags(split, l.state, f.flags) \in StreamState
  BY <1>1, FlagsType
<1>5. (l.peer_closed \/ f.flags = close_request) \in BOOLEAN
  OBVIOUS
<1>6. ASSUME NEW chan \in Seq(Frame), NEW state \in StreamState, NEW got \in Seq(Nat),
             NEW closed \in BOOLEAN
      PROVE  [l EXCEPT !.chan = chan, !.state = state, !.got = got, !.peer_closed = closed]
               \in LogicalStream
  BY Zenon DEF LogicalStream
<1>7. QED
  BY Zenon, <1>2, <1>3, <1>4, <1>5, <1>6 DEF AfterRecv

LEMMA AppTypeStream ==
  ASSUME TypeOK, NEW s \in Side, NEW k
  PROVE  /\ SendBytes(s, k) => TypeOK'
         /\ \A f \in RawFrames : SendFrame(s, k, f) => TypeOK'
         /\ Close(s, k) => TypeOK'
         /\ RecvFrame(s, k) => TypeOK'
         /\ DropStream(s, k) => TypeOK'
         /\ SendEvent(s, k) => TypeOK'
<1> DEFINE l == logical[s][k]
<1>1. ASSUME SendBytes(s, k) PROVE TypeOK'
  <2> DEFINE e == FrameEvent(Data(l.id, l.sent + 1))
  <2>1. l \in LogicalStream
    BY <1>1, StreamOf DEF SendBytes, Idle
  <2>2. e \in StreamEvent
    BY <2>1 DEF FrameEvent, Data, StreamEvent, Frame, LogicalStream
  <2>3. <<e>> \in Seq(StreamEvent)
    BY <2>2
  <2>4. [l EXCEPT !.out = <<e>>] \in LogicalStream
    BY Zenon, <2>1, <2>3, OutType
  <2>5. QED
    BY Zenon, <1>1, <2>4, StreamOperation DEF SendBytes, TypeOK, chanVars
<1>2. ASSUME NEW f \in RawFrames, SendFrame(s, k, f) PROVE TypeOK'
  <2>1. l \in LogicalStream
    BY <1>2, StreamOf DEF SendFrame, Idle
  <2>2. FrameEvent(f) \in StreamEvent
    BY ScenarioAssumption DEF FrameEvent, StreamEvent
  <2>3. <<FrameEvent(f)>> \in Seq(StreamEvent)
    BY <2>2
  <2>4. [l EXCEPT !.out = <<FrameEvent(f)>>] \in LogicalStream
    BY Zenon, <2>1, <2>3, OutType
  <2>5. QED
    BY Zenon, <1>2, <2>4, StreamOperation DEF SendFrame, TypeOK, chanVars
<1>3. ASSUME Close(s, k) PROVE TypeOK'
  <2>1. AfterClose(l) \in LogicalStream
    BY <1>3, StreamOf, AfterCloseType DEF Close, Idle
  <2>2. QED
    BY Zenon, <1>3, <2>1, StreamOperation DEF Close, TypeOK, chanVars
<1>4. ASSUME RecvFrame(s, k) PROVE TypeOK'
  <2>1. AfterRecv(s \in Splitters, l) \in LogicalStream
    BY <1>4, StreamOf, AfterRecvType DEF RecvFrame
  <2>2. QED
    BY Zenon, <1>4, <2>1, StreamOperation DEF RecvFrame, TypeOK, chanVars
<1>5. ASSUME DropStream(s, k) PROVE TypeOK'
  <2>1. Dropped(l) \in LogicalStream
    BY <1>5, StreamOf, DroppedType DEF DropStream, Idle
  <2>2. QED
    BY Zenon, <1>5, <2>1, StreamOperation DEF DropStream, TypeOK, chanVars
<1>6. ASSUME SendEvent(s, k) PROVE TypeOK'
  <2>1. l \in LogicalStream /\ l.out # <<>>
    BY <1>6, StreamOf DEF SendEvent
  <2>2. Head(l.out) \in StreamEvent /\ AfterSend(l) \in LogicalStream
    BY <2>1, AfterSendType
  <2>3. [l EXCEPT !.out = <<>>] \in LogicalStream
    <3>1. <<>> \in Seq(StreamEvent)
      OBVIOUS
    <3>2. QED
      BY <2>1, <3>1, OutType, Zenon
  <2>4. [event_chan EXCEPT ![s] = Append(@, Head(l.out))] \in [Side -> Seq(StreamEvent)]
    BY <2>2 DEF TypeOK
  <2>5. CASE pc[s] # "finished"
    BY Zenon, <1>6, <2>2, <2>4, <2>5, StreamOperation DEF SendEvent
  <2>6. CASE pc[s] = "finished"
    <3>1. logical' = [logical EXCEPT ![s] = [logical[s] EXCEPT ![k] = [l EXCEPT !.out = <<>>]]]
      BY <1>6, <2>6 DEF SendEvent
    <3>2. event_chan' \in [Side -> Seq(StreamEvent)]
      BY <1>6, <2>6 DEF SendEvent, TypeOK
    <3>3. QED
      BY <1>6, <2>3, <3>1, <3>2, StreamOperation, Zenon DEF SendEvent
  <2>7. QED
    BY <2>5, <2>6
<1>7. QED
  BY <1>1, <1>2, <1>3, <1>4, <1>5, <1>6

LEMMA AppTypeSession ==
  ASSUME TypeOK, NEW s \in Side
  PROVE  /\ OpenStream(s) => TypeOK'
         /\ \A c : AbandonOpen(s, c) => TypeOK'
         /\ AcceptStream(s) => TypeOK'
         /\ ShutdownSession(s) => TypeOK'
         /\ ShutdownReturns(s) => TypeOK'
         /\ DropSession(s) => TypeOK'
<1>1. ASSUME OpenStream(s) PROVE TypeOK'
  <2>1. /\ [calls EXCEPT ![s] = Append(@, "waiting")] \in [Side -> Seq(CallStatus)]
        /\ [calls EXCEPT ![s] = Append(@, "err")] \in [Side -> Seq(CallStatus)]
    BY DEF TypeOK, CallStatus
  <2>2. [control_chan EXCEPT ![s] = Append(@, Len(calls[s]) + 1)] \in [Side -> Seq(Nat)]
    BY LenOf DEF TypeOK
  <2>3. calls' \in [Side -> Seq(CallStatus)] /\ control_chan' \in [Side -> Seq(Nat)]
    BY Zenon, <1>1, <2>1, <2>2 DEF OpenStream, TypeOK
  <2>4. QED
    BY <1>1, <2>3 DEF OpenStream, TypeOK, actorVars, netVars
<1>2. ASSUME NEW c, AbandonOpen(s, c) PROVE TypeOK'
  <2>1. calls[s] \in Seq(CallStatus)
    BY DEF TypeOK
  <2>2. [calls[s] EXCEPT ![c] = "abandoned"] \in Seq(CallStatus)
    BY <2>1, UpdateSeq DEF CallStatus
  <2>3. QED
    BY <1>2, <2>2 DEF AbandonOpen, TypeOK, actorVars, chanVars, netVars
<1>3. ASSUME AcceptStream(s) PROVE TypeOK'
  <2> DEFINE k == Head(stream_chan[s])
  <2>1. Tail(stream_chan[s]) \in Seq(Nat)
    BY <1>3, HeadTail DEF AcceptStream, TypeOK
  <2>2. k \in DOMAIN logical[s] => [logical[s][k] EXCEPT !.rx = "held"] \in LogicalStream
    BY StreamOf, HeldType
  <2>3. [logical EXCEPT ![s] = [logical[s] EXCEPT ![k] = [logical[s][k] EXCEPT !.rx = "held"]]]
          \in [Side -> Seq(LogicalStream)]
    BY Zenon, <2>2, UpdateStream
  <2>4. logical' \in [Side -> Seq(LogicalStream)]
    BY <1>3, <2>3 DEF AcceptStream
  <2>5. QED
    BY <1>3, <2>1, <2>4 DEF AcceptStream, TypeOK, actorVars, netVars
<1>4. ASSUME ShutdownSession(s) PROVE TypeOK'
  <2>1. [control_chan EXCEPT ![s] = Append(@, Shutdown)] \in [Side -> Seq(Nat)]
    BY DEF TypeOK, Shutdown
  <2>2. QED
    BY <1>4, <2>1 DEF ShutdownSession, TypeOK, actorVars, netVars
<1>5. ASSUME ShutdownReturns(s) PROVE TypeOK'
  BY SMTT(60), <1>5 DEF ShutdownReturns, TypeOK, actorVars, chanVars, netVars
<1>6. ASSUME DropSession(s) PROVE TypeOK'
  <2> DEFINE q == [k \in DOMAIN logical[s] |->
                     IF \E i \in DOMAIN stream_chan[s] : stream_chan[s][i] = k
                     THEN Dropped(logical[s][k]) ELSE logical[s][k]]
  <2>1. DOMAIN logical[s] = 1 .. Len(logical[s]) /\ Len(logical[s]) \in Nat
    BY SMTT(60), LenOf DEF TypeOK
  <2>2. \A k \in 1 .. Len(logical[s]) : q[k] \in LogicalStream
    BY <2>1, StreamOf, DroppedType
  <2>3. q \in Seq(LogicalStream)
    <3>1. q \in [1 .. Len(logical[s]) -> LogicalStream]
      BY Zenon, <2>1, <2>2
    <3>2. QED
      BY <2>1, <3>1
  <2>4. logical' \in [Side -> Seq(LogicalStream)]
    BY <1>6, <2>3 DEF DropSession, TypeOK
  <2>5. stream_chan' \in [Side -> Seq(Nat)]
    <3>1. <<>> \in Seq(Nat)
      OBVIOUS
    <3>2. QED
      BY <1>6, <3>1, Zenon DEF DropSession, TypeOK
  <2>6. QED
    BY <1>6, <2>4, <2>5 DEF DropSession, TypeOK, actorVars, netVars
<1>7. QED
  BY <1>1, <1>2, <1>3, <1>4, <1>5, <1>6

LEMMA SeverType == TypeOK /\ Sever => TypeOK'
<1>1. ASSUME TypeOK, Sever PROVE TypeOK'
  <2>1. <<>> \in Seq(Frame)
    OBVIOUS
  <2>2. wire' \in [Side -> Seq(Frame)]
    BY <1>1, <2>1, Zenon DEF Sever
  <2>3. QED
    BY SMTT(60), <1>1, <2>2 DEF Sever, TypeOK, actorVars, chanVars, appVars
<1>2. QED
  BY <1>1

LEMMA TypeNext == TypeOK /\ [Next]_vars => TypeOK'
<1>1. SUFFICES ASSUME TypeOK, [Next]_vars PROVE TypeOK'
  OBVIOUS
<1>2. CASE UNCHANGED vars
  BY <1>1, <1>2, TypeStutter
<1>3. CASE Sever
  BY <1>1, <1>3, SeverType
<1>4. ASSUME NEW s \in Side, Actor(s) PROVE TypeOK'
  BY <1>1, <1>4, ActorTypeReceive, ActorTypeHandOver, ActorTypeHandle, ActorTypeEnd DEF Actor
<1>5. ASSUME NEW s \in Side, App(s) PROVE TypeOK'
  BY <1>1, <1>5, AppTypeStream, AppTypeSession DEF App
<1>6. QED
  BY <1>1, <1>2, <1>3, <1>4, <1>5 DEF Next

\* Type correctness of the two sessions, for all capacities, bounds, id widths
\* and scenarios.
THEOREM TypeCorrect == Spec => []TypeOK
  BY TypeInit, TypeNext, PTL DEF Spec

(***************************************************************************)
(* The stream table of a session leads every frame to a stream of its id,  *)
(* for every scenario of MuxSession.                                       *)
(***************************************************************************)
\* The streams and their ids stay as they are.
IdsKept ==
  \A s \in Side : /\ DOMAIN logical'[s] = DOMAIN logical[s]
                  /\ \A k \in DOMAIN logical[s] : logical'[s][k].id = logical[s][k].id

\* A step adds nothing to the tables.
NoInsert ==
  \A s \in Side : \A id \in StreamIds : streams'[s][id] \in {None, streams[s][id]}

LEMMA RouteFrame ==
  ASSUME RoutesToOwnId, IdsKept, NoInsert
  PROVE  RoutesToOwnId'
  BY DEF RoutesToOwnId, IdsKept, NoInsert

LEMMA OperationKeepsIds ==
  ASSUME TypeOK, NEW s \in Side, NEW k, NEW l,
         k \in DOMAIN logical[s] => l.id = logical[s][k].id,
         logical' = [logical EXCEPT ![s] = [logical[s] EXCEPT ![k] = l]]
  PROVE  IdsKept
  BY Zenon DEF TypeOK, IdsKept

LEMMA SameStreams == ASSUME UNCHANGED logical PROVE IdsKept
  BY DEF IdsKept

LEMMA SameTable == ASSUME UNCHANGED streams PROVE NoInsert
  BY DEF NoInsert

LEMMA Removed ==
  ASSUME TypeOK, NEW s \in Side, NEW id, streams' = [streams EXCEPT ![s][id] = None]
  PROVE  NoInsert
  BY DEF TypeOK, NoInsert

LEMMA Cleared ==
  ASSUME TypeOK, NEW s \in Side, streams' = [streams EXCEPT ![s] = EmptyMap]
  PROVE  NoInsert
  BY EmptyMapType DEF TypeOK, NoInsert

\* What the operations make of a stream keeps its id.
LEMMA SameId ==
  ASSUME NEW l \in LogicalStream
  PROVE  /\ Dropped(l).id = l.id /\ AfterClose(l).id = l.id
         /\ AfterSend(l).id = l.id /\ (\A split : AfterRecv(split, l).id = l.id)
         /\ [l EXCEPT !.rx = "held"].id = l.id
         /\ \A out : [l EXCEPT !.out = out].id = l.id
         /\ \A chan : [l EXCEPT !.chan = chan].id = l.id
  BY DEF LogicalStream, Dropped, AfterClose, AfterSend, AfterRecv

\* A new stream enters the table under its own id.
LEMMA Inserted ==
  ASSUME TypeOK, RoutesToOwnId, NEW s \in Side, NEW id \in StreamIds, NEW l \in LogicalStream,
         l.id = id,
         logical' = [logical EXCEPT ![s] = Append(@, l)],
         streams' = [streams EXCEPT ![s][id] = Len(logical[s]) + 1]
  PROVE  RoutesToOwnId'
<1> DEFINE q == logical[s]
<1>1. q \in Seq(LogicalStream)
  BY DEF TypeOK
<1>2. /\ Len(q) \in Nat /\ DOMAIN q = 1 .. Len(q)
      /\ DOMAIN Append(q, l) = 1 .. Len(q) + 1
      /\ \A k \in DOMAIN q : Append(q, l)[k] = q[k]
      /\ Append(q, l)[Len(q) + 1] = l
  BY <1>1, LenOf, AppendOf
<1>3. /\ logical'[s] = Append(q, l)
      /\ \A t \in Side : t # s => logical'[t] = logical[t]
  BY DEF TypeOK
<1>4. /\ streams'[s][id] = Len(q) + 1
      /\ \A t \in Side : \A i \in StreamIds : ~(t = s /\ i = id) => streams'[t][i] = streams[t][i]
  BY SMTT(60) DEF TypeOK
<1>5. SUFFICES ASSUME NEW t \in Side, NEW i \in StreamIds, streams'[t][i] # None
               PROVE  /\ streams'[t][i] \in DOMAIN logical'[t]
                      /\ logical'[t][streams'[t][i]].id = i
  BY DEF RoutesToOwnId
<1>6. CASE t = s /\ i = id
  BY <1>2, <1>3, <1>4, <1>6
<1>7. CASE t = s /\ i # id
  <2>1. streams'[t][i] = streams[t][i]
    BY <1>4, <1>7
  <2>2. streams[t][i] \in DOMAIN q /\ q[streams[t][i]].id = i
    BY <1>5, <1>7, <2>1 DEF RoutesToOwnId
  <2>3. QED
    BY <1>2, <1>3, <1>7, <2>1, <2>2
<1>8. CASE t # s
  BY <1>3, <1>4, <1>5, <1>8 DEF RoutesToOwnId
<1>9. QED
  BY <1>6, <1>7, <1>8

LEMMA RouteReceive ==
  ASSUME TypeOK, RoutesToOwnId, NEW s \in Side
  PROVE  /\ ReceiveOpenRequest(s) => RoutesToOwnId'
         /\ ReceiveOpenResponse(s) => RoutesToOwnId'
<1> DEFINE id == Incoming(s).id
<1>1. TakeFrame(s) => id \in StreamIds
  BY IncomingType DEF TakeFrame
<1>2. ASSUME NEW i \in StreamIds, NEW by \in {"open", "accept"},
             NEW rx \in {"offered", "held", "dropped"}
      PROVE  NewStream(i, by, rx) \in LogicalStream /\ NewStream(i, by, rx).id = i
  BY Zenon, NewStreamType DEF NewStream
<1>3. ASSUME ReceiveOpenRequest(s) PROVE RoutesToOwnId'
  <2>1. id \in StreamIds
    BY <1>1, <1>3 DEF ReceiveOpenRequest, Register
  <2>2. /\ NewStream(id, "accept", "offered") \in LogicalStream
        /\ NewStream(id, "accept", "offered").id = id
    BY <1>2, <2>1
  <2>3. /\ logical' = [logical EXCEPT ![s] = Append(@, NewStream(id, "accept", "offered"))]
        /\ streams' = [streams EXCEPT ![s][id] = Len(logical[s]) + 1]
    BY SMTT(60), <1>3 DEF ReceiveOpenRequest, Register
  <2>4. QED
    BY Zenon, <2>1, <2>2, <2>3, Inserted
<1>4. ASSUME ReceiveOpenResponse(s) PROVE RoutesToOwnId'
  <2> DEFINE rx == IF calls[s][pending_streams[s][id]] = "waiting" THEN "held" ELSE "dropped"
  <2>1. id \in StreamIds
    BY <1>1, <1>4 DEF ReceiveOpenResponse, Register
  <2>2. NewStream(id, "open", rx) \in LogicalStream /\ NewStream(id, "open", rx).id = id
    BY <1>2, <2>1
  <2>3. /\ logical' = [logical EXCEPT ![s] = Append(@, NewStream(id, "open", rx))]
        /\ streams' = [streams EXCEPT ![s][id] = Len(logical[s]) + 1]
    BY <1>4 DEF ReceiveOpenResponse, Register
  <2>4. QED
    BY Zenon, <2>1, <2>2, <2>3, Inserted
<1>5. QED
  BY <1>3, <1>4

\* The other steps make no stream and add nothing to the tables.
LEMMA ActorKeepsIds ==
  ASSUME TypeOK, NEW s \in Side, Actor(s), ~ReceiveOpenRequest(s), ~ReceiveOpenResponse(s)
  PROVE  IdsKept /\ NoInsert
<1>1. CASE \/ ReceiveForStream(s) \/ ReceiveOpenReset(s) \/ ReceiveStray(s) \/ HandleOpen(s)
           \/ HandleShutdown(s) \/ HandleFrameEvent(s) \/ WriteOk(s)
  <2>1. UNCHANGED <<logical, streams>>
    BY <1>1 DEF ReceiveForStream, ReceiveOpenReset, ReceiveStray, HandleOpen, HandleShutdown, TakeCommand,
                HandleFrameEvent, WriteOk, TakeFrame, appVars
  <2>2. QED
    BY SMTT(60), <2>1, SameStreams, SameTable
<1>2. CASE ReadError(s) \/ HandleCancel(s) \/ WriteError(s)
  <2>1. /\ UNCHANGED logical
        /\ streams' = streams \/ streams' = [streams EXCEPT ![s] = EmptyMap]
    BY Zenon, <1>2 DEF ReadError, HandleCancel, WriteError, Break, appVars
  <2>2. QED
    BY <2>1, SameStreams, SameTable, Cleared
<1>3. CASE HandleClosedEvent(s)
  <2>1. /\ UNCHANGED logical
        /\ streams' = [streams EXCEPT ![s][Head(event_chan[s]).frame.id] = None]
    BY <1>3 DEF HandleClosedEvent, appVars
  <2>2. QED
    BY ZenonT(60), <2>1, SameStreams, Removed
<1>4. CASE Deliver(s)
  <2> DEFINE k == streams[s][cur[s].id]
             l == [logical[s][k] EXCEPT !.chan = Append(@, cur[s])]
  <2>1. CASE logical[s][k].rx = "dropped"
    <3>1. UNCHANGED logical /\ streams' = [streams EXCEPT ![s][cur[s].id] = None]
      BY <1>4, <2>1 DEF Deliver
    <3>2. QED
      BY ZenonT(60), <3>1, SameStreams, Removed
  <2>2. CASE logical[s][k].rx # "dropped"
    <3>1. /\ UNCHANGED streams
          /\ logical' = [logical EXCEPT ![s] = [logical[s] EXCEPT ![k] = l]]
      BY Zenon, <1>4, <2>2 DEF Deliver
    <3>2. k \in DOMAIN logical[s] => l.id = logical[s][k].id
      BY StreamOf, SameId
    <3>3. QED
      BY ZenonT(60), <3>1, <3>2, OperationKeepsIds, SameTable
  <2>3. QED
    BY <2>1, <2>2
<1>5. CASE Offer(s)
  <2> DEFINE k == streams[s][cur[s].id]
  <2>1. CASE held[s]
    <3>1. UNCHANGED <<streams, logical>>
      BY SMTT(60), <1>5, <2>1 DEF Offer
    <3>2. QED
      BY <3>1, SameStreams, SameTable
  <2>2. CASE ~held[s]
    <3>1. /\ streams' = [streams EXCEPT ![s][cur[s].id] = None]
          /\ logical' = [logical EXCEPT ![s] = [logical[s] EXCEPT ![k] = Dropped(logical[s][k])]]
      BY <1>5, <2>2 DEF Offer
    <3>2. k \in DOMAIN logical[s] => Dropped(logical[s][k]).id = logical[s][k].id
      BY StreamOf, SameId
    <3>3. QED
      BY Zenon, <3>1, <3>2, OperationKeepsIds, Removed
  <2>3. QED
    BY <2>1, <2>2
<1>6. CASE CloseWriter(s) \/ Abort(s)
  <2> DEFINE k == streams[s][cur[s].id]
  <2>1. streams' = [streams EXCEPT ![s] = EmptyMap]
    BY <1>6 DEF CloseWriter, Abort, Finish
  <2>2. \/ UNCHANGED logical
        \/ logical' = [logical EXCEPT ![s] = [logical[s] EXCEPT ![k] = Dropped(logical[s][k])]]
    BY <1>6 DEF CloseWriter, Abort
  <2>3. k \in DOMAIN logical[s] => Dropped(logical[s][k]).id = logical[s][k].id
    BY StreamOf, SameId
  <2>4. IdsKept
    BY Zenon, <2>2, <2>3, SameStreams, OperationKeepsIds
  <2>5. QED
    BY Zenon, <2>1, <2>4, Cleared
<1>7. QED
  BY <1>1, <1>2, <1>3, <1>4, <1>5, <1>6 DEF Actor

LEMMA AppKeepsIds ==
  ASSUME TypeOK, NEW s \in Side, App(s)
  PROVE  IdsKept /\ NoInsert
<1>1. CASE \/ OpenStream(s) \/ ShutdownSession(s) \/ ShutdownReturns(s)
           \/ \E c \in 1 .. MaxOpens : AbandonOpen(s, c)
  <2>1. UNCHANGED <<logical, streams>>
    BY <1>1 DEF OpenStream, ShutdownSession, ShutdownReturns, AbandonOpen, actorVars
  <2>2. QED
    BY <2>1, SameStreams, SameTable
<1>2. CASE AcceptStream(s)
  <2> DEFINE k == Head(stream_chan[s])
             l == [logical[s][k] EXCEPT !.rx = "held"]
  <2>1. UNCHANGED streams /\ logical' = [logical EXCEPT ![s] = [logical[s] EXCEPT ![k] = l]]
    BY <1>2 DEF AcceptStream, actorVars
  <2>2. k \in DOMAIN logical[s] => l.id = logical[s][k].id
    BY StreamOf, SameId
  <2>3. QED
    BY Zenon, <2>1, <2>2, OperationKeepsIds, SameTable
<1>3. CASE DropSession(s)
  <2>1. UNCHANGED streams
    BY <1>3 DEF DropSession, actorVars
  <2>2. IdsKept
    <3>1. \A k \in DOMAIN logical[s] : Dropped(logical[s][k]).id = logical[s][k].id
      BY StreamOf, SameId
    <3>2. QED
      BY Zenon, <1>3, <3>1 DEF DropSession, IdsKept, TypeOK
  <2>3. QED
    BY <2>1, <2>2, SameTable
<1>4. ASSUME NEW k \in 1 .. MaxStreams,
             \/ SendBytes(s, k) \/ Close(s, k) \/ SendEvent(s, k) \/ RecvFrame(s, k)
             \/ DropStream(s, k)
             \/ \E f \in RawFrames : SendFrame(s, k, f)
      PROVE  IdsKept /\ NoInsert
  <2>1. UNCHANGED streams
    BY <1>4 DEF SendBytes, Close, SendEvent, RecvFrame, DropStream, SendFrame, actorVars
  <2>2. ASSUME k \in DOMAIN logical[s] PROVE logical[s][k] \in LogicalStream
    BY <2>2, StreamOf
  <2>3. ASSUME Close(s, k) PROVE IdsKept
    BY Zenon, <2>2, <2>3, SameId, OperationKeepsIds DEF Close
  <2>4. ASSUME RecvFrame(s, k) PROVE IdsKept
    BY Zenon, <2>2, <2>4, SameId, OperationKeepsIds DEF RecvFrame
  <2>5. ASSUME DropStream(s, k) PROVE IdsKept
    BY Zenon, <2>2, <2>5, SameId, OperationKeepsIds DEF DropStream
  <2>6. ASSUME NEW out, logical' = [logical EXCEPT ![s][k].out = out] PROVE IdsKept
    BY Zenon, <2>2, <2>6, SameId, OperationKeepsIds
  <2>7. ASSUME SendBytes(s, k) \/ \E f \in RawFrames : SendFrame(s, k, f) PROVE IdsKept
    <3>1. SendBytes(s, k) => IdsKept
      BY Zenon, <2>6 DEF SendBytes
    <3>2. \A f \in RawFrames : SendFrame(s, k, f) => IdsKept
      BY Zenon, <2>6 DEF SendFrame
    <3>3. QED
      BY <2>7, <3>1, <3>2
  <2>8. ASSUME SendEvent(s, k) PROVE IdsKept
    <3>1. CASE pc[s] # "finished"
      <4>1. logical' = [logical EXCEPT ![s] = [logical[s] EXCEPT ![k] = AfterSend(logical[s][k])]]
        BY <2>8, <3>1 DEF SendEvent
      <4>2. QED
        BY Zenon, <2>2, <4>1, SameId, OperationKeepsIds
    <3>2. CASE pc[s] = "finished"
      BY <2>6, <2>8, <3>2 DEF SendEvent
    <3>3. QED
      BY <3>1, <3>2
  <2>9. IdsKept
    BY <1>4, <2>3, <2>4, <2>5, <2>7, <2>8
  <2>10. QED
    BY <2>1, <2>9, SameTable
<1>5. QED
  BY <1>1, <1>2, <1>3, <1>4 DEF App

LEMMA RouteInit == Init => RoutesToOwnId
  BY EmptyMapType DEF Init, RoutesToOwnId

LEMMA RouteNext == TypeOK /\ RoutesToOwnId /\ [Next]_vars => RoutesToOwnId'
<1>1. SUFFICES ASSUME TypeOK, RoutesToOwnId, [Next]_vars PROVE RoutesToOwnId'
  OBVIOUS
<1>2. CASE UNCHANGED vars \/ Sever
  <2>1. UNCHANGED <<logical, streams>>
    BY <1>2 DEF vars, Sever, actorVars, appVars
  <2>2. QED
    BY <1>1, <2>1, SameStreams, SameTable, RouteFrame
<1>3. ASSUME NEW s \in Side, Actor(s) PROVE RoutesToOwnId'
  BY <1>1, <1>3, RouteReceive, ActorKeepsIds, RouteFrame
<1>4. ASSUME NEW s \in Side, App(s) PROVE RoutesToOwnId'
  BY <1>1, <1>4, AppKeepsIds, RouteFrame
<1>5. QED
  BY <1>1, <1>2, <1>3, <1>4 DEF Next

\* handle_incoming_frame never hands a frame to a stream of another id, whatever
\* ids the applications close or reuse.
THEOREM RoutesToOwnIdAlways == Spec => []RoutesToOwnId
  BY TypeInit, TypeNext, RouteInit, RouteNext, PTL DEF Spec

(***************************************************************************)
(* The frames that are under way.                                          *)
(***************************************************************************)
EventOf(F) == [kind : {"Frame", "Closed"}, frame : F]

\* F has every frame that a stream makes, and those the applications build.
Makes(F) ==
  /\ F \subseteq Frame /\ RawFrames \subseteq F
  /\ \A id \in StreamIds : /\ \A n \in Nat : Data(id, n) \in F
                            /\ Control(id, {}) \in F /\ Control(id, close_request) \in F

Carries(F, l) == l.chan \in Seq(F) /\ l.out \in Seq(EventOf(F))

\* What the streams send and what they are handed is in F.
Traffic(F) ==
  \A s \in Side : /\ event_chan[s] \in Seq(EventOf(F))
                  /\ pc[s] \in {"write", "deliver"} => cur[s] \in F
                  /\ \A k \in DOMAIN logical[s] : Carries(F, logical[s][k])

LEMMA AppKeepsActor ==
  ASSUME NEW s \in Side, App(s)
  PROVE  UNCHANGED <<actorVars, netVars>>
  BY Zenon DEF App, OpenStream, AcceptStream, AbandonOpen, SendBytes, Close, SendEvent, RecvFrame,
         DropStream, SendFrame, ShutdownSession, ShutdownReturns, DropSession

LEMMA TrafficClose ==
  ASSUME NEW F, Makes(F), NEW id \in StreamIds, NEW state
  PROVE  EventsOfClose(id, state) \in Seq(EventOf(F))
<1>1. /\ <<FrameEvent(Control(id, close_request))>> \in Seq(EventOf(F))
      /\ <<ClosedEvent(id)>> \in Seq(EventOf(F)) /\ <<>> \in Seq(EventOf(F))
  <2>1. Control(id, close_request) \in F /\ Control(id, {}) \in F
    BY Zenon DEF Makes
  <2>2. FrameEvent(Control(id, close_request)) \in EventOf(F) /\ ClosedEvent(id) \in EventOf(F)
    BY Zenon, <2>1 DEF FrameEvent, ClosedEvent, EventOf
  <2>3. QED
    BY <2>2
<1>2. \A a, b \in Seq(EventOf(F)) : a \o b \in Seq(EventOf(F))
  OBVIOUS
<1>3. QED
  BY Zenon, <1>1, <1>2 DEF EventsOfClose

\* What the operations make of a stream.
LEMMA TrafficOps ==
  ASSUME NEW F, Makes(F), NEW l \in LogicalStream, Carries(F, l)
  PROVE  /\ Carries(F, Dropped(l)) /\ Carries(F, AfterClose(l))
         /\ l.out # <<>> => Carries(F, AfterSend(l)) /\ Head(l.out) \in EventOf(F)
         /\ l.chan # <<>> => \A split : Carries(F, AfterRecv(split, l))
         /\ Carries(F, [l EXCEPT !.rx = "held"])
         /\ \A out \in Seq(EventOf(F)) : Carries(F, [l EXCEPT !.out = out])
         /\ \A f \in F : Carries(F, [l EXCEPT !.chan = Append(@, f)])
<1>1. /\ l.id \in StreamIds /\ l.chan \in Seq(F) /\ l.out \in Seq(EventOf(F))
      /\ DOMAIN l = {"id", "by", "state", "rx", "chan", "out", "sent", "got", "closes", "peer_closed"}
  BY Zenon DEF LogicalStream, Carries
<1>2. Carries(F, Dropped(l))
  BY <1>1 DEF Carries, Dropped
<1>3. Carries(F, AfterClose(l))
  BY Zenon, <1>1, TrafficClose DEF Carries, AfterClose
<1>4. l.out # <<>> => Carries(F, AfterSend(l)) /\ Head(l.out) \in EventOf(F)
  BY <1>1 DEF Carries, AfterSend
<1>5. l.chan # <<>> => \A split : Carries(F, AfterRecv(split, l))
  BY <1>1 DEF Carries, AfterRecv
<1>6. Carries(F, [l EXCEPT !.rx = "held"])
  BY Zenon, <1>1 DEF Carries
<1>7. \A out \in Seq(EventOf(F)) : Carries(F, [l EXCEPT !.out = out])
  BY Zenon, <1>1 DEF Carries
<1>8. \A f \in F : Carries(F, [l EXCEPT !.chan = Append(@, f)])
  BY <1>1 DEF Carries
<1>9. QED
  BY Zenon, <1>2, <1>3, <1>4, <1>5, <1>6, <1>7, <1>8

LEMMA TrafficUpdate ==
  ASSUME NEW F, TypeOK, Traffic(F), NEW s \in Side, NEW k, NEW l,
         k \in DOMAIN logical[s] => Carries(F, l),
         logical' = [logical EXCEPT ![s] = [logical[s] EXCEPT ![k] = l]]
  PROVE  \A t \in Side : \A j \in DOMAIN logical'[t] : Carries(F, logical'[t][j])
  BY Zenon DEF TypeOK, Traffic

LEMMA TrafficNewStream ==
  ASSUME NEW F, TypeOK, Traffic(F), NEW s \in Side, NEW l \in LogicalStream, Carries(F, l),
         logical' = [logical EXCEPT ![s] = Append(@, l)]
  PROVE  \A t \in Side : \A j \in DOMAIN logical'[t] : Carries(F, logical'[t][j])
<1>1. logical[s] \in Seq(LogicalStream)
  BY Zenon DEF TypeOK
<1>2. \A j \in DOMAIN Append(logical[s], l) :
        \/ j \in DOMAIN logical[s] /\ Append(logical[s], l)[j] = logical[s][j]
        \/ Append(logical[s], l)[j] = l
  BY <1>1
<1>3. QED
  BY Zenon, <1>2 DEF TypeOK, Traffic

LEMMA TrafficActor ==
  ASSUME NEW F, Makes(F), TypeOK, Traffic(F), NEW s \in Side, Actor(s),
         ReceiveForStream(s) => Incoming(s) \in F
  PROVE  Traffic(F)'
<1>1. TypeOK /\ Traffic(F)
  OBVIOUS
<1>2. \A t \in Side : \A k \in DOMAIN logical[t] :
        logical[t][k] \in LogicalStream /\ Carries(F, logical[t][k])
  BY Zenon, <1>1, StreamOf DEF Traffic
<1>3. \A t \in Side : event_chan[t] \in Seq(EventOf(F)) /\ (pc[t] \in {"write", "deliver"} => cur[t] \in F)
  BY Zenon, <1>1 DEF Traffic
<1>4. CASE ReceiveForStream(s)
  <2>1. Incoming(s) \in F
    BY Zenon, <1>4
  <2>2. /\ UNCHANGED <<event_chan, logical>>
        /\ cur'[s] = Incoming(s) /\ \A t \in Side : t # s => pc'[t] = pc[t] /\ cur'[t] = cur[t]
    BY Zenon, <1>1, <1>4 DEF ReceiveForStream, TakeFrame, chanVars, TypeOK
  <2>3. QED
    BY Zenon, <1>2, <1>3, <2>1, <2>2 DEF Traffic
<1>5. CASE Deliver(s) \/ Offer(s)
  <2> DEFINE k == streams[s][cur[s].id]
             l == [logical[s][k] EXCEPT !.chan = Append(@, cur[s])]
  <2>1. /\ UNCHANGED event_chan /\ pc'[s] \in {"select", "respond"}
        /\ \A t \in Side : t # s => pc'[t] = pc[t] /\ cur'[t] = cur[t]
    BY Zenon, <1>1, <1>5 DEF Deliver, Offer, chanVars, TypeOK
  <2>2. \/ logical' = logical
        \/ /\ Deliver(s)
           /\ logical' = [logical EXCEPT ![s] = [logical[s] EXCEPT ![k] = l]]
        \/ logical' = [logical EXCEPT ![s] = [logical[s] EXCEPT ![k] = Dropped(logical[s][k])]]
    BY Zenon, <1>5 DEF Deliver, Offer
  <2>3. Deliver(s) => cur[s] \in F
    BY Zenon, <1>3 DEF Deliver
  <2>4. k \in DOMAIN logical[s] =>
          Carries(F, Dropped(logical[s][k])) /\ (Deliver(s) => Carries(F, l))
    BY Zenon, <1>2, <2>3, TrafficOps
  <2>5. \A t \in Side : \A j \in DOMAIN logical'[t] : Carries(F, logical'[t][j])
    BY ZenonT(30), <1>1, <1>2, <2>2, <2>4, TrafficUpdate
  <2>6. QED
    BY Zenon, <1>3, <2>1, <2>5 DEF Traffic
<1>6. CASE ReceiveOpenRequest(s) \/ ReceiveOpenResponse(s)
  <2>1. /\ UNCHANGED event_chan /\ pc'[s] \in {"select", "offer"}
        /\ \A t \in Side : t # s => pc'[t] = pc[t] /\ cur'[t] = cur[t]
    BY Zenon, <1>1, <1>6 DEF ReceiveOpenRequest, ReceiveOpenResponse, TakeFrame, chanVars, TypeOK
  <2>2. PICK by \in {"open", "accept"}, rx \in {"offered", "held", "dropped"} :
          logical' = [logical EXCEPT ![s] = Append(@, NewStream(Incoming(s).id, by, rx))]
    <3>1. ReceiveOpenRequest(s) =>
            logical' = [logical EXCEPT ![s] = Append(@, NewStream(Incoming(s).id, "accept", "offered"))]
      BY Zenon DEF ReceiveOpenRequest, Register
    <3>2. ReceiveOpenResponse(s) => \E rx \in {"offered", "held", "dropped"} :
            logical' = [logical EXCEPT ![s] = Append(@, NewStream(Incoming(s).id, "open", rx))]
      BY Zenon DEF ReceiveOpenResponse, Register
    <3>3. CASE ReceiveOpenRequest(s)
      BY Zenon, <3>1, <3>3
    <3>4. CASE ReceiveOpenResponse(s)
      BY Zenon, <3>2, <3>4
    <3>5. QED
      BY Zenon, <1>6, <3>3, <3>4
  <2>3. Incoming(s).id \in StreamIds
    BY Zenon, <1>1, <1>6, IncomingType DEF ReceiveOpenRequest, ReceiveOpenResponse, TakeFrame
  <2>4. NewStream(Incoming(s).id, by, rx) \in LogicalStream /\ Carries(F, NewStream(Incoming(s).id, by, rx))
    <3>1. NewStream(Incoming(s).id, by, rx) \in LogicalStream
      BY Zenon, <2>2, <2>3, NewStreamType
    <3>2. Carries(F, NewStream(Incoming(s).id, by, rx))
      BY DEF Carries, NewStream
    <3>3. QED
      BY Zenon, <3>1, <3>2
  <2>5. \A t \in Side : \A j \in DOMAIN logical'[t] : Carries(F, logical'[t][j])
    BY Zenon, <1>1, <2>2, <2>4, TrafficNewStream
  <2>6. QED
    BY Zenon, <1>3, <2>1, <2>5 DEF Traffic
<1>7. CASE HandleFrameEvent(s) \/ HandleClosedEvent(s)
  <2>1. /\ UNCHANGED logical /\ event_chan[s] # <<>>
        /\ event_chan' = [event_chan EXCEPT ![s] = Tail(@)]
        /\ pc'[s] = "select" \/ (pc'[s] = "write" /\ cur'[s] = Head(event_chan[s]).frame)
        /\ \A t \in Side : t # s => pc'[t] = pc[t] /\ cur'[t] = cur[t]
    BY Zenon, <1>1, <1>7 DEF HandleFrameEvent, HandleClosedEvent, appVars, TypeOK
  <2>2. Head(event_chan[s]) \in EventOf(F) /\ Tail(event_chan[s]) \in Seq(EventOf(F))
    BY Zenon, <1>1, <1>3, <2>1, HeadTail
  <2>3. Head(event_chan[s]).frame \in F
    BY Zenon, <2>2 DEF EventOf
  <2>4. \A t \in Side : event_chan'[t] \in Seq(EventOf(F))
    BY Zenon, <1>1, <1>3, <2>1, <2>2 DEF TypeOK
  <2>5. QED
    BY Zenon, <1>2, <1>3, <2>1, <2>3, <2>4 DEF Traffic
<1>8. CASE CloseWriter(s) \/ Abort(s)
  <2> DEFINE k == streams[s][cur[s].id]
  <2>1. \E how : Finish(s, how)
    BY Zenon, <1>8 DEF CloseWriter, Abort
  <2>2. /\ event_chan' = [event_chan EXCEPT ![s] = <<>>] /\ pc'[s] = "finished"
        /\ \A t \in Side : t # s => pc'[t] = pc[t] /\ cur'[t] = cur[t]
    BY Zenon, <1>1, <2>1 DEF Finish, TypeOK
  <2>3. \/ UNCHANGED logical
        \/ logical' = [logical EXCEPT ![s] = [logical[s] EXCEPT ![k] = Dropped(logical[s][k])]]
    BY Zenon, <1>8 DEF CloseWriter, Abort
  <2>4. k \in DOMAIN logical[s] => Carries(F, Dropped(logical[s][k]))
    BY Zenon, <1>2, TrafficOps
  <2>5. \A t \in Side : \A j \in DOMAIN logical'[t] : Carries(F, logical'[t][j])
    BY <1>1, <1>2, <2>3, <2>4, TrafficUpdate
  <2>6. \A t \in Side : event_chan'[t] \in Seq(EventOf(F))
    BY Zenon, <1>1, <1>3, <2>2, EmptyOf DEF TypeOK
  <2>7. QED
    BY Zenon, <1>3, <2>2, <2>5, <2>6 DEF Traffic
<1>9. CASE \/ ReceiveOpenReset(s) \/ ReceiveStray(s) \/ ReadError(s) \/ HandleOpen(s)
           \/ HandleShutdown(s) \/ WriteOk(s) \/ WriteError(s) \/ HandleCancel(s)
  <2>1. UNCHANGED <<event_chan, logical>>
    BY Zenon, <1>9 DEF ReceiveOpenReset, ReceiveStray, ReadError, HandleOpen, HandleShutdown, WriteOk,
                WriteError, HandleCancel, TakeFrame, chanVars, appVars
  <2>2. /\ pc'[s] \in {"select", "closing", "open"}
        /\ \A t \in Side : t # s => pc'[t] = pc[t] /\ cur'[t] = cur[t]
    BY Zenon, <1>1, <1>9 DEF ReceiveOpenReset, ReceiveStray, ReadError, HandleOpen, HandleShutdown, WriteOk,
                      WriteError, HandleCancel, TakeFrame, TakeCommand, Break, TypeOK
  <2>3. QED
    BY Zenon, <1>2, <1>3, <2>1, <2>2 DEF Traffic
<1>10. QED
  BY Zenon, <1>4, <1>5, <1>6, <1>7, <1>8, <1>9 DEF Actor

LEMMA TrafficApp ==
  ASSUME NEW F, Makes(F), TypeOK, Traffic(F), NEW s \in Side, App(s)
  PROVE  Traffic(F)'
<1>1. TypeOK /\ Traffic(F) /\ pc' = pc /\ cur' = cur
  BY Zenon, AppKeepsActor DEF actorVars
<1>2. \A t \in Side : \A k \in DOMAIN logical[t] :
        logical[t][k] \in LogicalStream /\ Carries(F, logical[t][k])
  BY Zenon, <1>1, StreamOf DEF Traffic
<1>3. \A t \in Side : event_chan[t] \in Seq(EventOf(F)) /\ (pc[t] \in {"write", "deliver"} => cur[t] \in F)
  BY Zenon, <1>1 DEF Traffic
<1>4. ASSUME UNCHANGED event_chan,
             \A t \in Side : \A j \in DOMAIN logical'[t] : Carries(F, logical'[t][j])
      PROVE  Traffic(F)'
  BY Zenon, <1>1, <1>3, <1>4 DEF Traffic
<1>5. CASE \/ OpenStream(s) \/ ShutdownSession(s) \/ ShutdownReturns(s)
           \/ \E c \in 1 .. MaxOpens : AbandonOpen(s, c)
  <2>1. UNCHANGED <<logical, event_chan>>
    BY Zenon, <1>5 DEF OpenStream, ShutdownSession, ShutdownReturns, AbandonOpen, chanVars
  <2>2. QED
    BY Zenon, <1>2, <1>4, <2>1
<1>6. CASE AcceptStream(s)
  <2> DEFINE k == Head(stream_chan[s])
             l == [logical[s][k] EXCEPT !.rx = "held"]
  <2>1. UNCHANGED event_chan /\ logical' = [logical EXCEPT ![s] = [logical[s] EXCEPT ![k] = l]]
    BY Zenon, <1>6 DEF AcceptStream
  <2>2. k \in DOMAIN logical[s] => Carries(F, l)
    BY Zenon, <1>2, TrafficOps
  <2>3. QED
    BY Zenon, <1>1, <1>4, <2>1, <2>2, TrafficUpdate
<1>7. CASE DropSession(s)
  <2>1. UNCHANGED event_chan /\ \A t \in Side : t # s => logical'[t] = logical[t]
    BY Zenon, <1>1, <1>7 DEF DropSession, TypeOK
  <2>2. \A k \in DOMAIN logical'[s] :
          k \in DOMAIN logical[s] /\ logical'[s][k] \in {logical[s][k], Dropped(logical[s][k])}
    BY Zenon, <1>1, <1>7 DEF DropSession, TypeOK
  <2>3. QED
    BY Zenon, <1>2, <1>4, <2>1, <2>2, TrafficOps
<1>8. ASSUME NEW k \in 1 .. MaxStreams,
             \/ SendBytes(s, k) \/ Close(s, k) \/ RecvFrame(s, k) \/ DropStream(s, k)
             \/ \E f \in RawFrames : SendFrame(s, k, f)
      PROVE  Traffic(F)'
  <2> DEFINE l == logical[s][k]
             n == Data(l.id, l.sent + 1)
  <2>1. UNCHANGED event_chan /\ k \in DOMAIN logical[s] /\ l \in LogicalStream /\ Carries(F, l)
    BY Zenon, <1>2, <1>8 DEF SendBytes, Close, RecvFrame, DropStream, SendFrame, Idle, chanVars
  <2>2. RawFrames \subseteq F /\ n \in F
    <3>1. l.id \in StreamIds /\ l.sent + 1 \in Nat
      <4>1. l.id \in StreamIds /\ l.sent \in Nat
        BY Zenon, <2>1 DEF LogicalStream
      <4>2. QED
        BY <4>1
    <3>2. QED
      BY Zenon, <3>1 DEF Makes
  <2>3. PICK m : /\ logical' = [logical EXCEPT ![s] = [logical[s] EXCEPT ![k] = m]]
                 /\ Carries(F, m)
    <3>1. CASE Close(s, k)
      BY Zenon, <2>1, <3>1, TrafficOps DEF Close
    <3>2. CASE RecvFrame(s, k)
      BY Zenon, <2>1, <3>2, TrafficOps DEF RecvFrame
    <3>3. CASE DropStream(s, k)
      BY Zenon, <2>1, <3>3, TrafficOps DEF DropStream
    <3>4. ASSUME NEW f \in F, logical' = [logical EXCEPT ![s][k].out = <<FrameEvent(f)>>]
          PROVE  Carries(F, [l EXCEPT !.out = <<FrameEvent(f)>>])
      <4>1. <<FrameEvent(f)>> \in Seq(EventOf(F))
        BY DEF FrameEvent, EventOf
      <4>2. QED
        BY Zenon, <2>1, <4>1, TrafficOps
    <3>5. CASE SendBytes(s, k)
      <4>1. logical' = [logical EXCEPT ![s][k].out = <<FrameEvent(n)>>]
        BY Zenon, <3>5 DEF SendBytes
      <4>2. QED
        BY Zenon, <2>2, <3>4, <4>1
    <3>6. CASE \E f \in RawFrames : SendFrame(s, k, f)
      <4>1. PICK f \in RawFrames : logical' = [logical EXCEPT ![s][k].out = <<FrameEvent(f)>>]
        BY Zenon, <3>6 DEF SendFrame
      <4>2. QED
        BY Zenon, <2>2, <3>4, <4>1
    <3>7. QED
      BY Zenon, <1>8, <3>1, <3>2, <3>3, <3>5, <3>6
  <2>4. QED
    BY Zenon, <1>1, <1>4, <2>1, <2>3, TrafficUpdate
<1>9. ASSUME NEW k \in 1 .. MaxStreams, SendEvent(s, k) PROVE Traffic(F)'
  <2> DEFINE l == logical[s][k]
             m == IF pc[s] = "finished" THEN [l EXCEPT !.out = <<>>] ELSE AfterSend(l)
  <2>1. k \in DOMAIN logical[s] /\ l \in LogicalStream /\ Carries(F, l) /\ l.out # <<>>
    BY Zenon, <1>2, <1>9 DEF SendEvent
  <2>2. logical' = [logical EXCEPT ![s] = [logical[s] EXCEPT ![k] = m]]
    BY Zenon, <1>9 DEF SendEvent
  <2>3. Carries(F, m) /\ Head(l.out) \in EventOf(F)
    <3>1. <<>> \in Seq(EventOf(F))
      OBVIOUS
    <3>2. QED
      BY Zenon, <2>1, <3>1, TrafficOps
  <2>4. \A t \in Side : \A j \in DOMAIN logical'[t] : Carries(F, logical'[t][j])
    BY Zenon, <1>1, <2>2, <2>3, TrafficUpdate
  <2>5. \A t \in Side : event_chan'[t] \in Seq(EventOf(F))
    <3>1. \/ event_chan' = event_chan
          \/ event_chan' = [event_chan EXCEPT ![s] = Append(@, Head(l.out))]
      BY Zenon, <1>9 DEF SendEvent
    <3>2. Append(event_chan[s], Head(l.out)) \in Seq(EventOf(F))
      BY <1>3, <2>3
    <3>3. QED
      BY Zenon, <1>1, <1>3, <3>1, <3>2 DEF TypeOK
  <2>6. QED
    BY Zenon, <1>1, <1>3, <2>4, <2>5 DEF Traffic
<1>10. QED
  BY Zenon, <1>5, <1>6, <1>7, <1>8, <1>9 DEF App

LEMMA TrafficInit == ASSUME NEW F, Init PROVE Traffic(F)
<1>1. <<>> \in Seq(EventOf(F))
  OBVIOUS
<1>2. \A s \in Side : event_chan[s] = <<>> /\ DOMAIN logical[s] = {} /\ pc[s] = "select"
  BY DEF Init
<1>3. QED
  BY Zenon, <1>1, <1>2 DEF Traffic

LEMMA TrafficNext ==
  ASSUME NEW F, Makes(F), TypeOK, Traffic(F), [Next]_vars,
         \A s \in Side : ReceiveForStream(s) => Incoming(s) \in F
  PROVE  Traffic(F)'
<1>1. CASE UNCHANGED vars \/ Sever
  BY Zenon, <1>1 DEF Traffic, vars, Sever, actorVars, chanVars, appVars
<1>2. QED
  BY Zenon, <1>1, TrafficActor, TrafficApp DEF Next

\* What a side does leaves the tables, channels and streams of the other alone.
Local(s) ==
  \A t \in Side : t # s =>
    /\ pc'[t] = pc[t] /\ cur'[t] = cur[t] /\ streams'[t] = streams[t]
    /\ event_chan'[t] = event_chan[t] /\ stream_chan'[t] = stream_chan[t]
    /\ logical'[t] = logical[t]

LEMMA ActorLocal == ASSUME TypeOK, NEW s \in Side, Actor(s) PROVE Local(s)
<1>1. CASE ReceiveForStream(s) \/ ReceiveOpenReset(s) \/ ReceiveStray(s)
  BY Zenon, <1>1 DEF Local, TypeOK, ReceiveForStream, ReceiveOpenReset, ReceiveStray, TakeFrame, chanVars
<1>2. CASE ReceiveOpenRequest(s) \/ ReceiveOpenResponse(s)
  BY Zenon, <1>2 DEF Local, TypeOK, ReceiveOpenRequest, ReceiveOpenResponse, Register, TakeFrame, chanVars
<1>3. CASE Deliver(s) \/ Offer(s)
  BY Zenon, <1>3 DEF Local, TypeOK, Deliver, Offer, chanVars
<1>4. CASE ReadError(s) \/ HandleCancel(s) \/ WriteOk(s) \/ WriteError(s)
  BY Zenon, <1>4 DEF Local, TypeOK, ReadError, HandleCancel, WriteOk, WriteError, Break, chanVars, appVars
<1>5. CASE \/ HandleOpen(s) \/ HandleShutdown(s) \/ HandleFrameEvent(s) \/ HandleClosedEvent(s)
  BY Zenon, <1>5 DEF Local, TypeOK, HandleOpen, HandleShutdown, HandleFrameEvent, HandleClosedEvent,
                     TakeCommand, appVars
<1>6. CASE CloseWriter(s) \/ Abort(s)
  <2>1. PICK how : Finish(s, how)
    BY Zenon, <1>6 DEF CloseWriter, Abort
  <2>2. \A t \in Side : t # s => logical'[t] = logical[t]
    BY Zenon, <1>6 DEF CloseWriter, Abort, TypeOK
  <2>3. QED
    BY Zenon, <2>1, <2>2 DEF Local, TypeOK, Finish
<1>7. QED
  BY Zenon, <1>1, <1>2, <1>3, <1>4, <1>5, <1>6 DEF Actor

LEMMA AppLocal == ASSUME TypeOK, NEW s \in Side, App(s) PROVE Local(s)
<1>1. UNCHANGED <<pc, cur, streams>>
  BY Zenon, AppKeepsActor DEF actorVars
<1>2. CASE \/ OpenStream(s) \/ AcceptStream(s) \/ ShutdownSession(s) \/ ShutdownReturns(s)
           \/ DropSession(s) \/ \E c \in 1 .. MaxOpens : AbandonOpen(s, c)
  <2>1. CASE \/ OpenStream(s) \/ ShutdownSession(s) \/ ShutdownReturns(s)
             \/ \E c \in 1 .. MaxOpens : AbandonOpen(s, c)
    BY Zenon, <1>1, <2>1 DEF Local, OpenStream, ShutdownSession, ShutdownReturns, AbandonOpen, chanVars
  <2>2. CASE AcceptStream(s) \/ DropSession(s)
    BY Zenon, <1>1, <2>2 DEF Local, TypeOK, AcceptStream, DropSession
  <2>3. QED
    BY Zenon, <1>2, <2>1, <2>2
<1>3. ASSUME NEW k, \/ SendBytes(s, k) \/ Close(s, k) \/ SendEvent(s, k) \/ RecvFrame(s, k)
                    \/ DropStream(s, k) \/ \E f \in RawFrames : SendFrame(s, k, f)
      PROVE  Local(s)
  BY Zenon, <1>1, <1>3 DEF Local, TypeOK, SendBytes, Close, SendEvent, RecvFrame, DropStream, SendFrame,
                           chanVars
<1>4. QED
  BY Zenon, <1>2, <1>3 DEF App

\* F has the frames that open a stream too.
Opens(F) == \A id \in StreamIds : Control(id, open_request) \in F /\ Control(id, open_response) \in F

\* And so is what is on the wire, or on its way to it.
OnWire(F) ==
  \A s \in Side : wire[s] \in Seq(F) /\ (pc[s] \in {"open", "respond"} => cur[s] \in F)

LEMMA OnWireActor ==
  ASSUME NEW F, Makes(F), Opens(F), TypeOK, Traffic(F), OnWire(F), NEW s \in Side, Actor(s)
  PROVE  OnWire(F)'
<1>1. /\ Peer(s) \in Side
      /\ \A t \in Side : wire[t] \in Seq(F) /\ (pc[t] \in {"open", "respond"} => cur[t] \in F)
  BY Zenon, PeerSide DEF OnWire
<1>2. CASE \/ ReceiveForStream(s) \/ ReceiveOpenRequest(s) \/ ReceiveOpenResponse(s)
           \/ ReceiveOpenReset(s) \/ ReceiveStray(s)
  <2>1. TakeFrame(s)
    BY Zenon, <1>2 DEF ReceiveForStream, ReceiveOpenRequest, ReceiveOpenResponse, ReceiveOpenReset,
                       ReceiveStray
  <2>2. wire[Peer(s)] # <<>> /\ wire' = [wire EXCEPT ![Peer(s)] = Tail(@)] /\ pc[s] = "select"
    BY Zenon, <2>1 DEF TakeFrame
  <2>3. Tail(wire[Peer(s)]) \in Seq(F)
    BY <1>1, <2>2
  <2>4. \A t \in Side : wire'[t] \in Seq(F)
    BY Zenon, <1>1, <2>2, <2>3 DEF TypeOK
  <2>5. /\ pc'[s] \in {"select", "deliver", "offer"}
        /\ \A t \in Side : t # s => pc'[t] = pc[t] /\ cur'[t] = cur[t]
    BY Zenon, <1>2, <2>2 DEF ReceiveForStream, ReceiveOpenRequest, ReceiveOpenResponse,
                             ReceiveOpenReset, ReceiveStray, TypeOK
  <2>6. QED
    BY Zenon, <1>1, <2>4, <2>5 DEF OnWire
<1>3. CASE Offer(s) \/ HandleOpen(s)
  <2>1. UNCHANGED wire /\ \A t \in Side : t # s => pc'[t] = pc[t] /\ cur'[t] = cur[t]
    BY Zenon, <1>3 DEF Offer, HandleOpen, netVars, TypeOK
  <2>2. \E id \in StreamIds : cur'[s] \in {Control(id, open_response), Control(id, open_request)}
    <3>1. cur[s].id \in StreamIds /\ next_stream_id[s] \in StreamIds
      BY Zenon DEF TypeOK, Frame
    <3>2. Offer(s) => cur'[s] = Control(cur[s].id, open_response)
      BY Zenon DEF Offer, TypeOK
    <3>3. HandleOpen(s) => cur'[s] = Control(next_stream_id[s], open_request)
      BY Zenon DEF HandleOpen, TypeOK
    <3>4. QED
      BY Zenon, <1>3, <3>1, <3>2, <3>3
  <2>3. cur'[s] \in F
    BY Zenon, <2>2 DEF Opens
  <2>4. QED
    BY Zenon, <1>1, <2>1, <2>3 DEF OnWire
<1>4. CASE WriteOk(s)
  <2>1. /\ pc[s] \in {"respond", "open", "write"}
        /\ \/ wire' = [wire EXCEPT ![s] = Append(@, cur[s])]
           \/ wire' = wire
        /\ pc'[s] = "select" /\ \A t \in Side : t # s => pc'[t] = pc[t] /\ cur'[t] = cur[t]
    BY Zenon, <1>4 DEF WriteOk, TypeOK
  <2>2. cur[s] \in F
    BY Zenon, <1>1, <2>1 DEF Traffic
  <2>3. Append(wire[s], cur[s]) \in Seq(F)
    BY <1>1, <2>2
  <2>4. \A t \in Side : wire'[t] \in Seq(F)
    BY Zenon, <1>1, <2>1, <2>3 DEF TypeOK
  <2>5. QED
    BY <1>1, <2>1, <2>4 DEF OnWire
<1>5. CASE CloseWriter(s) \/ Abort(s)
  <2>1. \E how : Finish(s, how)
    BY Zenon, <1>5 DEF CloseWriter, Abort
  <2>2. /\ wire' = [wire EXCEPT ![Peer(s)] = <<>>] /\ pc'[s] = "finished"
        /\ \A t \in Side : t # s => pc'[t] = pc[t] /\ cur'[t] = cur[t]
    BY Zenon, <2>1 DEF Finish, TypeOK
  <2>3. <<>> \in Seq(F)
    OBVIOUS
  <2>4. \A t \in Side : wire'[t] \in Seq(F)
    BY Zenon, <1>1, <2>2, <2>3 DEF TypeOK
  <2>5. QED
    BY <1>1, <2>2, <2>4 DEF OnWire
<1>6. CASE \/ Deliver(s) \/ ReadError(s) \/ HandleShutdown(s) \/ HandleFrameEvent(s)
           \/ HandleClosedEvent(s) \/ WriteError(s) \/ HandleCancel(s)
  <2>1. UNCHANGED wire
    BY Zenon, <1>6 DEF Deliver, ReadError, HandleShutdown, HandleFrameEvent, HandleClosedEvent,
                       WriteError, HandleCancel, netVars
  <2>2. /\ pc'[s] \in {"select", "closing", "write"}
        /\ \A t \in Side : t # s => pc'[t] = pc[t] /\ cur'[t] = cur[t]
    BY Zenon, <1>6 DEF Deliver, ReadError, HandleShutdown, HandleFrameEvent, HandleClosedEvent,
                       WriteError, HandleCancel, Break, TakeCommand, TypeOK
  <2>3. QED
    BY Zenon, <1>1, <2>1, <2>2 DEF OnWire
<1>7. QED
  BY Zenon, <1>2, <1>3, <1>4, <1>5, <1>6 DEF Actor

\* Every frame that is under way is one that the code makes or an application
\* builds.
Made(F) == TypeOK /\ Traffic(F) /\ OnWire(F)

LEMMA MadeInit == ASSUME NEW F, Init PROVE Made(F)
<1>1. OnWire(F)
  <2>1. <<>> \in Seq(F)
    OBVIOUS
  <2>2. \A s \in Side : wire[s] = <<>> /\ pc[s] = "select"
    BY DEF Init
  <2>3. QED
    BY Zenon, <2>1, <2>2 DEF OnWire
<1>2. QED
  BY Zenon, <1>1, TypeInit, TrafficInit DEF Made

LEMMA MadeNext ==
  ASSUME NEW F, Makes(F), Opens(F), Made(F), [Next]_vars
  PROVE  Made(F)'
<1>1. TypeOK /\ Traffic(F) /\ OnWire(F) /\ [Next]_vars
  BY Zenon DEF Made
<1>2. ASSUME NEW s \in Side, ReceiveForStream(s) PROVE Incoming(s) \in F
  <2>1. wire[Peer(s)] # <<>> /\ wire[Peer(s)] \in Seq(F)
    BY Zenon, <1>1, <1>2, PeerSide DEF OnWire, ReceiveForStream, TakeFrame
  <2>2. QED
    BY <2>1 DEF Incoming
<1>3. TypeOK' /\ Traffic(F)'
  BY Zenon, <1>1, <1>2, TypeNext, TrafficNext
<1>4. OnWire(F)'
  <2>1. CASE UNCHANGED vars
    BY Zenon, <1>1, <2>1 DEF OnWire, vars, actorVars, netVars
  <2>2. CASE Sever
    <3>1. <<>> \in Seq(F)
      OBVIOUS
    <3>2. QED
      BY <1>1, <2>2, <3>1 DEF OnWire, Sever, actorVars
  <2>3. ASSUME NEW s \in Side, App(s) PROVE OnWire(F)'
    BY Zenon, <1>1, <2>3, AppKeepsActor DEF OnWire, actorVars, netVars
  <2>4. QED
    BY Zenon, <1>1, <2>1, <2>2, <2>3, OnWireActor DEF Next
<1>5. QED
  BY Zenon, <1>3, <1>4 DEF Made
=============================================================================
