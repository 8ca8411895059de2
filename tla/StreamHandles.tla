---------------------------- MODULE StreamHandles ----------------------------
(***************************************************************************)
(* One Stream of foctet-net between the node that opened it and the node   *)
(* that accepted it, over a QUIC or a TCP connection: the message calls    *)
(* (send, receive; send_frame and receive_frame move one unit in the same  *)
(* way), the byte calls of AsyncRead and AsyncWrite, close, splitting into *)
(* halves, and the close of the connection.                                *)
(*                                                                         *)
(* What is between the two handles is a pipe of units per direction, the   *)
(* delimited chunks of a QUIC stream or the frames of a logical stream; a  *)
(* unit is its length.  That sessions deliver frames in order is shown in  *)
(* MuxSession.                                                             *)
(***************************************************************************)
EXTENDS Naturals, SequencesExt

CONSTANTS
  Forms,         \* how the two sides hold the stream
  BufferSize,    \* write_buffer_size of the stream
  PipeCap,       \* units one direction holds before a send waits
  ReadBuf,       \* the room a caller of read offers
  Lens,          \* lengths of messages
  MaxSends,      \* bound: send and write calls of each side
  MaxCloses,     \* bound: close() calls of each side
  Abandons,      \* a caller may drop a send that waits
  ConnCloses     \* sides that close the connection

Side == {"opener", "acceptor"}
Peer(s) == IF s = "opener" THEN "acceptor" ELSE "opener"

ASSUME HandlesAssumption ==
  /\ {BufferSize, PipeCap, ReadBuf} \subseteq Nat \ {0} /\ Lens \subseteq Nat
  /\ Forms \subseteq [Side -> {"whole", "halves"}]
  /\ {MaxSends, MaxCloses} \subseteq [Side -> Nat] /\ ConnCloses \subseteq Side

VARIABLES
  kind,          \* the transport, "Quic" or "Tcp"
  api,           \* the calls the applications use, "messages" or "bytes"
  form,          \* a side holds the Stream "whole" or its "halves"
  accepted,      \* accept_stream has returned the stream
  conn,          \* the connection at each side
  writer,        \* send or close of each side: [op, len, total_sent, taken]
  reader,        \* what the reading side is doing
  held,          \* QUIC: chunks in the buffer of a side's FramedWrite
  pipe,          \* units on their way from a side
  fin,           \* QUIC: the side has finished its direction
  closes,        \* close() calls
  gone,          \* TCP: the session let go of the side's end
  calls,         \* send and write calls of a side
  asked,         \* bytes of each message handed over by a side
  got,           \* units received by a side
  eof,           \* the side was told that nothing more comes
  blurred        \* TCP: the side sent an empty message, or after its close

fixed == <<kind, api, form>>
history == <<calls, asked, got, eof, blurred>>
vars == <<fixed, accepted, conn, writer, reader, held, pipe, fin, closes, gone, history>>

Data(n) == [type |-> "data", len |-> n]
CloseUnit == [type |-> "close_request", len |-> 0]
IsData(u) == u.type = "data"
Idle == [op |-> "idle", len |-> 0, total_sent |-> 0, taken |-> FALSE]

Init ==
  /\ kind \in {"Quic", "Tcp"} /\ api \in {"messages", "bytes"}
  /\ form \in Forms /\ accepted = FALSE /\ conn = [s \in Side |-> "up"]
  /\ writer = [s \in Side |-> Idle] /\ reader = [s \in Side |-> "idle"]
  /\ held = [s \in Side |-> <<>>] /\ pipe = [s \in Side |-> <<>>] /\ fin = [s \in Side |-> FALSE]
  /\ closes = [s \in Side |-> 0] /\ gone = [s \in Side |-> FALSE]
  /\ calls = [s \in Side |-> 0] /\ asked = [s \in Side |-> <<>>] /\ got = [s \in Side |-> <<>>]
  /\ eof = [s \in Side |-> FALSE] /\ blurred = [s \in Side |-> FALSE]

\* Mutant: a QUIC stream shows once its opener is done with it.
AnnouncedAtEnd == kind = "Quic" => fin["opener"]

\* A logical stream is announced by its open request, a QUIC stream by the
\* first thing that is written to it.
Announced == kind = "Quic" => pipe["opener"] # <<>> \/ fin["opener"]

\* accept_stream.
AcceptStream ==
  /\ ~accepted /\ conn["acceptor"] = "up" /\ Announced
  /\ accepted' = TRUE
  /\ UNCHANGED <<fixed, conn, writer, reader, held, pipe, fin, closes, gone, history>>

\* The application of s has the stream, and a call borrows the whole of it or
\* one of its halves.
Has(s) == s = "acceptor" => accepted
WriterFree(s) == Has(s) /\ writer[s].op = "idle" /\ (form[s] = "whole" => reader[s] = "idle")
ReaderFree(s) == Has(s) /\ reader[s] = "idle" /\ (form[s] = "whole" => writer[s].op = "idle")

\* Mutant: one unit more than there is room for.
RoomForOneMore(s) == gone[Peer(s)] \/ Len(pipe[s]) <= PipeCap

\* A session drops the frames for a stream that it has let go of.
Room(s) == gone[Peer(s)] \/ Len(pipe[s]) < PipeCap
Put(s, u) == pipe' = [pipe EXCEPT ![s] = IF gone[Peer(s)] THEN @ ELSE Append(@, u)]

BothUp == \A s \in Side : conn[s] = "up"

\* TCP: an empty frame, or one after the close request, blurs the end.
Blur(s, n) == blurred' = [blurred EXCEPT ![s] = @ \/ (kind = "Tcp" /\ (n = 0 \/ closes[s] > 0))]

-----------------------------------------------------------------------------
\* The sending side.

\* send(data) is called: QUIC's loop has nothing to do for empty data.
Send(s, n) ==
  /\ api = "messages" /\ WriterFree(s) /\ conn[s] = "up" /\ ~fin[s]
  /\ calls[s] < MaxSends[s] /\ calls' = [calls EXCEPT ![s] = @ + 1]
  /\ IF kind = "Quic" /\ n = 0
     THEN asked' = [asked EXCEPT ![s] = Append(@, 0)] /\ UNCHANGED writer
     ELSE writer' = [writer EXCEPT ![s] = [Idle EXCEPT !.op = "send", !.len = n]] /\ UNCHANGED asked
  /\ Blur(s, n)
  /\ UNCHANGED <<fixed, accepted, conn, reader, held, pipe, fin, closes, gone, got, eof>>

\* The send returns.
Returned(s, n) ==
  /\ writer' = [writer EXCEPT ![s] = Idle] /\ asked' = [asked EXCEPT ![s] = Append(@, n)]

\* A logical stream hands its session one frame, of whatever length.
SendFrame(s) ==
  /\ kind = "Tcp" /\ writer[s].op = "send" /\ BothUp /\ Room(s)
  /\ Put(s, Data(writer[s].len)) /\ Returned(s, writer[s].len)
  /\ UNCHANGED <<fixed, accepted, conn, reader, held, fin, closes, gone, calls, got, eof, blurred>>

\* Mutant: every chunk has the buffer's size.
FullChunk(w) == BufferSize

\* The size of the next chunk of a send over QUIC.
ChunkSize(w) == Min({BufferSize, w.len - w.total_sent})

\* framed_writer.send takes the chunk into its buffer ...
TakeChunk(s) ==
  LET w == writer[s]
  IN /\ kind = "Quic" /\ w.op = "send" /\ ~w.taken /\ BothUp
     /\ held' = [held EXCEPT ![s] = Append(@, Data(ChunkSize(w)))]
     /\ writer' = [writer EXCEPT ![s].taken = TRUE, ![s].total_sent = @ + ChunkSize(w)]
     /\ UNCHANGED <<fixed, accepted, conn, reader, pipe, fin, closes, gone, history>>

\* ... and waits until the buffer is flushed, as does close.
Flush(s) ==
  LET w == writer[s]
  IN /\ held[s] # <<>> /\ (w.taken \/ w.op = "close") /\ BothUp /\ Room(s)
     /\ Put(s, Head(held[s])) /\ held' = [held EXCEPT ![s] = Tail(@)]
     /\ IF w.op = "send" /\ Len(held[s]) = 1
        THEN IF w.total_sent >= w.len THEN Returned(s, w.len)
             ELSE writer' = [writer EXCEPT ![s].taken = FALSE] /\ UNCHANGED asked
        ELSE UNCHANGED <<writer, asked>>
     /\ UNCHANGED <<fixed, accepted, conn, reader, fin, closes, gone, calls, got, eof, blurred>>

\* Mutant: a write into a connection that the peer has closed does not fail.
OwnDown(s) == conn[s] = "closed"

\* The connection is down.
Down(s) == ~BothUp

\* The call fails, and a TCP session that finds out by writing ends.
SendFails(s) ==
  /\ writer[s].op # "idle" /\ Down(s)
  /\ writer' = [writer EXCEPT ![s] = Idle] /\ conn' = [conn EXCEPT ![s] = "closed"]
  /\ UNCHANGED <<fixed, accepted, reader, held, pipe, fin, closes, gone, history>>

\* The caller drops a send or a close that waits: what the buffer has taken
\* stays in it.
Abandon(s) ==
  /\ Abandons /\ writer[s].op # "idle" /\ writer' = [writer EXCEPT ![s] = Idle]
  /\ asked' = [asked EXCEPT ![s] = IF writer[s].total_sent = 0 THEN @
                                   ELSE Append(@, writer[s].total_sent)]
  /\ UNCHANGED <<fixed, accepted, conn, reader, held, pipe, fin, closes, gone, calls, got, eof, blurred>>

\* poll_write.  A logical stream that finds its channel full does not wait:
\* the call fails, and nothing is sent.
Write(s, n) ==
  /\ api = "bytes" /\ WriterFree(s) /\ BothUp /\ ~fin[s] /\ (kind = "Quic" => n > 0)
  /\ calls[s] < MaxSends[s] /\ calls' = [calls EXCEPT ![s] = @ + 1]
  /\ \/ Room(s) /\ Put(s, Data(n)) /\ asked' = [asked EXCEPT ![s] = Append(@, n)]
     \/ kind = "Tcp" /\ ~Room(s) /\ UNCHANGED <<asked, pipe>>
  /\ Blur(s, n)
  /\ UNCHANGED <<fixed, accepted, conn, writer, reader, held, fin, closes, gone, got, eof>>

\* close() is called.  A logical stream notes the close before it tells anyone.
Close(s) ==
  /\ WriterFree(s) /\ BothUp /\ ~fin[s] /\ closes[s] < MaxCloses[s]
  /\ closes' = [closes EXCEPT ![s] = @ + 1]
  /\ writer' = [writer EXCEPT ![s].op = "close"]
  /\ UNCHANGED <<fixed, accepted, conn, reader, held, pipe, fin, gone, history>>

\* Mutant: the direction is finished before the buffer is flushed.
Unflushed(s) == TRUE

\* QUIC finishes the direction once the buffer is flushed.
Flushed(s) == held[s] = <<>>

\* A logical stream sends a close request the first time, and its session lets
\* go of it the second time.
CloseDone(s) ==
  /\ writer[s].op = "close" /\ BothUp /\ writer' = [writer EXCEPT ![s] = Idle]
  /\ \/ kind = "Quic" /\ Flushed(s) /\ fin' = [fin EXCEPT ![s] = TRUE] /\ UNCHANGED <<pipe, gone>>
     \/ kind = "Tcp" /\ closes[s] = 1 /\ Room(s) /\ Put(s, CloseUnit) /\ UNCHANGED <<fin, gone>>
     \/ /\ kind = "Tcp" /\ closes[s] > 1
        /\ gone' = [gone EXCEPT ![s] = TRUE] /\ UNCHANGED <<fin, pipe>>
  /\ UNCHANGED <<fixed, accepted, conn, reader, held, closes, history>>

-----------------------------------------------------------------------------
\* The receiving side.

\* receive() or read() is called.
StartReceive(s) ==
  /\ ReaderFree(s) /\ ~eof[s]
  /\ reader' = [reader EXCEPT ![s] = IF api = "messages" THEN "receive" ELSE "read"]
  /\ UNCHANGED <<fixed, accepted, conn, writer, held, pipe, fin, closes, gone, history>>

\* Nothing more can come: the peer has finished, or the connection ended, or
\* the session dropped the sender of this stream's channel.
Ended(s) ==
  \/ kind = "Quic" /\ (fin[Peer(s)] \/ conn[s] = "closed")
  \/ kind = "Tcp" /\ (gone[s] \/ conn[s] = "closed")

\* Mutant: only the end of the direction is reported, not that of the connection.
AtFin(s) == pipe[Peer(s)] = <<>> /\ fin[Peer(s)]

AtEnd(s) == pipe[Peer(s)] = <<>> /\ Ended(s)

\* receive(): the next unit; a close request is an empty message.
Receive(s) ==
  /\ reader[s] = "receive" /\ reader' = [reader EXCEPT ![s] = "idle"]
  /\ \/ /\ pipe[Peer(s)] # <<>>
        /\ pipe' = [pipe EXCEPT ![Peer(s)] = Tail(@)]
        /\ got' = [got EXCEPT ![s] = Append(@, Head(pipe[Peer(s)]))]
        /\ UNCHANGED eof
     \/ /\ AtEnd(s)
        /\ eof' = [eof EXCEPT ![s] = TRUE] /\ UNCHANGED <<pipe, got>>
  /\ UNCHANGED <<fixed, accepted, conn, writer, held, fin, closes, gone, calls, asked, blurred>>

\* QUIC keeps what did not fit into the buffer.
Rest(u, n) == IF u.len = n THEN <<>> ELSE <<Data(u.len - n)>>

\* poll_read of a QUIC stream: at most the buffer, and woken by more data.
ReadQuic(s) ==
  LET u == Head(pipe[Peer(s)])
      n == IF u.len > ReadBuf THEN ReadBuf ELSE u.len
  IN /\ kind = "Quic" /\ reader[s] = "read" /\ reader' = [reader EXCEPT ![s] = "idle"]
     /\ \/ /\ pipe[Peer(s)] # <<>>
           /\ pipe' = [pipe EXCEPT ![Peer(s)] = Rest(u, n) \o Tail(@)]
           /\ got' = [got EXCEPT ![s] = Append(@, Data(n))] /\ UNCHANGED eof
        \/ /\ AtEnd(s)
           /\ eof' = [eof EXCEPT ![s] = TRUE] /\ UNCHANGED <<pipe, got>>
     /\ UNCHANGED <<fixed, accepted, conn, writer, held, fin, closes, gone, calls, asked, blurred>>

\* poll_read of a logical stream.  Nothing there: Pending, but no waker is left
\* with the channel.  A unit larger than the buffer: put_slice panics.  A close
\* request, like an empty frame, reads as zero bytes, which is the end.
ReadTcp(s) ==
  LET u == Head(pipe[Peer(s)])
  IN /\ kind = "Tcp" /\ reader[s] = "read"
     /\ \/ /\ pipe[Peer(s)] # <<>> /\ pipe' = [pipe EXCEPT ![Peer(s)] = Tail(@)]
           /\ \/ /\ u.len = 0 /\ eof' = [eof EXCEPT ![s] = TRUE]
                 /\ reader' = [reader EXCEPT ![s] = "idle"] /\ UNCHANGED got
              \/ /\ u.len \in 1 .. ReadBuf /\ got' = [got EXCEPT ![s] = Append(@, u)]
                 /\ reader' = [reader EXCEPT ![s] = "idle"] /\ UNCHANGED eof
              \/ /\ u.len > ReadBuf /\ reader' = [reader EXCEPT ![s] = "panicked"]
                 /\ UNCHANGED <<got, eof>>
        \/ /\ AtEnd(s) /\ eof' = [eof EXCEPT ![s] = TRUE]
           /\ reader' = [reader EXCEPT ![s] = "idle"] /\ UNCHANGED <<pipe, got>>
        \/ /\ pipe[Peer(s)] = <<>> /\ ~Ended(s) /\ reader' = [reader EXCEPT ![s] = "parked"]
           /\ UNCHANGED <<pipe, got, eof>>
     /\ UNCHANGED <<fixed, accepted, conn, writer, held, fin, closes, gone, calls, asked, blurred>>

-----------------------------------------------------------------------------
\* Connection::close.  QUIC drops what is in flight and both nodes learn of
\* it; a TCP session ends after what its actor has written, and its peer,
\* which ignores the end of the connection, learns by writing.
CloseConnection(s) ==
  /\ s \in ConnCloses /\ BothUp
  /\ conn' = IF kind = "Quic" THEN [x \in Side |-> "closed"] ELSE [conn EXCEPT ![s] = "closed"]
  /\ \E i \in 0 .. Len(pipe[s]), j \in 0 .. Len(pipe[Peer(s)]) :
       /\ kind = "Quic" => i = 0 /\ j = 0
       /\ pipe' = [x \in Side |-> SubSeq(pipe[x], 1, IF x = s THEN i ELSE j)]
  /\ UNCHANGED <<fixed, accepted, writer, reader, held, fin, closes, gone, history>>

ReaderStep(s) == Receive(s) \/ ReadQuic(s) \/ ReadTcp(s)
WriterStep(s) == SendFrame(s) \/ TakeChunk(s) \/ Flush(s) \/ CloseDone(s) \/ SendFails(s)

Next ==
  \/ AcceptStream
  \/ \E s \in Side :
       \/ WriterStep(s) \/ ReaderStep(s)
       \/ StartReceive(s) \/ Close(s) \/ Abandon(s) \/ CloseConnection(s)
       \/ \E n \in Lens : Send(s, n) \/ Write(s, n)

Spec == Init /\ [][Next]_vars

\* Calls that can go on do; the applications accept and read in a loop.
FairSpec ==
  /\ Spec /\ WF_vars(AcceptStream)
  /\ \A s \in Side : WF_vars(WriterStep(s)) /\ WF_vars(ReaderStep(s)) /\ WF_vars(StartReceive(s))

-----------------------------------------------------------------------------
\* Every variable has its type, and a whole stream runs one call at a time.
TypeOK ==
  /\ kind \in {"Quic", "Tcp"} /\ api \in {"messages", "bytes"}
  /\ form \in [Side -> {"whole", "halves"}] /\ accepted \in BOOLEAN
  /\ conn \in [Side -> {"up", "closed"}]
  /\ reader \in [Side -> {"idle", "receive", "read", "parked", "panicked"}]
  /\ \A s \in Side :
       /\ Len(pipe[s]) <= PipeCap /\ writer[s].op \in {"idle", "send", "close"}
       /\ form[s] = "whole" => ~(writer[s].op # "idle" /\ reader[s] \in {"receive", "read"})

\* The units a message of n bytes makes.
Units(n) ==
  IF kind = "Tcp" THEN <<Data(n)>>
  ELSE [i \in 1 .. (n + BufferSize - 1) \div BufferSize |->
          Data(IF i * BufferSize <= n THEN BufferSize ELSE n - (i - 1) * BufferSize)]

\* What the receiver has got and what is on its way are the units of the
\* messages sent, in order: a message that fits into the buffer arrives as one
\* receive, a larger one over QUIC as its chunks, and an abandoned send leaves
\* whole chunks only.  As long as the connection is up.
MessagesInUnits ==
  api = "messages" /\ BothUp /\ (\A s \in Side : ~gone[s]) =>
    \A s \in Side :
      SelectSeq(got[Peer(s)] \o pipe[s] \o held[s], IsData)
        = FlattenSeq([i \in DOMAIN asked[s] |-> Units(asked[s][i])])
          \o (IF writer[s].total_sent = 0 THEN <<>> ELSE Units(writer[s].total_sent))

Received(s) == FoldSeq(LAMBDA u, n : u.len + n, 0, got[s])
Sent(s) == FoldSeq(+, 0, asked[s])

\* A reader that is told the end has got every byte, unless the connection was
\* closed, its own session let go of the stream, or the peer blurred the end.
EndIsComplete ==
  \A s \in Side :
    eof[s] /\ ~gone[s] /\ ~blurred[Peer(s)] /\ BothUp =>
      Received(s) = Sent(Peer(s)) /\ closes[Peer(s)] > 0

\* Both applications hold whole streams and send into full pipes that neither
\* empties, or the one that is to empty it no longer reads.
Stalled(s) ==
  \/ \A x \in Side : form[x] = "whole" /\ writer[x].op # "idle" /\ Len(pipe[x]) = PipeCap
  \/ BothUp /\ eof[Peer(s)]
  \/ reader[Peer(s)] \in {"parked", "panicked"}

\* Every send returns while the peer reads on, but for two whole streams that
\* send to each other.
SendReturns == \A s \in Side : writer[s].op # "idle" ~> (writer[s].op = "idle" \/ Stalled(s))

\* A receive, and over QUIC a read, returns once there is something for it.
ReceiveReturns ==
  \A s \in Side :
    (reader[s] \in {"receive", "read"} /\ (pipe[Peer(s)] # <<>> \/ Ended(s)))
      ~> \/ reader[s] \notin {"receive", "read"}
         \/ kind = "Tcp" /\ conn[Peer(s)] = "closed"

\* A stream that its opener has written to is accepted, unless the only chunk
\* is one that an abandoned send left in the buffer.
WrittenIsAccepted ==
  (Sent("opener") > 0 /\ held["opener"] = <<>>)
    ~> (accepted \/ conn["acceptor"] = "closed")
=============================================================================
