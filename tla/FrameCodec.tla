----------------------------- MODULE FrameCodec -----------------------------
(***************************************************************************)
(* One direction of a framed connection (foctet-core: codec.rs, frame.rs): *)
(* FramedWrite encodes a frame into its buffer and flushes it, the socket  *)
(* moves bytes in pieces of any size, FramedRead collects them and asks    *)
(* FrameCodec::decode for the next frame.  The writer may be closed, or    *)
(* dropped with half a frame written.                                      *)
(*                                                                         *)
(* A byte has Base values; the header keeps its five fields, their order   *)
(* and their widths in bytes.                                              *)
(***************************************************************************)
EXTENDS Integers, Sequences

CONSTANTS
  Base,        \* values of a byte: 256
  FlagValues,  \* values of the byte whose bits are all known flags: 128
  Messages,    \* the frames the application sends
  PipeCap,     \* bytes the socket buffers hold
  MaxFrames    \* bound: frames sent

Byte == 0 .. Base - 1
U32  == 0 .. Base * Base * Base * Base - 1

Header == [stream_id : U32, operation_id : U32, flags : 0 .. FlagValues - 1,
           frame_type : Byte]

\* payload_len is written from the payload and not part of what is sent.
Frame == [header : Header, payload : Seq(Byte)]

\* The payload's length fits the u32 it is cast to.
ASSUME CodecAssumption ==
  /\ {Base, FlagValues, PipeCap} \subseteq Nat \ {0}
  /\ Base > 1 /\ FlagValues <= Base
  /\ MaxFrames \in Nat
  /\ Messages \subseteq Frame
  /\ \A f \in Messages : Len(f.payload) \in U32

\* BufMut::put_u32 and Buf::get_u32, big-endian.
put_u32(n) ==
  LET q1 == n \div Base
      q2 == q1 \div Base
      q3 == q2 \div Base
  IN <<q3 % Base, q2 % Base, q1 % Base, n % Base>>
get_u32(bs) == ((bs[1] * Base + bs[2]) * Base + bs[3]) * Base + bs[4]

FRAME_HEADER_LEN == 14

from_bits_truncate(b) == b % FlagValues

encode(f) ==
  put_u32(f.header.stream_id) \o put_u32(f.header.operation_id)
  \o <<f.header.flags, f.header.frame_type>> \o put_u32(Len(f.payload)) \o f.payload

\* Mutant: the flags and the frame type are read in the other order, as they are.
GetHeaderSwapped(bs) ==
  [stream_id    |-> get_u32(SubSeq(bs, 1, 4)),
   operation_id |-> get_u32(SubSeq(bs, 5, 8)),
   flags        |-> bs[10],
   frame_type   |-> bs[9]]

\* The header fields that decode takes from the first FRAME_HEADER_LEN bytes.
GetHeader(bs) ==
  [stream_id    |-> get_u32(SubSeq(bs, 1, 4)),
   operation_id |-> get_u32(SubSeq(bs, 5, 8)),
   flags        |-> from_bits_truncate(bs[9]),
   frame_type   |-> bs[10]]

GetPayloadLen(bs) == get_u32(SubSeq(bs, 11, FRAME_HEADER_LEN))

ReadingHeader == [at |-> "header"]
ReadingPayload(header, remaining) ==
  [at |-> "payload", header |-> header, remaining |-> remaining]

DecodeState ==
  {ReadingHeader} \union [at : {"payload"}, header : Header, remaining : U32]

NoFrame == [none |-> TRUE]
Decoded(state, src, frame) == [state |-> state, src |-> src, frame |-> frame]

\* Mutant: the payload is taken one byte too early.
DecodePayloadEarly(state, src) ==
  IF Len(src) + 1 < state.remaining
  THEN Decoded(state, src, NoFrame)
  ELSE Decoded(ReadingHeader, SubSeq(src, state.remaining + 1, Len(src)),
               [header |-> state.header,
                payload |-> SubSeq(src, 1, IF Len(src) < state.remaining THEN Len(src)
                                             ELSE state.remaining)])

\* decode, ReadingPayload: wait until the whole payload is there.
DecodePayload(state, src) ==
  IF Len(src) < state.remaining
  THEN Decoded(state, src, NoFrame)
  ELSE Decoded(ReadingHeader, SubSeq(src, state.remaining + 1, Len(src)),
               [header |-> state.header, payload |-> SubSeq(src, 1, state.remaining)])

\* Mutant: without a whole payload, the next call starts with a header again.
DecodeHeaderForgotten(src) ==
  IF Len(src) < FRAME_HEADER_LEN
  THEN Decoded(ReadingHeader, src, NoFrame)
  ELSE LET d == DecodePayload(ReadingPayload(GetHeader(src), GetPayloadLen(src)),
                              SubSeq(src, FRAME_HEADER_LEN + 1, Len(src)))
       IN [d EXCEPT !.state = ReadingHeader]

\* decode, ReadingHeader: consume the header, then go on with the payload.
DecodeHeader(src) ==
  IF Len(src) < FRAME_HEADER_LEN
  THEN Decoded(ReadingHeader, src, NoFrame)
  ELSE DecodePayload(ReadingPayload(GetHeader(src), GetPayloadLen(src)),
                     SubSeq(src, FRAME_HEADER_LEN + 1, Len(src)))

decode(state, src) ==
  IF state.at = "header" THEN DecodeHeader(src) ELSE DecodePayload(state, src)
-----------------------------------------------------------------------------
VARIABLES
  sent,      \* frames given to FramedWrite
  out,       \* its buffer: bytes of the last of them not written
  pipe,      \* bytes written and not yet read
  writer,    \* "open", "closed" by close(), "dropped"
  link,      \* what the reader finds behind the pipe: "open", "eof", "gone"
  src,       \* FramedRead's buffer
  state,     \* FrameCodec::state
  received,  \* frames FramedRead has returned
  result     \* its last answer: "frames", "end" for None, "error"

writeVars == <<sent, out, writer>>
readVars  == <<src, state, received, result>>
vars      == <<writeVars, pipe, link, readVars>>

TypeOK ==
  /\ sent \in Seq(Frame) /\ received \in Seq(Frame)
  /\ out \in Seq(Byte) /\ pipe \in Seq(Byte) /\ src \in Seq(Byte)
  /\ Len(pipe) <= PipeCap
  /\ writer \in {"open", "closed", "dropped"}
  /\ link \in {"open", "eof", "gone"}
  /\ state \in DecodeState
  /\ result \in {"frames", "end", "error"}

Init ==
  /\ sent = <<>> /\ out = <<>> /\ writer = "open"
  /\ pipe = <<>> /\ link = "open"
  /\ src = <<>> /\ state = ReadingHeader /\ received = <<>> /\ result = "frames"

\* framed_writer.send(frame).await begins: the last one has been flushed.
Send(f) ==
  /\ writer = "open" /\ out = <<>>
  /\ Len(sent) < MaxFrames
  /\ sent' = Append(sent, f)
  /\ out' = encode(f)
  /\ UNCHANGED <<writer, pipe, link, readVars>>

\* The socket takes some of the bytes; send returns when it has taken them all.
Write(n) ==
  /\ writer = "open" /\ n <= Len(out)
  /\ Len(pipe) + n <= PipeCap
  /\ pipe' = pipe \o SubSeq(out, 1, n)
  /\ out' = SubSeq(out, n + 1, Len(out))
  /\ UNCHANGED <<sent, writer, link, readVars>>

\* framed_writer.close().await.
CloseWriter ==
  /\ writer = "open" /\ out = <<>>
  /\ writer' = "closed" /\ link' = "eof"
  /\ UNCHANGED <<sent, out, pipe, readVars>>

\* The writer is dropped, at an await of send too; the peer sees the end of the
\* bytes, or an error in place of the last of them.
DropWriter ==
  /\ writer = "open"
  /\ writer' = "dropped"
  /\ \/ link' = "eof" /\ UNCHANGED pipe
     \/ link' = "gone" /\ \E n \in 0 .. Len(pipe) : pipe' = SubSeq(pipe, 1, n)
  /\ UNCHANGED <<sent, out, readVars>>

\* FramedRead::poll_next: decode first, ...
Receive ==
  LET d == decode(state, src)
  IN /\ result = "frames" /\ d.frame # NoFrame
     /\ received' = Append(received, d.frame)
     /\ src' = d.src /\ state' = d.state
     /\ UNCHANGED <<writeVars, pipe, link, result>>

\* ... and without a frame, read.  What decode consumed stays consumed, also
\* when select! drops the future that was reading.
Read(n) ==
  LET d == decode(state, src)
  IN /\ result = "frames" /\ d.frame = NoFrame
     /\ n <= Len(pipe)
     /\ src' = d.src \o SubSeq(pipe, 1, n) /\ state' = d.state
     /\ pipe' = SubSeq(pipe, n + 1, Len(pipe))
     /\ UNCHANGED <<writeVars, link, received, result>>

\* decode_eof: no more bytes; those that are left over are an error.
ReadEnd ==
  LET d == decode(state, src)
  IN /\ result = "frames" /\ d.frame = NoFrame
     /\ pipe = <<>> /\ link # "open"
     /\ src' = d.src /\ state' = d.state
     /\ result' = IF link = "eof" /\ d.src = <<>> THEN "end" ELSE "error"
     /\ UNCHANGED <<writeVars, pipe, link, received>>

Next ==
  \/ \E f \in Messages : Send(f)
  \/ \E n \in 1 .. PipeCap : Write(n) \/ Read(n)
  \/ CloseWriter \/ DropWriter
  \/ Receive \/ ReadEnd

Spec == Init /\ [][Next]_vars

\* A write or a read that can go on does; nobody need send or close.
FairSpec ==
  /\ Spec
  /\ WF_vars(\E n \in 1 .. PipeCap : Write(n))
  /\ WF_vars(Receive) /\ WF_vars(\E n \in 1 .. PipeCap : Read(n)) /\ WF_vars(ReadEnd)
-----------------------------------------------------------------------------
Channel == INSTANCE FrameChannel WITH Frame <- Messages

\* However the bytes are cut into reads, the decoder yields the frames that were
\* encoded: whole, in order, none twice, none made up from a truncated one.
ImplementsChannel == Channel!Spec

\* Frames whose send has returned.
Flushed == IF out = <<>> THEN Len(sent) ELSE Len(sent) - 1

\* A clean end is no loss: when FramedRead returns None it has returned every
\* frame whose send returned, even if the writer was dropped inside the next one.
EndIsComplete == result = "end" => Len(received) >= Flushed

\* After close() the reader gets every frame, and then the end.
ClosedDrains == writer = "closed" ~> (received = sent /\ result = "end")
=============================================================================
