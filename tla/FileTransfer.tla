---------------------------- MODULE FileTransfer ----------------------------
(***************************************************************************)
(* A file transfer over one stream (foctet-net: send_file and receive_file *)
(* of the TCP and the QUIC stream, as the programs examples/send_file.rs   *)
(* and examples/receive_file.rs use them).  The requester asks for a       *)
(* content, gets its metadata, and reads the file until it has as many     *)
(* bytes as the metadata says.  The provider took the metadata when it     *)
(* started; the file it reads may have changed since.                      *)
(*                                                                         *)
(* A byte of the file is its position.                                     *)
(***************************************************************************)
EXTENDS Naturals, Sequences

CONSTANTS
  Transports,     \* transports to choose from: "tcp", "quic"
  MetaSize,       \* size the metadata gives
  FileSizes,      \* sizes the file may have when it is sent
  BufferSize,     \* write_buffer_size
  ChanCap,        \* chunks under way at one time
  ProviderFails,  \* the provider may not know the content, or fail to read it
  LinkFails       \* the connection may fail

ASSUME TransferAssumption ==
  /\ Transports \subseteq {"tcp", "quic"}
  /\ MetaSize \in Nat /\ FileSizes \subseteq Nat
  /\ {BufferSize, ChanCap} \subseteq Nat \ {0}
  /\ {ProviderFails, LinkFails} \subseteq BOOLEAN

VARIABLES
  transport,
  size,       \* size of the file on the provider's disk
  requester,  \* "start", then awaiting "meta", "file", then "ok" or "err"
  provider,   \* awaiting a request ("serve"), sending "meta", "file"; "gone"
  pos,        \* bytes of the file that send_file has read
  requests,   \* requests under way
  data,       \* chunks under way; the metadata frame is Meta
  ending,     \* what comes after data: nothing yet, "fin", "gone"
  saved       \* the bytes receive_file has written; its length is total_bytes

vars == <<transport, size, requester, provider, pos, requests, data, ending, saved>>

Meta == <<0>>      \* stands for the metadata frame: no byte has position 0

TypeOK ==
  /\ transport \in Transports /\ size \in FileSizes
  /\ requester \in {"start", "meta", "file", "ok", "err"}
  /\ provider \in {"serve", "meta", "file", "gone"}
  /\ pos \in 0 .. size
  /\ requests \in Nat
  /\ data \in Seq(Seq(Nat)) /\ Len(data) <= ChanCap
  /\ ending \in {"open", "fin", "gone"}
  /\ saved \in Seq(Nat)

Init ==
  /\ transport \in Transports /\ size \in FileSizes
  /\ requester = "start" /\ provider = "serve" /\ pos = 0
  /\ requests = 0 /\ data = <<>> /\ ending = "open" /\ saved = <<>>
-----------------------------------------------------------------------------
(* The provider: handle_stream.                                            *)

\* It leaves its loop and drops the stream.  quinn finishes a stream that is
\* dropped; a dropped logical stream tells nobody.
GiveUp ==
  /\ provider' = "gone"
  /\ ending' = IF transport = "quic" /\ ending = "open" THEN "fin" ELSE ending

\* receive_frame returns a request: the content is in the store, or not.
TakeRequest ==
  /\ provider = "serve" /\ requests > 0
  /\ requests' = requests - 1
  /\ \/ provider' = "meta" /\ UNCHANGED ending
     \/ ProviderFails /\ GiveUp
  /\ UNCHANGED <<transport, size, requester, pos, data, saved>>

\* receive_frame or a send fails.
ProviderLosesLink ==
  /\ provider # "gone" /\ ending = "gone"
  /\ GiveUp
  /\ UNCHANGED <<transport, size, requester, pos, requests, data, saved>>

SendMeta ==
  /\ provider = "meta" /\ ending = "open" /\ Len(data) < ChanCap
  /\ data' = Append(data, Meta)
  /\ provider' = "file" /\ pos' = 0
  /\ UNCHANGED <<transport, size, requester, requests, ending, saved>>

\* Mutant: the whole buffer is sent, not the part that was read.
ChunkUncut(from, n) == [i \in 1 .. BufferSize |-> from + i]

\* The n bytes that read put into the buffer.
Chunk(from, n) == [i \in 1 .. n |-> from + i]

\* Mutant: every read is taken to fill the buffer.
SendChunkPastEnd(n) ==
  /\ provider = "file" /\ ending = "open" /\ Len(data) < ChanCap
  /\ n = BufferSize /\ pos < size
  /\ data' = Append(data, Chunk(pos, n))
  /\ pos' = pos + n
  /\ UNCHANGED <<transport, size, requester, provider, requests, ending, saved>>

\* send_file: read a part of the file and send it.
SendChunk(n) ==
  /\ provider = "file" /\ ending = "open" /\ Len(data) < ChanCap
  /\ n <= BufferSize /\ pos + n <= size
  /\ data' = Append(data, Chunk(pos, n))
  /\ pos' = pos + n
  /\ UNCHANGED <<transport, size, requester, provider, requests, ending, saved>>

\* send_file: read returns 0.  The provider waits for the next request.
SendFileReturns ==
  /\ provider = "file" /\ pos = size
  /\ provider' = "serve"
  /\ UNCHANGED <<transport, size, requester, pos, requests, data, ending, saved>>

\* send_file: open or read fails.
SendFileFails ==
  /\ ProviderFails /\ provider = "file"
  /\ GiveUp
  /\ UNCHANGED <<transport, size, requester, pos, requests, data, saved>>
-----------------------------------------------------------------------------
(* The requester.                                                          *)

SendRequest ==
  /\ requester = "start"
  /\ IF ending = "open" THEN requester' = "meta" /\ requests' = requests + 1
                        ELSE requester' = "err" /\ UNCHANGED requests
  /\ UNCHANGED <<transport, size, provider, pos, data, ending, saved>>

ReceiveMeta ==
  /\ requester = "meta" /\ data # <<>>
  /\ requester' = IF Head(data) = Meta THEN "file" ELSE "err"
  /\ data' = Tail(data)
  /\ UNCHANGED <<transport, size, provider, pos, requests, ending, saved>>

\* Mutant: one byte short of the length is enough.
HasAllButOne(bytes) == Len(bytes) + 1 >= MetaSize

\* receive_file: total_bytes == len.
HasAll(bytes) == Len(bytes) = MetaSize

\* receive_file: write a chunk, and return once the length is reached.
ReceiveChunk ==
  /\ requester = "file" /\ data # <<>>
  /\ saved' = saved \o Head(data)
  /\ requester' = IF HasAll(saved') THEN "ok" ELSE "file"
  /\ data' = Tail(data)
  /\ UNCHANGED <<transport, size, provider, pos, requests, ending>>

\* Mutant: receive_file of the QUIC stream waits on.
EndOfDataIgnored ==
  /\ requester = "file" /\ data = <<>> /\ ending = "gone"
  /\ requester' = "err"
  /\ UNCHANGED <<transport, size, provider, pos, requests, data, ending, saved>>

\* receive_file, no more chunks: an error, except that the QUIC stream takes
\* the end of the stream for the end of the file.
EndOfData ==
  /\ requester = "file" /\ data = <<>> /\ ending # "open"
  /\ requester' = IF ending = "fin" THEN "ok" ELSE "err"
  /\ UNCHANGED <<transport, size, provider, pos, requests, data, ending, saved>>

\* receive_frame fails where the metadata should come.
NoMeta ==
  /\ requester = "meta" /\ data = <<>> /\ ending # "open"
  /\ requester' = "err"
  /\ UNCHANGED <<transport, size, provider, pos, requests, data, ending, saved>>

\* The connection fails; chunks that were not handed over yet may be lost.
Sever ==
  /\ LinkFails /\ ending # "gone"
  /\ ending' = "gone"
  /\ \E n \in 0 .. Len(data) : data' = SubSeq(data, 1, n)
  /\ UNCHANGED <<transport, size, requester, provider, pos, requests, saved>>

Provider ==
  \/ TakeRequest \/ ProviderLosesLink \/ SendMeta \/ SendFileReturns \/ SendFileFails
  \/ \E n \in 1 .. BufferSize : SendChunk(n)

Requester == SendRequest \/ ReceiveMeta \/ ReceiveChunk \/ EndOfData \/ NoMeta

Next == Provider \/ Requester \/ Sever

Spec == Init /\ [][Next]_vars

\* Both tasks are polled as long as they can go on.
FairSpec == Spec /\ WF_vars(Provider) /\ WF_vars(Requester)
-----------------------------------------------------------------------------
\* The saved file never holds a byte that is not the file's next one: however
\* the reads cut it and wherever the transfer breaks off, what was written is
\* the beginning of the file that was read.
SavedIsPrefix == Len(saved) <= size /\ saved = [i \in 1 .. Len(saved) |-> i]

\* receive_file reports success only for a file of the announced length.
OkIsWhole == requester = "ok" => Len(saved) = MetaSize

\* Over TCP it keeps to that, whatever fails and whatever the file has become.
OkIsWholeOverTcp == transport = "tcp" => OkIsWhole

\* A requester that waits for a file of the announced length gets it or an
\* error, unless a TCP provider gave up: dropping a logical stream sends nothing.
TransferReturns ==
  (requester \in {"meta", "file"} /\ size = MetaSize)
  ~> (requester \in {"ok", "err"} \/ (transport = "tcp" /\ provider = "gone"))
=============================================================================
