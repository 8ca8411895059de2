------------------------- MODULE FileTransferProofs -------------------------
(***************************************************************************)
(* Proofs of FileTransfer's invariants for every size of file, buffer and  *)
(* channel, over both transports and under every failure of the model.     *)
(*                                                                         *)
(* SavedIsPrefix is not inductive: that the next chunk continues the saved *)
(* bytes depends on what is under way.  InOrder says so: the chunks under  *)
(* way are runs of positions, each starts where the one before ends, the   *)
(* first one where the saved bytes end, and an intact stream reaches as    *)
(* far as send_file has read.  OneRequest is why a second answer never     *)
(* starts again from the beginning.                                        *)
(***************************************************************************)
EXTENDS FileTransfer, SequenceTheorems, TLAPS

\* A chunk is a run of positions; the position that follows it.
Run(c) == c # <<>> /\ \A k \in DOMAIN c : c[k] = c[1] + k - 1
After(c) == c[1] + Len(c)

\* The position the requester has to see next; the metadata has position 0.
Due == IF requester = "file" THEN Len(saved) + 1 ELSE 0

\* What is under way continues what is saved, and ends where send_file is.
InOrder ==
  requester \in {"meta", "file"} =>
    /\ \A i \in DOMAIN data : Run(data[i]) /\ After(data[i]) <= pos + 1
    /\ \A i \in DOMAIN data : i + 1 \in DOMAIN data => data[i + 1][1] = After(data[i])
    /\ data # <<>> => data[1][1] = Due
    /\ requester = "file" => Len(saved) <= pos
    /\ (provider = "file" /\ ending = "open" /\ data = <<>>) =>
         requester = "file" /\ Len(saved) = pos
    /\ (provider = "file" /\ ending = "open" /\ data # <<>>) =>
         After(data[Len(data)]) = pos + 1

\* The requester asks once.
OneRequest ==
  /\ requests \in {0, 1}
  /\ requester = "start" => provider \in {"serve", "gone"} /\ requests = 0
  /\ requester \in {"start", "meta"} => saved = <<>>
  /\ provider \in {"meta", "file"} => requests = 0
  /\ (requests = 1 \/ provider = "meta" \/ requester = "start") => data = <<>>
  /\ (requests = 1 \/ provider = "meta") => requester \in {"meta", "err"}

\* Only a QUIC stream ends without the connection failing.
FinIsQuic == ending = "fin" => transport = "quic"

IInv == TypeOK /\ OneRequest /\ InOrder /\ SavedIsPrefix
-----------------------------------------------------------------------------
LEMMA InitTyped == Init => TypeOK
  BY TransferAssumption DEF Init, TypeOK

\* A chunk of a file is a sequence of positions.
LEMMA ChunkType ==
  ASSUME NEW from \in Nat, NEW n \in Nat
  PROVE  Chunk(from, n) \in Seq(Nat) /\ Len(Chunk(from, n)) = n
  BY DEF Chunk

LEMMA NextTyped == TypeOK /\ [Next]_vars => TypeOK'
<1> SUFFICES ASSUME TypeOK, [Next]_vars PROVE TypeOK'
  OBVIOUS
<1> USE TransferAssumption DEF TypeOK
<1>1. CASE TakeRequest
  BY <1>1 DEF TakeRequest, GiveUp
<1>2. CASE ProviderLosesLink
  BY <1>2 DEF ProviderLosesLink, GiveUp
<1>3. CASE SendMeta
  <2>1. Meta \in Seq(Nat)
    BY DEF Meta
  <2> QED
    BY <1>3, <2>1 DEF SendMeta
<1>4. CASE SendFileReturns
  BY <1>4 DEF SendFileReturns
<1>5. CASE SendFileFails
  BY <1>5 DEF SendFileFails, GiveUp
<1>6. ASSUME NEW n \in 1 .. BufferSize, SendChunk(n) PROVE TypeOK'
  <2>1. Chunk(pos, n) \in Seq(Nat)
    BY ChunkType
  <2> QED
    BY <1>6, <2>1 DEF SendChunk
<1>7. CASE SendRequest
  BY <1>7 DEF SendRequest
<1>8. CASE ReceiveMeta
  BY <1>8 DEF ReceiveMeta
<1>9. CASE ReceiveChunk
  BY <1>9 DEF ReceiveChunk
<1>10. CASE EndOfData
  BY <1>10 DEF EndOfData
<1>11. CASE NoMeta
  BY <1>11 DEF NoMeta
<1>12. CASE Sever
  <2>1. PICK n \in 0 .. Len(data) : data' = SubSeq(data, 1, n)
    BY <1>12 DEF Sever
  <2>2. data' \in Seq(Seq(Nat)) /\ Len(data') = n
    BY <2>1, SubSeqProperties
  <2> QED
    BY <1>12, <2>2 DEF Sever
<1>13. CASE UNCHANGED vars
  BY <1>13 DEF vars
<1> QED
  BY <1>1, <1>2, <1>3, <1>4, <1>5, <1>6, <1>7, <1>8, <1>9, <1>10, <1>11, <1>12, <1>13
  DEF Next, Provider, Requester

\* Every reachable state of a transfer is well typed: in particular send_file
\* never reads past the end of the file, and no more chunks are under way than
\* the channel holds.
THEOREM TransferTypeCorrect == Spec => []TypeOK
  BY InitTyped, NextTyped, PTL DEF Spec
-----------------------------------------------------------------------------
LEMMA NextOneRequest == TypeOK /\ OneRequest /\ [Next]_vars => OneRequest'
<1> SUFFICES ASSUME TypeOK, OneRequest, [Next]_vars PROVE OneRequest'
  OBVIOUS
<1> USE TransferAssumption DEF TypeOK, OneRequest
<1>1. CASE TakeRequest
  BY <1>1 DEF TakeRequest, GiveUp
<1>2. CASE ProviderLosesLink
  BY <1>2 DEF ProviderLosesLink, GiveUp
<1>3. CASE SendMeta
  BY <1>3 DEF SendMeta
<1>4. CASE SendFileReturns
  BY <1>4 DEF SendFileReturns
<1>5. CASE SendFileFails
  BY <1>5 DEF SendFileFails, GiveUp
<1>6. ASSUME NEW n \in 1 .. BufferSize, SendChunk(n) PROVE OneRequest'
  BY <1>6 DEF SendChunk
<1>7. CASE SendRequest
  BY <1>7 DEF SendRequest
<1>8. CASE ReceiveMeta
  BY <1>8 DEF ReceiveMeta
<1>9. CASE ReceiveChunk
  BY <1>9 DEF ReceiveChunk
<1>10. CASE EndOfData
  BY <1>10 DEF EndOfData
<1>11. CASE NoMeta
  BY <1>11 DEF NoMeta
<1>12. CASE Sever
  <2>1. PICK n \in 0 .. Len(data) : data' = SubSeq(data, 1, n)
    BY <1>12 DEF Sever
  <2>2. data = <<>> => data' = <<>>
    BY <2>1, SubSeqProperties
  <2> QED
    BY <1>12, <2>2 DEF Sever
<1>13. CASE UNCHANGED vars
  BY <1>13 DEF vars
<1> QED
  BY <1>1, <1>2, <1>3, <1>4, <1>5, <1>6, <1>7, <1>8, <1>9, <1>10, <1>11, <1>12, <1>13
  DEF Next, Provider, Requester
-----------------------------------------------------------------------------
\* The chunk send_file sends, and the metadata frame, are runs.
LEMMA ChunkRun ==
  ASSUME NEW from \in Nat, NEW n \in Nat \ {0}
  PROVE  /\ Run(Chunk(from, n))
         /\ After(Chunk(from, n)) = from + n + 1
         /\ Chunk(from, n)[1] = from + 1
  BY DEF Chunk, Run, After

LEMMA MetaRun == Run(Meta) /\ After(Meta) = 1 /\ Meta[1] = 0
  BY DEF Meta, Run, After

LEMMA EmptyData ==
  ASSUME NEW s \in Seq(Seq(Nat))
  PROVE  s = <<>> <=> Len(s) = 0
  BY EmptySeq

\* Taking the first of some chunks.
LEMMA TailFacts ==
  ASSUME NEW s \in Seq(Seq(Nat)), s # <<>>
  PROVE  /\ Head(s) = s[1] /\ s[1] \in Seq(Nat) /\ 1 \in DOMAIN s /\ Len(s) \in DOMAIN s
         /\ Tail(s) \in Seq(Seq(Nat)) /\ Len(Tail(s)) = Len(s) - 1 /\ Len(s) \in Nat
         /\ DOMAIN s = 1 .. Len(s) /\ DOMAIN Tail(s) = 1 .. Len(s) - 1
         /\ \A i \in DOMAIN Tail(s) : i \in Nat /\ i + 1 \in DOMAIN s /\ Tail(s)[i] = s[i + 1]
         /\ Tail(s) = <<>> => Len(s) = 1
         /\ Tail(s) # <<>> => Len(s) > 1 /\ Tail(s)[Len(Tail(s))] = s[Len(s)]
<1>1. Len(s) \in Nat \ {0} /\ DOMAIN s = 1 .. Len(s) /\ Head(s) = s[1] /\ s[1] \in Seq(Nat)
  OBVIOUS
<1>2. /\ Tail(s) \in Seq(Seq(Nat)) /\ Len(Tail(s)) = Len(s) - 1
      /\ \A i \in 1 .. Len(Tail(s)) : Tail(s)[i] = s[i + 1]
  BY HeadTailProperties
<1>3. DOMAIN Tail(s) = 1 .. Len(s) - 1
  BY <1>2
<1>4. Tail(s) = <<>> <=> Len(s) - 1 = 0
  BY <1>2, EmptyData
<1>5. Len(s) > 1 => Tail(s)[Len(s) - 1] = s[Len(s)]
  BY <1>1, <1>2
<1>6. \A i \in DOMAIN Tail(s) : i \in Nat /\ i + 1 \in DOMAIN s /\ Tail(s)[i] = s[i + 1]
  BY <1>1, <1>2, <1>3
<1>7. Tail(s) # <<>> => Len(s) > 1 /\ Tail(s)[Len(Tail(s))] = s[Len(s)]
  <2>1. Tail(s) # <<>> => Len(s) > 1
    BY <1>1, <1>4
  <2> QED
    BY <1>2, <1>5, <2>1
<1>8. Tail(s) = <<>> => Len(s) = 1
  BY <1>1, <1>4
<1>9. 1 \in DOMAIN s /\ Len(s) \in DOMAIN s /\ Len(s) \in Nat
  BY <1>1
<1> QED
  BY <1>1, <1>2, <1>3, <1>6, <1>7, <1>8, <1>9

\* A step that leaves the data alone and opens nothing keeps it in order.
LEMMA OrderKept ==
  ASSUME TypeOK, InOrder,
         UNCHANGED <<data, pos, saved>>,
         requester' \in {"meta", "file"} => requester' = requester,
         (provider' = "file" /\ ending' = "open") => (provider = "file" /\ ending = "open")
  PROVE  InOrder'
  BY DEF InOrder, Due, TypeOK

LEMMA NextInOrder == TypeOK /\ OneRequest /\ InOrder /\ [Next]_vars => InOrder'
<1> SUFFICES ASSUME TypeOK, OneRequest, InOrder, [Next]_vars PROVE InOrder'
  OBVIOUS
<1>1. CASE TakeRequest
  BY <1>1, OrderKept DEF TakeRequest, GiveUp
<1>2. CASE ProviderLosesLink
  BY <1>2, OrderKept DEF ProviderLosesLink, GiveUp
<1>3. CASE SendMeta
  <2>1. data = <<>> /\ data' = <<Meta>> /\ pos' = 0
    BY <1>3 DEF SendMeta, OneRequest, TypeOK
  <2>2. requester' \in {"meta", "err"}
    BY <1>3 DEF SendMeta, OneRequest
  <2> QED
    BY <2>1, <2>2, MetaRun DEF InOrder, Due
<1>4. CASE SendFileReturns
  BY <1>4, OrderKept DEF SendFileReturns
<1>5. CASE SendFileFails
  BY <1>5, OrderKept DEF SendFileFails, GiveUp
<1>6. ASSUME NEW n \in 1 .. BufferSize, SendChunk(n) PROVE InOrder'
  <2>1. n \in Nat \ {0} /\ pos \in Nat /\ pos' = pos + n
    BY <1>6, TransferAssumption DEF SendChunk, TypeOK
  <2> DEFINE c == Chunk(pos, n)
  <2>2. Run(c) /\ After(c) = pos' + 1 /\ c[1] = pos + 1
    BY <2>1, ChunkRun
  <2>3. c \in Seq(Nat) /\ Len(c) = n
    BY <2>1, ChunkType
  <2> HIDE DEF c
  <2>4. data' = Append(data, c)
    BY <1>6 DEF SendChunk, c
  <2>5. /\ data \in Seq(Seq(Nat)) /\ Len(data') = Len(data) + 1
        /\ data'[Len(data) + 1] = c /\ \A i \in DOMAIN data : data'[i] = data[i]
        /\ DOMAIN data = 1 .. Len(data) /\ DOMAIN data' = 1 .. Len(data) + 1
    BY <2>3, <2>4 DEF TypeOK
  <2>6. UNCHANGED <<requester, provider, ending, saved, Due>> /\ provider = "file" /\ ending = "open"
    BY <1>6 DEF SendChunk, Due
  <2>7. saved \in Seq(Nat)
    BY DEF TypeOK
  <2> SUFFICES ASSUME requester \in {"meta", "file"} PROVE InOrder'
    BY <2>6 DEF InOrder
  <2>8. \A i \in DOMAIN data' : Run(data'[i]) /\ After(data'[i]) <= pos' + 1
    <3>1. \A i \in DOMAIN data : Run(data[i]) /\ After(data[i]) <= pos + 1
      BY DEF InOrder
    <3>2. \A i \in DOMAIN data : After(data[i]) \in Nat
      BY SMTT(60), <2>5, <3>1 DEF After, Run
    <3> QED
      BY <2>1, <2>2, <2>5, <3>1, <3>2
  <2>9. \A i \in DOMAIN data' : i + 1 \in DOMAIN data' => data'[i + 1][1] = After(data'[i])
    <3> SUFFICES ASSUME NEW i \in DOMAIN data', i + 1 \in DOMAIN data'
                 PROVE  data'[i + 1][1] = After(data'[i])
      OBVIOUS
    <3>1. i \in DOMAIN data /\ data'[i] = data[i] /\ Len(data) \in Nat
      BY <2>5
    <3>2. CASE i = Len(data)
      <4>1. After(data[i]) = pos + 1
        BY <2>5, <2>6, <3>1, <3>2 DEF InOrder
      <4> QED
        BY <2>2, <2>5, <3>1, <3>2, <4>1
    <3>3. CASE i # Len(data)
      <4>1. i + 1 \in DOMAIN data /\ data'[i + 1] = data[i + 1]
        BY <2>5, <3>1, <3>3
      <4> QED
        BY <3>1, <4>1 DEF InOrder
    <3> QED
      BY <3>2, <3>3
  <2>10. data'[1][1] = Due
    BY <2>2, <2>5, <2>6 DEF InOrder, Due
  <2>11. requester = "file" => Len(saved) <= pos'
    BY <2>1, <2>7 DEF InOrder
  <2> QED
    BY <2>2, <2>5, <2>6, <2>8, <2>9, <2>10, <2>11 DEF InOrder
<1>7. CASE SendRequest
  <2>1. data' = <<>> /\ requester' \in {"meta", "err"} /\ provider' # "file"
    BY <1>7 DEF SendRequest, OneRequest
  <2> QED
    BY <2>1 DEF InOrder
<1>8. CASE ReceiveMeta
  <2> SUFFICES ASSUME requester' = "file" PROVE InOrder'
    BY <1>8 DEF ReceiveMeta, InOrder
  <2>1. /\ requester = "meta" /\ data # <<>> /\ data[1] = Meta /\ data' = Tail(data)
        /\ UNCHANGED <<pos, saved, provider, ending>>
    BY <1>8 DEF ReceiveMeta, TypeOK
  <2>2. saved = <<>> /\ Len(saved) = 0 /\ Due' = 1 /\ pos \in Nat
    BY <2>1, TransferAssumption DEF OneRequest, Due, TypeOK
  <2>3. data \in Seq(Seq(Nat))
    BY DEF TypeOK
  <2>4. \A i \in DOMAIN data' : Run(data'[i]) /\ After(data'[i]) <= pos' + 1
    BY <2>1, <2>3, TailFacts DEF InOrder
  <2>5. \A i \in DOMAIN data' : i + 1 \in DOMAIN data' => data'[i + 1][1] = After(data'[i])
    <3> SUFFICES ASSUME NEW i \in DOMAIN data', i + 1 \in DOMAIN data'
                 PROVE  data'[i + 1][1] = After(data'[i])
      OBVIOUS
    <3>1. /\ i + 1 \in DOMAIN data /\ (i + 1) + 1 \in DOMAIN data
          /\ data'[i] = data[i + 1] /\ data'[i + 1] = data[(i + 1) + 1]
      BY <2>1, <2>3, TailFacts
    <3> QED
      BY <2>1, <3>1 DEF InOrder
  <2>6. data' # <<>> => data'[1][1] = Due'
    <3> SUFFICES ASSUME data' # <<>> PROVE data'[1][1] = Due'
      OBVIOUS
    <3>1. 1 \in DOMAIN data /\ 1 + 1 \in DOMAIN data /\ data'[1] = data[1 + 1]
      BY <2>1, <2>3, TailFacts
    <3> QED
      BY <2>1, <2>2, <3>1, MetaRun DEF InOrder
  <2>7. (provider = "file" /\ ending = "open") => After(data[Len(data)]) = pos + 1
    BY <2>1 DEF InOrder
  <2>8. data' = <<>> => Len(data) = 1
    BY SMTT(60), <2>1, <2>3, TailFacts
  <2>9. data' # <<>> => data'[Len(data')] = data[Len(data)]
    BY <2>1, <2>3, TailFacts
  <2> QED
    BY <2>1, <2>2, <2>4, <2>5, <2>6, <2>7, <2>8, <2>9, MetaRun DEF InOrder
<1>9. CASE ReceiveChunk
  <2> SUFFICES ASSUME requester' = "file" PROVE InOrder'
    BY <1>9 DEF ReceiveChunk, InOrder
  <2> DEFINE c == data[1]
  <2>1. data \in Seq(Seq(Nat)) /\ saved \in Seq(Nat) /\ pos \in Nat
    BY TransferAssumption DEF TypeOK
  <2>2. /\ requester = "file" /\ data # <<>> /\ data' = Tail(data) /\ saved' = saved \o c
        /\ UNCHANGED <<pos, provider, ending>>
    BY <1>9, <2>1, TailFacts DEF ReceiveChunk
  <2>3. c \in Seq(Nat) /\ After(c) <= pos + 1 /\ c[1] = Len(saved) + 1
    BY <2>1, <2>2, TailFacts DEF InOrder, Due
  <2> HIDE DEF c
  <2>4. Len(saved') = Len(saved) + Len(c)
    BY <2>1, <2>2, <2>3, ConcatProperties
  <2>5. After(c) = Len(saved') + 1 /\ Due' = After(c) /\ Len(saved') <= pos' /\ Len(saved') \in Nat
    BY <2>1, <2>2, <2>3, <2>4 DEF After, Due
  <2>6. \A i \in DOMAIN data' : Run(data'[i]) /\ After(data'[i]) <= pos' + 1
    BY SMTT(60), <2>1, <2>2, TailFacts DEF InOrder
  <2>7. \A i \in DOMAIN data' : i + 1 \in DOMAIN data' => data'[i + 1][1] = After(data'[i])
    <3> SUFFICES ASSUME NEW i \in DOMAIN data', i + 1 \in DOMAIN data'
                 PROVE  data'[i + 1][1] = After(data'[i])
      OBVIOUS
    <3>1. /\ i + 1 \in DOMAIN data /\ (i + 1) + 1 \in DOMAIN data
          /\ data'[i] = data[i + 1] /\ data'[i + 1] = data[(i + 1) + 1]
      BY <2>1, <2>2, TailFacts
    <3> QED
      BY <2>2, <3>1 DEF InOrder
  <2>8. data' # <<>> => data'[1][1] = Due'
    <3> SUFFICES ASSUME data' # <<>> PROVE data'[1][1] = Due'
      OBVIOUS
    <3>1. 1 \in DOMAIN data /\ 1 + 1 \in DOMAIN data /\ data'[1] = data[1 + 1]
      BY <2>1, <2>2, TailFacts
    <3> QED
      BY <2>2, <2>5, <3>1 DEF InOrder, c
  <2>9. (provider = "file" /\ ending = "open") => After(data[Len(data)]) = pos + 1
    BY <2>2 DEF InOrder
  <2>10. data' = <<>> => data[Len(data)] = c
    BY <2>1, <2>2, TailFacts DEF c
  <2>11. data' # <<>> => data'[Len(data')] = data[Len(data)]
    BY <2>1, <2>2, TailFacts
  <2>12. (provider' = "file" /\ ending' = "open" /\ data' = <<>>) => Len(saved') = pos'
    <3> SUFFICES ASSUME provider' = "file", ending' = "open", data' = <<>>
                 PROVE  Len(saved') = pos'
      OBVIOUS
    <3>1. After(c) = pos + 1 /\ pos' = pos
      BY <2>2, <2>9, <2>10
    <3> QED
      BY <2>1, <2>5, <3>1
  <2>13. (provider' = "file" /\ ending' = "open" /\ data' # <<>>) =>
           After(data'[Len(data')]) = pos' + 1
    BY <2>2, <2>9, <2>11
  <2> QED
    BY <2>5, <2>6, <2>7, <2>8, <2>12, <2>13 DEF InOrder
<1>10. CASE EndOfData
  BY <1>10, OrderKept DEF EndOfData
<1>11. CASE NoMeta
  BY <1>11, OrderKept DEF NoMeta
<1>12. CASE Sever
  <2>1. PICK n \in 0 .. Len(data) : data' = SubSeq(data, 1, n)
    BY <1>12 DEF Sever
  <2>2. /\ data \in Seq(Seq(Nat)) /\ DOMAIN data' \subseteq DOMAIN data
        /\ \A i \in DOMAIN data' : data'[i] = data[i]
        /\ data' # <<>> => data # <<>> /\ 1 \in DOMAIN data'
    BY <2>1, SubSeqProperties DEF TypeOK
  <2>3. ending' = "gone" /\ UNCHANGED <<requester, provider, pos, saved, Due>>
    BY <1>12 DEF Sever, Due
  <2> QED
    BY <2>2, <2>3 DEF InOrder
<1>13. CASE UNCHANGED vars
  BY <1>13, OrderKept DEF vars
<1> QED
  BY <1>1, <1>2, <1>3, <1>4, <1>5, <1>6, <1>7, <1>8, <1>9, <1>10, <1>11, <1>12, <1>13
  DEF Next, Provider, Requester
-----------------------------------------------------------------------------
LEMMA NextPrefix ==
  TypeOK /\ OneRequest /\ InOrder /\ SavedIsPrefix /\ [Next]_vars => SavedIsPrefix'
<1> SUFFICES ASSUME TypeOK, OneRequest, InOrder, SavedIsPrefix, [Next]_vars
             PROVE  SavedIsPrefix'
  OBVIOUS
<1>1. CASE ReceiveChunk
  <2> DEFINE c == data[1]
  <2>1. data \in Seq(Seq(Nat)) /\ saved \in Seq(Nat) /\ pos \in Nat /\ size \in Nat /\ pos <= size
    BY TransferAssumption DEF TypeOK
  <2>2. requester = "file" /\ data # <<>> /\ saved' = saved \o c /\ size' = size
    BY SMTT(60), <1>1, <2>1, TailFacts DEF ReceiveChunk
  <2>3. c \in Seq(Nat) /\ Run(c) /\ After(c) <= pos + 1 /\ c[1] = Len(saved) + 1
    BY <2>1, <2>2, TailFacts DEF InOrder, Due
  <2> HIDE DEF c
  <2>4. /\ saved' \in Seq(Nat) /\ Len(saved') = Len(saved) + Len(c)
        /\ \A i \in 1 .. Len(saved) + Len(c) :
             saved'[i] = IF i <= Len(saved) THEN saved[i] ELSE c[i - Len(saved)]
    BY <2>1, <2>2, <2>3, ConcatProperties
  <2>5. Len(saved') <= size'
    BY <2>1, <2>2, <2>3, <2>4 DEF After
  <2>6. ASSUME NEW i \in 1 .. Len(saved') PROVE saved'[i] = i
    <3>1. CASE i <= Len(saved)
      <4>1. saved[i] = i
        BY <2>1, <3>1 DEF SavedIsPrefix
      <4> QED
        BY <2>4, <3>1, <4>1
    <3>2. CASE ~(i <= Len(saved))
      <4>1. i - Len(saved) \in DOMAIN c
        BY <2>1, <2>3, <2>4, <3>2
      <4>2. c[i - Len(saved)] = i
        BY <2>1, <2>3, <4>1 DEF Run
      <4> QED
        BY <2>4, <3>2, <4>2
    <3> QED
      BY <3>1, <3>2
  <2>7. saved' = [i \in 1 .. Len(saved') |-> i]
    BY <2>4, <2>6
  <2> QED
    BY <2>5, <2>7 DEF SavedIsPrefix
<1>2. CASE ~ReceiveChunk
  <2>1. UNCHANGED <<saved, size>>
    BY <1>2 DEF Next, Provider, Requester, TakeRequest, ProviderLosesLink, SendMeta,
       SendFileReturns, SendFileFails, SendChunk, SendRequest, ReceiveMeta, EndOfData,
       NoMeta, Sever, vars
  <2> QED
    BY <2>1 DEF SavedIsPrefix
<1> QED
  BY <1>1, <1>2

LEMMA InitIInv == Init => IInv
  BY InitTyped, TransferAssumption DEF Init, IInv, OneRequest, InOrder, SavedIsPrefix

\* What receive_file has written is the beginning of the file send_file reads,
\* for every file, however its reads cut it, whichever bound the channel has and
\* wherever the transfer breaks off.
THEOREM SavedIsPrefixAlways == Spec => []SavedIsPrefix
<1>1. IInv /\ [Next]_vars => IInv'
  BY NextTyped, NextOneRequest, NextInOrder, NextPrefix DEF IInv
<1>2. IInv => SavedIsPrefix
  BY DEF IInv
<1> QED
  BY <1>1, <1>2, InitIInv, PTL DEF Spec
-----------------------------------------------------------------------------
LEMMA NextWhole ==
  TypeOK /\ FinIsQuic /\ OkIsWholeOverTcp /\ [Next]_vars => FinIsQuic' /\ OkIsWholeOverTcp'
<1> SUFFICES ASSUME TypeOK, FinIsQuic, OkIsWholeOverTcp, [Next]_vars
             PROVE  FinIsQuic' /\ OkIsWholeOverTcp'
  OBVIOUS
<1> USE DEF FinIsQuic, OkIsWholeOverTcp, OkIsWhole
<1>1. CASE TakeRequest
  BY <1>1 DEF TakeRequest, GiveUp
<1>2. CASE ProviderLosesLink
  BY <1>2 DEF ProviderLosesLink, GiveUp
<1>3. CASE SendMeta \/ SendFileReturns
  BY <1>3 DEF SendMeta, SendFileReturns
<1>4. CASE SendFileFails
  BY <1>4 DEF SendFileFails, GiveUp
<1>5. ASSUME NEW n \in 1 .. BufferSize, SendChunk(n) PROVE FinIsQuic' /\ OkIsWholeOverTcp'
  BY <1>5 DEF SendChunk
<1>6. CASE SendRequest
  BY <1>6 DEF SendRequest
<1>7. CASE ReceiveMeta
  BY <1>7 DEF ReceiveMeta
<1>8. CASE ReceiveChunk
  BY <1>8 DEF ReceiveChunk, HasAll
<1>9. CASE EndOfData
  BY <1>9, TransferAssumption DEF EndOfData, TypeOK
<1>10. CASE NoMeta
  BY <1>10 DEF NoMeta
<1>11. CASE Sever
  BY <1>11 DEF Sever
<1>12. CASE UNCHANGED vars
  BY <1>12 DEF vars
<1> QED
  BY <1>1, <1>2, <1>3, <1>4, <1>5, <1>6, <1>7, <1>8, <1>9, <1>10, <1>11, <1>12
  DEF Next, Provider, Requester

\* Over TCP receive_file returns Ok only with as many bytes as the metadata
\* announced, whatever fails and whatever the file has become.
THEOREM OkIsWholeOverTcpAlways == Spec => []OkIsWholeOverTcp
<1>1. Init => FinIsQuic /\ OkIsWholeOverTcp
  BY DEF Init, FinIsQuic, OkIsWholeOverTcp, OkIsWhole
<1> QED
  BY <1>1, NextWhole, TransferTypeCorrect, PTL DEF Spec
=============================================================================
