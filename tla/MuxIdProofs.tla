----------------------------- MODULE MuxIdProofs -----------------------------
(***************************************************************************)
(* When one side only opens streams, and no more than there are ids, a     *)
(* stream id names one stream of the connection: one open request, one     *)
(* response, one stream on each side.                                      *)
(***************************************************************************)
EXTENDS MuxSessionProofs

\* The id of the first stream that o opens.
First(o) == IF o = "client" THEN 1 ELSE 2

Opening == {open_request, open_response}
Plain == {f \in Frame : f.flags \notin Opening}

\* Only o opens streams, next_stream_id does not wrap, and the application does
\* not build the frames that open a stream.
OneOpener(o) ==
  /\ o \in Side /\ Openers \subseteq {o} /\ First(o) + MaxOpens <= MaxStreamId
  /\ RawFrames \subseteq Plain

-----------------------------------------------------------------------------
(* The calls that wait in the control channel ctl of an opener that made n *)
(* calls: they are in order, and there is an id for each of them.          *)

Numbers(first, next, n, ctl) ==
  /\ next <= first + n
  /\ \A i \in DOMAIN ctl : ctl[i] # Shutdown => ctl[i] <= n /\ next < first + ctl[i]
  /\ \A i, j \in DOMAIN ctl :
       i < j /\ ctl[i] # Shutdown /\ ctl[j] # Shutdown => ctl[i] < ctl[j]

LEMMA NumbersTail ==
  ASSUME NEW first \in Nat, NEW next \in Nat, NEW n \in Nat, NEW ctl \in Seq(Nat),
         Numbers(first, next, n, ctl), ctl # <<>>
  PROVE  /\ Numbers(first, next, n, Tail(ctl))
         /\ Head(ctl) # Shutdown => Numbers(first, next + 1, n, Tail(ctl)) /\ next < first + n
<1>1. PICK m \in Nat : m = Len(ctl)
  OBVIOUS
<1>2. DOMAIN ctl = 1 .. m /\ 1 \in DOMAIN ctl /\ Head(ctl) = ctl[1]
  BY <1>1
<1>3. \A i \in DOMAIN Tail(ctl) : i \in Nat /\ i + 1 \in DOMAIN ctl /\ Tail(ctl)[i] = ctl[i + 1]
  BY <1>1
<1>4. \A i \in DOMAIN ctl : ctl[i] \in Nat
  OBVIOUS
<1>5. Numbers(first, next, n, Tail(ctl))
  <2>1. \A i, j \in DOMAIN Tail(ctl) : i < j => i + 1 < j + 1
    BY <1>3
  <2>2. QED
    BY Zenon, <1>3, <2>1 DEF Numbers
<1>6. ASSUME Head(ctl) # Shutdown PROVE Numbers(first, next + 1, n, Tail(ctl)) /\ next < first + n
  <2>1. ctl[1] \in Nat /\ ctl[1] <= n /\ next < first + ctl[1]
    BY Zenon, <1>2, <1>4, <1>6 DEF Numbers
  <2>2. next + 1 <= first + n
    BY <2>1
  <2>3. ASSUME NEW i \in DOMAIN Tail(ctl), Tail(ctl)[i] # Shutdown
        PROVE  next + 1 < first + Tail(ctl)[i]
    <3>1. PICK j \in DOMAIN ctl : 1 < j /\ Tail(ctl)[i] = ctl[j]
      <4>1. i \in DOMAIN Tail(ctl) /\ i \in 1 .. Len(Tail(ctl))
        BY <2>3
      <4>2. i + 1 \in DOMAIN ctl /\ Tail(ctl)[i] = ctl[i + 1]
        BY Zenon, <1>3, <2>3
      <4>3. 1 < i + 1
        BY <4>1
      <4>4. QED
        BY Zenon, <4>2, <4>3
    <3>2. ctl[1] < ctl[j] /\ ctl[j] \in Nat
      <4>1. ctl[1] # Shutdown /\ ctl[j] # Shutdown /\ ctl[j] \in Nat
        BY Zenon, <1>2, <1>4, <1>6, <2>3, <3>1
      <4>2. QED
        BY Zenon, <1>2, <3>1, <4>1 DEF Numbers
    <3>3. \A x, y \in Nat : next < first + x /\ x < y => next + 1 < first + y
      OBVIOUS
    <3>4. QED
      BY Zenon, <2>1, <3>1, <3>2, <3>3
  <2>4. QED
    BY <1>5, <2>2, <2>3 DEF Numbers
<1>7. QED
  BY Zenon, <1>5, <1>6

\* A command, and the next of the calls, go to the end of the channel.
LEMMA NumbersOne ==
  ASSUME NEW first \in Nat, NEW next \in Nat, NEW n \in Nat, NEW ctl \in Seq(Nat),
         Numbers(first, next, n, ctl),
         NEW e \in Nat, NEW k \in {n, n + 1}, e # Shutdown => e = n + 1 /\ k = n + 1
  PROVE  Numbers(first, next, k, Append(ctl, e))
<1>1. PICK m \in Nat : m = Len(ctl)
  OBVIOUS
<1>2. DOMAIN ctl = 1 .. m /\ \A i \in DOMAIN ctl : ctl[i] \in Nat
  BY <1>1
<1>3. PICK b : b = Append(ctl, e)
  BY Zenon
<1>4. DOMAIN b = 1 .. m + 1 /\ b[m + 1] = e /\ \A i \in DOMAIN ctl : b[i] = ctl[i]
  BY <1>1, <1>3
<1>5. next <= first + n /\ n <= k /\ k \in Nat
  BY DEF Numbers
<1>6. ASSUME NEW i \in DOMAIN b, b[i] # Shutdown
      PROVE  b[i] <= k /\ next < first + b[i]
  <2>1. CASE i \in DOMAIN ctl
    <3>1. b[i] = ctl[i]
      BY Zenon, <1>4, <2>1
    <3>2. ctl[i] <= n /\ next < first + ctl[i] /\ ctl[i] \in Nat
      BY Zenon, <1>2, <1>6, <2>1, <3>1 DEF Numbers
    <3>3. QED
      BY <1>5, <3>1, <3>2
  <2>2. CASE i = m + 1
    BY <1>4, <1>5, <1>6, <2>2
  <2>3. QED
    BY <1>2, <1>4, <2>1, <2>2
<1>7. ASSUME NEW i \in DOMAIN b, NEW j \in DOMAIN b, i < j, b[i] # Shutdown, b[j] # Shutdown
      PROVE  b[i] < b[j]
  <2>1. i \in DOMAIN ctl
    BY <1>2, <1>4, <1>7
  <2>2. ctl[i] <= n /\ ctl[i] \in Nat /\ b[i] = ctl[i]
    BY Zenon, <1>2, <1>4, <1>7, <2>1 DEF Numbers
  <2>3. CASE j \in DOMAIN ctl
    BY Zenon, <1>4, <1>7, <2>1, <2>3 DEF Numbers
  <2>4. CASE j = m + 1
    BY <1>4, <1>7, <2>2, <2>4
  <2>5. QED
    BY <1>2, <1>4, <2>3, <2>4
<1>8. next <= first + k
  BY <1>5
<1>9. QED
  BY Zenon, <1>3, <1>6, <1>7, <1>8 DEF Numbers

LEMMA NumbersAppend ==
  ASSUME NEW first \in Nat, NEW next \in Nat, NEW n \in Nat, NEW ctl \in Seq(Nat),
         Numbers(first, next, n, ctl)
  PROVE  /\ Numbers(first, next, n, Append(ctl, Shutdown))
         /\ Numbers(first, next, n + 1, Append(ctl, n + 1))
         /\ Numbers(first, next, n + 1, ctl)
         /\ Numbers(first, next, n, <<>>)
<1>1. n + 1 \in Nat /\ Shutdown \in Nat
  BY DEF Shutdown
<1>2. Numbers(first, next, n, Append(ctl, Shutdown))
  BY Zenon, <1>1, NumbersOne
<1>3. Numbers(first, next, n + 1, Append(ctl, n + 1))
  BY Zenon, <1>1, NumbersOne
<1>4. \A i \in DOMAIN ctl : ctl[i] \in Nat
  OBVIOUS
<1>5. Numbers(first, next, n + 1, ctl)
  BY <1>4 DEF Numbers
<1>6. Numbers(first, next, n, <<>>)
  BY DEF Numbers
<1>7. QED
  BY Zenon, <1>2, <1>3, <1>5, <1>6

LaneIds(w, at, c, flags) ==
  {id \in StreamIds : (at /\ id = c) \/ \E i \in DOMAIN w : w[i].flags = flags /\ w[i].id = id}

\* No two of them are about the same stream.
Lane(w, at, c, flags) ==
  /\ \A i, j \in DOMAIN w :
       w[i].flags = flags /\ w[j].flags = flags /\ w[i].id = w[j].id => i = j
  /\ at => \A i \in DOMAIN w : w[i].flags = flags => w[i].id # c

LEMMA LaneTail ==
  ASSUME NEW w \in Seq(Frame), w # <<>>, NEW at \in BOOLEAN, NEW c, NEW flags,
         Lane(w, at, c, flags)
  PROVE  /\ Lane(Tail(w), at, c, flags)
         /\ LaneIds(Tail(w), at, c, flags) \subseteq LaneIds(w, at, c, flags)
         /\ Head(w).flags = flags =>
              /\ Head(w).id \in LaneIds(w, at, c, flags)
              /\ Head(w).id \notin LaneIds(Tail(w), at, c, flags)
<1>1. PICK m \in Nat : m = Len(w)
  OBVIOUS
<1>2. DOMAIN w = 1 .. m /\ 1 \in DOMAIN w /\ Head(w) = w[1]
  BY <1>1
<1>3. \A i \in DOMAIN Tail(w) :
        i \in Nat \ {0} /\ i + 1 \in DOMAIN w /\ Tail(w)[i] = w[i + 1]
  BY <1>1
<1>4. w[1].id \in StreamIds
  <2>1. w[1] \in Frame
    BY <1>2
  <2>2. QED
    BY Zenon, <2>1 DEF Frame
<1>5. Lane(Tail(w), at, c, flags)
  BY <1>3 DEF Lane
<1>6. LaneIds(Tail(w), at, c, flags) \subseteq LaneIds(w, at, c, flags)
  BY Zenon, <1>3 DEF LaneIds
<1>7. ASSUME Head(w).flags = flags
      PROVE  /\ Head(w).id \in LaneIds(w, at, c, flags)
             /\ Head(w).id \notin LaneIds(Tail(w), at, c, flags)
  <2>1. Head(w).id \in LaneIds(w, at, c, flags)
    BY Zenon, <1>2, <1>4, <1>7 DEF LaneIds
  <2>2. \A i \in DOMAIN Tail(w) : Tail(w)[i].flags = flags => Tail(w)[i].id # Head(w).id
    BY <1>2, <1>3, <1>7 DEF Lane
  <2>3. at => Head(w).id # c
    BY Zenon, <1>2, <1>7 DEF Lane
  <2>4. QED
    BY Zenon, <2>1, <2>2, <2>3 DEF LaneIds
<1>8. QED
  BY Zenon, <1>5, <1>6, <1>7

LEMMA LaneAppend ==
  ASSUME NEW w \in Seq(Frame), NEW f \in Frame, NEW at \in BOOLEAN, NEW at2 \in BOOLEAN,
         NEW c, NEW d, NEW flags,
         Lane(w, at, c, flags), f.flags = flags => at /\ f.id = c, ~at2
  PROVE  /\ Lane(Append(w, f), at2, d, flags)
         /\ LaneIds(Append(w, f), at2, d, flags) \subseteq LaneIds(w, at, c, flags)
<1>1. PICK m \in Nat : m = Len(w)
  OBVIOUS
<1>2. DOMAIN w = 1 .. m
  BY <1>1
<1>3. /\ DOMAIN Append(w, f) = 1 .. m + 1
      /\ Append(w, f)[m + 1] = f
      /\ \A i \in 1 .. m : Append(w, f)[i] = w[i]
  BY <1>1
<1>4. Lane(Append(w, f), at2, d, flags)
  BY <1>2, <1>3 DEF Lane
<1>5. LaneIds(Append(w, f), at2, d, flags) \subseteq LaneIds(w, at, c, flags)
  BY <1>2, <1>3 DEF LaneIds
<1>6. QED
  BY Zenon, <1>4, <1>5

-----------------------------------------------------------------------------
(* The life of an id: asked for, made by the peer and answered, made by    *)
(* the opener.                                                             *)

Lives(asked, answered, made, opened, pending, next) ==
  /\ asked \cap made = {} /\ answered \subseteq made \ opened
  /\ opened \subseteq made /\ pending \cap opened = {}
  /\ \A id \in asked \cup made \cup pending : id < next

LEMMA LivesLess ==
  ASSUME NEW asked, NEW answered, NEW made, NEW opened, NEW pending, NEW next,
         Lives(asked, answered, made, opened, pending, next),
         NEW a \in SUBSET asked, NEW r \in SUBSET answered, NEW p \in SUBSET pending
  PROVE  Lives(a, r, made, opened, p, next)
  BY Zenon DEF Lives

LEMMA LivesAsk ==
  ASSUME NEW asked, NEW answered, NEW made \in SUBSET Nat, NEW opened, NEW pending \in SUBSET Nat,
         NEW next \in Nat, asked \subseteq Nat,
         Lives(asked, answered, made, opened, pending, next),
         NEW a \in SUBSET (asked \cup {next}), NEW p \in SUBSET (pending \cup {next})
  PROVE  Lives(a, answered, made, opened, p, next + 1)
  BY DEF Lives

LEMMA LivesMake ==
  ASSUME NEW asked, NEW answered, NEW made, NEW opened, NEW pending, NEW next,
         Lives(asked, answered, made, opened, pending, next),
         NEW id \in asked, NEW a \in SUBSET asked, id \notin a,
         NEW r \in SUBSET (answered \cup {id})
  PROVE  Lives(a, r, made \cup {id}, opened, pending, next)
  BY Zenon DEF Lives

LEMMA LivesOpen ==
  ASSUME NEW asked, NEW answered, NEW made, NEW opened, NEW pending, NEW next,
         Lives(asked, answered, made, opened, pending, next),
         NEW id \in answered, NEW r \in SUBSET answered, id \notin r,
         NEW p \in SUBSET pending, id \notin p
  PROVE  Lives(asked, r, made, opened \cup {id}, p, next)
  BY Zenon DEF Lives

-----------------------------------------------------------------------------
(* The invariant of a connection on which only o opens streams.            *)

Ids(s) == {logical[s][k].id : k \in DOMAIN logical[s]}
PendingIds(s) == {id \in StreamIds : pending_streams[s][id] # None}

Requesting(s) == pc[s] = "open"
Answering(s)  == pc[s] \in {"offer", "respond"}

\* The requests, and the responses, of s that its peer has not taken yet.
Asked(s)    == LaneIds(wire[s], Requesting(s), cur[s].id, open_request)
Answered(s) == LaneIds(wire[s], Answering(s), cur[s].id, open_response)

Counted(o) ==
  /\ Numbers(First(o), next_stream_id[o], Len(calls[o]), control_chan[o])
  /\ Len(calls[o]) <= MaxOpens

\* A side that opens nothing.
Passive(s) ==
  /\ Len(calls[s]) = 0 /\ ~Requesting(s) /\ PendingIds(s) = {}
  /\ \A i \in DOMAIN control_chan[s] : control_chan[s][i] = Shutdown

\* Requests go one way and responses the other, one of each for an id.
OpenFrames(o) ==
  LET q == Peer(o)
  IN /\ Lane(wire[o], Requesting(o), cur[o].id, open_request)
     /\ Lane(wire[q], Answering(q), cur[q].id, open_response)
     /\ \A i \in DOMAIN wire[o] : wire[o][i].flags # open_response
     /\ \A i \in DOMAIN wire[q] : wire[q][i].flags # open_request
     /\ ~Answering(o)
     /\ Requesting(o) => cur[o].flags = open_request
     /\ pc[q] = "respond" => cur[q].flags = open_response

IdLife(o) ==
  LET q == Peer(o)
  IN /\ \A s \in Side : \A j, k \in DOMAIN logical[s] :
          logical[s][j].id = logical[s][k].id => j = k
     /\ Lives(Asked(o), Answered(q), Ids(q), Ids(o), PendingIds(o), next_stream_id[o])

IdInv(o) ==
  /\ TypeOK /\ RoutesToOwnId
  /\ Counted(o) /\ Passive(Peer(o)) /\ Traffic(Plain) /\ OpenFrames(o) /\ IdLife(o)

LEMMA IdTypes ==
  ASSUME TypeOK, NEW s \in Side
  PROVE  /\ pc[s] \in PC /\ cur[s] \in Frame /\ cur[s].id \in StreamIds
         /\ next_stream_id[s] \in StreamIds /\ next_stream_id[s] \in Nat
         /\ wire[s] \in Seq(Frame) /\ control_chan[s] \in Seq(Nat)
         /\ event_chan[s] \in Seq(StreamEvent)
         /\ calls[s] \in Seq(CallStatus) /\ Len(calls[s]) \in Nat
         /\ logical[s] \in Seq(LogicalStream) /\ Ids(s) \subseteq StreamIds
         /\ Peer(s) \in Side /\ Peer(s) # s /\ Peer(Peer(s)) = s
         /\ First(s) \in Nat /\ StreamIds \subseteq Nat
<1>1. /\ pc[s] \in PC /\ cur[s] \in Frame /\ next_stream_id[s] \in StreamIds
      /\ wire[s] \in Seq(Frame) /\ control_chan[s] \in Seq(Nat)
      /\ event_chan[s] \in Seq(StreamEvent)
      /\ calls[s] \in Seq(CallStatus) /\ logical[s] \in Seq(LogicalStream)
  BY Zenon DEF TypeOK
<1>2. cur[s].id \in StreamIds
  BY Zenon, <1>1 DEF Frame
<1>3. StreamIds \subseteq Nat
  BY MaxStreamIdAssumption DEF StreamIds
<1>4. Ids(s) \subseteq StreamIds
  <2>1. \A k \in DOMAIN logical[s] : logical[s][k] \in LogicalStream
    BY <1>1
  <2>2. QED
    BY Zenon, <2>1 DEF Ids, LogicalStream
<1>5. Peer(s) \in Side /\ Peer(s) # s /\ Peer(Peer(s)) = s
  BY Zenon DEF Side, Peer
<1>6. Len(calls[s]) \in Nat
  BY Zenon, <1>1, LenOf
<1>7. QED
  BY Zenon, <1>1, <1>2, <1>3, <1>4, <1>5, <1>6 DEF First

-----------------------------------------------------------------------------
(* Steps that start no request and no response.                            *)

Recedes(s) ==
  /\ \/ wire'[s] = wire[s] \/ wire'[s] = <<>>
     \/ wire[s] # <<>> /\ wire'[s] = Tail(wire[s])
  /\ \A id \in StreamIds : pending_streams'[s][id] \in {None, pending_streams[s][id]}
  /\ next_stream_id'[s] = next_stream_id[s]
  /\ \/ pc'[s] \notin {"open", "offer", "respond"}
     \/ pc'[s] = pc[s] /\ cur'[s] = cur[s]

LEMMA RecedeLanes ==
  ASSUME TypeOK, NEW s \in Side, Recedes(s),
         NEW flags, NEW at \in BOOLEAN, NEW at2 \in BOOLEAN,
         at2 => at /\ cur'[s] = cur[s],
         Lane(wire[s], at, cur[s].id, flags)
  PROVE  /\ Lane(wire'[s], at2, cur'[s].id, flags)
         /\ LaneIds(wire'[s], at2, cur'[s].id, flags) \subseteq LaneIds(wire[s], at, cur[s].id, flags)
<1> DEFINE c == cur[s].id
           d == cur'[s].id
<1>1. wire[s] \in Seq(Frame)
  BY Zenon, IdTypes
<1>2. /\ Lane(wire[s], at2, d, flags)
      /\ LaneIds(wire[s], at2, d, flags) \subseteq LaneIds(wire[s], at, c, flags)
  <2>1. CASE at2
    <3>1. at2 = at /\ d = c
      BY Zenon, <2>1
    <3>2. QED
      BY Zenon, <3>1
  <2>2. CASE ~at2
    BY Zenon, <2>2 DEF Lane, LaneIds
  <2>3. QED
    BY Zenon, <2>1, <2>2
<1>3. CASE wire'[s] = wire[s]
  BY Zenon, <1>2, <1>3
<1>4. CASE wire'[s] = <<>>
  BY <1>2, <1>4 DEF Lane, LaneIds
<1>5. CASE wire[s] # <<>> /\ wire'[s] = Tail(wire[s])
  <2>1. /\ Lane(Tail(wire[s]), at2, d, flags)
        /\ LaneIds(Tail(wire[s]), at2, d, flags) \subseteq LaneIds(wire[s], at2, d, flags)
    BY <1>1, <1>2, <1>5, LaneTail
  <2>2. QED
    BY Zenon, <1>2, <1>5, <2>1
<1>6. QED
  BY Zenon, <1>3, <1>4, <1>5 DEF Recedes

\* What is left on a wire was there before.
LEMMA RecedeFlags ==
  ASSUME TypeOK, NEW s \in Side, Recedes(s), NEW flags,
         \A i \in DOMAIN wire[s] : wire[s][i].flags # flags
  PROVE  \A i \in DOMAIN wire'[s] : wire'[s][i].flags # flags
<1>1. PICK w \in Seq(Frame) : w = wire[s]
  BY Zenon, IdTypes
<1>2. w # <<>> => \A i \in DOMAIN Tail(w) : i + 1 \in DOMAIN w /\ Tail(w)[i] = w[i + 1]
  OBVIOUS
<1>3. \/ wire'[s] = w \/ wire'[s] = <<>>
      \/ w # <<>> /\ wire'[s] = Tail(w)
  BY Zenon, <1>1 DEF Recedes
<1>4. CASE wire'[s] = w \/ wire'[s] = <<>>
  BY <1>1, <1>4
<1>5. CASE w # <<>> /\ wire'[s] = Tail(w)
  <2>1. \A i \in DOMAIN Tail(w) : Tail(w)[i].flags # flags
    BY Zenon, <1>1, <1>2, <1>5
  <2>2. QED
    BY Zenon, <1>5, <2>1
<1>6. QED
  BY Zenon, <1>3, <1>4, <1>5

LEMMA IdsSame == ASSUME IdsKept, NEW s \in Side PROVE Ids(s)' = Ids(s)
  BY Zenon DEF IdsKept, Ids

LEMMA Recede ==
  ASSUME TypeOK, NEW o \in Side, OpenFrames(o), IdLife(o), Passive(Peer(o)),
         IdsKept, \A s \in Side : Recedes(s)
  PROVE  OpenFrames(o)' /\ IdLife(o)'
<1> DEFINE q == Peer(o)
<1>1. q \in Side /\ q # o
  BY Zenon, IdTypes
<1>2. /\ Requesting(o)' => Requesting(o) /\ cur'[o] = cur[o]
      /\ Answering(q)' => Answering(q) /\ cur'[q] = cur[q] /\ pc'[q] = pc[q]
      /\ ~Answering(o)'
  BY Zenon, <1>1 DEF Recedes, Requesting, Answering, OpenFrames
<1>3. /\ Lane(wire'[o], Requesting(o)', cur'[o].id, open_request)
      /\ Asked(o)' \subseteq Asked(o)
  <2>1. Lane(wire[o], Requesting(o), cur[o].id, open_request)
    BY Zenon DEF OpenFrames
  <2>2. Requesting(o) \in BOOLEAN /\ Requesting(o)' \in BOOLEAN
    BY Zenon DEF Requesting
  <2>3. QED
    BY Zenon, <1>2, <2>1, <2>2, RecedeLanes DEF Asked
<1>4. /\ Lane(wire'[q], Answering(q)', cur'[q].id, open_response)
      /\ Answered(q)' \subseteq Answered(q)
  <2>1. Lane(wire[q], Answering(q), cur[q].id, open_response)
    BY Zenon DEF OpenFrames
  <2>2. Answering(q) \in BOOLEAN /\ Answering(q)' \in BOOLEAN
    BY DEF Answering
  <2>3. QED
    BY Zenon, <1>1, <1>2, <2>1, <2>2, RecedeLanes DEF Answered
<1>5. OpenFrames(o)'
  <2>1. /\ \A i \in DOMAIN wire'[o] : wire'[o][i].flags # open_response
        /\ \A i \in DOMAIN wire'[q] : wire'[q][i].flags # open_request
    BY Zenon, <1>1, RecedeFlags DEF OpenFrames
  <2>2. /\ Requesting(o)' => cur'[o].flags = open_request
        /\ pc'[q] = "respond" => cur'[q].flags = open_response
    BY Zenon, <1>2 DEF OpenFrames, Answering
  <2>3. QED
    BY Zenon, <1>2, <1>3, <1>4, <2>1, <2>2 DEF OpenFrames
<1>6. IdLife(o)'
  <2>1. PendingIds(o)' \subseteq PendingIds(o) /\ next_stream_id'[o] = next_stream_id[o]
    BY Zenon DEF PendingIds, Recedes
  <2>2. Ids(o)' = Ids(o) /\ Ids(q)' = Ids(q)
    BY Zenon, <1>1, IdsSame
  <2>3. Lives(Asked(o)', Answered(q)', Ids(q)', Ids(o)', PendingIds(o)', next_stream_id'[o])
    BY <1>3, <1>4, <2>1, <2>2, LivesLess DEF IdLife
  <2>4. \A s \in Side : \A j, k \in DOMAIN logical'[s] :
          logical'[s][j].id = logical'[s][k].id => j = k
    BY Zenon DEF IdLife, IdsKept
  <2>5. QED
    BY Zenon, <2>3, <2>4 DEF IdLife
<1>7. QED
  BY Zenon, <1>5, <1>6

-----------------------------------------------------------------------------
(* The steps of a request and its response.                                *)

LEMMA IdsMore ==
  ASSUME TypeOK, NEW s \in Side, NEW l \in LogicalStream,
         logical' = [logical EXCEPT ![s] = Append(@, l)]
  PROVE  /\ Ids(s)' = Ids(s) \cup {l.id}
         /\ Ids(Peer(s))' = Ids(Peer(s))
         /\ l.id \notin Ids(s) =>
              ((\A t \in Side : \A j, k \in DOMAIN logical[t] :
                  logical[t][j].id = logical[t][k].id => j = k)
               => \A t \in Side : \A j, k \in DOMAIN logical'[t] :
                    logical'[t][j].id = logical'[t][k].id => j = k)
<1> DEFINE q == logical[s]
<1>1. q \in Seq(LogicalStream) /\ Peer(s) \in Side /\ Peer(s) # s
  BY Zenon, IdTypes
<1>2. PICK n \in Nat : n = Len(q)
  BY <1>1
<1>3. /\ DOMAIN q = 1 .. n /\ DOMAIN Append(q, l) = 1 .. n + 1
      /\ \A k \in 1 .. n : Append(q, l)[k] = q[k]
      /\ Append(q, l)[n + 1] = l
  BY <1>1, <1>2
<1>4. /\ logical'[s] = Append(q, l)
      /\ \A t \in Side : t # s => logical'[t] = logical[t]
  BY Zenon DEF TypeOK
<1>5. Ids(s)' = Ids(s) \cup {l.id}
  <2>1. {Append(q, l)[k].id : k \in 1 .. n + 1} = {q[k].id : k \in 1 .. n} \cup {l.id}
    <3>1. \A k \in 1 .. n + 1 : k \in 1 .. n \/ k = n + 1
      OBVIOUS
    <3>2. \A k \in 1 .. n : k \in 1 .. n + 1
      OBVIOUS
    <3>3. n + 1 \in 1 .. n + 1
      OBVIOUS
    <3>4. QED
      BY Zenon, <1>3, <3>1, <3>2, <3>3
  <2>2. QED
    BY <1>3, <1>4, <2>1 DEF Ids
<1>6. Ids(Peer(s))' = Ids(Peer(s))
  BY Zenon, <1>1, <1>4 DEF Ids
<1>7. ASSUME l.id \notin Ids(s),
             \A t \in Side : \A j, k \in DOMAIN logical[t] :
               logical[t][j].id = logical[t][k].id => j = k,
             NEW t \in Side, NEW j \in DOMAIN logical'[t], NEW k \in DOMAIN logical'[t],
             logical'[t][j].id = logical'[t][k].id
      PROVE  j = k
  <2>1. CASE t # s
    BY Zenon, <1>4, <1>7, <2>1
  <2>2. CASE t = s
    <3>1. \A i \in 1 .. n : q[i].id # l.id
      BY Zenon, <1>3, <1>7 DEF Ids
    <3>2. (j \in 1 .. n \/ j = n + 1) /\ (k \in 1 .. n \/ k = n + 1)
      BY <1>3, <1>4, <1>7, <2>2
    <3>3. j \in 1 .. n /\ k \in 1 .. n => j = k
      BY <1>3, <1>4, <1>7, <2>2
    <3>4. QED
      BY <1>3, <1>4, <1>7, <2>2, <3>1, <3>2, <3>3
  <2>3. QED
    BY Zenon, <2>1, <2>2
<1>8. QED
  BY Zenon, <1>5, <1>6, <1>7

\* The frame at the head of a wire is one of the wire.
LEMMA IncomingOnWire ==
  ASSUME TypeOK, NEW s \in Side, TakeFrame(s)
  PROVE  /\ Incoming(s) \in Frame /\ Incoming(s).id \in StreamIds
         /\ \E i \in DOMAIN wire[Peer(s)] : wire[Peer(s)][i] = Incoming(s)
         /\ Incoming(s) = Head(wire[Peer(s)]) /\ wire[Peer(s)] # <<>>
         /\ wire'[Peer(s)] = Tail(wire[Peer(s)]) /\ wire'[s] = wire[s]
         /\ pc[s] = "select" /\ UNCHANGED next_stream_id
<1>1. wire[Peer(s)] # <<>> /\ pc[s] = "select" /\ UNCHANGED next_stream_id
  BY Zenon DEF TakeFrame
<1>2. wire[Peer(s)] \in Seq(Frame) /\ Peer(s) \in Side /\ Peer(s) # s
  BY Zenon, IdTypes
<1>3. Incoming(s) = Head(wire[Peer(s)]) /\ Head(wire[Peer(s)]) = wire[Peer(s)][1] /\ 1 \in DOMAIN wire[Peer(s)]
  BY <1>1, <1>2 DEF Incoming
<1>4. wire'[Peer(s)] = Tail(wire[Peer(s)]) /\ wire'[s] = wire[s]
  BY Zenon, <1>2 DEF TakeFrame, TypeOK
<1>5. QED
  BY Zenon, <1>1, <1>2, <1>3, <1>4, IncomingType

LEMMA MakeStep ==
  ASSUME NEW o \in Side, IdInv(o), NEW s \in Side, ReceiveOpenRequest(s)
  PROVE  OpenFrames(o)' /\ IdLife(o)'
<1> DEFINE q  == Peer(o)
           id == Incoming(q).id
           l  == NewStream(id, "accept", "offered")
<1>1. TypeOK /\ OpenFrames(o) /\ IdLife(o) /\ q \in Side /\ q # o /\ Peer(q) = o
  BY Zenon, IdTypes DEF IdInv
<1>2. TakeFrame(s) /\ Incoming(s).flags = open_request
  BY Zenon DEF ReceiveOpenRequest
<1>3. s = q
  <2>1. s # o
    BY Zenon, <1>1, <1>2, IncomingOnWire DEF OpenFrames
  <2>2. QED
    BY <2>1 DEF Side, Peer
<1>4. /\ Incoming(q) \in Frame /\ id \in StreamIds /\ Incoming(q).flags = open_request
      /\ Incoming(q) = Head(wire[o]) /\ wire[o] # <<>>
      /\ wire'[o] = Tail(wire[o]) /\ wire'[q] = wire[q]
      /\ pc[q] = "select" /\ UNCHANGED next_stream_id
  BY Zenon, <1>1, <1>2, <1>3, IncomingOnWire
<1>5. /\ UNCHANGED pending_streams
      /\ pc'[q] = "offer" /\ cur'[q] = Incoming(q) /\ pc'[o] = pc[o] /\ cur'[o] = cur[o]
  BY Zenon, <1>1, <1>3 DEF ReceiveOpenRequest, TypeOK
<1>6. l \in LogicalStream /\ l.id = id /\ logical' = [logical EXCEPT ![q] = Append(@, l)]
  BY Zenon, <1>3, <1>4, NewStreamType DEF ReceiveOpenRequest, Register, NewStream
<1>7. /\ wire[o] \in Seq(Frame) /\ Requesting(o) \in BOOLEAN /\ Requesting(o)' = Requesting(o)
      /\ ~Answering(q) /\ Answering(q)' /\ Answering(o)' = Answering(o)
      /\ Answering(q) \in BOOLEAN /\ Answering(q)' \in BOOLEAN
  <2>1. wire[o] \in Seq(Frame)
    BY Zenon, <1>1, IdTypes
  <2>2. Requesting(o) \in BOOLEAN /\ Answering(q) \in BOOLEAN /\ Answering(q)' \in BOOLEAN
    BY DEF Requesting, Answering
  <2>3. Requesting(o)' = Requesting(o) /\ Answering(o)' = Answering(o)
    BY Zenon, <1>5 DEF Requesting, Answering
  <2>4. ~Answering(q) /\ Answering(q)'
    BY <1>4, <1>5 DEF Answering
  <2>5. QED
    BY Zenon, <2>1, <2>2, <2>3, <2>4
<1>8. /\ Lane(wire'[o], Requesting(o)', cur'[o].id, open_request)
      /\ Asked(o)' \subseteq Asked(o) /\ id \in Asked(o) /\ id \notin Asked(o)'
  BY <1>1, <1>4, <1>5, <1>7, LaneTail DEF OpenFrames, Asked
<1>9. id \notin Ids(q) /\ id \notin Answered(q)
  BY Zenon, <1>1, <1>8 DEF IdLife, Lives
<1>10. /\ Lane(wire'[q], Answering(q)', cur'[q].id, open_response)
       /\ Answered(q)' \subseteq Answered(q) \cup {id}
  <2>1. Lane(wire[q], Answering(q), cur[q].id, open_response)
    BY Zenon, <1>1 DEF OpenFrames
  <2>2. id \in StreamIds \ LaneIds(wire[q], Answering(q), cur[q].id, open_response)
    BY Zenon, <1>4, <1>9 DEF Answered
  <2>3. /\ Lane(wire[q], Answering(q)', id, open_response)
        /\ LaneIds(wire[q], Answering(q)', id, open_response)
             \subseteq LaneIds(wire[q], Answering(q), cur[q].id, open_response) \cup {id}
    BY Zenon, <1>7, <2>1, <2>2 DEF Lane, LaneIds
  <2>4. QED
    BY Zenon, <1>4, <1>5, <2>3 DEF Answered
<1>11. OpenFrames(o)'
  <2>1. \A i \in DOMAIN wire'[o] : wire'[o][i].flags # open_response
    <3>1. \A i \in DOMAIN Tail(wire[o]) : i + 1 \in DOMAIN wire[o] /\ Tail(wire[o])[i] = wire[o][i + 1]
      BY <1>4, <1>7
    <3>2. QED
      BY Zenon, <1>1, <1>4, <3>1 DEF OpenFrames
  <2>2. QED
    BY Zenon, <1>1, <1>4, <1>5, <1>7, <1>8, <1>10, <2>1 DEF OpenFrames, Requesting
<1>12. IdLife(o)'
  <2>1. Ids(q)' = Ids(q) \cup {id} /\ Ids(o)' = Ids(o)
    BY Zenon, <1>1, <1>6, IdsMore
  <2>2. PendingIds(o)' = PendingIds(o) /\ next_stream_id'[o] = next_stream_id[o]
    BY Zenon, <1>4, <1>5 DEF PendingIds
  <2>3. Lives(Asked(o)', Answered(q)', Ids(q)', Ids(o)', PendingIds(o)', next_stream_id'[o])
    <3>1. Lives(Asked(o), Answered(q), Ids(q), Ids(o), PendingIds(o), next_stream_id[o])
      BY Zenon, <1>1 DEF IdLife
    <3>2. Lives(Asked(o)', Answered(q)', Ids(q) \cup {id}, Ids(o), PendingIds(o), next_stream_id[o])
      BY Zenon, <1>8, <1>10, <3>1, LivesMake
    <3>3. QED
      BY Zenon, <2>1, <2>2, <3>2
  <2>4. \A t \in Side : \A j, k \in DOMAIN logical'[t] :
          logical'[t][j].id = logical'[t][k].id => j = k
    BY Zenon, <1>1, <1>6, <1>9, IdsMore DEF IdLife
  <2>5. QED
    BY Zenon, <2>3, <2>4 DEF IdLife
<1>13. QED
  BY Zenon, <1>11, <1>12

LEMMA OfferStep ==
  ASSUME NEW o \in Side, IdInv(o), NEW s \in Side, Offer(s), IdsKept
  PROVE  OpenFrames(o)' /\ IdLife(o)'
<1> DEFINE q  == Peer(o)
<1>1. TypeOK /\ OpenFrames(o) /\ IdLife(o) /\ q \in Side /\ q # o
  BY Zenon, IdTypes DEF IdInv
<1>2. s = q
  <2>1. s # o
    BY Zenon, <1>1 DEF OpenFrames, Offer, Answering
  <2>2. QED
    BY <2>1 DEF Side, Peer
<1>3. /\ pc[q] = "offer" /\ pc'[q] = "respond" /\ pc'[o] = pc[o]
      /\ cur'[q].id = cur[q].id /\ cur'[q].flags = open_response /\ cur'[o] = cur[o]
      /\ UNCHANGED <<next_stream_id, pending_streams, wire>>
  BY Zenon, <1>1, <1>2 DEF Offer, TypeOK, netVars, Control
<1>4. /\ Requesting(o)' = Requesting(o) /\ Answering(q)' = Answering(q)
      /\ Answering(o)' = Answering(o)
  <2>1. Answering(q) /\ Answering(q)'
    BY <1>3 DEF Answering
  <2>2. Requesting(o)' = Requesting(o) /\ Answering(o)' = Answering(o)
    BY Zenon, <1>3 DEF Requesting, Answering
  <2>3. QED
    BY <2>1, <2>2 DEF Answering
<1>5. OpenFrames(o)'
  BY Zenon, <1>1, <1>3, <1>4 DEF OpenFrames
<1>6. IdLife(o)'
  <2>1. Ids(q)' = Ids(q) /\ Ids(o)' = Ids(o)
    BY Zenon, <1>1, IdsSame
  <2>2. /\ PendingIds(o)' = PendingIds(o)
        /\ Asked(o)' = Asked(o) /\ Answered(q)' = Answered(q)
    BY Zenon, <1>3, <1>4 DEF PendingIds, Asked, Answered
  <2>3. \A t \in Side : \A j, k \in DOMAIN logical'[t] :
          logical'[t][j].id = logical'[t][k].id => j = k
    BY Zenon, <1>1 DEF IdLife, IdsKept
  <2>4. QED
    BY Zenon, <1>1, <1>3, <2>1, <2>2, <2>3 DEF IdLife
<1>7. QED
  BY Zenon, <1>5, <1>6

LEMMA EstablishStep ==
  ASSUME NEW o \in Side, IdInv(o), NEW s \in Side, ReceiveOpenResponse(s)
  PROVE  OpenFrames(o)' /\ IdLife(o)'
<1> DEFINE q  == Peer(o)
           id == Incoming(o).id
           c  == pending_streams[o][id]
           l  == NewStream(id, "open", IF calls[o][c] = "waiting" THEN "held" ELSE "dropped")
<1>1. TypeOK /\ OpenFrames(o) /\ IdLife(o) /\ q \in Side /\ q # o /\ Peer(q) = o
  BY Zenon, IdTypes DEF IdInv
<1>2. TakeFrame(s) /\ Incoming(s).flags = open_response
  BY Zenon DEF ReceiveOpenResponse
<1>3. s = o
  <2>1. s # q
    <3>1. \A i \in DOMAIN wire[o] : wire[o][i].flags # open_response
      BY Zenon, <1>1 DEF OpenFrames
    <3>2. \E i \in DOMAIN wire[Peer(s)] : wire[Peer(s)][i] = Incoming(s)
      BY Zenon, <1>1, <1>2, IncomingOnWire
    <3>3. QED
      BY Zenon, <1>1, <1>2, <3>1, <3>2
  <2>2. QED
    BY <2>1 DEF Side, Peer
<1>4. /\ Incoming(o) \in Frame /\ id \in StreamIds /\ Incoming(o).flags = open_response
      /\ Incoming(o) = Head(wire[q]) /\ wire[q] # <<>>
      /\ wire'[q] = Tail(wire[q]) /\ wire'[o] = wire[o]
      /\ pc[o] = "select" /\ UNCHANGED next_stream_id
  BY Zenon, <1>1, <1>2, <1>3, IncomingOnWire
<1>5. /\ pending_streams' = [pending_streams EXCEPT ![o][id] = None] /\ UNCHANGED <<pc, cur>>
  BY Zenon, <1>3 DEF ReceiveOpenResponse
<1>6. l \in LogicalStream /\ l.id = id /\ logical' = [logical EXCEPT ![o] = Append(@, l)]
  BY Zenon, <1>3, <1>4, NewStreamType DEF ReceiveOpenResponse, Register, NewStream
<1>7. /\ Requesting(o)' = Requesting(o) /\ Answering(q)' = Answering(q)
      /\ Answering(o)' = Answering(o)
      /\ Answering(q) \in BOOLEAN /\ wire[q] \in Seq(Frame)
  BY <1>1, <1>5, IdTypes DEF Requesting, Answering
<1>8. /\ Lane(wire'[q], Answering(q)', cur'[q].id, open_response)
      /\ Answered(q)' \subseteq Answered(q) /\ id \in Answered(q) /\ id \notin Answered(q)'
  BY <1>1, <1>4, <1>5, <1>7, LaneTail DEF OpenFrames, Answered
<1>9. OpenFrames(o)'
  <2>1. \A i \in DOMAIN wire'[q] : wire'[q][i].flags # open_request
    <3>1. \A i \in DOMAIN Tail(wire[q]) : i + 1 \in DOMAIN wire[q] /\ Tail(wire[q])[i] = wire[q][i + 1]
      BY <1>4, <1>7
    <3>2. QED
      BY Zenon, <1>1, <1>4, <3>1 DEF OpenFrames
  <2>2. QED
    BY Zenon, <1>1, <1>4, <1>5, <1>7, <1>8, <2>1 DEF OpenFrames
<1>10. IdLife(o)'
  <2>1. Ids(o)' = Ids(o) \cup {id} /\ Ids(q)' = Ids(q) /\ id \notin Ids(o)
    BY Zenon, <1>1, <1>6, <1>8, IdsMore DEF IdLife, Lives
  <2>2. /\ PendingIds(o)' \subseteq PendingIds(o) /\ id \notin PendingIds(o)'
        /\ Asked(o)' = Asked(o) /\ next_stream_id'[o] = next_stream_id[o]
    <3>1. /\ pending_streams'[o][id] = None
          /\ \A i \in StreamIds : i # id => pending_streams'[o][i] = pending_streams[o][i]
      BY Zenon, <1>1, <1>4, <1>5 DEF TypeOK
    <3>2. QED
      BY Zenon, <1>4, <1>5, <1>7, <3>1 DEF PendingIds, Asked
  <2>3. Lives(Asked(o)', Answered(q)', Ids(q)', Ids(o)', PendingIds(o)', next_stream_id'[o])
    <3>1. Lives(Asked(o), Answered(q), Ids(q), Ids(o), PendingIds(o), next_stream_id[o])
      BY Zenon, <1>1 DEF IdLife
    <3>2. Lives(Asked(o), Answered(q)', Ids(q), Ids(o) \cup {id}, PendingIds(o)', next_stream_id[o])
      BY Zenon, <1>8, <2>2, <3>1, LivesOpen
    <3>3. QED
      BY Zenon, <2>1, <2>2, <3>2
  <2>4. \A t \in Side : \A j, k \in DOMAIN logical'[t] :
          logical'[t][j].id = logical'[t][k].id => j = k
    BY Zenon, <1>1, <1>6, <2>1, IdsMore DEF IdLife
  <2>5. QED
    BY Zenon, <2>3, <2>4 DEF IdLife
<1>11. QED
  BY Zenon, <1>9, <1>10

LEMMA AskStep ==
  ASSUME NEW o \in Side, OneOpener(o), IdInv(o), NEW s \in Side, HandleOpen(s)
  PROVE  /\ s = o /\ next_stream_id'[o] = next_stream_id[o] + 1
         /\ OpenFrames(o)' /\ IdLife(o)'
<1> DEFINE q  == Peer(o)
           id == next_stream_id[o]
           c  == Head(control_chan[o])
<1>1. /\ TypeOK /\ OpenFrames(o) /\ IdLife(o) /\ q \in Side /\ q # o /\ Peer(q) = o
      /\ Counted(o) /\ Passive(q)
  BY Zenon, IdTypes DEF IdInv
<1>2. control_chan[s] # <<>> /\ control_chan[s] \in Seq(Nat) /\ Head(control_chan[s]) # Shutdown
  BY Zenon, <1>1, IdTypes DEF HandleOpen, TakeCommand
<1>3. s = o
  <2>1. Head(control_chan[s]) = control_chan[s][1] /\ 1 \in DOMAIN control_chan[s]
    BY <1>2
  <2>2. s # q
    BY Zenon, <1>1, <1>2, <2>1 DEF Passive
  <2>3. QED
    BY <2>2 DEF Side, Peer
<1>4. id \in StreamIds /\ id \in Nat /\ next_stream_id'[o] = id + 1
  <2>1. id \in StreamIds /\ id \in Nat /\ First(o) \in Nat /\ Len(calls[o]) \in Nat
    BY Zenon, <1>1, IdTypes
  <2>2. id < First(o) + Len(calls[o])
    BY Zenon, <1>1, <1>2, <1>3, <2>1, NumbersTail DEF Counted
  <2>3. id + 1 <= MaxStreamId
    <3>1. /\ Len(calls[o]) <= MaxOpens /\ First(o) + MaxOpens <= MaxStreamId
          /\ MaxOpens \in Nat /\ MaxStreamId \in Nat
      BY <1>1, MaxStreamIdAssumption, CapAssumption DEF OneOpener, Counted
    <3>2. \A f, n, m, x, y \in Nat : x < f + n /\ n <= m /\ f + m <= y => x + 1 <= y
      OBVIOUS
    <3>3. QED
      BY Zenon, <2>1, <2>2, <3>1, <3>2
  <2>4. next_stream_id'[o] = fetch_add(id, 1)
    BY Zenon, <1>1, <1>3 DEF HandleOpen, TypeOK
  <2>5. QED
    BY Zenon, <2>1, <2>3, <2>4 DEF fetch_add
<1>5. /\ pc[o] = "select" /\ pc'[o] = "open" /\ cur'[o] = Control(id, open_request)
      /\ pc'[q] = pc[q] /\ cur'[q] = cur[q]
      /\ UNCHANGED <<wire, logical>>
      /\ pending_streams' = [pending_streams EXCEPT ![o][id] = c]
  BY Zenon, <1>1, <1>3 DEF HandleOpen, TakeCommand, TypeOK, netVars
<1>6. cur'[o].id = id /\ cur'[o].flags = open_request
  BY <1>5 DEF Control
<1>7. /\ ~Requesting(o) /\ Requesting(o)' /\ Answering(q)' = Answering(q) /\ ~Answering(o)'
      /\ Requesting(o) \in BOOLEAN /\ Requesting(o)' \in BOOLEAN
  BY Zenon, <1>5 DEF Requesting, Answering
<1>8. id \notin Asked(o) /\ Asked(o) \subseteq Nat
  <2>1. Asked(o) \subseteq Nat
    BY Zenon, <1>1, IdTypes DEF Asked, LaneIds
  <2>2. \A i \in Asked(o) : i < id
    BY Zenon, <1>1 DEF IdLife, Lives
  <2>3. \A i \in Nat : i < id => i # id
    BY <1>4
  <2>4. QED
    BY Zenon, <2>1, <2>2, <2>3
<1>9. /\ Lane(wire'[o], Requesting(o)', cur'[o].id, open_request)
      /\ Asked(o)' \subseteq Asked(o) \cup {id}
  <2>1. Lane(wire[o], Requesting(o), cur[o].id, open_request)
    BY Zenon, <1>1 DEF OpenFrames
  <2>2. id \in StreamIds \ LaneIds(wire[o], Requesting(o), cur[o].id, open_request)
    BY Zenon, <1>4, <1>8 DEF Asked
  <2>3. /\ Lane(wire[o], Requesting(o)', id, open_request)
        /\ LaneIds(wire[o], Requesting(o)', id, open_request)
             \subseteq LaneIds(wire[o], Requesting(o), cur[o].id, open_request) \cup {id}
    BY Zenon, <1>7, <2>1, <2>2 DEF Lane, LaneIds
  <2>4. QED
    BY Zenon, <1>5, <1>6, <2>3 DEF Asked
<1>10. OpenFrames(o)'
  BY Zenon, <1>1, <1>5, <1>6, <1>7, <1>9 DEF OpenFrames
<1>11. IdLife(o)'
  <2>1. Ids(o)' = Ids(o) /\ Ids(q)' = Ids(q) /\ Answered(q)' = Answered(q)
    BY Zenon, <1>5, <1>7 DEF Ids, Answered
  <2>2. PendingIds(o)' \subseteq PendingIds(o) \cup {id}
    <3>1. \A i \in StreamIds : i # id => pending_streams'[o][i] = pending_streams[o][i]
      BY Zenon, <1>1, <1>4, <1>5 DEF TypeOK
    <3>2. QED
      BY Zenon, <3>1 DEF PendingIds
  <2>3. Ids(q) \subseteq Nat /\ PendingIds(o) \subseteq Nat
    BY Zenon, <1>1, IdTypes DEF PendingIds
  <2>4. Lives(Asked(o)', Answered(q)', Ids(q)', Ids(o)', PendingIds(o)', next_stream_id'[o])
    <3>1. Lives(Asked(o), Answered(q), Ids(q), Ids(o), PendingIds(o), next_stream_id[o])
      BY Zenon, <1>1 DEF IdLife
    <3>2. Lives(Asked(o)', Answered(q), Ids(q), Ids(o), PendingIds(o)', id + 1)
      BY Zenon, <1>4, <1>8, <1>9, <2>2, <2>3, <3>1, LivesAsk
    <3>3. QED
      BY Zenon, <1>4, <2>1, <3>2
  <2>5. QED
    BY Zenon, <1>1, <1>5, <2>4 DEF IdLife
<1>12. QED
  BY Zenon, <1>3, <1>4, <1>10, <1>11

LEMMA DifferentFlags == open_request # open_response
  BY DEF open_request, open_response

LEMMA WriteStep ==
  ASSUME NEW o \in Side, IdInv(o), NEW s \in Side, WriteOk(s),
         wire' = [wire EXCEPT ![s] = Append(@, cur[s])]
  PROVE  OpenFrames(o)' /\ IdLife(o)'
<1> DEFINE q == Peer(o)
<1>1. /\ TypeOK /\ OpenFrames(o) /\ IdLife(o) /\ Passive(q) /\ Traffic(Plain)
      /\ q \in Side /\ q # o /\ Peer(q) = o
  BY Zenon, IdTypes DEF IdInv
<1>2. /\ pc[s] \in {"respond", "open", "write"} /\ pc'[s] = "select"
      /\ \A t \in Side : t # s => pc'[t] = pc[t] /\ cur'[t] = cur[t] /\ wire'[t] = wire[t]
      /\ wire'[s] = Append(wire[s], cur[s])
      /\ UNCHANGED <<next_stream_id, pending_streams, logical>>
  BY Zenon, <1>1 DEF WriteOk, TypeOK, appVars
<1>3. /\ wire[s] \in Seq(Frame) /\ cur[s] \in Frame
      /\ pc[s] = "write" => cur[s].flags # open_request /\ cur[s].flags # open_response
  BY Zenon, <1>1, IdTypes DEF Traffic, Plain, Opening
<1>4. PICK m \in Nat : /\ DOMAIN wire[s] = 1 .. m /\ DOMAIN wire'[s] = 1 .. m + 1
                       /\ wire'[s][m + 1] = cur[s]
                       /\ \A i \in 1 .. m : wire'[s][i] = wire[s][i]
  <2>1. Len(wire[s]) \in Nat
    BY <1>3
  <2>2. QED
    BY <1>2, <1>3, <2>1
<1>5. \A i \in DOMAIN wire'[s] : i \in DOMAIN wire[s] \/ wire'[s][i] = cur[s]
  BY <1>4
<1>6. CASE s = o
  <2>1. /\ cur[o].flags # open_response
        /\ cur[o].flags = open_request => Requesting(o)
        /\ ~Requesting(o)' /\ Answering(q)' = Answering(q) /\ ~Answering(o)'
        /\ Requesting(o) \in BOOLEAN /\ Requesting(o)' \in BOOLEAN
        /\ wire'[q] = wire[q] /\ cur'[q] = cur[q] /\ pc'[q] = pc[q]
    BY Zenon, <1>1, <1>2, <1>3, <1>6, DifferentFlags DEF OpenFrames, Requesting, Answering
  <2>2. /\ Lane(wire'[o], Requesting(o)', cur'[o].id, open_request)
        /\ Asked(o)' \subseteq Asked(o)
    <3>1. Lane(wire[o], Requesting(o), cur[o].id, open_request)
      BY Zenon, <1>1 DEF OpenFrames
    <3>2. /\ Lane(Append(wire[o], cur[o]), Requesting(o)', cur'[o].id, open_request)
          /\ LaneIds(Append(wire[o], cur[o]), Requesting(o)', cur'[o].id, open_request)
               \subseteq LaneIds(wire[o], Requesting(o), cur[o].id, open_request)
      <4>1. wire[o] \in Seq(Frame) /\ cur[o] \in Frame
        BY Zenon, <1>3, <1>6
      <4>2. QED
        BY SMTT(30), <2>1, <3>1, <4>1, LaneAppend
    <3>3. QED
      BY Zenon, <1>2, <1>6, <3>2 DEF Asked
  <2>3. OpenFrames(o)'
    <3>1. \A i \in DOMAIN wire[o] : wire[o][i].flags # open_response
      BY Zenon, <1>1 DEF OpenFrames
    <3>2. \A i \in DOMAIN wire'[o] : wire'[o][i].flags # open_response
      BY <1>4, <1>6, <2>1, <3>1
    <3>3. /\ Lane(wire'[q], Answering(q)', cur'[q].id, open_response)
          /\ \A i \in DOMAIN wire'[q] : wire'[q][i].flags # open_request
          /\ pc'[q] = "respond" => cur'[q].flags = open_response
      <4>1. /\ Lane(wire[q], Answering(q), cur[q].id, open_response)
            /\ \A i \in DOMAIN wire[q] : wire[q][i].flags # open_request
            /\ pc[q] = "respond" => cur[q].flags = open_response
        BY Zenon, <1>1 DEF OpenFrames
      <4>2. QED
        BY Zenon, <2>1, <4>1
    <3>4. QED
      BY Zenon, <2>1, <2>2, <3>2, <3>3 DEF OpenFrames
  <2>4. IdLife(o)'
    <3>1. /\ Ids(o)' = Ids(o) /\ Ids(q)' = Ids(q) /\ Answered(q)' = Answered(q)
          /\ PendingIds(o)' = PendingIds(o)
      BY Zenon, <1>2, <2>1 DEF Ids, Answered, PendingIds
    <3>2. Lives(Asked(o)', Answered(q)', Ids(q)', Ids(o)', PendingIds(o)', next_stream_id'[o])
      <4>1. Lives(Asked(o), Answered(q), Ids(q), Ids(o), PendingIds(o), next_stream_id[o])
        BY Zenon, <1>1 DEF IdLife
      <4>2. Lives(Asked(o)', Answered(q), Ids(q), Ids(o), PendingIds(o), next_stream_id[o])
        BY <2>2, <4>1, LivesLess
      <4>3. QED
        BY <1>2, <3>1, <4>2
    <3>3. QED
      BY Zenon, <1>1, <1>2, <3>2 DEF IdLife
  <2>5. QED
    BY Zenon, <2>3, <2>4
<1>7. CASE s = q
  <2>1. /\ cur[q].flags # open_request
        /\ cur[q].flags = open_response => Answering(q)
        /\ ~Answering(q)' /\ Requesting(o)' = Requesting(o) /\ ~Answering(o)'
        /\ Answering(q) \in BOOLEAN /\ Answering(q)' \in BOOLEAN
        /\ wire'[o] = wire[o] /\ cur'[o] = cur[o] /\ pc'[q] # "respond"
    <3>1. /\ ~Answering(q)' /\ pc'[q] # "respond"
          /\ Answering(q) \in BOOLEAN /\ Answering(q)' \in BOOLEAN
      BY <1>2, <1>7 DEF Answering
    <3>2. Requesting(o)' = Requesting(o) /\ ~Answering(o)' /\ wire'[o] = wire[o] /\ cur'[o] = cur[o]
      BY Zenon, <1>1, <1>2, <1>7 DEF OpenFrames, Requesting, Answering
    <3>3. /\ cur[q].flags # open_request
          /\ cur[q].flags = open_response => Answering(q)
      BY <1>1, <1>2, <1>3, <1>7, DifferentFlags DEF OpenFrames, Passive, Requesting, Answering
    <3>4. QED
      BY Zenon, <3>1, <3>2, <3>3
  <2>2. /\ Lane(wire'[q], Answering(q)', cur'[q].id, open_response)
        /\ Answered(q)' \subseteq Answered(q)
    <3>1. Lane(wire[q], Answering(q), cur[q].id, open_response)
      BY Zenon, <1>1 DEF OpenFrames
    <3>2. /\ Lane(Append(wire[q], cur[q]), Answering(q)', cur'[q].id, open_response)
          /\ LaneIds(Append(wire[q], cur[q]), Answering(q)', cur'[q].id, open_response)
               \subseteq LaneIds(wire[q], Answering(q), cur[q].id, open_response)
      <4>1. wire[q] \in Seq(Frame) /\ cur[q] \in Frame
        BY Zenon, <1>3, <1>7
      <4>2. PICK at, at2, f, w, d :
              at = Answering(q) /\ at2 = Answering(q)' /\ f = cur[q] /\ w = wire[q] /\ d = cur'[q].id
        BY Zenon, <2>1
      <4>3. /\ w \in Seq(Frame) /\ f \in Frame /\ at \in BOOLEAN /\ at2 \in BOOLEAN
            /\ Lane(w, at, f.id, open_response) /\ ~at2
            /\ f.flags = open_response => at /\ f.id = f.id
        BY Zenon, <2>1, <3>1, <4>1, <4>2
      <4>4. /\ Lane(Append(w, f), at2, d, open_response)
            /\ LaneIds(Append(w, f), at2, d, open_response) \subseteq LaneIds(w, at, f.id, open_response)
        BY Zenon, <4>3, LaneAppend
      <4>5. QED
        BY Zenon, <4>2, <4>4
    <3>3. QED
      BY Zenon, <1>2, <1>7, <3>2 DEF Answered
  <2>3. OpenFrames(o)'
    <3>1. \A i \in DOMAIN wire[q] : wire[q][i].flags # open_request
      BY Zenon, <1>1 DEF OpenFrames
    <3>2. \A i \in DOMAIN wire'[q] : wire'[q][i].flags # open_request
      BY <1>4, <1>7, <2>1, <3>1
    <3>3. /\ Lane(wire'[o], Requesting(o)', cur'[o].id, open_request)
          /\ \A i \in DOMAIN wire'[o] : wire'[o][i].flags # open_response
          /\ Requesting(o)' => cur'[o].flags = open_request
      <4>1. /\ Lane(wire[o], Requesting(o), cur[o].id, open_request)
            /\ \A i \in DOMAIN wire[o] : wire[o][i].flags # open_response
            /\ Requesting(o) => cur[o].flags = open_request
        BY Zenon, <1>1 DEF OpenFrames
      <4>2. QED
        BY Zenon, <2>1, <4>1
    <3>4. QED
      BY Zenon, <2>1, <2>2, <3>2, <3>3 DEF OpenFrames
  <2>4. IdLife(o)'
    <3>1. /\ Ids(o)' = Ids(o) /\ Ids(q)' = Ids(q) /\ Asked(o)' = Asked(o)
          /\ PendingIds(o)' = PendingIds(o)
      BY Zenon, <1>2, <2>1 DEF Ids, Asked, PendingIds
    <3>2. Lives(Asked(o)', Answered(q)', Ids(q)', Ids(o)', PendingIds(o)', next_stream_id'[o])
      <4>1. Lives(Asked(o), Answered(q), Ids(q), Ids(o), PendingIds(o), next_stream_id[o])
        BY Zenon, <1>1 DEF IdLife
      <4>2. Lives(Asked(o), Answered(q)', Ids(q), Ids(o), PendingIds(o), next_stream_id[o])
        BY <2>2, <4>1, LivesLess
      <4>3. QED
        BY <1>2, <3>1, <4>2
    <3>3. QED
      BY Zenon, <1>1, <1>2, <3>2 DEF IdLife
  <2>5. QED
    BY Zenon, <2>3, <2>4
<1>8. QED
  BY Zenon, <1>6, <1>7 DEF Side, Peer

-----------------------------------------------------------------------------
(* Every other step recedes.                                               *)

LEMMA ActorRecedes ==
  ASSUME TypeOK, NEW s \in Side, Actor(s), ~ReceiveOpenRequest(s), ~ReceiveOpenResponse(s),
         ~Offer(s), ~HandleOpen(s), WriteOk(s) => UNCHANGED wire
  PROVE  \A t \in Side : Recedes(t)
<1>1. CASE ReceiveForStream(s) \/ ReceiveOpenReset(s) \/ ReceiveStray(s)
  <2>1. TakeFrame(s)
    BY Zenon, <1>1 DEF ReceiveForStream, ReceiveOpenReset, ReceiveStray
  <2>2. /\ wire[Peer(s)] # <<>> /\ wire'[Peer(s)] = Tail(wire[Peer(s)]) /\ wire'[s] = wire[s]
        /\ pc[s] = "select" /\ UNCHANGED next_stream_id
    BY Zenon, <2>1, IncomingOnWire
  <2>3. /\ pc'[s] \in {"select", "deliver"}
        /\ pc'[Peer(s)] = pc[Peer(s)] /\ cur'[Peer(s)] = cur[Peer(s)]
    BY Zenon, <1>1, <2>2, PeerSide DEF ReceiveForStream, ReceiveOpenReset, ReceiveStray, TypeOK
  <2>4. \A t \in Side : \A id \in StreamIds : pending_streams'[t][id] \in {None, pending_streams[t][id]}
    <3>1. CASE ReceiveForStream(s) \/ ReceiveStray(s)
      BY Zenon, <3>1 DEF ReceiveForStream, ReceiveStray
    <3>2. CASE ReceiveOpenReset(s)
      <4>1. pending_streams' = [pending_streams EXCEPT ![s][Incoming(s).id] = None]
        BY Zenon, <3>2 DEF ReceiveOpenReset
      <4>2. QED
        BY Zenon, <4>1 DEF TypeOK
    <3>3. QED
      BY Zenon, <1>1, <3>1, <3>2
  <2>5. QED
    BY Zenon, <2>2, <2>3, <2>4 DEF Recedes, Side, Peer
<1>2. CASE \/ Deliver(s) \/ ReadError(s) \/ HandleShutdown(s) \/ HandleFrameEvent(s)
           \/ HandleClosedEvent(s) \/ WriteOk(s) \/ WriteError(s) \/ HandleCancel(s)
  <2>1. UNCHANGED <<wire, next_stream_id, pending_streams>>
    BY Zenon, <1>2 DEF Deliver, ReadError, HandleShutdown, HandleFrameEvent, HandleClosedEvent,
                WriteOk, WriteError, HandleCancel, netVars
  <2>2. /\ pc'[s] \in {"select", "write", "closing"}
        /\ \A t \in Side : t # s => pc'[t] = pc[t] /\ cur'[t] = cur[t]
    BY Zenon, <1>2 DEF Deliver, ReadError, HandleShutdown, HandleFrameEvent, HandleClosedEvent,
                WriteOk, WriteError, HandleCancel, TakeCommand, Break, TypeOK
  <2>3. QED
    BY Zenon, <2>1, <2>2 DEF Recedes
<1>3. CASE CloseWriter(s) \/ Abort(s)
  <2>1. \E how : Finish(s, how)
    BY Zenon, <1>3 DEF CloseWriter, Abort
  <2>2. /\ pc'[s] = "finished" /\ UNCHANGED next_stream_id
        /\ \A t \in Side : t # s => pc'[t] = pc[t] /\ cur'[t] = cur[t]
        /\ pending_streams' = [pending_streams EXCEPT ![s] = EmptyMap]
        /\ wire' = [wire EXCEPT ![Peer(s)] = <<>>]
    BY Zenon, <2>1 DEF Finish, TypeOK
  <2>3. \A t \in Side : \A id \in StreamIds : pending_streams'[t][id] \in {None, pending_streams[t][id]}
    BY Zenon, <2>2, EmptyMapType DEF TypeOK
  <2>4. \A t \in Side : wire'[t] = wire[t] \/ wire'[t] = <<>>
    BY Zenon, <2>2 DEF TypeOK
  <2>5. QED
    BY Zenon, <2>2, <2>3, <2>4 DEF Recedes
<1>4. QED
  BY Zenon, <1>1, <1>2, <1>3 DEF Actor

LEMMA AppRecedes ==
  ASSUME TypeOK, NEW s \in Side, App(s)
  PROVE  /\ UNCHANGED <<actorVars, netVars>>
         /\ \A t \in Side : Recedes(t)
<1>1. UNCHANGED <<actorVars, netVars>>
  BY Zenon, AppKeepsActor
<1>2. QED
  BY Zenon, <1>1 DEF Recedes, actorVars, netVars

LEMMA LifeNext ==
  ASSUME NEW o \in Side, OneOpener(o), IdInv(o), [Next]_vars
  PROVE  OpenFrames(o)' /\ IdLife(o)'
<1>1. TypeOK /\ OpenFrames(o) /\ IdLife(o) /\ Passive(Peer(o))
  BY Zenon DEF IdInv
<1>2. CASE UNCHANGED vars \/ Sever
  <2>1. IdsKept
    BY Zenon, <1>2 DEF IdsKept, vars, Sever, appVars
  <2>2. \A t \in Side : Recedes(t)
    BY Zenon, <1>2 DEF vars, Sever, actorVars, netVars, Recedes
  <2>3. QED
    BY Zenon, <1>1, <2>1, <2>2, Recede
<1>3. ASSUME NEW s \in Side, Actor(s) PROVE OpenFrames(o)' /\ IdLife(o)'
  <2>1. CASE ReceiveOpenRequest(s)
    BY Zenon, <2>1, MakeStep
  <2>2. CASE ReceiveOpenResponse(s)
    BY Zenon, <2>2, EstablishStep
  <2>3. CASE HandleOpen(s)
    BY Zenon, <2>3, AskStep
  <2>4. ASSUME ~ReceiveOpenRequest(s), ~ReceiveOpenResponse(s) PROVE IdsKept
    BY Zenon, <1>1, <1>3, <2>4, ActorKeepsIds
  <2>5. CASE Offer(s) /\ ~ReceiveOpenRequest(s) /\ ~ReceiveOpenResponse(s)
    BY Zenon, <2>4, <2>5, OfferStep
  <2>6. CASE WriteOk(s) /\ wire' # wire
    BY Zenon, <2>6, WriteStep DEF WriteOk
  <2>7. CASE /\ ~ReceiveOpenRequest(s) /\ ~ReceiveOpenResponse(s) /\ ~HandleOpen(s)
             /\ ~Offer(s) /\ ~(WriteOk(s) /\ wire' # wire)
    BY Zenon, <1>1, <1>3, <2>4, <2>7, ActorRecedes, Recede
  <2>8. QED
    BY Zenon, <2>1, <2>2, <2>3, <2>5, <2>6, <2>7
<1>4. ASSUME NEW s \in Side, App(s) PROVE OpenFrames(o)' /\ IdLife(o)'
  BY Zenon, <1>1, <1>4, AppKeepsIds, AppRecedes, Recede
<1>5. QED
  BY Zenon, <1>2, <1>3, <1>4 DEF Next

-----------------------------------------------------------------------------
(* The calls and the commands.                                             *)

LEMMA ActorCalls ==
  ASSUME TypeOK, NEW s \in Side, Actor(s)
  PROVE  \A t \in Side : Len(calls'[t]) = Len(calls[t])
<1>1. CASE ReceiveOpenResponse(s) \/ ReceiveOpenReset(s) \/ HandleOpen(s) \/ WriteError(s)
  <2>1. calls' = calls \/ \E c : \E r \in CallStatus : calls' = Reply(s, c, r)
    BY Zenon, <1>1 DEF ReceiveOpenResponse, ReceiveOpenReset, HandleOpen, WriteError, CallStatus
  <2>2. QED
    BY <2>1, ReplyType
<1>2. CASE CloseWriter(s) \/ Abort(s)
  <2>1. calls' = [calls EXCEPT ![s] = DropReplies(@)]
    BY Zenon, <1>2 DEF CloseWriter, Abort, Finish
  <2>2. calls[s] \in Seq(CallStatus) /\ DropReplies(calls[s]) \in Seq(CallStatus)
        /\ DOMAIN DropReplies(calls[s]) = DOMAIN calls[s]
    BY Zenon, DropRepliesType DEF TypeOK
  <2>3. Len(DropReplies(calls[s])) = Len(calls[s])
    BY <2>2, LenOf
  <2>4. QED
    BY Zenon, <2>1, <2>3 DEF TypeOK
<1>3. CASE \/ ReceiveForStream(s) \/ Deliver(s) \/ ReceiveOpenRequest(s) \/ Offer(s)
           \/ ReceiveStray(s) \/ ReadError(s) \/ HandleShutdown(s) \/ HandleFrameEvent(s)
           \/ HandleClosedEvent(s) \/ WriteOk(s) \/ HandleCancel(s)
  <2>1. calls' = calls
    BY Zenon, <1>3 DEF ReceiveForStream, Deliver, ReceiveOpenRequest, Offer, ReceiveStray, ReadError,
                HandleShutdown, HandleFrameEvent, HandleClosedEvent, WriteOk, HandleCancel, appVars
  <2>2. QED
    BY Zenon, <2>1
<1>4. QED
  BY Zenon, <1>1, <1>2, <1>3 DEF Actor

LEMMA ActorControl ==
  ASSUME TypeOK, NEW s \in Side, Actor(s)
  PROVE  \A t \in Side :
           \/ control_chan'[t] = control_chan[t]
           \/ control_chan'[t] = <<>>
           \/ control_chan[t] # <<>> /\ control_chan'[t] = Tail(control_chan[t])
<1>1. CASE HandleOpen(s) \/ HandleShutdown(s)
  <2>1. control_chan[s] # <<>> /\ control_chan' = [control_chan EXCEPT ![s] = Tail(@)]
    BY Zenon, <1>1 DEF HandleOpen, HandleShutdown, TakeCommand
  <2>2. QED
    BY Zenon, <2>1 DEF TypeOK
<1>2. CASE CloseWriter(s) \/ Abort(s)
  <2>1. control_chan' = [control_chan EXCEPT ![s] = <<>>]
    BY Zenon, <1>2 DEF CloseWriter, Abort, Finish
  <2>2. QED
    BY Zenon, <2>1 DEF TypeOK
<1>3. CASE \/ ReceiveForStream(s) \/ Deliver(s) \/ ReceiveOpenRequest(s) \/ Offer(s)
           \/ ReceiveOpenResponse(s) \/ ReceiveOpenReset(s) \/ ReceiveStray(s) \/ ReadError(s)
           \/ HandleFrameEvent(s) \/ HandleClosedEvent(s) \/ WriteOk(s) \/ WriteError(s)
           \/ HandleCancel(s)
  <2>1. control_chan' = control_chan
    BY Zenon, <1>3 DEF ReceiveForStream, Deliver, ReceiveOpenRequest, Offer, ReceiveOpenResponse,
                ReceiveOpenReset, ReceiveStray, ReadError, HandleFrameEvent, HandleClosedEvent,
                WriteOk, WriteError, HandleCancel, TakeFrame, chanVars
  <2>2. QED
    BY Zenon, <2>1
<1>4. QED
  BY Zenon, <1>1, <1>2, <1>3 DEF Actor

LEMMA ActorOpens ==
  ASSUME TypeOK, NEW s \in Side, Actor(s), ~HandleOpen(s)
  PROVE  /\ UNCHANGED next_stream_id
         /\ \A t \in Side : /\ pc'[t] = "open" => pc[t] = "open"
                            /\ \A id \in StreamIds :
                                 pending_streams'[t][id] \in {None, pending_streams[t][id]}
<1>1. CASE ReceiveOpenRequest(s) \/ Offer(s) \/ WriteOk(s)
  <2>1. UNCHANGED <<next_stream_id, pending_streams>>
    BY Zenon, <1>1 DEF ReceiveOpenRequest, Offer, WriteOk, TakeFrame
  <2>2. \A t \in Side : pc'[t] = "open" => pc[t] = "open"
    BY Zenon, <1>1 DEF ReceiveOpenRequest, Offer, WriteOk, TypeOK
  <2>3. QED
    BY Zenon, <2>1, <2>2
<1>2. CASE ReceiveOpenResponse(s)
  <2>1. /\ UNCHANGED <<next_stream_id, pc>>
        /\ pending_streams' = [pending_streams EXCEPT ![s][Incoming(s).id] = None]
    BY Zenon, <1>2 DEF ReceiveOpenResponse, TakeFrame
  <2>2. QED
    BY Zenon, <2>1 DEF TypeOK
<1>3. CASE /\ ~ReceiveOpenRequest(s) /\ ~Offer(s) /\ ~WriteOk(s) /\ ~ReceiveOpenResponse(s)
  <2>1. \A t \in Side : Recedes(t)
    BY Zenon, <1>3, ActorRecedes
  <2>2. next_stream_id' = next_stream_id
    BY Zenon, <1>3 DEF Actor, ReceiveForStream, Deliver, ReceiveOpenReset, ReceiveStray, ReadError,
                HandleShutdown, HandleFrameEvent, HandleClosedEvent, WriteError, HandleCancel,
                CloseWriter, Abort, Finish, TakeFrame
  <2>3. QED
    BY Zenon, <2>1, <2>2 DEF Recedes
<1>4. QED
  BY Zenon, <1>1, <1>2, <1>3

LEMMA CountedNext ==
  ASSUME NEW o \in Side, OneOpener(o), IdInv(o), [Next]_vars
  PROVE  Counted(o)'
<1> DEFINE ctl == control_chan[o]
           n == Len(calls[o])
           next == next_stream_id[o]
<1>1. /\ TypeOK /\ Numbers(First(o), next, n, ctl) /\ n <= MaxOpens
      /\ ctl \in Seq(Nat) /\ n \in Nat /\ next \in Nat /\ First(o) \in Nat
  BY Zenon, IdTypes DEF IdInv, Counted
<1>2. ASSUME Len(calls'[o]) = n, next_stream_id'[o] = next,
             \/ control_chan'[o] \in {ctl, <<>>, Append(ctl, Shutdown)}
             \/ ctl # <<>> /\ control_chan'[o] = Tail(ctl)
      PROVE  Counted(o)'
  <2>1. Numbers(First(o), next, n, control_chan'[o])
    BY Zenon, <1>1, <1>2, NumbersTail, NumbersAppend
  <2>2. QED
    BY Zenon, <1>1, <1>2, <2>1 DEF Counted
<1>3. CASE UNCHANGED vars \/ Sever
  BY Zenon, <1>2, <1>3 DEF vars, Sever, actorVars, chanVars, appVars
<1>4. ASSUME NEW s \in Side, Actor(s) PROVE Counted(o)'
  <2>1. CASE HandleOpen(s)
    <3>1. s = o /\ next_stream_id'[o] = next + 1
      BY Zenon, <2>1, AskStep
    <3>2. ctl # <<>> /\ Head(ctl) # Shutdown /\ control_chan'[o] = Tail(ctl)
      BY Zenon, <1>1, <2>1, <3>1 DEF HandleOpen, TakeCommand, TypeOK
    <3>3. Numbers(First(o), next + 1, n, Tail(ctl))
      BY Zenon, <1>1, <3>2, NumbersTail
    <3>4. Len(calls'[o]) = n
      BY Zenon, <1>1, <1>4, ActorCalls
    <3>5. QED
      BY Zenon, <1>1, <3>1, <3>2, <3>3, <3>4 DEF Counted
  <2>2. CASE ~HandleOpen(s)
    BY Zenon, <1>1, <1>2, <1>4, <2>2, ActorCalls, ActorControl, ActorOpens
  <2>3. QED
    BY Zenon, <2>1, <2>2
<1>5. ASSUME NEW s \in Side, App(s) PROVE Counted(o)'
  <2>1. next_stream_id'[o] = next
    BY Zenon, <1>1, <1>5, AppRecedes DEF actorVars
  <2>2. CASE OpenStream(s)
    <3>1. CASE s # o
      <4>1. calls'[o] = calls[o] /\ control_chan'[o] = ctl
        BY Zenon, <1>1, <2>2, <3>1 DEF OpenStream, TypeOK
      <4>2. QED
        BY Zenon, <1>2, <2>1, <4>1
    <3>2. CASE s = o
      <4>1. /\ n < MaxOpens /\ Len(calls'[o]) = n + 1
            /\ control_chan'[o] \in {ctl, Append(ctl, n + 1)}
        <5>1. n < MaxOpens /\ (control_chan'[o] = ctl \/ control_chan'[o] = Append(ctl, n + 1))
          BY Zenon, <1>1, <2>2, <3>2 DEF OpenStream, TypeOK
        <5>2. calls'[o] = Append(calls[o], "waiting") \/ calls'[o] = Append(calls[o], "err")
          BY Zenon, <1>1, <2>2, <3>2 DEF OpenStream, TypeOK
        <5>3. calls[o] \in Seq(CallStatus) /\ {"waiting", "err"} \subseteq CallStatus
          BY Zenon, <1>1 DEF TypeOK, CallStatus
        <5>4. QED
          BY <5>1, <5>2, <5>3
      <4>2. Numbers(First(o), next, n + 1, control_chan'[o])
        BY Zenon, <1>1, <4>1, NumbersAppend
      <4>3. n + 1 <= MaxOpens
        BY <1>1, <4>1, CapAssumption
      <4>4. QED
        BY Zenon, <2>1, <4>1, <4>2, <4>3 DEF Counted
    <3>3. QED
      BY Zenon, <3>1, <3>2
  <2>3. CASE \E c \in 1 .. MaxOpens : AbandonOpen(s, c)
    <3>1. PICK c \in 1 .. MaxOpens : AbandonOpen(s, c)
      BY Zenon, <2>3
    <3>2. Len([calls[s] EXCEPT ![c] = "abandoned"]) = Len(calls[s])
      BY <1>1, UpdateSeq DEF TypeOK, CallStatus
    <3>3. Len(calls'[o]) = n /\ control_chan'[o] = ctl
      BY Zenon, <1>1, <3>1, <3>2 DEF AbandonOpen, chanVars, TypeOK
    <3>4. QED
      BY Zenon, <1>2, <2>1, <3>3
  <2>4. CASE ShutdownSession(s)
    <3>1. calls'[o] = calls[o] /\ control_chan'[o] \in {ctl, Append(ctl, Shutdown)}
      BY Zenon, <1>1, <2>4 DEF ShutdownSession, TypeOK
    <3>2. QED
      BY Zenon, <1>2, <2>1, <3>1
  <2>5. CASE \/ AcceptStream(s) \/ ShutdownReturns(s) \/ DropSession(s)
             \/ \E k \in 1 .. MaxStreams :
                  \/ SendBytes(s, k) \/ Close(s, k) \/ SendEvent(s, k) \/ RecvFrame(s, k)
                  \/ DropStream(s, k)
                  \/ \E f \in RawFrames : SendFrame(s, k, f)
    <3>1. UNCHANGED <<calls, control_chan>>
      BY Zenon, <2>5 DEF AcceptStream, SendBytes, Close, SendEvent, RecvFrame, DropStream, SendFrame,
                  ShutdownReturns, DropSession, chanVars
    <3>2. QED
      BY Zenon, <1>2, <2>1, <3>1
  <2>6. QED
    BY Zenon, <1>5, <2>2, <2>3, <2>4, <2>5 DEF App
<1>6. QED
  BY Zenon, <1>3, <1>4, <1>5 DEF Next

LEMMA PassiveNext ==
  ASSUME NEW o \in Side, OneOpener(o), IdInv(o), [Next]_vars
  PROVE  Passive(Peer(o))'
<1> DEFINE q == Peer(o)
           ctl == control_chan[q]
<1>1. /\ TypeOK /\ Passive(q) /\ q \in Side /\ q # o /\ q \notin Openers
      /\ ctl \in Seq(Nat) /\ calls[q] \in Seq(CallStatus)
  BY Zenon, IdTypes DEF IdInv, OneOpener
<1>2. ASSUME Len(calls'[q]) = Len(calls[q]), pc'[q] = "open" => pc[q] = "open",
             \A id \in StreamIds : pending_streams'[q][id] \in {None, pending_streams[q][id]},
             \/ control_chan'[q] = ctl \/ control_chan'[q] = <<>>
             \/ control_chan'[q] = Append(ctl, Shutdown)
             \/ ctl # <<>> /\ control_chan'[q] = Tail(ctl)
      PROVE  Passive(q)'
  <2>1. Len(calls'[q]) = 0 /\ ~Requesting(q)' /\ PendingIds(q)' = {}
    BY Zenon, <1>1, <1>2 DEF Passive, Requesting, PendingIds
  <2>2. \A i \in DOMAIN control_chan'[q] : control_chan'[q][i] = Shutdown
    <3>1. \A i \in DOMAIN ctl : ctl[i] = Shutdown
      BY Zenon, <1>1 DEF Passive
    <3>2. \A i \in DOMAIN Append(ctl, Shutdown) : Append(ctl, Shutdown)[i] = Shutdown
      <4>1. /\ DOMAIN ctl = 1 .. Len(ctl) /\ Len(ctl) \in Nat
            /\ DOMAIN Append(ctl, Shutdown) = 1 .. Len(ctl) + 1
            /\ Append(ctl, Shutdown)[Len(ctl) + 1] = Shutdown
            /\ \A i \in 1 .. Len(ctl) : Append(ctl, Shutdown)[i] = ctl[i]
        BY <1>1, AppendOf, LenOf DEF Shutdown
      <4>2. QED
        BY <3>1, <4>1
    <3>3. ASSUME ctl # <<>>, NEW i \in DOMAIN Tail(ctl) PROVE Tail(ctl)[i] = Shutdown
      <4>1. i + 1 \in DOMAIN ctl /\ Tail(ctl)[i] = ctl[i + 1]
        BY <1>1, <3>3
      <4>2. QED
        BY Zenon, <3>1, <4>1
    <3>4. ctl # <<>> => \A i \in DOMAIN Tail(ctl) : Tail(ctl)[i] = Shutdown
      BY Zenon, <3>3
    <3>5. CASE control_chan'[q] = ctl
      BY Zenon, <3>1, <3>5
    <3>6. CASE control_chan'[q] = <<>>
      BY <3>6
    <3>7. CASE control_chan'[q] = Append(ctl, Shutdown)
      BY Zenon, <3>2, <3>7
    <3>8. CASE ctl # <<>> /\ control_chan'[q] = Tail(ctl)
      BY Zenon, <3>4, <3>8
    <3>9. QED
      BY Zenon, <1>2, <3>5, <3>6, <3>7, <3>8
  <2>3. QED
    BY Zenon, <2>1, <2>2 DEF Passive
<1>3. CASE UNCHANGED vars \/ Sever
  BY Zenon, <1>2, <1>3 DEF vars, Sever, actorVars, chanVars, appVars
<1>4. ASSUME NEW s \in Side, Actor(s) PROVE Passive(q)'
  <2>1. CASE HandleOpen(s)
    <3>1. s = o
      BY Zenon, <2>1, AskStep
    <3>2. /\ pc'[q] = pc[q] /\ pending_streams'[q] = pending_streams[q]
          /\ control_chan'[q] = ctl
      BY Zenon, <1>1, <2>1, <3>1 DEF HandleOpen, TakeCommand, TypeOK
    <3>3. Len(calls'[q]) = Len(calls[q])
      BY Zenon, <1>1, <1>4, ActorCalls
    <3>4. QED
      BY Zenon, <1>2, <3>2, <3>3
  <2>2. CASE ~HandleOpen(s)
    BY Zenon, <1>1, <1>2, <1>4, <2>2, ActorCalls, ActorControl, ActorOpens
  <2>3. QED
    BY Zenon, <2>1, <2>2
<1>5. ASSUME NEW s \in Side, App(s) PROVE Passive(q)'
  <2>1. pc' = pc /\ pending_streams' = pending_streams
    BY Zenon, <1>1, <1>5, AppRecedes DEF actorVars
  <2>2. CASE OpenStream(s)
    <3>1. calls'[q] = calls[q] /\ control_chan'[q] = ctl
      BY Zenon, <1>1, <2>2 DEF OpenStream, TypeOK
    <3>2. QED
      BY Zenon, <1>2, <2>1, <3>1
  <2>3. CASE \E c \in 1 .. MaxOpens : AbandonOpen(s, c)
    <3>1. PICK c \in 1 .. MaxOpens : AbandonOpen(s, c)
      BY Zenon, <2>3
    <3>2. Len([calls[s] EXCEPT ![c] = "abandoned"]) = Len(calls[s])
      BY <1>1, UpdateSeq DEF TypeOK, CallStatus
    <3>3. Len(calls'[q]) = Len(calls[q]) /\ control_chan'[q] = ctl
      BY Zenon, <1>1, <3>1, <3>2 DEF AbandonOpen, chanVars, TypeOK
    <3>4. QED
      BY Zenon, <1>2, <2>1, <3>3
  <2>4. CASE ShutdownSession(s)
    <3>1. calls' = calls /\ (control_chan'[q] = ctl \/ control_chan'[q] = Append(ctl, Shutdown))
      BY Zenon, <1>1, <2>4 DEF ShutdownSession, TypeOK
    <3>2. QED
      BY Zenon, <1>2, <2>1, <3>1
  <2>5. CASE \/ AcceptStream(s) \/ ShutdownReturns(s) \/ DropSession(s)
             \/ \E k \in 1 .. MaxStreams :
                  \/ SendBytes(s, k) \/ Close(s, k) \/ SendEvent(s, k) \/ RecvFrame(s, k)
                  \/ DropStream(s, k)
                  \/ \E f \in RawFrames : SendFrame(s, k, f)
    <3>1. UNCHANGED <<calls, control_chan>>
      BY Zenon, <2>5 DEF AcceptStream, SendBytes, Close, SendEvent, RecvFrame, DropStream, SendFrame,
                  ShutdownReturns, DropSession, chanVars
    <3>2. QED
      BY Zenon, <1>2, <2>1, <3>1
  <2>6. QED
    BY Zenon, <1>5, <2>2, <2>3, <2>4, <2>5 DEF App
<1>6. QED
  BY Zenon, <1>3, <1>4, <1>5 DEF Next

-----------------------------------------------------------------------------
(* The frames of the applications.                                         *)

LEMMA PlainMade == ASSUME NEW o \in Side, OneOpener(o) PROVE Makes(Plain)
<1>1. Opening = {{"REQUEST", "OPEN"}, {"RESPONSE", "OPEN"}}
  BY Zenon DEF Opening, open_request, open_response
<1>2. {} \notin Opening /\ close_request \notin Opening
  BY <1>1 DEF close_request
<1>3. \A id \in StreamIds : /\ \A n \in Nat : Data(id, n) \in Plain
                            /\ Control(id, {}) \in Plain /\ Control(id, close_request) \in Plain
  BY Zenon, <1>2 DEF Plain, Frame, Data, Control, close_request, FlagNames
<1>4. QED
  BY Zenon, <1>3 DEF Makes, OneOpener, Plain

\* A frame for a stream in the table is neither a request nor a response.
LEMMA PlainIncoming ==
  ASSUME NEW o \in Side, IdInv(o), NEW s \in Side, ReceiveForStream(s)
  PROVE  Incoming(s) \in Plain
<1> DEFINE q  == Peer(o)
           f  == Incoming(s)
           id == f.id
<1>1. /\ TypeOK /\ OpenFrames(o) /\ IdLife(o) /\ q \in Side /\ q # o /\ Peer(q) = o
      /\ RoutesToOwnId
  BY Zenon, IdTypes DEF IdInv
<1>2. TakeFrame(s) /\ streams[s][id] # None
  BY Zenon DEF ReceiveForStream
<1>3. f \in Frame /\ id \in StreamIds /\ \E i \in DOMAIN wire[Peer(s)] : wire[Peer(s)][i] = f
  BY Zenon, <1>1, <1>2, IncomingOnWire
<1>4. id \in Ids(s)
  BY Zenon, <1>1, <1>2, <1>3 DEF RoutesToOwnId, Ids
<1>5. CASE s = o
  <2>1. f.flags # open_request
    BY Zenon, <1>1, <1>3, <1>5 DEF OpenFrames
  <2>2. f.flags = open_response => id \in Answered(q)
    BY Zenon, <1>3, <1>5 DEF Answered, LaneIds
  <2>3. id \notin Answered(q)
    BY Zenon, <1>1, <1>4, <1>5 DEF IdLife, Lives
  <2>4. QED
    BY Zenon, <1>3, <2>1, <2>2, <2>3 DEF Plain, Opening
<1>6. CASE s = q
  <2>1. f.flags # open_response
    BY Zenon, <1>1, <1>3, <1>6 DEF OpenFrames
  <2>2. f.flags = open_request => id \in Asked(o)
    BY Zenon, <1>1, <1>3, <1>6 DEF Asked, LaneIds
  <2>3. id \notin Asked(o)
    BY Zenon, <1>1, <1>4, <1>6 DEF IdLife, Lives
  <2>4. QED
    BY Zenon, <1>3, <2>1, <2>2, <2>3 DEF Plain, Opening
<1>7. QED
  BY Zenon, <1>5, <1>6 DEF Side, Peer

-----------------------------------------------------------------------------

LEMMA IdInit == ASSUME NEW o \in Side PROVE Init => IdInv(o)
<1>1. SUFFICES ASSUME Init PROVE IdInv(o)
  BY Zenon
<1>2. TypeOK /\ RoutesToOwnId
  BY Zenon, <1>1, TypeInit, RouteInit
<1>3. \A s \in Side : /\ wire[s] = <<>> /\ pc[s] = "select" /\ control_chan[s] = <<>>
                      /\ event_chan[s] = <<>> /\ calls[s] = <<>> /\ logical[s] = <<>>
                      /\ next_stream_id[s] = First(s) /\ pending_streams[s] = EmptyMap
  BY Zenon, <1>1 DEF Init, First
<1>4. Peer(o) \in Side /\ First(o) \in Nat
  BY Zenon, <1>2, IdTypes
<1>5. Counted(o)
  BY <1>3, <1>4, CapAssumption DEF Counted, Numbers
<1>6. Passive(Peer(o))
  BY <1>3, <1>4, EmptyMapType DEF Passive, Requesting, PendingIds
<1>7. Traffic(Plain)
  BY <1>1, TrafficInit
<1>8. OpenFrames(o)
  BY <1>3, <1>4 DEF OpenFrames, Lane, Requesting, Answering
<1>9. IdLife(o)
  <2>1. /\ Asked(o) = {} /\ Answered(Peer(o)) = {} /\ Ids(o) = {} /\ Ids(Peer(o)) = {}
        /\ PendingIds(o) = {}
    <3>1. DOMAIN wire[o] = {} /\ DOMAIN wire[Peer(o)] = {}
          /\ DOMAIN logical[o] = {} /\ DOMAIN logical[Peer(o)] = {}
      BY <1>3, <1>4
    <3>2. Ids(o) = {} /\ Ids(Peer(o)) = {}
      BY Zenon, <3>1 DEF Ids
    <3>3. PendingIds(o) = {}
      BY Zenon, <1>3, EmptyMapType DEF PendingIds
    <3>4. ~Requesting(o) /\ ~Answering(Peer(o))
      BY Zenon, <1>3, <1>4 DEF Requesting, Answering
    <3>5. QED
      BY Zenon, <3>1, <3>2, <3>3, <3>4 DEF Asked, Answered, LaneIds
  <2>2. QED
    BY <1>3, <2>1 DEF IdLife, Lives
<1>10. QED
  BY Zenon, <1>2, <1>5, <1>6, <1>7, <1>8, <1>9 DEF IdInv

LEMMA IdNext ==
  ASSUME NEW o \in Side, OneOpener(o)
  PROVE  IdInv(o) /\ [Next]_vars => IdInv(o)'
<1>1. SUFFICES ASSUME IdInv(o), [Next]_vars PROVE IdInv(o)'
  BY Zenon
<1>2. TypeOK' /\ RoutesToOwnId'
  BY Zenon, <1>1, TypeNext, RouteNext DEF IdInv
<1>3. Counted(o)' /\ Passive(Peer(o))' /\ OpenFrames(o)' /\ IdLife(o)'
  BY Zenon, <1>1, CountedNext, PassiveNext, LifeNext
<1>4. Traffic(Plain)'
  BY Zenon, <1>1, PlainMade, PlainIncoming, TrafficNext DEF IdInv
<1>5. QED
  BY Zenon, <1>2, <1>3, <1>4 DEF IdInv

LEMMA IdAlways ==
  ASSUME NEW o \in Side, OneOpener(o)
  PROVE  Spec => []IdInv(o)
  BY IdInit, IdNext, PTL DEF Spec

\* As long as only one side opens streams, no more than there are ids, an id that
\* waits for its open response is not in use: session.rs hands out ids that are
\* unique on the connection.  (When both sides open streams they are not.)
THEOREM PendingIdFreshOneOpener ==
  ASSUME NEW o \in Side, OneOpener(o)
  PROVE  Spec => []PendingIdFresh
<1>1. IdInv(o) => PendingIdFresh
  <2>1. SUFFICES ASSUME IdInv(o), NEW s \in Side, NEW id \in StreamIds, pending_streams[s][id] # None
                 PROVE  streams[s][id] = None
    BY Zenon DEF PendingIdFresh
  <2>2. s = o
    <3>1. s # Peer(o)
      BY Zenon, <2>1 DEF IdInv, Passive, PendingIds
    <3>2. QED
      BY <3>1 DEF Side, Peer
  <2>3. id \notin Ids(o)
    BY Zenon, <2>1, <2>2 DEF IdInv, IdLife, Lives, PendingIds
  <2>4. QED
    BY Zenon, <2>1, <2>2, <2>3 DEF IdInv, RoutesToOwnId, Ids
<1>2. QED
  BY <1>1, IdAlways, PTL

-----------------------------------------------------------------------------
(* What a stream knows of the close of its peer.                           *)

Kept == {f \in Frame : f.flags # open_reset}

Knows(l) == l.peer_closed => l.state \in {"RemoteClosing", "Closed"}

\* Neither a request, a response nor a reset comes to a stream, so that nothing
\* it receives takes it back to an earlier state.
LEMMA KnowsRecv ==
  ASSUME NEW l \in LogicalStream, Carries(Plain, l), Carries(Kept, l), l.chan # <<>>, Knows(l)
  PROVE  Knows(AfterRecv(FALSE, l))
<1>1. l.chan \in Seq(Plain) /\ l.chan \in Seq(Kept)
  BY Zenon DEF Carries
<1>2. PICK f : f = Head(l.chan)
  BY Zenon
<1>3. f \in Plain /\ f \in Kept
  BY <1>1, <1>2
<1>4. f.flags \notin {open_request, open_response, open_reset}
  BY Zenon, <1>3 DEF Plain, Kept, Opening
<1>5. DOMAIN l = {"id", "by", "state", "rx", "chan", "out", "sent", "got", "closes", "peer_closed"}
  BY Zenon DEF LogicalStream
<1>6. /\ AfterRecv(FALSE, l).state = StreamStateFromFlags(l.state, f.flags)
      /\ AfterRecv(FALSE, l).peer_closed = (l.peer_closed \/ f.flags = close_request)
  BY Zenon, <1>2, <1>5 DEF AfterRecv, set_state_from_flags
<1>7. /\ f.flags = close_request => StreamStateFromFlags(l.state, f.flags) = "RemoteClosing"
      /\ f.flags # close_request => StreamStateFromFlags(l.state, f.flags) \in {"Closed", l.state}
  <2>1. close_request # close_response
    BY DEF close_request, close_response
  <2>2. CASE f.flags = close_request
    BY <2>1, <2>2 DEF StreamStateFromFlags
  <2>3. CASE f.flags # close_request
    <3>1. ReaderStateFromFlags(l.state, f.flags) = l.state
      BY <1>4 DEF ReaderStateFromFlags
    <3>2. QED
      BY <2>3, <3>1 DEF StreamStateFromFlags
  <2>4. QED
    BY Zenon, <2>2, <2>3
<1>8. QED
  BY Zenon, <1>6, <1>7 DEF Knows

LEMMA KnowsOps ==
  ASSUME NEW l \in LogicalStream, Knows(l)
  PROVE  /\ Knows(Dropped(l)) /\ Knows(AfterClose(l)) /\ Knows([l EXCEPT !.rx = "held"])
         /\ \A out : Knows([l EXCEPT !.out = out])
         /\ \A chan : Knows([l EXCEPT !.chan = chan])
         /\ Knows(AfterSend(l))
<1>1. DOMAIN l = {"id", "by", "state", "rx", "chan", "out", "sent", "got", "closes", "peer_closed"}
  BY Zenon DEF LogicalStream
<1>2. l.peer_closed => StateAfterClose(l.state) = "Closed"
  BY DEF Knows, StateAfterClose
<1>3. QED
  BY Zenon, <1>1, <1>2 DEF Knows, Dropped, AfterClose, AfterSend

LEMMA KnowsUpdate ==
  ASSUME TypeOK, NEW s \in Side, \A k \in DOMAIN logical[s] : Knows(logical[s][k]), NEW k, NEW l,
         k \in DOMAIN logical[s] => Knows(l),
         logical' = [logical EXCEPT ![s] = [logical[s] EXCEPT ![k] = l]]
  PROVE  \A j \in DOMAIN logical'[s] : Knows(logical'[s][j])
  BY Zenon DEF TypeOK

LEMMA KnowsActor ==
  ASSUME TypeOK, NEW s \in Side, \A k \in DOMAIN logical[s] : Knows(logical[s][k]), Actor(s)
  PROVE  \A k \in DOMAIN logical'[s] : Knows(logical'[s][k])
<1> DEFINE k == streams[s][cur[s].id]
           l == [logical[s][k] EXCEPT !.chan = Append(@, cur[s])]
<1>1. CASE ReceiveOpenRequest(s) \/ ReceiveOpenResponse(s)
  <2>1. PICK m : logical' = [logical EXCEPT ![s] = Append(@, m)] /\ m.peer_closed = FALSE
    <3>1. ASSUME NEW id, NEW by, NEW rx, Register(s, id, NewStream(id, by, rx))
          PROVE  \E m : logical' = [logical EXCEPT ![s] = Append(@, m)] /\ m.peer_closed = FALSE
      <4>1. NewStream(id, by, rx).peer_closed = FALSE
        BY DEF NewStream
      <4>2. QED
        BY Zenon, <3>1, <4>1 DEF Register
    <3>2. ReceiveOpenRequest(s) =>
            Register(s, Incoming(s).id, NewStream(Incoming(s).id, "accept", "offered"))
      BY Zenon DEF ReceiveOpenRequest
    <3>3. ReceiveOpenResponse(s) => \E rx :
            Register(s, Incoming(s).id, NewStream(Incoming(s).id, "open", rx))
      BY Zenon DEF ReceiveOpenResponse
    <3>4. QED
      BY Zenon, <1>1, <3>1, <3>2, <3>3
  <2>2. logical[s] \in Seq(LogicalStream) /\ logical'[s] = Append(logical[s], m)
    BY Zenon, <2>1 DEF TypeOK
  <2>3. \A j \in DOMAIN Append(logical[s], m) :
          \/ j \in DOMAIN logical[s] /\ Append(logical[s], m)[j] = logical[s][j]
          \/ Append(logical[s], m)[j] = m
    BY <2>2
  <2>4. Knows(m)
    BY Zenon, <2>1 DEF Knows
  <2>5. QED
    BY Zenon, <2>2, <2>3, <2>4
<1>2. CASE Deliver(s)
  <2>1. UNCHANGED logical \/ logical' = [logical EXCEPT ![s] = [logical[s] EXCEPT ![k] = l]]
    BY Zenon, <1>2 DEF Deliver
  <2>2. k \in DOMAIN logical[s] => Knows(l)
    BY Zenon, StreamOf, KnowsOps
  <2>3. QED
    BY Zenon, <2>1, <2>2, KnowsUpdate
<1>3. CASE Offer(s) \/ CloseWriter(s) \/ Abort(s)
  <2>1. \/ UNCHANGED logical
        \/ logical' = [logical EXCEPT ![s] = [logical[s] EXCEPT ![k] = Dropped(logical[s][k])]]
    BY Zenon, <1>3 DEF Offer, CloseWriter, Abort
  <2>2. k \in DOMAIN logical[s] => Knows(Dropped(logical[s][k]))
    BY Zenon, StreamOf, KnowsOps
  <2>3. QED
    BY Zenon, <2>1, <2>2, KnowsUpdate
<1>4. CASE \/ ReceiveForStream(s) \/ ReceiveOpenReset(s) \/ ReceiveStray(s) \/ ReadError(s)
           \/ HandleOpen(s) \/ HandleShutdown(s) \/ HandleFrameEvent(s) \/ HandleClosedEvent(s)
           \/ WriteOk(s) \/ WriteError(s) \/ HandleCancel(s)
  BY Zenon, <1>4 DEF ReceiveForStream, ReceiveOpenReset, ReceiveStray, ReadError, HandleOpen,
     HandleShutdown, HandleFrameEvent, HandleClosedEvent, WriteOk, WriteError, HandleCancel, appVars
<1>5. QED
  BY Zenon, <1>1, <1>2, <1>3, <1>4 DEF Actor

LEMMA KnowsApp ==
  ASSUME TypeOK, Traffic(Plain), Traffic(Kept), NEW s \in Side, s \notin Splitters,
         \A k \in DOMAIN logical[s] : Knows(logical[s][k]), App(s)
  PROVE  \A k \in DOMAIN logical'[s] : Knows(logical'[s][k])
<1>1. \A k \in DOMAIN logical[s] :
        /\ logical[s][k] \in LogicalStream /\ Knows(logical[s][k])
        /\ Carries(Plain, logical[s][k]) /\ Carries(Kept, logical[s][k])
  BY Zenon, StreamOf DEF Traffic
<1>2. CASE \/ OpenStream(s) \/ ShutdownSession(s) \/ ShutdownReturns(s)
           \/ \E c \in 1 .. MaxOpens : AbandonOpen(s, c)
  BY Zenon, <1>2 DEF OpenStream, ShutdownSession, ShutdownReturns, AbandonOpen
<1>3. CASE AcceptStream(s)
  <2> DEFINE k == Head(stream_chan[s])
             l == [logical[s][k] EXCEPT !.rx = "held"]
  <2>1. logical' = [logical EXCEPT ![s] = [logical[s] EXCEPT ![k] = l]]
    BY Zenon, <1>3 DEF AcceptStream
  <2>2. k \in DOMAIN logical[s] => Knows(l)
    BY Zenon, <1>1, KnowsOps
  <2>3. QED
    BY Zenon, <2>1, <2>2, KnowsUpdate
<1>4. CASE DropSession(s)
  <2>1. \A k \in DOMAIN logical'[s] :
          k \in DOMAIN logical[s] /\ logical'[s][k] \in {logical[s][k], Dropped(logical[s][k])}
    BY Zenon, <1>4 DEF DropSession, TypeOK
  <2>2. QED
    BY Zenon, <1>1, <2>1, KnowsOps
<1>5. ASSUME NEW k, \/ SendBytes(s, k) \/ Close(s, k) \/ RecvFrame(s, k) \/ DropStream(s, k)
                    \/ SendEvent(s, k) \/ \E f \in RawFrames : SendFrame(s, k, f)
      PROVE  \A j \in DOMAIN logical'[s] : Knows(logical'[s][j])
  <2>1. PICK l : l = logical[s][k]
    BY Zenon
  <2>2. /\ k \in DOMAIN logical[s]
        /\ l \in LogicalStream /\ Knows(l) /\ Carries(Plain, l) /\ Carries(Kept, l)
    BY Zenon, <1>1, <1>5, <2>1 DEF SendBytes, Close, RecvFrame, DropStream, SendEvent, SendFrame, Idle
  <2>3. PICK m : logical' = [logical EXCEPT ![s] = [logical[s] EXCEPT ![k] = m]] /\ Knows(m)
    <3>1. CASE SendBytes(s, k) \/ \E f \in RawFrames : SendFrame(s, k, f)
      <4>1. \E out : logical' = [logical EXCEPT ![s] = [logical[s] EXCEPT ![k] = [l EXCEPT !.out = out]]]
        BY Zenon, <2>1, <3>1 DEF SendBytes, SendFrame
      <4>2. QED
        BY Zenon, <2>2, <4>1, KnowsOps
    <3>2. CASE Close(s, k)
      BY Zenon, <2>1, <2>2, <3>2, KnowsOps DEF Close
    <3>3. CASE DropStream(s, k)
      BY Zenon, <2>1, <2>2, <3>3, KnowsOps DEF DropStream
    <3>4. CASE SendEvent(s, k)
      BY Zenon, <2>1, <2>2, <3>4, KnowsOps DEF SendEvent
    <3>5. CASE RecvFrame(s, k)
      <4>1. /\ logical' = [logical EXCEPT ![s] = [logical[s] EXCEPT ![k] = AfterRecv(s \in Splitters, l)]]
            /\ l.chan # <<>>
        BY Zenon, <2>1, <3>5 DEF RecvFrame
      <4>2. (s \in Splitters) = FALSE
        OBVIOUS
      <4>3. QED
        BY Zenon, <2>2, <4>1, <4>2, KnowsRecv
    <3>6. QED
      BY Zenon, <1>5, <3>1, <3>2, <3>3, <3>4, <3>5
  <2>4. QED
    BY Zenon, <2>2, <2>3, KnowsUpdate
<1>6. QED
  BY Zenon, <1>2, <1>3, <1>4, <1>5 DEF App

\* A stream that was not split and has returned the peer's close request is in a
\* state that says so, as long as only one side opens streams and no application
\* makes up an open reset: no late or repeated frame takes the state back.
THEOREM RemoteCloseObservedOneOpener ==
  ASSUME NEW o \in Side, OneOpener(o), \A f \in RawFrames : f.flags # open_reset
  PROVE  Spec => []RemoteCloseObserved
<1> DEFINE Inv == Made(Kept) /\ IdInv(o)
<1>1. Makes(Kept) /\ Opens(Kept)
  <2>1. \A id \in StreamIds : \A n \in Nat : Data(id, n) \in Kept
    BY DEF Kept, Data, Frame, open_reset
  <2>2. \A flags \in {{}, open_request, open_response, close_request} : flags # open_reset
    BY DEF open_request, open_response, close_request, open_reset
  <2>3. \A id \in StreamIds : \A flags \in {{}, open_request, open_response, close_request} :
          Control(id, flags) \in Kept
    BY Zenon, <2>2, ControlType DEF Kept, Control
  <2>4. RawFrames \subseteq Kept /\ Kept \subseteq Frame
    BY ScenarioAssumption DEF Kept
  <2>5. QED
    BY Zenon, <2>1, <2>3, <2>4 DEF Makes, Opens
<1>2. Init => Inv /\ RemoteCloseObserved
  <2>1. Init => \A s \in Side : DOMAIN logical[s] = {}
    BY DEF Init
  <2>2. QED
    BY Zenon, <2>1, IdInit, MadeInit DEF RemoteCloseObserved
<1>3. Inv /\ [Next]_vars => Inv'
  BY Zenon, <1>1, IdNext, MadeNext
<1>4. Inv /\ RemoteCloseObserved /\ [Next]_vars => RemoteCloseObserved'
  <2>1. SUFFICES ASSUME Inv, RemoteCloseObserved, [Next]_vars PROVE RemoteCloseObserved'
    OBVIOUS
  <2>2. TypeOK /\ Traffic(Plain) /\ Traffic(Kept)
    BY Zenon, <2>1 DEF Made, IdInv
  <2>3. \A t \in Side : t \notin Splitters => \A k \in DOMAIN logical[t] : Knows(logical[t][k])
    BY Zenon, <2>1 DEF RemoteCloseObserved, Knows
  <2>4. SUFFICES ASSUME NEW t \in Side, t \notin Splitters
                 PROVE  \A k \in DOMAIN logical'[t] : Knows(logical'[t][k])
    BY Zenon DEF RemoteCloseObserved, Knows
  <2>5. CASE UNCHANGED vars \/ Sever
    <3>1. UNCHANGED logical
      BY Zenon, <2>5 DEF vars, Sever, appVars
    <3>2. QED
      BY Zenon, <2>3, <2>4, <3>1
  <2>6. ASSUME NEW s \in Side, Actor(s) \/ App(s)
        PROVE  \A k \in DOMAIN logical'[t] : Knows(logical'[t][k])
    <3>1. CASE t = s
      BY Zenon, <2>2, <2>3, <2>4, <2>6, <3>1, KnowsActor, KnowsApp
    <3>2. CASE t # s
      <4>1. Local(s)
        BY Zenon, <2>2, <2>6, ActorLocal, AppLocal
      <4>2. QED
        BY Zenon, <2>3, <2>4, <3>2, <4>1 DEF Local
    <3>3. QED
      BY Zenon, <3>1, <3>2
  <2>7. QED
    BY Zenon, <2>1, <2>5, <2>6 DEF Next
<1>5. QED
  BY <1>2, <1>3, <1>4, PTL DEF Spec
=============================================================================
