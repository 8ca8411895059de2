---------------------------- MODULE MuxOpenProofs ----------------------------
(***************************************************************************)
(* What becomes of an open_stream call, for every scenario of MuxSession:  *)
(* while it waits, exactly one place of a live actor knows of it.          *)
(***************************************************************************)
EXTENDS MuxSessionProofs

\* The calls that commands and reply channels stand for have been made.
CallsKnown ==
  \A s \in Side :
    /\ \A i \in DOMAIN control_chan[s] : control_chan[s][i] <= Len(calls[s])
    /\ \A id \in StreamIds : pending_streams[s][id] <= Len(calls[s])

\* The inductive invariant.
OpenInv == TypeOK /\ OpenAccounted /\ ServedOnce /\ CallsKnown

LEMMA ReplyEffect ==
  ASSUME TypeOK, NEW s \in Side, NEW c, NEW r \in CallStatus \ {"waiting"},
         NEW t \in Side, NEW d \in DOMAIN Reply(s, c, r)[t]
  PROVE  /\ d \in DOMAIN calls[t]
         /\ Reply(s, c, r)[t][d] = "waiting" => calls[t][d] = "waiting" /\ ~(t = s /\ d = c)
  BY Zenon DEF Reply, TypeOK

LEMMA CallIndex ==
  ASSUME TypeOK, NEW s \in Side
  PROVE  Len(calls[s]) \in Nat /\ DOMAIN calls[s] = 1 .. Len(calls[s])
  BY Zenon, LenOf DEF TypeOK

LEMMA ControlNat ==
  ASSUME TypeOK, NEW s \in Side, NEW i \in DOMAIN control_chan[s]
  PROVE  control_chan[s][i] \in Nat
<1>1. control_chan[s] \in Seq(Nat)
  BY Zenon DEF TypeOK
<1>2. QED
  BY Zenon, <1>1, ElementOf, LenOf

\* Steps that leave the calls, the commands and the reply channels alone, and
\* do not end an actor.
LEMMA OpenFrame ==
  ASSUME OpenInv, TypeOK', UNCHANGED <<calls, control_chan, pending_streams>>,
         \A s \in Side : pc[s] # "finished" => pc'[s] # "finished"
  PROVE  OpenInv'
  BY DEF OpenInv, OpenAccounted, ServedOnce, OneServer, CallsKnown, Queued, Pending

\* Tail of a queue: its elements are those of the queue, one place further.
LEMMA TailElements ==
  ASSUME NEW T, NEW q \in Seq(T), q # <<>>
  PROVE  /\ Len(Tail(q)) = Len(q) - 1 /\ Len(q) \in Nat /\ Len(q) > 0
         /\ DOMAIN q = 1 .. Len(q) /\ DOMAIN Tail(q) = 1 .. Len(q) - 1
         /\ \A i \in DOMAIN Tail(q) : i + 1 \in DOMAIN q /\ Tail(q)[i] = q[i + 1]
         /\ \A i \in DOMAIN q : i # 1 => i - 1 \in DOMAIN Tail(q) /\ Tail(q)[i - 1] = q[i]
         /\ Head(q) = q[1]
<1>1. /\ Len(q) \in Nat /\ Len(q) > 0 /\ DOMAIN q = 1 .. Len(q)
      /\ Tail(q) \in Seq(T) /\ Len(Tail(q)) = Len(q) - 1 /\ Head(q) = q[1]
  BY LenOf, HeadTail, EmptyOf
<1>2. DOMAIN Tail(q) = 1 .. Len(q) - 1
  BY Zenon, <1>1, LenOf
<1>3. \A i \in 1 .. Len(q) - 1 : Tail(q)[i] = q[i + 1]
  BY Zenon, <1>1, HeadTail
<1>4. QED
  BY <1>1, <1>2, <1>3

\* A step in which outcomes only become final, and no new place knows of a call.
LEMMA OpenSettle ==
  ASSUME OpenInv, TypeOK', NEW s \in Side, NEW c, NEW r \in CallStatus \ {"waiting"},
         calls' = Reply(s, c, r)
  PROVE  /\ \A t \in Side : Len(calls'[t]) = Len(calls[t]) /\ DOMAIN calls'[t] = DOMAIN calls[t]
         /\ \A t \in Side : \A d \in DOMAIN calls'[t] :
              calls'[t][d] = "waiting" => calls[t][d] = "waiting" /\ ~(t = s /\ d = c)
<1>1. TypeOK
  BY Zenon DEF OpenInv
<1>2. \A t \in Side : Len(calls'[t]) = Len(calls[t])
  BY <1>1, ReplyType
<1>3. \A t \in Side : DOMAIN calls'[t] = DOMAIN calls[t]
  BY <1>1, <1>2, LenOf DEF TypeOK
<1>4. QED
  BY <1>1, <1>2, <1>3, ReplyEffect

\* The peer answers: the reply channel leaves pending_streams and is used.
LEMMA OpenAnswered ==
  ASSUME OpenInv, TypeOK', NEW s \in Side, NEW id \in StreamIds,
         NEW r \in CallStatus \ {"waiting"},
         pending_streams' = [pending_streams EXCEPT ![s][id] = None],
         calls' = Reply(s, pending_streams[s][id], r),
         UNCHANGED <<pc, control_chan>>
  PROVE  OpenInv'
<1>1. TypeOK /\ OpenAccounted /\ ServedOnce /\ CallsKnown
  BY Zenon DEF OpenInv
<1>2. /\ \A t \in Side : Len(calls'[t]) = Len(calls[t]) /\ DOMAIN calls'[t] = DOMAIN calls[t]
      /\ \A t \in Side : \A d \in DOMAIN calls'[t] :
           calls'[t][d] = "waiting" =>
             calls[t][d] = "waiting" /\ ~(t = s /\ d = pending_streams[s][id])
  BY Zenon, OpenSettle
<1>3. \A t \in Side : \A i \in StreamIds :
        /\ ~(t = s /\ i = id) => pending_streams'[t][i] = pending_streams[t][i]
        /\ t = s /\ i = id => pending_streams'[t][i] = None
  BY ZenonT(60), <1>1 DEF TypeOK
<1>4. OpenAccounted'
  BY <1>1, <1>2, <1>3 DEF OpenAccounted, Queued, Pending
<1>5. ServedOnce'
  BY <1>1, <1>3 DEF ServedOnce, OneServer
<1>6. CallsKnown'
  BY <1>1, <1>2, <1>3, CallIndex DEF CallsKnown, None
<1>7. QED
  BY Zenon, <1>4, <1>5, <1>6 DEF OpenInv

LEMMA OpenReceive ==
  ASSUME OpenInv, TypeOK', NEW s \in Side
  PROVE  /\ ReceiveOpenResponse(s) => OpenInv'
         /\ ReceiveOpenReset(s) => OpenInv'
<1>1. TypeOK
  BY Zenon DEF OpenInv
<1>2. ASSUME TakeFrame(s) PROVE Incoming(s).id \in StreamIds /\ UNCHANGED control_chan
  BY Zenon, <1>1, <1>2, IncomingType DEF TakeFrame, chanVars
<1>3. ASSUME ReceiveOpenResponse(s) PROVE OpenInv'
  <2>1. UNCHANGED pc /\ TakeFrame(s)
    BY Zenon, <1>3 DEF ReceiveOpenResponse, Register
  <2>2. QED
    BY Zenon, <1>2, <1>3, <2>1, OpenAnswered DEF ReceiveOpenResponse, Register, CallStatus
<1>4. ASSUME ReceiveOpenReset(s) PROVE OpenInv'
  <2>1. UNCHANGED pc /\ TakeFrame(s)
    BY Zenon, <1>4 DEF ReceiveOpenReset
  <2>2. QED
    BY Zenon, <1>2, <1>4, <2>1, OpenAnswered DEF ReceiveOpenReset, CallStatus
<1>5. QED
  BY Zenon, <1>3, <1>4

\* The command becomes a reply channel under the next id; the sender an earlier
\* call left under that id after the ids have wrapped around is dropped.
LEMMA OpenHandle ==
  ASSUME OpenInv, TypeOK', NEW s \in Side, HandleOpen(s)
  PROVE  OpenInv'
<1> DEFINE q  == control_chan[s]
           c  == Head(q)
           id == next_stream_id[s]
<1>1. TypeOK /\ OpenAccounted /\ ServedOnce /\ CallsKnown
  BY Zenon DEF OpenInv
<1>2. q \in Seq(Nat) /\ q # <<>> /\ id \in StreamIds /\ c # Shutdown
  BY Zenon, <1>1 DEF HandleOpen, TakeCommand, TypeOK
<1>3. /\ DOMAIN q = 1 .. Len(q) /\ Len(q) \in Nat /\ Len(q) > 0 /\ c = q[1]
      /\ \A i \in DOMAIN Tail(q) : i \in Nat /\ i + 1 \in DOMAIN q /\ Tail(q)[i] = q[i + 1]
      /\ \A i \in DOMAIN q : i # 1 => i - 1 \in DOMAIN Tail(q) /\ Tail(q)[i - 1] = q[i]
  BY SMTT(60), <1>2, TailElements
<1>4. /\ control_chan'[s] = Tail(q)
      /\ \A t \in Side : t # s => control_chan'[t] = control_chan[t]
  BY SMTT(60), <1>1 DEF HandleOpen, TakeCommand, TypeOK
<1>5. /\ pending_streams'[s][id] = c
      /\ \A t \in Side : \A i \in StreamIds :
           ~(t = s /\ i = id) => pending_streams'[t][i] = pending_streams[t][i]
  BY SMTT(60), <1>1, <1>2 DEF HandleOpen, TakeCommand, TypeOK
<1>6. /\ \A t \in Side : Len(calls'[t]) = Len(calls[t]) /\ DOMAIN calls'[t] = DOMAIN calls[t]
      /\ \A t \in Side : \A d \in DOMAIN calls'[t] :
           calls'[t][d] = "waiting" =>
             calls[t][d] = "waiting" /\ ~(t = s /\ d = pending_streams[s][id])
  <2>1. CASE pending_streams[s][id] = None
    <3>1. calls' = calls
      BY Zenon, <2>1 DEF HandleOpen, TakeCommand
    <3>2. \A d \in DOMAIN calls[s] : d # None
      BY SMTT(60), <1>1, CallIndex DEF None
    <3>3. QED
      BY Zenon, <2>1, <3>1, <3>2
  <2>2. CASE pending_streams[s][id] # None
    <3>1. calls' = Reply(s, pending_streams[s][id], "err")
      BY SMTT(60), <2>2 DEF HandleOpen, TakeCommand
    <3>2. QED
      BY Zenon, <3>1, OpenSettle DEF CallStatus
  <2>3. QED
    BY Zenon, <2>1, <2>2
<1>7. \A t \in Side : pc'[t] = "finished" => pc[t] = "finished"
  BY Zenon, <1>1 DEF HandleOpen, TakeCommand, TypeOK
<1>8. OpenAccounted'
  <2>1. SUFFICES ASSUME NEW t \in Side, NEW d \in DOMAIN calls'[t], calls'[t][d] = "waiting"
                 PROVE  pc'[t] # "finished" /\ (Queued(t, d)' \/ Pending(t, d)')
    BY Zenon DEF OpenAccounted
  <2>2. /\ d \in DOMAIN calls[t] /\ calls[t][d] = "waiting"
        /\ ~(t = s /\ d = pending_streams[s][id])
    BY Zenon, <1>6, <2>1
  <2>3. pc'[t] # "finished" /\ (Queued(t, d) \/ Pending(t, d))
    BY Zenon, <1>1, <1>7, <2>2 DEF OpenAccounted
  <2>4. CASE Pending(t, d)
    BY Zenon, <1>5, <2>2, <2>3, <2>4 DEF Pending
  <2>5. CASE Queued(t, d)
    <3>1. PICK i \in DOMAIN control_chan[t] : control_chan[t][i] = d
      BY Zenon, <2>5 DEF Queued
    <3>2. CASE t # s
      BY SMTT(60), <1>4, <2>3, <3>1, <3>2 DEF Queued
    <3>3. CASE t = s /\ i = 1
      BY <1>2, <1>3, <1>5, <2>3, <3>1, <3>3 DEF Pending
    <3>4. CASE t = s /\ i # 1
      <4>1. i - 1 \in DOMAIN control_chan'[t] /\ control_chan'[t][i - 1] = d
        BY Zenon, <1>3, <1>4, <3>1, <3>4
      <4>2. QED
        BY Zenon, <2>3, <4>1 DEF Queued
    <3>5. QED
      BY Zenon, <3>2, <3>3, <3>4
  <2>6. QED
    BY Zenon, <2>3, <2>4, <2>5
<1>9. ServedOnce'
  <2>1. \A i, j \in DOMAIN Tail(q) : Tail(q)[i] = Tail(q)[j] /\ Tail(q)[i] # Shutdown => i = j
    <3>1. \A i, j \in DOMAIN q : q[i] = q[j] /\ q[i] # Shutdown => i = j
      BY Zenon, <1>1 DEF ServedOnce, OneServer
    <3>2. \A i, j \in DOMAIN Tail(q) :
            Tail(q)[i] = Tail(q)[j] /\ Tail(q)[i] # Shutdown => i + 1 = j + 1
      BY <1>3, <3>1
    <3>3. QED
      BY <1>3, <3>2
  <2>2. \A j \in StreamIds : pending_streams[s][j] # c
    BY <1>1, <1>2, <1>3 DEF ServedOnce, OneServer, None, Shutdown
  <2>3. \A i \in DOMAIN Tail(q) : Tail(q)[i] # c
    <3>1. \A i, j \in DOMAIN q : q[i] = q[j] /\ q[i] # Shutdown => i = j
      BY Zenon, <1>1 DEF ServedOnce, OneServer
    <3>2. 1 \in DOMAIN q
      BY <1>3
    <3>3. \A i \in DOMAIN Tail(q) : Tail(q)[i] = c => i + 1 = 1
      BY Zenon, <1>2, <1>3, <3>1, <3>2
    <3>4. DOMAIN Tail(q) = 1 .. Len(q) - 1
      BY Zenon, <1>2, TailElements
    <3>5. QED
      BY <1>3, <3>3, <3>4
  <2>4. \A i \in DOMAIN Tail(q), j \in StreamIds :
          Tail(q)[i] = pending_streams[s][j] => pending_streams[s][j] = None
    BY <1>1, <1>3 DEF ServedOnce, OneServer
  <2>5. \A i, j \in StreamIds :
          pending_streams'[s][i] = pending_streams'[s][j]
            /\ pending_streams'[s][i] # None => i = j
    BY <1>1, <1>5, <2>2 DEF ServedOnce, OneServer
  <2>6. \A i \in DOMAIN Tail(q), j \in StreamIds :
          Tail(q)[i] = pending_streams'[s][j] => pending_streams'[s][j] = None
    BY Zenon, <1>5, <2>3, <2>4
  <2>7. \A i, j \in DOMAIN control_chan'[s] :
          control_chan'[s][i] = control_chan'[s][j]
            /\ control_chan'[s][i] # Shutdown => i = j
    BY Zenon, <1>4, <2>1
  <2>8. \A i \in DOMAIN control_chan'[s], j \in StreamIds :
          control_chan'[s][i] = pending_streams'[s][j] => pending_streams'[s][j] = None
    BY Zenon, <1>4, <2>6
  <2>9. OneServer(s)'
    BY Zenon, <2>5, <2>7, <2>8 DEF OneServer
  <2>10. \A t \in Side : t # s => OneServer(t)'
    BY <1>1, <1>4, <1>5 DEF ServedOnce, OneServer
  <2>11. QED
    BY Zenon, <2>9, <2>10 DEF ServedOnce
<1>10. CallsKnown'
  <2>1. SUFFICES ASSUME NEW t \in Side
                 PROVE  /\ \A i \in DOMAIN control_chan'[t] : control_chan'[t][i] <= Len(calls'[t])
                        /\ \A i \in StreamIds : pending_streams'[t][i] <= Len(calls'[t])
    BY Zenon DEF CallsKnown
  <2>2. c <= Len(calls[s])
    BY <1>1, <1>3 DEF CallsKnown
  <2>3. \A i \in StreamIds : pending_streams'[t][i] <= Len(calls'[t])
    BY <1>1, <1>5, <1>6, <2>2 DEF CallsKnown
  <2>4. \A i \in DOMAIN Tail(q) : Tail(q)[i] <= Len(calls[s])
    BY Zenon, <1>1, <1>3 DEF CallsKnown
  <2>5. \A i \in DOMAIN control_chan'[t] : control_chan'[t][i] <= Len(calls'[t])
    <3>1. CASE t = s
      BY <1>4, <1>6, <2>4, <3>1, Zenon
    <3>2. CASE t # s
      BY SMTT(60), <1>1, <1>4, <1>6, <3>2 DEF CallsKnown
    <3>3. QED
      BY Zenon, <3>1, <3>2
  <2>6. QED
    BY Zenon, <2>3, <2>5
<1>11. QED
  BY Zenon, <1>8, <1>9, <1>10 DEF OpenInv

LEMMA OpenHandleShutdown ==
  ASSUME OpenInv, TypeOK', NEW s \in Side, HandleShutdown(s)
  PROVE  OpenInv'
<1> DEFINE q == control_chan[s]
<1>1. TypeOK /\ OpenAccounted /\ ServedOnce /\ CallsKnown
  BY Zenon DEF OpenInv
<1>2. q \in Seq(Nat) /\ q # <<>> /\ Head(q) = Shutdown
  BY SMTT(60), <1>1 DEF HandleShutdown, TakeCommand, TypeOK
<1>3. /\ DOMAIN q = 1 .. Len(q) /\ Len(q) \in Nat /\ q[1] = Shutdown
      /\ DOMAIN Tail(q) = 1 .. Len(q) - 1
      /\ \A i \in DOMAIN Tail(q) : i \in Nat /\ i + 1 \in DOMAIN q /\ Tail(q)[i] = q[i + 1]
      /\ \A i \in DOMAIN q : i # 1 => i - 1 \in DOMAIN Tail(q) /\ Tail(q)[i - 1] = q[i]
  BY SMTT(60), <1>2, TailElements
<1>4. /\ control_chan'[s] = Tail(q)
      /\ \A t \in Side : t # s => control_chan'[t] = control_chan[t]
      /\ UNCHANGED <<pc, calls, pending_streams>>
  BY <1>1 DEF HandleShutdown, TakeCommand, TypeOK
<1>5. \A t \in Side, d \in Nat : d # Shutdown /\ Queued(t, d) => Queued(t, d)'
  <2>1. SUFFICES ASSUME NEW t \in Side, NEW d \in Nat, d # Shutdown, Queued(t, d)
                 PROVE  Queued(t, d)'
    BY Zenon
  <2>2. PICK i \in DOMAIN control_chan[t] : control_chan[t][i] = d
    BY Zenon, <2>1 DEF Queued
  <2>3. CASE t # s
    BY Zenon, <1>4, <2>2, <2>3 DEF Queued
  <2>4. CASE t = s
    <3>1. i - 1 \in DOMAIN control_chan'[t] /\ control_chan'[t][i - 1] = d
      BY Zenon, <1>3, <1>4, <2>1, <2>2, <2>4
    <3>2. QED
      BY Zenon, <3>1 DEF Queued
  <2>5. QED
    BY Zenon, <2>3, <2>4
<1>6. OpenAccounted'
  <2>1. \A t \in Side : \A d \in DOMAIN calls[t] : d \in Nat /\ d # Shutdown
    BY <1>1, CallIndex DEF Shutdown
  <2>2. QED
    BY <1>1, <1>4, <1>5, <2>1 DEF OpenAccounted, Pending
<1>7. ServedOnce'
  <2>1. \A i, j \in DOMAIN Tail(q) : Tail(q)[i] = Tail(q)[j] /\ Tail(q)[i] # Shutdown => i = j
    <3>1. \A i, j \in DOMAIN q : q[i] = q[j] /\ q[i] # Shutdown => i = j
      BY Zenon, <1>1 DEF ServedOnce, OneServer
    <3>2. \A i, j \in DOMAIN Tail(q) :
            Tail(q)[i] = Tail(q)[j] /\ Tail(q)[i] # Shutdown => i + 1 = j + 1
      BY <1>3, <3>1
    <3>3. QED
      BY SMTT(60), <1>3, <3>2
  <2>2. \A i \in DOMAIN Tail(q), j \in StreamIds :
          Tail(q)[i] = pending_streams[s][j] => pending_streams[s][j] = None
    BY <1>1, <1>3 DEF ServedOnce, OneServer
  <2>3. \A i, j \in DOMAIN control_chan'[s] :
          control_chan'[s][i] = control_chan'[s][j] /\ control_chan'[s][i] # Shutdown => i = j
    BY Zenon, <1>4, <2>1
  <2>4. \A i \in DOMAIN control_chan'[s], j \in StreamIds :
          control_chan'[s][i] = pending_streams[s][j] => pending_streams[s][j] = None
    BY Zenon, <1>4, <2>2
  <2>5. \A i, j \in StreamIds :
          pending_streams[s][i] = pending_streams[s][j] /\ pending_streams[s][i] # None => i = j
    BY Zenon, <1>1 DEF ServedOnce, OneServer
  <2>6. OneServer(s)'
    BY SMTT(60), <1>4, <2>3, <2>4, <2>5 DEF OneServer
  <2>7. \A t \in Side : t # s => OneServer(t)'
    BY <1>1, <1>4 DEF ServedOnce, OneServer
  <2>8. QED
    BY Zenon, <2>6, <2>7 DEF ServedOnce
<1>8. CallsKnown'
  <2>1. \A i \in DOMAIN Tail(q) : Tail(q)[i] <= Len(calls[s])
    BY Zenon, <1>1, <1>3 DEF CallsKnown
  <2>2. \A i \in DOMAIN control_chan'[s] : control_chan'[s][i] <= Len(calls[s])
    BY Zenon, <1>4, <2>1
  <2>3. QED
    BY Zenon, <1>1, <1>4, <2>2 DEF CallsKnown
<1>9. QED
  BY Zenon, <1>6, <1>7, <1>8 DEF OpenInv

\* The caller of an open request that could not be written gets an error.
LEMMA OpenWriteError ==
  ASSUME OpenInv, TypeOK', NEW s \in Side, WriteError(s)
  PROVE  OpenInv'
<1>1. TypeOK /\ OpenAccounted /\ ServedOnce /\ CallsKnown
  BY Zenon DEF OpenInv
<1>2. /\ \A t \in Side : pc[t] # "finished" => pc'[t] # "finished"
      /\ UNCHANGED <<control_chan, pending_streams>>
  <2>1. pc' = [pc EXCEPT ![s] = "select"] \/ pc' = [pc EXCEPT ![s] = "closing"]
    BY SMTT(60) DEF WriteError, Break
  <2>2. QED
    BY ZenonT(60), <1>1, <2>1 DEF WriteError, TypeOK, chanVars
<1>3. CASE pc[s] # "open"
  BY SMTT(60), <1>2, <1>3, OpenFrame DEF WriteError
<1>4. CASE pc[s] = "open"
  <2>1. /\ \A t \in Side : Len(calls'[t]) = Len(calls[t]) /\ DOMAIN calls'[t] = DOMAIN calls[t]
        /\ \A t \in Side : \A d \in DOMAIN calls'[t] :
             calls'[t][d] = "waiting" => calls[t][d] = "waiting"
    <3>1. calls' = Reply(s, pending_streams[s][cur[s].id], "err")
      BY Zenon, <1>4 DEF WriteError
    <3>2. QED
      BY ZenonT(60), <3>1, OpenSettle DEF CallStatus
  <2>2. QED
    BY SMTT(60), <1>1, <1>2, <2>1 DEF OpenInv, OpenAccounted, ServedOnce, OneServer, CallsKnown, Queued, Pending
<1>5. QED
  BY Zenon, <1>3, <1>4

\* The actor ends: nobody waits on it any more, and it knows of no call.
LEMMA OpenFinish ==
  ASSUME OpenInv, TypeOK', NEW s \in Side, NEW how, Finish(s, how)
  PROVE  OpenInv'
<1>1. TypeOK /\ OpenAccounted /\ ServedOnce /\ CallsKnown
  BY SMTT(60) DEF OpenInv
<1>2. /\ \A t \in Side : t # s => /\ control_chan'[t] = control_chan[t] /\ calls'[t] = calls[t]
                                  /\ pending_streams'[t] = pending_streams[t]
                                  /\ pc'[t] = pc[t]
      /\ control_chan'[s] = <<>> /\ calls'[s] = DropReplies(calls[s])
      /\ pending_streams'[s] = EmptyMap
  <2>1. /\ control_chan \in [Side -> Seq(Nat)] /\ control_chan' = [control_chan EXCEPT ![s] = <<>>]
        /\ calls \in [Side -> Seq(CallStatus)] /\ calls' = [calls EXCEPT ![s] = DropReplies(calls[s])]
        /\ pending_streams \in [Side -> [StreamIds -> Nat]]
        /\ pending_streams' = [pending_streams EXCEPT ![s] = EmptyMap]
        /\ pc \in [Side -> PC] /\ pc' = [pc EXCEPT ![s] = "finished"]
    BY Zenon, <1>1 DEF Finish, TypeOK
  <2>2. QED
    BY Zenon, <2>1
<1>3. DOMAIN control_chan'[s] = {}
  BY <1>2
<1>4. \A d \in DOMAIN calls'[s] : calls'[s][d] # "waiting"
  BY SMTT(60), <1>1, <1>2, DropRepliesType DEF TypeOK
<1>5. \A id \in StreamIds : pending_streams'[s][id] = None
  BY Zenon, <1>2, EmptyMapType
<1>6. Len(calls'[s]) \in Nat
  BY Zenon, LenOf DEF TypeOK
<1>7. OpenAccounted'
  BY SMTT(60), <1>1, <1>2, <1>4 DEF OpenAccounted, Queued, Pending
<1>8. ServedOnce'
  BY <1>1, <1>2, <1>3, <1>5 DEF ServedOnce, OneServer
<1>9. CallsKnown'
  BY <1>1, <1>2, <1>3, <1>5, <1>6 DEF CallsKnown, None
<1>10. QED
  BY Zenon, <1>7, <1>8, <1>9 DEF OpenInv

\* Append to a queue: its elements stay where they are.
LEMMA AppendElements ==
  ASSUME NEW T, NEW q \in Seq(T), NEW e \in T
  PROVE  /\ Len(q) \in Nat /\ DOMAIN q = 1 .. Len(q) /\ DOMAIN Append(q, e) = 1 .. Len(q) + 1
         /\ \A i \in DOMAIN q : i \in DOMAIN Append(q, e) /\ Append(q, e)[i] = q[i]
         /\ \A i \in DOMAIN Append(q, e) : i \notin DOMAIN q => i = Len(q) + 1 /\ Append(q, e)[i] = e
         /\ Len(q) + 1 \in DOMAIN Append(q, e) /\ Append(q, e)[Len(q) + 1] = e
<1>1. Len(q) \in Nat /\ DOMAIN q = 1 .. Len(q)
  BY Zenon, LenOf
<1>2. DOMAIN Append(q, e) = 1 .. Len(q) + 1
  BY AppendOf, LenOf
<1>3. /\ \A i \in 1 .. Len(q) : Append(q, e)[i] = q[i]
      /\ Append(q, e)[Len(q) + 1] = e
  BY AppendOf
<1>4. QED
  BY <1>1, <1>2, <1>3

\* A command is queued: a shutdown, or the next open_stream call, which nobody
\* knows of yet.
LEMMA OpenEnqueue ==
  ASSUME OpenInv, TypeOK', NEW s \in Side, NEW e \in Nat,
         \/ e = Shutdown
         \/ e = Len(calls[s]) + 1,
         control_chan' = [control_chan EXCEPT ![s] = Append(@, e)],
         UNCHANGED pending_streams,
         \A t \in Side : Len(calls'[t]) >= Len(calls[t])
                         /\ (t = s => Len(calls'[t]) >= e)
  PROVE  ServedOnce' /\ CallsKnown'
<1> DEFINE q == control_chan[s]
<1>1. TypeOK /\ ServedOnce /\ CallsKnown
  BY Zenon DEF OpenInv
<1>2. q \in Seq(Nat) /\ Len(calls[s]) \in Nat /\ \A t \in Side : Len(calls'[t]) \in Nat
  BY SMTT(60), <1>1, LenOf DEF TypeOK
<1>3. /\ Len(q) \in Nat /\ DOMAIN q = 1 .. Len(q)
      /\ \A i \in DOMAIN Append(q, e) : i \notin DOMAIN q => i = Len(q) + 1 /\ Append(q, e)[i] = e
      /\ \A i \in DOMAIN q : Append(q, e)[i] = q[i]
  BY <1>2, AppendElements
<1>4. /\ control_chan'[s] = Append(q, e)
      /\ \A t \in Side : t # s => control_chan'[t] = control_chan[t]
      /\ pending_streams' = pending_streams
  BY SMTT(60), <1>1 DEF TypeOK
<1>5. \A i \in DOMAIN q : q[i] \in Nat /\ q[i] <= Len(calls[s])
  BY SMTT(60), <1>1, <1>2, ElementOf, LenOf DEF CallsKnown
<1>6. \A id \in StreamIds : pending_streams[s][id] \in Nat /\ pending_streams[s][id] <= Len(calls[s])
  BY SMTT(60), <1>1 DEF CallsKnown, TypeOK
<1>7. \A i, j \in DOMAIN Append(q, e) :
        Append(q, e)[i] = Append(q, e)[j] /\ Append(q, e)[i] # Shutdown => i = j
  <2>1. \A i, j \in DOMAIN q : q[i] = q[j] /\ q[i] # Shutdown => i = j
    BY Zenon, <1>1 DEF ServedOnce, OneServer
  <2>2. \A i \in DOMAIN q : q[i] = e => e = Shutdown
    BY <1>2, <1>5
  <2>3. QED
    BY Zenon, <1>3, <2>1, <2>2
<1>8. \A i \in DOMAIN Append(q, e), id \in StreamIds :
        Append(q, e)[i] = pending_streams[s][id] => pending_streams[s][id] = None
  <2>1. \A i \in DOMAIN q, id \in StreamIds :
          q[i] = pending_streams[s][id] => pending_streams[s][id] = None
    BY Zenon, <1>1 DEF ServedOnce, OneServer
  <2>2. \A id \in StreamIds : e = pending_streams[s][id] => pending_streams[s][id] = None
    BY <1>2, <1>6 DEF Shutdown, None
  <2>3. QED
    BY Zenon, <1>3, <2>1, <2>2
<1>9. ServedOnce'
  <2>1. \A i, j \in DOMAIN control_chan'[s] :
          control_chan'[s][i] = control_chan'[s][j] /\ control_chan'[s][i] # Shutdown => i = j
    BY Zenon, <1>4, <1>7
  <2>2. \A i \in DOMAIN control_chan'[s], id \in StreamIds :
          control_chan'[s][i] = pending_streams'[s][id] => pending_streams'[s][id] = None
    BY SMTT(60), <1>4, <1>8
  <2>3. OneServer(s)'
    BY SMTT(60), <1>1, <1>4, <2>1, <2>2 DEF ServedOnce, OneServer
  <2>4. \A t \in Side : t # s => OneServer(t)'
    BY <1>1, <1>4 DEF ServedOnce, OneServer
  <2>5. QED
    BY Zenon, <2>3, <2>4 DEF ServedOnce
<1>10. CallsKnown'
  <2>1. \A i \in DOMAIN Append(q, e) : Append(q, e)[i] <= Len(calls'[s])
    BY SMTT(60), <1>2, <1>3, <1>5
  <2>2. \A i \in DOMAIN control_chan'[s] : control_chan'[s][i] <= Len(calls'[s])
    BY Zenon, <1>4, <2>1
  <2>3. \A t \in Side : t # s =>
          \A i \in DOMAIN control_chan'[t] : control_chan'[t][i] <= Len(calls'[t])
    <3>1. SUFFICES ASSUME NEW t \in Side, t # s, NEW i \in DOMAIN control_chan[t]
                   PROVE  control_chan[t][i] <= Len(calls'[t])
      BY Zenon, <1>4
    <3>2. control_chan[t][i] <= Len(calls[t]) /\ control_chan[t][i] \in Nat
      BY SMTT(60), <1>1, <3>1, ControlNat DEF CallsKnown
    <3>3. Len(calls[t]) \in Nat /\ Len(calls'[t]) \in Nat
      BY SMTT(60), <1>1, LenOf DEF TypeOK
    <3>4. QED
      BY <3>2, <3>3
  <2>4. \A t \in Side : \A id \in StreamIds : pending_streams'[t][id] <= Len(calls'[t])
    <3>1. SUFFICES ASSUME NEW t \in Side, NEW id \in StreamIds
                   PROVE  pending_streams[t][id] <= Len(calls'[t])
      BY Zenon, <1>4
    <3>2. pending_streams[t][id] <= Len(calls[t]) /\ pending_streams[t][id] \in Nat
      BY SMTT(60), <1>1 DEF CallsKnown, TypeOK
    <3>3. Len(calls[t]) \in Nat /\ Len(calls'[t]) \in Nat
      BY Zenon, <1>1, LenOf DEF TypeOK
    <3>4. QED
      BY <3>2, <3>3
  <2>5. QED
    BY SMTT(60), <2>2, <2>3, <2>4 DEF CallsKnown
<1>11. QED
  BY Zenon, <1>9, <1>10

LEMMA OpenApp ==
  ASSUME OpenInv, TypeOK', NEW s \in Side
  PROVE  /\ OpenStream(s) => OpenInv'
         /\ \A c : AbandonOpen(s, c) => OpenInv'
         /\ ShutdownSession(s) => OpenInv'
<1>1. TypeOK /\ OpenAccounted /\ ServedOnce /\ CallsKnown
  BY Zenon DEF OpenInv
<1>2. /\ calls[s] \in Seq(CallStatus) /\ control_chan[s] \in Seq(Nat)
      /\ \A t \in Side : Len(calls[t]) \in Nat
  BY SMTT(60), <1>1, LenOf DEF TypeOK
<1>3. ASSUME NEW e \in Nat, control_chan' = [control_chan EXCEPT ![s] = Append(@, e)]
      PROVE  /\ \A t \in Side, d \in Nat : Queued(t, d) => Queued(t, d)'
             /\ Queued(s, e)'
  <2>1. /\ control_chan'[s] = Append(control_chan[s], e)
        /\ \A t \in Side : t # s => control_chan'[t] = control_chan[t]
    BY Zenon, <1>1, <1>3 DEF TypeOK
  <2>2. /\ \A i \in DOMAIN control_chan[s] :
             i \in DOMAIN control_chan'[s] /\ control_chan'[s][i] = control_chan[s][i]
        /\ \E i \in DOMAIN control_chan'[s] : control_chan'[s][i] = e
    BY SMTT(60), <1>2, <2>1, AppendElements
  <2>3. QED
    BY SMTT(60), <2>1, <2>2 DEF Queued
<1>4. ASSUME OpenStream(s) PROVE OpenInv'
  <2> DEFINE n == Len(calls[s])
  <2>1. UNCHANGED <<pc, pending_streams>>
    BY Zenon, <1>4 DEF OpenStream, actorVars
  <2>2. CASE pc[s] # "finished"
    <3>0. PICK e \in Nat : e = n + 1
      BY <1>2
    <3>1. /\ control_chan' = [control_chan EXCEPT ![s] = Append(@, e)]
          /\ calls'[s] = Append(calls[s], "waiting")
          /\ \A t \in Side : t # s => calls'[t] = calls[t]
      <4>1. /\ calls' = [calls EXCEPT ![s] = Append(@, "waiting")]
            /\ control_chan' = [control_chan EXCEPT ![s] = Append(@, n + 1)]
        BY Zenon, <1>4, <2>2 DEF OpenStream
      <4>2. DOMAIN calls = Side
        BY SMTT(60), <1>1 DEF TypeOK
      <4>3. QED
        BY Zenon, <3>0, <4>1, <4>2
    <3>2. /\ \A d \in DOMAIN calls[s] : calls'[s][d] = calls[s][d]
          /\ \A d \in DOMAIN calls'[s] : d \notin DOMAIN calls[s] => d = e
          /\ Len(calls'[s]) = e
      <4>1. calls[s] \in Seq(CallStatus) /\ "waiting" \in CallStatus
        BY Zenon, <1>2 DEF CallStatus
      <4>2. Len(calls'[s]) = e
        BY <3>0, <3>1, <4>1, AppendOf
      <4>3. /\ \A d \in DOMAIN calls[s] : calls'[s][d] = calls[s][d]
            /\ \A d \in DOMAIN calls'[s] : d \in DOMAIN calls[s] \/ d = n + 1
        BY <3>1, <4>1, AppendElements
      <4>4. QED
        BY Zenon, <3>0, <4>2, <4>3
    <3>3. \A t \in Side : \A d \in DOMAIN calls[t] : d \in Nat
      BY <1>1, CallIndex
    <3>4. /\ \A t \in Side, d \in Nat : Queued(t, d) => Queued(t, d)'
          /\ Queued(s, e)'
      BY Zenon, <1>3, <3>1
    <3>5. OpenAccounted'
      <4>1. SUFFICES ASSUME NEW t \in Side, NEW d \in DOMAIN calls'[t], calls'[t][d] = "waiting"
                     PROVE  pc'[t] # "finished" /\ (Queued(t, d)' \/ Pending(t, d)')
        BY Zenon DEF OpenAccounted
      <4>2. CASE t = s /\ d = e
        BY Zenon, <2>1, <2>2, <3>4, <4>2
      <4>3. CASE ~(t = s /\ d = e)
        <5>1. d \in DOMAIN calls[t] /\ calls[t][d] = "waiting"
          BY Zenon, <3>1, <3>2, <4>1, <4>3
        <5>2. pc[t] # "finished" /\ (Queued(t, d) \/ Pending(t, d)) /\ d \in Nat
          BY Zenon, <1>1, <3>3, <5>1 DEF OpenAccounted
        <5>3. QED
          BY Zenon, <2>1, <3>4, <5>2 DEF Pending
      <4>4. QED
        BY Zenon, <4>2, <4>3
    <3>6. \A t \in Side : Len(calls'[t]) >= Len(calls[t]) /\ (t = s => Len(calls'[t]) >= e)
      BY <1>2, <3>0, <3>1, <3>2
    <3>7. ServedOnce' /\ CallsKnown'
      BY ZenonT(60), <2>1, <3>0, <3>1, <3>6, OpenEnqueue
    <3>8. QED
      BY Zenon, <3>5, <3>7 DEF OpenInv
  <2>3. CASE pc[s] = "finished"
    <3>1. /\ control_chan' = control_chan
          /\ calls'[s] = Append(calls[s], "err")
          /\ \A t \in Side : t # s => calls'[t] = calls[t]
      <4>1. /\ calls' = [calls EXCEPT ![s] = Append(@, "err")]
            /\ control_chan' = control_chan
        BY Zenon, <1>4, <2>3 DEF OpenStream
      <4>2. DOMAIN calls = Side
        BY SMTT(60), <1>1 DEF TypeOK
      <4>3. QED
        BY Zenon, <4>1, <4>2
    <3>2. /\ \A d \in DOMAIN calls[s] : calls'[s][d] = calls[s][d]
          /\ \A d \in DOMAIN calls'[s] : d \notin DOMAIN calls[s] => calls'[s][d] = "err"
          /\ Len(calls'[s]) = n + 1
      <4>1. calls[s] \in Seq(CallStatus) /\ "err" \in CallStatus
        BY Zenon, <1>2 DEF CallStatus
      <4>2. Len(calls'[s]) = n + 1 /\ n \in Nat
        BY <1>2, <3>1, <4>1, AppendOf
      <4>3. /\ \A d \in DOMAIN calls[s] : calls'[s][d] = calls[s][d]
            /\ \A d \in DOMAIN calls'[s] : d \in DOMAIN calls[s] \/ d = n + 1
            /\ calls'[s][n + 1] = "err"
        BY SMTT(60), <3>1, <4>1, AppendElements
      <4>4. QED
        BY Zenon, <4>2, <4>3
    <3>3. OpenAccounted'
      <4>1. SUFFICES ASSUME NEW t \in Side, NEW d \in DOMAIN calls'[t], calls'[t][d] = "waiting"
                     PROVE  pc'[t] # "finished" /\ (Queued(t, d)' \/ Pending(t, d)')
        BY Zenon DEF OpenAccounted
      <4>2. d \in DOMAIN calls[t] /\ calls[t][d] = "waiting"
        BY SMTT(60), <3>1, <3>2, <4>1
      <4>3. pc[t] # "finished" /\ (Queued(t, d) \/ Pending(t, d))
        BY SMTT(60), <1>1, <4>2 DEF OpenAccounted
      <4>4. QED
        BY Zenon, <2>1, <3>1, <4>3 DEF Queued, Pending
    <3>4. ServedOnce'
      BY SMTT(60), <1>1, <2>1, <3>1 DEF ServedOnce, OneServer
    <3>5. CallsKnown'
      <4>1. \A t \in Side : \A i \in DOMAIN control_chan[t] : control_chan[t][i] \in Nat
        BY SMTT(60), <1>1, ControlNat
      <4>2. \A t \in Side : \A id \in StreamIds : pending_streams[t][id] \in Nat
        BY SMTT(60), <1>1 DEF TypeOK
      <4>3. \A t \in Side : Len(calls'[t]) = Len(calls[t]) \/ Len(calls'[t]) = Len(calls[t]) + 1
        BY SMTT(60), <3>1, <3>2
      <4>4. \A t \in Side, m \in Nat : m <= Len(calls[t]) => m <= Len(calls'[t])
        BY SMTT(60), <1>2, <4>3
      <4>5. QED
        BY Zenon, <1>1, <2>1, <3>1, <4>1, <4>2, <4>4 DEF CallsKnown
    <3>6. QED
      BY Zenon, <3>3, <3>4, <3>5 DEF OpenInv
  <2>4. QED
    BY Zenon, <2>2, <2>3
<1>5. ASSUME NEW c, AbandonOpen(s, c) PROVE OpenInv'
  <2>1. UNCHANGED <<pc, pending_streams, control_chan>>
    BY SMTT(60), <1>5 DEF AbandonOpen, actorVars, chanVars
  <2>2. /\ c \in DOMAIN calls[s]
        /\ calls'[s] = [calls[s] EXCEPT ![c] = "abandoned"]
        /\ \A t \in Side : t # s => calls'[t] = calls[t]
    BY SMTT(60), <1>1, <1>5 DEF AbandonOpen, TypeOK
  <2>3. Len(calls'[s]) = Len(calls[s])
    BY <1>2, <2>2, UpdateSeq DEF CallStatus
  <2>4. /\ DOMAIN calls'[s] = DOMAIN calls[s]
        /\ \A d \in DOMAIN calls[s] : calls'[s][d] = "waiting" => calls[s][d] = "waiting"
    BY SMTT(60), <2>2
  <2>5. OpenAccounted'
    <3>1. SUFFICES ASSUME NEW t \in Side, NEW d \in DOMAIN calls'[t], calls'[t][d] = "waiting"
                   PROVE  pc'[t] # "finished" /\ (Queued(t, d)' \/ Pending(t, d)')
      BY Zenon DEF OpenAccounted
    <3>2. d \in DOMAIN calls[t] /\ calls[t][d] = "waiting"
      BY SMTT(60), <2>2, <2>4, <3>1
    <3>3. pc[t] # "finished" /\ (Queued(t, d) \/ Pending(t, d))
      BY Zenon, <1>1, <3>2 DEF OpenAccounted
    <3>4. QED
      BY Zenon, <2>1, <3>3 DEF Queued, Pending
  <2>6. ServedOnce'
    BY Zenon, <1>1, <2>1 DEF ServedOnce, OneServer
  <2>7. CallsKnown'
    <3>1. \A t \in Side : Len(calls'[t]) = Len(calls[t])
      BY Zenon, <2>2, <2>3
    <3>2. QED
      BY Zenon, <1>1, <2>1, <3>1 DEF CallsKnown
  <2>8. QED
    BY Zenon, <2>5, <2>6, <2>7 DEF OpenInv
<1>6. ASSUME ShutdownSession(s) PROVE OpenInv'
  <2>1. /\ UNCHANGED <<pc, pending_streams, calls>>
        /\ control_chan' = [control_chan EXCEPT ![s] = Append(@, Shutdown)]
        /\ Shutdown \in Nat
    BY Zenon, <1>6 DEF ShutdownSession, actorVars, Shutdown
  <2>2. \A t \in Side, d \in Nat : Queued(t, d) => Queued(t, d)'
    BY Zenon, <1>3, <2>1
  <2>3. \A t \in Side : \A d \in DOMAIN calls[t] : d \in Nat
    BY <1>1, CallIndex
  <2>4. OpenAccounted'
    BY Zenon, <1>1, <2>1, <2>2, <2>3 DEF OpenAccounted, Pending
  <2>5. \A t \in Side : Len(calls'[t]) >= Len(calls[t]) /\ (t = s => Len(calls'[t]) >= Shutdown)
    BY <1>2, <2>1 DEF Shutdown
  <2>6. ServedOnce' /\ CallsKnown'
    BY ZenonT(60), <2>1, <2>5, OpenEnqueue
  <2>7. QED
    BY Zenon, <2>4, <2>6 DEF OpenInv
<1>7. QED
  BY Zenon, <1>4, <1>5, <1>6

LEMMA OpenInvInit == Init => OpenInv
  BY TypeInit, EmptyMapType
     DEF Init, OpenInv, OpenAccounted, ServedOnce, OneServer, CallsKnown, None

LEMMA OpenInvNext == OpenInv /\ [Next]_vars => OpenInv'
<1>1. SUFFICES ASSUME OpenInv, [Next]_vars PROVE OpenInv'
  BY Zenon
<1>2. TypeOK /\ TypeOK'
  BY Zenon, <1>1, TypeNext DEF OpenInv
<1>3. CASE UNCHANGED vars
  BY Zenon, <1>1, <1>2, <1>3, OpenFrame DEF vars, actorVars, chanVars, appVars
<1>4. CASE Sever
  BY Zenon, <1>1, <1>2, <1>4, OpenFrame DEF Sever, actorVars, chanVars, appVars
<1>5. ASSUME NEW s \in Side, Actor(s) PROVE OpenInv'
  <2>1. CASE \/ ReceiveForStream(s) \/ Deliver(s) \/ ReceiveOpenRequest(s) \/ Offer(s)
             \/ ReceiveStray(s) \/ WriteOk(s) \/ HandleFrameEvent(s) \/ HandleClosedEvent(s)
    <3>1. /\ UNCHANGED <<calls, control_chan, pending_streams>>
          /\ \A t \in Side : pc[t] # "finished" => pc'[t] # "finished"
      BY ZenonT(60), <1>2, <2>1
         DEF ReceiveForStream, Deliver, ReceiveOpenRequest, Register, Offer, ReceiveStray, WriteOk,
             HandleFrameEvent, HandleClosedEvent, TakeFrame, TypeOK, chanVars, appVars
    <3>2. QED
      BY SMTT(60), <1>1, <1>2, <3>1, OpenFrame
  <2>2. CASE ReadError(s) \/ HandleCancel(s)
    <3>1. /\ UNCHANGED <<calls, control_chan, pending_streams>>
          /\ \A t \in Side : pc[t] # "finished" => pc'[t] # "finished"
      BY ZenonT(60), <1>2, <2>2 DEF ReadError, HandleCancel, Break, TypeOK, chanVars, appVars
    <3>2. QED
      BY Zenon, <1>1, <1>2, <3>1, OpenFrame
  <2>3. CASE ReceiveOpenResponse(s) \/ ReceiveOpenReset(s)
    BY Zenon, <1>1, <1>2, <2>3, OpenReceive
  <2>4. CASE HandleOpen(s)
    BY Zenon, <1>1, <1>2, <2>4, OpenHandle
  <2>5. CASE HandleShutdown(s)
    BY Zenon, <1>1, <1>2, <2>5, OpenHandleShutdown
  <2>6. CASE WriteError(s)
    BY Zenon, <1>1, <1>2, <2>6, OpenWriteError
  <2>7. CASE CloseWriter(s) \/ Abort(s)
    BY SMTT(60), <1>1, <1>2, <2>7, OpenFinish DEF CloseWriter, Abort
  <2>8. QED
    BY SMTT(60), <1>5, <2>1, <2>2, <2>3, <2>4, <2>5, <2>6, <2>7 DEF Actor
<1>6. ASSUME NEW s \in Side, App(s) PROVE OpenInv'
  <2>1. CASE OpenStream(s) \/ ShutdownSession(s) \/ \E c \in 1 .. MaxOpens : AbandonOpen(s, c)
    BY Zenon, <1>1, <1>2, <2>1, OpenApp
  <2>2. CASE AcceptStream(s) \/ ShutdownReturns(s) \/ DropSession(s)
    <3>1. UNCHANGED <<pc, calls, control_chan, pending_streams>>
      BY SMTT(60), <2>2 DEF AcceptStream, ShutdownReturns, DropSession, actorVars, chanVars
    <3>2. QED
      BY Zenon, <1>1, <1>2, <3>1, OpenFrame
  <2>3. CASE \E k \in 1 .. MaxStreams :
               \/ SendBytes(s, k) \/ Close(s, k) \/ SendEvent(s, k) \/ RecvFrame(s, k)
               \/ DropStream(s, k)
               \/ \E f \in RawFrames : SendFrame(s, k, f)
    <3>1. UNCHANGED <<pc, calls, control_chan, pending_streams>>
      BY Zenon, <2>3 DEF SendBytes, Close, SendEvent, RecvFrame, DropStream, SendFrame,
                  actorVars, chanVars
    <3>2. QED
      BY Zenon, <1>1, <1>2, <3>1, OpenFrame
  <2>4. QED
    BY Zenon, <1>6, <2>1, <2>2, <2>3 DEF App
<1>7. QED
  BY Zenon, <1>1, <1>3, <1>4, <1>5, <1>6 DEF Next

\* Nobody waits on a reply channel that was forgotten (OpenStream handling,
\* session.rs), whatever is aborted, cancelled, severed or overwritten.
THEOREM OpenAccountedAlways == Spec => []OpenAccounted
<1>1. OpenInv => OpenAccounted
  BY Zenon DEF OpenInv
<1>2. QED
  BY <1>1, OpenInvInit, OpenInvNext, PTL DEF Spec

\* No open_stream call is served twice.
THEOREM ServedOnceAlways == Spec => []ServedOnce
<1>1. OpenInv => ServedOnce
  BY Zenon DEF OpenInv
<1>2. QED
  BY <1>1, OpenInvInit, OpenInvNext, PTL DEF Spec

-----------------------------------------------------------------------------
(* What becomes of a stream that was closed.                               *)

Has(q, e) == \E i \in DOMAIN q : q[i] = e

\* The session is going to be told, or has been and has not looked yet.
Told(l, events) == Has(l.out, ClosedEvent(l.id)) \/ Has(events, ClosedEvent(l.id))

Released(s) ==
  \A k \in DOMAIN logical[s] :
    LET l == logical[s][k]
    IN l.state = "Closed" /\ streams[s][l.id] = k => Told(l, event_chan[s])

\* An actor that is gone left no table behind.
NoTable(s) == pc[s] = "finished" => \A id \in StreamIds : streams[s][id] = None

\* No frame has the flags of a close response: the code never makes one.
Unanswered == {f \in Frame : f.flags # close_response}

\* It is enough that what the session is told does not get lost.
LEMMA ReleasedKept ==
  ASSUME NEW s \in Side, Released(s), IdsKept, NoInsert, TypeOK,
         \A k \in DOMAIN logical[s] : logical'[s][k].state = "Closed" =>
           \/ Told(logical'[s][k], event_chan'[s])
           \/ /\ logical[s][k].state = "Closed"
              /\ Told(logical[s][k], event_chan[s]) => Told(logical'[s][k], event_chan'[s])
  PROVE  Released(s)'
<1>1. SUFFICES ASSUME NEW k \in DOMAIN logical'[s], logical'[s][k].state = "Closed",
                      streams'[s][logical'[s][k].id] = k
               PROVE  Told(logical'[s][k], event_chan'[s])
  BY Zenon DEF Released
<1>2. k \in DOMAIN logical[s] /\ logical'[s][k].id = logical[s][k].id
  BY Zenon, <1>1 DEF IdsKept
<1>3. logical[s][k].id \in StreamIds
  BY Zenon, <1>2, StreamOf DEF LogicalStream
<1>4. k # None
  <2>1. logical[s] \in Seq(LogicalStream)
    BY Zenon DEF TypeOK
  <2>2. QED
    BY <1>2, <2>1 DEF None
<1>5. streams[s][logical[s][k].id] = k
  BY Zenon, <1>1, <1>2, <1>3, <1>4 DEF NoInsert
<1>6. QED
  BY Zenon, <1>1, <1>2, <1>5 DEF Released

LEMMA HasTail ==
  ASSUME NEW T, NEW q \in Seq(T), q # <<>>, NEW e, Has(q, e), e # Head(q)
  PROVE  Has(Tail(q), e)
<1>1. PICK i \in DOMAIN q : q[i] = e
  BY Zenon DEF Has
<1>2. PICK m \in Nat : m = Len(q)
  OBVIOUS
<1>3. i \in 2 .. m
  BY <1>1, <1>2
<1>4. i - 1 \in DOMAIN Tail(q) /\ Tail(q)[i - 1] = q[i]
  BY <1>2, <1>3
<1>5. QED
  BY Zenon, <1>1, <1>4 DEF Has

LEMMA HasAppend ==
  ASSUME NEW T, NEW q \in Seq(T), NEW a \in T, NEW e
  PROVE  /\ Has(q, e) => Has(Append(q, a), e)
         /\ Has(Append(q, a), a)
<1>1. PICK m \in Nat : m = Len(q)
  OBVIOUS
<1>2. m + 1 \in DOMAIN Append(q, a) /\ Append(q, a)[m + 1] = a
  BY <1>1
<1>3. \A i \in DOMAIN q : i \in DOMAIN Append(q, a) /\ Append(q, a)[i] = q[i]
  BY <1>1
<1>4. QED
  BY Zenon, <1>2, <1>3 DEF Has

\* close() tells the session whenever it leaves the stream closed.
LEMMA ClosedIsTold ==
  ASSUME NEW l \in LogicalStream, AfterClose(l).state = "Closed"
  PROVE  Has(AfterClose(l).out, ClosedEvent(l.id)) /\ AfterClose(l).id = l.id
<1>1. /\ l.state \in StreamState
      /\ DOMAIN l = {"id", "by", "state", "rx", "chan", "out", "sent", "got", "closes", "peer_closed"}
  BY Zenon DEF LogicalStream
<1>2. /\ AfterClose(l).state = StateAfterClose(l.state) /\ AfterClose(l).id = l.id
      /\ AfterClose(l).out = EventsOfClose(l.id, l.state)
  BY Zenon, <1>1 DEF AfterClose
<1>3. l.state \in {"LocalClosing", "RemoteClosing", "Closed", "Reset"}
  BY <1>1, <1>2 DEF StateAfterClose, StreamState
<1>4. Has(EventsOfClose(l.id, l.state), ClosedEvent(l.id))
  <2>1. CASE l.state = "RemoteClosing"
    <3>1. EventsOfClose(l.id, l.state)
            = <<FrameEvent(Control(l.id, close_request))>> \o <<ClosedEvent(l.id)>>
      BY <2>1 DEF EventsOfClose
    <3>2. \A a, b : 2 \in DOMAIN (<<a>> \o <<b>>) /\ (<<a>> \o <<b>>)[2] = b
      OBVIOUS
    <3>3. QED
      BY Zenon, <3>1, <3>2 DEF Has
  <2>2. CASE l.state # "RemoteClosing"
    <3>1. EventsOfClose(l.id, l.state) = <<>> \o <<ClosedEvent(l.id)>>
      BY Zenon, <1>3, <2>2 DEF EventsOfClose
    <3>2. \A b : 1 \in DOMAIN (<<>> \o <<b>>) /\ (<<>> \o <<b>>)[1] = b
      OBVIOUS
    <3>3. QED
      BY Zenon, <3>1, <3>2 DEF Has
  <2>3. QED
    BY <2>1, <2>2
<1>5. QED
  BY Zenon, <1>2, <1>4

\* Only a close response closes a stream that receives.
LEMMA RecvNotClosed ==
  ASSUME NEW l \in LogicalStream, Carries(Unanswered, l), l.chan # <<>>, NEW split,
         AfterRecv(split, l).state = "Closed"
  PROVE  /\ l.state = "Closed" /\ AfterRecv(split, l).out = l.out
         /\ AfterRecv(split, l).id = l.id
<1>1. /\ l.state \in StreamState /\ l.chan \in Seq(Unanswered)
      /\ DOMAIN l = {"id", "by", "state", "rx", "chan", "out", "sent", "got", "closes", "peer_closed"}
  BY Zenon DEF LogicalStream, Carries
<1>2. Head(l.chan) \in Unanswered
  BY <1>1
<1>3. Head(l.chan).flags # close_response
  BY Zenon, <1>2 DEF Unanswered
<1>4. /\ AfterRecv(split, l).state = set_state_from_flags(split, l.state, Head(l.chan).flags)
      /\ AfterRecv(split, l).out = l.out /\ AfterRecv(split, l).id = l.id
  BY Zenon, <1>1 DEF AfterRecv
<1>5. l.state = "Closed"
  BY <1>3, <1>4 DEF set_state_from_flags, StreamStateFromFlags, ReaderStateFromFlags
<1>6. QED
  BY <1>4, <1>5

LEMMA ReleasedOthers ==
  ASSUME NEW s \in Side, NEW t \in Side, t # s, Local(s), Released(t), NoTable(t)
  PROVE  Released(t)' /\ NoTable(t)'
<1>1. /\ pc'[t] = pc[t] /\ streams'[t] = streams[t] /\ event_chan'[t] = event_chan[t]
      /\ logical'[t] = logical[t]
  BY Zenon DEF Local
<1>2. QED
  BY Zenon, <1>1 DEF Released, NoTable

\* The streams' states and what they still have to send stay as they are.
LEMMA ReleasedSame ==
  ASSUME NEW s \in Side, Released(s), IdsKept, NoInsert, TypeOK,
         event_chan'[s] = event_chan[s],
         \A k \in DOMAIN logical[s] : /\ logical'[s][k].state = logical[s][k].state
                                      /\ logical'[s][k].out = logical[s][k].out
  PROVE  Released(s)'
<1>1. \A k \in DOMAIN logical[s] : logical'[s][k].id = logical[s][k].id
  BY Zenon DEF IdsKept
<1>2. \A k \in DOMAIN logical[s] :
        Told(logical[s][k], event_chan[s]) => Told(logical'[s][k], event_chan'[s])
  BY Zenon, <1>1 DEF Told
<1>3. QED
  BY Zenon, <1>2, ReleasedKept

LEMMA EmptyTable ==
  ASSUME TypeOK, NEW s \in Side, streams' = [streams EXCEPT ![s] = EmptyMap]
  PROVE  \A id \in StreamIds : streams'[s][id] = None
  BY Zenon, EmptyMapType DEF TypeOK

LEMMA SameParts ==
  ASSUME NEW l \in LogicalStream
  PROVE  /\ Dropped(l).state = l.state /\ Dropped(l).out = l.out
         /\ [l EXCEPT !.rx = "held"].state = l.state /\ [l EXCEPT !.rx = "held"].out = l.out
         /\ \A chan : /\ [l EXCEPT !.chan = chan].state = l.state
                      /\ [l EXCEPT !.chan = chan].out = l.out
  BY DEF LogicalStream, Dropped

LEMMA ReleasedActor ==
  ASSUME TypeOK, TypeOK', NEW s \in Side, Released(s), NoTable(s), Actor(s)
  PROVE  Released(s)' /\ NoTable(s)'
<1>1. ASSUME \A id \in StreamIds : streams'[s][id] = None PROVE Released(s)' /\ NoTable(s)'
  <2>1. \A k \in DOMAIN logical'[s] : logical'[s][k].id \in StreamIds /\ k # None
    <3>1. logical'[s] \in Seq(LogicalStream)
      BY Zenon DEF TypeOK
    <3>2. \A k \in DOMAIN logical'[s] : logical'[s][k] \in LogicalStream /\ k # None
      BY <3>1 DEF None
    <3>3. QED
      BY Zenon, <3>2 DEF LogicalStream
  <2>2. QED
    BY Zenon, <1>1, <2>1 DEF Released, NoTable
<1>2. pc[s] # "finished"
  BY Zenon DEF Actor, ReceiveForStream, Deliver, ReceiveOpenRequest, Offer, ReceiveOpenResponse,
     ReceiveOpenReset, ReceiveStray, ReadError, HandleOpen, HandleShutdown, HandleFrameEvent,
     HandleClosedEvent, WriteOk, WriteError, HandleCancel, CloseWriter, Abort, TakeFrame, TakeCommand
<1>3. CASE CloseWriter(s) \/ Abort(s)
  <2>1. PICK how : Finish(s, how)
    BY Zenon, <1>3 DEF CloseWriter, Abort
  <2>2. QED
    BY Zenon, <1>1, <2>1, EmptyTable DEF Finish
<1>4. ASSUME ~CloseWriter(s), ~Abort(s) PROVE NoTable(s)'
  <2>1. pc'[s] # "finished"
    BY Zenon, <1>2, <1>4 DEF TypeOK, Actor, ReceiveForStream, Deliver, ReceiveOpenRequest, Offer,
       ReceiveOpenResponse, ReceiveOpenReset, ReceiveStray, ReadError, HandleOpen, HandleShutdown,
       HandleFrameEvent, HandleClosedEvent, WriteOk, WriteError, HandleCancel, TakeFrame, TakeCommand,
       Break
  <2>2. QED
    BY Zenon, <2>1 DEF NoTable
<1>5. CASE \/ ReceiveForStream(s) \/ Deliver(s) \/ Offer(s) \/ ReceiveOpenReset(s) \/ ReceiveStray(s)
           \/ ReadError(s) \/ HandleOpen(s) \/ HandleShutdown(s) \/ WriteOk(s) \/ WriteError(s)
           \/ HandleCancel(s)
  <2>1. UNCHANGED event_chan
    BY Zenon, <1>5 DEF ReceiveForStream, Deliver, Offer, ReceiveOpenReset, ReceiveStray, ReadError,
       HandleOpen, HandleShutdown, WriteOk, WriteError, HandleCancel, TakeFrame, TakeCommand, chanVars
  <2>2. \/ UNCHANGED logical
        \/ \E k, l : /\ logical' = [logical EXCEPT ![s] = [logical[s] EXCEPT ![k] = l]]
                     /\ k \in DOMAIN logical[s] => /\ l.state = logical[s][k].state
                                                   /\ l.out = logical[s][k].out
                                                   /\ l.id = logical[s][k].id
    <3> DEFINE k == streams[s][cur[s].id]
               l == [logical[s][k] EXCEPT !.chan = Append(@, cur[s])]
    <3>1. CASE Deliver(s)
      <4>1. UNCHANGED logical \/ logical' = [logical EXCEPT ![s] = [logical[s] EXCEPT ![k] = l]]
        BY Zenon, <3>1 DEF Deliver
      <4>2. k \in DOMAIN logical[s] => /\ l.state = logical[s][k].state /\ l.out = logical[s][k].out
                                       /\ l.id = logical[s][k].id
        BY Zenon, StreamOf, SameParts, SameId
      <4>3. QED
        BY Zenon, <4>1, <4>2
    <3>2. CASE Offer(s)
      <4>1. \/ UNCHANGED logical
            \/ logical' = [logical EXCEPT ![s] = [logical[s] EXCEPT ![k] = Dropped(logical[s][k])]]
        BY Zenon, <3>2 DEF Offer
      <4>2. k \in DOMAIN logical[s] => /\ Dropped(logical[s][k]).state = logical[s][k].state
                                       /\ Dropped(logical[s][k]).out = logical[s][k].out
                                       /\ Dropped(logical[s][k]).id = logical[s][k].id
        BY Zenon, StreamOf, SameParts, SameId
      <4>3. QED
        BY Zenon, <4>1, <4>2
    <3>3. CASE ~Deliver(s) /\ ~Offer(s)
      BY Zenon, <1>5, <3>3 DEF ReceiveForStream, ReceiveOpenReset, ReceiveStray, ReadError,
         HandleOpen, HandleShutdown, WriteOk, WriteError, HandleCancel, appVars
    <3>4. QED
      BY Zenon, <3>1, <3>2, <3>3
  <2>3. \A k \in DOMAIN logical[s] :
          /\ logical'[s][k].state = logical[s][k].state /\ logical'[s][k].out = logical[s][k].out
    <3>1. ASSUME NEW k, NEW l, logical' = [logical EXCEPT ![s] = [logical[s] EXCEPT ![k] = l]],
                 k \in DOMAIN logical[s] => l.state = logical[s][k].state /\ l.out = logical[s][k].out
          PROVE  \A j \in DOMAIN logical[s] :
                   /\ logical'[s][j].state = logical[s][j].state
                   /\ logical'[s][j].out = logical[s][j].out
      BY Zenon, <3>1 DEF TypeOK
    <3>2. QED
      BY Zenon, <2>2, <3>1
  <2>4. IdsKept /\ NoInsert
    <3>1. \/ UNCHANGED streams
          \/ streams' = [streams EXCEPT ![s] = EmptyMap]
          \/ streams' = [streams EXCEPT ![s][cur[s].id] = None]
      BY Zenon, <1>5 DEF ReceiveForStream, Deliver, Offer, ReceiveOpenReset, ReceiveStray, ReadError,
         HandleOpen, HandleShutdown, WriteOk, WriteError, HandleCancel, Break
    <3>2. NoInsert
      BY Zenon, <3>1, SameTable, Cleared, Removed
    <3>3. IdsKept
      BY Zenon, <2>2, SameStreams, OperationKeepsIds
    <3>4. QED
      BY Zenon, <3>2, <3>3
  <2>5. Released(s)'
    BY Zenon, <2>1, <2>3, <2>4, ReleasedSame
  <2>6. QED
    BY Zenon, <1>1, <1>3, <1>4, <2>5
<1>6. CASE HandleFrameEvent(s) \/ HandleClosedEvent(s)
  <2>1. /\ UNCHANGED logical /\ event_chan[s] # <<>> /\ event_chan'[s] = Tail(event_chan[s])
        /\ event_chan[s] \in Seq(StreamEvent)
    BY Zenon, <1>6 DEF HandleFrameEvent, HandleClosedEvent, appVars, TypeOK
  <2>2. SUFFICES ASSUME NEW k \in DOMAIN logical[s], logical[s][k].state = "Closed",
                        streams'[s][logical[s][k].id] = k
                 PROVE  Told(logical[s][k], Tail(event_chan[s]))
    <3>1. NoTable(s)'
      BY Zenon, <1>3, <1>4
    <3>2. QED
      BY Zenon, <2>1, <3>1 DEF Released
  <2>3. PICK id \in StreamIds : id = logical[s][k].id
    BY Zenon, StreamOf DEF LogicalStream
  <2>4. k # None
    <3>1. logical[s] \in Seq(LogicalStream)
      BY Zenon DEF TypeOK
    <3>2. QED
      BY <3>1 DEF None
  <2>5. streams[s][id] = k
    <3>1. \/ UNCHANGED streams
          \/ \E i : streams' = [streams EXCEPT ![s][i] = None]
      BY Zenon, <1>6 DEF HandleFrameEvent, HandleClosedEvent
    <3>2. NoInsert
      BY Zenon, <3>1, SameTable, Removed
    <3>3. QED
      BY Zenon, <2>2, <2>3, <2>4, <3>2 DEF NoInsert
  <2>6. Told(logical[s][k], event_chan[s])
    BY Zenon, <2>2, <2>3, <2>5 DEF Released
  <2>7. ClosedEvent(id) # Head(event_chan[s])
    <3>1. CASE HandleFrameEvent(s)
      <4>1. Head(event_chan[s]).kind = "Frame"
        BY Zenon, <3>1 DEF HandleFrameEvent
      <4>2. QED
        BY <4>1 DEF ClosedEvent
    <3>2. CASE HandleClosedEvent(s)
      <4>1. streams' = [streams EXCEPT ![s][Head(event_chan[s]).frame.id] = None]
        BY Zenon, <3>2 DEF HandleClosedEvent
      <4>2. ASSUME Head(event_chan[s]).frame.id = id PROVE FALSE
        <5>1. streams'[s][id] = None
          <6>1. streams \in [Side -> [StreamIds -> Nat]]
            BY Zenon DEF TypeOK
          <6>2. QED
            BY Zenon, <2>3, <4>1, <4>2, <6>1
        <5>2. QED
          BY Zenon, <2>2, <2>3, <2>4, <5>1
      <4>3. ClosedEvent(id).frame.id = id
        BY DEF ClosedEvent, Control
      <4>4. QED
        BY Zenon, <4>2, <4>3
    <3>3. QED
      BY Zenon, <1>6, <3>1, <3>2
  <2>8. Has(event_chan[s], ClosedEvent(id)) => Has(Tail(event_chan[s]), ClosedEvent(id))
    BY Zenon, <2>1, <2>7, HasTail
  <2>9. QED
    BY Zenon, <2>3, <2>6, <2>8 DEF Told
<1>7. CASE ReceiveOpenRequest(s) \/ ReceiveOpenResponse(s)
  <2>1. PICK id, by, rx : Register(s, id, NewStream(id, by, rx))
    <3>1. ReceiveOpenRequest(s) =>
            Register(s, Incoming(s).id, NewStream(Incoming(s).id, "accept", "offered"))
      BY Zenon DEF ReceiveOpenRequest
    <3>2. ReceiveOpenResponse(s) => \E rx :
            Register(s, Incoming(s).id, NewStream(Incoming(s).id, "open", rx))
      BY Zenon DEF ReceiveOpenResponse
    <3>3. QED
      BY Zenon, <1>7, <3>1, <3>2
  <2>2. /\ logical'[s] = Append(logical[s], NewStream(id, by, rx))
        /\ \A i \in StreamIds : i # id => streams'[s][i] = streams[s][i]
        /\ id \in StreamIds => streams'[s][id] = Len(logical[s]) + 1
    <3>1. /\ logical' = [logical EXCEPT ![s] = Append(@, NewStream(id, by, rx))]
          /\ streams' = [streams EXCEPT ![s][id] = Len(logical[s]) + 1]
      BY Zenon, <2>1 DEF Register
    <3>2. logical'[s] = Append(logical[s], NewStream(id, by, rx))
      BY Zenon, <3>1 DEF TypeOK
    <3>3. PICK n : n = Len(logical[s]) + 1
      OBVIOUS
    <3>4. streams' = [streams EXCEPT ![s][id] = n]
      BY Zenon, <3>1, <3>3
    <3>5. /\ \A i \in StreamIds : i # id => streams'[s][i] = streams[s][i]
          /\ id \in StreamIds => streams'[s][id] = n
      BY <3>4 DEF TypeOK
    <3>6. QED
      BY Zenon, <3>2, <3>3, <3>5
  <2>3. event_chan' = event_chan
    BY Zenon, <1>7 DEF ReceiveOpenRequest, ReceiveOpenResponse, TakeFrame, chanVars
  <2>4. SUFFICES ASSUME NEW k \in DOMAIN logical'[s], logical'[s][k].state = "Closed",
                        streams'[s][logical'[s][k].id] = k
                 PROVE  Told(logical'[s][k], event_chan[s])
    <3>1. NoTable(s)'
      BY Zenon, <1>3, <1>4
    <3>2. QED
      BY Zenon, <2>3, <3>1 DEF Released
  <2>5. PICK q \in Seq(LogicalStream), m \in Nat : q = logical[s] /\ m = Len(q)
    BY DEF TypeOK
  <2>6. k \in DOMAIN q /\ logical'[s][k] = q[k] /\ k # m + 1
    <3>1. \/ k \in DOMAIN q /\ logical'[s][k] = q[k] /\ k # m + 1
          \/ logical'[s][k] = NewStream(id, by, rx)
      BY <2>2, <2>5
    <3>2. NewStream(id, by, rx).state = "Established"
      BY DEF NewStream
    <3>3. QED
      BY <2>4, <3>1, <3>2
  <2>7. q[k].id \in StreamIds
    BY Zenon, <2>5, <2>6, StreamOf DEF LogicalStream
  <2>8. streams[s][q[k].id] = k
    BY Zenon, <2>2, <2>4, <2>5, <2>6, <2>7
  <2>9. QED
    BY Zenon, <2>4, <2>5, <2>6, <2>8 DEF Released
<1>8. QED
  BY Zenon, <1>3, <1>5, <1>6, <1>7 DEF Actor

LEMMA ReleasedApp ==
  ASSUME TypeOK, Traffic(Unanswered), NEW s \in Side, Released(s), NoTable(s), App(s)
  PROVE  Released(s)' /\ NoTable(s)'
<1>1. IdsKept /\ NoInsert /\ UNCHANGED <<pc, streams>>
  BY Zenon, AppKeepsIds, AppKeepsActor DEF actorVars
<1>2. SUFFICES Released(s)'
  BY Zenon, <1>1 DEF NoTable
<1>3. \A k \in DOMAIN logical[s] : logical[s][k] \in LogicalStream /\ Carries(Unanswered, logical[s][k])
  BY Zenon, StreamOf DEF Traffic
<1>4. ASSUME NEW k, NEW l, logical' = [logical EXCEPT ![s] = [logical[s] EXCEPT ![k] = l]],
             event_chan'[s] = event_chan[s], k \in DOMAIN logical[s], l.id = logical[s][k].id,
             l.state = "Closed" => \/ Has(l.out, ClosedEvent(l.id))
                                   \/ /\ logical[s][k].state = "Closed"
                                      /\ logical[s][k].out \in {<<>>, l.out}
      PROVE  Released(s)'
  <2>1. logical'[s] = [logical[s] EXCEPT ![k] = l]
    BY Zenon, <1>4 DEF TypeOK
  <2>2. \A j \in DOMAIN logical[s] : j # k => logical'[s][j] = logical[s][j]
    BY Zenon, <2>1
  <2>3. logical'[s][k] = l
    BY Zenon, <1>4, <2>1
  <2>4. \A e : ~Has(<<>>, e)
    BY DEF Has
  <2>5. l.state = "Closed" =>
          \/ Told(l, event_chan[s])
          \/ /\ logical[s][k].state = "Closed"
             /\ Told(logical[s][k], event_chan[s]) => Told(l, event_chan[s])
    BY Zenon, <1>4, <2>4 DEF Told
  <2>6. \A j \in DOMAIN logical[s] : logical'[s][j].state = "Closed" =>
          \/ Told(logical'[s][j], event_chan'[s])
          \/ /\ logical[s][j].state = "Closed"
             /\ Told(logical[s][j], event_chan[s]) => Told(logical'[s][j], event_chan'[s])
    BY Zenon, <1>4, <2>2, <2>3, <2>5
  <2>7. QED
    BY Zenon, <1>1, <2>6, ReleasedKept
<1>5. CASE \/ OpenStream(s) \/ ShutdownSession(s) \/ ShutdownReturns(s)
           \/ \E c \in 1 .. MaxOpens : AbandonOpen(s, c)
  <2>1. UNCHANGED <<logical, event_chan>>
    BY Zenon, <1>5 DEF OpenStream, ShutdownSession, ShutdownReturns, AbandonOpen, chanVars
  <2>2. QED
    BY Zenon, <1>1, <2>1 DEF Released
<1>6. CASE AcceptStream(s)
  <2> DEFINE k == Head(stream_chan[s])
             l == [logical[s][k] EXCEPT !.rx = "held"]
  <2>1. UNCHANGED event_chan /\ logical' = [logical EXCEPT ![s] = [logical[s] EXCEPT ![k] = l]]
    BY Zenon, <1>6 DEF AcceptStream
  <2>2. CASE k \in DOMAIN logical[s]
    <3>1. l.id = logical[s][k].id /\ l.state = logical[s][k].state /\ l.out = logical[s][k].out
      BY Zenon, <1>3, <2>2, SameParts, SameId
    <3>2. QED
      BY Zenon, <1>4, <2>1, <2>2, <3>1
  <2>3. CASE k \notin DOMAIN logical[s]
    <3>1. \A j \in DOMAIN logical[s] : logical'[s][j] = logical[s][j]
      BY Zenon, <2>1, <2>3 DEF TypeOK
    <3>2. QED
      BY Zenon, <1>1, <2>1, <3>1, ReleasedSame
  <2>4. QED
    BY Zenon, <2>2, <2>3
<1>7. CASE DropSession(s)
  <2>1. UNCHANGED event_chan
    BY Zenon, <1>7 DEF DropSession
  <2>2. \A k \in DOMAIN logical[s] : logical'[s][k] \in {logical[s][k], Dropped(logical[s][k])}
    BY Zenon, <1>7 DEF DropSession, TypeOK
  <2>3. \A k \in DOMAIN logical[s] : /\ logical'[s][k].state = logical[s][k].state
                                     /\ logical'[s][k].out = logical[s][k].out
    BY Zenon, <1>3, <2>2, SameParts
  <2>4. QED
    BY Zenon, <1>1, <2>1, <2>3, ReleasedSame
<1>8. ASSUME NEW k, Idle(s, k), SendBytes(s, k) \/ \E f \in RawFrames : SendFrame(s, k, f)
      PROVE  Released(s)'
  <2>1. PICK out : logical' = [logical EXCEPT ![s] = [logical[s] EXCEPT ![k] =
                                                       [logical[s][k] EXCEPT !.out = out]]]
    BY Zenon, <1>8 DEF SendBytes, SendFrame
  <2>2. k \in DOMAIN logical[s] /\ logical[s][k].out = <<>> /\ UNCHANGED event_chan
    BY Zenon, <1>8 DEF SendBytes, SendFrame, Idle, chanVars
  <2>3. PICK l : l = [logical[s][k] EXCEPT !.out = out]
    BY Zenon
  <2>4. l.id = logical[s][k].id /\ l.state = logical[s][k].state
    BY <1>3, <2>2, <2>3 DEF LogicalStream
  <2>5. QED
    BY Zenon, <1>4, <2>1, <2>2, <2>3, <2>4
<1>9. ASSUME NEW k, Close(s, k) PROVE Released(s)'
  <2>1. /\ logical' = [logical EXCEPT ![s] = [logical[s] EXCEPT ![k] = AfterClose(logical[s][k])]]
        /\ k \in DOMAIN logical[s] /\ UNCHANGED event_chan
    BY Zenon, <1>9 DEF Close, Idle, chanVars
  <2>2. AfterClose(logical[s][k]).id = logical[s][k].id
    BY Zenon, <1>3, <2>1, SameId
  <2>3. QED
    BY Zenon, <1>3, <1>4, <2>1, <2>2, ClosedIsTold
<1>10. ASSUME NEW k, DropStream(s, k) PROVE Released(s)'
  <2>1. /\ logical' = [logical EXCEPT ![s] = [logical[s] EXCEPT ![k] = Dropped(logical[s][k])]]
        /\ k \in DOMAIN logical[s] /\ UNCHANGED event_chan
    BY Zenon, <1>10 DEF DropStream, Idle, chanVars
  <2>2. /\ Dropped(logical[s][k]).id = logical[s][k].id
        /\ Dropped(logical[s][k]).state = logical[s][k].state
        /\ Dropped(logical[s][k]).out = logical[s][k].out
    BY Zenon, <1>3, <2>1, SameParts, SameId
  <2>3. QED
    BY Zenon, <1>4, <2>1, <2>2
<1>11. ASSUME NEW k, RecvFrame(s, k) PROVE Released(s)'
  <2>1. PICK split : split = (s \in Splitters)
    OBVIOUS
  <2>2. /\ logical' = [logical EXCEPT ![s] = [logical[s] EXCEPT ![k] = AfterRecv(split, logical[s][k])]]
        /\ k \in DOMAIN logical[s] /\ logical[s][k].chan # <<>> /\ UNCHANGED event_chan
    BY Zenon, <1>11, <2>1 DEF RecvFrame, chanVars
  <2>3. AfterRecv(split, logical[s][k]).id = logical[s][k].id
    BY Zenon, <1>3, <2>2, SameId
  <2>4. AfterRecv(split, logical[s][k]).state = "Closed" =>
          /\ logical[s][k].state = "Closed" /\ AfterRecv(split, logical[s][k]).out = logical[s][k].out
    BY Zenon, <1>3, <2>2, RecvNotClosed
  <2>5. QED
    BY Zenon, <1>4, <2>2, <2>3, <2>4
<1>12. ASSUME NEW k, SendEvent(s, k) PROVE Released(s)'
  <2>1. CASE pc[s] = "finished"
    <3>1. \A id \in StreamIds : streams'[s][id] = None
      BY Zenon, <1>1, <2>1 DEF NoTable
    <3>2. \A j \in DOMAIN logical[s] : logical[s][j].id \in StreamIds
      BY Zenon, <1>3 DEF LogicalStream
    <3>3. \A j \in DOMAIN logical[s] : j # None
      BY DEF TypeOK, None
    <3>4. QED
      BY Zenon, <1>1, <3>1, <3>2, <3>3 DEF Released, IdsKept
  <2>2. CASE pc[s] # "finished"
    <3>1. PICK l \in LogicalStream : l = logical[s][k]
      BY Zenon, <1>3, <1>12 DEF SendEvent
    <3>2. /\ event_chan' = [event_chan EXCEPT ![s] = Append(@, Head(l.out))]
          /\ logical' = [logical EXCEPT ![s] = [logical[s] EXCEPT ![k] = AfterSend(l)]]
          /\ k \in DOMAIN logical[s] /\ l.out # <<>>
      BY Zenon, <1>12, <2>2, <3>1 DEF SendEvent
    <3>3. PICK e \in StreamEvent : e = Head(l.out)
      <4>1. l.out \in Seq(StreamEvent)
        BY Zenon DEF LogicalStream
      <4>2. QED
        BY <3>2, <4>1
    <3>4. event_chan'[s] = Append(event_chan[s], e) /\ event_chan[s] \in Seq(StreamEvent)
      BY Zenon, <3>2, <3>3 DEF TypeOK
    <3>5. \A x : /\ Has(event_chan[s], x) => Has(event_chan'[s], x)
                 /\ Has(event_chan'[s], e)
      <4>1. PICK q \in Seq(StreamEvent) : q = event_chan[s]
        BY Zenon, <3>4
      <4>2. \A x : (Has(q, x) => Has(Append(q, e), x)) /\ Has(Append(q, e), e)
        BY Zenon, HasAppend
      <4>3. QED
        BY Zenon, <3>4, <4>1, <4>2
    <3>6. AfterSend(l).state = l.state /\ AfterSend(l).id = l.id /\ AfterSend(l).out = Tail(l.out)
      BY DEF AfterSend, LogicalStream
    <3>7. \A x : Has(l.out, x) /\ x # e => Has(Tail(l.out), x)
      <4>1. l.out \in Seq(StreamEvent)
        BY Zenon DEF LogicalStream
      <4>2. QED
        BY Zenon, <3>2, <3>3, <4>1, HasTail
    <3>8. Told(l, event_chan[s]) => Told(AfterSend(l), event_chan'[s])
      BY Zenon, <3>5, <3>6, <3>7 DEF Told
    <3>9. logical'[s] = [logical[s] EXCEPT ![k] = AfterSend(l)]
      BY Zenon, <3>2 DEF TypeOK
    <3>10. /\ logical'[s][k] = AfterSend(l)
           /\ \A j \in DOMAIN logical[s] : j # k => logical'[s][j] = logical[s][j]
      BY Zenon, <3>2, <3>9
    <3>11. ASSUME NEW j \in DOMAIN logical[s]
           PROVE  /\ logical'[s][j].state = logical[s][j].state
                  /\ Told(logical[s][j], event_chan[s]) => Told(logical'[s][j], event_chan'[s])
      <4>1. CASE j = k
        BY Zenon, <3>1, <3>6, <3>8, <3>10, <4>1
      <4>2. CASE j # k
        BY Zenon, <3>5, <3>10, <4>2 DEF Told
      <4>3. QED
        BY Zenon, <4>1, <4>2
    <3>12. QED
      BY Zenon, <1>1, <3>11, ReleasedKept
  <2>3. QED
    BY Zenon, <2>1, <2>2
<1>13. QED
  BY Zenon, <1>5, <1>6, <1>7, <1>8, <1>9, <1>10, <1>11, <1>12 DEF App, SendBytes, SendFrame

LEMMA UnansweredMade ==
  ASSUME \A f \in RawFrames : f.flags # close_response
  PROVE  Makes(Unanswered) /\ Opens(Unanswered)
<1>1. \A id \in StreamIds : \A n \in Nat : Data(id, n) \in Unanswered
  BY DEF Unanswered, Data, Frame, close_response
<1>2. \A flags \in {{}, open_request, open_response, close_request} : flags # close_response
  BY DEF open_request, open_response, close_request, close_response
<1>3. \A id \in StreamIds : \A flags \in {{}, open_request, open_response, close_request} :
        Control(id, flags) \in Unanswered
  BY Zenon, <1>2, ControlType DEF Unanswered, Control
<1>4. RawFrames \subseteq Unanswered /\ Unanswered \subseteq Frame
  BY ScenarioAssumption DEF Unanswered
<1>5. QED
  BY Zenon, <1>1, <1>3, <1>4 DEF Makes, Opens

\* A stream that close() has closed leaves the table: the Closed event that
\* removes it is still to be sent, or in the channel, or handled; for every
\* scenario in which no application makes up a close response by itself.
THEOREM ClosedReleasedAlways ==
  ASSUME \A f \in RawFrames : f.flags # close_response
  PROVE  Spec => []ClosedReleased
<1> DEFINE Inv == Made(Unanswered) /\ \A s \in Side : Released(s) /\ NoTable(s)
<1>1. Makes(Unanswered) /\ Opens(Unanswered)
  BY Zenon, UnansweredMade
<1>2. Init => Inv
  <2>1. SUFFICES ASSUME Init, NEW s \in Side PROVE Released(s) /\ NoTable(s)
    BY Zenon, MadeInit
  <2>2. DOMAIN logical[s] = {} /\ pc[s] = "select"
    BY <2>1 DEF Init
  <2>3. QED
    BY Zenon, <2>2 DEF Released, NoTable
<1>3. Inv /\ [Next]_vars => Inv'
  <2>1. SUFFICES ASSUME Inv, [Next]_vars PROVE Inv'
    OBVIOUS
  <2>2. Made(Unanswered)'
    BY Zenon, <1>1, <2>1, MadeNext
  <2>3. /\ TypeOK /\ TypeOK' /\ Traffic(Unanswered) /\ [Next]_vars
        /\ \A s \in Side : Released(s) /\ NoTable(s)
    BY Zenon, <2>1, <2>2 DEF Made
  <2>4. CASE UNCHANGED vars \/ Sever
    <3>1. UNCHANGED <<pc, streams, event_chan, logical>>
      BY Zenon, <2>4 DEF vars, Sever, actorVars, chanVars, appVars
    <3>2. QED
      BY Zenon, <2>2, <2>3, <3>1 DEF Released, NoTable
  <2>5. ASSUME NEW s \in Side, Actor(s) \/ App(s) PROVE Inv'
    <3>1. Released(s)' /\ NoTable(s)'
      BY Zenon, <2>3, <2>5, ReleasedActor, ReleasedApp
    <3>2. Local(s)
      BY Zenon, <2>3, <2>5, ActorLocal, AppLocal
    <3>3. QED
      BY Zenon, <2>2, <2>3, <3>1, <3>2, ReleasedOthers
  <2>6. QED
    BY Zenon, <2>3, <2>4, <2>5 DEF Next
<1>4. Inv => ClosedReleased
  <2>1. SUFFICES ASSUME Inv, NEW s \in Side, NEW k \in DOMAIN logical[s],
                        logical[s][k].state = "Closed", logical[s][k].out = <<>>,
                        streams[s][logical[s][k].id] = k
                 PROVE  ClosedEvent(logical[s][k].id) \in {event_chan[s][i] : i \in DOMAIN event_chan[s]}
    BY Zenon DEF ClosedReleased
  <2>2. Told(logical[s][k], event_chan[s])
    BY Zenon, <2>1 DEF Released
  <2>3. \A e : ~Has(<<>>, e)
    BY DEF Has
  <2>4. QED
    BY Zenon, <2>1, <2>2, <2>3 DEF Told, Has
<1>5. QED
  BY <1>2, <1>3, <1>4, PTL DEF Spec
=============================================================================
