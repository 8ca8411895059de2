--------------------------- MODULE EndpointProofs ---------------------------
(***************************************************************************)
(* The safety properties of Endpoint for every set of addresses and peers, *)
(* every dialling plan and every capacity.                                 *)
(*                                                                         *)
(* TypeOK is not inductive by itself: that a channel only holds attempts   *)
(* needs that a task which is at a connection has one in hand (HandsFull). *)
(* NoneIsFinal rests on ForwarderOutlivesLoop and on the emptiness of the  *)
(* channel of a listener that was never bound (Unused).                    *)
(* EstablishedHasClient needs that attempts queue at the address they are  *)
(* for (Placed).                                                           *)
(***************************************************************************)
EXTENDS Endpoint, SequenceTheorems, TLAPS

HandsFull ==
  \A a \in Addrs :
    /\ accept_loop[a] \in {"handshake", "sending"} => inhand[a] \in Attempt
    /\ forwarder[a] = "sending" => forwarding[a] \in Attempt

Typed == TypeOK /\ HandsFull

Unused == \A a \in Addrs : accept_loop[a] = "none" => listen_chan[a] = <<>>

Placed ==
  \A a \in Addrs :
    /\ \A i \in DOMAIN incoming[a] : AddrOf(incoming[a][i]) = a
    /\ accept_loop[a] = "handshake" => AddrOf(inhand[a]) = a

-----------------------------------------------------------------------------
\* An attempt is a peer and a position of its plan.
LEMMA AttemptParts ==
  ASSUME NEW x \in Attempt
  PROVE  /\ x[1] \in Peers /\ x[2] \in DOMAIN Plan[x[1]] /\ x = <<x[1], x[2]>>
         /\ AddrOf(x) \in Addrs
<1>1. PICK p \in Peers : x \in {p} \X DOMAIN Plan[p]
  BY DEF Attempt
<1>2. x[1] = p /\ x[2] \in DOMAIN Plan[p] /\ x = <<x[1], x[2]>>
  BY <1>1
<1>3. QED
  BY <1>1, <1>2, EndpointAssumption DEF AddrOf

LEMMA AttemptOf ==
  ASSUME NEW p \in Peers, NEW i \in DOMAIN Plan[p]
  PROVE  <<p, i>> \in Attempt /\ AddrOf(<<p, i>>) = Plan[p][i] /\ Plan[p][i] \in Addrs
<1>1. <<p, i>> \in {p} \X DOMAIN Plan[p]
  OBVIOUS
<1>2. <<p, i>> \in Attempt
  BY <1>1 DEF Attempt
<1>3. QED
  BY <1>2, EndpointAssumption DEF AddrOf

LEMMA Caps == ListenCap \in Nat /\ ConnCap \in Nat /\ CmdCap \in Nat
  BY EndpointAssumption

LEMMA Empty ==
  ASSUME NEW S, NEW cap \in Nat
  PROVE  <<>> \in Seq(S) /\ Len(<<>>) = 0 /\ Len(<<>>) <= cap
  OBVIOUS

\* A channel stays a sequence of its elements, and within its capacity.
LEMMA Queued ==
  ASSUME NEW S, NEW q \in Seq(S), NEW x \in S, NEW cap \in Nat, Len(q) < cap
  PROVE  Append(q, x) \in Seq(S) /\ Len(Append(q, x)) <= cap
  OBVIOUS

LEMMA Unqueued ==
  ASSUME NEW S, NEW q \in Seq(S), q # <<>>
  PROVE  /\ Head(q) \in S /\ Tail(q) \in Seq(S) /\ Len(Tail(q)) < Len(q)
         /\ Len(q) \in Nat /\ Len(Tail(q)) \in Nat
  OBVIOUS

-----------------------------------------------------------------------------
\* The type invariant.

LEMMA InitTyped == Init => Typed
<1> SUFFICES ASSUME Init PROVE Typed
  OBVIOUS
<1>1. \A p \in Peers : Plan[p] # <<>> => 1 \in DOMAIN Plan[p]
  BY EndpointAssumption
<1>2. dial \in [Peers -> [at : Nat, st : DialState]]
      /\ \A p \in Peers : dial[p].st # "err" => dial[p].at \in DOMAIN Plan[p]
  BY <1>1 DEF Init, DialState
<1>3. Len(conn_chan) <= ConnCap /\ Len(cmd_chan) <= CmdCap
      /\ \A a \in Addrs : Len(listen_chan[a]) <= ListenCap
  BY Caps, Empty DEF Init
<1>4. /\ incoming \in [Addrs -> Seq(Attempt)] /\ established \in [Addrs -> Seq(Attempt)]
      /\ listen_chan \in [Addrs -> Seq(Attempt)] /\ taken \in [Addrs -> Seq(Attempt)]
      /\ conn_chan \in Seq(Attempt) /\ cmd_chan \in Seq({"Connect", "Listen", "Shutdown"})
  BY DEF Init
<1>5. /\ inhand \in [Addrs -> Attempt \cup {NoConn}] /\ forwarding \in [Addrs -> Attempt \cup {NoConn}]
      /\ accept_loop \in [Addrs -> LoopState] /\ forwarder \in [Addrs -> ForwarderState]
  BY DEF Init, LoopState, ForwarderState
<1>6. TypeOK
  BY <1>2, <1>3, <1>4, <1>5 DEF Init, TypeOK, Holder
<1>7. HandsFull
  BY DEF Init, HandsFull
<1>8. QED
  BY <1>6, <1>7 DEF Typed

LEMMA ActorTyped ==
  ASSUME Typed
  PROVE  /\ \A a \in Addrs : Bind(a) => Typed'
         /\ ActorLoop => Typed'
<1> USE DEF Typed
<1>1. ASSUME NEW a \in Addrs, Bind(a) PROVE Typed'
  <2>1. cmd_chan' \in Seq({"Connect", "Listen", "Shutdown"}) /\ Len(cmd_chan') <= CmdCap
    <3>1. CASE cmd_chan' = <<>>
      BY <3>1, Caps, Empty
    <3>2. CASE UNCHANGED cmd_chan
      BY <3>2 DEF TypeOK
    <3>3. QED
      BY <1>1, <3>1, <3>2 DEF Bind, ActorEnds
  <2>2. /\ accept_loop' \in [Addrs -> LoopState] /\ forwarder' \in [Addrs -> ForwarderState]
        /\ unbound' \subseteq Addrs /\ actor' \in {"alive", "ended"}
    BY <1>1 DEF Bind, ActorEnds, TypeOK, LoopState, ForwarderState
  <2>3. TypeOK'
    BY <1>1, <2>1, <2>2 DEF Bind, TypeOK, appVars, dialVars
  <2>4. HandsFull'
    BY <1>1 DEF Bind, HandsFull, TypeOK, Attempt, appVars, dialVars
  <2>5. QED
    BY <2>3, <2>4
<1>2. ASSUME ActorLoop PROVE Typed'
  <2>1. cmd_chan' \in Seq({"Connect", "Listen", "Shutdown"}) /\ Len(cmd_chan') <= CmdCap
    <3>1. CASE cmd_chan' = <<>>
      BY <3>1, Caps, Empty
    <3>2. CASE cmd_chan # <<>> /\ cmd_chan' = Tail(cmd_chan)
      BY <3>2, Caps, Unqueued DEF TypeOK
    <3>3. QED
      BY <1>2, <3>1, <3>2 DEF ActorLoop, ActorEnds
  <2>2. actor' \in {"alive", "ended"}
    BY <1>2 DEF ActorLoop, ActorEnds, TypeOK
  <2>3. QED
    BY <1>2, <2>1, <2>2
       DEF ActorLoop, TypeOK, HandsFull, listenVars, forwardVars, appVars, dialVars
<1>3. QED
  BY <1>1, <1>2

LEMMA LoopTyped ==
  ASSUME Typed, NEW a \in Addrs
  PROVE  LoopStep(a) \/ LoopAcceptError(a) => Typed'
<1> USE DEF Typed
<1>1. ASSUME LoopAccept(a) PROVE Typed'
  <2>1. Head(incoming[a]) \in Attempt /\ Tail(incoming[a]) \in Seq(Attempt)
    BY <1>1, Unqueued DEF LoopAccept, TypeOK
  <2>2. TypeOK'
    BY <1>1, <2>1 DEF LoopAccept, TypeOK, LoopState, serverVars, forwardVars, appVars, dialVars
  <2>3. HandsFull'
    BY <1>1, <2>1 DEF LoopAccept, TypeOK, HandsFull, forwardVars, dialVars
  <2>4. QED
    BY <2>2, <2>3
<1>2. ASSUME LoopAcceptError(a) PROVE Typed'
  <2>1. TypeOK'
    BY <1>2 DEF LoopAcceptError, LoopEnds, TypeOK, LoopState, NoConn, serverVars, forwardVars, appVars, dialVars
  <2>2. HandsFull'
    BY <1>2 DEF LoopAcceptError, LoopEnds, TypeOK, HandsFull, forwardVars
  <2>3. QED
    BY <2>1, <2>2
<1>3. ASSUME HandshakeDone(a) PROVE Typed'
  <2>1. inhand[a] \in Attempt
    BY <1>3 DEF HandshakeDone, HandsFull
  <2>2. /\ established' \in [Addrs -> Seq(Attempt)] /\ accept_loop' \in [Addrs -> LoopState]
        /\ incoming' \in [Addrs -> Seq(Attempt)] /\ inhand' \in [Addrs -> Attempt \cup {NoConn}]
    <3>1. CASE /\ accept_loop' = [accept_loop EXCEPT ![a] = "sending"]
               /\ established' = [established EXCEPT ![a] = Append(@, inhand[a])]
               /\ UNCHANGED <<inhand, incoming>>
      BY <2>1, <3>1 DEF TypeOK, LoopState
    <3>2. CASE LoopEnds(a) /\ UNCHANGED established
      BY <3>2 DEF LoopEnds, TypeOK, LoopState
    <3>3. CASE /\ accept_loop' = [accept_loop EXCEPT ![a] = "accepting"]
               /\ inhand' = [inhand EXCEPT ![a] = NoConn] /\ UNCHANGED <<incoming, established>>
      BY <3>3 DEF TypeOK, LoopState
    <3>4. QED
      BY <1>3, <3>1, <3>2, <3>3 DEF HandshakeDone
  <2>3. TypeOK'
    BY <1>3, <2>2 DEF HandshakeDone, TypeOK, serverVars, forwardVars, appVars, dialVars
  <2>4. HandsFull'
    BY SMTT(60), <1>3, <2>1 DEF HandshakeDone, LoopEnds, TypeOK, HandsFull, forwardVars
  <2>5. QED
    BY <2>3, <2>4
<1>4. ASSUME LoopSend(a) PROVE Typed'
  <2>1. inhand[a] \in Attempt
    BY <1>4 DEF LoopSend, HandsFull
  <2>2. Append(listen_chan[a], inhand[a]) \in Seq(Attempt)
        /\ Len(Append(listen_chan[a], inhand[a])) <= ListenCap
    BY <1>4, <2>1, Caps, Queued DEF LoopSend, TypeOK
  <2>3. TypeOK'
    BY <1>4, <2>2 DEF LoopSend, TypeOK, LoopState, NoConn, serverVars, appVars, dialVars
  <2>4. HandsFull'
    BY <1>4 DEF LoopSend, TypeOK, HandsFull
  <2>5. QED
    BY <2>3, <2>4
<1>5. QED
  BY <1>1, <1>2, <1>3, <1>4 DEF LoopStep

LEMMA ForwarderTyped ==
  ASSUME Typed, NEW a \in Addrs
  PROVE  ForwarderStep(a) => Typed'
<1> USE DEF Typed
<1>1. ASSUME ForwarderReceive(a) PROVE Typed'
  <2>1. CASE listen_chan[a] # <<>> /\ forwarder' = [forwarder EXCEPT ![a] = "sending"]
             /\ forwarding' = [forwarding EXCEPT ![a] = Head(listen_chan[a])]
             /\ listen_chan' = [listen_chan EXCEPT ![a] = Tail(@)]
    <3>1. Head(listen_chan[a]) \in Attempt /\ Tail(listen_chan[a]) \in Seq(Attempt)
          /\ Len(Tail(listen_chan[a])) <= ListenCap
      BY <2>1, Caps, Unqueued DEF TypeOK
    <3>2. TypeOK'
      BY <1>1, <2>1, <3>1 DEF ForwarderReceive, TypeOK, ForwarderState, serverVars, listenVars, appVars, dialVars
    <3>3. HandsFull'
      BY SMTT(60), <1>1, <2>1, <3>1 DEF ForwarderReceive, TypeOK, HandsFull, listenVars
    <3>4. QED
      BY <3>2, <3>3
  <2>2. CASE forwarder' = [forwarder EXCEPT ![a] = "ended"] /\ UNCHANGED <<forwarding, listen_chan>>
    BY <1>1, <2>2 DEF ForwarderReceive, TypeOK, HandsFull, ForwarderState, serverVars, listenVars, appVars, dialVars
  <2>3. QED
    BY <1>1, <2>1, <2>2 DEF ForwarderReceive
<1>2. ASSUME ForwarderSend(a) PROVE Typed'
  <2>1. forwarding[a] \in Attempt
    BY <1>2 DEF ForwarderSend, HandsFull
  <2>2. conn_chan' \in Seq(Attempt) /\ Len(conn_chan') <= ConnCap
    <3>1. CASE UNCHANGED conn_chan
      BY <3>1 DEF TypeOK
    <3>2. CASE Len(conn_chan) < ConnCap /\ conn_chan' = Append(conn_chan, forwarding[a])
      BY <2>1, <3>2, Caps, Queued DEF TypeOK
    <3>3. QED
      BY <1>2, <3>1, <3>2 DEF ForwarderSend
  <2>3. TypeOK'
    BY <1>2, <2>2 DEF ForwarderSend, TypeOK, ForwarderState, NoConn, serverVars, listenVars, appVars, dialVars
  <2>4. HandsFull'
    BY <1>2 DEF ForwarderSend, TypeOK, HandsFull, listenVars
  <2>5. QED
    BY <2>3, <2>4
<1>3. QED
  BY <1>1, <1>2 DEF ForwarderStep

LEMMA AppTyped ==
  ASSUME Typed
  PROVE  /\ Accept => Typed'
         /\ GetListener => Typed'
         /\ Shutdown => Typed'
         /\ \A h \in Holder : Release(h) => Typed'
         /\ \A c \in {"Connect", "Listen"} : SendCommand(c) => Typed'
<1> USE DEF Typed
<1>1. ASSUME Accept PROVE Typed'
  <2>1. CASE conn_chan # <<>> /\ conn_chan' = Tail(conn_chan) /\ UNCHANGED over
             /\ taken' = [taken EXCEPT ![AddrOf(Head(conn_chan))] = Append(@, Head(conn_chan))]
    <3>1. Head(conn_chan) \in Attempt /\ Tail(conn_chan) \in Seq(Attempt)
          /\ Len(Tail(conn_chan)) <= ConnCap
      BY <2>1, Caps, Unqueued DEF TypeOK
    <3>2. AddrOf(Head(conn_chan)) \in Addrs
      BY <3>1, AttemptParts
    <3>3. taken' \in [Addrs -> Seq(Attempt)]
      BY <2>1, <3>1, <3>2 DEF TypeOK
    <3>4. QED
      BY <1>1, <2>1, <3>1, <3>3 DEF Accept, TypeOK, HandsFull, serverVars, listenVars, dialVars
  <2>2. CASE over' = TRUE /\ UNCHANGED <<taken, conn_chan>>
    BY <1>1, <2>2 DEF Accept, TypeOK, HandsFull, serverVars, listenVars, dialVars
  <2>3. QED
    BY <1>1, <2>1, <2>2 DEF Accept
<1>2. ASSUME GetListener PROVE Typed'
  BY <1>2 DEF GetListener, Holder, TypeOK, HandsFull, serverVars, listenVars, forwardVars, dialVars
<1>3. ASSUME Shutdown PROVE Typed'
  <2>1. cmd_chan' \in Seq({"Connect", "Listen", "Shutdown"}) /\ Len(cmd_chan') <= CmdCap
    <3>1. CASE UNCHANGED cmd_chan
      BY <3>1 DEF TypeOK
    <3>2. CASE Len(cmd_chan) < CmdCap /\ cmd_chan' = Append(cmd_chan, "Shutdown")
      BY <3>2, Caps, Queued DEF TypeOK
    <3>3. QED
      BY <1>3, <3>1, <3>2 DEF Shutdown
  <2>2. QED
    BY <1>3, <2>1 DEF Shutdown, TypeOK, HandsFull, listenVars, forwardVars, dialVars
<1>4. ASSUME NEW h \in Holder, Release(h) PROVE Typed'
  <2>1. conn_chan' \in Seq(Attempt) /\ Len(conn_chan') <= ConnCap
    BY <1>4, Caps, Empty DEF Release, QueueAfterDrop, TypeOK
  <2>2. QED
    BY <1>4, <2>1 DEF Release, TypeOK, HandsFull, serverVars, listenVars, dialVars
<1>5. ASSUME NEW c \in {"Connect", "Listen"}, SendCommand(c) PROVE Typed'
  <2>1. cmd_chan' \in Seq({"Connect", "Listen", "Shutdown"}) /\ Len(cmd_chan') <= CmdCap
    <3>1. CASE UNCHANGED cmd_chan
      BY <3>1 DEF TypeOK
    <3>2. CASE Len(cmd_chan) < CmdCap /\ cmd_chan' = Append(cmd_chan, c)
      BY <3>2, Caps, Queued DEF TypeOK
    <3>3. QED
      BY <1>5, <3>1, <3>2 DEF SendCommand
  <2>2. QED
    BY <1>5, <2>1 DEF SendCommand, TypeOK, HandsFull, listenVars, forwardVars, appVars, dialVars
<1>6. QED
  BY <1>1, <1>2, <1>3, <1>4, <1>5

LEMMA DialTyped ==
  ASSUME Typed, NEW p \in Peers
  PROVE  DialStep(p) \/ Vanish(p) => Typed'
<1> USE DEF Typed
<1> DEFINE DialOK == /\ dial \in [Peers -> [at : Nat, st : DialState]]
                     /\ \A q \in Peers : dial[q].st # "err" => dial[q].at \in DOMAIN Plan[q]
<1>1. dial[p] \in [at : Nat, st : DialState] /\ (dial[p].st # "err" => dial[p].at \in DOMAIN Plan[p])
  BY DEF TypeOK
<1>2. ASSUME NEW st \in DialState, dial[p].st # "err", dial' = [dial EXCEPT ![p].st = st]
      PROVE  DialOK'
  BY SMTT(60), <1>1, <1>2 DEF TypeOK
<1>3. ASSUME DialConnect(p) PROVE Typed'
  <2>1. DialOK'
    <3>1. dial[p].st = "trying" /\ dial' = [dial EXCEPT ![p].st = "tls"]
      BY Zenon, <1>3 DEF DialConnect
    <3>2. dial[p].st # "err" /\ "tls" \in DialState
      BY Zenon, <3>1 DEF DialState
    <3>3. QED
      BY Zenon, <1>2, <3>1, <3>2
  <2>2. <<p, dial[p].at>> \in Attempt /\ Plan[p][dial[p].at] \in Addrs
    <3>1. dial[p].st # "err"
      BY Zenon, <1>3 DEF DialConnect
    <3>2. QED
      BY Zenon, <1>1, <3>1, AttemptOf
  <2>3. incoming' \in [Addrs -> Seq(Attempt)]
    <3>1. PICK a \in Addrs, x \in Attempt : a = Plan[p][dial[p].at] /\ x = <<p, dial[p].at>>
      BY Zenon, <2>2
    <3>2. incoming \in [Addrs -> Seq(Attempt)] /\ incoming' = [incoming EXCEPT ![a] = Append(incoming[a], x)]
      BY Zenon, <1>3, <3>1 DEF DialConnect, TypeOK
    <3>3. Append(incoming[a], x) \in Seq(Attempt)
      BY <3>2
    <3>4. QED
      BY Zenon, <3>2, <3>3
  <2>4. QED
    BY ZenonT(60), <1>3, <2>1, <2>3 DEF DialConnect, TypeOK, HandsFull, serverVars, forwardVars, appVars
<1>4. ASSUME DialOk(p) PROVE Typed'
  <2>1. DialOK'
    BY <1>2, <1>4 DEF DialOk, DialState
  <2>2. QED
    BY SMTT(60), <1>4, <2>1 DEF DialOk, TypeOK, HandsFull, serverVars, listenVars, forwardVars, appVars
<1>5. ASSUME DialFail(p) PROVE Typed'
  <2>1. CASE HasNext(p) /\ dial' = [dial EXCEPT ![p] = [at |-> dial[p].at + 1, st |-> "trying"]]
    <3>1. dial[p].at + 1 \in DOMAIN Plan[p] /\ dial[p].at + 1 \in Nat
      <4>1. dial[p].at \in Nat /\ dial[p].at \in DOMAIN Plan[p] /\ Plan[p] \in Seq(Addrs)
        <5>1. dial[p].st # "err"
          BY Zenon, <1>5 DEF DialFail
        <5>2. QED
          BY Zenon, <1>1, <5>1, EndpointAssumption
      <4>2. dial[p].at < Len(Plan[p])
        BY Zenon, <2>1 DEF HasNext
      <4>3. QED
        BY <4>1, <4>2
    <3>2. DialOK'
      BY <2>1, <3>1 DEF TypeOK, DialState
    <3>3. QED
      BY <1>5, <3>2 DEF DialFail, TypeOK, HandsFull, serverVars, listenVars, forwardVars, appVars
  <2>2. CASE dial' = [dial EXCEPT ![p] = [dial[p] EXCEPT !.st = "err"]]
    <3>1. DialOK'
      BY <1>1, <2>2 DEF TypeOK, DialState
    <3>2. QED
      BY <1>5, <3>1 DEF DialFail, TypeOK, HandsFull, serverVars, listenVars, forwardVars, appVars
  <2>3. QED
    BY <1>5, <2>1, <2>2 DEF DialFail, NextAddress
<1>6. ASSUME Vanish(p) PROVE Typed'
  <2>1. DialOK'
    BY <1>2, <1>6 DEF Vanish, DialState
  <2>2. QED
    BY <1>6, <2>1 DEF Vanish, TypeOK, HandsFull, serverVars, listenVars, forwardVars, appVars
<1>7. QED
  BY <1>3, <1>4, <1>5, <1>6 DEF DialStep

LEMMA NextTyped == Typed /\ [Next]_vars => Typed'
<1> SUFFICES ASSUME Typed, [Next]_vars PROVE Typed'
  OBVIOUS
<1>1. CASE UNCHANGED vars
  BY <1>1 DEF Typed, TypeOK, HandsFull, vars, serverVars, listenVars, forwardVars, appVars, dialVars
<1>2. CASE Next
  BY <1>2, ActorTyped, LoopTyped, ForwarderTyped, AppTyped, DialTyped DEF Next
<1>3. QED
  BY <1>1, <1>2

\* Every reachable state of an endpoint and the nodes that dial it is well
\* typed, and no channel holds more than its capacity.
THEOREM EndpointTypeCorrect == Spec => []TypeOK
<1>1. Typed => TypeOK
  BY DEF Typed
<1>2. QED
  BY <1>1, InitTyped, NextTyped, PTL DEF Spec

LEMMA AlwaysTyped == Spec => []Typed
  BY InitTyped, NextTyped, PTL DEF Spec

-----------------------------------------------------------------------------
\* The tasks of a listener, and the end of the channel.

Tasks == ForwarderOutlivesLoop /\ Unused

LEMMA NextTasks ==
  ASSUME Typed, Tasks, [Next]_vars
  PROVE  Tasks'
<1> USE DEF Typed, Tasks, ForwarderOutlivesLoop, Unused
<1>1. ASSUME UNCHANGED <<accept_loop, listen_chan, forwarder>> PROVE Tasks'
  BY SMTT(60), <1>1
<1>2. ASSUME NEW a \in Addrs, Bind(a) PROVE Tasks'
  BY SMTT(60), <1>2 DEF Bind, TypeOK, LoopState, ForwarderState
<1>3. ASSUME NEW a \in Addrs, LoopAccept(a) \/ LoopAcceptError(a) \/ HandshakeDone(a) PROVE Tasks'
  BY ZenonT(60), <1>3 DEF LoopAccept, LoopAcceptError, HandshakeDone, LoopEnds, TypeOK, forwardVars
<1>4. ASSUME NEW a \in Addrs, LoopSend(a) PROVE Tasks'
  BY <1>4 DEF LoopSend, TypeOK
<1>5. ASSUME NEW a \in Addrs, ForwarderReceive(a) PROVE Tasks'
  BY SMTT(60), <1>5 DEF ForwarderReceive, ListenerEnded, TypeOK, listenVars
<1>6. ASSUME NEW a \in Addrs, ForwarderSend(a) PROVE Tasks'
  BY <1>6 DEF ForwarderSend, TypeOK, listenVars
<1>7. ASSUME \/ ActorLoop \/ Accept \/ GetListener \/ Shutdown
             \/ \E h \in Holder : Release(h)
             \/ \E c \in {"Connect", "Listen"} : SendCommand(c)
             \/ \E p \in Peers : DialStep(p) \/ Vanish(p)
      PROVE  UNCHANGED <<accept_loop, listen_chan, forwarder>>
  BY <1>7 DEF ActorLoop, Accept, GetListener, Shutdown, Release, SendCommand, DialStep,
              DialConnect, DialOk, DialFail, Vanish, listenVars, forwardVars
<1>8. CASE UNCHANGED vars
  BY <1>1, <1>8 DEF vars, listenVars, forwardVars
<1>9. QED
  BY <1>1, <1>2, <1>3, <1>4, <1>5, <1>6, <1>7, <1>8 DEF Next, LoopStep, ForwarderStep

LEMMA AlwaysTasks == Spec => []Tasks
<1>1. Init => Tasks
  BY DEF Init, Tasks, ForwarderOutlivesLoop, Unused
<1>2. QED
  BY <1>1, AlwaysTyped, NextTasks, PTL DEF Spec

\* An accept loop never finds the task that receives from it gone.
THEOREM ForwarderOutlivesLoopAlways == Spec => []ForwarderOutlivesLoop
<1>1. Tasks => ForwarderOutlivesLoop
  BY DEF Tasks
<1>2. QED
  BY <1>1, AlwaysTasks, PTL

LEMMA NextNone ==
  ASSUME Typed, Tasks, NoneIsFinal, [Next]_vars
  PROVE  NoneIsFinal'
<1> USE DEF Typed, NoneIsFinal
<1>1. CASE over
  <2>1. ASSUME NEW a \in Addrs
        PROVE  ~Bind(a) /\ ~LoopStep(a) /\ ~LoopAcceptError(a) /\ ~ForwarderStep(a)
    BY <1>1 DEF Bind, LoopStep, LoopAccept, HandshakeDone, LoopSend, LoopAcceptError,
                ForwarderStep, ForwarderReceive, ForwarderSend
  <2>2. ~ActorLoop /\ ~Accept
    BY <1>1 DEF ActorLoop, Accept
  <2>3. ASSUME NEW h \in Holder, Release(h) PROVE NoneIsFinal'
    BY SMTT(60), <1>1, <2>3 DEF Release, QueueAfterDrop, serverVars, listenVars
  <2>4. ASSUME \/ GetListener \/ Shutdown
               \/ \E c \in {"Connect", "Listen"} : SendCommand(c)
               \/ \E p \in Peers : DialStep(p) \/ Vanish(p)
        PROVE  UNCHANGED <<actor, conn_chan, accept_loop, forwarder, listen_chan>>
    BY <1>1, <2>4 DEF GetListener, Shutdown, SendCommand, DialStep, DialConnect, DialOk,
                DialFail, Vanish, serverVars, listenVars, forwardVars
  <2>5. CASE UNCHANGED vars
    BY <1>1, <2>5 DEF vars, serverVars, listenVars, forwardVars
  <2>6. QED
    BY SMTT(60), <1>1, <2>1, <2>2, <2>3, <2>4, <2>5 DEF Next
<1>2. CASE ~over
  <2>1. CASE Accept /\ over'
    <3>1. conn_chan = <<>> /\ SendersDropped /\ UNCHANGED <<conn_chan, actor, accept_loop, forwarder, listen_chan>>
      BY <1>2, <2>1 DEF Accept, serverVars, listenVars
    <3>2. QED
      BY <3>1 DEF SendersDropped, Tasks, ForwarderOutlivesLoop, Unused, TypeOK, LoopState
  <2>2. ASSUME ~Accept PROVE ~over'
    BY <1>2, <2>2 DEF Next, vars, Bind, LoopStep, LoopAccept, HandshakeDone, LoopSend, LoopAcceptError,
       ForwarderStep, ForwarderReceive, ForwarderSend, ActorLoop, GetListener, Shutdown, Release,
       SendCommand, DialStep, DialConnect, DialOk, DialFail, Vanish, appVars
  <2>3. QED
    BY <2>1, <2>2
<1>3. QED
  BY <1>1, <1>2

\* When an accept returns None, nothing is queued, held or still to be
\* accepted, and this stays so.
THEOREM NoneIsFinalAlways == Spec => []NoneIsFinal
<1>1. Init => NoneIsFinal
  BY DEF Init, NoneIsFinal
<1>2. QED
  BY <1>1, AlwaysTyped, AlwaysTasks, NextNone, PTL DEF Spec

-----------------------------------------------------------------------------
\* The two ends of a connection.

\* What the elements of a sequence have in common, its tail and an extension
\* by one more such element have too.
LEMMA PlacedQueue ==
  ASSUME NEW q \in Seq(Attempt), NEW a, \A i \in DOMAIN q : AddrOf(q[i]) = a
  PROVE  /\ q # <<>> => /\ AddrOf(Head(q)) = a
                        /\ \A i \in DOMAIN Tail(q) : AddrOf(Tail(q)[i]) = a
         /\ \A x \in Attempt : AddrOf(x) = a =>
              \A i \in DOMAIN Append(q, x) : AddrOf(Append(q, x)[i]) = a
<1>1. ASSUME q # <<>> PROVE AddrOf(Head(q)) = a
  BY <1>1
<1>2. ASSUME q # <<>>, NEW i \in DOMAIN Tail(q) PROVE AddrOf(Tail(q)[i]) = a
  <2>1. i + 1 \in DOMAIN q /\ Tail(q)[i] = q[i + 1]
    BY <1>2
  <2>2. QED
    BY <2>1
<1>3. ASSUME NEW x \in Attempt, AddrOf(x) = a, NEW i \in DOMAIN Append(q, x)
      PROVE  AddrOf(Append(q, x)[i]) = a
  BY <1>3
<1>4. QED
  BY <1>1, <1>2, <1>3

LEMMA NextPlaced ==
  ASSUME Typed, Placed, [Next]_vars
  PROVE  Placed'
<1> USE DEF Typed
<1>1. ASSUME UNCHANGED <<incoming, inhand, accept_loop>> PROVE Placed'
  BY SMTT(60), <1>1 DEF Placed
<1>2. ASSUME NEW a \in Addrs, Bind(a) \/ LoopSend(a)
      PROVE  Placed'
  <2>1. UNCHANGED incoming /\ accept_loop \in [Addrs -> LoopState] /\ inhand \in [Addrs -> Attempt \cup {NoConn}]
    BY Zenon, <1>2 DEF Bind, LoopSend, TypeOK
  <2>2. ASSUME NEW b \in Addrs, accept_loop'[b] = "handshake"
        PROVE  accept_loop[b] = "handshake" /\ inhand'[b] = inhand[b]
    <3>1. CASE Bind(a)
      BY Zenon, <2>1, <2>2, <3>1 DEF Bind
    <3>2. CASE LoopSend(a)
      BY Zenon, <2>1, <2>2, <3>2 DEF LoopSend
    <3>3. QED
      BY Zenon, <1>2, <3>1, <3>2
  <2>3. QED
    BY Zenon, <2>1, <2>2 DEF Placed
<1>3. ASSUME NEW a \in Addrs, LoopAccept(a) PROVE Placed'
  <2>1. /\ AddrOf(Head(incoming[a])) = a
        /\ \A i \in DOMAIN Tail(incoming[a]) : AddrOf(Tail(incoming[a])[i]) = a
    BY SMTT(60), <1>3, PlacedQueue DEF LoopAccept, Placed, TypeOK
  <2>2. QED
    BY SMTT(60), <1>3, <2>1 DEF LoopAccept, Placed, TypeOK
<1>4. ASSUME NEW a \in Addrs, LoopEnds(a) PROVE Placed'
  BY <1>4 DEF LoopEnds, Placed, TypeOK
<1>5. ASSUME NEW a \in Addrs, HandshakeDone(a) PROVE Placed'
  <2>1. CASE LoopEnds(a)
    BY SMTT(60), <1>4, <2>1
  <2>2. CASE UNCHANGED incoming /\ (accept_loop' = [accept_loop EXCEPT ![a] = "sending"] /\ UNCHANGED inhand)
    BY <2>2 DEF Placed, TypeOK
  <2>3. CASE /\ UNCHANGED incoming /\ accept_loop' = [accept_loop EXCEPT ![a] = "accepting"]
             /\ inhand' = [inhand EXCEPT ![a] = NoConn]
    BY SMTT(60), <2>3 DEF Placed, TypeOK
  <2>4. QED
    BY <1>5, <2>1, <2>2, <2>3 DEF HandshakeDone
<1>6. ASSUME NEW p \in Peers, DialConnect(p) PROVE Placed'
  <2> DEFINE x == <<p, dial[p].at>>
             b == Plan[p][dial[p].at]
  <2>1. x \in Attempt /\ AddrOf(x) = b /\ b \in Addrs
    BY ZenonT(60), <1>6, AttemptOf DEF DialConnect, TypeOK
  <2>2. \A i \in DOMAIN Append(incoming[b], x) : AddrOf(Append(incoming[b], x)[i]) = b
    <3>1. incoming[b] \in Seq(Attempt) /\ \A i \in DOMAIN incoming[b] : AddrOf(incoming[b][i]) = b
      BY Zenon, <2>1 DEF Placed, TypeOK
    <3>2. QED
      BY Zenon, <2>1, <3>1, PlacedQueue
  <2>3. incoming' = [incoming EXCEPT ![b] = Append(incoming[b], x)] /\ UNCHANGED <<inhand, accept_loop>>
    BY Zenon, <1>6 DEF DialConnect
  <2> HIDE DEF x, b
  <2>4. QED
    BY SMTT(60), <2>1, <2>2, <2>3 DEF Placed, TypeOK
<1>7. ASSUME \/ ActorLoop \/ Accept \/ GetListener \/ Shutdown
             \/ \E a \in Addrs : ForwarderStep(a)
             \/ \E h \in Holder : Release(h)
             \/ \E c \in {"Connect", "Listen"} : SendCommand(c)
             \/ \E p \in Peers : DialOk(p) \/ DialFail(p) \/ Vanish(p)
      PROVE  UNCHANGED <<incoming, inhand, accept_loop>>
  BY <1>7 DEF ActorLoop, Accept, GetListener, Shutdown, ForwarderStep, ForwarderReceive,
              ForwarderSend, Release, SendCommand, DialOk, DialFail, Vanish, listenVars
<1>8. CASE UNCHANGED vars
  BY <1>1, <1>8 DEF vars, listenVars
<1>9. QED
  BY <1>1, <1>2, <1>3, <1>4, <1>5, <1>6, <1>7, <1>8
     DEF Next, LoopStep, LoopAcceptError, DialStep

\* A client that has its connection keeps it.
LEMMA OkStays ==
  ASSUME Typed, NEW p \in Peers, dial[p].st = "ok", [Next]_vars
  PROVE  dial'[p] = dial[p]
<1>1. ASSUME NEW q \in Peers, DialStep(q) \/ Vanish(q) PROVE dial'[p] = dial[p]
  <2>1. dial[q].st # "ok"
    BY <1>1 DEF DialStep, DialConnect, DialOk, DialFail, Vanish
  <2>2. q # p
    BY SMTT(60), <2>1
  <2>3. QED
    BY ZenonT(60), <1>1, <2>2 DEF DialStep, DialConnect, DialOk, DialFail, NextAddress, Vanish, Typed, TypeOK
<1>2. ASSUME ~\E q \in Peers : DialStep(q) \/ Vanish(q) PROVE UNCHANGED dial
  BY <1>2 DEF Next, vars, Bind, LoopStep, LoopAccept, HandshakeDone, LoopSend, LoopAcceptError,
     ForwarderStep, ForwarderReceive, ForwarderSend, ActorLoop, Accept, GetListener, Shutdown,
     Release, SendCommand, dialVars
<1>3. QED
  BY SMTT(60), <1>1, <1>2

LEMMA NextClient ==
  ASSUME Typed, Placed, EstablishedHasClient, [Next]_vars
  PROVE  EstablishedHasClient'
<1> USE DEF Typed
<1>1. ASSUME NEW x \in Attempt, DialAt(x, "ok") PROVE DialAt(x, "ok")'
  BY <1>1, AttemptParts, OkStays DEF DialAt
<1>2. ASSUME UNCHANGED established PROVE EstablishedHasClient'
  <2>1. \A a \in Addrs : \A i \in DOMAIN established[a] : established[a][i] \in Attempt
    BY SMTT(60) DEF TypeOK
  <2>2. QED
    BY <1>1, <1>2, <2>1 DEF EstablishedHasClient
<1>3. ASSUME NEW a \in Addrs, HandshakeDone(a), ~UNCHANGED established PROVE EstablishedHasClient'
  <2> DEFINE x == inhand[a]
  <2>1. established' = [established EXCEPT ![a] = Append(@, x)] /\ DialAt(x, "ok")
    BY SMTT(60), <1>3 DEF HandshakeDone, ClientDone
  <2>2. x \in Attempt /\ AddrOf(x) = a /\ UNCHANGED dial
    BY <1>3 DEF HandshakeDone, HandsFull, Placed, dialVars
  <2> HIDE DEF x
  <2>3. ASSUME NEW b \in Addrs, NEW i \in DOMAIN established'[b]
        PROVE  \/ b = a /\ established'[b][i] = x
               \/ i \in DOMAIN established[b] /\ established'[b][i] = established[b][i]
    <3>1. established[b] \in Seq(Attempt) /\ established \in [Addrs -> Seq(Attempt)]
      BY DEF TypeOK
    <3>2. CASE b # a
      BY SMTT(60), <2>1, <2>3, <3>1, <3>2
    <3>3. CASE b = a
      <4>1. established'[b] = Append(established[b], x)
        BY SMTT(60), <2>1, <3>1, <3>3
      <4>2. i \in 1 .. Len(established[b]) + 1
        BY <2>2, <2>3, <3>1, <4>1
      <4>3. CASE i = Len(established[b]) + 1
        <5>1. Append(established[b], x)[Len(established[b]) + 1] = x
          BY <2>2, <3>1, AppendProperties
        <5>2. established'[b][i] = x
          BY <4>1, <4>3, <5>1
        <5>3. QED
          BY <3>3, <5>2
      <4>4. CASE i \in 1 .. Len(established[b])
        BY <2>2, <3>1, <4>1, <4>4
      <4>5. i = Len(established[b]) + 1 \/ i \in 1 .. Len(established[b])
        <5>1. Len(established[b]) \in Nat
          BY <3>1
        <5>2. QED
          BY <4>2, <5>1
      <4>6. QED
        BY <4>3, <4>4, <4>5
    <3>4. QED
      BY SMTT(60), <3>2, <3>3
  <2>4. ASSUME NEW b \in Addrs, NEW i \in DOMAIN established'[b]
        PROVE  DialAt(established'[b][i], "ok") /\ AddrOf(established'[b][i]) = b
    BY SMTT(60), <2>1, <2>2, <2>3, <2>4 DEF EstablishedHasClient
  <2>5. QED
    BY ZenonT(60), <2>2, <2>4 DEF EstablishedHasClient, DialAt, AddrOf
<1>4. ASSUME ~\E a \in Addrs : HandshakeDone(a) PROVE UNCHANGED established
  BY <1>4 DEF Next, vars, Bind, LoopStep, LoopAccept, LoopSend, LoopAcceptError,
     ForwarderStep, ForwarderReceive, ForwarderSend, ActorLoop, Accept, GetListener, Shutdown,
     Release, SendCommand, DialStep, DialConnect, DialOk, DialFail, Vanish, listenVars
<1>5. QED
  BY <1>2, <1>3, <1>4

\* Every connection the endpoint has established is held by the node that
\* dialled it, at the address where it was accepted: no attempt that timed out
\* or moved on is ever handed out.
THEOREM EstablishedHasClientAlways == Spec => []EstablishedHasClient
<1>1. Init => Placed /\ EstablishedHasClient
  BY DEF Init, Placed, EstablishedHasClient
<1>2. QED
  BY <1>1, AlwaysTyped, NextPlaced, NextClient, PTL DEF Spec
=============================================================================
