------------------------------ MODULE Endpoint ------------------------------
(***************************************************************************)
(* foctet-net's Endpoint: the actor that binds a listener per address, the *)
(* accept loop each transport spawns in listen_on, the task that forwards  *)
(* the connections of one listener to the endpoint's channel, the handles  *)
(* that take them from there, shutdown, and the remote nodes that dial the *)
(* addresses with connect_node (connect is a plan of one address).         *)
(*                                                                         *)
(* A connection is named by its attempt <<p, i>>: the i-th address that    *)
(* peer p dials.  Certificates, addresses inside a connection and session  *)
(* numbers are labels no property tells apart and are left out.            *)
(***************************************************************************)
EXTENDS Naturals, Sequences, FiniteSets

CONSTANTS
  Addrs,         \* EndpointActor.addrs, the addresses to listen on
  TcpAddrs,      \* those served by TcpTransport; the others by QuicTransport
  BadAddrs,      \* those whose listen_on may fail (not resolved, port in use)
  Peers,         \* remote nodes
  Anonymous,     \* peers whose certificate may yield no node id
  Plan,          \* Plan[p]: the addresses connect_node tries, in order
  ListenCap,     \* capacity of a listener's channel (100)
  ConnCap,       \* capacity of the endpoint's channel (100)
  CmdCap,        \* capacity of the command channel (100)
  MaxCommands,   \* bound on send_command calls
  Listens,       \* listen_enabled
  AcceptFails,   \* the socket's accept may return an error
  Vanishes       \* a peer may go silent in the middle of a handshake

ASSUME EndpointAssumption ==
  /\ TcpAddrs \subseteq Addrs /\ BadAddrs \subseteq Addrs /\ Anonymous \subseteq Peers
  /\ Plan \in [Peers -> Seq(Addrs)]
  /\ {ListenCap, ConnCap, CmdCap} \subseteq Nat \ {0} /\ MaxCommands \in Nat
  /\ {Listens, AcceptFails, Vanishes} \subseteq BOOLEAN

VARIABLES
  actor,         \* EndpointActor.run
  unbound,       \* addresses its first loop has still to bind
  cmd_chan,      \* EndpointCommand channel
  cancel,        \* the endpoint's CancellationToken
  sent,          \* commands sent so far
  accept_loop,   \* the task listen_on spawns, per address
  inhand,        \* the connection that task is at
  incoming,      \* connections the socket has not yet given to it
  listen_chan,   \* ConnectionListener.receiver
  forwarder,     \* the task the actor spawns per listener
  forwarding,    \* the connection that task holds
  conn_chan,     \* ListenerHandle.conn_receiver
  holders,       \* who holds the receiving end: the Endpoint, a handle
  taken,         \* connections handed out, per address
  over,          \* some accept has returned None
  shutdown,      \* result of the shutdown call
  dial,          \* connect_node of each peer: [at: address index, st]
  established,   \* connections built by the accept loops, per address
  anonymous      \* the peers whose certificate yields no node id

serverVars == <<actor, unbound, cmd_chan, cancel, sent>>
listenVars == <<accept_loop, inhand, incoming, established>>
forwardVars == <<listen_chan, forwarder, forwarding, conn_chan>>
appVars == <<holders, taken, over, shutdown>>
dialVars == <<dial, anonymous>>
vars == <<serverVars, listenVars, forwardVars, appVars, dialVars>>

Attempt == UNION {{p} \X DOMAIN Plan[p] : p \in Peers}
NoConn == <<>>
Holder == {"endpoint", "handle"}
LoopState == {"none", "accepting", "handshake", "sending", "ended"}
ForwarderState == {"none", "receiving", "sending", "ended"}
DialState == {"trying", "tls", "ok", "err", "vanished"}

AddrOf(x) == Plan[x[1]][x[2]]

\* EndpointBuilder::build, where it makes the channels and spawns the actor.
Init ==
  /\ actor = "alive" /\ unbound = (IF Listens THEN Addrs ELSE {})
  /\ cmd_chan = <<>> /\ cancel = FALSE /\ sent = 0
  /\ accept_loop = [a \in Addrs |-> "none"] /\ inhand = [a \in Addrs |-> NoConn]
  /\ incoming = [a \in Addrs |-> <<>>] /\ listen_chan = [a \in Addrs |-> <<>>]
  /\ forwarder = [a \in Addrs |-> "none"] /\ forwarding = [a \in Addrs |-> NoConn]
  /\ conn_chan = <<>> /\ holders = {"endpoint"} /\ taken = [a \in Addrs |-> <<>>]
  /\ over = FALSE /\ shutdown = "idle"
  /\ dial = [p \in Peers |-> [at |-> 1, st |-> IF Plan[p] = <<>> THEN "err" ELSE "trying"]]
  /\ established = [a \in Addrs |-> <<>>] /\ anonymous \in SUBSET Anonymous

-----------------------------------------------------------------------------
\* EndpointActor::run.  It returns, dropping the command receiver and its own
\* clones of the senders, on a failed bind, a cancellation or a Shutdown.

ActorEnds == actor' = "ended" /\ cmd_chan' = <<>>

\* One turn of the loop over the addresses (a hash set: any order).
Bind(a) ==
  /\ actor = "alive" /\ a \in unbound
  /\ \/ a \in BadAddrs /\ ActorEnds /\ UNCHANGED <<unbound, accept_loop, forwarder>>
     \/ /\ unbound' = unbound \ {a}
        /\ accept_loop' = [accept_loop EXCEPT ![a] = "accepting"]
        /\ forwarder' = [forwarder EXCEPT ![a] = "receiving"]
        /\ UNCHANGED <<actor, cmd_chan>>
  /\ UNCHANGED <<cancel, sent, inhand, incoming, established, listen_chan, forwarding,
                 conn_chan, appVars, dialVars>>

\* The select loop: Connect and Listen are accepted and ignored.  When the
\* Endpoint is dropped without a shutdown, recv returns None, its branch is
\* disabled, and the loop waits for a cancellation that nobody makes.
ActorLoop ==
  /\ actor = "alive" /\ unbound = {}
  /\ \/ cancel /\ ActorEnds
     \/ cmd_chan # <<>> /\ Head(cmd_chan) = "Shutdown" /\ ActorEnds
     \/ /\ cmd_chan # <<>> /\ Head(cmd_chan) # "Shutdown"
        /\ cmd_chan' = Tail(cmd_chan) /\ UNCHANGED actor
  /\ UNCHANGED <<unbound, cancel, sent, listenVars, forwardVars, appVars, dialVars>>

-----------------------------------------------------------------------------
\* The accept loop of TcpTransport::listen_on and QuicTransport::listen_on.
\* Its cancellation branch is never taken: nothing calls
\* ConnectionListener::cancel.

LoopAccept(a) ==
  /\ accept_loop[a] = "accepting" /\ incoming[a] # <<>>
  /\ inhand' = [inhand EXCEPT ![a] = Head(incoming[a])]
  /\ incoming' = [incoming EXCEPT ![a] = Tail(@)]
  /\ accept_loop' = [accept_loop EXCEPT ![a] = "handshake"]
  /\ UNCHANGED <<established, serverVars, forwardVars, appVars, dialVars>>

\* The task ends: the socket is closed, the sender dropped.
LoopEnds(a) ==
  /\ accept_loop' = [accept_loop EXCEPT ![a] = "ended"]
  /\ inhand' = [inhand EXCEPT ![a] = NoConn] /\ incoming' = [incoming EXCEPT ![a] = <<>>]

LoopAcceptError(a) ==
  /\ AcceptFails /\ accept_loop[a] = "accepting" /\ LoopEnds(a)
  /\ UNCHANGED <<established, serverVars, forwardVars, appVars, dialVars>>

\* The client side of attempt x: still at the address, and in state st.
DialAt(x, st) == dial[x[1]] = [at |-> x[2], st |-> st]

\* Mutant: the server does not wait for the client's last flight.
ClientDoneEarly(x) == ~DialAt(x, "vanished")

\* The client's end of the handshake is complete.
ClientDone(x) == DialAt(x, "ok")

\* Mutant: a client that gave up is not noticed.
ClientLostUnnoticed(a, x) == DialAt(x, "vanished") /\ a \notin TcpAddrs

\* The server's end of the handshake can fail.  A client that gave up is
\* noticed; one that went silent is noticed by QUIC's idle timeout only.
ClientLost(a, x) == ~DialAt(x, "tls") /\ (DialAt(x, "vanished") => a \notin TcpAddrs)

\* tls_acceptor.accept / incoming_connection.await resolves.  The client's end
\* of a TLS 1.3 handshake completes first.  A peer without a node id ends the
\* whole loop; a failed handshake does not.
HandshakeDone(a) ==
  LET x == inhand[a] IN
  /\ accept_loop[a] = "handshake"
  /\ \/ /\ ClientDone(x) /\ x[1] \notin anonymous
        /\ accept_loop' = [accept_loop EXCEPT ![a] = "sending"]
        /\ established' = [established EXCEPT ![a] = Append(@, x)]
        /\ UNCHANGED <<inhand, incoming>>
     \/ ClientDone(x) /\ x[1] \in anonymous /\ LoopEnds(a) /\ UNCHANGED established
     \/ /\ ClientLost(a, x)
        /\ accept_loop' = [accept_loop EXCEPT ![a] = "accepting"]
        /\ inhand' = [inhand EXCEPT ![a] = NoConn]
        /\ UNCHANGED <<incoming, established>>
  /\ UNCHANGED <<serverVars, forwardVars, appVars, dialVars>>

\* sender.send(Accepted(conn)).await.  It cannot fail: see ForwarderOutlivesLoop.
LoopSend(a) ==
  /\ accept_loop[a] = "sending" /\ Len(listen_chan[a]) < ListenCap
  /\ listen_chan' = [listen_chan EXCEPT ![a] = Append(@, inhand[a])]
  /\ accept_loop' = [accept_loop EXCEPT ![a] = "accepting"]
  /\ inhand' = [inhand EXCEPT ![a] = NoConn]
  /\ UNCHANGED <<incoming, established, serverVars, forwarder, forwarding, conn_chan, appVars, dialVars>>

-----------------------------------------------------------------------------
\* The forwarding task of one listener.

\* Mutant: an empty channel is taken for a closed one.
ListenerEndedIfEmpty(a) == listen_chan[a] = <<>>

\* The listener's receiver returns None: empty, and the loop has ended.
ListenerEnded(a) == listen_chan[a] = <<>> /\ accept_loop[a] = "ended"

\* listener.accept().await.
ForwarderReceive(a) ==
  /\ forwarder[a] = "receiving"
  /\ \/ /\ listen_chan[a] # <<>>
        /\ forwarding' = [forwarding EXCEPT ![a] = Head(listen_chan[a])]
        /\ listen_chan' = [listen_chan EXCEPT ![a] = Tail(@)]
        /\ forwarder' = [forwarder EXCEPT ![a] = "sending"]
     \/ /\ ListenerEnded(a)
        /\ forwarder' = [forwarder EXCEPT ![a] = "ended"]
        /\ UNCHANGED <<forwarding, listen_chan>>
  /\ UNCHANGED <<conn_chan, serverVars, listenVars, appVars, dialVars>>

\* conn_sender.send(conn).await.  With every receiver gone the connection is
\* dropped, and so is the error event: the Endpoint that would read it is gone.
ForwarderSend(a) ==
  /\ forwarder[a] = "sending"
  /\ \/ /\ holders # {} /\ Len(conn_chan) < ConnCap
        /\ conn_chan' = Append(conn_chan, forwarding[a])
     \/ holders = {} /\ UNCHANGED conn_chan
  /\ forwarding' = [forwarding EXCEPT ![a] = NoConn]
  /\ forwarder' = [forwarder EXCEPT ![a] = "receiving"]
  /\ UNCHANGED <<listen_chan, serverVars, listenVars, appVars, dialVars>>

-----------------------------------------------------------------------------
\* Endpoint and ListenerHandle, as the application calls them.

\* Mutant: only the actor's sender counts.
ActorSenderDropped == actor = "ended"

\* Every sender of the channel is dropped: the actor's, and each forwarder's.
SendersDropped ==
  actor = "ended" /\ \A a \in Addrs : forwarder[a] \in {"none", "ended"}

\* ListenerHandle::accept: the receiver's lock serves one waiter at a time.
Accept ==
  /\ holders # {} /\ ~over
  /\ \/ /\ conn_chan # <<>>
        /\ taken' = [taken EXCEPT ![AddrOf(Head(conn_chan))] = Append(@, Head(conn_chan))]
        /\ conn_chan' = Tail(conn_chan) /\ UNCHANGED over
     \/ /\ conn_chan = <<>> /\ SendersDropped
        /\ over' = TRUE /\ UNCHANGED <<taken, conn_chan>>
  /\ UNCHANGED <<holders, shutdown, serverVars, listenVars, listen_chan, forwarder, forwarding, dialVars>>

GetListener ==
  /\ "endpoint" \in holders /\ holders' = Holder
  /\ UNCHANGED <<taken, over, shutdown, serverVars, listenVars, forwardVars, dialVars>>

\* Mutant: a handle that is dropped closes the channel of all.
QueueAfterAnyDrop(h) == <<>>

\* The receiver, with what is queued, goes with its last holder.
QueueAfterDrop(h) == IF holders = {h} THEN <<>> ELSE conn_chan

\* Dropping the Endpoint or a handle.
Release(h) ==
  /\ h \in holders /\ holders' = holders \ {h}
  /\ conn_chan' = QueueAfterDrop(h)
  /\ UNCHANGED <<taken, over, shutdown, serverVars, listenVars, listen_chan, forwarder, forwarding, dialVars>>

SendCommand(c) ==
  /\ "endpoint" \in holders /\ sent < MaxCommands /\ sent' = sent + 1
  /\ \/ actor # "ended" /\ Len(cmd_chan) < CmdCap /\ cmd_chan' = Append(cmd_chan, c)
     \/ actor = "ended" /\ UNCHANGED cmd_chan
  /\ UNCHANGED <<actor, unbound, cancel, listenVars, forwardVars, appVars, dialVars>>

\* Mutant: try_send, its result ignored, and nothing cancelled.
ShutdownTrySend ==
  /\ "endpoint" \in holders /\ shutdown = "idle" /\ shutdown' = "ok"
  /\ cmd_chan' = IF Len(cmd_chan) < CmdCap THEN Append(cmd_chan, "Shutdown") ELSE cmd_chan
  /\ UNCHANGED <<actor, unbound, cancel, sent, holders, taken, over, listenVars, forwardVars, dialVars>>

\* With the actor gone the send fails and the token is left as it is.
Shutdown ==
  /\ "endpoint" \in holders /\ shutdown = "idle"
  /\ \/ /\ actor # "ended" /\ Len(cmd_chan) < CmdCap
        /\ cmd_chan' = Append(cmd_chan, "Shutdown") /\ cancel' = TRUE /\ shutdown' = "ok"
     \/ actor = "ended" /\ shutdown' = "err" /\ UNCHANGED <<cmd_chan, cancel>>
  /\ UNCHANGED <<actor, unbound, sent, holders, taken, over, listenVars, forwardVars, dialVars>>

-----------------------------------------------------------------------------
\* Endpoint::connect_node at a remote node, over TcpTransport::connect and
\* QuicTransport::connect.

\* Mutant: the same address is tried again.
SameAddress(p) == dial' = [dial EXCEPT ![p].st = "trying"]

\* Mutant: off by one at the end of the list.
HasNextOrEnd(p) == dial[p].at <= Len(Plan[p])

HasNext(p) == dial[p].at < Len(Plan[p])

NextAddress(p) ==
  dial' = [dial EXCEPT ![p] = IF HasNext(p) THEN [at |-> @.at + 1, st |-> "trying"]
                                                 ELSE [@ EXCEPT !.st = "err"]]

\* The transport reaches the address; the TLS handshake starts.
DialConnect(p) ==
  LET a == Plan[p][dial[p].at] IN
  /\ dial[p].st = "trying" /\ accept_loop[a] \notin {"none", "ended"}
  /\ dial' = [dial EXCEPT ![p].st = "tls"]
  /\ incoming' = [incoming EXCEPT ![a] = Append(@, <<p, dial[p].at>>)]
  /\ UNCHANGED <<accept_loop, inhand, established, serverVars, forwardVars, appVars, anonymous>>

\* The handshake completes at the client.
DialOk(p) ==
  LET a == Plan[p][dial[p].at] IN
  /\ dial[p].st = "tls" /\ inhand[a] = <<p, dial[p].at>> /\ accept_loop[a] = "handshake"
  /\ dial' = [dial EXCEPT ![p].st = "ok"]
  /\ UNCHANGED <<serverVars, listenVars, forwardVars, appVars, anonymous>>

\* Refused, not resolved, timed out or rejected: log it and try the next one.
DialFail(p) ==
  /\ dial[p].st \in {"trying", "tls"} /\ NextAddress(p)
  /\ UNCHANGED <<serverVars, listenVars, forwardVars, appVars, anonymous>>

\* The remote machine or the path to it is lost during the handshake.
Vanish(p) ==
  /\ Vanishes /\ dial[p].st = "tls" /\ dial' = [dial EXCEPT ![p].st = "vanished"]
  /\ UNCHANGED <<serverVars, listenVars, forwardVars, appVars, anonymous>>

-----------------------------------------------------------------------------
LoopStep(a) == LoopAccept(a) \/ HandshakeDone(a) \/ LoopSend(a)
ForwarderStep(a) == ForwarderReceive(a) \/ ForwarderSend(a)
DialStep(p) == DialConnect(p) \/ DialOk(p) \/ DialFail(p)

Next ==
  \/ ActorLoop \/ Accept \/ GetListener \/ Shutdown
  \/ \E a \in Addrs : Bind(a) \/ LoopStep(a) \/ LoopAcceptError(a) \/ ForwarderStep(a)
  \/ \E h \in Holder : Release(h)
  \/ \E c \in {"Connect", "Listen"} : SendCommand(c)
  \/ \E p \in Peers : DialStep(p) \/ Vanish(p)

Spec == Init /\ [][Next]_vars

\* Spawned tasks run when they can; connect_node's timers fire; the
\* application accepts in a loop (examples/listen.rs).
FairSpec ==
  /\ Spec /\ WF_vars(ActorLoop) /\ WF_vars(Accept)
  /\ \A a \in Addrs : /\ WF_vars(Bind(a)) /\ WF_vars(LoopStep(a))
                      /\ WF_vars(ForwarderStep(a))
  /\ \A p \in Peers : WF_vars(DialFail(p))

-----------------------------------------------------------------------------
\* Every variable has its type, no queue exceeds its capacity, and a dialling
\* node is always at an address of its plan.
TypeOK ==
  /\ actor \in {"alive", "ended"} /\ unbound \subseteq Addrs
  /\ cmd_chan \in Seq({"Connect", "Listen", "Shutdown"}) /\ Len(cmd_chan) <= CmdCap
  /\ cancel \in BOOLEAN /\ sent \in Nat
  /\ accept_loop \in [Addrs -> LoopState] /\ forwarder \in [Addrs -> ForwarderState]
  /\ inhand \in [Addrs -> Attempt \cup {NoConn}] /\ forwarding \in [Addrs -> Attempt \cup {NoConn}]
  /\ incoming \in [Addrs -> Seq(Attempt)] /\ established \in [Addrs -> Seq(Attempt)]
  /\ listen_chan \in [Addrs -> Seq(Attempt)] /\ taken \in [Addrs -> Seq(Attempt)]
  /\ conn_chan \in Seq(Attempt)
  /\ Len(conn_chan) <= ConnCap /\ \A a \in Addrs : Len(listen_chan[a]) <= ListenCap
  /\ holders \subseteq Holder /\ over \in BOOLEAN /\ shutdown \in {"idle", "ok", "err"}
  /\ dial \in [Peers -> [at : Nat, st : DialState]]
  /\ \A p \in Peers : dial[p].st # "err" => dial[p].at \in DOMAIN Plan[p]

\* While an accept loop can still send, the task that receives from it lives:
\* the send of an accepted connection cannot fail and cannot end the loop.
ForwarderOutlivesLoop ==
  \A a \in Addrs :
    /\ accept_loop[a] = "none" <=> forwarder[a] = "none"
    /\ forwarder[a] = "ended" => accept_loop[a] = "ended" /\ listen_chan[a] = <<>>

\* Once an accept has returned None no task holds or queues a connection and
\* none can accept another one.
NoneIsFinal ==
  over => /\ actor = "ended" /\ conn_chan = <<>>
          /\ \A a \in Addrs : /\ accept_loop[a] \in {"none", "ended"}
                              /\ forwarder[a] \in {"none", "ended"}
                              /\ listen_chan[a] = <<>>

\* A connection the endpoint hands out is the one its dialling node holds: a
\* node that timed out and went on to another address, or whose call failed,
\* leaves no established connection behind.
EstablishedHasClient ==
  \A a \in Addrs : \A i \in DOMAIN established[a] :
    DialAt(established[a][i], "ok") /\ AddrOf(established[a][i]) = a

\* The endpoint implements what AcceptService promises.
Service == INSTANCE AcceptService WITH Conns <- Attempt, open <- holders # {}
ImplementsAccept == Service!Spec

\* connect_node returns, whatever the listeners do: every await has a timeout.
DialReturns == <>(\A p \in Peers : dial[p].st \in {"ok", "err", "vanished"})

\* A shutdown that returned Ok ends the actor, however many commands are queued.
ShutdownEndsActor == (shutdown = "ok") ~> (actor = "ended")

\* The connections waiting at a listening socket are all looked at, unless a
\* peer fell silent in a TLS handshake over TCP: that await has no timeout, and
\* the accept loop stays in it.
Stuck(a) ==
  a \in TcpAddrs /\ accept_loop[a] = "handshake" /\ DialAt(inhand[a], "vanished")
BacklogDrains == []<>(\A a \in Addrs : incoming[a] = <<>> \/ Stuck(a))
=============================================================================
