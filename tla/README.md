# A verification of foctet in TLA+

foctet is a Rust framework for peer-to-peer communication over QUIC and over
TCP with TLS. This directory models its concurrent core and states what makes it
correct. TLC checks the properties on small instances; TLAPS proves 20 of them for
every value of the constants.

## The system

| Crate | Part | Source | Here |
|---|---|---|---|
| foctet-core | frames, flags, stream ids | `frame.rs`, `stream.rs` | `Frames` |
| foctet-core | frame codec | `codec.rs` | `FrameCodec`, `FrameChannel` |
| foctet-mux | logical streams | `stream.rs` | `StreamStates`, `MuxSession`, `StreamHandles` |
| foctet-mux | session | `session.rs` | `MuxSession`, `MuxService`, `StreamService` |
| foctet-net | streams of both transports, connections | `transport/*/stream.rs`, `transport/*/connection.rs` | `StreamHandles` |
| foctet-net | send_file, receive_file and the example programs | `transport/*/stream.rs`, `examples/` | `FileTransfer` |
| foctet-net | both transports, endpoint | `transport/*/transport.rs`, `endpoint.rs` | `Endpoint`, `AcceptService` |
| foctet-net | endpoint builder | `endpoint.rs` | `EndpointBuilder` |
| foctet-net, foctet-core | address selection, name resolution | `device.rs`, `dns/mod.rs`, `addr/node.rs`, `ip.rs` | `Addressing`, `IpRanges` |
| both | TLS, keys, ids, metadata, hashing, configuration | | not modelled |

An endpoint is an actor that binds a listener per address. Each listener is an
accept loop with a bounded channel, and a forwarding task moves its connections
into the one channel `accept` reads. A node that dials tries a list of addresses.
A TCP connection carries one mux session per side. A session is a task, the
`SessionActor`, which owns the stream tables and serves in a `select!` loop the
frames of the connection, the commands of the `Session` handle, the events of
the logical streams, and a cancellation token. Every hop is a bounded channel.
A handler that awaits stops the loop. QUIC connections use quinn's own streams
and no session. Files are transferred over either kind of stream.

`PROJECT.json` lists all components, the lines each definition models, and the
hazards: what can go wrong in this code that a test would hardly reach.

## Modules

**Frames**, **StreamStates.** The values: a frame is its stream id, its set of
flags and a body (0, or n for the n-th data frame of a stream); the state of a
logical stream, and what `close()` and a received frame do to it.
`MaxStreamId` stands for `u32::MAX`; `fetch_add` wraps to 0 as the code does.

**MuxSession.** Two sessions, `"client"` and `"server"`, over one connection.

| Variable | Code |
|---|---|
| `pc`, `cur` | the await at which the actor is, and the frame its handler holds |
| `next_stream_id`, `pending_streams`, `streams`, `local_closed`, `remote_closed` | the actor's fields; maps are total functions, 0 for no entry |
| `event_chan`, `control_chan`, `stream_chan` | the mpsc channels of `Session::spawn` |
| `wire`, `link` | frames written and not yet read; what follows them (open, a clean end, an error) |
| `logical` | every stream a side has created: its state, channel, events still to be sent, what was sent and received |
| `calls`, `closer`, `cancel`, `held` | the calls of the application on the `Session` |

An action is what runs between two awaits. So a frame for a known stream is
`ReceiveForStream` (taken from the connection) followed by `Deliver` (the channel
has room, or its receiver is gone). An open request is `ReceiveOpenRequest`,
`Offer`, then `WriteOk` or `WriteError`. `Abort` is the drop of the task at any
await, when the `Session` is dropped. Application actions begin operations
(`SendBytes`, `Close`) and `SendEvent` does their awaits one by one.

A read error and a clean end differ. The first ends the loop. The second makes
the `Some(..)` pattern of `select!` fail and has no step. A dropped session shows
as an error at the peer, since a TLS connection without a closing alert does; a
session that closes its writer shows as a clean end.

**StreamService**, **MuxService.** What the sessions promise without sessions,
frames or channels, and the mapping under which `MuxSession` implements it: the
service's ends are the logical streams with their id, what they sent and what
they received.

**FrameCodec**, **FrameChannel.** One direction at the level of bytes. The header
has its five fields in order and width, 14 bytes over an alphabet of `Base` of them;
`decode` is the two-state decoder. `FrameChannel` is
what `MuxSession` takes a connection to be: whole frames, in order, once.

**FileTransfer.** Request, metadata, chunks and the end of the transfer, for both
transports. A byte is its position in the file. The file may have another size
than the metadata says. It ends when `receive_file` returns; the closing of the
stream afterwards belongs to `MuxSession`.

**StreamHandles.** One stream between its opener and its acceptor, over either
transport (`kind`), held whole or in halves (`form`), used by `send` and `receive` or
by `AsyncRead` and `AsyncWrite` (`api`). Between them is a bounded pipe of units: the
length-delimited chunks of a QUIC stream, or the frames of a logical stream. `writer`
is the send or close a side is in, `held` what `FramedWrite` has taken and not
flushed, `fin`, `closes` and `gone` how far a direction is closed. Calls are two steps
or more, so that a caller can give up in between (`Abandon`). `ReadTcp` keeps what
`poll_read` of a logical stream does: it parks without a waker, panics on a frame
larger than the buffer, and reads an empty frame or a close request as the end.
How a session carries the frames is `MuxSession`'s subject.

**Endpoint.** `actor`, `unbound`, `cmd_chan`, `cancel` are the `EndpointActor`;
`accept_loop`, `inhand`, `incoming` the task of `listen_on` and its socket;
`listen_chan`, `forwarder`, `forwarding`, `conn_chan` the way of a connection to the
handles; `holders`, `taken`, `over`, `shutdown` the application; `dial` the remote nodes
in `connect_node`. `established` records what the accept loops built. A client's
handshake completes before the server's, so a client may time out or fall silent at
any point of it. **AcceptService** is what an endpoint promises: the connections of a
listener come out once and in order, none is lost while somebody accepts, and
`None` is the end.

**IpRanges**, **Addressing**, **EndpointBuilder.** `ip.rs` and the ranking of
`device.rs` over full addresses (4 octets, 8 segments), with the blocks of the IANA
registries as the reference definition (`Registered`); the sets of addresses a
builder listens on and advertises, and the list `connect_node` tries; the builder's
calls in any order.

**MC modules** give constants their values. Operators marked *Mutant* are wrong
versions of the definition that follows them. Each property is known to fail
when its mutant takes the place of the definition; `PROJECT.json` pairs them.

## Runs

| Run | Checks | States |
|---|---|---|
| `mux_open` | `OpenAccounted`, `ServedOnce`, `ImplementsService`, with failures, drops and rejected calls | 811,136 |
| `mux_data` | `Conserved`, `RoutesToOwnId`, `ClosedReleased`, `RemoteCloseObserved`, `ImplementsService` | 685,383 |
| `mux_live` | `TypeOK`, `OpenReturns`, `ShutdownCompletes`, `BreakReachesPeer`, `DataArrives` | 48,532 |
| `codec` | `TypeOK`, `EndIsComplete`, `ImplementsChannel`, `ClosedDrains` | 8,933 |
| `streams` | `TypeOK`, `MessagesInUnits`, `EndIsComplete`, `SendReturns`, `ReceiveReturns`, `WrittenIsAccepted` | 305,480 |
| `file` | `TypeOK`, `SavedIsPrefix`, `OkIsWholeOverTcp`, `TransferReturns` | 2,095 |
| `endpoint` | `TypeOK`, `ForwarderOutlivesLoop`, `NoneIsFinal`, `EstablishedHasClient`, `ImplementsAccept`, `DialReturns`, `ShutdownEndsActor`, `BacklogDrains` | 150,768 |
| `builder` | `TypeOK`, `ListenersDialled`, `DialOrder`, `GlobalAsRegistered`, `AdvertisedIsListenedIfSpecified` | 516,492 |

Four runs show the code differing from what the repository says of it:

| Run | What happens |
|---|---|
| `mux_id_collision` | both sides count ids by 1 from 1 and 2, so they meet |
| `mux_clean_end` | an orderly shutdown leaves the peer's actor running |
| `mux_full_duplex` | two actors block in writes and neither reads |
| `file_quic_short` | a QUIC transfer that breaks off is reported as a success |

These delimit the passing runs: in `mux_open`, `mux_data` and `mux_live` only the
client opens streams, and in `mux_live` one side sends data. In `mux_data` the
client's end is split and the server's is whole; `RemoteCloseObserved` is about the
whole one, since the split reader ignores the close flags.

The liveness properties name the ways in which the code does not make progress:

- `Jammed`: both actors wait for room in a full socket. Data in one direction does
  not lead there, but an actor that closes its writer stops reading, and with three
  calls under way `mux_live` reaches a jam between `shutdown()` on one side and open
  responses on the other. `OpenReturns` and `ShutdownCompletes` say that nothing
  else keeps a call from returning.
- A clean end of the connection, which `select!` ignores: an `open_stream` call then
  waits on (`OpenReturns`).
- An id that wraps around to a stream still in use: the new request is delivered to
  that stream and never answered. In `mux_live` ids wrap to 0 and none is used twice.
- A TCP provider that gives up a transfer: dropping a logical stream sends nothing
  (`TransferReturns`). Nor does a transfer end when the file no longer has the
  announced length, or that length is 0.
- A silent peer in a TLS handshake over TCP: the accept loop awaits it without a
  timeout, and nothing else at that address is looked at (`Stuck` in `BacklogDrains`).
- Two whole streams that send to each other into full pipes, and a reader of a
  logical stream that is parked or has panicked (`Stalled` in `SendReturns`).

Further comments and oddities of the code have no run. Id 0, which `lib.rs` reserves
for the session, is used after 2^32 streams. `local_closed` is set and never read.
`pick_best_addr`, which nothing calls, returns the last of equally good addresses
and not the first. `shutdown` of an endpoint ends the actor only: listeners keep
accepting and `accept` does not come to return `None`. An unspecified listen address
is advertised for every transport of the builder, also those without a listener on
that port, and a machine without IPv6 that allows loopback advertises `::1`, so
`AdvertisedIsListenedIfSpecified` is stated for specified and default addresses.
Addresses given by name are listened on and neither advertised nor dialled, so
`ListenersDialled` is stated for addresses given by number. A payload of 2^32 bytes
would not fit its length field (`CodecAssumption`); no caller comes near it.

**Bounds.** Channels and sockets have capacity 1, where the code has 8, 32, 100 and a
buffer: a full channel, and a task that waits on it, is then met at once.
`MaxStreamId` is 2 in `mux_live`, where the third of three calls gets the wrapped id,
and larger than the number of calls elsewhere. Two sends and two closes per stream
reach every stream state and a frame behind a close. In the codec a pipe of 4 bytes
is shorter than the header of 14; in the file runs 5 bytes are cut into chunks of 1 to
3, and files of 3 and 7 bytes are shorter and longer than announced. In `streams` a
message of 3 bytes exceeds both the buffer of 2 and the reader's room of 2, and the
empty message is the other edge. `endpoint` has one listener of each kind, a node
that falls back from one to the other and one that competes with it for the TCP
listener. `builder` takes every pair out of both ends, and the neighbours of both
ends, of every address block, the unspecified addresses, names that resolve to
two, one and no address, and an unsupported transport.

**Deadlock** is not checked: sessions, transfers, connections and endpoints may all
end, a builder is done once built, and applications may stop calling.

**Fairness.** A tokio task that can go on is polled again, and `select!` starts from
a random branch, so a branch that stays ready is taken in the end: weak fairness
for each branch and each await. Applications are assumed to accept streams and to
read the ones they hold, and to accept connections in a loop, as the example programs
do. The timeouts of `connect_node` fire. Nobody is assumed to open, send, close, drop,
shut down, fail, or complete a handshake.

## Proofs

| Theorem | Module |
|---|---|
| `TypeCorrect`: `Spec => []TypeOK` | `MuxSessionProofs` |
| `RoutesToOwnIdAlways`: `Spec => []RoutesToOwnId` | `MuxSessionProofs` |
| `OpenAccountedAlways`: `Spec => []OpenAccounted` | `MuxOpenProofs` |
| `ServedOnceAlways`: `Spec => []ServedOnce` | `MuxOpenProofs` |
| `ClosedReleasedAlways`: `Spec => []ClosedReleased`, if no application builds a close response | `MuxOpenProofs` |
| `PendingIdFreshOneOpener`: `Spec => []PendingIdFresh`, if one side only opens streams | `MuxIdProofs` |
| `RemoteCloseObservedOneOpener`: `Spec => []RemoteCloseObserved`, if also no application builds a reset | `MuxIdProofs` |
| `CodecTyped`: `Spec => []TypeOK` | `FrameCodecProofs` |
| `EndComplete`: `Spec => []EndIsComplete` | `FrameCodecProofs` |
| `CodecIsChannel`: `Spec => ImplementsChannel` | `FrameCodecProofs` |
| `EndpointTypeCorrect`: `Spec => []TypeOK` | `EndpointProofs` |
| `ForwarderOutlivesLoopAlways`: `Spec => []ForwarderOutlivesLoop` | `EndpointProofs` |
| `NoneIsFinalAlways`: `Spec => []NoneIsFinal` | `EndpointProofs` |
| `EstablishedHasClientAlways`: `Spec => []EstablishedHasClient` | `EndpointProofs` |
| `GlobalIsUnregistered`: `is_global_ip(ip) <=> ~Registered(ip)` for every address | `IpRangesProofs` |
| `BuilderTyped`: `Spec => []TypeOK` | `EndpointBuilderProofs` |
| `GlobalAsRegisteredAlways`: `Spec => []GlobalAsRegistered` | `EndpointBuilderProofs` |
| `AdvertisedIsListened`: `Spec => []AdvertisedIsListenedIfSpecified` | `EndpointBuilderProofs` |
| `TransferTypeCorrect`: `Spec => []TypeOK` | `FileTransferProofs` |
| `SavedIsPrefixAlways`: `Spec => []SavedIsPrefix` | `FileTransferProofs` |
| `OkIsWholeOverTcpAlways`: `Spec => []OkIsWholeOverTcp` | `FileTransferProofs` |

They hold for all capacities, id ranges, frames, addresses, interfaces, peers,
dialling plans, file and chunk sizes, scenarios and bounds, from the named assumptions
of the modules only: `MaxStreamIdAssumption`, `CapAssumption` and `ScenarioAssumption`
for sessions, `CodecAssumption`, `EndpointAssumption`, `BuilderAssumption` and
`TransferAssumption`. Three theorems about sessions have hypotheses on the scenario
besides, which the runs that check these properties meet: frames an application builds
itself (`RawFrames`) could say anything, and two openers make ids meet
(`mux_id_collision`).

`OpenAccounted` is not inductive: when an open response removes a call from
`pending_streams`, another call could lose its place only if two shared an entry.
So it is proved together with `ServedOnce`, `TypeOK` and `CallsKnown` (every queued
or pending number is a call that was made), as `OpenInv`. The proof has one lemma
per kind of step: calls get an outcome, an entry is removed, a command is queued, a
command moves from the queue to the table, the actor is dropped.

`RoutesToOwnId` follows from two facts that most actions share: `IdsKept`, no
stream changes its id or disappears, and `NoInsert`, no entry of the table is new.
Only the two actions that register a stream need an argument of their own.

The properties about closing need to know where a frame can come from. `Made(F)`
says it once: every frame on the wire, in a channel, in an event or in hand is one the
code makes (an open frame of an actor, a control or data frame of a stream) or one of
the frames `F` of the application. `ClosedReleased` is then strengthened by `Released`,
which follows a close until the session has taken the `Closed` event (`Told`).

`PendingIdFresh` is false when both sides open streams. With one opener `o` whose ids do
not wrap, `IdInv(o)` follows the life of an id: it is asked for once (the calls in the
control channel are in order and there is an id for each, `Numbers`), made by the peer
and answered once, then made by the opener; requests go one way and responses the
other. `RemoteCloseObserved` rests on the same invariant, since a second open frame
for an id would reset the state of the stream that observed the close (`Knows`).

For the codec, the bytes on the way are at all times the encodings of the frames
sent and not yet received, less what the decoder has consumed, and the decoder's
state is a function of the cut. Integers have 4 bytes, so that reading back what
`put_u32` wrote is arithmetic and no induction.

For addresses, each block of the registries becomes a condition on the segments of an
address (`Registry4`, `Registry6`), and the conditions are compared with the masks and
ranges of the code; the runs check only both ends of each block. The builder's
theorems follow from what `build` leaves, which no later call changes (`Inv`).

For the endpoint, that a channel holds only connections needs `HandsFull`: a task
that is at a connection has one in hand. `NoneIsFinal` rests on
`ForwarderOutlivesLoop`, because `accept` returns `None` when the senders of the
forwarding tasks are gone, which says something of the accept loops only if a
forwarding task outlives its loop; and on `Unused`, the empty channel of a listener
that was never bound. `EstablishedHasClient` needs `Placed`: an attempt queues at the
address it is for. A client that has completed its handshake stays so (`OkStays`).

`SavedIsPrefix` says nothing of what is under way, on which the next chunk depends.
`InOrder` does: the chunks under way are runs of positions, each starts where the
one before ends, the first where the saved bytes end, and the last ends where
`send_file` is. `OneRequest` excludes a second answer that starts from the beginning.
Over TCP a success needs the announced length, since only a QUIC stream has an end
(`FinIsQuic`).

The stream handles, `Conserved`, `ListenersDialled`, `DialOrder`, the refinements of
`StreamService` and `AcceptService`, and all liveness properties are model-checked only.
Liveness and ENABLED are beyond the prover, and so is induction over what a fold
computes, which the sorted and flattened lists of `DialPlan` and `MessagesInUnits` need.

## Not modelled

- TLS configuration, certificates and their verification: calls into rustls, rcgen
  and x509-parser. `Endpoint` has a handshake complete, fail, or yield no node id.
- Keys, ids, tickets, metadata, hashing: value types and library calls that change
  no state. Configuration: constants and setters.
- The lookup behind `resolve_addr`, quinn, and tokio's channels are external: they are
  modelled by how this code uses them.
- The numbers a QUIC connection gives its streams: local counters that nothing reads.
- `set_state` of a logical stream, with which an application may set any state; and
  `poll_shutdown`, `keepalive_tick` and the relay actor, which are empty.
- `StreamEvent::Error` and `EndpointEvent`: the first is never sent, the second has no
  reader. `ConnectionListener::cancel` is never called.
- Functions nothing calls: `pick_best_addr`, the server addresses of one family.
- The race of `close()` of a split writer with its reader over the shared state: the
  split reader changes the state only for open, response and reset frames, and a
  peer's stream sends those only when its application builds one by hand.
