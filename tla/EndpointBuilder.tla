--------------------------- MODULE EndpointBuilder ---------------------------
(***************************************************************************)
(* foctet-net's EndpointBuilder: the calls that configure an endpoint, in  *)
(* any order, and build, which fixes what the actor listens on and what    *)
(* node_addr advertises.  Dialers are remote nodes that are given the      *)
(* advertised addresses and call connect_node.                             *)
(***************************************************************************)
EXTENDS Addressing

CONSTANTS
  Inputs,        \* addresses with_addr may be given
  MaxAddrs,      \* bound on the addresses given
  Ifaces,        \* what get_default_interface may return
  Dialers        \* remote nodes: [protocols, allow_loopback, iface]

ASSUME BuilderAssumption ==
  /\ MaxAddrs \in Nat /\ \A d \in Dialers : d.iface.up
  /\ \A a \in Inputs : a.ip = NoIp \/ a.ip \in IpAddr
  /\ \A i \in Ifaces : \A net \in i.nets : [fam |-> net.fam, seg |-> net.seg] \in IpAddr

VARIABLES
  stage,           \* "building", "failed" (a call returned Err), "built"
  protocols,       \* EndpointBuilder.protocols
  addrs,           \* EndpointBuilder.addrs
  listen_enabled,
  allow_loopback,
  iface,           \* the default interface of the machine
  listens,         \* EndpointActor.addrs
  direct_addrs     \* Endpoint.addrs, what node_addr returns

options == <<listen_enabled, allow_loopback, iface>>
results == <<listens, direct_addrs>>
vars == <<stage, protocols, addrs, options, results>>

\* EndpointBuilder::new, or ::default: QUIC on the unspecified IPv4 address.
Init ==
  /\ stage = "building" /\ listen_enabled = TRUE /\ allow_loopback = FALSE
  /\ iface \in Ifaces /\ listens = {} /\ direct_addrs = {}
  /\ \/ protocols = <<>> /\ addrs = {}
     \/ protocols = <<"Quic">> /\ addrs = {Addr(Unspecified(4), ServerPort, "Quic")}

\* Mutant: a transport that is asked for twice is listed twice.
PushAlways(kind) == protocols' = Append(protocols, kind)

push_protocol(kind) ==
  protocols' = IF kind \in Range(protocols) THEN protocols ELSE Append(protocols, kind)

\* with_quic, with_tcp.
WithTransport(kind) ==
  /\ stage = "building" /\ push_protocol(kind)
  /\ UNCHANGED <<stage, addrs, options, results>>

\* An address of no supported transport consumes the builder.
with_addr(a) ==
  /\ stage = "building" /\ Cardinality(addrs) < MaxAddrs
  /\ \/ /\ from_protocol(a.proto) \in Kind /\ push_protocol(from_protocol(a.proto))
        /\ addrs' = addrs \cup {a} /\ UNCHANGED stage
     \/ /\ from_protocol(a.proto) \notin Kind /\ stage' = "failed"
        /\ UNCHANGED <<protocols, addrs>>
  /\ UNCHANGED <<options, results>>

without_listen ==
  /\ stage = "building" /\ listen_enabled' = FALSE
  /\ UNCHANGED <<stage, protocols, addrs, allow_loopback, iface, results>>

set_allow_loopback(allow) ==
  /\ stage = "building" /\ allow_loopback' = allow
  /\ UNCHANGED <<stage, protocols, addrs, listen_enabled, iface, results>>

\* Mutant: without an address given, nothing is listened on.
BuildListensOnGiven ==
  /\ stage = "building" /\ stage' = "built"
  /\ listens' = addrs
  /\ direct_addrs' =
       IF addrs = {} THEN get_default_stack_addrs(protocols, iface, allow_loopback)
       ELSE replace_with_actual_addrs(addrs, protocols, iface, allow_loopback)
  /\ UNCHANGED <<protocols, addrs, options>>

build ==
  /\ stage = "building" /\ stage' = "built"
  /\ listens' = IF addrs = {} THEN get_unspecified_stack_addrs(protocols, iface) ELSE addrs
  /\ direct_addrs' =
       IF addrs = {} THEN get_default_stack_addrs(protocols, iface, allow_loopback)
       ELSE replace_with_actual_addrs(addrs, protocols, iface, allow_loopback)
  /\ UNCHANGED <<protocols, addrs, options>>

Next ==
  \/ \E kind \in Kind : WithTransport(kind)
  \/ \E a \in Inputs : with_addr(a)
  \/ without_listen
  \/ \E allow \in BOOLEAN : set_allow_loopback(allow)
  \/ build

Spec == Init /\ [][Next]_vars

global_node_addr == {a \in direct_addrs : a.ip # NoIp /\ is_global_ip(a.ip)}

-----------------------------------------------------------------------------
\* Where a dial to x arrives at a socket bound to l: same transport and port,
\* and the address of l, or any (an unspecified IPv6 socket takes both families).
Covers(l, x) ==
  /\ from_protocol(l.proto) = from_protocol(x.proto) /\ l.port = x.port
  /\ \/ l.ip = x.ip
     \/ is_unspecified(l.ip) /\ (l.ip.fam = x.ip.fam \/ l.ip.fam = 6)

\* The sockets the actor binds, once names are resolved.
Sockets ==
  IF listen_enabled THEN {l \in {resolve_addr(a) : a \in listens} : l.ip # NoIp} ELSE {}

\* Every variable has its type, and a transport has one priority.
TypeOK ==
  /\ stage \in {"building", "failed", "built"} /\ protocols \in Seq(Kind)
  /\ IsInjective(protocols) /\ addrs \subseteq Inputs \cup {Addr(Unspecified(4), ServerPort, "Quic")}
  /\ {listen_enabled, allow_loopback} \subseteq BOOLEAN /\ iface \in Ifaces
  /\ stage # "built" => listens = {} /\ direct_addrs = {}

\* A node given the advertised addresses tries every one that a listener was
\* asked for by number and, for an unspecified one, every address of the
\* interface of its family: with_addr, the replacement of unspecified
\* addresses, get_direct_addrs and the sort lose none of them.
ListenersDialled ==
  \A l \in listens, d \in Dialers :
    l.ip # NoIp /\ from_protocol(l.proto) \in Range(d.protocols) =>
      LET wanted == IF is_unspecified(l.ip)
                    THEN {Addr([fam |-> n.fam, seg |-> n.seg], l.port, l.proto) :
                            n \in {m \in iface.nets : m.fam = l.ip.fam}}
                    ELSE {l}
      IN \A x \in wanted :
           (is_loopback(x.ip) => d.allow_loopback) =>
             \E y \in Range(DialPlan(d, direct_addrs)) :
               y.ip = x.ip /\ y.port = x.port /\ from_protocol(y.proto) = from_protocol(x.proto)

\* connect_node tries the addresses by the dialling node's order of transports,
\* nearer addresses first, equally near ones by address, each of them once, and
\* a loopback address only where that is allowed.
DialOrder ==
  \A d \in Dialers :
    LET plan == DialPlan(d, direct_addrs)
        At(i) == CHOOSE k \in DOMAIN d.protocols : d.protocols[k] = from_protocol(plan[i].proto)
        RankOf(i) == rank_ip(plan[i].ip, d.iface)
    IN /\ \A i \in DOMAIN plan : is_loopback(plan[i].ip) => d.allow_loopback
       /\ \A i, j \in DOMAIN plan : i < j =>
            \/ At(i) < At(j)
            \/ At(i) = At(j) /\ RankOf(i) > RankOf(j)
            \/ At(i) = At(j) /\ RankOf(i) = RankOf(j) /\ Before(plan[i], plan[j])

\* global_node_addr gives exactly the advertised addresses that the registries
\* cited by ip.rs list as globally reachable.
GlobalAsRegistered ==
  global_node_addr = {a \in direct_addrs : a.ip # NoIp /\ ~Registered(a.ip)}

\* What an endpoint that listens advertises can be dialled, if its listen
\* addresses are all specified or it was given none and takes the default ones:
\* some socket takes the address.  The exception is a machine without IPv6 that
\* allows loopback: it advertises the IPv6 one, which nobody listens on.
AdvertisedIsListenedIfSpecified ==
  stage = "built" /\ listen_enabled /\ (\A a \in addrs : a.ip = NoIp \/ ~is_unspecified(a.ip)) =>
    \A x \in direct_addrs :
      \/ \E l \in Sockets : Covers(l, x)
      \/ x.ip.fam = 6 /\ is_loopback(x.ip) /\ \A net \in iface.nets : net.fam = 4
=============================================================================
