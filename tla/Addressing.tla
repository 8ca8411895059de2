----------------------------- MODULE Addressing -----------------------------
(***************************************************************************)
(* The addresses of a foctet node: what EndpointBuilder::build listens on  *)
(* and advertises, and the list of addresses connect_node tries.           *)
(*                                                                         *)
(* A StackAddr is [ip, port, proto, dns]: the properties tell nothing      *)
(* apart by its identity or path.  Sets of addresses are sets; BTreeSet    *)
(* iterates in the order Before.                                           *)
(***************************************************************************)
EXTENDS IpRanges, FiniteSets, SequencesExt

CONSTANTS
  Names,         \* Names[d]: what a lookup of a d name answers, in order
  ServerPort     \* DEFAULT_SERVER_PORT

NoIp == [fam |-> 0, seg |-> <<>>]
Iface(nets) == [up |-> TRUE, nets |-> nets]
NoIface == [up |-> FALSE, nets |-> {}]
Kind == {"Quic", "TlsOverTcp"}

Addr(ip, port, proto) == [ip |-> ip, port |-> port, proto |-> proto, dns |-> "none"]

\* TransportKind::from_protocol; "unsupported" is its error.
from_protocol(proto) ==
  CASE proto \in {"Udp", "Quic"} -> "Quic"
    [] proto \in {"Tcp", "TlsOverTcp"} -> "TlsOverTcp"
    [] OTHER -> "unsupported"

\* The protocol of an address that the builder makes for a transport.
ProtocolOf(kind) == IF kind = "Quic" THEN "Quic" ELSE "TlsOverTcp"

\* Resolver::resolve_addr: the first answer, or an error (an address without ip).
resolve_addr(a) ==
  IF a.ip # NoIp \/ a.dns = "none" \/ Names[a.dns] = <<>> THEN a
  ELSE [a EXCEPT !.ip = Names[a.dns][1]]

-----------------------------------------------------------------------------
\* device.rs.

Unspecified(fam) ==
  IF fam = 4 THEN V4(0, 0, 0, 0) ELSE V6(0, 0, 0, 0, 0, 0, 0, 0)

get_unspecified_server_addr(iface) ==
  IF \E net \in iface.nets : net.fam = 6 THEN Unspecified(6) ELSE Unspecified(4)

get_default_server_addrs(iface, include_loopback) ==
  IF ~iface.up THEN {}
  ELSE {[fam |-> net.fam, seg |-> net.seg] : net \in iface.nets}
       \cup (IF include_loopback THEN {V4(127, 0, 0, 1), V6(0, 0, 0, 0, 0, 0, 0, 1)} ELSE {})

\* sort_by_key is stable: the ranks in descending order, each in list order.
sort_addrs_by_reachability(addrs, iface) ==
  LET OfRank(r) == SelectSeq(addrs, LAMBDA a : a.ip # NoIp /\ rank_ip(a.ip, iface) = r)
  IN OfRank(3) \o OfRank(2) \o OfRank(1) \o OfRank(0)

-----------------------------------------------------------------------------
\* endpoint.rs.

get_unspecified_stack_addrs(protocols, iface) ==
  {Addr(get_unspecified_server_addr(iface), ServerPort, ProtocolOf(k)) : k \in Range(protocols)}

get_default_stack_addrs(protocols, iface, allow_loopback) ==
  {Addr(ip, ServerPort, ProtocolOf(k)) :
     ip \in get_default_server_addrs(iface, allow_loopback), k \in Range(protocols)}

\* Mutant: the default port instead of the one asked for.
ActualAddrsDefaultPort(a, protocols, iface, allow_loopback) ==
  {Addr(ip, ServerPort, ProtocolOf(k)) :
     ip \in {i \in get_default_server_addrs(iface, allow_loopback) : i.fam = a.ip.fam},
     k \in Range(protocols)}

\* What an unspecified address becomes: every address of the interface of its
\* family, with its port, for every transport of the builder.
ActualAddrs(a, protocols, iface, allow_loopback) ==
  {Addr(ip, a.port, ProtocolOf(k)) :
     ip \in {i \in get_default_server_addrs(iface, allow_loopback) : i.fam = a.ip.fam},
     k \in Range(protocols)}

replace_with_actual_addrs(addrs, protocols, iface, allow_loopback) ==
  UNION {CASE a.ip = NoIp -> {}
           [] a.ip # NoIp /\ is_unspecified(a.ip) -> ActualAddrs(a, protocols, iface, allow_loopback)
           [] OTHER -> {a} : a \in addrs}

-----------------------------------------------------------------------------
\* NodeAddr::get_direct_addrs and Endpoint::connect_node.

\* The order of StackAddr: its segments, the address first.
Before(a, b) ==
  LET x == <<a.ip.fam>> \o a.ip.seg \o <<IF a.proto = "Quic" THEN 1 ELSE 0, a.port>>
      y == <<b.ip.fam>> \o b.ip.seg \o <<IF b.proto = "Quic" THEN 1 ELSE 0, b.port>>
  IN \E i \in DOMAIN x \cap DOMAIN y : x[i] < y[i] /\ \A j \in 1..(i - 1) : x[j] = y[j]

\* An address get_direct_addrs keeps.
Direct(a, kind, allow_loopback) ==
  /\ a.ip # NoIp /\ (is_loopback(a.ip) => allow_loopback)
  /\ from_protocol(a.proto) = kind

get_direct_addrs(addresses, kind, allow_loopback) ==
  SetToSortSeq({a \in addresses : Direct(a, kind, allow_loopback)}, Before)

\* Mutant: the addresses of a transport are not sorted by reachability.
DialPlanUnranked(d, addresses) ==
  IF ~d.iface.up THEN <<>>
  ELSE FlattenSeq([i \in DOMAIN d.protocols |->
                     get_direct_addrs(addresses, d.protocols[i], d.allow_loopback)])

\* The addresses connect_node tries, in order: by the priority of the
\* transport, then by rank.
DialPlan(d, addresses) ==
  IF ~d.iface.up THEN <<>>
  ELSE FlattenSeq([i \in DOMAIN d.protocols |->
         sort_addrs_by_reachability(
           get_direct_addrs(addresses, d.protocols[i], d.allow_loopback), d.iface)])
=============================================================================
