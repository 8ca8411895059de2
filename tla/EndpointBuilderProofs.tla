------------------------- MODULE EndpointBuilderProofs -------------------------
(***************************************************************************)
(* Theorems about EndpointBuilder: its type invariant, and what follows    *)
(* for the addresses an endpoint advertises from what build leaves.  After *)
(* build no call changes anything, so the listeners and the advertised     *)
(* addresses stay the ones of the final configuration (Inv).               *)
(***************************************************************************)
EXTENDS EndpointBuilder, IpRangesProofs

\* What build computes from the configuration.
Built ==
  /\ listens = IF addrs = {} THEN get_unspecified_stack_addrs(protocols, iface) ELSE addrs
  /\ direct_addrs =
       IF addrs = {} THEN get_default_stack_addrs(protocols, iface, allow_loopback)
       ELSE replace_with_actual_addrs(addrs, protocols, iface, allow_loopback)

Inv == TypeOK /\ (stage = "built" => Built)

\* Appending keeps the type of a sequence.
LEMMA AppendTyped ==
  ASSUME NEW T, NEW s \in Seq(T), NEW x \in T
  PROVE  /\ Append(s, x) \in Seq(T) /\ DOMAIN Append(s, x) = 1 .. Len(s) + 1
         /\ Len(s) \in Nat /\ DOMAIN s = 1 .. Len(s)
         /\ (\A i \in 1 .. Len(s) : Append(s, x)[i] = s[i]) /\ Append(s, x)[Len(s) + 1] = x
  OBVIOUS

\* A transport is appended only if it is not there yet.
LEMMA PushProtocol ==
  ASSUME NEW ps \in Seq(Kind), IsInjective(ps), NEW kind \in Kind, kind \notin Range(ps)
  PROVE  Append(ps, kind) \in Seq(Kind) /\ IsInjective(Append(ps, kind))
<1>1. PICK n \in Nat : n = Len(ps)
  BY Zenon, AppendTyped
<1>2. PICK qs \in Seq(Kind) : qs = Append(ps, kind)
  BY Zenon, AppendTyped
<1>3. DOMAIN qs = 1 .. n + 1 /\ DOMAIN ps = 1 .. n
  BY Zenon, <1>1, <1>2, AppendTyped
<1>4. (\A i \in 1 .. n : qs[i] = ps[i]) /\ qs[n + 1] = kind
  BY <1>1, <1>2, AppendTyped
<1>5. \A i \in 1 .. n : qs[i] # kind
  BY Zenon, <1>3, <1>4 DEF Range
<1>6. \A i, j \in 1 .. n : qs[i] = qs[j] => i = j
  BY Zenon, <1>3, <1>4 DEF IsInjective
<1>7. \A i \in 1 .. n + 1 : i \in 1 .. n \/ i = n + 1
  OBVIOUS
<1>8. ASSUME NEW i \in 1 .. n + 1, NEW j \in 1 .. n + 1, qs[i] = qs[j]
      PROVE  i = j
  BY Zenon, <1>4, <1>5, <1>6, <1>7, <1>8
<1>9. IsInjective(qs)
  BY Zenon, <1>3, <1>8 DEF IsInjective
<1>10. QED
  BY Zenon, <1>2, <1>9

\* Init establishes the invariant.
LEMMA InvInit == Init => Inv
<1> SUFFICES ASSUME Init PROVE Inv
  OBVIOUS
<1>1. protocols \in Seq(Kind) /\ IsInjective(protocols)
  <2>1. CASE protocols = <<>>
    BY <2>1 DEF IsInjective
  <2>2. CASE protocols = <<"Quic">>
    BY <2>2 DEF IsInjective, Kind
  <2>3. QED
    BY Zenon, <2>1, <2>2 DEF Init
<1>2. addrs \subseteq Inputs \cup {Addr(Unspecified(4), ServerPort, "Quic")}
  BY Zenon DEF Init
<1>3. stage = "building" /\ stage # "built"
  BY DEF Init
<1>4. QED
  BY Zenon, <1>1, <1>2, <1>3 DEF Init, Inv, TypeOK

\* Every call preserves it.
LEMMA InvNext == Inv /\ [Next]_vars => Inv'
<1> SUFFICES ASSUME Inv, [Next]_vars PROVE Inv'
  OBVIOUS
<1> USE DEF Inv
<1>1. ASSUME stage = "building", NEW kind \in Kind, push_protocol(kind)
      PROVE  protocols' \in Seq(Kind) /\ IsInjective(protocols')
  BY Zenon, <1>1, PushProtocol DEF push_protocol, TypeOK
<1>2. ASSUME NEW kind \in Kind, WithTransport(kind) PROVE Inv'
  <2>1. protocols' \in Seq(Kind) /\ IsInjective(protocols')
    BY Zenon, <1>1, <1>2 DEF WithTransport
  <2>2. QED
    BY <1>2, <2>1 DEF WithTransport, TypeOK, options, results
<1>3. ASSUME NEW a \in Inputs, with_addr(a) PROVE Inv'
  <2>1. CASE /\ from_protocol(a.proto) \in Kind /\ push_protocol(from_protocol(a.proto))
             /\ addrs' = addrs \cup {a} /\ UNCHANGED stage
    <3>1. protocols' \in Seq(Kind) /\ IsInjective(protocols')
      BY Zenon, <1>1, <1>3, <2>1 DEF with_addr
    <3>2. addrs' \subseteq Inputs \cup {Addr(Unspecified(4), ServerPort, "Quic")}
      BY Zenon, <2>1 DEF TypeOK
    <3>3. QED
      BY <1>3, <2>1, <3>1, <3>2 DEF with_addr, TypeOK, options, results
  <2>2. CASE stage' = "failed" /\ UNCHANGED <<protocols, addrs>>
    BY <1>3, <2>2 DEF with_addr, TypeOK, options, results
  <2>3. QED
    BY Zenon, <1>3, <2>1, <2>2 DEF with_addr
<1>4. CASE without_listen
  BY Zenon, <1>4 DEF without_listen, TypeOK, results
<1>5. ASSUME NEW allow \in BOOLEAN, set_allow_loopback(allow) PROVE Inv'
  BY <1>5 DEF set_allow_loopback, TypeOK, results
<1>6. CASE build
  <2>1. Built'
    BY Zenon, <1>6 DEF build, Built, options
  <2>2. TypeOK'
    BY <1>6 DEF build, TypeOK, options
  <2>3. QED
    BY Zenon, <2>1, <2>2
<1>7. CASE UNCHANGED vars
  <2>1. Built => Built'
    BY Zenon, <1>7 DEF vars, options, results, Built
  <2>2. TypeOK' /\ stage' = stage
    BY <1>7 DEF vars, options, results, TypeOK
  <2>3. QED
    BY Zenon, <2>1, <2>2
<1>8. QED
  BY Zenon, <1>2, <1>3, <1>4, <1>5, <1>6, <1>7 DEF Next

\* The invariant holds throughout.
LEMMA InvAlways == Spec => []Inv
  BY PTL, InvInit, InvNext DEF Spec

\* The calls keep the types, and a transport keeps one priority however often
\* with_quic, with_tcp and with_addr ask for it.
THEOREM BuilderTyped == Spec => []TypeOK
<1>1. Inv => TypeOK
  BY Zenon DEF Inv
<1>2. QED
  BY PTL, <1>1, InvAlways

-----------------------------------------------------------------------------
\* The addresses the code makes itself are addresses, and none is NoIp.
LEMMA MadeAddresses ==
  /\ Unspecified(4) \in IpAddr /\ Unspecified(6) \in IpAddr
  /\ V4(127, 0, 0, 1) \in IpAddr /\ V6(0, 0, 0, 0, 0, 0, 0, 1) \in IpAddr
<1>1. 0 \in Segment(8) /\ 1 \in Segment(8) /\ 127 \in Segment(8)
  BY DEF Segment
<1>2. 0 \in Segment(16) /\ 1 \in Segment(16)
  <2>1. PICK n \in Nat : n = 2 ^ 16 - 1
    OBVIOUS
  <2>2. n >= 1
    BY <2>1
  <2>3. 0 \in 0 .. n /\ 1 \in 0 .. n
    BY <2>2
  <2>4. QED
    BY Zenon, <2>1, <2>3 DEF Segment
<1>3. \A p, q, r, t \in Segment(8) : V4(p, q, r, t) \in IpAddr
  <2>1. \A p, q, r, t \in Segment(8) : <<p, q, r, t>> \in [1 .. 4 -> Segment(8)]
    BY Zenon, Segments4
  <2>2. QED
    BY Zenon, <2>1 DEF V4, IpAddr, Segment
<1>4. ASSUME NEW p1 \in Segment(16), NEW p2 \in Segment(16), NEW p3 \in Segment(16),
             NEW p4 \in Segment(16), NEW p5 \in Segment(16), NEW p6 \in Segment(16),
             NEW p7 \in Segment(16), NEW p8 \in Segment(16)
      PROVE  V6(p1, p2, p3, p4, p5, p6, p7, p8) \in IpAddr
  <2>1. <<p1, p2, p3, p4, p5, p6, p7, p8>> \in [1 .. 8 -> Segment(16)]
    BY Zenon, Segments6
  <2>2. QED
    BY Zenon, <2>1 DEF V6, IpAddr, Segment
<1>5. Unspecified(4) = V4(0, 0, 0, 0) /\ Unspecified(6) = V6(0, 0, 0, 0, 0, 0, 0, 0)
  BY DEF Unspecified
<1>6. V4(0, 0, 0, 0) \in IpAddr
  BY Zenon, <1>1, <1>3
<1>7. V4(127, 0, 0, 1) \in IpAddr
  BY Zenon, <1>1, <1>3
<1>8. V6(0, 0, 0, 0, 0, 0, 0, 0) \in IpAddr
  BY Zenon, <1>2, <1>4
<1>9. V6(0, 0, 0, 0, 0, 0, 0, 1) \in IpAddr
  BY Zenon, <1>2, <1>4
<1>10. QED
  BY Zenon, <1>5, <1>6, <1>7, <1>8, <1>9

\* An address has a family.
LEMMA Family ==
  ASSUME NEW ip \in IpAddr
  PROVE  ip.fam \in {4, 6} /\ ip # NoIp
<1>1. ip.fam \in {4, 6}
  BY Zenon DEF IpAddr
<1>2. NoIp.fam \notin {4, 6}
  BY DEF NoIp
<1>3. QED
  BY Zenon, <1>1, <1>2

\* What get_default_server_addrs returns are addresses.
LEMMA DefaultAddresses ==
  ASSUME iface \in Ifaces, NEW ip \in get_default_server_addrs(iface, allow_loopback)
  PROVE  /\ ip \in IpAddr
         /\ \/ \E net \in iface.nets : ip.fam = net.fam
            \/ ip \in {V4(127, 0, 0, 1), V6(0, 0, 0, 0, 0, 0, 0, 1)}
<1>1. CASE \E net \in iface.nets : ip = [fam |-> net.fam, seg |-> net.seg]
  <2>1. PICK net \in iface.nets : ip = [fam |-> net.fam, seg |-> net.seg]
    BY Zenon, <1>1
  <2>2. ip.fam = net.fam
    BY Zenon, <2>1
  <2>3. ip \in IpAddr
    BY Zenon, <2>1, BuilderAssumption
  <2>4. QED
    BY Zenon, <2>2, <2>3
<1>2. CASE ip \in {V4(127, 0, 0, 1), V6(0, 0, 0, 0, 0, 0, 0, 1)}
  BY Zenon, <1>2, MadeAddresses
<1>3. QED
  BY Zenon, <1>1, <1>2 DEF get_default_server_addrs

\* What build advertises: a given address, or one made for an interface address.
LEMMA Advertised ==
  ASSUME TypeOK, Built, NEW x \in direct_addrs
  PROVE  /\ x.ip \in IpAddr
         /\ \/ /\ addrs = {}
               /\ \E ip \in get_default_server_addrs(iface, allow_loopback), k \in Range(protocols) :
                    x = Addr(ip, ServerPort, ProtocolOf(k))
            \/ /\ addrs # {}
               /\ \/ x \in addrs
                  \/ \E a \in addrs : a.ip # NoIp /\ is_unspecified(a.ip)
<1>1. iface \in Ifaces
  BY Zenon DEF TypeOK
<1>2. CASE addrs = {}
  <2>1. PICK ip \in get_default_server_addrs(iface, allow_loopback), k \in Range(protocols) :
          x = Addr(ip, ServerPort, ProtocolOf(k))
    <3>1. x \in get_default_stack_addrs(protocols, iface, allow_loopback)
      BY Zenon, <1>2 DEF Built
    <3>2. QED
      BY <3>1 DEF get_default_stack_addrs
  <2>2. x.ip = ip
    BY Zenon, <2>1 DEF Addr
  <2>3. ip \in IpAddr
    BY Zenon, <1>1, DefaultAddresses
  <2>4. x.ip \in IpAddr
    BY Zenon, <2>2, <2>3
  <2>5. QED
    BY Zenon, <1>2, <2>1, <2>4
<1>3. CASE addrs # {}
  <2> DEFINE Of(a) == CASE a.ip = NoIp -> {}
           [] a.ip # NoIp /\ is_unspecified(a.ip) -> ActualAddrs(a, protocols, iface, allow_loopback)
           [] OTHER -> {a}
  <2>1. PICK a \in addrs : x \in Of(a)
    BY Zenon, <1>3 DEF Built, replace_with_actual_addrs
  <2>2. a.ip # NoIp
    BY Zenon, <2>1
  <2>3. CASE is_unspecified(a.ip)
    <3>1. x \in ActualAddrs(a, protocols, iface, allow_loopback)
      BY Zenon, <2>1, <2>2, <2>3
    <3>2. PICK ip \in get_default_server_addrs(iface, allow_loopback), k \in Range(protocols) :
            x = Addr(ip, a.port, ProtocolOf(k))
      BY <3>1 DEF ActualAddrs
    <3>3. x.ip = ip
      BY Zenon, <3>2 DEF Addr
    <3>4. ip \in IpAddr
      BY Zenon, <1>1, DefaultAddresses
    <3>5. x.ip \in IpAddr
      BY Zenon, <3>3, <3>4
    <3>6. QED
      BY Zenon, <1>3, <2>2, <2>3, <3>5
  <2>4. CASE ~is_unspecified(a.ip)
    <3>1. x = a
      BY Zenon, <2>1, <2>2, <2>4
    <3>2. a \in Inputs \/ a = Addr(Unspecified(4), ServerPort, "Quic")
      BY Zenon DEF TypeOK
    <3>3. a.ip \in IpAddr
      <4>1. CASE a \in Inputs
        BY Zenon, <2>2, <4>1, BuilderAssumption
      <4>2. CASE a = Addr(Unspecified(4), ServerPort, "Quic")
        <5>1. a.ip = Unspecified(4)
          BY Zenon, <4>2 DEF Addr
        <5>2. QED
          BY Zenon, <5>1, MadeAddresses
      <4>3. QED
        BY Zenon, <3>2, <4>1, <4>2
    <3>4. QED
      BY Zenon, <1>3, <3>1, <3>3
  <2>5. QED
    BY Zenon, <2>3, <2>4
<1>4. QED
  BY Zenon, <1>2, <1>3

\* global_node_addr returns exactly the advertised addresses that are globally
\* reachable according to the registries, whatever the interfaces and the
\* addresses given are.
THEOREM GlobalAsRegisteredAlways == Spec => []GlobalAsRegistered
<1>1. Inv => GlobalAsRegistered
  <2> SUFFICES ASSUME Inv PROVE GlobalAsRegistered
    OBVIOUS
  <2>1. ASSUME NEW x \in direct_addrs PROVE is_global_ip(x.ip) <=> ~Registered(x.ip)
    <3>1. Built
      BY Zenon DEF Inv, TypeOK
    <3>2. x.ip \in IpAddr
      BY Zenon, <3>1, Advertised DEF Inv
    <3>3. QED
      BY Zenon, <3>2, GlobalIsUnregistered
  <2>2. QED
    BY Zenon, <2>1 DEF GlobalAsRegistered, global_node_addr
<1>2. QED
  BY PTL, <1>1, InvAlways

\* A specified address is its own resolution and is covered by its own socket.
LEMMA OwnSocket ==
  ASSUME NEW a \in listens, a.ip # NoIp, listen_enabled
  PROVE  a \in Sockets /\ resolve_addr(a) = a
  BY Zenon DEF Sockets, resolve_addr

\* An endpoint that listens, on specified addresses or on the default ones,
\* advertises only addresses some socket of it takes, but for the IPv6 loopback
\* address of a machine without IPv6.
THEOREM AdvertisedIsListened == Spec => []AdvertisedIsListenedIfSpecified
<1>1. Inv => AdvertisedIsListenedIfSpecified
  <2> SUFFICES ASSUME Inv, stage = "built", listen_enabled,
                      \A a \in addrs : a.ip = NoIp \/ ~is_unspecified(a.ip),
                      NEW x \in direct_addrs
               PROVE  \/ \E l \in Sockets : Covers(l, x)
                      \/ x.ip.fam = 6 /\ is_loopback(x.ip) /\ \A net \in iface.nets : net.fam = 4
    BY Zenon DEF AdvertisedIsListenedIfSpecified
  <2>1. TypeOK /\ Built
    BY Zenon DEF Inv
  <2>2. CASE addrs # {}
    <3>1. x \in addrs /\ x.ip # NoIp
      BY Zenon, <2>1, <2>2, Advertised, Family
    <3>2. x \in listens
      BY Zenon, <2>1, <2>2, <3>1 DEF Built
    <3>3. QED
      BY Zenon, <3>1, <3>2, OwnSocket DEF Covers
  <2>3. CASE addrs = {}
    <3>1. PICK ip \in get_default_server_addrs(iface, allow_loopback), k \in Range(protocols) :
            x = Addr(ip, ServerPort, ProtocolOf(k))
      BY Zenon, <2>1, <2>3, Advertised
    <3>2. PICK u : u = get_unspecified_server_addr(iface)
      BY Zenon
    <3>3. u \in IpAddr /\ is_unspecified(u)
      <4>1. is_unspecified(Unspecified(4)) /\ is_unspecified(Unspecified(6))
        BY DEF is_unspecified, Unspecified, V4, V6
      <4>2. QED
        BY Zenon, <3>2, <4>1, MadeAddresses DEF get_unspecified_server_addr
    <3>4. PICK l : l = Addr(u, ServerPort, ProtocolOf(k))
      BY Zenon
    <3>5. l.ip = u /\ x.ip = ip /\ l.port = x.port /\ l.proto = x.proto
      BY Zenon, <3>1, <3>4 DEF Addr
    <3>6. l \in Sockets
      <4>1. l \in listens
        BY Zenon, <2>1, <2>3, <3>2, <3>4 DEF Built, get_unspecified_stack_addrs
      <4>2. l.ip # NoIp
        BY Zenon, <3>3, <3>5, Family
      <4>3. QED
        BY Zenon, <4>1, <4>2, OwnSocket
    <3>7. iface \in Ifaces
      BY Zenon, <2>1 DEF TypeOK
    <3>8. CASE \E net \in iface.nets : net.fam = 6
      <4>1. u.fam = 6
        BY <3>2, <3>8 DEF get_unspecified_server_addr, Unspecified, V6
      <4>2. QED
        BY Zenon, <3>3, <3>5, <3>6, <4>1 DEF Covers
    <3>9. CASE \A net \in iface.nets : net.fam # 6
      <4>1. u = V4(0, 0, 0, 0)
        BY Zenon, <3>2, <3>9 DEF get_unspecified_server_addr, Unspecified
      <4>2. u.fam = 4
        BY Zenon, <4>1 DEF V4
      <4>3. \A net \in iface.nets : net.fam = 4
        <5>1. ASSUME NEW net \in iface.nets PROVE net.fam = 4
          <6>1. PICK i : i = [fam |-> net.fam, seg |-> net.seg]
            BY Zenon
          <6>2. i \in IpAddr
            BY Zenon, <3>7, <6>1, BuilderAssumption
          <6>3. i.fam = net.fam
            BY Zenon, <6>1
          <6>4. QED
            BY Zenon, <3>9, <6>2, <6>3, Family
        <5>2. QED
          BY Zenon, <5>1
      <4>4. CASE ip.fam = 4
        BY Zenon, <3>3, <3>5, <3>6, <4>2, <4>4 DEF Covers
      <4>5. CASE ip = V6(0, 0, 0, 0, 0, 0, 0, 1)
        <5>1. ip.fam = 6 /\ ip.seg = <<0, 0, 0, 0, 0, 0, 0, 1>>
          BY Zenon, <4>5 DEF V6
        <5>2. is_loopback(ip)
          BY <5>1 DEF is_loopback
        <5>3. QED
          BY Zenon, <3>5, <4>3, <5>1, <5>2
      <4>6. V4(127, 0, 0, 1).fam = 4
        BY Zenon DEF V4
      <4>7. QED
        BY Zenon, <3>7, <4>3, <4>4, <4>5, <4>6, DefaultAddresses
    <3>10. QED
      BY Zenon, <3>8, <3>9
  <2>4. QED
    BY Zenon, <2>2, <2>3
<1>2. QED
  BY PTL, <1>1, InvAlways
================================================================================
