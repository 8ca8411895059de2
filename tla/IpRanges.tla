------------------------------ MODULE IpRanges ------------------------------
(***************************************************************************)
(* IP addresses: is_global_ip of foctet-core's ip.rs, in_same_net and      *)
(* rank_ip of foctet-net's device.rs, and the registry of special-purpose  *)
(* blocks they are to agree with.  An address is its octets (IPv4) or      *)
(* 16-bit segments (IPv6); a mask is written as a division.                *)
(***************************************************************************)
EXTENDS Integers, Sequences

V4(a, b, c, d) == [fam |-> 4, seg |-> <<a, b, c, d>>]
V6(a, b, c, d, e, f, g, h) == [fam |-> 6, seg |-> <<a, b, c, d, e, f, g, h>>]

\* Every address there is.
IpAddr ==
  [fam : {4}, seg : [1..4 -> 0 .. 2 ^ 8 - 1]] \cup [fam : {6}, seg : [1..8 -> 0 .. 2 ^ 16 - 1]]

\* The predicates of std::net that the code calls.
is_unspecified(ip) == \A i \in DOMAIN ip.seg : ip.seg[i] = 0
is_loopback(ip) == IF ip.fam = 4 THEN ip.seg[1] = 127 ELSE ip.seg = <<0, 0, 0, 0, 0, 0, 0, 1>>
is_private(o) ==
  o[1] = 10 \/ (o[1] = 172 /\ o[2] \div 16 = 1) \/ (o[1] = 192 /\ o[2] = 168)
is_link_local(o) == o[1] = 169 /\ o[2] = 254
is_documentation(o) ==
  SubSeq(o, 1, 3) \in {<<192, 0, 2>>, <<198, 51, 100>>, <<203, 0, 113>>}
is_broadcast(o) == o = <<255, 255, 255, 255>>
is_unique_local(s) == s[1] \div 512 = 126
is_unicast_link_local(s) == s[1] \div 64 = 1018

\* Mutant: the mask is one bit too short.
is_shared_short_mask(o) == o[1] = 100 /\ o[2] \div 128 = 0

is_shared_ipv4(o) == o[1] = 100 /\ o[2] \div 64 = 1
is_benchmarking_ipv4(o) == o[1] = 198 /\ o[2] \div 2 = 9
is_reserved_ipv4(o) == o[1] \div 16 = 15 /\ ~is_broadcast(o)
is_documentation_ipv6(s) == (s[1] = 8193 /\ s[2] = 3512) \/ (s[1] = 16383 /\ s[2] <= 4095)

is_global_ipv4(o) ==
  ~ \/ o[1] = 0
    \/ is_private(o)
    \/ is_shared_ipv4(o)
    \/ o[1] = 127
    \/ is_link_local(o)
    \/ o[1] = 192 /\ o[2] = 0 /\ o[3] = 0 /\ o[4] # 9 /\ o[4] # 10
    \/ is_documentation(o)
    \/ is_benchmarking_ipv4(o)
    \/ is_reserved_ipv4(o)
    \/ is_broadcast(o)

is_global_ipv6(s) ==
  ~ \/ \A i \in 1..7 : s[i] = 0 /\ s[8] \in {0, 1}
    \/ SubSeq(s, 1, 6) = <<0, 0, 0, 0, 0, 65535>>
    \/ SubSeq(s, 1, 3) = <<100, 65435, 1>>
    \/ SubSeq(s, 1, 4) = <<256, 0, 0, 0>>
    \/ /\ s[1] = 8193 /\ s[2] < 512
       /\ ~ \/ s \in {<<8193, 1, 0, 0, 0, 0, 0, 1>>, <<8193, 1, 0, 0, 0, 0, 0, 2>>}
            \/ s[2] = 3
            \/ s[2] = 4 /\ s[3] = 274
            \/ s[2] >= 32 /\ s[2] <= 63
    \/ s[1] = 8194
    \/ is_documentation_ipv6(s)
    \/ is_unique_local(s)
    \/ is_unicast_link_local(s)

is_global_ip(ip) == IF ip.fam = 4 THEN is_global_ipv4(ip.seg) ELSE is_global_ipv6(ip.seg)

-----------------------------------------------------------------------------
\* A network: [fam, seg, len]; contains compares the first len bits.
Width(fam) == IF fam = 4 THEN 8 ELSE 16
PrefixBits(net, i) ==
  LET w == Width(net.fam)
      left == net.len - w * (i - 1)
  IN IF left <= 0 THEN 0 ELSE IF left >= w THEN w ELSE left
NetContains(net, ip) ==
  /\ ip.fam = net.fam
  /\ \A i \in DOMAIN net.seg :
       LET d == 2 ^ (Width(net.fam) - PrefixBits(net, i))
       IN ip.seg[i] \div d = net.seg[i] \div d

\* An interface: whether there is one, and its networks.
in_same_net(ip, iface) == \E net \in iface.nets : NetContains(net, ip)

rank_ip(ip, iface) ==
  IF is_loopback(ip) THEN 3
  ELSE IF in_same_net(ip, iface) THEN 2
  ELSE IF is_global_ip(ip) THEN 1 ELSE 0

-----------------------------------------------------------------------------
\* The special-purpose address registries that ip.rs cites: the blocks that
\* are not globally reachable, and the parts of them that are.
Net(ip, len) == [fam |-> ip.fam, seg |-> ip.seg, len |-> len]
SpecialBlocks ==
  {Net(V4(0, 0, 0, 0), 8), Net(V4(10, 0, 0, 0), 8), Net(V4(100, 64, 0, 0), 10),
   Net(V4(127, 0, 0, 0), 8), Net(V4(169, 254, 0, 0), 16), Net(V4(172, 16, 0, 0), 12),
   Net(V4(192, 0, 0, 0), 24), Net(V4(192, 0, 2, 0), 24), Net(V4(192, 168, 0, 0), 16),
   Net(V4(198, 18, 0, 0), 15), Net(V4(198, 51, 100, 0), 24), Net(V4(203, 0, 113, 0), 24),
   Net(V4(240, 0, 0, 0), 4),
   Net(V6(0, 0, 0, 0, 0, 0, 0, 0), 127), Net(V6(0, 0, 0, 0, 0, 65535, 0, 0), 96),
   Net(V6(100, 65435, 1, 0, 0, 0, 0, 0), 48), Net(V6(256, 0, 0, 0, 0, 0, 0, 0), 64),
   Net(V6(8193, 0, 0, 0, 0, 0, 0, 0), 23), Net(V6(8193, 3512, 0, 0, 0, 0, 0, 0), 32),
   Net(V6(16383, 0, 0, 0, 0, 0, 0, 0), 20), Net(V6(8194, 0, 0, 0, 0, 0, 0, 0), 16),
   Net(V6(64512, 0, 0, 0, 0, 0, 0, 0), 7), Net(V6(65152, 0, 0, 0, 0, 0, 0, 0), 10)}
ReachableBlocks ==
  {Net(V4(192, 0, 0, 9), 32), Net(V4(192, 0, 0, 10), 32),
   Net(V6(8193, 1, 0, 0, 0, 0, 0, 1), 128), Net(V6(8193, 1, 0, 0, 0, 0, 0, 2), 128),
   Net(V6(8193, 3, 0, 0, 0, 0, 0, 0), 32), Net(V6(8193, 4, 274, 0, 0, 0, 0, 0), 48),
   Net(V6(8193, 32, 0, 0, 0, 0, 0, 0), 28), Net(V6(8193, 48, 0, 0, 0, 0, 0, 0), 28)}
Registered(ip) ==
  /\ \E net \in SpecialBlocks : NetContains(net, ip)
  /\ ~ \E net \in ReachableBlocks : NetContains(net, ip)
=============================================================================
