-------------------------- MODULE MCEndpointBuilder --------------------------
(***************************************************************************)
(* Instances of EndpointBuilder: interfaces with and without IPv6, dialers *)
(* on the same network and elsewhere, and, as addresses to listen on, the  *)
(* unspecified ones, names, and both ends of every special-purpose block.  *)
(***************************************************************************)
EXTENDS EndpointBuilder

Lan == Net(V4(192, 168, 1, 5), 24)
Lan6 == Net(V6(8193, 3512, 0, 0, 0, 0, 0, 5), 64)
Public == Net(V4(198, 20, 0, 7), 30)
MCIfaces == {NoIface, Iface({Lan}), Iface({Lan6, Public})}

MCNames == [d \in {"Dns", "Dns4", "Dns6"} |->
              CASE d = "Dns" -> <<V6(8193, 1536, 0, 0, 0, 0, 0, 1), V4(9, 9, 9, 9)>>
                [] d = "Dns4" -> <<V4(9, 9, 9, 9)>>
                [] d = "Dns6" -> <<>>]

MCDialers ==
  {[protocols |-> <<"Quic", "TlsOverTcp">>, allow_loopback |-> FALSE, iface |-> Iface({Lan})],
   [protocols |-> <<"TlsOverTcp", "Quic">>, allow_loopback |-> TRUE,
    iface |-> Iface({Net(V4(10, 0, 0, 1), 8), Lan6})]}

\* The first and the last address of a block.
Low(net) == [fam |-> net.fam, seg |-> [i \in DOMAIN net.seg |->
  LET d == 2 ^ (Width(net.fam) - PrefixBits(net, i)) IN (net.seg[i] \div d) * d]]
High(net) == [fam |-> net.fam, seg |-> [i \in DOMAIN net.seg |->
  LET d == 2 ^ (Width(net.fam) - PrefixBits(net, i)) IN (net.seg[i] \div d) * d + d - 1]]
\* The address before, the address after.
RECURSIVE Step(_, _, _, _)
Step(seg, i, by, max) ==
  IF i = 0 THEN seg
  ELSE IF seg[i] + by \in 0..max THEN [seg EXCEPT ![i] = @ + by]
  ELSE Step([seg EXCEPT ![i] = IF by = 1 THEN 0 ELSE max], i - 1, by, max)
Beside(ip, by) == [ip EXCEPT !.seg = Step(@, Len(@), by, 2 ^ Width(ip.fam) - 1)]
Edges ==
  UNION {{Low(n), High(n), Beside(Low(n), -1), Beside(High(n), 1)} :
           n \in SpecialBlocks \cup ReachableBlocks}

MCInputs ==
  {Addr(Unspecified(4), 1, "Quic"), Addr(Unspecified(4), 2, "Tcp"),
   Addr(Unspecified(6), 1, "Udp"), Addr(V4(9, 9, 9, 9), 1, "Quic"),
   Addr(V4(127, 0, 0, 1), 1, "TlsOverTcp"), Addr(V4(9, 9, 9, 9), 1, "Ws"),
   Addr(V4(192, 168, 1, 5), 2, "TlsOverTcp")}
  \cup {[ip |-> NoIp, port |-> 1, proto |-> "TlsOverTcp", dns |-> d] : d \in DOMAIN MCNames}
MCEdgeInputs == {Addr(ip, 1, "Quic") : ip \in Edges}
MCAllInputs == MCInputs \cup MCEdgeInputs
=============================================================================
