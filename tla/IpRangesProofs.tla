---------------------------- MODULE IpRangesProofs ----------------------------
(***************************************************************************)
(* is_global_ip of ip.rs says of every IPv4 and every IPv6 address what    *)
(* the special-purpose registries say.  Each block of the registries       *)
(* becomes a condition on the segments of an address, and the conditions   *)
(* are compared with the tests of the code.                                *)
(***************************************************************************)
EXTENDS IpRanges, TLAPS

\* Two segments of w bits agree on their first bits.
Within(x, p, bits, w) == x \div 2 ^ (w - bits) = p \div 2 ^ (w - bits)

\* The widths of a segment, and the segments of a width.
Widths == {8, 16}
Segment(w) == 0 .. 2 ^ w - 1

\* A prefix of k whole segments and b bits of the next one.
Prefix(n, m, k, b, w) ==
  \A i \in 1 .. m : /\ i <= k => PrefixBits(n, i) = w
                    /\ i = k + 1 => PrefixBits(n, i) = b
                    /\ i > k + 1 => PrefixBits(n, i) = 0

\* Two addresses agree on k whole segments and b bits.
Agree(s, t, k, b, w) == (\A i \in 1 .. k : s[i] = t[i]) /\ Within(s[k + 1], t[k + 1], b, w)

\* No bits of a segment always agree; all of them agree only in equal segments.
LEMMA Ends ==
  ASSUME NEW w \in Widths, NEW x \in Segment(w), NEW p \in Segment(w)
  PROVE  Within(x, p, 0, w) /\ (Within(x, p, w, w) <=> x = p)
<1>1. x \div 2 ^ w = 0 /\ p \div 2 ^ w = 0
  <2>1. CASE w = 8
    <3>1. \A y \in 0 .. 2 ^ 8 - 1 : y \div 2 ^ 8 = 0
      OBVIOUS
    <3>2. QED
      BY Zenon, <2>1, <3>1 DEF Segment
  <2>2. CASE w = 16
    <3>1. \A y \in 0 .. 2 ^ 16 - 1 : y \div 2 ^ 16 = 0
      OBVIOUS
    <3>2. QED
      BY Zenon, <2>2, <3>1 DEF Segment
  <2>3. QED
    BY Zenon, <2>1, <2>2 DEF Widths
<1>2. w - 0 = w /\ w - w = 0 /\ 2 ^ 0 = 1
  BY DEF Widths
<1>3. x \in Nat /\ p \in Nat
  BY DEF Segment
<1>4. x \div 1 = x /\ p \div 1 = p
  BY <1>3
<1>5. QED
  BY Zenon, <1>1, <1>2, <1>4 DEF Within

\* PrefixBits of an IPv4 block whose length is k whole octets and b bits.
LEMMA Prefix4 ==
  ASSUME NEW n, n.fam = 4, NEW m \in Nat, NEW k \in Nat, NEW b \in 0 .. 8, n.len = 8 * k + b
  PROVE  Prefix(n, m, k, b, 8)
<1>1. Width(n.fam) = 8
  BY DEF Width
<1>2. SUFFICES ASSUME NEW i \in 1 .. m
               PROVE  /\ i <= k => PrefixBits(n, i) = 8
                      /\ i = k + 1 => PrefixBits(n, i) = b
                      /\ i > k + 1 => PrefixBits(n, i) = 0
  BY Zenon DEF Prefix
<1>3. PICK left \in Int : left = 8 * k + b - 8 * (i - 1)
  OBVIOUS
<1>4. PrefixBits(n, i) = IF left <= 0 THEN 0 ELSE IF left >= 8 THEN 8 ELSE left
  BY <1>1, <1>3 DEF PrefixBits
<1>5. QED
  BY <1>3, <1>4

\* The same for IPv6.
LEMMA Prefix6 ==
  ASSUME NEW n, n.fam = 6, NEW m \in Nat, NEW k \in Nat, NEW b \in 0 .. 16, n.len = 16 * k + b
  PROVE  Prefix(n, m, k, b, 16)
<1>1. Width(n.fam) = 16
  BY DEF Width
<1>2. SUFFICES ASSUME NEW i \in 1 .. m
               PROVE  /\ i <= k => PrefixBits(n, i) = 16
                      /\ i = k + 1 => PrefixBits(n, i) = b
                      /\ i > k + 1 => PrefixBits(n, i) = 0
  BY Zenon DEF Prefix
<1>3. PICK left \in Int : left = 16 * k + b - 16 * (i - 1)
  OBVIOUS
<1>4. PrefixBits(n, i) = IF left <= 0 THEN 0 ELSE IF left >= 16 THEN 16 ELSE left
  BY <1>1, <1>3 DEF PrefixBits
<1>5. QED
  BY <1>3, <1>4

\* An address is in a block exactly when it agrees with it on the prefix.
LEMMA PrefixContains ==
  ASSUME NEW n, NEW ip, ip.fam = n.fam, NEW w \in Widths, w = Width(n.fam), NEW m \in Nat,
         n.seg \in [1 .. m -> Segment(w)], ip.seg \in [1 .. m -> Segment(w)],
         NEW k \in Nat, k < m, NEW b, Prefix(n, m, k, b, w)
  PROVE  NetContains(n, ip) <=> Agree(ip.seg, n.seg, k, b, w)
<1>1. NetContains(n, ip) <=> \A i \in 1 .. m : Within(ip.seg[i], n.seg[i], PrefixBits(n, i), w)
  BY Zenon DEF NetContains, Within
<1>2. \A i \in 1 .. m : ip.seg[i] \in Segment(w) /\ n.seg[i] \in Segment(w)
  BY Zenon
<1>3. ASSUME NEW i \in 1 .. m
      PROVE  /\ i <= k => (Within(ip.seg[i], n.seg[i], PrefixBits(n, i),
              w) <=> ip.seg[i] = n.seg[i])
             /\ i > k + 1 => Within(ip.seg[i], n.seg[i], PrefixBits(n, i), w)
  <2>1. /\ Within(ip.seg[i], n.seg[i], 0, w)
        /\ Within(ip.seg[i], n.seg[i], w, w) <=> ip.seg[i] = n.seg[i]
    <3>1. PICK x \in Segment(w), p \in Segment(w) : x = ip.seg[i] /\ p = n.seg[i]
      BY Zenon, <1>2, <1>3
    <3>2. Within(x, p, 0, w) /\ (Within(x, p, w, w) <=> x = p)
      BY Zenon, Ends
    <3>3. QED
      BY Zenon, <3>1, <3>2
  <2>2. QED
    BY Zenon, <1>3, <2>1 DEF Prefix
<1>4. /\ k + 1 \in 1 .. m /\ 1 .. k \subseteq 1 .. m
      /\ \A i \in 1 .. m : i \in 1 .. k \/ i = k + 1 \/ i > k + 1
      /\ \A i \in 1 .. k : i <= k
  OBVIOUS
<1>5. PrefixBits(n, k + 1) = b
  BY Zenon, <1>4 DEF Prefix
<1>6. QED
  BY Zenon, <1>1, <1>3, <1>4, <1>5 DEF Agree

\* What it is for an address to be in a block, for each prefix length in the registry.
Lens4(ip, o, p, q, r, t) ==
  /\ NetContains(Net(V4(p, q, r, t), 4), ip) <=>
       Within(o[1], p, 4, 8)
  /\ NetContains(Net(V4(p, q, r, t), 8), ip) <=>
       o[1] = p
  /\ NetContains(Net(V4(p, q, r, t), 10), ip) <=>
       o[1] = p /\ Within(o[2], q, 2, 8)
  /\ NetContains(Net(V4(p, q, r, t), 12), ip) <=>
       o[1] = p /\ Within(o[2], q, 4, 8)
  /\ NetContains(Net(V4(p, q, r, t), 15), ip) <=>
       o[1] = p /\ Within(o[2], q, 7, 8)
  /\ NetContains(Net(V4(p, q, r, t), 16), ip) <=>
       o[1] = p /\ o[2] = q
  /\ NetContains(Net(V4(p, q, r, t), 24), ip) <=>
       o[1] = p /\ o[2] = q /\ o[3] = r
  /\ NetContains(Net(V4(p, q, r, t), 32), ip) <=>
       o[1] = p /\ o[2] = q /\ o[3] = r /\ o[4] = t

\* An IPv4 address written out.
LEMMA Segments4 ==
  ASSUME NEW p \in Segment(8), NEW q \in Segment(8), NEW r \in Segment(8), NEW t \in Segment(8)
  PROVE  /\ <<p, q, r, t>> \in [1 .. 4 -> Segment(8)]
         /\ <<p, q, r, t>>[1] = p
         /\ <<p, q, r, t>>[2] = q
         /\ <<p, q, r, t>>[3] = r
         /\ <<p, q, r, t>>[4] = t
  OBVIOUS

\* NetContains of an IPv4 block, by prefix length.
LEMMA Block4 ==
  ASSUME NEW ip, ip.fam = 4, NEW o \in [1 .. 4 -> Segment(8)], ip.seg = o,
         NEW p \in Segment(8), NEW q \in Segment(8), NEW r \in Segment(8), NEW t \in Segment(8)
  PROVE  Lens4(ip, o, p, q, r, t)
<1> DEFINE n == <<p, q, r, t>>
<1>1. /\ n \in [1 .. 4 -> Segment(8)] /\ n[1] = p /\ n[2] = q /\ n[3] = r /\ n[4] = t
      /\ o[1] \in Segment(8) /\ o[2] \in Segment(8) /\ o[3] \in Segment(8) /\ o[4] \in Segment(8)
  <2>1. n \in [1 .. 4 -> Segment(8)] /\ n[1] = p /\ n[2] = q /\ n[3] = r /\ n[4] = t
    BY Zenon, Segments4
  <2>2. QED
    BY <2>1
<1> HIDE DEF n
<1>2. PICK w \in Widths, m \in Nat : w = 8 /\ m = 4 /\ w = Width(4)
  BY DEF Widths, Width
<1>3. ASSUME NEW k \in Nat, k < 4, NEW b \in 0 .. 8, NEW len \in Nat, len = 8 * k + b
      PROVE  NetContains(Net(V4(p, q, r, t), len), ip) <=> Agree(o, n, k, b, 8)
  <2>1. PICK net : net = Net(V4(p, q, r, t), len)
    BY Zenon
  <2>2. net.fam = 4 /\ net.seg = n /\ net.len = len
    BY Zenon, <2>1 DEF Net, V4, n
  <2>3. Prefix(net, 4, k, b, 8)
    BY Zenon, <1>2, <1>3, <2>2, Prefix4
  <2>4. /\ ip.fam = net.fam /\ w = Width(net.fam) /\ k < m /\ Prefix(net, m, k, b, w)
        /\ net.seg \in [1 .. m -> Segment(w)] /\ ip.seg \in [1 .. m -> Segment(w)]
    BY <1>1, <1>2, <1>3, <2>2, <2>3
  <2>5. NetContains(net, ip) <=> Agree(ip.seg, net.seg, k, b, w)
    BY Zenon, <2>4, PrefixContains
  <2>6. QED
    BY <1>2, <2>1, <2>2, <2>5
<1>4. \A x, y \in Segment(8) : Within(x, y, 8, 8) <=> x = y
  <2>1. \A x, y \in Segment(w) : Within(x, y, w, w) <=> x = y
    BY Zenon, Ends
  <2>2. QED
    BY <1>2, <2>1
<1>5. NetContains(Net(V4(p, q, r, t), 4), ip) <=>
        Within(o[1], p, 4, 8)
  <2>1. PICK k \in Nat, b \in 0 .. 8, len \in Nat :
          k = 0 /\ b = 4 /\ len = 4
    OBVIOUS
  <2>0. k < 4 /\ len = 8 * k + b
    BY <2>1
  <2>2. NetContains(Net(V4(p, q, r, t), len), ip) <=> Agree(o, n, k, b, 8)
    BY Zenon, <1>3, <2>0
  <2>3. 1 .. k = {} /\ k + 1 = 1
    BY <2>1
  <2>4. Agree(o, n, k, b, 8) <=>
          Within(o[1], p, b, 8)
    BY <1>1, <2>3 DEF Agree
  <2> QED
    BY <2>1, <2>2, <2>4
<1>6. NetContains(Net(V4(p, q, r, t), 8), ip) <=>
        o[1] = p
  <2>1. PICK k \in Nat, b \in 0 .. 8, len \in Nat :
          k = 0 /\ b = 8 /\ len = 8
    OBVIOUS
  <2>0. k < 4 /\ len = 8 * k + b
    BY <2>1
  <2>2. NetContains(Net(V4(p, q, r, t), len), ip) <=> Agree(o, n, k, b, 8)
    BY Zenon, <1>3, <2>0
  <2>3. 1 .. k = {} /\ k + 1 = 1
    BY <2>1
  <2>4. Agree(o, n, k, b, 8) <=>
          Within(o[1], p, b, 8)
    BY <1>1, <2>3 DEF Agree
  <2>5. Within(o[1], p, 8, 8) <=> o[1] = p
    BY <1>1, <1>4
  <2> QED
    BY <2>1, <2>2, <2>4, <2>5
<1>7. NetContains(Net(V4(p, q, r, t), 10), ip) <=>
        o[1] = p /\ Within(o[2], q, 2, 8)
  <2>1. PICK k \in Nat, b \in 0 .. 8, len \in Nat :
          k = 1 /\ b = 2 /\ len = 10
    OBVIOUS
  <2>0. k < 4 /\ len = 8 * k + b
    BY <2>1
  <2>2. NetContains(Net(V4(p, q, r, t), len), ip) <=> Agree(o, n, k, b, 8)
    BY Zenon, <1>3, <2>0
  <2>3. 1 .. k = {1} /\ k + 1 = 2
    BY <2>1
  <2>4. Agree(o, n, k, b, 8) <=>
          o[1] = p /\ Within(o[2], q, b, 8)
    BY <1>1, <2>3 DEF Agree
  <2> QED
    BY <2>1, <2>2, <2>4
<1>8. NetContains(Net(V4(p, q, r, t), 12), ip) <=>
        o[1] = p /\ Within(o[2], q, 4, 8)
  <2>1. PICK k \in Nat, b \in 0 .. 8, len \in Nat :
          k = 1 /\ b = 4 /\ len = 12
    OBVIOUS
  <2>0. k < 4 /\ len = 8 * k + b
    BY <2>1
  <2>2. NetContains(Net(V4(p, q, r, t), len), ip) <=> Agree(o, n, k, b, 8)
    BY Zenon, <1>3, <2>0
  <2>3. 1 .. k = {1} /\ k + 1 = 2
    BY <2>1
  <2>4. Agree(o, n, k, b, 8) <=>
          o[1] = p /\ Within(o[2], q, b, 8)
    BY <1>1, <2>3 DEF Agree
  <2> QED
    BY <2>1, <2>2, <2>4
<1>9. NetContains(Net(V4(p, q, r, t), 15), ip) <=>
        o[1] = p /\ Within(o[2], q, 7, 8)
  <2>1. PICK k \in Nat, b \in 0 .. 8, len \in Nat :
          k = 1 /\ b = 7 /\ len = 15
    OBVIOUS
  <2>0. k < 4 /\ len = 8 * k + b
    BY <2>1
  <2>2. NetContains(Net(V4(p, q, r, t), len), ip) <=> Agree(o, n, k, b, 8)
    BY Zenon, <1>3, <2>0
  <2>3. 1 .. k = {1} /\ k + 1 = 2
    BY <2>1
  <2>4. Agree(o, n, k, b, 8) <=>
          o[1] = p /\ Within(o[2], q, b, 8)
    BY <1>1, <2>3 DEF Agree
  <2> QED
    BY <2>1, <2>2, <2>4
<1>10. NetContains(Net(V4(p, q, r, t), 16), ip) <=>
        o[1] = p /\ o[2] = q
  <2>1. PICK k \in Nat, b \in 0 .. 8, len \in Nat :
          k = 1 /\ b = 8 /\ len = 16
    OBVIOUS
  <2>0. k < 4 /\ len = 8 * k + b
    BY <2>1
  <2>2. NetContains(Net(V4(p, q, r, t), len), ip) <=> Agree(o, n, k, b, 8)
    BY Zenon, <1>3, <2>0
  <2>3. 1 .. k = {1} /\ k + 1 = 2
    BY <2>1
  <2>4. Agree(o, n, k, b, 8) <=>
          o[1] = p /\ Within(o[2], q, b, 8)
    BY <1>1, <2>3 DEF Agree
  <2>5. Within(o[2], q, 8, 8) <=> o[2] = q
    BY <1>1, <1>4
  <2> QED
    BY <2>1, <2>2, <2>4, <2>5
<1>11. NetContains(Net(V4(p, q, r, t), 24), ip) <=>
        o[1] = p /\ o[2] = q /\ o[3] = r
  <2>1. PICK k \in Nat, b \in 0 .. 8, len \in Nat :
          k = 2 /\ b = 8 /\ len = 24
    OBVIOUS
  <2>0. k < 4 /\ len = 8 * k + b
    BY <2>1
  <2>2. NetContains(Net(V4(p, q, r, t), len), ip) <=> Agree(o, n, k, b, 8)
    BY Zenon, <1>3, <2>0
  <2>3. 1 .. k = {1, 2} /\ k + 1 = 3
    BY <2>1
  <2>4. Agree(o, n, k, b, 8) <=>
          o[1] = p /\ o[2] = q /\ Within(o[3], r, b, 8)
    BY <1>1, <2>3 DEF Agree
  <2>5. Within(o[3], r, 8, 8) <=> o[3] = r
    BY <1>1, <1>4
  <2> QED
    BY <2>1, <2>2, <2>4, <2>5
<1>12. NetContains(Net(V4(p, q, r, t), 32), ip) <=>
        o[1] = p /\ o[2] = q /\ o[3] = r /\ o[4] = t
  <2>1. PICK k \in Nat, b \in 0 .. 8, len \in Nat :
          k = 3 /\ b = 8 /\ len = 32
    OBVIOUS
  <2>0. k < 4 /\ len = 8 * k + b
    BY <2>1
  <2>2. NetContains(Net(V4(p, q, r, t), len), ip) <=> Agree(o, n, k, b, 8)
    BY Zenon, <1>3, <2>0
  <2>3. 1 .. k = {1, 2, 3} /\ k + 1 = 4
    BY <2>1
  <2>4. Agree(o, n, k, b, 8) <=>
          o[1] = p /\ o[2] = q /\ o[3] = r /\ Within(o[4], t, b, 8)
    BY <1>1, <2>3 DEF Agree
  <2>5. Within(o[4], t, 8, 8) <=> o[4] = t
    BY <1>1, <1>4
  <2> QED
    BY <2>1, <2>2, <2>4, <2>5
<1> QED
  BY Zenon, <1>5, <1>6, <1>7, <1>8, <1>9, <1>10, <1>11, <1>12 DEF Lens4

\* What it is for an address to be in a block, for each prefix length in the registry.
Lens6(ip, o, p1, p2, p3, p4, p5, p6, p7, p8) ==
  /\ NetContains(Net(V6(p1, p2, p3, p4, p5, p6, p7, p8), 7), ip) <=>
       Within(o[1], p1, 7, 16)
  /\ NetContains(Net(V6(p1, p2, p3, p4, p5, p6, p7, p8), 10), ip) <=>
       Within(o[1], p1, 10, 16)
  /\ NetContains(Net(V6(p1, p2, p3, p4, p5, p6, p7, p8), 16), ip) <=>
       o[1] = p1
  /\ NetContains(Net(V6(p1, p2, p3, p4, p5, p6, p7, p8), 20), ip) <=>
       o[1] = p1 /\ Within(o[2], p2, 4, 16)
  /\ NetContains(Net(V6(p1, p2, p3, p4, p5, p6, p7, p8), 23), ip) <=>
       o[1] = p1 /\ Within(o[2], p2, 7, 16)
  /\ NetContains(Net(V6(p1, p2, p3, p4, p5, p6, p7, p8), 28), ip) <=>
       o[1] = p1 /\ Within(o[2], p2, 12, 16)
  /\ NetContains(Net(V6(p1, p2, p3, p4, p5, p6, p7, p8), 32), ip) <=>
       o[1] = p1 /\ o[2] = p2
  /\ NetContains(Net(V6(p1, p2, p3, p4, p5, p6, p7, p8), 48), ip) <=>
       o[1] = p1 /\ o[2] = p2 /\ o[3] = p3
  /\ NetContains(Net(V6(p1, p2, p3, p4, p5, p6, p7, p8), 64), ip) <=>
       o[1] = p1 /\ o[2] = p2 /\ o[3] = p3 /\ o[4] = p4
  /\ NetContains(Net(V6(p1, p2, p3, p4, p5, p6, p7, p8), 96), ip) <=>
       o[1] = p1 /\ o[2] = p2 /\ o[3] = p3 /\ o[4] = p4 /\ o[5] = p5 /\ o[6] = p6
  /\ NetContains(Net(V6(p1, p2, p3, p4, p5, p6, p7, p8), 127), ip) <=>
       o[1] = p1 /\ o[2] = p2 /\ o[3] = p3 /\ o[4] = p4 /\ o[5] = p5 /\ o[6] = p6
               /\ o[7] = p7 /\ Within(o[8], p8, 15, 16)
  /\ NetContains(Net(V6(p1, p2, p3, p4, p5, p6, p7, p8), 128), ip) <=>
       o[1] = p1 /\ o[2] = p2 /\ o[3] = p3 /\ o[4] = p4 /\ o[5] = p5 /\ o[6] = p6
               /\ o[7] = p7 /\ o[8] = p8

\* An IPv6 address written out.
LEMMA Segments6 ==
  ASSUME NEW p1 \in Segment(16), NEW p2 \in Segment(16), NEW p3 \in Segment(16),
          NEW p4 \in Segment(16),
         NEW p5 \in Segment(16), NEW p6 \in Segment(16), NEW p7 \in Segment(16), NEW p8 \in
         Segment(16)
  PROVE  /\ <<p1, p2, p3, p4, p5, p6, p7, p8>> \in [1 .. 8 -> Segment(16)]
         /\ <<p1, p2, p3, p4, p5, p6, p7, p8>>[1] = p1
         /\ <<p1, p2, p3, p4, p5, p6, p7, p8>>[2] = p2
         /\ <<p1, p2, p3, p4, p5, p6, p7, p8>>[3] = p3
         /\ <<p1, p2, p3, p4, p5, p6, p7, p8>>[4] = p4
         /\ <<p1, p2, p3, p4, p5, p6, p7, p8>>[5] = p5
         /\ <<p1, p2, p3, p4, p5, p6, p7, p8>>[6] = p6
         /\ <<p1, p2, p3, p4, p5, p6, p7, p8>>[7] = p7
         /\ <<p1, p2, p3, p4, p5, p6, p7, p8>>[8] = p8
  OBVIOUS

\* NetContains of an IPv6 block, by prefix length.
LEMMA Block6 ==
  ASSUME NEW ip, ip.fam = 6, NEW o \in [1 .. 8 -> Segment(16)], ip.seg = o,
         NEW p1 \in Segment(16), NEW p2 \in Segment(16), NEW p3 \in Segment(16),
                 NEW p4 \in Segment(16),
         NEW p5 \in Segment(16), NEW p6 \in Segment(16), NEW p7 \in Segment(16), NEW p8 \in
         Segment(16)
  PROVE  Lens6(ip, o, p1, p2, p3, p4, p5, p6, p7, p8)
<1> DEFINE n == <<p1, p2, p3, p4, p5, p6, p7, p8>>
<1>1. /\ n \in [1 .. 8 -> Segment(16)] /\ n[1] = p1 /\ n[2] = p2 /\ n[3] = p3 /\ n[4] = p4
        /\ n[5] = p5 /\ n[6] = p6 /\ n[7] = p7 /\ n[8] = p8
      /\ o[1] \in Segment(16) /\ o[2] \in Segment(16) /\ o[3] \in Segment(16)
              /\ o[4] \in Segment(16) /\ o[5] \in Segment(16) /\ o[6] \in Segment(16)
                      /\ o[7] \in Segment(16) /\ o[8] \in Segment(16)
  <2>1. n \in [1 .. 8 -> Segment(16)] /\ n[1] = p1 /\ n[2] = p2 /\ n[3] = p3 /\ n[4] = p4
          /\ n[5] = p5 /\ n[6] = p6 /\ n[7] = p7 /\ n[8] = p8
    BY Zenon, Segments6
  <2>2. QED
    BY <2>1
<1> HIDE DEF n
<1>2. PICK w \in Widths, m \in Nat : w = 16 /\ m = 8 /\ w = Width(6)
  BY DEF Widths, Width
<1>3. ASSUME NEW k \in Nat, k < 8, NEW b \in 0 .. 16, NEW len \in Nat, len = 16 * k + b
      PROVE  NetContains(Net(V6(p1, p2, p3, p4, p5, p6, p7, p8), len), ip) <=> Agree(o, n, k, b, 16)
  <2>1. PICK net : net = Net(V6(p1, p2, p3, p4, p5, p6, p7, p8), len)
    BY Zenon
  <2>2. net.fam = 6 /\ net.seg = n /\ net.len = len
    BY Zenon, <2>1 DEF Net, V6, n
  <2>3. Prefix(net, 8, k, b, 16)
    BY Zenon, <1>2, <1>3, <2>2, Prefix6
  <2>4. /\ ip.fam = net.fam /\ w = Width(net.fam) /\ k < m /\ Prefix(net, m, k, b, w)
        /\ net.seg \in [1 .. m -> Segment(w)] /\ ip.seg \in [1 .. m -> Segment(w)]
    BY <1>1, <1>2, <1>3, <2>2, <2>3
  <2>5. NetContains(net, ip) <=> Agree(ip.seg, net.seg, k, b, w)
    BY Zenon, <2>4, PrefixContains
  <2>6. QED
    BY <1>2, <2>1, <2>2, <2>5
<1>4. \A x, y \in Segment(16) : Within(x, y, 16, 16) <=> x = y
  <2>1. \A x, y \in Segment(w) : Within(x, y, w, w) <=> x = y
    BY Zenon, Ends
  <2>2. QED
    BY <1>2, <2>1
<1>5. NetContains(Net(V6(p1, p2, p3, p4, p5, p6, p7, p8), 7), ip) <=>
        Within(o[1], p1, 7, 16)
  <2>1. PICK k \in Nat, b \in 0 .. 16, len \in Nat :
          k = 0 /\ b = 7 /\ len = 7
    OBVIOUS
  <2>0. k < 8 /\ len = 16 * k + b
    BY <2>1
  <2>2. NetContains(Net(V6(p1, p2, p3, p4, p5, p6, p7, p8), len), ip) <=> Agree(o, n, k, b, 16)
    BY Zenon, <1>3, <2>0
  <2>3. 1 .. k = {} /\ k + 1 = 1
    BY <2>1
  <2>4. Agree(o, n, k, b, 16) <=>
          Within(o[1], p1, b, 16)
    BY <1>1, <2>3 DEF Agree
  <2> QED
    BY <2>1, <2>2, <2>4
<1>6. NetContains(Net(V6(p1, p2, p3, p4, p5, p6, p7, p8), 10), ip) <=>
        Within(o[1], p1, 10, 16)
  <2>1. PICK k \in Nat, b \in 0 .. 16, len \in Nat :
          k = 0 /\ b = 10 /\ len = 10
    OBVIOUS
  <2>0. k < 8 /\ len = 16 * k + b
    BY <2>1
  <2>2. NetContains(Net(V6(p1, p2, p3, p4, p5, p6, p7, p8), len), ip) <=> Agree(o, n, k, b, 16)
    BY Zenon, <1>3, <2>0
  <2>3. 1 .. k = {} /\ k + 1 = 1
    BY <2>1
  <2>4. Agree(o, n, k, b, 16) <=>
          Within(o[1], p1, b, 16)
    BY <1>1, <2>3 DEF Agree
  <2> QED
    BY <2>1, <2>2, <2>4
<1>7. NetContains(Net(V6(p1, p2, p3, p4, p5, p6, p7, p8), 16), ip) <=>
        o[1] = p1
  <2>1. PICK k \in Nat, b \in 0 .. 16, len \in Nat :
          k = 0 /\ b = 16 /\ len = 16
    OBVIOUS
  <2>0. k < 8 /\ len = 16 * k + b
    BY <2>1
  <2>2. NetContains(Net(V6(p1, p2, p3, p4, p5, p6, p7, p8), len), ip) <=> Agree(o, n, k, b, 16)
    BY Zenon, <1>3, <2>0
  <2>3. 1 .. k = {} /\ k + 1 = 1
    BY <2>1
  <2>4. Agree(o, n, k, b, 16) <=>
          Within(o[1], p1, b, 16)
    BY <1>1, <2>3 DEF Agree
  <2>5. Within(o[1], p1, 16, 16) <=> o[1] = p1
    BY <1>1, <1>4
  <2> QED
    BY <2>1, <2>2, <2>4, <2>5
<1>8. NetContains(Net(V6(p1, p2, p3, p4, p5, p6, p7, p8), 20), ip) <=>
        o[1] = p1 /\ Within(o[2], p2, 4, 16)
  <2>1. PICK k \in Nat, b \in 0 .. 16, len \in Nat :
          k = 1 /\ b = 4 /\ len = 20
    OBVIOUS
  <2>0. k < 8 /\ len = 16 * k + b
    BY <2>1
  <2>2. NetContains(Net(V6(p1, p2, p3, p4, p5, p6, p7, p8), len), ip) <=> Agree(o, n, k, b, 16)
    BY Zenon, <1>3, <2>0
  <2>3. 1 .. k = {1} /\ k + 1 = 2
    BY <2>1
  <2>4. Agree(o, n, k, b, 16) <=>
          o[1] = p1 /\ Within(o[2], p2, b, 16)
    BY <1>1, <2>3 DEF Agree
  <2> QED
    BY <2>1, <2>2, <2>4
<1>9. NetContains(Net(V6(p1, p2, p3, p4, p5, p6, p7, p8), 23), ip) <=>
        o[1] = p1 /\ Within(o[2], p2, 7, 16)
  <2>1. PICK k \in Nat, b \in 0 .. 16, len \in Nat :
          k = 1 /\ b = 7 /\ len = 23
    OBVIOUS
  <2>0. k < 8 /\ len = 16 * k + b
    BY <2>1
  <2>2. NetContains(Net(V6(p1, p2, p3, p4, p5, p6, p7, p8), len), ip) <=> Agree(o, n, k, b, 16)
    BY Zenon, <1>3, <2>0
  <2>3. 1 .. k = {1} /\ k + 1 = 2
    BY <2>1
  <2>4. Agree(o, n, k, b, 16) <=>
          o[1] = p1 /\ Within(o[2], p2, b, 16)
    BY <1>1, <2>3 DEF Agree
  <2> QED
    BY <2>1, <2>2, <2>4
<1>10. NetContains(Net(V6(p1, p2, p3, p4, p5, p6, p7, p8), 28), ip) <=>
        o[1] = p1 /\ Within(o[2], p2, 12, 16)
  <2>1. PICK k \in Nat, b \in 0 .. 16, len \in Nat :
          k = 1 /\ b = 12 /\ len = 28
    OBVIOUS
  <2>0. k < 8 /\ len = 16 * k + b
    BY <2>1
  <2>2. NetContains(Net(V6(p1, p2, p3, p4, p5, p6, p7, p8), len), ip) <=> Agree(o, n, k, b, 16)
    BY Zenon, <1>3, <2>0
  <2>3. 1 .. k = {1} /\ k + 1 = 2
    BY <2>1
  <2>4. Agree(o, n, k, b, 16) <=>
          o[1] = p1 /\ Within(o[2], p2, b, 16)
    BY <1>1, <2>3 DEF Agree
  <2> QED
    BY <2>1, <2>2, <2>4
<1>11. NetContains(Net(V6(p1, p2, p3, p4, p5, p6, p7, p8), 32), ip) <=>
        o[1] = p1 /\ o[2] = p2
  <2>1. PICK k \in Nat, b \in 0 .. 16, len \in Nat :
          k = 1 /\ b = 16 /\ len = 32
    OBVIOUS
  <2>0. k < 8 /\ len = 16 * k + b
    BY <2>1
  <2>2. NetContains(Net(V6(p1, p2, p3, p4, p5, p6, p7, p8), len), ip) <=> Agree(o, n, k, b, 16)
    BY Zenon, <1>3, <2>0
  <2>3. 1 .. k = {1} /\ k + 1 = 2
    BY <2>1
  <2>4. Agree(o, n, k, b, 16) <=>
          o[1] = p1 /\ Within(o[2], p2, b, 16)
    BY <1>1, <2>3 DEF Agree
  <2>5. Within(o[2], p2, 16, 16) <=> o[2] = p2
    BY <1>1, <1>4
  <2> QED
    BY <2>1, <2>2, <2>4, <2>5
<1>12. NetContains(Net(V6(p1, p2, p3, p4, p5, p6, p7, p8), 48), ip) <=>
        o[1] = p1 /\ o[2] = p2 /\ o[3] = p3
  <2>1. PICK k \in Nat, b \in 0 .. 16, len \in Nat :
          k = 2 /\ b = 16 /\ len = 48
    OBVIOUS
  <2>0. k < 8 /\ len = 16 * k + b
    BY <2>1
  <2>2. NetContains(Net(V6(p1, p2, p3, p4, p5, p6, p7, p8), len), ip) <=> Agree(o, n, k, b, 16)
    BY Zenon, <1>3, <2>0
  <2>3. 1 .. k = {1, 2} /\ k + 1 = 3
    BY <2>1
  <2>4. Agree(o, n, k, b, 16) <=>
          o[1] = p1 /\ o[2] = p2 /\ Within(o[3], p3, b, 16)
    BY <1>1, <2>3 DEF Agree
  <2>5. Within(o[3], p3, 16, 16) <=> o[3] = p3
    BY <1>1, <1>4
  <2> QED
    BY <2>1, <2>2, <2>4, <2>5
<1>13. NetContains(Net(V6(p1, p2, p3, p4, p5, p6, p7, p8), 64), ip) <=>
        o[1] = p1 /\ o[2] = p2 /\ o[3] = p3 /\ o[4] = p4
  <2>1. PICK k \in Nat, b \in 0 .. 16, len \in Nat :
          k = 3 /\ b = 16 /\ len = 64
    OBVIOUS
  <2>0. k < 8 /\ len = 16 * k + b
    BY <2>1
  <2>2. NetContains(Net(V6(p1, p2, p3, p4, p5, p6, p7, p8), len), ip) <=> Agree(o, n, k, b, 16)
    BY Zenon, <1>3, <2>0
  <2>3. 1 .. k = {1, 2, 3} /\ k + 1 = 4
    BY <2>1
  <2>4. Agree(o, n, k, b, 16) <=>
          o[1] = p1 /\ o[2] = p2 /\ o[3] = p3 /\ Within(o[4], p4, b, 16)
    BY <1>1, <2>3 DEF Agree
  <2>5. Within(o[4], p4, 16, 16) <=> o[4] = p4
    BY <1>1, <1>4
  <2> QED
    BY <2>1, <2>2, <2>4, <2>5
<1>14. NetContains(Net(V6(p1, p2, p3, p4, p5, p6, p7, p8), 96), ip) <=>
        o[1] = p1 /\ o[2] = p2 /\ o[3] = p3 /\ o[4] = p4 /\ o[5] = p5 /\ o[6] = p6
  <2>1. PICK k \in Nat, b \in 0 .. 16, len \in Nat :
          k = 5 /\ b = 16 /\ len = 96
    OBVIOUS
  <2>0. k < 8 /\ len = 16 * k + b
    BY <2>1
  <2>2. NetContains(Net(V6(p1, p2, p3, p4, p5, p6, p7, p8), len), ip) <=> Agree(o, n, k, b, 16)
    BY Zenon, <1>3, <2>0
  <2>3. 1 .. k = {1, 2, 3, 4, 5} /\ k + 1 = 6
    BY <2>1
  <2>4. Agree(o, n, k, b, 16) <=>
          o[1] = p1 /\ o[2] = p2 /\ o[3] = p3 /\ o[4] = p4 /\ o[5] = p5 /\ Within(o[6], p6, b, 16)
    BY <1>1, <2>3 DEF Agree
  <2>5. Within(o[6], p6, 16, 16) <=> o[6] = p6
    BY <1>1, <1>4
  <2> QED
    BY <2>1, <2>2, <2>4, <2>5
<1>15. NetContains(Net(V6(p1, p2, p3, p4, p5, p6, p7, p8), 127), ip) <=>
        o[1] = p1 /\ o[2] = p2 /\ o[3] = p3 /\ o[4] = p4 /\ o[5] = p5 /\ o[6] = p6
                /\ o[7] = p7 /\ Within(o[8], p8, 15, 16)
  <2>1. PICK k \in Nat, b \in 0 .. 16, len \in Nat :
          k = 7 /\ b = 15 /\ len = 127
    OBVIOUS
  <2>0. k < 8 /\ len = 16 * k + b
    BY <2>1
  <2>2. NetContains(Net(V6(p1, p2, p3, p4, p5, p6, p7, p8), len), ip) <=> Agree(o, n, k, b, 16)
    BY Zenon, <1>3, <2>0
  <2>3. 1 .. k = {1, 2, 3, 4, 5, 6, 7} /\ k + 1 = 8
    BY <2>1
  <2>4. Agree(o, n, k, b, 16) <=>
          o[1] = p1 /\ o[2] = p2 /\ o[3] = p3 /\ o[4] = p4 /\ o[5] = p5 /\ o[6] = p6
                  /\ o[7] = p7 /\ Within(o[8], p8, b, 16)
    BY <1>1, <2>3 DEF Agree
  <2> QED
    BY <2>1, <2>2, <2>4
<1>16. NetContains(Net(V6(p1, p2, p3, p4, p5, p6, p7, p8), 128), ip) <=>
        o[1] = p1 /\ o[2] = p2 /\ o[3] = p3 /\ o[4] = p4 /\ o[5] = p5 /\ o[6] = p6
                /\ o[7] = p7 /\ o[8] = p8
  <2>1. PICK k \in Nat, b \in 0 .. 16, len \in Nat :
          k = 7 /\ b = 16 /\ len = 128
    OBVIOUS
  <2>0. k < 8 /\ len = 16 * k + b
    BY <2>1
  <2>2. NetContains(Net(V6(p1, p2, p3, p4, p5, p6, p7, p8), len), ip) <=> Agree(o, n, k, b, 16)
    BY Zenon, <1>3, <2>0
  <2>3. 1 .. k = {1, 2, 3, 4, 5, 6, 7} /\ k + 1 = 8
    BY <2>1
  <2>4. Agree(o, n, k, b, 16) <=>
          o[1] = p1 /\ o[2] = p2 /\ o[3] = p3 /\ o[4] = p4 /\ o[5] = p5 /\ o[6] = p6
                  /\ o[7] = p7 /\ Within(o[8], p8, b, 16)
    BY <1>1, <2>3 DEF Agree
  <2>5. Within(o[8], p8, 16, 16) <=> o[8] = p8
    BY <1>1, <1>4
  <2> QED
    BY <2>1, <2>2, <2>4, <2>5
<1> QED
  BY Zenon, <1>5, <1>6, <1>7, <1>8, <1>9, <1>10, <1>11, <1>12, <1>13, <1>14, <1>15, <1>16 DEF Lens6

Starts3(s) ==
  \A a, b, c :
    SubSeq(s, 1, 3) = <<a, b, c>> <=>
      s[1] = a /\ s[2] = b /\ s[3] = c

\* What a comparison with the first three elements says.
LEMMA Sub3 ==
  ASSUME NEW T, NEW s \in Seq(T), NEW m \in Nat, m = Len(s), m >= 3
  PROVE  Starts3(s)
<1> SUFFICES ASSUME NEW a, NEW b, NEW c
             PROVE  SubSeq(s, 1, 3) = <<a, b, c>> <=> s[1] = a /\ s[2] = b /\ s[3] = c
  BY Zenon DEF Starts3
<1>1. SubSeq(s, 1, 3) \in Seq(T) /\ Len(SubSeq(s, 1, 3)) = 3
  OBVIOUS
<1>2. PICK q \in Seq(T) : q = SubSeq(s, 1, 3)
  BY Zenon, <1>1
<1>3. q[1] = s[1] /\ q[2] = s[2] /\ q[3] = s[3]
  BY <1>2
<1>4. q = <<q[1], q[2], q[3]>>
  <2>1. Len(q) = 3
    BY Zenon, <1>1, <1>2
  <2>2. QED
    BY ONLY q \in Seq(T), <2>1
<1>5. <<q[1], q[2], q[3]>> = <<a, b, c>> <=> q[1] = a /\ q[2] = b /\ q[3] = c
  OBVIOUS
<1>6. QED
  BY Zenon, <1>2, <1>3, <1>4, <1>5

Starts4(s) ==
  \A a, b, c, d :
    SubSeq(s, 1, 4) = <<a, b, c, d>> <=>
      s[1] = a /\ s[2] = b /\ s[3] = c /\ s[4] = d

\* The same for four.
LEMMA Sub4 ==
  ASSUME NEW T, NEW s \in Seq(T), NEW m \in Nat, m = Len(s), m >= 4
  PROVE  Starts4(s)
<1> SUFFICES ASSUME NEW a, NEW b, NEW c, NEW d
             PROVE  SubSeq(s, 1, 4) = <<a, b, c, d>> <=> s[1] = a /\ s[2] = b /\ s[3] = c
                     /\ s[4] = d
  BY Zenon DEF Starts4
<1>1. SubSeq(s, 1, 4) \in Seq(T) /\ Len(SubSeq(s, 1, 4)) = 4
  OBVIOUS
<1>2. PICK q \in Seq(T) : q = SubSeq(s, 1, 4)
  BY Zenon, <1>1
<1>3. q[1] = s[1] /\ q[2] = s[2] /\ q[3] = s[3] /\ q[4] = s[4]
  BY <1>2
<1>4. q = <<q[1], q[2], q[3], q[4]>>
  <2>1. Len(q) = 4
    BY Zenon, <1>1, <1>2
  <2>2. QED
    BY ONLY q \in Seq(T), <2>1
<1>5. <<q[1], q[2], q[3], q[4]>> = <<a, b, c, d>> <=> q[1] = a /\ q[2] = b /\ q[3] = c /\ q[4] = d
  OBVIOUS
<1>6. QED
  BY Zenon, <1>2, <1>3, <1>4, <1>5

Starts6(s) ==
  \A a, b, c, d, e, f :
    SubSeq(s, 1, 6) = <<a, b, c, d, e, f>> <=>
      s[1] = a /\ s[2] = b /\ s[3] = c /\ s[4] = d /\ s[5] = e /\ s[6] = f

\* The same for six.
LEMMA Sub6 ==
  ASSUME NEW T, NEW s \in Seq(T), NEW m \in Nat, m = Len(s), m >= 6
  PROVE  Starts6(s)
<1> SUFFICES ASSUME NEW a, NEW b, NEW c, NEW d, NEW e, NEW f
             PROVE  SubSeq(s, 1, 6) = <<a, b, c, d, e, f>> <=> s[1] = a /\ s[2] = b
                     /\ s[3] = c /\ s[4] = d /\ s[5] = e /\ s[6] = f
  BY Zenon DEF Starts6
<1>1. SubSeq(s, 1, 6) \in Seq(T) /\ Len(SubSeq(s, 1, 6)) = 6
  OBVIOUS
<1>2. PICK q \in Seq(T) : q = SubSeq(s, 1, 6)
  BY Zenon, <1>1
<1>3. q[1] = s[1] /\ q[2] = s[2] /\ q[3] = s[3] /\ q[4] = s[4] /\ q[5] = s[5] /\ q[6] = s[6]
  BY <1>2
<1>4. q = <<q[1], q[2], q[3], q[4], q[5], q[6]>>
  <2>1. Len(q) = 6
    BY Zenon, <1>1, <1>2
  <2>2. QED
    BY ONLY q \in Seq(T), <2>1
<1>5. <<q[1], q[2], q[3], q[4], q[5], q[6]>> = <<a, b, c, d, e, f>> <=> q[1] = a /\ q[2] = b
        /\ q[3] = c /\ q[4] = d /\ q[5] = e /\ q[6] = f
  OBVIOUS
<1>6. QED
  BY Zenon, <1>2, <1>3, <1>4, <1>5

\* The partial octets of the IPv4 blocks are the masks the code tests.
LEMMA Shift8 ==
  ASSUME NEW x \in Segment(8)
  PROVE  /\ Within(x, 240, 4, 8) <=> x \div 16 = 15
         /\ Within(x, 64, 2, 8) <=> x \div 64 = 1
         /\ Within(x, 16, 4, 8) <=> x \div 16 = 1
         /\ Within(x, 18, 7, 8) <=> x \div 2 = 9
<1>1. 2 ^ (8 - 4) = 16 /\ 2 ^ (8 - 2) = 64 /\ 2 ^ (8 - 7) = 2
  OBVIOUS
<1>2. 240 \div 16 = 15 /\ 64 \div 64 = 1 /\ 16 \div 16 = 1 /\ 18 \div 2 = 9
  OBVIOUS
<1>3. QED
  BY <1>1, <1>2 DEF Within

\* The partial segments of the IPv6 blocks are the masks the code tests.
LEMMA Shift16 ==
  ASSUME NEW x \in Segment(16)
  PROVE  /\ Within(x, 0, 4, 16) <=> x \div 4096 = 0
         /\ Within(x, 0, 7, 16) <=> x \div 512 = 0
         /\ Within(x, 0, 15, 16) <=> x \div 2 = 0
         /\ Within(x, 32, 12, 16) <=> x \div 16 = 2
         /\ Within(x, 48, 12, 16) <=> x \div 16 = 3
         /\ Within(x, 64512, 7, 16) <=> x \div 512 = 126
         /\ Within(x, 65152, 10, 16) <=> x \div 64 = 1018
<1>1. 2 ^ (16 - 4) = 4096 /\ 2 ^ (16 - 7) = 512 /\ 2 ^ (16 - 10) = 64 /\ 2 ^ (16 - 12) = 16
        /\ 2 ^ (16 - 15) = 2
  OBVIOUS
<1>2. 0 \div 4096 = 0 /\ 0 \div 512 = 0 /\ 0 \div 2 = 0 /\ 32 \div 16 = 2 /\ 48 \div 16 = 3
        /\ 64512 \div 512 = 126 /\ 65152 \div 64 = 1018
  OBVIOUS
<1>3. QED
  BY <1>1, <1>2 DEF Within

\* Each IPv4 block of the registry as a condition on the octets.
LEMMA Registry4 ==
  ASSUME NEW ip, ip.fam = 4, NEW o \in [1 .. 4 -> Segment(8)], ip.seg = o
  PROVE
  /\ NetContains(Net(V4(0, 0, 0, 0), 8), ip) <=> o[1] = 0
  /\ NetContains(Net(V4(10, 0, 0, 0), 8), ip) <=> o[1] = 10
  /\ NetContains(Net(V4(100, 64, 0, 0), 10), ip) <=> o[1] = 100 /\ o[2] \div 64 = 1
  /\ NetContains(Net(V4(127, 0, 0, 0), 8), ip) <=> o[1] = 127
  /\ NetContains(Net(V4(169, 254, 0, 0), 16), ip) <=> o[1] = 169 /\ o[2] = 254
  /\ NetContains(Net(V4(172, 16, 0, 0), 12), ip) <=> o[1] = 172 /\ o[2] \div 16 = 1
  /\ NetContains(Net(V4(192, 0, 0, 0), 24), ip) <=> o[1] = 192 /\ o[2] = 0 /\ o[3] = 0
  /\ NetContains(Net(V4(192, 0, 2, 0), 24), ip) <=> o[1] = 192 /\ o[2] = 0 /\ o[3] = 2
  /\ NetContains(Net(V4(192, 168, 0, 0), 16), ip) <=> o[1] = 192 /\ o[2] = 168
  /\ NetContains(Net(V4(198, 18, 0, 0), 15), ip) <=> o[1] = 198 /\ o[2] \div 2 = 9
  /\ NetContains(Net(V4(198, 51, 100, 0), 24), ip) <=> o[1] = 198 /\ o[2] = 51 /\ o[3] = 100
  /\ NetContains(Net(V4(203, 0, 113, 0), 24), ip) <=> o[1] = 203 /\ o[2] = 0 /\ o[3] = 113
  /\ NetContains(Net(V4(240, 0, 0, 0), 4), ip) <=> o[1] \div 16 = 15
  /\ NetContains(Net(V4(192, 0, 0, 9), 32), ip) <=> o[1] = 192 /\ o[2] = 0 /\ o[3] = 0 /\ o[4] = 9
  /\ NetContains(Net(V4(192, 0, 0, 10), 32), ip) <=> o[1] = 192 /\ o[2] = 0 /\ o[3] = 0 /\ o[4] = 10
<1> DEFINE V == {0, 2, 9, 10, 16, 18, 51, 64, 100, 113, 127, 168, 169, 172, 192, 198, 203, 240, 254}
<1>1. V \subseteq Segment(8)
  <2>1. PICK top \in Nat : top = 2 ^ 8 - 1
    OBVIOUS
  <2>2. Segment(8) = 0 .. top
    BY Zenon, <2>1 DEF Segment
  <2>3. top = 255
    BY <2>1
  <2>4. V \subseteq 0 .. top
    BY <2>3
  <2> HIDE DEF V
  <2>5. QED
    BY Zenon, <2>2, <2>4
<1>2. o[1] \in Segment(8) /\ o[2] \in Segment(8) /\ o[3] \in Segment(8) /\ o[4] \in Segment(8)
  OBVIOUS
<1>3. NetContains(Net(V4(0, 0, 0, 0), 8), ip) <=>
        o[1] = 0
  <2>1. PICK p, q, r, t \in Segment(8) :
          p = 0 /\ q = 0 /\ r = 0 /\ t = 0
    BY <1>1
  <2>2. Lens4(ip, o, p, q, r, t)
    BY Zenon, Block4
  <2>3. QED
    BY <2>1, <2>2 DEF Lens4
<1>4. NetContains(Net(V4(10, 0, 0, 0), 8), ip) <=>
        o[1] = 10
  <2>1. PICK p, q, r, t \in Segment(8) :
          p = 10 /\ q = 0 /\ r = 0 /\ t = 0
    BY <1>1
  <2>2. Lens4(ip, o, p, q, r, t)
    BY Zenon, Block4
  <2>3. QED
    BY <2>1, <2>2 DEF Lens4
<1>5. NetContains(Net(V4(100, 64, 0, 0), 10), ip) <=>
        o[1] = 100 /\ o[2] \div 64 = 1
  <2>1. PICK p, q, r, t \in Segment(8) :
          p = 100 /\ q = 64 /\ r = 0 /\ t = 0
    BY <1>1
  <2>2. Lens4(ip, o, p, q, r, t)
    BY Zenon, Block4
  <2>3. NetContains(Net(V4(p, q, r, t), 10), ip) <=> o[1] = p /\ Within(o[2], q, 2, 8)
    BY Zenon, <2>2 DEF Lens4
  <2>4. Within(o[2], 64, 2, 8) <=> o[2] \div 64 = 1
    BY <1>2, Shift8
  <2>5. QED
    BY <2>1, <2>3, <2>4
<1>6. NetContains(Net(V4(127, 0, 0, 0), 8), ip) <=>
        o[1] = 127
  <2>1. PICK p, q, r, t \in Segment(8) :
          p = 127 /\ q = 0 /\ r = 0 /\ t = 0
    BY <1>1
  <2>2. Lens4(ip, o, p, q, r, t)
    BY Zenon, Block4
  <2>3. QED
    BY <2>1, <2>2 DEF Lens4
<1>7. NetContains(Net(V4(169, 254, 0, 0), 16), ip) <=>
        o[1] = 169 /\ o[2] = 254
  <2>1. PICK p, q, r, t \in Segment(8) :
          p = 169 /\ q = 254 /\ r = 0 /\ t = 0
    BY <1>1
  <2>2. Lens4(ip, o, p, q, r, t)
    BY Zenon, Block4
  <2>3. QED
    BY <2>1, <2>2 DEF Lens4
<1>8. NetContains(Net(V4(172, 16, 0, 0), 12), ip) <=>
        o[1] = 172 /\ o[2] \div 16 = 1
  <2>1. PICK p, q, r, t \in Segment(8) :
          p = 172 /\ q = 16 /\ r = 0 /\ t = 0
    BY <1>1
  <2>2. Lens4(ip, o, p, q, r, t)
    BY Zenon, Block4
  <2>3. NetContains(Net(V4(p, q, r, t), 12), ip) <=> o[1] = p /\ Within(o[2], q, 4, 8)
    BY Zenon, <2>2 DEF Lens4
  <2>4. Within(o[2], 16, 4, 8) <=> o[2] \div 16 = 1
    BY <1>2, Shift8
  <2>5. QED
    BY <2>1, <2>3, <2>4
<1>9. NetContains(Net(V4(192, 0, 0, 0), 24), ip) <=>
        o[1] = 192 /\ o[2] = 0 /\ o[3] = 0
  <2>1. PICK p, q, r, t \in Segment(8) :
          p = 192 /\ q = 0 /\ r = 0 /\ t = 0
    BY <1>1
  <2>2. Lens4(ip, o, p, q, r, t)
    BY Zenon, Block4
  <2>3. QED
    BY <2>1, <2>2 DEF Lens4
<1>10. NetContains(Net(V4(192, 0, 2, 0), 24), ip) <=>
        o[1] = 192 /\ o[2] = 0 /\ o[3] = 2
  <2>1. PICK p, q, r, t \in Segment(8) :
          p = 192 /\ q = 0 /\ r = 2 /\ t = 0
    BY <1>1
  <2>2. Lens4(ip, o, p, q, r, t)
    BY Zenon, Block4
  <2>3. QED
    BY <2>1, <2>2 DEF Lens4
<1>11. NetContains(Net(V4(192, 168, 0, 0), 16), ip) <=>
        o[1] = 192 /\ o[2] = 168
  <2>1. PICK p, q, r, t \in Segment(8) :
          p = 192 /\ q = 168 /\ r = 0 /\ t = 0
    BY <1>1
  <2>2. Lens4(ip, o, p, q, r, t)
    BY Zenon, Block4
  <2>3. QED
    BY <2>1, <2>2 DEF Lens4
<1>12. NetContains(Net(V4(198, 18, 0, 0), 15), ip) <=>
        o[1] = 198 /\ o[2] \div 2 = 9
  <2>1. PICK p, q, r, t \in Segment(8) :
          p = 198 /\ q = 18 /\ r = 0 /\ t = 0
    BY <1>1
  <2>2. Lens4(ip, o, p, q, r, t)
    BY Zenon, Block4
  <2>3. NetContains(Net(V4(p, q, r, t), 15), ip) <=> o[1] = p /\ Within(o[2], q, 7, 8)
    BY Zenon, <2>2 DEF Lens4
  <2>4. Within(o[2], 18, 7, 8) <=> o[2] \div 2 = 9
    BY <1>2, Shift8
  <2>5. QED
    BY <2>1, <2>3, <2>4
<1>13. NetContains(Net(V4(198, 51, 100, 0), 24), ip) <=>
        o[1] = 198 /\ o[2] = 51 /\ o[3] = 100
  <2>1. PICK p, q, r, t \in Segment(8) :
          p = 198 /\ q = 51 /\ r = 100 /\ t = 0
    BY <1>1
  <2>2. Lens4(ip, o, p, q, r, t)
    BY Zenon, Block4
  <2>3. QED
    BY <2>1, <2>2 DEF Lens4
<1>14. NetContains(Net(V4(203, 0, 113, 0), 24), ip) <=>
        o[1] = 203 /\ o[2] = 0 /\ o[3] = 113
  <2>1. PICK p, q, r, t \in Segment(8) :
          p = 203 /\ q = 0 /\ r = 113 /\ t = 0
    BY <1>1
  <2>2. Lens4(ip, o, p, q, r, t)
    BY Zenon, Block4
  <2>3. QED
    BY <2>1, <2>2 DEF Lens4
<1>15. NetContains(Net(V4(240, 0, 0, 0), 4), ip) <=>
        o[1] \div 16 = 15
  <2>1. PICK p, q, r, t \in Segment(8) :
          p = 240 /\ q = 0 /\ r = 0 /\ t = 0
    BY <1>1
  <2>2. Lens4(ip, o, p, q, r, t)
    BY Zenon, Block4
  <2>3. NetContains(Net(V4(p, q, r, t), 4), ip) <=> Within(o[1], p, 4, 8)
    BY Zenon, <2>2 DEF Lens4
  <2>4. Within(o[1], 240, 4, 8) <=> o[1] \div 16 = 15
    BY <1>2, Shift8
  <2>5. QED
    BY <2>1, <2>3, <2>4
<1>16. NetContains(Net(V4(192, 0, 0, 9), 32), ip) <=>
        o[1] = 192 /\ o[2] = 0 /\ o[3] = 0 /\ o[4] = 9
  <2>1. PICK p, q, r, t \in Segment(8) :
          p = 192 /\ q = 0 /\ r = 0 /\ t = 9
    BY <1>1
  <2>2. Lens4(ip, o, p, q, r, t)
    BY Zenon, Block4
  <2>3. QED
    BY <2>1, <2>2 DEF Lens4
<1>17. NetContains(Net(V4(192, 0, 0, 10), 32), ip) <=>
        o[1] = 192 /\ o[2] = 0 /\ o[3] = 0 /\ o[4] = 10
  <2>1. PICK p, q, r, t \in Segment(8) :
          p = 192 /\ q = 0 /\ r = 0 /\ t = 10
    BY <1>1
  <2>2. Lens4(ip, o, p, q, r, t)
    BY Zenon, Block4
  <2>3. QED
    BY <2>1, <2>2 DEF Lens4
<1>18. QED
  BY ONLY <1>3, <1>4, <1>5, <1>6, <1>7, <1>8, <1>9, <1>10, <1>11, <1>12, <1>13, <1>14, <1>15,
          <1>16, <1>17

\* Each IPv6 block of the registry as a condition on the segments.
LEMMA Registry6 ==
  ASSUME NEW ip, ip.fam = 6, NEW o \in [1 .. 8 -> Segment(16)], ip.seg = o
  PROVE
  /\ NetContains(Net(V6(0, 0, 0, 0, 0, 0, 0, 0), 127), ip) <=> o[1] = 0 /\ o[2] = 0
          /\ o[3] = 0 /\ o[4] = 0 /\ o[5] = 0 /\ o[6] = 0 /\ o[7] = 0 /\ o[8] \div 2 = 0
  /\ NetContains(Net(V6(0, 0, 0, 0, 0, 65535, 0, 0), 96), ip) <=> o[1] = 0 /\ o[2] = 0
          /\ o[3] = 0 /\ o[4] = 0 /\ o[5] = 0 /\ o[6] = 65535
  /\ NetContains(Net(V6(100, 65435, 1, 0, 0, 0, 0, 0), 48), ip) <=> o[1] = 100
          /\ o[2] = 65435 /\ o[3] = 1
  /\ NetContains(Net(V6(256, 0, 0, 0, 0, 0, 0, 0), 64), ip) <=> o[1] = 256 /\ o[2] = 0
          /\ o[3] = 0 /\ o[4] = 0
  /\ NetContains(Net(V6(8193, 0, 0, 0, 0, 0, 0, 0), 23), ip) <=> o[1] = 8193 /\ o[2] \div 512 = 0
  /\ NetContains(Net(V6(8193, 3512, 0, 0, 0, 0, 0, 0), 32), ip) <=> o[1] = 8193 /\ o[2] = 3512
  /\ NetContains(Net(V6(16383, 0, 0, 0, 0, 0, 0, 0), 20), ip) <=> o[1] = 16383 /\ o[2] \div 4096 = 0
  /\ NetContains(Net(V6(8194, 0, 0, 0, 0, 0, 0, 0), 16), ip) <=> o[1] = 8194
  /\ NetContains(Net(V6(64512, 0, 0, 0, 0, 0, 0, 0), 7), ip) <=> o[1] \div 512 = 126
  /\ NetContains(Net(V6(65152, 0, 0, 0, 0, 0, 0, 0), 10), ip) <=> o[1] \div 64 = 1018
  /\ NetContains(Net(V6(8193, 1, 0, 0, 0, 0, 0, 1), 128), ip) <=> o[1] = 8193 /\ o[2] = 1
          /\ o[3] = 0 /\ o[4] = 0 /\ o[5] = 0 /\ o[6] = 0 /\ o[7] = 0 /\ o[8] = 1
  /\ NetContains(Net(V6(8193, 1, 0, 0, 0, 0, 0, 2), 128), ip) <=> o[1] = 8193 /\ o[2] = 1
          /\ o[3] = 0 /\ o[4] = 0 /\ o[5] = 0 /\ o[6] = 0 /\ o[7] = 0 /\ o[8] = 2
  /\ NetContains(Net(V6(8193, 3, 0, 0, 0, 0, 0, 0), 32), ip) <=> o[1] = 8193 /\ o[2] = 3
  /\ NetContains(Net(V6(8193, 4, 274, 0, 0, 0, 0, 0), 48), ip) <=> o[1] = 8193 /\ o[2] = 4
          /\ o[3] = 274
  /\ NetContains(Net(V6(8193, 32, 0, 0, 0, 0, 0, 0), 28), ip) <=> o[1] = 8193 /\ o[2] \div 16 = 2
  /\ NetContains(Net(V6(8193, 48, 0, 0, 0, 0, 0, 0), 28), ip) <=> o[1] = 8193 /\ o[2] \div 16 = 3
<1> DEFINE V == {0, 1, 2, 3, 4, 32, 48, 100, 256, 274}
           W == {3512, 8193, 8194, 16383, 64512, 65152, 65435, 65535}
<1>1. V \subseteq Segment(16) /\ W \subseteq Segment(16)
  <2>1. PICK top \in Nat : top = 2 ^ 16 - 1
    OBVIOUS
  <2>2. Segment(16) = 0 .. top
    BY Zenon, <2>1 DEF Segment
  <2>3. top = 65535
    BY <2>1
  <2>4. V \subseteq 0 .. top
    BY <2>3
  <2>5. W \subseteq 0 .. top
    BY <2>3
  <2> HIDE DEF V, W
  <2>6. QED
    BY Zenon, <2>2, <2>4, <2>5
<1>2. o[1] \in Segment(16) /\ o[2] \in Segment(16) /\ o[3] \in Segment(16)
        /\ o[4] \in Segment(16) /\ o[5] \in Segment(16) /\ o[6] \in Segment(16)
                /\ o[7] \in Segment(16) /\ o[8] \in Segment(16)
  OBVIOUS
<1>3. NetContains(Net(V6(0, 0, 0, 0, 0, 0, 0, 0), 127), ip) <=>
        o[1] = 0 /\ o[2] = 0 /\ o[3] = 0 /\ o[4] = 0 /\ o[5] = 0 /\ o[6] = 0 /\ o[7] = 0
                /\ o[8] \div 2 = 0
  <2>1. PICK p1, p2, p3, p4, p5, p6, p7, p8 \in Segment(16) :
          p1 = 0 /\ p2 = 0 /\ p3 = 0 /\ p4 = 0 /\ p5 = 0 /\ p6 = 0 /\ p7 = 0 /\ p8 = 0
    BY <1>1
  <2>2. Lens6(ip, o, p1, p2, p3, p4, p5, p6, p7, p8)
    BY Zenon, Block6
  <2>3. NetContains(Net(V6(p1, p2, p3, p4, p5, p6, p7, p8), 127), ip) <=> o[1] = p1
          /\ o[2] = p2 /\ o[3] = p3 /\ o[4] = p4 /\ o[5] = p5 /\ o[6] = p6 /\ o[7] = p7
                  /\ Within(o[8], p8, 15, 16)
    BY Zenon, <2>2 DEF Lens6
  <2>4. Within(o[8], 0, 15, 16) <=> o[8] \div 2 = 0
    BY <1>2, Shift16
  <2>5. QED
    BY <2>1, <2>3, <2>4
<1>4. NetContains(Net(V6(0, 0, 0, 0, 0, 65535, 0, 0), 96), ip) <=>
        o[1] = 0 /\ o[2] = 0 /\ o[3] = 0 /\ o[4] = 0 /\ o[5] = 0 /\ o[6] = 65535
  <2>1. PICK p1, p2, p3, p4, p5, p6, p7, p8 \in Segment(16) :
          p1 = 0 /\ p2 = 0 /\ p3 = 0 /\ p4 = 0 /\ p5 = 0 /\ p6 = 65535 /\ p7 = 0 /\ p8 = 0
    BY <1>1
  <2>2. Lens6(ip, o, p1, p2, p3, p4, p5, p6, p7, p8)
    BY Zenon, Block6
  <2>3. QED
    BY <2>1, <2>2 DEF Lens6
<1>5. NetContains(Net(V6(100, 65435, 1, 0, 0, 0, 0, 0), 48), ip) <=>
        o[1] = 100 /\ o[2] = 65435 /\ o[3] = 1
  <2>1. PICK p1, p2, p3, p4, p5, p6, p7, p8 \in Segment(16) :
          p1 = 100 /\ p2 = 65435 /\ p3 = 1 /\ p4 = 0 /\ p5 = 0 /\ p6 = 0 /\ p7 = 0 /\ p8 = 0
    BY <1>1
  <2>2. Lens6(ip, o, p1, p2, p3, p4, p5, p6, p7, p8)
    BY Zenon, Block6
  <2>3. QED
    BY <2>1, <2>2 DEF Lens6
<1>6. NetContains(Net(V6(256, 0, 0, 0, 0, 0, 0, 0), 64), ip) <=>
        o[1] = 256 /\ o[2] = 0 /\ o[3] = 0 /\ o[4] = 0
  <2>1. PICK p1, p2, p3, p4, p5, p6, p7, p8 \in Segment(16) :
          p1 = 256 /\ p2 = 0 /\ p3 = 0 /\ p4 = 0 /\ p5 = 0 /\ p6 = 0 /\ p7 = 0 /\ p8 = 0
    BY <1>1
  <2>2. Lens6(ip, o, p1, p2, p3, p4, p5, p6, p7, p8)
    BY Zenon, Block6
  <2>3. QED
    BY <2>1, <2>2 DEF Lens6
<1>7. NetContains(Net(V6(8193, 0, 0, 0, 0, 0, 0, 0), 23), ip) <=>
        o[1] = 8193 /\ o[2] \div 512 = 0
  <2>1. PICK p1, p2, p3, p4, p5, p6, p7, p8 \in Segment(16) :
          p1 = 8193 /\ p2 = 0 /\ p3 = 0 /\ p4 = 0 /\ p5 = 0 /\ p6 = 0 /\ p7 = 0 /\ p8 = 0
    BY <1>1
  <2>2. Lens6(ip, o, p1, p2, p3, p4, p5, p6, p7, p8)
    BY Zenon, Block6
  <2>3. NetContains(Net(V6(p1, p2, p3, p4, p5, p6, p7, p8), 23), ip) <=> o[1] = p1
          /\ Within(o[2], p2, 7, 16)
    BY Zenon, <2>2 DEF Lens6
  <2>4. Within(o[2], 0, 7, 16) <=> o[2] \div 512 = 0
    BY <1>2, Shift16
  <2>5. QED
    BY <2>1, <2>3, <2>4
<1>8. NetContains(Net(V6(8193, 3512, 0, 0, 0, 0, 0, 0), 32), ip) <=>
        o[1] = 8193 /\ o[2] = 3512
  <2>1. PICK p1, p2, p3, p4, p5, p6, p7, p8 \in Segment(16) :
          p1 = 8193 /\ p2 = 3512 /\ p3 = 0 /\ p4 = 0 /\ p5 = 0 /\ p6 = 0 /\ p7 = 0 /\ p8 = 0
    BY <1>1
  <2>2. Lens6(ip, o, p1, p2, p3, p4, p5, p6, p7, p8)
    BY Zenon, Block6
  <2>3. QED
    BY <2>1, <2>2 DEF Lens6
<1>9. NetContains(Net(V6(16383, 0, 0, 0, 0, 0, 0, 0), 20), ip) <=>
        o[1] = 16383 /\ o[2] \div 4096 = 0
  <2>1. PICK p1, p2, p3, p4, p5, p6, p7, p8 \in Segment(16) :
          p1 = 16383 /\ p2 = 0 /\ p3 = 0 /\ p4 = 0 /\ p5 = 0 /\ p6 = 0 /\ p7 = 0 /\ p8 = 0
    BY <1>1
  <2>2. Lens6(ip, o, p1, p2, p3, p4, p5, p6, p7, p8)
    BY Zenon, Block6
  <2>3. NetContains(Net(V6(p1, p2, p3, p4, p5, p6, p7, p8), 20), ip) <=> o[1] = p1
          /\ Within(o[2], p2, 4, 16)
    BY Zenon, <2>2 DEF Lens6
  <2>4. Within(o[2], 0, 4, 16) <=> o[2] \div 4096 = 0
    BY <1>2, Shift16
  <2>5. QED
    BY <2>1, <2>3, <2>4
<1>10. NetContains(Net(V6(8194, 0, 0, 0, 0, 0, 0, 0), 16), ip) <=>
        o[1] = 8194
  <2>1. PICK p1, p2, p3, p4, p5, p6, p7, p8 \in Segment(16) :
          p1 = 8194 /\ p2 = 0 /\ p3 = 0 /\ p4 = 0 /\ p5 = 0 /\ p6 = 0 /\ p7 = 0 /\ p8 = 0
    BY <1>1
  <2>2. Lens6(ip, o, p1, p2, p3, p4, p5, p6, p7, p8)
    BY Zenon, Block6
  <2>3. QED
    BY <2>1, <2>2 DEF Lens6
<1>11. NetContains(Net(V6(64512, 0, 0, 0, 0, 0, 0, 0), 7), ip) <=>
        o[1] \div 512 = 126
  <2>1. PICK p1, p2, p3, p4, p5, p6, p7, p8 \in Segment(16) :
          p1 = 64512 /\ p2 = 0 /\ p3 = 0 /\ p4 = 0 /\ p5 = 0 /\ p6 = 0 /\ p7 = 0 /\ p8 = 0
    BY <1>1
  <2>2. Lens6(ip, o, p1, p2, p3, p4, p5, p6, p7, p8)
    BY Zenon, Block6
  <2>3. NetContains(Net(V6(p1, p2, p3, p4, p5, p6, p7, p8), 7), ip) <=> Within(o[1], p1, 7, 16)
    BY Zenon, <2>2 DEF Lens6
  <2>4. Within(o[1], 64512, 7, 16) <=> o[1] \div 512 = 126
    BY <1>2, Shift16
  <2>5. QED
    BY <2>1, <2>3, <2>4
<1>12. NetContains(Net(V6(65152, 0, 0, 0, 0, 0, 0, 0), 10), ip) <=>
        o[1] \div 64 = 1018
  <2>1. PICK p1, p2, p3, p4, p5, p6, p7, p8 \in Segment(16) :
          p1 = 65152 /\ p2 = 0 /\ p3 = 0 /\ p4 = 0 /\ p5 = 0 /\ p6 = 0 /\ p7 = 0 /\ p8 = 0
    BY <1>1
  <2>2. Lens6(ip, o, p1, p2, p3, p4, p5, p6, p7, p8)
    BY Zenon, Block6
  <2>3. NetContains(Net(V6(p1, p2, p3, p4, p5, p6, p7, p8), 10), ip) <=> Within(o[1], p1, 10, 16)
    BY Zenon, <2>2 DEF Lens6
  <2>4. Within(o[1], 65152, 10, 16) <=> o[1] \div 64 = 1018
    BY <1>2, Shift16
  <2>5. QED
    BY <2>1, <2>3, <2>4
<1>13. NetContains(Net(V6(8193, 1, 0, 0, 0, 0, 0, 1), 128), ip) <=>
        o[1] = 8193 /\ o[2] = 1 /\ o[3] = 0 /\ o[4] = 0 /\ o[5] = 0 /\ o[6] = 0 /\ o[7] = 0
                /\ o[8] = 1
  <2>1. PICK p1, p2, p3, p4, p5, p6, p7, p8 \in Segment(16) :
          p1 = 8193 /\ p2 = 1 /\ p3 = 0 /\ p4 = 0 /\ p5 = 0 /\ p6 = 0 /\ p7 = 0 /\ p8 = 1
    BY <1>1
  <2>2. Lens6(ip, o, p1, p2, p3, p4, p5, p6, p7, p8)
    BY Zenon, Block6
  <2>3. QED
    BY <2>1, <2>2 DEF Lens6
<1>14. NetContains(Net(V6(8193, 1, 0, 0, 0, 0, 0, 2), 128), ip) <=>
        o[1] = 8193 /\ o[2] = 1 /\ o[3] = 0 /\ o[4] = 0 /\ o[5] = 0 /\ o[6] = 0 /\ o[7] = 0
                /\ o[8] = 2
  <2>1. PICK p1, p2, p3, p4, p5, p6, p7, p8 \in Segment(16) :
          p1 = 8193 /\ p2 = 1 /\ p3 = 0 /\ p4 = 0 /\ p5 = 0 /\ p6 = 0 /\ p7 = 0 /\ p8 = 2
    BY <1>1
  <2>2. Lens6(ip, o, p1, p2, p3, p4, p5, p6, p7, p8)
    BY Zenon, Block6
  <2>3. QED
    BY <2>1, <2>2 DEF Lens6
<1>15. NetContains(Net(V6(8193, 3, 0, 0, 0, 0, 0, 0), 32), ip) <=>
        o[1] = 8193 /\ o[2] = 3
  <2>1. PICK p1, p2, p3, p4, p5, p6, p7, p8 \in Segment(16) :
          p1 = 8193 /\ p2 = 3 /\ p3 = 0 /\ p4 = 0 /\ p5 = 0 /\ p6 = 0 /\ p7 = 0 /\ p8 = 0
    BY <1>1
  <2>2. Lens6(ip, o, p1, p2, p3, p4, p5, p6, p7, p8)
    BY Zenon, Block6
  <2>3. QED
    BY <2>1, <2>2 DEF Lens6
<1>16. NetContains(Net(V6(8193, 4, 274, 0, 0, 0, 0, 0), 48), ip) <=>
        o[1] = 8193 /\ o[2] = 4 /\ o[3] = 274
  <2>1. PICK p1, p2, p3, p4, p5, p6, p7, p8 \in Segment(16) :
          p1 = 8193 /\ p2 = 4 /\ p3 = 274 /\ p4 = 0 /\ p5 = 0 /\ p6 = 0 /\ p7 = 0 /\ p8 = 0
    BY <1>1
  <2>2. Lens6(ip, o, p1, p2, p3, p4, p5, p6, p7, p8)
    BY Zenon, Block6
  <2>3. QED
    BY <2>1, <2>2 DEF Lens6
<1>17. NetContains(Net(V6(8193, 32, 0, 0, 0, 0, 0, 0), 28), ip) <=>
        o[1] = 8193 /\ o[2] \div 16 = 2
  <2>1. PICK p1, p2, p3, p4, p5, p6, p7, p8 \in Segment(16) :
          p1 = 8193 /\ p2 = 32 /\ p3 = 0 /\ p4 = 0 /\ p5 = 0 /\ p6 = 0 /\ p7 = 0 /\ p8 = 0
    BY <1>1
  <2>2. Lens6(ip, o, p1, p2, p3, p4, p5, p6, p7, p8)
    BY Zenon, Block6
  <2>3. NetContains(Net(V6(p1, p2, p3, p4, p5, p6, p7, p8), 28), ip) <=> o[1] = p1
          /\ Within(o[2], p2, 12, 16)
    BY Zenon, <2>2 DEF Lens6
  <2>4. Within(o[2], 32, 12, 16) <=> o[2] \div 16 = 2
    BY <1>2, Shift16
  <2>5. QED
    BY <2>1, <2>3, <2>4
<1>18. NetContains(Net(V6(8193, 48, 0, 0, 0, 0, 0, 0), 28), ip) <=>
        o[1] = 8193 /\ o[2] \div 16 = 3
  <2>1. PICK p1, p2, p3, p4, p5, p6, p7, p8 \in Segment(16) :
          p1 = 8193 /\ p2 = 48 /\ p3 = 0 /\ p4 = 0 /\ p5 = 0 /\ p6 = 0 /\ p7 = 0 /\ p8 = 0
    BY <1>1
  <2>2. Lens6(ip, o, p1, p2, p3, p4, p5, p6, p7, p8)
    BY Zenon, Block6
  <2>3. NetContains(Net(V6(p1, p2, p3, p4, p5, p6, p7, p8), 28), ip) <=> o[1] = p1
          /\ Within(o[2], p2, 12, 16)
    BY Zenon, <2>2 DEF Lens6
  <2>4. Within(o[2], 48, 12, 16) <=> o[2] \div 16 = 3
    BY <1>2, Shift16
  <2>5. QED
    BY <2>1, <2>3, <2>4
<1>19. QED
  BY ONLY <1>3, <1>4, <1>5, <1>6, <1>7, <1>8, <1>9, <1>10, <1>11, <1>12, <1>13, <1>14, <1>15,
          <1>16, <1>17, <1>18

\* An IPv4 address is registered by IPv4 blocks only.
LEMMA Listed4 ==
  ASSUME NEW ip, ip.fam = 4
  PROVE  Registered(ip) <=>
           /\ \/ NetContains(Net(V4(0, 0, 0, 0), 8), ip)
              \/ NetContains(Net(V4(10, 0, 0, 0), 8), ip)
              \/ NetContains(Net(V4(100, 64, 0, 0), 10), ip)
              \/ NetContains(Net(V4(127, 0, 0, 0), 8), ip)
              \/ NetContains(Net(V4(169, 254, 0, 0), 16), ip)
              \/ NetContains(Net(V4(172, 16, 0, 0), 12), ip)
              \/ NetContains(Net(V4(192, 0, 0, 0), 24), ip)
              \/ NetContains(Net(V4(192, 0, 2, 0), 24), ip)
              \/ NetContains(Net(V4(192, 168, 0, 0), 16), ip)
              \/ NetContains(Net(V4(198, 18, 0, 0), 15), ip)
              \/ NetContains(Net(V4(198, 51, 100, 0), 24), ip)
              \/ NetContains(Net(V4(203, 0, 113, 0), 24), ip)
              \/ NetContains(Net(V4(240, 0, 0, 0), 4), ip)
           /\ ~ \/ NetContains(Net(V4(192, 0, 0, 9), 32), ip)
                \/ NetContains(Net(V4(192, 0, 0, 10), 32), ip)
<1>1. \A net : net.fam = 6 => ~NetContains(net, ip)
  BY DEF NetContains
<1>2. \A p1, p2, p3, p4, p5, p6, p7, p8, len : ~NetContains(Net(V6(p1, p2, p3, p4, p5, p6, p7,
        p8), len), ip)
  BY <1>1 DEF Net, V6
<1>3. (\E net \in SpecialBlocks : NetContains(net, ip)) <=>
        \/ NetContains(Net(V4(0, 0, 0, 0), 8), ip)
        \/ NetContains(Net(V4(10, 0, 0, 0), 8), ip)
        \/ NetContains(Net(V4(100, 64, 0, 0), 10), ip)
        \/ NetContains(Net(V4(127, 0, 0, 0), 8), ip)
        \/ NetContains(Net(V4(169, 254, 0, 0), 16), ip)
        \/ NetContains(Net(V4(172, 16, 0, 0), 12), ip)
        \/ NetContains(Net(V4(192, 0, 0, 0), 24), ip)
        \/ NetContains(Net(V4(192, 0, 2, 0), 24), ip)
        \/ NetContains(Net(V4(192, 168, 0, 0), 16), ip)
        \/ NetContains(Net(V4(198, 18, 0, 0), 15), ip)
        \/ NetContains(Net(V4(198, 51, 100, 0), 24), ip)
        \/ NetContains(Net(V4(203, 0, 113, 0), 24), ip)
        \/ NetContains(Net(V4(240, 0, 0, 0), 4), ip)
  BY <1>2 DEF SpecialBlocks
<1>4. (\E net \in ReachableBlocks : NetContains(net, ip)) <=>
        \/ NetContains(Net(V4(192, 0, 0, 9), 32), ip)
        \/ NetContains(Net(V4(192, 0, 0, 10), 32), ip)
  BY <1>2 DEF ReachableBlocks
<1>5. QED
  BY <1>3, <1>4 DEF Registered

\* An IPv6 address is registered by IPv6 blocks only.
LEMMA Listed6 ==
  ASSUME NEW ip, ip.fam = 6
  PROVE  Registered(ip) <=>
           /\ \/ NetContains(Net(V6(0, 0, 0, 0, 0, 0, 0, 0), 127), ip)
              \/ NetContains(Net(V6(0, 0, 0, 0, 0, 65535, 0, 0), 96), ip)
              \/ NetContains(Net(V6(100, 65435, 1, 0, 0, 0, 0, 0), 48), ip)
              \/ NetContains(Net(V6(256, 0, 0, 0, 0, 0, 0, 0), 64), ip)
              \/ NetContains(Net(V6(8193, 0, 0, 0, 0, 0, 0, 0), 23), ip)
              \/ NetContains(Net(V6(8193, 3512, 0, 0, 0, 0, 0, 0), 32), ip)
              \/ NetContains(Net(V6(16383, 0, 0, 0, 0, 0, 0, 0), 20), ip)
              \/ NetContains(Net(V6(8194, 0, 0, 0, 0, 0, 0, 0), 16), ip)
              \/ NetContains(Net(V6(64512, 0, 0, 0, 0, 0, 0, 0), 7), ip)
              \/ NetContains(Net(V6(65152, 0, 0, 0, 0, 0, 0, 0), 10), ip)
           /\ ~ \/ NetContains(Net(V6(8193, 1, 0, 0, 0, 0, 0, 1), 128), ip)
                \/ NetContains(Net(V6(8193, 1, 0, 0, 0, 0, 0, 2), 128), ip)
                \/ NetContains(Net(V6(8193, 3, 0, 0, 0, 0, 0, 0), 32), ip)
                \/ NetContains(Net(V6(8193, 4, 274, 0, 0, 0, 0, 0), 48), ip)
                \/ NetContains(Net(V6(8193, 32, 0, 0, 0, 0, 0, 0), 28), ip)
                \/ NetContains(Net(V6(8193, 48, 0, 0, 0, 0, 0, 0), 28), ip)
<1>1. \A net : net.fam = 4 => ~NetContains(net, ip)
  BY DEF NetContains
<1>2. \A p, q, r, t, len : ~NetContains(Net(V4(p, q, r, t), len), ip)
  BY <1>1 DEF Net, V4
<1>3. (\E net \in SpecialBlocks : NetContains(net, ip)) <=>
        \/ NetContains(Net(V6(0, 0, 0, 0, 0, 0, 0, 0), 127), ip)
        \/ NetContains(Net(V6(0, 0, 0, 0, 0, 65535, 0, 0), 96), ip)
        \/ NetContains(Net(V6(100, 65435, 1, 0, 0, 0, 0, 0), 48), ip)
        \/ NetContains(Net(V6(256, 0, 0, 0, 0, 0, 0, 0), 64), ip)
        \/ NetContains(Net(V6(8193, 0, 0, 0, 0, 0, 0, 0), 23), ip)
        \/ NetContains(Net(V6(8193, 3512, 0, 0, 0, 0, 0, 0), 32), ip)
        \/ NetContains(Net(V6(16383, 0, 0, 0, 0, 0, 0, 0), 20), ip)
        \/ NetContains(Net(V6(8194, 0, 0, 0, 0, 0, 0, 0), 16), ip)
        \/ NetContains(Net(V6(64512, 0, 0, 0, 0, 0, 0, 0), 7), ip)
        \/ NetContains(Net(V6(65152, 0, 0, 0, 0, 0, 0, 0), 10), ip)
  BY <1>2 DEF SpecialBlocks
<1>4. (\E net \in ReachableBlocks : NetContains(net, ip)) <=>
        \/ NetContains(Net(V6(8193, 1, 0, 0, 0, 0, 0, 1), 128), ip)
        \/ NetContains(Net(V6(8193, 1, 0, 0, 0, 0, 0, 2), 128), ip)
        \/ NetContains(Net(V6(8193, 3, 0, 0, 0, 0, 0, 0), 32), ip)
        \/ NetContains(Net(V6(8193, 4, 274, 0, 0, 0, 0, 0), 48), ip)
        \/ NetContains(Net(V6(8193, 32, 0, 0, 0, 0, 0, 0), 28), ip)
        \/ NetContains(Net(V6(8193, 48, 0, 0, 0, 0, 0, 0), 28), ip)
  BY <1>2 DEF ReachableBlocks
<1>5. QED
  BY <1>3, <1>4 DEF Registered

\* Segments are natural numbers.
LEMMA SegmentNat ==
  ASSUME NEW w
  PROVE  Segment(w) \subseteq Nat
  BY DEF Segment

\* A function on 1 .. m is a sequence.
LEMMA IsSeq ==
  ASSUME NEW T, NEW m \in Nat, NEW o \in [1 .. m -> T]
  PROVE  o \in Seq(T) /\ Len(o) = m
  OBVIOUS

\* is_global_ipv4 is the IPv4 registry.
LEMMA Global4 ==
  ASSUME NEW ip, ip.fam = 4, NEW o \in [1 .. 4 -> Segment(8)], ip.seg = o
  PROVE  is_global_ipv4(o) <=> ~Registered(ip)
<1>1. o[1] \in Nat /\ o[2] \in Nat /\ o[3] \in Nat /\ o[4] \in Nat
  BY SegmentNat
<1>2. Registered(ip) <=>
        /\ \/ o[1] = 0
           \/ o[1] = 10
           \/ o[1] = 100 /\ o[2] \div 64 = 1
           \/ o[1] = 127
           \/ o[1] = 169 /\ o[2] = 254
           \/ o[1] = 172 /\ o[2] \div 16 = 1
           \/ o[1] = 192 /\ o[2] = 0 /\ o[3] = 0
           \/ o[1] = 192 /\ o[2] = 0 /\ o[3] = 2
           \/ o[1] = 192 /\ o[2] = 168
           \/ o[1] = 198 /\ o[2] \div 2 = 9
           \/ o[1] = 198 /\ o[2] = 51 /\ o[3] = 100
           \/ o[1] = 203 /\ o[2] = 0 /\ o[3] = 113
           \/ o[1] \div 16 = 15
        /\ ~ \/ o[1] = 192 /\ o[2] = 0 /\ o[3] = 0 /\ o[4] = 9
             \/ o[1] = 192 /\ o[2] = 0 /\ o[3] = 0 /\ o[4] = 10
  BY Listed4, Registry4
<1>3. PICK m \in Nat : o \in Seq(Segment(8)) /\ m = Len(o) /\ m = 4
  <2>1. PICK m \in Nat : m = 4
    OBVIOUS
  <2>2. o \in [1 .. m -> Segment(8)]
    BY Zenon, <2>1
  <2>3. o \in Seq(Segment(8)) /\ Len(o) = m
    BY Zenon, <2>2, IsSeq
  <2>4. QED
    BY Zenon, <2>1, <2>3
<1>4. is_documentation(o) <=>
        \/ o[1] = 192 /\ o[2] = 0 /\ o[3] = 2
        \/ o[1] = 198 /\ o[2] = 51 /\ o[3] = 100
        \/ o[1] = 203 /\ o[2] = 0 /\ o[3] = 113
  <2>1. m >= 3
    BY <1>3
  <2>2. Starts3(o)
    BY Zenon, <1>3, <2>1, Sub3
  <2>3. QED
    BY <2>2 DEF Starts3, is_documentation
<1>5. is_broadcast(o) <=> o[1] = 255 /\ o[2] = 255 /\ o[3] = 255 /\ o[4] = 255
  BY <1>1 DEF is_broadcast
<1>6. QED
  BY <1>1, <1>2, <1>4, <1>5
  DEF is_global_ipv4, is_private, is_shared_ipv4, is_link_local, is_benchmarking_ipv4,
          is_reserved_ipv4

\* is_global_ipv6 is the IPv6 registry.
LEMMA Global6 ==
  ASSUME NEW ip, ip.fam = 6, NEW o \in [1 .. 8 -> Segment(16)], ip.seg = o
  PROVE  is_global_ipv6(o) <=> ~Registered(ip)
<1>1. o[1] \in Nat /\ o[2] \in Nat /\ o[3] \in Nat /\ o[4] \in Nat /\ o[5] \in Nat
        /\ o[6] \in Nat /\ o[7] \in Nat /\ o[8] \in Nat
  BY SegmentNat
<1>2. Registered(ip) <=>
        /\ \/ o[1] = 0 /\ o[2] = 0 /\ o[3] = 0 /\ o[4] = 0 /\ o[5] = 0 /\ o[6] = 0
                /\ o[7] = 0 /\ o[8] \div 2 = 0
           \/ o[1] = 0 /\ o[2] = 0 /\ o[3] = 0 /\ o[4] = 0 /\ o[5] = 0 /\ o[6] = 65535
           \/ o[1] = 100 /\ o[2] = 65435 /\ o[3] = 1
           \/ o[1] = 256 /\ o[2] = 0 /\ o[3] = 0 /\ o[4] = 0
           \/ o[1] = 8193 /\ o[2] \div 512 = 0
           \/ o[1] = 8193 /\ o[2] = 3512
           \/ o[1] = 16383 /\ o[2] \div 4096 = 0
           \/ o[1] = 8194
           \/ o[1] \div 512 = 126
           \/ o[1] \div 64 = 1018
        /\ ~ \/ o[1] = 8193 /\ o[2] = 1 /\ o[3] = 0 /\ o[4] = 0 /\ o[5] = 0 /\ o[6] = 0
                /\ o[7] = 0 /\ o[8] = 1
             \/ o[1] = 8193 /\ o[2] = 1 /\ o[3] = 0 /\ o[4] = 0 /\ o[5] = 0 /\ o[6] = 0
                     /\ o[7] = 0 /\ o[8] = 2
             \/ o[1] = 8193 /\ o[2] = 3
             \/ o[1] = 8193 /\ o[2] = 4 /\ o[3] = 274
             \/ o[1] = 8193 /\ o[2] \div 16 = 2
             \/ o[1] = 8193 /\ o[2] \div 16 = 3
  BY Listed6, Registry6
<1>3. PICK m \in Nat : o \in Seq(Segment(16)) /\ m = Len(o) /\ m = 8
  <2>1. PICK m \in Nat : m = 8
    OBVIOUS
  <2>2. o \in [1 .. m -> Segment(16)]
    BY Zenon, <2>1
  <2>3. o \in Seq(Segment(16)) /\ Len(o) = m
    BY Zenon, <2>2, IsSeq
  <2>4. QED
    BY Zenon, <2>1, <2>3
<1>4. m >= 3 /\ m >= 4 /\ m >= 6
  BY <1>3
<1>5. SubSeq(o, 1, 3) = <<100, 65435, 1>> <=> o[1] = 100 /\ o[2] = 65435 /\ o[3] = 1
  <2>1. Starts3(o)
    BY Zenon, <1>3, <1>4, Sub3
  <2>2. QED
    BY <2>1 DEF Starts3
<1>6. SubSeq(o, 1, 4) = <<256, 0, 0, 0>> <=> o[1] = 256 /\ o[2] = 0 /\ o[3] = 0 /\ o[4] = 0
  <2>1. Starts4(o)
    BY Zenon, <1>3, <1>4, Sub4
  <2>2. QED
    BY <2>1 DEF Starts4
<1>7. SubSeq(o, 1, 6) = <<0, 0, 0, 0, 0, 65535>> <=>
        o[1] = 0 /\ o[2] = 0 /\ o[3] = 0 /\ o[4] = 0 /\ o[5] = 0 /\ o[6] = 65535
  <2>1. Starts6(o)
    BY Zenon, <1>3, <1>4, Sub6
  <2>2. QED
    BY <2>1 DEF Starts6
<1>8. (\A i \in 1 .. 7 : o[i] = 0 /\ o[8] \in {0, 1}) <=>
        o[1] = 0 /\ o[2] = 0 /\ o[3] = 0 /\ o[4] = 0 /\ o[5] = 0 /\ o[6] = 0 /\ o[7] = 0
                /\ o[8] \div 2 = 0
  BY <1>1
<1>9. o \in {<<8193, 1, 0, 0, 0, 0, 0, 1>>, <<8193, 1, 0, 0, 0, 0, 0, 2>>} <=>
        o[1] = 8193 /\ o[2] = 1 /\ o[3] = 0 /\ o[4] = 0 /\ o[5] = 0 /\ o[6] = 0 /\ o[7] = 0
                /\ o[8] \in {1, 2}
  BY <1>1
<1>10. QED
  BY <1>1, <1>2, <1>5, <1>6, <1>7, <1>8, <1>9
  DEF is_global_ipv6, is_documentation_ipv6, is_unique_local, is_unicast_link_local

\* For every address there is, is_global_ip answers what the registries that
\* ip.rs cites say: the masks, ranges and exceptions of the code are the blocks
\* that are not globally reachable, less their reachable parts.
THEOREM GlobalIsUnregistered ==
  ASSUME NEW ip \in IpAddr
  PROVE  is_global_ip(ip) <=> ~Registered(ip)
<1>1. CASE ip \in [fam : {4}, seg : [1..4 -> 0 .. 2 ^ 8 - 1]]
  <2>1. ip.fam = 4 /\ ip.seg \in [1 .. 4 -> Segment(8)]
    BY Zenon, <1>1 DEF Segment
  <2>2. is_global_ipv4(ip.seg) <=> ~Registered(ip)
    BY Zenon, <2>1, Global4
  <2>3. QED
    BY Zenon, <2>1, <2>2 DEF is_global_ip
<1>2. CASE ip \in [fam : {6}, seg : [1..8 -> 0 .. 2 ^ 16 - 1]]
  <2>1. ip.fam = 6 /\ ip.seg \in [1 .. 8 -> Segment(16)]
    BY Zenon, <1>2 DEF Segment
  <2>2. is_global_ipv6(ip.seg) <=> ~Registered(ip)
    BY Zenon, <2>1, Global6
  <2>3. ip.fam # 4
    BY <2>1
  <2>4. QED
    BY Zenon, <2>2, <2>3 DEF is_global_ip
<1>3. QED
  BY Zenon, <1>1, <1>2 DEF IpAddr

===============================================================================
