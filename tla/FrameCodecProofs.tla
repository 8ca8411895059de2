-------------------------- MODULE FrameCodecProofs --------------------------
(***************************************************************************)
(* The decoder returns the frames that were encoded, whole and in order,   *)
(* for every set of frames, every payload and every way in which the bytes *)
(* are cut into writes and reads.                                          *)
(***************************************************************************)
EXTENDS FrameCodec, SequenceTheorems, TLAPS

LEMMA Constants ==
  /\ Base \in Nat /\ Base > 1 /\ FlagValues \in Nat /\ FlagValues > 0
  /\ FlagValues <= Base /\ PipeCap \in Nat /\ PipeCap > 0 /\ MaxFrames \in Nat
  BY CodecAssumption

-----------------------------------------------------------------------------
(* Integers.                                                               *)

LEMMA Below ==
  ASSUME NEW n \in Nat, NEW x \in 0 .. n - 1
  PROVE  x \in Nat /\ x < n
  OBVIOUS

LEMMA FieldEnds ==
  ASSUME NEW m \in Nat, m >= 14, NEW k \in {0, 4, 10}
  PROVE  k \in Nat /\ k + 4 \in Nat /\ k <= k + 4 /\ k + 4 <= m
  OBVIOUS

LEMMA RestLength ==
  ASSUME NEW m \in Nat, NEW k \in Nat, NEW p \in Nat, m = 14 + k, p <= k
  PROVE  k - p \in Nat /\ k - p = m - (14 + p)
  OBVIOUS

LEMMA Division ==
  ASSUME NEW n \in Nat, NEW b \in Nat, b > 0
  PROVE  n \div b \in Nat /\ n % b \in 0 .. b - 1 /\ n = (n \div b) * b + (n % b)
  BY SMT

\* A number below b * m has a quotient below m.
LEMMA Quotient ==
  ASSUME NEW n \in Nat, NEW b \in Nat, b > 0, NEW m \in Nat, n < m * b
  PROVE  n \div b < m
<1> DEFINE q == n \div b
<1>1. q \in Nat /\ q * b <= n
  BY Division
<1>2. SUFFICES ASSUME q >= m PROVE FALSE
  BY <1>1
<1> HIDE DEF q
<1>3. q * b >= m * b
  BY <1>1, <1>2
<1>4. m * b \in Nat /\ q * b \in Nat
  BY <1>1
<1>5. QED
  BY <1>1, <1>3, <1>4

LEMMA Remainder ==
  ASSUME NEW b \in Nat, NEW n \in Nat, n < b
  PROVE  n % b = n
<1> DEFINE q == n \div b
           r == n % b
<1>1. q \in Nat /\ r \in 0 .. b - 1 /\ n = q * b + r
  BY Division
<1> HIDE DEF q, r
<1>2. q = 0
  <2>1. SUFFICES ASSUME q >= 1 PROVE FALSE
    BY <1>1
  <2>2. q * b >= b
    BY <1>1, <2>1
  <2>3. QED
    BY <1>1, <2>2
<1>3. QED
  BY <1>1, <1>2 DEF r

LEMMA FourTuple ==
  ASSUME NEW S, NEW a \in S, NEW b \in S, NEW c \in S, NEW d \in S
  PROVE  <<a, b, c, d>> \in Seq(S) /\ Len(<<a, b, c, d>>) = 4
  OBVIOUS

LEMMA Pair ==
  ASSUME NEW S, NEW a \in S, NEW b \in S
  PROVE  <<a, b>> \in Seq(S) /\ Len(<<a, b>>) = 2
  OBVIOUS

\* get_u32 reads what put_u32 wrote, and every digit is a byte.
LEMMA PutGet ==
  ASSUME NEW n \in U32
  PROVE  /\ put_u32(n) \in Seq(Byte) /\ Len(put_u32(n)) = 4
         /\ get_u32(put_u32(n)) = n
<1> DEFINE q1 == n \div Base
           q2 == q1 \div Base
           q3 == q2 \div Base
<1>1. n \in Nat /\ n < (Base * Base * Base) * Base
  BY Constants DEF U32
<1>2. /\ Base * Base \in Nat /\ Base * Base * Base \in Nat
      /\ Base * Base * Base = (Base * Base) * Base
  BY Constants
<1>3. q1 \in Nat /\ n % Base \in Byte /\ n = q1 * Base + (n % Base) /\ q1 < Base * Base * Base
  BY <1>1, <1>2, Constants, Division, Quotient DEF Byte
<1> HIDE DEF q1
<1>4. q2 \in Nat /\ q1 % Base \in Byte /\ q1 = q2 * Base + (q1 % Base) /\ q2 < Base * Base
  BY <1>2, <1>3, Constants, Division, Quotient DEF Byte
<1> HIDE DEF q2
<1>5. q3 \in Nat /\ q2 % Base \in Byte /\ q2 = q3 * Base + (q2 % Base) /\ q3 < Base
  BY <1>2, <1>4, Constants, Division, Quotient DEF Byte
<1> HIDE DEF q3
<1>6. q3 % Base = q3 /\ q3 \in Byte
  BY <1>5, Constants DEF Byte
<1>7. put_u32(n) = <<q3, q2 % Base, q1 % Base, n % Base>>
  BY <1>6 DEF put_u32, q1, q2, q3
<1> DEFINE d2 == q2 % Base
           d1 == q1 % Base
           d0 == n % Base
<1>8. d2 \in Byte /\ d1 \in Byte /\ d0 \in Byte
  BY <1>3, <1>4, <1>5
<1>9. /\ q2 = q3 * Base + d2 /\ q1 = q2 * Base + d1 /\ n = q1 * Base + d0
      /\ put_u32(n) = <<q3, d2, d1, d0>>
  BY <1>3, <1>4, <1>5, <1>7
<1> HIDE DEF d2, d1, d0
<1>10. get_u32(put_u32(n)) = n
  BY <1>9 DEF get_u32
<1>11. QED
  BY <1>6, <1>8, <1>9, <1>10, FourTuple

-----------------------------------------------------------------------------
(* Frames as bytes.                                                        *)

\* u is s followed by t; u is what s has after m bytes, up to n.  The lemmas
\* keep \o and SubSeq out of the proofs that follow.
Joined(s, t, u) ==
  /\ u \in Seq(Byte) /\ Len(u) = Len(s) + Len(t)
  /\ \A i \in 1 .. Len(s) : u[i] = s[i]
  /\ \A i \in 1 .. Len(t) : u[Len(s) + i] = t[i]

Cut(s, m, n, u) ==
  u \in Seq(Byte) /\ Len(u) = n - m /\ \A i \in 1 .. n - m : u[i] = s[m + i]

LEMMA Join ==
  ASSUME NEW s \in Seq(Byte), NEW t \in Seq(Byte)
  PROVE  Joined(s, t, s \o t)
<1>1. Len(s) \in Nat /\ Len(t) \in Nat
  BY LenProperties
<1>2. s \o t \in Seq(Byte) /\ Len(s \o t) = Len(s) + Len(t)
  BY ConcatProperties
<1>3. \A i \in 1 .. Len(s) + Len(t) :
        (s \o t)[i] = IF i <= Len(s) THEN s[i] ELSE t[i - Len(s)]
  BY ConcatProperties
<1>4. ASSUME NEW i \in 1 .. Len(t) PROVE (s \o t)[Len(s) + i] = t[i]
  <2>1. /\ Len(s) + i \in 1 .. Len(s) + Len(t) /\ ~(Len(s) + i <= Len(s))
        /\ (Len(s) + i) - Len(s) = i
    BY <1>1
  <2>2. QED
    BY <1>3, <2>1
<1>5. QED
  BY <1>1, <1>2, <1>3, <1>4 DEF Joined

LEMMA Slice ==
  ASSUME NEW s \in Seq(Byte), NEW m \in Nat, NEW n \in Nat, m <= n, n <= Len(s)
  PROVE  Cut(s, m, n, SubSeq(s, m + 1, n))
<1>1. \A i \in m + 1 .. n : s[i] \in Byte
  BY ElementOfSeq
<1>2. /\ SubSeq(s, m + 1, n) \in Seq(Byte)
      /\ Len(SubSeq(s, m + 1, n)) = IF m + 1 <= n THEN n - (m + 1) + 1 ELSE 0
      /\ \A i \in 1 .. n - (m + 1) + 1 : SubSeq(s, m + 1, n)[i] = s[m + 1 + i - 1]
  BY <1>1, SubSeqProperties
<1>3. QED
  BY <1>2 DEF Cut

\* A part of a part, two parts that meet, and a part of what has grown.
LEMMA CutHead ==
  ASSUME NEW B, NEW x \in Nat, NEW y \in Nat, NEW n \in Nat, NEW s, Cut(B, x, y, s), x + n <= y
  PROVE  Cut(B, x, x + n, SubSeq(s, 1, n))
<1> DEFINE u == SubSeq(s, 1, n)
<1>1. PICK k \in Nat : k = y - x /\ n <= k
  OBVIOUS
<1>2. s \in Seq(Byte) /\ Len(s) = k /\ \A i \in 1 .. k : s[i] = B[x + i]
  BY <1>1 DEF Cut
<1>3. Cut(s, 0, n, SubSeq(s, 0 + 1, n))
  BY <1>1, <1>2, Slice
<1>4. Cut(s, 0, n, u)
  BY <1>3
<1> HIDE DEF u
<1>5. u \in Seq(Byte) /\ Len(u) = n /\ \A i \in 1 .. n : u[i] = s[i]
  BY <1>4 DEF Cut
<1>6. (x + n) - x = n /\ \A i \in 1 .. n : i \in 1 .. k
  BY <1>1
<1>7. Cut(B, x, x + n, u)
  BY <1>2, <1>5, <1>6 DEF Cut
<1>8. QED
  BY <1>7 DEF u

LEMMA CutTail ==
  ASSUME NEW B, NEW x \in Nat, NEW y \in Nat, NEW n \in Nat, NEW s, Cut(B, x, y, s), x + n <= y
  PROVE  Cut(B, x + n, y, SubSeq(s, n + 1, Len(s)))
<1> DEFINE u == SubSeq(s, n + 1, Len(s))
<1>1. PICK k \in Nat : k = y - x /\ n <= k
  OBVIOUS
<1>2. s \in Seq(Byte) /\ Len(s) = k /\ \A i \in 1 .. k : s[i] = B[x + i]
  BY <1>1 DEF Cut
<1>3. Cut(s, n, Len(s), u)
  BY <1>1, <1>2, Slice
<1> HIDE DEF u
<1>4. PICK j \in Nat : j = k - n /\ j = y - (x + n)
  BY <1>1
<1>5. u \in Seq(Byte) /\ Len(u) = j /\ \A i \in 1 .. j : u[i] = s[n + i]
  BY <1>2, <1>3, <1>4 DEF Cut
<1>6. ASSUME NEW i \in 1 .. j PROVE u[i] = B[(x + n) + i]
  <2>1. n + i \in 1 .. k /\ x + (n + i) = (x + n) + i
    BY <1>1, <1>4
  <2>2. QED
    BY <1>2, <1>5, <2>1
<1>7. Cut(B, x + n, y, u)
  BY <1>4, <1>5, <1>6 DEF Cut
<1>8. QED
  BY <1>7 DEF u

LEMMA CutJoin ==
  ASSUME NEW B, NEW x \in Nat, NEW y \in Nat, NEW z \in Nat, x <= y, y <= z,
         NEW s, NEW t, Cut(B, x, y, s), Cut(B, y, z, t)
  PROVE  Cut(B, x, z, s \o t)
<1> DEFINE u == s \o t
<1>1. PICK k \in Nat, m \in Nat : k = y - x /\ m = z - y
  OBVIOUS
<1>2. s \in Seq(Byte) /\ Len(s) = k /\ \A i \in 1 .. k : s[i] = B[x + i]
  BY <1>1 DEF Cut
<1>3. t \in Seq(Byte) /\ Len(t) = m /\ \A i \in 1 .. m : t[i] = B[y + i]
  BY <1>1 DEF Cut
<1>4. Joined(s, t, u)
  BY <1>2, <1>3, Join
<1> HIDE DEF u
<1>5. /\ u \in Seq(Byte) /\ Len(u) = k + m
      /\ \A i \in 1 .. k : u[i] = s[i]
      /\ \A i \in 1 .. m : u[k + i] = t[i]
  BY <1>2, <1>3, <1>4 DEF Joined
<1>6. ASSUME NEW i \in 1 .. k + m PROVE u[i] = B[x + i]
  <2>1. CASE i <= k
    <3>1. i \in 1 .. k
      BY <2>1
    <3>2. QED
      BY <1>2, <1>5, <3>1
  <2>2. CASE i > k
    <3>1. PICK j \in 1 .. m : i = k + j
      <4>1. i - k \in 1 .. m /\ i = k + (i - k)
        BY <2>2
      <4>2. QED
        BY <4>1
    <3>2. y + j = x + i
      BY <1>1, <3>1
    <3>3. QED
      BY <1>3, <1>5, <3>1, <3>2
  <2>3. QED
    BY <2>1, <2>2
<1>7. z - x = k + m
  BY <1>1
<1>8. Cut(B, x, z, u)
  BY <1>5, <1>6, <1>7 DEF Cut
<1>9. QED
  BY <1>8 DEF u

LEMMA CutGrown ==
  ASSUME NEW B \in Seq(Byte), NEW e, NEW C, Joined(B, e, C),
         NEW x \in Nat, NEW y \in Nat, x <= y, y <= Len(B), NEW s, Cut(B, x, y, s)
  PROVE  Cut(C, x, y, s)
<1>0. PICK k \in Nat : k = y - x
  OBVIOUS
<1>1. PICK b \in Nat : b = Len(B) /\ k = y - x
  BY <1>0, LenProperties
<1>2. s \in Seq(Byte) /\ Len(s) = k /\ \A i \in 1 .. k : s[i] = B[x + i]
  BY <1>1 DEF Cut
<1>3. ASSUME NEW i \in 1 .. k PROVE s[i] = C[x + i]
  <2>1. x + i \in 1 .. b
    BY <1>1
  <2>2. QED
    BY <1>1, <1>2, <2>1 DEF Joined
<1>4. QED
  BY <1>1, <1>2, <1>3 DEF Cut

\* What an encoded frame looks like, byte by byte.
LEMMA Encoded ==
  ASSUME NEW f \in Messages
  PROVE  /\ encode(f) \in Seq(Byte) /\ Len(encode(f)) = 14 + Len(f.payload)
         /\ f.payload \in Seq(Byte) /\ Len(f.payload) \in U32 /\ f.header \in Header
         /\ \A i \in 1 .. 4 : /\ encode(f)[i] = put_u32(f.header.stream_id)[i]
                             /\ encode(f)[4 + i] = put_u32(f.header.operation_id)[i]
                             /\ encode(f)[10 + i] = put_u32(Len(f.payload))[i]
         /\ encode(f)[9] = f.header.flags /\ encode(f)[10] = f.header.frame_type
         /\ \A i \in 1 .. Len(f.payload) : encode(f)[14 + i] = f.payload[i]
<1> DEFINE a == put_u32(f.header.stream_id)
           b == put_u32(f.header.operation_id)
           c == <<f.header.flags, f.header.frame_type>>
           d == put_u32(Len(f.payload))
           p == f.payload
<1>1. f \in Frame /\ Len(f.payload) \in U32
  BY CodecAssumption
<1>2. /\ f.header \in Header /\ p \in Seq(Byte)
      /\ f.header.stream_id \in U32 /\ f.header.operation_id \in U32
      /\ f.header.flags \in Byte /\ f.header.frame_type \in Byte
  BY <1>1, Constants DEF Frame, Header, Byte
<1>3. /\ a \in Seq(Byte) /\ Len(a) = 4 /\ b \in Seq(Byte) /\ Len(b) = 4
      /\ d \in Seq(Byte) /\ Len(d) = 4
  BY <1>1, <1>2, PutGet
<1>4. /\ c \in Seq(Byte) /\ Len(c) = 2 /\ c[1] = f.header.flags /\ c[2] = f.header.frame_type
  BY <1>2, Pair
<1>5. encode(f) = a \o b \o c \o d \o p
  BY DEF encode
<1>6. Len(p) \in Nat
  BY <1>2, LenProperties
<1> HIDE DEF a, b, c, d, p
<1>7. PICK ab : ab = a \o b /\ Joined(a, b, ab) /\ ab \in Seq(Byte)
  BY <1>3, Join DEF Joined
<1>8. PICK abc : abc = ab \o c /\ Joined(ab, c, abc) /\ abc \in Seq(Byte)
  BY <1>4, <1>7, Join DEF Joined
<1>9. PICK abcd : abcd = abc \o d /\ Joined(abc, d, abcd) /\ abcd \in Seq(Byte)
  BY <1>3, <1>8, Join DEF Joined
<1>10. Joined(abcd, p, encode(f))
  <2>1. encode(f) = abcd \o p
    BY <1>5, <1>7, <1>8, <1>9, Zenon
  <2>2. QED
    BY <1>2, <1>9, <2>1, Join, Zenon
<1>11. Len(ab) = 8 /\ Len(abc) = 10 /\ Len(abcd) = 14
  BY <1>3, <1>4, <1>7, <1>8, <1>9 DEF Joined
<1>12. /\ encode(f) \in Seq(Byte) /\ Len(encode(f)) = 14 + Len(p)
       /\ \A i \in 1 .. 4 : encode(f)[i] = a[i]
       /\ \A i \in 1 .. 4 : encode(f)[4 + i] = b[i]
       /\ \A i \in 1 .. 4 : encode(f)[10 + i] = d[i]
       /\ encode(f)[9] = c[1] /\ encode(f)[10] = c[2]
       /\ \A i \in 1 .. Len(p) : encode(f)[14 + i] = p[i]
  <2>1. /\ encode(f) \in Seq(Byte) /\ Len(encode(f)) = 14 + Len(p)
        /\ \A i \in 1 .. 14 : encode(f)[i] = abcd[i]
        /\ \A i \in 1 .. Len(p) : encode(f)[14 + i] = p[i]
    BY <1>6, <1>10, <1>11 DEF Joined
  <2>2. /\ \A i \in 1 .. 10 : abcd[i] = abc[i]
        /\ \A i \in 1 .. 4 : abcd[10 + i] = d[i]
    BY <1>3, <1>9, <1>11 DEF Joined
  <2>3. /\ \A i \in 1 .. 8 : abc[i] = ab[i]
        /\ \A i \in 1 .. 2 : abc[8 + i] = c[i]
    BY <1>4, <1>8, <1>11 DEF Joined
  <2>4. /\ \A i \in 1 .. 4 : ab[i] = a[i]
        /\ \A i \in 1 .. 4 : ab[4 + i] = b[i]
    BY <1>3, <1>7 DEF Joined
  <2>5. ASSUME NEW i \in 1 .. 4
        PROVE  /\ encode(f)[i] = a[i] /\ encode(f)[4 + i] = b[i]
               /\ encode(f)[10 + i] = d[i]
    <3>0. /\ i \in 1 .. 8 /\ i \in 1 .. 10 /\ i \in 1 .. 14
          /\ 4 + i \in 1 .. 8 /\ 4 + i \in 1 .. 10 /\ 4 + i \in 1 .. 14
          /\ 10 + i \in 1 .. 14
      OBVIOUS
    <3>1. encode(f)[i] = a[i]
      BY <2>1, <2>2, <2>3, <2>4, <3>0, Zenon
    <3>2. encode(f)[4 + i] = b[i]
      BY <2>1, <2>2, <2>3, <2>4, <3>0, Zenon
    <3>3. encode(f)[10 + i] = d[i]
      BY <2>1, <2>2, <3>0, Zenon
    <3>4. QED
      BY <3>1, <3>2, <3>3, Zenon
  <2>6. encode(f)[9] = c[1] /\ encode(f)[10] = c[2]
    <3>1. /\ encode(f)[9] = abcd[9] /\ abcd[9] = abc[9] /\ abc[9] = c[1]
      BY <2>1, <2>2, <2>3
    <3>2. /\ encode(f)[10] = abcd[10] /\ abcd[10] = abc[10] /\ abc[10] = c[2]
      BY <2>1, <2>2, <2>3
    <3>3. QED
      BY <3>1, <3>2, Zenon
  <2>7. QED
    BY <2>1, <2>5, <2>6, Zenon
<1>13. QED
  BY <1>1, <1>2, <1>4, <1>12 DEF a, b, d, p

\* Fourteen bytes that are those of an encoded frame give its header back.
LEMMA HeaderBack ==
  ASSUME NEW f \in Messages, NEW bs \in Seq(Byte), Len(bs) >= 14,
         \A i \in 1 .. 14 : bs[i] = encode(f)[i]
  PROVE  GetHeader(bs) = f.header /\ GetPayloadLen(bs) = Len(f.payload)
<1>1. ASSUME NEW k \in {0, 4, 10}, NEW n \in U32,
             \A i \in 1 .. 4 : encode(f)[k + i] = put_u32(n)[i]
      PROVE  get_u32(SubSeq(bs, k + 1, k + 4)) = n
  <2> DEFINE u == SubSeq(bs, k + 1, k + 4)
  <2>1. Cut(bs, k, k + 4, u)
    <3>1. k \in Nat /\ k + 4 \in Nat /\ k <= k + 4 /\ k + 4 <= Len(bs)
      BY <1>1, LenProperties, FieldEnds, Zenon
    <3>2. QED
      BY <3>1, Slice, Zenon
  <2> HIDE DEF u
  <2>2. ASSUME NEW i \in 1 .. 4 PROVE u[i] = put_u32(n)[i]
    <3>1. i \in 1 .. (k + 4) - k /\ k + i \in 1 .. 14
      BY <1>1
    <3>2. u[i] = bs[k + i]
      BY <2>1, <3>1 DEF Cut
    <3>3. QED
      BY <1>1, <3>1, <3>2
  <2>3. get_u32(u) = get_u32(put_u32(n))
    BY <2>2 DEF get_u32
  <2>4. QED
    BY <2>3, PutGet DEF u
<1>2. /\ f.header \in Header /\ Len(f.payload) \in U32
      /\ f.header.stream_id \in U32 /\ f.header.operation_id \in U32
      /\ f.header.flags \in 0 .. FlagValues - 1
  BY Encoded DEF Header
<1>3. /\ get_u32(SubSeq(bs, 1, 4)) = f.header.stream_id
      /\ get_u32(SubSeq(bs, 5, 8)) = f.header.operation_id
      /\ get_u32(SubSeq(bs, 11, 14)) = Len(f.payload)
  <2>1. get_u32(SubSeq(bs, 0 + 1, 0 + 4)) = f.header.stream_id
    <3>1. ASSUME NEW i \in 1 .. 4 PROVE encode(f)[0 + i] = put_u32(f.header.stream_id)[i]
      <4>1. 0 + i = i
        OBVIOUS
      <4>2. encode(f)[i] = put_u32(f.header.stream_id)[i]
        BY Encoded, Zenon
      <4>3. QED
        BY <4>1, <4>2, Zenon
    <3>2. QED
      BY <1>1, <1>2, <3>1, Zenon
  <2>2. get_u32(SubSeq(bs, 4 + 1, 4 + 4)) = f.header.operation_id
    <3>1. \A i \in 1 .. 4 : encode(f)[4 + i] = put_u32(f.header.operation_id)[i]
      BY Encoded, Zenon
    <3>2. QED
      BY <1>1, <1>2, <3>1, Zenon
  <2>3. get_u32(SubSeq(bs, 10 + 1, 10 + 4)) = Len(f.payload)
    <3>1. \A i \in 1 .. 4 : encode(f)[10 + i] = put_u32(Len(f.payload))[i]
      BY Encoded, Zenon
    <3>2. QED
      BY <1>1, <1>2, <3>1, Zenon
  <2>4. QED
    BY <2>1, <2>2, <2>3
<1>4. bs[9] = f.header.flags /\ bs[10] = f.header.frame_type
  BY Encoded
<1>5. from_bits_truncate(bs[9]) = f.header.flags
  <2>1. f.header.flags \in Nat /\ f.header.flags < FlagValues
    BY <1>2, Constants, Below, Zenon
  <2>2. f.header.flags % FlagValues = f.header.flags
    BY <2>1, Constants, Remainder
  <2>3. QED
    BY <1>4, <2>2 DEF from_bits_truncate
<1>6. GetHeader(bs) = [stream_id |-> f.header.stream_id, operation_id |-> f.header.operation_id,
                       flags |-> f.header.flags, frame_type |-> f.header.frame_type]
  BY <1>3, <1>4, <1>5 DEF GetHeader
<1>7. QED
  BY <1>2, <1>3, <1>6 DEF GetPayloadLen, FRAME_HEADER_LEN, Header

LEMMA FrameIsSome ==
  ASSUME NEW f \in Frame
  PROVE  f # NoFrame
<1>1. DOMAIN f = {"header", "payload"} /\ DOMAIN NoFrame = {"none"}
  BY DEF Frame, NoFrame
<1>2. QED
  BY <1>1

-----------------------------------------------------------------------------
(* The inductive invariant.                                                *)

\* B is the bytes of the frames S, and pos[i] where those of the first i end.
Layout(S, B, pos) ==
  /\ B \in Seq(Byte) /\ pos \in [0 .. Len(S) -> Nat]
  /\ pos[0] = 0 /\ pos[Len(S)] = Len(B)
  /\ \A i \in 1 .. Len(S) : /\ pos[i] = pos[i - 1] + 14 + Len(S[i].payload)
                            /\ Cut(B, pos[i - 1], pos[i], encode(S[i]))
  /\ \A i, j \in 0 .. Len(S) : i <= j => pos[i] <= pos[j]

\* The bytes that decode has consumed, and those that FramedRead has taken.
Consumed(pos) == pos[Len(received)] + (IF state.at = "payload" THEN 14 ELSE 0)
Taken(pos) == Consumed(pos) + Len(src)
Written(pos) == Taken(pos) + Len(pipe)

\* The decoder is at the first frame that it has not returned, and the bytes
\* behind it are in its buffer, then in the pipe, then in the writer's buffer,
\* where no more than the last frame is.
InFlight(B, pos) ==
  /\ Len(received) <= Len(sent)
  /\ state.at = "payload" =>
       /\ Len(received) < Len(sent)
       /\ LET f == sent[Len(received) + 1]
          IN state = ReadingPayload(f.header, Len(f.payload))
  /\ Written(pos) <= Len(B)
  /\ Cut(B, Consumed(pos), Taken(pos), src) /\ Cut(B, Taken(pos), Written(pos), pipe)
  /\ link # "gone" => Cut(B, Written(pos), Len(B), out)
  /\ out # <<>> => Len(sent) > 0 /\ Len(B) - Len(out) >= pos[Len(sent) - 1]

\* The reader finds the end of the bytes once the writer is gone, not before.
Shut ==
  /\ writer = "open" <=> link = "open"
  /\ result # "frames" => link # "open"

CodecInv ==
  /\ TypeOK /\ sent \in Seq(Messages) /\ Shut /\ EndIsComplete
  /\ \E B, pos : Layout(sent, B, pos) /\ InFlight(B, pos)

-----------------------------------------------------------------------------
(* What decode makes of the bytes behind a frame boundary.                 *)

LEMMA PayloadBack ==
  ASSUME NEW f \in Messages, NEW s \in Seq(Byte),
         \A i \in 1 .. Len(s) : i <= Len(f.payload) => s[i] = f.payload[i]
  PROVE  DecodePayload(ReadingPayload(f.header, Len(f.payload)), s) =
           IF Len(s) < Len(f.payload)
           THEN Decoded(ReadingPayload(f.header, Len(f.payload)), s, NoFrame)
           ELSE Decoded(ReadingHeader, SubSeq(s, Len(f.payload) + 1, Len(s)), f)
<1> DEFINE n == Len(f.payload)
           st == ReadingPayload(f.header, n)
           u == SubSeq(s, 1, n)
<1>1. f \in Frame /\ f.payload \in Seq(Byte) /\ n \in Nat /\ Len(s) \in Nat
  BY Encoded, LenProperties, CodecAssumption
<1>2. st.remaining = n /\ st.header = f.header
  BY DEF ReadingPayload
<1>3. CASE Len(s) < n
  BY <1>2, <1>3 DEF DecodePayload
<1>4. CASE n <= Len(s)
  <2>1. Cut(s, 0, n, SubSeq(s, 0 + 1, n))
    BY <1>1, <1>4, Slice
  <2>2. Cut(s, 0, n, u)
    BY <2>1
  <2> HIDE DEF u
  <2>3. u \in Seq(Byte) /\ Len(u) = Len(f.payload) /\ \A i \in 1 .. Len(u) : u[i] = f.payload[i]
    BY <1>1, <1>4, <2>2 DEF Cut
  <2>4. u = f.payload
    BY <1>1, <2>3, SeqEqual
  <2>5. [header |-> f.header, payload |-> u] = f
    BY <1>1, <2>4 DEF Frame
  <2>6. ~(Len(s) < n)
    BY <1>1, <1>4
  <2>7. QED
    BY <1>2, <2>5, <2>6 DEF DecodePayload, u
<1>5. QED
  BY <1>1, <1>3, <1>4

\* With at least a header of a frame's encoding, decode takes the header, and the
\* rest of the frame when that is there.
LEMMA FrameBack ==
  ASSUME NEW f \in Messages, NEW s \in Seq(Byte), NEW p \in Nat, p = Len(f.payload),
         \A i \in 1 .. Len(s) : i <= 14 + p => s[i] = encode(f)[i]
  PROVE  decode(ReadingHeader, s) =
           IF Len(s) < 14 THEN Decoded(ReadingHeader, s, NoFrame)
           ELSE IF Len(s) < 14 + p
           THEN Decoded(ReadingPayload(f.header, p), SubSeq(s, 14 + 1, Len(s)), NoFrame)
           ELSE Decoded(ReadingHeader, SubSeq(s, (14 + p) + 1, Len(s)), f)
<1>1. PICK m \in Nat : m = Len(s)
  BY LenProperties
<1>2. decode(ReadingHeader, s) = DecodeHeader(s)
  BY DEF decode, ReadingHeader
<1>3. CASE m < 14
  BY <1>1, <1>2, <1>3 DEF DecodeHeader, FRAME_HEADER_LEN
<1>4. CASE 14 <= m
  <2> DEFINE t == SubSeq(s, 14 + 1, m)
  <2>1. \A i \in 1 .. 14 : s[i] = encode(f)[i]
    BY <1>1, <1>4
  <2>2. GetHeader(s) = f.header /\ GetPayloadLen(s) = p
    BY <1>1, <1>4, <2>1, HeaderBack
  <2>3. decode(ReadingHeader, s) = DecodePayload(ReadingPayload(f.header, p), t)
    BY <1>1, <1>2, <1>4, <2>2 DEF DecodeHeader, FRAME_HEADER_LEN
  <2>4. Cut(s, 14, m, t)
    BY <1>1, <1>4, Slice
  <2> HIDE DEF t
  <2>5. PICK k \in Nat : k = m - 14 /\ m = 14 + k
    BY <1>1, <1>4
  <2>6. t \in Seq(Byte) /\ Len(t) = k /\ \A i \in 1 .. k : t[i] = s[14 + i]
    BY <2>4, <2>5 DEF Cut
  <2>7. \A i \in 1 .. p : encode(f)[14 + i] = f.payload[i]
    BY Encoded
  <2>8. ASSUME NEW i \in 1 .. Len(t), i <= p PROVE t[i] = f.payload[i]
    <3>1. 14 + i \in 1 .. m /\ 14 + i <= 14 + p /\ i \in 1 .. p /\ i \in 1 .. k
      BY <2>5, <2>6, <2>8
    <3>2. QED
      BY <1>1, <2>6, <2>7, <3>1
  <2>9. CASE k < p
    <3>1. DecodePayload(ReadingPayload(f.header, p), t) =
            Decoded(ReadingPayload(f.header, p), t, NoFrame)
      BY <2>6, <2>8, <2>9, PayloadBack
    <3>2. m < 14 + p /\ ~(m < 14)
      BY <2>5, <2>9
    <3>3. QED
      BY <1>1, <2>3, <3>1, <3>2 DEF t
  <2>10. CASE p <= k
    <3> DEFINE u == SubSeq(t, p + 1, k)
               v == SubSeq(s, (14 + p) + 1, m)
    <3>1. ~(k < p) /\ ~(m < 14 + p) /\ ~(m < 14) /\ 14 + p \in Nat /\ 14 + p <= m
      BY <2>5, <2>10
    <3>2. DecodePayload(ReadingPayload(f.header, p), t) = Decoded(ReadingHeader, u, f)
      BY <2>6, <2>8, <3>1, PayloadBack
    <3>3. Cut(t, p, k, u) /\ Cut(s, 14 + p, m, v)
      <4>1. k <= Len(t) /\ m <= Len(s)
        BY <1>1, <2>6
      <4>2. Cut(t, p, k, u)
        BY <2>6, <2>10, <4>1, Slice, Zenon
      <4>3. Cut(s, 14 + p, m, v)
        BY <3>1, <4>1, Slice, Zenon
      <4>4. QED
        BY <4>2, <4>3, Zenon
    <3> HIDE DEF u, v
    <3>4. PICK j \in Nat : j = k - p /\ j = m - (14 + p)
      <4>1. k - p \in Nat /\ k - p = m - (14 + p)
        BY <2>5, <2>10, RestLength, Zenon
      <4>2. QED
        BY <4>1, Zenon
    <3>5. u \in Seq(Byte) /\ Len(u) = j /\ \A i \in 1 .. j : u[i] = t[p + i]
      BY <3>3, <3>4, Zenon DEF Cut
    <3>6. v \in Seq(Byte) /\ Len(v) = j /\ \A i \in 1 .. j : v[i] = s[(14 + p) + i]
      BY <3>3, <3>4, Zenon DEF Cut
    <3>7. ASSUME NEW i \in 1 .. j PROVE u[i] = v[i]
      <4>1. p + i \in 1 .. k /\ 14 + (p + i) = (14 + p) + i
        BY <3>4
      <4>2. u[i] = t[p + i] /\ v[i] = s[(14 + p) + i]
        BY <3>5, <3>6, Zenon
      <4>3. t[p + i] = s[14 + (p + i)]
        BY <2>6, <4>1, Zenon
      <4>4. QED
        BY <4>1, <4>2, <4>3, Zenon
    <3>8. u = v
      BY <3>5, <3>6, <3>7, SeqEqual
    <3>9. QED
      BY <1>1, <2>3, <3>1, <3>2, <3>8 DEF v
  <2>11. QED
    BY <2>9, <2>10
<1>5. QED
  BY <1>1, <1>3, <1>4

LEMMA Positions ==
  ASSUME TypeOK, NEW B, NEW pos, Layout(sent, B, pos), InFlight(B, pos)
  PROVE  /\ Len(received) \in Nat /\ Len(sent) \in Nat /\ Len(src) \in Nat
         /\ Len(pipe) \in Nat /\ Len(out) \in Nat /\ Len(B) \in Nat
         /\ Len(received) <= Len(sent) /\ pos[Len(received)] \in Nat
         /\ Consumed(pos) \in Nat /\ Taken(pos) = Consumed(pos) + Len(src)
         /\ Written(pos) = Consumed(pos) + Len(src) + Len(pipe)
<1>1. /\ Len(received) \in Nat /\ Len(sent) \in Nat /\ Len(src) \in Nat
      /\ Len(pipe) \in Nat /\ Len(out) \in Nat /\ Len(B) \in Nat
  BY LenProperties DEF TypeOK, Layout
<1>2. Len(received) <= Len(sent)
  BY DEF InFlight
<1>3. Len(received) \in 0 .. Len(sent)
  BY <1>1, <1>2
<1>4. pos[Len(received)] \in Nat
  BY <1>3 DEF Layout
<1>5. Consumed(pos) \in Nat
  <2> DEFINE a == pos[Len(received)]
  <2>1. Consumed(pos) = IF state.at = "payload" THEN a + 14 ELSE a + 0
    BY DEF Consumed
  <2>2. a + 14 \in Nat /\ a + 0 \in Nat
    BY <1>4
  <2> HIDE DEF a
  <2>3. QED
    BY <2>1, <2>2
<1>6. QED
  BY <1>1, <1>2, <1>4, <1>5 DEF Taken, Written

\* What decode finds in src: not enough, the header of the next frame and not yet
\* all of its payload, or all of the next frame.
Waits(pos) ==
  /\ decode(state, src) = Decoded(state, src, NoFrame)
  /\ Len(received) < Len(sent) => Taken(pos) < pos[Len(received) + 1]

HeaderRead(pos) ==
  LET f == sent[Len(received) + 1]
  IN /\ decode(state, src) = Decoded(ReadingPayload(f.header, Len(f.payload)),
                                    SubSeq(src, 14 + 1, Len(src)), NoFrame)
     /\ Len(received) < Len(sent) /\ state = ReadingHeader /\ 14 <= Len(src)
     /\ Taken(pos) < pos[Len(received) + 1]

FrameRead(pos) ==
  \E n \in Nat :
    /\ decode(state, src) = Decoded(ReadingHeader, SubSeq(src, n + 1, Len(src)),
                                   sent[Len(received) + 1])
    /\ Len(received) < Len(sent) /\ n <= Len(src)
    /\ Consumed(pos) + n = pos[Len(received) + 1]

\* decode keeps everything, or takes a header, or takes the rest of a frame, and
\* it returns the next frame that was sent; without a frame, the bytes it has
\* been given do not reach the end of that frame.
LEMMA DecodeNext ==
  ASSUME TypeOK, sent \in Seq(Messages), NEW B, NEW pos, Layout(sent, B, pos), InFlight(B, pos)
  PROVE  Waits(pos) \/ HeaderRead(pos) \/ FrameRead(pos)
<1>1. PICK r \in Nat, l \in Nat, m \in Nat, q \in Nat, b \in Nat :
        /\ r = Len(received) /\ l = Len(sent) /\ m = Len(src) /\ q = Len(pipe) /\ b = Len(B)
  BY Positions
<1>2. PICK a \in Nat : a = pos[r] /\ r <= l
  BY <1>1, Positions
<1>3. PICK c \in Nat : c = Consumed(pos)
  BY Positions
<1>4. /\ Taken(pos) = c + m /\ c + m + q <= b
      /\ src \in Seq(Byte) /\ \A i \in 1 .. m : src[i] = B[c + i]
  <2>1. Taken(pos) = c + m /\ (c + m) - c = m
    BY <1>1, <1>3 DEF Taken
  <2>2. QED
    BY <1>1, <1>3, <2>1 DEF InFlight, Cut, Written, TypeOK
<1>5. state = ReadingHeader \/ state.at = "payload"
  BY DEF TypeOK, DecodeState
<1>6. CASE r < l
  <2>1. PICK f \in Messages : f = sent[r + 1]
    BY <1>1, <1>6, ElementOfSeq
  <2>2. PICK p \in Nat : p = Len(f.payload)
    BY <2>1, Encoded, LenProperties
  <2>3. PICK e \in Nat : e = pos[r + 1] /\ e = a + 14 + p /\ Cut(B, a, e, encode(f))
    <3>1. r + 1 \in 1 .. l /\ (r + 1) - 1 = r
      BY <1>6
    <3>2. pos[r + 1] = a + 14 + p /\ Cut(B, a, pos[r + 1], encode(f))
      BY <1>1, <1>2, <2>1, <2>2, <3>1 DEF Layout
    <3>3. a + 14 + p \in Nat
      OBVIOUS
    <3>4. QED
      BY <3>2, <3>3
  <2>4. \A i \in 1 .. 14 + p : encode(f)[i] = B[a + i]
    <3>1. e - a = 14 + p
      BY <2>3
    <3>2. QED
      BY <2>3, <3>1 DEF Cut
  <2>5. CASE state.at = "payload"
    <3>1. state = ReadingPayload(f.header, p)
      BY <1>1, <2>1, <2>2, <2>5 DEF InFlight
    <3>2. c = a + 14
      BY <1>1, <1>2, <1>3, <2>5 DEF Consumed
    <3>3. ASSUME NEW i \in 1 .. m, i <= p PROVE src[i] = f.payload[i]
      <4>1. 14 + i \in 1 .. 14 + p /\ a + (14 + i) = c + i /\ i \in 1 .. p
        BY <3>2, <3>3
      <4>2. encode(f)[14 + i] = f.payload[i]
        BY <2>2, <4>1, Encoded
      <4>3. QED
        BY <1>4, <2>4, <4>1, <4>2
    <3>4. decode(state, src) = DecodePayload(ReadingPayload(f.header, p), src)
      BY <2>5, <3>1 DEF decode
    <3>5. decode(state, src) = IF m < p THEN Decoded(state, src, NoFrame)
                               ELSE Decoded(ReadingHeader, SubSeq(src, p + 1, m), f)
      BY <1>1, <1>4, <2>2, <3>1, <3>3, <3>4, PayloadBack
    <3>6. CASE m < p
      <4>1. c + m < e
        BY <2>3, <3>2, <3>6
      <4>2. QED
        BY <1>1, <1>4, <2>3, <3>5, <3>6, <4>1 DEF Waits
    <3>7. CASE p <= m
      <4>1. c + p = e /\ ~(m < p)
        BY <2>3, <3>2, <3>7
      <4>2. QED
        BY <1>1, <1>3, <1>6, <2>1, <2>3, <3>5, <3>7, <4>1 DEF FrameRead
    <3>8. QED
      BY <3>6, <3>7
  <2>6. CASE state = ReadingHeader
    <3>1. c = a
      BY <1>1, <1>2, <1>3, <2>6 DEF Consumed, ReadingHeader
    <3>2. \A i \in 1 .. m : i <= 14 + p => src[i] = encode(f)[i]
      BY <1>4, <2>4, <3>1
    <3>3. decode(state, src) =
            IF m < 14 THEN Decoded(state, src, NoFrame)
            ELSE IF m < 14 + p
            THEN Decoded(ReadingPayload(f.header, p), SubSeq(src, 14 + 1, m), NoFrame)
            ELSE Decoded(ReadingHeader, SubSeq(src, (14 + p) + 1, m), f)
      BY <1>1, <1>4, <2>2, <2>6, <3>2, FrameBack
    <3>4. CASE m < 14
      <4>1. c + m < e
        BY <2>3, <3>1, <3>4
      <4>2. QED
        BY <1>1, <1>4, <2>3, <3>3, <3>4, <4>1 DEF Waits
    <3>5. CASE 14 <= m /\ m < 14 + p
      <4>1. c + m < e /\ ~(m < 14)
        BY <2>3, <3>1, <3>5
      <4>2. QED
        BY <1>1, <1>4, <1>6, <2>1, <2>2, <2>3, <2>6, <3>3, <3>5, <4>1 DEF HeaderRead
    <3>6. CASE 14 + p <= m
      <4>1. c + (14 + p) = e /\ ~(m < 14) /\ ~(m < 14 + p) /\ 14 + p \in Nat
        BY <2>3, <3>1, <3>6
      <4>2. QED
        BY <1>1, <1>3, <1>6, <2>1, <2>3, <3>3, <3>6, <4>1 DEF FrameRead
    <3>7. QED
      BY <3>4, <3>5, <3>6
  <2>7. QED
    BY <1>5, <2>5, <2>6
<1>7. CASE ~(r < l)
  <2>1. state = ReadingHeader
    BY <1>1, <1>5, <1>7 DEF InFlight
  <2>2. c = a /\ a = b
    BY <1>1, <1>2, <1>3, <1>7, <2>1 DEF Consumed, ReadingHeader, Layout
  <2>3. m < 14
    BY <1>4, <2>2
  <2>4. decode(state, src) = Decoded(state, src, NoFrame)
    BY <1>1, <2>1, <2>3 DEF decode, DecodeHeader, FRAME_HEADER_LEN, ReadingHeader
  <2>5. QED
    BY <1>1, <1>7, <2>4 DEF Waits
<1>8. QED
  BY <1>6, <1>7

\* When decode gives a frame it is the next one that was sent, and src is left
\* behind that frame's bytes.
LEMMA DecodeFrame ==
  ASSUME TypeOK, sent \in Seq(Messages), NEW B, NEW pos, Layout(sent, B, pos), InFlight(B, pos),
         decode(state, src).frame # NoFrame
  PROVE  FrameRead(pos)
<1>1. \A st, s, f : Decoded(st, s, f).frame = f
  BY DEF Decoded
<1> DEFINE f == sent[Len(received) + 1]
           st == ReadingPayload(f.header, Len(f.payload))
           s == SubSeq(src, 14 + 1, Len(src))
<1>2. ~Waits(pos)
  <2>1. Decoded(state, src, NoFrame).frame = NoFrame
    BY <1>1, Zenon
  <2>2. QED
    BY <2>1, Zenon DEF Waits
<1>3. ~HeaderRead(pos)
  <2>1. Decoded(st, s, NoFrame).frame = NoFrame
    BY <1>1, Zenon
  <2>2. QED
    BY <2>1, Zenon DEF HeaderRead
<1>4. QED
  BY <1>2, <1>3, DecodeNext, Zenon

-----------------------------------------------------------------------------
(* The invariant is inductive.                                             *)

\* One more frame adds its bytes, and moves none.
LEMMA LayoutGrows ==
  ASSUME NEW S \in Seq(Messages), NEW f \in Messages, NEW B, NEW pos, Layout(S, B, pos)
  PROVE  \E C, pos2 : /\ Layout(Append(S, f), C, pos2) /\ Joined(B, encode(f), C)
                      /\ \A i \in 0 .. Len(S) : pos2[i] = pos[i]
<1> DEFINE C == B \o encode(f)
           T == Append(S, f)
<1>0. B \in Seq(Byte)
  BY DEF Layout
<1>1. PICK l \in Nat, b \in Nat : l = Len(S) /\ b = Len(B)
  BY <1>0, LenProperties
<1>2. PICK p \in Nat : /\ p = Len(f.payload)
                      /\ encode(f) \in Seq(Byte) /\ Len(encode(f)) = 14 + p
  BY Encoded, LenProperties
<1>3. PICK e \in Nat : e = b + 14 + p /\ e = b + (14 + p) /\ e - b = 14 + p /\ b <= e
  <2> DEFINE x == b + 14 + p
  <2>1. x \in Nat /\ x = b + (14 + p) /\ x - b = 14 + p /\ b <= x
    OBVIOUS
  <2>2. QED
    BY <2>1
<1>4. Joined(B, encode(f), C)
  BY <1>0, <1>2, Join
<1> HIDE DEF C
<1>5. /\ Len(T) = l + 1 /\ T[l + 1] = f
      /\ \A i \in 1 .. l : T[i] = S[i]
  <2>1. /\ Len(T) = Len(S) + 1 /\ T[Len(S) + 1] = f
        /\ \A i \in 1 .. Len(S) : T[i] = S[i]
    BY AppendProperties
  <2>2. QED
    BY <1>1, <2>1
<1> HIDE DEF T
<1> DEFINE pos2 == [i \in 0 .. l + 1 |-> IF i <= l THEN pos[i] ELSE e]
<1>6. /\ pos \in [0 .. l -> Nat] /\ pos[0] = 0 /\ pos[l] = b
      /\ \A i \in 0 .. l : pos2[i] = pos[i] /\ pos[i] \in Nat
      /\ pos2[l + 1] = e
  <2>1. pos \in [0 .. l -> Nat] /\ pos[0] = 0 /\ pos[l] = b
    BY <1>1 DEF Layout
  <2>2. \A i \in 0 .. l : i \in 0 .. l + 1 /\ i <= l
    OBVIOUS
  <2>3. l + 1 \in 0 .. l + 1 /\ ~(l + 1 <= l)
    OBVIOUS
  <2>4. QED
    BY <2>1, <2>2, <2>3
<1>7. pos2 \in [0 .. l + 1 -> Nat] /\ 0 \in 0 .. l /\ l \in 0 .. l
  BY <1>6
<1> HIDE DEF pos2
<1>8. \A i, j \in 0 .. l : i <= j => pos[i] <= pos[j]
  BY <1>1 DEF Layout
<1>9. C \in Seq(Byte) /\ Len(C) = e
  BY <1>1, <1>2, <1>3, <1>4 DEF Joined
<1>10. ASSUME NEW i \in 1 .. l + 1
       PROVE  /\ pos2[i] = pos2[i - 1] + 14 + Len(T[i].payload)
              /\ Cut(C, pos2[i - 1], pos2[i], encode(T[i]))
  <2>1. CASE i <= l
    <3>1. i \in 1 .. l /\ i \in 0 .. l /\ i - 1 \in 0 .. l /\ i - 1 <= i /\ i <= l
      BY <2>1
    <3>2. /\ pos[i] = pos[i - 1] + 14 + Len(S[i].payload)
          /\ Cut(B, pos[i - 1], pos[i], encode(S[i]))
      BY <1>1, <3>1 DEF Layout
    <3>3. pos[i - 1] \in Nat /\ pos[i] \in Nat /\ pos[i - 1] <= pos[i] /\ pos[i] <= pos[l]
      BY <1>6, <1>7, <1>8, <3>1
    <3>4. Cut(C, pos[i - 1], pos[i], encode(S[i]))
      BY <1>0, <1>1, <1>4, <1>6, <3>2, <3>3, CutGrown
    <3>5. pos2[i] = pos[i] /\ pos2[i - 1] = pos[i - 1] /\ T[i] = S[i]
      BY <1>5, <1>6, <3>1
    <3>6. QED
      BY <3>2, <3>4, <3>5
  <2>2. CASE i = l + 1
    <3>0. i - 1 = l
      BY <2>2
    <3>1. T[i] = f /\ pos2[i] = e /\ pos2[i - 1] = b
      BY <1>5, <1>6, <1>7, <2>2, <3>0
    <3>2. Cut(C, b, e, encode(f))
      <4>1. \A k \in 1 .. Len(encode(f)) : C[b + k] = encode(f)[k]
        BY <1>1, <1>4 DEF Joined
      <4>2. QED
        BY <1>2, <1>3, <4>1 DEF Cut
    <3>3. QED
      BY <1>2, <1>3, <3>1, <3>2
  <2>3. QED
    BY <2>1, <2>2
<1>11. ASSUME NEW i \in 0 .. l + 1, NEW j \in 0 .. l + 1, i <= j PROVE pos2[i] <= pos2[j]
  <2>1. CASE j <= l
    <3>1. i \in 0 .. l /\ j \in 0 .. l
      BY <1>11, <2>1
    <3>2. QED
      BY <1>6, <1>8, <1>11, <3>1
  <2>2. CASE j = l + 1 /\ i <= l
    <3>1. i \in 0 .. l
      BY <2>2
    <3>2. pos[i] <= b /\ pos[i] \in Nat
      BY <1>6, <1>7, <1>8, <2>2, <3>1
    <3>3. pos2[i] = pos[i] /\ pos2[j] = e
      BY <1>6, <2>2, <3>1
    <3>4. QED
      BY <1>3, <3>2, <3>3
  <2>3. CASE j = l + 1 /\ i = l + 1
    BY <1>6, <2>3
  <2>4. QED
    BY <1>11, <2>1, <2>2, <2>3
<1>12. Layout(T, C, pos2)
  BY <1>5, <1>6, <1>7, <1>9, <1>10, <1>11 DEF Layout
<1>13. QED
  BY <1>1, <1>4, <1>6, <1>12 DEF T

LEMMA CodecInit == Init => CodecInv
<1> SUFFICES ASSUME Init PROVE CodecInv
  OBVIOUS
<1> DEFINE pos == [i \in 0 .. 0 |-> 0]
<1>1. \A X : <<>> \in Seq(X) /\ Len(<<>>) = 0
  OBVIOUS
<1>2. TypeOK /\ sent \in Seq(Messages) /\ Shut /\ EndIsComplete
  BY <1>1, Constants DEF Init, TypeOK, Shut, EndIsComplete, DecodeState
<1>3. pos \in [0 .. 0 -> Nat] /\ pos[0] = 0
  OBVIOUS
<1> HIDE DEF pos
<1>4. Layout(sent, <<>>, pos)
  BY <1>1, <1>3 DEF Init, Layout
<1>5. state.at # "payload" /\ Consumed(pos) = 0 /\ Taken(pos) = 0 /\ Written(pos) = 0
  BY <1>1, <1>3 DEF Init, Consumed, Taken, Written, ReadingHeader
<1>6. Cut(<<>>, 0, 0, <<>>)
  BY <1>1 DEF Cut
<1>7. InFlight(<<>>, pos)
  BY <1>1, <1>5, <1>6 DEF Init, InFlight
<1>8. QED
  BY <1>2, <1>4, <1>7 DEF CodecInv

\* A decode without a frame leaves the reader at the same frame, not at its end.
LEMMA DecodeWaits ==
  ASSUME TypeOK, sent \in Seq(Messages), NEW B, NEW pos, Layout(sent, B, pos),
         InFlight(B, pos), decode(state, src).frame = NoFrame
  PROVE  LET d == decode(state, src)
             r == Len(received)
             f == sent[r + 1]
         IN \E c \in Nat :
              /\ c = pos[r] + (IF d.state.at = "payload" THEN 14 ELSE 0)
              /\ c <= Taken(pos) /\ Cut(B, c, Taken(pos), d.src)
              /\ d.state \in DecodeState
              /\ d.state.at = "payload" =>
                   r < Len(sent) /\ d.state = ReadingPayload(f.header, Len(f.payload))
              /\ r < Len(sent) => Taken(pos) < pos[r + 1]
<1> DEFINE r == Len(received)
           f == sent[r + 1]
           d == decode(state, src)
<1>1. PICK m \in Nat, c \in Nat, t \in Nat :
        m = Len(src) /\ c = Consumed(pos) /\ t = Taken(pos) /\ t = c + m
  <2>1. Len(src) \in Nat /\ Consumed(pos) \in Nat /\ Taken(pos) = Consumed(pos) + Len(src)
    BY Positions
  <2>2. QED
    BY <2>1
<1>2. Cut(B, c, t, src) /\ state \in DecodeState /\ c <= t
  BY <1>1 DEF InFlight, TypeOK
<1>3. CASE d = Decoded(state, src, NoFrame) /\ (r < Len(sent) => Taken(pos) < pos[r + 1])
  <2>1. d.state = state /\ d.src = src
    BY <1>3 DEF Decoded
  <2>2. c = pos[r] + (IF d.state.at = "payload" THEN 14 ELSE 0)
    BY <1>1, <2>1 DEF Consumed
  <2>3. d.state.at = "payload" =>
          r < Len(sent) /\ d.state = ReadingPayload(f.header, Len(f.payload))
    BY <2>1 DEF InFlight
  <2>4. QED
    BY <1>1, <1>2, <1>3, <2>1, <2>2, <2>3
<1>4. CASE /\ d = Decoded(ReadingPayload(f.header, Len(f.payload)),
                          SubSeq(src, 14 + 1, Len(src)), NoFrame)
           /\ r < Len(sent) /\ state = ReadingHeader /\ 14 <= Len(src)
           /\ Taken(pos) < pos[r + 1]
  <2>1. /\ d.state = ReadingPayload(f.header, Len(f.payload)) /\ d.state.at = "payload"
        /\ d.src = SubSeq(src, 14 + 1, Len(src))
    BY <1>4 DEF Decoded, ReadingPayload
  <2>2. pos[r] = c
    <3>1. pos[r] \in Nat
      BY Positions
    <3>2. QED
      BY <1>1, <1>4, <3>1 DEF Consumed, ReadingHeader
  <2>3. c + 14 <= t /\ c + 14 \in Nat
    BY <1>1, <1>4
  <2>4. Cut(B, c + 14, t, SubSeq(src, 14 + 1, Len(src)))
    BY <1>2, <2>3, CutTail
  <2>5. d.state \in DecodeState
    <3>1. Len(sent) \in Nat /\ r \in Nat
      BY Positions
    <3>2. f \in Messages
      BY <1>4, <3>1, ElementOfSeq
    <3>3. f.header \in Header /\ Len(f.payload) \in U32
      BY <3>2, Encoded
    <3>4. QED
      BY <2>1, <3>3 DEF DecodeState, ReadingPayload
  <2>6. QED
    BY <1>1, <1>4, <2>1, <2>2, <2>3, <2>4, <2>5
<1>5. ASSUME NEW n \in Nat, d = Decoded(ReadingHeader, SubSeq(src, n + 1, Len(src)), f),
             r < Len(sent)
      PROVE  FALSE
  <2>1. Len(sent) \in Nat /\ r \in Nat
    BY Positions
  <2>2. f \in Frame
    BY <1>5, <2>1, ElementOfSeq, CodecAssumption
  <2>3. QED
    BY <1>5, <2>2, FrameIsSome DEF Decoded
<1>6. QED
  BY <1>3, <1>4, <1>5, DecodeNext, Zenon DEF Waits, HeaderRead, FrameRead

LEMMA CodecStep == CodecInv /\ [Next]_vars => CodecInv'
<1> SUFFICES ASSUME CodecInv, [Next]_vars PROVE CodecInv'
  OBVIOUS
<1>1. TypeOK /\ sent \in Seq(Messages) /\ Shut /\ EndIsComplete
  BY DEF CodecInv
<1>2. PICK B, pos : Layout(sent, B, pos) /\ InFlight(B, pos)
  BY DEF CodecInv
<1>3. PICK r \in Nat, l \in Nat, m \in Nat, q \in Nat, o \in Nat, b \in Nat, c \in Nat :
        /\ r = Len(received) /\ l = Len(sent) /\ m = Len(src) /\ q = Len(pipe)
        /\ o = Len(out) /\ b = Len(B) /\ c = Consumed(pos)
  BY <1>1, <1>2, Positions
<1>4. PICK t \in Nat, w \in Nat :
        /\ t = c + m /\ w = t + q /\ Taken(pos) = t /\ Written(pos) = w /\ r <= l /\ w <= b
        /\ Cut(B, c, t, src) /\ Cut(B, t, w, pipe)
        /\ link # "gone" => Cut(B, w, b, out)
        /\ out # <<>> => l > 0 /\ b - o >= pos[l - 1]
  <2>1. Taken(pos) = c + m /\ Written(pos) = (c + m) + q
    BY <1>1, <1>2, <1>3, Positions
  <2>2. c + m \in Nat /\ (c + m) + q \in Nat
    OBVIOUS
  <2>3. QED
    BY <1>2, <1>3, <2>1, <2>2 DEF InFlight
<1>5. /\ B \in Seq(Byte) /\ pos[r] \in Nat
      /\ writer = "open" => link = "open" /\ result = "frames"
  BY <1>1, <1>2, <1>3, Positions DEF Layout, Shut
<1>6. ASSUME NEW f \in Messages, Send(f) PROVE CodecInv'
  <2>1. PICK C, pos2 : /\ Layout(Append(sent, f), C, pos2) /\ Joined(B, encode(f), C)
                       /\ \A i \in 0 .. l : pos2[i] = pos[i]
    BY <1>1, <1>2, <1>3, LayoutGrows
  <2>2. PICK p \in Nat : /\ p = Len(f.payload)
                         /\ encode(f) \in Seq(Byte) /\ Len(encode(f)) = 14 + p
    BY Encoded, LenProperties
  <2>3. /\ Len(sent') = l + 1 /\ sent' \in Seq(Messages) /\ sent' \in Seq(Frame)
        /\ \A i \in 1 .. l : sent'[i] = sent[i]
    <3>1. /\ Len(Append(sent, f)) = Len(sent) + 1 /\ Append(sent, f) \in Seq(Messages)
          /\ \A i \in 1 .. Len(sent) : Append(sent, f)[i] = sent[i]
      BY <1>1, AppendProperties
    <3>2. Append(sent, f) \in Seq(Frame)
      BY <1>1, AppendProperties, CodecAssumption DEF TypeOK
    <3>3. QED
      BY <1>3, <1>6, <3>1, <3>2 DEF Send
  <2>4. TypeOK'
    BY <1>1, <1>6, <2>2, <2>3 DEF Send, TypeOK, readVars
  <2>5. Shut' /\ EndIsComplete'
    BY <1>1, <1>5, <1>6 DEF Send, Shut, EndIsComplete, readVars
  <2>6. out = <<>> /\ o = 0 /\ w = b
    <3>1. out = <<>> /\ link # "gone"
      BY <1>5, <1>6 DEF Send
    <3>2. o = 0
      BY <1>3, <3>1
    <3>3. o = b - w
      BY <1>3, <1>4, <3>1 DEF Cut
    <3>4. QED
      BY <1>4, <3>1, <3>2, <3>3
  <2>7. PICK e \in Nat : e = Len(C) /\ e = b + (14 + p)
    <3>1. Len(C) = b + (14 + p)
      BY <1>3, <2>1, <2>2 DEF Joined
    <3>2. b + (14 + p) \in Nat
      OBVIOUS
    <3>3. QED
      BY <3>1, <3>2
  <2>8. Cut(C, b, e, encode(f))
    <3>1. e - b = 14 + p
      BY <2>7
    <3>2. \A i \in 1 .. Len(encode(f)) : C[b + i] = encode(f)[i]
      BY <1>3, <2>1 DEF Joined
    <3>3. QED
      BY <2>2, <3>1, <3>2 DEF Cut
  <2>9. Cut(C, c, t, src) /\ Cut(C, t, w, pipe)
    <3>1. c <= t /\ t <= w /\ t <= b
      BY <1>4
    <3>2. QED
      BY <1>3, <1>4, <1>5, <2>1, <3>1, CutGrown
  <2>10. /\ Consumed(pos2)' = c /\ Taken(pos2)' = t /\ Written(pos2)' = w
    <3>1. pos2[r] = pos[r]
      BY <1>4, <2>1
    <3>2. Consumed(pos2)' = c
      BY <1>3, <1>6, <3>1 DEF Consumed, Send, readVars
    <3>3. QED
      BY <1>3, <1>4, <1>6, <3>2 DEF Taken, Written, Send, readVars
  <2>11. pos2[l] = b /\ (l + 1) - 1 = l /\ e - (14 + p) = b
    BY <1>2, <1>3, <2>1, <2>7 DEF Layout
  <2>12. state'.at = "payload" => /\ r < l + 1
                                  /\ LET g == sent'[r + 1]
                                     IN state' = ReadingPayload(g.header, Len(g.payload))
    <3>1. SUFFICES ASSUME state.at = "payload"
                   PROVE  /\ r < l + 1
                          /\ LET g == sent'[r + 1]
                             IN state' = ReadingPayload(g.header, Len(g.payload))
      BY <1>6 DEF Send, readVars
    <3>2. r < l /\ state = ReadingPayload(sent[r + 1].header, Len(sent[r + 1].payload))
      BY <1>2, <1>3, <3>1 DEF InFlight
    <3>3. sent'[r + 1] = sent[r + 1] /\ r < l + 1
      BY <2>3, <3>2
    <3>4. QED
      BY <1>6, <3>2, <3>3 DEF Send, readVars
  <2>13. InFlight(C, pos2)'
    <3>1. received' = received /\ src' = src /\ pipe' = pipe /\ out' = encode(f)
      BY <1>6 DEF Send, readVars
    <3>2. w <= e /\ r <= l + 1 /\ l + 1 > 0 /\ b >= pos2[l]
      BY <1>4, <2>7, <2>11
    <3>3. Cut(C, w, e, out') /\ Len(C) - Len(out') = b
      BY <2>2, <2>6, <2>7, <2>8, <2>11, <3>1
    <3>4. QED
      BY <1>3, <2>3, <2>7, <2>9, <2>10, <2>11, <2>12, <3>1, <3>2, <3>3 DEF InFlight
  <2>14. Layout(sent, C, pos2)'
    BY <1>6, <2>1 DEF Send
  <2>15. QED
    BY <2>3, <2>4, <2>5, <2>13, <2>14 DEF CodecInv
<1>7. ASSUME NEW n \in 1 .. PipeCap, Write(n) PROVE CodecInv'
  <2>1. writer = "open" /\ link = "open" /\ result = "frames" /\ link # "gone"
    BY <1>5, <1>7 DEF Write
  <2>2. o = b - w /\ n <= o /\ n \in Nat /\ w + n <= b /\ w + n \in Nat
    <3>1. o = b - w
      BY <1>3, <1>4, <2>1 DEF Cut
    <3>2. n <= o /\ n \in Nat
      BY <1>3, <1>7, Constants DEF Write
    <3>3. QED
      BY <3>1, <3>2
  <2>3. Cut(B, w, w + n, SubSeq(out, 1, n))
    BY <1>4, <2>1, <2>2, CutHead
  <2>4. Cut(B, t, w + n, pipe')
    <3>1. t <= w /\ w <= w + n
      BY <1>4, <2>2
    <3>2. Cut(B, t, w + n, pipe \o SubSeq(out, 1, n))
      BY <1>4, <2>2, <2>3, <3>1, CutJoin
    <3>3. QED
      BY <1>7, <3>2 DEF Write
  <2>5. Cut(B, w + n, b, out')
    <3>1. Cut(B, w + n, b, SubSeq(out, n + 1, Len(out)))
      BY <1>4, <2>1, <2>2, CutTail
    <3>2. QED
      BY <1>7, <3>1 DEF Write
  <2>6. /\ pipe' \in Seq(Byte) /\ Len(pipe') = (w + n) - t
        /\ out' \in Seq(Byte) /\ Len(out') = b - (w + n)
    BY <2>4, <2>5 DEF Cut
  <2>7. /\ Len(pipe') = q + n /\ q + n <= PipeCap /\ t + (q + n) = w + n
        /\ b - Len(out') >= b - o /\ Len(out') <= o
        /\ Len(out') # 0 => o # 0
    <3>1. /\ (w + n) - t = q + n /\ t + (q + n) = w + n
          /\ b - (b - (w + n)) >= b - o /\ b - (w + n) <= o
          /\ b - (w + n) # 0 => o # 0
      BY <1>4, <2>2
    <3>2. q + n <= PipeCap
      BY <1>3, <1>7 DEF Write
    <3>3. QED
      BY <2>6, <3>1, <3>2
  <2>8. TypeOK' /\ sent' \in Seq(Messages)
    BY <1>1, <1>7, <2>6, <2>7 DEF Write, TypeOK, readVars
  <2>9. Shut' /\ EndIsComplete'
    BY <1>1, <1>7, <2>1 DEF Write, Shut, EndIsComplete, readVars
  <2>10. Consumed(pos)' = c /\ Taken(pos)' = t /\ Written(pos)' = w + n
    <3>1. Consumed(pos)' = c
      BY <1>3, <1>7 DEF Consumed, Write, readVars
    <3>2. Taken(pos)' = t
      BY <1>3, <1>4, <1>7, <3>1 DEF Taken, Write, readVars
    <3>3. QED
      BY <2>7, <3>1, <3>2 DEF Written
  <2>11. out' # <<>> => l > 0 /\ b - Len(out') >= pos[l - 1]
    <3>1. SUFFICES ASSUME out' # <<>> PROVE l > 0 /\ b - Len(out') >= pos[l - 1]
      OBVIOUS
    <3>2. Len(out') # 0
      BY <2>6, <3>1, EmptySeq
    <3>3. out # <<>>
      BY <1>3, <2>7, <3>2
    <3>4. l > 0 /\ b - o >= pos[l - 1]
      BY <1>4, <3>3
    <3>5. pos[l - 1] \in Nat
      <4>1. l - 1 \in 0 .. l
        BY <3>4
      <4>2. QED
        BY <1>2, <1>3, <4>1 DEF Layout
    <3>6. b - Len(out') \in Int
      BY <2>2, <2>6
    <3>7. QED
      BY <2>7, <3>4, <3>5, <3>6
  <2>12. InFlight(B, pos)'
    <3>1. /\ received' = received /\ src' = src /\ sent' = sent /\ state' = state
          /\ link' = link
      BY <1>7 DEF Write, readVars
    <3>2. QED
      BY <1>2, <1>3, <1>4, <2>2, <2>4, <2>5, <2>10, <2>11, <3>1 DEF InFlight
  <2>13. Layout(sent, B, pos)'
    BY <1>2, <1>7 DEF Write
  <2>14. QED
    BY <2>8, <2>9, <2>12, <2>13 DEF CodecInv
<1>8. CASE CloseWriter
  <2>1. writer = "open" /\ link = "open" /\ result = "frames" /\ link # "gone"
    BY <1>5, <1>8 DEF CloseWriter
  <2>2. TypeOK' /\ sent' \in Seq(Messages) /\ Shut' /\ EndIsComplete'
    BY <1>1, <1>8, <2>1 DEF CloseWriter, TypeOK, Shut, EndIsComplete, readVars
  <2>3. InFlight(B, pos)' /\ Layout(sent, B, pos)'
    BY <1>2, <1>8, <2>1
      DEF CloseWriter, InFlight, Consumed, Taken, Written, readVars
  <2>4. QED
    BY <2>2, <2>3 DEF CodecInv
<1>9. CASE DropWriter
  <2>1. writer = "open" /\ link = "open" /\ result = "frames" /\ link # "gone"
    BY <1>5, <1>9 DEF DropWriter
  <2>2. PICK n \in 0 .. q : /\ Len(pipe') = n /\ Cut(B, t, t + n, pipe')
                            /\ link' # "gone" => n = q
    <3>1. CASE link' = "eof" /\ pipe' = pipe
      <4>1. q \in 0 .. q
        OBVIOUS
      <4>2. QED
        BY <1>3, <1>4, <3>1, <4>1
    <3>2. ASSUME link' = "gone", NEW n \in 0 .. Len(pipe), pipe' = SubSeq(pipe, 1, n)
          PROVE  /\ n \in 0 .. q /\ Len(pipe') = n /\ Cut(B, t, t + n, pipe')
                 /\ link' # "gone" => n = q
      <4>0. n \in 0 .. q
        BY <1>3
      <4>1. n \in Nat /\ n \in 0 .. q /\ t + n <= w /\ (t + n) - t = n
        BY <1>4, <4>0
      <4>2. Cut(B, t, t + n, SubSeq(pipe, 1, n))
        BY <1>4, <4>1, CutHead
      <4>3. Len(pipe') = n
        BY <3>2, <4>1, <4>2 DEF Cut
      <4>4. QED
        BY <3>2, <4>1, <4>2, <4>3
    <3>3. QED
      BY <1>9, <3>1, <3>2 DEF DropWriter
  <2>3. t + n <= b /\ t + n \in Nat /\ n <= q /\ (n = q => t + n = w)
    BY <1>4
  <2>4. TypeOK' /\ sent' \in Seq(Messages)
    <3>1. pipe' \in Seq(Byte) /\ Len(pipe') <= PipeCap
      BY <1>1, <1>3, <2>2, <2>3, Constants DEF Cut, TypeOK
    <3>2. QED
      BY <1>1, <1>9, <3>1 DEF DropWriter, TypeOK, readVars
  <2>5. Shut' /\ EndIsComplete'
    BY <1>1, <1>9, <2>1 DEF DropWriter, Shut, EndIsComplete, readVars
  <2>6. Consumed(pos)' = c /\ Taken(pos)' = t /\ Written(pos)' = t + n
    <3>1. Consumed(pos)' = c
      BY <1>3, <1>9 DEF Consumed, DropWriter, readVars
    <3>2. Taken(pos)' = t
      BY <1>3, <1>4, <1>9, <3>1 DEF Taken, DropWriter, readVars
    <3>3. Written(pos)' = Taken(pos)' + Len(pipe')
      BY DEF Written
    <3>4. QED
      BY <2>2, <3>1, <3>2, <3>3
  <2>7. InFlight(B, pos)'
    <3>1. received' = received /\ src' = src /\ sent' = sent /\ state' = state /\ out' = out
      BY <1>9 DEF DropWriter, readVars
    <3>2. link' # "gone" => Cut(B, t + n, b, out)
      BY <1>4, <2>1, <2>2, <2>3
    <3>3. QED
      BY <1>2, <1>3, <1>4, <2>2, <2>3, <2>6, <3>1, <3>2 DEF InFlight
  <2>8. Layout(sent, B, pos)'
    BY <1>2, <1>9 DEF DropWriter
  <2>9. QED
    BY <2>4, <2>5, <2>7, <2>8 DEF CodecInv
<1>10. ASSUME Receive, decode(state, src).frame # NoFrame PROVE CodecInv'
  <2> DEFINE d == decode(state, src)
             f == sent[r + 1]
  <2>1. PICK n \in Nat : /\ d = Decoded(ReadingHeader, SubSeq(src, n + 1, Len(src)), f)
                         /\ r < l /\ n <= m /\ c + n = pos[r + 1]
    <3>1. PICK n \in Nat :
            /\ d = Decoded(ReadingHeader, SubSeq(src, n + 1, Len(src)), sent[Len(received) + 1])
            /\ Len(received) < Len(sent) /\ n <= Len(src)
            /\ Consumed(pos) + n = pos[Len(received) + 1]
      BY <1>1, <1>2, <1>10, DecodeFrame, Zenon DEF FrameRead
    <3>2. QED
      BY <1>3, <3>1, Zenon
  <2>2. /\ src' = SubSeq(src, n + 1, Len(src)) /\ state' = ReadingHeader
        /\ received' = Append(received, f) /\ state'.at = "header"
    BY <1>10, <2>1 DEF Receive, Decoded, ReadingHeader
  <2>3. f \in Frame
    <3>1. r + 1 \in 1 .. l
      BY <2>1
    <3>2. QED
      BY <1>1, <1>3, <3>1 DEF TypeOK
  <2>4. received' \in Seq(Frame) /\ Len(received') = r + 1
    <3>1. /\ Append(received, f) \in Seq(Frame)
          /\ Len(Append(received, f)) = Len(received) + 1
      BY <1>1, <2>3, AppendProperties DEF TypeOK
    <3>2. QED
      BY <1>3, <2>2, <3>1
  <2>5. Cut(B, c + n, t, src')
    <3>1. c + n <= t
      BY <1>4, <2>1
    <3>2. Cut(B, c + n, t, SubSeq(src, n + 1, Len(src)))
      BY <1>4, <3>1, CutTail
    <3>3. QED
      BY <2>2, <3>2
  <2>6. Consumed(pos)' = c + n /\ Taken(pos)' = t /\ Written(pos)' = w
    <3>1. Consumed(pos)' = pos[r + 1]
      <4>1. Consumed(pos)' = pos[r + 1] + 0
        BY <2>2, <2>4 DEF Consumed
      <4>2. pos[r + 1] \in Nat
        <5>1. r + 1 \in 0 .. l
          BY <2>1
        <5>2. QED
          BY <1>2, <1>3, <5>1 DEF Layout
      <4>3. QED
        BY <4>1, <4>2
    <3>2. Len(src') = t - (c + n)
      BY <2>5 DEF Cut
    <3>3. Taken(pos)' = Consumed(pos)' + Len(src') /\ Written(pos)' = Taken(pos)' + Len(pipe')
      BY DEF Taken, Written
    <3>4. Len(pipe') = q /\ (c + n) + (t - (c + n)) = t
      BY <1>3, <1>10 DEF Receive
    <3>5. QED
      BY <1>4, <2>1, <3>1, <3>2, <3>3, <3>4
  <2>7. TypeOK' /\ sent' \in Seq(Messages)
    <3>1. src' \in Seq(Byte) /\ state' \in DecodeState
      BY <2>2, <2>5 DEF Cut, DecodeState
    <3>2. QED
      BY <1>1, <1>10, <2>4, <3>1 DEF Receive, TypeOK, writeVars
  <2>8. Shut' /\ EndIsComplete'
    BY <1>1, <1>10 DEF Receive, Shut, EndIsComplete, writeVars
  <2>9. InFlight(B, pos)'
    <3>1. sent' = sent /\ out' = out /\ pipe' = pipe /\ link' = link
      BY <1>10 DEF Receive, writeVars
    <3>2. r + 1 <= l /\ state'.at # "payload"
      BY <2>1, <2>2
    <3>3. QED
      BY <1>3, <1>4, <2>4, <2>5, <2>6, <3>1, <3>2 DEF InFlight
  <2>10. Layout(sent, B, pos)'
    BY <1>2, <1>10 DEF Receive, writeVars
  <2>11. QED
    BY <2>7, <2>8, <2>9, <2>10 DEF CodecInv
<1>11. ASSUME decode(state, src).frame = NoFrame
       PROVE  \E k \in Nat :
                LET d == decode(state, src)
                    f == sent[r + 1]
                IN /\ k = pos[r] + (IF d.state.at = "payload" THEN 14 ELSE 0)
                   /\ k <= t /\ Cut(B, k, t, d.src)
                   /\ d.state \in DecodeState
                   /\ d.state.at = "payload" =>
                        r < l /\ d.state = ReadingPayload(f.header, Len(f.payload))
                   /\ r < l => t < pos[r + 1]
  BY <1>1, <1>2, <1>3, <1>4, <1>11, DecodeWaits
<1>12. ASSUME NEW n \in 1 .. PipeCap, Read(n) PROVE CodecInv'
  <2> DEFINE d == decode(state, src)
             f == sent[r + 1]
  <2>1. PICK k \in Nat : /\ k = pos[r] + (IF d.state.at = "payload" THEN 14 ELSE 0)
                         /\ k <= t /\ Cut(B, k, t, d.src)
                         /\ d.state \in DecodeState
                         /\ d.state.at = "payload" =>
                              r < l /\ d.state = ReadingPayload(f.header, Len(f.payload))
    BY <1>11, <1>12 DEF Read
  <2>2. /\ src' = d.src \o SubSeq(pipe, 1, n) /\ state' = d.state
        /\ pipe' = SubSeq(pipe, n + 1, Len(pipe))
        /\ sent' = sent /\ out' = out /\ link' = link /\ received' = received
        /\ writer' = writer /\ result' = result
    BY <1>12 DEF Read, writeVars
  <2> HIDE DEF d
  <2>3. n \in Nat /\ n <= q /\ t + n <= w /\ t + n \in Nat /\ t <= t + n
    <3>1. n \in Nat /\ n <= q
      BY <1>3, <1>12, Constants DEF Read
    <3>2. QED
      BY <1>4, <3>1
  <2>4. Cut(B, k, t + n, src')
    <3>1. Cut(B, t, t + n, SubSeq(pipe, 1, n))
      BY <1>4, <2>3, CutHead
    <3>2. Cut(B, k, t + n, d.src \o SubSeq(pipe, 1, n))
      BY <2>1, <2>3, <3>1, CutJoin
    <3>3. QED
      BY <2>2, <3>2
  <2>5. Cut(B, t + n, w, pipe')
    <3>1. Cut(B, t + n, w, SubSeq(pipe, n + 1, Len(pipe)))
      BY <1>4, <2>3, CutTail
    <3>2. QED
      BY <2>2, <3>1
  <2>6. Consumed(pos)' = k /\ Taken(pos)' = t + n /\ Written(pos)' = w
    <3>1. Consumed(pos)' = k
      BY <1>3, <2>1, <2>2 DEF Consumed
    <3>2. Len(src') = (t + n) - k /\ Len(pipe') = w - (t + n)
      BY <2>4, <2>5 DEF Cut
    <3>3. Taken(pos)' = Consumed(pos)' + Len(src') /\ Written(pos)' = Taken(pos)' + Len(pipe')
      BY DEF Taken, Written
    <3>4. k + ((t + n) - k) = t + n /\ (t + n) + (w - (t + n)) = w
      BY <2>3
    <3>5. QED
      BY <3>1, <3>2, <3>3, <3>4
  <2>7. TypeOK' /\ sent' \in Seq(Messages)
    <3>1. src' \in Seq(Byte) /\ state' \in DecodeState
      BY <2>1, <2>2, <2>4 DEF Cut
    <3>2. pipe' \in Seq(Byte) /\ Len(pipe') <= q
      <4>1. pipe' \in Seq(Byte) /\ Len(pipe') = w - (t + n)
        BY <2>5 DEF Cut
      <4>2. w - (t + n) <= q
        BY <1>4, <2>3
      <4>3. QED
        BY <4>1, <4>2
    <3>3. Len(pipe') <= PipeCap
      <4>1. q <= PipeCap /\ Len(pipe') \in Nat
        BY <1>1, <1>3, <3>2, LenProperties DEF TypeOK
      <4>2. QED
        BY <3>2, <4>1, Constants
    <3>4. QED
      BY <1>1, <2>2, <3>1, <3>2, <3>3 DEF TypeOK
  <2>8. Shut' /\ EndIsComplete'
    BY <1>1, <1>12, <2>2 DEF Read, Shut, EndIsComplete, Flushed
  <2>9. InFlight(B, pos)'
    BY <1>3, <1>4, <2>1, <2>2, <2>4, <2>5, <2>6 DEF InFlight
  <2>10. Layout(sent, B, pos)'
    BY <1>2, <2>2
  <2>11. QED
    BY <2>7, <2>8, <2>9, <2>10 DEF CodecInv
<1>13. CASE ReadEnd
  <2> DEFINE d == decode(state, src)
             f == sent[r + 1]
  <2>1. PICK k \in Nat : /\ k = pos[r] + (IF d.state.at = "payload" THEN 14 ELSE 0)
                         /\ k <= t /\ Cut(B, k, t, d.src)
                         /\ d.state \in DecodeState
                         /\ d.state.at = "payload" =>
                              r < l /\ d.state = ReadingPayload(f.header, Len(f.payload))
                         /\ r < l => t < pos[r + 1]
    BY <1>11, <1>13 DEF ReadEnd
  <2>2. /\ src' = d.src /\ state' = d.state /\ pipe = <<>> /\ link # "open"
        /\ result' \in {"end", "error"} /\ (result' = "end" => link = "eof")
        /\ sent' = sent /\ out' = out /\ link' = link /\ received' = received
        /\ writer' = writer /\ pipe' = pipe
    BY <1>13 DEF ReadEnd, writeVars
  <2> HIDE DEF d
  <2>3. Consumed(pos)' = k /\ Taken(pos)' = t /\ Written(pos)' = w
    <3>1. Consumed(pos)' = k
      BY <1>3, <2>1, <2>2 DEF Consumed
    <3>2. Len(src') = t - k /\ Len(pipe') = q
      BY <1>3, <2>1, <2>2 DEF Cut
    <3>3. Taken(pos)' = Consumed(pos)' + Len(src') /\ Written(pos)' = Taken(pos)' + Len(pipe')
      BY DEF Taken, Written
    <3>4. k + (t - k) = t
      OBVIOUS
    <3>5. QED
      BY <1>4, <3>1, <3>2, <3>3, <3>4
  <2>4. TypeOK' /\ sent' \in Seq(Messages) /\ Shut'
    <3>1. src' \in Seq(Byte) /\ state' \in DecodeState
      BY <2>1, <2>2 DEF Cut
    <3>2. QED
      BY <1>1, <2>2, <3>1 DEF TypeOK, Shut
  <2>5. InFlight(B, pos)'
    BY <1>3, <1>4, <2>1, <2>2, <2>3 DEF InFlight
  <2>6. Layout(sent, B, pos)'
    BY <1>2, <2>2
  <2>7. EndIsComplete'
    <3>1. SUFFICES ASSUME link = "eof" PROVE r >= Flushed
      BY <1>3, <2>2 DEF EndIsComplete, Flushed
    <3>2. q = 0 /\ w = t /\ Cut(B, w, b, out)
      BY <1>3, <1>4, <2>2, <3>1
    <3>3. o = b - t
      BY <1>3, <3>2 DEF Cut
    <3>4. \A i, j \in 0 .. l : i <= j => pos[i] <= pos[j]
      BY <1>2, <1>3 DEF Layout
    <3>5. pos[l] = b /\ \A i \in 0 .. l : pos[i] \in Nat
      BY <1>2, <1>3 DEF Layout
    <3>6. CASE out = <<>>
      <4>1. Flushed = l /\ o = 0
        BY <1>3, <3>6 DEF Flushed
      <4>2. SUFFICES ASSUME r < l PROVE FALSE
        BY <4>1
      <4>3. r + 1 \in 0 .. l /\ l \in 0 .. l /\ r + 1 <= l
        BY <4>2
      <4>4. t < pos[r + 1] /\ pos[r + 1] <= b /\ pos[r + 1] \in Nat
        BY <2>1, <3>4, <3>5, <4>2, <4>3
      <4>5. QED
        BY <3>3, <4>1, <4>4
    <3>7. CASE out # <<>>
      <4>1. Flushed = l - 1 /\ l > 0 /\ b - o >= pos[l - 1]
        BY <1>3, <1>4, <3>7 DEF Flushed
      <4>2. SUFFICES ASSUME r < l - 1 PROVE FALSE
        BY <4>1
      <4>3. r + 1 \in 0 .. l /\ l - 1 \in 0 .. l /\ r + 1 <= l - 1 /\ r < l
        BY <4>1, <4>2
      <4>4. t < pos[r + 1] /\ pos[r + 1] <= pos[l - 1] /\ pos[r + 1] \in Nat /\ pos[l - 1] \in Nat
        BY <2>1, <3>4, <3>5, <4>3
      <4>5. QED
        BY <3>3, <4>1, <4>4
    <3>8. QED
      BY <3>6, <3>7
  <2>8. QED
    BY <2>4, <2>5, <2>6, <2>7 DEF CodecInv
<1>14. CASE UNCHANGED vars
  <2>1. TypeOK' /\ sent' \in Seq(Messages) /\ Shut' /\ EndIsComplete'
    BY <1>1, <1>14
      DEF vars, writeVars, readVars, TypeOK, Shut, EndIsComplete, Flushed
  <2>2. Layout(sent, B, pos)' /\ InFlight(B, pos)'
    BY <1>2, <1>14 DEF vars, writeVars, readVars, InFlight, Consumed, Taken, Written
  <2>3. QED
    BY <2>1, <2>2 DEF CodecInv
<1>15. CASE Receive
  BY <1>10, <1>15 DEF Receive
<1>16. QED
  BY <1>6, <1>7, <1>8, <1>9, <1>12, <1>13, <1>14, <1>15 DEF Next

-----------------------------------------------------------------------------
(* The theorems.                                                           *)

LEMMA Invariant == Spec => []CodecInv
  BY CodecInit, CodecStep, PTL DEF Spec

\* TypeOK: what FramedRead and FramedWrite hold is bytes, frames and a decoder
\* state, for every base, every set of frames and every cut into reads.
THEOREM CodecTyped == Spec => []TypeOK
<1>1. CodecInv => TypeOK
  BY DEF CodecInv
<1>2. QED
  BY <1>1, Invariant, PTL

\* EndIsComplete: when FramedRead returns None, it has returned every frame whose
\* send returned.
THEOREM EndComplete == Spec => []EndIsComplete
<1>1. CodecInv => EndIsComplete
  BY DEF CodecInv
<1>2. QED
  BY <1>1, Invariant, PTL

\* ImplementsChannel: decode undoes encode, however the bytes are cut into reads:
\* the framed connection is a channel of whole frames, in order, none twice.
THEOREM CodecIsChannel == Spec => ImplementsChannel
<1>1. Init => Channel!Init
  BY DEF Init, Channel!Init
<1>2. CodecInv /\ [Next]_vars => [Channel!Send \/ Channel!Receive]_<<sent, received>>
  <2> SUFFICES ASSUME CodecInv, [Next]_vars
               PROVE  \/ Channel!Send \/ Channel!Receive
                      \/ UNCHANGED <<sent, received>>
    OBVIOUS
  <2>1. ASSUME NEW f \in Messages, Send(f) PROVE Channel!Send
    BY <2>1 DEF Send, Channel!Send, readVars
  <2>2. CASE Receive
    <3>1. TypeOK /\ sent \in Seq(Messages)
      BY DEF CodecInv
    <3>2. PICK B, pos : Layout(sent, B, pos) /\ InFlight(B, pos)
      BY DEF CodecInv
    <3>3. /\ Len(received) < Len(sent)
          /\ decode(state, src).frame = sent[Len(received) + 1]
      <4>1. decode(state, src).frame # NoFrame
        BY <2>2 DEF Receive
      <4>2. PICK n \in Nat :
              /\ decode(state, src) = Decoded(ReadingHeader, SubSeq(src, n + 1, Len(src)),
                                             sent[Len(received) + 1])
              /\ Len(received) < Len(sent)
        BY <3>1, <3>2, <4>1, DecodeFrame, Zenon DEF FrameRead
      <4>3. QED
        BY <4>2 DEF Decoded
    <3>4. QED
      BY <2>2, <3>3 DEF Receive, writeVars, Channel!Receive
  <2>3. CASE \/ \E n \in 1 .. PipeCap : Write(n) \/ Read(n)
             \/ CloseWriter \/ DropWriter \/ ReadEnd \/ UNCHANGED vars
    BY <2>3 DEF Write, Read, CloseWriter, DropWriter, ReadEnd, vars, writeVars, readVars
  <2>4. QED
    BY <2>1, <2>2, <2>3 DEF Next
<1>3. QED
  BY <1>1, <1>2, Invariant, PTL DEF Spec, ImplementsChannel, Channel!Spec
=============================================================================
