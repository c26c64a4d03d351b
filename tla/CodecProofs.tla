----------------------------- MODULE CodecProofs -----------------------------
(***************************************************************************)
(* The codec for packets of every size it can carry, and varints for every *)
(* 32 bit number: what encode_into or put_varint writes, decode_from or    *)
(* get_varint gives back when all of it has arrived, and nothing before.   *)
(* The bounds are those of the 15 bits of the length field.  Sums over a   *)
(* stream of packets are reasoned about by induction over sets of numbers. *)
(***************************************************************************)
EXTENDS Codec, VarInt, SequenceTheorems, WellFoundedInduction, TLAPS

\* Induction over the naturals, for a set of them.
LEMMA NatSetInduction ==
    ASSUME NEW S, 0 \in S, \A n \in Nat : n \in S => n + 1 \in S
    PROVE  Nat \subseteq S
<1> DEFINE R == OpToRel(<, Nat)
           T == Nat \ S
<1>1. SUFFICES ASSUME T # {} PROVE FALSE
      OBVIOUS
<1>2. IsWellFoundedOn(R, Nat)
      BY NatLessThanWellFounded
<1>3. \A x, y \in Nat : x < y => <<x, y>> \in R
      BY DEF OpToRel
<1> HIDE DEF R
<1>4. PICK x \in T : \A y \in T : ~ (<<y, x>> \in R)
      BY <1>1, <1>2, WFMin
<1>5. x - 1 \in Nat /\ x - 1 < x /\ x \in Nat
      BY <1>4
<1>6. x - 1 \in S
      BY <1>3, <1>4, <1>5
<1>7. QED  BY <1>4, <1>5, <1>6

-----------------------------------------------------------------------------
\* g adds up f as far as n.
AddsUp(g, f, n) == g[0] = 0 /\ \A i \in Nat : i < n => g[i + 1] = g[i] + f[i + 1]

\* There is one way only to add up,
LEMMA OneSum ==
    ASSUME NEW f, NEW g, NEW h, NEW n \in Nat, AddsUp(g, f, n), AddsUp(h, f, n)
    PROVE  \A i \in 0..n : g[i] = h[i]
<1> DEFINE S == {i \in Nat : i <= n => g[i] = h[i]}
<1>1. 0 \in S
      BY DEF AddsUp
<1>2. \A i \in Nat : i \in S => i + 1 \in S
      BY DEF AddsUp
<1> HIDE DEF S
<1>3. Nat \subseteq S
      BY <1>1, <1>2, NatSetInduction
<1>4. QED  BY <1>3 DEF S

\* and there is one.
LEMMA SomeSum ==
    ASSUME NEW f, NEW n \in Nat
    PROVE  \E g : AddsUp(g, f, n)
<1> DEFINE S == {i \in Nat : \E g : AddsUp(g, f, i)}
<1>1. 0 \in S
  <2>1. AddsUp([i \in Nat |-> 0], f, 0)
        BY DEF AddsUp
  <2>2. QED  BY <2>1
<1>2. ASSUME NEW i \in Nat, i \in S PROVE i + 1 \in S
  <2>1. PICK g : AddsUp(g, f, i)
        BY <1>2
  <2> DEFINE h == [j \in Nat |-> IF j = i + 1 THEN g[i] + f[i + 1] ELSE g[j]]
  <2>2. AddsUp(h, f, i + 1)
        BY <2>1 DEF AddsUp
  <2>3. QED  BY <2>2
<1> HIDE DEF S
<1>3. Nat \subseteq S
      BY <1>1, <1>2, NatSetInduction
<1>4. QED  BY <1>3 DEF S

\* So the recursion of SumTo has a solution: what its definition says, it is.
LEMMA SumStep ==
    ASSUME NEW f
    PROVE  /\ SumTo(f, 0) = 0
           /\ \A n \in Nat : SumTo(f, n + 1) = SumTo(f, n) + f[n + 1]
<1> DEFINE Sum(s) == s = [i \in Nat |-> IF i = 0 THEN 0 ELSE s[i - 1] + f[i]]
           at(n) == CHOOSE g : AddsUp(g, f, n)
           all == [n \in Nat |-> at(n)[n]]
<1>1. \A n \in Nat : AddsUp(at(n), f, n)
      BY SomeSum
<1> HIDE DEF at
<1>2. all[0] = 0
      BY <1>1 DEF AddsUp
<1>3. ASSUME NEW n \in Nat PROVE all[n + 1] = all[n] + f[n + 1]
  <2>1. AddsUp(at(n + 1), f, n) /\ AddsUp(at(n), f, n)
        BY <1>1 DEF AddsUp
  <2>2. at(n + 1)[n] = at(n)[n]
        BY <2>1, OneSum
  <2>3. at(n + 1)[n + 1] = at(n + 1)[n] + f[n + 1]
        BY <1>1 DEF AddsUp
  <2>4. QED  BY <2>2, <2>3
<1>4. Sum(all)
  <2>1. ASSUME NEW i \in Nat PROVE all[i] = IF i = 0 THEN 0 ELSE all[i - 1] + f[i]
    <3>1. CASE i = 0
          BY <1>2, <3>1
    <3>2. CASE i # 0
      <4>1. i - 1 \in Nat /\ (i - 1) + 1 = i
            BY <3>2
      <4>2. QED  BY <1>3, <3>2, <4>1
    <3>3. QED  BY <3>1, <3>2
  <2>2. all = [n \in Nat |-> all[n]]
        OBVIOUS
  <2> HIDE DEF all
  <2>3. QED  BY <2>1, <2>2, Zenon
<1> HIDE DEF all
<1> DEFINE sum == CHOOSE s : Sum(s)
<1>5. Sum(sum)
      BY <1>4, Zenon
<1>6. \A n \in Nat : SumTo(f, n) = sum[n]
      BY DEF SumTo
<1> HIDE DEF sum
<1>7. QED  BY <1>5, <1>6

\* A sum of naturals is a natural, and grows with every number that is not 0.
LEMMA SumGrows ==
    ASSUME NEW m \in Nat, NEW f \in [1..m -> Nat \ {0}]
    PROVE  /\ \A n \in 0..m : SumTo(f, n) \in Nat
           /\ \A j, n \in 0..m : j < n => SumTo(f, j) < SumTo(f, n)
<1> DEFINE s(n) == SumTo(f, n)
           T == {n \in Nat : n <= m => s(n) \in Nat}
<1>1. s(0) = 0 /\ \A n \in Nat : s(n + 1) = s(n) + f[n + 1]
      BY SumStep
<1>2. \A n \in Nat : n + 1 <= m => f[n + 1] \in Nat /\ f[n + 1] # 0
      OBVIOUS
<1> HIDE DEF s
<1>3. 0 \in T
  <2>1. s(0) = 0
        BY <1>1, Zenon
  <2>2. 0 \in Nat
        OBVIOUS
  <2>3. s(0) \in Nat
        BY <2>1, <2>2, Zenon
  <2>4. QED  BY <2>2, <2>3, Zenon
<1>4. ASSUME NEW n \in Nat, n \in T PROVE n + 1 \in T
  <2>1. n + 1 <= m => s(n) \in Nat /\ f[n + 1] \in Nat
        BY <1>4, <1>2
  <2>2. s(n + 1) = s(n) + f[n + 1]
        BY <1>1
  <2>3. n + 1 <= m => s(n + 1) \in Nat
        BY <2>1, <2>2
  <2>4. QED  BY <2>3
<1> HIDE DEF T
<1>5. Nat \subseteq T
      BY <1>3, <1>4, NatSetInduction
<1>6. \A n \in 0..m : s(n) \in Nat
      BY <1>5 DEF T
<1>7. ASSUME NEW j \in 0..m PROVE \A n \in 0..m : j < n => s(j) < s(n)
  <2> DEFINE U == {n \in Nat : n <= m /\ j < n => s(j) < s(n)}
  <2>1. 0 \in U
        OBVIOUS
  <2>2. ASSUME NEW n \in Nat, n \in U, n + 1 <= m, j < n + 1 PROVE s(j) < s(n + 1)
    <3>1. s(n + 1) = s(n) + f[n + 1] /\ f[n + 1] \in Nat \ {0} /\ s(n) \in Nat /\ s(j) \in Nat
      <4>1. n \in 0..m
            BY <2>2
      <4>2. QED  BY <1>1, <1>6, <1>2, <2>2, <4>1
    <3>2. j = n \/ s(j) < s(n)
          BY <2>2
    <3>3. QED  BY <3>1, <3>2
  <2>3. \A n \in Nat : n \in U => n + 1 \in U
        BY <2>2
  <2> HIDE DEF U
  <2>4. Nat \subseteq U
        BY <2>1, <2>3, NatSetInduction
  <2>5. QED  BY <2>4 DEF U
<1>8. QED  BY <1>6, <1>7 DEF s

-----------------------------------------------------------------------------
\* What is used of the three constants of the format.
LEMMA Widths ==
    DATA_BIT \in Nat /\ DATA_BIT > 2 /\ U16 = 2 * DATA_BIT /\ MAXIMUM_PACKET_SIZE = U16
BY DEF DATA_BIT, U16, MAXIMUM_PACKET_SIZE

\* A remainder loses nothing below its divisor, and one divisor exactly.
LEMMA Remainder ==
    ASSUME NEW d \in Nat, NEW a \in Nat, a < d
    PROVE  a % d = a /\ (a + d) % d = a
OBVIOUS

\* The type bit and the length of a data packet do not disturb each other.
LEMMA DataHeader ==
    ASSUME NEW p \in DataPackets
    PROVE  /\ start(p) = p.size + 2 + DATA_BIT
           /\ start(p) % DATA_BIT = p.size + 2
           /\ FrameSize(p) = p.size + 4
           /\ p.id % U16 = p.id
<1>1. p.type = "ProxyData" /\ p.id \in 0 .. U16 - 1 /\ p.size \in 0 .. DATA_BIT - 3
      BY Widths DEF DataPackets, MaxPayload
<1>2. body_len(p) = p.size + 2
      BY <1>1 DEF body_len, IsData
<1>3. body_len(p) % U16 = p.size + 2 /\ p.id % U16 = p.id
  <2>1. U16 \in Nat /\ p.size + 2 \in Nat /\ p.size + 2 < U16 /\ p.id \in Nat /\ p.id < U16
        BY <1>1, Widths
  <2>2. QED  BY <1>2, <2>1, Remainder
<1>4. start(p) = p.size + 2 + DATA_BIT
      BY <1>1, <1>3, Widths DEF start, IsData, bitor15
<1>5. start(p) % DATA_BIT = p.size + 2
      BY <1>1, <1>4, Widths, Remainder
<1>6. QED  BY <1>1, <1>2, <1>3, <1>4, <1>5, Widths DEF FrameSize

\* The header of any other packet has a clear type bit and the right length.
LEMMA OtherHeader ==
    ASSUME NEW p \in OtherPackets
    PROVE  /\ start(p) = p.size
           /\ start(p) % DATA_BIT = p.size
           /\ FrameSize(p) = p.size + 2
<1>1. p.type # "ProxyData" /\ p.size \in 1 .. DATA_BIT - 1
      BY Widths DEF OtherPackets
<1>2. body_len(p) = p.size
      BY <1>1 DEF body_len, IsData
<1>3. start(p) = p.size /\ start(p) % DATA_BIT = p.size
  <2>1. U16 \in Nat /\ DATA_BIT \in Nat /\ p.size \in Nat /\ p.size < DATA_BIT /\ p.size < U16
        BY <1>1, Widths
  <2>2. p.size % U16 = p.size /\ p.size % DATA_BIT = p.size
        BY <2>1, Remainder
  <2>3. QED  BY <1>1, <1>2, <2>2 DEF start, IsData
<1>4. QED  BY <1>1, <1>2, <1>3, Widths DEF FrameSize

\* decode_from asks for more as long as a byte of the frame is missing, and then
\* gives back the packet that encode_into was given, of every size up to
\* MaxPayload, and moves on by exactly the bytes encode_into wrote.
THEOREM RoundTrip ==
    ASSUME NEW p \in Packets, NEW n \in Nat
    PROVE  decode_from(p, n) = IF n < FrameSize(p) THEN [is |-> "none"]
                               ELSE [is |-> "some", moved |-> FrameSize(p), packet |-> p]
<1>1. CASE p \in DataPackets
  <2>1. /\ p.size \in 0 .. DATA_BIT - 3
        /\ p = [type |-> "ProxyData", id |-> p.id, size |-> p.size]
        BY <1>1, Widths DEF DataPackets, MaxPayload
  <2>2. CASE n < FrameSize(p)
        BY <1>1, <2>1, <2>2, DataHeader, Widths DEF decode_from
  <2>3. CASE ~ (n < FrameSize(p))
    <3>1. /\ ~ (n < 2 \/ n < (start(p) % DATA_BIT) + 2)
          /\ ~ ((start(p) % DATA_BIT) > MAXIMUM_PACKET_SIZE)
          /\ start(p) >= DATA_BIT /\ ~ ((start(p) % DATA_BIT) < 2)
          BY <1>1, <2>1, <2>3, DataHeader, Widths
    <3>2. /\ (start(p) % DATA_BIT) - 2 = p.size
          /\ 2 + (start(p) % DATA_BIT) = FrameSize(p)
          BY <1>1, <2>1, DataHeader, Widths
    <3>3. QED  BY <1>1, <2>1, <2>3, <3>1, <3>2, DataHeader DEF decode_from
  <2>4. QED  BY <2>2, <2>3
<1>2. CASE p \in OtherPackets
  <2>1. p.size \in 1 .. DATA_BIT - 1
        BY <1>2, Widths DEF OtherPackets
  <2>2. CASE n < FrameSize(p)
        BY <1>2, <2>1, <2>2, OtherHeader, Widths DEF decode_from
  <2>3. CASE ~ (n < FrameSize(p))
    <3>1. /\ ~ (n < 2 \/ n < (start(p) % DATA_BIT) + 2)
          /\ ~ ((start(p) % DATA_BIT) > MAXIMUM_PACKET_SIZE)
          /\ ~ (start(p) >= DATA_BIT)
          BY <1>2, <2>1, <2>3, OtherHeader, Widths
    <3>2. start(p) % DATA_BIT = p.size /\ 2 + (start(p) % DATA_BIT) = FrameSize(p)
          BY <1>2, <2>1, OtherHeader, Widths
    <3>3. QED  BY <1>2, <2>3, <3>1, <3>2 DEF decode_from
  <2>4. QED  BY <2>2, <2>3
<1>3. QED  BY <1>1, <1>2 DEF Packets

\* No frame is empty.
LEMMA FrameSizes == \A p \in Packets : FrameSize(p) \in Nat \ {0}
<1>1. ASSUME NEW p \in DataPackets PROVE FrameSize(p) \in Nat \ {0}
  <2>1. FrameSize(p) = p.size + 4
        BY DataHeader
  <2>2. p.size \in Nat
        BY Widths DEF DataPackets, MaxPayload
  <2>3. QED  BY <2>1, <2>2
<1>2. \A p \in OtherPackets : FrameSize(p) \in Nat \ {0}
      BY OtherHeader, Widths DEF OtherPackets
<1>3. QED  BY <1>1, <1>2 DEF Packets

\* Every frame begins where the one before it ends, and later than it.
LEMMA FramesFollow ==
    ASSUME NEW packets \in Seq(Packets), NEW from \in Nat
    PROVE  /\ FrameAt(packets, from, 1) = from
           /\ \A k \in 1..Len(packets) + 1 : FrameAt(packets, from, k) \in Nat
           /\ \A k \in 1..Len(packets) :
                FrameAt(packets, from, k + 1) = FrameAt(packets, from, k) + FrameSize(packets[k])
           /\ \A j, k \in 1..Len(packets) + 1 :
                j < k => FrameAt(packets, from, j) < FrameAt(packets, from, k)
<1> DEFINE f == [i \in DOMAIN packets |-> FrameSize(packets[i])]
           m == Len(packets)
<1>1. m \in Nat /\ DOMAIN packets = 1..m
      OBVIOUS
<1>2. \A p \in Packets : FrameSize(p) \in Nat \ {0}
      BY FrameSizes
<1>3. f \in [1..m -> Nat \ {0}]
      BY <1>1, <1>2
<1>4. \A k \in Nat : FrameAt(packets, from, k) = from + SumTo(f, k - 1)
      BY DEF FrameAt
<1>5. \A k \in 1..m : f[k] = FrameSize(packets[k])
      BY <1>1
<1> HIDE DEF f, m
<1>6. SumTo(f, 0) = 0 /\ \A n \in Nat : SumTo(f, n + 1) = SumTo(f, n) + f[n + 1]
      BY SumStep
<1>7. /\ \A n \in 0..m : SumTo(f, n) \in Nat
      /\ \A j, n \in 0..m : j < n => SumTo(f, j) < SumTo(f, n)
      BY <1>1, <1>3, SumGrows
<1>8. FrameAt(packets, from, 1) = from
      BY <1>4, <1>6
<1>9. ASSUME NEW k \in 1..m + 1 PROVE FrameAt(packets, from, k) \in Nat
  <2>1. k \in Nat /\ k - 1 \in 0..m
        BY <1>1
  <2>2. SumTo(f, k - 1) \in Nat /\ FrameAt(packets, from, k) = from + SumTo(f, k - 1)
        BY <1>4, <1>7, <2>1, Zenon
  <2>3. QED  BY <2>2
<1>10. ASSUME NEW k \in 1..m
       PROVE  FrameAt(packets, from, k + 1) = FrameAt(packets, from, k) + FrameSize(packets[k])
  <2>1. SumTo(f, k) = SumTo(f, k - 1) + FrameSize(packets[k])
    <3>1. k - 1 \in Nat /\ (k - 1) + 1 = k
          BY <1>1
    <3>2. QED  BY <1>5, <1>6, <3>1
  <2>2. SumTo(f, k - 1) \in Nat /\ FrameSize(packets[k]) \in Nat
    <3>1. k - 1 \in 0..m
          BY <1>1
    <3>2. QED  BY <1>3, <1>5, <1>7, <3>1
  <2>3. FrameAt(packets, from, k + 1) = from + SumTo(f, k)
        BY <1>1, <1>4
  <2>4. QED  BY <1>1, <1>4, <2>1, <2>2, <2>3
<1>11. ASSUME NEW j \in 1..m + 1, NEW k \in 1..m + 1, j < k
       PROVE  FrameAt(packets, from, j) < FrameAt(packets, from, k)
  <2>1. j - 1 \in 0..m /\ k - 1 \in 0..m /\ j - 1 < k - 1
        BY <1>1, <1>11
  <2>2. QED  BY <1>4, <1>7, <2>1
<1>12. QED  BY <1>8, <1>9, <1>10, <1>11 DEF m
-----------------------------------------------------------------------------
(* Varints                                                                 *)

\* Min of FiniteSetsExt is what its name says, on naturals.
LEMMA MinIsLeast ==
    ASSUME NEW S, S \subseteq Nat, S # {}
    PROVE  Min(S) \in S /\ \A y \in S : Min(S) <= y
<1> DEFINE T == {n \in Nat : \A y \in S : ~ (y < n)}
<1>1. \E x \in S : \A y \in S : x <= y
  <2>1. SUFFICES ASSUME \A x \in S : \E y \in S : y < x PROVE FALSE
        OBVIOUS
  <2>2. 0 \in T
        OBVIOUS
  <2>3. \A n \in Nat : n \in T => n + 1 \in T
        BY <2>1
  <2> HIDE DEF T
  <2>4. Nat \subseteq T
        BY <2>2, <2>3, NatSetInduction
  <2>5. PICK x \in S : TRUE
        OBVIOUS
  <2>6. x + 1 \in T /\ x \in Nat
        BY <2>4
  <2>7. QED  BY <2>5, <2>6 DEF T
<1>2. QED  BY <1>1 DEF Min

\* The smaller of two numbers.
LEMMA MinOfTwo ==
    ASSUME NEW a \in Int, NEW b \in Int
    PROVE  Min({a, b}) = IF a < b THEN a ELSE b
<1> DEFINE m == IF a < b THEN a ELSE b
<1>1. m \in {a, b} /\ \A y \in {a, b} : m <= y
      OBVIOUS
<1>2. \A x \in {a, b} : (\A y \in {a, b} : x <= y) => x = m
      OBVIOUS
<1> HIDE DEF m
<1>3. Min({a, b}) = m
      BY <1>1, <1>2 DEF Min
<1>4. QED  BY <1>3 DEF m

\* The weights as numbers.
LEMMA Weights ==
    /\ Weight[1] = 1 /\ Weight[2] = 128 /\ Weight[3] = 16384
    /\ Weight[4] = 2097152 /\ Weight[5] = 268435456
BY SMT DEF Weight

\* The five groups of bits of a number.
LEMMA GroupsOf ==
    ASSUME NEW v \in Int
    PROVE  /\ Group(v, 0) = v % 128
           /\ Group(v, 1) = (v \div 128) % 128
           /\ Group(v, 2) = (v \div 16384) % 128
           /\ Group(v, 3) = (v \div 2097152) % 128
           /\ Group(v, 4) = (v \div 268435456) % 16
BY Weights, SMT DEF Group

\* A group has seven bits, the last four.
LEMMA GroupRange ==
    ASSUME NEW v \in Int, NEW i \in 0..4
    PROVE  Group(v, i) \in 0..127 /\ (i = 4 => Group(v, i) \in 0..15)
<1> DEFINE q == v \div Weight[i + 1]
<1>1. Weight[i + 1] \in Nat \ {0}
      BY Weights, SMT
<1>2. q \in Int
      BY <1>1, SMT
<1> HIDE DEF q
<1>3. q % 128 \in 0..127 /\ q % 16 \in 0..15 /\ q % 16 \in 0..127
      BY <1>2, SMT
<1>4. Group(v, i) = IF i < 4 THEN q % 128 ELSE q % 16
      BY DEF Group, q
<1>5. QED  BY <1>3, <1>4

\* A varint takes one to five bytes, and what it leaves out is 0.
LEMMA SizeRange ==
    ASSUME NEW v
    PROVE  varint_size(v) \in 1..5 /\ \A i \in varint_size(v)..4 : Group(v, i) = 0
<1> DEFINE S == {k \in 1..5 : \A i \in k..4 : Group(v, i) = 0}
<1>1. S \subseteq Nat /\ 5 \in S
      OBVIOUS
<1> HIDE DEF S
<1>2. Min(S) \in S
      BY <1>1, MinIsLeast
<1>3. QED  BY <1>2 DEF S, varint_size

\* An i32 is a number in its range.
LEMMA I32Range ==
    ASSUME NEW v \in I32
    PROVE  v \in Int /\ -2147483648 <= v /\ v <= 2147483647
<1>1. MaxI32 \in Int
      BY SMT DEF MaxI32
<1>2. v \in Int /\ -MaxI32 - 1 <= v /\ v <= MaxI32
      BY <1>1, SMT DEF I32
<1>3. QED  BY <1>2, SMT DEF MaxI32

\* Four bits, the highest of them the sign.
Top(g) == g - IF g < 8 THEN 0 ELSE 16

\* Seven bits cut off.
LEMMA CutSeven ==
    ASSUME NEW a \in Int, NEW q, NEW r, q = a \div 128, r = a % 128
    PROVE  q \in Int /\ r \in Int /\ a = 128 * q + r
BY SMT

\* Four bits of a number that needs no more, with its sign.
LEMMA CutFour ==
    ASSUME NEW q \in -8..7
    PROVE  Top(q % 16) = q
BY SMT DEF Top

\* The groups of an i32 put together.
LEMMA GroupsAddUp ==
    ASSUME NEW v \in I32
    PROVE  v = Group(v, 0) * Weight[1] + Group(v, 1) * Weight[2] + Group(v, 2) * Weight[3]
               + Group(v, 3) * Weight[4] + Top(Group(v, 4)) * Weight[5]
<1> DEFINE q1 == v \div 128
           q2 == v \div 16384
           q3 == v \div 2097152
           q4 == v \div 268435456
           g(i) == Group(v, i)
<1>1. v \in Int /\ -2147483648 <= v /\ v <= 2147483647
      BY I32Range, SMT
<1>2. v \in Int
      BY <1>1, SMT
<1>3. q2 = q1 \div 128 /\ q3 = q2 \div 128 /\ q4 = q3 \div 128 /\ q4 \in -8..7
      BY <1>1, SMT
<1>4. g(0) = v % 128 /\ g(1) = q1 % 128 /\ g(2) = q2 % 128 /\ g(3) = q3 % 128 /\ g(4) = q4 % 16
      BY <1>2, GroupsOf, SMT
<1>5. q1 = v \div 128
      OBVIOUS
<1> HIDE DEF q1, q2, q3, q4, g
<1>6. q1 \in Int /\ g(0) \in Int /\ v = 128 * q1 + g(0)
      BY <1>2, <1>4, <1>5, CutSeven, SMT
<1>7. q2 \in Int /\ g(1) \in Int /\ q1 = 128 * q2 + g(1)
      BY <1>3, <1>4, <1>6, CutSeven, SMT
<1>8. q3 \in Int /\ g(2) \in Int /\ q2 = 128 * q3 + g(2)
      BY <1>3, <1>4, <1>7, CutSeven, SMT
<1>9. q4 \in Int /\ g(3) \in Int /\ q3 = 128 * q4 + g(3)
      BY <1>3, <1>4, <1>8, CutSeven, SMT
<1>10. Top(g(4)) = q4
  <2>1. q4 \in -8..7 /\ g(4) = q4 % 16
        BY <1>3, <1>4, SMT
  <2>2. QED  BY <2>1, CutFour, Zenon
<1>11. v = g(0) * Weight[1] + g(1) * Weight[2] + g(2) * Weight[3] + g(3) * Weight[4]
             + q4 * Weight[5]
       BY <1>2, <1>6, <1>7, <1>8, <1>9, Weights, SMT
<1>12. QED  BY <1>10, <1>11 DEF g

\* put_varint writes the groups; all bytes but the last have the bit that says more follows.
LEMMA PutVarint ==
    ASSUME NEW v \in I32
    PROVE  /\ put_varint(v) \in Seq(0..255) /\ Len(put_varint(v)) = varint_size(v)
           /\ \A i \in 1..varint_size(v) :
                /\ put_varint(v)[i] = Group(v, i - 1) + IF i < varint_size(v) THEN 128 ELSE 0
                /\ put_varint(v)[i] < 128 <=> i = varint_size(v)
<1> DEFINE s == varint_size(v)
           f == put_varint(v)
<1>1. s \in 1..5 /\ s \in Nat
      BY SizeRange
<1>2. f = [i \in 1..s |-> Group(v, i - 1) + IF i < s THEN 128 ELSE 0]
      BY DEF put_varint
<1> HIDE DEF s, f
<1>3. ASSUME NEW i \in 1..s
      PROVE  f[i] = Group(v, i - 1) + (IF i < s THEN 128 ELSE 0) /\ Group(v, i - 1) \in 0..127
  <2>1. i - 1 \in 0..4
        BY <1>1
  <2>2. Group(v, i - 1) \in 0..127
        BY <2>1, I32Range, GroupRange
  <2>3. QED  BY <1>2, <2>2
<1>4. ASSUME NEW i \in 1..s PROVE f[i] \in 0..255 /\ (f[i] < 128 <=> i = s)
  <2> DEFINE g == Group(v, i - 1)
  <2>1. f[i] = g + (IF i < s THEN 128 ELSE 0) /\ g \in 0..127
        BY <1>3
  <2> HIDE DEF g
  <2>2. i < s \/ i = s
        BY <1>1
  <2>3. QED  BY <1>1, <2>1, <2>2
<1>5. f \in Seq(0..255) /\ Len(f) = s
  <2>1. f \in [1..s -> 0..255]
        BY <1>2, <1>4
  <2>2. QED  BY <1>1, <2>1, IsASeq, LenProperties
<1>6. QED  BY <1>3, <1>4, <1>5 DEF s, f
\* All bytes together are the number.
LEMMA ValueOfPut ==
    ASSUME NEW v \in I32
    PROVE  Value(put_varint(v), varint_size(v)) = v
<1> DEFINE s == varint_size(v)
           f == put_varint(v)
           t == [i \in 1..s |-> Shifted(f[i], i)]
           g(i) == Group(v, i)
           a(i) == IF i < 5 THEN g(i - 1) * Weight[i] ELSE Top(g(4)) * Weight[5]
<1>1. s \in 1..5 /\ \A i \in s..4 : g(i) = 0
      BY SizeRange
<1>2. \A i \in 1..s : f[i] = g(i - 1) + IF i < s THEN 128 ELSE 0
      BY PutVarint
<1>3. v = a(1) + a(2) + a(3) + a(4) + a(5)
      BY GroupsAddUp
<1>4. \A i \in 0..4 : g(i) \in 0..127 /\ (i = 4 => g(i) \in 0..15)
      BY GroupRange, I32Range
<1>5. Value(f, s) = SumTo(t, s)
      BY DEF Value
<1> HIDE DEF f, s, g
<1>6. \A i \in 1..s : t[i] = Shifted(f[i], i)
      OBVIOUS
<1> HIDE DEF t
<1>7. ASSUME NEW i \in 1..s PROVE t[i] = a(i)
  <2>1. CASE i < 5
    <3>1. i - 1 \in 0..4 /\ g(i - 1) \in 0..127
          BY <1>1, <1>4, <2>1
    <3>2. f[i] % 128 = g(i - 1)
          BY <1>2, <3>1
    <3>3. QED  BY <1>6, <2>1, <3>2 DEF Shifted
  <2>2. CASE i = 5
    <3>1. s = 5 /\ g(4) \in 0..15
          BY <1>1, <1>4, <2>2
    <3>2. f[5] = g(4) /\ g(4) % 16 = g(4)
          BY <1>2, <3>1
    <3>3. QED  BY <1>6, <2>2, <3>2 DEF Shifted, Top
  <2>3. QED  BY <1>1, <2>1, <2>2
<1>8. /\ SumTo(t, 0) = 0 /\ SumTo(t, 1) = SumTo(t, 0) + t[1] /\ SumTo(t, 2) = SumTo(t, 1) + t[2]
      /\ SumTo(t, 3) = SumTo(t, 2) + t[3] /\ SumTo(t, 4) = SumTo(t, 3) + t[4]
      /\ SumTo(t, 5) = SumTo(t, 4) + t[5]
  <2>1. SumTo(t, 0) = 0 /\ \A n \in Nat : SumTo(t, n + 1) = SumTo(t, n) + t[n + 1]
        BY SumStep
  <2>2. QED  BY <2>1
<1>9. /\ a(1) \in Int /\ a(2) \in Int /\ a(3) \in Int /\ a(4) \in Int /\ a(5) \in Int
  <2>1. g(0) \in Int /\ g(1) \in Int /\ g(2) \in Int /\ g(3) \in Int /\ Top(g(4)) \in Int
        BY <1>4 DEF Top
  <2>2. /\ Weight[1] \in Int /\ Weight[2] \in Int /\ Weight[3] \in Int /\ Weight[4] \in Int
        /\ Weight[5] \in Int
        BY Weights, SMT
  <2>3. QED  BY <2>1, <2>2
<1>10. /\ s < 2 => a(2) = 0
       /\ s < 3 => a(3) = 0
       /\ s < 4 => a(4) = 0
       /\ s < 5 => a(5) = 0
  <2>1. /\ s < 2 => g(1) = 0
        /\ s < 3 => g(2) = 0
        /\ s < 4 => g(3) = 0
        /\ s < 5 => g(4) = 0
        BY <1>1
  <2>2. Top(0) = 0
        BY DEF Top
  <2>3. \A w \in Int : 0 * w = 0
        OBVIOUS
  <2>4. /\ Weight[2] \in Int /\ Weight[3] \in Int /\ Weight[4] \in Int /\ Weight[5] \in Int
        BY Weights, SMT
  <2>5. QED  BY <2>1, <2>2, <2>3, <2>4
<1> HIDE DEF a
<1>11. SumTo(t, s) = v
  <2>1. s \in {1, 2, 3, 4, 5}
        BY <1>1
  <2>2. t[1] = a(1) /\ SumTo(t, 1) = a(1)
        BY <1>1, <1>7, <1>8, <1>9
  <2>3. s >= 2 => SumTo(t, 2) = a(1) + a(2)
        BY <1>1, <1>7, <1>8, <1>9, <2>2
  <2>4. s >= 3 => SumTo(t, 3) = a(1) + a(2) + a(3)
        BY <1>1, <1>7, <1>8, <1>9, <2>3
  <2>5. s >= 4 => SumTo(t, 4) = a(1) + a(2) + a(3) + a(4)
        BY <1>1, <1>7, <1>8, <1>9, <2>4
  <2>6. s >= 5 => SumTo(t, 5) = a(1) + a(2) + a(3) + a(4) + a(5)
        BY <1>1, <1>7, <1>8, <1>9, <2>5
  <2>7. QED  BY <1>3, <1>9, <1>10, <2>1, <2>2, <2>3, <2>4, <2>5, <2>6
<1>12. QED  BY <1>5, <1>11 DEF f, s

\* get_varint on the first m bytes of what put_varint wrote, m perhaps none or
\* more than it wrote: as long as one is missing it asks for more, and then gives
\* back the number, negative ones too, and moves on by exactly its bytes.
THEOREM VarintRoundTrip ==
    ASSUME NEW v \in I32, NEW m \in Int
    PROVE  get_varint(SubSeq(put_varint(v), 1, Min({m, varint_size(v)}))) =
               IF m < varint_size(v) THEN None ELSE Some(v, varint_size(v))
<1> DEFINE s == varint_size(v)
           f == put_varint(v)
           c == Min({m, s})
           bytes == SubSeq(f, 1, c)
           ends == {i \in 1..Min({5, Len(bytes)}) : bytes[i] < 128}
<1>1. s \in 1..5
      BY SizeRange
<1>2. /\ f \in Seq(0..255) /\ Len(f) = s
      /\ \A i \in 1..s : f[i] < 128 <=> i = s
      BY PutVarint
<1>3. Value(f, s) = v
      BY ValueOfPut
<1>4. get_varint(bytes) = IF ends # {} THEN Some(Value(bytes, Min(ends)), Min(ends))
                          ELSE IF Len(bytes) < 5 THEN None ELSE Err
      BY DEF get_varint
<1> HIDE DEF s, f
<1>5. c = IF m < s THEN m ELSE s
      BY <1>1, MinOfTwo
<1> HIDE DEF c
<1>6. CASE m < s
  <2>1. c = m
        BY <1>5, <1>6
  <2>2. \A i \in 1..m : i \in 1..s /\ f[i] \in 0..255
    <3>1. \A i \in 1..m : i \in 1..s
          BY <1>1, <1>6
    <3>2. \A i \in 1..Len(f) : f[i] \in 0..255
          BY <1>2, ElementOfSeq
    <3>3. QED  BY <1>2, <3>1, <3>2
  <2>3. /\ Len(bytes) = IF 1 <= m THEN m ELSE 0
        /\ \A i \in 1..m : bytes[i] = f[i]
    <3>1. /\ Len(bytes) = IF 1 <= m THEN m - 1 + 1 ELSE 0
          /\ \A i \in 1..m - 1 + 1 : bytes[i] = f[1 + i - 1]
          BY <2>1, <2>2, SubSeqProperties
    <3>2. m - 1 + 1 = m /\ \A i \in 1..m : 1 + i - 1 = i
          OBVIOUS
    <3>3. QED  BY <3>1, <3>2
  <2> HIDE DEF bytes
  <2>4. ends = {}
    <3>1. Min({5, Len(bytes)}) = Len(bytes)
      <4>1. 5 \in Int /\ Len(bytes) \in Int /\ ~ (5 < Len(bytes))
            BY <1>1, <1>6, <2>3
      <4>2. Min({5, Len(bytes)}) = IF 5 < Len(bytes) THEN 5 ELSE Len(bytes)
            BY <4>1, MinOfTwo, Zenon
      <4>3. QED  BY <4>1, <4>2
    <3>2. ASSUME NEW i \in 1..Len(bytes), bytes[i] < 128 PROVE FALSE
      <4>1. i \in 1..m /\ i \in 1..s /\ i < s
            BY <1>1, <1>6, <2>3
      <4>2. QED  BY <1>1, <1>2, <2>3, <3>2, <4>1
    <3>3. QED  BY <3>1, <3>2
  <2>5. Len(bytes) < 5
        BY <1>1, <1>6, <2>3
  <2>6. get_varint(bytes) = None
        BY <1>4, <2>4, <2>5
  <2>7. QED  BY <1>6, <2>6 DEF bytes, s, f, c
<1>7. CASE ~ (m < s)
  <2>1. c = s
        BY <1>5, <1>7
  <2>2. bytes = f
        BY <1>2, <2>1, SubSeqFull
  <2> HIDE DEF bytes
  <2>3. ends = {s}
    <3>1. Min({5, Len(bytes)}) = s
      <4>1. 5 \in Int /\ Len(bytes) \in Int /\ Len(bytes) = s /\ s <= 5
            BY <1>1, <1>2, <2>2
      <4>2. Min({5, Len(bytes)}) = IF 5 < Len(bytes) THEN 5 ELSE Len(bytes)
            BY <4>1, MinOfTwo, Zenon
      <4>3. QED  BY <4>1, <4>2
    <3>2. QED  BY <1>1, <1>2, <2>2, <3>1
  <2>4. Min(ends) = s
    <3>1. {s} \subseteq Nat /\ {s} # {}
          BY <1>1
    <3>2. Min({s}) \in {s}
          BY <3>1, MinIsLeast
    <3>3. QED  BY <2>3, <3>2
  <2>5. get_varint(bytes) = Some(v, s)
        BY <1>3, <1>4, <2>2, <2>3, <2>4
  <2>6. QED  BY <1>7, <2>5 DEF bytes, s, f, c
<1>8. QED  BY <1>6, <1>7

\* A number below 128 has one group that is not 0,
LEMMA SmallGroups ==
    ASSUME NEW v \in Int, 0 <= v, v <= 127
    PROVE  /\ Group(v, 0) = v /\ Group(v, 1) = 0 /\ Group(v, 2) = 0 /\ Group(v, 3) = 0
           /\ Group(v, 4) = 0
BY Weights, SMT DEF Group

\* and fits into one byte.
LEMMA OneByte ==
    ASSUME NEW v \in 0..127
    PROVE  v \in I32 /\ varint_size(v) = 1 /\ Group(v, 0) = v
<1> DEFINE S == {k \in 1..5 : \A i \in k..4 : Group(v, i) = 0}
<1>1. /\ Group(v, 0) = v /\ Group(v, 1) = 0 /\ Group(v, 2) = 0 /\ Group(v, 3) = 0
      /\ Group(v, 4) = 0
      BY SmallGroups
<1>2. 1 \in S /\ S \subseteq Nat
  <2>1. \A i \in 1..4 : i \in {1, 2, 3, 4}
        OBVIOUS
  <2>2. QED  BY <1>1, <2>1
<1>3. Min(S) \in S /\ Min(S) <= 1
      BY <1>2, MinIsLeast
<1>4. varint_size(v) = 1
      BY <1>3 DEF varint_size
<1>5. v \in I32
  <2>1. MaxI32 \in Int /\ MaxI32 >= 127
        BY SMT DEF MaxI32
  <2>2. QED  BY <2>1, SMT DEF I32
<1>6. QED  BY <1>1, <1>4, <1>5
=============================================================================
