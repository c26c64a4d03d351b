---------------------------- MODULE SocketProofs ----------------------------
(***************************************************************************)
(* Socket for every set of peers.  A CraftIP client: what is decoded is a  *)
(* beginning of what was sent, however the bytes are cut (FramesInv).  A   *)
(* player: what is parsed is what was sent (HelloParsed, for every hello   *)
(* and every number of bytes), and each place of the handler knows what    *)
(* has been parsed, looked up and answered (PlayerInv).                    *)
(***************************************************************************)
EXTENDS Socket, CodecProofs, SequenceTheorems

\* The places of a connection with a CraftIP client.
AgentPlaces == {"peek", "ident", "version", "frames", "gone"}

\* What has been read of a CraftIP client's bytes, and what of it is decoded.
Stream ==
    LET k == Len(decoded)
    IN  /\ sent \in Nat /\ sent <= Size[peer] /\ read \in 0..sent /\ head \in 0..read
        /\ pc \in AgentPlaces /\ packet = NoPacket /\ out = <<>>
        /\ pc = "ident" => sent >= PROXY_IDENTIFIER
        /\ k <= Len(peer.packets) /\ decoded = SubSeq(peer.packets, 1, k)
        /\ pc \in {"peek", "ident", "version"} => decoded = <<>> /\ head = 0
        /\ pc = "frames" => head = FrameStart[peer][k + 1]

FramesInv == peer \in Peers /\ (peer.kind = "agent" => Stream)

\* What the assumption says of a CraftIP client.
LEMMA AgentFacts ==
    ASSUME NEW p \in Peers, p.kind = "agent"
    PROVE  /\ p \in AgentPeers /\ p.packets \in Seq(Packets)
           /\ Len(p.packets) \in Nat /\ DOMAIN p.packets = 1..Len(p.packets)
BY PeersAssumption DEF AgentPeers

\* FrameStart holds the beginnings of frames that follow each other.
LEMMA FrameStarts ==
    ASSUME NEW p \in Peers, p.kind = "agent"
    PROVE  /\ DOMAIN FrameStart[p] = 1..Len(p.packets) + 1
           /\ FrameStart[p][1] = FramesFrom
           /\ \A k \in 1..Len(p.packets) + 1 : FrameStart[p][k] \in Nat
           /\ \A k \in 1..Len(p.packets) :
                FrameStart[p][k + 1] = FrameStart[p][k] + FrameSize(p.packets[k])
           /\ \A j, k \in 1..Len(p.packets) + 1 :
                j < k => FrameStart[p][j] < FrameStart[p][k]
<1> DEFINE m == Len(p.packets)
           F(k) == FrameAt(p.packets, FramesFrom, k)
<1>1. p \in AgentPeers /\ p.packets \in Seq(Packets) /\ m \in Nat /\ FramesFrom \in Nat
      BY AgentFacts DEF FramesFrom, PROXY_IDENTIFIER
<1>2. FrameStart[p] = [k \in 1..m + 1 |-> F(k)]
      BY <1>1 DEF FrameStart
<1>3. /\ F(1) = FramesFrom
      /\ \A k \in 1..m + 1 : F(k) \in Nat
      /\ \A k \in 1..m : F(k + 1) = F(k) + FrameSize(p.packets[k])
      /\ \A j, k \in 1..m + 1 : j < k => F(j) < F(k)
      BY <1>1, FramesFollow
<1> HIDE DEF F, m
<1>4. DOMAIN FrameStart[p] = 1..m + 1 /\ \A k \in 1..m + 1 : FrameStart[p][k] = F(k)
      BY <1>2
<1>5. \A k \in 1..m : k \in 1..m + 1 /\ k + 1 \in 1..m + 1
      BY <1>1
<1>6. 1 \in 1..m + 1
      BY <1>1
<1>7. QED  BY <1>3, <1>4, <1>5, <1>6 DEF m

\* As long as the decoder stands at the beginning of a frame, what it returns is
\* the packet of that frame if all of it has been read, and nothing otherwise.
LEMMA DecodedFrame ==
    ASSUME peer \in Peers, peer.kind = "agent",
           NEW k \in 1..Len(peer.packets), head = FrameStart[peer][k],
           read \in Nat, head <= read
    PROVE  Decoded = IF read < FrameStart[peer][k + 1] THEN [is |-> "none"]
                     ELSE [is |-> "some", moved |-> FrameSize(peer.packets[k]),
                           packet |-> peer.packets[k]]
<1> DEFINE m == Len(peer.packets)
           F == FrameStart[peer]
           here == {i \in DOMAIN peer.packets : F[i] = head}
<1>1. /\ m \in Nat /\ DOMAIN peer.packets = 1..m /\ peer.packets[k] \in Packets
      /\ k \in 1..m + 1
      BY AgentFacts
<1>2. /\ \A i \in 1..m + 1 : F[i] \in Nat
      /\ F[k + 1] = F[k] + FrameSize(peer.packets[k])
      /\ \A i, j \in 1..m + 1 : i < j => F[i] < F[j]
      BY FrameStarts
<1>3. here = {k}
  <2>1. k \in here
        BY <1>1
  <2>2. ASSUME NEW i \in here PROVE i = k
    <3>1. i \in 1..m /\ F[i] = F[k] /\ i \in 1..m + 1 /\ k \in 1..m + 1
          BY <1>1
    <3>2. ~ (i < k) /\ ~ (k < i)
          BY <1>2, <3>1
    <3>3. QED  BY <1>1, <3>1, <3>2
  <2>3. QED  BY <2>1, <2>2
<1>4. F[k] \in Nat /\ F[k + 1] \in Nat
  <2>1. k + 1 \in 1..m + 1
        BY <1>1
  <2>2. QED  BY <1>1, <1>2, <2>1
<1>5. Decoded = IF head = read THEN [is |-> "none"]
                ELSE decode_from(peer.packets[k], read - head)
  <2>1. (CHOOSE i \in here : TRUE) = k
        BY <1>3
  <2>2. here # {}
        BY <1>3
  <2>3. QED  BY <2>1, <2>2, Zenon DEF Decoded
<1>6. FrameSize(peer.packets[k]) = F[k + 1] - F[k] /\ F[k] < F[k + 1]
  <2>1. F[k] < F[k + 1]
    <3>1. k + 1 \in 1..m + 1 /\ k < k + 1
          BY <1>1
    <3>2. QED  BY <1>1, <1>2, <3>1
  <2>2. FrameSize(peer.packets[k]) \in Nat
        BY <1>1, FrameSizes
  <2>3. QED  BY <1>2, <1>4, <2>1, <2>2
<1>7. read - head \in Nat /\ (read - head < FrameSize(peer.packets[k]) <=> read < F[k + 1])
  <2>1. head = F[k]
        OBVIOUS
  <2> HIDE DEF F
  <2>2. QED  BY <1>4, <1>6, <2>1
<1>8. decode_from(peer.packets[k], read - head) =
        IF read - head < FrameSize(peer.packets[k]) THEN [is |-> "none"]
        ELSE [is |-> "some", moved |-> FrameSize(peer.packets[k]), packet |-> peer.packets[k]]
      BY <1>1, <1>7, RoundTrip
<1>9. head = read => read < F[k + 1]
      BY <1>6
<1> HIDE DEF F
<1>10. QED  BY <1>5, <1>7, <1>8, <1>9 DEF F

-----------------------------------------------------------------------------
(* MinecraftHelloPacket::new                                               *)

\* A name has a length.
LEMMA TextLength ==
    ASSUME NEW text \in Texts
    PROVE  text_len(text) \in Nat
<1> DEFINE m == Len(text.labels)
           f == [i \in DOMAIN text.labels |-> LabelSize[text.labels[i]]]
           T == {n \in Nat : n <= m => SumTo(f, n) \in Nat}
<1>1. /\ text.labels \in Seq(DOMAIN LabelSize) /\ text.labels # <<>>
      /\ text.marker \in {"none", "FML", "FORGE"}
      BY DEF Texts
<1>2. m \in Nat /\ m >= 1 /\ DOMAIN text.labels = 1..m
      BY <1>1, EmptySeq, LenProperties
<1>3. \A i \in 1..m : f[i] \in Nat
  <2>1. \A l \in DOMAIN LabelSize : LabelSize[l] \in Nat
        BY LabelAssumption
  <2>2. \A i \in 1..m : text.labels[i] \in DOMAIN LabelSize
        BY <1>1, <1>2, ElementOfSeq
  <2>3. \A i \in 1..m : f[i] = LabelSize[text.labels[i]]
        BY <1>2
  <2>4. QED  BY <2>1, <2>2, <2>3
<1>4. SumTo(f, 0) = 0 /\ \A n \in Nat : SumTo(f, n + 1) = SumTo(f, n) + f[n + 1]
      BY SumStep
<1> HIDE DEF f, m
<1>5. 0 \in T
      BY <1>4
<1>6. ASSUME NEW n \in Nat, n \in T PROVE n + 1 \in T
  <2>1. n + 1 <= m => SumTo(f, n) \in Nat /\ f[n + 1] \in Nat
        BY <1>2, <1>3, <1>6
  <2>2. SumTo(f, n + 1) = SumTo(f, n) + f[n + 1]
        BY <1>4
  <2>3. n + 1 <= m => SumTo(f, n + 1) \in Nat
        BY <2>1, <2>2
  <2>4. QED  BY <2>3
<1> HIDE DEF T
<1>7. Nat \subseteq T
      BY <1>5, <1>6, NatSetInduction
<1>8. SumTo(f, m) \in Nat
      BY <1>2, <1>7 DEF T
<1>9. MarkerSize[text.marker] \in Nat
      BY <1>1 DEF MarkerSize
<1>10. text_len(text) = SumTo(f, m) + m - 1 + MarkerSize[text.marker]
       BY DEF text_len, f, m
<1>11. QED  BY <1>2, <1>8, <1>9, <1>10

\* propagate! lets a parser return its packet if every step of it succeeds, and
\* never otherwise.
LEMMA Propagates ==
    ASSUME NEW steps, NEW n \in Nat, DOMAIN steps = 1..n, NEW result
    PROVE  IF \A i \in 1..n : steps[i].is = "some"
           THEN propagate(steps, result) = [is |-> "some", packet |-> result]
           ELSE propagate(steps, result).is # "some"
<1> DEFINE stops == {i \in DOMAIN steps : steps[i].is # "some"}
<1>1. propagate(steps, result) = IF stops = {} THEN [is |-> "some", packet |-> result]
                                 ELSE [is |-> steps[Min(stops)].is]
      BY DEF propagate
<1>2. CASE \A i \in 1..n : steps[i].is = "some"
      BY <1>1, <1>2
<1>3. CASE ~ \A i \in 1..n : steps[i].is = "some"
  <2>1. stops # {} /\ stops \subseteq Nat
        BY <1>3
  <2>2. Min(stops) \in stops
        BY <2>1, MinIsLeast
  <2>3. steps[Min(stops)].is # "some"
        BY <2>2
  <2>4. QED  BY <1>1, <1>3, <2>1, <2>3
<1>4. QED  BY <1>2, <1>3

\* What a read of a parser needs to succeed.
LEMMA Takes ==
    ASSUME NEW n \in Int, NEW at \in Int, NEW size \in Int
    PROVE  Take(n, at, size).is = "some" <=> n >= at + size
BY DEF Take, None, Some

\* A string of 16 bit characters takes its length, its characters, and one byte more.
LEMMA TakesString ==
    ASSUME NEW n \in Int, NEW at \in Int, NEW len \in Int
    PROVE  get_utf16_string(n, at, len).is = "some" <=> n >= at + 3 + 2 * len
<1>1. Take(n, at, 2 + 2 * len + 1) = None <=> n - at < 2 + 2 * len + 1
      BY DEF Take, None, Some
<1>2. QED  BY <1>1 DEF get_utf16_string, None, Some

\* A check succeeds when its condition holds.
LEMMA Checks ==
    ASSUME NEW ok \in BOOLEAN
    PROVE  Check(ok).is = "some" <=> ok
BY DEF Check, Some, Err

\* A varint is there when all its bytes are, and is the number that was written.
LEMMA TakesVarint ==
    ASSUME NEW n \in Int, NEW at \in Int, NEW v \in I32
    PROVE  LET got == get_varint(SubSeq(put_varint(v), 1, Min({n - at, varint_size(v)})))
           IN  /\ got.is = "some" <=> n >= at + varint_size(v)
               /\ got.is = "some" => got.value = v
<1> DEFINE got == get_varint(SubSeq(put_varint(v), 1, Min({n - at, varint_size(v)})))
           s == varint_size(v)
<1>1. s \in Int
      BY SizeRange
<1>2. n - at \in Int
      OBVIOUS
<1>3. got = IF n - at < s THEN None ELSE Some(v, s)
      BY <1>2, VarintRoundTrip, Zenon
<1> HIDE DEF got, s
<1>4. got.is = "some" <=> n >= at + s
      BY <1>1, <1>3 DEF None, Some
<1>5. got.is = "some" => got.value = v
      BY <1>3 DEF None, Some
<1>6. QED  BY <1>4, <1>5 DEF got, s

\* What new makes of a hello when all of it is there.
HelloPacket(h) ==
    Packet(HelloSize(h), IF h.format = "new" THEN PkgType(h.next_state) ELSE "Legacy",
           h.version, Text(h.text.labels, "none"), h.text.marker = "FORGE")

\* A text without a marker.
LEMMA PlainText ==
    ASSUME NEW text \in Texts, text.marker = "none"
    PROVE  text = Text(text.labels, "none")
BY DEF Texts, Text

\* A ping of the oldest clients.
LEMMA OldPingParsed ==
    ASSUME NEW h, IsHello(h), h.format = "old_ping", NEW n \in Nat
    PROVE  IF n >= HelloSize(h)
           THEN old_ping_pkg(h, n) = [is |-> "some", packet |-> HelloPacket(h)]
           ELSE old_ping_pkg(h, n).is # "some"
<1> DEFINE len == text_len(h.text)
           end == 27 + 3 + 2 + 2 * len + 4
           a1 == Take(n, 0, 27)
           a2 == Check(h.format = "old_ping")
           a3 == Take(n, 27, 3)
           a4 == get_utf16_string(n, 27 + 3, len)
           a5 == Check(7 + 2 * len = h.pkg_length)
           a6 == Take(n, end - 4, 4)
           steps == <<a1, a2, a3, a4, a5, a6>>
           packet0 == Packet(end, "Legacy", h.version, h.text, FALSE)
<1>1. h.text \in Texts /\ h.text.marker = "none" /\ h = OldPing(h.version, h.text)
      BY DEF IsHello
<1>2. len \in Nat
      BY <1>1, TextLength
<1>3. h.pkg_length = 7 + 2 * len
      BY <1>1 DEF OldPing
<1>4. HelloSize(h) = end
      BY DEF HelloSize, OLD_MINECRAFT_START
<1>5. packet0 = HelloPacket(h)
      BY <1>1, <1>4, PlainText DEF HelloPacket, Packet
<1>6. old_ping_pkg(h, n) = propagate(steps, packet0)
      BY DEF old_ping_pkg, OLD_MINECRAFT_START
<1>7. a1.is = "some" <=> n >= 27
      BY Takes
<1>8. a2.is = "some" /\ a5.is = "some"
      BY <1>3, Checks
<1> HIDE DEF len
<1>9. a3.is = "some" <=> n >= 30
      BY Takes
<1>10. a4.is = "some" <=> n >= 33 + 2 * len
       BY <1>2, TakesString
<1>11. a6.is = "some" <=> n >= end
       BY <1>2, Takes
<1> HIDE DEF a1, a2, a3, a4, a5, a6, packet0
<1>12. /\ DOMAIN steps = 1..6 /\ steps[1] = a1 /\ steps[2] = a2 /\ steps[3] = a3
       /\ steps[4] = a4 /\ steps[5] = a5 /\ steps[6] = a6
       OBVIOUS
<1> HIDE DEF steps
<1>13. (\A i \in 1..6 : steps[i].is = "some") <=> n >= end
  <2>1. CASE n >= end
        BY <1>2, <1>7, <1>8, <1>9, <1>10, <1>11, <1>12, <2>1
  <2>2. CASE ~ (n >= end)
        BY <1>11, <1>12, <2>2
  <2>3. QED  BY <2>1, <2>2
<1>14. IF \A i \in 1..6 : steps[i].is = "some"
       THEN propagate(steps, packet0) = [is |-> "some", packet |-> packet0]
       ELSE propagate(steps, packet0).is # "some"
       BY <1>12, Propagates
<1> HIDE DEF end
<1>15. QED  BY <1>4, <1>5, <1>6, <1>13, <1>14

\* The parser of old pings makes nothing of another packet.
LEMMA NoOldPing ==
    ASSUME NEW h, h.format # "old_ping", NEW n
    PROVE  old_ping_pkg(h, n).is # "some"
<1> DEFINE start0 == OLD_MINECRAFT_START
           end == start0 + 3 + 2 + 2 * text_len(h.text) + 4
           a1 == Take(n, 0, start0)
           a2 == Check(h.format = "old_ping")
           a3 == Take(n, start0, 3)
           a4 == get_utf16_string(n, start0 + 3, text_len(h.text))
           a5 == Check(7 + 2 * text_len(h.text) = h.pkg_length)
           a6 == Take(n, end - 4, 4)
           steps == <<a1, a2, a3, a4, a5, a6>>
           packet0 == Packet(end, "Legacy", h.version, h.text, FALSE)
<1>1. old_ping_pkg(h, n) = propagate(steps, packet0)
      BY DEF old_ping_pkg
<1>2. a2.is # "some"
      BY DEF Check, Err, Some
<1> HIDE DEF a1, a2, a3, a4, a5, a6, packet0
<1>3. DOMAIN steps = 1..6 /\ steps[2] = a2
      OBVIOUS
<1> HIDE DEF steps
<1>4. ~ \A i \in 1..6 : steps[i].is = "some"
      BY <1>2, <1>3
<1>5. IF \A i \in 1..6 : steps[i].is = "some"
      THEN propagate(steps, packet0) = [is |-> "some", packet |-> packet0]
      ELSE propagate(steps, packet0).is # "some"
      BY <1>3, Propagates
<1>6. QED  BY <1>1, <1>4, <1>5

\* A login of the oldest clients.
LEMMA OldConnectParsed ==
    ASSUME NEW h, IsHello(h), h.format = "old_connect", NEW n \in Nat
    PROVE  IF n >= HelloSize(h)
           THEN old_connect_pkg(h, n) = [is |-> "some", packet |-> HelloPacket(h)]
           ELSE old_connect_pkg(h, n).is # "some"
<1> DEFINE len == text_len(h.text)
           u == h.user
           at == 2 + 2 + 2 * u
           end == at + 2 + 2 * len + 4
           a1 == Take(n, 1, 1)
           a2 == get_utf16_string(n, 2, u)
           a3 == get_utf16_string(n, at, len)
           a4 == Take(n, end - 4, 4)
           steps == <<a1, a2, a3, a4>>
           packet0 == Packet(end, "Legacy", h.version, h.text, FALSE)
<1>1. h.text \in Texts /\ h.text.marker = "none" /\ u \in Nat
      BY DEF IsHello
<1>2. len \in Nat
      BY <1>1, TextLength
<1>3. HelloSize(h) = end
      BY <1>1, <1>2 DEF HelloSize
<1>4. packet0 = HelloPacket(h)
      BY <1>1, <1>3, PlainText DEF HelloPacket, Packet
<1>5. old_connect_pkg(h, n) = propagate(steps, packet0)
      BY DEF old_connect_pkg
<1> HIDE DEF len, u
<1>6. a1.is = "some" <=> n >= 2
      BY Takes
<1>7. a2.is = "some" <=> n >= 5 + 2 * u
      BY <1>1, TakesString
<1>8. a3.is = "some" <=> n >= at + 3 + 2 * len
      BY <1>1, <1>2, TakesString
<1>9. a4.is = "some" <=> n >= end
      BY <1>1, <1>2, Takes
<1> HIDE DEF a1, a2, a3, a4, packet0
<1>10. /\ DOMAIN steps = 1..4 /\ steps[1] = a1 /\ steps[2] = a2 /\ steps[3] = a3
       /\ steps[4] = a4
       OBVIOUS
<1> HIDE DEF steps
<1>11. (\A i \in 1..4 : steps[i].is = "some") <=> n >= end
  <2>1. CASE n >= end
        BY <1>1, <1>2, <1>6, <1>7, <1>8, <1>9, <1>10, <2>1
  <2>2. CASE ~ (n >= end)
        BY <1>9, <1>10, <2>2
  <2>3. QED  BY <2>1, <2>2
<1>12. IF \A i \in 1..4 : steps[i].is = "some"
       THEN propagate(steps, packet0) = [is |-> "some", packet |-> packet0]
       ELSE propagate(steps, packet0).is # "some"
       BY <1>10, Propagates
<1> HIDE DEF end
<1>13. QED  BY <1>3, <1>4, <1>5, <1>11, <1>12

\* The first of the first two.
LEMMA FirstOfTwo ==
    ASSUME NEW S, NEW a \in Seq(S), NEW b \in Seq(S), Len(a) >= 1, Len(b) >= 1
    PROVE  SubSeq(a \o b, 1, 2)[1] = a[1]
<1> DEFINE c == a \o b
<1>1. c \in Seq(S) /\ Len(c) >= 2 /\ c[1] = a[1]
      OBVIOUS
<1> HIDE DEF c
<1>2. SubSeq(c, 1, 2)[1] = c[1]
      BY <1>1
<1>3. QED  BY <1>1, <1>2 DEF c

\* The first byte of a varint is 2 only for the number 2, and 254 for none of one
\* byte.
LEMMA FirstByte ==
    ASSUME NEW h, IsHello(h), h.format = "new"
    PROVE  /\ FirstTwo(h)[1] # 2
           /\ h.pkg_length \in 0..127 => FirstTwo(h) # <<254, 1>>
<1> DEFINE v == h.pkg_length
           s == varint_size(v)
           f == put_varint(v)
           z == put_varint(0)
<1>1. v \in I32 /\ v # 2 /\ h.id = 0
      BY DEF IsHello
<1>2. FirstTwo(h) = SubSeq(f \o z, 1, 2)
      BY <1>1 DEF FirstTwo
<1>3. /\ f \in Seq(0..255) /\ Len(f) = s /\ s \in 1..5
      /\ f[1] = Group(v, 0) + (IF 1 < s THEN 128 ELSE 0)
      /\ f[1] < 128 <=> 1 = s
      BY <1>1, PutVarint, SizeRange
<1>4. z \in Seq(0..255) /\ Len(z) = 1
  <2>1. 0 \in I32 /\ varint_size(0) = 1
        BY OneByte
  <2>2. QED  BY <2>1, PutVarint
<1>5. Value(f, s) = v
      BY <1>1, ValueOfPut
<1> HIDE DEF v, s, f, z
<1>6. SubSeq(f \o z, 1, 2)[1] = f[1]
      BY <1>3, <1>4, FirstOfTwo
<1>7. f[1] # 2
  <2>1. SUFFICES ASSUME f[1] = 2 PROVE FALSE
        OBVIOUS
  <2>2. s = 1
        BY <1>3, <2>1
  <2> DEFINE t == [i \in 1..1 |-> Shifted(f[i], i)]
  <2>3. Value(f, 1) = SumTo(t, 1)
        BY DEF Value
  <2>4. t[1] = 2
    <3>1. t[1] = (f[1] % 128) * Weight[1]
          BY DEF Shifted
    <3>2. QED  BY <2>1, <3>1, Weights
  <2> HIDE DEF t
  <2>5. SumTo(t, 0) = 0 /\ SumTo(t, 0 + 1) = SumTo(t, 0) + t[0 + 1]
        BY SumStep
  <2>6. v = 2
        BY <1>5, <2>2, <2>3, <2>4, <2>5
  <2>7. QED  BY <1>1, <2>6
<1>8. ASSUME v \in 0..127, SubSeq(f \o z, 1, 2) = <<254, 1>> PROVE FALSE
  <2>1. s = 1
        BY <1>8, OneByte DEF s
  <2>2. f[1] < 128
        BY <1>3, <2>1
  <2>3. <<254, 1>>[1] = 254
        OBVIOUS
  <2>4. f[1] = <<254, 1>>[1]
        BY <1>6, <1>8
  <2>5. QED  BY <2>2, <2>3, <2>4
<1>9. QED  BY <1>2, <1>6, <1>7, <1>8 DEF v

\* A hello has a length.
LEMMA HelloSizes ==
    ASSUME NEW h, IsHello(h)
    PROVE  /\ HelloSize(h) \in Nat /\ HelloSize(h) >= PROXY_IDENTIFIER
           /\ ContentSize(h.version, h.text) \in Nat
<1> USE DEF PROXY_IDENTIFIER
<1> DEFINE len == text_len(h.text)
           c == ContentSize(h.version, h.text)
<1>1. len \in Nat
      BY TextLength DEF IsHello
<1>2. varint_size(h.version) \in 1..5 /\ varint_size(len) \in 1..5
      /\ varint_size(h.pkg_length) \in 1..5
      BY SizeRange
<1>3. c = 1 + varint_size(h.version) + varint_size(len) + len + 2 + 1
      BY DEF ContentSize
<1> HIDE DEF len
<1>4. c \in Nat /\ c >= 6
      BY <1>1, <1>2, <1>3
<1> HIDE DEF c
<1>5. CASE h.format = "new"
  <2>1. HelloSize(h) = varint_size(h.pkg_length) + c
        BY <1>5 DEF HelloSize, c
  <2>2. QED  BY <1>2, <1>4, <2>1 DEF c
<1>6. CASE h.format = "old_ping"
  <2>1. HelloSize(h) = 27 + 3 + 2 + 2 * len + 4
        BY <1>6 DEF HelloSize, len, OLD_MINECRAFT_START
  <2>2. QED  BY <1>1, <1>4, <2>1 DEF c
<1>7. CASE h.format = "old_connect"
  <2>1. HelloSize(h) = 2 + 2 + 2 * h.user + 2 + 2 * len + 4
        BY <1>7 DEF HelloSize, len
  <2>2. h.user \in Nat
        BY <1>7 DEF IsHello
  <2>3. QED  BY <1>1, <1>4, <2>1, <2>2 DEF c
<1>8. QED  BY <1>5, <1>6, <1>7 DEF IsHello

\* A hello of the new format, which every later client sends.
LEMMA NewParsed ==
    ASSUME NEW h, IsHello(h), h.format = "new", NEW n \in Nat
    PROVE  /\ \/ new_pkg(h, n).is # "some"
              \/ n >= HelloSize(h) /\ new_pkg(h, n) = [is |-> "some", packet |-> HelloPacket(h)]
           /\ Proper(h) /\ n >= HelloSize(h) => new_pkg(h, n).is = "some"
<1> DEFINE len == text_len(h.text)
           s1 == varint_size(h.pkg_length)
           s2 == varint_size(h.id)
           s3 == varint_size(h.version)
           s4 == varint_size(len)
           s5 == varint_size(h.next_state)
           p1 == s1
           p2 == p1 + s2
           p3 == p2 + s3
           p4 == p3 + s4
           p5 == p4 + len + 2
           varint(v, at) == get_varint(SubSeq(put_varint(v), 1, Min({n - at, varint_size(v)})))
           a1 == varint(h.pkg_length, 0)
           a2 == varint(h.id, p1)
           a3 == Check(h.id = 0)
           a4 == varint(h.version, p2)
           a5 == varint(len, p3)
           a6 == Take(n, p4, len)
           a7 == Take(n, p5 - 2, 2)
           a8 == Check(p5 = h.pkg_length)
           a9 == varint(h.next_state, p5)
           steps == <<a1, a2, a3, a4, a5, a6, a7, a8, a9>>
           packet0 == Packet(p5 + s5, PkgType(h.next_state), a4.value, split_once(h.text),
                             h.text.marker = "FORGE")
<1>1. /\ h.text \in Texts /\ len \in I32 /\ h.id = 0
      /\ h.pkg_length \in I32 /\ h.version \in I32 /\ h.next_state \in 0..127
      BY DEF IsHello
<1>2. len \in Nat
      BY <1>1, TextLength
<1>3. s1 \in 1..5 /\ s3 \in 1..5 /\ s4 \in 1..5
      BY SizeRange
<1>4. s2 = 1 /\ s5 = 1 /\ h.next_state \in I32 /\ h.id \in I32
  <2>1. 0 \in 0..127
        OBVIOUS
  <2>2. QED  BY <1>1, <2>1, OneByte
<1>5. HelloSize(h) = s1 + (1 + s3 + s4 + len + 2 + 1)
      BY DEF HelloSize, ContentSize
<1>6. new_pkg(h, n) = propagate(steps, packet0)
      BY DEF new_pkg
<1>7. Proper(h) => h.pkg_length = 1 + s3 + s4 + len + 2 + 1 /\ s1 = 1
  <2>1. SUFFICES ASSUME Proper(h) PROVE h.pkg_length = 1 + s3 + s4 + len + 2 + 1 /\ s1 = 1
        OBVIOUS
  <2>2. h.pkg_length = 1 + s3 + s4 + len + 2 + 1 /\ h.pkg_length < 128
        BY <2>1 DEF Proper, ContentSize
  <2>3. h.pkg_length \in 0..127
    <3> HIDE DEF s3, s4, len
    <3>1. QED  BY <1>2, <1>3, <2>2
  <2>4. QED  BY <2>2, <2>3, OneByte
<1> HIDE DEF len, s1, s2, s3, s4, s5
<1>8. p1 \in Int /\ p2 \in Int /\ p3 \in Int /\ p4 \in Int /\ p5 \in Int
      BY <1>2, <1>3, <1>4
<1>9. HelloSize(h) = p5 + s5
      BY <1>2, <1>3, <1>4, <1>5
<1>10. Proper(h) => h.pkg_length = p5
       BY <1>2, <1>3, <1>4, <1>7
<1>11. p2 = p1 + s2 /\ p3 = p2 + s3 /\ p4 = p3 + s4 /\ p5 = p4 + len + 2 /\ p1 = s1
       OBVIOUS
<1> HIDE DEF p1, p2, p3, p4, p5
<1> DEFINE got(v, at) == varint(v, at).is = "some"
<1>12. ASSUME NEW v \in I32, NEW at \in Int
       PROVE  /\ got(v, at) <=> n >= at + varint_size(v)
              /\ got(v, at) => varint(v, at).value = v
  <2>1. n \in Int
        OBVIOUS
  <2>2. QED  BY <2>1, TakesVarint, Zenon
<1>13. 0 \in Int /\ h.pkg_length \in I32 /\ h.id \in I32 /\ h.version \in I32 /\ len \in I32
       /\ h.next_state \in I32
       BY <1>1, <1>4
<1>14. a1.is = "some" <=> n >= 0 + s1
       BY <1>12, <1>13, Zenon DEF s1
<1>15. a2.is = "some" <=> n >= p1 + s2
       BY <1>8, <1>12, <1>13, Zenon DEF s2
<1>16. /\ a4.is = "some" <=> n >= p2 + s3
       /\ a4.is = "some" => a4.value = h.version
       BY <1>8, <1>12, <1>13, Zenon DEF s3
<1>17. a5.is = "some" <=> n >= p3 + s4
       BY <1>8, <1>12, <1>13, Zenon DEF s4
<1>18. a9.is = "some" <=> n >= p5 + s5
       BY <1>8, <1>12, <1>13, Zenon DEF s5
<1>19. a3.is = "some"
       BY <1>1, Checks
<1>20. a6.is = "some" <=> n >= p4 + len
       BY <1>2, <1>8, Takes
<1>21. a7.is = "some" <=> n >= p5
       BY <1>8, Takes
<1>22. a8.is = "some" <=> p5 = h.pkg_length
       BY Checks
<1> HIDE DEF varint, a1, a2, a3, a4, a5, a6, a7, a8, a9
<1>23. /\ DOMAIN steps = 1..9 /\ steps[1] = a1 /\ steps[2] = a2 /\ steps[3] = a3
       /\ steps[4] = a4 /\ steps[5] = a5 /\ steps[6] = a6 /\ steps[7] = a7 /\ steps[8] = a8
       /\ steps[9] = a9
       OBVIOUS
<1> HIDE DEF steps
<1>24. IF \A i \in 1..9 : steps[i].is = "some"
       THEN propagate(steps, packet0) = [is |-> "some", packet |-> packet0]
       ELSE propagate(steps, packet0).is # "some"
       BY <1>23, Propagates
<1>25. ASSUME \A i \in 1..9 : steps[i].is = "some"
       PROVE  n >= HelloSize(h) /\ packet0 = HelloPacket(h)
  <2>1. a9.is = "some" /\ a4.is = "some"
        BY <1>23, <1>25
  <2>2. n >= HelloSize(h)
        BY <1>9, <1>18, <2>1
  <2>3. a4.value = h.version
        BY <1>16, <2>1
  <2>4. QED  BY <1>9, <2>2, <2>3 DEF HelloPacket, Packet, split_once
<1>26. ASSUME Proper(h), n >= HelloSize(h)
       PROVE  \A i \in 1..9 : steps[i].is = "some"
  <2>1. n >= p5 + s5
        BY <1>9, <1>26
  <2>2. /\ a1.is = "some" /\ a2.is = "some" /\ a4.is = "some" /\ a5.is = "some"
        /\ a6.is = "some" /\ a7.is = "some" /\ a9.is = "some"
        BY <1>2, <1>3, <1>4, <1>8, <1>11, <1>14, <1>15, <1>16, <1>17, <1>18, <1>20, <1>21, <2>1
  <2>3. a8.is = "some"
        BY <1>10, <1>22, <1>26
  <2>4. \A i \in 1..9 : i \in {1, 2, 3, 4, 5, 6, 7, 8, 9}
        OBVIOUS
  <2>5. QED  BY <1>19, <1>23, <2>2, <2>3, <2>4
<1> HIDE DEF packet0
<1>27. QED  BY <1>6, <1>24, <1>25, <1>26

\* MinecraftHelloPacket::new on n bytes of a hello that a client may send: it
\* returns a packet only if all of the hello is there, and then the one that was
\* sent; and it does so for every proper hello.
THEOREM HelloParsed ==
    ASSUME NEW h, IsHello(h), NEW n \in Nat
    PROVE  /\ \/ new(h, n).is # "some"
              \/ n >= HelloSize(h) /\ new(h, n) = [is |-> "some", packet |-> HelloPacket(h)]
           /\ Proper(h) /\ n >= HelloSize(h) => new(h, n).is = "some"
<1>1. HelloSize(h) \in Nat /\ HelloSize(h) >= 2
      BY HelloSizes DEF PROXY_IDENTIFIER
<1>2. h.format \in {"new", "old_ping", "old_connect"}
      BY DEF IsHello
<1>3. CASE n < 2
      BY <1>1, <1>3 DEF new
<1>4. CASE ~ (n < 2) /\ h.format = "old_ping"
  <2>1. FirstTwo(h) = <<254, 1>>
        BY <1>4 DEF FirstTwo
  <2>2. new(h, n) = old_ping_pkg(h, n)
        BY <1>4, <2>1 DEF new
  <2>3. QED  BY <1>4, <2>2, OldPingParsed
<1>5. CASE ~ (n < 2) /\ h.format = "old_connect"
  <2>1. FirstTwo(h) = <<2, h.version>>
        BY <1>5 DEF FirstTwo
  <2>2. FirstTwo(h)[1] = 2 /\ FirstTwo(h) # <<254, 1>>
        BY <2>1
  <2>3. new(h, n) = old_connect_pkg(h, n)
        BY <1>5, <2>2 DEF new
  <2>4. QED  BY <1>5, <2>3, OldConnectParsed
<1>6. CASE ~ (n < 2) /\ h.format = "new"
  <2>1. FirstTwo(h)[1] # 2 /\ (h.pkg_length \in 0..127 => FirstTwo(h) # <<254, 1>>)
        BY <1>6, FirstByte
  <2>2. CASE FirstTwo(h) = <<254, 1>>
    <3>1. new(h, n) = old_ping_pkg(h, n) /\ h.format # "old_ping"
          BY <1>6, <2>2 DEF new
    <3>2. new(h, n).is # "some"
          BY <3>1, NoOldPing
    <3>3. ~ Proper(h)
      <4>1. SUFFICES ASSUME Proper(h) PROVE h.pkg_length \in 0..127
            BY <2>1, <2>2
      <4>2. h.pkg_length = ContentSize(h.version, h.text) /\ h.pkg_length < 128
            BY <1>6, <4>1 DEF Proper
      <4>3. ContentSize(h.version, h.text) \in Nat
            BY HelloSizes
      <4>4. QED  BY <4>2, <4>3
    <3>4. QED  BY <3>2, <3>3
  <2>3. CASE FirstTwo(h) # <<254, 1>>
    <3>1. new(h, n) = new_pkg(h, n)
          BY <1>6, <2>1, <2>3 DEF new
    <3>2. QED  BY <1>6, <3>1, NewParsed
  <2>4. QED  BY <2>2, <2>3
<1>7. QED  BY <1>2, <1>3, <1>4, <1>5, <1>6

-----------------------------------------------------------------------------
\* The piece that arrives is longer than nothing and ends at a number.
LEMMA AgentCuts ==
    ASSUME NEW p \in Peers, p.kind = "agent", NEW c \in Cuts[p]
    PROVE  c \in Int
<1> DEFINE F == FrameStart[p]
<1>1. p \in AgentPeers
      BY AgentFacts
<1>2. c \in {1, PROXY_IDENTIFIER, FramesFrom - 1} \cup
           {x \in {F[k] + d : k \in DOMAIN F, d \in -1..3} : x <= Size[p]}
      BY <1>1 DEF Cuts
<1>3. \A k \in DOMAIN F : F[k] \in Nat
      BY FrameStarts
<1> HIDE DEF F
<1>4. \A x \in {F[k] + d : k \in DOMAIN F, d \in -1..3} : x \in Int
      BY <1>3
<1>5. QED  BY <1>2, <1>4 DEF FramesFrom, PROXY_IDENTIFIER

\* All of a CraftIP client ends where a frame after its last would begin.
LEMMA AgentSize ==
    ASSUME NEW p \in Peers, p.kind = "agent"
    PROVE  Size[p] = FrameStart[p][Len(p.packets) + 1] /\ Size[p] \in Nat
<1>1. p \in AgentPeers /\ Len(p.packets) \in Nat
      BY AgentFacts
<1>2. Size[p] = FrameStart[p][Len(p.packets) + 1]
      BY <1>1 DEF Size
<1>3. Len(p.packets) + 1 \in 1..Len(p.packets) + 1
      BY <1>1
<1>4. QED  BY <1>2, <1>3, FrameStarts

\* Nothing has arrived and nothing is decoded.
LEMMA FramesInit == Init => FramesInv
<1>1. SUFFICES ASSUME Init, peer.kind = "agent" PROVE Stream
      BY DEF Init, FramesInv
<1>2. /\ Len(decoded) = 0 /\ decoded = <<>> /\ sent = 0 /\ read = 0 /\ pc = "peek"
      /\ head = 0 /\ out = <<>> /\ packet = NoPacket
      BY <1>1 DEF Init
<1>3. SubSeq(peer.packets, 1, 0) = <<>>
      BY SubSeqEmpty
<1>4. Len(peer.packets) \in Nat /\ Size[peer] \in Nat
      BY <1>1, AgentFacts, AgentSize DEF Init
<1>5. QED  BY <1>2, <1>3, <1>4 DEF Stream, AgentPlaces

\* One more packet.
LEMMA OneMore ==
    ASSUME NEW S, NEW s \in Seq(S), NEW k \in Nat, k < Len(s)
    PROVE  /\ Append(SubSeq(s, 1, k), s[k + 1]) = SubSeq(s, 1, k + 1)
           /\ Len(Append(SubSeq(s, 1, k), s[k + 1])) = k + 1
<1>1. 1 \in 1..Len(s) /\ k + 1 \in 1..Len(s) /\ (k + 1) - 1 = k
      BY LenProperties
<1>2. SubSeq(s, 1, k + 1) = SubSeq(s, 1, k) \o <<s[k + 1]>>
      BY <1>1, SubSeqRecursiveSecond
<1>3. \A i \in 1..k : s[i] \in S
      BY <1>1
<1>4. SubSeq(s, 1, k) \in Seq(S) /\ Len(SubSeq(s, 1, k)) = k
      BY <1>3, SubSeqProperties
<1>5. s[k + 1] \in S
      BY <1>1
<1>6. QED  BY <1>2, <1>4, <1>5, AppendIsConcat, AppendProperties

\* Every step reads on in the stream, or decodes the packet that is next in it.
LEMMA FramesNext == FramesInv /\ [Next]_vars => FramesInv'
<1> SUFFICES ASSUME FramesInv, [Next]_vars PROVE FramesInv'
    OBVIOUS
<1> USE DEF FramesInv
<1>1. peer' = peer
      BY DEF Next, Handler, vars, Peek, ReadIdentifier, ReadVersion, ReadFails, ReadHello, Lookup,
             Answer, ReadPing, EndOfPing, Pong, Decode, ReadFrames, EndOfFrames, TimeOut, Arrive,
             PeerCloses, RegisterChanges
<1>2. SUFFICES ASSUME peer.kind = "agent" PROVE Stream'
      BY <1>1
<1>3. Stream /\ peer \in Peers
      BY <1>2
<1> DEFINE k == Len(decoded)
           m == Len(peer.packets)
<1>4. m \in Nat /\ peer.packets \in Seq(Packets)
      BY <1>2, <1>3, AgentFacts
<1>5. /\ sent \in Nat /\ read \in Nat /\ read <= sent /\ pc \in AgentPlaces /\ k \in Nat /\ k <= m
      /\ head \in Nat /\ head <= read
      /\ decoded = SubSeq(peer.packets, 1, k)
  <2>1. sent \in Nat /\ read \in Nat /\ read <= sent /\ pc \in AgentPlaces /\ k <= m
        /\ head \in Nat /\ head <= read
        /\ decoded = SubSeq(peer.packets, 1, k)
        BY <1>3 DEF Stream
  <2>2. k \in Nat
        BY <1>3, <1>4, <2>1 DEF Stream
  <2>3. QED  BY <2>1, <2>2
<1>6. CASE UNCHANGED <<sent, read, pc, decoded, head, packet, out>>
      BY <1>1, <1>3, <1>6 DEF Stream
<1>7. CASE Arrive
  <2>1. /\ sent' \in Cuts[peer] /\ sent < sent' /\ sent' <= Size[peer]
        /\ UNCHANGED <<read, pc, decoded, head, packet, out>>
        BY <1>2, <1>7 DEF Arrive, Sendable
  <2>2. sent' \in Nat
    <3>1. sent' \in Int
          BY <1>2, <1>3, <2>1, AgentCuts
    <3>2. QED  BY <1>5, <2>1, <3>1
  <2>3. pc = "ident" => sent' >= PROXY_IDENTIFIER
        BY <1>3, <1>5, <2>1, <2>2 DEF Stream, PROXY_IDENTIFIER
  <2>4. read' \in 0..sent'
        BY <1>5, <2>1, <2>2
  <2>5. QED  BY <1>1, <1>3, <2>1, <2>2, <2>3, <2>4 DEF Stream
<1>8. CASE Peek
      BY <1>1, <1>2, <1>3, <1>8 DEF Peek, Goto, Stream, AgentPlaces
<1>9. CASE ReadIdentifier
      BY <1>1, <1>3, <1>9 DEF ReadIdentifier, Goto, Stream, AgentPlaces, PROXY_IDENTIFIER
<1>10. CASE ReadVersion
  <2>1. /\ pc = "version" /\ sent >= FramesFrom /\ UNCHANGED <<sent, decoded, packet, out>>
        /\ read' = FramesFrom /\ head' = FramesFrom /\ pc' = "frames"
        BY <1>10 DEF ReadVersion, Goto
  <2>2. decoded = <<>> /\ k = 0
        BY <1>3, <2>1 DEF Stream
  <2>3. FrameStart[peer][1] = FramesFrom
        BY <1>2, <1>3, FrameStarts
  <2>4. FramesFrom \in 0..sent
        BY <1>5, <2>1 DEF FramesFrom, PROXY_IDENTIFIER
  <2>5. QED  BY <1>1, <1>3, <1>5, <2>1, <2>2, <2>3, <2>4 DEF Stream, AgentPlaces
<1>11. CASE UNCHANGED <<sent, read, decoded, head, packet, out>> /\ pc' = "gone"
       BY <1>1, <1>3, <1>11 DEF Stream, AgentPlaces
<1>12. CASE Decode
  <2>1. /\ pc = "frames" /\ Decoded.is # "none" /\ UNCHANGED <<sent, read, packet, out>>
        BY <1>12 DEF Decode
  <2>2. CASE Decoded.is # "some"
        BY <1>11, <1>12, <2>1, <2>2 DEF Decode
  <2>3. CASE Decoded.is = "some"
    <3>1. /\ decoded' = Append(decoded, Decoded.packet)
          /\ head' = head + Decoded.moved /\ pc' = pc
          BY <1>12, <2>3 DEF Decode
    <3>2. head = FrameStart[peer][k + 1] /\ head <= read
          BY <1>3, <1>5, <2>1 DEF Stream
    <3>3. k < m
      <4>1. SUFFICES ASSUME k = m PROVE FALSE
            BY <1>4, <1>5
      <4>2. {i \in DOMAIN peer.packets : FrameStart[peer][i] = head} = {}
        <5>1. ASSUME NEW i \in 1..m, FrameStart[peer][i] = head PROVE FALSE
          <6>1. i \in 1..m + 1 /\ m + 1 \in 1..m + 1 /\ i < m + 1
                BY <1>4
          <6>2. FrameStart[peer][i] < FrameStart[peer][m + 1] /\ FrameStart[peer][i] \in Nat
                BY <1>2, <1>3, <6>1, FrameStarts
          <6>3. QED  BY <3>2, <4>1, <5>1, <6>2
        <5>2. DOMAIN peer.packets = 1..m
              BY <1>2, <1>3, AgentFacts
        <5>3. QED  BY <5>1, <5>2
      <4>3. Decoded.is \in {"none", "err"}
            BY <4>2, Zenon DEF Decoded
      <4>4. QED  BY <2>3, <4>3
    <3>4. k + 1 \in 1..m /\ k + 2 \in 1..m + 1
          BY <1>4, <1>5, <3>3
    <3>5. /\ Decoded.packet = peer.packets[k + 1]
          /\ Decoded.moved = FrameSize(peer.packets[k + 1])
          /\ ~ (read < FrameStart[peer][(k + 1) + 1])
          BY <1>2, <1>3, <1>5, <2>3, <3>2, <3>4, DecodedFrame
    <3>6. /\ decoded' = SubSeq(peer.packets, 1, k + 1) /\ Len(decoded') = k + 1
          BY <1>4, <1>5, <3>1, <3>3, <3>5, OneMore
    <3>7. FrameStart[peer][k + 2] = head + Decoded.moved /\ FrameStart[peer][k + 2] \in Nat
      <4>1. FrameStart[peer][(k + 1) + 1] = FrameStart[peer][k + 1] + FrameSize(peer.packets[k + 1])
            BY <1>2, <1>3, <3>4, FrameStarts
      <4>2. FrameStart[peer][k + 2] \in Nat
            BY <1>2, <1>3, <3>4, FrameStarts
      <4>3. (k + 1) + 1 = k + 2
            BY <1>5
      <4>4. QED  BY <3>2, <3>5, <4>1, <4>2, <4>3
    <3>8. head' = FrameStart[peer][Len(decoded') + 1] /\ head' \in 0..read
      <4>1. Len(decoded') + 1 = k + 2 /\ (k + 1) + 1 = k + 2
            BY <1>5, <3>6
      <4>2. QED  BY <1>5, <3>1, <3>5, <3>7, <4>1
    <3>9. Len(decoded') <= m /\ decoded' = SubSeq(peer.packets, 1, Len(decoded'))
          BY <1>4, <1>5, <3>3, <3>6
    <3>10. QED  BY <1>1, <1>3, <2>1, <3>1, <3>8, <3>9 DEF Stream
  <2>4. QED  BY <2>2, <2>3
<1>13. CASE ReadFrames
  <2>1. pc = "frames" /\ read' = sent /\ UNCHANGED <<sent, pc, decoded, head, packet, out>>
        BY <1>13 DEF ReadFrames
  <2>2. head \in 0..sent
        BY <1>5
  <2>3. QED  BY <1>1, <1>3, <1>5, <2>1, <2>2 DEF Stream
<1>14. CASE ReadFails \/ TimeOut \/ EndOfFrames
       BY <1>11, <1>14 DEF ReadFails, TimeOut, EndOfFrames
<1>15. CASE ReadHello \/ Lookup \/ Answer \/ ReadPing \/ EndOfPing \/ Pong
       BY <1>5, <1>15
          DEF AgentPlaces, ReadHello, Lookup, Answer, ReadPing, EndOfPing, Pong, Goto
<1>16. CASE \/ \E how \in {"closed", "reset"} : PeerCloses(how)
            \/ \E h \in Hosts : RegisterChanges(h)
            \/ UNCHANGED vars
       BY <1>6, <1>16 DEF PeerCloses, RegisterChanges, vars
<1>17. QED  BY <1>7, <1>8, <1>9, <1>10, <1>12, <1>13, <1>14, <1>15, <1>16 DEF Next, Handler

\* However the bytes of a CraftIP client are cut, what comes out of the frames is
\* what it put in, packet by packet, and PacketCodec::decode never asks for more
\* while a whole frame is in its buffer: for every sequence of packets, of every
\* size encode_into can carry.
THEOREM FramesOrdered == Spec => []FramesInOrder
<1>1. FramesInv => FramesInOrder
  <2> SUFFICES ASSUME FramesInv, peer.kind = "agent" PROVE FramesInOrder
      BY DEF FramesInOrder
  <2> DEFINE k == Len(decoded)
             m == Len(peer.packets)
  <2>1. peer \in Peers /\ Stream
        BY DEF FramesInv
  <2>2. m \in Nat /\ k \in Nat /\ read \in Nat
        BY <2>1, AgentFacts DEF Stream
  <2>3. ASSUME pc = "frames", Decoded.is = "none", k < m
        PROVE  read < FrameStart[peer][k + 2]
    <3>1. k + 1 \in 1..m /\ (k + 1) + 1 = k + 2
          BY <2>2, <2>3
    <3>2. head = FrameStart[peer][k + 1] /\ head <= read
          BY <2>1, <2>3 DEF Stream
    <3>3. Decoded = IF read < FrameStart[peer][(k + 1) + 1] THEN [is |-> "none"]
                    ELSE [is |-> "some", moved |-> FrameSize(peer.packets[k + 1]),
                          packet |-> peer.packets[k + 1]]
          BY <2>1, <2>2, <3>1, <3>2, DecodedFrame
    <3>4. QED  BY <2>3, <3>1, <3>3
  <2>4. QED  BY <2>1, <2>3 DEF FramesInOrder, Stream
<1>2. QED  BY <1>1, FramesInit, FramesNext, PTL DEF Spec

-----------------------------------------------------------------------------
(* clean_up_hostname                                                       *)

\* Max of FiniteSetsExt is what its name says, on naturals with a bound.
LEMMA MaxIsGreatest ==
    ASSUME NEW n \in Nat, NEW S, S \subseteq 0..n, S # {}
    PROVE  Max(S) \in S /\ \A y \in S : Max(S) >= y
<1> DEFINE T == {n - y : y \in S}
<1>1. T \subseteq Nat /\ T # {}
  <2>1. ASSUME NEW y \in S PROVE n - y \in Nat
        OBVIOUS
  <2>2. QED  BY <2>1
<1>2. Min(T) \in T /\ \A y \in T : Min(T) <= y
      BY <1>1, MinIsLeast
<1>3. PICK x \in S : Min(T) = n - x
      BY <1>2
<1>4. \A y \in S : n - x <= n - y
      BY <1>2, <1>3
<1>5. \A y \in S : x >= y
      BY <1>4
<1>6. QED  BY <1>5 DEF Max

\* The labels spell the host from position at + 1 on.
SpelledAt(labels, host, at) ==
    /\ at = 1 => labels[1] \in RandomLabels
    /\ at + Len(host) <= Len(labels)
    /\ host = SubSeq(labels, at + 1, at + Len(host))
    /\ \A i \in DOMAIN labels : i > at + Len(host) => labels[i] = EmptyLabel

\* Only empty labels stand behind the mth.
EndsAt(labels, m) ==
    /\ m = 1 \/ labels[m] # EmptyLabel
    /\ \A i \in 1..Len(labels) : i > m => labels[i] = EmptyLabel

\* Of the labels of a name, TrimDots keeps those up to one that is not empty, and
\* only empty ones stand behind it.
LEMMA Trimmed ==
    ASSUME NEW S, NEW labels \in Seq(S), labels # <<>>
    PROVE  \E m \in 1..Len(labels) :
             TrimDots(labels) = SubSeq(labels, 1, m) /\ EndsAt(labels, m)
<1> DEFINE n == Len(labels)
           full(i) == labels[i] # EmptyLabel
           U == {1} \cup {i \in DOMAIN labels : full(i)}
<1>1. n \in Nat /\ n >= 1 /\ DOMAIN labels = 1..n
      BY EmptySeq, LenProperties
<1>2. TrimDots(labels) = SubSeq(labels, 1, Max(U))
      BY DEF TrimDots
<1> HIDE DEF n, full
<1>3. U \subseteq 0..n /\ U # {}
      BY <1>1
<1>4. Max(U) \in U /\ \A y \in U : Max(U) >= y
      BY <1>1, <1>3, MaxIsGreatest
<1>5. Max(U) \in 1..n /\ (Max(U) = 1 \/ full(Max(U)))
      BY <1>1, <1>4
<1>6. ASSUME NEW i \in 1..n, i > Max(U) PROVE ~ full(i)
      BY <1>1, <1>4, <1>5, <1>6
<1> HIDE DEF U
<1>7. QED  BY <1>2, <1>5, <1>6, Zenon DEF n, full, EndsAt

\* A name that spells a host has its last label at the end of that host.
LEMMA SpelledEnd ==
    ASSUME NEW S, NEW labels \in Seq(S), NEW host \in Seq(S), host # <<>>,
           host[Len(host)] # EmptyLabel, NEW at \in {0, 1}, SpelledAt(labels, host, at),
           NEW m \in 1..Len(labels), EndsAt(labels, m)
    PROVE  m = at + Len(host) /\ host[1] = labels[at + 1]
<1> DEFINE q == Len(host)
           n == Len(labels)
<1> USE DEF SpelledAt, EndsAt
<1>1. q \in Nat /\ q >= 1 /\ n \in Nat /\ DOMAIN labels = 1..n
      BY EmptySeq, LenProperties
<1>2. \A i \in at + 1 .. at + q : labels[i] \in S
      BY <1>1
<1>3. \A i \in 1 .. (at + q) - (at + 1) + 1 : host[i] = labels[(at + 1) + i - 1]
  <2> DEFINE lo == at + 1
             hi == at + q
  <2>1. lo \in Int /\ hi \in Int
        BY <1>1
  <2>2. host = SubSeq(labels, lo, hi) /\ \A i \in lo..hi : labels[i] \in S
        BY <1>2
  <2> HIDE DEF lo, hi
  <2>3. \A i \in 1 .. hi - lo + 1 : SubSeq(labels, lo, hi)[i] = labels[lo + i - 1]
        BY <2>1, <2>2, SubSeqProperties
  <2>4. QED  BY <2>2, <2>3, Zenon DEF lo, hi
<1>4. q \in 1 .. (at + q) - (at + 1) + 1 /\ 1 \in 1 .. (at + q) - (at + 1) + 1
      BY <1>1
<1>5. (at + 1) + q - 1 = at + q /\ (at + 1) + 1 - 1 = at + 1
      BY <1>1
<1>6. host[q] = labels[at + q] /\ host[1] = labels[at + 1]
      BY <1>3, <1>4, <1>5
<1>7. at + q <= m
      BY <1>1, <1>6
<1>8. ~ (at + q < m)
      BY <1>1
<1>9. QED  BY <1>1, <1>6, <1>7, <1>8

\* clean_up_hostname makes a host of a name exactly if the name spells that host.
LEMMA Cleaned ==
    ASSUME NEW labels \in Seq(DOMAIN LabelSize), labels # <<>>, NEW host \in Hosts
    PROVE  LET text == clean_up_hostname(Text(labels, "none"))
           IN  text.marker = "none" /\ (text.labels = host <=> Spells(labels, host))
<1> DEFINE text == clean_up_hostname(Text(labels, "none"))
           n == Len(labels)
           q == Len(host)
           D == DOMAIN LabelSize
<1>1. /\ host \in Seq(D) /\ host # <<>> /\ host[1] \notin RandomLabels /\ host[q] # EmptyLabel
      /\ EmptyLabel \notin RandomLabels
      BY HostsAssumption, LabelAssumption
<1>2. /\ n \in Nat /\ n >= 1 /\ DOMAIN labels = 1..n /\ q \in Nat /\ q >= 1
      /\ 1 \in 1..n
      BY <1>1, EmptySeq, LenProperties
<1>3. PICK m \in 1..n : TrimDots(labels) = SubSeq(labels, 1, m) /\ EndsAt(labels, m)
      BY Trimmed
<1> DEFINE short == SubSeq(labels, 1, m)
<1>4. \A i \in 1..m : labels[i] \in D
      BY <1>2
<1>5. short \in Seq(D) /\ Len(short) = m /\ short[1] = labels[1]
  <2>1. /\ short \in Seq(D) /\ Len(short) = m
        /\ \A i \in 1 .. m - 1 + 1 : short[i] = labels[1 + i - 1]
        BY <1>4, SubSeqProperties
  <2>2. 1 \in 1 .. m - 1 + 1 /\ 1 + 1 - 1 = 1
        OBVIOUS
  <2>3. QED  BY <2>1, <2>2
<1>6. text = IF labels[1] \notin RandomLabels THEN Text(short, "none")
             ELSE IF m > 1 THEN Text(Tail(short), "none") ELSE Text(<<EmptyLabel>>, "none")
      BY <1>3, <1>5 DEF clean_up_hostname, Text
<1>7. ASSUME NEW at \in {0, 1}, SpelledAt(labels, host, at)
      PROVE  m = at + q /\ (at = 0 <=> labels[1] \notin RandomLabels)
  <2>1. m = at + q /\ host[1] = labels[at + 1]
        BY <1>1, <1>3, <1>7, SpelledEnd
  <2>2. at = 0 => labels[1] \notin RandomLabels
        BY <1>1, <2>1
  <2>3. QED  BY <1>7, <2>1, <2>2 DEF SpelledAt
<1>8. ASSUME NEW at \in {0, 1}, at = 1 => labels[1] \in RandomLabels,
             host = SubSeq(labels, at + 1, m), m = at + q
      PROVE  Spells(labels, host)
  <2>1. at + q <= n /\ host = SubSeq(labels, at + 1, at + q)
        BY <1>2, <1>8
  <2>2. \A i \in DOMAIN labels : i > at + q => labels[i] = EmptyLabel
        BY <1>2, <1>3, <1>8 DEF EndsAt
  <2>3. QED  BY <1>8, <2>1, <2>2, Zenon DEF Spells
<1> HIDE DEF text, short
<1>9. CASE labels[1] \notin RandomLabels
  <2>1. text = Text(short, "none")
        BY <1>6, <1>9
  <2>2. ASSUME short = host PROVE Spells(labels, host)
    <3>1. host = SubSeq(labels, 0 + 1, m) /\ m = 0 + q
          BY <1>2, <1>5, <2>2 DEF short
    <3>2. QED  BY <1>8, <3>1
  <2>3. ASSUME Spells(labels, host) PROVE short = host
    <3>1. PICK at \in {0, 1} : SpelledAt(labels, host, at)
          BY <2>3 DEF Spells, SpelledAt
    <3>2. at = 0 /\ m = at + q
          BY <1>7, <1>9, <3>1
    <3>3. QED  BY <1>2, <3>1, <3>2 DEF short, SpelledAt
  <2>4. QED  BY <2>1, <2>2, <2>3 DEF Text, text
<1>10. CASE labels[1] \in RandomLabels /\ m > 1
  <2>1. text = Text(Tail(short), "none")
        BY <1>6, <1>10
  <2>2. Tail(short) = SubSeq(labels, 2, m)
    <3>1. 1 \in 1..n /\ m \in 1..n /\ 1 + 1 = 2
          BY <1>2
    <3>2. QED  BY <3>1, HeadTailOfSubSeq DEF short
  <2>3. ASSUME Tail(short) = host PROVE Spells(labels, host)
    <3>1. short # <<>>
          BY <1>5, EmptySeq
    <3>2. q = m - 1
          BY <1>5, <2>3, <3>1, HeadTailProperties
    <3>3. host = SubSeq(labels, 1 + 1, m) /\ m = 1 + q
          BY <1>2, <2>2, <2>3, <3>2
    <3>4. QED  BY <1>8, <1>10, <3>3
  <2>4. ASSUME Spells(labels, host) PROVE Tail(short) = host
    <3>1. PICK at \in {0, 1} : SpelledAt(labels, host, at)
          BY <2>4 DEF Spells, SpelledAt
    <3>2. at = 1 /\ m = at + q
          BY <1>7, <1>10, <3>1
    <3>3. host = SubSeq(labels, at + 1, at + q)
          BY <3>1 DEF SpelledAt
    <3>4. at + 1 = 2 /\ at + q = m
          BY <1>2, <3>2
    <3>5. QED  BY <2>2, <3>3, <3>4, Zenon
  <2>5. text.marker = "none" /\ text.labels = Tail(short)
        BY <2>1 DEF Text
  <2>6. QED  BY <2>3, <2>4, <2>5, Zenon DEF text
<1>11. CASE labels[1] \in RandomLabels /\ m = 1
  <2>1. text = Text(<<EmptyLabel>>, "none")
        BY <1>6, <1>11
  <2>2. host # <<EmptyLabel>>
        BY <1>1
  <2>3. ~ Spells(labels, host)
    <3>1. SUFFICES ASSUME Spells(labels, host) PROVE FALSE
          OBVIOUS
    <3>2. PICK at \in {0, 1} : SpelledAt(labels, host, at)
          BY <3>1 DEF Spells, SpelledAt
    <3>3. at = 1 /\ m = at + q
          BY <1>7, <1>11, <3>2
    <3>4. QED  BY <1>2, <1>11, <3>3
  <2>4. QED  BY <2>1, <2>2, <2>3 DEF Text, text
<1>12. QED  BY <1>9, <1>10, <1>11

-----------------------------------------------------------------------------
(* A connection with a player.                                             *)

\* The places of a connection with a player.
PlayerPlaces == {"peek", "hello", "lookup", "answer", "pong", "joined", "gone"}

Answers == {<<>>, <<"status">>, <<"status", "pong">>, <<"kick">>, <<"legacy kick">>}

\* What has been read of a player's bytes, and what the server made of it.
Greeting ==
    /\ sent \in Nat /\ sent <= Sendable /\ read \in 0..sent
    /\ pc \in PlayerPlaces /\ head = 0 /\ decoded = <<>>
    /\ \/ packet = NoPacket
       \/ packet = HelloPacket(peer.hello) /\ read >= Size[peer]
    /\ pc \in {"peek", "hello"} => packet = NoPacket
    /\ pc \in {"lookup", "answer", "pong", "joined"} => packet # NoPacket
    /\ pc = "peek" => read = 0
    /\ pc = "hello" /\ Proper(peer.hello) => read < Size[peer]
    /\ out \in Answers
    /\ pc \in {"peek", "hello", "lookup", "answer"} => out = <<>>
    /\ pc = "pong" /\ conn # "reset" => out = <<"status">>

PlayerInv == peer \in Peers /\ (peer.kind = "player" => Greeting)

\* What does not depend on the peer.
CommonInv ==
    /\ conn \in {"open", "closed", "reset"}
    /\ servers \subseteq Hosts
    /\ tunnel \in Hosts \cup {NoHost}
    /\ late \in BOOLEAN

IInv == FramesInv /\ PlayerInv /\ CommonInv

\* What the assumption says of a player.
LEMMA PlayerFacts ==
    ASSUME NEW p \in Peers, p.kind = "player"
    PROVE  /\ p \notin AgentPeers /\ IsHello(p.hello)
           /\ Size[p] = HelloSize(p.hello) /\ Size[p] \in Nat /\ Size[p] >= PROXY_IDENTIFIER
           /\ FollowSize[p.follow] \in {3, 12}
<1>1. p \notin AgentPeers /\ IsHello(p.hello) /\ p.follow \in {"ping", "login", "other"}
      BY PeersAssumption DEF AgentPeers
<1>2. Size[p] = HelloSize(p.hello)
      BY <1>1 DEF Size
<1>3. FollowSize[p.follow] \in {3, 12}
      BY <1>1 DEF FollowSize
<1>4. QED  BY <1>1, <1>2, <1>3, HelloSizes

\* What a player can have sent is bounded by its hello and what follows.
LEMMA PlayerSendable ==
    ASSUME peer \in Peers, peer.kind = "player"
    PROVE  /\ Sendable \in Nat
           /\ Sendable <= Size[peer] + FollowSize[peer.follow]
           /\ Sendable = Size[peer] + (IF peer.follow = "ping" /\ out = <<>> THEN 2
                                       ELSE FollowSize[peer.follow])
<1> DEFINE more == IF peer.follow = "ping" /\ out = <<>> THEN 2 ELSE FollowSize[peer.follow]
<1>1. Size[peer] \in Nat /\ FollowSize[peer.follow] \in {3, 12}
      BY PlayerFacts
<1>2. more \in Nat /\ more <= FollowSize[peer.follow]
      BY <1>1
<1>3. Sendable = Size[peer] + more
      BY DEF Sendable
<1> HIDE DEF more
<1>4. Sendable \in Nat /\ Sendable <= Size[peer] + FollowSize[peer.follow]
      BY <1>1, <1>2, <1>3
<1>5. QED  BY <1>3, <1>4 DEF more

\* The hello that new returns is no longer than what was read.
LEMMA PacketLength ==
    ASSUME peer \in Peers, peer.kind = "player"
    PROVE  /\ HelloPacket(peer.hello).length = Size[peer]
           /\ HelloPacket(peer.hello) # NoPacket
<1>1. Size[peer] = HelloSize(peer.hello) /\ Size[peer] >= 2 /\ Size[peer] \in Nat
      BY PlayerFacts DEF PROXY_IDENTIFIER
<1>2. HelloPacket(peer.hello).length = Size[peer]
      BY <1>1 DEF HelloPacket, Packet
<1>3. NoPacket.length = 0
      BY DEF NoPacket
<1>4. QED  BY <1>1, <1>2, <1>3

\* What first_minecraft_packet gets from the parser.
LEMMA PlayerParse ==
    ASSUME peer \in Peers, peer.kind = "player", NEW n \in Nat, n <= Sendable
    PROVE  /\ \/ Parse(n).is # "some"
              \/ /\ n >= Size[peer] /\ Parse(n).is = "some"
                 /\ Parse(n).packet = HelloPacket(peer.hello)
           /\ Proper(peer.hello) /\ n >= Size[peer] => Parse(n).is = "some"
<1>1. n \in 0..Size[peer] + FollowSize[peer.follow]
      BY PlayerFacts, PlayerSendable
<1>2. Parse(n) = new(peer.hello, n)
      BY <1>1, PlayerFacts DEF Parse, Parsed
<1>3. Size[peer] = HelloSize(peer.hello) /\ IsHello(peer.hello)
      BY PlayerFacts
<1>4. QED  BY <1>2, <1>3, HelloParsed

\* The invariant holds before the first byte.
LEMMA PlayerInit == Init => PlayerInv /\ CommonInv
<1>1. SUFFICES ASSUME Init PROVE PlayerInv /\ CommonInv
      OBVIOUS
<1>2. CommonInv
      BY <1>1 DEF Init, CommonInv
<1>3. ASSUME peer.kind = "player" PROVE Greeting
  <2>1. Sendable \in Nat
        BY <1>1, <1>3, PlayerSendable DEF Init
  <2>2. QED  BY <1>1, <2>1 DEF Init, Greeting, PlayerPlaces, Answers
<1>4. QED  BY <1>1, <1>2, <1>3 DEF Init, PlayerInv

\* Nothing but Lookup sets the tunnel, and it sets it to a registered host.
LEMMA CommonNext == CommonInv /\ [Next]_vars => CommonInv'
<1> SUFFICES ASSUME CommonInv, [Next]_vars PROVE CommonInv'
    OBVIOUS
<1> USE DEF CommonInv
<1>1. CASE Lookup
  <2>1. tunnel' = get_server(clean_up_hostname(packet.hostname))
        /\ UNCHANGED <<conn, servers, late>>
        BY <1>1 DEF Lookup
  <2>2. tunnel' \in servers \cup {NoHost}
        BY <2>1 DEF get_server
  <2>3. QED  BY <2>1, <2>2
<1>2. CASE \E how \in {"closed", "reset"} : PeerCloses(how)
      BY <1>2 DEF PeerCloses
<1>3. CASE \E h \in Hosts : RegisterChanges(h)
      BY <1>3 DEF RegisterChanges
<1>4. CASE TimeOut
      BY <1>4 DEF TimeOut
<1>5. CASE UNCHANGED <<conn, servers, tunnel, late>>
      BY <1>5
<1>6. CASE Arrive \/ Peek \/ ReadIdentifier \/ ReadVersion \/ ReadFails \/ ReadHello
      BY <1>5, <1>6 DEF Arrive, Peek, ReadIdentifier, ReadVersion, ReadFails, ReadHello
<1>7. CASE \/ Answer \/ ReadPing \/ EndOfPing \/ Pong \/ Decode \/ ReadFrames \/ EndOfFrames
           \/ UNCHANGED vars
      BY <1>5, <1>7
         DEF Answer, ReadPing, EndOfPing, Pong, Decode, ReadFrames, EndOfFrames, vars
<1>8. QED  BY <1>1, <1>2, <1>3, <1>4, <1>6, <1>7 DEF Next, Handler

\* One answer after another.
LEMMA OneAndOne ==
    ASSUME NEW S, NEW a \in S, NEW b \in S, NEW s \in Seq(S), NEW t \in Seq(S),
           s = <<a>>, t = <<a, b>>
    PROVE  Append(s, b) = t
<1>1. Len(s) = 1 /\ s[1] = a /\ Len(t) = 2 /\ t[1] = a /\ t[2] = b
      OBVIOUS
<1>2. /\ Append(s, b) \in Seq(S) /\ Len(Append(s, b)) = Len(s) + 1
      /\ \A i \in 1..Len(s) : Append(s, b)[i] = s[i]
      /\ Append(s, b)[Len(s) + 1] = b
      BY AppendProperties
<1>3. 1 \in 1..Len(s) /\ Len(s) + 1 = 2
      BY <1>1
<1>4. Append(s, b)[1] = a /\ Append(s, b)[2] = b
      BY <1>1, <1>2, <1>3, Zenon
<1>5. \A i \in 1..2 : i = 1 \/ i = 2
      OBVIOUS
<1>6. Len(Append(s, b)) = Len(t) /\ \A i \in 1..Len(Append(s, b)) : Append(s, b)[i] = t[i]
      BY <1>1, <1>2, <1>3, <1>4, <1>5, Zenon
<1>7. QED  BY <1>2, <1>6, SeqEqual

\* A status and a pong.
LEMMA StatusAndPong == Append(<<"status">>, "pong") = <<"status", "pong">>
<1>1. /\ <<"status">> \in Seq({"status", "pong"})
      /\ <<"status", "pong">> \in Seq({"status", "pong"})
      OBVIOUS
<1>2. "status" \in {"status", "pong"} /\ "pong" \in {"status", "pong"}
      OBVIOUS
<1>3. QED  BY <1>1, <1>2, OneAndOne, Zenon

\* Each step with a player keeps the invariant.
LEMMA PlayerNext == PlayerInv /\ [Next]_vars => PlayerInv'
<1> SUFFICES ASSUME PlayerInv, [Next]_vars PROVE PlayerInv'
    OBVIOUS
<1>1. peer' = peer
      BY DEF Next, Handler, vars, Peek, ReadIdentifier, ReadVersion, ReadFails, ReadHello, Lookup,
             Answer, ReadPing, EndOfPing, Pong, Decode, ReadFrames, EndOfFrames, TimeOut, Arrive,
             PeerCloses, RegisterChanges
<1>2. SUFFICES ASSUME peer.kind = "player" PROVE Greeting'
      BY <1>1 DEF PlayerInv
<1>3. Greeting /\ peer \in Peers
      BY <1>2 DEF PlayerInv
<1> DEFINE size == Size[peer]
           more == FollowSize[peer.follow]
<1>4. size \in Nat /\ size >= 2 /\ more \in {3, 12}
      BY <1>2, <1>3, PlayerFacts DEF PROXY_IDENTIFIER
<1>5. /\ Sendable = size + (IF peer.follow = "ping" /\ out = <<>> THEN 2 ELSE more)
      /\ Sendable \in Nat
      BY <1>2, <1>3, PlayerSendable
<1>6. Sendable' = size + (IF peer.follow = "ping" /\ out' = <<>> THEN 2 ELSE more)
      BY <1>1, <1>2 DEF Sendable
<1>7. (out' = <<>> => out = <<>>) => sent <= Sendable'
      BY <1>3, <1>4, <1>5, <1>6 DEF Greeting
<1> HIDE DEF size, more
<1>8. sent \in Nat /\ read \in Nat /\ read <= sent /\ pc \in PlayerPlaces
      BY <1>3 DEF Greeting
<1>9. CASE UNCHANGED <<sent, read, pc, head, decoded, packet, out, conn>>
      BY <1>1, <1>3, <1>7, <1>9 DEF Greeting
<1>10. CASE Arrive
  <2>1. /\ sent' \in Cuts[peer] /\ sent < sent' /\ sent' <= Sendable
        /\ UNCHANGED <<read, pc, head, decoded, packet, out, conn>>
        BY <1>10 DEF Arrive
  <2>2. sent' \in Nat
    <3>1. sent' \in 1..Size[peer] + FollowSize[peer.follow]
          BY <1>2, <1>3, <2>1, PlayerFacts DEF Cuts
    <3>2. QED  BY <1>4, <3>1 DEF size, more
  <2>3. sent' <= Sendable' /\ read' \in 0..sent'
        BY <1>5, <1>6, <1>8, <2>1, <2>2
  <2>4. QED  BY <1>1, <1>3, <2>1, <2>2, <2>3 DEF Greeting
<1>11. CASE \E how \in {"closed", "reset"} : PeerCloses(how)
  <2>1. conn = "open" /\ UNCHANGED <<sent, read, pc, head, decoded, packet, out>>
        BY <1>11 DEF PeerCloses
  <2>2. QED  BY <1>1, <1>3, <1>7, <2>1 DEF Greeting
<1>12. CASE Peek
  <2>1. /\ pc = "peek" /\ pc' = "hello"
        /\ UNCHANGED <<sent, read, head, decoded, packet, out, conn>>
        BY <1>2, <1>12 DEF Peek, Goto
  <2>2. read = 0 /\ read < Size[peer]
        BY <1>3, <1>4, <2>1 DEF Greeting, size
  <2>3. QED  BY <1>1, <1>3, <1>7, <2>1, <2>2 DEF Greeting, PlayerPlaces
<1>13. CASE ReadHello
  <2>1. /\ pc = "hello" /\ read' = sent
        /\ UNCHANGED <<sent, head, decoded, out, conn>>
        BY <1>13 DEF ReadHello
  <2>2. sent <= Sendable
        BY <1>3 DEF Greeting
  <2>3. /\ \/ Parse(sent).is # "some"
           \/ /\ sent >= Size[peer] /\ Parse(sent).is = "some"
              /\ Parse(sent).packet = HelloPacket(peer.hello)
        /\ Proper(peer.hello) /\ sent >= Size[peer] => Parse(sent).is = "some"
        BY <1>2, <1>3, <1>8, <2>2, PlayerParse
  <2>4. sent <= Sendable' /\ read' \in 0..sent'
        BY <1>7, <1>8, <2>1
  <2>5. CASE Parse(sent).is = "some"
    <3>1. packet' = HelloPacket(peer.hello) /\ pc' = "lookup" /\ sent >= Size[peer]
          BY <1>13, <2>3, <2>5 DEF ReadHello
    <3>2. packet' # NoPacket
          BY <1>2, <1>3, <3>1, PacketLength
    <3>3. read' >= Size[peer] /\ out = <<>>
          BY <1>3, <2>1, <3>1 DEF Greeting
    <3>4. QED  BY <1>1, <1>3, <2>1, <2>4, <3>1, <3>2, <3>3 DEF Greeting, PlayerPlaces
  <2>6. CASE Parse(sent).is # "some"
    <3>1. packet' = packet /\ pc' = pc
          BY <1>13, <2>6 DEF ReadHello
    <3>2. Proper(peer.hello) => read' < Size[peer]
      <4>1. Proper(peer.hello) => ~ (sent >= Size[peer])
            BY <2>3, <2>6
      <4>2. QED  BY <1>4, <1>8, <2>1, <4>1 DEF size
    <3>3. packet = NoPacket
          BY <1>3, <2>1 DEF Greeting
    <3>4. QED  BY <1>1, <1>3, <2>1, <2>4, <3>1, <3>2, <3>3 DEF Greeting
  <2>7. QED  BY <2>5, <2>6
<1>14. CASE Lookup
  <2>1. /\ pc = "lookup" /\ pc' \in {"answer", "joined"}
        /\ UNCHANGED <<sent, read, head, decoded, packet, out, conn>>
        BY <1>14 DEF Lookup, Goto
  <2>2. QED  BY <1>1, <1>3, <1>7, <2>1 DEF Greeting, PlayerPlaces
<1>15. CASE Answer
  <2>1. /\ pc = "answer" /\ pc' = IF packet.pkg_type = "Ping" THEN "pong" ELSE "gone"
        /\ out' = IF conn = "reset" THEN out ELSE generate_response(packet.pkg_type)
        /\ UNCHANGED <<sent, read, head, decoded, packet, conn>>
        BY <1>15 DEF Answer, Goto
  <2>2. out = <<>> /\ packet = HelloPacket(peer.hello)
        BY <1>3, <2>1 DEF Greeting
  <2>3. packet.pkg_type \in {"Ping", "Connect", "Legacy", "Unknown"}
        BY <2>2 DEF HelloPacket, Packet, PkgType
  <2>4. /\ generate_response(packet.pkg_type) \in Answers
        /\ packet.pkg_type = "Ping" => generate_response(packet.pkg_type) = <<"status">>
        BY <2>3 DEF generate_response, Answers
  <2>5. out' \in Answers /\ (pc' = "pong" /\ conn' # "reset" => out' = <<"status">>)
        BY <2>1, <2>2, <2>4 DEF Answers
  <2>6. pc' \in {"pong", "gone"}
        BY <2>1
  <2>7. QED  BY <1>1, <1>3, <1>7, <2>1, <2>2, <2>5, <2>6 DEF Greeting, PlayerPlaces
<1>16. CASE ReadPing
  <2>1. /\ pc = "pong" /\ read' = sent
        /\ UNCHANGED <<sent, pc, head, decoded, packet, out, conn>>
        BY <1>16 DEF ReadPing
  <2>2. read' \in 0..sent'
        BY <1>8, <2>1
  <2>3. packet = HelloPacket(peer.hello) /\ read' >= Size[peer]
        BY <1>3, <1>4, <1>8, <2>1 DEF Greeting, size
  <2>4. QED  BY <1>1, <1>3, <1>7, <2>1, <2>2, <2>3 DEF Greeting
<1>17. CASE Pong
  <2>1. /\ pc = "pong" /\ pc' = "gone"
        /\ out' = IF PingFollows(packet.length) /\ conn # "reset" THEN Append(out, "pong") ELSE out
        /\ UNCHANGED <<sent, read, head, decoded, packet, conn>>
        BY <1>17 DEF Pong, Goto
  <2>2. conn # "reset" => out = <<"status">>
        BY <1>3, <2>1 DEF Greeting
  <2>3. out \in Answers
        BY <1>3 DEF Greeting
  <2>4. out' = out \/ out' = <<"status", "pong">>
    <3>1. Append(<<"status">>, "pong") = <<"status", "pong">>
          BY StatusAndPong
    <3>2. QED  BY <2>1, <2>2, <3>1, Zenon
  <2>5. out' \in Answers /\ (out' = <<>> => out = <<>>)
    <3>1. <<"status", "pong">> # <<>> /\ <<"status", "pong">> \in Answers
          BY DEF Answers
    <3>2. QED  BY <2>3, <2>4, <3>1, Zenon
  <2>6. QED  BY <1>1, <1>3, <1>7, <2>1, <2>5 DEF Greeting, PlayerPlaces
<1>18. CASE pc' = "gone" /\ UNCHANGED <<sent, read, head, decoded, packet, out, conn>>
       BY <1>1, <1>3, <1>7, <1>18 DEF Greeting, PlayerPlaces
<1>19. CASE TimeOut \/ ReadFails \/ EndOfPing
       BY <1>18, <1>19 DEF TimeOut, ReadFails, EndOfPing, Goto
<1>20. CASE ReadIdentifier \/ ReadVersion \/ Decode \/ ReadFrames \/ EndOfFrames
       BY <1>8, <1>20
          DEF PlayerPlaces, ReadIdentifier, ReadVersion, Decode, ReadFrames, EndOfFrames, Goto
<1>21. CASE (\E h \in Hosts : RegisterChanges(h)) \/ UNCHANGED vars
       BY <1>9, <1>21 DEF RegisterChanges, vars
<1>22. QED  BY <1>10, <1>11, <1>12, <1>13, <1>14, <1>15, <1>16, <1>17, <1>19, <1>20, <1>21
            DEF Next, Handler

\* The invariant, whoever the peer is.
THEOREM Invariance == Spec => []IInv
<1>1. Init => IInv
      BY FramesInit, PlayerInit DEF IInv
<1>2. IInv /\ [Next]_vars => IInv'
      BY FramesNext, PlayerNext, CommonNext DEF IInv
<1>3. QED  BY <1>1, <1>2, PTL DEF Spec

\* Every peer is a player or a CraftIP client.
LEMMA Kinds == ASSUME NEW p \in Peers PROVE p.kind \in {"player", "agent"}
BY PeersAssumption

\* The variables keep their types, and their bounds: process_socket_connection
\* never has read more than was sent, nor parsed more than it read.
THEOREM TypeCorrect == Spec => []SocketTypeOK
<1>1. IInv => SocketTypeOK
  <2> SUFFICES ASSUME IInv PROVE SocketTypeOK
      OBVIOUS
  <2>1. peer \in Peers /\ peer.kind \in {"player", "agent"} /\ CommonInv
        BY Kinds DEF IInv, FramesInv
  <2>2. CASE peer.kind = "agent"
    <3>1. Stream /\ Sendable = Size[peer] /\ Size[peer] \in Nat
          BY <2>1, <2>2, AgentSize DEF IInv, FramesInv, Sendable
    <3>2. sent \in 0..Sendable
          BY <3>1 DEF Stream
    <3>3. QED  BY <2>1, <2>2, <3>1, <3>2
               DEF Stream, SocketTypeOK, CommonInv, AgentPlaces, Handshake, Settled
  <2>3. CASE peer.kind = "player"
    <3>1. Greeting /\ Sendable \in Nat
          BY <2>1, <2>3, PlayerSendable DEF IInv, PlayerInv
    <3>2. sent \in 0..Sendable /\ head \in 0..read /\ Len(decoded) = 0
          BY <3>1 DEF Greeting
    <3>3. packet = NoPacket \/ packet.length \in 1..read
      <4>1. SUFFICES ASSUME packet = HelloPacket(peer.hello), read >= Size[peer]
                     PROVE  packet.length \in 1..read
            BY <3>1 DEF Greeting
      <4>2. packet.length = Size[peer] /\ Size[peer] \in Nat /\ Size[peer] >= 2 /\ read \in Nat
            BY <2>1, <2>3, <3>1, <4>1, PacketLength, PlayerFacts DEF Greeting, PROXY_IDENTIFIER
      <4>3. QED  BY <4>1, <4>2
    <3>4. pc \in Handshake \cup Settled /\ out \in Answers /\ read \in 0..sent
          BY <3>1 DEF Greeting, PlayerPlaces, Handshake, Settled
    <3>5. Len(decoded) <= IF peer.kind = "agent" THEN Len(peer.packets) ELSE 0
          BY <2>3, <3>2
    <3>6. QED  BY <2>1, <3>2, <3>3, <3>4, <3>5 DEF SocketTypeOK, CommonInv, Answers
  <2>4. QED  BY <2>1, <2>2, <2>3
<1>2. QED  BY <1>1, Invariance, PTL

\* However the bytes of a hello are cut, first_minecraft_packet recognises it as
\* soon as all of it has been read and not before, and with the fields it was
\* sent with: for every hello a client may send.
THEOREM HelloRecognised == Spec => []HelloAsSent
<1>1. IInv => HelloAsSent
  <2> SUFFICES ASSUME IInv, peer.kind = "player" PROVE HelloAsSent
      BY DEF HelloAsSent
  <2>1. peer \in Peers /\ Greeting
        BY DEF IInv, PlayerInv
  <2>2. ASSUME packet # NoPacket
        PROVE  /\ packet.length = Size[peer] /\ read >= Size[peer]
               /\ packet.version = peer.hello.version
               /\ packet.hostname.labels = peer.hello.text.labels
               /\ packet.forge <=> peer.hello.text.marker = "FORGE"
               /\ packet.pkg_type = IF peer.hello.format = "new" THEN PkgType(peer.hello.next_state)
                                    ELSE "Legacy"
    <3>1. packet = HelloPacket(peer.hello) /\ read >= Size[peer]
          BY <2>1, <2>2 DEF Greeting
    <3>2. packet.length = Size[peer]
          BY <2>1, <3>1, PacketLength
    <3>3. QED  BY <3>1, <3>2 DEF HelloPacket, Packet, Text
  <2>3. pc = "hello" /\ Proper(peer.hello) => read < Size[peer]
        BY <2>1 DEF Greeting
  <2>4. QED  BY <2>2, <2>3 DEF HelloAsSent
<1>2. QED  BY <1>1, Invariance, PTL

\* handle_minecraft_client brings a player to the tunnel of the host it means if
\* that tunnel is registered when it looks, and to none otherwise: for every way
\* to spell a host that clean_up_hostname knows, and every set of hosts.
THEOREM Routed == Spec => RoutedToHost
<1> DEFINE Step == pc = "lookup" /\ pc' # "lookup" =>
                     tunnel' = IF peer.meant \in servers THEN peer.meant ELSE NoHost
<1>1. IInv /\ [Next]_vars => [Step]_vars
  <2> SUFFICES ASSUME IInv, Next, pc = "lookup", pc' # "lookup"
               PROVE  tunnel' = IF peer.meant \in servers THEN peer.meant ELSE NoHost
      OBVIOUS
  <2>1. Lookup
        BY DEF Next, Handler, Peek, ReadIdentifier, ReadVersion, ReadFails, ReadHello, Goto, Answer,
               ReadPing, EndOfPing, Pong, Decode, ReadFrames, EndOfFrames, TimeOut, Arrive,
               PeerCloses, RegisterChanges
  <2>2. peer \in Peers /\ peer.kind = "player"
        BY Kinds DEF IInv, FramesInv, Stream, AgentPlaces
  <2>3. packet = HelloPacket(peer.hello) /\ servers \subseteq Hosts
        BY <2>2 DEF IInv, PlayerInv, Greeting, CommonInv
  <2> DEFINE labels == peer.hello.text.labels
             text == clean_up_hostname(Text(labels, "none"))
  <2>4. labels \in Seq(DOMAIN LabelSize) /\ labels # <<>>
        BY <2>2, PlayerFacts DEF IsHello, Texts
  <2>5. packet.hostname = Text(labels, "none")
        BY <2>3 DEF HelloPacket, Packet
  <2>6. tunnel' = get_server(text)
        BY <2>1, <2>5 DEF Lookup
  <2>7. \A h \in Hosts : text.marker = "none" /\ (text.labels = h <=> Spells(labels, h))
        BY <2>4, Cleaned
  <2>8. \/ peer.meant \in Hosts /\ Spells(labels, peer.meant)
        \/ peer.meant = NoHost /\ \A h \in Hosts : ~ Spells(labels, h)
        BY <2>2, PeersAssumption
  <2>9. NoHost \notin Hosts
        BY HostsAssumption
  <2> HIDE DEF labels, text
  <2>10. QED  BY <2>3, <2>6, <2>7, <2>8, <2>9 DEF get_server
<1>2. QED  BY <1>1, Invariance, PTL DEF Spec, RoutedToHost

-----------------------------------------------------------------------------
(* What a quiet connection has heard.                                      *)

\* Where a CraftIP client is let go, and a player is answered.
Kept ==
    /\ peer.kind = "agent" =>
        /\ pc \in {"peek", "ident"} => read = 0
        /\ pc = "gone" => late = TRUE \/ conn # "open"
    /\ peer.kind = "player" =>
        /\ pc = "joined" => tunnel # NoHost
        /\ pc = "gone" /\ peer.follow = "ping" =>
            late = TRUE \/ conn # "open" \/ out = <<"status", "pong">>

\* When all packets are decoded, nothing is left to decode.
LEMMA DecodedAll ==
    ASSUME FramesInv, peer.kind = "agent", pc = "frames", Len(decoded) = Len(peer.packets)
    PROVE  Decoded.is = "none"
<1>1. peer \in Peers /\ Stream
      BY DEF FramesInv
<1>2. Size[peer] = FrameStart[peer][Len(peer.packets) + 1] /\ Size[peer] \in Nat
      BY <1>1, AgentSize
<1>3. head = Size[peer]
      BY <1>1, <1>2 DEF Stream
<1>4. head = read
  <2>1. sent \in Nat /\ sent <= Size[peer] /\ read \in Nat /\ read <= sent /\ head <= read
        BY <1>1 DEF Stream
  <2>2. QED  BY <1>2, <1>3, <2>1
<1>5. QED  BY <1>4, Zenon DEF Decoded

\* The decoder never meets an error.
LEMMA NeverErr ==
    ASSUME FramesInv, peer.kind = "agent", pc = "frames", Decoded.is # "none"
    PROVE  Decoded.is = "some"
<1> DEFINE k == Len(decoded)
           m == Len(peer.packets)
<1>1. peer \in Peers /\ Stream
      BY DEF FramesInv
<1>2. m \in Nat /\ k \in Nat /\ k <= m /\ read \in Nat /\ head <= read
      /\ head = FrameStart[peer][k + 1]
      BY <1>1, AgentFacts DEF Stream
<1>3. k + 1 \in 1..m
      BY <1>2, DecodedAll
<1>4. Decoded = IF read < FrameStart[peer][(k + 1) + 1] THEN [is |-> "none"]
                ELSE [is |-> "some", moved |-> FrameSize(peer.packets[k + 1]),
                      packet |-> peer.packets[k + 1]]
      BY <1>1, <1>2, <1>3, DecodedFrame
<1>5. QED  BY <1>4

\* A CraftIP client on an open connection is only let go by the timer.
LEMMA AgentKept ==
    ASSUME IInv, Kept, peer.kind = "agent", [Next]_vars
    PROVE  /\ pc' \in {"peek", "ident"} => read' = 0
           /\ pc' = "gone" => late' = TRUE \/ conn' # "open"
<1>1. pc \in AgentPlaces /\ Stream
      BY DEF IInv, FramesInv, Stream
<1>2. /\ pc \in {"peek", "ident"} => read = 0
      /\ pc = "gone" => late = TRUE \/ conn # "open"
      BY DEF Kept
<1>3. CASE UNCHANGED <<pc, read, late>> /\ (conn' = conn \/ conn' # "open")
      BY <1>2, <1>3
<1>4. CASE Arrive \/ UNCHANGED vars
      BY <1>3, <1>4 DEF Arrive, vars
<1>5. CASE \E how \in {"closed", "reset"} : PeerCloses(how)
      BY <1>3, <1>5 DEF PeerCloses
<1>6. CASE \E h \in Hosts : RegisterChanges(h)
      BY <1>3, <1>6 DEF RegisterChanges
<1>7. CASE Peek
      BY <1>2, <1>7 DEF Peek, Goto
<1>8. CASE ReadIdentifier
      BY <1>8 DEF ReadIdentifier, Goto
<1>9. CASE ReadVersion
      BY <1>9 DEF ReadVersion, Goto
<1>10. CASE TimeOut
       BY <1>10 DEF TimeOut
<1>11. CASE ReadFails
       BY <1>11 DEF ReadFails
<1>12. CASE Decode
  <2>1. pc = "frames" /\ Decoded.is # "none"
        BY <1>12 DEF Decode
  <2>2. Decoded.is = "some"
        BY <2>1, NeverErr DEF IInv
  <2>3. pc' = pc
        BY <1>12, <2>2 DEF Decode
  <2>4. QED  BY <2>1, <2>3
<1>13. CASE ReadFrames
       BY <1>13 DEF ReadFrames
<1>14. CASE EndOfFrames
       BY <1>14 DEF EndOfFrames, EndOfFile
<1>15. CASE ReadHello \/ Lookup \/ Answer \/ ReadPing \/ EndOfPing \/ Pong
       BY <1>1, <1>15
          DEF AgentPlaces, ReadHello, Lookup, Answer, ReadPing, EndOfPing, Pong, Goto
<1>16. QED  BY <1>4, <1>5, <1>6, <1>7, <1>8, <1>9, <1>10, <1>11, <1>12, <1>13, <1>14, <1>15
            DEF Next, Handler

\* A player that pings on an open connection is let go by the timer or by its pong.
LEMMA PlayerKept ==
    ASSUME IInv, Kept, peer.kind = "player", [Next]_vars
    PROVE  /\ pc' = "joined" => tunnel' # NoHost
           /\ pc' = "gone" /\ peer.follow = "ping" =>
                late' = TRUE \/ conn' # "open" \/ out' = <<"status", "pong">>
<1>1. peer \in Peers /\ Greeting /\ pc \in PlayerPlaces
      BY DEF IInv, PlayerInv, Greeting
<1>2. /\ pc = "joined" => tunnel # NoHost
      /\ pc = "gone" /\ peer.follow = "ping" =>
            late = TRUE \/ conn # "open" \/ out = <<"status", "pong">>
      BY DEF Kept
<1>3. CASE UNCHANGED <<pc, tunnel, late, out>> /\ (conn' = conn \/ conn' # "open")
      BY <1>2, <1>3
<1>4. CASE Arrive \/ ReadPing \/ UNCHANGED vars
      BY <1>3, <1>4 DEF Arrive, ReadPing, vars
<1>5. CASE \E how \in {"closed", "reset"} : PeerCloses(how)
      BY <1>3, <1>5 DEF PeerCloses
<1>6. CASE \E h \in Hosts : RegisterChanges(h)
      BY <1>3, <1>6 DEF RegisterChanges
<1>7. CASE Peek \/ ReadHello
      BY <1>7 DEF Peek, ReadHello, Goto
<1>8. CASE TimeOut
      BY <1>8 DEF TimeOut
<1>9. CASE ReadFails
      BY <1>1, <1>9 DEF ReadFails, PlayerPlaces
<1>10. CASE Lookup
  <2>1. /\ pc' = IF tunnel' = NoHost THEN "answer" ELSE "joined"
        BY <1>10 DEF Lookup, Goto
  <2>2. QED  BY <2>1
<1>11. CASE Answer
  <2>1. pc = "answer" /\ pc' = IF packet.pkg_type = "Ping" THEN "pong" ELSE "gone"
        BY <1>11 DEF Answer, Goto
  <2>2. packet = HelloPacket(peer.hello)
        BY <1>1, <2>1 DEF Greeting
  <2>3. peer.follow = "ping" => peer.hello.format = "new" /\ peer.hello.next_state = 1
        BY <1>1, PeersAssumption
  <2>4. peer.follow = "ping" => packet.pkg_type = "Ping"
        BY <2>2, <2>3 DEF HelloPacket, Packet, PkgType
  <2>5. QED  BY <2>1, <2>4
<1>12. CASE EndOfPing
       BY <1>12 DEF EndOfPing, EndOfFile, Goto
<1>13. CASE Pong
  <2>1. /\ pc = "pong" /\ pc' = "gone" /\ conn' = conn
        /\ out' = IF PingFollows(packet.length) /\ conn # "reset" THEN Append(out, "pong") ELSE out
        BY <1>13 DEF Pong, Goto
  <2>2. packet = HelloPacket(peer.hello) /\ (conn # "reset" => out = <<"status">>)
        BY <1>1, <2>1 DEF Greeting
  <2>3. packet.length = Size[peer]
        BY <1>1, <2>2, PacketLength
  <2>4. peer.follow = "ping" => PingFollows(packet.length)
        BY <2>3 DEF PingFollows
  <2>5. Append(<<"status">>, "pong") = <<"status", "pong">>
        BY StatusAndPong
  <2>6. QED  BY <2>1, <2>2, <2>4, <2>5, Zenon
<1>14. CASE ReadIdentifier \/ ReadVersion \/ Decode \/ ReadFrames \/ EndOfFrames
       BY <1>1, <1>14
          DEF PlayerPlaces, ReadIdentifier, ReadVersion, Decode, ReadFrames, EndOfFrames, Goto
<1>15. QED  BY <1>4, <1>5, <1>6, <1>7, <1>8, <1>9, <1>10, <1>11, <1>12, <1>13, <1>14
            DEF Next, Handler

\* Whoever the peer is.
LEMMA KeptAlways == Spec => [](IInv /\ Kept)
<1>1. Init => Kept
      BY DEF Init, Kept
<1>2. IInv /\ Kept /\ [Next]_vars => Kept'
  <2> SUFFICES ASSUME IInv, Kept, [Next]_vars PROVE Kept'
      OBVIOUS
  <2>1. peer' = peer
        BY DEF Next, Handler, vars, Peek, ReadIdentifier, ReadVersion, ReadFails, ReadHello,
               Lookup, Answer, ReadPing, EndOfPing, Pong, Decode, ReadFrames, EndOfFrames,
               TimeOut, Arrive, PeerCloses, RegisterChanges
  <2>2. QED  BY <2>1, AgentKept, PlayerKept DEF Kept
<1>3. QED  BY <1>1, <1>2, Invariance, PTL DEF Spec

\* A CraftIP client is never taken for a player, whatever part of its identifier
\* process_socket_connection peeks at first, and never left with a packet unread:
\* for every sequence of packets and every way to cut its bytes.
THEOREM AgentsHeard == Spec => []AgentHeard
<1>1. IInv /\ Kept => AgentHeard
  <2> SUFFICES ASSUME IInv, Kept, Quiet, peer.kind = "agent" PROVE decoded = peer.packets
      BY DEF AgentHeard
  <2> DEFINE k == Len(decoded)
             m == Len(peer.packets)
  <2>1. peer \in Peers /\ Stream /\ late \in BOOLEAN
        BY DEF IInv, FramesInv, CommonInv
  <2>2. /\ m \in Nat /\ k \in Nat /\ k <= m /\ read \in Nat /\ sent \in Nat
        /\ pc \in AgentPlaces /\ peer.packets \in Seq(Packets)
        /\ decoded = SubSeq(peer.packets, 1, k)
        BY <2>1, AgentFacts DEF Stream
  <2>3. conn = "open" /\ late # TRUE /\ sent = Size[peer] /\ Waits
        BY <2>1 DEF Quiet, Sendable
  <2>4. FrameStart[peer][m + 1] = Size[peer] /\ Size[peer] \in Nat
        BY <2>1, AgentSize
  <2>5. Size[peer] >= FramesFrom
    <3>1. 1 \in 1..m + 1 /\ m + 1 \in 1..m + 1
          BY <2>2
    <3>2. FrameStart[peer][1] = FramesFrom
          BY <2>1, FrameStarts
    <3>3. 1 < m + 1 => FrameStart[peer][1] < FrameStart[peer][m + 1]
          BY <2>1, <3>1, FrameStarts
    <3>4. 1 < m + 1 \/ m + 1 = 1
          BY <2>2
    <3>5. QED  BY <2>4, <3>2, <3>3, <3>4 DEF FramesFrom, PROXY_IDENTIFIER
  <2>6. pc # "gone" /\ (pc \in {"peek", "ident"} => read = 0)
        BY <2>3 DEF Kept
  <2>7. pc = "frames" /\ Decoded.is = "none" /\ sent = read
        BY <2>2, <2>3, <2>5, <2>6 DEF Waits, AgentPlaces, FramesFrom, PROXY_IDENTIFIER
  <2>8. k = m
    <3>1. SUFFICES ASSUME k < m PROVE FALSE
          BY <2>2
    <3>2. k + 1 \in 1..m /\ k + 2 \in 1..m + 1 /\ m + 1 \in 1..m + 1 /\ (k + 1) + 1 = k + 2
          BY <2>2, <3>1
    <3>3. head = FrameStart[peer][k + 1] /\ head <= read
          BY <2>1, <2>7 DEF Stream
    <3>4. Decoded = IF read < FrameStart[peer][(k + 1) + 1] THEN [is |-> "none"]
                    ELSE [is |-> "some", moved |-> FrameSize(peer.packets[k + 1]),
                          packet |-> peer.packets[k + 1]]
          BY <2>1, <2>2, <3>2, <3>3, DecodedFrame
    <3>5. read < FrameStart[peer][k + 2]
          BY <2>7, <3>2, <3>4
    <3>6. /\ k + 2 < m + 1 => FrameStart[peer][k + 2] < FrameStart[peer][m + 1]
          /\ FrameStart[peer][k + 2] \in Nat
          BY <2>1, <3>2, FrameStarts
    <3>7. k + 2 < m + 1 \/ k + 2 = m + 1
          BY <2>2, <3>1
    <3>8. QED  BY <2>2, <2>3, <2>4, <2>7, <3>5, <3>6, <3>7
  <2>9. SubSeq(peer.packets, 1, m) = peer.packets
        BY <2>2, SubSeqFull
  <2>10. QED  BY <2>2, <2>8, <2>9
<1>2. QED  BY <1>1, KeptAlways, PTL

\* A player who pings a server that is not online gets the status and, once it
\* has sent its ping after it, the pong: handle_mc_disconnect and the player never
\* wait for each other, whatever the hello and however it is cut.
THEOREM PingsAnswered == Spec => []PingAnswered
<1>1. IInv /\ Kept => PingAnswered
  <2> SUFFICES ASSUME IInv, Kept, Quiet, peer.kind = "player", peer.follow = "ping",
                      Proper(peer.hello) \/ packet # NoPacket, tunnel = NoHost
               PROVE  out = <<"status", "pong">>
      BY DEF PingAnswered
  <2>1. peer \in Peers /\ Greeting /\ late \in BOOLEAN
        BY DEF IInv, PlayerInv, CommonInv
  <2>2. conn = "open" /\ late # TRUE /\ sent = Sendable /\ Waits
        BY <2>1 DEF Quiet
  <2>3. Size[peer] \in Nat /\ Size[peer] >= PROXY_IDENTIFIER
        BY <2>1, PlayerFacts
  <2>4. Sendable = Size[peer] + (IF out = <<>> THEN 2 ELSE 12)
        BY <2>1, PlayerSendable DEF FollowSize
  <2>5. pc # "peek"
    <3>1. sent >= PROXY_IDENTIFIER
          BY <2>2, <2>3, <2>4 DEF PROXY_IDENTIFIER
    <3>2. QED  BY <2>1, <2>2, <3>1 DEF Waits, Greeting, PROXY_IDENTIFIER
  <2>6. pc # "hello"
    <3>1. SUFFICES ASSUME pc = "hello" PROVE FALSE
          OBVIOUS
    <3>2. sent = read
          BY <2>2, <3>1 DEF Waits
    <3>3. read < Size[peer]
          BY <2>1, <3>1 DEF Greeting
    <3>4. QED  BY <2>2, <2>3, <2>4, <3>2, <3>3
  <2>7. pc # "pong"
    <3>1. SUFFICES ASSUME pc = "pong" PROVE FALSE
          OBVIOUS
    <3>2. sent = read /\ Buffered < 12
          BY <2>2, <3>1 DEF Waits
    <3>3. packet = HelloPacket(peer.hello) /\ out = <<"status">>
          BY <2>1, <2>2, <3>1 DEF Greeting
    <3>4. packet.length = Size[peer]
          BY <2>1, <3>3, PacketLength
    <3>5. sent = Size[peer] + 12
          BY <2>2, <2>4, <3>3
    <3>6. QED  BY <2>3, <3>2, <3>4, <3>5 DEF Buffered
  <2>8. pc # "joined"
        BY DEF Kept
  <2>9. pc = "gone"
        BY <2>1, <2>2, <2>5, <2>6, <2>7, <2>8 DEF Waits, Greeting, PlayerPlaces
  <2>10. QED  BY <2>2, <2>9 DEF Kept
<1>2. QED  BY <1>1, KeptAlways, PTL
=============================================================================
