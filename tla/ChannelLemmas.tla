---------------------------- MODULE ChannelLemmas ----------------------------
(***************************************************************************)
(* Facts about sequences used as channels, and the minimum of a set of     *)
(* naturals, which the proofs about the tunnel rest on.                    *)
(***************************************************************************)
EXTENDS Integers, Sequences, SequencesExt, WellFoundedInduction, TLAPS

\* A non-empty set of naturals has a least element: the scan for a free slot
\* of the Distributor ends at one.
LEMMA NatSetHasMin ==
    ASSUME NEW T \in SUBSET Nat, T # {}
    PROVE  \E x \in T : \A y \in T : x <= y
<1> DEFINE R == OpToRel(<, Nat)
<1>1. \A x, y \in T : <<y, x>> \notin R => x <= y
      BY DEF OpToRel
<1>2. IsWellFoundedOn(R, Nat)
      BY NatLessThanWellFounded
<1> HIDE DEF R
<1>3. PICK x \in T : \A y \in T : <<y, x>> \notin R
      BY <1>2, WFMin
<1>4. QED  BY <1>1, <1>3

\* What the actions do with a channel keeps it a sequence of its messages.
LEMMA ChannelTypes ==
    ASSUME NEW S, NEW s \in Seq(S)
    PROVE  /\ <<>> \in Seq(S)
           /\ \A e \in S : Append(s, e) \in Seq(S)
           /\ s # <<>> => Head(s) \in S /\ Tail(s) \in Seq(S)
OBVIOUS

\* A send that may be lost because the receiver is gone.
LEMMA SendTyped ==
    ASSUME NEW S, NEW s \in Seq(S), NEW e \in S, NEW t, t = s \/ t = Append(s, e)
    PROVE  t \in Seq(S)
<1>1. Append(s, e) \in Seq(S)  OBVIOUS
<1>2. QED  BY <1>1, Zenon

\* Membership in a channel, after a send and after a receive.
LEMMA ContainsToSet ==
    ASSUME NEW S, NEW s \in Seq(S), NEW x
    PROVE  Contains(s, x) <=> x \in ToSet(s)
BY DEF Contains, ToSet

\* A send adds its message to the messages waiting.
LEMMA ToSetAppend ==
    ASSUME NEW S, NEW s \in Seq(S), NEW e \in S
    PROVE  ToSet(Append(s, e)) = ToSet(s) \cup {e}
<1> DEFINE t == Append(s, e)
<1>1. /\ DOMAIN t = 1 .. Len(s) + 1 /\ DOMAIN s = 1 .. Len(s) /\ Len(s) \in Nat
      /\ t[Len(s) + 1] = e
      /\ \A k \in 1 .. Len(s) : t[k] = s[k]
      OBVIOUS
<1> HIDE DEF t
<1>2. ToSet(t) \subseteq ToSet(s) \cup {e}
  <2>1. SUFFICES ASSUME NEW k \in 1 .. Len(s) + 1
                 PROVE  t[k] \in ToSet(s) \cup {e}
        BY <1>1 DEF ToSet
  <2>2. CASE k = Len(s) + 1  BY <1>1, <2>2
  <2>3. CASE k # Len(s) + 1
    <3>1. k \in 1 .. Len(s)  BY <1>1, <2>3
    <3>2. QED  BY <1>1, <3>1 DEF ToSet
  <2>4. QED  BY <2>2, <2>3
<1>3. ToSet(s) \subseteq ToSet(t)
  <2>1. SUFFICES ASSUME NEW k \in 1 .. Len(s)
                 PROVE  s[k] \in ToSet(t)
        BY <1>1 DEF ToSet
  <2>2. k \in DOMAIN t /\ t[k] = s[k]  BY <1>1
  <2>3. QED  BY <2>2 DEF ToSet
<1>4. e \in ToSet(t)
  <2>1. Len(s) + 1 \in DOMAIN t  BY <1>1
  <2>2. QED  BY <1>1, <2>1 DEF ToSet
<1>5. QED  BY <1>2, <1>3, <1>4 DEF t

\* A receive takes at most its own message away.
LEMMA ToSetTail ==
    ASSUME NEW S, NEW s \in Seq(S), s # <<>>
    PROVE  ToSet(s) = ToSet(Tail(s)) \cup {Head(s)}
<1>1. ToSet(s) \subseteq ToSet(Tail(s)) \cup {Head(s)}
  <2>1. SUFFICES ASSUME NEW k \in 1 .. Len(s), k # 1
                 PROVE  s[k] \in ToSet(Tail(s))
        BY DEF ToSet
  <2>2. k - 1 \in DOMAIN Tail(s) /\ Tail(s)[k - 1] = s[k]
        BY <2>1
  <2>3. QED  BY <2>2 DEF ToSet
<1>2. \A k \in 1 .. Len(Tail(s)) : Tail(s)[k] = s[k + 1] /\ k + 1 \in 1 .. Len(s)
      OBVIOUS
<1>3. ToSet(Tail(s)) \cup {Head(s)} \subseteq ToSet(s)
      BY <1>2 DEF ToSet
<1>4. QED  BY <1>1, <1>3

\* Nothing waits in an empty channel.
LEMMA ToSetEmpty == ToSet(<<>>) = {}
BY DEF ToSet

\* Channels that hold one or two messages.
LEMMA ShortChannels ==
    ASSUME NEW x, NEW y
    PROVE  /\ Append(<<x>>, y) = <<x, y>>
           /\ Head(<<x>>) = x /\ Tail(<<x>>) = <<>>
           /\ Head(<<x, y>>) = x /\ Tail(<<x, y>>) = <<y>>
<1>1. Append(<<x>>, y) = <<x, y>>
  <2> DEFINE s == Append(<<x>>, y)  t == <<x, y>>  S == {x, y}
  <2>1. s \in Seq(S) /\ Len(s) = 2 /\ s[1] = x /\ s[2] = y
    <3>1. <<x>> \in Seq(S) /\ Len(<<x>>) = 1 /\ <<x>>[1] = x  OBVIOUS
    <3>2. QED  BY <3>1
  <2>2. t \in Seq(S) /\ Len(t) = 2 /\ t[1] = x /\ t[2] = y  OBVIOUS
  <2> HIDE DEF s, t, S
  <2>3. \A k \in 1 .. Len(s) : s[k] = t[k]
        BY <2>1, <2>2
  <2>4. s = t
        BY <2>1, <2>2, <2>3
  <2>5. QED  BY <2>4 DEF s, t
<1>2. Head(<<x>>) = x /\ Tail(<<x>>) = <<>>  OBVIOUS
<1>3. Head(<<x, y>>) = x  OBVIOUS
<1>4. Tail(<<x, y>>) = <<y>>  OBVIOUS
<1>5. QED  BY <1>1, <1>2, <1>3, <1>4

\* Two messages sent at once are sent one after the other.
LEMMA SendsInTurn ==
    ASSUME NEW S, NEW s \in Seq(S), NEW x \in S, NEW y \in S
    PROVE  /\ s \o <<>> = s
           /\ s \o <<x>> = Append(s, x)
           /\ s \o <<x, y>> = Append(Append(s, x), y)
<1>1. s \o <<>> = s
      OBVIOUS
<1>2. s \o <<x>> = Append(s, x)
      OBVIOUS
<1>3. s \o <<x, y>> = Append(Append(s, x), y)
  <2> DEFINE t == s \o <<x, y>>
             u == Append(Append(s, x), y)
  <2>1. /\ t \in Seq(S) /\ Len(t) = Len(s) + 2 /\ Len(s) \in Nat
        /\ t[Len(s) + 1] = x /\ t[Len(s) + 2] = y
        /\ \A k \in 1 .. Len(s) : t[k] = s[k]
        OBVIOUS
  <2>2. /\ u \in Seq(S) /\ Len(u) = Len(s) + 2
        /\ u[Len(s) + 1] = x /\ u[Len(s) + 2] = y
        /\ \A k \in 1 .. Len(s) : u[k] = s[k]
        OBVIOUS
  <2> HIDE DEF t, u
  <2>3. \A k \in 1 .. Len(s) + 2 : k \in 1 .. Len(s) \/ k = Len(s) + 1 \/ k = Len(s) + 2
        BY <2>1
  <2>4. \A k \in 1 .. Len(t) : t[k] = u[k]
        BY <2>1, <2>2, <2>3
  <2>5. t = u
        BY <2>1, <2>2, <2>4
  <2>6. QED  BY <2>5 DEF t, u
<1>4. QED  BY <1>1, <1>2, <1>3

\* The message x waits behind position k.
Followed(s, k, x) == \E l \in 1 .. Len(s) : k < l /\ s[l] = x

\* A send keeps what waits, and its message waits behind all others.
LEMMA FollowedAppend ==
    ASSUME NEW S, NEW s \in Seq(S), NEW e \in S, NEW k \in 1 .. Len(s), NEW x,
           Followed(s, k, x) \/ x = e
    PROVE  Followed(Append(s, e), k, x)
<1>1. /\ Len(Append(s, e)) = Len(s) + 1 /\ Len(s) \in Nat
      /\ Append(s, e)[Len(s) + 1] = e
      /\ \A l \in 1 .. Len(s) : Append(s, e)[l] = s[l]
      OBVIOUS
<1>2. CASE x = e
      BY <1>1, <1>2 DEF Followed
<1>3. CASE Followed(s, k, x)
      BY <1>1, <1>3 DEF Followed
<1>4. QED  BY <1>2, <1>3

\* A receive keeps what waits behind the message it takes.
LEMMA FollowedTail ==
    ASSUME NEW S, NEW s \in Seq(S), s # <<>>, NEW k \in 1 .. Len(s), NEW x,
           Followed(s, k, x)
    PROVE  /\ x \in ToSet(Tail(s))
           /\ k # 1 => Followed(Tail(s), k - 1, x)
<1>1. PICK l \in 1 .. Len(s) : k < l /\ s[l] = x
      BY DEF Followed
<1>2. /\ Len(Tail(s)) = Len(s) - 1 /\ Len(s) \in Nat
      /\ l - 1 \in 1 .. Len(Tail(s)) /\ l - 1 \in DOMAIN Tail(s)
      /\ Tail(s)[l - 1] = x
      BY <1>1
<1>3. x \in ToSet(Tail(s))
      BY <1>2 DEF ToSet
<1>4. k # 1 => k - 1 < l - 1
      BY <1>1
<1>5. QED  BY <1>2, <1>3, <1>4 DEF Followed

-----------------------------------------------------------------------------
(***************************************************************************)
(* Numbered messages that pass through three channels in a row.  The       *)
(* messages that count in a channel are those in a set D; the others       *)
(* travel among them.                                                      *)
(***************************************************************************)
\* The numbers that wait in a channel.
Nums(s, D) == {s[k].n : k \in {j \in 1 .. Len(s) : s[j] \in D}}

\* They wait in the order of their numbers.
Rising(s, D) ==
    \A j, k \in 1 .. Len(s) : s[j] \in D /\ s[k] \in D /\ j < k => s[j].n < s[k].n

\* No two of them concern the same player.
Distinct(s, D) ==
    \A j, k \in 1 .. Len(s) : s[j] \in D /\ s[k] \in D /\ s[j].who = s[k].who => j = k

\* The channel s of messages in S becomes t, and no message that counts is sent or
\* taken.
Skip(s, t, S, D) ==
    \/ t = s
    \/ \E e \in S \ D : t = Append(s, e)
    \/ s # <<>> /\ Head(s) \notin D /\ t = Tail(s)

\* A set of numbers without a gap, beginning above d.
RunFrom(S, d) == \A n \in S : n \in Nat /\ n > d /\ \A m \in d + 1 .. n : m \in S

\* The numbers that wait, nearest to their destination first, are A, B and C; d is
\* the last one that has arrived.  They are in order, and none is missing before C.
Flow(A, B, C, d) ==
    /\ RunFrom(A \cup B, d)
    /\ \A x \in A, y \in B : x < y
    /\ \A x \in A \cup B, y \in C : x < y

\* Nothing is missing up to s, the last one sent.
Full(A, B, C, d, s) == d <= s /\ A \cup B \cup C = d + 1 .. s

\* A message is sent.
LEMMA NumsAppend ==
    ASSUME NEW S, NEW s \in Seq(S), NEW e \in S, NEW D
    PROVE  /\ Nums(Append(s, e), D) = Nums(s, D) \cup (IF e \in D THEN {e.n} ELSE {})
           /\ Rising(s, D) /\ (e \in D => \A n \in Nums(s, D) : n < e.n)
                 => Rising(Append(s, e), D)
<1> DEFINE t == Append(s, e)
<1>1. /\ Len(t) = Len(s) + 1 /\ Len(s) \in Nat /\ t[Len(s) + 1] = e
      /\ \A k \in 1 .. Len(s) : t[k] = s[k]
      OBVIOUS
<1> HIDE DEF t
<1>2. \A k : k \in 1 .. Len(t) <=> k \in 1 .. Len(s) \/ k = Len(s) + 1
      BY <1>1
<1>3. Nums(t, D) = Nums(s, D) \cup (IF e \in D THEN {e.n} ELSE {})
      BY <1>1, <1>2 DEF Nums
<1>4. ASSUME Rising(s, D), e \in D => \A n \in Nums(s, D) : n < e.n PROVE Rising(t, D)
  <2>1. SUFFICES ASSUME NEW j \in 1 .. Len(t), NEW k \in 1 .. Len(t),
                        t[j] \in D, t[k] \in D, j < k
                 PROVE  t[j].n < t[k].n
        BY DEF Rising
  <2>2. j \in 1 .. Len(s) /\ t[j] = s[j]
        BY <1>1, <2>1
  <2>3. CASE k = Len(s) + 1
    <3>1. s[j].n \in Nums(s, D)
          BY <2>1, <2>2 DEF Nums
    <3>2. t[k] = e
          BY <1>1, <2>3
    <3>3. QED  BY <1>4, <2>1, <2>2, <3>1, <3>2
  <2>4. CASE k \in 1 .. Len(s)
        BY <1>1, <1>4, <2>1, <2>2, <2>4 DEF Rising
  <2>5. QED  BY <1>2, <2>3, <2>4
<1>5. QED  BY <1>3, <1>4 DEF t

\* A message is taken: one that counts has the least number.
LEMMA NumsTail ==
    ASSUME NEW S, NEW s \in Seq(S), s # <<>>, NEW D, \A e \in S : e.n \in Nat
    PROVE  /\ Rising(s, D) => Rising(Tail(s), D)
           /\ Head(s) \notin D => Nums(Tail(s), D) = Nums(s, D)
           /\ Rising(s, D) /\ Head(s) \in D =>
                 /\ Head(s).n \in Nums(s, D)
                 /\ \A m \in Nums(s, D) : Head(s).n <= m
                 /\ Nums(Tail(s), D) = Nums(s, D) \ {Head(s).n}
<1> DEFINE t == Tail(s)
<1>1. /\ Len(s) \in Nat /\ Len(t) = Len(s) - 1
      /\ 1 \in 1 .. Len(s) /\ Head(s) = s[1]
      /\ \A k \in 1 .. Len(t) : t[k] = s[k + 1] /\ k + 1 \in 1 .. Len(s)
      /\ \A k \in 1 .. Len(s) : s[k].n \in Nat
      OBVIOUS
<1> HIDE DEF t
<1>2. ASSUME Rising(s, D) PROVE Rising(t, D)
  <2>1. SUFFICES ASSUME NEW j \in 1 .. Len(t), NEW k \in 1 .. Len(t),
                        t[j] \in D, t[k] \in D, j < k
                 PROVE  t[j].n < t[k].n
        BY DEF Rising
  <2>2. j + 1 < k + 1
        BY <2>1
  <2>3. QED  BY <1>1, <1>2, <2>1, <2>2 DEF Rising
<1>3. \A k \in 1 .. Len(s) : k # 1 => k - 1 \in 1 .. Len(t) /\ t[k - 1] = s[k]
      BY <1>1
<1>4. Nums(t, D) \subseteq Nums(s, D)
      BY <1>1 DEF Nums
<1>5. ASSUME NEW n \in Nums(s, D), n \notin Nums(t, D)
      PROVE  Head(s) \in D /\ n = Head(s).n
  <2>1. PICK k \in 1 .. Len(s) : s[k] \in D /\ n = s[k].n
        BY DEF Nums
  <2>2. k = 1
        BY <1>3, <1>5, <2>1 DEF Nums
  <2>3. QED  BY <1>1, <2>1, <2>2
<1>6. ASSUME Rising(s, D), Head(s) \in D
      PROVE  /\ Head(s).n \in Nums(s, D) /\ Head(s).n \notin Nums(t, D)
             /\ \A m \in Nums(s, D) : Head(s).n <= m
  <2>1. \A k \in 1 .. Len(t) : t[k] \in D => Head(s).n < t[k].n
        BY <1>1, <1>6 DEF Rising
  <2>2. \A m \in Nums(t, D) : Head(s).n < m
        BY <2>1 DEF Nums
  <2>3. Head(s).n \in Nums(s, D) /\ Head(s).n \in Nat
        BY <1>1, <1>6 DEF Nums
  <2>4. ASSUME NEW m \in Nums(s, D) PROVE Head(s).n <= m
    <3>1. m \in Nums(t, D) \/ m = Head(s).n
          BY <1>5
    <3>2. m \in Nat
          BY <1>1 DEF Nums
    <3>3. QED  BY <2>2, <2>3, <3>1, <3>2
  <2>5. Head(s).n \notin Nums(t, D)
        BY <2>2, <2>3
  <2>6. QED  BY <2>3, <2>4, <2>5
<1>7. QED  BY <1>2, <1>4, <1>5, <1>6 DEF t

\* Nothing waits in an empty channel.
LEMMA NumsEmpty ==
    ASSUME NEW D
    PROVE  Nums(<<>>, D) = {} /\ Rising(<<>>, D)
BY DEF Nums, Rising

\* The numbers in a channel are naturals.
LEMMA NumsNat ==
    ASSUME NEW S, NEW s \in Seq(S), NEW D, \A e \in S : e.n \in Nat
    PROVE  Nums(s, D) \subseteq Nat
BY DEF Nums

\* A receive keeps messages apart, and leaves no second one for the same player.
LEMMA DistinctTail ==
    ASSUME NEW S, NEW s \in Seq(S), s # <<>>, NEW D, Distinct(s, D)
    PROVE  /\ Distinct(Tail(s), D)
           /\ Head(s) \in D => \A m \in ToSet(Tail(s)) \cap D : m.who # Head(s).who
<1> DEFINE t == Tail(s)
<1>1. /\ Len(s) \in Nat /\ Len(t) = Len(s) - 1 /\ DOMAIN t = 1 .. Len(t)
      /\ 1 \in 1 .. Len(s) /\ Head(s) = s[1]
      /\ \A k \in 1 .. Len(t) : t[k] = s[k + 1] /\ k + 1 \in 1 .. Len(s)
      OBVIOUS
<1> HIDE DEF t
<1>2. Distinct(t, D)
  <2>1. SUFFICES ASSUME NEW j \in 1 .. Len(t), NEW k \in 1 .. Len(t),
                        t[j] \in D, t[k] \in D, t[j].who = t[k].who
                 PROVE  j = k
        BY DEF Distinct
  <2>2. j + 1 = k + 1
        BY <1>1, <2>1 DEF Distinct
  <2>3. QED  BY <2>2
<1>3. ASSUME Head(s) \in D, NEW m \in ToSet(t) \cap D, m.who = Head(s).who PROVE FALSE
  <2>1. PICK k \in 1 .. Len(t) : m = t[k]
        BY <1>1 DEF ToSet
  <2>2. k + 1 = 1
        BY <1>1, <1>3, <2>1 DEF Distinct
  <2>3. QED  BY <2>2
<1>4. QED  BY <1>2, <1>3 DEF t

\* A send keeps them apart if it is the first for its player.
LEMMA DistinctAppend ==
    ASSUME NEW S, NEW s \in Seq(S), NEW e \in S, NEW D, Distinct(s, D),
           e \in D => \A m \in ToSet(s) \cap D : m.who # e.who
    PROVE  Distinct(Append(s, e), D)
<1> DEFINE t == Append(s, e)
<1>1. /\ Len(t) = Len(s) + 1 /\ Len(s) \in Nat /\ t[Len(s) + 1] = e
      /\ \A k \in 1 .. Len(s) : t[k] = s[k] /\ s[k] \in ToSet(s)
      BY DEF ToSet
<1> HIDE DEF t
<1>2. SUFFICES ASSUME NEW j \in 1 .. Len(t), NEW k \in 1 .. Len(t),
                      t[j] \in D, t[k] \in D, t[j].who = t[k].who
               PROVE  j = k
      BY DEF Distinct, t
<1>3. j = Len(s) + 1 \/ j \in 1 .. Len(s)  BY <1>1
<1>4. k = Len(s) + 1 \/ k \in 1 .. Len(s)  BY <1>1
<1>5. QED  BY <1>1, <1>2, <1>3, <1>4 DEF Distinct

\* A step that neither sends nor takes a message that counts changes nothing of them.
LEMMA SkipKeeps ==
    ASSUME NEW S, NEW s \in Seq(S), NEW D, NEW t, Skip(s, t, S, D),
           \A e \in S : e.n \in Nat
    PROVE  /\ Nums(t, D) = Nums(s, D) /\ ToSet(t) \cap D = ToSet(s) \cap D
           /\ Rising(s, D) => Rising(t, D)
           /\ Distinct(s, D) => Distinct(t, D)
<1>1. CASE t = s
      BY <1>1
<1>2. ASSUME NEW e \in S \ D, t = Append(s, e)
      PROVE  /\ Nums(t, D) = Nums(s, D) /\ ToSet(t) \cap D = ToSet(s) \cap D
             /\ Rising(s, D) => Rising(t, D)
             /\ Distinct(s, D) => Distinct(t, D)
  <2>1. e \in S /\ e \notin D  OBVIOUS
  <2>2. Nums(t, D) = Nums(s, D) \cup {} /\ (Rising(s, D) => Rising(t, D))
        BY <1>2, <2>1, NumsAppend
  <2>3. Distinct(s, D) => Distinct(t, D)
        BY <1>2, <2>1, DistinctAppend
  <2>4. ToSet(t) = ToSet(s) \cup {e}
        BY <1>2, <2>1, ToSetAppend
  <2>5. QED  BY <2>1, <2>2, <2>3, <2>4
<1>3. CASE s # <<>> /\ Head(s) \notin D /\ t = Tail(s)
  <2>1. Nums(t, D) = Nums(s, D) /\ (Rising(s, D) => Rising(t, D))
        BY <1>3, NumsTail
  <2>2. Distinct(s, D) => Distinct(t, D)
        BY <1>3, DistinctTail
  <2>3. ToSet(s) = ToSet(t) \cup {Head(s)}
        BY <1>3, ToSetTail
  <2>4. QED  BY <1>3, <2>1, <2>2, <2>3
<1>4. QED  BY <1>1, <1>2, <1>3 DEF Skip

\* The numbers that wait stay the same, and in order.
KeepsNums(s, t, D) == Nums(t, D) = Nums(s, D) /\ (Rising(s, D) => Rising(t, D))

\* None or more messages that do not count are sent at once.
LEMMA KeptSends ==
    ASSUME NEW S, NEW s \in Seq(S), NEW D, \A e \in S : e.n \in Nat, NEW t,
           NEW x \in S \ D, NEW y \in S \ D,
           t = s \/ t = Append(s, x) \/ t = Append(Append(s, x), y)
    PROVE  KeepsNums(s, t, D)
<1>1. CASE t = s
      BY <1>1 DEF KeepsNums
<1>2. Skip(s, Append(s, x), S, D) /\ Append(s, x) \in Seq(S)
      BY ChannelTypes DEF Skip
<1>3. KeepsNums(s, Append(s, x), D)
      BY <1>2, SkipKeeps DEF KeepsNums
<1>4. Skip(Append(s, x), Append(Append(s, x), y), S, D)
      BY DEF Skip
<1>5. KeepsNums(Append(s, x), Append(Append(s, x), y), D)
      BY <1>2, <1>4, SkipKeeps DEF KeepsNums
<1>6. KeepsNums(s, Append(Append(s, x), y), D)
      BY <1>3, <1>5 DEF KeepsNums
<1>7. QED  BY <1>1, <1>3, <1>6

\* The sender puts the next number into the last channel.
LEMMA FlowSend ==
    ASSUME NEW A \in SUBSET Nat, NEW B \in SUBSET Nat, NEW C \in SUBSET Nat,
           NEW d \in Nat, NEW s \in Nat, Flow(A, B, C, d), Full(A, B, C, d, s)
    PROVE  /\ Flow(A, B, C \cup {s + 1}, d) /\ Full(A, B, C \cup {s + 1}, d, s + 1)
           /\ \A n \in C : n < s + 1
BY DEF Flow, Full, RunFrom

\* The least number of the last channel moves on to the second.
LEMMA FlowForward ==
    ASSUME NEW A \in SUBSET Nat, NEW B \in SUBSET Nat, NEW C \in SUBSET Nat,
           NEW d \in Nat, NEW s \in Nat, Flow(A, B, C, d), Full(A, B, C, d, s),
           NEW n \in C, \A m \in C : n <= m
    PROVE  /\ Flow(A, B \cup {n}, C \ {n}, d) /\ Full(A, B \cup {n}, C \ {n}, d, s)
           /\ \A m \in B : m < n
<1>1. /\ \A x \in A, y \in B : x < y
      /\ \A x \in A \cup B, y \in C : x < y
      /\ RunFrom(A \cup B, d)
      /\ d <= s /\ A \cup B \cup C = d + 1 .. s
      BY DEF Flow, Full
<1>2. \A x \in A, y \in B \cup {n} : x < y
      BY <1>1
<1>3. \A x \in A \cup (B \cup {n}), y \in C \ {n} : x < y
  <2>1. \A y \in C \ {n} : n < y
        OBVIOUS
  <2>2. QED  BY <1>1, <2>1
<1>4. RunFrom(A \cup (B \cup {n}), d)
  <2>1. n \in d + 1 .. s  BY <1>1
  <2>2. ASSUME NEW m \in d + 1 .. n PROVE m \in A \cup (B \cup {n})
    <3>1. m \in A \cup B \cup C  BY <1>1, <2>1
    <3>2. m \in C => m = n  BY <2>2
    <3>3. QED  BY <3>1, <3>2
  <2>3. QED  BY <1>1, <2>1, <2>2 DEF RunFrom
<1>5. A \cup (B \cup {n}) \cup (C \ {n}) = d + 1 .. s
      BY <1>1
<1>6. QED  BY <1>1, <1>2, <1>3, <1>4, <1>5 DEF Flow, Full

\* The least number of the second channel moves on to the first.
LEMMA FlowDeliver ==
    ASSUME NEW A \in SUBSET Nat, NEW B \in SUBSET Nat, NEW C \in SUBSET Nat,
           NEW d \in Nat, NEW s, RunFrom(A, d), Flow(A, B, C, d),
           NEW n \in B, \A m \in B : n <= m
    PROVE  /\ RunFrom(A \cup {n}, d) /\ Flow(A \cup {n}, B \ {n}, C, d)
           /\ Full(A, B, C, d, s) => Full(A \cup {n}, B \ {n}, C, d, s)
           /\ \A m \in A : m < n
<1>1. /\ \A x \in A, y \in B : x < y
      /\ \A x \in A \cup B, y \in C : x < y
      /\ RunFrom(A \cup B, d)
      BY DEF Flow
<1>2. RunFrom(A \cup {n}, d)
  <2>1. n > d /\ \A m \in d + 1 .. n : m \in A \cup B
        BY <1>1 DEF RunFrom
  <2>2. ASSUME NEW m \in d + 1 .. n PROVE m \in A \cup {n}
    <3>1. m \in B => m = n  BY <2>2
    <3>2. QED  BY <2>1, <3>1
  <2>3. QED  BY <2>1, <2>2 DEF RunFrom
<1>3. \A x \in A \cup {n}, y \in B \ {n} : x < y
  <2>1. \A y \in B \ {n} : n < y  OBVIOUS
  <2>2. QED  BY <1>1, <2>1
<1>4. (A \cup {n}) \cup (B \ {n}) = A \cup B
      OBVIOUS
<1>5. QED  BY <1>1, <1>2, <1>3, <1>4 DEF Flow, Full

\* The least number of the first channel arrives: it is the next one.
LEMMA FlowArrive ==
    ASSUME NEW A \in SUBSET Nat, NEW B \in SUBSET Nat, NEW C \in SUBSET Nat,
           NEW d \in Nat, NEW s \in Nat, RunFrom(A, d),
           NEW n \in A, \A m \in A : n <= m
    PROVE  /\ n = d + 1 /\ RunFrom(A \ {n}, n)
           /\ Flow(A, B, C, d) =>
                 /\ Flow(A \ {n}, B, C, n)
                 /\ Full(A, B, C, d, s) => Full(A \ {n}, B, C, n, s)
<1>1. n = d + 1
  <2>1. n > d /\ d + 1 \in A
        BY DEF RunFrom
  <2>2. QED  BY <2>1
<1>2. RunFrom(A \ {n}, n)
      BY <1>1 DEF RunFrom
<1>3. ASSUME Flow(A, B, C, d)
      PROVE  /\ Flow(A \ {n}, B, C, n)
             /\ Full(A, B, C, d, s) => Full(A \ {n}, B, C, n, s)
  <2>1. /\ \A x \in A, y \in B : x < y
        /\ \A x \in A \cup B, y \in C : x < y
        /\ RunFrom(A \cup B, d)
        BY <1>3 DEF Flow
  <2>2. n \notin B /\ n \notin C
        BY <2>1
  <2>3. RunFrom((A \ {n}) \cup B, n)
        BY <1>1, <2>1, <2>2 DEF RunFrom
  <2>4. ASSUME d <= s, A \cup B \cup C = d + 1 .. s
        PROVE  n <= s /\ (A \ {n}) \cup B \cup C = n + 1 .. s
        BY <1>1, <2>2, <2>4
  <2>5. QED  BY <2>1, <2>3, <2>4 DEF Flow, Full
<1>4. QED  BY <1>1, <1>2, <1>3

\* The last channel is dropped.
LEMMA FlowDrop ==
    ASSUME NEW A, NEW B, NEW C, NEW d, Flow(A, B, C, d)
    PROVE  Flow(A, B, {}, d)
BY DEF Flow
=============================================================================
