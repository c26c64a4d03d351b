------------------------ MODULE ServerSessionProofs ------------------------
(***************************************************************************)
(* Proofs about ServerSession, for every number of players and slots and   *)
(* every behaviour of the client.  The safety properties are not inductive *)
(* one by one: that a slot belongs to the player that was told its number  *)
(* rests on requests being queued once, by players that have no id yet, and*)
(* that joins precede data rests on queued data coming from players that   *)
(* have one.  IInv states these facts together; every action preserves it. *)
(***************************************************************************)
EXTENDS ServerSession, ChannelLemmas

\* The Boolean flags of the connection.
FlagsOK ==
    toClientClosed \in BOOLEAN /\ toServerClosed \in BOOLEAN /\ broken \in BOOLEAN

\* TypeOK without those flags.
DataOK ==
    /\ toClient \in Seq(SocketPacket)
    /\ toServer \in Seq(SocketPacket)
    /\ clients_id \in [ClientID -> Owner]
    /\ rx \in Seq(ClientToProxy)
    /\ reader \in {"run", "ended"}
    /\ writer \in {"run", "ended"}
    /\ handle \in {"select", "removing", "returned"}
    /\ mc \in [Players -> {"idle", "wait_id", "running", "done"}]
    /\ id \in [Players -> ClientID \cup {NoID}]
    /\ mcRx \in [Players -> Seq(McData)]
    /\ mcReader \in [Players -> {"off", "run", "ended"}]
    /\ mcWriter \in [Players -> {"off", "run", "ended"}]
    /\ sent \in [Players -> 0 .. MaxSent]
    /\ rcvd \in [Players -> Nat]

\* The type invariant is its two parts; the provers treat flags and data
\* apart.
LEMMA TypeParts == TypeOK <=> FlagsOK /\ DataOK
BY DEF TypeOK, WireTypeOK, FlagsOK, DataOK, Slots

\* insert takes a slot that is free, whenever there is one.
LEMMA FirstFreeIsFree ==
    ASSUME NEW slots, FreeSlots(slots) # {}
    PROVE  FirstFree(slots) \in FreeSlots(slots)
<1>1. FreeSlots(slots) \subseteq Nat
      BY DEF FreeSlots, ClientID
<1>2. QED  BY <1>1, NatSetHasMin DEF FirstFree

\* Every step keeps the flags of the connection Boolean.
LEMMA FlagsStep == FlagsOK /\ [Next]_vars => FlagsOK'
<1> SUFFICES ASSUME FlagsOK, [Next]_vars PROVE FlagsOK'
    OBVIOUS
<1> USE DEF FlagsOK, wireVars
<1>1. CASE ReaderNext
      BY <1>1, Zenon DEF ReaderNext, ReaderDisconnect, ReaderData, ReaderPing,
         ReaderUnexpected, ReaderClosed, ReaderFails, ReaderEnds
<1>2. CASE WriterNext
      BY <1>2, Zenon DEF WriterNext, WriterAdd, WriterTooManyClients, WriterPacket,
         WriterPong, WriterRemove, WriterFails, WriterEnds
<1>3. CASE HandleNext
      BY <1>3, Zenon DEF HandleNext, HandleSelect, HandleReturns, ReaderAborted,
         WriterAborted, ReaderEnds, WriterEnds
<1>4. ASSUME NEW p \in Players, PlayerNext(p) PROVE FlagsOK'
      BY <1>4, Zenon DEF PlayerNext, PlayerConnect, PlayerStart, PlayerNoId, PlayerReads,
         PlayerLeaves, PlayerWrites, PlayerWriteFails, PlayerChannelClosed, PlayerEnds,
         PlayerAborted
<1>5. CASE EnvNext
      BY <1>5, Zenon DEF EnvNext, EnvSends, EnvReceives, EnvCloses, LinkBreaks
<1>6. CASE Finished \/ UNCHANGED vars
      BY <1>6, Zenon DEF Finished, vars
<1>7. QED  BY <1>1, <1>2, <1>3, <1>4, <1>5, <1>6 DEF Next, ServerNext

\* The messages of the writer's channel have its type.
LEMMA MessageTypes ==
    /\ \A i \in ClientID \cup {NoID}, p \in Owner, n \in Nat :
          Packet(i, p, n) \in ClientToProxy
    /\ \A p \in Players : AddMinecraftClient(p) \in ClientToProxy
    /\ \A i \in ClientID \cup {NoID} : RemoveMinecraftClient(i) \in ClientToProxy
    /\ AnswerPingPacket \in ClientToProxy
    /\ \A m \in ClientToProxy : m.id \in ClientID \cup {NoID} /\ m.who \in Owner /\ m.n \in Nat
BY DEF ClientToProxy, Packet, AddMinecraftClient, RemoveMinecraftClient,
       AnswerPingPacket, Owner

\* The packets on the connection have their type, and their data fits a
\* player's channel.
LEMMA PacketTypes ==
    /\ \A i \in ClientID, p \in Owner : ProxyJoin(i, p) \in SocketPacket
    /\ \A i \in WireID \cup {NoID}, p \in Owner, n \in Nat :
          ProxyData(i, p, n) \in SocketPacket
    /\ \A i \in WireID \cup {NoID} : ProxyDisconnect(i) \in SocketPacket
    /\ ProxyPing \in SocketPacket /\ ProxyPong \in SocketPacket
    /\ \A m \in SocketPacket : m.id \in WireID \cup {NoID} /\ m.who \in Owner /\ m.n \in Nat
    /\ \A m \in SocketPacket : [who |-> m.who, n |-> m.n] \in McData
BY WireAssumption
DEF SocketPacket, ProxyJoin, ProxyData, ProxyDisconnect, ProxyPing, ProxyPong,
    Owner, ClientID, WireID, McData, WireAssumption

\* The fields of what waits in a player's channel.
LEMMA McDataTypes == \A m \in McData : m.who \in Owner /\ m.n \in Nat
BY DEF McData

\* Slot numbers can be sent, and the two "none" values are not numbers or
\* players.
LEMMA IdTypes ==
    /\ ClientID \subseteq WireID
    /\ NoID \notin ClientID
    /\ NoPlayer \in Owner
    /\ Players \subseteq Owner
BY WireAssumption DEF WireAssumption, ClientID, WireID, NoID, Owner

\* Every step keeps the types of all but the flags, one case per action.
LEMMA DataStep == DataOK /\ [Next]_vars => DataOK'
<1> SUFFICES ASSUME DataOK, [Next]_vars PROVE DataOK'
    OBVIOUS
<1> USE DEF DataOK, wireVars, sessionVars, playerVars, serverVars
<1>1. CASE ReaderNext
  <2>0. reader = "run" /\ toServer # <<>> => Head(toServer) \in SocketPacket
                                              /\ Tail(toServer) \in Seq(SocketPacket)
        BY ChannelTypes
  <2>1. CASE ReaderDisconnect
        BY <2>0, <2>1, IdTypes DEF ReaderDisconnect, ReaderReceives, remove_by_id
  <2>2. CASE ReaderData
    <3>1. toServer' \in Seq(SocketPacket)
          BY <2>0, <2>2 DEF ReaderData, ReaderReceives
    <3>2. Head(toServer).id \in WireID \cup {NoID}
          /\ [who |-> Head(toServer).who, n |-> Head(toServer).n] \in McData
          BY <2>0, <2>2, PacketTypes DEF ReaderData, ReaderReceives
    <3>3. mcRx' \in [Players -> Seq(McData)]
          BY <2>2, <3>2, ChannelTypes DEF ReaderData
    <3>4. QED  BY <2>2, <3>1, <3>3 DEF ReaderData
  <2>3. CASE ReaderPing
    <3>1. rx' \in Seq(ClientToProxy)
          BY <2>3, MessageTypes, ChannelTypes DEF ReaderPing
    <3>2. QED  BY <2>0, <2>3, <3>1 DEF ReaderPing, ReaderReceives
  <2>4. CASE ReaderUnexpected
        BY <2>0, <2>4 DEF ReaderUnexpected, ReaderReceives
  <2>5. CASE ReaderClosed \/ ReaderFails
        BY <2>5 DEF ReaderClosed, ReaderFails, ReaderEnds
  <2>6. QED  BY <1>1, <2>1, <2>2, <2>3, <2>4, <2>5 DEF ReaderNext
<1>2. CASE WriterNext
  <2>0. rx # <<>> => Head(rx) \in ClientToProxy /\ Tail(rx) \in Seq(ClientToProxy)
        BY ChannelTypes
  <2>1. CASE WriterAdd
    <3>1. FirstFree(clients_id) \in ClientID
          BY <2>1, FirstFreeIsFree DEF WriterAdd, FreeSlots
    <3>2. Head(rx).who \in Owner /\ rx' \in Seq(ClientToProxy)
          BY <2>0, <2>1, MessageTypes DEF WriterAdd, WriterReceives
    <3>3. toClient' \in Seq(SocketPacket)
          BY <2>1, <3>1, <3>2, PacketTypes, ChannelTypes DEF WriterAdd
    <3>4. QED  BY <2>1, <3>1, <3>2, <3>3 DEF WriterAdd, insert
  <2>2. CASE WriterTooManyClients \/ WriterFails
    <3>1. writer' = "ended" /\ rx' = <<>>
          BY <2>2 DEF WriterTooManyClients, WriterFails, WriterEnds
    <3>2. QED  BY <2>2, <3>1, ChannelTypes DEF WriterTooManyClients, WriterFails
  <2>3. CASE WriterPacket
    <3>1. rx' \in Seq(ClientToProxy)
          /\ Head(rx).id \in WireID \cup {NoID} /\ Head(rx).who \in Owner /\ Head(rx).n \in Nat
          BY <2>0, <2>3, MessageTypes, IdTypes DEF WriterPacket, WriterReceives
    <3>2. toClient' \in Seq(SocketPacket)
          BY <2>3, <3>1, PacketTypes, ChannelTypes DEF WriterPacket
    <3>3. QED  BY <2>3, <3>1, <3>2 DEF WriterPacket
  <2>4. CASE WriterPong
    <3>1. toClient' \in Seq(SocketPacket)
          BY <2>4, PacketTypes, ChannelTypes DEF WriterPong
    <3>2. QED  BY <2>0, <2>4, <3>1 DEF WriterPong, WriterReceives
  <2>5. CASE WriterRemove
    <3>1. rx' \in Seq(ClientToProxy) /\ Head(rx).id \in ClientID \cup {NoID}
          BY <2>0, <2>5, MessageTypes DEF WriterRemove, WriterReceives
    <3>2. toClient' \in Seq(SocketPacket)
          BY <2>5, <3>1, IdTypes, PacketTypes, ChannelTypes DEF WriterRemove
    <3>3. clients_id' \in [ClientID -> Owner]
          BY <2>5, <3>1, IdTypes DEF WriterRemove, remove_by_id
    <3>4. QED  BY <2>5, <3>1, <3>2, <3>3 DEF WriterRemove
  <2>6. QED  BY <1>2, <2>1, <2>2, <2>3, <2>4, <2>5 DEF WriterNext
<1>3. CASE HandleNext
  <2>1. CASE HandleSelect \/ HandleReturns
        BY <2>1 DEF HandleSelect, HandleReturns
  <2>2. CASE ReaderAborted
        BY <2>2 DEF ReaderAborted, ReaderEnds
  <2>3. CASE WriterAborted
    <3>1. writer' = "ended" /\ rx' = <<>>
          BY <2>3 DEF WriterAborted, WriterEnds
    <3>2. QED  BY <2>3, <3>1, ChannelTypes DEF WriterAborted
  <2>4. QED  BY <1>3, <2>1, <2>2, <2>3 DEF HandleNext
<1>4. ASSUME NEW p \in Players, PlayerNext(p) PROVE DataOK'
  <2>0. id[p] \in ClientID \cup {NoID} /\ p \in Owner
        BY IdTypes
  <2>1. CASE PlayerConnect(p)
    <3>1. AddMinecraftClient(p) \in ClientToProxy
          BY MessageTypes
    <3>2. rx' = rx \/ rx' = Append(rx, AddMinecraftClient(p))
          BY <2>1 DEF PlayerConnect
    <3>3. rx' \in Seq(ClientToProxy)
          BY <3>1, <3>2, SendTyped
    <3>4. QED  BY <2>1, <3>3 DEF PlayerConnect
  <2>2. CASE PlayerStart(p)
    <3>1. Packet(id[p], p, 1) \in ClientToProxy
          BY <2>0, MessageTypes
    <3>2. rx' = rx \/ rx' = Append(rx, Packet(id[p], p, 1))
          BY <2>2 DEF PlayerStart
    <3>3. rx' \in Seq(ClientToProxy)
          BY <3>1, <3>2, SendTyped
    <3>4. sent' \in [Players -> 0 .. MaxSent]
      <4>1. 1 \in 0 .. MaxSent
            BY SessionAssumption DEF SessionAssumption
      <4>2. sent' = sent \/ sent' = [sent EXCEPT ![p] = 1]
            BY <2>2, Zenon DEF PlayerStart
      <4>3. QED  BY <4>1, <4>2, Zenon
    <3>5. mcRx' \in [Players -> Seq(McData)]
      <4>1. mcRx' = mcRx \/ mcRx' = [mcRx EXCEPT ![p] = <<>>]
            BY <2>2 DEF PlayerStart
      <4>2. [mcRx EXCEPT ![p] = <<>>] \in [Players -> Seq(McData)]
            OBVIOUS
      <4>3. QED  BY <4>1, <4>2, Zenon
    <3>6. QED  BY <2>2, <3>3, <3>4, <3>5 DEF PlayerStart
  <2>3. CASE PlayerNoId(p)
        BY <2>3 DEF PlayerNoId
  <2>4. CASE PlayerReads(p)
    <3>1. sent[p] + 1 \in 0 .. MaxSent /\ sent[p] + 1 \in Nat
          BY <2>4, SessionAssumption DEF PlayerReads, SessionAssumption
    <3>2. Packet(id[p], p, sent[p] + 1) \in ClientToProxy
          BY <2>0, <3>1, MessageTypes
    <3>3. rx' = rx \/ rx' = Append(rx, Packet(id[p], p, sent[p] + 1))
          BY <2>4 DEF PlayerReads
    <3>4. rx' \in Seq(ClientToProxy)
          BY <3>2, <3>3, SendTyped
    <3>5. sent' \in [Players -> 0 .. MaxSent]
          BY <2>4, <3>1 DEF PlayerReads
    <3>6. QED  BY <2>4, <3>4, <3>5 DEF PlayerReads
  <2>5. CASE PlayerLeaves(p)
        BY <2>5 DEF PlayerLeaves
  <2>6. CASE PlayerWrites(p)
    <3>1. Head(mcRx[p]).n \in Nat /\ Tail(mcRx[p]) \in Seq(McData)
          BY <2>6, ChannelTypes, McDataTypes DEF PlayerWrites
    <3>2. QED  BY <2>6, <3>1 DEF PlayerWrites
  <2>7. CASE PlayerWriteFails(p) \/ PlayerAborted(p)
    <3>1. mcRx' = [mcRx EXCEPT ![p] = <<>>]
          BY <2>7 DEF PlayerWriteFails, PlayerAborted
    <3>2. mcRx' \in [Players -> Seq(McData)]
          BY <3>1, ChannelTypes
    <3>3. QED  BY <2>7, <3>2 DEF PlayerWriteFails, PlayerAborted
  <2>8. CASE PlayerChannelClosed(p)
        BY <2>8 DEF PlayerChannelClosed
  <2>9. CASE PlayerEnds(p)
    <3>1. rx' \in Seq(ClientToProxy)
          BY <2>0, <2>9, MessageTypes, ChannelTypes DEF PlayerEnds
    <3>2. QED  BY <2>9, <3>1 DEF PlayerEnds
  <2>10. QED  BY <1>4, <2>1, <2>2, <2>3, <2>4, <2>5, <2>6, <2>7, <2>8, <2>9 DEF PlayerNext
<1>5. CASE EnvNext
  <2>1. CASE EnvSends
    <3>1. EnvPackets \subseteq SocketPacket
          BY PacketTypes, IdTypes DEF EnvPackets
    <3>2. toServer' \in Seq(SocketPacket)
          BY <2>1, <3>1, ChannelTypes DEF EnvSends
    <3>3. QED  BY <2>1, <3>2 DEF EnvSends
  <2>2. CASE EnvReceives
        BY <2>2, ChannelTypes DEF EnvReceives
  <2>3. CASE EnvCloses \/ (LinkBreaks /\ UNCHANGED serverVars)
        BY <2>3 DEF EnvCloses, LinkBreaks
  <2>4. QED  BY <1>5, <2>1, <2>2, <2>3 DEF EnvNext
<1>6. CASE Finished \/ UNCHANGED vars
      BY <1>6 DEF Finished, vars
<1>7. QED  BY <1>1, <1>2, <1>3, <1>4, <1>5, <1>6 DEF Next, ServerNext

-----------------------------------------------------------------------------
(* The inductive invariant.                                                *)

\* What a player knows at each stage: its id is unknown before the writer has
\* served its request, and known as soon as it can send data.
IdKnown ==
    \A p \in Players :
        /\ mc[p] = "idle" => id[p] = NoID
        /\ mc[p] = "running" \/ mcReader[p] = "run" => id[p] # NoID

\* The channel is dropped with its receiver.
ChannelDropped == writer = "ended" => rx = <<>>

\* A queued request belongs to a player that waits and has no id yet.
AddsWait ==
    \A m \in ToSet(rx) :
        m.type = "AddMinecraftClient" =>
            /\ m.who \in Players /\ m = AddMinecraftClient(m.who)
            /\ mc[m.who] = "wait_id" /\ id[m.who] = NoID

\* A player asks for one slot only.
Once(s) ==
    \A j, k \in 1 .. Len(s) : s[j].type = "AddMinecraftClient" /\ s[j] = s[k] => j = k

AddsOnce == Once(rx)

\* Queued data carries the id of the player it comes from.
QueuedOwned ==
    \A m \in ToSet(rx) :
        m.type = "Packet" => m.who \in Players /\ id[m.who] # NoID /\ m.id = id[m.who]

\* So does data on the stream to the client.
StreamOwned ==
    \A k \in 1 .. Len(toClient) :
        toClient[k].type = "ProxyData" =>
            /\ toClient[k].who \in Players
            /\ id[toClient[k].who] # NoID /\ toClient[k].id = id[toClient[k].who]

\* A join names a player and a slot.
JoinsNamed ==
    \A k \in 1 .. Len(toClient) :
        toClient[k].type = "ProxyJoin" =>
            toClient[k].who \in Players /\ toClient[k].id \in ClientID

\* The second half of JoinBeforeData.
NoLateJoin ==
    \A j, k \in 1 .. Len(toClient) :
        toClient[k].type = "ProxyData" /\ toClient[j].type = "ProxyJoin" /\ k <= j =>
            toClient[j].who # toClient[k].who

\* The three parts: the channel, the slots and ids, the stream to the client.
ChannelInv == ChannelDropped /\ AddsWait /\ AddsOnce /\ QueuedOwned
SlotInv    == IdKnown /\ SlotOwnership /\ NoSlotLeak /\ WaiterServed
StreamInv  == StreamOwned /\ JoinsNamed /\ NoLateJoin

\* What is preserved besides the types, and all of it.
Core == ChannelInv /\ SlotInv /\ StreamInv

IInv == TypeOK /\ Core

-----------------------------------------------------------------------------
(* Requests stay unique in a channel.                                      *)

\* A new request keeps requests unique if it is not queued already.
LEMMA OnceAppend ==
    ASSUME NEW S, NEW s \in Seq(S), NEW e \in S, Once(s),
           e.type # "AddMinecraftClient" \/ e \notin ToSet(s)
    PROVE  Once(Append(s, e))
<1> DEFINE t == Append(s, e)
<1>1. /\ Len(t) = Len(s) + 1 /\ Len(s) \in Nat
      /\ t[Len(s) + 1] = e
      /\ \A k \in 1 .. Len(s) : t[k] = s[k] /\ s[k] \in ToSet(s)
      BY DEF ToSet
<1> HIDE DEF t
<1>2. SUFFICES ASSUME NEW j \in 1 .. Len(s) + 1, NEW k \in 1 .. Len(s) + 1,
                      t[j].type = "AddMinecraftClient", t[j] = t[k]
               PROVE  j = k
      BY <1>1 DEF Once, t
<1>3. j = Len(s) + 1 \/ j \in 1 .. Len(s)  BY <1>1
<1>4. k = Len(s) + 1 \/ k \in 1 .. Len(s)  BY <1>1
<1>5. QED  BY <1>1, <1>2, <1>3, <1>4 DEF Once

\* Serving a request leaves no second copy of it behind.
LEMMA OnceTail ==
    ASSUME NEW S, NEW s \in Seq(S), s # <<>>, Once(s)
    PROVE  /\ Once(Tail(s))
           /\ Head(s).type = "AddMinecraftClient" => Head(s) \notin ToSet(Tail(s))
<1> DEFINE t == Tail(s)
<1>1. /\ Len(s) \in Nat /\ Len(t) = Len(s) - 1 /\ DOMAIN t = 1 .. Len(t)
      /\ 1 \in 1 .. Len(s) /\ Head(s) = s[1]
      /\ \A k \in 1 .. Len(t) : t[k] = s[k + 1] /\ k + 1 \in 1 .. Len(s)
      OBVIOUS
<1> HIDE DEF t
<1>2. Once(t)
      BY <1>1 DEF Once
<1>3. ASSUME Head(s).type = "AddMinecraftClient", NEW k \in 1 .. Len(t), t[k] = Head(s)
      PROVE  FALSE
      BY <1>1, <1>3 DEF Once
<1>4. QED  BY <1>1, <1>2, <1>3 DEF t, ToSet

-----------------------------------------------------------------------------
(* Every step preserves the invariant.                                     *)

\* The steps that leave alone all that the invariant speaks of, except that a
\* client_reader may end.
Inert ==
    /\ UNCHANGED <<clients_id, rx, writer, mc, id, toClient>>
    /\ \A p \in Players : mcReader'[p] = "run" => mcReader[p] = "run"

\* The actions that leave alone what the invariant speaks of.
LEMMA InertSteps ==
    ASSUME TypeOK,
           \/ ReaderData \/ ReaderUnexpected \/ ReaderClosed \/ ReaderFails
           \/ HandleSelect \/ HandleReturns \/ ReaderAborted
           \/ \E p \in Players : \/ PlayerLeaves(p) \/ PlayerWrites(p) \/ PlayerWriteFails(p)
                                 \/ PlayerChannelClosed(p) \/ PlayerAborted(p)
           \/ EnvSends \/ EnvCloses \/ (LinkBreaks /\ UNCHANGED serverVars)
           \/ Finished \/ UNCHANGED vars
    PROVE  Inert
<1> USE DEF Inert, wireVars, sessionVars, playerVars, serverVars, vars
<1>0. DataOK  BY TypeParts
<1>1. CASE ReaderData \/ ReaderUnexpected \/ ReaderClosed \/ ReaderFails
      BY <1>1, Zenon DEF ReaderData, ReaderUnexpected, ReaderClosed, ReaderFails
<1>2. CASE HandleSelect \/ HandleReturns \/ ReaderAborted
      BY <1>2, Zenon DEF HandleSelect, HandleReturns, ReaderAborted
<1>3. ASSUME NEW p \in Players, PlayerLeaves(p) \/ PlayerAborted(p) PROVE Inert
      BY <1>0, <1>3 DEF PlayerLeaves, PlayerAborted, DataOK
<1>4. ASSUME NEW p \in Players,
             PlayerWrites(p) \/ PlayerWriteFails(p) \/ PlayerChannelClosed(p)
      PROVE  Inert
      BY <1>4, Zenon DEF PlayerWrites, PlayerWriteFails, PlayerChannelClosed
<1>5. CASE EnvSends \/ EnvCloses \/ (LinkBreaks /\ UNCHANGED serverVars)
      BY <1>5, Zenon DEF EnvSends, EnvCloses, LinkBreaks
<1>6. CASE Finished \/ UNCHANGED vars
      BY <1>6, Zenon DEF Finished
<1>7. QED  BY <1>1, <1>2, <1>3, <1>4, <1>5, <1>6

\* Such a step preserves the invariant.
LEMMA InertStep == IInv /\ Inert => Core'
<1> SUFFICES ASSUME IInv, Inert PROVE Core'
    OBVIOUS
<1> USE DEF IInv, Core, Inert
<1>1. ChannelInv'
      BY Zenon DEF ChannelInv, ChannelDropped, AddsWait, AddsOnce, QueuedOwned
<1>2. IdKnown'
      BY DEF SlotInv, IdKnown
<1>3. (SlotOwnership /\ NoSlotLeak /\ WaiterServed)'
      BY Zenon DEF SlotInv, SlotOwnership, NoSlotLeak, WaiterServed
<1>4. StreamInv'
      BY DEF StreamInv, StreamOwned, JoinsNamed, NoLateJoin
<1>5. QED  BY <1>1, <1>2, <1>3, <1>4 DEF SlotInv

\* The kinds of messages are told apart by their type, who they concern by
\* their fields.
LEMMA MessageKinds ==
    /\ \A i, p, n : Packet(i, p, n).type = "Packet" /\ Packet(i, p, n).who = p
                    /\ Packet(i, p, n).id = i
    /\ \A p : AddMinecraftClient(p).type = "AddMinecraftClient"
              /\ AddMinecraftClient(p).who = p
    /\ \A i : RemoveMinecraftClient(i).type = "RemoveMinecraftClient"
              /\ RemoveMinecraftClient(i).id = i
    /\ AnswerPingPacket.type = "AnswerPingPacket"
BY DEF Packet, AddMinecraftClient, RemoveMinecraftClient, AnswerPingPacket

\* What a receive does to the set of queued messages.
LEMMA TakeFacts ==
    ASSUME rx \in Seq(ClientToProxy), rx # <<>>, Once(rx), rx' = Tail(rx)
    PROVE  /\ ToSet(rx) = ToSet(rx') \cup {Head(rx)}
           /\ Once(rx')
           /\ Head(rx).type = "AddMinecraftClient" => Head(rx) \notin ToSet(rx')
           /\ \A x : Contains(rx, x) <=> x \in ToSet(rx)
           /\ \A x : Contains(rx', x) <=> x \in ToSet(rx')
<1>1. Tail(rx) \in Seq(ClientToProxy)
      BY ChannelTypes
<1>2. QED  BY <1>1, ToSetTail, OnceTail, ContainsToSet

\* The same for a send.
LEMMA SendFacts ==
    ASSUME rx \in Seq(ClientToProxy), NEW m \in ClientToProxy, Once(rx),
           rx' = Append(rx, m), m.type # "AddMinecraftClient" \/ m \notin ToSet(rx)
    PROVE  /\ ToSet(rx') = ToSet(rx) \cup {m}
           /\ Once(rx')
           /\ \A x : Contains(rx, x) <=> x \in ToSet(rx)
           /\ \A x : Contains(rx', x) <=> x \in ToSet(rx')
<1>1. Append(rx, m) \in Seq(ClientToProxy)
      BY ChannelTypes
<1>2. ToSet(rx') = ToSet(rx) \cup {m}
      BY ToSetAppend
<1>3. Once(Append(rx, m))
      BY OnceAppend
<1>4. \A x : Contains(rx, x) <=> x \in ToSet(rx)
      BY ContainsToSet
<1>5. \A x : Contains(Append(rx, m), x) <=> x \in ToSet(Append(rx, m))
      BY <1>1, ContainsToSet
<1>6. QED  BY <1>2, <1>3, <1>4, <1>5

\* handle_reader empties a slot: the player that had it keeps its id, and
\* nobody else is touched.
LEMMA ReaderDisconnectStep == IInv /\ ReaderDisconnect => Core'
<1> SUFFICES ASSUME IInv, ReaderDisconnect PROVE Core'
    OBVIOUS
<1>0. DataOK  BY TypeParts DEF IInv
<1>1. \A i \in ClientID : clients_id'[i] \in {clients_id[i], NoPlayer}
      BY <1>0 DEF DataOK, ReaderDisconnect, remove_by_id
<1>2. UNCHANGED <<rx, writer, mc, id, mcReader, toClient>>
      BY DEF ReaderDisconnect, playerVars
<1>3. ChannelInv' /\ IdKnown' /\ WaiterServed'
      BY <1>2, Zenon DEF IInv, Core, ChannelInv, ChannelDropped, AddsWait, AddsOnce, QueuedOwned,
         SlotInv, IdKnown, WaiterServed
<1>4. SlotOwnership' /\ NoSlotLeak'
      BY <1>1, <1>2, WireAssumption
      DEF IInv, Core, SlotInv, SlotOwnership, NoSlotLeak, WireAssumption
<1>5. StreamInv'
      BY <1>2 DEF IInv, Core, StreamInv, StreamOwned, JoinsNamed, NoLateJoin
<1>6. QED  BY <1>3, <1>4, <1>5 DEF Core, SlotInv

\* A ping puts an answer into the channel, or nothing if the writer is gone.
LEMMA ReaderPingStep == IInv /\ ReaderPing => Core'
<1> SUFFICES ASSUME IInv, ReaderPing PROVE Core'
    OBVIOUS
<1>0. DataOK /\ Once(rx) /\ writer \in {"run", "ended"}
      BY TypeParts DEF IInv, Core, ChannelInv, AddsOnce, DataOK
<1>1. UNCHANGED <<clients_id, writer, mc, id, mcReader, toClient>>
      BY DEF ReaderPing, playerVars
<1>2. CASE writer # "run"
  <2>1. Inert  BY <1>1, <1>2 DEF Inert, ReaderPing
  <2>2. QED    BY <2>1, InertStep
<1>3. CASE writer = "run"
  <2>1. rx' = Append(rx, AnswerPingPacket)
        BY <1>3 DEF ReaderPing
  <2>2. /\ ToSet(rx') = ToSet(rx) \cup {AnswerPingPacket}
        /\ Once(rx')
        /\ \A x : Contains(rx, x) <=> x \in ToSet(rx)
        /\ \A x : Contains(rx', x) <=> x \in ToSet(rx')
        BY <1>0, <2>1, SendFacts, MessageTypes, MessageKinds DEF DataOK
  <2>3. ChannelInv'
        BY <1>1, <1>3, <2>2, MessageKinds
        DEF IInv, Core, ChannelInv, ChannelDropped, AddsWait, AddsOnce, QueuedOwned
  <2>4. SlotInv'
        BY <1>1, <2>2, MessageKinds
        DEF IInv, Core, SlotInv, IdKnown, SlotOwnership, NoSlotLeak, WaiterServed
  <2>5. StreamInv'
        BY <1>1 DEF IInv, Core, StreamInv, StreamOwned, JoinsNamed, NoLateJoin
  <2>6. QED  BY <2>3, <2>4, <2>5 DEF Core
<1>4. QED  BY <1>2, <1>3

\* Tail of the stream to the client.
LEMMA EnvReceivesStep == IInv /\ EnvReceives => Core'
<1> SUFFICES ASSUME IInv, EnvReceives PROVE Core'
    OBVIOUS
<1>0. DataOK  BY TypeParts DEF IInv
<1>1. UNCHANGED <<clients_id, rx, writer, mc, id, mcReader>>
      BY DEF EnvReceives, serverVars, sessionVars, playerVars
<1>2. ChannelInv'
      BY <1>1, Zenon DEF IInv, Core, ChannelInv, ChannelDropped, AddsWait, AddsOnce, QueuedOwned
<1>3. SlotInv'
      BY <1>1, Zenon
      DEF IInv, Core, SlotInv, IdKnown, SlotOwnership, NoSlotLeak, WaiterServed
<1>4. /\ Len(toClient) \in Nat /\ Len(toClient') = Len(toClient) - 1
      /\ \A k \in 1 .. Len(toClient') : /\ toClient'[k] = toClient[k + 1]
                                        /\ k + 1 \in 1 .. Len(toClient)
      BY <1>0 DEF DataOK, EnvReceives
<1>5. StreamOwned' /\ JoinsNamed'
      BY <1>1, <1>4 DEF IInv, Core, StreamInv, StreamOwned, JoinsNamed
<1>6. NoLateJoin'
  <2>1. SUFFICES ASSUME NEW j \in 1 .. Len(toClient'), NEW k \in 1 .. Len(toClient'),
                        toClient'[k].type = "ProxyData", toClient'[j].type = "ProxyJoin",
                        k <= j
                 PROVE  toClient'[j].who # toClient'[k].who
        BY DEF NoLateJoin
  <2>2. /\ k + 1 \in 1 .. Len(toClient) /\ j + 1 \in 1 .. Len(toClient) /\ k + 1 <= j + 1
        /\ toClient'[k] = toClient[k + 1] /\ toClient'[j] = toClient[j + 1]
        BY <1>4, <2>1
  <2>3. NoLateJoin
        BY DEF IInv, Core, StreamInv
  <2>4. QED  BY <2>1, <2>2, <2>3, Zenon DEF NoLateJoin
<1>7. QED  BY <1>2, <1>3, <1>5, <1>6 DEF Core, StreamInv

\* When the writer ends, its channel goes with it: nobody is left in it, and
\* no player can wait for it.
LEMMA WriterEndsStep ==
    IInv /\ (WriterTooManyClients \/ WriterFails \/ WriterAborted) => Core'
<1> SUFFICES ASSUME IInv, WriterTooManyClients \/ WriterFails \/ WriterAborted PROVE Core'
    OBVIOUS
<1>0. DataOK  BY TypeParts DEF IInv
<1>1. /\ UNCHANGED <<clients_id, mc, id, mcReader, toClient>>
      /\ writer' = "ended" /\ rx' = <<>>
      BY DEF WriterTooManyClients, WriterFails, WriterAborted, WriterEnds, playerVars
<1>2. ChannelInv'
      BY <1>1, ToSetEmpty
      DEF IInv, Core, ChannelInv, ChannelDropped, AddsWait, AddsOnce, Once, QueuedOwned
<1>3. SlotInv'
      BY <1>1 DEF IInv, Core, SlotInv, IdKnown, SlotOwnership, NoSlotLeak, WaiterServed, Contains
<1>4. StreamInv'
      BY <1>1 DEF IInv, Core, StreamInv, StreamOwned, JoinsNamed, NoLateJoin
<1>5. QED  BY <1>2, <1>3, <1>4 DEF Core

\* A packet at the end of the stream to the client.
LEMMA StreamAppend ==
    ASSUME IInv, NEW m \in SocketPacket, toClient' = Append(toClient, m),
           \A p \in Players : id[p] # NoID => id'[p] = id[p],
           m.type = "ProxyData" =>
               m.who \in Players /\ id'[m.who] # NoID /\ m.id = id'[m.who],
           m.type = "ProxyJoin" =>
               m.who \in Players /\ id[m.who] = NoID /\ m.id \in ClientID
    PROVE  StreamInv'
<1> DEFINE n == Len(toClient)
<1>1. /\ n \in Nat /\ Len(toClient') = n + 1
      /\ toClient'[n + 1] = m
      /\ \A k \in 1 .. n : toClient'[k] = toClient[k]
      BY TypeParts DEF IInv, DataOK
<1> HIDE DEF n
<1>2. \A k \in 1 .. n + 1 : k = n + 1 \/ k \in 1 .. n
      BY <1>1
<1>3. \A k \in 1 .. n : toClient[k].type = "ProxyData" =>
          /\ toClient[k].who \in Players
          /\ id[toClient[k].who] # NoID /\ toClient[k].id = id[toClient[k].who]
      BY DEF IInv, Core, StreamInv, StreamOwned, n
<1>4. StreamOwned' /\ JoinsNamed'
  <2>1. StreamOwned'
        BY <1>1, <1>2, <1>3 DEF StreamOwned
  <2>2. \A k \in 1 .. n : toClient[k].type = "ProxyJoin" =>
            toClient[k].who \in Players /\ toClient[k].id \in ClientID
        BY DEF IInv, Core, StreamInv, JoinsNamed, n
  <2>3. JoinsNamed'
        BY <1>1, <1>2, <2>2 DEF JoinsNamed
  <2>4. QED  BY <2>1, <2>3
<1>5. NoLateJoin'
  <2>1. SUFFICES ASSUME NEW j \in 1 .. n + 1, NEW k \in 1 .. n + 1,
                        toClient'[k].type = "ProxyData", toClient'[j].type = "ProxyJoin",
                        k <= j
                 PROVE  toClient'[j].who # toClient'[k].who
        BY <1>1 DEF NoLateJoin
  <2>2. CASE j \in 1 .. n
    <3>1. k \in 1 .. n  BY <1>1, <2>1, <2>2
    <3>2. QED  BY <1>1, <2>1, <2>2, <3>1 DEF IInv, Core, StreamInv, NoLateJoin, n
  <2>3. CASE j = n + 1
    <3>1. k \in 1 .. n  BY <1>1, <1>2, <2>1, <2>3
    <3>2. QED  BY <1>1, <1>3, <2>1, <2>3, <3>1
  <2>4. QED  BY <1>2, <2>2, <2>3
<1>6. QED  BY <1>4, <1>5 DEF StreamInv

\* The kinds of packets are told apart by their type.
LEMMA PacketKinds ==
    /\ \A i, p, n : /\ ProxyData(i, p, n).type = "ProxyData"
                    /\ ProxyData(i, p, n).who = p /\ ProxyData(i, p, n).id = i
    /\ \A i, p : /\ ProxyJoin(i, p).type = "ProxyJoin"
                 /\ ProxyJoin(i, p).who = p /\ ProxyJoin(i, p).id = i
    /\ \A i : ProxyDisconnect(i).type = "ProxyDisconnect"
    /\ ProxyPing.type = "ProxyPing" /\ ProxyPong.type = "ProxyPong"
BY DEF ProxyData, ProxyJoin, ProxyDisconnect, ProxyPing, ProxyPong

\* Data and pongs go from the channel to the stream; data keeps the id of
\* its player.
LEMMA WriterPacketStep == IInv /\ (WriterPacket \/ WriterPong) => Core'
<1> SUFFICES ASSUME IInv, WriterPacket \/ WriterPong PROVE Core'
    OBVIOUS
<1>0. DataOK /\ Once(rx)
      BY TypeParts DEF IInv, Core, ChannelInv, AddsOnce
<1>1. /\ UNCHANGED <<clients_id, writer, mc, id, mcReader>>
      /\ writer = "run" /\ rx # <<>> /\ rx' = Tail(rx)
      /\ Head(rx).type = "Packet" \/ Head(rx).type = "AnswerPingPacket"
      BY DEF WriterPacket, WriterPong, WriterReceives, playerVars
<1>2. /\ ToSet(rx) = ToSet(rx') \cup {Head(rx)}
      /\ Once(rx')
      /\ \A x : Contains(rx, x) <=> x \in ToSet(rx)
      /\ \A x : Contains(rx', x) <=> x \in ToSet(rx')
      BY <1>0, <1>1, TakeFacts DEF DataOK
<1>3. ChannelInv'
      BY <1>1, <1>2
      DEF IInv, Core, ChannelInv, ChannelDropped, AddsWait, AddsOnce, QueuedOwned
<1>4. SlotInv'
      BY <1>1, <1>2, MessageKinds
      DEF IInv, Core, SlotInv, IdKnown, SlotOwnership, NoSlotLeak, WaiterServed
<1>5. StreamInv'
  <2>0. Head(rx) \in ClientToProxy
        BY <1>0, <1>1, ChannelTypes DEF DataOK
  <2>1. CASE WriterPong
        BY <1>1, <2>1, StreamAppend, PacketTypes, PacketKinds DEF WriterPong
  <2>2. CASE WriterPacket
    <3> DEFINE m == ProxyData(Head(rx).id, Head(rx).who, Head(rx).n)
    <3>1. m \in SocketPacket
          BY <2>0, MessageTypes, PacketTypes, IdTypes
    <3>2. Head(rx).who \in Players /\ id[Head(rx).who] # NoID /\ Head(rx).id = id[Head(rx).who]
          BY <1>2, <2>2 DEF WriterPacket, WriterReceives, IInv, Core, ChannelInv, QueuedOwned
    <3>3. m.type = "ProxyData" /\ m.who = Head(rx).who /\ m.id = Head(rx).id
          BY PacketKinds
    <3>4. toClient' = Append(toClient, m)
          BY <2>2 DEF WriterPacket
    <3> HIDE DEF m
    <3>5. QED  BY <1>1, <3>1, <3>2, <3>3, <3>4, StreamAppend
  <2>3. QED  BY <2>1, <2>2
<1>6. QED  BY <1>3, <1>4, <1>5 DEF Core

\* RemoveMinecraftClient empties the slot it names, and no other removal is
\* lost.
LEMMA WriterRemoveStep == IInv /\ WriterRemove => Core'
<1> SUFFICES ASSUME IInv, WriterRemove PROVE Core'
    OBVIOUS
<1> DEFINE i == Head(rx).id
<1>0. DataOK /\ Once(rx)
      BY TypeParts DEF IInv, Core, ChannelInv, AddsOnce
<1>1. /\ UNCHANGED <<writer, mc, id, mcReader>>
      /\ writer = "run" /\ rx # <<>> /\ rx' = Tail(rx)
      /\ Head(rx).type = "RemoveMinecraftClient"
      /\ clients_id' = remove_by_id(clients_id, i)
      BY DEF WriterRemove, WriterReceives, playerVars
<1>2. /\ ToSet(rx) = ToSet(rx') \cup {Head(rx)}
      /\ Once(rx')
      /\ \A x : Contains(rx, x) <=> x \in ToSet(rx)
      /\ \A x : Contains(rx', x) <=> x \in ToSet(rx')
      BY <1>0, <1>1, TakeFacts DEF DataOK
<1>3. ChannelInv'
      BY <1>1, <1>2
      DEF IInv, Core, ChannelInv, ChannelDropped, AddsWait, AddsOnce, QueuedOwned
<1>4. \A j \in ClientID : \/ clients_id'[j] = NoPlayer
                          \/ clients_id'[j] = clients_id[j] /\ j # i
      BY <1>0, <1>1 DEF DataOK, remove_by_id
<1>5. \A j : Contains(rx, RemoveMinecraftClient(j)) /\ j # i
              => Contains(rx', RemoveMinecraftClient(j))
      BY <1>2, MessageKinds
<1>6. \A p : Contains(rx, AddMinecraftClient(p)) <=> Contains(rx', AddMinecraftClient(p))
      BY <1>1, <1>2, MessageKinds
<1>7. SlotInv'
  <2>1. IdKnown' /\ WaiterServed'
        BY <1>1, <1>6 DEF IInv, Core, SlotInv, IdKnown, WaiterServed
  <2>2. SlotOwnership' /\ NoSlotLeak'
        BY <1>1, <1>4, <1>5, WireAssumption
        DEF IInv, Core, SlotInv, SlotOwnership, NoSlotLeak, WireAssumption
  <2>3. QED  BY <2>1, <2>2 DEF SlotInv
<1>8. StreamInv'
  <2>1. CASE toClient' = toClient
        BY <1>1, <2>1 DEF IInv, Core, StreamInv, StreamOwned, JoinsNamed, NoLateJoin
  <2>2. CASE toClient' = Append(toClient, ProxyDisconnect(i))
    <3>1. i \in WireID \cup {NoID}
          BY <1>0, <1>1, ChannelTypes, MessageTypes, IdTypes DEF DataOK
    <3>2. ProxyDisconnect(i) \in SocketPacket /\ ProxyDisconnect(i).type = "ProxyDisconnect"
          BY <3>1, PacketTypes, PacketKinds
    <3>3. QED  BY <1>1, <2>2, <3>2, StreamAppend
  <2>3. QED  BY <2>1, <2>2 DEF WriterRemove
<1>9. QED  BY <1>3, <1>7, <1>8 DEF Core

\* AddMinecraftClient gives a free slot to a player that had none, and tells
\* it and the client the same number; its join is the first that the stream
\* carries for it.
LEMMA WriterAddStep == IInv /\ WriterAdd => Core'
<1> SUFFICES ASSUME IInv, WriterAdd PROVE Core'
    OBVIOUS
<1> DEFINE p == Head(rx).who
           i == FirstFree(clients_id)
<1>0. DataOK /\ Once(rx)
      BY TypeParts DEF IInv, Core, ChannelInv, AddsOnce
<1>1. /\ UNCHANGED <<writer, mc, mcReader>>
      /\ writer = "run" /\ rx # <<>> /\ rx' = Tail(rx)
      /\ Head(rx).type = "AddMinecraftClient"
      /\ clients_id' = [clients_id EXCEPT ![i] = p]
      /\ id' = [id EXCEPT ![p] = i]
      /\ toClient' = Append(toClient, ProxyJoin(i, p))
      BY DEF WriterAdd, WriterReceives, insert
<1>2. /\ ToSet(rx) = ToSet(rx') \cup {Head(rx)}
      /\ Once(rx')
      /\ Head(rx) \notin ToSet(rx')
      /\ \A x : Contains(rx, x) <=> x \in ToSet(rx)
      /\ \A x : Contains(rx', x) <=> x \in ToSet(rx')
      BY <1>0, <1>1, TakeFacts DEF DataOK
\* The slot was free, and the player had none.
<1>3. i \in ClientID /\ clients_id[i] = NoPlayer /\ i # NoID
      BY FirstFreeIsFree, IdTypes DEF WriterAdd, FreeSlots
<1>4. /\ p \in Players /\ Head(rx) = AddMinecraftClient(p)
      /\ mc[p] = "wait_id" /\ id[p] = NoID
      BY <1>1, <1>2 DEF IInv, Core, ChannelInv, AddsWait
<1>5. /\ id'[p] = i /\ \A q \in Players : q # p => id'[q] = id[q]
      /\ clients_id'[i] = p /\ \A j \in ClientID : j # i => clients_id'[j] = clients_id[j]
      BY <1>0, <1>1, <1>3, <1>4 DEF DataOK
<1>6. \A j \in ClientID : clients_id[j] # p
      BY <1>3, <1>4, IdTypes DEF IInv, Core, SlotInv, SlotOwnership
<1> HIDE DEF i, p
<1>7. ChannelInv'
  <2>1. \A m \in ToSet(rx') : m.type = "AddMinecraftClient" => m.who # p
        BY <1>2, <1>4 DEF IInv, Core, ChannelInv, AddsWait
  <2>2. AddsWait'
        BY <1>1, <1>2, <1>5, <2>1 DEF IInv, Core, ChannelInv, AddsWait
  <2>3. QueuedOwned'
        BY <1>2, <1>4, <1>5 DEF IInv, Core, ChannelInv, QueuedOwned
  <2>4. QED  BY <1>1, <1>2, <2>2, <2>3 DEF ChannelInv, ChannelDropped, AddsOnce
<1>8. SlotInv'
  <2>1. IdKnown'
        BY <1>1, <1>3, <1>4, <1>5 DEF IInv, Core, SlotInv, IdKnown
  <2>2. SlotOwnership'
        BY <1>1, <1>4, <1>5, <1>6 DEF IInv, Core, SlotInv, SlotOwnership
  <2>3. \A j : Contains(rx, RemoveMinecraftClient(j)) => Contains(rx', RemoveMinecraftClient(j))
        BY <1>1, <1>2, MessageKinds
  <2>4. NoSlotLeak'
        BY <1>1, <1>4, <1>5, <2>3 DEF IInv, Core, SlotInv, NoSlotLeak
  <2>5. \A q : q # p => (Contains(rx, AddMinecraftClient(q))
                            <=> Contains(rx', AddMinecraftClient(q)))
        BY <1>2, <1>4, MessageKinds
  <2>6. WaiterServed'
        BY <1>1, <1>3, <1>5, <2>5 DEF IInv, Core, SlotInv, WaiterServed
  <2>7. QED  BY <2>1, <2>2, <2>4, <2>6 DEF SlotInv
<1>9. StreamInv'
  <2>1. ProxyJoin(i, p) \in SocketPacket
        BY <1>3, <1>4, PacketTypes, IdTypes
  <2>2. ProxyJoin(i, p).type = "ProxyJoin" /\ ProxyJoin(i, p).who = p /\ ProxyJoin(i, p).id = i
        BY PacketKinds
  <2>3. \A q \in Players : id[q] # NoID => id'[q] = id[q]
        BY <1>4, <1>5
  <2>4. QED  BY <1>1, <1>3, <1>4, <2>1, <2>2, <2>3, StreamAppend
<1>10. QED  BY <1>7, <1>8, <1>9 DEF Core

\* Steps of a player that sends m, or finds the receiver gone: what they share.
LEMMA PlayerSends ==
    ASSUME IInv, NEW m \in ClientToProxy, m.type # "AddMinecraftClient" \/ m \notin ToSet(rx),
           UNCHANGED writer,
           (writer = "run" /\ rx' = Append(rx, m)) \/ (writer # "run" /\ rx' = rx)
    PROVE  /\ ChannelDropped' /\ AddsOnce'
           /\ ToSet(rx') = ToSet(rx) \/ ToSet(rx') = ToSet(rx) \cup {m}
           /\ writer = "run" => ToSet(rx') = ToSet(rx) \cup {m}
           /\ writer # "run" => ToSet(rx') = {}
           /\ \A x : Contains(rx, x) <=> x \in ToSet(rx)
           /\ \A x : Contains(rx', x) <=> x \in ToSet(rx')
<1>0. DataOK /\ Once(rx) /\ (writer # "run" => rx = <<>>)
      BY TypeParts DEF IInv, Core, ChannelInv, AddsOnce, ChannelDropped, DataOK
<1>1. CASE writer = "run"
  <2>1. rx' = Append(rx, m)  BY <1>1
  <2>2. QED  BY <1>0, <1>1, <2>1, SendFacts DEF DataOK, ChannelDropped, AddsOnce
<1>2. CASE writer # "run"
  <2>1. rx' = <<>> /\ rx = <<>>  BY <1>0, <1>2
  <2>2. \A x : ~ Contains(<<>>, x)  BY DEF Contains
  <2>3. QED  BY <1>0, <1>2, <2>1, <2>2, ToSetEmpty DEF ChannelDropped, AddsOnce
<1>3. QED  BY <1>1, <1>2

\* A new player queues its one request, or is refused by a closed channel.
LEMMA PlayerConnectStep == ASSUME NEW p \in Players PROVE IInv /\ PlayerConnect(p) => Core'
<1> SUFFICES ASSUME IInv, PlayerConnect(p) PROVE Core'
    OBVIOUS
<1> DEFINE m == AddMinecraftClient(p)
<1>0. DataOK  BY TypeParts DEF IInv
<1>1. /\ UNCHANGED <<clients_id, writer, id, mcReader, toClient>>
      /\ mc[p] = "idle"
      /\ mc' = [mc EXCEPT ![p] = IF writer = "run" THEN "wait_id" ELSE "done"]
      /\ (writer = "run" /\ rx' = Append(rx, m)) \/ (writer # "run" /\ rx' = rx)
      BY DEF PlayerConnect, wireVars
<1>2. /\ \A q \in Players : q # p => mc'[q] = mc[q]
      /\ mc'[p] = IF writer = "run" THEN "wait_id" ELSE "done"
      BY <1>0, <1>1 DEF DataOK
<1>3. id[p] = NoID /\ id'[p] = NoID /\ mcReader[p] # "run"
      BY <1>1 DEF IInv, Core, SlotInv, IdKnown
<1>4. m \in ClientToProxy /\ m.type = "AddMinecraftClient" /\ m.who = p
      BY MessageTypes, MessageKinds
<1>5. \A x \in ToSet(rx) : x.type = "AddMinecraftClient" => x.who # p
      BY <1>1 DEF IInv, Core, ChannelInv, AddsWait
<1>6. m \notin ToSet(rx)
      BY <1>4, <1>5
<1>7. /\ ChannelDropped' /\ AddsOnce'
      /\ ToSet(rx') = ToSet(rx) \/ ToSet(rx') = ToSet(rx) \cup {m}
      /\ writer = "run" => ToSet(rx') = ToSet(rx) \cup {m}
      /\ writer # "run" => ToSet(rx') = {}
      /\ \A x : Contains(rx, x) <=> x \in ToSet(rx)
      /\ \A x : Contains(rx', x) <=> x \in ToSet(rx')
      BY <1>1, <1>4, <1>6, PlayerSends
<1>8. ChannelInv'
  <2>1. AddsWait'
        BY <1>1, <1>2, <1>3, <1>4, <1>5, <1>7 DEF IInv, Core, ChannelInv, AddsWait
  <2>2. QueuedOwned'
        BY <1>1, <1>4, <1>7 DEF IInv, Core, ChannelInv, QueuedOwned
  <2>3. QED  BY <1>7, <2>1, <2>2 DEF ChannelInv
<1>9. SlotInv'
  <2>1. IdKnown'
        BY <1>1, <1>2, <1>3 DEF IInv, Core, SlotInv, IdKnown
  <2>2. SlotOwnership'
        BY <1>1, <1>2 DEF IInv, Core, SlotInv, SlotOwnership
  <2>3. NoSlotLeak'
        BY <1>1, <1>2, <1>7 DEF IInv, Core, SlotInv, NoSlotLeak
  <2>4. \A q \in Players : q # p => (AddMinecraftClient(q) # m)
        BY MessageKinds
  <2>5. WaiterServed'
        BY <1>0, <1>1, <1>2, <1>7, <2>4 DEF IInv, Core, SlotInv, WaiterServed, DataOK
  <2>6. QED  BY <2>1, <2>2, <2>3, <2>5 DEF SlotInv
<1>10. StreamInv'
      BY <1>1 DEF IInv, Core, StreamInv, StreamOwned, JoinsNamed, NoLateJoin
<1>11. QED  BY <1>8, <1>9, <1>10 DEF Core

\* A player that is refused has no slot to free.
LEMMA PlayerNoIdStep == ASSUME NEW p \in Players PROVE IInv /\ PlayerNoId(p) => Core'
<1> SUFFICES ASSUME IInv, PlayerNoId(p) PROVE Core'
    OBVIOUS
<1>0. DataOK  BY TypeParts DEF IInv
<1>1. /\ UNCHANGED <<clients_id, rx, writer, id, mcReader, toClient>>
      /\ mc[p] = "wait_id" /\ id[p] = NoID /\ ~ Contains(rx, AddMinecraftClient(p))
      /\ mc' = [mc EXCEPT ![p] = "done"]
      BY DEF PlayerNoId, wireVars, sessionVars
<1>2. mc'[p] = "done" /\ \A q \in Players : q # p => mc'[q] = mc[q]
      BY <1>0, <1>1 DEF DataOK
<1>3. \A x : Contains(rx, x) <=> x \in ToSet(rx)
      BY <1>0, ContainsToSet DEF DataOK
<1>4. AddsWait'
      BY <1>1, <1>2, <1>3 DEF IInv, Core, ChannelInv, AddsWait
<1>5. ChannelInv'
      BY <1>1, <1>4 DEF IInv, Core, ChannelInv, ChannelDropped, AddsOnce, QueuedOwned
<1>6. \A i \in ClientID : clients_id[i] # p
      BY <1>1, IdTypes DEF IInv, Core, SlotInv, SlotOwnership
<1>7. SlotInv'
      BY <1>1, <1>2, <1>6
      DEF IInv, Core, SlotInv, IdKnown, SlotOwnership, NoSlotLeak, WaiterServed
<1>8. StreamInv'
      BY <1>1 DEF IInv, Core, StreamInv, StreamOwned, JoinsNamed, NoLateJoin
<1>9. QED  BY <1>5, <1>7, <1>8 DEF Core

\* PlayerStart, PlayerReads and PlayerEnds send a message under the player's id.
LEMMA PlayerSendsStep ==
    ASSUME NEW p \in Players
    PROVE  IInv /\ (PlayerStart(p) \/ PlayerReads(p) \/ PlayerEnds(p)) => Core'
<1> SUFFICES ASSUME IInv, PlayerStart(p) \/ PlayerReads(p) \/ PlayerEnds(p) PROVE Core'
    OBVIOUS
<1> DEFINE m == IF PlayerEnds(p) THEN RemoveMinecraftClient(id[p])
                ELSE IF PlayerStart(p) THEN Packet(id[p], p, 1)
                ELSE Packet(id[p], p, sent[p] + 1)
<1>0. DataOK  BY TypeParts DEF IInv
<1>1. id[p] # NoID /\ id[p] \in ClientID \cup {NoID} /\ p \in Owner
      BY <1>0, IdTypes
      DEF PlayerStart, PlayerReads, PlayerEnds, IInv, Core, SlotInv, IdKnown, DataOK
<1>2. /\ m \in ClientToProxy
      /\ \/ m.type = "RemoveMinecraftClient"
         \/ m.type = "Packet" /\ m.who = p /\ m.id = id[p]
      /\ PlayerEnds(p) => m = RemoveMinecraftClient(id[p])
  <2>1. sent[p] + 1 \in Nat  BY <1>0, SessionAssumption DEF DataOK, SessionAssumption
  <2>2. CASE PlayerEnds(p)
    <3>1. m = RemoveMinecraftClient(id[p])  BY <2>2
    <3>2. QED  BY <1>1, <3>1, MessageTypes, MessageKinds
  <2>3. CASE ~ PlayerEnds(p)
    <3>1. PICK n \in Nat : m = Packet(id[p], p, n)  BY <2>1, <2>3
    <3>2. QED  BY <1>1, <2>3, <3>1, MessageTypes, MessageKinds
  <2>4. QED  BY <2>2, <2>3
<1>3. /\ UNCHANGED <<clients_id, writer, id, toClient>>
      /\ (writer = "run" /\ rx' = Append(rx, m)) \/ (writer # "run" /\ rx' = rx)
  <2>1. CASE PlayerEnds(p)
        BY <2>1 DEF PlayerEnds, wireVars
  <2>2. CASE PlayerStart(p) /\ ~ PlayerEnds(p)
        BY <2>2 DEF PlayerStart, wireVars
  <2>3. CASE PlayerReads(p) /\ ~ PlayerEnds(p) /\ ~ PlayerStart(p)
        BY <2>3 DEF PlayerReads, wireVars
  <2>4. QED  BY <2>1, <2>2, <2>3
<1>4. /\ \A q \in Players : q # p => mc'[q] = mc[q] /\ mcReader'[q] = mcReader[q]
      /\ mc[p] # "idle" /\ mc'[p] # "idle"
      /\ mc'[p] = "wait_id" => mc[p] = "wait_id"
      /\ mc'[p] = "done" /\ writer = "run" => PlayerEnds(p) \/ mc[p] = "done"
  <2>1. CASE PlayerEnds(p)
        BY <1>0, <2>1 DEF PlayerEnds, DataOK
  <2>2. CASE PlayerStart(p)
        BY <1>0, <2>2 DEF PlayerStart, DataOK
  <2>3. CASE PlayerReads(p)
    <3>1. mc[p] # "idle"
          BY <1>1 DEF IInv, Core, SlotInv, IdKnown
    <3>2. QED  BY <1>0, <2>3, <3>1 DEF PlayerReads, DataOK
  <2>4. QED  BY <2>1, <2>2, <2>3
<1> HIDE DEF m
<1>5. /\ ChannelDropped' /\ AddsOnce'
      /\ ToSet(rx') = ToSet(rx) \/ ToSet(rx') = ToSet(rx) \cup {m}
      /\ writer = "run" => ToSet(rx') = ToSet(rx) \cup {m}
      /\ \A x : Contains(rx, x) <=> x \in ToSet(rx)
      /\ \A x : Contains(rx', x) <=> x \in ToSet(rx')
      BY <1>2, <1>3, PlayerSends
<1>6. ChannelInv'
  <2>1. \A x \in ToSet(rx) : x.type = "AddMinecraftClient" => x.who # p
        BY <1>1 DEF IInv, Core, ChannelInv, AddsWait
  <2>2. AddsWait'
        BY <1>2, <1>3, <1>4, <1>5, <2>1 DEF IInv, Core, ChannelInv, AddsWait
  <2>3. QueuedOwned'
        BY <1>1, <1>2, <1>3, <1>5 DEF IInv, Core, ChannelInv, QueuedOwned
  <2>4. QED  BY <1>5, <2>2, <2>3 DEF ChannelInv
<1>7. SlotInv'
  <2>1. IdKnown'
        BY <1>1, <1>3, <1>4 DEF IInv, Core, SlotInv, IdKnown
  <2>2. SlotOwnership'
        BY <1>3, <1>4 DEF IInv, Core, SlotInv, SlotOwnership
  <2>3. NoSlotLeak'
        BY <1>2, <1>3, <1>4, <1>5 DEF IInv, Core, SlotInv, NoSlotLeak, SlotOwnership
  <2>4. WaiterServed'
        BY <1>1, <1>2, <1>3, <1>4, <1>5, MessageKinds DEF IInv, Core, SlotInv, WaiterServed
  <2>5. QED  BY <2>1, <2>2, <2>3, <2>4 DEF SlotInv
<1>8. StreamInv'
      BY <1>3 DEF IInv, Core, StreamInv, StreamOwned, JoinsNamed, NoLateJoin
<1>9. QED  BY <1>6, <1>7, <1>8 DEF Core

\* Every step preserves the invariant.
LEMMA CoreStep == IInv /\ [Next]_vars => Core'
<1> SUFFICES ASSUME IInv, [Next]_vars PROVE Core'
    OBVIOUS
<1>1. CASE ReaderNext
      BY <1>1, InertSteps, InertStep, ReaderDisconnectStep, ReaderPingStep DEF ReaderNext, IInv
<1>2. CASE WriterNext
      BY <1>2, WriterAddStep, WriterEndsStep, WriterPacketStep, WriterRemoveStep DEF WriterNext
<1>3. CASE HandleNext
      BY <1>3, InertSteps, InertStep, WriterEndsStep DEF HandleNext, IInv
<1>4. ASSUME NEW p \in Players, PlayerNext(p) PROVE Core'
      BY <1>4, InertSteps, InertStep, PlayerConnectStep, PlayerNoIdStep, PlayerSendsStep
      DEF PlayerNext, IInv
<1>5. CASE EnvNext
      BY <1>5, InertSteps, InertStep, EnvReceivesStep DEF EnvNext, IInv
<1>6. CASE Finished \/ UNCHANGED vars
      BY <1>6, InertSteps, InertStep DEF IInv
<1>7. QED  BY <1>1, <1>2, <1>3, <1>4, <1>5, <1>6 DEF Next, ServerNext

\* A session that begins satisfies the invariant, also when some players are
\* over already.
LEMMA SessionBegins ==
    ASSUME SessionInit, WireInit, mc \in [Players -> {"idle", "done"}]
    PROVE  IInv
<1>1. FlagsOK
      BY Zenon DEF WireInit, FlagsOK
<1>2. DataOK
      BY IdTypes, SessionAssumption DEF SessionInit, WireInit, DataOK, NoSlots, SessionAssumption
<1>3. ChannelInv
      BY ToSetEmpty DEF SessionInit, ChannelInv, ChannelDropped, AddsWait, AddsOnce, Once,
         QueuedOwned
<1>4. SlotInv
  <2>1. \A p \in Players : mc[p] \in {"idle", "done"}
        OBVIOUS
  <2>2. QED  BY <2>1, WireAssumption
             DEF SessionInit, SlotInv, IdKnown, SlotOwnership, NoSlotLeak, WaiterServed, NoSlots,
                 WireAssumption
<1>5. StreamInv
      BY DEF WireInit, StreamInv, StreamOwned, JoinsNamed, NoLateJoin
<1>6. QED  BY <1>1, <1>2, <1>3, <1>4, <1>5, TypeParts DEF IInv, Core

\* The invariant holds initially.
LEMMA InitIInv == Init => IInv
BY SessionBegins DEF Init, ServerInit

\* Every step preserves the type invariant.
LEMMA TypeStep == TypeOK /\ [Next]_vars => TypeOK'
<1>1. TypeOK' <=> FlagsOK' /\ DataOK'
      BY DEF TypeOK, WireTypeOK, FlagsOK, DataOK, Slots
<1>2. QED  BY <1>1, TypeParts, FlagsStep, DataStep

\* The types of the session's state hold for every number of players, slots
\* and packets.
THEOREM TypeCorrect == Spec => []TypeOK
<1>1. Init => TypeOK
      BY InitIInv DEF IInv
<1>2. QED  BY <1>1, TypeStep, PTL DEF Spec

\* The inductive invariant holds: it is preserved by every action of the
\* server and by everything a client may do.
THEOREM Inductive == Spec => []IInv
<1>1. IInv /\ [Next]_vars => IInv'
      BY TypeStep, CoreStep DEF IInv
<1>2. QED  BY <1>1, InitIInv, PTL DEF Spec

\* A slot of the Distributor always holds the channel of the player that was
\* told its number.
THEOREM SlotsOwned == Spec => []SlotOwnership
<1>1. IInv => SlotOwnership
      BY DEF IInv, Core, SlotInv
<1>2. QED  BY <1>1, Inductive, PTL

\* No way a player can end leaks its slot: the removal is in the channel as
\* long as the writer serves it.
THEOREM SlotsFreed == Spec => []NoSlotLeak
<1>1. IInv => NoSlotLeak
      BY DEF IInv, Core, SlotInv
<1>2. QED  BY <1>1, Inductive, PTL

\* A player that waits for its id has its request queued, or the channel is
\* gone: the oneshot of MCClient::new is never forgotten.
THEOREM WaitersServed == Spec => []WaiterServed
<1>1. IInv => WaiterServed
      BY DEF IInv, Core, SlotInv
<1>2. QED  BY <1>1, Inductive, PTL

\* On the stream to the client a player's join precedes its data, and both
\* carry the id of its slot.
THEOREM JoinsFirst == Spec => []JoinBeforeData
<1>1. IInv => JoinBeforeData
  <2>1. SUFFICES ASSUME IInv, NEW k \in 1 .. Len(toClient), toClient[k].type = "ProxyData",
                        NEW j \in k .. Len(toClient)
                 PROVE  /\ toClient[k].id = id[toClient[k].who]
                        /\ ~ (/\ toClient[j].type = "ProxyJoin"
                              /\ toClient[j].who = toClient[k].who)
    <3>1. Len(toClient) \in Nat
          BY TypeParts DEF IInv, DataOK
    <3>2. ASSUME IInv, NEW k \in 1 .. Len(toClient) PROVE k \in k .. Len(toClient)
          BY <3>1
    <3>3. QED  BY <3>2 DEF JoinBeforeData
  <2>2. j \in 1 .. Len(toClient) /\ k <= j
        BY <2>1, TypeParts DEF IInv, DataOK
  <2>3. QED  BY <2>1, <2>2 DEF IInv, Core, StreamInv, StreamOwned, JoinsNamed, NoLateJoin
<1>2. QED  BY <1>1, Inductive, PTL

\* insert never takes the slot of a connected player away.
THEOREM NeverTakenOver == Spec => NoTakeover
<1> DEFINE Kept == \A i \in ClientID :
                      clients_id[i] # NoPlayer => clients_id'[i] \in {clients_id[i], NoPlayer}
<1>1. TypeOK /\ [Next]_vars => [Kept]_vars
  <2> SUFFICES ASSUME TypeOK, Next PROVE Kept
      OBVIOUS
  <2>0. DataOK  BY TypeParts
  <2>1. CASE UNCHANGED clients_id
        BY <2>1
  <2>2. CASE WriterAdd
        BY <2>0, <2>2, FirstFreeIsFree DEF WriterAdd, insert, FreeSlots, DataOK
  <2>3. CASE WriterRemove
        BY <2>0, <2>3 DEF WriterRemove, remove_by_id, DataOK
  <2>4. CASE ReaderDisconnect
        BY <2>0, <2>4 DEF ReaderDisconnect, remove_by_id, DataOK
  <2>5. Next => UNCHANGED clients_id \/ WriterAdd \/ WriterRemove \/ ReaderDisconnect
    <3> USE DEF sessionVars, serverVars, vars
    <3>1. ReaderNext => UNCHANGED clients_id \/ ReaderDisconnect
          BY Zenon DEF ReaderNext, ReaderData, ReaderPing, ReaderUnexpected, ReaderClosed,
             ReaderFails
    <3>2. WriterNext => UNCHANGED clients_id \/ WriterAdd \/ WriterRemove
          BY Zenon DEF WriterNext, WriterTooManyClients, WriterPacket, WriterPong, WriterFails
    <3>3. HandleNext => UNCHANGED clients_id
          BY Zenon DEF HandleNext, HandleSelect, HandleReturns, ReaderAborted, WriterAborted
    <3>4. \A p \in Players : PlayerNext(p) => UNCHANGED clients_id
          BY Zenon DEF PlayerNext, PlayerConnect, PlayerStart, PlayerNoId, PlayerReads,
             PlayerLeaves, PlayerWrites, PlayerWriteFails, PlayerChannelClosed, PlayerEnds,
             PlayerAborted
    <3>5. EnvNext \/ Finished => UNCHANGED clients_id
          BY Zenon DEF EnvNext, EnvSends, EnvReceives, EnvCloses, Finished
    <3>6. QED  BY <3>1, <3>2, <3>3, <3>4, <3>5 DEF Next, ServerNext
  <2>6. QED  BY <2>1, <2>2, <2>3, <2>4, <2>5
<1>2. QED  BY <1>1, TypeCorrect, PTL DEF Spec, NoTakeover
=============================================================================
