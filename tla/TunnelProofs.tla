---------------------------- MODULE TunnelProofs ----------------------------
(***************************************************************************)
(* Proofs about Tunnel: the client is an environment that ServerSession    *)
(* allows.  Each side needs the other: the client sends only ids it got in *)
(* a join, and that joins name a player and a slot is the invariant of the *)
(* session, so the two invariants are shown inductive together.            *)
(*                                                                         *)
(* With them: what the client counts, why no connection is forgotten, why  *)
(* bytes keep their order in both directions, and, for a Client that is    *)
(* connected again (Lives), why its old connections get nothing.           *)
(***************************************************************************)
EXTENDS Lives, ServerSessionProofs, FiniteSetTheorems

\* Messages of the client's connections that make packets of EnvPackets.
GoodMessage ==
    {m \in AgentMessage :
        /\ m.type = "Packet" => m.id \in WireID /\ m.who \in Players /\ m.n \in 1 .. MaxReply
        /\ m.type = "RemoveMinecraftClient" => m.id \in WireID}

\* AgentTypeOK, with good messages only in the channel of the writer.
AgentShape ==
    /\ connections \in [ClientID -> Owner]
    /\ connections_len \in Nat
    /\ to_proxy \in Seq(GoodMessage)
    /\ disconnect \in Seq(WireID)
    /\ c_reader \in {"run", "ok", "err"}
    /\ c_writer \in {"run", "ended"}
    /\ conn \in [Players -> {"none", "connecting", "open", "ended"}]
    /\ client_id \in [Players -> WireID \cup {NoID}]
    /\ client_rx \in [Players -> Seq(McData)]
    /\ replied \in [Players -> 0 .. MaxReply]
    /\ dlvd \in [Players -> Nat]
    /\ pings \in 0 .. MaxPings

\* A connection has the id of the join that created it.
ConnHasId == \A p \in Players : conn[p] # "none" => client_id[p] \in WireID

\* The write half is open exactly as long as the writer runs.
OpenStream == c_writer = "run" <=> ~ toServerClosed

\* The invariant of the client.
AgentInv == AgentShape /\ ConnHasId /\ OpenStream

\* What the client's tasks send to its writer is good.
LEMMA AgentMessages ==
    /\ \A i \in WireID, p \in Players, n \in 1 .. MaxReply :
          AgentPacket(i, p, n) \in GoodMessage
    /\ \A i \in WireID : AgentRemove(i) \in GoodMessage
    /\ Death \in GoodMessage /\ Ping \in GoodMessage
BY WireAssumption, IdTypes
DEF GoodMessage, AgentMessage, AgentPacket, AgentRemove, Death, Ping, Owner, WireAssumption

\* Good messages are messages.
LEMMA AgentShapeType == AgentShape => AgentTypeOK
<1>1. GoodMessage \subseteq AgentMessage
      BY DEF GoodMessage
<1>2. ASSUME to_proxy \in Seq(GoodMessage) PROVE to_proxy \in Seq(AgentMessage)
      BY <1>1, <1>2
<1>3. QED  BY <1>2 DEF AgentShape, AgentTypeOK, McData

-----------------------------------------------------------------------------
\* The client's reader takes the next packet of the stream.
LEMMA AgentReceivesStep ==
    ASSUME AgentJoin \/ AgentData \/ AgentDisconnect \/ AgentPong, UNCHANGED serverVars
    PROVE  EnvReceives
BY Zenon DEF AgentJoin, AgentData, AgentDisconnect, AgentPong, AgentReceives, EnvReceives

\* The steps of the client that do not touch the connection.
LEMMA AgentSilentStep ==
    ASSUME \/ AgentReaderFails \/ AgentReaderClosed \/ AgentTakesDisconnect
           \/ AgentWriterGone \/ AgentPings
           \/ \E p \in Players : ConnNext(p),
           UNCHANGED serverVars
    PROVE  UNCHANGED vars
<1>1. UNCHANGED wireVars
      BY Zenon DEF AgentReaderFails, AgentReaderClosed, AgentTakesDisconnect, AgentWriterGone,
         AgentPings, ConnNext, ConnConnects, ConnConnectFails, ConnWrites, ConnChannelClosed,
         ConnReads, ConnBreaks
<1>2. QED  BY <1>1, Zenon DEF vars

\* The client's writer closes the stream once.
LEMMA AgentClosesStep ==
    ASSUME AgentInv, AgentWriterEnds, c_writer = "run",
           UNCHANGED <<serverVars, toClient, toServer, toClientClosed, broken>>
    PROVE  EnvCloses
BY Zenon DEF AgentInv, OpenStream, AgentWriterEnds, EnvCloses

\* The client's writer sends while the stream is open.
LEMMA AgentSendsStep ==
    ASSUME AgentInv, c_writer = "run", NEW pkg \in EnvPackets,
           toServer' = Append(toServer, pkg),
           UNCHANGED <<serverVars, toClient, toClientClosed, toServerClosed, broken>>
    PROVE  EnvSends
BY Zenon DEF AgentInv, OpenStream, EnvSends

\* Every step of the client's writer is a send or the close.
LEMMA AgentWriterStep ==
    ASSUME AgentInv, AgentWriterNext, UNCHANGED serverVars
    PROVE  EnvSends \/ EnvCloses
<1>0. to_proxy # <<>> => Head(to_proxy) \in GoodMessage
      BY DEF AgentInv, AgentShape
<1>1. CASE AgentWritesPacket
  <2> DEFINE m == Head(to_proxy)
  <2>1. m.id \in WireID /\ m.who \in Players /\ m.n \in 1 .. MaxReply
        BY <1>0, <1>1 DEF AgentWritesPacket, AgentWriterTakes, GoodMessage
  <2>2. ProxyData(m.id, m.who, m.n) \in EnvPackets
        BY <2>1 DEF EnvPackets
  <2>3. QED  BY <1>1, <2>2, AgentSendsStep DEF AgentWritesPacket, AgentWriterTakes
<1>2. CASE AgentWritesDisconnect
  <2>1. Head(to_proxy).id \in WireID
        BY <1>0, <1>2 DEF AgentWritesDisconnect, AgentWriterTakes, GoodMessage
  <2>2. ProxyDisconnect(Head(to_proxy).id) \in EnvPackets
        BY <2>1 DEF EnvPackets
  <2>3. CASE c_reader = "run"
        BY <1>2, <2>2, <2>3, AgentSendsStep DEF AgentWritesDisconnect, AgentWriterTakes
  <2>4. CASE c_reader # "run"
        BY <1>2, <2>4, AgentClosesStep DEF AgentWritesDisconnect, AgentWriterTakes
  <2>5. QED  BY <2>3, <2>4
<1>3. CASE AgentWriterDies \/ AgentWriterFails \/ AgentWriterAborted
      BY <1>3, AgentClosesStep
      DEF AgentWriterDies, AgentWriterFails, AgentWriterAborted, AgentWriterTakes
<1>4. CASE AgentWritesPing
  <2>1. ProxyPing \in EnvPackets
        BY DEF EnvPackets
  <2>2. QED  BY <1>4, <2>1, AgentSendsStep DEF AgentWritesPing, AgentWriterTakes
<1>5. QED  BY <1>1, <1>2, <1>3, <1>4 DEF AgentWriterNext

\* A step of the tunnel is a step of the session, or leaves it alone.
LEMMA StepSimulation == AgentInv /\ [TunnelNext]_tunnelVars => [Next]_vars
<1> SUFFICES ASSUME AgentInv, [TunnelNext]_tunnelVars PROVE [Next]_vars
    OBVIOUS
<1>1. CASE ServerStep
      BY <1>1 DEF ServerStep, Next
<1>2. CASE AgentStep
      BY <1>2, AgentReceivesStep, AgentSilentStep, AgentWriterStep
      DEF AgentStep, AgentNext, AgentReaderNext, Next, EnvNext
<1>3. CASE LinkStep
      BY <1>3 DEF LinkStep, Next, EnvNext
<1>4. CASE TunnelFinished
      BY <1>4 DEF TunnelFinished, Next
<1>5. CASE UNCHANGED tunnelVars
      BY <1>5, Zenon DEF tunnelVars, vars
<1>6. QED  BY <1>1, <1>2, <1>3, <1>4, <1>5 DEF TunnelNext

-----------------------------------------------------------------------------
\* Only the end of the client's writer closes its stream.
LEMMA OpenStreamStep == OpenStream /\ [TunnelNext]_tunnelVars => OpenStream'
<1> SUFFICES ASSUME OpenStream, [TunnelNext]_tunnelVars PROVE OpenStream'
    OBVIOUS
<1>1. CASE UNCHANGED <<c_writer, toServerClosed>>
      BY <1>1, Zenon DEF OpenStream
<1>2. CASE AgentWriterEnds
      BY <1>2 DEF AgentWriterEnds, OpenStream
<1>3. ASSUME ServerStep PROVE UNCHANGED <<c_writer, toServerClosed>>
  <2> USE <1>3 DEF ServerStep, wireVars, agentVars, clientVars
  <2>1. CASE ReaderNext
        BY <2>1, Zenon DEF ReaderNext, ReaderDisconnect, ReaderData, ReaderPing,
           ReaderUnexpected, ReaderClosed, ReaderFails
  <2>2. CASE WriterNext
        BY <2>2, Zenon DEF WriterNext, WriterAdd, WriterTooManyClients, WriterPacket,
           WriterPong, WriterRemove, WriterFails
  <2>3. CASE HandleNext
        BY <2>3, Zenon DEF HandleNext, HandleSelect, HandleReturns, ReaderAborted,
           WriterAborted
  <2>4. ASSUME NEW p \in Players, PlayerNext(p) PROVE UNCHANGED <<c_writer, toServerClosed>>
        BY <2>4, Zenon DEF PlayerNext, PlayerConnect, PlayerStart, PlayerNoId, PlayerReads,
           PlayerLeaves, PlayerWrites, PlayerWriteFails, PlayerChannelClosed, PlayerEnds,
           PlayerAborted
  <2>5. QED  BY <2>1, <2>2, <2>3, <2>4 DEF ServerNext
<1>4. ASSUME AgentStep PROVE AgentWriterEnds \/ UNCHANGED <<c_writer, toServerClosed>>
  <2> USE DEF wireVars, agentVars, clientVars
  <2>1. CASE AgentReaderNext
        BY <2>1, Zenon DEF AgentReaderNext, AgentJoin, AgentData, AgentDisconnect, AgentPong,
           AgentReaderFails, AgentReaderClosed, AgentTakesDisconnect, AgentWriterGone,
           AgentPings
  <2>2. CASE AgentWriterNext
        BY <2>2, Zenon DEF AgentWriterNext, AgentWritesPacket, AgentWritesDisconnect,
           AgentWriterDies, AgentWritesPing, AgentWriterFails, AgentWriterAborted
  <2>3. ASSUME NEW p \in Players, ConnNext(p) PROVE UNCHANGED <<c_writer, toServerClosed>>
        BY <2>3, Zenon DEF ConnNext, ConnConnects, ConnConnectFails, ConnWrites,
           ConnChannelClosed, ConnReads, ConnBreaks
  <2>4. QED  BY <1>4, <2>1, <2>2, <2>3 DEF AgentStep, AgentNext
<1>5. CASE LinkStep \/ TunnelFinished \/ UNCHANGED tunnelVars
      BY <1>1, <1>5, Zenon DEF LinkStep, LinkBreaks, TunnelFinished, Finished, tunnelVars, vars,
         wireVars, agentVars, clientVars
<1>6. QED  BY <1>1, <1>2, <1>3, <1>4, <1>5 DEF TunnelNext

\* What the client's tasks keep of its own state.
AgentOK == AgentShape /\ ConnHasId

\* remove_connection keeps the types of the table and of its count.
LEMMA RemoveKeeps ==
    ASSUME AgentOK, NEW i, remove_connection(i)
    PROVE  connections' \in [ClientID -> Owner] /\ connections_len' \in Nat
<1> USE DEF AgentOK, AgentShape
<1>1. CASE i \in ClientID /\ connections[i] # NoPlayer
  <2>1. /\ connections' = [connections EXCEPT ![i] = NoPlayer]
        /\ connections_len' = IF connections_len = 0 THEN 0 ELSE connections_len - 1
        BY <1>1 DEF remove_connection
  <2>2. NoPlayer \in Owner
        BY IdTypes
  <2>3. connections' \in [ClientID -> Owner]
        BY <1>1, <2>1, <2>2
  <2>4. connections_len' \in Nat
        BY <2>1
  <2>5. QED  BY <2>3, <2>4
<1>2. CASE ~ (i \in ClientID /\ connections[i] # NoPlayer)
      BY <1>2 DEF remove_connection
<1>3. QED  BY <1>1, <1>2

\* The return of reader_handler keeps the types of what it drops.
LEMMA ReturnKeeps ==
    ASSUME AgentOK, NEW how \in {"ok", "err"}, AgentReaderReturns(how)
    PROVE  /\ connections' \in [ClientID -> Owner]
           /\ disconnect' \in Seq(WireID) /\ c_reader' \in {"run", "ok", "err"}
<1> USE DEF AgentOK, AgentShape
<1>1. disconnect' \in Seq(WireID) /\ c_reader' \in {"run", "ok", "err"}
      BY ChannelTypes DEF AgentReaderReturns
<1>2. CASE how = "ok"
      BY <1>1, <1>2, IdTypes DEF AgentReaderReturns
<1>3. CASE how # "ok"
      BY <1>1, <1>3 DEF AgentReaderReturns
<1>4. QED  BY <1>2, <1>3

\* reader_handler keeps the client's types: a join it receives names a player
\* and a slot, by the invariant of the server's session.
LEMMA AgentReaderKeeps == IInv /\ AgentOK /\ AgentReaderNext => AgentOK'
<1> SUFFICES ASSUME IInv, AgentOK, AgentReaderNext PROVE AgentOK'
    OBVIOUS
<1>0. DataOK  BY TypeParts DEF IInv
<1> USE DEF AgentOK, AgentShape, ConnHasId, connVars, clientVars, agentVars
<1>1. CASE AgentJoin
  <2> DEFINE m == Head(toClient)
  <2>1. m.who \in Players /\ m.id \in ClientID
    <3>1. 1 \in 1 .. Len(toClient) /\ m = toClient[1]
          BY <1>0, <1>1 DEF DataOK, AgentJoin, AgentReceives
    <3>2. QED  BY <1>1, <3>1 DEF AgentJoin, AgentReceives, IInv, Core, StreamInv, JoinsNamed
  <2>2. m.who \in Owner /\ m.id \in WireID
        BY <2>1, IdTypes
  <2> HIDE DEF m
  <2>3. /\ connections' = [connections EXCEPT ![m.id] = m.who]
        /\ connections_len' = connections_len + 1
        /\ conn' = [conn EXCEPT ![m.who] = "connecting"]
        /\ client_id' = [client_id EXCEPT ![m.who] = m.id]
        BY <1>1, <2>1 DEF AgentJoin, add_connection, m
  <2>4. ConnHasId'
        BY <2>1, <2>2, <2>3
  <2>5. /\ connections' \in [ClientID -> Owner] /\ connections_len' \in Nat
        /\ conn' \in [Players -> {"none", "connecting", "open", "ended"}]
        /\ client_id' \in [Players -> WireID \cup {NoID}]
        BY <2>1, <2>2, <2>3
  <2>6. QED  BY <1>1, <2>4, <2>5 DEF AgentJoin
<1>2. CASE AgentData
  <2>1. /\ Head(toClient) \in SocketPacket
        /\ [who |-> Head(toClient).who, n |-> Head(toClient).n] \in McData
        BY <1>0, <1>2, ChannelTypes, PacketTypes DEF DataOK, AgentData, AgentReceives
  <2>2. UNCHANGED <<to_proxy, c_writer, conn, client_id, replied, dlvd, pings>>
        BY <1>2 DEF AgentData
  <2> DEFINE pkg == Head(toClient)
             p   == IF pkg.id \in ClientID THEN connections[pkg.id] ELSE NoPlayer
  <2>3. CASE p # NoPlayer /\ conn[p] # "ended"
    <3>1. /\ client_rx' = [client_rx EXCEPT ![p] = Append(@, [who |-> pkg.who, n |-> pkg.n])]
          /\ UNCHANGED <<connections, connections_len, disconnect, c_reader>>
          BY <1>2, <2>3 DEF AgentData
    <3>2. p \in Players
          BY <2>3 DEF Owner
    <3> HIDE DEF p
    <3>3. Append(client_rx[p], [who |-> pkg.who, n |-> pkg.n]) \in Seq(McData)
          BY <2>1, <3>2, ChannelTypes
    <3>4. client_rx' \in [Players -> Seq(McData)]
          BY <3>1, <3>3
    <3>5. QED  BY <2>2, <3>1, <3>4
  <2>4. CASE p # NoPlayer /\ conn[p] = "ended"
    <3>1. remove_connection(pkg.id) /\ UNCHANGED <<client_rx, disconnect, c_reader>>
          BY <1>2, <2>4 DEF AgentData
    <3>2. connections' \in [ClientID -> Owner] /\ connections_len' \in Nat
          BY <3>1, RemoveKeeps
    <3>3. QED  BY <2>2, <3>1, <3>2
  <2>5. CASE p = NoPlayer
    <3>1. AgentReaderReturns("err") /\ UNCHANGED <<client_rx, connections_len>>
          BY <1>2, <2>5 DEF AgentData
    <3>2. /\ connections' \in [ClientID -> Owner]
          /\ disconnect' \in Seq(WireID) /\ c_reader' \in {"run", "ok", "err"}
          BY <3>1, ReturnKeeps
    <3>3. QED  BY <2>2, <3>1, <3>2
  <2>6. QED  BY <2>3, <2>4, <2>5
<1>3. CASE AgentDisconnect
  <2>1. connections' \in [ClientID -> Owner] /\ connections_len' \in Nat
        BY <1>3, RemoveKeeps DEF AgentDisconnect
  <2>2. QED  BY <1>3, <2>1 DEF AgentDisconnect
<1>4. CASE AgentPong
      BY <1>4 DEF AgentPong
<1>5. CASE AgentReaderFails \/ AgentReaderClosed \/ AgentWriterGone
  <2>1. /\ connections' \in [ClientID -> Owner]
        /\ disconnect' \in Seq(WireID) /\ c_reader' \in {"run", "ok", "err"}
        BY <1>5, ReturnKeeps DEF AgentReaderFails, AgentReaderClosed, AgentWriterGone
  <2>2. QED  BY <1>5, <2>1 DEF AgentReaderFails, AgentReaderClosed, AgentWriterGone
<1>6. CASE AgentTakesDisconnect
  <2>1. connections' \in [ClientID -> Owner] /\ connections_len' \in Nat
        BY <1>6, RemoveKeeps DEF AgentTakesDisconnect
  <2>2. disconnect' \in Seq(WireID)
        BY <1>6, ChannelTypes DEF AgentTakesDisconnect
  <2>3. QED  BY <1>6, <2>1, <2>2 DEF AgentTakesDisconnect
<1>7. CASE AgentPings
  <2>1. pings' \in 0 .. MaxPings
        BY <1>7, AgentAssumption DEF AgentPings, AgentAssumption
  <2>2. CASE c_writer = "run"
    <3>1. <<Ping>> \in Seq(GoodMessage)
          BY AgentMessages
    <3>2. to_proxy' = to_proxy \o <<Ping>>
          BY <1>7, <2>2 DEF AgentPings, SendToProxy
    <3>3. to_proxy' \in Seq(GoodMessage)
          BY <3>1, <3>2
    <3>4. QED  BY <1>7, <2>1, <2>2, <3>3 DEF AgentPings
  <2>3. CASE c_writer # "run"
    <3>1. /\ connections' \in [ClientID -> Owner]
          /\ disconnect' \in Seq(WireID) /\ c_reader' \in {"run", "ok", "err"}
          BY <1>7, <2>3, ReturnKeeps DEF AgentPings
    <3>2. QED  BY <1>7, <2>1, <2>3, <3>1 DEF AgentPings
  <2>4. QED  BY <2>2, <2>3
<1>8. QED  BY <1>1, <1>2, <1>3, <1>4, <1>5, <1>6, <1>7 DEF AgentReaderNext

\* writer_handler keeps the client's types.
LEMMA AgentWriterKeeps == AgentOK /\ AgentWriterNext => AgentOK'
<1> SUFFICES ASSUME AgentOK, AgentWriterNext PROVE AgentOK'
    OBVIOUS
<1> USE DEF AgentOK, AgentShape, ConnHasId, connVars
<1>0. to_proxy # <<>> => Head(to_proxy) \in GoodMessage /\ Tail(to_proxy) \in Seq(GoodMessage)
      BY ChannelTypes
<1>1. CASE AgentWritesPacket \/ AgentWritesPing
      BY <1>0, <1>1 DEF AgentWritesPacket, AgentWritesPing, AgentWriterTakes
<1>2. CASE AgentWritesDisconnect
  <2>1. CASE c_reader = "run"
    <3>1. Head(to_proxy).id \in WireID
          BY <1>0, <1>2 DEF AgentWritesDisconnect, AgentWriterTakes, GoodMessage
    <3>2. disconnect' \in Seq(WireID)
      <4>1. disconnect \in Seq(WireID) /\ disconnect' = Append(disconnect, Head(to_proxy).id)
            BY <1>2, <2>1, Zenon DEF AgentWritesDisconnect
      <4>2. QED  BY <3>1, <4>1, ChannelTypes, Zenon
    <3>3. QED  BY <1>0, <1>2, <2>1, <3>2 DEF AgentWritesDisconnect, AgentWriterTakes
  <2>2. CASE c_reader # "run"
    <3>1. to_proxy' = <<>> /\ c_writer' = "ended" /\ UNCHANGED disconnect
          BY <1>2, <2>2 DEF AgentWritesDisconnect, AgentWriterEnds
    <3>2. QED  BY <1>2, <3>1, ChannelTypes DEF AgentWritesDisconnect
  <2>3. QED  BY <2>1, <2>2
<1>3. CASE AgentWriterDies \/ AgentWriterFails \/ AgentWriterAborted
  <2>1. to_proxy' = <<>> /\ c_writer' = "ended"
        BY <1>3 DEF AgentWriterDies, AgentWriterFails, AgentWriterAborted, AgentWriterEnds
  <2>2. QED  BY <1>3, <2>1, ChannelTypes DEF AgentWriterDies, AgentWriterFails, AgentWriterAborted
<1>4. QED  BY <1>1, <1>2, <1>3 DEF AgentWriterNext

\* The end of a connection, whatever it has left to say.
LEMMA ConnEndsKeeps ==
    ASSUME AgentOK, NEW p \in Players, conn[p] # "none", NEW msgs \in Seq(GoodMessage),
           ConnEnds(p, msgs)
    PROVE  /\ to_proxy' \in Seq(GoodMessage)
           /\ conn' \in [Players -> {"none", "connecting", "open", "ended"}]
           /\ client_rx' \in [Players -> Seq(McData)]
           /\ client_id' = client_id => ConnHasId'
<1> USE DEF AgentOK, AgentShape, ConnHasId
<1>1. to_proxy \o msgs \in Seq(GoodMessage)
      OBVIOUS
<1>2. to_proxy' \in Seq(GoodMessage)
      BY <1>1, Zenon DEF ConnEnds, SendToProxy
<1>3. QED  BY <1>2, ChannelTypes DEF ConnEnds

\* A ClientConnection keeps the client's types.
LEMMA ConnKeeps == ASSUME NEW p \in Players PROVE AgentOK /\ ConnNext(p) => AgentOK'
<1> SUFFICES ASSUME AgentOK, ConnNext(p) PROVE AgentOK'
    OBVIOUS
<1> USE DEF AgentOK, AgentShape, ConnHasId, connVars, clientVars
<1>0. conn[p] # "none" => AgentRemove(client_id[p]) \in GoodMessage /\ Death \in GoodMessage
      BY AgentMessages
<1>1. CASE ConnConnects(p)
      BY <1>1 DEF ConnConnects
<1>2. CASE ConnConnectFails(p)
  <2>1. <<Death, AgentRemove(client_id[p])>> \in Seq(GoodMessage)
        BY <1>0, <1>2 DEF ConnConnectFails
  <2>2. QED  BY <1>2, <2>1, ConnEndsKeeps DEF ConnConnectFails
<1>3. CASE ConnWrites(p)
  <2>1. Head(client_rx[p]).n \in Nat /\ Tail(client_rx[p]) \in Seq(McData)
        BY <1>3, ChannelTypes, McDataTypes DEF ConnWrites
  <2>2. QED  BY <1>3, <2>1 DEF ConnWrites
<1>4. CASE ConnChannelClosed(p)
      BY <1>4, ConnEndsKeeps, ChannelTypes DEF ConnChannelClosed
<1>5. CASE ConnReads(p)
  <2>1. replied[p] + 1 \in 1 .. MaxReply
        BY <1>5, WireAssumption DEF ConnReads, WireAssumption
  <2>2. replied' \in [Players -> 0 .. MaxReply]
        BY <1>5, <2>1 DEF ConnReads
  <2>3. CASE c_writer = "run"
    <3>1. AgentPacket(client_id[p], p, replied[p] + 1) \in GoodMessage
          BY <1>5, <2>1, AgentMessages DEF ConnReads
    <3>2. to_proxy' = to_proxy \o <<AgentPacket(client_id[p], p, replied[p] + 1)>>
          BY <1>5, <2>3 DEF ConnReads, SendToProxy
    <3>3. to_proxy' \in Seq(GoodMessage)
          BY <3>1, <3>2
    <3>4. QED  BY <1>5, <2>2, <2>3, <3>3 DEF ConnReads
  <2>4. CASE c_writer # "run"
    <3>1. ConnEnds(p, <<>>) /\ conn[p] # "none"
          BY <1>5, <2>4 DEF ConnReads
    <3>2. QED  BY <1>5, <2>2, <2>4, <3>1, ConnEndsKeeps, ChannelTypes DEF ConnReads
  <2>5. QED  BY <2>3, <2>4
<1>6. CASE ConnBreaks(p)
  <2>1. <<AgentRemove(client_id[p])>> \in Seq(GoodMessage)
        BY <1>0, <1>6 DEF ConnBreaks
  <2>2. QED  BY <1>6, <2>1, ConnEndsKeeps DEF ConnBreaks
<1>7. QED  BY <1>1, <1>2, <1>3, <1>4, <1>5, <1>6 DEF ConnNext

\* Every step of the tunnel preserves the client's invariant.
LEMMA AgentInvStep == IInv /\ AgentInv /\ [TunnelNext]_tunnelVars => AgentInv'
<1> SUFFICES ASSUME IInv, AgentInv, [TunnelNext]_tunnelVars PROVE AgentInv'
    OBVIOUS
<1>0. AgentOK  BY DEF AgentInv, AgentOK
<1>1. OpenStream'
      BY OpenStreamStep DEF AgentInv
<1>2. CASE AgentStep
      BY <1>0, <1>1, <1>2, AgentReaderKeeps, AgentWriterKeeps, ConnKeeps
      DEF AgentStep, AgentNext, AgentInv, AgentOK
<1>3. CASE UNCHANGED agentVars
  <2>1. AgentOK'
        BY <1>0, <1>3, Zenon
        DEF AgentOK, AgentShape, ConnHasId, agentVars, clientVars, connVars
  <2>2. QED  BY <1>1, <2>1 DEF AgentInv, AgentOK
<1>4. QED  BY <1>2, <1>3 DEF TunnelNext, ServerStep, LinkStep, TunnelFinished, tunnelVars

\* The invariant of the tunnel.
TunnelInv == IInv /\ AgentInv

\* The invariants of server and client are kept together: each needs the other.
LEMMA TunnelInvStep == TunnelInv /\ [TunnelNext]_tunnelVars => TunnelInv'
<1> SUFFICES ASSUME TunnelInv, [TunnelNext]_tunnelVars PROVE TunnelInv'
    OBVIOUS
<1>1. [Next]_vars
      BY StepSimulation DEF TunnelInv
<1>2. IInv'
      BY <1>1, TypeStep, CoreStep DEF TunnelInv, IInv
<1>3. QED  BY <1>2, AgentInvStep DEF TunnelInv

\* They hold in every state of the tunnel.
LEMMA TunnelInductive == TunnelSpec => []TunnelInv
<1>1. TunnelInit => TunnelInv
  <2> SUFFICES ASSUME TunnelInit PROVE TunnelInv
      OBVIOUS
  <2>1. IInv
        BY InitIInv DEF TunnelInit, Init
  <2>2. AgentShape
        BY IdTypes, WireAssumption, AgentAssumption
        DEF TunnelInit, AgentInit, HandleInit, AgentShape, WireAssumption, AgentAssumption
  <2>3. ConnHasId /\ OpenStream
        BY DEF TunnelInit, AgentInit, HandleInit, WireInit, ConnHasId, OpenStream
  <2>4. QED  BY <2>1, <2>2, <2>3 DEF TunnelInv, AgentInv
<1>2. QED  BY <1>1, TunnelInvStep, PTL DEF TunnelSpec

\* The types of the whole tunnel hold for every number of players and slots.
THEOREM TunnelTypes == TunnelSpec => []TunnelTypeOK
<1>1. TunnelInv => TunnelTypeOK
      BY AgentShapeType DEF TunnelInv, AgentInv, IInv, TunnelTypeOK
<1>2. QED  BY <1>1, TunnelInductive, PTL

\* The real client is a legal environment of the server's session, so every
\* theorem about ServerSession holds in the tunnel.
THEOREM TunnelRefines == TunnelSpec => ImplementsServerSession
<1>1. TunnelInit => Init
      BY DEF TunnelInit, Init
<1>2. TunnelInv /\ [TunnelNext]_tunnelVars => [Next]_vars
      BY StepSimulation DEF TunnelInv
<1>3. QED  BY <1>1, <1>2, TunnelInductive, PTL DEF TunnelSpec, Spec, ImplementsServerSession

-----------------------------------------------------------------------------
(* The client's count of connections.                                      *)

\* The slots of the client that are taken.
Taken == {i \in ClientID : connections[i] # NoPlayer}

\* They are finitely many, whatever the table.
LEMMA TakenFinite == IsFiniteSet(Taken) /\ Cardinality(Taken) \in Nat
<1>1. IsFiniteSet(ClientID)
      BY WireAssumption, FS_Interval DEF ClientID, WireAssumption
<1>2. QED  BY <1>1, FS_Subset, FS_CardinalityType DEF Taken

\* A join raises the count, also when it overwrites a slot that is taken.
LEMMA AddCovers ==
    ASSUME AgentShape, CountCoversConnections, NEW i, NEW p \in Players,
           add_connection(i, p)
    PROVE  CountCoversConnections'
<1>1. CountCoversConnections' <=> Cardinality(Taken') <= connections_len'
      BY DEF CountCoversConnections, Taken
<1>2. Cardinality(Taken) <= connections_len
      BY DEF CountCoversConnections, Taken
<1>3. CASE i \in ClientID
  <2>1. Taken' = Taken \cup {i}
        BY <1>3, WireAssumption DEF add_connection, Taken, AgentShape, WireAssumption
  <2>2. Cardinality(Taken \cup {i}) <= Cardinality(Taken) + 1
        BY TakenFinite, FS_AddElement
  <2>3. connections_len' = connections_len + 1 /\ connections_len \in Nat
        BY <1>3 DEF add_connection, AgentShape
  <2>4. Cardinality(Taken \cup {i}) \in Nat
    <3>1. IsFiniteSet(Taken \cup {i})
          BY TakenFinite, FS_AddElement
    <3>2. QED  BY <3>1, FS_CardinalityType
  <2>5. QED  BY <1>1, <1>2, <2>1, <2>2, <2>3, <2>4, TakenFinite
<1>4. CASE i \notin ClientID
  <2>1. Taken' = Taken /\ connections_len' = connections_len
        BY <1>4 DEF add_connection, Taken
  <2>2. QED  BY <1>1, <1>2, <2>1
<1>5. QED  BY <1>3, <1>4

\* A removal lowers the count only if it frees a slot.
LEMMA RemoveCovers ==
    ASSUME AgentShape, CountCoversConnections, NEW i, remove_connection(i)
    PROVE  CountCoversConnections'
<1>1. CountCoversConnections' <=> Cardinality(Taken') <= connections_len'
      BY DEF CountCoversConnections, Taken
<1>2. Cardinality(Taken) <= connections_len
      BY DEF CountCoversConnections, Taken
<1>3. CASE i \in Taken
  <2>1. Taken' = Taken \ {i}
        BY <1>3 DEF remove_connection, Taken, AgentShape
  <2>2. Cardinality(Taken \ {i}) = Cardinality(Taken) - 1
        BY <1>3, TakenFinite, FS_RemoveElement
  <2>3. Cardinality(Taken) # 0
        BY <1>3, TakenFinite, FS_EmptySet
  <2>4. connections_len \in Nat
        BY DEF AgentShape
  <2>5. connections_len' = IF connections_len = 0 THEN 0 ELSE connections_len - 1
        BY <1>3 DEF remove_connection, Taken
  <2>6. QED  BY <1>1, <1>2, <2>1, <2>2, <2>3, <2>4, <2>5, TakenFinite
<1>4. CASE i \notin Taken
  <2>1. Taken' = Taken /\ connections_len' = connections_len
        BY <1>4 DEF remove_connection, Taken
  <2>2. QED  BY <1>1, <1>2, <2>1
<1>5. QED  BY <1>3, <1>4

\* The return of reader_handler leaves the count and keeps or drops the table.
LEMMA ReturnCovers ==
    ASSUME AgentShape, CountCoversConnections, NEW how, AgentReaderReturns(how),
           connections_len' = connections_len
    PROVE  CountCoversConnections'
<1>1. CountCoversConnections' <=> Cardinality(Taken') <= connections_len'
      BY DEF CountCoversConnections, Taken
<1>2. Cardinality(Taken) <= connections_len /\ connections_len \in Nat
      BY DEF CountCoversConnections, Taken, AgentShape
<1>3. Taken' = Taken \/ Taken' = {}
      BY DEF AgentReaderReturns, Taken
<1>4. Cardinality({}) = 0
      BY FS_EmptySet
<1>5. QED  BY <1>1, <1>2, <1>3, <1>4

\* Every step keeps the count above the number of slots taken.
LEMMA CoverStep ==
    TunnelInv /\ CountCoversConnections /\ [TunnelNext]_tunnelVars => CountCoversConnections'
<1> SUFFICES ASSUME TunnelInv, CountCoversConnections, [TunnelNext]_tunnelVars
             PROVE  CountCoversConnections'
    OBVIOUS
<1>0. AgentShape  BY DEF TunnelInv, AgentInv
<1>1. CASE UNCHANGED <<connections, connections_len>>
      BY <1>1 DEF CountCoversConnections
<1>2. CASE AgentJoin
  <2>1. Head(toClient).who \in Players
    <3>1. 1 \in 1 .. Len(toClient) /\ Head(toClient) = toClient[1]
          BY <1>2, TypeParts DEF TunnelInv, IInv, DataOK, AgentJoin, AgentReceives
    <3>2. QED  BY <1>2, <3>1 DEF AgentJoin, AgentReceives, TunnelInv, IInv, Core,
                                 StreamInv, JoinsNamed
  <2>2. add_connection(Head(toClient).id, Head(toClient).who)
        BY <1>2 DEF AgentJoin
  <2>3. QED  BY <1>0, <2>1, <2>2, AddCovers
<1>3. CASE AgentData
  <2>1. \/ UNCHANGED <<connections, connections_len>>
        \/ remove_connection(Head(toClient).id)
        \/ AgentReaderReturns("err") /\ connections_len' = connections_len
        BY <1>3, Zenon DEF AgentData
  <2>2. QED  BY <1>0, <1>1, <2>1, RemoveCovers, ReturnCovers
<1>4. CASE AgentDisconnect
      BY <1>0, <1>4, RemoveCovers DEF AgentDisconnect
<1>5. CASE AgentTakesDisconnect
      BY <1>0, <1>5, RemoveCovers DEF AgentTakesDisconnect
<1>6. CASE AgentReaderFails \/ AgentReaderClosed \/ AgentWriterGone
      BY <1>0, <1>6, ReturnCovers DEF AgentReaderFails, AgentReaderClosed, AgentWriterGone
<1>7. CASE AgentPings
  <2>1. \/ UNCHANGED <<connections, connections_len>>
        \/ AgentReaderReturns("err") /\ connections_len' = connections_len
        BY <1>7, Zenon DEF AgentPings
  <2>2. QED  BY <1>0, <1>1, <2>1, ReturnCovers
<1>8. CASE AgentPong \/ AgentWriterNext
  <2>1. UNCHANGED <<connections, connections_len>>
        BY <1>8, Zenon DEF AgentPong, agentVars, clientVars, AgentWriterNext,
           AgentWritesPacket, AgentWritesDisconnect, AgentWriterDies, AgentWritesPing,
           AgentWriterFails, AgentWriterAborted
  <2>2. QED  BY <1>1, <2>1
<1>9. ASSUME NEW p \in Players, ConnNext(p) PROVE CountCoversConnections'
  <2>1. UNCHANGED <<connections, connections_len>>
        BY <1>9, Zenon DEF ConnNext, ConnConnects, ConnConnectFails, ConnWrites,
           ConnChannelClosed, ConnReads, ConnBreaks, clientVars
  <2>2. QED  BY <1>1, <2>1
<1>10. CASE UNCHANGED agentVars
       BY <1>1, <1>10, Zenon DEF agentVars, clientVars
<1>11. QED
       BY <1>2, <1>3, <1>4, <1>5, <1>6, <1>7, <1>8, <1>9, <1>10
       DEF TunnelNext, ServerStep, AgentStep, LinkStep, TunnelFinished, tunnelVars,
           AgentNext, AgentReaderNext

\* The number of connections in the client's statistics never falls below the
\* number of slots that are taken, although joins overwrite slots and both
\* sides remove them: connections_len never saturates early.
THEOREM CountCovers == TunnelSpec => []CountCoversConnections
<1>1. TunnelInit => CountCoversConnections
  <2> SUFFICES ASSUME TunnelInit PROVE CountCoversConnections
      OBVIOUS
  <2>1. {i \in ClientID : connections[i] # NoPlayer} = {} /\ connections_len = 0
        BY DEF TunnelInit, AgentInit, HandleInit
  <2>2. QED  BY <2>1, FS_EmptySet DEF CountCoversConnections
<1>2. QED  BY <1>1, CoverStep, TunnelInductive, PTL DEF TunnelSpec

-----------------------------------------------------------------------------
(* Joins: every player's connection is created once, with the player's id. *)

\* The joins among the packets.
Joins == {m \in SocketPacket : m.type = "ProxyJoin"}

\* The player is over and never had an id: connections of an earlier tunnel are named
\* by such players.
Over(p) == mc[p] = "done" /\ id[p] = NoID

\* A slot of the client holds the connection of the player that has its number, or
\* one of an earlier tunnel.
ConnNamed ==
    \A i \in ClientID : \A p \in Players :
        connections[i] = p => conn[p] # "none" /\ (id[p] = i \/ Over(p))

\* A join on the stream tells the id of a player that has no connection yet.
JoinsTold ==
    \A m \in ToSet(toClient) \cap Joins :
        /\ m.who \in Players /\ m.id \in ClientID
        /\ m.id = id[m.who] /\ conn[m.who] = "none"

\* A connection of this tunnel was created with the id of its player.
ConnTold ==
    \A p \in Players :
        conn[p] # "none" => Over(p) \/ (id[p] \in ClientID /\ client_id[p] = id[p])

\* A player that has an id and no connection yet has a join under way.
JoinComes ==
    \A p \in Players : id[p] # NoID /\ conn[p] = "none" =>
        \E m \in ToSet(toClient) \cap Joins : m.who = p

JoinInv ==
    ConnNamed /\ JoinsTold /\ Distinct(toClient, Joins) /\ ConnTold /\ JoinComes

\* A player that is over stays so.
LEMMA OverStays ==
    ASSUME TunnelInv, [TunnelNext]_tunnelVars, NEW p \in Players, mc[p] = "done"
    PROVE  mc'[p] = "done"
<1>0. mc \in [Players -> {"idle", "wait_id", "running", "done"}]
      BY DEF TunnelInv, IInv, TypeOK
<1>1. CASE mc' = mc
      BY <1>1
<1>2. ASSUME NEW q \in Players,
             \/ PlayerConnect(q) \/ PlayerStart(q) \/ PlayerNoId(q) \/ PlayerEnds(q)
      PROVE  mc'[p] = "done"
  <2>1. q # p
        BY <1>2 DEF PlayerConnect, PlayerStart, PlayerNoId, PlayerEnds
  <2>2. \E x : mc' = [mc EXCEPT ![q] = x]
        BY <1>2 DEF PlayerConnect, PlayerStart, PlayerNoId, PlayerEnds
  <2>3. QED  BY <1>0, <2>1, <2>2
<1>3. CASE ServerNext
  <2>1. CASE ReaderNext \/ WriterNext \/ HandleNext
    <3>1. mc' = mc
          BY <2>1, Zenon DEF ReaderNext, ReaderDisconnect, ReaderData, ReaderPing,
             ReaderUnexpected, ReaderClosed, ReaderFails, WriterNext, WriterAdd,
             WriterTooManyClients, WriterPacket, WriterPong, WriterRemove, WriterFails, HandleNext,
             HandleSelect, HandleReturns, ReaderAborted, WriterAborted, serverVars, sessionVars,
             playerVars
    <3>2. QED  BY <1>1, <3>1
  <2>2. ASSUME NEW q \in Players, PlayerNext(q) PROVE mc'[p] = "done"
    <3>1. CASE \/ PlayerReads(q) \/ PlayerLeaves(q) \/ PlayerWrites(q) \/ PlayerWriteFails(q)
               \/ PlayerChannelClosed(q) \/ PlayerAborted(q)
          BY <1>1, <3>1, Zenon DEF PlayerReads, PlayerLeaves, PlayerWrites, PlayerWriteFails,
             PlayerChannelClosed, PlayerAborted
    <3>2. QED  BY <1>2, <2>2, <3>1 DEF PlayerNext
  <2>3. QED  BY <1>3, <2>1, <2>2 DEF ServerNext
<1>4. CASE UNCHANGED serverVars
      BY <1>1, <1>4 DEF serverVars, playerVars
<1>5. QED  BY <1>3, <1>4 DEF TunnelNext, ServerStep, AgentStep, LinkStep, TunnelFinished, Finished,
                             tunnelVars, vars

\* No step but a join gives a slot of the client away.
Shrinks == \A i \in ClientID : connections'[i] \in {connections[i], NoPlayer}

\* A removal empties a slot or does nothing.
LEMMA RemoveShrinks ==
    ASSUME AgentShape, NEW i, remove_connection(i)
    PROVE  Shrinks
BY DEF AgentShape, remove_connection, Shrinks

\* So does the return of reader_handler.
LEMMA ReturnShrinks ==
    ASSUME AgentShape, NEW how, AgentReaderReturns(how)
    PROVE  Shrinks
BY DEF AgentShape, AgentReaderReturns, Shrinks

\* A step that sends or takes no join keeps the joins.
LEMMA JoinQuiet ==
    ASSUME TunnelInv, JoinInv, UNCHANGED <<id, client_id>>, Shrinks,
           \A p \in Players : mc[p] = "done" => mc'[p] = "done",
           \A p \in Players : conn'[p] = "none" <=> conn[p] = "none",
           Skip(toClient, toClient', SocketPacket, Joins)
    PROVE  JoinInv'
<1>0. DataOK /\ AgentShape
      BY TypeParts DEF TunnelInv, IInv, AgentInv
<1>1. /\ ToSet(toClient') \cap Joins = ToSet(toClient) \cap Joins
      /\ Distinct(toClient', Joins)
      BY <1>0, PacketTypes, SkipKeeps DEF DataOK, JoinInv
<1>2. ConnNamed'
      BY WireAssumption DEF JoinInv, ConnNamed, Shrinks, Over, WireAssumption
<1>3. JoinsTold'
      BY <1>1 DEF JoinInv, JoinsTold
<1>4. ConnTold'
      BY DEF JoinInv, ConnTold, Over
<1>5. JoinComes'
      BY <1>1 DEF JoinInv, JoinComes
<1>6. QED  BY <1>1, <1>2, <1>3, <1>4, <1>5 DEF JoinInv

\* The server's writer answers a request: the player's first and only join.
LEMMA WriterAddJoins ==
    ASSUME TunnelInv, JoinInv, WriterAdd, UNCHANGED agentVars
    PROVE  JoinInv'
<1>0. DataOK /\ AgentShape /\ ChannelInv
      BY TypeParts DEF TunnelInv, IInv, AgentInv, Core
<1> DEFINE p == Head(rx).who
           i == FirstFree(clients_id)
           m == ProxyJoin(i, p)
<1>1. p \in Players /\ id[p] = NoID /\ mc[p] = "wait_id"
  <2>1. Head(rx) \in ToSet(rx) /\ Head(rx).type = "AddMinecraftClient"
        BY <1>0, ToSetTail DEF WriterAdd, WriterReceives, DataOK
  <2>2. QED  BY <1>0, <2>1 DEF ChannelInv, AddsWait
<1>2. i \in ClientID
      BY FirstFreeIsFree DEF WriterAdd, FreeSlots
<1>3. /\ id' = [id EXCEPT ![p] = i] /\ toClient' = Append(toClient, m)
      /\ UNCHANGED <<connections, conn, client_id, mc>>
      BY DEF WriterAdd, agentVars, clientVars, connVars
<1>4. m \in Joins /\ m.who = p /\ m.id = i
      BY <1>1, <1>2, IdTypes, PacketTypes DEF Joins, ProxyJoin
<1> HIDE DEF p, i, m
<1>5. conn[p] = "none"
      BY <1>1, IdTypes DEF JoinInv, ConnTold, Over
<1>6. ToSet(toClient') = ToSet(toClient) \cup {m}
      BY <1>0, <1>3, <1>4, ToSetAppend DEF DataOK, Joins
<1>7. \A k \in ToSet(toClient) \cap Joins : k.who # p
      BY <1>1, <1>4, IdTypes DEF JoinInv, JoinsTold
<1>8. Distinct(toClient', Joins)
      BY <1>0, <1>3, <1>4, <1>7, DistinctAppend DEF DataOK, Joins, JoinInv
<1>9. \A q \in Players : id'[q] = IF q = p THEN i ELSE id[q]
      BY <1>0, <1>3 DEF DataOK
<1>10. ConnNamed'
       BY <1>3, <1>5, <1>9 DEF JoinInv, ConnNamed, Over
<1>11. JoinsTold'
       BY <1>1, <1>2, <1>3, <1>4, <1>5, <1>6, <1>7, <1>9 DEF JoinInv, JoinsTold
<1>12. ConnTold'
       BY <1>3, <1>5, <1>9 DEF JoinInv, ConnTold, Over
<1>13. JoinComes'
       BY <1>3, <1>4, <1>6, <1>9 DEF JoinInv, JoinComes
<1>14. QED  BY <1>8, <1>10, <1>11, <1>12, <1>13 DEF JoinInv

\* The client's reader takes a join: it creates the player's first connection.
LEMMA AgentJoinJoins ==
    ASSUME TunnelInv, JoinInv, AgentJoin, UNCHANGED serverVars
    PROVE  JoinInv'
<1>0. DataOK /\ AgentShape
      BY TypeParts DEF TunnelInv, IInv, AgentInv
<1> DEFINE m == Head(toClient)
           p == m.who
           i == m.id
<1>1. toClient # <<>> /\ m.type = "ProxyJoin" /\ toClient' = Tail(toClient)
      BY DEF AgentJoin, AgentReceives
<1>2. m \in Joins /\ ToSet(toClient) = ToSet(toClient') \cup {m}
      BY <1>0, <1>1, ChannelTypes, ToSetTail DEF DataOK, Joins
<1>3. p \in Players /\ i \in ClientID /\ i = id[p] /\ conn[p] = "none"
      BY <1>2 DEF JoinInv, JoinsTold
<1>4. /\ connections' = [connections EXCEPT ![i] = p]
      /\ conn' = [conn EXCEPT ![p] = "connecting"]
      /\ client_id' = [client_id EXCEPT ![p] = i]
      /\ UNCHANGED <<id, mc>>
      BY <1>3 DEF AgentJoin, add_connection, serverVars, playerVars
<1>5. /\ Distinct(toClient', Joins)
      /\ \A k \in ToSet(toClient') \cap Joins : k.who # p
      BY <1>0, <1>1, <1>2, DistinctTail DEF DataOK, JoinInv
<1> HIDE DEF m, p, i
<1>6. /\ \A j \in ClientID : connections'[j] = IF j = i THEN p ELSE connections[j]
      /\ \A q \in Players : conn'[q] = IF q = p THEN "connecting" ELSE conn[q]
      /\ \A q \in Players : client_id'[q] = IF q = p THEN i ELSE client_id[q]
      BY <1>0, <1>3, <1>4 DEF AgentShape
<1>7. ConnNamed'
      BY <1>3, <1>4, <1>6 DEF JoinInv, ConnNamed, Over
<1>8. JoinsTold'
      BY <1>2, <1>4, <1>5, <1>6 DEF JoinInv, JoinsTold
<1>9. ConnTold'
      BY <1>3, <1>4, <1>6 DEF JoinInv, ConnTold, Over
<1>10. JoinComes'
  <2>1. SUFFICES ASSUME NEW q \in Players, id'[q] # NoID, conn'[q] = "none"
                 PROVE  \E k \in ToSet(toClient') \cap Joins : k.who = q
        BY DEF JoinComes
  <2>2. q # p /\ id[q] # NoID /\ conn[q] = "none"
        BY <1>4, <1>6, <2>1
  <2>3. PICK k \in ToSet(toClient) \cap Joins : k.who = q
        BY <2>2 DEF JoinInv, JoinComes
  <2>4. k # m
        BY <2>2, <2>3 DEF p
  <2>5. QED  BY <1>2, <2>3, <2>4
<1>11. QED  BY <1>5, <1>7, <1>8, <1>9, <1>10 DEF JoinInv

\* No step of the server but WriterAdd gives out an id or sends a join.
LEMMA ServerNoJoin ==
    ASSUME TunnelInv, ServerNext, ~ WriterAdd
    PROVE  id' = id /\ Skip(toClient, toClient', SocketPacket, Joins)
<1>0. DataOK  BY TypeParts DEF TunnelInv, IInv
<1> USE DEF Skip, wireVars, sessionVars, playerVars, serverVars
<1>1. CASE ReaderNext
      BY <1>1, Zenon DEF ReaderNext, ReaderDisconnect, ReaderData, ReaderPing,
         ReaderUnexpected, ReaderClosed, ReaderFails
<1>2. CASE WriterTooManyClients \/ WriterFails
      BY <1>2, Zenon DEF WriterTooManyClients, WriterFails
<1>3. ASSUME NEW m \in SocketPacket, m.type # "ProxyJoin",
             toClient' = Append(toClient, m) \/ toClient' = toClient, id' = id
      PROVE  id' = id /\ Skip(toClient, toClient', SocketPacket, Joins)
  <2>1. m \in SocketPacket \ Joins
        BY <1>3 DEF Joins
  <2>2. QED  BY <1>3, <2>1, Zenon
<1>4. CASE WriterPacket \/ WriterPong \/ WriterRemove
  <2>1. Head(rx) \in ClientToProxy
        BY <1>0, <1>4, ChannelTypes
        DEF DataOK, WriterPacket, WriterPong, WriterRemove, WriterReceives
  <2>2. Head(rx).id \in WireID \cup {NoID} /\ Head(rx).who \in Owner /\ Head(rx).n \in Nat
        BY <2>1, MessageTypes, IdTypes
  <2>3. CASE WriterPacket
        BY <1>3, <2>2, <2>3, PacketTypes DEF WriterPacket, ProxyData
  <2>4. CASE WriterPong
        BY <1>3, <2>4, PacketTypes DEF WriterPong, ProxyPong
  <2>5. CASE WriterRemove
        BY <1>3, <2>2, <2>5, PacketTypes DEF WriterRemove, ProxyDisconnect
  <2>6. QED  BY <1>4, <2>3, <2>4, <2>5
<1>5. CASE HandleNext
      BY <1>5, Zenon DEF HandleNext, HandleSelect, HandleReturns, ReaderAborted, WriterAborted
<1>6. ASSUME NEW p \in Players, PlayerNext(p)
      PROVE  id' = id /\ Skip(toClient, toClient', SocketPacket, Joins)
      BY <1>6, Zenon DEF PlayerNext, PlayerConnect, PlayerStart, PlayerNoId, PlayerReads,
         PlayerLeaves, PlayerWrites, PlayerWriteFails, PlayerChannelClosed, PlayerEnds,
         PlayerAborted
<1>7. QED  BY <1>1, <1>2, <1>4, <1>5, <1>6 DEF ServerNext, WriterNext

\* No step of the client but AgentJoin takes a join or creates a connection.
LEMMA AgentNoJoin ==
    ASSUME TunnelInv, AgentNext, ~ AgentJoin
    PROVE  /\ client_id' = client_id /\ Shrinks
           /\ \A p \in Players : conn'[p] = "none" <=> conn[p] = "none"
           /\ Skip(toClient, toClient', SocketPacket, Joins)
<1>0. DataOK /\ AgentShape
      BY TypeParts DEF TunnelInv, IInv, AgentInv
<1>1. UNCHANGED connections => Shrinks
      BY DEF Shrinks
<1>2. toClient' = toClient => Skip(toClient, toClient', SocketPacket, Joins)
      BY DEF Skip
<1> USE DEF wireVars, agentVars, clientVars, connVars
<1>3. CASE AgentData \/ AgentDisconnect \/ AgentPong
  <2>1. /\ toClient # <<>> /\ Head(toClient).type # "ProxyJoin"
        /\ toClient' = Tail(toClient) /\ UNCHANGED <<client_id, conn>>
        BY <1>3 DEF AgentData, AgentDisconnect, AgentPong, AgentReceives
  <2>2. Skip(toClient, toClient', SocketPacket, Joins)
        BY <2>1 DEF Skip, Joins
  <2>3. \/ UNCHANGED connections \/ remove_connection(Head(toClient).id)
        \/ AgentReaderReturns("err")
        BY <1>3, Zenon DEF AgentData, AgentDisconnect, AgentPong
  <2>4. Shrinks
        BY <1>0, <1>1, <2>3, RemoveShrinks, ReturnShrinks
  <2>5. QED  BY <2>1, <2>2, <2>4
<1>4. CASE \/ AgentReaderFails \/ AgentReaderClosed \/ AgentTakesDisconnect
           \/ AgentWriterGone \/ AgentPings
  <2>1. /\ UNCHANGED <<toClient, client_id, conn>>
        /\ \/ UNCHANGED connections \/ remove_connection(Head(disconnect))
           \/ \E how \in {"ok", "err"} : AgentReaderReturns(how)
        BY <1>4, Zenon DEF AgentReaderFails, AgentReaderClosed, AgentTakesDisconnect,
           AgentWriterGone, AgentPings
  <2>2. Shrinks
        BY <1>0, <1>1, <2>1, RemoveShrinks, ReturnShrinks
  <2>3. QED  BY <1>2, <2>1, <2>2
<1>5. CASE AgentWriterNext
  <2>1. UNCHANGED <<toClient, client_id, conn, connections>>
        BY <1>5, Zenon DEF AgentWriterNext, AgentWritesPacket, AgentWritesDisconnect,
           AgentWriterDies, AgentWritesPing, AgentWriterFails, AgentWriterAborted
  <2>2. QED  BY <1>1, <1>2, <2>1
<1>6. ASSUME NEW p \in Players, ConnNext(p)
      PROVE  /\ UNCHANGED <<toClient, client_id, connections>>
             /\ \A q \in Players : conn'[q] = "none" <=> conn[q] = "none"
  <2>1. /\ UNCHANGED <<toClient, client_id, connections>>
        /\ conn[p] # "none"
        /\ \/ conn' = conn \/ conn' = [conn EXCEPT ![p] = "ended"]
           \/ conn' = [conn EXCEPT ![p] = "open"]
        BY <1>6 DEF ConnNext, ConnConnects, ConnConnectFails, ConnWrites,
           ConnChannelClosed, ConnReads, ConnBreaks, ConnEnds
  <2>2. QED  BY <1>0, <2>1 DEF AgentShape
<1>7. QED
      BY <1>1, <1>2, <1>3, <1>4, <1>5, <1>6 DEF AgentNext, AgentReaderNext

\* Every step of the tunnel keeps joins and connections in step.
LEMMA JoinStep == TunnelInv /\ JoinInv /\ [TunnelNext]_tunnelVars => JoinInv'
<1> SUFFICES ASSUME TunnelInv, JoinInv, [TunnelNext]_tunnelVars PROVE JoinInv'
    OBVIOUS
<1>0. \A p \in Players : mc[p] = "done" => mc'[p] = "done"
      BY OverStays
<1>1. CASE ServerStep /\ WriterAdd
      BY <1>1, WriterAddJoins DEF ServerStep
<1>2. CASE AgentStep /\ AgentJoin
      BY <1>2, AgentJoinJoins DEF AgentStep
<1>3. CASE ServerStep /\ ~ WriterAdd
  <2>1. id' = id /\ Skip(toClient, toClient', SocketPacket, Joins)
        BY <1>3, ServerNoJoin DEF ServerStep
  <2>2. UNCHANGED <<connections, conn, client_id>>
        BY <1>3 DEF ServerStep, agentVars, clientVars, connVars
  <2>3. QED  BY <1>0, <2>1, <2>2, JoinQuiet DEF Shrinks
<1>4. CASE AgentStep /\ ~ AgentJoin
  <2>1. id' = id
        BY <1>4 DEF AgentStep, serverVars, playerVars
  <2>2. QED  BY <1>0, <1>4, <2>1, AgentNoJoin, JoinQuiet DEF AgentStep
<1>5. CASE LinkStep \/ TunnelFinished \/ UNCHANGED tunnelVars
  <2>1. UNCHANGED <<toClient, id, connections, conn, client_id>>
        BY <1>5, Zenon DEF LinkStep, LinkBreaks, TunnelFinished, Finished, tunnelVars, vars,
           wireVars, serverVars, sessionVars, playerVars, agentVars, clientVars, connVars
  <2>2. QED  BY <1>0, <2>1, JoinQuiet DEF Shrinks, Skip
<1>6. QED  BY <1>1, <1>2, <1>3, <1>4, <1>5 DEF TunnelNext

\* No join is under way and no connection exists at first.
LEMMA JoinInit == TunnelInit => JoinInv
<1> SUFFICES ASSUME TunnelInit PROVE JoinInv
    OBVIOUS
<1>1. /\ toClient = <<>> /\ id = [p \in Players |-> NoID]
      /\ connections = [i \in ClientID |-> NoPlayer] /\ conn = [p \in Players |-> "none"]
      BY DEF TunnelInit, WireInit, ServerInit, SessionInit, AgentInit
<1>2. ConnNamed /\ ConnTold /\ JoinComes
      BY <1>1, WireAssumption DEF ConnNamed, ConnTold, JoinComes, WireAssumption
<1>3. JoinsTold /\ Distinct(toClient, Joins)
      BY <1>1, ToSetEmpty DEF JoinsTold, Distinct
<1>4. QED  BY <1>2, <1>3 DEF JoinInv

\* An id is given out once.
LEMMA IdsStay ==
    ASSUME TunnelInv, [TunnelNext]_tunnelVars, NEW p \in Players, id[p] # NoID
    PROVE  id'[p] = id[p]
<1>0. DataOK /\ Core
      BY TypeParts DEF TunnelInv, IInv
<1>1. CASE ServerStep /\ WriterAdd
  <2> DEFINE q == Head(rx).who
  <2>1. q \in Players /\ id[q] = NoID
    <3>1. Head(rx) \in ToSet(rx) /\ Head(rx).type = "AddMinecraftClient"
          BY <1>0, <1>1, ToSetTail DEF WriterAdd, WriterReceives, DataOK
    <3>2. QED  BY <1>0, <3>1 DEF Core, ChannelInv, AddsWait
  <2>2. id' = [id EXCEPT ![q] = FirstFree(clients_id)]
        BY <1>1 DEF WriterAdd
  <2> HIDE DEF q
  <2>3. QED  BY <1>0, <2>1, <2>2 DEF DataOK
<1>2. CASE ServerStep /\ ~ WriterAdd
      BY <1>2, ServerNoJoin DEF ServerStep
<1>3. CASE AgentStep \/ LinkStep \/ TunnelFinished \/ UNCHANGED tunnelVars
  <2>1. id' = id
        BY <1>3, Zenon DEF AgentStep, LinkStep, TunnelFinished, Finished, tunnelVars, vars,
           serverVars, playerVars
  <2>2. QED  BY <2>1
<1>4. QED  BY <1>1, <1>2, <1>3 DEF TunnelNext

\* The connections of these players are of this tunnel.
Told(P) == \A p \in P : conn[p] # "none" => id[p] # NoID

\* They stay so: only a join creates a connection.
LEMMA ToldStep ==
    ASSUME TunnelInv, JoinInv, [TunnelNext]_tunnelVars, NEW P \in SUBSET Players, Told(P)
    PROVE  Told(P)'
<1>0. DataOK /\ AgentShape
      BY TypeParts DEF TunnelInv, IInv, AgentInv
<1>1. \A p \in Players : id[p] # NoID => id'[p] = id[p]
      BY IdsStay
<1>2. CASE AgentStep /\ AgentJoin
  <2> DEFINE m == Head(toClient)
  <2>1. m \in ToSet(toClient) \cap Joins
    <3>1. m \in SocketPacket /\ m \in ToSet(toClient) /\ m.type = "ProxyJoin"
          BY <1>0, <1>2, ChannelTypes, ToSetTail DEF AgentJoin, AgentReceives, DataOK
    <3>2. QED  BY <3>1 DEF Joins
  <2>2. m.who \in Players /\ id[m.who] # NoID
        BY <2>1, IdTypes DEF JoinInv, JoinsTold
  <2>3. conn' = [conn EXCEPT ![m.who] = "connecting"]
        BY <1>2, <2>2 DEF AgentJoin, add_connection
  <2> HIDE DEF m
  <2>4. QED  BY <1>0, <1>1, <2>2, <2>3 DEF Told, AgentShape
<1>3. CASE AgentStep /\ ~ AgentJoin
      BY <1>1, <1>3, AgentNoJoin DEF Told, AgentStep
<1>4. CASE ServerStep \/ LinkStep \/ TunnelFinished \/ UNCHANGED tunnelVars
  <2>1. conn' = conn
        BY <1>4, Zenon DEF ServerStep, LinkStep, TunnelFinished, Finished, tunnelVars, agentVars,
           connVars
  <2>2. QED  BY <1>1, <2>1 DEF Told
<1>5. QED  BY <1>2, <1>3, <1>4 DEF TunnelNext

-----------------------------------------------------------------------------
(* No connection of the client is left behind.                             *)

\* The slot is the player's, or its removal is yet to be sent or to be served.
Safe(i, p) ==
    \/ clients_id[i] = p
    \/ Contains(rx, RemoveMinecraftClient(i))
    \/ mc[p] \in {"wait_id", "running"}

\* The same after a step, for an id and a player of the state before.
SafeNext(i, p) ==
    \/ clients_id'[i] = p
    \/ Contains(rx', RemoveMinecraftClient(i))
    \/ mc'[p] \in {"wait_id", "running"}

\* A join on the stream is for a player that is safe, or a disconnect of its id
\* comes behind it.
JoinEnds ==
    writer = "run" =>
        \A k \in 1 .. Len(toClient) : toClient[k] \in Joins =>
            \/ Safe(toClient[k].id, toClient[k].who)
            \/ Followed(toClient, k, ProxyDisconnect(toClient[k].id))

\* The server's writer takes a message that is not a removal, or somebody sends one.
LEMMA RemovalsWait ==
    ASSUME DataOK, Once(rx), NEW i \in ClientID, Contains(rx, RemoveMinecraftClient(i)),
           \/ rx' = rx
           \/ \E m \in ClientToProxy : rx' = Append(rx, m)
           \/ rx # <<>> /\ rx' = Tail(rx) /\ Head(rx) # RemoveMinecraftClient(i)
    PROVE  Contains(rx', RemoveMinecraftClient(i))
<1> DEFINE x == RemoveMinecraftClient(i)
<1>0. x \in ToSet(rx)
      BY ContainsToSet DEF DataOK
<1> HIDE DEF x
<1>1. CASE rx' = rx
      BY <1>1
<1>2. ASSUME NEW m \in ClientToProxy, rx' = Append(rx, m) PROVE Contains(rx', x)
  <2>1. x \in ToSet(rx') /\ rx' \in Seq(ClientToProxy)
        BY <1>0, <1>2, ToSetAppend, ChannelTypes DEF DataOK
  <2>2. QED  BY <2>1, ContainsToSet
<1>3. CASE rx # <<>> /\ rx' = Tail(rx) /\ Head(rx) # x
  <2>1. x \in ToSet(rx') /\ rx' \in Seq(ClientToProxy)
        BY <1>0, <1>3, ToSetTail, ChannelTypes DEF DataOK
  <2>2. \A y : Contains(rx', y) <=> y \in ToSet(rx')
        BY <2>1, ContainsToSet
  <2>3. QED  BY <2>1, <2>2 DEF x
<1>4. QED  BY <1>1, <1>2, <1>3 DEF x

\* A player that is safe stays safe as long as the server's writer runs, or a
\* disconnect is sent.
LEMMA SafeStep ==
    ASSUME IInv, ServerNext, writer' = "run", NEW i \in ClientID, NEW p \in Players,
           id[p] = i, Safe(i, p)
    PROVE  Safe(i, p)' \/ toClient' = Append(toClient, ProxyDisconnect(i))
<1>0. DataOK /\ Core /\ TypeOK /\ Once(rx)
      BY TypeParts DEF IInv, Core, ChannelInv, AddsOnce
<1> DEFINE x == RemoveMinecraftClient(i)
<1>1. id[p] # NoID /\ mc[p] # "idle"
      BY <1>0, IdTypes DEF Core, SlotInv, IdKnown
<1>2. ASSUME UNCHANGED <<clients_id, mc>>,
             \/ rx' = rx
             \/ \E m \in ClientToProxy : rx' = Append(rx, m)
             \/ rx # <<>> /\ rx' = Tail(rx) /\ Head(rx) # x
      PROVE  Safe(i, p)'
  <2>1. Contains(rx, x) => Contains(rx', x)
        BY <1>0, <1>2, RemovalsWait
  <2>2. QED  BY <1>2, <2>1 DEF Safe
<1>3. CASE \/ ReaderData \/ ReaderUnexpected \/ ReaderClosed \/ ReaderFails
           \/ HandleSelect \/ HandleReturns \/ ReaderAborted
           \/ \E q \in Players : \/ PlayerLeaves(q) \/ PlayerWrites(q) \/ PlayerWriteFails(q)
                                 \/ PlayerChannelClosed(q) \/ PlayerAborted(q)
  <2>1. Inert
        BY <1>0, <1>3, InertSteps
  <2>2. QED  BY <1>2, <2>1 DEF Inert
<1>4. CASE ReaderDisconnect
  <2>1. UNCHANGED <<rx, mc, writer>> /\ clients_id' = remove_by_id(clients_id, Head(toServer).id)
        BY <1>4 DEF ReaderDisconnect, playerVars
  <2>2. clients_id[i] = p /\ mc[p] = "done" => Contains(rx, x)
        BY <1>0, <2>1 DEF Core, SlotInv, NoSlotLeak
  <2>3. mc[p] \in {"idle", "wait_id", "running", "done"}
        BY <1>0 DEF DataOK
  <2>4. QED  BY <1>1, <2>1, <2>2, <2>3 DEF Safe
<1>5. CASE ReaderPing
  <2>1. rx' = rx \/ rx' = Append(rx, AnswerPingPacket)
        BY <1>5 DEF ReaderPing
  <2>2. QED  BY <1>2, <1>5, <2>1, MessageTypes DEF ReaderPing, playerVars
<1>6. CASE WriterAdd
  <2>1. /\ rx # <<>> /\ rx' = Tail(rx) /\ Head(rx).type = "AddMinecraftClient"
        /\ clients_id' = insert(clients_id, Head(rx).who) /\ mc' = mc
        BY <1>6 DEF WriterAdd, WriterReceives
  <2>2. Contains(rx, x) => Contains(rx', x)
        BY <1>0, <2>1, MessageKinds, RemovalsWait
  <2>3. clients_id[i] = p => clients_id'[i] = p
    <3>1. FirstFree(clients_id) \in FreeSlots(clients_id)
          BY <1>6, FirstFreeIsFree DEF WriterAdd
    <3>2. clients_id[FirstFree(clients_id)] = NoPlayer
          BY <3>1 DEF FreeSlots
    <3>3. QED  BY <1>0, <2>1, <3>2, WireAssumption DEF insert, DataOK, WireAssumption
  <2>4. QED  BY <2>1, <2>2, <2>3 DEF Safe
<1>7. CASE WriterPacket \/ WriterPong
  <2>1. /\ rx # <<>> /\ rx' = Tail(rx) /\ Head(rx).type # "RemoveMinecraftClient"
        /\ UNCHANGED <<clients_id, mc>>
        BY <1>7 DEF WriterPacket, WriterPong, WriterReceives, playerVars
  <2>2. QED  BY <1>2, <2>1, MessageKinds
<1>8. CASE WriterRemove
  <2>1. /\ rx # <<>> /\ rx' = Tail(rx) /\ mc' = mc
        /\ clients_id' = remove_by_id(clients_id, Head(rx).id)
        BY <1>8 DEF WriterRemove, WriterReceives, playerVars
  <2>2. CASE Head(rx).id = i
        BY <1>8, <2>2 DEF WriterRemove, remove_by_id_returns
  <2>3. CASE Head(rx).id # i
    <3>1. Contains(rx, x) => Contains(rx', x)
          BY <1>0, <2>1, <2>3, MessageKinds, RemovalsWait
    <3>2. clients_id'[i] = clients_id[i]
          BY <1>0, <2>1, <2>3 DEF remove_by_id, DataOK
    <3>3. QED  BY <2>1, <3>1, <3>2 DEF Safe
  <2>4. QED  BY <2>2, <2>3
<1>9. CASE WriterTooManyClients \/ WriterFails \/ WriterAborted
      BY <1>9 DEF WriterTooManyClients, WriterFails, WriterAborted, WriterEnds
<1>10. ASSUME NEW q \in Players, PlayerReads(q) PROVE Safe(i, p)'
  <2>1. Packet(id[q], q, sent[q] + 1) \in ClientToProxy
    <3>1. id[q] \in ClientID \cup {NoID} /\ q \in Owner /\ sent[q] + 1 \in Nat
          BY <1>0, IdTypes DEF DataOK
    <3>2. QED  BY <3>1, MessageTypes
  <2>2. rx' = rx \/ rx' = Append(rx, Packet(id[q], q, sent[q] + 1))
        BY <1>10 DEF PlayerReads
  <2>3. QED  BY <1>2, <1>10, <2>1, <2>2 DEF PlayerReads
<1>11. ASSUME NEW q \in Players, PlayerConnect(q) \/ PlayerStart(q) \/ PlayerNoId(q)
       PROVE  Safe(i, p)'
  <2>1. /\ clients_id' = clients_id /\ writer = "run"
        /\ mc[q] = "idle" \/ id[q] = NoID \/ mc'[q] = "running"
        /\ \A u \in Players : u # q => mc'[u] = mc[u]
    <3>1. CASE PlayerConnect(q)
          BY <1>0, <3>1 DEF PlayerConnect, DataOK
    <3>2. CASE PlayerStart(q)
          BY <1>0, <3>2 DEF PlayerStart, DataOK
    <3>3. CASE PlayerNoId(q)
          BY <1>0, <3>3 DEF PlayerNoId, DataOK, sessionVars
    <3>4. QED  BY <1>11, <3>1, <3>2, <3>3
  <2>2. rx' = rx \/ \E m \in ClientToProxy : rx' = Append(rx, m)
    <3>1. Packet(id[q], q, 1) \in ClientToProxy /\ AddMinecraftClient(q) \in ClientToProxy
          BY <1>0, IdTypes, MessageTypes DEF DataOK
    <3>2. \/ rx' = rx \/ rx' = Append(rx, Packet(id[q], q, 1))
          \/ rx' = Append(rx, AddMinecraftClient(q))
          BY <1>11 DEF PlayerConnect, PlayerStart, PlayerNoId, sessionVars
    <3>3. QED  BY <3>1, <3>2
  <2>3. Contains(rx, x) => Contains(rx', x)
        BY <1>0, <2>2, RemovalsWait
  <2>4. mc[p] \in {"wait_id", "running"} => mc'[p] \in {"wait_id", "running"}
        BY <1>0, <1>1, <2>1 DEF DataOK
  <2>5. QED  BY <2>1, <2>3, <2>4 DEF Safe
<1>12. ASSUME NEW q \in Players, PlayerEnds(q) PROVE Safe(i, p)'
  <2>1. /\ clients_id' = clients_id /\ writer = "run"
        /\ mc' = [mc EXCEPT ![q] = "done"]
        /\ rx' = Append(rx, RemoveMinecraftClient(id[q]))
        BY <1>12 DEF PlayerEnds
  <2>2. RemoveMinecraftClient(id[q]) \in ClientToProxy
        BY <1>0, MessageTypes DEF DataOK
  <2>3. Contains(rx, x) => Contains(rx', x)
        BY <1>0, <2>1, <2>2, RemovalsWait
  <2>4. CASE q = p
    <3>1. ToSet(rx') = ToSet(rx) \cup {x} /\ rx' \in Seq(ClientToProxy)
          BY <1>0, <2>1, <2>2, <2>4, ToSetAppend, ChannelTypes DEF DataOK
    <3>2. QED  BY <3>1, ContainsToSet DEF Safe
  <2>5. CASE q # p
    <3>1. mc'[p] = mc[p]
          BY <1>0, <2>1, <2>5 DEF DataOK
    <3>2. QED  BY <2>1, <2>3, <3>1 DEF Safe
  <2>6. QED  BY <2>4, <2>5
<1>13. QED
       BY <1>3, <1>4, <1>5, <1>6, <1>7, <1>8, <1>9, <1>10, <1>11, <1>12
       DEF ServerNext, ReaderNext, WriterNext, HandleNext, PlayerNext

\* What the server's steps do to the stream: at most one packet is sent, and a
\* join that is sent is for the player that got the slot.
LEMMA ServerStream ==
    ASSUME IInv, ServerNext
    PROVE  \/ toClient' = toClient
           \/ \E m \in SocketPacket :
                 /\ toClient' = Append(toClient, m)
                 /\ m \in Joins => m.id \in ClientID /\ clients_id'[m.id] = m.who
<1>0. DataOK /\ Core
      BY TypeParts DEF IInv
<1>1. CASE toClient' = toClient
      BY <1>1
<1>2. CASE WriterAdd
  <2> DEFINE p == Head(rx).who
             i == FirstFree(clients_id)
             m == ProxyJoin(i, p)
  <2>1. p \in Owner
        BY <1>0, <1>2, ChannelTypes, MessageTypes DEF WriterAdd, WriterReceives, DataOK
  <2>2. i \in ClientID
        BY <1>2, FirstFreeIsFree DEF WriterAdd, FreeSlots
  <2>3. m \in SocketPacket /\ m.id = i /\ m.who = p
        BY <2>1, <2>2, PacketTypes DEF ProxyJoin
  <2>4. toClient' = Append(toClient, m) /\ clients_id' = [clients_id EXCEPT ![i] = p]
        BY <1>2 DEF WriterAdd, insert
  <2> HIDE DEF p, i, m
  <2>5. QED  BY <1>0, <2>2, <2>3, <2>4 DEF DataOK
<1>3. ASSUME ~ WriterAdd, toClient' # toClient
      PROVE  \E m \in SocketPacket : toClient' = Append(toClient, m) /\ m \notin Joins
  <2>1. WriterPacket \/ WriterPong \/ WriterRemove
        BY <1>3, Zenon DEF ServerNext, ReaderNext, ReaderDisconnect, ReaderData, ReaderPing,
         ReaderUnexpected, ReaderClosed, ReaderFails, WriterNext, WriterTooManyClients,
         WriterFails, HandleNext, HandleSelect, HandleReturns, ReaderAborted, WriterAborted,
         PlayerNext, PlayerConnect, PlayerStart, PlayerNoId, PlayerReads,
         PlayerLeaves, PlayerWrites, PlayerWriteFails, PlayerChannelClosed, PlayerEnds,
         PlayerAborted, wireVars, sessionVars, playerVars, serverVars
  <2>2. Head(rx) \in ClientToProxy
        BY <1>0, <2>1, ChannelTypes
        DEF DataOK, WriterPacket, WriterPong, WriterRemove, WriterReceives
  <2>3. Head(rx).id \in WireID \cup {NoID} /\ Head(rx).who \in Owner /\ Head(rx).n \in Nat
        BY <2>2, MessageTypes, IdTypes
  <2>4. CASE WriterPacket
        BY <2>3, <2>4, PacketTypes DEF WriterPacket, ProxyData, Joins
  <2>5. CASE WriterPong
        BY <2>5, PacketTypes DEF WriterPong, ProxyPong, Joins
  <2>6. CASE WriterRemove
        BY <1>3, <2>3, <2>6, PacketTypes DEF WriterRemove, ProxyDisconnect, Joins
  <2>7. QED  BY <2>1, <2>4, <2>5, <2>6
<1>4. QED  BY <1>1, <1>2, <1>3

\* Steps of the server keep track of the end of every connection.
LEMMA ServerNoOrphan ==
    ASSUME TunnelInv, JoinInv, JoinEnds, NEW P \in SUBSET Players, Told(P), NoOrphan(P),
           ServerStep
    PROVE  JoinEnds' /\ NoOrphan(P)'
<1>0. DataOK /\ AgentShape /\ IInv
      BY TypeParts DEF TunnelInv, IInv, AgentInv
<1>1. ServerNext /\ UNCHANGED connections
      BY DEF ServerStep, agentVars, clientVars
<1>2. SUFFICES ASSUME writer' = "run" PROVE JoinEnds' /\ NoOrphan(P)'
      BY DEF JoinEnds, NoOrphan
<1>3. writer = "run"
  <2>1. Next  BY <1>1 DEF Next
  <2>2. QED  BY <1>0, <1>1, <1>2, Zenon DEF ServerNext, ReaderNext, ReaderDisconnect, ReaderData,
         ReaderPing, ReaderUnexpected, ReaderClosed, ReaderFails, WriterNext, WriterAdd,
         WriterTooManyClients, WriterPacket, WriterPong, WriterRemove, WriterFails, WriterReceives,
         HandleNext, HandleSelect, HandleReturns, ReaderAborted, WriterAborted,
         PlayerNext, PlayerConnect, PlayerStart, PlayerNoId, PlayerReads,
         PlayerLeaves, PlayerWrites, PlayerWriteFails, PlayerChannelClosed, PlayerEnds,
         PlayerAborted, sessionVars, playerVars, serverVars
<1>4. toClient' \in Seq(SocketPacket)
  <2>1. DataOK'
        BY <1>0, <1>1, DataStep DEF Next
  <2>2. QED  BY <2>1 DEF DataOK
<1>5. ASSUME NEW i \in ClientID, NEW p \in Players, id[p] = i, Safe(i, p)
      PROVE  SafeNext(i, p) \/ toClient' = Append(toClient, ProxyDisconnect(i))
  <2>1. Safe(i, p)' \/ toClient' = Append(toClient, ProxyDisconnect(i))
        BY <1>0, <1>1, <1>2, <1>5, SafeStep
  <2>2. QED  BY <2>1, Zenon DEF Safe, SafeNext
<1>6. \A i \in ClientID : ProxyDisconnect(i) \in SocketPacket
      BY PacketTypes, IdTypes
<1>7. JoinEnds'
  <2>1. SUFFICES ASSUME NEW k \in 1 .. Len(toClient'), toClient'[k] \in Joins
                 PROVE  \/ SafeNext(toClient'[k].id, toClient'[k].who)
                        \/ Followed(toClient', k, ProxyDisconnect(toClient'[k].id))
        BY Zenon DEF JoinEnds, Safe, SafeNext
  <2>2. ASSUME k \in 1 .. Len(toClient), toClient'[k] = toClient[k]
        PROVE  \/ SafeNext(toClient[k].id, toClient[k].who)
               \/ Followed(toClient', k, ProxyDisconnect(toClient[k].id))
    <3> DEFINE i == toClient[k].id
               p == toClient[k].who
    <3>1. i \in ClientID /\ p \in Players /\ id[p] = i
      <4>1. toClient[k] \in ToSet(toClient) \cap Joins
            BY <1>0, <2>1, <2>2 DEF DataOK, ToSet
      <4>2. QED  BY <4>1 DEF JoinInv, JoinsTold
    <3>2. Safe(i, p) \/ Followed(toClient, k, ProxyDisconnect(i))
          BY <1>3, <2>1, <2>2 DEF JoinEnds
    <3> HIDE DEF i, p
    <3>3. CASE Followed(toClient, k, ProxyDisconnect(i))
      <4>1. ASSUME NEW m \in SocketPacket, toClient' = Append(toClient, m)
            PROVE  Followed(toClient', k, ProxyDisconnect(i))
            BY <1>0, <2>2, <3>3, <4>1, FollowedAppend DEF DataOK
      <4>2. Followed(toClient', k, ProxyDisconnect(i))
            BY <1>0, <1>1, <3>3, <4>1, ServerStream
      <4>3. QED  BY <4>2 DEF i
    <3>4. CASE Safe(i, p)
      <4>1. CASE toClient' = Append(toClient, ProxyDisconnect(i))
        <5>1. Followed(toClient', k, ProxyDisconnect(i))
              BY <1>0, <1>6, <2>2, <3>1, <4>1, FollowedAppend DEF DataOK
        <5>2. QED  BY <5>1 DEF i
      <4>2. CASE SafeNext(i, p)
            BY <4>2 DEF i, p
      <4>3. QED  BY <1>5, <3>1, <3>4, <4>1, <4>2
    <3>5. QED  BY <3>2, <3>3, <3>4
  <2>3. CASE toClient' = toClient
        BY <2>1, <2>2, <2>3
  <2>4. ASSUME NEW m \in SocketPacket, toClient' = Append(toClient, m),
               m \in Joins => m.id \in ClientID /\ clients_id'[m.id] = m.who
        PROVE  \/ SafeNext(toClient'[k].id, toClient'[k].who)
               \/ Followed(toClient', k, ProxyDisconnect(toClient'[k].id))
    <3>1. \/ k \in 1 .. Len(toClient) /\ toClient'[k] = toClient[k]
          \/ toClient'[k] = m
      <4>1. toClient \in Seq(SocketPacket)
            BY <1>0 DEF DataOK
      <4>2. /\ Len(toClient') = Len(toClient) + 1 /\ toClient'[Len(toClient) + 1] = m
            /\ \A j \in 1 .. Len(toClient) : toClient'[j] = toClient[j]
            BY <2>4, <4>1
      <4>3. k \in 1 .. Len(toClient) \/ k = Len(toClient) + 1
            BY <2>1, <4>1, <4>2
      <4>4. QED  BY <4>2, <4>3
    <3>2. CASE k \in 1 .. Len(toClient) /\ toClient'[k] = toClient[k]
          BY <2>2, <3>2
    <3>3. CASE toClient'[k] = m
          BY <2>1, <2>4, <3>3 DEF SafeNext
    <3>4. QED  BY <3>1, <3>2, <3>3
  <2>5. QED  BY <1>0, <1>1, <2>3, <2>4, ServerStream
<1>8. NoOrphan(P)'
  <2>1. SUFFICES ASSUME NEW i \in ClientID, NEW p \in P, connections[i] = p
                 PROVE  SafeNext(i, p) \/ Contains(toClient', ProxyDisconnect(i))
        BY <1>1, Zenon DEF NoOrphan, SafeNext
  <2>2. id[p] = i
        BY <2>1 DEF JoinInv, ConnNamed, Told, Over
  <2>3. Safe(i, p) \/ Contains(toClient, ProxyDisconnect(i))
        BY <1>3, <2>1, Zenon DEF NoOrphan, Safe
  <2> DEFINE x == ProxyDisconnect(i)
  <2>4. /\ \A y : Contains(toClient, y) <=> y \in ToSet(toClient)
        /\ \A y : Contains(toClient', y) <=> y \in ToSet(toClient')
        BY <1>0, <1>4, ContainsToSet DEF DataOK
  <2>5. CASE Safe(i, p)
    <3>1. CASE toClient' = Append(toClient, x)
      <4>1. x \in ToSet(toClient')
            BY <1>0, <1>6, <3>1, ToSetAppend DEF DataOK
      <4>2. QED  BY <2>4, <4>1
    <3>2. QED  BY <1>5, <2>2, <2>5, <3>1
  <2>6. CASE Contains(toClient, x)
    <3>1. ASSUME NEW m \in SocketPacket, toClient' = Append(toClient, m)
          PROVE  ToSet(toClient) \subseteq ToSet(toClient')
          BY <1>0, <3>1, ToSetAppend DEF DataOK
    <3>2. ToSet(toClient) \subseteq ToSet(toClient')
          BY <1>0, <1>1, <3>1, ServerStream
    <3>3. QED  BY <2>4, <2>6, <3>2
  <2>7. QED  BY <2>3, <2>5, <2>6
<1>9. QED  BY <1>7, <1>8

\* A packet the client takes leaves the joins behind it as they were.
LEMMA TakenJoins ==
    ASSUME TunnelInv, JoinEnds, UNCHANGED serverVars, toClient # <<>>,
           toClient' = Tail(toClient)
    PROVE  JoinEnds'
<1>0. DataOK
      BY TypeParts DEF TunnelInv, IInv
<1>1. UNCHANGED <<clients_id, rx, mc, writer>>
      BY DEF serverVars, sessionVars, playerVars
<1>2. SUFFICES ASSUME writer = "run", NEW k \in 1 .. Len(toClient'), toClient'[k] \in Joins
               PROVE  \/ SafeNext(toClient'[k].id, toClient'[k].who)
                      \/ Followed(toClient', k, ProxyDisconnect(toClient'[k].id))
      BY <1>1, Zenon DEF JoinEnds, Safe, SafeNext
<1>3. k + 1 \in 1 .. Len(toClient) /\ toClient'[k] = toClient[k + 1] /\ k + 1 # 1
      BY <1>0 DEF DataOK
<1>4. \/ Safe(toClient[k + 1].id, toClient[k + 1].who)
      \/ Followed(toClient, k + 1, ProxyDisconnect(toClient[k + 1].id))
      BY <1>2, <1>3 DEF JoinEnds
<1>5. CASE Safe(toClient[k + 1].id, toClient[k + 1].who)
      BY <1>1, <1>3, <1>5, Zenon DEF Safe, SafeNext
<1>6. CASE Followed(toClient, k + 1, ProxyDisconnect(toClient[k + 1].id))
  <2>1. Followed(toClient', k + 1 - 1, ProxyDisconnect(toClient[k + 1].id))
        BY <1>0, <1>3, <1>6, FollowedTail DEF DataOK
  <2>2. k + 1 - 1 = k
        OBVIOUS
  <2>3. QED  BY <1>3, <2>1, <2>2
<1>7. QED  BY <1>4, <1>5, <1>6

\* Steps of the client keep track of the end of every connection: a disconnect that
\* is taken empties its slot, and a join that is taken has its end behind it.
LEMMA AgentNoOrphan ==
    ASSUME TunnelInv, JoinInv, JoinEnds, NEW P \in SUBSET Players, NoOrphan(P), AgentStep
    PROVE  JoinEnds' /\ NoOrphan(P)'
<1>0. DataOK /\ AgentShape
      BY TypeParts DEF TunnelInv, IInv, AgentInv
<1>1. UNCHANGED <<clients_id, rx, mc, writer>> /\ UNCHANGED serverVars /\ AgentNext
      BY DEF AgentStep, serverVars, sessionVars, playerVars
<1>2. \/ toClient' = toClient
      \/ toClient # <<>> /\ toClient' = Tail(toClient)
      BY <1>1, Zenon DEF AgentNext, AgentReaderNext, AgentWriterNext, AgentJoin, AgentData,
         AgentDisconnect, AgentPong, AgentReceives, AgentReaderFails, AgentReaderClosed,
         AgentTakesDisconnect, AgentWriterGone, AgentPings, AgentWritesPacket,
         AgentWritesDisconnect, AgentWriterDies, AgentWritesPing, AgentWriterFails,
         AgentWriterAborted, ConnNext, ConnConnects, ConnConnectFails, ConnWrites,
         ConnChannelClosed, ConnReads, ConnBreaks, wireVars
<1>3. JoinEnds'
  <2>1. CASE toClient' = toClient
        BY <1>1, <2>1, Zenon DEF JoinEnds, Safe
  <2>2. QED  BY <1>1, <1>2, <2>1, TakenJoins
<1>4. SUFFICES ASSUME writer = "run", NEW i \in ClientID, NEW p \in P,
                      connections'[i] = p
               PROVE  Safe(i, p) \/ Contains(toClient', ProxyDisconnect(i))
      BY <1>1, <1>3, Zenon DEF NoOrphan, Safe
<1> DEFINE x == ProxyDisconnect(i)
<1>5. /\ \A y : Contains(toClient, y) <=> y \in ToSet(toClient)
      /\ \A y : Contains(toClient', y) <=> y \in ToSet(toClient')
  <2>1. toClient' \in Seq(SocketPacket)
        BY <1>0, <1>2, ChannelTypes DEF DataOK
  <2>2. QED  BY <1>0, <2>1, ContainsToSet DEF DataOK
<1>6. CASE connections[i] = p
  <2>1. Safe(i, p) \/ Contains(toClient, x)
        BY <1>4, <1>6, Zenon DEF NoOrphan, Safe
  <2>2. ASSUME toClient # <<>>, toClient' = Tail(toClient), Head(toClient) = x PROVE FALSE
    <3>1. Head(toClient).type = "ProxyDisconnect" /\ Head(toClient).id = i
          BY <2>2 DEF ProxyDisconnect
    <3>2. toClient' # toClient
          BY <1>0, <2>2 DEF DataOK
    <3>3. AgentDisconnect
          BY <1>1, <3>1, <3>2 DEF AgentNext, AgentReaderNext, AgentWriterNext, AgentJoin, AgentData,
         AgentPong, AgentReceives, AgentReaderFails, AgentReaderClosed,
         AgentTakesDisconnect, AgentWriterGone, AgentPings, AgentWritesPacket,
         AgentWritesDisconnect, AgentWriterDies, AgentWritesPing, AgentWriterFails,
         AgentWriterAborted, ConnNext, ConnConnects, ConnConnectFails, ConnWrites,
         ConnChannelClosed, ConnReads, ConnBreaks, wireVars
    <3>4. connections'[i] = NoPlayer
          BY <1>0, <3>1, <3>3 DEF AgentDisconnect, remove_connection, AgentShape
    <3>5. QED  BY <1>4, <3>4, WireAssumption DEF WireAssumption
  <2>3. Contains(toClient, x) => Contains(toClient', x)
        BY <1>0, <1>2, <1>5, <2>2, ToSetTail DEF DataOK
  <2>4. QED  BY <2>1, <2>3
<1>7. CASE connections[i] # p
  <2>1. AgentJoin
        BY <1>1, <1>4, <1>7, AgentNoJoin, WireAssumption DEF Shrinks, WireAssumption
  <2>2. toClient # <<>> /\ toClient' = Tail(toClient) /\ Head(toClient).type = "ProxyJoin"
        BY <2>1 DEF AgentJoin, AgentReceives
  <2>3. 1 \in 1 .. Len(toClient) /\ Head(toClient) = toClient[1] /\ toClient[1] \in Joins
        BY <1>0, <2>2, ChannelTypes DEF DataOK, Joins
  <2>4. toClient[1].id = i /\ toClient[1].who = p
        BY <1>0, <1>4, <1>7, <2>1, <2>3 DEF AgentJoin, add_connection, AgentShape
  <2>5. Safe(i, p) \/ Followed(toClient, 1, x)
        BY <1>4, <2>3, <2>4 DEF JoinEnds
  <2>6. Followed(toClient, 1, x) => x \in ToSet(toClient')
        BY <1>0, <2>2, <2>3, FollowedTail DEF DataOK
  <2>7. QED  BY <1>5, <2>5, <2>6
<1>8. QED  BY <1>6, <1>7

\* What has to hold for no connection of these players to be left behind.
OrphanInv(P) == JoinInv /\ Told(P) /\ JoinEnds /\ NoOrphan(P)

\* Every step keeps it.
LEMMA OrphanStep ==
    ASSUME NEW P \in SUBSET Players, TunnelInv, OrphanInv(P), [TunnelNext]_tunnelVars
    PROVE  OrphanInv(P)'
<1>1. JoinInv' /\ Told(P)'
      BY JoinStep, ToldStep DEF OrphanInv
<1>2. CASE ServerStep
      BY <1>1, <1>2, ServerNoOrphan DEF OrphanInv
<1>3. CASE AgentStep
      BY <1>1, <1>3, AgentNoOrphan DEF OrphanInv
<1>4. CASE LinkStep \/ TunnelFinished \/ UNCHANGED tunnelVars
  <2>1. UNCHANGED <<toClient, clients_id, rx, mc, writer, connections>>
        BY <1>4, Zenon DEF LinkStep, LinkBreaks, TunnelFinished, Finished, tunnelVars, vars,
           wireVars, serverVars, sessionVars, playerVars, agentVars, clientVars
  <2>2. JoinEnds' /\ NoOrphan(P)'
        BY <2>1, Zenon DEF OrphanInv, JoinEnds, NoOrphan, Safe
  <2>3. QED  BY <1>1, <2>2 DEF OrphanInv
<1>5. QED  BY <1>2, <1>3, <1>4 DEF TunnelNext

\* It holds in every state of the tunnel, for every player.
LEMMA OrphanInductive == TunnelSpec => []OrphanInv(Players)
<1>1. TunnelInit => OrphanInv(Players)
  <2> SUFFICES ASSUME TunnelInit PROVE OrphanInv(Players)
      OBVIOUS
  <2>1. /\ toClient = <<>> /\ connections = [i \in ClientID |-> NoPlayer]
        /\ conn = [p \in Players |-> "none"]
        BY DEF TunnelInit, WireInit, AgentInit
  <2>2. JoinEnds /\ Told(Players)
        BY <2>1 DEF JoinEnds, Told
  <2>3. NoOrphan(Players)
        BY <2>1, WireAssumption DEF NoOrphan, WireAssumption
  <2>4. QED  BY <2>2, <2>3, JoinInit DEF OrphanInv
<1>2. TunnelInv /\ OrphanInv(Players) /\ [TunnelNext]_tunnelVars => OrphanInv(Players)'
      BY OrphanStep
<1>3. QED  BY <1>1, <1>2, TunnelInductive, PTL DEF TunnelSpec

\* The client never keeps the connection of a player that lost its slot without a
\* disconnect on the stream, a removal in the server's channel or a player that
\* has yet to send one: for every number of players and slots, and although ids
\* are given out again while disconnects of both sides are under way.
THEOREM NoneOrphaned == TunnelSpec => []NoOrphanConnection
<1>1. OrphanInv(Players) => NoOrphanConnection
      BY DEF OrphanInv, NoOrphanConnection
<1>2. QED  BY <1>1, OrphanInductive, PTL

-----------------------------------------------------------------------------
(* The bytes of a player, on their way to the Minecraft server.            *)

\* A player's own data in the server's channel, on a stream, in the channel of a
\* connection and in the client's channel.
QueueData(p)  == {m \in ClientToProxy : m.type = "Packet" /\ m.who = p}
StreamData(p) == {m \in SocketPacket : m.type = "ProxyData" /\ m.who = p}
OwnData(p)    == {m \in McData : m.who = p}
ReplyData(p)  == {m \in GoodMessage : m.type = "Packet" /\ m.who = p}

\* The numbers of a player's packets that wait: in the channel of its connection, on
\* the stream, and in the channel of the server's writer.
UpA(p) == Nums(client_rx[p], OwnData(p))
UpB(p) == Nums(toClient, StreamData(p))
UpC(p) == Nums(rx, QueueData(p))

\* What is on the stream for a player can still reach its connection.
UpAlive(p) ==
    conn[p] = "none" \/ (conn[p] # "ended" /\ id[p] # NoID /\ connections[id[p]] = p)

\* What has reached the connection is in order and without a gap, whatever happens
\* to the slot.  As long as the slot is the player's this is so for the stream, and
\* as long as the server's writer runs nothing that was sent is missing.
UpOK(p) ==
    /\ RunFrom(UpA(p), dlvd[p]) /\ Rising(client_rx[p], OwnData(p))
    /\ UpAlive(p) =>
          /\ Flow(UpA(p), UpB(p), UpC(p), dlvd[p])
          /\ Rising(toClient, StreamData(p)) /\ Rising(rx, QueueData(p))
          /\ writer = "run" => Full(UpA(p), UpB(p), UpC(p), dlvd[p], sent[p])

\* A player that waits has sent nothing, and its tasks are not started.
Fresh ==
    \A p \in Players :
        mc[p] \in {"idle", "wait_id"} =>
            sent[p] = 0 /\ mcReader[p] = "off" /\ mcWriter[p] = "off"

\* The numbers are naturals.
LEMMA UpNumbers ==
    ASSUME TunnelInv, NEW p \in Players
    PROVE  /\ UpA(p) \in SUBSET Nat /\ UpB(p) \in SUBSET Nat /\ UpC(p) \in SUBSET Nat
           /\ dlvd[p] \in Nat /\ sent[p] \in Nat
<1>0. DataOK /\ AgentShape
      BY TypeParts DEF TunnelInv, IInv, AgentInv
<1>1. UpA(p) \subseteq Nat
  <2>1. client_rx[p] \in Seq(McData)
        BY <1>0 DEF AgentShape
  <2>2. QED  BY <2>1, McDataTypes, NumsNat DEF UpA
<1>2. UpB(p) \subseteq Nat
      BY <1>0, PacketTypes, NumsNat DEF UpB, DataOK
<1>3. UpC(p) \subseteq Nat
      BY <1>0, MessageTypes, NumsNat DEF UpC, DataOK
<1>4. dlvd[p] \in Nat /\ sent[p] \in Nat
      BY <1>0 DEF DataOK, AgentShape
<1>5. QED  BY <1>1, <1>2, <1>3, <1>4

\* A step that neither sends, moves nor loses a packet of the player.
LEMMA UpQuiet ==
    ASSUME TunnelInv, NEW p \in Players, UpOK(p), UpAlive(p)' => UpAlive(p),
           writer' = writer, dlvd'[p] = dlvd[p], sent'[p] = sent[p],
           Skip(client_rx[p], client_rx'[p], McData, OwnData(p)),
           Skip(toClient, toClient', SocketPacket, StreamData(p)),
           Skip(rx, rx', ClientToProxy, QueueData(p))
    PROVE  UpOK(p)'
<1>0. DataOK /\ client_rx[p] \in Seq(McData)
      BY TypeParts DEF TunnelInv, IInv, AgentInv, AgentShape
<1>1. UpB(p)' = UpB(p) /\ (Rising(toClient, StreamData(p)) => Rising(toClient', StreamData(p)))
      BY <1>0, PacketTypes, SkipKeeps DEF UpB, DataOK, StreamData
<1>2. UpC(p)' = UpC(p) /\ (Rising(rx, QueueData(p)) => Rising(rx', QueueData(p)))
      BY <1>0, MessageTypes, SkipKeeps DEF UpC, DataOK, QueueData
<1>3. UpA(p)' = UpA(p) /\ Rising(client_rx'[p], OwnData(p))
      BY <1>0, McDataTypes, SkipKeeps DEF UpA, UpOK, OwnData
<1>4. QED  BY <1>1, <1>2, <1>3, Zenon DEF UpOK, StreamData, QueueData, OwnData

\* The player sends its next packet.
LEMMA UpSends ==
    ASSUME TunnelInv, NEW p \in Players, UpOK(p), UpAlive(p)' => UpAlive(p),
           writer = "run", writer' = writer, UNCHANGED <<client_rx, dlvd, toClient>>,
           NEW i \in ClientID \cup {NoID},
           rx' = Append(rx, Packet(i, p, sent[p] + 1)), sent'[p] = sent[p] + 1
    PROVE  UpOK(p)'
<1>0. DataOK
      BY TypeParts DEF TunnelInv, IInv
<1> DEFINE m == Packet(i, p, sent[p] + 1)
<1>1. m \in ClientToProxy /\ m \in QueueData(p) /\ m.n = sent[p] + 1
  <2>1. sent[p] + 1 \in Nat /\ p \in Owner
        BY UpNumbers, IdTypes
  <2>2. m \in ClientToProxy
        BY <2>1, MessageTypes
  <2>3. QED  BY <2>2 DEF QueueData, Packet
<1> HIDE DEF m
<1>2. UpC(p)' = UpC(p) \cup {sent[p] + 1}
      BY <1>0, <1>1, NumsAppend DEF UpC, DataOK, QueueData, m
<1>3. UpA(p)' = UpA(p) /\ UpB(p)' = UpB(p)
      BY Zenon DEF UpA, UpB, OwnData, StreamData
<1>4. ASSUME UpAlive(p)
      PROVE  /\ Flow(UpA(p), UpB(p), UpC(p)', dlvd[p]) /\ Rising(rx', QueueData(p))
             /\ Full(UpA(p), UpB(p), UpC(p)', dlvd[p], sent[p] + 1)
  <2>1. /\ Flow(UpA(p), UpB(p), UpC(p), dlvd[p]) /\ Rising(rx, QueueData(p))
        /\ Full(UpA(p), UpB(p), UpC(p), dlvd[p], sent[p])
        BY <1>4 DEF UpOK
  <2>2. /\ Flow(UpA(p), UpB(p), UpC(p)', dlvd[p])
        /\ Full(UpA(p), UpB(p), UpC(p)', dlvd[p], sent[p] + 1)
        /\ \A n \in UpC(p) : n < sent[p] + 1
    <3> DEFINE A == UpA(p)  B == UpB(p)  C == UpC(p)  d == dlvd[p]  s == sent[p]
    <3>1. A \in SUBSET Nat /\ B \in SUBSET Nat /\ C \in SUBSET Nat /\ d \in Nat /\ s \in Nat
          BY UpNumbers
    <3>2. Flow(A, B, C, d) /\ Full(A, B, C, d, s)
          BY <2>1
    <3> HIDE DEF A, B, C, d, s
    <3>3. /\ Flow(A, B, C \cup {s + 1}, d) /\ Full(A, B, C \cup {s + 1}, d, s + 1)
          /\ \A n \in C : n < s + 1
          BY <3>1, <3>2, FlowSend
    <3>4. QED  BY <1>2, <3>3 DEF A, B, C, d, s
  <2>3. Rising(rx', QueueData(p))
        BY <1>0, <1>1, <2>1, <2>2, NumsAppend DEF UpC, DataOK, m
  <2>4. QED  BY <2>2, <2>3
<1>5. QED
      BY <1>3, <1>4, Zenon DEF UpOK, OwnData, StreamData, QueueData

\* The server's writer puts the player's next packet on the stream.
LEMMA UpForwards ==
    ASSUME TunnelInv, NEW p \in Players, UpOK(p), UpAlive(p)' => UpAlive(p),
           WriterPacket, UNCHANGED <<client_rx, dlvd>>, Head(rx).who = p
    PROVE  UpOK(p)'
<1>0. DataOK
      BY TypeParts DEF TunnelInv, IInv
<1> DEFINE m == Head(rx)
           k == ProxyData(m.id, m.who, m.n)
<1>1. /\ rx # <<>> /\ m.type = "Packet" /\ rx' = Tail(rx) /\ writer = "run"
      /\ toClient' = Append(toClient, k) /\ writer' = writer /\ sent' = sent
      BY DEF WriterPacket, WriterReceives, playerVars
<1>2. m \in ClientToProxy /\ m \in QueueData(p) /\ m.n \in Nat
      BY <1>0, <1>1, ChannelTypes, MessageTypes DEF DataOK, QueueData
<1>3. k \in SocketPacket /\ k \in StreamData(p) /\ k.n = m.n
  <2>1. m.id \in WireID \cup {NoID} /\ m.who \in Owner
        BY <1>2, MessageTypes, IdTypes
  <2>2. k \in SocketPacket
        BY <1>2, <2>1, PacketTypes
  <2>3. QED  BY <2>2 DEF StreamData, ProxyData
<1> HIDE DEF m, k
<1>4. UpA(p)' = UpA(p)
      BY Zenon DEF UpA, OwnData
<1>5. UpB(p)' = UpB(p) \cup {m.n}
      BY <1>0, <1>1, <1>3, NumsAppend DEF UpB, DataOK, StreamData
<1>6. ASSUME UpAlive(p)
      PROVE  /\ Flow(UpA(p), UpB(p)', UpC(p)', dlvd[p])
             /\ Full(UpA(p), UpB(p)', UpC(p)', dlvd[p], sent[p])
             /\ Rising(toClient', StreamData(p)) /\ Rising(rx', QueueData(p))
  <2>1. /\ Flow(UpA(p), UpB(p), UpC(p), dlvd[p])
        /\ Full(UpA(p), UpB(p), UpC(p), dlvd[p], sent[p])
        /\ Rising(toClient, StreamData(p)) /\ Rising(rx, QueueData(p))
        BY <1>1, <1>6 DEF UpOK
  <2>2. /\ Rising(rx', QueueData(p)) /\ m.n \in UpC(p)
        /\ \A n \in UpC(p) : m.n <= n
        /\ Nums(rx', QueueData(p)) = UpC(p) \ {m.n}
        BY <1>0, <1>1, <1>2, <2>1, MessageTypes, NumsTail DEF UpC, DataOK, m
  <2>3. UpC(p)' = UpC(p) \ {m.n}
        BY <2>2 DEF UpC, QueueData
  <2>4. /\ Flow(UpA(p), UpB(p)', UpC(p)', dlvd[p])
        /\ Full(UpA(p), UpB(p)', UpC(p)', dlvd[p], sent[p])
        /\ \A n \in UpB(p) : n < m.n
    <3> DEFINE A == UpA(p)  B == UpB(p)  C == UpC(p)  d == dlvd[p]  s == sent[p]
    <3>1. A \in SUBSET Nat /\ B \in SUBSET Nat /\ C \in SUBSET Nat /\ d \in Nat /\ s \in Nat
          BY UpNumbers
    <3>2. /\ Flow(A, B, C, d) /\ Full(A, B, C, d, s)
          /\ m.n \in C /\ \A n \in C : m.n <= n
          BY <2>1, <2>2
    <3> HIDE DEF A, B, C, d, s
    <3>3. /\ Flow(A, B \cup {m.n}, C \ {m.n}, d) /\ Full(A, B \cup {m.n}, C \ {m.n}, d, s)
          /\ \A n \in B : n < m.n
          BY <3>1, <3>2, FlowForward
    <3>4. QED  BY <1>5, <2>3, <3>3 DEF A, B, C, d, s
  <2>5. Rising(toClient', StreamData(p))
        BY <1>0, <1>1, <1>3, <2>1, <2>4, NumsAppend DEF UpB, DataOK
  <2>6. QED  BY <2>2, <2>4, <2>5
<1>7. QED
      BY <1>1, <1>4, <1>6, Zenon DEF UpOK, OwnData, StreamData, QueueData

\* The server's writer ends and drops what waits in its channel.
LEMMA UpCloses ==
    ASSUME TunnelInv, NEW p \in Players, UpOK(p), UpAlive(p)' => UpAlive(p),
           UNCHANGED <<client_rx, dlvd, toClient>>, rx' = <<>>, writer' = "ended"
    PROVE  UpOK(p)'
<1>1. UpA(p)' = UpA(p) /\ UpB(p)' = UpB(p)
      BY Zenon DEF UpA, UpB, OwnData, StreamData
<1>2. UpC(p)' = {} /\ Rising(rx', QueueData(p))
      BY NumsEmpty DEF UpC, QueueData
<1>3. UpAlive(p) => Flow(UpA(p), UpB(p), {}, dlvd[p])
      BY FlowDrop DEF UpOK
<1>4. QED
      BY <1>1, <1>2, <1>3 DEF UpOK, OwnData, StreamData, QueueData

\* The stream's packet for the player goes into the channel of its connection.
LEMMA UpDelivers ==
    ASSUME TunnelInv, NEW p \in Players, UpOK(p), UpAlive(p), UNCHANGED <<writer, rx, sent, dlvd>>,
           toClient # <<>>, Head(toClient) \in StreamData(p), toClient' = Tail(toClient),
           client_rx'[p] = Append(client_rx[p], [who |-> p, n |-> Head(toClient).n])
    PROVE  UpOK(p)'
<1>0. DataOK /\ client_rx[p] \in Seq(McData)
      BY TypeParts DEF TunnelInv, IInv, AgentInv, AgentShape
<1> DEFINE m == Head(toClient)
           k == [who |-> p, n |-> m.n]
<1>1. m \in SocketPacket /\ m \in StreamData(p) /\ m.n \in Nat
      BY PacketTypes DEF StreamData
<1>2. k \in McData /\ k \in OwnData(p) /\ k.n = m.n
      BY <1>1, IdTypes DEF McData, OwnData
<1>3. client_rx'[p] = Append(client_rx[p], k)
      OBVIOUS
<1>4. /\ RunFrom(UpA(p), dlvd[p]) /\ Rising(client_rx[p], OwnData(p))
      /\ Flow(UpA(p), UpB(p), UpC(p), dlvd[p])
      /\ Rising(toClient, StreamData(p)) /\ Rising(rx, QueueData(p))
      /\ writer = "run" => Full(UpA(p), UpB(p), UpC(p), dlvd[p], sent[p])
      BY DEF UpOK
<1>5. /\ Rising(toClient', StreamData(p)) /\ m.n \in UpB(p)
      /\ \A n \in UpB(p) : m.n <= n
      /\ Nums(toClient', StreamData(p)) = UpB(p) \ {m.n}
      BY <1>0, <1>1, <1>4, PacketTypes, NumsTail DEF UpB, DataOK, m
<1> HIDE DEF m, k
<1>6. UpA(p)' = UpA(p) \cup {m.n}
      BY <1>0, <1>2, <1>3, NumsAppend DEF UpA, OwnData
<1>7. UpB(p)' = UpB(p) \ {m.n} /\ UpC(p)' = UpC(p)
      BY <1>5 DEF UpB, UpC, StreamData, QueueData
<1> DEFINE A == UpA(p)  B == UpB(p)  C == UpC(p)  d == dlvd[p]  s == sent[p]
<1>8. A \in SUBSET Nat /\ B \in SUBSET Nat /\ C \in SUBSET Nat /\ d \in Nat /\ s \in Nat
      BY UpNumbers
<1>9. RunFrom(A, d) /\ Flow(A, B, C, d) /\ m.n \in B /\ \A n \in B : m.n <= n
      BY <1>4, <1>5
<1> HIDE DEF A, B, C, d, s
<1>10. /\ RunFrom(A \cup {m.n}, d) /\ Flow(A \cup {m.n}, B \ {m.n}, C, d)
       /\ Full(A, B, C, d, s) => Full(A \cup {m.n}, B \ {m.n}, C, d, s)
       /\ \A n \in A : n < m.n
       BY <1>8, <1>9, FlowDeliver
<1>11. Rising(client_rx'[p], OwnData(p))
  <2>1. \A n \in Nums(client_rx[p], OwnData(p)) : n < k.n
        BY <1>2, <1>10 DEF A, UpA
  <2>2. QED  BY <1>0, <1>2, <1>3, <1>4, <2>1, NumsAppend
<1>12. /\ RunFrom(UpA(p)', dlvd[p]) /\ Flow(UpA(p)', UpB(p)', UpC(p)', dlvd[p])
       /\ Full(A, B, C, d, s) => Full(UpA(p)', UpB(p)', UpC(p)', dlvd[p], sent[p])
       BY <1>6, <1>7, <1>10 DEF A, B, C, d, s
<1>13. QED
       BY <1>4, <1>5, <1>11, <1>12, Zenon
       DEF UpOK, OwnData, StreamData, QueueData, A, B, C, d, s

\* The connection writes the player's next packet to the Minecraft server.
LEMMA UpArrives ==
    ASSUME TunnelInv, NEW p \in Players, UpOK(p), UpAlive(p)' => UpAlive(p),
           UNCHANGED <<writer, rx, sent, toClient>>,
           client_rx[p] # <<>>, Head(client_rx[p]).who = p,
           client_rx'[p] = Tail(client_rx[p]), dlvd'[p] = Head(client_rx[p]).n
    PROVE  UpOK(p)' /\ dlvd'[p] = dlvd[p] + 1
<1>0. client_rx[p] \in Seq(McData)
      BY DEF TunnelInv, AgentInv, AgentShape
<1> DEFINE m == Head(client_rx[p])
<1>1. m \in McData /\ m \in OwnData(p)
      BY <1>0, ChannelTypes DEF OwnData
<1>2. RunFrom(UpA(p), dlvd[p]) /\ Rising(client_rx[p], OwnData(p))
      BY DEF UpOK
<1>3. /\ Rising(client_rx'[p], OwnData(p)) /\ m.n \in UpA(p)
      /\ \A n \in UpA(p) : m.n <= n
      /\ Nums(client_rx'[p], OwnData(p)) = UpA(p) \ {m.n}
      BY <1>0, <1>1, <1>2, McDataTypes, NumsTail DEF UpA, m
<1>4. dlvd'[p] = m.n
      OBVIOUS
<1> HIDE DEF m
<1>5. UpA(p)' = UpA(p) \ {m.n} /\ UpB(p)' = UpB(p) /\ UpC(p)' = UpC(p)
      BY <1>3 DEF UpA, UpB, UpC, OwnData, StreamData, QueueData
<1> DEFINE A == UpA(p)  B == UpB(p)  C == UpC(p)  d == dlvd[p]  s == sent[p]
<1>6. A \in SUBSET Nat /\ B \in SUBSET Nat /\ C \in SUBSET Nat /\ d \in Nat /\ s \in Nat
      BY UpNumbers
<1>7. RunFrom(A, d) /\ m.n \in A /\ \A n \in A : m.n <= n
      BY <1>2, <1>3
<1> HIDE DEF A, B, C, d, s
<1>8. /\ m.n = d + 1 /\ RunFrom(A \ {m.n}, m.n)
      /\ Flow(A, B, C, d) =>
            /\ Flow(A \ {m.n}, B, C, m.n)
            /\ Full(A, B, C, d, s) => Full(A \ {m.n}, B, C, m.n, s)
      BY <1>6, <1>7, FlowArrive
<1>9. /\ dlvd'[p] = dlvd[p] + 1 /\ RunFrom(UpA(p)', dlvd'[p])
      /\ Flow(A, B, C, d) => Flow(UpA(p)', UpB(p)', UpC(p)', dlvd'[p])
      /\ Flow(A, B, C, d) /\ Full(A, B, C, d, s)
            => Full(UpA(p)', UpB(p)', UpC(p)', dlvd'[p], sent[p])
      BY <1>4, <1>5, <1>8 DEF A, B, C, d, s
<1>10. QED
       BY <1>3, <1>9, Zenon DEF UpOK, OwnData, StreamData, QueueData, A, B, C, d, s

\* The connection ends and drops what waits for it.
LEMMA UpEnds ==
    ASSUME NEW p \in Players, client_rx'[p] = <<>>, conn'[p] = "ended"
    PROVE  UpOK(p)'
<1>1. UpA(p)' = {} /\ Rising(client_rx'[p], OwnData(p))
      BY NumsEmpty DEF UpA, OwnData
<1>2. RunFrom(UpA(p)', dlvd'[p])
      BY <1>1 DEF RunFrom
<1>3. ~ UpAlive(p)'
      BY DEF UpAlive
<1>4. QED  BY <1>1, <1>2, <1>3, Zenon DEF UpOK, OwnData

\* A player sends nothing and starts no task before it has its id.
LEMMA FreshStep == TunnelInv /\ Fresh /\ [TunnelNext]_tunnelVars => Fresh'
<1> SUFFICES ASSUME TunnelInv, Fresh, [TunnelNext]_tunnelVars PROVE Fresh'
    OBVIOUS
<1>0. DataOK
      BY TypeParts DEF TunnelInv, IInv
<1>1. CASE UNCHANGED <<mc, sent, mcReader, mcWriter>>
      BY <1>1 DEF Fresh
<1> USE DEF wireVars, sessionVars, playerVars, serverVars
<1>2. CASE ReaderNext
  <2>1. UNCHANGED <<mc, sent, mcReader, mcWriter>>
        BY <1>2, Zenon DEF ReaderNext, ReaderDisconnect, ReaderData, ReaderPing,
           ReaderUnexpected, ReaderClosed, ReaderFails
  <2>2. QED  BY <1>1, <2>1
<1>3. CASE WriterNext
  <2>1. UNCHANGED <<mc, sent, mcReader, mcWriter>>
        BY <1>3, Zenon DEF WriterNext, WriterAdd, WriterTooManyClients, WriterPacket,
           WriterPong, WriterRemove, WriterFails
  <2>2. QED  BY <1>1, <2>1
<1>4. CASE HandleNext
  <2>1. UNCHANGED <<mc, sent, mcReader, mcWriter>>
        BY <1>4, Zenon DEF HandleNext, HandleSelect, HandleReturns, ReaderAborted,
           WriterAborted
  <2>2. QED  BY <1>1, <2>1
<1>5. ASSUME NEW p \in Players, PlayerNext(p) PROVE Fresh'
  <2>1. CASE PlayerConnect(p)
        BY <1>0, <2>1 DEF PlayerConnect, Fresh, DataOK
  <2>2. CASE PlayerStart(p)
    <3>1. /\ mc'[p] \in {"running", "done"}
          /\ \A q \in Players \ {p} : /\ mc'[q] = mc[q] /\ sent'[q] = sent[q]
                                      /\ mcReader'[q] = mcReader[q] /\ mcWriter'[q] = mcWriter[q]
          BY <1>0, <2>2 DEF PlayerStart, DataOK
    <3>2. QED  BY <3>1 DEF Fresh
  <2>3. CASE PlayerNoId(p)
        BY <1>0, <2>3 DEF PlayerNoId, Fresh, DataOK
  <2>4. CASE PlayerReads(p)
        BY <1>0, <2>4 DEF PlayerReads, Fresh, DataOK
  <2>5. CASE PlayerLeaves(p) \/ PlayerWrites(p) \/ PlayerWriteFails(p) \/ PlayerChannelClosed(p)
        BY <1>0, <2>5
        DEF PlayerLeaves, PlayerWrites, PlayerWriteFails, PlayerChannelClosed, Fresh, DataOK
  <2>6. CASE PlayerEnds(p) \/ PlayerAborted(p)
        BY <1>0, <2>6 DEF PlayerEnds, PlayerAborted, Fresh, DataOK
  <2>7. QED  BY <1>5, <2>1, <2>2, <2>3, <2>4, <2>5, <2>6 DEF PlayerNext
<1>6. CASE UNCHANGED serverVars
      BY <1>1, <1>6
<1>7. QED
      BY <1>2, <1>3, <1>4, <1>5, <1>6
      DEF TunnelNext, ServerStep, AgentStep, LinkStep, TunnelFinished, Finished, tunnelVars,
          vars, ServerNext

\* A connection that has ended stays so: no step of the client but AgentJoin begins one.
LEMMA EndedStays ==
    ASSUME TunnelInv, AgentNext, ~ AgentJoin, NEW p \in Players, conn[p] = "ended"
    PROVE  conn'[p] = "ended"
<1>0. conn \in [Players -> {"none", "connecting", "open", "ended"}]
      BY DEF TunnelInv, AgentInv, AgentShape
<1> USE DEF agentVars, connVars
<1>1. CASE AgentReaderNext
      BY <1>1, Zenon DEF AgentReaderNext, AgentData, AgentDisconnect, AgentPong,
         AgentReaderFails, AgentReaderClosed, AgentTakesDisconnect, AgentWriterGone, AgentPings
<1>2. CASE AgentWriterNext
      BY <1>2, Zenon DEF AgentWriterNext, AgentWritesPacket, AgentWritesDisconnect,
         AgentWriterDies, AgentWritesPing, AgentWriterFails, AgentWriterAborted
<1>3. ASSUME NEW q \in Players, ConnNext(q) PROVE conn'[p] = "ended"
  <2>1. /\ conn[q] # "ended"
        /\ \/ conn' = conn \/ conn' = [conn EXCEPT ![q] = "ended"]
           \/ conn' = [conn EXCEPT ![q] = "open"]
        BY <1>3 DEF ConnNext, ConnConnects, ConnConnectFails, ConnWrites,
           ConnChannelClosed, ConnReads, ConnBreaks, ConnEnds
  <2>2. QED  BY <1>0, <2>1
<1>4. QED  BY <1>1, <1>2, <1>3 DEF AgentNext

\* A player whose stream has lost its connection never gets another one.
LEMMA AliveStep ==
    ASSUME TunnelInv, JoinInv, [TunnelNext]_tunnelVars, NEW p \in Players, UpAlive(p)'
    PROVE  UpAlive(p)
<1>0. DataOK /\ AgentShape /\ Core
      BY TypeParts DEF TunnelInv, IInv, AgentInv
<1>1. CASE UNCHANGED <<conn, connections, id>>
      BY <1>1, Zenon DEF UpAlive
<1>2. CASE ServerStep /\ WriterAdd
  <2> DEFINE q == Head(rx).who
  <2>1. q \in Players /\ id[q] = NoID /\ mc[q] = "wait_id"
    <3>1. Head(rx) \in ToSet(rx) /\ Head(rx).type = "AddMinecraftClient"
          BY <1>0, <1>2, ToSetTail DEF WriterAdd, WriterReceives, DataOK
    <3>2. QED  BY <1>0, <3>1 DEF Core, ChannelInv, AddsWait
  <2>2. UNCHANGED <<conn, connections>> /\ id' = [id EXCEPT ![q] = FirstFree(clients_id)]
        BY <1>2 DEF ServerStep, WriterAdd, agentVars, clientVars, connVars
  <2> HIDE DEF q
  <2>3. CASE p = q
        BY <2>1, <2>2, <2>3, IdTypes DEF JoinInv, ConnTold, Over, UpAlive
  <2>4. CASE p # q
        BY <1>0, <2>1, <2>2, <2>4 DEF UpAlive, DataOK
  <2>5. QED  BY <2>3, <2>4
<1>3. CASE ServerStep /\ ~ WriterAdd
  <2>1. id' = id
        BY <1>3, ServerNoJoin DEF ServerStep
  <2>2. UNCHANGED <<conn, connections>>
        BY <1>3 DEF ServerStep, agentVars, clientVars, connVars
  <2>3. QED  BY <1>1, <2>1, <2>2
<1>4. CASE AgentStep /\ AgentJoin
  <2> DEFINE m == Head(toClient)
  <2>1. m \in ToSet(toClient) \cap Joins
    <3>1. m \in SocketPacket /\ m \in ToSet(toClient) /\ m.type = "ProxyJoin"
          BY <1>0, <1>4, ChannelTypes, ToSetTail DEF AgentJoin, AgentReceives, DataOK
    <3>2. QED  BY <3>1 DEF Joins
  <2>2. m.who \in Players /\ m.id \in ClientID /\ conn[m.who] = "none"
        BY <2>1 DEF JoinInv, JoinsTold
  <2>3. /\ conn' = [conn EXCEPT ![m.who] = "connecting"] /\ id' = id
        /\ connections' = [connections EXCEPT ![m.id] = m.who]
        BY <1>4, <2>2 DEF AgentStep, AgentJoin, add_connection, serverVars, playerVars
  <2> HIDE DEF m
  <2>4. CASE p = m.who
        BY <2>2, <2>4 DEF UpAlive
  <2>5. CASE p # m.who
    <3>1. conn'[p] = conn[p]
          BY <1>0, <2>2, <2>3, <2>5 DEF AgentShape
    <3>2. ASSUME connections'[id[p]] = p, conn[p] # "none", id[p] # NoID
          PROVE  connections[id[p]] = p
      <4>1. id[p] \in ClientID
            BY <3>2 DEF JoinInv, ConnTold, Over
      <4>2. QED  BY <1>0, <2>2, <2>3, <2>5, <3>2, <4>1 DEF AgentShape
    <3>3. QED  BY <2>3, <3>1, <3>2 DEF UpAlive
  <2>6. QED  BY <2>4, <2>5
<1>5. CASE AgentStep /\ ~ AgentJoin
  <2>1. id' = id
        BY <1>5 DEF AgentStep, serverVars, playerVars
  <2>2. Shrinks /\ (conn'[p] = "none" <=> conn[p] = "none")
        BY <1>5, AgentNoJoin DEF AgentStep
  <2>3. conn[p] = "ended" => conn'[p] = "ended"
        BY <1>5, EndedStays DEF AgentStep
  <2>4. ASSUME connections'[id[p]] = p, conn[p] # "none", id[p] # NoID
        PROVE  connections[id[p]] = p
    <3>1. id[p] \in ClientID
          BY <2>4 DEF JoinInv, ConnTold, Over
    <3>2. QED  BY <2>2, <2>4, <3>1, WireAssumption DEF Shrinks, WireAssumption
  <2>5. QED  BY <2>1, <2>2, <2>3, <2>4 DEF UpAlive
<1>6. CASE LinkStep \/ TunnelFinished \/ UNCHANGED tunnelVars
  <2>1. UNCHANGED <<conn, connections, id>>
        BY <1>6, Zenon DEF LinkStep, TunnelFinished, Finished, tunnelVars, vars,
           serverVars, playerVars, agentVars, clientVars, connVars
  <2>2. QED  BY <1>1, <2>1
<1>7. QED  BY <1>2, <1>3, <1>4, <1>5, <1>6 DEF TunnelNext

\* What the steps of the server do to the bytes of a player.
LEMMA UpServer ==
    ASSUME TunnelInv, Fresh, ServerNext, UNCHANGED agentVars, NEW p \in Players, UpOK(p),
           UpAlive(p)' => UpAlive(p)
    PROVE  UpOK(p)'
<1>0. DataOK
      BY TypeParts DEF TunnelInv, IInv
<1>1. /\ UNCHANGED <<client_rx, dlvd>> /\ dlvd'[p] = dlvd[p]
      /\ Skip(client_rx[p], client_rx'[p], McData, OwnData(p))
      BY DEF agentVars, connVars, Skip
<1>2. ASSUME UNCHANGED <<writer, toClient>>, sent'[p] = sent[p],
             Skip(rx, rx', ClientToProxy, QueueData(p))
      PROVE  UpOK(p)'
  <2>1. Skip(toClient, toClient', SocketPacket, StreamData(p))
        BY <1>2 DEF Skip
  <2>2. QED  BY <1>1, <1>2, <2>1, UpQuiet
<1>3. ASSUME NEW m \in ClientToProxy, m.type # "Packet" \/ m.who # p,
             rx' = rx \/ rx' = Append(rx, m), UNCHANGED <<writer, toClient>>,
             sent'[p] = sent[p]
      PROVE  UpOK(p)'
  <2>1. m \in ClientToProxy \ QueueData(p)
        BY <1>3 DEF QueueData
  <2>2. Skip(rx, rx', ClientToProxy, QueueData(p))
        BY <1>3, <2>1, Zenon DEF Skip
  <2>3. QED  BY <1>2, <1>3, <2>2
<1>4. ASSUME rx # <<>>, Head(rx).type # "Packet" \/ Head(rx).who # p, rx' = Tail(rx),
             NEW k \in SocketPacket, k.type # "ProxyData" \/ k.who # p,
             toClient' = toClient \/ toClient' = Append(toClient, k),
             UNCHANGED <<writer, sent>>
      PROVE  UpOK(p)'
  <2>1. Skip(rx, rx', ClientToProxy, QueueData(p))
        BY <1>4 DEF Skip, QueueData
  <2>2. k \in SocketPacket \ StreamData(p)
        BY <1>4 DEF StreamData
  <2>3. Skip(toClient, toClient', SocketPacket, StreamData(p))
        BY <1>4, <2>2, Zenon DEF Skip
  <2>4. QED  BY <1>1, <1>4, <2>1, <2>3, UpQuiet
<1>5. CASE UNCHANGED <<writer, toClient, rx>> /\ sent'[p] = sent[p]
      BY <1>2, <1>5 DEF Skip
<1> USE DEF wireVars, sessionVars, playerVars, serverVars
<1>6. CASE \/ ReaderDisconnect \/ ReaderData \/ ReaderUnexpected \/ ReaderClosed \/ ReaderFails
           \/ HandleSelect \/ HandleReturns \/ ReaderAborted
           \/ \E q \in Players : \/ PlayerNoId(q) \/ PlayerLeaves(q) \/ PlayerWrites(q)
                                 \/ PlayerWriteFails(q) \/ PlayerChannelClosed(q)
                                 \/ PlayerAborted(q)
  <2>1. UNCHANGED <<writer, toClient, rx, sent>>
        BY <1>6, Zenon DEF ReaderDisconnect, ReaderData, ReaderUnexpected, ReaderClosed,
           ReaderFails, HandleSelect, HandleReturns, ReaderAborted, PlayerNoId, PlayerLeaves,
           PlayerWrites, PlayerWriteFails, PlayerChannelClosed, PlayerAborted
  <2>2. QED  BY <1>5, <2>1
<1>7. CASE ReaderPing
  <2>1. rx' = rx \/ rx' = Append(rx, AnswerPingPacket)
        BY <1>7 DEF ReaderPing
  <2>2. UNCHANGED <<writer, toClient, sent>>
        BY <1>7 DEF ReaderPing
  <2>3. QED  BY <1>3, <2>1, <2>2, MessageTypes, MessageKinds
<1>8. CASE WriterTooManyClients \/ WriterFails \/ WriterAborted
  <2>1. writer' = "ended" /\ rx' = <<>> /\ toClient' = toClient
        BY <1>8 DEF WriterTooManyClients, WriterFails, WriterAborted, WriterEnds
  <2>2. QED  BY <1>1, <2>1, UpCloses
<1>9. CASE WriterPacket /\ Head(rx).who = p
      BY <1>1, <1>9, UpForwards
<1>10. CASE WriterAdd \/ WriterPong \/ WriterRemove \/ (WriterPacket /\ Head(rx).who # p)
  <2> DEFINE m == Head(rx)
  <2>1. rx # <<>> /\ (m.type # "Packet" \/ m.who # p) /\ rx' = Tail(rx)
        /\ UNCHANGED <<writer, sent>>
        BY <1>10 DEF WriterAdd, WriterPong, WriterRemove, WriterPacket, WriterReceives
  <2>2. m.id \in WireID \cup {NoID} /\ m.who \in Owner /\ m.n \in Nat
    <3>1. m \in ClientToProxy
          BY <1>0, <2>1, ChannelTypes DEF DataOK
    <3>2. QED  BY <3>1, MessageTypes, IdTypes
  <2>3. CASE WriterAdd
    <3>1. FirstFree(clients_id) \in ClientID
          BY <2>3, FirstFreeIsFree DEF WriterAdd, FreeSlots
    <3>2. /\ toClient' = Append(toClient, ProxyJoin(FirstFree(clients_id), m.who))
          /\ ProxyJoin(FirstFree(clients_id), m.who).type = "ProxyJoin"
          BY <2>3 DEF WriterAdd, ProxyJoin
    <3>3. ProxyJoin(FirstFree(clients_id), m.who) \in SocketPacket
          BY <2>2, <3>1, PacketTypes
    <3>4. QED  BY <1>4, <2>1, <3>2, <3>3
  <2>4. CASE WriterPong
        BY <1>4, <2>1, <2>4, PacketTypes DEF WriterPong, ProxyPong
  <2>5. CASE WriterRemove
        BY <1>4, <2>1, <2>2, <2>5, PacketTypes DEF WriterRemove, ProxyDisconnect
  <2>6. CASE WriterPacket /\ m.who # p
        BY <1>4, <2>1, <2>2, <2>6, PacketTypes DEF WriterPacket, ProxyData
  <2>7. QED  BY <1>10, <2>3, <2>4, <2>5, <2>6
<1>11. ASSUME NEW q \in Players, PlayerConnect(q) \/ PlayerEnds(q) PROVE UpOK(p)'
  <2>1. UNCHANGED <<writer, toClient, sent>>
        BY <1>11 DEF PlayerConnect, PlayerEnds
  <2>2. \/ rx' = rx \/ rx' = Append(rx, AddMinecraftClient(q))
        \/ rx' = Append(rx, RemoveMinecraftClient(id[q]))
        BY <1>11 DEF PlayerConnect, PlayerEnds
  <2>3. AddMinecraftClient(q) \in ClientToProxy /\ RemoveMinecraftClient(id[q]) \in ClientToProxy
        BY <1>0, MessageTypes DEF DataOK
  <2>4. QED  BY <1>3, <2>1, <2>2, <2>3, MessageKinds
<1>12. ASSUME NEW q \in Players, PlayerStart(q) \/ PlayerReads(q) PROVE UpOK(p)'
  <2>1. UNCHANGED <<writer, toClient>> /\ id[q] \in ClientID \cup {NoID}
        BY <1>0, <1>12 DEF PlayerStart, PlayerReads, DataOK
  <2>2. CASE writer # "run"
    <3>1. UNCHANGED <<rx, sent>>
          BY <1>12, <2>2 DEF PlayerStart, PlayerReads
    <3>2. QED  BY <1>5, <2>1, <3>1
  <2>3. CASE writer = "run"
    <3>1. /\ rx' = Append(rx, Packet(id[q], q, sent[q] + 1))
          /\ sent' = [sent EXCEPT ![q] = sent[q] + 1]
      <4>1. CASE PlayerStart(q)
        <5>1. sent[q] = 0
              BY <4>1 DEF PlayerStart, Fresh
        <5>2. sent[q] + 1 = 1
              BY <5>1
        <5>3. QED  BY <2>3, <4>1, <5>2 DEF PlayerStart
      <4>2. CASE PlayerReads(q)
            BY <2>3, <4>2 DEF PlayerReads
      <4>3. QED  BY <1>12, <4>1, <4>2
    <3>2. CASE q = p
          BY <1>0, <1>1, <2>1, <2>3, <3>1, <3>2, UpSends DEF DataOK
    <3>3. CASE q # p
      <4>1. sent[q] + 1 \in Nat /\ q \in Owner
            BY <1>0, IdTypes DEF DataOK
      <4>2. Packet(id[q], q, sent[q] + 1) \in ClientToProxy
            BY <2>1, <4>1, MessageTypes
      <4>3. sent'[p] = sent[p]
            BY <1>0, <3>1, <3>3 DEF DataOK
      <4>4. QED  BY <1>3, <2>1, <3>1, <3>3, <4>2, <4>3, MessageKinds
    <3>4. QED  BY <3>2, <3>3
  <2>4. QED  BY <2>2, <2>3
<1>13. QED
       BY <1>6, <1>7, <1>8, <1>9, <1>10, <1>11, <1>12
       DEF ServerNext, ReaderNext, WriterNext, HandleNext, PlayerNext

\* A packet of the player at the head of the stream finds its connection, if the
\* slot is still the player's: the join that created it came before.
LEMMA ConnWaits ==
    ASSUME TunnelInv, JoinInv, NEW p \in Players, UpAlive(p), toClient # <<>>,
           Head(toClient).type = "ProxyData", Head(toClient).who = p
    PROVE  conn[p] # "none"
<1>0. DataOK /\ Core
      BY TypeParts DEF TunnelInv, IInv
<1>1. /\ 1 \in 1 .. Len(toClient) /\ Head(toClient) = toClient[1]
      /\ DOMAIN toClient = 1 .. Len(toClient) /\ \A j \in 1 .. Len(toClient) : 1 <= j
      BY <1>0 DEF DataOK
<1>2. id[p] # NoID
      BY <1>0, <1>1 DEF Core, StreamInv, StreamOwned
<1>3. ASSUME conn[p] = "none" PROVE FALSE
  <2>1. PICK m \in ToSet(toClient) \cap Joins : m.who = p
        BY <1>2, <1>3 DEF JoinInv, JoinComes
  <2>2. PICK j \in 1 .. Len(toClient) : m = toClient[j]
        BY <1>1, <2>1 DEF ToSet
  <2>3. QED  BY <1>0, <1>1, <2>1, <2>2 DEF Core, StreamInv, NoLateJoin, Joins
<1>4. QED  BY <1>3

\* The client takes a packet of the stream.
LEMMA UpAgentData ==
    ASSUME TunnelInv, JoinInv, AgentData, UNCHANGED serverVars, NEW p \in Players, UpOK(p),
           UpAlive(p)' => UpAlive(p)
    PROVE  UpOK(p)'
<1>0. DataOK /\ AgentShape /\ Core
      BY TypeParts DEF TunnelInv, IInv, AgentInv
<1> DEFINE pkg == Head(toClient)
           q   == IF pkg.id \in ClientID THEN connections[pkg.id] ELSE NoPlayer
           e   == [who |-> pkg.who, n |-> pkg.n]
<1>1. /\ toClient # <<>> /\ pkg.type = "ProxyData" /\ toClient' = Tail(toClient)
      /\ UNCHANGED <<writer, rx, sent, dlvd, conn>>
      BY DEF AgentData, AgentReceives, serverVars, sessionVars, playerVars
<1>2. pkg \in SocketPacket /\ e \in McData
      BY <1>0, <1>1, ChannelTypes, PacketTypes DEF DataOK
<1>3. \/ /\ q # NoPlayer /\ conn[q] # "ended"
         /\ client_rx' = [client_rx EXCEPT ![q] = Append(client_rx[q], e)]
      \/ ~ (q # NoPlayer /\ conn[q] # "ended") /\ client_rx' = client_rx
      BY DEF AgentData
<1>4. q \in Owner
      BY <1>0, IdTypes DEF AgentShape
<1>5. client_rx'[p] = IF q = p /\ conn[p] # "ended" THEN Append(client_rx[p], e)
                                                   ELSE client_rx[p]
  <2>1. client_rx \in [Players -> Seq(McData)] /\ p # NoPlayer
        BY <1>0, WireAssumption DEF AgentShape, WireAssumption
  <2> HIDE DEF q, e
  <2>2. CASE q # NoPlayer /\ conn[q] # "ended"
    <3>1. q \in Players
          BY <1>4, <2>2 DEF Owner
    <3>2. QED  BY <1>3, <2>1, <2>2, <3>1
  <2>3. CASE ~ (q # NoPlayer /\ conn[q] # "ended")
        BY <1>3, <2>1, <2>3
  <2>4. QED  BY <2>2, <2>3
<1> HIDE DEF e
<1>6. Skip(rx, rx', ClientToProxy, QueueData(p))
      BY <1>1 DEF Skip
<1>7. CASE pkg.who # p
  <2>1. Skip(toClient, toClient', SocketPacket, StreamData(p))
        BY <1>1, <1>7 DEF Skip, StreamData
  <2>2. e \in McData \ OwnData(p)
        BY <1>2, <1>7 DEF OwnData, e
  <2>3. Skip(client_rx[p], client_rx'[p], McData, OwnData(p))
        BY <1>5, <2>2, Zenon DEF Skip
  <2>4. QED  BY <1>1, <1>6, <2>1, <2>3, UpQuiet
<1>8. CASE pkg.who = p
  <2>1. pkg.id = id[p] /\ id[p] \in ClientID
    <3>1. 1 \in 1 .. Len(toClient) /\ pkg = toClient[1]
          BY <1>0, <1>1 DEF DataOK
    <3>2. id[p] # NoID /\ pkg.id = id[p]
          BY <1>0, <1>1, <1>8, <3>1 DEF Core, StreamInv, StreamOwned
    <3>3. QED  BY <1>0, <3>2 DEF DataOK
  <2>2. q = connections[id[p]]
        BY <2>1
  <2> HIDE DEF q
  <2>3. CASE UpAlive(p)
    <3>1. conn[p] # "none"
          BY <1>1, <1>8, <2>3, ConnWaits
    <3>2. q = p /\ conn[p] # "ended"
          BY <2>2, <2>3, <3>1 DEF UpAlive
    <3>3. client_rx'[p] = Append(client_rx[p], [who |-> p, n |-> pkg.n])
          BY <1>5, <1>8, <3>2 DEF e
    <3>4. pkg \in StreamData(p)
          BY <1>1, <1>2, <1>8 DEF StreamData
    <3>5. QED  BY <1>1, <2>3, <3>3, <3>4, UpDelivers
  <2>4. CASE ~ UpAlive(p)
    <3>1. client_rx'[p] = client_rx[p]
          BY <1>5, <2>1, <2>2, <2>4, IdTypes DEF UpAlive
    <3>2. UpA(p)' = UpA(p) /\ dlvd'[p] = dlvd[p]
          BY <1>1, <3>1 DEF UpA, OwnData
    <3>3. ~ UpAlive(p)'
          BY <2>4
    <3>4. RunFrom(UpA(p), dlvd[p]) /\ Rising(client_rx[p], OwnData(p))
          BY DEF UpOK
    <3>5. QED  BY <3>1, <3>2, <3>3, <3>4, Zenon DEF UpOK, OwnData
  <2>5. QED  BY <2>3, <2>4
<1>9. QED  BY <1>7, <1>8

\* What the steps of the client do to the bytes of a player, and how they arrive.
LEMMA UpAgent ==
    ASSUME TunnelInv, JoinInv, AgentNext, UNCHANGED serverVars, NEW p \in Players, UpOK(p),
           UpAlive(p)' => UpAlive(p)
    PROVE  UpOK(p)' /\ dlvd'[p] \in {dlvd[p], dlvd[p] + 1}
<1>0. DataOK /\ AgentShape
      BY TypeParts DEF TunnelInv, IInv, AgentInv
<1>1. UNCHANGED <<writer, rx, sent>> /\ Skip(rx, rx', ClientToProxy, QueueData(p))
      BY DEF serverVars, sessionVars, playerVars, Skip
<1>2. ASSUME UNCHANGED <<client_rx, dlvd>>,
             Skip(toClient, toClient', SocketPacket, StreamData(p))
      PROVE  UpOK(p)' /\ dlvd'[p] \in {dlvd[p], dlvd[p] + 1}
      BY <1>1, <1>2, UpQuiet DEF Skip
<1> USE DEF wireVars, agentVars, clientVars, connVars
<1>3. CASE AgentJoin \/ AgentDisconnect \/ AgentPong
  <2>1. /\ UNCHANGED <<client_rx, dlvd>> /\ toClient # <<>> /\ toClient' = Tail(toClient)
        /\ Head(toClient).type # "ProxyData"
        BY <1>3 DEF AgentJoin, AgentDisconnect, AgentPong, AgentReceives
  <2>2. Skip(toClient, toClient', SocketPacket, StreamData(p))
        BY <2>1 DEF Skip, StreamData
  <2>3. QED  BY <1>2, <2>1, <2>2
<1>4. CASE AgentData
  <2>1. dlvd' = dlvd
        BY <1>4 DEF AgentData
  <2>2. QED  BY <1>4, <2>1, UpAgentData
<1>5. CASE \/ AgentReaderFails \/ AgentReaderClosed \/ AgentTakesDisconnect
           \/ AgentWriterGone \/ AgentPings \/ AgentWriterNext
  <2>1. UNCHANGED <<client_rx, dlvd, toClient>>
        BY <1>5, Zenon DEF AgentReaderFails, AgentReaderClosed, AgentTakesDisconnect,
           AgentWriterGone, AgentPings, AgentWriterNext, AgentWritesPacket,
           AgentWritesDisconnect, AgentWriterDies, AgentWritesPing, AgentWriterFails,
           AgentWriterAborted
  <2>2. QED  BY <1>2, <2>1 DEF Skip
<1>6. ASSUME NEW q \in Players, ConnNext(q)
      PROVE  UpOK(p)' /\ dlvd'[p] \in {dlvd[p], dlvd[p] + 1}
  <2>1. toClient' = toClient /\ Skip(toClient, toClient', SocketPacket, StreamData(p))
        BY <1>6, Zenon DEF ConnNext, ConnConnects, ConnConnectFails, ConnWrites,
           ConnChannelClosed, ConnReads, ConnBreaks, Skip
  <2>2. CASE UNCHANGED <<client_rx, dlvd>>
        BY <1>2, <2>1, <2>2
  <2>3. ASSUME dlvd' = dlvd, client_rx' = [client_rx EXCEPT ![q] = <<>>],
               conn' = [conn EXCEPT ![q] = "ended"]
        PROVE  UpOK(p)' /\ dlvd'[p] \in {dlvd[p], dlvd[p] + 1}
    <3>1. CASE q = p
          BY <1>0, <2>3, <3>1, UpEnds DEF AgentShape
    <3>2. CASE q # p
      <4>1. client_rx'[p] = client_rx[p]
            BY <1>0, <2>3, <3>2 DEF AgentShape
      <4>2. QED  BY <1>1, <2>1, <2>3, <4>1, UpQuiet DEF Skip
    <3>3. QED  BY <3>1, <3>2
  <2>4. CASE \/ ConnConnects(q) \/ ConnConnectFails(q) \/ ConnChannelClosed(q)
             \/ ConnReads(q) \/ ConnBreaks(q)
    <3>1. \/ UNCHANGED <<client_rx, dlvd>>
          \/ /\ dlvd' = dlvd /\ client_rx' = [client_rx EXCEPT ![q] = <<>>]
             /\ conn' = [conn EXCEPT ![q] = "ended"]
          BY <2>4, Zenon DEF ConnConnects, ConnConnectFails, ConnChannelClosed, ConnReads,
             ConnBreaks, ConnEnds
    <3>2. QED  BY <2>2, <2>3, <3>1
  <2>5. CASE ConnWrites(q)
    <3>1. /\ client_rx[q] # <<>> /\ client_rx' = [client_rx EXCEPT ![q] = Tail(client_rx[q])]
          /\ dlvd' = IF Head(client_rx[q]).who = q
                     THEN [dlvd EXCEPT ![q] = Head(client_rx[q]).n] ELSE dlvd
          BY <2>5 DEF ConnWrites
    <3>2. CASE q # p
      <4>1. client_rx'[p] = client_rx[p] /\ dlvd'[p] = dlvd[p]
            BY <1>0, <3>1, <3>2 DEF AgentShape
      <4>2. QED  BY <1>1, <2>1, <4>1, UpQuiet DEF Skip
    <3>3. CASE q = p /\ Head(client_rx[q]).who # p
      <4>1. client_rx'[p] = Tail(client_rx[p]) /\ dlvd'[p] = dlvd[p]
            BY <1>0, <3>1, <3>3 DEF AgentShape
      <4>2. Skip(client_rx[p], client_rx'[p], McData, OwnData(p))
            BY <3>1, <3>3, <4>1 DEF Skip, OwnData
      <4>3. QED  BY <1>1, <2>1, <4>1, <4>2, UpQuiet
    <3>4. CASE q = p /\ Head(client_rx[q]).who = p
      <4>1. client_rx'[p] = Tail(client_rx[p]) /\ dlvd'[p] = Head(client_rx[p]).n
            BY <1>0, <3>1, <3>4 DEF AgentShape
      <4>2. UpOK(p)' /\ dlvd'[p] = dlvd[p] + 1
            BY <1>1, <2>1, <3>1, <3>4, <4>1, UpArrives
      <4>3. QED  BY <4>2
    <3>5. QED  BY <3>2, <3>3, <3>4
  <2>6. QED  BY <1>6, <2>4, <2>5 DEF ConnNext
<1>7. QED  BY <1>3, <1>4, <1>5, <1>6 DEF AgentNext, AgentReaderNext

\* The invariant behind UpstreamInOrder.
UpInv == JoinInv /\ Fresh /\ \A p \in Players : UpOK(p)

\* Every step of the tunnel keeps the bytes in order, and takes the next one at most.
LEMMA UpStep ==
    ASSUME TunnelInv, UpInv, [TunnelNext]_tunnelVars, NEW p \in Players
    PROVE  UpOK(p)' /\ dlvd'[p] \in {dlvd[p], dlvd[p] + 1}
<1>0. JoinInv /\ Fresh /\ UpOK(p)
      BY DEF UpInv
<1>1. UpAlive(p)' => UpAlive(p)
      BY <1>0, AliveStep
<1>2. CASE ServerStep
  <2>1. dlvd' = dlvd
        BY <1>2 DEF ServerStep, agentVars, connVars
  <2>2. QED  BY <1>0, <1>1, <1>2, <2>1, UpServer DEF ServerStep
<1>3. CASE AgentStep
      BY <1>0, <1>1, <1>3, UpAgent DEF AgentStep
<1>4. CASE LinkStep \/ TunnelFinished \/ UNCHANGED tunnelVars
  <2>1. UNCHANGED <<toClient, rx, writer, sent, client_rx, dlvd>>
        BY <1>4, Zenon DEF LinkStep, LinkBreaks, TunnelFinished, Finished, tunnelVars, vars,
           wireVars, serverVars, sessionVars, playerVars, agentVars, connVars
  <2>2. QED  BY <1>0, <1>1, <2>1, UpQuiet DEF Skip
<1>5. QED  BY <1>2, <1>3, <1>4 DEF TunnelNext

\* Nothing is under way at first.
LEMMA UpInit ==
    ASSUME SessionInit, WireInit, HandleInit
    PROVE  Fresh /\ \A p \in Players : UpOK(p)
<1>1. /\ toClient = <<>> /\ rx = <<>> /\ sent = [p \in Players |-> 0]
      /\ client_rx = [p \in Players |-> <<>>] /\ dlvd = [p \in Players |-> 0]
      /\ mcReader = [p \in Players |-> "off"] /\ mcWriter = [p \in Players |-> "off"]
      BY DEF WireInit, SessionInit, HandleInit
<1>2. Fresh
      BY <1>1 DEF Fresh
<1>3. ASSUME NEW p \in Players PROVE UpOK(p)
  <2>1. UpA(p) = {} /\ UpB(p) = {} /\ UpC(p) = {}
        BY <1>1, NumsEmpty DEF UpA, UpB, UpC
  <2>2. /\ Rising(client_rx[p], OwnData(p)) /\ Rising(toClient, StreamData(p))
        /\ Rising(rx, QueueData(p))
        BY <1>1, NumsEmpty
  <2>3. RunFrom({}, 0) /\ Flow({}, {}, {}, 0) /\ Full({}, {}, {}, 0, 0)
        BY DEF RunFrom, Flow, Full
  <2>4. QED  BY <1>1, <2>1, <2>2, <2>3 DEF UpOK
<1>4. QED  BY <1>2, <1>3

\* It holds in every state of the tunnel.
LEMMA UpInductive == TunnelSpec => []UpInv
<1>1. TunnelInv /\ UpInv /\ [TunnelNext]_tunnelVars => UpInv'
  <2> SUFFICES ASSUME TunnelInv, UpInv, [TunnelNext]_tunnelVars PROVE UpInv'
      OBVIOUS
  <2>1. JoinInv' /\ Fresh'
        BY JoinStep, FreshStep DEF UpInv
  <2>2. \A p \in Players : UpOK(p)'
        BY UpStep
  <2>3. QED  BY <2>1, <2>2, Zenon DEF UpInv
<1>2. TunnelInit => UpInv
      BY UpInit, JoinInit DEF TunnelInit, ServerInit, AgentInit, UpInv
<1>3. QED  BY <1>1, <1>2, TunnelInductive, PTL DEF TunnelSpec

\* The number of a message is one its player has sent.
WasSent(m) == m.who \in Players => m.n \in 0 .. sent[m.who]

\* Nothing waits, and nothing has arrived, that was not sent.
SentBefore ==
    /\ \A m \in ToSet(rx) : WasSent(m)
    /\ \A m \in ToSet(toClient) : WasSent(m)
    /\ \A q \in Players : \A m \in ToSet(client_rx[q]) : WasSent(m)
    /\ \A p \in Players : dlvd[p] <= sent[p]

\* Messages without data are numbered 0.
LEMMA ZeroNumbers ==
    /\ \A i, p : ProxyJoin(i, p).n = 0
    /\ \A i : ProxyDisconnect(i).n = 0 /\ RemoveMinecraftClient(i).n = 0
    /\ \A p : AddMinecraftClient(p).n = 0
    /\ ProxyPing.n = 0 /\ ProxyPong.n = 0 /\ AnswerPingPacket.n = 0
    /\ \A i, p, n : /\ Packet(i, p, n).n = n
                    /\ ProxyData(i, p, n).n = n /\ ProxyData(i, p, n).who = p
BY DEF ProxyJoin, ProxyData, ProxyDisconnect, ProxyPing, ProxyPong, Packet,
       AddMinecraftClient, RemoveMinecraftClient, AnswerPingPacket

\* What the server's steps do to its channel and to the numbers: a player sends its
\* next packet, or a message without data is sent, or one is taken, or all are lost.
LEMMA PlayersSend ==
    ASSUME TunnelInv, Fresh, ServerNext
    PROVE  \/ /\ sent' = sent
              /\ \/ rx' = rx \/ rx' = <<>> \/ (rx # <<>> /\ rx' = Tail(rx))
                 \/ \E m \in ClientToProxy : m.n = 0 /\ rx' = Append(rx, m)
           \/ \E q \in Players :
                 /\ sent' = [sent EXCEPT ![q] = sent[q] + 1]
                 /\ \E m \in ClientToProxy :
                       m.who = q /\ m.n = sent[q] + 1 /\ rx' = Append(rx, m)
<1>0. DataOK
      BY TypeParts DEF TunnelInv, IInv
<1> USE DEF wireVars, sessionVars, playerVars, serverVars
<1>1. CASE \/ ReaderDisconnect \/ ReaderData \/ ReaderUnexpected \/ ReaderClosed \/ ReaderFails
           \/ HandleSelect \/ HandleReturns \/ ReaderAborted
           \/ \E q \in Players : \/ PlayerNoId(q) \/ PlayerLeaves(q) \/ PlayerWrites(q)
                                 \/ PlayerWriteFails(q) \/ PlayerChannelClosed(q)
                                 \/ PlayerAborted(q)
  <2>1. UNCHANGED <<rx, sent>>
        BY <1>1, Zenon DEF ReaderDisconnect, ReaderData, ReaderUnexpected, ReaderClosed,
           ReaderFails, HandleSelect, HandleReturns, ReaderAborted, PlayerNoId, PlayerLeaves,
           PlayerWrites, PlayerWriteFails, PlayerChannelClosed, PlayerAborted
  <2>2. QED  BY <2>1
<1>2. CASE ReaderPing
  <2>1. sent' = sent /\ (rx' = rx \/ rx' = Append(rx, AnswerPingPacket))
        BY <1>2 DEF ReaderPing
  <2>2. QED  BY <2>1, MessageTypes, ZeroNumbers
<1>3. CASE WriterNext \/ WriterAborted
  <2>1. sent' = sent /\ (rx' = <<>> \/ (rx # <<>> /\ rx' = Tail(rx)))
        BY <1>3, Zenon DEF WriterNext, WriterAdd, WriterTooManyClients, WriterPacket, WriterPong,
           WriterRemove, WriterFails, WriterAborted, WriterReceives, WriterEnds
  <2>2. QED  BY <2>1
<1>4. ASSUME NEW q \in Players, PlayerConnect(q) \/ PlayerEnds(q)
      PROVE  /\ sent' = sent
             /\ rx' = rx \/ \E m \in ClientToProxy : m.n = 0 /\ rx' = Append(rx, m)
  <2>1. /\ sent' = sent
        /\ \/ rx' = rx \/ rx' = Append(rx, AddMinecraftClient(q))
           \/ rx' = Append(rx, RemoveMinecraftClient(id[q]))
        BY <1>4 DEF PlayerConnect, PlayerEnds
  <2>2. AddMinecraftClient(q) \in ClientToProxy /\ RemoveMinecraftClient(id[q]) \in ClientToProxy
        BY <1>0, MessageTypes DEF DataOK
  <2>3. QED  BY <2>1, <2>2, ZeroNumbers
<1>5. ASSUME NEW q \in Players, PlayerStart(q) \/ PlayerReads(q)
      PROVE  \/ UNCHANGED <<sent, rx>>
             \/ /\ sent' = [sent EXCEPT ![q] = sent[q] + 1]
                /\ \E m \in ClientToProxy :
                      m.who = q /\ m.n = sent[q] + 1 /\ rx' = Append(rx, m)
  <2>1. CASE writer # "run"
        BY <1>5, <2>1 DEF PlayerStart, PlayerReads
  <2>2. CASE writer = "run"
    <3> DEFINE k == Packet(id[q], q, sent[q] + 1)
    <3>1. k \in ClientToProxy /\ k.who = q /\ k.n = sent[q] + 1
      <4>1. sent[q] + 1 \in Nat /\ q \in Owner /\ id[q] \in ClientID \cup {NoID}
            BY <1>0, IdTypes DEF DataOK
      <4>2. QED  BY <4>1, MessageTypes, MessageKinds, ZeroNumbers
    <3>2. sent' = [sent EXCEPT ![q] = sent[q] + 1] /\ rx' = Append(rx, k)
      <4>1. CASE PlayerStart(q)
        <5>1. sent[q] = 0
              BY <4>1 DEF PlayerStart, Fresh
        <5>2. sent[q] + 1 = 1
              BY <5>1
        <5>3. QED  BY <2>2, <4>1, <5>2 DEF PlayerStart
      <4>2. CASE PlayerReads(q)
            BY <2>2, <4>2 DEF PlayerReads
      <4>3. QED  BY <1>5, <4>1, <4>2
    <3> HIDE DEF k
    <3>3. QED  BY <3>1, <3>2
  <2>3. QED  BY <2>1, <2>2
<1>6. QED
      BY <1>1, <1>2, <1>3, <1>4, <1>5 DEF ServerNext, ReaderNext, HandleNext, PlayerNext

\* What the server puts on the stream: a message without data, or the packet at the
\* head of its channel.
LEMMA ServerPuts ==
    ASSUME TunnelInv, ServerNext
    PROVE  \/ toClient' = toClient
           \/ \E k \in SocketPacket :
                 /\ toClient' = Append(toClient, k)
                 /\ \/ k.n = 0
                    \/ rx # <<>> /\ k.who = Head(rx).who /\ k.n = Head(rx).n
<1>0. DataOK
      BY TypeParts DEF TunnelInv, IInv
<1>1. CASE toClient' = toClient
      BY <1>1
<1>2. CASE WriterPacket
  <2>1. rx # <<>> /\ Head(rx) \in ClientToProxy
        BY <1>0, <1>2, ChannelTypes DEF WriterPacket, WriterReceives, DataOK
  <2>2. Head(rx).id \in WireID \cup {NoID} /\ Head(rx).who \in Owner /\ Head(rx).n \in Nat
        BY <2>1, MessageTypes, IdTypes
  <2>3. ProxyData(Head(rx).id, Head(rx).who, Head(rx).n) \in SocketPacket
        BY <2>2, PacketTypes
  <2>4. QED  BY <1>2, <2>1, <2>3, ZeroNumbers DEF WriterPacket
<1>3. ASSUME ~ WriterPacket, toClient' # toClient
      PROVE  \E k \in SocketPacket : toClient' = Append(toClient, k) /\ k.n = 0
  <2>1. WriterAdd \/ WriterPong \/ WriterRemove
        BY <1>3, Zenon DEF ServerNext, ReaderNext, ReaderDisconnect, ReaderData, ReaderPing,
         ReaderUnexpected, ReaderClosed, ReaderFails, WriterNext, WriterTooManyClients,
         WriterFails, HandleNext, HandleSelect, HandleReturns, ReaderAborted, WriterAborted,
         PlayerNext, PlayerConnect, PlayerStart, PlayerNoId, PlayerReads,
         PlayerLeaves, PlayerWrites, PlayerWriteFails, PlayerChannelClosed, PlayerEnds,
         PlayerAborted, wireVars, sessionVars, playerVars, serverVars
  <2>2. Head(rx) \in ClientToProxy
        BY <1>0, <2>1, ChannelTypes
        DEF DataOK, WriterAdd, WriterPong, WriterRemove, WriterReceives
  <2>3. Head(rx).id \in WireID \cup {NoID} /\ Head(rx).who \in Owner
        BY <2>2, MessageTypes, IdTypes
  <2>4. CASE WriterAdd
    <3>1. FirstFree(clients_id) \in ClientID
          BY <2>4, FirstFreeIsFree DEF WriterAdd, FreeSlots
    <3>2. ProxyJoin(FirstFree(clients_id), Head(rx).who) \in SocketPacket
          BY <2>3, <3>1, PacketTypes
    <3>3. QED  BY <2>4, <3>2, ZeroNumbers DEF WriterAdd
  <2>5. CASE WriterPong
        BY <2>5, PacketTypes, ZeroNumbers DEF WriterPong
  <2>6. CASE WriterRemove
        BY <1>3, <2>3, <2>6, PacketTypes, ZeroNumbers DEF WriterRemove
  <2>7. QED  BY <2>1, <2>4, <2>5, <2>6
<1>4. QED  BY <1>1, <1>2, <1>3

\* What the client's steps do to the stream, to the channels of its connections and
\* to what has arrived.
LEMMA ClientMoves ==
    ASSUME TunnelInv, AgentNext
    PROVE  /\ toClient' = toClient \/ (toClient # <<>> /\ toClient' = Tail(toClient))
           /\ \/ UNCHANGED <<client_rx, dlvd>>
              \/ \E q \in Players :
                    \/ dlvd' = dlvd /\ client_rx' = [client_rx EXCEPT ![q] = <<>>]
                    \/ /\ toClient # <<>> /\ dlvd' = dlvd
                       /\ client_rx' = [client_rx EXCEPT ![q] = Append(client_rx[q],
                              [who |-> Head(toClient).who, n |-> Head(toClient).n])]
                    \/ /\ client_rx[q] # <<>>
                       /\ client_rx' = [client_rx EXCEPT ![q] = Tail(client_rx[q])]
                       /\ \/ dlvd' = dlvd
                          \/ /\ Head(client_rx[q]).who = q
                             /\ dlvd' = [dlvd EXCEPT ![q] = Head(client_rx[q]).n]
<1>0. AgentShape
      BY DEF TunnelInv, AgentInv
<1> USE DEF wireVars, agentVars, clientVars, connVars
<1>1. CASE AgentData
  <2> DEFINE pkg == Head(toClient)
             q   == IF pkg.id \in ClientID THEN connections[pkg.id] ELSE NoPlayer
             e   == [who |-> pkg.who, n |-> pkg.n]
  <2>1. toClient # <<>> /\ toClient' = Tail(toClient) /\ dlvd' = dlvd
        BY <1>1 DEF AgentData, AgentReceives
  <2>2. \/ client_rx' = client_rx
        \/ q # NoPlayer /\ client_rx' = [client_rx EXCEPT ![q] = Append(client_rx[q], e)]
        BY <1>1 DEF AgentData
  <2>3. q # NoPlayer => q \in Players
        BY <1>0 DEF AgentShape, Owner
  <2> HIDE DEF q
  <2>4. QED  BY <2>1, <2>2, <2>3
<1>2. CASE AgentReaderNext /\ ~ AgentData
  <2>1. /\ UNCHANGED <<client_rx, dlvd>>
        /\ toClient' = toClient \/ (toClient # <<>> /\ toClient' = Tail(toClient))
        BY <1>2, Zenon DEF AgentReaderNext, AgentJoin, AgentDisconnect, AgentPong, AgentReceives,
           AgentReaderFails, AgentReaderClosed, AgentTakesDisconnect, AgentWriterGone, AgentPings
  <2>2. QED  BY <2>1
<1>3. CASE AgentWriterNext
  <2>1. UNCHANGED <<client_rx, dlvd, toClient>>
        BY <1>3, Zenon DEF AgentWriterNext, AgentWritesPacket, AgentWritesDisconnect,
           AgentWriterDies, AgentWritesPing, AgentWriterFails, AgentWriterAborted
  <2>2. QED  BY <2>1
<1>4. ASSUME NEW q \in Players, ConnNext(q), ~ ConnWrites(q)
      PROVE  /\ toClient' = toClient /\ dlvd' = dlvd
             /\ client_rx' = client_rx \/ client_rx' = [client_rx EXCEPT ![q] = <<>>]
      BY <1>4, Zenon DEF ConnNext, ConnConnects, ConnConnectFails, ConnChannelClosed, ConnReads,
         ConnBreaks, ConnEnds
<1>5. ASSUME NEW q \in Players, ConnWrites(q)
      PROVE  /\ toClient' = toClient /\ client_rx[q] # <<>>
             /\ client_rx' = [client_rx EXCEPT ![q] = Tail(client_rx[q])]
             /\ \/ dlvd' = dlvd
                \/ /\ Head(client_rx[q]).who = q
                   /\ dlvd' = [dlvd EXCEPT ![q] = Head(client_rx[q]).n]
      BY <1>5 DEF ConnWrites
<1>6. QED  BY <1>1, <1>2, <1>3, <1>4, <1>5 DEF AgentNext

\* Nothing is sent or arrives that its player has not sent.
LEMMA SentStep ==
    ASSUME TunnelInv, Fresh, SentBefore, [TunnelNext]_tunnelVars
    PROVE  SentBefore'
<1>0. DataOK /\ AgentShape
      BY TypeParts DEF TunnelInv, IInv, AgentInv
<1>1. \A p \in Players : sent[p] \in Nat
      BY <1>0 DEF DataOK
<1>2. \A m : m.n = 0 => WasSent(m)
      BY <1>1 DEF WasSent
<1>3. CASE ServerStep
  <2>1. UNCHANGED <<client_rx, dlvd>>
        BY <1>3 DEF ServerStep, agentVars, connVars
  <2>2. \A m \in ToSet(toClient') : WasSent(m)
    <3>1. ASSUME NEW k \in SocketPacket, toClient' = Append(toClient, k), WasSent(k)
          PROVE  \A m \in ToSet(toClient') : WasSent(m)
      <4>1. ToSet(toClient') = ToSet(toClient) \cup {k}
            BY <1>0, <3>1, ToSetAppend DEF DataOK
      <4>2. QED  BY <3>1, <4>1 DEF SentBefore
    <3>2. rx # <<>> => WasSent(Head(rx))
      <4>1. rx # <<>> => Head(rx) \in ToSet(rx)
            BY <1>0, ToSetTail DEF DataOK
      <4>2. QED  BY <4>1 DEF SentBefore
    <3>3. ASSUME NEW k \in SocketPacket, rx # <<>>, k.who = Head(rx).who, k.n = Head(rx).n
          PROVE  WasSent(k)
          BY <3>2, <3>3 DEF WasSent
    <3>4. CASE toClient' = toClient
          BY <3>4 DEF SentBefore
    <3>5. QED  BY <1>2, <1>3, <3>1, <3>3, <3>4, ServerPuts DEF ServerStep
  <2>3. CASE /\ sent' = sent
             /\ \/ rx' = rx \/ rx' = <<>> \/ (rx # <<>> /\ rx' = Tail(rx))
                \/ \E m \in ClientToProxy : m.n = 0 /\ rx' = Append(rx, m)
    <3>1. \A m \in ToSet(rx') : WasSent(m)
      <4>1. ASSUME NEW k \in ClientToProxy, k.n = 0, rx' = Append(rx, k)
            PROVE  \A m \in ToSet(rx') : WasSent(m)
        <5>1. ToSet(rx') = ToSet(rx) \cup {k}
              BY <1>0, <4>1, ToSetAppend DEF DataOK
        <5>2. QED  BY <1>2, <4>1, <5>1 DEF SentBefore
      <4>2. CASE rx' = rx \/ rx' = <<>> \/ (rx # <<>> /\ rx' = Tail(rx))
        <5>1. ToSet(rx') \subseteq ToSet(rx)
          <6>1. rx \in Seq(ClientToProxy)
                BY <1>0 DEF DataOK
          <6>2. QED  BY <4>2, <6>1, ToSetTail, ToSetEmpty
        <5>2. QED  BY <5>1 DEF SentBefore
      <4>3. QED  BY <2>3, <4>1, <4>2
    <3>2. \A m : WasSent(m)' <=> WasSent(m)
          BY <2>3 DEF WasSent
    <3>3. QED  BY <2>1, <2>2, <2>3, <3>1, <3>2 DEF SentBefore
  <2>4. ASSUME NEW q \in Players, sent' = [sent EXCEPT ![q] = sent[q] + 1],
               NEW k \in ClientToProxy, k.who = q, k.n = sent[q] + 1, rx' = Append(rx, k)
        PROVE  SentBefore'
    <3>1. \A p \in Players : sent'[p] \in Nat /\ sent[p] <= sent'[p]
          BY <1>0, <1>1, <2>4 DEF DataOK
    <3>2. k.who = q /\ k.n = sent'[q]
          BY <1>0, <2>4 DEF DataOK
    <3>3. WasSent(k)'
          BY <3>1, <3>2 DEF WasSent
    <3>4. ASSUME NEW m, WasSent(m) PROVE WasSent(m)'
          BY <1>1, <3>1, <3>4 DEF WasSent
    <3>5. ToSet(rx') = ToSet(rx) \cup {k}
          BY <1>0, <2>4, ToSetAppend DEF DataOK
    <3>6. \A p \in Players : dlvd'[p] <= sent'[p]
      <4>1. \A p \in Players : dlvd[p] \in Nat /\ dlvd[p] <= sent[p]
            BY <1>0 DEF AgentShape, SentBefore
      <4>2. QED  BY <1>1, <2>1, <3>1, <4>1
    <3>7. QED  BY <2>1, <2>2, <3>3, <3>4, <3>5, <3>6 DEF SentBefore
  <2>5. QED  BY <1>3, <2>3, <2>4, PlayersSend DEF ServerStep
<1>4. CASE AgentStep
  <2>1. UNCHANGED <<rx, sent>> /\ \A m : WasSent(m)' <=> WasSent(m)
        BY <1>4 DEF AgentStep, serverVars, sessionVars, playerVars, WasSent
  <2>2. /\ ToSet(toClient') \subseteq ToSet(toClient)
        /\ toClient # <<>> => Head(toClient) \in ToSet(toClient)
    <3>1. toClient \in Seq(SocketPacket)
          BY <1>0 DEF DataOK
    <3>2. toClient' = toClient \/ (toClient # <<>> /\ toClient' = Tail(toClient))
          BY <1>4, ClientMoves DEF AgentStep
    <3>3. QED  BY <3>1, <3>2, ToSetTail
  <2>3. ASSUME \A q \in Players : \A m \in ToSet(client_rx'[q]) : WasSent(m),
               \A p \in Players : dlvd'[p] <= sent[p]
        PROVE  SentBefore'
        BY <2>1, <2>2, <2>3 DEF SentBefore
  <2>4. CASE UNCHANGED <<client_rx, dlvd>>
        BY <2>3, <2>4 DEF SentBefore
  <2>5. ASSUME NEW q \in Players, NEW t,
               \A m \in ToSet(t) : WasSent(m),
               client_rx' = [client_rx EXCEPT ![q] = t],
               \A p \in Players : dlvd'[p] <= sent[p]
        PROVE  SentBefore'
    <3>1. \A p \in Players : client_rx'[p] = IF p = q THEN t ELSE client_rx[p]
          BY <1>0, <2>5 DEF AgentShape
    <3>2. QED  BY <2>3, <2>5, <3>1 DEF SentBefore
  <2>6. ASSUME NEW q \in Players PROVE client_rx[q] \in Seq(McData)
        BY <1>0 DEF AgentShape
  <2>7. ASSUME NEW q \in Players, dlvd' = dlvd, client_rx' = [client_rx EXCEPT ![q] = <<>>]
        PROVE  SentBefore'
        BY <2>5, <2>7, ToSetEmpty DEF SentBefore
  <2>8. ASSUME NEW q \in Players, toClient # <<>>, dlvd' = dlvd,
               client_rx' = [client_rx EXCEPT ![q] = Append(client_rx[q],
                                [who |-> Head(toClient).who, n |-> Head(toClient).n])]
        PROVE  SentBefore'
    <3> DEFINE e == [who |-> Head(toClient).who, n |-> Head(toClient).n]
    <3>1. e \in McData
          BY <1>0, <2>8, ChannelTypes, PacketTypes DEF DataOK
    <3>2. WasSent(e)
          BY <2>2, <2>8 DEF SentBefore, WasSent
    <3> HIDE DEF e
    <3>3. ToSet(Append(client_rx[q], e)) = ToSet(client_rx[q]) \cup {e}
          BY <2>6, <3>1, ToSetAppend
    <3>4. \A m \in ToSet(Append(client_rx[q], e)) : WasSent(m)
          BY <3>2, <3>3 DEF SentBefore
    <3>5. client_rx' = [client_rx EXCEPT ![q] = Append(client_rx[q], e)]
          BY <2>8 DEF e
    <3>6. QED  BY <2>5, <2>8, <3>4, <3>5 DEF SentBefore
  <2>9. ASSUME NEW q \in Players, client_rx[q] # <<>>,
               client_rx' = [client_rx EXCEPT ![q] = Tail(client_rx[q])],
               \/ dlvd' = dlvd
               \/ /\ Head(client_rx[q]).who = q
                  /\ dlvd' = [dlvd EXCEPT ![q] = Head(client_rx[q]).n]
        PROVE  SentBefore'
    <3>1. /\ ToSet(Tail(client_rx[q])) \subseteq ToSet(client_rx[q])
          /\ Head(client_rx[q]) \in ToSet(client_rx[q])
          BY <2>6, <2>9, ToSetTail
    <3>2. WasSent(Head(client_rx[q])) /\ \A m \in ToSet(Tail(client_rx[q])) : WasSent(m)
          BY <3>1 DEF SentBefore
    <3>3. \A p \in Players : dlvd'[p] <= sent[p]
      <4>1. CASE dlvd' = dlvd
            BY <4>1 DEF SentBefore
      <4>2. CASE /\ Head(client_rx[q]).who = q
                 /\ dlvd' = [dlvd EXCEPT ![q] = Head(client_rx[q]).n]
        <5>1. Head(client_rx[q]).n <= sent[q]
              BY <1>1, <3>2, <4>2 DEF WasSent
        <5>2. \A p \in Players :
                 dlvd'[p] = IF p = q THEN Head(client_rx[q]).n ELSE dlvd[p]
              BY <1>0, <4>2 DEF AgentShape
        <5>3. QED  BY <5>1, <5>2 DEF SentBefore
      <4>3. QED  BY <2>9, <4>1, <4>2
    <3>4. QED  BY <2>5, <2>9, <3>2, <3>3
  <2>10. QED
         BY <1>4, <2>4, <2>7, <2>8, <2>9, ClientMoves DEF AgentStep
<1>5. CASE LinkStep \/ TunnelFinished \/ UNCHANGED tunnelVars
  <2>1. UNCHANGED <<toClient, rx, sent, client_rx, dlvd>>
        BY <1>5, Zenon DEF LinkStep, LinkBreaks, TunnelFinished, Finished, tunnelVars, vars,
           wireVars, serverVars, sessionVars, playerVars, agentVars, connVars
  <2>2. QED  BY <2>1 DEF SentBefore, WasSent
<1>6. QED  BY <1>3, <1>4, <1>5 DEF TunnelNext

\* Every step of the tunnel is a step of the pipe from the players to their
\* Minecraft servers, or leaves its ends alone.
LEMMA UpSimulation ==
    ASSUME TunnelInv, UpInv, SentBefore, [TunnelNext]_tunnelVars
    PROVE  [Up!Next]_<<sent, dlvd>>
<1>0. DataOK /\ AgentShape
      BY TypeParts DEF TunnelInv, IInv, AgentInv
<1>1. CASE ServerStep
  <2>1. dlvd' = dlvd
        BY <1>1 DEF ServerStep, agentVars, connVars
  <2>2. sent' = sent \/ \E q \in Players : sent' = [sent EXCEPT ![q] = sent[q] + 1]
        BY <1>1, PlayersSend DEF ServerStep, UpInv
  <2>3. QED  BY <2>1, <2>2 DEF Up!Next, Up!Send
<1>2. CASE AgentStep
  <2>1. sent' = sent
        BY <1>2 DEF AgentStep, serverVars, playerVars
  <2>2. CASE dlvd' = dlvd
        BY <2>1, <2>2
  <2>3. ASSUME NEW q \in Players, client_rx[q] # <<>>, Head(client_rx[q]).who = q,
               dlvd' = [dlvd EXCEPT ![q] = Head(client_rx[q]).n]
        PROVE  [Up!Next]_<<sent, dlvd>>
    <3>1. WasSent(Head(client_rx[q]))
      <4>1. client_rx[q] \in Seq(McData)
            BY <1>0 DEF AgentShape
      <4>2. Head(client_rx[q]) \in ToSet(client_rx[q])
            BY <2>3, <4>1, ToSetTail
      <4>3. QED  BY <4>2 DEF SentBefore
    <3>2. dlvd'[q] = Head(client_rx[q]).n /\ dlvd'[q] \in 0 .. sent[q]
          BY <1>0, <2>3, <3>1 DEF AgentShape, WasSent
    <3>3. dlvd'[q] \in {dlvd[q], dlvd[q] + 1}
          BY UpStep
    <3>4. CASE dlvd'[q] = dlvd[q]
      <4>1. dlvd' = dlvd
            BY <1>0, <2>3, <3>2, <3>4 DEF AgentShape
      <4>2. QED  BY <2>1, <4>1
    <3>5. CASE dlvd'[q] = dlvd[q] + 1
      <4>1. dlvd' = [dlvd EXCEPT ![q] = dlvd[q] + 1]
            BY <2>3, <3>2, <3>5
      <4>2. dlvd[q] < sent[q]
            BY <1>0, <3>2, <3>5 DEF AgentShape, DataOK
      <4>3. QED  BY <2>1, <4>1, <4>2 DEF Up!Next, Up!Receive
    <3>6. QED  BY <3>3, <3>4, <3>5
  <2>4. \/ dlvd' = dlvd
        \/ \E q \in Players : /\ client_rx[q] # <<>> /\ Head(client_rx[q]).who = q
                             /\ dlvd' = [dlvd EXCEPT ![q] = Head(client_rx[q]).n]
    <3>1. AgentNext  BY <1>2 DEF AgentStep
    <3>2. QED  BY <3>1, ClientMoves, Zenon
  <2>5. QED  BY <2>2, <2>3, <2>4
<1>3. CASE LinkStep \/ TunnelFinished \/ UNCHANGED tunnelVars
      BY <1>3, Zenon DEF LinkStep, TunnelFinished, Finished, tunnelVars, vars,
         serverVars, playerVars, agentVars, connVars
<1>4. QED  BY <1>1, <1>2, <1>3 DEF TunnelNext

\* Nothing is sent at first.
LEMMA SentInit == ASSUME SessionInit, WireInit, HandleInit PROVE SentBefore /\ Up!Init
<1>1. /\ toClient = <<>> /\ rx = <<>> /\ sent = [p \in Players |-> 0]
      /\ client_rx = [p \in Players |-> <<>>] /\ dlvd = [p \in Players |-> 0]
      BY DEF WireInit, SessionInit, HandleInit
<1>2. QED  BY <1>1, ToSetEmpty DEF SentBefore, Up!Init

\* It holds in every state of the tunnel.
LEMMA SentInductive == TunnelSpec => []SentBefore
<1>1. TunnelInit => SentBefore
      BY SentInit DEF TunnelInit, ServerInit, AgentInit
<1>2. TunnelInv /\ UpInv /\ SentBefore /\ [TunnelNext]_tunnelVars => SentBefore'
      BY SentStep DEF UpInv
<1>3. QED  BY <1>1, <1>2, TunnelInductive, UpInductive, PTL DEF TunnelSpec

\* A player's own bytes reach its Minecraft server as through a pipe (module Pipe): in
\* order, without a gap, without a repetition, and only what the player has sent, for
\* every number of players, slots and packets, although slots change hands and each of
\* the six tasks they pass can end at any time.
THEOREM UpOrdered == TunnelSpec => UpstreamInOrder
<1>1. TunnelInit => Up!Init
      BY SentInit DEF TunnelInit, ServerInit, AgentInit
<1>2. TunnelInv /\ UpInv /\ SentBefore /\ [TunnelNext]_tunnelVars => [Up!Next]_<<sent, dlvd>>
      BY UpSimulation
<1>3. QED
      BY <1>1, <1>2, TunnelInductive, UpInductive, SentInductive, PTL
      DEF TunnelSpec, UpstreamInOrder, Up!Spec

-----------------------------------------------------------------------------
(* The bytes of a player's Minecraft server, on their way to the player.   *)

\* The numbers of the packets that wait: in the player's channel, on the stream, and
\* in the channel of the client's writer.
DownA(p) == Nums(mcRx[p], OwnData(p))
DownB(p) == Nums(toServer, StreamData(p))
DownC(p) == Nums(to_proxy, ReplyData(p))

\* What is on the stream for a player can still reach its channel.
DownAlive(p) ==
    mc[p] = "idle" \/ (McRxOpen(p) /\ (id[p] = NoID \/ clients_id[id[p]] = p))

\* As UpOK, in the other direction.
DownOK(p) ==
    /\ RunFrom(DownA(p), rcvd[p]) /\ Rising(mcRx[p], OwnData(p))
    /\ DownAlive(p) =>
          /\ Flow(DownA(p), DownB(p), DownC(p), rcvd[p])
          /\ Rising(toServer, StreamData(p)) /\ Rising(to_proxy, ReplyData(p))
          /\ c_writer = "run" => Full(DownA(p), DownB(p), DownC(p), rcvd[p], replied[p])

\* A message of the client or of its stream carries the id of its player.
Owned(m) == m.who \in Players /\ id[m.who] # NoID /\ m.id = id[m.who]

RepliesOwned ==
    /\ \A m \in ToSet(to_proxy) : m.type = "Packet" => Owned(m)
    /\ \A m \in ToSet(toServer) : m.type = "ProxyData" => Owned(m)

\* The fields of the messages in the client's channel.
LEMMA GoodTypes ==
    \A m \in GoodMessage : m.id \in WireID \cup {NoID} /\ m.who \in Owner /\ m.n \in Nat
BY DEF GoodMessage, AgentMessage

\* The kinds of messages of the client are told apart by their type.
LEMMA AgentKinds ==
    /\ \A i, p, n : /\ AgentPacket(i, p, n).type = "Packet" /\ AgentPacket(i, p, n).id = i
                    /\ AgentPacket(i, p, n).who = p /\ AgentPacket(i, p, n).n = n
    /\ \A i : AgentRemove(i).type = "RemoveMinecraftClient"
    /\ Death.type = "Death" /\ Ping.type = "Ping"
BY DEF AgentPacket, AgentRemove, Death, Ping

\* The numbers are naturals.
LEMMA DownNumbers ==
    ASSUME TunnelInv, NEW p \in Players
    PROVE  /\ DownA(p) \in SUBSET Nat /\ DownB(p) \in SUBSET Nat /\ DownC(p) \in SUBSET Nat
           /\ rcvd[p] \in Nat /\ replied[p] \in Nat
<1>0. DataOK /\ AgentShape
      BY TypeParts DEF TunnelInv, IInv, AgentInv
<1>1. DownA(p) \subseteq Nat
  <2>1. mcRx[p] \in Seq(McData)
        BY <1>0 DEF DataOK
  <2>2. QED  BY <2>1, McDataTypes, NumsNat DEF DownA
<1>2. DownB(p) \subseteq Nat
      BY <1>0, PacketTypes, NumsNat DEF DownB, DataOK
<1>3. DownC(p) \subseteq Nat
      BY <1>0, GoodTypes, NumsNat DEF DownC, AgentShape
<1>4. rcvd[p] \in Nat /\ replied[p] \in Nat
      BY <1>0 DEF DataOK, AgentShape
<1>5. QED  BY <1>1, <1>2, <1>3, <1>4

\* A step that neither sends, moves nor loses a packet for the player.
LEMMA DownQuiet ==
    ASSUME TunnelInv, NEW p \in Players, DownOK(p), DownAlive(p)' => DownAlive(p),
           c_writer' = c_writer, rcvd'[p] = rcvd[p],
           c_writer = "run" => replied'[p] = replied[p],
           Skip(mcRx[p], mcRx'[p], McData, OwnData(p)),
           Skip(toServer, toServer', SocketPacket, StreamData(p)),
           KeepsNums(to_proxy, to_proxy', ReplyData(p))
    PROVE  DownOK(p)'
<1>0. DataOK /\ mcRx[p] \in Seq(McData)
      BY TypeParts DEF TunnelInv, IInv, DataOK
<1>1. /\ DownB(p)' = DownB(p)
      /\ Rising(toServer, StreamData(p)) => Rising(toServer', StreamData(p))
      BY <1>0, PacketTypes, SkipKeeps DEF DownB, DataOK, StreamData
<1>2. /\ DownC(p)' = DownC(p)
      /\ Rising(to_proxy, ReplyData(p)) => Rising(to_proxy', ReplyData(p))
      BY DEF DownC, KeepsNums, ReplyData
<1>3. DownA(p)' = DownA(p) /\ Rising(mcRx'[p], OwnData(p))
      BY <1>0, McDataTypes, SkipKeeps DEF DownA, DownOK, OwnData
<1>4. QED  BY <1>1, <1>2, <1>3, Zenon DEF DownOK, StreamData, ReplyData, OwnData

\* The connection sends the next packet of the Minecraft server.
LEMMA DownSends ==
    ASSUME TunnelInv, NEW p \in Players, DownOK(p), DownAlive(p)' => DownAlive(p),
           c_writer = "run", c_writer' = c_writer, UNCHANGED <<mcRx, rcvd, toServer>>,
           NEW i, AgentPacket(i, p, replied[p] + 1) \in GoodMessage,
           to_proxy' = Append(to_proxy, AgentPacket(i, p, replied[p] + 1)),
           replied'[p] = replied[p] + 1
    PROVE  DownOK(p)'
<1>0. AgentShape
      BY DEF TunnelInv, AgentInv
<1> DEFINE m == AgentPacket(i, p, replied[p] + 1)
<1>1. m \in GoodMessage /\ m \in ReplyData(p) /\ m.n = replied[p] + 1
      BY AgentKinds DEF ReplyData
<1> HIDE DEF m
<1>2. DownC(p)' = DownC(p) \cup {replied[p] + 1}
      BY <1>0, <1>1, NumsAppend DEF DownC, AgentShape, ReplyData, m
<1>3. DownA(p)' = DownA(p) /\ DownB(p)' = DownB(p)
      BY Zenon DEF DownA, DownB, OwnData, StreamData
<1>4. ASSUME DownAlive(p)
      PROVE  /\ Flow(DownA(p), DownB(p), DownC(p)', rcvd[p]) /\ Rising(to_proxy', ReplyData(p))
             /\ Full(DownA(p), DownB(p), DownC(p)', rcvd[p], replied[p] + 1)
  <2>1. /\ Flow(DownA(p), DownB(p), DownC(p), rcvd[p]) /\ Rising(to_proxy, ReplyData(p))
        /\ Full(DownA(p), DownB(p), DownC(p), rcvd[p], replied[p])
        BY <1>4 DEF DownOK
  <2>2. /\ Flow(DownA(p), DownB(p), DownC(p)', rcvd[p])
        /\ Full(DownA(p), DownB(p), DownC(p)', rcvd[p], replied[p] + 1)
        /\ \A n \in DownC(p) : n < replied[p] + 1
    <3> DEFINE A == DownA(p)  B == DownB(p)  C == DownC(p)  d == rcvd[p]  s == replied[p]
    <3>1. A \in SUBSET Nat /\ B \in SUBSET Nat /\ C \in SUBSET Nat /\ d \in Nat /\ s \in Nat
          BY DownNumbers
    <3>2. Flow(A, B, C, d) /\ Full(A, B, C, d, s)
          BY <2>1
    <3> HIDE DEF A, B, C, d, s
    <3>3. /\ Flow(A, B, C \cup {s + 1}, d) /\ Full(A, B, C \cup {s + 1}, d, s + 1)
          /\ \A n \in C : n < s + 1
          BY <3>1, <3>2, FlowSend
    <3>4. QED  BY <1>2, <3>3 DEF A, B, C, d, s
  <2>3. Rising(to_proxy', ReplyData(p))
        BY <1>0, <1>1, <2>1, <2>2, NumsAppend DEF DownC, AgentShape, m
  <2>4. QED  BY <2>2, <2>3
<1>5. QED
      BY <1>3, <1>4, Zenon DEF DownOK, OwnData, StreamData, ReplyData

\* The client's writer puts the next packet for the player on the stream.
LEMMA DownForwards ==
    ASSUME TunnelInv, NEW p \in Players, DownOK(p), DownAlive(p)' => DownAlive(p),
           AgentWritesPacket, UNCHANGED <<mcRx, rcvd>>, Head(to_proxy).who = p
    PROVE  DownOK(p)'
<1>0. DataOK /\ AgentShape
      BY TypeParts DEF TunnelInv, IInv, AgentInv
<1> DEFINE m == Head(to_proxy)
           k == ProxyData(m.id, m.who, m.n)
<1>1. /\ to_proxy # <<>> /\ m.type = "Packet" /\ to_proxy' = Tail(to_proxy)
      /\ c_writer = "run" /\ toServer' = Append(toServer, k)
      /\ c_writer' = c_writer /\ replied' = replied
      BY DEF AgentWritesPacket, AgentWriterTakes, connVars
<1>2. m \in GoodMessage /\ m \in ReplyData(p) /\ m.n \in Nat
      BY <1>0, <1>1, ChannelTypes, GoodTypes DEF AgentShape, ReplyData
<1>3. k \in SocketPacket /\ k \in StreamData(p) /\ k.n = m.n
  <2>1. m.id \in WireID \cup {NoID} /\ m.who \in Owner
        BY <1>2, GoodTypes
  <2>2. k \in SocketPacket
        BY <1>2, <2>1, PacketTypes
  <2>3. QED  BY <2>2 DEF StreamData, ProxyData
<1> HIDE DEF m, k
<1>4. DownA(p)' = DownA(p)
      BY Zenon DEF DownA, OwnData
<1>5. DownB(p)' = DownB(p) \cup {m.n}
      BY <1>0, <1>1, <1>3, NumsAppend DEF DownB, DataOK, StreamData
<1>6. ASSUME DownAlive(p)
      PROVE  /\ Flow(DownA(p), DownB(p)', DownC(p)', rcvd[p])
             /\ Full(DownA(p), DownB(p)', DownC(p)', rcvd[p], replied[p])
             /\ Rising(toServer', StreamData(p)) /\ Rising(to_proxy', ReplyData(p))
  <2>1. /\ Flow(DownA(p), DownB(p), DownC(p), rcvd[p])
        /\ Full(DownA(p), DownB(p), DownC(p), rcvd[p], replied[p])
        /\ Rising(toServer, StreamData(p)) /\ Rising(to_proxy, ReplyData(p))
        BY <1>1, <1>6 DEF DownOK
  <2>2. /\ Rising(to_proxy', ReplyData(p)) /\ m.n \in DownC(p)
        /\ \A n \in DownC(p) : m.n <= n
        /\ Nums(to_proxy', ReplyData(p)) = DownC(p) \ {m.n}
        BY <1>0, <1>1, <1>2, <2>1, GoodTypes, NumsTail DEF DownC, AgentShape, m
  <2>3. DownC(p)' = DownC(p) \ {m.n}
        BY <2>2 DEF DownC, ReplyData
  <2>4. /\ Flow(DownA(p), DownB(p)', DownC(p)', rcvd[p])
        /\ Full(DownA(p), DownB(p)', DownC(p)', rcvd[p], replied[p])
        /\ \A n \in DownB(p) : n < m.n
    <3> DEFINE A == DownA(p)  B == DownB(p)  C == DownC(p)  d == rcvd[p]  s == replied[p]
    <3>1. A \in SUBSET Nat /\ B \in SUBSET Nat /\ C \in SUBSET Nat /\ d \in Nat /\ s \in Nat
          BY DownNumbers
    <3>2. /\ Flow(A, B, C, d) /\ Full(A, B, C, d, s)
          /\ m.n \in C /\ \A n \in C : m.n <= n
          BY <2>1, <2>2
    <3> HIDE DEF A, B, C, d, s
    <3>3. /\ Flow(A, B \cup {m.n}, C \ {m.n}, d) /\ Full(A, B \cup {m.n}, C \ {m.n}, d, s)
          /\ \A n \in B : n < m.n
          BY <3>1, <3>2, FlowForward
    <3>4. QED  BY <1>5, <2>3, <3>3 DEF A, B, C, d, s
  <2>5. Rising(toServer', StreamData(p))
        BY <1>0, <1>1, <1>3, <2>1, <2>4, NumsAppend DEF DownB, DataOK
  <2>6. QED  BY <2>2, <2>4, <2>5
<1>7. QED
      BY <1>1, <1>4, <1>6, Zenon DEF DownOK, OwnData, StreamData, ReplyData

\* The client's writer ends and drops what waits in its channel.
LEMMA DownCloses ==
    ASSUME TunnelInv, NEW p \in Players, DownOK(p), DownAlive(p)' => DownAlive(p),
           UNCHANGED <<mcRx, rcvd, toServer>>, to_proxy' = <<>>, c_writer' = "ended"
    PROVE  DownOK(p)'
<1>1. DownA(p)' = DownA(p) /\ DownB(p)' = DownB(p)
      BY Zenon DEF DownA, DownB, OwnData, StreamData
<1>2. DownC(p)' = {} /\ Rising(to_proxy', ReplyData(p))
      BY NumsEmpty DEF DownC, ReplyData
<1>3. DownAlive(p) => Flow(DownA(p), DownB(p), {}, rcvd[p])
      BY FlowDrop DEF DownOK
<1>4. QED
      BY <1>1, <1>2, <1>3 DEF DownOK, OwnData, StreamData, ReplyData

\* The stream's packet for the player goes into the player's channel.
LEMMA DownDelivers ==
    ASSUME TunnelInv, NEW p \in Players, DownOK(p), DownAlive(p),
           UNCHANGED <<c_writer, to_proxy, replied, rcvd>>,
           toServer # <<>>, Head(toServer) \in StreamData(p), toServer' = Tail(toServer),
           mcRx'[p] = Append(mcRx[p], [who |-> p, n |-> Head(toServer).n])
    PROVE  DownOK(p)'
<1>0. DataOK /\ mcRx[p] \in Seq(McData)
      BY TypeParts DEF TunnelInv, IInv, DataOK
<1> DEFINE m == Head(toServer)
           k == [who |-> p, n |-> m.n]
<1>1. m \in SocketPacket /\ m \in StreamData(p) /\ m.n \in Nat
      BY PacketTypes DEF StreamData
<1>2. k \in McData /\ k \in OwnData(p) /\ k.n = m.n
      BY <1>1, IdTypes DEF McData, OwnData
<1>3. mcRx'[p] = Append(mcRx[p], k)
      OBVIOUS
<1>4. /\ RunFrom(DownA(p), rcvd[p]) /\ Rising(mcRx[p], OwnData(p))
      /\ Flow(DownA(p), DownB(p), DownC(p), rcvd[p])
      /\ Rising(toServer, StreamData(p)) /\ Rising(to_proxy, ReplyData(p))
      /\ c_writer = "run" => Full(DownA(p), DownB(p), DownC(p), rcvd[p], replied[p])
      BY DEF DownOK
<1>5. /\ Rising(toServer', StreamData(p)) /\ m.n \in DownB(p)
      /\ \A n \in DownB(p) : m.n <= n
      /\ Nums(toServer', StreamData(p)) = DownB(p) \ {m.n}
      BY <1>0, <1>1, <1>4, PacketTypes, NumsTail DEF DownB, DataOK, m
<1> HIDE DEF m, k
<1>6. DownA(p)' = DownA(p) \cup {m.n}
      BY <1>0, <1>2, <1>3, NumsAppend DEF DownA, OwnData
<1>7. DownB(p)' = DownB(p) \ {m.n} /\ DownC(p)' = DownC(p)
      BY <1>5 DEF DownB, DownC, StreamData, ReplyData
<1> DEFINE A == DownA(p)  B == DownB(p)  C == DownC(p)  d == rcvd[p]  s == replied[p]
<1>8. A \in SUBSET Nat /\ B \in SUBSET Nat /\ C \in SUBSET Nat /\ d \in Nat /\ s \in Nat
      BY DownNumbers
<1>9. RunFrom(A, d) /\ Flow(A, B, C, d) /\ m.n \in B /\ \A n \in B : m.n <= n
      BY <1>4, <1>5
<1> HIDE DEF A, B, C, d, s
<1>10. /\ RunFrom(A \cup {m.n}, d) /\ Flow(A \cup {m.n}, B \ {m.n}, C, d)
       /\ Full(A, B, C, d, s) => Full(A \cup {m.n}, B \ {m.n}, C, d, s)
       /\ \A n \in A : n < m.n
       BY <1>8, <1>9, FlowDeliver
<1>11. Rising(mcRx'[p], OwnData(p))
  <2>1. \A n \in Nums(mcRx[p], OwnData(p)) : n < k.n
        BY <1>2, <1>10 DEF A, DownA
  <2>2. QED  BY <1>0, <1>2, <1>3, <1>4, <2>1, NumsAppend
<1>12. /\ RunFrom(DownA(p)', rcvd[p]) /\ Flow(DownA(p)', DownB(p)', DownC(p)', rcvd[p])
       /\ Full(A, B, C, d, s) => Full(DownA(p)', DownB(p)', DownC(p)', rcvd[p], replied[p])
       BY <1>6, <1>7, <1>10 DEF A, B, C, d, s
<1>13. QED
       BY <1>4, <1>5, <1>11, <1>12, Zenon
       DEF DownOK, OwnData, StreamData, ReplyData, A, B, C, d, s

\* client_writer writes the next packet for the player to its socket.
LEMMA DownArrives ==
    ASSUME TunnelInv, NEW p \in Players, DownOK(p), DownAlive(p)' => DownAlive(p),
           UNCHANGED <<c_writer, to_proxy, replied, toServer>>,
           mcRx[p] # <<>>, Head(mcRx[p]).who = p,
           mcRx'[p] = Tail(mcRx[p]), rcvd'[p] = Head(mcRx[p]).n
    PROVE  DownOK(p)' /\ rcvd'[p] = rcvd[p] + 1
<1>0. mcRx[p] \in Seq(McData)
      BY TypeParts DEF TunnelInv, IInv, DataOK
<1> DEFINE m == Head(mcRx[p])
<1>1. m \in McData /\ m \in OwnData(p)
      BY <1>0, ChannelTypes DEF OwnData
<1>2. RunFrom(DownA(p), rcvd[p]) /\ Rising(mcRx[p], OwnData(p))
      BY DEF DownOK
<1>3. /\ Rising(mcRx'[p], OwnData(p)) /\ m.n \in DownA(p)
      /\ \A n \in DownA(p) : m.n <= n
      /\ Nums(mcRx'[p], OwnData(p)) = DownA(p) \ {m.n}
      BY <1>0, <1>1, <1>2, McDataTypes, NumsTail DEF DownA, m
<1>4. rcvd'[p] = m.n
      OBVIOUS
<1> HIDE DEF m
<1>5. DownA(p)' = DownA(p) \ {m.n} /\ DownB(p)' = DownB(p) /\ DownC(p)' = DownC(p)
      BY <1>3 DEF DownA, DownB, DownC, OwnData, StreamData, ReplyData
<1> DEFINE A == DownA(p)  B == DownB(p)  C == DownC(p)  d == rcvd[p]  s == replied[p]
<1>6. A \in SUBSET Nat /\ B \in SUBSET Nat /\ C \in SUBSET Nat /\ d \in Nat /\ s \in Nat
      BY DownNumbers
<1>7. RunFrom(A, d) /\ m.n \in A /\ \A n \in A : m.n <= n
      BY <1>2, <1>3
<1> HIDE DEF A, B, C, d, s
<1>8. /\ m.n = d + 1 /\ RunFrom(A \ {m.n}, m.n)
      /\ Flow(A, B, C, d) =>
            /\ Flow(A \ {m.n}, B, C, m.n)
            /\ Full(A, B, C, d, s) => Full(A \ {m.n}, B, C, m.n, s)
      BY <1>6, <1>7, FlowArrive
<1>9. /\ rcvd'[p] = rcvd[p] + 1 /\ RunFrom(DownA(p)', rcvd'[p])
      /\ Flow(A, B, C, d) => Flow(DownA(p)', DownB(p)', DownC(p)', rcvd'[p])
      /\ Flow(A, B, C, d) /\ Full(A, B, C, d, s)
            => Full(DownA(p)', DownB(p)', DownC(p)', rcvd'[p], replied[p])
      BY <1>4, <1>5, <1>8 DEF A, B, C, d, s
<1>10. QED
       BY <1>3, <1>9, Zenon DEF DownOK, OwnData, StreamData, ReplyData, A, B, C, d, s

\* The player's channel is dropped, or nothing more can reach it.
LEMMA DownEnds ==
    ASSUME NEW p \in Players, DownOK(p), rcvd'[p] = rcvd[p], ~ DownAlive(p)',
           mcRx'[p] = <<>> \/ mcRx'[p] = mcRx[p]
    PROVE  DownOK(p)'
<1>1. RunFrom(DownA(p)', rcvd'[p]) /\ Rising(mcRx'[p], OwnData(p))
  <2>1. CASE mcRx'[p] = <<>>
    <3>1. DownA(p)' = {} /\ Rising(mcRx'[p], OwnData(p))
          BY <2>1, NumsEmpty DEF DownA, OwnData
    <3>2. QED  BY <3>1 DEF RunFrom
  <2>2. CASE mcRx'[p] = mcRx[p]
        BY <2>2 DEF DownOK, DownA, OwnData
  <2>3. QED  BY <2>1, <2>2
<1>2. QED  BY <1>1, Zenon DEF DownOK, OwnData

\* A player whose channel is closed, or whose slot is lost, never gets either back.
LEMMA DownAliveStep ==
    ASSUME TunnelInv, Fresh, [TunnelNext]_tunnelVars, NEW p \in Players, DownAlive(p)'
    PROVE  DownAlive(p)
<1>0. DataOK /\ Core
      BY TypeParts DEF TunnelInv, IInv
<1>1. ASSUME id' = id, mc'[p] = "idle" => mc[p] = "idle",
             mc'[p] = "wait_id" => mc[p] \in {"idle", "wait_id"},
             mcWriter'[p] = "run" => mcWriter[p] = "run" \/ mc[p] = "wait_id",
             \A i \in ClientID : clients_id'[i] \in {clients_id[i], NoPlayer}
      PROVE  DownAlive(p)
  <2>1. id[p] \in ClientID \cup {NoID} /\ p # NoPlayer
        BY <1>0, WireAssumption DEF DataOK, WireAssumption
  <2>2. id[p] \in ClientID /\ clients_id'[id[p]] = p => clients_id[id[p]] = p
        BY <1>1, <2>1
  <2>3. QED  BY <1>1, <2>1, <2>2 DEF DownAlive, McRxOpen
<1>2. CASE UNCHANGED <<id, mc, mcWriter, clients_id>>
      BY <1>1, <1>2
<1> USE DEF wireVars, sessionVars, playerVars, serverVars
<1>3. ASSUME UNCHANGED <<id, mc, mcWriter>>, NEW i,
             clients_id' = remove_by_id(clients_id, i)
      PROVE  DownAlive(p)
  <2>1. \A j \in ClientID : clients_id'[j] \in {clients_id[j], NoPlayer}
        BY <1>0, <1>3 DEF remove_by_id, DataOK
  <2>2. QED  BY <1>1, <1>3, <2>1
<1>4. CASE ReaderNext \/ HandleNext
  <2>1. CASE ReaderDisconnect
        BY <1>3, <2>1 DEF ReaderDisconnect
  <2>2. CASE \/ ReaderData \/ ReaderPing \/ ReaderUnexpected \/ ReaderClosed \/ ReaderFails
             \/ HandleNext
    <3>1. UNCHANGED <<id, mc, mcWriter, clients_id>>
          BY <2>2, Zenon DEF ReaderData, ReaderPing, ReaderUnexpected, ReaderClosed,
             ReaderFails, HandleNext, HandleSelect, HandleReturns, ReaderAborted, WriterAborted
    <3>2. QED  BY <1>2, <3>1
  <2>3. QED  BY <1>4, <2>1, <2>2 DEF ReaderNext
<1>5. CASE WriterNext
  <2>1. CASE WriterAdd
    <3> DEFINE q == Head(rx).who
               i == FirstFree(clients_id)
    <3>1. q \in Players /\ id[q] = NoID /\ mc[q] = "wait_id"
      <4>1. Head(rx) \in ToSet(rx) /\ Head(rx).type = "AddMinecraftClient"
            BY <1>0, <2>1, ToSetTail DEF WriterAdd, WriterReceives, DataOK
      <4>2. QED  BY <1>0, <4>1 DEF Core, ChannelInv, AddsWait
    <3>2. /\ clients_id' = [clients_id EXCEPT ![i] = q] /\ id' = [id EXCEPT ![q] = i]
          /\ UNCHANGED <<mc, mcWriter>>
          BY <2>1 DEF WriterAdd, insert
    <3>3. i \in ClientID
          BY <2>1, FirstFreeIsFree DEF WriterAdd, FreeSlots
    <3> HIDE DEF q, i
    <3>4. CASE p = q
          BY <3>1, <3>4 DEF DownAlive, McRxOpen
    <3>5. CASE p # q
      <4>1. id'[p] = id[p] /\ id[p] \in ClientID \cup {NoID}
            BY <1>0, <3>1, <3>2, <3>5 DEF DataOK
      <4>2. id[p] \in ClientID /\ clients_id'[id[p]] = p => clients_id[id[p]] = p
            BY <1>0, <3>2, <3>3, <3>5 DEF DataOK
      <4>3. QED  BY <3>2, <4>1, <4>2 DEF DownAlive, McRxOpen
    <3>6. QED  BY <3>4, <3>5
  <2>2. CASE WriterRemove
        BY <1>3, <2>2 DEF WriterRemove
  <2>3. CASE WriterTooManyClients \/ WriterPacket \/ WriterPong \/ WriterFails
    <3>1. UNCHANGED <<id, mc, mcWriter, clients_id>>
          BY <2>3, Zenon DEF WriterTooManyClients, WriterPacket, WriterPong, WriterFails
    <3>2. QED  BY <1>2, <3>1
  <2>4. QED  BY <1>5, <2>1, <2>2, <2>3 DEF WriterNext
<1>6. ASSUME NEW q \in Players, PlayerNext(q) PROVE DownAlive(p)
  <2>0. UNCHANGED <<id, clients_id>>
        BY <1>6, Zenon DEF PlayerNext, PlayerConnect, PlayerStart, PlayerNoId, PlayerReads,
           PlayerLeaves, PlayerWrites, PlayerWriteFails, PlayerChannelClosed, PlayerEnds,
           PlayerAborted
  <2>1. /\ mc'[p] = "idle" => mc[p] = "idle"
        /\ mc'[p] = "wait_id" => mc[p] \in {"idle", "wait_id"}
        /\ mcWriter'[p] = "run" => mcWriter[p] = "run" \/ mc[p] = "wait_id"
    <3> USE <1>0 DEF DataOK
    <3>1. CASE PlayerConnect(q) \/ PlayerReads(q) \/ PlayerLeaves(q) \/ PlayerWrites(q)
          BY <3>1 DEF PlayerConnect, PlayerReads, PlayerLeaves, PlayerWrites
    <3>2. CASE PlayerStart(q)
          BY <3>2 DEF PlayerStart
    <3>3. CASE PlayerNoId(q) \/ PlayerEnds(q)
          BY <3>3 DEF PlayerNoId, PlayerEnds
    <3>4. CASE PlayerWriteFails(q) \/ PlayerChannelClosed(q) \/ PlayerAborted(q)
          BY <3>4 DEF PlayerWriteFails, PlayerChannelClosed, PlayerAborted
    <3>5. QED  BY <1>6, <3>1, <3>2, <3>3, <3>4 DEF PlayerNext
  <2>2. QED  BY <1>1, <2>0, <2>1
<1>7. CASE AgentStep \/ LinkStep \/ TunnelFinished \/ UNCHANGED tunnelVars
  <2>1. UNCHANGED <<id, mc, mcWriter, clients_id>>
        BY <1>7, Zenon DEF AgentStep, LinkStep, TunnelFinished, Finished, tunnelVars, vars
  <2>2. QED  BY <1>2, <2>1
<1>8. QED  BY <1>4, <1>5, <1>6, <1>7 DEF TunnelNext, ServerStep, ServerNext

\* What a connection sends to the client's writer: what the Minecraft server wrote, or
\* the announcement of its own end.
LEMMA ConnSends ==
    ASSUME TunnelInv, NEW q \in Players, ConnNext(q)
    PROVE  /\ UNCHANGED <<c_writer, toServer>> /\ conn[q] # "none"
           /\ AgentRemove(client_id[q]) \in GoodMessage /\ Death \in GoodMessage
           /\ \/ /\ \/ to_proxy' = to_proxy
                    \/ to_proxy' = Append(to_proxy, AgentRemove(client_id[q]))
                    \/ to_proxy' = Append(Append(to_proxy, Death), AgentRemove(client_id[q]))
                 /\ c_writer = "run" => replied' = replied
                 /\ \A p \in Players : p # q => replied'[p] = replied[p]
              \/ /\ c_writer = "run" /\ replied' = [replied EXCEPT ![q] = replied[q] + 1]
                 /\ AgentPacket(client_id[q], q, replied[q] + 1) \in GoodMessage
                 /\ to_proxy' = Append(to_proxy, AgentPacket(client_id[q], q, replied[q] + 1))
<1>0. AgentShape /\ ConnHasId
      BY DEF TunnelInv, AgentInv
<1> USE DEF wireVars, clientVars
<1>1. UNCHANGED <<c_writer, toServer>> /\ conn[q] # "none"
      BY DEF ConnNext, ConnConnects, ConnConnectFails, ConnWrites, ConnChannelClosed,
         ConnReads, ConnBreaks
<1>2. AgentRemove(client_id[q]) \in GoodMessage /\ Death \in GoodMessage
      BY <1>0, <1>1, AgentMessages DEF ConnHasId
<1>3. CASE ConnConnects(q) \/ ConnWrites(q)
  <2>1. UNCHANGED <<to_proxy, replied>>
        BY <1>3 DEF ConnConnects, ConnWrites
  <2>2. QED  BY <1>1, <1>2, <2>1
<1>4. CASE ConnConnectFails(q) \/ ConnChannelClosed(q) \/ ConnBreaks(q)
  <2>1. /\ replied' = replied
        /\ \/ SendToProxy(<<Death, AgentRemove(client_id[q])>>)
           \/ SendToProxy(<<>>) \/ SendToProxy(<<AgentRemove(client_id[q])>>)
        BY <1>4, Zenon DEF ConnConnectFails, ConnChannelClosed, ConnBreaks, ConnEnds
  <2> DEFINE x == AgentRemove(client_id[q])
  <2>2. /\ to_proxy \o <<>> = to_proxy /\ to_proxy \o <<x>> = Append(to_proxy, x)
        /\ to_proxy \o <<Death, x>> = Append(Append(to_proxy, Death), x)
    <3>1. to_proxy \in Seq(GoodMessage)
          BY <1>0 DEF AgentShape
    <3> HIDE DEF x
    <3>2. x \in GoodMessage /\ Death \in GoodMessage
          BY <1>2 DEF x
    <3>3. QED  BY <3>1, <3>2, SendsInTurn
  <2>3. QED  BY <1>1, <1>2, <2>1, <2>2, Zenon DEF SendToProxy
<1>5. CASE ConnReads(q)
  <2>1. replied' = [replied EXCEPT ![q] = replied[q] + 1]
        BY <1>5 DEF ConnReads
  <2>2. CASE c_writer # "run"
    <3>1. to_proxy' = to_proxy
          BY <1>5, <2>2 DEF ConnReads, ConnEnds, SendToProxy
    <3>2. \A p \in Players : p # q => replied'[p] = replied[p]
          BY <1>0, <2>1 DEF AgentShape
    <3>3. QED  BY <1>1, <1>2, <2>2, <3>1, <3>2
  <2>3. CASE c_writer = "run"
    <3>1. replied[q] + 1 \in 1 .. MaxReply
          BY <1>0, <1>5, WireAssumption DEF ConnReads, AgentShape, WireAssumption
    <3>2. AgentPacket(client_id[q], q, replied[q] + 1) \in GoodMessage
          BY <1>0, <1>1, <3>1, AgentMessages DEF ConnHasId
    <3>3. to_proxy' = to_proxy \o <<AgentPacket(client_id[q], q, replied[q] + 1)>>
          BY <1>5, <2>3 DEF ConnReads, SendToProxy
    <3>4. to_proxy' = Append(to_proxy, AgentPacket(client_id[q], q, replied[q] + 1))
          BY <1>0, <3>2, <3>3, SendsInTurn DEF AgentShape
    <3>5. QED  BY <1>1, <1>2, <2>1, <2>3, <3>2, <3>4
  <2>4. QED  BY <2>2, <2>3
<1>6. QED  BY <1>3, <1>4, <1>5 DEF ConnNext

\* What the reader of the client sends to the writer: pings.
LEMMA ReaderSends ==
    ASSUME TunnelInv, AgentReaderNext
    PROVE  /\ UNCHANGED <<c_writer, toServer, replied>>
           /\ to_proxy' = to_proxy \/ to_proxy' = Append(to_proxy, Ping)
<1>0. to_proxy \in Seq(GoodMessage)
      BY DEF TunnelInv, AgentInv, AgentShape
<1> USE DEF wireVars, agentVars, clientVars, connVars
<1>1. UNCHANGED <<c_writer, toServer, replied>>
      BY Zenon DEF AgentReaderNext, AgentJoin, AgentData, AgentDisconnect, AgentPong,
         AgentReaderFails, AgentReaderClosed, AgentTakesDisconnect, AgentWriterGone, AgentPings
<1>2. to_proxy' = to_proxy \/ to_proxy' = to_proxy \o <<Ping>>
      BY Zenon DEF AgentReaderNext, AgentJoin, AgentData, AgentDisconnect, AgentPong,
         AgentReaderFails, AgentReaderClosed, AgentTakesDisconnect, AgentWriterGone, AgentPings,
         SendToProxy
<1>3. to_proxy \o <<Ping>> = Append(to_proxy, Ping)
      BY <1>0, AgentMessages, SendsInTurn
<1>4. QED  BY <1>1, <1>2, <1>3, Zenon

\* What the writer of the client does: it forwards data, sends something else, or ends.
LEMMA WriterSends ==
    ASSUME TunnelInv, AgentWriterNext, ~ AgentWritesPacket
    PROVE  \/ /\ to_proxy # <<>> /\ Head(to_proxy).type # "Packet" /\ to_proxy' = Tail(to_proxy)
              /\ c_writer' = c_writer
              /\ \E k \in SocketPacket : k.type # "ProxyData" /\ toServer' = Append(toServer, k)
           \/ to_proxy' = <<>> /\ c_writer' = "ended" /\ toServer' = toServer
<1>0. AgentShape
      BY DEF TunnelInv, AgentInv
<1>1. CASE AgentWritesPing
  <2>1. ProxyPing \in SocketPacket /\ ProxyPing.type # "ProxyData"
        BY PacketTypes DEF ProxyPing
  <2>2. QED  BY <1>1, <2>1 DEF AgentWritesPing, AgentWriterTakes
<1>2. CASE AgentWritesDisconnect /\ c_reader = "run"
  <2>1. Head(to_proxy).id \in WireID \cup {NoID}
        BY <1>0, <1>2, ChannelTypes, GoodTypes
        DEF AgentShape, AgentWritesDisconnect, AgentWriterTakes
  <2>2. /\ ProxyDisconnect(Head(to_proxy).id) \in SocketPacket
        /\ ProxyDisconnect(Head(to_proxy).id).type # "ProxyData"
        BY <2>1, PacketTypes DEF ProxyDisconnect
  <2>3. QED  BY <1>2, <2>2 DEF AgentWritesDisconnect, AgentWriterTakes
<1>3. CASE \/ AgentWritesDisconnect /\ c_reader # "run"
           \/ AgentWriterDies \/ AgentWriterFails \/ AgentWriterAborted
      BY <1>3 DEF AgentWritesDisconnect, AgentWriterDies, AgentWriterFails,
         AgentWriterAborted, AgentWriterEnds
<1>4. QED  BY <1>1, <1>2, <1>3 DEF AgentWriterNext

\* No connection of an earlier tunnel sends anything.
Silent == \A p \in Players : Over(p) => replied'[p] = replied[p]

\* A player without a connection is sent nothing.
LEMMA NewSilent ==
    ASSUME TunnelInv, [TunnelNext]_tunnelVars, NEW p \in Players, conn[p] = "none"
    PROVE  replied'[p] = replied[p]
<1>1. ASSUME NEW q \in Players, ConnNext(q) PROVE replied'[p] = replied[p]
  <2>1. q # p
        BY <1>1, ConnSends
  <2>2. replied \in [Players -> Nat]
        BY WireAssumption DEF TunnelInv, AgentInv, AgentShape, WireAssumption
  <2>3. \/ replied' = [replied EXCEPT ![q] = replied[q] + 1]
        \/ \A r \in Players : r # q => replied'[r] = replied[r]
        BY <1>1, ConnSends
  <2>4. QED  BY <2>1, <2>2, <2>3
<1>2. CASE AgentReaderNext
      BY <1>2, ReaderSends
<1>3. CASE AgentWriterNext
      BY <1>3, Zenon DEF AgentWriterNext, AgentWritesPacket, AgentWritesDisconnect,
         AgentWriterDies, AgentWritesPing, AgentWriterFails, AgentWriterAborted, connVars
<1>4. CASE UNCHANGED agentVars
      BY <1>4 DEF agentVars, connVars
<1>5. QED
      BY <1>1, <1>2, <1>3, <1>4
      DEF TunnelNext, ServerStep, AgentStep, AgentNext, LinkStep, TunnelFinished, tunnelVars

\* Replies carry the id of their player: a connection has it from its join.
LEMMA RepliesStep ==
    ASSUME TunnelInv, JoinInv, RepliesOwned, [TunnelNext]_tunnelVars, Silent
    PROVE  RepliesOwned'
<1>0. DataOK /\ AgentShape
      BY TypeParts DEF TunnelInv, IInv, AgentInv
<1>1. ASSUME NEW m, Owned(m) PROVE Owned(m)'
      BY <1>1, IdsStay DEF Owned
<1>2. ASSUME \A m \in ToSet(to_proxy') :
                m.type = "Packet" => m \in ToSet(to_proxy) \/ Owned(m),
             \A m \in ToSet(toServer') :
                m.type = "ProxyData" => m \in ToSet(toServer) \/ Owned(m)
      PROVE  RepliesOwned'
  <2>1. ASSUME NEW m \in ToSet(to_proxy'), m.type = "Packet" PROVE Owned(m)'
        BY <1>1, <1>2, <2>1 DEF RepliesOwned
  <2>2. ASSUME NEW m \in ToSet(toServer'), m.type = "ProxyData" PROVE Owned(m)'
        BY <1>1, <1>2, <2>2 DEF RepliesOwned
  <2>3. QED  BY <2>1, <2>2 DEF RepliesOwned
<1>3. CASE ServerStep
  <2>1. to_proxy' = to_proxy
        BY <1>3 DEF ServerStep, agentVars, clientVars
  <2>2. toServer' = toServer \/ (toServer # <<>> /\ toServer' = Tail(toServer))
    <3> USE DEF wireVars
    <3>1. CASE ReaderNext
          BY <3>1 DEF ReaderNext, ReaderDisconnect, ReaderData, ReaderPing,
             ReaderUnexpected, ReaderClosed, ReaderFails, ReaderReceives
    <3>2. CASE WriterNext \/ HandleNext
          BY <3>2, Zenon DEF WriterNext, WriterAdd, WriterTooManyClients, WriterPacket,
             WriterPong, WriterRemove, WriterFails, HandleNext, HandleSelect, HandleReturns,
             ReaderAborted, WriterAborted
    <3>3. ASSUME NEW p \in Players, PlayerNext(p) PROVE toServer' = toServer
          BY <3>3, Zenon DEF PlayerNext, PlayerConnect, PlayerStart, PlayerNoId, PlayerReads,
             PlayerLeaves, PlayerWrites, PlayerWriteFails, PlayerChannelClosed, PlayerEnds,
             PlayerAborted
    <3>4. QED  BY <1>3, <3>1, <3>2, <3>3 DEF ServerStep, ServerNext
  <2>3. ToSet(toServer') \subseteq ToSet(toServer)
        BY <1>0, <2>2, ToSetTail DEF DataOK
  <2>4. QED  BY <1>2, <2>1, <2>3
<1>4. CASE AgentStep /\ AgentReaderNext
  <2>1. toServer' = toServer /\ (to_proxy' = to_proxy \/ to_proxy' = Append(to_proxy, Ping))
        BY <1>4, ReaderSends
  <2>2. ToSet(to_proxy') \subseteq ToSet(to_proxy) \cup {Ping}
        BY <1>0, <2>1, AgentMessages, ToSetAppend DEF AgentShape
  <2>3. QED  BY <1>2, <2>1, <2>2, AgentKinds
<1>5. CASE AgentStep /\ AgentWritesPacket
  <2> DEFINE m == Head(to_proxy)
             k == ProxyData(m.id, m.who, m.n)
  <2>1. /\ to_proxy # <<>> /\ m.type = "Packet" /\ to_proxy' = Tail(to_proxy)
        /\ toServer' = Append(toServer, k)
        BY <1>5 DEF AgentWritesPacket, AgentWriterTakes
  <2>2. ToSet(to_proxy) = ToSet(to_proxy') \cup {m} /\ m \in GoodMessage
        BY <1>0, <2>1, ToSetTail, ChannelTypes DEF AgentShape
  <2>3. k \in SocketPacket
        BY <2>2, GoodTypes, PacketTypes
  <2>4. Owned(m)
        BY <2>1, <2>2 DEF RepliesOwned
  <2>5. Owned(k)
        BY <2>4 DEF Owned, ProxyData
  <2> HIDE DEF k, m
  <2>6. ToSet(toServer') = ToSet(toServer) \cup {k}
        BY <1>0, <2>1, <2>3, ToSetAppend DEF DataOK
  <2>7. QED  BY <1>2, <2>2, <2>5, <2>6
<1>6. CASE AgentStep /\ AgentWriterNext /\ ~ AgentWritesPacket
  <2>1. CASE to_proxy' = <<>> /\ toServer' = toServer
        BY <1>2, <2>1, ToSetEmpty
  <2>2. ASSUME to_proxy # <<>>, to_proxy' = Tail(to_proxy), NEW k \in SocketPacket,
               k.type # "ProxyData", toServer' = Append(toServer, k)
        PROVE  RepliesOwned'
    <3>1. ToSet(to_proxy') \subseteq ToSet(to_proxy)
          BY <1>0, <2>2, ToSetTail DEF AgentShape
    <3>2. ToSet(toServer') = ToSet(toServer) \cup {k}
          BY <1>0, <2>2, ToSetAppend DEF DataOK
    <3>3. QED  BY <1>2, <2>2, <3>1, <3>2
  <2>3. QED  BY <1>6, <2>1, <2>2, WriterSends
<1>7. ASSUME AgentStep, NEW q \in Players, ConnNext(q) PROVE RepliesOwned'
  <2> DEFINE x == AgentRemove(client_id[q])
             k == AgentPacket(client_id[q], q, replied[q] + 1)
  <2>1. /\ toServer' = toServer /\ conn[q] # "none" /\ x \in GoodMessage
        /\ Death \in GoodMessage
        /\ \/ to_proxy' = to_proxy \/ to_proxy' = Append(to_proxy, x)
           \/ to_proxy' = Append(Append(to_proxy, Death), x)
           \/ /\ k \in GoodMessage /\ to_proxy' = Append(to_proxy, k)
              /\ replied' = [replied EXCEPT ![q] = replied[q] + 1]
        BY <1>7, ConnSends
  <2>2. x.type # "Packet" /\ Death.type # "Packet"
        BY AgentKinds
  <2>3. replied' = [replied EXCEPT ![q] = replied[q] + 1] => Owned(k)
    <3>1. SUFFICES ASSUME replied' = [replied EXCEPT ![q] = replied[q] + 1] PROVE Owned(k)
          OBVIOUS
    <3>2. replied'[q] # replied[q]
          BY <1>0, <3>1 DEF AgentShape
    <3>3. id[q] \in ClientID /\ client_id[q] = id[q]
          BY <2>1, <3>2 DEF JoinInv, ConnTold, Silent
    <3>4. QED  BY <3>3, IdTypes, AgentKinds DEF Owned
  <2> HIDE DEF x, k
  <2>4. /\ ToSet(Append(to_proxy, x)) = ToSet(to_proxy) \cup {x}
        /\ ToSet(Append(Append(to_proxy, Death), x)) = ToSet(to_proxy) \cup {Death, x}
    <3> DEFINE t == Append(to_proxy, Death)
    <3>1. t \in Seq(GoodMessage) /\ ToSet(t) = ToSet(to_proxy) \cup {Death}
          BY <1>0, <2>1, ToSetAppend, ChannelTypes DEF AgentShape
    <3>2. ToSet(Append(to_proxy, x)) = ToSet(to_proxy) \cup {x}
          BY <1>0, <2>1, ToSetAppend DEF AgentShape
    <3> HIDE DEF t
    <3>3. ToSet(Append(t, x)) = ToSet(t) \cup {x}
          BY <2>1, <3>1, ToSetAppend
    <3>4. QED  BY <3>1, <3>2, <3>3 DEF t
  <2>5. k \in GoodMessage => ToSet(Append(to_proxy, k)) = ToSet(to_proxy) \cup {k}
        BY <1>0, ToSetAppend DEF AgentShape
  <2>6. \/ ToSet(to_proxy') \subseteq ToSet(to_proxy) \cup {Death, x}
        \/ Owned(k) /\ ToSet(to_proxy') \subseteq ToSet(to_proxy) \cup {k}
    <3> DEFINE T == ToSet(to_proxy)
               U == ToSet(to_proxy')
    <3>1. \/ U = T \/ U = T \cup {x} \/ U = T \cup {Death, x}
          \/ Owned(k) /\ U = T \cup {k}
          BY <2>1, <2>3, <2>4, <2>5, Zenon
    <3> HIDE DEF T, U
    <3>2. U \subseteq T \cup {Death, x} \/ (Owned(k) /\ U \subseteq T \cup {k})
          BY <3>1
    <3>3. QED  BY <3>2 DEF T, U
  <2>7. QED  BY <1>2, <2>1, <2>2, <2>6
<1>8. CASE LinkStep \/ TunnelFinished \/ UNCHANGED tunnelVars
  <2>1. UNCHANGED <<toServer, to_proxy>>
        BY <1>8, Zenon DEF LinkStep, LinkBreaks, TunnelFinished, Finished, tunnelVars, vars,
           wireVars, agentVars, clientVars
  <2>2. QED  BY <1>2, <2>1
<1>9. QED  BY <1>3, <1>4, <1>5, <1>6, <1>7, <1>8 DEF TunnelNext, AgentStep, AgentNext

\* What the steps of the client do to the bytes for a player.
LEMMA DownAgent ==
    ASSUME TunnelInv, AgentNext, UNCHANGED serverVars, NEW p \in Players, DownOK(p),
           DownAlive(p)' => DownAlive(p)
    PROVE  DownOK(p)'
<1>0. DataOK /\ AgentShape
      BY TypeParts DEF TunnelInv, IInv, AgentInv
<1>1. /\ UNCHANGED <<mcRx, rcvd>> /\ rcvd'[p] = rcvd[p]
      /\ Skip(mcRx[p], mcRx'[p], McData, OwnData(p))
      BY DEF serverVars, playerVars, Skip
<1>2. ASSUME NEW x \in GoodMessage, NEW y \in GoodMessage, x.type # "Packet" \/ x.who # p,
             y.type # "Packet" \/ y.who # p, UNCHANGED <<c_writer, toServer>>,
             c_writer = "run" => replied'[p] = replied[p],
             \/ to_proxy' = to_proxy \/ to_proxy' = Append(to_proxy, x)
             \/ to_proxy' = Append(Append(to_proxy, x), y)
      PROVE  DownOK(p)'
  <2>1. x \in GoodMessage \ ReplyData(p) /\ y \in GoodMessage \ ReplyData(p)
        BY <1>2 DEF ReplyData
  <2>2. KeepsNums(to_proxy, to_proxy', ReplyData(p))
    <3> DEFINE t == to_proxy'
               D == ReplyData(p)
    <3>1. to_proxy \in Seq(GoodMessage)
          BY <1>0 DEF AgentShape
    <3>2. t = to_proxy \/ t = Append(to_proxy, x) \/ t = Append(Append(to_proxy, x), y)
          BY <1>2
    <3> HIDE DEF t, D
    <3>3. x \in GoodMessage \ D /\ y \in GoodMessage \ D
          BY <2>1 DEF D
    <3>4. \A e \in GoodMessage : e.n \in Nat
          BY GoodTypes
    <3>5. KeepsNums(to_proxy, t, D)
          BY <3>1, <3>2, <3>3, <3>4, KeptSends
    <3>6. QED  BY <3>5 DEF t, D
  <2>3. Skip(toServer, toServer', SocketPacket, StreamData(p))
        BY <1>2 DEF Skip
  <2>4. QED  BY <1>1, <1>2, <2>2, <2>3, DownQuiet
<1>3. CASE AgentReaderNext
      BY <1>2, <1>3, ReaderSends, AgentMessages, AgentKinds
<1>4. CASE AgentWritesPacket /\ Head(to_proxy).who = p
      BY <1>1, <1>4, DownForwards
<1>5. ASSUME to_proxy # <<>>, to_proxy' = Tail(to_proxy), UNCHANGED <<c_writer, replied>>,
             Head(to_proxy).type # "Packet" \/ Head(to_proxy).who # p,
             NEW k \in SocketPacket, k.type # "ProxyData" \/ k.who # p,
             toServer' = Append(toServer, k)
      PROVE  DownOK(p)'
  <2>1. Skip(to_proxy, to_proxy', GoodMessage, ReplyData(p))
        BY <1>5 DEF Skip, ReplyData
  <2>2. KeepsNums(to_proxy, to_proxy', ReplyData(p))
        BY <1>0, <2>1, GoodTypes, SkipKeeps DEF AgentShape, KeepsNums
  <2>3. k \in SocketPacket \ StreamData(p)
        BY <1>5 DEF StreamData
  <2>4. Skip(toServer, toServer', SocketPacket, StreamData(p))
        BY <1>5, <2>3, Zenon DEF Skip
  <2>5. QED  BY <1>1, <1>5, <2>2, <2>4, DownQuiet
<1>6. CASE AgentWritesPacket /\ Head(to_proxy).who # p
  <2> DEFINE m == Head(to_proxy)
             k == ProxyData(m.id, m.who, m.n)
  <2>1. /\ to_proxy # <<>> /\ to_proxy' = Tail(to_proxy) /\ UNCHANGED <<c_writer, replied>>
        /\ m.who # p /\ toServer' = Append(toServer, k)
        BY <1>6 DEF AgentWritesPacket, AgentWriterTakes, connVars
  <2>2. m \in GoodMessage
        BY <1>0, <2>1, ChannelTypes DEF AgentShape
  <2>3. k \in SocketPacket /\ k.who # p
        BY <2>1, <2>2, GoodTypes, PacketTypes DEF ProxyData
  <2>4. QED  BY <1>5, <2>1, <2>3
<1>7. CASE AgentWriterNext /\ ~ AgentWritesPacket
  <2>1. replied' = replied
        BY <1>7, Zenon DEF AgentWriterNext, AgentWritesPacket, AgentWritesDisconnect,
           AgentWriterDies, AgentWritesPing, AgentWriterFails, AgentWriterAborted, connVars
  <2>2. CASE to_proxy' = <<>> /\ c_writer' = "ended" /\ toServer' = toServer
        BY <1>1, <2>2, DownCloses
  <2>3. QED  BY <1>5, <1>7, <2>1, <2>2, WriterSends
<1>8. ASSUME NEW q \in Players, ConnNext(q) PROVE DownOK(p)'
  <2> DEFINE x == AgentRemove(client_id[q])
             k == AgentPacket(client_id[q], q, replied[q] + 1)
  <2>1. /\ UNCHANGED <<c_writer, toServer>> /\ x \in GoodMessage /\ Death \in GoodMessage
        /\ \/ /\ \/ to_proxy' = to_proxy \/ to_proxy' = Append(to_proxy, x)
                 \/ to_proxy' = Append(Append(to_proxy, Death), x)
              /\ c_writer = "run" => replied' = replied
           \/ /\ c_writer = "run" /\ replied' = [replied EXCEPT ![q] = replied[q] + 1]
              /\ k \in GoodMessage /\ to_proxy' = Append(to_proxy, k)
        BY <1>8, ConnSends
  <2>2. x.type # "Packet" /\ Death.type # "Packet"
        BY AgentKinds
  <2>3. CASE /\ \/ to_proxy' = to_proxy \/ to_proxy' = Append(to_proxy, x)
                \/ to_proxy' = Append(Append(to_proxy, Death), x)
             /\ c_writer = "run" => replied' = replied
    <3> HIDE DEF x
    <3>1. CASE to_proxy' = to_proxy \/ to_proxy' = Append(to_proxy, x)
          BY <1>2, <2>1, <2>2, <2>3, <3>1
    <3>2. CASE to_proxy' = Append(Append(to_proxy, Death), x)
          BY <1>2, <2>1, <2>2, <2>3, <3>2
    <3>3. QED  BY <2>3, <3>1, <3>2
  <2>4. CASE /\ c_writer = "run" /\ replied' = [replied EXCEPT ![q] = replied[q] + 1]
             /\ k \in GoodMessage /\ to_proxy' = Append(to_proxy, k)
    <3>1. CASE q = p
      <4>1. replied'[p] = replied[p] + 1
            BY <1>0, <2>4, <3>1 DEF AgentShape
      <4>2. QED  BY <1>1, <2>1, <2>4, <3>1, <4>1, DownSends
    <3>2. CASE q # p
      <4>1. replied'[p] = replied[p]
            BY <1>0, <2>4, <3>2 DEF AgentShape
      <4>2. k.who # p
            BY <3>2, AgentKinds
      <4> HIDE DEF k
      <4>3. QED  BY <1>2, <2>1, <2>4, <4>1, <4>2
    <3>3. QED  BY <3>1, <3>2
  <2>5. QED  BY <2>1, <2>3, <2>4
<1>9. QED  BY <1>3, <1>4, <1>6, <1>7, <1>8 DEF AgentNext, AgentWriterNext

\* The server's reader takes a data packet of the stream.
LEMMA DownReaderData ==
    ASSUME TunnelInv, RepliesOwned, ReaderData, UNCHANGED agentVars, NEW p \in Players,
           DownOK(p), DownAlive(p)' => DownAlive(p)
    PROVE  DownOK(p)'
<1>0. DataOK /\ Core
      BY TypeParts DEF TunnelInv, IInv
<1> DEFINE pkg == Head(toServer)
           q   == get_by_id(clients_id, pkg.id)
           e   == [who |-> pkg.who, n |-> pkg.n]
<1>1. /\ toServer # <<>> /\ pkg.type = "ProxyData" /\ toServer' = Tail(toServer)
      /\ UNCHANGED <<c_writer, to_proxy, replied, rcvd, mc, mcWriter, id, clients_id>>
      BY DEF ReaderData, ReaderReceives, agentVars, clientVars, connVars, sessionVars
<1>2. pkg \in SocketPacket /\ e \in McData /\ pkg \in ToSet(toServer)
      BY <1>0, <1>1, ChannelTypes, PacketTypes, ToSetTail DEF DataOK
<1>3. mcRx' = IF q # NoPlayer /\ McRxOpen(q)
              THEN [mcRx EXCEPT ![q] = Append(mcRx[q], e)] ELSE mcRx
      BY DEF ReaderData
<1>4. q \in Owner
      BY <1>0, IdTypes DEF DataOK, get_by_id
<1>5. mcRx'[p] = IF q = p /\ McRxOpen(p) THEN Append(mcRx[p], e) ELSE mcRx[p]
  <2>1. mcRx \in [Players -> Seq(McData)] /\ p # NoPlayer
        BY <1>0, WireAssumption DEF DataOK, WireAssumption
  <2> HIDE DEF q, e
  <2>2. CASE q # NoPlayer /\ McRxOpen(q)
    <3>1. q \in Players
          BY <1>4, <2>2 DEF Owner
    <3>2. QED  BY <1>3, <2>1, <2>2, <3>1
  <2>3. CASE ~ (q # NoPlayer /\ McRxOpen(q))
        BY <1>3, <2>1, <2>3
  <2>4. QED  BY <2>2, <2>3
<1> HIDE DEF e
<1>6. KeepsNums(to_proxy, to_proxy', ReplyData(p))
      BY <1>1 DEF KeepsNums
<1>7. CASE pkg.who # p
  <2>1. Skip(toServer, toServer', SocketPacket, StreamData(p))
        BY <1>1, <1>7 DEF Skip, StreamData
  <2>2. e \in McData \ OwnData(p)
        BY <1>2, <1>7 DEF OwnData, e
  <2>3. Skip(mcRx[p], mcRx'[p], McData, OwnData(p))
        BY <1>5, <2>2, Zenon DEF Skip
  <2>4. QED  BY <1>1, <1>6, <2>1, <2>3, DownQuiet
<1>8. CASE pkg.who = p
  <2>1. pkg.id = id[p] /\ id[p] \in ClientID /\ id[p] # NoID
        BY <1>0, <1>1, <1>2, <1>8 DEF RepliesOwned, Owned, DataOK
  <2>2. q = clients_id[id[p]] /\ mc[p] # "idle"
        BY <1>0, <2>1 DEF get_by_id, Core, SlotInv, IdKnown
  <2> HIDE DEF q
  <2>3. CASE DownAlive(p)
    <3>1. q = p /\ McRxOpen(p)
          BY <2>1, <2>2, <2>3 DEF DownAlive
    <3>2. mcRx'[p] = Append(mcRx[p], [who |-> p, n |-> pkg.n])
          BY <1>5, <1>8, <3>1 DEF e
    <3>3. pkg \in StreamData(p)
          BY <1>1, <1>2, <1>8 DEF StreamData
    <3>4. QED  BY <1>1, <2>3, <3>2, <3>3, DownDelivers
  <2>4. CASE ~ DownAlive(p)
    <3>1. mcRx'[p] = mcRx[p]
          BY <1>5, <2>2, <2>4 DEF DownAlive
    <3>2. QED  BY <1>1, <2>4, <3>1, DownEnds
  <2>5. QED  BY <2>3, <2>4
<1>9. QED  BY <1>7, <1>8

\* What the steps of the server do to the bytes for a player, and how they arrive.
LEMMA DownServer ==
    ASSUME TunnelInv, Fresh, RepliesOwned, ServerNext, UNCHANGED agentVars, NEW p \in Players,
           DownOK(p), DownAlive(p)' => DownAlive(p)
    PROVE  DownOK(p)' /\ rcvd'[p] \in {rcvd[p], rcvd[p] + 1}
<1>0. DataOK
      BY TypeParts DEF TunnelInv, IInv
<1>1. UNCHANGED <<c_writer, to_proxy, replied>> /\ KeepsNums(to_proxy, to_proxy', ReplyData(p))
      BY DEF agentVars, clientVars, connVars, KeepsNums
<1>2. ASSUME mcRx'[p] = mcRx[p], rcvd'[p] = rcvd[p],
             Skip(toServer, toServer', SocketPacket, StreamData(p))
      PROVE  DownOK(p)' /\ rcvd'[p] \in {rcvd[p], rcvd[p] + 1}
      BY <1>1, <1>2, DownQuiet DEF Skip
<1>3. CASE mcRx'[p] = mcRx[p] /\ rcvd'[p] = rcvd[p] /\ toServer' = toServer
      BY <1>2, <1>3 DEF Skip
<1> USE DEF wireVars, sessionVars, playerVars, serverVars
<1>4. CASE ReaderData
  <2>1. rcvd' = rcvd
        BY <1>4 DEF ReaderData
  <2>2. QED  BY <1>4, <2>1, DownReaderData
<1>5. CASE ReaderDisconnect \/ ReaderPing \/ ReaderUnexpected
  <2>1. /\ UNCHANGED <<mcRx, rcvd>> /\ toServer # <<>> /\ toServer' = Tail(toServer)
        /\ Head(toServer).type # "ProxyData"
        BY <1>5 DEF ReaderDisconnect, ReaderPing, ReaderUnexpected, ReaderReceives
  <2>2. Skip(toServer, toServer', SocketPacket, StreamData(p))
        BY <2>1 DEF Skip, StreamData
  <2>3. QED  BY <1>2, <2>1, <2>2
<1>6. CASE ReaderClosed \/ ReaderFails \/ WriterNext \/ HandleNext
  <2>1. UNCHANGED <<mcRx, rcvd, toServer>>
        BY <1>6, Zenon DEF ReaderClosed, ReaderFails, WriterNext, WriterAdd,
           WriterTooManyClients, WriterPacket, WriterPong, WriterRemove, WriterFails,
           HandleNext, HandleSelect, HandleReturns, ReaderAborted, WriterAborted
  <2>2. QED  BY <1>3, <2>1
<1>7. ASSUME NEW q \in Players, PlayerNext(q)
      PROVE  DownOK(p)' /\ rcvd'[p] \in {rcvd[p], rcvd[p] + 1}
  <2>1. CASE \/ PlayerConnect(q) \/ PlayerReads(q) \/ PlayerLeaves(q) \/ PlayerChannelClosed(q)
             \/ PlayerEnds(q) \/ (PlayerStart(q) /\ writer = "run")
    <3>1. UNCHANGED <<mcRx, rcvd, toServer>>
          BY <2>1, Zenon DEF PlayerConnect, PlayerReads, PlayerLeaves, PlayerChannelClosed,
             PlayerEnds, PlayerStart
    <3>2. QED  BY <1>3, <3>1
  <2>2. CASE \/ PlayerNoId(q) \/ PlayerWriteFails(q) \/ PlayerAborted(q)
             \/ (PlayerStart(q) /\ writer # "run")
    <3>1. mcRx' = [mcRx EXCEPT ![q] = <<>>] /\ UNCHANGED <<rcvd, toServer>>
          BY <2>2 DEF PlayerNoId, PlayerWriteFails, PlayerAborted, PlayerStart
    <3>2. mc'[q] \in {"running", "done"} /\ mcWriter'[q] # "run"
      <4>1. CASE PlayerNoId(q) \/ (PlayerStart(q) /\ writer # "run")
            BY <1>0, <4>1 DEF PlayerNoId, PlayerStart, Fresh, DataOK
      <4>2. CASE PlayerWriteFails(q) \/ PlayerAborted(q)
            BY <1>0, <4>2 DEF PlayerWriteFails, PlayerAborted, Fresh, DataOK
      <4>3. QED  BY <2>2, <4>1, <4>2
    <3>3. CASE q = p
      <4>1. mcRx'[p] = <<>>
            BY <1>0, <3>1, <3>3 DEF DataOK
      <4>2. ~ DownAlive(p)'
            BY <3>2, <3>3 DEF DownAlive, McRxOpen
      <4>3. QED  BY <3>1, <4>1, <4>2, DownEnds
    <3>4. CASE q # p
      <4>1. mcRx'[p] = mcRx[p]
            BY <1>0, <3>1, <3>4 DEF DataOK
      <4>2. QED  BY <1>3, <3>1, <4>1
    <3>5. QED  BY <3>3, <3>4
  <2>3. CASE PlayerWrites(q)
    <3>1. /\ mcRx[q] # <<>> /\ mcRx' = [mcRx EXCEPT ![q] = Tail(mcRx[q])]
          /\ rcvd' = IF Head(mcRx[q]).who = q
                     THEN [rcvd EXCEPT ![q] = Head(mcRx[q]).n] ELSE rcvd
          /\ toServer' = toServer
          BY <2>3 DEF PlayerWrites
    <3>2. Skip(toServer, toServer', SocketPacket, StreamData(p))
          BY <3>1 DEF Skip
    <3>3. CASE q # p
      <4>1. mcRx'[p] = mcRx[p] /\ rcvd'[p] = rcvd[p]
            BY <1>0, <3>1, <3>3 DEF DataOK
      <4>2. QED  BY <1>3, <3>1, <4>1
    <3>4. CASE q = p /\ Head(mcRx[q]).who # p
      <4>1. mcRx'[p] = Tail(mcRx[p]) /\ rcvd'[p] = rcvd[p]
            BY <1>0, <3>1, <3>4 DEF DataOK
      <4>2. Skip(mcRx[p], mcRx'[p], McData, OwnData(p))
            BY <3>1, <3>4, <4>1 DEF Skip, OwnData
      <4>3. QED  BY <1>1, <3>2, <4>1, <4>2, DownQuiet
    <3>5. CASE q = p /\ Head(mcRx[q]).who = p
      <4>1. mcRx'[p] = Tail(mcRx[p]) /\ rcvd'[p] = Head(mcRx[p]).n
            BY <1>0, <3>1, <3>5 DEF DataOK
      <4>2. DownOK(p)' /\ rcvd'[p] = rcvd[p] + 1
            BY <1>1, <3>1, <3>5, <4>1, DownArrives
      <4>3. QED  BY <4>2
    <3>6. QED  BY <3>3, <3>4, <3>5
  <2>4. QED  BY <1>7, <2>1, <2>2, <2>3 DEF PlayerNext
<1>8. QED  BY <1>4, <1>5, <1>6, <1>7 DEF ServerNext, ReaderNext

\* The invariant behind DownstreamInOrder.
DownInv == RepliesOwned /\ \A p \in Players : DownOK(p)

\* Every step of the tunnel keeps the bytes in order, and hands over the next one at most.
LEMMA DownStep ==
    ASSUME TunnelInv, Fresh, DownInv, [TunnelNext]_tunnelVars, NEW p \in Players
    PROVE  DownOK(p)' /\ rcvd'[p] \in {rcvd[p], rcvd[p] + 1}
<1>0. RepliesOwned /\ DownOK(p)
      BY DEF DownInv
<1>1. DownAlive(p)' => DownAlive(p)
      BY DownAliveStep
<1>2. CASE ServerStep
      BY <1>0, <1>1, <1>2, DownServer DEF ServerStep
<1>3. CASE AgentStep
  <2>1. rcvd' = rcvd
        BY <1>3 DEF AgentStep, serverVars, playerVars
  <2>2. QED  BY <1>0, <1>1, <1>3, <2>1, DownAgent DEF AgentStep
<1>4. CASE LinkStep \/ TunnelFinished \/ UNCHANGED tunnelVars
  <2>1. UNCHANGED <<toServer, to_proxy, c_writer, replied, mcRx, rcvd>>
        BY <1>4, Zenon DEF LinkStep, LinkBreaks, TunnelFinished, Finished, tunnelVars, vars,
           wireVars, serverVars, playerVars, agentVars, clientVars, connVars
  <2>2. QED  BY <1>0, <1>1, <2>1, DownQuiet DEF Skip, KeepsNums
<1>5. QED  BY <1>2, <1>3, <1>4 DEF TunnelNext

\* Nothing is under way at first.
LEMMA DownInit == ASSUME SessionInit, WireInit, HandleInit PROVE DownInv
<1>1. /\ toServer = <<>> /\ to_proxy = <<>> /\ replied = [p \in Players |-> 0]
      /\ mcRx = [p \in Players |-> <<>>] /\ rcvd = [p \in Players |-> 0]
      BY DEF WireInit, SessionInit, HandleInit
<1>2. RepliesOwned
      BY <1>1, ToSetEmpty DEF RepliesOwned
<1>3. ASSUME NEW p \in Players PROVE DownOK(p)
  <2>1. DownA(p) = {} /\ DownB(p) = {} /\ DownC(p) = {}
        BY <1>1, NumsEmpty DEF DownA, DownB, DownC
  <2>2. /\ Rising(mcRx[p], OwnData(p)) /\ Rising(toServer, StreamData(p))
        /\ Rising(to_proxy, ReplyData(p))
        BY <1>1, NumsEmpty
  <2>3. RunFrom({}, 0) /\ Flow({}, {}, {}, 0) /\ Full({}, {}, {}, 0, 0)
        BY DEF RunFrom, Flow, Full
  <2>4. QED  BY <1>1, <2>1, <2>2, <2>3 DEF DownOK
<1>4. QED  BY <1>2, <1>3 DEF DownInv

\* It holds in every state of the tunnel.
LEMMA DownInductive == TunnelSpec => []DownInv
<1>1. TunnelInv /\ UpInv /\ Told(Players) /\ DownInv /\ [TunnelNext]_tunnelVars => DownInv'
  <2> SUFFICES ASSUME TunnelInv, UpInv, Told(Players), DownInv, [TunnelNext]_tunnelVars
               PROVE  DownInv'
      OBVIOUS
  <2>1. Silent
        BY NewSilent DEF Told, Over, Silent
  <2>2. RepliesOwned'
        BY <2>1, RepliesStep DEF UpInv, DownInv
  <2>3. \A p \in Players : DownOK(p)'
        BY DownStep DEF UpInv
  <2>4. QED  BY <2>2, <2>3, Zenon DEF DownInv
<1>2. TunnelInit => DownInv
      BY DownInit DEF TunnelInit, ServerInit, AgentInit
<1>3. OrphanInv(Players) => Told(Players)
      BY DEF OrphanInv
<1>4. QED
      BY <1>1, <1>2, <1>3, TunnelInductive, UpInductive, OrphanInductive, PTL DEF TunnelSpec

\* The number of a message is one the player's Minecraft server has sent.
WasReplied(m) == m.who \in Players => m.n \in 0 .. replied[m.who]

\* Nothing waits, and nothing has reached a player, that was not sent to it.
RepliedBefore ==
    /\ \A m \in ToSet(to_proxy) : WasReplied(m)
    /\ \A m \in ToSet(toServer) : WasReplied(m)
    /\ \A q \in Players : \A m \in ToSet(mcRx[q]) : WasReplied(m)
    /\ \A p \in Players : rcvd[p] <= replied[p]

\* What the server's steps do to the stream, to the channels of the players and to
\* what has reached them.
LEMMA ServerMoves ==
    ASSUME TunnelInv, ServerNext
    PROVE  /\ toServer' = toServer \/ (toServer # <<>> /\ toServer' = Tail(toServer))
           /\ \/ UNCHANGED <<mcRx, rcvd>>
              \/ \E q \in Players :
                    \/ rcvd' = rcvd /\ mcRx' = [mcRx EXCEPT ![q] = <<>>]
                    \/ /\ toServer # <<>> /\ rcvd' = rcvd
                       /\ mcRx' = [mcRx EXCEPT ![q] = Append(mcRx[q],
                              [who |-> Head(toServer).who, n |-> Head(toServer).n])]
                    \/ /\ mcRx[q] # <<>>
                       /\ mcRx' = [mcRx EXCEPT ![q] = Tail(mcRx[q])]
                       /\ \/ rcvd' = rcvd
                          \/ /\ Head(mcRx[q]).who = q
                             /\ rcvd' = [rcvd EXCEPT ![q] = Head(mcRx[q]).n]
<1>0. DataOK
      BY TypeParts DEF TunnelInv, IInv
<1> USE DEF wireVars, sessionVars, playerVars, serverVars
<1>1. CASE ReaderData
  <2> DEFINE pkg == Head(toServer)
             q   == get_by_id(clients_id, pkg.id)
             e   == [who |-> pkg.who, n |-> pkg.n]
  <2>1. toServer # <<>> /\ toServer' = Tail(toServer) /\ rcvd' = rcvd
        BY <1>1 DEF ReaderData, ReaderReceives
  <2>2. \/ mcRx' = mcRx
        \/ q # NoPlayer /\ mcRx' = [mcRx EXCEPT ![q] = Append(mcRx[q], e)]
        BY <1>1 DEF ReaderData
  <2>3. q # NoPlayer => q \in Players
        BY <1>0 DEF DataOK, Owner, get_by_id
  <2> HIDE DEF q
  <2>4. QED  BY <2>1, <2>2, <2>3
<1>2. CASE ReaderNext /\ ~ ReaderData
  <2>1. /\ UNCHANGED <<mcRx, rcvd>>
        /\ toServer' = toServer \/ (toServer # <<>> /\ toServer' = Tail(toServer))
        BY <1>2 DEF ReaderNext, ReaderDisconnect, ReaderPing, ReaderUnexpected, ReaderClosed,
           ReaderFails, ReaderReceives
  <2>2. QED  BY <2>1
<1>3. CASE WriterNext \/ HandleNext
  <2>1. UNCHANGED <<mcRx, rcvd, toServer>>
        BY <1>3, Zenon DEF WriterNext, WriterAdd, WriterTooManyClients, WriterPacket,
           WriterPong, WriterRemove, WriterFails, HandleNext, HandleSelect, HandleReturns,
           ReaderAborted, WriterAborted
  <2>2. QED  BY <2>1
<1>4. ASSUME NEW q \in Players, PlayerNext(q), ~ PlayerWrites(q)
      PROVE  /\ toServer' = toServer /\ rcvd' = rcvd
             /\ mcRx' = mcRx \/ mcRx' = [mcRx EXCEPT ![q] = <<>>]
      BY <1>4, Zenon DEF PlayerNext, PlayerConnect, PlayerStart, PlayerNoId, PlayerReads,
         PlayerLeaves, PlayerWriteFails, PlayerChannelClosed, PlayerEnds, PlayerAborted
<1>5. ASSUME NEW q \in Players, PlayerWrites(q)
      PROVE  /\ toServer' = toServer /\ mcRx[q] # <<>>
             /\ mcRx' = [mcRx EXCEPT ![q] = Tail(mcRx[q])]
             /\ \/ rcvd' = rcvd
                \/ /\ Head(mcRx[q]).who = q
                   /\ rcvd' = [rcvd EXCEPT ![q] = Head(mcRx[q]).n]
      BY <1>5 DEF PlayerWrites
<1>6. QED  BY <1>1, <1>2, <1>3, <1>4, <1>5 DEF ServerNext

\* What the client's steps do to its channel and to the numbers: a Minecraft server
\* sends its next packet, or messages without data are sent, or one is taken, or all
\* are lost.
LEMMA ServersSend ==
    ASSUME TunnelInv, AgentNext
    PROVE  /\ \/ replied' = replied
              \/ \E q \in Players : replied' = [replied EXCEPT ![q] = replied[q] + 1]
           /\ \/ to_proxy' = <<>> \/ (to_proxy # <<>> /\ to_proxy' = Tail(to_proxy))
              \/ \E x, y \in GoodMessage :
                    /\ x.n = 0 /\ y.n = 0
                    /\ \/ to_proxy' = to_proxy \/ to_proxy' = Append(to_proxy, x)
                       \/ to_proxy' = Append(Append(to_proxy, x), y)
              \/ \E q \in Players :
                    /\ replied' = [replied EXCEPT ![q] = replied[q] + 1]
                    /\ \E m \in GoodMessage :
                          /\ m.who = q /\ m.n = replied[q] + 1
                          /\ to_proxy' = Append(to_proxy, m)
<1>1. Death.n = 0 /\ Ping.n = 0 /\ \A i : AgentRemove(i).n = 0
      BY DEF Death, Ping, AgentRemove
<1>2. CASE AgentReaderNext
      BY <1>1, <1>2, ReaderSends, AgentMessages
<1>3. CASE AgentWritesPacket
      BY <1>3 DEF AgentWritesPacket, AgentWriterTakes, connVars
<1>4. CASE AgentWriterNext /\ ~ AgentWritesPacket
  <2>1. replied' = replied
        BY <1>4, Zenon DEF AgentWriterNext, AgentWritesDisconnect, AgentWriterDies,
           AgentWritesPing, AgentWriterFails, AgentWriterAborted, connVars
  <2>2. QED  BY <1>4, <2>1, WriterSends
<1>5. ASSUME NEW q \in Players, ConnNext(q)
      PROVE  \/ replied' = replied
             \/ replied' = [replied EXCEPT ![q] = replied[q] + 1]
      BY <1>5 DEF ConnNext, ConnConnects, ConnConnectFails, ConnWrites, ConnChannelClosed,
         ConnReads, ConnBreaks
<1>6. ASSUME NEW q \in Players, ConnNext(q)
      PROVE  \/ \E x, y \in GoodMessage :
                   /\ x.n = 0 /\ y.n = 0
                   /\ \/ to_proxy' = to_proxy \/ to_proxy' = Append(to_proxy, x)
                      \/ to_proxy' = Append(Append(to_proxy, x), y)
             \/ /\ replied' = [replied EXCEPT ![q] = replied[q] + 1]
                /\ \E m \in GoodMessage :
                      /\ m.who = q /\ m.n = replied[q] + 1
                      /\ to_proxy' = Append(to_proxy, m)
  <2> DEFINE x == AgentRemove(client_id[q])
             k == AgentPacket(client_id[q], q, replied[q] + 1)
  <2>1. /\ x \in GoodMessage /\ Death \in GoodMessage
        /\ \/ to_proxy' = to_proxy \/ to_proxy' = Append(to_proxy, x)
           \/ to_proxy' = Append(Append(to_proxy, Death), x)
           \/ /\ replied' = [replied EXCEPT ![q] = replied[q] + 1]
              /\ k \in GoodMessage /\ to_proxy' = Append(to_proxy, k)
        BY <1>6, ConnSends
  <2>2. x.n = 0 /\ k.who = q /\ k.n = replied[q] + 1
        BY <1>1, AgentKinds
  <2> HIDE DEF x, k
  <2>3. QED  BY <1>1, <2>1, <2>2
<1>7. QED  BY <1>2, <1>3, <1>4, <1>5, <1>6 DEF AgentNext

\* What the client puts on the stream: a message without data, or the packet at the
\* head of its channel.
LEMMA ClientPuts ==
    ASSUME TunnelInv, AgentNext
    PROVE  \/ toServer' = toServer
           \/ \E k \in SocketPacket :
                 /\ toServer' = Append(toServer, k)
                 /\ \/ k.n = 0
                    \/ to_proxy # <<>> /\ k.who = Head(to_proxy).who /\ k.n = Head(to_proxy).n
<1>0. AgentShape
      BY DEF TunnelInv, AgentInv
<1> USE DEF wireVars
<1>1. CASE toServer' = toServer
      BY <1>1
<1>2. CASE AgentWritesPacket
  <2>1. to_proxy # <<>> /\ Head(to_proxy) \in GoodMessage
        BY <1>0, <1>2, ChannelTypes DEF AgentWritesPacket, AgentWriterTakes, AgentShape
  <2>2. ProxyData(Head(to_proxy).id, Head(to_proxy).who, Head(to_proxy).n) \in SocketPacket
        BY <2>1, GoodTypes, PacketTypes
  <2>3. QED  BY <1>2, <2>1, <2>2, ZeroNumbers DEF AgentWritesPacket
<1>3. ASSUME ~ AgentWritesPacket, toServer' # toServer
      PROVE  \E k \in SocketPacket : toServer' = Append(toServer, k) /\ k.n = 0
  <2>1. AgentWritesDisconnect \/ AgentWritesPing
    <3>1. ~ AgentReaderNext
          BY <1>3, ReaderSends
    <3>2. \A q \in Players : ~ ConnNext(q)
          BY <1>3, ConnSends
    <3>3. QED
          BY <1>3, <3>1, <3>2, Zenon DEF AgentNext, AgentWriterNext, AgentWriterDies,
             AgentWriterFails, AgentWriterAborted
  <2>2. Head(to_proxy).id \in WireID \cup {NoID}
        BY <1>0, <2>1, ChannelTypes, GoodTypes
        DEF AgentShape, AgentWritesDisconnect, AgentWritesPing, AgentWriterTakes
  <2>3. CASE AgentWritesDisconnect
        BY <1>3, <2>2, <2>3, PacketTypes, ZeroNumbers DEF AgentWritesDisconnect
  <2>4. CASE AgentWritesPing
        BY <2>4, PacketTypes, ZeroNumbers DEF AgentWritesPing
  <2>5. QED  BY <2>1, <2>3, <2>4
<1>4. QED  BY <1>1, <1>2, <1>3

\* Nothing is sent to a player or reaches it that its Minecraft server has not sent.
LEMMA RepliedStep ==
    ASSUME TunnelInv, RepliedBefore, [TunnelNext]_tunnelVars
    PROVE  RepliedBefore'
<1>0. DataOK /\ AgentShape
      BY TypeParts DEF TunnelInv, IInv, AgentInv
<1>1. \A p \in Players : replied[p] \in Nat
      BY <1>0 DEF AgentShape
<1>2. \A m : m.n = 0 => WasReplied(m)
      BY <1>1 DEF WasReplied
<1>3. CASE AgentStep
  <2>1. UNCHANGED <<mcRx, rcvd>>
        BY <1>3 DEF AgentStep, serverVars, playerVars
  <2>2. \A m \in ToSet(toServer') : WasReplied(m)
    <3>1. ASSUME NEW k \in SocketPacket, toServer' = Append(toServer, k), WasReplied(k)
          PROVE  \A m \in ToSet(toServer') : WasReplied(m)
      <4>1. ToSet(toServer') = ToSet(toServer) \cup {k}
            BY <1>0, <3>1, ToSetAppend DEF DataOK
      <4>2. QED  BY <3>1, <4>1 DEF RepliedBefore
    <3>2. to_proxy # <<>> => WasReplied(Head(to_proxy))
      <4>1. to_proxy # <<>> => Head(to_proxy) \in ToSet(to_proxy)
            BY <1>0, ToSetTail DEF AgentShape
      <4>2. QED  BY <4>1 DEF RepliedBefore
    <3>3. ASSUME NEW k \in SocketPacket, to_proxy # <<>>, k.who = Head(to_proxy).who,
                 k.n = Head(to_proxy).n
          PROVE  WasReplied(k)
          BY <3>2, <3>3 DEF WasReplied
    <3>4. CASE toServer' = toServer
          BY <3>4 DEF RepliedBefore
    <3>5. QED  BY <1>2, <1>3, <3>1, <3>3, <3>4, ClientPuts DEF AgentStep
  <2>3. \A p \in Players : replied'[p] \in Nat /\ replied[p] <= replied'[p]
    <3>1. CASE replied' = replied
          BY <1>1, <3>1
    <3>2. ASSUME NEW q \in Players, replied' = [replied EXCEPT ![q] = replied[q] + 1]
          PROVE  \A p \in Players : replied'[p] \in Nat /\ replied[p] <= replied'[p]
          BY <1>0, <1>1, <3>2 DEF AgentShape
    <3>3. QED  BY <1>3, <3>1, <3>2, ServersSend DEF AgentStep
  <2>4. ASSUME NEW m, WasReplied(m) PROVE WasReplied(m)'
        BY <1>1, <2>3, <2>4 DEF WasReplied
  <2>5. \A m \in ToSet(to_proxy') : WasReplied(m)'
    <3>0. to_proxy \in Seq(GoodMessage)
          BY <1>0 DEF AgentShape
    <3>1. CASE to_proxy' = <<>> \/ (to_proxy # <<>> /\ to_proxy' = Tail(to_proxy))
      <4>1. ToSet(to_proxy') \subseteq ToSet(to_proxy)
            BY <3>0, <3>1, ToSetTail, ToSetEmpty
      <4>2. QED  BY <2>4, <4>1 DEF RepliedBefore
    <3>2. ASSUME NEW x \in GoodMessage, NEW y \in GoodMessage, x.n = 0, y.n = 0,
                 \/ to_proxy' = to_proxy \/ to_proxy' = Append(to_proxy, x)
                 \/ to_proxy' = Append(Append(to_proxy, x), y)
          PROVE  \A m \in ToSet(to_proxy') : WasReplied(m)'
      <4> DEFINE t == Append(to_proxy, x)
      <4>1. t \in Seq(GoodMessage) /\ ToSet(t) = ToSet(to_proxy) \cup {x}
            BY <3>0, <3>2, ToSetAppend, ChannelTypes
      <4>2. to_proxy' = to_proxy \/ to_proxy' = t \/ to_proxy' = Append(t, y)
            BY <3>2
      <4> HIDE DEF t
      <4>3. ToSet(Append(t, y)) = ToSet(t) \cup {y}
            BY <3>2, <4>1, ToSetAppend
      <4>4. ToSet(to_proxy') \subseteq ToSet(to_proxy) \cup {x, y}
            BY <4>1, <4>2, <4>3
      <4>5. \A m \in ToSet(to_proxy) \cup {x, y} : WasReplied(m)
            BY <1>2, <3>2 DEF RepliedBefore
      <4>6. QED  BY <2>4, <4>4, <4>5
    <3>3. ASSUME NEW q \in Players, replied' = [replied EXCEPT ![q] = replied[q] + 1],
                 NEW k \in GoodMessage, k.who = q, k.n = replied[q] + 1,
                 to_proxy' = Append(to_proxy, k)
          PROVE  \A m \in ToSet(to_proxy') : WasReplied(m)'
      <4>1. k.who = q /\ k.n = replied'[q]
            BY <1>0, <3>3 DEF AgentShape
      <4>2. WasReplied(k)'
            BY <2>3, <4>1 DEF WasReplied
      <4>3. ToSet(to_proxy') = ToSet(to_proxy) \cup {k}
            BY <3>0, <3>3, ToSetAppend
      <4>4. QED  BY <2>4, <4>2, <4>3 DEF RepliedBefore
    <3>4. QED  BY <1>3, <3>1, <3>2, <3>3, ServersSend DEF AgentStep
  <2>6. \A p \in Players : rcvd'[p] <= replied'[p]
    <3>1. \A p \in Players : rcvd[p] \in Nat /\ rcvd[p] <= replied[p]
          BY <1>0 DEF DataOK, RepliedBefore
    <3>2. QED  BY <1>1, <2>1, <2>3, <3>1
  <2>7. QED  BY <2>1, <2>2, <2>4, <2>5, <2>6 DEF RepliedBefore
<1>4. CASE ServerStep
  <2>1. UNCHANGED <<to_proxy, replied>> /\ \A m : WasReplied(m)' <=> WasReplied(m)
        BY <1>4 DEF ServerStep, agentVars, clientVars, connVars, WasReplied
  <2>2. /\ ToSet(toServer') \subseteq ToSet(toServer)
        /\ toServer # <<>> => Head(toServer) \in ToSet(toServer)
    <3>1. toServer \in Seq(SocketPacket)
          BY <1>0 DEF DataOK
    <3>2. toServer' = toServer \/ (toServer # <<>> /\ toServer' = Tail(toServer))
          BY <1>4, ServerMoves DEF ServerStep
    <3>3. QED  BY <3>1, <3>2, ToSetTail
  <2>3. ASSUME \A q \in Players : \A m \in ToSet(mcRx'[q]) : WasReplied(m),
               \A p \in Players : rcvd'[p] <= replied[p]
        PROVE  RepliedBefore'
        BY <2>1, <2>2, <2>3 DEF RepliedBefore
  <2>4. CASE UNCHANGED <<mcRx, rcvd>>
        BY <2>3, <2>4 DEF RepliedBefore
  <2>5. ASSUME NEW q \in Players, NEW t,
               \A m \in ToSet(t) : WasReplied(m),
               mcRx' = [mcRx EXCEPT ![q] = t],
               \A p \in Players : rcvd'[p] <= replied[p]
        PROVE  RepliedBefore'
    <3>1. \A p \in Players : mcRx'[p] = IF p = q THEN t ELSE mcRx[p]
          BY <1>0, <2>5 DEF DataOK
    <3>2. QED  BY <2>3, <2>5, <3>1 DEF RepliedBefore
  <2>6. ASSUME NEW q \in Players PROVE mcRx[q] \in Seq(McData)
        BY <1>0 DEF DataOK
  <2>7. ASSUME NEW q \in Players, rcvd' = rcvd, mcRx' = [mcRx EXCEPT ![q] = <<>>]
        PROVE  RepliedBefore'
        BY <2>5, <2>7, ToSetEmpty DEF RepliedBefore
  <2>8. ASSUME NEW q \in Players, toServer # <<>>, rcvd' = rcvd,
               mcRx' = [mcRx EXCEPT ![q] = Append(mcRx[q],
                           [who |-> Head(toServer).who, n |-> Head(toServer).n])]
        PROVE  RepliedBefore'
    <3> DEFINE e == [who |-> Head(toServer).who, n |-> Head(toServer).n]
    <3>1. e \in McData
          BY <1>0, <2>8, ChannelTypes, PacketTypes DEF DataOK
    <3>2. WasReplied(e)
          BY <2>2, <2>8 DEF RepliedBefore, WasReplied
    <3> HIDE DEF e
    <3>3. ToSet(Append(mcRx[q], e)) = ToSet(mcRx[q]) \cup {e}
          BY <2>6, <3>1, ToSetAppend
    <3>4. \A m \in ToSet(Append(mcRx[q], e)) : WasReplied(m)
          BY <3>2, <3>3 DEF RepliedBefore
    <3>5. mcRx' = [mcRx EXCEPT ![q] = Append(mcRx[q], e)]
          BY <2>8 DEF e
    <3>6. QED  BY <2>5, <2>8, <3>4, <3>5 DEF RepliedBefore
  <2>9. ASSUME NEW q \in Players, mcRx[q] # <<>>,
               mcRx' = [mcRx EXCEPT ![q] = Tail(mcRx[q])],
               \/ rcvd' = rcvd
               \/ Head(mcRx[q]).who = q /\ rcvd' = [rcvd EXCEPT ![q] = Head(mcRx[q]).n]
        PROVE  RepliedBefore'
    <3>1. /\ ToSet(Tail(mcRx[q])) \subseteq ToSet(mcRx[q])
          /\ Head(mcRx[q]) \in ToSet(mcRx[q])
          BY <2>6, <2>9, ToSetTail
    <3>2. WasReplied(Head(mcRx[q])) /\ \A m \in ToSet(Tail(mcRx[q])) : WasReplied(m)
          BY <3>1 DEF RepliedBefore
    <3>3. \A p \in Players : rcvd'[p] <= replied[p]
      <4>1. CASE rcvd' = rcvd
            BY <4>1 DEF RepliedBefore
      <4>2. CASE Head(mcRx[q]).who = q /\ rcvd' = [rcvd EXCEPT ![q] = Head(mcRx[q]).n]
        <5>1. Head(mcRx[q]).n <= replied[q]
              BY <1>1, <3>2, <4>2 DEF WasReplied
        <5>2. \A p \in Players : rcvd'[p] = IF p = q THEN Head(mcRx[q]).n ELSE rcvd[p]
              BY <1>0, <4>2 DEF DataOK
        <5>3. QED  BY <5>1, <5>2 DEF RepliedBefore
      <4>3. QED  BY <2>9, <4>1, <4>2
    <3>4. QED  BY <2>5, <2>9, <3>2, <3>3
  <2>10. QED
         BY <1>4, <2>4, <2>7, <2>8, <2>9, ServerMoves DEF ServerStep
<1>5. CASE LinkStep \/ TunnelFinished \/ UNCHANGED tunnelVars
  <2>1. UNCHANGED <<toServer, to_proxy, replied, mcRx, rcvd>>
        BY <1>5, Zenon DEF LinkStep, LinkBreaks, TunnelFinished, Finished, tunnelVars, vars,
           wireVars, serverVars, playerVars, agentVars, clientVars, connVars
  <2>2. QED  BY <2>1 DEF RepliedBefore, WasReplied
<1>6. QED  BY <1>3, <1>4, <1>5 DEF TunnelNext

\* Every step of the tunnel is a step of the pipe from the Minecraft servers to the
\* players, or leaves its ends alone.
LEMMA DownSimulation ==
    ASSUME TunnelInv, Fresh, DownInv, RepliedBefore, [TunnelNext]_tunnelVars
    PROVE  [Down!Next]_<<replied, rcvd>>
<1>0. DataOK /\ AgentShape
      BY TypeParts DEF TunnelInv, IInv, AgentInv
<1>1. CASE AgentStep
  <2>1. rcvd' = rcvd
        BY <1>1 DEF AgentStep, serverVars, playerVars
  <2>2. \/ replied' = replied
        \/ \E q \in Players : replied' = [replied EXCEPT ![q] = replied[q] + 1]
        BY <1>1, ServersSend DEF AgentStep
  <2>3. QED  BY <2>1, <2>2 DEF Down!Next, Down!Send
<1>2. CASE ServerStep
  <2>1. replied' = replied
        BY <1>2 DEF ServerStep, agentVars, connVars
  <2>2. CASE rcvd' = rcvd
        BY <2>1, <2>2
  <2>3. ASSUME NEW q \in Players, mcRx[q] # <<>>, Head(mcRx[q]).who = q,
               rcvd' = [rcvd EXCEPT ![q] = Head(mcRx[q]).n]
        PROVE  [Down!Next]_<<replied, rcvd>>
    <3>1. WasReplied(Head(mcRx[q]))
      <4>1. mcRx[q] \in Seq(McData)
            BY <1>0 DEF DataOK
      <4>2. Head(mcRx[q]) \in ToSet(mcRx[q])
            BY <2>3, <4>1, ToSetTail
      <4>3. QED  BY <4>2 DEF RepliedBefore
    <3>2. rcvd'[q] = Head(mcRx[q]).n /\ rcvd'[q] \in 0 .. replied[q]
          BY <1>0, <2>3, <3>1 DEF DataOK, WasReplied
    <3>3. rcvd'[q] \in {rcvd[q], rcvd[q] + 1}
          BY DownStep
    <3>4. CASE rcvd'[q] = rcvd[q]
      <4>1. rcvd' = rcvd
            BY <1>0, <2>3, <3>2, <3>4 DEF DataOK
      <4>2. QED  BY <2>1, <4>1
    <3>5. CASE rcvd'[q] = rcvd[q] + 1
      <4>1. rcvd' = [rcvd EXCEPT ![q] = rcvd[q] + 1]
            BY <2>3, <3>2, <3>5
      <4>2. rcvd[q] < replied[q]
            BY <1>0, <3>2, <3>5 DEF AgentShape, DataOK
      <4>3. QED  BY <2>1, <4>1, <4>2 DEF Down!Next, Down!Receive
    <3>6. QED  BY <3>3, <3>4, <3>5
  <2>4. \/ rcvd' = rcvd
        \/ \E q \in Players : /\ mcRx[q] # <<>> /\ Head(mcRx[q]).who = q
                             /\ rcvd' = [rcvd EXCEPT ![q] = Head(mcRx[q]).n]
    <3>1. ServerNext  BY <1>2 DEF ServerStep
    <3>2. QED  BY <3>1, ServerMoves, Zenon
  <2>5. QED  BY <2>2, <2>3, <2>4
<1>3. CASE LinkStep \/ TunnelFinished \/ UNCHANGED tunnelVars
      BY <1>3, Zenon DEF LinkStep, TunnelFinished, Finished, tunnelVars, vars,
         serverVars, playerVars, agentVars, connVars
<1>4. QED  BY <1>1, <1>2, <1>3 DEF TunnelNext

\* Nothing is sent at first.
LEMMA RepliedInit == ASSUME SessionInit, WireInit, HandleInit PROVE RepliedBefore /\ Down!Init
<1>1. /\ toServer = <<>> /\ to_proxy = <<>> /\ replied = [p \in Players |-> 0]
      /\ mcRx = [p \in Players |-> <<>>] /\ rcvd = [p \in Players |-> 0]
      BY DEF WireInit, SessionInit, HandleInit
<1>2. QED  BY <1>1, ToSetEmpty DEF RepliedBefore, Down!Init

\* It holds in every state of the tunnel.
LEMMA RepliedInductive == TunnelSpec => []RepliedBefore
<1>1. TunnelInit => RepliedBefore
      BY RepliedInit DEF TunnelInit, ServerInit, AgentInit
<1>2. TunnelInv /\ RepliedBefore /\ [TunnelNext]_tunnelVars => RepliedBefore'
      BY RepliedStep
<1>3. QED  BY <1>1, <1>2, TunnelInductive, PTL DEF TunnelSpec

\* The bytes of a player's own Minecraft server reach the player as through a pipe, for
\* every number of players, slots and packets.
THEOREM DownOrdered == TunnelSpec => DownstreamInOrder
<1>1. TunnelInit => Down!Init
      BY RepliedInit DEF TunnelInit, ServerInit, AgentInit
<1>2. TunnelInv /\ UpInv /\ DownInv /\ RepliedBefore /\ [TunnelNext]_tunnelVars
          => [Down!Next]_<<replied, rcvd>>
      BY DownSimulation DEF UpInv
<1>3. QED
      BY <1>1, <1>2, TunnelInductive, UpInductive, DownInductive, RepliedInductive, PTL
      DEF TunnelSpec, DownstreamInOrder, Down!Spec

-----------------------------------------------------------------------------
(* A Client that is connected again, of Lives.                             *)

\* The players of earlier tunnels are over for the server.
OldOver == \A p \in OldPlayers : Over(p)

\* A join on the stream carries the id of its player.
JoinsMatch == \A m \in ToSet(toClient) \cap Joins : m.id = id[m.who]

\* The slot of a player no longer holds a connection of an earlier tunnel, or will
\* not once the player's join has been taken.
Replaced(p) ==
    id[p] # NoID =>
        \/ \E m \in ToSet(toClient) \cap Joins : m.who = p
        \/ connections[id[p]] \notin OldPlayers

OldInv == OldOver /\ JoinsMatch /\ \A p \in Players : Replaced(p)

LivesInv == TunnelInv /\ OldInv

\* What an earlier Client::handle leaves behind satisfies the invariant.
LEMMA LivesBegin == LivesInit => LivesInv
<1> SUFFICES ASSUME LivesInit PROVE LivesInv
    OBVIOUS
<1>1. mc \in [Players -> {"idle", "done"}] /\ SessionInit /\ WireInit /\ HandleInit
      BY DEF LivesInit
<1>2. IInv
      BY <1>1, SessionBegins
<1>3. connections \in [ClientID -> Owner]
  <2>1. OldPlayers \cup {NoPlayer} \subseteq Owner
        BY LivesAssumption, IdTypes
  <2>2. QED  BY <2>1 DEF LivesInit
<1>4. connections_len \in Nat
      BY TakenFinite, LivesAssumption DEF LivesInit, Taken
<1>5. ASSUME NEW p \in Players
      PROVE  /\ client_id[p] \in WireID \cup {NoID}
             /\ conn[p] # "none" => client_id[p] \in WireID
  <2>1. client_id[p] = OldSlot(connections, p)
        BY DEF LivesInit
  <2>2. CASE p \in Range(connections)
    <3>1. \E i \in ClientID : connections[i] = p
          BY <1>3, <2>2 DEF Range
    <3>2. OldSlot(connections, p) \in ClientID
          BY <2>2, <3>1 DEF OldSlot
    <3>3. QED  BY <2>1, <3>2, IdTypes
  <2>3. CASE p \notin Range(connections)
    <3>1. conn[p] = "none"
          BY <2>3 DEF LivesInit
    <3>2. client_id[p] = NoID
          BY <2>1, <2>3 DEF OldSlot
    <3>3. QED  BY <3>1, <3>2
  <2>4. QED  BY <2>2, <2>3
<1>6. client_id \in [Players -> WireID \cup {NoID}]
  <2>1. client_id = [p \in Players |-> OldSlot(connections, p)]
        BY DEF LivesInit
  <2>2. \A p \in Players : OldSlot(connections, p) \in WireID \cup {NoID}
        BY <1>5, <2>1
  <2>3. QED  BY <2>1, <2>2
<1>7. conn \in [Players -> {"none", "connecting", "open", "ended"}]
      BY DEF LivesInit
<1>8. AgentShape
      BY <1>1, <1>3, <1>4, <1>6, <1>7, WireAssumption, AgentAssumption
      DEF HandleInit, AgentShape, WireAssumption, AgentAssumption
<1>9. ConnHasId /\ OpenStream
      BY <1>1, <1>5 DEF ConnHasId, OpenStream, HandleInit, WireInit
<1>10. OldOver
       BY LivesAssumption DEF LivesInit, SessionInit, OldOver, Over
<1>11. JoinsMatch /\ \A p \in Players : Replaced(p)
       BY <1>1, ToSetEmpty DEF WireInit, SessionInit, JoinsMatch, Replaced
<1>12. QED  BY <1>2, <1>8, <1>9, <1>10, <1>11 DEF LivesInv, TunnelInv, AgentInv, OldInv

\* The steps of Lives are those of the tunnel and the silent end of an old
\* connection.
LEMMA LivesSteps ==
    ASSUME [LivesNext]_tunnelVars
    PROVE  \/ [TunnelNext]_tunnelVars
           \/ UNCHANGED serverVars /\ \E p \in OldPlayers : OldConnEnds(p)
BY LivesAssumption, Zenon
   DEF LivesNext, LivesAgentStep, OldConnNext, TunnelNext, AgentStep, AgentNext, ConnNext

\* The end of an old connection leaves alone what the invariant of the tunnel
\* speaks of, but for the connection and its channel.
LEMMA OldEndKeeps ==
    ASSUME TunnelInv, UNCHANGED serverVars, NEW p \in Players, OldConnEnds(p)
    PROVE  TunnelInv'
<1>1. IInv'
  <2>1. UNCHANGED vars
        BY DEF OldConnEnds, vars
  <2>2. QED  BY <2>1, TypeStep, CoreStep DEF TunnelInv, IInv
<1>2. /\ conn[p] # "none" /\ conn' = [conn EXCEPT ![p] = "ended"]
      /\ client_rx' = [client_rx EXCEPT ![p] = <<>>]
      /\ UNCHANGED <<clientVars, client_id, replied, dlvd, pings, wireVars>>
      BY DEF OldConnEnds
<1>3. AgentShape /\ ConnHasId /\ OpenStream
      BY DEF TunnelInv, AgentInv
<1>4. /\ conn' \in [Players -> {"none", "connecting", "open", "ended"}]
      /\ client_rx' \in [Players -> Seq(McData)]
      BY <1>2, <1>3 DEF AgentShape
<1>5. AgentShape'
      BY <1>2, <1>3, <1>4, Zenon DEF AgentShape, clientVars
<1>6. ConnHasId'
      BY <1>2, <1>3 DEF ConnHasId, AgentShape
<1>7. OpenStream'
      BY <1>2, <1>3, Zenon DEF OpenStream, clientVars, wireVars
<1>8. QED  BY <1>1, <1>5, <1>6, <1>7 DEF TunnelInv, AgentInv

\* A step that sends or takes no join and fills no slot of the client keeps the
\* rest of the invariant.
LEMMA OldQuiet ==
    ASSUME LivesInv, id' = id, Shrinks, Skip(toClient, toClient', SocketPacket, Joins)
    PROVE  JoinsMatch' /\ \A p \in Players : Replaced(p)'
<1>0. DataOK
      BY TypeParts DEF LivesInv, TunnelInv, IInv
<1>1. ToSet(toClient') \cap Joins = ToSet(toClient) \cap Joins
  <2>1. toClient \in Seq(SocketPacket) /\ \A e \in SocketPacket : e.n \in Nat
        BY <1>0, PacketTypes DEF DataOK
  <2>2. QED  BY <2>1, SkipKeeps, Zenon
<1>2. NoPlayer \notin OldPlayers
      BY LivesAssumption, WireAssumption DEF WireAssumption
<1>3. \A p \in Players : id[p] # NoID => id[p] \in ClientID
      BY <1>0 DEF DataOK
<1>4. JoinsMatch'
      BY <1>1 DEF LivesInv, OldInv, JoinsMatch
<1>5. ASSUME NEW p \in Players PROVE Replaced(p)'
  <2>1. SUFFICES ASSUME id[p] # NoID, connections[id[p]] \notin OldPlayers
                 PROVE  connections'[id[p]] \notin OldPlayers
        BY <1>1 DEF LivesInv, OldInv, Replaced
  <2>2. QED  BY <1>2, <1>3, <2>1 DEF Shrinks
<1>6. QED  BY <1>4, <1>5

\* WriterAdd gives an id to a player of this tunnel and sends its join.
LEMMA OldWriterAdd ==
    ASSUME LivesInv, WriterAdd, UNCHANGED agentVars
    PROVE  OldOver' /\ JoinsMatch' /\ \A p \in Players : Replaced(p)'
<1>0. DataOK /\ AddsWait /\ JoinsNamed
      BY TypeParts DEF LivesInv, TunnelInv, IInv, Core, ChannelInv, StreamInv
<1> DEFINE q == Head(rx).who
           i == FirstFree(clients_id)
           m == ProxyJoin(i, q)
<1>1. /\ id' = [id EXCEPT ![q] = i] /\ mc' = mc /\ connections' = connections
      /\ toClient' = Append(toClient, m)
      BY DEF WriterAdd, agentVars, clientVars
<1>2. q \in Players /\ mc[q] = "wait_id" /\ id[q] = NoID
  <2>1. rx # <<>> /\ Head(rx).type = "AddMinecraftClient"
        BY DEF WriterAdd, WriterReceives
  <2>2. Head(rx) \in ToSet(rx)
        BY <1>0, <2>1, ToSetTail DEF DataOK
  <2>3. QED  BY <1>0, <2>1, <2>2 DEF AddsWait
<1>3. i \in ClientID /\ i # NoID
      BY FirstFreeIsFree, IdTypes DEF WriterAdd, FreeSlots
<1>4. m \in SocketPacket /\ m \in Joins /\ m.who = q /\ m.id = i
      BY <1>2, <1>3, PacketTypes, IdTypes DEF ProxyJoin, Joins
<1> HIDE DEF q, i, m
<1>5. ToSet(toClient') = ToSet(toClient) \cup {m}
      BY <1>0, <1>1, <1>4, ToSetAppend DEF DataOK
<1>6. OldOver'
      BY <1>0, <1>1, <1>2, LivesAssumption DEF LivesInv, OldInv, OldOver, Over, DataOK
<1>7. ASSUME NEW k \in ToSet(toClient) \cap Joins PROVE k.id = id'[k.who]
  <2>1. k.id = id[k.who] /\ k.who \in Players /\ k.id \in ClientID
    <3>1. PICK j \in 1..Len(toClient) : toClient[j] = k
          BY <1>0 DEF ToSet, DataOK
    <3>2. QED  BY <1>0, <1>7, <3>1 DEF JoinsNamed, Joins, LivesInv, OldInv, JoinsMatch
  <2>2. k.who # q
        BY <1>2, <2>1, IdTypes
  <2>3. QED  BY <1>0, <1>1, <2>1, <2>2 DEF DataOK
<1>8. JoinsMatch'
      BY <1>0, <1>1, <1>2, <1>4, <1>5, <1>7 DEF JoinsMatch, DataOK
<1>9. ASSUME NEW p \in Players PROVE Replaced(p)'
  <2>1. CASE p = q
        BY <1>4, <1>5, <2>1 DEF Replaced
  <2>2. CASE p # q
    <3>1. id'[p] = id[p]
          BY <1>0, <1>1, <2>2 DEF DataOK
    <3>2. QED  BY <1>1, <1>5, <3>1 DEF LivesInv, OldInv, Replaced
  <2>3. QED  BY <2>1, <2>2
<1>10. QED  BY <1>6, <1>8, <1>9

\* AgentJoin puts a connection of this tunnel into the slot.
LEMMA OldAgentJoin ==
    ASSUME LivesInv, AgentJoin, UNCHANGED serverVars
    PROVE  JoinsMatch' /\ \A p \in Players : Replaced(p)'
<1>0. DataOK /\ AgentShape /\ JoinsNamed
      BY TypeParts DEF LivesInv, TunnelInv, IInv, Core, StreamInv, AgentInv
<1> DEFINE m == Head(toClient)
           q == m.who
           i == m.id
<1>1. toClient # <<>> /\ m.type = "ProxyJoin" /\ toClient' = Tail(toClient)
      BY DEF AgentJoin, AgentReceives
<1>2. m \in Joins /\ ToSet(toClient) = ToSet(toClient') \cup {m}
      BY <1>0, <1>1, ChannelTypes, ToSetTail DEF DataOK, Joins
<1>3. q \in Players /\ i \in ClientID /\ i = id[q] /\ q \notin OldPlayers
  <2>1. i = id[q]
        BY <1>2 DEF LivesInv, OldInv, JoinsMatch
  <2>2. q \in Players /\ i \in ClientID
    <3>1. 1 \in 1..Len(toClient) /\ toClient[1] = m
          BY <1>0, <1>1 DEF DataOK
    <3>2. QED  BY <1>0, <1>1, <3>1 DEF JoinsNamed
  <2>3. QED  BY <2>1, <2>2, IdTypes DEF LivesInv, OldInv, OldOver, Over
<1>4. connections' = [connections EXCEPT ![i] = q] /\ id' = id
      BY <1>3 DEF AgentJoin, add_connection, serverVars, playerVars
<1> HIDE DEF m, q, i
<1>5. JoinsMatch'
      BY <1>2, <1>4 DEF LivesInv, OldInv, JoinsMatch
<1>6. ASSUME NEW p \in Players PROVE Replaced(p)'
  <2>1. SUFFICES ASSUME id[p] # NoID, ~ \E k \in ToSet(toClient') \cap Joins : k.who = p
                 PROVE  connections'[id[p]] \notin OldPlayers
        BY <1>4 DEF Replaced
  <2>2. id[p] \in ClientID
        BY <1>0, <2>1 DEF DataOK
  <2>3. p = q \/ connections[id[p]] \notin OldPlayers
        BY <1>2, <2>1 DEF LivesInv, OldInv, Replaced, q
  <2>4. QED  BY <1>0, <1>3, <1>4, <2>2, <2>3 DEF AgentShape
<1>7. QED  BY <1>5, <1>6

\* The invariant is kept by all steps of Lives.
LEMMA LivesKeeps == LivesInv /\ [LivesNext]_tunnelVars => LivesInv'
<1> SUFFICES ASSUME LivesInv, [LivesNext]_tunnelVars PROVE LivesInv'
    OBVIOUS
<1>1. CASE UNCHANGED serverVars /\ \E p \in OldPlayers : OldConnEnds(p)
  <2>1. TunnelInv'
        BY <1>1, OldEndKeeps, LivesAssumption DEF LivesInv
  <2>2. UNCHANGED <<toClient, id, mc, connections>>
        BY <1>1, Zenon DEF OldConnEnds, clientVars, wireVars, serverVars, playerVars
  <2>3. QED  BY <2>1, <2>2 DEF LivesInv, OldInv, OldOver, Over, JoinsMatch, Replaced
<1>2. CASE [TunnelNext]_tunnelVars
  <2>1. TunnelInv'
        BY <1>2, TunnelInvStep DEF LivesInv
  <2>2. id' = id => OldOver'
        BY <1>2, OverStays, LivesAssumption DEF LivesInv, OldInv, OldOver, Over
  <2>3. CASE ServerStep /\ WriterAdd
        BY <2>1, <2>3, OldWriterAdd DEF LivesInv, OldInv, ServerStep
  <2>4. CASE ServerStep /\ ~ WriterAdd
    <3>1. id' = id /\ Skip(toClient, toClient', SocketPacket, Joins)
          BY <2>4, ServerNoJoin DEF ServerStep, LivesInv
    <3>2. Shrinks
          BY <2>4 DEF ServerStep, agentVars, clientVars, Shrinks
    <3>3. QED  BY <2>1, <2>2, <3>1, <3>2, OldQuiet DEF LivesInv, OldInv
  <2>5. CASE AgentStep /\ AgentJoin
    <3>1. id' = id
          BY <2>5 DEF AgentStep, serverVars, playerVars
    <3>2. QED  BY <2>1, <2>2, <2>5, <3>1, OldAgentJoin DEF LivesInv, OldInv, AgentStep
  <2>6. CASE AgentStep /\ ~ AgentJoin
    <3>1. id' = id
          BY <2>6 DEF AgentStep, serverVars, playerVars
    <3>2. Shrinks /\ Skip(toClient, toClient', SocketPacket, Joins)
          BY <2>6, AgentNoJoin DEF AgentStep, LivesInv
    <3>3. QED  BY <2>1, <2>2, <3>1, <3>2, OldQuiet DEF LivesInv, OldInv
  <2>7. CASE LinkStep \/ TunnelFinished \/ UNCHANGED tunnelVars
    <3>1. UNCHANGED <<toClient, id, connections>>
          BY <2>7, Zenon DEF LinkStep, LinkBreaks, TunnelFinished, Finished, tunnelVars, vars,
             wireVars, serverVars, sessionVars, playerVars, agentVars, clientVars
    <3>2. QED  BY <2>1, <2>2, <3>1, OldQuiet DEF LivesInv, OldInv, Shrinks, Skip
  <2>8. QED  BY <1>2, <2>3, <2>4, <2>5, <2>6, <2>7 DEF TunnelNext
<1>3. QED  BY <1>1, <1>2, LivesSteps

\* The packet that is taken from the stream is not for an old connection.
LEMMA OldNotAddressed ==
    ASSUME LivesInv, toClient # <<>>, Head(toClient).type = "ProxyData"
    PROVE  /\ Head(toClient).id \in ClientID
           /\ connections[Head(toClient).id] \notin OldPlayers
<1>0. DataOK /\ StreamOwned /\ NoLateJoin
      BY TypeParts DEF LivesInv, TunnelInv, IInv, Core, StreamInv
<1> DEFINE q == Head(toClient).who
<1>1. 1 \in 1..Len(toClient) /\ toClient[1] = Head(toClient)
      BY <1>0 DEF DataOK
<1>2. q \in Players /\ id[q] # NoID /\ Head(toClient).id = id[q]
      BY <1>0, <1>1 DEF StreamOwned
<1>3. ~ \E m \in ToSet(toClient) \cap Joins : m.who = q
  <2>1. SUFFICES ASSUME NEW m \in ToSet(toClient) \cap Joins PROVE m.who # q
        OBVIOUS
  <2>2. PICK j \in 1..Len(toClient) : toClient[j] = m
        BY <1>0 DEF ToSet, DataOK
  <2>3. 1 <= j /\ m.type = "ProxyJoin"
        BY DEF Joins
  <2>4. QED  BY <1>0, <1>1, <2>2, <2>3 DEF NoLateJoin
<1>4. QED  BY <1>0, <1>2, <1>3 DEF LivesInv, OldInv, Replaced, DataOK

\* What a step does to the channel of a connection: a packet for the connection is
\* put into it, or it grows shorter.
LEMMA ChannelGrows ==
    ASSUME TunnelInv, [LivesNext]_tunnelVars, NEW p \in Players
    PROVE  \/ /\ toClient # <<>> /\ Head(toClient).type = "ProxyData"
              /\ connections[Head(toClient).id] = p
           \/ client_rx'[p] \in {client_rx[p], <<>>}
           \/ client_rx[p] # <<>> /\ client_rx'[p] = Tail(client_rx[p])
<1>0. client_rx \in [Players -> Seq(McData)]
      BY DEF TunnelInv, AgentInv, AgentShape
<1>1. CASE AgentData
  <2>1. toClient # <<>> /\ Head(toClient).type = "ProxyData"
        BY <1>1 DEF AgentData, AgentReceives
  <2>2. \/ client_rx' = client_rx
        \/ \E q, x : /\ q = IF Head(toClient).id \in ClientID THEN connections[Head(toClient).id]
                            ELSE NoPlayer
                     /\ q # NoPlayer /\ client_rx' = [client_rx EXCEPT ![q] = x]
        BY <1>1 DEF AgentData
  <2>3. QED  BY <1>0, <2>1, <2>2
<1>2. CASE client_rx' = client_rx
      BY <1>2
<1>3. ASSUME NEW q \in Players,
             \/ client_rx' = [client_rx EXCEPT ![q] = <<>>]
             \/ client_rx[q] # <<>> /\ client_rx' = [client_rx EXCEPT ![q] = Tail(@)]
      PROVE  \/ client_rx'[p] \in {client_rx[p], <<>>}
             \/ client_rx[p] # <<>> /\ client_rx'[p] = Tail(client_rx[p])
      BY <1>0, <1>3
<1>4. ASSUME NEW q \in Players, ConnNext(q) \/ OldConnEnds(q)
      PROVE  \/ client_rx' = client_rx
             \/ client_rx' = [client_rx EXCEPT ![q] = <<>>]
             \/ client_rx[q] # <<>> /\ client_rx' = [client_rx EXCEPT ![q] = Tail(@)]
      BY <1>4, Zenon DEF ConnNext, ConnConnects, ConnConnectFails, ConnWrites, ConnChannelClosed,
         ConnReads, ConnBreaks, ConnEnds, OldConnEnds
<1>5. CASE (AgentReaderNext /\ ~ AgentData) \/ AgentWriterNext
  <2>1. client_rx' = client_rx
        BY <1>5, Zenon DEF AgentReaderNext, AgentJoin, AgentDisconnect, AgentPong,
           AgentReaderFails, AgentReaderClosed, AgentTakesDisconnect, AgentWriterGone, AgentPings,
           AgentWriterNext, AgentWritesPacket, AgentWritesDisconnect, AgentWriterDies,
           AgentWritesPing, AgentWriterFails, AgentWriterAborted, connVars, clientVars, agentVars
  <2>2. QED  BY <1>2, <2>1
<1>6. CASE UNCHANGED agentVars
      BY <1>2, <1>6 DEF agentVars, connVars
<1>7. \/ AgentNext \/ UNCHANGED agentVars \/ \E q \in Players : OldConnEnds(q)
      BY LivesSteps, LivesAssumption, Zenon DEF TunnelNext, ServerStep, AgentStep, LinkStep,
         TunnelFinished, tunnelVars
<1>8. QED  BY <1>1, <1>2, <1>3, <1>4, <1>5, <1>6, <1>7 DEF AgentNext

\* No byte of a player of this tunnel is given to a connection of an earlier one,
\* whatever slots the earlier connections still hold when Client::handle begins.
THEOREM OldGetNothing == LivesSpec => NothingForOldConnections
<1> DEFINE Step == \A p \in OldPlayers : Len(client_rx'[p]) <= Len(client_rx[p])
<1>1. LivesInv /\ [LivesNext]_tunnelVars => [Step]_tunnelVars
  <2> SUFFICES ASSUME LivesInv, [LivesNext]_tunnelVars, NEW p \in OldPlayers
               PROVE  Len(client_rx'[p]) <= Len(client_rx[p])
      OBVIOUS
  <2>1. p \in Players /\ client_rx[p] \in Seq(McData)
        BY LivesAssumption DEF LivesInv, TunnelInv, AgentInv, AgentShape
  <2>2. \/ client_rx'[p] \in {client_rx[p], <<>>}
        \/ client_rx[p] # <<>> /\ client_rx'[p] = Tail(client_rx[p])
        BY <2>1, ChannelGrows, OldNotAddressed DEF LivesInv
  <2>3. \A s \in Seq(McData) : /\ Len(s) \in Nat /\ Len(<<>>) = 0
                              /\ s # <<>> => Len(Tail(s)) = Len(s) - 1
        OBVIOUS
  <2>4. CASE client_rx'[p] \in {client_rx[p], <<>>}
        BY <2>1, <2>3, <2>4
  <2>5. CASE client_rx[p] # <<>> /\ client_rx'[p] = Tail(client_rx[p])
        BY <2>1, <2>3, <2>5
  <2>6. QED  BY <2>2, <2>4, <2>5
<1>2. LivesSpec => []LivesInv
      BY LivesBegin, LivesKeeps, PTL DEF LivesSpec
<1>3. QED  BY <1>1, <1>2, PTL DEF LivesSpec, NothingForOldConnections
\* The players of this tunnel.
NewPlayers == Players \ OldPlayers

\* All that is kept in a tunnel is kept after a reconnect, for the players of this
\* tunnel or for all.
LifeInv ==
    /\ OrphanInv(NewPlayers) /\ UpInv /\ SentBefore /\ DownInv /\ RepliedBefore
    /\ CountCoversConnections

\* What an earlier Client::handle leaves behind satisfies it.
LEMMA LifeBegins == LivesInit => LifeInv /\ Up!Init /\ Down!Init
<1> SUFFICES ASSUME LivesInit PROVE LifeInv /\ Up!Init /\ Down!Init
    OBVIOUS
<1>1. SessionInit /\ WireInit /\ HandleInit /\ toClient = <<>> /\ id = [p \in Players |-> NoID]
      BY DEF LivesInit, SessionInit, WireInit
<1>2. OldOver /\ AgentShape
      BY LivesBegin DEF LivesInv, OldInv, TunnelInv, AgentInv
<1>3. ASSUME NEW i \in ClientID, NEW p \in Players, connections[i] = p
      PROVE  p \in OldPlayers /\ Over(p) /\ conn[p] # "none"
  <2>1. p \in OldPlayers
        BY <1>3, WireAssumption DEF LivesInit, WireAssumption
  <2>2. p \in Range(connections)
        BY <1>2, <1>3 DEF AgentShape, Range
  <2>3. QED  BY <1>2, <2>1, <2>2 DEF OldOver, LivesInit
<1>4. ASSUME NEW p \in Players, conn[p] # "none" PROVE p \in OldPlayers /\ Over(p)
  <2>1. p \in Range(connections)
        BY <1>4 DEF LivesInit
  <2>2. PICK i \in ClientID : connections[i] = p
        BY <1>2, <2>1 DEF AgentShape, Range
  <2>3. QED  BY <1>3, <2>2
<1>5. JoinInv
  <2>1. ConnNamed /\ ConnTold
        BY <1>3, <1>4 DEF ConnNamed, ConnTold
  <2>2. JoinsTold /\ Distinct(toClient, Joins)
        BY <1>1, ToSetEmpty DEF JoinsTold, Distinct
  <2>3. JoinComes
        BY <1>1 DEF JoinComes
  <2>4. QED  BY <2>1, <2>2, <2>3 DEF JoinInv
<1>6. OrphanInv(NewPlayers)
  <2>1. Told(NewPlayers)
        BY <1>4 DEF Told, NewPlayers
  <2>2. JoinEnds
        BY <1>1 DEF JoinEnds
  <2>3. NoOrphan(NewPlayers)
        BY <1>3 DEF NoOrphan, NewPlayers
  <2>4. QED  BY <1>5, <2>1, <2>2, <2>3 DEF OrphanInv
<1>7. UpInv /\ DownInv
      BY <1>1, <1>5, UpInit, DownInit DEF UpInv
<1>8. SentBefore /\ RepliedBefore /\ Up!Init /\ Down!Init
      BY <1>1, SentInit, RepliedInit
<1>9. CountCoversConnections
      BY TakenFinite, LivesAssumption DEF LivesInit, Taken, CountCoversConnections
<1>10. QED  BY <1>6, <1>7, <1>8, <1>9 DEF LifeInv

\* An old connection has nobody to send to.
LEMMA OldSilent ==
    ASSUME TunnelInv, [LivesNext]_tunnelVars, NEW p \in OldPlayers
    PROVE  replied'[p] = replied[p]
<1>0. p \in Players /\ replied \in [Players -> Nat]
      BY LivesAssumption, WireAssumption
      DEF TunnelInv, AgentInv, AgentShape, WireAssumption
<1>1. ASSUME NEW q \in Players \ OldPlayers, ConnNext(q) PROVE replied'[p] = replied[p]
  <2>1. \/ replied' = [replied EXCEPT ![q] = replied[q] + 1]
        \/ \A r \in Players : r # q => replied'[r] = replied[r]
        BY <1>1, ConnSends
  <2>2. QED  BY <1>0, <1>1, <2>1
<1>2. ASSUME NEW q \in OldPlayers, OldConnNext(q) PROVE replied'[p] = replied[p]
      BY <1>2, Zenon DEF OldConnNext, ConnConnects, ConnWrites, ConnChannelClosed, OldConnEnds,
         ConnEnds
<1>3. CASE AgentReaderNext
      BY <1>3, ReaderSends
<1>4. CASE AgentWriterNext
      BY <1>4, Zenon DEF AgentWriterNext, AgentWritesPacket, AgentWritesDisconnect,
         AgentWriterDies, AgentWritesPing, AgentWriterFails, AgentWriterAborted, connVars
<1>5. CASE UNCHANGED agentVars
      BY <1>5 DEF agentVars, connVars
<1>6. QED
      BY <1>1, <1>2, <1>3, <1>4, <1>5
      DEF LivesNext, ServerStep, LivesAgentStep, LinkStep, TunnelFinished, tunnelVars

\* The silent end of an old connection disturbs nobody.
LEMMA OldEndLife ==
    ASSUME LivesInv, LifeInv, UNCHANGED serverVars, NEW p \in OldPlayers, OldConnEnds(p)
    PROVE  LifeInv' /\ UNCHANGED <<sent, dlvd, replied, rcvd>>
<1>0. TunnelInv /\ AgentShape /\ p \in Players
      BY LivesAssumption DEF LivesInv, TunnelInv, AgentInv
<1>1. /\ UNCHANGED <<sent, rcvd, id, mc, mcRx, mcReader, mcWriter, rx, writer, clients_id>>
      /\ UNCHANGED <<dlvd, replied, client_id, connections, connections_len, to_proxy, c_writer>>
      /\ UNCHANGED <<toClient, toServer>>
      BY DEF OldConnEnds, serverVars, sessionVars, playerVars, clientVars, wireVars
<1>2. /\ \A q \in Players : conn'[q] = IF q = p THEN "ended" ELSE conn[q]
      /\ \A q \in Players : client_rx'[q] = IF q = p THEN <<>> ELSE client_rx[q]
      /\ conn[p] # "none"
      BY <1>0 DEF OldConnEnds, AgentShape
<1>3. JoinInv'
      BY <1>0, <1>1, <1>2, JoinQuiet DEF LifeInv, OrphanInv, Shrinks, Skip
<1>4. OrphanInv(NewPlayers)'
  <2>1. Told(NewPlayers)'
        BY <1>1, <1>2 DEF LifeInv, OrphanInv, Told, NewPlayers
  <2>2. JoinEnds' /\ NoOrphan(NewPlayers)'
        BY <1>1, Zenon DEF LifeInv, OrphanInv, JoinEnds, NoOrphan, Safe
  <2>3. QED  BY <1>3, <2>1, <2>2 DEF OrphanInv
<1>5. ASSUME NEW q \in Players PROVE UpOK(q)'
  <2>1. CASE q = p
        BY <1>0, <1>2, <2>1, UpEnds
  <2>2. CASE q # p
    <3>1. client_rx'[q] = client_rx[q] /\ conn'[q] = conn[q]
          BY <1>2, <2>2
    <3>2. UpAlive(q)' => UpAlive(q)
          BY <1>1, <3>1, Zenon DEF UpAlive
    <3>3. UpOK(q)
          BY DEF LifeInv, UpInv
    <3>4. QED  BY <1>0, <1>1, <3>1, <3>2, <3>3, UpQuiet DEF Skip
  <2>3. QED  BY <2>1, <2>2
<1>6. UpInv'
  <2>1. Fresh'
        BY <1>1 DEF LifeInv, UpInv, Fresh
  <2>2. QED  BY <1>3, <1>5, <2>1, Zenon DEF UpInv
<1>7. SentBefore'
      BY <1>1, <1>2, ToSetEmpty DEF LifeInv, SentBefore, WasSent
<1>8. DownInv'
  <2>1. RepliesOwned'
        BY <1>1, Zenon DEF LifeInv, DownInv, RepliesOwned, Owned
  <2>2. ASSUME NEW q \in Players PROVE DownOK(q)'
    <3>1. DownAlive(q)' => DownAlive(q)
          BY <1>1, Zenon DEF DownAlive, McRxOpen
    <3>2. DownOK(q)
          BY DEF LifeInv, DownInv
    <3>3. QED  BY <1>0, <1>1, <3>1, <3>2, DownQuiet DEF Skip, KeepsNums
  <2>3. QED  BY <2>1, <2>2, Zenon DEF DownInv
<1>9. RepliedBefore'
      BY <1>1, Zenon DEF LifeInv, RepliedBefore, WasReplied
<1>10. CountCoversConnections'
       BY <1>1 DEF LifeInv, CountCoversConnections
<1>11. QED  BY <1>1, <1>4, <1>6, <1>7, <1>8, <1>9, <1>10 DEF LifeInv

\* Every step of a tunnel after a reconnect keeps it, and is a step of the two pipes.
LEMMA LifeKeeps ==
    ASSUME LivesInv, LifeInv, [LivesNext]_tunnelVars
    PROVE  LifeInv' /\ [Up!Next]_<<sent, dlvd>> /\ [Down!Next]_<<replied, rcvd>>
<1>0. TunnelInv
      BY DEF LivesInv
<1>1. CASE UNCHANGED serverVars /\ \E p \in OldPlayers : OldConnEnds(p)
      BY <1>1, OldEndLife
<1>2. CASE [TunnelNext]_tunnelVars
  <2>1. Silent
    <3>1. SUFFICES ASSUME NEW p \in Players, Over(p) PROVE replied'[p] = replied[p]
          BY DEF Silent
    <3>2. CASE p \in OldPlayers
          BY <1>0, <3>2, OldSilent
    <3>3. CASE p \notin OldPlayers
      <4>1. conn[p] = "none"
            BY <3>1, <3>3 DEF LifeInv, OrphanInv, Told, Over, NewPlayers
      <4>2. QED  BY <1>0, <1>2, <4>1, NewSilent
    <3>4. QED  BY <3>2, <3>3
  <2>2. UpInv /\ JoinInv /\ Fresh /\ DownInv /\ RepliesOwned /\ SentBefore /\ RepliedBefore
        BY DEF LifeInv, UpInv, DownInv
  <2>3. OrphanInv(NewPlayers)'
    <3>1. NewPlayers \in SUBSET Players
          BY DEF NewPlayers
    <3>2. QED  BY <1>0, <1>2, <3>1, OrphanStep DEF LifeInv
  <2>4. UpInv'
    <3>1. JoinInv' /\ Fresh'
          BY <1>0, <1>2, <2>2, JoinStep, FreshStep
    <3>2. \A p \in Players : UpOK(p)'
          BY <1>0, <1>2, <2>2, UpStep
    <3>3. QED  BY <3>1, <3>2, Zenon DEF UpInv
  <2>5. DownInv'
    <3>1. RepliesOwned'
          BY <1>0, <1>2, <2>1, <2>2, RepliesStep
    <3>2. \A p \in Players : DownOK(p)'
          BY <1>0, <1>2, <2>2, DownStep
    <3>3. QED  BY <3>1, <3>2, Zenon DEF DownInv
  <2>6. SentBefore' /\ RepliedBefore'
        BY <1>0, <1>2, <2>2, SentStep, RepliedStep
  <2>7. CountCoversConnections'
        BY <1>0, <1>2, CoverStep DEF LifeInv
  <2>8. [Up!Next]_<<sent, dlvd>> /\ [Down!Next]_<<replied, rcvd>>
        BY <1>0, <1>2, <2>2, UpSimulation, DownSimulation
  <2>9. QED  BY <2>3, <2>4, <2>5, <2>6, <2>7, <2>8 DEF LifeInv
<1>3. QED  BY <1>1, <1>2, LivesSteps

\* It holds in every state after a reconnect.
LEMMA LifeInductive == LivesSpec => [](LivesInv /\ LifeInv)
<1>1. LivesInit => LivesInv /\ LifeInv
      BY LivesBegin, LifeBegins
<1>2. LivesInv /\ LifeInv /\ [LivesNext]_tunnelVars => (LivesInv /\ LifeInv)'
      BY LivesKeeps, LifeKeeps
<1>3. QED  BY <1>1, <1>2, PTL DEF LivesSpec

\* After a reconnect the bytes of a player reach its Minecraft server as through a
\* pipe, although the client starts with the table and the connections of an earlier
\* tunnel and a new player may get the slot of an old connection.
THEOREM LivesUpOrdered == LivesSpec => UpstreamInOrder
<1>1. LivesInit => Up!Init
      BY LifeBegins
<1>2. LivesInv /\ LifeInv /\ [LivesNext]_tunnelVars => [Up!Next]_<<sent, dlvd>>
      BY LifeKeeps
<1>3. QED  BY <1>1, <1>2, LifeInductive, PTL DEF LivesSpec, UpstreamInOrder, Up!Spec

\* And so do the bytes of the Minecraft server reach the player.
THEOREM LivesDownOrdered == LivesSpec => DownstreamInOrder
<1>1. LivesInit => Down!Init
      BY LifeBegins
<1>2. LivesInv /\ LifeInv /\ [LivesNext]_tunnelVars => [Down!Next]_<<replied, rcvd>>
      BY LifeKeeps
<1>3. QED  BY <1>1, <1>2, LifeInductive, PTL DEF LivesSpec, DownstreamInOrder, Down!Spec

\* After a reconnect no connection of a player of this tunnel is left behind, and the
\* number of clients the statistics show covers the old connections too.
THEOREM LivesTornDown == LivesSpec => [](NoOrphan(Players \ OldPlayers) /\ CountCoversConnections)
<1>1. LifeInv => NoOrphan(Players \ OldPlayers) /\ CountCoversConnections
      BY DEF LifeInv, OrphanInv, NewPlayers
<1>2. QED  BY <1>1, LifeInductive, PTL

\* The server's session keeps its promises after a reconnect: a slot holds the channel
\* of the player that was told its number, it is freed however the player ends, nobody
\* waits for an id that is forgotten, and the types are kept.
THEOREM LivesSession ==
    LivesSpec => [](TunnelTypeOK /\ SlotOwnership /\ NoSlotLeak /\ WaiterServed)
<1>1. LivesInv => TunnelTypeOK /\ SlotOwnership /\ NoSlotLeak /\ WaiterServed
      BY AgentShapeType DEF LivesInv, TunnelInv, IInv, AgentInv, Core, SlotInv, TunnelTypeOK
<1>2. QED  BY <1>1, LifeInductive, PTL
=============================================================================
