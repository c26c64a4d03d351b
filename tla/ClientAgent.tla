----------------------------- MODULE ClientAgent -----------------------------
(***************************************************************************)
(* The CraftIP client once it is authenticated: Client::handle of          *)
(* crates/client/src/client.rs and the ClientConnections it spawns         *)
(* (connection_handler.rs).  reader_handler owns the table "connections"   *)
(* and applies the packets of the server; writer_handler serves the        *)
(* channel "to_proxy" that the reader and every ClientConnection send to;  *)
(* a ClientConnection joins one player to the local Minecraft server.      *)
(*                                                                         *)
(* A ClientConnection is named by the player whose ProxyJoin created it,   *)
(* which the code does not know: it only has the client id.                *)
(***************************************************************************)
EXTENDS Wire

CONSTANT MaxPings   \* bound: keep-alive pings the client sends

ASSUME AgentAssumption == MaxPings \in Nat

VARIABLES
    connections,       \* slot -> the connection whose sender it holds
    connections_len,   \* the count the client reports in its statistics
    to_proxy,          \* channel of ClientToProxy, received by writer_handler
    disconnect,        \* channel of ids from writer_handler to reader_handler
    c_reader,          \* reader_handler: "run", or how it returned, "ok" or "err"
    c_writer,          \* writer_handler: "run" or "ended"
    conn,              \* player -> "none", "connecting", "open" or "ended"
    client_id,         \* player -> the id its connection was created with
    client_rx,         \* player -> the channel of its connection
    replied,           \* player -> data packets its Minecraft server sent
    dlvd,              \* ghost: player -> number of the last packet of its own
                       \* that its connection wrote to the Minecraft server
    pings              \* keep-alive pings sent so far

clientVars == <<connections, connections_len, to_proxy, disconnect, c_reader, c_writer>>
connVars   == <<conn, client_id, client_rx, replied, dlvd>>
agentVars  == <<clientVars, connVars, pings>>

-----------------------------------------------------------------------------
\* enum ClientToProxy of the client crate.
AgentMessage ==
    [type : {"Packet", "RemoveMinecraftClient", "Death", "Ping"},
     id   : WireID \cup {NoID},
     who  : Owner,
     n    : Nat]

AgentPacket(i, p, n) == [type |-> "Packet", id |-> i, who |-> p, n |-> n]
AgentRemove(i) ==
    [type |-> "RemoveMinecraftClient", id |-> i, who |-> NoPlayer, n |-> 0]
Death == [type |-> "Death", id |-> NoID, who |-> NoPlayer, n |-> 0]
Ping  == [type |-> "Ping", id |-> NoID, who |-> NoPlayer, n |-> 0]

AgentTypeOK ==
    /\ connections \in [ClientID -> Owner]
    /\ connections_len \in Nat
    /\ to_proxy \in Seq(AgentMessage)
    /\ disconnect \in Seq(WireID)
    /\ c_reader \in {"run", "ok", "err"}
    /\ c_writer \in {"run", "ended"}
    /\ conn \in [Players -> {"none", "connecting", "open", "ended"}]
    /\ client_id \in [Players -> WireID \cup {NoID}]
    /\ client_rx \in [Players -> Seq([who : Owner, n : Nat])]
    /\ replied \in [Players -> 0 .. MaxReply]
    /\ dlvd \in [Players -> Nat]
    /\ pings \in 0 .. MaxPings

\* Client::handle begins.
HandleInit ==
    /\ to_proxy = <<>>
    /\ disconnect = <<>>
    /\ c_reader = "run"
    /\ c_writer = "run"
    /\ client_rx = [p \in Players |-> <<>>]
    /\ replied = [p \in Players |-> 0]
    /\ dlvd = [p \in Players |-> 0]
    /\ pings = 0

\* Client::new, connected for the first time.
AgentInit ==
    /\ connections = [i \in ClientID |-> NoPlayer]
    /\ connections_len = 0
    /\ conn = [p \in Players |-> "none"]
    /\ client_id = [p \in Players |-> NoID]
    /\ HandleInit

-----------------------------------------------------------------------------
(* struct Client                                                           *)

\* Variant: an occupied slot is left as it is.
add_connection_KeepsOccupied(i, p) ==
    IF i \in ClientID /\ connections[i] = NoPlayer
    THEN /\ connections' = [connections EXCEPT ![i] = p]
         /\ connections_len' = connections_len + 1
    ELSE UNCHANGED <<connections, connections_len>>

\* add_connection overwrites the slot; the old sender, if any, is dropped.
add_connection(i, p) ==
    IF i \in ClientID
    THEN /\ connections' = [connections EXCEPT ![i] = p]
         /\ connections_len' = connections_len + 1
    ELSE UNCHANGED <<connections, connections_len>>

\* Variant: the slot is not emptied.
remove_connection_KeepsSlot(i) ==
    IF i \in ClientID /\ connections[i] # NoPlayer
    THEN /\ connections_len' = IF connections_len = 0 THEN 0 ELSE connections_len - 1
         /\ UNCHANGED connections
    ELSE UNCHANGED <<connections, connections_len>>

\* Variant: an empty slot is counted as well, and the count is not saturated.
remove_connection_Unchecked(i) ==
    IF i \in ClientID
    THEN /\ connections' = [connections EXCEPT ![i] = NoPlayer]
         /\ connections_len' = connections_len - 1
    ELSE UNCHANGED <<connections, connections_len>>

remove_connection(i) ==
    IF i \in ClientID /\ connections[i] # NoPlayer
    THEN /\ connections' = [connections EXCEPT ![i] = NoPlayer]
         /\ connections_len' = IF connections_len = 0 THEN 0 ELSE connections_len - 1
    ELSE UNCHANGED <<connections, connections_len>>

\* Variant: somebody keeps a second sender.
ClientTxAlive_Cloned(p) == TRUE

\* The connection of a player: its sender is in the slot it was created for.
ClientTxAlive(p) == p \in Range(connections)

\* A send on to_proxy is lost when the writer, its receiver, is gone.
SendToProxy(msgs) == to_proxy' = IF c_writer = "run" THEN to_proxy \o msgs ELSE to_proxy

\* writer_handler returns: its channel is dropped and the write half is shut.
AgentWriterEnds ==
    /\ c_writer' = "ended"
    /\ to_proxy' = <<>>
    /\ toServerClosed' = TRUE

\* reader_handler returns: the ids nobody will take are dropped.  After Ok the
\* Client is dropped too and with it every sender; after Err the Client stays,
\* to be connected again, and its table with it.
AgentReaderReturns(how) ==
    /\ c_reader' = how
    /\ disconnect' = <<>>
    /\ connections' = IF how = "ok" THEN [i \in ClientID |-> NoPlayer] ELSE connections

-----------------------------------------------------------------------------
(* reader_handler: one arm of its select.                                  *)

AgentReceives(type) ==
    /\ c_reader = "run"
    /\ toClient # <<>>
    /\ Head(toClient).type = type
    /\ toClient' = Tail(toClient)

AgentJoin ==
    /\ AgentReceives("ProxyJoin")
    /\ LET i == Head(toClient).id
           p == Head(toClient).who
       IN  /\ add_connection(i, p)
           /\ conn' = [conn EXCEPT ![p] = "connecting"]
           /\ client_id' = [client_id EXCEPT ![p] = i]
    /\ UNCHANGED <<to_proxy, disconnect, c_reader, c_writer, client_rx, replied, dlvd, pings,
                   toServer, toClientClosed, toServerClosed, broken>>

\* Variant: a connection takes data only once it has reached its server.
AgentData_NotBuffered ==
    /\ AgentReceives("ProxyData")
    /\ LET pkg == Head(toClient)
           p   == IF pkg.id \in ClientID THEN connections[pkg.id] ELSE NoPlayer
       IN  client_rx' = IF p # NoPlayer /\ conn[p] = "open"
                        THEN [client_rx EXCEPT ![p] =
                                 Append(@, [who |-> pkg.who, n |-> pkg.n])]
                        ELSE client_rx
    /\ UNCHANGED <<clientVars, conn, client_id, replied, dlvd, pings,
                   toServer, toClientClosed, toServerClosed, broken>>

\* send_to: the first packet a dead connection misses frees its slot, a packet
\* for a free slot is an error that ends the tunnel.
AgentData ==
    /\ AgentReceives("ProxyData")
    /\ LET pkg == Head(toClient)
           p   == IF pkg.id \in ClientID THEN connections[pkg.id] ELSE NoPlayer
       IN  \/ /\ p # NoPlayer
              /\ conn[p] # "ended"
              /\ client_rx' = [client_rx EXCEPT ![p] =
                                  Append(@, [who |-> pkg.who, n |-> pkg.n])]
              /\ UNCHANGED <<connections, connections_len, disconnect, c_reader>>
           \/ /\ p # NoPlayer
              /\ conn[p] = "ended"
              /\ remove_connection(pkg.id)
              /\ UNCHANGED <<client_rx, disconnect, c_reader>>
           \/ /\ p = NoPlayer
              /\ AgentReaderReturns("err")
              /\ UNCHANGED <<client_rx, connections_len>>
    /\ UNCHANGED <<to_proxy, c_writer, conn, client_id, replied, dlvd, pings,
                   toServer, toClientClosed, toServerClosed, broken>>

AgentDisconnect ==
    /\ AgentReceives("ProxyDisconnect")
    /\ remove_connection(Head(toClient).id)
    /\ UNCHANGED <<to_proxy, disconnect, c_reader, c_writer, connVars, pings,
                   toServer, toClientClosed, toServerClosed, broken>>

AgentPong ==
    /\ AgentReceives("ProxyPong")
    /\ UNCHANGED <<agentVars, toServer, toClientClosed, toServerClosed, broken>>

\* A read error, or TIMEOUT_IN_SEC without a packet.
AgentReaderFails ==
    /\ c_reader = "run"
    /\ ClientSeesErrors
    /\ AgentReaderReturns("err")
    /\ UNCHANGED <<connections_len, to_proxy, c_writer, connVars, pings, wireVars>>

AgentReaderClosed ==
    /\ c_reader = "run"
    /\ toClient = <<>> /\ toClientClosed
    /\ AgentReaderReturns("err")
    /\ UNCHANGED <<connections_len, to_proxy, c_writer, connVars, pings, wireVars>>

\* disconnect_rx: a connection of this side ended.
AgentTakesDisconnect ==
    /\ c_reader = "run"
    /\ disconnect # <<>>
    /\ remove_connection(Head(disconnect))
    /\ disconnect' = Tail(disconnect)
    /\ UNCHANGED <<to_proxy, c_reader, c_writer, connVars, pings, wireVars>>

\* disconnect_rx is closed: the writer is gone and the tunnel ends with Ok.
AgentWriterGone ==
    /\ c_reader = "run"
    /\ disconnect = <<>> /\ c_writer = "ended"
    /\ AgentReaderReturns("ok")
    /\ UNCHANGED <<connections_len, to_proxy, c_writer, connVars, pings, wireVars>>

\* The keep-alive timer; sending to a writer that is gone is an error.
AgentPings ==
    /\ c_reader = "run"
    /\ pings < MaxPings
    /\ pings' = pings + 1
    /\ IF c_writer = "run"
       THEN SendToProxy(<<Ping>>) /\ UNCHANGED <<connections, disconnect, c_reader>>
       ELSE AgentReaderReturns("err") /\ UNCHANGED to_proxy
    /\ UNCHANGED <<connections_len, c_writer, connVars, wireVars>>

-----------------------------------------------------------------------------
(* writer_handler: one message of to_proxy.                                *)

AgentWriterTakes(type) ==
    /\ c_writer = "run"
    /\ to_proxy # <<>>
    /\ Head(to_proxy).type = type

AgentWritesPacket ==
    /\ AgentWriterTakes("Packet")
    /\ LET m == Head(to_proxy)
       IN  toServer' = Append(toServer, ProxyData(m.id, m.who, m.n))
    /\ to_proxy' = Tail(to_proxy)
    /\ UNCHANGED <<connections, connections_len, disconnect, c_reader, c_writer, connVars,
                   pings, toClient, toClientClosed, toServerClosed, broken>>

\* Variant: the server is told twice.
AgentWritesDisconnect_Twice ==
    /\ AgentWriterTakes("RemoveMinecraftClient")
    /\ c_reader = "run"
    /\ disconnect' = Append(disconnect, Head(to_proxy).id)
    /\ toServer' = toServer \o <<ProxyDisconnect(Head(to_proxy).id),
                                 ProxyDisconnect(Head(to_proxy).id)>>
    /\ to_proxy' = Tail(to_proxy)
    /\ UNCHANGED <<connections, connections_len, c_reader, c_writer, connVars, pings,
                   toClient, toClientClosed, toServerClosed, broken>>

\* The reader is told first, then the server.
AgentWritesDisconnect ==
    /\ AgentWriterTakes("RemoveMinecraftClient")
    /\ IF c_reader = "run"
       THEN /\ disconnect' = Append(disconnect, Head(to_proxy).id)
            /\ toServer' = Append(toServer, ProxyDisconnect(Head(to_proxy).id))
            /\ to_proxy' = Tail(to_proxy)
            /\ UNCHANGED <<c_writer, toServerClosed>>
       ELSE AgentWriterEnds /\ UNCHANGED <<disconnect, toServer>>
    /\ UNCHANGED <<connections, connections_len, c_reader, connVars, pings,
                   toClient, toClientClosed, broken>>

\* One connection could not reach the Minecraft server: the writer returns.
AgentWriterDies ==
    /\ AgentWriterTakes("Death")
    /\ AgentWriterEnds
    /\ UNCHANGED <<connections, connections_len, disconnect, c_reader, connVars, pings,
                   toClient, toServer, toClientClosed, broken>>

AgentWritesPing ==
    /\ AgentWriterTakes("Ping")
    /\ toServer' = Append(toServer, ProxyPing)
    /\ to_proxy' = Tail(to_proxy)
    /\ UNCHANGED <<connections, connections_len, disconnect, c_reader, c_writer, connVars,
                   pings, toClient, toClientClosed, toServerClosed, broken>>

\* feed or flush reports that the connection is broken.
AgentWriterFails ==
    /\ c_writer = "run"
    /\ ClientSeesErrors
    /\ AgentWriterEnds
    /\ UNCHANGED <<connections, connections_len, disconnect, c_reader, connVars, pings,
                   toClient, toServer, toClientClosed, broken>>

\* Client::handle aborts the writer when the reader has returned.
AgentWriterAborted ==
    /\ c_reader # "run" /\ c_writer = "run"
    /\ AgentWriterEnds
    /\ UNCHANGED <<connections, connections_len, disconnect, c_reader, connVars, pings,
                   toClient, toServer, toClientClosed, broken>>

-----------------------------------------------------------------------------
(* A ClientConnection.                                                     *)

\* The task ends and the connection is dropped, which sends "msgs".
ConnEnds(p, msgs) ==
    /\ conn' = [conn EXCEPT ![p] = "ended"]
    /\ client_rx' = [client_rx EXCEPT ![p] = <<>>]
    /\ SendToProxy(msgs)

ConnConnects(p) ==
    /\ conn[p] = "connecting"
    /\ conn' = [conn EXCEPT ![p] = "open"]
    /\ UNCHANGED <<clientVars, client_id, client_rx, replied, dlvd, pings, wireVars>>

\* set_death, then the drop: need_for_close is still set.
ConnConnectFails(p) ==
    /\ conn[p] = "connecting"
    /\ ConnEnds(p, <<Death, AgentRemove(client_id[p])>>)
    /\ UNCHANGED <<connections, connections_len, disconnect, c_reader, c_writer,
                   client_id, replied, dlvd, pings, wireVars>>

ConnWrites(p) ==
    /\ conn[p] = "open"
    /\ client_rx[p] # <<>>
    /\ client_rx' = [client_rx EXCEPT ![p] = Tail(@)]
    /\ dlvd' = IF Head(client_rx[p]).who = p
               THEN [dlvd EXCEPT ![p] = Head(client_rx[p]).n]
               ELSE dlvd
    /\ UNCHANGED <<clientVars, conn, client_id, replied, pings, wireVars>>

\* The sender is gone: need_for_close is cleared and the server is not told.
ConnChannelClosed(p) ==
    /\ conn[p] = "open"
    /\ client_rx[p] = <<>>
    /\ ~ ClientTxAlive(p)
    /\ ConnEnds(p, <<>>)
    /\ UNCHANGED <<connections, connections_len, disconnect, c_reader, c_writer,
                   client_id, replied, dlvd, pings, wireVars>>

\* The Minecraft server sent data; a connection that cannot pass it on ends.
ConnReads(p) ==
    /\ conn[p] = "open"
    /\ replied[p] < MaxReply
    /\ replied' = [replied EXCEPT ![p] = @ + 1]
    /\ IF c_writer = "run"
       THEN /\ SendToProxy(<<AgentPacket(client_id[p], p, replied[p] + 1)>>)
            /\ UNCHANGED <<conn, client_rx>>
       ELSE ConnEnds(p, <<>>)
    /\ UNCHANGED <<connections, connections_len, disconnect, c_reader, c_writer,
                   client_id, dlvd, pings, wireVars>>

\* The Minecraft server closed, or reading from or writing to it failed.
ConnBreaks(p) ==
    /\ conn[p] = "open"
    /\ ConnEnds(p, <<AgentRemove(client_id[p])>>)
    /\ UNCHANGED <<connections, connections_len, disconnect, c_reader, c_writer,
                   client_id, replied, dlvd, pings, wireVars>>

-----------------------------------------------------------------------------
AgentReaderNext ==
    \/ AgentJoin \/ AgentData \/ AgentDisconnect \/ AgentPong
    \/ AgentReaderFails \/ AgentReaderClosed
    \/ AgentTakesDisconnect \/ AgentWriterGone \/ AgentPings

AgentWriterNext ==
    \/ AgentWritesPacket \/ AgentWritesDisconnect \/ AgentWriterDies
    \/ AgentWritesPing \/ AgentWriterFails \/ AgentWriterAborted

ConnNext(p) ==
    \/ ConnConnects(p) \/ ConnConnectFails(p) \/ ConnWrites(p)
    \/ ConnChannelClosed(p) \/ ConnReads(p) \/ ConnBreaks(p)

AgentNext == AgentReaderNext \/ AgentWriterNext \/ \E p \in Players : ConnNext(p)
=============================================================================
