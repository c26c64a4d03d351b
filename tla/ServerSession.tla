---------------------------- MODULE ServerSession ----------------------------
(***************************************************************************)
(* One registered tunnel on the CraftIP server (proxy_handler.rs, from     *)
(* add_server on) and the Minecraft connections routed to it               *)
(* (client_handler.rs).  The tunnel is three tasks: handle, which waits    *)
(* for the other two; handle_reader, which applies the packets of the      *)
(* CraftIP client; and handle_writer, which serves the channel "rx" that   *)
(* every player of the tunnel, and the reader, send to.  A player is       *)
(* MCClient::new followed by a reader and a writer task of its own.        *)
(*                                                                         *)
(* The module is open: what the CraftIP client does is EnvNext, which may  *)
(* send any packet at any time.  Tunnel replaces it by the real client.    *)
(*                                                                         *)
(* Granularity: an action runs from one await that can wait to the next.   *)
(* A task that abort() was called on may be in the middle of a poll on     *)
(* another worker thread, so it stops in an action of its own.  Packets    *)
(* fed to the socket are in flight at once: the time they spend in the     *)
(* write buffer is time in flight, and what an abort leaves unflushed is   *)
(* lost together with the connection.                                      *)
(***************************************************************************)
EXTENDS Distributor

CONSTANT MaxSent   \* bound: data packets a player sends, the first one included

ASSUME SessionAssumption == MaxSent \in Nat \ {0}

VARIABLES
    clients_id,   \* the Distributor of the tunnel
    rx,           \* the ClientToProxy channel, received by handle_writer
    reader,       \* handle_reader: "run" or "ended"
    writer,       \* handle_writer: "run" or "ended" (its receiver is dropped)
    handle,       \* ProxyClient::handle: "select", "removing", "returned"
    mc,           \* player -> "idle", "wait_id", "running", "done"
    id,           \* player -> the id the oneshot delivered, or NoID
    mcRx,         \* player -> its MinecraftDataPacket channel
    mcReader,     \* player -> client_reader: "off", "run", "ended"
    mcWriter,     \* player -> client_writer: "off", "run", "ended"
    sent,         \* player -> data packets it has sent so far
    rcvd          \* ghost: player -> number of the last packet of its own
                  \* server connection that was written to its socket

sessionVars == <<clients_id, rx, reader, writer, handle>>
playerVars  == <<mc, id, mcRx, mcReader, mcWriter, sent, rcvd>>
serverVars  == <<sessionVars, playerVars>>
vars        == <<serverVars, wireVars>>

-----------------------------------------------------------------------------
\* enum ClientToProxy.  AddMinecraftClient carries the oneshot sender and the
\* channel of the player "who"; a packet carries the player's bytes.
ClientToProxy ==
    [type : {"Packet", "AddMinecraftClient", "RemoveMinecraftClient", "AnswerPingPacket"},
     id   : ClientID \cup {NoID},
     who  : Owner,
     n    : Nat]

Packet(i, p, n) == [type |-> "Packet", id |-> i, who |-> p, n |-> n]
AddMinecraftClient(p) ==
    [type |-> "AddMinecraftClient", id |-> NoID, who |-> p, n |-> 0]
RemoveMinecraftClient(i) ==
    [type |-> "RemoveMinecraftClient", id |-> i, who |-> NoPlayer, n |-> 0]
AnswerPingPacket ==
    [type |-> "AnswerPingPacket", id |-> NoID, who |-> NoPlayer, n |-> 0]

\* Data waiting in a player's channel.
McData == [who : Owner, n : Nat]

TypeOK ==
    /\ WireTypeOK
    /\ clients_id \in Slots
    /\ rx \in Seq(ClientToProxy)
    /\ reader \in {"run", "ended"}
    /\ writer \in {"run", "ended"}
    /\ handle \in {"select", "removing", "returned"}
    /\ mc \in [Players -> {"idle", "wait_id", "running", "done"}]
    /\ id \in [Players -> ClientID \cup {NoID}]
    /\ mcRx \in [Players -> Seq(McData)]
    /\ mcReader \in [Players -> {"off", "run", "ended"}]
    /\ mcWriter \in [Players -> {"off", "run", "ended"}]
    /\ sent \in [Players -> 0 .. MaxSent]
    /\ rcvd \in [Players -> Nat]

\* ProxyClient::handle begins.
SessionInit ==
    /\ clients_id = NoSlots
    /\ rx = <<>>
    /\ reader = "run"
    /\ writer = "run"
    /\ handle = "select"
    /\ id = [p \in Players |-> NoID]
    /\ mcRx = [p \in Players |-> <<>>]
    /\ mcReader = [p \in Players |-> "off"]
    /\ mcWriter = [p \in Players |-> "off"]
    /\ sent = [p \in Players |-> 0]
    /\ rcvd = [p \in Players |-> 0]

ServerInit == SessionInit /\ mc = [p \in Players |-> "idle"]

-----------------------------------------------------------------------------
\* The Distributor lives as long as one of handle, reader and writer holds it.
\* Variant: somebody else holds it too.
DistributorAlive_Leaked == TRUE

DistributorAlive == handle # "returned" \/ reader = "run" \/ writer = "run"

\* The only sender of a player's channel is in a queued AddMinecraftClient or
\* in a slot of the Distributor.
McTxAlive(p) ==
    \/ Contains(rx, AddMinecraftClient(p))
    \/ DistributorAlive /\ p \in Range(clients_id)

\* The receiver is held by MCClient::new, then by client_writer.
McRxOpen(p) == mc[p] = "wait_id" \/ mcWriter[p] = "run"

\* The end of handle_reader, and of handle_writer with what it owns.  The
\* socket is dropped with the second of its two halves.
ReaderEnds ==
    /\ reader' = "ended"
    /\ toClientClosed' = (writer = "ended")

\* Variant: the channel's receiver outlives the writer.
WriterEnds_KeepsChannel ==
    /\ writer' = "ended"
    /\ rx' = rx
    /\ toClientClosed' = (reader = "ended")

WriterEnds ==
    /\ writer' = "ended"
    /\ rx' = <<>>
    /\ toClientClosed' = (reader = "ended")

-----------------------------------------------------------------------------
(* handle_reader: one packet of the CraftIP client.                        *)

ReaderReceives(type) ==
    /\ reader = "run"
    /\ toServer # <<>>
    /\ Head(toServer).type = type
    /\ toServer' = Tail(toServer)

ReaderDisconnect ==
    /\ ReaderReceives("ProxyDisconnect")
    /\ clients_id' = remove_by_id(clients_id, Head(toServer).id)
    /\ UNCHANGED <<rx, reader, writer, handle, playerVars,
                   toClient, toClientClosed, toServerClosed, broken>>

\* Variant: data for a player whose tasks have not started is dropped.
ReaderData_NotBuffered ==
    /\ ReaderReceives("ProxyData")
    /\ LET pkg == Head(toServer)
           p   == get_by_id(clients_id, pkg.id)
       IN  mcRx' = IF p # NoPlayer /\ mcWriter[p] = "run"
                   THEN [mcRx EXCEPT ![p] = Append(@, [who |-> pkg.who, n |-> pkg.n])]
                   ELSE mcRx
    /\ UNCHANGED <<sessionVars, mc, id, mcReader, mcWriter, sent, rcvd,
                   toClient, toClientClosed, toServerClosed, broken>>

\* A slot that is empty, and a channel whose receiver is gone, lose the data.
ReaderData ==
    /\ ReaderReceives("ProxyData")
    /\ LET pkg == Head(toServer)
           p   == get_by_id(clients_id, pkg.id)
       IN  mcRx' = IF p # NoPlayer /\ McRxOpen(p)
                   THEN [mcRx EXCEPT ![p] = Append(@, [who |-> pkg.who, n |-> pkg.n])]
                   ELSE mcRx
    /\ UNCHANGED <<sessionVars, mc, id, mcReader, mcWriter, sent, rcvd,
                   toClient, toClientClosed, toServerClosed, broken>>

ReaderPing ==
    /\ ReaderReceives("ProxyPing")
    /\ rx' = IF writer = "run" THEN Append(rx, AnswerPingPacket) ELSE rx
    /\ UNCHANGED <<clients_id, reader, writer, handle, playerVars,
                   toClient, toClientClosed, toServerClosed, broken>>

ReaderUnexpected ==
    /\ \E type \in {"ProxyJoin", "ProxyPong"} : ReaderReceives(type)
    /\ UNCHANGED <<serverVars, toClient, toClientClosed, toServerClosed, broken>>

ReaderClosed ==
    /\ reader = "run"
    /\ toServer = <<>> /\ toServerClosed
    /\ ReaderEnds
    /\ UNCHANGED <<clients_id, rx, writer, handle, playerVars,
                   toClient, toServer, toServerClosed, broken>>

\* A read error, or TIMEOUT_IN_SEC without a packet.
ReaderFails ==
    /\ reader = "run"
    /\ ServerSeesErrors
    /\ ReaderEnds
    /\ UNCHANGED <<clients_id, rx, writer, handle, playerVars,
                   toClient, toServer, toServerClosed, broken>>

-----------------------------------------------------------------------------
(* handle_writer: one message of the channel.                              *)

WriterReceives(type) ==
    /\ writer = "run"
    /\ rx # <<>>
    /\ Head(rx).type = type

\* Variant: the waiting player is not told its id.
WriterAdd_Unanswered ==
    /\ WriterReceives("AddMinecraftClient")
    /\ FreeSlots(clients_id) # {}
    /\ clients_id' = insert(clients_id, Head(rx).who)
    /\ toClient' = Append(toClient, ProxyJoin(FirstFree(clients_id), Head(rx).who))
    /\ rx' = Tail(rx)
    /\ UNCHANGED <<reader, writer, handle, mc, id, mcRx, mcReader, mcWriter, sent, rcvd,
                   toServer, toClientClosed, toServerClosed, broken>>

\* Variant: the player is told the number of its slot, counted from 1.
WriterAdd_CountsFromOne ==
    /\ WriterReceives("AddMinecraftClient")
    /\ FreeSlots(clients_id) # {}
    /\ LET p == Head(rx).who
           i == FirstFree(clients_id)
       IN  /\ clients_id' = insert(clients_id, p)
           /\ id' = [id EXCEPT ![p] = i + 1]
           /\ toClient' = Append(toClient, ProxyJoin(i + 1, p))
    /\ rx' = Tail(rx)
    /\ UNCHANGED <<reader, writer, handle, mc, mcRx, mcReader, mcWriter, sent, rcvd,
                   toServer, toClientClosed, toServerClosed, broken>>

\* The slot is taken, the id is sent to the waiting player, the join is fed.
WriterAdd ==
    /\ WriterReceives("AddMinecraftClient")
    /\ FreeSlots(clients_id) # {}
    /\ LET p == Head(rx).who
           i == FirstFree(clients_id)
       IN  /\ clients_id' = insert(clients_id, p)
           /\ id' = [id EXCEPT ![p] = i]
           /\ toClient' = Append(toClient, ProxyJoin(i, p))
    /\ rx' = Tail(rx)
    /\ UNCHANGED <<reader, writer, handle, mc, mcRx, mcReader, mcWriter, sent, rcvd,
                   toServer, toClientClosed, toServerClosed, broken>>

\* No slot is free: the writer returns, and takes the whole tunnel with it.
WriterTooManyClients ==
    /\ WriterReceives("AddMinecraftClient")
    /\ FreeSlots(clients_id) = {}
    /\ WriterEnds
    /\ UNCHANGED <<clients_id, reader, handle, playerVars,
                   toClient, toServer, toServerClosed, broken>>

\* Variant: data overtakes what is waiting on the stream.
WriterPacket_Overtakes ==
    /\ WriterReceives("Packet")
    /\ toClient' = <<ProxyData(Head(rx).id, Head(rx).who, Head(rx).n)>> \o toClient
    /\ rx' = Tail(rx)
    /\ UNCHANGED <<clients_id, reader, writer, handle, playerVars,
                   toServer, toClientClosed, toServerClosed, broken>>

\* Data is forwarded whether or not the id still has a slot.
WriterPacket ==
    /\ WriterReceives("Packet")
    /\ toClient' = Append(toClient, ProxyData(Head(rx).id, Head(rx).who, Head(rx).n))
    /\ rx' = Tail(rx)
    /\ UNCHANGED <<clients_id, reader, writer, handle, playerVars,
                   toServer, toClientClosed, toServerClosed, broken>>

WriterPong ==
    /\ WriterReceives("AnswerPingPacket")
    /\ toClient' = Append(toClient, ProxyPong)
    /\ rx' = Tail(rx)
    /\ UNCHANGED <<clients_id, reader, writer, handle, playerVars,
                   toServer, toClientClosed, toServerClosed, broken>>

WriterRemove ==
    /\ WriterReceives("RemoveMinecraftClient")
    /\ LET i == Head(rx).id
       IN  /\ clients_id' = remove_by_id(clients_id, i)
           /\ toClient' = IF remove_by_id_returns(clients_id, i)
                          THEN Append(toClient, ProxyDisconnect(i))
                          ELSE toClient
    /\ rx' = Tail(rx)
    /\ UNCHANGED <<reader, writer, handle, playerVars,
                   toServer, toClientClosed, toServerClosed, broken>>

\* feed or flush reports that the connection is broken.
WriterFails ==
    /\ writer = "run"
    /\ ServerSeesErrors
    /\ WriterEnds
    /\ UNCHANGED <<clients_id, reader, handle, playerVars,
                   toClient, toServer, toServerClosed, broken>>

-----------------------------------------------------------------------------
(* handle: the first of the two tasks to end ends the tunnel.              *)

\* Variant: both tasks are joined instead of selected.
HandleSelect_Join ==
    /\ handle = "select"
    /\ reader = "ended" /\ writer = "ended"
    /\ handle' = "removing"
    /\ UNCHANGED <<clients_id, rx, reader, writer, playerVars, wireVars>>

\* select returns; the other task is aborted, which it notices on its own.
HandleSelect ==
    /\ handle = "select"
    /\ reader = "ended" \/ writer = "ended"
    /\ handle' = "removing"
    /\ UNCHANGED <<clients_id, rx, reader, writer, playerVars, wireVars>>

\* into_disconnected: remove_server, then handle returns.
HandleReturns ==
    /\ handle = "removing"
    /\ handle' = "returned"
    /\ UNCHANGED <<clients_id, rx, reader, writer, playerVars, wireVars>>

ReaderAborted ==
    /\ handle # "select" /\ reader = "run"
    /\ ReaderEnds
    /\ UNCHANGED <<clients_id, rx, writer, handle, playerVars,
                   toClient, toServer, toServerClosed, broken>>

WriterAborted ==
    /\ handle # "select" /\ writer = "run"
    /\ WriterEnds
    /\ UNCHANGED <<clients_id, reader, handle, playerVars,
                   toClient, toServer, toServerClosed, broken>>

-----------------------------------------------------------------------------
(* A player: MCClient::new, then client_reader and client_writer.          *)

\* proxy_tx came out of the register, maybe before this tunnel ended.
PlayerConnect(p) ==
    /\ mc[p] = "idle"
    /\ IF writer = "run"
       THEN /\ rx' = Append(rx, AddMinecraftClient(p))
            /\ mc' = [mc EXCEPT ![p] = "wait_id"]
       ELSE /\ mc' = [mc EXCEPT ![p] = "done"]
            /\ UNCHANGED rx
    /\ UNCHANGED <<clients_id, reader, writer, handle, id, mcRx, mcReader, mcWriter,
                   sent, rcvd, wireVars>>

\* The oneshot delivers the id: the first data is sent, the tasks are spawned.
PlayerStart(p) ==
    /\ mc[p] = "wait_id"
    /\ id[p] # NoID
    /\ IF writer = "run"
       THEN /\ rx' = Append(rx, Packet(id[p], p, 1))
            /\ mc' = [mc EXCEPT ![p] = "running"]
            /\ mcReader' = [mcReader EXCEPT ![p] = "run"]
            /\ mcWriter' = [mcWriter EXCEPT ![p] = "run"]
            /\ sent' = [sent EXCEPT ![p] = 1]
            /\ UNCHANGED mcRx
       ELSE /\ mc' = [mc EXCEPT ![p] = "done"]
            /\ mcRx' = [mcRx EXCEPT ![p] = <<>>]
            /\ UNCHANGED <<rx, mcReader, mcWriter, sent>>
    /\ UNCHANGED <<clients_id, reader, writer, handle, id, rcvd, wireVars>>

\* The oneshot sender was dropped unused: "no client id".
PlayerNoId(p) ==
    /\ mc[p] = "wait_id"
    /\ id[p] = NoID
    /\ ~ Contains(rx, AddMinecraftClient(p))
    /\ mc' = [mc EXCEPT ![p] = "done"]
    /\ mcRx' = [mcRx EXCEPT ![p] = <<>>]
    /\ UNCHANGED <<sessionVars, id, mcReader, mcWriter, sent, rcvd, wireVars>>

PlayerReads(p) ==
    /\ mcReader[p] = "run"
    /\ sent[p] < MaxSent
    /\ IF writer = "run"
       THEN /\ rx' = Append(rx, Packet(id[p], p, sent[p] + 1))
            /\ sent' = [sent EXCEPT ![p] = @ + 1]
            /\ UNCHANGED mcReader
       ELSE /\ mcReader' = [mcReader EXCEPT ![p] = "ended"]
            /\ UNCHANGED <<rx, sent>>
    /\ UNCHANGED <<clients_id, reader, writer, handle, mc, id, mcRx, mcWriter, rcvd,
                   wireVars>>

\* End of file, a read error, or 60 seconds without a byte.
PlayerLeaves(p) ==
    /\ mcReader[p] = "run"
    /\ mcReader' = [mcReader EXCEPT ![p] = "ended"]
    /\ UNCHANGED <<sessionVars, mc, id, mcRx, mcWriter, sent, rcvd, wireVars>>

\* client_writer writes one packet of its channel to the player's socket.
PlayerWrites(p) ==
    /\ mcWriter[p] = "run"
    /\ mcRx[p] # <<>>
    /\ mcRx' = [mcRx EXCEPT ![p] = Tail(@)]
    /\ rcvd' = IF Head(mcRx[p]).who = p
               THEN [rcvd EXCEPT ![p] = Head(mcRx[p]).n]
               ELSE rcvd
    /\ UNCHANGED <<sessionVars, mc, id, mcReader, mcWriter, sent, wireVars>>

PlayerWriteFails(p) ==
    /\ mcWriter[p] = "run"
    /\ mcRx[p] # <<>>
    /\ mcWriter' = [mcWriter EXCEPT ![p] = "ended"]
    /\ mcRx' = [mcRx EXCEPT ![p] = <<>>]
    /\ UNCHANGED <<sessionVars, mc, id, mcReader, sent, rcvd, wireVars>>

\* The channel is drained and its sender is gone.
PlayerChannelClosed(p) ==
    /\ mcWriter[p] = "run"
    /\ mcRx[p] = <<>>
    /\ ~ McTxAlive(p)
    /\ mcWriter' = [mcWriter EXCEPT ![p] = "ended"]
    /\ UNCHANGED <<sessionVars, mc, id, mcRx, mcReader, sent, rcvd, wireVars>>

\* Variant: only a player whose channel was closed reports its end.
PlayerEnds_Silent(p) ==
    /\ mc[p] = "running"
    /\ mcReader[p] = "ended" \/ mcWriter[p] = "ended"
    /\ mc' = [mc EXCEPT ![p] = "done"]
    /\ rx' = IF writer = "run" /\ mcWriter[p] = "ended"
             THEN Append(rx, RemoveMinecraftClient(id[p])) ELSE rx
    /\ UNCHANGED <<clients_id, reader, writer, handle, id, mcRx, mcReader, mcWriter,
                   sent, rcvd, wireVars>>

\* MCClient::handle: the first task to end ends the player.
PlayerEnds(p) ==
    /\ mc[p] = "running"
    /\ mcReader[p] = "ended" \/ mcWriter[p] = "ended"
    /\ mc' = [mc EXCEPT ![p] = "done"]
    /\ rx' = IF writer = "run" THEN Append(rx, RemoveMinecraftClient(id[p])) ELSE rx
    /\ UNCHANGED <<clients_id, reader, writer, handle, id, mcRx, mcReader, mcWriter,
                   sent, rcvd, wireVars>>

\* The other task notices the abort.
PlayerAborted(p) ==
    /\ mc[p] = "done"
    /\ mcReader[p] = "run" \/ mcWriter[p] = "run"
    /\ mcReader' = [mcReader EXCEPT ![p] = "ended"]
    /\ mcWriter' = [mcWriter EXCEPT ![p] = "ended"]
    /\ mcRx' = [mcRx EXCEPT ![p] = <<>>]
    /\ UNCHANGED <<sessionVars, mc, id, sent, rcvd, wireVars>>

-----------------------------------------------------------------------------
ReaderNext ==
    \/ ReaderDisconnect \/ ReaderData \/ ReaderPing \/ ReaderUnexpected
    \/ ReaderClosed \/ ReaderFails

WriterNext ==
    \/ WriterAdd \/ WriterTooManyClients \/ WriterPacket \/ WriterPong
    \/ WriterRemove \/ WriterFails

HandleNext == HandleSelect \/ HandleReturns \/ ReaderAborted \/ WriterAborted

PlayerNext(p) ==
    \/ PlayerConnect(p) \/ PlayerStart(p) \/ PlayerNoId(p)
    \/ PlayerReads(p) \/ PlayerLeaves(p)
    \/ PlayerWrites(p) \/ PlayerWriteFails(p) \/ PlayerChannelClosed(p)
    \/ PlayerEnds(p) \/ PlayerAborted(p)

ServerNext ==
    ReaderNext \/ WriterNext \/ HandleNext \/ \E p \in Players : PlayerNext(p)

\* Every player is over: the only states in which the system may stand still,
\* with a tunnel that waits for more players or with one that has ended.
Finished ==
    /\ \A p \in Players :
          mc[p] = "done" /\ mcReader[p] # "run" /\ mcWriter[p] # "run"
    /\ UNCHANGED vars

\* ProxyPong stands for every packet type a client has no reason to send.
EnvPackets ==
    {ProxyData(i, p, n) : i \in WireID, p \in Players, n \in 1 .. MaxReply}
        \cup {ProxyDisconnect(i) : i \in WireID}
        \cup {ProxyPing, ProxyPong}

\* The peer, as far as this module knows it: it sends packets of any type with
\* any id, takes packets in order, and may close its end once.
EnvSends ==
    /\ ~ toServerClosed
    /\ \E pkg \in EnvPackets : toServer' = Append(toServer, pkg)
    /\ UNCHANGED <<serverVars, toClient, toClientClosed, toServerClosed, broken>>

EnvReceives ==
    /\ toClient # <<>>
    /\ toClient' = Tail(toClient)
    /\ UNCHANGED <<serverVars, toServer, toClientClosed, toServerClosed, broken>>

EnvCloses ==
    /\ ~ toServerClosed
    /\ toServerClosed' = TRUE
    /\ UNCHANGED <<serverVars, toClient, toServer, toClientClosed, broken>>

EnvNext ==
    \/ EnvSends \/ EnvReceives \/ EnvCloses
    \/ LinkBreaks /\ UNCHANGED serverVars

Init == ServerInit /\ WireInit

Next == ServerNext \/ EnvNext \/ Finished

Spec == Init /\ [][Next]_vars

-----------------------------------------------------------------------------
(* Properties.  They hold whatever the CraftIP client sends.               *)

\* A slot holds the channel of the player that was told its number, so one
\* player never owns two slots and the id a player addresses its packets with
\* is the one its answers come back on (insert and id_sender.send agree).
SlotOwnership ==
    \A i \in ClientID : \A p \in Players :
        clients_id[i] = p => id[p] = i /\ mc[p] # "idle"

\* A slot is never leaked: when the player that owns it is over, the message
\* that frees the slot is still in the writer's channel.  It takes the player's
\* three tasks, the writer and the oneshot to agree on every way a player can
\* end (EOF, write error, kicked by the client, tunnel torn down).
NoSlotLeak ==
    \A i \in ClientID : \A p \in Players :
        writer = "run" /\ clients_id[i] = p /\ mc[p] = "done"
            => Contains(rx, RemoveMinecraftClient(i))

\* A player waits for its id only as long as somebody can still answer: its
\* request is queued, it has been answered, or the channel is gone and the
\* oneshot reports it (MCClient::new awaits id_rx without a timeout).
WaiterServed ==
    \A p \in Players :
        mc[p] = "wait_id" /\ id[p] = NoID =>
            (writer = "run" <=> Contains(rx, AddMinecraftClient(p)))

\* On the stream to the client a player's join comes before all of its data,
\* and both carry the id of its slot: otherwise reader_handler would find no
\* connection for the first packet and end the tunnel.
JoinBeforeData ==
    \A k \in 1 .. Len(toClient) :
        toClient[k].type = "ProxyData" =>
            /\ toClient[k].id = id[toClient[k].who]
            /\ \A j \in k .. Len(toClient) :
                  ~ (toClient[j].type = "ProxyJoin" /\ toClient[j].who = toClient[k].who)

\* A slot changes hands only by being empty in between: insert never takes the
\* slot of a connected player away.
NoTakeover ==
    [][\A i \in ClientID :
          clients_id[i] # NoPlayer => clients_id'[i] \in {clients_id[i], NoPlayer}]_vars
=============================================================================
