------------------------------- MODULE Tunnel -------------------------------
(***************************************************************************)
(* A whole tunnel: the server's session, the real CraftIP client in place  *)
(* of the session's environment, and the two streams between them.         *)
(***************************************************************************)
EXTENDS ServerSession, ClientAgent

tunnelVars == <<serverVars, agentVars, wireVars>>

TunnelTypeOK == TypeOK /\ AgentTypeOK

TunnelInit == ServerInit /\ AgentInit /\ WireInit

ServerStep == ServerNext /\ UNCHANGED agentVars
AgentStep  == AgentNext /\ UNCHANGED serverVars

\* Players are the only source of work; the client may keep connections whose
\* Minecraft server is silent.
TunnelFinished == Finished /\ UNCHANGED agentVars

LinkStep == LinkBreaks /\ UNCHANGED <<serverVars, agentVars>>

TunnelNext == ServerStep \/ AgentStep \/ LinkStep \/ TunnelFinished

TunnelSpec == TunnelInit /\ [][TunnelNext]_tunnelVars

(***************************************************************************)
(* The runtime polls every task that can make progress, the kernel reports *)
(* a closed stream and the result of a connect, and a broken connection is *)
(* noticed after TIMEOUT_IN_SEC at the latest.  Nothing obliges a player   *)
(* or a Minecraft server to send, to close or to fail, and the network     *)
(* never has to break.                                                     *)
(***************************************************************************)
ServerFairness ==
    /\ WF_tunnelVars((ReaderDisconnect \/ ReaderData \/ ReaderPing \/ ReaderClosed
                      \/ (broken /\ ReaderFails)) /\ UNCHANGED agentVars)
    /\ WF_tunnelVars((WriterAdd \/ WriterTooManyClients \/ WriterPacket \/ WriterPong
                      \/ WriterRemove) /\ UNCHANGED agentVars)
    /\ WF_tunnelVars(HandleNext /\ UNCHANGED agentVars)
    /\ \A p \in Players :
          WF_tunnelVars((PlayerStart(p) \/ PlayerNoId(p) \/ PlayerWrites(p)
                         \/ PlayerChannelClosed(p) \/ PlayerEnds(p) \/ PlayerAborted(p))
                        /\ UNCHANGED agentVars)

AgentFairness ==
    /\ WF_tunnelVars((AgentJoin \/ AgentData \/ AgentDisconnect \/ AgentPong
                      \/ AgentReaderClosed \/ AgentTakesDisconnect \/ AgentWriterGone
                      \/ (broken /\ AgentReaderFails)) /\ UNCHANGED serverVars)
    /\ WF_tunnelVars((AgentWritesPacket \/ AgentWritesDisconnect \/ AgentWriterDies
                      \/ AgentWritesPing \/ AgentWriterAborted) /\ UNCHANGED serverVars)
    /\ \A p \in Players :
          WF_tunnelVars((ConnConnects(p) \/ ConnConnectFails(p) \/ ConnWrites(p)
                         \/ ConnChannelClosed(p)) /\ UNCHANGED serverVars)

FairTunnel == TunnelSpec /\ ServerFairness /\ AgentFairness

-----------------------------------------------------------------------------
(* Safety.                                                                 *)

\* The client never keeps the connection of a player that lost its slot on the
\* server without its end being on the way: a disconnect on the stream, a
\* removal in the writer's channel, or a player that has yet to send one.  The
\* second half of the tear-down rests on remove_by_id answering TRUE for a
\* slot that is empty already.
NoOrphan(P) ==
    \A i \in ClientID : \A p \in P :
        writer = "run" /\ connections[i] = p /\ clients_id[i] # p =>
            \/ Contains(toClient, ProxyDisconnect(i))
            \/ Contains(rx, RemoveMinecraftClient(i))
            \/ mc[p] \in {"wait_id", "running"}

NoOrphanConnection == NoOrphan(Players)

\* What reaches the Minecraft server of a player's own bytes is a beginning of
\* what the player sent, packet by packet: the first packet may arrive before the
\* connection to the server is up, and the slot may have changed hands.
Up == INSTANCE Pipe WITH src <- sent, dst <- dlvd
UpstreamInOrder == Up!Spec

\* The same for what reaches a player of its own Minecraft server's bytes, which
\* may arrive before the player has learned its id.
Down == INSTANCE Pipe WITH src <- replied, dst <- rcvd
DownstreamInOrder == Down!Spec

\* The number of clients the statistics show never falls below the number of
\* connections that are open: no removal is counted twice.
CountCoversConnections ==
    Cardinality({i \in ClientID : connections[i] # NoPlayer}) <= connections_len

\* The client is a legal environment of the server's session, so what is proved
\* of ServerSession for every client holds in the tunnel.
ImplementsServerSession == Spec

-----------------------------------------------------------------------------
(* Liveness, under FairTunnel.                                             *)

\* The tunnel's end reaches every player: nobody stays connected to a session
\* that has returned, or waits for an id that will never come.
TeardownReachesPlayers ==
    \A p \in Players :
        (handle = "returned" /\ mc[p] # "idle") ~> (mc[p] = "done")

\* A request for a slot is answered or refused.
JoinIsAnswered == \A p \in Players : (mc[p] = "wait_id") ~> (mc[p] # "wait_id")

\* When one side gives up the tunnel, or the link breaks, both sides end it;
\* each side's reader, writer and time-out have to find out by themselves.
BothSidesEnd ==
    (c_reader # "run" \/ handle # "select" \/ broken)
        ~> (c_reader # "run" /\ handle = "returned")

\* A player that left frees its slot and its connection to the Minecraft
\* server, or the tunnel is over.
LeavingFreesBothSides ==
    \A p \in Players :
        (mc[p] = "done") ~>
            \/ c_reader # "run"
            \/ p \notin Range(clients_id) /\ p \notin Range(connections)
               /\ conn[p] \in {"none", "ended"}

-----------------------------------------------------------------------------
(* Statements of comments and of the README that the code does not meet.   *)

\* proxy_handler.rs:71 and 274: remove_by_id "Returns true if existed", and a
\* client that "has already been removed" is not disconnected again.
DisconnectOnlyPresentClient ==
    [][WriterRemove /\ toClient' # toClient => clients_id[Head(rx).id] # NoPlayer]_tunnelVars

\* README.md:10-11: the server forwards the traffic of a Minecraft client, the
\* client forwards its connection to the Minecraft server: a connection carries
\* the bytes of its own player only.
Isolation ==
    \A p \in Players :
        /\ \A k \in 1 .. Len(client_rx[p]) : client_rx[p][k].who = p
        /\ \A k \in 1 .. Len(mcRx[p]) : mcRx[p][k].who = p
=============================================================================
