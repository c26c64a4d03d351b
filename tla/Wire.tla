-------------------------------- MODULE Wire --------------------------------
(***************************************************************************)
(* The TCP connection between a CraftIP server and one CraftIP client, and *)
(* the packets it carries (crates/protocol/src/socket_packet.rs).  Each    *)
(* direction is a FIFO byte stream of whole packets: the codec delivers a  *)
(* packet only when all of it has arrived.  Both endpoints EXTEND this     *)
(* module, so that they share the streams.                                 *)
(*                                                                         *)
(* A packet carries what the code reads of it (type, id) and two ghost     *)
(* fields that no action tests: "who", the player a join is for or whose   *)
(* bytes a data packet carries, and "n", the number of the data packet in  *)
(* that player's own traffic.                                              *)
(***************************************************************************)
EXTENDS Integers, Sequences, SequencesExt

CONSTANTS
    Players,          \* the Minecraft connections of one tunnel's life time
    NoPlayer,         \* "None" where a slot holds no channel
    MAXIMUM_CLIENTS,  \* slots per tunnel, 255 in crates/protocol/src/config.rs
    MaxReply,         \* bound: data packets a Minecraft server sends to one player
    LinkMayBreak      \* whether the connection may fail by itself

ASSUME WireAssumption ==
    /\ NoPlayer \notin Players
    /\ MAXIMUM_CLIENTS \in Nat \ {0}
    /\ MaxReply \in Nat
    /\ LinkMayBreak \in BOOLEAN

VARIABLES
    toClient,         \* packets in flight from the server to the client
    toServer,         \* packets in flight from the client to the server
    toClientClosed,   \* the server dropped its end: end of file after toClient
    toServerClosed,   \* the client dropped its write half
    broken            \* the connection failed: reset, or silent for ever

wireVars == <<toClient, toServer, toClientClosed, toServerClosed, broken>>

\* The ids both slot arrays can be indexed with.
ClientID == 0 .. MAXIMUM_CLIENTS - 1

\* The ids a packet can name; the last one stands for all ids out of range.
WireID == 0 .. MAXIMUM_CLIENTS

NoID == -1

Owner == Players \cup {NoPlayer}

SocketPacket ==
    [type : {"ProxyJoin", "ProxyData", "ProxyDisconnect", "ProxyPing", "ProxyPong"},
     id   : WireID \cup {NoID},
     who  : Owner,
     n    : Nat]

ProxyJoin(i, p)    == [type |-> "ProxyJoin", id |-> i, who |-> p, n |-> 0]
ProxyData(i, p, n) == [type |-> "ProxyData", id |-> i, who |-> p, n |-> n]
ProxyDisconnect(i) == [type |-> "ProxyDisconnect", id |-> i, who |-> NoPlayer, n |-> 0]
ProxyPing          == [type |-> "ProxyPing", id |-> NoID, who |-> NoPlayer, n |-> 0]
ProxyPong          == [type |-> "ProxyPong", id |-> NoID, who |-> NoPlayer, n |-> 0]

WireTypeOK ==
    /\ toClient \in Seq(SocketPacket)
    /\ toServer \in Seq(SocketPacket)
    /\ toClientClosed \in BOOLEAN
    /\ toServerClosed \in BOOLEAN
    /\ broken \in BOOLEAN

WireInit ==
    /\ toClient = <<>>
    /\ toServer = <<>>
    /\ toClientClosed = FALSE
    /\ toServerClosed = FALSE
    /\ broken = FALSE

\* Each end finds out in its own time, by a reset, by a write error or by
\* TIMEOUT_IN_SEC without a packet; until then packets may still arrive.
LinkBreaks ==
    /\ LinkMayBreak
    /\ ~ broken
    /\ broken' = TRUE
    /\ UNCHANGED <<toClient, toServer, toClientClosed, toServerClosed>>

\* An end sees errors when the connection failed or its peer closed it.
ServerSeesErrors == broken \/ toServerClosed
ClientSeesErrors == broken \/ toClientClosed
=============================================================================
