------------------------------- MODULE Socket -------------------------------
(***************************************************************************)
(* The first seconds of one TCP connection to the server: how              *)
(* process_socket_connection tells a CraftIP client from a Minecraft       *)
(* client, how handle_minecraft_client finds the tunnel a player asks for, *)
(* how handle_mc_disconnect answers a player whose server is not online,   *)
(* and how the bytes of a CraftIP client become packets again.  The peer's *)
(* bytes arrive in pieces of any size, and it may close, reset or fall     *)
(* silent at any of them.                                                  *)
(*                                                                         *)
(* The model ends where others begin: "joined" with MCClient::new in       *)
(* ServerSession, "frames" with ProxyClient::new in Registration.          *)
(***************************************************************************)
EXTENDS MinecraftHello, Codec

CONSTANTS
    Peers,      \* the peers that may connect
    Hosts,      \* hostnames with a key, as sequences of labels
    NoHost

\* The labels spell a host: its own, one that starts with "random-" perhaps before
\* them and dots perhaps behind.
Spells(labels, host) ==
    \E at \in {0, 1} :
        /\ at = 1 => labels[1] \in RandomLabels
        /\ at + Len(host) <= Len(labels)
        /\ host = SubSeq(labels, at + 1, at + Len(host))
        /\ \A i \in DOMAIN labels : i > at + Len(host) => labels[i] = EmptyLabel

\* A host is a name without dots at its end.
ASSUME HostsAssumption ==
    /\ NoHost \notin Hosts
    /\ Hosts \subseteq Seq(DOMAIN LabelSize) \ {<<>>}
    /\ \A h \in Hosts : h[1] \notin RandomLabels /\ h[Len(h)] # EmptyLabel

\* A player has a hello, the host it means by it and what it sends next: a
\* ping after the status it asks for, a login at once, or something else.  A
\* CraftIP client has the packets it sends.
ASSUME PeersAssumption ==
    \A p \in Peers :
        \/ /\ p.kind = "player" /\ IsHello(p.hello)
           /\ \/ p.meant \in Hosts /\ Spells(p.hello.text.labels, p.meant)
              \/ p.meant = NoHost /\ \A h \in Hosts : ~ Spells(p.hello.text.labels, h)
           /\ p.follow \in {"ping", "login", "other"}
           /\ p.follow = "ping" => p.hello.format = "new" /\ p.hello.next_state = 1
        \/ /\ p.kind = "agent"
           /\ p.packets \in Seq(Packets)

VARIABLES
    peer,       \* who connected
    sent,       \* bytes of the peer that have arrived
    conn,       \* "open", "closed" by the peer, or "reset"
    servers,    \* Register.servers, the hosts that have a tunnel
    pc,         \* where process_socket_connection stands
    read,       \* bytes taken from the socket
    packet,     \* the parsed hello
    tunnel,     \* the host whose tunnel get_server returned
    out,        \* the answers written
    head,       \* first byte that is not decoded yet
    decoded,    \* packets that came out of the frames
    late        \* TIMEOUT_IN_SEC has expired

vars == <<peer, sent, conn, servers, pc, read, packet, tunnel, out, head, decoded, late>>

NoPacket == [length |-> 0]

PROXY_IDENTIFIER == 7   \* bytes of "CraftIP"
FramesFrom == PROXY_IDENTIFIER + 2

HelloSize(h) ==
    CASE h.format = "new" -> varint_size(h.pkg_length) + ContentSize(h.version, h.text)
      [] h.format = "old_ping" -> OLD_MINECRAFT_START + 3 + 2 + 2 * text_len(h.text) + 4
      [] h.format = "old_connect" -> 2 + 2 + 2 * h.user + 2 + 2 * text_len(h.text) + 4

FollowSize == [ping |-> 12, login |-> 3, other |-> 12]

AgentPeers == {p \in Peers : p.kind = "agent"}

\* Where the frames of a CraftIP client begin, and one would begin after the last.
FrameStart ==
    [p \in AgentPeers |-> [k \in 1..Len(p.packets) + 1 |-> FrameAt(p.packets, FramesFrom, k)]]

\* The bytes of a player's hello, or all of a CraftIP client.
Size ==
    [p \in Peers |-> IF p \in AgentPeers THEN FrameStart[p][Len(p.packets) + 1]
                     ELSE HelloSize(p.hello)]

\* bound: where the bytes may be cut.  Those of a player anywhere, but not in the
\* middle of a very long name; those of a CraftIP client around the ends of all
\* fields and frames.
FineCuts == 24
Cuts ==
    [p \in Peers |->
        IF p \in AgentPeers
        THEN {1, PROXY_IDENTIFIER, FramesFrom - 1} \cup
             {c \in {FrameStart[p][k] + d : k \in DOMAIN FrameStart[p], d \in -1..3} :
                c <= Size[p]}
        ELSE LET all == Size[p] + FollowSize[p.follow]
             IN  {c \in 1..all : c <= FineCuts \/ all - c <= FineCuts}]

\* MinecraftHelloPacket::new on every number of bytes of every player; a table,
\* so that TLC parses once.
Parsed ==
    [p \in Peers \ AgentPeers |->
        [n \in 0..Size[p] + FollowSize[p.follow] |-> new(p.hello, n)]]

\* What the peer can have sent: the ping only follows the status response.
Sendable ==
    IF peer.kind = "agent" THEN Size[peer]
    ELSE Size[peer] + IF peer.follow = "ping" /\ out = <<>> THEN 2 ELSE FollowSize[peer.follow]

Handshake == {"peek", "hello", "lookup", "answer", "pong", "ident", "version"}
Settled == {"joined", "frames", "gone"}

SocketTypeOK ==
    /\ peer \in Peers
    /\ sent \in 0..Sendable
    /\ conn \in {"open", "closed", "reset"}
    /\ servers \subseteq Hosts
    /\ pc \in Handshake \cup Settled
    /\ read \in 0..sent
    /\ packet = NoPacket \/ packet.length \in 1..read
    /\ tunnel \in Hosts \cup {NoHost}
    /\ out \in {<<>>, <<"status">>, <<"status", "pong">>, <<"kick">>, <<"legacy kick">>}
    /\ head \in 0..read
    /\ Len(decoded) <= IF peer.kind = "agent" THEN Len(peer.packets) ELSE 0
    /\ late \in BOOLEAN

Init ==
    /\ peer \in Peers
    /\ sent = 0 /\ conn = "open"
    /\ servers = {}
    /\ pc = "peek" /\ read = 0
    /\ packet = NoPacket /\ tunnel = NoHost /\ out = <<>>
    /\ head = 0 /\ decoded = <<>>
    /\ late = FALSE

-----------------------------------------------------------------------------
(* The peer, the network and the other connections.                        *)

\* What arrives between two reads counts as one piece.
Arrive ==
    /\ conn = "open" /\ (sent = read \/ pc = "peek")
    /\ sent' \in {c \in Cuts[peer] : sent < c /\ c <= Sendable}
    /\ UNCHANGED <<peer, conn, servers, pc, read, packet, tunnel, out, head, decoded, late>>

PeerCloses(how) ==
    /\ conn = "open" /\ pc # "gone"
    /\ conn' = how
    /\ UNCHANGED <<peer, sent, servers, pc, read, packet, tunnel, out, head, decoded, late>>

\* A tunnel is registered or ends; only the lookup sees it, so all that happened
\* before it happens just before it.
RegisterChanges(h) ==
    /\ pc = "lookup"
    /\ servers' = IF h \in servers THEN servers \ {h} ELSE servers \cup {h}
    /\ UNCHANGED <<peer, sent, conn, pc, read, packet, tunnel, out, head, decoded, late>>

-----------------------------------------------------------------------------
(* process_socket_connection                                               *)

Goto(from, to) == pc = from /\ pc' = to

CanRead == conn # "reset" /\ sent > read
EndOfFile == conn = "closed" /\ sent = read

\* Variant: whatever has arrived is compared with the identifier.
Peek_AnyLength ==
    /\ conn # "reset" /\ sent > 0
    /\ Goto("peek", IF peer.kind = "agent" /\ sent >= PROXY_IDENTIFIER THEN "ident" ELSE "hello")
    /\ UNCHANGED <<peer, sent, conn, servers, read, packet, tunnel, out, head, decoded, late>>

\* Nothing is decided before as many bytes as the identifier has are there.
Peek ==
    /\ conn # "reset" /\ sent >= PROXY_IDENTIFIER
    /\ Goto("peek", IF peer.kind = "agent" THEN "ident" ELSE "hello")
    /\ UNCHANGED <<peer, sent, conn, servers, read, packet, tunnel, out, head, decoded, late>>

\* read_exact
ReadIdentifier ==
    /\ CanRead
    /\ Goto("ident", "version")
    /\ read' = PROXY_IDENTIFIER
    /\ UNCHANGED <<peer, sent, conn, servers, packet, tunnel, out, head, decoded, late>>

\* read_u16; which version it is does not matter.
ReadVersion ==
    /\ CanRead /\ sent >= FramesFrom
    /\ Goto("version", "frames")
    /\ read' = FramesFrom /\ head' = FramesFrom
    /\ UNCHANGED <<peer, sent, conn, servers, packet, tunnel, out, decoded, late>>

\* Variant: the hello is awaited without a limit.
TimeOut_NotHello ==
    /\ pc \in {"peek", "pong", "ident", "version", "frames"}
    /\ pc' = "gone" /\ late' = TRUE
    /\ UNCHANGED <<peer, sent, conn, servers, read, packet, tunnel, out, head, decoded>>

\* TIMEOUT_IN_SEC since the accept; in "pong" since the lookup; in "frames"
\* also without a packet.
TimeOut ==
    /\ pc \in {"peek", "hello", "pong", "ident", "version", "frames"}
    /\ pc' = "gone" /\ late' = TRUE
    /\ UNCHANGED <<peer, sent, conn, servers, read, packet, tunnel, out, head, decoded>>

\* A read returns an error: the connection was reset, or it ended inside a
\* read_exact.
ReadFails ==
    /\ \/ pc \in {"peek", "hello", "pong", "ident", "version", "frames"} /\ conn = "reset"
       \/ pc = "version" /\ conn = "closed" /\ sent < FramesFrom
    /\ pc' = "gone"
    /\ UNCHANGED <<peer, sent, conn, servers, read, packet, tunnel, out, head, decoded, late>>

-----------------------------------------------------------------------------
(* handle_minecraft_client                                                 *)

\* A CraftIP client never comes here: its "Cr" would be an unknown packet id.
Parse(n) == IF peer.kind = "player" THEN Parsed[peer][n] ELSE [is |-> "err"]

\* first_minecraft_packet: everything that has arrived is read and parsed from
\* the start; an error of the parser is taken for a hello still incomplete.  At
\* the end of the file the loop spins without a change, until TimeOut.
ReadHello ==
    LET res == Parse(sent)
    IN  /\ CanRead
        /\ pc = "hello"
        /\ read' = sent
        /\ IF res.is = "some" THEN packet' = res.packet /\ pc' = "lookup"
           ELSE UNCHANGED <<packet, pc>>
        /\ UNCHANGED <<peer, sent, conn, servers, tunnel, out, head, decoded, late>>

get_server(text) ==
    IF text.marker = "none" /\ text.labels \in servers THEN text.labels ELSE NoHost

Lookup ==
    LET host == get_server(clean_up_hostname(packet.hostname))
    IN  /\ Goto("lookup", IF host = NoHost THEN "answer" ELSE "joined")
        /\ tunnel' = host
        /\ UNCHANGED <<peer, sent, conn, servers, read, packet, out, head, decoded, late>>

\* Variant: the status stays in a buffer until the ping is there.
Answer_Buffered ==
    /\ Goto("answer", IF packet.pkg_type = "Ping" THEN "pong" ELSE "gone")
    /\ out' = IF packet.pkg_type = "Ping" THEN out ELSE generate_response(packet.pkg_type)
    /\ UNCHANGED <<peer, sent, conn, servers, read, packet, tunnel, head, decoded, late>>

\* handle_mc_disconnect: the response is written first, whether it arrives or not.
Answer ==
    /\ Goto("answer", IF packet.pkg_type = "Ping" THEN "pong" ELSE "gone")
    /\ out' = IF conn = "reset" THEN out ELSE generate_response(packet.pkg_type)
    /\ UNCHANGED <<peer, sent, conn, servers, read, packet, tunnel, head, decoded, late>>

Buffered == read - packet.length

ReadPing ==
    /\ pc = "pong" /\ Buffered < 12
    /\ CanRead
    /\ read' = sent
    /\ UNCHANGED <<peer, sent, conn, servers, pc, packet, tunnel, out, head, decoded, late>>

EndOfPing ==
    /\ Buffered < 12 /\ EndOfFile
    /\ Goto("pong", "gone")
    /\ UNCHANGED <<peer, sent, conn, servers, read, packet, tunnel, out, head, decoded, late>>

\* 0x0100 0x0901 stand behind the hello, in a buffer that begins at from.
PingFollows(from) == peer.follow = "ping" /\ from = Size[peer]

\* If the write fails, unwrap ends the task.
Pong ==
    /\ Buffered >= 12
    /\ Goto("pong", "gone")
    /\ out' = IF PingFollows(packet.length) /\ conn # "reset" THEN Append(out, "pong") ELSE out
    /\ UNCHANGED <<peer, sent, conn, servers, read, packet, tunnel, head, decoded, late>>

-----------------------------------------------------------------------------
(* Framed<TcpStream, PacketCodec>                                          *)

\* What decode makes of the buffer: nothing of an empty one, and no packet when
\* the buffer does not begin where a frame does.
Decoded ==
    LET here == {k \in DOMAIN peer.packets : FrameStart[peer][k] = head}
    IN  IF head = read THEN [is |-> "none"]
        ELSE IF here = {} THEN [is |-> "err"]
        ELSE decode_from(peer.packets[CHOOSE k \in here : TRUE], read - head)

Decode ==
    /\ pc = "frames" /\ Decoded.is # "none"
    /\ IF Decoded.is = "some"
       THEN /\ decoded' = Append(decoded, Decoded.packet)
            /\ head' = head + Decoded.moved
            /\ UNCHANGED pc
       ELSE pc' = "gone" /\ UNCHANGED <<decoded, head>>
    /\ UNCHANGED <<peer, sent, conn, servers, read, packet, tunnel, out, late>>

\* Framed reads only when the buffer holds no whole frame.
ReadFrames ==
    /\ pc = "frames" /\ Decoded.is = "none"
    /\ CanRead
    /\ read' = sent
    /\ UNCHANGED <<peer, sent, conn, servers, pc, packet, tunnel, out, head, decoded, late>>

EndOfFrames ==
    /\ pc = "frames" /\ Decoded.is = "none"
    /\ EndOfFile
    /\ pc' = "gone"
    /\ UNCHANGED <<peer, sent, conn, servers, read, packet, tunnel, out, head, decoded, late>>

\* On an open connection, the task is at an await that only more bytes of the
\* peer or its timer end, or has left it to others.
Waits ==
    \/ pc = "peek" /\ sent < PROXY_IDENTIFIER
    \/ pc \in {"hello", "ident"} /\ sent = read
    \/ pc = "version" /\ sent < FramesFrom
    \/ pc = "pong" /\ Buffered < 12 /\ sent = read
    \/ pc = "frames" /\ Decoded.is = "none" /\ sent = read
    \/ pc \in {"joined", "gone"}

-----------------------------------------------------------------------------
Handler ==
    \/ Peek \/ ReadIdentifier \/ ReadVersion \/ ReadFails
    \/ ReadHello \/ Lookup \/ Answer \/ ReadPing \/ EndOfPing \/ Pong
    \/ Decode \/ ReadFrames \/ EndOfFrames

Next ==
    \/ Handler \/ TimeOut
    \/ Arrive \/ (\E how \in {"closed", "reset"} : PeerCloses(how))
    \/ \E h \in Hosts : RegisterChanges(h)

Spec == Init /\ [][Next]_vars

\* The task is scheduled whenever it can run, and its timer fires.
FairSpec == Spec /\ WF_vars(Handler) /\ WF_vars(TimeOut)

-----------------------------------------------------------------------------
\* A hello with the right fields.  The length field of a new one must take one
\* byte: new_pkg compares the position after the port, which includes the bytes
\* of the length field, with a length that includes the next state instead.
Proper(h) ==
    \/ h.format \in {"old_ping", "old_connect"}
    \/ /\ h.id = 0
       /\ h.pkg_length = ContentSize(h.version, h.text)
       /\ h.pkg_length < 128

\* However its bytes are cut, a hello is recognised as soon as all of it has been
\* read and not before, with its own length, version, host and kind, and
\* first_minecraft_packet never waits for more than the hello.
HelloAsSent ==
    LET h == peer.hello
    IN  peer.kind = "player" =>
        /\ pc = "hello" /\ Proper(h) => read < Size[peer]
        /\ packet # NoPacket =>
            /\ packet.length = Size[peer] /\ read >= Size[peer]
            /\ packet.version = h.version
            /\ packet.hostname.labels = h.text.labels
            /\ packet.forge <=> h.text.marker = "FORGE"
            /\ packet.pkg_type = IF h.format = "new" THEN PkgType(h.next_state) ELSE "Legacy"

\* handle_minecraft_client brings a player to the tunnel of the host it means,
\* if that tunnel is registered when it looks, and to none otherwise, however
\* the name is spelled: trailing dots, a "random-" label, a marker of a mod.
RoutedToHost ==
    [][pc = "lookup" /\ pc' # "lookup" =>
        tunnel' = IF peer.meant \in servers THEN peer.meant ELSE NoHost]_vars

\* The peer has sent all it will send before it hears more from the server, and
\* the server has nothing to do before it hears more from the peer.
Quiet == conn = "open" /\ ~ late /\ sent = Sendable /\ Waits

\* A player who pings a server that is not online, with a proper hello or one
\* that was recognised, and sends its ping only once it has the status, gets the
\* status and the pong: the two sides never wait for each other.
PingAnswered ==
    /\ Quiet
    /\ peer.kind = "player" /\ peer.follow = "ping"
    /\ Proper(peer.hello) \/ packet # NoPacket
    /\ tunnel = NoHost
    => out = <<"status", "pong">>

\* What comes out of the frames is what the CraftIP client put in, packet by
\* packet, with the payload sizes it had; the decoder never reads on while a
\* whole frame is in its buffer.
FramesInOrder ==
    peer.kind = "agent" =>
        LET k == Len(decoded)
        IN  /\ k <= Len(peer.packets)
            /\ decoded = SubSeq(peer.packets, 1, k)
            /\ pc = "frames" => head = FrameStart[peer][k + 1]
            /\ pc = "frames" /\ Decoded.is = "none" /\ k < Len(peer.packets) =>
                read < FrameStart[peer][k + 2]

\* A CraftIP client is never taken for a player, whatever part of its identifier
\* arrives first, and never left with a packet unread: when the server waits,
\* all that was sent has been decoded.
AgentHeard == Quiet /\ peer.kind = "agent" => decoded = peer.packets

\* Every connection leaves the handshake, also one that closes or falls silent
\* in the middle of its identifier, hello or ping.
SocketEnds == <>(pc \in Settled)
=============================================================================
