---------------------------- MODULE Registration ----------------------------
(***************************************************************************)
(* How CraftIP clients become registered tunnels and stop being it:        *)
(* process_socket_connection, ProxyClient::new, authenticate and handle of *)
(* the server, over the register all connections share (register.rs).      *)
(* Several connections compete for a hostname: two clients of one key, or  *)
(* one client that reconnects while its old connection is still dying.     *)
(*                                                                         *)
(* What happens inside a registered tunnel is ServerSession; here it only  *)
(* serves, until its reader or writer ends.  A Minecraft connection is     *)
(* the lookup in the register and the count of connected players.          *)
(***************************************************************************)
EXTENDS Crypto, FiniteSets

CONSTANTS
    Sockets,    \* connections of CraftIP clients
    NoSocket,
    NoKey,
    NoHost,
    Visitors    \* connections of Minecraft clients

\* The hostnames there are keys for.
Hosts == {get_hostname(k) : k \in Keys}

ASSUME RegistrationAssumption ==
    /\ NoSocket \notin Sockets
    /\ NoKey \notin Keys
    /\ NoHost \notin Hosts
    /\ IsFiniteSet(Visitors)

VARIABLES
    servers,        \* Register.servers: hostname -> the tunnel's channel
    client_count,   \* Register.client_count
    phase,          \* socket -> where process_socket_connection stands
    hostname,       \* socket -> the hostname of its hello packet
    pubkey,         \* socket -> the public key of its hello packet
    holds,          \* socket -> the key its client can sign with
    challenge,      \* socket -> the challenge it was sent, or 0
    issued,         \* challenges drawn so far
    link,           \* socket -> FALSE when the peer is gone or unreachable
    visit,          \* visitor -> where handle_minecraft_client stands
    proxy_tx        \* visitor -> the channel get_server returned

socketVars == <<phase, hostname, pubkey, holds, challenge, issued, link>>
visitVars  == <<client_count, visit, proxy_tx>>
vars       == <<servers, socketVars, visitVars>>

Handshake == {"peek", "hello", "auth", "challenged"}
Phase == {"new", "authenticated", "registered", "serving", "removing", "closed"}
            \cup Handshake
Visit == {"new", "joining", "joined", "playing", "left", "over"}

TypeOK ==
    /\ servers \in [Hosts -> Sockets \cup {NoSocket}]
    /\ client_count \in Nat
    /\ phase \in [Sockets -> Phase]
    /\ hostname \in [Sockets -> Hosts \cup {NoHost}]
    /\ pubkey \in [Sockets -> Keys \cup {NoKey}]
    /\ holds \in [Sockets -> Keys]
    /\ challenge \in [Sockets -> Nat]
    /\ issued \in Nat
    /\ link \in [Sockets -> BOOLEAN]
    /\ visit \in [Visitors -> Visit]
    /\ proxy_tx \in [Visitors -> Sockets \cup {NoSocket}]

Init ==
    /\ servers = [h \in Hosts |-> NoSocket]
    /\ client_count = 0
    /\ phase = [s \in Sockets |-> "new"]
    /\ hostname = [s \in Sockets |-> NoHost]
    /\ pubkey = [s \in Sockets |-> NoKey]
    /\ holds \in [Sockets -> Keys]
    /\ challenge = [s \in Sockets |-> 0]
    /\ issued = 0
    /\ link = [s \in Sockets |-> TRUE]
    /\ visit = [v \in Visitors |-> "new"]
    /\ proxy_tx = [v \in Visitors |-> NoSocket]

-----------------------------------------------------------------------------
(* The register.                                                           *)

\* Variant: an entry that exists is replaced.
add_server_Overwrites(h, s) == servers' = [servers EXCEPT ![h] = s]

add_server(h, s) ==
    /\ servers[h] = NoSocket
    /\ servers' = [servers EXCEPT ![h] = s]

remove_server(h) == servers' = [servers EXCEPT ![h] = NoSocket]

get_server(h) == servers[h]

-----------------------------------------------------------------------------
(* One connection of a CraftIP client.                                     *)

Goto(s, from, to) == phase[s] = from /\ phase' = [phase EXCEPT ![s] = to]

Accept(s) ==
    /\ Goto(s, "new", "peek")
    /\ UNCHANGED <<servers, hostname, pubkey, holds, challenge, issued, link, visitVars>>

\* The identifier and the version have been read.
Identify(s) ==
    /\ link[s]
    /\ Goto(s, "peek", "hello")
    /\ UNCHANGED <<servers, hostname, pubkey, holds, challenge, issued, link, visitVars>>

\* The first packet that is not a ping is a hello, with any host and any key.
Hello(s, h, k) ==
    /\ link[s]
    /\ Goto(s, "hello", "auth")
    /\ hostname' = [hostname EXCEPT ![s] = h]
    /\ pubkey' = [pubkey EXCEPT ![s] = k]
    /\ UNCHANGED <<servers, holds, challenge, issued, link, visitVars>>

\* The first half of authenticate.
Challenge(s) ==
    /\ Goto(s, "auth", "challenged")
    /\ issued' = issued + 1
    /\ challenge' = [challenge EXCEPT ![s] = random_challenge(issued)]
    /\ UNCHANGED <<servers, hostname, pubkey, holds, link, visitVars>>

\* Client::auth signs the challenge it was sent.  What a client answers may also
\* be a signature some other connection was made for.
Signatures == {sign(holds[t], challenge[t]) : t \in {u \in Sockets : challenge[u] # 0}}

Genuine(s, signature) ==
    /\ verify(pubkey[s], challenge[s], signature)
    /\ get_hostname(pubkey[s]) = hostname[s]

Authenticate(s, signature) ==
    /\ link[s]
    /\ Genuine(s, signature)
    /\ Goto(s, "challenged", "authenticated")
    /\ UNCHANGED <<servers, hostname, pubkey, holds, challenge, issued, link, visitVars>>

AuthenticateFails(s, signature) ==
    /\ link[s]
    /\ ~ Genuine(s, signature)
    /\ Goto(s, "challenged", "closed")
    /\ UNCHANGED <<servers, hostname, pubkey, holds, challenge, issued, link, visitVars>>

\* A wrong packet, a closed connection, or TIMEOUT_IN_SEC since the accept.
HandshakeEnds(s) ==
    /\ phase[s] \in Handshake
    /\ phase' = [phase EXCEPT ![s] = "closed"]
    /\ UNCHANGED <<servers, hostname, pubkey, holds, challenge, issued, link, visitVars>>

Register(s) ==
    /\ Goto(s, "authenticated", "registered")
    /\ add_server(hostname[s], s)
    /\ UNCHANGED <<hostname, pubkey, holds, challenge, issued, link, visitVars>>

\* Variant: the ordinary into_disconnected.
AlreadyConnected_Removes(s) ==
    /\ Goto(s, "authenticated", "closed")
    /\ get_server(hostname[s]) # NoSocket
    /\ remove_server(hostname[s])
    /\ UNCHANGED <<hostname, pubkey, holds, challenge, issued, link, visitVars>>

\* add_server failed: the connection ends without touching the register.
AlreadyConnected(s) ==
    /\ Goto(s, "authenticated", "closed")
    /\ get_server(hostname[s]) # NoSocket
    /\ UNCHANGED <<servers, hostname, pubkey, holds, challenge, issued, link, visitVars>>

SendConnected(s) ==
    /\ Goto(s, "registered", "serving")
    /\ UNCHANGED <<servers, hostname, pubkey, holds, challenge, issued, link, visitVars>>

\* Variant: the early return leaves the entry in the register.
SendConnectedFails_Forgets(s) ==
    /\ ~ link[s]
    /\ Goto(s, "registered", "closed")
    /\ UNCHANGED <<servers, hostname, pubkey, holds, challenge, issued, link, visitVars>>

SendConnectedFails(s) ==
    /\ ~ link[s]
    /\ Goto(s, "registered", "removing")
    /\ UNCHANGED <<servers, hostname, pubkey, holds, challenge, issued, link, visitVars>>

\* The reader or the writer of the tunnel ended, for any reason.
TunnelEnds(s) ==
    /\ Goto(s, "serving", "removing")
    /\ UNCHANGED <<servers, hostname, pubkey, holds, challenge, issued, link, visitVars>>

IntoDisconnected(s) ==
    /\ Goto(s, "removing", "closed")
    /\ remove_server(hostname[s])
    /\ UNCHANGED <<hostname, pubkey, holds, challenge, issued, link, visitVars>>

LinkDies(s) ==
    /\ link[s] /\ phase[s] \notin {"new", "closed"}
    /\ link' = [link EXCEPT ![s] = FALSE]
    /\ UNCHANGED <<servers, phase, hostname, pubkey, holds, challenge, issued, visitVars>>

-----------------------------------------------------------------------------
(* One connection of a Minecraft client.                                   *)

\* No tunnel for the hostname: the client gets an answer and is closed.
Lookup(v, h) ==
    /\ visit[v] = "new"
    /\ proxy_tx' = [proxy_tx EXCEPT ![v] = get_server(h)]
    /\ visit' = [visit EXCEPT ![v] = IF get_server(h) = NoSocket THEN "over" ELSE "joining"]
    /\ UNCHANGED <<servers, socketVars, client_count>>

\* MCClient::new: the id arrives from a writer that runs, which it may for a
\* moment after the tunnel has ended.
Join(v) ==
    /\ visit[v] = "joining"
    /\ phase[proxy_tx[v]] \in {"serving", "removing", "closed"}
    /\ visit' = [visit EXCEPT ![v] = "joined"]
    /\ UNCHANGED <<servers, socketVars, client_count, proxy_tx>>

\* Variant: the error path takes back a count that was never added.
JoinFails_Uncounts(v) ==
    /\ visit[v] = "joining"
    /\ phase[proxy_tx[v]] \in {"removing", "closed"}
    /\ visit' = [visit EXCEPT ![v] = "over"]
    /\ client_count' = client_count - 1
    /\ UNCHANGED <<servers, socketVars, proxy_tx>>

\* The tunnel ended before it answered.
JoinFails(v) ==
    /\ visit[v] = "joining"
    /\ phase[proxy_tx[v]] \in {"removing", "closed"}
    /\ visit' = [visit EXCEPT ![v] = "over"]
    /\ UNCHANGED <<servers, socketVars, client_count, proxy_tx>>

add_client(v) ==
    /\ visit[v] = "joined"
    /\ visit' = [visit EXCEPT ![v] = "playing"]
    /\ client_count' = client_count + 1
    /\ UNCHANGED <<servers, socketVars, proxy_tx>>

\* Variant: an error of handle is returned before remove_client.
Leave_Early(v) ==
    /\ visit[v] = "playing"
    /\ visit' = [visit EXCEPT ![v] = "over"]
    /\ UNCHANGED <<servers, socketVars, client_count, proxy_tx>>

\* MCClient::handle returns.
Leave(v) ==
    /\ visit[v] = "playing"
    /\ visit' = [visit EXCEPT ![v] = "left"]
    /\ UNCHANGED <<servers, socketVars, client_count, proxy_tx>>

remove_client(v) ==
    /\ visit[v] = "left"
    /\ visit' = [visit EXCEPT ![v] = "over"]
    /\ client_count' = IF client_count = 0 THEN 0 ELSE client_count - 1
    /\ UNCHANGED <<servers, socketVars, proxy_tx>>

-----------------------------------------------------------------------------
SocketNext(s) ==
    \/ Accept(s) \/ Identify(s) \/ (\E h \in Hosts, k \in Keys : Hello(s, h, k))
    \/ Challenge(s)
    \/ (\E sig \in Signatures : Authenticate(s, sig) \/ AuthenticateFails(s, sig))
    \/ HandshakeEnds(s)
    \/ Register(s) \/ AlreadyConnected(s) \/ SendConnected(s) \/ SendConnectedFails(s)
    \/ TunnelEnds(s) \/ IntoDisconnected(s) \/ LinkDies(s)

VisitorNext(v) ==
    \/ (\E h \in Hosts : Lookup(v, h)) \/ Join(v) \/ JoinFails(v)
    \/ add_client(v) \/ Leave(v) \/ remove_client(v)

\* Every connection has been served and closed.
AllOver ==
    /\ \A s \in Sockets : phase[s] = "closed"
    /\ \A v \in Visitors : visit[v] = "over"
    /\ UNCHANGED vars

Next ==
    \/ \E s \in Sockets : SocketNext(s)
    \/ \E v \in Visitors : VisitorNext(v)
    \/ AllOver

Spec == Init /\ [][Next]_vars

(***************************************************************************)
(* A task that can go on is polled; the time-out of the handshake and the  *)
(* reader's time-out of a dead tunnel fire.  A live tunnel need not end    *)
(* and a client need not answer.                                           *)
(***************************************************************************)
Fairness ==
    /\ \A s \in Sockets :
          /\ WF_vars(HandshakeEnds(s))
          /\ WF_vars(Register(s) \/ AlreadyConnected(s))
          /\ WF_vars(SendConnected(s) \/ SendConnectedFails(s))
          /\ WF_vars(~ link[s] /\ TunnelEnds(s))
          /\ WF_vars(IntoDisconnected(s))
    /\ \A v \in Visitors :
          WF_vars(Join(v) \/ JoinFails(v) \/ add_client(v) \/ remove_client(v))

FairSpec == Spec /\ Fairness

-----------------------------------------------------------------------------
(* Properties.                                                             *)

\* The register names exactly the tunnels that have registered and have not
\* yet unregistered: a refused connection never removes the entry of the one
\* that is in its way, and no way out of handle leaves an entry behind.
RegisterMatchesTunnels ==
    \A h \in Hosts : \A s \in Sockets :
        servers[h] = s <=>
            hostname[s] = h /\ phase[s] \in {"registered", "serving", "removing"}

\* A hostname is served only by a client that holds the hostname's key: no
\* signature made for one connection lets another one in.
OnlyKeyHolderRegistered ==
    \A h \in Hosts : \A s \in Sockets : servers[h] = s => get_hostname(holds[s]) = h

\* The published number of players counts every visitor between add_client
\* and remove_client once, on every way out.
CountBalanced ==
    client_count = Cardinality({v \in Visitors : visit[v] \in {"playing", "left"}})

\* The register implements a lock per hostname.
Lock == INSTANCE HostLock WITH
            holder <- servers,
            wants  <- [s \in Sockets |-> IF hostname[s] = NoHost THEN {} ELSE {hostname[s]}]

ImplementsHostLock == Lock!Spec

\* A tunnel whose client is gone gives its hostname back, so the client can
\* register again: the entry does not outlive the reader's time-out.
DeadTunnelFreesHost ==
    \A s \in Sockets : \A h \in Hosts :
        (servers[h] = s /\ ~ link[s]) ~> (servers[h] # s)
=============================================================================
