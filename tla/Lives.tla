-------------------------------- MODULE Lives --------------------------------
(***************************************************************************)
(* The tunnel of a Client that is connected again.  When Client::handle    *)
(* returns an error, connection_loop of the GUI calls connect, auth and    *)
(* handle on the same Client: the table of connections and its count are   *)
(* those of the earlier tunnel, and the connections in it may still run.   *)
(* They hold a sender to the writer_handler of their own tunnel, which is  *)
(* gone, so nothing they send arrives.  The count may be ahead of the      *)
(* table: add_connection counts a slot again that it overwrites.           *)
(*                                                                         *)
(* A connection of an earlier tunnel is named by a player that is over for *)
(* the server.                                                             *)
(***************************************************************************)
EXTENDS Tunnel

CONSTANTS
    OldPlayers,   \* names for the connections of earlier tunnels
    MaxAhead      \* bound: how far an earlier tunnel left the count ahead

ASSUME LivesAssumption == OldPlayers \subseteq Players /\ MaxAhead \in Nat

\* The slot an old connection still has in a table t.
OldSlot(t, p) == IF p \in Range(t) THEN CHOOSE i \in ClientID : t[i] = p ELSE NoID

\* Client::handle, with what an earlier handle left behind, or with nothing.
LivesInit ==
    /\ SessionInit /\ WireInit /\ HandleInit
    /\ mc = [p \in Players |-> IF p \in OldPlayers THEN "done" ELSE "idle"]
    /\ connections \in [ClientID -> OldPlayers \cup {NoPlayer}]
    /\ \A i, j \in ClientID : connections[i] = connections[j] => i = j \/ connections[i] = NoPlayer
    /\ LET n == Cardinality({i \in ClientID : connections[i] # NoPlayer})
       IN  connections_len \in n .. n + MaxAhead
    /\ conn \in [Players -> {"none", "connecting", "open", "ended"}]
    /\ \A p \in Players : conn[p] = "none" <=> p \notin Range(connections)
    /\ client_id = [p \in Players |-> OldSlot(connections, p)]

\* An old connection breaks, fails to connect or is sent data: it cannot tell
\* anybody and ends.
OldConnEnds(p) ==
    /\ conn[p] \in {"connecting", "open"}
    /\ conn' = [conn EXCEPT ![p] = "ended"]
    /\ client_rx' = [client_rx EXCEPT ![p] = <<>>]
    /\ UNCHANGED <<clientVars, client_id, replied, dlvd, pings, wireVars>>

OldConnNext(p) ==
    ConnConnects(p) \/ ConnWrites(p) \/ ConnChannelClosed(p) \/ OldConnEnds(p)

LivesAgentStep ==
    /\ \/ AgentReaderNext \/ AgentWriterNext
       \/ \E p \in Players \ OldPlayers : ConnNext(p)
       \/ \E p \in OldPlayers : OldConnNext(p)
    /\ UNCHANGED serverVars

LivesNext == ServerStep \/ LivesAgentStep \/ LinkStep \/ TunnelFinished

LivesSpec == LivesInit /\ [][LivesNext]_tunnelVars

FairLives == LivesSpec /\ ServerFairness /\ AgentFairness

-----------------------------------------------------------------------------
\* No byte of a player of this tunnel is given to a connection of an earlier
\* one, although that one may still be in the slot the player gets.
NothingForOldConnections ==
    [][\A p \in OldPlayers : Len(client_rx'[p]) <= Len(client_rx[p])]_tunnelVars

\* An old connection ends once a player of this tunnel has taken its slot: the
\* sender that add_connection drops is the only one.
ReplacedConnectionEnds ==
    \A p \in OldPlayers :
        p \notin Range(connections) ~> conn[p] \in {"none", "ended"}
=============================================================================
