-------------------------- MODULE MCServerSession --------------------------
(***************************************************************************)
(* Model-checking instances of ServerSession against a client that sends   *)
(* anything.                                                               *)
(***************************************************************************)
EXTENDS ServerSession

CONSTANTS
    MaxQueue,    \* bound: messages explored in the writer's channel
    MaxInbox,    \* bound: data explored in a player's channel
    MaxStream,   \* bound: packets explored on the stream to the client
    MaxWire      \* bound: packets of the environment in flight at once

\* The environment may send and stop reading for ever; a few queued messages
\* show every order of two of them.
SmallQueues ==
    /\ Len(rx) <= MaxQueue
    /\ \A p \in Players : Len(mcRx[p]) <= MaxInbox
    /\ Len(toClient) <= MaxStream
    /\ Len(toServer) <= MaxWire

\* What is in flight when the task that reads or writes it has ended changes
\* nothing on the server any more, and the environment could as well have
\* received it before, or not have sent it: one case of each is explored.
NothingLeft ==
    /\ reader = "ended" => toServer = <<>>
    /\ writer = "ended" => toClient = <<>>

\* Whose data a packet carries is a ghost that nothing here depends on: a
\* player gets data tagged with another player, never with itself.
ForeignData == \A p \in Players : \A k \in DOMAIN mcRx[p] : mcRx[p][k].who # p

Symmetry == Permutations(Players)
=============================================================================
