----------------------------- MODULE Distributor -----------------------------
(***************************************************************************)
(* The slot table of a tunnel, struct Distributor of proxy_handler.rs: an  *)
(* array of MAXIMUM_CLIENTS optional senders.  A sender is named by the    *)
(* player whose channel it feeds.  The operators take the table and return *)
(* the table or the answer, as the methods do under the mutex.             *)
(***************************************************************************)
EXTENDS Wire

Slots == [ClientID -> Owner]

NoSlots == [i \in ClientID |-> NoPlayer]

\* Variant: the scan does not look whether a slot is taken.
FreeSlots_Unchecked(slots) == ClientID

FreeSlots(slots) == {i \in ClientID : slots[i] = NoPlayer}

\* The slot insert() takes: the array is scanned from index 0.
FirstFree(slots) ==
    CHOOSE i \in FreeSlots(slots) : \A j \in FreeSlots(slots) : i <= j

insert(slots, p) == [slots EXCEPT ![FirstFree(slots)] = p]

remove_by_id(slots, i) ==
    IF i \in ClientID THEN [slots EXCEPT ![i] = NoPlayer] ELSE slots

\* Variant: the answer its comment promises.
remove_by_id_returns_IfExisted(slots, i) == i \in ClientID /\ slots[i] # NoPlayer

\* What remove_by_id returns: TRUE for every index in range, taken or not.
remove_by_id_returns(slots, i) == i \in ClientID

get_by_id(slots, i) == IF i \in ClientID THEN slots[i] ELSE NoPlayer
=============================================================================
