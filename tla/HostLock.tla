------------------------------ MODULE HostLock ------------------------------
(***************************************************************************)
(* What the register promises: a hostname is held by at most one tunnel,   *)
(* it is taken only when it is free, and only its holder gives it back.    *)
(***************************************************************************)
CONSTANTS Hosts, Sockets, NoSocket

VARIABLE
    holder,   \* hostname -> the tunnel that holds it, or NoSocket
    wants     \* tunnel -> the hostname it holds or will hold, if any

Init == holder = [h \in Hosts |-> NoSocket] /\ wants = [s \in Sockets |-> {}]

Choose(s, h) ==
    /\ wants[s] = {}
    /\ wants' = [wants EXCEPT ![s] = {h}]
    /\ UNCHANGED holder

Acquire(s, h) ==
    /\ wants[s] = {h}
    /\ holder[h] = NoSocket
    /\ holder' = [holder EXCEPT ![h] = s]
    /\ UNCHANGED wants

Release(s, h) ==
    /\ wants[s] = {h}
    /\ holder[h] = s
    /\ holder' = [holder EXCEPT ![h] = NoSocket]
    /\ UNCHANGED wants

Next == \E s \in Sockets : \E h \in Hosts : Choose(s, h) \/ Acquire(s, h) \/ Release(s, h)

Spec == Init /\ [][Next]_<<holder, wants>>
=============================================================================
