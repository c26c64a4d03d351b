-------------------------------- MODULE Pipe --------------------------------
(***************************************************************************)
(* What a tunnel promises each player in each direction: what is received  *)
(* is a beginning of what was sent, packet by packet, as on a TCP stream   *)
(* that may end at any time.  A packet is its number in its stream, so the *)
(* two ends are two counters.                                              *)
(***************************************************************************)
EXTENDS Naturals

CONSTANT Players

VARIABLES
    src,   \* player -> packets put in
    dst    \* player -> packets taken out

Init == src = [p \in Players |-> 0] /\ dst = [p \in Players |-> 0]

Send(p) ==
    /\ src' = [src EXCEPT ![p] = @ + 1]
    /\ UNCHANGED dst

Receive(p) ==
    /\ dst[p] < src[p]
    /\ dst' = [dst EXCEPT ![p] = @ + 1]
    /\ UNCHANGED src

Next == \E p \in Players : Send(p) \/ Receive(p)

Spec == Init /\ [][Next]_<<src, dst>>
=============================================================================
