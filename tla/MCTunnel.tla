------------------------------ MODULE MCTunnel ------------------------------
(***************************************************************************)
(* Model-checking instances of Tunnel.                                     *)
(***************************************************************************)
EXTENDS Tunnel

\* Explore a tunnel up to the end of its session: afterwards no packet moves.
WhileServing == handle = "select"

Symmetry == Permutations(Players)
=============================================================================
