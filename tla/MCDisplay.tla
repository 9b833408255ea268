----------------------------- MODULE MCDisplay -----------------------------
(***************************************************************************)
(* Display for TLC: the connections and users are model values.            *)
(***************************************************************************)
EXTENDS Display, TLC

(* No action tells two users or two connections apart.                     *)
Symmetry == Permutations(Sockets) \cup Permutations(Users)
=============================================================================
