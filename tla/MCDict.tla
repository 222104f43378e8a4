------------------------------- MODULE MCDict -------------------------------
(* An instance of Dict for TLC: hashes that collide in every table but one. *)
EXTENDS Dict, TLC

CONSTANTS k1, k2, k3

MCHash == k1 :> 0 @@ k2 :> 2 @@ k3 :> 3
=============================================================================
