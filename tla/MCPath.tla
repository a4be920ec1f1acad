------------------------------- MODULE MCPath -------------------------------
(***************************************************************************)
(* A path that clients publish to, for TLC, under two configurations: with *)
(* a command that publishes on demand (the constants of the cfg), and      *)
(* without.  Publishers may or may not override each other in both.  The   *)
(* path with a static source, orders to the backend that are lost and the  *)
(* manager that closes the path are in MCLive.                             *)
(***************************************************************************)
EXTENDS Path

VARIABLE part

Plain == INSTANCE Path WITH OnDemand <- FALSE

MCInit == Init /\ part \in {"demand", "plain"}

MCNext ==
    \/ part = "demand" /\ Next /\ UNCHANGED part
    \/ part = "plain" /\ Plain!Next /\ UNCHANGED part

MCSpec == MCInit /\ [][MCNext]_<<vars, part>>
=============================================================================
