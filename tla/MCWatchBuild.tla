------------------------------ MODULE MCWatchBuild ------------------------------
(* Instances of WatchBuild for TLC. *)
EXTENDS WatchBuild

CONSTANTS f1, f2, dist
=============================================================================
