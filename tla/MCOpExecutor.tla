----------------------------- MODULE MCOpExecutor -----------------------------
(***************************************************************************)
(* An Op that builds, then applies and probes side by side, then tags, and *)
(* on failure announces it after having restored: the phases of OnFailure  *)
(* are listed in their own order and run in reverse.                       *)
(***************************************************************************)
EXTENDS OpExecutor

Steps == {"build", "apply", "probe", "tag", "restore", "check", "announce"}
Phases == {"Build", "Apply", "Tag", "Restore", "Announce"}
Bodies == [ph \in Phases |->
  CASE ph = "Build" -> <<"build">>
    [] ph = "Apply" -> <<"apply", "probe">>
    [] ph = "Tag" -> <<"tag">>
    [] ph = "Restore" -> <<"restore", "check">>
    [] ph = "Announce" -> <<"announce">>]
ParallelPhases == {"Apply"}
MainPhases == <<"Build", "Apply", "Tag">>
Fallbacks == <<"Announce", "Restore">>
None == {}
OneUnknown == {"announce"}
\* The activities with a retry profile.
Profiles == [s \in Steps |-> IF s = "apply" THEN 3 ELSE IF s \in {"build", "check"} THEN 2 ELSE 1]
=============================================================================
