----------------------------- MODULE MCWatcher -----------------------------
(* A good trial with a trajectory, a patch and a result, and one whose      *)
(* result.json exists from the start.                                       *)
EXTENDS Watcher

CONSTANTS t1, t2

MCDirs == <<t2, t1>>
MCFiles == (t1 :> <<"step", "step", "patch", "result">>)
        @@ (t2 :> <<"early", "reward", "ctrf">>)
=============================================================================
