--------------------------- MODULE MCBuildPipeline ---------------------------
(***************************************************************************)
(* Instances of BuildPipeline for TLC.                                     *)
(***************************************************************************)
EXTENDS BuildPipeline

CONSTANTS Crashes, Rollouts, Slow, Db, Kube

\* Every deployment is of the same project, or each of one of its own.
OneProject == [d \in Deployments |-> 1]
OwnProject == [d \in Deployments |-> d]

Faults ==
    [k \in FaultKinds |-> CASE k = "crash"   -> Crashes
                            [] k = "rollout" -> Rollouts
                            [] k = "slow"    -> Slow
                            [] k = "db"      -> Db
                            [] k = "kube"    -> Kube]
=============================================================================
