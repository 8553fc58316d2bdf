------------------------------ MODULE BuildOrder ------------------------------
(***************************************************************************)
(* What the cut-over relies on: the worker finishes deployments one by     *)
(* one, in the order of the queue, ready or failed, and for good.          *)
(* BuildPipeline promises it, ProductionTraffic takes it for granted.      *)
(***************************************************************************)
EXTENDS Integers

CONSTANT NumDeployments

Deployments == 1..NumDeployments

VARIABLES finished, ready

Init == finished = {} /\ ready = {}

Finish(d) ==
    /\ d \notin finished
    /\ \A e \in Deployments : e < d => e \in finished
    /\ finished' = finished \cup {d}
    /\ ready' \in {ready, ready \cup {d}}

Next == \E d \in Deployments : Finish(d)

Spec == Init /\ [][Next]_<<finished, ready>>
=============================================================================
