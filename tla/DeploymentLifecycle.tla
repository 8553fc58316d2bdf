------------------------- MODULE DeploymentLifecycle -------------------------
(***************************************************************************)
(* What the control plane promises about one deployment row, whatever the  *)
(* goroutines behind it do: the lifecycle drawn at the head of builder.go, *)
(* with the retries of store.go's three requeue statements.  "none" is a   *)
(* row that has not been inserted yet.  The two terminal states are left   *)
(* by no step, so a finished deployment is never silently reopened.        *)
(***************************************************************************)
EXTENDS Integers

CONSTANT NumDeployments

Deployments == 1..NumDeployments

InFlightStates == {"building", "deploying"}
TerminalStates == {"ready", "failed"}
States == {"none", "queued"} \cup InFlightStates \cup TerminalStates

VARIABLE status

Init == status = [d \in Deployments |-> "none"]

Move(d, from, to) ==
    /\ status[d] \in from
    /\ status' = [status EXCEPT ![d] = to]

Enqueue(d) == Move(d, {"none"}, "queued")

Claim(d) == Move(d, {"queued"}, "building")

\* A requeue may catch the row of an attempt that is still running: the
\* attempt then carries the row on from "queued".
Deploy(d) == Move(d, {"queued", "building"}, "deploying")

Ready(d) == Move(d, {"queued", "deploying"}, "ready")

Fail(d) == Move(d, InFlightStates, "failed")

\* Any number of interrupted rows go back to the queue together.
Requeue ==
    \E S \in SUBSET {d \in Deployments : status[d] \in InFlightStates} :
        status' = [d \in Deployments |-> IF d \in S THEN "queued" ELSE status[d]]

Next ==
    \/ \E d \in Deployments :
          Enqueue(d) \/ Claim(d) \/ Deploy(d) \/ Ready(d) \/ Fail(d)
    \/ Requeue

Spec == Init /\ [][Next]_status
=============================================================================
