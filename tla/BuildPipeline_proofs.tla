------------------------- MODULE BuildPipeline_proofs -------------------------
(***************************************************************************)
(* Theorems about BuildPipeline, for any number of pods, deployments and   *)
(* faults.                                                                 *)
(***************************************************************************)
EXTENDS BuildPipeline, TLAPS, WellFoundedInduction

(***************************************************************************)
(* A worker holds a deployment exactly from its claim to the end of tick;  *)
(* a reconciler follows one from its listing to its verdict.               *)
(***************************************************************************)
Working == AttemptSteps \cup {"fail"}

Holding == Working \cup {"finish"}

Following == {"probe", "kill", "requeue", "retry"}

HeldInv ==
    \A p \in Pods :
        /\ p \notin live => wpc[p] = "off"
        /\ wpc[p] \in Holding => wdep[p] \in Deployments
        /\ wpc[p] \notin Holding => wdep[p] = 0
        /\ rpc[p] \in Following => rdep[p] \in Deployments

\* The claim of store.go picks one of the rows it selects from, and the first.
LEMMA OldestIsLeast ==
    ASSUME NEW S \in SUBSET Deployments, S # {}
    PROVE  Oldest(S) \in S /\ \A e \in S : Oldest(S) <= e
<1>1. S \subseteq Nat /\ S # {}
  BY ConstantsAssumption DEF Deployments
<1>2. PICK d \in S : \A e \in S : ~ (<<e, d>> \in OpToRel(<, Nat))
  BY <1>1, NatLessThanWellFounded, WFMin
<1>3. \A e \in S : e < d => <<e, d>> \in OpToRel(<, Nat)
  BY <1>1 DEF OpToRel
<1>4. \A e \in S : ~ (e < d)
  BY <1>2, <1>3, Zenon
<1>5. \A e \in S : d <= e
  BY <1>1, <1>4
<1> QED
  BY <1>5 DEF Oldest

\* A claim leaves the rows alone or takes a queued one: the oldest, when no
\* other pod's claim can have locked that one.
LEMMA ClaimTakesQueued ==
    ASSUME NEW p \in Pods, ClaimNextQueued(p)
    PROVE  \/ GoTo(p, "idle") /\ UNCHANGED <<rowVars, wdep, faults>>
           \/ \E d \in Queued : /\ Claim(p, d)
                                /\ live \subseteq {p} => d = Oldest(Queued)
<1>1. PICK rows \in ClaimableRows(p) :
         IF rows = {} \/ Oldest(rows) \in orphaned
         THEN GoTo(p, "idle") /\ UNCHANGED <<rowVars, wdep, faults>>
         ELSE Claim(p, Oldest(rows))
  BY DEF ClaimNextQueued
<1>2. rows \subseteq Queued /\ (live \subseteq {p} => rows = Queued)
  BY DEF ClaimableRows
<1>3. rows # {} => Oldest(rows) \in rows
  BY <1>2, OldestIsLeast DEF Queued
<1> QED
  BY <1>1, <1>2, <1>3

\* Requeueing any set of rows keeps the columns well-typed.
LEMMA RequeueTypes ==
    ASSUME TypeOK, NEW S \in SUBSET Deployments, RequeueRows(S)
    PROVE  /\ status' \in [Deployments -> Statuses]
           /\ age' \in [Deployments -> Ages]
           /\ owner' \in [Deployments -> Pods \cup {NoPod}]
  BY DEF TypeOK, RequeueRows, Statuses

\* RequeueStuck and RequeueStale take sets of rows in flight: both keep the types.
LEMMA SweepTypes ==
    ASSUME TypeOK, RequeueStuck \/ RequeueStale
    PROVE  /\ status' \in [Deployments -> Statuses]
           /\ age' \in [Deployments -> Ages]
           /\ owner' \in [Deployments -> Pods \cup {NoPod}]
<1>1. /\ {d \in Deployments : InFlight(d)} \in SUBSET Deployments
      /\ {d \in Deployments : InFlight(d) /\ age[d] >= BuildTimeout} \in SUBSET Deployments
  OBVIOUS
<1> QED
  BY <1>1, RequeueTypes DEF RequeueStuck, RequeueStale

\* A fault that strikes leaves the budgets well-typed.
LEMMA StrikeTypes ==
    ASSUME TypeOK, NEW kind \in FaultKinds, Strike(kind)
    PROVE  faults' \in [FaultKinds -> Nat]
<1>1. faults[kind] \in Nat /\ faults[kind] - 1 \in Nat
  BY DEF TypeOK, Strike
<1> QED
  BY <1>1 DEF TypeOK, Strike

\* The empty table and the cluster without pods are well-typed.
LEMMA TypeInit == Init => TypeOK /\ HeldInv
  BY ConstantsAssumption
  DEF Init, TypeOK, HeldInv, Statuses, Ages, JobStates, WorkerSteps, ReconSteps,
      Holding, Working, AttemptSteps, Following

\* Every step of a pod keeps the types, and the places of its goroutines tell
\* what they hold.
LEMMA TypePodStep ==
    ASSUME TypeOK, HeldInv, NEW p \in Pods, PodStep(p)
    PROVE  TypeOK' /\ HeldInv'
<1> USE DEF TypeOK, HeldInv, vars, rowVars, clusterVars, workerVars, reconVars,
            Holding, Working, AttemptSteps, Following, WorkerSteps, ReconSteps,
            GoTo, Step, Rest, Ponder, Forget, SetStatus, Conclude, PostStatus
<1>1. CASE Sweep(p)
  <2>1. CASE RequeueStale /\ UNCHANGED faults
    <3>1. /\ status' \in [Deployments -> Statuses]
          /\ age' \in [Deployments -> Ages]
          /\ owner' \in [Deployments -> Pods \cup {NoPod}]
      BY <2>1, SweepTypes
    <3> QED
      BY <1>1, <2>1, <3>1 DEF Sweep
  <2> QED
    BY <1>1, <2>1, StrikeTypes DEF FaultKinds, Sweep
<1>2. CASE ClaimNextQueued(p)
  <2>1. CASE UNCHANGED <<rowVars, wdep, faults>> /\ GoTo(p, "idle")
    BY <1>2, <2>1 DEF ClaimNextQueued
  <2>2. ASSUME NEW d \in Deployments, Claim(p, d) PROVE TypeOK' /\ HeldInv'
    BY <1>2, <2>2, StrikeTypes
    DEF ClaimNextQueued, Claim, Statuses, InFlightStates, Ages, FaultKinds
  <2> QED
    BY <1>2, <2>1, <2>2, ClaimTakesQueued DEF Queued
<1>3. CASE Prepare(p)
  BY <1>3 DEF Prepare
<1>4. CASE EnsureBuildJob(p)
  BY <1>4 DEF EnsureBuildJob
<1>5. CASE CreateJob(p)
  BY <1>5 DEF CreateJob, JobStates
<1>6. CASE WaitForJob(p)
  BY <1>6 DEF WaitForJob
<1>7. CASE MarkDeploying(p)
  BY <1>7 DEF MarkDeploying, Statuses, InFlightStates
<1>8. CASE ApplyTenantObjects(p)
  BY <1>8 DEF ApplyTenantObjects
<1>9. CASE MarkReady(p)
  BY <1>9 DEF MarkReady, Statuses, TerminalStates, Ages
<1>10. CASE Finish(p)
  BY <1>10 DEF Finish, CollectGarbage
<1>11. CASE AttemptFails(p)
  BY <1>11 DEF AttemptFails
<1>12. CASE RecordFailure(p)
  BY <1>12, StrikeTypes DEF FaultKinds, RecordFailure, MarkFailedIfInFlight, Statuses, TerminalStates, Ages
<1>13. ASSUME NEW d \in Deployments, ListBuilding(p, d) PROVE TypeOK' /\ HeldInv'
  BY <1>13 DEF ListBuilding
<1>14. CASE ProbeJob(p)
  BY <1>14 DEF ProbeJob, Ages
<1>15. CASE DeleteStuckJob(p)
  BY <1>15 DEF DeleteStuckJob
<1>16. CASE RequeueListed(p)
  <2>1. {e \in {rdep[p]} : InFlight(e)} \in SUBSET Deployments
    BY <1>16 DEF RequeueListed
  <2> QED
    BY <1>16, <2>1, RequeueTypes DEF RequeueListed, RequeueDeployment, Ages
<1>17. CASE ReconcilerSkips(p)
  BY <1>17, StrikeTypes DEF FaultKinds, ReconcilerSkips, Ages
<1>18. CASE Boot(p)
  <2>1. /\ status' \in [Deployments -> Statuses]
        /\ age' \in [Deployments -> Ages]
        /\ owner' \in [Deployments -> Pods \cup {NoPod}]
    BY <1>18, SweepTypes DEF Boot
  <2> QED
    BY <1>18, <2>1 DEF Boot, StartGoroutines
<1>19. CASE BootWithoutRequeue(p)
  BY <1>19, StrikeTypes DEF FaultKinds, BootWithoutRequeue, StartGoroutines
<1>20. CASE Rollout(p)
  <2>1. /\ status' \in [Deployments -> Statuses]
        /\ age' \in [Deployments -> Ages]
        /\ owner' \in [Deployments -> Pods \cup {NoPod}]
    BY <1>20, SweepTypes DEF Rollout
  <2> QED
    BY <1>20, <2>1, StrikeTypes DEF FaultKinds, Rollout, StartGoroutines
<1>21. CASE Stop(p)
  <2>1. faults' \in [FaultKinds -> Nat]
    BY <1>21, StrikeTypes DEF FaultKinds, Stop
  <2>2. live' \subseteq Pods /\ wpc' \in [Pods -> WorkerSteps] /\ rpc' \in [Pods -> ReconSteps]
    BY <1>21 DEF Stop
  <2>3. rage' \in [Pods -> Ages] /\ wexp' \in [Pods -> BOOLEAN]
    BY <1>21 DEF Stop, Ages
  <2> QED
    BY <1>21, <2>1, <2>2, <2>3 DEF Stop
<1>22. CASE AttemptExpires(p)
  BY <1>22 DEF AttemptExpires
<1> QED
  BY <1>1, <1>2, <1>3, <1>4, <1>5, <1>6, <1>7, <1>8, <1>9, <1>10, <1>11, <1>12,
     <1>13, <1>14, <1>15, <1>16, <1>17, <1>18, <1>19, <1>20, <1>21, <1>22
  DEF PodStep, WorkerStep, AttemptTimesOut, ReconcilerStep

\* Neither do the cluster, the webhook or time disturb them.
LEMMA TypeDeploymentStep ==
    ASSUME TypeOK, HeldInv, NEW d \in Deployments, DeploymentStep(d)
    PROVE  TypeOK' /\ HeldInv'
<1> USE DEF TypeOK, HeldInv, rowVars, clusterVars, workerVars, reconVars, SetStatus,
            JobMoves, JobStates
<1>1. CASE Enqueue(d)
  BY <1>1 DEF Enqueue, Statuses
<1>2. CASE Uninstall(d)
  BY <1>2 DEF Uninstall
<1>3. CASE JobClones(d)
  BY <1>3 DEF JobClones
<1>4. CASE JobSucceeds(d)
  BY <1>4 DEF JobSucceeds
<1>5. CASE JobFails(d)
  BY <1>5 DEF JobFails
<1>6. CASE JobVanishes(d)
  BY <1>6 DEF JobVanishes
<1>7. CASE JobExpires(d)
  BY <1>7 DEF JobExpires
<1>8. CASE JobLost(d)
  BY <1>8, StrikeTypes DEF JobLost, FaultKinds
<1>9. CASE Lapse(d)
  BY <1>9 DEF Lapse, Ages, BuildTimeout
<1>10. CASE Overrun(d)
  BY <1>10, StrikeTypes DEF Overrun, Ages, BuildTimeout, FaultKinds
<1> QED
  BY <1>1, <1>2, <1>3, <1>4, <1>5, <1>6, <1>7, <1>8, <1>9, <1>10
  DEF DeploymentStep, JobStep

\* Every step keeps the types and the fact that a busy worker holds a row.
LEMMA TypeStep == TypeOK /\ HeldInv /\ [Next]_vars => TypeOK' /\ HeldInv'
<1> SUFFICES ASSUME TypeOK, HeldInv, [Next]_vars PROVE TypeOK' /\ HeldInv'
  OBVIOUS
<1>1. CASE Next
  BY <1>1, TypePodStep, TypeDeploymentStep DEF Next
<1>2. CASE UNCHANGED vars
  BY <1>2 DEF vars, rowVars, clusterVars, workerVars, reconVars, TypeOK, HeldInv
<1> QED
  BY <1>1, <1>2

\* Both hold in every reachable state.
LEMMA HeldCorrect == Spec => [](TypeOK /\ HeldInv)
  BY TypeInit, TypeStep, PTL DEF Spec

\* The columns, the Jobs and the places of the goroutines keep their types.
THEOREM TypeCorrect == Spec => []TypeOK
  BY HeldCorrect, PTL

-----------------------------------------------------------------------------
(***************************************************************************)
(* Without overlap one pod is alive, so nobody takes the row a worker      *)
(* holds: a requeue may put it back in the queue, but it is not finished   *)
(* before the worker finishes it, nor is it claimed a second time.         *)
(***************************************************************************)
OneInv ==
    /\ \A p, q \in live : p = q
    /\ \A p \in Pods : wpc[p] \in AttemptSteps => status[wdep[p]] \in InFlightStates \cup {"queued"}
    /\ \A p \in Pods : wpc[p] \in {"apply", "ready"} => status[wdep[p]] # "building"
    /\ \A p \in Pods : wpc[p] = "finish" => status[wdep[p]] = "ready"
    /\ GreenCheckIsReady

\* At first no attempt runs.
LEMMA OneInit == Init => OneInv
  BY DEF Init, OneInv, GreenCheckIsReady, Working, AttemptSteps

\* A requeue of rows in flight disturbs neither the row of a worker nor a
\* green check.
LEMMA RequeueOne ==
    ASSUME TypeOK, HeldInv, OneInv, NEW S, \A d \in S \cap Deployments : InFlight(d),
           RequeueRows(S), UNCHANGED green
    PROVE  /\ \A p \in Pods : wpc[p] \in AttemptSteps =>
                 status'[wdep[p]] \in InFlightStates \cup {"queued"}
           /\ \A p \in Pods : wpc[p] \in {"apply", "ready"} => status'[wdep[p]] # "building"
           /\ \A p \in Pods : wpc[p] = "finish" => status'[wdep[p]] = "ready"
           /\ GreenCheckIsReady'
  BY DEF TypeOK, HeldInv, OneInv, RequeueRows, InFlight, InFlightStates,
         GreenCheckIsReady, Holding, Working, AttemptSteps

\* Without overlap the one live pod keeps its attempt's row to itself.
LEMMA OnePodStep ==
    ASSUME Overlap = FALSE, TypeOK, HeldInv, OneInv, NEW p \in Pods, PodStep(p)
    PROVE  OneInv'
<1> USE DEF TypeOK, HeldInv, rowVars, clusterVars, workerVars, reconVars,
            Holding, Working, AttemptSteps, GoTo, Step, Rest, Ponder, Forget,
            SetStatus, Conclude, PostStatus, InFlight, InFlightStates
<1>1. CASE Sweep(p)
  <2>1. CASE RequeueStale
    BY <1>1, <2>1, RequeueOne DEF Sweep, RequeueStale, OneInv
  <2>2. CASE UNCHANGED rowVars
    BY <1>1, <2>2 DEF Sweep, OneInv, GreenCheckIsReady
  <2> QED
    BY <1>1, <2>1, <2>2 DEF Sweep
<1>2. CASE ClaimNextQueued(p)
  <2>1. UNCHANGED <<green, live>>
    BY <1>2 DEF ClaimNextQueued
  <2> QED
    <3>1. CASE UNCHANGED <<rowVars, wdep, faults>> /\ GoTo(p, "idle")
      BY <2>1, <3>1 DEF OneInv, GreenCheckIsReady
    <3>2. ASSUME NEW d \in Queued, Claim(p, d) PROVE OneInv'
      BY <1>2, <2>1, <3>2 DEF ClaimNextQueued, Claim, Queued, OneInv, GreenCheckIsReady
    <3> QED
      BY <1>2, <3>1, <3>2, ClaimTakesQueued
<1>3. CASE Prepare(p)
  BY <1>3 DEF Prepare, OneInv, GreenCheckIsReady
<1>4. CASE EnsureBuildJob(p)
  BY <1>4 DEF EnsureBuildJob, OneInv, GreenCheckIsReady
<1>5. CASE CreateJob(p)
  BY <1>5 DEF CreateJob, OneInv, GreenCheckIsReady
<1>6. CASE WaitForJob(p)
  BY <1>6 DEF WaitForJob, OneInv, GreenCheckIsReady
<1>7. CASE MarkDeploying(p)
  BY <1>7 DEF MarkDeploying, OneInv, GreenCheckIsReady
<1>8. CASE ApplyTenantObjects(p)
  BY <1>8 DEF ApplyTenantObjects, OneInv, GreenCheckIsReady
<1>9. CASE MarkReady(p)
  BY <1>9 DEF MarkReady, OneInv, GreenCheckIsReady
<1>10. CASE Finish(p)
  BY <1>10 DEF Finish, OneInv, GreenCheckIsReady
<1>11. CASE AttemptFails(p)
  BY <1>11 DEF AttemptFails, OneInv, GreenCheckIsReady
<1>12. CASE RecordFailure(p)
  BY <1>12 DEF RecordFailure, MarkFailedIfInFlight, OneInv, GreenCheckIsReady
<1>13. ASSUME NEW d \in Deployments, ListBuilding(p, d) PROVE OneInv'
  BY <1>13 DEF ListBuilding, OneInv, GreenCheckIsReady
<1>14. CASE ProbeJob(p)
  BY <1>14 DEF ProbeJob, OneInv, GreenCheckIsReady
<1>15. CASE DeleteStuckJob(p)
  BY <1>15 DEF DeleteStuckJob, OneInv, GreenCheckIsReady
<1>16. CASE RequeueListed(p)
  BY <1>16, RequeueOne DEF RequeueListed, RequeueDeployment, OneInv
<1>17. CASE ReconcilerSkips(p)
  BY <1>17 DEF ReconcilerSkips, OneInv, GreenCheckIsReady
<1>18. CASE Boot(p)
  BY <1>18, RequeueOne DEF Boot, RequeueStuck, StartGoroutines, OneInv
<1>19. CASE BootWithoutRequeue(p)
  BY <1>19 DEF BootWithoutRequeue, StartGoroutines, OneInv, GreenCheckIsReady
<1>20. CASE Rollout(p)
  BY <1>20 DEF Rollout
<1>21. CASE Stop(p)
  BY <1>21 DEF Stop, OneInv, GreenCheckIsReady
<1>22. CASE AttemptExpires(p)
  BY <1>22 DEF AttemptExpires, OneInv, GreenCheckIsReady
<1> QED
  BY <1>1, <1>2, <1>3, <1>4, <1>5, <1>6, <1>7, <1>8, <1>9, <1>10, <1>11, <1>12,
     <1>13, <1>14, <1>15, <1>16, <1>17, <1>18, <1>19, <1>20, <1>21, <1>22
  DEF PodStep, WorkerStep, AttemptTimesOut, ReconcilerStep

\* Handlers, Jobs and time leave an attempt its row.
LEMMA OneDeploymentStep ==
    ASSUME TypeOK, HeldInv, OneInv, NEW d \in Deployments, DeploymentStep(d)
    PROVE  OneInv'
<1> USE DEF TypeOK, HeldInv, OneInv, GreenCheckIsReady, Holding, rowVars, clusterVars,
            workerVars, reconVars, JobMoves
<1>1. CASE Enqueue(d)
  BY <1>1 DEF Enqueue, SetStatus, InFlightStates
<1>2. CASE Uninstall(d) \/ Lapse(d) \/ Overrun(d)
  BY <1>2 DEF Uninstall, Lapse, Overrun
<1>3. CASE JobStep(d) \/ JobExpires(d) \/ JobLost(d)
  BY <1>3 DEF JobStep, JobClones, JobSucceeds, JobFails, JobVanishes, JobExpires, JobLost
<1> QED
  BY <1>1, <1>2, <1>3 DEF DeploymentStep

\* Without overlap it holds in every reachable state.
LEMMA OneCorrect ==
    ASSUME Overlap = FALSE
    PROVE  Spec => [](TypeOK /\ HeldInv /\ OneInv)
<1>1. TypeOK /\ HeldInv /\ OneInv /\ [Next]_vars => OneInv'
  <2> SUFFICES ASSUME TypeOK, HeldInv, OneInv, [Next]_vars PROVE OneInv'
    OBVIOUS
  <2>1. CASE Next
    BY <2>1, OnePodStep, OneDeploymentStep DEF Next
  <2>2. CASE UNCHANGED vars
    BY <2>2 DEF vars, rowVars, clusterVars, workerVars, OneInv, GreenCheckIsReady
  <2> QED
    BY <2>1, <2>2
<1> QED
  BY HeldCorrect, OneInit, <1>1, PTL DEF Spec

\* With one pod at a time GitHub shows a green check only for a ready
\* deployment (runOne posts success after MarkReady).
THEOREM GreenCorrect ==
    ASSUME Overlap = FALSE
    PROVE  Spec => []GreenCheckIsReady
<1>1. OneInv => GreenCheckIsReady
  BY DEF OneInv
<1> QED
  BY OneCorrect, <1>1, PTL

-----------------------------------------------------------------------------
(***************************************************************************)
(* The rows follow DeploymentLifecycle: every statement of store.go is one *)
(* of its steps, or leaves the row alone, because of where OneInv says the *)
(* row is when the statement runs.                                         *)
(***************************************************************************)
LEMMA RequeueIsLifecycle ==
    ASSUME NEW S \in SUBSET {d \in Deployments : InFlight(d)}, RequeueRows(S)
    PROVE  Lifecycle!Requeue
  BY DEF RequeueRows, Lifecycle!Requeue, InFlight, InFlightStates,
         Lifecycle!InFlightStates, Deployments, Lifecycle!Deployments

\* Every step of a pod is a step of the lifecycle or leaves the rows alone.
LEMMA LifecyclePodStep ==
    ASSUME TypeOK, HeldInv, OneInv, NEW p \in Pods, PodStep(p)
    PROVE  [Lifecycle!Next]_status
<1> USE DEF rowVars
<1> DEFINE Advances(d) == \/ Lifecycle!Claim(d) \/ Lifecycle!Deploy(d)
                          \/ Lifecycle!Ready(d) \/ Lifecycle!Fail(d)
<1>1. ASSUME NEW d \in Deployments, Advances(d) PROVE Lifecycle!Next
  BY <1>1 DEF Lifecycle!Next, Lifecycle!Deployments, Deployments
<1>2. wpc[p] \in Holding => wdep[p] \in Deployments
  BY DEF HeldInv
<1>3. wpc[p] \in AttemptSteps => status[wdep[p]] \in InFlightStates \cup {"queued"}
  BY DEF OneInv
<1>3a. wpc[p] \in {"apply", "ready"} => status[wdep[p]] # "building"
  BY DEF OneInv
<1>4. CASE Sweep(p)
  <2>1. {d \in Deployments : InFlight(d) /\ age[d] >= BuildTimeout}
           \in SUBSET {d \in Deployments : InFlight(d)}
    OBVIOUS
  <2> QED
    BY <1>4, <2>1, RequeueIsLifecycle DEF Sweep, RequeueStale, Lifecycle!Next
<1>5. CASE ClaimNextQueued(p)
  <2>1. CASE UNCHANGED rowVars
    BY <2>1
  <2>2. CASE ~ UNCHANGED rowVars
    <3>1. PICK d \in Queued : Claim(p, d)
      BY <1>5, <2>2, ClaimTakesQueued
    <3>2. Lifecycle!Claim(d)
      BY <3>1 DEF Claim, Queued, SetStatus, Lifecycle!Claim, Lifecycle!Move
    <3> QED
      BY <1>1, <3>1, <3>2 DEF Queued
  <2> QED
    BY <2>1, <2>2
<1>6. CASE MarkDeploying(p)
  <2>1. CASE status[wdep[p]] = "deploying"
    BY <1>6, <2>1 DEF MarkDeploying, SetStatus, TypeOK
  <2>2. CASE status[wdep[p]] # "deploying"
    <3>1. Lifecycle!Deploy(wdep[p])
      BY <1>3, <1>6, <2>2
      DEF MarkDeploying, Step, SetStatus, Working, AttemptSteps, InFlightStates,
          Lifecycle!Deploy, Lifecycle!Move
    <3> QED
      BY <1>1, <1>2, <1>6, <3>1 DEF MarkDeploying, Step, Holding, Working, AttemptSteps
  <2> QED
    BY <2>1, <2>2
<1>7. CASE MarkReady(p)
  <2>1. Lifecycle!Ready(wdep[p])
    BY <1>3, <1>3a, <1>7
    DEF MarkReady, Step, Conclude, SetStatus, Working, AttemptSteps, InFlightStates,
        Lifecycle!Ready, Lifecycle!Move
  <2> QED
    BY <1>1, <1>2, <1>7, <2>1 DEF MarkReady, Step, Holding, Working, AttemptSteps
<1>8. CASE RecordFailure(p)
  <2>1. CASE InFlight(wdep[p]) /\ MarkFailedIfInFlight(wdep[p])
    <3>1. Lifecycle!Fail(wdep[p])
      BY <2>1
      DEF MarkFailedIfInFlight, Conclude, SetStatus, InFlight, InFlightStates,
          Lifecycle!Fail, Lifecycle!Move, Lifecycle!InFlightStates
    <3> QED
      BY <1>1, <1>2, <1>8, <3>1 DEF RecordFailure, Holding, Working
  <2>2. CASE ~ InFlight(wdep[p]) \/ UNCHANGED rowVars
    BY <1>8, <2>2 DEF RecordFailure, MarkFailedIfInFlight
  <2> QED
    BY <1>8, <2>1, <2>2 DEF RecordFailure
<1>9. CASE RequeueListed(p)
  <2>1. {e \in {rdep[p]} : InFlight(e)} \in SUBSET {d \in Deployments : InFlight(d)}
    BY <1>9 DEF RequeueListed, Ponder, HeldInv, Following
  <2> QED
    BY <1>9, <2>1, RequeueIsLifecycle
    DEF RequeueListed, RequeueDeployment, Lifecycle!Next
<1>10. CASE Boot(p) \/ Rollout(p)
  BY <1>10, RequeueIsLifecycle DEF Boot, Rollout, RequeueStuck, Lifecycle!Next
<1>11. CASE \/ Prepare(p) \/ EnsureBuildJob(p) \/ CreateJob(p) \/ WaitForJob(p)
            \/ ApplyTenantObjects(p) \/ Finish(p) \/ AttemptFails(p)
  BY <1>11 DEF Prepare, EnsureBuildJob, CreateJob, WaitForJob, ApplyTenantObjects,
               Finish, AttemptFails
<1>12. CASE \/ \E d \in Deployments : ListBuilding(p, d)
            \/ ProbeJob(p) \/ DeleteStuckJob(p) \/ ReconcilerSkips(p)
  BY <1>12 DEF ListBuilding, ProbeJob, DeleteStuckJob, ReconcilerSkips
<1>13. CASE BootWithoutRequeue(p) \/ Stop(p) \/ AttemptExpires(p)
  BY <1>13 DEF BootWithoutRequeue, Stop, AttemptExpires
<1> QED
  BY <1>4, <1>5, <1>6, <1>7, <1>8, <1>9, <1>10, <1>11, <1>12, <1>13
  DEF PodStep, WorkerStep, AttemptTimesOut, ReconcilerStep

\* So is every step of the handlers, of the cluster and of time.
LEMMA LifecycleDeploymentStep ==
    ASSUME NEW d \in Deployments, DeploymentStep(d)
    PROVE  [Lifecycle!Next]_status
<1>1. CASE Enqueue(d)
  BY <1>1 DEF Enqueue, SetStatus, Lifecycle!Enqueue, Lifecycle!Move, Lifecycle!Next,
              Lifecycle!Deployments, Deployments
<1>2. CASE Uninstall(d) \/ Lapse(d) \/ Overrun(d)
  BY <1>2 DEF Uninstall, Lapse, Overrun, rowVars
<1>3. CASE JobStep(d) \/ JobExpires(d) \/ JobLost(d)
  BY <1>3 DEF JobStep, JobClones, JobSucceeds, JobFails, JobVanishes, JobExpires,
              JobLost, JobMoves, rowVars
<1> QED
  BY <1>1, <1>2, <1>3 DEF DeploymentStep

\* With one pod at a time the control plane implements the lifecycle drawn at
\* the head of builder.go, whatever crashes, requeues and late answers do.
THEOREM LifecycleImplemented ==
    ASSUME Overlap = FALSE
    PROVE  Spec => ImplementsLifecycle
<1>1. Init => Lifecycle!Init
  BY DEF Init, Lifecycle!Init, Deployments, Lifecycle!Deployments
<1>2. TypeOK /\ HeldInv /\ OneInv /\ [Next]_vars => [Lifecycle!Next]_status
  BY LifecyclePodStep, LifecycleDeploymentStep DEF Next, vars, rowVars
<1> QED
  BY OneCorrect, <1>1, <1>2, PTL DEF Spec, ImplementsLifecycle, Lifecycle!Spec

\* No step of the lifecycle leaves a terminal state.
LEMMA TerminalStep ==
    TypeOK /\ [Lifecycle!Next]_status
       => \A d \in Deployments : status[d] \in TerminalStates => status'[d] = status[d]
  BY DEF TypeOK, TerminalStates, Deployments, Lifecycle!Next, Lifecycle!Deployments,
         Lifecycle!Enqueue, Lifecycle!Claim, Lifecycle!Deploy, Lifecycle!Ready,
         Lifecycle!Fail, Lifecycle!Move, Lifecycle!Requeue, Lifecycle!InFlightStates

\* With one pod at a time a finished deployment stays finished (the migration's
\* "ready | failed" end of the status flow): the lifecycle never leaves the
\* terminal states, and the rows follow the lifecycle.
THEOREM TerminalStatesFinal ==
    ASSUME Overlap = FALSE
    PROVE  Spec => TerminalIsFinal
<1>1. TypeOK /\ HeldInv /\ OneInv /\ [Next]_vars => [Lifecycle!Next]_status
  BY LifecyclePodStep, LifecycleDeploymentStep DEF Next, vars, rowVars
<1>2. TypeOK /\ HeldInv /\ OneInv /\ [Next]_vars
         => [\A d \in Deployments : status[d] \in TerminalStates => status'[d] = status[d]]_vars
  BY <1>1, TerminalStep
<1> QED
  BY OneCorrect, <1>2, PTL DEF Spec, TerminalIsFinal

-----------------------------------------------------------------------------
(***************************************************************************)
(* The queue is FIFO when, besides, no bookkeeping statement fails.  Then  *)
(* a row in flight is always in the hands of the live worker, so whatever  *)
(* is older than the row the worker claims has finished.                   *)
(***************************************************************************)
QueueInv ==
    /\ faults["db"] = 0
    /\ \A d \in Deployments : status[d] # "none" => \A e \in Older(d) : status[e] # "none"
    /\ \A d \in Deployments : InFlight(d) => live = {} \/ \E p \in live : wdep[p] = d
    /\ \A p \in Pods : wpc[p] \in Working =>
          \A e \in Older(wdep[p]) : status[e] \in TerminalStates

\* The empty queue is in order.
LEMMA QueueInit == Init /\ MaxFaults["db"] = 0 => QueueInv
  BY DEF Init, QueueInv, InFlight, InFlightStates, Working, AttemptSteps

\* Once in the table a row stays there, and a finished one stays finished.
Onward ==
    \A d \in Deployments :
        /\ status[d] \in TerminalStates => status'[d] = status[d]
        /\ status[d] # "none" => status'[d] # "none"

\* Every step moves rows onward only, because the lifecycle does.
LEMMA OnwardStep ==
    ASSUME TypeOK, HeldInv, OneInv, [Next]_vars
    PROVE  Onward
<1>1. [Lifecycle!Next]_status
  BY LifecyclePodStep, LifecycleDeploymentStep DEF Next, vars, rowVars
<1>2. \A d \in Deployments : status[d] # "none" => status'[d] # "none"
  BY <1>1 DEF TypeOK, Deployments, Lifecycle!Next, Lifecycle!Deployments,
         Lifecycle!Enqueue, Lifecycle!Claim, Lifecycle!Deploy, Lifecycle!Ready,
         Lifecycle!Fail, Lifecycle!Move, Lifecycle!Requeue, Lifecycle!InFlightStates
<1> QED
  BY <1>1, <1>2, TerminalStep DEF Onward

\* A pod claims the oldest row only, and puts back only the row that was claimed.
LEMMA QueuePodStep ==
    ASSUME TypeOK, HeldInv, OneInv, QueueInv, Onward, Overlap = FALSE,
           NEW p \in Pods, PodStep(p)
    PROVE  QueueInv'
<1> USE DEF TypeOK, HeldInv, rowVars, clusterVars, workerVars, reconVars, Older,
        Holding, Working, AttemptSteps, GoTo, Step, Rest, Ponder, Forget, SetStatus,
        Conclude, InFlight, InFlightStates, Onward
<1>1. CASE Sweep(p)
  BY <1>1 DEF Sweep, RequeueStale, RequeueRows, QueueInv, Strike
<1>2. CASE ClaimNextQueued(p)
  <2>1. CASE UNCHANGED <<rowVars, wdep, faults>> /\ GoTo(p, "idle")
    BY <1>2, <2>1 DEF ClaimNextQueued, QueueInv
  <2>2. ASSUME NEW d \in Queued, Claim(p, d), d = Oldest(Queued) PROVE QueueInv'
    <3>1. d \in Queued /\ \A e \in Queued : d <= e
      BY <2>2, OldestIsLeast DEF Queued
    <3>2. \A e \in Older(d) : status[e] # "none" /\ status[e] # "queued"
      BY <3>1, ConstantsAssumption DEF QueueInv, Queued, Deployments
    <3>3. \A e \in Deployments : ~ InFlight(e)
      <4>1. p \in live /\ wdep[p] = 0 /\ 0 \notin Deployments
        BY <1>2 DEF ClaimNextQueued, Deployments
      <4> QED
        BY <4>1 DEF QueueInv, OneInv
    <3>4. \A e \in Older(d) : status[e] \in TerminalStates
      BY <3>1, <3>2, <3>3 DEF Statuses, Queued
    <3> QED
      BY <1>2, <2>2, <3>1, <3>3, <3>4
      DEF ClaimNextQueued, Claim, QueueInv, Queued, OneInv, Strike
  <2>3. live \subseteq {p}
    BY <1>2 DEF ClaimNextQueued, OneInv
  <2> QED
    BY <1>2, <2>1, <2>2, <2>3, ClaimTakesQueued
<1>3. CASE Prepare(p)
  BY <1>3 DEF Prepare, QueueInv
<1>4. CASE EnsureBuildJob(p)
  BY <1>4 DEF EnsureBuildJob, QueueInv
<1>5. CASE CreateJob(p)
  BY <1>5 DEF CreateJob, QueueInv
<1>6. CASE WaitForJob(p)
  BY <1>6 DEF WaitForJob, QueueInv
<1>7. CASE MarkDeploying(p)
  BY <1>7 DEF MarkDeploying, QueueInv
<1>8. CASE ApplyTenantObjects(p)
  BY <1>8 DEF ApplyTenantObjects, QueueInv
<1>9. CASE MarkReady(p)
  BY <1>9 DEF MarkReady, QueueInv
<1>10. CASE Finish(p)
  BY <1>10 DEF Finish, QueueInv, OneInv
<1>11. CASE AttemptFails(p)
  BY <1>11 DEF AttemptFails, QueueInv
<1>12. CASE RecordFailure(p)
  BY <1>12 DEF RecordFailure, MarkFailedIfInFlight, QueueInv, Strike, OneInv
<1>13. ASSUME NEW d \in Deployments, ListBuilding(p, d) PROVE QueueInv'
  BY <1>13 DEF ListBuilding, QueueInv
<1>14. CASE ProbeJob(p)
  BY <1>14 DEF ProbeJob, QueueInv
<1>15. CASE DeleteStuckJob(p)
  BY <1>15 DEF DeleteStuckJob, QueueInv
<1>16. CASE RequeueListed(p)
  BY <1>16 DEF RequeueListed, RequeueDeployment, RequeueRows, QueueInv
<1>17. CASE ReconcilerSkips(p)
  BY <1>17 DEF ReconcilerSkips, QueueInv, Strike, FaultKinds
<1>18. CASE Boot(p)
  BY <1>18 DEF Boot, RequeueStuck, RequeueRows, StartGoroutines, QueueInv
<1>19. CASE BootWithoutRequeue(p)
  BY <1>19 DEF BootWithoutRequeue, QueueInv, Strike
<1>20. CASE Rollout(p)
  BY <1>20 DEF Rollout
<1>21. CASE Stop(p)
  BY <1>21 DEF Stop, QueueInv, OneInv, Strike, FaultKinds
<1>22. CASE AttemptExpires(p)
  BY <1>22 DEF AttemptExpires, QueueInv
<1> QED
  BY <1>1, <1>2, <1>3, <1>4, <1>5, <1>6, <1>7, <1>8, <1>9, <1>10, <1>11, <1>12,
     <1>13, <1>14, <1>15, <1>16, <1>17, <1>18, <1>19, <1>20, <1>21, <1>22
  DEF PodStep, WorkerStep, AttemptTimesOut, ReconcilerStep

\* Rows are inserted behind the older ones; the cluster and time do not touch the queue.
LEMMA QueueDeploymentStep ==
    ASSUME TypeOK, HeldInv, QueueInv, Onward, NEW d \in Deployments, DeploymentStep(d)
    PROVE  QueueInv'
<1> USE DEF TypeOK, HeldInv, QueueInv, Onward, Older, Holding, rowVars, clusterVars,
        workerVars, reconVars, JobMoves, InFlight, InFlightStates
<1>1. CASE Enqueue(d)
  BY <1>1 DEF Enqueue, SetStatus
<1>2. CASE Uninstall(d) \/ Lapse(d)
  BY <1>2 DEF Uninstall, Lapse
<1>3. CASE Overrun(d)
  BY <1>3 DEF Overrun, Strike, FaultKinds
<1>4. CASE JobStep(d) \/ JobExpires(d)
  BY <1>4 DEF JobStep, JobClones, JobSucceeds, JobFails, JobVanishes, JobExpires
<1>5. CASE JobLost(d)
  BY <1>5 DEF JobLost, Strike, FaultKinds
<1> QED
  BY <1>1, <1>2, <1>3, <1>4, <1>5 DEF DeploymentStep

\* Two steps finish a row: MarkReady, and the recording of a failure.
LEMMA FinishedBy ==
    ASSUME TypeOK, HeldInv, [Next]_vars, NEW d \in Deployments,
           status[d] \notin TerminalStates, status'[d] \in TerminalStates
    PROVE  \E p \in Pods : /\ MarkReady(p) \/ RecordFailure(p)
                           /\ wpc[p] \in Working /\ d = wdep[p]
                           /\ \A e \in Deployments \ {d} : status'[e] = status[e]
<1>0. \A p \in Pods : ~ ClaimNextQueued(p)
  BY ClaimTakesQueued DEF TypeOK, Claim, SetStatus, Queued, rowVars, TerminalStates
<1>1. \A p \in Pods : PodStep(p) => MarkReady(p) \/ RecordFailure(p)
  BY <1>0 DEF TypeOK, TerminalStates, PodStep, WorkerStep, ReconcilerStep, Sweep,
         RequeueStale, RequeueRows, Prepare, EnsureBuildJob, CreateJob, WaitForJob,
         MarkDeploying, ApplyTenantObjects, Finish, AttemptTimesOut, AttemptFails,
         Conclude, SetStatus, ListBuilding, ProbeJob, DeleteStuckJob, RequeueListed,
         RequeueDeployment, ReconcilerSkips, Boot, RequeueStuck, BootWithoutRequeue,
         Rollout, Stop, AttemptExpires, rowVars
<1>2. \A e \in Deployments : ~ DeploymentStep(e)
  BY DEF TypeOK, TerminalStates, DeploymentStep, JobStep, Enqueue, SetStatus, Uninstall,
         JobClones, JobSucceeds, JobFails, JobVanishes, JobExpires, JobLost, JobMoves,
         Lapse, Overrun, rowVars
<1>3. PICK p \in Pods : MarkReady(p) \/ RecordFailure(p)
  BY <1>1, <1>2 DEF Next, vars, rowVars
<1>4. CASE MarkReady(p)
  <2>1. wpc[p] \in Working /\ status' = [status EXCEPT ![wdep[p]] = "ready"]
    BY <1>4 DEF MarkReady, Step, Conclude, SetStatus, Working, AttemptSteps
  <2>2. d = wdep[p] /\ \A e \in Deployments \ {d} : status'[e] = status[e]
    BY <2>1 DEF TypeOK
  <2> QED
    BY <1>4, <2>1, <2>2
<1>5. CASE RecordFailure(p)
  BY <1>5 DEF TypeOK, HeldInv, RecordFailure, MarkFailedIfInFlight, Conclude, SetStatus,
         rowVars, Working, AttemptSteps
<1> QED
  BY <1>3, <1>4, <1>5

\* QueueInv is an invariant, as long as one pod runs at a time and no bookkeeping
\* statement (RequeueStuck, RequeueStale, MarkFailedIfInFlight) is lost.
LEMMA QueueCorrect ==
    ASSUME Overlap = FALSE, MaxFaults["db"] = 0
    PROVE  Spec => [](TypeOK /\ HeldInv /\ OneInv /\ QueueInv)
<1>1. TypeOK /\ HeldInv /\ OneInv /\ QueueInv /\ [Next]_vars => QueueInv'
  <2> SUFFICES ASSUME TypeOK, HeldInv, OneInv, QueueInv, [Next]_vars PROVE QueueInv'
    OBVIOUS
  <2>1. Onward
    BY OnwardStep
  <2>2. CASE Next
    BY <2>1, <2>2, QueuePodStep, QueueDeploymentStep DEF Next
  <2>3. CASE UNCHANGED vars
    BY <2>3 DEF vars, rowVars, workerVars, QueueInv, InFlight
  <2> QED
    BY <2>2, <2>3
<1> QED
  BY OneCorrect, QueueInit, <1>1, PTL DEF Spec

-----------------------------------------------------------------------------
(***************************************************************************)
(* What makes a ready row trustworthy: evidence is collected in the order  *)
(* Job, image, objects, row.  Only the last step of a production build     *)
(* takes objects away.  By then its row is ready and, the queue being      *)
(* FIFO, no newer row has finished: what it deletes belongs to older rows. *)
(***************************************************************************)
EvidenceInv ==
    /\ \A d \in Deployments : job[d] = "succeeded" => d \in pushed
    /\ \A p \in Pods : wpc[p] \in {"mark", "apply", "ready"} => wdep[p] \in pushed
    /\ \A p \in Pods : wpc[p] = "ready" => wdep[p] \in applied

NewestInv ==
    /\ \A d \in Deployments : status[d] \in TerminalStates =>
          \A e \in Older(d) : status[e] \in TerminalStates
    /\ \A p \in Pods : wpc[p] = "finish" =>
          \A e \in Deployments : wdep[p] < e => status[e] \notin TerminalStates

ServedInv == EvidenceInv /\ NewestInv /\ ReadyIsServed

\* No deployment is ready before there is one.
LEMMA ServedInit == Init => ServedInv
  BY DEF Init, ServedInv, EvidenceInv, NewestInv, ReadyIsServed, TerminalStates

\* An attempt passes from one step to the next only behind its image and objects.
LEMMA EvidencePodStep ==
    ASSUME TypeOK, HeldInv, OneInv, EvidenceInv, NEW p \in Pods, PodStep(p)
    PROVE  EvidenceInv'
<1> USE DEF TypeOK, HeldInv, EvidenceInv, rowVars, clusterVars, workerVars, reconVars,
            Holding, Working, AttemptSteps, GoTo, Step, Rest, Ponder
<1>1. CASE Sweep(p)
  BY <1>1 DEF Sweep
<1>2. CASE ClaimNextQueued(p)
  <2>1. UNCHANGED clusterVars
    BY <1>2 DEF ClaimNextQueued
  <2>2. CASE UNCHANGED wdep /\ GoTo(p, "idle")
    BY <2>1, <2>2
  <2>3. ASSUME NEW d \in Queued, Claim(p, d) PROVE EvidenceInv'
    BY <2>1, <2>3 DEF Claim
  <2> QED
    BY <1>2, <2>2, <2>3, ClaimTakesQueued
<1>3. CASE Prepare(p) \/ EnsureBuildJob(p)
  BY <1>3 DEF Prepare, EnsureBuildJob
<1>4. CASE CreateJob(p)
  BY <1>4 DEF CreateJob
<1>5. CASE WaitForJob(p)
  BY <1>5 DEF WaitForJob
<1>6. CASE MarkDeploying(p)
  BY <1>6 DEF MarkDeploying
<1>7. CASE ApplyTenantObjects(p)
  BY <1>7 DEF ApplyTenantObjects
<1>8. CASE MarkReady(p)
  BY <1>8 DEF MarkReady
<1>9. CASE Finish(p)
  BY <1>9 DEF Finish, CollectGarbage, OneInv
<1>10. CASE AttemptFails(p) \/ RecordFailure(p)
  BY <1>10 DEF AttemptFails, RecordFailure
<1>11. CASE \/ \E d \in Deployments : ListBuilding(p, d)
            \/ ProbeJob(p) \/ DeleteStuckJob(p) \/ RequeueListed(p)
            \/ ReconcilerSkips(p)
  BY <1>11 DEF ListBuilding, ProbeJob, DeleteStuckJob, RequeueListed, ReconcilerSkips
<1>12. CASE Boot(p) \/ BootWithoutRequeue(p) \/ Rollout(p)
  BY <1>12 DEF Boot, BootWithoutRequeue, Rollout, StartGoroutines
<1>13. CASE Stop(p)
  BY <1>13 DEF Stop
<1>14. CASE AttemptExpires(p)
  BY <1>14 DEF AttemptExpires
<1> QED
  BY <1>1, <1>2, <1>3, <1>4, <1>5, <1>6, <1>7, <1>8, <1>9, <1>10, <1>11, <1>12,
     <1>13, <1>14
  DEF PodStep, WorkerStep, AttemptTimesOut, ReconcilerStep

\* Handlers, Jobs and time take no image and no object away.
LEMMA EvidenceDeploymentStep ==
    ASSUME TypeOK, EvidenceInv, NEW d \in Deployments, DeploymentStep(d)
    PROVE  EvidenceInv'
<1> USE DEF TypeOK, EvidenceInv, rowVars, clusterVars, workerVars, reconVars, JobMoves
<1>1. CASE Enqueue(d) \/ Uninstall(d) \/ Lapse(d) \/ Overrun(d)
  BY <1>1 DEF Enqueue, Uninstall, Lapse, Overrun
<1>2. CASE JobStep(d)
  BY <1>2 DEF JobStep, JobClones, JobSucceeds, JobFails, JobVanishes
<1>3. CASE JobExpires(d) \/ JobLost(d)
  BY <1>3 DEF JobExpires, JobLost
<1> QED
  BY <1>1, <1>2, <1>3 DEF DeploymentStep

\* An image stays; only the end of a build takes objects away.
LEMMA ObjectsStay ==
    ASSUME [Next]_vars
    PROVE  pushed \subseteq pushed' /\ (applied \subseteq applied' \/ \E p \in Pods : Finish(p))
<1> USE DEF rowVars, clusterVars, workerVars, reconVars, Ponder
<1>1. ASSUME NEW p \in Pods, PodStep(p)
      PROVE  pushed \subseteq pushed' /\ (applied \subseteq applied' \/ Finish(p))
  BY <1>1 DEF PodStep, WorkerStep, ReconcilerStep, Sweep, ClaimNextQueued, Prepare,
       EnsureBuildJob, CreateJob, WaitForJob, MarkDeploying, ApplyTenantObjects,
       MarkReady, Finish, AttemptTimesOut, AttemptFails, RecordFailure, ListBuilding,
       ProbeJob, DeleteStuckJob, RequeueListed, ReconcilerSkips, Boot,
       BootWithoutRequeue, Rollout, StartGoroutines, Stop, AttemptExpires
<1>2. ASSUME NEW d \in Deployments, DeploymentStep(d)
      PROVE  pushed \subseteq pushed' /\ applied \subseteq applied'
  BY <1>2 DEF DeploymentStep, JobStep, Enqueue, Uninstall, JobClones, JobSucceeds,
       JobFails, JobVanishes, JobExpires, JobLost, JobMoves, Lapse, Overrun
<1> QED
  BY <1>1, <1>2 DEF Next, vars

\* A worker comes to the end of a build through MarkReady only, and stays with it.
LEMMA FinishReached ==
    ASSUME TypeOK, HeldInv, [Next]_vars, NEW p \in Pods, wpc'[p] = "finish"
    PROVE  wdep'[p] = wdep[p] /\ (wpc[p] = "finish" \/ MarkReady(p))
<1> USE DEF TypeOK, HeldInv, rowVars, clusterVars, workerVars, reconVars, Ponder, Holding,
            GoTo, Step, Rest
<1>1. ASSUME NEW q \in Pods, WorkerStep(q) \/ AttemptFails(q)
      PROVE  wdep'[p] = wdep[p] /\ (wpc[p] = "finish" \/ MarkReady(p))
  <2>1. CASE ClaimNextQueued(q)
    <3>1. /\ wpc' \in {[wpc EXCEPT ![q] = "idle"], [wpc EXCEPT ![q] = "prepare"]}
          /\ \A r \in Pods \ {q} : wdep'[r] = wdep[r]
      BY <2>1, ClaimTakesQueued DEF Claim
    <3> QED
      BY <3>1
  <2>2. CASE MarkReady(q)
    BY <2>2 DEF MarkReady
  <2>3. CASE ~ ClaimNextQueued(q) /\ ~ MarkReady(q)
    BY <1>1, <2>3 DEF WorkerStep, Sweep, Prepare, EnsureBuildJob, CreateJob, WaitForJob,
         MarkDeploying, ApplyTenantObjects, Finish, AttemptTimesOut, AttemptFails,
         RecordFailure
  <2> QED
    BY <2>1, <2>2, <2>3
<1>2. ASSUME NEW q \in Pods, PodStep(q), ~ WorkerStep(q), ~ AttemptFails(q)
      PROVE  wdep'[p] = wdep[p] /\ wpc[p] = "finish"
  BY <1>2 DEF PodStep, ReconcilerStep, ListBuilding, ProbeJob, DeleteStuckJob,
       RequeueListed, ReconcilerSkips, Boot, BootWithoutRequeue, Rollout,
       StartGoroutines, Stop, AttemptExpires
<1>3. ASSUME NEW d \in Deployments, DeploymentStep(d)
      PROVE  wdep'[p] = wdep[p] /\ wpc[p] = "finish"
  BY <1>3 DEF DeploymentStep, JobStep, Enqueue, Uninstall, JobClones, JobSucceeds,
       JobFails, JobVanishes, JobExpires, JobLost, JobMoves, Lapse, Overrun
<1> QED
  BY <1>1, <1>2, <1>3 DEF Next, vars

\* Rows finish in the order of the queue, one at a time.
LEMMA NewestStep ==
    ASSUME TypeOK, HeldInv, OneInv, QueueInv, NewestInv, [Next]_vars
    PROVE  NewestInv'
<1>0. Onward
  BY OnwardStep
<1>1. ASSUME NEW d \in Deployments, status'[d] \in TerminalStates, NEW e \in Older(d)
      PROVE  status'[e] \in TerminalStates
  <2>1. status[e] \in TerminalStates
    BY <1>1, FinishedBy DEF NewestInv, QueueInv
  <2> QED
    BY <1>0, <2>1 DEF Onward, Older
<1>2. ASSUME NEW p \in Pods, wpc'[p] = "finish", NEW e \in Deployments, wdep'[p] < e
      PROVE  status'[e] \notin TerminalStates
  <2>1. wdep'[p] = wdep[p]
    BY <1>2, FinishReached
  <2>2. CASE wpc[p] = "finish"
    <3>1. status[e] \notin TerminalStates
      BY <1>2, <2>1, <2>2 DEF NewestInv
    <3>2. \A q \in Pods : wpc[q] \notin Working
      BY <2>2 DEF HeldInv, OneInv, Working, AttemptSteps
    <3> QED
      BY <3>1, <3>2, FinishedBy
  <2>3. CASE MarkReady(p)
    <3>1. wpc[p] = "ready" /\ wdep[p] \in Deployments
      BY <2>3 DEF MarkReady, Step, HeldInv, Holding, Working, AttemptSteps
    <3>2. wdep[p] \in Older(e) /\ status[wdep[p]] \notin TerminalStates
      BY <1>2, <2>1, <3>1 DEF Older, OneInv, AttemptSteps, InFlightStates, TerminalStates
    <3>3. status[e] \notin TerminalStates /\ e # wdep[p]
      BY <1>2, <2>1, <3>1, <3>2 DEF NewestInv, Deployments
    <3>4. status' = [status EXCEPT ![wdep[p]] = "ready"]
      BY <2>3 DEF MarkReady, Conclude, SetStatus
    <3> QED
      BY <3>3, <3>4 DEF TypeOK
  <2> QED
    BY <1>2, <2>2, <2>3, FinishReached
<1> QED
  BY <1>1, <1>2 DEF NewestInv, Older

\* A row becomes ready behind its evidence, and loses its objects only to a newer
\* production build that is ready.
LEMMA ReadyStaysServed ==
    ASSUME TypeOK, HeldInv, OneInv, QueueInv, ServedInv, [Next]_vars
    PROVE  ReadyIsServed'
<1> SUFFICES ASSUME NEW d \in Deployments, status'[d] = "ready"
             PROVE  /\ d \in pushed'
                    /\ \/ d \in applied'
                       \/ \E e \in Production : d < e /\ Project[e] = Project[d]
                                                      /\ status'[e] = "ready"
  BY DEF ReadyIsServed
<1>0. Onward
  BY OnwardStep
<1>1. CASE status[d] # "ready"
  <2>1. status[d] \notin TerminalStates
    BY <1>0, <1>1 DEF Onward
  <2>3. PICK q \in Pods : /\ MarkReady(q) \/ RecordFailure(q)
                          /\ d = wdep[q]
    BY <2>1, FinishedBy DEF TerminalStates
  <2>4. CASE MarkReady(q)
    <3>1. wpc[q] = "ready" /\ UNCHANGED clusterVars
      BY <2>4 DEF MarkReady, Step
    <3> QED
      BY <2>3, <3>1 DEF ServedInv, EvidenceInv, clusterVars
  <2>5. CASE RecordFailure(q)
    <3>1. status'[d] \in {status[d], "failed"}
      BY <2>3, <2>5 DEF RecordFailure, MarkFailedIfInFlight, Conclude, SetStatus, rowVars, TypeOK
    <3> QED
      BY <1>1, <3>1
  <2> QED
    BY <2>3, <2>4, <2>5
<1>2. CASE status[d] = "ready"
  <2>1. d \in pushed' /\ (applied \subseteq applied' \/ \E p \in Pods : Finish(p))
    BY <1>2, ObjectsStay DEF ServedInv, ReadyIsServed
  <2>2. CASE \E e \in Production : d < e /\ Project[e] = Project[d] /\ status[e] = "ready"
    BY <1>0, <2>1, <2>2, ConstantsAssumption DEF Onward, TerminalStates
  <2>3. CASE d \in applied
    <3>1. CASE applied \subseteq applied'
      BY <2>1, <2>3, <3>1
    <3>2. ASSUME NEW p \in Pods, Finish(p), d \notin applied'
          PROVE  \E e \in Production : d < e /\ Project[e] = Project[d] /\ status'[e] = "ready"
      <4>1. wpc[p] = "finish" /\ CollectGarbage(wdep[p]) /\ UNCHANGED status
        BY <3>2 DEF Finish, rowVars
      <4>2. d \in OtherCommits(wdep[p]) /\ wdep[p] \in Production
        BY <2>3, <3>2, <4>1 DEF CollectGarbage
      <4>3. ~ (wdep[p] < d) /\ status[wdep[p]] = "ready"
        BY <1>2, <4>1 DEF ServedInv, NewestInv, OneInv, TerminalStates
      <4>4. d # wdep[p] /\ Project[wdep[p]] = Project[d]
        BY <4>2 DEF OtherCommits
      <4>5. wdep[p] \in Deployments
        BY <4>1 DEF HeldInv, Holding
      <4> QED
        BY <4>1, <4>2, <4>3, <4>4, <4>5 DEF Deployments
    <3> QED
      BY <2>1, <3>1, <3>2
  <2> QED
    BY <1>2, <2>2, <2>3 DEF ServedInv, ReadyIsServed
<1> QED
  BY <1>1, <1>2

\* A ready deployment has its image, and its objects unless a newer production
\* build of its project that is ready has deleted them (runOne, MarkReady and the
\* deletion of the other commits' objects): as long as one pod runs at a time and
\* no bookkeeping statement is lost, whatever stalls, crashes, fails or is retried.
THEOREM ServedCorrect ==
    ASSUME Overlap = FALSE, MaxFaults["db"] = 0
    PROVE  Spec => []ReadyIsServed
<1>1. TypeOK /\ HeldInv /\ OneInv /\ QueueInv /\ ServedInv /\ [Next]_vars => ServedInv'
  <2> SUFFICES ASSUME TypeOK, HeldInv, OneInv, QueueInv, ServedInv, [Next]_vars
               PROVE  ServedInv'
    OBVIOUS
  <2>1. EvidenceInv'
    <3>1. CASE Next
      BY <3>1, EvidencePodStep, EvidenceDeploymentStep DEF Next, ServedInv
    <3>2. CASE UNCHANGED vars
      BY <3>2 DEF vars, clusterVars, workerVars, ServedInv, EvidenceInv
    <3> QED
      BY <3>1, <3>2
  <2>2. NewestInv' /\ ReadyIsServed'
    BY NewestStep, ReadyStaysServed DEF ServedInv
  <2> QED
    BY <2>1, <2>2 DEF ServedInv
<1>2. ServedInv => ReadyIsServed
  BY DEF ServedInv
<1> QED
  BY QueueCorrect, ServedInit, <1>1, <1>2, PTL DEF Spec

-----------------------------------------------------------------------------
\* What has finished, and what of it is ready, as BuildOrder sees it.
Finished == {d \in Deployments : status[d] \in TerminalStates}
ReadyRows == {d \in Deployments : status[d] = "ready"}

\* A step that finishes no row is none of BuildOrder.
LEMMA OrderStutters ==
    ASSUME TypeOK, Onward, \A d \in Deployments :
               status'[d] \in TerminalStates => status[d] \in TerminalStates
    PROVE  Finished' = Finished /\ ReadyRows' = ReadyRows
  BY DEF Onward, Finished, ReadyRows, TerminalStates

\* One that finishes a row finishes the oldest that is left, and no other.
LEMMA OrderFinishes ==
    ASSUME TypeOK, HeldInv, OneInv, QueueInv, Onward, [Next]_vars, NEW d \in Deployments,
           status[d] \notin TerminalStates, status'[d] \in TerminalStates
    PROVE  Order!Finish(d)
<1>1. /\ \A e \in Deployments \ {d} : status'[e] = status[e]
      /\ \A e \in Older(d) : status[e] \in TerminalStates
  BY FinishedBy DEF QueueInv
<1>2. Finished' = Finished \cup {d}
  BY <1>1 DEF Finished
<1>3. ReadyRows' \in {ReadyRows, ReadyRows \cup {d}}
  <2>1. CASE status'[d] = "ready"
    BY <1>1, <2>1 DEF ReadyRows
  <2>2. CASE status'[d] # "ready"
    BY <1>1, <2>2 DEF ReadyRows, TerminalStates
  <2> QED
    BY <2>1, <2>2
<1>4. d \notin Finished /\ \A e \in Order!Deployments : e < d => e \in Finished
  BY <1>1 DEF Finished, Older, Order!Deployments, Deployments
<1> QED
  BY <1>2, <1>3, <1>4 DEF Order!Finish, Finished, ReadyRows

\* Deployments finish, ready or failed, in the order they were queued and for
\* good, as long as one pod runs at a time and no bookkeeping statement is lost:
\* what ProductionTraffic builds on is what the queue does.
THEOREM BuildOrderImplemented ==
    ASSUME Overlap = FALSE, MaxFaults["db"] = 0
    PROVE  Spec => ImplementsBuildOrder
<1>1. Init => Order!Init
  BY DEF Init, Order!Init, TerminalStates
<1>2. TypeOK /\ HeldInv /\ OneInv /\ QueueInv /\ [Next]_vars
         => [Order!Next]_<<Finished, ReadyRows>>
  <2> SUFFICES ASSUME TypeOK, HeldInv, OneInv, QueueInv, [Next]_vars
               PROVE  [Order!Next]_<<Finished, ReadyRows>>
    OBVIOUS
  <2>1. Onward
    BY OnwardStep
  <2>2. CASE \A d \in Deployments :
                status'[d] \in TerminalStates => status[d] \in TerminalStates
    BY <2>1, <2>2, OrderStutters
  <2>3. CASE \E d \in Deployments :
                status[d] \notin TerminalStates /\ status'[d] \in TerminalStates
    BY <2>1, <2>3, OrderFinishes DEF Order!Next, Order!Deployments, Deployments
  <2> QED
    BY <2>2, <2>3
<1> QED
  BY QueueCorrect, <1>1, <1>2, PTL
  DEF Spec, ImplementsBuildOrder, Order!Spec, Finished, ReadyRows
=============================================================================
