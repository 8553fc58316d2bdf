---------------------------- MODULE BuildPipeline ----------------------------
(***************************************************************************)
(* The build queue of the control plane: the deployments table, the build  *)
(* worker and the build reconciler of every control-plane pod, and the     *)
(* Kaniko Jobs they share in the cluster.                                  *)
(*                                                                         *)
(* A pod runs one worker goroutine (builder.go) and one reconciler         *)
(* goroutine (build_reconciler.go).  They talk to Postgres and to the      *)
(* Kubernetes API in separate round trips, so every read of one may be     *)
(* stale when it acts.  Pods crash, restart, and, because the pod template *)
(* is rolled out with maxSurge 1 and maxUnavailable 0, an old and a new    *)
(* pod may run side by side when Overlap is TRUE.                          *)
(*                                                                         *)
(* Time is kept per row as an age that only distinguishes the thresholds   *)
(* the code compares with: 90s, 8min and 15min.                            *)
(***************************************************************************)
EXTENDS Integers, FiniteSets

CONSTANTS
    Pods,            \* pod incarnations that may run the control plane
    NoPod,           \* build_started_at IS NULL
    NumDeployments,  \* rows are numbered in created_at order
    Project,         \* the project of each deployment
    Production,      \* deployments of their project's production branch
    Overlap,         \* may a rollout start a pod next to a running one?
    Revocable,       \* deployments whose App installation may be deleted
    SlowBuilds,      \* deployments whose image takes 8 to 15 minutes to build
    MaxFaults        \* how often each kind of fault may strike

Deployments == 1..NumDeployments

FaultKinds == {"crash", "rollout", "slow", "db", "kube"}

ASSUME ConstantsAssumption ==
    /\ NumDeployments \in Nat
    /\ NoPod \notin Pods
    /\ Production \subseteq Deployments
    /\ Overlap \in BOOLEAN
    /\ Revocable \subseteq Deployments
    /\ SlowBuilds \subseteq Deployments
    /\ MaxFaults \in [FaultKinds -> Nat]

VARIABLES
    status,    \* deployments.status; "none" before the INSERT
    age,       \* how long ago COALESCE(build_started_at, created_at) was
    owner,     \* the pod whose claim wrote build_started_at
    orphaned,  \* deployments whose installations row has been deleted
    green,     \* deployments whose last GitHub commit status is "success"
    job,       \* the build Job object, by deployment
    deleting,  \* Jobs with a deletionTimestamp, still visible to GET
    pushed,    \* deployments whose image is in the registry
    applied,   \* deployments whose Deployment and Service exist
    live,      \* pods now running
    wpc,       \* where each pod's worker is
    wdep,      \* the deployment it holds, 0 if none
    wexp,      \* has the context of its attempt timed out?
    rpc,       \* where each pod's reconciler is
    rdep,      \* the listed row it is looking at, 0 if none
    rage,      \* the age of that row when it was listed
    faults     \* faults that may still strike

rowVars     == <<status, age, owner>>
clusterVars == <<job, deleting, pushed, applied>>
workerVars  == <<wpc, wdep, wexp>>
reconVars   == <<rpc, rdep, rage>>
vars == <<rowVars, orphaned, green, clusterVars, live, workerVars, reconVars,
          faults>>

-----------------------------------------------------------------------------
InFlightStates == {"building", "deploying"}
TerminalStates == {"ready", "failed"}
Statuses == {"none", "queued"} \cup InFlightStates \cup TerminalStates

\* Ages: younger than missingJobGrace, than stuckKanikoThreshold, than
\* buildTimeout, and older.
Ages == 0..3
MissingJobGrace == 1
StuckKanikoThreshold == 2
BuildTimeout == 3

\* A Job is "cloning" while its init container runs, "running" while Kaniko does.
JobStates == {"absent", "cloning", "running", "succeeded", "failed"}

\* The steps of runOne whose calls take the attempt's context.
AttemptSteps == {"prepare", "ensure", "create", "wait", "mark", "apply", "ready"}
WorkerSteps  == {"off", "idle", "claim", "finish", "fail"} \cup AttemptSteps
ReconSteps   == {"off", "idle", "probe", "kill", "requeue", "retry"}

InFlight(d) == status[d] \in InFlightStates

Older(d) == {e \in Deployments : e < d}

\* The attempt that wrote build_started_at is still being worked on.
Attended(d) == \E p \in live : owner[d] = p /\ wdep[p] = d

TypeOK ==
    /\ status \in [Deployments -> Statuses]
    /\ age \in [Deployments -> Ages]
    /\ owner \in [Deployments -> Pods \cup {NoPod}]
    /\ orphaned \subseteq Deployments
    /\ green \subseteq Deployments
    /\ job \in [Deployments -> JobStates]
    /\ deleting \subseteq Deployments
    /\ pushed \subseteq Deployments
    /\ applied \subseteq Deployments
    /\ live \subseteq Pods
    /\ wpc \in [Pods -> WorkerSteps]
    /\ wdep \in [Pods -> Deployments \cup {0}]
    /\ wexp \in [Pods -> BOOLEAN]
    /\ rpc \in [Pods -> ReconSteps]
    /\ rdep \in [Pods -> Deployments \cup {0}]
    /\ rage \in [Pods -> Ages]
    /\ faults \in [FaultKinds -> Nat]

Init ==
    /\ status = [d \in Deployments |-> "none"]
    /\ age = [d \in Deployments |-> 0]
    /\ owner = [d \in Deployments |-> NoPod]
    /\ orphaned = {}
    /\ green = {}
    /\ job = [d \in Deployments |-> "absent"]
    /\ deleting = {}
    /\ pushed = {}
    /\ applied = {}
    /\ live = {}
    /\ wpc = [p \in Pods |-> "off"]
    /\ wdep = [p \in Pods |-> 0]
    /\ wexp = [p \in Pods |-> FALSE]
    /\ rpc = [p \in Pods |-> "off"]
    /\ rdep = [p \in Pods |-> 0]
    /\ rage = [p \in Pods |-> 0]
    /\ faults = MaxFaults

\* One of the faults of this kind that the environment may still cause.
Strike(kind) ==
    /\ faults[kind] > 0
    /\ faults' = [faults EXCEPT ![kind] = @ - 1]

-----------------------------------------------------------------------------
(***************************************************************************)
(* Statements of store.go.                                                 *)
(***************************************************************************)

SetStatus(d, s) == status' = [status EXCEPT ![d] = s]

\* MarkReady and MarkFailed.  No statement compares the age of a finished row.
Conclude(d, s) ==
    /\ SetStatus(d, s)
    /\ age' = [age EXCEPT ![d] = 0]

\* The SET clause of the three requeue statements.  build_started_at becomes
\* NULL, so the row's age falls back to created_at: no younger than it was.
RequeueRows(S) ==
    /\ status' = [d \in Deployments |-> IF d \in S THEN "queued" ELSE status[d]]
    /\ owner'  = [d \in Deployments |-> IF d \in S THEN NoPod ELSE owner[d]]
    /\ UNCHANGED age

RequeueStuck == RequeueRows({d \in Deployments : InFlight(d)})

RequeueStale_Never == UNCHANGED rowVars

RequeueStale ==
    RequeueRows({d \in Deployments : InFlight(d) /\ age[d] >= BuildTimeout})

RequeueDeployment_AnyStatus(d) == RequeueRows({d})

RequeueDeployment(d) == RequeueRows({e \in {d} : InFlight(e)})

MarkFailed(d) == Conclude(d, "failed")

MarkFailedIfInFlight(d) ==
    IF InFlight(d) THEN Conclude(d, "failed") ELSE UNCHANGED <<status, age>>

Queued == {d \in Deployments : status[d] = "queued"}

Oldest_Unordered(S) == CHOOSE d \in S : \A e \in S : d >= e

\* ORDER BY created_at LIMIT 1
Oldest(S) == CHOOSE d \in S : \A e \in S : d <= e

\* FOR UPDATE SKIP LOCKED passes over the row that another pod's claim,
\* not committed yet, has locked.
ClaimableRows(p) ==
    {Queued} \cup IF \E q \in live \ {p} : wpc[q] = "claim"
                  THEN {{d \in Queued : Older(d) \cap Queued # {}}}
                  ELSE {}

\* GitHub keeps the last status posted; a post that fails is only logged.
PostStatus(d, s) ==
    green' \in {green, IF s = "success" THEN green \cup {d} ELSE green \ {d}}

(***************************************************************************)
(* The webhook and the redeploy handlers insert a row.                     *)
(***************************************************************************)
Enqueue(d) ==
    /\ status[d] = "none"
    /\ \A e \in Older(d) : status[e] # "none"
    /\ SetStatus(d, "queued")
    /\ UNCHANGED <<age, owner, orphaned, green, clusterVars, live, workerVars,
                   reconVars, faults>>

\* DeleteInstallation: the projects and their queued rows stay behind.
Uninstall(d) ==
    /\ d \in Revocable \ orphaned
    /\ orphaned' = orphaned \cup {d}
    /\ UNCHANGED <<rowVars, green, clusterVars, live, workerVars, reconVars, faults>>

(***************************************************************************)
(* Pods.                                                                   *)
(***************************************************************************)
StartGoroutines(p) ==
    /\ live' = live \cup {p}
    /\ wpc' = [wpc EXCEPT ![p] = "idle"]
    /\ rpc' = [rpc EXCEPT ![p] = "idle"]
    /\ UNCHANGED <<orphaned, green, clusterVars, wdep, wexp, rdep, rage>>

Boot(p) ==
    /\ live = {}
    /\ RequeueStuck
    /\ StartGoroutines(p)
    /\ UNCHANGED faults

\* main logs a failing RequeueStuck and goes on.
BootWithoutRequeue(p) ==
    /\ live = {}
    /\ Strike("db")
    /\ StartGoroutines(p)
    /\ UNCHANGED rowVars

\* The new pod boots while the old one is still at work.
Rollout(p) ==
    /\ Overlap
    /\ p \notin live
    /\ \E old \in Pods : live = {old}
    /\ Strike("rollout")
    /\ RequeueStuck
    /\ StartGoroutines(p)

\* A crash, or SIGTERM: the cancelled context makes the worker's last
\* statement, MarkFailedIfInFlight, fail as well.  A rollout ends by stopping
\* one of its two pods.
Stop(p) ==
    /\ p \in live
    /\ IF live = {p} THEN Strike("crash") ELSE UNCHANGED faults
    /\ live' = live \ {p}
    /\ wpc' = [wpc EXCEPT ![p] = "off"]
    /\ wdep' = [wdep EXCEPT ![p] = 0]
    /\ wexp' = [wexp EXCEPT ![p] = FALSE]
    /\ rpc' = [rpc EXCEPT ![p] = "off"]
    /\ rdep' = [rdep EXCEPT ![p] = 0]
    /\ rage' = [rage EXCEPT ![p] = 0]
    /\ UNCHANGED <<rowVars, orphaned, green, clusterVars>>

Retire(p) == live # {p} /\ Stop(p)

(***************************************************************************)
(* The worker.  tick: sweep, claim, run the attempt, record the outcome.   *)
(***************************************************************************)
GoTo(p, step) == wpc' = [wpc EXCEPT ![p] = step]

\* A step within the attempt's 15 minutes; only the worker's place changes.
\* A call of the attempt may take effect and its answer be lost.
Step(p, from, to) ==
    /\ wpc[p] = from
    /\ ~wexp[p]
    /\ GoTo(p, to) \/ (from \in AttemptSteps /\ GoTo(p, "fail"))
    /\ UNCHANGED <<orphaned, live, wdep, wexp, reconVars>>

Rest(p) ==
    /\ GoTo(p, "idle")
    /\ wdep' = [wdep EXCEPT ![p] = 0]
    /\ wexp' = [wexp EXCEPT ![p] = FALSE]
    /\ UNCHANGED <<orphaned, live, reconVars>>

\* A sweep whose statement fails is only logged.
Sweep(p) ==
    /\ Step(p, "idle", "claim")
    /\ \/ RequeueStale /\ UNCHANGED faults
       \/ Strike("db") /\ UNCHANGED rowVars
    /\ UNCHANGED <<green, clusterVars>>

\* A COMMIT may take effect and its answer be lost.
Claim(p, d) ==
    /\ SetStatus(d, "building")
    /\ age' = [age EXCEPT ![d] = 0]
    /\ owner' = [owner EXCEPT ![d] = p]
    /\ \/ GoTo(p, "prepare") /\ wdep' = [wdep EXCEPT ![p] = d] /\ UNCHANGED faults
       \/ GoTo(p, "idle") /\ UNCHANGED wdep /\ Strike("db")

\* Scanning the NULL account_login of an orphaned row fails and rolls the
\* claim back.
ClaimNextQueued(p) ==
    /\ wpc[p] = "claim"
    /\ \E rows \in ClaimableRows(p) :
       IF rows = {} \/ Oldest(rows) \in orphaned
       THEN GoTo(p, "idle") /\ UNCHANGED <<rowVars, wdep, faults>>
       ELSE Claim(p, Oldest(rows))
    /\ UNCHANGED <<orphaned, green, clusterVars, live, wexp, reconVars>>

\* Commit status, installation token, git Secret.
Prepare(p) ==
    /\ Step(p, "prepare", "ensure")
    /\ PostStatus(wdep[p], "pending")
    /\ UNCHANGED <<rowVars, clusterVars, faults>>

\* ensureBuildJob reads the Job's phase: attach, replace a failed Job, or create.
EnsureBuildJob(p) ==
    LET d == wdep[p] IN
    /\ Step(p, "ensure", IF job[d] \in {"absent", "failed"} THEN "create" ELSE "wait")
    /\ deleting' = deleting \cup (IF job[d] = "failed" THEN {d} ELSE {})
    /\ UNCHANGED <<rowVars, green, job, pushed, applied, faults>>

\* A Job still being deleted answers 409, which fails the attempt.
CreateJob(p) ==
    LET d == wdep[p] IN
    /\ Step(p, "create", IF job[d] = "absent" THEN "wait" ELSE "fail")
    /\ job' = IF job[d] = "absent" THEN [job EXCEPT ![d] = "cloning"] ELSE job
    /\ UNCHANGED <<rowVars, green, deleting, pushed, applied, faults>>

WaitForJob_IgnoresFailure(p) ==
    LET d == wdep[p] IN
    /\ wpc[p] = "wait"
    /\ job[d] \in {"absent", "succeeded", "failed"}
    /\ Step(p, "wait", IF job[d] = "absent" THEN "fail" ELSE "mark")
    /\ UNCHANGED <<rowVars, green, clusterVars, faults>>

\* The poll that sees the Job finished, or gone.
WaitForJob(p) ==
    LET d == wdep[p] IN
    /\ wpc[p] = "wait"
    /\ job[d] \in {"absent", "succeeded", "failed"}
    /\ Step(p, "wait", IF job[d] = "succeeded" THEN "mark" ELSE "fail")
    /\ UNCHANGED <<rowVars, green, clusterVars, faults>>

\* UPDATE ... WHERE id = $1, whatever the row's status has become.
MarkDeploying(p) ==
    /\ Step(p, "mark", "apply")
    /\ SetStatus(wdep[p], "deploying")
    /\ UNCHANGED <<age, owner, green, clusterVars, faults>>

\* Namespace, env Secret, Deployment, Service, preview route.
ApplyTenantObjects(p) ==
    /\ Step(p, "apply", "ready")
    /\ applied' = applied \cup {wdep[p]}
    /\ UNCHANGED <<rowVars, green, job, deleting, pushed, faults>>

MarkReady_ErrorSwallowed(p) ==
    /\ Step(p, "ready", "finish")
    /\ Conclude(wdep[p], "ready") \/ UNCHANGED <<status, age>>
    /\ UNCHANGED <<owner, green, clusterVars, faults>>

MarkReady(p) ==
    /\ Step(p, "ready", "finish")
    /\ Conclude(wdep[p], "ready")
    /\ UNCHANGED <<owner, green, clusterVars, faults>>

OtherCommits_All(d) == {e \in Deployments : Project[e] = Project[d]}

\* The selector paas.project=<slug>,paas.commit!=<sha>.
OtherCommits(d) == {e \in Deployments \ {d} : Project[e] = Project[d]}

\* A production build deletes the objects of the project's other builds; the
\* deletion goes as far as its calls succeed.
CollectGarbage(d) ==
    \E gone \in SUBSET OtherCommits(d) :
        /\ d \notin Production => gone = {}
        /\ applied' = applied \ gone

Finish_RestsFirst(p) ==
    /\ wpc[p] = "finish"
    /\ CollectGarbage(wdep[p])
    /\ Rest(p)
    /\ PostStatus(wdep'[p], "success")
    /\ UNCHANGED <<rowVars, job, deleting, pushed, faults>>

\* What follows MarkReady never fails the attempt.  ProductionTraffic has the
\* production traffic that belongs here.
Finish(p) ==
    /\ wpc[p] = "finish"
    /\ CollectGarbage(wdep[p])
    /\ PostStatus(wdep[p], "success")
    /\ Rest(p)
    /\ UNCHANGED <<rowVars, job, deleting, pushed, faults>>

\* A call of the attempt returns an error and has had no effect.
AttemptFails(p) ==
    /\ wpc[p] \in AttemptSteps
    /\ GoTo(p, "fail")
    /\ UNCHANGED <<rowVars, orphaned, green, clusterVars, live, wdep, wexp,
                   reconVars, faults>>

\* Every call of the attempt fails once its context has timed out.
AttemptTimesOut(p) == wexp[p] /\ AttemptFails(p)

\* tick records the failure; if that statement fails too, the row is left in
\* flight with nobody working on it.
RecordFailure(p) ==
    /\ wpc[p] = "fail"
    /\ \/ MarkFailedIfInFlight(wdep[p]) /\ UNCHANGED <<owner, faults>>
       \/ Strike("db") /\ UNCHANGED rowVars
    /\ PostStatus(wdep[p], "failure")
    /\ Rest(p)
    /\ UNCHANGED clusterVars

(***************************************************************************)
(* The reconciler.  tick lists the rows in flight and deals with each from *)
(* that listing; one row of one listing is followed at a time.             *)
(***************************************************************************)
Ponder(p, from, to) ==
    /\ rpc[p] = from
    /\ rpc' = [rpc EXCEPT ![p] = to]
    /\ UNCHANGED <<orphaned, green, live, workerVars>>

Forget(p) ==
    /\ rdep' = [rdep EXCEPT ![p] = 0]
    /\ rage' = [rage EXCEPT ![p] = 0]

ListBuilding(p, d) ==
    /\ status[d] = "building"
    /\ Ponder(p, "idle", "probe")
    /\ rdep' = [rdep EXCEPT ![p] = d]
    /\ rage' = [rage EXCEPT ![p] = age[d]]
    /\ UNCHANGED <<rowVars, clusterVars, faults>>

MissingTooLong(p) == job[rdep[p]] = "absent" /\ rage[p] >= MissingJobGrace

LooksStuck(p) == job[rdep[p]] = "running" /\ rage[p] >= StuckKanikoThreshold

ProbeJob(p) ==
    /\ rpc[p] = "probe"
    /\ \/ MissingTooLong(p) /\ Ponder(p, "probe", "requeue") /\ UNCHANGED <<rdep, rage>>
       \/ LooksStuck(p) /\ Ponder(p, "probe", "kill") /\ UNCHANGED <<rdep, rage>>
       \/ ~MissingTooLong(p) /\ ~LooksStuck(p) /\ Ponder(p, "probe", "idle") /\ Forget(p)
    /\ UNCHANGED <<rowVars, clusterVars, faults>>

\* Foreground deletion: the Job stays visible until its pods are gone.
DeleteStuckJob(p) ==
    /\ Ponder(p, "kill", "retry")
    /\ deleting' = IF job[rdep[p]] = "absent" THEN deleting ELSE deleting \cup {rdep[p]}
    /\ UNCHANGED <<rdep, rage, rowVars, job, pushed, applied, faults>>

RequeueListed(p) ==
    /\ \E from \in {"requeue", "retry"} : Ponder(p, from, "idle")
    /\ RequeueDeployment(rdep[p])
    /\ Forget(p)
    /\ UNCHANGED <<clusterVars, faults>>

\* A failing call is logged and the row left for the next tick.
ReconcilerSkips(p) ==
    /\ \E from \in {"probe", "kill", "requeue", "retry"} : Ponder(p, from, "idle")
    /\ Strike("kube")
    /\ Forget(p)
    /\ UNCHANGED <<rowVars, clusterVars>>

(***************************************************************************)
(* The cluster: Job controller, registry, time.                            *)
(***************************************************************************)
JobMoves(d, from, to) ==
    /\ job[d] \in from
    /\ job' = [job EXCEPT ![d] = to]
    /\ UNCHANGED <<rowVars, orphaned, green, applied, live, workerVars, reconVars>>

JobClones(d) ==
    /\ d \notin deleting
    /\ JobMoves(d, {"cloning"}, "running")
    /\ UNCHANGED <<deleting, pushed, faults>>

\* Kaniko pushes the image and exits.
JobSucceeds(d) ==
    /\ d \notin deleting
    /\ d \in SlowBuilds => age[d] >= StuckKanikoThreshold
    /\ JobMoves(d, {"running"}, "succeeded")
    /\ pushed' = pushed \cup {d}
    /\ UNCHANGED <<deleting, faults>>

\* backoffLimit 0; activeDeadlineSeconds ends a build that hangs.
JobFails(d) ==
    /\ d \notin deleting
    /\ JobMoves(d, {"cloning", "running"}, "failed")
    /\ UNCHANGED <<deleting, pushed, faults>>

\* The last pod of a deleted Job is gone, and the Job with it.
JobVanishes(d) ==
    /\ d \in deleting
    /\ JobMoves(d, JobStates, "absent")
    /\ deleting' = deleting \ {d}
    /\ UNCHANGED <<pushed, faults>>

\* ttlSecondsAfterFinished: half an hour is long after whoever polled for the
\* Job has seen it.
JobExpires(d) ==
    /\ \A p \in live : wdep[p] # d /\ rdep[p] # d
    /\ JobMoves(d, {"succeeded", "failed"}, "absent")
    /\ deleting' = deleting \ {d}
    /\ UNCHANGED <<pushed, faults>>

\* An operator, or an evicting node, takes the Job away.
JobLost(d) ==
    /\ Strike("kube")
    /\ JobMoves(d, {"cloning", "running"}, "absent")
    /\ deleting' = deleting \ {d}
    /\ UNCHANGED pushed

\* A row that nobody is working on grows older.  While it is queued its age
\* only matters to an attempt that was requeued under its worker's feet.
Lapse(d) ==
    /\ age[d] < BuildTimeout
    /\ ~Attended(d)
    /\ InFlight(d) \/ (status[d] = "queued" /\ \E p \in live : wdep[p] = d)
    /\ age' = [age EXCEPT ![d] = @ + 1]
    /\ UNCHANGED <<status, owner, orphaned, green, clusterVars, live, workerVars,
                   reconVars, faults>>

\* An attempt outlasts the next threshold.  Its context and its row count the
\* same 15 minutes.  Passing 90s while waiting for the Job is the normal case.
Overrun(d) ==
    /\ age[d] < BuildTimeout
    /\ Attended(d) /\ InFlight(d)
    /\ age' = [age EXCEPT ![d] = @ + 1]
    /\ wexp' = [p \in Pods |-> \/ wexp[p]
                               \/ p = owner[d] /\ wdep[p] = d /\ age'[d] = BuildTimeout]
    /\ IF d \in SlowBuilds \/ (age[d] = 0 /\ wpc[owner[d]] = "wait")
       THEN UNCHANGED faults
       ELSE Strike("slow")
    /\ UNCHANGED <<status, owner, orphaned, green, clusterVars, live, wpc, wdep,
                   reconVars>>

\* An attempt whose row has been requeued still has a clock of its own.
AttemptExpires(p) ==
    /\ wdep[p] # 0 /\ ~wexp[p]
    /\ owner[wdep[p]] # p
    /\ wexp' = [wexp EXCEPT ![p] = TRUE]
    /\ UNCHANGED <<rowVars, orphaned, green, clusterVars, live, wpc, wdep,
                   reconVars, faults>>

-----------------------------------------------------------------------------
\* What the worker does when its calls succeed or its context ends.
WorkerStep(p) ==
    \/ Sweep(p) \/ ClaimNextQueued(p) \/ Prepare(p)
    \/ EnsureBuildJob(p) \/ CreateJob(p) \/ WaitForJob(p)
    \/ MarkDeploying(p) \/ ApplyTenantObjects(p) \/ MarkReady(p) \/ Finish(p)
    \/ AttemptTimesOut(p) \/ RecordFailure(p)

ReconcilerStep(p) ==
    \/ \E d \in Deployments : ListBuilding(p, d)
    \/ ProbeJob(p) \/ DeleteStuckJob(p) \/ RequeueListed(p)

PodStep(p) ==
    \/ WorkerStep(p) \/ AttemptFails(p) \/ AttemptExpires(p)
    \/ ReconcilerStep(p) \/ ReconcilerSkips(p)
    \/ Boot(p) \/ BootWithoutRequeue(p) \/ Rollout(p) \/ Stop(p)

JobStep(d) == JobClones(d) \/ JobSucceeds(d) \/ JobFails(d) \/ JobVanishes(d)

DeploymentStep(d) ==
    \/ Enqueue(d) \/ Uninstall(d)
    \/ JobStep(d) \/ JobExpires(d) \/ JobLost(d)
    \/ Lapse(d) \/ Overrun(d)

Next ==
    \/ \E p \in Pods : PodStep(p)
    \/ \E d \in Deployments : DeploymentStep(d)

Spec == Init /\ [][Next]_vars

\* Goroutines are scheduled; Kubernetes restarts a dead pod, completes a
\* rollout and ends every Job; time passes for a row nobody is working on.
Fairness ==
    /\ WF_vars(\E p \in Pods : Boot(p))
    /\ WF_vars(\E p \in Pods : Retire(p))
    /\ \A p \in Pods : WF_vars(WorkerStep(p)) /\ WF_vars(ReconcilerStep(p))
    /\ \A d \in Deployments : WF_vars(JobStep(d)) /\ WF_vars(Lapse(d))

FairSpec == Spec /\ Fairness

-----------------------------------------------------------------------------
(***************************************************************************)
(* Properties.                                                             *)
(***************************************************************************)

\* A deployment shown as ready has its image, and its Deployment and Service,
\* unless a newer production build of its project has become ready and deleted
\* them: runOne writes "ready" last and deletes other builds after that, and no
\* attempt that comes late, was requeued or began again deletes a newer build.
ReadyIsServed ==
    \A d \in Deployments : status[d] = "ready" =>
        /\ d \in pushed
        /\ \/ d \in applied
           \/ \E e \in Production : d < e /\ Project[e] = Project[d] /\ status[e] = "ready"

\* GitHub shows a green check only on a deployment that is ready: the success
\* status follows MarkReady, and nothing takes the row back afterwards.
GreenCheckIsReady == \A d \in Deployments : d \in green => status[d] = "ready"

\* The lifecycle drawn in builder.go ends in ready or failed: a finished
\* deployment is never reopened, by a late worker, a requeue or a reconciler
\* acting on an old listing.
TerminalIsFinal ==
    [][\A d \in Deployments : status[d] \in TerminalStates => status'[d] = status[d]]_vars

\* The rows follow the lifecycle of DeploymentLifecycle.
Lifecycle == INSTANCE DeploymentLifecycle WITH status <- status
ImplementsLifecycle == Lifecycle!Spec

\* Deployments finish one by one in the order of the queue, failed ones too, and
\* for good: what ProductionTraffic takes for granted.
Order == INSTANCE BuildOrder WITH
             finished <- {d \in Deployments : status[d] \in TerminalStates},
             ready <- {d \in Deployments : status[d] = "ready"}
ImplementsBuildOrder == Order!Spec

\* No two pods work on the same deployment.
NoDoubleBuild ==
    \A p, q \in live : wdep[p] # 0 /\ wdep[p] = wdep[q] => p = q

\* A build that the reconciler takes for stuck, and whose Job it has deleted,
\* is retried, not failed for the missing Job.
StuckBuildIsRetried ==
    \A p \in live : rpc[p] = "retry" => status[rdep[p]] # "failed"

\* Every queued deployment is eventually ready or failed: crashes, lost Jobs,
\* failed bookkeeping and stalls strand none.
EveryDeploymentSettles ==
    \A d \in Deployments : status[d] = "queued" ~> status[d] \in TerminalStates

\* A deployment whose own build neither stalls nor loses its installation
\* settles, whatever is ahead of it in the queue.
OthersProceed ==
    \A d \in Deployments \ (Revocable \cup SlowBuilds) :
        status[d] = "queued" ~> status[d] \in TerminalStates

=============================================================================
