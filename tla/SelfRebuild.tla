----------------------------- MODULE SelfRebuild -----------------------------
(***************************************************************************)
(* The self-rebuilder: every control-plane pod polls the repository's main *)
(* branch, rebuilds the control plane's own image when the branch has      *)
(* moved, and restarts the Deployment it runs in.                          *)
(*                                                                         *)
(* During a rollout two pods poll.  They share the Job, which has a fixed  *)
(* name, the ConfigMap with the last commit built, and the image's mutable *)
(* tag, which a container pulls again on every start.                      *)
(***************************************************************************)
EXTENDS Integers, FiniteSets

CONSTANTS
    Pods,          \* the pods a rollout needs: the old one and the surge
    LastCommit,    \* commits of main are numbered from 0
    Unbuildable,   \* commits whose image does not build
    Crashing,      \* commits whose process exits before it is ready
    MaxFaults,     \* calls that fail, and builds that take too long
    MaxCrashes,    \* containers of a ready pod that die
    CrashOnBadTag, \* may one die while the tag is an image that crashes?
    SlowPods       \* may the pod of a deleted Job outlive the next Job?

CommitIds == 0..LastCommit

ASSUME ConstantsAssumption ==
    /\ IsFiniteSet(Pods) /\ Pods # {}
    /\ LastCommit \in Nat
    /\ Unbuildable \subseteq CommitIds \ {0} /\ Crashing \subseteq CommitIds \ {0}
    /\ MaxFaults \in Nat /\ MaxCrashes \in Nat
    /\ CrashOnBadTag \in BOOLEAN /\ SlowPods \in BOOLEAN

VARIABLES
    head,      \* the branch on GitHub
    state,     \* last_sha in the ConfigMap, -1 without one
    job,       \* status of the Job build-control-plane
    source,    \* the commit its pod has cloned, -1 before
    ghosts,    \* commits cloned by pods of Jobs that were deleted
    tag,       \* the commit of the image spinup-control-plane:latest
    pod,       \* each pod: "none", "starting" or "ready"
    image,     \* the commit it runs
    current,   \* pods of the Deployment's latest template
    at,        \* where each pod's tick is
    latest,    \* the commit it works towards
    faults, crashes

kube == <<job, source, ghosts, tag>>
workload == <<pod, image, current>>
ticks == <<at, latest>>
vars == <<head, state, kube, workload, ticks, faults, crashes>>

Steps == {"off", "wait", "state", "bootstrap", "delete", "gone", "create", "watch",
          "patch", "save"}

TypeOK ==
    /\ head \in CommitIds /\ tag \in CommitIds
    /\ state \in -1..LastCommit /\ source \in -1..LastCommit
    /\ job \in {"none", "active", "complete", "failed"}
    /\ job = "none" => source = -1
    /\ ghosts \subseteq CommitIds
    /\ pod \in [Pods -> {"none", "starting", "ready"}]
    /\ image \in [Pods -> CommitIds]
    /\ current \subseteq {p \in Pods : pod[p] # "none"}
    /\ at \in [Pods -> Steps] /\ latest \in [Pods -> CommitIds]
    /\ \A p \in Pods : at[p] # "off" => pod[p] = "ready"
    /\ \A p \in Pods : latest[p] <= head
    /\ tag <= head /\ state <= head
    /\ faults \in 0..MaxFaults /\ crashes \in 0..MaxCrashes

First == CHOOSE p \in Pods : TRUE

\* One pod serves the commit that main is at; the ConfigMap may not exist yet.
Init ==
    /\ head = 0 /\ state \in {-1, 0}
    /\ job = "none" /\ source = -1 /\ ghosts = {} /\ tag = 0
    /\ pod = [p \in Pods |-> IF p = First THEN "ready" ELSE "none"]
    /\ image = [p \in Pods |-> 0] /\ current = {First}
    /\ at = [p \in Pods |-> IF p = First THEN "wait" ELSE "off"]
    /\ latest = [p \in Pods |-> 0]
    /\ faults = MaxFaults /\ crashes = MaxCrashes

GoTo(p, step) == at' = [at EXCEPT ![p] = step]

Fault == faults > 0 /\ faults' = faults - 1

\* The first deployment is bootstrapped before main moves on.
Commit ==
    /\ state # -1 /\ head < LastCommit
    /\ head' = head + 1
    /\ UNCHANGED <<state, kube, workload, ticks, faults, crashes>>

-----------------------------------------------------------------------------
(***************************************************************************)
(* rebuilderTick.  Whatever fails ends the tick; the next one starts over. *)
(***************************************************************************)
GithubLatestSHA(p) ==
    /\ at[p] = "wait"
    /\ latest' = [latest EXCEPT ![p] = head]
    /\ GoTo(p, "state")
    /\ UNCHANGED <<head, state, kube, workload, faults, crashes>>

ReadState(p) ==
    /\ at[p] = "state"
    /\ GoTo(p, CASE state = -1        -> "bootstrap"
                 [] state = latest[p] -> "wait"
                 [] OTHER             -> "delete")
    /\ UNCHANGED <<head, state, kube, workload, latest, faults, crashes>>

Recorded_Head(p) == head

\* The commit the tick began with, although Kaniko may have cloned a newer one.
Recorded(p) == latest[p]

WriteState(p) ==
    /\ at[p] \in {"bootstrap", "save"}
    /\ state' = Recorded(p)
    /\ GoTo(p, "wait")
    /\ UNCHANGED <<head, kube, workload, latest, faults, crashes>>

NoJob_KeepsClone == job' = "none" /\ source' = source

\* The clone goes with the Job's pod: the next Job clones afresh.
NoJob == job' = "none" /\ source' = -1

\* propagationPolicy=Background: the Job goes, its pod is collected later.
DeleteJob(p) ==
    /\ at[p] = "delete"
    /\ NoJob
    /\ ghosts' = IF job = "active" /\ source # -1
                 THEN ghosts \cup {source} ELSE ghosts
    /\ GoTo(p, "gone")
    /\ UNCHANGED <<head, state, tag, workload, latest, faults, crashes>>

\* waitForJobGone: a Job another pod has created meanwhile does not go away.
WaitForJobGone(p) ==
    /\ at[p] = "gone"
    /\ GoTo(p, IF job = "none" THEN "create" ELSE "wait")
    /\ UNCHANGED <<head, state, kube, workload, latest, faults, crashes>>

\* A Job of that name is a conflict.
CreateJob(p) ==
    IF job = "none" THEN job' = "active" /\ GoTo(p, "watch")
                    ELSE job' = job /\ GoTo(p, "wait")

Create(p) ==
    /\ at[p] = "create"
    /\ CreateJob(p)
    /\ UNCHANGED <<head, state, source, ghosts, tag, workload, latest, faults, crashes>>

AfterOutcome_Always(p) == "patch"

AfterOutcome(p) == IF job = "complete" THEN "patch" ELSE "wait"

\* jobOutcome: a Job that is not there is asked for again.
Watch(p) ==
    /\ at[p] = "watch"
    /\ job \in {"complete", "failed"}
    /\ GoTo(p, AfterOutcome(p))
    /\ UNCHANGED <<head, state, kube, workload, latest, faults, crashes>>

\* rolloutRestart: a new template, which no pod has yet.
RolloutRestart(p) ==
    /\ at[p] = "patch"
    /\ current' = {}
    /\ GoTo(p, "save")
    /\ UNCHANGED <<head, state, kube, pod, image, latest, faults, crashes>>

\* A call fails, or the build's context expires while the Job is watched.
TickFails(p) ==
    /\ at[p] \notin {"off", "wait"}
    /\ Fault
    /\ GoTo(p, "wait")
    /\ UNCHANGED <<head, state, kube, workload, latest, crashes>>

\* The watched Job was deleted and not created again: the deadline passes.
TimesOut(p) ==
    /\ at[p] = "watch" /\ job = "none"
    /\ GoTo(p, "wait")
    /\ UNCHANGED <<head, state, kube, workload, latest, faults, crashes>>

Tick(p) ==
    \/ GithubLatestSHA(p) \/ ReadState(p) \/ WriteState(p) \/ DeleteJob(p)
    \/ WaitForJobGone(p) \/ Create(p) \/ Watch(p) \/ RolloutRestart(p) \/ TimesOut(p)

-----------------------------------------------------------------------------
(***************************************************************************)
(* Kaniko clones the branch, not the commit that was seen, and pushes.     *)
(***************************************************************************)
Clone ==
    /\ job = "active" /\ source = -1
    /\ source' = head
    /\ UNCHANGED <<head, state, job, ghosts, tag, workload, ticks, faults, crashes>>

\* A pod gets 30 seconds to end, and a build takes more than a minute.
Build ==
    /\ job = "active" /\ source # -1
    /\ SlowPods \/ ghosts = {}
    /\ \/ /\ source \notin Unbuildable
          /\ tag' = source /\ job' = "complete"
          /\ UNCHANGED faults
       \/ /\ source \in Unbuildable \/ faults > 0
          /\ faults' = IF source \in Unbuildable THEN faults ELSE faults - 1
          /\ job' = "failed" /\ tag' = tag
    /\ UNCHANGED <<head, state, source, ghosts, workload, ticks, crashes>>

\* The pod of a deleted Job is killed, before or after it has pushed.
GhostEnds(c) ==
    /\ c \in ghosts
    /\ ghosts' = ghosts \ {c}
    /\ \/ tag' = tag
       \/ c \notin Unbuildable /\ tag' = c
    /\ UNCHANGED <<head, state, job, source, workload, ticks, faults, crashes>>

-----------------------------------------------------------------------------
(***************************************************************************)
(* The Deployment: one replica, maxSurge 1, maxUnavailable 0, and          *)
(* imagePullPolicy Always.                                                 *)
(***************************************************************************)
StartPod(p) ==
    /\ pod[p] = "none" /\ current = {}
    /\ pod' = [pod EXCEPT ![p] = "starting"]
    /\ image' = [image EXCEPT ![p] = tag]
    /\ current' = {p}
    /\ UNCHANGED <<head, state, kube, ticks, faults, crashes>>

BecomeReady(p) ==
    /\ pod[p] = "starting" /\ image[p] \notin Crashing
    /\ pod' = [pod EXCEPT ![p] = "ready"]
    /\ GoTo(p, "wait")
    /\ UNCHANGED <<head, state, kube, image, current, latest, faults, crashes>>

\* A container that exits is started again, from the image the tag has now.
PullAgain(p) ==
    /\ pod[p] = "starting" /\ image[p] \in Crashing /\ image[p] # tag
    /\ image' = [image EXCEPT ![p] = tag]
    /\ UNCHANGED <<head, state, kube, pod, current, ticks, faults, crashes>>

\* maxUnavailable: 0
MayStop(p) ==
    /\ p \notin current
    /\ pod[p] = "starting" \/ \E q \in current : pod[q] = "ready"

StopOld(p) ==
    /\ pod[p] # "none"
    /\ MayStop(p)
    /\ pod' = [pod EXCEPT ![p] = "none"]
    /\ GoTo(p, "off")
    /\ UNCHANGED <<head, state, kube, image, current, latest, faults, crashes>>

Crash(p) ==
    /\ pod[p] = "ready" /\ crashes > 0
    /\ CrashOnBadTag \/ tag \notin Crashing
    /\ crashes' = crashes - 1
    /\ pod' = [pod EXCEPT ![p] = "starting"]
    /\ image' = [image EXCEPT ![p] = tag]
    /\ GoTo(p, "off")
    /\ UNCHANGED <<head, state, kube, current, latest, faults>>

Rollout(p) == StartPod(p) \/ BecomeReady(p) \/ PullAgain(p) \/ StopOld(p)

Next ==
    \/ Commit \/ Clone \/ Build
    \/ \E c \in CommitIds : GhostEnds(c)
    \/ \E p \in Pods : Tick(p) \/ TickFails(p) \/ Rollout(p) \/ Crash(p)

Spec == Init /\ [][Next]_vars

\* The ticker of a ready pod fires, a Job that was created runs, and the
\* Deployment controller and the kubelet do their work.
Fairness ==
    /\ WF_vars(Clone) /\ WF_vars(Build) /\ \A c \in CommitIds : WF_vars(GhostEnds(c))
    /\ \A p \in Pods : WF_vars(Tick(p)) /\ WF_vars(Rollout(p))

FairSpec == Spec /\ Fairness

-----------------------------------------------------------------------------
(***************************************************************************)
(* Properties.                                                             *)
(***************************************************************************)

\* The commit recorded as built is in the image the tag has, although two
\* pods share the Job: otherwise the rebuilder would never build it.
RecordedIsBuilt ==
    [][state' # state /\ state # -1 => tag >= state']_vars

\* The same for as long as it stays recorded: "Wait for the old job + its
\* pods to actually disappear".
RecordedStaysBuilt ==
    [][state # -1 /\ state' = state /\ tag >= state => tag' >= state]_vars

\* A broken commit is repaired by the next good one: when main ends at a
\* commit that builds and starts, a pod comes to serve it for good.
GoodHeadIsServed ==
    LastCommit \notin Unbuildable \cup Crashing =>
        (head = LastCommit
           ~> [](\E p \in Pods : pod[p] = "ready" /\ image[p] = LastCommit))

\* "The old pod keeps serving until the new one passes readiness.
\* Crashlooping pod never replaces the working one": whatever dies, a pod
\* serves again.
ServesAgain == []<>(\E p \in Pods : pod[p] = "ready")
=============================================================================
