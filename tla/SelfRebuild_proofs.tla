-------------------------- MODULE SelfRebuild_proofs --------------------------
(***************************************************************************)
(* Theorems about SelfRebuild, for any number of pods, commits, faults and *)
(* crashes: types, and that what is recorded as built is in the image.     *)
(***************************************************************************)
EXTENDS SelfRebuild, TLAPS

\* Nothing has been cloned that main has not had.
TypeInv ==
    /\ TypeOK
    /\ source <= head
    /\ \A c \in ghosts : c <= head

-----------------------------------------------------------------------------
\* The pod that serves at first.
LEMMA FirstPod == First \in Pods
<1>1. \E p \in Pods : TRUE
  BY ConstantsAssumption
<1> QED
  BY <1>1, Zenon DEF First

\* One pod serves the commit main is at.
LEMMA TypeInit == Init => TypeInv
  BY FirstPod, ConstantsAssumption DEF Init, TypeInv, TypeOK, CommitIds, Steps

\* A step of a tick.
LEMMA TickTypes ==
    ASSUME TypeInv, NEW p \in Pods, Tick(p) \/ TickFails(p)
    PROVE  TypeInv'
<1>1. CASE GithubLatestSHA(p)
  BY <1>1, ConstantsAssumption DEF GithubLatestSHA, GoTo, TypeInv, TypeOK, CommitIds, Steps, kube, workload
<1>2. CASE ReadState(p)
  BY <1>2, ConstantsAssumption DEF ReadState, GoTo, TypeInv, TypeOK, CommitIds, Steps, kube, workload
<1>3. CASE WriteState(p)
  BY <1>3, ConstantsAssumption DEF WriteState, Recorded, GoTo, TypeInv, TypeOK, CommitIds, Steps, kube, workload
<1>4. CASE DeleteJob(p)
  BY <1>4, ConstantsAssumption DEF DeleteJob, NoJob, GoTo, TypeInv, TypeOK, CommitIds, Steps, kube, workload
<1>5. CASE WaitForJobGone(p)
  BY <1>5, ConstantsAssumption DEF WaitForJobGone, GoTo, TypeInv, TypeOK, CommitIds, Steps, kube, workload
<1>6. CASE Create(p)
  BY <1>6, ConstantsAssumption DEF Create, CreateJob, GoTo, TypeInv, TypeOK, CommitIds, Steps, kube, workload
<1>7. CASE Watch(p)
  BY <1>7, ConstantsAssumption DEF Watch, AfterOutcome, GoTo, TypeInv, TypeOK, CommitIds, Steps, kube, workload
<1>8. CASE RolloutRestart(p)
  BY <1>8, ConstantsAssumption DEF RolloutRestart, GoTo, TypeInv, TypeOK, CommitIds, Steps, kube, workload
<1>9. CASE TimesOut(p)
  BY <1>9, ConstantsAssumption DEF TimesOut, GoTo, TypeInv, TypeOK, CommitIds, Steps, kube, workload
<1>10. CASE TickFails(p)
  BY <1>10, ConstantsAssumption DEF TickFails, Fault, GoTo, TypeInv, TypeOK, CommitIds, Steps, kube, workload
<1> QED
  BY <1>1, <1>2, <1>3, <1>4, <1>5, <1>6, <1>7, <1>8, <1>9, <1>10 DEF Tick

\* A step of a rollout, or the death of a container.
LEMMA RolloutTypes ==
    ASSUME TypeInv, NEW p \in Pods, Rollout(p) \/ Crash(p)
    PROVE  TypeInv'
<1>1. CASE StartPod(p)
  BY <1>1, ConstantsAssumption DEF StartPod, GoTo, TypeInv, TypeOK, CommitIds, Steps, kube, ticks
<1>2. CASE BecomeReady(p)
  BY <1>2, ConstantsAssumption DEF BecomeReady, GoTo, TypeInv, TypeOK, CommitIds, Steps, kube, ticks
<1>3. CASE PullAgain(p)
  BY <1>3, ConstantsAssumption DEF PullAgain, GoTo, TypeInv, TypeOK, CommitIds, Steps, kube, ticks
<1>4. CASE StopOld(p)
  BY <1>4, ConstantsAssumption DEF StopOld, MayStop, GoTo, TypeInv, TypeOK, CommitIds, Steps, kube, ticks
<1>5. CASE Crash(p)
  BY <1>5, ConstantsAssumption DEF Crash, GoTo, TypeInv, TypeOK, CommitIds, Steps, kube, ticks
<1> QED
  BY <1>1, <1>2, <1>3, <1>4, <1>5 DEF Rollout

\* A push to main, and the builds.
LEMMA BuildTypes ==
    ASSUME TypeInv, Commit \/ Clone \/ Build \/ \E c \in CommitIds : GhostEnds(c)
    PROVE  TypeInv'
<1>1. CASE Commit
  BY <1>1, ConstantsAssumption DEF Commit, TypeInv, TypeOK, CommitIds, kube, workload, ticks
<1>2. CASE Clone
  BY <1>2, ConstantsAssumption DEF Clone, TypeInv, TypeOK, CommitIds, workload, ticks
<1>3. CASE Build
  BY <1>3, ConstantsAssumption DEF Build, TypeInv, TypeOK, CommitIds, workload, ticks
<1>4. CASE \E c \in CommitIds : GhostEnds(c)
  BY <1>4, ConstantsAssumption DEF GhostEnds, TypeInv, TypeOK, CommitIds, workload, ticks
<1> QED
  BY <1>1, <1>2, <1>3, <1>4

\* Every step keeps the types.
LEMMA TypeNext ==
    ASSUME TypeInv, [Next]_vars
    PROVE  TypeInv'
<1>1. CASE UNCHANGED vars
  BY <1>1 DEF TypeInv, TypeOK, vars, kube, workload, ticks
<1> QED
  BY <1>1, TickTypes, RolloutTypes, BuildTypes DEF Next

\* Types: Job, image, pods and ticks are what TypeOK says, and neither the
\* image nor the record is ever ahead of main.
THEOREM TypeCorrect == Spec => []TypeOK
<1>1. TypeInv /\ [Next]_vars => TypeInv'
  BY TypeNext
<1>2. TypeInv => TypeOK
  BY DEF TypeInv
<1> QED
  BY <1>1, <1>2, TypeInit, PTL DEF Spec

-----------------------------------------------------------------------------
\* What has been pushed or may still be pushed is no older than commit c.
AtLeast(c) ==
    /\ tag >= c
    /\ \A g \in ghosts : g >= c
    /\ source # -1 => source >= c

\* A finished Job has left its commit in the image and nothing runs beside it;
\* a pod that watches a Job gets at least its own commit from it, and still
\* has it when it records that.
RecordInv ==
    /\ job = "complete" => ghosts = {} /\ source # -1 /\ tag = source
    /\ state = -1 => head = 0
    /\ \A p \in Pods :
          /\ at[p] = "bootstrap" => latest[p] = 0
          /\ at[p] = "watch" /\ source # -1 => source >= latest[p]
          /\ at[p] \in {"patch", "save"} => AtLeast(latest[p])

\* The steps that concern neither the builds nor the record.
LEMMA OtherSteps ==
    ASSUME TypeInv, RecordInv, NEW p \in Pods, Rollout(p) \/ Crash(p)
    PROVE  RecordInv'
<1>1. UNCHANGED <<head, state, job, source, ghosts, tag, latest>>
  BY DEF Rollout, StartPod, BecomeReady, PullAgain, StopOld, Crash, kube, ticks
<1>2. \A q \in Pods : at'[q] = at[q] \/ at'[q] \in {"off", "wait"}
  BY DEF Rollout, StartPod, BecomeReady, PullAgain, StopOld, Crash, ticks, GoTo,
         TypeInv, TypeOK
<1> QED
  BY <1>1, <1>2 DEF RecordInv, AtLeast

\* A pod that goes on in its tick without touching what is built.
LEMMA PlainTick ==
    ASSUME TypeInv, RecordInv, NEW p \in Pods, NEW step,
           GoTo(p, step), UNCHANGED <<head, job, source, ghosts, tag>>,
           step \notin {"bootstrap", "watch", "patch", "save"},
           \A q \in Pods : q # p => latest'[q] = latest[q],
           state' = -1 => state = -1
    PROVE  RecordInv'
<1>1. \A q \in Pods : q # p => at'[q] = at[q]
  BY DEF GoTo, TypeInv, TypeOK
<1>2. at'[p] = step
  BY DEF GoTo, TypeInv, TypeOK
<1> QED
  BY <1>1, <1>2 DEF RecordInv, AtLeast

\* A step of a tick.
LEMMA TickRecord ==
    ASSUME TypeInv, RecordInv, NEW p \in Pods, Tick(p) \/ TickFails(p)
    PROVE  RecordInv'
<1>1. CASE GithubLatestSHA(p)
  BY <1>1, PlainTick DEF GithubLatestSHA, kube, TypeInv, TypeOK
<1>2. CASE ReadState(p)
  <2>1. CASE state = -1
    <3>1. latest[p] = 0
      BY <2>1 DEF RecordInv, TypeInv, TypeOK, CommitIds
    <3> QED
      BY <1>2, <2>1, <3>1
         DEF ReadState, GoTo, RecordInv, AtLeast, kube, TypeInv, TypeOK
  <2>2. CASE state # -1
    BY <1>2, <2>2, PlainTick DEF ReadState, kube
  <2> QED
    BY <2>1, <2>2
<1>3. CASE WriteState(p)
  <2>1. state' # -1
    BY <1>3 DEF WriteState, Recorded, TypeInv, TypeOK, CommitIds
  <2> QED
    BY <1>3, <2>1, PlainTick DEF WriteState, kube
<1>4. CASE DeleteJob(p)
  <2>1. \A c : AtLeast(c) => AtLeast(c)'
    BY <1>4 DEF DeleteJob, NoJob, AtLeast
  <2>2. at'[p] = "gone" /\ \A q \in Pods : q # p => at'[q] = at[q]
    BY <1>4 DEF DeleteJob, GoTo, TypeInv, TypeOK
  <2>3. /\ job' = "none" /\ source' = -1 /\ UNCHANGED <<head, state, latest>>
    BY <1>4 DEF DeleteJob, NoJob
  <2>4. \A q \in Pods : at[q] \in {"patch", "save"} => AtLeast(latest[q])'
    BY <2>1, <2>3 DEF RecordInv, AtLeast
  <2> QED
    BY <2>2, <2>3, <2>4 DEF RecordInv, AtLeast
<1>5. CASE WaitForJobGone(p)
  BY <1>5, PlainTick DEF WaitForJobGone, kube
<1>6. CASE Create(p)
  <2>1. at'[p] \in {"watch", "wait"} /\ \A q \in Pods : q # p => at'[q] = at[q]
    BY <1>6 DEF Create, CreateJob, GoTo, TypeInv, TypeOK
  <2>2. /\ UNCHANGED <<head, state, latest, source, ghosts, tag>>
        /\ job' # job => source = -1 /\ job' = "active"
        /\ at'[p] = "watch" => source = -1
    BY <1>6 DEF Create, CreateJob, GoTo, TypeInv, TypeOK
  <2> QED
    BY <2>1, <2>2 DEF RecordInv, AtLeast
<1>7. CASE Watch(p)
  <2>1. CASE job = "complete"
    <3>1. AtLeast(latest[p])
      BY <1>7, <2>1 DEF Watch, RecordInv, AtLeast, TypeInv, TypeOK, CommitIds
    <3>2. at'[p] = "patch" /\ \A q \in Pods : q # p => at'[q] = at[q]
      BY <1>7, <2>1 DEF Watch, AfterOutcome, GoTo, TypeInv, TypeOK
    <3>3. UNCHANGED <<head, state, latest, job, source, ghosts, tag>>
      BY <1>7 DEF Watch, kube
    <3> QED
      BY <3>1, <3>2, <3>3 DEF RecordInv, AtLeast
  <2>2. CASE job # "complete"
    BY <1>7, <2>2, PlainTick DEF Watch, AfterOutcome, kube
  <2> QED
    BY <2>1, <2>2
<1>8. CASE RolloutRestart(p)
  <2>1. /\ at[p] = "patch" /\ at'[p] = "save"
        /\ \A q \in Pods : q # p => at'[q] = at[q]
    BY <1>8 DEF RolloutRestart, GoTo, TypeInv, TypeOK
  <2>2. UNCHANGED <<head, state, latest, job, source, ghosts, tag>>
    BY <1>8 DEF RolloutRestart, kube
  <2> QED
    BY <2>1, <2>2 DEF RecordInv, AtLeast
<1>9. CASE TimesOut(p) \/ TickFails(p)
  BY <1>9, PlainTick DEF TimesOut, TickFails, kube
<1> QED
  BY <1>1, <1>2, <1>3, <1>4, <1>5, <1>6, <1>7, <1>8, <1>9 DEF Tick

\* A push to main, and the builds.
LEMMA BuildRecord ==
    ASSUME ~SlowPods, TypeInv, RecordInv,
           Commit \/ Clone \/ Build \/ \E c \in CommitIds : GhostEnds(c)
    PROVE  RecordInv'
<1>1. CASE Commit
  BY <1>1 DEF Commit, RecordInv, AtLeast, kube, ticks
<1>2. CASE Clone
  <2>1. \A p \in Pods : head >= latest[p]
    BY DEF TypeInv, TypeOK, CommitIds
  <2> QED
    BY <1>2, <2>1 DEF Clone, RecordInv, AtLeast, ticks
<1>3. CASE Build
  BY <1>3 DEF Build, RecordInv, AtLeast, ticks
<1>4. CASE \E c \in CommitIds : GhostEnds(c)
  BY <1>4 DEF GhostEnds, RecordInv, AtLeast, ticks
<1> QED
  BY <1>1, <1>2, <1>3, <1>4

\* Every step keeps RecordInv.
LEMMA RecordNext ==
    ASSUME ~SlowPods, TypeInv, RecordInv, [Next]_vars
    PROVE  RecordInv'
<1>1. CASE UNCHANGED vars
  BY <1>1 DEF RecordInv, AtLeast, vars, kube, ticks
<1> QED
  BY <1>1, OtherSteps, TickRecord, BuildRecord DEF Next

\* The commit recorded as built is in the image, for any number of pods that
\* share the Job, as long as the pod of a deleted Job ends before the next
\* build does.
THEOREM RecordedCorrect ==
    ASSUME ~SlowPods
    PROVE  Spec => RecordedIsBuilt
<1>1. Init => RecordInv
  BY DEF Init, RecordInv, AtLeast
<1>2. TypeInv /\ [Next]_vars => TypeInv'
  BY TypeNext
<1>3. TypeInv /\ RecordInv /\ [Next]_vars => RecordInv'
  BY RecordNext
<1>4. TypeInv /\ RecordInv /\ [Next]_vars
         => [state' # state /\ state # -1 => tag >= state']_vars
  <2> SUFFICES ASSUME TypeInv, RecordInv, [Next]_vars, state' # state
               PROVE  tag >= state'
    OBVIOUS
  <2>1. PICK p \in Pods : WriteState(p)
    BY DEF Next, Commit, Clone, Build, GhostEnds, Tick, GithubLatestSHA, ReadState,
       DeleteJob, WaitForJobGone, Create, Watch, RolloutRestart, TimesOut,
       TickFails, Rollout, StartPod, BecomeReady, PullAgain, StopOld, Crash, vars
  <2>2. state' = latest[p] /\ at[p] \in {"bootstrap", "save"}
    BY <2>1 DEF WriteState, Recorded
  <2> QED
    BY <2>2 DEF RecordInv, AtLeast, TypeInv, TypeOK, CommitIds
<1> QED
  BY <1>1, <1>2, <1>3, <1>4, TypeInit, PTL DEF Spec, RecordedIsBuilt
=============================================================================
