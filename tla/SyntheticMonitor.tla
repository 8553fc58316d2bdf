--------------------------- MODULE SyntheticMonitor ---------------------------
(***************************************************************************)
(* The uptime shown on the dashboard: synthetic_monitor.go and             *)
(* uptime_tracker.go.                                                      *)
(*                                                                         *)
(* One goroutine per pod runs cycles.  A cycle has a deadline; it lists    *)
(* the live applications in the order of their slugs and probes them one   *)
(* after another, a few times each, and the result of the last probe is    *)
(* the application's sample of the cycle.  Applications, their builds and  *)
(* the statements are the environment.  Time passes in units of one probe  *)
(* that is slow or hangs until its own timeout; other probes and the gaps  *)
(* between probes are free as long as such a unit is left, and the         *)
(* deadline may pass in any of them once none is.                          *)
(***************************************************************************)
EXTENDS Integers, Sequences, FiniteSets, SequencesExt

CONSTANTS
    NumApps,        \* projects, in the order of their slugs
    MayHang,        \* applications that sometimes answer late, or not at all
    MayBreak,       \* applications that sometimes answer with an error
    MinHits,        \* synthMinHitsPerApp (2)
    MaxHits,        \* synthMaxHitsPerApp (4)
    Budget,         \* probes of 6 s that fit into a cycle of 28 s (4)
    Window,         \* rows of a project that liveAppTargets looks at (5)
    History,        \* uptimeHistoryLen (48)
    MaxReady,       \* bound: ready builds of a project
    MaxCrashes      \* bound: restarts of the pod

Apps == 1..NumApps

ASSUME MonitorAssumption ==
    /\ NumApps \in Nat /\ MayHang \cup MayBreak \subseteq Apps
    /\ {MinHits, MaxHits, Window, History} \subseteq Nat \ {0} /\ MinHits <= MaxHits
    /\ {Budget, MaxReady, MaxCrashes} \subseteq Nat

VARIABLES
    app,        \* what the application does with a request
    ready,      \* number of its latest ready build, 0: none
    newer,      \* rows after that build, all building or failed
    mon,        \* the monitor's goroutine
    uptime,     \* uptimeTracker.byProject: samples, oldest first
    crashes,    \* restarts so far
    disturbed   \* history: applications that failed or changed in this cycle

vars == <<app, ready, newer, mon, uptime, crashes, disturbed>>

\* "slow" answers just before the client's timeout, "hung" never, "broken"
\* with an error.
MayBe(p) == {"up"} \cup (IF p \in MayHang THEN {"slow", "hung"} ELSE {})
                   \cup (IF p \in MayBreak THEN {"broken"} ELSE {})

\* The goroutine between two cycles.
Idle == [pc |-> "idle", targets |-> <<>>, hits |-> 0, left |-> 0, expired |-> FALSE,
         answered |-> FALSE, ok |-> FALSE]

Init ==
    /\ app = [p \in Apps |-> "up"]
    /\ ready = [p \in Apps |-> 0]
    /\ newer = [p \in Apps |-> 0]
    /\ mon = Idle
    /\ uptime = [p \in Apps |-> <<>>]
    /\ crashes = 0
    /\ disturbed = {}

(***************************************************************************)
(* Applications and deployments                                            *)
(***************************************************************************)
Turn(p, answer) ==
    /\ answer # app[p]
    /\ app' = [app EXCEPT ![p] = answer]
    /\ disturbed' = disturbed \cup {p}
    /\ UNCHANGED <<ready, newer, mon, uptime, crashes>>

\* A build becomes ready; the objects of the one before are deleted.
BuildReady(p) ==
    /\ ready[p] < MaxReady
    /\ ready' = [ready EXCEPT ![p] = @ + 1]
    /\ newer' = [newer EXCEPT ![p] = 0]
    /\ disturbed' = disturbed \cup {p}
    /\ UNCHANGED <<app, mon, uptime, crashes>>

\* A push whose build is under way or fails: one more row before the ready one.
BuildQueued(p) ==
    /\ ready[p] > 0
    /\ newer[p] < Window
    /\ newer' = [newer EXCEPT ![p] = @ + 1]
    /\ UNCHANGED <<app, ready, mon, uptime, crashes, disturbed>>

(***************************************************************************)
(* The monitor                                                             *)
(***************************************************************************)
\* liveAppTargets: the newest ready row among the Window newest of a project.
Listed(p) == ready[p] > 0 /\ newer[p] < Window

Target_Oldest(p) == [app |-> p, build |-> 1]
Target(p) == [app |-> p, build |-> ready[p]]

LiveAppTargets == [i \in 1..Cardinality({p \in Apps : Listed(p)}) |->
                      Target(CHOOSE p \in Apps :
                                Listed(p) /\ Cardinality({q \in 1..p : Listed(q)}) = i)]

\* runSyntheticCycle starts with a fresh deadline.  (A cycle whose targets
\* cannot be listed ends at once and changes nothing.)
BeginCycle ==
    /\ mon.pc = "idle"
    /\ mon' = [Idle EXCEPT !.pc = "next", !.targets = LiveAppTargets, !.left = Budget]
    /\ disturbed' = {p \in Apps : app[p] # "up"}
    /\ UNCHANGED <<app, ready, newer, uptime, crashes>>

\* hitApp: the next application, and how often it is probed.
HitApp ==
    /\ mon.pc = "next"
    /\ mon.targets # <<>>
    /\ \E n \in MinHits..MaxHits :
          mon' = [mon EXCEPT !.pc = "probe", !.hits = n, !.answered = FALSE, !.ok = FALSE]
    /\ UNCHANGED <<app, ready, newer, uptime, crashes, disturbed>>

EndCycle ==
    /\ mon.pc = "next"
    /\ mon.targets = <<>>
    /\ mon' = Idle
    /\ UNCHANGED <<app, ready, newer, uptime, crashes, disturbed>>

Current == Head(mon.targets)

\* The URL of a build that has been replaced leads nowhere.
Reply(t) == IF t.build = ready[t.app] THEN app[t.app] ELSE "broken"

\* client.Do fails at once when the cycle's deadline has passed, and as soon as
\* it passes: such an answer is late.  Any answer ends the probe, an error of
\* the application too.
Probed(m, reply, late) ==
    LET slow     == ~m.expired /\ reply \in {"slow", "hung"}
        answered == ~m.expired /\ ~late /\ reply # "hung"
    IN  [m EXCEPT !.hits     = @ - 1,
                  !.left     = IF slow /\ @ > 0 THEN @ - 1 ELSE @,
                  !.expired  = @ \/ late \/ (slow /\ m.left = 0),
                  !.answered = answered,
                  !.ok       = answered /\ reply # "broken"]

Probe ==
    /\ mon.pc = "probe"
    /\ mon.hits > 0
    /\ \E late \in BOOLEAN :
          /\ late => mon.left = 0
          /\ mon' = Probed(mon, Reply(Current), late)
    /\ UNCHANGED <<app, ready, newer, uptime, crashes, disturbed>>

\* The deadline passes while hitApp waits between an answer, of whatever status,
\* and the next probe: it returns without a sample.  A probe that failed is
\* followed by the next one without a wait.
CutInGap_AfterFailures ==
    /\ mon.pc = "probe"
    /\ mon.hits > 0
    /\ mon.expired \/ mon.left = 0
    /\ mon' = [mon EXCEPT !.pc = "next", !.targets = Tail(@), !.expired = TRUE]
    /\ UNCHANGED <<app, ready, newer, uptime, crashes, disturbed>>
CutInGap ==
    /\ mon.pc = "probe"
    /\ mon.hits > 0
    /\ mon.answered
    /\ mon.expired \/ mon.left = 0
    /\ mon' = [mon EXCEPT !.pc = "next", !.targets = Tail(@), !.expired = TRUE]
    /\ UNCHANGED <<app, ready, newer, uptime, crashes, disturbed>>

\* uptimeTracker.record keeps the newest samples.
Recorded_OffByOne(samples, ok) ==
    LET all == Append(samples, ok)
    IN  IF Len(all) > History THEN SubSeq(all, Len(all) - History, Len(all)) ELSE all
Recorded(samples, ok) ==
    LET all == Append(samples, ok)
    IN  IF Len(all) > History THEN SubSeq(all, Len(all) - History + 1, Len(all)) ELSE all

Record ==
    /\ mon.pc = "probe"
    /\ mon.hits = 0
    /\ uptime' = [uptime EXCEPT ![Current.app] = Recorded(@, mon.ok)]
    /\ mon' = [mon EXCEPT !.pc = "next", !.targets = Tail(@)]
    /\ UNCHANGED <<app, ready, newer, crashes, disturbed>>

\* A restart of the pod loses all samples.
Crash ==
    /\ crashes < MaxCrashes
    /\ crashes' = crashes + 1
    /\ mon' = Idle
    /\ uptime' = [p \in Apps |-> <<>>]
    /\ UNCHANGED <<app, ready, newer, disturbed>>

Monitor == BeginCycle \/ HitApp \/ EndCycle \/ Probe \/ CutInGap \/ Record

Next ==
    \/ Monitor
    \/ Crash
    \/ \E p \in Apps :
          \/ \E answer \in MayBe(p) : Turn(p, answer)
          \/ BuildReady(p)
          \/ BuildQueued(p)

Spec == Init /\ [][Next]_vars

\* The ticker starts cycle after cycle, and every call ends by its timeout.
Fairness == WF_vars(Monitor)

FairSpec == Spec /\ Fairness

-----------------------------------------------------------------------------
(***************************************************************************)
(* Properties                                                              *)
(***************************************************************************)
TypeOK ==
    /\ \A p \in Apps : /\ app[p] \in MayBe(p)
                       /\ Len(uptime[p]) <= History
                       /\ \A i \in DOMAIN uptime[p] : uptime[p][i] \in BOOLEAN
    /\ ready \in [Apps -> 0..MaxReady]
    /\ newer \in [Apps -> 0..Window]
    /\ mon.pc \in {"idle", "next", "probe"}
    /\ mon.hits \in 0..MaxHits
    /\ mon.left \in 0..Budget
    /\ {mon.expired, mon.answered, mon.ok} \subseteq BOOLEAN
    \* one sample per application and cycle, in the order of the slugs
    /\ \A i, j \in DOMAIN mon.targets : i < j => mon.targets[i].app < mon.targets[j].app
    /\ \A i \in DOMAIN mon.targets : mon.targets[i].build \in 1..ready[mon.targets[i].app]
    /\ crashes \in 0..MaxCrashes
    /\ disturbed \subseteq Apps

\* What summarizeUptime shows as the state of a project: without a sample it
\* counts as up.
LastOK(p) == uptime[p] = <<>> \/ Last(uptime[p])

\* A sample that says "down" has a cause in its own cycle: the application did
\* fail, or was deployed anew while the monitor still probed the old URL, or
\* the cycle's time was used up by applications before it.
DownHasCause ==
    [][\A p \in Apps :
          uptime'[p] # uptime[p] /\ uptime'[p] # <<>> /\ ~Last(uptime'[p]) =>
              p \in disturbed \/ mon.expired]_vars

\* An application that stays without an answer is shown as down in the end,
\* however many cycles run out of time before or while they probe it.
OutageIsShown ==
    \A p \in Apps : <>[](app[p] = "hung" /\ Listed(p)) => <>[]~LastOK(p)

\* What fails, and is not checked: the same of an application that answers with
\* errors, which every cycle may leave in a gap without a sample.
ErrorsAreShown ==
    \A p \in Apps : <>[](app[p] = "broken" /\ Listed(p)) => <>[]~LastOK(p)

\* Nor does "Independent per-app failures don't stop the cycle": of three
\* applications the first two may hang, five of their probes use up the cycle,
\* and the third, up all the time, is recorded as down.
RecoveryIsShown ==
    \A p \in Apps : <>[](app[p] = "up" /\ Listed(p)) => <>[]LastOK(p)
=============================================================================
