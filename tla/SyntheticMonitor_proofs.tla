------------------------ MODULE SyntheticMonitor_proofs ------------------------
(***************************************************************************)
(* Proofs about SyntheticMonitor, for any number of applications, probes   *)
(* and samples.                                                            *)
(***************************************************************************)
EXTENDS SyntheticMonitor, FiniteSetTheorems, SequenceTheorems, TLAPS

-----------------------------------------------------------------------------
(***************************************************************************)
(* The listed applications                                                 *)
(***************************************************************************)
\* A set of natural numbers has a least element: what induction is made of.
LEMMA Least ==
    ASSUME NEW T \in SUBSET Nat, T # {}
    PROVE  \E m \in T : \A n \in T : m <= n
<1> DEFINE R == OpToRel(<, Nat)
<1>1. IsWellFoundedOn(R, Nat)
  BY NatLessThanWellFounded
<1>2. \E m \in T : \A n \in T : <<n, m>> \notin R
  <2> HIDE DEF R
  <2> QED
    BY <1>1, WFMin
<1>3. PICK m \in T : \A n \in T : <<n, m>> \notin R
  BY <1>2
<1>4. \A n \in T : ~(n < m)
  BY <1>3 DEF OpToRel
<1> QED
  BY <1>4

\* The listed applications up to p, and how many they are.
Upto(p) == {q \in 1..p : Listed(q)}
Rank(p) == Cardinality(Upto(p))

\* Ranks count the listed applications.
LEMMA RankType ==
    ASSUME NEW p \in Nat
    PROVE  /\ IsFiniteSet(Upto(p))
           /\ Rank(p) \in 0..p
<1>1. IsFiniteSet(1..p) /\ Cardinality(1..p) = p
  BY FS_Interval, SMT
<1>2. Upto(p) \in SUBSET (1..p)
  BY DEF Upto
<1>3. IsFiniteSet(Upto(p)) /\ Cardinality(Upto(p)) <= p
  BY <1>1, <1>2, FS_Subset
<1>4. Cardinality(Upto(p)) \in Nat
  BY <1>3, FS_CardinalityType
<1> QED
  BY <1>3, <1>4 DEF Rank

\* They never decrease.
LEMMA RankMonotonic ==
    ASSUME NEW p \in Nat, NEW q \in Nat, p <= q
    PROVE  Rank(p) <= Rank(q)
<1>1. Upto(p) \in SUBSET Upto(q)
  BY DEF Upto
<1> QED
  BY <1>1, RankType, FS_Subset DEF Rank

\* And grow by one at every listed application, and nowhere else.
LEMMA RankGrows ==
    ASSUME NEW p \in Nat \ {0}
    PROVE  Rank(p) = IF Listed(p) THEN Rank(p - 1) + 1 ELSE Rank(p - 1)
<1>1. p - 1 \in Nat
  OBVIOUS
<1>2. IsFiniteSet(Upto(p - 1))
  BY <1>1, RankType
<1>3. CASE Listed(p)
  <2>1. Upto(p) = Upto(p - 1) \cup {p}
    BY <1>3 DEF Upto
  <2>2. p \notin Upto(p - 1)
    BY DEF Upto
  <2> QED
    BY <1>2, <1>3, <2>1, <2>2, FS_AddElement DEF Rank
<1>4. CASE ~Listed(p)
  <2>1. Upto(p) = Upto(p - 1)
    BY <1>4 DEF Upto
  <2> QED
    BY <1>4, <2>1 DEF Rank
<1> QED
  BY <1>3, <1>4

\* Every rank is that of a listed application: the least one that reaches it.
LEMMA RankReached ==
    ASSUME NEW i \in 1..Rank(NumApps)
    PROVE  \E p \in Apps : Listed(p) /\ Rank(p) = i
<1> DEFINE T == {p \in Nat : i <= Rank(p)}
<1>1. NumApps \in Nat /\ Rank(NumApps) \in Nat /\ i \in Nat \ {0}
  BY MonitorAssumption, RankType
<1>2. NumApps \in T
  BY <1>1
<1>3. PICK p \in T : \A q \in T : p <= q
  BY <1>2, Least
<1>4. p <= NumApps /\ p \in Nat /\ i <= Rank(p)
  BY <1>2, <1>3
<1>5. p # 0
  BY <1>1, <1>4, RankType
<1>6. p - 1 \in Nat /\ ~(i <= Rank(p - 1))
  BY <1>3, <1>4, <1>5
<1>7. Rank(p - 1) \in Nat
  BY <1>6, RankType
<1>8. Listed(p) /\ Rank(p) = i
  BY <1>1, <1>4, <1>5, <1>6, <1>7, RankGrows
<1> QED
  BY <1>1, <1>4, <1>5, <1>8 DEF Apps

\* Functions on an initial interval are sequences.
LEMMA IsSequence ==
    ASSUME NEW S, NEW n \in Nat, NEW f \in [1..n -> S]
    PROVE  f \in Seq(S)
<1>1. \E m \in Nat : f \in [1..m -> S]
  OBVIOUS
<1>2. f \in UNION {[1..m -> S] : m \in Nat}
  BY <1>1, Zenon
<1> QED
  BY <1>2, SeqDef, Zenon

\* What liveAppTargets returns: every live application once, in the order of
\* the slugs, with its newest ready build.
LEMMA TargetsInOrder ==
    ASSUME ready \in [Apps -> 0..MaxReady]
    PROVE  /\ LiveAppTargets \in Seq([app : Apps, build : Nat])
           /\ \A i, j \in DOMAIN LiveAppTargets :
                 i < j => LiveAppTargets[i].app < LiveAppTargets[j].app
           /\ \A i \in DOMAIN LiveAppTargets :
                 /\ LiveAppTargets[i].build \in 1..ready[LiveAppTargets[i].app]
                 /\ LiveAppTargets[i].build = ready[LiveAppTargets[i].app]
<1> DEFINE n == Cardinality({p \in Apps : Listed(p)})
           at(i) == CHOOSE p \in Apps : Listed(p) /\ Cardinality({q \in 1..p : Listed(q)}) = i
           t == [i \in 1..n |-> Target(at(i))]
<1>1. n = Rank(NumApps) /\ n \in Nat
  BY RankType, MonitorAssumption DEF Rank, Upto, Apps
<1>2. ASSUME NEW i \in 1..n
      PROVE  at(i) \in Apps /\ Listed(at(i)) /\ Rank(at(i)) = i
  <2>1. \E p \in Apps : Listed(p) /\ Cardinality({q \in 1..p : Listed(q)}) = i
    BY <1>1, <1>2, RankReached DEF Rank, Upto
  <2> QED
    BY <2>1 DEF Rank, Upto
<1>3. LiveAppTargets = t
  BY DEF LiveAppTargets
<1> HIDE DEF n, at
<1>4. ASSUME NEW i \in 1..n
      PROVE  /\ t[i] \in [app : Apps, build : Nat]
             /\ t[i].app = at(i)
             /\ t[i].build = ready[at(i)] /\ ready[at(i)] > 0 /\ ready[at(i)] \in Nat
  BY <1>2, <1>4, MonitorAssumption DEF Target, Listed
<1>5. t \in Seq([app : Apps, build : Nat]) /\ DOMAIN t = 1..n
  <2>1. t \in [1..n -> [app : Apps, build : Nat]]
    BY <1>4
  <2> HIDE DEF t
  <2>2. t \in Seq([app : Apps, build : Nat])
    BY <1>1, <2>1, IsSequence
  <2> QED
    BY <2>1, <2>2
<1>6. ASSUME NEW i \in 1..n, NEW j \in 1..n, i < j
      PROVE  at(i) < at(j)
  <2>1. at(i) \in Nat /\ at(j) \in Nat
    <3>1. at(i) \in Apps /\ at(j) \in Apps
      BY <1>2, <1>6
    <3>2. NumApps \in Nat
      BY MonitorAssumption
    <3> QED
      BY <3>1, <3>2 DEF Apps
  <2>2. CASE at(j) <= at(i)
    BY <1>1, <1>2, <1>6, <2>1, <2>2, RankMonotonic
  <2> QED
    BY <2>1, <2>2
<1> HIDE DEF t
<1> QED
  BY <1>3, <1>4, <1>5, <1>6

-----------------------------------------------------------------------------
(***************************************************************************)
(* Types                                                                   *)
(***************************************************************************)
Replies == {"up", "slow", "hung", "broken"}
Targets == [app : Apps, build : Nat]
Monitors == [pc : {"idle", "next", "probe"}, targets : Seq(Targets), hits : Nat, left : Nat,
             expired : BOOLEAN, answered : BOOLEAN, ok : BOOLEAN]

\* The types in full; while an application is probed there is one to probe.
TypeInv ==
    /\ TypeOK
    /\ app \in [Apps -> Replies]
    /\ uptime \in [Apps -> Seq(BOOLEAN)]
    /\ mon \in Monitors
    /\ mon.pc = "probe" => mon.targets # <<>>

\* uptimeTracker.record: the samples stay within their cap and end in the new one.
LEMMA RecordedLast ==
    ASSUME NEW samples \in Seq(BOOLEAN), Len(samples) <= History, NEW ok \in BOOLEAN
    PROVE  /\ Recorded(samples, ok) \in Seq(BOOLEAN)
           /\ Len(Recorded(samples, ok)) \in 1..History
           /\ Last(Recorded(samples, ok)) = ok
<1> DEFINE all == Append(samples, ok)
           len == Len(all)
<1>1. /\ all \in Seq(BOOLEAN) /\ len = Len(samples) + 1 /\ len \in Nat
      /\ all[len] = ok
  BY AppendProperties, LenProperties
<1>2. History \in Nat \ {0}
  BY MonitorAssumption
<1>3. \A i \in 1..len : all[i] \in BOOLEAN
  BY <1>1, ElementOfSeq
<1>4. Recorded(samples, ok) = IF len > History THEN SubSeq(all, len - History + 1, len) ELSE all
  BY DEF Recorded
<1> HIDE DEF all, len
<1>5. CASE len > History
  <2> DEFINE from == len - History + 1
  <2>1. from \in Int /\ len \in Int /\ from \in 1..len /\ len - from + 1 = History
    BY <1>1, <1>2, <1>5
  <2>2. /\ SubSeq(all, from, len) \in Seq(BOOLEAN)
        /\ Len(SubSeq(all, from, len)) = History
        /\ \A i \in 1..History : SubSeq(all, from, len)[i] = all[from + i - 1]
    <3> HIDE DEF from
    <3>1. \A i \in from..len : all[i] \in BOOLEAN
      BY <1>1, <1>3, <2>1
    <3> QED
      BY <1>2, <2>1, <3>1, SubSeqProperties
  <2>3. SubSeq(all, from, len)[History] = all[len]
    BY <1>1, <1>2, <2>1, <2>2
  <2>4. Recorded(samples, ok) = SubSeq(all, from, len)
    BY <1>4, <1>5
  <2> HIDE DEF from
  <2>5. Last(SubSeq(all, from, len)) = ok
    BY <1>1, <2>2, <2>3 DEF Last
  <2> QED
    BY <1>2, <2>2, <2>4, <2>5
<1>6. CASE ~(len > History)
  <2>1. Len(all) = len
    BY DEF len
  <2> QED
    BY <1>1, <1>2, <1>4, <1>6, <2>1, LenProperties DEF Last
<1> QED
  BY <1>5, <1>6

\* The targets behind the first one stay in order.
LEMMA Behind ==
    ASSUME NEW t \in Seq(Targets), t # <<>>
    PROVE  /\ Head(t) \in Targets /\ 1 \in DOMAIN t /\ Head(t) = t[1]
           /\ Tail(t) \in Seq(Targets)
           /\ \A i \in DOMAIN Tail(t) : i \in Nat /\ i + 1 \in DOMAIN t /\ Tail(t)[i] = t[i + 1]
<1>1. /\ Head(t) \in Targets /\ Tail(t) \in Seq(Targets) /\ Len(Tail(t)) = Len(t) - 1
      /\ \A i \in 1..Len(Tail(t)) : Tail(t)[i] = t[i + 1]
  BY HeadTailProperties
<1>2. Len(t) \in Nat \ {0} /\ DOMAIN t = 1..Len(t) /\ DOMAIN Tail(t) = 1..Len(Tail(t))
  BY <1>1, EmptySeq, LenProperties
<1>3. Head(t) = t[1]
  OBVIOUS
<1> QED
  BY <1>1, <1>2, <1>3

\* What TypeInv says of the targets that are left, and of the builds r they
\* were listed from.
InOrder(t, r) ==
    /\ \A i, j \in DOMAIN t : i < j => t[i].app < t[j].app
    /\ \A i \in DOMAIN t : t[i].build \in 1..r[t[i].app]

\* Taking the first target away keeps the order.
LEMMA InOrderTail ==
    ASSUME NEW t \in Seq(Targets), t # <<>>, NEW r, InOrder(t, r)
    PROVE  InOrder(Tail(t), r)
BY Behind DEF InOrder

\* A newer build keeps the builds that were listed possible.
LEMMA InOrderReady ==
    ASSUME NEW t \in Seq(Targets), NEW r \in [Apps -> Nat], NEW r2 \in [Apps -> Nat],
           \A p \in Apps : r[p] <= r2[p], InOrder(t, r)
    PROVE  InOrder(t, r2)
<1>1. \A i \in DOMAIN t : t[i] \in Targets
  BY LenProperties, ElementOfSeq
<1>2. \A i \in DOMAIN t : t[i].app \in Apps /\ t[i].build \in Nat
  BY <1>1 DEF Targets
<1> QED
  BY <1>2 DEF InOrder

\* One step of the monitor leaves a monitor, and one sample more.
LEMMA MonitorTyped ==
    ASSUME TypeInv, Monitor
    PROVE  /\ mon' \in Monitors /\ mon'.hits \in 0..MaxHits /\ mon'.left \in 0..Budget
           /\ InOrder(mon'.targets, ready)
           /\ mon'.pc = "probe" => mon'.targets # <<>>
           /\ uptime' \in [Apps -> Seq(BOOLEAN)]
           /\ \A p \in Apps : Len(uptime'[p]) <= History
           /\ disturbed' \subseteq Apps
           /\ UNCHANGED <<app, ready, newer, crashes>>
<1>1. /\ mon \in Monitors /\ mon.hits \in 0..MaxHits /\ mon.left \in 0..Budget
      /\ InOrder(mon.targets, ready)
      /\ mon.pc = "probe" => mon.targets # <<>>
      /\ uptime \in [Apps -> Seq(BOOLEAN)]
      /\ \A p \in Apps : Len(uptime[p]) <= History
      /\ disturbed \subseteq Apps
      /\ ready \in [Apps -> 0..MaxReady]
      /\ app \in [Apps -> Replies]
  BY DEF TypeInv, TypeOK, InOrder
<1>2. MinHits \in Nat /\ MaxHits \in Nat /\ MinHits <= MaxHits /\ Budget \in Nat /\ MinHits # 0
  BY MonitorAssumption
<1>3. Idle \in Monitors /\ Idle.hits = 0 /\ Idle.left = 0 /\ Idle.targets = <<>>
      /\ Idle.pc = "idle" /\ InOrder(Idle.targets, ready)
  <2>1. <<>> \in Seq(Targets)
    BY EmptySeq
  <2> QED
    BY <2>1 DEF Idle, Monitors, InOrder
<1>4. CASE BeginCycle
  <2>1. LiveAppTargets \in Seq(Targets) /\ InOrder(LiveAppTargets, ready)
    BY <1>1, TargetsInOrder DEF InOrder, Targets
  <2> DEFINE t == LiveAppTargets
  <2> HIDE DEF t
  <2>2. mon' = [Idle EXCEPT !.pc = "next", !.targets = t, !.left = Budget]
    BY <1>4 DEF BeginCycle, t
  <2>3. /\ mon' \in Monitors /\ mon'.hits = 0 /\ mon'.left = Budget
        /\ mon'.targets = t /\ mon'.pc = "next"
    BY <1>2, <2>1, <2>2 DEF Idle, Monitors, t
  <2>4. mon'.hits \in 0..MaxHits /\ mon'.left \in 0..Budget
    BY <1>2, <2>3
  <2> QED
    BY <1>1, <1>4, <2>1, <2>3, <2>4 DEF BeginCycle, t
<1>5. CASE HitApp
  <2>1. PICK n \in MinHits..MaxHits :
           mon' = [mon EXCEPT !.pc = "probe", !.hits = n, !.answered = FALSE, !.ok = FALSE]
    BY <1>5 DEF HitApp
  <2>2. n \in 0..MaxHits /\ n \in Nat
    BY <1>2
  <2>3. /\ mon' \in Monitors /\ mon'.hits = n /\ mon'.left = mon.left
        /\ mon'.targets = mon.targets
    BY <1>1, <2>1, <2>2 DEF Monitors
  <2> QED
    BY <1>1, <1>5, <2>2, <2>3 DEF HitApp
<1>6. CASE EndCycle
  BY <1>1, <1>2, <1>3, <1>6 DEF EndCycle
<1>7. CASE Probe
  <2>1. PICK late \in BOOLEAN : mon' = Probed(mon, Reply(Current), late)
    BY <1>7 DEF Probe
  <2>2. mon.hits - 1 \in 0..MaxHits /\ mon.hits - 1 \in Nat
    BY <1>1, <1>2, <1>7 DEF Probe
  <2> DEFINE r == Reply(Current)
             slow == ~mon.expired /\ r \in {"slow", "hung"}
             left == IF slow /\ mon.left > 0 THEN mon.left - 1 ELSE mon.left
             expired == mon.expired \/ late \/ (slow /\ mon.left = 0)
             answered == ~mon.expired /\ ~late /\ r # "hung"
             ok == answered /\ r # "broken"
  <2>3. left \in 0..Budget /\ left \in Nat
    BY <1>1, <1>2
  <2>4. mon.expired \in BOOLEAN /\ expired \in BOOLEAN /\ answered \in BOOLEAN /\ ok \in BOOLEAN
    BY <1>1 DEF Monitors
  <2>5. mon' = [mon EXCEPT !.hits = mon.hits - 1, !.left = left, !.expired = expired,
                           !.answered = answered, !.ok = ok]
    BY <1>1, <2>1 DEF Probed, Monitors
  <2> HIDE DEF left, expired, answered, ok
  <2>6. /\ mon' \in Monitors /\ mon'.hits = mon.hits - 1 /\ mon'.left = left
        /\ mon'.targets = mon.targets /\ mon'.pc = mon.pc
    BY <1>1, <2>2, <2>3, <2>4, <2>5 DEF Monitors
  <2> QED
    BY <1>1, <1>7, <2>2, <2>3, <2>6 DEF Probe
<1>8. ASSUME mon.targets # <<>>, mon' = [mon EXCEPT !.pc = "next", !.targets = Tail(@)]
      PROVE  /\ mon' \in Monitors /\ mon'.hits = mon.hits /\ mon'.left = mon.left
             /\ mon'.pc = "next" /\ InOrder(mon'.targets, ready)
  <2>1. mon.targets \in Seq(Targets)
    BY <1>1 DEF Monitors
  <2>2. Tail(mon.targets) \in Seq(Targets) /\ InOrder(Tail(mon.targets), ready)
    BY <1>1, <1>8, <2>1, Behind, InOrderTail
  <2> DEFINE t == Tail(mon.targets)
  <2>3. mon' = [mon EXCEPT !.pc = "next", !.targets = t]
    BY <1>8
  <2> HIDE DEF t
  <2>4. t \in Seq(Targets) /\ InOrder(t, ready)
    BY <2>2 DEF t
  <2>5. mon' \in Monitors /\ mon'.hits = mon.hits /\ mon'.left = mon.left
        /\ mon'.pc = "next" /\ mon'.targets = t
    BY <1>1, <2>3, <2>4 DEF Monitors
  <2> QED
    BY <2>4, <2>5
<1>9. CASE CutInGap
  <2>1. mon.targets \in Seq(Targets) /\ mon.targets # <<>>
    BY <1>1, <1>9 DEF CutInGap, Monitors
  <2>2. Tail(mon.targets) \in Seq(Targets) /\ InOrder(Tail(mon.targets), ready)
    BY <1>1, <2>1, Behind, InOrderTail
  <2> DEFINE t == Tail(mon.targets)
  <2>3. mon' = [mon EXCEPT !.pc = "next", !.targets = t, !.expired = TRUE]
    BY <1>9 DEF CutInGap
  <2>4. t \in Seq(Targets) /\ InOrder(t, ready)
    BY <2>2
  <2> HIDE DEF t
  <2>5. mon' \in Monitors /\ mon'.hits = mon.hits /\ mon'.left = mon.left
        /\ mon'.pc = "next" /\ mon'.targets = t
    BY <1>1, <2>3, <2>4 DEF Monitors
  <2> QED
    BY <1>1, <1>9, <2>4, <2>5 DEF CutInGap
<1>10. CASE Record
  <2>1. Current \in Targets
    BY <1>1, <1>10, Behind DEF Record, Current, Monitors
  <2> DEFINE p == Current.app
  <2>2. p \in Apps /\ mon.ok \in BOOLEAN
    BY <1>1, <2>1 DEF Targets, Monitors
  <2>3. /\ Recorded(uptime[p], mon.ok) \in Seq(BOOLEAN)
        /\ Len(Recorded(uptime[p], mon.ok)) <= History
    <3> HIDE DEF p
    <3>1. uptime[p] \in Seq(BOOLEAN) /\ Len(uptime[p]) <= History
      BY <1>1, <2>2
    <3>2. Len(Recorded(uptime[p], mon.ok)) \in 1..History
      BY <2>2, <3>1, RecordedLast
    <3> QED
      BY <2>2, <3>1, <3>2, RecordedLast, MonitorAssumption
  <2>4. uptime' = [uptime EXCEPT ![p] = Recorded(uptime[p], mon.ok)]
    BY <1>1, <1>10, <2>2 DEF Record
  <2>5. uptime' \in [Apps -> Seq(BOOLEAN)] /\ \A q \in Apps : Len(uptime'[q]) <= History
    <3> HIDE DEF p
    <3> QED
      BY <1>1, <2>2, <2>3, <2>4
  <2> QED
    BY <1>1, <1>8, <1>10, <2>5 DEF Record
<1> QED
  BY <1>4, <1>5, <1>6, <1>7, <1>9, <1>10 DEF Monitor

\* The environment's steps leave the monitor and its samples alone; builds
\* only become newer.
LEMMA EnvironmentTyped ==
    ASSUME TypeInv,
           \/ \E p \in Apps : (\E answer \in MayBe(p) : Turn(p, answer)) \/ BuildReady(p) \/ BuildQueued(p)
           \/ UNCHANGED vars
    PROVE  TypeInv'
<1>1. /\ app \in [Apps -> Replies] /\ \A p \in Apps : app[p] \in MayBe(p)
      /\ ready \in [Apps -> 0..MaxReady] /\ newer \in [Apps -> 0..Window]
      /\ disturbed \subseteq Apps /\ mon.targets \in Seq(Targets) /\ InOrder(mon.targets, ready)
      /\ MaxReady \in Nat /\ Window \in Nat
  BY MonitorAssumption DEF TypeInv, TypeOK, InOrder, Monitors
<1>2. ASSUME app' \in [Apps -> Replies], \A p \in Apps : app'[p] \in MayBe(p),
             ready' \in [Apps -> 0..MaxReady], \A p \in Apps : ready[p] <= ready'[p],
             newer' \in [Apps -> 0..Window], disturbed' \subseteq Apps,
             UNCHANGED <<mon, uptime, crashes>>
      PROVE  TypeInv'
  <2>1. ready \in [Apps -> Nat] /\ ready' \in [Apps -> Nat]
    BY <1>1, <1>2
  <2>2. InOrder(mon.targets, ready')
    BY <1>1, <1>2, <2>1, InOrderReady
  <2> QED
    BY <1>2, <2>2 DEF TypeInv, TypeOK, InOrder
<1>3. ASSUME NEW p \in Apps, NEW answer \in MayBe(p), Turn(p, answer)
      PROVE  TypeInv'
  <2>1. answer \in Replies
    BY DEF MayBe, Replies
  <2>2. app' \in [Apps -> Replies] /\ \A q \in Apps : app'[q] \in MayBe(q)
    BY <1>1, <1>3, <2>1 DEF Turn
  <2> QED
    BY <1>1, <1>2, <1>3, <2>2 DEF Turn
<1>4. ASSUME NEW p \in Apps, BuildReady(p)
      PROVE  TypeInv'
  <2>1. ready' \in [Apps -> 0..MaxReady] /\ newer' \in [Apps -> 0..Window]
        /\ \A q \in Apps : ready[q] <= ready'[q]
    BY <1>1, <1>4 DEF BuildReady
  <2> QED
    BY <1>1, <1>2, <1>4, <2>1 DEF BuildReady
<1>5. ASSUME NEW p \in Apps, BuildQueued(p)
      PROVE  TypeInv'
  <2>1. newer' \in [Apps -> 0..Window] /\ \A q \in Apps : ready[q] <= ready[q]
    BY <1>1, <1>5 DEF BuildQueued
  <2> QED
    BY <1>1, <1>2, <1>5, <2>1 DEF BuildQueued
<1>6. ASSUME UNCHANGED vars
      PROVE  TypeInv'
  BY <1>6 DEF vars, TypeInv, TypeOK, MayBe
<1> QED
  BY <1>3, <1>4, <1>5, <1>6

\* Every step keeps the types.
LEMMA TypeNext == TypeInv /\ [Next]_vars => TypeInv'
<1> SUFFICES ASSUME TypeInv, [Next]_vars
             PROVE  TypeInv'
  OBVIOUS
<1>1. CASE Monitor
  <2>1. /\ mon' \in Monitors /\ mon'.hits \in 0..MaxHits /\ mon'.left \in 0..Budget
        /\ InOrder(mon'.targets, ready')
        /\ mon'.pc = "probe" => mon'.targets # <<>>
        /\ uptime' \in [Apps -> Seq(BOOLEAN)]
        /\ \A p \in Apps : Len(uptime'[p]) <= History
        /\ disturbed' \subseteq Apps
        /\ UNCHANGED <<app, ready, newer, crashes>>
    BY <1>1, MonitorTyped
  <2>2. \A p \in Apps : \A i \in DOMAIN uptime'[p] : uptime'[p][i] \in BOOLEAN
    BY <2>1, LenProperties, ElementOfSeq
  <2>3. mon'.pc \in {"idle", "next", "probe"} /\ {mon'.expired, mon'.answered, mon'.ok} \subseteq BOOLEAN
    BY <2>1 DEF Monitors
  <2> QED
    BY <2>1, <2>2, <2>3 DEF TypeInv, TypeOK, InOrder, MayBe
<1>2. CASE Crash
  <2>1. <<>> \in Seq(Targets) /\ <<>> \in Seq(BOOLEAN) /\ Len(<<>>) = 0 /\ DOMAIN <<>> = {}
    BY EmptySeq
  <2>2. mon' \in Monitors /\ mon'.pc = "idle" /\ mon'.hits = 0 /\ mon'.left = 0
        /\ mon'.targets = <<>> /\ {mon'.expired, mon'.answered, mon'.ok} \subseteq BOOLEAN
    BY <1>2, <2>1 DEF Crash, Idle, Monitors
  <2>3. uptime' \in [Apps -> Seq(BOOLEAN)] /\ \A p \in Apps : uptime'[p] = <<>>
    BY <1>2, <2>1 DEF Crash
  <2>4. crashes' \in 0..MaxCrashes
    BY <1>2, MonitorAssumption DEF Crash, TypeInv, TypeOK
  <2>5. {MaxHits, Budget, History} \subseteq Nat
    BY MonitorAssumption
  <2>6. UNCHANGED <<app, ready, newer, disturbed>>
    BY <1>2 DEF Crash
  <2> QED
    BY <2>1, <2>2, <2>3, <2>4, <2>5, <2>6 DEF TypeInv, TypeOK, MayBe
<1> QED
  BY <1>1, <1>2, EnvironmentTyped DEF Next

\* A pod starts without targets and samples.
LEMMA TypeInit == Init => TypeInv
<1> SUFFICES ASSUME Init
             PROVE  TypeInv
  OBVIOUS
<1>1. <<>> \in Seq(Targets) /\ <<>> \in Seq(BOOLEAN) /\ Len(<<>>) = 0 /\ DOMAIN <<>> = {}
  BY EmptySeq
<1>2. mon \in Monitors /\ mon.pc = "idle" /\ mon.hits = 0 /\ mon.left = 0
      /\ mon.targets = <<>> /\ {mon.expired, mon.answered, mon.ok} \subseteq BOOLEAN
  BY <1>1 DEF Init, Idle, Monitors
<1>3. uptime \in [Apps -> Seq(BOOLEAN)] /\ \A p \in Apps : uptime[p] = <<>>
  BY <1>1 DEF Init
<1>4. {MaxHits, Budget, History, MaxReady, Window, MaxCrashes} \subseteq Nat
  BY MonitorAssumption
<1>5. app \in [Apps -> Replies] /\ \A p \in Apps : app[p] \in MayBe(p)
  BY DEF Init, MayBe, Replies
<1>6. /\ ready \in [Apps -> 0..MaxReady] /\ newer \in [Apps -> 0..Window]
      /\ crashes \in 0..MaxCrashes /\ disturbed \subseteq Apps
  BY <1>4 DEF Init
<1> QED
  BY <1>1, <1>2, <1>3, <1>4, <1>5, <1>6 DEF TypeInv, TypeOK

\* The samples of an application never outgrow their ring, and a cycle probes
\* every live application once, in the order of the slugs.
THEOREM TypeCorrect == Spec => []TypeOK
<1>1. TypeInv => TypeOK
  BY DEF TypeInv
<1> QED
  BY TypeInit, TypeNext, <1>1, PTL DEF Spec

-----------------------------------------------------------------------------
(***************************************************************************)
(* Down has a cause                                                        *)
(***************************************************************************)
\* Whatever does not answer, or no longer has the build that was listed, is
\* among the disturbed; and the last probe of an application fails only if it
\* is, or if the cycle's time is up.
Excused(m, d) == m.ok \/ m.expired \/ Head(m.targets).app \in d

CauseInv ==
    /\ \A p \in Apps : app[p] = "up" \/ p \in disturbed
    /\ \A i \in DOMAIN mon.targets :
          \/ mon.targets[i].build = ready[mon.targets[i].app]
          \/ mon.targets[i].app \in disturbed
    /\ mon.pc = "probe" /\ mon.hits = 0 => Excused(mon, disturbed)

\* Taking the first target away keeps the excuses of the others.
LEMMA NextTarget ==
    ASSUME TypeInv, CauseInv, mon.pc = "probe",
           mon'.pc = "next", mon'.targets = Tail(mon.targets),
           UNCHANGED <<app, ready, disturbed>>
    PROVE  CauseInv'
<1>1. mon.targets \in Seq(Targets) /\ mon.targets # <<>> /\ mon \in Monitors
  BY DEF TypeInv, Monitors
<1>2. \A i \in DOMAIN Tail(mon.targets) :
         i + 1 \in DOMAIN mon.targets /\ Tail(mon.targets)[i] = mon.targets[i + 1]
  BY <1>1, Behind
<1> QED
  BY <1>2 DEF CauseInv

\* Every step keeps the excuses.
LEMMA CauseNext == TypeInv /\ CauseInv /\ [Next]_vars => CauseInv'
<1> SUFFICES ASSUME TypeInv, CauseInv, [Next]_vars
             PROVE  CauseInv'
  OBVIOUS
<1>1. /\ mon \in Monitors /\ mon.targets \in Seq(Targets)
      /\ app \in [Apps -> Replies] /\ ready \in [Apps -> 0..MaxReady]
      /\ mon.pc = "probe" => mon.targets # <<>>
  BY DEF TypeInv, TypeOK, Monitors
<1>2. \A i \in DOMAIN mon.targets : mon.targets[i].app \in Apps
  <2>1. \A i \in DOMAIN mon.targets : mon.targets[i] \in Targets
    BY <1>1, LenProperties, ElementOfSeq
  <2> QED
    BY <2>1 DEF Targets
<1>3. CASE BeginCycle
  <2>1. \A i \in DOMAIN LiveAppTargets : LiveAppTargets[i].build = ready[LiveAppTargets[i].app]
    BY <1>1, TargetsInOrder
  <2>2. mon'.targets = LiveAppTargets /\ mon'.pc = "next"
    BY <1>3 DEF BeginCycle, Idle
  <2>3. disturbed' = {p \in Apps : app[p] # "up"} /\ UNCHANGED <<app, ready>>
    BY <1>3 DEF BeginCycle
  <2> QED
    BY <2>1, <2>2, <2>3 DEF CauseInv
<1>4. CASE HitApp
  <2>1. PICK n \in MinHits..MaxHits :
           mon' = [mon EXCEPT !.pc = "probe", !.hits = n, !.answered = FALSE, !.ok = FALSE]
    BY <1>4 DEF HitApp
  <2>2. mon'.hits # 0 /\ mon'.targets = mon.targets
    BY <1>1, <2>1, MonitorAssumption DEF Monitors
  <2> QED
    BY <1>4, <2>2 DEF HitApp, CauseInv
<1>5. CASE EndCycle
  <2>1. mon'.targets = <<>> /\ mon'.pc = "idle" /\ DOMAIN <<>> = {}
    BY <1>5 DEF EndCycle, Idle
  <2> QED
    BY <1>5, <2>1 DEF EndCycle, CauseInv
<1>6. CASE Probe
  <2>1. PICK late \in BOOLEAN : mon' = Probed(mon, Reply(Current), late)
    BY <1>6 DEF Probe
  <2>2. mon'.targets = mon.targets
    BY <1>1, <2>1 DEF Probed, Monitors
  <2>3. Current = mon.targets[1] /\ 1 \in DOMAIN mon.targets /\ Current.app \in Apps
    BY <1>1, <1>2, <1>6, Behind DEF Probe, Current
  <2>4. Current.app \notin disturbed => Reply(Current) = "up"
    BY <2>3 DEF CauseInv, Reply
  <2>5. Reply(Current) = "up" => mon'.ok \/ mon'.expired
    BY <1>1, <2>1 DEF Probed, Monitors
  <2>6. Excused(mon', disturbed)
    BY <2>2, <2>4, <2>5 DEF Excused, Current
  <2> QED
    BY <1>6, <2>2, <2>6 DEF Probe, CauseInv
<1>7. CASE CutInGap
  <2>1. mon'.targets = Tail(mon.targets) /\ mon'.pc = "next"
    BY <1>1, <1>7 DEF CutInGap, Monitors
  <2> QED
    BY <1>7, <2>1, NextTarget DEF CutInGap
<1>8. CASE Record
  <2>1. mon'.targets = Tail(mon.targets) /\ mon'.pc = "next"
    BY <1>1, <1>8 DEF Record, Monitors
  <2> QED
    BY <1>8, <2>1, NextTarget DEF Record
<1>9. CASE Crash
  <2>1. mon'.targets = <<>> /\ mon'.pc = "idle" /\ DOMAIN <<>> = {}
    BY <1>9 DEF Crash, Idle
  <2> QED
    BY <1>9, <2>1 DEF Crash, CauseInv
<1>10. ASSUME NEW p \in Apps, NEW answer \in MayBe(p), Turn(p, answer)
       PROVE  CauseInv'
  <2>1. \A q \in Apps : app'[q] = "up" \/ q \in disturbed'
    BY <1>1, <1>10 DEF Turn, CauseInv
  <2>2. UNCHANGED <<mon, ready>> /\ disturbed \subseteq disturbed'
    BY <1>10 DEF Turn
  <2> QED
    BY <2>1, <2>2 DEF CauseInv, Excused
<1>11. ASSUME NEW p \in Apps, BuildReady(p)
       PROVE  CauseInv'
  <2>1. \A q \in Apps : ready'[q] = ready[q] \/ q \in disturbed'
    BY <1>1, <1>11 DEF BuildReady
  <2>2. UNCHANGED <<mon, app>> /\ disturbed \subseteq disturbed'
    BY <1>11 DEF BuildReady
  <2> QED
    BY <1>2, <2>1, <2>2 DEF CauseInv, Excused
<1>12. ASSUME NEW p \in Apps, BuildQueued(p)
       PROVE  CauseInv'
  BY <1>12 DEF BuildQueued, CauseInv
<1>13. CASE UNCHANGED vars
  BY <1>13 DEF vars, CauseInv
<1> QED
  BY <1>3, <1>4, <1>5, <1>6, <1>7, <1>8, <1>9, <1>10, <1>11, <1>12, <1>13 DEF Next, Monitor

\* A sample that says "down" has a cause in its own cycle: the application
\* failed or was deployed anew, or those before it used up the time.
THEOREM DownExcused == Spec => DownHasCause
<1>1. Init => CauseInv
  BY DEF Init, CauseInv, Idle
<1>2. TypeInv /\ CauseInv /\ [Next]_vars =>
        [\A p \in Apps :
            uptime'[p] # uptime[p] /\ uptime'[p] # <<>> /\ ~Last(uptime'[p]) =>
                p \in disturbed \/ mon.expired]_vars
  <2> SUFFICES ASSUME TypeInv, CauseInv, [Next]_vars,
                      NEW p \in Apps,
                      uptime'[p] # uptime[p], uptime'[p] # <<>>, ~Last(uptime'[p])
               PROVE  p \in disturbed \/ mon.expired
    OBVIOUS
  <2>1. CASE Record
    <3>1. mon \in Monitors /\ mon.targets \in Seq(Targets) /\ mon.targets # <<>>
          /\ uptime \in [Apps -> Seq(BOOLEAN)] /\ Len(uptime[p]) <= History
      BY <2>1 DEF TypeInv, TypeOK, Monitors, Record
    <3>2. Current.app \in Apps
      BY <3>1, Behind DEF Current, Targets
    <3>3. p = Current.app /\ uptime'[p] = Recorded(uptime[p], mon.ok)
      BY <2>1, <3>1, <3>2 DEF Record
    <3>4. uptime[p] \in Seq(BOOLEAN) /\ mon.ok \in BOOLEAN
      BY <3>1 DEF Monitors
    <3>5. Last(uptime'[p]) = mon.ok
      BY <3>1, <3>3, <3>4, RecordedLast
    <3> QED
      BY <2>1, <3>3, <3>5 DEF Record, CauseInv, Excused, Current
  <2>2. CASE Crash
    BY <2>2 DEF Crash
  <2>3. CASE UNCHANGED uptime
    BY <2>3
  <2>4. ~Record /\ ~Crash => UNCHANGED uptime
    BY DEF Next, Monitor, BeginCycle, HitApp, EndCycle, Probe, CutInGap, Turn, BuildReady,
           BuildQueued, vars
  <2> QED
    BY <2>1, <2>2, <2>3, <2>4
<1> QED
  BY TypeInit, TypeNext, CauseNext, <1>1, <1>2, PTL DEF Spec, DownHasCause

=============================================================================
