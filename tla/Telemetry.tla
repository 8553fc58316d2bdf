------------------------------ MODULE Telemetry ------------------------------
(***************************************************************************)
(* The traffic charts of the dashboard: telemetry_series.go,               *)
(* project_series.go and the scrape of telemetry.go.                       *)
(*                                                                         *)
(* Traefik (external) counts requests per service and class of status code *)
(* since it started.  Every 30 seconds one goroutine scrapes the counters  *)
(* of the first running replica, lists the projects, and appends the       *)
(* difference to the previous scrape to two stores: one ring of points per *)
(* service, and one per project, which adds up the services whose name     *)
(* contains the project's slug and folds every LongTicks points into a     *)
(* point of a second, longer ring.  Nothing is persisted.                  *)
(*                                                                         *)
(* A tick is one step: the goroutine is the only writer of both stores,    *)
(* the handlers read under the lock, and a request served between scrape   *)
(* and recording is one served after the tick.  A point's n is the sum of  *)
(* its counts of the classes; gauges (pods, CPU, memory) and latencies are *)
(* left out.                                                               *)
(***************************************************************************)
EXTENDS Integers, Sequences, FiniteSets, SequencesExt

CONSTANTS
    Services,       \* Traefik services: one per deployment and host
    Classes,        \* classifyCode: 1xx to 5xx, other
    Shown,          \* the classes projectSeries adds up: 2xx to 5xx
    Slugs,          \* projects
    ServicesOf,     \* slug -> services whose name contains it
    Elsewhere,      \* counters of a Traefik that restarted, or of another replica
    Ring,           \* seriesMaxLen and projectSeriesMaxLen (120)
    LongTicks,      \* longBucketTicks (20)
    LongRing,       \* longSeriesMaxLen (1008)
    MaxTicks,       \* bound: ticks of the sampler
    MaxRequests,    \* bound: requests the scraped replica serves
    MaxFaults       \* bound: [FaultKinds -> Nat]

FaultKinds == {"scrape", "list", "traefik", "crash"}

\* ServiceTraffic.ByClass: a class of which no line was read counts 0, and Zero
\* stands for the empty map.
Counts == [Classes -> Nat]
Zero == [c \in Classes |-> 0]

ASSUME TelemetryAssumption ==
    /\ IsFiniteSet(Services) /\ IsFiniteSet(Classes) /\ Shown \subseteq Classes
    /\ ServicesOf \in [Slugs -> SUBSET Services]
    /\ Elsewhere \subseteq [Services -> Counts]
    /\ {LongTicks, LongRing} \subseteq Nat \ {0}
    /\ Ring \in Nat /\ Ring >= 2 * LongTicks
    /\ {MaxTicks, MaxRequests} \subseteq Nat
    /\ MaxFaults \in [FaultKinds -> Nat]

VARIABLES
    clock,      \* ticks so far: the AsOf of the latest snapshot
    counter,    \* lifetime counters of the replica that is scraped
    requests,   \* requests it served so far
    series,     \* seriesStore.byName
    pseries,    \* projectSeries.bySlug
    faults,     \* faults so far, per kind
    unsampled,  \* history: what happened since a service's last sample
    unrecorded  \* history: and since a project's last point

vars == <<clock, counter, requests, series, pseries, faults, unsampled, unrecorded>>

\* A service without a sample, and a project without bookkeeping.
NoBuffer == [last |-> Zero, points |-> <<>>]
NoAccum  == [count |-> 0, n |-> 0]
NoSeries == [prev |-> <<>>, points |-> <<>>, accum |-> NoAccum, long |-> <<>>]

\* n requests since; sound: then the counters were read in full, and they are
\* still those of the same Traefik.
Nothing == [n |-> 0, sound |-> TRUE]

\* The requests of a set of points; the points of a ring differ in their times.
Total(points) == SumFunction([pt \in points |-> pt.n])

\* The rings are trimmed from the front once they exceed their cap.
Newest_OffByOne(seq, n) == SubSeq(seq, IF Len(seq) > n THEN Len(seq) - n ELSE 1, Len(seq))
Newest(seq, n) == SubSeq(seq, IF Len(seq) > n THEN Len(seq) - n + 1 ELSE 1, Len(seq))

PositivePart(d) == IF d < 0 THEN 0 ELSE d

-----------------------------------------------------------------------------
Init ==
    /\ clock = 0
    /\ counter = [s \in Services |-> Zero]
    /\ requests = 0
    /\ series = [s \in Services |-> NoBuffer]
    /\ pseries = [p \in Slugs |-> NoSeries]
    /\ faults = [k \in FaultKinds |-> 0]
    /\ unsampled = [s \in Services |-> Nothing]
    /\ unrecorded = [p \in Slugs |-> Nothing]

Faults(K) ==
    /\ \A k \in K : faults[k] < MaxFaults[k]
    /\ faults' = [k \in FaultKinds |-> IF k \in K THEN faults[k] + 1 ELSE faults[k]]

(***************************************************************************)
(* Traefik                                                                 *)
(***************************************************************************)
\* The requests of a service that a project's next point should show: those of
\* a shown class, once the project has bookkeeping of the service.
Counted(p, s, c) == s \in ServicesOf[p] /\ c \in Shown /\ s \in DOMAIN pseries[p].prev

Request(s, c) ==
    /\ requests < MaxRequests
    /\ requests' = requests + 1
    /\ counter' = [counter EXCEPT ![s][c] = @ + 1]
    /\ unsampled' = [unsampled EXCEPT ![s].n = @ + 1]
    /\ unrecorded' = [p \in Slugs |-> IF Counted(p, s, c) THEN [unrecorded[p] EXCEPT !.n = @ + 1]
                                      ELSE unrecorded[p]]
    /\ UNCHANGED <<clock, series, pseries, faults>>

\* Traefik restarts, drops services that are gone, or another replica becomes
\* the first running one: findTraefikPodIP.
Replace(counts) ==
    /\ counts # counter
    /\ Faults({"traefik"})
    /\ counter' = counts
    /\ unsampled' = [s \in Services |-> [unsampled[s] EXCEPT !.sound = FALSE]]
    /\ unrecorded' = [p \in Slugs |-> [unrecorded[p] EXCEPT !.sound = FALSE]]
    /\ UNCHANGED <<clock, requests, series, pseries>>

(***************************************************************************)
(* The sampler                                                             *)
(***************************************************************************)
\* The requests of the classes C since the counts last; a class that fell
\* counts 0, one that was missing counts in full.
Increase(C, raw, last) == SumFunction([c \in C |-> PositivePart(raw[c] - last[c])])

\* seriesStore.recordSnapshot, for a service of the snapshot: the first sample
\* is only remembered, and so is one after an empty map; others give a point.
Sampled_FromZero(buf, raw, t) ==
    [last   |-> raw,
     points |-> Newest(Append(buf.points, [t |-> t, n |-> Increase(Classes, raw, buf.last)]), Ring)]
Sampled(buf, raw, t) ==
    [last   |-> raw,
     points |-> IF buf.last = Zero THEN buf.points
                ELSE Newest(Append(buf.points,
                                   [t |-> t, n |-> Increase(Classes, raw, buf.last)]), Ring)]

\* The requests of a project's point: increases of the services it sees now
\* and has bookkeeping of.
Delta_FromZero(prev, seen) ==
    SumFunction([s \in DOMAIN seen |->
                    Increase(Shown, seen[s], IF s \in DOMAIN prev THEN prev[s] ELSE Zero)])
Delta(prev, seen) ==
    SumFunction([s \in DOMAIN seen |->
                    IF s \in DOMAIN prev THEN Increase(Shown, seen[s], prev[s]) ELSE 0])

\* longAccum.add.
Added(accum, n) == [count |-> accum.count + 1, n |-> accum.n + n]

\* projectSeries.recordSnapshot, for one project and the services it sees;
\* those it does not see are forgotten.
Recorded_FlushFirst(buf, seen, t) ==
    LET n    == Delta(buf.prev, seen)
        full == buf.accum.count >= LongTicks - 1
    IN  [prev   |-> seen,
         points |-> Newest(Append(buf.points, [t |-> t, n |-> n]), Ring),
         accum  |-> IF full THEN NoAccum ELSE Added(buf.accum, n),
         long   |-> IF full THEN Newest(Append(buf.long, [t |-> t, n |-> buf.accum.n]), LongRing)
                    ELSE buf.long]
Recorded(buf, seen, t) ==
    LET n     == Delta(buf.prev, seen)
        accum == Added(buf.accum, n)
        full  == accum.count >= LongTicks
    IN  [prev   |-> seen,
         points |-> Newest(Append(buf.points, [t |-> t, n |-> n]), Ring),
         accum  |-> IF full THEN NoAccum ELSE accum,
         long   |-> IF full THEN Newest(Append(buf.long, [t |-> t, n |-> accum.n]), LongRing)
                    ELSE buf.long]

\* A complete scrape shows every service that served a request.
Complete == Restrict(counter, {s \in Services : counter[s] # Zero})

\* One that fails or is cut shows any part of them, and of the lines of a
\* service any part, or only the lines of its latencies: the map is empty.
Parts(raw) == {part \in [Classes -> 0..SumFunction(raw)] : \A c \in Classes : part[c] <= raw[c]}
Cut == UNION {{snap \in [view -> UNION {Parts(counter[s]) : s \in view}] :
                   \A s \in view : snap[s] \in Parts(counter[s])} : view \in SUBSET DOMAIN Complete}

\* The snapshot is recorded however the scrape ended.  Without the list of
\* projects the project rings get no point.
Tick(snap, listed) ==
    /\ clock < MaxTicks
    /\ clock' = clock + 1
    /\ series' = [s \in Services |-> IF s \in DOMAIN snap THEN Sampled(series[s], snap[s], clock')
                                     ELSE series[s]]
    /\ pseries' = [p \in Slugs |->
                      IF listed THEN Recorded(pseries[p], Restrict(snap, DOMAIN snap \cap ServicesOf[p]),
                                              clock')
                      ELSE pseries[p]]
    /\ unsampled' = [s \in Services |-> IF s \in DOMAIN snap
                                        THEN [n |-> 0, sound |-> snap[s] = counter[s]]
                                        ELSE unsampled[s]]
    /\ unrecorded' = [p \in Slugs |-> IF listed THEN [n |-> 0, sound |-> snap = Complete]
                                      ELSE unrecorded[p]]
    /\ UNCHANGED <<counter, requests>>

Sample ==
    \E K \in SUBSET {"scrape", "list"} :
        /\ Faults(K)
        /\ \E snap \in IF "scrape" \in K THEN Cut ELSE {Complete} : Tick(snap, "list" \notin K)

\* A restart of the pod loses both stores.
Crash ==
    /\ Faults({"crash"})
    /\ series' = [s \in Services |-> NoBuffer]
    /\ pseries' = [p \in Slugs |-> NoSeries]
    /\ unrecorded' = [p \in Slugs |-> Nothing]
    /\ UNCHANGED <<clock, counter, requests, unsampled>>

Next ==
    \/ \E s \in Services, c \in Classes : Request(s, c)
    \/ \E counts \in Elsewhere : Replace(counts)
    \/ Sample
    \/ Crash

Spec == Init /\ [][Next]_vars

-----------------------------------------------------------------------------
(***************************************************************************)
(* Properties                                                              *)
(***************************************************************************)
Point == [t : 1..MaxTicks, n : Nat]
Charts(cap) ==
    {points \in Seq(Point) : /\ Len(points) <= cap
                             /\ \A i, j \in DOMAIN points : i < j => points[i].t < points[j].t}

\* The rings never outgrow their caps, their points are in the order of their
\* times, at most one per tick, and a long bucket in progress is never full.
TypeOK ==
    /\ clock \in 0..MaxTicks
    /\ requests \in 0..MaxRequests
    /\ counter \in [Services -> Counts]
    /\ unsampled \in [Services -> [n : Nat, sound : BOOLEAN]]
    /\ unrecorded \in [Slugs -> [n : Nat, sound : BOOLEAN]]
    /\ faults \in [FaultKinds -> Nat]
    /\ \A s \in Services :
          /\ series[s].last \in Counts
          /\ series[s].points \in Charts(Ring)
    /\ \A p \in Slugs :
          /\ pseries[p].prev \in [DOMAIN pseries[p].prev -> Counts]
          /\ DOMAIN pseries[p].prev \subseteq ServicesOf[p]
          /\ pseries[p].points \in Charts(Ring)
          /\ pseries[p].long \in Charts(LongRing)
          /\ pseries[p].accum \in [count : 0..(LongTicks - 1), n : Nat]

\* A new point of a service shows exactly the requests that the scraped replica
\* served since the service's previous sample, if both samples read all its
\* lines and Traefik was the same: however many ticks the service was out of
\* view, the other services were cut, or the pod restarted before.
PointsAreRequests ==
    [][\A s \in Services :
          /\ series'[s].points # series[s].points /\ series'[s].points # <<>>
          /\ unsampled[s].sound /\ unsampled'[s].sound
          => Last(series'[s].points).n = unsampled[s].n]_vars

\* A new point of a project shows exactly the requests of the shown classes
\* since the project's previous point, of the services that had been in view
\* then, if both scrapes were complete and Traefik was the same: however many
\* ticks the projects could not be listed in between.
ProjectPointsAreRequests ==
    [][\A p \in Slugs :
          /\ pseries'[p].points # pseries[p].points /\ pseries'[p].points # <<>>
          /\ unrecorded[p].sound /\ unrecorded'[p].sound
          => Last(pseries'[p].points).n = unrecorded[p].n]_vars

\* Downsampling loses and repeats nothing: the bucket in progress holds the
\* newest points, and the newest long point the LongTicks points before them.
LongPointsAreSums ==
    \A p \in Slugs :
        LET points == pseries[p].points
            long   == pseries[p].long
            start  == Len(points) - pseries[p].accum.count
        IN  /\ pseries[p].accum.n = Total({points[i] : i \in (start + 1)..Len(points)})
            /\ long # <<>> =>
                  /\ Last(long).n = Total({points[i] : i \in (start - LongTicks + 1)..start})
                  /\ Last(long).t = points[start].t

\* What fails, and is not checked: a chart never shows more requests than were
\* served, "Counts are delta from the previous tick".  A scrape that is cut
\* within a service makes the next point show what was missing as new, and so
\* does another replica whose counters are ahead.
NeverMoreThanServed ==
    [][\A s \in Services :
          series'[s].points # series[s].points /\ series'[s].points # <<>> =>
              Last(series'[s].points).n <= unsampled[s].n]_vars
=============================================================================
