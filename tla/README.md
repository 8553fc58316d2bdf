# A formal model of the spinup control plane

The repository is a small platform-as-a-service in the style of Vercel.  A Go
process, the *control plane* (`control-plane/`), receives GitHub webhooks, keeps
projects and deployments in Postgres, builds each commit with a Kaniko Job in the
cluster, applies the tenant's Deployment, Service and Traefik routes, and serves a
dashboard API.  This directory holds TLA+ models of the parts where order and
failure matter, configurations that TLC checks, and theorems that TLAPS proves.

Paths below are relative to the repository's root; a bare `name.go` is
`control-plane/name.go`.

| module | what it is |
|---|---|
| `DeploymentLifecycle` | what a deployment row promises: the abstract specification |
| `BuildOrder` | what the cut-over takes for granted of the queue: abstract |
| `BuildPipeline` | queue, build workers, reconcilers, Kaniko Jobs: how a row gets to *ready* or *failed* |
| `BuildPipeline_proofs` | theorems about it |
| `ProductionTraffic` | production alias, promotes, custom domains, deletion of older builds |
| `ProductionTraffic_proofs` | theorems about it |
| `DeliveryOnce` | what the webhook receiver promises about one delivery: abstract |
| `WebhookIntake` | deliveries, installations, projects, enqueueing, boot, login: how a row gets into the queue |
| `WebhookIntake_proofs` | theorems about it |
| `TenantResources` | namespace, Secrets, workloads and database of a project: build, "Add database", Stop and Start, deletion |
| `TenantResources_proofs` | theorems about it |
| `SelfRebuild` | the control plane rebuilding and restarting itself |
| `SelfRebuild_proofs` | theorems about it |
| `Telemetry` | traffic counters and the charts made from them |
| `Telemetry_proofs` | theorems about it |
| `SumLemmas` | what the community modules' `SumFunction` returns, for the theorems |
| `SyntheticMonitor` | probes and the uptime shown |
| `SyntheticMonitor_proofs` | theorems about it |
| `MC...` | instances for TLC, with their `.cfg` files; `SyntheticMonitor` needs none |

`PROJECT.json` maps every definition that models code to its lines, and lists the
runs, the mutated definitions that show each property can fail, the hazards, the
findings and the theorems.


## 1. Inventory

### Deployment rows and the build queue (`store.go`, `migrations/0001_initial.sql`)

*State.* Table `deployments`: `status` (queued, building, deploying, ready,
failed), `created_at`, `build_started_at`.  The table is the queue: there is no
other.  *Operations.* Insert (`EnqueueDeployment`, `EnqueueRedeploy`);
`ClaimNextQueued`, a transaction with `FOR UPDATE SKIP LOCKED`; `MarkDeploying`,
`MarkReady` and `MarkFailed`, which update whatever the status is;
`MarkFailedIfInFlight` and the three requeues, which look at it first.
*Hard.* The statements are the only synchronisation between the goroutines, and
some of them are unconditional.  *Correct when* a finished row is not reopened, rows
finish in order, none is stranded.

### Build worker (`builder.go`)

*State.* The deployment it holds and a 15-minute context.  *Operations.* Every 3
seconds `tick` requeues stale rows, claims the oldest and runs `runOne`:
installation token, git Secret, Job, polling, `MarkDeploying`, tenant objects,
`MarkReady`, then on the production branch alias, pointer, custom domains and the
deletion of older builds.  A failure before `MarkReady` is recorded with
`MarkFailedIfInFlight`; one after it is only logged.  *Hard.* Every call may fail, or
succeed and lose its answer; the pod may die anywhere.

### Build reconciler (`build_reconciler.go`)

*State.* None: it works from a listing of the rows in flight.  *Operations.* Every 30
seconds, for each *building* row: a Job missing for 90 seconds requeues the row; a
Kaniko container running for 8 minutes has its Job deleted and the row requeued.
*Hard.* The listing is stale by the time it is used, and deletion and requeue are two
calls.

### Process start, shutdown, rollout (`main.go`, `manifests/04-deploy-control-plane.yaml`)

`main` connects to Postgres, migrates, requeues every row in flight
(`RequeueStuck`), starts the goroutines and serves.  The Deployment rolls out with
`maxSurge: 1`, `maxUnavailable: 0`: a new pod starts while the old one works.

### Kubernetes client (`k8s.go`)

`apply` (create, and on a conflict get and put), `createJob`, `deleteJob`
(foreground), `getJobPhase`, `deleteAllByLabel` (stops at the first error).

### Production alias, promote, garbage collection (`builder.go`, `promote_handlers.go`)

*State.* The IngressRoute `prod-<slug>`, `projects.production_deployment_id`, and the
Deployments and Services, one pair per commit.  *Operations.* The worker's cut-over;
a promote of an older ready deployment; the deletion of the other builds.
*Hard.* Worker and promotes write the same objects without a lock.  *Correct when* the
alias leads to something that exists, and the pointer names it.

### Custom domains (`domain_handlers.go`, `domain_store.go`)

*State.* Table `project_domains` (pending, verified) and one IngressRoute per
hostname.  *Operations.* Add, verify (DNS TXT), publish, delete; the worker and a
promote cut verified domains over.  *Correct when* only verified hostnames are routed,
to where the production alias leads.

### GitHub webhooks and enqueueing (`main.go`, `store.go`, `preview_webhook.go`, `deploy_handlers.go`, `redeploy_handlers.go`)

*State.* `webhook_deliveries`, `installations`, `installation_repos`, `projects`.
*Operations.* Verify the signature, record the delivery, dispatch: installation events
upsert and delete installations and projects up to a limit per user and start a first
build of each repository, pushes and pull requests enqueue, non-production pushes of a
known commit are skipped.  At boot `ReconcileOrphanRepos` makes up for repositories
without a project.  *Hard.* GitHub redelivers and does not order events; a delivery is
recorded before it is handled, so a handler that fails is not retried; lookup and insert,
count and insert, link and insert are separate statements.  *Correct when* a push that is
acknowledged is built, once, and a project belongs to whom its installation belongs to.

### Project teardown and scaling (`project_delete.go`, `scale_handlers.go`)

Deletes a project's objects in the cluster, then its row (deployments cascade), while
a build of it may be running.  Scaling patches every Deployment of the project.
*Correct when* nothing of a deleted project is left or comes back.

### Tenant isolation, databases, environment variables (`tenant.go`, `database_handlers.go`, `db_provisioner.go`, `env_handlers.go`, `query_handler.go`)

`ensureTenant` applies a namespace's quota, limits, policies and pull secret, one after
another.  "Add database" creates a role and a database with a random password, applies a
Secret, and records a row; environment variables are rows copied into a Secret by the next
deployment.  *Hard.* Each is a series of calls that may end anywhere; worker and handlers
run them side by side.  *Correct when* nothing runs in a namespace that is not isolated,
the recorded password authenticates, and variables do not go back.

### Self-rebuilder (`self_rebuild.go`)

Polls the control plane's own repository, builds an image, restarts its own
Deployment and only then records the commit in a ConfigMap.  *Hard.* The restart
kills the writer; a rollout starts a second poller.  *Correct when* each new commit is
rolled out, and not for ever.

### Rate limiter and waitlist (`ratelimit.go`, `waitlist_handlers.go`)

Fixed-window counters per address under a mutex.

### Telemetry, uptime, synthetic monitor (`telemetry*.go`, `uptime_tracker.go`, `synthetic_monitor.go`, `project_series*.go`)

Two rings of points, per service and per project, fed by one sampler from Traefik's
counters; a prober that visits every live application within a deadline and keeps the last
48 results.  *Hard.* Counters reset, or are those of another of three Traefik replicas; a scrape
that is cut half way is recorded all the same; the deadline passes half way.  *Correct when* a
point counts the requests of its interval, downsampling loses none, and what is shown as down
was.

### GitHub client, sessions (`github*.go`, `auth.go`)

An installation-token cache with expiry; OAuth state, hashed session tokens; and at each
login a transaction that claims the user's installations and the projects under them.

### Views and tools

Logs, runtime logs, insights, dashboards, activity, host routing, migrations,
manifests, `tools/` and `samples/` keep no state of their own or run once.


## 2. The models

### DeploymentLifecycle

One variable, `status`.  A row is queued, claimed, may be requeued while in flight,
and ends in *ready* or *failed*, which no step leaves.  A requeue may catch a row
whose attempt is still running; the attempt then takes the row on from *queued*.

### BuildOrder

Two variables, the deployments that have finished and those of them that are ready; one step,
in which the oldest deployment that is left finishes, ready or failed.  It is the seam between
the two models of `builder.go`: `BuildPipeline`, which ends at `MarkReady`, refines it
(`ImplementsBuildOrder`), and `ProductionTraffic`, which begins there, does no build that it does
not allow (`BuildsInOrder` in `ProductionTraffic_proofs`).

### BuildPipeline

| variable | code |
|---|---|
| `status`, `age`, `owner` | `deployments.status`, the age of `COALESCE(build_started_at, created_at)`, whose claim wrote `build_started_at` |
| `orphaned` | rows whose installation has been deleted: `account_login` reads NULL |
| `green` | the last commit status posted to GitHub is *success* |
| `job`, `deleting` | the build Job, and its `deletionTimestamp` |
| `pushed`, `applied` | the image in the registry; Deployment and Service in the cluster |
| `live` | pods that run the control plane |
| `wpc`, `wdep`, `wexp` | where a pod's worker is, what it holds, whether its context has expired |
| `rpc`, `rdep`, `rage` | where a pod's reconciler is, the row it looks at, and its age when listed |
| `faults` | how many faults of each kind may still strike |

One action per round trip, in the order of the code: `Sweep`, `ClaimNextQueued`,
`Prepare`, `EnsureBuildJob`, `CreateJob`, `WaitForJob`, `MarkDeploying`,
`ApplyTenantObjects`, `MarkReady`, `Finish`, and `RecordFailure`; for the reconciler
`ListBuilding`, `ProbeJob`, `DeleteStuckJob`, `RequeueListed`.  A call of an attempt may
fail without effect (`AttemptFails`) or take effect and lose its answer (the second
disjunct of `Step`).  `Boot`, `BootWithoutRequeue`, `Rollout` and `Stop` start and end
pods.  The Job controller's and the clock's steps are the cluster's.

Abstractions:

* *Time.*  `age` has four values, cut at the code's thresholds (90 s, 8 min, 15 min).
  `Overrun` ages the row of a running attempt and, at 15 minutes, expires its context:
  both count from the claim.  Passing 90 seconds while polling is free; any other
  overrun is a fault of kind *slow*, except for the deployments in `SlowBuilds`.
  `Lapse` ages a row nobody works on.
* *Listings.*  The reconciler's loop over a listing is followed for one row at a
  time; another row of the same listing is another choice of `d`.
* *Objects.*  The tenant's objects of one deployment appear together; failing half
  way is failing, and a later attempt applies all of them again.
* *Production.*  What `runOne` does after `MarkReady` cannot fail the attempt.  Here it
  is inside `Finish`, which for a build of the production branch deletes the objects of any
  of the project's other deployments (`CollectGarbage`: a call that fails leaves some);
  `ProductionTraffic` models it call by call, with the traffic.
* *SKIP LOCKED.*  While another pod's claim is open, a claim may find the oldest row
  locked and take the next (`ClaimableRows`).

### ProductionTraffic

| variable | code |
|---|---|
| `built`, `ready` | the deployments that have been attempted; the rows that are ready |
| `workloads`, `services` | Deployment and Service objects, by deployment |
| `alias`, `pointer` | the target of IngressRoute `prod-<slug>`; `production_deployment_id` |
| `route`, `domain` | each hostname's IngressRoute and row |
| `wpc`, `wdep`, `wdomains` | the worker's place in the cut-over, its target, its list of domains |
| `hpc`, `hdep`, `hhost`, `hdomains` | the same of each HTTP request |
| `faults` | crashes and failing calls that may still strike |

`BuildNext(d)` stands for everything up to `MarkReady`, and for an attempt that fails before or
after it applied objects.  With `InOrder = TRUE` deployments are attempted in the order that
`BuildOrder` states, which is a result about `BuildPipeline` under conditions; with `FALSE` in
any order, as a pipeline with overlapping pods or failing bookkeeping statements may.  From there each call is a
step: `ApplyAlias` (whose failure skips the pointer and nothing else),
`SetProductionDeployment`, `ListVerified`, `ApplyDomain`, `DeleteOldWorkloads`,
`DeleteOldServices`.  The handlers are cut the same way.  `Call` is a write that
may fail, with or without effect; `Query` a read that may fail; `CallOrAnswer` a call
whose error ends the request.

Abstractions: one project; each deployment has a commit of its own; hostnames
are distinct values, and whether a DNS record shows the token is a free choice;
`publishDomainRoute` looks at the newest five rows, the model, with at most three, at all of
them; the conflict in which two `apply`s of one object put the same
resourceVersion is one of the failing calls.

### WebhookIntake and DeliveryOnce

| variable | code |
|---|---|
| `recorded` | `webhook_deliveries` |
| `installed`, `owned` | `installations`, and those with an `owner_user_id` |
| `granted` | `installation_repos` with `removed_at IS NULL` |
| `projects`, `claimed`, `corrected` | `projects`; those with an owner; those whose `production_branch` is the repository's default branch |
| `rows`, `queuedBy` | how many deployments a project has of a commit, and a delivery has queued |
| `user`, `login`, `mine`, `adopted` | the `users` row; where `handleCallback` is, and what its open transaction has updated |
| `at`, `req` | where each goroutine is, and its local variables |
| `clicks`, `faults` | bounds |

A handler receives any delivery at any time, also one that it or another handler has already
seen.  `Record` is the `INSERT ... ON CONFLICT DO NOTHING` and the dispatch behind it; then
each statement and each GitHub call is an action: `Lookup`, `Dedupe`, `Insert` of
`EnqueueDeployment`; `UpsertInstallation`, `LinkInstallation`, `ReadOwner`,
`CountProjects`, `AddRepos` (one implicit transaction: a missing installation or a slug in use
rolls the batch back), `SetProjectOwner`, `RemoveRepos`, `DeleteInstallation`; `HeadFound`,
`HeadMissing`, `UpdateProductionBranch` of the automatic first build and of *Deploy now*;
`ListOrphans` and `ReconcileOrphan` at boot.  `DbFails` is any statement failing, with what the
code does then: log and go on, or give up.  The login is a READ COMMITTED transaction: its
effect shows at `CommitClaim`, and others' updates of the rows it has locked wait.

`DeliveryOnce` is the promise towards GitHub: a delivery is *taken* at most once, queues at
most one row, and once *settled* is never taken up again.  The refinement (`OncePerDelivery`)
maps `stage` from what is recorded and which request still serves it, `rows` to `queuedBy`.
That a delivery may be settled without a row (`Abandon`) is where the promise ends and
`lost_push` begins.

Abstractions: the installations belong to one account and its one user; signatures and payload
syntax are left out, as a delivery that fails them changes nothing; a head commit is any
commit; `suspended_at` is written and read by nothing.

### TenantResources

| variable | code |
|---|---|
| `projects`, `linked` | rows of `projects`; those whose installation is there (`TenantLogin` not empty) |
| `row`, `env`, `binding` | `deployments.status`; version of `project_env_vars`; password in `project_databases` |
| `role`, `database` | the tenants' Postgres: a role's password, the databases |
| `isolation` | which of the namespace's objects exist |
| `app`, `bound`, `svc`, `route` | Deployments (absent, running, 0 replicas), those with `DATABASE_URL`, Services, routes |
| `git`, `job` | a build's clone Secret and Job |
| `envSecret`, `dbSecret` | variables in `paas-env-<slug>`, password in `paas-db-<slug>` |
| `wat`, `work`, `at`, `req` | program counters and local variables of workers and handlers |
| `condemned`, `warned`, `late` | history: deletions begun, deletions that answered with warnings, what was applied during or after one |

The build worker is here from the claim to `MarkReady`, one call to Kubernetes or Postgres at a
time, `ensureTenant` object by object (`BuildPipeline` treats these as one step and adds
overlap, retries and time).  Failing lookups of database and variables are logged and the
attempt goes on without (`ReadBinding`, `ReadEnv`); any other failure ends it.  "Add database" is
cut at each query of `Provision`; Stop and Start are one PUT per Deployment; the deletion goes
through the object kinds in the code's order, turns failures into warnings, and deletes the row
last.  `Crash` ends worker and handlers and requeues what was in flight.

Abstractions: one tenant; commits are not on a production branch; quota and limits are one
object, as are the four policies; each change of the variables is a number, so that "older" is
"less".

### SelfRebuild

| variable | code |
|---|---|
| `head` | the main branch, commits numbered |
| `state` | `last_sha` in the ConfigMap |
| `job`, `source`, `ghosts` | Job `build-control-plane`, what its pod cloned, pods of deleted Jobs that still run |
| `tag` | the commit in the image `spinup-control-plane:latest` |
| `pod`, `image`, `current` | the Deployment's pods, what they run, which have the newest template |
| `at`, `latest` | where each pod's `rebuilderTick` is, and the SHA it read |

`GithubLatestSHA`, `ReadState`, `DeleteJob`, `WaitForJobGone`, `Create`, `Watch`,
`RolloutRestart` and `WriteState` are the calls of a tick; any may fail (`TickFails`).  Job
controller, Kaniko and kubelet are the environment: Kaniko clones the branch, not the SHA that was
seen; a container pulls the mutable tag on every start; the Deployment never goes below one
ready pod while it rolls out.

### Telemetry

| variable | code |
|---|---|
| `clock` | ticks of the sampler: a point's timestamp |
| `counter`, `requests` | lifetime counters of the replica that is scraped, by service and class; how many requests it served |
| `series` | `seriesStore.byName`: counts seen last and ring of points, by service |
| `pseries` | `projectSeries.bySlug`: counts seen last per service, ring, bucket in progress, long ring |
| `unsampled`, `unrecorded` | history: requests since a service's last sample, and since a project's last point; whether those were read in full, from the same Traefik |

A tick is one action: scrape, list of projects and both recordings by the only goroutine that
writes the stores.  What it reads is the choice: every service that served a request
(`Complete`), or, when the scrape fails or is cut, any part of the services and of each any part
of its lines, down to an entry whose map of classes is empty (`Parts`, `Cut`): the snapshot is
recorded however the scrape ended.  The list of projects may be missing, in the same tick, too.
`Replace` is a restart of Traefik and the change to another replica: counters fall, disappear or
jump up.  The two stores differ as in the code: the service store counts every class and, after an
empty map, only remembers; the project store drops the classes that are not in `Shown`, forgets
services out of view, and takes an empty map for counts of zero.  A point's `n` is the sum of its
classes; gauges, latencies and the 5-second cache of snapshots are left out.

### SyntheticMonitor

| variable | code |
|---|---|
| `app` | what an application does with a request: up, slow, hung, broken |
| `ready`, `newer` | its newest ready build; rows after it |
| `mon` | the goroutine: targets left, probes left, what is left of the deadline, last result |
| `uptime` | `uptimeTracker.byProject` |
| `disturbed` | history: applications that failed or changed in this cycle |

Time passes in units of one probe that runs into its own 6-second timeout; four fit into a
cycle of 28 s.  As long as such a unit is left, other probes and the gaps between probes take no
time; once none is, the deadline may pass in any of them.  When it passes in a probe, that probe
fails, and all behind it fail at once.  A probe that was answered, with whatever status, is
followed by a gap, and a deadline that passes there ends the application's turn without a sample
(`CutInGap`); one that got no answer does not wait and goes on.


## 3. What TLC checks

| run | instance | checks |
|---|---|---|
| `one_pod` | 1 pod at a time, 2 deployments, one installation may be deleted; 1 crash, 2 overruns, 1 Kubernetes fault | `TypeOK`, `ReadyIsServed`, `GreenCheckIsReady`, `TerminalIsFinal`, `ImplementsLifecycle`, `ImplementsBuildOrder` |
| `recovery` | 1 pod, 1 deployment; 1 crash, 3 overruns, 1 failing statement, 1 Kubernetes fault; fair | `EveryDeploymentSettles` |
| `rollout` | 2 pods overlapping, 1 deployment; fair | `EveryDeploymentSettles` |
| `pushes` | 3 deployments, a preview between two production builds; 1 domain, 2 requests, 1 crash | `TypeOK`, `AliasHasBackend` |
| `domains` | 2 deployments, 2 domains, 2 requests that add, verify and promote; 1 crash, 1 failing call | `OnlyVerifiedRouted`, `TrafficMovesForward` |
| `intake` | 2 handlers, 4 deliveries (install, push, grant and removal, uninstall), 2 repositories, one with another default branch, project limit 1; 1 click, 1 crash, 1 failing statement, 1 failing GitHub call; fair | `TypeOK`, `OwnerFollowsInstallation`, `InstalledReposServed`, `LoginRepairsOwners`, `ImplementsDeliveryOnce`, `PushDroppedOnlyByFault`, `PushLostOnlyByFault` |
| `tenant` | 1 worker, 2 handlers, 1 project and commit; 2 requests (an uninstall counts as one), 1 edit, 1 failing call, 1 crash | `TypeOK`, `IsolatedBeforeUse`, `BindingAuthenticates`, `BoundPodsConnect`, `DeletionIsComplete`, `EnvNeverRollsBack` |
| `self_rebuild` | 2 pods; commits 1 that does not build, 2 that crashes, 3 that is good; 1 fault, 1 dying container; fair | `TypeOK`, `RecordedIsBuilt`, `GoodHeadIsServed` |
| `telemetry` | 1 project of 2 services, 2 classes of which the project shows one; 5 ticks, 2 requests; rings of 4 and 2, buckets of 2; each fault once, the first two in one tick or in two; another replica that is ahead | `TypeOK`, `LongPointsAreSums`, `PointsAreRequests`, `ProjectPointsAreRequests` |
| `uptime` | 2 applications that may hang, one of which may answer with errors, 2 builds, 1 restart; 1 or 2 probes, a deadline of 2 slow ones; fair | `TypeOK`, `DownHasCause`, `OutageIsShown` |

Two runs end in a counterexample, each against a sentence of the repository:

| run | what happens | the sentence |
|---|---|---|
| `poison_row` | the head of the queue belongs to a deleted installation; each claim fails in Scan and rolls back, and the queue stands | `builder.go:71-72` errors are "recorded on the row" |
| `lost_push` | one statement fails while a recorded push is dispatched; the answer is 202, a redelivery is a duplicate, nothing looks for it later | `main.go:404-405` "Real processing happens in background reconciliation later" |

*Properties.*

* `ReadyIsServed`: a ready row has its image, whichever attempt got it there, and its objects,
  unless a newer production build of its project is ready: only such a one deletes them.  `GreenCheckIsReady`: GitHub shows *success* only on a ready row.
  `TerminalIsFinal`: ready and failed are left by no step.  `ImplementsLifecycle`: the pipeline
  refines `DeploymentLifecycle`, with `status` mapped to itself; the machinery around it
  is what is hidden.  `ImplementsBuildOrder`: it refines `BuildOrder`, too: no deployment finishes
  before every older one has, failures count as well as successes, and what has finished stays so.  `EveryDeploymentSettles`: a queued row ends.
* `AliasHasBackend`: the production alias leads to a Deployment and a Service; without promotes and
  failing calls this says that the worker cuts over before it deletes, in the order of the code
  and wherever it is interrupted.  `OnlyVerifiedRouted`: routes appear on verified hostnames only.  `TrafficMovesForward`:
  traffic goes to ready builds only, and the production alias back to an older one, or to a
  preview, where a promote asked for it and nowhere else.
* `ImplementsDeliveryOnce`: a delivery queues at most one build, since the unique delivery id holds
  off copies that are handled at the same time, too.  `OwnerFollowsInstallation`: install, grant and login in
  any order leave no project without the owner of its installation;
  `LoginRepairsOwners`: what failures have left unowned, the next login adopts.
  `PushDroppedOnlyByFault`: no step but a fault drops a push of a known project between the 202
  and the row, whatever events surround it; `PushLostOnlyByFault`: in the end there is a build of
  its commit.  `InstalledReposServed`: the repositories of an installation have projects once
  all is handled, whatever a grant, a boot and a login insert, count and claim in between, or the user
  is at the limit.
* `IsolatedBeforeUse`: no Deployment and no Secret before the whole of the isolation,
  however an earlier `ensureTenant` ended.  `BindingAuthenticates`: the recorded password is
  the role's.  `BoundPodsConnect`: the Secret that a bound pod reads is, too.
  `DeletionIsComplete`: what a deletion without warnings leaves was applied during or after it.
  `EnvNeverRollsBack`: no failing lookup or retried attempt puts older variables back.
* `RecordedIsBuilt`: with two pods deleting each other's Job, the state still names a
  commit that the image contains.  `GoodHeadIsServed`: the good commit that main ends with
  comes to be served, for good.
* `PointsAreRequests`: between two samples of a service that read all its lines, from one Traefik, a
  point counts exactly what was served, whatever else was cut, out of view or restarted.
  `ProjectPointsAreRequests`: between two complete scrapes a project's point counts exactly the
  requests of the classes it shows, however many lists of projects were missing in between.
  `LongPointsAreSums`: a long point is the sum of its bucket.
* `DownHasCause`: a sample that says down is of an application that failed or was deployed
  anew in this cycle, or that the deadline cut: of the builds of an application that is up the live
  one is probed.  `OutageIsShown`: an application that stays without an answer is shown as down in
  the end, however cycles are cut.

*Deadlock* is checked in the runs of `BuildPipeline`, `ProductionTraffic`, `SelfRebuild` and
`SyntheticMonitor`.  In `intake` and `lost_push`, `tenant` and `telemetry` nothing need
happen when clicks, faults or ticks are used up and GitHub stays silent.

### Seen in the models, without a run of its own

Each of these is a behaviour of the model that an instance reaches with the constants named;
where a definition states the contrary, it is in the module and fails.

*Build pipeline.*

* With `Overlap = TRUE` and a rollout the new pod's `RequeueStuck` hands it the row that the
  old pod is building: `NoDoubleBuild` fails, against `store.go:941-942` "without
  double-building".  `ImplementsBuildOrder` and `TerminalIsFinal` fail as well: the old pod claims
  the next row while the requeued older one waits, and a late `MarkDeploying` or
  `MarkReady` takes a finished row back.
* With `SlowBuilds = {1}` a build of more than eight minutes is killed and requeued for ever
  and `OthersProceed` fails, against `builder.go:111` "a stuck build can't wedge the whole
  worker": the retry of `build_reconciler.go:79` is not counted, and the worker would
  have granted 15 minutes.
* With two overruns the worker sees the Job deleted before the reconciler requeues its row,
  and fails it: `StuckBuildIsRetried`, against `build_reconciler.go:20-21` "treat the Job as
  stuck and retry".

*Production traffic.*

* With `"promote"` among `Kinds` a promote leads the alias to a build that the worker deletes, or has
  deleted: `AliasHasBackend`, against `promote_handlers.go:8` "Every commit's build artefacts
  live forever".  With a failing call it fails without a promote: after an alias that could
  not be applied the worker deletes the build it still leads to (`builder.go:317`).
* Two promotes interleave between alias and pointer: `PointerFollowsAlias`, against
  `promote_handlers.go:117-119` "never at a commit whose Service isn't actually behind the alias".
* A verified domain is published at the newest ready build, a preview (`Production = {1}`,
  2 deployments): `DomainsFollowAlias`, against `domain_handlers.go:11-15` "to the project's
  production-alias Service".
* `TrafficMovesForward` rests on builds that come in order, and a pipeline with overlapping
  pods or a failing bookkeeping statement has none (`ImplementsBuildOrder` fails with
  `Overlap = TRUE` or `Db = 1`).  With `InOrder = FALSE` it fails: a row whose failure could not be
  recorded stays in flight, is swept up after a newer one became ready, and its cut-over takes the
  alias back to the older push, against `builder.go:307-308` "applying it for a newer SHA atomically
  cuts traffic over".
* With `"delete"` among `Kinds` a worker or request that read a row before its removal routes the
  hostname again: `OnlyVerifiedRouted` fails (`builder.go:346`).
* A failing `deleteDomainRoute` is logged and the row goes all the same, so that the
  route stays (`domain_handlers.go:206`).  Nothing waits for the new pod to answer before
  the older ones are deleted (`builder.go:359`); whether a container answers is not in
  the model.  A crash between `MarkReady` and the alias leaves the cut-over undone until the
  next production push (`builder.go:301`).
* Two hostnames that differ only in `.` and `-` share one route name (`domain_handlers.go:314`);
  here each has its own.

*Webhook intake.*

* With `Installations = {i1, i2}` and no limit, the App is installed again under another id: the
  old projects still have the slugs, the batch of `AddRepos` is rolled back (`store.go:140`) and
  `InstalledReposServed` fails, against `main.go:512-514` "user installed the App expecting
  their app to come up".
* With `Overlap = TRUE` a project inserted while the login's transaction is open copies an owner
  that is not committed yet and is not seen by its claim: `OwnerFollowsInstallation`, against
  `auth.go:300-301` "Claim any prior installations that arrived before this user existed, and
  inherit ownership of every project under them".
* An installation event that lists no repository, handled beside one that adds some, links the
  installation after the other has inserted and back-filled its projects, and back-fills
  nothing itself (`main.go:505`): they have no owner until the next login.
  `OwnerFollowsInstallation`, against `main.go:493-495` "so AddRepos below stamps projects with
  the right owner from the start"; in `intake` the installation event lists a repository.  `unsuspend`
  and `new_permissions_accepted`, which take the same path, list none.
* The same happens when a repository of the event has a slug that is in use: the batch is rolled back
  after the installation has been linked, and its error skips the back-fill (`main.go:506-511`).  With
  one slug for both repositories TLC finds `OwnerFollowsInstallation` violated; in `intake` they differ.
* A "repositories" event handled before its installation finds no row to refer to, fails, and is
  answered 202 (`main.go:585`): what it added has no project until a later event lists it.
* Two webhooks count the projects of a user at the same time and both find room
  (`store.go:114`); a repository that is added again counts against the limit
  (`store.go:148`); without an owner, or when reading it fails, nothing is limited (`store.go:109`).
* Two deliveries of one non-production commit both look it up before either inserts
  (`store.go:237-254`): two rows.
* An installation event handled after the installation's deletion brings its row back
  (`main.go:487`).  An error of `ReconcileOrphanRepos` leaves the projects it has created
  without a first build (`main.go:171`).  A repository whose default branch is not `main` has
  its pushes taken for previews, deduplicated and never promoted, until *Deploy now* corrects it.

*Tenant resources.*

* With `DoubleClick = TRUE` two requests provision one project: the second rotates the role's
  password, the row keeps the first's, and `BindingAuthenticates` fails, against
  `db_provisioner.go:93-94` "rotate the password so the new Secret matches what's actually
  authenticating".
* After `Uninstall` the project has no tenant; its deletion skips the namespace without a
  warning (`project_delete.go:72`): `DeletedIsRemoved`, against the dialogue of
  `static/dashboard.html:2615`, "Deployments, domains, and env vars are removed".  Stop answers 400.
* A restart requeues the build in flight and its new attempt applies `replicas: 1`
  (`builder.go:834`) to what the user has stopped: `StoppedUntilStarted`.
* A build or "Add database" alongside a deletion applies objects that the deletion has passed
  (`late`): they stay.  A crash or a 500 half way leaves a project half torn down.  Role and
  database are never dropped.
* Two slugs that agree in 50 characters share a database Secret (`database_handlers.go:109`):
  the constant `DbSecret` expresses it.

*Self-rebuilder.*

* With `CrashOnBadTag = TRUE` a container of the working pod dies after a crashing image was
  pushed, pulls that image, and nothing serves any more: `ServesAgain`, against
  `self_rebuild.go:27-29` "Crashlooping pod never replaces the working one".  The rebuilder
  itself is down, too: only the script helps.
* With `SlowPods = TRUE` the pod of a deleted Job pushes its older image after the next one:
  `RecordedStaysBuilt`, against `self_rebuild.go:244-245`, which waits for "the old job + its
  pods" and looks for the Job only.
* The old pod may end between rollout and state (`self_rebuild.go:140`): one more rebuild.
  The first run takes for granted that what runs is the head (`self_rebuild.go:116-120`).

*Telemetry and uptime.*

* The latency of a service's first point in a project is its lifetime sum over its lifetime
  count (`project_series.go:237`), against `project_series.go:51-52` "All counter fields are
  DELTAS"; latencies are not in the model, the counters beside them are and are guarded.
* A scrape that is cut within a service is recorded, and the next point shows the lines it missed
  as new requests, up to the lifetime total; an entry with no lines makes one store start over and
  the other count from zero.  `NeverMoreThanServed`, against `telemetry_series.go:38-39` "Counts are
  delta from the previous tick"; one fault of kind *scrape* is enough.
* The same property fails when another Traefik replica, ahead of the first, becomes the first running
  one, against `telemetry.go:257-258` "any pod's metrics view is representative for the cluster";
  `architecture.md:124` has three of them, and what the others serve is in no point.
* The two charts may disagree: the service store counts 1xx and other codes, too, restarts from an
  empty map, and keeps services that were out of view; the project store does none of these.
* What was requested before a service's first sample is in no point.  When the projects cannot be
  listed for an hour, the project's next point counts all of that time at one timestamp
  (`project_series.go:262`).
* A service counts for every project whose slug its name contains
  (`telemetry_series.go:242`, `project_series.go:208`); `seriesStore.byName` forgets no service.
* With three applications of which two hang (`NumApps = 3`, `MayHang = {1, 2}`), five of their
  probes use a cycle up, and those of the third fail at once: it is shown as down although it is up.  `RecoveryIsShown`, against
  `synthetic_monitor.go:93-95` "one broken tenant shouldn't stop us from collecting metrics on
  the others".
* An application that answers with errors while the cycles' deadlines pass in its gaps leaves no
  sample at all, and the last good one stays: `ErrorsAreShown` (`synthetic_monitor.go:141-150`).
* An application with five newer rows that failed is no longer listed
  (`synthetic_monitor.go:169`); one without samples is shown as up (`uptime_tracker.go:96`).

### Bounds and why they are enough

* Two deployments are what order, starvation and "another row" need; the queue
  compares rows only by age.  `pushes` has three for a preview between two
  production builds.
* Two pods are what a rollout with `maxSurge: 1` can run.  In `one_pod` a crash and
  the next boot reuse the same name; a pod keeps nothing across a restart.
* `MaxFaults` bounds each kind of fault.  Failing calls of an attempt of `BuildPipeline` are
  not bounded.  Three overruns in `recovery` take an attempt past every threshold; in
  `one_pod` two reach the reconciler's.
* Two requests are what an interleaving of handlers needs, two hostnames what a half
  finished loop over domains does.
* `Ages` is cut at the thresholds of the code, so it bounds nothing.
* `intake`: two handlers handle one delivery twice at the same time, or two events; two
  repositories let one be granted while the other is removed, and exceed a limit of one.
  `Overlap = FALSE` keeps requests out of a login's transaction and is a real restriction
  (above).
* `tenant`: two requests and a build are three actors on one project; most of what could go
  wrong between two projects is kept apart by their names.  `DoubleClick = FALSE` starts the
  next "Add database" only after the one before was answered or died, which is how the
  dashboard's button behaves, and is a real restriction (above).
* `self_rebuild`: one commit of each kind in the worst order; `SlowPods = FALSE` is the 30
  seconds a pod gets to end against a build of more than a minute.
  `CrashOnBadTag = FALSE` is a real restriction (above).
* `pushes` has no promote and no failing call, with either of which `AliasHasBackend` fails
  (above); `domains` has both, and no removal of a domain, with which `OnlyVerifiedRouted` fails.
  Both have `InOrder = TRUE`.
* `telemetry`: rings of 4 and 2 and buckets of 2 instead of 120, 1008 and 20, so that 5 ticks wrap
  the ring and fill two long points; `Ring >= 2 * LongTicks` holds of the code's numbers
  and is the assumption `LongPointsAreSums` needs.  Two requests are enough for a cut between two
  lines of one service, for two classes of which one is not shown, and for two services of
  which one is out of view; the other replica starts ahead without using up requests.  Every
  kind of fault happens once, so that a sound pair of samples follows each.
* `uptime`: a deadline of two slow probes and one or two probes per application, instead of four
  and two to four.  One application that hangs can thus spend the cycle's time before the second is
  probed, and a gap can be cut after any answer.  An application that is up and still shown
  as down for ever needs a third; this is why `RecoveryIsShown` is not among what is checked (above).
  `History = 1` makes every sample replace the last, and `Window = 1` drops an application after one
  newer row.

### Fairness

`recovery`, `rollout` and `poison_row`: `WF(WorkerStep(p))`, `WF(ReconcilerStep(p))`: a
ticker wakes each goroutine and Go schedules it; calls end because their contexts
do.  `WF(Boot)`: the Deployment restarts a dead pod.  `WF(Retire)`: a
rollout ends.  `WF(JobStep(d))`: an init container or a Kaniko Job ends, by
`activeDeadlineSeconds` if nothing else ends it, and a deleted Job goes.  `WF(Lapse(d))`:
time passes.

`intake` and `lost_push`: `WF(RequestStep(h))` and `WF(LoginStep)`: a request that is being
served, and a login, go on.  Nothing makes GitHub deliver, a process start or a user click.

`self_rebuild`: `WF(Tick(p))`, the ticker; `WF(Rollout(p))`, Deployment controller and kubelet;
`WF(Clone)`, `WF(Build)`, `WF(GhostEnds(c))`: a Job that was created runs, and pods end.

`uptime`: `WF(Monitor)`: cycle after cycle, and every probe ends by its timeout.

No fairness is assumed for the success of anything: a Job may always fail, a call may always
fail within its bound.  Only weak fairness is used.


## 4. What TLAPS proves

For any pods, deployments, domains, requests, deliveries, commits, projects, services, rings,
applications and budgets of faults:

| theorem | under |
|---|---|
| `BuildPipeline_proofs!TypeCorrect` | |
| `ServedCorrect`: `[]ReadyIsServed` | no overlapping pods, no failing bookkeeping statement |
| `GreenCorrect`: `[]GreenCheckIsReady` | no overlapping pods |
| `LifecycleImplemented`: `Lifecycle!Spec` | no overlapping pods |
| `TerminalStatesFinal`: `TerminalIsFinal` | no overlapping pods |
| `BuildOrderImplemented`: `Order!Spec` | no overlapping pods, no failing bookkeeping statement |
| `ProductionTraffic_proofs!TypeCorrect` | |
| `OnlyVerified`: `OnlyVerifiedRouted` | no removal of a domain |
| `OnlyReadyServed`: traffic is led to ready builds only | |
| `MovesForward`: `TrafficMovesForward` | builds end in the order of the queue (`InOrder`) |
| `BuildsInOrder`: `Order!Spec` | the same |
| `WebhookIntake_proofs!TypeCorrect` | |
| `ReceiverImplements`: `OncePerDelivery!Spec` | |
| `OwnerFollows`: `[]OwnerFollowsInstallation` | no request beside a login's transaction; installation events list a repository; the repositories named have different slugs |
| `PushDropped`: `PushDroppedOnlyByFault` | a push is of one repository |
| `InstalledServed`: `[]InstalledReposServed` | the repositories named have different slugs; an installation that is deleted was announced once; an installation event lists one repository, where projects are limited |
| `TenantResources_proofs!TypeCorrect` | |
| `IsolationFirst`: `[]IsolatedBeforeUse` | |
| `BindingHolds`: `[]BindingAuthenticates` | one request at a time creates a database |
| `PodsConnect`: `[]BoundPodsConnect` | the same, and projects have database Secrets of their own |
| `EnvOnlyForward`: `EnvNeverRollsBack` | one build worker |
| `DeletionComplete`: `[]DeletionIsComplete` | projects have database Secrets of their own |
| `SelfRebuild_proofs!TypeCorrect` | |
| `RecordedCorrect`: `RecordedIsBuilt` | a deleted Job's pod ends before the next build |
| `Telemetry_proofs!TypeCorrect` | |
| `PointsCorrect`: `PointsAreRequests` | |
| `ProjectPointsCorrect`: `ProjectPointsAreRequests` | |
| `LongCorrect`: `[]LongPointsAreSums` | |
| `SyntheticMonitor_proofs!TypeCorrect` | |
| `DownExcused`: `DownHasCause` | |

The provisos are conditions on the constants, stated in each theorem's `ASSUME`; the
behaviours of section 3 show that most of them cannot be dropped.  Those of `WebhookIntake`:
`PushesOfOneRepo` holds of GitHub's payloads, which name one repository; `SlugsApart` holds unless two
repository names normalise to one slug; `InstallsOnce` is GitHub's practice of giving every installation an
id of its own and announcing its creation once.  A second announcement handled after the deletion,
be it an `unsuspend` or a `new_permissions_accepted` that comes late, brings the row back when the
batch of the first has been given up: the theorem leaves installations that are both deleted and
announced again out.  `ListsOneIfLimited` excludes that of two repositories listed the one that
another request has inserted already uses the last place up (`store.go:148`).  Those of `TenantResources`:
`~DoubleClick` is how the dashboard's button behaves; `DistinctSecrets` holds unless two slugs
agree in 50 characters; with two workers (`~OneWorker`), each may read the variables and apply
what it read after the other, which a rollout's overlapping pods can do.

The inductive invariants:

* `HeldInv`: a worker in the middle of an attempt holds a deployment, any other holds
  none, and a dead pod has no worker.  All the others rest on it.
* `OneInv`, with one pod at a time: the row a worker is attempting is in flight or, when
  a requeue has caught it, queued; at *apply* and later it is not *building* any more, so
  the reconciler does not list it; at *finish* it is ready.  Finished rows are thus out of
  reach of the unconditional `MarkDeploying` and `MarkReady`, and the WHERE clause of
  the requeue stops a reconciler with an old listing.
* `QueueInv`, on top: rows are inserted in order; a row in flight is held by the live
  pod; every row older than the one held has finished.  This is where failing bookkeeping
  statements are excluded: a row whose failure could not be recorded stays in flight until
  a sweep finds it, and the next claim takes a newer one.
  Two steps finish a row, `MarkReady` and `MarkFailedIfInFlight` (`FinishedBy`), and both of the row
  that is held: hence the refinement of `BuildOrder`.
* `ServedInv`: `EvidenceInv`, `NewestInv` and the property.  `EvidenceInv`: a Job that has succeeded
  has pushed its image; a worker from *mark* to *ready* has seen that, and at *ready* has
  applied its objects, which nobody has deleted since, because nobody else is at *finish*.
  `NewestInv`, from `QueueInv`: all rows older than a finished one have finished, and a worker at
  *finish* holds the newest of them.  So what its garbage collection deletes belongs to older rows,
  and of its own project: the exception that `ReadyIsServed` makes.
* `VerifiedInv`: whatever a list or a request read as verified still is, since only a
  removal undoes a verification; this is why stale lists do no harm.
* `ReadyInv`: the worker that cuts over holds a ready build of the production branch; what a request
  is about to lead traffic to was ready when it looked, and no ready build becomes anything else.
  `NewestInv`, with `InOrder`: what has ended is older than what begins, so that the worker
  holds the newest of it, and its cut-over goes forward.

* `PlaceInv`: where a request is tells how it came, and whether it has a delivery at all;
  what "Deploy now" works on is a project.  `TypeOK` is not inductive without it.
* `OnceInv`: a delivery that is not recorded is served by nobody past `Record` and has queued
  nothing; of one that is, at most one request is past `Record`, and only as long as it has
  queued nothing.  Every step but `Record` and `Insert` leaves the stage of a delivery
  alone or settles it, which is the refinement.
* `LoginInv`: nobody is served during a login, and at its commit every project of an
  installation with an owner has one or is about to.
* `WorkInv`: what a request works on, what is granted and the projects are repositories that some
  delivery names, so that distinct slugs among those keep `AddRepos` from being rolled back; and an
  installation event that is to link its installation has projects to go on to, if it lists any.  `AllHanded`, as long as
  `WithinBudget` shows that no fault has struck: a project of an owned installation has its owner, or a
  request between the link and the back-fill is about to hand it on.  The link itself makes such
  a request, `AddRepos` gives up only without the installation (and then without an owner), the
  back-fill claims everything, and a login commits only when nobody is served (`LoginInv`).
* `PushInv`: a request that serves a push is on its way to the queue with the project and the commit
  of that push; with `OnceInv`, another copy of the delivery cannot take its place.
* `ServiceInv`, as long as no fault has struck and the user is not at the limit (which, once reached,
  is never left, since no project loses its owner): whoever has counted found room; of every installation that was recorded, all it lists has projects, or it is gone and
  no request brings it back, or a request is on its way to insert what it lists.  Its row can be
  missing when `AddRepos` comes only because the deletion was handled in between, which is where
  `InstallsOnce` comes in.
* `RecordInv`: a finished Job has its commit in the image and nothing runs beside it; a pod
  that watches a Job gets at least the commit its own tick began with, since the Job it found
  was deleted and the next one clones later; from there to the record only builds that
  began later push.

* `TenantResources`.  `Counted`: passwords minted, clicks left and requests that may still mint
  one stay within `MaxClicks`, which the types need.  `IsolationInv`: an actor that is past an
  object of `TenantObjects` has seen it applied, and nothing removes one.  `DatabaseInv`: at most
  one request creates a database; past `role` the role has its password, past
  `database` the database exists, and until it inserts the row there is none.  `SecretInv`: the Secret is written before the row
  and from the same password.  `EnvInv`: neither the Secret nor what the worker has read is
  ahead of the rows.  `DeletionInv`: of the kinds a deletion has passed, whatever is left has been
  recorded as late, and the rows it has listed name the git Secrets of all the rest: every git Secret
  has a row, since the worker claims a row before it applies the Secret.
* `Telemetry`.  `TypeInv`: the points of a ring are of past ticks, one each at most, oldest first
  (`Growing`).  `SampleInv`: what a counter is ahead of a sound last sample, summed over the
  classes, is what was requested since.  `ProjectInv`: the same of a project's bookkeeping,
  summed over the shown classes of the services it holds; a request adds one to this sum
  exactly where `Counted` says so (`AheadRequest`).  `LongInv`: `LongPointsAreSums`, and the points
  that are still to be added up are in the ring, which is what `Ring >= 2 * LongTicks` is for.
* `SyntheticMonitor`.  `CauseInv`: an application that does not answer, or whose listed build has
  been replaced, is in `disturbed`; so is one whose last probe failed, unless the deadline passed.
  Its types need that every rank in `LiveAppTargets` is that of an application (`RankReached`).

Induction over data is out of the provers' reach as a rule of the library, but not as an argument:
`SumLemmas` takes a smallest set for which a sum is not what it should be (`WFMin` over
cardinalities) and refutes it; `RankReached` takes the least application of a rank.  All that `Telemetry_proofs` says of `SumFunction` (additive, natural,
zero outside the support) is derived that way from its definition.

The constants must be as each module's named assumption says: finite sets of installations
and repositories, so that projects can be counted, at least one pod, and so on.

*Only model-checked:* `PushLostOnlyByFault` (whose safety half is `PushDropped`),
`EveryDeploymentSettles`, `GoodHeadIsServed` and `OutageIsShown`, which rest on fairness;
`AliasHasBackend` and `LoginRepairsOwners`, which speak of one actor's order of writes under the
bounds of their runs; and the disagreements of `poison_row` and `lost_push`.  Fairness and ENABLED
are out of the prover's reach.


## 5. Not modelled, and the plan

*Not modelled.*  The rate limiter and the waitlist: each operation is one atomic step with one
comparison under a mutex or one `INSERT ... ON CONFLICT`; that fixed windows let up to twice the
limit pass around a boundary (`ratelimit.go:32`) needs no model.  The installation-token cache: a stale
token is a call that fails.  Sessions and the OAuth state: single rows by key; what a login does
to ownership is in `WebhookIntake`.  Gauges, latencies and quantiles of the charts, and the
snapshot cache.  The conflict of two `apply`s beyond its being a failing call.  Views, logs,
insights and HTML (no state), the query endpoint (a user's SQL), setup tools, manifests other
than rollout strategy and pull policy, migrations and host routing.

*Next.*  A weaker lifecycle that lets a requeued row be reopened, refined with overlapping pods.
