--------------------------- MODULE TenantResources ---------------------------
(***************************************************************************)
(* What a project owns outside its deployment rows: the isolation of its   *)
(* tenant's namespace, its workloads, its Secrets and its database.        *)
(*                                                                         *)
(* Four actors change these without a lock between them: the build worker, *)
(* which applies them; "Add database", which creates a role in Postgres    *)
(* and a Secret; "Stop" and "Start", which scale; and the deletion of the  *)
(* project, which removes what it can list.  Every line of theirs that     *)
(* talks to Kubernetes or to Postgres is a step of its own and may fail.   *)
(*                                                                         *)
(* All projects here have one tenant.  The commits are not on a production *)
(* branch (ProductionTraffic has the alias, the domains and the cleanup).  *)
(***************************************************************************)
EXTENDS Integers, FiniteSets, Sequences

CONSTANTS
    Handlers,      \* goroutines that serve the dashboard's requests
    Workers,       \* build workers, one in every control-plane pod
    Projects,      \* by slug
    Commits,
    SecretNames,
    DbSecret,      \* "paas-db-" + truncate(slug, 50), by project
    DoubleClick,   \* may "Add database" be pressed again before it answers?
    MaxClicks,     \* how many requests the user makes; uninstalling is one
    MaxEdits,      \* how often the variables of a project are changed
    MaxFaults,     \* how many calls to Kubernetes, Postgres or GitHub fail
    MaxCrashes,
    MayUninstall   \* may the user uninstall the GitHub App?

ASSUME ConstantsAssumption ==
    /\ IsFiniteSet(Handlers) /\ Projects # {} /\ Commits # {}
    /\ DbSecret \in [Projects -> SecretNames]
    /\ DoubleClick \in BOOLEAN /\ MayUninstall \in BOOLEAN
    /\ MaxClicks \in Nat /\ MaxEdits \in Nat
    /\ MaxFaults \in Nat /\ MaxCrashes \in Nat

Builds == Projects \X Commits

\* ensureTenant applies these in this order: "quotas" is the ResourceQuota and
\* the LimitRange, "policies" the four NetworkPolicies.
TenantObjects == <<"namespace", "quotas", "policies", "pull-secret">>
Isolation == {TenantObjects[i] : i \in DOMAIN TenantObjects}

VARIABLES
    \* the control plane's database
    projects,    \* projects; their rows in the other tables go with them
    linked,      \* projects whose installation is still there: TenantLogin
    row,         \* deployments, by project and commit
    env,         \* project_env_vars: how often they have been changed
    binding,     \* project_databases: the password recorded, 0 without a row
    \* the tenants' Postgres
    role,        \* the password a project's role has, 0 without a role
    database,    \* the databases that exist
    \* Kubernetes
    isolation,   \* which of TenantObjects exist
    app,         \* Deployments: "absent", "running" or, with 0 replicas, "stopped"
    bound,       \* those whose pods take DATABASE_URL from the Secret
    svc, route,  \* Services and IngressRoutes
    git, job,    \* of each build: its clone Secret, its Job
    envSecret,   \* the variables in paas-env-<slug>, -1 without the Secret
    dbSecret,    \* the password in a database Secret, 0 without it
    \* the actors
    wat, work, at, req,
    minted,      \* passwords generated
    clicks, faults, crashes,
    \* history
    condemned,   \* projects whose deletion has begun
    warned,      \* projects whose deletion answered with warnings
    late         \* <<kind, project>> applied during or after the deletion

tables   == <<projects, linked, row, env, binding>>
postgres == <<role, database>>
cluster  == <<isolation, app, bound, svc, route, git, job, envSecret, dbSecret>>
actors   == <<wat, work, at, req>>
bounds   == <<minted, clicks, faults, crashes>>
history  == <<condemned, warned, late>>
vars == <<tables, postgres, cluster, actors, bounds, history>>

-----------------------------------------------------------------------------
Statuses    == {"none", "queued", "building", "deploying", "ready", "failed"}
Kinds       == {"deployment", "service", "route", "git", "job", "env", "db"}
WorkerSteps == {"idle", "git", "job", "wait", "mark", "isolate", "binding", "env",
                "envSecret", "deployment", "service", "route", "ready", "fail"}
Steps == {"idle", "find", "checkRole", "role", "checkDatabase", "database",
          "lockDown", "isolate", "secret", "insert", "list", "scale",
          "deployments", "services", "routes", "secrets", "envSecret", "dbSecret",
          "jobs", "ids", "gits", "row"}
Passwords == 0..MaxClicks

\* n: how many of TenantObjects have been applied; bound: was a database found?
\* vars: the variables read, -1 when reading them failed.
Attempts == [build : Builds, n : 0..Len(TenantObjects), bound : BOOLEAN,
             vars : -1..MaxEdits]

\* fresh: is the password new?; exists: did the role, or database, exist?
\* names, ids: what was listed, of the project's Deployments and rows.
Requests == [via : {"database", "delete", "start", "stop"}, proj : Projects,
             pw : Passwords, fresh : BOOLEAN, exists : BOOLEAN,
             n : 0..Len(TenantObjects), names : SUBSET Commits, ids : SUBSET Commits,
             warned : BOOLEAN]

TypeOK ==
    /\ projects \subseteq Projects /\ linked \subseteq Projects
    /\ row \in [Builds -> Statuses]
    /\ \A b \in Builds : b[1] \notin projects => row[b] = "none"
    /\ env \in [Projects -> 0..MaxEdits]
    /\ binding \in [Projects -> Passwords]
    /\ \A p \in Projects \ projects : binding[p] = 0
    /\ role \in [Projects -> Passwords] /\ database \subseteq Projects
    /\ isolation \subseteq Isolation
    /\ app \in [Builds -> {"absent", "running", "stopped"}]
    /\ bound \subseteq Builds /\ svc \subseteq Builds /\ route \subseteq Builds
    /\ git \subseteq Builds
    /\ job \in [Builds -> {"none", "active", "succeeded", "failed"}]
    /\ envSecret \in [Projects -> -1..MaxEdits]
    /\ dbSecret \in [SecretNames -> Passwords]
    /\ wat \in [Workers -> WorkerSteps] /\ work \in [Workers -> Attempts]
    /\ at \in [Handlers -> Steps] /\ req \in [Handlers -> Requests]
    /\ minted \in Passwords
    /\ clicks \in 0..MaxClicks /\ faults \in 0..MaxFaults
    /\ crashes \in 0..MaxCrashes
    /\ condemned \subseteq Projects /\ warned \subseteq Projects
    /\ late \subseteq Kinds \X Projects

SomeProject == CHOOSE p \in Projects : TRUE
NoAttempt == [build |-> CHOOSE b \in Builds : TRUE, n |-> 0, bound |-> FALSE,
              vars |-> -1]
NoRequest == [via |-> "stop", proj |-> SomeProject, pw |-> 0, fresh |-> FALSE,
              exists |-> FALSE, n |-> 0, names |-> {}, ids |-> {}, warned |-> FALSE]

Init ==
    /\ projects = Projects /\ linked = Projects
    /\ row = [b \in Builds |-> "none"]
    /\ env = [p \in Projects |-> 0]
    /\ binding = [p \in Projects |-> 0] /\ role = [p \in Projects |-> 0]
    /\ database = {} /\ isolation = {}
    /\ app = [b \in Builds |-> "absent"]
    /\ bound = {} /\ svc = {} /\ route = {} /\ git = {}
    /\ job = [b \in Builds |-> "none"]
    /\ envSecret = [p \in Projects |-> -1]
    /\ dbSecret = [s \in SecretNames |-> 0]
    /\ wat = [w \in Workers |-> "idle"] /\ work = [w \in Workers |-> NoAttempt]
    /\ at = [h \in Handlers |-> "idle"] /\ req = [h \in Handlers |-> NoRequest]
    /\ minted = 0 /\ clicks = MaxClicks /\ faults = MaxFaults /\ crashes = MaxCrashes
    /\ condemned = {} /\ warned = {} /\ late = {}

-----------------------------------------------------------------------------
Of(p) == {b \in Builds : b[1] = p}
Deleting(p) == \E h \in Handlers : at[h] # "idle" /\ req[h].via = "delete"
                                    /\ req[h].proj = p
Linked(p) == p \in projects /\ p \in linked

\* An object of this kind is applied for the project.
Applied(kind, p) ==
    late' = IF Deleting(p) \/ p \notin projects THEN late \cup {<<kind, p>>} ELSE late

Fault == faults > 0 /\ faults' = faults - 1

-----------------------------------------------------------------------------
(***************************************************************************)
(* The build worker, from the claim of a row to MarkReady.                 *)
(***************************************************************************)
WGo(w, step) == wat' = [wat EXCEPT ![w] = step]
B(w) == work[w].build
P(w) == work[w].build[1]

Push(b) ==
    /\ b[1] \in projects /\ row[b] = "none"
    /\ row' = [row EXCEPT ![b] = "queued"]
    /\ UNCHANGED <<projects, linked, env, binding, postgres, cluster, actors, bounds,
                   history>>

\* The claim reads the installation's login; without one its scan fails.
Claim(w, b) ==
    /\ wat[w] = "idle"
    /\ row[b] = "queued" /\ b[1] \in linked
    /\ row' = [row EXCEPT ![b] = "building"]
    /\ WGo(w, "git")
    /\ work' = [work EXCEPT ![w] = [NoAttempt EXCEPT !.build = b]]
    /\ UNCHANGED <<projects, linked, env, binding, postgres, cluster, at, req, bounds,
                   history>>

ApplyGitSecret(w) ==
    /\ wat[w] = "git"
    /\ git' = git \cup {B(w)}
    /\ Applied("git", P(w))
    /\ WGo(w, "job")
    /\ UNCHANGED <<tables, postgres, isolation, app, bound, svc, route, job, envSecret,
                   dbSecret, work, at, req, bounds, condemned,
                   warned>>

\* A failed Job is replaced, any other is attached to.
EnsureBuildJob(w) ==
    /\ wat[w] = "job"
    /\ IF job[B(w)] \in {"none", "failed"}
       THEN job' = [job EXCEPT ![B(w)] = "active"] /\ Applied("job", P(w))
       ELSE UNCHANGED <<job, late>>
    /\ WGo(w, "wait")
    /\ UNCHANGED <<tables, postgres, isolation, app, bound, svc, route, git, envSecret,
                   dbSecret, work, at, req, bounds, condemned,
                   warned>>

JobEnds(b) ==
    /\ job[b] = "active"
    /\ \E end \in {"succeeded", "failed"} : job' = [job EXCEPT ![b] = end]
    /\ UNCHANGED <<tables, postgres, isolation, app, bound, svc, route, git, envSecret,
                   dbSecret, actors, bounds, history>>

\* A Job that is gone, or was never seen, fails the attempt.
WaitForJob(w) ==
    /\ wat[w] = "wait"
    /\ job[B(w)] # "active"
    /\ WGo(w, IF job[B(w)] = "succeeded" THEN "mark" ELSE "fail")
    /\ UNCHANGED <<tables, postgres, cluster, work, at, req, bounds, history>>

SetRow_Upsert(b, status) == row' = [row EXCEPT ![b] = status]

\* An UPDATE of a row that was deleted changes nothing and is no error.
SetRow(b, status) ==
    row' = IF row[b] = "none" THEN row ELSE [row EXCEPT ![b] = status]

MarkDeploying(w) ==
    /\ wat[w] = "mark"
    /\ SetRow(B(w), "deploying")
    /\ WGo(w, "isolate")
    /\ UNCHANGED <<projects, linked, env, binding, postgres, cluster, work, at, req,
                   bounds, history>>

Isolated_NamespaceOnly(n) == n > 0 /\ "namespace" \in isolation

\* ensureTenant has applied all that belongs to the namespace.
Isolated(n) == n = Len(TenantObjects)

EnsureTenant(n) == isolation' = isolation \cup {TenantObjects[n + 1]}

WorkerIsolates(w) ==
    /\ wat[w] = "isolate"
    /\ IF Isolated(work[w].n)
       THEN WGo(w, "binding") /\ UNCHANGED <<isolation, work>>
       ELSE /\ EnsureTenant(work[w].n)
            /\ work' = [work EXCEPT ![w].n = @ + 1]
            /\ UNCHANGED wat
    /\ UNCHANGED <<tables, postgres, app, bound, svc, route, git, job, envSecret,
                   dbSecret, at, req, bounds, history>>

HasDatabase_Role(p) == role[p] # 0

HasDatabase(p) == binding[p] # 0

\* A failing lookup is logged: the deployment goes on without a database.
ReadBinding(w) ==
    /\ wat[w] = "binding"
    /\ \/ /\ work' = [work EXCEPT ![w].bound = HasDatabase(P(w))]
          /\ UNCHANGED faults
       \/ /\ Fault
          /\ UNCHANGED work
    /\ WGo(w, "env")
    /\ UNCHANGED <<tables, postgres, cluster, at, req, minted, clicks, crashes,
                   history>>

FailedVars_Empty == 0

\* envMap = nil
FailedVars == -1

\* MapProjectEnv: a project that is gone has no variables.
VarsOf(p) == IF p \in projects THEN env[p] ELSE 0

ReadEnv(w) ==
    /\ wat[w] = "env"
    /\ \/ /\ work' = [work EXCEPT ![w].vars = VarsOf(P(w))]
          /\ UNCHANGED faults
       \/ /\ Fault
          /\ work' = [work EXCEPT ![w].vars = FailedVars]
    /\ WGo(w, "envSecret")
    /\ UNCHANGED <<tables, postgres, cluster, at, req, minted, clicks, crashes,
                   history>>

\* Without the variables the Secret of the last deployment stays.
ApplyEnvSecret(w) ==
    /\ wat[w] = "envSecret"
    /\ IF work[w].vars = -1
       THEN UNCHANGED <<envSecret, late>>
       ELSE /\ envSecret' = [envSecret EXCEPT ![P(w)] = work[w].vars]
            /\ Applied("env", P(w))
    /\ WGo(w, "deployment")
    /\ UNCHANGED <<tables, postgres, isolation, app, bound, svc, route, git, job,
                   dbSecret, work, at, req, bounds, condemned,
                   warned>>

\* The manifest says replicas: 1, whatever the Deployment had.
ApplyDeployment(w) ==
    /\ wat[w] = "deployment"
    /\ app' = [app EXCEPT ![B(w)] = "running"]
    /\ bound' = IF work[w].bound THEN bound \cup {B(w)} ELSE bound \ {B(w)}
    /\ Applied("deployment", P(w))
    /\ WGo(w, "service")
    /\ UNCHANGED <<tables, postgres, isolation, svc, route, git, job, envSecret,
                   dbSecret, work, at, req, bounds, condemned,
                   warned>>

ApplyService(w) ==
    /\ wat[w] = "service"
    /\ svc' = svc \cup {B(w)}
    /\ Applied("service", P(w))
    /\ WGo(w, "route")
    /\ UNCHANGED <<tables, postgres, isolation, app, bound, route, git, job, envSecret,
                   dbSecret, work, at, req, bounds, condemned,
                   warned>>

ApplyIngressRoute(w) ==
    /\ wat[w] = "route"
    /\ route' = route \cup {B(w)}
    /\ Applied("route", P(w))
    /\ WGo(w, "ready")
    /\ UNCHANGED <<tables, postgres, isolation, app, bound, svc, git, job, envSecret,
                   dbSecret, work, at, req, bounds, condemned,
                   warned>>

\* What is left of the attempt is forgotten.
WorkerDone(w) ==
    /\ WGo(w, "idle")
    /\ work' = [work EXCEPT ![w] = NoAttempt]

MarkReady(w) ==
    /\ wat[w] = "ready"
    /\ SetRow(B(w), "ready")
    /\ WorkerDone(w)
    /\ UNCHANGED <<projects, linked, env, binding, postgres, cluster, at, req, bounds,
                   history>>

\* MarkFailedIfInFlight; its own failure is logged and the row stays.
MarkFailed(w) ==
    /\ wat[w] = "fail"
    /\ \/ /\ row' = IF row[B(w)] \in {"building", "deploying"}
                    THEN [row EXCEPT ![B(w)] = "failed"] ELSE row
          /\ UNCHANGED faults
       \/ /\ Fault
          /\ UNCHANGED row
    /\ WorkerDone(w)
    /\ UNCHANGED <<projects, linked, env, binding, postgres, cluster, at, req, minted,
                   clicks, crashes, history>>

\* Any other call of the attempt fails, or the build's timeout cuts it.
AttemptFails(w) ==
    /\ wat[w] \notin {"idle", "binding", "env", "fail"}
    /\ Fault
    /\ WGo(w, "fail")
    /\ UNCHANGED <<tables, postgres, cluster, work, at, req, minted, clicks, crashes,
                   history>>

WorkerStep(w) ==
    \/ \E b \in Builds : Claim(w, b)
    \/ ApplyGitSecret(w) \/ EnsureBuildJob(w) \/ WaitForJob(w) \/ MarkDeploying(w)
    \/ WorkerIsolates(w) \/ ReadBinding(w) \/ ReadEnv(w) \/ ApplyEnvSecret(w)
    \/ ApplyDeployment(w) \/ ApplyService(w) \/ ApplyIngressRoute(w) \/ MarkReady(w)
    \/ MarkFailed(w) \/ AttemptFails(w)

-----------------------------------------------------------------------------
(***************************************************************************)
(* Requests of the dashboard.  Each is authorised first; one for a project *)
(* that is gone is answered 404.                                           *)
(***************************************************************************)
GoTo(h, step) == at' = [at EXCEPT ![h] = step]
Set(h, r) == req' = [req EXCEPT ![h] = r]
Return(h) == GoTo(h, "idle") /\ Set(h, NoRequest)
R(h) == req[h].proj
OfDb(p) == DbSecret[p]

Request(h, via, p, step) ==
    /\ at[h] = "idle" /\ clicks > 0 /\ p \in projects
    /\ clicks' = clicks - 1
    /\ GoTo(h, step)
    /\ Set(h, [NoRequest EXCEPT !.via = via, !.proj = p])

\* The env handlers are one statement after the authorisation; the foreign
\* key refuses a project deleted in between.
EditEnv(p) ==
    /\ p \in projects /\ env[p] < MaxEdits
    /\ env' = [env EXCEPT ![p] = @ + 1]
    /\ UNCHANGED <<projects, linked, row, binding, postgres, cluster, actors, bounds,
                   history>>

\* handleCreateProjectDatabase
CreateDatabase(h, p) ==
    /\ DoubleClick \/ \A i \in Handlers : at[i] # "idle" => req[i].via # "database"
    /\ Linked(p)
    /\ Request(h, "database", p, "find")
    /\ UNCHANGED <<tables, postgres, cluster, wat, work, minted, faults, crashes,
                   history>>

\* GetProjectDatabaseForOwner; without a row a password is made.
FindDatabase(h) ==
    LET found == binding[R(h)] IN
    /\ at[h] = "find"
    /\ IF found # 0
       THEN /\ Set(h, [req[h] EXCEPT !.pw = found])
            /\ GoTo(h, "isolate")
            /\ UNCHANGED minted
       ELSE /\ Set(h, [req[h] EXCEPT !.pw = minted + 1, !.fresh = TRUE])
            /\ minted' = minted + 1
            /\ GoTo(h, "checkRole")
    /\ UNCHANGED <<tables, postgres, cluster, wat, work, clicks, faults, crashes,
                   history>>

CheckRole(h) ==
    /\ at[h] = "checkRole"
    /\ Set(h, [req[h] EXCEPT !.exists = role[R(h)] # 0])
    /\ GoTo(h, "role")
    /\ UNCHANGED <<tables, postgres, cluster, wat, work, bounds, history>>

RoleDDL_KeepPassword(h) ==
    role' = IF req[h].exists THEN role ELSE [role EXCEPT ![R(h)] = req[h].pw]

\* CREATE ROLE ... PASSWORD, or ALTER ROLE ... PASSWORD for a role that exists.
RoleDDL(h) == role' = [role EXCEPT ![R(h)] = req[h].pw]

\* CREATE fails if the role appeared since the check.
ProvisionRole(h) ==
    /\ at[h] = "role"
    /\ IF ~req[h].exists /\ role[R(h)] # 0
       THEN Return(h) /\ UNCHANGED role
       ELSE RoleDDL(h) /\ GoTo(h, "checkDatabase") /\ UNCHANGED req
    /\ UNCHANGED <<tables, database, cluster, wat, work, bounds, history>>

CheckDatabase(h) ==
    /\ at[h] = "checkDatabase"
    /\ Set(h, [req[h] EXCEPT !.exists = R(h) \in database])
    /\ GoTo(h, "database")
    /\ UNCHANGED <<tables, postgres, cluster, wat, work, bounds, history>>

ProvisionDatabase(h) ==
    /\ at[h] = "database"
    /\ IF ~req[h].exists /\ R(h) \in database
       THEN Return(h) /\ UNCHANGED database
       ELSE database' = database \cup {R(h)} /\ GoTo(h, "lockDown") /\ UNCHANGED req
    /\ UNCHANGED <<tables, role, cluster, wat, work, bounds, history>>

\* REVOKE and GRANT, which nothing here depends on.
LockDown(h) ==
    /\ at[h] = "lockDown"
    /\ GoTo(h, "isolate")
    /\ UNCHANGED <<tables, postgres, cluster, wat, work, req, bounds, history>>

RequestIsolates(h) ==
    /\ at[h] = "isolate"
    /\ IF Isolated(req[h].n)
       THEN GoTo(h, "secret") /\ UNCHANGED <<isolation, req>>
       ELSE /\ EnsureTenant(req[h].n)
            /\ Set(h, [req[h] EXCEPT !.n = @ + 1])
            /\ UNCHANGED at
    /\ UNCHANGED <<tables, postgres, app, bound, svc, route, git, job, envSecret,
                   dbSecret, wat, work, bounds, history>>

\* For a database that was there this ends the request.
ApplyDbSecret(h) ==
    /\ at[h] = "secret"
    /\ dbSecret' = [dbSecret EXCEPT ![OfDb(R(h))] = req[h].pw]
    /\ Applied("db", R(h))
    /\ IF req[h].fresh THEN GoTo(h, "insert") /\ UNCHANGED req ELSE Return(h)
    /\ UNCHANGED <<tables, postgres, isolation, app, bound, svc, route, git, job,
                   envSecret, wat, work, bounds, condemned,
                   warned>>

\* CreateProjectDatabase: project_id is unique and refers to the project.
InsertBinding(h) ==
    /\ at[h] = "insert"
    /\ binding' = IF binding[R(h)] = 0 /\ R(h) \in projects
                  THEN [binding EXCEPT ![R(h)] = req[h].pw] ELSE binding
    /\ Return(h)
    /\ UNCHANGED <<projects, linked, row, env, postgres, cluster, wat, work, bounds,
                   history>>

\* handleProjectScale, for a project with a tenant.
Scale(h, via, p) ==
    /\ Linked(p)
    /\ Request(h, via, p, "list")
    /\ UNCHANGED <<tables, postgres, cluster, wat, work, minted, faults, crashes,
                   history>>

ListDeployments(h) ==
    LET names == {c \in Commits : app[<<R(h), c>>] # "absent"} IN
    /\ at[h] = "list"
    /\ IF names = {}
       THEN Return(h)
       ELSE Set(h, [req[h] EXCEPT !.names = names]) /\ GoTo(h, "scale")
    /\ UNCHANGED <<tables, postgres, cluster, wat, work, bounds, history>>

\* The PUTs run in parallel, and one that fails does not stop the others.
FanoutScale(h, c) ==
    LET b == <<R(h), c>> IN
    /\ at[h] = "scale" /\ c \in req[h].names
    /\ \/ /\ app' = IF app[b] = "absent" THEN app
                    ELSE [app EXCEPT ![b] = IF req[h].via = "stop" THEN "stopped"
                                            ELSE "running"]
          /\ UNCHANGED faults
       \/ /\ Fault
          /\ UNCHANGED app
    /\ IF req[h].names = {c} THEN Return(h)
       ELSE Set(h, [req[h] EXCEPT !.names = @ \ {c}]) /\ UNCHANGED at
    /\ UNCHANGED <<tables, postgres, isolation, bound, svc, route, git, job, envSecret,
                   dbSecret, wat, work, minted, clicks, crashes, history>>

-----------------------------------------------------------------------------
(***************************************************************************)
(* handleDeleteProject tears down what it can list, turns every failure    *)
(* into a warning, and deletes the row last.                               *)
(***************************************************************************)
DeleteProject(h, p) ==
    /\ Request(h, "delete", p, IF p \in linked THEN "deployments" ELSE "jobs")
    /\ condemned' = condemned \cup {p}
    /\ UNCHANGED <<tables, postgres, cluster, wat, work, minted, faults, crashes,
                   warned, late>>

\* deleteAllByLabel stops at the first object it cannot delete.
Swept(objects, p, h, next) ==
    \/ /\ objects' = objects \ Of(p)
       /\ Set(h, req[h])
       /\ GoTo(h, next)
       /\ UNCHANGED faults
    \/ /\ Fault
       /\ \E gone \in SUBSET (objects \cap Of(p)) :
             gone # objects \cap Of(p) /\ objects' = objects \ gone
       /\ Set(h, [req[h] EXCEPT !.warned = TRUE])
       /\ GoTo(h, next)

DeleteDeployments(h) ==
    /\ at[h] = "deployments"
    /\ \E kept \in SUBSET {b \in Of(R(h)) : app[b] # "absent"} :
          /\ app' = [b \in Builds |-> IF b \in Of(R(h)) \ kept THEN "absent" ELSE app[b]]
          /\ bound' = {b \in bound : app'[b] # "absent"}
          /\ IF kept = {} THEN UNCHANGED <<req, faults>>
             ELSE Fault /\ Set(h, [req[h] EXCEPT !.warned = TRUE])
    /\ GoTo(h, "services")
    /\ UNCHANGED <<tables, postgres, isolation, svc, route, git, job, envSecret,
                   dbSecret, wat, work, minted, clicks, crashes, history>>

DeleteServices(h) ==
    /\ at[h] = "services"
    /\ Swept(svc, R(h), h, "routes")
    /\ UNCHANGED <<tables, postgres, isolation, app, bound, route, git, job, envSecret,
                   dbSecret, wat, work, minted, clicks, crashes, history>>

DeleteRoutes(h) ==
    /\ at[h] = "routes"
    /\ Swept(route, R(h), h, "secrets")
    /\ UNCHANGED <<tables, postgres, isolation, app, bound, svc, git, job, envSecret,
                   dbSecret, wat, work, minted, clicks, crashes, history>>

\* The variables' Secret has the project's label and is deleted again by name.
DeleteEnvSecret(h) ==
    /\ at[h] \in {"secrets", "envSecret"}
    /\ \/ /\ envSecret' = [envSecret EXCEPT ![R(h)] = -1]
          /\ UNCHANGED <<req, faults>>
       \/ /\ Fault
          /\ Set(h, [req[h] EXCEPT !.warned = TRUE])
          /\ UNCHANGED envSecret
    /\ GoTo(h, IF at[h] = "secrets" THEN "envSecret" ELSE "dbSecret")
    /\ UNCHANGED <<tables, postgres, isolation, app, bound, svc, route, git, job,
                   dbSecret, wat, work, minted, clicks, crashes, history>>

DeleteDbSecret(h) ==
    /\ at[h] = "dbSecret"
    /\ \/ /\ dbSecret' = [dbSecret EXCEPT ![OfDb(R(h))] = 0]
          /\ UNCHANGED <<req, faults>>
       \/ /\ Fault
          /\ Set(h, [req[h] EXCEPT !.warned = TRUE])
          /\ UNCHANGED dbSecret
    /\ GoTo(h, "jobs")
    /\ UNCHANGED <<tables, postgres, isolation, app, bound, svc, route, git, job,
                   envSecret, wat, work, minted, clicks, crashes, history>>

DeleteJobs(h) ==
    /\ at[h] = "jobs"
    /\ \E kept \in SUBSET {b \in Of(R(h)) : job[b] # "none"} :
          /\ job' = [b \in Builds |-> IF b \in Of(R(h)) \ kept THEN "none" ELSE job[b]]
          /\ IF kept = {} THEN UNCHANGED <<req, faults>>
             ELSE Fault /\ Set(h, [req[h] EXCEPT !.warned = TRUE])
    /\ GoTo(h, "ids")
    /\ UNCHANGED <<tables, postgres, isolation, app, bound, svc, route, git, envSecret,
                   dbSecret, wat, work, minted, clicks, crashes, history>>

Listed_InFlight(p) ==
    {c \in Commits : row[<<p, c>>] \in {"queued", "building", "deploying"}}

Listed(p) == {c \in Commits : row[<<p, c>>] # "none"}

\* The clone Secrets have no label of the project: they are found by its rows.
ListDeploymentIDs(h) ==
    /\ at[h] = "ids"
    /\ \/ /\ Set(h, [req[h] EXCEPT !.ids = Listed(R(h))])
          /\ GoTo(h, "gits")
          /\ UNCHANGED faults
       \/ /\ Fault
          /\ Set(h, [req[h] EXCEPT !.warned = TRUE])
          /\ GoTo(h, "row")
    /\ UNCHANGED <<tables, postgres, cluster, wat, work, minted, clicks, crashes,
                   history>>

DeleteGitSecrets(h) ==
    LET mine == git \cap ({R(h)} \X req[h].ids) IN
    /\ at[h] = "gits"
    /\ \E kept \in SUBSET mine :
          /\ git' = (git \ mine) \cup kept
          /\ IF kept = {} THEN UNCHANGED <<req, faults>>
             ELSE Fault /\ Set(h, [req[h] EXCEPT !.warned = TRUE])
    /\ GoTo(h, "row")
    /\ UNCHANGED <<tables, postgres, isolation, app, bound, svc, route, job, envSecret,
                   dbSecret, wat, work, minted, clicks, crashes, history>>

\* Deployments, variables and the database's row go with the project.
DeleteRow(h) ==
    /\ at[h] = "row"
    /\ projects' = projects \ {R(h)}
    /\ row' = [b \in Builds |-> IF b \in Of(R(h)) THEN "none" ELSE row[b]]
    /\ env' = [env EXCEPT ![R(h)] = 0]
    /\ binding' = [binding EXCEPT ![R(h)] = 0]
    /\ warned' = IF req[h].warned THEN warned \cup {R(h)} ELSE warned
    /\ Return(h)
    /\ UNCHANGED <<linked, postgres, cluster, wat, work, bounds, condemned, late>>

-----------------------------------------------------------------------------
\* Everything else that fails is answered 500 and stops there.
RequestFails(h) ==
    /\ at[h] \in {"find", "checkRole", "role", "checkDatabase", "database", "lockDown",
                  "isolate", "secret", "insert", "list", "row"}
    /\ Fault
    /\ Return(h)
    /\ UNCHANGED <<tables, postgres, cluster, wat, work, minted, clicks, crashes,
                   history>>

RequestStep(h) ==
    \/ FindDatabase(h) \/ CheckRole(h) \/ ProvisionRole(h) \/ CheckDatabase(h)
    \/ ProvisionDatabase(h) \/ LockDown(h) \/ RequestIsolates(h) \/ ApplyDbSecret(h)
    \/ InsertBinding(h) \/ ListDeployments(h)
    \/ \E c \in Commits : FanoutScale(h, c)
    \/ DeleteDeployments(h) \/ DeleteServices(h) \/ DeleteRoutes(h)
    \/ DeleteEnvSecret(h) \/ DeleteDbSecret(h) \/ DeleteJobs(h)
    \/ ListDeploymentIDs(h) \/ DeleteGitSecrets(h) \/ DeleteRow(h) \/ RequestFails(h)

\* GitHub reports that the App was uninstalled: DeleteInstallation.
Uninstall ==
    /\ MayUninstall /\ linked # {} /\ clicks > 0
    /\ clicks' = clicks - 1
    /\ linked' = {}
    /\ UNCHANGED <<projects, row, env, binding, postgres, cluster, actors, minted,
                   faults, crashes, history>>

\* The process dies with what it was doing.  The next one requeues at boot
\* what is in flight.
Crash ==
    /\ crashes > 0
    /\ crashes' = crashes - 1
    /\ wat' = [w \in Workers |-> "idle"] /\ work' = [w \in Workers |-> NoAttempt]
    /\ at' = [h \in Handlers |-> "idle"] /\ req' = [h \in Handlers |-> NoRequest]
    /\ row' = [b \in Builds |-> IF row[b] \in {"building", "deploying"}
                                THEN "queued" ELSE row[b]]
    /\ UNCHANGED <<projects, linked, env, binding, postgres, cluster, minted, clicks,
                   faults, history>>

Next ==
    \/ \E b \in Builds : Push(b) \/ JobEnds(b)
    \/ \E w \in Workers : WorkerStep(w)
    \/ \E p \in Projects : EditEnv(p)
    \/ \E h \in Handlers, p \in Projects :
          CreateDatabase(h, p) \/ DeleteProject(h, p)
          \/ Scale(h, "stop", p) \/ Scale(h, "start", p)
    \/ \E h \in Handlers : RequestStep(h)
    \/ Uninstall \/ Crash

Spec == Init /\ [][Next]_vars

-----------------------------------------------------------------------------
(***************************************************************************)
(* Properties.                                                             *)
(***************************************************************************)

\* No workload and no Secret of a tenant is applied before everything that
\* isolates its namespace: "without isolation we must not deploy".
IsolatedBeforeUse ==
    (\E b \in Builds : app[b] # "absent")
        \/ (\E p \in Projects : envSecret[p] # -1)
        \/ (\E s \in SecretNames : dbSecret[s] # 0)
      => isolation = Isolation

\* The row of a database is written last, so it names a database that exists
\* and the password its role has; no later request changes that password.
BindingAuthenticates ==
    \A p \in Projects : binding[p] # 0 => p \in database /\ role[p] = binding[p]

\* Pods that take DATABASE_URL from a Secret find in it the password of
\* their own project's role, until a deletion of the project begins.
BoundPodsConnect ==
    \A b \in bound : b[1] \notin condemned => dbSecret[OfDb(b[1])] = role[b[1]]

Left(p) ==
    (IF \E b \in Of(p) : app[b] # "absent" THEN {"deployment"} ELSE {})
      \cup (IF Of(p) \cap svc # {} THEN {"service"} ELSE {})
      \cup (IF Of(p) \cap route # {} THEN {"route"} ELSE {})
      \cup (IF Of(p) \cap git # {} THEN {"git"} ELSE {})
      \cup (IF \E b \in Of(p) : job[b] # "none" THEN {"job"} ELSE {})
      \cup (IF envSecret[p] # -1 THEN {"env"} ELSE {})
      \cup (IF dbSecret[OfDb(p)] # 0 THEN {"db"} ELSE {})

LeftByDeletion(p) == {k \in Left(p) : <<k, p>> \notin late}

\* A deletion without warnings, while the App is installed, leaves only what
\* a build or a database request applied during or after it.
DeletionIsComplete ==
    \A p \in Projects : p \notin projects /\ p \in linked /\ p \notin warned
                          => LeftByDeletion(p) = {}

\* "Permanently delete this app from Spinup. Deployments, domains, and env
\* vars are removed": also once the App is uninstalled.
DeletedIsRemoved ==
    \A p \in Projects : p \notin projects /\ p \notin warned => LeftByDeletion(p) = {}

\* While a project exists its Secret never goes back to older variables,
\* whichever lookups, attempts and processes fail in between.
EnvNeverRollsBack ==
    [][\A p \in projects : envSecret[p] # -1 /\ envSecret'[p] # -1
                             => envSecret[p] <= envSecret'[p]]_vars

\* What is stopped stays so until it is started: neither a restart of the
\* control plane nor anything else but Start brings a Deployment back.
StoppedUntilStarted ==
    [][\A b \in Builds : app[b] = "stopped" /\ app'[b] = "running"
         => \E h \in Handlers : at[h] = "scale" /\ req[h].via = "start"
                                  /\ R(h) = b[1] /\ b[2] \in req[h].names]_vars
=============================================================================
