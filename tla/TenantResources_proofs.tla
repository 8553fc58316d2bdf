------------------------ MODULE TenantResources_proofs ------------------------
(***************************************************************************)
(* Theorems about TenantResources, for any number of requests, workers,    *)
(* projects, commits, edits and faults.                                    *)
(***************************************************************************)
EXTENDS TenantResources, FiniteSetTheorems, TLAPS

\* The steps of each handler, and those that only a new database takes.
CreateSteps == {"find", "checkRole", "role", "checkDatabase", "database", "lockDown",
                "isolate", "secret", "insert"}
NewSteps    == {"checkRole", "role", "checkDatabase", "database", "lockDown", "insert"}
ScaleSteps  == {"list", "scale"}
DeleteSteps == {"deployments", "services", "routes", "secrets", "envSecret",
                "dbSecret", "jobs", "ids", "gits", "row"}

\* What the place of a request tells about it.
Local(step, r) ==
    /\ step \in Steps
    /\ r \in Requests
    /\ step \in CreateSteps => r.via = "database"
    /\ step \in ScaleSteps  => r.via \in {"start", "stop"}
    /\ step \in DeleteSteps => r.via = "delete"
    /\ step \in NewSteps => r.fresh
    /\ r.fresh => r.pw # 0

PlaceInv == \A h \in Handlers : Local(at[h], req[h])

\* Every password has its click, and so has every request that may mint one.
Finding == {h \in Handlers : at[h] = "find"}
Counted == clicks + minted + Cardinality(Finding) <= MaxClicks

TypeInv == TypeOK /\ PlaceInv /\ Counted

-----------------------------------------------------------------------------
\* There is a project and a build for the locals of an idle actor to name.
LEMMA IdleTypes ==
    /\ NoRequest \in Requests /\ ~NoRequest.fresh /\ NoRequest.n = 0
    /\ NoAttempt \in Attempts /\ NoAttempt.n = 0 /\ ~NoAttempt.bound
    /\ NoAttempt.vars = -1
<1>1. SomeProject \in Projects
  BY ConstantsAssumption, Zenon DEF SomeProject
<1>2. (CHOOSE b \in Builds : TRUE) \in Builds
  <2>1. PICK p \in Projects, c \in Commits : TRUE
    BY ConstantsAssumption
  <2>2. <<p, c>> \in Builds
    BY DEF Builds
  <2> QED
    BY <2>2, Zenon
<1>3. 0 \in Passwords /\ 0 \in 0..Len(TenantObjects) /\ -1 \in -1..MaxEdits
  BY ConstantsAssumption DEF Passwords, TenantObjects
<1>4. NoRequest \in Requests /\ ~NoRequest.fresh /\ NoRequest.n = 0
  BY <1>1, <1>3 DEF NoRequest, Requests
<1> QED
  BY <1>2, <1>3, <1>4 DEF NoAttempt, Attempts

\* The requests that look for a database can be counted.
LEMMA FindingFinite ==
    /\ IsFiniteSet(Finding) /\ Cardinality(Finding) \in Nat
    /\ \A h \in Finding : Cardinality(Finding) >= 1
<1>1. IsFiniteSet(Finding)
  BY ConstantsAssumption, FS_Subset DEF Finding
<1>2. Cardinality(Finding) \in Nat
  BY <1>1, FS_CardinalityType
<1>3. ASSUME NEW h \in Finding PROVE Cardinality(Finding) >= 1
  BY <1>1, <1>2, <1>3, FS_EmptySet
<1> QED
  BY <1>1, <1>2, <1>3

\* What all the variables but "at" and "req" are.
TablesInv ==
    /\ projects \subseteq Projects /\ linked \subseteq Projects
    /\ row \in [Builds -> Statuses]
    /\ \A b \in Builds : b[1] \notin projects => row[b] = "none"
    /\ env \in [Projects -> 0..MaxEdits]
    /\ binding \in [Projects -> Passwords]
    /\ \A p \in Projects \ projects : binding[p] = 0
    /\ role \in [Projects -> Passwords] /\ database \subseteq Projects
    /\ isolation \subseteq Isolation
    /\ app \in [Builds -> {"absent", "running", "stopped"}]
    /\ bound \subseteq Builds /\ svc \subseteq Builds /\ route \subseteq Builds
    /\ git \subseteq Builds
    /\ job \in [Builds -> {"none", "active", "succeeded", "failed"}]
    /\ envSecret \in [Projects -> -1..MaxEdits]
    /\ dbSecret \in [SecretNames -> Passwords]
    /\ wat \in [Workers -> WorkerSteps] /\ work \in [Workers -> Attempts]
    /\ minted \in Passwords
    /\ clicks \in 0..MaxClicks /\ faults \in 0..MaxFaults
    /\ crashes \in 0..MaxCrashes
    /\ condemned \subseteq Projects /\ warned \subseteq Projects
    /\ late \subseteq Kinds \X Projects

\* A request goes to a place, with locals that fit it; it takes a click to
\* start looking for a database, and a password ends it.
Moves(h) ==
    \E step, r :
        /\ Local(step, r)
        /\ GoTo(h, step) /\ Set(h, r)
        /\ \/ step # "find" /\ minted' = minted /\ clicks' <= clicks
           \/ step = "find" /\ minted' = minted /\ clicks' <= clicks - 1
           \/ step # "find" /\ at[h] = "find" /\ minted' <= minted + 1
                /\ clicks' <= clicks

\* A step of one request changes its own place and locals only.
LEMMA OneRequestMoves ==
    ASSUME TypeInv, NEW h \in Handlers, Moves(h), TablesInv'
    PROVE  TypeInv'
<1>1. PICK step, r :
        /\ Local(step, r)
        /\ GoTo(h, step) /\ Set(h, r)
        /\ \/ step # "find" /\ minted' = minted /\ clicks' <= clicks
           \/ step = "find" /\ minted' = minted /\ clicks' <= clicks - 1
           \/ step # "find" /\ at[h] = "find" /\ minted' <= minted + 1
                /\ clicks' <= clicks
  BY DEF Moves
<1>2. step \in Steps /\ r \in Requests
  BY <1>1 DEF Local
<1>3. /\ at' \in [Handlers -> Steps] /\ req' \in [Handlers -> Requests]
      /\ at'[h] = step /\ req'[h] = r
      /\ \A i \in Handlers \ {h} : at'[i] = at[i] /\ req'[i] = req[i]
  BY <1>1, <1>2 DEF TypeInv, TypeOK, GoTo, Set
<1>4. TypeOK'
  BY <1>3 DEF TypeOK, TablesInv
<1>5. PlaceInv'
  BY <1>1, <1>3 DEF TypeInv, PlaceInv
<1>6. Counted'
  <2>1. IsFiniteSet(Finding) /\ Cardinality(Finding) \in Nat
    BY FindingFinite
  <2>2. /\ clicks \in Nat /\ minted \in Nat /\ clicks' \in Nat /\ minted' \in Nat
        /\ MaxClicks \in Nat
        /\ clicks + minted + Cardinality(Finding) <= MaxClicks
    BY ConstantsAssumption DEF TypeInv, TypeOK, TablesInv, Counted, Passwords
  <2>3. CASE step # "find" /\ at[h] = "find"
    <3>1. Finding' = Finding \ {h} /\ h \in Finding
      BY <1>3, <2>3 DEF Finding
    <3>2. Cardinality(Finding') = Cardinality(Finding) - 1
      BY <3>1, <2>1, FS_RemoveElement
    <3>3. clicks' <= clicks /\ minted' <= minted + 1
      BY <1>1, <2>2, <2>3
    <3> QED
      BY <3>2, <3>3, <2>1, <2>2 DEF Counted
  <2>4. CASE step # "find" /\ at[h] # "find"
    <3>1. Finding' = Finding
      BY <1>3, <2>4 DEF Finding
    <3>2. clicks' <= clicks /\ minted' = minted
      BY <1>1, <2>4
    <3> QED
      BY <3>1, <3>2, <2>1, <2>2 DEF Counted
  <2>5. CASE step = "find"
    <3>1. Finding' = Finding \cup {h}
      BY <1>3, <2>5 DEF Finding
    <3>2. Cardinality(Finding') <= Cardinality(Finding) + 1
      BY <3>1, <2>1, FS_AddElement
    <3>3. clicks' <= clicks - 1 /\ minted' = minted
      BY <1>1, <2>5
    <3>4. Cardinality(Finding') \in Nat
      BY <3>1, <2>1, FS_AddElement
    <3> QED
      BY <3>2, <3>3, <3>4, <2>1, <2>2 DEF Counted
  <2> QED
    BY <2>3, <2>4, <2>5
<1> QED
  BY <1>4, <1>5, <1>6 DEF TypeInv

-----------------------------------------------------------------------------
\* What the names of the steps stand for.
LEMMA AttemptTypes ==
    ASSUME TypeOK, NEW w \in Workers
    PROVE  /\ B(w) \in Builds /\ P(w) \in Projects /\ B(w)[1] = P(w)
           /\ work[w] \in Attempts
           /\ work[w].n \in 0..Len(TenantObjects)
           /\ work[w].vars \in -1..MaxEdits /\ work[w].bound \in BOOLEAN
BY DEF TypeOK, Attempts, B, P, Builds

\* An attempt stays one when a local of it changes.
LEMMA AttemptChanges ==
    ASSUME NEW a \in Attempts, NEW n \in 0..Len(TenantObjects), NEW v \in -1..MaxEdits,
           NEW b \in BOOLEAN
    PROVE  /\ [a EXCEPT !.n = n] \in Attempts
           /\ [a EXCEPT !.vars = v] \in Attempts
           /\ [a EXCEPT !.bound = b] \in Attempts
BY DEF Attempts

\* A request names a project, and the rest of its locals are well-typed.
LEMMA RequestTypes ==
    ASSUME TypeInv, NEW h \in Handlers
    PROVE  /\ Local(at[h], req[h]) /\ req[h] \in Requests
           /\ R(h) \in Projects /\ req[h].pw \in Passwords
           /\ req[h].n \in 0..Len(TenantObjects)
           /\ req[h].names \subseteq Commits /\ req[h].ids \subseteq Commits
           /\ OfDb(R(h)) \in SecretNames
BY ConstantsAssumption DEF TypeInv, TypeOK, PlaceInv, Local, Requests, R, OfDb

\* What is applied is recorded under its kind and project.
LEMMA AppliedTypes ==
    ASSUME TypeOK, NEW kind \in Kinds, NEW p \in Projects, Applied(kind, p)
    PROVE  late' \subseteq Kinds \X Projects
BY DEF TypeOK, Applied

\* The objects of a tenant are applied one after the other.
LEMMA EnsureTypes ==
    ASSUME TypeOK, NEW n \in 0..Len(TenantObjects), ~Isolated(n), EnsureTenant(n)
    PROVE  /\ isolation' \subseteq Isolation /\ n + 1 \in 0..Len(TenantObjects)
           /\ isolation' = isolation \cup {TenantObjects[n + 1]}
<1>1. n + 1 \in 1..Len(TenantObjects)
  BY DEF Isolated, TenantObjects
<1>2. TenantObjects[n + 1] \in Isolation
  BY <1>1 DEF Isolation, TenantObjects
<1> QED
  BY <1>1, <1>2 DEF EnsureTenant, TypeOK

\* A fault leaves its budget well-typed.
LEMMA FaultTypes ==
    ASSUME TypeOK, Fault
    PROVE  faults' \in 0..MaxFaults
BY ConstantsAssumption DEF TypeOK, Fault

\* A worker changes no request.
LEMMA WorkerTypes ==
    ASSUME TypeInv, NEW w \in Workers, WorkerStep(w)
    PROVE  TablesInv' /\ UNCHANGED <<at, req, minted, clicks>>
<1> USE DEF TypeInv
<1>1. TypeOK /\ TablesInv
  BY DEF TypeOK, TablesInv
<1>2. /\ B(w) \in Builds /\ P(w) \in Projects /\ B(w)[1] = P(w)
      /\ work[w] \in Attempts
      /\ work[w].n \in 0..Len(TenantObjects)
      /\ work[w].vars \in -1..MaxEdits /\ work[w].bound \in BOOLEAN
  BY <1>1, AttemptTypes
<1>3. NoAttempt \in Attempts
  BY IdleTypes
<1>4. ASSUME NEW kind \in Kinds, Applied(kind, P(w))
      PROVE  late' \subseteq Kinds \X Projects
  BY <1>1, <1>2, <1>4, AppliedTypes
<1>5. Fault => faults' \in 0..MaxFaults
  BY <1>1, FaultTypes
<1>6. CASE \E b \in Builds : Claim(w, b)
  <2>1. PICK b \in Builds : Claim(w, b)
    BY <1>6
  <2>2. [NoAttempt EXCEPT !.build = b] \in Attempts
    BY <1>3 DEF Attempts
  <2> QED
    BY <1>1, <2>1, <2>2
    DEF Claim, WGo, TablesInv, WorkerSteps, Statuses, Builds, postgres, cluster, bounds,
        history
<1>7. CASE ApplyGitSecret(w)
  BY <1>1, <1>2, <1>4, <1>7
  DEF ApplyGitSecret, WGo, TablesInv, WorkerSteps, Kinds, tables, postgres, bounds
<1>8. CASE EnsureBuildJob(w)
  BY <1>1, <1>2, <1>4, <1>8
  DEF EnsureBuildJob, WGo, TablesInv, WorkerSteps, Kinds, tables, postgres, bounds
<1>9. CASE WaitForJob(w)
  BY <1>1, <1>9
  DEF WaitForJob, WGo, TablesInv, WorkerSteps, tables, postgres, cluster, bounds, history
<1>10. CASE MarkDeploying(w)
  BY <1>1, <1>2, <1>10
  DEF MarkDeploying, SetRow, WGo, TablesInv, WorkerSteps, Statuses, Builds, postgres, cluster,
      bounds, history
<1>11. CASE WorkerIsolates(w)
  <2>1. CASE Isolated(work[w].n)
    BY <1>1, <1>11, <2>1
    DEF WorkerIsolates, WGo, TablesInv, WorkerSteps, tables, postgres, bounds, history
  <2>2. CASE ~Isolated(work[w].n)
    <3>1. isolation' \subseteq Isolation /\ work[w].n + 1 \in 0..Len(TenantObjects)
      BY <1>1, <1>2, <1>11, <2>2, EnsureTypes DEF WorkerIsolates
    <3>2. [work[w] EXCEPT !.n = work[w].n + 1] \in Attempts
      BY <1>2, <3>1, AttemptChanges
    <3>3. work' \in [Workers -> Attempts]
      BY <1>1, <1>11, <2>2, <3>2 DEF WorkerIsolates, TablesInv
    <3> QED
      BY <1>1, <1>11, <2>2, <3>1, <3>3
      DEF WorkerIsolates, TablesInv, tables, postgres, bounds, history
  <2> QED
    BY <2>1, <2>2
<1>12. CASE ReadBinding(w)
  <2>1. [work[w] EXCEPT !.bound = HasDatabase(P(w))] \in Attempts
    BY <1>2, AttemptChanges DEF HasDatabase
  <2>2. work' \in [Workers -> Attempts]
    BY <1>1, <1>12, <2>1 DEF ReadBinding, TablesInv
  <2> QED
    BY <1>1, <1>5, <1>12, <2>2
    DEF ReadBinding, WGo, TablesInv, WorkerSteps, tables, postgres, cluster, history
<1>13. CASE ReadEnv(w)
  <2>1. VarsOf(P(w)) \in -1..MaxEdits /\ FailedVars \in -1..MaxEdits
    BY <1>1, <1>2, ConstantsAssumption DEF VarsOf, FailedVars, TablesInv
  <2>2. /\ [work[w] EXCEPT !.vars = VarsOf(P(w))] \in Attempts
        /\ [work[w] EXCEPT !.vars = FailedVars] \in Attempts
    BY <1>2, <2>1, AttemptChanges
  <2>3. work' \in [Workers -> Attempts]
    BY <1>1, <1>13, <2>2 DEF ReadEnv, TablesInv
  <2> QED
    BY <1>1, <1>5, <1>13, <2>3
    DEF ReadEnv, WGo, TablesInv, WorkerSteps, tables, postgres, cluster, history
<1>14. CASE ApplyEnvSecret(w)
  BY <1>1, <1>2, <1>4, <1>14
  DEF ApplyEnvSecret, WGo, TablesInv, WorkerSteps, Kinds, tables, postgres, bounds
<1>15. CASE ApplyDeployment(w)
  BY <1>1, <1>2, <1>4, <1>15
  DEF ApplyDeployment, WGo, TablesInv, WorkerSteps, Kinds, tables, postgres, bounds
<1>16. CASE ApplyService(w)
  BY <1>1, <1>2, <1>4, <1>16
  DEF ApplyService, WGo, TablesInv, WorkerSteps, Kinds, tables, postgres, bounds
<1>17. CASE ApplyIngressRoute(w)
  BY <1>1, <1>2, <1>4, <1>17
  DEF ApplyIngressRoute, WGo, TablesInv, WorkerSteps, Kinds, tables, postgres, bounds
<1>18. CASE MarkReady(w)
  BY <1>1, <1>2, <1>3, <1>18
  DEF MarkReady, WorkerDone, SetRow, WGo, TablesInv, WorkerSteps, Statuses, Builds, postgres,
      cluster, bounds, history
<1>19. CASE MarkFailed(w)
  <2>1. /\ row' \in [Builds -> Statuses]
        /\ \A b \in Builds : b[1] \notin projects => row'[b] = "none"
    BY <1>1, <1>2, <1>19 DEF MarkFailed, TablesInv, Statuses
  <2> QED
    BY <1>1, <1>3, <1>5, <1>19, <2>1
    DEF MarkFailed, WorkerDone, WGo, TablesInv, WorkerSteps, postgres, cluster, history
<1>20. CASE AttemptFails(w)
  BY <1>1, <1>5, <1>20
  DEF AttemptFails, WGo, TablesInv, WorkerSteps, tables, postgres, cluster, history
<1> QED
  BY <1>6, <1>7, <1>8, <1>9, <1>10, <1>11, <1>12, <1>13, <1>14, <1>15, <1>16, <1>17, <1>18,
     <1>19, <1>20 DEF WorkerStep

-----------------------------------------------------------------------------
\* The locals of a request change one at a time.
LEMMA RequestChanges ==
    ASSUME NEW step, NEW r, Local(step, r), NEW n \in 0..Len(TenantObjects),
           NEW b \in BOOLEAN, NEW S \in SUBSET Commits
    PROVE  /\ Local(step, [r EXCEPT !.n = n]) /\ Local(step, [r EXCEPT !.exists = b])
           /\ Local(step, [r EXCEPT !.warned = b])
           /\ Local(step, [r EXCEPT !.names = S]) /\ Local(step, [r EXCEPT !.ids = S])
BY DEF Local, Requests

\* A request that returns is forgotten.
LEMMA ReturnMoves ==
    ASSUME TypeInv, NEW h \in Handlers, Return(h), UNCHANGED <<minted, clicks>>
    PROVE  Moves(h)
<1>1. Local("idle", NoRequest)
  BY IdleTypes
  DEF Local, Steps, CreateSteps, NewSteps, ScaleSteps, DeleteSteps, NoRequest
<1>2. clicks \in Int
  BY DEF TypeInv, TypeOK
<1> QED
  BY <1>1, <1>2 DEF Return, Moves

\* The deletion of a project goes from one of its steps to another.
LEMMA DeletionMoves ==
    ASSUME TypeInv, NEW h \in Handlers, at[h] \in DeleteSteps,
           NEW next \in DeleteSteps, GoTo(h, next),
           UNCHANGED req \/ \E b \in BOOLEAN : Set(h, [req[h] EXCEPT !.warned = b]),
           UNCHANGED <<minted, clicks>>
    PROVE  Moves(h)
<1>1. Local(at[h], req[h])
  BY RequestTypes
<1>2. Local(next, req[h])
  BY <1>1 DEF Local, Steps, CreateSteps, NewSteps, ScaleSteps, DeleteSteps
<1>3. clicks \in Int /\ next # "find"
  BY DEF TypeInv, TypeOK, DeleteSteps
<1>4. CASE UNCHANGED req
  <2>1. Set(h, req[h])
    BY <1>4 DEF TypeInv, TypeOK, Set
  <2> QED
    BY <1>2, <1>3, <2>1 DEF Moves
<1>5. CASE \E b \in BOOLEAN : Set(h, [req[h] EXCEPT !.warned = b])
  <2>1. PICK b \in BOOLEAN : Set(h, [req[h] EXCEPT !.warned = b])
    BY <1>5
  <2>2. Local(next, [req[h] EXCEPT !.warned = b])
    BY <1>2, 0 \in 0..Len(TenantObjects), {} \in SUBSET Commits, RequestChanges
    DEF TenantObjects
  <2> QED
    BY <1>3, <2>1, <2>2 DEF Moves
<1> QED
  BY <1>4, <1>5

\* A new request names the project and the handler's first step.
LEMMA StartMoves ==
    ASSUME TypeInv, NEW h \in Handlers, NEW p \in Projects, NEW via, NEW step,
           \/ via = "database" /\ step = "find"
           \/ via = "delete" /\ step \in {"deployments", "jobs"}
           \/ via \in {"start", "stop"} /\ step = "list",
           Request(h, via, p, step), minted' = minted
    PROVE  Moves(h) /\ clicks' \in 0..MaxClicks
<1> DEFINE r == [NoRequest EXCEPT !.via = via, !.proj = p]
<1>1. /\ r \in Requests /\ r.via = via /\ ~r.fresh
  BY IdleTypes DEF Requests
<1>2. Set(h, r)
  BY DEF Request
<1> HIDE DEF r
<1>3. Local(step, r)
  BY <1>1 DEF Local, Steps, CreateSteps, NewSteps, ScaleSteps, DeleteSteps
<1>4. clicks \in 0..MaxClicks /\ clicks > 0 /\ clicks' = clicks - 1 /\ GoTo(h, step)
  BY DEF TypeInv, TypeOK, Request
<1>5. clicks' \in 0..MaxClicks
  BY <1>4, ConstantsAssumption
<1>6. (step # "find" /\ clicks' <= clicks) \/ (step = "find" /\ clicks' <= clicks - 1)
  BY <1>4
<1> QED
  BY <1>2, <1>3, <1>4, <1>5, <1>6 DEF Moves

\* What stays of the project's objects is still some of them.
LEMMA StartTypes ==
    ASSUME TypeInv, NEW h \in Handlers, NEW p \in Projects,
           \/ CreateDatabase(h, p)
           \/ DeleteProject(h, p)
           \/ \E via \in {"start", "stop"} : Scale(h, via, p)
    PROVE  Moves(h) /\ TablesInv'
<1>1. TablesInv
  BY DEF TypeInv, TypeOK, TablesInv
<1>2. CASE CreateDatabase(h, p)
  <2>1. Moves(h) /\ clicks' \in 0..MaxClicks
    BY <1>2, StartMoves DEF CreateDatabase
  <2> QED
    BY <1>1, <1>2, <2>1 DEF CreateDatabase, TablesInv, tables, postgres, cluster, history
<1>3. CASE DeleteProject(h, p)
  <2>1. Moves(h) /\ clicks' \in 0..MaxClicks
    BY <1>3, StartMoves DEF DeleteProject
  <2> QED
    BY <1>1, <1>3, <2>1 DEF DeleteProject, TablesInv, tables, postgres, cluster
<1>4. CASE \E via \in {"start", "stop"} : Scale(h, via, p)
  <2>1. PICK via \in {"start", "stop"} : Scale(h, via, p)
    BY <1>4
  <2>2. Moves(h) /\ clicks' \in 0..MaxClicks
    BY <2>1, StartMoves DEF Scale
  <2> QED
    BY <1>1, <2>1, <2>2 DEF Scale, TablesInv, tables, postgres, cluster, history
<1> QED
  BY <1>2, <1>3, <1>4

\* "Add database", from the lookup to the row.
LEMMA DatabaseTypes ==
    ASSUME TypeInv, NEW h \in Handlers,
           \/ FindDatabase(h) \/ CheckRole(h) \/ ProvisionRole(h) \/ CheckDatabase(h)
           \/ ProvisionDatabase(h) \/ LockDown(h) \/ RequestIsolates(h)
           \/ ApplyDbSecret(h) \/ InsertBinding(h)
    PROVE  Moves(h) /\ TablesInv'
<1>1. TypeOK /\ TablesInv
  BY DEF TypeInv, TypeOK, TablesInv
<1>2. /\ Local(at[h], req[h]) /\ req[h] \in Requests
      /\ R(h) \in Projects /\ req[h].pw \in Passwords
      /\ req[h].n \in 0..Len(TenantObjects) /\ OfDb(R(h)) \in SecretNames
  BY RequestTypes
<1>3. clicks \in Int /\ minted \in Int /\ (UNCHANGED req => Set(h, req[h]))
  BY <1>1 DEF TypeOK, Set, Passwords
<1>4. ASSUME Return(h), UNCHANGED <<minted, clicks>> PROVE Moves(h)
  BY <1>4, ReturnMoves
<1>5. ASSUME NEW step \in CreateSteps \ {"find"}, NEW b \in BOOLEAN,
             NEW n \in 0..Len(TenantObjects),
             at[h] \in CreateSteps, step \in NewSteps => req[h].fresh, GoTo(h, step),
             \/ UNCHANGED req
             \/ Set(h, [req[h] EXCEPT !.exists = b])
             \/ Set(h, [req[h] EXCEPT !.n = n]),
             UNCHANGED <<minted, clicks>>
      PROVE  Moves(h)
  <2>1. Local(step, req[h])
    BY <1>2, <1>5 DEF Local, Steps, CreateSteps, ScaleSteps, DeleteSteps
  <2>2. Local(step, [req[h] EXCEPT !.exists = b]) /\ Local(step, [req[h] EXCEPT !.n = n])
    BY <2>1, {} \in SUBSET Commits, RequestChanges
  <2>3. step # "find" /\ minted' = minted /\ clicks' <= clicks
    BY <1>3, <1>5
  <2> QED
    BY <1>3, <1>5, <2>1, <2>2, <2>3 DEF Moves
<1>6. CASE FindDatabase(h)
  <2>1. at[h] = "find" /\ binding[R(h)] \in Passwords
    BY <1>1, <1>2, <1>6 DEF FindDatabase, TablesInv
  <2>2. clicks' = clicks
    BY <1>6 DEF FindDatabase
  <2>3. CASE binding[R(h)] # 0
    <3> DEFINE r == [req[h] EXCEPT !.pw = binding[R(h)]]
    <3>1. Local("isolate", r)
      BY <1>2, <2>1, <2>3
      DEF Local, Requests, Steps, CreateSteps, NewSteps, ScaleSteps, DeleteSteps
    <3>2. Set(h, r) /\ GoTo(h, "isolate") /\ minted' = minted
      BY <1>6, <2>3 DEF FindDatabase
    <3>3. Moves(h)
      <4> HIDE DEF r
      <4> QED
        BY <1>3, <2>2, <3>1, <3>2 DEF Moves
    <3> QED
      BY <1>1, <1>6, <3>2, <3>3
      DEF FindDatabase, TablesInv, tables, postgres, cluster, history
  <2>4. CASE binding[R(h)] = 0
    <3> DEFINE r == [req[h] EXCEPT !.pw = minted + 1, !.fresh = TRUE]
    <3>1. minted + 1 \in Passwords /\ minted + 1 # 0
      <4>1. h \in Finding /\ Cardinality(Finding) \in Nat /\ Cardinality(Finding) >= 1
        BY <2>1, FindingFinite DEF Finding
      <4>2. clicks + minted + Cardinality(Finding) <= MaxClicks
        BY DEF TypeInv, Counted
      <4> QED
        BY <1>1, <4>1, <4>2, ConstantsAssumption DEF TypeOK, Passwords
    <3>2. Local("checkRole", r)
      BY <1>2, <2>1, <3>1
      DEF Local, Requests, Steps, CreateSteps, NewSteps, ScaleSteps, DeleteSteps
    <3>3. Set(h, r) /\ GoTo(h, "checkRole") /\ minted' = minted + 1
      BY <1>6, <2>4 DEF FindDatabase
    <3>4. Moves(h)
      <4> HIDE DEF r
      <4> QED
        BY <1>3, <2>1, <2>2, <3>2, <3>3 DEF Moves
    <3> QED
      BY <1>1, <1>6, <3>1, <3>3, <3>4
      DEF FindDatabase, TablesInv, tables, postgres, cluster, history
  <2> QED
    BY <2>3, <2>4
<1>7. CASE CheckRole(h)
  <2>1. Moves(h)
    BY <1>2, <1>5, <1>7 DEF CheckRole, Local, CreateSteps, NewSteps, bounds
  <2> QED
    BY <1>1, <1>7, <2>1
    DEF CheckRole, TablesInv, tables, postgres, cluster, bounds, history
<1>8. CASE ProvisionRole(h)
  <2>1. Moves(h)
    BY <1>2, <1>4, <1>5, <1>8 DEF ProvisionRole, Local, CreateSteps, NewSteps, bounds
  <2> QED
    BY <1>1, <1>2, <1>8, <2>1
    DEF ProvisionRole, RoleDDL, TablesInv, tables, cluster, bounds, history
<1>9. CASE CheckDatabase(h)
  <2>1. Moves(h)
    <3>1. \E b \in BOOLEAN : Set(h, [req[h] EXCEPT !.exists = b])
      <4>1. CASE TRUE = (R(h) \in database)
        BY <1>9, <4>1 DEF CheckDatabase
      <4>2. CASE FALSE = (R(h) \in database)
        BY <1>9, <4>2 DEF CheckDatabase
      <4>3. (TRUE = (R(h) \in database)) \/ (FALSE = (R(h) \in database))
        BY SMT
      <4> QED
        BY <4>1, <4>2, <4>3
    <3> QED
      BY <1>2, <1>5, <1>9, <3>1 DEF CheckDatabase, Local, CreateSteps, NewSteps, bounds
  <2> QED
    BY <1>1, <1>9, <2>1
    DEF CheckDatabase, TablesInv, tables, postgres, cluster, bounds, history
<1>10. CASE ProvisionDatabase(h)
  <2>1. Moves(h)
    BY <1>2, <1>4, <1>5, <1>10 DEF ProvisionDatabase, Local, CreateSteps, NewSteps, bounds
  <2> QED
    BY <1>1, <1>2, <1>10, <2>1
    DEF ProvisionDatabase, TablesInv, tables, cluster, bounds, history
<1>11. CASE LockDown(h)
  <2>1. Moves(h)
    BY <1>2, <1>5, <1>11 DEF LockDown, CreateSteps, NewSteps, bounds
  <2> QED
    BY <1>1, <1>11, <2>1
    DEF LockDown, TablesInv, tables, postgres, cluster, bounds, history
<1>12. CASE RequestIsolates(h)
  <2>1. CASE Isolated(req[h].n)
    <3>1. Moves(h)
      BY <1>2, <1>5, <1>12, <2>1 DEF RequestIsolates, CreateSteps, NewSteps, bounds
    <3> QED
      BY <1>1, <1>12, <2>1, <3>1
      DEF RequestIsolates, TablesInv, tables, postgres, bounds, history
  <2>2. CASE ~Isolated(req[h].n)
    <3>1. isolation' \subseteq Isolation /\ req[h].n + 1 \in 0..Len(TenantObjects)
      BY <1>1, <1>2, <1>12, <2>2, EnsureTypes DEF RequestIsolates
    <3>2. GoTo(h, "isolate")
      BY <1>1, <1>12, <2>2 DEF RequestIsolates, GoTo, TypeOK
    <3>3. Moves(h)
      BY <1>2, <1>5, <1>12, <2>2, <3>1, <3>2
      DEF RequestIsolates, CreateSteps, NewSteps, bounds
    <3> QED
      BY <1>1, <1>12, <2>2, <3>1, <3>3
      DEF RequestIsolates, TablesInv, tables, postgres, bounds, history
  <2> QED
    BY <2>1, <2>2
<1>13. CASE ApplyDbSecret(h)
  <2>1. Moves(h)
    BY <1>2, <1>4, <1>5, <1>13 DEF ApplyDbSecret, CreateSteps, NewSteps, bounds
  <2>2. late' \subseteq Kinds \X Projects
    BY <1>1, <1>2, <1>13, AppliedTypes DEF ApplyDbSecret, Kinds
  <2> QED
    BY <1>1, <1>2, <1>13, <2>1, <2>2
    DEF ApplyDbSecret, TablesInv, tables, postgres, bounds
<1>14. CASE InsertBinding(h)
  <2>1. Moves(h)
    BY <1>4, <1>14 DEF InsertBinding, bounds
  <2> QED
    BY <1>1, <1>2, <1>14, <2>1
    DEF InsertBinding, TablesInv, postgres, cluster, bounds, history
<1> QED
  BY <1>6, <1>7, <1>8, <1>9, <1>10, <1>11, <1>12, <1>13, <1>14

\* "Stop" and "Start".
LEMMA ScaleTypes ==
    ASSUME TypeInv, NEW h \in Handlers,
           ListDeployments(h) \/ \E c \in Commits : FanoutScale(h, c)
    PROVE  Moves(h) /\ TablesInv'
<1>1. TypeOK /\ TablesInv
  BY DEF TypeInv, TypeOK, TablesInv
<1>2. Local(at[h], req[h]) /\ R(h) \in Projects /\ req[h].names \subseteq Commits
  BY RequestTypes
<1>3. ASSUME Return(h), UNCHANGED <<minted, clicks>> PROVE Moves(h)
  BY <1>3, ReturnMoves
<1>4. ASSUME NEW S \in SUBSET Commits, at[h] \in ScaleSteps, GoTo(h, "scale"),
             Set(h, [req[h] EXCEPT !.names = S]), UNCHANGED <<minted, clicks>>
      PROVE  Moves(h)
  <2>1. Local("scale", req[h])
    BY <1>2, <1>4 DEF Local, Steps, CreateSteps, NewSteps, ScaleSteps, DeleteSteps
  <2>2. Local("scale", [req[h] EXCEPT !.names = S])
    BY <2>1, 0 \in 0..Len(TenantObjects), TRUE \in BOOLEAN, RequestChanges
    DEF TenantObjects
  <2>3. clicks \in Int
    BY <1>1 DEF TypeOK
  <2> QED
    BY <1>4, <2>2, <2>3 DEF Moves
<1>5. CASE ListDeployments(h)
  <2>1. PICK S \in SUBSET Commits : S = {c \in Commits : app[<<R(h), c>>] # "absent"}
    OBVIOUS
  <2>2. Moves(h)
    BY <1>3, <1>4, <1>5, <2>1 DEF ListDeployments, ScaleSteps, bounds
  <2> QED
    BY <1>1, <1>5, <2>2
    DEF ListDeployments, TablesInv, tables, postgres, cluster, bounds, history
<1>6. CASE \E c \in Commits : FanoutScale(h, c)
  <2>1. PICK c \in Commits : FanoutScale(h, c)
    BY <1>6
  <2>2. at[h] = "scale" /\ UNCHANGED <<minted, clicks>>
    BY <2>1 DEF FanoutScale
  <2>3. Moves(h)
    <3>1. CASE req[h].names = {c}
      BY <1>3, <2>1, <2>2, <3>1 DEF FanoutScale
    <3>2. CASE req[h].names # {c}
      <4>1. Set(h, [req[h] EXCEPT !.names = req[h].names \ {c}]) /\ at' = at
        BY <2>1, <3>2 DEF FanoutScale, Set
      <4>2. GoTo(h, "scale")
        BY <1>1, <2>2, <4>1 DEF GoTo, TypeOK
      <4> QED
        BY <1>2, <1>4, <2>2, <4>1, <4>2 DEF ScaleSteps
    <3> QED
      BY <3>1, <3>2
  <2>4. app' \in [Builds -> {"absent", "running", "stopped"}]
    <3>1. <<R(h), c>> \in Builds
      BY <1>2 DEF Builds
    <3> QED
      BY <1>1, <2>1, <3>1 DEF FanoutScale, TablesInv
  <2>5. faults' \in 0..MaxFaults
    BY <1>1, <2>1, FaultTypes DEF FanoutScale, TypeOK
  <2> QED
    BY <1>1, <2>1, <2>3, <2>4, <2>5
    DEF FanoutScale, TablesInv, tables, postgres, history
<1> QED
  BY <1>5, <1>6

\* The deletion of a project.
LEMMA DeletionTypes ==
    ASSUME TypeInv, NEW h \in Handlers,
           \/ DeleteDeployments(h) \/ DeleteServices(h) \/ DeleteRoutes(h)
           \/ DeleteEnvSecret(h) \/ DeleteDbSecret(h) \/ DeleteJobs(h)
           \/ ListDeploymentIDs(h) \/ DeleteGitSecrets(h) \/ DeleteRow(h)
    PROVE  Moves(h) /\ TablesInv'
<1>1. TypeOK /\ TablesInv
  BY DEF TypeInv, TypeOK, TablesInv
<1>2. /\ Local(at[h], req[h]) /\ R(h) \in Projects /\ OfDb(R(h)) \in SecretNames
      /\ req[h].warned \in BOOLEAN
  BY RequestTypes DEF Requests
<1>3. ASSUME NEW next \in DeleteSteps, at[h] \in DeleteSteps, GoTo(h, next),
             UNCHANGED req \/ \E b \in BOOLEAN : Set(h, [req[h] EXCEPT !.warned = b]),
             UNCHANGED <<minted, clicks>>
      PROVE  Moves(h)
  BY <1>3, DeletionMoves
<1>4. Fault => faults' \in 0..MaxFaults
  BY <1>1, FaultTypes
<1>5. req[h] = [req[h] EXCEPT !.warned = req[h].warned]
  BY RequestTypes DEF Requests
<1>6. CASE DeleteDeployments(h)
  <2>1. Moves(h)
    BY <1>3, <1>6 DEF DeleteDeployments, DeleteSteps
  <2>2. faults' \in 0..MaxFaults
    BY <1>1, <1>4, <1>6 DEF DeleteDeployments, TablesInv
  <2>3. app' \in [Builds -> {"absent", "running", "stopped"}] /\ bound' \subseteq Builds
    BY <1>1, <1>6 DEF DeleteDeployments, TablesInv
  <2> QED
    BY <1>1, <1>6, <2>1, <2>2, <2>3
    DEF DeleteDeployments, TablesInv, tables, postgres, history
<1>7. CASE DeleteServices(h)
  <2>1. Moves(h)
    BY <1>2, <1>3, <1>5, <1>7 DEF DeleteServices, Swept, DeleteSteps
  <2>2. svc' \subseteq Builds /\ faults' \in 0..MaxFaults
    BY <1>1, <1>4, <1>7 DEF DeleteServices, Swept, TablesInv
  <2> QED
    BY <1>1, <1>7, <2>1, <2>2
    DEF DeleteServices, TablesInv, tables, postgres, history
<1>8. CASE DeleteRoutes(h)
  <2>1. Moves(h)
    BY <1>2, <1>3, <1>5, <1>8 DEF DeleteRoutes, Swept, DeleteSteps
  <2>2. route' \subseteq Builds /\ faults' \in 0..MaxFaults
    BY <1>1, <1>4, <1>8 DEF DeleteRoutes, Swept, TablesInv
  <2> QED
    BY <1>1, <1>8, <2>1, <2>2
    DEF DeleteRoutes, TablesInv, tables, postgres, history
<1>9. CASE DeleteEnvSecret(h)
  <2>1. Moves(h)
    BY <1>3, <1>9 DEF DeleteEnvSecret, DeleteSteps
  <2>2. faults' \in 0..MaxFaults
    BY <1>1, <1>4, <1>9 DEF DeleteEnvSecret, TablesInv
  <2>3. envSecret' \in [Projects -> -1..MaxEdits]
    BY <1>1, <1>2, <1>9, ConstantsAssumption DEF DeleteEnvSecret, TablesInv
  <2> QED
    BY <1>1, <1>9, <2>1, <2>2, <2>3
    DEF DeleteEnvSecret, TablesInv, tables, postgres, history
<1>10. CASE DeleteDbSecret(h)
  <2>1. Moves(h)
    BY <1>3, <1>10 DEF DeleteDbSecret, DeleteSteps
  <2>2. faults' \in 0..MaxFaults
    BY <1>1, <1>4, <1>10 DEF DeleteDbSecret, TablesInv
  <2>3. dbSecret' \in [SecretNames -> Passwords]
    BY <1>1, <1>2, <1>10, ConstantsAssumption DEF DeleteDbSecret, TablesInv, Passwords
  <2> QED
    BY <1>1, <1>10, <2>1, <2>2, <2>3
    DEF DeleteDbSecret, TablesInv, tables, postgres, history
<1>11. CASE DeleteJobs(h)
  <2>1. Moves(h)
    BY <1>3, <1>11 DEF DeleteJobs, DeleteSteps
  <2>2. faults' \in 0..MaxFaults
    BY <1>1, <1>4, <1>11 DEF DeleteJobs, TablesInv
  <2>3. job' \in [Builds -> {"none", "active", "succeeded", "failed"}]
    BY <1>1, <1>11 DEF DeleteJobs, TablesInv
  <2> QED
    BY <1>1, <1>11, <2>1, <2>2, <2>3
    DEF DeleteJobs, TablesInv, tables, postgres, history
<1>12. CASE ListDeploymentIDs(h)
  <2>1. at[h] = "ids" /\ UNCHANGED <<minted, clicks>>
    BY <1>12 DEF ListDeploymentIDs
  <2>2. ASSUME Set(h, [req[h] EXCEPT !.ids = Listed(R(h))]), GoTo(h, "gits")
        PROVE  Moves(h)
    <3>1. PICK S \in SUBSET Commits : S = Listed(R(h))
      BY DEF Listed
    <3>2. Local("gits", req[h])
      BY <1>2, <2>1 DEF Local, Steps, CreateSteps, NewSteps, ScaleSteps, DeleteSteps
    <3>3. Local("gits", [req[h] EXCEPT !.ids = S])
      BY <3>2, 0 \in 0..Len(TenantObjects), TRUE \in BOOLEAN, RequestChanges
      DEF TenantObjects
    <3>4. clicks \in Int
      BY <1>1 DEF TypeOK
    <3>5. Set(h, [req[h] EXCEPT !.ids = S])
      BY <2>2, <3>1
    <3>6. GoTo(h, "gits") /\ minted' = minted /\ clicks' <= clicks
      BY <2>1, <2>2, <3>4
    <3> QED
      BY <3>3, <3>5, <3>6 DEF Moves
  <2>3. ASSUME Set(h, [req[h] EXCEPT !.warned = TRUE]), GoTo(h, "row")
        PROVE  Moves(h)
    BY <1>3, <2>1, <2>3 DEF DeleteSteps
  <2>4. Moves(h)
    BY <1>12, <2>2, <2>3 DEF ListDeploymentIDs
  <2>5. faults' \in 0..MaxFaults
    BY <1>1, <1>4, <1>12 DEF ListDeploymentIDs, TablesInv
  <2> QED
    BY <1>1, <1>12, <2>4, <2>5
    DEF ListDeploymentIDs, TablesInv, tables, postgres, cluster, history
<1>13. CASE DeleteGitSecrets(h)
  <2>1. Moves(h)
    BY <1>3, <1>13 DEF DeleteGitSecrets, DeleteSteps
  <2>2. faults' \in 0..MaxFaults
    BY <1>1, <1>4, <1>13 DEF DeleteGitSecrets, TablesInv
  <2>3. git' \subseteq Builds
    BY <1>1, <1>13 DEF DeleteGitSecrets, TablesInv
  <2> QED
    BY <1>1, <1>13, <2>1, <2>2, <2>3
    DEF DeleteGitSecrets, TablesInv, tables, postgres, history
<1>14. CASE DeleteRow(h)
  <2>1. Moves(h)
    BY <1>14, ReturnMoves DEF DeleteRow, bounds
  <2>2. /\ row' \in [Builds -> Statuses]
        /\ \A b \in Builds : b[1] \notin projects' => row'[b] = "none"
    BY <1>1, <1>14 DEF DeleteRow, TablesInv, Of, Statuses
  <2>3. /\ env' \in [Projects -> 0..MaxEdits] /\ binding' \in [Projects -> Passwords]
        /\ \A p \in Projects \ projects' : binding'[p] = 0
    BY <1>1, <1>2, <1>14, ConstantsAssumption DEF DeleteRow, TablesInv, Passwords
  <2> QED
    BY <1>1, <1>2, <1>14, <2>1, <2>2, <2>3
    DEF DeleteRow, TablesInv, postgres, cluster, bounds
<1> QED
  BY <1>6, <1>7, <1>8, <1>9, <1>10, <1>11, <1>12, <1>13, <1>14

\* Whatever a request does, only its own place and locals change.
LEMMA RequestMoves ==
    ASSUME TypeInv, NEW h \in Handlers, RequestStep(h)
    PROVE  Moves(h) /\ TablesInv'
<1>1. CASE RequestFails(h)
  <2>1. TypeOK /\ TablesInv
    BY DEF TypeInv, TypeOK, TablesInv
  <2>2. Moves(h)
    BY <1>1, ReturnMoves DEF RequestFails
  <2>3. faults' \in 0..MaxFaults
    BY <1>1, <2>1, FaultTypes DEF RequestFails
  <2> QED
    BY <1>1, <2>1, <2>2, <2>3
    DEF RequestFails, TablesInv, tables, postgres, cluster, history
<1> QED
  BY <1>1, DatabaseTypes, ScaleTypes, DeletionTypes DEF RequestStep

\* What else changes the tables and the cluster: a push, the end of a Job, an
\* edit of the variables, the App's removal and a crash.
LEMMA EnvironmentTypes ==
    ASSUME TypeInv,
           \/ \E b \in Builds : Push(b) \/ JobEnds(b)
           \/ \E p \in Projects : EditEnv(p)
           \/ Uninstall
           \/ Crash
    PROVE  TypeInv'
<1>1. TypeOK /\ TablesInv
  BY DEF TypeInv, TypeOK, TablesInv
<1>2. ASSUME UNCHANGED <<at, req, minted>>, clicks' <= clicks, TablesInv' PROVE TypeInv'
  <2>1. TypeOK' /\ PlaceInv'
    BY <1>2 DEF TypeInv, TypeOK, PlaceInv, TablesInv
  <2>2. Finding' = Finding
    BY <1>2 DEF Finding
  <2>3. clicks \in Int /\ minted \in Int /\ Cardinality(Finding) \in Nat /\ MaxClicks \in Nat
        /\ clicks' \in Int
    BY <1>1, <1>2, FindingFinite, ConstantsAssumption DEF TablesInv, Passwords
  <2>4. Counted'
    BY <1>2, <2>2, <2>3 DEF TypeInv, Counted
  <2> QED
    BY <2>1, <2>4 DEF TypeInv
<1>3. clicks \in Int
  BY <1>1 DEF TypeOK
<1>4. CASE \E b \in Builds : Push(b)
  BY <1>1, <1>2, <1>3, <1>4
  DEF Push, TablesInv, Statuses, postgres, cluster, actors, bounds, history
<1>5. CASE \E b \in Builds : JobEnds(b)
  BY <1>1, <1>2, <1>3, <1>5
  DEF JobEnds, TablesInv, tables, postgres, actors, bounds, history
<1>6. CASE \E p \in Projects : EditEnv(p)
  <2>1. env' \in [Projects -> 0..MaxEdits]
    BY <1>1, <1>6, ConstantsAssumption DEF EditEnv, TablesInv
  <2> QED
    BY <1>1, <1>2, <1>3, <1>6, <2>1
    DEF EditEnv, TablesInv, postgres, cluster, actors, bounds, history
<1>7. CASE Uninstall
  <2>1. clicks' <= clicks /\ clicks' \in 0..MaxClicks
    BY <1>1, <1>7, ConstantsAssumption DEF Uninstall, TypeOK
  <2> QED
    BY <1>1, <1>2, <1>7, <2>1
    DEF Uninstall, TablesInv, postgres, cluster, actors, history
<1>8. CASE Crash
  <2>1. /\ wat' \in [Workers -> WorkerSteps] /\ work' \in [Workers -> Attempts]
        /\ at' \in [Handlers -> Steps] /\ req' \in [Handlers -> Requests]
    BY <1>8, IdleTypes DEF Crash, WorkerSteps, Steps
  <2>2. crashes' \in 0..MaxCrashes
    BY <1>1, <1>8, ConstantsAssumption DEF Crash, TypeOK
  <2>3. /\ row' \in [Builds -> Statuses]
        /\ \A b \in Builds : b[1] \notin projects' => row'[b] = "none"
    BY <1>1, <1>8 DEF Crash, TablesInv, Statuses
  <2>4. TypeOK'
    BY <1>1, <1>8, <2>1, <2>2, <2>3
    DEF Crash, TypeOK, TablesInv, postgres, cluster, history
  <2>5. PlaceInv'
    BY <1>8, IdleTypes
    DEF Crash, PlaceInv, Local, Steps, CreateSteps, NewSteps, ScaleSteps, DeleteSteps
  <2>6. Counted'
    <3>1. Finding' = {}
      BY <1>8 DEF Crash, Finding
    <3>2. /\ clicks' = clicks /\ minted' = minted /\ Cardinality(Finding') = 0
          /\ clicks \in Int /\ minted \in Int /\ Cardinality(Finding) \in Nat
          /\ clicks + minted + Cardinality(Finding) <= MaxClicks /\ MaxClicks \in Nat
      BY <1>1, <1>8, <3>1, FindingFinite, FS_EmptySet, ConstantsAssumption
      DEF Crash, TypeInv, TablesInv, Passwords, Counted
    <3> QED
      BY <3>2 DEF Counted
  <2> QED
    BY <2>4, <2>5, <2>6 DEF TypeInv
<1> QED
  BY <1>4, <1>5, <1>6, <1>7, <1>8

\* The types survive every step.
LEMMA TypeNext == TypeInv /\ [Next]_vars => TypeInv'
<1> SUFFICES ASSUME TypeInv, [Next]_vars PROVE TypeInv'
  OBVIOUS
<1>1. CASE \E w \in Workers : WorkerStep(w)
  <2>1. TablesInv' /\ UNCHANGED <<at, req, minted, clicks>>
    BY <1>1, WorkerTypes
  <2> QED
    BY <2>1 DEF TypeInv, TypeOK, PlaceInv, TablesInv, Counted, Finding
<1>2. ASSUME NEW h \in Handlers, Moves(h), TablesInv' PROVE TypeInv'
  BY <1>2, OneRequestMoves
<1>3. CASE \E h \in Handlers, p \in Projects :
             CreateDatabase(h, p) \/ DeleteProject(h, p)
             \/ Scale(h, "stop", p) \/ Scale(h, "start", p)
  BY <1>2, <1>3, StartTypes
<1>4. CASE \E h \in Handlers : RequestStep(h)
  BY <1>2, <1>4, RequestMoves
<1>5. CASE UNCHANGED vars
  BY <1>5 DEF vars, tables, postgres, cluster, actors, bounds, history, TypeInv, TypeOK,
     PlaceInv, Counted, Finding
<1> QED
  BY <1>1, <1>3, <1>4, <1>5, EnvironmentTypes DEF Next

\* The types hold at first.
LEMMA TypeInit == Init => TypeInv
<1> SUFFICES ASSUME Init PROVE TypeInv
  OBVIOUS
<1>1. TypeOK
  BY IdleTypes, ConstantsAssumption
  DEF Init, TypeOK, Statuses, Passwords, WorkerSteps, Steps
<1>2. PlaceInv
  BY IdleTypes
  DEF Init, PlaceInv, Local, Steps, CreateSteps, NewSteps, ScaleSteps, DeleteSteps
<1>3. Finding = {}
  BY DEF Init, Finding
<1>4. Counted
  BY <1>3, FS_EmptySet, ConstantsAssumption DEF Init, Counted
<1> QED
  BY <1>1, <1>2, <1>4 DEF TypeInv

\* TenantResources keeps its types, and no request mints more passwords than
\* there were clicks.
THEOREM TypeCorrect == Spec => []TypeOK
<1>1. TypeInv => TypeOK
  BY DEF TypeInv
<1> QED
  BY TypeInit, TypeNext, <1>1, PTL DEF Spec

-----------------------------------------------------------------------------
(***************************************************************************)
(* Nothing is applied to a namespace that is not isolated yet.             *)
(***************************************************************************)
Applying == {"binding", "env", "envSecret", "deployment", "service", "route", "ready"}

\* Something of a tenant is in the namespace.
Used == \/ \E b \in Builds : app[b] # "absent"
        \/ \E p \in Projects : envSecret[p] # -1
        \/ \E s \in SecretNames : dbSecret[s] # 0

\* The first n of TenantObjects are among these.
Has(n, objects) == \A i \in 1..n : TenantObjects[i] \in objects

\* Whoever is past the last of TenantObjects has applied them all.
IsolationInv ==
    /\ Used => isolation = Isolation
    /\ \A w \in Workers : /\ Has(work[w].n, isolation)
                          /\ wat[w] \in Applying => isolation = Isolation
    /\ \A h \in Handlers : /\ Has(req[h].n, isolation)
                           /\ at[h] \in {"secret", "insert"} => isolation = Isolation

\* What is applied last completes the isolation.
LEMMA HasAll ==
    ASSUME TypeOK, NEW n, Isolated(n), Has(n, isolation)
    PROVE  isolation = Isolation
<1>1. \A i \in DOMAIN TenantObjects : TenantObjects[i] \in isolation
  BY DEF Isolated, Has, TenantObjects
<1> QED
  BY <1>1 DEF TypeOK, Isolation

\* The objects that exist stay, and with one more they are one more.
LEMMA HasMore ==
    ASSUME TypeOK, NEW n \in 0..Len(TenantObjects), Has(n, isolation), isolation \subseteq isolation'
    PROVE  /\ Has(n, isolation') /\ Has(0, isolation')
           /\ isolation' = isolation \cup {TenantObjects[n + 1]} => Has(n + 1, isolation')
<1>1. Len(TenantObjects) = 4
  BY DEF TenantObjects
<1>2. \A i \in 1..(n + 1) : i \in 1..n \/ i = n + 1
  BY <1>1
<1> QED
  BY <1>1, <1>2 DEF Has

\* What a worker does about the isolation: it applies one more object, or
\* goes on with nothing applied to the namespace before all of them were.
LEMMA WorkerIsolation ==
    ASSUME TypeInv, NEW w \in Workers, WorkerStep(w)
    PROVE  /\ Used' => Used \/ wat[w] \in Applying
           /\ \A v \in Workers \ {w} : wat'[v] = wat[v] /\ work'[v] = work[v]
           /\ \/ /\ isolation' = isolation
                 /\ work'[w].n \in {0, work[w].n}
                 /\ wat'[w] \in Applying =>
                       wat[w] \in Applying \/ (wat[w] = "isolate" /\ Isolated(work[w].n))
              \/ /\ isolation' = isolation \cup {TenantObjects[work[w].n + 1]}
                 /\ work'[w].n = work[w].n + 1
                 /\ wat' = wat
<1>1. /\ wat \in [Workers -> WorkerSteps] /\ work \in [Workers -> Attempts]
      /\ app \in [Builds -> {"absent", "running", "stopped"}]
      /\ envSecret \in [Projects -> -1..MaxEdits]
  BY DEF TypeInv, TypeOK
<1>2. work[w] \in Attempts /\ B(w) \in Builds /\ P(w) \in Projects
  BY AttemptTypes DEF TypeInv
<1>3. NoAttempt \in Attempts /\ NoAttempt.n = 0
  BY IdleTypes
<1>4. CASE \E b \in Builds : Claim(w, b)
  <2>1. PICK b \in Builds : Claim(w, b)
    BY <1>4
  <2>2. [NoAttempt EXCEPT !.build = b].n = 0
    BY <1>3 DEF Attempts
  <2> QED
    BY <1>1, <2>1, <2>2 DEF Claim, WGo, Applying, Used, cluster
<1>5. CASE ApplyGitSecret(w) \/ EnsureBuildJob(w)
  BY <1>1, <1>5 DEF ApplyGitSecret, EnsureBuildJob, WGo, Applying, Used
<1>6. CASE WaitForJob(w) \/ MarkDeploying(w) \/ AttemptFails(w)
  BY <1>1, <1>6 DEF WaitForJob, MarkDeploying, AttemptFails, WGo, Applying, Used, cluster
<1>7. CASE WorkerIsolates(w)
  <2>1. work[w].n \in Int
    BY <1>2 DEF Attempts
  <2> QED
    BY <1>1, <1>2, <1>7, <2>1
    DEF WorkerIsolates, WGo, EnsureTenant, Applying, Used, Attempts
<1>8. CASE ReadBinding(w) \/ ReadEnv(w)
  BY <1>1, <1>2, <1>8 DEF ReadBinding, ReadEnv, WGo, Applying, Used, cluster, Attempts
<1>9. CASE ApplyEnvSecret(w) \/ ApplyDeployment(w)
  BY <1>1, <1>9 DEF ApplyEnvSecret, ApplyDeployment, WGo, Applying
<1>10. CASE ApplyService(w) \/ ApplyIngressRoute(w)
  BY <1>1, <1>10 DEF ApplyService, ApplyIngressRoute, WGo, Applying, Used
<1>11. CASE MarkReady(w) \/ MarkFailed(w)
  BY <1>1, <1>3, <1>11 DEF MarkReady, MarkFailed, WorkerDone, WGo, Applying, Used, cluster
<1> QED
  BY <1>4, <1>5, <1>6, <1>7, <1>8, <1>9, <1>10, <1>11 DEF WorkerStep

\* The same of a request, which applies a Secret after all of TenantObjects.
LEMMA RequestIsolation ==
    ASSUME TypeInv, NEW h \in Handlers, RequestStep(h)
    PROVE  /\ Used' => Used \/ at[h] = "secret"
           /\ UNCHANGED <<wat, work>>
           /\ \A i \in Handlers \ {h} : at'[i] = at[i] /\ req'[i] = req[i]
           /\ \/ /\ isolation' = isolation
                 /\ req'[h].n \in {0, req[h].n}
                 /\ at'[h] \in {"secret", "insert"} =>
                       \/ at[h] \in {"secret", "insert"}
                       \/ at[h] = "isolate" /\ Isolated(req[h].n)
              \/ /\ isolation' = isolation \cup {TenantObjects[req[h].n + 1]}
                 /\ req'[h].n = req[h].n + 1
                 /\ at' = at
<1>1. /\ at \in [Handlers -> Steps] /\ req \in [Handlers -> Requests]
      /\ app \in [Builds -> {"absent", "running", "stopped"}]
      /\ envSecret \in [Projects -> -1..MaxEdits]
      /\ dbSecret \in [SecretNames -> Passwords]
  BY DEF TypeInv, TypeOK
<1>2. /\ req[h] \in Requests /\ req[h].n \in Int
      /\ R(h) \in Projects /\ OfDb(R(h)) \in SecretNames
  BY RequestTypes DEF Requests
<1>3. NoRequest \in Requests /\ NoRequest.n = 0
  BY IdleTypes
<1>4. CASE FindDatabase(h) \/ CheckRole(h) \/ CheckDatabase(h) \/ LockDown(h)
  <2>1. UNCHANGED <<cluster, wat, work>>
    BY <1>4 DEF FindDatabase, CheckRole, CheckDatabase, LockDown
  <2>2. /\ at'[h] \notin {"secret", "insert"}
        /\ \A i \in Handlers \ {h} : at'[i] = at[i] /\ req'[i] = req[i]
    BY <1>1, <1>4 DEF FindDatabase, CheckRole, CheckDatabase, LockDown, GoTo, Set
  <2>3. req'[h].n = req[h].n
    <3>1. CASE FindDatabase(h)
      BY <1>1, <1>2, <3>1 DEF FindDatabase, Set, Requests
    <3>2. CASE CheckRole(h)
      BY <1>1, <1>2, <3>2 DEF CheckRole, Set, Requests
    <3>3. CASE CheckDatabase(h)
      BY <1>1, <1>2, <3>3 DEF CheckDatabase, Set, Requests
    <3>4. CASE LockDown(h)
      BY <3>4 DEF LockDown
    <3> QED
      BY <1>4, <3>1, <3>2, <3>3, <3>4
  <2> QED
    BY <2>1, <2>2, <2>3 DEF Used, cluster
<1>5. CASE ProvisionRole(h) \/ ProvisionDatabase(h)
  BY <1>1, <1>2, <1>3, <1>5
  DEF ProvisionRole, ProvisionDatabase, Return, GoTo, Set, Used, cluster
<1>6. CASE RequestIsolates(h)
  BY <1>1, <1>2, <1>6 DEF RequestIsolates, EnsureTenant, GoTo, Set, Used, Requests
<1>7. CASE ApplyDbSecret(h)
  BY <1>1, <1>2, <1>3, <1>7 DEF ApplyDbSecret, Return, GoTo, Set
<1>8. CASE InsertBinding(h) \/ ListDeployments(h) \/ RequestFails(h)
  BY <1>1, <1>2, <1>3, <1>8
  DEF InsertBinding, ListDeployments, RequestFails, Return, GoTo, Set, Used, Requests,
      cluster
<1>9. CASE \E c \in Commits : FanoutScale(h, c)
  <2>1. PICK c \in Commits : FanoutScale(h, c)
    BY <1>9
  <2>2. <<R(h), c>> \in Builds
    BY <1>2 DEF Builds
  <2>3. \A b \in Builds : app'[b] # "absent" => app[b] # "absent"
    BY <1>1, <2>1, <2>2 DEF FanoutScale
  <2>4. Used' => Used
    BY <2>1, <2>3 DEF FanoutScale, Used
  <2> QED
    BY <1>1, <1>2, <1>3, <2>1, <2>4 DEF FanoutScale, Return, GoTo, Set, Requests
<1>10. CASE DeleteDeployments(h)
  BY <1>1, <1>2, <1>10 DEF DeleteDeployments, GoTo, Set, Used, Requests
<1>11. CASE DeleteServices(h) \/ DeleteRoutes(h)
  BY <1>1, <1>2, <1>11 DEF DeleteServices, DeleteRoutes, Swept, GoTo, Set, Used, Requests
<1>12. CASE DeleteEnvSecret(h) \/ DeleteDbSecret(h)
  BY <1>1, <1>2, <1>12 DEF DeleteEnvSecret, DeleteDbSecret, GoTo, Set, Used, Requests
<1>13. CASE DeleteJobs(h) \/ DeleteGitSecrets(h)
  BY <1>1, <1>2, <1>13 DEF DeleteJobs, DeleteGitSecrets, GoTo, Set, Used, Requests
<1>14. CASE ListDeploymentIDs(h) \/ DeleteRow(h)
  BY <1>1, <1>2, <1>3, <1>14
  DEF ListDeploymentIDs, DeleteRow, Return, GoTo, Set, Used, Requests, cluster
<1> QED
  BY <1>4, <1>5, <1>6, <1>7, <1>8, <1>9, <1>10, <1>11, <1>12, <1>13, <1>14
  DEF RequestStep

\* The isolation survives every step.
LEMMA IsolationNext ==
    ASSUME TypeInv, IsolationInv, [Next]_vars
    PROVE  IsolationInv'
<1>1. TypeOK /\ TypeInv'
  BY TypeNext DEF TypeInv
<1>2. \A n : Isolated(n) /\ Has(n, isolation) => isolation = Isolation
  BY <1>1, HasAll
<1>3. ASSUME NEW n \in 0..Len(TenantObjects), Has(n, isolation), isolation \subseteq isolation'
      PROVE  /\ Has(n, isolation') /\ Has(0, isolation')
             /\ isolation' = isolation \cup {TenantObjects[n + 1]} => Has(n + 1, isolation')
  BY <1>1, <1>3, HasMore
<1>4. ASSUME isolation = Isolation, isolation \subseteq isolation'
      PROVE  isolation' = Isolation
  BY <1>1, <1>4 DEF TypeInv, TypeOK
<1>5. \A w \in Workers : work[w].n \in 0..Len(TenantObjects)
  BY <1>1, AttemptTypes
<1>6. \A h \in Handlers : req[h].n \in 0..Len(TenantObjects)
  BY RequestTypes
<1>7. CASE \E w \in Workers : WorkerStep(w)
  <2>1. PICK w \in Workers : WorkerStep(w)
    BY <1>7
  <2>2. UNCHANGED <<at, req>>
    BY <2>1, WorkerTypes
  <2>3. /\ Used' => Used \/ wat[w] \in Applying
        /\ \A v \in Workers \ {w} : wat'[v] = wat[v] /\ work'[v] = work[v]
        /\ \/ /\ isolation' = isolation
              /\ work'[w].n \in {0, work[w].n}
              /\ wat'[w] \in Applying =>
                    wat[w] \in Applying \/ (wat[w] = "isolate" /\ Isolated(work[w].n))
           \/ /\ isolation' = isolation \cup {TenantObjects[work[w].n + 1]}
              /\ work'[w].n = work[w].n + 1
              /\ wat' = wat
    BY <2>1, WorkerIsolation
  <2>4. isolation \subseteq isolation'
    BY <2>3
  <2>5. Used' => isolation' = Isolation
    BY <1>4, <2>3, <2>4 DEF IsolationInv
  <2>6. Has(work'[w].n, isolation')
    BY <1>3, <1>5, <2>3, <2>4 DEF IsolationInv
  <2>7. wat'[w] \in Applying => isolation' = Isolation
    BY <1>2, <1>4, <2>3, <2>4 DEF IsolationInv
  <2>8. ASSUME NEW v \in Workers \ {w}
        PROVE  Has(work'[v].n, isolation') /\ (wat'[v] \in Applying => isolation' = Isolation)
    BY <1>3, <1>4, <1>5, <2>3, <2>4 DEF IsolationInv
  <2>9. ASSUME NEW h \in Handlers
        PROVE  /\ Has(req'[h].n, isolation')
               /\ at'[h] \in {"secret", "insert"} => isolation' = Isolation
    BY <1>3, <1>4, <1>6, <2>2, <2>4 DEF IsolationInv
  <2> QED
    BY <2>5, <2>6, <2>7, <2>8, <2>9 DEF IsolationInv
<1>8. CASE \E h \in Handlers : RequestStep(h)
  <2>1. PICK h \in Handlers : RequestStep(h)
    BY <1>8
  <2>2. /\ Used' => Used \/ at[h] = "secret"
        /\ UNCHANGED <<wat, work>>
        /\ \A i \in Handlers \ {h} : at'[i] = at[i] /\ req'[i] = req[i]
        /\ \/ /\ isolation' = isolation
              /\ req'[h].n \in {0, req[h].n}
              /\ at'[h] \in {"secret", "insert"} =>
                    \/ at[h] \in {"secret", "insert"}
                    \/ at[h] = "isolate" /\ Isolated(req[h].n)
           \/ /\ isolation' = isolation \cup {TenantObjects[req[h].n + 1]}
              /\ req'[h].n = req[h].n + 1
              /\ at' = at
    BY <2>1, RequestIsolation
  <2>3. isolation \subseteq isolation'
    BY <2>2
  <2>4. Used' => isolation' = Isolation
    BY <1>4, <2>2, <2>3 DEF IsolationInv
  <2>5. Has(req'[h].n, isolation')
    BY <1>3, <1>6, <2>2, <2>3 DEF IsolationInv
  <2>6. at'[h] \in {"secret", "insert"} => isolation' = Isolation
    BY <1>2, <1>4, <2>2, <2>3 DEF IsolationInv
  <2>7. ASSUME NEW i \in Handlers \ {h}
        PROVE  /\ Has(req'[i].n, isolation')
               /\ at'[i] \in {"secret", "insert"} => isolation' = Isolation
    BY <1>3, <1>4, <1>6, <2>2, <2>3 DEF IsolationInv
  <2>8. ASSUME NEW w \in Workers
        PROVE  Has(work'[w].n, isolation') /\ (wat'[w] \in Applying => isolation' = Isolation)
    BY <1>3, <1>4, <1>5, <2>2, <2>3 DEF IsolationInv
  <2> QED
    BY <2>4, <2>5, <2>6, <2>7, <2>8 DEF IsolationInv
<1>9. ASSUME UNCHANGED <<isolation, app, envSecret, dbSecret, wat, work>>,
             \A h \in Handlers :
                 /\ req'[h].n \in {0, req[h].n}
                 /\ at'[h] \in {"secret", "insert"} => at[h] \in {"secret", "insert"}
      PROVE  IsolationInv'
  <2>1. Used' => Used
    BY <1>9 DEF Used
  <2>2. \A h \in Handlers : Has(req'[h].n, isolation')
    BY <1>3, <1>6, <1>9 DEF IsolationInv
  <2>3. \A w \in Workers : Has(work'[w].n, isolation')
    BY <1>3, <1>5, <1>9 DEF IsolationInv
  <2> QED
    BY <1>9, <2>1, <2>2, <2>3 DEF IsolationInv
<1>10. CASE \E h \in Handlers, p \in Projects :
             CreateDatabase(h, p) \/ DeleteProject(h, p)
             \/ Scale(h, "stop", p) \/ Scale(h, "start", p)
  <2>1. PICK h \in Handlers, p \in Projects :
             CreateDatabase(h, p) \/ DeleteProject(h, p)
             \/ Scale(h, "stop", p) \/ Scale(h, "start", p)
    BY <1>10
  <2>2. UNCHANGED <<cluster, wat, work>>
    BY <2>1 DEF CreateDatabase, DeleteProject, Scale
  <2>3. PICK via, step : /\ step \in {"find", "deployments", "jobs", "list"}
                         /\ GoTo(h, step)
                         /\ Set(h, [NoRequest EXCEPT !.via = via, !.proj = p])
    BY <2>1 DEF CreateDatabase, DeleteProject, Scale, Request
  <2>4. [NoRequest EXCEPT !.via = via, !.proj = p].n = 0
    BY IdleTypes DEF Requests
  <2> QED
    BY <1>1, <1>9, <2>2, <2>3, <2>4 DEF GoTo, Set, TypeOK, cluster
<1>11. CASE (\E b \in Builds : Push(b)) \/ (\E p \in Projects : EditEnv(p)) \/ Uninstall
  BY <1>9, <1>11 DEF Push, EditEnv, Uninstall, cluster, actors
<1>12. CASE \E b \in Builds : JobEnds(b)
  BY <1>9, <1>12 DEF JobEnds, actors
<1>13. CASE UNCHANGED vars
  BY <1>9, <1>13 DEF vars, cluster, actors
<1>14. CASE Crash
  <2>1. /\ \A w \in Workers : wat'[w] = "idle" /\ work'[w].n = 0
        /\ \A h \in Handlers : at'[h] = "idle" /\ req'[h].n = 0
        /\ UNCHANGED cluster
    BY <1>14, IdleTypes DEF Crash
  <2>2. Used' = Used /\ isolation' = isolation
    BY <2>1 DEF Used, cluster
  <2>3. Has(0, isolation')
    BY DEF Has
  <2> QED
    BY <2>1, <2>2, <2>3 DEF IsolationInv, Applying
<1> QED
  BY <1>7, <1>8, <1>10, <1>11, <1>12, <1>13, <1>14 DEF Next

\* No workload and no Secret of a tenant is applied before everything that
\* isolates its namespace: whichever worker or request applies it, and
\* wherever the others are in ensureTenant.
THEOREM IsolationFirst == Spec => []IsolatedBeforeUse
<1>1. Init => IsolationInv
  <2> SUFFICES ASSUME Init PROVE IsolationInv
    OBVIOUS
  <2>1. Has(0, isolation)
    BY DEF Has
  <2> QED
    BY <2>1, IdleTypes DEF Init, IsolationInv, Used, Applying
<1>2. TypeInv /\ IsolationInv /\ [Next]_vars => IsolationInv'
  BY IsolationNext
<1>3. IsolationInv => IsolatedBeforeUse
  BY DEF IsolationInv, IsolatedBeforeUse, Used
<1> QED
  BY TypeInit, TypeNext, <1>1, <1>2, <1>3, PTL DEF Spec

-----------------------------------------------------------------------------
(***************************************************************************)
(* What a binding promises, while "Add database" is not pressed again      *)
(* before it answers.                                                      *)
(***************************************************************************)

\* At most one request adds a database.
OneDatabaseRequest ==
    \A h, i \in Handlers : at[h] \in CreateSteps /\ at[i] \in CreateSteps => h = i

\* What is true of a request that makes a new database, at its place.
NewDatabase(h) ==
    at[h] \in CreateSteps /\ req[h].fresh =>
      /\ at[h] # "find" /\ binding[R(h)] = 0
      /\ at[h] \notin {"checkRole", "role"} => role[R(h)] = req[h].pw
      /\ at[h] \notin {"checkRole", "role", "checkDatabase", "database"} =>
            R(h) \in database

DatabaseInv ==
    /\ OneDatabaseRequest
    /\ BindingAuthenticates
    /\ \A h \in Handlers : NewDatabase(h)

\* A request that is idle, scales or deletes does not add a database.
LEMMA OtherSteps ==
    /\ "idle" \notin CreateSteps
    /\ CreateSteps \cap ScaleSteps = {} /\ CreateSteps \cap DeleteSteps = {}
    /\ ScaleSteps \cap DeleteSteps = {}
BY DEF CreateSteps, ScaleSteps, DeleteSteps

\* Steps that leave Postgres alone, drop rows of project_databases only, and
\* leave no further request among those that add a database.
LEMMA DatabaseUntouched ==
    ASSUME TypeInv, DatabaseInv, UNCHANGED <<role, database>>,
           \A p \in Projects : binding'[p] \in {0, binding[p]},
           \A h \in Handlers :
              at'[h] \in CreateSteps => at'[h] = at[h] /\ req'[h] = req[h]
    PROVE  DatabaseInv'
<1>1. OneDatabaseRequest'
  BY DEF DatabaseInv, OneDatabaseRequest
<1>2. BindingAuthenticates'
  BY DEF DatabaseInv, BindingAuthenticates
<1>3. \A h \in Handlers : R(h) \in Projects
  BY RequestTypes
<1>4. \A h \in Handlers : NewDatabase(h)'
  BY <1>3 DEF DatabaseInv, NewDatabase, R
<1> QED
  BY <1>1, <1>2, <1>4 DEF DatabaseInv

\* The steps of "Add database" after the lookup, which one request takes.
LEMMA DatabaseAdvances ==
    ASSUME TypeInv, DatabaseInv, NEW h \in Handlers, at[h] \in CreateSteps,
           \A i \in Handlers \ {h} : at'[i] = at[i] /\ req'[i] = req[i],
           BindingAuthenticates', NewDatabase(h)'
    PROVE  DatabaseInv'
<1>1. OneDatabaseRequest'
  BY DEF DatabaseInv, OneDatabaseRequest
<1>2. \A i \in Handlers \ {h} : at'[i] \notin CreateSteps
  BY DEF DatabaseInv, OneDatabaseRequest
<1>3. \A i \in Handlers : NewDatabase(i)'
  BY <1>2 DEF NewDatabase
<1> QED
  BY <1>1, <1>3 DEF DatabaseInv

\* The database, the role's password and the row, in this order.
LEMMA DatabaseSteps ==
    ASSUME TypeInv, DatabaseInv, NEW h \in Handlers,
           \/ FindDatabase(h) \/ CheckRole(h) \/ ProvisionRole(h) \/ CheckDatabase(h)
           \/ ProvisionDatabase(h) \/ LockDown(h) \/ RequestIsolates(h)
           \/ ApplyDbSecret(h) \/ InsertBinding(h)
    PROVE  DatabaseInv'
<1>1. /\ at \in [Handlers -> Steps] /\ req \in [Handlers -> Requests]
      /\ role \in [Projects -> Passwords] /\ binding \in [Projects -> Passwords]
  BY DEF TypeInv, TypeOK
<1>2. /\ req[h] \in Requests /\ R(h) \in Projects /\ Local(at[h], req[h])
      /\ req[h].pw \in Passwords
  BY RequestTypes
<1>3. NoRequest \in Requests /\ ~NoRequest.fresh
  BY IdleTypes
<1>4. NewDatabase(h) /\ BindingAuthenticates
  BY DEF DatabaseInv
<1>5. ASSUME at[h] \in CreateSteps, BindingAuthenticates', NewDatabase(h)',
             \A i \in Handlers \ {h} : at'[i] = at[i] /\ req'[i] = req[i]
      PROVE  DatabaseInv'
  BY <1>5, DatabaseAdvances
<1>6. ASSUME UNCHANGED <<role, database, binding>> PROVE BindingAuthenticates'
  BY <1>4, <1>6 DEF BindingAuthenticates
<1>7. ASSUME Return(h)
      PROVE  NewDatabase(h)' /\ \A i \in Handlers \ {h} : at'[i] = at[i] /\ req'[i] = req[i]
  BY <1>1, <1>7 DEF Return, GoTo, Set, NewDatabase, CreateSteps
<1>8. CASE FindDatabase(h)
  <2>1. /\ at[h] = "find" /\ UNCHANGED <<role, database, binding>>
        /\ \A i \in Handlers \ {h} : at'[i] = at[i] /\ req'[i] = req[i]
    BY <1>1, <1>8 DEF FindDatabase, GoTo, Set, tables, postgres
  <2>2. CASE binding[R(h)] # 0
    <3>1. at'[h] = "isolate" /\ req'[h].fresh = req[h].fresh /\ R(h)' = R(h)
      BY <1>1, <1>2, <1>8, <2>2 DEF FindDatabase, GoTo, Set, R, Requests
    <3> QED
      BY <1>4, <1>5, <1>6, <2>1, <3>1 DEF NewDatabase, CreateSteps
  <2>3. CASE binding[R(h)] = 0
    <3>1. GoTo(h, "checkRole") /\ Set(h, [req[h] EXCEPT !.pw = minted + 1, !.fresh = TRUE])
      BY <1>8, <2>3 DEF FindDatabase
    <3>2. [req[h] EXCEPT !.pw = minted + 1, !.fresh = TRUE].proj = R(h)
      BY <1>2 DEF Requests, R
    <3>3. at'[h] = "checkRole" /\ R(h)' = R(h)
      BY <1>1, <3>1, <3>2 DEF GoTo, Set, R
    <3> QED
      BY <1>5, <1>6, <2>1, <2>3, <3>3 DEF NewDatabase, CreateSteps
  <2> QED
    BY <2>2, <2>3
<1>9. CASE CheckRole(h) \/ CheckDatabase(h) \/ LockDown(h)
  <2>1. /\ at[h] \in {"checkRole", "checkDatabase", "lockDown"}
        /\ UNCHANGED <<role, database, binding>>
        /\ \A i \in Handlers \ {h} : at'[i] = at[i] /\ req'[i] = req[i]
    BY <1>1, <1>9 DEF CheckRole, CheckDatabase, LockDown, GoTo, Set, tables, postgres
  <2>2. at'[h] = (CASE at[h] = "checkRole" -> "role"
                    [] at[h] = "checkDatabase" -> "database"
                    [] at[h] = "lockDown" -> "isolate")
    BY <1>1, <1>9 DEF CheckRole, CheckDatabase, LockDown, GoTo
  <2>3. R(h)' = R(h) /\ req'[h].pw = req[h].pw /\ req'[h].fresh = req[h].fresh
    <3>1. CASE CheckRole(h)
      BY <1>1, <1>2, <3>1 DEF CheckRole, Set, R, Requests
    <3>2. CASE CheckDatabase(h)
      BY <1>1, <1>2, <3>2 DEF CheckDatabase, Set, R, Requests
    <3>3. CASE LockDown(h)
      BY <3>3 DEF LockDown, R
    <3> QED
      BY <1>9, <3>1, <3>2, <3>3
  <2> QED
    BY <1>4, <1>5, <1>6, <2>1, <2>2, <2>3 DEF NewDatabase, CreateSteps
<1>10. CASE ProvisionRole(h)
  <2>1. at[h] = "role" /\ UNCHANGED <<binding, database>> /\ req[h].fresh
    BY <1>2, <1>10 DEF ProvisionRole, Local, NewSteps, tables
  <2>2. CASE Return(h) /\ UNCHANGED role
    BY <1>5, <1>6, <1>7, <2>1, <2>2 DEF CreateSteps
  <2>3. CASE RoleDDL(h) /\ GoTo(h, "checkDatabase") /\ UNCHANGED req
    <3>1. binding[R(h)] = 0
      BY <1>4, <2>1 DEF NewDatabase, CreateSteps
    <3>2. role'[R(h)] = req[h].pw /\ \A p \in Projects \ {R(h)} : role'[p] = role[p]
      BY <1>1, <1>2, <2>3 DEF RoleDDL
    <3>3. BindingAuthenticates'
      BY <1>4, <2>1, <3>1, <3>2 DEF BindingAuthenticates
    <3>4. NewDatabase(h)'
      BY <1>1, <2>1, <2>3, <3>1, <3>2 DEF NewDatabase, GoTo, R
    <3> QED
      BY <1>1, <1>5, <2>1, <2>3, <3>3, <3>4 DEF GoTo, CreateSteps
  <2> QED
    BY <1>10, <2>2, <2>3 DEF ProvisionRole
<1>11. CASE ProvisionDatabase(h)
  <2>1. at[h] = "database" /\ UNCHANGED <<binding, role>>
    BY <1>11 DEF ProvisionDatabase, tables
  <2>2. CASE Return(h) /\ UNCHANGED database
    BY <1>5, <1>6, <1>7, <2>1, <2>2 DEF CreateSteps
  <2>3. CASE database' = database \cup {R(h)} /\ GoTo(h, "lockDown") /\ UNCHANGED req
    <3>1. BindingAuthenticates'
      BY <1>4, <2>1, <2>3 DEF BindingAuthenticates
    <3>2. NewDatabase(h)'
      BY <1>1, <1>4, <2>1, <2>3 DEF NewDatabase, CreateSteps, GoTo, R
    <3> QED
      BY <1>1, <1>5, <2>1, <2>3, <3>1, <3>2 DEF GoTo, CreateSteps
  <2> QED
    BY <1>11, <2>2, <2>3 DEF ProvisionDatabase
<1>12. CASE RequestIsolates(h)
  <2>1. at[h] = "isolate" /\ UNCHANGED <<role, database, binding>>
    BY <1>12 DEF RequestIsolates, tables, postgres
  <2>2. /\ at'[h] \in {"isolate", "secret"}
        /\ R(h)' = R(h) /\ req'[h].pw = req[h].pw /\ req'[h].fresh = req[h].fresh
        /\ \A i \in Handlers \ {h} : at'[i] = at[i] /\ req'[i] = req[i]
    BY <1>1, <1>2, <1>12 DEF RequestIsolates, GoTo, Set, R, Requests
  <2> QED
    BY <1>4, <1>5, <1>6, <2>1, <2>2 DEF NewDatabase, CreateSteps
<1>13. CASE ApplyDbSecret(h)
  <2>1. at[h] = "secret" /\ UNCHANGED <<role, database, binding>>
    BY <1>13 DEF ApplyDbSecret, tables, postgres
  <2>2. CASE Return(h)
    BY <1>5, <1>6, <1>7, <2>1, <2>2 DEF CreateSteps
  <2>3. CASE GoTo(h, "insert") /\ UNCHANGED req
    <3>1. NewDatabase(h)'
      BY <1>1, <1>4, <2>1, <2>3 DEF NewDatabase, CreateSteps, GoTo, R
    <3> QED
      BY <1>1, <1>5, <1>6, <2>1, <2>3, <3>1 DEF GoTo, CreateSteps
  <2> QED
    BY <1>13, <2>2, <2>3 DEF ApplyDbSecret
<1>14. CASE InsertBinding(h)
  <2>1. at[h] = "insert" /\ UNCHANGED <<role, database>> /\ Return(h) /\ req[h].fresh
    BY <1>2, <1>14 DEF InsertBinding, postgres, Local, NewSteps
  <2>2. R(h) \in database /\ role[R(h)] = req[h].pw
    BY <1>4, <2>1 DEF NewDatabase, CreateSteps
  <2>3. \A p \in Projects : \/ binding'[p] = binding[p]
                            \/ p = R(h) /\ binding'[p] = req[h].pw
    BY <1>1, <1>2, <1>14 DEF InsertBinding
  <2>4. BindingAuthenticates'
    BY <1>4, <2>1, <2>2, <2>3 DEF BindingAuthenticates
  <2> QED
    BY <1>5, <1>7, <2>1, <2>4 DEF CreateSteps
<1> QED
  BY <1>8, <1>9, <1>10, <1>11, <1>12, <1>13, <1>14

\* The other steps of requests.
LEMMA OtherRequests ==
    ASSUME TypeInv, DatabaseInv, NEW h \in Handlers,
           \/ ListDeployments(h) \/ (\E c \in Commits : FanoutScale(h, c))
           \/ DeleteDeployments(h) \/ DeleteServices(h) \/ DeleteRoutes(h)
           \/ DeleteEnvSecret(h) \/ DeleteDbSecret(h) \/ DeleteJobs(h)
           \/ ListDeploymentIDs(h) \/ DeleteGitSecrets(h) \/ DeleteRow(h)
           \/ RequestFails(h)
    PROVE  DatabaseInv'
<1>1. /\ at \in [Handlers -> Steps] /\ req \in [Handlers -> Requests]
      /\ binding \in [Projects -> Passwords]
  BY DEF TypeInv, TypeOK
<1>2. /\ \A i \in Handlers \ {h} : at'[i] = at[i] /\ req'[i] = req[i]
  <2>1. Moves(h)
    BY RequestMoves DEF RequestStep
  <2> QED
    BY <1>1, <2>1 DEF Moves, GoTo, Set
<1>3. /\ at'[h] \notin CreateSteps
      /\ UNCHANGED <<role, database>>
      /\ \A p \in Projects : binding'[p] \in {0, binding[p]}
  <2>1. CASE ListDeployments(h) \/ RequestFails(h) \/ ListDeploymentIDs(h)
    BY <1>1, <2>1
    DEF ListDeployments, RequestFails, ListDeploymentIDs, Return, GoTo, CreateSteps, tables,
        postgres
  <2>2. CASE \E c \in Commits : FanoutScale(h, c)
    BY <1>1, <2>2 DEF FanoutScale, Return, GoTo, CreateSteps, tables, postgres
  <2>3. CASE DeleteDeployments(h) \/ DeleteJobs(h) \/ DeleteGitSecrets(h)
    BY <1>1, <2>3
    DEF DeleteDeployments, DeleteJobs, DeleteGitSecrets, GoTo, CreateSteps, tables, postgres
  <2>4. CASE DeleteServices(h) \/ DeleteRoutes(h)
    BY <1>1, <2>4
    DEF DeleteServices, DeleteRoutes, Swept, GoTo, CreateSteps, tables, postgres
  <2>5. CASE DeleteEnvSecret(h) \/ DeleteDbSecret(h)
    BY <1>1, <2>5
    DEF DeleteEnvSecret, DeleteDbSecret, GoTo, CreateSteps, tables, postgres
  <2>6. CASE DeleteRow(h)
    BY <1>1, <2>6 DEF DeleteRow, Return, GoTo, CreateSteps, postgres
  <2> QED
    BY <2>1, <2>2, <2>3, <2>4, <2>5, <2>6
<1> QED
  BY <1>2, <1>3, DatabaseUntouched

\* The binding survives every step.
LEMMA DatabaseNext ==
    ASSUME ~DoubleClick, TypeInv, DatabaseInv, [Next]_vars
    PROVE  DatabaseInv'
<1>1. /\ at \in [Handlers -> Steps] /\ req \in [Handlers -> Requests]
  BY DEF TypeInv, TypeOK
<1>2. ASSUME UNCHANGED <<role, database, binding>>,
             \A h \in Handlers :
                at'[h] \in CreateSteps => at'[h] = at[h] /\ req'[h] = req[h]
      PROVE  DatabaseInv'
  BY <1>2, DatabaseUntouched
<1>3. CASE \E w \in Workers : WorkerStep(w)
  <2>1. PICK w \in Workers : WorkerStep(w)
    BY <1>3
  <2>2. UNCHANGED <<at, req>>
    BY <2>1, WorkerTypes
  <2>3. UNCHANGED <<role, database, binding>>
    BY <2>1
    DEF WorkerStep, Claim, ApplyGitSecret, EnsureBuildJob, WaitForJob, MarkDeploying,
        WorkerIsolates, ReadBinding, ReadEnv, ApplyEnvSecret, ApplyDeployment,
        ApplyService, ApplyIngressRoute, MarkReady, MarkFailed, AttemptFails, tables,
        postgres
  <2> QED
    BY <1>2, <2>2, <2>3
<1>4. CASE \E h \in Handlers, p \in Projects : CreateDatabase(h, p)
  <2>1. PICK h \in Handlers, p \in Projects : CreateDatabase(h, p)
    BY <1>4
  <2>2. /\ GoTo(h, "find") /\ at[h] = "idle" /\ UNCHANGED <<role, database, binding>>
        /\ Set(h, [NoRequest EXCEPT !.via = "database", !.proj = p])
    BY <2>1 DEF CreateDatabase, Request, tables, postgres
  <2>3. \A i \in Handlers : at[i] \notin CreateSteps
    <3>1. \A i \in Handlers : at[i] # "idle" => req[i].via # "database"
      BY <2>1 DEF CreateDatabase
    <3>2. \A i \in Handlers : at[i] \in CreateSteps => req[i].via = "database"
      BY DEF TypeInv, PlaceInv, Local
    <3> QED
      BY <3>1, <3>2, OtherSteps
  <2>4. /\ at'[h] = "find" /\ ~req'[h].fresh
        /\ \A i \in Handlers \ {h} : at'[i] \notin CreateSteps
    <3>1. ~[NoRequest EXCEPT !.via = "database", !.proj = p].fresh
      BY IdleTypes DEF Requests
    <3> QED
      BY <1>1, <2>2, <2>3, <3>1 DEF GoTo, Set
  <2>5. OneDatabaseRequest'
    BY <2>4 DEF OneDatabaseRequest
  <2>6. \A i \in Handlers : NewDatabase(i)'
    BY <2>4 DEF NewDatabase
  <2>7. BindingAuthenticates'
    BY <2>2 DEF DatabaseInv, BindingAuthenticates
  <2> QED
    BY <2>5, <2>6, <2>7 DEF DatabaseInv
<1>5. CASE \E h \in Handlers, p \in Projects :
             DeleteProject(h, p) \/ Scale(h, "stop", p) \/ Scale(h, "start", p)
  <2>1. PICK h \in Handlers, p \in Projects :
             DeleteProject(h, p) \/ Scale(h, "stop", p) \/ Scale(h, "start", p)
    BY <1>5
  <2>2. UNCHANGED <<role, database, binding>>
    BY <2>1 DEF DeleteProject, Scale, tables, postgres
  <2>3. PICK step, r : /\ step \in {"deployments", "jobs", "list"}
                       /\ GoTo(h, step) /\ Set(h, r)
    BY <2>1 DEF DeleteProject, Scale, Request
  <2>4. /\ at'[h] \notin CreateSteps
        /\ \A i \in Handlers \ {h} : at'[i] = at[i] /\ req'[i] = req[i]
    BY <1>1, <2>3 DEF GoTo, Set, CreateSteps
  <2> QED
    BY <1>2, <2>2, <2>4
<1>6. CASE \E h \in Handlers : RequestStep(h)
  BY <1>6, DatabaseSteps, OtherRequests DEF RequestStep
<1>7. CASE \/ \E b \in Builds : Push(b) \/ JobEnds(b)
           \/ \E p \in Projects : EditEnv(p)
           \/ Uninstall
  BY <1>2, <1>7 DEF Push, JobEnds, EditEnv, Uninstall, tables, postgres, actors
<1>8. CASE Crash
  <2>1. UNCHANGED <<role, database, binding>> /\ \A h \in Handlers : at'[h] = "idle"
    BY <1>8 DEF Crash, postgres
  <2> QED
    BY <1>2, <2>1, OtherSteps
<1>9. CASE UNCHANGED vars
  BY <1>2, <1>9 DEF vars, tables, postgres, actors
<1> QED
  BY <1>3, <1>4, <1>5, <1>6, <1>7, <1>8, <1>9 DEF Next

\* Nobody has a database at first.
LEMMA DatabaseInit == Init => DatabaseInv
BY OtherSteps
DEF Init, DatabaseInv, OneDatabaseRequest, BindingAuthenticates, NewDatabase

\* The row of a database names a database that exists and the password its
\* role has, wherever a request, a deletion or the process was cut off.
THEOREM BindingHolds ==
    ASSUME ~DoubleClick
    PROVE  Spec => []BindingAuthenticates
<1>1. Init => DatabaseInv
  BY DatabaseInit
<1>2. TypeInv /\ DatabaseInv /\ [Next]_vars => DatabaseInv'
  BY DatabaseNext
<1>3. DatabaseInv => BindingAuthenticates
  BY DEF DatabaseInv
<1> QED
  BY TypeInit, TypeNext, <1>1, <1>2, <1>3, PTL DEF Spec

-----------------------------------------------------------------------------
(***************************************************************************)
(* Pods that take DATABASE_URL from a Secret can connect, while no two     *)
(* projects share the Secret's name.                                       *)
(***************************************************************************)
DistinctSecrets == \A p, q \in Projects : OfDb(p) = OfDb(q) => p = q

\* What a request puts into the Secret, until a deletion begins.
Promise(h) ==
    /\ at[h] = "insert" => dbSecret[OfDb(R(h))] = req[h].pw
    /\ at[h] \in {"isolate", "secret"} /\ ~req[h].fresh =>
          binding[R(h)] # 0 /\ req[h].pw = binding[R(h)]

SecretInv ==
    /\ \A h \in Handlers : at[h] \in DeleteSteps => R(h) \in condemned
    /\ \A p \in Projects \ condemned :
          binding[p] # 0 => dbSecret[OfDb(p)] = binding[p]
    /\ \A h \in Handlers : R(h) \notin condemned => Promise(h)
    /\ \A w \in Workers : work[w].bound /\ P(w) \notin condemned => binding[P(w)] # 0
    /\ \A b \in bound : b[1] \notin condemned => binding[b[1]] # 0

\* A deletion is only ever of condemned projects.
DeletionsNamed ==
    \A h \in Handlers : at'[h] \in DeleteSteps =>
        R(h)' \in condemned' \/ (at[h] \in DeleteSteps /\ R(h)' = R(h))

\* Pods are bound to a database that was found, or stay so.
BoundByWorkers ==
    /\ \A w \in Workers : work'[w].bound =>
          \/ work[w].bound /\ P(w)' = P(w)
          \/ P(w)' \in Projects /\ binding[P(w)'] # 0
    /\ \A b \in bound' : b \in bound \/ \E w \in Workers : work[w].bound /\ b = B(w)

\* Steps that leave the Secrets and bindings of projects alone that nobody
\* deletes, and bring no request nearer to its Secret.
LEMMA SecretsUntouched ==
    ASSUME TypeInv, SecretInv, condemned \subseteq condemned',
           \A p \in Projects \ condemned' :
              binding'[p] = binding[p] /\ dbSecret'[OfDb(p)] = dbSecret[OfDb(p)],
           \A h \in Handlers : at'[h] \in {"isolate", "secret", "insert"} =>
              \/ at'[h] = at[h] /\ req'[h] = req[h]
              \/ at'[h] = "isolate" /\ req'[h].fresh,
           DeletionsNamed, BoundByWorkers
    PROVE  SecretInv'
<1>1. /\ \A h \in Handlers : R(h) \in Projects
      /\ \A w \in Workers : P(w) \in Projects /\ B(w)[1] = P(w)
      /\ \A b \in bound : b[1] \in Projects
  <2>1. \A h \in Handlers : R(h) \in Projects
    BY RequestTypes
  <2>2. \A w \in Workers : P(w) \in Projects /\ B(w)[1] = P(w)
    BY AttemptTypes DEF TypeInv
  <2>3. \A b \in bound : b[1] \in Projects
    BY DEF TypeInv, TypeOK, Builds
  <2> QED
    BY <2>1, <2>2, <2>3
<1>2. \A h \in Handlers : at'[h] \in DeleteSteps => R(h)' \in condemned'
  BY DEF SecretInv, DeletionsNamed
<1>3. \A p \in Projects \ condemned' : binding'[p] # 0 => dbSecret'[OfDb(p)] = binding'[p]
  BY DEF SecretInv
<1>4. ASSUME NEW h \in Handlers, R(h)' \notin condemned'
      PROVE  Promise(h)'
  <2>1. CASE at'[h] = at[h] /\ req'[h] = req[h]
    BY <1>1, <1>4, <2>1 DEF SecretInv, Promise, R, OfDb
  <2>2. CASE at'[h] = "isolate" /\ req'[h].fresh
    BY <2>2 DEF Promise
  <2>3. CASE at'[h] \notin {"isolate", "secret", "insert"}
    BY <2>3 DEF Promise
  <2> QED
    BY <2>1, <2>2, <2>3
<1>5. ASSUME NEW w \in Workers, work'[w].bound, P(w)' \notin condemned'
      PROVE  binding'[P(w)'] # 0
  <2>1. P(w)' \in Projects /\ binding[P(w)'] # 0
    BY <1>1, <1>5 DEF SecretInv, BoundByWorkers
  <2> QED
    BY <1>5, <2>1
<1>6. ASSUME NEW b \in bound', b[1] \notin condemned'
      PROVE  binding'[b[1]] # 0
  <2>1. b[1] \in Projects /\ binding[b[1]] # 0
    BY <1>1, <1>6 DEF SecretInv, BoundByWorkers
  <2> QED
    BY <1>6, <2>1
<1> QED
  BY <1>2, <1>3, <1>4, <1>5, <1>6 DEF SecretInv

\* A worker that found a database binds the pods it applies to it.
LEMMA WorkerBinds ==
    ASSUME TypeInv, NEW w \in Workers, WorkerStep(w)
    PROVE  BoundByWorkers /\ UNCHANGED <<binding, dbSecret, condemned>>
<1>1. work \in [Workers -> Attempts] /\ wat \in [Workers -> WorkerSteps]
  BY DEF TypeInv, TypeOK
<1>2. work[w] \in Attempts /\ B(w) \in Builds /\ P(w) \in Projects
  BY AttemptTypes DEF TypeInv
<1>3. NoAttempt \in Attempts /\ ~NoAttempt.bound
  BY IdleTypes
<1>4. UNCHANGED <<binding, dbSecret, condemned>>
  BY DEF WorkerStep, Claim, ApplyGitSecret, EnsureBuildJob, WaitForJob, MarkDeploying,
     WorkerIsolates, ReadBinding, ReadEnv, ApplyEnvSecret, ApplyDeployment,
     ApplyService, ApplyIngressRoute, MarkReady, MarkFailed, AttemptFails, tables,
     cluster, history
<1>5. CASE \E b \in Builds : Claim(w, b)
  <2>1. PICK b \in Builds : Claim(w, b)
    BY <1>5
  <2>2. ~[NoAttempt EXCEPT !.build = b].bound
    BY <1>3 DEF Attempts
  <2>3. work'[w] = [NoAttempt EXCEPT !.build = b] /\ UNCHANGED bound
        /\ \A v \in Workers \ {w} : work'[v] = work[v]
    BY <1>1, <2>1 DEF Claim, cluster
  <2> QED
    BY <1>4, <2>2, <2>3 DEF BoundByWorkers, P
<1>6. CASE ApplyGitSecret(w) \/ EnsureBuildJob(w) \/ WaitForJob(w) \/ MarkDeploying(w)
           \/ ApplyEnvSecret(w) \/ ApplyService(w) \/ ApplyIngressRoute(w)
           \/ AttemptFails(w)
  <2>1. UNCHANGED <<work, bound>>
    BY <1>6
    DEF ApplyGitSecret, EnsureBuildJob, WaitForJob, MarkDeploying, ApplyEnvSecret,
        ApplyService, ApplyIngressRoute, AttemptFails, cluster
  <2> QED
    BY <1>4, <2>1 DEF BoundByWorkers, P
<1>7. CASE WorkerIsolates(w) \/ ReadEnv(w)
  <2>1. UNCHANGED bound
    BY <1>7 DEF WorkerIsolates, ReadEnv, cluster
  <2>2. \/ UNCHANGED work
        \/ work' = [work EXCEPT ![w].n = @ + 1]
        \/ \E x : work' = [work EXCEPT ![w].vars = x]
    <3>1. CASE WorkerIsolates(w)
      BY <3>1 DEF WorkerIsolates
    <3>2. CASE ReadEnv(w)
      BY <3>2 DEF ReadEnv
    <3> QED
      BY <1>7, <3>1, <3>2
  <2>3. /\ work'[w].bound = work[w].bound /\ work'[w].build = work[w].build
        /\ \A v \in Workers \ {w} : work'[v] = work[v]
    <3>1. CASE UNCHANGED work
      BY <3>1
    <3>2. CASE work' = [work EXCEPT ![w].n = @ + 1]
      BY <1>1, <1>2, <3>2 DEF Attempts
    <3>3. ASSUME NEW x, work' = [work EXCEPT ![w].vars = x]
          PROVE  /\ work'[w].bound = work[w].bound /\ work'[w].build = work[w].build
                 /\ \A v \in Workers \ {w} : work'[v] = work[v]
      BY <1>1, <1>2, <3>3 DEF Attempts
    <3> QED
      BY <2>2, <3>1, <3>2, <3>3
  <2> QED
    BY <1>4, <2>1, <2>3 DEF BoundByWorkers, P, B
<1>8. CASE ReadBinding(w)
  <2>1. /\ P(w)' = P(w) /\ UNCHANGED bound
        /\ work'[w].bound => work[w].bound \/ HasDatabase(P(w))
        /\ \A v \in Workers \ {w} : work'[v] = work[v]
    BY <1>1, <1>2, <1>8 DEF ReadBinding, P, Attempts, cluster
  <2> QED
    BY <1>2, <1>4, <2>1 DEF BoundByWorkers, P, HasDatabase
<1>9. CASE ApplyDeployment(w)
  BY <1>4, <1>9 DEF ApplyDeployment, BoundByWorkers, P
<1>10. CASE MarkReady(w) \/ MarkFailed(w)
  <2>1. /\ ~work'[w].bound /\ UNCHANGED bound
        /\ \A v \in Workers \ {w} : work'[v] = work[v]
    BY <1>1, <1>3, <1>10 DEF MarkReady, MarkFailed, WorkerDone, cluster
  <2> QED
    BY <1>4, <2>1 DEF BoundByWorkers, P
<1> QED
  BY <1>4, <1>5, <1>6, <1>7, <1>8, <1>9, <1>10 DEF WorkerStep

\* Requests that neither worker nor pods see.
LEMMA BoundAsBefore ==
    ASSUME TypeInv, UNCHANGED work, bound' \subseteq bound
    PROVE  BoundByWorkers
BY DEF BoundByWorkers, P

\* "Add database": the Secret has the password before the row does.
LEMMA SecretSteps ==
    ASSUME DistinctSecrets, TypeInv, DatabaseInv, SecretInv, NEW h \in Handlers,
           \/ FindDatabase(h) \/ CheckRole(h) \/ ProvisionRole(h) \/ CheckDatabase(h)
           \/ ProvisionDatabase(h) \/ LockDown(h) \/ RequestIsolates(h)
           \/ ApplyDbSecret(h) \/ InsertBinding(h)
    PROVE  SecretInv'
<1>1. /\ at \in [Handlers -> Steps] /\ req \in [Handlers -> Requests]
      /\ dbSecret \in [SecretNames -> Passwords] /\ binding \in [Projects -> Passwords]
  BY DEF TypeInv, TypeOK
<1>2. /\ req[h] \in Requests /\ R(h) \in Projects /\ Local(at[h], req[h])
      /\ OfDb(R(h)) \in SecretNames
  BY RequestTypes
<1>3. /\ at[h] \in CreateSteps
      /\ UNCHANGED <<work, bound, condemned>>
      /\ \A i \in Handlers \ {h} : at'[i] = at[i] /\ req'[i] = req[i]
  <2>1. at[h] \in CreateSteps
    BY DEF FindDatabase, CheckRole, ProvisionRole, CheckDatabase, ProvisionDatabase,
       LockDown, RequestIsolates, ApplyDbSecret, InsertBinding, CreateSteps
  <2>2. UNCHANGED <<work, bound, condemned>>
    BY DEF FindDatabase, CheckRole, ProvisionRole, CheckDatabase, ProvisionDatabase,
       LockDown, RequestIsolates, ApplyDbSecret, InsertBinding, cluster, history
  <2>3. Moves(h)
    BY DatabaseTypes
  <2>4. \A i \in Handlers \ {h} : at'[i] = at[i] /\ req'[i] = req[i]
    BY <1>1, <2>3 DEF Moves, GoTo, Set
  <2> QED
    BY <2>1, <2>2, <2>4
<1>4. BoundByWorkers
  BY <1>3, BoundAsBefore
<1>5. \A i \in Handlers \ {h} : at'[i] \notin CreateSteps
  BY <1>3 DEF DatabaseInv, OneDatabaseRequest
<1>6. \A i \in Handlers \ {h} : Promise(i)'
  BY <1>5 DEF Promise, CreateSteps
<1>7. ASSUME at'[h] \notin DeleteSteps, UNCHANGED <<binding, dbSecret>>, Promise(h)'
      PROVE  SecretInv'
  <2>1. \A i \in Handlers : at'[i] \in DeleteSteps => R(i)' \in condemned'
    BY <1>3, <1>7 DEF SecretInv, R
  <2>2. \A w \in Workers : work'[w].bound /\ P(w)' \notin condemned' => binding'[P(w)'] # 0
    BY <1>3, <1>7 DEF SecretInv, P
  <2> QED
    BY <1>3, <1>6, <1>7, <2>1, <2>2 DEF SecretInv, OfDb
<1>8. CASE FindDatabase(h)
  <2>1. UNCHANGED <<binding, dbSecret>>
    BY <1>8 DEF FindDatabase, tables, cluster
  <2>2. CASE binding[R(h)] # 0
    <3>1. /\ GoTo(h, "isolate") /\ Set(h, [req[h] EXCEPT !.pw = binding[R(h)]])
      BY <1>8, <2>2 DEF FindDatabase
    <3>2. at'[h] = "isolate" /\ R(h)' = R(h) /\ req'[h].pw = binding[R(h)]
      BY <1>1, <1>2, <3>1 DEF GoTo, Set, R, Requests
    <3> QED
      BY <1>7, <2>1, <2>2, <3>2 DEF Promise, DeleteSteps
  <2>3. CASE binding[R(h)] = 0
    <3>1. at'[h] = "checkRole"
      BY <1>1, <1>8, <2>3 DEF FindDatabase, GoTo
    <3> QED
      BY <1>7, <2>1, <3>1 DEF Promise, DeleteSteps
  <2> QED
    BY <2>2, <2>3
<1>9. CASE CheckRole(h) \/ ProvisionRole(h) \/ CheckDatabase(h) \/ ProvisionDatabase(h)
  <2>1. UNCHANGED <<binding, dbSecret>>
    BY <1>9 DEF CheckRole, ProvisionRole, CheckDatabase, ProvisionDatabase, tables, cluster
  <2>2. at'[h] \in {"role", "checkDatabase", "database", "lockDown", "idle"}
    BY <1>1, <1>9
    DEF CheckRole, ProvisionRole, CheckDatabase, ProvisionDatabase, Return, GoTo
  <2> QED
    BY <1>7, <2>1, <2>2 DEF Promise, DeleteSteps
<1>10. CASE LockDown(h)
  <2>1. at'[h] = "isolate" /\ req'[h].fresh /\ UNCHANGED <<binding, dbSecret>>
    BY <1>1, <1>2, <1>10 DEF LockDown, GoTo, tables, cluster, Local, NewSteps
  <2> QED
    BY <1>7, <2>1 DEF Promise, DeleteSteps
<1>11. CASE RequestIsolates(h)
  <2>1. UNCHANGED <<binding, dbSecret>> /\ at[h] = "isolate"
    BY <1>11 DEF RequestIsolates, tables
  <2>2. /\ at'[h] \in {"isolate", "secret"}
        /\ R(h)' = R(h) /\ req'[h].pw = req[h].pw /\ req'[h].fresh = req[h].fresh
    BY <1>1, <1>2, <1>11 DEF RequestIsolates, GoTo, Set, R, Requests
  <2>3. CASE R(h) \in condemned
    <3>1. \A i \in Handlers : R(i)' \notin condemned' => Promise(i)'
      BY <1>3, <1>6, <2>2, <2>3
    <3>2. \A i \in Handlers : at'[i] \in DeleteSteps => R(i)' \in condemned'
      BY <1>3, <2>2 DEF SecretInv, R, DeleteSteps
    <3>3. \A w \in Workers :
            work'[w].bound /\ P(w)' \notin condemned' => binding'[P(w)'] # 0
      BY <1>3, <2>1 DEF SecretInv, P
    <3> QED
      BY <1>3, <2>1, <3>1, <3>2, <3>3 DEF SecretInv, OfDb
  <2>4. CASE R(h) \notin condemned
    BY <1>7, <2>1, <2>2, <2>4 DEF SecretInv, Promise, DeleteSteps
  <2> QED
    BY <2>3, <2>4
<1>12. CASE ApplyDbSecret(h)
  <2>1. /\ at[h] = "secret" /\ UNCHANGED binding
        /\ dbSecret' = [dbSecret EXCEPT ![OfDb(R(h))] = req[h].pw]
    BY <1>12 DEF ApplyDbSecret, tables
  <2>2. /\ at'[h] \in {"insert", "idle"}
        /\ at'[h] = "insert" => req'[h] = req[h]
    BY <1>1, <1>12 DEF ApplyDbSecret, Return, GoTo
  <2>3. /\ dbSecret'[OfDb(R(h))] = req[h].pw
        /\ \A p \in Projects \ {R(h)} : dbSecret'[OfDb(p)] = dbSecret[OfDb(p)]
    BY <1>1, <1>2, <2>1, ConstantsAssumption DEF DistinctSecrets, OfDb
  <2>4. R(h) \notin condemned /\ binding[R(h)] # 0 => binding[R(h)] = req[h].pw
    BY <1>3, <2>1 DEF SecretInv, Promise, DatabaseInv, NewDatabase
  <2>5. \A p \in Projects \ condemned' :
           binding'[p] # 0 => dbSecret'[OfDb(p)] = binding'[p]
    BY <1>3, <2>1, <2>3, <2>4 DEF SecretInv
  <2>6. Promise(h)'
    BY <2>2, <2>3 DEF Promise, R, OfDb
  <2>7. \A i \in Handlers : at'[i] \in DeleteSteps => R(i)' \in condemned'
    BY <1>3, <2>2 DEF SecretInv, R, DeleteSteps
  <2>8. \A w \in Workers : work'[w].bound /\ P(w)' \notin condemned' => binding'[P(w)'] # 0
    BY <1>3, <2>1 DEF SecretInv, P
  <2> QED
    BY <1>3, <1>6, <2>1, <2>5, <2>6, <2>7, <2>8 DEF SecretInv
<1>13. CASE InsertBinding(h)
  <2>1. /\ at[h] = "insert" /\ UNCHANGED dbSecret /\ at'[h] = "idle" /\ req[h].fresh
        /\ req[h].pw # 0
    BY <1>1, <1>2, <1>13 DEF InsertBinding, Return, GoTo, cluster, Local, NewSteps
  <2>2. \A p \in Projects : \/ binding'[p] = binding[p]
                            \/ p = R(h) /\ binding'[p] = req[h].pw
    BY <1>1, <1>2, <1>13 DEF InsertBinding
  <2>3. R(h) \notin condemned => dbSecret[OfDb(R(h))] = req[h].pw
    BY <2>1 DEF SecretInv, Promise
  <2>4. \A p \in Projects \ condemned' :
           binding'[p] # 0 => dbSecret'[OfDb(p)] = binding'[p]
    BY <1>3, <2>1, <2>2, <2>3 DEF SecretInv
  <2>5. Promise(h)'
    BY <2>1 DEF Promise
  <2>6. \A i \in Handlers : at'[i] \in DeleteSteps => R(i)' \in condemned'
    BY <1>3, <2>1 DEF SecretInv, R, DeleteSteps
  <2>7. \A p \in Projects : binding[p] # 0 => binding'[p] # 0
    BY <2>1, <2>2
  <2>8. \A w \in Workers : work'[w].bound /\ P(w)' \notin condemned' => binding'[P(w)'] # 0
    <3>1. \A w \in Workers : P(w) \in Projects
      BY AttemptTypes DEF TypeInv
    <3> QED
      BY <1>3, <2>7, <3>1 DEF SecretInv, P
  <2>9. \A b \in bound' : b[1] \notin condemned' => binding'[b[1]] # 0
    <3>1. \A b \in bound : b[1] \in Projects
      BY DEF TypeInv, TypeOK, Builds
    <3> QED
      BY <1>3, <2>7, <3>1 DEF SecretInv
  <2> QED
    BY <1>6, <2>4, <2>5, <2>6, <2>8, <2>9 DEF SecretInv
<1> QED
  BY <1>8, <1>9, <1>10, <1>11, <1>12, <1>13

\* The other steps of requests: only a deletion changes a binding or a
\* Secret, and it is the project's own.
LEMMA OtherSecrets ==
    ASSUME DistinctSecrets, TypeInv, SecretInv, NEW h \in Handlers,
           \/ ListDeployments(h) \/ (\E c \in Commits : FanoutScale(h, c))
           \/ DeleteDeployments(h) \/ DeleteServices(h) \/ DeleteRoutes(h)
           \/ DeleteEnvSecret(h) \/ DeleteDbSecret(h) \/ DeleteJobs(h)
           \/ ListDeploymentIDs(h) \/ DeleteGitSecrets(h) \/ DeleteRow(h)
           \/ RequestFails(h)
    PROVE  SecretInv'
<1>1. /\ at \in [Handlers -> Steps] /\ req \in [Handlers -> Requests]
      /\ binding \in [Projects -> Passwords] /\ dbSecret \in [SecretNames -> Passwords]
  BY DEF TypeInv, TypeOK
<1>2. /\ req[h] \in Requests /\ R(h) \in Projects
  BY RequestTypes
<1>3. \A i \in Handlers \ {h} : at'[i] = at[i] /\ req'[i] = req[i]
  <2>1. Moves(h)
    BY RequestMoves DEF RequestStep
  <2> QED
    BY <1>1, <2>1 DEF Moves, GoTo, Set
<1>4. CASE ListDeployments(h) \/ (\E c \in Commits : FanoutScale(h, c)) \/ RequestFails(h)
  <2>1. UNCHANGED <<binding, dbSecret, bound, work, condemned>>
    BY <1>4 DEF ListDeployments, FanoutScale, RequestFails, tables, cluster, history
  <2>2. at'[h] \in {"idle", "scale"}
    BY <1>1, <1>4 DEF ListDeployments, FanoutScale, RequestFails, Return, GoTo
  <2>3. BoundByWorkers /\ DeletionsNamed
    BY <1>3, <2>1, <2>2, BoundAsBefore DEF DeletionsNamed, R, DeleteSteps
  <2> QED
    BY <1>3, <2>1, <2>2, <2>3, SecretsUntouched DEF OfDb
<1>5. CASE \/ DeleteDeployments(h) \/ DeleteServices(h) \/ DeleteRoutes(h)
           \/ DeleteEnvSecret(h) \/ DeleteDbSecret(h) \/ DeleteJobs(h)
           \/ ListDeploymentIDs(h) \/ DeleteGitSecrets(h) \/ DeleteRow(h)
  <2>1. at[h] \in DeleteSteps
    BY <1>5
    DEF DeleteDeployments, DeleteServices, DeleteRoutes, DeleteEnvSecret, DeleteDbSecret,
        DeleteJobs, ListDeploymentIDs, DeleteGitSecrets, DeleteRow, DeleteSteps
  <2>2. R(h) \in condemned
    BY <2>1 DEF SecretInv
  <2>3. UNCHANGED <<work, condemned>>
    BY <1>5
    DEF DeleteDeployments, DeleteServices, DeleteRoutes, DeleteEnvSecret, DeleteDbSecret,
        DeleteJobs, ListDeploymentIDs, DeleteGitSecrets, DeleteRow, history
  <2>4. bound' \subseteq bound
    BY <1>5
    DEF DeleteDeployments, DeleteServices, DeleteRoutes, DeleteEnvSecret, DeleteDbSecret,
        DeleteJobs, ListDeploymentIDs, DeleteGitSecrets, DeleteRow, cluster
  <2>5. \A p \in Projects \ {R(h)} : binding'[p] = binding[p]
    BY <1>1, <1>5
    DEF DeleteDeployments, DeleteServices, DeleteRoutes, DeleteEnvSecret, DeleteDbSecret,
        DeleteJobs, ListDeploymentIDs, DeleteGitSecrets, DeleteRow, tables
  <2>6. \A p \in Projects \ {R(h)} : dbSecret'[OfDb(p)] = dbSecret[OfDb(p)]
    <3>1. CASE DeleteDbSecret(h)
      BY <1>1, <1>2, <3>1, ConstantsAssumption DEF DeleteDbSecret, DistinctSecrets, OfDb
    <3>2. CASE ~DeleteDbSecret(h)
      BY <1>5, <3>2
      DEF DeleteDeployments, DeleteServices, DeleteRoutes, DeleteEnvSecret,
          DeleteJobs, ListDeploymentIDs, DeleteGitSecrets, DeleteRow, cluster
    <3> QED
      BY <3>1, <3>2
  <2>7. /\ at'[h] \in DeleteSteps \cup {"idle"}
        /\ at'[h] \in DeleteSteps => R(h)' = R(h)
    <3>1. CASE DeleteDeployments(h) \/ DeleteJobs(h) \/ DeleteGitSecrets(h)
      BY <1>1, <1>2, <3>1
      DEF DeleteDeployments, DeleteJobs, DeleteGitSecrets, GoTo, Set, R, Requests,
          DeleteSteps
    <3>2. CASE DeleteServices(h) \/ DeleteRoutes(h)
      BY <1>1, <1>2, <3>2
      DEF DeleteServices, DeleteRoutes, Swept, GoTo, Set, R, Requests, DeleteSteps
    <3>3. CASE DeleteEnvSecret(h) \/ DeleteDbSecret(h)
      BY <1>1, <1>2, <3>3
      DEF DeleteEnvSecret, DeleteDbSecret, GoTo, Set, R, Requests, DeleteSteps
    <3>4. CASE ListDeploymentIDs(h) \/ DeleteRow(h)
      BY <1>1, <1>2, <3>4
      DEF ListDeploymentIDs, DeleteRow, Return, GoTo, Set, R, Requests, DeleteSteps
    <3> QED
      BY <1>5, <3>1, <3>2, <3>3, <3>4
  <2>8. BoundByWorkers /\ DeletionsNamed
    BY <1>3, <2>1, <2>3, <2>4, <2>7, BoundAsBefore DEF DeletionsNamed, R, DeleteSteps
  <2>9. at'[h] \notin {"isolate", "secret", "insert"}
    BY <2>7 DEF DeleteSteps
  <2> QED
    BY <1>3, <2>2, <2>3, <2>5, <2>6, <2>8, <2>9, SecretsUntouched
<1> QED
  BY <1>4, <1>5

\* The Secrets survive every step.
LEMMA SecretNext ==
    ASSUME DistinctSecrets, TypeInv, DatabaseInv, SecretInv, [Next]_vars
    PROVE  SecretInv'
<1>1. at \in [Handlers -> Steps] /\ req \in [Handlers -> Requests]
  BY DEF TypeInv, TypeOK
<1>2. ASSUME UNCHANGED <<binding, dbSecret>>, condemned \subseteq condemned',
             BoundByWorkers, DeletionsNamed,
             \A h \in Handlers : at'[h] \in {"isolate", "secret", "insert"} =>
                at'[h] = at[h] /\ req'[h] = req[h]
      PROVE  SecretInv'
  BY <1>2, SecretsUntouched DEF OfDb
<1>3. ASSUME UNCHANGED <<at, req>> PROVE DeletionsNamed
  BY <1>3 DEF DeletionsNamed, R
<1>4. CASE \E w \in Workers : WorkerStep(w)
  <2>1. PICK w \in Workers : WorkerStep(w)
    BY <1>4
  <2>2. BoundByWorkers /\ UNCHANGED <<binding, dbSecret, condemned, at, req>>
    BY <2>1, WorkerBinds, WorkerTypes
  <2> QED
    BY <1>2, <1>3, <2>2
<1>5. CASE \E h \in Handlers, p \in Projects :
             CreateDatabase(h, p) \/ DeleteProject(h, p)
             \/ Scale(h, "stop", p) \/ Scale(h, "start", p)
  <2>1. PICK h \in Handlers, p \in Projects :
             CreateDatabase(h, p) \/ DeleteProject(h, p)
             \/ Scale(h, "stop", p) \/ Scale(h, "start", p)
    BY <1>5
  <2>2. UNCHANGED <<binding, dbSecret, work, bound>> /\ condemned \subseteq condemned'
    BY <2>1 DEF CreateDatabase, DeleteProject, Scale, tables, cluster, history
  <2>3. PICK via, step :
             /\ GoTo(h, step)
             /\ Set(h, [NoRequest EXCEPT !.via = via, !.proj = p])
             /\ \/ step \in {"find", "list"}
                \/ step \in {"deployments", "jobs"} /\ p \in condemned'
    BY <2>1 DEF CreateDatabase, DeleteProject, Scale, Request
  <2>4. [NoRequest EXCEPT !.via = via, !.proj = p].proj = p
    BY IdleTypes DEF Requests
  <2>5. /\ at'[h] = step /\ R(h)' = p
        /\ \A i \in Handlers \ {h} : at'[i] = at[i] /\ req'[i] = req[i]
    BY <1>1, <2>3, <2>4 DEF GoTo, Set, R
  <2>6. DeletionsNamed
    BY <2>3, <2>5 DEF DeletionsNamed, R, DeleteSteps
  <2> QED
    BY <1>2, <2>2, <2>3, <2>5, <2>6, BoundAsBefore
<1>6. CASE \E h \in Handlers : RequestStep(h)
  BY <1>6, SecretSteps, OtherSecrets DEF RequestStep
<1>7. CASE \/ \E b \in Builds : Push(b) \/ JobEnds(b)
           \/ \E p \in Projects : EditEnv(p)
           \/ Uninstall
           \/ UNCHANGED vars
  <2>1. UNCHANGED <<binding, dbSecret, condemned, work, bound, at, req>>
    BY <1>7 DEF Push, JobEnds, EditEnv, Uninstall, tables, cluster, actors, history, vars
  <2> QED
    BY <1>2, <1>3, <2>1, BoundAsBefore
<1>8. CASE Crash
  <2>1. /\ UNCHANGED <<binding, dbSecret, condemned, bound>>
        /\ \A h \in Handlers : at'[h] = "idle"
        /\ \A w \in Workers : ~work'[w].bound
    BY <1>8, IdleTypes DEF Crash, cluster, history
  <2>2. BoundByWorkers /\ DeletionsNamed
    BY <2>1 DEF BoundByWorkers, DeletionsNamed, DeleteSteps
  <2> QED
    BY <1>2, <2>1, <2>2
<1> QED
  BY <1>4, <1>5, <1>6, <1>7, <1>8 DEF Next

\* Pods that take DATABASE_URL from a Secret find in it the password of their
\* own project's role until a deletion of the project begins: the Secret is
\* written before the row, and only a project with a row binds its pods.
THEOREM PodsConnect ==
    ASSUME ~DoubleClick, DistinctSecrets
    PROVE  Spec => []BoundPodsConnect
<1>1. Init => DatabaseInv
  BY DatabaseInit
<1>2. TypeInv /\ DatabaseInv /\ [Next]_vars => DatabaseInv'
  BY DatabaseNext
<1>3. Init => SecretInv
  BY IdleTypes DEF Init, SecretInv, Promise, DeleteSteps
<1>4. TypeInv /\ DatabaseInv /\ SecretInv /\ [Next]_vars => SecretInv'
  BY SecretNext
<1>5. TypeInv /\ DatabaseInv /\ SecretInv => BoundPodsConnect
  <2> SUFFICES ASSUME TypeInv, DatabaseInv, SecretInv, NEW b \in bound,
                      b[1] \notin condemned
               PROVE  dbSecret[OfDb(b[1])] = role[b[1]]
    BY DEF BoundPodsConnect
  <2>1. b[1] \in Projects
    BY DEF TypeInv, TypeOK, Builds
  <2> QED
    BY <2>1 DEF DatabaseInv, SecretInv, BindingAuthenticates
<1> QED
  BY TypeInit, TypeNext, <1>1, <1>2, <1>3, <1>4, <1>5, PTL DEF Spec

-----------------------------------------------------------------------------
(***************************************************************************)
(* The variables of a project in its Secret, with one worker: two could    *)
(* apply what they read in the opposite order.                             *)
(***************************************************************************)
OneWorker == \A v, w \in Workers : v = w

\* The Secret is never ahead of the rows, nor of what the worker has read.
EnvInv ==
    /\ \A p \in projects : envSecret[p] <= env[p]
    /\ \A w \in Workers :
          wat[w] = "envSecret" /\ P(w) \in projects /\ work[w].vars # -1 =>
            envSecret[P(w)] <= work[w].vars /\ work[w].vars <= env[P(w)]

\* Steps that may take variables out of the Secrets, but put none in.
LEMMA EnvUntouched ==
    ASSUME TypeInv, EnvInv, projects' \subseteq projects,
           \A p \in projects' : \/ envSecret'[p] = envSecret[p]
                                \/ envSecret'[p] = -1,
           \A p \in projects' : env'[p] \in Int /\ env[p] <= env'[p],
           \A w \in Workers : wat'[w] = "envSecret" =>
              wat[w] = "envSecret" /\ work'[w] = work[w]
    PROVE  EnvInv'
<1>1. \A p \in projects : /\ p \in Projects
                          /\ envSecret[p] \in -1..MaxEdits /\ env[p] \in 0..MaxEdits
  BY DEF TypeInv, TypeOK
<1>2. \A p \in projects' : envSecret'[p] <= env'[p]
  BY <1>1, ConstantsAssumption DEF EnvInv
<1>3. ASSUME NEW w \in Workers, wat'[w] = "envSecret", P(w)' \in projects',
             work'[w].vars # -1
      PROVE  envSecret'[P(w)'] <= work'[w].vars /\ work'[w].vars <= env'[P(w)']
  <2>1. P(w)' = P(w) /\ work'[w].vars = work[w].vars /\ wat[w] = "envSecret"
    BY <1>3 DEF P
  <2>2. /\ P(w) \in projects /\ work[w].vars \in -1..MaxEdits
        /\ envSecret[P(w)] <= work[w].vars /\ work[w].vars <= env[P(w)]
    BY <1>3, <2>1, AttemptTypes DEF EnvInv, TypeInv
  <2> QED
    BY <1>1, <1>3, <2>1, <2>2, ConstantsAssumption
<1> QED
  BY <1>2, <1>3 DEF EnvInv

\* The one worker reads the variables and then applies what it read.
LEMMA WorkerEnv ==
    ASSUME OneWorker, TypeInv, EnvInv, NEW w \in Workers, WorkerStep(w)
    PROVE  /\ EnvInv'
           /\ \A p \in projects : envSecret[p] # -1 /\ envSecret'[p] # -1
                                    => envSecret[p] <= envSecret'[p]
<1>1. /\ work \in [Workers -> Attempts] /\ wat \in [Workers -> WorkerSteps]
      /\ envSecret \in [Projects -> -1..MaxEdits] /\ env \in [Projects -> 0..MaxEdits]
      /\ projects \subseteq Projects
  BY DEF TypeInv, TypeOK
<1>2. /\ work[w] \in Attempts /\ P(w) \in Projects /\ work[w].vars \in -1..MaxEdits
  BY AttemptTypes DEF TypeInv
<1>3. UNCHANGED <<projects, env>>
  BY DEF WorkerStep, Claim, ApplyGitSecret, EnsureBuildJob, WaitForJob, MarkDeploying,
     WorkerIsolates, ReadBinding, ReadEnv, ApplyEnvSecret, ApplyDeployment,
     ApplyService, ApplyIngressRoute, MarkReady, MarkFailed, AttemptFails, tables
<1>4. \A v \in Workers : v = w
  BY DEF OneWorker
<1>5. \A p \in projects : env[p] \in Int /\ envSecret[p] \in Int
  BY <1>1, ConstantsAssumption
<1>6. ASSUME UNCHANGED envSecret, wat'[w] # "envSecret"
      PROVE  EnvInv' /\ \A p \in projects : envSecret[p] <= envSecret'[p]
  <2>1. EnvInv'
    BY <1>3, <1>4, <1>5, <1>6, EnvUntouched
  <2> QED
    BY <1>5, <1>6, <2>1
<1>7. CASE ReadEnv(w)
  <2>1. /\ wat'[w] = "envSecret" /\ UNCHANGED envSecret /\ P(w)' = P(w)
        /\ work'[w].vars \in {VarsOf(P(w)), FailedVars}
    <3>1. PICK x \in {VarsOf(P(w)), FailedVars} : work' = [work EXCEPT ![w].vars = x]
      BY <1>7 DEF ReadEnv
    <3>2. work'[w].vars = x /\ P(w)' = P(w)
      BY <1>1, <1>2, <3>1 DEF P, Attempts
    <3>3. wat'[w] = "envSecret" /\ UNCHANGED envSecret
      BY <1>1, <1>7 DEF ReadEnv, WGo, cluster
    <3> QED
      BY <3>1, <3>2, <3>3
  <2>2. P(w) \in projects /\ work'[w].vars # -1 => work'[w].vars = env[P(w)]
    BY <2>1 DEF VarsOf, FailedVars
  <2>3. P(w)' \in projects' /\ work'[w].vars # -1 =>
           envSecret'[P(w)'] <= work'[w].vars /\ work'[w].vars <= env'[P(w)']
    BY <1>3, <1>5, <2>1, <2>2 DEF EnvInv
  <2> QED
    BY <1>3, <1>4, <1>5, <2>1, <2>3 DEF EnvInv
<1>8. CASE ApplyEnvSecret(w)
  <2>1. wat[w] = "envSecret" /\ wat'[w] = "deployment" /\ UNCHANGED work
    BY <1>1, <1>8 DEF ApplyEnvSecret, WGo
  <2>2. CASE work[w].vars = -1
    <3>1. UNCHANGED envSecret
      BY <1>8, <2>2 DEF ApplyEnvSecret
    <3> QED
      BY <1>6, <2>1, <3>1
  <2>3. CASE work[w].vars # -1
    <3>1. /\ envSecret'[P(w)] = work[w].vars
          /\ \A p \in Projects \ {P(w)} : envSecret'[p] = envSecret[p]
      BY <1>1, <1>2, <1>8, <2>3 DEF ApplyEnvSecret
    <3>2. P(w) \in projects =>
             envSecret[P(w)] <= work[w].vars /\ work[w].vars <= env[P(w)]
      BY <2>1, <2>3 DEF EnvInv
    <3>3. \A p \in projects : envSecret'[p] <= env'[p] /\ envSecret[p] <= envSecret'[p]
      BY <1>1, <1>3, <1>5, <3>1, <3>2 DEF EnvInv
    <3> QED
      BY <1>3, <1>4, <2>1, <3>3 DEF EnvInv
  <2> QED
    BY <2>2, <2>3
<1>9. CASE ~ReadEnv(w) /\ ~ApplyEnvSecret(w)
  <2>1. UNCHANGED envSecret
    BY <1>9
    DEF WorkerStep, Claim, ApplyGitSecret, EnsureBuildJob, WaitForJob, MarkDeploying,
        WorkerIsolates, ReadBinding, ApplyDeployment,
        ApplyService, ApplyIngressRoute, MarkReady, MarkFailed, AttemptFails, cluster
  <2>2. wat'[w] # "envSecret"
    <3>1. CASE WorkerIsolates(w)
      BY <1>1, <3>1 DEF WorkerIsolates, WGo
    <3>2. CASE (\E b \in Builds : Claim(w, b)) \/ ApplyGitSecret(w) \/ EnsureBuildJob(w)
               \/ WaitForJob(w) \/ MarkDeploying(w) \/ ReadBinding(w)
               \/ ApplyDeployment(w) \/ ApplyService(w) \/ ApplyIngressRoute(w)
               \/ MarkReady(w) \/ MarkFailed(w) \/ AttemptFails(w)
      BY <1>1, <3>2
      DEF Claim, ApplyGitSecret, EnsureBuildJob, WaitForJob, MarkDeploying, ReadBinding,
          ApplyDeployment, ApplyService, ApplyIngressRoute, MarkReady, MarkFailed,
          AttemptFails, WorkerDone, WGo
    <3> QED
      BY <1>9, <3>1, <3>2 DEF WorkerStep
  <2> QED
    BY <1>6, <2>1, <2>2
<1> QED
  BY <1>7, <1>8, <1>9

\* Everything else only takes variables away, or edits the rows.
LEMMA EnvNext ==
    ASSUME OneWorker, TypeInv, EnvInv, [Next]_vars
    PROVE  /\ EnvInv'
           /\ \A p \in projects : envSecret[p] # -1 /\ envSecret'[p] # -1
                                    => envSecret[p] <= envSecret'[p]
<1>1. /\ envSecret \in [Projects -> -1..MaxEdits] /\ env \in [Projects -> 0..MaxEdits]
      /\ projects \subseteq Projects
  BY DEF TypeInv, TypeOK
<1>2. \A p \in projects : env[p] \in Int /\ envSecret[p] \in Int
  BY <1>1, ConstantsAssumption
<1>3. ASSUME projects' \subseteq projects,
             \A p \in Projects : envSecret'[p] = envSecret[p] \/ envSecret'[p] = -1,
             \A p \in projects' : env'[p] \in Int /\ env[p] <= env'[p],
             \A w \in Workers : wat'[w] = "envSecret" =>
                wat[w] = "envSecret" /\ work'[w] = work[w]
      PROVE  /\ EnvInv'
             /\ \A p \in projects : envSecret[p] # -1 /\ envSecret'[p] # -1
                                      => envSecret[p] <= envSecret'[p]
  <2>1. EnvInv'
    BY <1>1, <1>3, EnvUntouched
  <2> QED
    BY <1>1, <1>2, <1>3, <2>1
<1>4. CASE \E w \in Workers : WorkerStep(w)
  BY <1>4, WorkerEnv
<1>5. CASE \E h \in Handlers, p \in Projects :
             CreateDatabase(h, p) \/ DeleteProject(h, p)
             \/ Scale(h, "stop", p) \/ Scale(h, "start", p)
  <2>1. UNCHANGED <<projects, env, envSecret, wat, work>>
    BY <1>5 DEF CreateDatabase, DeleteProject, Scale, tables, cluster
  <2> QED
    BY <1>2, <1>3, <2>1
<1>6. CASE \E h \in Handlers : RequestStep(h)
  <2>1. PICK h \in Handlers : RequestStep(h)
    BY <1>6
  <2>2. UNCHANGED <<wat, work>>
    BY <2>1, RequestIsolation
  <2>3. R(h) \in Projects
    BY RequestTypes
  <2>4. CASE DeleteEnvSecret(h)
    <3>1. UNCHANGED <<projects, env>>
      BY <2>4 DEF DeleteEnvSecret, tables
    <3>2. \A p \in Projects : envSecret'[p] = envSecret[p] \/ envSecret'[p] = -1
      BY <1>1, <2>3, <2>4 DEF DeleteEnvSecret
    <3> QED
      BY <1>2, <1>3, <2>2, <3>1, <3>2
  <2>5. CASE DeleteRow(h)
    <3>1. UNCHANGED envSecret /\ projects' = projects \ {R(h)}
      BY <2>5 DEF DeleteRow, cluster
    <3>2. \A p \in projects' : env'[p] = env[p]
      BY <1>1, <2>3, <2>5, <3>1 DEF DeleteRow
    <3> QED
      BY <1>2, <1>3, <2>2, <3>1, <3>2
  <2>6. CASE ~DeleteEnvSecret(h) /\ ~DeleteRow(h)
    <3>1. UNCHANGED <<projects, env, envSecret>>
      BY <2>1, <2>6
      DEF RequestStep, FindDatabase, CheckRole, ProvisionRole, CheckDatabase,
          ProvisionDatabase, LockDown, RequestIsolates, ApplyDbSecret, InsertBinding,
          ListDeployments, FanoutScale, DeleteDeployments, DeleteServices, DeleteRoutes,
          DeleteDbSecret, DeleteJobs, ListDeploymentIDs, DeleteGitSecrets, RequestFails,
          tables, cluster
    <3> QED
      BY <1>2, <1>3, <2>2, <3>1
  <2> QED
    BY <2>4, <2>5, <2>6
<1>7. CASE \E p \in Projects : EditEnv(p)
  <2>1. UNCHANGED <<projects, envSecret, wat, work>>
    BY <1>7 DEF EditEnv, cluster, actors
  <2>2. \A p \in projects : env'[p] = env[p] \/ env'[p] = env[p] + 1
    BY <1>1, <1>7 DEF EditEnv
  <2> QED
    BY <1>2, <1>3, <2>1, <2>2
<1>8. CASE (\E b \in Builds : Push(b) \/ JobEnds(b)) \/ Uninstall \/ UNCHANGED vars
  <2>1. UNCHANGED <<projects, env, envSecret, wat, work>>
    BY <1>8 DEF Push, JobEnds, Uninstall, vars, tables, cluster, actors
  <2> QED
    BY <1>2, <1>3, <2>1
<1>9. CASE Crash
  <2>1. UNCHANGED <<projects, env, envSecret>> /\ \A w \in Workers : wat'[w] = "idle"
    BY <1>9 DEF Crash, cluster
  <2> QED
    BY <1>2, <1>3, <2>1
<1> QED
  BY <1>4, <1>5, <1>6, <1>7, <1>8, <1>9 DEF Next

\* While a project exists its Secret never goes back to older variables,
\* whichever lookups, attempts and processes fail in between.
THEOREM EnvOnlyForward ==
    ASSUME OneWorker
    PROVE  Spec => EnvNeverRollsBack
<1>1. Init => EnvInv
  BY ConstantsAssumption DEF Init, EnvInv
<1>2. TypeInv /\ EnvInv /\ [Next]_vars => EnvInv'
  BY EnvNext
<1>3. TypeInv /\ EnvInv /\ [Next]_vars =>
        [\A p \in projects : envSecret[p] # -1 /\ envSecret'[p] # -1
                               => envSecret[p] <= envSecret'[p]]_vars
  BY EnvNext
<1> QED
  BY TypeInit, TypeNext, <1>1, <1>2, <1>3, PTL DEF Spec, EnvNeverRollsBack

-----------------------------------------------------------------------------
(***************************************************************************)
(* What a deletion leaves.  Anything that is applied while it runs, or     *)
(* after it, is recorded; everything else it has passed is gone.           *)
(***************************************************************************)

\* The kinds of object a project has left, one by one.
LeftByKind(p) ==
    /\ Left(p) \subseteq Kinds
    /\ "deployment" \in Left(p) <=> \E b \in Of(p) : app[b] # "absent"
    /\ "service" \in Left(p) <=> Of(p) \cap svc # {}
    /\ "route" \in Left(p) <=> Of(p) \cap route # {}
    /\ "git" \in Left(p) <=> Of(p) \cap git # {}
    /\ "job" \in Left(p) <=> \E b \in Of(p) : job[b] # "none"
    /\ "env" \in Left(p) <=> envSecret[p] # -1
    /\ "db" \in Left(p) <=> dbSecret[OfDb(p)] # 0

\* Left is the kinds of which something is left, before a step and after it.
LEMMA LeftKinds ==
    ASSUME NEW p
    PROVE  LeftByKind(p) /\ LeftByKind(p)'
<1>1. LeftByKind(p)
  BY DEF LeftByKind, Left, Kinds
<1>2. LeftByKind(p)'
  BY DEF LeftByKind, Left, Kinds
<1> QED
  BY <1>1, <1>2

\* Nothing of a kind appears unless it is recorded, or the project exists and
\* nobody deletes it.
NoNew(kind, p) ==
    kind \in Left(p)' =>
        \/ kind \in Left(p)
        \/ <<kind, p>> \in late'
        \/ p \in projects /\ ~Deleting(p)

\* What one worker applies is recorded if it must be.
LEMMA WorkerLeaves ==
    ASSUME TypeInv, NEW w \in Workers, WorkerStep(w)
    PROVE  /\ late \subseteq late' /\ UNCHANGED <<projects, linked, warned, at, req>>
           /\ \A p \in Projects, kind \in Kinds : NoNew(kind, p)
<1>1. /\ app \in [Builds -> {"absent", "running", "stopped"}]
      /\ job \in [Builds -> {"none", "active", "succeeded", "failed"}]
      /\ envSecret \in [Projects -> -1..MaxEdits]
  BY DEF TypeInv, TypeOK
<1>2. B(w) \in Builds /\ P(w) \in Projects /\ B(w)[1] = P(w)
  BY AttemptTypes DEF TypeInv
<1>3. UNCHANGED <<projects, linked, warned, at, req>>
  <2>1. UNCHANGED <<projects, linked, warned>>
    BY DEF WorkerStep, Claim, ApplyGitSecret, EnsureBuildJob, WaitForJob, MarkDeploying,
       WorkerIsolates, ReadBinding, ReadEnv, ApplyEnvSecret, ApplyDeployment,
       ApplyService, ApplyIngressRoute, MarkReady, MarkFailed, AttemptFails, tables,
       history
  <2> QED
    BY <2>1, WorkerTypes
<1>4. ASSUME NEW kind, Applied(kind, P(w))
      PROVE  /\ late \subseteq late'
             /\ <<kind, P(w)>> \in late' \/ (P(w) \in projects /\ ~Deleting(P(w)))
  BY <1>4 DEF Applied
<1>5. ASSUME UNCHANGED <<app, svc, route, git, job, envSecret, dbSecret, late>>
      PROVE  late \subseteq late' /\ \A p \in Projects, kind \in Kinds : NoNew(kind, p)
  BY <1>5 DEF NoNew, Left, OfDb
<1>6. CASE \/ \E b \in Builds : Claim(w, b)
           \/ WaitForJob(w) \/ MarkDeploying(w) \/ WorkerIsolates(w) \/ ReadBinding(w)
           \/ ReadEnv(w) \/ MarkReady(w) \/ MarkFailed(w) \/ AttemptFails(w)
  <2>1. UNCHANGED <<app, svc, route, git, job, envSecret, dbSecret, late>>
    BY <1>6
    DEF Claim, WaitForJob, MarkDeploying, WorkerIsolates, ReadBinding, ReadEnv, MarkReady,
        MarkFailed, AttemptFails, cluster, history
  <2> QED
    BY <1>3, <1>5, <2>1
<1>7. ASSUME NEW kind \in Kinds, Applied(kind, P(w)),
             \A p \in Projects, k \in Kinds :
                 k \in Left(p)' => k \in Left(p) \/ (k = kind /\ p = P(w))
      PROVE  late \subseteq late' /\ \A p \in Projects, k \in Kinds : NoNew(k, p)
  BY <1>4, <1>7 DEF NoNew
<1>8. \A p \in Projects : LeftByKind(p) /\ LeftByKind(p)'
  BY LeftKinds
<1>9. CASE ApplyGitSecret(w)
  <2>1. \A p \in Projects, k \in Kinds :
            k \in Left(p)' => k \in Left(p) \/ (k = "git" /\ p = P(w))
    BY <1>2, <1>8, <1>9 DEF ApplyGitSecret, LeftByKind, Kinds, Of, OfDb
  <2> QED
    BY <1>3, <1>7, <1>9, <2>1 DEF ApplyGitSecret, Kinds
<1>10. CASE EnsureBuildJob(w)
  <2>1. CASE job[B(w)] \in {"none", "failed"}
    <3>1. \A p \in Projects, k \in Kinds :
              k \in Left(p)' => k \in Left(p) \/ (k = "job" /\ p = P(w))
      BY <1>1, <1>2, <1>8, <1>10, <2>1 DEF EnsureBuildJob, LeftByKind, Kinds, Of, OfDb
    <3> QED
      BY <1>3, <1>7, <1>10, <2>1, <3>1 DEF EnsureBuildJob, Kinds
  <2>2. CASE job[B(w)] \notin {"none", "failed"}
    BY <1>3, <1>5, <1>10, <2>2 DEF EnsureBuildJob
  <2> QED
    BY <2>1, <2>2
<1>11. CASE ApplyEnvSecret(w)
  <2>1. CASE work[w].vars = -1
    BY <1>3, <1>5, <1>11, <2>1 DEF ApplyEnvSecret
  <2>2. CASE work[w].vars # -1
    <3>1. \A p \in Projects, k \in Kinds :
              k \in Left(p)' => k \in Left(p) \/ (k = "env" /\ p = P(w))
      BY <1>1, <1>2, <1>8, <1>11, <2>2 DEF ApplyEnvSecret, LeftByKind, Kinds, OfDb
    <3> QED
      BY <1>3, <1>7, <1>11, <2>2, <3>1 DEF ApplyEnvSecret, Kinds
  <2> QED
    BY <2>1, <2>2
<1>12. CASE ApplyDeployment(w)
  <2>1. \A p \in Projects, k \in Kinds :
            k \in Left(p)' => k \in Left(p) \/ (k = "deployment" /\ p = P(w))
    BY <1>1, <1>2, <1>8, <1>12 DEF ApplyDeployment, LeftByKind, Kinds, Of, OfDb
  <2> QED
    BY <1>3, <1>7, <1>12, <2>1 DEF ApplyDeployment, Kinds
<1>13. CASE ApplyService(w)
  <2>1. \A p \in Projects, k \in Kinds :
            k \in Left(p)' => k \in Left(p) \/ (k = "service" /\ p = P(w))
    BY <1>2, <1>8, <1>13 DEF ApplyService, LeftByKind, Kinds, Of, OfDb
  <2> QED
    BY <1>3, <1>7, <1>13, <2>1 DEF ApplyService, Kinds
<1>14. CASE ApplyIngressRoute(w)
  <2>1. \A p \in Projects, k \in Kinds :
            k \in Left(p)' => k \in Left(p) \/ (k = "route" /\ p = P(w))
    BY <1>2, <1>8, <1>14 DEF ApplyIngressRoute, LeftByKind, Kinds, Of, OfDb
  <2> QED
    BY <1>3, <1>7, <1>14, <2>1 DEF ApplyIngressRoute, Kinds
<1> QED
  BY <1>6, <1>9, <1>10, <1>11, <1>12, <1>13, <1>14 DEF WorkerStep

\* A request applies a database's Secret, and takes everything else away.
LEMMA RequestLeaves ==
    ASSUME DistinctSecrets, TypeInv, NEW h \in Handlers, RequestStep(h)
    PROVE  late \subseteq late' /\ \A p \in Projects, kind \in Kinds : NoNew(kind, p)
<1>1. /\ app \in [Builds -> {"absent", "running", "stopped"}]
      /\ job \in [Builds -> {"none", "active", "succeeded", "failed"}]
      /\ envSecret \in [Projects -> -1..MaxEdits]
      /\ dbSecret \in [SecretNames -> Passwords]
  BY DEF TypeInv, TypeOK
<1>2. R(h) \in Projects /\ \A p \in Projects : OfDb(p) \in SecretNames
  BY RequestTypes, ConstantsAssumption DEF OfDb
<1>3. \A p \in Projects : LeftByKind(p) /\ LeftByKind(p)'
  BY LeftKinds
<1>4. ASSUME late \subseteq late', \A p \in Projects : Left(p)' \subseteq Left(p)
      PROVE  late \subseteq late' /\ \A p \in Projects, kind \in Kinds : NoNew(kind, p)
  BY <1>4 DEF NoNew
<1>5. CASE FindDatabase(h) \/ CheckRole(h) \/ ProvisionRole(h) \/ CheckDatabase(h)
           \/ ProvisionDatabase(h) \/ LockDown(h) \/ RequestIsolates(h)
           \/ InsertBinding(h) \/ ListDeployments(h) \/ ListDeploymentIDs(h)
           \/ DeleteRow(h) \/ RequestFails(h)
  <2>1. UNCHANGED <<app, svc, route, git, job, envSecret, dbSecret, late>>
    BY <1>5
    DEF FindDatabase, CheckRole, ProvisionRole, CheckDatabase, ProvisionDatabase, LockDown,
        RequestIsolates, InsertBinding, ListDeployments, ListDeploymentIDs, DeleteRow,
        RequestFails, cluster, history
  <2> QED
    BY <1>4, <2>1 DEF Left, OfDb
<1>6. CASE ApplyDbSecret(h)
  <2>1. /\ Applied("db", R(h))
        /\ dbSecret' = [dbSecret EXCEPT ![OfDb(R(h))] = req[h].pw]
        /\ UNCHANGED <<app, svc, route, git, job, envSecret>>
    BY <1>6 DEF ApplyDbSecret
  <2>2. \A p \in Projects \ {R(h)} : dbSecret'[OfDb(p)] = dbSecret[OfDb(p)]
    BY <1>1, <1>2, <2>1 DEF DistinctSecrets
  <2>3. \A p \in Projects, k \in Kinds :
            k \in Left(p)' => k \in Left(p) \/ (k = "db" /\ p = R(h))
    BY <1>3, <2>1, <2>2 DEF LeftByKind, Kinds, OfDb
  <2> QED
    BY <2>1, <2>3 DEF NoNew, Applied
<1>7. CASE \E c \in Commits : FanoutScale(h, c)
  <2>1. PICK c \in Commits : FanoutScale(h, c)
    BY <1>7
  <2>2. <<R(h), c>> \in Builds
    BY <1>2 DEF Builds
  <2>3. /\ \A b \in Builds : app'[b] # "absent" => app[b] # "absent"
        /\ UNCHANGED <<svc, route, git, job, envSecret, dbSecret, late>>
    BY <1>1, <2>1, <2>2 DEF FanoutScale, history
  <2>4. \A p \in Projects : Left(p)' \subseteq Left(p)
    BY <1>3, <2>3 DEF LeftByKind, Kinds, Of, OfDb
  <2> QED
    BY <1>4, <2>3, <2>4
<1>8. CASE DeleteDeployments(h)
  <2>1. /\ \A b \in Builds : app'[b] # "absent" => app[b] # "absent"
        /\ UNCHANGED <<svc, route, git, job, envSecret, dbSecret, late>>
    BY <1>1, <1>8 DEF DeleteDeployments, history
  <2>2. \A p \in Projects : Left(p)' \subseteq Left(p)
    BY <1>3, <2>1 DEF LeftByKind, Kinds, Of, OfDb
  <2> QED
    BY <1>4, <2>1, <2>2
<1>9. CASE DeleteServices(h)
  <2>1. svc' \subseteq svc /\ UNCHANGED <<app, route, git, job, envSecret, dbSecret, late>>
    BY <1>9 DEF DeleteServices, Swept, history
  <2>2. \A p \in Projects : Left(p)' \subseteq Left(p)
    BY <1>3, <2>1 DEF LeftByKind, Kinds, Of, OfDb
  <2> QED
    BY <1>4, <2>1, <2>2
<1>10. CASE DeleteRoutes(h)
  <2>1. route' \subseteq route /\ UNCHANGED <<app, svc, git, job, envSecret, dbSecret, late>>
    BY <1>10 DEF DeleteRoutes, Swept, history
  <2>2. \A p \in Projects : Left(p)' \subseteq Left(p)
    BY <1>3, <2>1 DEF LeftByKind, Kinds, Of, OfDb
  <2> QED
    BY <1>4, <2>1, <2>2
<1>11. CASE DeleteEnvSecret(h)
  <2>1. /\ \A p \in Projects : envSecret'[p] # -1 => envSecret[p] # -1
        /\ UNCHANGED <<app, svc, route, git, job, dbSecret, late>>
    BY <1>1, <1>11 DEF DeleteEnvSecret, history
  <2>2. \A p \in Projects : Left(p)' \subseteq Left(p)
    BY <1>3, <2>1 DEF LeftByKind, Kinds, Of, OfDb
  <2> QED
    BY <1>4, <2>1, <2>2
<1>12. CASE DeleteDbSecret(h)
  <2>1. /\ \A p \in Projects : dbSecret'[OfDb(p)] # 0 => dbSecret[OfDb(p)] # 0
        /\ UNCHANGED <<app, svc, route, git, job, envSecret, late>>
    BY <1>1, <1>2, <1>12 DEF DeleteDbSecret, history
  <2>2. \A p \in Projects : Left(p)' \subseteq Left(p)
    BY <1>3, <2>1 DEF LeftByKind, Kinds, Of, OfDb
  <2> QED
    BY <1>4, <2>1, <2>2
<1>13. CASE DeleteJobs(h)
  <2>1. /\ \A b \in Builds : job'[b] # "none" => job[b] # "none"
        /\ UNCHANGED <<app, svc, route, git, envSecret, dbSecret, late>>
    BY <1>1, <1>13 DEF DeleteJobs, history
  <2>2. \A p \in Projects : Left(p)' \subseteq Left(p)
    BY <1>3, <2>1 DEF LeftByKind, Kinds, Of, OfDb
  <2> QED
    BY <1>4, <2>1, <2>2
<1>14. CASE DeleteGitSecrets(h)
  <2>1. git' \subseteq git /\ UNCHANGED <<app, svc, route, job, envSecret, dbSecret, late>>
    BY <1>14 DEF DeleteGitSecrets, history
  <2>2. \A p \in Projects : Left(p)' \subseteq Left(p)
    BY <1>3, <2>1 DEF LeftByKind, Kinds, Of, OfDb
  <2> QED
    BY <1>4, <2>1, <2>2
<1> QED
  BY <1>5, <1>6, <1>7, <1>8, <1>9, <1>10, <1>11, <1>12, <1>13, <1>14 DEF RequestStep

\* Nothing appears unnoticed, whatever the step.
LEMMA StepLeaves ==
    ASSUME DistinctSecrets, TypeInv, [Next]_vars
    PROVE  late \subseteq late' /\ \A p \in Projects, kind \in Kinds : NoNew(kind, p)
<1>1. CASE \E w \in Workers : WorkerStep(w)
  BY <1>1, WorkerLeaves
<1>2. CASE \E h \in Handlers : RequestStep(h)
  BY <1>2, RequestLeaves
<1>3. ASSUME UNCHANGED <<app, svc, route, git, job, envSecret, dbSecret, late>>
      PROVE  late \subseteq late' /\ \A p \in Projects, kind \in Kinds : NoNew(kind, p)
  BY <1>3 DEF NoNew, Left, OfDb
<1>4. CASE \E h \in Handlers, p \in Projects :
             CreateDatabase(h, p) \/ DeleteProject(h, p)
             \/ Scale(h, "stop", p) \/ Scale(h, "start", p)
  BY <1>3, <1>4 DEF CreateDatabase, DeleteProject, Scale, cluster, history
<1>5. CASE \/ \E b \in Builds : Push(b)
           \/ \E p \in Projects : EditEnv(p)
           \/ Uninstall \/ Crash \/ UNCHANGED vars
  BY <1>3, <1>5 DEF Push, EditEnv, Uninstall, Crash, vars, cluster, history
<1>6. CASE \E b \in Builds : JobEnds(b)
  <2>1. \A p \in Projects : LeftByKind(p) /\ LeftByKind(p)'
    BY LeftKinds
  <2>2. job \in [Builds -> {"none", "active", "succeeded", "failed"}]
    BY DEF TypeInv, TypeOK
  <2>3. /\ \A b \in Builds : job'[b] # "none" => job[b] # "none"
        /\ UNCHANGED <<app, svc, route, git, envSecret, dbSecret, late>>
    BY <1>6, <2>2 DEF JobEnds, history
  <2>4. \A p \in Projects : Left(p)' \subseteq Left(p)
    BY <2>1, <2>3 DEF LeftByKind, Kinds, Of, OfDb
  <2> QED
    BY <2>3, <2>4 DEF NoNew
<1> QED
  BY <1>1, <1>2, <1>4, <1>5, <1>6 DEF Next

\* A row stays until its project is deleted, and so does the project; the App
\* is not installed again, and a warning is not taken back.
LEMMA RowsStay ==
    ASSUME TypeInv, [Next]_vars
    PROVE  /\ linked' \subseteq linked
           /\ \/ /\ UNCHANGED <<projects, warned>>
                 /\ \A b \in Builds : row[b] # "none" => row'[b] # "none"
              \/ \E h \in Handlers : DeleteRow(h)
<1>1. row \in [Builds -> Statuses]
  BY DEF TypeInv, TypeOK
<1>2. CASE \E w \in Workers : WorkerStep(w)
  <2>1. PICK w \in Workers : WorkerStep(w)
    BY <1>2
  <2>2. UNCHANGED <<projects, linked, warned>>
    BY <2>1, WorkerLeaves
  <2>3. \A b \in Builds : row[b] # "none" => row'[b] # "none"
    <3>1. CASE \E b \in Builds : Claim(w, b)
      BY <1>1, <3>1 DEF Claim
    <3>2. CASE MarkDeploying(w) \/ MarkReady(w) \/ MarkFailed(w)
      BY <1>1, <3>2 DEF MarkDeploying, MarkReady, MarkFailed, SetRow
    <3>3. CASE ~(\E b \in Builds : Claim(w, b)) /\ ~MarkDeploying(w) /\ ~MarkReady(w)
               /\ ~MarkFailed(w)
      BY <2>1, <3>3
      DEF WorkerStep, ApplyGitSecret, EnsureBuildJob, WaitForJob, WorkerIsolates,
          ReadBinding, ReadEnv, ApplyEnvSecret, ApplyDeployment, ApplyService,
          ApplyIngressRoute, AttemptFails, tables
    <3> QED
      BY <3>1, <3>2, <3>3
  <2> QED
    BY <2>2, <2>3
<1>3. CASE \E h \in Handlers : RequestStep(h)
  <2>1. PICK h \in Handlers : RequestStep(h)
    BY <1>3
  <2>2. CASE DeleteRow(h)
    BY <2>2 DEF DeleteRow
  <2>3. CASE ~DeleteRow(h)
    <3>1. UNCHANGED <<projects, linked, warned, row>>
      BY <2>1, <2>3
      DEF RequestStep, FindDatabase, CheckRole, ProvisionRole, CheckDatabase,
          ProvisionDatabase, LockDown, RequestIsolates, ApplyDbSecret, InsertBinding,
          ListDeployments, FanoutScale, DeleteDeployments, DeleteServices, DeleteRoutes,
          DeleteEnvSecret, DeleteDbSecret, DeleteJobs, ListDeploymentIDs,
          DeleteGitSecrets, RequestFails, tables, history
    <3> QED
      BY <3>1
  <2> QED
    BY <2>2, <2>3
<1>4. CASE \/ \E h \in Handlers, p \in Projects :
                CreateDatabase(h, p) \/ DeleteProject(h, p)
                \/ Scale(h, "stop", p) \/ Scale(h, "start", p)
           \/ \E b \in Builds : JobEnds(b)
           \/ \E p \in Projects : EditEnv(p)
           \/ Uninstall \/ UNCHANGED vars
  BY <1>4
  DEF CreateDatabase, DeleteProject, Scale, JobEnds, EditEnv, Uninstall, vars, tables,
      history
<1>5. CASE (\E b \in Builds : Push(b)) \/ Crash
  BY <1>1, <1>5 DEF Push, Crash, history
<1> QED
  BY <1>2, <1>3, <1>4, <1>5 DEF Next

\* The kinds a deletion at this step has yet to delete.
Ahead(step) ==
    CASE step = "deployments" -> Kinds
      [] step = "services"    -> Kinds \ {"deployment"}
      [] step = "routes"      -> Kinds \ {"deployment", "service"}
      [] step \in {"secrets", "envSecret"} -> {"env", "db", "job", "git"}
      [] step = "dbSecret"    -> {"db", "job", "git"}
      [] step = "jobs"        -> {"job", "git"}
      [] step \in {"ids", "gits"} -> {"git"}
      [] OTHER -> {}

Recorded(kind, p) == kind \in Left(p) => <<kind, p>> \in late

\* Only a deletion that saw everything and was not warned promises anything.
Answers(p) == p \in linked /\ p \notin warned

\* What a deletion without warnings has passed is gone, or was recorded.
DeletedSoFar(h) ==
    at[h] \in DeleteSteps /\ ~req[h].warned /\ Answers(R(h)) =>
      /\ \A kind \in Kinds \ Ahead(at[h]) : Recorded(kind, R(h))
      /\ at[h] = "gits" =>
            \A b \in git : b[1] = R(h) => b[2] \in req[h].ids \/ <<"git", R(h)>> \in late

DeletionInv ==
    /\ \A p \in Projects \ projects : Answers(p) => \A kind \in Kinds : Recorded(kind, p)
    /\ \A h \in Handlers : DeletedSoFar(h)
    /\ \A b \in git : Answers(b[1]) => row[b] # "none" \/ <<"git", b[1]>> \in late
    /\ \A w \in Workers : wat[w] = "git" /\ P(w) \in projects => row[B(w)] # "none"

\* A step of the deletion that is not the last.
Deletes(h) ==
    \/ DeleteDeployments(h) \/ DeleteServices(h) \/ DeleteRoutes(h)
    \/ DeleteEnvSecret(h) \/ DeleteDbSecret(h) \/ DeleteJobs(h)
    \/ ListDeploymentIDs(h) \/ DeleteGitSecrets(h)

\* Who is in a deletion after a step has stayed, has begun or has gone on.
LEMMA WhoDeletes ==
    ASSUME TypeInv, [Next]_vars, NEW h \in Handlers, at'[h] \in DeleteSteps
    PROVE  \/ at'[h] = at[h] /\ req'[h] = req[h]
           \/ \E p \in Projects : DeleteProject(h, p)
           \/ Deletes(h)
<1>1. at \in [Handlers -> Steps] /\ req \in [Handlers -> Requests]
  BY DEF TypeInv, TypeOK
<1>2. CASE \E w \in Workers : WorkerStep(w)
  BY <1>2, WorkerLeaves
<1>3. CASE \E i \in Handlers : RequestStep(i)
  <2>1. PICK i \in Handlers : RequestStep(i)
    BY <1>3
  <2>2. CASE i # h
    BY <2>1, <2>2, RequestIsolation
  <2>3. CASE i = h
    <3>1. CASE Deletes(h)
      BY <3>1
    <3>2. CASE FindDatabase(h) \/ CheckRole(h) \/ ProvisionRole(h) \/ CheckDatabase(h)
               \/ ProvisionDatabase(h) \/ LockDown(h)
      BY <1>1, <3>2
      DEF FindDatabase, CheckRole, ProvisionRole, CheckDatabase, ProvisionDatabase,
          LockDown, Return, GoTo, DeleteSteps
    <3>3. CASE RequestIsolates(h) \/ ApplyDbSecret(h) \/ InsertBinding(h)
               \/ ListDeployments(h) \/ (\E c \in Commits : FanoutScale(h, c))
               \/ DeleteRow(h) \/ RequestFails(h)
      BY <1>1, <3>3
      DEF RequestIsolates, ApplyDbSecret, InsertBinding, ListDeployments, FanoutScale,
          DeleteRow, RequestFails, Return, GoTo, DeleteSteps
    <3> QED
      BY <2>1, <2>3, <3>1, <3>2, <3>3 DEF RequestStep, Deletes
  <2> QED
    BY <2>2, <2>3
<1>4. CASE \E i \in Handlers, p \in Projects :
             CreateDatabase(i, p) \/ DeleteProject(i, p)
             \/ Scale(i, "stop", p) \/ Scale(i, "start", p)
  <2>1. PICK i \in Handlers, p \in Projects :
             CreateDatabase(i, p) \/ DeleteProject(i, p)
             \/ Scale(i, "stop", p) \/ Scale(i, "start", p)
    BY <1>4
  <2>2. PICK step, r : /\ GoTo(i, step) /\ Set(i, r)
                       /\ step \in {"find", "list"} \/ DeleteProject(i, p)
    BY <2>1 DEF CreateDatabase, Scale, DeleteProject, Request
  <2>3. CASE i # h
    BY <1>1, <2>2, <2>3 DEF GoTo, Set
  <2>4. CASE i = h
    BY <1>1, <2>2, <2>4 DEF GoTo, DeleteSteps
  <2> QED
    BY <2>3, <2>4
<1>5. CASE \/ \E b \in Builds : Push(b) \/ JobEnds(b)
           \/ \E p \in Projects : EditEnv(p)
           \/ Uninstall \/ UNCHANGED vars
  BY <1>5 DEF Push, JobEnds, EditEnv, Uninstall, vars, actors
<1>6. CASE Crash
  BY <1>6 DEF Crash, DeleteSteps
<1> QED
  BY <1>2, <1>3, <1>4, <1>5, <1>6 DEF Next

\* A step of the deletion that raises no warning leaves nothing of its kind.
LEMMA DeletionSweeps ==
    ASSUME DistinctSecrets, TypeInv, NEW h \in Handlers, Deletes(h), ~req'[h].warned
    PROVE  /\ at[h] \in DeleteSteps /\ ~req[h].warned /\ R(h)' = R(h)
           /\ \A kind \in Kinds \ Ahead(at'[h]) :
                 \/ kind \in Kinds \ Ahead(at[h])
                 \/ kind \notin Left(R(h))'
                 \/ kind = "git" /\ DeleteGitSecrets(h)
           /\ at'[h] = "gits" => req'[h].ids = Listed(R(h)) /\ UNCHANGED <<row, git>>
           /\ DeleteGitSecrets(h) => git' = git \ ({R(h)} \X req[h].ids)
<1>1. /\ at \in [Handlers -> Steps] /\ req \in [Handlers -> Requests]
      /\ app \in [Builds -> {"absent", "running", "stopped"}]
      /\ job \in [Builds -> {"none", "active", "succeeded", "failed"}]
      /\ envSecret \in [Projects -> -1..MaxEdits]
      /\ dbSecret \in [SecretNames -> Passwords] /\ git \subseteq Builds
  BY DEF TypeInv, TypeOK
<1>2. /\ req[h] \in Requests /\ R(h) \in Projects /\ OfDb(R(h)) \in SecretNames
  BY RequestTypes
<1>3. [req[h] EXCEPT !.warned = TRUE].warned
  BY <1>2 DEF Requests
<1>4. ~Set(h, [req[h] EXCEPT !.warned = TRUE])
  BY <1>1, <1>3 DEF Set
<1>5. PICK p \in Projects : p = R(h)
  BY <1>2
<1>6. LeftByKind(p)'
  BY LeftKinds
<1>7. CASE DeleteDeployments(h)
  <2>1. /\ UNCHANGED req /\ at[h] = "deployments" /\ at'[h] = "services"
        /\ \A b \in Of(p) : app'[b] = "absent"
    BY <1>1, <1>4, <1>5, <1>7 DEF DeleteDeployments, GoTo, Of
  <2>2. "deployment" \notin Left(p)'
    BY <1>6, <2>1 DEF LeftByKind, Of
  <2>3. ~DeleteGitSecrets(h)
    BY <2>1 DEF DeleteGitSecrets
  <2> QED
    BY <1>5, <2>1, <2>2, <2>3 DEF Ahead, DeleteSteps, R, Kinds
<1>8. CASE DeleteServices(h)
  <2>1. /\ UNCHANGED req /\ at[h] = "services" /\ at'[h] = "routes"
        /\ svc' = svc \ Of(p)
    BY <1>1, <1>4, <1>5, <1>8 DEF DeleteServices, Swept, GoTo, Set
  <2>2. "service" \notin Left(p)'
    BY <1>6, <2>1 DEF LeftByKind, Of
  <2>3. ~DeleteGitSecrets(h)
    BY <2>1 DEF DeleteGitSecrets
  <2> QED
    BY <1>5, <2>1, <2>2, <2>3 DEF Ahead, DeleteSteps, R, Kinds
<1>9. CASE DeleteRoutes(h)
  <2>1. /\ UNCHANGED req /\ at[h] = "routes" /\ at'[h] = "secrets"
        /\ route' = route \ Of(p)
    BY <1>1, <1>4, <1>5, <1>9 DEF DeleteRoutes, Swept, GoTo, Set
  <2>2. "route" \notin Left(p)'
    BY <1>6, <2>1 DEF LeftByKind, Of
  <2>3. ~DeleteGitSecrets(h)
    BY <2>1 DEF DeleteGitSecrets
  <2> QED
    BY <1>5, <2>1, <2>2, <2>3 DEF Ahead, DeleteSteps, R, Kinds
<1>10. CASE DeleteEnvSecret(h)
  <2>1. /\ UNCHANGED req /\ envSecret' = [envSecret EXCEPT ![p] = -1]
        /\ \/ at[h] = "secrets" /\ at'[h] = "envSecret"
           \/ at[h] = "envSecret" /\ at'[h] = "dbSecret"
    BY <1>1, <1>4, <1>5, <1>10 DEF DeleteEnvSecret, GoTo
  <2>2. "env" \notin Left(p)'
    BY <1>1, <1>6, <2>1 DEF LeftByKind
  <2>3. ~DeleteGitSecrets(h)
    BY <2>1 DEF DeleteGitSecrets
  <2> QED
    BY <1>5, <2>1, <2>2, <2>3 DEF Ahead, DeleteSteps, R, Kinds
<1>11. CASE DeleteDbSecret(h)
  <2>1. /\ UNCHANGED req /\ at[h] = "dbSecret" /\ at'[h] = "jobs"
        /\ dbSecret' = [dbSecret EXCEPT ![OfDb(p)] = 0]
    BY <1>1, <1>4, <1>5, <1>11 DEF DeleteDbSecret, GoTo
  <2>2. "db" \notin Left(p)'
    BY <1>1, <1>2, <1>5, <1>6, <2>1 DEF LeftByKind, OfDb
  <2>3. ~DeleteGitSecrets(h)
    BY <2>1 DEF DeleteGitSecrets
  <2> QED
    BY <1>5, <2>1, <2>2, <2>3 DEF Ahead, DeleteSteps, R, Kinds
<1>12. CASE DeleteJobs(h)
  <2>1. /\ UNCHANGED req /\ at[h] = "jobs" /\ at'[h] = "ids"
        /\ \A b \in Of(p) : job'[b] = "none"
    BY <1>1, <1>4, <1>5, <1>12 DEF DeleteJobs, GoTo, Of
  <2>2. "job" \notin Left(p)'
    BY <1>6, <2>1 DEF LeftByKind, Of
  <2>3. ~DeleteGitSecrets(h)
    BY <2>1 DEF DeleteGitSecrets
  <2> QED
    BY <1>5, <2>1, <2>2, <2>3 DEF Ahead, DeleteSteps, R, Kinds
<1>13. CASE ListDeploymentIDs(h)
  <2>1. /\ at[h] = "ids" /\ at'[h] = "gits" /\ UNCHANGED <<row, git>>
        /\ Set(h, [req[h] EXCEPT !.ids = Listed(R(h))])
    BY <1>1, <1>4, <1>13 DEF ListDeploymentIDs, GoTo, tables, cluster
  <2>2. /\ req'[h].ids = Listed(R(h)) /\ R(h)' = R(h) /\ req'[h].warned = req[h].warned
    BY <1>1, <1>2, <2>1 DEF Set, R, Requests
  <2> QED
    BY <2>1, <2>2 DEF Ahead, DeleteSteps, DeleteGitSecrets
<1>14. CASE DeleteGitSecrets(h)
  <2>1. /\ UNCHANGED req /\ at[h] = "gits" /\ at'[h] = "row"
        /\ git' = git \ ({R(h)} \X req[h].ids)
    BY <1>1, <1>4, <1>14 DEF DeleteGitSecrets, GoTo
  <2> QED
    BY <1>14, <2>1 DEF Ahead, DeleteSteps, R, Kinds
<1> QED
  BY <1>7, <1>8, <1>9, <1>10, <1>11, <1>12, <1>13, <1>14 DEF Deletes

\* A clone Secret that appears is the one a worker applies.
LEMMA NewGitSecret ==
    ASSUME TypeInv, [Next]_vars
    PROVE  \A b \in git' : b \in git \/ \E w \in Workers : ApplyGitSecret(w) /\ b = B(w)
<1>1. CASE \E w \in Workers : WorkerStep(w)
  <2>1. PICK w \in Workers : WorkerStep(w)
    BY <1>1
  <2>2. CASE ApplyGitSecret(w)
    BY <2>2 DEF ApplyGitSecret
  <2>3. CASE ~ApplyGitSecret(w)
    BY <2>1, <2>3
    DEF WorkerStep, Claim, EnsureBuildJob, WaitForJob, MarkDeploying, WorkerIsolates,
        ReadBinding, ReadEnv, ApplyEnvSecret, ApplyDeployment, ApplyService,
        ApplyIngressRoute, MarkReady, MarkFailed, AttemptFails, cluster
  <2> QED
    BY <2>2, <2>3
<1>2. CASE \E h \in Handlers : RequestStep(h)
  <2>1. PICK h \in Handlers : RequestStep(h)
    BY <1>2
  <2>2. CASE \/ FindDatabase(h) \/ CheckRole(h) \/ ProvisionRole(h) \/ CheckDatabase(h)
             \/ ProvisionDatabase(h) \/ LockDown(h) \/ RequestIsolates(h)
             \/ ApplyDbSecret(h) \/ InsertBinding(h) \/ RequestFails(h)
    BY <2>2
    DEF FindDatabase, CheckRole, ProvisionRole, CheckDatabase, ProvisionDatabase,
        LockDown, RequestIsolates, ApplyDbSecret, InsertBinding, RequestFails, cluster
  <2>3. CASE \/ ListDeployments(h) \/ \E c \in Commits : FanoutScale(h, c)
             \/ DeleteDeployments(h) \/ DeleteServices(h) \/ DeleteRoutes(h)
             \/ DeleteEnvSecret(h)
    BY <2>3
    DEF ListDeployments, FanoutScale, DeleteDeployments, DeleteServices, DeleteRoutes,
        DeleteEnvSecret, cluster
  <2>4. CASE \/ DeleteDbSecret(h) \/ DeleteJobs(h) \/ ListDeploymentIDs(h)
             \/ DeleteGitSecrets(h) \/ DeleteRow(h)
    BY <2>4
    DEF DeleteDbSecret, DeleteJobs, ListDeploymentIDs, DeleteGitSecrets, DeleteRow,
        cluster
  <2> QED
    BY <2>1, <2>2, <2>3, <2>4 DEF RequestStep
<1>3. CASE \/ \E h \in Handlers, p \in Projects :
                CreateDatabase(h, p) \/ DeleteProject(h, p)
                \/ Scale(h, "stop", p) \/ Scale(h, "start", p)
           \/ \E b \in Builds : Push(b) \/ JobEnds(b)
           \/ \E p \in Projects : EditEnv(p)
           \/ Uninstall \/ Crash \/ UNCHANGED vars
  BY <1>3
  DEF CreateDatabase, DeleteProject, Scale, Push, JobEnds, EditEnv, Uninstall, Crash, vars,
      cluster
<1> QED
  BY <1>1, <1>2, <1>3 DEF Next

\* Who applies a clone Secret has claimed its row.
LEMMA ClaimedFirst ==
    ASSUME TypeInv, [Next]_vars, NEW w \in Workers, wat'[w] = "git"
    PROVE  \/ wat[w] = "git" /\ work'[w] = work[w]
           \/ row'[B(w)'] # "none" /\ UNCHANGED projects
<1>1. /\ wat \in [Workers -> WorkerSteps] /\ work \in [Workers -> Attempts]
      /\ row \in [Builds -> Statuses]
  BY DEF TypeInv, TypeOK
<1>2. CASE \E v \in Workers : WorkerStep(v)
  <2>1. PICK v \in Workers : WorkerStep(v)
    BY <1>2
  <2>2. CASE v # w
    BY <2>1, <2>2, WorkerIsolation
  <2>3. CASE v = w
    <3>1. CASE \E b \in Builds : Claim(w, b)
      <4>1. PICK b \in Builds : Claim(w, b)
        BY <3>1
      <4>2. [NoAttempt EXCEPT !.build = b].build = b
        BY IdleTypes DEF Attempts
      <4>3. B(w)' = b /\ row'[b] = "building" /\ UNCHANGED projects
        BY <1>1, <4>1, <4>2 DEF Claim, B
      <4> QED
        BY <4>3
    <3>2. CASE WorkerIsolates(w)
      BY <1>1, <2>3, <3>2 DEF WorkerIsolates, WGo
    <3>3. CASE ApplyGitSecret(w) \/ EnsureBuildJob(w) \/ WaitForJob(w) \/ MarkDeploying(w)
               \/ ReadBinding(w) \/ ReadEnv(w) \/ ApplyEnvSecret(w) \/ ApplyDeployment(w)
               \/ ApplyService(w) \/ ApplyIngressRoute(w) \/ MarkReady(w)
               \/ MarkFailed(w) \/ AttemptFails(w)
      BY <1>1, <3>3
      DEF ApplyGitSecret, EnsureBuildJob, WaitForJob, MarkDeploying, ReadBinding, ReadEnv,
          ApplyEnvSecret, ApplyDeployment, ApplyService, ApplyIngressRoute, MarkReady,
          MarkFailed, AttemptFails, WorkerDone, WGo
    <3> QED
      BY <2>1, <2>3, <3>1, <3>2, <3>3 DEF WorkerStep
  <2> QED
    BY <2>2, <2>3
<1>3. CASE \E h \in Handlers : RequestStep(h)
  BY <1>3, RequestIsolation
<1>4. CASE \/ \E h \in Handlers, p \in Projects :
                CreateDatabase(h, p) \/ DeleteProject(h, p)
                \/ Scale(h, "stop", p) \/ Scale(h, "start", p)
           \/ \E b \in Builds : Push(b) \/ JobEnds(b)
           \/ \E p \in Projects : EditEnv(p)
           \/ Uninstall \/ UNCHANGED vars
  BY <1>4
  DEF CreateDatabase, DeleteProject, Scale, Push, JobEnds, EditEnv, Uninstall, vars, actors
<1>5. CASE Crash
  BY <1>5 DEF Crash
<1> QED
  BY <1>2, <1>3, <1>4, <1>5 DEF Next

\* The deletion of the row finds every kind deleted, or warns.
LEMMA RowIsLast ==
    ASSUME TypeInv, DeletionInv, NEW h \in Handlers, NEW p, p = R(h), DeleteRow(h),
           Answers(p)'
    PROVE  UNCHANGED <<cluster, late>> /\ \A kind \in Kinds : Recorded(kind, p)
<1>1. at[h] = "row" /\ ~req[h].warned /\ Answers(p)
  BY DEF DeleteRow, Answers
<1>2. \A kind \in Kinds : Recorded(kind, p)
  BY <1>1 DEF DeletionInv, DeletedSoFar, Ahead, DeleteSteps
<1> QED
  BY <1>2 DEF DeleteRow

\* What a deletion leaves survives every step.
LEMMA DeletionNext ==
    ASSUME DistinctSecrets, TypeInv, DeletionInv, [Next]_vars
    PROVE  DeletionInv'
<1>1. /\ late \subseteq late' /\ \A p \in Projects, kind \in Kinds : NoNew(kind, p)
  BY StepLeaves
<1>2. /\ linked' \subseteq linked
      /\ \/ /\ UNCHANGED <<projects, warned>>
            /\ \A b \in Builds : row[b] # "none" => row'[b] # "none"
         \/ \E h \in Handlers : DeleteRow(h)
  BY RowsStay
<1>3. warned \subseteq warned' /\ projects' \subseteq projects
  BY <1>2 DEF DeleteRow
<1>4. ASSUME NEW p, Answers(p)' PROVE Answers(p)
  BY <1>2, <1>3, <1>4 DEF Answers
<1>5. git \subseteq Builds /\ \A b \in git : b[1] \in Projects
  BY DEF TypeInv, TypeOK, Builds
<1>6. ASSUME NEW p \in Projects, NEW kind \in Kinds, Recorded(kind, p),
             p \notin projects \/ Deleting(p)
      PROVE  Recorded(kind, p)'
  BY <1>1, <1>6 DEF Recorded, NoNew
<1>7. ASSUME NEW b \in git', b \notin git
      PROVE  /\ b[1] \in Projects
             /\ <<"git", b[1]>> \in late' \/ (b[1] \in projects /\ ~Deleting(b[1]))
             /\ Answers(b[1])' => row'[b] # "none" \/ <<"git", b[1]>> \in late'
  <2>1. PICK w \in Workers : ApplyGitSecret(w) /\ b = B(w)
    BY <1>7, NewGitSecret
  <2>2. b[1] = P(w) /\ P(w) \in Projects
    BY <2>1, AttemptTypes DEF TypeInv
  <2>3. /\ <<"git", P(w)>> \in late' \/ (P(w) \in projects /\ ~Deleting(P(w)))
        /\ wat[w] = "git" /\ UNCHANGED row
    BY <2>1 DEF ApplyGitSecret, Applied, tables
  <2>4. P(w) \in projects => row'[b] # "none"
    BY <2>1, <2>3 DEF DeletionInv
  <2> QED
    BY <2>2, <2>3, <2>4
<1>8. ASSUME NEW p \in Projects \ projects', Answers(p)', NEW kind \in Kinds
      PROVE  Recorded(kind, p)'
  <2>1. CASE p \notin projects
    <3>1. Recorded(kind, p)
      BY <1>4, <1>8, <2>1 DEF DeletionInv
    <3> QED
      BY <1>6, <2>1, <3>1
  <2>2. CASE p \in projects
    <3>1. PICK h \in Handlers : DeleteRow(h)
      BY <1>2, <1>8, <2>2
    <3>2. p = R(h)
      BY <1>8, <2>2, <3>1 DEF DeleteRow
    <3>3. Recorded(kind, p) /\ UNCHANGED <<cluster, late>>
      BY <1>8, <3>1, <3>2, RowIsLast
    <3> QED
      BY <3>3 DEF Recorded, Left, cluster, OfDb
  <2> QED
    BY <2>1, <2>2
<1>9. ASSUME NEW h \in Handlers PROVE DeletedSoFar(h)'
  <2> SUFFICES ASSUME at'[h] \in DeleteSteps, ~req'[h].warned, NEW p, p = R(h)',
                      Answers(p)'
               PROVE  /\ \A kind \in Kinds \ Ahead(at'[h]) : Recorded(kind, p)'
                      /\ at'[h] = "gits" =>
                            \A b \in git' : b[1] = p =>
                               b[2] \in req'[h].ids \/ <<"git", p>> \in late'
    BY DEF DeletedSoFar, Answers, Recorded
  <2>1. Answers(p)
    BY <1>4
  <2>2. ASSUME R(h) = p, at[h] \in DeleteSteps
        PROVE  p \in Projects /\ Deleting(p)
    <3>1. p \in Projects /\ Local(at[h], req[h]) /\ at[h] # "idle"
      BY <2>2, RequestTypes DEF DeleteSteps
    <3> QED
      BY <2>2, <3>1 DEF Deleting, Local, R
  <2>3. CASE at'[h] = at[h] /\ req'[h] = req[h]
    <3>1. R(h) = p /\ p \in Projects /\ Deleting(p)
      BY <2>2, <2>3 DEF R
    <3>2. \A kind \in Kinds \ Ahead(at'[h]) : Recorded(kind, p)'
      BY <1>6, <2>1, <2>3, <3>1 DEF DeletionInv, DeletedSoFar
    <3>3. ASSUME at'[h] = "gits", NEW b \in git', b[1] = p
          PROVE  b[2] \in req'[h].ids \/ <<"git", p>> \in late'
      BY <1>1, <1>7, <2>1, <2>3, <3>1, <3>3 DEF DeletionInv, DeletedSoFar
    <3> QED
      BY <3>2, <3>3
  <2>4. CASE \E q \in Projects : DeleteProject(h, q)
    <3>1. PICK q \in Projects : DeleteProject(h, q)
      BY <2>4
    <3>2. /\ GoTo(h, IF q \in linked THEN "deployments" ELSE "jobs")
          /\ Set(h, [NoRequest EXCEPT !.via = "delete", !.proj = q])
      BY <3>1 DEF DeleteProject, Request
    <3>3. [NoRequest EXCEPT !.via = "delete", !.proj = q].proj = q
      BY IdleTypes DEF Requests
    <3>4. at'[h] = (IF q \in linked THEN "deployments" ELSE "jobs") /\ p = q
      BY <3>2, <3>3 DEF GoTo, Set, R, TypeInv, TypeOK
    <3>5. at'[h] = "deployments"
      BY <2>1, <3>4 DEF Answers
    <3> QED
      BY <3>5 DEF Ahead
  <2>5. CASE Deletes(h)
    <3>1. /\ at[h] \in DeleteSteps /\ ~req[h].warned /\ R(h) = p
          /\ \A kind \in Kinds \ Ahead(at'[h]) :
                \/ kind \in Kinds \ Ahead(at[h])
                \/ kind \notin Left(p)'
                \/ kind = "git" /\ DeleteGitSecrets(h)
          /\ at'[h] = "gits" => req'[h].ids = Listed(p) /\ UNCHANGED <<row, git>>
          /\ DeleteGitSecrets(h) => git' = git \ ({p} \X req[h].ids)
      BY <2>5, DeletionSweeps DEF R
    <3>2. p \in Projects /\ Deleting(p)
      BY <2>2, <3>1
    <3>3. DeletedSoFar(h)
      BY DEF DeletionInv
    <3>4. ASSUME DeleteGitSecrets(h) PROVE Recorded("git", p)'
      <4>1. \A b \in git' : b \in git /\ b \notin {p} \X req[h].ids
        BY <3>1, <3>4
      <4>2. \A b \in git' : b[1] = p => b[2] \notin req[h].ids
        BY <1>5, <4>1 DEF Builds
      <4>3. \A b \in git' : b[1] = p => <<"git", p>> \in late
        BY <2>1, <3>1, <3>3, <3>4, <4>1, <4>2 DEF DeletedSoFar, DeleteGitSecrets
      <4>4. LeftByKind(p)'
        BY LeftKinds
      <4> QED
        BY <1>1, <4>3, <4>4 DEF LeftByKind, Of, Recorded
    <3>5. ASSUME NEW kind \in Kinds \ Ahead(at'[h]) PROVE Recorded(kind, p)'
      <4>1. CASE kind \in Kinds \ Ahead(at[h])
        BY <1>6, <2>1, <3>1, <3>2, <3>3, <4>1 DEF DeletedSoFar
      <4>2. CASE kind \notin Left(p)'
        BY <4>2 DEF Recorded
      <4> QED
        BY <3>1, <3>4, <3>5, <4>1, <4>2
    <3>6. ASSUME at'[h] = "gits", NEW b \in git', b[1] = p
          PROVE  b[2] \in req'[h].ids \/ <<"git", p>> \in late'
      <4>1. b \in git /\ b \in Builds /\ b = <<p, b[2]>> /\ b[2] \in Commits
        BY <1>5, <3>1, <3>6 DEF Builds
      <4>2. row[b] # "none" \/ <<"git", p>> \in late
        BY <2>1, <3>6, <4>1 DEF DeletionInv
      <4>3. row[b] # "none" => b[2] \in Listed(p)
        BY <4>1 DEF Listed
      <4> QED
        BY <1>1, <3>1, <3>6, <4>2, <4>3
    <3> QED
      BY <3>5, <3>6
  <2> QED
    BY <2>3, <2>4, <2>5, WhoDeletes
<1>10. ASSUME NEW b \in git', Answers(b[1])'
       PROVE  row'[b] # "none" \/ <<"git", b[1]>> \in late'
  <2>1. CASE b \notin git
    BY <1>7, <1>10, <2>1
  <2>2. CASE b \in git
    <3>1. row[b] # "none" \/ <<"git", b[1]>> \in late
      BY <1>4, <1>10, <2>2 DEF DeletionInv
    <3>2. CASE \A c \in Builds : row[c] # "none" => row'[c] # "none"
      BY <1>1, <1>5, <2>2, <3>1, <3>2
    <3>3. CASE \E h \in Handlers : DeleteRow(h)
      <4>1. PICK h \in Handlers : DeleteRow(h)
        BY <3>3
      <4>2. CASE b[1] = R(h)
        <5>1. PICK p : p = b[1]
          OBVIOUS
        <5>2. Recorded("git", p) /\ UNCHANGED late
          BY <1>10, <4>1, <4>2, <5>1, RowIsLast DEF Kinds
        <5>3. LeftByKind(p)
          BY LeftKinds
        <5>4. "git" \in Left(p)
          BY <1>5, <2>2, <5>1, <5>3 DEF LeftByKind, Of
        <5> QED
          BY <5>1, <5>2, <5>4 DEF Recorded
      <4>3. CASE b[1] # R(h)
        BY <1>1, <1>5, <2>2, <3>1, <4>1, <4>3 DEF DeleteRow, Of
      <4> QED
        BY <4>2, <4>3
    <3> QED
      BY <1>2, <3>2, <3>3
  <2> QED
    BY <2>1, <2>2
<1>11. ASSUME NEW w \in Workers, wat'[w] = "git", P(w)' \in projects'
       PROVE  row'[B(w)'] # "none"
  <2>1. CASE wat[w] = "git" /\ work'[w] = work[w]
    <3>1. /\ B(w)' = B(w) /\ P(w)' = P(w) /\ B(w) \in Builds /\ B(w)[1] = P(w)
      BY <2>1, AttemptTypes DEF B, P, TypeInv
    <3>2. row[B(w)] # "none"
      BY <1>3, <1>11, <2>1, <3>1 DEF DeletionInv
    <3>3. CASE \A c \in Builds : row[c] # "none" => row'[c] # "none"
      BY <3>1, <3>2, <3>3
    <3>4. CASE \E h \in Handlers : DeleteRow(h)
      BY <1>11, <3>1, <3>2, <3>4 DEF DeleteRow, Of
    <3> QED
      BY <1>2, <3>3, <3>4
  <2> QED
    BY <1>11, <2>1, ClaimedFirst
<1> QED
  BY <1>8, <1>9, <1>10, <1>11 DEF DeletionInv

\* A deletion without warnings, while the App is installed, leaves only what
\* a build or a database request applied during or after it: wherever other
\* deletions, attempts and crashes of the process fell in between.
THEOREM DeletionComplete ==
    ASSUME DistinctSecrets
    PROVE  Spec => []DeletionIsComplete
<1>1. Init => DeletionInv
  BY DEF Init, DeletionInv, DeletedSoFar, DeleteSteps
<1>2. TypeInv /\ DeletionInv /\ [Next]_vars => DeletionInv'
  BY DeletionNext
<1>3. DeletionInv => DeletionIsComplete
  <2> SUFFICES ASSUME DeletionInv, NEW p \in Projects, p \notin projects, Answers(p)
               PROVE  LeftByDeletion(p) = {}
    BY DEF DeletionIsComplete, Answers
  <2>1. Left(p) \subseteq Kinds
    BY LeftKinds DEF LeftByKind
  <2>2. \A kind \in Kinds : kind \in Left(p) => <<kind, p>> \in late
    BY DEF DeletionInv, Recorded
  <2> QED
    BY <2>1, <2>2 DEF LeftByDeletion
<1> QED
  BY TypeInit, TypeNext, <1>1, <1>2, <1>3, PTL DEF Spec

=============================================================================
