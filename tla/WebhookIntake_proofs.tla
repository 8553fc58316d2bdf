------------------------- MODULE WebhookIntake_proofs -------------------------
(***************************************************************************)
(* Theorems about WebhookIntake, for any number of concurrent requests,    *)
(* installations, repositories, deliveries and faults: types, that a       *)
(* delivery that arrives many times queues at most one build, and that an  *)
(* installation's owner reaches its projects.                              *)
(***************************************************************************)
EXTENDS WebhookIntake, FiniteSetTheorems, TLAPS

\* The steps of handleInstallation, handleInstallationRepos and AddRepos.
Installing == {"upsert", "link", "owner", "count", "batch", "adopt", "remove", "delete"}

\* What the place of a request tells about it: only those that came as a
\* webhook have a delivery, and the places of a handler belong to its events.
Local(step, r) ==
    /\ step \in Steps
    /\ r \in Requests
    /\ step # "idle" /\ r.via \notin {"boot", "manual"} => r.delivery \in Deliveries
    /\ step \in Installing => r.via = "install"
    /\ step = "record" => r.via = "webhook"
    /\ step \in {"orphans", "orphan"} => r.via = "boot"
    /\ step = "head" => r.via \in {"install", "boot", "manual"}
    /\ step \in {"correct", "retry"} => r.via = "manual"

\* What "Deploy now" works on is a project; what an open login has updated
\* exists: its rows are locked, and projects are not deleted here.
PlaceInv ==
    /\ \A h \in Handlers : Local(at[h], req[h])
    /\ \A h \in Handlers : /\ at[h] = "head" /\ req[h].via = "manual"
                                 => req[h].todo \subseteq projects
                           /\ at[h] = "correct" => req[h].now \in projects
    /\ mine \subseteq installed
    /\ adopted \subseteq projects

-----------------------------------------------------------------------------
\* There is a project and a commit for NoRequest to name.
LEMMA NoRequestTypes ==
    /\ NoRequest \in Requests
    /\ NoRequest.via = "webhook" /\ NoRequest.delivery = NoDelivery
<1>1. (CHOOSE p \in Projects : TRUE) \in Projects /\ (CHOOSE c \in Commits : TRUE) \in Commits
  <2>1. PICK i \in Installations, r \in Repos, c \in Commits : TRUE
    BY ConstantsAssumption
  <2>2. <<i, r>> \in Projects
    BY DEF Projects
  <2> QED
    BY <2>1, <2>2, Zenon
<1>2. -1 \in -1..MaxProjects
  BY ConstantsAssumption
<1> QED
  BY <1>1, <1>2 DEF NoRequest, Requests, Triggers

\* Projects are finitely many, so those of a user can be counted.
LEMMA ProjectsFinite ==
    /\ IsFiniteSet(Projects)
    /\ \A S \in SUBSET Projects : IsFiniteSet(S) /\ Cardinality(S) \in Nat
<1>1. IsFiniteSet(Projects)
  BY ConstantsAssumption, FS_Product DEF Projects
<1> QED
  BY <1>1, FS_Subset, FS_CardinalityType

\* The payload of a delivery is one of Events.
LEMMA EventTypes ==
    ASSUME NEW d \in Deliveries
    PROVE  /\ Event[d].kind \in EventKinds /\ Event[d].inst \in Installations
           /\ Event[d].repos \in SUBSET Repos /\ Event[d].gone \in SUBSET Repos
           /\ Event[d].commit \in Commits /\ Event[d].onDefault \in BOOLEAN
           /\ \A S \in SUBSET Repos : Of(Event[d].inst, S) \in SUBSET Projects
<1>1. Event[d] \in Events
  BY ConstantsAssumption
<1> QED
  BY <1>1 DEF Events, Of, Projects

\* A fault that strikes leaves the budgets well-typed.
LEMMA StrikeTypes ==
    ASSUME TypeOK, NEW kind \in FaultKinds, Strike(kind)
    PROVE  faults' \in [FaultKinds -> Nat]
<1>1. faults[kind] \in Nat /\ faults[kind] - 1 \in Nat
  BY DEF TypeOK, Strike
<1> QED
  BY <1>1 DEF TypeOK, Strike

\* What all the variables but "at" and "req" are.
TablesInv ==
    /\ recorded \subseteq Deliveries
    /\ installed \subseteq Installations
    /\ owned \subseteq installed
    /\ granted \subseteq Projects
    /\ projects \subseteq Projects
    /\ claimed \subseteq projects
    /\ corrected \subseteq projects
    /\ rows \in [Projects \X Commits -> Nat]
    /\ queuedBy \in [Deliveries -> Nat]
    /\ user \in BOOLEAN
    /\ login \in LoginSteps
    /\ mine \subseteq installed
    /\ adopted \subseteq projects
    /\ clicks \in Nat
    /\ faults \in [FaultKinds -> Nat]

\* A request keeps the delivery it came with.
SameDelivery(h, step, r) ==
    \/ step \in {"idle", "record"}
    \/ r.delivery = NoDelivery
    \/ at[h] # "idle" /\ r.delivery = req[h].delivery

\* A request goes to a place, with locals that fit it.
Moves(h) ==
    \E step, r :
        /\ Local(step, r)
        /\ GoTo(h, step) /\ Set(h, r)
        /\ SameDelivery(h, step, r)
        /\ step = "head" /\ r.via = "manual" => r.todo \subseteq projects'
        /\ step = "correct" => r.now \in projects'

\* A step of one request changes its own place and locals only.
LEMMA OneRequestMoves ==
    ASSUME TypeOK, PlaceInv, NEW h \in Handlers, Moves(h), projects \subseteq projects',
           TablesInv'
    PROVE  TypeOK' /\ PlaceInv'
<1>1. PICK step, r : /\ Local(step, r)
                     /\ GoTo(h, step) /\ Set(h, r)
                     /\ step = "head" /\ r.via = "manual" => r.todo \subseteq projects'
                     /\ step = "correct" => r.now \in projects'
  BY DEF Moves
<1>2. step \in Steps /\ r \in Requests
  BY <1>1 DEF Local
<1>3. \A i \in Handlers : i # h => at'[i] = at[i] /\ req'[i] = req[i]
  BY <1>1 DEF TypeOK, GoTo, Set
<1>4. at'[h] = step /\ req'[h] = r
  BY <1>1 DEF TypeOK, GoTo, Set
<1>5. at' \in [Handlers -> Steps] /\ req' \in [Handlers -> Requests]
  BY <1>1, <1>2 DEF TypeOK, GoTo, Set
<1>6. TypeOK'
  BY <1>5 DEF TypeOK, TablesInv
<1>7. \A i \in Handlers : Local(at'[i], req'[i])
  BY <1>1, <1>3, <1>4 DEF PlaceInv
<1>8. \A i \in Handlers : /\ at'[i] = "head" /\ req'[i].via = "manual"
                               => req'[i].todo \subseteq projects'
                          /\ at'[i] = "correct" => req'[i].now \in projects'
  BY <1>1, <1>3, <1>4 DEF PlaceInv
<1> QED
  BY <1>6, <1>7, <1>8 DEF PlaceInv, TablesInv

\* What a step leaves alone stays well-typed.
LEMMA TablesTypes ==
    TypeOK /\ PlaceInv => TablesInv
  BY DEF TypeOK, PlaceInv, TablesInv

\* A request that is answered is idle.
LEMMA ReturnMoves ==
    ASSUME NEW h \in Handlers, Return(h)
    PROVE  Moves(h)
<1>1. Local("idle", NoRequest)
  BY NoRequestTypes DEF Local, Steps, Installing
<1>2. GoTo(h, "idle") /\ Set(h, NoRequest)
  BY DEF Return, Set
<1> QED
  BY <1>1, <1>2 DEF Moves, SameDelivery

\* A step that keeps the locals.
LEMMA StepMoves ==
    ASSUME TypeOK, NEW h \in Handlers, at[h] # "idle",
           NEW step, Local(step, req[h]),
           GoTo(h, step), UNCHANGED req, step \notin {"head", "correct"}
    PROVE  Moves(h)
<1>1. Set(h, req[h])
  BY DEF TypeOK, Set
<1> QED
  BY <1>1 DEF Moves, SameDelivery

\* What a request in progress knows: its locals are typed, and its event too.
LEMMA InProgress ==
    ASSUME TypeOK, PlaceInv, NEW h \in Handlers
    PROVE  /\ Local(at[h], req[h])
           /\ req[h] \in Requests /\ at[h] \in Steps
           /\ req[h].via = "install" /\ at[h] # "idle" => req[h].delivery \in Deliveries
  BY DEF TypeOK, PlaceInv, Local

\* NextRepo goes to a place that fits.
LEMMA NextRepoMoves ==
    ASSUME TypeOK, PlaceInv, NEW h \in Handlers, at[h] # "idle",
           NEW done, NextRepo(h, done)
    PROVE  Moves(h)
<1> DEFINE rest == req[h].todo \ {done}
<1>1. CASE BestEffort(h) /\ rest # {}
  <2> DEFINE r == [req[h] EXCEPT !.todo = rest]
  <2>1. GoTo(h, "head") /\ Set(h, r)
    BY <1>1 DEF NextRepo
  <2>2. r \in Requests /\ r.via = req[h].via /\ r.delivery = req[h].delivery
    BY InProgress DEF Requests
  <2>3. Local("head", r) /\ r.via # "manual"
    BY <1>1, <2>2, InProgress DEF Local, BestEffort, Steps, Installing
  <2> HIDE DEF r
  <2> QED
    BY <2>1, <2>2, <2>3 DEF Moves, SameDelivery
<1>2. CASE ~(BestEffort(h) /\ rest # {}) /\ req[h].via = "install" /\ rest = {} /\ Ev(h).gone # {}
  <2> DEFINE r == [req[h] EXCEPT !.todo = {}]
  <2>1. GoTo(h, "remove") /\ Set(h, r)
    BY <1>2 DEF NextRepo
  <2>2. r \in Requests /\ r.via = req[h].via /\ r.delivery = req[h].delivery
    BY InProgress DEF Requests
  <2>3. Local("remove", r)
    BY <1>2, <2>2, InProgress DEF Local, Steps, Installing
  <2> HIDE DEF r
  <2> QED
    BY <2>1, <2>2, <2>3 DEF Moves, SameDelivery
<1>3. CASE /\ ~(BestEffort(h) /\ rest # {})
           /\ ~(req[h].via = "install" /\ rest = {} /\ Ev(h).gone # {})
  BY <1>3, ReturnMoves DEF NextRepo
<1> QED
  BY <1>1, <1>2, <1>3

-----------------------------------------------------------------------------
\* The empty tables are well-typed, and nobody is at work.
LEMMA TypeInit == Init => TypeOK /\ PlaceInv
<1> SUFFICES ASSUME Init PROVE TypeOK /\ PlaceInv
  OBVIOUS
<1>1. TypeOK
  BY ConstantsAssumption, NoRequestTypes DEF Init, TypeOK, Steps, LoginSteps
<1>2. \A h \in Handlers : Local(at[h], req[h])
  BY NoRequestTypes DEF Init, Local, Steps, Installing
<1> QED
  BY <1>1, <1>2 DEF Init, PlaceInv

-----------------------------------------------------------------------------
\* What every step of one request does.
Proceeds(h) == Moves(h) /\ TablesInv' /\ projects \subseteq projects'

\* A step that changes no table.
LEMMA NoTableProceeds ==
    ASSUME TypeOK, PlaceInv, NEW h \in Handlers, Moves(h),
           UNCHANGED <<tableVars, userVars>>,
           clicks' \in Nat, faults' \in [FaultKinds -> Nat]
    PROVE  Proceeds(h)
  BY TablesTypes DEF Proceeds, TablesInv, tableVars, userVars

\* handleGitHubWebhook: a delivery arrives.
LEMMA ReceiveProceeds ==
    ASSUME TypeOK, PlaceInv, NEW h \in Handlers, NEW d \in Deliveries, Receive(h, d)
    PROVE  Proceeds(h)
<1> DEFINE r == [NoRequest EXCEPT !.delivery = d]
<1>1. GoTo(h, "record") /\ Set(h, r)
  BY DEF Receive, Begin
<1>2. r \in Requests /\ r.via = "webhook" /\ r.delivery = d
  BY NoRequestTypes DEF Requests
<1>3. Local("record", r)
  BY <1>2 DEF Local, Steps, Installing
<1> HIDE DEF r
<1>4. Moves(h)
  BY <1>1, <1>3 DEF Moves, SameDelivery
<1> QED
  BY <1>4, NoTableProceeds DEF Receive, TypeOK

\* The handler of an event starts with the repositories of its payload.
LEMMA DispatchMoves ==
    ASSUME TypeOK, PlaceInv, NEW h \in Handlers, at[h] = "record", Dispatch(h)
    PROVE  Moves(h)
<1> DEFINE e == Ev(h)
           via == CASE e.kind = "push" -> "webhook"
                    [] e.kind = "pull_request" -> "preview"
                    [] OTHER -> "install"
           now == IF e.repos = {} THEN req[h].now
                  ELSE CHOOSE p \in Of(e.inst, e.repos) : TRUE
           todo == Of(e.inst, e.repos)
           r == [req[h] EXCEPT !.via = via, !.todo = todo, !.now = now,
                               !.commit = e.commit]
<1>1. req[h] \in Requests /\ req[h].delivery \in Deliveries
  BY InProgress DEF Local
<1>2. CASE FirstStep(e) = "idle"
  BY <1>2, ReturnMoves DEF Dispatch
<1>3. CASE FirstStep(e) # "idle"
  <2>1. GoTo(h, FirstStep(e)) /\ Set(h, r)
    BY <1>3 DEF Dispatch
  <2>2. /\ e.kind \in EventKinds /\ e.inst \in Installations
        /\ e.repos \in SUBSET Repos /\ e.commit \in Commits /\ todo \in SUBSET Projects
    BY <1>1, EventTypes DEF Ev
  <2>3. now \in Projects
    <3>1. CASE e.repos = {}
      BY <1>1, <3>1 DEF Requests
    <3>2. CASE e.repos # {}
      <4>1. \E p \in todo : TRUE
        <5>1. PICK x \in e.repos : TRUE
          BY <3>2
        <5>2. <<e.inst, x>> \in todo
          BY <5>1 DEF Of
        <5> QED
          BY <5>2, Zenon
      <4>2. (CHOOSE p \in todo : TRUE) \in todo
        BY <4>1, Zenon
      <4> QED
        BY <2>2, <3>2, <4>2
    <3> QED
      BY <3>1, <3>2
  <2>4. via \in Triggers /\ (via = "install" \/ e.kind \in {"push", "pull_request"})
    BY DEF Triggers
  <2>5. /\ FirstStep(e) \in Steps \ {"record", "orphans", "orphan", "head", "correct", "retry"}
        /\ FirstStep(e) \in Installing => via = "install"
    BY <2>2 DEF FirstStep, RepositoriesStep, EventKinds, Steps, Installing
  <2> HIDE DEF via, now, todo, e
  <2>6. r \in Requests /\ r.via = via /\ r.delivery = req[h].delivery
    BY <1>1, <2>2, <2>3, <2>4 DEF Requests
  <2> HIDE DEF r
  <2>7. Local(FirstStep(e), r)
    BY <1>1, <2>5, <2>6 DEF Local
  <2> QED
    BY <2>1, <2>5, <2>6, <2>7 DEF Moves, SameDelivery
<1> QED
  BY <1>2, <1>3

\* RecordDelivery, then Dispatch.
LEMMA RecordProceeds ==
    ASSUME TypeOK, PlaceInv, NEW h \in Handlers, Record(h)
    PROVE  Proceeds(h)
<1>1. Moves(h)
  BY ReturnMoves, DispatchMoves DEF Record, RecordDelivery
<1>2. req[h].delivery \in Deliveries
  BY InProgress DEF Record, Local
<1> QED
  BY <1>1, <1>2, TablesTypes
     DEF Record, RecordDelivery, Proceeds, TablesInv, userVars

\* EnqueueDeployment: the project is looked up.
LEMMA LookupProceeds ==
    ASSUME TypeOK, PlaceInv, NEW h \in Handlers, Lookup(h)
    PROVE  Proceeds(h)
<1>1. Moves(h)
  <2>1. CASE ~Known(req[h].now)
    BY <2>1, NextRepoMoves DEF Lookup
  <2>2. CASE Known(req[h].now)
    <3>1. PICK step \in {"dedupe", "insert"} : GoTo(h, step) /\ UNCHANGED req
      BY <2>2 DEF Lookup
    <3>2. Local(step, req[h])
      BY <3>1, InProgress DEF Local, Steps, Installing, Lookup
    <3> QED
      BY <3>1, <3>2, StepMoves DEF Lookup
  <2> QED
    BY <2>1, <2>2
<1> QED
  BY <1>1, NoTableProceeds DEF Lookup, TypeOK

\* EnqueueDeployment: the commit is looked for.
LEMMA DedupeProceeds ==
    ASSUME TypeOK, PlaceInv, NEW h \in Handlers, Dedupe(h)
    PROVE  Proceeds(h)
<1>1. Moves(h)
  <2>1. Local("insert", req[h])
    BY InProgress DEF Local, Steps, Installing, Dedupe
  <2> QED
    BY <2>1, ReturnMoves, StepMoves DEF Dedupe
<1> QED
  BY <1>1, NoTableProceeds DEF Dedupe, TypeOK

\* The tables stay well-typed when a row is inserted.
LEMMA InsertTypes ==
    ASSUME TypeOK, PlaceInv, NEW h \in Handlers, at[h] = "insert", InsertDeployment(h)
    PROVE  rows' \in [Projects \X Commits -> Nat] /\ queuedBy' \in [Deliveries -> Nat]
<1>1. rows' \in [Projects \X Commits -> Nat]
  <2> DEFINE x == <<req[h].now, req[h].commit>>
  <2>1. x \in Projects \X Commits
    BY InProgress DEF Requests
  <2>2. rows' = [rows EXCEPT ![x] = rows[x] + 1]
    BY DEF InsertDeployment
  <2> HIDE DEF x
  <2>3. rows \in [Projects \X Commits -> Nat] /\ rows[x] + 1 \in Nat
    BY <2>1 DEF TypeOK
  <2> QED
    BY <2>2, <2>3
<1>2. queuedBy' \in [Deliveries -> Nat]
  <2>1. queuedBy \in [Deliveries -> Nat]
    BY DEF TypeOK
  <2>2. req[h].via \in {"webhook", "preview"} => req[h].delivery \in Deliveries
    BY InProgress DEF Local
  <2> QED
    BY <2>1, <2>2 DEF InsertDeployment
<1> QED
  BY <1>1, <1>2

\* EnqueueDeployment: the row is inserted.
LEMMA InsertProceeds ==
    ASSUME TypeOK, PlaceInv, NEW h \in Handlers, Insert(h)
    PROVE  Proceeds(h)
<1>1. Moves(h)
  BY NextRepoMoves DEF Insert
<1>2. rows' \in [Projects \X Commits -> Nat] /\ queuedBy' \in [Deliveries -> Nat]
  BY InsertTypes DEF Insert
<1> QED
  BY <1>1, <1>2, TablesTypes DEF Insert, Proceeds, TablesInv, userVars

-----------------------------------------------------------------------------
\* handleInstallation: the row of the installation.
LEMMA UpsertProceeds ==
    ASSUME TypeOK, PlaceInv, NEW h \in Handlers, UpsertInstallation(h)
    PROVE  Proceeds(h)
<1>1. Moves(h)
  <2>1. Local("link", req[h])
    BY InProgress DEF Local, Steps, Installing, UpsertInstallation
  <2> QED
    BY <2>1, StepMoves DEF UpsertInstallation
<1>2. Inst(h) \in Installations
  BY InProgress, EventTypes DEF Inst, Ev, UpsertInstallation, Local, Installing
<1> QED
  BY <1>1, <1>2, TablesTypes DEF UpsertInstallation, Proceeds, TablesInv, userVars

\* handleInstallation goes on after the link.
LEMMA AfterLinkMoves ==
    ASSUME TypeOK, PlaceInv, NEW h \in Handlers, at[h] = "link", AfterLink(h)
    PROVE  Moves(h)
<1>1. Local("owner", req[h])
  BY InProgress DEF Local, Steps, Installing
<1> QED
  BY <1>1, ReturnMoves, StepMoves DEF AfterLink

\* LinkInstallation: its owner, if the user has logged in before.
LEMMA LinkProceeds ==
    ASSUME TypeOK, PlaceInv, NEW h \in Handlers, LinkInstallation(h)
    PROVE  Proceeds(h)
<1>1. Moves(h)
  BY AfterLinkMoves DEF LinkInstallation
<1> QED
  BY <1>1, TablesTypes DEF LinkInstallation, Link, Proceeds, TablesInv, userVars

\* AddRepos: is there an owner, whose projects are capped?
LEMMA ReadOwnerProceeds ==
    ASSUME TypeOK, PlaceInv, NEW h \in Handlers, ReadOwner(h)
    PROVE  Proceeds(h)
<1>1. PICK step \in {"count", "batch"} : GoTo(h, step)
  BY DEF ReadOwner
<1>2. Local(step, req[h])
  BY <1>1, InProgress DEF Local, Steps, Installing, ReadOwner
<1>3. Moves(h)
  BY <1>1, <1>2, StepMoves DEF ReadOwner
<1> QED
  BY <1>3, NoTableProceeds DEF ReadOwner, TypeOK

\* AddRepos: what the cap leaves.
LEMMA CountProceeds ==
    ASSUME TypeOK, PlaceInv, NEW h \in Handlers, CountProjects(h)
    PROVE  Proceeds(h)
<1> DEFINE count == Cardinality(claimed)
           room  == IF count < MaxProjects THEN MaxProjects - count ELSE 0
           r     == [req[h] EXCEPT !.room = room]
<1>1. GoTo(h, "batch") /\ Set(h, r)
  BY DEF CountProjects
<1>2. room \in -1..MaxProjects
  <2>1. count \in Nat
    BY ProjectsFinite DEF TypeOK
  <2> HIDE DEF count
  <2> QED
    BY <2>1, ConstantsAssumption
<1> HIDE DEF room
<1>3. r \in Requests /\ r.via = req[h].via /\ r.delivery = req[h].delivery
  BY <1>2, InProgress DEF Requests
<1> HIDE DEF r
<1>4. Local("batch", r)
  BY <1>3, InProgress DEF Local, Steps, Installing, CountProjects
<1>5. Moves(h)
  BY <1>1, <1>3, <1>4 DEF Moves, SameDelivery, CountProjects
<1> QED
  BY <1>5, NoTableProceeds DEF CountProjects, TypeOK

\* AddRepos: the batch is applied as a whole or not at all.
LEMMA AddReposProceeds ==
    ASSUME TypeOK, PlaceInv, NEW h \in Handlers, AddRepos(h)
    PROVE  Proceeds(h)
<1>1. Local("adopt", req[h])
  BY InProgress DEF Local, Steps, Installing, AddRepos
<1>2. req[h].todo \subseteq Projects
  BY InProgress DEF Requests
<1>3. PICK S \in Admitted(h) :
        LET new == S \ projects IN
        IF Inst(h) \notin installed \/ SlugTaken(new)
        THEN Return(h) /\ UNCHANGED <<granted, projects, claimed, corrected>>
        ELSE /\ granted' = granted \cup req[h].todo
             /\ InsertProjects(new)
             /\ GoTo(h, "adopt")
             /\ UNCHANGED req
  BY DEF AddRepos
<1>4. S \subseteq Projects
  BY <1>2 DEF Admitted
<1>5. Moves(h)
  BY <1>1, <1>3, ReturnMoves, StepMoves DEF AddRepos
<1>6. /\ granted' \subseteq Projects /\ projects' \subseteq Projects
      /\ claimed' \subseteq projects' /\ corrected' \subseteq projects'
      /\ projects \subseteq projects'
  BY <1>2, <1>3, <1>4 DEF InsertProjects, TypeOK
<1> QED
  BY <1>5, <1>6, TablesTypes DEF AddRepos, Proceeds, TablesInv, userVars

\* SetProjectOwner: the back-fill.
LEMMA SetOwnerProceeds ==
    ASSUME TypeOK, PlaceInv, NEW h \in Handlers, SetProjectOwner(h)
    PROVE  Proceeds(h)
<1>1. req[h].via = "install" /\ Local("head", req[h]) /\ GoTo(h, "head")
  BY InProgress DEF Local, Steps, Installing, SetProjectOwner
<1>2. Set(h, req[h])
  BY DEF SetProjectOwner, Set, TypeOK
<1>3. Moves(h)
  BY <1>1, <1>2 DEF Moves, SameDelivery, SetProjectOwner
<1> QED
  BY <1>3, TablesTypes DEF SetProjectOwner, OwnProjects, Proceeds, TablesInv, userVars

\* RemoveRepos and DeleteInstallation are the last steps of their events.
LEMMA RemoveProceeds ==
    ASSUME TypeOK, PlaceInv, NEW h \in Handlers, RemoveRepos(h) \/ DeleteInstallation(h)
    PROVE  Proceeds(h)
<1>1. Moves(h)
  BY ReturnMoves DEF RemoveRepos, DeleteInstallation
<1>2. CASE RemoveRepos(h)
  BY <1>1, <1>2, TablesTypes DEF RemoveRepos, Proceeds, TablesInv, userVars
<1>3. CASE DeleteInstallation(h)
  BY <1>1, <1>3, TablesTypes
     DEF DeleteInstallation, Unlocked, Proceeds, TablesInv, userVars
<1> QED
  BY <1>2, <1>3

-----------------------------------------------------------------------------
\* GitHub knows the branch: the commit at its HEAD is enqueued.
LEMMA HeadFoundProceeds ==
    ASSUME TypeOK, PlaceInv, NEW h \in Handlers, HeadFound(h)
    PROVE  Proceeds(h)
<1>1. PICK p \in req[h].todo, c \in Commits : Set(h, [req[h] EXCEPT !.now = p, !.commit = c])
  BY DEF HeadFound
<1> DEFINE r == [req[h] EXCEPT !.now = p, !.commit = c]
<1>2. r \in Requests /\ r.via = req[h].via /\ r.delivery = req[h].delivery
  BY InProgress DEF Requests
<1>3. GoTo(h, "lookup") /\ Set(h, r)
  BY <1>1 DEF HeadFound
<1> HIDE DEF r
<1>4. Local("lookup", r)
  BY <1>2, InProgress DEF Local, Steps, Installing, HeadFound
<1>5. Moves(h)
  BY <1>2, <1>3, <1>4 DEF HeadFound, Moves, SameDelivery
<1> QED
  BY <1>5, NoTableProceeds DEF HeadFound, TypeOK

\* It does not: an install goes on, "Deploy now" asks for the default branch.
LEMMA HeadMissingProceeds ==
    ASSUME TypeOK, PlaceInv, NEW h \in Handlers, HeadMissing(h)
    PROVE  Proceeds(h)
<1>1. PICK p \in req[h].todo :
        IF BestEffort(h) THEN NextRepo(h, p)
        ELSE GoTo(h, "correct") /\ Set(h, [req[h] EXCEPT !.now = p])
  BY DEF HeadMissing
<1>2. CASE BestEffort(h)
  BY <1>1, <1>2, NextRepoMoves, NoTableProceeds DEF HeadMissing, TypeOK
<1>3. CASE ~BestEffort(h)
  <2> DEFINE r == [req[h] EXCEPT !.now = p]
  <2>1. GoTo(h, "correct") /\ Set(h, r)
    BY <1>1, <1>3
  <2>2. /\ r \in Requests /\ r.via = req[h].via /\ r.delivery = req[h].delivery
        /\ r.now = p
    BY InProgress DEF Requests
  <2> HIDE DEF r
  <2>3. req[h].via = "manual" /\ Local("correct", r)
    BY <1>3, <2>2, InProgress DEF Local, Steps, Installing, HeadMissing, BestEffort
  <2>4. p \in projects'
    BY <2>3 DEF HeadMissing, PlaceInv, tableVars
  <2>5. Moves(h)
    BY <2>1, <2>2, <2>3, <2>4 DEF Moves, SameDelivery, HeadMissing
  <2> QED
    BY <2>5, NoTableProceeds DEF HeadMissing, TypeOK
<1> QED
  BY <1>2, <1>3

\* GitHub fails: the repository is given up.
LEMMA HeadFailsProceeds ==
    ASSUME TypeOK, PlaceInv, NEW h \in Handlers, HeadFails(h)
    PROVE  Proceeds(h)
<1>1. Moves(h)
  BY NextRepoMoves DEF HeadFails
<1>2. faults' \in [FaultKinds -> Nat]
  BY StrikeTypes DEF HeadFails, FaultKinds
<1> QED
  BY <1>1, <1>2, NoTableProceeds DEF HeadFails, TypeOK

\* "Deploy now" stores the default branch and asks again.
LEMMA CorrectProceeds ==
    ASSUME TypeOK, PlaceInv, NEW h \in Handlers, UpdateProductionBranch(h)
    PROVE  Proceeds(h)
<1>1. Local("retry", req[h])
  BY InProgress DEF Local, Steps, Installing, UpdateProductionBranch
<1>2. Moves(h)
  BY <1>1, StepMoves DEF UpdateProductionBranch
<1>3. req[h].now \in projects
  BY DEF UpdateProductionBranch, PlaceInv
<1> QED
  BY <1>2, <1>3, TablesTypes
     DEF UpdateProductionBranch, Proceeds, TablesInv, userVars

-----------------------------------------------------------------------------
\* ReconcileOrphanRepos starts.
LEMMA BootProceeds ==
    ASSUME TypeOK, PlaceInv, NEW h \in Handlers, Boot(h)
    PROVE  Proceeds(h)
<1> DEFINE r == [NoRequest EXCEPT !.via = "boot"]
<1>1. GoTo(h, "orphans") /\ Set(h, r)
  BY DEF Boot, Begin
<1>2. r \in Requests /\ r.via = "boot" /\ r.delivery = NoDelivery
  BY NoRequestTypes DEF Requests, Triggers
<1> HIDE DEF r
<1>3. Local("orphans", r)
  BY <1>2 DEF Local, Steps, Installing
<1>4. Moves(h)
  BY <1>1, <1>2, <1>3 DEF Moves, SameDelivery
<1> QED
  BY <1>4, NoTableProceeds DEF Boot, TypeOK

\* It lists the repositories without a project.
LEMMA ListProceeds ==
    ASSUME TypeOK, PlaceInv, NEW h \in Handlers, ListOrphans(h)
    PROVE  Proceeds(h)
<1>1. CASE granted \ projects = {}
  BY <1>1, ReturnMoves, NoTableProceeds DEF ListOrphans, TypeOK
<1>2. CASE granted \ projects # {}
  <2> DEFINE r == [req[h] EXCEPT !.todo = granted \ projects]
  <2>1. GoTo(h, "orphan") /\ Set(h, r)
    BY <1>2 DEF ListOrphans
  <2>2. granted \ projects \in SUBSET Projects
    BY DEF TypeOK
  <2>3. r \in Requests /\ r.via = req[h].via /\ r.delivery = req[h].delivery
    BY <2>2, InProgress DEF Requests
  <2> HIDE DEF r
  <2>4. Local("orphan", r)
    BY <2>3, InProgress DEF Local, Steps, Installing, ListOrphans
  <2>5. Moves(h)
    BY <2>1, <2>3, <2>4 DEF Moves, SameDelivery, ListOrphans
  <2> QED
    BY <2>5, NoTableProceeds DEF ListOrphans, TypeOK
<1> QED
  BY <1>1, <1>2

\* It goes on to the next orphan, or to the projects it has created.
LEMMA OrphanDoneMoves ==
    ASSUME TypeOK, PlaceInv, NEW h \in Handlers, at[h] = "orphan",
           NEW p, NEW created \in SUBSET Projects, OrphanDone(h, p, created)
    PROVE  Moves(h)
<1> DEFINE rest == req[h].todo \ {p}
           made == req[h].made \cup created
<1>1. rest \in SUBSET Projects /\ made \in SUBSET Projects
  BY InProgress DEF Requests
<1>2. req[h].via = "boot"
  BY InProgress DEF Local
<1>3. CASE rest # {}
  <2> DEFINE r == [req[h] EXCEPT !.todo = rest, !.made = made]
  <2>1. GoTo(h, "orphan") /\ Set(h, r)
    BY <1>3 DEF OrphanDone, GoTo, TypeOK
  <2> HIDE DEF rest, made
  <2>2. r \in Requests /\ r.via = req[h].via /\ r.delivery = req[h].delivery
    BY <1>1, InProgress DEF Requests
  <2> HIDE DEF r
  <2>3. Local("orphan", r)
    BY <1>2, <2>2, InProgress DEF Local, Steps, Installing
  <2> QED
    BY <2>1, <2>2, <2>3 DEF Moves, SameDelivery
<1>4. CASE rest = {} /\ made # {}
  <2> DEFINE r == [req[h] EXCEPT !.todo = made]
  <2>1. GoTo(h, "head") /\ Set(h, r)
    BY <1>4 DEF OrphanDone
  <2> HIDE DEF rest, made
  <2>2. r \in Requests /\ r.via = req[h].via /\ r.delivery = req[h].delivery
    BY <1>1, InProgress DEF Requests
  <2> HIDE DEF r
  <2>3. Local("head", r)
    BY <1>2, <2>2, InProgress DEF Local, Steps, Installing
  <2> QED
    BY <1>2, <2>1, <2>2, <2>3 DEF Moves, SameDelivery
<1>5. CASE rest = {} /\ made = {}
  BY <1>5, ReturnMoves DEF OrphanDone
<1> QED
  BY <1>3, <1>4, <1>5

\* One orphan gets its project.
LEMMA OrphanProceeds ==
    ASSUME TypeOK, PlaceInv, NEW h \in Handlers, ReconcileOrphan(h)
    PROVE  Proceeds(h)
<1>1. PICK p \in req[h].todo :
          LET new == {p} \ projects IN
          CASE new = {} \/ p[1] \notin installed ->
                  OrphanDone(h, p, {}) /\ UNCHANGED <<projects, claimed, corrected>>
            [] new # {} /\ p[1] \in installed /\ SlugTaken(new) ->
                  Return(h) /\ UNCHANGED <<projects, claimed, corrected>>
            [] OTHER -> InsertProjects(new) /\ OrphanDone(h, p, new)
  BY DEF ReconcileOrphan
<1> DEFINE new == {p} \ projects
<1>2. p \in Projects /\ new \in SUBSET Projects
  BY InProgress DEF Requests
<1>3. \/ \E made \in {{}, new} : OrphanDone(h, p, made)
      \/ Return(h)
  BY <1>1
<1>4. InsertProjects(new) \/ UNCHANGED <<projects, claimed, corrected>>
  BY <1>1
<1> HIDE DEF new
<1>5. Moves(h)
  BY <1>2, <1>3, OrphanDoneMoves, ReturnMoves DEF ReconcileOrphan
<1>6. /\ projects' \subseteq Projects /\ projects \subseteq projects'
      /\ claimed' \subseteq projects' /\ corrected' \subseteq projects'
  BY <1>2, <1>4 DEF InsertProjects, TypeOK
<1> QED
  BY <1>5, <1>6, TablesTypes DEF ReconcileOrphan, Proceeds, TablesInv, userVars

\* "Deploy now".
LEMMA DeployNowProceeds ==
    ASSUME TypeOK, PlaceInv, NEW h \in Handlers, DeployNow(h)
    PROVE  Proceeds(h)
<1>1. PICK p \in claimed :
        Begin(h, "head", [NoRequest EXCEPT !.via = "manual", !.todo = {p}, !.now = p])
  BY DEF DeployNow
<1> DEFINE r == [NoRequest EXCEPT !.via = "manual", !.todo = {p}, !.now = p]
<1>2. p \in projects /\ p \in Projects
  BY DEF TypeOK
<1>3. /\ r \in Requests /\ r.via = "manual" /\ r.delivery = NoDelivery
      /\ r.todo \subseteq projects
  BY <1>2, NoRequestTypes DEF Requests, Triggers
<1>4. GoTo(h, "head") /\ Set(h, r)
  BY <1>1 DEF Begin
<1> HIDE DEF r
<1>5. Local("head", r)
  BY <1>3 DEF Local, Steps, Installing
<1>6. projects' = projects
  BY DEF DeployNow, tableVars
<1>7. Moves(h)
  BY <1>3, <1>4, <1>5, <1>6 DEF Moves, SameDelivery
<1>8. clicks' \in Nat
  BY DEF DeployNow, Click, TypeOK
<1> QED
  BY <1>7, <1>8, NoTableProceeds DEF DeployNow, TypeOK

\* A statement fails.
LEMMA DbFailsProceeds ==
    ASSUME TypeOK, PlaceInv, NEW h \in Handlers, DbFails(h)
    PROVE  Proceeds(h)
<1>1. faults' \in [FaultKinds -> Nat]
  BY StrikeTypes DEF DbFails, FaultKinds
<1>2. CASE at[h] \in {"lookup", "insert"}
  BY <1>2, <1>1, NextRepoMoves, NoTableProceeds DEF DbFails, TypeOK
<1>3. CASE at[h] = "link"
  BY <1>3, <1>1, AfterLinkMoves, NoTableProceeds DEF DbFails, TypeOK
<1>4. CASE at[h] = "owner"
  <2>1. Local("batch", req[h]) /\ GoTo(h, "batch") /\ UNCHANGED req
    BY <1>4, InProgress DEF Local, Steps, Installing, DbFails
  <2>2. Moves(h)
    BY <1>4, <2>1, StepMoves
  <2> QED
    BY <1>1, <2>2, NoTableProceeds DEF DbFails, TypeOK
<1>5. CASE at[h] = "adopt"
  <2>1. /\ Local("head", req[h]) /\ GoTo(h, "head") /\ UNCHANGED req
        /\ req[h].via = "install"
    BY <1>5, InProgress DEF Local, Steps, Installing, DbFails
  <2>2. Set(h, req[h])
    BY <2>1 DEF Set, TypeOK
  <2>3. Moves(h)
    BY <1>5, <2>1, <2>2 DEF Moves, SameDelivery
  <2> QED
    BY <1>1, <2>3, NoTableProceeds DEF DbFails, TypeOK
<1>6. CASE at[h] = "correct"
  <2>1. Local("retry", req[h]) /\ GoTo(h, "retry") /\ UNCHANGED req
    BY <1>6, InProgress DEF Local, Steps, Installing, DbFails
  <2>2. Moves(h)
    BY <1>6, <2>1, StepMoves
  <2> QED
    BY <1>1, <2>2, NoTableProceeds DEF DbFails, TypeOK
<1>7. CASE at[h] \notin {"lookup", "insert", "link", "owner", "adopt", "correct"}
  <2>1. Return(h)
    BY <1>7 DEF DbFails
  <2> QED
    BY <1>1, <2>1, ReturnMoves, NoTableProceeds DEF DbFails, TypeOK
<1> QED
  BY <1>2, <1>3, <1>4, <1>5, <1>6, <1>7

-----------------------------------------------------------------------------
\* Whatever a request does next.
LEMMA RequestProceeds ==
    ASSUME TypeOK, PlaceInv, NEW h \in Handlers,
           \/ \E d \in Deliveries : Receive(h, d)
           \/ RequestStep(h)
           \/ Boot(h) \/ DeployNow(h) \/ HeadFails(h) \/ DbFails(h)
    PROVE  Proceeds(h)
  BY ReceiveProceeds, RecordProceeds, LookupProceeds, DedupeProceeds, InsertProceeds,
     UpsertProceeds, LinkProceeds, ReadOwnerProceeds, CountProceeds, AddReposProceeds,
     SetOwnerProceeds, RemoveProceeds, HeadFoundProceeds, HeadMissingProceeds,
     HeadFailsProceeds, CorrectProceeds, BootProceeds, ListProceeds, OrphanProceeds,
     DeployNowProceeds, DbFailsProceeds
  DEF RequestStep

\* The steps that are of no request: "Redeploy", and those of a login.
Aside == Redeploy \/ LogIn \/ LoginStep \/ ClaimFails

\* They leave every request where it is.
LEMMA AsideTypes ==
    ASSUME TypeOK, PlaceInv, Aside
    PROVE  TypeOK' /\ PlaceInv'
<1>1. UNCHANGED <<at, req, projects>>
  BY DEF Aside, Redeploy, LogIn, LoginStep, ClaimInstallations, AdoptProjects,
         CommitClaim, ClaimFails, tableVars
<1>2. TablesInv
  BY TablesTypes
<1>3. TablesInv'
  <2>1. CASE Redeploy
    <3>1. PICK p \in claimed, c \in Commits : rows' = [rows EXCEPT ![<<p, c>>] = @ + 1]
      BY <2>1 DEF Redeploy
    <3> DEFINE x == <<p, c>>
    <3>2. x \in Projects \X Commits
      BY DEF TypeOK
    <3> HIDE DEF x
    <3>3. rows \in [Projects \X Commits -> Nat] /\ rows[x] + 1 \in Nat
      BY <3>2 DEF TypeOK
    <3>4. rows' \in [Projects \X Commits -> Nat]
      BY <3>1, <3>3 DEF x
    <3>5. clicks' \in Nat
      BY <2>1 DEF Redeploy, Click, TypeOK
    <3> QED
      BY <1>2, <2>1, <3>4, <3>5 DEF Redeploy, TablesInv, userVars
  <2>2. CASE LogIn
    BY <1>2, <2>2 DEF LogIn, TablesInv, tableVars, LoginSteps
  <2>3. CASE ClaimInstallations
    BY <1>2, <2>3 DEF ClaimInstallations, TablesInv, tableVars, LoginSteps
  <2>4. CASE AdoptProjects
    BY <1>2, <2>4 DEF AdoptProjects, AdoptedRows, TablesInv, tableVars, LoginSteps
  <2>5. CASE CommitClaim
    BY <1>2, <2>5 DEF CommitClaim, TablesInv, LoginSteps
  <2>6. CASE ClaimFails
    <3>1. faults' \in [FaultKinds -> Nat]
      BY <2>6, StrikeTypes DEF ClaimFails, FaultKinds
    <3> QED
      BY <1>2, <2>6, <3>1 DEF ClaimFails, TablesInv, tableVars, LoginSteps
  <2> QED
    BY <2>1, <2>2, <2>3, <2>4, <2>5, <2>6 DEF Aside, LoginStep
<1> QED
  BY <1>1, <1>3 DEF TypeOK, PlaceInv, TablesInv

\* After a crash nobody is at work.
LEMMA CrashTypes ==
    ASSUME TypeOK, PlaceInv, Crash
    PROVE  TypeOK' /\ PlaceInv'
<1>1. faults' \in [FaultKinds -> Nat]
  BY StrikeTypes DEF Crash, FaultKinds
<1>2. TablesInv'
  BY <1>1, TablesTypes DEF Crash, TablesInv, tableVars, LoginSteps
<1>3. at' \in [Handlers -> Steps] /\ req' \in [Handlers -> Requests]
  BY NoRequestTypes DEF Crash, Steps
<1>4. \A h \in Handlers : at'[h] = "idle" /\ req'[h] = NoRequest
  BY DEF Crash
<1>5. Local("idle", NoRequest)
  BY NoRequestTypes DEF Local, Steps, Installing
<1>6. \A h \in Handlers : Local(at'[h], req'[h])
  BY <1>4, <1>5
<1> QED
  BY <1>2, <1>3, <1>4, <1>6 DEF TypeOK, PlaceInv, TablesInv

\* The types, and the places that belong to each request, hold on every step.
LEMMA TypeNext ==
    ASSUME TypeOK, PlaceInv, [Next]_vars
    PROVE  TypeOK' /\ PlaceInv'
<1>1. ASSUME NEW h \in Handlers, Proceeds(h) PROVE TypeOK' /\ PlaceInv'
  BY <1>1, OneRequestMoves DEF Proceeds
<1>2. CASE UNCHANGED vars
  BY <1>2 DEF vars, tableVars, userVars, TypeOK, PlaceInv
<1> QED
  BY <1>1, <1>2, RequestProceeds, AsideTypes, CrashTypes DEF Next, Aside

\* Types: the tables and the requests of the receiver are what TypeOK says,
\* for any number of each.
THEOREM TypeCorrect == Spec => []TypeOK
<1>1. Init => TypeOK /\ PlaceInv
  BY TypeInit
<1>2. TypeOK /\ PlaceInv /\ [Next]_vars => TypeOK' /\ PlaceInv'
  BY TypeNext
<1> QED
  BY <1>1, <1>2, PTL DEF Spec

-----------------------------------------------------------------------------
\* The request h has taken the delivery d up.
Serving(h, d) == at[h] \notin {"idle", "record"} /\ req[h].delivery = d

\* A delivery is recorded before it is served, by one request, which stops
\* when it queues the build.
OnceInv ==
    /\ \A h \in Handlers, d \in Deliveries :
          Serving(h, d) => d \in recorded /\ queuedBy[d] = 0
    /\ \A h, i \in Handlers, d \in Deliveries :
          Serving(h, d) /\ Serving(i, d) => h = i
    /\ \A d \in Deliveries : d \notin recorded => queuedBy[d] = 0
    /\ \A d \in Deliveries : queuedBy[d] <= 1

\* No request takes a delivery up.
NoNewService ==
    \A h \in Handlers, d \in Deliveries : Serving(h, d)' => Serving(h, d)

\* A request that moves serves the delivery it came with, or none.
LEMMA MovesServes ==
    ASSUME TypeOK, PlaceInv, NEW h \in Handlers, Moves(h)
    PROVE  /\ \A d \in Deliveries : Serving(h, d)' => at[h] # "idle" /\ req[h].delivery = d
           /\ \A i \in Handlers, d \in Deliveries :
                 i # h => (Serving(i, d)' <=> Serving(i, d))
<1>1. PICK step, r : GoTo(h, step) /\ Set(h, r) /\ SameDelivery(h, step, r)
  BY DEF Moves
<1>2. at'[h] = step /\ req'[h] = r
  BY <1>1 DEF TypeOK, GoTo, Set
<1>3. \A i \in Handlers : i # h => at'[i] = at[i] /\ req'[i] = req[i]
  BY <1>1 DEF TypeOK, GoTo, Set
<1> QED
  BY <1>1, <1>2, <1>3, ConstantsAssumption DEF Serving, SameDelivery

\* A request that is answered serves nothing.
LEMMA ReturnServes ==
    ASSUME TypeOK, PlaceInv, NEW h \in Handlers, Return(h)
    PROVE  /\ \A d \in Deliveries : ~Serving(h, d)'
           /\ NoNewService
<1>1. at'[h] = "idle"
  BY DEF Return, GoTo, TypeOK
<1>2. \A d \in Deliveries : ~Serving(h, d)'
  BY <1>1 DEF Serving
<1> QED
  BY <1>2, MovesServes, ReturnMoves DEF NoNewService

\* Only Record takes a delivery up, only Insert queues a build for one.
LEMMA OtherSteps ==
    ASSUME TypeOK, PlaceInv, [Next]_vars,
           \A h \in Handlers : ~Record(h) /\ ~Insert(h)
    PROVE  NoNewService /\ UNCHANGED <<recorded, queuedBy>>
<1>1. ASSUME NEW h \in Handlers, Proceeds(h), at[h] # "record",
             UNCHANGED <<recorded, queuedBy>>
      PROVE  NoNewService /\ UNCHANGED <<recorded, queuedBy>>
  BY <1>1, MovesServes DEF Proceeds, NoNewService, Serving
<1>2. CASE \E h \in Handlers, d \in Deliveries : Receive(h, d)
  BY <1>1, <1>2, ReceiveProceeds DEF Receive, Begin, tableVars
<1>3. CASE \E h \in Handlers : RequestStep(h)
  <2>1. PICK h \in Handlers : RequestStep(h)
    BY <1>3
  <2>2. Proceeds(h)
    BY <2>1, RequestProceeds
  <2>3. at[h] # "record"
    BY <2>1 DEF RequestStep, Lookup, Dedupe, UpsertInstallation, LinkInstallation,
       ReadOwner, CountProjects, AddRepos, SetProjectOwner, RemoveRepos,
       DeleteInstallation, HeadFound, HeadMissing, UpdateProductionBranch,
       ListOrphans, ReconcileOrphan
  <2>4. UNCHANGED <<recorded, queuedBy>>
    BY <2>1 DEF RequestStep, Lookup, Dedupe, UpsertInstallation, LinkInstallation,
       ReadOwner, CountProjects, AddRepos, SetProjectOwner, RemoveRepos,
       DeleteInstallation, HeadFound, HeadMissing, UpdateProductionBranch,
       ListOrphans, ReconcileOrphan, tableVars
  <2> QED
    BY <1>1, <2>2, <2>3, <2>4
<1>4. CASE \E h \in Handlers : Boot(h) \/ DeployNow(h)
  BY <1>1, <1>4, RequestProceeds DEF Boot, DeployNow, Begin, tableVars
<1>5. CASE \E h \in Handlers : HeadFails(h)
  BY <1>1, <1>5, RequestProceeds DEF HeadFails, tableVars
<1>6. CASE \E h \in Handlers : DbFails(h)
  <2>1. PICK h \in Handlers : DbFails(h)
    BY <1>6
  <2>2. UNCHANGED <<recorded, queuedBy>>
    BY <2>1 DEF DbFails, tableVars
  <2>3. CASE at[h] = "record"
    <3>1. Return(h)
      BY <2>1, <2>3 DEF DbFails
    <3> QED
      BY <2>2, <3>1, ReturnServes
  <2> QED
    BY <1>1, <2>1, <2>2, <2>3, RequestProceeds
<1>7. CASE Aside
  <2>1. UNCHANGED <<at, req, recorded, queuedBy>>
    BY <1>7 DEF Aside, Redeploy, LogIn, LoginStep, ClaimInstallations, AdoptProjects,
           CommitClaim, ClaimFails, tableVars
  <2> QED
    BY <2>1 DEF NoNewService, Serving
<1>8. CASE Crash
  <2>1. \A h \in Handlers : at'[h] = "idle"
    BY <1>8 DEF Crash
  <2> QED
    BY <1>8, <2>1 DEF Crash, NoNewService, Serving, tableVars
<1>9. CASE UNCHANGED vars
  BY <1>9 DEF NoNewService, Serving, vars, tableVars
<1> QED
  BY <1>2, <1>3, <1>4, <1>5, <1>6, <1>7, <1>8, <1>9 DEF Next, Aside

\* Record takes the delivery up unless it is known.
LEMMA RecordServes ==
    ASSUME TypeOK, PlaceInv, NEW h \in Handlers, Record(h)
    PROVE  LET d == req[h].delivery IN
           /\ d \in Deliveries
           /\ recorded' = recorded \cup {d}
           /\ UNCHANGED queuedBy
           /\ \/ d \in recorded /\ NoNewService
              \/ /\ d \notin recorded
                 /\ \A i \in Handlers, e \in Deliveries :
                       (i = h /\ e = d) \/ (Serving(i, e)' <=> Serving(i, e))
<1>1. /\ req[h].delivery \in Deliveries
      /\ recorded' = recorded \cup {req[h].delivery} /\ UNCHANGED queuedBy
  BY InProgress DEF Record, RecordDelivery, Local
<1>2. CASE req[h].delivery \in recorded
  BY <1>1, <1>2, ReturnServes DEF Record, RecordDelivery
<1>3. CASE req[h].delivery \notin recorded
  <2>1. Moves(h)
    BY <1>3, DispatchMoves DEF Record, RecordDelivery
  <2> QED
    BY <1>1, <1>3, <2>1, MovesServes DEF Record, Serving
<1> QED
  BY <1>2, <1>3

\* Insert queues a build for the delivery of a push and ends its request.
LEMMA InsertServes ==
    ASSUME TypeOK, PlaceInv, NEW h \in Handlers, Insert(h)
    PROVE  /\ UNCHANGED recorded /\ NoNewService
           /\ UNCHANGED queuedBy
              \/ /\ req[h].delivery \in Deliveries
                 /\ Serving(h, req[h].delivery)
                 /\ \A e \in Deliveries : ~Serving(h, e)'
                 /\ \A i \in Handlers, e \in Deliveries :
                       e # req[h].delivery => (Serving(i, e)' <=> Serving(i, e))
                 /\ queuedBy' = [queuedBy EXCEPT ![req[h].delivery] = @ + 1]
<1>1. NoNewService
  BY MovesServes, NextRepoMoves DEF Insert, NoNewService, Serving
<1>2. CASE req[h].via \notin {"webhook", "preview"}
  BY <1>1, <1>2 DEF Insert, InsertDeployment
<1>3. CASE req[h].via \in {"webhook", "preview"}
  <2>1. Return(h)
    BY <1>3 DEF Insert, NextRepo, BestEffort
  <2>2. req[h].delivery \in Deliveries
    BY <1>3, InProgress DEF Local, Insert
  <2>3. \A i \in Handlers, e \in Deliveries :
           e # req[h].delivery => (Serving(i, e)' <=> Serving(i, e))
    BY <2>1, ReturnMoves, ReturnServes, MovesServes DEF Serving
  <2> QED
    BY <1>1, <1>3, <2>1, <2>2, <2>3, ReturnServes DEF Insert, InsertDeployment, Serving
<1> QED
  BY <1>2, <1>3

\* Each step keeps OnceInv.
LEMMA OnceNext ==
    ASSUME TypeOK, PlaceInv, OnceInv, [Next]_vars
    PROVE  OnceInv'
<1>1. CASE \E h \in Handlers : Record(h)
  <2>1. PICK h \in Handlers : Record(h)
    BY <1>1
  <2>2. PICK d \in Deliveries :
        /\ recorded' = recorded \cup {d} /\ queuedBy' = queuedBy
        /\ \/ d \in recorded /\ NoNewService
           \/ /\ d \notin recorded
              /\ \A i \in Handlers, e \in Deliveries :
                    (i = h /\ e = d) \/ (Serving(i, e)' <=> Serving(i, e))
    BY <2>1, RecordServes
  <2> QED
    BY <2>2 DEF OnceInv, NoNewService
<1>2. CASE \E h \in Handlers : Insert(h)
  <2>1. PICK h \in Handlers : Insert(h)
    BY <1>2
  <2>2. /\ recorded' = recorded /\ NoNewService
        /\ \/ queuedBy' = queuedBy
           \/ \E d \in Deliveries :
              /\ Serving(h, d)
              /\ \A e \in Deliveries : ~Serving(h, e)'
              /\ \A i \in Handlers, e \in Deliveries :
                    e # d => (Serving(i, e)' <=> Serving(i, e))
              /\ queuedBy' = [queuedBy EXCEPT ![d] = @ + 1]
    BY <2>1, InsertServes
  <2>3. CASE queuedBy' = queuedBy
    BY <2>2, <2>3 DEF OnceInv, NoNewService
  <2>4. CASE queuedBy' # queuedBy
    <3> PICK d \in Deliveries :
          /\ Serving(h, d)
          /\ \A e \in Deliveries : ~Serving(h, e)'
          /\ \A i \in Handlers, e \in Deliveries :
                e # d => (Serving(i, e)' <=> Serving(i, e))
          /\ queuedBy' = [queuedBy EXCEPT ![d] = @ + 1]
      BY <2>2, <2>4
    <3>1. d \in recorded /\ queuedBy'[d] = 1
      BY <2>2, <2>4 DEF OnceInv, TypeOK
    <3>2. \A e \in Deliveries : e # d => queuedBy'[e] = queuedBy[e]
      BY <2>2, <2>4 DEF TypeOK
    <3>3. \A i \in Handlers : ~Serving(i, d)'
      BY <2>2, <2>4 DEF OnceInv, NoNewService
    <3>4. \A e \in Deliveries : /\ queuedBy'[e] <= 1
                               /\ e \notin recorded' => queuedBy'[e] = 0
      BY <2>2, <3>1, <3>2 DEF OnceInv
    <3>5. \A i \in Handlers, e \in Deliveries :
             Serving(i, e)' => e \in recorded' /\ queuedBy'[e] = 0
      BY <2>2, <3>2, <3>3 DEF OnceInv, NoNewService
    <3>6. \A i, j \in Handlers, e \in Deliveries :
             Serving(i, e)' /\ Serving(j, e)' => i = j
      BY <2>2 DEF OnceInv, NoNewService
    <3> QED
      BY <3>4, <3>5, <3>6 DEF OnceInv
  <2> QED
    BY <2>3, <2>4
<1>3. CASE \A h \in Handlers : ~Record(h) /\ ~Insert(h)
  <2>1. NoNewService /\ recorded' = recorded /\ queuedBy' = queuedBy
    BY <1>3, OtherSteps
  <2> QED
    BY <2>1 DEF OnceInv, NoNewService
<1> QED
  BY <1>1, <1>2, <1>3

-----------------------------------------------------------------------------
\* The stages DeliveryOnce sees.
stages == [d \in Deliveries |-> StageOf(d)]

\* What a stage says.
LEMMA StageValues ==
    ASSUME OnceInv, NEW d \in Deliveries
    PROVE  /\ StageOf(d) = "new" <=> d \notin recorded
           /\ StageOf(d) = "taken" <=> \E h \in Handlers : Serving(h, d)
           /\ StageOf(d) \in {"new", "taken", "settled"}
  BY DEF StageOf, Served, Serving, OnceInv

\* A delivery that is recorded and that no request takes up ends up settled.
LEMMA StagesSettle ==
    ASSUME OnceInv, OnceInv', recorded' = recorded, NEW d \in Deliveries,
           \A h \in Handlers : Serving(h, d)' => Serving(h, d)
    PROVE  StageOf(d)' = StageOf(d) \/ (StageOf(d) = "taken" /\ StageOf(d)' = "settled")
<1>1. /\ StageOf(d)' = "new" <=> d \notin recorded'
      /\ StageOf(d)' = "taken" <=> \E h \in Handlers : Serving(h, d)'
      /\ StageOf(d)' \in {"new", "taken", "settled"}
  BY DEF StageOf, Served, Serving, OnceInv
<1> QED
  BY <1>1, StageValues

\* Each step of the receiver is one of DeliveryOnce, or changes nothing there.
LEMMA OnceStep ==
    ASSUME TypeOK, PlaceInv, OnceInv, [Next]_vars
    PROVE  OncePerDelivery!Next \/ UNCHANGED <<stages, queuedBy>>
<1>1. OnceInv'
  BY OnceNext
<1>2. ASSUME NoNewService, recorded' = recorded, queuedBy' = queuedBy
      PROVE  OncePerDelivery!Next
  <2> DEFINE S == {d \in Deliveries : StageOf(d) = "taken" /\ StageOf(d)' = "settled"}
  <2>1. S \in SUBSET {d \in Deliveries : stages[d] = "taken"}
    BY DEF stages
  <2>2. \A d \in Deliveries : StageOf(d)' = IF d \in S THEN "settled" ELSE stages[d]
    BY <1>1, <1>2, StagesSettle DEF NoNewService, stages
  <2>3. stages' = [d \in Deliveries |-> IF d \in S THEN "settled" ELSE stages[d]]
    BY <2>2 DEF stages
  <2> HIDE DEF S
  <2>4. OncePerDelivery!Abandon
    BY <1>2, <2>1, <2>3 DEF OncePerDelivery!Abandon, stages
  <2> QED
    BY <2>4 DEF OncePerDelivery!Next
<1>3. CASE \E h \in Handlers : Record(h)
  <2>1. PICK h \in Handlers : Record(h)
    BY <1>3
  <2>2. PICK d \in Deliveries :
        /\ recorded' = recorded \cup {d} /\ queuedBy' = queuedBy
        /\ \/ d \in recorded /\ NoNewService
           \/ /\ d \notin recorded
              /\ \A i \in Handlers, e \in Deliveries :
                    (i = h /\ e = d) \/ (Serving(i, e)' <=> Serving(i, e))
    BY <2>1, RecordServes
  <2>3. CASE d \in recorded /\ NoNewService
    BY <1>2, <2>2, <2>3
  <2>4. CASE d \notin recorded
    <3>1. StageOf(d) = "new"
      BY <2>4 DEF StageOf
    <3>2. StageOf(d)' \in {"taken", "settled"}
      BY <2>2 DEF StageOf
    <3>3. \A e \in Deliveries : e # d => StageOf(e)' = StageOf(e)
      BY <2>2, <2>4 DEF StageOf, Served, Serving
    <3>4. stages' = [stages EXCEPT ![d] = StageOf(d)'] /\ stages[d] = "new"
      BY <2>2, <3>1, <3>3 DEF stages
    <3>5. OncePerDelivery!Take(d)
      BY <2>2, <3>2, <3>4 DEF OncePerDelivery!Take, stages
    <3> QED
      BY <2>2, <3>5 DEF OncePerDelivery!Next
  <2> QED
    BY <2>2, <2>3, <2>4
<1>4. CASE \E h \in Handlers : Insert(h)
  <2>1. PICK h \in Handlers : Insert(h)
    BY <1>4
  <2>2. /\ recorded' = recorded /\ NoNewService
        /\ \/ queuedBy' = queuedBy
           \/ \E d \in Deliveries :
              /\ Serving(h, d)
              /\ \A e \in Deliveries : ~Serving(h, e)'
              /\ \A i \in Handlers, e \in Deliveries :
                    e # d => (Serving(i, e)' <=> Serving(i, e))
              /\ queuedBy' = [queuedBy EXCEPT ![d] = @ + 1]
    BY <2>1, InsertServes
  <2>3. CASE queuedBy' = queuedBy
    BY <1>2, <2>2, <2>3
  <2>4. CASE queuedBy' # queuedBy
    <3> PICK d \in Deliveries :
          /\ Serving(h, d)
          /\ \A e \in Deliveries : ~Serving(h, e)'
          /\ \A i \in Handlers, e \in Deliveries :
                e # d => (Serving(i, e)' <=> Serving(i, e))
          /\ queuedBy' = [queuedBy EXCEPT ![d] = @ + 1]
      BY <2>2, <2>4
    <3>1. StageOf(d) = "taken"
      BY <2>2, <2>4, StageValues
    <3>2. \A i \in Handlers : ~Serving(i, d)'
      BY <2>2, <2>4 DEF OnceInv, NoNewService
    <3>3. StageOf(d)' = "settled"
      BY <2>2, <3>2 DEF OnceInv, StageOf, Served, Serving
    <3>4. \A e \in Deliveries : e # d => queuedBy'[e] = queuedBy[e]
      BY <2>2, <2>4 DEF TypeOK
    <3>5. \A e \in Deliveries : e # d => StageOf(e)' = StageOf(e)
      BY <2>2, <2>4, <3>4 DEF StageOf, Served, Serving
    <3>6. stages' = [stages EXCEPT ![d] = "settled"] /\ stages[d] = "taken"
      BY <2>2, <2>4, <3>1, <3>3, <3>5 DEF stages
    <3>7. OncePerDelivery!Queue(d)
      BY <2>2, <2>4, <3>6 DEF OncePerDelivery!Queue, stages
    <3> QED
      BY <2>2, <2>4, <3>7 DEF OncePerDelivery!Next
  <2> QED
    BY <2>3, <2>4
<1>5. CASE \A h \in Handlers : ~Record(h) /\ ~Insert(h)
  BY <1>2, <1>5, OtherSteps
<1> QED
  BY <1>3, <1>4, <1>5

\* Nothing has been delivered yet.
LEMMA OnceStart == Init => OncePerDelivery!Init
  BY DEF Init, OncePerDelivery!Init, StageOf

\* The receiver implements DeliveryOnce: a delivery is taken up once, queues
\* at most one build, and is never taken up again, through any interleaving
\* of requests, repeated deliveries, failures and crashes.
THEOREM ReceiverImplements == Spec => ImplementsDeliveryOnce
<1>1. Init => TypeOK /\ PlaceInv /\ OnceInv
  BY TypeInit DEF Init, OnceInv, Serving
<1>2. TypeOK /\ PlaceInv /\ OnceInv /\ [Next]_vars => TypeOK' /\ PlaceInv' /\ OnceInv'
  BY TypeNext, OnceNext
<1>3. TypeOK /\ PlaceInv /\ OnceInv /\ [Next]_vars
         => [OncePerDelivery!Next]_<<[d \in Deliveries |-> StageOf(d)], queuedBy>>
  BY OnceStep DEF stages
<1> QED
  BY <1>1, <1>2, <1>3, OnceStart, PTL
     DEF Spec, ImplementsDeliveryOnce, OncePerDelivery!Spec

-----------------------------------------------------------------------------
\* A login that no request overlaps: at its commit, every project of an
\* installation with an owner has one or is about to.
LoginInv ==
    /\ login # "out" => \A h \in Handlers : at[h] = "idle"
    /\ login = "commit" => \A p \in projects :
                              p[1] \in owned \cup mine => p \in claimed \cup adopted

\* Requests wait for the login, and do not log anybody in.
LEMMA RequestsWait ==
    ASSUME ~Overlap, LoginInv, NEW h \in Handlers,
           \/ \E d \in Deliveries : Receive(h, d)
           \/ RequestStep(h)
           \/ Boot(h) \/ DeployNow(h) \/ HeadFails(h) \/ DbFails(h)
    PROVE  login = "out" /\ login' = "out"
<1>1. login' = login
  BY DEF Receive, RequestStep, Record, Lookup, Dedupe, Insert, UpsertInstallation,
     LinkInstallation, ReadOwner, CountProjects, AddRepos, SetProjectOwner,
     RemoveRepos, DeleteInstallation, HeadFound, HeadMissing, HeadFails,
     UpdateProductionBranch, ListOrphans, ReconcileOrphan, Boot, DeployNow, DbFails,
     userVars
<1>2. login = "out" \/ at[h] # "idle"
  BY DEF Receive, RequestStep, Record, Lookup, Dedupe, Insert, UpsertInstallation,
     LinkInstallation, ReadOwner, CountProjects, AddRepos, SetProjectOwner,
     RemoveRepos, DeleteInstallation, HeadFound, HeadMissing, HeadFails,
     UpdateProductionBranch, ListOrphans, ReconcileOrphan, Boot, DeployNow, DbFails,
     Begin
<1> QED
  BY <1>1, <1>2 DEF LoginInv

\* Each step keeps LoginInv.
LEMMA LoginNext ==
    ASSUME ~Overlap, LoginInv, [Next]_vars
    PROVE  LoginInv'
<1>1. CASE login' = "out"
  BY <1>1 DEF LoginInv
<1>2. CASE Redeploy \/ LogIn
  BY <1>2 DEF Redeploy, LogIn, LoginInv, userVars
<1>3. CASE ClaimInstallations
  BY <1>3 DEF ClaimInstallations, LoginInv
<1>4. CASE AdoptProjects
  BY <1>4 DEF AdoptProjects, AdoptedRows, LoginInv, tableVars
<1>5. CASE CommitClaim \/ ClaimFails \/ Crash
  BY <1>1, <1>5 DEF CommitClaim, ClaimFails, Crash
<1>6. CASE UNCHANGED vars
  BY <1>6 DEF LoginInv, vars, tableVars, userVars
<1> QED
  BY <1>1, <1>2, <1>3, <1>4, <1>5, <1>6, RequestsWait DEF Next, LoginStep

-----------------------------------------------------------------------------
\* The repositories that some delivery names.
Named == UNION {Of(Event[d].inst, Event[d].repos) : d \in Deliveries}

\* An installation event lists a repository.
InstallsListRepos == \A d \in Deliveries : Event[d].kind = "installed" => Event[d].repos # {}

\* No two of the repositories named have the same slug.
SlugsApart == \A p, q \in Named : SlugOf(p) = SlugOf(q) => p = q

\* What a request works on is named, and an installation event has work to do
\* if it lists a repository.
Works(step, r) ==
    /\ r.todo \cup r.made \subseteq Named
    /\ InstallsListRepos /\ step \in {"upsert", "link"} => r.todo # {}

\* The request will hand the owner of installation i on to its projects.
Adopts(h, i) == at[h] \in {"owner", "count", "batch", "adopt"} /\ Inst(h) = i

Handed(p) == p \in claimed \/ \E h \in Handlers : Adopts(h, p[1])

WorkInv ==
    /\ granted \cup projects \subseteq Named
    /\ \A h \in Handlers : Works(at[h], req[h])

\* A step of one request that keeps its work named.
Continues(h) ==
    \E step, r : Works(step, r) /\ GoTo(h, step) /\ Set(h, r)

\* Nobody else's work changes.
LEMMA WorkContinues ==
    ASSUME TypeOK, WorkInv, NEW h \in Handlers, Continues(h),
           granted' \cup projects' \subseteq Named
    PROVE  WorkInv'
<1>1. PICK step, r : Works(step, r) /\ GoTo(h, step) /\ Set(h, r)
  BY DEF Continues
<1>2. \A g \in Handlers : g # h => at'[g] = at[g] /\ req'[g] = req[g]
  BY <1>1 DEF TypeOK, GoTo, Set
<1>3. at'[h] = step /\ req'[h] = r
  BY <1>1 DEF TypeOK, GoTo, Set
<1>4. \A g \in Handlers : Works(at'[g], req'[g])
  BY <1>1, <1>2, <1>3 DEF WorkInv
<1> QED
  BY <1>4 DEF WorkInv

\* A request with nothing to do works on what is named.
LEMMA NoWork ==
    NoRequest.todo = {} /\ NoRequest.made = {} /\ Works("idle", NoRequest)
  BY DEF NoRequest, Works

\* A request that is answered.
LEMMA ReturnContinues ==
    ASSUME NEW h \in Handlers, Return(h)
    PROVE  Continues(h)
  BY NoWork DEF Return, Continues, Set

\* A step that keeps the locals.
LEMMA StepContinues ==
    ASSUME TypeOK, WorkInv, NEW h \in Handlers, NEW step, GoTo(h, step),
           UNCHANGED req,
           InstallsListRepos /\ step \in {"upsert", "link"} => req[h].todo # {}
    PROVE  Continues(h)
<1>1. Works(step, req[h])
  BY DEF WorkInv, Works
<1>2. Set(h, req[h])
  BY DEF TypeOK, Set
<1> QED
  BY <1>1, <1>2 DEF Continues

\* NextRepo leaves less to do.
LEMMA NextRepoContinues ==
    ASSUME TypeOK, PlaceInv, WorkInv, NEW h \in Handlers, NEW done, NextRepo(h, done)
    PROVE  Continues(h)
<1>1. ASSUME NEW S \in SUBSET req[h].todo, NEW step \in {"head", "remove"},
             GoTo(h, step), Set(h, [req[h] EXCEPT !.todo = S])
      PROVE  Continues(h)
  <2> DEFINE r == [req[h] EXCEPT !.todo = S]
  <2>1. r.todo = S /\ r.made = req[h].made
    BY InProgress DEF Requests
  <2>2. Works(step, r)
    BY <2>1 DEF WorkInv, Works
  <2>3. GoTo(h, step) /\ Set(h, r)
    BY <1>1
  <2> HIDE DEF r
  <2> QED
    BY <2>2, <2>3 DEF Continues
<1> QED
  BY <1>1, ReturnContinues DEF NextRepo

\* Dispatch hands out what the delivery names.
LEMMA DispatchContinues ==
    ASSUME TypeOK, PlaceInv, WorkInv, NEW h \in Handlers,
           at[h] = "record", Dispatch(h)
    PROVE  Continues(h)
<1> DEFINE e == Ev(h)
           todo == Of(e.inst, e.repos)
<1>1. req[h] \in Requests /\ req[h].delivery \in Deliveries
  BY InProgress DEF Local
<1>2. CASE FirstStep(e) = "idle"
  BY <1>2, ReturnContinues DEF Dispatch
<1>3. CASE FirstStep(e) # "idle"
  <2>1. PICK r : /\ GoTo(h, FirstStep(e)) /\ Set(h, r)
                 /\ r.todo = todo /\ r.made = req[h].made
    <3> DEFINE via == CASE e.kind = "push" -> "webhook"
                        [] e.kind = "pull_request" -> "preview"
                        [] OTHER -> "install"
               now == IF e.repos = {} THEN req[h].now
                      ELSE CHOOSE p \in Of(e.inst, e.repos) : TRUE
               s == [req[h] EXCEPT !.via = via, !.todo = todo, !.now = now,
                                   !.commit = e.commit]
    <3>1. GoTo(h, FirstStep(e)) /\ Set(h, s)
      BY <1>3 DEF Dispatch
    <3> HIDE DEF via, now, todo, e
    <3>2. s.todo = todo /\ s.made = req[h].made
      BY <1>1 DEF Requests
    <3> HIDE DEF s
    <3> QED
      BY <3>1, <3>2
  <2>2. todo \subseteq Named
    BY <1>1 DEF Named, Ev
  <2>3. ASSUME InstallsListRepos, FirstStep(e) \in {"upsert", "link"}
        PROVE  todo # {}
    <3>1. e.kind = "installed"
      <4>1. e.kind \in EventKinds
        BY <1>1, EventTypes DEF Ev
      <4> QED
        BY <2>3, <4>1 DEF FirstStep, RepositoriesStep, EventKinds
    <3>2. PICK x \in e.repos : TRUE
      BY <1>1, <2>3, <3>1 DEF InstallsListRepos, Ev
    <3>3. <<e.inst, x>> \in todo
      BY <3>2 DEF Of
    <3> QED
      BY <3>3
  <2>4. Works(FirstStep(e), r)
    BY <2>1, <2>2, <2>3 DEF WorkInv, Works
  <2> QED
    BY <2>1, <2>4 DEF Continues
<1> QED
  BY <1>2, <1>3

\* Repositories, projects and work that appear are named by a delivery.
WorkGoesOn(h) == Continues(h) /\ granted' \cup projects' \subseteq Named

\* A step that grants nothing and makes no project.
LEMMA SameTablesGoOn ==
    ASSUME WorkInv, NEW h \in Handlers, Continues(h), granted' \subseteq granted,
           projects' = projects
    PROVE  WorkGoesOn(h)
  BY DEF WorkInv, WorkGoesOn

\* A request begins.
LEMMA BeginGoesOn ==
    ASSUME TypeOK, PlaceInv, WorkInv, NEW h \in Handlers,
           (\E d \in Deliveries : Receive(h, d)) \/ Boot(h)
    PROVE  WorkGoesOn(h)
<1>1. Continues(h)
  <2>1. CASE \E d \in Deliveries : Receive(h, d)
    <3>1. PICK d \in Deliveries : Receive(h, d)
      BY <2>1
    <3> DEFINE r == [NoRequest EXCEPT !.delivery = d]
    <3>2. GoTo(h, "record") /\ Set(h, r)
      BY <3>1 DEF Receive, Begin
    <3>3. Works("record", r)
      BY NoWork, NoRequestTypes DEF Works, Requests
    <3> HIDE DEF r
    <3> QED
      BY <3>2, <3>3 DEF Continues
  <2>2. CASE Boot(h)
    <3> DEFINE r == [NoRequest EXCEPT !.via = "boot"]
    <3>2. GoTo(h, "orphans") /\ Set(h, r)
      BY <2>2 DEF Boot, Begin
    <3>3. Works("orphans", r)
      BY NoWork, NoRequestTypes DEF Works, Requests
    <3> HIDE DEF r
    <3> QED
      BY <3>2, <3>3 DEF Continues
  <2> QED
    BY <2>1, <2>2
<1>2. UNCHANGED tableVars
  BY DEF Receive, Boot
<1>3. granted' = granted /\ projects' = projects
  BY <1>2 DEF tableVars
<1> QED
  BY <1>1, <1>3, SameTablesGoOn

\* "Deploy now" works on a project.
LEMMA DeployNowGoesOn ==
    ASSUME TypeOK, PlaceInv, WorkInv, NEW h \in Handlers, DeployNow(h)
    PROVE  WorkGoesOn(h)
<1>1. PICK p \in claimed :
        Begin(h, "head", [NoRequest EXCEPT !.via = "manual", !.todo = {p}, !.now = p])
  BY Zenon DEF DeployNow
<1> DEFINE r == [NoRequest EXCEPT !.via = "manual", !.todo = {p}, !.now = p]
<1>2. GoTo(h, "head") /\ Set(h, r)
  BY <1>1 DEF Begin
<1>3. Works("head", r)
  BY NoWork, NoRequestTypes DEF Works, Requests, WorkInv, TypeOK
<1> HIDE DEF r
<1>4. Continues(h)
  BY <1>2, <1>3 DEF Continues
<1>5. granted' = granted /\ projects' = projects
  BY DEF DeployNow, tableVars
<1> QED
  BY <1>4, <1>5, SameTablesGoOn

\* EnqueueDeployment: the project, the commit, the row.
LEMMA EnqueueGoesOn ==
    ASSUME TypeOK, PlaceInv, WorkInv, NEW h \in Handlers,
           Lookup(h) \/ Dedupe(h) \/ Insert(h)
    PROVE  WorkGoesOn(h)
<1>1. Continues(h)
  <2>1. CASE Lookup(h)
    <3>1. CASE NextRepo(h, req[h].now)
      BY <3>1, NextRepoContinues
    <3>2. CASE ~NextRepo(h, req[h].now)
      <4>1. PICK step \in {"dedupe", "insert"} : GoTo(h, step) /\ UNCHANGED req
        BY <2>1, <3>2 DEF Lookup
      <4> QED
        BY <4>1, StepContinues
    <3> QED
      BY <3>1, <3>2
  <2>2. CASE Dedupe(h)
    BY <2>2, ReturnContinues, StepContinues DEF Dedupe
  <2>3. CASE Insert(h)
    BY <2>3, NextRepoContinues DEF Insert
  <2> QED
    BY <2>1, <2>2, <2>3
<1> QED
  BY <1>1, SameTablesGoOn DEF Lookup, Dedupe, Insert, tableVars

\* handleInstallation and handleInstallationRepos, but for the batch.
LEMMA InstallGoesOn ==
    ASSUME TypeOK, PlaceInv, WorkInv, NEW h \in Handlers,
           \/ Record(h) \/ UpsertInstallation(h) \/ LinkInstallation(h)
           \/ ReadOwner(h) \/ CountProjects(h) \/ SetProjectOwner(h)
           \/ RemoveRepos(h) \/ DeleteInstallation(h)
    PROVE  WorkGoesOn(h)
<1>1. Continues(h)
  <2>1. CASE Record(h)
    BY <2>1, ReturnContinues, DispatchContinues DEF Record, RecordDelivery
  <2>2. CASE UpsertInstallation(h)
    <3>1. InstallsListRepos => req[h].todo # {}
      BY <2>2 DEF UpsertInstallation, WorkInv, Works
    <3> QED
      BY <2>2, <3>1, StepContinues DEF UpsertInstallation
  <2>3. CASE LinkInstallation(h)
    BY <2>3, ReturnContinues, StepContinues DEF LinkInstallation, AfterLink
  <2>4. CASE ReadOwner(h)
    <3>1. PICK step \in {"count", "batch"} : GoTo(h, step)
      BY <2>4 DEF ReadOwner
    <3> QED
      BY <2>4, <3>1, StepContinues DEF ReadOwner
  <2>5. CASE CountProjects(h)
    <3>1. PICK n : GoTo(h, "batch") /\ Set(h, [req[h] EXCEPT !.room = n])
      BY <2>5 DEF CountProjects
    <3> DEFINE r == [req[h] EXCEPT !.room = n]
    <3>2. r.todo = req[h].todo /\ r.made = req[h].made
      BY InProgress DEF Requests
    <3>3. Works("batch", r)
      BY <3>2 DEF WorkInv, Works
    <3>4. GoTo(h, "batch") /\ Set(h, r)
      BY <3>1
    <3> HIDE DEF r
    <3> QED
      BY <3>3, <3>4 DEF Continues
  <2>6. CASE SetProjectOwner(h)
    BY <2>6, StepContinues DEF SetProjectOwner
  <2>7. CASE RemoveRepos(h) \/ DeleteInstallation(h)
    BY <2>7, ReturnContinues DEF RemoveRepos, DeleteInstallation
  <2> QED
    BY <2>1, <2>2, <2>3, <2>4, <2>5, <2>6, <2>7
<1>2. granted' \subseteq granted /\ projects' = projects
  BY DEF Record, UpsertInstallation, LinkInstallation, ReadOwner, CountProjects,
     SetProjectOwner, RemoveRepos, DeleteInstallation, tableVars
<1> QED
  BY <1>1, <1>2, SameTablesGoOn

\* The batch admits some of the repositories in hand.
LEMMA AddReposGoesOn ==
    ASSUME TypeOK, PlaceInv, WorkInv, NEW h \in Handlers, AddRepos(h)
    PROVE  WorkGoesOn(h)
<1>1. PICK S \in Admitted(h) :
        \/ Return(h) /\ UNCHANGED <<granted, projects, claimed, corrected>>
        \/ /\ granted' = granted \cup req[h].todo
           /\ InsertProjects(S \ projects)
           /\ GoTo(h, "adopt")
           /\ UNCHANGED req
  BY DEF AddRepos
<1>2. S \subseteq req[h].todo
  BY <1>1 DEF Admitted
<1>3. granted' \cup projects' \subseteq Named
  BY <1>1, <1>2 DEF InsertProjects, WorkInv, Works
<1>4. Continues(h)
  BY <1>1, ReturnContinues, StepContinues
<1> QED
  BY <1>3, <1>4 DEF WorkGoesOn

\* GitHub knows the branch.
LEMMA HeadFoundGoesOn ==
    ASSUME TypeOK, PlaceInv, WorkInv, NEW h \in Handlers, HeadFound(h)
    PROVE  WorkGoesOn(h)
<1>1. PICK p \in req[h].todo, c \in Commits :
        Set(h, [req[h] EXCEPT !.now = p, !.commit = c])
  BY Zenon DEF HeadFound
<1> DEFINE r == [req[h] EXCEPT !.now = p, !.commit = c]
<1>2. r.todo = req[h].todo /\ r.made = req[h].made
  BY InProgress DEF Requests
<1>3. Works("lookup", r)
  BY <1>2 DEF WorkInv, Works
<1>4. Set(h, r)
  BY <1>1
<1> HIDE DEF r
<1>5. GoTo(h, "lookup") /\ UNCHANGED tableVars
  BY Zenon DEF HeadFound
<1>6. Continues(h)
  BY <1>3, <1>4, <1>5 DEF Continues
<1> QED
  BY <1>5, <1>6, SameTablesGoOn DEF tableVars

\* GitHub does not, or does not answer; the branch is corrected.
LEMMA HeadGoesOn ==
    ASSUME TypeOK, PlaceInv, WorkInv, NEW h \in Handlers,
           HeadMissing(h) \/ HeadFails(h) \/ UpdateProductionBranch(h)
    PROVE  WorkGoesOn(h)
<1>1. CASE HeadMissing(h)
  <2>1. PICK p \in req[h].todo : \/ NextRepo(h, p)
                                 \/ /\ GoTo(h, "correct")
                                    /\ Set(h, [req[h] EXCEPT !.now = p])
    BY <1>1 DEF HeadMissing
  <2> DEFINE r == [req[h] EXCEPT !.now = p]
  <2>2. r.todo = req[h].todo /\ r.made = req[h].made
    BY InProgress DEF Requests
  <2>3. Works("correct", r)
    BY <2>2 DEF WorkInv, Works
  <2>4. NextRepo(h, p) \/ (GoTo(h, "correct") /\ Set(h, r))
    BY <2>1
  <2> HIDE DEF r
  <2>5. Continues(h)
    BY <2>3, <2>4, NextRepoContinues DEF Continues
  <2> QED
    BY <1>1, <2>5, SameTablesGoOn DEF HeadMissing, tableVars
<1>2. CASE HeadFails(h)
  <2>1. Continues(h)
    BY <1>2, NextRepoContinues DEF HeadFails
  <2> QED
    BY <1>2, <2>1, SameTablesGoOn DEF HeadFails, tableVars
<1>3. CASE UpdateProductionBranch(h)
  <2>1. Continues(h)
    BY <1>3, StepContinues DEF UpdateProductionBranch
  <2> QED
    BY <1>3, <2>1, SameTablesGoOn DEF UpdateProductionBranch
<1> QED
  BY <1>1, <1>2, <1>3

\* An orphan is a repository that was granted.
LEMMA OrphanDoneContinues ==
    ASSUME TypeOK, PlaceInv, WorkInv, NEW h \in Handlers, at[h] = "orphan",
           NEW p, NEW created \in SUBSET req[h].todo, OrphanDone(h, p, created)
    PROVE  Continues(h)
<1> DEFINE rest == req[h].todo \ {p}
           made == req[h].made \cup created
<1>1. CASE rest # {}
  <2> DEFINE r == [req[h] EXCEPT !.todo = rest, !.made = made]
  <2>1. Set(h, r) /\ UNCHANGED at
    BY <1>1 DEF OrphanDone
  <2>2. GoTo(h, at[h])
    BY <2>1 DEF TypeOK, GoTo
  <2>3. r.todo = rest /\ r.made = made
    BY InProgress DEF Requests
  <2>4. Works(at[h], r)
    BY <2>3 DEF WorkInv, Works
  <2> HIDE DEF r
  <2> QED
    BY <2>1, <2>2, <2>4 DEF Continues
<1>2. CASE rest = {} /\ made # {}
  <2> DEFINE r == [req[h] EXCEPT !.todo = made]
  <2>1. Set(h, r) /\ GoTo(h, "head")
    BY <1>2 DEF OrphanDone
  <2>2. r.todo = made /\ r.made = req[h].made
    BY InProgress DEF Requests
  <2>3. Works("head", r)
    BY <2>2 DEF WorkInv, Works
  <2> HIDE DEF r
  <2> QED
    BY <2>1, <2>3 DEF Continues
<1>3. CASE rest = {} /\ made = {}
  BY <1>3, ReturnContinues DEF OrphanDone
<1> QED
  BY <1>1, <1>2, <1>3

\* ReconcileOrphanRepos.
LEMMA OrphansGoOn ==
    ASSUME TypeOK, PlaceInv, WorkInv, NEW h \in Handlers,
           ListOrphans(h) \/ ReconcileOrphan(h)
    PROVE  WorkGoesOn(h)
<1>1. CASE ListOrphans(h)
  <2> DEFINE r == [req[h] EXCEPT !.todo = granted \ projects]
  <2>1. Return(h) \/ (GoTo(h, "orphan") /\ Set(h, r))
    BY <1>1 DEF ListOrphans
  <2>2. r.todo = granted \ projects /\ r.made = req[h].made
    BY InProgress DEF Requests
  <2>3. Works("orphan", r)
    BY <2>2 DEF WorkInv, Works
  <2> HIDE DEF r
  <2>4. Continues(h)
    BY <2>1, <2>3, ReturnContinues DEF Continues
  <2> QED
    BY <1>1, <2>4, SameTablesGoOn DEF ListOrphans, tableVars
<1>2. CASE ReconcileOrphan(h)
  <2>1. PICK p \in req[h].todo :
          \/ OrphanDone(h, p, {}) /\ UNCHANGED <<projects, claimed, corrected>>
          \/ Return(h) /\ UNCHANGED <<projects, claimed, corrected>>
          \/ InsertProjects({p} \ projects) /\ OrphanDone(h, p, {p} \ projects)
    BY <1>2 DEF ReconcileOrphan
  <2>2. at[h] = "orphan" /\ granted' = granted
    BY <1>2 DEF ReconcileOrphan
  <2>3. Continues(h)
    BY <2>1, <2>2, OrphanDoneContinues, ReturnContinues
  <2>4. granted' \cup projects' \subseteq Named
    BY <2>1, <2>2 DEF InsertProjects, WorkInv, Works
  <2> QED
    BY <2>3, <2>4 DEF WorkGoesOn
<1> QED
  BY <1>1, <1>2

\* A failing statement ends a request, or is passed over.
LEMMA DbFailsGoesOn ==
    ASSUME TypeOK, PlaceInv, WorkInv, NEW h \in Handlers, DbFails(h)
    PROVE  WorkGoesOn(h)
<1>1. Continues(h)
  <2>1. CASE at[h] \in {"lookup", "insert"}
    BY <2>1, NextRepoContinues DEF DbFails
  <2>2. CASE at[h] \in {"link", "owner", "adopt", "correct"}
    <3>1. \/ Return(h)
          \/ \E step \in {"owner", "batch", "head", "retry"} : GoTo(h, step) /\ UNCHANGED req
      BY <2>2 DEF DbFails, AfterLink
    <3> QED
      BY <3>1, ReturnContinues, StepContinues
  <2>3. CASE at[h] \notin {"lookup", "insert", "link", "owner", "adopt", "correct"}
    BY <2>3, ReturnContinues DEF DbFails
  <2> QED
    BY <2>1, <2>2, <2>3
<1>2. granted' = granted /\ projects' = projects
  BY DEF DbFails, tableVars
<1> QED
  BY <1>1, <1>2, SameTablesGoOn

\* Whatever a request does.
LEMMA RequestGoesOn ==
    ASSUME TypeOK, PlaceInv, WorkInv, NEW h \in Handlers,
           \/ \E d \in Deliveries : Receive(h, d)
           \/ RequestStep(h)
           \/ Boot(h) \/ DeployNow(h) \/ HeadFails(h) \/ DbFails(h)
    PROVE  WorkGoesOn(h)
  BY BeginGoesOn, DeployNowGoesOn, EnqueueGoesOn, InstallGoesOn, AddReposGoesOn,
     HeadFoundGoesOn, HeadGoesOn, OrphansGoOn, DbFailsGoesOn
  DEF RequestStep

\* Repositories at work stay among those that deliveries name.
LEMMA WorkNext ==
    ASSUME TypeOK, PlaceInv, WorkInv, [Next]_vars
    PROVE  WorkInv'
<1>1. ASSUME NEW h \in Handlers, WorkGoesOn(h) PROVE WorkInv'
  BY <1>1, WorkContinues DEF WorkGoesOn
<1>2. CASE Redeploy \/ LogIn \/ LoginStep \/ ClaimFails \/ UNCHANGED vars
  <2>1. granted' = granted /\ projects' = projects /\ at' = at /\ req' = req
    BY <1>2 DEF Redeploy, LogIn, LoginStep, ClaimInstallations, AdoptProjects,
       CommitClaim, ClaimFails, vars, tableVars
  <2> QED
    BY <2>1 DEF WorkInv
<1>3. CASE Crash
  <2>1. granted' = granted /\ projects' = projects
    BY <1>3 DEF Crash, tableVars
  <2>2. \A h \in Handlers : at'[h] = "idle" /\ req'[h] = NoRequest
    BY <1>3 DEF Crash
  <2> QED
    BY <2>1, <2>2, NoWork DEF WorkInv
<1> QED
  BY <1>1, <1>2, <1>3, RequestGoesOn DEF Next

-----------------------------------------------------------------------------
WithinBudget == \A kind \in FaultKinds : faults[kind] <= MaxFaults[kind]

Faultless == faults = MaxFaults

\* A fault that strikes is never forgotten.
LEMMA StrikeShows ==
    ASSUME TypeOK, WithinBudget, NEW kind \in FaultKinds, Strike(kind)
    PROVE  WithinBudget' /\ ~Faultless'
<1>1. /\ faults' = [faults EXCEPT ![kind] = @ - 1]
      /\ \A k \in FaultKinds : faults[k] \in Nat /\ MaxFaults[k] \in Nat
  BY ConstantsAssumption DEF Strike, TypeOK
<1>2. \A k \in FaultKinds : faults'[k] = IF k = kind THEN faults[k] - 1 ELSE faults[k]
  BY <1>1 DEF TypeOK
<1>3. \A k \in FaultKinds : faults'[k] <= MaxFaults[k]
  BY <1>1, <1>2 DEF WithinBudget
<1>4. faults'[kind] < MaxFaults[kind]
  BY <1>1, <1>2 DEF WithinBudget
<1>5. ~Faultless'
  <2>1. faults'[kind] # MaxFaults[kind]
    BY <1>1, <1>2, <1>4
  <2> QED
    BY <2>1 DEF Faultless
<1> QED
  BY <1>3, <1>5 DEF WithinBudget

\* The steps that fail.
Failing == ClaimFails \/ Crash \/ \E h \in Handlers : HeadFails(h) \/ DbFails(h)

\* Only failures are counted.
LEMMA FaultsNext ==
    ASSUME TypeOK, WithinBudget, [Next]_vars
    PROVE  /\ WithinBudget'
           /\ Faultless' => Faultless /\ ~Failing
<1>1. ASSUME Failing PROVE \E kind \in FaultKinds : Strike(kind)
  BY <1>1 DEF Failing, ClaimFails, Crash, HeadFails, DbFails, FaultKinds
<1>2. ASSUME ~Failing PROVE faults' = faults
  <2>1. CASE \E h \in Handlers, d \in Deliveries : Receive(h, d)
    BY <2>1 DEF Receive
  <2>2. CASE \E h \in Handlers : Boot(h) \/ DeployNow(h)
    BY <2>2, Zenon DEF Boot, DeployNow
  <2>3. CASE \E h \in Handlers : RequestStep(h)
    <3>1. PICK h \in Handlers : RequestStep(h)
      BY <2>3
    <3>2. CASE \/ Record(h) \/ Lookup(h) \/ Dedupe(h) \/ Insert(h)
              \/ UpsertInstallation(h) \/ LinkInstallation(h) \/ ReadOwner(h)
              \/ CountProjects(h) \/ AddRepos(h) \/ SetProjectOwner(h)
              \/ RemoveRepos(h) \/ DeleteInstallation(h)
      BY <3>2 DEF Record, Lookup, Dedupe, Insert, UpsertInstallation,
         LinkInstallation, ReadOwner, CountProjects, AddRepos, SetProjectOwner,
         RemoveRepos, DeleteInstallation
    <3>3. CASE \/ HeadFound(h) \/ HeadMissing(h) \/ UpdateProductionBranch(h)
              \/ ListOrphans(h) \/ ReconcileOrphan(h)
      BY <3>3, Zenon DEF HeadFound, HeadMissing, UpdateProductionBranch, ListOrphans,
         ReconcileOrphan
    <3> QED
      BY <3>1, <3>2, <3>3 DEF RequestStep
  <2>4. CASE Redeploy \/ LogIn \/ LoginStep \/ UNCHANGED vars
    BY <2>4 DEF Redeploy, LogIn, LoginStep, ClaimInstallations, AdoptProjects,
       CommitClaim, vars
  <2> QED
    BY <1>2, <2>1, <2>2, <2>3, <2>4 DEF Next, Failing
<1>3. CASE Failing
  BY <1>1, <1>3, StrikeShows
<1>4. CASE ~Failing
  BY <1>2, <1>4 DEF WithinBudget, Faultless
<1> QED
  BY <1>3, <1>4

-----------------------------------------------------------------------------
\* The projects of an owned installation have its owner, or will.
AllHanded == \A p \in projects : p[1] \in owned => Handed(p)

\* Nobody but h moves.
Alone(h) == \A g \in Handlers : g # h => at'[g] = at[g] /\ req'[g] = req[g]

\* A step that gives no installation an owner, inserts what is owned with its
\* owner, and gives up what it was about to hand on only when it has.
LEMMA HandedOn ==
    ASSUME AllHanded, NEW h \in Handlers, Alone(h),
           owned' \subseteq owned, claimed \subseteq claimed',
           \A p \in projects' : p \in projects \/ p[1] \notin owned \/ p \in claimed',
           \A p \in projects : Adopts(h, p[1]) /\ p[1] \in owned'
                                => Adopts(h, p[1])' \/ p \in claimed'
    PROVE  AllHanded'
<1> SUFFICES ASSUME NEW p \in projects', p[1] \in owned'
             PROVE  p \in claimed' \/ \E g \in Handlers : Adopts(g, p[1])'
  BY DEF AllHanded, Handed
<1>1. CASE p \in claimed'
  BY <1>1
<1>2. CASE p \notin claimed'
  <2>1. p \in projects /\ p[1] \in owned /\ p \notin claimed
    BY <1>2
  <2>2. PICK g \in Handlers : Adopts(g, p[1])
    BY <2>1 DEF AllHanded, Handed
  <2>3. g # h => Adopts(g, p[1])'
    BY <2>2 DEF Alone, Adopts, Inst, Ev
  <2> QED
    BY <2>2, <2>3
<1> QED
  BY <1>1, <1>2

\* A request that goes anywhere moves alone.
LEMMA MovesAlone ==
    ASSUME TypeOK, NEW h \in Handlers, Proceeds(h)
    PROVE  Alone(h)
  BY DEF TypeOK, Proceeds, Moves, GoTo, Set, Alone

\* Requests that have not read the owner yet, or are past the back-fill.
LEMMA AsideHandedOn ==
    ASSUME AllHanded, NEW h \in Handlers, Alone(h),
           at[h] \notin {"owner", "count", "batch", "adopt"},
           owned' \subseteq owned, projects' = projects, claimed' = claimed
    PROVE  AllHanded'
  BY HandedOn DEF Adopts

\* AddRepos: what it admits is inserted with the owner, and a slug in use
\* does not break it; without the installation there is no owner.
LEMMA AddReposHandedOn ==
    ASSUME TypeOK, WorkInv, SlugsApart, AllHanded, NEW h \in Handlers, Alone(h),
           AddRepos(h)
    PROVE  AllHanded'
<1>1. PICK S \in Admitted(h) :
        IF Inst(h) \notin installed \/ SlugTaken(S \ projects)
        THEN Return(h) /\ UNCHANGED <<granted, projects, claimed, corrected>>
        ELSE /\ InsertProjects(S \ projects)
             /\ GoTo(h, "adopt")
             /\ UNCHANGED req
  BY DEF AddRepos
<1>2. owned' = owned /\ installed' = installed
  BY DEF AddRepos
<1>3. S \subseteq req[h].todo
  BY <1>1 DEF Admitted
<1>4. ~SlugTaken(S \ projects)
  BY <1>3 DEF SlugTaken, SlugsApart, WorkInv, Works
<1>5. CASE Inst(h) \notin installed
  <2>1. \A p \in projects : Adopts(h, p[1]) => p[1] \notin owned'
    BY <1>2, <1>5 DEF Adopts, TypeOK
  <2> QED
    BY <1>1, <1>2, <1>5, <2>1, HandedOn
<1>6. CASE Inst(h) \in installed
  <2>1. InsertProjects(S \ projects) /\ GoTo(h, "adopt") /\ UNCHANGED req
    BY <1>1, <1>4, <1>6
  <2>2. \A i : Adopts(h, i) => Adopts(h, i)'
    BY <2>1 DEF GoTo, TypeOK, Adopts, Inst, Ev
  <2>3. /\ claimed \subseteq claimed'
        /\ \A p \in projects' : p \in projects \/ p[1] \notin owned \/ p \in claimed'
    BY <2>1 DEF InsertProjects
  <2> QED
    BY <1>2, <2>2, <2>3, HandedOn
<1> QED
  BY <1>5, <1>6

\* The installation's owner is read, and its projects are counted.
LEMMA ReadHandedOn ==
    ASSUME TypeOK, PlaceInv, AllHanded, NEW h \in Handlers, Alone(h),
           ReadOwner(h) \/ CountProjects(h)
    PROVE  AllHanded'
<1>1. owned' = owned /\ projects' = projects /\ claimed' = claimed
  BY DEF ReadOwner, CountProjects, tableVars
<1>2. at'[h] \in {"count", "batch"}
  BY DEF ReadOwner, CountProjects, GoTo, TypeOK
<1>3. req'[h].delivery = req[h].delivery
  <2>1. CASE ReadOwner(h)
    BY <2>1 DEF ReadOwner
  <2>2. CASE CountProjects(h)
    <3>1. PICK n : Set(h, [req[h] EXCEPT !.room = n])
      BY <2>2 DEF CountProjects
    <3>2. req'[h] = [req[h] EXCEPT !.room = n]
      BY <3>1 DEF Set, TypeOK
    <3> QED
      BY <3>2, InProgress DEF Requests
  <2> QED
    BY <2>1, <2>2
<1>4. \A i : Adopts(h, i) => Adopts(h, i)'
  BY <1>2, <1>3 DEF Adopts, Inst, Ev
<1> QED
  BY <1>1, <1>4, HandedOn

\* SetProjectOwner claims what the request was to hand on.
LEMMA SetOwnerHandedOn ==
    ASSUME AllHanded, NEW h \in Handlers, Alone(h), SetProjectOwner(h)
    PROVE  AllHanded'
<1>1. /\ owned' = owned /\ projects' = projects
      /\ claimed' = claimed \cup {p \in OwnProjects(Inst(h)) : p[1] \in owned}
  BY DEF SetProjectOwner
<1>2. \A p \in projects : Adopts(h, p[1]) /\ p[1] \in owned => p \in claimed'
  BY <1>1 DEF Adopts, OwnProjects
<1> QED
  BY <1>1, <1>2, HandedOn

\* The link gives its installation an owner, and the request goes on to its
\* projects.
LEMMA LinkHandedOn ==
    ASSUME TypeOK, WorkInv, InstallsListRepos, AllHanded, NEW h \in Handlers,
           Alone(h), LinkInstallation(h)
    PROVE  AllHanded'
<1>1. /\ owned' \subseteq owned \cup {Inst(h)}
      /\ projects' = projects /\ claimed' = claimed
  BY DEF LinkInstallation, Link
<1>2. at[h] = "link" /\ req[h].todo # {}
  BY DEF LinkInstallation, WorkInv, Works
<1>3. at'[h] = "owner" /\ req' = req
  BY <1>2 DEF LinkInstallation, AfterLink, GoTo, TypeOK
<1>4. Adopts(h, Inst(h))'
  BY <1>3 DEF Adopts, Inst, Ev
<1> SUFFICES ASSUME NEW p \in projects', p[1] \in owned', p \notin claimed'
             PROVE  \E g \in Handlers : Adopts(g, p[1])'
  BY DEF AllHanded, Handed
<1>5. CASE p[1] = Inst(h)
  <2>1. Adopts(h, p[1])'
    BY <1>3, <1>5 DEF Adopts, Inst, Ev
  <2> QED
    BY <2>1
<1>6. CASE p[1] # Inst(h)
  <2>1. PICK g \in Handlers : Adopts(g, p[1])
    BY <1>1, <1>6 DEF AllHanded, Handed
  <2>2. Adopts(g, p[1])'
    BY <1>2, <2>1 DEF Alone, Adopts, Inst, Ev
  <2> QED
    BY <2>2
<1> QED
  BY <1>5, <1>6

\* Orphans are inserted with the owner, too.
LEMMA OrphanHandedOn ==
    ASSUME AllHanded, NEW h \in Handlers, Alone(h), ReconcileOrphan(h)
    PROVE  AllHanded'
<1>1. at[h] = "orphan" /\ owned' = owned
  BY DEF ReconcileOrphan
<1>2. PICK p \in req[h].todo :
        UNCHANGED <<projects, claimed, corrected>> \/ InsertProjects({p} \ projects)
  BY DEF ReconcileOrphan
<1>3. /\ claimed \subseteq claimed'
      /\ \A q \in projects' : q \in projects \/ q[1] \notin owned \/ q \in claimed'
  BY <1>2 DEF InsertProjects
<1> QED
  BY <1>1, <1>3, HandedOn DEF Adopts

\* What a request does leaves the owners handed on, unless it fails.
LEMMA RequestHandsOn ==
    ASSUME TypeOK, PlaceInv, WorkInv, InstallsListRepos, SlugsApart, AllHanded,
           NEW h \in Handlers,
           \/ \E d \in Deliveries : Receive(h, d)
           \/ RequestStep(h)
           \/ Boot(h) \/ DeployNow(h)
    PROVE  AllHanded'
<1>1. Alone(h)
  BY RequestProceeds, MovesAlone
<1>2. CASE (\E d \in Deliveries : Receive(h, d)) \/ Boot(h) \/ DeployNow(h)
  <2>1. at[h] = "idle" /\ UNCHANGED tableVars
    BY <1>2, Zenon DEF Receive, Boot, DeployNow, Begin
  <2>2. owned' = owned /\ projects' = projects /\ claimed' = claimed
    BY <2>1 DEF tableVars
  <2> QED
    BY <1>1, <2>1, <2>2, AsideHandedOn
<1>3. CASE \/ Record(h) \/ Lookup(h) \/ Dedupe(h) \/ Insert(h)
           \/ UpsertInstallation(h) \/ RemoveRepos(h) \/ DeleteInstallation(h)
  <2>1. at[h] \notin {"owner", "count", "batch", "adopt"}
    BY <1>3 DEF Record, Lookup, Dedupe, Insert, UpsertInstallation, RemoveRepos,
       DeleteInstallation
  <2>2. owned' \subseteq owned /\ projects' = projects /\ claimed' = claimed
    BY <1>3 DEF Record, Lookup, Dedupe, Insert, UpsertInstallation, RemoveRepos,
       DeleteInstallation, tableVars
  <2> QED
    BY <1>1, <2>1, <2>2, AsideHandedOn
<1>4. CASE HeadFound(h) \/ HeadMissing(h) \/ UpdateProductionBranch(h) \/ ListOrphans(h)
  <2>1. at[h] \in {"head", "retry", "correct", "orphans"}
    <3>1. at[h] \in {"head", "retry"} \/ at[h] \in {"head"} \/ at[h] = "correct" \/ at[h] = "orphans"
      BY <1>4, Zenon DEF HeadFound, HeadMissing, UpdateProductionBranch, ListOrphans
    <3> QED
      BY <3>1
  <2>2. owned' = owned /\ projects' = projects /\ claimed' = claimed
    <3>1. UNCHANGED tableVars \/ UNCHANGED <<owned, projects, claimed>>
      BY <1>4, Zenon DEF HeadFound, HeadMissing, UpdateProductionBranch, ListOrphans
    <3> QED
      BY <3>1 DEF tableVars
  <2> QED
    BY <1>1, <2>1, <2>2, AsideHandedOn
<1> QED
  BY <1>1, <1>2, <1>3, <1>4, AddReposHandedOn, ReadHandedOn, SetOwnerHandedOn,
     LinkHandedOn, OrphanHandedOn
  DEF RequestStep

\* Every step but a failure leaves them handed on: a login claims, at its
\* commit, whatever its installations have.
LEMMA HandedNext ==
    ASSUME TypeOK, PlaceInv, WorkInv, LoginInv, InstallsListRepos, SlugsApart,
           AllHanded, [Next]_vars, ~Failing
    PROVE  AllHanded'
<1>1. CASE CommitClaim
  <2>1. \A p \in projects' : p[1] \in owned' => p \in claimed'
    BY <1>1 DEF CommitClaim, LoginInv
  <2> QED
    BY <2>1 DEF AllHanded, Handed
<1>2. CASE Redeploy \/ LogIn \/ ClaimInstallations \/ AdoptProjects \/ UNCHANGED vars
  <2>1. UNCHANGED <<projects, owned, claimed, at, req>>
    BY <1>2 DEF Redeploy, LogIn, ClaimInstallations, AdoptProjects, vars, tableVars
  <2> QED
    BY <2>1 DEF AllHanded, Handed, Adopts, Inst, Ev
<1> QED
  BY <1>1, <1>2, RequestHandsOn DEF Next, LoginStep, Failing

\* Whatever the order of installing, granting repositories and logging in,
\* an installation's owner reaches its projects: as long as no request works
\* beside a login's transaction, an installation event lists a repository,
\* and no two of the repositories named have the same slug.
THEOREM OwnerFollows ==
    ASSUME ~Overlap, InstallsListRepos, SlugsApart
    PROVE  Spec => []OwnerFollowsInstallation
<1> DEFINE Inv == /\ TypeOK /\ PlaceInv /\ LoginInv /\ WorkInv
                  /\ WithinBudget /\ (Faultless => AllHanded)
<1>1. Init => Inv
  <2> SUFFICES ASSUME Init PROVE Inv
    OBVIOUS
  <2>1. TypeOK /\ PlaceInv
    BY TypeInit
  <2>2. LoginInv /\ AllHanded
    BY DEF Init, LoginInv, AllHanded
  <2>3. WorkInv
    BY NoWork DEF Init, WorkInv
  <2>4. WithinBudget
    BY <2>1 DEF Init, WithinBudget, TypeOK
  <2> QED
    BY <2>1, <2>2, <2>3, <2>4
<1>2. Inv /\ [Next]_vars => Inv'
  <2> SUFFICES ASSUME Inv, [Next]_vars PROVE Inv'
    OBVIOUS
  <2>1. TypeOK' /\ PlaceInv'
    BY TypeNext
  <2>2. LoginInv' /\ WorkInv'
    BY LoginNext, WorkNext
  <2>3. WithinBudget' /\ (Faultless' => Faultless /\ ~Failing)
    BY FaultsNext
  <2>4. Faultless' => AllHanded'
    BY <2>3, HandedNext
  <2> QED
    BY <2>1, <2>2, <2>3, <2>4
<1>3. Inv => OwnerFollowsInstallation
  BY DEF OwnerFollowsInstallation, Quiet, Faultless, AllHanded, Handed, Adopts
<1> QED
  BY <1>1, <1>2, <1>3, PTL DEF Spec

-----------------------------------------------------------------------------
\* A push, or a pull request, is of one repository.
PushesOfOneRepo == \A d \in Pushes : \E r \in Repos : Event[d].repos = {r}

\* The request that has taken a push up is about its project and its commit.
PushAt(step, r, d) ==
    /\ step \in {"lookup", "dedupe", "insert"}
    /\ r.via \in {"webhook", "preview"}
    /\ r.now = PushOf(d)
    /\ r.commit = Event[d].commit

PushInv == \A h \in Handlers, d \in Pushes : Serving(h, d) => PushAt(at[h], req[h], d)

\* What a step does for the pushes: none that is under way is dropped.
Carries(d) ==
    Underway(d) \/ TakenUp(d)
        => Underway(d)' \/ Built(PushOf(d), Event[d].commit)'

CarriesPushes == PushInv' /\ \A d \in Pushes : Carries(d)

\* The one repository of a push is the one the receiver takes from it.
LEMMA PushedRepo ==
    ASSUME PushesOfOneRepo, NEW d \in Pushes
    PROVE  /\ Event[d].repos # {}
           /\ PushOf(d) \in Projects
           /\ (CHOOSE p \in Of(Event[d].inst, Event[d].repos) : TRUE) = PushOf(d)
<1>1. PICK r \in Repos : Event[d].repos = {r}
  BY DEF PushesOfOneRepo
<1>2. (CHOOSE x \in Event[d].repos : TRUE) = r
  BY <1>1
<1>3. Of(Event[d].inst, Event[d].repos) = {<<Event[d].inst, r>>}
  BY <1>1 DEF Of
<1>4. (CHOOSE p \in Of(Event[d].inst, Event[d].repos) : TRUE) = <<Event[d].inst, r>>
  BY <1>3
<1>5. Event[d].inst \in Installations
  BY EventTypes DEF Pushes
<1> QED
  BY <1>1, <1>2, <1>4, <1>5 DEF PushOf, Projects

\* A request that is at none of a push's places leaves the pushes where they are.
LEMMA OthersCarry ==
    ASSUME TypeOK, PlaceInv, PushInv, NEW h \in Handlers, Proceeds(h),
           at[h] \notin {"record", "lookup", "dedupe", "insert"},
           UNCHANGED recorded
    PROVE  CarriesPushes
<1>1. Alone(h) /\ projects \subseteq projects'
  BY MovesAlone DEF Proceeds
<1>2. \A d \in Pushes : ~Serving(h, d) /\ ~Serving(h, d)'
  <2>1. \A d \in Pushes : at[h] = "idle" \/ req[h].delivery # d
    BY DEF PushInv, PushAt, Serving
  <2>2. \A d \in Pushes : Serving(h, d)' => at[h] # "idle" /\ req[h].delivery = d
    BY MovesServes DEF Proceeds, Pushes
  <2> QED
    BY <2>1, <2>2 DEF Serving
<1>3. PushInv'
  BY <1>1, <1>2 DEF PushInv, Alone, Serving
<1>4. \A d \in Pushes : Underway(d) => Underway(d)'
  <2> SUFFICES ASSUME NEW d \in Pushes, Underway(d) PROVE Underway(d)'
    OBVIOUS
  <2>1. PICK g \in Handlers : /\ at[g] \in {"lookup", "dedupe", "insert"}
                              /\ req[g].delivery = d /\ req[g].now \in projects
    BY DEF Underway
  <2>2. g # h
    BY <2>1
  <2>3. at'[g] = at[g] /\ req'[g] = req[g]
    BY <1>1, <2>2 DEF Alone
  <2> QED
    BY <1>1, <2>1, <2>3 DEF Underway
<1> QED
  BY <1>3, <1>4 DEF CarriesPushes, Carries, TakenUp

\* A step of one of its places carries a push on if it goes on, with its
\* project, or ends with its commit built.
LEMMA StepCarries ==
    ASSUME TypeOK, PlaceInv, PushInv, NEW h \in Handlers, Proceeds(h),
           UNCHANGED recorded,
           \A d \in Pushes : Serving(h, d)' => PushAt(at'[h], req'[h], d),
           \A d \in Pushes : Serving(h, d) /\ req[h].now \in projects
               => \/ /\ at'[h] \in {"lookup", "dedupe", "insert"} /\ req' = req
                  \/ Built(PushOf(d), Event[d].commit)'
    PROVE  CarriesPushes
<1>1. Alone(h) /\ projects \subseteq projects'
  BY MovesAlone DEF Proceeds
<1>2. PushInv'
  BY <1>1 DEF PushInv, Alone, Serving
<1>3. \A d \in Pushes : Carries(d)
  <2> SUFFICES ASSUME NEW d \in Pushes, Underway(d)
               PROVE  Underway(d)' \/ Built(PushOf(d), Event[d].commit)'
    BY DEF Carries, TakenUp
  <2>1. PICK g \in Handlers : /\ at[g] \in {"lookup", "dedupe", "insert"}
                              /\ req[g].delivery = d /\ req[g].now \in projects
    BY DEF Underway
  <2>2. CASE g = h
    <3>1. Serving(h, d)
      BY <2>1, <2>2 DEF Serving
    <3> QED
      BY <1>1, <2>1, <2>2, <3>1 DEF Underway
  <2>3. CASE g # h
    <3>1. at'[g] = at[g] /\ req'[g] = req[g]
      BY <1>1, <2>3 DEF Alone
    <3> QED
      BY <1>1, <2>1, <3>1 DEF Underway
  <2> QED
    BY <2>2, <2>3
<1> QED
  BY <1>2, <1>3 DEF CarriesPushes

\* Record: a push is taken up with its project and its commit.
LEMMA RecordCarries ==
    ASSUME TypeOK, PlaceInv, PushInv, PushesOfOneRepo, NEW h \in Handlers, Record(h)
    PROVE  CarriesPushes
<1>1. Proceeds(h)
  BY RecordProceeds
<1>2. Alone(h) /\ at[h] = "record" /\ projects' = projects
  BY <1>1, MovesAlone DEF Record
<1> DEFINE d == req[h].delivery
<1>3. d \in Deliveries /\ req[h] \in Requests
  BY InProgress DEF Record, Local
<1>4. recorded' = recorded \cup {d}
  BY DEF Record, RecordDelivery
<1>5. \A g \in Handlers, e \in Pushes :
         g # h => (Serving(g, e)' <=> Serving(g, e))
  BY <1>2 DEF Alone, Serving
<1>6. ASSUME d \in Pushes, d \notin recorded
      PROVE  PushAt(at'[h], req'[h], d) /\ req'[h].delivery = d
  <2>1. Event[d].kind \in {"push", "pull_request"} /\ Ev(h) = Event[d]
    BY <1>6 DEF Pushes, Ev
  <2>2. FirstStep(Ev(h)) = "lookup"
    BY <2>1 DEF FirstStep
  <2> DEFINE via == CASE Ev(h).kind = "push" -> "webhook"
                      [] Ev(h).kind = "pull_request" -> "preview"
                      [] OTHER -> "install"
             now == IF Ev(h).repos = {} THEN req[h].now
                    ELSE CHOOSE p \in Of(Ev(h).inst, Ev(h).repos) : TRUE
             todo == Of(Ev(h).inst, Ev(h).repos)
             r == [req[h] EXCEPT !.via = via, !.todo = todo, !.now = now,
                                 !.commit = Ev(h).commit]
  <2>3. GoTo(h, "lookup") /\ Set(h, r)
    BY <1>6, <2>2 DEF Record, RecordDelivery, Dispatch
  <2>4. now = PushOf(d)
    BY <1>6, <2>1, PushedRepo
  <2>5. via \in {"webhook", "preview"}
    BY <2>1
  <2> HIDE DEF via, now, todo
  <2>6. /\ r.via = via /\ r.now = now /\ r.commit = Ev(h).commit
        /\ r.delivery = d
    BY <1>3 DEF Requests
  <2> HIDE DEF r
  <2>7. at'[h] = "lookup" /\ req'[h] = r
    BY <2>3 DEF GoTo, Set, TypeOK
  <2> QED
    BY <2>1, <2>4, <2>5, <2>6, <2>7 DEF PushAt
<1>7. \A e \in Pushes : Serving(h, e)' => e = d /\ d \notin recorded
  <2>1. \A e \in Pushes : Serving(h, e)' => e = d
    BY <1>1, MovesServes DEF Proceeds, Pushes
  <2>2. d \in recorded => at'[h] = "idle"
    BY DEF Record, RecordDelivery, Return, GoTo, TypeOK
  <2> QED
    BY <2>1, <2>2 DEF Serving
<1>8. PushInv'
  <2> SUFFICES ASSUME NEW g \in Handlers, NEW e \in Pushes, Serving(g, e)'
               PROVE  PushAt(at'[g], req'[g], e)
    BY DEF PushInv
  <2>1. CASE g = h
    BY <1>6, <1>7, <2>1
  <2>2. CASE g # h
    BY <1>2, <1>5, <2>2 DEF PushInv, Alone
  <2> QED
    BY <2>1, <2>2
<1>9. \A e \in Pushes : Underway(e) \/ TakenUp(e) => Underway(e)'
  <2> SUFFICES ASSUME NEW e \in Pushes, Underway(e) \/ TakenUp(e)
               PROVE  Underway(e)'
    OBVIOUS
  <2>1. CASE Underway(e)
    <3>1. PICK g \in Handlers : /\ at[g] \in {"lookup", "dedupe", "insert"}
                                /\ req[g].delivery = e /\ req[g].now \in projects
      BY <2>1 DEF Underway
    <3>2. g # h
      BY <1>2, <3>1
    <3>3. at'[g] = at[g] /\ req'[g] = req[g]
      BY <1>2, <3>2 DEF Alone
    <3> QED
      BY <1>2, <3>1, <3>3 DEF Underway
  <2>2. CASE TakenUp(e)
    <3>1. e = d /\ d \notin recorded /\ PushOf(d) \in projects
      BY <1>4, <2>2 DEF TakenUp
    <3>2. PushAt(at'[h], req'[h], d) /\ req'[h].delivery = d
      BY <1>6, <3>1
    <3> QED
      BY <1>2, <3>1, <3>2 DEF PushAt, Underway
  <2> QED
    BY <2>1, <2>2
<1> QED
  BY <1>8, <1>9 DEF CarriesPushes, Carries

\* EnqueueDeployment: a project that is known is not passed over, a commit is
\* left out only when it has a build, and the row is one.
LEMMA EnqueueCarries ==
    ASSUME TypeOK, PlaceInv, PushInv, NEW h \in Handlers,
           Lookup(h) \/ Dedupe(h) \/ Insert(h)
    PROVE  CarriesPushes
<1>1. Proceeds(h)
  BY RequestProceeds DEF RequestStep
<1>2. at[h] \notin {"idle", "record"} /\ UNCHANGED recorded
  BY DEF Lookup, Dedupe, Insert, tableVars
<1>3. \A d \in Pushes : Serving(h, d)' => Serving(h, d)
  BY <1>1, <1>2, MovesServes DEF Proceeds, Serving, Pushes
<1>4. \A d \in Pushes : Serving(h, d) => PushAt(at[h], req[h], d) /\ ~BestEffort(h)
  BY DEF PushInv, PushAt, BestEffort
<1>5. \A d \in Pushes : \A done :
         Serving(h, d) /\ NextRepo(h, done) => at'[h] = "idle"
  BY <1>4 DEF NextRepo, BestEffort, Return, GoTo, TypeOK
<1>6. CASE Lookup(h)
  <2>1. CASE ~Known(req[h].now)
    <3>1. NextRepo(h, req[h].now)
      BY <1>6, <2>1 DEF Lookup
    <3>2. \A d \in Pushes : ~Serving(h, d)'
      BY <1>3, <1>5, <3>1 DEF Serving
    <3> QED
      BY <1>1, <1>2, <2>1, <3>2, StepCarries DEF Known
  <2>2. CASE Known(req[h].now)
    <3>1. at'[h] \in {"dedupe", "insert"} /\ req' = req
      BY <1>6, <2>2 DEF Lookup, GoTo, TypeOK
    <3>2. \A d \in Pushes : Serving(h, d)' => PushAt(at'[h], req'[h], d)
      BY <1>3, <1>4, <3>1 DEF PushAt
    <3> QED
      BY <1>1, <1>2, <3>1, <3>2, StepCarries
  <2> QED
    BY <2>1, <2>2
<1>7. CASE Dedupe(h)
  <2>1. CASE Built(req[h].now, req[h].commit)
    <3>1. at'[h] = "idle" /\ rows' = rows
      BY <1>7, <2>1 DEF Dedupe, Return, GoTo, TypeOK, tableVars
    <3>2. \A d \in Pushes : Serving(h, d) => Built(PushOf(d), Event[d].commit)'
      BY <1>4, <2>1, <3>1 DEF PushAt, Built
    <3> QED
      BY <1>1, <1>2, <3>1, <3>2, StepCarries DEF Serving
  <2>2. CASE ~Built(req[h].now, req[h].commit)
    <3>1. at'[h] = "insert" /\ req' = req
      BY <1>7, <2>2 DEF Dedupe, GoTo, TypeOK
    <3>2. \A d \in Pushes : Serving(h, d)' => PushAt(at'[h], req'[h], d)
      BY <1>3, <1>4, <3>1 DEF PushAt
    <3> QED
      BY <1>1, <1>2, <3>1, <3>2, StepCarries
  <2> QED
    BY <2>1, <2>2
<1>8. CASE Insert(h)
  <2>1. NextRepo(h, req[h].now) /\ InsertDeployment(h)
    BY <1>8 DEF Insert
  <2>2. \A d \in Pushes : ~Serving(h, d)'
    BY <1>3, <1>5, <2>1 DEF Serving
  <2>3. rows'[<<req[h].now, req[h].commit>>] > 0
    <3> DEFINE x == <<req[h].now, req[h].commit>>
    <3>1. x \in Projects \X Commits
      BY InProgress DEF Requests
    <3>2. rows' = [rows EXCEPT ![x] = rows[x] + 1]
      BY <2>1 DEF InsertDeployment
    <3> HIDE DEF x
    <3>3. rows \in [Projects \X Commits -> Nat] /\ rows[x] \in Nat
      BY <3>1 DEF TypeOK
    <3>4. rows'[x] = rows[x] + 1
      BY <3>1, <3>2, <3>3
    <3>5. rows'[x] > 0
      BY <3>3, <3>4
    <3> QED
      BY <3>5 DEF x
  <2>4. \A d \in Pushes : Serving(h, d) => Built(PushOf(d), Event[d].commit)'
    BY <1>4, <2>3 DEF PushAt, Built
  <2> QED
    BY <1>1, <1>2, <2>2, <2>4, StepCarries
<1> QED
  BY <1>6, <1>7, <1>8

\* No step but a fault drops a push.
LEMMA PushNext ==
    ASSUME TypeOK, PlaceInv, PushInv, PushesOfOneRepo, [Next]_vars
    PROVE  PushInv' /\ (CarriesPushes \/ Failing)
<1>1. ASSUME NEW h \in Handlers, Proceeds(h),
             at[h] \notin {"record", "lookup", "dedupe", "insert"}, UNCHANGED recorded
      PROVE  CarriesPushes
  BY <1>1, OthersCarry
<1>2. CASE \E h \in Handlers :
              (\E d \in Deliveries : Receive(h, d)) \/ Boot(h) \/ DeployNow(h)
  <2>1. PICK h \in Handlers :
              (\E d \in Deliveries : Receive(h, d)) \/ Boot(h) \/ DeployNow(h)
    BY <1>2
  <2>2. at[h] = "idle" /\ UNCHANGED tableVars
    BY <2>1, Zenon DEF Receive, Boot, DeployNow, Begin
  <2>3. Proceeds(h)
    BY <2>1, RequestProceeds
  <2>4. UNCHANGED recorded
    BY <2>2 DEF tableVars
  <2> QED
    BY <1>1, <2>2, <2>3, <2>4 DEF CarriesPushes
<1>3. CASE \E h \in Handlers : RequestStep(h)
  <2>1. PICK h \in Handlers : RequestStep(h)
    BY <1>3
  <2>2. CASE Record(h) \/ Lookup(h) \/ Dedupe(h) \/ Insert(h)
    BY <2>2, RecordCarries, EnqueueCarries DEF CarriesPushes
  <2>3. CASE ~(Record(h) \/ Lookup(h) \/ Dedupe(h) \/ Insert(h))
    <3>1. at[h] \notin {"record", "lookup", "dedupe", "insert"}
      BY <2>1, <2>3 DEF RequestStep, UpsertInstallation, LinkInstallation, ReadOwner,
         CountProjects, AddRepos, SetProjectOwner, RemoveRepos, DeleteInstallation,
         HeadFound, HeadMissing, UpdateProductionBranch, ListOrphans, ReconcileOrphan
    <3>2. UNCHANGED recorded
      BY <2>1, <2>3 DEF RequestStep, UpsertInstallation, LinkInstallation, ReadOwner,
         CountProjects, AddRepos, SetProjectOwner, RemoveRepos, DeleteInstallation,
         HeadFound, HeadMissing, UpdateProductionBranch, ListOrphans, ReconcileOrphan,
         tableVars
    <3>3. Proceeds(h)
      BY <2>1, RequestProceeds
    <3> QED
      BY <1>1, <3>1, <3>2, <3>3 DEF CarriesPushes
  <2> QED
    BY <2>2, <2>3
<1>4. CASE \E h \in Handlers : HeadFails(h) \/ DbFails(h)
  <2>1. PICK h \in Handlers : HeadFails(h) \/ DbFails(h)
    BY <1>4
  <2>2. Proceeds(h)
    BY <2>1, RequestProceeds
  <2>3. Alone(h)
    BY <2>2, MovesAlone
  <2>4. \A d \in Pushes : ~Serving(h, d)'
    <3>1. CASE at[h] \in {"lookup", "dedupe", "insert", "record"}
      <4>1. DbFails(h)
        BY <2>1, <3>1 DEF HeadFails
      <4>2. CASE at[h] \in {"lookup", "insert"}
        <5>1. NextRepo(h, req[h].now)
          BY <4>1, <4>2 DEF DbFails
        <5>2. \A d \in Pushes : Serving(h, d) => ~Serving(h, d)'
          BY <5>1 DEF PushInv, PushAt, NextRepo, BestEffort, Return, GoTo, TypeOK, Serving
        <5>3. \A d \in Pushes : Serving(h, d)' => Serving(h, d)
          BY <4>2, <2>2, MovesServes DEF Proceeds, Serving, Pushes
        <5> QED
          BY <5>2, <5>3
      <4>3. CASE at[h] \in {"dedupe", "record"}
        <5>1. Return(h)
          BY <4>1, <4>3 DEF DbFails
        <5> QED
          BY <5>1, ReturnServes DEF Pushes
      <4> QED
        BY <3>1, <4>2, <4>3
    <3>2. CASE at[h] \notin {"lookup", "dedupe", "insert", "record"}
      <4>1. \A d \in Pushes : Serving(h, d)' => Serving(h, d)
        BY <3>2, <2>2, MovesServes DEF Proceeds, Serving, Pushes
      <4> QED
        BY <3>2, <4>1 DEF PushInv, PushAt
    <3> QED
      BY <3>1, <3>2
  <2>5. PushInv'
    BY <2>3, <2>4 DEF PushInv, Alone, Serving
  <2> QED
    BY <1>4, <2>5 DEF Failing
<1>5. CASE Redeploy \/ LogIn \/ LoginStep \/ ClaimFails \/ UNCHANGED vars
  <2>1. UNCHANGED <<at, req, projects, recorded>>
    BY <1>5 DEF Redeploy, LogIn, LoginStep, ClaimInstallations, AdoptProjects,
       CommitClaim, ClaimFails, vars, tableVars
  <2>2. PushInv'
    BY <2>1 DEF PushInv, Serving
  <2> QED
    BY <2>1, <2>2 DEF CarriesPushes, Carries, Underway, TakenUp
<1>6. CASE Crash
  <2>1. \A h \in Handlers : at'[h] = "idle"
    BY <1>6 DEF Crash
  <2> QED
    BY <1>6, <2>1 DEF PushInv, Serving, Failing
<1> QED
  BY <1>2, <1>3, <1>4, <1>5, <1>6 DEF Next

\* A fault is counted.
LEMMA FailingCounts ==
    ASSUME TypeOK, Failing
    PROVE  faults' # faults
<1>1. PICK kind \in FaultKinds : Strike(kind)
  BY DEF Failing, ClaimFails, Crash, HeadFails, DbFails, FaultKinds
<1>2. faults[kind] \in Nat /\ faults' = [faults EXCEPT ![kind] = @ - 1]
  BY <1>1 DEF Strike, TypeOK
<1>3. faults'[kind] = faults[kind] - 1
  BY <1>2 DEF TypeOK
<1> QED
  BY <1>2, <1>3

\* No push of a known project is dropped on its way to the queue, by any step
\* that is not a fault: for any number of concurrent requests, deliveries and
\* repetitions of them, as long as a push is of one repository.
THEOREM PushDropped ==
    ASSUME PushesOfOneRepo
    PROVE  Spec => PushDroppedOnlyByFault
<1> DEFINE Inv == TypeOK /\ PlaceInv /\ PushInv
<1>1. Init => Inv
  BY TypeInit DEF Init, PushInv, Serving
<1>2. Inv /\ [Next]_vars => Inv'
  BY TypeNext, PushNext
<1>3. Inv /\ [Next]_vars
        => [\A d \in Pushes :
              Underway(d) \/ TakenUp(d)
                  => \/ Underway(d)'
                     \/ Built(PushOf(d), Event[d].commit)'
                     \/ faults' # faults]_vars
  BY PushNext, FailingCounts DEF CarriesPushes, Carries
<1> QED
  BY <1>1, <1>2, <1>3, PTL DEF Spec, PushDroppedOnlyByFault

-----------------------------------------------------------------------------
\* Some delivery says that the installation was deleted.
Uninstalled(i) ==
    \E d \in Deliveries : Event[d].kind = "uninstalled" /\ Event[d].inst = i

Installs == {d \in Deliveries : Event[d].kind = "installed"}

\* GitHub never uses the id of a deleted installation again, nor does it
\* speak of its installation twice.
InstallsOnce ==
    \A d, e \in Installs :
        Event[d].inst = Event[e].inst /\ Uninstalled(Event[d].inst) => d = e

\* What an installation lists.
Listed(d) == Of(Event[d].inst, Event[d].repos)

\* Where projects are limited, an installation event lists one repository only:
\* of several, one that the user has already counts against the limit again.
ListsOneIfLimited ==
    MaxProjects > 0 => \A d \in Installs : \A p, q \in Event[d].repos : p = q

\* What the place of a request tells as long as the user is not at the limit.
Fits(step, r) ==
    /\ step = "count" => MaxProjects > 0
    /\ step \in {"record", "upsert", "link", "owner", "count"} => r.room = -1
    /\ step = "batch" => r.room = -1 \/ (MaxProjects > 0 /\ r.room > 0)
    /\ step = "upsert" => Event[r.delivery].kind = "installed"
    /\ step = "delete" => Event[r.delivery].kind = "uninstalled"

\* The request has still to insert what the installation lists.
InstallAt(h, d) ==
    /\ req[h].delivery = d
    /\ at[h] \in {"upsert", "link", "owner", "count", "batch"}
    /\ req[h].todo = Listed(d)
    /\ at[h] # "upsert" => Event[d].inst \in installed \/ Uninstalled(Event[d].inst)

\* The installation is gone and no request brings it back.
Gone(d) ==
    /\ Event[d].inst \notin installed
    /\ Uninstalled(Event[d].inst)
    /\ \A h \in Handlers : Serving(h, d) => at[h] # "upsert"

InService(d) ==
    \/ Listed(d) \subseteq projects
    \/ Gone(d)
    \/ \E h \in Handlers : InstallAt(h, d)

ServiceInv ==
    /\ \A h \in Handlers : Fits(at[h], req[h])
    /\ \A d \in Installs \cap recorded : InService(d)

\* A step of one request that takes no installation up or down, and lets go of
\* what it was to insert only when that is served or gone.
LEMMA StepServes ==
    ASSUME TypeOK, PlaceInv, ServiceInv, NEW h \in Handlers, Proceeds(h),
           UNCHANGED <<installed, recorded>>,
           Fits(at'[h], req'[h]), at'[h] # "upsert",
           \A d \in Installs : InstallAt(h, d) => InService(d)'
    PROVE  ServiceInv'
<1>1. Alone(h) /\ projects \subseteq projects'
  BY MovesAlone DEF Proceeds
<1>2. \A g \in Handlers : Fits(at'[g], req'[g])
  BY <1>1 DEF ServiceInv, Alone
<1>3. ASSUME NEW d \in Installs \cap recorded PROVE InService(d)'
  <2>1. CASE Listed(d) \subseteq projects
    BY <1>1, <2>1 DEF InService
  <2>2. CASE Gone(d)
    <3>1. Gone(d)'
      BY <1>1, <2>2 DEF Gone, Alone, Serving
    <3> QED
      BY <3>1 DEF InService
  <2>3. ASSUME NEW g \in Handlers, InstallAt(g, d) PROVE InService(d)'
    <3>1. CASE g = h
      BY <2>3, <3>1
    <3>2. CASE g # h
      <4>1. InstallAt(g, d)'
        BY <1>1, <2>3, <3>2 DEF Alone, InstallAt
      <4> QED
        BY <4>1 DEF InService
    <3> QED
      BY <3>1, <3>2
  <2> QED
    BY <2>1, <2>2, <2>3 DEF ServiceInv, InService
<1> QED
  BY <1>2, <1>3 DEF ServiceInv

\* A step at another place than those of an installation.
LEMMA ElsewhereServes ==
    ASSUME TypeOK, PlaceInv, ServiceInv, NEW h \in Handlers, Proceeds(h),
           UNCHANGED <<installed, recorded>>,
           at[h] \notin {"upsert", "link", "owner", "count", "batch"},
           at'[h] \notin {"record", "upsert", "link", "owner", "count", "batch", "delete"}
    PROVE  ServiceInv'
<1>1. Fits(at'[h], req'[h])
  BY DEF Fits
<1>2. \A d \in Installs : ~InstallAt(h, d)
  BY DEF InstallAt
<1> QED
  BY <1>1, <1>2, StepServes

\* A request begins.
LEMMA BeginServes ==
    ASSUME TypeOK, PlaceInv, ServiceInv, NEW h \in Handlers,
           (\E d \in Deliveries : Receive(h, d)) \/ Boot(h) \/ DeployNow(h)
    PROVE  ServiceInv'
<1>1. Proceeds(h)
  BY RequestProceeds
<1>2. at[h] = "idle" /\ UNCHANGED tableVars
  BY Zenon DEF Receive, Boot, DeployNow, Begin
<1>3. UNCHANGED <<installed, recorded>>
  BY <1>2 DEF tableVars
<1>4. CASE \E d \in Deliveries : Receive(h, d)
  <2>1. PICK d \in Deliveries : Receive(h, d)
    BY <1>4
  <2> DEFINE r == [NoRequest EXCEPT !.delivery = d]
  <2>2. GoTo(h, "record") /\ Set(h, r)
    BY <2>1 DEF Receive, Begin
  <2>3. r.room = -1
    BY DEF NoRequest
  <2> HIDE DEF r
  <2>4. at'[h] = "record" /\ req'[h] = r
    BY <2>2 DEF GoTo, Set, TypeOK
  <2>5. Fits(at'[h], req'[h])
    BY <2>3, <2>4 DEF Fits
  <2>6. \A e \in Installs : ~InstallAt(h, e)
    BY <1>2 DEF InstallAt
  <2> QED
    BY <1>1, <1>3, <2>4, <2>5, <2>6, StepServes
<1>5. CASE Boot(h) \/ DeployNow(h)
  <2>1. GoTo(h, "orphans") \/ GoTo(h, "head")
    BY <1>5, Zenon DEF Boot, DeployNow, Begin
  <2>2. at'[h] \in {"orphans", "head"}
    BY <2>1 DEF GoTo, TypeOK
  <2> QED
    BY <1>1, <1>2, <1>3, <2>2, ElsewhereServes
<1> QED
  BY <1>4, <1>5

\* NextRepo stays away from the places of an installation.
LEMMA NextRepoElsewhere ==
    ASSUME TypeOK, NEW h \in Handlers, NEW done, NextRepo(h, done)
    PROVE  at'[h] \in {"head", "remove", "idle"}
<1>1. GoTo(h, "head") \/ GoTo(h, "remove") \/ GoTo(h, "idle")
  BY DEF NextRepo, Return
<1> QED
  BY <1>1 DEF GoTo, TypeOK

\* Neither do the other requests, nor the rest of this one.
LEMMA RestServes ==
    ASSUME TypeOK, PlaceInv, ServiceInv, NEW h \in Handlers,
           \/ Lookup(h) \/ Dedupe(h) \/ Insert(h) \/ SetProjectOwner(h)
           \/ RemoveRepos(h) \/ HeadFound(h) \/ HeadMissing(h)
           \/ UpdateProductionBranch(h) \/ ListOrphans(h) \/ ReconcileOrphan(h)
    PROVE  ServiceInv'
<1> DEFINE away == {"record", "upsert", "link", "owner", "count", "batch", "delete"}
<1>1. Proceeds(h)
  BY RequestProceeds DEF RequestStep
<1>2. /\ at[h] \notin {"upsert", "link", "owner", "count", "batch"}
      /\ UNCHANGED <<installed, recorded>>
  <2>1. CASE \/ Lookup(h) \/ Dedupe(h) \/ Insert(h) \/ SetProjectOwner(h)
             \/ RemoveRepos(h)
    BY <2>1 DEF Lookup, Dedupe, Insert, SetProjectOwner, RemoveRepos, tableVars
  <2>2. CASE \/ HeadFound(h) \/ HeadMissing(h) \/ UpdateProductionBranch(h)
             \/ ListOrphans(h) \/ ReconcileOrphan(h)
    <3>1. /\ at[h] \in {"head", "retry", "correct", "orphans", "orphan"}
          /\ UNCHANGED tableVars \/ UNCHANGED <<installed, recorded>>
      BY <2>2 DEF HeadFound, HeadMissing, UpdateProductionBranch, ListOrphans,
         ReconcileOrphan
    <3> QED
      BY <3>1 DEF tableVars
  <2> QED
    BY <2>1, <2>2
<1>3. at'[h] \notin away
  <2>1. CASE Lookup(h)
    <3>1. \/ NextRepo(h, req[h].now)
          \/ \E step \in {"dedupe", "insert"} : GoTo(h, step)
      BY <2>1 DEF Lookup
    <3>2. (\E step \in {"dedupe", "insert"} : GoTo(h, step)) => at'[h] \notin away
      BY DEF GoTo, TypeOK
    <3> QED
      BY <3>1, <3>2, NextRepoElsewhere
  <2>2. CASE Dedupe(h) \/ RemoveRepos(h)
    BY <2>2 DEF Dedupe, RemoveRepos, Return, GoTo, TypeOK
  <2>3. CASE Insert(h)
    BY <2>3, NextRepoElsewhere DEF Insert
  <2>4. CASE SetProjectOwner(h) \/ UpdateProductionBranch(h)
    BY <2>4 DEF SetProjectOwner, UpdateProductionBranch, GoTo, TypeOK
  <2>5. CASE HeadFound(h)
    BY <2>5 DEF HeadFound, GoTo, TypeOK
  <2>6. CASE HeadMissing(h)
    <3>1. PICK p \in req[h].todo : NextRepo(h, p) \/ GoTo(h, "correct")
      BY <2>6 DEF HeadMissing
    <3>2. GoTo(h, "correct") => at'[h] \notin away
      BY DEF GoTo, TypeOK
    <3> QED
      BY <3>1, <3>2, NextRepoElsewhere
  <2>7. CASE ListOrphans(h)
    BY <2>7 DEF ListOrphans, Return, GoTo, TypeOK
  <2>8. CASE ReconcileOrphan(h)
    <3>1. PICK p \in req[h].todo :
            \/ Return(h) \/ \E created : OrphanDone(h, p, created)
      BY <2>8 DEF ReconcileOrphan
    <3>2. GoTo(h, "idle") \/ GoTo(h, "head") \/ at' = at
      BY <3>1 DEF OrphanDone, Return
    <3>3. at[h] = "orphan"
      BY <2>8 DEF ReconcileOrphan
    <3> QED
      BY <3>2, <3>3 DEF GoTo, TypeOK
  <2> QED
    BY <2>1, <2>2, <2>3, <2>4, <2>5, <2>6, <2>7, <2>8
<1> QED
  BY <1>1, <1>2, <1>3, ElsewhereServes

\* An installation that arrives is taken up with all it lists; one that arrives
\* again is answered.
LEMMA RecordServesInstall ==
    ASSUME TypeOK, PlaceInv, ServiceInv, NEW h \in Handlers, Record(h)
    PROVE  ServiceInv'
<1>1. Proceeds(h)
  BY RecordProceeds
<1>2. /\ Alone(h) /\ at[h] = "record"
      /\ projects' = projects /\ installed' = installed
  BY <1>1, MovesAlone DEF Record
<1>3. PICK d \in Deliveries :
         d = req[h].delivery /\ req[h] \in Requests /\ req[h].room = -1
  BY InProgress DEF Record, Local, ServiceInv, Fits
<1>4. recorded' = recorded \cup {d}
  BY <1>3 DEF Record, RecordDelivery
<1>5. CASE d \in recorded
  <2>1. at'[h] = "idle"
    BY <1>3, <1>5 DEF Record, RecordDelivery, Return, GoTo, TypeOK
  <2> QED
    BY <1>1, <1>2, <1>4, <1>5, <2>1, ElsewhereServes
<1>6. CASE d \notin recorded /\ FirstStep(Ev(h)) = "idle"
  <2>1. at'[h] = "idle"
    BY <1>3, <1>6 DEF Record, RecordDelivery, Dispatch, Return, GoTo, TypeOK
  <2>2. d \notin Installs
    BY <1>3, <1>6 DEF FirstStep, Installs, Ev
  <2>3. \A g \in Handlers : Fits(at'[g], req'[g])
    BY <1>2, <2>1 DEF ServiceInv, Alone, Fits
  <2>4. ASSUME NEW e \in Installs \cap recorded PROVE InService(e)'
    <3>1. CASE Gone(e)
      BY <1>2, <2>1, <3>1 DEF Gone, Alone, Serving, InService
    <3>2. CASE ~Gone(e)
      BY <1>2, <3>2 DEF ServiceInv, InService, InstallAt, Alone
    <3> QED
      BY <3>1, <3>2
  <2> QED
    BY <1>4, <2>2, <2>3, <2>4 DEF ServiceInv
<1>7. CASE d \notin recorded /\ FirstStep(Ev(h)) # "idle"
  <2> DEFINE e == Ev(h)
             via == CASE e.kind = "push" -> "webhook"
                      [] e.kind = "pull_request" -> "preview"
                      [] OTHER -> "install"
             now == IF e.repos = {} THEN req[h].now
                    ELSE CHOOSE p \in Of(e.inst, e.repos) : TRUE
             todo == Of(e.inst, e.repos)
             r == [req[h] EXCEPT !.via = via, !.todo = todo, !.now = now,
                                 !.commit = e.commit]
  <2>1. GoTo(h, FirstStep(e)) /\ Set(h, r)
    BY <1>3, <1>7 DEF Record, RecordDelivery, Dispatch
  <2>2. /\ FirstStep(e) \notin {"record", "count", "link", "batch"}
        /\ FirstStep(e) = "upsert" <=> e.kind = "installed"
        /\ FirstStep(e) = "delete" => e.kind = "uninstalled"
    <3>1. e.kind \in EventKinds
      BY <1>3, EventTypes DEF Ev
    <3> QED
      BY <3>1 DEF FirstStep, RepositoriesStep, EventKinds
  <2>3. todo = Listed(d) /\ e = Event[d]
    BY <1>3 DEF Listed, Ev
  <2> HIDE DEF via, now, todo, e
  <2>4. r.room = -1 /\ r.delivery = d /\ r.todo = todo
    BY <1>3 DEF Requests
  <2> HIDE DEF r
  <2>5. at'[h] = FirstStep(e) /\ req'[h] = r
    BY <2>1 DEF GoTo, Set, TypeOK
  <2>6. \A g \in Handlers : Fits(at'[g], req'[g])
    <3>1. Fits(at'[h], req'[h])
      BY <2>2, <2>3, <2>4, <2>5 DEF Fits
    <3> QED
      BY <1>2, <3>1 DEF ServiceInv, Alone
  <2>7. d \in Installs => InService(d)'
    <3> SUFFICES ASSUME d \in Installs PROVE InService(d)'
      OBVIOUS
    <3>1. at'[h] = "upsert"
      BY <2>2, <2>3, <2>5 DEF Installs
    <3>2. InstallAt(h, d)'
      BY <2>3, <2>4, <2>5, <3>1 DEF InstallAt
    <3> QED
      BY <3>2 DEF InService
  <2>8. ASSUME NEW f \in Installs \cap recorded PROVE InService(f)'
    <3>1. f # d
      BY <1>7
    <3>2. CASE Gone(f)
      <4>1. \A g \in Handlers : Serving(g, f)' => Serving(g, f) /\ at'[g] = at[g]
        BY <1>2, <2>4, <2>5, <3>1 DEF Serving, Alone
      <4>2. Gone(f)'
        BY <1>2, <3>2, <4>1 DEF Gone
      <4> QED
        BY <4>2 DEF InService
    <3>3. CASE ~Gone(f)
      BY <1>2, <3>3 DEF ServiceInv, InService, InstallAt, Alone
    <3> QED
      BY <3>2, <3>3
  <2>9. \A f \in Installs \cap recorded' : InService(f)'
    BY <1>4, <2>7, <2>8
  <2> QED
    BY <2>6, <2>9 DEF ServiceInv
<1> QED
  BY <1>5, <1>6, <1>7

\* The row of the installation is there; only its own event can bring back one
\* that was deleted.
LEMMA UpsertServes ==
    ASSUME TypeOK, PlaceInv, ServiceInv, InstallsOnce, NEW h \in Handlers,
           UpsertInstallation(h)
    PROVE  ServiceInv'
<1>1. Proceeds(h)
  BY RequestProceeds DEF RequestStep
<1>2. /\ Alone(h) /\ at[h] = "upsert" /\ req' = req
      /\ projects' = projects /\ recorded' = recorded
      /\ installed' = installed \cup {Inst(h)}
  BY <1>1, MovesAlone DEF UpsertInstallation
<1>3. at'[h] = "link"
  BY DEF UpsertInstallation, GoTo, TypeOK
<1> DEFINE e == req[h].delivery
<1>4. e \in Installs /\ Serving(h, e) /\ Inst(h) = Event[e].inst
  <2>1. e \in Deliveries
    BY <1>2, InProgress DEF Local, Installing
  <2>2. Event[e].kind = "installed"
    BY <1>2 DEF ServiceInv, Fits
  <2> QED
    BY <1>2, <2>1, <2>2 DEF Installs, Serving, Inst, Ev
<1>5. \A g \in Handlers : Fits(at'[g], req'[g])
  BY <1>2, <1>3 DEF ServiceInv, Fits, Alone
<1>6. ASSUME NEW d \in Installs \cap recorded PROVE InService(d)'
  <2>1. CASE Listed(d) \subseteq projects
    BY <1>2, <2>1 DEF InService
  <2>2. CASE Gone(d)
    <3>1. Event[d].inst # Inst(h)
      BY <1>2, <1>4, <2>2 DEF Gone, InstallsOnce
    <3>2. Gone(d)'
      BY <1>2, <1>3, <2>2, <3>1 DEF Gone, Alone, Serving
    <3> QED
      BY <3>2 DEF InService
  <2>3. ASSUME NEW g \in Handlers, InstallAt(g, d) PROVE InService(d)'
    <3>1. InstallAt(g, d)'
      <4>1. CASE g = h
        BY <1>2, <1>3, <2>3, <4>1 DEF InstallAt, Inst, Ev
      <4>2. CASE g # h
        BY <1>2, <2>3, <4>2 DEF InstallAt, Alone
      <4> QED
        BY <4>1, <4>2
    <3> QED
      BY <3>1 DEF InService
  <2> QED
    BY <2>1, <2>2, <2>3 DEF ServiceInv, InService
<1> QED
  BY <1>2, <1>5, <1>6 DEF ServiceInv

\* An installation is deleted because an event said so.
LEMMA DeleteServes ==
    ASSUME TypeOK, PlaceInv, ServiceInv, NEW h \in Handlers, DeleteInstallation(h)
    PROVE  ServiceInv'
<1>1. Proceeds(h)
  BY RequestProceeds DEF RequestStep
<1>2. /\ Alone(h) /\ at[h] = "delete"
      /\ projects' = projects /\ recorded' = recorded
      /\ installed' = installed \ {Inst(h)}
  BY <1>1, MovesAlone DEF DeleteInstallation
<1>3. at'[h] = "idle"
  BY DEF DeleteInstallation, Return, GoTo, TypeOK
<1>4. Uninstalled(Inst(h))
  BY <1>2, InProgress DEF ServiceInv, Fits, Uninstalled, Inst, Ev, Local, Installing
<1>5. \A g \in Handlers : Fits(at'[g], req'[g])
  BY <1>2, <1>3 DEF ServiceInv, Fits, Alone
<1>6. ASSUME NEW d \in Installs \cap recorded PROVE InService(d)'
  <2>1. CASE Listed(d) \subseteq projects
    BY <1>2, <2>1 DEF InService
  <2>2. CASE Gone(d)
    <3>1. Gone(d)'
      BY <1>2, <1>3, <2>2 DEF Gone, Alone, Serving
    <3> QED
      BY <3>1 DEF InService
  <2>3. ASSUME NEW g \in Handlers, InstallAt(g, d) PROVE InService(d)'
    <3>1. g # h
      BY <1>2, <2>3 DEF InstallAt
    <3>2. InstallAt(g, d)'
      BY <1>2, <1>4, <2>3, <3>1 DEF InstallAt, Alone
    <3> QED
      BY <3>2 DEF InService
  <2> QED
    BY <2>1, <2>2, <2>3 DEF ServiceInv, InService
<1> QED
  BY <1>2, <1>5, <1>6 DEF ServiceInv

\* Between the upsert and the batch: who is not at the limit has room.
LEMMA LinkServes ==
    ASSUME TypeOK, PlaceInv, ServiceInv, ~AtLimit, NEW h \in Handlers,
           LinkInstallation(h) \/ ReadOwner(h) \/ CountProjects(h)
    PROVE  ServiceInv'
<1>1. Proceeds(h)
  BY RequestProceeds DEF RequestStep
<1>2. at[h] \in {"link", "owner", "count"} /\ UNCHANGED <<installed, recorded>>
  BY DEF LinkInstallation, ReadOwner, CountProjects, tableVars
<1>3. /\ \/ at'[h] = "idle" /\ req[h].todo = {}
         \/ at'[h] \in {"owner", "count", "batch"}
      /\ at'[h] # "idle" =>
            req'[h].todo = req[h].todo /\ req'[h].delivery = req[h].delivery
      /\ Fits(at'[h], req'[h])
  <2>1. CASE LinkInstallation(h)
    <3>1. \/ at'[h] = "idle" /\ req[h].todo = {}
          \/ at'[h] \in {"owner", "batch"} /\ req' = req
      BY <2>1 DEF LinkInstallation, AfterLink, Return, GoTo, TypeOK
    <3>2. req[h].room = -1
      BY <2>1 DEF LinkInstallation, ServiceInv, Fits
    <3>3. Fits(at'[h], req'[h])
      <4>1. CASE at'[h] = "idle"
        BY <4>1 DEF Fits
      <4>2. CASE at'[h] \in {"owner", "batch"} /\ req' = req
        BY <3>2, <4>2 DEF Fits
      <4> QED
        BY <3>1, <4>1, <4>2
    <3> QED
      BY <3>1, <3>3
  <2>2. CASE ReadOwner(h)
    <3>1. PICK step \in {"count", "batch"} :
            GoTo(h, step) /\ (step = "count" => MaxProjects > 0)
      <4>1. CASE MaxProjects > 0 /\ Inst(h) \in owned
        BY <2>2, <4>1 DEF ReadOwner
      <4>2. CASE ~ (MaxProjects > 0 /\ Inst(h) \in owned)
        BY <2>2, <4>2 DEF ReadOwner
      <4> QED
        BY <4>1, <4>2
    <3>2. at'[h] = step
      BY <3>1 DEF GoTo, TypeOK
    <3>3. req' = req /\ req[h].room = -1
      BY <2>2 DEF ReadOwner, ServiceInv, Fits
    <3>4. Fits(step, req[h])
      BY <3>1, <3>3 DEF Fits
    <3> QED
      BY <3>2, <3>3, <3>4
  <2>3. CASE CountProjects(h)
    <3> DEFINE count == Cardinality(claimed)
               room  == IF count < MaxProjects THEN MaxProjects - count ELSE 0
               r     == [req[h] EXCEPT !.room = room]
    <3>1. GoTo(h, "batch") /\ Set(h, r)
      BY <2>3 DEF CountProjects
    <3>2. MaxProjects > 0 /\ room > 0
      <4>1. MaxProjects > 0
        BY <2>3 DEF CountProjects, ServiceInv, Fits
      <4>2. count \in Nat /\ ~ (count >= MaxProjects)
        BY <4>1, ProjectsFinite DEF TypeOK, AtLimit
      <4> HIDE DEF count
      <4> QED
        BY <4>1, <4>2, ConstantsAssumption
    <3> HIDE DEF room
    <3>3. r.room = room /\ r.todo = req[h].todo /\ r.delivery = req[h].delivery
      BY InProgress DEF Requests
    <3> HIDE DEF r
    <3>4. at'[h] = "batch" /\ req'[h] = r
      BY <3>1 DEF GoTo, Set, TypeOK
    <3> QED
      BY <3>2, <3>3, <3>4 DEF Fits
  <2> QED
    BY <2>1, <2>2, <2>3
<1>5. ASSUME NEW d \in Installs, InstallAt(h, d) PROVE InService(d)'
  <2>1. CASE at'[h] = "idle" /\ req[h].todo = {}
    BY <1>5, <2>1 DEF InService, InstallAt
  <2>2. CASE at'[h] \in {"owner", "count", "batch"}
    <3>1. InstallAt(h, d)'
      BY <1>2, <1>3, <1>5, <2>2 DEF InstallAt
    <3> QED
      BY <3>1 DEF InService
  <2> QED
    BY <1>3, <2>1, <2>2
<1> QED
  BY <1>1, <1>2, <1>3, <1>5, StepServes

\* Where there is room at all there is room for one repository.
LEMMA RoomForOne ==
    ASSUME TypeOK, PlaceInv, ListsOneIfLimited, NEW h \in Handlers,
           Fits("batch", req[h]), NEW d \in Installs, req[h].todo = Listed(d)
    PROVE  Admitted(h) = {req[h].todo}
<1> DEFINE todo == req[h].todo
<1>1. CASE req[h].room = -1
  BY <1>1 DEF Admitted
<1>2. CASE MaxProjects > 0 /\ req[h].room > 0
  <2>1. \A p, q \in todo : p = q
    BY <1>2 DEF ListsOneIfLimited, Listed, Of
  <2>2. req[h].room \in Int /\ req[h].room >= 1
    BY <1>2, InProgress, ConstantsAssumption DEF Requests
  <2>3. CASE todo = {}
    <3>1. SUBSET todo = {{}} /\ Cardinality(todo) = 0
      BY <2>3, FS_EmptySet
    <3> QED
      BY <1>2, <2>2, <2>3, <3>1 DEF Admitted
  <2>4. CASE todo # {}
    <3>1. PICK p : todo = {p}
      BY <2>1, <2>4
    <3>2. Cardinality(todo) = 1 /\ Cardinality({}) = 0
      BY <3>1, FS_Singleton, FS_EmptySet
    <3>3. \A S \in SUBSET todo : S = {} \/ S = todo
      BY <3>1
    <3>3a. Cardinality({}) # 1
      BY <3>2
    <3>4. Admitted(h) = {S \in SUBSET todo : Cardinality(S) = 1}
      BY <1>2, <2>2, <3>2 DEF Admitted
    <3> HIDE DEF todo
    <3>5. \A S \in SUBSET todo : Cardinality(S) = 1 <=> S = todo
      BY <3>2, <3>3, <3>3a, Zenon
    <3>6. {S \in SUBSET todo : Cardinality(S) = 1} = {todo}
      BY <3>5
    <3> QED
      BY <3>4, <3>6 DEF todo
  <2> QED
    BY <2>3, <2>4
<1> QED
  BY <1>1, <1>2 DEF Fits

\* The batch inserts all that the installation lists, unless that is gone.
LEMMA AddReposServes ==
    ASSUME TypeOK, PlaceInv, OnceInv, WorkInv, ServiceInv, SlugsApart,
           ListsOneIfLimited, NEW h \in Handlers, AddRepos(h)
    PROVE  ServiceInv'
<1>1. Proceeds(h)
  BY RequestProceeds DEF RequestStep
<1>2. at[h] = "batch" /\ UNCHANGED <<installed, recorded>>
  BY DEF AddRepos
<1> DEFINE todo == req[h].todo
<1>3. ~SlugTaken(todo \ projects)
  BY DEF SlugTaken, SlugsApart, WorkInv, Works
<1>4. ASSUME NEW d \in Installs, InstallAt(h, d)
      PROVE  \/ Inst(h) \notin installed /\ at'[h] = "idle"
             \/ at'[h] = "adopt" /\ todo \subseteq projects'
  <2>0. Admitted(h) = {todo}
    BY <1>2, <1>4, RoomForOne DEF ServiceInv, InstallAt
  <2>1. CASE Inst(h) \notin installed
    BY <2>0, <2>1 DEF AddRepos, Return, GoTo, TypeOK
  <2>2. CASE Inst(h) \in installed
    <3>1. InsertProjects(todo \ projects) /\ GoTo(h, "adopt")
      BY <1>3, <2>0, <2>2 DEF AddRepos
    <3> QED
      BY <3>1 DEF InsertProjects, GoTo, TypeOK
  <2> QED
    BY <2>1, <2>2
<1>5. at'[h] \in {"idle", "adopt"}
  BY DEF AddRepos, Return, GoTo, TypeOK
<1>6. Fits(at'[h], req'[h])
  BY <1>5 DEF Fits
<1>7. ASSUME NEW d \in Installs, InstallAt(h, d) PROVE InService(d)'
  <2>1. CASE Inst(h) \notin installed /\ at'[h] = "idle"
    <3>1. Serving(h, d) /\ d \in Deliveries
      BY <1>2, <1>7 DEF InstallAt, Serving, Installs
    <3>2. \A g \in Handlers : Serving(g, d) => g = h
      BY <3>1 DEF OnceInv
    <3>3. \A g \in Handlers : ~Serving(g, d)'
      BY <1>1, <2>1, <3>2, MovesAlone DEF Alone, Serving
    <3>4. Gone(d)'
      BY <1>2, <1>7, <2>1, <3>3 DEF Gone, InstallAt, Inst, Ev
    <3> QED
      BY <3>4 DEF InService
  <2>2. CASE at'[h] = "adopt" /\ todo \subseteq projects'
    BY <1>7, <2>2 DEF InService, InstallAt
  <2> QED
    BY <1>4, <1>7, <2>1, <2>2
<1> QED
  BY <1>1, <1>2, <1>5, <1>6, <1>7, StepServes

\* A project that has an owner keeps it.
LEMMA ClaimsKept ==
    ASSUME [Next]_vars, ~Failing
    PROVE  claimed \subseteq claimed'
<1>1. CASE Redeploy \/ LogIn \/ LoginStep \/ UNCHANGED vars
  BY <1>1 DEF Redeploy, LogIn, LoginStep, ClaimInstallations, AdoptProjects,
     CommitClaim, vars, tableVars
<1>2. ASSUME NEW h \in Handlers,
             (\E d \in Deliveries : Receive(h, d)) \/ Boot(h) \/ DeployNow(h)
      PROVE  claimed \subseteq claimed'
  <2>1. UNCHANGED tableVars
    BY <1>2, Zenon DEF Receive, Boot, DeployNow
  <2> QED
    BY <2>1 DEF tableVars
<1>3. ASSUME NEW h \in Handlers, RequestStep(h) PROVE claimed \subseteq claimed'
  <2>1. CASE \/ Lookup(h) \/ Dedupe(h) \/ Insert(h) \/ RemoveRepos(h) \/ Record(h)
             \/ UpsertInstallation(h) \/ LinkInstallation(h) \/ ReadOwner(h)
             \/ CountProjects(h) \/ DeleteInstallation(h) \/ HeadFound(h)
             \/ HeadMissing(h) \/ UpdateProductionBranch(h) \/ ListOrphans(h)
    BY <2>1 DEF Lookup, Dedupe, Insert, RemoveRepos, Record, UpsertInstallation,
       LinkInstallation, ReadOwner, CountProjects, DeleteInstallation, HeadFound,
       HeadMissing, UpdateProductionBranch, ListOrphans, tableVars
  <2>2. CASE AddRepos(h)
    BY <2>2 DEF AddRepos, InsertProjects
  <2>3. CASE SetProjectOwner(h)
    BY <2>3 DEF SetProjectOwner
  <2>4. CASE ReconcileOrphan(h)
    BY <2>4 DEF ReconcileOrphan, InsertProjects, OrphanDone
  <2> QED
    BY <1>3, <2>1, <2>2, <2>3, <2>4 DEF RequestStep
<1> QED
  BY <1>1, <1>2, <1>3 DEF Next, Failing

\* So a user who is at the limit stays there.
LEMMA LimitKept ==
    ASSUME TypeOK, TypeOK', AtLimit, claimed \subseteq claimed'
    PROVE  AtLimit'
<1>1. claimed \in SUBSET Projects /\ claimed' \in SUBSET Projects
  BY DEF TypeOK
<1>2. /\ Cardinality(claimed) <= Cardinality(claimed')
      /\ Cardinality(claimed) \in Nat /\ Cardinality(claimed') \in Nat
  BY <1>1, ProjectsFinite, FS_Subset
<1> QED
  BY <1>2, ConstantsAssumption DEF AtLimit

\* Every step but a fault leaves what is installed served, or about to be.
LEMMA ServiceNext ==
    ASSUME TypeOK, PlaceInv, OnceInv, WorkInv, ServiceInv, ~AtLimit, SlugsApart,
           InstallsOnce, ListsOneIfLimited, [Next]_vars, ~Failing
    PROVE  ServiceInv'
<1>1. CASE Redeploy \/ LogIn \/ LoginStep \/ UNCHANGED vars
  <2>1. UNCHANGED <<at, req, installed, recorded, projects>>
    BY <1>1 DEF Redeploy, LogIn, LoginStep, ClaimInstallations, AdoptProjects,
       CommitClaim, vars, tableVars
  <2> QED
    BY <2>1 DEF ServiceInv, InService, Gone, InstallAt, Serving
<1>2. ASSUME NEW h \in Handlers, RequestStep(h) PROVE ServiceInv'
  BY <1>2, RecordServesInstall, RestServes, UpsertServes, LinkServes, AddReposServes,
     DeleteServes DEF RequestStep
<1> QED
  BY <1>1, <1>2, BeginServes DEF Next, Failing

\* The App installed on some repositories serves them: as long as nothing
\* fails and the user is not at the limit, each has a project once all is
\* handled, in whatever order installations, deletions, grants, pushes, boots
\* and logins come and repeat, unless the installation was deleted; provided
\* that no two of the repositories named have the same slug, that an
\* installation that is deleted was announced once, and that an installation
\* event lists one repository if projects are limited.
THEOREM InstalledServed ==
    ASSUME SlugsApart, InstallsOnce, ListsOneIfLimited
    PROVE  Spec => []InstalledReposServed
<1> DEFINE Inv == /\ TypeOK /\ PlaceInv /\ OnceInv /\ WorkInv /\ WithinBudget
                  /\ Faultless /\ ~AtLimit => ServiceInv
<1>1. Init => Inv
  <2> SUFFICES ASSUME Init PROVE Inv
    OBVIOUS
  <2>1. TypeOK /\ PlaceInv
    BY TypeInit
  <2>2. OnceInv
    BY DEF Init, OnceInv, Serving
  <2>3. WorkInv
    BY NoWork DEF Init, WorkInv
  <2>4. WithinBudget
    BY <2>1 DEF Init, WithinBudget, TypeOK
  <2>5. ServiceInv
    BY DEF Init, ServiceInv, Fits
  <2> QED
    BY <2>1, <2>2, <2>3, <2>4, <2>5
<1>2. Inv /\ [Next]_vars => Inv'
  <2> SUFFICES ASSUME Inv, [Next]_vars PROVE Inv'
    OBVIOUS
  <2>1. TypeOK' /\ PlaceInv'
    BY TypeNext
  <2>2. OnceInv' /\ WorkInv'
    BY OnceNext, WorkNext
  <2>3. WithinBudget' /\ (Faultless' => Faultless /\ ~Failing)
    BY FaultsNext
  <2>4. Faultless' /\ ~AtLimit' => ServiceInv'
    <3> SUFFICES ASSUME Faultless', ~AtLimit' PROVE ServiceInv'
      OBVIOUS
    <3>1. Faultless /\ ~Failing /\ claimed \subseteq claimed'
      BY <2>3, ClaimsKept
    <3>2. ~AtLimit
      BY <2>1, <3>1, LimitKept
    <3> QED
      BY <3>1, <3>2, ServiceNext
  <2> QED
    BY <2>1, <2>2, <2>3, <2>4
<1>3. Inv => InstalledReposServed
  <2> SUFFICES ASSUME Inv, Quiet, faults = MaxFaults, ~AtLimit,
                      NEW d \in recorded, Event[d].kind = "installed",
                      Event[d].inst \in installed
               PROVE  Listed(d) \subseteq projects
    BY DEF InstalledReposServed, Listed
  <2>1. InService(d)
    BY DEF TypeOK, Faultless, ServiceInv, Installs
  <2> QED
    BY <2>1 DEF InService, Gone, InstallAt, Quiet
<1> QED
  BY <1>1, <1>2, <1>3, PTL DEF Spec
=============================================================================
