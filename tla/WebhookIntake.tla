---------------------------- MODULE WebhookIntake ----------------------------
(***************************************************************************)
(* How deployments get into the queue: the GitHub webhook receiver, the    *)
(* orphan reconciliation at process start, the "Deploy now" and "Redeploy" *)
(* buttons, and the login that claims what a user installed beforehand.    *)
(*                                                                         *)
(* Every request is a goroutine that talks to Postgres and to GitHub in    *)
(* separate round trips.  GitHub delivers webhooks in any order and may    *)
(* send one again at any time.  The installations modelled belong to one   *)
(* GitHub account, whose user may log in at any time.                      *)
(***************************************************************************)
EXTENDS Integers, FiniteSets

CONSTANTS
    Handlers,       \* goroutines that serve requests, and main's own at boot
    Installations,  \* ids of the App's installations on the account
    Repos,
    Commits,
    Deliveries,     \* X-GitHub-Delivery ids
    Event,          \* what each delivery says
    NoDelivery,     \* delivery_id IS NULL
    Slug,           \* slugify(full_name), by repository
    Misnamed,       \* repositories whose default branch is not "main"
    MaxProjects,    \* MAX_PROJECTS_PER_USER, 0 for no cap
    Overlap,        \* may a login and a request run side by side?
    MaxClicks,      \* how often "Deploy now" and "Redeploy" are pressed
    MaxFaults       \* how often each kind of fault may strike

Projects == Installations \X Repos

EventKinds == {"push", "pull_request", "installed", "uninstalled", "repositories",
               "other"}
FaultKinds == {"crash", "db", "github"}

\* repos: the repositories pushed to, installed or added; gone: those removed.
Events == [kind : EventKinds, inst : Installations, repos : SUBSET Repos,
           gone : SUBSET Repos, commit : Commits, onDefault : BOOLEAN]

ASSUME ConstantsAssumption ==
    /\ IsFiniteSet(Installations) /\ Installations # {}
    /\ IsFiniteSet(Repos) /\ Repos # {}
    /\ Commits # {}
    /\ Event \in [Deliveries -> Events]
    /\ NoDelivery \notin Deliveries
    /\ {MaxProjects, MaxClicks} \subseteq Nat
    /\ MaxFaults \in [FaultKinds -> Nat]

VARIABLES
    recorded,   \* webhook_deliveries
    installed,  \* installations
    owned,      \* installations with an owner_user_id
    granted,    \* installation_repos with removed_at IS NULL
    projects,   \* projects: UNIQUE (installation_id, repo_id), and by slug
    claimed,    \* projects with an owner_user_id
    corrected,  \* projects whose production_branch is the default branch
    rows,       \* how many deployments a project has of a commit
    queuedBy,   \* how many deployments carry a delivery id
    user,       \* is there a users row for the account?
    at,         \* where each request is
    req,        \* what it works on
    login,      \* where the login is
    mine,       \* installations its open transaction has updated
    adopted,    \* projects its open transaction has updated
    clicks, faults

tableVars == <<recorded, installed, owned, granted, projects, claimed, corrected,
               rows, queuedBy>>
userVars  == <<user, login, mine, adopted>>
vars == <<tableVars, userVars, at, req, clicks, faults>>

-----------------------------------------------------------------------------
Triggers == {"webhook", "preview", "install", "manual", "boot"}
Steps == {"idle", "record", "lookup", "dedupe", "insert", "upsert", "link", "owner",
          "count", "batch", "adopt", "head", "correct", "retry", "remove", "delete",
          "orphans", "orphan"}
LoginSteps == {"out", "claim", "adopt", "commit"}

\* todo: repositories still to be installed or built; now: the one in hand;
\* room: how many projects the owner may still create, -1 for any number.
Requests == [via : Triggers, delivery : Deliveries \cup {NoDelivery},
             todo : SUBSET Projects, now : Projects, commit : Commits,
             made : SUBSET Projects, room : -1..MaxProjects]

TypeOK ==
    /\ recorded \subseteq Deliveries
    /\ installed \subseteq Installations
    /\ owned \subseteq installed
    /\ granted \subseteq Projects
    /\ projects \subseteq Projects
    /\ claimed \subseteq projects
    /\ corrected \subseteq projects
    /\ rows \in [Projects \X Commits -> Nat]
    /\ queuedBy \in [Deliveries -> Nat]
    /\ user \in BOOLEAN
    /\ at \in [Handlers -> Steps]
    /\ req \in [Handlers -> Requests]
    /\ login \in LoginSteps
    /\ mine \subseteq Installations
    /\ adopted \subseteq Projects
    /\ clicks \in Nat
    /\ faults \in [FaultKinds -> Nat]

NoRequest == [via |-> "webhook", delivery |-> NoDelivery, todo |-> {},
              now |-> CHOOSE p \in Projects : TRUE,
              commit |-> CHOOSE c \in Commits : TRUE, made |-> {}, room |-> -1]

Init ==
    /\ recorded = {} /\ installed = {} /\ owned = {} /\ granted = {}
    /\ projects = {} /\ claimed = {} /\ corrected = {}
    /\ rows = [x \in Projects \X Commits |-> 0]
    /\ queuedBy = [d \in Deliveries |-> 0]
    /\ user = FALSE
    /\ at = [h \in Handlers |-> "idle"]
    /\ req = [h \in Handlers |-> NoRequest]
    /\ login = "out" /\ mine = {} /\ adopted = {}
    /\ clicks = MaxClicks
    /\ faults = MaxFaults

-----------------------------------------------------------------------------
Of(inst, repos) == {inst} \X repos
Ev(h) == Event[req[h].delivery]
Inst(h) == Ev(h).inst
Built(p, c) == rows[<<p, c>>] > 0
SlugOf(p) == Slug[p[2]]
OwnProjects_Granted(i) == {p \in granted : p[1] = i}

OwnProjects(i) == {p \in projects : p[1] = i}

\* One of the faults of this kind that the environment may still cause.
Strike(kind) ==
    /\ faults[kind] > 0
    /\ faults' = [faults EXCEPT ![kind] = @ - 1]

GoTo(h, step) == at' = [at EXCEPT ![h] = step]

\* The request is answered; what it worked on is forgotten.
Return(h) ==
    /\ GoTo(h, "idle")
    /\ req' = [req EXCEPT ![h] = NoRequest]

Set(h, r) == req' = [req EXCEPT ![h] = r]

\* An UPDATE or DELETE waits while the login's transaction has the row locked.
Unlocked(i) == i \notin mine

Begin(h, step, r) ==
    /\ at[h] = "idle"
    /\ Overlap \/ login = "out"
    /\ GoTo(h, step)
    /\ Set(h, r)

-----------------------------------------------------------------------------
(***************************************************************************)
(* handleGitHubWebhook: a verified delivery is recorded, then dispatched   *)
(* to the handler of its event.                                            *)
(***************************************************************************)
Receive(h, d) ==
    /\ Begin(h, "record", [NoRequest EXCEPT !.delivery = d])
    /\ UNCHANGED <<tableVars, userVars, clicks, faults>>

RepositoriesStep(e) ==
    IF e.repos # {} THEN "owner" ELSE IF e.gone # {} THEN "remove" ELSE "idle"

FirstStep(e) ==
    CASE e.kind \in {"push", "pull_request"} -> "lookup"
      [] e.kind = "installed"    -> "upsert"
      [] e.kind = "uninstalled"  -> "delete"
      [] e.kind = "repositories" -> RepositoriesStep(e)
      [] OTHER                   -> "idle"

Dispatch(h) ==
    LET e == Ev(h) IN
    IF FirstStep(e) = "idle"
    THEN Return(h)
    ELSE /\ GoTo(h, FirstStep(e))
         /\ Set(h, [req[h] EXCEPT
                !.via = CASE e.kind = "push" -> "webhook"
                          [] e.kind = "pull_request" -> "preview"
                          [] OTHER -> "install",
                !.todo = Of(e.inst, e.repos),
                !.now = IF e.repos = {} THEN @
                        ELSE CHOOSE p \in Of(e.inst, e.repos) : TRUE,
                !.commit = e.commit])

RecordDelivery_EveryTime(h) ==
    /\ recorded' = recorded \cup {req[h].delivery}
    /\ Dispatch(h)

\* INSERT ... ON CONFLICT (delivery_id) DO NOTHING
RecordDelivery(h) ==
    /\ recorded' = recorded \cup {req[h].delivery}
    /\ IF req[h].delivery \in recorded THEN Return(h) ELSE Dispatch(h)

Record(h) ==
    /\ at[h] = "record"
    /\ RecordDelivery(h)
    /\ UNCHANGED <<installed, owned, granted, projects, claimed, corrected, rows,
                   queuedBy, userVars, clicks, faults>>

-----------------------------------------------------------------------------
(***************************************************************************)
(* EnqueueDeployment looks the project up, looks for the commit if the     *)
(* push is not to the production branch, and inserts a row.                *)
(***************************************************************************)
BestEffort(h) == req[h].via \in {"install", "boot"}

\* An install goes on to its next repository, then to the removed ones.
NextRepo(h, done) ==
    LET rest == req[h].todo \ {done} IN
    CASE BestEffort(h) /\ rest # {} ->
            /\ GoTo(h, "head")
            /\ Set(h, [req[h] EXCEPT !.todo = rest])
      [] req[h].via = "install" /\ rest = {} /\ Ev(h).gone # {} ->
            /\ GoTo(h, "remove")
            /\ Set(h, [req[h] EXCEPT !.todo = {}])
      [] OTHER -> Return(h)

ToProduction(h) == Ev(h).onDefault /\ req[h].now \in corrected

Known_Granted(p) == p \in granted

Known(p) == p \in projects

Lookup(h) ==
    /\ at[h] = "lookup"
    /\ \/ /\ ~Known(req[h].now)
          /\ NextRepo(h, req[h].now)
       \/ /\ Known(req[h].now)
          /\ GoTo(h, IF req[h].via = "webhook" /\ ~ToProduction(h)
                     THEN "dedupe" ELSE "insert")
          /\ UNCHANGED req
    /\ UNCHANGED <<tableVars, userVars, clicks, faults>>

Dedupe(h) ==
    /\ at[h] = "dedupe"
    /\ IF Built(req[h].now, req[h].commit)
       THEN Return(h)
       ELSE GoTo(h, "insert") /\ UNCHANGED req
    /\ UNCHANGED <<tableVars, userVars, clicks, faults>>

\* Only pushes and pull requests pass their delivery id on.
InsertDeployment(h) ==
    /\ rows' = [rows EXCEPT ![<<req[h].now, req[h].commit>>] = @ + 1]
    /\ queuedBy' = IF req[h].via \in {"webhook", "preview"}
                   THEN [queuedBy EXCEPT ![req[h].delivery] = @ + 1]
                   ELSE queuedBy

Insert(h) ==
    /\ at[h] = "insert"
    /\ InsertDeployment(h)
    /\ NextRepo(h, req[h].now)
    /\ UNCHANGED <<recorded, installed, owned, granted, projects, claimed,
                   corrected, userVars, clicks, faults>>

-----------------------------------------------------------------------------
(***************************************************************************)
(* handleInstallation and handleInstallationRepos.                         *)
(***************************************************************************)
UpsertInstallation(h) ==
    /\ at[h] = "upsert"
    /\ Unlocked(Inst(h))
    /\ installed' = installed \cup {Inst(h)}
    /\ GoTo(h, "link")
    /\ UNCHANGED <<recorded, owned, granted, projects, claimed, corrected, rows,
                   queuedBy, userVars, req, clicks, faults>>

\* The failure of the link is only logged.
AfterLink(h) ==
    IF req[h].todo = {} THEN Return(h) ELSE GoTo(h, "owner") /\ UNCHANGED req

Link(h) == owned' = IF user THEN owned \cup ({Inst(h)} \cap installed) ELSE owned

LinkInstallation(h) ==
    /\ at[h] = "link"
    /\ Unlocked(Inst(h))
    /\ Link(h)
    /\ AfterLink(h)
    /\ UNCHANGED <<recorded, installed, granted, projects, claimed, corrected,
                   rows, queuedBy, userVars, clicks, faults>>

\* AddRepos: without an owner, or when reading it fails, nothing is capped.
ReadOwner(h) ==
    /\ at[h] = "owner"
    /\ GoTo(h, IF MaxProjects > 0 /\ Inst(h) \in owned THEN "count" ELSE "batch")
    /\ UNCHANGED <<tableVars, userVars, req, clicks, faults>>

CountProjects_OffByOne(h) ==
    LET count == Cardinality(claimed) IN
    /\ at[h] = "count"
    /\ Set(h, [req[h] EXCEPT
           !.room = IF count + 1 < MaxProjects THEN MaxProjects - count - 1 ELSE 0])
    /\ GoTo(h, "batch")
    /\ UNCHANGED <<tableVars, userVars, clicks, faults>>

CountProjects(h) ==
    LET count == Cardinality(claimed) IN
    /\ at[h] = "count"
    /\ Set(h, [req[h] EXCEPT
           !.room = IF count < MaxProjects THEN MaxProjects - count ELSE 0])
    /\ GoTo(h, "batch")
    /\ UNCHANGED <<tableVars, userVars, clicks, faults>>

\* The repositories, in payload order, for which a project is inserted.
Admitted(h) ==
    LET r == req[h] IN
    IF r.room = -1 THEN {r.todo}
    ELSE {S \in SUBSET r.todo :
            Cardinality(S) = IF r.room < Cardinality(r.todo) THEN r.room
                             ELSE Cardinality(r.todo)}

SlugTaken(new) == \E p \in new : \E q \in projects \cup new :
                     q # p /\ SlugOf(q) = SlugOf(p)

\* INSERT INTO projects SELECT ... i.owner_user_id FROM installations i
InsertProjects_Unowned(new) ==
    /\ projects' = projects \cup new
    /\ claimed' = claimed
    /\ corrected' = corrected \cup {p \in new : p[2] \notin Misnamed}

InsertProjects(new) ==
    /\ projects' = projects \cup new
    /\ claimed' = claimed \cup {p \in new : p[1] \in owned}
    /\ corrected' = corrected \cup {p \in new : p[2] \notin Misnamed}

\* One implicit transaction: a missing installation breaks the foreign key
\* of installation_repos, a slug in use breaks projects.
AddRepos(h) ==
    /\ at[h] = "batch"
    /\ \E S \in Admitted(h) :
          LET new == S \ projects IN
          IF Inst(h) \notin installed \/ SlugTaken(new)
          THEN Return(h) /\ UNCHANGED <<granted, projects, claimed, corrected>>
          ELSE /\ granted' = granted \cup req[h].todo
               /\ InsertProjects(new)
               /\ GoTo(h, "adopt")
               /\ UNCHANGED req
    /\ UNCHANGED <<recorded, installed, owned, rows, queuedBy, userVars, clicks,
                   faults>>

SetProjectOwner(h) ==
    /\ at[h] = "adopt"
    /\ claimed' = claimed \cup {p \in OwnProjects(Inst(h)) : p[1] \in owned}
    /\ GoTo(h, "head")
    /\ UNCHANGED <<recorded, installed, owned, granted, projects, corrected, rows,
                   queuedBy, userVars, req, clicks, faults>>

RemoveRepos(h) ==
    /\ at[h] = "remove"
    /\ granted' = granted \ Of(Inst(h), Ev(h).gone)
    /\ Return(h)
    /\ UNCHANGED <<recorded, installed, owned, projects, claimed, corrected, rows,
                   queuedBy, userVars, clicks, faults>>

\* installation_repos goes with the installation, projects stay.
DeleteInstallation(h) ==
    /\ at[h] = "delete"
    /\ Unlocked(Inst(h))
    /\ installed' = installed \ {Inst(h)}
    /\ owned' = owned \ {Inst(h)}
    /\ granted' = granted \ Of(Inst(h), Repos)
    /\ Return(h)
    /\ UNCHANGED <<recorded, projects, claimed, corrected, rows, queuedBy,
                   userVars, clicks, faults>>

-----------------------------------------------------------------------------
(***************************************************************************)
(* The HEAD of a branch is asked of GitHub: tryAutoDeployRepo and          *)
(* handleDeployNow.  The branch is "main", where an installation event     *)
(* names no other, and production_branch, which is "main" too unless       *)
(* "Deploy now" has met a 404 and asked for the real name.                 *)
(***************************************************************************)
BranchExists(h, p) == p[2] \notin Misnamed \/ (~BestEffort(h) /\ p \in corrected)

HeadFound(h) ==
    /\ at[h] \in {"head", "retry"}
    /\ \E p \in req[h].todo, c \in Commits :
          /\ at[h] = "retry" \/ BranchExists(h, p)
          /\ Set(h, [req[h] EXCEPT !.now = p, !.commit = c])
    /\ GoTo(h, "lookup")
    /\ UNCHANGED <<tableVars, userVars, clicks, faults>>

HeadMissing(h) ==
    /\ at[h] = "head"
    /\ \E p \in req[h].todo :
          /\ ~BranchExists(h, p)
          /\ IF BestEffort(h) THEN NextRepo(h, p)
             ELSE GoTo(h, "correct") /\ Set(h, [req[h] EXCEPT !.now = p])
    /\ UNCHANGED <<tableVars, userVars, clicks, faults>>

HeadFails(h) ==
    /\ at[h] \in {"head", "correct", "retry"}
    /\ Strike("github")
    /\ \E p \in req[h].todo : NextRepo(h, p)
    /\ UNCHANGED <<tableVars, userVars, clicks>>

UpdateProductionBranch(h) ==
    /\ at[h] = "correct"
    /\ corrected' = corrected \cup {req[h].now}
    /\ GoTo(h, "retry")
    /\ UNCHANGED <<recorded, installed, owned, granted, projects, claimed, rows,
                   queuedBy, userVars, req, clicks, faults>>

-----------------------------------------------------------------------------
(***************************************************************************)
(* ReconcileOrphanRepos at process start: repositories granted but without *)
(* a project get one whatever the cap, then a first build.  An error ends  *)
(* it, and the projects it had created are not built.                      *)
(***************************************************************************)
Boot(h) ==
    /\ Begin(h, "orphans", [NoRequest EXCEPT !.via = "boot"])
    /\ UNCHANGED <<tableVars, userVars, clicks, faults>>

ListOrphans(h) ==
    /\ at[h] = "orphans"
    /\ IF granted \ projects = {}
       THEN Return(h)
       ELSE GoTo(h, "orphan") /\ Set(h, [req[h] EXCEPT !.todo = granted \ projects])
    /\ UNCHANGED <<tableVars, userVars, clicks, faults>>

\* After the last orphan, the projects created are the ones left to build.
OrphanDone(h, p, created) ==
    LET rest == req[h].todo \ {p}
        made == req[h].made \cup created
    IN CASE rest # {} -> Set(h, [req[h] EXCEPT !.todo = rest, !.made = made])
                         /\ UNCHANGED at
         [] rest = {} /\ made # {} -> Set(h, [req[h] EXCEPT !.todo = made])
                                     /\ GoTo(h, "head")
         [] OTHER -> Return(h)

ReconcileOrphan(h) ==
    /\ at[h] = "orphan"
    /\ \E p \in req[h].todo :
          LET new == {p} \ projects IN
          CASE new = {} \/ p[1] \notin installed ->
                  OrphanDone(h, p, {}) /\ UNCHANGED <<projects, claimed, corrected>>
            [] new # {} /\ p[1] \in installed /\ SlugTaken(new) ->
                  Return(h) /\ UNCHANGED <<projects, claimed, corrected>>
            [] OTHER -> InsertProjects(new) /\ OrphanDone(h, p, new)
    /\ UNCHANGED <<recorded, installed, owned, granted, rows, queuedBy, userVars,
                   clicks, faults>>

-----------------------------------------------------------------------------
(***************************************************************************)
(* The dashboard: "Deploy now" of a project the user owns, and "Redeploy"  *)
(* of one of its deployments, which is a single statement.                 *)
(***************************************************************************)
Click == clicks > 0 /\ clicks' = clicks - 1

DeployNow(h) ==
    /\ Click
    /\ \E p \in claimed :
          Begin(h, "head", [NoRequest EXCEPT !.via = "manual", !.todo = {p},
                            !.now = p])
    /\ UNCHANGED <<tableVars, userVars, faults>>

Redeploy ==
    /\ Click
    /\ \E p \in claimed, c \in Commits :
          /\ Built(p, c)
          /\ rows' = [rows EXCEPT ![<<p, c>>] = @ + 1]
    /\ UNCHANGED <<recorded, installed, owned, granted, projects, claimed,
                   corrected, queuedBy, userVars, at, req, faults>>

-----------------------------------------------------------------------------
(***************************************************************************)
(* handleCallback: the users row is written, then one transaction claims   *)
(* the account's installations and the projects under them.  Its reads are *)
(* READ COMMITTED and its writes visible to others only at the commit.     *)
(***************************************************************************)
LogIn ==
    /\ login = "out"
    /\ Overlap \/ \A h \in Handlers : at[h] = "idle"
    /\ user' = TRUE
    /\ login' = "claim"
    /\ UNCHANGED <<tableVars, mine, adopted, at, req, clicks, faults>>

ClaimInstallations ==
    /\ login = "claim"
    /\ mine' = installed \ owned
    /\ login' = "adopt"
    /\ UNCHANGED <<tableVars, user, adopted, at, req, clicks, faults>>

AdoptedRows_NewOnly == {p \in projects \ claimed : p[1] \in mine}

AdoptedRows == {p \in projects \ claimed : p[1] \in mine \cup owned}

AdoptProjects ==
    /\ login = "adopt"
    /\ adopted' = AdoptedRows
    /\ login' = "commit"
    /\ UNCHANGED <<tableVars, user, mine, at, req, clicks, faults>>

CommitClaim ==
    /\ login = "commit"
    /\ owned' = owned \cup mine
    /\ claimed' = claimed \cup adopted
    /\ login' = "out" /\ mine' = {} /\ adopted' = {}
    /\ UNCHANGED <<recorded, installed, granted, projects, corrected, rows,
                   queuedBy, user, at, req, clicks, faults>>

\* A claim that fails is rolled back; the login succeeds all the same.
ClaimFails ==
    /\ login # "out"
    /\ Strike("db")
    /\ login' = "out" /\ mine' = {} /\ adopted' = {}
    /\ UNCHANGED <<tableVars, user, at, req, clicks>>

-----------------------------------------------------------------------------
(***************************************************************************)
(* Failures.  A delivery whose dispatch fails is still answered 202, so    *)
(* GitHub does not send it again.                                          *)
(***************************************************************************)
DbFails(h) ==
    /\ at[h] \notin {"idle", "head", "retry"}
    /\ Strike("db")
    /\ CASE at[h] \in {"lookup", "insert"} -> NextRepo(h, req[h].now)
         [] at[h] = "link"    -> AfterLink(h)
         [] at[h] = "owner"   -> GoTo(h, "batch") /\ UNCHANGED req
         [] at[h] = "adopt"   -> GoTo(h, "head") /\ UNCHANGED req
         [] at[h] = "correct" -> GoTo(h, "retry") /\ UNCHANGED req
         [] OTHER             -> Return(h)
    /\ UNCHANGED <<tableVars, userVars, clicks>>

\* The process ends: every request is gone, an open transaction rolled back.
Crash ==
    /\ Strike("crash")
    /\ at' = [h \in Handlers |-> "idle"]
    /\ req' = [h \in Handlers |-> NoRequest]
    /\ login' = "out" /\ mine' = {} /\ adopted' = {}
    /\ UNCHANGED <<tableVars, user, clicks>>

-----------------------------------------------------------------------------
RequestStep(h) ==
    \/ Record(h) \/ Lookup(h) \/ Dedupe(h) \/ Insert(h)
    \/ UpsertInstallation(h) \/ LinkInstallation(h) \/ ReadOwner(h)
    \/ CountProjects(h) \/ AddRepos(h) \/ SetProjectOwner(h)
    \/ RemoveRepos(h) \/ DeleteInstallation(h)
    \/ HeadFound(h) \/ HeadMissing(h) \/ UpdateProductionBranch(h)
    \/ ListOrphans(h) \/ ReconcileOrphan(h)

LoginStep == ClaimInstallations \/ AdoptProjects \/ CommitClaim

Next ==
    \/ \E h \in Handlers, d \in Deliveries : Receive(h, d)
    \/ \E h \in Handlers : RequestStep(h)
    \/ \E h \in Handlers : Boot(h) \/ DeployNow(h) \/ HeadFails(h) \/ DbFails(h)
    \/ Redeploy \/ LogIn \/ LoginStep \/ ClaimFails \/ Crash

Spec == Init /\ [][Next]_vars

\* A request that is being served, and a login, go on.  Nothing makes GitHub
\* deliver, a process start or a user click.
Fairness == WF_vars(LoginStep) /\ \A h \in Handlers : WF_vars(RequestStep(h))

FairSpec == Spec /\ Fairness

-----------------------------------------------------------------------------
(***************************************************************************)
(* Properties.                                                             *)
(***************************************************************************)

Served(d) == \E h \in Handlers : at[h] \notin {"idle", "record"} /\ req[h].delivery = d

StageOf(d) == CASE d \notin recorded -> "new"
                [] d \in recorded /\ Served(d) /\ queuedBy[d] = 0 -> "taken"
                [] OTHER -> "settled"

\* The receiver implements the promise of DeliveryOnce.
OncePerDelivery == INSTANCE DeliveryOnce WITH
    stage <- [d \in Deliveries |-> StageOf(d)], rows <- queuedBy

ImplementsDeliveryOnce == OncePerDelivery!Spec

Quiet == login = "out" /\ \A h \in Handlers : at[h] = "idle"

\* Whatever the order of installing, granting repositories and logging in,
\* once nothing is under way the projects of an installation that has an
\* owner have it too: the link, the insert, the back-fill and the claim
\* leave no gap between them, unless a statement or the process failed.
OwnerFollowsInstallation ==
    Quiet /\ faults = MaxFaults
        => \A p \in projects : p[1] \in owned => p \in claimed

\* A login repairs what failures have left unowned: after its claim every
\* project of an installation with an owner has one.
LoginRepairsOwners ==
    [][CommitClaim => \A p \in projects' : p[1] \in owned' => p \in claimed']_vars

\* The user has as many projects as a user may have.
AtLimit == MaxProjects > 0 /\ Cardinality(claimed) >= MaxProjects

\* The App installed on some repositories serves them: as long as nothing
\* fails, each has a project once the delivery is handled, whatever grants, boots
\* and logins insert, count and claim meanwhile, or the user is at the limit.
InstalledReposServed ==
    Quiet /\ faults = MaxFaults /\ ~AtLimit
        => \A d \in recorded :
              Event[d].kind = "installed" /\ Event[d].inst \in installed
                  => Of(Event[d].inst, Event[d].repos) \subseteq projects

Pushes == {d \in Deliveries : Event[d].kind \in {"push", "pull_request"}}

PushOf(d) == <<Event[d].inst, CHOOSE r \in Event[d].repos : TRUE>>

\* The push of a known project is being dispatched.
Dispatching(d) ==
    \E h \in Handlers : /\ at[h] = "lookup" /\ req[h].delivery = d
                        /\ req[h].now \in projects

\* A push of a known project that the receiver has recorded gets its commit
\* built: a build is queued for it, or there is one already.
RecordedPushIsBuilt ==
    \A d \in Pushes : Dispatching(d) ~> Built(PushOf(d), Event[d].commit)

\* The same, but for a failure of the process or of its database.
PushLostOnlyByFault ==
    \A d \in Pushes :
        Dispatching(d) ~> Built(PushOf(d), Event[d].commit) \/ faults # MaxFaults

\* The push is on its way from the receiver to the queue.
Underway(d) ==
    \E h \in Handlers : /\ at[h] \in {"lookup", "dedupe", "insert"}
                        /\ req[h].delivery = d
                        /\ req[h].now \in projects

\* The first copy of a delivery for a known project is recorded.
TakenUp(d) == d \notin recorded /\ d \in recorded' /\ PushOf(d) \in projects

\* Between the 202 and the row no step drops the push of a known project:
\* whatever other requests, a login or an uninstallation do meanwhile, it goes
\* on until there is a build of its commit, unless the step is a fault itself.
PushDroppedOnlyByFault ==
    [][\A d \in Pushes :
          Underway(d) \/ TakenUp(d)
              => \/ Underway(d)'
                 \/ Built(PushOf(d), Event[d].commit)'
                 \/ faults' # faults]_vars
=============================================================================
