-------------------------- MODULE ProductionTraffic --------------------------
(***************************************************************************)
(* Where the production hostnames of one project lead.  The build worker   *)
(* cuts them over after a production-branch build and then deletes the     *)
(* older Deployments and Services (second half of runOne, builder.go).     *)
(* Meanwhile HTTP requests promote older builds (promote_handlers.go) and  *)
(* add, verify and delete custom domains (domain_handlers.go).             *)
(*                                                                         *)
(* Each call to Postgres or to the Kubernetes API is a step of its own.    *)
(* BuildPipeline models how a deployment gets to MarkReady; here it is one *)
(* step, of one pod's worker: in the order that BuildOrder states when     *)
(* InOrder is TRUE, which BuildPipeline_proofs shows of the queue as long  *)
(* as pods do not overlap and no bookkeeping statement fails, and in any   *)
(* order otherwise.                                                        *)
(***************************************************************************)
EXTENDS Integers, FiniteSets

CONSTANTS
    NumDeployments,  \* deployments are numbered in the order they were queued
    InOrder,         \* are they built in that order?
    Production,      \* those on the project's production branch
    Domains,         \* custom hostnames
    Requests,        \* concurrent HTTP requests
    Kinds,           \* which endpoints they call
    MaxFaults        \* how often each kind of fault may strike

Deployments == 1..NumDeployments

FaultKinds == {"crash", "call"}

ASSUME ConstantsAssumption ==
    /\ NumDeployments \in Nat
    /\ InOrder \in BOOLEAN
    /\ Production \subseteq Deployments
    /\ IsFiniteSet(Domains)
    /\ Kinds \subseteq {"add", "verify", "delete", "promote"}
    /\ MaxFaults \in [FaultKinds -> Nat]

VARIABLES
    built,      \* deployments whose build has ended, well or not
    ready,      \* deployments whose row is ready
    workloads,  \* deployments whose Deployment object exists
    services,   \* deployments whose Service exists
    alias,      \* the deployment behind route prod-<slug>, 0 if no route
    pointer,    \* projects.production_deployment_id, 0 if NULL
    route,      \* the deployment behind each custom domain's route, or 0
    domain,     \* each hostname's row in project_domains
    wpc,        \* where the worker is
    wdep,       \* the deployment it is cutting over to
    wdomains,   \* the listed domains it still has to cut over
    hpc,        \* where each request's handler is
    hdep,       \* the deployment it leads traffic to
    hhost,      \* the hostname it is about
    hdomains,   \* the listed domains it still has to cut over
    faults      \* faults that may still strike

objects == <<workloads, services>>
worker  == <<wpc, wdep, wdomains>>
handler == <<hpc, hdep, hhost, hdomains>>
vars == <<built, ready, objects, alias, pointer, route, domain, worker, handler, faults>>

-----------------------------------------------------------------------------
NoHost == "none"

DomainStates == {"absent", "pending", "verified"}
WorkerSteps  == {"idle", "alias", "point", "list", "domains", "services"}
PromoteSteps == {"promote", "point", "list", "domains"}
HandlerSteps == {"idle", "mark", "publish", "apply", "row"} \cup PromoteSteps

TypeOK ==
    /\ built \subseteq Deployments
    /\ ready \subseteq Deployments
    /\ workloads \subseteq Deployments
    /\ services \subseteq Deployments
    /\ alias \in Deployments \cup {0}
    /\ pointer \in Deployments \cup {0}
    /\ route \in [Domains -> Deployments \cup {0}]
    /\ domain \in [Domains -> DomainStates]
    /\ wpc \in WorkerSteps
    /\ wdep \in Deployments \cup {0}
    /\ wdomains \subseteq Domains
    /\ hpc \in [Requests -> HandlerSteps]
    /\ hdep \in [Requests -> Deployments \cup {0}]
    /\ hhost \in [Requests -> Domains \cup {NoHost}]
    /\ hdomains \in [Requests -> SUBSET Domains]
    /\ faults \in [FaultKinds -> Nat]

Init ==
    /\ built = {}
    /\ ready = {}
    /\ workloads = {} /\ services = {}
    /\ alias = 0
    /\ pointer = 0
    /\ route = [h \in Domains |-> 0]
    /\ domain = [h \in Domains |-> "absent"]
    /\ wpc = "idle" /\ wdep = 0 /\ wdomains = {}
    /\ hpc = [r \in Requests |-> "idle"]
    /\ hdep = [r \in Requests |-> 0]
    /\ hhost = [r \in Requests |-> NoHost]
    /\ hdomains = [r \in Requests |-> {}]
    /\ faults = MaxFaults

Strike(kind) ==
    /\ faults[kind] > 0
    /\ faults' = [faults EXCEPT ![kind] = @ - 1]

\* A call that writes takes effect; its caller may see an error all the same,
\* or because it had none.
Call(effect, v) ==
    \/ effect /\ UNCHANGED faults
    \/ Strike("call") /\ (effect \/ UNCHANGED v)

\* A call that reads returns what it found, or an error.
Query(result, v) ==
    \/ result /\ UNCHANGED faults
    \/ Strike("call") /\ UNCHANGED v

VerifiedDomains_Unfiltered == {h \in Domains : domain[h] # "absent"}

\* The WHERE clause of ListVerifiedDomainsForProject.
VerifiedDomains == {h \in Domains : domain[h] = "verified"}

Newest_OffByOne(S) == 1 + (CHOOSE d \in S : \A e \in S : e <= d)

\* The first ready row of ListDeploymentsForProjects, newest first.
Newest(S) == CHOOSE d \in S : \A e \in S : e <= d

-----------------------------------------------------------------------------
(***************************************************************************)
(* The worker, from applyDeployment to the end of runOne.                  *)
(***************************************************************************)
WorkerGoes(from, to) ==
    /\ wpc = from
    /\ wpc' = to
    /\ UNCHANGED <<built, ready, domain, handler>>

\* The attempt for a queued deployment fails, before or after it applied its
\* objects, or it marks the row ready.
BuildNext(d) ==
    /\ wpc = "idle"
    /\ d \notin built
    /\ InOrder => \A e \in Deployments : e < d => e \in built
    /\ built' = built \cup {d}
    /\ \/ /\ workloads' \in {workloads, workloads \cup {d}}
          /\ services' \in {services, services \cup (workloads' \cap {d})}
          /\ UNCHANGED <<ready, wpc, wdep>>
       \/ /\ ready' = ready \cup {d}
          /\ workloads' = workloads \cup {d}
          /\ services' = services \cup {d}
          /\ IF d \in Production
             THEN wpc' = "alias" /\ wdep' = d
             ELSE UNCHANGED <<wpc, wdep>>
    /\ UNCHANGED <<alias, pointer, route, domain, wdomains, handler, faults>>

\* A failing apply is logged; the pointer is then left alone, the rest is not.
ApplyAlias ==
    /\ \/ alias' = wdep /\ UNCHANGED faults /\ WorkerGoes("alias", "point")
       \/ Strike("call") /\ alias' \in {alias, wdep} /\ WorkerGoes("alias", "list")
    /\ UNCHANGED <<objects, pointer, route, wdep, wdomains>>

SetProductionDeployment ==
    /\ WorkerGoes("point", "list")
    /\ Call(pointer' = wdep, pointer)
    /\ UNCHANGED <<objects, alias, route, wdep, wdomains>>

ListVerified ==
    /\ WorkerGoes("list", "domains")
    /\ Query(wdomains' = VerifiedDomains, wdomains)
    /\ UNCHANGED <<objects, alias, pointer, route, wdep>>

ApplyDomain(h) ==
    /\ h \in wdomains
    /\ WorkerGoes("domains", "domains")
    /\ wdomains' = wdomains \ {h}
    /\ Call(route' = [route EXCEPT ![h] = wdep], route)
    /\ UNCHANGED <<objects, alias, pointer, wdep>>

DeleteOld_Inverted(old, keep) == old' = old \ {keep} /\ UNCHANGED faults

\* deleteAllByLabel stops at the first object it cannot delete.
DeleteOld(old, keep) ==
    \/ old' = old \cap {keep} /\ UNCHANGED faults
    \/ /\ Strike("call")
       /\ \E rest \in SUBSET old : old' = rest \cup (old \cap {keep})

DeleteOldWorkloads ==
    /\ wdomains = {}
    /\ WorkerGoes("domains", "services")
    /\ DeleteOld(workloads, wdep)
    /\ UNCHANGED <<services, alias, pointer, route, wdep, wdomains>>

DeleteOldServices ==
    /\ WorkerGoes("services", "idle")
    /\ DeleteOld(services, wdep)
    /\ wdep' = 0
    /\ UNCHANGED <<workloads, alias, pointer, route, wdomains>>

-----------------------------------------------------------------------------
(***************************************************************************)
(* HTTP handlers.                                                          *)
(***************************************************************************)
HandlerGoes(r, from, to) ==
    /\ hpc[r] = from
    /\ hpc' = [hpc EXCEPT ![r] = to]
    /\ UNCHANGED <<built, ready, objects, worker>>

\* The handler answers and forgets what it was about.
Answer(r, from) ==
    /\ HandlerGoes(r, from, "idle")
    /\ hdep' = [hdep EXCEPT ![r] = 0]
    /\ hhost' = [hhost EXCEPT ![r] = NoHost]
    /\ hdomains' = [hdomains EXCEPT ![r] = {}]

\* A call whose error makes the handler answer 500 or give up.
CallOrAnswer(r, from, to, effect, v) ==
    \/ /\ HandlerGoes(r, from, to)
       /\ effect
       /\ UNCHANGED <<hdep, hhost, hdomains, faults>>
    \/ Answer(r, from) /\ Strike("call") /\ (effect \/ UNCHANGED v)

(* handlePromoteDeployment *)

PromoteChecked_AnyStatus(r, d) ==
    /\ "promote" \in Kinds
    /\ d \in built
    /\ HandlerGoes(r, "idle", "promote")
    /\ hdep' = [hdep EXCEPT ![r] = d]
    /\ UNCHANGED <<alias, pointer, route, domain, hhost, hdomains, faults>>

PromoteChecked(r, d) ==
    /\ "promote" \in Kinds
    /\ d \in ready
    /\ HandlerGoes(r, "idle", "promote")
    /\ hdep' = [hdep EXCEPT ![r] = d]
    /\ UNCHANGED <<alias, pointer, route, domain, hhost, hdomains, faults>>

PromoteAlias(r) ==
    /\ CallOrAnswer(r, "promote", "point", alias' = hdep[r], alias)
    /\ UNCHANGED <<pointer, route, domain>>

PromotePointer(r) ==
    /\ HandlerGoes(r, "point", "list")
    /\ Call(pointer' = hdep[r], pointer)
    /\ UNCHANGED <<alias, route, domain, hdep, hhost, hdomains>>

PromoteList(r) ==
    /\ HandlerGoes(r, "list", "domains")
    /\ Query(hdomains' = [hdomains EXCEPT ![r] = VerifiedDomains], hdomains)
    /\ UNCHANGED <<alias, pointer, route, domain, hdep, hhost>>

PromoteDomain(r, h) ==
    /\ h \in hdomains[r]
    /\ HandlerGoes(r, "domains", "domains")
    /\ hdomains' = [hdomains EXCEPT ![r] = @ \ {h}]
    /\ Call(route' = [route EXCEPT ![h] = hdep[r]], route)
    /\ UNCHANGED <<alias, pointer, domain, hdep, hhost>>

PromoteDone(r) ==
    /\ hdomains[r] = {}
    /\ Answer(r, "domains")
    /\ UNCHANGED <<alias, pointer, route, domain, faults>>

(* handleAddProjectDomain, handleVerifyProjectDomain, publishDomainRoute *)

AddDomain(h) ==
    /\ "add" \in Kinds
    /\ domain[h] = "absent"
    /\ domain' = [domain EXCEPT ![h] = "pending"]
    /\ UNCHANGED <<built, ready, objects, alias, pointer, route, worker, handler, faults>>

\* A verified domain is only published again; a pending one must show its token.
VerifyChecked(r, h) ==
    /\ "verify" \in Kinds
    /\ domain[h] # "absent"
    /\ HandlerGoes(r, "idle", IF domain[h] = "verified" THEN "publish" ELSE "mark")
    /\ hhost' = [hhost EXCEPT ![r] = h]
    /\ UNCHANGED <<alias, pointer, route, domain, hdep, hdomains, faults>>

\* An UPDATE that matches no row counts as somebody else's success.
MarkDomainVerified(r) ==
    /\ CallOrAnswer(r, "mark", "publish",
          domain' = [domain EXCEPT ![hhost[r]] = IF @ = "pending" THEN "verified" ELSE @],
          domain)
    /\ UNCHANGED <<alias, pointer, route>>

PublishTarget(r) ==
    /\ \/ /\ ready # {}
          /\ HandlerGoes(r, "publish", "apply")
          /\ hdep' = [hdep EXCEPT ![r] = Newest(ready)]
          /\ UNCHANGED <<hhost, hdomains>>
       \/ ready = {} /\ Answer(r, "publish")
    /\ UNCHANGED <<alias, pointer, route, domain, faults>>

PublishRoute(r) ==
    /\ Answer(r, "apply")
    /\ Call(route' = [route EXCEPT ![hhost[r]] = hdep[r]], route)
    /\ UNCHANGED <<alias, pointer, domain>>

(* handleDeleteProjectDomain *)

\* A failure to delete the route is logged, and the row goes all the same.
DeleteRoute(r, h) ==
    /\ "delete" \in Kinds
    /\ HandlerGoes(r, "idle", "row")
    /\ hhost' = [hhost EXCEPT ![r] = h]
    /\ Call(route' = [route EXCEPT ![h] = 0], route)
    /\ UNCHANGED <<alias, pointer, domain, hdep, hdomains>>

DeleteDomainRow(r) ==
    /\ Answer(r, "row")
    /\ Call(domain' = [domain EXCEPT ![hhost[r]] = "absent"], domain)
    /\ UNCHANGED <<alias, pointer, route>>

\* The client disconnects or the request's context times out.
RequestCancelled(r) ==
    /\ hpc[r] # "idle"
    /\ Answer(r, hpc[r])
    /\ Strike("call")
    /\ UNCHANGED <<alias, pointer, route, domain>>

\* The pod dies with its worker and its requests.  The row is ready by now,
\* so no requeue brings the rest of runOne back.
Crash ==
    /\ Strike("crash")
    /\ wpc' = "idle" /\ wdep' = 0 /\ wdomains' = {}
    /\ hpc' = [r \in Requests |-> "idle"]
    /\ hdep' = [r \in Requests |-> 0]
    /\ hhost' = [r \in Requests |-> NoHost]
    /\ hdomains' = [r \in Requests |-> {}]
    /\ UNCHANGED <<built, ready, objects, alias, pointer, route, domain>>

-----------------------------------------------------------------------------
CutOver ==
    \/ ApplyAlias \/ SetProductionDeployment \/ ListVerified
    \/ \E h \in Domains : ApplyDomain(h)
    \/ DeleteOldWorkloads \/ DeleteOldServices

Promote(r) ==
    \/ \E d \in Deployments : PromoteChecked(r, d)
    \/ PromoteAlias(r) \/ PromotePointer(r) \/ PromoteList(r)
    \/ \E h \in Domains : PromoteDomain(r, h)
    \/ PromoteDone(r)

Verify(r) ==
    \/ \E h \in Domains : VerifyChecked(r, h)
    \/ MarkDomainVerified(r) \/ PublishTarget(r) \/ PublishRoute(r)

Delete(r) ==
    \/ \E h \in Domains : DeleteRoute(r, h)
    \/ DeleteDomainRow(r)

Next ==
    \/ \E d \in Deployments : BuildNext(d)
    \/ CutOver \/ Crash
    \/ \E h \in Domains : AddDomain(h)
    \/ \E r \in Requests : Promote(r) \/ Verify(r) \/ Delete(r) \/ RequestCancelled(r)

Spec == Init /\ [][Next]_vars

-----------------------------------------------------------------------------
(***************************************************************************)
(* Properties.                                                             *)
(***************************************************************************)
Quiet == wpc = "idle" /\ \A r \in Requests : hpc[r] = "idle"

\* The production hostname leads to a Service that exists and has a
\* Deployment behind it: deleting the older builds of a project never takes
\* away what its alias points at.
AliasHasBackend == alias # 0 => alias \in workloads \cap services

\* production_deployment_id moves only to the deployment behind the alias:
\* builder.go and promote_handlers.go write it after the route.  Two promotes,
\* or a promote and a cut-over, may write the route in one order and the pointer
\* in the other.
PointerFollowsAlias == [][pointer' # pointer => pointer' = alias]_vars

\* A custom hostname is routed to the project only while its ownership is
\* proved: the worker and the promote handler read verified rows only.
OnlyVerifiedRouted ==
    [][\A h \in Domains :
          route'[h] # route[h] /\ route'[h] # 0 => domain[h] = "verified"]_vars

\* Traffic moves to ready builds only, and the production hostname never back
\* to an older one, nor to a preview, but where a promote asked for it: a cut-over
\* that was delayed, failed half-way or was cut short by a crash rolls nothing
\* back.  Where builds end out of order (InOrder is FALSE), an older one does.
TrafficMovesForward ==
    [][/\ alias' # alias
             => /\ alias' \in ready
                /\ \/ alias' > alias /\ alias' \in Production
                   \/ \E r \in Requests : hpc[r] = "promote" /\ hdep[r] = alias'
       /\ \A h \in Domains : route'[h] # route[h] => route'[h] \in ready \cup {0}]_vars

\* When nothing is under way, a routed custom domain leads where the
\* production alias leads.
DomainsFollowAlias ==
    Quiet => \A h \in VerifiedDomains : route[h] # 0 /\ alias # 0 => route[h] = alias

=============================================================================
