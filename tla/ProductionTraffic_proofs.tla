----------------------- MODULE ProductionTraffic_proofs -----------------------
(***************************************************************************)
(* Theorems about ProductionTraffic, for any number of deployments,        *)
(* hostnames, concurrent requests and faults.                              *)
(***************************************************************************)
EXTENDS ProductionTraffic, TLAPS, WellFoundedInduction

\* publishDomainRoute picks a row of the listing: Newest of a nonempty set of
\* deployments is one of them.
LEMMA NewestIsMember ==
    ASSUME NEW S \in SUBSET Deployments, S # {}
    PROVE  Newest(S) \in S
<1> DEFINE T == {NumDeployments - e : e \in S}
<1>0. NumDeployments \in Nat
  BY ConstantsAssumption, Zenon DEF ConstantsAssumption
<1>1. T \subseteq Nat /\ T # {} /\ S \subseteq Nat /\ NumDeployments \in Nat
  <2>1. \A e \in S : e \in Nat /\ e <= NumDeployments
    BY <1>0 DEF Deployments
  <2>2. \A e \in S : NumDeployments - e \in Nat
    BY <1>0, <2>1
  <2> QED
    BY <1>0, <2>1, <2>2
<1>2. PICK m \in T : \A n \in T : ~ (<<n, m>> \in OpToRel(<, Nat))
  <2> HIDE DEF T
  <2> QED
    BY <1>1, NatLessThanWellFounded, WFMin
<1>3. \A n \in T : n < m => <<n, m>> \in OpToRel(<, Nat)
  BY <1>1 DEF OpToRel
<1>4. \A n \in T : ~ (n < m)
  <2> HIDE DEF T
  <2> QED
    BY <1>2, <1>3, Zenon
<1>5. PICK d \in S : m = NumDeployments - d
  OBVIOUS
<1>6. \A e \in S : e <= d
  <2> SUFFICES ASSUME NEW e \in S PROVE e <= d
    OBVIOUS
  <2>1. ~ (NumDeployments - e < NumDeployments - d)
    BY <1>4, <1>5
  <2> QED
    BY <1>1, <2>1
<1> QED
  BY <1>6 DEF Newest

\* A fault that strikes leaves the budgets well-typed.
LEMMA StrikeTypes ==
    ASSUME TypeOK, NEW kind \in FaultKinds, Strike(kind)
    PROVE  faults' \in [FaultKinds -> Nat]
<1>1. faults[kind] \in Nat /\ faults[kind] - 1 \in Nat
  BY DEF TypeOK, Strike
<1> QED
  BY <1>1 DEF TypeOK, Strike

\* So does a call, whether it succeeds or returns an error.
LEMMA CallTypes ==
    ASSUME TypeOK, UNCHANGED faults \/ Strike("call")
    PROVE  faults' \in [FaultKinds -> Nat]
  BY StrikeTypes DEF FaultKinds, TypeOK

-----------------------------------------------------------------------------
\* The empty project is well-typed.
LEMMA TypeInit == Init => TypeOK
  BY ConstantsAssumption
  DEF Init, TypeOK, DomainStates, WorkerSteps, HandlerSteps, PromoteSteps

\* The worker's steps, and its death, keep the types.
LEMMA TypeWorkerStep ==
    ASSUME TypeOK, (\E d \in Deployments : BuildNext(d)) \/ CutOver \/ Crash
    PROVE  TypeOK'
<1> USE DEF TypeOK, objects, worker, handler, WorkerSteps, WorkerGoes, Call, Query
<1>1. ASSUME NEW d \in Deployments, BuildNext(d) PROVE TypeOK'
  BY <1>1 DEF BuildNext
<1>2. CASE ApplyAlias
  BY <1>2, CallTypes DEF ApplyAlias
<1>3. CASE SetProductionDeployment
  BY <1>3, CallTypes DEF SetProductionDeployment
<1>4. CASE ListVerified
  BY <1>4, CallTypes DEF ListVerified, VerifiedDomains
<1>5. ASSUME NEW h \in Domains, ApplyDomain(h) PROVE TypeOK'
  BY <1>5, CallTypes DEF ApplyDomain
<1>6. CASE DeleteOldWorkloads
  <2>1. workloads' \subseteq workloads /\ (UNCHANGED faults \/ Strike("call"))
    BY <1>6 DEF DeleteOldWorkloads, DeleteOld
  <2> QED
    BY <1>6, <2>1, CallTypes DEF DeleteOldWorkloads
<1>7. CASE DeleteOldServices
  <2>1. services' \subseteq services /\ (UNCHANGED faults \/ Strike("call"))
    BY <1>7 DEF DeleteOldServices, DeleteOld
  <2> QED
    BY <1>7, <2>1, CallTypes DEF DeleteOldServices
<1>8. CASE Crash
  <2>1. faults' \in [FaultKinds -> Nat]
    BY <1>8, StrikeTypes DEF Crash, FaultKinds
  <2> QED
    BY <1>8, <2>1 DEF Crash, HandlerSteps
<1> QED
  BY <1>1, <1>2, <1>3, <1>4, <1>5, <1>6, <1>7, <1>8 DEF CutOver

\* The steps of the HTTP handlers keep the types.
LEMMA TypeRequestStep ==
    ASSUME TypeOK, NEW r \in Requests, Promote(r) \/ Verify(r) \/ Delete(r) \/ RequestCancelled(r)
    PROVE  TypeOK'
<1> USE DEF TypeOK, objects, worker, handler, HandlerSteps, PromoteSteps, HandlerGoes,
            Answer, Call, Query
<1>1. ASSUME NEW d \in Deployments, PromoteChecked(r, d) PROVE TypeOK'
  BY <1>1 DEF PromoteChecked
<1>2. CASE PromoteAlias(r)
  BY <1>2, CallTypes DEF PromoteAlias, CallOrAnswer
<1>3. CASE PromotePointer(r)
  BY <1>3, CallTypes DEF PromotePointer
<1>4. CASE PromoteList(r)
  BY <1>4, CallTypes DEF PromoteList, VerifiedDomains
<1>5. ASSUME NEW h \in Domains, PromoteDomain(r, h) PROVE TypeOK'
  BY <1>5, CallTypes DEF PromoteDomain
<1>6. CASE PromoteDone(r)
  BY <1>6 DEF PromoteDone
<1>7. ASSUME NEW h \in Domains, VerifyChecked(r, h) PROVE TypeOK'
  BY <1>7 DEF VerifyChecked
<1>8. CASE MarkDomainVerified(r)
  BY <1>8, CallTypes DEF MarkDomainVerified, CallOrAnswer, DomainStates
<1>9. CASE PublishTarget(r)
  BY <1>9, NewestIsMember DEF PublishTarget
<1>10. CASE PublishRoute(r)
  BY <1>10, CallTypes DEF PublishRoute
<1>11. ASSUME NEW h \in Domains, DeleteRoute(r, h) PROVE TypeOK'
  BY <1>11, CallTypes DEF DeleteRoute
<1>12. CASE DeleteDomainRow(r)
  BY <1>12, CallTypes DEF DeleteDomainRow, DomainStates
<1>13. CASE RequestCancelled(r)
  BY <1>13, CallTypes DEF RequestCancelled
<1> QED
  BY <1>1, <1>2, <1>3, <1>4, <1>5, <1>6, <1>7, <1>8, <1>9, <1>10, <1>11, <1>12, <1>13
  DEF Promote, Verify, Delete

\* The rows, routes and the places of the worker and the handlers keep their types.
THEOREM TypeCorrect == Spec => []TypeOK
<1>1. TypeOK /\ [Next]_vars => TypeOK'
  <2> SUFFICES ASSUME TypeOK, [Next]_vars PROVE TypeOK'
    OBVIOUS
  <2>1. ASSUME NEW h \in Domains, AddDomain(h) PROVE TypeOK'
    BY <2>1 DEF AddDomain, TypeOK, DomainStates, objects, worker, handler
  <2>2. CASE UNCHANGED vars
    BY <2>2 DEF vars, TypeOK, objects, worker, handler
  <2> QED
    BY <2>1, <2>2, TypeWorkerStep, TypeRequestStep DEF Next
<1> QED
  BY TypeInit, <1>1, PTL DEF Spec

-----------------------------------------------------------------------------
(***************************************************************************)
(* Routes appear on verified hostnames only, when no hostname is removed.  *)
(***************************************************************************)

\* Whatever was read as verified still is: nothing but a removal undoes a
\* verification, so lists read earlier have not gone stale.
VerifiedInv ==
    /\ wdomains \subseteq VerifiedDomains
    /\ \A r \in Requests :
          /\ hdomains[r] \subseteq VerifiedDomains
          /\ hpc[r] \in {"publish", "apply"} => hhost[r] \in VerifiedDomains
          /\ hpc[r] = "mark" => hhost[r] \in Domains /\ domain[hhost[r]] # "absent"
          /\ hpc[r] # "row"

RoutesVerified ==
    \A h \in Domains : route'[h] # route[h] /\ route'[h] # 0 => domain[h] = "verified"

\* The worker cuts over only what it listed.
LEMMA VerifiedWorkerStep ==
    ASSUME TypeOK, VerifiedInv, (\E d \in Deployments : BuildNext(d)) \/ CutOver \/ Crash
    PROVE  VerifiedInv' /\ RoutesVerified
<1> USE DEF VerifiedInv, VerifiedDomains, RoutesVerified, TypeOK, worker, handler, WorkerGoes, Call, Query
<1>1. CASE \E d \in Deployments : BuildNext(d)
  BY <1>1 DEF BuildNext
<1>2. CASE ApplyAlias
  BY <1>2 DEF ApplyAlias
<1>3. CASE SetProductionDeployment
  BY <1>3 DEF SetProductionDeployment
<1>4. CASE ListVerified
  BY <1>4 DEF ListVerified
<1>5. ASSUME NEW h \in Domains, ApplyDomain(h) PROVE VerifiedInv' /\ RoutesVerified
  BY <1>5 DEF ApplyDomain
<1>6. CASE DeleteOldWorkloads
  BY <1>6 DEF DeleteOldWorkloads
<1>7. CASE DeleteOldServices
  BY <1>7 DEF DeleteOldServices
<1>8. CASE Crash
  BY <1>8 DEF Crash
<1> QED
  BY <1>1, <1>2, <1>3, <1>4, <1>5, <1>6, <1>7, <1>8 DEF CutOver

\* A promote cuts over only what it listed.
LEMMA VerifiedPromoteStep ==
    ASSUME TypeOK, VerifiedInv, NEW r \in Requests, Promote(r) \/ RequestCancelled(r)
    PROVE  VerifiedInv' /\ RoutesVerified
<1> USE DEF VerifiedInv, VerifiedDomains, RoutesVerified, TypeOK, worker, HandlerGoes, Answer, Call, Query
<1>1. ASSUME NEW d \in Deployments, PromoteChecked(r, d) PROVE VerifiedInv' /\ RoutesVerified
  BY <1>1 DEF PromoteChecked
<1>2. CASE PromoteAlias(r)
  BY <1>2 DEF PromoteAlias, CallOrAnswer
<1>3. CASE PromotePointer(r)
  BY <1>3 DEF PromotePointer
<1>4. CASE PromoteList(r)
  BY <1>4 DEF PromoteList
<1>5. ASSUME NEW h \in Domains, PromoteDomain(r, h) PROVE VerifiedInv' /\ RoutesVerified
  BY <1>5 DEF PromoteDomain
<1>6. CASE PromoteDone(r)
  BY <1>6 DEF PromoteDone
<1>7. CASE RequestCancelled(r)
  BY <1>7 DEF RequestCancelled
<1> QED
  BY <1>1, <1>2, <1>3, <1>4, <1>5, <1>6, <1>7 DEF Promote

\* A verify publishes only after the row it read, or wrote, is verified.
LEMMA VerifiedVerifyStep ==
    ASSUME TypeOK, VerifiedInv, NEW r \in Requests, Verify(r)
    PROVE  VerifiedInv' /\ RoutesVerified
<1> USE DEF VerifiedInv, VerifiedDomains, RoutesVerified, TypeOK, worker, HandlerGoes, Answer, Call, Query
<1>1. ASSUME NEW h \in Domains, VerifyChecked(r, h) PROVE VerifiedInv' /\ RoutesVerified
  BY <1>1 DEF VerifyChecked, DomainStates
<1>2. CASE MarkDomainVerified(r)
  <2>1. \A h \in Domains : /\ domain[h] = "verified" => domain'[h] = "verified"
                           /\ domain[h] # "absent" => domain'[h] # "absent"
    BY <1>2 DEF MarkDomainVerified, CallOrAnswer
  <2>2. hpc'[r] = "publish" => domain'[hhost[r]] = "verified" /\ hhost'[r] = hhost[r]
                               /\ hhost[r] \in Domains
    BY <1>2 DEF MarkDomainVerified, CallOrAnswer, DomainStates
  <2>3. /\ hpc'[r] \in {"publish", "idle"}
        /\ \A q \in Requests : q # r => hpc'[q] = hpc[q] /\ hhost'[q] = hhost[q]
        /\ \A q \in Requests : hdomains'[q] \subseteq hdomains[q]
        /\ UNCHANGED <<route, wdomains>>
    BY <1>2 DEF MarkDomainVerified, CallOrAnswer
  <2> QED
    BY <2>1, <2>2, <2>3
<1>3. CASE PublishTarget(r)
  BY <1>3 DEF PublishTarget
<1>4. CASE PublishRoute(r)
  BY <1>4 DEF PublishRoute
<1> QED
  BY <1>1, <1>2, <1>3, <1>4 DEF Verify

\* Where no hostname is removed, every route that appears, or moves, is on a
\* hostname verified at that moment, however stale the list it came from.
THEOREM OnlyVerified ==
    ASSUME "delete" \notin Kinds
    PROVE  Spec => OnlyVerifiedRouted
<1>1. Init => VerifiedInv
  BY DEF Init, VerifiedInv
<1>2. TypeOK /\ VerifiedInv /\ [Next]_vars => VerifiedInv' /\ [RoutesVerified]_vars
  <2> SUFFICES ASSUME TypeOK, VerifiedInv, [Next]_vars PROVE VerifiedInv' /\ [RoutesVerified]_vars
    OBVIOUS
  <2>1. ASSUME NEW r \in Requests, Delete(r) PROVE FALSE
    BY <2>1 DEF Delete, DeleteRoute, DeleteDomainRow, Answer, HandlerGoes, VerifiedInv
  <2>2. ASSUME NEW h \in Domains, AddDomain(h) PROVE VerifiedInv' /\ RoutesVerified
    BY <2>2 DEF AddDomain, VerifiedInv, RoutesVerified, VerifiedDomains, worker, handler, TypeOK
  <2>3. CASE UNCHANGED vars
    BY <2>3 DEF vars, VerifiedInv, VerifiedDomains, worker, handler
  <2> QED
    BY <2>1, <2>2, <2>3, VerifiedWorkerStep, VerifiedPromoteStep, VerifiedVerifyStep
    DEF Next
<1> QED
  BY <1>1, <1>2, TypeCorrect, PTL DEF Spec, OnlyVerifiedRouted, RoutesVerified

-----------------------------------------------------------------------------
(***************************************************************************)
(* Traffic is led to ready builds only, in whatever order they end: with   *)
(* every endpoint in use, whatever fails.                                  *)
(***************************************************************************)

\* The worker holds a ready build of the production branch, handlers hold ready
\* builds.
ReadyInv ==
    /\ ready \subseteq built
    /\ alias \in built \cup {0}
    /\ wpc # "idle" => wdep \in ready \cap Production
    /\ \A r \in Requests : hpc[r] \in PromoteSteps \cup {"apply"} => hdep[r] \in ready

\* What the worker, or a promote, does to the alias.
AliasToReady ==
    alias' # alias
        => /\ alias' \in ready
           /\ \/ wpc = "alias" /\ alias' = wdep
              \/ \E r \in Requests : hpc[r] = "promote" /\ hdep[r] = alias'

RoutesReady ==
    \A h \in Domains : route'[h] # route[h] => route'[h] \in ready \cup {0}

\* The worker cuts over to the build it has just finished.
LEMMA ReadyWorkerStep ==
    ASSUME TypeOK, ReadyInv, (\E d \in Deployments : BuildNext(d)) \/ CutOver \/ Crash
    PROVE  ReadyInv' /\ AliasToReady /\ RoutesReady
<1> USE DEF ReadyInv, AliasToReady, RoutesReady, TypeOK, objects, worker, handler,
            WorkerGoes, Call, Query
<1>1. ASSUME NEW d \in Deployments, BuildNext(d)
      PROVE  ReadyInv' /\ AliasToReady /\ RoutesReady
  BY <1>1 DEF BuildNext
<1>2. CASE ApplyAlias
  BY <1>2 DEF ApplyAlias
<1>3. CASE SetProductionDeployment \/ ListVerified
  BY <1>3 DEF SetProductionDeployment, ListVerified
<1>4. ASSUME NEW h \in Domains, ApplyDomain(h)
      PROVE  ReadyInv' /\ AliasToReady /\ RoutesReady
  BY <1>4 DEF ApplyDomain
<1>5. CASE DeleteOldWorkloads \/ DeleteOldServices
  BY <1>5 DEF DeleteOldWorkloads, DeleteOldServices
<1>6. CASE Crash
  BY <1>6 DEF Crash, PromoteSteps
<1> QED
  BY <1>1, <1>2, <1>3, <1>4, <1>5, <1>6 DEF CutOver

\* No request touches what has been built, nor the worker.
LEMMA RequestsBuildNothing ==
    ASSUME NEW r \in Requests, Promote(r) \/ Verify(r) \/ Delete(r) \/ RequestCancelled(r)
    PROVE  UNCHANGED <<built, ready, objects, worker>>
  BY DEF Promote, PromoteChecked, PromoteAlias, PromotePointer, PromoteList,
     PromoteDomain, PromoteDone, Verify, VerifyChecked, MarkDomainVerified,
     PublishTarget, PublishRoute, Delete, DeleteRoute, DeleteDomainRow,
     RequestCancelled, CallOrAnswer, Answer, HandlerGoes

\* Requests lead traffic to what they found ready.
LEMMA ReadyRequestStep ==
    ASSUME TypeOK, ReadyInv, NEW r \in Requests,
           Promote(r) \/ Verify(r) \/ Delete(r) \/ RequestCancelled(r)
    PROVE  ReadyInv' /\ AliasToReady /\ RoutesReady
<1>1. UNCHANGED <<built, ready, objects, worker>>
  BY RequestsBuildNothing
<1>2. \A q \in Requests \ {r} : hpc'[q] = hpc[q] /\ hdep'[q] = hdep[q]
  BY DEF Promote, PromoteChecked, PromoteAlias, PromotePointer, PromoteList,
     PromoteDomain, PromoteDone, Verify, VerifyChecked, MarkDomainVerified,
     PublishTarget, PublishRoute, Delete, DeleteRoute, DeleteDomainRow,
     RequestCancelled, CallOrAnswer, Answer, HandlerGoes, TypeOK
<1> DEFINE Leads ==
        /\ hpc'[r] \in PromoteSteps \cup {"apply"} => hdep'[r] \in ready
        /\ alias' # alias => hpc[r] = "promote" /\ alias' = hdep[r] /\ hdep[r] \in ready
        /\ RoutesReady
<1>3. Leads
  <2> USE DEF ReadyInv, TypeOK, PromoteSteps, HandlerGoes, Answer, Call, Query,
              CallOrAnswer, RoutesReady
  <2>1. CASE Promote(r)
    <3>1. ASSUME NEW d \in Deployments, PromoteChecked(r, d) PROVE Leads
      BY <3>1 DEF PromoteChecked
    <3>2. CASE PromoteAlias(r) \/ PromotePointer(r)
      BY <3>2 DEF PromoteAlias, PromotePointer
    <3>3. CASE PromoteList(r) \/ PromoteDone(r)
      BY <3>3 DEF PromoteList, PromoteDone
    <3>4. ASSUME NEW h \in Domains, PromoteDomain(r, h) PROVE Leads
      BY <3>4 DEF PromoteDomain
    <3> QED
      BY <2>1, <3>1, <3>2, <3>3, <3>4 DEF Promote
  <2>2. CASE Verify(r)
    <3>1. CASE PublishTarget(r)
      BY <3>1, NewestIsMember DEF PublishTarget
    <3>2. CASE PublishRoute(r)
      BY <3>2 DEF PublishRoute
    <3>3. CASE ~PublishTarget(r) /\ ~PublishRoute(r)
      BY <2>2, <3>3 DEF Verify, VerifyChecked, MarkDomainVerified
    <3> QED
      BY <3>1, <3>2, <3>3
  <2>3. CASE Delete(r)
    BY <2>3 DEF Delete, DeleteRoute, DeleteDomainRow
  <2>4. CASE RequestCancelled(r)
    BY <2>4 DEF RequestCancelled
  <2> QED
    BY <2>1, <2>2, <2>3, <2>4
<1> QED
  BY <1>1, <1>2, <1>3 DEF ReadyInv, AliasToReady, worker

\* Every step keeps ReadyInv and leads traffic to ready builds.
LEMMA ReadyStep ==
    ASSUME TypeOK, ReadyInv, [Next]_vars
    PROVE  ReadyInv' /\ AliasToReady /\ RoutesReady
<1>1. ASSUME NEW h \in Domains, AddDomain(h)
      PROVE  ReadyInv' /\ AliasToReady /\ RoutesReady
  BY <1>1 DEF AddDomain, ReadyInv, AliasToReady, RoutesReady, worker, handler
<1>2. CASE UNCHANGED vars
  BY <1>2 DEF vars, ReadyInv, AliasToReady, RoutesReady, worker, handler
<1> QED
  BY <1>1, <1>2, ReadyWorkerStep, ReadyRequestStep DEF Next

\* What the worker and the handlers hold is ready in every reachable state.
LEMMA ReadyCorrect == Spec => [](TypeOK /\ ReadyInv)
<1>1. Init => ReadyInv
  BY DEF Init, ReadyInv, PromoteSteps
<1> QED
  BY <1>1, ReadyStep, TypeCorrect, PTL DEF Spec

\* The production hostname and the custom domains are led to ready builds only,
\* in whatever order builds end, by a cut-over, a promote or a verification that
\* may each have read their build long before: PromoteChecked's guard and
\* publishDomainRoute's choice have not gone stale when the route is written.
THEOREM OnlyReadyServed ==
    Spec => [][(alias' # alias => alias' \in ready) /\ RoutesReady]_vars
<1>1. TypeOK /\ ReadyInv /\ [Next]_vars
        => [(alias' # alias => alias' \in ready) /\ RoutesReady]_vars
  BY ReadyStep DEF AliasToReady
<1> QED
  BY <1>1, ReadyCorrect, PTL DEF Spec

-----------------------------------------------------------------------------
(***************************************************************************)
(* When builds end in the order of the queue, the one the worker cuts over *)
(* to is the newest that has ended.                                        *)
(***************************************************************************)
NewestInv ==
    /\ \A d \in built, e \in Deployments : e < d => e \in built
    /\ wpc # "idle" => \A e \in built : e <= wdep

\* A build that begins is newer than all that have ended.
LEMMA NewestStep ==
    ASSUME InOrder, TypeOK, ReadyInv, NewestInv, [Next]_vars
    PROVE  NewestInv'
<1>1. ASSUME NEW d \in Deployments, BuildNext(d) PROVE NewestInv'
  <2>1. /\ built' = built \cup {d} /\ wpc = "idle" /\ d \notin built
        /\ \A e \in Deployments : e < d => e \in built
        /\ wpc' # "idle" => wdep' = d
    BY <1>1 DEF BuildNext
  <2>2. \A e \in built : e <= d
    BY <2>1 DEF NewestInv, TypeOK, Deployments
  <2>3. \A c \in built', e \in Deployments : e < c => e \in built'
    BY <2>1 DEF NewestInv
  <2> QED
    BY <2>1, <2>2, <2>3 DEF NewestInv, Deployments
<1>2. CASE CutOver \/ Crash
  BY <1>2 DEF NewestInv, CutOver, Crash, WorkerGoes, ApplyAlias, SetProductionDeployment,
     ListVerified, ApplyDomain, DeleteOldWorkloads, DeleteOldServices
<1>3. CASE \E h \in Domains : AddDomain(h)
  BY <1>3 DEF AddDomain, NewestInv, worker
<1>4. CASE \E r \in Requests : Promote(r) \/ Verify(r) \/ Delete(r) \/ RequestCancelled(r)
  BY <1>4, RequestsBuildNothing DEF NewestInv, worker
<1>5. CASE UNCHANGED vars
  BY <1>5 DEF vars, NewestInv, worker
<1> QED
  BY <1>1, <1>2, <1>3, <1>4, <1>5 DEF Next

\* The production hostname moves to a newer build of the production branch, or
\* where a promote asked for, and all routes to ready builds only, as long as
\* builds end in the order of the queue: for any deployments, hostnames and
\* requests, whichever calls fail and whenever the pod dies.
THEOREM MovesForward ==
    ASSUME InOrder
    PROVE  Spec => TrafficMovesForward
<1> DEFINE Forward ==
        /\ alias' # alias
               => /\ alias' \in ready
                  /\ \/ alias' > alias /\ alias' \in Production
                     \/ \E r \in Requests : hpc[r] = "promote" /\ hdep[r] = alias'
        /\ \A h \in Domains : route'[h] # route[h] => route'[h] \in ready \cup {0}
<1>1. Init => NewestInv
  BY DEF Init, NewestInv
<1>2. TypeOK /\ ReadyInv /\ NewestInv /\ [Next]_vars => Forward
  <2> SUFFICES ASSUME TypeOK, ReadyInv, NewestInv, [Next]_vars PROVE Forward
    OBVIOUS
  <2>1. AliasToReady /\ RoutesReady
    BY ReadyStep
  <2>2. ASSUME wpc = "alias", alias' = wdep, alias' # alias
        PROVE  alias' > alias /\ alias' \in Production
    <3>1. wdep \in Production /\ wdep \in Nat /\ alias \in Nat /\ alias <= wdep
      BY <2>2 DEF ReadyInv, NewestInv, TypeOK, Deployments
    <3> QED
      BY <2>2, <3>1
  <2> QED
    BY <2>1, <2>2 DEF AliasToReady, RoutesReady
<1>3. TypeOK /\ ReadyInv /\ NewestInv /\ [Next]_vars => NewestInv'
  BY NewestStep
<1> QED
  BY <1>1, <1>2, <1>3, ReadyCorrect, PTL DEF Spec, TrafficMovesForward

-----------------------------------------------------------------------------
(***************************************************************************)
(* With InOrder, builds end as BuildOrder says, which is how the queue     *)
(* finishes them (BuildPipeline_proofs, BuildOrderImplemented).            *)
(***************************************************************************)
Order == INSTANCE BuildOrder WITH finished <- built, ready <- ready

\* A build that the worker is done with is the next one.
LEMMA BuildNextInOrder ==
    ASSUME InOrder, NEW d \in Deployments, BuildNext(d)
    PROVE  Order!Next
<1>1. Order!Finish(d)
  BY DEF BuildNext, Order!Finish, Order!Deployments, Deployments
<1> QED
  BY <1>1 DEF Order!Next, Order!Deployments, Deployments

\* No other step touches what has been built.
LEMMA OthersBuildNothing ==
    ASSUME [Next]_vars, \A d \in Deployments : ~ BuildNext(d)
    PROVE  UNCHANGED <<built, ready>>
<1>1. CASE CutOver \/ Crash
  BY <1>1 DEF CutOver, Crash, WorkerGoes, ApplyAlias, SetProductionDeployment,
     ListVerified, ApplyDomain, DeleteOldWorkloads, DeleteOldServices
<1>2. CASE \E h \in Domains : AddDomain(h)
  BY <1>2 DEF AddDomain
<1> QED
  BY <1>1, <1>2, RequestsBuildNothing DEF Next, vars

\* What InOrder assumes of the queue is what BuildOrder promises, and nothing
\* else here builds: the two models of builder.go meet at MarkReady.
THEOREM BuildsInOrder ==
    ASSUME InOrder
    PROVE  Spec => Order!Spec
<1>1. Init => Order!Init
  BY DEF Init, Order!Init
<1>2. [Next]_vars => [Order!Next]_<<built, ready>>
  BY BuildNextInOrder, OthersBuildNothing
<1> QED
  BY <1>1, <1>2, PTL DEF Spec, Order!Spec
=============================================================================
