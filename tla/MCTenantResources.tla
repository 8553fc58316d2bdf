-------------------------- MODULE MCTenantResources --------------------------
(***************************************************************************)
(* Instances of TenantResources for TLC.                                   *)
(***************************************************************************)
EXTENDS TenantResources, TLC

\* Slugs of at most 50 characters have a database Secret of their own.
OwnSecret == [p \in Projects |-> p]

\* Handlers are alike.
Alike == Permutations(Handlers)
=============================================================================
