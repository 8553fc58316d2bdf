------------------------- MODULE MCProductionTraffic -------------------------
(***************************************************************************)
(* Instances of ProductionTraffic for TLC.                                 *)
(***************************************************************************)
EXTENDS ProductionTraffic, TLC

CONSTANTS Crashes, Failures

Faults == [k \in FaultKinds |-> IF k = "crash" THEN Crashes ELSE Failures]

\* Two requests to the same endpoint, or two hostnames, are interchangeable.
Symmetry == Permutations(Requests) \cup Permutations(Domains)
=============================================================================
