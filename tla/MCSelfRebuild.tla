---------------------------- MODULE MCSelfRebuild ----------------------------
(***************************************************************************)
(* Instances of SelfRebuild for TLC.                                       *)
(***************************************************************************)
EXTENDS SelfRebuild
=============================================================================
