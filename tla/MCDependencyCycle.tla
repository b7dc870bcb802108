-------------------------- MODULE MCDependencyCycle --------------------------
(***************************************************************************)
(* Small instances of DependencyCycle for TLC.                             *)
(***************************************************************************)
EXTENDS DependencyCycle
=============================================================================
