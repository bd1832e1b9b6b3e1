----------------------------- MODULE MC_Restore -----------------------------
(* A small instance of the Restore Orchestrator for TLC: two backups f1, f2 *)
(* in the preload directory and one path x outside it, which may be given   *)
(* as the explicit backup file; two modification times, so that ties and   *)
(* a strict newest both occur.                                              *)
EXTENDS Restore

CONSTANTS f1, f2, x, none

MCPaths == {f1, f2, x}
MCBackups == {f1, f2}
MCMTimes == {1, 2}
=============================================================================
