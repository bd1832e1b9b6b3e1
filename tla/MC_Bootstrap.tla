---------------------------- MODULE MC_Bootstrap ----------------------------
(* A small instance of main() over container starts: one backup f1 in the  *)
(* preload directory and one path x outside it, one modification time.    *)
EXTENDS Bootstrap

CONSTANTS f1, x, none

MCPaths == {f1, x}
MCBackups == {f1}
MCMTimes == {1}
=============================================================================
