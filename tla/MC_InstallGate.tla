--------------------------- MODULE MC_InstallGate ---------------------------
(* A small instance of the Package Installer Gate for TLC.  Package p is    *)
(* provided by two plugin directories at versions 1 and 2 (an old and a    *)
(* new copy of the same plugin), package q by the requirements directory   *)
(* r1 and by the plugin directory d3.  In MCVer, d3's version string is    *)
(* one that Version() rejects; MCVerParsed gives it version 2 instead.     *)
EXTENDS InstallGate, TLC

CONSTANTS p, q, r1, d1, d2, d3, bad, absent

MCPackages == {p, q}
MCReqDirs == {r1}
MCPluginDirs == {d1, d2, d3}
MCPkg == (r1 :> q) @@ (d1 :> p) @@ (d2 :> p) @@ (d3 :> q)
MCVer == (r1 :> 1) @@ (d1 :> 1) @@ (d2 :> 2) @@ (d3 :> bad)
MCVerParsed == (r1 :> 1) @@ (d1 :> 1) @@ (d2 :> 2) @@ (d3 :> 2)
MCVersions == {1, 2}
=============================================================================
