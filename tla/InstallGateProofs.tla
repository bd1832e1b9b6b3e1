------------------------- MODULE InstallGateProofs -------------------------
(***************************************************************************)
(* Proofs about the Package Installer Gate, for every value of the         *)
(* constants that satisfies GateAssumption.                                *)
(*                                                                         *)
(* NoDowngrade is not inductive by itself: an install step compares the   *)
(* directory's version with packagesInstalled, and NoDowngrade speaks of   *)
(* found.  While no pip call has failed, the dict of line 382 is exactly   *)
(* what the run found (SnapshotIsFound), and it is only replaced at line   *)
(* 414, after both loops.  The plugin loop only holds plugin directories   *)
(* (PluginLoopTodo), which keeps installedOrUpdated within PluginDirs.     *)
(***************************************************************************)
EXTENDS InstallGate, TLAPS

\* In the loops of lines 391 and 405, with no failed pip call, the dict
\* the gate compares against is the venv as line 382 listed it.
SnapshotIsFound ==
    (pc \in {"req", "plugin"} /\ faults = 0) => packagesInstalled = found

\* The loop of line 404 only visits plugin directories.
PluginLoopTodo == pc = "plugin" => todo \subseteq PluginDirs

IInv == TypeOK /\ SnapshotIsFound /\ PluginLoopTodo /\ NoDowngrade


-----------------------------------------------------------------------------

LEMMA IInvInit == Init => IInv
BY GateAssumption DEF Init, IInv, TypeOK, SnapshotIsFound, PluginLoopTodo,
   NoDowngrade, NoPackages, Pcs

\* One install of InstallPackageDirIfNeeded keeps IInv.
LEMMA InstallDirStep ==
    ASSUME IInv, NEW d \in Dirs, InstallDir(d)
    PROVE  IInv'
<1>. USE GateAssumption
<1>0. /\ Pkg[d] \in Packages /\ Ver[d] \in Vals
      /\ todo' \subseteq Dirs
      /\ UNCHANGED <<packagesInstalled, found>>
  BY DEF InstallDir, IInv, TypeOK
<1>. PICK dryRunOk \in BOOLEAN, installOk \in BOOLEAN :
        LET cost == (IF dryRunOk THEN 0 ELSE 1) + (IF installOk THEN 0 ELSE 1)
        IN
        \/ /\ dryRunOk /\ installOk
           /\ CompareRaises(d, packagesInstalled)
           /\ pc' = "crashed"
           /\ UNCHANGED <<installed, installedOrUpdated, faults>>
        \/ /\ dryRunOk /\ installOk
           /\ ~CompareRaises(d, packagesInstalled)
           /\ ~NeedsInstall(d, packagesInstalled)
           /\ UNCHANGED <<installed, installedOrUpdated, pc, faults>>
        \/ /\ \/ ~dryRunOk
              \/ ~CompareRaises(d, packagesInstalled)
                 /\ NeedsInstall(d, packagesInstalled)
           /\ faults + cost <= MaxFaults
           /\ faults' = faults + cost
           /\ IF installOk THEN RunInstall(d)
              ELSE UNCHANGED <<installed, installedOrUpdated, pc>>
  BY DEF InstallDir
<1>1. CASE dryRunOk /\ installOk /\ CompareRaises(d, packagesInstalled)
  \* InvalidVersion: the program ends, nothing changes but pc.
  BY <1>0, <1>1 DEF IInv, TypeOK, SnapshotIsFound, PluginLoopTodo,
     NoDowngrade, Pcs, CompareRaises
<1>2. CASE dryRunOk /\ installOk /\ ~CompareRaises(d, packagesInstalled)
           /\ ~NeedsInstall(d, packagesInstalled)
  <2>1. pc = "plugin" => todo' \subseteq PluginDirs
    BY DEF InstallDir, IInv, PluginLoopTodo
  <2>. QED
    BY <1>0, <1>2, <2>1 DEF IInv, TypeOK, SnapshotIsFound, PluginLoopTodo,
       NoDowngrade, InstallDir, CompareRaises
<1>3. CASE ~(dryRunOk /\ installOk /\ CompareRaises(d, packagesInstalled))
           /\ ~(dryRunOk /\ installOk /\ ~CompareRaises(d, packagesInstalled)
                /\ ~NeedsInstall(d, packagesInstalled))
  <2>1. /\ \/ ~dryRunOk
           \/ ~CompareRaises(d, packagesInstalled)
              /\ NeedsInstall(d, packagesInstalled)
        /\ faults' = faults + (IF dryRunOk THEN 0 ELSE 1)
                            + (IF installOk THEN 0 ELSE 1)
        /\ faults' \in 0..MaxFaults
        /\ IF installOk THEN RunInstall(d)
           ELSE UNCHANGED <<installed, installedOrUpdated, pc>>
    BY <1>3 DEF IInv, TypeOK
  <2>2. pc' = pc /\ pc \in {"req", "plugin"}
    BY <2>1 DEF RunInstall, InstallDir
  <2>3. installedOrUpdated' \subseteq PluginDirs
    <3>1. pc = "plugin" => d \in PluginDirs
      BY DEF InstallDir, IInv, PluginLoopTodo
    <3>. QED
      BY <2>1, <3>1 DEF RunInstall, IInv, TypeOK
  <2>4. installed' \in [Packages -> Vals \cup {Absent}]
    BY <1>0, <2>1 DEF RunInstall, IInv, TypeOK
  <2>5. TypeOK'
    BY <1>0, <2>2, <2>3, <2>4, <2>1 DEF IInv, TypeOK, Pcs
  <2>6. PluginLoopTodo'
    BY <2>2 DEF InstallDir, IInv, PluginLoopTodo
  <2>7. SnapshotIsFound'
    BY <1>0, <2>1, <2>2 DEF IInv, SnapshotIsFound, TypeOK
  <2>8. NoDowngrade'
    <3> SUFFICES ASSUME faults' = 0, NEW p \in Packages, found[p] \in Versions
                 PROVE  installed'[p] \in Versions /\ installed'[p] >= found[p]
      BY <1>0, <2>2 DEF NoDowngrade
    <3>1. dryRunOk /\ installOk /\ faults = 0
      BY <2>1 DEF IInv, TypeOK
    <3>2. packagesInstalled = found
      BY <3>1, <2>2 DEF IInv, SnapshotIsFound
    <3>3. installed[p] \in Versions /\ installed[p] >= found[p]
      BY <3>1, <2>2 DEF IInv, NoDowngrade
    <3>4. ~CompareRaises(d, packagesInstalled) /\ NeedsInstall(d, packagesInstalled)
      BY <2>1, <3>1
    <3>5. installed' = [installed EXCEPT ![Pkg[d]] = Ver[d]]
      BY <2>1, <3>1 DEF RunInstall
    <3>6. CASE p = Pkg[d]
      <4>1. packagesInstalled[Pkg[d]] = found[p] /\ found[p] # Absent
        BY <3>2, <3>6 DEF Vals
      <4>2. Ver[d] \in Versions
        BY <3>4, <4>1 DEF CompareRaises
      <4>3. Ver[d] > found[p]
        BY <3>4, <4>1 DEF NeedsInstall
      <4>4. installed'[p] = Ver[d]
        BY <3>5, <3>6 DEF IInv, TypeOK
      <4>5. Ver[d] \in Nat /\ found[p] \in Nat
        BY <4>2, GateAssumption
      <4>. QED
        BY <4>2, <4>3, <4>4, <4>5
    <3>7. CASE p # Pkg[d]
      <4>1. installed'[p] = installed[p]
        BY <1>0, <3>5, <3>7 DEF IInv, TypeOK
      <4>. QED
        BY <3>3, <4>1
    <3>. QED
      BY <3>6, <3>7
  <2>. QED
    BY <2>5, <2>6, <2>7, <2>8 DEF IInv
<1>. QED
  BY <1>1, <1>2, <1>3

\* Every step of the program, or a restart, keeps IInv.
LEMMA IInvStep == IInv /\ [Next]_vars => IInv'
<1> SUFFICES ASSUME IInv, [Next]_vars PROVE IInv'
  OBVIOUS
<1>. USE GateAssumption
<1>0. GetInstalledPackages =>
        /\ packagesInstalled' \in [Packages -> Vals \cup {Absent}]
        /\ faults' \in 0..MaxFaults
        /\ faults' = 0 => faults = 0 /\ packagesInstalled' = installed
  BY DEF GetInstalledPackages, IInv, TypeOK, NoPackages
<1>1. CASE ListPackages
  <2>1. TypeOK'
    BY <1>0, <1>1 DEF ListPackages, IInv, TypeOK, Pcs, Dirs
  <2>2. SnapshotIsFound'
    BY <1>0, <1>1 DEF ListPackages, SnapshotIsFound
  <2>3. NoDowngrade'
    <3>1. found' = installed /\ installed' = installed
      BY <1>1 DEF ListPackages
    <3>2. \A p \in Packages : found'[p] \in Versions =>
              installed'[p] \in Versions /\ installed'[p] >= found'[p]
      <4> SUFFICES ASSUME NEW p \in Packages, found'[p] \in Versions
                   PROVE  installed'[p] \in Versions /\ installed'[p] >= found'[p]
        OBVIOUS
      <4>1. found'[p] \in Nat
        BY GateAssumption
      <4>. QED
        BY <3>1, <4>1
    <3>. QED
      BY <3>2 DEF NoDowngrade
  <2>. QED
    BY <1>1, <2>1, <2>2, <2>3 DEF ListPackages, IInv, PluginLoopTodo
<1>2. CASE \E d \in Dirs : InstallDir(d)
  BY <1>2, InstallDirStep
<1>3. CASE RequirementsDone
  BY <1>3 DEF RequirementsDone, IInv, TypeOK, SnapshotIsFound, PluginLoopTodo,
     NoDowngrade, Pcs, Dirs
<1>4. CASE Refresh
  <2>1. /\ packagesInstalled' \in [Packages -> Vals \cup {Absent}]
        /\ faults' \in 0..MaxFaults
        /\ faults' = 0 => faults = 0
    BY <1>0, <1>4 DEF Refresh, IInv, TypeOK
  <2>2. TypeOK'
    BY <1>4, <2>1 DEF Refresh, IInv, TypeOK, Pcs
  <2>3. NoDowngrade'
    BY <1>4, <2>1 DEF Refresh, IInv, NoDowngrade
  <2>. QED
    BY <1>4, <2>2, <2>3 DEF Refresh, IInv, SnapshotIsFound, PluginLoopTodo
<1>5. CASE Restart
  BY <1>5 DEF Restart, IInv, TypeOK, SnapshotIsFound, PluginLoopTodo,
     NoDowngrade, NoPackages, Pcs
<1>6. CASE UNCHANGED vars
  BY <1>6 DEF vars, IInv, TypeOK, SnapshotIsFound, PluginLoopTodo, NoDowngrade
<1>. QED
  BY <1>1, <1>2, <1>3, <1>4, <1>5, <1>6 DEF Next, Program

\* The gate of lines 136-141 never downgrades a package below the version
\* line 382 found while pip does not fail, for every set of packages,
\* directories and versions.
THEOREM NoDowngradeHolds == Spec => []NoDowngrade
<1>1. IInv => NoDowngrade
  BY DEF IInv
<1>. QED
  BY IInvInit, IInvStep, <1>1, PTL DEF Spec

\* Type correctness of the gate: the venv, the dicts and the loop state
\* keep their types, and installedOrUpdated (line 398) only ever holds
\* plugin directories.
THEOREM GateTypeCorrect == Spec => []TypeOK
<1>1. IInv => TypeOK
  BY DEF IInv
<1>. QED
  BY IInvInit, IInvStep, <1>1, PTL DEF Spec

=============================================================================
