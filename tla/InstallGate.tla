---------------------------- MODULE InstallGate ----------------------------
(***************************************************************************)
(* The Package Installer Gate of netbox_init.py: GetInstalledPackages      *)
(* (lines 71-93), InstallPackageDirIfNeeded (lines 96-166) and the two     *)
(* install loops of main() (lines 379-414).                                *)
(*                                                                         *)
(* Every package directory provides one package at one version.  pip's    *)
(* dry-run report for a local directory always lists that package, so the  *)
(* report is abstracted to <<Pkg[d], Ver[d]>>.  A version is a natural    *)
(* number, or BadVersion: a string that packaging.version.Version rejects  *)
(* with InvalidVersion.  The script may be restarted at any point (the     *)
(* container restarts, or the process is killed); the venv persists.       *)
(***************************************************************************)
EXTENDS Naturals, FiniteSets

CONSTANTS
    Packages,     \* package names
    ReqDirs,      \* subdirectories of <customPluginsDir>/requirements
    PluginDirs,   \* the other subdirectories of customPluginsDir
    Pkg,          \* Pkg[d]: the package that directory d provides
    Ver,          \* Ver[d]: its version
    Versions,     \* versions that Version() parses, ordered as naturals
    BadVersion,   \* a version string that Version() rejects
    Absent,       \* "not in the dict"
    MaxFaults     \* bound on failing pip calls

Dirs == ReqDirs \cup PluginDirs
Vals == Versions \cup {BadVersion}

ASSUME GateAssumption ==
    /\ Versions \subseteq Nat
    /\ BadVersion \notin Versions /\ Absent \notin Vals
    /\ ReqDirs \cap PluginDirs = {}
    /\ Pkg \in [Dirs -> Packages] /\ Ver \in [Dirs -> Vals]
    /\ MaxFaults \in Nat

VARIABLES
    installed,          \* the venv: package -> version, or Absent
    packagesInstalled,  \* main()'s dict of line 382 (and line 414)
    found,              \* the venv when line 382 listed it (history only)
    pc,                 \* position in main()
    todo,               \* directories the current loop has not reached
    installedOrUpdated, \* installedOrUpdatedPlugins (line 398)
    faults              \* failing pip calls so far

vars == <<installed, packagesInstalled, found, pc, todo,
          installedOrUpdated, faults>>

Pcs == {"list", "req", "plugin", "done", "crashed"}

NoPackages == [p \in Packages |-> Absent]

Init ==
    /\ installed \in [Packages -> Vals \cup {Absent}]
    /\ packagesInstalled = NoPackages
    /\ found = NoPackages
    /\ pc = "list"
    /\ todo = {}
    /\ installedOrUpdated = {}
    /\ faults = 0

(***************************************************************************)
(* GetInstalledPackages (lines 71-93): pip list, or {} when it fails.      *)
(***************************************************************************)
GetInstalledPackages ==
    \/ packagesInstalled' = installed /\ faults' = faults
    \/ /\ faults < MaxFaults
       /\ packagesInstalled' = NoPackages
       /\ faults' = faults + 1

\* Line 382, then the requirements loop of lines 385-390.
ListPackages ==
    /\ pc = "list"
    /\ GetInstalledPackages
    /\ found' = installed
    /\ pc' = "req"
    /\ todo' = ReqDirs
    /\ installedOrUpdated' = {}
    /\ UNCHANGED installed

(***************************************************************************)
(* The comparison of lines 136-141 against the dict `snap`.  Version() is  *)
(* only called when the package is already in the dict (the `or` of line  *)
(* 139 short-circuits), and raises on a version it cannot parse.           *)
(***************************************************************************)
CompareRaises(d, snap) ==
    /\ snap[Pkg[d]] # Absent
    /\ (Ver[d] \notin Versions \/ snap[Pkg[d]] \notin Versions)

\* Mutant: versions compared for inequality instead of precedence.
NeedsInstallNotEqual(d, snap) ==
    IF snap[Pkg[d]] = Absent THEN TRUE ELSE Ver[d] # snap[Pkg[d]]

\* Mutant: only a package that is not installed at all is installed.
NeedsInstallOnlyNew(d, snap) == snap[Pkg[d]] = Absent

NeedsInstall(d, snap) ==
    IF snap[Pkg[d]] = Absent THEN TRUE ELSE Ver[d] > snap[Pkg[d]]

(***************************************************************************)
(* One call of InstallPackageDirIfNeeded (lines 96-166) from the loop of   *)
(* lines 391-396 or 404-407; os.scandir gives the directories in any       *)
(* order.  A failed dry run (line 144) means "install"; InvalidVersion     *)
(* escapes main(), which has no enclosing try: the program ends.  pip      *)
(* rolls a failed install back.                                            *)
(***************************************************************************)
\* Mutant: requirement directories counted as installed plugins.
RunInstallAnyLoop(d) ==
    /\ installed' = [installed EXCEPT ![Pkg[d]] = Ver[d]]
    /\ installedOrUpdated' = installedOrUpdated \cup {d}
    /\ UNCHANGED pc

RunInstall(d) ==
    /\ installed' = [installed EXCEPT ![Pkg[d]] = Ver[d]]
    /\ installedOrUpdated' = IF pc = "plugin"
                             THEN installedOrUpdated \cup {d}
                             ELSE installedOrUpdated
    /\ UNCHANGED pc

InstallDir(d) ==
    /\ pc \in {"req", "plugin"}
    /\ d \in todo
    /\ todo' = todo \ {d}
    /\ \E dryRunOk \in BOOLEAN, installOk \in BOOLEAN :
        LET cost == (IF dryRunOk THEN 0 ELSE 1) + (IF installOk THEN 0 ELSE 1)
        IN
        \/ /\ dryRunOk /\ installOk
           /\ CompareRaises(d, packagesInstalled)
           /\ pc' = "crashed"
           /\ UNCHANGED <<installed, installedOrUpdated, faults>>
        \/ /\ dryRunOk /\ installOk
           /\ ~CompareRaises(d, packagesInstalled)
           /\ ~NeedsInstall(d, packagesInstalled)
           /\ UNCHANGED <<installed, installedOrUpdated, pc, faults>>
        \/ /\ \/ ~dryRunOk
              \/ ~CompareRaises(d, packagesInstalled)
                 /\ NeedsInstall(d, packagesInstalled)
           /\ faults + cost <= MaxFaults
           /\ faults' = faults + cost
           /\ IF installOk THEN RunInstall(d)
              ELSE UNCHANGED <<installed, installedOrUpdated, pc>>
    /\ UNCHANGED <<packagesInstalled, found>>

\* The requirements loop ends; the plugin loop of lines 398-407 begins.
RequirementsDone ==
    /\ pc = "req" /\ todo = {}
    /\ pc' = "plugin"
    /\ todo' = PluginDirs
    /\ UNCHANGED <<installed, packagesInstalled, found, installedOrUpdated,
                   faults>>

\* Lines 411-414: pip list again, only if a plugin directory was installed.
Refresh ==
    /\ pc = "plugin" /\ todo = {}
    /\ IF installedOrUpdated # {}
       THEN GetInstalledPackages
       ELSE UNCHANGED <<packagesInstalled, faults>>
    /\ pc' = "done"
    /\ UNCHANGED <<installed, found, todo, installedOrUpdated>>

\* The script starts again; only the venv survives.
Restart ==
    /\ pc' = "list"
    /\ packagesInstalled' = NoPackages
    /\ todo' = {}
    /\ installedOrUpdated' = {}
    /\ UNCHANGED <<installed, found, faults>>

Program ==
    \/ ListPackages
    \/ \E d \in Dirs : InstallDir(d)
    \/ RequirementsDone
    \/ Refresh

Next == Program \/ Restart

Spec == Init /\ [][Next]_vars

FairSpec == Spec /\ WF_vars(Program)

-----------------------------------------------------------------------------
TypeOK ==
    /\ installed \in [Packages -> Vals \cup {Absent}]
    /\ packagesInstalled \in [Packages -> Vals \cup {Absent}]
    /\ found \in [Packages -> Vals \cup {Absent}]
    /\ pc \in Pcs
    /\ todo \subseteq Dirs
    /\ installedOrUpdated \subseteq PluginDirs
    /\ faults \in 0..MaxFaults

(***************************************************************************)
(* The gate never downgrades a package below the version the run found:   *)
(* while pip does not fail, every install that lines 136-141 let through  *)
(* is newer than the version listed at line 382, although that list goes  *)
(* stale as the loops install (lines 391 and 405 reuse it).                *)
(***************************************************************************)
NoDowngrade ==
    (pc \in {"req", "plugin", "done"} /\ faults = 0) =>
        \A p \in Packages :
            found[p] \in Versions =>
                /\ installed[p] \in Versions
                /\ installed[p] >= found[p]

\* Every package is at the newest version some directory provides.
Newest ==
    \A d \in Dirs : installed[Pkg[d]] \in Versions /\ installed[Pkg[d]] >= Ver[d]

(***************************************************************************)
(* If the script keeps being started and runs keep completing, the venv   *)
(* ends up, and stays, at the newest version of every package: once pip   *)
(* stops failing, each completed run of the loops of lines 391 and 405    *)
(* leaves a package newer than it found it while a newer directory exists, *)
(* and the gate of line 140 never installs over the newest.                *)
(***************************************************************************)
ConvergesOverRestarts ==
    ([]<>(pc = "list") /\ []<>(pc = "done")) => <>[]Newest

(***************************************************************************)
(* Section 7 of the spec: no error in the plugin phase ends the program.   *)
(***************************************************************************)
PhaseNeverAborts == pc # "crashed"

=============================================================================
