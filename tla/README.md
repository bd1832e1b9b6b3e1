# Formal models of `netbox_init.py`

This directory holds TLA+ models of the NetBox bootstrap script
`src/netbox/scripts/netbox_init.py`, with TLC configurations and TLAPS proofs.
The script runs once per container start and does four things in order:

1. **Plugin phase** (lines 379-500): installs the packages under the custom
   plugin directory. The Install Gate compares pip's dry-run report with
   `pip list` (lines 71-166). The Plugin Registrar then scans the sources for
   `PluginConfig` classes and appends their names to `PLUGINS` in `plugins.py`.
2. **Restore Orchestrator** (lines 504-696): when a backup is found, it drains
   the NetBox services and drops, recreates and loads the database. It then
   fixes up prefix descriptions, truncates `users_user`, restarts the
   services, migrates, creates the superuser and restores media. One
   `except` at line 695 contains every failure.
3. **Resource Reconciler** (lines 700-920): runs only if no backup was loaded
   and none was named explicitly (gate of line 700). It waits for the API, then
   creates whatever is missing of six kinds, in dependency order: groups,
   permissions, manufacturers, roles, device types, sites. Last, it back-fills
   the descriptions of prefixes that reference a VRF.
4. **Initializers and device-type import** (lines 922-970): the second runs
   behind the same gate (line 951).

The phases share only the database and API of the NetBox instance, and
`preloadDatabaseSuccess`.

## Modules

| Module | Models | Source |
|---|---|---|
| `Reconciler` | the Resource Reconciler, with NetBox as environment | 39-44, 700-920 |
| `MC_Reconciler` | a small instance: 3 names, 2 slugs, 2 object types, 1 prefix | |
| `ReconcilerProofs` | TLAPS proof of type correctness | |
| `ReconcileAbstract` | what the reconciler promises NetBox, every step of main() hidden | spec 4.2 |
| `ReconcilerRefinement` | TLAPS proof that `Reconciler` implements `ReconcileAbstract` | |
| `ReconcilerSafety` | TLAPS proofs of `Converged` and `PermissionsDerived` | |
| `Restore` | the Restore Orchestrator and the gate of lines 700/951 | 504-700 |
| `MC_Restore` | 2 backups in the preload directory, 1 path outside it, 2 mtimes | |
| `RestoreAbstract` | what the restore block promises: restore the right backup, or fail loudly, or skip; then gate once | spec 4.1 |
| `RestoreProofs` | TLAPS proofs of the gating, failure-containment and fresh-load properties, of type correctness, and that `Restore` implements `RestoreAbstract` | |
| `InstallGate` | the Package Installer Gate: pip list, the two install loops, the version rule, restarts | 71-166, 379-414 |
| `InstallGateProofs` | TLAPS proofs of `NoDowngrade` and type correctness of the gate | |
| `MC_InstallGate` | 2 packages, 4 directories (an old and a new copy of one plugin, a shared requirement, an unparsable version) | |
| `PluginRegistrar` | the Plugin Discoverer & Registrar: the AST scan and the rewrite of `plugins.py` | 416-500 |
| `MC_PluginRegistrar` | 2 candidate files (one with a dotted base before a plugin), 3 starting `plugins.py` | |
| `RegistrarProofs` | TLAPS proofs of type correctness and of `DiscoveredRegistered` | |
| `Bootstrap` | main() over container starts: plugin phase, `Restore`, gate, reconciler wait, initializers, import | 375-975 |
| `MC_Bootstrap` | one backup, one other path, two starts | |
| `BootstrapProofs` | TLAPS proofs of type correctness and of `ReconcileGated` over restarts | |

### Reconciler

**State.** `pc`, `ki` and `idx` give the position in main(): which kind, and
which entry of that kind's creation list. `pre` is the `xxxPreExisting` names.
`local` is the per-kind dicts (`groups`, `manufacturers`, ...). `pending` holds
the prefixes the filter returned. `failed` records the kinds whose `except`
branch fired. NetBox is `remote`, a set of records with kind, name, slug, id,
references and object types, plus `nextId`, `prefixes` and `apiUp`.

**Actions.** Each action is one step of main():
- `WaitForApi`: the `while args.wait` loop.
- `FetchKind`: the pre-existing fetch.
- `SkipItem` and `CreateItem`: one entry of the filtered creation loop.
  `CreateItem` includes the `groups[x]` lookup and `min_hash_value_by_value`.
  A `RequestError` is logged and the loop goes on.
- `RefetchKind`: the re-fetch into the local dict.
- `AbortKind`: the kind's `except Exception`, entered on an outage, a
  `KeyError` in `groups[x]`, or a `TypeError` from sorting two manufacturers.
- `FetchPrefixes` and `UpdatePrefix`: the prefix back-fill.

**Environment.** The environment's actions are:
- `ApiDown` and `ApiUp`: outages, at most `MaxOutages`.
- `ExternalCreate`: another client creating records, at most `MaxExternal`.
- `Restart`: the container restarting the script. It may happen after main()
  ends or in the middle (the process is killed), at most `MaxRuns` runs.

NetBox accepts a create only if its unique constraints hold (`Accepts`):
- name and slug are unique for manufacturers, roles and sites;
- group names are unique;
- a device type is unique per manufacturer by model and by slug, and needs a
  manufacturer.

### Restore

`Init` chooses the starting file system:
- which paths exist, and their mtimes;
- the explicit `--preload-backup` path;
- whether the preload and media directories exist;
- which backups have a `.media.tar.gz` sibling.

There is one action per command of the restore block. Each `run_process`
outcome is a nondeterministic choice, restricted where the code forces it:
- `createdb` cannot succeed while the database still exists.
- The two psql commands that receive `{args.postgresUser}` (a set) can only
  fail or raise `TypeError`.

`Raise` is the `except` of line 695. `Gate` is the condition of lines 700/951.

### InstallGate

**State.** `installed` is the venv (package to version, `Absent`, or
`BadVersion`, a string `Version()` rejects). `packagesInstalled` is main()'s
dict of line 382; `found` is a history copy of the venv at that moment. `pc`
and `todo` give the loop and the directories it has not reached;
`installedOrUpdated` is the list of line 398; `faults` counts failing pip calls.

**Actions.** `ListPackages` is line 382 with `GetInstalledPackages` (pip list,
or `{}` when it fails). `InstallDir(d)` is one call of
`InstallPackageDirIfNeeded`, in any (os.scandir) order: a failed dry run means
install; otherwise `CompareRaises` (InvalidVersion, which no try encloses,
ends the program) or `NeedsInstall` (absent, or strictly newer) decide; the
install succeeds or is rolled back. `RequirementsDone` starts the plugin loop;
`Refresh` is lines 411-414. `Restart` restarts the script at any point; only
the venv survives. The dry-run report is abstracted to the directory's own
package and version.

### PluginRegistrar

A candidate `__init__.py` is its sequence of top-level classes, each a set of
base kinds (`PluginConfig`, `Other`, or `Dotted`, an `ast.Attribute`) and a
constant `name`. `plugins.py` is a sequence of statements: a `PLUGINS` list, a
`PLUGINS` bound to another expression, or an unrelated statement, plus a flag
for comments. `Discover` is lines 417-458: rg succeeds or fails; `Reached`
stops at the first dotted base (the `AttributeError` of line 440 leaves the
file through the except of line 452). `Rewrite` is lines 459-496:
`VisitAssign` appends the missing names to each `PLUGINS` list, and because
line 469 sets a module-level global, `pluginsListFound` is always False and a
new `PLUGINS` assignment is appended; the comments are lost. `Truncate` and
`WriteBack` are lines 499 and 500, separate so that a kill can fall between
them. `Restart` starts the script again, at most `MaxRuns` runs.

### Bootstrap

`Bootstrap` extends `Restore` and adds `phase`, `edited` and `starts`. The
plugin phase is summarised by its outcome (it returns, or InvalidVersion ends
the program: `InstallGate` models why). `RestoreStep` is a step of `Restore`;
`RestoreDone` is the gate of line 700. The reconciler is summarised by its wait
loop: `Reconcile` passes it while the services run, `WaitForever` is the loop
retrying forever when they are stopped (`Reconciler` models the rest).
`Initializers` and `Import` are lines 922-970. `Edit` is users changing the
restored database; `Restart` starts the container again, with the file
system, the database and its schema persisting and supervisord running every
service.

## Runs

| Run | Expect | What it shows |
|---|---|---|
| `reconciler_safety` | pass | `TypeOK`; `Converged` (every name of every kind whose try block completed exists, or NetBox rejected it for a slug conflict or a missing manufacturer; prefixes are back-filled); `ImplementsAbstract` (every step is a step of `ReconcileAbstract`: no run creates a name NetBox holds or one that is not desired, nothing is deleted, only empty descriptions of prefixes with a VRF are filled); `PermissionsDerived` (each permission the script created grants exactly its group's id and all object types but its exclude list); `Terminates` (if the API is eventually up for good, each run reaches its end). |
| `reconciler_outage` | violation | `ConvergedDespiteOutage`: one outage after the wait loop aborts kinds that this run never retries. |
| `restore_safety` | pass | `TypeOK`; `GatingMatchesDatabase` (the reconciler runs exactly when no backup was named and the database holds no loaded backup); `DatabaseLostOnlyLoudly` (a dropped or partly loaded database is always reported through the except branch); `LoadsIntoFreshDatabase` (action property: a step that puts a dump into the database starts from the empty database createdb made, although a failing dropdb is only logged); `ImplementsRestoreAbstract` (every step is a step of `RestoreAbstract` or a stutter: the database becomes only the existing explicit file or a backup of an existing preload directory, a failure leaves the old, a dropped, an empty or a partial database, the block is skipped only when there is nothing to restore, the gate decides once). |
| `restore_newest` | violation | `SelectsNewest`: the code restores the *oldest* candidate (line 514). |
| `gate_safety` | pass | `TypeOK`; `NoDowngrade`: in a run in which pip does not fail, no package ends below the version line 382 found, although that list goes stale; `ConvergesOverRestarts`: if starts and completed runs recur, every package ends at, and stays at, the newest version a directory provides, despite a pip failure. |
| `gate_crash` | violation | `PhaseNeverAborts`: a version `Version()` rejects ends the program at line 140. |
| `registrar_safety` | pass | `TypeOK`; `DiscoveredRegistered`: over three runs killed anywhere, each run that wrote `plugins.py` back registered every plugin it found. |
| `registrar_additive` | violation | `RegistrationAdditive`: the `PLUGINS` appended because of the global of line 469 overrides the existing list and drops a hand-registered plugin the scan cannot see. |
| `registrar_truncate` | violation | `UnrelatedKept`: a kill between lines 499 and 500 empties `plugins.py`; the next run writes back only `PLUGINS`. |
| `bootstrap_safety` | pass | `BTypeOK`; `StartEnds`: every start the plugin phase does not end reaches the end of main(), except when the restore left the services stopped and the reconciler waits forever; `ReconcileGated`: over restarts, the reconciler phase is only entered in a start that named no backup and loaded none. |
| `bootstrap_edits` | violation | `EditsKept`: the backup is never consumed, so the next start drops the database users edited and loads the backup again. |
| `restore_api` | violation | `ReconcilerHasApi`: a failed createdb or load without an explicit file falls through to the reconciler with the services still drained. The wait loop of line 720 then never ends. |

**Bounds.** The reconciler instance makes the interesting cases happen:
- names `a` and `c` share a slug, so a create can be rejected by slug;
- the staff and default groups differ;
- one seeded permission already exists;
- one outage, one concurrent manufacturer, and two runs of the script.

With these bounds every action and disjunct fires, including a rejected
create, a `KeyError` abort, a crash mid-pass and a clean rerun. The run takes
about a minute. The restore instance enumerates every starting file system of
three paths and every command outcome.

The install-gate instance has package `p` in two plugin directories (versions
1 and 2, so scandir order matters) and package `q` both as a requirement and a
plugin; in `gate_crash` the plugin directory of `q` carries a version
`Version()` rejects. Every starting venv is enumerated, an unparsable
installed version included, with one pip failure. The registrar instance has
one plain plugin file and one whose plugin class follows a class with a dotted
base, and starting files with a `PLUGINS` list holding the hidden plugin, with
none, and with `PLUGINS` bound to another expression. The bootstrap instance
runs two container starts over every restore outcome (48 388 states).

**Fairness.** `FairSpec` assumes weak fairness of main()'s own steps only.
The script is a single thread that makes blocking calls, so it keeps stepping
whenever it can. Restarts and the environment get no fairness: nothing obliges
the container to restart the script, or NetBox to come back. `Terminates` is
therefore conditional on `<>[]apiUp`.
Likewise `InstallGate!FairSpec` and `Bootstrap!FairBSpec` are weakly fair on
main()'s steps only (`Program`, `Main`). `ConvergesOverRestarts` is
conditional on starts and completed runs recurring, since nothing obliges the
container to restart; `StartEnds` needs no such hypothesis.

## Proofs

`ReconcilerProofs` proves `THEOREM TypeCorrect == Spec => []TypeOK` for every
value of the constants that satisfies `ConstantsAssumption`.

`TypeOK` alone is not inductive: `UpdatePrefix` writes `str(prefix.vrf)` into
the description, and that is a VRF name only because the filter of line 911
keeps prefixes with a VRF. The proof therefore uses
`TypeInv == TypeOK /\ PendingHaveVrf`, which is inductive, and has one step
per action. The lemmas it rests on are:
- `DesiredType`: every creation list is a list of names;
- `KindsType`;
- `NewRecordType`;
- `CreateFieldsType`;
- `NextKindType`: leaving a kind lands on a valid index.

`RestoreProofs` proves four theorems for every set of paths, backups and
mtimes that satisfies `RestoreAssumption`:
- `GatingCorrect == Spec => []GatingMatchesDatabase`;
- `LostOnlyLoudly == Spec => []DatabaseLostOnlyLoudly`;
- `RestoreTypeCorrect == Spec => []TypeOK`;
- `LoadsIntoFreshHolds == Spec => LoadsIntoFreshDatabase`, the action
  property `[][FreshLoad]_vars`. The lemma `OnlyLoadFillsDb` shows that only
  the load step can put a dump into the database, and `DbTracksPc` says the
  database is empty at the load.

All four follow from `RestoreInductive == Spec => []IInv`. Here
`IInv == TypeOK /\ DbTracksPc`, and `DbTracksPc` ties the database to the
program point:
- the database is untouched before the drop;
- it is old or absent at `createdb`;
- it is empty at grant and load;
- it holds a backup exactly when `preloadDatabaseSuccess` is set;
- a dropped, empty or partial database is left behind only with `raised` set,
  and then main() is at the gate or past it;
- inside the block, the chosen file exists.

Neither property is inductive without these conjuncts: a step from an
unreachable state (say, a load reached with the old database still there)
could break either one. `IInv` was checked with TLC on the `restore_safety`
instance before it was proved. The proof has one case per action. An action
with an error branch gets one sub-case per branch.

### Refinement

`ReconcileAbstract` is the reconciler's promise (section 4.2 and the
glossary: "creating only what is missing"). NetBox is a set of entries, each
a kind, a name and an id, so that a second entry of one name is visible, plus
the prefixes. Its steps are `Create(k, n)`: a desired name the kind does not
hold gets one new entry; `CreateExternal`, for another client's kinds; and
`Backfill(p)`: the empty description of a prefix with a VRF becomes the VRF's
name. `Reconciler` maps onto it with `made <- Entries` (kind, name and id of
every record), `Wanted <- DesiredSet`, the prefixes unchanged; every step of
main(), restarts and the environment is an abstract step or a stutter. The
`reconciler_safety` run checks `ImplementsAbstract == Abs!ASpec`, and
`ReconcilerRefinement` proves `THEOREM Refinement == Spec => ImplementsAbstract`
for every value of the constants.

For groups, manufacturers, roles and sites NetBox's unique name rejects a
second create. A permission has no unique name, and a device type's name is
unique only per manufacturer: only main()'s own filter keeps it from
creating one twice. The proof therefore needs the invariant
`RInv == PendingEmpty /\ IdsFresh /\ CreatedTracked`, checked with TLC first:
- `PendingEmpty`: a prefix still to update has an empty description;
- `IdsFresh`: every record's id is below `nextId`, so a create adds a new entry;
- `CreatedTracked`: during the loop of a permission or device-type kind, every
  record of the kind was in `xxxPreExisting` or was created by this loop from
  an earlier entry of the list (for a device type, under the manufacturer the
  loop gives every device type).
With it, `CreateIsMissing` shows that an accepted create adds a missing name:
an earlier entry of the same permission name is impossible because the keys
of `DEFAULT_PERMISSIONS` are distinct (`PermKeysDistinct`), and an earlier
device type of the same model under the same manufacturer would make NetBox
reject the create. `StepRefines` has one case per action that touches NetBox.
`TypeCorrect` now rests on `TypeInvariant == Spec => []TypeInv`, which the
refinement proof reuses.

#### Restore

`RestoreAbstract` is section 4.1's promise, every intermediate step of the
block hidden. Its state is the file system, the database, an `outcome`
(`pending`, `restored`, `failed`, `skipped`), and the gate's `gated` and
`reconcile`. `Eligible` is the backup to restore: the explicit file if it
exists, otherwise the backups of an existing preload directory. Its steps:
- `Restored(f)`: the database becomes an eligible `f`;
- `Failed`: with a file to restore, the database is left old, dropped,
  empty or partial;
- `Skipped`: only when nothing is eligible, the database untouched;
- `Decide`: once, the gate runs the reconciler exactly when nothing was
  restored and no file was named.

`Restore` maps onto it with `AbsDb` (the database is hidden as `"old"`
until the block loads, raises or is skipped) and `AbsOutcome` (from
`success`, `raised` and the program point); `gated` is `pc = "done"`.
The `restore_safety` run checks `ImplementsRestoreAbstract`, and a mutant
that searches the preload directory before the explicit file breaks it and
nothing else. `RestoreProofs` proves
`THEOREM RestoreRefinement == Spec => ImplementsRestoreAbstract`.

`IInv` is not enough: a load step must load an eligible file, and a step
after the load must not look like a skip. The proof therefore adds
`SelectionSound`, checked with TLC first:
- inside the block, `file` is eligible;
- at every point after the load, `preloadDatabaseSuccess` is set;
- at the gate without a load or a raise, nothing is eligible.
`SelectPicksEligible` goes through the four branches of lines 506-514
(`NoFile` is no path, and the oldest candidate is a candidate).
`SelectionHolds` proves `[](IInv /\ SelectionSound)`. `StepRefines` has one
case per action, and one sub-case per branch of an action that can raise.

### Registrar

`RegistrarProofs` proves, for every finite set of candidate files and every
starting `plugins.py` that satisfies `RegistrarAssumption`:
- `RegistrarTypeCorrect == Spec => []TypeOK`;
- `DiscoveredRegisteredHolds == Spec => []DiscoveredRegistered`.

Both follow from `RInv == TypeOK /\ IsFiniteSet(pluginNames) /\
ModifiedRegisters /\ DiscoveredRegistered`, checked with TLC first on
`MC_PluginRegistrar` and on a variant where both plugins are discovered.
`DiscoveredRegistered` alone is not inductive: at `Truncate` the file is
empty, and only `ModifiedRegisters` (the tree built at line 496 lists every
discovered name) carries the names to `WriteBack`. The names must be a
finite set for `SetToSeq` (line 456, `list(set(...))`) to list them.
`FoundInFinite` and `DiscoveredFinite` get that from `FS_Surjection` and
`FS_UNION`. The lemmas about the operators are:
- `SetToSeqLists`: `SetToSeq(S)` is a sequence over `S` that holds exactly `S`;
- `RegisteredAppend`: the `PLUGINS` assignment appended at lines 480-494
  registers exactly its names, whatever precedes it.

`RegistrarAssumption` gained two conjuncts, both facts of the code:
- the candidate files are finite, since rg lists a directory tree;
- every starting `plugins.py` is a sequence of statements, which is what
  `ast.parse` (line 462) returns.

### Install gate

`InstallGateProofs` proves, for every set of packages, directories and
versions that satisfies `GateAssumption`:
- `NoDowngradeHolds == Spec => []NoDowngrade`;
- `GateTypeCorrect == Spec => []TypeOK`.

Both follow from `IInv == TypeOK /\ SnapshotIsFound /\ PluginLoopTodo /\
NoDowngrade`, proved inductive by `IInvInit` and `IInvStep` and checked with
TLC first on both version maps of `MC_InstallGate`:
- `SnapshotIsFound`: inside the loops, with no failed pip call, the dict the
  gate compares against is what line 382 found; it is replaced only at line
  414, after both loops. `NoDowngrade` alone is not inductive, because the
  gate compares with `packagesInstalled` while `NoDowngrade` speaks of `found`.
- `PluginLoopTodo`: the loop of line 404 visits only plugin directories, so
  `installedOrUpdated` stays within them.
The install step (`InstallDirStep`) has one case per outcome of the call:
InvalidVersion, "up to date", and an install attempt. In the last case, with
no fault, the dry run succeeded, `Version()` parsed both versions and the
directory's version is strictly newer than the one found, even when an
earlier directory of the same loop already installed that package.

### Reconciler safety

`ReconcilerSafety` proves, for every value of the constants:
- `PermissionsDerivedHolds == Spec => []PermissionsDerived`;
- `ConvergedHolds == Spec => []Converged`.

Both build on `TypeInvariant`. Each inductive invariant was checked with TLC
first, on `MC_Reconciler` and on a variant where the other client also
creates groups.

`PermissionsDerived` needs `PInv`, with three more conjuncts:
- `LocalFromRemote`: each local dict holds only records NetBox has. It is a
  snapshot of NetBox, and NetBox never deletes.
- `GroupNamesUnique`: NetBox rejects a second group of a name. So the group
  a permission's ids came from is the only group of that name.
- `PermsGrounded`: every permission the script created names an existing
  group.

`ConvergedHolds` needs `CInv`:
- `PassesDone`: a kind whose pass finished and did not fail has every
  desired name present or blocked (`Covered`). A name stays covered, since
  NetBox only grows (`CoveredMono`).
- `LoopCovered`: inside a kind's loop, `xxxPreExisting` and every earlier
  entry are covered.
- `PrefixesCovered`: the prefix back-fill.

A rejected create is covered because of the rejection's cause
(`RejectedCovered`). A rejected device type needs a non-empty manufacturer
dict to have a minimum id. `MinIdsNonEmpty` gets that minimum from
`WFMin` and `NatLessThanWellFounded` of `WellFoundedInduction`.

`ConstantsAssumption` now states that `Seed` records, the ones in NetBox
before the first run, are labelled `by = "seed"`. The `by` field is the
model's ghost record of who created a record. So `PermissionsDerived`, which
speaks of permissions the script created, says nothing of seeded ones.

### Bootstrap

`BootstrapProofs` proves, for every bound on starts that satisfies
`BootstrapAssumption`:
- `BootstrapTypeCorrect == BSpec => []BTypeOK`;
- `ReconcileGatedHolds == BSpec => []ReconcileGated`.

`DbTracksPc` does not survive a restart. The database persists while the
script's variables start afresh, so a restarted start sits at `"select"`
with a database in any state. The invariant is therefore
`BInv == BTypeOK /\ FileChosen /\ GateRecorded /\ ReconcileFromGate`, checked
with TLC first:
- `FileChosen`: the block runs on an existing file.
- `GateRecorded`: once past line 700, `reconcile` still matches this start's
  `success` and explicit path.
- `ReconcileFromGate`: the reconciler phase is entered only from that gate.

`RestoreBlockStep` shows that each step of the restore block keeps the first
two. The gate step is the only one that reaches `"done"`.

The following stay with TLC:
- **Liveness** (`Terminates`, `ConvergesOverRestarts`, `StartEnds`) and
  anything using ENABLED: the prover does not handle these.

## Not modelled yet, and the plan

Next steps, in order:
1. Compose `Reconciler` itself into `Bootstrap`, in place of the wait-loop
   summary, once the state space allows it.

**Not modelled at all.**
- Argument parsing and logging (lines 170-378) hold no state that the
  properties tell apart.
- A pynetbox call that hangs forever (line 702 sets no timeout): in the model,
  every call answers or raises.
- Whether `run_process` (outside `src/`) flattens the nested list of line 426:
  the registrar lets rg succeed or fail and leaves out a TypeError escaping
  main().
- Which files rg lists (lines 420-428), from the locations of the refreshed
  pip list: the model takes them as a constant.
- A partially written file or a parse error of `plugins.py`.

**Modelled, not checked.** Three behaviours the models contain have no run
of their own, to keep one run per question:
- within one run, the second of two directories of the same package is
  compared with the stale list of line 382, so scandir order can install an
  older copy over the newer one installed a moment before (section 4.4 says
  both "compare against the currently-installed map" and "one directory's
  decision never affects another's"); `NoDowngrade` bounds the damage to
  the version the run found, `ConvergesOverRestarts` shows later runs repair it;
- `ast.unparse` (line 496) drops the comments of `plugins.py`;
- the two psql commands of lines 601 and 615 receive a set (section 9 of
  the spec leaves open what they should receive); the restore model lets
  them only fail or raise.
