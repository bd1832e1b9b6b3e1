------------------------------ MODULE Restore ------------------------------
(***************************************************************************)
(* The Restore Orchestrator of netbox_init.py (main(), lines 504-700 and   *)
(* the gate of line 951): choose a backup file, then drain the NetBox      *)
(* services, drop and recreate the database, load the dump, fix up the     *)
(* prefix descriptions, truncate users_user, start the services again,    *)
(* run pending migrations, create the superuser and restore the media     *)
(* archive; an exception anywhere in that block is caught once, at line   *)
(* 695, and the rest of the block is skipped.  Every external command is  *)
(* malcolm_utils.run_process: its status is a nondeterministic outcome.    *)
(*                                                                         *)
(* The file system the run starts with is chosen by Init and never        *)
(* changes: which paths exist, their mtimes, the explicit backup path,    *)
(* whether the preload and media directories exist, which backups have a  *)
(* sibling .media.tar.gz.                                                 *)
(***************************************************************************)
EXTENDS Naturals, Sequences

CONSTANTS
    Paths,      \* file paths the run may name
    Backups,    \* the paths glob(preloadDir/*.gz) returns, media archives excluded
    NoFile,     \* the empty path ''
    MTimes      \* the modification times a file may have

\* The management commands run, in order, when `migrate --check` fails
\* (lines 643-664).
Ops == <<"migrate", "trace_paths", "remove_stale_contenttypes", "clearsessions", "reindex">>

\* What the database holds: its contents before the run, nothing, an empty
\* database, a partly loaded dump, or the dump of a backup file.
DbStates == {"old", "absent", "empty", "partial"} \cup Paths

Pcs == {"select", "stop", "drop", "create", "grant", "load", "vrf", "truncate",
        "start", "check", "ops", "superuser", "media", "gate", "done"}

ASSUME RestoreAssumption ==
    /\ Backups \subseteq Paths
    /\ NoFile \notin Paths
    /\ Paths \cap {"old", "absent", "empty", "partial"} = {}
    /\ MTimes \subseteq Nat /\ MTimes # {}

VARIABLES
    present,    \* the paths that are files
    mtime,      \* os.path.getmtime of each backup
    explicit,   \* args.preloadBackupFile (NoFile when not given)
    dirExists,  \* os.path.isdir(args.preloadDir)
    media,      \* the backups whose sibling .media.tar.gz is a file
    mediaDir,   \* os.path.isdir(mediaPath)
    pc,         \* where main() is
    file,       \* preloadDatabaseFile
    svc,        \* the netbox:* services other than initialization
    db,         \* the NetBox database
    schema,     \* whether the database schema matches the installed NetBox
    success,    \* preloadDatabaseSuccess
    vrfMigrated,    \* the ipam_prefix UPDATE of line 603 took effect
    usersTruncated, \* TRUNCATE users_user of line 617 took effect
    opIdx,      \* index in Ops of the next management command
    superuser,  \* the superuser was created (line 679)
    mediaState, \* "none", "cleared" (empty folders removed) or "restored"
    raised,     \* the except branch of line 695 fired
    reconcile   \* the gate of line 700 chose to run the reconciler

fs == <<present, mtime, explicit, dirExists, media, mediaDir>>

vars == <<fs, pc, file, svc, db, schema, success, vrfMigrated, usersTruncated,
          opIdx, superuser, mediaState, raised, reconcile>>

-----------------------------------------------------------------------------

Init ==
    /\ present \in SUBSET Paths
    /\ mtime \in [Backups -> MTimes]
    /\ explicit \in Paths \cup {NoFile}
    /\ dirExists \in BOOLEAN
    /\ media \in SUBSET present
    /\ mediaDir \in BOOLEAN
    /\ pc = "select"
    /\ file = NoFile
    /\ svc = "running"
    /\ db = "old"
    /\ schema = "current"
    /\ success = FALSE
    /\ vrfMigrated = FALSE
    /\ usersTruncated = FALSE
    /\ opIdx = 1
    /\ superuser = FALSE
    /\ mediaState = "none"
    /\ raised = FALSE
    /\ reconcile = FALSE

\* The candidates of lines 509-513, and the one next(iter(...)) takes after
\* sorting by ascending mtime: one of the oldest (sorted() is stable, so
\* glob order breaks ties; glob order is arbitrary).
Candidates == Backups \cap present

Oldest(S) == {f \in S : \A g \in S : mtime[f] <= mtime[g]}

\* Mutant: the preload directory is searched before the explicit file.
SelectBackupDirFirst ==
    /\ pc = "select"
    /\ \/ /\ dirExists /\ Candidates # {}
          /\ file' \in Oldest(Candidates)
       \/ /\ ~(dirExists /\ Candidates # {})
          /\ file' = explicit
    /\ pc' = IF file' \in present THEN "stop" ELSE "gate"
    /\ UNCHANGED <<fs, svc, db, schema, success, vrfMigrated, usersTruncated,
                   opIdx, superuser, mediaState, raised, reconcile>>

\* Lines 506-514.  os.path.isfile('') is false.
SelectBackup ==
    /\ pc = "select"
    /\ \/ /\ explicit \in present
          /\ file' = explicit
       \/ /\ explicit \notin present /\ ~dirExists
          /\ file' = explicit
       \/ /\ explicit \notin present /\ dirExists /\ Candidates = {}
          /\ file' = NoFile
       \/ /\ explicit \notin present /\ dirExists
          /\ file' \in Oldest(Candidates)
    /\ pc' = IF file' \in present THEN "stop" ELSE "gate"
    /\ UNCHANGED <<fs, svc, db, schema, success, vrfMigrated, usersTruncated,
                   opIdx, superuser, mediaState, raised, reconcile>>

\* The except branch of line 695: the rest of the restore block is skipped.
Raise ==
    /\ pc' = "gate"
    /\ raised' = TRUE

\* A step of the block that moves from `from` to `to`, changing only what
\* it names besides pc.
Goto(from, to) == pc = from /\ pc' = to

\* supervisorctl stop of every netbox:* but initialization (lines 524-532):
\* a failing pipeline may have stopped some of them.
StopServices ==
    /\ Goto("stop", "drop")
    /\ svc' \in {"stopped", svc}
    /\ UNCHANGED <<fs, file, db, schema, success, vrfMigrated, usersTruncated,
                   opIdx, superuser, mediaState, raised, reconcile>>

\* dropdb -f (lines 534-546): a failure is only logged.
DropDb ==
    /\ Goto("drop", "create")
    /\ db' \in {"absent", db}
    /\ UNCHANGED <<fs, file, svc, schema, success, vrfMigrated, usersTruncated,
                   opIdx, superuser, mediaState, raised, reconcile>>

\* Mutant: a failing createdb is only logged, like dropdb.
CreateDbNoRaise ==
    /\ pc = "create"
    /\ \/ db = "absent" /\ db' = "empty" /\ pc' = "grant" /\ UNCHANGED raised
       \/ pc' = "grant" /\ UNCHANGED <<db, raised>>
    /\ UNCHANGED <<fs, file, svc, schema, success, vrfMigrated, usersTruncated,
                   opIdx, superuser, mediaState, reconcile>>

\* createdb (lines 548-559): it fails while the database still exists, and
\* a failure raises.
CreateDb ==
    /\ pc = "create"
    /\ \/ db = "absent" /\ db' = "empty" /\ pc' = "grant" /\ UNCHANGED raised
       \/ Raise /\ UNCHANGED db
    /\ UNCHANGED <<fs, file, svc, schema, success, vrfMigrated, usersTruncated,
                   opIdx, superuser, mediaState, reconcile>>

\* GRANT ALL PRIVILEGES (lines 561-573): a failure is only logged, and
\* privileges are not modelled.
Grant ==
    /\ Goto("grant", "load")
    /\ UNCHANGED <<fs, file, svc, db, schema, success, vrfMigrated,
                   usersTruncated, opIdx, superuser, mediaState, raised,
                   reconcile>>

\* Mutant: a failed load is logged and the block goes on.
LoadBackupNoRaise ==
    /\ pc = "load"
    /\ \/ db' = file /\ success' = TRUE /\ schema' \in {"current", "stale"}
       \/ db' \in {db, "partial"} /\ UNCHANGED <<success, schema>>
    /\ pc' = "vrf"
    /\ UNCHANGED <<fs, file, svc, vrfMigrated, usersTruncated, opIdx,
                   superuser, mediaState, raised, reconcile>>

\* psql < dump (lines 575-592): success only with status 0 and output;
\* otherwise, or if opening the file fails, it raises.  The dump may come
\* from an older NetBox, whose schema then needs migrating.
LoadBackup ==
    /\ pc = "load"
    /\ \/ /\ db' = file /\ success' = TRUE /\ schema' \in {"current", "stale"}
          /\ pc' = "vrf" /\ UNCHANGED raised
       \/ /\ db' \in {db, "partial"} /\ Raise
          /\ UNCHANGED <<success, schema>>
    /\ UNCHANGED <<fs, file, svc, vrfMigrated, usersTruncated, opIdx,
                   superuser, mediaState, reconcile>>

\* The psql commands of lines 594-621 pass {args.postgresUser}, a set, as
\* an argument: Popen raises TypeError, or at best psql runs with a user
\* name it does not know and fails.  Neither command can take effect.
SetArgCommand(from, to) ==
    /\ pc = from
    /\ \/ pc' = to /\ UNCHANGED raised
       \/ Raise
    /\ UNCHANGED <<fs, file, svc, db, schema, success, vrfMigrated,
                   usersTruncated, opIdx, superuser, mediaState, reconcile>>

MigrateVrf == SetArgCommand("vrf", "truncate")

TruncateUsers == SetArgCommand("truncate", "start")

\* supervisorctl start of the drained services (lines 623-631): a failing
\* pipeline may have left some of them stopped.
StartServices ==
    /\ Goto("start", "check")
    /\ svc' \in {"running", svc}
    /\ UNCHANGED <<fs, file, db, schema, success, vrfMigrated, usersTruncated,
                   opIdx, superuser, mediaState, raised, reconcile>>

\* Mutant: the management commands are indexed from 0.
CheckMigrationsFromZero ==
    /\ pc = "check"
    /\ \/ Raise /\ UNCHANGED opIdx
       \/ pc' = "ops" /\ opIdx' = 0 /\ UNCHANGED raised
       \/ schema = "current" /\ pc' = "superuser" /\ UNCHANGED <<raised, opIdx>>
    /\ UNCHANGED <<fs, file, svc, db, schema, success, vrfMigrated,
                   usersTruncated, superuser, mediaState, reconcile>>

\* pushd(dirname(manageScript)) (it raises if the directory is missing),
\* then manage.py migrate --check (lines 633-642): a non-zero status, which
\* pending migrations give and any other failure may give, runs Ops.
CheckMigrations ==
    /\ pc = "check"
    /\ \/ Raise /\ UNCHANGED opIdx
       \/ pc' = "ops" /\ opIdx' = 1 /\ UNCHANGED raised
       \/ schema = "current" /\ pc' = "superuser" /\ UNCHANGED <<raised, opIdx>>
    /\ UNCHANGED <<fs, file, svc, db, schema, success, vrfMigrated,
                   usersTruncated, superuser, mediaState, reconcile>>

\* One management command of the loop (lines 643-668): a failure is only
\* logged; a successful `migrate` brings the schema up to date.
RunOp ==
    /\ pc = "ops"
    /\ opIdx <= Len(Ops)
    /\ \/ Ops[opIdx] = "migrate" /\ schema' = "current"
       \/ UNCHANGED schema
    /\ opIdx' = opIdx + 1
    /\ UNCHANGED <<fs, pc, file, svc, db, success, vrfMigrated, usersTruncated,
                   superuser, mediaState, raised, reconcile>>

OpsDone ==
    /\ pc = "ops"
    /\ opIdx > Len(Ops)
    /\ pc' = "superuser"
    /\ UNCHANGED <<fs, file, svc, db, schema, success, vrfMigrated,
                   usersTruncated, opIdx, superuser, mediaState, raised,
                   reconcile>>

\* manage.py shell < netbox_superuser_create.py (lines 670-681): opening
\* the script may raise; a failing command is only logged.
CreateSuperuser ==
    /\ pc = "superuser"
    /\ \/ Raise /\ UNCHANGED superuser
       \/ pc' = "media" /\ superuser' \in BOOLEAN /\ UNCHANGED raised
    /\ UNCHANGED <<fs, file, svc, db, schema, success, vrfMigrated,
                   usersTruncated, opIdx, mediaState, reconcile>>

\* Lines 683-693: only when the sibling archive and the media directory
\* exist, remove the empty folders, then extract; an error there is caught
\* by the inner except and the block ends normally.
RestoreMedia ==
    /\ Goto("media", "gate")
    /\ IF file \in media /\ mediaDir
       THEN mediaState' \in {"cleared", "restored"}
       ELSE UNCHANGED mediaState
    /\ UNCHANGED <<fs, file, svc, db, schema, success, vrfMigrated,
                   usersTruncated, opIdx, superuser, raised, reconcile>>

\* Mutant: the gate forgets the explicit backup flag.
GateNoExplicit ==
    /\ Goto("gate", "done")
    /\ reconcile' = ~success
    /\ UNCHANGED <<fs, file, svc, db, schema, success, vrfMigrated,
                   usersTruncated, opIdx, superuser, mediaState, raised>>

\* `if not preloadDatabaseSuccess and (not args.preloadBackupFile)` (lines
\* 700 and 951): run the reconciler and the device-type import.
Gate ==
    /\ Goto("gate", "done")
    /\ reconcile' = (~success /\ explicit = NoFile)
    /\ UNCHANGED <<fs, file, svc, db, schema, success, vrfMigrated,
                   usersTruncated, opIdx, superuser, mediaState, raised>>

Terminated ==
    /\ pc = "done"
    /\ UNCHANGED vars

Next ==
    \/ SelectBackup \/ StopServices \/ DropDb \/ CreateDb \/ Grant \/ LoadBackup
    \/ MigrateVrf \/ TruncateUsers \/ StartServices \/ CheckMigrations \/ RunOp
    \/ OpsDone \/ CreateSuperuser \/ RestoreMedia \/ Gate \/ Terminated

Spec == Init /\ [][Next]_vars

-----------------------------------------------------------------------------
(* Properties.                                                             *)

TypeOK ==
    /\ present \subseteq Paths
    /\ mtime \in [Backups -> MTimes]
    /\ explicit \in Paths \cup {NoFile}
    /\ dirExists \in BOOLEAN /\ mediaDir \in BOOLEAN
    /\ media \subseteq present
    /\ pc \in Pcs
    /\ file \in Paths \cup {NoFile}
    /\ svc \in {"running", "stopped"}
    /\ db \in DbStates
    /\ schema \in {"current", "stale"}
    /\ success \in BOOLEAN /\ vrfMigrated \in BOOLEAN /\ usersTruncated \in BOOLEAN
    /\ superuser \in BOOLEAN /\ raised \in BOOLEAN /\ reconcile \in BOOLEAN
    /\ opIdx \in 1..(Len(Ops) + 1)
    /\ mediaState \in {"none", "cleared", "restored"}

\* Restore gating (sections 4.1 and 8 of the spec): when main() has passed
\* the gate of line 700, the reconciler runs exactly when no backup was
\* asked for explicitly and the database does not hold a loaded backup; in
\* particular it never runs on top of a restored database, and a failed
\* restore without an explicit file always falls back to it.
GatingMatchesDatabase ==
    pc = "done" => (reconcile <=> (explicit = NoFile /\ db \notin Paths))

\* Failure containment (section 4.1): once the database has been dropped, the
\* run ends with a database that holds no backup only through the except
\* branch of line 695, never silently.
DatabaseLostOnlyLoudly ==
    pc = "done" /\ db \in {"absent", "empty", "partial"} => raised

\* The comment of line 504 and section 3 of the spec: when no existing
\* explicit file is given, the newest candidate backup is the one restored.
SelectsNewest ==
    pc # "select" /\ file \in Candidates /\ explicit \notin present =>
       \A g \in Candidates : mtime[file] >= mtime[g]

\* The control flow of section 2: when the restore fails without an explicit
\* backup file, the reconciler runs "against the live API"; its wait loop
\* (line 720) needs the netbox services the restore drained to be running.
ReconcilerHasApi ==
    pc = "done" /\ reconcile => svc = "running"


(***************************************************************************)
(* A dump is only ever loaded into the database createdb just made: the   *)
(* psql < dump of line 588 never writes over the contents NetBox had, nor *)
(* over a database dropdb failed to drop (line 545 only logs that), since *)
(* createdb then fails and line 559 raises.  Any step that puts a dump,   *)
(* whole or partial, into the database starts from the empty one.         *)
(***************************************************************************)
FreshLoad == (db' # db /\ db' \notin {"absent", "empty"}) => db = "empty"

LoadsIntoFreshDatabase == [][FreshLoad]_vars


-----------------------------------------------------------------------------
(* The restore block implements RestoreAbstract.                           *)

\* The database as RestoreAbstract sees it: the dropped, recreated and
\* granted database is hidden until the block has loaded a dump, raised,
\* or been skipped.
AbsDb == IF success \/ raised \/ pc \in {"gate", "done"} THEN db ELSE "old"

\* How the restore block ended, as far as it has.
AbsOutcome ==
    IF success THEN "restored"
    ELSE IF raised THEN "failed"
    ELSE IF pc \in {"gate", "done"} THEN "skipped"
    ELSE "pending"

AbsRestore == INSTANCE RestoreAbstract
                 WITH db <- AbsDb, outcome <- AbsOutcome, gated <- (pc = "done")

(***************************************************************************)
(* Reconstruct or fail loudly (section 4.1): every step of main() up to    *)
(* the gate is a step of RestoreAbstract or hides in the restore block.   *)
(* The file lines 506-514 pick is the existing explicit file, or else a   *)
(* backup of an existing preload directory, and the database becomes      *)
(* exactly that dump; the block is skipped only when there is no such     *)
(* file; a failure leaves the old, a dropped, an empty or a partly loaded *)
(* database and is never followed by a load; the later steps (prefix      *)
(* fix-ups, migrations, superuser, media) never change the outcome, and   *)
(* the gate of line 700 decides once, from that outcome.                  *)
(***************************************************************************)
ImplementsRestoreAbstract == AbsRestore!ASpec

=============================================================================
