----------------------------- MODULE Bootstrap -----------------------------
(***************************************************************************)
(* main() of netbox_init.py as a whole, over successive starts of the     *)
(* container: the plugin phase (lines 379-500), the restore block          *)
(* (lines 504-696, the Restore module itself), the reconciler behind the  *)
(* gate of line 700, the initializers (lines 922-948) and the device-type *)
(* import behind the gate of line 951.                                     *)
(*                                                                         *)
(* The plugin phase is summarised by its one effect on the rest: it       *)
(* returns, or InvalidVersion (line 140) ends the program (InstallGate    *)
(* models it).  The reconciler is summarised by its wait loop (line 720): *)
(* it gets past it only while the NetBox services run (Reconciler models  *)
(* the rest).  Between starts the file system and the database persist;   *)
(* supervisord starts every service again.                                 *)
(***************************************************************************)
EXTENDS Restore

CONSTANT MaxStarts   \* bound on starts of the container

ASSUME BootstrapAssumption == MaxStarts \in Nat \ {0}

VARIABLES
    phase,   \* which part of main() runs
    edited,  \* users changed the restored database after the script ended
    starts   \* starts of the container so far

bvars == <<vars, phase, edited, starts>>

Phases == {"plugins", "restore", "reconcile", "initializers", "import",
           "exited", "crashed"}

BInit ==
    /\ Init
    /\ phase = "plugins"
    /\ edited = FALSE
    /\ starts = 1

\* Lines 379-500: the plugin phase returns, or InvalidVersion escapes main().
PluginPhase ==
    /\ phase = "plugins"
    /\ phase' \in {"restore", "crashed"}
    /\ UNCHANGED <<vars, edited, starts>>

\* Lines 504-696: one step of the restore block.
RestoreStep ==
    /\ phase = "restore"
    /\ pc # "done"
    /\ Next
    /\ UNCHANGED <<phase, edited, starts>>

\* Line 700: the gate the restore block ended with.
RestoreDone ==
    /\ phase = "restore" /\ pc = "done"
    /\ phase' = IF reconcile THEN "reconcile" ELSE "initializers"
    /\ UNCHANGED <<vars, edited, starts>>

\* Lines 719-727: `while args.wait` ends only once the API answers, which
\* needs the NetBox services; lines 729-920 then reconcile.
Reconcile ==
    /\ phase = "reconcile"
    /\ svc = "running"
    /\ phase' = "initializers"
    /\ UNCHANGED <<vars, edited, starts>>

\* The same loop with the services stopped: it sleeps and retries forever.
WaitForever ==
    /\ phase = "reconcile"
    /\ svc = "stopped"
    /\ UNCHANGED bvars

\* Mutant: the initializers wait for the NetBox services.
InitializersWaitForApi ==
    /\ phase = "initializers"
    /\ IF svc = "running"
       THEN phase' = IF ~success /\ explicit = NoFile THEN "import" ELSE "exited"
       ELSE UNCHANGED phase
    /\ UNCHANGED <<vars, edited, starts>>

\* Lines 922-948: load_initializer_data, its failures logged; then the test
\* of line 951, the same as line 700.
Initializers ==
    /\ phase = "initializers"
    /\ phase' = IF ~success /\ explicit = NoFile THEN "import" ELSE "exited"
    /\ UNCHANGED <<vars, edited, starts>>

\* Lines 952-970: nb-dt-import.py, its failures logged.
Import ==
    /\ phase = "import"
    /\ phase' = "exited"
    /\ UNCHANGED <<vars, edited, starts>>

\* Users work in NetBox on the database the script restored.
Edit ==
    /\ phase = "exited"
    /\ db \in Paths
    /\ ~edited
    /\ edited' = TRUE
    /\ UNCHANGED <<vars, phase, starts>>

\* The container starts again; the script's own state starts afresh.
Restart ==
    /\ starts < MaxStarts
    /\ starts' = starts + 1
    /\ phase' = "plugins"
    /\ pc' = "select"
    /\ file' = NoFile
    /\ svc' = "running"
    /\ success' = FALSE
    /\ vrfMigrated' = FALSE
    /\ usersTruncated' = FALSE
    /\ opIdx' = 1
    /\ superuser' = FALSE
    /\ mediaState' = "none"
    /\ raised' = FALSE
    /\ reconcile' = FALSE
    /\ UNCHANGED <<fs, db, schema, edited>>

Ended ==
    /\ phase \in {"exited", "crashed"} /\ starts = MaxStarts
    /\ UNCHANGED bvars

Main ==
    \/ PluginPhase \/ RestoreStep \/ RestoreDone \/ Reconcile
    \/ Initializers \/ Import

BNext == Main \/ WaitForever \/ Edit \/ Restart \/ Ended

BSpec == BInit /\ [][BNext]_bvars

FairBSpec == BSpec /\ WF_bvars(Main)

-----------------------------------------------------------------------------
BTypeOK ==
    /\ TypeOK
    /\ phase \in Phases
    /\ edited \in BOOLEAN
    /\ starts \in 1..MaxStarts

(***************************************************************************)
(* Every start of the script that the plugin phase does not end reaches   *)
(* the end of main(), unless the restore block left the services stopped  *)
(* and the gate of line 700 sent main() into the wait loop of line 720.    *)
(***************************************************************************)
StartEnds ==
    (phase = "restore") ~>
        \/ phase = "exited"
        \/ phase = "reconcile" /\ svc = "stopped"
        \/ phase = "plugins"

(***************************************************************************)
(* Section 3 of the spec: a backup artifact is consumed at most once, so  *)
(* once users changed the restored database no later start of the        *)
(* script replaces it.                                                     *)
(***************************************************************************)
EditsKept == [][edited => db' = db]_bvars


(***************************************************************************)
(* The gates of lines 700 and 951 over container starts: the reconciler    *)
(* of lines 719-920 only ever runs in a start whose restore block loaded   *)
(* no backup and that was named no backup file, whatever earlier starts    *)
(* restored or left in the database.                                      *)
(***************************************************************************)
ReconcileGated == phase = "reconcile" => ~success /\ explicit = NoFile
=============================================================================
