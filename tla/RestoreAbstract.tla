-------------------------- MODULE RestoreAbstract --------------------------
(***************************************************************************)
(* What the Restore Orchestrator promises (section 4.1 of the spec and the *)
(* restore gating of section 6), with every intermediate step of the      *)
(* restore block hidden: given the backup the run is to restore, either   *)
(* the database becomes that backup, or the block fails loudly and leaves *)
(* the old database or a dropped, empty or partial one, or, when there is *)
(* no backup to restore, nothing happens.  Then the gate decides, once,    *)
(* whether the reconciler runs: only when nothing was restored and no     *)
(* backup file was named.                                                  *)
(***************************************************************************)
CONSTANTS
    Paths,     \* file paths
    Backups,   \* the backups of the preload directory
    NoFile     \* no explicit backup file

VARIABLES
    present,    \* the paths that are files
    explicit,   \* the backup file the caller named, or NoFile
    dirExists,  \* the preload directory exists
    db,         \* the database
    outcome,    \* "pending", "restored", "failed" or "skipped"
    gated,      \* the gate has decided
    reconcile   \* the gate's decision: run the reconciler

avars == <<present, explicit, dirExists, db, outcome, gated, reconcile>>

\* What a failed restore may leave: the old database, or a dropped, empty
\* or partly loaded one.
Leftovers == {"old", "absent", "empty", "partial"}

\* The backup to restore: the named file if it exists, otherwise one of
\* the backups of the preload directory, if that exists.
Eligible ==
    IF explicit \in present THEN {explicit}
    ELSE IF dirExists THEN Backups \cap present
    ELSE {}

AInit ==
    /\ present \subseteq Paths
    /\ explicit \in Paths \cup {NoFile}
    /\ dirExists \in BOOLEAN
    /\ db = "old"
    /\ outcome = "pending"
    /\ gated = FALSE
    /\ reconcile = FALSE

Restored(f) ==
    /\ outcome = "pending"
    /\ f \in Eligible
    /\ db' = f
    /\ outcome' = "restored"
    /\ UNCHANGED <<present, explicit, dirExists, gated, reconcile>>

Failed ==
    /\ outcome = "pending"
    /\ Eligible # {}
    /\ db' \in Leftovers
    /\ outcome' = "failed"
    /\ UNCHANGED <<present, explicit, dirExists, gated, reconcile>>

Skipped ==
    /\ outcome = "pending"
    /\ Eligible = {}
    /\ outcome' = "skipped"
    /\ UNCHANGED <<present, explicit, dirExists, db, gated, reconcile>>

Decide ==
    /\ outcome # "pending"
    /\ ~gated
    /\ gated' = TRUE
    /\ reconcile' = (outcome # "restored" /\ explicit = NoFile)
    /\ UNCHANGED <<present, explicit, dirExists, db, outcome>>

ANext == (\E f \in Paths : Restored(f)) \/ Failed \/ Skipped \/ Decide

ASpec == AInit /\ [][ANext]_avars

=============================================================================
