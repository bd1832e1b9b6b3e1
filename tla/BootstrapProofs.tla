-------------------------- MODULE BootstrapProofs --------------------------
(***************************************************************************)
(* Proofs about main() over container starts, for every set of paths and   *)
(* every bound on starts that satisfies the assumptions.                   *)
(*                                                                         *)
(* RestoreProofs' invariant DbTracksPc does not survive a restart: the    *)
(* database persists while the script's state starts afresh, so after a  *)
(* restart pc = "select" with a database in any state.  What does survive *)
(* is what one start establishes about its own variables: inside the      *)
(* restore block the chosen file exists (FileChosen), the gate of line    *)
(* 700 recorded its condition (GateRecorded), and the reconciler phase is *)
(* only entered from that gate (ReconcileFromGate).                       *)
(***************************************************************************)
EXTENDS Bootstrap, RestoreProofs

\* Lines 514-521: the restore block only runs on a file os.path.isfile saw.
FileChosen == pc \in InBlock => file \in present

\* Line 700, once passed, still describes this start's variables.
GateRecorded == pc = "done" => (reconcile <=> (~success /\ explicit = NoFile))

\* The phase after the restore block is the one the gate chose.
ReconcileFromGate == phase = "reconcile" => pc = "done" /\ reconcile

BInv == BTypeOK /\ FileChosen /\ GateRecorded /\ ReconcileFromGate

-----------------------------------------------------------------------------

LEMMA BInvInit == BInit => BInv
<1> SUFFICES ASSUME BInit PROVE BInv
  OBVIOUS
<1>1. TypeOK
  <2>1. present \subseteq Paths /\ mtime \in [Backups -> MTimes] /\ media \subseteq present
    BY DEF BInit, Init
  <2>2. explicit \in Paths \cup {NoFile} /\ file \in Paths \cup {NoFile}
    BY DEF BInit, Init
  <2>3. pc \in Pcs /\ db \in DbStates /\ opIdx \in 1..(Len(Ops) + 1)
    BY DEF BInit, Init, Pcs, DbStates, Ops
  <2>4. /\ success \in BOOLEAN /\ vrfMigrated \in BOOLEAN /\ usersTruncated \in BOOLEAN
        /\ superuser \in BOOLEAN /\ raised \in BOOLEAN /\ reconcile \in BOOLEAN
        /\ dirExists \in BOOLEAN /\ mediaDir \in BOOLEAN
    BY DEF BInit, Init
  <2>5. /\ svc \in {"running", "stopped"} /\ schema \in {"current", "stale"}
        /\ mediaState \in {"none", "cleared", "restored"}
    BY DEF BInit, Init
  <2>. QED
    BY <2>1, <2>2, <2>3, <2>4, <2>5 DEF TypeOK
<1>2. phase \in Phases /\ edited \in BOOLEAN
  BY DEF BInit, Phases
<1>4. starts \in 1..MaxStarts
  <2>1. starts = 1 /\ MaxStarts \in Nat /\ MaxStarts # 0
    BY BootstrapAssumption DEF BInit
  <2>. QED
    BY <2>1
<1>3. pc = "select" /\ pc \notin InBlock /\ phase = "plugins"
  BY DEF BInit, Init, InBlock
<1>. QED
  BY <1>1, <1>2, <1>3, <1>4 DEF BInv, BTypeOK, FileChosen, GateRecorded,
     ReconcileFromGate

\* One step of the restore block (lines 504-700) keeps the start's own
\* facts; the gate step is the only one that reaches "done".
LEMMA RestoreBlockStep ==
    ASSUME TypeOK, FileChosen, GateRecorded, Next, pc # "done"
    PROVE  TypeOK' /\ FileChosen' /\ GateRecorded'
<1>. USE RestoreAssumption DEF InBlock, fs
<1>1. CASE SelectBackup
  BY <1>1 DEF SelectBackup, Candidates, Oldest, TypeOK, FileChosen,
     GateRecorded, Pcs, DbStates, Ops
<1>2. CASE StopServices
  BY <1>2 DEF StopServices, Goto, TypeOK, FileChosen, GateRecorded, Pcs,
     DbStates, Ops
<1>3. CASE DropDb
  BY <1>3 DEF DropDb, Goto, TypeOK, FileChosen, GateRecorded, Pcs, DbStates,
     Ops
<1>4. CASE CreateDb
  <2>0. /\ pc = "create"
        /\ UNCHANGED <<fs, file, svc, schema, success, vrfMigrated,
                       usersTruncated, opIdx, superuser, mediaState, reconcile>>
    BY <1>4 DEF CreateDb
  <2>1. CASE db = "absent" /\ db' = "empty" /\ pc' = "grant" /\ UNCHANGED raised
    BY <2>0, <2>1 DEF TypeOK, FileChosen, GateRecorded, Pcs, DbStates
  <2>2. CASE Raise /\ UNCHANGED db
    BY <2>0, <2>2 DEF Raise, TypeOK, FileChosen, GateRecorded, Pcs, DbStates
  <2>. QED
    BY <1>4, <2>1, <2>2 DEF CreateDb
<1>5. CASE Grant
  BY <1>5 DEF Grant, Goto, TypeOK, FileChosen, GateRecorded, Pcs, DbStates,
     Ops
<1>6. CASE LoadBackup
  <2>0. /\ pc = "load" /\ file \in Paths
        /\ UNCHANGED <<fs, file, svc, vrfMigrated, usersTruncated, opIdx,
                       superuser, mediaState, reconcile>>
    BY <1>6 DEF LoadBackup, FileChosen, TypeOK, Pcs
  <2>1. CASE /\ db' = file /\ success' = TRUE /\ schema' \in {"current", "stale"}
             /\ pc' = "vrf" /\ UNCHANGED raised
    BY <2>0, <2>1 DEF TypeOK, FileChosen, GateRecorded, Pcs, DbStates
  <2>2. CASE /\ db' \in {db, "partial"} /\ Raise
             /\ UNCHANGED <<success, schema>>
    BY <2>0, <2>2 DEF Raise, TypeOK, FileChosen, GateRecorded, Pcs, DbStates
  <2>. QED
    BY <1>6, <2>1, <2>2 DEF LoadBackup
<1>7. CASE MigrateVrf \/ TruncateUsers
  <2>0. /\ pc \in {"vrf", "truncate"}
        /\ UNCHANGED <<fs, file, svc, db, schema, success, vrfMigrated,
                       usersTruncated, opIdx, superuser, mediaState, reconcile>>
    BY <1>7 DEF MigrateVrf, TruncateUsers, SetArgCommand
  <2>1. CASE pc' \in {"truncate", "start"} /\ UNCHANGED raised
    BY <2>0, <2>1 DEF TypeOK, FileChosen, GateRecorded, Pcs, DbStates
  <2>2. CASE Raise
    BY <2>0, <2>2 DEF Raise, TypeOK, FileChosen, GateRecorded, Pcs, DbStates
  <2>. QED
    BY <1>7, <2>1, <2>2 DEF MigrateVrf, TruncateUsers, SetArgCommand
<1>8. CASE StartServices
  BY <1>8 DEF StartServices, Goto, TypeOK, FileChosen, GateRecorded, Pcs,
     DbStates, Ops
<1>9. CASE CheckMigrations
  <2>0. /\ pc = "check"
        /\ UNCHANGED <<fs, file, svc, db, schema, success, vrfMigrated,
                       usersTruncated, superuser, mediaState, reconcile>>
    BY <1>9 DEF CheckMigrations
  <2>1. CASE Raise /\ UNCHANGED opIdx
    BY <2>0, <2>1 DEF Raise, TypeOK, FileChosen, GateRecorded, Pcs, DbStates
  <2>2. CASE pc' = "ops" /\ opIdx' = 1 /\ UNCHANGED raised
    BY <2>0, <2>2 DEF TypeOK, FileChosen, GateRecorded, Pcs, DbStates, Ops
  <2>3. CASE pc' = "superuser" /\ UNCHANGED <<raised, opIdx>>
    BY <2>0, <2>3 DEF TypeOK, FileChosen, GateRecorded, Pcs, DbStates
  <2>. QED
    BY <1>9, <2>1, <2>2, <2>3 DEF CheckMigrations
<1>10. CASE RunOp
  <2>1. opIdx \in 1..Len(Ops) /\ opIdx' = opIdx + 1
    BY <1>10 DEF RunOp, TypeOK
  <2>2. opIdx' \in 1..(Len(Ops) + 1)
    BY <2>1
  <2>3. Ops[opIdx] \in {"migrate", "trace_paths", "remove_stale_contenttypes",
                        "clearsessions", "reindex"}
    BY <2>1 DEF Ops
  <2>. QED
    BY <1>10, <2>2, <2>3 DEF RunOp, TypeOK, FileChosen, GateRecorded, Pcs,
       DbStates
<1>11. CASE OpsDone
  BY <1>11 DEF OpsDone, TypeOK, FileChosen, GateRecorded, Pcs, DbStates, Ops
<1>12. CASE CreateSuperuser
  <2>0. /\ pc = "superuser"
        /\ UNCHANGED <<fs, file, svc, db, schema, success, vrfMigrated,
                       usersTruncated, opIdx, mediaState, reconcile>>
    BY <1>12 DEF CreateSuperuser
  <2>1. CASE Raise /\ UNCHANGED superuser
    BY <2>0, <2>1 DEF Raise, TypeOK, FileChosen, GateRecorded, Pcs, DbStates
  <2>2. CASE pc' = "media" /\ superuser' \in BOOLEAN /\ UNCHANGED raised
    BY <2>0, <2>2 DEF TypeOK, FileChosen, GateRecorded, Pcs, DbStates
  <2>. QED
    BY <1>12, <2>1, <2>2 DEF CreateSuperuser
<1>13. CASE RestoreMedia
  BY <1>13 DEF RestoreMedia, Goto, TypeOK, FileChosen, GateRecorded, Pcs,
     DbStates, Ops
<1>14. CASE Gate
  <2>0. /\ pc = "gate" /\ pc' = "done"
        /\ reconcile' = (~success /\ explicit = NoFile)
        /\ UNCHANGED <<fs, file, svc, db, schema, success, vrfMigrated,
                       usersTruncated, opIdx, superuser, mediaState, raised>>
    BY <1>14 DEF Gate, Goto
  <2>1. TypeOK'
    BY <2>0 DEF TypeOK, Pcs, DbStates
  <2>. QED
    BY <2>0, <2>1 DEF FileChosen, GateRecorded
<1>15. CASE Terminated
  <2>1. pc = "done"
    BY <1>15 DEF Terminated
  <2>. QED
    BY <2>1
<1>. QED
  BY <1>1, <1>2, <1>3, <1>4, <1>5, <1>6, <1>7, <1>8, <1>9, <1>10, <1>11,
     <1>12, <1>13, <1>14, <1>15 DEF Next

\* Every step of main(), of the users, or a restart of the container keeps
\* BInv.
LEMMA BInvStep == BInv /\ [BNext]_bvars => BInv'
<1> SUFFICES ASSUME BInv, [BNext]_bvars PROVE BInv'
  OBVIOUS
<1>. USE DEF BInv, BTypeOK
<1>1. CASE RestoreStep
  <2>1. TypeOK' /\ FileChosen' /\ GateRecorded'
    BY <1>1, RestoreBlockStep DEF RestoreStep
  <2>2. UNCHANGED <<phase, edited, starts>> /\ phase = "restore"
    BY <1>1 DEF RestoreStep
  <2>. QED
    BY <2>1, <2>2 DEF ReconcileFromGate
<1>2. CASE PluginPhase \/ RestoreDone \/ Reconcile \/ Initializers \/ Import
  <2>1. UNCHANGED <<vars, edited, starts>>
    BY <1>2 DEF PluginPhase, RestoreDone, Reconcile, Initializers, Import
  <2>2. UNCHANGED <<pc, file, present, success, explicit, reconcile>>
    BY <2>1 DEF vars, fs
  <2>3. TypeOK'
    BY <2>1 DEF vars, fs, TypeOK
  <2>4. phase' \in Phases
    BY <1>2 DEF PluginPhase, RestoreDone, Reconcile, Initializers, Import,
       Phases
  <2>5. phase' = "reconcile" => pc = "done" /\ reconcile
    BY <1>2 DEF PluginPhase, RestoreDone, Reconcile, Initializers, Import
  <2>. QED
    BY <2>1, <2>2, <2>3, <2>4, <2>5 DEF FileChosen, GateRecorded,
       ReconcileFromGate
<1>3. CASE Edit
  BY <1>3 DEF Edit, vars, fs, TypeOK, FileChosen, GateRecorded,
     ReconcileFromGate
<1>4. CASE Restart
  <2>1. /\ starts' = starts + 1 /\ starts < MaxStarts /\ starts \in Nat
        /\ phase' = "plugins" /\ pc' = "select"
    BY <1>4 DEF Restart
  <2>2. starts' \in 1..MaxStarts
    BY <2>1, BootstrapAssumption
  <2>3. TypeOK'
    <3>1. UNCHANGED <<present, mtime, explicit, dirExists, media, mediaDir,
                      db, schema>>
      BY <1>4 DEF Restart, fs
    <3>2. /\ pc' \in Pcs /\ file' \in Paths \cup {NoFile}
          /\ opIdx' \in 1..(Len(Ops) + 1)
      BY <1>4 DEF Restart, Pcs, Ops
    <3>3. /\ svc' \in {"running", "stopped"}
          /\ mediaState' \in {"none", "cleared", "restored"}
          /\ success' \in BOOLEAN /\ vrfMigrated' \in BOOLEAN
          /\ usersTruncated' \in BOOLEAN /\ superuser' \in BOOLEAN
          /\ raised' \in BOOLEAN /\ reconcile' \in BOOLEAN
      BY <1>4 DEF Restart
    <3>. QED
      BY <3>1, <3>2, <3>3 DEF TypeOK
  <2>. QED
    BY <1>4, <2>1, <2>2, <2>3 DEF Restart, Phases, FileChosen, GateRecorded,
       InBlock, ReconcileFromGate
<1>5. CASE WaitForever \/ Ended \/ UNCHANGED bvars
  BY <1>5 DEF WaitForever, Ended, bvars, vars, fs, TypeOK, FileChosen,
     GateRecorded, ReconcileFromGate
<1>. QED
  BY <1>1, <1>2, <1>3, <1>4, <1>5 DEF BNext, Main

\* Type correctness of main() over container starts: the restore block's
\* variables, the phase, the edit flag and the start counter keep their
\* types however many starts, failures and edits happen.
THEOREM BootstrapTypeCorrect == BSpec => []BTypeOK
<1>1. BInv => BTypeOK
  BY DEF BInv
<1>. QED
  BY BInvInit, BInvStep, <1>1, PTL DEF BSpec

\* The gates of lines 700 and 951 compose with restarts: in every start the
\* reconciler runs only when that start named no backup file and loaded
\* none, whatever state earlier starts left the database in.
THEOREM ReconcileGatedHolds == BSpec => []ReconcileGated
<1>1. BInv => ReconcileGated
  BY DEF BInv, ReconcileFromGate, GateRecorded, ReconcileGated
<1>. QED
  BY BInvInit, BInvStep, <1>1, PTL DEF BSpec

=============================================================================
