---------------------------- MODULE RestoreProofs ----------------------------
(***************************************************************************)
(* Proofs about the Restore Orchestrator, for every set of paths and every *)
(* starting file system that satisfy RestoreAssumption.                     *)
(***************************************************************************)
EXTENDS Restore, TLAPS

\* The points of the restore block, between the choice of a file and the
\* except branch or the gate.
InBlock == Pcs \ {"select", "gate", "done"}

\* The strengthening of the gating and containment properties: what the
\* database holds is tied to where main() is and to preloadDatabaseSuccess.
DbTracksPc ==
    /\ pc \in InBlock => file \in present
    /\ raised => pc \in {"gate", "done"}
    /\ success <=> db \in Paths
    /\ pc \in {"select", "stop", "drop"} => db = "old"
    /\ pc = "create" => db \in {"old", "absent"}
    /\ pc \in {"grant", "load"} => db = "empty"
    /\ db = "absent" => pc = "create" \/ raised
    /\ db = "empty" => pc \in {"grant", "load"} \/ raised
    /\ db = "partial" => raised
    /\ pc = "done" => (reconcile <=> (~success /\ explicit = NoFile))

IInv == TypeOK /\ DbTracksPc

\* IInv holds initially and every step of the model preserves it.
THEOREM RestoreInductive == Spec => []IInv
<1>1. Init => IInv
  <2> SUFFICES ASSUME Init PROVE IInv
    OBVIOUS
  <2>1. TypeOK
    <3>1. present \subseteq Paths /\ mtime \in [Backups -> MTimes] /\ media \subseteq present
      BY DEF Init
    <3>2. explicit \in Paths \cup {NoFile} /\ file \in Paths \cup {NoFile}
      BY DEF Init
    <3>3. pc \in Pcs /\ db \in DbStates /\ opIdx \in 1..(Len(Ops) + 1)
      BY DEF Init, Pcs, DbStates, Ops
    <3>4. /\ success \in BOOLEAN /\ vrfMigrated \in BOOLEAN /\ usersTruncated \in BOOLEAN
          /\ superuser \in BOOLEAN /\ raised \in BOOLEAN /\ reconcile \in BOOLEAN
      BY DEF Init
    <3>5. dirExists \in BOOLEAN /\ mediaDir \in BOOLEAN
      BY DEF Init
    <3>6. /\ svc \in {"running", "stopped"} /\ schema \in {"current", "stale"}
          /\ mediaState \in {"none", "cleared", "restored"}
      BY DEF Init
    <3>. QED
      BY <3>1, <3>2, <3>3, <3>4, <3>5, <3>6 DEF TypeOK
  <2>2. ~success /\ db \notin Paths
    BY RestoreAssumption DEF Init
  <2>3. pc = "select" /\ pc \notin InBlock /\ ~raised
    BY DEF Init, InBlock
  <2>4. db = "old"
    BY DEF Init
  <2>. QED
    BY <2>1, <2>2, <2>3, <2>4 DEF IInv, DbTracksPc
<1>2. IInv /\ [Next]_vars => IInv'
  <2> SUFFICES ASSUME IInv, [Next]_vars PROVE IInv'
    OBVIOUS
  <2>. USE RestoreAssumption DEF IInv, InBlock, fs
  <2>1. CASE SelectBackup
    <3>1. TypeOK'
      BY <2>1 DEF SelectBackup, Candidates, Oldest, TypeOK, Pcs, DbStates, Ops
    <3>2. DbTracksPc'
      BY <2>1 DEF SelectBackup, Candidates, Oldest, DbTracksPc, TypeOK
    <3>. QED
      BY <3>1, <3>2
  <2>2. CASE StopServices
    <3>1. TypeOK'
      BY <2>2 DEF StopServices, Goto, TypeOK, Pcs, DbStates, Ops
    <3>2. DbTracksPc'
      BY <2>2 DEF StopServices, Goto, DbTracksPc, TypeOK
    <3>. QED
      BY <3>1, <3>2
  <2>3. CASE DropDb
    <3>0. /\ pc = "drop" /\ pc' = "create"
          /\ UNCHANGED <<fs, file, svc, schema, success, vrfMigrated, usersTruncated,
                         opIdx, superuser, mediaState, raised, reconcile>>
      BY <2>3 DEF DropDb, Goto
    <3>1. CASE db' = "absent"
      BY <3>0, <3>1 DEF TypeOK, DbTracksPc, Pcs, DbStates
    <3>2. CASE db' = db
      BY <3>0, <3>2 DEF TypeOK, DbTracksPc, Pcs, DbStates
    <3>. QED
      BY <2>3, <3>1, <3>2 DEF DropDb
  <2>4. CASE CreateDb
    <3>0. /\ pc = "create"
          /\ UNCHANGED <<fs, file, svc, schema, success, vrfMigrated, usersTruncated,
                         opIdx, superuser, mediaState, reconcile>>
      BY <2>4 DEF CreateDb
    <3>1. CASE db = "absent" /\ db' = "empty" /\ pc' = "grant" /\ UNCHANGED raised
      BY <3>0, <3>1 DEF TypeOK, DbTracksPc, Pcs, DbStates
    <3>2. CASE Raise /\ UNCHANGED db
      BY <3>0, <3>2 DEF Raise, TypeOK, DbTracksPc, Pcs, DbStates
    <3>. QED
      BY <2>4, <3>1, <3>2 DEF CreateDb
  <2>5. CASE Grant
    <3>1. TypeOK'
      BY <2>5 DEF Grant, Goto, TypeOK, Pcs, DbStates, Ops
    <3>2. DbTracksPc'
      BY <2>5 DEF Grant, Goto, DbTracksPc, TypeOK
    <3>. QED
      BY <3>1, <3>2
  <2>6. CASE LoadBackup
    <3>0. /\ pc = "load" /\ file \in present
          /\ UNCHANGED <<fs, file, svc, vrfMigrated, usersTruncated, opIdx,
                         superuser, mediaState, reconcile>>
      BY <2>6 DEF LoadBackup, DbTracksPc, Pcs
    <3>1. CASE /\ db' = file /\ success' = TRUE /\ schema' \in {"current", "stale"}
               /\ pc' = "vrf" /\ UNCHANGED raised
      BY <3>0, <3>1 DEF TypeOK, DbTracksPc, Pcs, DbStates
    <3>2. CASE /\ db' \in {db, "partial"} /\ Raise
               /\ UNCHANGED <<success, schema>>
      BY <3>0, <3>2 DEF Raise, TypeOK, DbTracksPc, Pcs, DbStates
    <3>. QED
      BY <2>6, <3>1, <3>2 DEF LoadBackup
  <2>7. CASE MigrateVrf \/ TruncateUsers
    <3>0. /\ pc \in {"vrf", "truncate"}
          /\ UNCHANGED <<fs, file, svc, db, schema, success, vrfMigrated,
                         usersTruncated, opIdx, superuser, mediaState, reconcile>>
      BY <2>7 DEF MigrateVrf, TruncateUsers, SetArgCommand
    <3>1. CASE pc' \in {"truncate", "start"} /\ UNCHANGED raised
      BY <3>0, <3>1 DEF TypeOK, DbTracksPc, Pcs, DbStates
    <3>2. CASE Raise
      BY <3>0, <3>2 DEF Raise, TypeOK, DbTracksPc, Pcs, DbStates
    <3>. QED
      BY <2>7, <3>1, <3>2 DEF MigrateVrf, TruncateUsers, SetArgCommand
  <2>8. CASE StartServices
    <3>1. TypeOK'
      BY <2>8 DEF StartServices, Goto, TypeOK, Pcs, DbStates, Ops
    <3>2. DbTracksPc'
      BY <2>8 DEF StartServices, Goto, DbTracksPc, TypeOK
    <3>. QED
      BY <3>1, <3>2
  <2>9. CASE CheckMigrations
    <3>0. /\ pc = "check"
          /\ UNCHANGED <<fs, file, svc, db, schema, success, vrfMigrated,
                         usersTruncated, superuser, mediaState, reconcile>>
      BY <2>9 DEF CheckMigrations
    <3>1. CASE Raise /\ UNCHANGED opIdx
      BY <3>0, <3>1 DEF Raise, TypeOK, DbTracksPc, Pcs, DbStates
    <3>2. CASE pc' = "ops" /\ opIdx' = 1 /\ UNCHANGED raised
      BY <3>0, <3>2 DEF TypeOK, DbTracksPc, Pcs, DbStates, Ops
    <3>3. CASE pc' = "superuser" /\ UNCHANGED <<raised, opIdx>>
      BY <3>0, <3>3 DEF TypeOK, DbTracksPc, Pcs, DbStates
    <3>. QED
      BY <2>9, <3>1, <3>2, <3>3 DEF CheckMigrations
  <2>10. CASE RunOp
    <3>1. TypeOK'
      BY <2>10 DEF RunOp, TypeOK, Pcs, DbStates, Ops
    <3>2. DbTracksPc'
      BY <2>10 DEF RunOp, DbTracksPc, TypeOK
    <3>. QED
      BY <3>1, <3>2
  <2>11. CASE OpsDone
    <3>1. TypeOK'
      BY <2>11 DEF OpsDone, TypeOK, Pcs, DbStates, Ops
    <3>2. DbTracksPc'
      BY <2>11 DEF OpsDone, DbTracksPc, TypeOK
    <3>. QED
      BY <3>1, <3>2
  <2>12. CASE CreateSuperuser
    <3>0. /\ pc = "superuser"
          /\ UNCHANGED <<fs, file, svc, db, schema, success, vrfMigrated,
                         usersTruncated, opIdx, mediaState, reconcile>>
      BY <2>12 DEF CreateSuperuser
    <3>1. CASE Raise /\ UNCHANGED superuser
      BY <3>0, <3>1 DEF Raise, TypeOK, DbTracksPc, Pcs, DbStates
    <3>2. CASE pc' = "media" /\ superuser' \in BOOLEAN /\ UNCHANGED raised
      BY <3>0, <3>2 DEF TypeOK, DbTracksPc, Pcs, DbStates
    <3>. QED
      BY <2>12, <3>1, <3>2 DEF CreateSuperuser
  <2>13. CASE RestoreMedia
    <3>1. TypeOK'
      BY <2>13 DEF RestoreMedia, Goto, TypeOK, Pcs, DbStates, Ops
    <3>2. DbTracksPc'
      BY <2>13 DEF RestoreMedia, Goto, DbTracksPc, TypeOK
    <3>. QED
      BY <3>1, <3>2
  <2>14. CASE Gate
    <3>1. TypeOK'
      BY <2>14 DEF Gate, Goto, TypeOK, Pcs, DbStates, Ops
    <3>2. DbTracksPc'
      BY <2>14 DEF Gate, Goto, DbTracksPc, TypeOK
    <3>. QED
      BY <3>1, <3>2
  <2>15. CASE Terminated \/ UNCHANGED vars
    <3>1. TypeOK'
      BY <2>15 DEF Terminated, vars, TypeOK, Pcs, DbStates, Ops
    <3>2. DbTracksPc'
      BY <2>15 DEF Terminated, vars, DbTracksPc, TypeOK
    <3>. QED
      BY <3>1, <3>2
  <2>. QED
    BY <2>1, <2>2, <2>3, <2>4, <2>5, <2>6, <2>7, <2>8, <2>9, <2>10, <2>11,
       <2>12, <2>13, <2>14, <2>15 DEF Next
<1>. QED
  BY <1>1, <1>2, PTL DEF Spec

-----------------------------------------------------------------------------

\* Restore gating, for every starting file system and every outcome of the
\* commands: past the gate of line 700 the reconciler runs exactly when no
\* backup was named and the database holds no loaded backup.
THEOREM GatingCorrect == Spec => []GatingMatchesDatabase
<1>1. IInv => GatingMatchesDatabase
  BY DEF IInv, DbTracksPc, GatingMatchesDatabase
<1>. QED
  BY <1>1, RestoreInductive, PTL

\* Failure containment: a run of the restore block that ends with the
\* database dropped, empty or partly loaded has gone through the except
\* branch of line 695.
THEOREM LostOnlyLoudly == Spec => []DatabaseLostOnlyLoudly
<1>1. IInv => DatabaseLostOnlyLoudly
  BY DEF IInv, DbTracksPc, DatabaseLostOnlyLoudly
<1>. QED
  BY <1>1, RestoreInductive, PTL


\* Type correctness of the restore block of main() (lines 504-700): the
\* file system, the program point, the database and every flag the block
\* sets keep their types whatever the commands return.
THEOREM RestoreTypeCorrect == Spec => []TypeOK
<1>1. IInv => TypeOK
  BY DEF IInv
<1>. QED
  BY RestoreInductive, <1>1, PTL


\* Only the load step of line 588 can put a dump into the database: every
\* other step leaves it alone, drops it or creates it empty.
LEMMA OnlyLoadFillsDb ==
    ASSUME [Next]_vars, ~LoadBackup
    PROVE  db' = db \/ db' \in {"absent", "empty"}
<1>1. CASE DropDb \/ CreateDb
  BY <1>1 DEF DropDb, CreateDb, Raise
<1>2. CASE SelectBackup \/ StopServices \/ Grant \/ MigrateVrf \/ TruncateUsers
  BY <1>2 DEF SelectBackup, StopServices, Grant, MigrateVrf, TruncateUsers,
     SetArgCommand, Raise
<1>3. CASE StartServices \/ CheckMigrations \/ RunOp \/ OpsDone
  BY <1>3 DEF StartServices, CheckMigrations, RunOp, OpsDone, Raise
<1>4. CASE CreateSuperuser \/ RestoreMedia \/ Gate \/ Terminated
  BY <1>4 DEF CreateSuperuser, RestoreMedia, Gate, Terminated, vars, Raise
<1>5. CASE UNCHANGED vars
  BY <1>5 DEF vars
<1>. QED
  BY <1>1, <1>2, <1>3, <1>4, <1>5 DEF Next

\* The restore block never loads a dump, whole or partial, over data the
\* database already held: dropdb's failure is only logged (line 545), but
\* createdb then fails and line 559 raises before the load of line 588.
THEOREM LoadsIntoFreshHolds == Spec => LoadsIntoFreshDatabase
<1>1. IInv /\ [Next]_vars => [FreshLoad]_vars
  <2> SUFFICES ASSUME IInv, [Next]_vars, db' # db,
                      db' \notin {"absent", "empty"}
               PROVE  db = "empty"
    BY DEF FreshLoad
  <2>1. LoadBackup
    BY OnlyLoadFillsDb
  <2>. QED
    BY <2>1 DEF LoadBackup, IInv, DbTracksPc
<1>. QED
  BY RestoreInductive, <1>1, PTL DEF Spec, LoadsIntoFreshDatabase


-----------------------------------------------------------------------------
(* The restore block implements RestoreAbstract.                           *)

\* The points of the block after a successful load of line 588.
PostLoad == {"vrf", "truncate", "start", "check", "ops", "superuser", "media"}

\* What the refinement needs besides IInv: the file the block works on is
\* the one RestoreAbstract allows, every point after the load has loaded,
\* and the block reaches the gate without loading or raising only when
\* lines 506-514 found no file to restore.
SelectionSound ==
    /\ pc \in InBlock => file \in AbsRestore!Eligible
    /\ pc \in PostLoad => success
    /\ pc \in {"gate", "done"} /\ ~success /\ ~raised => AbsRestore!Eligible = {}


\* RestoreAbstract's choice depends on the file system alone, which no step
\* of main() changes.
LEMMA EligibleUnchanged ==
    ASSUME UNCHANGED fs
    PROVE  AbsRestore!Eligible' = AbsRestore!Eligible
  BY DEF fs, AbsRestore!Eligible

\* Lines 506-514 pick a file RestoreAbstract allows when there is one, and
\* fall through to the gate only when there is none.
LEMMA SelectPicksEligible ==
    ASSUME IInv, SelectBackup
    PROVE  /\ file' \in present => file' \in AbsRestore!Eligible
           /\ file' \notin present => AbsRestore!Eligible = {}
<1>. USE RestoreAssumption DEF SelectBackup, AbsRestore!Eligible, Candidates
<1>1. CASE explicit \in present /\ file' = explicit
  BY <1>1
<1>2. CASE explicit \notin present /\ ~dirExists /\ file' = explicit
  BY <1>2
<1>3. CASE explicit \notin present /\ dirExists /\ Candidates = {} /\ file' = NoFile
  BY <1>3 DEF IInv, TypeOK
<1>4. CASE explicit \notin present /\ dirExists /\ file' \in Oldest(Candidates)
  BY <1>4 DEF Oldest
<1>. QED
  BY <1>1, <1>2, <1>3, <1>4

\* SelectionSound holds initially and, given IInv, every step preserves it.
LEMMA SelectionStep ==
    ASSUME IInv, SelectionSound, [Next]_vars
    PROVE  SelectionSound'
<1>. USE DEF SelectionSound, InBlock, PostLoad, Pcs
<1>1. CASE SelectBackup
  <2>1. pc = "select" /\ ~success /\ ~raised /\ UNCHANGED <<fs, success, raised>>
    BY <1>1, RestoreAssumption DEF SelectBackup, IInv, DbTracksPc
  <2>2. AbsRestore!Eligible' = AbsRestore!Eligible
    BY <2>1, EligibleUnchanged
  <2>3. pc' = IF file' \in present THEN "stop" ELSE "gate"
    BY <1>1 DEF SelectBackup
  <2>. QED
    BY <1>1, <2>1, <2>2, <2>3, SelectPicksEligible DEF fs
<1>2. CASE LoadBackup
  <2>1. pc = "load" /\ UNCHANGED <<fs, file>>
    BY <1>2 DEF LoadBackup
  <2>2. AbsRestore!Eligible' = AbsRestore!Eligible
    BY <2>1, EligibleUnchanged
  <2>. QED
    BY <1>2, <2>1, <2>2 DEF LoadBackup, Raise
<1>3. CASE StopServices \/ DropDb \/ CreateDb \/ Grant
  <2>1. pc \in {"stop", "drop", "create"} \/ pc = "grant"
    BY <1>3 DEF StopServices, DropDb, CreateDb, Grant, Goto
  <2>2. UNCHANGED <<fs, file, success>>
    BY <1>3 DEF StopServices, DropDb, CreateDb, Grant
  <2>3. AbsRestore!Eligible' = AbsRestore!Eligible
    BY <2>2, EligibleUnchanged
  <2>4. pc' \in {"drop", "create", "grant", "load"} \/ (pc' = "gate" /\ raised')
    BY <1>3 DEF StopServices, DropDb, CreateDb, Grant, Goto, Raise
  <2>. QED
    BY <2>1, <2>2, <2>3, <2>4
<1>4. CASE MigrateVrf \/ TruncateUsers \/ StartServices \/ CheckMigrations
  <2>1. pc \in {"vrf", "truncate", "start", "check"}
    BY <1>4 DEF MigrateVrf, TruncateUsers, SetArgCommand, StartServices,
       CheckMigrations, Goto
  <2>2. UNCHANGED <<fs, file, success>>
    BY <1>4 DEF MigrateVrf, TruncateUsers, SetArgCommand, StartServices,
       CheckMigrations
  <2>3. AbsRestore!Eligible' = AbsRestore!Eligible
    BY <2>2, EligibleUnchanged
  <2>4. pc' \in {"truncate", "start", "check", "ops", "superuser"}
        \/ (pc' = "gate" /\ raised')
    BY <1>4 DEF MigrateVrf, TruncateUsers, SetArgCommand, StartServices,
       CheckMigrations, Goto, Raise
  <2>. QED
    BY <2>1, <2>2, <2>3, <2>4
<1>5. CASE RunOp \/ OpsDone \/ CreateSuperuser \/ RestoreMedia
  <2>1. pc \in {"ops", "superuser", "media"}
    BY <1>5 DEF RunOp, OpsDone, CreateSuperuser, RestoreMedia, Goto
  <2>2. UNCHANGED <<fs, file, success>>
    BY <1>5 DEF RunOp, OpsDone, CreateSuperuser, RestoreMedia
  <2>3. AbsRestore!Eligible' = AbsRestore!Eligible
    BY <2>2, EligibleUnchanged
  <2>4. pc' \in {"ops", "superuser", "media", "gate"}
    BY <1>5 DEF RunOp, OpsDone, CreateSuperuser, RestoreMedia, Goto, Raise
  <2>. QED
    BY <2>1, <2>2, <2>3, <2>4
<1>6. CASE Gate \/ Terminated \/ UNCHANGED vars
  <2>1. UNCHANGED <<fs, file, success, raised>>
    BY <1>6 DEF Gate, Terminated, vars
  <2>2. AbsRestore!Eligible' = AbsRestore!Eligible
    BY <2>1, EligibleUnchanged
  <2>3. (pc \in {"gate", "done"} /\ pc' = "done") \/ pc' = pc
    BY <1>6 DEF Gate, Goto, Terminated, vars
  <2>. QED
    BY <2>1, <2>2, <2>3
<1>. QED
  BY <1>1, <1>2, <1>3, <1>4, <1>5, <1>6 DEF Next


\* IInv and SelectionSound hold in every state of every run.
THEOREM SelectionHolds == Spec => [](IInv /\ SelectionSound)
<1>1. Init => SelectionSound
  BY DEF Init, SelectionSound, InBlock, PostLoad
<1>2. IInv /\ SelectionSound /\ [Next]_vars => SelectionSound'
  BY SelectionStep
<1>. QED
  BY <1>1, <1>2, RestoreInductive, PTL DEF Spec

\* Every step of main() up to and past the gate is a step of RestoreAbstract
\* or leaves what RestoreAbstract sees unchanged.
LEMMA StepRefines ==
    ASSUME IInv, SelectionSound, SelectionSound', [Next]_vars
    PROVE  [AbsRestore!ANext]_AbsRestore!avars
<1>. USE RestoreAssumption DEF IInv, DbTracksPc, InBlock, fs
<1>1. CASE SelectBackup
  <2>1. pc = "select" /\ db = "old" /\ ~success /\ ~raised
        /\ UNCHANGED <<fs, db, success, raised, reconcile>>
    BY <1>1 DEF SelectBackup
  <2>2. CASE file' \in present
    <3>1. pc' = "stop"
      BY <1>1, <2>2 DEF SelectBackup
    <3>. QED
      BY <2>1, <3>1 DEF AbsRestore!avars, AbsDb, AbsOutcome
  <2>3. CASE file' \notin present
    <3>1. pc' = "gate"
      BY <1>1, <2>3 DEF SelectBackup
    <3>2. AbsRestore!Eligible = {}
      BY <1>1, <2>3, SelectPicksEligible
    <3>3. AbsRestore!Skipped
      BY <2>1, <3>1, <3>2 DEF AbsRestore!Skipped, AbsDb, AbsOutcome
    <3>. QED
      BY <3>3 DEF AbsRestore!ANext
  <2>. QED
    BY <2>2, <2>3
<1>2. CASE LoadBackup
  <2>1. /\ pc = "load" /\ db = "empty" /\ ~success /\ ~raised
        /\ file \in AbsRestore!Eligible /\ file \in Paths
        /\ UNCHANGED <<fs, file, reconcile>>
    BY <1>2 DEF LoadBackup, SelectionSound, TypeOK, Pcs
  <2>2. CASE db' = file /\ success' = TRUE /\ pc' = "vrf" /\ UNCHANGED raised
    <3>1. AbsRestore!Restored(file)
      BY <2>1, <2>2 DEF AbsRestore!Restored, AbsDb, AbsOutcome
    <3>. QED
      BY <2>1, <3>1 DEF AbsRestore!ANext
  <2>3. CASE db' \in {db, "partial"} /\ Raise /\ UNCHANGED success
    <3>1. AbsRestore!Failed
      BY <2>1, <2>3 DEF Raise, AbsRestore!Failed, AbsRestore!Leftovers,
         AbsDb, AbsOutcome
    <3>. QED
      BY <3>1 DEF AbsRestore!ANext
  <2>. QED
    BY <1>2, <2>2, <2>3 DEF LoadBackup
<1>3. CASE CreateDb
  <2>1. /\ pc = "create" /\ db \in {"old", "absent"} /\ ~success /\ ~raised
        /\ file \in AbsRestore!Eligible
        /\ UNCHANGED <<fs, success, reconcile>>
    BY <1>3 DEF CreateDb, SelectionSound, Pcs
  <2>2. CASE db = "absent" /\ db' = "empty" /\ pc' = "grant" /\ UNCHANGED raised
    BY <2>1, <2>2 DEF AbsRestore!avars, AbsDb, AbsOutcome
  <2>3. CASE Raise /\ UNCHANGED db
    <3>1. AbsRestore!Failed
      BY <2>1, <2>3 DEF Raise, AbsRestore!Failed, AbsRestore!Leftovers,
         AbsDb, AbsOutcome
    <3>. QED
      BY <3>1 DEF AbsRestore!ANext
  <2>. QED
    BY <1>3, <2>2, <2>3 DEF CreateDb
<1>4. CASE StopServices \/ DropDb \/ Grant
  <2>1. /\ pc \in {"stop", "drop", "grant"} /\ pc' \in {"drop", "create", "load"}
        /\ ~success /\ ~raised
        /\ UNCHANGED <<fs, success, raised, reconcile>>
    BY <1>4 DEF StopServices, DropDb, Grant, Goto, Pcs
  <2>. QED
    BY <2>1 DEF AbsRestore!avars, AbsDb, AbsOutcome
<1>5. CASE \/ MigrateVrf \/ TruncateUsers \/ StartServices \/ CheckMigrations
           \/ RunOp \/ OpsDone \/ CreateSuperuser \/ RestoreMedia
  <2>1. pc \in PostLoad /\ pc' # "done"
    BY <1>5 DEF MigrateVrf, TruncateUsers, SetArgCommand, StartServices,
       CheckMigrations, RunOp, OpsDone, CreateSuperuser, RestoreMedia, Goto,
       Raise, PostLoad
  <2>2. success /\ UNCHANGED <<fs, db, success, reconcile>>
    BY <1>5, <2>1 DEF SelectionSound, MigrateVrf, TruncateUsers, SetArgCommand,
       StartServices, CheckMigrations, RunOp, OpsDone, CreateSuperuser,
       RestoreMedia
  <2>. QED
    BY <2>1, <2>2 DEF AbsRestore!avars, AbsDb, AbsOutcome, PostLoad
<1>6. CASE Gate
  <2>1. /\ pc = "gate" /\ pc' = "done"
        /\ reconcile' = (~success /\ explicit = NoFile)
        /\ UNCHANGED <<fs, db, success, raised>>
    BY <1>6 DEF Gate, Goto
  <2>2. AbsRestore!Decide
    BY <2>1 DEF AbsRestore!Decide, AbsDb, AbsOutcome
  <2>. QED
    BY <2>2 DEF AbsRestore!ANext
<1>7. CASE Terminated \/ UNCHANGED vars
  BY <1>7 DEF Terminated, vars, AbsRestore!avars, AbsDb, AbsOutcome
<1>. QED
  BY <1>1, <1>2, <1>3, <1>4, <1>5, <1>6, <1>7 DEF Next

(***************************************************************************)
(* Reconstruct or fail loudly: for every file system and every outcome of *)
(* the commands, the restore block of main() implements RestoreAbstract.  *)
(* The database becomes a backup only if it is the existing explicit file *)
(* or, without one, a backup of an existing preload directory; a failure  *)
(* leaves the old, a dropped, an empty or a partial database; the block   *)
(* is skipped only when there is nothing to restore; and the gate decides *)
(* once, from how the block ended.                                         *)
(***************************************************************************)
THEOREM RestoreRefinement == Spec => ImplementsRestoreAbstract
<1>1. Init => AbsRestore!AInit
  BY DEF Init, AbsRestore!AInit, AbsDb, AbsOutcome
<1>2. (IInv /\ SelectionSound) /\ (IInv /\ SelectionSound)' /\ [Next]_vars
        => [AbsRestore!ANext]_AbsRestore!avars
  BY StepRefines
<1>. QED
  BY <1>1, <1>2, SelectionHolds, PTL
     DEF Spec, ImplementsRestoreAbstract, AbsRestore!ASpec

=============================================================================
