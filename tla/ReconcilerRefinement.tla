------------------------ MODULE ReconcilerRefinement ------------------------
(***************************************************************************)
(* Proof that the Resource Reconciler implements ReconcileAbstract under   *)
(* the mapping of Reconciler (made <- Entries), for every value of the     *)
(* constants that satisfies ConstantsAssumption.                           *)
(***************************************************************************)
EXTENDS ReconcilerProofs

\* The kinds whose NetBox model has no unique name (a permission) or a
\* name unique only per manufacturer (a device type): only the script's
\* own filter keeps it from creating a name twice.
Filtered == {"permissions", "deviceTypes"}

\* Every prefix the update loop still has to update has an empty
\* description: the filter of line 911 asked for them, and each is removed
\* from the list when it is updated.
PendingEmpty == \A p \in pending : prefixes[p].desc = Empty

\* NetBox gives every new record an id above all the others.
IdsFresh == \A r \in remote : r.id < nextId

(***************************************************************************)
(* While the creation loop of a filtered kind runs, every record of that   *)
(* kind NetBox holds was in xxxPreExisting, or was created by this loop    *)
(* from an earlier entry of the list; a device type, under the             *)
(* manufacturer the loop gives every device type it creates.  Nothing but  *)
(* the loop itself creates records of these kinds.                         *)
(***************************************************************************)
CreatedTracked ==
    (pc = "create" /\ Kinds[ki] \in Filtered) =>
        \A r \in OfKind(Kinds[ki]) :
            \/ r.name \in pre
            \/ \E j \in 1..(idx - 1) :
                  /\ r.name = Desired(Kinds[ki])[j]
                  /\ Kinds[ki] = "deviceTypes" =>
                        r.refs = MinIds(local["manufacturers"])

RInv == PendingEmpty /\ IdsFresh /\ CreatedTracked

-----------------------------------------------------------------------------

\* DEFAULT_PERMISSIONS has one entry per distinct group name.
LEMMA PermKeysDistinct ==
    \A i, j \in 1..Len(PermKeys) : PermKeys[i] = PermKeys[j] => i = j
BY DEF PermKeys

\* Permissions and device types are no kind another client creates.
LEMMA FilteredNotExternal == ExtKinds \cap Filtered = {}
BY ConstantsAssumption DEF Filtered

LEMMA RInvInit == Init => RInv
<1> SUFFICES ASSUME Init PROVE RInv
  OBVIOUS
<1>1. PendingEmpty
  BY DEF Init, PendingEmpty
<1>2. IdsFresh
  BY ConstantsAssumption DEF Init, IdsFresh
<1>3. CreatedTracked
  BY DEF Init, CreatedTracked
<1>. QED
  BY <1>1, <1>2, <1>3 DEF RInv

\* The steps that leave NetBox's records and the prefixes alone.
LEMMA RemoteUnchanged ==
    ASSUME [Next]_vars,
           ~CreateItem, ~ExternalCreate, ~UpdatePrefix
    PROVE  UNCHANGED <<remote, nextId, prefixes>>
BY DEF Next, Step, Program, Environment, vars, WaitForApi, FetchKind,
       SkipItem, RefetchKind, AbortKind, FetchPrefixes, Restart, ApiDown,
       ApiUp, Terminated

LEMMA PendingEmptyStep ==
    ASSUME TypeOK, PendingEmpty, [Next]_vars
    PROVE  PendingEmpty'
<1>1. CASE FetchPrefixes
  BY <1>1 DEF FetchPrefixes, PendingEmpty
<1>2. CASE UpdatePrefix
  BY <1>2 DEF UpdatePrefix, PendingEmpty, TypeOK
<1>3. CASE Restart
  BY <1>3 DEF Restart, PendingEmpty
<1>4. CASE ~FetchPrefixes /\ ~UpdatePrefix /\ ~Restart
  <2>1. UNCHANGED <<pending, prefixes>>
    BY <1>4 DEF Next, Step, Program, Environment, vars, WaitForApi, FetchKind,
       SkipItem, CreateItem, RefetchKind, AbortKind, ApiDown, ApiUp,
       ExternalCreate, Terminated
  <2>. QED
    BY <2>1 DEF PendingEmpty
<1>. QED
  BY <1>1, <1>2, <1>3, <1>4

LEMMA IdsFreshStep ==
    ASSUME TypeOK, IdsFresh, [Next]_vars
    PROVE  IdsFresh'
<1>1. CASE CreateItem
  BY <1>1 DEF CreateItem, NewRecord, IdsFresh, TypeOK, Record
<1>2. CASE ExternalCreate
  BY <1>2 DEF ExternalCreate, IdsFresh, TypeOK, Record
<1>3. CASE UpdatePrefix
  BY <1>3 DEF UpdatePrefix, IdsFresh
<1>4. CASE ~CreateItem /\ ~ExternalCreate /\ ~UpdatePrefix
  BY <1>4, RemoteUnchanged DEF IdsFresh
<1>. QED
  BY <1>1, <1>2, <1>3, <1>4

LEMMA CreatedTrackedStep ==
    ASSUME TypeOK, CreatedTracked, [Next]_vars
    PROVE  CreatedTracked'
<1> DEFINE k == Kinds[ki]
<1>0. k \in KindNames /\ Desired(k) \in Seq(Names) /\ idx \in Nat
  BY KindsType, DesiredType DEF TypeOK
<1>1. CASE FetchKind
  <2>1. pre' = NamesOf(k) /\ remote' = remote /\ ki' = ki
    BY <1>1 DEF FetchKind
  <2>. QED
    BY <2>1 DEF CreatedTracked, NamesOf, OfKind
<1>2. CASE SkipItem
  <2>1. /\ UNCHANGED <<remote, pc, ki, pre, local>>
        /\ idx' = idx + 1
    BY <1>2 DEF SkipItem
  <2>. QED
    BY <1>0, <2>1 DEF CreatedTracked, OfKind
<1>3. CASE CreateItem
  <2> DEFINE n == Desired(k)[idx]
             grp == {g \in local["groups"] : g.name = n}
             mfr == local["manufacturers"]
             rec == NewRecord(k, n, CreateRefs(k, grp, mfr), CreateOts(k, n))
  <2>1. /\ pc = "create" /\ UNCHANGED <<pc, ki, pre, local>>
        /\ idx' = idx + 1
        /\ idx \in 1..Len(Desired(k))
    BY <1>0, <1>3 DEF CreateItem, TypeOK
  <2>2. remote' = remote \cup {rec} \/ remote' = remote
    BY <1>3 DEF CreateItem
  <2>3. /\ rec.kind = k /\ rec.name = n
        /\ k = "deviceTypes" => rec.refs = MinIds(mfr)
    BY DEF NewRecord, CreateRefs
  <2>4. ASSUME k \in Filtered, NEW r \in remote, r.kind = k
        PROVE  \/ r.name \in pre
               \/ \E j \in 1..idx :
                     /\ r.name = Desired(k)[j]
                     /\ k = "deviceTypes" => r.refs = MinIds(mfr)
    BY <1>0, <2>1, <2>4 DEF CreatedTracked, OfKind
  <2>5. \E j \in 1..idx :
           /\ rec.name = Desired(k)[j]
           /\ k = "deviceTypes" => rec.refs = MinIds(mfr)
    <3>1. idx \in 1..idx
      BY <2>1
    <3>2. /\ rec.name = Desired(k)[idx]
          /\ k = "deviceTypes" => rec.refs = MinIds(mfr)
      BY <2>3
    <3>. QED
      BY <3>1, <3>2
  <2>. QED
    BY <2>1, <2>2, <2>4, <2>5 DEF CreatedTracked, OfKind
<1>4. CASE ExternalCreate
  <2>1. k \in Filtered => OfKind(k)' = OfKind(k)
    BY <1>4, FilteredNotExternal DEF ExternalCreate, OfKind
  <2>2. UNCHANGED <<pc, ki, pre, idx, local>>
    BY <1>4 DEF ExternalCreate
  <2>. QED
    BY <2>1, <2>2 DEF CreatedTracked
<1>5. CASE ApiDown \/ ApiUp
  BY <1>5 DEF ApiDown, ApiUp, CreatedTracked, OfKind
<1>6. CASE WaitForApi
  BY <1>6 DEF WaitForApi, CreatedTracked
<1>7. CASE RefetchKind \/ AbortKind
  <2>1. pc' # "create"
    BY <1>7 DEF RefetchKind, AbortKind, NextKind
  <2>. QED
    BY <2>1 DEF CreatedTracked
<1>8. CASE FetchPrefixes \/ UpdatePrefix
  BY <1>8 DEF FetchPrefixes, UpdatePrefix, CreatedTracked
<1>9. CASE Restart
  BY <1>9 DEF Restart, CreatedTracked
<1>10. CASE Terminated \/ UNCHANGED vars
  BY <1>10 DEF Terminated, vars, CreatedTracked, OfKind
<1>. QED
  BY <1>1, <1>2, <1>3, <1>4, <1>5, <1>6, <1>7, <1>8, <1>9, <1>10
     DEF Next, Step, Program, Environment

LEMMA RInvStep == TypeInv /\ RInv /\ [Next]_vars => RInv'
BY PendingEmptyStep, IdsFreshStep, CreatedTrackedStep DEF TypeInv, RInv

\* RInv holds in every reachable state.
LEMMA RefinementInvariant == Spec => [](TypeInv /\ RInv)
BY TypeInvariant, RInvInit, RInvStep, PTL DEF Spec

-----------------------------------------------------------------------------

\* The names of a kind are the same seen through the mapping.
LEMMA NamesInEntries ==
    ASSUME NEW k
    PROVE  Abs!NamesIn(k) = NamesOf(k)
<1>1. ASSUME NEW x \in Abs!NamesIn(k) PROVE x \in NamesOf(k)
  <2>1. PICK e \in Entries : e.kind = k /\ x = e.name
    BY <1>1 DEF Abs!NamesIn
  <2>2. PICK r \in remote : e = [kind |-> r.kind, name |-> r.name, id |-> r.id]
    BY DEF Entries
  <2>. QED
    BY <2>1, <2>2 DEF NamesOf, OfKind
<1>2. ASSUME NEW x \in NamesOf(k) PROVE x \in Abs!NamesIn(k)
  <2>1. PICK r \in remote : r.kind = k /\ x = r.name
    BY <1>2 DEF NamesOf, OfKind
  <2>2. [kind |-> r.kind, name |-> r.name, id |-> r.id] \in Entries
    BY DEF Entries
  <2>. QED
    BY <2>1, <2>2 DEF Abs!NamesIn
<1>. QED
  BY <1>1, <1>2

\* A record with a fresh id is one new abstract entry.
LEMMA AddEntryFresh ==
    ASSUME TypeOK, IdsFresh, NEW rec,
           remote' = remote \cup {rec}, rec.id = nextId
    PROVE  Abs!AddEntry(rec.kind, rec.name)
<1> DEFINE e == [kind |-> rec.kind, name |-> rec.name, id |-> rec.id]
<1>1. Entries' = Entries \cup {e}
  BY DEF Entries
<1>2. e \notin Entries
  <2> SUFFICES ASSUME e \in Entries PROVE FALSE
    OBVIOUS
  <2>1. PICK r \in remote : e = [kind |-> r.kind, name |-> r.name, id |-> r.id]
    BY DEF Entries
  <2>2. r.id < nextId /\ r.id \in Nat /\ nextId \in Nat
    BY DEF IdsFresh, TypeOK, Record
  <2>. QED
    BY <2>1, <2>2
<1>3. e \in Entries' \ Entries
  BY <1>1, <1>2
<1>4. e.kind = rec.kind /\ e.name = rec.name
  OBVIOUS
<1>. QED
  BY <1>1, <1>3, <1>4 DEF Abs!AddEntry

(***************************************************************************)
(* A create NetBox accepts adds a desired name the kind did not hold: for  *)
(* kinds with unique names NetBox's own check says so, for permissions     *)
(* and device types CreatedTracked and the filter of xxxPreExisting do.    *)
(***************************************************************************)
LEMMA CreateIsMissing ==
    ASSUME TypeOK, CreatedTracked, CreateItem,
           NEW k, k = Kinds[ki],
           NEW n, n = Desired(k)[idx],
           NEW rec,
           rec = NewRecord(k, n,
                    CreateRefs(k, {g \in local["groups"] : g.name = n},
                               local["manufacturers"]),
                    CreateOts(k, n)),
           Accepts(rec)
    PROVE  n \notin NamesOf(k)
<1> DEFINE mfr == local["manufacturers"]
<1>0. /\ k \in KindNames /\ pc = "create" /\ n \notin pre
      /\ idx \in 1..Len(Desired(k)) /\ Desired(k) \in Seq(Names)
  <2>1. ki \in 1..Len(Kinds) /\ idx \in Nat \ {0}
    BY KindsType DEF TypeOK
  <2>2. k \in KindNames
    BY <2>1, KindsType
  <2>3. Desired(k) \in Seq(Names)
    BY <2>2, DesiredType
  <2>4. pc = "create" /\ n \notin pre /\ idx <= Len(Desired(k))
    BY DEF CreateItem
  <2>. QED
    BY <2>1, <2>2, <2>3, <2>4
<1> SUFFICES ASSUME NEW r \in OfKind(k), r.name = n PROVE FALSE
  BY DEF NamesOf
<1>1. rec.kind = k /\ rec.name = n
  BY DEF NewRecord
<1>2. CASE k \in Filtered
  <2>1. PICK j \in 1..(idx - 1) :
           /\ r.name = Desired(k)[j]
           /\ k = "deviceTypes" => r.refs = MinIds(mfr)
    BY <1>0, <1>2 DEF CreatedTracked
  <2>2. CASE k = "permissions"
    <3>1. Desired(k) = PermKeys
      BY <2>2 DEF Desired
    <3>2. j \in 1..Len(PermKeys) /\ idx \in 1..Len(PermKeys) /\ j # idx
      BY <1>0, <3>1
    <3>. QED
      BY <2>1, <3>1, <3>2, PermKeysDistinct
  <2>3. CASE k = "deviceTypes"
    <3>1. rec.refs = MinIds(mfr)
      BY <2>3 DEF NewRecord, CreateRefs
    <3>2. SameScope(r, rec) /\ k \in NameUnique
      BY <2>1, <2>3, <3>1 DEF SameScope, NameUnique
    <3>. QED
      BY <1>1, <3>2 DEF Accepts
  <2>. QED
    BY <1>2, <2>2, <2>3 DEF Filtered
<1>3. CASE k \notin Filtered
  <2>1. k \in NameUnique /\ k # "deviceTypes"
    BY <1>0, <1>3 DEF Filtered, KindNames, Kinds, NameUnique
  <2>2. SameScope(r, rec)
    BY <2>1 DEF SameScope, OfKind
  <2>. QED
    BY <1>1, <2>1, <2>2 DEF Accepts
<1>. QED
  BY <1>2, <1>3

\* Every step of the reconciler is a step of ReconcileAbstract or leaves
\* NetBox's entries and the prefixes unchanged.
LEMMA StepRefines ==
    ASSUME TypeOK, PendingHaveVrf, RInv, [Next]_vars
    PROVE  [Abs!ANext]_Abs!avars
<1>1. CASE CreateItem
  <2> DEFINE k == Kinds[ki]
             n == Desired(k)[idx]
             grp == {g \in local["groups"] : g.name = n}
             mfr == local["manufacturers"]
             rec == NewRecord(k, n, CreateRefs(k, grp, mfr), CreateOts(k, n))
  <2>0. k \in KindNames /\ n \in Names /\ n \in DesiredSet(k)
    <3>1. k \in KindNames /\ Desired(k) \in Seq(Names)
      BY KindsType, DesiredType DEF TypeOK
    <3>2. idx \in 1..Len(Desired(k))
      BY <1>1 DEF CreateItem, TypeOK
    <3>. QED
      BY <3>1, <3>2 DEF DesiredSet
  <2>1. CASE Accepts(rec)
    <3>1. remote' = remote \cup {rec} /\ prefixes' = prefixes /\ rec.id = nextId
      BY <1>1, <2>1 DEF CreateItem, NewRecord
    <3>2. n \notin Abs!NamesIn(k)
      BY <1>1, <2>1, CreateIsMissing, NamesInEntries DEF RInv
    <3>3. Abs!AddEntry(k, n)
      <4>1. rec.kind = k /\ rec.name = n
        BY DEF NewRecord
      <4>. QED
        BY <3>1, <4>1, AddEntryFresh DEF RInv
    <3>4. Abs!Create(k, n)
      BY <2>0, <3>1, <3>2, <3>3 DEF Abs!Create
    <3>. QED
      BY <2>0, <3>4 DEF Abs!ANext
  <2>2. CASE ~Accepts(rec)
    <3>1. UNCHANGED <<remote, prefixes>>
      BY <1>1, <2>2 DEF CreateItem
    <3>. QED
      BY <3>1 DEF Abs!avars, Entries
  <2>. QED
    BY <2>1, <2>2
<1>2. CASE ExternalCreate
  <2>1. PICK kx \in ExtKinds, nx \in Names :
           remote' = remote \cup
              {[kind |-> kx, name |-> nx, slug |-> Slug[nx], id |-> nextId,
                refs |-> {}, ots |-> {}, by |-> "ext"]}
    BY <1>2 DEF ExternalCreate
  <2>2. UNCHANGED prefixes
    BY <1>2 DEF ExternalCreate
  <2>3. Abs!AddEntry(kx, nx)
    <3> DEFINE xr == [kind |-> kx, name |-> nx, slug |-> Slug[nx], id |-> nextId,
                      refs |-> {}, ots |-> {}, by |-> "ext"]
    <3>1. remote' = remote \cup {xr} /\ xr.id = nextId
      BY <2>1
    <3>2. Abs!AddEntry(xr.kind, xr.name)
      BY <3>1, AddEntryFresh DEF RInv
    <3>. QED
      BY <3>2
  <2>4. kx \in KindNames
    <3>1. KindNames = {"groups", "permissions", "manufacturers", "roles",
                       "deviceTypes", "sites"}
      BY DEF KindNames, Kinds
    <3>. QED
      BY <3>1, ConstantsAssumption
  <2>. QED
    BY <2>2, <2>3, <2>4 DEF Abs!ANext, Abs!CreateExternal
<1>3. CASE UpdatePrefix
  <2>1. UNCHANGED remote
    BY <1>3 DEF UpdatePrefix
  <2>2. CASE UNCHANGED prefixes
    BY <2>1, <2>2 DEF Abs!avars, Entries
  <2>3. CASE \E p \in pending : prefixes' = [prefixes EXCEPT ![p].desc = prefixes[p].vrf]
    <3>1. PICK p \in pending : prefixes' = [prefixes EXCEPT ![p].desc = prefixes[p].vrf]
      BY <2>3
    <3>2. p \in Prefixes /\ prefixes[p].vrf # NoVrf /\ prefixes[p].desc = Empty
      BY DEF TypeOK, PendingHaveVrf, RInv, PendingEmpty
    <3>3. Abs!Backfill(p)
      BY <2>1, <3>1, <3>2 DEF Abs!Backfill, Entries
    <3>. QED
      BY <3>2, <3>3 DEF Abs!ANext
  <2>. QED
    BY <1>3, <2>2, <2>3 DEF UpdatePrefix
<1>4. CASE ~CreateItem /\ ~ExternalCreate /\ ~UpdatePrefix
  BY <1>4, RemoteUnchanged DEF Abs!avars, Entries
<1>. QED
  BY <1>1, <1>2, <1>3, <1>4

(***************************************************************************)
(* The Resource Reconciler implements ReconcileAbstract: whatever NetBox   *)
(* held, however the API fails, whatever another client creates and       *)
(* wherever the script is killed and restarted, main() never creates a    *)
(* name NetBox already holds or one that is not desired, never deletes,   *)
(* and only fills the empty description of a prefix with a VRF.          *)
(***************************************************************************)
THEOREM Refinement == Spec => ImplementsAbstract
<1>1. Init => Abs!AInit
  <2> SUFFICES ASSUME Init PROVE Abs!AInit
    OBVIOUS
  <2>1. Entries \subseteq Abs!Entry
    BY ConstantsAssumption DEF Init, Entries, Abs!Entry, Record
  <2>2. prefixes \in [Prefixes -> Abs!PrefixEntry]
    BY DEF Init, Abs!PrefixEntry, PrefixRec
  <2>. QED
    BY <2>1, <2>2 DEF Abs!AInit
<1>2. TypeInv /\ RInv /\ [Next]_vars => [Abs!ANext]_Abs!avars
  BY StepRefines DEF TypeInv
<1>. QED
  BY <1>1, <1>2, RefinementInvariant, PTL DEF Spec, ImplementsAbstract, Abs!ASpec

=============================================================================
