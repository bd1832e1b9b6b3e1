-------------------------- MODULE ReconcilerSafety --------------------------
(***************************************************************************)
(* Proofs of the two safety invariants of the Resource Reconciler that     *)
(* reconciler_safety checks, PermissionsDerived and Converged, for every   *)
(* value of the constants that satisfies ConstantsAssumption.              *)
(*                                                                         *)
(* Neither is inductive.  A permission's group ids are read from the local *)
(* dict `groups` (line 802), PermissionsDerived speaks of what NetBox      *)
(* holds: the two agree because the dict is a snapshot of NetBox, records  *)
(* are never deleted and NetBox keeps group names unique.  Converged       *)
(* speaks of the end of main(): it needs what each creation loop and the   *)
(* prefix loop established on the way.                                     *)
(***************************************************************************)
EXTENDS ReconcilerProofs, WellFoundedInduction

\* The records main()'s local dicts hold are records NetBox holds.
LocalFromRemote == \A k \in KindNames : local[k] \subseteq OfKind(k)

\* NetBox's unique constraint on Group.name.
GroupNamesUnique ==
    \A r, s \in OfKind("groups") : r.name = s.name => r = s

\* A permission the script created names a group NetBox holds (the
\* KeyError of line 802 stops the create otherwise).
PermsGrounded ==
    \A r \in OfKind("permissions") :
        r.by = "init" => \E g \in OfKind("groups") : g.name = r.name

PInv == LocalFromRemote /\ GroupNamesUnique /\ PermsGrounded /\ PermissionsDerived

-----------------------------------------------------------------------------

\* A desired name that exists, or whose create NetBox rejected for a reason
\* Blocked names.
Covered(k, n) == n \in NamesOf(k) \/ Blocked(k, n)

\* Every name of the j-th kind is covered, unless its except branch fired.
KindDone(j) ==
    Kinds[j] \notin failed =>
        \A i \in 1..Len(Desired(Kinds[j])) : Covered(Kinds[j], Desired(Kinds[j])[i])

\* Every kind the walk over Kinds has left is done.
PassesDone ==
    \A j \in 1..Len(Kinds) :
        (j < ki \/ pc \in {"prefixes", "update", "done"}) => KindDone(j)

\* Inside a creation loop: the names the comprehension drops exist, and
\* every name the loop has passed is covered.
LoopCovered ==
    pc = "create" =>
        /\ pre \subseteq NamesOf(Kinds[ki])
        /\ \A i \in 1..(idx - 1) : Covered(Kinds[ki], Desired(Kinds[ki])[i])

\* The update loop of line 913 still holds every prefix with a VRF and an
\* empty description; once it has ended, no such prefix is left.
PrefixesCovered ==
    /\ pc = "update" =>
          \A p \in Prefixes :
             (prefixes[p].vrf # NoVrf /\ prefixes[p].desc = Empty) => p \in pending
    /\ (pc = "done" /\ "prefixes" \notin failed) =>
          \A p \in Prefixes : prefixes[p].vrf # NoVrf => prefixes[p].desc # Empty

CInv == PassesDone /\ LoopCovered /\ PrefixesCovered


-----------------------------------------------------------------------------
(* PermissionsDerived.                                                     *)

\* What PermissionsDerived says of one permission record.
PermDerived(r) ==
    /\ r.ots = ObjectTypes \ (IF r.name = DefaultGroup THEN DefaultExcluded ELSE {})
    /\ r.refs = IdsOf({g \in OfKind("groups") : g.name = r.name})

LEMMA PInvInit == Init => PInv
<1> SUFFICES ASSUME Init PROVE PInv
  OBVIOUS
<1>1. \A r \in remote : r.by = "seed"
  BY ConstantsAssumption DEF Init
<1>2. GroupNamesUnique
  <2>1. Consistent(remote)
    BY DEF Init
  <2>. QED
    BY <2>1 DEF Consistent, GroupNamesUnique, OfKind, SameScope, NameUnique
<1>. QED
  BY <1>1, <1>2 DEF Init, PInv, LocalFromRemote, PermsGrounded,
     PermissionsDerived, OfKind

(***************************************************************************)
(* NetBox stores one new record and main()'s dicts stay as they are: PInv  *)
(* survives when a new group's name is free, and a new permission of the   *)
(* script is derived and grounded.  Used for CreateItem and ExternalCreate.*)
(***************************************************************************)
LEMMA AddRecord ==
    ASSUME TypeOK, PInv, NEW rec \in Record,
           remote' = remote \cup {rec}, local' = local,
           rec.kind = "groups" => \A r \in OfKind("groups") : r.name # rec.name,
           rec.kind = "permissions" /\ rec.by = "init" =>
              /\ PermDerived(rec)
              /\ \E g \in OfKind("groups") : g.name = rec.name
    PROVE  PInv'
<1>1. LocalFromRemote'
  BY DEF PInv, LocalFromRemote, OfKind
<1>2. GroupNamesUnique'
  BY DEF PInv, GroupNamesUnique, OfKind
<1>3. PermsGrounded'
  BY DEF PInv, PermsGrounded, OfKind
<1>4. ASSUME NEW r \in OfKind("permissions"), r.by = "init"
      PROVE  {g \in OfKind("groups")' : g.name = r.name}
                = {g \in OfKind("groups") : g.name = r.name}
  <2>1. \E g \in OfKind("groups") : g.name = r.name
    BY <1>4 DEF PInv, PermsGrounded
  <2>2. rec.kind = "groups" => rec.name # r.name
    BY <2>1
  <2>. QED
    BY <2>2 DEF OfKind
<1>5. PermissionsDerived'
  <2> SUFFICES ASSUME NEW r \in OfKind("permissions")', r.by = "init"
               PROVE  PermDerived(r)'
    BY DEF PermissionsDerived, PermDerived
  <2>1. CASE r = rec
    <3>1. PermDerived(rec) /\ \E g \in OfKind("groups") : g.name = rec.name
      BY <2>1 DEF OfKind
    <3>2. {g \in OfKind("groups")' : g.name = rec.name}
            = {g \in OfKind("groups") : g.name = rec.name}
      <4>1. rec.kind # "groups"
        BY <2>1 DEF OfKind
      <4>. QED
        BY <4>1 DEF OfKind
    <3>. QED
      BY <3>1, <3>2, <2>1 DEF PermDerived
  <2>2. CASE r # rec
    <3>1. r \in OfKind("permissions")
      BY <2>2 DEF OfKind
    <3>2. PermDerived(r)
      BY <3>1 DEF PInv, PermissionsDerived, PermDerived
    <3>. QED
      BY <3>1, <3>2, <1>4 DEF PermDerived
  <2>. QED
    BY <2>1, <2>2
<1>. QED
  BY <1>1, <1>2, <1>3, <1>5 DEF PInv


\* A step that changes neither NetBox nor main()'s dicts keeps PInv.
LEMMA PInvFrame ==
    ASSUME PInv, UNCHANGED <<remote, local>>
    PROVE  PInv'
BY DEF PInv, LocalFromRemote, GroupNamesUnique, PermsGrounded,
   PermissionsDerived, OfKind, IdsOf

\* Every step keeps PInv.
LEMMA PInvStep == TypeInv /\ PInv /\ [Next]_vars => PInv'
<1> SUFFICES ASSUME TypeOK, PInv, [Next]_vars PROVE PInv'
  BY DEF TypeInv
<1>1. CASE CreateItem
  <2> DEFINE k == Kinds[ki]
             n == Desired(k)[idx]
             grp == {g \in local["groups"] : g.name = n}
             mfr == local["manufacturers"]
             rec == NewRecord(k, n, CreateRefs(k, grp, mfr), CreateOts(k, n))
  <2>0. k \in KindNames /\ n \in Names /\ local' = local
    BY <1>1, KindsType, DesiredType DEF CreateItem, TypeOK
  <2>1. CASE Accepts(rec)
    <3>1. remote' = remote \cup {rec}
      BY <1>1, <2>1 DEF CreateItem
    <3>2. rec \in Record
      <4>1. grp \in SUBSET Record /\ mfr \in SUBSET Record
        <5>1. {"groups", "manufacturers"} \subseteq KindNames
          BY DEF KindNames, Kinds
        <5>. QED
          BY <5>1 DEF TypeOK
      <4>. QED
        BY <2>0, <4>1, CreateFieldsType, NewRecordType DEF TypeOK
    <3>3. rec.kind = "groups" => \A r \in OfKind("groups") : r.name # rec.name
      <4>1. rec.kind = k /\ rec.name = n
        BY DEF NewRecord
      <4>. QED
        BY <2>1, <4>1 DEF Accepts, SameScope, NameUnique, OfKind
    <3>4. ASSUME rec.kind = "permissions"
          PROVE  /\ PermDerived(rec)
                 /\ \E g \in OfKind("groups") : g.name = rec.name
      <4>1. k = "permissions" /\ grp # {}
        BY <3>4, <1>1 DEF CreateItem, NewRecord
      <4>2. grp \subseteq {g \in OfKind("groups") : g.name = n}
        BY DEF PInv, LocalFromRemote, KindNames, Kinds
      <4>3. grp = {g \in OfKind("groups") : g.name = n}
        <5>1. PICK g0 \in grp : TRUE
          BY <4>1
        <5>2. ASSUME NEW g \in OfKind("groups"), g.name = n PROVE g \in grp
          <6>1. g0 \in OfKind("groups") /\ g0.name = n
            BY <4>2
          <6>2. g = g0
            BY <5>2, <6>1 DEF PInv, GroupNamesUnique
          <6>. QED
            BY <6>2
        <5>. QED
          BY <4>2, <5>2
      <4>4. rec.ots = ObjectTypes \ (IF rec.name = DefaultGroup THEN DefaultExcluded ELSE {})
        BY <4>1 DEF NewRecord, CreateOts, Excluded
      <4>5. rec.refs = IdsOf({g \in OfKind("groups") : g.name = rec.name})
        BY <4>1, <4>3 DEF NewRecord, CreateRefs
      <4>. QED
        BY <4>1, <4>2, <4>4, <4>5 DEF PermDerived, NewRecord
    <3>. QED
      BY <2>0, <3>1, <3>2, <3>3, <3>4, AddRecord
  <2>2. CASE ~Accepts(rec)
    BY <1>1, <2>2, PInvFrame DEF CreateItem
  <2>. QED
    BY <2>1, <2>2
<1>2. CASE ExternalCreate
  <2>1. PICK kx \in ExtKinds, nx \in Names :
          LET rec == [kind |-> kx, name |-> nx, slug |-> Slug[nx], id |-> nextId,
                      refs |-> {}, ots |-> {}, by |-> "ext"]
          IN  Accepts(rec) /\ remote' = remote \cup {rec}
    BY <1>2 DEF ExternalCreate
  <2> DEFINE xr == [kind |-> kx, name |-> nx, slug |-> Slug[nx], id |-> nextId,
                    refs |-> {}, ots |-> {}, by |-> "ext"]
  <2>2. Accepts(xr) /\ remote' = remote \cup {xr}
    BY <2>1
  <2>3. xr \in Record
    <3>1. kx \in KindNames
      <4>1. KindNames = {"groups", "permissions", "manufacturers", "roles",
                         "deviceTypes", "sites"}
        BY DEF KindNames, Kinds
      <4>. QED
        BY <4>1, ConstantsAssumption
    <3>. QED
      BY <3>1, ConstantsAssumption DEF TypeOK, Record, Creators
  <2>4. xr.kind = "groups" => \A r \in OfKind("groups") : r.name # xr.name
    BY <2>2 DEF Accepts, SameScope, NameUnique, OfKind
  <2>5. local' = local
    BY <1>2 DEF ExternalCreate
  <2>6. ~(xr.kind = "permissions" /\ xr.by = "init")
    OBVIOUS
  <2>. QED
    BY <2>2, <2>3, <2>4, <2>5, <2>6, AddRecord
<1>3. CASE RefetchKind
  <2>1. local' = [local EXCEPT ![Kinds[ki]] = OfKind(Kinds[ki])] /\ UNCHANGED remote
    BY <1>3 DEF RefetchKind
  <2>2. Kinds[ki] \in KindNames
    BY KindsType DEF TypeOK
  <2>3. LocalFromRemote'
    BY <2>1, <2>2 DEF PInv, LocalFromRemote, OfKind, TypeOK
  <2>. QED
    BY <2>1, <2>3 DEF PInv, GroupNamesUnique, PermsGrounded, PermissionsDerived,
       OfKind, IdsOf
<1>4. CASE Restart
  BY <1>4 DEF Restart, PInv, LocalFromRemote, GroupNamesUnique, PermsGrounded,
     PermissionsDerived, OfKind, IdsOf
<1>5. CASE ~CreateItem /\ ~ExternalCreate /\ ~RefetchKind /\ ~Restart
  <2>1. UNCHANGED <<remote, local>>
    BY <1>5 DEF Next, Step, Program, Environment, vars, WaitForApi, FetchKind,
       SkipItem, AbortKind, FetchPrefixes, UpdatePrefix, ApiDown, ApiUp,
       Terminated
  <2>. QED
    BY <2>1, PInvFrame
<1>. QED
  BY <1>1, <1>2, <1>3, <1>4, <1>5

\* Permission derivation (section 4.2), for every value of the constants:
\* every permission main() created (lines 797-810) grants exactly the group
\* NetBox holds under its name and every object type except its exclude
\* list, however runs, restarts, outages and another client's creates
\* interleave.
THEOREM PermissionsDerivedHolds == Spec => []PermissionsDerived
<1>1. TypeInv /\ PInv => PermissionsDerived
  BY DEF PInv
<1>. QED
  BY TypeInvariant, PInvInit, PInvStep, <1>1, PTL DEF Spec


-----------------------------------------------------------------------------
(* Converged: lemmas.                                                      *)

\* A non-empty set of naturals has a least element.
LEMMA NatSetHasMin ==
    ASSUME NEW S \in SUBSET Nat, S # {}
    PROVE  \E m \in S : \A x \in S : m <= x
<1> DEFINE R == OpToRel(<, Nat)
<1>1. \E x \in S : \A y \in S : ~(<<y, x>> \in R)
  BY NatLessThanWellFounded, WFMin
<1>2. PICK x \in S : \A y \in S : ~(<<y, x>> \in R)
  BY <1>1
<1>3. \A y \in S : ~(y < x)
  BY <1>2 DEF OpToRel
<1>. QED
  BY <1>3

\* min_hash_value_by_value of a non-empty dict gives a manufacturer: the
\* device type then carries a reference, and NetBox does not reject it
\* for want of one.
LEMMA MinIdsNonEmpty ==
    ASSUME NEW S \in SUBSET Record, S # {}
    PROVE  MinIds(S) # {}
<1>1. {r.id : r \in S} \in SUBSET Nat /\ {r.id : r \in S} # {}
  BY DEF Record
<1>2. PICK m \in {r.id : r \in S} : \A x \in {r.id : r \in S} : m <= x
  BY <1>1, NatSetHasMin
<1>3. PICK r \in S : r.id = m
  BY <1>2
<1>4. \A s \in S : r.id <= s.id
  BY <1>2, <1>3
<1>. QED
  BY <1>3, <1>4 DEF MinIds

\* The positions of the catalogue's kinds.
LEMMA KindsPositions ==
    /\ \A j \in 1..Len(Kinds) : Kinds[j] = "deviceTypes" <=> j = 5
    /\ \A j \in 1..Len(Kinds) : Kinds[j] = "manufacturers" <=> j = 3
    /\ KindNames = {Kinds[j] : j \in 1..Len(Kinds)}
BY DEF Kinds, KindNames

\* A covered name stays covered while NetBox only grows and, for a device
\* type, the local manufacturers dict stays as it is.
LEMMA CoveredMono ==
    ASSUME NEW k, NEW n, Covered(k, n), remote \subseteq remote',
           k = "deviceTypes" => local'["manufacturers"] = local["manufacturers"]
    PROVE  Covered(k, n)'
BY DEF Covered, Blocked, NamesOf, OfKind

LEMMA KindDoneMono ==
    ASSUME NEW j \in 1..Len(Kinds), KindDone(j),
           remote \subseteq remote', failed \subseteq failed',
           Kinds[j] = "deviceTypes" => local'["manufacturers"] = local["manufacturers"]
    PROVE  KindDone(j)'
<1> SUFFICES ASSUME Kinds[j] \notin failed',
                    NEW i \in 1..Len(Desired(Kinds[j]))
             PROVE  Covered(Kinds[j], Desired(Kinds[j])[i])'
  BY DEF KindDone
<1>. QED
  BY CoveredMono DEF KindDone

(***************************************************************************)
(* A create NetBox rejects (a RequestError, logged at lines 748, 814, ...) *)
(* leaves its name covered: another record holds the name, or Blocked     *)
(* explains the absence.                                                   *)
(***************************************************************************)
LEMMA RejectedCovered ==
    ASSUME TypeOK, NEW rec, ~Accepts(rec), rec.slug = Slug[rec.name],
           rec.kind = "deviceTypes" => rec.refs = MinIds(local["manufacturers"])
    PROVE  Covered(rec.kind, rec.name)
<1> DEFINE mfr == local["manufacturers"]
<1>0. mfr \in SUBSET Record
  BY DEF TypeOK, KindNames, Kinds
<1>1. CASE rec.kind = "deviceTypes" /\ rec.refs = {}
  <2>1. mfr = {}
    BY <1>0, <1>1, MinIdsNonEmpty
  <2>. QED
    BY <1>1, <2>1 DEF Covered, Blocked
<1>2. CASE ~(rec.kind = "deviceTypes" /\ rec.refs = {})
  <2>1. PICK r \in OfKind(rec.kind) :
          /\ SameScope(r, rec)
          /\ \/ rec.kind \in NameUnique /\ r.name = rec.name
             \/ rec.kind \in SlugUnique /\ r.slug = rec.slug
    BY <1>2 DEF Accepts
  <2>2. CASE rec.kind \in NameUnique /\ r.name = rec.name
    BY <2>2 DEF Covered, NamesOf
  <2>3. CASE rec.kind \in SlugUnique /\ r.slug = rec.slug
    <3>1. CASE rec.kind # "deviceTypes"
      BY <2>3, <3>1 DEF Covered, Blocked
    <3>2. CASE rec.kind = "deviceTypes"
      <4>1. r.kind = "deviceTypes" /\ r.refs = rec.refs
        BY <2>1, <3>2 DEF SameScope, OfKind
      <4>. QED
        BY <2>3, <3>2, <4>1 DEF Covered, Blocked
    <3>. QED
      BY <3>1, <3>2
  <2>. QED
    BY <2>1, <2>2, <2>3
<1>. QED
  BY <1>1, <1>2


-----------------------------------------------------------------------------
(* Converged: the inductive invariant.                                     *)

PassPcs == {"prefixes", "update", "done"}

LEMMA CInvInit == Init => CInv
BY DEF Init, CInv, PassesDone, LoopCovered, PrefixesCovered

\* The steps that neither move the walk over Kinds nor refetch a dict.
LEMMA QuietStep ==
    ASSUME [Next]_vars, ~RefetchKind, ~AbortKind, ~Restart
    PROVE  /\ ki' = ki /\ local' = local
           /\ remote \subseteq remote' /\ failed \subseteq failed'
           /\ pc' \in PassPcs => pc \in PassPcs
<1>1. CASE WaitForApi \/ FetchKind \/ SkipItem \/ CreateItem
  BY <1>1 DEF WaitForApi, FetchKind, SkipItem, CreateItem, PassPcs
<1>2. CASE FetchPrefixes \/ UpdatePrefix
  BY <1>2 DEF FetchPrefixes, UpdatePrefix, PassPcs
<1>3. CASE ApiDown \/ ApiUp \/ ExternalCreate \/ Terminated \/ UNCHANGED vars
  BY <1>3 DEF ApiDown, ApiUp, ExternalCreate, Terminated, vars
<1>. QED
  BY <1>1, <1>2, <1>3 DEF Next, Step, Program, Environment

LEMMA PassesDoneStep ==
    ASSUME TypeOK, CInv, [Next]_vars
    PROVE  PassesDone'
<1>. USE KindsType
<1>1. CASE RefetchKind \/ AbortKind
  <2>1. /\ UNCHANGED remote /\ failed \subseteq failed'
        /\ (ki < Len(Kinds) => ki' = ki + 1 /\ pc' = "fetch")
        /\ (~(ki < Len(Kinds)) => ki' = ki /\ pc' = "prefixes")
        /\ local'["manufacturers"] # local["manufacturers"] =>
              Kinds[ki] = "manufacturers"
    <3>1. NextKind /\ UNCHANGED remote /\ failed \subseteq failed'
      BY <1>1 DEF RefetchKind, AbortKind
    <3>2. (ki < Len(Kinds) => ki' = ki + 1 /\ pc' = "fetch")
          /\ (~(ki < Len(Kinds)) => ki' = ki /\ pc' = "prefixes")
      BY <3>1 DEF NextKind
    <3>3. local'["manufacturers"] # local["manufacturers"] =>
              Kinds[ki] = "manufacturers"
      <4>1. CASE AbortKind
        BY <4>1 DEF AbortKind
      <4>2. CASE RefetchKind
        <5>1. Kinds[ki] \in KindNames
          BY DEF TypeOK
        <5>. QED
          BY <4>2, <5>1 DEF RefetchKind, TypeOK
      <4>. QED
        BY <1>1, <4>1, <4>2
    <3>. QED
      BY <3>1, <3>2, <3>3
  <2>2. pc = "create" \/ pc = "fetch"
    BY <1>1 DEF RefetchKind, AbortKind
  <2> SUFFICES ASSUME NEW j \in 1..Len(Kinds), j < ki' \/ pc' \in PassPcs
               PROVE  KindDone(j)'
    BY DEF PassesDone, PassPcs
  <2>3. j <= ki
    BY <2>1 DEF TypeOK, PassPcs
  <2>4. Kinds[j] = "deviceTypes" => local'["manufacturers"] = local["manufacturers"]
    BY <2>1, <2>3, KindsPositions DEF TypeOK
  <2>5. CASE j < ki
    <3>1. KindDone(j)
      BY <2>5 DEF CInv, PassesDone
    <3>. QED
      BY <2>1, <2>4, <3>1, KindDoneMono
  <2>6. CASE j = ki /\ AbortKind
    BY <2>6 DEF AbortKind, KindDone
  <2>7. CASE j = ki /\ RefetchKind
    <3>1. \A i \in 1..Len(Desired(Kinds[j])) : Covered(Kinds[j], Desired(Kinds[j])[i])
      <4>1. pc = "create" /\ idx > Len(Desired(Kinds[ki]))
        BY <2>7 DEF RefetchKind
      <4>2. Len(Desired(Kinds[ki])) \in Nat /\ idx \in Nat
        BY DesiredType DEF TypeOK
      <4>3. \A i \in 1..(idx - 1) : Covered(Kinds[ki], Desired(Kinds[ki])[i])
        BY <4>1 DEF CInv, LoopCovered
      <4>. QED
        BY <2>7, <4>1, <4>2, <4>3
    <3>. QED
      BY <2>1, <2>4, <2>7, <3>1, CoveredMono DEF KindDone
  <2>. QED
    BY <2>3, <2>5, <2>6, <2>7, <1>1 DEF TypeOK
<1>2. CASE Restart
  BY <1>2 DEF Restart, PassesDone, PassPcs
<1>3. CASE ~RefetchKind /\ ~AbortKind /\ ~Restart
  <2>1. /\ ki' = ki /\ local' = local
        /\ remote \subseteq remote' /\ failed \subseteq failed'
        /\ pc' \in PassPcs => pc \in PassPcs
    BY <1>3, QuietStep
  <2> SUFFICES ASSUME NEW j \in 1..Len(Kinds), j < ki' \/ pc' \in PassPcs
               PROVE  KindDone(j)'
    BY DEF PassesDone, PassPcs
  <2>2. KindDone(j)
    BY <2>1 DEF CInv, PassesDone, PassPcs
  <2>. QED
    BY <2>1, <2>2, KindDoneMono
<1>. QED
  BY <1>1, <1>2, <1>3


LEMMA LoopCoveredStep ==
    ASSUME TypeOK, CInv, [Next]_vars
    PROVE  LoopCovered'
<1> SUFFICES ASSUME pc' = "create" PROVE LoopCovered'
  BY DEF LoopCovered
\* The kind being reconciled, as a constant of the step.
<1>0. PICK k \in KindNames : k = Kinds[ki]
  BY KindsType DEF TypeOK
<1>b. Desired(k) \in Seq(Names) /\ idx \in Nat
  BY DesiredType DEF TypeOK
\* Steps that leave the loop where it is and NetBox no smaller.
<1>a. ASSUME pc = "create", UNCHANGED <<pc, ki, idx, pre, local>>,
             remote \subseteq remote'
      PROVE  LoopCovered'
  <2>1. pre \subseteq NamesOf(k) /\ \A i \in 1..(idx - 1) : Covered(k, Desired(k)[i])
    BY <1>0, <1>a DEF CInv, LoopCovered
  <2>2. pre' \subseteq NamesOf(k)'
    BY <1>a, <2>1 DEF NamesOf, OfKind
  <2>3. \A i \in 1..(idx - 1) : Covered(k, Desired(k)[i])'
    BY <1>a, <2>1, CoveredMono
  <2>. QED
    BY <1>0, <1>a, <2>2, <2>3 DEF LoopCovered
<1>1. CASE FetchKind
  BY <1>0, <1>1 DEF FetchKind, LoopCovered, NamesOf, OfKind
<1>2. CASE SkipItem
  <2>1. pre \subseteq NamesOf(k) /\ \A i \in 1..(idx - 1) : Covered(k, Desired(k)[i])
    BY <1>0, <1>2 DEF SkipItem, CInv, LoopCovered
  <2>2. \A i \in 1..idx : Covered(k, Desired(k)[i])
    BY <1>0, <1>b, <1>2, <2>1 DEF SkipItem, Covered
  <2>3. UNCHANGED <<remote, local, ki, pre>> /\ idx' = idx + 1
    BY <1>2 DEF SkipItem
  <2>4. \A i \in 1..idx : Covered(k, Desired(k)[i])'
    BY <2>2, <2>3, CoveredMono
  <2>. QED
    BY <1>0, <1>b, <2>1, <2>3, <2>4 DEF LoopCovered, NamesOf, OfKind
<1>3. CASE CreateItem
  <2>0. PICK n \in Names : n = Desired(k)[idx]
    <3>1. idx \in 1..Len(Desired(k))
      BY <1>0, <1>3 DEF CreateItem, TypeOK
    <3>. QED
      BY <1>b, <3>1
  <2> DEFINE grp == {g \in local["groups"] : g.name = n}
             mfr == local["manufacturers"]
             rec == NewRecord(k, n, CreateRefs(k, grp, mfr), CreateOts(k, n))
  <2>1. pre \subseteq NamesOf(k) /\ \A i \in 1..(idx - 1) : Covered(k, Desired(k)[i])
    BY <1>0, <1>3 DEF CreateItem, CInv, LoopCovered
  <2>2. /\ remote \subseteq remote' /\ local' = local
        /\ UNCHANGED <<ki, pre>> /\ idx' = idx + 1
    BY <1>3 DEF CreateItem
  <2>3. Covered(k, n)'
    <3>1. CASE Accepts(rec)
      <4>1. rec \in remote'
        BY <1>0, <2>0, <1>3, <3>1 DEF CreateItem
      <4>2. rec.kind = k /\ rec.name = n
        BY DEF NewRecord
      <4>. QED
        BY <4>1, <4>2 DEF Covered, NamesOf, OfKind
    <3>2. CASE ~Accepts(rec)
      <4>1. /\ rec.kind = k /\ rec.name = n /\ rec.slug = Slug[rec.name]
            /\ rec.kind = "deviceTypes" => rec.refs = MinIds(mfr)
        BY DEF NewRecord, CreateRefs
      <4>2. Covered(k, n)
        BY <3>2, <4>1, RejectedCovered
      <4>. QED
        BY <2>2, <4>2, CoveredMono
    <3>. QED
      BY <3>1, <3>2
  <2>4. pre' \subseteq NamesOf(k)'
    BY <2>1, <2>2 DEF NamesOf, OfKind
  <2>5. \A i \in 1..(idx - 1) : Covered(k, Desired(k)[i])'
    BY <2>1, <2>2, CoveredMono
  <2>6. \A i \in 1..(idx' - 1) : Covered(k, Desired(k)[i])'
    BY <1>b, <2>0, <2>2, <2>3, <2>5
  <2>. QED
    BY <1>0, <2>2, <2>4, <2>6 DEF LoopCovered
<1>4. CASE ExternalCreate \/ ApiDown \/ ApiUp
  <2>1. pc = "create" /\ UNCHANGED <<pc, ki, idx, pre, local>> /\ remote \subseteq remote'
    BY <1>4 DEF ExternalCreate, ApiDown, ApiUp
  <2>. QED
    BY <2>1, <1>a
<1>5. CASE UNCHANGED vars
  BY <1>5, <1>a DEF vars
\* None of the other steps ends in the creation loop.
<1>6. CASE WaitForApi \/ Restart \/ Terminated
  BY <1>6 DEF WaitForApi, Restart, Terminated, vars
<1>9. CASE FetchPrefixes
  <2>1. pc' \in {"update", "done"}
    BY <1>9 DEF FetchPrefixes
  <2>. QED
    BY <2>1
<1>7. CASE RefetchKind \/ AbortKind
  <2>1. NextKind
    BY <1>7 DEF RefetchKind, AbortKind
  <2>. QED
    BY <2>1 DEF NextKind
<1>8. CASE UpdatePrefix
  BY <1>8 DEF UpdatePrefix
<1>. QED
  BY <1>1, <1>2, <1>3, <1>4, <1>5, <1>6, <1>7, <1>8, <1>9 DEF Next, Step,
     Program, Environment

LEMMA PrefixesCoveredStep ==
    ASSUME TypeInv, CInv, [Next]_vars
    PROVE  PrefixesCovered'
<1>. USE ConstantsAssumption
<1>1. CASE FetchPrefixes
  BY <1>1 DEF FetchPrefixes, PrefixesCovered
<1>2. CASE UpdatePrefix
  <2>1. pc = "update"
    BY <1>2 DEF UpdatePrefix
  <2>2. \A p \in Prefixes :
           (prefixes[p].vrf # NoVrf /\ prefixes[p].desc = Empty) => p \in pending
    BY <2>1 DEF CInv, PrefixesCovered
  <2>3. CASE pending = {} /\ pc' = "done" /\ UNCHANGED <<prefixes, pending, failed>>
    BY <2>2, <2>3 DEF PrefixesCovered
  <2>4. CASE pending # {} /\ apiUp /\ UNCHANGED <<pc, failed>>
             /\ \E p \in pending :
                   /\ prefixes' = [prefixes EXCEPT ![p].desc = prefixes[p].vrf]
                   /\ pending' = pending \ {p}
    <3>1. PICK p \in pending :
             /\ prefixes' = [prefixes EXCEPT ![p].desc = prefixes[p].vrf]
             /\ pending' = pending \ {p}
      BY <2>4
    <3>2. prefixes[p].vrf \in VRFs
      BY DEF TypeInv, PendingHaveVrf, TypeOK, PrefixRec
    <3>3. prefixes'[p].desc # Empty /\ prefixes'[p].vrf = prefixes[p].vrf
      BY <3>1, <3>2 DEF TypeInv, TypeOK, PrefixRec
    <3>4. \A q \in Prefixes \ {p} : prefixes'[q] = prefixes[q]
      BY <3>1 DEF TypeInv, TypeOK
    <3>. QED
      BY <2>1, <2>2, <2>4, <3>1, <3>3, <3>4 DEF PrefixesCovered
  <2>5. CASE pending # {} /\ ~apiUp /\ failed' = failed \cup {"prefixes"}
             /\ pc' = "done" /\ UNCHANGED <<prefixes, pending>>
    BY <2>5 DEF PrefixesCovered
  <2>. QED
    BY <1>2, <2>3, <2>4, <2>5 DEF UpdatePrefix
<1>3. CASE Restart
  BY <1>3 DEF Restart, PrefixesCovered
<1>4. CASE WaitForApi \/ FetchKind \/ SkipItem \/ CreateItem
  BY <1>4 DEF WaitForApi, FetchKind, SkipItem, CreateItem, PrefixesCovered
<1>5. CASE RefetchKind \/ AbortKind
  <2>1. pc \in {"fetch", "create"} /\ pc' \in {"fetch", "prefixes"}
    BY <1>5 DEF RefetchKind, AbortKind, NextKind
  <2>. QED
    BY <2>1 DEF PrefixesCovered
<1>6. CASE ApiDown \/ ApiUp \/ ExternalCreate \/ Terminated \/ UNCHANGED vars
  <2>1. UNCHANGED <<prefixes, pending, pc, failed>>
    BY <1>6 DEF ApiDown, ApiUp, ExternalCreate, Terminated, vars
  <2>. QED
    BY <2>1 DEF CInv, PrefixesCovered
<1>. QED
  BY <1>1, <1>2, <1>3, <1>4, <1>5, <1>6 DEF Next, Step, Program, Environment

LEMMA CInvStep == TypeInv /\ CInv /\ [Next]_vars => CInv'
BY PassesDoneStep, LoopCoveredStep, PrefixesCoveredStep DEF TypeInv, CInv

\* Convergence (section 4.2), for every value of the constants: whenever
\* main() has finished, every desired name of every kind whose try block
\* completed exists in NetBox or was refused for a reason Blocked names,
\* and a completed prefix pass left no prefix with a VRF undescribed;
\* whatever restarts, outages and another client's creates came between.
THEOREM ConvergedHolds == Spec => []Converged
<1>1. CInv => Converged
  <2> SUFFICES ASSUME CInv, pc = "done" PROVE Converged
    BY DEF Converged
  <2>1. ASSUME NEW k \in KindNames \ failed, NEW i \in 1..Len(Desired(k))
        PROVE  Desired(k)[i] \in NamesOf(k) \/ Blocked(k, Desired(k)[i])
    <3>1. PICK j \in 1..Len(Kinds) : Kinds[j] = k
      BY KindsPositions
    <3>2. KindDone(j)
      BY DEF CInv, PassesDone
    <3>. QED
      BY <3>1, <3>2 DEF KindDone, Covered
  <2>2. "prefixes" \notin failed =>
          \A p \in Prefixes : prefixes[p].vrf # NoVrf => prefixes[p].desc # Empty
    BY DEF CInv, PrefixesCovered
  <2>. QED
    BY <2>1, <2>2 DEF Converged
<1>. QED
  BY TypeInvariant, CInvInit, CInvStep, <1>1, PTL DEF Spec

=============================================================================
