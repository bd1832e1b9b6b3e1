-------------------------- MODULE ReconcilerProofs --------------------------
(***************************************************************************)
(* Proofs about the Resource Reconciler, for every value of the constants  *)
(* that satisfies ConstantsAssumption.                                     *)
(***************************************************************************)
EXTENDS Reconciler, TLAPS

\* Every creation list is a list of names.
LEMMA DesiredType ==
    \A k \in KindNames : Desired(k) \in Seq(Names)
<1>1. PermKeys \in Seq(Names)
  BY ConstantsAssumption DEF PermKeys
<1>2. <<StaffGroup, DefaultGroup>> \in Seq(Names)
  BY ConstantsAssumption
<1>3. KindNames = {"groups", "permissions", "manufacturers", "roles", "deviceTypes", "sites"}
  BY DEF KindNames, Kinds
<1>. QED
  BY <1>1, <1>2, <1>3, ConstantsAssumption DEF Desired

\* The catalogue has six kinds.
LEMMA KindsType ==
    /\ Len(Kinds) = 6
    /\ \A i \in 1..Len(Kinds) : Kinds[i] \in KindNames
BY DEF Kinds, KindNames

\* A record the script creates has the type of a NetBox record.
LEMMA NewRecordType ==
    ASSUME NEW k \in KindNames, NEW n \in Names, NEW refs \in SUBSET Nat,
           NEW ots \in SUBSET ObjectTypes, nextId \in Nat
    PROVE  NewRecord(k, n, refs, ots) \in Record
BY ConstantsAssumption DEF NewRecord, Record, Creators

-----------------------------------------------------------------------------

\* Leaving a kind lands on a valid kind, at the start of its list.
LEMMA NextKindType ==
    ASSUME TypeOK, NextKind
    PROVE  /\ ki' \in 1..Len(Kinds)
           /\ idx' \in 1..(Len(Desired(Kinds[ki'])) + 1)
           /\ pc' \in Pcs
<1>1. ki' \in 1..Len(Kinds) /\ pc' \in Pcs /\ idx' = 1
  BY KindsType DEF NextKind, TypeOK, Pcs
<1>2. Len(Desired(Kinds[ki'])) \in Nat
  BY <1>1, KindsType, DesiredType
<1>. QED
  BY <1>1, <1>2

\* The references and object types of a created record are ids and object
\* types.
LEMMA CreateFieldsType ==
    ASSUME NEW k, NEW n, NEW grp \in SUBSET Record, NEW mfr \in SUBSET Record
    PROVE  /\ CreateRefs(k, grp, mfr) \in SUBSET Nat
           /\ CreateOts(k, n) \in SUBSET ObjectTypes
BY DEF CreateRefs, CreateOts, IdsOf, MinIds, Record

-----------------------------------------------------------------------------

\* The filter of line 911 keeps only prefixes with a VRF, and no step
\* changes a prefix's VRF: every prefix the update loop still has to
\* update references a VRF, so str(prefix.vrf) is a VRF name.
PendingHaveVrf == \A p \in pending : prefixes[p].vrf # NoVrf

TypeInv == TypeOK /\ PendingHaveVrf

\* TypeInv holds in every reachable state.
LEMMA TypeInvariant == Spec => []TypeInv
<1>1. Init => TypeOK
  <2> SUFFICES ASSUME Init PROVE TypeOK
    OBVIOUS
  <2>1. remote \subseteq Record
    BY ConstantsAssumption DEF Init
  <2>2. Len(Desired(Kinds[1])) \in Nat
    BY KindsType, DesiredType
  <2>3. local \in [KindNames -> SUBSET Record]
    BY DEF Init
  <2>. QED
    BY <2>1, <2>2, <2>3, ConstantsAssumption, KindsType DEF Init, TypeOK, Pcs
<1>2. TypeInv /\ [Next]_vars => TypeOK'
  <2> SUFFICES ASSUME TypeOK, PendingHaveVrf, [Next]_vars PROVE TypeOK'
    BY DEF TypeInv
  <2>0. /\ Kinds[ki] \in KindNames
        /\ Desired(Kinds[ki]) \in Seq(Names)
        /\ Len(Desired(Kinds[ki])) \in Nat
    BY KindsType, DesiredType DEF TypeOK
  <2>b. MaxOutages \in Nat /\ MaxExternal \in Nat /\ MaxRuns \in Nat
    BY ConstantsAssumption
  <2>1. CASE WaitForApi
    BY <2>1 DEF WaitForApi, TypeOK, Pcs
  <2>2. CASE FetchKind
    <3>1. pre' \subseteq Names
      BY <2>2 DEF FetchKind, NamesOf, OfKind, Record, TypeOK
    <3>. QED
      BY <2>0, <2>2, <3>1 DEF FetchKind, TypeOK, Pcs
  <2>3. CASE SkipItem
    BY <2>0, <2>3 DEF SkipItem, TypeOK
  <2>4. CASE CreateItem
    <3> DEFINE k == Kinds[ki]
               n == Desired(k)[idx]
               grp == {g \in local["groups"] : g.name = n}
               mfr == local["manufacturers"]
               rec == NewRecord(k, n, CreateRefs(k, grp, mfr), CreateOts(k, n))
    <3>1. k \in KindNames /\ n \in Names
      BY <2>0, <2>4 DEF CreateItem, TypeOK
    <3>2. grp \in SUBSET Record /\ mfr \in SUBSET Record
      <4>1. {"groups", "manufacturers"} \subseteq KindNames
        BY DEF KindNames, Kinds
      <4>. QED
        BY <4>1 DEF TypeOK
    <3>3. rec \in Record
      BY <3>1, <3>2, CreateFieldsType, NewRecordType DEF TypeOK
    <3>4. \/ remote' = remote \cup {rec} /\ nextId' = nextId + 1
          \/ remote' = remote /\ nextId' = nextId
      BY <2>4 DEF CreateItem
    <3>5. remote' \subseteq Record /\ nextId' \in Nat
      BY <3>3, <3>4 DEF TypeOK
    <3>6. idx' \in 1..(Len(Desired(Kinds[ki'])) + 1)
      BY <2>0, <2>4 DEF CreateItem, TypeOK
    <3>. QED
      BY <2>4, <3>5, <3>6 DEF CreateItem, TypeOK
  <2>5. CASE RefetchKind
    <3>1. local' \in [KindNames -> SUBSET Record]
      BY <2>0, <2>5 DEF RefetchKind, OfKind, TypeOK
    <3>. QED
      BY <2>5, <3>1, NextKindType DEF RefetchKind, TypeOK
  <2>6. CASE AbortKind
    <3>1. failed' \subseteq KindNames \cup {"prefixes"}
      BY <2>0, <2>6 DEF AbortKind, TypeOK
    <3>. QED
      BY <2>6, <3>1, NextKindType DEF AbortKind, TypeOK
  <2>7. CASE FetchPrefixes
    BY <2>7 DEF FetchPrefixes, TypeOK, Pcs
  <2>8. CASE UpdatePrefix
    <3>1. prefixes' \in [Prefixes -> PrefixRec]
      <4>1. \A p \in pending : prefixes[p].vrf \in VRFs
        BY DEF TypeOK, PendingHaveVrf, PrefixRec
      <4>. QED
        BY <2>8, <4>1 DEF UpdatePrefix, TypeOK, PrefixRec
    <3>. QED
      BY <2>8, <3>1 DEF UpdatePrefix, TypeOK, Pcs
  <2>9. CASE Restart
    <3>1. Len(Desired(Kinds[1])) \in Nat
      BY KindsType, DesiredType
    <3>. QED
      BY <2>9, <3>1, KindsType, ConstantsAssumption DEF Restart, TypeOK, Pcs
  <2>10. CASE ApiDown
    <3>1. outages' \in 0..MaxOutages
      BY <2>10, <2>b DEF ApiDown, TypeOK
    <3>. QED
      BY <2>10, <3>1 DEF ApiDown, TypeOK
  <2>11. CASE ApiUp
    BY <2>11 DEF ApiUp, TypeOK
  <2>12. CASE ExternalCreate
    <3>1. remote' \subseteq Record
      <4>1. ExtKinds \subseteq KindNames
        BY ConstantsAssumption DEF KindNames, Kinds
      <4>. QED
        BY <2>12, <4>1, ConstantsAssumption DEF ExternalCreate, TypeOK, Record, Creators
    <3>. QED
      <4>1. ext' \in 0..MaxExternal /\ nextId' \in Nat
        BY <2>12, <2>b DEF ExternalCreate, TypeOK
      <4>. QED
        BY <2>12, <3>1, <4>1 DEF ExternalCreate, TypeOK
  <2>13. CASE Terminated \/ UNCHANGED vars
    BY <2>13 DEF Terminated, TypeOK, vars
  <2>. QED
    BY <2>1, <2>2, <2>3, <2>4, <2>5, <2>6, <2>7, <2>8, <2>9, <2>10, <2>11,
       <2>12, <2>13 DEF Next, Step, Program, Environment
<1>3. TypeInv /\ [Next]_vars => PendingHaveVrf'
  <2> SUFFICES ASSUME TypeOK, PendingHaveVrf, [Next]_vars PROVE PendingHaveVrf'
    BY DEF TypeInv
  <2>1. CASE FetchPrefixes
    BY <2>1 DEF FetchPrefixes, PendingHaveVrf
  <2>2. CASE UpdatePrefix
    BY <2>2 DEF UpdatePrefix, PendingHaveVrf, TypeOK
  <2>3. CASE Restart
    BY <2>3 DEF Restart, PendingHaveVrf
  <2>4. CASE ~FetchPrefixes /\ ~UpdatePrefix /\ ~Restart
    <3>1. UNCHANGED <<pending, prefixes>>
      BY <2>4 DEF Next, Step, Program, Environment, vars, WaitForApi, FetchKind,
         SkipItem, CreateItem, RefetchKind, AbortKind, ApiDown, ApiUp,
         ExternalCreate, Terminated
    <3>. QED
      BY <3>1 DEF PendingHaveVrf
  <2>. QED
    BY <2>1, <2>2, <2>3, <2>4
<1>4. Init => PendingHaveVrf
  BY DEF Init, PendingHaveVrf
<1>. QED
  BY <1>1, <1>2, <1>3, <1>4, PTL DEF Spec, TypeInv

\* Type correctness: every reachable state gives each variable of main()
\* and of the NetBox model a value of its type; in particular idx never
\* leaves the creation list of the kind being reconciled by more than one.
THEOREM TypeCorrect == Spec => []TypeOK
BY TypeInvariant, PTL DEF TypeInv

=============================================================================
