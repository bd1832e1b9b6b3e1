----------------------------- MODULE Reconciler -----------------------------
(***************************************************************************)
(* The Resource Reconciler of netbox_init.py (main(), lines 700-920): the  *)
(* connectivity wait loop, then for each kind of the fixed catalogue       *)
(* groups, permissions, manufacturers, roles, device types and sites:      *)
(* fetch the existing records, create every desired name that was absent, *)
(* re-fetch the kind as the authoritative local map; finally back-fill the *)
(* description of prefixes that reference a VRF.                          *)
(*                                                                         *)
(* The remote NetBox API is the environment: it may go down and come back *)
(* (apiUp), it enforces the uniqueness constraints of the NetBox models,   *)
(* and another client may create records concurrently (ExternalCreate).   *)
(* A transport error (API down) raised inside a kind's try block aborts   *)
(* the rest of that kind; a pynetbox.RequestError (validation) on one     *)
(* create is logged and the loop goes on.                                 *)
(***************************************************************************)
EXTENDS Naturals, Sequences, FiniteSets

CONSTANTS
    Names,          \* natural keys: group, manufacturer, role, model, site names
    Slugs,          \* values of slugify()
    Slug,           \* slugify(): Names -> Slugs
    StaffGroup,     \* args.staffGroupName
    DefaultGroup,   \* args.defaultGroupName
    Manufacturers,  \* args.manufacturers
    Roles,          \* args.roles
    DeviceTypes,    \* args.deviceTypes
    Sites,          \* args.netboxSites
    ObjectTypes,    \* what nb.extras.object_types.all() lists
    DefaultExcluded,\* 'exclude_objects' of the default group's permission
    Wait,           \* args.wait
    Seed,           \* records that may exist in NetBox before the run, by "seed"
    FirstId,        \* the id NetBox assigns to the first record we create
    Prefixes,       \* ids of the ipam prefixes
    VRFs,           \* VRF names
    NoVrf, Empty,   \* prefix without a VRF; empty description
    ExtKinds,       \* kinds another client may create concurrently
    MaxOutages,     \* bound on the number of times the API goes down
    MaxExternal,    \* bound on concurrent creations by another client
    MaxRuns         \* bound on the number of invocations of the script

Kinds == <<"groups", "permissions", "manufacturers", "roles", "deviceTypes", "sites">>
KindNames == {Kinds[i] : i \in 1..Len(Kinds)}

\* Kinds whose NetBox model has a unique name, resp. a unique slug.  A device
\* type is unique by (manufacturer, model) and (manufacturer, slug).
NameUnique == {"groups", "manufacturers", "roles", "deviceTypes", "sites"}
SlugUnique == {"manufacturers", "roles", "deviceTypes", "sites"}

\* DEFAULT_PERMISSIONS is keyed f'{group}_permission'; the key is modelled by
\* the group name, so equal group names collapse the dict to one entry whose
\* value is the later (default group's) literal.
PermKeys == IF StaffGroup = DefaultGroup THEN <<DefaultGroup>>
                                         ELSE <<StaffGroup, DefaultGroup>>

\* Mutant: the exclude lists of the two permissions swapped.
ExcludedSwapped(p) == IF p = StaffGroup THEN DefaultExcluded ELSE {}

Excluded(p) == IF p = DefaultGroup THEN DefaultExcluded ELSE {}

\* The list each kind's creation loop iterates over.
Desired(k) ==
    IF k = "groups"             THEN <<StaffGroup, DefaultGroup>>
    ELSE IF k = "permissions"   THEN PermKeys
    ELSE IF k = "manufacturers" THEN Manufacturers
    ELSE IF k = "roles"         THEN Roles
    ELSE IF k = "deviceTypes"   THEN DeviceTypes
    ELSE Sites

Creators == {"seed", "init", "ext"}

Record == [kind : KindNames, name : Names, slug : Slugs, id : Nat,
           refs : SUBSET Nat, ots : SUBSET ObjectTypes, by : Creators]

PrefixRec == [vrf : VRFs \cup {NoVrf}, desc : VRFs \cup {Empty}]

ASSUME ConstantsAssumption ==
    /\ Slug \in [Names -> Slugs]
    /\ {StaffGroup, DefaultGroup} \subseteq Names
    /\ \A k \in {"manufacturers", "roles", "deviceTypes", "sites"} : Desired(k) \in Seq(Names)
    /\ DefaultExcluded \subseteq ObjectTypes
    /\ Wait \in BOOLEAN
    /\ Seed \subseteq Record /\ \A r \in Seed : r.by = "seed"
    /\ FirstId \in Nat /\ \A r \in Seed : r.id < FirstId
    /\ NoVrf \notin VRFs /\ Empty \notin VRFs
    /\ ExtKinds \subseteq {"groups", "manufacturers", "roles", "sites"}
    /\ {MaxOutages, MaxExternal} \subseteq Nat /\ MaxRuns \in Nat \ {0}

VARIABLES
    remote,     \* the records NetBox holds
    nextId,     \* the id NetBox gives the next record
    prefixes,   \* ipam prefixes: id -> [vrf, desc]
    apiUp,      \* whether the NetBox API answers
    outages,    \* number of times the API went down
    ext,        \* number of records another client created
    run,        \* which invocation of the script is running
    pc,         \* where main() is
    ki,         \* index in Kinds of the kind being reconciled
    pre,        \* names of the kind fetched before the creation loop (xxxPreExisting)
    idx,        \* index in Desired(Kinds[ki]) of the next name to create
    local,      \* the local dicts groups, permissions, ... (kind -> records)
    pending,    \* prefixes the filter returned and not yet updated
    failed      \* kinds whose except branch fired in this run (the error log)

vars == <<remote, nextId, prefixes, apiUp, outages, ext, run, pc, ki, pre,
          idx, local, pending, failed>>

Pcs == {"wait", "fetch", "create", "prefixes", "update", "done"}

-----------------------------------------------------------------------------
(* Helpers on the remote state.                                            *)

OfKind(k) == {r \in remote : r.kind = k}

NamesOf(k) == {r.name : r \in OfKind(k)}

IdsOf(S) == {r.id : r \in S}

\* Two records of kind k that NetBox's unique constraints compare.
SameScope(r, s) == r.kind = "deviceTypes" => r.refs = s.refs

\* NetBox accepts a new record iff it violates no unique constraint and a
\* device type has a manufacturer; otherwise create() raises RequestError.
Accepts(rec) ==
    /\ rec.kind = "deviceTypes" => rec.refs # {}
    /\ \A r \in OfKind(rec.kind) :
          SameScope(r, rec) =>
             /\ rec.kind \in NameUnique => r.name # rec.name
             /\ rec.kind \in SlugUnique => r.slug # rec.slug

\* A remote state NetBox can be in: references resolve, constraints hold.
Consistent(S) ==
    /\ \A r \in S : r.refs \subseteq IdsOf(S)
    /\ \A r, s \in S : r.id = s.id => r = s
    /\ \A r, s \in S : (r # s /\ r.kind = s.kind /\ SameScope(r, s)) =>
          /\ r.kind \in NameUnique => r.name # s.name
          /\ r.kind \in SlugUnique => r.slug # s.slug

\* min_hash_value_by_value(manufacturers): the entry sorted first.  With one
\* entry that is the entry; with more, sorted() compares pynetbox Records,
\* which either raises TypeError (AbortKind) or, were Records ordered, gives
\* a fixed choice, taken here as the smallest id.  The ids are distinct, so
\* this is {manuf.id} for the chosen entry, and {} (None) for an empty dict.
MinIds(S) == {m.id : m \in {r \in S : \A s \in S : r.id <= s.id}}

\* The references a created record carries: permConfig['groups'] for a
\* permission (line 802), the manufacturer of a device type (line 871).
CreateRefs(k, grp, mfr) ==
    IF k = "permissions" THEN IdsOf(grp)
    ELSE IF k = "deviceTypes" THEN MinIds(mfr)
    ELSE {}

\* The object types a created permission grants (lines 791-805).
CreateOts(k, n) == IF k = "permissions" THEN ObjectTypes \ Excluded(n) ELSE {}

NewRecord(k, n, refs, ots) ==
    [kind |-> k, name |-> n, slug |-> Slug[n], id |-> nextId, refs |-> refs,
     ots |-> ots, by |-> "init"]

\* Mutant: the walk over the kinds does not stop after the last one.
NextKindNoBound ==
    /\ pc' = "fetch" /\ ki' = ki + 1
    /\ idx' = 1

\* Leave kind Kinds[ki] and go to the next one, or to the prefix pass.
NextKind ==
    /\ IF ki < Len(Kinds) THEN pc' = "fetch" /\ ki' = ki + 1
                          ELSE pc' = "prefixes" /\ ki' = ki
    /\ idx' = 1

-----------------------------------------------------------------------------
(* The program.                                                            *)

Init ==
    /\ remote \in {S \in SUBSET Seed : Consistent(S)}
    /\ nextId = FirstId
    /\ prefixes \in [Prefixes -> PrefixRec]
    /\ apiUp \in BOOLEAN
    /\ outages = 0
    /\ ext = 0
    /\ run = 1
    /\ pc = "wait"
    /\ ki = 1
    /\ pre = {}
    /\ idx = 1
    /\ local = [k \in KindNames |-> {}]
    /\ pending = {}
    /\ failed = {}

\* Mutant: the wait loop has lost its break.
WaitForApiNoBreak ==
    /\ pc = "wait"
    /\ UNCHANGED vars

\* while args.wait: try nb.dcim.sites.all(); break (lines 720-727).  The
\* failing attempts and the sleep change nothing; without --wait the loop
\* body never runs.
WaitForApi ==
    /\ pc = "wait"
    /\ apiUp \/ ~Wait
    /\ pc' = "fetch"
    /\ UNCHANGED <<remote, nextId, prefixes, apiUp, outages, ext, run, ki,
                   pre, idx, local, pending, failed>>

\* Mutant: the creation list is not filtered by what already exists.
FetchKindNoFilter ==
    /\ pc = "fetch"
    /\ apiUp
    /\ pre' = {}
    /\ idx' = 1
    /\ pc' = "create"
    /\ UNCHANGED <<remote, nextId, prefixes, apiUp, outages, ext, run, ki,
                   local, pending, failed>>

\* Mutant: the creation loop starts at the second name.
FetchKindSkipFirst ==
    /\ pc = "fetch"
    /\ apiUp
    /\ pre' = NamesOf(Kinds[ki])
    /\ idx' = 2
    /\ pc' = "create"
    /\ UNCHANGED <<remote, nextId, prefixes, apiUp, outages, ext, run, ki,
                   local, pending, failed>>

\* xxxPreExisting = {x.name: x for x in nb.<kind>.all()}; for permissions
\* also allObjectTypeNames (lines 736, 791-793, 819, 841, 865, 889).
FetchKind ==
    /\ pc = "fetch"
    /\ apiUp
    /\ pre' = NamesOf(Kinds[ki])
    /\ idx' = 1
    /\ pc' = "create"
    /\ UNCHANGED <<remote, nextId, prefixes, apiUp, outages, ext, run, ki,
                   local, pending, failed>>

\* The comprehension [x for x in Desired(k) if x not in xxxPreExisting] has
\* no side effect, so the model walks Desired(k) and passes over the names
\* it drops (SkipItem).
SkipItem ==
    /\ pc = "create"
    /\ idx <= Len(Desired(Kinds[ki]))
    /\ Desired(Kinds[ki])[idx] \in pre
    /\ idx' = idx + 1
    /\ UNCHANGED <<remote, nextId, prefixes, apiUp, outages, ext, run, pc, ki,
                   pre, local, pending, failed>>

\* One nb.<kind>.create(...) of the loop (lines 740-744, 797-810, 823-832,
\* 845-856, 869-880, 893-902) when the API answers.  A rejected create is a
\* RequestError: logged, and the loop goes on.
CreateItem ==
    /\ pc = "create"
    /\ apiUp
    /\ idx <= Len(Desired(Kinds[ki]))
    /\ Desired(Kinds[ki])[idx] \notin pre
    /\ LET k == Kinds[ki]
           n == Desired(k)[idx]
           grp == {g \in local["groups"] : g.name = n}
           mfr == local["manufacturers"]
       IN  \* permConfig['groups'] = [groups[x].id ...] raises KeyError otherwise
           /\ k = "permissions" => grp # {}
           \* sorting two or more pynetbox Records may raise TypeError; the
           \* abort of that outcome is AbortKind
           /\ LET rec == NewRecord(k, n, CreateRefs(k, grp, mfr), CreateOts(k, n))
              IN  IF Accepts(rec)
                  THEN remote' = remote \cup {rec} /\ nextId' = nextId + 1
                  ELSE UNCHANGED <<remote, nextId>>
    /\ idx' = idx + 1
    /\ UNCHANGED <<prefixes, apiUp, outages, ext, run, pc, ki, pre, local,
                   pending, failed>>

\* The creation loop is over: re-fetch the kind as the local dict
\* (lines 746, 812, 834, 858, 882, 904).
RefetchKind ==
    /\ pc = "create"
    /\ idx > Len(Desired(Kinds[ki]))
    /\ apiUp
    /\ local' = [local EXCEPT ![Kinds[ki]] = OfKind(Kinds[ki])]
    /\ NextKind
    /\ UNCHANGED <<remote, nextId, prefixes, apiUp, outages, ext, run, pre,
                   pending, failed>>

\* The except Exception branch of a kind (lines 748, 814, 836, 860, 884,
\* 906): the API is down during a fetch, a create or the re-fetch; or
\* groups[x] raises KeyError; or sorting the manufacturers raises TypeError.
\* The local dict keeps its value ({} unless set before).
AbortKind ==
    /\ pc \in {"fetch", "create"}
    /\ LET k == Kinds[ki] IN
       \/ ~apiUp /\ (pc = "create" /\ idx <= Len(Desired(k)) => Desired(k)[idx] \notin pre)
       \/ /\ pc = "create" /\ idx <= Len(Desired(k)) /\ Desired(k)[idx] \notin pre
          /\ \/ k = "permissions" /\ \A g \in local["groups"] : g.name # Desired(k)[idx]
             \/ k = "deviceTypes" /\ Cardinality(local["manufacturers"]) >= 2
    /\ failed' = failed \cup {Kinds[ki]}
    /\ NextKind
    /\ UNCHANGED <<remote, nextId, prefixes, apiUp, outages, ext, run, pre,
                   local, pending>>

\* [x for x in nb.ipam.prefixes.filter(description__empty=True) if x.vrf]
\* (line 911).
FetchPrefixes ==
    /\ pc = "prefixes"
    /\ \/ /\ apiUp
          /\ pending' = {p \in Prefixes : prefixes[p].desc = Empty /\ prefixes[p].vrf # NoVrf}
          /\ pc' = "update"
          /\ UNCHANGED failed
       \/ /\ ~apiUp
          /\ failed' = failed \cup {"prefixes"}
          /\ pc' = "done"
          /\ UNCHANGED pending
    /\ UNCHANGED <<remote, nextId, prefixes, apiUp, outages, ext, run, ki,
                   pre, idx, local>>

\* prefix.update({"description": str(prefix.vrf)}) (lines 913-917); an
\* error ends the loop through the except branch (line 919).
UpdatePrefix ==
    /\ pc = "update"
    /\ \/ /\ pending = {}
          /\ pc' = "done"
          /\ UNCHANGED <<prefixes, pending, failed>>
       \/ /\ pending # {} /\ apiUp
          /\ \E p \in pending :
                /\ prefixes' = [prefixes EXCEPT ![p].desc = prefixes[p].vrf]
                /\ pending' = pending \ {p}
          /\ UNCHANGED <<pc, failed>>
       \/ /\ pending # {} /\ ~apiUp
          /\ failed' = failed \cup {"prefixes"}
          /\ pc' = "done"
          /\ UNCHANGED <<prefixes, pending>>
    /\ UNCHANGED <<remote, nextId, apiUp, outages, ext, run, ki, pre, idx, local>>

\* The script is started again (the container restarts), after main() has
\* finished or in the middle of it (the process is killed): a new process,
\* so every local variable of main() starts afresh, while what NetBox
\* holds persists.
Restart ==
    /\ run < MaxRuns
    /\ run' = run + 1
    /\ pc' = "wait"
    /\ ki' = 1
    /\ pre' = {}
    /\ idx' = 1
    /\ local' = [k \in KindNames |-> {}]
    /\ pending' = {}
    /\ failed' = {}
    /\ UNCHANGED <<remote, nextId, prefixes, apiUp, outages, ext>>

Terminated ==
    /\ pc = "done"
    /\ run = MaxRuns
    /\ UNCHANGED vars

-----------------------------------------------------------------------------
(* The environment.                                                        *)

ApiDown ==
    /\ apiUp
    /\ outages < MaxOutages
    /\ apiUp' = FALSE
    /\ outages' = outages + 1
    /\ UNCHANGED <<remote, nextId, prefixes, ext, run, pc, ki, pre, idx,
                   local, pending, failed>>

ApiUp ==
    /\ ~apiUp
    /\ apiUp' = TRUE
    /\ UNCHANGED <<remote, nextId, prefixes, outages, ext, run, pc, ki, pre,
                   idx, local, pending, failed>>

\* Another client (Malcolm's NetBox auto-population) creates a record.
ExternalCreate ==
    /\ apiUp
    /\ ext < MaxExternal
    /\ \E k \in ExtKinds, n \in Names :
          LET rec == [kind |-> k, name |-> n, slug |-> Slug[n], id |-> nextId,
                      refs |-> {}, ots |-> {}, by |-> "ext"]
          IN  /\ Accepts(rec)
              /\ remote' = remote \cup {rec}
    /\ nextId' = nextId + 1
    /\ ext' = ext + 1
    /\ UNCHANGED <<prefixes, apiUp, outages, run, pc, ki, pre, idx, local,
                   pending, failed>>

-----------------------------------------------------------------------------

\* One step of main().
Program ==
    \/ WaitForApi \/ FetchKind \/ SkipItem \/ CreateItem \/ RefetchKind \/ AbortKind
    \/ FetchPrefixes \/ UpdatePrefix

Step == Program \/ Restart

Environment == ApiDown \/ ApiUp \/ ExternalCreate

Next == Step \/ Environment \/ Terminated

Spec == Init /\ [][Next]_vars

\* main() is one sequential thread making blocking calls: whenever it can
\* take a step it does.  Nothing obliges the container to restart it.
FairSpec == Spec /\ WF_vars(Program)

-----------------------------------------------------------------------------
(* Properties.                                                             *)

TypeOK ==
    /\ remote \subseteq Record
    /\ nextId \in Nat
    /\ prefixes \in [Prefixes -> PrefixRec]
    /\ apiUp \in BOOLEAN
    /\ outages \in 0..MaxOutages
    /\ ext \in 0..MaxExternal
    /\ run \in 1..MaxRuns
    /\ pc \in Pcs
    /\ ki \in 1..Len(Kinds)
    /\ pre \subseteq Names
    /\ idx \in 1..(Len(Desired(Kinds[ki])) + 1)
    /\ local \in [KindNames -> SUBSET Record]
    /\ pending \subseteq Prefixes
    /\ failed \subseteq KindNames \cup {"prefixes"}

\* Why a desired name may still be missing after its kind's pass completed
\* without an exception: NetBox rejected the create with a RequestError
\* because another record of the kind holds its slug (for a device type,
\* under the manufacturer the code chose), or no manufacturer was there to
\* give the device type.
Blocked(k, n) ==
    LET mfr == local["manufacturers"] IN
    \/ k \in SlugUnique \ {"deviceTypes"} /\ \E r \in OfKind(k) : r.slug = Slug[n]
    \/ k = "deviceTypes" /\ mfr = {}
    \/ k = "deviceTypes" /\ mfr # {} /\
          \E r \in OfKind(k) : r.slug = Slug[n] /\ r.refs = MinIds(mfr)

\* Convergence (section 4.2 of the spec): when main() has finished, every
\* name of every kind whose try block completed exists in NetBox unless a
\* tolerated RequestError explains its absence, and when the prefix pass
\* completed no prefix that references a VRF has an empty description.
Converged ==
    pc = "done" =>
       /\ \A k \in KindNames \ failed : \A i \in 1..Len(Desired(k)) :
             Desired(k)[i] \in NamesOf(k) \/ Blocked(k, Desired(k)[i])
       /\ "prefixes" \notin failed =>
             \A p \in Prefixes : prefixes[p].vrf # NoVrf => prefixes[p].desc # Empty

\* Permission derivation (section 4.2): every permission the script created
\* grants exactly its own group, the one NetBox holds under that name, and
\* every object type NetBox listed except the permission's exclude list.
PermissionsDerived ==
    \A r \in OfKind("permissions") : r.by = "init" =>
       /\ r.ots = ObjectTypes \ (IF r.name = DefaultGroup THEN DefaultExcluded ELSE {})
       /\ r.refs = IdsOf({g \in OfKind("groups") : g.name = r.name})

\* The connectivity wait loop and the creation loops end: if the API is
\* eventually up for good, every run of main() that starts reaches its end.
Terminates == <>[]apiUp => (pc = "wait" ~> pc = "done")

\* Section 4.2 of the spec promises convergence "tolerating transient
\* connectivity loss": every desired name exists at the end, or a tolerated
\* RequestError explains its absence, even if the API was briefly down.
ConvergedDespiteOutage ==
    pc = "done" =>
       \A k \in KindNames : \A i \in 1..Len(Desired(k)) :
          Desired(k)[i] \in NamesOf(k) \/ Blocked(k, Desired(k)[i])

-----------------------------------------------------------------------------
(* The reconciler implements ReconcileAbstract.                            *)

\* The names each kind's creation loop iterates over, as a set.
DesiredSet(k) == {Desired(k)[i] : i \in 1..Len(Desired(k))}

\* NetBox seen through the abstract specification: kind, name and id.
Entries == {[kind |-> r.kind, name |-> r.name, id |-> r.id] : r \in remote}

Abs == INSTANCE ReconcileAbstract
          WITH ResourceKinds <- KindNames,
               Wanted <- [k \in KindNames |-> DesiredSet(k)],
               made <- Entries

(***************************************************************************)
(* Creating only what is missing (section 4.2, glossary): every step of    *)
(* main(), of the environment and of restarts is a step of                 *)
(* ReconcileAbstract or leaves NetBox's entries and prefixes alone.  In    *)
(* particular no run creates a second entry of a name NetBox holds, which  *)
(* for permissions and device types (no unique name in NetBox's models)    *)
(* rests on the xxxPreExisting filter of lines 736-897 alone, across       *)
(* killed runs, and the back-fill of lines 911-917 only fills empty        *)
(* descriptions of prefixes with a VRF.                                    *)
(***************************************************************************)
ImplementsAbstract == Abs!ASpec

=============================================================================
