------------------------- MODULE ReconcileAbstract -------------------------
(***************************************************************************)
(* What the Resource Reconciler promises the NetBox instance it works on  *)
(* (section 4.2 of the spec and the glossary: "ensuring a declared desired *)
(* set of named resources exists remotely, creating only what is          *)
(* missing"), with every intermediate step of main() hidden.              *)
(*                                                                         *)
(* NetBox is a set of entries, each a kind, a name and an id; the ids     *)
(* tell two entries of one name apart.  In one step the reconciler        *)
(* creates one desired name of a kind that has no entry of that name, or  *)
(* fills the empty description of one prefix that references a VRF with   *)
(* that VRF's name; another client may create entries of its own kinds.   *)
(* Nothing is ever deleted or renamed.                                     *)
(***************************************************************************)
EXTENDS Naturals

CONSTANTS
    ResourceKinds,  \* the kinds of the catalogue
    Names,          \* natural keys
    Wanted,         \* Wanted[k]: the desired names of kind k
    ExtKinds,       \* kinds another client creates
    Prefixes,       \* prefix ids
    VRFs,           \* VRF names
    NoVrf,          \* a prefix without a VRF
    Empty           \* an empty description

VARIABLES
    made,      \* the entries NetBox holds: [kind, name, id] records
    prefixes   \* prefix id -> [vrf, desc]

avars == <<made, prefixes>>

Entry == [kind : ResourceKinds, name : Names, id : Nat]

PrefixEntry == [vrf : VRFs \cup {NoVrf}, desc : VRFs \cup {Empty}]

NamesIn(k) == {e.name : e \in {e \in made : e.kind = k}}

\* One new entry of kind k and name n appears.
AddEntry(k, n) ==
    \E e \in made' \ made :
        /\ made' = made \cup {e}
        /\ e.kind = k /\ e.name = n

AInit ==
    /\ made \subseteq Entry
    /\ prefixes \in [Prefixes -> PrefixEntry]

\* The reconciler creates a desired name that NetBox does not hold.
Create(k, n) ==
    /\ n \in Wanted[k]
    /\ n \notin NamesIn(k)
    /\ AddEntry(k, n)
    /\ UNCHANGED prefixes

\* Another client creates an entry of one of its kinds.
CreateExternal(k, n) ==
    /\ k \in ExtKinds
    /\ AddEntry(k, n)
    /\ UNCHANGED prefixes

\* The empty description of a prefix with a VRF becomes the VRF's name.
Backfill(p) ==
    /\ prefixes[p].vrf # NoVrf
    /\ prefixes[p].desc = Empty
    /\ prefixes' = [prefixes EXCEPT ![p].desc = prefixes[p].vrf]
    /\ UNCHANGED made

ANext ==
    \/ \E k \in ResourceKinds, n \in Names : Create(k, n) \/ CreateExternal(k, n)
    \/ \E p \in Prefixes : Backfill(p)

ASpec == AInit /\ [][ANext]_avars

=============================================================================
