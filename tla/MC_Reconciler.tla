--------------------------- MODULE MC_Reconciler ---------------------------
(* A small instance of the Resource Reconciler for TLC.                     *)
(* Three names, two of which (a and c) slugify alike; the staff group is a, *)
(* the default group b.  NetBox may already hold manufacturer c (which      *)
(* blocks manufacturer a by slug), group a and a permission named b;       *)
(* another client may create one manufacturer; the API may go down once;   *)
(* the script runs twice, and may be killed and restarted at any point.    *)
EXTENDS Reconciler

CONSTANTS a, b, c, s1, s2, o1, o2, p1, v1, none, empty

MCNames == {a, b, c}
MCSlug == [n \in MCNames |-> IF n = b THEN s2 ELSE s1]

SeedRec(k, n, i) ==
    [kind |-> k, name |-> n, slug |-> MCSlug[n], id |-> i, refs |-> {},
     ots |-> {}, by |-> "seed"]

MCSeed ==
    { SeedRec("manufacturers", c, 1), SeedRec("groups", a, 2),
      [SeedRec("permissions", b, 3) EXCEPT !.ots = {o1}] }
MCSlugs == {s1, s2}
MCManufacturers == <<a>>
MCRoles == <<b>>
MCDeviceTypes == <<c>>
MCSites == <<a>>
MCObjectTypes == {o1, o2}
MCDefaultExcluded == {o2}
MCPrefixes == {p1}
MCVRFs == {v1}
MCExtKinds == {"manufacturers"}
=============================================================================
