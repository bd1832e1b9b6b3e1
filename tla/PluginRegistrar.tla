-------------------------- MODULE PluginRegistrar --------------------------
(***************************************************************************)
(* The Plugin Discoverer & Registrar of netbox_init.py (lines 416-500):    *)
(* the scan of the installed packages' __init__.py files for PluginConfig  *)
(* classes, and the rewrite of plugins.py through the ast module.          *)
(*                                                                         *)
(* A candidate file is the sequence of its top-level classes; a class is  *)
(* the set of kinds of its bases (a plain name "PluginConfig" or "Other", *)
(* or "Dotted", an ast.Attribute such as mixins.Base) and the constant     *)
(* assigned to its `name` member, or NoName.  plugins.py is a sequence of *)
(* top-level statements: a PLUGINS assignment of a list literal, a        *)
(* PLUGINS assignment of any other expression, or an unrelated statement; *)
(* `comments` says whether the file has comments.  The script may be     *)
(* killed and started again at any point, MaxRuns runs in all.            *)
(***************************************************************************)
EXTENDS Naturals, SequencesExt

CONSTANTS
    Names,         \* plugin names
    NoName,        \* no `name = <constant>` in the class body
    Files,         \* __init__.py files rg lists (line 428)
    Classes,       \* Classes[f]: the top-level classes of f, in order
    InitialFiles,  \* contents plugins.py may start with
    MaxRuns        \* bound on runs of the script

BaseKinds == {"PluginConfig", "Other", "Dotted"}
Class == [bases : SUBSET BaseKinds, name : Names \cup {NoName}]

PluginsList(s) == [kind |-> "list", names |-> s]
PluginsOther == [kind |-> "expr", names |-> <<>>]
Unrelated == [kind |-> "other", names |-> <<>>]

\* A statement of plugins.py as ast.parse reads it (line 462).
Stmt == {PluginsOther, Unrelated} \cup [kind : {"list"}, names : Seq(Names)]

ASSUME RegistrarAssumption ==
    /\ NoName \notin Names
    /\ IsFiniteSet(Files)
    /\ Classes \in [Files -> Seq(Class)]
    /\ InitialFiles \subseteq Seq(Stmt)
    /\ MaxRuns \in Nat \ {0}

VARIABLES
    file,         \* plugins.py: a sequence of statements
    comments,     \* plugins.py has comments
    original,     \* plugins.py and its comments before the first run
                  \* (history only)
    pc,           \* position in main()
    pluginNames,  \* pluginNames of lines 417 and 458
    modified,     \* modifiedCode of line 496
    runs          \* runs started so far

vars == <<file, comments, original, pc, pluginNames, modified, runs>>

Pcs == {"scan", "rewrite", "open", "write", "done"}

Init ==
    /\ file \in InitialFiles
    /\ comments \in BOOLEAN
    /\ original = [stmts |-> file, comments |-> comments]
    /\ pc = "scan"
    /\ pluginNames = {}
    /\ modified = <<>>
    /\ runs = 1

(***************************************************************************)
(* Lines 434-453: the classes of f whose bases include PluginConfig give  *)
(* their constant name.  `baseClass.id` (line 440) raises AttributeError  *)
(* on a dotted base, while the list of line 440 is built; the except of   *)
(* line 452 then skips the rest of the file.                               *)
(***************************************************************************)
Reached(f) ==
    {i \in DOMAIN Classes[f] :
        \A j \in 1..i : "Dotted" \notin Classes[f][j].bases}

FoundIn(f) ==
    {Classes[f][i].name :
        i \in {i \in Reached(f) : /\ "PluginConfig" \in Classes[f][i].bases
                                  /\ Classes[f][i].name # NoName}}

\* Lines 417-458: rg lists the candidates, or fails and lists nothing.
Discover ==
    /\ pc = "scan"
    /\ \E rgOk \in BOOLEAN :
          pluginNames' = IF rgOk THEN UNION {FoundIn(f) : f \in Files} ELSE {}
    /\ pc' = IF pluginNames' = {} THEN "done" ELSE "rewrite"
    /\ UNCHANGED <<file, comments, original, modified, runs>>

IsPlugins(st) == st.kind \in {"list", "expr"}

(***************************************************************************)
(* PluginListModifier.visit_Assign (lines 467-479) on one statement: a     *)
(* PLUGINS list gets the discovered names it lacks appended, in the order *)
(* of the list of line 458.                                                *)
(***************************************************************************)
\* Mutant: the missing names appended as one nested element.
VisitAssignNested(st) ==
    IF st.kind = "list"
    THEN PluginsList(Append(st.names, pluginNames \ ToSet(st.names)))
    ELSE st

VisitAssign(st) ==
    IF st.kind = "list"
    THEN PluginsList(st.names \o SetToSeq(pluginNames \ ToSet(st.names)))
    ELSE st

(***************************************************************************)
(* Lines 459-496.  visit_Assign sets the module-level global              *)
(* pluginsListFound (line 469), not main()'s local of line 461, so the    *)
(* test of line 487 always sees False and a new PLUGINS assignment of     *)
(* every discovered name is appended.  ast.unparse drops the comments.    *)
(***************************************************************************)
\* Mutant: main() sees the flag visit_Assign sets.
pluginsListFoundShared == \E i \in DOMAIN file : IsPlugins(file[i])

pluginsListFound == FALSE

Rewrite ==
    /\ pc = "rewrite"
    /\ LET tree == [i \in DOMAIN file |-> VisitAssign(file[i])]
       IN  modified' = IF pluginsListFound THEN tree
                       ELSE Append(tree, PluginsList(SetToSeq(pluginNames)))
    /\ pc' = "open"
    /\ UNCHANGED <<file, comments, original, pluginNames, runs>>

\* Line 499: open(..., 'w') truncates plugins.py.
Truncate ==
    /\ pc = "open"
    /\ file' = <<>>
    /\ comments' = FALSE
    /\ pc' = "write"
    /\ UNCHANGED <<original, pluginNames, modified, runs>>

\* Line 500: the new source is written and the file closed.
WriteBack ==
    /\ pc = "write"
    /\ file' = modified
    /\ pc' = "done"
    /\ UNCHANGED <<comments, original, pluginNames, modified, runs>>

\* The script starts again, after finishing or killed; plugins.py persists.
Restart ==
    /\ runs < MaxRuns
    /\ runs' = runs + 1
    /\ pc' = "scan"
    /\ pluginNames' = {}
    /\ modified' = <<>>
    /\ UNCHANGED <<file, comments, original>>

Terminated ==
    /\ pc = "done" /\ runs = MaxRuns
    /\ UNCHANGED vars

Next == Discover \/ Rewrite \/ Truncate \/ WriteBack \/ Restart \/ Terminated

Spec == Init /\ [][Next]_vars

-----------------------------------------------------------------------------
TypeOK ==
    /\ file \in Seq(Stmt)
    /\ comments \in BOOLEAN
    /\ original \in [stmts : Seq(Stmt), comments : BOOLEAN]
    /\ pc \in Pcs
    /\ pluginNames \subseteq Names
    /\ modified \in Seq(Stmt)
    /\ runs \in 1..MaxRuns

\* The names NetBox loads: those of the last PLUGINS assignment, if a list.
Registered(f) ==
    LET at == {i \in DOMAIN f : IsPlugins(f[i])}
    IN  IF at = {} THEN {}
        ELSE LET last == f[CHOOSE i \in at : \A j \in at : j <= i]
             IN  IF last.kind = "list" THEN ToSet(last.names) ELSE {}

(***************************************************************************)
(* Every discovered plugin is registered once a run has written plugins.py *)
(* back (lines 487-500), whatever the file held before, including the     *)
(* empty file a run killed between lines 499 and 500 leaves behind.        *)
(***************************************************************************)
DiscoveredRegistered ==
    (pc = "done" /\ pluginNames # {}) => pluginNames \subseteq Registered(file)

(***************************************************************************)
(* Section 3 of the spec: registration is additive; every name plugins.py *)
(* registered before the script ran stays registered after it rewrote    *)
(* the file (lines 459-500).                                               *)
(***************************************************************************)
RegistrationAdditive ==
    pc = "done" => Registered(original.stmts) \subseteq Registered(file)

IsUnrelated(st) == st.kind = "other"

(***************************************************************************)
(* Section 6 of the spec: the rewrite of lines 496-500 preserves the      *)
(* statements of plugins.py other than PLUGINS, whenever no write is in   *)
(* progress.                                                               *)
(***************************************************************************)
UnrelatedKept ==
    pc # "write" =>
        SelectSeq(file, IsUnrelated) = SelectSeq(original.stmts, IsUnrelated)

=============================================================================
