-------------------------- MODULE RegistrarProofs --------------------------
(***************************************************************************)
(* Proofs about the Plugin Registrar, for every set of plugin names,       *)
(* candidate files and starting plugins.py that satisfies                  *)
(* RegistrarAssumption.                                                    *)
(***************************************************************************)
EXTENDS PluginRegistrar, FiniteSetTheorems, SequenceTheorems, TLAPS

\* Between lines 496 and 500 the new source modifiedCode registers every
\* discovered name.
ModifiedRegisters == pc \in {"open", "write"} => pluginNames \subseteq Registered(modified)

RInv ==
    /\ TypeOK
    /\ IsFiniteSet(pluginNames)
    /\ ModifiedRegisters
    /\ DiscoveredRegistered

-----------------------------------------------------------------------------
(* Lemmas about the operators the registrar is built from.                 *)

\* SetToSeq lists a finite set: a sequence over the set that holds each of
\* its elements, and nothing else.
LEMMA SetToSeqLists ==
    ASSUME NEW S, IsFiniteSet(S), NEW T, S \subseteq T
    PROVE  /\ SetToSeq(S) \in Seq(T)
           /\ ToSet(SetToSeq(S)) = S
<1> DEFINE n == Cardinality(S)
<1> DEFINE g == SetToSeq(S)
<1>1. n \in Nat /\ ExistsBijection(1..n, S)
  BY FS_CardinalityType
<1>2. \E f \in [1..n -> S] : IsInjective(f)
  BY <1>1 DEF ExistsBijection, Bijection, Injection
<1>3. g \in [1..n -> S] /\ IsInjective(g)
  BY <1>2 DEF SetToSeq
<1>4. g \in Seq(T)
  BY <1>1, <1>3
<1>5. IsFiniteSet(1..n) /\ Cardinality(1..n) = n
  BY <1>1, FS_Interval
<1>6. g \in Injection(1..n, S)
  BY <1>3 DEF Injection
<1>7. g \in Surjection(1..n, S)
  BY <1>5, <1>6, FS_Injection
<1>8. ToSet(g) = S
  BY <1>3, <1>7 DEF ToSet, Surjection
<1>. QED
  BY <1>4, <1>8

\* A plugin file lists finitely many classes, so it names finitely many
\* plugins.
LEMMA FoundInFinite ==
    ASSUME NEW f \in Files
    PROVE  IsFiniteSet(FoundIn(f)) /\ FoundIn(f) \subseteq Names
<1> DEFINE cs == Classes[f]
<1> DEFINE Sub == {i \in Reached(f) : /\ "PluginConfig" \in cs[i].bases
                                      /\ cs[i].name # NoName}
<1> DEFINE h == [i \in Sub |-> cs[i].name]
<1>1. cs \in Seq(Class)
  BY RegistrarAssumption
<1>2. Sub \subseteq 1..Len(cs) /\ Len(cs) \in Nat
  BY <1>1 DEF Reached
<1>3. IsFiniteSet(Sub)
  <2>1. IsFiniteSet(1..Len(cs))
    BY <1>2, FS_Interval
  <2>. QED
    BY <1>2, <2>1, FS_Subset
<1>4. FoundIn(f) = {cs[i].name : i \in Sub}
  BY DEF FoundIn
<1>5. h \in Surjection(Sub, FoundIn(f))
  BY <1>4 DEF Surjection
<1>6. FoundIn(f) \subseteq Names
  <2>1. \A i \in Sub : cs[i] \in Class
    BY <1>1, <1>2
  <2>2. \A i \in Sub : cs[i].name \in Names \/ cs[i].name = NoName
    BY <2>1 DEF Class
  <2>. QED
    BY <1>4, <2>2
<1>. QED
  BY <1>3, <1>5, <1>6, FS_Surjection

\* The names line 458 collects from all files form a finite set of names.
LEMMA DiscoveredFinite ==
    /\ IsFiniteSet(UNION {FoundIn(f) : f \in Files})
    /\ UNION {FoundIn(f) : f \in Files} \subseteq Names
<1> DEFINE F == {FoundIn(f) : f \in Files}
<1> DEFINE h == [f \in Files |-> FoundIn(f)]
<1>1. h \in Surjection(Files, F)
  BY DEF Surjection
<1>2. IsFiniteSet(F)
  BY <1>1, RegistrarAssumption, FS_Surjection
<1>3. \A T \in F : IsFiniteSet(T) /\ T \subseteq Names
  BY FoundInFinite
<1>. QED
  BY <1>2, <1>3, FS_UNION


\* NetBox reads the last PLUGINS assignment: after the one lines 487-494
\* append, the registered names are exactly the ones that assignment lists.
LEMMA RegisteredAppend ==
    ASSUME NEW t \in Seq(Stmt), NEW S, IsFiniteSet(S), S \subseteq Names
    PROVE  Registered(Append(t, PluginsList(SetToSeq(S)))) = S
<1> DEFINE u == Append(t, PluginsList(SetToSeq(S)))
<1> DEFINE n == Len(t) + 1
<1> DEFINE at == {i \in DOMAIN u : IsPlugins(u[i])}
<1>1. SetToSeq(S) \in Seq(Names) /\ ToSet(SetToSeq(S)) = S
  BY SetToSeqLists
<1>2. PluginsList(SetToSeq(S)) \in Stmt
  BY <1>1 DEF PluginsList, Stmt
<1>3. Len(t) \in Nat /\ DOMAIN u = 1..n /\ u[n] = PluginsList(SetToSeq(S))
  BY <1>2, AppendProperties
<1>4. n \in at /\ \A j \in at : j <= n
  BY <1>3 DEF IsPlugins, PluginsList
<1>5. (CHOOSE i \in at : \A j \in at : j <= i) = n
  <2>1. \E i \in at : \A j \in at : j <= i
    BY <1>4
  <2>2. \A c \in at : (\A j \in at : j <= c) => c = n
    BY <1>3, <1>4
  <2>. QED
    BY <2>1, <2>2
<1>. QED
  BY <1>1, <1>3, <1>4, <1>5 DEF Registered, PluginsList

\* visit_Assign (lines 467-479) turns a statement of plugins.py into one.
LEMMA VisitAssignType ==
    ASSUME NEW st \in Stmt, pluginNames \subseteq Names, IsFiniteSet(pluginNames)
    PROVE  VisitAssign(st) \in Stmt
<1>1. CASE st.kind = "list"
  <2> DEFINE D == pluginNames \ ToSet(st.names)
  <2>1. IsFiniteSet(D) /\ D \subseteq Names
    BY FS_Subset
  <2>2. SetToSeq(D) \in Seq(Names) /\ st.names \in Seq(Names)
    BY <1>1, <2>1, SetToSeqLists DEF Stmt, PluginsOther, Unrelated
  <2>3. st.names \o SetToSeq(D) \in Seq(Names)
    BY <2>2, ConcatProperties
  <2>. QED
    BY <1>1, <2>3 DEF VisitAssign, PluginsList, Stmt
<1>2. CASE st.kind # "list"
  BY <1>2 DEF VisitAssign
<1>. QED
  BY <1>1, <1>2


-----------------------------------------------------------------------------
(* The inductive invariant.                                                *)

LEMMA RInvInit == Init => RInv
<1> SUFFICES ASSUME Init PROVE RInv
  OBVIOUS
<1>1. file \in Seq(Stmt) /\ original \in [stmts : Seq(Stmt), comments : BOOLEAN]
  BY RegistrarAssumption DEF Init
<1>2. runs \in 1..MaxRuns
  BY RegistrarAssumption DEF Init
<1>3. pluginNames = {} /\ pc = "scan" /\ modified = <<>>
  BY DEF Init
<1>4. IsFiniteSet(pluginNames)
  BY <1>3, FS_EmptySet
<1>. QED
  BY <1>1, <1>2, <1>3, <1>4 DEF Init, RInv, TypeOK, Pcs, ModifiedRegisters,
     DiscoveredRegistered

\* Every step of a run, and a restart of the script, keeps RInv.
LEMMA RInvStep == RInv /\ [Next]_vars => RInv'
<1> SUFFICES ASSUME RInv, [Next]_vars PROVE RInv'
  OBVIOUS
<1>. USE DEF RInv, TypeOK
<1>1. CASE Discover
  <2>1. pluginNames' \subseteq Names /\ IsFiniteSet(pluginNames')
    BY <1>1, DiscoveredFinite, FS_EmptySet DEF Discover
  <2>2. pc' \in {"done", "rewrite"} /\ (pc' = "done" => pluginNames' = {})
    BY <1>1 DEF Discover
  <2>. QED
    BY <1>1, <2>1, <2>2 DEF Discover, Pcs, ModifiedRegisters,
       DiscoveredRegistered
<1>2. CASE Rewrite
  <2> DEFINE tree == [i \in DOMAIN file |-> VisitAssign(file[i])]
  <2>1. tree \in Seq(Stmt)
    <3>1. DOMAIN file = 1..Len(file) /\ Len(file) \in Nat
      OBVIOUS
    <3>2. \A i \in DOMAIN file : file[i] \in Stmt
      OBVIOUS
    <3>3. \A i \in DOMAIN file : VisitAssign(file[i]) \in Stmt
      BY <3>2, VisitAssignType
    <3>. QED
      BY <3>1, <3>3
  <2>2. modified' = Append(tree, PluginsList(SetToSeq(pluginNames)))
    BY <1>2 DEF Rewrite, pluginsListFound
  <2>3. PluginsList(SetToSeq(pluginNames)) \in Stmt
    BY SetToSeqLists DEF PluginsList, Stmt
  <2>4. modified' \in Seq(Stmt)
    BY <2>1, <2>2, <2>3, AppendProperties
  <2>5. Registered(modified') = pluginNames
    BY <2>1, <2>2, RegisteredAppend
  <2>. QED
    BY <1>2, <2>4, <2>5 DEF Rewrite, Pcs, ModifiedRegisters,
       DiscoveredRegistered
<1>3. CASE Truncate
  <2>1. pc = "open" /\ file' = <<>> /\ comments' = FALSE /\ pc' = "write"
        /\ UNCHANGED <<original, pluginNames, modified, runs>>
    BY <1>3 DEF Truncate
  <2>2. <<>> \in Seq(Stmt)
    OBVIOUS
  <2>3. /\ original' \in [stmts : Seq(Stmt), comments : BOOLEAN]
        /\ modified' \in Seq(Stmt) /\ runs' \in 1..MaxRuns
        /\ pluginNames' \subseteq Names /\ IsFiniteSet(pluginNames')
    BY <2>1
  <2>4. TypeOK'
    BY <2>1, <2>2, <2>3 DEF Pcs
  <2>. QED
    BY <2>1, <2>3, <2>4 DEF ModifiedRegisters, DiscoveredRegistered
<1>4. CASE WriteBack
  BY <1>4 DEF WriteBack, Pcs, ModifiedRegisters, DiscoveredRegistered
<1>5. CASE Restart
  <2>1. IsFiniteSet(pluginNames')
    BY <1>5, FS_EmptySet DEF Restart
  <2>2. runs' \in 1..MaxRuns
    BY <1>5, RegistrarAssumption DEF Restart
  <2>. QED
    BY <1>5, <2>1, <2>2 DEF Restart, Pcs, ModifiedRegisters,
       DiscoveredRegistered
<1>6. CASE Terminated \/ UNCHANGED vars
  BY <1>6 DEF Terminated, vars, ModifiedRegisters, DiscoveredRegistered
<1>. QED
  BY <1>1, <1>2, <1>3, <1>4, <1>5, <1>6 DEF Next

-----------------------------------------------------------------------------

\* Type correctness of the registrar: plugins.py, modifiedCode and
\* pluginNames keep their types over any number of runs killed anywhere.
THEOREM RegistrarTypeCorrect == Spec => []TypeOK
<1>1. RInv => TypeOK
  BY DEF RInv
<1>. QED
  BY RInvInit, RInvStep, <1>1, PTL DEF Spec

\* Every plugin a run discovered is registered once that run has written
\* plugins.py back (lines 487-500), whatever the file held before, the
\* empty file of a run killed between lines 499 and 500 included, for
\* every set of candidate files and names.
THEOREM DiscoveredRegisteredHolds == Spec => []DiscoveredRegistered
<1>1. RInv => DiscoveredRegistered
  BY DEF RInv
<1>. QED
  BY RInvInit, RInvStep, <1>1, PTL DEF Spec

=============================================================================
