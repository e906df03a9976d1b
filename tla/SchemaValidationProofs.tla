----------------------- MODULE SchemaValidationProofs -----------------------
(* Proofs, for any set of schemas, that ValidateSchema uses its search as   *)
(* it may, and that nobody gets stuck in a schema it accepted.              *)
EXTENDS SchemaValidation, SequenceTheorems, TLAPS

SearchProofs == INSTANCE DetectCycleProofs

\* The two instances of the search are one.
LEMMA SameSearch ==
  /\ Search!Inv <=> SearchProofs!Inv
  /\ Search!Init <=> SearchProofs!Init
  /\ Search!Next <=> SearchProofs!Next
BY DEF Search!Inv, SearchProofs!Inv, Search!Init, SearchProofs!Init, Search!Next,
       SearchProofs!Next,
       Search!TypeOK, SearchProofs!TypeOK, Search!Checked, SearchProofs!Checked,
       Search!Names, SearchProofs!Names, Search!DependsOn, SearchProofs!DependsOn,
       Search!TableParameter, SearchProofs!TableParameter,
       Search!Frame, SearchProofs!Frame, Search!Top, SearchProofs!Top,
       Search!StackIsVisiting, SearchProofs!StackIsVisiting,
       Search!StackIsPath, SearchProofs!StackIsPath,
       Search!FramesProgress, SearchProofs!FramesProgress,
       Search!Visited, SearchProofs!Visited,
       Search!VisitedIsClosed, SearchProofs!VisitedIsClosed,
       Search!VisitedIsAcyclic, SearchProofs!VisitedIsAcyclic,
       Search!EntriesVisited, SearchProofs!EntriesVisited,
       Search!SearchIsRight, SearchProofs!SearchIsRight,
       Search!Knot, SearchProofs!Knot, Search!Cyclic, SearchProofs!Cyclic,
       Search!Enter, SearchProofs!Enter, Search!Descend, SearchProofs!Descend,
       Search!Return, SearchProofs!Return, Search!Finish, SearchProofs!Finish,
       Search!Visit, SearchProofs!Visit

\* What DetectCycleProofs shows of the search, said of this use of it: it
\* begins in its invariant and keeps to it.
LEMMA SearchBegins == Search!Init' => Search!Inv'
<1>1. Search!Init => Search!Inv
  BY SameSearch, SearchProofs!InvInit
<1> QED
  BY <1>1, PTL

\* Each step of it keeps the invariant, and so does a step of another check.
LEMMA SearchGoesOn == Search!Inv /\ [Search!Next]_(Search!vars) => Search!Inv'
<1>1. Search!Inv => SearchProofs!Inv
  BY SameSearch
<1>2. SearchProofs!Inv /\ [SearchProofs!Next]_(SearchProofs!vars) => SearchProofs!Inv'
  BY SearchProofs!InvStep
<1>3. SearchProofs!Inv => Search!Inv
  BY SameSearch
<1>4. SearchProofs!Inv' => Search!Inv'
  BY <1>3, PTL
<1>5. UNCHANGED Search!vars => UNCHANGED SearchProofs!vars
  BY DEF Search!vars, SearchProofs!vars
<1> QED
  BY <1>1, <1>2, <1>4, <1>5, SameSearch

----------------------------------------------------------------------------
\* Parameters of ps each of which depends on one of them.
Knotted(ps, S) ==
  S # {} /\ \A n \in S : \E d \in ToSet(Named(ps, n).dependsOn) : d \in S

\* What the checks of validateTableParameters leave of a list of parameters.
Sound(ps) ==
  ps # <<>> =>
    /\ Distinct(ps)
    /\ ~UnknownDependency(ps)
    /\ ~ChainBroken(ps)
    /\ \A S \in SUBSET ParameterNames(ps) : ~Knotted(ps, S)

AllSound == \A i \in DOMAIN schema.tables : Sound(schema.tables[i].params)

\* The inductive invariant: what has been checked before each phase.
Inv ==
  /\ schema \in Schemas
  /\ table \in Nat \ {0}
  /\ phase \in {"tables", "parameters", "search", "done"}
  /\ phase # "done" => verdict = "none"
  /\ phase = "tables" => table = 1
  /\ phase \in {"parameters", "search"} =>
       /\ schema # None
       /\ Distinct(schema.tables)
       /\ \A i \in DOMAIN schema.tables : i < table => Sound(schema.tables[i].params)
  /\ phase = "search" =>
       /\ table \in DOMAIN schema.tables
       /\ Distinct(params) /\ ~UnknownDependency(params)
  /\ verdict = "ok" /\ schema # None => Distinct(schema.tables) /\ AllSound
  /\ SearchInv

\* The maps by name find the parameter of that name.
LEMMA NamedProperties ==
  ASSUME NEW ps, Distinct(ps)
  PROVE  /\ \A p \in ToSet(ps) : p.name \in ParameterNames(ps) /\ Named(ps, p.name) = p
         /\ \A n \in ParameterNames(ps) : Named(ps, n) \in ToSet(ps) /\ Named(ps, n).name = n
<1>1. ASSUME NEW p \in ToSet(ps)
      PROVE  p.name \in ParameterNames(ps) /\ Named(ps, p.name) = p
  <2>1. p.name \in ParameterNames(ps)
    BY DEF ToSet, ParameterNames
  <2>2. \A q \in ToSet(ps) : q.name = p.name => q = p
    BY DEF ToSet, Distinct
  <2> QED
    BY <2>1, <2>2 DEF Named
<1>2. ASSUME NEW n \in ParameterNames(ps)
      PROVE  Named(ps, n) \in ToSet(ps) /\ Named(ps, n).name = n
  <2>1. \E p \in ToSet(ps) : p.name = n
    BY DEF ToSet, ParameterNames
  <2> QED
    BY <2>1 DEF Named
<1> QED
  BY <1>1, <1>2

\* A search that found nothing has shown that the parameters are acyclic.
LEMMA SearchedAcyclic ==
  ASSUME Distinct(params), ~Search!Cyclic,
         NEW S \in SUBSET ParameterNames(params)
  PROVE  ~Knotted(params, S)
<1>1. S \in SUBSET Search!Names
  BY DEF ParameterNames, Search!Names
<1>2. ~Search!Knot(S)
  BY <1>1 DEF Search!Cyclic
<1>3. ASSUME NEW n \in S
      PROVE  Search!DependsOn(n) = Named(params, n).dependsOn
  <2> DEFINE i == CHOOSE x \in DOMAIN params : params[x].name = n
  <2>1. i \in DOMAIN params /\ params[i].name = n
    BY DEF ParameterNames
  <2>2. params[i] \in ToSet(params)
    BY <2>1 DEF ToSet
  <2>3. Named(params, n) = params[i]
    BY <2>1, <2>2, NamedProperties
  <2> QED
    BY <2>3 DEF Search!DependsOn
<1> QED
  BY <1>2, <1>3 DEF Search!Knot, Knotted, ToSet

----------------------------------------------------------------------------
\* A validation that is about to begin satisfies the invariant.
LEMMA InvInit == Init => Inv
BY DEF Init, Inv, SearchInv

\* The error of the first loop is never "ok", and none means distinct names.
LEMMA FirstErrorProperties ==
  ASSUME NEW ps, NEW T, ps \in Seq(T)
  PROVE  /\ FirstError(ps) # "ok"
         /\ FirstError(ps) = "none" => Distinct(ps)
<1>1. FirstError(ps) # "ok"
  BY DEF FirstError
<1>2. ASSUME FirstError(ps) = "none"
      PROVE  \A i \in DOMAIN ps : ~Repeats(ps, i)
  BY <1>2 DEF FirstError
<1>3. ASSUME \A i \in DOMAIN ps : ~Repeats(ps, i)
      PROVE  Distinct(ps)
  <2> SUFFICES ASSUME NEW i \in DOMAIN ps, NEW j \in DOMAIN ps, ps[i].name = ps[j].name
               PROVE  i = j
    BY DEF Distinct
  <2>1. i \in Nat /\ j \in Nat
    OBVIOUS
  <2>2. ~(i < j) /\ ~(j < i)
    BY <1>3 DEF Repeats
  <2> QED
    BY <2>1, <2>2
<1> QED
  BY <1>1, <1>2, <1>3

\* A table that is at hand has parameters of the declared type.
LEMMA ParamsType ==
  ASSUME schema \in Schemas, schema # None, table \in DOMAIN schema.tables
  PROVE  params \in Seq(Search!TableParameter)
<1> DEFINE T == [name : Name, params : Seq(Search!TableParameter)]
<1>1. schema.tables \in Seq(T)
  BY SchemasAssumption
<1> HIDE DEF T
<1>2. schema.tables[table] \in T
  BY <1>1
<1> QED
  BY <1>2 DEF params, T

\* Answering with an error keeps the invariant.
LEMMA ErrorStep ==
  ASSUME Inv, NEW e, e # "ok", Answer(e)
  PROVE  Inv'
BY DEF Inv, Answer, SearchInv

\* The search is begun on parameters it may be run on.
LEMMA BeginSearch ==
  ASSUME Inv, phase = "parameters", table \in DOMAIN schema.tables,
         Distinct(params), ~UnknownDependency(params),
         phase' = "search", entry' = 1, stack' = <<>>, result' = "none",
         visitState' = [n \in ParameterNames(params) |-> "unvisited"],
         UNCHANGED <<schema, table, verdict>>
  PROVE  Inv'
<1>1. params' = params
  BY DEF params
<1>2. Search!Init'
  <2>1. Search!Names' = ParameterNames(params)
    BY <1>1 DEF Search!Names, ParameterNames
  <2>2. params \in Seq(Search!TableParameter)
    BY ParamsType DEF Inv
  <2>3. \A i \in DOMAIN params : \A j \in DOMAIN params[i].dependsOn :
          params[i].dependsOn[j] \in ParameterNames(params)
    BY DEF UnknownDependency, ToSet
  <2>4. Search!TableParameter' = Search!TableParameter
    BY DEF Search!TableParameter
  <2>5. Search!Checked'
    BY <1>1, <2>1, <2>2, <2>3, <2>4 DEF Search!Checked
  <2> QED
    BY <2>1, <2>5 DEF Search!Init
<1>3. Search!Inv'
  BY <1>2, SearchBegins
<1>4. Distinct(params)'
  BY <1>1 DEF Distinct
<1>5. ~UnknownDependency(params)'
  BY <1>1 DEF UnknownDependency, ParameterNames, ToSet
<1>6. /\ schema # None
      /\ Distinct(schema.tables)'
      /\ \A i \in DOMAIN schema'.tables : i < table' => Sound(schema'.tables[i].params)
  BY DEF Inv, Distinct
<1>7. verdict' # "ok"
  BY DEF Inv
<1> QED
  BY <1>3, <1>4, <1>5, <1>6, <1>7 DEF Inv, SearchInv

\* Going on to the next table after a sound one keeps the invariant.
LEMMA NextTable ==
  ASSUME Inv, phase \in {"parameters", "search"}, schema # None,
         table \in DOMAIN schema.tables, Sound(schema.tables[table].params),
         table' = table + 1, phase' = "parameters", UNCHANGED <<schema, verdict>>
  PROVE  Inv'
<1>1. schema.tables \in Seq([name : Name, params : Seq(Search!TableParameter)])
  BY SchemasAssumption DEF Inv
<1>2. \A i \in DOMAIN schema.tables : i < table + 1 => i < table \/ i = table
  BY <1>1 DEF Inv
<1>3. \A i \in DOMAIN schema.tables : i < table' => Sound(schema.tables[i].params)
  BY <1>2 DEF Inv
<1> QED
  BY <1>3 DEF Inv, SearchInv, AllSound

\* Every step of the validation keeps the invariant.
LEMMA InvStep == Inv /\ [Next]_vars => Inv'
<1> SUFFICES ASSUME Inv, [Next]_vars PROVE Inv'
  OBVIOUS
<1>1. CASE UNCHANGED vars
  <2>1. UNCHANGED <<schema, phase, table, verdict>> /\ params' = params
    BY <1>1 DEF vars, params
  <2>2. phase = "search" => Search!Inv'
    <3>1. UNCHANGED Search!vars
      BY <1>1, <2>1 DEF vars, search, Search!vars
    <3> QED
      BY <3>1, SearchGoesOn DEF Inv, SearchInv
  <2> QED
    BY <2>1, <2>2 DEF Inv, SearchInv, AllSound
<1>2. CASE CheckTableNames
  <2>1. CASE schema = None /\ Answer("ok")
    BY <2>1 DEF Inv, Answer, SearchInv
  <2>2. CASE Answer("duplicate table")
    BY <2>2, ErrorStep
  <2>3. CASE /\ schema # None /\ Distinct(schema.tables)
             /\ phase = "tables" /\ phase' = "parameters"
             /\ UNCHANGED <<schema, table, verdict, search>>
    <3>1. schema.tables \in Seq([name : Name, params : Seq(Search!TableParameter)])
      BY <2>3, SchemasAssumption DEF Inv
    <3>2. \A i \in DOMAIN schema.tables : ~(i < 1)
      BY <3>1
    <3> QED
      BY <2>3, <3>2 DEF Inv, SearchInv, AllSound
  <2> QED
    BY <1>2, <2>1, <2>2, <2>3 DEF CheckTableNames
<1>3. CASE CheckParameters
  <2>1. /\ phase = "parameters" /\ schema \in Schemas /\ schema # None /\ table \in Nat \ {0}
        /\ table <= Len(schema.tables)
    BY <1>3 DEF Inv, CheckParameters
  <2>2. table \in DOMAIN schema.tables
    <3>1. schema.tables \in Seq([name : Name, params : Seq(Search!TableParameter)])
      BY <2>1, SchemasAssumption
    <3> QED
      BY <2>1, <3>1
  <2>3. CASE params = <<>> /\ table' = table + 1 /\ UNCHANGED <<schema, phase, verdict, search>>
    <3>1. Sound(schema.tables[table].params)
      BY <2>3 DEF Sound, params
    <3> QED
      BY <2>1, <2>2, <2>3, <3>1, NextTable
  <2>4. CASE FirstError(params) # "none" /\ Answer(FirstError(params))
    BY <2>1, <2>2, <2>4, ParamsType, FirstErrorProperties, ErrorStep
  <2>5. CASE Answer("no root") \/ Answer("unknown dependency")
    BY <2>5, ErrorStep
  <2>6. CASE /\ FirstError(params) = "none" /\ ~UnknownDependency(params)
             /\ phase' = "search"
             /\ entry' = 1 /\ stack' = <<>> /\ result' = "none"
             /\ visitState' = [n \in ParameterNames(params) |-> "unvisited"]
             /\ UNCHANGED <<schema, table, verdict>>
    <3>1. Distinct(params)
      BY <2>1, <2>2, <2>6, ParamsType, FirstErrorProperties
    <3> QED
      BY <2>1, <2>2, <2>6, <3>1, BeginSearch
  <2> QED
    BY <1>3, <2>3, <2>4, <2>5, <2>6 DEF CheckParameters
<1>4. CASE DetectCycle
  <2>1. UNCHANGED <<schema, phase, table, verdict>> /\ params' = params /\ phase = "search"
    BY <1>4 DEF DetectCycle, params
  <2>2. Search!Inv'
    BY <1>4, <2>1, SearchGoesOn DEF DetectCycle, Inv, SearchInv
  <2> QED
    BY <2>1, <2>2 DEF Inv, SearchInv, AllSound
<1>5. CASE CheckChain
  <2>1. /\ phase = "search" /\ result # "none" /\ Search!Inv
        /\ Distinct(params) /\ ~UnknownDependency(params)
        /\ schema # None /\ table \in DOMAIN schema.tables
    BY <1>5 DEF Inv, SearchInv, CheckChain
  <2>2. CASE Answer("cycle") \/ Answer("broken chain")
    BY <2>2, ErrorStep
  <2>3. CASE /\ result # "cycle" /\ ~ChainBroken(params)
             /\ table' = table + 1 /\ phase' = "parameters"
             /\ UNCHANGED <<schema, verdict, search>>
    <3>1. ~Search!Cyclic
      BY <2>1, <2>3 DEF Search!Inv, Search!TypeOK, Search!SearchIsRight
    <3>2. \A S \in SUBSET ParameterNames(params) : ~Knotted(params, S)
      BY <2>1, <3>1, SearchedAcyclic
    <3>3. Sound(schema.tables[table].params)
      BY <2>1, <2>3, <3>2 DEF Sound, params
    <3> QED
      BY <2>1, <2>3, <3>3, NextTable
  <2> QED
    BY <1>5, <2>2, <2>3 DEF CheckChain
<1>6. CASE CheckValues
  <2>1. /\ phase = "parameters" /\ schema \in Schemas /\ schema # None
        /\ Distinct(schema.tables) /\ table \in Nat /\ table > Len(schema.tables)
    BY <1>6 DEF Inv, CheckValues
  <2>2. AllSound
    <3>1. schema.tables \in Seq([name : Name, params : Seq(Search!TableParameter)])
      BY <2>1, SchemasAssumption
    <3>2. \A i \in DOMAIN schema.tables : i < table
      BY <2>1, <3>1
    <3> QED
      BY <2>1, <3>2 DEF Inv, AllSound
  <2>3. PICK e : Answer(e)
    BY <1>6 DEF CheckValues
  <2> QED
    BY <2>1, <2>2, <2>3 DEF Inv, Answer, SearchInv, AllSound
<1> QED
  BY <1>1, <1>2, <1>3, <1>4, <1>5, <1>6 DEF Next

\* At every moment of every validation what was checked so far is sound.
THEOREM Invariance == Spec => []Inv
<1> QED
  BY InvInit, InvStep, PTL DEF Spec

\* The search is only run on parameters whose dependencies all exist, and
\* keeps the invariant of DetectCycle, whatever the schema.
THEOREM SearchesAreSound == Spec => []SearchInv
<1>1. Inv => SearchInv
  BY DEF Inv
<1> QED
  BY <1>1, Invariance, PTL

----------------------------------------------------------------------------
\* tables.Validate has nothing but missing required parameters to object to
\* when the given ones are declared and come with their dependencies.
LEMMA FineProperties ==
  ASSUME NEW t \in ParameterNames(schema.tables),
         NEW given \in SUBSET ParameterNames(ParametersOf(t))
  PROVE  LET ps == ParametersOf(t)
         IN  /\ Validate(t, given) \subseteq {"missing required"} <=>
                  \A n \in given : ToSet(Named(ps, n).dependsOn) \subseteq given
             /\ "missing required" \in Validate(t, given) =>
                  \E q \in ToSet(ps) : q.required /\ q.name \notin given
<1> DEFINE ps == ParametersOf(t)
           unknown    == {"unknown parameter" : k \in given \ ParameterNames(ps)}
           required   == {"missing required" : p \in {q \in ToSet(ps) :
                            q.required /\ q.name \notin given}}
           dependency == {"missing dependency" : k \in {n \in given \cap ParameterNames(ps) :
                            ~(ToSet(Named(ps, n).dependsOn) \subseteq given)}}
<1>1. Validate(t, given) = unknown \cup required \cup dependency
  BY DEF Validate
<1> HIDE DEF ps
<1>2. given \in SUBSET ParameterNames(ps)
  BY DEF ps
<1>3. unknown = {}
  BY <1>2
<1>4. required \subseteq {"missing required"}
  OBVIOUS
<1>5. "missing required" \in required =>
        \E q \in ToSet(ps) : q.required /\ q.name \notin given
  OBVIOUS
<1>6. dependency \subseteq {"missing dependency"}
  OBVIOUS
<1>7. dependency = {} <=> \A n \in given : ToSet(Named(ps, n).dependsOn) \subseteq given
  BY <1>2
<1> HIDE DEF unknown, required, dependency
<1>8. Validate(t, given) \subseteq {"missing required"} <=> dependency = {}
  BY <1>1, <1>3, <1>4, <1>6
<1>9. "missing required" \in Validate(t, given) => "missing required" \in required
  BY <1>1, <1>3, <1>6
<1> QED
  BY <1>5, <1>7, <1>8, <1>9 DEF ps

\* A list without parameters has no names.
LEMMA EmptyList == ParameterNames(<<>>) = {} /\ ToSet(<<>>) = {}
BY DEF ParameterNames, ToSet

\* In a sound list of parameters, any that are not given and whose missing
\* dependencies are among them include one with no missing dependency.
LEMMA OneIsNext ==
  ASSUME NEW ps, Sound(ps), ps # <<>>,
         NEW given \in SUBSET ParameterNames(ps),
         NEW M \in SUBSET ParameterNames(ps), M # {},
         \A n \in M : \A d \in ToSet(Named(ps, n).dependsOn) : d \in given \cup M
  PROVE  \E n \in M : ToSet(Named(ps, n).dependsOn) \subseteq given
<1>1. ~Knotted(ps, M)
  BY DEF Sound
<1> QED
  BY <1>1 DEF Knotted

\* Nobody gets stuck in an accepted schema, whatever its tables.
THEOREM NeverStuck == Spec => []NobodyGetsStuck
<1>1. Inv => NobodyGetsStuck
  <2> SUFFICES ASSUME Inv, verdict = "ok", schema # None,
                      NEW t \in ParameterNames(schema.tables)
               PROVE  LET ps        == ParametersOf(t)
                          Fine(set) == Validate(t, set) \subseteq {"missing required"}
                      IN  \A given \in SUBSET ParameterNames(ps) : Fine(given) =>
                            /\ Validate(t, given) # {} =>
                                 \E p \in ToSet(ps) : p.required /\ p.name \notin given
                                   /\ Fine(given \cup {p.name})
                            /\ given # ParameterNames(ps) =>
                                 \E n \in ParameterNames(ps) \ given : Fine(given \cup {n})
    BY DEF NobodyGetsStuck
  <2> DEFINE ps == ParametersOf(t)
             Fine(set) == Validate(t, set) \subseteq {"missing required"}
             Closed(set) == \A n \in set : ToSet(Named(ps, n).dependsOn) \subseteq set
  <2>1. Sound(ps)
    <3>1. Distinct(schema.tables) /\ AllSound
      BY DEF Inv
    <3>2. Named(schema.tables, t) \in ToSet(schema.tables)
      BY <3>1, NamedProperties
    <3> QED
      BY <3>1, <3>2 DEF AllSound, ToSet, ParametersOf
  <2>2. \A set \in SUBSET ParameterNames(ps) : Fine(set) <=> Closed(set)
    BY FineProperties
  <2>3. \A set \in SUBSET ParameterNames(ps) :
          "missing required" \in Validate(t, set) =>
            \E q \in ToSet(ps) : q.required /\ q.name \notin set
    BY FineProperties
  <2> HIDE DEF ps
  <2> SUFFICES ASSUME NEW given \in SUBSET ParameterNames(ps), Fine(given)
               PROVE  /\ Validate(t, given) # {} =>
                           \E p \in ToSet(ps) : p.required /\ p.name \notin given
                             /\ Fine(given \cup {p.name})
                      /\ given # ParameterNames(ps) =>
                           \E n \in ParameterNames(ps) \ given : Fine(given \cup {n})
    BY DEF ps
  <2>0. ParameterNames(ps) # {} \/ ToSet(ps) # {} => ps # <<>>
    BY EmptyList
  <2>4. Closed(given)
    BY <2>2
  <2>5. ASSUME NEW n \in ParameterNames(ps), ToSet(Named(ps, n).dependsOn) \subseteq given
        PROVE  Fine(given \cup {n})
    <3>1. Closed(given \cup {n})
      BY <2>4, <2>5
    <3>2. given \cup {n} \in SUBSET ParameterNames(ps)
      OBVIOUS
    <3> HIDE DEF Fine, Closed
    <3> QED
      BY <2>2, <3>1, <3>2
  <2>6. ASSUME Validate(t, given) # {}
        PROVE  \E p \in ToSet(ps) : p.required /\ p.name \notin given
                 /\ Fine(given \cup {p.name})
    <3>1. PICK q \in ToSet(ps) : q.required /\ q.name \notin given
      BY <2>3, <2>6
    <3>2. ps # <<>>
      BY <2>0
    <3>3. Distinct(ps) /\ ~UnknownDependency(ps) /\ ~ChainBroken(ps)
      BY <2>1, <3>2 DEF Sound
    <3> DEFINE M == {n \in ParameterNames(ps) : Named(ps, n).required /\ n \notin given}
    <3>4. q.name \in M
      BY <3>1, <3>3, NamedProperties
    <3>5. ASSUME NEW n \in M, NEW d \in ToSet(Named(ps, n).dependsOn)
          PROVE  d \in given \cup M
      <4>1. Named(ps, n) \in ToSet(ps) /\ Named(ps, n).required
        BY <3>3, NamedProperties
      <4>2. d \in ParameterNames(ps) /\ Named(ps, d).required
        BY <3>3, <4>1 DEF UnknownDependency, ChainBroken
      <4> QED
        BY <4>2
    <3>6. PICK n \in M : ToSet(Named(ps, n).dependsOn) \subseteq given
      <4>1. M \in SUBSET ParameterNames(ps) /\ M # {}
        BY <3>4
      <4> HIDE DEF M
      <4> QED
        BY <2>1, <3>2, <3>5, <4>1, OneIsNext
    <3>7. /\ Named(ps, n) \in ToSet(ps) /\ Named(ps, n).name = n
          /\ Named(ps, n).required /\ n \notin given
      BY <3>3, NamedProperties
    <3> QED
      BY <2>5, <3>6, <3>7
  <2>7. ASSUME given # ParameterNames(ps)
        PROVE  \E n \in ParameterNames(ps) \ given : Fine(given \cup {n})
    <3> DEFINE M == ParameterNames(ps) \ given
    <3>1. M \in SUBSET ParameterNames(ps) /\ M # {}
      BY <2>7
    <3>2. ps # <<>>
      BY <2>0, <3>1
    <3>3. Distinct(ps) /\ ~UnknownDependency(ps)
      BY <2>1, <3>2 DEF Sound
    <3>4. \A n \in M : \A d \in ToSet(Named(ps, n).dependsOn) : d \in given \cup M
      BY <3>3, NamedProperties DEF UnknownDependency
    <3>5. PICK n \in M : ToSet(Named(ps, n).dependsOn) \subseteq given
      BY <2>1, <3>1, <3>2, <3>4, OneIsNext
    <3> QED
      BY <2>5, <3>1, <3>5
  <2> QED
    BY <2>6, <2>7
<1> QED
  BY <1>1, Invariance, PTL
=============================================================================
