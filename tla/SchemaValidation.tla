-------------------------- MODULE SchemaValidation --------------------------
(***************************************************************************)
(* ValidateSchema: the checks a full schema goes through before it is      *)
(* served, in the order of the code, with detectCycle's search             *)
(* (DetectCycle) as one of them; and tables.Validate, by which consumers   *)
(* check a reference to one of its tables.                                 *)
(*                                                                         *)
(* A schema is a record: tables is a sequence of tables, each a name and   *)
(* its parameters; values maps names of tables to the set of parameters    *)
(* that have values (TableParameterValues), the values being left out.     *)
(* An error is the kind of its message.                                    *)
(***************************************************************************)
EXTENDS Naturals, Sequences, SequencesExt

CONSTANTS
  Name,     \* the names tables and parameters can have
  None,     \* a nil schema
  Schemas   \* the schemas that are validated

VARIABLES
  schema,   \* the argument of ValidateSchema
  phase,    \* the check that comes next, or "done"
  table,    \* position of the table validateTableParameters is at
  verdict,  \* the error returned, "ok" for nil, "none" before
  entry, stack, visitState, result  \* detectCycle's (see DetectCycle)

search == <<entry, stack, visitState, result>>
vars == <<schema, phase, table, verdict, search>>

\* The parameters that are being checked.
params == schema.tables[table].params

Search == INSTANCE DetectCycle

\* The fields the checks read have their types.
ASSUME SchemasAssumption ==
  \A s \in Schemas \ {None} :
    s.tables \in Seq([name : Name, params : Seq(Search!TableParameter)])

\* The names in a list of parameters, or of tables.
ParameterNames(ps) == {ps[i].name : i \in DOMAIN ps}

Distinct(seq) == \A i, j \in DOMAIN seq : seq[i].name = seq[j].name => i = j

\* What the maps by name of validation.go and tables.go hold of a parameter.
Named(ps, n) == CHOOSE p \in ToSet(ps) : p.name = n

Init ==
  /\ schema \in Schemas
  /\ phase = "tables" /\ table = 1 /\ verdict = "none"
  /\ entry = 1 /\ stack = <<>> /\ visitState = <<>> /\ result = "none"

Answer(v) ==
  /\ phase' = "done" /\ verdict' = v
  /\ UNCHANGED <<schema, table, search>>

----------------------------------------------------------------------------
\* ValidateSchema's first loop: nil is accepted, and names are unique.
CheckTableNames ==
  /\ phase = "tables"
  /\ \/ schema = None /\ Answer("ok")
     \/ schema # None /\ ~Distinct(schema.tables) /\ Answer("duplicate table")
     \/ /\ schema # None /\ Distinct(schema.tables)
        /\ phase' = "parameters"
        /\ UNCHANGED <<schema, table, verdict, search>>

\* The first parameter that repeats a name or is a root with dependencies,
\* whichever the loop comes to first, decides the error.
Repeats(ps, i) == \E j \in DOMAIN ps : j < i /\ ps[j].name = ps[i].name
BadRoot(p) == p.root /\ p.dependsOn # <<>>
FirstError(ps) ==
  LET bad   == {i \in DOMAIN ps : Repeats(ps, i) \/ BadRoot(ps[i])}
      first == CHOOSE i \in bad : \A j \in bad : i <= j
  IN  IF bad = {} THEN "none"
      ELSE IF Repeats(ps, first) THEN "duplicate parameter" ELSE "root depends"

UnknownDependency(ps) ==
  \E p \in ToSet(ps) : ~(ToSet(p.dependsOn) \subseteq ParameterNames(ps))

\* validateTableParameters, up to the search.
CheckParameters ==
  /\ phase = "parameters" /\ table <= Len(schema.tables)
  /\ IF params = <<>>
       THEN table' = table + 1 /\ UNCHANGED <<schema, phase, verdict, search>>
     ELSE IF FirstError(params) # "none" THEN Answer(FirstError(params))
     ELSE IF \A p \in ToSet(params) : ~p.root THEN Answer("no root")
     ELSE IF UnknownDependency(params) THEN Answer("unknown dependency")
     ELSE
       /\ phase' = "search"
       /\ entry' = 1 /\ stack' = <<>> /\ result' = "none"
       /\ visitState' = [n \in ParameterNames(params) |-> "unvisited"]
       /\ UNCHANGED <<schema, table, verdict>>

\* detectCycle, step by step.
DetectCycle ==
  /\ phase = "search" /\ result = "none"
  /\ UNCHANGED <<schema, phase, table, verdict>>
  /\ Search!Next

\* Mutant of ChainBroken: only the first dependency is looked at.
FirstLinkBroken(ps) ==
  \E p \in ToSet(ps) :
    p.required /\ p.dependsOn # <<>> /\ ~Named(ps, p.dependsOn[1]).required

\* validateRequiredChain
ChainBroken(ps) ==
  \E p \in ToSet(ps) :
    p.required /\ \E d \in ToSet(p.dependsOn) : ~Named(ps, d).required

\* Mutant of CheckChain: the loop does not go on to the next table.
CheckChainForever ==
  /\ phase = "search" /\ result # "none"
  /\ IF result = "cycle" THEN Answer("cycle")
     ELSE IF ChainBroken(params) THEN Answer("broken chain")
     ELSE phase' = "parameters" /\ UNCHANGED <<schema, table, verdict, search>>

\* validateTableParameters, from the result of the search on.
CheckChain ==
  /\ phase = "search" /\ result # "none"
  /\ IF result = "cycle" THEN Answer("cycle")
     ELSE IF ChainBroken(params) THEN Answer("broken chain")
     ELSE
       /\ table' = table + 1 /\ phase' = "parameters"
       /\ UNCHANGED <<schema, verdict, search>>

\* The parameters of the table called t, as tablesByName finds them.
ParametersOf(t) == Named(schema.tables, t).params

\* validateTableParameterValues; the maps are walked in any order, so that
\* any one of several errors is returned.
ValueErrors ==
  {"unknown table" : t \in DOMAIN schema.values \ ParameterNames(schema.tables)}
  \cup UNION {
    {IF n \notin ParameterNames(ParametersOf(t)) THEN "unknown parameter"
     ELSE IF Named(ParametersOf(t), n).root THEN "none" ELSE "not a root" :
       n \in schema.values[t]} :
    t \in DOMAIN schema.values \cap ParameterNames(schema.tables)}

CheckValues ==
  /\ phase = "parameters" /\ table > Len(schema.tables)
  /\ IF ValueErrors \subseteq {"none"} THEN Answer("ok")
     ELSE \E e \in ValueErrors \ {"none"} : Answer(e)

Next == CheckTableNames \/ CheckParameters \/ DetectCycle \/ CheckChain \/ CheckValues

Spec == Init /\ [][Next]_vars

\* ValidateSchema is a plain function: it runs on.
FairSpec == Spec /\ WF_vars(Next)

----------------------------------------------------------------------------
\* tables.Validate of a reference that gives the parameters in given to the
\* table t: the kinds of the errors it joins.
Validate(t, given) ==
  IF t \notin ParameterNames(schema.tables) THEN {"unknown table"}
  ELSE LET declared == ParameterNames(ParametersOf(t)) IN
    {"unknown parameter" : k \in given \ declared}
    \cup {"missing required" : p \in {q \in ToSet(ParametersOf(t)) :
                                        q.required /\ q.name \notin given}}
    \cup {"missing dependency" : k \in {n \in given \cap declared :
            ~(ToSet(Named(ParametersOf(t), n).dependsOn) \subseteq given)}}

----------------------------------------------------------------------------
(* Properties.                                                             *)

\* The search is only ever run on parameters whose dependencies exist, so
\* that visit finds each (tableParameterByName[name] is never nil), and the
\* invariant of the search holds for the table at hand.
SearchInv == phase = "search" => Search!Inv

\* Parameters model what "must be resolved before the table can be queried"
\* (types.go:198).  In a schema that was accepted nobody gets stuck: whoever
\* has given parameters in an order tables.Validate has no objection to, but
\* for required ones that are missing, can give one more of the missing
\* required ones without new objections, and so ends with a valid reference;
\* and can likewise give any parameter at last.
NobodyGetsStuck ==
  verdict = "ok" /\ schema # None =>
    \A t \in ParameterNames(schema.tables) :
      LET ps        == ParametersOf(t)
          Fine(set) == Validate(t, set) \subseteq {"missing required"}
      IN  \A given \in SUBSET ParameterNames(ps) : Fine(given) =>
            /\ Validate(t, given) # {} =>
                 \E p \in ToSet(ps) :
                   p.required /\ p.name \notin given /\ Fine(given \cup {p.name})
            /\ given # ParameterNames(ps) =>
                 \E n \in ParameterNames(ps) \ given : Fine(given \cup {n})

\* Every schema gets a verdict, the ones with cycles too.
ValidationEnds == <>(phase = "done")
=============================================================================
