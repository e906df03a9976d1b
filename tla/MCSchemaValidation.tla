------------------------ MODULE MCSchemaValidation ------------------------
(* Schemas to validate: every dependency graph of a few parameters, and    *)
(* schemas with each of the other faults.                                  *)
EXTENDS SchemaValidation

MCName == {"a", "b", "c", "r", "s", "t", "x"}

Parameter(n, deps, root, required) ==
  [name |-> n, dependsOn |-> deps, root |-> root, required |-> required]

Table(t, ps) == [name |-> t, params |-> ps]

Schema(tables, values) == [tables |-> tables, values |-> values]

NoValues == <<>>

\* Lists of distinct names.
Lists(S) == UNION {SetToSeqs(T) : T \in SUBSET S}

SmallDeps == Lists({"a", "b", "r"})
LargeDeps == {SetToSeq(D) : D \in SUBSET {"a", "b", "c", "r"}}

\* All graphs of a root, listed second, and two more parameters, with the
\* dependencies in any order and any of the parameters required.
SmallGraphs ==
  LET P(n, deps, req) == Parameter(n, deps, deps = <<>>, n \in req)
  IN  {<<P("a", da, req), P("r", <<>>, req), P("b", db, req)>> :
         da, db \in SmallDeps, req \in SUBSET {"a", "b", "r"}}

\* All graphs of a root and three more parameters, all required, with the
\* root listed at either end.
LargeGraphs ==
  LET P(n, deps) == Parameter(n, deps, FALSE, TRUE)
      Root == <<Parameter("r", <<>>, TRUE, TRUE)>>
      Graph(ps, first) == IF first THEN Root \o ps ELSE ps \o Root
  IN  {Graph(<<P("a", da), P("b", db), P("c", dc)>>, first) :
         da, db, dc \in LargeDeps, first \in BOOLEAN}

\* Tables with faults: of two parameters, each of any kind.
AnyPair ==
  {<<Parameter("r", dr, rr, qr), Parameter(n, dn, rn, qn)>> :
     n \in {"a", "r"}, dr \in {<<>>, <<"a">>, <<"x">>}, dn \in {<<>>, <<"r">>, <<"x">>, <<"r", "x">>},
     rr, rn, qr, qn \in BOOLEAN}

Fine == <<Parameter("r", <<>>, TRUE, TRUE), Parameter("a", <<"r">>, FALSE, FALSE)>>

\* Two tables, and values for parameters of them and of others.
TwoTables ==
  {Schema(<<Table("t", ps), Table(s, qs)>>, v) :
     s \in {"s", "t"}, ps, qs \in {<<>>, Fine, <<Parameter("a", <<>>, FALSE, FALSE)>>},
     v \in UNION {[T -> SUBSET {"a", "r", "x"}] : T \in SUBSET {"t", "x"}}}

MCSchemas ==
  {None} \cup TwoTables
  \cup {Schema(<<Table("t", ps)>>, NoValues) : ps \in SmallGraphs \cup LargeGraphs \cup AnyPair}
=============================================================================
