------------------------ MODULE MCSchemaDatasource ------------------------
(* Values of SchemaDatasource's constants for TLC, and its symmetry.       *)
EXTENDS SchemaDatasource

CONSTANTS r1, r2, r3

TwoRequests   == {r1, r2}
ThreeRequests == {r1, r2, r3}
OneSize       == {1}
SmallAndLarge == {1, 2}

Ann    == [login |-> "ann", email |-> "", name |-> ""]
Bob    == [login |-> "", email |-> "bob", name |-> ""]

Context(ns, user) ==
  [namespace |-> ns, settings |-> [uid |-> "ds1", updated |-> 0], proxyHash |-> "",
   user |-> user]

Ask(path, ctx, headers) ==
  [base |-> TRUE, path |-> path, body |-> "ok", headers |-> headers, ctx |-> ctx,
   tables |-> <<1>>, tableParameters |-> None, schemaContext |-> None,
   table |-> Word("t"), tableParameter |-> <<>>, dependencyValues |-> None,
   columns |-> <<>>, timeRange |-> 1]

Refresh == {DefaultRefresh.header}

\* One question with or without the refresh header.
Refreshing == {Ask("columns", Context("stack1", Ann), h) : h \in {{}, Refresh}}

\* Every route a request can take, with users who ask the same thing, in one
\* order or another, and something else.
AnyRoute ==
  LET usual == Ask("fullSchema", Context("stack1", Ann), {})
      names == [usual EXCEPT !.path = "columns", !.tables = <<2, 1>>]
  IN
  {usual,
   names,
   [names EXCEPT !.tables = <<1, 2>>],
   [names EXCEPT !.ctx.user = Bob],
   [usual EXCEPT !.base = FALSE],
   [usual EXCEPT !.path = "functions"],
   [usual EXCEPT !.path = "columnValues"],
   [usual EXCEPT !.path = "other"],
   [usual EXCEPT !.path = "tables", !.body = "empty", !.ctx.user = None],
   [usual EXCEPT !.path = "tables", !.body = "malformed"],
   [usual EXCEPT !.path = "columns", !.body = "empty"],
   [usual EXCEPT !.ctx.user = None, !.headers = Refresh],
   [usual EXCEPT !.headers = Refresh]}

OneRoute == {Ask("functions", Context("stack1", Ann), {})}

MostHandlers == Endpoints \ {"functions"}

----------------------------------------------------------------------------
(* Options: entries live one second and refreshes are two seconds apart.   *)

Quick ==
  [disableCache     |-> FALSE,
   cache            |-> [cleanupInterval |-> 0, maxValueBytes |-> 1],
   ttl              |-> [e \in Endpoints |-> IF e = "columnValues" THEN 0 ELSE 1],
   defaultScope     |-> "user",
   perEndpointScope |-> << >>,
   refresh          |-> [header |-> DefaultRefresh.header, minInterval |-> 2]]

NoJanitor == [Quick EXCEPT !.cache.cleanupInterval = -1]
Audited   == [Quick EXCEPT !.perEndpointScope = [tables |-> "datasource"]]
Unlimited == [Quick EXCEPT !.refresh.minInterval = 0]

RequestSymmetry == Permutations(Requests)
=============================================================================
