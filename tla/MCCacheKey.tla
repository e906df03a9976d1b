---------------------------- MODULE MCCacheKey ----------------------------
(* Requests to compare, for TLC.                                           *)
EXTENDS KeyComparison

----------------------------------------------------------------------------
(* The requests.                                                           *)

\* ann has the email of bob and the name of cyd; dan goes by ann's login as an email address.
ann    == [login |-> "ann", email |-> "bob", name |-> "cyd"]
bob    == [login |-> "", email |-> "bob", name |-> "cyd"]
cyd    == [login |-> "", email |-> "", name |-> "cyd"]
dan    == [login |-> "", email |-> "ann", name |-> ""]
nobody == [login |-> "", email |-> "", name |-> ""]

Settings(uid, updated) == [uid |-> uid, updated |-> updated]

Context(ns, settings, proxy, user) ==
  [namespace |-> ns, settings |-> settings, proxyHash |-> proxy, user |-> user]

Usual == Context("stack1", Settings("ds1", 0), "", ann)

\* Every kind of plugin context; of three edits two fall in one second, and
\* two others are less than a second apart.
AnyContext ==
  {Context(ns, settings, proxy, user) :
     ns \in {"", "stack1", "stack2"},
     settings \in {None, Settings("", 0), Settings("ds1", 0), Settings("ds2", 0),
                   Settings("ds1", 1), Settings("ds1", TicksPerSecond)},
     proxy \in {"", "pdc"},
     user \in {None, nobody, ann, bob, cyd, dan}}

Ask(path, ctx) == [path |-> path, ctx |-> ctx]

AMap == [region |-> "eu"]

AnyQuestion(ctx) ==
  {Ask(path, ctx) : path \in {"fullSchema", "tables", "functions"}}
  \cup
  {[path |-> "columns", ctx |-> ctx, tables |-> ts, tableParameters |-> tp,
    schemaContext |-> sc] :
     ts \in {<<>>, <<1>>, <<1, 2>>, <<2, 1>>, <<1, 1>>},
     tp \in {None, AMap}, sc \in {None, AMap}}
  \cup
  {[path |-> "tableParameterValues", ctx |-> ctx, table |-> t, tableParameter |-> p,
    dependencyValues |-> d] :
     t \in {Word("a"), Word("b")}, p \in {<<>>, Word("a"), Word("b")}, d \in {None, AMap}}
  \cup
  {[path |-> "columnValues", ctx |-> ctx, table |-> t, columns |-> cs,
    tableParameters |-> None, schemaContext |-> sc, timeRange |-> time] :
     t \in {<<>>, Word("a")}, cs \in {<<>>, <<1, 2>>, <<2, 1>>},
     sc \in {None, AMap}, time \in {1, 2}}

PlainRequests ==
  {Ask("tables", ctx) : ctx \in AnyContext} \cup AnyQuestion(Usual)

\* Tables and parameters named by texts in which the labels of the key parts
\* occur; both are free text, sent by the client.
LabelledRequests ==
  {[path |-> "tableParameterValues", ctx |-> Usual, table |-> t, tableParameter |-> p,
    dependencyValues |-> None] :
     t, p \in {Word("a"), Word("a") \o Word("tableParameter") \o Word("a")}}
=============================================================================
