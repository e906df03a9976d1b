----------------------------- MODULE CacheKey -----------------------------
(***************************************************************************)
(* How a schema request becomes a cache key: parseSchemaRequest picks the  *)
(* fields of the body that tell requests apart, KeyFromPluginContext adds  *)
(* the tenant, the datasource and the user.                                *)
(*                                                                         *)
(* SHA-256 is taken to be free of collisions, so a hash is modelled by     *)
(* what is hashed: a text.  A text is a sequence of chunks, each a word or *)
(* the JSON of a value, because hashParts runs the parts together.  A JSON *)
(* text starts and ends with brackets, so it is a chunk of its own.        *)
(***************************************************************************)
EXTENDS Integers, Sequences, SequencesExt

CONSTANT None  \* a nil pointer or map

\* The declared scopes; "unknown" is any other integer of the type Scope.
Scopes   == {"user", "datasource"}
AnyScope == Scopes \cup {"unknown"}

\* Resolution of time.Time, in ticks per second; Updated.Unix() drops it,
\* rounding down before 1970 too.
TicksPerSecond == 2
Unix(t) == t \div TicksPerSecond

----------------------------------------------------------------------------
(* The scope of a key.                                                     *)

\* Mutant of UserIdentity: the email comes first.
EmailBeforeLogin(u) ==
  IF u.email # "" THEN u.email ELSE IF u.login # "" THEN u.login ELSE u.name

\* userIdentity: the first of Login, Email and Name that is set.
UserIdentity(u) ==
  IF u.login # "" THEN u.login ELSE IF u.email # "" THEN u.email ELSE u.name

\* KeyFromPluginContext builds a key, rather than returning an error.
Keyable(ctx, scope) ==
  /\ ctx.settings # None
  /\ ctx.settings.uid # ""
  /\ ctx.namespace # ""
  /\ scope = "user" => ctx.user # None /\ UserIdentity(ctx.user) # ""

\* Mutant of Prefix: the user is left out.
PrefixOfDatasource(ctx, scope) ==
  [namespace |-> ctx.namespace,
   uid       |-> ctx.settings.uid,
   updated   |-> Unix(ctx.settings.updated),
   proxyHash |-> ctx.proxyHash,
   userHash  |-> None]

\* namespace#dsUID#updatedUnix#proxyHash[#userHash]
Prefix(ctx, scope) ==
  [namespace |-> ctx.namespace,
   uid       |-> ctx.settings.uid,
   updated   |-> Unix(ctx.settings.updated),
   proxyHash |-> ctx.proxyHash,
   userHash  |-> IF scope = "user" THEN UserIdentity(ctx.user) ELSE None]

----------------------------------------------------------------------------
(* The body of a key.  A request in is a record with the path, the plugin  *)
(* context and the fields its endpoint reads: tables and columns are       *)
(* sequences of names, table and tableParameter free texts, timeRange a    *)
(* value, and the others maps of strings, or None when nil.                *)

\* Free text is words, of which the client may choose any; names are ordered
\* like numbers; a nil list, map or pointer is none of these; an instant is
\* a number of ticks.
FreeText == Seq({"word"} \X STRING)
TypedFields(in) ==
  /\ in.path \in STRING
  /\ in.ctx.settings # None => in.ctx.settings.updated \in Int
  /\ in.path = "columns" => in.tables \in Seq(Nat)
  /\ in.path = "tableParameterValues" => in.table \in FreeText /\ in.tableParameter \in FreeText
  /\ in.path = "columnValues" => in.table \in FreeText /\ in.columns \in Seq(Nat)

Word(w) == << <<"word", w>> >>
JSON(v) == IF v = None THEN << <<"null">> >> ELSE << <<"json", v>> >>

\* Mutant of SortedJSON: the names stay in the client's order.
UnsortedJSON(names) == JSON(IF names = <<>> THEN None ELSE names)

\* Two lists that differ only in their order.
Permuted(s, t) ==
  \E p \in Bijection(DOMAIN s, DOMAIN t) : \A i \in DOMAIN s : t[p[i]] = s[i]

\* sortedStrings: a sorted copy of the list.
SortedCopies(names) ==
  {t \in [DOMAIN names -> Range(names)] :
     Permuted(names, t) /\ \A i, j \in DOMAIN t : i <= j => t[i] <= t[j]}
SortedStrings(names) == CHOOSE t \in SortedCopies(names) : TRUE

\* sortedStrings, then canonicalJSON: an empty list becomes nil.
SortedJSON(names) == JSON(IF names = <<>> THEN None ELSE SortedStrings(names))

\* parseSchemaRequest: the parts of the key for each endpoint.
KeyParts(in) ==
  CASE in.path = "columns" ->
         << Word("tables"), SortedJSON(in.tables),
            Word("tableParameters"), JSON(in.tableParameters),
            Word("schemaContext"), JSON(in.schemaContext) >>
    [] in.path = "tableParameterValues" ->
         << Word("table"), in.table,
            Word("tableParameter"), in.tableParameter,
            Word("dependencyValues"), JSON(in.dependencyValues) >>
    [] in.path = "columnValues" ->
         << Word("table"), in.table,
            Word("columns"), SortedJSON(in.columns),
            Word("tableParameters"), JSON(in.tableParameters),
            Word("schemaContext"), JSON(in.schemaContext),
            Word("timeRange"), JSON(in.timeRange) >>
    [] in.path \in {"fullSchema", "tables", "functions"} -> << Word("request") >>
    [] OTHER -> << Word("unknown") >>

\* The parts are written to the hash one after the other, with nothing
\* between them.
HashParts(cacheNamespace, parts) == FlattenSeq(<< Word(cacheNamespace) >> \o parts)

KeyFromPluginContext(in, scope) ==
  [prefix |-> Prefix(in.ctx, scope), body |-> HashParts(in.path, KeyParts(in))]

----------------------------------------------------------------------------
(* What keys are for, stated without them.                                 *)

\* The fields of the body a handler of the endpoint can tell requests by.
Fields(path) ==
  CASE path = "columns" -> {"tables", "tableParameters", "schemaContext"}
    [] path = "tableParameterValues" -> {"table", "tableParameter", "dependencyValues"}
    [] path = "columnValues" ->
         {"table", "columns", "tableParameters", "schemaContext", "timeRange"}
    [] OTHER -> {}

\* Lists of names that differ only in their order ask the same thing.
SameQuestion(a, b) ==
  /\ a.path = b.path
  /\ \A f \in Fields(a.path) :
       IF f \in {"tables", "columns"} THEN Permuted(a[f], b[f]) ELSE a[f] = b[f]

\* Two users are one when the field they go by is: the login, or if neither
\* has one the email, or if neither has that either the name.
SameUser(u, v) ==
  /\ u.login = v.login
  /\ u.login = "" => u.email = v.email
  /\ u.login = "" /\ u.email = "" => u.name = v.name

\* A text that is one field of u is another field of v.
Mixed(u, v) ==
  \E f, g \in {"login", "email", "name"} : f # g /\ u[f] # "" /\ u[f] = v[g]

SamePlace(a, b) ==
  /\ a.ctx.namespace = b.ctx.namespace
  /\ a.ctx.settings.uid = b.ctx.settings.uid
  /\ a.ctx.proxyHash = b.ctx.proxyHash

\* Whose responses must be shared: the same tenant, datasource, configuration
\* and proxy, and the same user if that matters.
SameReach(a, b, scope) ==
  /\ SamePlace(a, b)
  /\ a.ctx.settings.updated = b.ctx.settings.updated
  /\ scope = "user" => SameUser(a.ctx.user, b.ctx.user)

\* Whose responses may be shared: of configurations less than a second apart
\* too, and of users whose fields are mixed up.
InReach(a, b, scope) ==
  /\ SamePlace(a, b)
  /\ a.ctx.settings.updated - b.ctx.settings.updated < TicksPerSecond
  /\ b.ctx.settings.updated - a.ctx.settings.updated < TicksPerSecond
  /\ scope = "user" => SameUser(a.ctx.user, b.ctx.user) \/ Mixed(a.ctx.user, b.ctx.user)

SameKey(a, b, scope) ==
  /\ Keyable(a.ctx, scope) /\ Keyable(b.ctx, scope)
  /\ KeyFromPluginContext(a, scope) = KeyFromPluginContext(b, scope)

\* The table is not named after the label that follows its name in the key.
LabelFree(in) ==
  in.path = "tableParameterValues" => <<"word", "tableParameter">> \notin Range(in.table)
=============================================================================
