------------------------- MODULE SchemaDatasource -------------------------
(***************************************************************************)
(* A SchemaDatasource serving concurrent resource requests: routing,       *)
(* parsing, the refresh header with its rate limit, the response cache     *)
(* (MemoryCache, whose calls are the requests), the handlers and the       *)
(* responses sent.                                                         *)
(*                                                                         *)
(* An input is a request as the plugin receives it: base (its path starts  *)
(* with BaseResourcePath), path (the rest, without leading slashes), body  *)
(* ("ok", "empty" or "malformed" JSON), headers (the names of those that   *)
(* have a value), ctx and the fields of the body that CacheKey reads.      *)
(* Handlers are external: they answer with anything, after any time.       *)
(***************************************************************************)
EXTENDS Options

CONSTANTS
  Requests,     \* invocations of CallResource, each made at most once
  Inputs,       \* what a request may be
  Opts,         \* the Options of the constructor
  Implemented,  \* the endpoints whose handler is not nil
  HasNext,      \* CallResourceHandler is not nil
  Sizes,        \* lengths of the responses handlers produce
  MaxTime       \* bound of the clock, for model checking

ASSUME ConfigurationAssumption ==
  /\ None \notin Requests
  /\ None \notin Inputs
  /\ None \notin Nat
  /\ IsFiniteSet(Inputs)
  /\ Opts \in OptionsType
  /\ Implemented \subseteq Endpoints
  /\ HasNext \in BOOLEAN
  /\ Sizes \subseteq Nat
  /\ MaxTime \in Nat

\* The fields of a decoded body have the types they are declared with.
ASSUME InputsAssumption == None \notin Seq(Nat) /\ \A i \in Inputs : TypedFields(i)

VARIABLES now, items, flight, pc, key, ttl, res,     \* of the cache
          evictions, hits, misses, begun, seen, seenAt, closedAt

VARIABLES
  at,         \* where each request stands
  in,         \* its input
  ret,        \* what CallResource returned to the SDK: "ok" or "err"
  sent,       \* the statuses it sent, in order
  limiter,    \* refreshLimiter: when a bucket's last refresh was allowed
  allowedAt,  \* history: when the request's refresh was allowed
  mark        \* history: how the key's fetches stood when it was deleted

cacheVars == <<now, items, flight, pc, key, ttl, res, evictions, hits, misses,
               begun, seen, seenAt, closedAt>>
requestVars == <<in, ret, sent>>
refreshVars == <<limiter, allowedAt, mark>>
vars == <<cacheVars, at, requestVars, refreshVars>>

----------------------------------------------------------------------------
(* What the options and the input decide.                                  *)

cfg == Resolve(Opts)
Memory == NewMemory(cfg.cache)

Scope(i) == ScopeFor(cfg, i.path)
KeyOf(i) == KeyFromPluginContext(i, Scope(i))

\* parseSchemaRequest succeeds: only some endpoints read the body, and only
\* tables takes an empty one.
Parses(i) ==
  /\ i.path \in {"columns", "tableParameterValues", "columnValues"} => i.body = "ok"
  /\ i.path = "tables" => i.body # "malformed"

UsesCache(i) == Cacheable(cfg, i.path) /\ Keyable(i.ctx, Scope(i))

WantsRefresh(i) == cfg.refresh.header # "" /\ cfg.refresh.header \in i.headers

\* Mutant of Route: the refresh header is looked at before the cache's options.
RouteRefreshFirst(i) ==
  IF ~i.base THEN IF HasNext THEN "forwarded" ELSE "missing"
  ELSE IF ~Parses(i) THEN "rejected"
  ELSE IF WantsRefresh(i) THEN "refresh"
  ELSE IF ~UsesCache(i) THEN "direct"
  ELSE "lookup"

\* CallResource and handleSchemaResource, up to the first shared state.
Route(i) ==
  IF ~i.base THEN IF HasNext THEN "forwarded" ELSE "missing"
  ELSE IF ~Parses(i) THEN "rejected"
  ELSE IF ~UsesCache(i) THEN "direct"
  ELSE IF WantsRefresh(i) THEN "refresh"
  ELSE "lookup"

\* Places where a request has ended.
Ended  == {"forwarded", "rejected", "done"}
Places == {"idle", "missing", "direct", "refresh", "delete", "lookup", "cache"} \cup Ended

Bucket(i) == <<i.ctx.namespace, i.path>>
Buckets   == {Bucket(i) : i \in Inputs}
Cached    == {i \in Inputs : UsesCache(i)}
CacheKeys == {KeyOf(i) : i \in Cached}
CacheTTLs == {TTLFor(cfg, i.path) : i \in Cached}

Cache == INSTANCE MemoryCache
  WITH Calls <- Requests, Keys <- CacheKeys, TTLs <- CacheTTLs,
       MaxValueBytes <- Memory.maxValueBytes

ASSUME NoneIsNoEntry == None \notin Cache!Entry \cup Cache!Outcome

Statuses == {200, 404, 500, 501}

TypeOK ==
  /\ Cache!TypeOK
  /\ at \in [Requests -> Places]
  /\ in \in [Requests -> Inputs \cup {None}]
  /\ \A r \in Requests : at[r] # "idle" => in[r] \in Inputs
  /\ ret \in [Requests -> {"none", "ok", "err"}]
  /\ sent \in [Requests -> Seq(Statuses)]
  /\ limiter \in [Buckets -> Nat \cup {None}]
  /\ allowedAt \in [Requests -> Nat \cup {None}]
  /\ mark \in [Requests -> [calm : BOOLEAN, fid : Nat] \cup {None}]

Init ==
  /\ Cache!Init
  /\ at = [r \in Requests |-> "idle"]
  /\ in = [r \in Requests |-> None]
  /\ ret = [r \in Requests |-> "none"]
  /\ sent = [r \in Requests |-> <<>>]
  /\ limiter = [b \in Buckets |-> None]
  /\ allowedAt = [r \in Requests |-> None]
  /\ mark = [r \in Requests |-> None]

----------------------------------------------------------------------------
(* The request handler.                                                    *)

Goes(r, from, to) ==
  /\ at[r] = from
  /\ at' = [at EXCEPT ![r] = to]

\* The request ends: it sends, if anything, one more response and returns.
End(r, from, statuses, result) ==
  /\ Goes(r, from, "done")
  /\ sent' = [sent EXCEPT ![r] = @ \o statuses]
  /\ ret' = [ret EXCEPT ![r] = result]
  /\ UNCHANGED <<in, refreshVars>>

\* Mutant of Receive: the request is not kept.
ReceiveNothing(r, i) ==
  /\ Goes(r, "idle", Route(i))
  /\ UNCHANGED <<cacheVars, requestVars, refreshVars>>

\* A parse error is returned at once.
Receive(r, i) ==
  /\ Goes(r, "idle", Route(i))
  /\ in' = [in EXCEPT ![r] = i]
  /\ ret' = IF Route(i) = "rejected" THEN [ret EXCEPT ![r] = "err"] ELSE ret
  /\ UNCHANGED <<cacheVars, sent, refreshVars>>

\* sender.Send delivers the response, or returns an error that is returned.
NotFound(r) ==
  /\ End(r, "missing", <<404>>, "ok") \/ End(r, "missing", <<>>, "err")
  /\ UNCHANGED cacheVars

\* Mutant of AllowRefresh: the bucket is not charged.
AllowRefreshFree(r) ==
  LET b    == Bucket(in[r])
      gap  == cfg.refresh.minInterval
      free == limiter[b] = None \/ now - limiter[b] >= gap
  IN  /\ Goes(r, "refresh", IF gap <= 0 \/ free THEN "delete" ELSE "lookup")
      /\ allowedAt' = IF gap <= 0 \/ free THEN [allowedAt EXCEPT ![r] = now] ELSE allowedAt
      /\ UNCHANGED <<cacheVars, requestVars, limiter, mark>>

\* allowRefresh, under its mutex: a refusal falls back to the cached entry.
AllowRefresh(r) ==
  LET b    == Bucket(in[r])
      gap  == cfg.refresh.minInterval
      free == limiter[b] = None \/ now - limiter[b] >= gap
  IN  /\ Goes(r, "refresh", IF gap <= 0 \/ free THEN "delete" ELSE "lookup")
      /\ limiter' = IF gap > 0 /\ free THEN [limiter EXCEPT ![b] = now] ELSE limiter
      /\ allowedAt' = IF gap <= 0 \/ free THEN [allowedAt EXCEPT ![r] = now] ELSE allowedAt
      /\ UNCHANGED <<cacheVars, requestVars, mark>>

\* Mutants of DeleteEntry: the entry is kept; the flight is dropped with it.
KeepEntry(r) ==
  LET k == KeyOf(in[r]) IN
  /\ Goes(r, "delete", "lookup")
  /\ mark' = [mark EXCEPT ![r] = [calm |-> flight[k] = None, fid |-> begun[k]]]
  /\ UNCHANGED <<cacheVars, requestVars, limiter, allowedAt>>

DropFlight(r) ==
  LET k == KeyOf(in[r]) IN
  /\ Goes(r, "delete", "lookup")
  /\ Cache!DeleteAndForget(k)
  /\ mark' = [mark EXCEPT ![r] = [calm |-> flight[k] = None, fid |-> begun[k]]]
  /\ UNCHANGED <<requestVars, limiter, allowedAt>>

DeleteEntry(r) ==
  LET k == KeyOf(in[r]) IN
  /\ Goes(r, "delete", "lookup")
  /\ Cache!Delete(k)
  /\ mark' = [mark EXCEPT ![r] = [calm |-> flight[k] = None, fid |-> begun[k]]]
  /\ UNCHANGED <<requestVars, limiter, allowedAt>>

\* GetOrFetchBytes is called, with a positive ttl and a cache.
Lookup(r) ==
  LET k == KeyOf(in[r])
      t == TTLFor(cfg, in[r].path)
  IN  /\ Goes(r, "lookup", "cache")
      /\ Cache!Hit(r, k, t) \/ Cache!Miss(r, k, t)
      /\ UNCHANGED <<requestVars, refreshVars>>

\* The steps of GetOrFetchBytes that neither run the handler nor return.
CacheStep(r) ==
  /\ at[r] = "cache"
  /\ \/ Cache!Join(r) \/ Cache!Lead(r) \/ Cache!RecheckHit(r) \/ Cache!RecheckMiss(r)
     \/ Cache!Store(r) \/ Cache!Finish(r)
  /\ UNCHANGED <<at, requestVars, refreshVars>>

----------------------------------------------------------------------------
(* dispatch and the response.                                              *)

\* dispatch may return: bytes to send; nil once it has sent an error itself;
\* or an error, of the handler, of marshalling or of sending.
Refusal(status) ==
  {[kind |-> "nil", sends |-> <<status>>], [kind |-> "err", sends |-> <<>>]}

Dispatched(path) ==
  IF path \notin Endpoints THEN Refusal(404)
  ELSE IF path \notin Implemented THEN Refusal(501)
  ELSE {[kind |-> "bytes", sends |-> <<>>], [kind |-> "err", sends |-> <<>>]}
       \cup (IF path = "fullSchema" THEN Refusal(500) ELSE {})

\* The handler runs inside the flight that r leads.
Dispatch(r) ==
  /\ at[r] = "cache"
  /\ \E d \in Dispatched(in[r].path), size \in Sizes :
       /\ Cache!FetchReturn(r, d.kind, size)
       /\ sent' = [sent EXCEPT ![r] = @ \o d.sends]
  /\ UNCHANGED <<at, in, ret, refreshVars>>

\* Mutant of Endings: a response is sent for nil data too.
EndingsAlways(kind) ==
  IF kind = "err" THEN {[sends |-> <<>>, ret |-> "err"]}
  ELSE {[sends |-> <<>>, ret |-> "err"], [sends |-> <<200>>, ret |-> "ok"]}

\* How handleSchemaResource ends: an error is returned, nothing more is sent
\* for nil data, and bytes are sent, unless that fails.
Endings(kind) ==
  IF kind = "nil" THEN {[sends |-> <<>>, ret |-> "ok"]}
  ELSE {[sends |-> <<>>, ret |-> "err"]}
       \cup (IF kind = "bytes" THEN {[sends |-> <<200>>, ret |-> "ok"]} ELSE {})

\* GetOrFetchBytes has returned.
Reply(r) ==
  /\ pc[r] = "done"
  /\ \E e \in Endings(res[r].kind) : End(r, "cache", e.sends, e.ret)
  /\ UNCHANGED cacheVars

\* Without a cache or a key, the handler runs for this request alone.
DirectReply(r) ==
  /\ at[r] = "direct"
  /\ \E d \in Dispatched(in[r].path) : \E e \in Endings(d.kind) :
       End(r, "direct", d.sends \o e.sends, e.ret)
  /\ UNCHANGED cacheVars

----------------------------------------------------------------------------
Sweep ==
  /\ Memory.cleanupInterval > 0
  /\ Cache!Sweep
  /\ UNCHANGED <<at, requestVars, refreshVars>>

Tick == Cache!Tick /\ UNCHANGED <<at, requestVars, refreshVars>>

Progress(r) ==
  \/ NotFound(r) \/ AllowRefresh(r) \/ DeleteEntry(r) \/ Lookup(r)
  \/ CacheStep(r) \/ Dispatch(r) \/ Reply(r) \/ DirectReply(r)

Next ==
  \/ \E r \in Requests : (\E i \in Inputs : Receive(r, i)) \/ Progress(r)
  \/ Sweep \/ Tick

Spec == Init /\ [][Next]_vars

----------------------------------------------------------------------------
(* Properties.                                                             *)

\* However it was served, a request is answered at most once: what dispatch
\* has sent itself is not sent again (datasource.go:192-194).
AtMostOneReply == \A r \in Requests : Len(sent[r]) <= 1

\* A response that came through the cache, by a hit or a shared flight, was
\* produced for the same question, of the same tenant, datasource, proxy and
\* (under ScopeUser) user, with a configuration less than a second apart.
ServedInScope ==
  \A r \in Requests :
    at[r] = "done" /\ pc[r] = "done" /\ sent[r] = <<200>> =>
      LET origin == in[res[r].by] IN
      /\ SameQuestion(in[r], origin)
      /\ InReach(in[r], origin, Scope(in[r]))

\* What places, keys and responses know of each other in every state.
PlacesAgree ==
  \A r \in Requests :
    /\ at[r] \in {"refresh", "delete", "lookup", "cache"} => in[r] \in Cached
    /\ at[r] = "cache" => pc[r] # "idle"
    /\ pc[r] # "idle" =>
         /\ at[r] = "cache" \/ (at[r] = "done" /\ pc[r] = "done")
         /\ pc[r] # "direct"
         /\ in[r] \in Cached
         /\ key[r] = KeyOf(in[r])

RepliesAgree ==
  \A r \in Requests :
    /\ at[r] \notin {"cache", "done"} => sent[r] = <<>>
    /\ at[r] = "cache" /\ sent[r] # <<>> =>
         pc[r] \in {"finish", "done"} /\ res[r].kind = "nil"

Inv == TypeOK /\ PlacesAgree /\ RepliesAgree /\ AtMostOneReply

\* A refresh that is allowed while nobody is fetching its key is answered by a
\* handler run that began after the entry was deleted.
CalmRefreshIsFresh ==
  \A r \in Requests :
    at[r] = "done" /\ mark[r] # None /\ ret[r] = "ok" /\ mark[r].calm =>
      res[r].fid > mark[r].fid

\* Refreshes of an endpoint are allowed at most once in MinInterval for each
\* namespace, however the requests race.
RefreshesAreSpaced ==
  cfg.refresh.minInterval > 0 =>
    \A r, s \in Requests :
      /\ r # s /\ allowedAt[r] # None /\ allowedAt[s] # None
      /\ Bucket(in[r]) = Bucket(in[s])
      /\ allowedAt[r] <= allowedAt[s]
      => allowedAt[s] - allowedAt[r] >= cfg.refresh.minInterval

\* The datasource drives the cache only as MemoryCache allows.
CacheSpec == Cache!Spec

\* Every request ends.
EveryRequestEnds == \A r \in Requests : at[r] # "idle" ~> at[r] \in Ended

\* What datasource.go:184 says of the return without a response: "dispatch
\* already wrote a response (404/501/validation error) or returned a real
\* error"; so a request that returns no error was answered.
NilErrorIsAnswered ==
  \A r \in Requests : at[r] = "done" /\ ret[r] = "ok" => Len(sent[r]) = 1

\* What options.go:71-72 says of a request with the refresh header: "the
\* cached entry for that exact key is deleted and the handler re-runs".
RefreshReruns ==
  \A r \in Requests :
    at[r] = "done" /\ mark[r] # None /\ sent[r] = <<200>> => res[r].fid > mark[r].fid
=============================================================================
