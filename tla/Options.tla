------------------------------ MODULE Options ------------------------------
(***************************************************************************)
(* The options of a SchemaDatasource and what they resolve to.             *)
(*                                                                         *)
(* An Options record o has disableCache, cache (cleanupInterval and        *)
(* maxValueBytes of cache.MemoryOptions), ttl (a TTL for each endpoint),   *)
(* defaultScope, perEndpointScope (a function on some endpoints) and       *)
(* refresh (header and minInterval).  A duration is a number of seconds, a *)
(* size a number of KiB.                                                   *)
(***************************************************************************)
EXTENDS Integers, CacheKey

Endpoints == {"fullSchema", "tables", "columns", "columnValues",
              "tableParameterValues", "functions"}

DefaultTTL(endpoint) ==
  CASE endpoint = "columns"              -> 120
    [] endpoint = "tableParameterValues" -> 60
    [] endpoint = "columnValues"         -> 0
    [] OTHER                             -> 300

DefaultRefresh == [header |-> "X-Schemads-Refresh", minInterval |-> 5]
DefaultCache   == [cleanupInterval |-> 300, maxValueBytes |-> 5120]

ZeroCache   == [cleanupInterval |-> 0, maxValueBytes |-> 0]
ZeroTTL     == [e \in Endpoints |-> 0]
ZeroRefresh == [header |-> "", minInterval |-> 0]

OptionsType ==
  [disableCache     : BOOLEAN,
   cache            : [cleanupInterval : Int, maxValueBytes : Int],
   ttl              : [Endpoints -> Int],
   defaultScope     : AnyScope,
   perEndpointScope : UNION {[S -> AnyScope] : S \in SUBSET Endpoints},
   refresh          : [header : STRING, minInterval : Int]]

\* Options.resolve: each block that is wholly zero is replaced by its default.
Resolve(o) ==
  [o EXCEPT
     !.cache   = IF @ = ZeroCache THEN DefaultCache ELSE @,
     !.ttl     = IF @ = ZeroTTL THEN [e \in Endpoints |-> DefaultTTL(e)] ELSE @,
     !.refresh = IF @ = ZeroRefresh THEN DefaultRefresh ELSE @]

\* NewMemory: fields that are zero, or may not be negative, get defaults; a
\* negative CleanupInterval becomes go-cache's 0, which starts no janitor.
NewMemory(c) ==
  [cleanupInterval |-> IF c.cleanupInterval = 0 THEN DefaultCache.cleanupInterval
                       ELSE IF c.cleanupInterval < 0 THEN 0 ELSE c.cleanupInterval,
   maxValueBytes   |-> IF c.maxValueBytes <= 0 THEN DefaultCache.maxValueBytes
                       ELSE c.maxValueBytes]

\* Options.scopeFor: an unknown DefaultScope counts as ScopeUser; one given for
\* an endpoint does not.
ScopeFor(o, endpoint) ==
  IF endpoint \in DOMAIN o.perEndpointScope THEN o.perEndpointScope[endpoint]
  ELSE IF o.defaultScope \in Scopes THEN o.defaultScope
  ELSE "user"

\* Options.ttlFor
TTLFor(o, endpoint) == IF endpoint \in Endpoints THEN o.ttl[endpoint] ELSE 0

\* NewSchemaDatasourceWithOptions keeps the resolved options, and a cache
\* unless it is disabled.  Cacheable: handleSchemaResource's cacheable.
Cacheable(o, endpoint) == TTLFor(o, endpoint) > 0 /\ ~o.disableCache
=============================================================================
