# Verification of schemads

This directory is a formal model of [schemads](../src/README.md), the Go SDK
with which a Grafana datasource plugin publishes its schema. TLA+ modules say
what the code does, TLC checks them on small instances, and TLAPS proves the
safety of the caches, of the request path from client to handler and of the
schema's validation for every instance.

## The system

| Component | Source | State it keeps | Operations |
|---|---|---|---|
| Response cache | `cache/memory.go` | a TTL store (go-cache), a singleflight group | `Get`, `Set`, `Delete`, `Flush`, `GetOrFetchBytes`, `GetOrFetch`, the janitor |
| Typed cache | `cache/typed.go`, `cache/memory.go` | entries in the same store, under keys of their own | `Get`, `Set`, `Delete`, `GetOrFetch` |
| Cache metrics | `cache/metrics.go` | three Prometheus counters | recorded by the cache; registered once |
| Cache keys | `cache/key.go`, `parseSchemaRequest` | none | `KeyFromPluginContext` |
| Options | `options.go` | none | `resolve`, `scopeFor`, `ttlFor` |
| SchemaDatasource | `datasource.go` | the refresh limiter, under a mutex; it owns a cache | `CallResource`, one goroutine per request |
| Schema validation | `validation.go` | none | `ValidateSchema`, called on every `fullSchema` response |
| Table references | `tables/` | none | `Parse`, `String`, `Canonicalize`, `Validate`, back-ticks |
| Schema client | `client.go` | none | one request per call; a 501 becomes a sentinel error |
| Query, wire types | `query.go`, `types.go` | none | data and formatting |

How they interact: a plugin's `CallResource` goroutines enter one
SchemaDatasource. A schema request is parsed, its key is built from the plugin
context and the parsed fields, and it calls the shared cache. On a miss the
goroutine leads or joins a singleflight. The leader calls back into the
datasource's `dispatch`, which runs the plugin's handler and may itself answer the
leader (404, 501, 500) by sending through the leader's sender. A request with
the refresh header first asks the limiter and then deletes the entry of its key.

What is hard in it:

- three pieces of shared state (store, flights, limiter), each with its own lock,
  touched by every request in a sequence of separate steps;
- a deletion, an expiry or a janitor run may fall between any two steps of a
  call, and a flight may outlive the entry it was begun for;
- the callback of a flight has an effect (a response sent) on one member of the
  flight, and a value shared with all; it runs in the context of that member,
  whose client may give up;
- callers of different Go types share entries and flights, and find out by type
  assertions, some of which fail silently;
- a key decides who sees whose data, and is built by hashing text.

What makes each component correct:

- *cache*: at most one fetch per key; no fetch while there is an unexpired entry;
  reads never go back in time; failures are not kept; what is stored under a key
  was fetched for that key; every call returns; counters count what they say;
- *typed cache*: misses are coalesced across types; flights do not delete each
  other's work; only a caller of another type can spoil an answer;
- *keys*: the same key only for the same question, tenant, datasource,
  configuration and user; the same question always the same key;
- *datasource*: uses its cache only as above; answers at most once; shares a
  response only within its scope; refreshes are spaced and fresh; requests end;
- *validation*: finds every cycle and no other; what it accepts can be used: a
  reference to any of its tables can be completed;
- *references*: the parser reads the documented grammar, with keys neither empty
  nor repeated; parsing inverts encoding; canonical forms are stable;
- *client*: every call returns; "not implemented" is believed rightly; the
  cancellation of one call does not outlive its flight.

## The modules

| Module | Extends | Instances | Model-checked by | Proved about in |
|---|---|---|---|---|
| `MemoryCache` | | | `MCMemoryCache` | `MemoryCacheProofs` |
| `ReadThrough` | | | (abstract) | |
| `CachePromise` | `MemoryCache` | `ReadThrough` | `MCMemoryCache` | `MemoryCacheProofs` |
| `CacheKey` | | | | |
| `KeyComparison` | `CacheKey` | | `MCCacheKey` | `CacheKeyProofs` |
| `Options` | `CacheKey` | | | |
| `SchemaDatasource` | `Options` | `MemoryCache` | `MCSchemaDatasource` | `SchemaDatasourceProofs`, which instances `MemoryCacheProofs` and `CacheKeyProofs` |
| `SchemaClient` | `SchemaDatasource` | | `MCSchemaClient` | `SchemaClientProofs`, which extends `SchemaDatasourceProofs` |
| `TypedCache` | | | `MCTypedCache` | `TypedCacheProofs` |
| `DetectCycle` | | | | `DetectCycleProofs` |
| `SchemaValidation` | | `DetectCycle` | `MCSchemaValidation` | `SchemaValidationProofs`, which instances `DetectCycleProofs` |
| `TableRef` | | | | |
| `RefTexts` | `TableRef` | | `MCTableRef` | `TableRefProofs` |

**MemoryCache** models `GetOrFetchBytes` and everything that interleaves with
it. Each member of `Calls` is one invocation, in a goroutine of its own.

| In the model | In the code |
|---|---|
| `items`, `Live`, `Set`, `Delete`, `Flush`, `Sweep` | the go-cache map, `Get`'s expiry test, and the methods of `MemoryCache`; `Sweep` is the janitor |
| `flight`, `Join`, `Lead`, `Finish` | the singleflight group: finding, creating and taking down a call under its mutex |
| `pc`: idle, miss, wait, recheck, fetch, store, finish, done, direct | where the goroutine stands in `GetOrFetchBytes` |
| `Hit`, `Miss`, `Bypass` | lines 187-192: the recorded lookup, and the call without a ttl |
| `RecheckHit`, `RecheckMiss`, `FetchReturn`, `Store` | lines 195-206, inside the flight: the unrecorded lookup, fn and its three kinds of result, `Set` |
| `evictions`, `hits`, `misses` | the counters of `metrics.go` |
| `begun`, `seen`, `seenAt`, `closedAt` | history, read by the properties only |

Bytes are abstracted to an *outcome*: which fetch of the key made them (`fid`),
who ran it (`by`), what kind of result it was and how long the bytes are.

**ReadThrough** is what `MemoryCache` promises, without store, clock or flights:
a call waits, fetches or is served, and is answered with the newest fetch of its
key as it stands at that moment; a failure is told once and forgotten; a key is
fetched only when nothing is kept for it; what is kept may be forgotten.
**CachePromise** maps the cache to it: the newest fetch of a key is what the
leader of its flight holds, or else its unexpired entry; all places of a call
between its miss and its return are waiting.

**TypedCache** models the generic callers of the same store: `GetOrFetch[T]`,
whose entries are JSON, and `Typed[T]`, whose entries are tagged with `T`. A value
is its dynamic type and its author; `Decode` says what JSON of one type becomes
when read as another. `GetOrFetchBytes`, which keeps its entries and flights under
the same keys as `GetOrFetch`, is one of the callers here: its type is raw bytes,
and any entry decodes to it. `FlightsDropNoWork` is about the deletion inside a
flight, which follows its look by a step of its own: only because one flight at
most is up for a slot is nothing lost but what a `Set` put there in between.

| In the model | In the code |
|---|---|
| `JSONSlots`, `TypedSlots` | `bytesStorageKey`, `typedStorageKey`: the type is in neither |
| `Usable`, `Hit`, `Miss`, `Spoiled`, `Clear` | the lookup, lines 238-245 and 278-305 with 331-338: an unusable entry is deleted in a later step, whatever it is by then |
| `Lead`, `RecheckHit`, `RecheckMiss`, `Drop`, `FetchReturn`, `FetchFail`, `Store` | the flight, lines 247-267 and 340-356 |
| `Shared` | the assertion of what the flight returned: an error in `GetOrFetch` (line 273) and `GetOrFetchBytes` (line 213), a silent zero value in `getOrFetchTyped` (line 361) |
| `Put`, `Remove` | `Set` and `Delete` of either, expiry, the janitor, `Flush` |

**CacheKey** models `KeyFromPluginContext`, `userIdentity`, `hashParts` and the
key parts of `parseSchemaRequest`. SHA-256 is taken as an injection, so a hash
is what is hashed: a sequence of chunks, flattened, because the code writes the
parts one after the other. Free text is words, of which the client may choose
any, the labels of the parts included. It also says, without keys, when two
requests ask the same question (`SameQuestion`), whose responses must be shared
(`SameReach`) and whose may be (`InReach`). These compare the fields of users and
the instants of edits themselves, and not what the code makes of them. One key
spans edits of less than a second, and users whose fields are `Mixed`: a text that
is, say, the login of one is the email of the other. **KeyComparison** puts two
requests side by side: one that filled the cache, and one that looks up its key.

**Options** models defaults, `resolve`, `scopeFor`, `ttlFor` and `NewMemory`.

**SchemaDatasource** models `CallResource` and all below it, one member of
`Requests` per invocation, with `at` for where the request stands. `Route` is
the sequential decision from the path, the body, the options and the context
(before any shared state is touched). `AllowRefresh`, `DeleteEntry`, `Lookup`,
`CacheStep`, `Dispatch`, `Reply` and `DirectReply` are its steps on shared
state; each that calls the cache conjoins the action of
`Cache == INSTANCE MemoryCache`, with the requests as its calls.

**SchemaClient** puts clients before the datasource: a request of
SchemaDatasource is a call of a `Fetch` method (`Call`). `Return` is what `Client.do`
makes of the response (a sentinel for a 501, an error for any other status but
200, the decoded response, or a decoding error), `GiveUp` the end of the call's
context, `Serve` every step of the server. HTTP and the plugin's transport are
external: they carry the first response, report its absence, and end the context
of a request whose client left. A handler whose context ended may fail, and so
may sending; `left` and `trouble` note whose client left and whose handler or
sender failed by itself.

**DetectCycle** models the depth-first search of `validation.go:120-159`. The
recursion is a `stack` of frames, each a parameter and the index of its next
dependency; `Enter` is a turn of the outer loop, `Descend` a call of `visit` from
another, `Return` the end of one, `Finish` the end of the search. `visitState`
holds the colours. What the search is to find is said without it: `Knot(S)`, a
set of parameters each of which depends on one of the set.

**SchemaValidation** models `ValidateSchema` as the sequence of its checks, with
one action per check and `Search == INSTANCE DetectCycle` stepped inside it, on
the parameters of the table at hand. An early return is `Answer`, with the kind
of the error. The operator `Validate` is `tables.Validate`, the other reader of
the same parameters: what `ValidateSchema` accepts is judged by what `Validate`
then does with it (`NobodyGetsStuck`).

**TableRef** models `TableRef.String`, `Parse` with its helpers, `Canonicalize` and
the back-ticks, on texts that are sequences of characters: here the conversion
is the subject. An ordinary character stands for all that the package treats
alike; blanks (space, tab) and other Unicode white space are told apart,
because `strings.TrimSpace` and `strings.TrimRight` do. The parser's position is
an argument, and its loops are recursive functions of it. `Written` is `String`
with the spelling of the separators left open, so that it also makes the texts
that someone may type for a reference, with blanks around separators.
**RefTexts** types texts and writes references, and states what the package
says of them. To do so it says without a parser what a text means (`Meaning`):
the grammar of `tables/doc.go` (`WellFormed`), by the bare reserved characters that
cut a text up. What `Parse` demands besides, that keys are neither empty nor repeated, is
`Keyed`. **MCTableRef** holds the characters and references for TLC.

The modules hold, before the definition it changes, each *mutant* listed in
`PROJECT.json`: the definition with a plausible bug. For every property of
every passing run, TLC finds the property violated when its mutant replaces
the definition.

## The runs

| Run | Checks | Instance |
|---|---|---|
| `cache_safety` | `TypeOK`, `OneFetchPerKey`, `FetchOnlyOnMiss`, `MonotonicReads`, `FailuresNotCached`, `OutcomesBelong`, `CountersAgree`, the inductive `Inv`, and the refinement `KeepsPromise` | 3 calls, 2 keys, ttl 0 or 1, sizes 1 and 2 with a limit of 1, clock to 2; symmetric |
| `key_separation` | `KeysSeparate`, `KeysAreShared` | all pairs among 216 contexts of one question (users that have fields in common, one of them in the place of another field; edits in one second, less than a second apart, and a second apart) and 59 questions of one context, both scopes |
| `refresh` | `CalmRefreshIsFresh`, `RefreshesAreSpaced`, `TypeOK` | 3 requests for one key, with or without the header, clock to 2, `MinInterval` 2 |
| `routes` | refinement `CacheSpec`, `AtMostOneReply`, `ServedInScope`, the inductive `Inv` | 2 requests over 13 inputs, of one tenant (tenants are told apart in `key_separation`), clock to 2 |
| `clients` | `EveryRequestEnds`, `EveryCallReturns`, `SentinelIsTrue`, `FailuresStayInTheFlight`, the inductive `ClientInv` | 2 calls of one cached question with and without the refresh header, an endpoint without a handler, one whose response may be refused and one that is not cached; either call may give up at any time |
| `typed` | `FlightsDropNoWork`, `OneFetchPerSlot`, `OnlyOthersSpoil`, `LookupsAreCounted`, `TypeOK` and the inductive `Inv` | 3 calls with a struct, the interface `any` or raw bytes for T, on a JSON slot or (not for raw bytes) a typed one, two types at most in a behaviour, with stores and deletions from outside; symmetric |
| `validation` | `SearchInv` (the inductive invariant of the search, its correctness included), `NobodyGetsStuck`, `ValidationEnds` | every graph of a root and two parameters with dependencies in any order and any of them required, every graph of a root and three required ones, tables with each other fault, two tables with values, nil |
| `table_refs` | `ParsesTheGrammar`, `CanonicalFormIsFixed`, `RefsComeBack`, `BackticksComeBack` | all texts of up to 5 of 9 characters, all of up to 9 that begin `a(a=`, and references with up to 2 of 5 keys, over 9 names and 6 values |

Three calls are enough for the cases that matter: a leader, a follower, and a
call that comes between or after; two keys show that keys do not mix. The clock
passes the expiry of an entry (ttl 1) and comes to the boundary at which an
entry is still served. One size over the limit makes values that are returned
and not stored. `refresh` lets two refreshes of one bucket be allowed (at 0 and
2) and a third be refused. Its requests may all finish with the clock at its
bound, with no janitor, so it does without the deadlock check. So does
`validation`: one call of `ValidateSchema` ends. Three parameters besides the
root make cycles of every length to three, two ways to one parameter, and cycles
that the search enters from outside.

In `clients` the clock stands still: whether an entry is found, and what becomes
of a flight, does not depend on it, and the refresh deletes entries. Two calls are
a leader and a follower, or a call and one that comes after it. `typed` follows one
slot at a time, because slots share only the counters; three calls make a
leader, a follower of its type and one of another, so that two types are enough;
`any` has values that JSON turns into something else, one that does not decode
into the struct, and nil; raw bytes meet both the others in the JSON slot. In
`table_refs` five characters hold every pair of neighbours in every position of a
bare name or of a shortest list, and `a(a=` gives five more to a value, a second
pair and what comes after the list.

Four runs show where the code departs from what the repository says of it; each
checks one property, whose comment quotes the text, and TLC finds it violated.

| Run | The text | The code |
|---|---|---|
| `nil_reply` | `datasource.go:184`: "dispatch already wrote a response (404/501/validation error) or returned a real error" | it wrote to the leader of the flight; a request that waited returns nil and is never answered |
| `refresh_reruns` | `options.go:71`: "the cached entry for that exact key is deleted and the handler re-runs" | a refresh during a fetch joins the fetch that began before it |
| `key_labels` | `README.md:316`: the body of a key is `sha256(endpoint\|minimalTypedFields)` | the fields are run together, so free texts that contain the labels collide |
| `functions_errors` | `README.md:509`: "Partial failures can be reported via the `Errors` field on each response type" | `FunctionsResponse.Errors` is a `[]error`, encoded as `[{}]`, and the client fails to decode the whole response |

Other departures that the modules show by their definitions, without a run:

- `options.go:77` says an empty header "disables refresh entirely"; with
  `MinInterval` zero too, `Resolve` puts the default header back (`options.go:118`).
- `key.go:148` calls a user's identity "a stable identifier for the calling user";
  it is the bare text of the first field that is set, so that a user whose login is
  another's email has that other's key (`key.go:154-162`; `Mixed` in CacheKey). The
  comment says it "falls back to UID/Email"; the code falls back to the email and
  then the name.
- `README.md:319` says that editing a datasource invalidates its entries "automatically";
  `Unix` keeps whole seconds of the update time (`key.go:127`).
- `metrics.go:27` says of the evictions "after TTL expiry"; `Delete` counts
  deletions as well (`memory.go:83`).
- `typed.go:9` calls the cache "type-safe", and `typed.go:25` says that the endpoint
  label "otherwise has no effect"; it is part of the storage key (`memory.go:384`),
  and where it is shared, a follower of another type is given a zero value without an
  error (`memory.go:361`; the case `OnlyOthersSpoil` leaves open).
- `memory.go:244` and `336` delete an entry that could not be used, "corrupt entry",
  but in a later step than the look: of two calls that both found it so, the later
  may delete what the flight of the earlier stored (`Clear` in TypedCache), at the cost
  of one more fetch. Inside a flight this cannot happen (`FlightsDropNoWork`).
- The grammar of `tables/doc.go` has `key = chars`, which may be empty (lines 29, 31),
  and lines 12-15 ask for no more than a table name; `Parse` rejects `t(=v)`
  (`tables.go:128`, and so expects `tables_test.go:136`). `ParsesTheGrammar` says
  what is accepted: `WellFormed` texts that are `Keyed`.
- `tables.go:240` calls `Canonicalize` "the recommended way to normalise" what is
  compared; of `a\n()`, a line break before the list, the form is `a\n`, and the form
  of that is `a`, because `Parse` trims all white space around a text (`tables.go:92`).
  `CanonicalFormIsFixed` says that it happens to exactly the texts that are not
  `Settled`: those whose form is a table name ending in white space other than
  blanks. For the same reason such a name does not come back when it is written,
  although `tables_test.go:227` says that references without outer ASCII blanks do.

## Fairness

`ClientFairSpec` of SchemaClient is weak fairness of the steps that the server takes
for a request, those of its call of the cache included, and of the return of the
response, one condition each per call. It says that Go schedules runnable
goroutines, that handlers return (they are given the context of the request),
that senders return, and that the transport delivers a response or reports that
there is none. Nothing obliges a client to call or to give up, time to pass or
the janitor to run: `EveryCallReturns` does not lean on deadlines. Weak fairness is
enough, because a goroutine that is ready to step stays ready: the wait for a
flight is ended by the leader's own steps, its client gone or not.

`FairSpec` of SchemaValidation is weak fairness of its next step:
`ValidateSchema` is a plain function that waits for nothing.

## The proofs

`MemoryCacheProofs` proves, for all calls, keys, ttls, sizes and limits, from
the assumption that the set of keys is finite:

- `TypeCorrect`, and `Invariance`: `Inv` is inductive;
- from it `Coalescing`, `NoNeedlessFetch`, `ReadsAreMonotonic`,
  `ResponsesStayWithTheirKey` and `FailuresAreNotKept`;
- `EveryLookupIsCounted`, the action property `CountersAgree`: the lookup of a call
  counts it as what it was (`LookupCounts`), and no other step counts anything
  (`NoLookupNoCount`).

The properties are not inductive by themselves. That at most one fetch runs
needs `FlightsAreLed`: `flight[k]` is the one call in a leading place for `k`.
That reads do not go back needs to know what an entry and a flight may hold:
`EntriesAreNewest` (an unexpired entry holds the newest fetch of its key, and
that fetch is over) and `LeadersHoldNewest` (so does a leader). The first holds
because a fetch only begins when there is no unexpired entry, which is the second
lookup inside the flight, and because an entry that was not overwritten (an
oversized value) had expired before. `HistoryIsPast` ties the history
variables to the present. One lemma per group of actions shows that each part
is kept; `StoreShrinks` covers, at once, everything that only lets entries go.

It proves, too, `PromiseIsKept`: the cache implements ReadThrough. Each
action maps to a step of it or to a stutter; an expiry, a sweep, a deletion and a
flush are all `Forget`. The mapping needs `Inv` and, beyond it,
`FlightsHoldEntries`: what a flight has found or stored is what it will return, so
that answering leaves the newest fetch as it is or forgets it.

`SchemaDatasourceProofs` proves, for all requests, inputs and options:

- `Invariance`, `TypeCorrect` and `AnsweredAtMostOnce`: the last needs
  `RepliesAgree` (who has been sent something inside a flight ends it with nil);
- `UsesCacheAsAllowed`: the datasource implements MemoryCache. Every step maps
  to a step of the cache or leaves it alone (`CacheStepOrStutter`), which needs
  that a request at the cache has a key (`PlacesAgree`);
- `RefreshesKeepTheirDistance`: the invariant is that the limiter remembers, for
  each bucket, an instant no earlier than any refresh allowed in it;
- `CalmRefreshesAreFresh`: a deletion that found no flight leaves neither an entry
  nor a flight that holds one of the fetches made before it, and this stays so
  (`NothingSince`, `NothingComesBack`, which are lemmas about the cache), so that whoever
  returns for the key returns a later one (`LaterIsReturned`);
- through it, the cache's theorems hold of the datasource: `OneHandlerPerKey`;
  `RequestsSeeThePromise`, that requests see the abstract cache only; and
  `InScope`, that a shared response was made for the same question, tenant,
  datasource and user, as far as keys tell users apart (`InReach`). `InScope` assumes `LabelFree`: no table is named after
  the label that follows its name in the key. Without that it is false
  (`key_labels`), and it is all that stands between the code and unconditional
  separation: names of parameters and columns, maps and time ranges may be
  anything.

The theorems about the cache are instantiated, not repeated: `SameCache` shows
that the two instances are one specification, and `CacheAssumption` that the
resolved options meet the cache's assumptions. So are those about keys, for the
requests that have one (`KeyAssumption`, `SameKeys`).

`CacheKeyProofs` proves, of requests in any number with any texts, names, maps and
identities, `KeysShared` and, where tables are `LabelFree`, `KeysTellApart`.
That the same question has the same key needs that a list and its permutations
have the same sorted copies (`SortedAlike`), and that there is one: place each
member by how many come before it (`Ranks`, `SortedCopyExists`). That a key has one question needs to take a
hashed text apart, though nothing separates its parts. `Runs` says what
`FlattenSeq` is for a sequence of texts; it is recursive, so what is shown of it is
shown of the shortest counterexample (`Smallest`, on `WFMin`). Two equal texts that
end in parts of known length agree on those and on what precedes them
(`AlikeEnds`, `EndsTold`): so the maps and lists, one chunk each, and their labels
are told from the end, and one free text before them too (`ColumnsTold`,
`ColumnValuesTold`). With two free texts and a label between them, the first is
told by the label's first occurrence (`FirstLabel`, `ParameterValuesTold`): this is
where `LabelFree` is needed. It is exact for the text of the code as well: no end of
"tableParameter" is a beginning of it, so that a name without the label makes no
earlier occurrence together with it. The prefix is a record, and what it tells is
shown against the fields that it was made from: an identity tells users whose fields
are not mixed up (`IdentityTells`), and a whole second what is a second apart (`Seconds`).

`SchemaClientProofs` proves `ClientsUseDatasource` (clients refine
SchemaDatasource, by forgetting them), and so inherits its theorems;
`ClientInvariance`; `ClientsToldTheTruth`, because a 501 is sent only for want of a
handler (`StatusesAreTrue`) and each method has an error of its own; and
`CancellationIsContained`. For the last, `BlameFalls` says that a failed outcome was
fetched by a call that left or had trouble and that a nil one had been answered,
and the cache's `FailuresNotCached`, through the two refinements, that the failure
was not over when the call began.

`TypedCacheProofs` proves that `Inv` is inductive and from it
`TypeCorrect`, `Coalescing` and `LoneTypesAreSafe`, for any calls, slots and types and any
`Dyn` and `Decode` that agree. `EntriesFit` (a typed entry is of the type of its tag)
and `ResultsFit` (a flight's result is of its leader's type) make the assertions
succeed that must; an assertion that fails points to the leader, which is a call
of another type at the same slot (`FlightsAreLed`), or to a nil interface.
`FlightsLoseNoWork` holds because only the leader of a slot's flight stores there:
what its own look could not use is still there when it deletes, or is gone, or
came from outside (`DropKeeps`, `DropStep`).
`EveryLookupIsCounted` needs the invariant `Accounted`: the calls that have looked
(`Settled`) are at most as many as hits and misses together, and the surplus is at
most as many as the calls that may have found a nil interface, which the
code counts as a hit and then as a miss. Here the calls are assumed to be finitely many.

`DetectCycleProofs` proves `SearchCorrect`, for parameters in any number and
order: the search answers "cycle" exactly if there is one. The invariant is what
the comment of the code says of the colours, made exact. `StackIsVisiting`: the
parameters that are being visited are those of the stack, each once.
`StackIsPath`: a frame was called for a dependency of the one below, so that
meeting a "visiting" parameter closes a cycle (`BackEdge`). `FramesProgress` and
`VisitedIsClosed`: a parameter becomes "visited" only when all its dependencies
are. Then `VisitedIsAcyclic` is kept, because a knot that holds the parameter
that is about to be coloured would hold one of its dependencies, all of which
were visited, and so would be a knot without it. `EntriesVisited` carries this to
all parameters when the search ends.

`SchemaValidationProofs` proves `SearchesAreSound`: every search that
`ValidateSchema` begins starts in the invariant of `DetectCycle` (`SearchBegins`;
this is where the check of the references is needed) and keeps it
(`SearchGoesOn`), by the theorems about `DetectCycle`, which are instantiated.
From it follows `NeverStuck`. If no missing required parameter could be given
next, each would wait for a missing dependency, which is required too because
the chain was checked; the missing required parameters would be a knot, and the
search found none. The induction over tables is the conjunct of the invariant
that the tables before the one at hand are sound.

`TableRefProofs` proves of references, over any characters and with names, keys
and values of any length and number, `RefsComeBackAlways`,
`CanonicalFormIsFixedAlways`, `BackticksComeBackAlways` and
`ParsesTheGrammarAlways`. The assumptions are
on `Characters` alone, that they are listed once each and hold those the package
treats specially, and on `Refs`, that they are references. What is
invariant is only that `text` is a text; the work is in the operators:

- A loop of the parser is a recursive function, defined by CHOOSE, and of it
  nothing is known before there is such a function. `RecursiveFunction` shows that
  once, for a recursion into what is smaller; `Undoubling`, `Reading` and
  `ReadingParams` apply it, and `ReadCharsAt` and `ReadParamsAt` say what each loop
  does at a position. Induction is over sets of numbers (`Numbers`), of texts by
  their first character (`Texts`), and along a rank (`Ranked`).
- `Escape`, `WrapInBackticks` and `Written` run texts together with `FlattenSeq`:
  `Spelling` says that it goes character by character.
- A text that *stands* at a position of another (`Stands`) lets the parser be
  followed through what was written: an escaped text is read and no further
  (`ReadsEscaped`), so is a key or value with blanks around it (`ReadsToken`), then a
  pair (`ReadsPair`), and, by induction from its end, the list (`ReadsList`).
- The keys of a map are listed in order: `Order` shows that texts are totally
  ordered and `SortedLists` that a finite set of them has its list, so that the
  keys that come back are those that were written, each once (`CollectedIs`).
- `TrimsAround` and `PaddedIs` deal with the white space around the text, which
  is told from the blank behind the last separator only by where it is cut.
- What Parse returns has no outer blanks (`ParsedLasts`): trimming comes after
  escapes are undone and leading blanks are skipped before. So a canonical form is
  the text of a reference that comes back, or of a bare table name that ends in
  other white space. Such a name loses its end (`LosesItsEnd`) when its form is parsed
  again (`CutAgain`), because white space is written as it is
  (`EscapesBefore`), and what is left comes back.
- `Undouble` finds what was doubled (`UndoublesAll`), and where it finds no error
  nothing else could have been (`UndoublesOnly`).

`ParsesTheGrammarAlways` says that the parser reads the language of
`tables/doc.go`: it accepts exactly the texts that are `WellFormed` and `Keyed`
(`Acceptable`), and makes of them what they mean. The grammar looks at a text as a whole, the parser from left
to right, and they are brought together from separator to separator:

- A position is escaped if a backslash that is not escaped is before it
  (`EscapedIs`), so that a parser that stands at a `Free` position moves to one.
- Up to the next bare separator a text is `Readable` if every escape is one and
  reading may stop there. `ReadsPart` shows, by induction from the end, that
  `ReadChars` reads what is readable, and nothing else, and that what it reads is
  the text `Unescaped`. `ReadsLater` adds the blanks, which the parser skips
  before it undoes escapes and the grammar trims afterwards (`TrimFirst`).
- After a separator a pair is read where the grammar has one (`ReadsComplete`), and
  the grammar's demands on all separators from there on are those on this pair and
  on what follows it (`GoodIs`). So the list is closed if it is well-formed from its
  opening on, and only then, and its pairs are those that its separators open
  (`ReadsGoodLists`). A key is repeated if two of them open the same key, and
  the map that is collected is the one meant (`ValuesAre`).
- A text has no list (`OnlyName`), an empty one (`EmptyList`) or another
  (`OtherList`); `ParseReadsMeaning` puts the cases together.

Only model-checked: liveness (`EveryRequestEnds`, `EveryCallReturns`,
`ValidationEnds`), because ENABLED is out of TLAPS's reach. Every other property
of a passing run is stated by a theorem.

## What is left out

- Byte copies (`cloneBytes`) and sharing of memory: values here are immutable.
- A lookup and the counting of it are one step; so are an eviction and its count.
- A panic of fn is an error outcome, which singleflight spreads in the same way.
- A context is only its end: `GiveUp` in SchemaClient, after which the handler may
  fail. Deadlines are not told from cancellations.
- HTTP between client and plugin: redirects, retries of the transport, truncated
  or foreign bodies. Request headers other than the refresh header.
- `getBytes`'s removal of entries of a foreign kind (lines 110-127): byte keys and
  typed keys differ by their prefix, so that each is written by one kind of setter.
- Callers of `GetOrFetch` on the keys of MemoryCache: there a flight returns bytes,
  and "unexpected type" (lines 211-214) is not an outcome. TypedCache has callers of
  both kinds on one key.
- Nil receivers of `MemoryCache` and `Typed`: they run fn alone, as a call without
  a ttl does. `Len` and `ItemCount`, which are for tests.
- `NewClient`'s checks of its arguments; the SQL text of `query.go`, which is
  wording and holds no state; most fields of `types.go`.
- `Flush` is an action of MemoryCache and never taken by the datasource.
- The texts of the errors of a validation, and which table or parameter they
  name; the pre-populated values themselves.
- The prefix of a key is a record: that its text is injective is assumed.
- Refresh buckets are kept for ever; a finite instance cannot show growth.

## Plan

The plan of the modules is carried out, in this order, the most important first:

1. `MemoryCache`, `CacheKey`, `Options`, `SchemaDatasource` with their proofs.
2. `DetectCycle`, `SchemaValidation` with `tables.Validate`, and their proofs.
3. `ReadThrough`, the abstract cache, and the proof that `MemoryCache` implements it.
4. `TypedCache` and its proofs.
5. `SchemaClient`, composed with the datasource, and its proofs.
6. `TableRef`, over short texts, and the proofs that what is written is read back
   and that what is read is the language of `tables/doc.go`.

Nothing in it is open. What a continuation could add is under "What is left out".
