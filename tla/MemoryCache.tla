---------------------------- MODULE MemoryCache ----------------------------
(***************************************************************************)
(* The in-process response cache of package cache: a TTL store             *)
(* (patrickmn/go-cache) whose concurrent misses are coalesced by a         *)
(* singleflight group.  Each member of Calls is one invocation of          *)
(* GetOrFetchBytes, running in a goroutine of its own; the program makes   *)
(* any number of them, for any keys, at any time.  Deletions, flushes and  *)
(* the store's janitor interleave with every step of every call.           *)
(*                                                                         *)
(* Bytes are abstracted to where they come from: an outcome carries the    *)
(* ordinal of the fetch that produced it (per key), the call that ran the  *)
(* fetch and the length that decides whether it may be stored.             *)
(*                                                                         *)
(* Nobody uses one of Keys with GetOrFetch too, so that whatever a flight  *)
(* returns is bytes (memory.go:211-214); TypedCache has callers of both.   *)
(***************************************************************************)
EXTENDS Integers, FiniteSets

CONSTANTS
  Calls,          \* invocations of GetOrFetchBytes, each made at most once
  Keys,           \* cache keys (cache.Key)
  TTLs,           \* TTLs the callers pass; 0 turns caching off
  Sizes,          \* lengths of the bytes a fetch may return
  MaxValueBytes,  \* longest value the cache stores
  MaxTime,        \* bound of the clock, for model checking
  None            \* no flight, no entry

(***************************************************************************)
(* What fn returned: bytes, (nil, nil), or an error.  A panic of fn counts *)
(* as an error here: singleflight hands it to every waiter in the same way *)
(* and nothing is stored.  "none" is the value before there is an outcome. *)
(***************************************************************************)
Failures == {"nil", "err"}
Kinds    == {"none", "bytes"} \cup Failures
Outcome  == [kind : Kinds, fid : Nat, by : Calls \cup {None}, size : Nat]
Result(kd, n, c, sz) == [kind |-> kd, fid |-> n, by |-> c, size |-> sz]
NoOutcome == Result("none", 0, None, 0)

\* memoryEntry together with go-cache's expiration instant.
Entry == [val : Outcome, exp : Nat]

ASSUME ConstantsAssumption ==
  /\ None \notin Calls
  /\ IsFiniteSet(Keys)
  /\ None \notin Entry
  /\ TTLs \subseteq Nat
  /\ Sizes \subseteq Nat
  /\ MaxValueBytes \in Nat
  /\ MaxTime \in Nat

VARIABLES
  now,        \* the clock
  items,      \* the store: items[k] is an Entry, or None
  flight,     \* singleflight: the call that leads the flight of k, or None
  pc,         \* where each call stands
  key,        \* the key of each call
  ttl,        \* the ttl of each call
  res,        \* the outcome a call holds (a leader's is the flight's)
  evictions,  \* counters schemads_cache_{evictions,hits,misses}_total
  hits,
  misses,
  begun,      \* history: number of coalesced fetches begun for k
  seen,       \* history: newest fetch for k whose bytes a call returned
  seenAt,     \* history: seen[key[c]] when c began
  closedAt    \* history: Closed(key[c]) when c began

history   == <<begun, seen, seenAt, closedAt>>
counters  == <<evictions, hits, misses>>
callState == <<pc, key, ttl, res>>
vars == <<now, items, flight, callState, counters, history>>

(***************************************************************************)
(* A call is in one of these places.  The leader of a flight goes through  *)
(* recheck, fetch, store and finish; a follower waits.                     *)
(***************************************************************************)
Leading == {"recheck", "fetch", "store", "finish"}
Places  == {"idle", "direct", "miss", "wait", "done"} \cup Leading

TypeOK ==
  /\ now \in Nat
  /\ items \in [Keys -> Entry \cup {None}]
  /\ flight \in [Keys -> Calls \cup {None}]
  /\ pc \in [Calls -> Places]
  /\ key \in [Calls -> Keys \cup {None}]
  /\ \A c \in Calls : pc[c] # "idle" => key[c] \in Keys
  /\ ttl \in [Calls -> Nat]
  /\ res \in [Calls -> Outcome]
  /\ evictions \in Nat /\ hits \in Nat /\ misses \in Nat
  /\ begun \in [Keys -> Nat]
  /\ seen \in [Keys -> Nat]
  /\ seenAt \in [Calls -> Nat]
  /\ closedAt \in [Calls -> Int]

Init ==
  /\ now = 0
  /\ items = [k \in Keys |-> None]
  /\ flight = [k \in Keys |-> None]
  /\ pc = [c \in Calls |-> "idle"]
  /\ key = [c \in Calls |-> None]
  /\ ttl = [c \in Calls |-> 0]
  /\ res = [c \in Calls |-> NoOutcome]
  /\ evictions = 0 /\ hits = 0 /\ misses = 0
  /\ begun = [k \in Keys |-> 0]
  /\ seen = [k \in Keys |-> 0]
  /\ seenAt = [c \in Calls |-> 0]
  /\ closedAt = [c \in Calls |-> 0]

----------------------------------------------------------------------------
(* The store.                                                              *)

\* go-cache's Get: an entry is still served at its expiration instant, and
\* an expired one stays in the map until it is overwritten, deleted or swept.
Live(k) == items[k] # None /\ now <= items[k].exp
Expired(k) == items[k] # None /\ now > items[k].exp

\* MemoryCache.Set: nothing is stored for a zero ttl or an oversized value.
Set(k, v, t) ==
  items' = IF t > 0 /\ v.size <= MaxValueBytes
           THEN [items EXCEPT ![k] = [val |-> v, exp |-> now + t]]
           ELSE items

\* Mutant of Delete: the flight of the key is forgotten with its entry.
DeleteAndForget(k) ==
  /\ items' = [items EXCEPT ![k] = None]
  /\ flight' = [flight EXCEPT ![k] = None]
  /\ evictions' = IF items[k] # None THEN evictions + 1 ELSE evictions
  /\ UNCHANGED <<now, callState, hits, misses, history>>

\* MemoryCache.Delete.  go-cache reports a deletion to OnEvicted, which
\* counts it, whether or not the entry had expired.
Delete(k) ==
  /\ items' = [items EXCEPT ![k] = None]
  /\ evictions' = IF items[k] # None THEN evictions + 1 ELSE evictions
  /\ UNCHANGED <<now, flight, callState, hits, misses, history>>

\* MemoryCache.Flush: go-cache drops its map and reports nothing.
Flush ==
  /\ items' = [k \in Keys |-> None]
  /\ UNCHANGED <<now, flight, callState, counters, history>>

\* A run of go-cache's janitor (every CleanupInterval, or never).
Sweep ==
  /\ items' = [k \in Keys |-> IF Expired(k) THEN None ELSE items[k]]
  /\ evictions' = evictions + Cardinality({k \in Keys : Expired(k)})
  /\ UNCHANGED <<now, flight, callState, hits, misses, history>>

Tick ==
  /\ now < MaxTime
  /\ now' = now + 1
  /\ UNCHANGED <<items, flight, callState, counters, history>>

----------------------------------------------------------------------------
(* GetOrFetchBytes: the lookup.                                            *)

\* Number of k's fetches whose failure can no longer reach a new call: all
\* of them, but for one still running or failed and not yet taken down.
Closed(k) ==
  IF /\ flight[k] # None
     /\ \/ pc[flight[k]] = "fetch"
        \/ pc[flight[k]] = "finish" /\ res[flight[k]].kind \in Failures
  THEN begun[k] - 1
  ELSE begun[k]

\* Mutant of Begin: the key is not kept.
BeginKeyless(c, k, t) ==
  /\ pc[c] = "idle"
  /\ ttl' = [ttl EXCEPT ![c] = t]
  /\ seenAt' = [seenAt EXCEPT ![c] = seen[k]]
  /\ closedAt' = [closedAt EXCEPT ![c] = Closed(k)]
  /\ UNCHANGED <<now, items, flight, key, evictions, begun>>

\* A call is made; what it may rely on is noted for the properties.
Begin(c, k, t) ==
  /\ pc[c] = "idle"
  /\ key' = [key EXCEPT ![c] = k]
  /\ ttl' = [ttl EXCEPT ![c] = t]
  /\ seenAt' = [seenAt EXCEPT ![c] = seen[k]]
  /\ closedAt' = [closedAt EXCEPT ![c] = Closed(k)]
  /\ UNCHANGED <<now, items, flight, evictions, begun>>

\* ttl <= 0 (or no cache at all): fn runs on its own, uncoalesced.
Bypass(c, k, t) ==
  /\ t = 0
  /\ Begin(c, k, t)
  /\ pc' = [pc EXCEPT ![c] = "direct"]
  /\ UNCHANGED <<res, hits, misses, seen>>

DirectReturn(c, kind, size) ==
  /\ pc[c] = "direct"
  /\ pc' = [pc EXCEPT ![c] = "done"]
  /\ res' = [res EXCEPT ![c] = Result(kind, 0, c, size)]
  /\ UNCHANGED <<now, items, flight, key, ttl, counters, history>>

\* seen once the bytes of outcome o have been returned for k.
Note(k, o) ==
  [seen EXCEPT ![k] = IF o.kind = "bytes" /\ o.fid > @ THEN o.fid ELSE @]

Hit(c, k, t) ==
  /\ t > 0 /\ Live(k)
  /\ Begin(c, k, t)
  /\ pc' = [pc EXCEPT ![c] = "done"]
  /\ res' = [res EXCEPT ![c] = items[k].val]
  /\ hits' = hits + 1
  /\ seen' = Note(k, items[k].val)
  /\ UNCHANGED misses

Miss(c, k, t) ==
  /\ t > 0 /\ ~Live(k)
  /\ Begin(c, k, t)
  /\ pc' = [pc EXCEPT ![c] = "miss"]
  /\ misses' = misses + 1
  /\ UNCHANGED <<res, hits, seen>>

----------------------------------------------------------------------------
(* GetOrFetchBytes: the flight.  singleflight.Do finds and creates the     *)
(* flight under its mutex, and takes it down under the same mutex.         *)

Step(c, from, to) ==
  /\ pc[c] = from
  /\ pc' = [pc EXCEPT ![c] = to]

Join(c) ==
  /\ Step(c, "miss", "wait")
  /\ flight[key[c]] # None
  /\ UNCHANGED <<now, items, flight, key, ttl, res, counters, history>>

\* Mutant of Lead: a flight is begun whether or not the key has one.
LeadAnyway(c) ==
  /\ Step(c, "miss", "recheck")
  /\ flight' = [flight EXCEPT ![key[c]] = c]
  /\ UNCHANGED <<now, items, key, ttl, res, counters, history>>

Lead(c) ==
  /\ Step(c, "miss", "recheck")
  /\ flight[key[c]] = None
  /\ flight' = [flight EXCEPT ![key[c]] = c]
  /\ UNCHANGED <<now, items, key, ttl, res, counters, history>>

\* Mutant of RecheckHit: the second lookup is counted.
RecheckHitCounted(c) ==
  /\ Step(c, "recheck", "finish")
  /\ Live(key[c])
  /\ res' = [res EXCEPT ![c] = items[key[c]].val]
  /\ hits' = hits + 1
  /\ UNCHANGED <<now, items, flight, key, ttl, evictions, misses, history>>

\* The unrecorded second lookup, made inside the flight.
RecheckHit(c) ==
  /\ Step(c, "recheck", "finish")
  /\ Live(key[c])
  /\ res' = [res EXCEPT ![c] = items[key[c]].val]
  /\ UNCHANGED <<now, items, flight, key, ttl, counters, history>>

\* Mutant of RecheckMiss: there is no second lookup.
FetchUnchecked(c) ==
  LET n == begun[key[c]] + 1 IN
  /\ Step(c, "recheck", "fetch")
  /\ begun' = [begun EXCEPT ![key[c]] = n]
  /\ res' = [res EXCEPT ![c] = Result("none", n, c, 0)]
  /\ UNCHANGED <<now, items, flight, key, ttl, counters, seen, seenAt, closedAt>>

\* It missed: fn starts.
RecheckMiss(c) ==
  LET n == begun[key[c]] + 1 IN
  /\ Step(c, "recheck", "fetch")
  /\ ~Live(key[c])
  /\ begun' = [begun EXCEPT ![key[c]] = n]
  /\ res' = [res EXCEPT ![c] = Result("none", n, c, 0)]
  /\ UNCHANGED <<now, items, flight, key, ttl, counters, seen, seenAt, closedAt>>

\* Mutant of FetchReturn: failures are stored too.
ReturnAnything(c, kind, size) ==
  /\ Step(c, "fetch", "store")
  /\ res' = [res EXCEPT ![c] = Result(kind, res[c].fid, c, size)]
  /\ UNCHANGED <<now, items, flight, key, ttl, counters, history>>

\* fn returns; only bytes go on to Set.
FetchReturn(c, kind, size) ==
  /\ Step(c, "fetch", IF kind = "bytes" THEN "store" ELSE "finish")
  /\ res' = [res EXCEPT ![c] = Result(kind, res[c].fid, c, size)]
  /\ UNCHANGED <<now, items, flight, key, ttl, counters, history>>

Store(c) ==
  /\ Step(c, "store", "finish")
  /\ Set(key[c], res[c], ttl[c])
  /\ UNCHANGED <<now, flight, key, ttl, res, counters, history>>

Landed(c, crew, up) ==
  /\ pc[c] = "finish"
  /\ flight' = [flight EXCEPT ![key[c]] = up]
  /\ pc' = [d \in Calls |-> IF d \in crew THEN "done" ELSE pc[d]]
  /\ res' = [d \in Calls |-> IF d \in crew THEN res[c] ELSE res[d]]
  /\ seen' = Note(key[c], res[c])
  /\ UNCHANGED <<now, items, key, ttl, counters, begun, seenAt, closedAt>>

\* Those who wait for the flight of c.
Waiters(c) == {d \in Calls : pc[d] = "wait" /\ key[d] = key[c]}

\* Mutants of Finish: nobody else is told; every waiter is, whatever its key;
\* the flight is not taken down.
FinishAlone(c)      == Landed(c, {c}, None)
FinishEverybody(c)  == Landed(c, {c} \cup {d \in Calls : pc[d] = "wait"}, None)
FinishLeavesUp(c)   == Landed(c, {c} \cup Waiters(c), c)

\* The flight is taken down and its outcome returned to everyone in it.
Finish(c) == Landed(c, {c} \cup Waiters(c), None)

----------------------------------------------------------------------------
Start(c) ==
  \E k \in Keys, t \in TTLs : Bypass(c, k, t) \/ Hit(c, k, t) \/ Miss(c, k, t)

\* The steps a call takes by itself once it is made.
Progress(c) ==
  \/ Join(c) \/ Lead(c) \/ RecheckHit(c) \/ RecheckMiss(c)
  \/ \E kind \in Kinds \ {"none"}, size \in Sizes :
       FetchReturn(c, kind, size) \/ DirectReturn(c, kind, size)
  \/ Store(c) \/ Finish(c)

Next ==
  \/ \E c \in Calls : Start(c) \/ Progress(c)
  \/ \E k \in Keys : Delete(k)
  \/ Flush \/ Sweep \/ Tick

Spec == Init /\ [][Next]_vars

----------------------------------------------------------------------------
(* Properties.                                                             *)

\* Concurrent misses are coalesced: however the calls interleave, a key has
\* at most one fetch running (GetOrFetchBytes, step 2 of its comment).
OneFetchPerKey ==
  \A c, d \in Calls :
    pc[c] = "fetch" /\ pc[d] = "fetch" /\ key[c] = key[d] => c = d

\* fn never runs, and its result is never awaited, while the store holds an
\* unexpired entry for the key: the second lookup inside the flight closes
\* the window between a call's miss and the flight it leads.
FetchOnlyOnMiss ==
  \A c \in Calls : pc[c] \in {"fetch", "store"} => ~Live(key[c])

\* Reads of a key never go back in time: a call gets the bytes of a fetch no
\* older than any that another call for the key had returned when it began,
\* through hits, coalescing, expiry, deletions and oversized values alike.
MonotonicReads ==
  \A c \in Calls :
    pc[c] = "done" /\ ttl[c] > 0 /\ res[c].kind = "bytes" => res[c].fid >= seenAt[c]

\* fn errors are never cached, nor are nil results: a call is only told of
\* the failure of a fetch that was not over and taken down when it began.
FailuresNotCached ==
  \A c \in Calls :
    pc[c] = "done" /\ ttl[c] > 0 /\ res[c].kind \in Failures => res[c].fid > closedAt[c]

\* What the store keeps for a key, and what a call for the key holds or was
\* given, was fetched by a call for that same key.
ForKey(o, k) == o.by \in Calls /\ pc[o.by] # "idle" /\ key[o.by] = k

OutcomesBelong ==
  /\ \A k \in Keys : items[k] # None => ForKey(items[k].val, k)
  /\ \A c \in Calls : pc[c] \in {"fetch", "store", "finish", "done"} => ForKey(res[c], key[c])

\* Every call that consults the store is counted once, when it does: as a hit
\* exactly when this first lookup gave it what it returns, as a miss
\* otherwise.  No other step counts anything: not the lookup inside a flight,
\* nor what a flight ends with, a deletion, a flush or the janitor.
CountersAgree ==
  [][ LET lookups == {c \in Calls : pc[c] = "idle" /\ pc'[c] # "idle" /\ ttl'[c] > 0}
          served  == {c \in lookups : pc'[c] = "done"}
      IN  /\ hits' = hits + Cardinality(served)
          /\ misses' = misses + Cardinality(lookups \ served) ]_vars

\* What the store, the flights and the calls know of each other in every
\* state; the properties above (but for the counters) follow from it.
\*   - flight[k] is the one call leading for k, and a waiter has a leader;
\*   - what a leader holds is the newest fetch of its key;
\*   - an unexpired entry holds the newest fetch, which is then over;
\*   - nothing was returned, or is relied upon, that was not fetched before.
FlightsAreLed ==
  /\ \A k \in Keys, c \in Calls : flight[k] = c <=> pc[c] \in Leading /\ key[c] = k
  /\ \A c \in Calls : pc[c] = "wait" => flight[key[c]] # None

LeadersHoldNewest ==
  \A c \in Calls :
    /\ pc[c] \in {"fetch", "store", "finish"} => res[c].fid = begun[key[c]]
    /\ pc[c] = "fetch" => begun[key[c]] > 0
    /\ pc[c] = "store" => res[c].kind = "bytes"
    /\ pc[c] = "finish" =>
         res[c].kind = "bytes" \/ (res[c].kind \in Failures /\ begun[key[c]] > 0)

EntriesAreNewest ==
  \A k \in Keys :
    /\ items[k] # None => items[k].val.kind = "bytes"
    /\ Live(k) => items[k].val.fid = begun[k]

HistoryIsPast ==
  /\ \A k \in Keys : seen[k] <= begun[k]
  /\ \A c \in Calls :
       pc[c] # "idle" => seenAt[c] <= seen[key[c]] /\ closedAt[c] <= Closed(key[c])
  /\ \A c \in Calls : pc[c] = "direct" => ttl[c] = 0

Inv ==
  /\ TypeOK
  /\ FlightsAreLed
  /\ LeadersHoldNewest
  /\ EntriesAreNewest
  /\ HistoryIsPast
  /\ FetchOnlyOnMiss
  /\ MonotonicReads
  /\ FailuresNotCached
  /\ OutcomesBelong
=============================================================================
