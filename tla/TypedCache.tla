----------------------------- MODULE TypedCache -----------------------------
(***************************************************************************)
(* The generic face of package cache: GetOrFetch[T], which keeps values as *)
(* JSON, and Typed[T], which keeps them as they are, tagged with T.  Both  *)
(* share a MemoryCache (its store and its singleflight group) with callers *)
(* of other types.  The slot of a call is its storage key, which names the *)
(* key and the endpoint and not T.  Each member of Calls is one invocation *)
(* of GetOrFetch or Typed.Get in a goroutine of its own; GetOrFetchBytes,  *)
(* which shares the slots of GetOrFetch, is a GetOrFetch whose type is the *)
(* bytes and to which any entry decodes.  Nil bytes it does not store.     *)
(*                                                                         *)
(* A value is its dynamic type and the call whose fn returned it.  An      *)
(* entry may go at any time: it expires, is swept, deleted or flushed.     *)
(***************************************************************************)
EXTENDS Naturals, FiniteSets

CONSTANTS
  Calls,       \* invocations, each made at most once
  JSONSlots,   \* storage keys of GetOrFetch ("bytes|...")
  TypedSlots,  \* storage keys of Typed ("typed|...")
  Types,       \* types T that callers use
  Dynamic,     \* dynamic types of values
  Nil,         \* that of the nil interface
  Dyn,         \* Dyn[T]: dynamic types of the values of T; Nil if T is an interface
  Decode,      \* Decode[T][d]: what the JSON of a d becomes, read as a T, or None
  Outside,     \* the author of values that MemoryCache.Set or Typed.Set stores
  None         \* no flight, no entry, no value

Slots == JSONSlots \cup TypedSlots
Value == [dyn : Dynamic \cup {Nil}, by : Calls \cup {Outside}]

\* memoryEntry: a JSON entry has no valueType.
Entry == [tag : Types \cup {None}, val : Value]

ASSUME ConstantsAssumption ==
  /\ IsFiniteSet(Calls) /\ None \notin Calls
  /\ JSONSlots \cap TypedSlots = {}
  /\ None \notin Entry \cup Value /\ None \notin Dynamic \cup {Nil} /\ Nil \notin Dynamic
  /\ None \notin Types
  /\ Dyn \in [Types -> SUBSET (Dynamic \cup {Nil})]
  /\ \A T \in Types, d \in Dynamic \cup {Nil} : Decode[T][d] \in Dyn[T] \cup {None}

VARIABLES
  items,   \* the store
  flight,  \* the call that leads the flight of a slot, or None
  pc,      \* where each call stands
  slot,    \* its storage key,
  type,    \* its type, and its operation:
  op,      \* GetOrFetch, Typed.Get, or GetOrFetch without caching
  res,     \* what it holds or was given
  hits,    \* counters schemads_cache_{hits,misses}_total
  misses

counters == <<hits, misses>>
calls    == <<pc, slot, type, op, res>>
vars     == <<items, flight, calls, counters>>

(***************************************************************************)
(* What a call may be given: a value; an error of fn or of json.Marshal;   *)
(* the error "unexpected type"; a zero value that nobody made, without an  *)
(* error; or, of Typed.Get, nothing.                                       *)
(***************************************************************************)
Kinds   == {"none", "value", "error", "mismatch", "zero", "missing"}
Result  == [kind : Kinds, val : Value \cup {None}]
Given(kind, v) == [kind |-> kind, val |-> v]
Leading == {"recheck", "drop", "fetch", "store", "finish"}
Places  == {"idle", "direct", "clear", "miss", "wait", "done"} \cup Leading

TypeOK ==
  /\ items \in [Slots -> Entry \cup {None}]
  /\ flight \in [Slots -> Calls \cup {None}]
  /\ pc \in [Calls -> Places]
  /\ slot \in [Calls -> Slots \cup {None}]
  /\ type \in [Calls -> Types \cup {None}]
  /\ \A c \in Calls : pc[c] # "idle" => slot[c] \in Slots /\ type[c] \in Types
  /\ op \in [Calls -> {"fetch", "get", "alone"}]
  /\ res \in [Calls -> Result]
  /\ hits \in Nat /\ misses \in Nat

Init ==
  /\ items = [s \in Slots |-> None]
  /\ flight = [s \in Slots |-> None]
  /\ pc = [c \in Calls |-> "idle"]
  /\ slot = [c \in Calls |-> None]
  /\ type = [c \in Calls |-> None]
  /\ op = [c \in Calls |-> "fetch"]
  /\ res = [c \in Calls |-> Given("none", None)]
  /\ hits = 0 /\ misses = 0

----------------------------------------------------------------------------
(* The store.                                                              *)

\* Whether the entry of s serves a caller of T: JSON must decode, a typed
\* entry must have the tag T and assert to T, which a nil interface does not.
Usable(s, T) ==
  /\ items[s] # None
  /\ IF s \in JSONSlots
     THEN Decode[T][items[s].val.dyn] # None
     ELSE items[s].tag = T /\ items[s].val.dyn # Nil

\* The value it serves.
Served(s, T) ==
  IF s \in JSONSlots
  THEN [items[s].val EXCEPT !.dyn = Decode[T][@]]
  ELSE items[s].val

EntryOf(s, T, v) == [tag |-> IF s \in TypedSlots THEN T ELSE None, val |-> v]

\* MemoryCache.Set of any bytes, and Typed.Set.
Put(s, T) ==
  /\ \E d \in IF s \in JSONSlots THEN Dynamic \cup {Nil} ELSE Dyn[T] :
       items' = [items EXCEPT ![s] = EntryOf(s, T, [dyn |-> d, by |-> Outside])]
  /\ UNCHANGED <<flight, calls, counters>>

\* Expiry, the janitor, Delete and Flush.
Remove(s) ==
  /\ items' = [items EXCEPT ![s] = None]
  /\ UNCHANGED <<flight, calls, counters>>

----------------------------------------------------------------------------
(* The lookup: MemoryCache.Get and Unmarshal, or getTyped and the type     *)
(* assertion.  An entry that cannot be used is deleted in a step of its    *)
(* own, whatever has become of it by then.                                 *)

\* Mutant of Begin: the storage key is not kept.
BeginNowhere(c, s, T, o) ==
  /\ pc[c] = "idle"
  /\ o = "get" => s \in TypedSlots
  /\ type' = [type EXCEPT ![c] = T]
  /\ op' = [op EXCEPT ![c] = o]
  /\ UNCHANGED <<items, flight, slot>>

Begin(c, s, T, o) ==
  /\ pc[c] = "idle"
  /\ o = "get" => s \in TypedSlots
  /\ slot' = [slot EXCEPT ![c] = s]
  /\ type' = [type EXCEPT ![c] = T]
  /\ op' = [op EXCEPT ![c] = o]
  /\ UNCHANGED <<items, flight>>

Hit(c, s, T, o) ==
  /\ Begin(c, s, T, o)
  /\ Usable(s, T)
  /\ pc' = [pc EXCEPT ![c] = "done"]
  /\ res' = [res EXCEPT ![c] = Given("value", Served(s, T))]
  /\ hits' = hits + 1
  /\ UNCHANGED misses

\* After a miss Typed.Get is done, and the others go on to the flight.
MissGoes(c, o) ==
  /\ pc' = [pc EXCEPT ![c] = IF o = "get" THEN "done" ELSE "miss"]
  /\ res' = IF o = "get" THEN [res EXCEPT ![c] = Given("missing", None)] ELSE res

Miss(c, s, T, o) ==
  /\ Begin(c, s, T, o)
  /\ items[s] = None
  /\ MissGoes(c, o)
  /\ misses' = misses + 1
  /\ UNCHANGED hits

\* Mutant of Spoiled: a foreign tag is counted as a hit too.
SpoiledCounted(c, s, T, o) ==
  /\ Begin(c, s, T, o)
  /\ items[s] # None /\ ~Usable(s, T)
  /\ pc' = [pc EXCEPT ![c] = "clear"]
  /\ hits' = hits + 1
  /\ UNCHANGED <<res, misses>>

\* Unless it has another type's tag, an unusable entry was counted as a hit.
Spoiled(c, s, T, o) ==
  /\ Begin(c, s, T, o)
  /\ items[s] # None /\ ~Usable(s, T)
  /\ pc' = [pc EXCEPT ![c] = "clear"]
  /\ hits' = IF s \in JSONSlots \/ items[s].tag = T THEN hits + 1 ELSE hits
  /\ UNCHANGED <<res, misses>>

\* A typed entry that was cleared is a miss as well.
Clear(c) ==
  /\ pc[c] = "clear"
  /\ items' = [items EXCEPT ![slot[c]] = None]
  /\ MissGoes(c, op[c])
  /\ misses' = IF slot[c] \in TypedSlots THEN misses + 1 ELSE misses
  /\ UNCHANGED <<flight, slot, type, op, hits>>

\* ttl <= 0, or no cache: fn on its own.
Bypass(c, s, T) ==
  /\ Begin(c, s, T, "alone")
  /\ pc' = [pc EXCEPT ![c] = "direct"]
  /\ UNCHANGED <<res, counters>>

DirectReturn(c) ==
  /\ pc[c] = "direct"
  /\ pc' = [pc EXCEPT ![c] = "done"]
  /\ \/ \E d \in Dyn[type[c]] :
          res' = [res EXCEPT ![c] = Given("value", [dyn |-> d, by |-> c])]
     \/ res' = [res EXCEPT ![c] = Given("error", None)]
  /\ UNCHANGED <<items, flight, slot, type, op, counters>>

----------------------------------------------------------------------------
(* The flight (singleflight.Do), with a second, unrecorded lookup.         *)

Goes(c, from, to) ==
  /\ pc[c] = from
  /\ pc' = [pc EXCEPT ![c] = to]

Join(c) ==
  /\ Goes(c, "miss", "wait")
  /\ flight[slot[c]] # None
  /\ UNCHANGED <<items, flight, slot, type, op, res, counters>>

\* Mutant of Lead: a flight is begun whether or not the slot has one.
LeadAnyway(c) ==
  /\ Goes(c, "miss", "recheck")
  /\ flight' = [flight EXCEPT ![slot[c]] = c]
  /\ UNCHANGED <<items, slot, type, op, res, counters>>

Lead(c) ==
  /\ Goes(c, "miss", "recheck")
  /\ flight[slot[c]] = None
  /\ flight' = [flight EXCEPT ![slot[c]] = c]
  /\ UNCHANGED <<items, slot, type, op, res, counters>>

RecheckHit(c) ==
  /\ Goes(c, "recheck", "finish")
  /\ Usable(slot[c], type[c])
  /\ res' = [res EXCEPT ![c] = Given("value", Served(slot[c], type[c]))]
  /\ UNCHANGED <<items, flight, slot, type, op, counters>>

\* Nothing usable: fn runs, after the deletion of what is there.
RecheckMiss(c) ==
  /\ pc[c] = "recheck"
  /\ Goes(c, "recheck", IF items[slot[c]] = None THEN "fetch" ELSE "drop")
  /\ ~Usable(slot[c], type[c])
  /\ UNCHANGED <<items, flight, slot, type, op, res, counters>>

Drop(c) ==
  /\ Goes(c, "drop", "fetch")
  /\ items' = [items EXCEPT ![slot[c]] = None]
  /\ UNCHANGED <<flight, slot, type, op, res, counters>>

FetchReturn(c) ==
  /\ Goes(c, "fetch", "store")
  /\ \E d \in Dyn[type[c]] :
       res' = [res EXCEPT ![c] = Given("value", [dyn |-> d, by |-> c])]
  /\ UNCHANGED <<items, flight, slot, type, op, counters>>

\* fn, or json.Marshal of its value, fails.
FetchFail(c) ==
  /\ Goes(c, "fetch", "finish")
  /\ res' = [res EXCEPT ![c] = Given("error", None)]
  /\ UNCHANGED <<items, flight, slot, type, op, counters>>

\* JSON that is longer than the cache's values may be is not stored.
Store(c) ==
  LET s == slot[c] IN
  /\ Goes(c, "store", "finish")
  /\ \/ items' = [items EXCEPT ![s] = EntryOf(s, type[c], res[c].val)]
     \/ s \in JSONSlots /\ UNCHANGED items
  /\ UNCHANGED <<flight, slot, type, op, res, counters>>

\* Mutant of Shared: the error is not looked at.
SharedBlindly(r, s, T) ==
  IF r.kind = "value" /\ r.val.dyn \in Dyn[T] THEN r ELSE Given("zero", None)

\* What the flight's result r is to a caller of T: its type assertion fails
\* for values of other types and for a nil interface, in JSON slots with an
\* error and in typed ones silently, where the zero value of an interface
\* type is the nil that was shared.
Shared(r, s, T) ==
  IF r.kind = "error" THEN r
  ELSE IF s \in JSONSlots
       THEN IF r.val.dyn \in Dyn[T] \ {Nil} THEN r ELSE Given("mismatch", None)
       ELSE IF r.val.dyn \in Dyn[T] THEN r ELSE Given("zero", None)

Landed(c, crew) ==
  /\ pc[c] = "finish"
  /\ flight' = [flight EXCEPT ![slot[c]] = None]
  /\ pc' = [d \in Calls |-> IF d \in crew THEN "done" ELSE pc[d]]
  /\ res' = [d \in Calls |-> IF d \in crew THEN Shared(res[c], slot[d], type[d]) ELSE res[d]]
  /\ UNCHANGED <<items, slot, type, op, counters>>

\* Mutant of Finish: the waiting calls are not told.
FinishAlone(c) == Landed(c, {c})

Finish(c) == Landed(c, {c} \cup {d \in Calls : pc[d] = "wait" /\ slot[d] = slot[c]})

----------------------------------------------------------------------------
Start(c) ==
  \E s \in Slots, T \in Types :
    \/ Bypass(c, s, T)
    \/ \E o \in {"fetch", "get"} : Hit(c, s, T, o) \/ Miss(c, s, T, o) \/ Spoiled(c, s, T, o)

\* The steps a call takes by itself once it is made.
Progress(c) ==
  \/ Clear(c) \/ DirectReturn(c)
  \/ Join(c) \/ Lead(c) \/ RecheckHit(c) \/ RecheckMiss(c) \/ Drop(c)
  \/ FetchReturn(c) \/ FetchFail(c) \/ Store(c) \/ Finish(c)

Next ==
  \/ \E c \in Calls : Start(c) \/ Progress(c)
  \/ \E s \in Slots : Remove(s) \/ \E T \in Types : Put(s, T)

Spec == Init /\ [][Next]_vars

----------------------------------------------------------------------------
(* Properties.                                                             *)

\* A flight that deletes what its lookup could not use never loses the work
\* of another fetch: whatever has replaced the entry in the meantime, if its
\* callers could use it, came from a Set beside the flights.
FlightsDropNoWork ==
  \A c \in Calls :
    pc[c] = "drop" /\ Usable(slot[c], type[c]) => items[slot[c]].val.by = Outside

\* Misses of a slot are coalesced across the types that use it.
OneFetchPerSlot ==
  \A c, d \in Calls :
    pc[c] = "fetch" /\ pc[d] = "fetch" /\ slot[c] = slot[d] => c = d

\* A caller gets a zero value that nobody made only when a caller of another
\* type uses its slot, and "unexpected type" only then or for a nil interface.
OnlyOthersSpoil ==
  \A c \in Calls :
    LET others == {d \in Calls : pc[d] # "idle" /\ slot[d] = slot[c] /\ type[d] # type[c]} IN
    pc[c] = "done" =>
      /\ res[c].kind = "zero" => slot[c] \in TypedSlots /\ others # {}
      /\ res[c].kind = "mismatch" => slot[c] \in JSONSlots /\ (others # {} \/ Nil \in Dyn[type[c]])

\* Every lookup is counted, and at most twice: twice only in a typed slot,
\* by a caller whose type has the nil interface for a value.
LookupsAreCounted ==
  LET begun      == {c \in Calls : pc[c] # "idle" /\ op[c] # "alone"}
      unsure     == {c \in begun : pc[c] = "clear"}
      mayFindNil == {c \in begun : slot[c] \in TypedSlots /\ Nil \in Dyn[type[c]]}
  IN  /\ Cardinality(begun \ unsure) <= hits + misses
      /\ hits + misses <= Cardinality(begun) + Cardinality(mayFindNil)

\* Nobody is left waiting: a slot with a flight has one leader, at work, and
\* a call that waits has a flight.  Typed entries and the results of flights
\* are of the type they are tagged with or were fetched for.  The properties
\* above (but for the counters) follow from it.
FlightsAreLed ==
  /\ \A s \in Slots, c \in Calls : flight[s] = c <=> pc[c] \in Leading /\ slot[c] = s
  /\ \A c \in Calls : pc[c] = "wait" => flight[slot[c]] # None

EntriesFit ==
  \A s \in TypedSlots :
    items[s] # None => items[s].tag \in Types /\ items[s].val.dyn \in Dyn[items[s].tag]

ResultsFit ==
  \A c \in Calls :
    /\ pc[c] = "store" => res[c].kind = "value"
    /\ pc[c] = "finish" => res[c].kind \in {"value", "error"}
    /\ pc[c] \in {"store", "finish", "done"} /\ res[c].kind = "value" =>
         res[c].val # None /\ res[c].val.dyn \in Dyn[type[c]]

Inv == TypeOK /\ FlightsAreLed /\ EntriesFit /\ ResultsFit /\ OnlyOthersSpoil
=============================================================================
