------------------------- MODULE TypedCacheProofs -------------------------
(* Proofs, for every value of the constants, that callers of different     *)
(* types may share a cache: what they are given is of their own type, and  *)
(* their lookups are counted.                                              *)
EXTENDS TypedCache, FiniteSetTheorems, TLAPS

USE DEF Places, Leading, Kinds, Slots

\* What is served from a usable entry is a value of the caller's type.
LEMMA ServedFits ==
  ASSUME Inv, NEW s \in Slots, NEW T \in Types, Usable(s, T)
  PROVE  Served(s, T) \in Value /\ Served(s, T).dyn \in Dyn[T]
<1> USE ConstantsAssumption
<1>1. items[s] \in Entry /\ items[s].val \in Value /\ items[s].val.dyn \in Dynamic \cup {Nil}
  BY DEF Usable, Inv, TypeOK, Entry, Value
<1>2. CASE s \in JSONSlots
  <2>1. Decode[T][items[s].val.dyn] \in Dyn[T]
    BY <1>1, <1>2 DEF Usable
  <2>2. Decode[T][items[s].val.dyn] \in Dynamic \cup {Nil}
    BY <2>1
  <2> QED
    BY <1>1, <1>2, <2>1, <2>2 DEF Served, Value
<1>3. CASE s \notin JSONSlots
  BY <1>1, <1>3 DEF Served, Usable, Inv, EntriesFit
<1> QED
  BY <1>2, <1>3

\* What is stored for a call, or from outside, is an entry, and fits its tag.
LEMMA EntryFits ==
  ASSUME NEW s \in Slots, NEW T \in Types, NEW v \in Value
  PROVE  /\ EntryOf(s, T, v) \in Entry /\ EntryOf(s, T, v) # None
         /\ EntryOf(s, T, v).val = v
         /\ s \in TypedSlots => EntryOf(s, T, v).tag = T
BY ConstantsAssumption DEF EntryOf, Entry

\* Every result that is given is a result.
LEMMA ResultType ==
  /\ \A v \in Value : Given("value", v) \in Result
  /\ Given("error", None) \in Result /\ Given("missing", None) \in Result
  /\ Given("zero", None) \in Result /\ Given("mismatch", None) \in Result
  /\ Given("none", None) \in Result
BY DEF Given, Result

\* What a call fetches is a value of its type.
LEMMA FetchedFits ==
  ASSUME NEW T \in Types, NEW d \in Dyn[T], NEW c \in Calls
  PROVE  [dyn |-> d, by |-> c] \in Value /\ [dyn |-> d, by |-> Outside] \in Value
BY ConstantsAssumption DEF Value

\* What a flight's result is to a caller of the same slot: of its type, or
\* not a value; and only another type, or nil, spoils it.
LEMMA SharedFits ==
  ASSUME NEW r \in Result, r.kind \in {"value", "error"}, NEW T \in Types, NEW s \in Slots,
         r.kind = "value" => r.val # None
  PROVE  /\ Shared(r, s, T) \in Result
         /\ Shared(r, s, T).kind = "value" => /\ Shared(r, s, T).val # None
                                              /\ Shared(r, s, T).val.dyn \in Dyn[T]
         /\ Shared(r, s, T).kind = "zero" => s \in TypedSlots /\ r.kind = "value" /\ r.val.dyn \notin Dyn[T]
         /\ Shared(r, s, T).kind = "mismatch" =>
              s \in JSONSlots /\ r.kind = "value" /\ r.val.dyn \notin Dyn[T] \ {Nil}
BY ResultType DEF Shared, Given

----------------------------------------------------------------------------
\* A step that changes the store alone keeps Inv, if what it stores fits.
LEMMA StoreKeeps ==
  ASSUME Inv, NEW s \in Slots, NEW e \in Entry \cup {None},
         s \in TypedSlots /\ e # None => e.tag \in Types /\ e.val.dyn \in Dyn[e.tag],
         items' = [items EXCEPT ![s] = e], UNCHANGED <<flight, calls, counters>>
  PROVE  Inv'
<1>1. UNCHANGED <<flight, pc, slot, type, op, res, hits, misses>>
  BY DEF calls, counters
<1>2. TypeOK'
  BY <1>1 DEF Inv, TypeOK
<1>3. FlightsAreLed' /\ ResultsFit' /\ OnlyOthersSpoil'
  BY <1>1 DEF Inv, FlightsAreLed, ResultsFit, OnlyOthersSpoil
<1>4. EntriesFit'
  BY DEF Inv, TypeOK, EntriesFit
<1> QED
  BY <1>2, <1>3, <1>4 DEF Inv

\* Beginning a call keeps Inv: whatever it finds is of its type.
LEMMA BeginKeeps ==
  ASSUME Inv, NEW c \in Calls, NEW s \in Slots, NEW T \in Types, NEW o \in {"fetch", "get", "alone"},
         Begin(c, s, T, o), NEW p \in {"done", "miss", "clear", "direct"},
         pc' = [pc EXCEPT ![c] = p],
         NEW r \in Result, res' = [res EXCEPT ![c] = r],
         p = "done" => \/ r.kind = "missing"
                       \/ r.kind = "value" /\ r.val # None /\ r.val.dyn \in Dyn[T],
         hits' \in Nat, misses' \in Nat
  PROVE  Inv'
<1>1. /\ pc[c] = "idle" /\ UNCHANGED <<items, flight>>
      /\ slot' = [slot EXCEPT ![c] = s] /\ type' = [type EXCEPT ![c] = T] /\ op' = [op EXCEPT ![c] = o]
  BY DEF Begin
<1>2. TypeOK'
  BY <1>1 DEF Inv, TypeOK
<1>3. FlightsAreLed'
  BY <1>1 DEF Inv, TypeOK, FlightsAreLed
<1>4. EntriesFit'
  BY <1>1 DEF Inv, EntriesFit
<1>5. ResultsFit'
  BY <1>1 DEF Inv, TypeOK, ResultsFit
<1>6. OnlyOthersSpoil'
  BY <1>1 DEF Inv, TypeOK, OnlyOthersSpoil
<1> QED
  BY <1>2, <1>3, <1>4, <1>5, <1>6 DEF Inv

\* So does every way of looking an entry up.
LEMMA LookupKeeps ==
  ASSUME Inv, NEW c \in Calls, Start(c)
  PROVE  Inv'
<1>1. PICK s \in Slots, T \in Types :
        \/ Bypass(c, s, T)
        \/ \E o \in {"fetch", "get"} : Hit(c, s, T, o) \/ Miss(c, s, T, o) \/ Spoiled(c, s, T, o)
  BY DEF Start
<1>2. hits \in Nat /\ misses \in Nat /\ res \in [Calls -> Result]
  BY DEF Inv, TypeOK
<1>3. res = [res EXCEPT ![c] = res[c]] /\ res[c] \in Result
  BY <1>2
<1>4. CASE Bypass(c, s, T)
  BY <1>2, <1>3, <1>4, BeginKeeps DEF Bypass, counters
<1>5. ASSUME NEW o \in {"fetch", "get"}, Hit(c, s, T, o) PROVE Inv'
  <2>1. Served(s, T) \in Value /\ Served(s, T).dyn \in Dyn[T]
    BY <1>5, ServedFits DEF Hit
  <2> DEFINE r == Given("value", Served(s, T))
  <2>2. r \in Result /\ r.kind = "value" /\ r.val = Served(s, T)
    BY <2>1, ResultType DEF Given
  <2>3. r.val # None
    BY <2>1, <2>2, ConstantsAssumption DEF Value, Entry
  <2> HIDE DEF r
  <2>4. res' = [res EXCEPT ![c] = r] /\ pc' = [pc EXCEPT ![c] = "done"] /\ Begin(c, s, T, o)
        /\ hits' \in Nat /\ misses' \in Nat
    BY <1>2, <1>5 DEF Hit, r
  <2> QED
    BY <2>1, <2>2, <2>3, <2>4, BeginKeeps
<1>6. ASSUME NEW o \in {"fetch", "get"}, Miss(c, s, T, o) PROVE Inv'
  <2>1. Begin(c, s, T, o) /\ hits' \in Nat /\ misses' \in Nat
    BY <1>2, <1>6 DEF Miss
  <2>2. CASE o = "get"
    <3>1. PICK r \in Result : r = Given("missing", None)
      BY ResultType
    <3>2. pc' = [pc EXCEPT ![c] = "done"] /\ res' = [res EXCEPT ![c] = r] /\ r.kind = "missing"
      BY <1>6, <2>2, <3>1 DEF Miss, MissGoes, Given
    <3> QED
      BY <2>1, <3>2, BeginKeeps
  <2>3. CASE o # "get"
    <3>1. PICK r \in Result : r = res[c]
      BY <1>3
    <3>2. pc' = [pc EXCEPT ![c] = "miss"] /\ res' = [res EXCEPT ![c] = r]
      BY <1>3, <1>6, <2>3, <3>1 DEF Miss, MissGoes
    <3> QED
      BY <2>1, <3>2, BeginKeeps
  <2> QED
    BY <2>2, <2>3
<1>7. ASSUME NEW o \in {"fetch", "get"}, Spoiled(c, s, T, o) PROVE Inv'
  <2>1. PICK r \in Result : r = res[c]
    BY <1>3
  <2>2. /\ Begin(c, s, T, o) /\ pc' = [pc EXCEPT ![c] = "clear"] /\ res' = [res EXCEPT ![c] = r]
        /\ hits' \in Nat /\ misses' \in Nat
    BY <1>2, <1>3, <1>7, <2>1 DEF Spoiled
  <2> QED
    BY <2>2, BeginKeeps
<1> QED
  BY <1>1, <1>4, <1>5, <1>6, <1>7

\* A step of a call that is under way, which changes no flight, keeps Inv if
\* what it leaves in the store was there, and what it gives is of its type.
LEMMA StepKeeps ==
  ASSUME Inv, NEW c \in Calls, UNCHANGED <<flight, slot, type, op>>,
         pc' = [pc EXCEPT ![c] = pc'[c]], pc[c] # "idle", pc'[c] \in Places \ {"idle"},
         pc'[c] \in Leading <=> pc[c] \in Leading,
         pc'[c] = "wait" => flight[slot[c]] # None,
         res' = [res EXCEPT ![c] = res'[c]], res'[c] \in Result,
         pc'[c] = "store" => res'[c].kind = "value",
         pc'[c] = "finish" => res'[c].kind \in {"value", "error"},
         pc'[c] \in {"store", "finish", "done"} /\ res'[c].kind = "value" =>
           res'[c].val # None /\ res'[c].val.dyn \in Dyn[type[c]],
         pc'[c] = "done" => res'[c].kind \notin {"zero", "mismatch"},
         items' \in [Slots -> Entry \cup {None}],
         \A s \in Slots : items'[s] \in {items[s], None},
         hits' \in Nat, misses' \in Nat
  PROVE  Inv'
<1>1. TypeOK'
  BY DEF Inv, TypeOK
<1>2. FlightsAreLed'
  BY DEF Inv, TypeOK, FlightsAreLed
<1>3. EntriesFit'
  BY DEF Inv, EntriesFit
<1>4. ResultsFit'
  BY DEF Inv, TypeOK, ResultsFit
<1>5. OnlyOthersSpoil'
  BY DEF Inv, TypeOK, OnlyOthersSpoil
<1> QED
  BY <1>1, <1>2, <1>3, <1>4, <1>5 DEF Inv

\* The steps of a call outside the flight keep Inv.
LEMMA AloneKeeps ==
  ASSUME Inv, NEW c \in Calls, Clear(c) \/ DirectReturn(c) \/ Join(c)
  PROVE  Inv'
<1> USE ConstantsAssumption
<1>1. /\ pc[c] \in {"clear", "direct", "miss"} /\ slot[c] \in Slots /\ type[c] \in Types
      /\ UNCHANGED <<flight, slot, type, op>> /\ hits \in Nat /\ misses \in Nat
      /\ items \in [Slots -> Entry \cup {None}] /\ res \in [Calls -> Result]
      /\ pc \in [Calls -> Places]
  BY DEF Clear, DirectReturn, Join, Goes, Inv, TypeOK
<1>2. CASE Clear(c)
  <2>1. /\ items' = [items EXCEPT ![slot[c]] = None] /\ hits' \in Nat /\ misses' \in Nat
    BY <1>1, <1>2 DEF Clear
  <2>2. items' \in [Slots -> Entry \cup {None}] /\ \A s \in Slots : items'[s] \in {items[s], None}
    BY <1>1, <2>1
  <2>3. /\ pc' = [pc EXCEPT ![c] = pc'[c]] /\ pc'[c] \in {"done", "miss"}
        /\ res' = [res EXCEPT ![c] = res'[c]] /\ res'[c] \in Result
        /\ pc'[c] = "done" => res'[c].kind = "missing"
    BY <1>1, <1>2, ResultType DEF Clear, MissGoes, Given
  <2> QED
    BY <1>1, <1>2, <2>1, <2>2, <2>3, StepKeeps DEF Clear
<1>3. CASE DirectReturn(c)
  <2>1. /\ pc[c] = "direct" /\ pc' = [pc EXCEPT ![c] = "done"]
        /\ UNCHANGED <<items, hits, misses>>
    BY <1>3 DEF DirectReturn, counters
  <2>2. /\ res' = [res EXCEPT ![c] = res'[c]] /\ res'[c] \in Result
        /\ res'[c].kind \in {"value", "error"}
        /\ res'[c].kind = "value" => res'[c].val # None /\ res'[c].val.dyn \in Dyn[type[c]]
    <3>1. CASE res' = [res EXCEPT ![c] = Given("error", None)]
      BY <1>1, <3>1, ResultType DEF Given
    <3>2. CASE \E d \in Dyn[type[c]] :
                 res' = [res EXCEPT ![c] = Given("value", [dyn |-> d, by |-> c])]
      <4>1. PICK d \in Dyn[type[c]] :
              res' = [res EXCEPT ![c] = Given("value", [dyn |-> d, by |-> c])]
        BY <3>2
      <4>2. PICK v \in Value : v = [dyn |-> d, by |-> c]
        BY <1>1, FetchedFits
      <4> QED
        BY <1>1, <4>1, <4>2, ResultType DEF Given
    <3> QED
      BY <1>3, <3>1, <3>2 DEF DirectReturn
  <2> QED
    BY <1>1, <2>1, <2>2, StepKeeps
<1>4. CASE Join(c)
  <2>1. /\ pc[c] = "miss" /\ pc' = [pc EXCEPT ![c] = "wait"] /\ flight[slot[c]] # None
        /\ UNCHANGED <<items, res, hits, misses>>
    BY <1>4 DEF Join, Goes, counters
  <2>2. pc'[c] = "wait" /\ res' = [res EXCEPT ![c] = res'[c]] /\ res'[c] \in Result
    BY <1>1, <2>1
  <2>3. items' \in [Slots -> Entry \cup {None}] /\ \A s \in Slots : items'[s] \in {items[s], None}
    BY <1>1, <2>1
  <2> QED
    BY <1>1, <2>1, <2>2, <2>3, StepKeeps
<1> QED
  BY <1>2, <1>3, <1>4

\* The steps of a leader that change no flight keep Inv.
LEMMA LeaderKeeps ==
  ASSUME Inv, NEW c \in Calls,
         RecheckHit(c) \/ RecheckMiss(c) \/ Drop(c) \/ FetchReturn(c) \/ FetchFail(c)
  PROVE  Inv'
<1> USE ConstantsAssumption
<1>1. /\ pc[c] \in Leading /\ slot[c] \in Slots /\ type[c] \in Types
      /\ UNCHANGED <<flight, slot, type, op, hits, misses>> /\ hits \in Nat /\ misses \in Nat
      /\ items \in [Slots -> Entry \cup {None}] /\ res \in [Calls -> Result]
      /\ pc \in [Calls -> Places]
  BY DEF RecheckHit, RecheckMiss, Drop, FetchReturn, FetchFail, Goes, counters, Inv, TypeOK
<1>2. CASE RecheckHit(c)
  <2>1. PICK v \in Value : v = Served(slot[c], type[c]) /\ v.dyn \in Dyn[type[c]]
    BY <1>1, <1>2, ServedFits DEF RecheckHit
  <2>2. /\ pc' = [pc EXCEPT ![c] = "finish"] /\ UNCHANGED items
        /\ res' = [res EXCEPT ![c] = Given("value", v)]
    BY <1>2, <2>1 DEF RecheckHit, Goes
  <2>3. res'[c] \in Result /\ res'[c].kind = "value" /\ res'[c].val = v
    BY <1>1, <2>2, ResultType DEF Given
  <2> QED
    BY <1>1, <2>1, <2>2, <2>3, StepKeeps
<1>3. CASE RecheckMiss(c)
  <2>1. /\ pc' = [pc EXCEPT ![c] = pc'[c]] /\ pc'[c] \in {"fetch", "drop"}
        /\ UNCHANGED <<items, res>>
    BY <1>1, <1>3 DEF RecheckMiss, Goes
  <2>2. res' = [res EXCEPT ![c] = res'[c]] /\ res'[c] \in Result
    BY <1>1, <2>1
  <2>3. items' \in [Slots -> Entry \cup {None}] /\ \A s \in Slots : items'[s] \in {items[s], None}
    BY <1>1, <2>1
  <2> QED
    BY <1>1, <2>1, <2>2, <2>3, StepKeeps
<1>4. CASE Drop(c)
  <2>1. /\ pc' = [pc EXCEPT ![c] = "fetch"] /\ items' = [items EXCEPT ![slot[c]] = None]
        /\ UNCHANGED res
    BY <1>4 DEF Drop, Goes
  <2>2. res' = [res EXCEPT ![c] = res'[c]] /\ res'[c] \in Result
    BY <1>1, <2>1
  <2>3. items' \in [Slots -> Entry \cup {None}] /\ \A s \in Slots : items'[s] \in {items[s], None}
    BY <1>1, <2>1
  <2> QED
    BY <1>1, <2>1, <2>2, <2>3, StepKeeps
<1>5. CASE FetchReturn(c)
  <2>1. PICK d \in Dyn[type[c]] :
          res' = [res EXCEPT ![c] = Given("value", [dyn |-> d, by |-> c])]
    BY <1>5 DEF FetchReturn
  <2>2. PICK v \in Value : v = [dyn |-> d, by |-> c]
    BY <1>1, FetchedFits
  <2>3. pc' = [pc EXCEPT ![c] = "store"] /\ UNCHANGED items
    BY <1>5 DEF FetchReturn, Goes
  <2>4. res'[c] \in Result /\ res'[c].kind = "value" /\ res'[c].val = v /\ v.dyn = d
    BY <1>1, <2>1, <2>2, ResultType DEF Given
  <2> QED
    BY <1>1, <2>1, <2>3, <2>4, StepKeeps
<1>6. CASE FetchFail(c)
  <2>1. /\ pc' = [pc EXCEPT ![c] = "finish"] /\ UNCHANGED items
        /\ res' = [res EXCEPT ![c] = Given("error", None)]
    BY <1>6 DEF FetchFail, Goes
  <2>2. res'[c] \in Result /\ res'[c].kind = "error"
    BY <1>1, <2>1, ResultType DEF Given
  <2> QED
    BY <1>1, <2>1, <2>2, StepKeeps
<1> QED
  BY <1>2, <1>3, <1>4, <1>5, <1>6

\* Leading a new flight keeps Inv.
LEMMA LeadKeeps ==
  ASSUME Inv, NEW c \in Calls, Lead(c)
  PROVE  Inv'
<1> USE ConstantsAssumption
<1>1. /\ pc[c] = "miss" /\ slot[c] \in Slots /\ flight[slot[c]] = None
      /\ pc' = [pc EXCEPT ![c] = "recheck"] /\ flight' = [flight EXCEPT ![slot[c]] = c]
      /\ UNCHANGED <<items, slot, type, op, res, hits, misses>>
  BY DEF Lead, Goes, counters, Inv, TypeOK
<1>2. TypeOK'
  BY <1>1 DEF Inv, TypeOK
<1>3. FlightsAreLed'
  BY <1>1 DEF Inv, TypeOK, FlightsAreLed
<1>4. EntriesFit' /\ ResultsFit'
  BY <1>1 DEF Inv, TypeOK, EntriesFit, ResultsFit
<1>5. OnlyOthersSpoil'
  BY <1>1 DEF Inv, TypeOK, OnlyOthersSpoil
<1> QED
  BY <1>2, <1>3, <1>4, <1>5 DEF Inv

\* What a flight stores fits the tag it is stored with.
LEMMA StoringKeeps ==
  ASSUME Inv, NEW c \in Calls, Store(c)
  PROVE  Inv'
<1> USE ConstantsAssumption
<1>1. /\ pc[c] = "store" /\ pc' = [pc EXCEPT ![c] = "finish"] /\ slot[c] \in Slots
      /\ type[c] \in Types /\ UNCHANGED <<flight, slot, type, op, res, hits, misses>>
  BY DEF Store, Goes, counters, Inv, TypeOK
<1>2. /\ res[c].kind = "value" /\ res[c].val \in Value /\ res[c].val.dyn \in Dyn[type[c]]
  BY <1>1 DEF Inv, TypeOK, ResultsFit, Result
<1>3. PICK e \in Entry : /\ e = EntryOf(slot[c], type[c], res[c].val) /\ e.val = res[c].val
                         /\ slot[c] \in TypedSlots => e.tag = type[c]
  BY <1>1, <1>2, EntryFits
<1>4. items' = items \/ items' = [items EXCEPT ![slot[c]] = e]
  BY <1>3 DEF Store
<1>5. TypeOK'
  BY <1>1, <1>4 DEF Inv, TypeOK
<1>6. FlightsAreLed' /\ ResultsFit'
  BY <1>1, <1>2 DEF Inv, TypeOK, FlightsAreLed, ResultsFit
<1>7. EntriesFit'
  BY <1>1, <1>2, <1>3, <1>4 DEF Inv, TypeOK, EntriesFit
<1>8. OnlyOthersSpoil'
  BY <1>1 DEF Inv, TypeOK, OnlyOthersSpoil
<1> QED
  BY <1>5, <1>6, <1>7, <1>8 DEF Inv

\* The end of a flight gives everyone in it something of its type; if it does
\* not, the leader is a call of another type, or had a nil interface.
LEMMA FinishKeeps ==
  ASSUME Inv, NEW c \in Calls, Finish(c)
  PROVE  Inv'
<1> USE ConstantsAssumption
<1>0. PICK s \in Slots : s = slot[c]
  BY DEF Finish, Landed, Inv, TypeOK
<1> DEFINE In(d) == d = c \/ (pc[d] = "wait" /\ slot[d] = s)
<1>1. /\ pc[c] = "finish" /\ flight[s] = c /\ flight' = [flight EXCEPT ![s] = None]
      /\ UNCHANGED <<items, slot, type, op, hits, misses>>
      /\ pc' = [d \in Calls |-> IF In(d) THEN "done" ELSE pc[d]]
      /\ res' = [d \in Calls |-> IF In(d) THEN Shared(res[c], slot[d], type[d]) ELSE res[d]]
  BY <1>0 DEF Finish, Landed, counters, Inv, TypeOK, FlightsAreLed
<1>2. /\ res[c] \in Result /\ res[c].kind \in {"value", "error"}
      /\ res[c].kind = "value" => res[c].val # None /\ res[c].val.dyn \in Dyn[type[c]]
  BY <1>1 DEF Inv, TypeOK, ResultsFit
<1>3. \A d \in Calls : In(d) => slot[d] = s /\ type[d] \in Types /\ pc[d] # "idle"
  BY <1>0, <1>1 DEF Inv, TypeOK
<1>4. \A d \in Calls : In(d) =>
        /\ res'[d] \in Result
        /\ res'[d].kind = "value" => res'[d].val # None /\ res'[d].val.dyn \in Dyn[type[d]]
        /\ res'[d].kind = "zero" => s \in TypedSlots /\ type[c] # type[d]
        /\ res'[d].kind = "mismatch" =>
             s \in JSONSlots /\ (type[c] # type[d] \/ Nil \in Dyn[type[d]])
  BY <1>1, <1>2, <1>3, SharedFits
<1> HIDE DEF In
<1>5. TypeOK'
  <2>1. pc' \in [Calls -> Places] /\ flight' \in [Slots -> Calls \cup {None}]
    BY <1>1 DEF Inv, TypeOK
  <2>2. res' \in [Calls -> Result]
    BY <1>1, <1>4 DEF Inv, TypeOK
  <2>3. \A d \in Calls : pc'[d] # "idle" => pc[d] # "idle"
    BY <1>1, <1>3
  <2> QED
    BY <1>1, <2>1, <2>2, <2>3 DEF Inv, TypeOK
<1>6. FlightsAreLed'
  BY <1>0, <1>1, <1>3 DEF Inv, TypeOK, FlightsAreLed, In
<1>7. EntriesFit' /\ ResultsFit'
  BY <1>1, <1>3, <1>4 DEF Inv, TypeOK, EntriesFit, ResultsFit
<1>8. OnlyOthersSpoil'
  <2>1. SUFFICES ASSUME NEW d \in Calls, pc'[d] = "done"
                 PROVE  LET others == {b \in Calls : pc'[b] # "idle" /\ slot[b] = slot[d] /\ type[b] # type[d]} IN
                        /\ res'[d].kind = "zero" => slot[d] \in TypedSlots /\ others # {}
                        /\ res'[d].kind = "mismatch" =>
                             slot[d] \in JSONSlots /\ (others # {} \/ Nil \in Dyn[type[d]])
    BY <1>1 DEF OnlyOthersSpoil
  <2>2. \A b \in Calls : pc[b] # "idle" => pc'[b] # "idle"
    BY <1>1
  <2>3. CASE In(d)
    <3>1. slot[d] = s /\ slot[c] = s /\ pc'[c] # "idle"
      BY <1>0, <1>1, <1>3, <2>2, <2>3
    <3> QED
      BY <1>4, <2>3, <3>1
  <2>4. CASE ~In(d)
    <3>1. pc[d] = "done" /\ res'[d] = res[d]
      BY <1>1, <2>1, <2>4
    <3> QED
      BY <2>2, <3>1 DEF Inv, OnlyOthersSpoil
  <2> QED
    BY <2>3, <2>4
<1> QED
  BY <1>5, <1>6, <1>7, <1>8 DEF Inv

\* Every step keeps Inv.
LEMMA InvStep == Inv /\ [Next]_vars => Inv'
<1> SUFFICES ASSUME Inv, [Next]_vars PROVE Inv'
  OBVIOUS
<1>1. CASE UNCHANGED vars
  <2>1. UNCHANGED <<items, flight, pc, slot, type, op, res, hits, misses>>
    BY <1>1 DEF vars, calls, counters
  <2>2. TypeOK' /\ FlightsAreLed' /\ EntriesFit'
    BY <2>1 DEF Inv, TypeOK, FlightsAreLed, EntriesFit
  <2>3. ResultsFit' /\ OnlyOthersSpoil'
    BY <2>1 DEF Inv, ResultsFit, OnlyOthersSpoil
  <2> QED
    BY <2>2, <2>3 DEF Inv
<1>2. ASSUME NEW s \in Slots, Remove(s) PROVE Inv'
  BY <1>2, StoreKeeps DEF Remove
<1>3. ASSUME NEW s \in Slots, NEW T \in Types, Put(s, T) PROVE Inv'
  <2>1. PICK v \in Value : /\ items' = [items EXCEPT ![s] = EntryOf(s, T, v)]
                           /\ s \in TypedSlots => v.dyn \in Dyn[T]
    <3>1. PICK d \in IF s \in JSONSlots THEN Dynamic \cup {Nil} ELSE Dyn[T] :
            items' = [items EXCEPT ![s] = EntryOf(s, T, [dyn |-> d, by |-> Outside])]
      BY <1>3 DEF Put
    <3>2. d \in Dynamic \cup {Nil} /\ (s \in TypedSlots => d \in Dyn[T])
      BY ConstantsAssumption
    <3>3. PICK v \in Value : v = [dyn |-> d, by |-> Outside]
      BY <3>2 DEF Value
    <3> QED
      BY <3>1, <3>2, <3>3
  <2>2. PICK e \in Entry : /\ e = EntryOf(s, T, v) /\ e.val = v
                           /\ s \in TypedSlots => e.tag = T
    BY EntryFits
  <2> QED
    BY <1>3, <2>1, <2>2, StoreKeeps DEF Put
<1>4. ASSUME NEW c \in Calls, Start(c) PROVE Inv'
  BY <1>4, LookupKeeps
<1>5. ASSUME NEW c \in Calls, Progress(c) PROVE Inv'
  BY <1>5, AloneKeeps, LeaderKeeps, LeadKeeps, StoringKeeps, FinishKeeps DEF Progress
<1> QED
  BY <1>1, <1>2, <1>3, <1>4, <1>5 DEF Next

\* In every behaviour flights are led, and entries and results are of the
\* types they are tagged with and were fetched for.
THEOREM Invariance == Spec => []Inv
<1>1. Init => Inv
  BY ResultType, ConstantsAssumption
     DEF Init, Inv, TypeOK, FlightsAreLed, EntriesFit, ResultsFit, OnlyOthersSpoil
<1> QED
  BY <1>1, InvStep, PTL DEF Spec

\* A step that begins no deletion, and gives the slot of a flight that is at
\* one no value but one from outside, keeps what flights drop.
LEMMA DropKeeps ==
  ASSUME FlightsDropNoWork,
         \A c \in Calls : pc'[c] = "drop" =>
           /\ pc[c] = "drop" /\ slot'[c] = slot[c] /\ type'[c] = type[c]
           /\ \/ items'[slot[c]] \in {items[slot[c]], None}
              \/ items'[slot[c]].val.by = Outside
  PROVE  FlightsDropNoWork'
<1> SUFFICES ASSUME NEW c \in Calls, pc'[c] = "drop", Usable(slot[c], type[c])'
             PROVE  items'[slot[c]].val.by = Outside
  BY DEF FlightsDropNoWork
<1>1. CASE items'[slot[c]] = items[slot[c]]
  BY <1>1 DEF FlightsDropNoWork, Usable
<1>2. CASE items'[slot[c]] = None
  BY <1>2 DEF Usable
<1> QED
  BY <1>1, <1>2

\* No other step does.
LEMMA DropStep == Inv /\ FlightsDropNoWork /\ [Next]_vars => FlightsDropNoWork'
<1> SUFFICES ASSUME Inv, FlightsDropNoWork, [Next]_vars PROVE FlightsDropNoWork'
  OBVIOUS
<1> USE DEF Inv, TypeOK
<1>1. CASE UNCHANGED vars
  BY <1>1, DropKeeps DEF vars, calls
<1>2. ASSUME NEW c \in Calls, Start(c) PROVE FlightsDropNoWork'
  <2>1. UNCHANGED items /\ \A d \in Calls \ {c} : pc'[d] = pc[d] /\ slot'[d] = slot[d] /\ type'[d] = type[d]
    BY <1>2 DEF Start, Bypass, Hit, Miss, MissGoes, Spoiled, Begin
  <2>2. pc'[c] # "drop"
    BY <1>2 DEF Start, Bypass, Hit, Miss, MissGoes, Spoiled, Begin
  <2> QED
    BY <2>1, <2>2, DropKeeps
<1>3. ASSUME NEW c \in Calls, Clear(c) PROVE FlightsDropNoWork'
  <2>1. slot[c] \in Slots /\ items' = [items EXCEPT ![slot[c]] = None] /\ UNCHANGED <<slot, type>>
    BY <1>3 DEF Clear
  <2>2. \A d \in Calls : slot[d] \in Slots => items'[slot[d]] \in {items[slot[d]], None}
    BY <2>1
  <2>3. \A d \in Calls : pc'[d] = "drop" => pc[d] = "drop"
    BY <1>3 DEF Clear, MissGoes
  <2> QED
    BY <2>1, <2>2, <2>3, DropKeeps
<1>4. ASSUME NEW c \in Calls, RecheckMiss(c) PROVE FlightsDropNoWork'
  <2>1. UNCHANGED <<items, slot, type>> /\ ~Usable(slot[c], type[c])
    BY <1>4 DEF RecheckMiss
  <2>2. \A d \in Calls \ {c} : pc'[d] = pc[d]
    BY <1>4 DEF RecheckMiss, Goes
  <2> QED
    BY <2>1, <2>2 DEF FlightsDropNoWork, Usable
<1>5. ASSUME NEW c \in Calls, Drop(c) \/ Store(c) PROVE FlightsDropNoWork'
  <2>1. /\ pc[c] \in Leading /\ slot[c] \in Slots /\ UNCHANGED <<slot, type>>
        /\ pc'[c] # "drop" /\ \A d \in Calls \ {c} : pc'[d] = pc[d]
        /\ \A s \in Slots \ {slot[c]} : items'[s] = items[s]
    BY <1>5 DEF Drop, Store, Goes, Leading
  <2>2. \A d \in Calls \ {c} : pc[d] = "drop" => slot[d] \in Slots \ {slot[c]}
    BY <2>1 DEF FlightsAreLed, Leading
  <2> QED
    BY <2>1, <2>2, DropKeeps
<1>6. ASSUME NEW c \in Calls,
             \/ DirectReturn(c) \/ Join(c) \/ Lead(c) \/ RecheckHit(c)
             \/ FetchReturn(c) \/ FetchFail(c) \/ Finish(c)
      PROVE  FlightsDropNoWork'
  <2>1. UNCHANGED <<items, slot, type>>
    BY <1>6 DEF DirectReturn, Join, Lead, RecheckHit, FetchReturn, FetchFail, Finish, Landed
  <2>2. \A d \in Calls : pc'[d] = "drop" => pc[d] = "drop"
    BY <1>6 DEF DirectReturn, Join, Lead, RecheckHit, FetchReturn, FetchFail, Finish, Landed, Goes
  <2> QED
    BY <2>1, <2>2, DropKeeps
<1>7. ASSUME NEW s \in Slots, Remove(s) PROVE FlightsDropNoWork'
  <2>1. UNCHANGED <<pc, slot, type>> /\ \A r \in Slots : items'[r] \in {items[r], None}
    BY <1>7 DEF Remove, calls
  <2> QED
    BY <2>1, DropKeeps
<1>8. ASSUME NEW s \in Slots, NEW T \in Types, Put(s, T) PROVE FlightsDropNoWork'
  <2>1. UNCHANGED <<pc, slot, type>>
    BY <1>8 DEF Put, calls
  <2>2. PICK d : items' = [items EXCEPT ![s] = EntryOf(s, T, [dyn |-> d, by |-> Outside])]
    BY <1>8 DEF Put
  <2>3. \A r \in Slots : items'[r] = items[r] \/ items'[r].val.by = Outside
    BY <2>2 DEF EntryOf
  <2> QED
    BY <2>1, <2>3, DropKeeps
<1> QED
  BY <1>1, <1>2, <1>3, <1>4, <1>5, <1>6, <1>7, <1>8 DEF Next, Progress

\* The second look of a flight, and the deletion that may follow, cannot lose
\* what another fetch has stored in between (memory.go:248-256, 341-348).
THEOREM FlightsLoseNoWork == Spec => []FlightsDropNoWork
<1>1. Init => FlightsDropNoWork
  BY DEF Init, FlightsDropNoWork
<1> QED
  BY <1>1, DropStep, Invariance, PTL DEF Spec

\* Misses of a slot are coalesced, whatever the types of the callers.
THEOREM Coalescing == Spec => []OneFetchPerSlot
<1>1. Inv => OneFetchPerSlot
  BY DEF Inv, TypeOK, FlightsAreLed, OneFetchPerSlot
<1> QED
  BY <1>1, Invariance, PTL

\* A lone type is never given an invented zero, nor "unexpected type" unless
\* it is an interface.
THEOREM LoneTypesAreSafe == Spec => []OnlyOthersSpoil
<1>1. Inv => OnlyOthersSpoil
  BY DEF Inv
<1> QED
  BY <1>1, Invariance, PTL

\* Every variable of the model is of its type.
THEOREM TypeCorrect == Spec => []TypeOK
<1>1. Inv => TypeOK
  BY DEF Inv
<1> QED
  BY <1>1, Invariance, PTL

----------------------------------------------------------------------------
(* The counters.                                                           *)

\* The lookups that are over: a typed call that clears an entry has yet to
\* count its miss, and may have been counted as a hit.
Settled == {c \in Calls : /\ pc[c] # "idle" /\ op[c] # "alone"
                          /\ pc[c] = "clear" => slot[c] \in JSONSlots}

\* The calls that may have found a nil interface, which is counted twice.
MayFindNil == {c \in Calls : /\ pc[c] # "idle" /\ op[c] # "alone"
                             /\ slot[c] \in TypedSlots /\ Nil \in Dyn[type[c]]}

\* What LookupsAreCounted needs in order to be inductive.
Accounted ==
  /\ \A c \in Calls : pc[c] = "clear" => op[c] # "alone"
  /\ Cardinality(Settled) <= hits + misses
  /\ hits + misses <= Cardinality(Settled) + Cardinality(MayFindNil)

\* The counts are of finite sets.
LEMMA CountsAreFinite ==
  ASSUME NEW S \in SUBSET Calls
  PROVE  /\ IsFiniteSet(S) /\ Cardinality(S) \in Nat
         /\ \A c \in Calls \ S : Cardinality(S \cup {c}) = Cardinality(S) + 1
         /\ \A R \in SUBSET S : Cardinality(R) <= Cardinality(S)
BY ConstantsAssumption, FS_Subset, FS_CardinalityType, FS_AddElement

\* A step that leaves the counters alone, and begins and ends no lookup,
\* keeps the account.
LEMMA NothingCounted ==
  ASSUME Accounted, UNCHANGED <<slot, type, op, hits, misses>>,
         \A c \in Calls : /\ pc'[c] = "idle" <=> pc[c] = "idle"
                          /\ pc'[c] = "clear" <=> pc[c] = "clear"
  PROVE  Accounted'
<1>1. Settled' = Settled /\ MayFindNil' = MayFindNil
  BY DEF Settled, MayFindNil
<1> QED
  BY <1>1 DEF Accounted

\* A lookup is counted when it is made, unless it finds what another type
\* stored, and once.
LEMMA LookupAccounted ==
  ASSUME Inv, Accounted, NEW c \in Calls, Start(c)
  PROVE  Accounted'
<1> USE ConstantsAssumption
<1> DEFINE nil == Cardinality(MayFindNil)
           old == Cardinality(Settled)
<1>1. PICK s \in Slots, T \in Types, o \in {"fetch", "get", "alone"} :
        /\ Begin(c, s, T, o)
        /\ \/ o = "alone" /\ Bypass(c, s, T)
           \/ o # "alone" /\ (Hit(c, s, T, o) \/ Miss(c, s, T, o) \/ Spoiled(c, s, T, o))
  <2>1. PICK s \in Slots, T \in Types :
          \/ Bypass(c, s, T)
          \/ \E o \in {"fetch", "get"} : Hit(c, s, T, o) \/ Miss(c, s, T, o) \/ Spoiled(c, s, T, o)
    BY DEF Start
  <2> QED
    BY <2>1 DEF Bypass, Hit, Miss, Spoiled
<1>2. /\ pc[c] = "idle" /\ slot' = [slot EXCEPT ![c] = s] /\ type' = [type EXCEPT ![c] = T]
      /\ op' = [op EXCEPT ![c] = o]
  BY <1>1 DEF Begin
<1>3. /\ pc \in [Calls -> Places] /\ slot \in [Calls -> Slots \cup {None}]
      /\ type \in [Calls -> Types \cup {None}] /\ op \in [Calls -> {"fetch", "get", "alone"}]
      /\ hits \in Nat /\ misses \in Nat
  BY DEF Inv, TypeOK
<1>4. PICK p \in Places \ {"idle"} : pc' = [pc EXCEPT ![c] = p]
  BY <1>1 DEF Bypass, Hit, Miss, MissGoes, Spoiled
<1>5. Settled' = IF o # "alone" /\ (p = "clear" => s \in JSONSlots) THEN Settled \cup {c} ELSE Settled
  BY <1>2, <1>3, <1>4 DEF Settled
<1>6. MayFindNil' = IF o # "alone" /\ s \in TypedSlots /\ Nil \in Dyn[T]
                    THEN MayFindNil \cup {c} ELSE MayFindNil
  BY <1>2, <1>3, <1>4 DEF MayFindNil
<1>7. c \notin Settled /\ c \notin MayFindNil
  BY <1>2 DEF Settled, MayFindNil
<1>8. /\ old \in Nat /\ nil \in Nat
      /\ Cardinality(Settled \cup {c}) = old + 1 /\ Cardinality(MayFindNil \cup {c}) = nil + 1
  BY <1>7, CountsAreFinite DEF Settled, MayFindNil
<1>9. Cardinality(MayFindNil') \in {nil, nil + 1}
  BY <1>6, <1>8
<1>10. old <= hits + misses /\ hits + misses <= old + nil
  BY DEF Accounted
<1>11. \A d \in Calls : pc'[d] = "clear" => op'[d] # "alone"
  BY <1>1, <1>2, <1>3 DEF Accounted, Bypass, Hit, Miss, MissGoes, Spoiled
<1> HIDE DEF nil, old
<1>12. CASE Bypass(c, s, T)
  <2>1. hits' = hits /\ misses' = misses /\ o = "alone"
    BY <1>1, <1>2, <1>3, <1>12 DEF Bypass, Begin, counters
  <2> QED
    BY <1>5, <1>6, <1>10, <1>11, <2>1 DEF Accounted, nil, old
<1>13. CASE o # "alone" /\ (Hit(c, s, T, o) \/ Miss(c, s, T, o))
  <2>1. \/ hits' = hits + 1 /\ misses' = misses
        \/ hits' = hits /\ misses' = misses + 1
    BY <1>13 DEF Hit, Miss
  <2>2. hits' + misses' = hits + misses + 1
    BY <1>3, <2>1
  <2>3. pc'[c] \in {"done", "miss"} /\ pc'[c] = p
    <3>1. pc'[c] = p
      BY <1>3, <1>4
    <3>2. pc' = [pc EXCEPT ![c] = pc'[c]] /\ pc'[c] \in {"done", "miss"}
      BY <1>3, <1>13 DEF Hit, Miss, MissGoes
    <3> QED
      BY <3>1, <3>2
  <2>4. Cardinality(Settled') = old + 1
    BY <1>5, <1>8, <1>13, <2>3
  <2> QED
    BY <1>3, <1>8, <1>9, <1>10, <1>11, <2>2, <2>4 DEF Accounted
<1>14. CASE o # "alone" /\ Spoiled(c, s, T, o)
  <2>1. p = "clear" /\ misses' = misses
    BY <1>3, <1>4, <1>14 DEF Spoiled
  <2>2. CASE s \in JSONSlots
    <3>1. hits' = hits + 1 /\ Cardinality(Settled') = old + 1
      BY <1>5, <1>8, <1>14, <2>1, <2>2 DEF Spoiled
    <3> QED
      BY <1>3, <1>8, <1>9, <1>10, <1>11, <2>1, <3>1 DEF Accounted
  <2>3. CASE s \notin JSONSlots /\ items[s].tag # T
    <3>1. hits' = hits /\ Cardinality(Settled') = old
      BY <1>5, <1>8, <1>14, <2>1, <2>3 DEF Spoiled, old
    <3> QED
      BY <1>3, <1>8, <1>9, <1>10, <1>11, <2>1, <3>1 DEF Accounted
  <2>4. CASE s \notin JSONSlots /\ items[s].tag = T
    <3>1. hits' = hits + 1 /\ Cardinality(Settled') = old
      BY <1>5, <1>8, <1>14, <2>1, <2>4 DEF Spoiled, old
    <3>2. Nil \in Dyn[T]
      BY <1>14, <2>4 DEF Spoiled, Usable, Inv, EntriesFit
    <3>3. Cardinality(MayFindNil') = nil + 1
      BY <1>6, <1>8, <1>14, <2>4, <3>2
    <3> QED
      BY <1>3, <1>8, <1>10, <1>11, <2>1, <3>1, <3>3 DEF Accounted
  <2> QED
    BY <2>2, <2>3, <2>4
<1> QED
  BY <1>1, <1>12, <1>13, <1>14

\* The clearing of a typed entry is counted as a miss.
LEMMA ClearAccounted ==
  ASSUME Inv, Accounted, NEW c \in Calls, Clear(c)
  PROVE  Accounted'
<1> USE ConstantsAssumption
<1>1. /\ pc \in [Calls -> Places] /\ pc[c] = "clear" /\ slot[c] \in Slots
      /\ op[c] \in {"fetch", "get", "alone"} /\ hits \in Nat /\ misses \in Nat
      /\ UNCHANGED <<slot, type, op, hits>>
  BY DEF Clear, Inv, TypeOK
<1>2. PICK p \in {"done", "miss"} : pc' = [pc EXCEPT ![c] = p]
  BY DEF Clear, MissGoes
<1>3. MayFindNil' = MayFindNil
  BY <1>1, <1>2 DEF MayFindNil
<1>4. Settled' = IF slot[c] \in TypedSlots THEN Settled \cup {c} ELSE Settled
  BY <1>1, <1>2 DEF Settled, Accounted
<1>5. \A d \in Calls : pc'[d] = "clear" => op'[d] # "alone"
  BY <1>1, <1>2 DEF Accounted
<1>6. Cardinality(Settled) \in Nat /\ Cardinality(MayFindNil) \in Nat
  BY CountsAreFinite DEF Settled, MayFindNil
<1>7. CASE slot[c] \in TypedSlots
  <2>1. c \notin Settled
    BY <1>1, <1>7 DEF Settled
  <2>2. Cardinality(Settled') = Cardinality(Settled) + 1 /\ misses' = misses + 1
    BY <1>4, <1>7, <2>1, CountsAreFinite DEF Clear, Settled
  <2> QED
    BY <1>1, <1>3, <1>5, <1>6, <2>2 DEF Accounted
<1>8. CASE slot[c] \notin TypedSlots
  <2>1. misses' = misses
    BY <1>8 DEF Clear
  <2> QED
    BY <1>1, <1>3, <1>4, <1>5, <1>8, <2>1 DEF Accounted
<1> QED
  BY <1>7, <1>8

\* Every step keeps the account.
LEMMA AccountStep == Inv /\ Accounted /\ [Next]_vars => Accounted'
<1> SUFFICES ASSUME Inv, Accounted, [Next]_vars PROVE Accounted'
  OBVIOUS
<1>1. CASE UNCHANGED <<calls, counters>>
  BY <1>1, NothingCounted DEF calls, counters
<1>2. ASSUME NEW c \in Calls, Start(c) PROVE Accounted'
  BY <1>2, LookupAccounted
<1>3. ASSUME NEW c \in Calls, Progress(c) PROVE Accounted'
  <2>1. CASE Clear(c)
    BY <2>1, ClearAccounted
  <2>2. CASE ~Clear(c)
    <3>1. UNCHANGED <<slot, type, op, hits, misses>>
      BY <1>3, <2>2 DEF Progress, DirectReturn, Join, Lead, RecheckHit, RecheckMiss, Drop,
                        FetchReturn, FetchFail, Store, Finish, Landed, counters
    <3>2. \A d \in Calls : /\ pc'[d] = "idle" <=> pc[d] = "idle"
                           /\ pc'[d] = "clear" <=> pc[d] = "clear"
      BY <1>3, <2>2 DEF Progress, DirectReturn, Join, Lead, RecheckHit, RecheckMiss, Drop,
                        FetchReturn, FetchFail, Store, Finish, Landed, Goes, Inv, TypeOK
    <3> QED
      BY <3>1, <3>2, NothingCounted
  <2> QED
    BY <2>1, <2>2
<1>4. CASE \E s \in Slots : Remove(s) \/ \E T \in Types : Put(s, T)
  BY <1>1, <1>4 DEF Remove, Put
<1> QED
  BY <1>1, <1>2, <1>3, <1>4 DEF Next, vars

\* Every lookup is counted, and at most twice; twice only in a typed slot, by a
\* caller whose type has the nil interface for a value (memory.go:331-338).
THEOREM EveryLookupIsCounted == Spec => []LookupsAreCounted
<1>1. Init => Accounted
  <2> SUFFICES ASSUME Init PROVE Accounted
    OBVIOUS
  <2>1. Settled = {} /\ MayFindNil = {}
    BY DEF Init, Settled, MayFindNil
  <2> QED
    BY <2>1, FS_EmptySet DEF Init, Accounted
<1>2. Inv /\ Accounted => LookupsAreCounted
  <2> SUFFICES ASSUME Inv, Accounted PROVE LookupsAreCounted
    OBVIOUS
  <2> DEFINE begun == {c \in Calls : pc[c] # "idle" /\ op[c] # "alone"}
             unsure == {c \in begun : pc[c] = "clear"}
             mayFindNil == {c \in begun : slot[c] \in TypedSlots /\ Nil \in Dyn[type[c]]}
  <2>1. begun \ unsure \subseteq Settled /\ Settled \subseteq begun /\ mayFindNil = MayFindNil
    BY DEF Settled, MayFindNil
  <2>2. /\ Cardinality(begun \ unsure) <= Cardinality(Settled)
        /\ Cardinality(Settled) <= Cardinality(begun)
    BY <2>1, CountsAreFinite DEF Settled
  <2>3. /\ Cardinality(begun \ unsure) \in Nat /\ Cardinality(Settled) \in Nat
        /\ Cardinality(begun) \in Nat /\ Cardinality(MayFindNil) \in Nat
        /\ hits \in Nat /\ misses \in Nat
    BY CountsAreFinite DEF Settled, MayFindNil, Inv, TypeOK
  <2> HIDE DEF begun, unsure, mayFindNil
  <2>4. /\ Cardinality(begun \ unsure) <= hits + misses
        /\ hits + misses <= Cardinality(begun) + Cardinality(mayFindNil)
    BY <2>1, <2>2, <2>3 DEF Accounted
  <2> QED
    BY <2>4 DEF LookupsAreCounted, begun, unsure, mayFindNil
<1> QED
  BY <1>1, <1>2, AccountStep, Invariance, PTL DEF Spec
=============================================================================
