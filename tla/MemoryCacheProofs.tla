------------------------- MODULE MemoryCacheProofs -------------------------
(* Proofs, for every value of the constants, that the response cache keeps *)
(* its safety properties, and implements ReadThrough.                      *)
EXTENDS CachePromise, FiniteSetTheorems, TLAPS

USE DEF Places, Leading, Kinds, Failures

\* What fn returns is an outcome, and so is the lack of one.
LEMMA OutcomeType ==
  /\ NoOutcome \in Outcome
  /\ \A kd \in Kinds, n \in Nat, c \in Calls, sz \in Nat : Result(kd, n, c, sz) \in Outcome
BY DEF NoOutcome, Result, Outcome

\* Noting an outcome keeps seen a table of fetch ordinals and only raises it.
LEMMA NoteType ==
  ASSUME TypeOK, NEW k \in Keys, NEW o \in Outcome
  PROVE  /\ Note(k, o) \in [Keys -> Nat]
         /\ \A j \in Keys : j # k => Note(k, o)[j] = seen[j]
         /\ Note(k, o)[k] >= seen[k]
         /\ Note(k, o)[k] = seen[k] \/ Note(k, o)[k] = o.fid
BY DEF TypeOK, Note, Outcome

\* Every step keeps the variables in their types.
LEMMA TypeStep == TypeOK /\ [Next]_vars => TypeOK'
<1> SUFFICES ASSUME TypeOK, [Next]_vars PROVE TypeOK'
  OBVIOUS
<1> USE ConstantsAssumption
<1>1. CASE UNCHANGED vars
  BY <1>1 DEF TypeOK, vars, callState, counters, history
<1>2. ASSUME NEW k \in Keys, Delete(k) PROVE TypeOK'
  BY <1>2 DEF TypeOK, Delete, callState, history
<1>3. CASE Flush
  BY <1>3 DEF TypeOK, Flush, callState, counters, history
<1>4. CASE Sweep
  <2>1. Cardinality({k \in Keys : Expired(k)}) \in Nat
    BY FS_Subset, FS_CardinalityType
  <2> QED
    BY <1>4, <2>1 DEF TypeOK, Sweep, callState, history
<1>5. CASE Tick
  BY <1>5 DEF TypeOK, Tick, callState, counters, history
<1>6. ASSUME NEW c \in Calls, NEW k \in Keys, NEW t \in TTLs,
             Bypass(c, k, t) \/ Hit(c, k, t) \/ Miss(c, k, t)
      PROVE  TypeOK'
  <2>1. t \in Nat /\ Closed(k) \in Int
    BY DEF TypeOK, Closed
  <2>2. CASE Bypass(c, k, t)
    BY <2>1, <2>2 DEF TypeOK, Bypass, Begin
  <2>3. CASE Hit(c, k, t)
    <3>1. items[k].val \in Outcome
      BY <2>3 DEF TypeOK, Hit, Live, Entry
    <3>2. Note(k, items[k].val) \in [Keys -> Nat]
      BY <3>1, NoteType
    <3> QED
      BY <2>1, <2>3, <3>1, <3>2 DEF TypeOK, Hit, Begin
  <2>4. CASE Miss(c, k, t)
    BY <2>1, <2>4 DEF TypeOK, Miss, Begin
  <2> QED
    BY <1>6, <2>2, <2>3, <2>4
<1>7. ASSUME NEW c \in Calls, Progress(c)
      PROVE  TypeOK'
  <2>1. CASE Join(c)
    BY <2>1 DEF TypeOK, Join, Step, counters, history
  <2>2. CASE Lead(c)
    BY <2>2 DEF TypeOK, Lead, Step, counters, history
  <2>3. CASE RecheckHit(c)
    <3>1. key[c] \in Keys
      BY <2>3 DEF TypeOK, RecheckHit, Step
    <3>2. items[key[c]].val \in Outcome
      BY <2>3, <3>1 DEF TypeOK, RecheckHit, Live, Entry
    <3> QED
      BY <2>3, <3>2 DEF TypeOK, RecheckHit, Step, counters, history
  <2>4. CASE RecheckMiss(c)
    <3>1. key[c] \in Keys
      BY <2>4 DEF TypeOK, RecheckMiss, Step
    <3>2. Result("none", begun[key[c]] + 1, c, 0) \in Outcome
      BY <3>1, OutcomeType DEF TypeOK
    <3> QED
      BY <2>4, <3>1, <3>2 DEF TypeOK, RecheckMiss, Step, counters
  <2>5. ASSUME NEW kind \in Kinds, NEW size \in Sizes, FetchReturn(c, kind, size)
        PROVE  TypeOK'
    <3>1. res[c].fid \in Nat
      BY DEF TypeOK, Outcome
    <3>2. Result(kind, res[c].fid, c, size) \in Outcome
      BY <3>1, OutcomeType
    <3> QED
      BY <2>5, <3>2 DEF TypeOK, FetchReturn, Step, counters, history
  <2>6. ASSUME NEW kind \in Kinds, NEW size \in Sizes, DirectReturn(c, kind, size)
        PROVE  TypeOK'
    BY <2>6, OutcomeType DEF TypeOK, DirectReturn, counters, history
  <2>7. CASE Store(c)
    <3>1. key[c] \in Keys
      BY <2>7 DEF TypeOK, Store, Step
    <3>2. [val |-> res[c], exp |-> now + ttl[c]] \in Entry
      BY DEF TypeOK, Entry
    <3> QED
      BY <2>7, <3>1, <3>2 DEF TypeOK, Store, Set, Step, counters, history
  <2>8. CASE Finish(c)
    <3>1. key[c] \in Keys
      BY <2>8 DEF TypeOK, Finish, Landed, Waiters
    <3>2. Note(key[c], res[c]) \in [Keys -> Nat]
      BY <3>1, NoteType DEF TypeOK
    <3> QED
      BY <2>8, <3>1, <3>2 DEF TypeOK, Finish, Landed, Waiters, counters
  <2> QED
    BY <1>7, <2>1, <2>2, <2>3, <2>4, <2>5, <2>6, <2>7, <2>8 DEF Progress
<1> QED
  BY <1>1, <1>2, <1>3, <1>4, <1>5, <1>6, <1>7 DEF Next, Start

\* A new cache is empty, with no flight and no call.
LEMMA TypeInit == Init => TypeOK
BY OutcomeType DEF Init, TypeOK

\* The variables of the cache keep their types in every behaviour.
THEOREM TypeCorrect == Spec => []TypeOK
BY TypeInit, TypeStep, PTL DEF Spec

----------------------------------------------------------------------------
(* The inductive invariant.                                                *)

\* Whatever only lets entries go (a deletion, a flush, the janitor, time)
\* keeps it: less is live, and nobody holds anything new.
LEMMA StoreShrinks ==
  ASSUME Inv, TypeOK', now' >= now,
         \A k \in Keys : items'[k] \in {items[k], None},
         UNCHANGED <<flight, callState, history>>
  PROVE  Inv'
<1> USE ConstantsAssumption
<1>1. UNCHANGED <<flight, pc, key, ttl, res, begun, seen, seenAt, closedAt>>
  BY DEF callState, history
<1>2. \A k \in Keys : Live(k)' => Live(k) /\ items'[k] = items[k]
  BY DEF Live, Inv, TypeOK, Entry
<1>3. \A k \in Keys : Closed(k)' = Closed(k)
  BY <1>1 DEF Closed
<1>4. FlightsAreLed' /\ LeadersHoldNewest'
  BY <1>1 DEF Inv, FlightsAreLed, LeadersHoldNewest
<1>5. EntriesAreNewest'
  BY <1>1, <1>2 DEF Inv, EntriesAreNewest
<1>6. HistoryIsPast'
  BY <1>1, <1>3 DEF Inv, HistoryIsPast, TypeOK
<1>7. FetchOnlyOnMiss'
  BY <1>1, <1>2 DEF Inv, FetchOnlyOnMiss, TypeOK
<1>8. MonotonicReads' /\ FailuresNotCached'
  BY <1>1 DEF Inv, MonotonicReads, FailuresNotCached
<1>9. OutcomesBelong'
  BY <1>1 DEF Inv, TypeOK, OutcomesBelong, ForKey
<1> QED
  BY <1>4, <1>5, <1>6, <1>7, <1>8, <1>9 DEF Inv
\* The lookup keeps it: a hit returns the newest fetch of its key.
LEMMA LookupKeeps ==
  ASSUME Inv, TypeOK', NEW c \in Calls, NEW k \in Keys, NEW t \in TTLs,
         Bypass(c, k, t) \/ Hit(c, k, t) \/ Miss(c, k, t)
  PROVE  Inv'
<1> USE ConstantsAssumption
<1> DEFINE to == pc'[c]
<1>1. /\ pc[c] = "idle" /\ Begin(c, k, t)
      /\ pc' = [pc EXCEPT ![c] = to] /\ to \in {"direct", "done", "miss"}
      /\ \A d \in Calls : d # c => res'[d] = res[d]
      /\ \A j \in Keys : seen[j] <= seen'[j]
  <2>1. CASE Bypass(c, k, t)
    BY <2>1 DEF Bypass, Begin, Inv, TypeOK
  <2>2. CASE Hit(c, k, t)
    <3>1. items[k].val \in Outcome
      BY <2>2 DEF Inv, TypeOK, Hit, Live, Entry
    <3>2. TypeOK /\ seen' = Note(k, items[k].val)
      BY <2>2 DEF Hit, Inv
    <3>3. \A j \in Keys : seen[j] <= seen'[j]
      <4>1. /\ seen'[k] >= seen[k]
            /\ \A j \in Keys : j # k => seen'[j] = seen[j]
            /\ seen \in [Keys -> Nat] /\ seen' \in [Keys -> Nat]
        BY <3>1, <3>2, NoteType DEF TypeOK
      <4> QED
        BY <4>1
    <3>4. pc[c] = "idle" /\ Begin(c, k, t) /\ pc' = [pc EXCEPT ![c] = "done"]
      BY <2>2 DEF Hit, Begin
    <3>5. to = "done"
      BY <3>4 DEF Inv, TypeOK
    <3>6. \A d \in Calls : d # c => res'[d] = res[d]
      BY <2>2 DEF Hit, Inv, TypeOK
    <3> HIDE DEF to
    <3> QED
      BY <3>3, <3>4, <3>5, <3>6
  <2>3. CASE Miss(c, k, t)
    BY <2>3 DEF Miss, Begin, Inv, TypeOK
  <2> QED
    BY <2>1, <2>2, <2>3
<1>2. /\ UNCHANGED <<now, items, flight, begun>>
      /\ \A j \in Keys : Live(j)' = Live(j)
  BY <1>1 DEF Begin, Live
<1>3. \A d \in Calls : d # c => /\ pc'[d] = pc[d] /\ key'[d] = key[d] /\ ttl'[d] = ttl[d]
                                /\ seenAt'[d] = seenAt[d] /\ closedAt'[d] = closedAt[d]
  BY <1>1 DEF Begin, Inv, TypeOK
<1>4. key'[c] = k /\ ttl'[c] = t /\ seenAt'[c] = seen[k] /\ closedAt'[c] = Closed(k)
  BY <1>1 DEF Begin, Inv, TypeOK
<1>5. \A j \in Keys : flight[j] # None => flight[j] \in Calls /\ flight[j] # c
  BY <1>1, SMTT(20) DEF Inv, TypeOK, FlightsAreLed
<1>6. \A j \in Keys : Closed(j)' = Closed(j)
  BY <1>1, <1>2, <1>3, <1>5 DEF Closed
<1>7. FlightsAreLed' /\ LeadersHoldNewest'
  BY <1>1, <1>2, <1>3, <1>4, SMTT(20) DEF Inv, TypeOK, FlightsAreLed, LeadersHoldNewest
<1>8. EntriesAreNewest'
  BY <1>2 DEF Inv, EntriesAreNewest
<1>9. \A j \in Keys : seen'[j] <= begun[j]
  <2>1. CASE seen' = seen
    BY <2>1 DEF Inv, HistoryIsPast
  <2>2. CASE Hit(c, k, t)
    <3>1. items[k].val \in Outcome /\ items[k].val.fid = begun[k]
      BY <2>2 DEF Inv, TypeOK, Hit, Live, Entry, EntriesAreNewest
    <3>2. \A j \in Keys : seen'[j] = seen[j] \/ (j = k /\ seen'[j] = begun[k])
      BY <2>2, <3>1, NoteType DEF Hit, Inv
    <3> QED
      BY <3>2 DEF Inv, TypeOK, HistoryIsPast
  <2> QED
    BY <2>1, <2>2 DEF Bypass, Miss
<1>10. HistoryIsPast'
  <2>1. \A d \in Calls : pc'[d] # "idle" => seenAt'[d] <= seen[key'[d]] /\ closedAt'[d] <= Closed(key'[d])
    BY <1>1, <1>3, <1>4 DEF Inv, TypeOK, HistoryIsPast, Closed
  <2>2. \A d \in Calls : pc'[d] # "idle" => key'[d] \in Keys
    BY DEF TypeOK
  <2>3. \A d \in Calls : pc'[d] # "idle" => seenAt'[d] <= seen'[key'[d]]
    BY <1>1, <2>1, <2>2 DEF Inv, TypeOK
  <2>4. \A d \in Calls : pc'[d] = "direct" => ttl'[d] = 0
    BY <1>1, <1>3, <1>4 DEF Bypass, Hit, Miss, Inv, TypeOK, HistoryIsPast
  <2> QED
    BY <1>2, <1>6, <1>9, <2>1, <2>2, <2>3, <2>4 DEF HistoryIsPast
<1>11. FetchOnlyOnMiss'
  BY <1>1, <1>2, <1>3, <1>4 DEF Inv, TypeOK, FetchOnlyOnMiss
<1>12. MonotonicReads' /\ FailuresNotCached'
  <2>1. to = "done" => /\ res'[c].fid >= seen[k] /\ res'[c].kind = "bytes"
    <3>1. to = "done" => Hit(c, k, t)
      BY DEF Bypass, Miss, Begin, Inv, TypeOK
    <3>2. SUFFICES ASSUME Hit(c, k, t) PROVE res'[c].fid >= seen[k] /\ res'[c].kind = "bytes"
      BY <3>1
    <3>3. res'[c] = items[k].val /\ items[k] # None /\ Live(k)
      BY <3>2 DEF Hit, Live, Inv, TypeOK
    <3> QED
      BY <3>3 DEF Inv, TypeOK, EntriesAreNewest, HistoryIsPast
  <2> QED
    BY <1>1, <1>3, <1>4, <2>1 DEF Inv, TypeOK, MonotonicReads, FailuresNotCached
<1>13. OutcomesBelong'
  <2>1. to = "done" => Live(k) /\ res'[c] = items[k].val
    BY DEF Bypass, Hit, Miss, Begin, Inv, TypeOK
  <2>2. \A o, j : ForKey(o, j) => ForKey(o, j)'
    BY <1>1, <1>3 DEF ForKey
  <2>3. \A j \in Keys : (items[j] # None => ForKey(items[j].val, j))'
    BY <1>2, <2>2 DEF Inv, OutcomesBelong
  <2>4. to = "done" => ForKey(res[c], k)'
    BY <2>1, <2>2 DEF Live, Inv, OutcomesBelong
  <2> QED
    BY <1>1, <1>3, <1>4, <2>2, <2>3, <2>4 DEF Inv, OutcomesBelong, ForKey
<1> QED
  BY <1>7, <1>8, <1>10, <1>11, <1>12, <1>13 DEF Inv
\* A call that misses joins the flight of its key, or leads a new one.
LEMMA MissKeeps ==
  ASSUME Inv, TypeOK', NEW c \in Calls, Join(c) \/ Lead(c)
  PROVE  Inv'
<1> USE ConstantsAssumption
<1> DEFINE k == key[c]
<1>1. /\ pc[c] = "miss" /\ k \in Keys
      /\ UNCHANGED <<now, items, key, ttl, res, begun, seen, seenAt, closedAt>>
      /\ pc'[c] \in {"wait", "recheck"}
      /\ \A d \in Calls : d # c => pc'[d] = pc[d]
      /\ \A j \in Keys : j # k => flight'[j] = flight[j]
  BY DEF Join, Lead, Step, counters, history, Inv, TypeOK
<1>2. \/ pc'[c] = "wait" /\ flight' = flight /\ flight[k] # None
      \/ pc'[c] = "recheck" /\ flight'[k] = c /\ flight[k] = None
  BY DEF Join, Lead, Step, Inv, TypeOK
<1>3. \A j \in Keys : Live(j)' = Live(j)
  BY <1>1 DEF Live
<1>4. \A j \in Keys : Closed(j)' = Closed(j)
  <2>1. \A j \in Keys : flight[j] # None => flight[j] \in Calls /\ flight[j] # c
    BY <1>1 DEF Inv, TypeOK, FlightsAreLed
  <2> QED
    BY <1>1, <1>2, <2>1 DEF Closed
<1>5. FlightsAreLed' /\ LeadersHoldNewest'
  BY <1>1, <1>2 DEF Inv, TypeOK, FlightsAreLed, LeadersHoldNewest
<1>6. EntriesAreNewest'
  BY <1>1, <1>3 DEF Inv, EntriesAreNewest
<1>7. HistoryIsPast'
  BY <1>1, <1>4 DEF Inv, TypeOK, HistoryIsPast
<1>8. FetchOnlyOnMiss' /\ MonotonicReads' /\ FailuresNotCached'
  BY <1>1, <1>3 DEF Inv, TypeOK, FetchOnlyOnMiss, MonotonicReads, FailuresNotCached
<1>9. OutcomesBelong'
  BY <1>1 DEF Inv, TypeOK, OutcomesBelong, ForKey
<1> QED
  BY <1>5, <1>6, <1>7, <1>8, <1>9 DEF Inv

\* The second lookup: its hit is the newest fetch; its miss begins one.
LEMMA RecheckKeeps ==
  ASSUME Inv, TypeOK', NEW c \in Calls, RecheckHit(c) \/ RecheckMiss(c)
  PROVE  Inv'
<1> USE ConstantsAssumption
<1> DEFINE k == key[c]
<1>1. /\ pc[c] = "recheck" /\ k \in Keys /\ flight[k] = c
      /\ UNCHANGED <<now, items, flight, key, ttl, seen, seenAt, closedAt>>
      /\ \A d \in Calls : d # c => pc'[d] = pc[d] /\ res'[d] = res[d]
      /\ \A j \in Keys : j # k => begun'[j] = begun[j]
  BY DEF RecheckHit, RecheckMiss, Step, counters, history, Inv, TypeOK, FlightsAreLed
<1>2. \/ /\ Live(k) /\ pc'[c] = "finish" /\ begun' = begun
         /\ res'[c].fid = begun[k] /\ res'[c].kind = "bytes"
         /\ items[k] # None /\ res'[c].by = items[k].val.by
      \/ /\ ~Live(k) /\ pc'[c] = "fetch" /\ begun'[k] = begun[k] + 1
         /\ res'[c].fid = begun'[k] /\ res'[c].by = c
  <2>1. CASE RecheckHit(c)
    <3>1. Live(k) /\ pc'[c] = "finish" /\ begun' = begun /\ res'[c] = items[k].val
      BY <2>1 DEF RecheckHit, Step, history, Inv, TypeOK
    <3>2. items[k].val.fid = begun[k] /\ items[k].val.kind = "bytes"
      BY <1>1, <3>1 DEF Live, Inv, EntriesAreNewest
    <3> QED
      BY <3>1, <3>2 DEF Live
  <2>2. CASE RecheckMiss(c)
    <3>1. /\ ~Live(k) /\ pc'[c] = "fetch" /\ begun'[k] = begun[k] + 1
          /\ res'[c] = Result("none", begun[k] + 1, c, 0)
      BY <1>1, <2>2 DEF RecheckMiss, Step, Inv, TypeOK
    <3> QED
      BY <3>1 DEF Result
  <2> QED
    BY <2>1, <2>2
<1>3. \A j \in Keys : Live(j)' = Live(j)
  BY <1>1 DEF Live
<1>4. \A d \in Calls : pc[d] \in Leading /\ key[d] = k => d = c
  BY <1>1 DEF Inv, FlightsAreLed
<1>5. \A j \in Keys : Closed(j)' = Closed(j)
  <2>1. \A j \in Keys : j # k => flight[j] # c
    BY <1>1 DEF Inv, TypeOK, FlightsAreLed
  <2>2. ASSUME NEW j \in Keys, j = k PROVE Closed(j)' = Closed(j)
    BY <1>1, <1>2, <2>2 DEF Closed, Inv, TypeOK
  <2>3. ASSUME NEW j \in Keys, j # k PROVE Closed(j)' = Closed(j)
    BY <1>1, <2>1, <2>3 DEF Closed, Inv, TypeOK
  <2> QED
    BY <2>2, <2>3
<1>6. FlightsAreLed'
  BY <1>1, <1>2 DEF Inv, TypeOK, FlightsAreLed
<1>7. LeadersHoldNewest'
  BY <1>1, <1>2, <1>4 DEF Inv, TypeOK, LeadersHoldNewest
<1>8. EntriesAreNewest'
  BY <1>1, <1>2, <1>3 DEF Inv, TypeOK, EntriesAreNewest
<1>9. HistoryIsPast'
  BY <1>1, <1>2, <1>5 DEF Inv, TypeOK, HistoryIsPast
<1>10. FetchOnlyOnMiss'
  BY <1>1, <1>2, <1>3 DEF Inv, TypeOK, FetchOnlyOnMiss
<1>11. MonotonicReads' /\ FailuresNotCached'
  BY <1>1, <1>2 DEF Inv, TypeOK, MonotonicReads, FailuresNotCached
<1>12. OutcomesBelong'
  BY <1>1, <1>2 DEF Inv, TypeOK, OutcomesBelong, ForKey
<1> QED
  BY <1>6, <1>7, <1>8, <1>9, <1>10, <1>11, <1>12 DEF Inv
\* fn returns, with or without a cache: bytes of a flight go on to the store.
LEMMA ReturnKeeps ==
  ASSUME Inv, TypeOK', NEW c \in Calls, NEW kind \in Kinds \ {"none"}, NEW size \in Sizes,
         FetchReturn(c, kind, size) \/ DirectReturn(c, kind, size)
  PROVE  Inv'
<1> USE ConstantsAssumption
<1> DEFINE k == key[c]
<1>1. /\ pc[c] \in {"fetch", "direct"} /\ k \in Keys
      /\ UNCHANGED <<now, items, flight, key, ttl, begun, seen, seenAt, closedAt>>
      /\ \A d \in Calls : d # c => pc'[d] = pc[d] /\ res'[d] = res[d]
      /\ res'[c].kind = kind /\ res'[c].by = c
  BY DEF FetchReturn, DirectReturn, Step, Result, counters, history, Inv, TypeOK
<1>2. \/ /\ pc[c] = "fetch" /\ res'[c].fid = res[c].fid
         /\ pc'[c] = IF kind = "bytes" THEN "store" ELSE "finish"
      \/ pc[c] = "direct" /\ pc'[c] = "done"
  BY DEF FetchReturn, DirectReturn, Step, Result, Inv, TypeOK
<1>3. \A j \in Keys : Live(j)' = Live(j)
  BY <1>1 DEF Live
<1>4. \A j \in Keys : Closed(j) \in Int /\ Closed(j)' \in Int /\ Closed(j) <= Closed(j)'
  <2>1. ASSUME NEW j \in Keys, flight[j] # c PROVE Closed(j)' = Closed(j)
    BY <1>1, <2>1 DEF Closed, Inv, TypeOK
  <2>2. ASSUME NEW j \in Keys, flight[j] = c PROVE Closed(j) <= Closed(j)'
    <3>1. pc[c] = "fetch"
      BY <1>1, <2>2 DEF Inv, FlightsAreLed
    <3>2. begun[j] \in Nat /\ begun'[j] = begun[j] /\ flight'[j] = c
      BY <1>1, <2>2 DEF Inv, TypeOK
    <3> QED
      BY <1>1, <1>2, <2>2, <3>1, <3>2 DEF Closed
  <2>3. \A j \in Keys : Closed(j) \in Int /\ Closed(j)' \in Int
    BY DEF Inv, TypeOK, Closed
  <2> QED
    BY <2>1, <2>2, <2>3
<1>5. FlightsAreLed' /\ LeadersHoldNewest' /\ EntriesAreNewest'
  BY <1>1, <1>2, <1>3 DEF Inv, TypeOK, FlightsAreLed, LeadersHoldNewest, EntriesAreNewest
<1>6. HistoryIsPast'
  <2>1. \A d \in Calls : pc'[d] # "idle" => pc[d] # "idle" /\ key[d] \in Keys
    BY <1>1 DEF Inv, TypeOK
  <2>2. \A d \in Calls, j \in Keys :
          pc'[d] # "idle" /\ key[d] = j => closedAt[d] <= Closed(j)'
    BY <1>4, <2>1 DEF Inv, TypeOK, HistoryIsPast
  <2> QED
    BY <1>1, <1>2, <2>1, <2>2 DEF Inv, TypeOK, HistoryIsPast
<1>7. FetchOnlyOnMiss'
  BY <1>1, <1>2, <1>3 DEF Inv, TypeOK, FetchOnlyOnMiss
<1>8. MonotonicReads' /\ FailuresNotCached'
  <2>1. pc'[c] = "done" => ttl'[c] = 0
    BY <1>1, <1>2 DEF Inv, TypeOK, HistoryIsPast
  <2> QED
    BY <1>1, <2>1 DEF Inv, TypeOK, MonotonicReads, FailuresNotCached
<1>9. OutcomesBelong'
  BY <1>1, <1>2 DEF Inv, TypeOK, OutcomesBelong, ForKey
<1> QED
  BY <1>5, <1>6, <1>7, <1>8, <1>9 DEF Inv

\* What is stored is the newest fetch, and that fetch is over.
LEMMA StoreKeeps ==
  ASSUME Inv, TypeOK', NEW c \in Calls, Store(c)
  PROVE  Inv'
<1> USE ConstantsAssumption
<1> DEFINE k == key[c]
<1>1. /\ pc[c] = "store" /\ k \in Keys /\ flight[k] = c
      /\ UNCHANGED <<now, flight, key, ttl, res, begun, seen, seenAt, closedAt>>
      /\ pc' = [pc EXCEPT ![c] = "finish"]
  BY DEF Store, Step, counters, history, Inv, TypeOK, FlightsAreLed
<1>2. res[c].fid = begun[k] /\ res[c].kind = "bytes"
  BY <1>1 DEF Inv, LeadersHoldNewest
<1>3. /\ \A j \in Keys : j # k => items'[j] = items[j]
      /\ items'[k] = items[k] \/ items'[k].val = res[c]
  BY <1>1 DEF Store, Set, Inv, TypeOK
<1>4. \A d \in Calls : pc[d] \in Leading /\ key[d] = k => d = c
  BY <1>1 DEF Inv, FlightsAreLed
<1>5. \A j \in Keys : Closed(j)' = Closed(j)
  BY <1>1, <1>2 DEF Closed, Inv, TypeOK
<1>6. FlightsAreLed' /\ LeadersHoldNewest'
  BY <1>1, <1>2 DEF Inv, TypeOK, FlightsAreLed, LeadersHoldNewest
<1>7. EntriesAreNewest'
  BY <1>1, <1>2, <1>3 DEF Inv, TypeOK, EntriesAreNewest, Live
<1>8. HistoryIsPast'
  BY <1>1, <1>5 DEF Inv, TypeOK, HistoryIsPast
<1>9. FetchOnlyOnMiss'
  BY <1>1, <1>3, <1>4 DEF Inv, TypeOK, FetchOnlyOnMiss, Live
<1>10. MonotonicReads' /\ FailuresNotCached'
  BY <1>1 DEF Inv, TypeOK, MonotonicReads, FailuresNotCached
<1>11. OutcomesBelong'
  BY <1>1, <1>3 DEF Inv, TypeOK, OutcomesBelong, ForKey
<1> QED
  BY <1>6, <1>7, <1>8, <1>9, <1>10, <1>11 DEF Inv

\* The flight is taken down; everyone in it has the newest fetch.
LEMMA FinishKeeps ==
  ASSUME Inv, TypeOK', NEW c \in Calls, Finish(c)
  PROVE  Inv'
<1> USE ConstantsAssumption
<1> DEFINE k == key[c]
           In(d) == d = c \/ (pc[d] = "wait" /\ key[d] = k)
<1>1. /\ pc[c] = "finish" /\ k \in Keys /\ flight[k] = c
      /\ UNCHANGED <<now, items, key, ttl, begun, seenAt, closedAt>>
      /\ flight' = [flight EXCEPT ![k] = None]
      /\ seen' = Note(k, res[c])
  BY DEF Finish, Landed, Waiters, counters, Inv, TypeOK, FlightsAreLed
<1>2. \A d \in Calls : /\ In(d) => pc'[d] = "done" /\ res'[d] = res[c]
                       /\ ~In(d) => pc'[d] = pc[d] /\ res'[d] = res[d]
  BY <1>1 DEF Finish, Landed, Waiters
<1>3. /\ res[c] \in Outcome /\ res[c].fid = begun[k]
      /\ res[c].kind = "bytes" \/ (res[c].kind \in Failures /\ begun[k] > 0)
  BY <1>1 DEF Inv, TypeOK, LeadersHoldNewest
<1>4. \A j \in Keys : Live(j)' = Live(j)
  BY <1>1 DEF Live
<1>5. \A d \in Calls : pc[d] \in Leading /\ key[d] = k => d = c
  BY <1>1 DEF Inv, FlightsAreLed
<1>6. \A j \in Keys : Closed(j) \in Int /\ Closed(j)' \in Int /\ Closed(j) <= Closed(j)'
  <2>1. ASSUME NEW j \in Keys, j = k PROVE Closed(j) <= Closed(j)'
    BY <1>1, <2>1 DEF Closed, Inv, TypeOK
  <2>2. ASSUME NEW j \in Keys, j # k PROVE Closed(j)' = Closed(j)
    <3>1. flight'[j] = flight[j]
      BY <1>1, <2>2 DEF Inv, TypeOK
    <3>2. flight[j] # None => flight[j] \in Calls /\ pc[flight[j]] \in Leading /\ key[flight[j]] = j
      BY DEF Inv, TypeOK, FlightsAreLed
    <3>3. flight[j] # None => ~In(flight[j])
      BY <2>2, <3>2
    <3> QED
      BY <1>1, <1>2, <3>1, <3>2, <3>3 DEF Closed
  <2>3. \A j \in Keys : Closed(j) \in Int /\ Closed(j)' \in Int
    BY DEF Inv, TypeOK, Closed
  <2> QED
    BY <2>1, <2>2, <2>3
<1>7. /\ \A j \in Keys : seen[j] <= seen'[j] /\ seen'[j] <= begun[j]
  <2>1. /\ \A j \in Keys : j # k => seen'[j] = seen[j]
        /\ seen'[k] >= seen[k]
        /\ seen'[k] = seen[k] \/ seen'[k] = begun[k]
    BY <1>1, <1>3, NoteType DEF Inv
  <2> QED
    BY <2>1 DEF Inv, TypeOK, HistoryIsPast
<1>8. FlightsAreLed'
  BY <1>1, <1>2, <1>5 DEF Inv, TypeOK, FlightsAreLed
<1>9. LeadersHoldNewest' /\ EntriesAreNewest' /\ FetchOnlyOnMiss'
  BY <1>1, <1>2, <1>4 DEF Inv, TypeOK, LeadersHoldNewest, EntriesAreNewest, FetchOnlyOnMiss
<1>10. HistoryIsPast'
  <2>1. \A d \in Calls : pc'[d] # "idle" => pc[d] # "idle" /\ key[d] \in Keys
    BY <1>1, <1>2 DEF Inv, TypeOK
  <2>2. \A d \in Calls, j \in Keys :
          pc'[d] # "idle" /\ key[d] = j => seenAt[d] <= seen'[j] /\ closedAt[d] <= Closed(j)'
    BY <1>6, <1>7, <2>1 DEF Inv, TypeOK, HistoryIsPast
  <2> QED
    BY <1>1, <1>2, <1>7, <2>1, <2>2 DEF Inv, TypeOK, HistoryIsPast
<1>11. MonotonicReads' /\ FailuresNotCached'
  <2>1. \A d \in Calls : In(d) => /\ key[d] = k /\ pc[d] # "idle"
                                  /\ seenAt[d] <= begun[k] /\ closedAt[d] <= Closed(k)
    BY <1>1 DEF Inv, TypeOK, HistoryIsPast
  <2>2. res[c].kind \in Failures => Closed(k) < begun[k]
    BY <1>1, <1>3 DEF Closed, Inv, TypeOK
  <2>3. \A d \in Calls : In(d) => /\ seenAt[d] <= res'[d].fid
                                  /\ res'[d].kind \in Failures => closedAt[d] < res'[d].fid
    BY <1>2, <1>3, <2>1, <2>2 DEF Inv, TypeOK, Closed
  <2> QED
    BY <1>1, <1>2, <2>3 DEF Inv, TypeOK, MonotonicReads, FailuresNotCached
<1>12. OutcomesBelong'
  BY <1>1, <1>2 DEF Inv, TypeOK, OutcomesBelong, ForKey
<1> QED
  BY <1>8, <1>9, <1>10, <1>11, <1>12 DEF Inv

\* Every step of the cache keeps the invariant.
LEMMA InvStep == Inv /\ [Next]_vars => Inv'
<1> SUFFICES ASSUME Inv, [Next]_vars PROVE Inv'
  OBVIOUS
<1>1. TypeOK'
  BY TypeStep DEF Inv
<1>2. CASE UNCHANGED vars
  BY <1>1, <1>2, StoreShrinks DEF vars, Inv, TypeOK
<1>3. ASSUME NEW k \in Keys, Delete(k) PROVE Inv'
  BY <1>1, <1>3, StoreShrinks DEF Delete, Inv, TypeOK
<1>4. CASE Flush
  BY <1>1, <1>4, StoreShrinks DEF Flush, Inv, TypeOK
<1>5. CASE Sweep
  BY <1>1, <1>5, StoreShrinks DEF Sweep, Inv, TypeOK
<1>6. CASE Tick
  BY <1>1, <1>6, StoreShrinks DEF Tick, Inv, TypeOK
<1>7. ASSUME NEW c \in Calls, Start(c) PROVE Inv'
  BY <1>1, <1>7, LookupKeeps DEF Start
<1>8. ASSUME NEW c \in Calls, Progress(c) PROVE Inv'
  BY <1>1, <1>8, MissKeeps, RecheckKeeps, ReturnKeeps, StoreKeeps, FinishKeeps DEF Progress
<1> QED
  BY <1>2, <1>3, <1>4, <1>5, <1>6, <1>7, <1>8 DEF Next

\* The cache's flights, entries and results agree in every behaviour.
THEOREM Invariance == Spec => []Inv
<1>1. Init => Inv
  BY TypeInit, ConstantsAssumption
     DEF Init, Inv, TypeOK, FlightsAreLed, LeadersHoldNewest, EntriesAreNewest,
         HistoryIsPast, FetchOnlyOnMiss, MonotonicReads, FailuresNotCached, OutcomesBelong, Live
<1> QED
  BY <1>1, InvStep, PTL DEF Spec

\* Concurrent misses of a key never run its handler twice at once.
THEOREM Coalescing == Spec => []OneFetchPerKey
<1>1. Inv => OneFetchPerKey
  BY DEF Inv, TypeOK, FlightsAreLed, OneFetchPerKey
<1> QED
  BY <1>1, Invariance, PTL

\* fn never runs while the store has an unexpired entry for its key.
THEOREM NoNeedlessFetch == Spec => []FetchOnlyOnMiss
<1>1. Inv => FetchOnlyOnMiss
  BY DEF Inv
<1> QED
  BY <1>1, Invariance, PTL

\* No call is given older bytes than those returned before it was made.
THEOREM ReadsAreMonotonic == Spec => []MonotonicReads
<1>1. Inv => MonotonicReads
  BY DEF Inv
<1> QED
  BY <1>1, Invariance, PTL

\* A call is never given what was fetched for another key.
THEOREM ResponsesStayWithTheirKey == Spec => []OutcomesBelong
<1>1. Inv => OutcomesBelong
  BY DEF Inv
<1> QED
  BY <1>1, Invariance, PTL

\* A failure reaches only the calls that overlap the flight that failed.
THEOREM FailuresAreNotKept == Spec => []FailuresNotCached
<1>1. Inv => FailuresNotCached
  BY DEF Inv
<1> QED
  BY <1>1, Invariance, PTL

----------------------------------------------------------------------------
(* The counters.                                                           *)

\* The calls whose first lookup a step is, and those it serves at once.
Lookups == {c \in Calls : pc[c] = "idle" /\ pc'[c] # "idle" /\ ttl'[c] > 0}
Served  == {c \in Lookups : pc'[c] = "done"}
Counted ==
  /\ hits' = hits + Cardinality(Served)
  /\ misses' = misses + Cardinality(Lookups \ Served)

\* A step that is no lookup counts nothing.
LEMMA NoLookupNoCount ==
  ASSUME TypeOK, UNCHANGED <<hits, misses>>, Lookups = {}
  PROVE  Counted
<1>1. Served = {} /\ Lookups \ Served = {}
  BY DEF Served
<1> QED
  BY <1>1, FS_EmptySet, SMT DEF Counted, TypeOK

\* A call's lookup counts it, as what it was.
LEMMA LookupCounts ==
  ASSUME TypeOK, NEW c \in Calls, NEW k \in Keys, NEW t \in TTLs,
         Bypass(c, k, t) \/ Hit(c, k, t) \/ Miss(c, k, t)
  PROVE  Counted
<1> USE ConstantsAssumption
<1>1. /\ t \in Nat /\ pc[c] = "idle" /\ ttl'[c] = t
      /\ \A d \in Calls \ {c} : pc'[d] = pc[d]
  BY DEF Bypass, Hit, Miss, Begin, TypeOK
<1>2. CASE Bypass(c, k, t)
  <2>1. Lookups = {}
    BY <1>1, <1>2 DEF Lookups, Bypass
  <2> QED
    BY <1>2, <2>1, NoLookupNoCount DEF Bypass
<1>3. CASE Hit(c, k, t)
  <2>1. t > 0 /\ pc'[c] = "done"
    BY <1>3 DEF Hit, TypeOK
  <2>2. Lookups = {c}
    BY <1>1, <2>1 DEF Lookups
  <2>3. Served = {c} /\ Lookups \ Served = {}
    BY <2>1, <2>2 DEF Served
  <2>4. Cardinality(Served) = 1 /\ Cardinality(Lookups \ Served) = 0
    BY <2>3, FS_EmptySet, FS_Singleton
  <2>5. hits' = hits + 1 /\ misses' = misses + 0
    BY <1>3 DEF Hit, TypeOK
  <2> QED
    BY <2>4, <2>5 DEF Counted
<1>4. CASE Miss(c, k, t)
  <2>1. t > 0 /\ pc'[c] = "miss"
    BY <1>4 DEF Miss, TypeOK
  <2>2. Lookups = {c}
    BY <1>1, <2>1 DEF Lookups
  <2>3. Served = {} /\ Lookups \ Served = {c}
    BY <2>1, <2>2 DEF Served
  <2>4. Cardinality(Served) = 0 /\ Cardinality(Lookups \ Served) = 1
    BY <2>3, FS_EmptySet, FS_Singleton
  <2>5. hits' = hits + 0 /\ misses' = misses + 1
    BY <1>4 DEF Miss, TypeOK
  <2> QED
    BY <2>4, <2>5 DEF Counted
<1> QED
  BY <1>2, <1>3, <1>4

\* Every step counts the lookups it makes and nothing else.
LEMMA CountStep == TypeOK /\ [Next]_vars => Counted
<1> SUFFICES ASSUME TypeOK, [Next]_vars PROVE Counted
  OBVIOUS
<1>1. ASSUME UNCHANGED <<hits, misses>>,
             \A c \in Calls : pc[c] = "idle" => pc'[c] = "idle"
      PROVE  Counted
  <2>1. Lookups = {}
    BY <1>1 DEF Lookups
  <2> QED
    BY <1>1, <2>1, NoLookupNoCount
<1>2. CASE UNCHANGED vars
  BY <1>1, <1>2 DEF vars, callState, counters
<1>3. ASSUME NEW c \in Calls, Start(c) PROVE Counted
  BY <1>3, LookupCounts DEF Start
<1>4. ASSUME NEW c \in Calls, Progress(c) PROVE Counted
  <2>1. UNCHANGED <<hits, misses>>
    BY <1>4 DEF Progress, Join, Lead, RecheckHit, RecheckMiss, FetchReturn, DirectReturn,
                Store, Finish, Landed, counters
  <2>2. \A d \in Calls : pc[d] = "idle" => pc'[d] = "idle"
    BY <1>4 DEF Progress, Join, Lead, RecheckHit, RecheckMiss, FetchReturn, DirectReturn,
                Store, Finish, Landed, Waiters, Step, TypeOK
  <2> QED
    BY <1>1, <2>1, <2>2
<1>5. CASE (\E k \in Keys : Delete(k)) \/ Flush \/ Sweep \/ Tick
  BY <1>1, <1>5 DEF Delete, Flush, Sweep, Tick, callState, counters
<1> QED
  BY <1>2, <1>3, <1>4, <1>5 DEF Next

\* A call is counted when it first looks the key up, as a hit exactly when
\* that lookup gave it its answer; nothing else is counted, the lookup inside
\* a flight least of all (memory.go:96-131, 190-197).
THEOREM EveryLookupIsCounted == Spec => CountersAgree
<1>1. TypeOK /\ [Next]_vars =>
        [ LET lookups == {c \in Calls : pc[c] = "idle" /\ pc'[c] # "idle" /\ ttl'[c] > 0}
              served  == {c \in lookups : pc'[c] = "done"}
          IN  /\ hits' = hits + Cardinality(served)
              /\ misses' = misses + Cardinality(lookups \ served) ]_vars
  BY CountStep DEF Counted, Served, Lookups
<1> QED
  BY <1>1, TypeCorrect, PTL DEF Spec, CountersAgree

----------------------------------------------------------------------------
(* What is left of a key's first fetches.                                  *)

\* Nothing of the first n fetches of k is left: as long as there has been no
\* other, k has no entry, and nobody who leads for it holds an outcome.
NothingSince(k, n) ==
  /\ n <= begun[k]
  /\ begun[k] = n =>
       /\ items[k] = None
       /\ \A c \in Calls : key[c] = k /\ pc[c] \in Leading => pc[c] = "recheck"

\* It stays so,
LEMMA NothingComesBack ==
  ASSUME Inv, [Next]_vars, NEW k \in Keys, NEW n \in Nat, NothingSince(k, n)
  PROVE  NothingSince(k, n)'
<1> USE ConstantsAssumption DEF Inv, TypeOK
<1>1. ASSUME items'[k] \in {items[k], None}, UNCHANGED <<pc, key, begun>>
      PROVE  NothingSince(k, n)'
  BY <1>1 DEF NothingSince
<1>2. CASE UNCHANGED vars
  BY <1>1, <1>2 DEF vars, callState, history
<1>3. CASE (\E q \in Keys : Delete(q)) \/ Flush \/ Sweep \/ Tick
  BY <1>1, <1>3 DEF Delete, Flush, Sweep, Tick, callState, history
<1>4. ASSUME NEW c \in Calls, Start(c) PROVE NothingSince(k, n)'
  <2>1. /\ UNCHANGED <<items, begun>>
        /\ pc'[c] \notin Leading
        /\ \A d \in Calls \ {c} : pc'[d] = pc[d] /\ key'[d] = key[d]
    BY <1>4 DEF Start, Bypass, Hit, Miss, Begin
  <2> QED
    BY <2>1 DEF NothingSince
<1>5. ASSUME NEW c \in Calls, Progress(c) PROVE NothingSince(k, n)'
  <2>1. CASE Join(c)
    BY <2>1 DEF Join, Step, history, NothingSince
  <2>2. CASE Lead(c)
    BY <2>2 DEF Lead, Step, history, NothingSince
  <2>3. CASE RecheckHit(c)
    BY <2>3 DEF RecheckHit, Step, history, NothingSince, Live
  <2>4. CASE RecheckMiss(c)
    <3>1. key[c] \in Keys /\ begun' = [begun EXCEPT ![key[c]] = begun[key[c]] + 1]
      BY <2>4 DEF RecheckMiss, Step
    <3>2. CASE key[c] = k
      <4>1. begun'[k] \in Nat /\ begun'[k] > n
        BY <3>1, <3>2 DEF NothingSince
      <4> QED
        BY <4>1 DEF NothingSince
    <3>3. CASE key[c] # k
      BY <2>4, <3>1, <3>3 DEF RecheckMiss, Step, NothingSince
    <3> QED
      BY <3>2, <3>3
  <2>5. ASSUME NEW kind, NEW size, FetchReturn(c, kind, size) PROVE NothingSince(k, n)'
    BY <2>5 DEF FetchReturn, Step, history, NothingSince
  <2>6. ASSUME NEW kind, NEW size, DirectReturn(c, kind, size) PROVE NothingSince(k, n)'
    BY <2>6 DEF DirectReturn, history, NothingSince
  <2>7. CASE Store(c)
    <3>1. key[c] \in Keys /\ pc[c] = "store"
      BY <2>7 DEF Store, Step
    <3>2. key[c] = k => begun[k] > n
      BY <3>1 DEF NothingSince
    <3>3. key[c] # k => items'[k] = items[k]
      BY <2>7, <3>1 DEF Store, Set
    <3> QED
      BY <2>7, <3>1, <3>2, <3>3 DEF Store, Step, history, NothingSince
  <2>8. CASE Finish(c)
    BY <2>8 DEF Finish, Landed, Waiters, NothingSince
  <2> QED
    BY <1>5, <2>1, <2>2, <2>3, <2>4, <2>5, <2>6, <2>7, <2>8 DEF Progress
<1> QED
  BY <1>2, <1>3, <1>4, <1>5 DEF Next

\* and so whoever returns for k from now on returns a later fetch.
LEMMA LaterIsReturned ==
  ASSUME Inv, [Next]_vars, NEW k \in Keys, NEW n \in Nat, NothingSince(k, n),
         NEW c \in Calls, pc'[c] = "done", key'[c] = k, pc[c] # "direct"
  PROVE  \/ pc[c] = "done" /\ key[c] = k /\ res'[c] = res[c]
         \/ res'[c].fid > n
<1> USE DEF Inv, TypeOK
<1>1. CASE UNCHANGED vars
  BY <1>1 DEF vars, callState
<1>2. CASE (\E q \in Keys : Delete(q)) \/ Flush \/ Sweep \/ Tick
  BY <1>2 DEF Delete, Flush, Sweep, Tick, callState
<1>3. ASSUME NEW d \in Calls, NEW q \in Keys, NEW t \in TTLs,
             Bypass(d, q, t) \/ Hit(d, q, t) \/ Miss(d, q, t), d = c
      PROVE  res'[c].fid > n
  <2>1. q = k /\ Hit(c, k, t)
    BY <1>3 DEF Bypass, Hit, Miss, Begin
  <2>2. Live(k) /\ res'[c] = items[k].val
    BY <2>1 DEF Hit
  <2>3. items[k].val.fid = begun[k]
    BY <2>2 DEF EntriesAreNewest
  <2>4. begun[k] > n
    <3>1. items[k] # None
      BY <2>2 DEF Live
    <3>2. begun[k] \in Nat /\ n <= begun[k] /\ begun[k] # n
      BY <3>1 DEF NothingSince
    <3> QED
      BY <3>2
  <2> QED
    BY <2>2, <2>3, <2>4
<1>4. ASSUME NEW d \in Calls, Start(d), d # c PROVE pc[c] = "done" /\ key[c] = k /\ res'[c] = res[c]
  BY <1>4 DEF Start, Bypass, Hit, Miss, Begin
<1>5. ASSUME NEW d \in Calls, Finish(d) PROVE \/ pc[c] = "done" /\ key[c] = k /\ res'[c] = res[c]
                                            \/ res'[c].fid > n
  <2>1. CASE c \in {d} \cup Waiters(d)
    <3>1. key[d] = k /\ pc[d] = "finish" /\ res'[c] = res[d]
      BY <1>5, <2>1 DEF Finish, Landed, Waiters
    <3>2. res[d].fid = begun[k] /\ begun[k] > n
      BY <3>1 DEF LeadersHoldNewest, NothingSince
    <3> QED
      BY <3>1, <3>2
  <2>2. CASE c \notin {d} \cup Waiters(d)
    BY <1>5, <2>2 DEF Finish, Landed
  <2> QED
    BY <2>1, <2>2
<1>6. ASSUME NEW d \in Calls, Progress(d), ~Finish(d)
      PROVE  pc[c] = "done" /\ key[c] = k /\ res'[c] = res[c]
  BY <1>6 DEF Progress, Join, Lead, RecheckHit, RecheckMiss, FetchReturn, DirectReturn, Store, Step
<1> QED
  BY <1>1, <1>2, <1>3, <1>4, <1>5, <1>6 DEF Next, Start

----------------------------------------------------------------------------
(* The promise: MemoryCache implements ReadThrough.                        *)

\* Every step of the cache leaves running fetches without a result, and the
\* results of flights equal to the entries they found or stored.
LEMMA HoldStep == Inv /\ FlightsHoldEntries /\ [Next]_vars => FlightsHoldEntries'
<1> SUFFICES ASSUME Inv, FlightsHoldEntries, [Next]_vars PROVE FlightsHoldEntries'
  OBVIOUS
<1> USE ConstantsAssumption
<1>1. ASSUME now' >= now, UNCHANGED <<pc, key, res>>,
             \A k \in Keys : items'[k] \in {items[k], None}
      PROVE  FlightsHoldEntries'
  <2>1. \A k \in Keys : Live(k)' => Live(k) /\ items'[k] = items[k]
    BY <1>1, TypeStep DEF Live, Inv, TypeOK, Entry
  <2> QED
    BY <1>1, <2>1 DEF Inv, TypeOK, FlightsHoldEntries
<1>2. CASE UNCHANGED vars
  BY <1>1, <1>2 DEF vars, callState, Inv, TypeOK
<1>3. ASSUME NEW k \in Keys, Delete(k) PROVE FlightsHoldEntries'
  BY <1>1, <1>3 DEF Delete, callState, Inv, TypeOK
<1>4. CASE Flush
  BY <1>1, <1>4 DEF Flush, callState, Inv, TypeOK
<1>5. CASE Sweep
  BY <1>1, <1>5 DEF Sweep, callState, Inv, TypeOK
<1>6. CASE Tick
  BY <1>1, <1>6 DEF Tick, callState, Inv, TypeOK
<1>7. ASSUME NEW c \in Calls, UNCHANGED <<now, items>>,
             pc'[c] \notin {"fetch", "finish"},
             \A d \in Calls : d # c =>
               /\ pc'[d] = pc[d] /\ key'[d] = key[d] /\ res'[d] = res[d]
      PROVE  FlightsHoldEntries'
  BY <1>7 DEF Inv, TypeOK, FlightsHoldEntries, Live
<1>8. ASSUME NEW c \in Calls, Start(c) PROVE FlightsHoldEntries'
  <2> PICK k \in Keys, t \in TTLs : Bypass(c, k, t) \/ Hit(c, k, t) \/ Miss(c, k, t)
    BY <1>8 DEF Start
  <2> QED
    BY <1>7 DEF Bypass, Hit, Miss, Begin, Inv, TypeOK
<1>9. ASSUME NEW c \in Calls, Join(c) \/ Lead(c) PROVE FlightsHoldEntries'
  BY <1>7, <1>9 DEF Join, Lead, Step, Inv, TypeOK
<1>10. ASSUME NEW c \in Calls, RecheckHit(c) PROVE FlightsHoldEntries'
  BY <1>10 DEF RecheckHit, Step, Inv, TypeOK, FlightsHoldEntries, Live
<1>11. ASSUME NEW c \in Calls, RecheckMiss(c) PROVE FlightsHoldEntries'
  BY <1>11 DEF RecheckMiss, Step, Result, Inv, TypeOK, FlightsHoldEntries, Live
<1>12. ASSUME NEW c \in Calls, NEW kind \in Kinds, NEW size \in Sizes, FetchReturn(c, kind, size)
       PROVE  FlightsHoldEntries'
  BY <1>12 DEF FetchReturn, Step, Inv, TypeOK, FlightsHoldEntries, FetchOnlyOnMiss, Live
<1>13. ASSUME NEW c \in Calls, NEW kind \in Kinds, NEW size \in Sizes, DirectReturn(c, kind, size)
       PROVE  FlightsHoldEntries'
  BY <1>7, <1>13 DEF DirectReturn, Inv, TypeOK
<1>14. ASSUME NEW c \in Calls, Store(c) PROVE FlightsHoldEntries'
  <2>1. /\ pc[c] = "store" /\ key[c] \in Keys /\ ~Live(key[c])
        /\ UNCHANGED <<now, key, res>> /\ pc' = [pc EXCEPT ![c] = "finish"]
    BY <1>14 DEF Store, Step, Inv, TypeOK, FetchOnlyOnMiss
  <2>2. /\ \A k \in Keys : k # key[c] => items'[k] = items[k]
        /\ items'[key[c]] = items[key[c]] \/ items'[key[c]].val = res[c]
    BY <1>14, <2>1 DEF Store, Set, Inv, TypeOK
  <2>3. \A d \in Calls : d # c /\ pc[d] = "finish" => key[d] # key[c] /\ key[d] \in Keys
    <3>1. \A d \in Calls : pc[d] = "finish" => key[d] \in Keys
      BY DEF Inv, TypeOK
    <3>2. flight[key[c]] = c
      BY <2>1 DEF Inv, FlightsAreLed
    <3>3. \A d \in Calls : pc[d] = "finish" => flight[key[d]] = d
      BY <3>1 DEF Inv, FlightsAreLed
    <3> QED
      BY <3>1, <3>2, <3>3
  <2> QED
    BY <2>1, <2>2, <2>3 DEF Inv, TypeOK, FlightsHoldEntries, Live
<1>15. ASSUME NEW c \in Calls, Finish(c) PROVE FlightsHoldEntries'
  BY <1>15 DEF Finish, Landed, Waiters, Inv, TypeOK, FlightsHoldEntries, Live
<1> QED
  BY <1>2, <1>3, <1>4, <1>5, <1>6, <1>8, <1>9, <1>10, <1>11, <1>12, <1>13, <1>14, <1>15
     DEF Next, Progress

----------------------------------------------------------------------------
(* The steps of the cache, as its callers see them.                        *)

\* What is seen of a call's place.
LEMMA Modes ==
  /\ Mode("idle") = "idle" /\ Mode("direct") = "alone" /\ Mode("done") = "answered"
  /\ \A p \in Leading \cup {"miss", "wait"} : Mode(p) = "waiting"
BY DEF Mode

\* A flight that holds something is led by a call for its key.
LEMMA Holders ==
  ASSUME Inv, NEW k \in Keys, flight[k] # None
  PROVE  flight[k] \in Calls /\ pc[flight[k]] \in Leading /\ key[flight[k]] = k
BY DEF Inv, TypeOK, FlightsAreLed

\* An unexpired entry is the newest fetch of its key, and its bytes are kept.
LEMMA LiveIsNewest ==
  ASSUME Inv, FlightsHoldEntries, NEW k \in Keys, Live(k)
  PROVE  Newest(k) = items[k].val /\ Newest(k) \in Outcome /\ Newest(k).kind = "bytes"
<1>1. items[k].val \in Outcome /\ items[k].val.kind = "bytes"
  BY DEF Inv, TypeOK, Live, Entry, EntriesAreNewest
<1>2. CASE Holds(k)
  BY <1>1, <1>2, Holders DEF Holds, Newest, Inv, FetchOnlyOnMiss, FlightsHoldEntries
<1>3. CASE ~Holds(k)
  BY <1>1, <1>3 DEF Newest
<1> QED
  BY <1>2, <1>3

\* A step that touches neither a key's entry nor its flight leaves its newest
\* fetch as it is.
LEMMA NewestStays ==
  ASSUME NEW k \in Keys, UNCHANGED now, items'[k] = items[k], flight'[k] = flight[k],
         flight[k] # None => /\ pc'[flight[k]] = pc[flight[k]]
                             /\ res'[flight[k]] = res[flight[k]]
  PROVE  Newest(k)' = Newest(k)
BY DEF Newest, Holds, Live

\* Losing entries, of those that no flight holds, is forgetting.
LEMMA LosingIsForgetting ==
  ASSUME Inv, FlightsHoldEntries, TypeOK', now' >= now,
         UNCHANGED <<flight, pc, key, res, begun>>,
         \A k \in Keys : items'[k] \in {items[k], None}
  PROVE  Promise!Next
<1> DEFINE S == {k \in Keys : ~Holds(k) /\ Live(k) /\ ~Live(k)'}
<1>1. \A k \in S : Promise!Kept(k)
  BY LiveIsNewest, NoneIsNoOutcome DEF Promise!Kept, current
<1>2. \A k \in Keys : Live(k)' => Live(k) /\ items'[k] = items[k]
  BY DEF Live, Inv, TypeOK, Entry
<1>3. \A k \in Keys : Newest(k)' = IF k \in S THEN None ELSE Newest(k)
  BY <1>2 DEF Newest, Holds
<1>4. current' = [k \in Keys |-> IF k \in S THEN None ELSE current[k]]
  BY <1>3 DEF current
<1>5. UNCHANGED <<mode, key, answer, begun>>
  BY DEF mode, answer
<1>6. Promise!Forget(S)
  BY <1>1, <1>4, <1>5 DEF Promise!Forget
<1> QED
  BY <1>6 DEF Promise!Next

\* The lookup is an answer from what is kept, or the beginning of a wait.
LEMMA LookupIsSeen ==
  ASSUME Inv, FlightsHoldEntries, NEW c \in Calls, NEW k \in Keys, NEW t \in TTLs,
         Bypass(c, k, t) \/ Hit(c, k, t) \/ Miss(c, k, t)
  PROVE  Promise!Next
<1> DEFINE to == pc'[c]
<1>1. /\ pc[c] = "idle" /\ to \in {"direct", "done", "miss"}
      /\ pc' = [pc EXCEPT ![c] = to] /\ key' = [key EXCEPT ![c] = k]
      /\ UNCHANGED <<now, items, flight, begun>>
      /\ to = "done" => Live(k) /\ res' = [res EXCEPT ![c] = items[k].val]
      /\ to # "done" => UNCHANGED res
  BY DEF Bypass, Hit, Miss, Begin, Inv, TypeOK
<1> HIDE DEF to
<1>2. mode[c] = "idle" /\ mode' = [mode EXCEPT ![c] = Mode(to)]
  BY <1>1, Modes DEF mode, Inv, TypeOK
<1>3. UNCHANGED current
  <2>1. \A j \in Keys : flight[j] # c \/ flight[j] = None
    BY <1>1, Holders
  <2>2. \A j \in Keys : Newest(j)' = Newest(j)
    BY <1>1, <2>1, Holders, NewestStays DEF Inv, TypeOK
  <2> QED
    BY <2>2 DEF current
<1>4. CASE to = "done"
  <2>1. Promise!Kept(k) /\ current[k] = items[k].val
    BY <1>1, <1>4, LiveIsNewest, NoneIsNoOutcome DEF Promise!Kept, current
  <2>2. answer' = [answer EXCEPT ![c] = current[k]]
    BY <1>1, <1>4, <2>1 DEF answer, Inv, TypeOK
  <2>3. Promise!Serve(c, k)
    BY <1>1, <1>2, <1>3, <1>4, <2>1, <2>2, Modes DEF Promise!Serve, Promise!Goes
  <2> QED
    BY <2>3 DEF Promise!Next
<1>5. CASE to # "done"
  <2>1. UNCHANGED answer
    BY <1>1, <1>5 DEF answer, Inv, TypeOK
  <2>2. to = "direct" => Promise!AskAlone(c, k)
    BY <1>1, <1>2, <1>3, <2>1, Modes DEF Promise!AskAlone, Promise!Goes
  <2>3. to = "miss" => Promise!Ask(c, k)
    BY <1>1, <1>2, <1>3, <2>1, Modes DEF Promise!Ask, Promise!Goes
  <2> QED
    BY <1>1, <1>5, <2>2, <2>3 DEF Promise!Next
<1> QED
  BY <1>4, <1>5

\* Callers see nothing of a step that leaves them waiting, keeps the answers
\* and changes no key's newest fetch.
LEMMA Unseen ==
  ASSUME UNCHANGED <<key, begun>>, NEW c \in Calls,
         pc[c] \in Leading \cup {"miss"}, pc'[c] \in Leading \cup {"wait"},
         \A d \in Calls : d # c => pc'[d] = pc[d] /\ res'[d] = res[d],
         \A k \in Keys : Newest(k)' = Newest(k)
  PROVE  UNCHANGED Promise!vars
<1>1. \A d \in Calls : Mode(pc'[d]) = Mode(pc[d]) /\ (pc[d] = "done" => res'[d] = res[d])
                      /\ (pc'[d] = "done" <=> pc[d] = "done")
  BY Modes
<1>2. mode' = mode
  BY <1>1 DEF mode
<1>3. answer' = answer
  BY <1>1 DEF answer
<1>4. current' = current
  BY DEF current
<1> QED
  BY <1>2, <1>3, <1>4 DEF Promise!vars

\* Joining or leading a flight, finding an entry in it, and storing its
\* result are steps that callers do not see.
LEMMA FlightIsUnseen ==
  ASSUME Inv, FlightsHoldEntries, NEW c \in Calls,
         Join(c) \/ Lead(c) \/ RecheckHit(c) \/ Store(c)
  PROVE  UNCHANGED Promise!vars
<1> USE ConstantsAssumption
<1>0. PICK k \in Keys : k = key[c]
  BY DEF Join, Lead, RecheckHit, Store, Step, Inv, TypeOK
<1>1. /\ pc[c] \in Leading \cup {"miss"} /\ pc'[c] \in Leading \cup {"wait"}
      /\ UNCHANGED <<now, key, begun>>
      /\ \A d \in Calls : d # c => pc'[d] = pc[d] /\ res'[d] = res[d]
      /\ \A j \in Keys : j # k => items'[j] = items[j] /\ flight'[j] = flight[j]
  BY <1>0 DEF Join, Lead, RecheckHit, Store, Set, Step, history, Inv, TypeOK
<1>2. \A j \in Keys : flight[j] = c => j = k
  BY <1>0 DEF Inv, FlightsAreLed
<1>3. \A j \in Keys : j # k => Newest(j)' = Newest(j)
  <2>1. SUFFICES ASSUME NEW j \in Keys, j # k PROVE Newest(j)' = Newest(j)
    OBVIOUS
  <2>2. flight[j] # None => flight[j] \in Calls /\ flight[j] # c
    BY <1>2, <2>1, Holders
  <2> QED
    BY <1>1, <2>1, <2>2, NewestStays
<1>4. Newest(k)' = Newest(k)
  <2>1. CASE Join(c)
    <3>1. flight[k] # c
      BY <1>0, <1>1, <2>1 DEF Join, Step, Inv, FlightsAreLed
    <3>2. UNCHANGED <<now, items, flight, res>>
      BY <2>1 DEF Join
    <3> QED
      BY <1>1, <3>1, <3>2, Holders, NewestStays
  <2>2. CASE Lead(c)
    <3>1. flight[k] = None /\ flight'[k] = c /\ pc'[c] = "recheck" /\ UNCHANGED <<now, items>>
      BY <1>0, <1>1, <2>2 DEF Lead, Step, Inv, TypeOK
    <3> QED
      BY <3>1 DEF Newest, Holds, Live
  <2>3. CASE RecheckHit(c)
    <3>1. /\ pc[c] = "recheck" /\ flight[k] = c /\ flight'[k] = c /\ Live(k)
          /\ pc'[c] = "finish" /\ res'[c] = items[k].val
      BY <1>0, <1>1, <2>3 DEF RecheckHit, Step, Inv, TypeOK, FlightsAreLed
    <3> QED
      BY <3>1 DEF Newest, Holds
  <2>4. CASE Store(c)
    <3>1. /\ pc[c] = "store" /\ flight[k] = c /\ flight'[k] = c
          /\ pc'[c] = "finish" /\ res'[c] = res[c]
      BY <1>0, <1>1, <2>4 DEF Store, Step, Inv, TypeOK, FlightsAreLed
    <3> QED
      BY <3>1 DEF Newest, Holds
  <2> QED
    BY <2>1, <2>2, <2>3, <2>4
<1> QED
  BY <1>1, <1>3, <1>4, Unseen

\* A fetch begins when no result is kept, and ends once.
LEMMA FetchIsSeen ==
  ASSUME Inv, FlightsHoldEntries, TypeOK', NEW c \in Calls,
         NEW kind \in Kinds \ {"none"}, NEW size,
         RecheckMiss(c) \/ FetchReturn(c, kind, size)
  PROVE  Promise!Next
<1> USE ConstantsAssumption
<1>0. PICK k \in Keys : k = key[c]
  BY DEF RecheckMiss, FetchReturn, Step, Inv, TypeOK
<1>1. /\ pc[c] \in {"recheck", "fetch"} /\ flight[k] = c
      /\ pc'[c] \in {"fetch", "store", "finish"}
      /\ UNCHANGED <<now, items, flight, key>>
      /\ \A d \in Calls : d # c => pc'[d] = pc[d] /\ res'[d] = res[d]
  BY <1>0 DEF RecheckMiss, FetchReturn, Step, Inv, TypeOK, FlightsAreLed
<1>2. mode' = mode /\ answer' = answer
  <2>1. \A d \in Calls : Mode(pc'[d]) = Mode(pc[d]) /\ (pc[d] = "done" => res'[d] = res[d])
                        /\ (pc'[d] = "done" <=> pc[d] = "done")
    BY <1>1, Modes
  <2> QED
    BY <2>1 DEF mode, answer
<1>3. \A j \in Keys : j # k => Newest(j)' = Newest(j)
  <2>1. SUFFICES ASSUME NEW j \in Keys, j # k PROVE Newest(j)' = Newest(j)
    OBVIOUS
  <2>2. flight[j] # None => flight[j] \in Calls /\ flight[j] # c
    BY <1>1, <2>1, Holders
  <2> QED
    BY <1>1, <2>1, <2>2, NewestStays
<1>4. current'[k] = res'[c] /\ current' = [current EXCEPT ![k] = res'[c]]
  <2>1. Newest(k)' = res'[c]
    BY <1>1 DEF Newest, Holds
  <2> QED
    BY <1>1, <1>3, <2>1 DEF current
<1>5. mode[c] = "waiting" /\ res'[c] \in Outcome
  BY <1>1, Modes DEF mode, TypeOK
<1>6. CASE RecheckMiss(c)
  <2>1. /\ ~Live(k) /\ pc[c] = "recheck" /\ begun' = [begun EXCEPT ![k] = @ + 1]
        /\ res'[c] = Result("none", begun[k] + 1, c, 0)
    BY <1>0, <1>6 DEF RecheckMiss, Step, Inv, TypeOK
  <2>2. current[k] = None
    BY <1>1, <2>1 DEF current, Newest, Holds
  <2>3. Promise!Becomes(k, "none", c, begun[k] + 1)
    BY <1>4, <1>5, <2>1 DEF Promise!Becomes, Result
  <2>4. Promise!Fetch(c)
    BY <1>0, <1>1, <1>2, <1>5, <2>1, <2>2, <2>3 DEF Promise!Fetch
  <2> QED
    BY <2>4 DEF Promise!Next
<1>7. CASE FetchReturn(c, kind, size)
  <2>1. /\ pc[c] = "fetch" /\ UNCHANGED begun
        /\ res'[c] = Result(kind, res[c].fid, c, size)
    BY <1>7 DEF FetchReturn, Step, history, Inv, TypeOK
  <2>2. current[k] = res[c] /\ res[c].kind = "none" /\ res[c].by = c /\ res[c] # None
    BY <1>1, <2>1, NoneIsNoOutcome DEF current, Newest, Holds, Inv, TypeOK, FlightsHoldEntries
  <2>3. Promise!Becomes(k, kind, current[k].by, current[k].fid)
    BY <1>4, <1>5, <2>1, <2>2 DEF Promise!Becomes, Result
  <2>4. Promise!Settle(k)
    BY <1>1, <1>2, <2>1, <2>2, <2>3 DEF Promise!Settle, Promise!Running
  <2> QED
    BY <1>1, <2>4 DEF Promise!Next
<1> QED
  BY <1>6, <1>7

\* What an uncached call's own fetch gives it is its answer.
LEMMA AloneIsSeen ==
  ASSUME Inv, TypeOK', NEW c \in Calls, NEW kind \in Kinds \ {"none"}, NEW size \in Sizes,
         DirectReturn(c, kind, size)
  PROVE  Promise!Next
<1>1. /\ pc[c] = "direct" /\ pc' = [pc EXCEPT ![c] = "done"]
      /\ UNCHANGED <<now, items, flight, key, begun>>
      /\ \A d \in Calls : d # c => res'[d] = res[d]
      /\ res'[c] \in Outcome /\ res'[c].by = c
  BY DEF DirectReturn, Result, history, Inv, TypeOK
<1>2. mode[c] = "alone" /\ mode' = [mode EXCEPT ![c] = "answered"]
  BY <1>1, Modes DEF mode, Inv, TypeOK
<1>3. answer'[c] = res'[c] /\ answer' = [answer EXCEPT ![c] = res'[c]]
  BY <1>1 DEF answer, Inv, TypeOK
<1>4. UNCHANGED current
  <2>1. \A j \in Keys : flight[j] # None => flight[j] \in Calls /\ flight[j] # c
    BY <1>1, Holders
  <2>2. \A j \in Keys : Newest(j)' = Newest(j)
    BY <1>1, <2>1, NewestStays DEF Inv, TypeOK
  <2> QED
    BY <2>2 DEF current
<1>5. Promise!AnswerAlone(c)
  BY <1>1, <1>2, <1>3, <1>4 DEF Promise!AnswerAlone
<1> QED
  BY <1>5 DEF Promise!Next

\* The end of a flight answers those who wait for it with the newest fetch,
\* which stays if its entry is live, and is forgotten with the flight if not.
LEMMA FinishIsSeen ==
  ASSUME Inv, FlightsHoldEntries, NEW c \in Calls, Finish(c)
  PROVE  Promise!Next
<1> USE ConstantsAssumption
<1>0. PICK k \in Keys : k = key[c]
  BY DEF Finish, Landed, Inv, TypeOK
<1> DEFINE C == {c} \cup Waiters(c)
<1>1. /\ pc[c] = "finish" /\ flight[k] = c /\ flight' = [flight EXCEPT ![k] = None]
      /\ UNCHANGED <<now, items, key, begun>>
      /\ pc' = [d \in Calls |-> IF d \in C THEN "done" ELSE pc[d]]
      /\ res' = [d \in Calls |-> IF d \in C THEN res[c] ELSE res[d]]
  BY <1>0 DEF Finish, Landed, Inv, TypeOK, FlightsAreLed
<1>2. C \subseteq Calls /\ C # {} /\ \A d \in C : pc[d] \in {"finish", "wait"} /\ key[d] = k
  BY <1>0, <1>1 DEF Waiters
<1>3. current[k] = res[c]
  BY <1>1 DEF current, Newest, Holds
<1>4. Promise!Kept(k) \/ Promise!Failed(k)
  BY <1>0, <1>1, <1>3, NoneIsNoOutcome
     DEF Promise!Kept, Promise!Failed, Inv, TypeOK, LeadersHoldNewest
<1> HIDE DEF C
<1>5. \A d \in C : mode[d] = "waiting" /\ key[d] = k
  BY <1>2, Modes DEF mode
<1>6. mode' = [d \in Calls |-> IF d \in C THEN "answered" ELSE mode[d]]
  BY <1>1, Modes DEF mode
<1>7. answer' = [d \in Calls |-> IF d \in C THEN current[k] ELSE answer[d]]
  BY <1>1, <1>3 DEF answer
<1>8. \A j \in Keys : j # k => Newest(j)' = Newest(j)
  <2>1. SUFFICES ASSUME NEW j \in Keys, j # k PROVE Newest(j)' = Newest(j)
    OBVIOUS
  <2>2. flight[j] # None =>
          flight[j] \in Calls /\ pc[flight[j]] \in Leading /\ key[flight[j]] = j
    BY Holders
  <2>3. flight[j] # None => flight[j] \notin C
    BY <1>2, <2>1, <2>2
  <2>4. flight'[j] = flight[j]
    BY <1>1, <2>1 DEF Inv, TypeOK
  <2> QED
    BY <1>1, <2>2, <2>3, <2>4, NewestStays
<1>9. flight'[k] = None
  BY <1>1 DEF Inv, TypeOK
<1>10. CASE Live(k)
  <2>1. Newest(k)' = items[k].val
    BY <1>1, <1>9, <1>10 DEF Newest, Holds, Live
  <2>2. Newest(k) = items[k].val /\ Newest(k) \in Outcome /\ Newest(k).kind = "bytes"
    BY <1>1, <1>10, LiveIsNewest
  <2>3. UNCHANGED current
    BY <1>8, <2>1, <2>2 DEF current
  <2>4. Promise!Kept(k)
    BY <1>1, <2>2, NoneIsNoOutcome DEF current, Promise!Kept
  <2>5. Promise!Answer(k, C)
    BY <1>1, <1>2, <1>4, <1>5, <1>6, <1>7, <2>3, <2>4 DEF Promise!Answer
  <2> QED
    BY <1>1, <1>2, <2>5 DEF Promise!Next
<1>11. CASE ~Live(k)
  <2>1. Newest(k)' = None
    BY <1>1, <1>9, <1>11 DEF Newest, Holds, Live
  <2>2. current' = [current EXCEPT ![k] = None]
    BY <1>1, <1>8, <2>1 DEF current
  <2>3. Promise!Answer(k, C)
    BY <1>1, <1>2, <1>4, <1>5, <1>6, <1>7, <2>2 DEF Promise!Answer
  <2> QED
    BY <1>1, <1>2, <2>3 DEF Promise!Next
<1> QED
  BY <1>10, <1>11

\* Every step of the cache is a step of its promise, or is not seen.
LEMMA PromiseStep ==
  Inv /\ FlightsHoldEntries /\ [Next]_vars => [Promise!Next]_(Promise!vars)
<1> SUFFICES ASSUME Inv, FlightsHoldEntries, [Next]_vars PROVE [Promise!Next]_(Promise!vars)
  OBVIOUS
<1>1. TypeOK' /\ TypeOK
  BY TypeStep DEF Inv
<1>2. CASE UNCHANGED vars
  <2>1. UNCHANGED <<now, items, flight, pc, key, res, begun>>
    BY <1>2 DEF vars, callState, history
  <2>2. UNCHANGED <<mode, answer, current>>
    BY <2>1 DEF mode, answer, current, Newest, Holds, Live
  <2> QED
    BY <2>1, <2>2 DEF Promise!vars
<1>3. ASSUME NEW k \in Keys, Delete(k) PROVE Promise!Next
  BY <1>1, <1>3, LosingIsForgetting DEF Delete, callState, history, TypeOK
<1>4. CASE Flush
  BY <1>1, <1>4, LosingIsForgetting DEF Flush, callState, history, TypeOK
<1>5. CASE Sweep
  BY <1>1, <1>5, LosingIsForgetting DEF Sweep, callState, history, TypeOK
<1>6. CASE Tick
  BY <1>1, <1>6, LosingIsForgetting DEF Tick, callState, history, TypeOK
<1>7. ASSUME NEW c \in Calls, Start(c) PROVE Promise!Next
  BY <1>7, LookupIsSeen DEF Start
<1>8. ASSUME NEW c \in Calls, Progress(c) PROVE [Promise!Next]_(Promise!vars)
  <2>1. CASE Join(c) \/ Lead(c) \/ RecheckHit(c) \/ Store(c)
    BY <2>1, FlightIsUnseen
  <2>2. CASE RecheckMiss(c)
    <3>1. "err" \in Kinds \ {"none"}
      OBVIOUS
    <3> QED
      BY <1>1, <2>2, <3>1, FetchIsSeen
  <2>3. ASSUME NEW kind \in Kinds \ {"none"}, NEW size \in Sizes,
               FetchReturn(c, kind, size) \/ DirectReturn(c, kind, size)
        PROVE  Promise!Next
    BY <1>1, <2>3, FetchIsSeen, AloneIsSeen
  <2>4. CASE Finish(c)
    BY <2>4, FinishIsSeen
  <2> QED
    BY <1>8, <2>1, <2>2, <2>3, <2>4 DEF Progress
<1> QED
  BY <1>2, <1>3, <1>4, <1>5, <1>6, <1>7, <1>8 DEF Next

\* An empty cache promises nothing yet.
LEMMA PromiseInit == Init => Promise!Init /\ FlightsHoldEntries
<1> SUFFICES ASSUME Init PROVE Promise!Init /\ FlightsHoldEntries
  OBVIOUS
<1>1. mode = [c \in Calls |-> "idle"] /\ answer = [c \in Calls |-> None]
  BY Modes DEF Init, mode, answer
<1>2. current = [k \in Keys |-> None]
  BY DEF Init, current, Newest, Holds, Live
<1> QED
  BY <1>1, <1>2 DEF Init, Promise!Init, FlightsHoldEntries

\* For any calls, keys, results and interleavings, callers of the cache see
\* what ReadThrough allows: MemoryCache implements it.
THEOREM PromiseIsKept == Spec => KeepsPromise
<1>1. Spec => []FlightsHoldEntries
  BY Invariance, HoldStep, PromiseInit, PTL DEF Spec
<1> QED
  BY <1>1, Invariance, PromiseInit, PromiseStep, PTL DEF Spec, KeepsPromise, Promise!Spec
=============================================================================
