---------------------- MODULE SchemaDatasourceProofs ----------------------
(* Proofs, for every value of the constants, that a SchemaDatasource uses  *)
(* its cache as MemoryCache allows, answers a request at most once, and    *)
(* serves nobody a response that was produced for another cache key.       *)
EXTENDS SchemaDatasource, FiniteSetTheorems, TLAPS

\* The theorems about MemoryCache, for the cache of this datasource.
Proved == INSTANCE MemoryCacheProofs
  WITH Calls <- Requests, Keys <- CacheKeys, TTLs <- CacheTTLs,
       MaxValueBytes <- Memory.maxValueBytes

\* The lemmas about cache keys, for the requests that have one.
KeyProofs == INSTANCE CacheKeyProofs
  WITH Requests <- Cached, first <- None, second <- None, scope <- None

----------------------------------------------------------------------------
(* The cache of this datasource is the one those theorems are about.       *)

\* Step by step, the two instances are one specification.
LEMMA SameSteps ==
  /\ Cache!Init <=> Proved!Init
  /\ [Cache!Next]_(Cache!vars) <=> [Proved!Next]_(Proved!vars)
<1> USE DEF Cache!Result, Proved!Result, Cache!NoOutcome, Proved!NoOutcome,
        Cache!Kinds, Proved!Kinds, Cache!Failures, Proved!Failures,
        Cache!history, Proved!history, Cache!counters, Proved!counters,
        Cache!callState, Proved!callState, Cache!vars, Proved!vars,
        Cache!Live, Proved!Live, Cache!Expired, Proved!Expired, Cache!Closed, Proved!Closed,
        Cache!Begin, Proved!Begin, Cache!Note, Proved!Note, Cache!Step, Proved!Step, Cache!Set, Proved!Set
<1>1. Cache!Init <=> Proved!Init
  BY DEF Cache!Init, Proved!Init
<1>2. ASSUME NEW c \in Requests, NEW k \in CacheKeys, NEW t \in CacheTTLs
      PROVE  /\ Cache!Bypass(c, k, t) <=> Proved!Bypass(c, k, t)
             /\ Cache!Hit(c, k, t) <=> Proved!Hit(c, k, t)
             /\ Cache!Miss(c, k, t) <=> Proved!Miss(c, k, t)
  BY DEF Cache!Bypass, Proved!Bypass, Cache!Hit, Proved!Hit, Cache!Miss, Proved!Miss
<1>3. ASSUME NEW c \in Requests
      PROVE  /\ Cache!Join(c) <=> Proved!Join(c)
             /\ Cache!Lead(c) <=> Proved!Lead(c)
             /\ Cache!RecheckHit(c) <=> Proved!RecheckHit(c)
             /\ Cache!RecheckMiss(c) <=> Proved!RecheckMiss(c)
             /\ Cache!Store(c) <=> Proved!Store(c)
             /\ Cache!Finish(c) <=> Proved!Finish(c)
  BY DEF Cache!Join, Proved!Join, Cache!Lead, Proved!Lead, Cache!RecheckHit, Proved!RecheckHit,
         Cache!RecheckMiss, Proved!RecheckMiss, Cache!Store, Proved!Store, Cache!Finish, Proved!Finish, Cache!Landed, Proved!Landed, Cache!Waiters, Proved!Waiters
<1>4. ASSUME NEW c \in Requests, NEW kind \in Cache!Kinds, NEW size \in Sizes
      PROVE  /\ Cache!FetchReturn(c, kind, size) <=> Proved!FetchReturn(c, kind, size)
             /\ Cache!DirectReturn(c, kind, size) <=> Proved!DirectReturn(c, kind, size)
  BY DEF Cache!FetchReturn, Proved!FetchReturn, Cache!DirectReturn, Proved!DirectReturn
<1>5. \A k \in CacheKeys : Cache!Delete(k) <=> Proved!Delete(k)
  BY DEF Cache!Delete, Proved!Delete
<1>6. (Cache!Flush <=> Proved!Flush) /\ (Cache!Tick <=> Proved!Tick)
  BY DEF Cache!Flush, Proved!Flush, Cache!Tick, Proved!Tick
<1>7. Cache!Sweep <=> Proved!Sweep
  BY DEF Cache!Sweep, Proved!Sweep, Cache!Cardinality, Proved!Cardinality
<1>8. ASSUME NEW c \in Requests
      PROVE (Cache!Start(c) <=> Proved!Start(c)) /\ (Cache!Progress(c) <=> Proved!Progress(c))
  BY <1>2, <1>3, <1>4 DEF Cache!Start, Proved!Start, Cache!Progress, Proved!Progress
<1>9. Cache!Next <=> Proved!Next
  BY <1>5, <1>6, <1>7, <1>8 DEF Cache!Next, Proved!Next
<1> QED
  BY <1>1, <1>9

\* They have one type invariant,
LEMMA SameTypes == Cache!TypeOK <=> Proved!TypeOK
BY DEF Cache!TypeOK, Proved!TypeOK, Cache!Entry, Proved!Entry, Cache!Outcome, Proved!Outcome,
       Cache!Kinds, Proved!Kinds, Cache!Failures, Proved!Failures,
       Cache!Places, Proved!Places, Cache!Leading, Proved!Leading

\* and the same behaviours.
LEMMA SameCache == Cache!Spec <=> Proved!Spec
BY SameSteps, PTL DEF Cache!Spec, Proved!Spec

\* The options resolve to what the cache is assumed to be given.
LEMMA CacheAssumption == Proved!ConstantsAssumption /\ Proved!NoneIsNoOutcome
<1> USE ConfigurationAssumption
<1>1. IsFiniteSet(CacheKeys)
  <2>1. IsFiniteSet(Cached)
    BY FS_Subset DEF Cached
  <2> QED
    <3>1. [i \in Cached |-> KeyOf(i)] \in Surjection(Cached, CacheKeys)
      BY DEF Surjection, CacheKeys
    <3> QED
      BY <2>1, <3>1, FS_Surjection
<1>2. CacheTTLs \subseteq Nat
  <2>1. \A e : TTLFor(cfg, e) \in Int
    BY DEF TTLFor, cfg, Resolve, OptionsType, DefaultTTL
  <2> QED
    BY <2>1 DEF CacheTTLs, Cached, UsesCache, Cacheable
<1>3. Memory.maxValueBytes \in Nat
  BY DEF Memory, NewMemory, cfg, Resolve, OptionsType, DefaultCache
<1>4. None \notin Proved!Entry /\ None \notin Proved!Outcome
  BY NoneIsNoEntry DEF Cache!Entry, Proved!Entry, Cache!Outcome, Proved!Outcome,
     Cache!Kinds, Proved!Kinds, Cache!Failures, Proved!Failures
<1> QED
  BY <1>1, <1>2, <1>3, <1>4 DEF Proved!ConstantsAssumption, Proved!NoneIsNoOutcome, Proved!IsFiniteSet, IsFiniteSet
----------------------------------------------------------------------------
(* The datasource refines its cache.                                       *)

\* A call of the cache in a step of the datasource is for a key it has.
LEMMA CachedInput ==
  ASSUME NEW i \in Cached
  PROVE  /\ KeyOf(i) \in CacheKeys
         /\ TTLFor(cfg, i.path) \in CacheTTLs /\ TTLFor(cfg, i.path) > 0
BY DEF CacheKeys, CacheTTLs, Cached, UsesCache, Cacheable

\* dispatch sends one status at most, and returns nil if it sends one.
LEMMA DispatchedKinds ==
  ASSUME NEW path, NEW d \in Dispatched(path)
  PROVE  /\ d.kind \in Cache!Kinds \ {"none"}
         /\ \/ d.sends = <<>>
            \/ d.kind = "nil" /\ \E status \in Statuses : d.sends = <<status>>
BY DEF Dispatched, Refusal, Cache!Kinds, Cache!Failures, Statuses

\* Every step of the datasource is a step of its cache, or leaves it alone.
LEMMA CacheStepOrStutter == PlacesAgree /\ [Next]_vars => [Cache!Next]_(Cache!vars)
<1> SUFFICES ASSUME PlacesAgree, [Next]_vars PROVE [Cache!Next]_(Cache!vars)
  OBVIOUS
<1>1. UNCHANGED cacheVars => UNCHANGED Cache!vars
  BY DEF cacheVars, Cache!vars, Cache!callState, Cache!counters, Cache!history
<1>2. CASE UNCHANGED vars
  BY <1>1, <1>2 DEF vars
<1>3. ASSUME NEW r \in Requests, NEW i \in Inputs, Receive(r, i) PROVE UNCHANGED Cache!vars
  BY <1>1, <1>3 DEF Receive
<1>4. ASSUME NEW r \in Requests, Progress(r) PROVE [Cache!Next]_(Cache!vars)
  <2>1. CASE NotFound(r) \/ AllowRefresh(r) \/ Reply(r) \/ DirectReply(r)
    BY <1>1, <2>1 DEF NotFound, AllowRefresh, Reply, DirectReply
  <2>2. CASE DeleteEntry(r)
    <3>1. KeyOf(in[r]) \in CacheKeys
      BY <2>2, CachedInput DEF DeleteEntry, Goes, PlacesAgree
    <3> QED
      BY <2>2, <3>1 DEF DeleteEntry, Cache!Next
  <2>3. CASE Lookup(r)
    <3>1. KeyOf(in[r]) \in CacheKeys /\ TTLFor(cfg, in[r].path) \in CacheTTLs
      BY <2>3, CachedInput DEF Lookup, Goes, PlacesAgree
    <3> QED
      BY <2>3, <3>1 DEF Lookup, Cache!Next, Cache!Start
  <2>4. CASE CacheStep(r)
    BY <2>4 DEF CacheStep, Cache!Next, Cache!Progress
  <2>5. CASE Dispatch(r)
    <3>1. PICK d \in Dispatched(in[r].path), size \in Sizes : Cache!FetchReturn(r, d.kind, size)
      BY <2>5 DEF Dispatch
    <3> QED
      BY <3>1, DispatchedKinds DEF Cache!Next, Cache!Progress
  <2> QED
    BY <1>4, <2>1, <2>2, <2>3, <2>4, <2>5 DEF Progress
<1>5. CASE Sweep \/ Tick
  BY <1>5 DEF Sweep, Tick, Cache!Next
<1> QED
  BY <1>2, <1>3, <1>4, <1>5 DEF Next
----------------------------------------------------------------------------
(* The inductive invariant.                                                *)

\* The cache's own step keeps its variables in their types.
LEMMA CacheTypeStep == Cache!TypeOK /\ [Cache!Next]_(Cache!vars) => Cache!TypeOK'
<1>1. Cache!TypeOK' <=> Proved!TypeOK'
  BY SameTypes, PTL
<1> QED
  BY <1>1, SameTypes, SameSteps, CacheAssumption, Proved!TypeStep

\* Only what goes through the cache is looked up or refreshed.
LEMMA RouteType ==
  ASSUME NEW i \in Inputs
  PROVE  /\ Route(i) \in {"forwarded", "missing", "rejected", "direct", "refresh", "lookup"}
         /\ Route(i) \in {"refresh", "lookup"} => i \in Cached
BY DEF Route, Cached

\* Statuses are appended one at a time.
LEMMA Appending ==
  /\ <<>> \in Seq(Statuses) /\ Len(<<>>) = 0
  /\ \A s \in Statuses : <<s>> \in Seq(Statuses) /\ Len(<<s>>) = 1
  /\ \A s \in Seq(Statuses), t \in Seq(Statuses) :
       s \o t \in Seq(Statuses) /\ Len(s \o t) = Len(s) + Len(t)
OBVIOUS

\* Two lists of at most one status, one of them empty, make one of at most one.
LEMMA OneOfTwo ==
  ASSUME NEW s \in Seq(Statuses), NEW t \in Seq(Statuses),
         Len(s) <= 1, Len(t) <= 1, Len(s) = 0 \/ Len(t) = 0
  PROVE  s \o t \in Seq(Statuses) /\ Len(s \o t) <= 1
BY Appending

\* What dispatch sends, and what is sent after it, is at most one status.
LEMMA Sends ==
  /\ \A path : \A d \in Dispatched(path) :
       /\ d.sends \in Seq(Statuses) /\ Len(d.sends) <= 1
       /\ d.kind # "nil" => d.sends = <<>> /\ Len(d.sends) = 0
  /\ \A kind : \A e \in Endings(kind) :
       /\ e.ret \in {"ok", "err"}
       /\ e.sends \in Seq(Statuses) /\ Len(e.sends) <= 1
       /\ kind = "nil" => Len(e.sends) = 0
<1>1. ASSUME NEW path, NEW d \in Dispatched(path)
      PROVE  /\ d.sends \in Seq(Statuses) /\ Len(d.sends) <= 1
             /\ d.kind # "nil" => d.sends = <<>> /\ Len(d.sends) = 0
  <2>1. CASE d.sends = <<>>
    BY <2>1, Appending
  <2>2. ASSUME NEW status \in Statuses, d.sends = <<status>>, d.kind = "nil"
        PROVE  d.sends \in Seq(Statuses) /\ Len(d.sends) <= 1
    BY <2>2, Appending
  <2> QED
    BY <2>1, <2>2, DispatchedKinds
<1>2. ASSUME NEW kind, NEW e \in Endings(kind)
      PROVE  /\ e.ret \in {"ok", "err"}
             /\ e.sends \in Seq(Statuses) /\ Len(e.sends) <= 1
             /\ kind = "nil" => Len(e.sends) = 0
  <2>1. /\ e.ret \in {"ok", "err"}
        /\ e.sends = <<>> \/ (kind # "nil" /\ e.sends = <<200>>)
    BY DEF Endings
  <2>2. CASE e.sends = <<>>
    BY <2>1, <2>2, Appending
  <2>3. CASE kind # "nil" /\ e.sends = <<200>>
    <3>1. <<200>> \in Seq(Statuses) /\ Len(<<200>>) = 1
      BY Appending DEF Statuses
    <3> QED
      BY <2>1, <2>3, <3>1
  <2> QED
    BY <2>1, <2>2, <2>3
<1> QED
  BY <1>1, <1>2

\* Every step keeps the variables in their types.
LEMMA TypeStep == TypeOK /\ PlacesAgree /\ [Next]_vars => TypeOK'
<1> SUFFICES ASSUME TypeOK, PlacesAgree, [Next]_vars PROVE TypeOK'
  OBVIOUS
<1> USE ConfigurationAssumption DEF Places, Ended
<1>1. Cache!TypeOK'
  BY CacheTypeStep, CacheStepOrStutter DEF TypeOK
<1>2. now \in Nat /\ begun \in [CacheKeys -> Nat]
  BY DEF TypeOK, Cache!TypeOK
<1>3. CASE UNCHANGED vars
  BY <1>1, <1>3 DEF TypeOK, vars, requestVars, refreshVars
<1>4. ASSUME NEW r \in Requests, NEW i \in Inputs, Receive(r, i) PROVE TypeOK'
  BY <1>1, <1>4, RouteType DEF TypeOK, Receive, Goes, refreshVars
<1>5. ASSUME NEW r \in Requests, NEW from \in Places \ {"idle"},
             NEW statuses \in Seq(Statuses), NEW result \in {"ok", "err"}, End(r, from, statuses, result)
      PROVE  TypeOK'
  <2>1. sent' \in [Requests -> Seq(Statuses)]
    BY <1>5, Appending DEF End, TypeOK
  <2>2. at' \in [Requests -> Places] /\ ret' \in [Requests -> {"none", "ok", "err"}]
    BY <1>5 DEF End, Goes, TypeOK
  <2>3. \A q \in Requests : at'[q] # "idle" => in'[q] \in Inputs
    BY <1>5 DEF End, Goes, TypeOK
  <2> QED
    BY <1>1, <1>5, <2>1, <2>2, <2>3 DEF End, TypeOK, refreshVars
<1>6. ASSUME NEW r \in Requests, Progress(r) PROVE TypeOK'
  <2>1. CASE NotFound(r)
    <3>1. <<404>> \in Seq(Statuses) /\ <<>> \in Seq(Statuses)
      BY Appending DEF Statuses
    <3> QED
      BY <1>5, <2>1, <3>1 DEF NotFound
  <2>2. CASE AllowRefresh(r)
    <3>1. in[r] \in Inputs /\ Bucket(in[r]) \in Buckets
      BY <2>2 DEF AllowRefresh, Goes, TypeOK, Buckets
    <3> QED
      BY <1>1, <1>2, <2>2, <3>1 DEF AllowRefresh, Goes, TypeOK, requestVars
  <2>3. CASE DeleteEntry(r)
    <3>1. KeyOf(in[r]) \in CacheKeys
      BY <2>3, CachedInput DEF DeleteEntry, Goes, PlacesAgree
    <3> QED
      BY <1>1, <1>2, <2>3, <3>1 DEF DeleteEntry, Goes, TypeOK, requestVars
  <2>4. CASE Lookup(r)
    BY <1>1, <2>4 DEF Lookup, Goes, TypeOK, requestVars, refreshVars
  <2>5. CASE CacheStep(r)
    BY <1>1, <2>5 DEF CacheStep, TypeOK, requestVars, refreshVars
  <2>6. CASE Dispatch(r)
    <3>1. PICK d \in Dispatched(in[r].path) : sent' = [sent EXCEPT ![r] = @ \o d.sends]
      BY <2>6 DEF Dispatch
    <3>2. d.sends \in Seq(Statuses)
      BY Sends
    <3>3. sent' \in [Requests -> Seq(Statuses)]
      BY <3>1, <3>2, Appending DEF TypeOK
    <3> QED
      BY <1>1, <2>6, <3>3 DEF Dispatch, TypeOK, refreshVars
  <2>7. CASE Reply(r)
    <3>1. PICK e \in Endings(res[r].kind) : End(r, "cache", e.sends, e.ret)
      BY <2>7 DEF Reply
    <3>2. e.sends \in Seq(Statuses) /\ e.ret \in {"ok", "err"}
      BY Sends
    <3> QED
      BY <1>5, <3>1, <3>2
  <2>8. CASE DirectReply(r)
    <3>1. PICK d \in Dispatched(in[r].path) :
            \E e \in Endings(d.kind) : End(r, "direct", d.sends \o e.sends, e.ret)
      BY <2>8 DEF DirectReply
    <3>2. PICK e \in Endings(d.kind) : End(r, "direct", d.sends \o e.sends, e.ret)
      BY <3>1
    <3>3. d.sends \in Seq(Statuses) /\ e.sends \in Seq(Statuses) /\ e.ret \in {"ok", "err"}
      BY Sends
    <3>4. d.sends \o e.sends \in Seq(Statuses)
      BY <3>3, Appending
    <3> QED
      BY <1>5, <3>2, <3>3, <3>4
  <2> QED
    BY <1>6, <2>1, <2>2, <2>3, <2>4, <2>5, <2>6, <2>7, <2>8 DEF Progress
<1>7. CASE Sweep \/ Tick
  BY <1>1, <1>7 DEF Sweep, Tick, TypeOK, requestVars, refreshVars
<1> QED
  BY <1>3, <1>4, <1>6, <1>7 DEF Next

\* A step of GetOrFetchBytes moves a call that is neither idle nor done, and
\* with the last of them those that wait for it.
LEMMA CallMoves ==
  ASSUME TypeOK, NEW r \in Requests,
         \/ CacheStep(r)
         \/ \E kind, size : Cache!FetchReturn(r, kind, size)
  PROVE  /\ key' = key
         /\ \A q \in Requests :
              \/ pc'[q] = pc[q] /\ res'[q] = res[q]
              \/ pc[q] # "idle" /\ pc[q] # "done" /\ pc'[q] # "idle" /\ pc'[q] # "direct"
<1> USE DEF TypeOK, Cache!TypeOK, Cache!Step
<1>1. CASE CacheStep(r)
  <2>1. CASE Cache!Join(r) \/ Cache!Lead(r) \/ Cache!RecheckHit(r) \/ Cache!RecheckMiss(r) \/ Cache!Store(r)
    BY <2>1 DEF Cache!Join, Cache!Lead, Cache!RecheckHit, Cache!RecheckMiss, Cache!Store
  <2>2. CASE Cache!Finish(r)
    BY <2>2 DEF Cache!Finish, Cache!Landed, Cache!Waiters
  <2> QED
    BY <1>1, <2>1, <2>2 DEF CacheStep
<1>2. ASSUME NEW kind, NEW size, Cache!FetchReturn(r, kind, size)
      PROVE  /\ key' = key
             /\ \A q \in Requests :
                  \/ pc'[q] = pc[q] /\ res'[q] = res[q]
                  \/ pc[q] # "idle" /\ pc[q] # "done" /\ pc'[q] # "idle" /\ pc'[q] # "direct"
  BY <1>2 DEF Cache!FetchReturn
<1> QED
  BY <1>1, <1>2

\* Every step keeps the request's place and its call's place together.
LEMMA PlacesStep == TypeOK /\ PlacesAgree /\ [Next]_vars => PlacesAgree'
<1> SUFFICES ASSUME TypeOK, PlacesAgree, [Next]_vars PROVE PlacesAgree'
  OBVIOUS
<1> USE DEF PlacesAgree
<1>1. CASE UNCHANGED vars
  BY <1>1 DEF vars, cacheVars, requestVars
<1>2. ASSUME NEW r \in Requests, NEW i \in Inputs, Receive(r, i) PROVE PlacesAgree'
  BY <1>2, RouteType DEF Receive, Goes, TypeOK, cacheVars
<1>3. ASSUME NEW r \in Requests, Progress(r) PROVE PlacesAgree'
  <2>1. CASE NotFound(r)
    BY <2>1 DEF NotFound, End, Goes, TypeOK, cacheVars
  <2>2. CASE AllowRefresh(r)
    BY <2>2 DEF AllowRefresh, Goes, TypeOK, cacheVars, requestVars
  <2>3. CASE DeleteEntry(r)
    BY <2>3 DEF DeleteEntry, Goes, TypeOK, requestVars, Cache!Delete, Cache!callState
  <2>4. CASE Lookup(r)
    <3>1. at[r] = "lookup" /\ at' = [at EXCEPT ![r] = "cache"] /\ in' = in
      BY <2>4 DEF Lookup, Goes, requestVars
    <3>2. /\ key' = [key EXCEPT ![r] = KeyOf(in[r])]
          /\ pc' = [pc EXCEPT ![r] = "done"] \/ pc' = [pc EXCEPT ![r] = "miss"]
      BY <2>4 DEF Lookup, Cache!Hit, Cache!Miss, Cache!Begin
    <3> QED
      BY <3>1, <3>2 DEF TypeOK, Cache!TypeOK
  <2>5. CASE CacheStep(r)
    BY <2>5, CallMoves DEF CacheStep, requestVars
  <2>6. CASE Dispatch(r)
    BY <2>6, CallMoves DEF Dispatch
  <2>7. CASE Reply(r)
    BY <2>7 DEF Reply, End, Goes, TypeOK, cacheVars
  <2>8. CASE DirectReply(r)
    BY <2>8 DEF DirectReply, End, Goes, TypeOK, cacheVars
  <2> QED
    BY <1>3, <2>1, <2>2, <2>3, <2>4, <2>5, <2>6, <2>7, <2>8 DEF Progress
<1>4. CASE Sweep
  BY <1>4 DEF Sweep, Cache!Sweep, Cache!callState, requestVars
<1>5. CASE Tick
  BY <1>5 DEF Tick, Cache!Tick, Cache!callState, requestVars
<1> QED
  BY <1>1, <1>2, <1>3, <1>4, <1>5 DEF Next

\* An outcome that a call is about to return is the one it returns.
LEMMA OutcomesStay ==
  ASSUME TypeOK, NEW r \in Requests, CacheStep(r), NEW q \in Requests,
         pc[q] \in {"finish", "done"}
  PROVE  pc'[q] \in {"finish", "done"} /\ res'[q] = res[q]
BY DEF CacheStep, Cache!Join, Cache!Lead, Cache!RecheckHit, Cache!RecheckMiss,
   Cache!Store, Cache!Finish, Cache!Landed, Cache!Waiters, TypeOK, Cache!TypeOK, Cache!Step

\* Whoever has been answered ends without a second response.
LEMMA LastReply ==
  ASSUME TypeOK, RepliesAgree, AtMostOneReply,
         NEW r \in Requests, NEW from, NEW statuses \in Seq(Statuses), NEW result,
         End(r, from, statuses, result), UNCHANGED cacheVars,
         Len(statuses) <= 1,
         sent[r] = <<>> \/ Len(statuses) = 0
  PROVE  RepliesAgree' /\ AtMostOneReply'
<1>1. Len(sent[r]) + Len(statuses) <= 1
  <2>1. CASE sent[r] = <<>>
    BY <2>1, Appending
  <2>2. CASE Len(statuses) = 0
    BY <2>2 DEF AtMostOneReply, TypeOK
  <2> QED
    BY <2>1, <2>2
<1>2. Len(sent[r] \o statuses) <= 1
  BY <1>1, Appending DEF TypeOK
<1>3. sent' = [sent EXCEPT ![r] = @ \o statuses] /\ at' = [at EXCEPT ![r] = "done"]
  BY DEF End, Goes
<1>4. AtMostOneReply'
  BY <1>2, <1>3 DEF AtMostOneReply, TypeOK
<1>5. RepliesAgree'
  BY <1>3 DEF RepliesAgree, TypeOK, cacheVars, End, Goes
<1> QED
  BY <1>4, <1>5

\* Every step keeps count of the responses: none is sent after one was.
LEMMA RepliesStep ==
  TypeOK /\ PlacesAgree /\ RepliesAgree /\ AtMostOneReply /\ [Next]_vars
    => RepliesAgree' /\ AtMostOneReply'
<1> SUFFICES ASSUME TypeOK, PlacesAgree, RepliesAgree, AtMostOneReply, [Next]_vars
             PROVE  RepliesAgree' /\ AtMostOneReply'
  OBVIOUS
<1>1. CASE UNCHANGED vars
  BY <1>1 DEF RepliesAgree, AtMostOneReply, vars, cacheVars, requestVars
<1>2. ASSUME NEW r \in Requests, NEW i \in Inputs, Receive(r, i)
      PROVE  RepliesAgree' /\ AtMostOneReply'
  BY <1>2, RouteType DEF RepliesAgree, AtMostOneReply, Receive, Goes, TypeOK, cacheVars
<1>3. ASSUME NEW r \in Requests, Progress(r) PROVE RepliesAgree' /\ AtMostOneReply'
  <2>1. CASE NotFound(r)
    <3>1. sent[r] = <<>> /\ UNCHANGED cacheVars
      BY <2>1 DEF NotFound, End, Goes, RepliesAgree
    <3>2. \A status \in Statuses : <<status>> \in Seq(Statuses) /\ Len(<<status>>) <= 1
      BY Appending
    <3>3. <<>> \in Seq(Statuses) /\ Len(<<>>) <= 1
      BY Appending
    <3>4. 404 \in Statuses
      BY DEF Statuses
    <3>5. CASE End(r, "missing", <<404>>, "ok")
      BY <3>1, <3>2, <3>4, <3>5, LastReply
    <3>6. CASE End(r, "missing", <<>>, "err")
      BY <3>1, <3>3, <3>6, LastReply
    <3> QED
      BY <2>1, <3>5, <3>6 DEF NotFound
  <2>2. CASE AllowRefresh(r)
    BY <2>2 DEF RepliesAgree, AtMostOneReply, AllowRefresh, Goes, TypeOK, cacheVars, requestVars
  <2>3. CASE DeleteEntry(r)
    BY <2>3 DEF RepliesAgree, AtMostOneReply, DeleteEntry, Goes, TypeOK, requestVars, Cache!Delete, Cache!callState
  <2>4. CASE Lookup(r)
    <3>1. at[r] = "lookup" /\ at' = [at EXCEPT ![r] = "cache"] /\ sent' = sent
      BY <2>4 DEF Lookup, Goes, requestVars
    <3>2. \A q \in Requests : q # r => pc'[q] = pc[q] /\ res'[q] = res[q]
      BY <2>4 DEF Lookup, Cache!Hit, Cache!Miss, Cache!Begin, TypeOK, Cache!TypeOK
    <3> QED
      BY <3>1, <3>2 DEF RepliesAgree, AtMostOneReply, TypeOK
  <2>5. CASE CacheStep(r)
    BY <2>5, OutcomesStay DEF RepliesAgree, AtMostOneReply, CacheStep, requestVars
  <2>6. CASE Dispatch(r)
    <3>1. PICK d \in Dispatched(in[r].path), size \in Sizes :
            /\ Cache!FetchReturn(r, d.kind, size)
            /\ sent' = [sent EXCEPT ![r] = @ \o d.sends]
      BY <2>6 DEF Dispatch
    <3>2. sent[r] = <<>> /\ at' = at /\ at[r] = "cache"
      BY <2>6, <3>1 DEF RepliesAgree, Dispatch, Cache!FetchReturn, Cache!Step
    <3>3. sent' = [sent EXCEPT ![r] = d.sends]
      BY <3>1, <3>2, Sends DEF TypeOK
    <3>4. d.sends = <<>> \/ (d.kind = "nil" /\ pc'[r] = "finish" /\ res'[r].kind = "nil")
      BY <3>1, Sends DEF Cache!FetchReturn, Cache!Step, Cache!Result, TypeOK, Cache!TypeOK
    <3>5. \A q \in Requests : q # r => pc'[q] = pc[q] /\ res'[q] = res[q]
      BY <3>1 DEF Cache!FetchReturn, Cache!Step, TypeOK, Cache!TypeOK
    <3> QED
      BY <3>2, <3>3, <3>4, <3>5, Sends DEF RepliesAgree, AtMostOneReply, TypeOK
  <2>7. CASE Reply(r)
    <3>1. PICK e \in Endings(res[r].kind) : End(r, "cache", e.sends, e.ret)
      BY <2>7 DEF Reply
    <3>2. sent[r] = <<>> \/ Len(e.sends) = 0
      BY <3>1, Sends DEF RepliesAgree, End, Goes
    <3> QED
      BY <2>7, <3>1, <3>2, Sends, LastReply DEF Reply
  <2>8. CASE DirectReply(r)
    <3>1. PICK d \in Dispatched(in[r].path) :
            \E e \in Endings(d.kind) : End(r, "direct", d.sends \o e.sends, e.ret)
      BY <2>8 DEF DirectReply
    <3>2. PICK e \in Endings(d.kind) : End(r, "direct", d.sends \o e.sends, e.ret)
      BY <3>1
    <3>3. d.sends \o e.sends \in Seq(Statuses) /\ Len(d.sends \o e.sends) <= 1
      <4>1. /\ d.sends \in Seq(Statuses) /\ e.sends \in Seq(Statuses)
            /\ Len(d.sends) <= 1 /\ Len(e.sends) <= 1
        BY Sends
      <4>2. Len(d.sends) = 0 \/ Len(e.sends) = 0
        BY Sends, Appending
      <4> QED
        BY <4>1, <4>2, OneOfTwo
    <3>4. sent[r] = <<>> /\ UNCHANGED cacheVars
      BY <2>8 DEF DirectReply, RepliesAgree
    <3> QED
      BY <3>2, <3>3, <3>4, LastReply
  <2> QED
    BY <1>3, <2>1, <2>2, <2>3, <2>4, <2>5, <2>6, <2>7, <2>8 DEF Progress
<1>4. CASE Sweep
  BY <1>4 DEF RepliesAgree, AtMostOneReply, Sweep, Cache!Sweep, Cache!callState, requestVars
<1>5. CASE Tick
  BY <1>5 DEF RepliesAgree, AtMostOneReply, Tick, Cache!Tick, Cache!callState, requestVars
<1> QED
  BY <1>1, <1>2, <1>3, <1>4, <1>5 DEF Next

\* A new datasource, with its new cache, satisfies the invariant.
LEMMA InvInit == Init => Inv
<1> SUFFICES ASSUME Init PROVE Inv
  OBVIOUS
<1>1. Cache!TypeOK
  BY SameSteps, SameTypes, CacheAssumption, Proved!TypeInit DEF Init
<1>2. TypeOK
  BY <1>1, Appending DEF Init, TypeOK, Places
<1>3. PlacesAgree /\ RepliesAgree
  BY DEF Init, Cache!Init, PlacesAgree, RepliesAgree
<1>4. AtMostOneReply
  BY Appending DEF Init, AtMostOneReply
<1> QED
  BY <1>2, <1>3, <1>4 DEF Inv

\* Every step of the datasource keeps the invariant.
LEMMA InvStep == Inv /\ [Next]_vars => Inv'
BY TypeStep, PlacesStep, RepliesStep DEF Inv

\* Places, keys, flights, responses and the limiter agree in every state.
THEOREM Invariance == Spec => []Inv
BY InvInit, InvStep, PTL DEF Spec

----------------------------------------------------------------------------
(* What a reader should know of.                                           *)

\* Every variable stays within its type, those of the cache included.
THEOREM TypeCorrect == Spec => []TypeOK
<1>1. Inv => TypeOK
  BY DEF Inv
<1> QED
  BY <1>1, Invariance, PTL

\* A request is answered at most once, whatever dispatch sent by itself
\* (datasource.go:179-194, 198-254).
THEOREM AnsweredAtMostOnce == Spec => []AtMostOneReply
<1>1. Inv => AtMostOneReply
  BY DEF Inv
<1> QED
  BY <1>1, Invariance, PTL

\* The datasource implements its cache: however requests are routed, refreshed
\* and answered, its steps are steps of MemoryCache (datasource.go:150-180).
THEOREM UsesCacheAsAllowed == Spec => CacheSpec
<1>1. Init => Cache!Init
  BY DEF Init
<1>2. Inv /\ [Next]_vars => [Cache!Next]_(Cache!vars)
  BY CacheStepOrStutter DEF Inv
<1> QED
  BY <1>1, <1>2, Invariance, PTL DEF Spec, CacheSpec, Cache!Spec

\* So a key has one handler running at most, whatever requests come together
\* and whichever of them delete its entry (README.md, "Caching").
THEOREM OneHandlerPerKey == Spec => []Cache!OneFetchPerKey
<1>1. Proved!OneFetchPerKey <=> Cache!OneFetchPerKey
  BY DEF Proved!OneFetchPerKey, Cache!OneFetchPerKey
<1> QED
  BY <1>1, UsesCacheAsAllowed, SameCache, CacheAssumption, Proved!Coalescing, PTL DEF CacheSpec

\* So requests are answered as if there were no store, no expiry and no
\* flights: each is given the newest fetch of its key as it stands when it
\* returns, a refresh forgets what is kept and no more, and a failure is told
\* once (datasource.go:150-180, memory.go:173-178).
THEOREM RequestsSeeThePromise == Spec => Proved!KeepsPromise
BY UsesCacheAsAllowed, SameCache, CacheAssumption, Proved!PromiseIsKept, PTL DEF CacheSpec

\* The requests with a key are as those lemmas have them,
LEMMA KeyAssumption == KeyProofs!RequestsAssumption
<1>1. Cached \subseteq Inputs /\ None \notin Cached
  BY ConfigurationAssumption DEF Cached
<1>2. \A i : TypedFields(i) <=> KeyProofs!TypedFields(i)
  BY DEF TypedFields, KeyProofs!TypedFields, FreeText, KeyProofs!FreeText
<1> QED
  BY <1>1, <1>2, InputsAssumption DEF KeyProofs!RequestsAssumption

\* whose keys and questions are those of the datasource.
LEMMA SameKeys ==
  /\ \A i : KeyProofs!HashParts(i.path, KeyProofs!KeyParts(i)) = HashParts(i.path, KeyParts(i))
  /\ \A i, j : KeyProofs!SameQuestion(i, j) <=> SameQuestion(i, j)
  /\ \A i : KeyProofs!LabelFree(i) <=> LabelFree(i)
<1>1. \A s, t : KeyProofs!Permuted(s, t) <=> Permuted(s, t)
  BY DEF KeyProofs!Permuted, Permuted, KeyProofs!Bijection, Bijection,
         KeyProofs!Injection, Injection, KeyProofs!Surjection, Surjection,
         KeyProofs!IsInjective, IsInjective
<1>2. \A s : KeyProofs!SortedCopies(s) = SortedCopies(s)
  BY <1>1 DEF KeyProofs!SortedCopies, SortedCopies, KeyProofs!Range, Range
<1>3. \A s : KeyProofs!SortedStrings(s) = SortedStrings(s)
  BY <1>2 DEF KeyProofs!SortedStrings, SortedStrings
<1>4. \A v : KeyProofs!JSON(v) = JSON(v) /\ KeyProofs!Word(v) = Word(v)
  BY DEF KeyProofs!JSON, JSON, KeyProofs!Word, Word
<1>5. \A s : KeyProofs!SortedJSON(s) = SortedJSON(s)
  BY <1>3, <1>4 DEF KeyProofs!SortedJSON, SortedJSON
<1>6. \A i : KeyProofs!KeyParts(i) = KeyParts(i)
  BY <1>4, <1>5 DEF KeyProofs!KeyParts, KeyParts
<1>7. \A i : KeyProofs!HashParts(i.path, KeyProofs!KeyParts(i)) = HashParts(i.path, KeyParts(i))
  <2>1. \A ss : KeyProofs!FlattenSeq(ss) = FlattenSeq(ss)
    BY DEF KeyProofs!FlattenSeq, FlattenSeq
  <2> QED
    BY <1>4, <1>6, <2>1 DEF KeyProofs!HashParts, HashParts
<1>8. \A i, j : KeyProofs!SameQuestion(i, j) <=> SameQuestion(i, j)
  BY <1>1 DEF KeyProofs!SameQuestion, SameQuestion, KeyProofs!Fields, Fields
<1>9. \A i : KeyProofs!LabelFree(i) <=> LabelFree(i)
  BY DEF KeyProofs!LabelFree, LabelFree, KeyProofs!Range, Range
<1> QED
  BY <1>7, <1>8, <1>9

\* Requests of one key ask one question, within reach of each other.
LEMMA KeysTell ==
  ASSUME NEW i \in Cached, NEW j \in Cached, LabelFree(i), LabelFree(j), KeyOf(i) = KeyOf(j)
  PROVE  SameQuestion(i, j) /\ InReach(i, j, Scope(i))
<1>1. /\ Prefix(i.ctx, Scope(i)) = Prefix(j.ctx, Scope(j))
      /\ HashParts(i.path, KeyParts(i)) = HashParts(j.path, KeyParts(j))
  BY DEF KeyOf, KeyFromPluginContext
<1>2. SameQuestion(i, j)
  <2>1. KeyProofs!AlikeBodies(i, j) /\ KeyProofs!LabelFree(i) /\ KeyProofs!LabelFree(j)
    BY <1>1, SameKeys DEF KeyProofs!AlikeBodies
  <2> QED
    BY <2>1, SameKeys, KeyAssumption, KeyProofs!BodyTellsQuestion
<1>3. Scope(i) = Scope(j)
  BY <1>2 DEF SameQuestion, Scope
<1>4. Keyable(i.ctx, Scope(i)) /\ Keyable(j.ctx, Scope(j))
  BY DEF Cached, UsesCache
<1>5. \A s, c : KeyProofs!Prefix(c, s) = Prefix(c, s) /\ (KeyProofs!Keyable(c, s) <=> Keyable(c, s))
  BY DEF KeyProofs!Prefix, Prefix, KeyProofs!Unix, Unix, KeyProofs!TicksPerSecond, TicksPerSecond,
         KeyProofs!Keyable, Keyable, KeyProofs!UserIdentity, UserIdentity
<1>6. KeyProofs!InReach(i, j, Scope(i)) <=> InReach(i, j, Scope(i))
  BY DEF KeyProofs!InReach, InReach, KeyProofs!SamePlace, SamePlace, KeyProofs!SameUser, SameUser,
         KeyProofs!Mixed, Mixed, KeyProofs!TicksPerSecond, TicksPerSecond
<1>7. KeyProofs!InReach(i, j, Scope(i))
  BY <1>1, <1>3, <1>4, <1>5, KeyAssumption, KeyProofs!PrefixTells
<1> QED
  BY <1>2, <1>6, <1>7

\* Where no table is named after the label of a key part, nobody is served, by
\* a hit or by a shared flight, what was produced for another question, tenant,
\* datasource, proxy or user (but for users whose fields are mixed up), or with
\* a configuration a second or more apart: whatever the requests, and whatever
\* they list in whatever order.
THEOREM InScope ==
  ASSUME \A i \in Cached : LabelFree(i)
  PROVE  Spec => []ServedInScope
<1>1. Inv /\ Proved!OutcomesBelong => ServedInScope
  <2> SUFFICES ASSUME Inv, Proved!OutcomesBelong,
                      NEW r \in Requests, at[r] = "done", pc[r] = "done"
               PROVE  LET origin == in[res[r].by] IN
                      /\ SameQuestion(in[r], origin)
                      /\ InReach(in[r], origin, Scope(in[r]))
    BY DEF ServedInScope
  <2>1. PICK q \in Requests : q = res[r].by /\ pc[q] # "idle" /\ key[q] = key[r]
    BY DEF Proved!OutcomesBelong, Proved!ForKey
  <2>2. /\ in[r] \in Cached /\ key[r] = KeyOf(in[r])
        /\ in[q] \in Cached /\ key[q] = KeyOf(in[q])
    BY <2>1 DEF Inv, PlacesAgree
  <2> QED
    BY <2>1, <2>2, KeysTell
<1> QED
  BY <1>1, Invariance, UsesCacheAsAllowed, SameCache, CacheAssumption,
     Proved!ResponsesStayWithTheirKey, PTL DEF CacheSpec

----------------------------------------------------------------------------
(* The refresh limiter.                                                    *)

\* A refresh that was allowed is behind its request, and its bucket was
\* charged for it or for a later one.
LimiterRemembers ==
  \A r \in Requests :
    allowedAt[r] # None =>
      /\ at[r] \notin {"idle", "refresh"}
      /\ cfg.refresh.minInterval > 0 =>
           limiter[Bucket(in[r])] # None /\ allowedAt[r] <= limiter[Bucket(in[r])]

\* MinInterval is a number.
LEMMA Gap == cfg.refresh.minInterval \in Int
BY ConfigurationAssumption DEF cfg, Resolve, OptionsType, DefaultRefresh

\* Only AllowRefresh touches the limiter, and in a place that is never left for
\* it again.
LEMMA LimiterStays ==
  ASSUME Inv, NEW r \in Requests, Progress(r), ~AllowRefresh(r)
  PROVE  /\ UNCHANGED <<in, limiter, allowedAt>>
         /\ \A q \in Requests : at[q] \notin {"idle", "refresh"} => at'[q] \notin {"idle", "refresh"}
<1> USE DEF Inv, TypeOK, Goes, End
<1>1. CASE NotFound(r)
  BY <1>1 DEF NotFound, refreshVars
<1>2. CASE DeleteEntry(r)
  BY <1>2 DEF DeleteEntry, requestVars
<1>3. CASE Lookup(r)
  BY <1>3 DEF Lookup, requestVars, refreshVars
<1>4. CASE CacheStep(r)
  BY <1>4 DEF CacheStep, requestVars, refreshVars
<1>5. CASE Dispatch(r)
  BY <1>5 DEF Dispatch, refreshVars
<1>6. CASE Reply(r)
  BY <1>6 DEF Reply, refreshVars
<1>7. CASE DirectReply(r)
  BY <1>7 DEF DirectReply, refreshVars
<1> QED
  BY <1>1, <1>2, <1>3, <1>4, <1>5, <1>6, <1>7 DEF Progress

\* Every step of the datasource keeps refreshes apart.
LEMMA SpacedStep ==
  Inv /\ LimiterRemembers /\ RefreshesAreSpaced /\ [Next]_vars
    => LimiterRemembers' /\ RefreshesAreSpaced'
<1> SUFFICES ASSUME Inv, LimiterRemembers, RefreshesAreSpaced, [Next]_vars
             PROVE  LimiterRemembers' /\ RefreshesAreSpaced'
  OBVIOUS
<1>1. ASSUME UNCHANGED <<in, limiter, allowedAt>>,
             \A q \in Requests : at[q] \notin {"idle", "refresh"} => at'[q] \notin {"idle", "refresh"}
      PROVE  LimiterRemembers' /\ RefreshesAreSpaced'
  BY <1>1 DEF LimiterRemembers, RefreshesAreSpaced, Bucket
<1>2. CASE UNCHANGED vars
  BY <1>1, <1>2 DEF vars, requestVars, refreshVars
<1>3. ASSUME NEW r \in Requests, NEW i \in Inputs, Receive(r, i)
      PROVE  LimiterRemembers' /\ RefreshesAreSpaced'
  <2>1. /\ at[r] = "idle" /\ allowedAt[r] = None /\ UNCHANGED <<limiter, allowedAt>>
        /\ \A q \in Requests \ {r} : at'[q] = at[q] /\ in'[q] = in[q]
    BY <1>3 DEF Receive, Goes, refreshVars, LimiterRemembers, Inv, TypeOK
  <2> QED
    BY <2>1 DEF LimiterRemembers, RefreshesAreSpaced, Bucket
<1>4. ASSUME NEW r \in Requests, Progress(r), ~AllowRefresh(r)
      PROVE  LimiterRemembers' /\ RefreshesAreSpaced'
  BY <1>1, <1>4, LimiterStays
<1>5. ASSUME NEW r \in Requests, AllowRefresh(r)
      PROVE  LimiterRemembers' /\ RefreshesAreSpaced'
  <2>1. PICK b \in Buckets : b = Bucket(in[r])
    BY <1>5 DEF AllowRefresh, Goes, Inv, TypeOK, Buckets
  <2>2. /\ at[r] = "refresh" /\ allowedAt[r] = None /\ in' = in
        /\ at'[r] \in {"delete", "lookup"} /\ \A q \in Requests \ {r} : at'[q] = at[q]
    BY <1>5 DEF AllowRefresh, Goes, Inv, TypeOK, LimiterRemembers, requestVars
  <2>3. CASE UNCHANGED <<limiter, allowedAt>>
    BY <1>1, <2>2, <2>3
  <2>4. CASE cfg.refresh.minInterval <= 0 /\ limiter' = limiter /\ allowedAt' = [allowedAt EXCEPT ![r] = now]
    <3>1. ~(cfg.refresh.minInterval > 0)
      BY <2>4, Gap
    <3> QED
      BY <2>2, <2>4, <3>1 DEF LimiterRemembers, RefreshesAreSpaced, Inv, TypeOK
  <2>5. CASE /\ cfg.refresh.minInterval > 0
             /\ limiter[b] = None \/ now - limiter[b] >= cfg.refresh.minInterval
             /\ limiter' = [limiter EXCEPT ![b] = now] /\ allowedAt' = [allowedAt EXCEPT ![r] = now]
    <3>1. now \in Nat /\ now # None /\ cfg.refresh.minInterval \in Int
      BY Gap, ConfigurationAssumption DEF Inv, TypeOK, Cache!TypeOK
    <3>2. ASSUME NEW q \in Requests, q # r, allowedAt[q] # None, Bucket(in[q]) = b
          PROVE  now - allowedAt[q] >= cfg.refresh.minInterval /\ allowedAt[q] \in Nat
      <4>1. allowedAt[q] \in Nat /\ limiter[b] \in Nat /\ allowedAt[q] <= limiter[b]
        BY <2>5, <3>2 DEF LimiterRemembers, Inv, TypeOK
      <4>2. now - limiter[b] >= cfg.refresh.minInterval
        BY <2>5, <3>2 DEF LimiterRemembers
      <4> QED
        BY <3>1, <4>1, <4>2
    <3>3. /\ allowedAt'[r] = now /\ limiter'[b] = now
          /\ \A q \in Requests \ {r} : allowedAt'[q] = allowedAt[q]
          /\ \A a \in Buckets \ {b} : limiter'[a] = limiter[a]
      BY <2>5 DEF Inv, TypeOK
    <3>4. RefreshesAreSpaced'
      <4> SUFFICES ASSUME NEW q \in Requests, NEW s \in Requests, q # s,
                          allowedAt'[q] # None, allowedAt'[s] # None,
                          Bucket(in[q]) = Bucket(in[s]), allowedAt'[q] <= allowedAt'[s]
                   PROVE  allowedAt'[s] - allowedAt'[q] >= cfg.refresh.minInterval
        BY <2>2 DEF RefreshesAreSpaced, Bucket
      <4>1. CASE s = r
        BY <2>1, <3>2, <3>3, <4>1
      <4>2. CASE q = r
        <5>1. allowedAt'[s] = allowedAt[s] /\ now - allowedAt[s] >= cfg.refresh.minInterval /\ allowedAt[s] \in Nat
          BY <2>1, <3>2, <3>3, <4>2
        <5> QED
          BY <2>5, <3>1, <3>3, <4>2, <5>1
      <4>3. CASE q # r /\ s # r
        BY <2>5, <3>3, <4>3 DEF RefreshesAreSpaced
      <4> QED
        BY <4>1, <4>2, <4>3
    <3>5. LimiterRemembers'
      <4> SUFFICES ASSUME NEW q \in Requests, allowedAt'[q] # None
                   PROVE  /\ at'[q] \notin {"idle", "refresh"}
                          /\ limiter'[Bucket(in[q])] # None /\ allowedAt'[q] <= limiter'[Bucket(in[q])]
        BY <2>2 DEF LimiterRemembers, Bucket
      <4>1. CASE q = r
        BY <2>1, <2>2, <3>1, <3>3, <4>1
      <4>2. CASE q # r /\ Bucket(in[q]) = b
        <5>1. now - allowedAt[q] >= cfg.refresh.minInterval /\ allowedAt[q] \in Nat
          BY <3>2, <3>3, <4>2
        <5>2. allowedAt[q] <= now
          BY <2>5, <3>1, <5>1
        <5> QED
          BY <2>2, <3>1, <3>3, <4>2, <5>2 DEF LimiterRemembers
      <4>3. CASE q # r /\ Bucket(in[q]) # b
        <5>1. at[q] \notin {"idle", "refresh"} /\ Bucket(in[q]) \in Buckets
          BY <3>3, <4>3 DEF LimiterRemembers, Inv, TypeOK, Buckets
        <5> QED
          BY <2>2, <2>5, <3>3, <4>3, <5>1 DEF LimiterRemembers
      <4> QED
        BY <4>1, <4>2, <4>3
    <3> QED
      BY <3>4, <3>5
  <2> QED
    BY <1>5, <2>1, <2>3, <2>4, <2>5, Gap DEF AllowRefresh
<1>6. CASE Sweep \/ Tick
  BY <1>1, <1>6 DEF Sweep, Tick, requestVars, refreshVars
<1> QED
  BY <1>2, <1>3, <1>4, <1>5, <1>6 DEF Next

\* However requests race, refreshes of an endpoint are allowed once in
\* MinInterval for each namespace (allowRefresh, datasource.go:344-362).
THEOREM RefreshesKeepTheirDistance == Spec => []RefreshesAreSpaced
<1>1. Init => LimiterRemembers /\ RefreshesAreSpaced
  BY DEF Init, LimiterRemembers, RefreshesAreSpaced
<1> QED
  BY <1>1, SpacedStep, Invariance, PTL DEF Spec

----------------------------------------------------------------------------
(* Refreshes that find nobody fetching.                                    *)

\* A request that has deleted its entry is past the deletion; and if nobody was
\* fetching then, nothing is left of the fetches before it.
DeletionsHold ==
  \A r \in Requests :
    mark[r] # None =>
      /\ at[r] \in {"lookup", "cache", "done"} /\ in[r] \in Cached
      /\ at[r] = "done" => pc[r] = "done"
      /\ mark[r].calm =>
           /\ Proved!NothingSince(KeyOf(in[r]), mark[r].fid)
           /\ pc[r] = "done" => res[r].fid > mark[r].fid

\* After its deletion a request only looks up, waits and replies.
LEMMA MarkStays ==
  ASSUME Inv, NEW r \in Requests, Progress(r), ~DeleteEntry(r)
  PROVE  /\ UNCHANGED <<in, mark>>
         /\ \A q \in Requests \ {r} : at'[q] = at[q]
         /\ at[r] \in {"lookup", "cache", "done"} =>
              /\ at'[r] \in {"lookup", "cache", "done"}
              /\ at'[r] = "done" => pc[r] = "done" /\ pc'[r] = "done"
<1> USE DEF Inv, TypeOK, Goes, End
<1>1. CASE NotFound(r)
  BY <1>1 DEF NotFound, refreshVars
<1>2. CASE AllowRefresh(r)
  BY <1>2 DEF AllowRefresh, requestVars
<1>3. CASE Lookup(r)
  BY <1>3 DEF Lookup, requestVars, refreshVars
<1>4. CASE CacheStep(r)
  BY <1>4 DEF CacheStep, requestVars, refreshVars
<1>5. CASE Dispatch(r)
  BY <1>5 DEF Dispatch, refreshVars
<1>6. CASE Reply(r)
  BY <1>6 DEF Reply, refreshVars, cacheVars
<1>7. CASE DirectReply(r)
  BY <1>7 DEF DirectReply, refreshVars
<1> QED
  BY <1>1, <1>2, <1>3, <1>4, <1>5, <1>6, <1>7 DEF Progress

\* A call that has returned stays so, whoever else moves.
LEMMA ReturnedStays ==
  ASSUME Inv, NEW r \in Requests, Progress(r), NEW q \in Requests, pc[q] = "done"
  PROVE  pc'[q] = "done" /\ res'[q] = res[q]
<1> USE DEF Inv, TypeOK, Cache!TypeOK
<1>1. CASE NotFound(r) \/ AllowRefresh(r) \/ Reply(r) \/ DirectReply(r)
  BY <1>1 DEF NotFound, AllowRefresh, Reply, DirectReply, cacheVars
<1>2. CASE DeleteEntry(r)
  BY <1>2 DEF DeleteEntry, Cache!Delete, Cache!callState
<1>3. CASE Lookup(r)
  BY <1>3 DEF Lookup, Cache!Hit, Cache!Miss, Cache!Begin
<1>4. CASE CacheStep(r)
  BY <1>4, CallMoves
<1>5. CASE Dispatch(r)
  BY <1>5, CallMoves DEF Dispatch
<1> QED
  BY <1>1, <1>2, <1>3, <1>4, <1>5 DEF Progress

\* Through any step, what a calm deletion promises a request is kept.
LEMMA CalmStays ==
  ASSUME Inv, Inv', Proved!Inv, [Proved!Next]_(Proved!vars), NEW q \in Requests,
         in[q] \in Cached, in'[q] = in[q], mark[q] # None, mark'[q] = mark[q],
         Proved!NothingSince(KeyOf(in[q]), mark[q].fid),
         pc[q] = "done" => res[q].fid > mark[q].fid
  PROVE  /\ Proved!NothingSince(KeyOf(in[q]), mark[q].fid)'
         /\ pc'[q] = "done" => res'[q].fid > mark'[q].fid
<1>1. PICK k \in CacheKeys : k = KeyOf(in[q])
  BY CachedInput
<1>2. PICK n \in Nat : n = mark[q].fid
  BY DEF Inv, TypeOK
<1>3. Proved!NothingSince(k, n)
  BY <1>1, <1>2
<1>4. Proved!NothingSince(k, n)'
  BY <1>3, CacheAssumption, Proved!NothingComesBack
<1>5. pc'[q] = "done" => key'[q] = k
  BY <1>1 DEF Inv, PlacesAgree
<1>6. pc[q] # "direct"
  BY DEF Inv, PlacesAgree
<1>7. pc'[q] = "done" => (pc[q] = "done" /\ res'[q] = res[q]) \/ res'[q].fid > n
  BY <1>3, <1>5, <1>6, CacheAssumption, Proved!LaterIsReturned
<1>8. KeyOf(in'[q]) = k /\ mark'[q].fid = n
  BY <1>1, <1>2
<1> QED
  BY <1>2, <1>4, <1>7, <1>8 DEF Proved!NothingSince

\* Every step keeps deletions' promises.
LEMMA DeletionsStep ==
  Inv /\ Proved!Inv /\ DeletionsHold /\ [Next]_vars => DeletionsHold'
<1> SUFFICES ASSUME Inv, Proved!Inv, DeletionsHold, [Next]_vars PROVE DeletionsHold'
  OBVIOUS
<1>1. Inv' /\ [Proved!Next]_(Proved!vars)
  BY InvStep, CacheStepOrStutter, SameSteps DEF Inv
<1>2. ASSUME NEW q \in Requests, mark'[q] # None, mark'[q] = mark[q], in'[q] = in[q],
             at'[q] \in {"lookup", "cache", "done"}, at'[q] = "done" => pc'[q] = "done"
      PROVE  /\ at'[q] \in {"lookup", "cache", "done"} /\ in'[q] \in Cached
             /\ at'[q] = "done" => pc'[q] = "done"
             /\ mark'[q].calm =>
                  /\ Proved!NothingSince(KeyOf(in[q]), mark[q].fid)'
                  /\ pc'[q] = "done" => res'[q].fid > mark'[q].fid
  BY <1>1, <1>2, CalmStays DEF DeletionsHold
<1>3. ASSUME UNCHANGED <<at, in, pc, mark>> PROVE DeletionsHold'
  BY <1>2, <1>3 DEF DeletionsHold
<1>4. CASE UNCHANGED vars
  BY <1>3, <1>4 DEF vars, cacheVars, requestVars, refreshVars
<1>5. ASSUME NEW r \in Requests, NEW i \in Inputs, Receive(r, i) PROVE DeletionsHold'
  <2>1. /\ mark[r] = None /\ UNCHANGED <<pc, mark>>
        /\ \A q \in Requests \ {r} : at'[q] = at[q] /\ in'[q] = in[q]
    BY <1>5 DEF Receive, Goes, refreshVars, cacheVars, DeletionsHold, Inv, TypeOK
  <2>2. ASSUME NEW q \in Requests, mark'[q] # None
        PROVE  /\ q # r /\ mark'[q] = mark[q] /\ in'[q] = in[q]
               /\ at'[q] \in {"lookup", "cache", "done"} /\ (at'[q] = "done" => pc'[q] = "done")
    BY <2>1, <2>2 DEF DeletionsHold
  <2> QED
    BY <1>2, <2>2 DEF DeletionsHold
<1>6. ASSUME NEW r \in Requests, Progress(r), ~DeleteEntry(r) PROVE DeletionsHold'
  <2>1. ASSUME NEW q \in Requests, mark'[q] # None
        PROVE  /\ mark'[q] = mark[q] /\ in'[q] = in[q]
               /\ at'[q] \in {"lookup", "cache", "done"} /\ (at'[q] = "done" => pc'[q] = "done")
    <3>1. /\ UNCHANGED <<in, mark>>
          /\ at[q] \in {"lookup", "cache", "done"} /\ (at[q] = "done" => pc[q] = "done")
      BY <1>6, <2>1, MarkStays DEF DeletionsHold
    <3>2. CASE q = r
      BY <1>6, <3>1, <3>2, MarkStays
    <3>3. CASE q # r
      BY <1>6, <3>1, <3>3, MarkStays, ReturnedStays DEF Inv
    <3> QED
      BY <3>2, <3>3
  <2> QED
    BY <1>2, <2>1 DEF DeletionsHold
<1>7. ASSUME NEW r \in Requests, DeleteEntry(r) PROVE DeletionsHold'
  <2>1. PICK k \in CacheKeys : k = KeyOf(in[r]) /\ in[r] \in Cached
    BY <1>7, CachedInput DEF DeleteEntry, Goes, Inv, PlacesAgree
  <2>2. /\ at[r] = "delete" /\ at' = [at EXCEPT ![r] = "lookup"] /\ in' = in
        /\ UNCHANGED <<pc, key, flight, begun>> /\ items' = [items EXCEPT ![k] = None]
        /\ mark' = [mark EXCEPT ![r] = [calm |-> flight[k] = None, fid |-> begun[k]]]
    BY <1>7, <2>1 DEF DeleteEntry, Goes, Cache!Delete, Cache!callState, Cache!history, requestVars
  <2>3. pc[r] = "idle"
    BY <2>2 DEF Inv, PlacesAgree
  <2>4. flight[k] = None => Proved!NothingSince(k, begun[k])'
    <3>1. flight[k] = None => \A c \in Requests : ~(key[c] = k /\ pc[c] \in Proved!Leading)
      BY CacheAssumption DEF Proved!ConstantsAssumption, Proved!Inv, Proved!FlightsAreLed
    <3>2. items'[k] = None /\ begun[k] \in Nat /\ begun'[k] = begun[k]
      BY <2>2 DEF Inv, TypeOK, Cache!TypeOK
    <3> QED
      BY <2>2, <3>1, <3>2 DEF Proved!NothingSince
  <2>5. mark'[r] = [calm |-> flight[k] = None, fid |-> begun[k]]
    BY <2>2 DEF Inv, TypeOK
  <2>6. /\ at'[r] = "lookup" /\ in'[r] \in Cached /\ pc'[r] = "idle"
        /\ mark'[r].calm => Proved!NothingSince(KeyOf(in[r]), mark[r].fid)'
    <3>1. at'[r] = "lookup" /\ in'[r] \in Cached /\ pc'[r] = "idle" /\ KeyOf(in'[r]) = k
      BY <2>1, <2>2, <2>3 DEF Inv, TypeOK
    <3>2. mark'[r].calm => flight[k] = None
      <4>1. CASE flight[k] # None
        <5>1. (flight[k] = None) = FALSE
          BY <4>1
        <5>2. mark'[r] = [calm |-> FALSE, fid |-> begun[k]]
          BY <2>5, <5>1, Zenon
        <5> QED
          BY <5>2
      <4> QED
        BY <4>1
    <3>3. mark'[r].fid = begun[k] /\ begun' = begun
      BY <2>2, <2>5
    <3> QED
      BY <2>4, <3>1, <3>2, <3>3 DEF Proved!NothingSince
  <2>7. ASSUME NEW q \in Requests \ {r}, mark'[q] # None
        PROVE  /\ mark'[q] = mark[q] /\ in'[q] = in[q]
               /\ at'[q] \in {"lookup", "cache", "done"} /\ (at'[q] = "done" => pc'[q] = "done")
    BY <2>2, <2>7 DEF DeletionsHold, Inv, TypeOK
  <2> QED
    BY <1>2, <2>6, <2>7 DEF DeletionsHold
<1>8. CASE Sweep \/ Tick
  BY <1>3, <1>8 DEF Sweep, Tick, Cache!Sweep, Cache!Tick, Cache!callState, requestVars, refreshVars
<1> QED
  BY <1>4, <1>5, <1>6, <1>7, <1>8 DEF Next

\* A refresh that was allowed while nobody fetched its key is answered by a
\* run of the handler that began after its deletion (datasource.go:157-176).
THEOREM CalmRefreshesAreFresh == Spec => []CalmRefreshIsFresh
<1>1. Init => DeletionsHold
  BY DEF Init, DeletionsHold
<1>2. Spec => []Proved!Inv
  BY UsesCacheAsAllowed, SameCache, CacheAssumption, Proved!Invariance, PTL DEF CacheSpec
<1>3. DeletionsHold => CalmRefreshIsFresh
  BY DEF DeletionsHold, CalmRefreshIsFresh
<1> QED
  BY <1>1, <1>2, <1>3, DeletionsStep, Invariance, PTL DEF Spec
=============================================================================
