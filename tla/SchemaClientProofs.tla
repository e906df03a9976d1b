------------------------- MODULE SchemaClientProofs -------------------------
(* Proofs, for every value of the constants, that clients leave what is    *)
(* proved of the datasource as it is, are told the truth about endpoints   *)
(* without a handler, and share no failure but those of their flights.     *)
EXTENDS SchemaClient, SchemaDatasourceProofs

----------------------------------------------------------------------------
(* With clients, the datasource is the same.                               *)

\* What is between clients and the datasource takes only the datasource's
\* own steps.
LEMMA ClientStepIsStep == [ClientNext]_allVars => [Next]_vars
BY DEF ClientNext, Call, Serve, Return, GiveUp, Next, allVars

\* So every theorem about the datasource holds of one that clients use.
THEOREM ClientsUseDatasource == ClientSpec => Spec
<1>1. ClientInit => Init
  BY DEF ClientInit
<1> QED
  BY <1>1, ClientStepIsStep, PTL DEF ClientSpec, Spec

----------------------------------------------------------------------------
(* What is sent.                                                           *)

\* The first of two lists of statuses, if it is not empty, keeps its head.
LEMMA FirstStays ==
  ASSUME NEW s \in Seq(Statuses), NEW t \in Seq(Statuses)
  PROVE  /\ s # <<>> => s \o t # <<>> /\ (s \o t)[1] = s[1]
         /\ s = <<>> => s \o t = t
         /\ t = <<>> => s \o t = s
         /\ Len(s) = 0 <=> s = <<>>
OBVIOUS

\* A list of statuses begins with 501 only where there is no handler.
Honest(t, i) == t # <<>> /\ t[1] = 501 => i.path \notin Implemented

\* What dispatch sends is honest, and so is what is sent after it; where
\* nothing is sent, there was an error, or nil that somebody has answered.
LEMMA DispatchIsHonest ==
  ASSUME NEW i, NEW d \in Dispatched(i.path)
  PROVE  /\ Honest(d.sends, i)
         /\ d.kind = "nil" => d.sends # <<>>
         /\ \A e \in Endings(d.kind) :
              /\ Honest(d.sends \o e.sends, i)
              /\ d.sends \o e.sends = <<>> => e.ret = "err"
<1>1. Honest(d.sends, i) /\ (d.kind = "nil" => d.sends # <<>>)
  BY DEF Dispatched, Refusal, Honest
<1>2. ASSUME NEW e \in Endings(d.kind)
      PROVE  /\ Honest(d.sends \o e.sends, i)
             /\ d.sends \o e.sends = <<>> => e.ret = "err"
  <2>1. /\ d.sends \in Seq(Statuses) /\ e.sends \in Seq(Statuses)
        /\ d.kind # "nil" => d.sends = <<>>
    BY Sends
  <2>2. e.sends = <<>> \/ e.sends = <<200>>
    BY DEF Endings
  <2>3. d.kind # "nil" /\ e.sends = <<>> => e.ret = "err"
    BY DEF Endings
  <2>4. CASE d.kind = "nil"
    <3>1. d.sends # <<>>
      BY <1>1, <2>4
    <3>2. d.sends \o e.sends # <<>> /\ (d.sends \o e.sends)[1] = d.sends[1]
      BY <2>1, <3>1, FirstStays
    <3>3. ASSUME NEW t, t # <<>>, t[1] = d.sends[1] PROVE Honest(t, i)
      BY <1>1, <3>1, <3>3 DEF Honest
    <3> QED
      BY <3>2, <3>3
  <2>5. CASE d.kind # "nil"
    <3>1. d.sends \o e.sends = e.sends
      BY <2>1, <2>5, FirstStays
    <3> QED
      BY <2>2, <2>3, <2>5, <3>1 DEF Honest
  <2> QED
    BY <2>4, <2>5
<1> QED
  BY <1>1, <1>2

\* A step of a request sends, if anything, its first response, an honest one,
\* for itself.
LEMMA HowItSends ==
  ASSUME Inv, NEW r \in Requests, Progress(r)
  PROVE  /\ \A q \in Requests \ {r} : sent'[q] = sent[q]
         /\ sent[r] # <<>> => sent'[r] # <<>> /\ sent'[r][1] = sent[r][1]
         /\ sent[r] = <<>> => Honest(sent'[r], in[r])
<1> USE DEF Inv, TypeOK
<1>0. sent \in [Requests -> Seq(Statuses)]
  OBVIOUS
<1>1. ASSUME NEW t \in Seq(Statuses), Honest(t, in[r]), sent' = [sent EXCEPT ![r] = @ \o t]
      PROVE  /\ \A q \in Requests \ {r} : sent'[q] = sent[q]
             /\ sent[r] # <<>> => sent'[r] # <<>> /\ sent'[r][1] = sent[r][1]
             /\ sent[r] = <<>> => Honest(sent'[r], in[r])
  <2>1. /\ sent'[r] = sent[r] \o t
        /\ \A q \in Requests \ {r} : sent'[q] = sent[q]
    BY <1>0, <1>1
  <2>2. sent[r] \in Seq(Statuses)
    BY <1>0
  <2> QED
    BY <1>1, <2>1, <2>2, FirstStays
<1>2. <<>> \in Seq(Statuses) /\ Honest(<<>>, in[r])
  BY Appending DEF Honest
<1>3. CASE sent' = sent
  BY <1>3 DEF Honest
<1>4. CASE NotFound(r)
  <2>1. <<404>> \in Seq(Statuses) /\ Honest(<<404>>, in[r])
    BY Appending DEF Statuses, Honest
  <2> QED
    BY <1>1, <1>2, <1>4, <2>1 DEF NotFound, End
<1>5. CASE AllowRefresh(r) \/ DeleteEntry(r) \/ Lookup(r) \/ CacheStep(r)
  BY <1>3, <1>5 DEF AllowRefresh, DeleteEntry, Lookup, CacheStep, requestVars
<1>6. CASE Dispatch(r)
  <2>1. PICK d \in Dispatched(in[r].path) : sent' = [sent EXCEPT ![r] = @ \o d.sends]
    BY <1>6 DEF Dispatch
  <2>2. d.sends \in Seq(Statuses) /\ Honest(d.sends, in[r])
    BY <2>1, Sends, DispatchIsHonest
  <2> QED
    BY <1>1, <2>1, <2>2
<1>7. CASE Reply(r)
  <2>1. PICK e \in Endings(res[r].kind) : sent' = [sent EXCEPT ![r] = @ \o e.sends]
    BY <1>7 DEF Reply, End
  <2>2. e.sends \in Seq(Statuses)
    BY <2>1, Sends
  <2>3. Honest(e.sends, in[r])
    <3>1. e.sends = <<>> \/ e.sends = <<200>>
      BY <2>1 DEF Endings
    <3> QED
      BY <3>1 DEF Honest
  <2> QED
    BY <1>1, <2>1, <2>2, <2>3
<1>8. CASE DirectReply(r)
  <2>1. PICK d \in Dispatched(in[r].path) : \E e \in Endings(d.kind) :
          sent' = [sent EXCEPT ![r] = @ \o (d.sends \o e.sends)]
    BY <1>8 DEF DirectReply, End
  <2>2. PICK e \in Endings(d.kind) : sent' = [sent EXCEPT ![r] = @ \o (d.sends \o e.sends)]
    BY <2>1
  <2>3. d.sends \in Seq(Statuses) /\ e.sends \in Seq(Statuses)
    BY Sends
  <2>4. d.sends \o e.sends \in Seq(Statuses) /\ Honest(d.sends \o e.sends, in[r])
    BY <2>3, Appending, DispatchIsHonest
  <2> QED
    BY <1>1, <2>2, <2>4
<1> QED
  BY <1>4, <1>5, <1>6, <1>7, <1>8 DEF Progress

----------------------------------------------------------------------------
(* The inductive invariant, part by part.                                  *)

\* What clients ask is routed to a handler or the cache.
LEMMA ClientRoute ==
  ASSUME NEW i \in Inputs, FromClient(i)
  PROVE  Route(i) \in {"direct", "refresh", "lookup"}
BY DEF FromClient, Route, Parses

\* Every step keeps the variables of clients in their types.
LEMMA ClientTypeStep == ClientInv /\ [ClientNext]_allVars => ClientTypeOK'
<1> SUFFICES ASSUME ClientInv, [ClientNext]_allVars PROVE ClientTypeOK'
  OBVIOUS
<1> USE DEF ClientInv, ClientTypeOK
<1>1. CASE UNCHANGED allVars
  BY <1>1 DEF allVars, clientVars
<1>2. ASSUME NEW r \in Requests, NEW i \in Inputs, Call(r, i) PROVE ClientTypeOK'
  BY <1>2 DEF Call
<1>3. ASSUME NEW r \in Requests, Serve(r) PROVE ClientTypeOK'
  BY <1>3 DEF Serve
<1>4. ASSUME NEW r \in Requests, Return(r) PROVE ClientTypeOK'
  <2>1. sent[r] # <<>> /\ sent[r][1] = 501 => in[r].path \in Endpoints
    <3>1. sent[r] # <<>> => at[r] # "idle"
      BY DEF Inv, RepliesAgree
    <3> QED
      BY <3>1 DEF OnlyClientsCall, FromClient
  <2>2. Result(r) \in Results
    BY <2>1 DEF Result, Results
  <2> QED
    BY <1>4, <2>2 DEF Return
<1>5. ASSUME NEW r \in Requests, GiveUp(r) PROVE ClientTypeOK'
  BY <1>5 DEF GiveUp, Results
<1>6. CASE (Sweep \/ Tick) /\ UNCHANGED clientVars
  BY <1>6 DEF clientVars
<1> QED
  BY <1>1, <1>2, <1>3, <1>4, <1>5, <1>6 DEF ClientNext

\* A step of a request that clients made leads it from place to place until it
\* is done, and leaves the others where they are.
LEMMA HowItMoves ==
  ASSUME Inv, OnlyClientsCall, NEW r \in Requests, Progress(r)
  PROVE  /\ in' = in /\ at[r] \notin {"idle", "done"}
         /\ at'[r] \in {"delete", "lookup", "cache", "done"}
         /\ at'[r] # "done" => ret' = ret
         /\ \A q \in Requests \ {r} : at'[q] = at[q] /\ ret'[q] = ret[q]
<1> USE DEF Inv, TypeOK, OnlyClientsCall, Goes, End
<1>1. ~NotFound(r)
  BY DEF NotFound
<1>2. CASE AllowRefresh(r)
  BY <1>2 DEF AllowRefresh, requestVars
<1>3. CASE DeleteEntry(r)
  BY <1>3 DEF DeleteEntry, requestVars
<1>4. CASE Lookup(r)
  BY <1>4 DEF Lookup, requestVars
<1>5. CASE CacheStep(r)
  BY <1>5 DEF CacheStep, requestVars
<1>6. CASE Dispatch(r)
  BY <1>6 DEF Dispatch
<1>7. CASE Reply(r)
  BY <1>7 DEF Reply
<1>8. CASE DirectReply(r)
  BY <1>8 DEF DirectReply
<1> QED
  BY <1>1, <1>2, <1>3, <1>4, <1>5, <1>6, <1>7, <1>8 DEF Progress

\* A step of a request begins, if any, a call of its own with a positive ttl.
LEMMA HowItCalls ==
  ASSUME Inv, NEW r \in Requests, Progress(r)
  PROVE  /\ \A q \in Requests : pc[q] # "idle" => pc'[q] # "idle" /\ ttl'[q] = ttl[q]
         /\ \A q \in Requests : pc[q] = "idle" /\ pc'[q] # "idle" => ttl'[q] > 0
<1> USE DEF Inv, TypeOK, Cache!TypeOK
<1>1. CASE NotFound(r) \/ AllowRefresh(r) \/ Reply(r) \/ DirectReply(r)
  BY <1>1 DEF NotFound, AllowRefresh, Reply, DirectReply, cacheVars
<1>2. CASE DeleteEntry(r)
  BY <1>2 DEF DeleteEntry, Cache!Delete, Cache!callState
<1>3. CASE Lookup(r)
  <2>1. PICK t \in Nat : /\ t > 0 /\ pc[r] = "idle" /\ ttl' = [ttl EXCEPT ![r] = t]
                         /\ pc' = [pc EXCEPT ![r] = "done"] \/ pc' = [pc EXCEPT ![r] = "miss"]
    <3>1. TTLFor(cfg, in[r].path) \in Nat
      <4>1. in[r] \in Cached
        BY <1>3 DEF Lookup, Goes, PlacesAgree
      <4> QED
        BY <4>1, CachedInput, CacheAssumption DEF Proved!ConstantsAssumption
    <3> QED
      BY <1>3, <3>1 DEF Lookup, Cache!Hit, Cache!Miss, Cache!Begin
  <2> QED
    BY <2>1
<1>4. CASE CacheStep(r)
  <2>1. ttl' = ttl
    BY <1>4 DEF CacheStep, Cache!Join, Cache!Lead, Cache!RecheckHit, Cache!RecheckMiss,
       Cache!Store, Cache!Finish, Cache!Landed
  <2> QED
    BY <1>4, <2>1, CallMoves
<1>5. CASE Dispatch(r)
  <2>1. PICK kind, size : Cache!FetchReturn(r, kind, size)
    BY <1>5 DEF Dispatch
  <2>2. ttl' = ttl
    BY <2>1 DEF Cache!FetchReturn
  <2> QED
    BY <2>1, <2>2, CallMoves
<1> QED
  BY <1>1, <1>2, <1>3, <1>4, <1>5 DEF Progress

\* Every step leaves requests to clients, on the way to a handler.
LEMMA OnlyClientsStep == ClientInv /\ [ClientNext]_allVars => OnlyClientsCall'
<1> SUFFICES ASSUME ClientInv, [ClientNext]_allVars PROVE OnlyClientsCall'
  OBVIOUS
<1> USE DEF ClientInv
<1>1. CASE UNCHANGED allVars
  BY <1>1 DEF allVars, clientVars, vars, cacheVars, requestVars, OnlyClientsCall, FromClient
<1>2. ASSUME NEW r \in Requests, NEW i \in Inputs, Call(r, i) PROVE OnlyClientsCall'
  <2>1. /\ FromClient(i) /\ at[r] = "idle" /\ at' = [at EXCEPT ![r] = Route(i)]
        /\ in' = [in EXCEPT ![r] = i] /\ ret' = ret /\ got' = got
        /\ pc' = pc /\ ttl' = ttl
    BY <1>2, ClientRoute DEF Call, Receive, Goes, cacheVars
  <2> QED
    BY <2>1, ClientRoute DEF Inv, TypeOK, OnlyClientsCall, FromClient
<1>3. ASSUME NEW r \in Requests, Serve(r) PROVE OnlyClientsCall'
  <2>1. Progress(r) /\ got' = got /\ Inv
    BY <1>3 DEF Serve
  <2>2. \A q \in Requests : pc'[q] # "idle" => ttl'[q] > 0
    BY <2>1, HowItCalls DEF OnlyClientsCall
  <2> QED
    BY <2>1, <2>2, HowItMoves DEF OnlyClientsCall, FromClient
<1>4. ASSUME NEW r \in Requests, Return(r) PROVE OnlyClientsCall'
  <2>1. at[r] # "idle"
    BY <1>4 DEF Return, Ended, Inv, RepliesAgree
  <2> QED
    BY <1>4, <2>1 DEF Return, vars, cacheVars, requestVars, OnlyClientsCall, FromClient, ClientTypeOK
<1>5. ASSUME NEW r \in Requests, GiveUp(r) PROVE OnlyClientsCall'
  BY <1>5 DEF GiveUp, vars, cacheVars, requestVars, OnlyClientsCall, FromClient, ClientTypeOK
<1>6. CASE (Sweep \/ Tick) /\ UNCHANGED clientVars
  BY <1>6 DEF Sweep, Tick, Cache!Sweep, Cache!Tick, Cache!callState, requestVars, clientVars,
     OnlyClientsCall, FromClient
<1> QED
  BY <1>1, <1>2, <1>3, <1>4, <1>5, <1>6 DEF ClientNext

\* Every step keeps statuses true: no 501 for an endpoint with a handler.
LEMMA StatusesStep == ClientInv /\ [ClientNext]_allVars => StatusesAreTrue'
<1> SUFFICES ASSUME ClientInv, [ClientNext]_allVars PROVE StatusesAreTrue'
  OBVIOUS
<1> USE DEF ClientInv
<1>1. ASSUME in' = in, sent' = sent PROVE StatusesAreTrue'
  BY <1>1 DEF StatusesAreTrue
<1>2. CASE UNCHANGED allVars
  BY <1>1, <1>2 DEF allVars, vars, requestVars
<1>3. ASSUME NEW r \in Requests, NEW i \in Inputs, Call(r, i) PROVE StatusesAreTrue'
  <2>1. in' = [in EXCEPT ![r] = i] /\ sent' = sent /\ sent[r] = <<>>
    BY <1>3 DEF Call, Receive, Goes, Inv, RepliesAgree
  <2> QED
    BY <2>1 DEF StatusesAreTrue, Inv, TypeOK
<1>4. ASSUME NEW r \in Requests, Serve(r) PROVE StatusesAreTrue'
  BY <1>4, HowItSends, HowItMoves DEF Serve, StatusesAreTrue, Honest
<1>5. ASSUME NEW r \in Requests, Return(r) \/ GiveUp(r) PROVE StatusesAreTrue'
  BY <1>1, <1>5 DEF Return, GiveUp, vars, requestVars
<1>6. CASE (Sweep \/ Tick) /\ UNCHANGED clientVars
  BY <1>1, <1>6 DEF Sweep, Tick, requestVars
<1> QED
  BY <1>2, <1>3, <1>4, <1>5, <1>6 DEF ClientNext

\* The errors of the methods differ from each other and from other results.
LEMMA SentinelsDiffer ==
  ASSUME NEW e \in Endpoints
  PROVE  /\ Sentinel[e] \notin {"none", "response", "status", "undecodable", "failed"}
         /\ \A f \in Endpoints : Sentinel[e] = Sentinel[f] => e = f
BY DEF Sentinel, Endpoints

\* Every step leaves callers with the truth about their endpoint.
LEMMA SentinelStep == ClientInv /\ [ClientNext]_allVars => SentinelIsTrue'
<1> SUFFICES ASSUME ClientInv, [ClientNext]_allVars PROVE SentinelIsTrue'
  OBVIOUS
<1> USE DEF ClientInv, SentinelIsTrue
<1>1. ASSUME in' = in, got' = got PROVE SentinelIsTrue'
  BY <1>1
<1>2. CASE UNCHANGED allVars
  BY <1>1, <1>2 DEF allVars, vars, requestVars, clientVars
<1>3. ASSUME NEW r \in Requests, NEW i \in Inputs, Call(r, i) PROVE SentinelIsTrue'
  <2>1. in' = [in EXCEPT ![r] = i] /\ got' = got /\ got[r] \in {"none", "failed"}
    BY <1>3 DEF Call, Receive, Goes, OnlyClientsCall
  <2> QED
    BY <2>1, SentinelsDiffer DEF Inv, TypeOK
<1>4. ASSUME NEW r \in Requests, Serve(r) PROVE SentinelIsTrue'
  BY <1>1, <1>4, HowItMoves DEF Serve
<1>5. ASSUME NEW r \in Requests, Return(r) PROVE SentinelIsTrue'
  <2>1. got' = [got EXCEPT ![r] = Result(r)] /\ in' = in
    BY <1>5 DEF Return, vars, requestVars
  <2>2. ASSUME NEW e \in Endpoints, Result(r) = Sentinel[e]
        PROVE  e \notin Implemented /\ in[r].path = e
    <3>1. sent[r] # <<>> /\ sent[r][1] = 501 /\ Result(r) = Sentinel[in[r].path]
      BY <2>2, SentinelsDiffer DEF Result
    <3>2. in[r].path \in Endpoints
      BY <3>1 DEF Inv, RepliesAgree, OnlyClientsCall, FromClient
    <3>3. in[r].path = e
      <4>1. PICK f \in Endpoints : f = in[r].path
        BY <3>2
      <4>2. Sentinel[e] = Sentinel[f]
        BY <2>2, <3>1, <4>1
      <4> QED
        BY <4>1, <4>2, SentinelsDiffer
    <3>4. in[r].path \notin Implemented
      BY <3>1 DEF StatusesAreTrue
    <3> QED
      BY <3>3, <3>4
  <2> QED
    BY <2>1, <2>2 DEF ClientTypeOK
<1>6. ASSUME NEW r \in Requests, GiveUp(r) PROVE SentinelIsTrue'
  BY <1>6, SentinelsDiffer DEF GiveUp, ClientTypeOK, vars, requestVars
<1>7. CASE (Sweep \/ Tick) /\ UNCHANGED clientVars
  BY <1>1, <1>7 DEF Sweep, Tick, requestVars, clientVars
<1> QED
  BY <1>2, <1>3, <1>4, <1>5, <1>6, <1>7 DEF ClientNext

----------------------------------------------------------------------------
(* Failures have somebody to blame.                                        *)

\* The cache's entries and the outcomes of its leaders are of proper kinds.
KindsAgree ==
  /\ \A k \in CacheKeys : items[k] # None => items[k].val.kind = "bytes"
  /\ \A q \in Requests : pc[q] = "store" => res[q].kind = "bytes"

\* They are by what is proved of the cache.
LEMMA CacheKinds == Proved!Inv => KindsAgree
BY DEF Proved!Inv, Proved!EntriesAreNewest, Proved!LeadersHoldNewest, KindsAgree

\* The outcome that a call is about to return, or returns, was so before, is
\* another's, is bytes, or is what the handler just left.
LEMMA HowOutcomesCome ==
  ASSUME Inv, KindsAgree, NEW r \in Requests, Progress(r),
         NEW q \in Requests, pc'[q] \in {"finish", "done"}
  PROVE  \/ pc[q] \in {"finish", "done"} /\ pc'[q] = pc[q] /\ res'[q] = res[q]
         \/ pc[r] = "finish" /\ res'[q] = res[r] /\ pc[q] # "done"
         \/ res'[q].kind = "bytes" /\ pc[q] # "done"
         \/ /\ q = r /\ pc[r] = "fetch" /\ res'[r].by = r
            /\ res'[r].kind = "nil" => sent'[r] # <<>>
<1> USE DEF Inv, TypeOK, Cache!TypeOK, Cache!Step
<1>1. CASE NotFound(r) \/ AllowRefresh(r) \/ Reply(r) \/ DirectReply(r)
  BY <1>1 DEF NotFound, AllowRefresh, Reply, DirectReply, cacheVars
<1>2. CASE DeleteEntry(r)
  BY <1>2 DEF DeleteEntry, Cache!Delete, Cache!callState
<1>3. CASE Lookup(r)
  <2>1. PICK k \in CacheKeys : \E t : Cache!Hit(r, k, t) \/ Cache!Miss(r, k, t)
    BY <1>3, CachedInput DEF Lookup, Goes, PlacesAgree
  <2>2. /\ pc[r] = "idle"
        /\ \/ items[k] # None /\ res' = [res EXCEPT ![r] = items[k].val]
              /\ pc' = [pc EXCEPT ![r] = "done"]
           \/ res' = res /\ pc' = [pc EXCEPT ![r] = "miss"]
    BY <2>1 DEF Cache!Hit, Cache!Miss, Cache!Begin, Cache!Live
  <2> QED
    BY <2>2 DEF KindsAgree
<1>4. CASE CacheStep(r)
  <2>1. CASE Cache!Join(r) \/ Cache!Lead(r) \/ Cache!RecheckMiss(r)
    BY <2>1 DEF Cache!Join, Cache!Lead, Cache!RecheckMiss
  <2>2. CASE Cache!RecheckHit(r)
    <3>1. key[r] \in CacheKeys
      BY <2>2 DEF Cache!RecheckHit
    <3> QED
      BY <2>2, <3>1 DEF Cache!RecheckHit, Cache!Live, KindsAgree
  <2>3. CASE Cache!Store(r)
    BY <2>3 DEF Cache!Store, KindsAgree
  <2>4. CASE Cache!Finish(r)
    BY <2>4 DEF Cache!Finish, Cache!Landed, Cache!Waiters
  <2> QED
    BY <1>4, <2>1, <2>2, <2>3, <2>4 DEF CacheStep
<1>5. CASE Dispatch(r)
  <2>1. PICK d \in Dispatched(in[r].path), size \in Sizes :
          /\ Cache!FetchReturn(r, d.kind, size)
          /\ sent' = [sent EXCEPT ![r] = @ \o d.sends]
    BY <1>5 DEF Dispatch
  <2>2. /\ pc[r] = "fetch" /\ res' = [res EXCEPT ![r] = Cache!Result(d.kind, res[r].fid, r, size)]
        /\ \A p \in Requests \ {r} : pc'[p] = pc[p]
    BY <2>1 DEF Cache!FetchReturn
  <2>3. d.kind = "nil" => sent'[r] # <<>>
    <3>1. sent[r] = <<>>
      BY <2>2 DEF RepliesAgree, PlacesAgree
    <3>2. sent'[r] = sent[r] \o d.sends
      BY <2>1
    <3>3. sent'[r] = d.sends
      BY <3>1, <3>2, Sends, FirstStays
    <3> QED
      BY <3>3, DispatchIsHonest
  <2> QED
    BY <2>2, <2>3 DEF Cache!Result
<1> QED
  BY <1>1, <1>2, <1>3, <1>4, <1>5 DEF Progress

\* A request that ends without a response has itself to blame, or its flight.
LEMMA HowItEnds ==
  ASSUME Inv, OnlyClientsCall, NEW r \in Requests, Progress(r),
         at'[r] = "done", sent'[r] = <<>>
  PROVE  \/ pc[r] = "done" /\ pc' = pc /\ res' = res /\ res[r].kind \in {"nil", "err"}
         \/ r \in left \/ Fails(r)
<1> USE DEF Inv, TypeOK, Goes, End
<1>1. ret[r] = "none" /\ at[r] # "done" /\ at[r] # "missing"
  BY HowItMoves DEF OnlyClientsCall
<1>2. CASE NotFound(r)
  BY <1>1, <1>2 DEF NotFound
<1>3. CASE AllowRefresh(r)
  BY <1>3 DEF AllowRefresh
<1>4. CASE DeleteEntry(r)
  BY <1>4 DEF DeleteEntry
<1>5. CASE Lookup(r)
  BY <1>5 DEF Lookup
<1>6. CASE CacheStep(r) \/ Dispatch(r)
  BY <1>1, <1>6 DEF CacheStep, Dispatch
<1>7. CASE Reply(r)
  <2>1. PICK e \in Endings(res[r].kind) : End(r, "cache", e.sends, e.ret)
    BY <1>7 DEF Reply
  <2>2. CASE res[r].kind \in {"nil", "err"}
    BY <1>7, <2>2 DEF Reply, cacheVars
  <2>3. CASE res[r].kind \notin {"nil", "err"}
    <3>1. e.ret = "err" \/ e.sends = <<200>>
      BY <2>3 DEF Endings
    <3>2. e.sends = <<200>> => sent'[r] # <<>>
      <4>1. sent[r] \in Seq(Statuses) /\ e.sends \in Seq(Statuses) /\ sent'[r] = sent[r] \o e.sends
        BY <2>1, Sends
      <4>2. e.sends = <<200>> => e.sends # <<>>
        OBVIOUS
      <4> QED
        BY <4>1, <4>2, FirstStays
    <3>3. ret'[r] = "err"
      BY <2>1, <3>1, <3>2
    <3> QED
      BY <1>1, <2>3, <3>3 DEF Fails
  <2> QED
    BY <2>2, <2>3
<1>8. CASE DirectReply(r)
  <2>1. PICK d \in Dispatched(in[r].path) :
          \E e \in Endings(d.kind) : End(r, "direct", d.sends \o e.sends, e.ret)
    BY <1>8 DEF DirectReply
  <2>2. PICK e \in Endings(d.kind) : End(r, "direct", d.sends \o e.sends, e.ret)
    BY <2>1
  <2>3. sent'[r] = sent[r] \o (d.sends \o e.sends) /\ sent[r] = <<>>
    BY <2>2 DEF RepliesAgree
  <2>4. d.sends \o e.sends \in Seq(Statuses)
    <3>1. d.sends \in Seq(Statuses) /\ e.sends \in Seq(Statuses)
      BY Sends
    <3> QED
      BY <3>1, Appending
  <2>5. d.sends \o e.sends = <<>>
    <3>1. sent'[r] = d.sends \o e.sends
      BY <2>3, <2>4, FirstStays
    <3> QED
      BY <3>1
  <2>6. ret'[r] = "err"
    <3>1. e.ret = "err"
      BY <2>5, DispatchIsHonest
    <3> QED
      BY <2>2, <3>1
  <2>7. pc[r] = "idle"
    BY <2>2 DEF PlacesAgree, Cache!TypeOK
  <2> QED
    BY <1>1, <2>6, <2>7 DEF Fails
<1> QED
  BY <1>2, <1>3, <1>4, <1>5, <1>6, <1>7, <1>8 DEF Progress

\* Every step finds somebody to blame for a failure it makes.
LEMMA BlameStep == ClientInv /\ KindsAgree /\ [ClientNext]_allVars => BlameFalls'
<1> SUFFICES ASSUME ClientInv, KindsAgree, [ClientNext]_allVars PROVE BlameFalls'
  OBVIOUS
<1> USE DEF ClientInv
<1>1. ASSUME UNCHANGED <<pc, res, at, sent, got, left, trouble>> PROVE BlameFalls'
  BY <1>1 DEF BlameFalls
<1>2. CASE UNCHANGED allVars
  BY <1>1, <1>2 DEF allVars, vars, cacheVars, requestVars, clientVars
<1>3. ASSUME NEW r \in Requests, NEW i \in Inputs, Call(r, i) PROVE BlameFalls'
  <2>1. /\ at[r] = "idle" /\ at' = [at EXCEPT ![r] = Route(i)] /\ Route(i) # "done"
        /\ UNCHANGED <<pc, res, sent, got, left, trouble>>
    BY <1>3, ClientRoute DEF Call, Receive, Goes, cacheVars
  <2> QED
    BY <2>1 DEF BlameFalls, Inv, TypeOK
<1>4. ASSUME NEW r \in Requests, Serve(r) PROVE BlameFalls'
  <2>1. /\ Inv /\ OnlyClientsCall /\ Progress(r) /\ got' = got /\ left' = left
        /\ \A x : x \in left \cup trouble => x \in left' \cup trouble'
        /\ Fails(r) => r \in left' \cup trouble'
    BY <1>4 DEF Serve
  <2>2. /\ at[r] # "done"
        /\ \A q \in Requests \ {r} : at'[q] = at[q]
        /\ \A q \in Requests \ {r} : sent'[q] = sent[q]
        /\ \A q \in Requests : sent[q] # <<>> => sent'[q] # <<>>
    BY <2>1, HowItMoves, HowItSends
  <2>3. ASSUME NEW q \in Requests, pc'[q] \in {"finish", "done"}
        PROVE  /\ res'[q].kind = "err" => res'[q].by \in left' \cup trouble'
               /\ res'[q].kind = "nil" => res'[q].by \in Requests /\ sent'[res'[q].by] # <<>>
    <3>1. CASE pc[q] \in {"finish", "done"} /\ res'[q] = res[q]
      BY <2>1, <2>2, <3>1 DEF BlameFalls
    <3>2. CASE pc[r] = "finish" /\ res'[q] = res[r]
      BY <2>1, <2>2, <3>2 DEF BlameFalls
    <3>3. CASE res'[q].kind = "bytes"
      BY <3>3
    <3>4. CASE q = r /\ pc[r] = "fetch" /\ res'[r].by = r /\ (res'[r].kind = "nil" => sent'[r] # <<>>)
      BY <2>1, <3>4 DEF Fails
    <3> QED
      BY <2>1, <2>3, <3>1, <3>2, <3>3, <3>4, HowOutcomesCome
  <2>4. ASSUME NEW q \in Requests, at'[q] = "done", sent'[q] = <<>>, q \notin left' \cup trouble'
        PROVE  pc'[q] = "done" /\ res'[q].kind \in {"nil", "err"}
    <3>1. CASE q = r
      BY <2>1, <2>4, <3>1, HowItEnds
    <3>2. CASE q # r
      <4>1. at[q] = "done" /\ pc[q] = "done" /\ res[q].kind \in {"nil", "err"}
        BY <2>1, <2>2, <2>4, <3>2 DEF BlameFalls
      <4> QED
        BY <2>1, <3>2, <4>1, ReturnedStays
    <3> QED
      BY <3>1, <3>2
  <2>5. ASSUME NEW q \in Requests, got'[q] = "failed", q \notin left'
        PROVE  at'[q] = "done" /\ sent'[q] = <<>>
    BY <2>1, <2>2, <2>5 DEF BlameFalls
  <2> QED
    BY <2>3, <2>4, <2>5 DEF BlameFalls
<1>5. ASSUME NEW r \in Requests, Return(r) PROVE BlameFalls'
  <2>1. /\ got' = [got EXCEPT ![r] = Result(r)]
        /\ UNCHANGED <<pc, res, at, sent, left, trouble>>
        /\ sent[r] # <<>> \/ at[r] = "done"
    BY <1>5 DEF Return, vars, cacheVars, requestVars, Ended, OnlyClientsCall
  <2>2. Result(r) = "failed" => sent[r] = <<>>
    <3>1. sent[r] # <<>> => in[r].path \in Endpoints
      BY DEF Inv, RepliesAgree, OnlyClientsCall, FromClient
    <3> QED
      BY <3>1, SentinelsDiffer DEF Result
  <2> QED
    BY <2>1, <2>2 DEF BlameFalls, ClientTypeOK
<1>6. ASSUME NEW r \in Requests, GiveUp(r) PROVE BlameFalls'
  BY <1>6 DEF GiveUp, BlameFalls, ClientTypeOK, vars, cacheVars, requestVars
<1>7. CASE (Sweep \/ Tick) /\ UNCHANGED clientVars
  BY <1>1, <1>7 DEF Sweep, Tick, Cache!Sweep, Cache!Tick, Cache!callState, requestVars, clientVars
<1> QED
  BY <1>2, <1>3, <1>4, <1>5, <1>6, <1>7 DEF ClientNext

----------------------------------------------------------------------------
(* What a reader should know of.                                           *)

\* Before any call, the invariant holds.
LEMMA ClientInvInit == ClientInit => ClientInv
<1> SUFFICES ASSUME ClientInit PROVE ClientInv
  OBVIOUS
<1>1. Init
  BY DEF ClientInit
<1>2. Inv
  BY <1>1, InvInit
<1>3. ClientTypeOK
  BY DEF ClientInit, ClientTypeOK, Results
<1>4. OnlyClientsCall /\ StatusesAreTrue /\ BlameFalls
  BY <1>1 DEF ClientInit, Init, Cache!Init, OnlyClientsCall, StatusesAreTrue, BlameFalls
<1>5. SentinelIsTrue
  BY SentinelsDiffer DEF ClientInit, SentinelIsTrue
<1> QED
  BY <1>2, <1>3, <1>4, <1>5 DEF ClientInv

\* The cache that clients' requests go through keeps what is proved of it.
LEMMA CacheOfClients ==
  ClientSpec => []KindsAgree /\ []Proved!FailuresNotCached
<1>1. ClientSpec => Proved!Spec
  BY ClientsUseDatasource, UsesCacheAsAllowed, SameCache, PTL DEF CacheSpec
<1>2. Proved!Spec => []Proved!Inv
  BY CacheAssumption, Proved!Invariance
<1>3. Proved!Inv => KindsAgree /\ Proved!FailuresNotCached
  BY CacheKinds DEF Proved!Inv
<1> QED
  BY <1>1, <1>2, <1>3, PTL

\* What clients were told, what was sent and what failed agree in every state.
THEOREM ClientInvariance == ClientSpec => []ClientInv
<1>1. ClientInv /\ KindsAgree /\ [ClientNext]_allVars => ClientInv'
  <2> SUFFICES ASSUME ClientInv, KindsAgree, [ClientNext]_allVars PROVE ClientInv'
    OBVIOUS
  <2>1. Inv'
    BY ClientStepIsStep, InvStep DEF ClientInv
  <2>2. /\ ClientTypeOK' /\ OnlyClientsCall' /\ StatusesAreTrue'
        /\ BlameFalls' /\ SentinelIsTrue'
    BY ClientTypeStep, OnlyClientsStep, StatusesStep, BlameStep, SentinelStep
  <2> QED
    BY <2>1, <2>2 DEF ClientInv
<1> QED
  BY <1>1, ClientInvInit, CacheOfClients, PTL DEF ClientSpec

\* A client that is told an endpoint is not implemented is told the truth, of
\* the endpoint it called (client.go:41-87, errors.go:10-15).
THEOREM ClientsToldTheTruth == ClientSpec => []SentinelIsTrue
<1>1. ClientInv => SentinelIsTrue
  BY DEF ClientInv
<1> QED
  BY <1>1, ClientInvariance, PTL

\* A client's cancellation, or another's failure, reaches only those that were
\* in the flight it ended (memory.go:194-212, client.go:108-112).
THEOREM CancellationIsContained == ClientSpec => []FailuresStayInTheFlight
<1>1. ClientInv /\ Proved!FailuresNotCached => FailuresStayInTheFlight
  <2> SUFFICES ASSUME ClientInv, Proved!FailuresNotCached,
                      NEW r \in Requests, got[r] = "failed", r \notin left \cup trouble
               PROVE  /\ pc[r] = "done" /\ res[r].by # r
                      /\ res[r].fid > closedAt[r]
                      /\ res[r].kind = "nil" \/ res[r].by \in left \cup trouble
    BY DEF FailuresStayInTheFlight
  <2>1. at[r] = "done" /\ sent[r] = <<>>
    BY DEF ClientInv, BlameFalls
  <2>2. pc[r] = "done" /\ res[r].kind \in {"nil", "err"}
    BY <2>1 DEF ClientInv, BlameFalls
  <2>3. /\ res[r].kind = "err" => res[r].by \in left \cup trouble
        /\ res[r].kind = "nil" => sent[res[r].by] # <<>>
    BY <2>2 DEF ClientInv, BlameFalls
  <2>4. ttl[r] > 0
    BY <2>2 DEF ClientInv, OnlyClientsCall
  <2>5. res[r].fid > closedAt[r]
    BY <2>2, <2>4 DEF Proved!FailuresNotCached, Proved!Failures
  <2> QED
    BY <2>1, <2>2, <2>3, <2>5
<1> QED
  BY <1>1, ClientInvariance, CacheOfClients, PTL
=============================================================================
