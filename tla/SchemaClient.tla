---------------------------- MODULE SchemaClient ----------------------------
(***************************************************************************)
(* Clients and the datasource that serves them: a request of               *)
(* SchemaDatasource is a call of one of Client's Fetch methods, which      *)
(* returns what it makes of the response, or gives up when its context is  *)
(* done.  HTTP and the plugin's transport between the two are external:    *)
(* they carry the first response, report an error when there is none, and  *)
(* end the context of a request whose client has given up.                 *)
(***************************************************************************)
EXTENDS SchemaDatasource

VARIABLES
  got,      \* what the call returned, or "none"
  partial,  \* the handler, run for this request, reports partial failures
  left,     \* calls that have given up
  trouble   \* history: requests whose handler or sender failed by itself

clientVars == <<got, partial, left, trouble>>
allVars    == <<vars, clientVars>>

\* Mutant of Sentinel: the methods have the error of one of them.
SentinelCopied == [e \in Endpoints |-> "ErrColumnsNotImplemented"]

\* The errors of the Fetch methods for a 501.
Sentinel ==
  [fullSchema           |-> "ErrSchemaNotImplemented",
   tables               |-> "ErrTablesNotImplemented",
   columns              |-> "ErrColumnsNotImplemented",
   tableParameterValues |-> "ErrTableParameterValuesNotImplemented",
   columnValues         |-> "ErrColumnValuesNotImplemented",
   functions            |-> "ErrFunctionsNotImplemented"]

\* A response; "unexpected status"; "failed to decode"; "request failed".
Results == {"none", "response", "status", "undecodable", "failed"}
           \cup {Sentinel[e] : e \in Endpoints}

ClientTypeOK ==
  /\ got \in [Requests -> Results]
  /\ partial \in [Requests -> BOOLEAN]
  /\ left \subseteq Requests /\ trouble \subseteq Requests

ClientInit ==
  /\ Init
  /\ got = [r \in Requests |-> "none"]
  /\ partial = [r \in Requests |-> FALSE]
  /\ left = {} /\ trouble = {}

----------------------------------------------------------------------------
\* A Fetch method posts its request, as JSON, to an endpoint of its own.
FromClient(i) == i.base /\ i.path \in Endpoints /\ i.body = "ok"

\* The request arrives.  Of all responses only that of functions may not come
\* back as it was, so only its handler's partial failures are told apart.
Call(r, i) ==
  /\ FromClient(i)
  /\ Receive(r, i)
  /\ \E p \in IF i.path = "functions" THEN BOOLEAN ELSE {FALSE} :
       partial' = [partial EXCEPT ![r] = p]
  /\ UNCHANGED <<got, left, trouble>>

\* The handler of r, or sending its response, fails by itself: the end of a
\* context is another reason for either.
Fails(r) ==
  /\ r \notin left
  /\ \/ pc[r] = "fetch" /\ res'[r].kind = "err"
     \/ ret[r] = "none" /\ ret'[r] = "err" /\ ~(pc[r] = "done" /\ res[r].kind = "err")

Serve(r) ==
  /\ Progress(r)
  /\ trouble' = IF Fails(r) THEN trouble \cup {r} ELSE trouble
  /\ UNCHANGED <<got, partial, left>>

\* The request whose handler made the response to r.
Origin(r) == IF pc[r] = "done" THEN res[r].by ELSE r

\* FunctionsResponse.Errors holds errors: encoded they are {}, which cannot be
\* decoded into an error.
Decodes(r) == in[r].path = "functions" => ~partial[Origin(r)]

Result(r) ==
  CASE sent[r] = <<>>                    -> "failed"
    [] sent[r] # <<>> /\ sent[r][1] = 501 -> Sentinel[in[r].path]
    [] sent[r] # <<>> /\ sent[r][1] = 200 -> IF Decodes(r) THEN "response" ELSE "undecodable"
    [] OTHER                             -> "status"

\* Mutant of Return: a request that was never answered is waited for.
ReturnAnswered(r) ==
  /\ got[r] = "none" /\ sent[r] # <<>>
  /\ got' = [got EXCEPT ![r] = Result(r)]
  /\ UNCHANGED <<vars, partial, left, trouble>>

\* The response, or the end of the request without one, reaches the client.
Return(r) ==
  /\ got[r] = "none"
  /\ sent[r] # <<>> \/ at[r] \in Ended
  /\ got' = [got EXCEPT ![r] = Result(r)]
  /\ UNCHANGED <<vars, partial, left, trouble>>

\* The context of the call is done, before the request arrives or after; the
\* server goes on, and what it answers is dropped.
GiveUp(r) ==
  /\ got[r] = "none"
  /\ got' = [got EXCEPT ![r] = "failed"]
  /\ left' = left \cup {r}
  /\ UNCHANGED <<vars, partial, trouble>>

ClientNext ==
  \/ \E r \in Requests :
       (\E i \in Inputs : Call(r, i)) \/ Serve(r) \/ Return(r) \/ GiveUp(r)
  \/ (Sweep \/ Tick) /\ UNCHANGED clientVars

ClientSpec == ClientInit /\ [][ClientNext]_allVars

\* Goroutines are scheduled, handlers and senders return, and the transport
\* reports a response or its absence; clients need not give up.
ClientFairSpec ==
  ClientSpec /\ \A r \in Requests : WF_allVars(Serve(r)) /\ WF_allVars(Return(r))

----------------------------------------------------------------------------
(* Properties.                                                             *)

\* A client that is told an endpoint is not implemented is told so of the
\* endpoint it called, and truly (errors.Is of README.md:500-507), whether its
\* request ran the dispatch itself or lost its client on the way.
SentinelIsTrue ==
  \A r \in Requests, e \in Endpoints :
    got[r] = Sentinel[e] => e \notin Implemented /\ in[r].path = e

\* A call fails without a response and without having given up, its own
\* handler and sender being well, only if it shared the flight of one that
\* gave up, or failed, or was answered alone, while that flight was under way:
\* a client's cancellation reaches nobody who calls after it.
FailuresStayInTheFlight ==
  \A r \in Requests :
    got[r] = "failed" /\ r \notin left \cup trouble =>
      /\ pc[r] = "done" /\ res[r].by # r
      /\ res[r].fid > closedAt[r]
      /\ res[r].kind = "nil" \/ res[r].by \in left \cup trouble

\* What these rest on: requests are of clients and go through handlers; a 501
\* is sent only for want of one; and every failure has somebody to blame.
OnlyClientsCall ==
  \A r \in Requests :
    /\ at[r] = "idle" => got[r] \in {"none", "failed"}
    /\ at[r] # "idle" => FromClient(in[r]) /\ at[r] \notin {"forwarded", "missing", "rejected"}
    /\ ret[r] # "none" => at[r] = "done"
    /\ pc[r] # "idle" => ttl[r] > 0

StatusesAreTrue ==
  \A r \in Requests : sent[r] # <<>> /\ sent[r][1] = 501 => in[r].path \notin Implemented

BlameFalls ==
  \A r \in Requests :
    /\ pc[r] \in {"finish", "done"} /\ res[r].kind = "err" => res[r].by \in left \cup trouble
    /\ pc[r] \in {"finish", "done"} /\ res[r].kind = "nil" =>
         res[r].by \in Requests /\ sent[res[r].by] # <<>>
    /\ at[r] = "done" /\ sent[r] = <<>> /\ r \notin left \cup trouble =>
         pc[r] = "done" /\ res[r].kind \in {"nil", "err"}
    /\ got[r] = "failed" /\ r \notin left => at[r] = "done" /\ sent[r] = <<>>

ClientInv ==
  /\ Inv /\ ClientTypeOK
  /\ OnlyClientsCall /\ StatusesAreTrue /\ BlameFalls /\ SentinelIsTrue

\* Every call of a client returns, without the help of a deadline.
EveryCallReturns == \A r \in Requests : at[r] # "idle" ~> got[r] # "none"

\* "Partial failures can be reported via the Errors field on each response
\* type" (README.md:509): a response that is sent reaches the caller.
ResponsesArrive == \A r \in Requests : got[r] # "undecodable"
=============================================================================
