--------------------------- MODULE KeyComparison ---------------------------
(***************************************************************************)
(* Pairs of requests, to compare their cache keys with what they ask: one  *)
(* request fills the cache, another looks its own key up.                  *)
(***************************************************************************)
EXTENDS CacheKey

CONSTANT Requests  \* the requests that are compared

ASSUME RequestsAssumption ==
  /\ None \notin Requests /\ None \notin Seq(Nat)
  /\ \A in \in Requests : TypedFields(in)

VARIABLES first, second, scope
vars == <<first, second, scope>>

Init == first = None /\ second = None /\ scope \in Scopes

AskFirst ==
  /\ first = None
  /\ first' \in Requests
  /\ UNCHANGED <<second, scope>>

AskSecond ==
  /\ first # None /\ second = None
  /\ second' \in Requests
  /\ UNCHANGED <<first, scope>>

Forget ==
  /\ second # None
  /\ first' = None /\ second' = None
  /\ UNCHANGED scope

Next == AskFirst \/ AskSecond \/ Forget

Spec == Init /\ [][Next]_vars

----------------------------------------------------------------------------
(* Properties.                                                             *)

ShareAKey == second # None /\ SameKey(first, second, scope)

\* A cached response is never served to another question, tenant, datasource
\* or proxy, nor across two edits of the configuration a second or more apart,
\* nor (under ScopeUser) to another user: requests with one key agree on all
\* of these.  Excepted are users of whom one has as a login, email or name
\* what is another of these fields of the other: the key does not say which
\* field it was made from.
KeysSeparate == ShareAKey => SameQuestion(first, second) /\ InReach(first, second, scope)

\* The cache is of use: whoever asks the same thing, in whatever order it
\* lists the names, and (under ScopeDatasource) whatever user asks, has the
\* same key.
KeysAreShared ==
  /\ second # None
  /\ Keyable(first.ctx, scope) /\ Keyable(second.ctx, scope)
  /\ SameQuestion(first, second)
  /\ SameReach(first, second, scope)
  => SameKey(first, second, scope)

\* A key is "sha256(endpoint|minimalTypedFields)" (README.md:316): requests
\* whose typed fields differ have different keys.
TypedFieldsSeparateKeys == ShareAKey => SameQuestion(first, second)
=============================================================================
