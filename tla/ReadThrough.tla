---------------------------- MODULE ReadThrough ----------------------------
(***************************************************************************)
(* What a read-through cache promises its callers, without a store, a      *)
(* clock or flights: a call is given the result of the newest fetch of its *)
(* key, as it stands at the moment the call returns; a failure is reported *)
(* once and then forgotten; and a key is fetched again only when nothing   *)
(* is kept for it.  What is kept may be forgotten at any time.             *)
(***************************************************************************)
EXTENDS Naturals

CONSTANTS
  Calls,     \* the calls that are made, each at most once
  Keys,      \* what they ask for
  Failures,  \* kinds of results that are not kept
  Outcome,   \* results of fetches
  None       \* nothing is kept

VARIABLES
  mode,      \* how far each call has come
  asked,     \* the key it asks for
  answer,    \* what it was given, once it is answered
  current,   \* the newest fetch of a key, running or kept, or None
  fetches    \* number of fetches made for a key

vars == <<mode, asked, answer, current, fetches>>

Init ==
  /\ mode = [c \in Calls |-> "idle"]
  /\ asked = [c \in Calls |-> None]
  /\ answer = [c \in Calls |-> None]
  /\ current = [k \in Keys |-> None]
  /\ fetches = [k \in Keys |-> 0]

Running(k) == current[k] # None /\ current[k].kind = "none"
Failed(k)  == current[k] # None /\ current[k].kind \in Failures
Kept(k)    == current[k] # None /\ current[k].kind = "bytes"

----------------------------------------------------------------------------
Goes(c, from, to, k) ==
  /\ mode[c] = from
  /\ mode' = [mode EXCEPT ![c] = to]
  /\ asked' = [asked EXCEPT ![c] = k]

Ask(c, k) ==
  /\ Goes(c, "idle", "waiting", k)
  /\ UNCHANGED <<answer, current, fetches>>

\* A call is answered at once with what is kept.
Serve(c, k) ==
  /\ Kept(k)
  /\ Goes(c, "idle", "answered", k)
  /\ answer' = [answer EXCEPT ![c] = current[k]]
  /\ UNCHANGED <<current, fetches>>

\* A call that does without the cache, and what it is then given.
AskAlone(c, k) ==
  /\ Goes(c, "idle", "alone", k)
  /\ UNCHANGED <<answer, current, fetches>>

AnswerAlone(c) ==
  /\ mode[c] = "alone"
  /\ mode' = [mode EXCEPT ![c] = "answered"]
  /\ answer'[c] \in Outcome /\ answer'[c].by = c
  /\ answer' = [answer EXCEPT ![c] = answer'[c]]
  /\ UNCHANGED <<asked, current, fetches>>

\* The newest fetch of k is the n-th, made by c, and has come to this.
Becomes(k, kind, c, n) ==
  LET o == current'[k] IN
  /\ o \in Outcome /\ o.kind = kind /\ o.by = c /\ o.fid = n
  /\ current' = [current EXCEPT ![k] = o]

\* A waiting call fetches, when nothing is kept and nobody else is fetching.
Fetch(c) ==
  LET k == asked[c] IN
  /\ mode[c] = "waiting" /\ current[k] = None
  /\ fetches' = [fetches EXCEPT ![k] = @ + 1]
  /\ Becomes(k, "none", c, fetches[k] + 1)
  /\ UNCHANGED <<mode, asked, answer>>

\* The fetch returns.
Settle(k) ==
  /\ Running(k)
  /\ \E kind \in Failures \cup {"bytes"} :
       Becomes(k, kind, current[k].by, current[k].fid)
  /\ UNCHANGED <<mode, asked, answer, fetches>>

\* Waiting calls are given what has become of the newest fetch, together.
\* Bytes may be kept; a failure is not.
Answer(k, C) ==
  /\ C # {} /\ \A c \in C : mode[c] = "waiting" /\ asked[c] = k
  /\ Kept(k) \/ Failed(k)
  /\ mode' = [c \in Calls |-> IF c \in C THEN "answered" ELSE mode[c]]
  /\ answer' = [c \in Calls |-> IF c \in C THEN current[k] ELSE answer[c]]
  /\ \/ current' = [current EXCEPT ![k] = None]
     \/ Kept(k) /\ UNCHANGED current
  /\ UNCHANGED <<asked, fetches>>

Forget(S) ==
  /\ \A k \in S : Kept(k)
  /\ current' = [k \in Keys |-> IF k \in S THEN None ELSE current[k]]
  /\ UNCHANGED <<mode, asked, answer, fetches>>

Next ==
  \/ \E c \in Calls :
       \/ \E k \in Keys : Ask(c, k) \/ Serve(c, k) \/ AskAlone(c, k)
       \/ AnswerAlone(c) \/ Fetch(c)
  \/ \E k \in Keys : Settle(k) \/ \E C \in SUBSET Calls : Answer(k, C)
  \/ \E S \in SUBSET Keys : Forget(S)

Spec == Init /\ [][Next]_vars
=============================================================================
