---------------------------- MODULE CachePromise ----------------------------
(***************************************************************************)
(* MemoryCache seen by its callers: the mapping under which it implements  *)
(* ReadThrough.                                                            *)
(***************************************************************************)
EXTENDS MemoryCache

\* Nothing is kept is not a thing that is kept.
ASSUME NoneIsNoOutcome == None \notin Outcome

\* How far a call has come, as its caller can tell.
Mode(place) ==
  CASE place = "idle"   -> "idle"
    [] place = "direct" -> "alone"
    [] place = "done"   -> "answered"
    [] OTHER            -> "waiting"

\* The newest fetch of a key that somebody may still be given: what its
\* leader holds, or else the unexpired entry.
Holds(k)  == flight[k] # None /\ pc[flight[k]] \in {"fetch", "store", "finish"}
Newest(k) == IF Holds(k) THEN res[flight[k]] ELSE IF Live(k) THEN items[k].val ELSE None

mode    == [c \in Calls |-> Mode(pc[c])]
answer  == [c \in Calls |-> IF pc[c] = "done" THEN res[c] ELSE None]
current == [k \in Keys |-> Newest(k)]

Promise == INSTANCE ReadThrough WITH asked <- key, fetches <- begun

\* Whatever expires, is deleted, overflows or fails, and however the calls
\* interleave, callers see no more than the promise: an answer is the newest
\* fetch at the moment it is given, failures are told once, and nothing is
\* fetched while a result is kept (GetOrFetchBytes, memory.go:173-178).
KeepsPromise == Promise!Spec

\* What the proof of it needs beyond Inv: a running fetch has no result yet,
\* and an entry found by a flight, or stored by it, is the flight's result.
FlightsHoldEntries ==
  \A c \in Calls :
    /\ pc[c] = "fetch" => res[c].kind = "none" /\ res[c].by = c
    /\ pc[c] = "finish" /\ Live(key[c]) => items[key[c]].val = res[c]
=============================================================================
