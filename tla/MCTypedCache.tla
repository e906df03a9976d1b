---------------------------- MODULE MCTypedCache ----------------------------
(* Values of TypedCache's constants for TLC: a struct, the interface any,  *)
(* whose values are of any dynamic type or nil, and raw bytes.             *)
EXTENDS TypedCache, TLC

CONSTANTS c1, c2, c3, struct, any, raw, map, bytes, nil, json, typed

ThreeCalls == {c1, c2, c3}
OneJSON    == {json}
OneTyped   == {typed}
AllTypes   == {struct, any, raw}
AllDynamic == {struct, map, bytes}
DynOf ==
  (struct :> {struct}) @@ (any :> {struct, map, bytes, nil}) @@ (raw :> {bytes})

\* null decodes into everything; what some other map encodes, or some bytes
\* are, does not decode into the struct; any gets a map; and bytes are what
\* an entry is kept as.
DecodeOf ==
  [T \in AllTypes |-> [d \in {struct, map, bytes, nil} |->
     CASE T = struct -> IF d \in {map, bytes} THEN None ELSE struct
       [] T = any    -> IF d = nil THEN nil ELSE map
       [] T = raw    -> bytes]]

\* Slots share only the counters: a behaviour uses one of them, and no more
\* than two types, of which the raw bytes only in the JSON slot.
OneSlotInUse ==
  /\ items[typed] # None => items[json] = None /\ items[typed].val.dyn # bytes
  /\ \A c \in Calls : pc[c] # "idle" =>
       IF slot[c] = json
       THEN items[typed] = None /\ \A d \in Calls : slot[d] # typed
       ELSE /\ items[json] = None
            /\ type[c] # raw /\ (res[c].val # None => res[c].val.dyn # bytes)
  /\ \E T \in Types : \A c \in Calls : type[c] # T

CallSymmetry == Permutations(Calls)
=============================================================================
