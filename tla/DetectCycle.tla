---------------------------- MODULE DetectCycle ----------------------------
(***************************************************************************)
(* detectCycle: the depth-first search of ValidateSchema for a circular    *)
(* dependency among the parameters of a table, one call and one return of  *)
(* visit at a time.  The frames of the recursion are a stack.              *)
(***************************************************************************)
EXTENDS Naturals, Sequences

CONSTANT Name  \* the names parameters can have

VARIABLES
  params,      \* tableParameters, which the search only reads
  entry,       \* position of the next parameter the search starts from
  stack,       \* the running calls of visit; the last one is the innermost
  visitState,  \* the colour of each parameter
  result       \* what detectCycle returned, or "none" while it runs

vars == <<params, entry, stack, visitState, result>>

TableParameter ==
  [name : Name, dependsOn : Seq(Name), root : BOOLEAN, required : BOOLEAN]

Names == {params[i].name : i \in DOMAIN params}

\* What tableParameterByName finds: the dependencies of the parameter.
DependsOn(n) == params[CHOOSE i \in DOMAIN params : params[i].name = n].dependsOn

\* What validateTableParameters has checked before it starts the search.
Checked ==
  /\ params \in Seq(TableParameter)
  /\ \A i \in DOMAIN params : \A j \in DOMAIN params[i].dependsOn :
       params[i].dependsOn[j] \in Names

Frame == [name : Name, next : Nat \ {0}]
Top == stack[Len(stack)]

Init ==
  /\ Checked
  /\ entry = 1
  /\ stack = <<>>
  /\ visitState = [n \in Names |-> "unvisited"]
  /\ result = "none"

----------------------------------------------------------------------------
\* visit(n), called by the frames in callers.  An error ends all of them.
Visit(n, callers) ==
  \/ /\ visitState[n] = "visiting"
     /\ result' = "cycle"
     /\ UNCHANGED <<stack, visitState>>
  \/ /\ visitState[n] = "visited"
     /\ stack' = callers
     /\ UNCHANGED <<visitState, result>>
  \/ /\ visitState[n] = "unvisited"
     /\ stack' = Append(callers, [name |-> n, next |-> 1])
     /\ visitState' = [visitState EXCEPT ![n] = "visiting"]
     /\ UNCHANGED result

\* The loop of detectCycle starts from the next parameter.
Enter ==
  /\ result = "none" /\ stack = <<>>
  /\ entry <= Len(params)
  /\ entry' = entry + 1
  /\ Visit(params[entry].name, stack)
  /\ UNCHANGED params

\* The innermost visit goes on to its next dependency.
Descend ==
  /\ result = "none" /\ stack # <<>>
  /\ Top.next <= Len(DependsOn(Top.name))
  /\ Visit(DependsOn(Top.name)[Top.next], [stack EXCEPT ![Len(stack)].next = @ + 1])
  /\ UNCHANGED <<params, entry>>

\* Mutant of Return: the colour of the node is left as it is.
ReturnUncoloured ==
  /\ result = "none" /\ stack # <<>>
  /\ Top.next > Len(DependsOn(Top.name))
  /\ stack' = SubSeq(stack, 1, Len(stack) - 1)
  /\ UNCHANGED <<params, entry, visitState, result>>

\* The innermost visit has been through its dependencies.
Return ==
  /\ result = "none" /\ stack # <<>>
  /\ Top.next > Len(DependsOn(Top.name))
  /\ visitState' = [visitState EXCEPT ![Top.name] = "visited"]
  /\ stack' = SubSeq(stack, 1, Len(stack) - 1)
  /\ UNCHANGED <<params, entry, result>>

\* detectCycle has been through the parameters.
Finish ==
  /\ result = "none" /\ stack = <<>>
  /\ entry > Len(params)
  /\ result' = "acyclic"
  /\ UNCHANGED <<params, entry, stack, visitState>>

Next == Enter \/ Descend \/ Return \/ Finish

Spec == Init /\ [][Next]_vars

----------------------------------------------------------------------------
(* What the search is to find, stated without it.                          *)

\* Parameters each of which depends on one of them: none of them can ever be
\* resolved.  In a finite graph this is a cycle.
Knot(S) == S # {} /\ \A n \in S : \E i \in DOMAIN DependsOn(n) : DependsOn(n)[i] \in S

Cyclic == \E S \in SUBSET Names : Knot(S)

\* "detectCycle performs a depth-first search [...] to detect circular
\* dependencies" (validation.go:108): it reports one if, and only if, there
\* is one, whatever the order of the parameters and of their dependencies.
SearchIsRight ==
  /\ result = "acyclic" => ~Cyclic
  /\ result = "cycle" => Cyclic

----------------------------------------------------------------------------
(* The invariant the proof rests on.                                       *)

TypeOK ==
  /\ Checked
  /\ entry \in Nat \ {0}
  /\ stack \in Seq(Frame)
  /\ visitState \in [Names -> {"unvisited", "visiting", "visited"}]
  /\ result \in {"none", "acyclic", "cycle"}

\* "visiting: the node is on the current DFS path".
StackIsVisiting ==
  /\ \A i \in DOMAIN stack :
       stack[i].name \in Names /\ visitState[stack[i].name] = "visiting"
  /\ \A i, j \in DOMAIN stack : stack[i].name = stack[j].name => i = j
  /\ \A n \in Names :
       visitState[n] = "visiting" => \E i \in DOMAIN stack : stack[i].name = n

\* Each frame was called for a dependency of the one below it.
StackIsPath ==
  \A i \in DOMAIN stack : i + 1 \in DOMAIN stack =>
    /\ stack[i].next - 1 \in DOMAIN DependsOn(stack[i].name)
    /\ DependsOn(stack[i].name)[stack[i].next - 1] = stack[i + 1].name

\* The dependencies a frame has called visit for were explored, but for the
\* one it waits for.
FramesProgress ==
  \A i \in DOMAIN stack : \A j \in DOMAIN DependsOn(stack[i].name) :
    j < stack[i].next =>
      \/ visitState[DependsOn(stack[i].name)[j]] = "visited"
      \/ /\ i + 1 \in DOMAIN stack
         /\ j = stack[i].next - 1

\* "visited: the node and all its descendants have been fully explored
\* without finding a cycle".
Visited == {n \in Names : visitState[n] = "visited"}

VisitedIsClosed ==
  \A n \in Visited : \A j \in DOMAIN DependsOn(n) : DependsOn(n)[j] \in Visited

VisitedIsAcyclic == \A S \in SUBSET Visited : ~Knot(S)

EntriesVisited ==
  \A i \in DOMAIN params : i < entry => visitState[params[i].name] # "unvisited"

Inv ==
  /\ TypeOK /\ StackIsVisiting /\ StackIsPath /\ FramesProgress
  /\ VisitedIsClosed /\ VisitedIsAcyclic /\ EntriesVisited
  /\ SearchIsRight
=============================================================================
