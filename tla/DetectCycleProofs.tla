------------------------- MODULE DetectCycleProofs -------------------------
(* Proofs, for lists of table parameters of any length, that detectCycle's *)
(* search reports a circular dependency if, and only if, there is one.     *)
EXTENDS DetectCycle, SequenceTheorems, TLAPS

\* Positions in a stack that grows from l frames to one more.
LEMMA Positions ==
  ASSUME NEW l \in Nat
  PROVE  /\ \A i : i \in 1 .. l + 1 <=> i \in 1 .. l \/ i = l + 1
         /\ l + 1 \notin 1 .. l /\ l + 1 \in 1 .. l + 1
         /\ l # 0 => l \in 1 .. l
         /\ \A i \in 1 .. l : i + 1 \in 1 .. l + 1 /\ (i # l <=> i + 1 \in 1 .. l)
         /\ \A i \in 1 .. l : i # l <=> i < l
         /\ (l + 1) + 1 \notin 1 .. l + 1
OBVIOUS

\* Indices of dependencies, before and after one of them.
LEMMA Successor ==
  /\ \A a \in Nat : (a + 1) - 1 = a
  /\ \A a, b \in Nat : a < b + 1 => a < b \/ a = b
  /\ \A a \in Nat \ {0} : ~(a < 1)
OBVIOUS

\* The dependencies of a parameter are parameters.
LEMMA Dependencies ==
  ASSUME Checked, NEW n \in Names
  PROVE  /\ Len(DependsOn(n)) \in Nat
         /\ DOMAIN DependsOn(n) = 1 .. Len(DependsOn(n))
         /\ \A j \in DOMAIN DependsOn(n) : j \in Nat \ {0} /\ DependsOn(n)[j] \in Names
<1> DEFINE i == CHOOSE x \in DOMAIN params : params[x].name = n
<1>1. i \in DOMAIN params /\ params[i] \in TableParameter
  BY DEF Checked, Names
<1>2. DependsOn(n) = params[i].dependsOn
  BY DEF DependsOn
<1>3. DependsOn(n) \in Seq(Name)
  BY <1>1, <1>2 DEF TableParameter
<1>4. \A j \in DOMAIN params[i].dependsOn : params[i].dependsOn[j] \in Names
  BY <1>1 DEF Checked
<1> HIDE DEF i
<1> QED
  BY <1>2, <1>3, <1>4

\* The search leaves the graph alone.
LEMMA SameGraph ==
  ASSUME params' = params
  PROVE  /\ Names' = Names
         /\ Checked' = Checked
         /\ \A n : DependsOn(n)' = DependsOn(n)
         /\ Cyclic' = Cyclic
BY DEF Names, Checked, DependsOn, Cyclic, Knot

----------------------------------------------------------------------------
(* What the three ways to change the stack do to its frames.               *)

\* A frame that goes on to its next dependency.
LEMMA AdvanceProperties ==
  ASSUME NEW s \in Seq(Frame), s # <<>>
  PROVE  LET t == [s EXCEPT ![Len(s)].next = @ + 1]
         IN  /\ t \in Seq(Frame)
             /\ Len(t) = Len(s)
             /\ \A i \in 1 .. Len(s) : t[i].name = s[i].name
             /\ \A i \in 1 .. Len(s) : i < Len(s) => t[i] = s[i]
             /\ t[Len(s)].next = s[Len(s)].next + 1
<1> DEFINE last == s[Len(s)]
           t == [s EXCEPT ![Len(s)].next = @ + 1]
           u == [last EXCEPT !.next = @ + 1]
<1>1. Len(s) \in 1 .. Len(s) /\ last \in Frame
  <2>1. Len(s) \in Nat \ {0}
    BY EmptySeq
  <2> QED
    BY <2>1, ElementOfSeq
<1>2. u \in Frame /\ u.name = last.name /\ u.next = last.next + 1
  BY <1>1 DEF Frame
<1>3. t = [s EXCEPT ![Len(s)] = u]
  OBVIOUS
<1>4. /\ t \in Seq(Frame)
      /\ Len(t) = Len(s)
      /\ \A i \in 1 .. Len(s) : t[i] = IF i = Len(s) THEN u ELSE s[i]
  BY <1>1, <1>2, <1>3, ExceptSeq
<1> HIDE DEF t, u
<1>5. /\ t \in Seq(Frame)
      /\ Len(t) = Len(s)
      /\ \A i \in 1 .. Len(s) : t[i].name = s[i].name
      /\ \A i \in 1 .. Len(s) : i < Len(s) => t[i] = s[i]
      /\ t[Len(s)].next = s[Len(s)].next + 1
  BY <1>1, <1>2, <1>4
<1> QED
  BY <1>5 DEF t

\* A call of visit that returns takes the top frame away.
LEMMA PopProperties ==
  ASSUME NEW s \in Seq(Frame), s # <<>>
  PROVE  LET t == SubSeq(s, 1, Len(s) - 1)
         IN  /\ t \in Seq(Frame)
             /\ Len(t) = Len(s) - 1
             /\ \A i \in 1 .. Len(s) - 1 : t[i] = s[i]
<1> DEFINE m == Len(s) - 1
           t == SubSeq(s, 1, m)
<1>1. m \in Nat /\ Len(s) = m + 1
  <2>1. Len(s) \in Nat /\ Len(s) # 0
    BY EmptySeq
  <2> QED
    BY <2>1
<1> HIDE DEF m
<1>2. \A i \in 1 .. m : s[i] \in Frame
  BY <1>1, ElementOfSeq
<1>3. /\ t \in Seq(Frame)
      /\ Len(t) = IF 1 <= m THEN m - 1 + 1 ELSE 0
      /\ \A i \in 1 .. m - 1 + 1 : t[i] = s[1 + i - 1]
  BY <1>1, <1>2, SubSeqProperties
<1> HIDE DEF t
<1>4. m - 1 + 1 = m /\ (~(1 <= m) => m = 0) /\ \A i \in 1 .. m : 1 + i - 1 = i
  BY <1>1
<1>5. /\ t \in Seq(Frame)
      /\ Len(t) = m
      /\ \A i \in 1 .. m : t[i] = s[i]
  BY <1>3, <1>4
<1> QED
  BY <1>5 DEF t, m

----------------------------------------------------------------------------
(* The invariant of the stack and the colours, apart from entry and result. *)

StackInv ==
  /\ Checked
  /\ stack \in Seq(Frame)
  /\ visitState \in [Names -> {"unvisited", "visiting", "visited"}]
  /\ StackIsVisiting /\ StackIsPath /\ FramesProgress
  /\ VisitedIsClosed /\ VisitedIsAcyclic

\* callers is the stack from which visit(n) is called: the stack itself for
\* a first call, and else the one whose top frame has just gone on to n.
Calls(n, callers) ==
  /\ callers \in Seq(Frame)
  /\ Len(callers) = Len(stack)
  /\ \A i \in 1 .. Len(stack) : callers[i].name = stack[i].name
  /\ \A i \in 1 .. Len(stack) : i < Len(stack) => callers[i] = stack[i]
  /\ stack # <<>> =>
       /\ callers[Len(stack)].next = stack[Len(stack)].next + 1
       /\ stack[Len(stack)].next \in DOMAIN DependsOn(Top.name)
       /\ n = DependsOn(Top.name)[stack[Len(stack)].next]

\* A first call has no callers.
LEMMA FirstCall ==
  ASSUME StackInv, stack = <<>>, NEW n \in Names
  PROVE  Calls(n, stack)
BY DEF StackInv, Calls

\* A later one is made by the top frame for a parameter of the table.
LEMMA LaterCall ==
  ASSUME StackInv, stack # <<>>, Top.next <= Len(DependsOn(Top.name))
  PROVE  /\ DependsOn(Top.name)[Top.next] \in Names
         /\ Calls(DependsOn(Top.name)[Top.next], [stack EXCEPT ![Len(stack)].next = @ + 1])
<1>1. Len(stack) \in DOMAIN stack /\ Top \in Frame /\ Top.name \in Names
  BY DEF StackInv, StackIsVisiting, Top
<1>2. Top.next \in DOMAIN DependsOn(Top.name)
  BY <1>1, Dependencies DEF StackInv, Frame
<1>3. DependsOn(Top.name)[Top.next] \in Names
  BY <1>1, <1>2, Dependencies DEF StackInv
<1> QED
  BY <1>2, <1>3, AdvanceProperties DEF StackInv, Calls, Top

----------------------------------------------------------------------------
\* A call of visit that reaches a new parameter keeps the invariant.
LEMMA PushStep ==
  ASSUME StackInv, params' = params,
         NEW n \in Names, NEW callers, Calls(n, callers),
         visitState[n] = "unvisited",
         stack' = Append(callers, [name |-> n, next |-> 1]),
         visitState' = [visitState EXCEPT ![n] = "visiting"]
  PROVE  StackInv'
<1> DEFINE L == Len(stack)
<1>1. L \in Nat /\ DOMAIN stack = 1 .. L
  BY DEF StackInv
<1>a. \A i \in 1 .. L : stack[i].next \in Nat
  <2>1. \A i \in 1 .. L : stack[i] \in Frame
    BY ElementOfSeq DEF StackInv
  <2> QED
    BY <2>1 DEF Frame
<1>0. /\ callers \in Seq(Frame) /\ Len(callers) = L
      /\ \A i \in 1 .. L : callers[i].name = stack[i].name
      /\ \A i \in 1 .. L : i < L => callers[i] = stack[i]
      /\ L # 0 => /\ callers[L].next = stack[L].next + 1
                  /\ stack[L].next \in DOMAIN DependsOn(stack[L].name)
                  /\ n = DependsOn(stack[L].name)[stack[L].next]
  BY DEF Calls, Top
<1> HIDE DEF L
<1>b. L \in Nat
  BY <1>1
<1>c. \A i : i \in 1 .. L + 1 <=> i \in 1 .. L \/ i = L + 1
  BY <1>b, Positions
<1>d. /\ \A i \in 1 .. L : stack[i].name \in Names /\ visitState[stack[i].name] = "visiting"
      /\ \A i, j \in 1 .. L : stack[i].name = stack[j].name => i = j
      /\ \A m \in Names : visitState[m] = "visiting" => \E i \in 1 .. L : stack[i].name = m
  BY <1>1 DEF StackInv, StackIsVisiting
<1>2. Checked' /\ Names' = Names /\ \A m : DependsOn(m)' = DependsOn(m)
  BY SameGraph DEF StackInv
<1>3. /\ stack' \in Seq(Frame)
      /\ Len(stack') = L + 1
      /\ \A i \in 1 .. L : stack'[i] = callers[i]
      /\ stack'[L + 1] = [name |-> n, next |-> 1]
  <2>1. [name |-> n, next |-> 1] \in Frame
    <3>1. PICK p \in DOMAIN params : params[p].name = n /\ params[p] \in TableParameter
      BY DEF StackInv, Checked, Names
    <3>2. n \in Name
      BY <3>1 DEF TableParameter
    <3> QED
      BY <3>2 DEF Frame
  <2> QED
    BY <1>0, <2>1, AppendProperties
<1>4. DOMAIN stack' = 1 .. L + 1
  BY <1>3
<1>5. /\ visitState' \in [Names -> {"unvisited", "visiting", "visited"}]
      /\ visitState'[n] = "visiting"
      /\ \A m \in Names : m # n => visitState'[m] = visitState[m]
  BY DEF StackInv
<1>6. \A i \in 1 .. L : stack'[i].name = stack[i].name /\ stack[i].name # n
  BY <1>0, <1>3, <1>d
<1>7. \A i \in 1 .. L : i < L => stack'[i] = stack[i]
  BY <1>0, <1>3
<1>8. StackIsVisiting'
  <2>1. \A i \in 1 .. L + 1 : stack'[i].name \in Names /\ visitState'[stack'[i].name] = "visiting"
    <3> SUFFICES ASSUME NEW i \in 1 .. L + 1
                 PROVE  stack'[i].name \in Names /\ visitState'[stack'[i].name] = "visiting"
      OBVIOUS
    <3>1. CASE i = L + 1
      BY <3>1, <1>3, <1>5
    <3>2. CASE i \in 1 .. L
      BY <3>2, <1>5, <1>6, <1>d
    <3> QED
      BY <1>c, <3>1, <3>2
  <2>2. \A i, j \in 1 .. L + 1 : stack'[i].name = stack'[j].name => i = j
    <3> SUFFICES ASSUME NEW i \in 1 .. L + 1, NEW j \in 1 .. L + 1,
                        stack'[i].name = stack'[j].name
                 PROVE  i = j
      OBVIOUS
    <3>1. CASE i \in 1 .. L /\ j \in 1 .. L
      BY <3>1, <1>6, <1>d
    <3>2. CASE i = L + 1 \/ j = L + 1
      <4>1. stack'[L + 1].name = n
        BY <1>3
      <4>2. i \notin 1 .. L /\ j \notin 1 .. L
        BY <1>6, <3>2, <4>1
      <4> QED
        BY <1>c, <4>2
    <3> QED
      BY <1>c, <3>1, <3>2
  <2>3. ASSUME NEW m \in Names, visitState'[m] = "visiting"
        PROVE  \E i \in 1 .. L + 1 : stack'[i].name = m
    <3>1. CASE m = n
      BY <3>1, <1>3, <1>c
    <3>2. CASE m # n
      <4>1. PICK i \in 1 .. L : stack[i].name = m
        BY <1>5, <1>d, <2>3, <3>2
      <4> QED
        BY <1>c, <1>6, <4>1
    <3> QED
      BY <3>1, <3>2
  <2> QED
    BY <1>2, <1>4, <2>1, <2>2, <2>3 DEF StackIsVisiting
<1>9. StackIsPath'
  <2> SUFFICES ASSUME NEW i \in 1 .. L + 1, i + 1 \in 1 .. L + 1
               PROVE  /\ stack'[i].next - 1 \in DOMAIN DependsOn(stack'[i].name)
                      /\ DependsOn(stack'[i].name)[stack'[i].next - 1] = stack'[i + 1].name
    BY <1>2, <1>4 DEF StackIsPath
  <2>1. i \in 1 .. L
    BY <1>b, Positions
  <2>2. CASE i # L
    <3>1. i + 1 \in 1 .. L /\ i < L
      BY <1>b, <2>1, <2>2, Positions
    <3>2. stack'[i] = stack[i] /\ stack'[i + 1].name = stack[i + 1].name
      BY <1>6, <1>7, <2>1, <3>1
    <3> QED
      BY <1>1, <2>1, <3>1, <3>2 DEF StackInv, StackIsPath
  <2>3. CASE i = L
    <3>1. L # 0 /\ stack'[L].next = stack[L].next + 1 /\ stack'[L].name = stack[L].name
      BY <1>0, <1>3, <1>b, <2>1, <2>3
    <3>2. stack'[L].next - 1 = stack[L].next
      BY <1>a, <2>1, <2>3, <3>1, Successor
    <3> QED
      BY <1>0, <1>3, <2>3, <3>1, <3>2
  <2> QED
    BY <2>2, <2>3
<1>10. FramesProgress'
  <2> SUFFICES ASSUME NEW i \in 1 .. L + 1, NEW j \in DOMAIN DependsOn(stack'[i].name),
                      j < stack'[i].next
               PROVE  \/ visitState'[DependsOn(stack'[i].name)[j]] = "visited"
                      \/ i + 1 \in 1 .. L + 1 /\ j = stack'[i].next - 1
    BY <1>2, <1>4 DEF FramesProgress
  <2>1. stack'[i].name \in Names
    BY <1>2, <1>4, <1>8 DEF StackIsVisiting
  <2>2. j \in Nat \ {0} /\ DependsOn(stack'[i].name)[j] \in Names
    BY <2>1, Dependencies DEF StackInv
  <2>3. \A m \in Names : visitState[m] = "visited" => visitState'[m] = "visited"
    BY <1>5
  <2>4. CASE i = L + 1
    BY <1>3, <2>2, <2>4, Successor
  <2>5. CASE i \in 1 .. L /\ i # L
    <3>1. i + 1 \in 1 .. L + 1 /\ stack'[i] = stack[i]
      BY <1>7, <1>b, <2>5, Positions
    <3>2. \/ visitState[DependsOn(stack[i].name)[j]] = "visited"
          \/ j = stack[i].next - 1
      BY <1>1, <2>5, <3>1 DEF StackInv, FramesProgress
    <3> QED
      BY <2>2, <2>3, <3>1, <3>2
  <2>6. CASE i \in 1 .. L /\ i = L
    <3>1. /\ L # 0 /\ i + 1 \in 1 .. L + 1 /\ i + 1 \notin 1 .. L
          /\ stack'[i].next = stack[i].next + 1 /\ stack'[i].name = stack[i].name
      BY <1>0, <1>3, <1>b, <2>6, Positions
    <3>2. stack[i].next \in Nat
      BY <1>a, <2>6
    <3>3. CASE j = stack[i].next
      <4>1. j = stack'[i].next - 1
        BY <3>1, <3>2, <3>3, Successor
      <4> QED
        BY <3>1, <4>1
    <3>4. CASE j < stack[i].next
      <4>1. visitState[DependsOn(stack[i].name)[j]] = "visited"
        BY <1>1, <2>6, <3>1, <3>4 DEF StackInv, FramesProgress
      <4> QED
        BY <2>2, <2>3, <3>1, <4>1
    <3>5. j < stack[i].next \/ j = stack[i].next
      BY <2>2, <3>1, <3>2, Successor
    <3> QED
      BY <3>3, <3>4, <3>5
  <2> QED
    BY <1>c, <2>4, <2>5, <2>6
<1>11. Visited' = Visited
  BY <1>2, <1>5 DEF Visited
<1>12. VisitedIsClosed' /\ VisitedIsAcyclic'
  <2>1. VisitedIsClosed'
    BY <1>2, <1>11 DEF StackInv, VisitedIsClosed
  <2>2. VisitedIsAcyclic'
    BY <1>2, <1>11 DEF StackInv, VisitedIsAcyclic, Knot
  <2> QED
    BY <2>1, <2>2
<1> QED
  BY <1>2, <1>3, <1>5, <1>8, <1>9, <1>10, <1>12 DEF StackInv

\* A call of visit that finds an explored parameter keeps the invariant.
LEMMA SkipStep ==
  ASSUME StackInv, params' = params,
         NEW n \in Names, NEW callers, Calls(n, callers),
         visitState[n] = "visited",
         stack' = callers, visitState' = visitState
  PROVE  StackInv'
<1> DEFINE L == Len(stack)
<1>1. L \in Nat /\ DOMAIN stack = 1 .. L
  BY DEF StackInv
<1>2. \A i \in 1 .. L : stack[i].next \in Nat
  <2>1. \A i \in 1 .. L : stack[i] \in Frame
    BY ElementOfSeq DEF StackInv
  <2> QED
    BY <2>1 DEF Frame
<1>3. /\ stack' \in Seq(Frame) /\ DOMAIN stack' = 1 .. L
      /\ \A i \in 1 .. L : stack'[i].name = stack[i].name
      /\ \A i \in 1 .. L : i < L => stack'[i] = stack[i]
      /\ L # 0 => /\ stack'[L].next = stack[L].next + 1
                  /\ stack[L].next \in DOMAIN DependsOn(stack[L].name)
                  /\ n = DependsOn(stack[L].name)[stack[L].next]
  BY DEF Calls, Top
<1> HIDE DEF L
<1>4. Checked' /\ Names' = Names /\ \A m : DependsOn(m)' = DependsOn(m)
  BY SameGraph DEF StackInv
<1>5. \A i \in 1 .. L : stack[i].name \in Names
  BY <1>1 DEF StackInv, StackIsVisiting
<1>6. StackIsVisiting'
  BY <1>1, <1>3, <1>4 DEF StackInv, StackIsVisiting
<1>7. StackIsPath'
  <2> SUFFICES ASSUME NEW i \in 1 .. L, i + 1 \in 1 .. L
               PROVE  /\ stack'[i].next - 1 \in DOMAIN DependsOn(stack'[i].name)
                      /\ DependsOn(stack'[i].name)[stack'[i].next - 1] = stack'[i + 1].name
    BY <1>3, <1>4 DEF StackIsPath
  <2>1. i < L
    BY <1>1, Positions
  <2> QED
    BY <1>1, <1>3, <2>1 DEF StackInv, StackIsPath
<1>8. FramesProgress'
  <2> SUFFICES ASSUME NEW i \in 1 .. L, NEW j \in DOMAIN DependsOn(stack[i].name),
                      j < stack'[i].next
               PROVE  \/ visitState[DependsOn(stack[i].name)[j]] = "visited"
                      \/ i + 1 \in 1 .. L /\ j = stack'[i].next - 1
    BY <1>3, <1>4 DEF FramesProgress
  <2>1. j \in Nat
    BY <1>5, Dependencies DEF StackInv
  <2>2. CASE i # L
    <3>1. i < L
      BY <1>1, <2>2, Positions
    <3> QED
      BY <1>1, <1>3, <3>1 DEF StackInv, FramesProgress
  <2>3. CASE i = L
    <3>1. L # 0 /\ i + 1 \notin 1 .. L
      BY <1>1, <2>3, Positions
    <3>2. j < stack[L].next \/ j = stack[L].next
      BY <1>2, <1>3, <2>1, <2>3, <3>1, Successor
    <3>3. CASE j = stack[L].next
      BY <1>3, <2>3, <3>1, <3>3
    <3>4. CASE j < stack[L].next
      BY <1>1, <2>3, <3>1, <3>4 DEF StackInv, FramesProgress
    <3> QED
      BY <3>2, <3>3, <3>4
  <2> QED
    BY <2>2, <2>3
<1>9. Visited' = Visited
  BY <1>4 DEF Visited
<1>10. VisitedIsClosed' /\ VisitedIsAcyclic'
  BY <1>4, <1>9 DEF StackInv, VisitedIsClosed, VisitedIsAcyclic, Knot
<1> QED
  BY <1>3, <1>4, <1>6, <1>7, <1>8, <1>10 DEF StackInv

\* A call of visit that reaches a parameter of the path has found a cycle:
\* the frames from that parameter's on.
LEMMA BackEdge ==
  ASSUME StackInv, NEW n \in Names, NEW callers, Calls(n, callers),
         visitState[n] = "visiting"
  PROVE  Cyclic
<1> DEFINE L == Len(stack)
<1>1. L \in Nat /\ DOMAIN stack = 1 .. L
  BY DEF StackInv
<1>2. PICK i \in 1 .. L : stack[i].name = n
  BY <1>1 DEF StackInv, StackIsVisiting
<1>3. /\ stack[L].next \in DOMAIN DependsOn(stack[L].name)
      /\ n = DependsOn(stack[L].name)[stack[L].next]
  BY <1>2 DEF Calls, Top
<1> HIDE DEF L
<1> DEFINE S == {stack[j].name : j \in i .. L}
<1>4. S \in SUBSET Names
  BY <1>1 DEF StackInv, StackIsVisiting
<1>5. n \in S
  BY <1>1, <1>2
<1>6. ASSUME NEW m \in S
      PROVE  \E d \in DOMAIN DependsOn(m) : DependsOn(m)[d] \in S
  <2>1. PICK j \in i .. L : stack[j].name = m
    OBVIOUS
  <2>2. j \in 1 .. L /\ (j # L => j + 1 \in 1 .. L /\ j + 1 \in i .. L)
    BY <1>1, <2>1
  <2>3. CASE j = L
    BY <1>3, <1>5, <2>1, <2>3
  <2>4. CASE j # L
    <3>1. stack[j + 1].name \in S
      BY <2>2, <2>4
    <3>2. /\ stack[j].next - 1 \in DOMAIN DependsOn(m)
          /\ DependsOn(m)[stack[j].next - 1] = stack[j + 1].name
      BY <1>1, <2>1, <2>2, <2>4 DEF StackInv, StackIsPath
    <3> QED
      BY <3>1, <3>2
  <2> QED
    BY <2>3, <2>4
<1> HIDE DEF S
<1> QED
  BY <1>4, <1>5, <1>6 DEF Cyclic, Knot

\* A call of visit that returns keeps the invariant: all it depends on was
\* explored before, and so it is on no cycle.
LEMMA PopStep ==
  ASSUME StackInv, params' = params,
         stack # <<>>, Top.next > Len(DependsOn(Top.name)),
         stack' = SubSeq(stack, 1, Len(stack) - 1),
         visitState' = [visitState EXCEPT ![Top.name] = "visited"]
  PROVE  StackInv'
<1> DEFINE L == Len(stack) - 1
           n == Top.name
<1>1. L \in Nat /\ Len(stack) = L + 1 /\ DOMAIN stack = 1 .. L + 1
  <2>1. Len(stack) \in Nat /\ Len(stack) # 0 /\ DOMAIN stack = 1 .. Len(stack)
    BY EmptySeq DEF StackInv
  <2> QED
    BY <2>1
<1>2. /\ stack' \in Seq(Frame) /\ Len(stack') = L
      /\ \A i \in 1 .. L : stack'[i] = stack[i]
  BY PopProperties DEF StackInv
<1>3. DOMAIN stack' = 1 .. L
  BY <1>2
<1>4. Top = stack[L + 1]
  BY <1>1 DEF Top
<1>5. \A i \in 1 .. L + 1 : stack[i].next \in Nat /\ stack[i].name \in Names
  <2>1. \A i \in 1 .. L + 1 : stack[i] \in Frame
    BY <1>1, ElementOfSeq DEF StackInv
  <2> QED
    BY <1>1, <2>1 DEF StackInv, StackIsVisiting, Frame
<1> HIDE DEF L
<1>6. L + 1 \in 1 .. L + 1 /\ (\A i \in 1 .. L : i \in 1 .. L + 1 /\ i # L + 1)
  BY <1>1, Positions
<1>7. n \in Names /\ visitState[n] = "visiting" /\ n = stack[L + 1].name
  BY <1>1, <1>4, <1>6 DEF StackInv, StackIsVisiting
<1> HIDE DEF n
<1>8. Checked' /\ Names' = Names /\ \A m : DependsOn(m)' = DependsOn(m)
  BY SameGraph DEF StackInv
<1>9. /\ visitState' \in [Names -> {"unvisited", "visiting", "visited"}]
      /\ visitState'[n] = "visited"
      /\ \A m \in Names : m # n => visitState'[m] = visitState[m]
  BY <1>7 DEF StackInv, n
<1>a. /\ \A i \in 1 .. L + 1 : visitState[stack[i].name] = "visiting"
      /\ \A i, j \in 1 .. L + 1 : stack[i].name = stack[j].name => i = j
  BY <1>1 DEF StackInv, StackIsVisiting
<1>10. \A i \in 1 .. L : stack[i].name # n
  BY <1>1, <1>6, <1>7 DEF StackInv, StackIsVisiting
<1>11. StackIsVisiting'
  <2>1. \A i \in 1 .. L : stack'[i].name \in Names /\ visitState'[stack'[i].name] = "visiting"
    BY <1>2, <1>5, <1>6, <1>9, <1>10, <1>a
  <2>2. \A i, j \in 1 .. L : stack'[i].name = stack'[j].name => i = j
    BY <1>2, <1>6, <1>a
  <2>3. ASSUME NEW m \in Names, visitState'[m] = "visiting"
        PROVE  \E i \in 1 .. L : stack'[i].name = m
    <3>1. m # n /\ visitState[m] = "visiting"
      BY <1>9, <2>3
    <3>2. PICK i \in 1 .. L + 1 : stack[i].name = m
      BY <1>1, <3>1 DEF StackInv, StackIsVisiting
    <3>3. i \in 1 .. L
      BY <1>1, <1>7, <3>1, <3>2, Positions
    <3> QED
      BY <1>2, <3>2, <3>3
  <2> QED
    BY <1>3, <1>8, <2>1, <2>2, <2>3 DEF StackIsVisiting
<1>12. StackIsPath'
  <2> SUFFICES ASSUME NEW i \in 1 .. L, i + 1 \in 1 .. L
               PROVE  /\ stack[i].next - 1 \in DOMAIN DependsOn(stack[i].name)
                      /\ DependsOn(stack[i].name)[stack[i].next - 1] = stack[i + 1].name
    BY <1>2, <1>3, <1>8 DEF StackIsPath
  <2> QED
    BY <1>1, <1>6 DEF StackInv, StackIsPath
<1>13. \A m \in Names : visitState[m] = "visited" => visitState'[m] = "visited"
  BY <1>9
<1>14. FramesProgress'
  <2> SUFFICES ASSUME NEW i \in 1 .. L, NEW j \in DOMAIN DependsOn(stack[i].name),
                      j < stack[i].next
               PROVE  \/ visitState'[DependsOn(stack[i].name)[j]] = "visited"
                      \/ i + 1 \in 1 .. L /\ j = stack[i].next - 1
    BY <1>2, <1>3, <1>8 DEF FramesProgress
  <2>1. DependsOn(stack[i].name)[j] \in Names
    BY <1>5, <1>6, Dependencies DEF StackInv
  <2>2. \/ visitState[DependsOn(stack[i].name)[j]] = "visited"
        \/ j = stack[i].next - 1
    BY <1>1, <1>6 DEF StackInv, FramesProgress
  <2>3. CASE i # L
    <3>1. i + 1 \in 1 .. L
      BY <1>1, <2>3, Positions
    <3> QED
      BY <1>13, <2>1, <2>2, <3>1
  <2>4. CASE i = L
    <3>1. DependsOn(stack[i].name)[stack[i].next - 1] = n
      BY <1>1, <1>6, <1>7, <2>4 DEF StackInv, StackIsPath
    <3> QED
      BY <1>9, <1>13, <2>1, <2>2, <3>1
  <2> QED
    BY <2>3, <2>4
<1>15. Visited' = Visited \cup {n}
  BY <1>7, <1>8, <1>9 DEF Visited
<1>16. \A j \in DOMAIN DependsOn(n) : DependsOn(n)[j] \in Visited
  <2> TAKE j \in DOMAIN DependsOn(n)
  <2>1. j \in Nat /\ j \in 1 .. Len(DependsOn(n)) /\ DependsOn(n)[j] \in Names
    BY <1>7, Dependencies DEF StackInv
  <2>2. j < stack[L + 1].next
    <3>1. Len(DependsOn(n)) \in Nat /\ stack[L + 1].next \in Nat
      BY <1>5, <1>6, <1>7, Dependencies DEF StackInv
    <3>2. stack[L + 1].next > Len(DependsOn(n))
      BY <1>4 DEF n
    <3> DEFINE x == Len(DependsOn(n))
               y == stack[L + 1].next
    <3> HIDE DEF x, y
    <3>3. \A u \in 1 .. x : x \in Nat /\ y \in Nat /\ y > x => u < y
      OBVIOUS
    <3> QED
      BY <2>1, <3>1, <3>2, <3>3 DEF x, y
  <2>3. (L + 1) + 1 \notin 1 .. L + 1
    BY <1>1, Positions
  <2>4. visitState[DependsOn(n)[j]] = "visited"
    BY <1>1, <1>6, <1>7, <2>2, <2>3 DEF StackInv, FramesProgress
  <2> QED
    BY <2>1, <2>4 DEF Visited
<1>17. VisitedIsClosed'
  BY <1>8, <1>15, <1>16 DEF StackInv, VisitedIsClosed
<1>18. VisitedIsAcyclic'
  <2>1. ASSUME NEW S \in SUBSET (Visited \cup {n}), Knot(S) PROVE FALSE
    <3>1. n \notin Visited
      BY <1>7 DEF Visited
    <3> DEFINE T == S \ {n}
    <3>2. T \in SUBSET Visited
      OBVIOUS
    <3>3. T # {}
      BY <1>16, <2>1, <3>1 DEF Knot
    <3>4. \A m \in T : \E i \in DOMAIN DependsOn(m) : DependsOn(m)[i] \in T
      BY <2>1, <3>1, <3>2 DEF Knot, StackInv, VisitedIsClosed
    <3> QED
      BY <3>2, <3>3, <3>4 DEF Knot, StackInv, VisitedIsAcyclic
  <2>2. \A S : Knot(S)' <=> Knot(S)
    BY <1>8 DEF Knot
  <2> QED
    BY <1>15, <2>1, <2>2 DEF VisitedIsAcyclic
<1> QED
  BY <1>2, <1>8, <1>9, <1>11, <1>12, <1>14, <1>17, <1>18 DEF StackInv

----------------------------------------------------------------------------
\* A search that is about to begin satisfies the invariant.
LEMMA InvInit == Init => Inv
<1> SUFFICES ASSUME Init PROVE Inv
  OBVIOUS
<1>1. TypeOK
  BY DEF Init, TypeOK
<1>2. StackIsVisiting /\ StackIsPath /\ FramesProgress
  BY DEF Init, StackIsVisiting, StackIsPath, FramesProgress
<1>3. Visited = {}
  BY DEF Init, Visited
<1>4. VisitedIsClosed /\ VisitedIsAcyclic
  BY <1>3 DEF VisitedIsClosed, VisitedIsAcyclic, Knot
<1>5. EntriesVisited
  <2>1. \A i \in DOMAIN params : ~(i < 1)
    BY DEF Init, Checked
  <2> QED
    BY <2>1 DEF Init, EntriesVisited
<1> QED
  BY <1>1, <1>2, <1>4, <1>5 DEF Init, Inv, SearchIsRight

\* A step that leaves the stack and the colours keeps the invariant of them.
LEMMA IdleStep ==
  ASSUME StackInv, params' = params, stack' = stack, visitState' = visitState
  PROVE  StackInv'
<1>1. Checked' /\ Names' = Names /\ \A m : DependsOn(m)' = DependsOn(m)
  BY SameGraph DEF StackInv
<1>2. Visited' = Visited
  BY <1>1 DEF Visited
<1>3. StackIsVisiting'
  BY <1>1 DEF StackInv, StackIsVisiting
<1>4. StackIsPath'
  BY <1>1 DEF StackInv, StackIsPath
<1>5. FramesProgress'
  BY <1>1 DEF StackInv, FramesProgress
<1>6. VisitedIsClosed'
  BY <1>1, <1>2 DEF StackInv, VisitedIsClosed
<1>7. VisitedIsAcyclic'
  BY <1>1, <1>2 DEF StackInv, VisitedIsAcyclic, Knot
<1> QED
  BY <1>1, <1>3, <1>4, <1>5, <1>6, <1>7 DEF StackInv

\* The colours a step of visit leaves are colours the entries keep.
LEMMA VisitStep ==
  ASSUME Inv, params' = params, result = "none",
         NEW n \in Names, NEW callers, Calls(n, callers), Visit(n, callers)
  PROVE  /\ StackInv'
         /\ visitState'[n] # "unvisited"
         /\ \A m \in Names : visitState[m] # "unvisited" => visitState'[m] # "unvisited"
         /\ result' = "none" \/ (result' = "cycle" /\ Cyclic)
<1>1. StackInv /\ visitState \in [Names -> {"unvisited", "visiting", "visited"}]
  BY DEF Inv, TypeOK, StackInv
<1>2. CASE visitState[n] = "visiting"
  <2>1. stack' = stack /\ visitState' = visitState /\ result' = "cycle"
    BY <1>2 DEF Visit
  <2>2. Cyclic
    BY <1>1, <1>2, BackEdge
  <2>3. StackInv'
    BY <1>1, <2>1, IdleStep
  <2> QED
    BY <1>2, <2>1, <2>2, <2>3
<1>3. CASE visitState[n] = "visited"
  <2>1. stack' = callers /\ visitState' = visitState /\ result' = result
    BY <1>3 DEF Visit
  <2>2. StackInv'
    BY <1>1, <1>3, <2>1, SkipStep
  <2> QED
    BY <1>3, <2>1, <2>2
<1>4. CASE visitState[n] = "unvisited"
  <2>1. /\ stack' = Append(callers, [name |-> n, next |-> 1])
        /\ visitState' = [visitState EXCEPT ![n] = "visiting"]
        /\ result' = result
    BY <1>4 DEF Visit
  <2>2. StackInv'
    BY <1>1, <1>4, <2>1, PushStep
  <2> QED
    BY <1>1, <2>1, <2>2
<1> QED
  BY <1>1, <1>2, <1>3, <1>4

\* Every step of the search keeps the invariant.
LEMMA InvStep == Inv /\ [Next]_vars => Inv'
<1> SUFFICES ASSUME Inv, [Next]_vars PROVE Inv'
  OBVIOUS
<1>1. StackInv /\ TypeOK /\ EntriesVisited /\ SearchIsRight
  BY DEF Inv, TypeOK, StackInv
<1>2. CASE UNCHANGED vars
  <2>1. StackInv'
    BY <1>1, <1>2, IdleStep DEF vars
  <2>2. EntriesVisited' /\ SearchIsRight'
    BY <1>1, <1>2, SameGraph DEF vars, EntriesVisited, SearchIsRight
  <2> QED
    BY <1>1, <1>2, <2>1, <2>2 DEF vars, Inv, TypeOK, StackInv
<1>3. CASE Enter
  <2> DEFINE n == params[entry].name
  <2>1. entry \in DOMAIN params /\ n \in Names
    BY <1>1, <1>3 DEF Enter, TypeOK, Checked, Names
  <2> HIDE DEF n
  <2>2. Calls(n, stack)
    BY <1>1, <1>3, <2>1, FirstCall DEF Enter
  <2>3. params' = params /\ result = "none" /\ Visit(n, stack)
    BY <1>3 DEF Enter, n
  <2>4. /\ StackInv'
        /\ visitState'[n] # "unvisited"
        /\ \A m \in Names : visitState[m] # "unvisited" => visitState'[m] # "unvisited"
        /\ result' = "none" \/ (result' = "cycle" /\ Cyclic)
    BY <2>1, <2>2, <2>3, VisitStep
  <2>5. entry' = entry + 1 /\ entry' \in Nat \ {0}
    BY <1>1, <1>3 DEF Enter, TypeOK
  <2>6. EntriesVisited'
    <3> SUFFICES ASSUME NEW i \in DOMAIN params, i < entry + 1
                 PROVE  visitState'[params[i].name] # "unvisited"
      BY <2>3, <2>5 DEF EntriesVisited
    <3>1. i \in Nat /\ entry \in Nat /\ params[i].name \in Names
      BY <1>1 DEF TypeOK, Checked, Names
    <3>2. i < entry \/ i = entry
      BY <3>1, Successor
    <3> QED
      BY <1>1, <2>4, <3>1, <3>2 DEF EntriesVisited, n
  <2>7. SearchIsRight'
    BY <2>3, <2>4, SameGraph DEF SearchIsRight
  <2> QED
    BY <2>4, <2>5, <2>6, <2>7 DEF Inv, TypeOK, StackInv
<1>4. CASE Descend
  <2> DEFINE n == DependsOn(Top.name)[Top.next]
             callers == [stack EXCEPT ![Len(stack)].next = @ + 1]
  <2>1. params' = params /\ result = "none" /\ stack # <<>> /\ Visit(n, callers) /\ entry' = entry
    BY <1>4 DEF Descend
  <2>2. n \in Names /\ Calls(n, callers)
    BY <1>1, <1>4, LaterCall DEF Descend
  <2> HIDE DEF n, callers
  <2>3. /\ StackInv'
        /\ \A m \in Names : visitState[m] # "unvisited" => visitState'[m] # "unvisited"
        /\ result' = "none" \/ (result' = "cycle" /\ Cyclic)
    BY <2>1, <2>2, VisitStep
  <2>4. EntriesVisited'
    BY <1>1, <2>1, <2>3 DEF EntriesVisited, Names
  <2>5. SearchIsRight'
    BY <2>1, <2>3, SameGraph DEF SearchIsRight
  <2> QED
    BY <1>1, <2>1, <2>3, <2>4, <2>5 DEF Inv, TypeOK, StackInv
<1>5. CASE Return
  <2>1. /\ params' = params /\ result' = result /\ result = "none" /\ entry' = entry
        /\ stack # <<>> /\ Top.next > Len(DependsOn(Top.name))
        /\ stack' = SubSeq(stack, 1, Len(stack) - 1)
        /\ visitState' = [visitState EXCEPT ![Top.name] = "visited"]
    BY <1>5 DEF Return
  <2>2. StackInv'
    BY <1>1, <2>1, PopStep
  <2>3. EntriesVisited'
    BY <1>1, <2>1 DEF TypeOK, EntriesVisited, Names
  <2>4. SearchIsRight'
    BY <2>1 DEF SearchIsRight
  <2> QED
    BY <1>1, <2>1, <2>2, <2>3, <2>4 DEF Inv, TypeOK, StackInv
<1>6. CASE Finish
  <2>1. /\ UNCHANGED <<params, entry, stack, visitState>>
        /\ stack = <<>> /\ entry > Len(params) /\ result' = "acyclic"
    BY <1>6 DEF Finish
  <2>2. Visited = Names
    <3> SUFFICES ASSUME NEW m \in Names PROVE visitState[m] = "visited"
      BY DEF Visited
    <3>1. PICK i \in DOMAIN params : params[i].name = m
      BY DEF Names
    <3>2. i < entry
      BY <1>1, <2>1 DEF TypeOK, Checked
    <3>3. visitState[m] # "unvisited"
      BY <1>1, <3>1, <3>2 DEF EntriesVisited
    <3>4. visitState[m] # "visiting"
      BY <1>1, <2>1 DEF StackInv, StackIsVisiting
    <3> QED
      BY <1>1, <3>3, <3>4 DEF TypeOK
  <2>3. ~Cyclic
    BY <1>1, <2>2 DEF StackInv, VisitedIsAcyclic, Cyclic
  <2>4. SearchIsRight'
    BY <2>1, <2>3, SameGraph DEF SearchIsRight
  <2>5. StackInv' /\ EntriesVisited'
    BY <1>1, <2>1, IdleStep DEF EntriesVisited
  <2> QED
    BY <1>1, <2>1, <2>4, <2>5 DEF Inv, TypeOK, StackInv
<1> QED
  BY <1>2, <1>3, <1>4, <1>5, <1>6 DEF Next

\* The colours mean what the comments of detectCycle say of them, at every
\* moment of every search.
THEOREM SearchInvariance == Spec => []Inv
<1>1. Inv /\ [Next]_vars => Inv'
  BY InvStep
<1> QED
  BY <1>1, InvInit, PTL DEF Spec

\* detectCycle reports a circular dependency if, and only if, there is one,
\* for parameters in any number and order.
THEOREM SearchCorrect == Spec => []SearchIsRight
<1>1. Inv => SearchIsRight
  BY DEF Inv
<1> QED
  BY <1>1, SearchInvariance, PTL
=============================================================================
