---------------------------- MODULE ParMakeProofs ---------------------------
(* Proofs about parallel_make, for every makefile: any number of rules,      *)
(* dependencies and goals.  First the search of main (parmake.c:31-71), then *)
(* the workers (parmake.c:73-222), any number of them.                       *)
EXTENDS ParMake, TLAPS, SequenceTheorems, FiniteSetTheorems, NaturalsInduction

Frame == [target : Vertices, i : Nat \ {0}]

OrderTypeOK == /\ main \in {"parse", "search", "ordered"}
               /\ nbs \in [Vertices -> Seq(Vertices)]
               /\ state \subseteq Vertices
               /\ data \in [Vertices -> {"NULL", "visited", "unvisited"}]
               /\ stack \in Seq(Frame)
               /\ items \in Seq(Vertices)

Queued == {items[n] : n \in 1 .. Len(items)}

\* Nothing is queued or marked while the makefile is parsed.
ParseOK == main = "parse" => items = <<>> /\ state = {}

\* A rule that has been met and is no longer open has been queued.
MarksOK == \A v \in state : data[v] # "visited" => v \in Queued

\* The neighbours a pending call has walked over are queued, except the one
\* whose own call is pending just above it on the stack.
StackOK == main = "search" =>
  /\ stack # <<>>
  /\ \A n \in 1 .. Len(stack) : \A j \in 1 .. stack[n].i - 1 :
       j \in 1 .. Len(nbs[stack[n].target]) =>
         \/ nbs[stack[n].target][j] \in Queued
         \/ n + 1 \in 1 .. Len(stack) /\ stack[n + 1].target = nbs[stack[n].target][j]

\* What DependenciesFirst says, element by element.
InOrder == \A n \in 1 .. Len(items) : \A j \in 1 .. Len(nbs[items[n]]) :
             \E m \in 1 .. n - 1 : items[m] = nbs[items[n]][j]

OrderInv == OrderTypeOK /\ ParseOK /\ MarksOK /\ StackOK /\ InOrder

---------------------------------------------------------------------------
LEMMA SentinelIsVertex == Sentinel \in Vertices
BY OrderAssumption DEF Sentinel, Vertices

\* The empty graph and the empty queue.
LEMMA OrderInitInv == OrderInit => OrderInv
<1> SUFFICES ASSUME OrderInit PROVE OrderInv
  OBVIOUS
<1>1. OrderTypeOK
  <2>1. items = <<>> /\ stack = <<>> /\ state = {} /\ main = "parse"
    BY DEF OrderInit
  <2>2. nbs \in [Vertices -> Seq(Vertices)]
    BY EmptySeq DEF OrderInit
  <2>3. data \in [Vertices -> {"NULL", "visited", "unvisited"}]
    BY DEF OrderInit
  <2> QED BY <2>1, <2>2, <2>3, EmptySeq DEF OrderTypeOK
<1>2. ParseOK /\ MarksOK /\ StackOK /\ InOrder
  BY DEF OrderInit, ParseOK, MarksOK, StackOK, InOrder
<1> QED BY <1>1, <1>2 DEF OrderInv

\* The parser adds an edge: nothing is queued yet.
LEMMA AddEdgeInv ==
  ASSUME OrderInv, AddDependency \/ AddGoal
  PROVE  OrderInv'
<1>1. PICK v \in Vertices, w \in Vertices : AddEdge(v, w)
  <2>1. CASE AddDependency
    BY <2>1 DEF AddDependency
  <2>2. CASE AddGoal
    BY <2>2, SentinelIsVertex DEF AddGoal
  <2> QED BY <2>1, <2>2
<1>2. main = "parse" /\ items = <<>> /\ state = {}
  BY DEF AddDependency, AddGoal, OrderInv, ParseOK
<1>3. UNCHANGED <<items, main, state, data, stack, cyclic>>
  BY <1>1 DEF AddEdge, marks
<1>4. nbs' \in [Vertices -> Seq(Vertices)]
  <2>1. nbs[v] \in Seq(Vertices) /\ nbs \in [Vertices -> Seq(Vertices)]
    BY DEF OrderInv, OrderTypeOK
  <2>2. Append(nbs[v], w) \in Seq(Vertices)
    BY <2>1, AppendProperties
  <2>3. nbs' = [nbs EXCEPT ![v] = Append(nbs[v], w)]
    BY <1>1 DEF AddEdge
  <2> QED BY ONLY <2>1, <2>2, <2>3
<1>5. OrderTypeOK'
  BY <1>3, <1>4 DEF OrderInv, OrderTypeOK
<1>6. ParseOK' /\ MarksOK' /\ StackOK' /\ InOrder'
  BY <1>2, <1>3 DEF ParseOK, MarksOK, StackOK, InOrder
<1> QED BY <1>5, <1>6 DEF OrderInv

\* iscycle("") opens the sentinel.
LEMMA BeginInv ==
  ASSUME OrderInv, Begin
  PROVE  OrderInv'
<1>1. /\ main = "parse" /\ main' = "search" /\ items = <<>> /\ state = {}
      /\ stack' = <<[target |-> Sentinel, i |-> 1]>>
      /\ state' = {Sentinel} /\ data' = [data EXCEPT ![Sentinel] = "visited"]
      /\ UNCHANGED <<items, nbs>>
  BY DEF Begin, Open, OrderInv, ParseOK
<1>2. Sentinel \in Vertices
  BY SentinelIsVertex
<1>3. [target |-> Sentinel, i |-> 1] \in Frame
  BY <1>2 DEF Frame
<1>4. stack' \in Seq(Frame) /\ Len(stack') = 1 /\ stack'[1] = [target |-> Sentinel, i |-> 1]
  BY <1>1, <1>3
<1>5. OrderTypeOK'
  BY <1>1, <1>2, <1>4 DEF OrderInv, OrderTypeOK
<1>6. ParseOK' /\ MarksOK' /\ InOrder'
  BY <1>1, <1>2 DEF OrderInv, OrderTypeOK, ParseOK, MarksOK, InOrder
<1>7. StackOK'
  BY <1>1, <1>4 DEF StackOK
<1> QED BY <1>5, <1>6, <1>7 DEF OrderInv

---------------------------------------------------------------------------
\* While the search goes on there is an innermost call.
LEMMA TopFrame ==
  ASSUME OrderInv, main = "search"
  PROVE  /\ Len(stack) \in Nat \ {0} /\ Call = stack[Len(stack)]
         /\ Call.target \in Vertices /\ Call.i \in Nat \ {0}
         /\ Neighbours = nbs[Call.target] /\ Neighbours \in Seq(Vertices)
         /\ Len(Neighbours) \in Nat
         /\ AtNeighbour => /\ Call.i \in 1 .. Len(Neighbours)
                           /\ nb = Neighbours[Call.i] /\ nb \in Vertices
<1>1. stack \in Seq(Frame) /\ stack # <<>> /\ nbs \in [Vertices -> Seq(Vertices)]
  BY DEF OrderInv, OrderTypeOK, StackOK
<1>2. Len(stack) \in Nat \ {0}
  BY <1>1, EmptySeq, LenProperties
<1>3. Call = stack[Len(stack)]
  BY DEF Call, Last
<1>4. Call \in Frame
  BY ONLY <1>1, <1>2, <1>3
<1>5. Call.target \in Vertices /\ Call.i \in Nat \ {0}
  BY ONLY <1>4 DEF Frame
<1>6. Neighbours = nbs[Call.target] /\ Neighbours \in Seq(Vertices) /\ Len(Neighbours) \in Nat
  BY ONLY <1>1, <1>5 DEF Neighbours
<1>7. AtNeighbour => Call.i \in 1 .. Len(Neighbours) /\ nb = Neighbours[Call.i]
  BY ONLY <1>5, <1>6 DEF AtNeighbour, nb
<1>8. AtNeighbour => nb \in Vertices
  BY ONLY <1>6, <1>7
<1> QED BY ONLY <1>2, <1>3, <1>5, <1>6, <1>7, <1>8

\* The innermost call goes on to its next neighbour.
LEMMA NextFrame ==
  ASSUME OrderInv, main = "search"
  PROVE  /\ NextNeighbour \in Seq(Frame) /\ Len(NextNeighbour) = Len(stack)
         /\ \A n \in 1 .. Len(stack) :
              /\ NextNeighbour[n].target = stack[n].target
              /\ n # Len(stack) => NextNeighbour[n].i = stack[n].i
              /\ n = Len(stack) => NextNeighbour[n].i = Call.i + 1
<1> DEFINE f == [target |-> Call.target, i |-> Call.i + 1]
<1>1. f \in Frame
  BY TopFrame DEF Frame
<1>2. stack \in Seq(Frame) /\ Len(stack) \in Nat \ {0} /\ Call = stack[Len(stack)]
  BY TopFrame DEF OrderInv, OrderTypeOK
<1>3. NextNeighbour = [stack EXCEPT ![Len(stack)] = f]
  BY DEF NextNeighbour
<1>4. f.target = Call.target /\ f.i = Call.i + 1
  OBVIOUS
<1> HIDE DEF f
<1>5. NextNeighbour \in Seq(Frame) /\ Len(NextNeighbour) = Len(stack)
  BY ONLY <1>1, <1>2, <1>3
<1>6. \A n \in 1 .. Len(stack) : NextNeighbour[n] = IF n = Len(stack) THEN f ELSE stack[n]
  BY ONLY <1>2, <1>3
<1> QED BY ONLY <1>2, <1>4, <1>5, <1>6

\* The neighbours the innermost call has walked over are queued.
LEMMA TopWalked ==
  ASSUME OrderInv, main = "search", NEW j \in 1 .. Call.i - 1, j \in 1 .. Len(Neighbours)
  PROVE  Neighbours[j] \in Queued
<1>1. \A n \in 1 .. Len(stack) : \A k \in 1 .. stack[n].i - 1 :
       k \in 1 .. Len(nbs[stack[n].target]) =>
         \/ nbs[stack[n].target][k] \in Queued
         \/ n + 1 \in 1 .. Len(stack) /\ stack[n + 1].target = nbs[stack[n].target][k]
  BY DEF OrderInv, StackOK
<1>2. Len(stack) \in 1 .. Len(stack) /\ Len(stack) + 1 \notin 1 .. Len(stack)
  BY TopFrame
<1>3. stack[Len(stack)] = Call /\ nbs[Call.target] = Neighbours
  BY TopFrame
<1> QED BY <1>1, <1>2, <1>3

---------------------------------------------------------------------------
\* A neighbour that has been met and closed is passed by.
LEMMA PassByInv ==
  ASSUME OrderInv, PassBy
  PROVE  OrderInv'
<1>1. /\ main = "search" /\ AtNeighbour /\ nb \in state /\ data[nb] # "visited"
      /\ stack' = NextNeighbour
      /\ UNCHANGED <<items, main, nbs, state, data>>
  BY DEF PassBy, AtNeighbour, marks
<1>2. OrderTypeOK'
  BY <1>1, NextFrame DEF OrderInv, OrderTypeOK
<1>3. ParseOK' /\ MarksOK' /\ InOrder'
  <2>1. Queued' = Queued
    BY <1>1 DEF Queued
  <2>2. ParseOK' /\ MarksOK'
    BY <1>1, <2>1 DEF OrderInv, ParseOK, MarksOK
  <2>3. InOrder'
    BY <1>1 DEF OrderInv, InOrder
  <2> QED BY <2>2, <2>3
<1>4. StackOK'
  <2>1. Len(stack') = Len(stack) /\ stack' # <<>>
    BY <1>1, NextFrame, TopFrame
  <2>2. ASSUME NEW n \in 1 .. Len(stack), NEW j \in 1 .. stack'[n].i - 1,
               j \in 1 .. Len(nbs[stack[n].target])
        PROVE  \/ nbs[stack[n].target][j] \in Queued
               \/ n + 1 \in 1 .. Len(stack) /\ stack[n + 1].target = nbs[stack[n].target][j]
    <3>1. CASE n # Len(stack)
      BY <1>1, <2>2, <3>1, NextFrame DEF OrderInv, StackOK
    <3>2. CASE n = Len(stack) /\ j # Call.i
      <4>1. j \in 1 .. Call.i - 1 /\ nbs[stack[n].target] = Neighbours
        BY <1>1, <2>2, <3>2, NextFrame, TopFrame
      <4>2. j \in 1 .. Len(Neighbours)
        BY ONLY <2>2, <4>1
      <4>3. Neighbours[j] \in Queued
        BY <1>1, <4>1, <4>2, TopWalked
      <4> QED BY ONLY <4>1, <4>3
    <3>3. CASE n = Len(stack) /\ j = Call.i
      <4>1. nbs[stack[n].target][j] = nb
        BY <1>1, <3>3, TopFrame
      <4> QED BY <1>1, <4>1 DEF OrderInv, MarksOK
    <3> QED BY <3>1, <3>2, <3>3
  <2>3. \A n \in 1 .. Len(stack) : stack'[n].target = stack[n].target
    BY <1>1, NextFrame
  <2>4. Queued' = Queued
    BY <1>1 DEF Queued
  <2> QED BY ONLY <1>1, <2>1, <2>2, <2>3, <2>4 DEF StackOK
<1> QED BY <1>2, <1>3, <1>4 DEF OrderInv

\* A neighbour that has not been met gets a call of its own.
LEMMA DescendStack ==
  ASSUME OrderInv, Descend
  PROVE  /\ stack' \in Seq(Frame) /\ Len(stack') = Len(stack) + 1 /\ stack' # <<>>
         /\ \A n \in 1 .. Len(stack) : stack'[n] = NextNeighbour[n]
         /\ \A n \in 1 .. Len(stack) : stack'[n].target = stack[n].target
         /\ stack'[Len(stack) + 1].target = nb /\ stack'[Len(stack) + 1].i = 1
<1> DEFINE f == [target |-> nb, i |-> 1]
           nn == NextNeighbour
<1>1. main = "search" /\ AtNeighbour /\ stack' = Append(nn, f)
  BY DEF Descend, AtNeighbour
<1>2. f \in Frame /\ f.target = nb /\ f.i = 1
  BY <1>1, TopFrame DEF Frame
<1>3. nn \in Seq(Frame) /\ Len(nn) = Len(stack) /\ Len(nn) \in Nat
  BY <1>1, NextFrame, TopFrame
<1>4. \A n \in 1 .. Len(stack) : nn[n].target = stack[n].target
  BY <1>1, NextFrame
<1> HIDE DEF f, nn
<1>5. /\ stack' \in Seq(Frame) /\ Len(stack') = Len(nn) + 1 /\ stack' # <<>>
      /\ \A n \in 1 .. Len(nn) : stack'[n] = nn[n]
      /\ stack'[Len(nn) + 1] = f
  BY ONLY <1>1, <1>2, <1>3, AppendProperties
<1> QED BY ONLY <1>2, <1>3, <1>4, <1>5 DEF nn

LEMMA DescendInv ==
  ASSUME OrderInv, Descend
  PROVE  OrderInv'
<1>1. /\ main = "search" /\ AtNeighbour /\ nb \notin state
      /\ state' = state \cup {nb} /\ data' = [data EXCEPT ![nb] = "visited"]
      /\ UNCHANGED <<items, main, nbs>>
  BY DEF Descend, Open, AtNeighbour
<1>2. nb \in Vertices
  BY <1>1, TopFrame
<1>3. /\ stack' \in Seq(Frame) /\ Len(stack') = Len(stack) + 1 /\ stack' # <<>>
      /\ \A n \in 1 .. Len(stack) : stack'[n] = NextNeighbour[n]
      /\ stack'[Len(stack) + 1].target = nb /\ stack'[Len(stack) + 1].i = 1
  BY DescendStack
<1>4. OrderTypeOK'
  <2>1. data' \in [Vertices -> {"NULL", "visited", "unvisited"}] /\ state' \subseteq Vertices
    <3>1. data \in [Vertices -> {"NULL", "visited", "unvisited"}] /\ state \subseteq Vertices
      BY DEF OrderInv, OrderTypeOK
    <3> QED BY ONLY <1>1, <1>2, <3>1
  <2>2. UNCHANGED <<items, main, nbs>> /\ stack' \in Seq(Frame)
    BY <1>1, <1>3
  <2> QED BY <2>1, <2>2 DEF OrderInv, OrderTypeOK
<1>5. ParseOK' /\ MarksOK' /\ InOrder'
  <2>1. Queued' = Queued
    BY <1>1 DEF Queued
  <2>2. ParseOK'
    BY <1>1 DEF ParseOK
  <2>3. MarksOK'
    <3>1. data \in [Vertices -> {"NULL", "visited", "unvisited"}] /\ MarksOK
      BY DEF OrderInv, OrderTypeOK
    <3>2. /\ data'[nb] = "visited"
          /\ \A v \in state' : v # nb => v \in state /\ (v \in Vertices => data'[v] = data[v])
      BY ONLY <1>1, <1>2, <3>1
    <3>3. state \subseteq Vertices
      BY DEF OrderInv, OrderTypeOK
    <3> QED BY ONLY <2>1, <3>1, <3>2, <3>3 DEF MarksOK
  <2>4. InOrder'
    <3>1. InOrder /\ items' = items /\ nbs' = nbs
      BY <1>1 DEF OrderInv
    <3> QED BY ONLY <3>1 DEF InOrder
  <2> QED BY <2>2, <2>3, <2>4
<1>6. StackOK'
  <2>1. ASSUME NEW n \in 1 .. Len(stack) + 1, NEW j \in 1 .. stack'[n].i - 1,
               j \in 1 .. Len(nbs[stack'[n].target])
        PROVE  \/ nbs[stack'[n].target][j] \in Queued
               \/ /\ n + 1 \in 1 .. Len(stack) + 1
                  /\ stack'[n + 1].target = nbs[stack'[n].target][j]
    <3>1. CASE n = Len(stack) + 1
      BY <1>2, <1>3, <2>1, <3>1
    <3>2. CASE n \in 1 .. Len(stack) /\ n # Len(stack)
      <4>1. stack'[n].target = stack[n].target /\ stack'[n].i = stack[n].i
        BY <1>1, <1>3, <3>2, NextFrame
      <4>2. \/ nbs[stack[n].target][j] \in Queued
            \/ n + 1 \in 1 .. Len(stack) /\ stack[n + 1].target = nbs[stack[n].target][j]
        BY <1>1, <2>1, <3>2, <4>1 DEF OrderInv, StackOK
      <4>3. n + 1 \in 1 .. Len(stack) => stack'[n + 1].target = stack[n + 1].target
        BY <1>1, <1>3, <3>2, NextFrame
      <4>4. Len(stack) \in Nat
        BY <1>1, TopFrame
      <4> QED BY <3>2, <4>1, <4>2, <4>3, <4>4
    <3>3. CASE n = Len(stack)
      <4>1. /\ n \in 1 .. Len(stack) /\ stack'[n].target = Call.target
            /\ stack'[n].i = Call.i + 1 /\ nbs[stack'[n].target] = Neighbours
        BY <1>1, <1>3, <3>3, NextFrame, TopFrame
      <4>2. CASE j = Call.i
        BY <1>1, <1>2, <1>3, <3>3, <4>1, <4>2, TopFrame
      <4>3. CASE j # Call.i
        <5>0. Call.i \in Nat \ {0}
          BY <1>1, TopFrame
        <5>1. j \in 1 .. Call.i - 1
          BY ONLY <4>1, <4>3, <5>0
        <5>2. j \in 1 .. Len(Neighbours)
          BY ONLY <2>1, <4>1
        <5>3. Neighbours[j] \in Queued
          BY <1>1, <5>1, <5>2, TopWalked
        <5> QED BY ONLY <4>1, <5>3
      <4> QED BY <4>2, <4>3
    <3>4. Len(stack) \in Nat
      BY <1>1, TopFrame
    <3> QED BY <3>1, <3>2, <3>3, <3>4
  <2>2. Queued' = Queued /\ nbs' = nbs
    BY <1>1 DEF Queued
  <2>3. Len(stack') = Len(stack) + 1 /\ stack' # <<>>
    BY ONLY <1>3
  <2>4. ASSUME NEW n \in 1 .. Len(stack'), NEW j \in 1 .. stack'[n].i - 1,
               j \in 1 .. Len(nbs'[stack'[n].target])
        PROVE  \/ nbs'[stack'[n].target][j] \in Queued'
               \/ n + 1 \in 1 .. Len(stack') /\ stack'[n + 1].target = nbs'[stack'[n].target][j]
    <3>1. n \in 1 .. Len(stack) + 1 /\ j \in 1 .. Len(nbs[stack'[n].target])
      BY ONLY <2>2, <2>3, <2>4
    <3>2. \/ nbs[stack'[n].target][j] \in Queued
          \/ /\ n + 1 \in 1 .. Len(stack) + 1
             /\ stack'[n + 1].target = nbs[stack'[n].target][j]
      BY ONLY <3>1, <2>1
    <3> QED BY ONLY <3>2, <2>2, <2>3
  <2> QED BY ONLY <2>3, <2>4 DEF StackOK
<1> QED BY <1>4, <1>5, <1>6 DEF OrderInv

\* A pending call met again ends the search; the queue stays as it is.
LEMMA MeetCycleInv ==
  ASSUME OrderInv, MeetCycle
  PROVE  OrderInv'
<1>1. /\ main' = "ordered" /\ stack' = <<>>
      /\ UNCHANGED <<items, nbs, state, data>>
  BY DEF MeetCycle, marks
<1>2. OrderTypeOK'
  BY <1>1, EmptySeq DEF OrderInv, OrderTypeOK
<1>3. ParseOK' /\ MarksOK' /\ InOrder' /\ StackOK'
  BY <1>1 DEF OrderInv, ParseOK, MarksOK, InOrder, StackOK, Queued
<1> QED BY <1>2, <1>3 DEF OrderInv

\* A call that has walked over all its neighbours queues its rule.
LEMMA CloseStack ==
  ASSUME OrderInv, Close
  PROVE  /\ stack' \in Seq(Frame) /\ Len(stack') = Len(stack) - 1
         /\ \A n \in 1 .. Len(stack) - 1 : stack'[n] = stack[n]
<1>1. main = "search" /\ stack' = SubSeq(stack, 1, Len(stack) - 1)
  BY DEF Close, Front
<1> DEFINE k == Len(stack) - 1
<1>2. stack \in Seq(Frame) /\ Len(stack) \in Nat \ {0}
  BY <1>1, TopFrame DEF OrderInv, OrderTypeOK
<1>3. k \in Int /\ k >= 0 /\ \A n \in 1 .. k : stack[n] \in Frame
  BY ONLY <1>2
<1> HIDE DEF k
<1>4. /\ SubSeq(stack, 1, k) \in Seq(Frame)
      /\ Len(SubSeq(stack, 1, k)) = IF 1 <= k THEN k - 1 + 1 ELSE 0
      /\ \A n \in 1 .. k - 1 + 1 : SubSeq(stack, 1, k)[n] = stack[1 + n - 1]
  BY ONLY <1>3, SubSeqProperties
<1>5. Len(SubSeq(stack, 1, k)) = k
  BY ONLY <1>3, <1>4
<1>6. \A n \in 1 .. k : SubSeq(stack, 1, k)[n] = stack[n]
  BY ONLY <1>3, <1>4
<1> QED BY ONLY <1>1, <1>4, <1>5, <1>6 DEF k

LEMMA CloseQueue ==
  ASSUME OrderInv, Close
  PROVE  /\ items' \in Seq(Vertices) /\ Len(items') = Len(items) + 1 /\ Len(items) \in Nat
         /\ \A n \in 1 .. Len(items) : items'[n] = items[n]
         /\ items'[Len(items) + 1] = Call.target
<1>1. items' = Append(items, Call.target) /\ main = "search"
  BY OrderAssumption DEF Close, Enqueue
<1>2. Call.target \in Vertices /\ items \in Seq(Vertices)
  BY <1>1, TopFrame DEF OrderInv, OrderTypeOK
<1> QED BY ONLY <1>1, <1>2

LEMMA CloseInv ==
  ASSUME OrderInv, Close
  PROVE  OrderInv'
<1> DEFINE t == Call.target
<1>1. /\ main = "search" /\ ~AtNeighbour
      /\ data' = [data EXCEPT ![t] = "unvisited"]
      /\ main' \in {"search", "ordered"}
      /\ Len(stack) = 1 => main' = "ordered"
      /\ UNCHANGED <<nbs, state>>
  BY DEF Close
<1>2. /\ t \in Vertices /\ Len(stack) \in Nat \ {0} /\ Call = stack[Len(stack)]
      /\ Neighbours = nbs[t] /\ Len(Neighbours) \in Nat
      /\ Call.i \in Nat \ {0}
  BY <1>1, TopFrame
<1>3. /\ items \in Seq(Vertices) /\ stack \in Seq(Frame)
      /\ data \in [Vertices -> {"NULL", "visited", "unvisited"}]
  BY DEF OrderInv, OrderTypeOK
<1>4. /\ items' \in Seq(Vertices) /\ Len(items') = Len(items) + 1 /\ Len(items) \in Nat
      /\ \A n \in 1 .. Len(items) : items'[n] = items[n]
      /\ items'[Len(items) + 1] = t
  BY CloseQueue
<1>5. /\ stack' \in Seq(Frame) /\ Len(stack') = Len(stack) - 1
      /\ \A n \in 1 .. Len(stack) - 1 : stack'[n] = stack[n]
  BY CloseStack
<1> HIDE DEF t
<1>6. Queued' = Queued \cup {t}
  BY ONLY <1>4 DEF Queued
<1>7. \A j \in 1 .. Len(Neighbours) : Neighbours[j] \in Queued
  <2> SUFFICES ASSUME NEW j \in 1 .. Len(Neighbours) PROVE Neighbours[j] \in Queued
    OBVIOUS
  <2>1. j \in 1 .. Call.i - 1
    BY <1>1, <1>2 DEF AtNeighbour
  <2> QED BY <1>1, <2>1, TopWalked
<1>8. OrderTypeOK'
  BY <1>1, <1>2, <1>3, <1>4, <1>5 DEF OrderInv, OrderTypeOK
<1>9. ParseOK'
  BY <1>1 DEF ParseOK
<1>10. MarksOK'
  BY <1>1, <1>2, <1>3, <1>6 DEF OrderInv, OrderTypeOK, MarksOK
<1>11. StackOK'
  <2>1. ASSUME main' = "search" PROVE stack' # <<>>
    BY <1>1, <1>2, <1>5, <2>1
  <2>2. ASSUME NEW n \in 1 .. Len(stack) - 1, NEW j \in 1 .. stack[n].i - 1,
               j \in 1 .. Len(nbs[stack[n].target])
        PROVE  \/ nbs[stack[n].target][j] \in Queued'
               \/ /\ n + 1 \in 1 .. Len(stack) - 1
                  /\ stack[n + 1].target = nbs[stack[n].target][j]
    <3>1. n \in 1 .. Len(stack)
      BY <1>2
    <3>2. \/ nbs[stack[n].target][j] \in Queued
          \/ n + 1 \in 1 .. Len(stack) /\ stack[n + 1].target = nbs[stack[n].target][j]
      BY <1>1, <2>2, <3>1 DEF OrderInv, StackOK
    <3>3. CASE n + 1 = Len(stack)
      <4>1. stack[n + 1].target = t
        BY <1>2, <3>3 DEF t
      <4> QED BY <1>6, <3>2, <4>1
    <3>4. CASE n + 1 # Len(stack)
      BY <1>2, <1>6, <3>2, <3>4
    <3> QED BY <3>3, <3>4
  <2>3. \A n \in 1 .. Len(stack) - 1 : n + 1 \in 1 .. Len(stack) - 1 => stack'[n + 1] = stack[n + 1]
    BY ONLY <1>2, <1>5
  <2>4. Len(stack') = Len(stack) - 1 /\ nbs' = nbs
    BY ONLY <1>1, <1>5
  <2>5. \A n \in 1 .. Len(stack) - 1 : stack'[n] = stack[n]
    BY ONLY <1>5
  <2> QED BY ONLY <2>1, <2>2, <2>3, <2>4, <2>5 DEF StackOK
<1>12. InOrder'
  <2>1. ASSUME NEW n \in 1 .. Len(items) + 1, NEW j \in 1 .. Len(nbs[items'[n]])
        PROVE  \E m \in 1 .. n - 1 : items'[m] = nbs[items'[n]][j]
    <3>1. CASE n = Len(items) + 1
      <4>1. nbs[items'[n]] = Neighbours
        BY <1>2, <1>4, <3>1
      <4>2. Neighbours[j] \in Queued
        BY <1>7, <4>1
      <4>3. PICK m \in 1 .. Len(items) : items[m] = Neighbours[j]
        BY <4>2 DEF Queued
      <4>4. m \in 1 .. n - 1 /\ items'[m] = Neighbours[j]
        BY <1>4, <3>1, <4>3
      <4> QED BY <4>1, <4>4
    <3>2. CASE n # Len(items) + 1
      <4>1. n \in 1 .. Len(items) /\ items'[n] = items[n]
        BY <1>4, <3>2
      <4>2. PICK m \in 1 .. n - 1 : items[m] = nbs[items[n]][j]
        BY <4>1 DEF OrderInv, InOrder
      <4>3. items'[m] = items[m]
        BY <1>4, <4>1
      <4> QED BY <4>1, <4>2, <4>3
    <3> QED BY <3>1, <3>2
  <2> QED BY ONLY <1>1, <1>4, <2>1 DEF InOrder
<1> QED BY <1>8, <1>9, <1>10, <1>11, <1>12 DEF OrderInv

---------------------------------------------------------------------------
LEMMA OrderNextInv == OrderInv /\ [OrderNext]_orderVars => OrderInv'
<1> SUFFICES ASSUME OrderInv, [OrderNext]_orderVars PROVE OrderInv'
  OBVIOUS
<1>1. CASE AddDependency \/ AddGoal
  BY <1>1, AddEdgeInv
<1>2. CASE Begin
  BY <1>2, BeginInv
<1>3. CASE Descend
  BY <1>3, DescendInv
<1>4. CASE PassBy
  BY <1>4, PassByInv
<1>5. CASE MeetCycle
  BY <1>5, MeetCycleInv
<1>6. CASE Close
  BY <1>6, CloseInv
<1>7. CASE UNCHANGED orderVars
  <2>1. UNCHANGED <<items, main, nbs, state, data, stack>>
    BY <1>7 DEF orderVars, marks
  <2> QED BY <2>1 DEF OrderInv, OrderTypeOK, ParseOK, MarksOK, StackOK, InOrder, Queued
<1> QED BY <1>1, <1>2, <1>3, <1>4, <1>5, <1>6, <1>7 DEF OrderNext, iscycle

LEMMA OrderInvariant == OrderSpec => []OrderInv
BY OrderInitInv, OrderNextInv, PTL DEF OrderSpec

\* What precedes position n of the queue holds the neighbours of the rule at n.
LEMMA InOrderSuffices == OrderInv => DependenciesFirst
<1> SUFFICES ASSUME OrderInv, NEW n \in DOMAIN items
             PROVE  Range(nbs[items[n]]) \subseteq Range(SubSeq(items, 1, n - 1))
  BY DEF DependenciesFirst
<1>1. items \in Seq(Vertices) /\ nbs \in [Vertices -> Seq(Vertices)]
  BY DEF OrderInv, OrderTypeOK
<1>2. n \in 1 .. Len(items) /\ Len(items) \in Nat /\ items[n] \in Vertices
  BY ONLY <1>1
<1>3. nbs[items[n]] \in Seq(Vertices)
  BY ONLY <1>1, <1>2
<1> DEFINE before == SubSeq(items, 1, n - 1)
<1>4. DOMAIN before = 1 .. n - 1 /\ \A m \in 1 .. n - 1 : before[m] = items[m]
  BY ONLY <1>1, <1>2
<1> HIDE DEF before
<1>5. ASSUME NEW v \in Range(nbs[items[n]]) PROVE v \in Range(before)
  <2>1. PICK j \in 1 .. Len(nbs[items[n]]) : v = nbs[items[n]][j]
    BY <1>3 DEF Range
  <2>2. PICK m \in 1 .. n - 1 : items[m] = v
    BY <1>2, <2>1 DEF OrderInv, InOrder
  <2> QED BY <1>4, <2>2 DEF Range
<1> QED BY <1>5 DEF before

\* Whatever the makefile, at every moment of iscycle and when it has returned,
\* with or without a cycle, no rule of the queue stands before a rule it
\* depends on (parmake.c:51-70): a worker that pulls a rule finds every
\* dependency already pulled.
THEOREM QueueInDependencyOrder == OrderSpec => []DependenciesFirst
BY OrderInvariant, InOrderSuffices, PTL

---------------------------------------------------------------------------
(* What the search finds.                                                  *)

Targets == {stack[n].target : n \in 1 .. Len(stack)}

\* The pending calls are a path from the sentinel; their rules, and no others,
\* are "visited".
PathOK == main = "search" =>
  /\ stack[1].target = Sentinel
  /\ \A n \in 1 .. Len(stack) - 1 : stack[n + 1].target \in Range(nbs[stack[n].target])
  /\ \A v \in Vertices : v \in state /\ data[v] = "visited" <=> v \in Targets
  /\ \A m, n \in 1 .. Len(stack) : stack[m].target = stack[n].target => m = n

\* Along that path each call is reached from every call below it.
ReachedOK == main = "search" => \A n \in 1 .. Len(stack) :
  /\ stack[n].target \in Needed
  /\ \A m \in 1 .. n - 1 : stack[n].target \in Reach(Range(nbs[stack[m].target]))

\* Every queued rule is needed, has been closed, and is queued once.
QueuedOK == /\ \A n \in 1 .. Len(items) : items[n] \in state /\ items[n] \in Needed
            /\ main = "search" => \A n \in 1 .. Len(items) : data[items[n]] # "visited"
            /\ \A m, n \in 1 .. Len(items) : items[m] = items[n] => m = n

\* A search is over when a cycle has been met or the sentinel has been closed.
VerdictOK == /\ cyclic \in BOOLEAN
             /\ main # "ordered" => ~cyclic
             /\ main = "ordered" => IF cyclic THEN \E v \in Needed : OnCycle(v)
                                    ELSE Sentinel \in Queued

SearchInv == OrderInv /\ PathOK /\ ReachedOK /\ QueuedOK /\ VerdictOK

---------------------------------------------------------------------------
\* What Reach is: the least set with V in it that edges do not leave.
LEMMA ReachBase ==
  ASSUME NEW V, NEW v \in V, v \in Vertices
  PROVE  v \in Reach(V)
BY DEF Reach

LEMMA ReachStep ==
  ASSUME NEW V, NEW v \in Reach(V), NEW w \in Range(nbs[v]), w \in Vertices
  PROVE  w \in Reach(V)
BY DEF Reach, ClosedUnderEdges

LEMMA ReachLeast ==
  ASSUME NEW V, NEW U \in SUBSET Vertices, V \subseteq U, ClosedUnderEdges(U)
  PROVE  Reach(V) \subseteq U
BY DEF Reach

\* It does not change while the graph does not.
LEMMA ReachUnchanged ==
  ASSUME nbs' = nbs
  PROVE  /\ Needed' = Needed
         /\ \A v \in Vertices : Reach(Range(nbs[v]))' = Reach(Range(nbs[v])) /\ OnCycle(v)' = OnCycle(v)
BY DEF Needed, OnCycle, Reach, ClosedUnderEdges

\* The neighbour at hand is needed, and reached from every pending call.
LEMMA NeighbourReached ==
  ASSUME SearchInv, AtNeighbour
  PROVE  /\ nb \in Needed /\ nb \in Range(nbs[Call.target])
         /\ \A m \in 1 .. Len(stack) : nb \in Reach(Range(nbs[stack[m].target]))
<1>1. OrderInv /\ main = "search"
  BY DEF SearchInv, AtNeighbour
<1>2. /\ Len(stack) \in Nat \ {0} /\ Call = stack[Len(stack)] /\ nb \in Vertices
      /\ Neighbours = nbs[Call.target] /\ Neighbours \in Seq(Vertices)
      /\ Call.i \in 1 .. Len(Neighbours) /\ nb = Neighbours[Call.i]
  BY <1>1, TopFrame
<1>3. nb \in Range(nbs[Call.target])
  BY <1>2 DEF Range
<1>4. nb \in Needed
  <2>1. Call.target \in Needed
    BY <1>1, <1>2 DEF SearchInv, ReachedOK
  <2> QED BY <1>2, <1>3, <2>1, ReachStep DEF Needed
<1>5. ASSUME NEW m \in 1 .. Len(stack) PROVE nb \in Reach(Range(nbs[stack[m].target]))
  <2>1. CASE m = Len(stack)
    BY <1>2, <1>3, <2>1, ReachBase
  <2>2. CASE m # Len(stack)
    <3>1. Call.target \in Reach(Range(nbs[stack[m].target]))
      BY <1>1, <1>2, <2>2 DEF SearchInv, ReachedOK
    <3> QED BY <1>2, <1>3, <3>1, ReachStep
  <2> QED BY <2>1, <2>2
<1> QED BY <1>3, <1>4, <1>5

\* While the makefile is parsed there is nothing to say.
LEMMA SearchInitInv == OrderInit => SearchInv
<1> SUFFICES ASSUME OrderInit PROVE SearchInv
  OBVIOUS
<1>1. OrderInv
  BY OrderInitInv
<1>2. items = <<>> /\ main = "parse" /\ cyclic = FALSE
  BY DEF OrderInit
<1>3. PathOK /\ ReachedOK /\ VerdictOK
  BY <1>2 DEF PathOK, ReachedOK, VerdictOK
<1>4. QueuedOK
  BY <1>2 DEF QueuedOK
<1> QED BY <1>1, <1>3, <1>4 DEF SearchInv

LEMMA AddEdgeSearch ==
  ASSUME SearchInv, AddDependency \/ AddGoal
  PROVE  SearchInv'
<1>1. OrderInv'
  BY AddEdgeInv DEF SearchInv
<1>2. main = "parse" /\ items = <<>> /\ UNCHANGED <<items, main, cyclic>>
  BY DEF AddDependency, AddGoal, AddEdge, SearchInv, OrderInv, ParseOK
<1> QED BY <1>1, <1>2 DEF SearchInv, PathOK, ReachedOK, QueuedOK, VerdictOK

LEMMA BeginSearch ==
  ASSUME SearchInv, Begin
  PROVE  SearchInv'
<1>1. OrderInv'
  BY BeginInv DEF SearchInv
<1>2. /\ main' = "search" /\ items' = <<>> /\ state' = {Sentinel} /\ ~cyclic' /\ cyclic' \in BOOLEAN
      /\ Len(stack') = 1 /\ stack'[1].target = Sentinel
      /\ data' = [data EXCEPT ![Sentinel] = "visited"] /\ nbs' = nbs
  BY DEF Begin, Open, SearchInv, OrderInv, ParseOK, VerdictOK
<1>3. data' [Sentinel] = "visited"
  BY <1>2, SentinelIsVertex DEF SearchInv, OrderInv, OrderTypeOK
<1>4. Targets' = {Sentinel}
  BY <1>2 DEF Targets
<1>5. PathOK'
  BY <1>2, <1>3, <1>4 DEF PathOK
<1>6. Sentinel \in Needed'
  BY SentinelIsVertex, ReachBase, <1>2, ReachUnchanged DEF Needed
<1>7. ReachedOK'
  BY <1>2, <1>6 DEF ReachedOK
<1> QED BY <1>1, <1>2, <1>5, <1>7 DEF SearchInv, QueuedOK, VerdictOK

LEMMA PassBySearch ==
  ASSUME SearchInv, PassBy
  PROVE  SearchInv'
<1>1. OrderInv' /\ OrderInv
  BY PassByInv DEF SearchInv
<1>2. /\ main = "search" /\ stack' = NextNeighbour
      /\ UNCHANGED <<items, main, nbs, state, data, cyclic>>
  BY DEF PassBy, AtNeighbour, marks
<1>3. Len(stack') = Len(stack) /\ \A n \in 1 .. Len(stack) : stack'[n].target = stack[n].target
  BY <1>1, <1>2, NextFrame
<1>4. Len(stack) \in Nat \ {0}
  BY <1>1, <1>2, TopFrame
<1>5. Targets' = Targets
  BY <1>3 DEF Targets
<1>6. PathOK'
  <2>1. PathOK
    BY DEF SearchInv
  <2>2. \A n \in 1 .. Len(stack) - 1 : n \in 1 .. Len(stack) /\ n + 1 \in 1 .. Len(stack)
    BY <1>4
  <2> SUFFICES ASSUME main = "search"
               PROVE  /\ stack'[1].target = Sentinel
                      /\ \A n \in 1 .. Len(stack) - 1 :
                           stack'[n + 1].target \in Range(nbs[stack'[n].target])
                      /\ \A v \in Vertices : v \in state /\ data[v] = "visited" <=> v \in Targets
                      /\ \A m, n \in 1 .. Len(stack) :
                           stack'[m].target = stack'[n].target => m = n
    BY <1>2, <1>3, <1>5 DEF PathOK
  <2>3. /\ stack[1].target = Sentinel
        /\ \A n \in 1 .. Len(stack) - 1 : stack[n + 1].target \in Range(nbs[stack[n].target])
        /\ \A v \in Vertices : v \in state /\ data[v] = "visited" <=> v \in Targets
        /\ \A m, n \in 1 .. Len(stack) : stack[m].target = stack[n].target => m = n
    BY <2>1 DEF PathOK
  <2>4. stack'[1].target = stack[1].target
    BY <1>3, <1>4
  <2> QED BY <1>3, <2>2, <2>3, <2>4
<1>7. \A n \in 1 .. Len(stack) : stack[n].target \in Vertices
  <2>1. stack \in Seq(Frame)
    BY <1>1 DEF OrderInv, OrderTypeOK
  <2>2. \A n \in 1 .. Len(stack) : stack[n] \in Frame
    BY <2>1
  <2> QED BY ONLY <2>2 DEF Frame
<1>8. ReachedOK'
  BY <1>2, <1>3, <1>4, <1>7, ReachUnchanged DEF SearchInv, ReachedOK
<1>9. QueuedOK' /\ VerdictOK'
  BY <1>2, ReachUnchanged DEF SearchInv, QueuedOK, VerdictOK
<1> QED BY <1>1, <1>6, <1>8, <1>9 DEF SearchInv

\* The new call lengthens the path.
LEMMA DescendSearch ==
  ASSUME SearchInv, Descend
  PROVE  SearchInv'
<1>1. OrderInv' /\ OrderInv
  BY DescendInv DEF SearchInv
<1>2. /\ main = "search" /\ AtNeighbour /\ nb \notin state
      /\ state' = state \cup {nb} /\ data' = [data EXCEPT ![nb] = "visited"]
      /\ UNCHANGED <<items, main, nbs, cyclic>>
  BY DEF Descend, Open, AtNeighbour
<1>3. /\ Len(stack') = Len(stack) + 1
      /\ \A n \in 1 .. Len(stack) : stack'[n].target = stack[n].target
      /\ stack'[Len(stack) + 1].target = nb
  BY <1>1, DescendStack
<1>4. /\ Len(stack) \in Nat \ {0} /\ stack[Len(stack)].target = Call.target
      /\ nb \in Vertices /\ Call.target \in Vertices
  BY <1>1, <1>2, TopFrame
<1>5. /\ nb \in Needed /\ nb \in Range(nbs[Call.target])
      /\ \A m \in 1 .. Len(stack) : nb \in Reach(Range(nbs[stack[m].target]))
  BY <1>2, NeighbourReached
<1>6. Targets' = Targets \cup {nb}
  BY ONLY <1>3, <1>4 DEF Targets
<1>7. data \in [Vertices -> {"NULL", "visited", "unvisited"}]
  BY <1>1 DEF OrderInv, OrderTypeOK
<1>8. PathOK /\ ReachedOK /\ QueuedOK /\ VerdictOK
  BY DEF SearchInv
<1>9. \A n \in 1 .. Len(stack) : stack[n].target # nb /\ stack[n].target \in Vertices
  <2>1. \A n \in 1 .. Len(stack) : stack[n] \in Frame
    BY <1>1, <1>4 DEF OrderInv, OrderTypeOK
  <2>2. \A n \in 1 .. Len(stack) : stack[n].target \in Vertices /\ stack[n].target \in Targets
    BY ONLY <2>1 DEF Frame, Targets
  <2> QED BY ONLY <1>2, <1>8, <2>2 DEF PathOK
<1>10. PathOK'
  <2>1. stack'[1].target = Sentinel
    BY <1>2, <1>3, <1>4, <1>8 DEF PathOK
  <2>2. ASSUME NEW n \in 1 .. Len(stack') - 1
        PROVE  stack'[n + 1].target \in Range(nbs'[stack'[n].target])
    <3>1. n \in 1 .. Len(stack)
      BY <1>3, <1>4
    <3>2. CASE n = Len(stack)
      BY <1>2, <1>3, <1>4, <1>5, <3>1, <3>2
    <3>3. CASE n # Len(stack)
      <4>1. n \in 1 .. Len(stack) - 1 /\ n + 1 \in 1 .. Len(stack)
        BY <1>4, <3>1, <3>3
      <4> QED BY <1>2, <1>3, <1>8, <4>1, <3>1 DEF PathOK
    <3> QED BY <3>2, <3>3
  <2>3. ASSUME NEW v \in Vertices
        PROVE  v \in state' /\ data'[v] = "visited" <=> v \in Targets'
    <3>1. CASE v = nb
      BY <1>2, <1>4, <1>6, <1>7, <3>1
    <3>2. CASE v # nb
      <4>1. data'[v] = data[v] /\ (v \in state' <=> v \in state)
        BY ONLY <1>2, <1>4, <1>7, <3>2
      <4>2. v \in state /\ data[v] = "visited" <=> v \in Targets
        BY <1>2, <1>8 DEF PathOK
      <4> QED BY ONLY <1>6, <3>2, <4>1, <4>2
    <3> QED BY <3>1, <3>2
  <2>4. \A m, n \in 1 .. Len(stack') : stack'[m].target = stack'[n].target => m = n
    <3>1. \A m, n \in 1 .. Len(stack) : stack[m].target = stack[n].target => m = n
      BY <1>2, <1>8 DEF PathOK
    <3> QED BY ONLY <1>3, <1>4, <1>9, <3>1
  <2> QED BY ONLY <2>1, <2>2, <2>3, <2>4 DEF PathOK
<1>11. ReachedOK'
  <2>1. ASSUME NEW n \in 1 .. Len(stack')
        PROVE  /\ stack'[n].target \in Needed
               /\ \A m \in 1 .. n - 1 : stack'[n].target \in Reach(Range(nbs[stack'[m].target]))
    <3>1. CASE n = Len(stack) + 1
      BY <1>3, <1>4, <1>5, <3>1
    <3>2. CASE n \in 1 .. Len(stack)
      BY <1>2, <1>3, <1>4, <1>8, <3>2 DEF ReachedOK
    <3> QED BY <1>3, <1>4, <3>1, <3>2
  <2>2. \A m \in 1 .. Len(stack') : stack'[m].target \in Vertices
    BY <1>3, <1>4, <1>9
  <2>3. \A n \in 1 .. Len(stack') : \A m \in 1 .. n - 1 : m \in 1 .. Len(stack')
    BY <1>3, <1>4
  <2> QED BY <1>2, <2>1, <2>2, <2>3, ReachUnchanged DEF ReachedOK
<1>12. QueuedOK'
  <2>1. items' = items /\ state \subseteq state' /\ Needed' = Needed
    BY <1>2, ReachUnchanged
  <2>2. \A n \in 1 .. Len(items) : items[n] # nb /\ items[n] \in state /\ items[n] \in Vertices
    <3>1. items \in Seq(Vertices)
      BY <1>1 DEF OrderInv, OrderTypeOK
    <3>2. \A n \in 1 .. Len(items) : items[n] \in Vertices
      BY <3>1
    <3> QED BY <1>2, <1>8, <3>2 DEF QueuedOK
  <2>3. \A n \in 1 .. Len(items) : data'[items[n]] # "visited"
    BY <1>2, <1>7, <1>8, <2>2 DEF QueuedOK
  <2> QED BY <1>8, <2>1, <2>3 DEF QueuedOK
<1>13. VerdictOK'
  BY <1>2, <1>8 DEF VerdictOK
<1> QED BY <1>1, <1>10, <1>11, <1>12, <1>13 DEF SearchInv

\* A pending call met again is on a cycle: the path leads from it back to it.
LEMMA MeetCycleSearch ==
  ASSUME SearchInv, MeetCycle
  PROVE  SearchInv'
<1>1. OrderInv' /\ OrderInv
  BY MeetCycleInv DEF SearchInv
<1>2. /\ main = "search" /\ AtNeighbour /\ nb \in state /\ data[nb] = "visited"
      /\ main' = "ordered" /\ cyclic' = TRUE
      /\ UNCHANGED <<items, nbs, state, data>>
  BY DEF MeetCycle, AtNeighbour, marks
<1>3. nb \in Vertices /\ nb \in Needed
  BY <1>1, <1>2, TopFrame, NeighbourReached
<1>4. nb \in Targets
  BY <1>2, <1>3 DEF SearchInv, PathOK
<1>5. PICK m \in 1 .. Len(stack) : stack[m].target = nb
  BY <1>4 DEF Targets
<1>6. nb \in Reach(Range(nbs[nb]))
  BY <1>2, <1>5, NeighbourReached
<1>7. \E v \in Needed : OnCycle(v)
  BY <1>3, <1>6 DEF OnCycle
<1>8. (\E v \in Needed : OnCycle(v))'
  <2>1. Needed \subseteq Vertices
    BY DEF Needed, Reach
  <2> QED BY <1>2, <1>7, <2>1, ReachUnchanged
<1>9. PathOK' /\ ReachedOK'
  BY <1>2 DEF PathOK, ReachedOK
<1>10. QueuedOK'
  BY <1>2, ReachUnchanged DEF SearchInv, QueuedOK
<1>11. VerdictOK'
  BY <1>2, <1>8 DEF VerdictOK
<1> QED BY <1>1, <1>9, <1>10, <1>11 DEF SearchInv

\* The innermost call leaves the path and its rule joins the queue.
LEMMA CloseSearch ==
  ASSUME SearchInv, Close
  PROVE  SearchInv'
<1> DEFINE t == Call.target
<1>1. OrderInv' /\ OrderInv
  BY CloseInv DEF SearchInv
<1>2. /\ main = "search" /\ data' = [data EXCEPT ![t] = "unvisited"]
      /\ main' = IF Len(stack) = 1 THEN "ordered" ELSE "search"
      /\ UNCHANGED <<nbs, state, cyclic>>
  BY DEF Close
<1>3. /\ Len(stack) \in Nat \ {0} /\ t \in Vertices /\ stack[Len(stack)].target = t
  BY <1>1, <1>2, TopFrame
<1>4. /\ Len(items') = Len(items) + 1 /\ Len(items) \in Nat
      /\ \A n \in 1 .. Len(items) : items'[n] = items[n]
      /\ items'[Len(items) + 1] = t
  BY <1>1, CloseQueue
<1>5. Len(stack') = Len(stack) - 1 /\ \A n \in 1 .. Len(stack) - 1 : stack'[n] = stack[n]
  BY <1>1, CloseStack
<1>6. data \in [Vertices -> {"NULL", "visited", "unvisited"}]
  BY <1>1 DEF OrderInv, OrderTypeOK
<1>7. PathOK /\ ReachedOK /\ QueuedOK /\ VerdictOK
  BY DEF SearchInv
<1> HIDE DEF t
<1>8. \A n \in 1 .. Len(stack) - 1 : /\ stack[n].target # t /\ stack[n].target \in Vertices
                                    /\ n \in 1 .. Len(stack) /\ n # Len(stack)
  <2>1. \A n \in 1 .. Len(stack) - 1 : n \in 1 .. Len(stack) /\ n # Len(stack) /\ Len(stack) \in 1 .. Len(stack)
    BY <1>3
  <2>2. \A n \in 1 .. Len(stack) : stack[n] \in Frame
    BY <1>1 DEF OrderInv, OrderTypeOK
  <2>3. \A n \in 1 .. Len(stack) : stack[n].target \in Vertices
    BY ONLY <2>2 DEF Frame
  <2> QED BY ONLY <1>2, <1>3, <1>7, <2>1, <2>3 DEF PathOK
<1>9. t \in Targets /\ t \in state /\ data[t] = "visited" /\ t \in Needed
  <2>1. t \in Targets
    BY <1>3 DEF Targets
  <2> QED BY <1>2, <1>3, <1>7, <2>1 DEF PathOK, ReachedOK
<1>10. Targets' = Targets \ {t}
  <2>1. Targets' = {stack[n].target : n \in 1 .. Len(stack) - 1}
    BY ONLY <1>5 DEF Targets
  <2>2. \A n \in 1 .. Len(stack) : n = Len(stack) \/ n \in 1 .. Len(stack) - 1
    BY ONLY <1>3
  <2> QED BY ONLY <1>3, <1>8, <2>1, <2>2 DEF Targets
<1>11. PathOK'
  <2> SUFFICES ASSUME main' = "search" PROVE PathOK'
    BY DEF PathOK
  <2>0. Len(stack) # 1
    BY <1>2
  <2>1. stack'[1].target = Sentinel
    BY <1>2, <1>3, <1>5, <1>7, <2>0 DEF PathOK
  <2>2. \A n \in 1 .. Len(stack') - 1 : stack'[n + 1].target \in Range(nbs'[stack'[n].target])
    <3>1. \A n \in 1 .. Len(stack') - 1 : n \in 1 .. Len(stack) - 1 /\ n + 1 \in 1 .. Len(stack) - 1
      BY ONLY <1>3, <1>5
    <3> QED BY ONLY <1>2, <1>5, <1>7, <3>1 DEF PathOK
  <2>3. ASSUME NEW v \in Vertices
        PROVE  v \in state' /\ data'[v] = "visited" <=> v \in Targets'
    <3>1. v \in state /\ data[v] = "visited" <=> v \in Targets
      BY <1>2, <1>7 DEF PathOK
    <3>2. data'[v] = IF v = t THEN "unvisited" ELSE data[v]
      BY ONLY <1>2, <1>3, <1>6
    <3> QED BY ONLY <1>2, <1>10, <3>1, <3>2
  <2>4. \A m, n \in 1 .. Len(stack') : stack'[m].target = stack'[n].target => m = n
    BY ONLY <1>2, <1>5, <1>7, <1>8 DEF PathOK
  <2> QED BY ONLY <2>1, <2>2, <2>3, <2>4 DEF PathOK
<1>12. ReachedOK'
  <2>1. ASSUME NEW n \in 1 .. Len(stack')
        PROVE  /\ stack'[n].target \in Needed
               /\ \A m \in 1 .. n - 1 : stack'[n].target \in Reach(Range(nbs[stack'[m].target]))
    <3>1. n \in 1 .. Len(stack) - 1 /\ \A m \in 1 .. n - 1 : m \in 1 .. Len(stack) - 1
      BY ONLY <1>3, <1>5
    <3> QED BY ONLY <1>2, <1>5, <1>7, <1>8, <3>1 DEF ReachedOK
  <2>2. \A n \in 1 .. Len(stack') : \A m \in 1 .. n - 1 : stack'[m].target \in Vertices
    BY ONLY <1>3, <1>5, <1>8
  <2> QED BY <1>2, <2>1, <2>2, ReachUnchanged DEF ReachedOK
<1>13. QueuedOK'
  <2>1. \A n \in 1 .. Len(items) : items[n] # t /\ items[n] \in Vertices
    <3>1. \A n \in 1 .. Len(items) : items[n] \in Vertices
      BY <1>1 DEF OrderInv, OrderTypeOK
    <3> QED BY <1>2, <1>7, <1>9, <3>1 DEF QueuedOK
  <2>2. \A n \in 1 .. Len(items') : n = Len(items) + 1 \/ n \in 1 .. Len(items)
    BY ONLY <1>4
  <2>3. \A n \in 1 .. Len(items') : items'[n] \in state' /\ items'[n] \in Needed'
    BY <1>2, <1>4, <1>7, <1>9, <2>2, ReachUnchanged DEF QueuedOK
  <2>4. \A n \in 1 .. Len(items') : data'[items'[n]] # "visited"
    <3>1. \A v \in Vertices : data'[v] = IF v = t THEN "unvisited" ELSE data[v]
      BY ONLY <1>2, <1>3, <1>6
    <3> QED BY ONLY <1>2, <1>3, <1>4, <1>7, <2>1, <2>2, <3>1 DEF QueuedOK
  <2>5. \A m, n \in 1 .. Len(items') : items'[m] = items'[n] => m = n
    BY ONLY <1>4, <1>7, <2>1, <2>2 DEF QueuedOK
  <2> QED BY ONLY <2>3, <2>4, <2>5 DEF QueuedOK
<1>14. VerdictOK'
  <2>1. ~cyclic' /\ cyclic' \in BOOLEAN
    BY <1>2, <1>7 DEF VerdictOK
  <2>2. ASSUME Len(stack) = 1 PROVE Sentinel \in Queued'
    <3>1. t = Sentinel
      BY <1>2, <1>3, <1>7, <2>2 DEF PathOK
    <3> QED BY <1>4, <3>1 DEF Queued
  <2> QED BY <1>2, <2>1, <2>2 DEF VerdictOK
<1> QED BY <1>1, <1>11, <1>12, <1>13, <1>14 DEF SearchInv

LEMMA SearchNextInv == SearchInv /\ [OrderNext]_orderVars => SearchInv'
<1> SUFFICES ASSUME SearchInv, [OrderNext]_orderVars PROVE SearchInv'
  OBVIOUS
<1>1. CASE AddDependency \/ AddGoal
  BY <1>1, AddEdgeSearch
<1>2. CASE Begin
  BY <1>2, BeginSearch
<1>3. CASE Descend
  BY <1>3, DescendSearch
<1>4. CASE PassBy
  BY <1>4, PassBySearch
<1>5. CASE MeetCycle
  BY <1>5, MeetCycleSearch
<1>6. CASE Close
  BY <1>6, CloseSearch
<1>7. CASE UNCHANGED orderVars
  <2>1. UNCHANGED <<items, main, nbs, state, data, stack, cyclic>>
    BY <1>7 DEF orderVars, marks
  <2>2. OrderInv'
    BY <1>7, OrderNextInv DEF SearchInv
  <2>3. PathOK' /\ QueuedOK'
    BY <2>1, ReachUnchanged DEF SearchInv, PathOK, QueuedOK, Targets
  <2>4. ReachedOK'
    <3>1. \A n \in 1 .. Len(stack) : stack[n].target \in Vertices
      <4>1. stack \in Seq(Frame)
        BY DEF SearchInv, OrderInv, OrderTypeOK
      <4>2. \A n \in 1 .. Len(stack) : stack[n] \in Frame
        BY <4>1
      <4> QED BY ONLY <4>2 DEF Frame
    <3>2. \A n \in 1 .. Len(stack) :
            Reach(Range(nbs[stack[n].target]))' = Reach(Range(nbs[stack[n].target]))
      BY <2>1, <3>1, ReachUnchanged
    <3>3. \A n \in 1 .. Len(stack) : \A m \in 1 .. n - 1 : m \in 1 .. Len(stack)
      BY DEF SearchInv, OrderInv, OrderTypeOK
    <3> QED BY <2>1, <3>2, <3>3, ReachUnchanged DEF SearchInv, ReachedOK
  <2>5. VerdictOK'
    <3>1. (\E v \in Needed : OnCycle(v)) => (\E v \in Needed : OnCycle(v))'
      <4>1. \A v \in Needed : v \in Vertices
        BY DEF Needed, Reach
      <4> QED BY <2>1, <4>1, ReachUnchanged
    <3>2. Queued' = Queued
      BY <2>1 DEF Queued
    <3>3. (\E v \in Needed : OnCycle(v))' \/ ~(\E v \in Needed : OnCycle(v))
      BY <3>1
    <3> QED BY ONLY <2>1, <3>2, <3>3, SearchInv DEF SearchInv, VerdictOK
  <2> QED BY <2>2, <2>3, <2>4, <2>5 DEF SearchInv
<1> QED BY <1>1, <1>2, <1>3, <1>4, <1>5, <1>6, <1>7 DEF OrderNext, iscycle

LEMMA SearchInvariant == OrderSpec => []SearchInv
BY SearchInitInv, SearchNextInv, PTL DEF OrderSpec

\* A queue in dependency order with the sentinel in it holds all that is needed,
\* and nothing in it is on a cycle: what precedes a rule in it is closed under
\* edges and holds its neighbours, but not the rule.
LEMMA SearchSuffices == SearchInv => SearchRight
<1> SUFFICES ASSUME SearchInv, main = "ordered"
             PROVE  /\ cyclic = \E v \in Needed : OnCycle(v)
                    /\ ~cyclic => Range(items) = Needed /\ IsInjective(items)
  BY DEF SearchRight, FindsCycles, QueuesWhatIsNeeded
<1>1. /\ items \in Seq(Vertices) /\ nbs \in [Vertices -> Seq(Vertices)]
      /\ \A n \in 1 .. Len(items) : items[n] \in Vertices
  BY DEF SearchInv, OrderInv, OrderTypeOK
<1>2. Range(items) = Queued /\ DOMAIN items = 1 .. Len(items) /\ Len(items) \in Nat
  BY ONLY <1>1 DEF Range, Queued
<1>3. CASE cyclic
  BY <1>3 DEF SearchInv, VerdictOK
<1>4. CASE ~cyclic
  <2>1. ASSUME NEW n \in 0 .. Len(items)
        PROVE  ClosedUnderEdges({items[m] : m \in 1 .. n})
    <3> SUFFICES ASSUME NEW m \in 1 .. n, NEW w \in Range(nbs[items[m]])
                 PROVE  w \in {items[k] : k \in 1 .. n}
      BY DEF ClosedUnderEdges
    <3>1. m \in 1 .. Len(items)
      BY <1>2
    <3>2. PICK j \in 1 .. Len(nbs[items[m]]) : w = nbs[items[m]][j]
      BY <1>1, <3>1 DEF Range
    <3>3. PICK k \in 1 .. m - 1 : items[k] = w
      BY <3>1, <3>2 DEF SearchInv, OrderInv, InOrder
    <3> QED BY <3>3
  <2>2. Needed \subseteq Queued
    <3>1. ClosedUnderEdges(Queued)
      BY <1>2, <2>1 DEF Queued
    <3>2. {Sentinel} \subseteq Queued /\ Queued \in SUBSET Vertices
      BY <1>1, <1>4 DEF SearchInv, VerdictOK, Queued
    <3> QED BY <3>1, <3>2, ReachLeast DEF Needed
  <2>3. Queued \subseteq Needed
    BY DEF SearchInv, QueuedOK, Queued
  <2>4. IsInjective(items)
    BY <1>2 DEF SearchInv, QueuedOK, IsInjective
  <2>5. ASSUME NEW v \in Needed, OnCycle(v) PROVE FALSE
    <3>1. PICK n \in 1 .. Len(items) : items[n] = v
      BY <2>2 DEF Queued
    <3> DEFINE before == {items[m] : m \in 1 .. n - 1}
    <3>2. ClosedUnderEdges(before)
      <4>1. n - 1 \in 0 .. Len(items)
        BY <1>2
      <4> QED BY <2>1, <4>1
    <3>3. before \in SUBSET Vertices
      BY <1>1, <1>2
    <3>4. Range(nbs[v]) \subseteq before
      <4> SUFFICES ASSUME NEW w \in Range(nbs[v]) PROVE w \in before
        OBVIOUS
      <4>1. PICK j \in 1 .. Len(nbs[v]) : w = nbs[v][j]
        BY <1>1, <3>1 DEF Range
      <4> QED BY <3>1, <4>1 DEF SearchInv, OrderInv, InOrder
    <3>5. v \in before
      <4> HIDE DEF before
      <4>1. v \in Reach(Range(nbs[v]))
        BY <2>5 DEF OnCycle
      <4> QED BY <3>2, <3>3, <3>4, <4>1, ReachLeast
    <3>6. PICK m \in 1 .. n - 1 : items[m] = v
      BY <3>5
    <3>7. m \in 1 .. Len(items) /\ m # n
      BY <1>2
    <3> QED BY <3>1, <3>6, <3>7 DEF SearchInv, QueuedOK
  <2> QED BY <1>2, <1>4, <2>2, <2>3, <2>4, <2>5
<1> QED BY <1>3, <1>4 DEF SearchInv, VerdictOK

\* Whatever the makefile: iscycle reports a cycle exactly when the goals depend
\* on one, and without one it queues each rule they need, once (parmake.c:31-71).
THEOREM SearchIsRight == OrderSpec => []SearchRight
BY SearchInvariant, SearchSuffices, PTL

---------------------------------------------------------------------------
(* The workers.                                                            *)

\* From the pull of a rule until it is settled.
InRun == {"run", "runLock", "runTest", "runWait", "runRead"}
Working == {"take", "checkdep", "commands", "settle", "store", "settleUnlock"} \cup InRun

\* Main fills the queue before there are workers (lines 231-261).
MainOK == /\ main \in {"parse", "search", "ordered", "build"}
          /\ nbs \in [Vertices -> Seq(Vertices)]
          /\ main # "build" => SearchInv /\ started = {} /\ s = {}
          /\ \A t \in Threads : pc[t] = "new" <=> main # "build"

\* The locals of a worker make sense where it is.
LocalsOK == \A t \in Threads :
  /\ i[t] # 0
  /\ pc[t] \in Working => target[t] \in Vertices
  /\ pc[t] \in InRun \ {"run"} => i[t] <= Len(nbs[target[t]])
  /\ pc[t] \in {"settle", "store"} => verdict[t] # "unvisited"

\* run() has waited for each dependency it has left behind, and reads the
\* result of one that is settled.
WaitedOK == \A t \in Threads :
  /\ pc[t] \in InRun =>
       \A j \in 1 .. Len(nbs[target[t]]) : j < i[t] => data[nbs[target[t]][j]] # "unvisited"
  /\ pc[t] = "runRead" => data[Dep(t)] # "unvisited"

\* Who sleeps is in run's wait, for a dependency that is unfinished.
SleepersOK == \A t \in waiting : pc[t] = "runWait" /\ data[Dep(t)] = "unvisited"

\* What StagesInOrder says, index by index.
StartedOK == \A r \in started : \A j \in 1 .. Len(nbs[r]) : data[nbs[r][j]] # "unvisited"

WorkInv == TypeOK /\ MainOK /\ LocalsOK /\ WaitedOK /\ SleepersOK /\ StartedOK

\* The mutex is held exactly in the three places between lock and unlock.
MutexOK == \A t \in Threads : owner = t <=> pc[t] \in {"runTest", "store", "settleUnlock"}

\* The queue that main has left: in dependency order, no rule twice.
Ordered(q) == /\ \A m, n \in 1 .. Len(q) : q[m] = q[n] => m = n
              /\ \A n \in 1 .. Len(q) : \A j \in 1 .. Len(nbs[q[n]]) :
                   \E m \in 1 .. n - 1 : q[m] = nbs[q[n]][j]

\* After p pulls the queue holds the rest of q and the NULLs, and a worker has
\* exited for each NULL pulled.
Remains(q, p) == LET N == Cardinality(Threads) IN
  /\ p <= Len(q) + N
  /\ Len(items) = Len(q) + N - p
  /\ \A n \in 1 .. Len(items) : items[n] = IF p + n <= Len(q) THEN q[p + n] ELSE NoRule
  /\ Cardinality({t \in Threads : pc[t] = "exit"}) = IF p <= Len(q) THEN 0 ELSE p - Len(q)

\* Every rule pulled is settled or some worker, and only one, is at it.
Pulled(q, p) ==
  /\ \A t \in Threads : pc[t] \in Working =>
       \E n \in 1 .. Len(q) : n <= p /\ target[t] = q[n]
  /\ \A n \in 1 .. Len(q) : n <= p =>
       \/ data[q[n]] # "unvisited"
       \/ \E t \in Threads : pc[t] \in Working /\ target[t] = q[n]
  /\ \A t, u \in Threads : pc[t] \in Working /\ pc[u] \in Working /\ target[t] = target[u] => t = u
  /\ \A r \in s : \E n \in 1 .. Len(q) : n <= p /\ r = q[n]
  /\ \A t \in Threads : /\ pc[t] = "take" => target[t] \notin s
                        /\ pc[t] = "settleUnlock" => data[target[t]] # "unvisited"

PoolOK == main = "build" => \E q \in Seq(Vertices), p \in Nat :
            Ordered(q) /\ Remains(q, p) /\ Pulled(q, p)

PoolInv == WorkInv /\ MutexOK /\ PoolOK

\* Worker t has a step to take: it has not exited, it is not asleep, the mutex
\* is free if it needs it, and the queue has an item for it if it pulls.
CanStep(t) == /\ pc[t] \notin {"new", "exit"} /\ t \notin waiting
              /\ pc[t] \in {"runLock", "runWait", "settle"} => owner = NoThread
              /\ pc[t] = "pull" => items # <<>>

\* The pool cannot come to a standstill before every worker has exited.
NeverStuck == main = "build" => Exited \/ \E t \in Threads : CanStep(t)

\* The check of set_contains (line 212) never drops a rule.
NothingDropped == \A t \in Threads : pc[t] = "take" => target[t] \notin s

---------------------------------------------------------------------------
\* While main is at work there are no workers.
LEMMA WorkInitInv == Init => WorkInv
<1> SUFFICES ASSUME Init PROVE WorkInv
  OBVIOUS
<1>1. SearchInv /\ OrderInit
  BY SearchInitInv DEF Init
<1>2. /\ items = <<>> /\ main = "parse" /\ data = [v \in Vertices |-> "NULL"]
      /\ nbs \in [Vertices -> Seq(Vertices)]
      /\ s = {} /\ started = {} /\ waiting = {} /\ owner = NoThread
      /\ pc = [t \in Threads |-> "new"] /\ target = [t \in Threads |-> NoRule]
      /\ i = [t \in Threads |-> 1] /\ ret = [t \in Threads |-> 0]
      /\ verdict = [t \in Threads |-> "unvisited"]
  BY <1>1 DEF Init, MonitorInit, OrderInit, SearchInv, OrderInv, OrderTypeOK
<1>3. TypeOK
  BY <1>2, EmptySeq DEF TypeOK
<1>4. MainOK
  BY <1>1, <1>2 DEF MainOK
<1>5. LocalsOK /\ WaitedOK /\ SleepersOK /\ StartedOK
  BY <1>2 DEF LocalsOK, WaitedOK, SleepersOK, StartedOK, InRun, Working
<1> QED BY <1>3, <1>4, <1>5 DEF WorkInv

LEMMA MainWork ==
  ASSUME WorkInv, Main
  PROVE  WorkInv'
<1>1. /\ OrderNext /\ UNCHANGED <<s, target, i, ret, verdict, started, pc, owner, waiting>>
  BY DEF Main, workerVars, locals, monitorVars
<1>2. main \in {"parse", "search"} /\ main' \in {"parse", "search", "ordered"}
  BY <1>1 DEF OrderNext, AddDependency, AddGoal, AddEdge, Begin, iscycle, Descend, PassBy, MeetCycle,
              Close, AtNeighbour
<1>3. SearchInv /\ SearchInv' /\ started = {} /\ s = {}
  BY <1>1, <1>2, SearchNextInv DEF WorkInv, MainOK
<1>4. TypeOK'
  <2>1. items' \in Seq(Vertices) /\ data' \in [Vertices -> {"NULL", "visited", "unvisited"}]
    BY <1>3 DEF SearchInv, OrderInv, OrderTypeOK
  <2>2. items' \in Seq(Vertices \cup {NoRule})
    BY <2>1
  <2>3. data' \in [Vertices -> {"NULL", "unvisited", "visited", "done"}]
    BY ONLY <2>1
  <2> QED BY <1>1, <2>2, <2>3 DEF WorkInv, TypeOK
<1>5. MainOK'
  <2>1. nbs' \in [Vertices -> Seq(Vertices)]
    BY <1>3 DEF SearchInv, OrderInv, OrderTypeOK
  <2> QED BY <1>1, <1>2, <1>3, <2>1 DEF WorkInv, MainOK
<1>6. \A t \in Threads : pc[t] = "new"
  BY <1>2 DEF WorkInv, MainOK
<1>7. LocalsOK' /\ WaitedOK' /\ SleepersOK' /\ StartedOK'
  <2>1. LocalsOK'
    BY <1>1, <1>6 DEF WorkInv, LocalsOK, Working, InRun
  <2>2. WaitedOK'
    BY <1>1, <1>6 DEF WaitedOK, Working, InRun
  <2>3. SleepersOK' /\ StartedOK'
    BY <1>1, <1>3, <1>6 DEF WorkInv, SleepersOK, StartedOK, TypeOK
  <2> QED BY <2>1, <2>2, <2>3
<1> QED BY <1>4, <1>5, <1>7 DEF WorkInv

\* The queue is ended with one NULL per worker.
LEMMA CreateWorkersQueue ==
  ASSUME WorkInv, CreateWorkers
  PROVE  LET N == Cardinality(Threads) IN
         /\ N \in Nat /\ items \in Seq(Vertices)
         /\ items' \in Seq(Vertices \cup {NoRule}) /\ Len(items') = Len(items) + N
         /\ \A n \in 1 .. Len(items') :
              items'[n] = IF n <= Len(items) THEN items[n] ELSE NoRule
<1> DEFINE N == Cardinality(Threads)
           nulls == [n \in 1 .. N |-> NoRule]
<1>1. N \in Nat
  BY ParMakeAssumption, FS_CardinalityType
<1>2. items \in Seq(Vertices)
  BY DEF CreateWorkers, WorkInv, MainOK, SearchInv, OrderInv, OrderTypeOK
<1>3. nulls \in Seq(Vertices \cup {NoRule}) /\ Len(nulls) = N
  BY <1>1
<1>4. \A n \in 1 .. N : nulls[n] = NoRule
  OBVIOUS
<1>5. items' = items \o nulls
  BY DEF CreateWorkers
<1> HIDE DEF N, nulls
<1>6. items \in Seq(Vertices \cup {NoRule})
  BY <1>2
<1>7. items' \in Seq(Vertices \cup {NoRule}) /\ Len(items') = Len(items) + N
  BY ONLY <1>3, <1>5, <1>6
<1>8. \A n \in 1 .. Len(items') : items'[n] = IF n <= Len(items) THEN items[n] ELSE nulls[n - Len(items)]
  BY ONLY <1>1, <1>3, <1>5, <1>6
<1>9. \A n \in 1 .. Len(items') : n <= Len(items) \/ n - Len(items) \in 1 .. N
  BY ONLY <1>1, <1>6, <1>7
<1>10. \A n \in 1 .. Len(items') : items'[n] = IF n <= Len(items) THEN items[n] ELSE NoRule
  BY <1>4, <1>8, <1>9
<1> QED BY <1>1, <1>2, <1>7, <1>10 DEF N

LEMMA CreateWorkersWork ==
  ASSUME WorkInv, CreateWorkers
  PROVE  WorkInv'
<1>1. /\ main = "ordered" /\ main' = "build" /\ pc' = [t \in Threads |-> "pull"]
      /\ UNCHANGED <<nbs, data, s, target, i, ret, verdict, started, owner, waiting>>
  BY DEF CreateWorkers, marks, locals, monitor
<1>2. started = {} /\ \A t \in Threads : pc[t] = "new"
  BY <1>1 DEF WorkInv, MainOK
<1>3. TypeOK'
  BY <1>1, CreateWorkersQueue DEF WorkInv, TypeOK
<1>4. MainOK'
  BY <1>1 DEF WorkInv, MainOK
<1>5. waiting = {}
  BY <1>2 DEF WorkInv, TypeOK, SleepersOK
<1>6. LocalsOK' /\ WaitedOK' /\ SleepersOK' /\ StartedOK'
  BY <1>1, <1>2, <1>5 DEF WorkInv, LocalsOK, WaitedOK, SleepersOK, StartedOK, Working, InRun
<1> QED BY <1>3, <1>4, <1>6 DEF WorkInv

\* The graph is not touched once there are workers.
LEMMA StepMain ==
  ASSUME WorkInv, NEW t \in Threads, Step(t) \/ Wakeup(t)
  PROVE  /\ MainOK' /\ nbs \in [Vertices -> Seq(Vertices)] /\ main = "build"
         /\ nbs' = nbs /\ main' = main
<1>1. nbs' = nbs /\ main' = main
  BY DEF Step, Pull, Take, CheckDep, RunLook, RunLock, RunSleep, RunRelock, RunUnlock, RunRead,
         Decide, Commands, SettleLock, Store, SettleUnlock, Wakeup, searched
<1>2. /\ pc[t] # "new"
      /\ \E l \in {"pull", "take", "checkdep", "run", "runLock", "runTest", "runWait", "runRead",
                   "commands", "settle", "store", "settleUnlock", "exit"} : pc' = [pc EXCEPT ![t] = l]
                                                                            \/ pc' = pc
  <2>1. CASE Wakeup(t)
    BY <2>1 DEF Wakeup, SpuriousWakeup, WorkInv, SleepersOK
  <2>2. CASE Step(t)
    BY <2>2 DEF Step, Pull, Take, CheckDep, RunLook, RunLock, RunSleep, RunRelock, RunUnlock,
                RunRead, Decide, Commands, SettleLock, Store, SettleUnlock, At, Goto
  <2> QED BY <2>1, <2>2
<1>3. main = "build"
  BY <1>2 DEF WorkInv, MainOK
<1> QED BY <1>1, <1>2, <1>3 DEF WorkInv, MainOK, TypeOK

LEMMA PullWork ==
  ASSUME WorkInv, NEW t \in Threads, Pull(t)
  PROVE  WorkInv'
<1>1. Step(t)
  BY DEF Step
<1>2. MainOK' /\ nbs \in [Vertices -> Seq(Vertices)] /\ nbs' = nbs
  BY <1>1, StepMain
<1>3. TypeOK'
  BY <1>2 DEF WorkInv, TypeOK, LocalsOK, Working, InRun, Pull, At, Goto, Dequeue, CanPull, Dep, AllLookedAt, locals, monitor
<1>4. LocalsOK'
  BY <1>2 DEF WorkInv, TypeOK, LocalsOK, Working, InRun, Pull, At, Goto, Dequeue, CanPull, Dep, AllLookedAt, locals, monitor
<1>5. WaitedOK'
  BY <1>2 DEF WorkInv, TypeOK, LocalsOK, WaitedOK, Working, InRun, Pull, At, Goto, Dequeue, CanPull, Dep, AllLookedAt, locals, monitor
<1>6. SleepersOK'
  BY <1>2 DEF WorkInv, TypeOK, LocalsOK, SleepersOK, Working, InRun, Pull, At, Goto, Dequeue, CanPull, Dep, AllLookedAt, locals, monitor
<1>7. StartedOK'
  BY <1>2 DEF WorkInv, TypeOK, StartedOK, Pull, At, Goto, Dequeue, CanPull, locals, monitor
<1> QED BY <1>2, <1>3, <1>4, <1>5, <1>6, <1>7 DEF WorkInv

LEMMA TakeWork ==
  ASSUME WorkInv, NEW t \in Threads, Take(t)
  PROVE  WorkInv'
<1>1. Step(t)
  BY DEF Step
<1>2. MainOK' /\ nbs \in [Vertices -> Seq(Vertices)] /\ nbs' = nbs
  BY <1>1, StepMain
<1>3. TypeOK'
  <2>1. \E l \in {"pull", "checkdep"} : pc' = [pc EXCEPT ![t] = l]
    BY DEF Take, Goto
  <2>2. s' \subseteq Vertices
    BY DEF WorkInv, TypeOK, LocalsOK, Working, Take, At
  <2> QED BY <2>1, <2>2 DEF WorkInv, TypeOK, Take, locals, monitor
<1>4. LocalsOK'
  BY <1>2 DEF WorkInv, TypeOK, LocalsOK, Working, InRun, Take, At, Goto, Dep, AllLookedAt, locals, monitor
<1>5. WaitedOK'
  BY <1>2 DEF WorkInv, TypeOK, LocalsOK, WaitedOK, Working, InRun, Take, At, Goto, Dep, AllLookedAt, locals, monitor
<1>6. SleepersOK'
  BY <1>2 DEF WorkInv, TypeOK, LocalsOK, SleepersOK, Working, InRun, Take, At, Goto, Dep, AllLookedAt, locals, monitor
<1>7. StartedOK'
  BY <1>2 DEF WorkInv, TypeOK, StartedOK, Take, At, Goto, locals, monitor
<1> QED BY <1>2, <1>3, <1>4, <1>5, <1>6, <1>7 DEF WorkInv

LEMMA CheckDepWork ==
  ASSUME WorkInv, NEW t \in Threads, CheckDep(t)
  PROVE  WorkInv'
<1>1. Step(t)
  BY DEF Step
<1>2. MainOK' /\ nbs \in [Vertices -> Seq(Vertices)] /\ nbs' = nbs
  BY <1>1, StepMain
<1>3. TypeOK'
  <2>1. \E l \in {"pull", "run", "settle"} : pc' = [pc EXCEPT ![t] = l] \/ pc' = pc
    BY DEF CheckDep, Goto
  <2>2. pc' \in [Threads -> {"new", "pull", "take", "checkdep", "run", "runLock", "runTest", "runWait",
                             "runRead", "commands", "settle", "store", "settleUnlock", "exit"}]
    BY <2>1 DEF WorkInv, TypeOK
  <2>3. /\ \E k \in Nat : i' = [i EXCEPT ![t] = k] \/ i' = i
        /\ verdict' = [verdict EXCEPT ![t] = "visited"] \/ verdict' = verdict
    BY DEF WorkInv, TypeOK, CheckDep
  <2>4. i' \in [Threads -> Nat] /\ verdict' \in [Threads -> {"unvisited", "visited", "done"}]
    BY <2>3 DEF WorkInv, TypeOK
  <2> QED BY <2>2, <2>4 DEF WorkInv, TypeOK, CheckDep, monitor
<1>4. LocalsOK'
  BY <1>2 DEF WorkInv, TypeOK, LocalsOK, Working, InRun, CheckDep, At, Goto, Dep, AllLookedAt, locals, monitor
<1>5. WaitedOK'
  BY <1>2 DEF WorkInv, TypeOK, LocalsOK, WaitedOK, Working, InRun, CheckDep, At, Goto, Dep, AllLookedAt, locals, monitor
<1>6. SleepersOK'
  <2>1. t \notin waiting
    BY DEF WorkInv, SleepersOK, CheckDep, At
  <2>2. \A u \in Threads \ {t} : pc'[u] = pc[u] /\ i'[u] = i[u]
    <3>1. /\ \E l \in {"pull", "run", "settle"} : pc' = [pc EXCEPT ![t] = l] \/ pc' = pc
          /\ \E k \in Nat : i' = [i EXCEPT ![t] = k] \/ i' = i
      BY DEF WorkInv, TypeOK, CheckDep, Goto
    <3>2. \A u \in Threads \ {t} : pc'[u] = pc[u]
      BY <3>1 DEF WorkInv, TypeOK
    <3>3. \A u \in Threads \ {t} : i'[u] = i[u]
      BY <3>1 DEF WorkInv, TypeOK
    <3> QED BY <3>2, <3>3
  <2>3. UNCHANGED <<waiting, data, target>> /\ waiting \subseteq Threads
    BY DEF WorkInv, TypeOK, CheckDep, monitor
  <2> QED BY <1>2, <2>1, <2>2, <2>3 DEF WorkInv, SleepersOK, Dep
<1>7. StartedOK'
  BY <1>2 DEF WorkInv, TypeOK, StartedOK, CheckDep, At, Goto, locals, monitor
<1> QED BY <1>2, <1>3, <1>4, <1>5, <1>6, <1>7 DEF WorkInv

LEMMA RunLookWork ==
  ASSUME WorkInv, NEW t \in Threads, RunLook(t)
  PROVE  WorkInv'
<1>1. Step(t)
  BY DEF Step
<1>2. MainOK' /\ nbs \in [Vertices -> Seq(Vertices)] /\ nbs' = nbs
  BY <1>1, StepMain
<1>3. TypeOK'
  <2>1. pc' = [pc EXCEPT ![t] = "runLock"] \/ pc' = pc
    BY DEF RunLook, Goto
  <2>2. pc' \in [Threads -> {"new", "pull", "take", "checkdep", "run", "runLock", "runTest", "runWait",
                             "runRead", "commands", "settle", "store", "settleUnlock", "exit"}]
    BY <2>1 DEF WorkInv, TypeOK
  <2>3. i' \in [Threads -> Nat]
    BY DEF WorkInv, TypeOK, RunLook
  <2> QED BY <2>2, <2>3 DEF WorkInv, TypeOK, RunLook, monitor
<1>4. LocalsOK'
  BY <1>2 DEF WorkInv, TypeOK, LocalsOK, Working, InRun, RunLook, At, Goto, Dep, AllLookedAt, locals, monitor
<1>5. WaitedOK'
  <2>1. \A u \in Threads \ {t} : pc'[u] = pc[u] /\ i'[u] = i[u]
    BY DEF WorkInv, TypeOK, RunLook, Goto
  <2>2. CASE data[Dep(t)] = "unvisited"
    BY <1>2, <2>1, <2>2 DEF WorkInv, TypeOK, WaitedOK, InRun, RunLook, At, Goto, Dep
  <2>3. CASE data[Dep(t)] # "unvisited"
    <3>1. i'[t] = i[t] + 1 /\ pc' = pc /\ pc[t] = "run" /\ i[t] \in Nat
      BY <2>3 DEF WorkInv, TypeOK, RunLook, At
    <3>2. \A j \in 1 .. Len(nbs[target[t]]) : j < i[t] + 1 => j < i[t] \/ j = i[t]
      BY <3>1
    <3>3. \A j \in 1 .. Len(nbs[target[t]]) : j < i'[t] => data[nbs[target[t]][j]] # "unvisited"
      BY <2>3, <3>1, <3>2 DEF WorkInv, WaitedOK, InRun, Dep
    <3> QED BY <1>2, <2>1, <3>1, <3>3 DEF WorkInv, WaitedOK, RunLook, Dep
  <2> QED BY <2>2, <2>3
<1>6. SleepersOK'
  BY <1>2 DEF WorkInv, TypeOK, LocalsOK, SleepersOK, Working, InRun, RunLook, At, Goto, Dep, AllLookedAt, locals, monitor
<1>7. StartedOK'
  BY <1>2 DEF WorkInv, TypeOK, StartedOK, RunLook, At, Goto, locals, monitor
<1> QED BY <1>2, <1>3, <1>4, <1>5, <1>6, <1>7 DEF WorkInv

LEMMA RunLockWork ==
  ASSUME WorkInv, NEW t \in Threads, RunLock(t)
  PROVE  WorkInv'
<1>1. Step(t)
  BY DEF Step
<1>2. MainOK' /\ nbs \in [Vertices -> Seq(Vertices)] /\ nbs' = nbs
  BY <1>1, StepMain
<1>3. TypeOK'
  BY <1>2 DEF WorkInv, TypeOK, LocalsOK, Working, InRun, RunLock, At, Goto, Acquire, Dep, AllLookedAt, locals, monitor
<1>4. LocalsOK'
  BY <1>2 DEF WorkInv, TypeOK, LocalsOK, Working, InRun, RunLock, At, Goto, Acquire, Dep, AllLookedAt, locals, monitor
<1>5. WaitedOK'
  BY <1>2 DEF WorkInv, TypeOK, LocalsOK, WaitedOK, Working, InRun, RunLock, At, Goto, Acquire, Dep, AllLookedAt, locals, monitor
<1>6. SleepersOK'
  BY <1>2 DEF WorkInv, TypeOK, LocalsOK, SleepersOK, Working, InRun, RunLock, At, Goto, Acquire, Dep, AllLookedAt, locals, monitor
<1>7. StartedOK'
  BY <1>2 DEF WorkInv, TypeOK, StartedOK, RunLock, At, Goto, Acquire, locals, monitor
<1> QED BY <1>2, <1>3, <1>4, <1>5, <1>6, <1>7 DEF WorkInv

LEMMA RunSleepWork ==
  ASSUME WorkInv, NEW t \in Threads, RunSleep(t)
  PROVE  WorkInv'
<1>1. Step(t)
  BY DEF Step
<1>2. MainOK' /\ nbs \in [Vertices -> Seq(Vertices)] /\ nbs' = nbs
  BY <1>1, StepMain
<1>3. TypeOK'
  BY <1>2 DEF WorkInv, TypeOK, LocalsOK, Working, InRun, RunSleep, At, Goto, FallAsleep, Release, Dep, AllLookedAt, locals, monitor
<1>4. LocalsOK'
  BY <1>2 DEF WorkInv, TypeOK, LocalsOK, Working, InRun, RunSleep, At, Goto, FallAsleep, Release, Dep, AllLookedAt, locals, monitor
<1>5. WaitedOK'
  BY <1>2 DEF WorkInv, TypeOK, LocalsOK, WaitedOK, Working, InRun, RunSleep, At, Goto, FallAsleep, Release, Dep, AllLookedAt, locals, monitor
<1>6. SleepersOK'
  BY <1>2 DEF WorkInv, TypeOK, LocalsOK, SleepersOK, Working, InRun, RunSleep, At, Goto, FallAsleep, Release, Dep, AllLookedAt, locals, monitor
<1>7. StartedOK'
  BY <1>2 DEF WorkInv, TypeOK, StartedOK, RunSleep, At, Goto, FallAsleep, Release, locals, monitor
<1> QED BY <1>2, <1>3, <1>4, <1>5, <1>6, <1>7 DEF WorkInv

LEMMA RunRelockWork ==
  ASSUME WorkInv, NEW t \in Threads, RunRelock(t)
  PROVE  WorkInv'
<1>1. Step(t)
  BY DEF Step
<1>2. MainOK' /\ nbs \in [Vertices -> Seq(Vertices)] /\ nbs' = nbs
  BY <1>1, StepMain
<1>3. TypeOK'
  BY <1>2 DEF WorkInv, TypeOK, LocalsOK, Working, InRun, RunRelock, At, Goto, Acquire, Dep, AllLookedAt, locals, monitor
<1>4. LocalsOK'
  BY <1>2 DEF WorkInv, TypeOK, LocalsOK, Working, InRun, RunRelock, At, Goto, Acquire, Dep, AllLookedAt, locals, monitor
<1>5. WaitedOK'
  BY <1>2 DEF WorkInv, TypeOK, LocalsOK, WaitedOK, Working, InRun, RunRelock, At, Goto, Acquire, Dep, AllLookedAt, locals, monitor
<1>6. SleepersOK'
  <2>1. \A u \in Threads \ {t} : pc'[u] = pc[u]
    BY DEF WorkInv, TypeOK, RunRelock, Goto
  <2>2. t \notin waiting /\ UNCHANGED <<waiting, data, target, i>>
    BY DEF RunRelock, Awake, locals
  <2> QED BY <1>2, <2>1, <2>2 DEF WorkInv, TypeOK, SleepersOK, Dep
<1>7. StartedOK'
  BY <1>2 DEF WorkInv, TypeOK, StartedOK, RunRelock, At, Goto, Acquire, locals, monitor
<1> QED BY <1>2, <1>3, <1>4, <1>5, <1>6, <1>7 DEF WorkInv

LEMMA RunUnlockWork ==
  ASSUME WorkInv, NEW t \in Threads, RunUnlock(t)
  PROVE  WorkInv'
<1>1. Step(t)
  BY DEF Step
<1>2. MainOK' /\ nbs \in [Vertices -> Seq(Vertices)] /\ nbs' = nbs
  BY <1>1, StepMain
<1>3. TypeOK'
  BY <1>2 DEF WorkInv, TypeOK, LocalsOK, Working, InRun, RunUnlock, At, Goto, Release, Dep, AllLookedAt, locals, monitor
<1>4. LocalsOK'
  BY <1>2 DEF WorkInv, TypeOK, LocalsOK, Working, InRun, RunUnlock, At, Goto, Release, Dep, AllLookedAt, locals, monitor
<1>5. WaitedOK'
  BY <1>2 DEF WorkInv, TypeOK, LocalsOK, WaitedOK, Working, InRun, RunUnlock, At, Goto, Release, Dep, AllLookedAt, locals, monitor
<1>6. SleepersOK'
  BY <1>2 DEF WorkInv, TypeOK, LocalsOK, SleepersOK, Working, InRun, RunUnlock, At, Goto, Release, Dep, AllLookedAt, locals, monitor
<1>7. StartedOK'
  BY <1>2 DEF WorkInv, TypeOK, StartedOK, RunUnlock, At, Goto, Release, locals, monitor
<1> QED BY <1>2, <1>3, <1>4, <1>5, <1>6, <1>7 DEF WorkInv

LEMMA RunReadWork ==
  ASSUME WorkInv, NEW t \in Threads, RunRead(t)
  PROVE  WorkInv'
<1>1. Step(t)
  BY DEF Step
<1>2. MainOK' /\ nbs \in [Vertices -> Seq(Vertices)] /\ nbs' = nbs
  BY <1>1, StepMain
<1>3. TypeOK'
  BY <1>2 DEF WorkInv, TypeOK, LocalsOK, Working, InRun, RunRead, At, Goto, Dep, AllLookedAt, locals, monitor
<1>4. LocalsOK'
  BY <1>2 DEF WorkInv, TypeOK, LocalsOK, Working, InRun, RunRead, At, Goto, Dep, AllLookedAt, locals, monitor
<1>5. WaitedOK'
  BY <1>2 DEF WorkInv, TypeOK, LocalsOK, WaitedOK, Working, InRun, RunRead, At, Goto, Dep, AllLookedAt, locals, monitor
<1>6. SleepersOK'
  BY <1>2 DEF WorkInv, TypeOK, LocalsOK, SleepersOK, Working, InRun, RunRead, At, Goto, Dep, AllLookedAt, locals, monitor
<1>7. StartedOK'
  BY <1>2 DEF WorkInv, TypeOK, StartedOK, RunRead, At, Goto, locals, monitor
<1> QED BY <1>2, <1>3, <1>4, <1>5, <1>6, <1>7 DEF WorkInv

LEMMA DecideWork ==
  ASSUME WorkInv, NEW t \in Threads, Decide(t)
  PROVE  WorkInv'
<1>1. Step(t)
  BY DEF Step
<1>2. MainOK' /\ nbs \in [Vertices -> Seq(Vertices)] /\ nbs' = nbs
  BY <1>1, StepMain
<1>3. TypeOK'
  BY <1>2 DEF WorkInv, TypeOK, LocalsOK, Working, InRun, Decide, At, Goto, Dep, AllLookedAt, locals, monitor
<1>4. LocalsOK'
  BY <1>2 DEF WorkInv, TypeOK, LocalsOK, Working, InRun, Decide, At, Goto, Dep, AllLookedAt, locals, monitor
<1>5. WaitedOK'
  BY <1>2 DEF WorkInv, TypeOK, LocalsOK, WaitedOK, Working, InRun, Decide, At, Goto, Dep, AllLookedAt, locals, monitor
<1>6. SleepersOK'
  BY <1>2 DEF WorkInv, TypeOK, LocalsOK, SleepersOK, Working, InRun, Decide, At, Goto, Dep, AllLookedAt, locals, monitor
<1>7. StartedOK'
  <2>1. \A j \in 1 .. Len(nbs[target[t]]) : data[nbs[target[t]][j]] # "unvisited"
    <3>1. \A j \in 1 .. Len(nbs[target[t]]) : j < i[t]
      BY <1>2 DEF WorkInv, TypeOK, Decide, AllLookedAt, LocalsOK, Working, InRun, At
    <3> QED BY <3>1 DEF WorkInv, WaitedOK, InRun, Decide, At
  <2>2. started' \subseteq started \cup {target[t]} /\ data' = data
    BY DEF Decide
  <2> QED BY <1>2, <2>1, <2>2 DEF WorkInv, StartedOK
<1> QED BY <1>2, <1>3, <1>4, <1>5, <1>6, <1>7 DEF WorkInv

LEMMA CommandsWork ==
  ASSUME WorkInv, NEW t \in Threads, Commands(t)
  PROVE  WorkInv'
<1>1. Step(t)
  BY DEF Step
<1>2. MainOK' /\ nbs \in [Vertices -> Seq(Vertices)] /\ nbs' = nbs
  BY <1>1, StepMain
<1>3. TypeOK'
  BY <1>2 DEF WorkInv, TypeOK, LocalsOK, Working, InRun, Commands, At, Goto, Dep, AllLookedAt, locals, monitor
<1>4. LocalsOK'
  BY <1>2 DEF WorkInv, TypeOK, LocalsOK, Working, InRun, Commands, At, Goto, Dep, AllLookedAt, locals, monitor
<1>5. WaitedOK'
  BY <1>2 DEF WorkInv, TypeOK, LocalsOK, WaitedOK, Working, InRun, Commands, At, Goto, Dep, AllLookedAt, locals, monitor
<1>6. SleepersOK'
  BY <1>2 DEF WorkInv, TypeOK, LocalsOK, SleepersOK, Working, InRun, Commands, At, Goto, Dep, AllLookedAt, locals, monitor
<1>7. StartedOK'
  BY <1>2 DEF WorkInv, TypeOK, StartedOK, Commands, At, Goto, locals, monitor
<1> QED BY <1>2, <1>3, <1>4, <1>5, <1>6, <1>7 DEF WorkInv

LEMMA SettleLockWork ==
  ASSUME WorkInv, NEW t \in Threads, SettleLock(t)
  PROVE  WorkInv'
<1>1. Step(t)
  BY DEF Step
<1>2. MainOK' /\ nbs \in [Vertices -> Seq(Vertices)] /\ nbs' = nbs
  BY <1>1, StepMain
<1>3. TypeOK'
  BY <1>2 DEF WorkInv, TypeOK, LocalsOK, Working, InRun, SettleLock, At, Goto, Acquire, Dep, AllLookedAt, locals, monitor
<1>4. LocalsOK'
  BY <1>2 DEF WorkInv, TypeOK, LocalsOK, Working, InRun, SettleLock, At, Goto, Acquire, Dep, AllLookedAt, locals, monitor
<1>5. WaitedOK'
  BY <1>2 DEF WorkInv, TypeOK, LocalsOK, WaitedOK, Working, InRun, SettleLock, At, Goto, Acquire, Dep, AllLookedAt, locals, monitor
<1>6. SleepersOK'
  BY <1>2 DEF WorkInv, TypeOK, LocalsOK, SleepersOK, Working, InRun, SettleLock, At, Goto, Acquire, Dep, AllLookedAt, locals, monitor
<1>7. StartedOK'
  BY <1>2 DEF WorkInv, TypeOK, StartedOK, SettleLock, At, Goto, Acquire, locals, monitor
<1> QED BY <1>2, <1>3, <1>4, <1>5, <1>6, <1>7 DEF WorkInv

LEMMA StoreWork ==
  ASSUME WorkInv, NEW t \in Threads, Store(t)
  PROVE  WorkInv'
<1>1. Step(t)
  BY DEF Step
<1>2. MainOK' /\ nbs \in [Vertices -> Seq(Vertices)] /\ nbs' = nbs
  BY <1>1, StepMain
<1>3. TypeOK'
  BY <1>2 DEF WorkInv, TypeOK, LocalsOK, Working, InRun, Store, At, Goto, WakeAll, Dep, AllLookedAt, locals, monitor
<1>4. LocalsOK'
  BY <1>2 DEF WorkInv, TypeOK, LocalsOK, Working, InRun, Store, At, Goto, WakeAll, Dep, AllLookedAt, locals, monitor
<1>5. WaitedOK'
  BY <1>2 DEF WorkInv, TypeOK, LocalsOK, WaitedOK, Working, InRun, Store, At, Goto, WakeAll, Dep, AllLookedAt, locals, monitor
<1>6. SleepersOK'
  BY <1>2 DEF WorkInv, TypeOK, LocalsOK, SleepersOK, Working, InRun, Store, At, Goto, WakeAll, Dep, AllLookedAt, locals, monitor
<1>7. StartedOK'
  <2>1. \A r \in started : \A j \in 1 .. Len(nbs[r]) : nbs[r][j] \in Vertices
    <3>1. \A r \in started : nbs[r] \in Seq(Vertices)
      BY <1>2 DEF WorkInv, TypeOK
    <3> QED BY <3>1
  <2>2. started' = started /\ \A v \in Vertices : data[v] # "unvisited" => data'[v] # "unvisited"
    BY DEF WorkInv, TypeOK, LocalsOK, Store, At
  <2> QED BY <1>2, <2>1, <2>2 DEF WorkInv, StartedOK
<1> QED BY <1>2, <1>3, <1>4, <1>5, <1>6, <1>7 DEF WorkInv

LEMMA SettleUnlockWork ==
  ASSUME WorkInv, NEW t \in Threads, SettleUnlock(t)
  PROVE  WorkInv'
<1>1. Step(t)
  BY DEF Step
<1>2. MainOK' /\ nbs \in [Vertices -> Seq(Vertices)] /\ nbs' = nbs
  BY <1>1, StepMain
<1>3. TypeOK'
  BY <1>2 DEF WorkInv, TypeOK, LocalsOK, Working, InRun, SettleUnlock, At, Goto, Release, Dep, AllLookedAt, locals, monitor
<1>4. LocalsOK'
  BY <1>2 DEF WorkInv, TypeOK, LocalsOK, Working, InRun, SettleUnlock, At, Goto, Release, Dep, AllLookedAt, locals, monitor
<1>5. WaitedOK'
  <2>1. \A u \in Threads \ {t} : pc'[u] = pc[u] /\ i'[u] = i[u] /\ target'[u] = target[u]
    BY DEF WorkInv, TypeOK, SettleUnlock, Goto
  <2>2. pc'[t] = "pull" /\ data' = data
    BY DEF WorkInv, TypeOK, SettleUnlock, Goto
  <2> QED BY <1>2, <2>1, <2>2 DEF WorkInv, WaitedOK, InRun, Dep
<1>6. SleepersOK'
  BY <1>2 DEF WorkInv, TypeOK, LocalsOK, SleepersOK, Working, InRun, SettleUnlock, At, Goto, Release, Dep, AllLookedAt, locals, monitor
<1>7. StartedOK'
  BY <1>2 DEF WorkInv, TypeOK, StartedOK, SettleUnlock, At, Goto, Release, locals, monitor
<1> QED BY <1>2, <1>3, <1>4, <1>5, <1>6, <1>7 DEF WorkInv

LEMMA WakeupWork ==
  ASSUME WorkInv, NEW t \in Threads, Wakeup(t)
  PROVE  WorkInv'
<1>1. MainOK' /\ nbs' = nbs
  BY StepMain
<1>2. waiting' \subseteq waiting /\ UNCHANGED <<items, data, s, target, i, ret, verdict, started, pc, owner>>
  BY DEF Wakeup, SpuriousWakeup, locals
<1>3. TypeOK' /\ LocalsOK'
  BY <1>1, <1>2 DEF WorkInv, TypeOK, LocalsOK
<1>4. WaitedOK' /\ SleepersOK' /\ StartedOK'
  BY <1>1, <1>2 DEF WorkInv, WaitedOK, SleepersOK, StartedOK, Dep
<1> QED BY <1>1, <1>3, <1>4 DEF WorkInv

LEMMA WorkNextInv == WorkInv /\ [Next]_vars => WorkInv'
<1> SUFFICES ASSUME WorkInv, [Next]_vars PROVE WorkInv'
  OBVIOUS
<1>1. CASE Main
  BY <1>1, MainWork
<1>2. CASE CreateWorkers
  BY <1>2, CreateWorkersWork
<1>3. ASSUME NEW t \in Threads, Step(t) PROVE WorkInv'
  BY <1>3, PullWork, TakeWork, CheckDepWork, RunLookWork, RunLockWork, RunSleepWork, RunRelockWork,
     RunUnlockWork, RunReadWork, DecideWork, CommandsWork, SettleLockWork, StoreWork, SettleUnlockWork
     DEF Step
<1>4. ASSUME NEW t \in Threads, Wakeup(t) PROVE WorkInv'
  BY <1>4, WakeupWork
<1>5. CASE UNCHANGED vars
  <2>1. UNCHANGED <<items, main, nbs, state, data, stack, cyclic, s, target, i, ret, verdict,
                    started, pc, owner, waiting>>
    BY <1>5 DEF vars, orderVars, marks, workerVars, locals, monitorVars
  <2>2. SearchInv => SearchInv'
    <3>1. UNCHANGED orderVars
      BY <1>5 DEF vars
    <3> QED BY <3>1, SearchNextInv
  <2>3. TypeOK' /\ MainOK' /\ LocalsOK'
    BY <2>1, <2>2 DEF WorkInv, TypeOK, MainOK, LocalsOK
  <2>4. WaitedOK' /\ SleepersOK' /\ StartedOK'
    BY <2>1 DEF WorkInv, WaitedOK, SleepersOK, StartedOK, Dep
  <2> QED BY <2>3, <2>4 DEF WorkInv
<1> QED BY <1>1, <1>2, <1>3, <1>4, <1>5 DEF Next, Terminated

LEMMA WorkInvariant == SafeSpec => []WorkInv
BY WorkInitInv, WorkNextInv, PTL DEF SafeSpec

LEMMA WorkSuffices == WorkInv => Consistent /\ StagesInOrder /\ SearchRight /\ DependenciesFirst
<1> SUFFICES ASSUME WorkInv PROVE Consistent /\ StagesInOrder /\ SearchRight /\ DependenciesFirst
  OBVIOUS
<1>1. Consistent
  BY DEF WorkInv, Consistent, NoLostWakeup, SleepersOK
<1>2. StagesInOrder
  <2>1. ASSUME NEW r \in started, NEW d \in Range(nbs[r]) PROVE data[d] # "unvisited"
    <3>1. nbs[r] \in Seq(Vertices)
      BY DEF WorkInv, TypeOK, MainOK
    <3>2. PICK j \in 1 .. Len(nbs[r]) : d = nbs[r][j]
      BY <2>1, <3>1 DEF Range
    <3> QED BY <3>2 DEF WorkInv, StartedOK
  <2> QED BY <2>1 DEF StagesInOrder
<1>3. CASE main = "build"
  BY <1>1, <1>2, <1>3 DEF SearchRight, FindsCycles, QueuesWhatIsNeeded, DependenciesFirst
<1>4. CASE main # "build"
  BY <1>1, <1>2, <1>4, SearchSuffices, InOrderSuffices DEF WorkInv, MainOK, SearchInv
<1> QED BY <1>3, <1>4

\* Any number of workers, any makefile: no worker sleeps for a dependency that
\* is settled already (parmake.c:98-104 tests again under the mutex what it has
\* seen without), and every variable keeps its type.
THEOREM WorkersConsistent == SafeSpec => []Consistent
BY WorkInvariant, WorkSuffices, PTL

\* The commands of a rule start only when each of its dependencies has been
\* settled (parmake.c:91-116), although checkdep and run look at the results
\* without the mutex.
THEOREM WorkersInOrder == SafeSpec => []StagesInOrder
BY WorkInvariant, WorkSuffices, PTL

\* The workers leave what the search has found as it is.
THEOREM ProgramSearchRight == SafeSpec => [](SearchRight /\ DependenciesFirst)
BY WorkInvariant, WorkSuffices, PTL

---------------------------------------------------------------------------
\* The mutex and the queue's bookkeeping.
LEMMA MutexInit == Init => MutexOK
BY MonitorAssumption DEF Init, MonitorInit, MutexOK

LEMMA MutexNext ==
  ASSUME WorkInv, MutexOK, [Next]_vars
  PROVE  MutexOK'
<1>1. CASE Main \/ Terminated \/ UNCHANGED vars
  BY <1>1 DEF Main, Terminated, workerVars, vars, monitorVars, MutexOK
<1>2. CASE CreateWorkers
  <2>1. owner = NoThread \/ owner \in Threads
    BY DEF WorkInv, TypeOK
  <2> QED BY <1>2, <2>1, MonitorAssumption DEF CreateWorkers, monitor, MutexOK, WorkInv, MainOK
<1>3. ASSUME NEW t \in Threads, Step(t) \/ Wakeup(t) PROVE MutexOK'
  <2>1. pc \in [Threads -> {"new", "pull", "take", "checkdep", "run", "runLock", "runTest", "runWait",
                            "runRead", "commands", "settle", "store", "settleUnlock", "exit"}]
    BY DEF WorkInv, TypeOK
  <2>2. CASE Pull(t) \/ Take(t) \/ CheckDep(t) \/ RunLook(t) \/ RunRead(t) \/ Decide(t) \/ Commands(t)
             \/ Store(t) \/ Wakeup(t)
    BY <2>1, <2>2 DEF MutexOK, Pull, Take, CheckDep, RunLook, RunRead, Decide, Commands, Store, Wakeup,
                      SpuriousWakeup, At, Goto, monitor
  <2>3. CASE RunLock(t) \/ RunRelock(t) \/ SettleLock(t)
    BY <2>1, <2>3, MonitorAssumption DEF MutexOK, RunLock, RunRelock, SettleLock, At, Goto, Acquire
  <2>4. CASE RunSleep(t) \/ RunUnlock(t) \/ SettleUnlock(t)
    BY <2>1, <2>4, MonitorAssumption
       DEF MutexOK, RunSleep, RunUnlock, SettleUnlock, At, Goto, Release, FallAsleep
  <2> QED BY <1>3, <2>2, <2>3, <2>4 DEF Step
<1> QED BY <1>1, <1>2, <1>3 DEF Next

LEMMA OrderedUnchanged ==
  ASSUME nbs' = nbs, NEW q
  PROVE  Ordered(q)' <=> Ordered(q)
BY DEF Ordered

\* A worker that goes on with its rule.
LEMMA InsideStep ==
  ASSUME WorkInv, NEW t \in Threads, NEW q \in Seq(Vertices), NEW p \in Nat,
         Remains(q, p), Pulled(q, p),
         pc[t] \in Working, pc'[t] \in Working \ {"take", "settleUnlock"},
         \A u \in Threads \ {t} : pc'[u] = pc[u],
         UNCHANGED <<items, data, s, target>>
  PROVE  Remains(q, p)' /\ Pulled(q, p)'
<1>1. \A u \in Threads : /\ pc'[u] \in Working <=> pc[u] \in Working
                         /\ pc'[u] = "exit" <=> pc[u] = "exit"
                         /\ pc'[u] = "take" => pc[u] = "take"
                         /\ pc'[u] = "settleUnlock" => pc[u] = "settleUnlock"
  BY DEF Working, InRun
<1>2. {u \in Threads : pc'[u] = "exit"} = {u \in Threads : pc[u] = "exit"}
  BY <1>1
<1>3. Remains(q, p)'
  BY <1>2 DEF Remains
<1>4. Pulled(q, p)'
  BY <1>1 DEF Pulled
<1> QED BY <1>3, <1>4

LEMMA PullPool ==
  ASSUME WorkInv, NEW t \in Threads, Pull(t), NEW q \in Seq(Vertices), NEW p \in Nat,
         Ordered(q), Remains(q, p), Pulled(q, p)
  PROVE  Remains(q, p + 1)' /\ Pulled(q, p + 1)'
<1> DEFINE N == Cardinality(Threads)
           E == {u \in Threads : pc[u] = "exit"}
<1>1. /\ pc[t] = "pull" /\ items # <<>> /\ items' = Tail(items)
      /\ target' = [target EXCEPT ![t] = Head(items)]
      /\ pc' = [pc EXCEPT ![t] = IF Head(items) = NoRule THEN "exit" ELSE "take"]
      /\ UNCHANGED <<data, s>>
  BY DEF Pull, At, Goto, Dequeue, CanPull
<1>2. /\ items \in Seq(Vertices \cup {NoRule}) /\ target \in [Threads -> Vertices \cup {NoRule}]
      /\ \E L : pc \in [Threads -> L]
  BY DEF WorkInv, TypeOK
<1>3. /\ Len(items) \in Nat \ {0} /\ Head(items) = items[1] /\ Len(items') = Len(items) - 1
      /\ \A n \in 1 .. Len(items') : items'[n] = items[n + 1]
  BY <1>1, <1>2
<1>4. N \in Nat /\ IsFiniteSet(Threads) /\ IsFiniteSet(E) /\ Cardinality(E) \in Nat
  BY ParMakeAssumption, FS_CardinalityType, FS_Subset
<1>5. /\ p <= Len(q) + N /\ Len(items) = Len(q) + N - p
      /\ \A n \in 1 .. Len(items) : items[n] = IF p + n <= Len(q) THEN q[p + n] ELSE NoRule
      /\ Cardinality(E) = IF p <= Len(q) THEN 0 ELSE p - Len(q)
  BY DEF Remains
<1>6. Len(q) \in Nat /\ \A n \in 1 .. Len(q) : q[n] \in Vertices
  OBVIOUS
<1> HIDE DEF N, E
<1>7. /\ p + 1 <= Len(q) + N /\ Len(items') = Len(q) + N - (p + 1)
      /\ \A n \in 1 .. Len(items') : items'[n] = IF p + 1 + n <= Len(q) THEN q[p + 1 + n] ELSE NoRule
  <2>1. p + 1 <= Len(q) + N /\ Len(items') = Len(q) + N - (p + 1)
    BY ONLY <1>3, <1>4, <1>5, <1>6
  <2>2. ASSUME NEW n \in 1 .. Len(items')
        PROVE items'[n] = IF p + 1 + n <= Len(q) THEN q[p + 1 + n] ELSE NoRule
    <3>1. n + 1 \in 1 .. Len(items) /\ p + (n + 1) = p + 1 + n
      BY ONLY <1>3, <2>2, p \in Nat
    <3> QED BY ONLY <1>3, <1>5, <2>2, <3>1
  <2> QED BY ONLY <2>1, <2>2
<1>12. /\ p + 1 <= Len(q) + Cardinality(Threads) /\ Len(items') = Len(q) + Cardinality(Threads) - (p + 1)
       /\ \A n \in 1 .. Len(items') : items'[n] = IF p + 1 + n <= Len(q) THEN q[p + 1 + n] ELSE NoRule
  BY ONLY <1>7 DEF N
<1>8. Head(items) = IF p + 1 <= Len(q) THEN q[p + 1] ELSE NoRule
  BY <1>3, <1>5
<1>9. \A u \in Threads \ {t} : pc'[u] = pc[u] /\ target'[u] = target[u]
  BY <1>1, <1>2
<1>10. CASE p + 1 <= Len(q)
  <2>1. p + 1 \in 1 .. Len(q) /\ q[p + 1] # NoRule
    BY <1>6, <1>10, ParMakeAssumption
  <2>2. pc'[t] = "take" /\ target'[t] = q[p + 1]
    BY <1>1, <1>2, <1>8, <1>10, <2>1
  <2>3. {u \in Threads : pc'[u] = "exit"} = E
    BY <1>1, <1>9, <2>2 DEF E
  <2>4. Remains(q, p + 1)'
    <3>1. Cardinality(E) = IF p + 1 <= Len(q) THEN 0 ELSE p + 1 - Len(q)
      BY ONLY <1>5, <1>6, <1>10, p \in Nat
    <3>2. Cardinality({u \in Threads : pc'[u] = "exit"}) = IF p + 1 <= Len(q) THEN 0 ELSE p + 1 - Len(q)
      BY ONLY <2>3, <3>1
    <3> QED BY ONLY <1>12, <3>2 DEF Remains
  <2>5. \A n \in 1 .. Len(q) : n <= p + 1 <=> n <= p \/ n = p + 1
    OBVIOUS
  <2>6. \A n \in 1 .. Len(q) : n <= p => q[n] # q[p + 1]
    BY <2>1 DEF Ordered
  <2>7. pc[t] \notin Working /\ pc'[t] \in Working
    BY <1>1, <2>2 DEF Working, InRun
  <2>8. \A u \in Threads : pc'[u] \in Working =>
          \E n \in 1 .. Len(q) : n <= p + 1 /\ target'[u] = q[n]
    BY <1>9, <2>1, <2>2, <2>5 DEF Pulled
  <2>9. \A n \in 1 .. Len(q) : n <= p + 1 =>
           data[q[n]] # "unvisited" \/ \E u \in Threads : pc'[u] \in Working /\ target'[u] = q[n]
    BY <1>9, <2>2, <2>5, <2>7 DEF Pulled
  <2>10. \A u, v \in Threads : pc'[u] \in Working /\ pc'[v] \in Working /\ target'[u] = target'[v] => u = v
    BY <1>9, <2>2, <2>6 DEF Pulled
  <2>11. \A r \in s : \E n \in 1 .. Len(q) : n <= p /\ r = q[n]
    BY DEF Pulled
  <2>12. \A u \in Threads : /\ pc'[u] = "take" => target'[u] \notin s
                            /\ pc'[u] = "settleUnlock" => data[target'[u]] # "unvisited"
    BY <1>9, <2>2, <2>6, <2>11 DEF Pulled
  <2> QED BY <1>1, <2>4, <2>5, <2>8, <2>9, <2>10, <2>11, <2>12 DEF Pulled
<1>11. CASE ~(p + 1 <= Len(q))
  <2>1. pc'[t] = "exit"
    BY <1>1, <1>2, <1>8, <1>11
  <2>2. {u \in Threads : pc'[u] = "exit"} = E \cup {t} /\ t \notin E
    BY <1>1, <1>9, <2>1 DEF E
  <2>3. Cardinality(E \cup {t}) = Cardinality(E) + 1
    BY <1>4, <2>2, FS_AddElement
  <2>4. Remains(q, p + 1)'
    <3>1. Cardinality(E \cup {t}) = IF p + 1 <= Len(q) THEN 0 ELSE p + 1 - Len(q)
      BY ONLY <1>5, <1>6, <1>11, <2>3, p \in Nat
    <3>2. Cardinality({u \in Threads : pc'[u] = "exit"}) = IF p + 1 <= Len(q) THEN 0 ELSE p + 1 - Len(q)
      BY ONLY <2>2, <3>1
    <3> QED BY ONLY <1>12, <3>2 DEF Remains
  <2>5. \A n \in 1 .. Len(q) : n <= p + 1 /\ n <= p
    BY <1>6, <1>11
  <2>6. pc[t] \notin Working /\ pc'[t] \notin Working
    BY <1>1, <2>1 DEF Working, InRun
  <2>7. \A u \in Threads : pc'[u] \in Working => u # t /\ pc[u] \in Working /\ target'[u] = target[u]
    BY <1>9, <2>6
  <2>8. \A u \in Threads : pc[u] \in Working => pc'[u] \in Working /\ target'[u] = target[u]
    BY <1>9, <2>6
  <2>9. \A u \in Threads : pc'[u] = "take" => pc[u] = "take" /\ target'[u] = target[u]
    BY <1>9, <2>1
  <2>10. \A u \in Threads : pc'[u] = "settleUnlock" => pc[u] = "settleUnlock" /\ target'[u] = target[u]
    BY <1>9, <2>1
  <2>11. \A u \in Threads : pc'[u] \in Working =>
           \E n \in 1 .. Len(q) : n <= p + 1 /\ target'[u] = q[n]
    BY <2>5, <2>7 DEF Pulled
  <2>12. \A n \in 1 .. Len(q) :
           data[q[n]] # "unvisited" \/ \E u \in Threads : pc'[u] \in Working /\ target'[u] = q[n]
    BY <2>5, <2>8 DEF Pulled
  <2>13. \A u, v \in Threads : pc'[u] \in Working /\ pc'[v] \in Working /\ target'[u] = target'[v] => u = v
    BY <2>7 DEF Pulled
  <2> QED BY <1>1, <2>4, <2>5, <2>9, <2>10, <2>11, <2>12, <2>13 DEF Pulled
<1> QED BY <1>10, <1>11

\* No rule is dropped: the first worker at it is the only one.
LEMMA TakePool ==
  ASSUME WorkInv, NEW t \in Threads, Take(t), NEW q \in Seq(Vertices), NEW p \in Nat,
         Remains(q, p), Pulled(q, p)
  PROVE  Remains(q, p)' /\ Pulled(q, p)'
<1>1. pc[t] = "take" /\ target[t] \notin s
  BY DEF Take, At, Pulled
<1>2. /\ pc'[t] = "checkdep" /\ s' \subseteq s \cup {target[t]}
      /\ \A u \in Threads \ {t} : pc'[u] = pc[u]
      /\ UNCHANGED <<items, data, target>>
  BY <1>1 DEF Take, Goto, WorkInv, TypeOK, locals
<1>3. \A u \in Threads : /\ pc'[u] \in Working <=> pc[u] \in Working
                         /\ pc'[u] = "exit" <=> pc[u] = "exit"
                         /\ pc'[u] = "take" => pc[u] = "take" /\ u # t
                         /\ pc'[u] = "settleUnlock" => pc[u] = "settleUnlock"
  BY <1>1, <1>2 DEF Working, InRun
<1>4. Remains(q, p)'
  <2>1. {u \in Threads : pc'[u] = "exit"} = {u \in Threads : pc[u] = "exit"}
    BY <1>3
  <2> QED BY <1>2, <2>1 DEF Remains
<1>5. Pulled(q, p)'
  <2>1. pc[t] \in Working
    BY <1>1 DEF Working
  <2>2. \E n \in 1 .. Len(q) : n <= p /\ target[t] = q[n]
    BY <2>1 DEF Pulled
  <2>3. \A r \in s' : \E n \in 1 .. Len(q) : n <= p /\ r = q[n]
    BY <1>2, <2>2 DEF Pulled
  <2>4. \A u \in Threads : pc'[u] = "take" => target[u] \notin s'
    <3>1. \A u \in Threads : pc[u] = "take" => pc[u] \in Working
      BY DEF Working
    <3> QED BY <1>2, <1>3, <2>1, <3>1 DEF Pulled
  <2> QED BY <1>2, <1>3, <2>3, <2>4 DEF Pulled
<1> QED BY <1>4, <1>5

LEMMA StorePool ==
  ASSUME WorkInv, NEW t \in Threads, Store(t), NEW q \in Seq(Vertices), NEW p \in Nat,
         Remains(q, p), Pulled(q, p)
  PROVE  Remains(q, p)' /\ Pulled(q, p)'
<1>1. /\ pc[t] = "store" /\ pc'[t] = "settleUnlock"
      /\ \A u \in Threads \ {t} : pc'[u] = pc[u]
      /\ data' = [data EXCEPT ![target[t]] = verdict[t]]
      /\ UNCHANGED <<items, s, target>>
  BY DEF Store, At, Goto, WorkInv, TypeOK, locals
<1>2. pc[t] \in Working /\ target[t] \in Vertices /\ verdict[t] # "unvisited"
  BY <1>1 DEF WorkInv, LocalsOK, Working
<1>3. \A u \in Threads : /\ pc'[u] \in Working <=> pc[u] \in Working
                         /\ pc'[u] = "exit" <=> pc[u] = "exit"
                         /\ pc'[u] = "take" => pc[u] = "take"
                         /\ pc'[u] = "settleUnlock" => pc[u] = "settleUnlock" \/ u = t
  BY <1>1 DEF Working, InRun
<1>4. /\ data'[target[t]] # "unvisited"
      /\ \A v \in Vertices : data[v] # "unvisited" => data'[v] # "unvisited"
  BY <1>1, <1>2 DEF WorkInv, TypeOK
<1>5. Remains(q, p)'
  <2>1. {u \in Threads : pc'[u] = "exit"} = {u \in Threads : pc[u] = "exit"}
    BY <1>3
  <2> QED BY <1>1, <2>1 DEF Remains
<1>6. Pulled(q, p)'
  <2>1. \A n \in 1 .. Len(q) : q[n] \in Vertices
    OBVIOUS
  <2>2. \A u \in Threads : pc'[u] = "settleUnlock" => data'[target[u]] # "unvisited"
    <3>1. \A u \in Threads : pc[u] = "settleUnlock" => target[u] \in Vertices
      BY DEF WorkInv, LocalsOK, Working
    <3> QED BY <1>3, <1>4, <3>1 DEF Pulled
  <2> QED BY <1>1, <1>3, <1>4, <2>1, <2>2 DEF Pulled
<1> QED BY <1>5, <1>6

LEMMA SettleUnlockPool ==
  ASSUME WorkInv, NEW t \in Threads, SettleUnlock(t), NEW q \in Seq(Vertices), NEW p \in Nat,
         Remains(q, p), Pulled(q, p)
  PROVE  Remains(q, p)' /\ Pulled(q, p)'
<1>1. /\ pc[t] = "settleUnlock" /\ pc'[t] = "pull"
      /\ \A u \in Threads \ {t} : pc'[u] = pc[u] /\ target'[u] = target[u]
      /\ UNCHANGED <<items, s, data>>
  BY DEF SettleUnlock, At, Goto, WorkInv, TypeOK
<1>2. pc'[t] \notin Working /\ data[target[t]] # "unvisited"
  BY <1>1 DEF Working, InRun, Pulled
<1>3. \A u \in Threads : /\ pc'[u] \in Working => pc[u] \in Working /\ u # t
                         /\ pc'[u] = "exit" <=> pc[u] = "exit"
                         /\ pc'[u] = "take" => pc[u] = "take" /\ u # t
                         /\ pc'[u] = "settleUnlock" => pc[u] = "settleUnlock" /\ u # t
  BY <1>1, <1>2
<1>4. Remains(q, p)'
  <2>1. {u \in Threads : pc'[u] = "exit"} = {u \in Threads : pc[u] = "exit"}
    BY <1>3
  <2> QED BY <1>1, <2>1 DEF Remains
<1>5. Pulled(q, p)'
  <2>1. \A u \in Threads : pc'[u] \in Working =>
          \E n \in 1 .. Len(q) : n <= p /\ target'[u] = q[n]
    BY <1>1, <1>3 DEF Pulled
  <2>2. \A n \in 1 .. Len(q) : n <= p =>
           data[q[n]] # "unvisited" \/ \E u \in Threads : pc'[u] \in Working /\ target'[u] = q[n]
    <3>1. \A u \in Threads : pc[u] \in Working /\ u # t => pc'[u] \in Working /\ target'[u] = target[u]
      BY <1>1
    <3> QED BY <1>2, <3>1 DEF Pulled
  <2>3. \A u, v \in Threads : pc'[u] \in Working /\ pc'[v] \in Working /\ target'[u] = target'[v] => u = v
    BY <1>1, <1>3 DEF Pulled
  <2>4. \A u \in Threads : pc'[u] = "take" => target'[u] \notin s
    BY <1>1, <1>3 DEF Pulled
  <2>5. \A u \in Threads : pc'[u] = "settleUnlock" => data[target'[u]] # "unvisited"
    BY <1>1, <1>3 DEF Pulled
  <2> QED BY <1>1, <2>1, <2>2, <2>3, <2>4, <2>5 DEF Pulled
<1> QED BY <1>4, <1>5

\* The queue of main, before the first pull.
LEMMA CreateWorkersPool ==
  ASSUME WorkInv, CreateWorkers
  PROVE  PoolOK'
<1> DEFINE N == Cardinality(Threads)
<1>1. /\ N \in Nat /\ items \in Seq(Vertices) /\ Len(items') = Len(items) + N
      /\ \A n \in 1 .. Len(items') : items'[n] = IF n <= Len(items) THEN items[n] ELSE NoRule
  BY CreateWorkersQueue
<1>2. /\ main = "ordered" /\ \A u \in Threads : pc'[u] = "pull"
      /\ UNCHANGED <<nbs, s, data>>
  BY DEF CreateWorkers, marks
<1>3. SearchInv
  BY <1>2 DEF WorkInv, MainOK
<1>4. PICK q \in Seq(Vertices) : q = items
  BY <1>1
<1>5. Ordered(q)'
  <2>1. Ordered(q)
    BY <1>3, <1>4 DEF SearchInv, QueuedOK, OrderInv, InOrder, Ordered
  <2> QED BY <1>2, <2>1 DEF Ordered
<1>6. Pulled(q, 0)'
  <2>1. s = {} /\ Len(q) \in Nat
    BY <1>2 DEF WorkInv, MainOK
  <2>2. \A u \in Threads : pc'[u] \notin Working \cup {"take", "settleUnlock"}
    BY <1>2 DEF Working, InRun
  <2> QED BY <1>2, <2>1, <2>2 DEF Pulled
<1>7. Remains(q, 0)'
  <2>1. {u \in Threads : pc'[u] = "exit"} = {}
    BY <1>2
  <2>2. Cardinality({u \in Threads : pc'[u] = "exit"}) = 0
    BY <2>1, FS_EmptySet
  <2>3. /\ 0 <= Len(q) + N /\ Len(items') = Len(q) + N - 0 /\ 0 <= Len(q)
        /\ \A n \in 1 .. Len(items') : items'[n] = IF 0 + n <= Len(q) THEN q[0 + n] ELSE NoRule
    BY ONLY <1>1, <1>4, q \in Seq(Vertices)
  <2> QED BY ONLY <2>2, <2>3 DEF Remains
<1> QED BY <1>5, <1>6, <1>7 DEF PoolOK

\* The steps in which a worker keeps its rule.
LEMMA GoOnPool ==
  ASSUME WorkInv, NEW t \in Threads, NEW q \in Seq(Vertices), NEW p \in Nat,
         Remains(q, p), Pulled(q, p),
         \/ CheckDep(t) \/ RunLook(t) \/ RunLock(t) \/ RunSleep(t) \/ RunRelock(t) \/ RunUnlock(t)
         \/ RunRead(t) \/ Decide(t) \/ Commands(t) \/ SettleLock(t)
  PROVE  Remains(q, p)' /\ Pulled(q, p)'
<1>1. UNCHANGED <<items, data, s, target>>
  BY DEF CheckDep, RunLook, RunLock, RunSleep, RunRelock, RunUnlock, RunRead, Decide, Commands,
         SettleLock, locals
<1>2. \E l \in {"run", "settle", "runLock", "runTest", "runWait", "runRead", "commands", "store",
                "checkdep"} :
         pc[t] \in Working /\ ((pc' = [pc EXCEPT ![t] = l]) \/ (pc' = pc /\ pc[t] = l))
  <2>1. CASE CheckDep(t)
    BY <2>1 DEF CheckDep, At, Goto, Working
  <2>2. CASE RunLook(t)
    BY <2>2 DEF RunLook, At, Goto, Working, InRun
  <2>3. CASE Decide(t)
    BY <2>3 DEF Decide, At, Goto, Working, InRun
  <2>4. CASE RunLock(t) \/ RunSleep(t) \/ RunRelock(t) \/ RunUnlock(t) \/ RunRead(t)
    BY <2>4 DEF RunLock, RunSleep, RunRelock, RunUnlock, RunRead, At, Goto, Working, InRun
  <2>5. CASE Commands(t) \/ SettleLock(t)
    BY <2>5 DEF Commands, SettleLock, At, Goto, Working
  <2> QED BY <2>1, <2>2, <2>3, <2>4, <2>5
<1>3. /\ pc[t] \in Working /\ pc'[t] \in Working \ {"take", "settleUnlock"}
      /\ \A u \in Threads \ {t} : pc'[u] = pc[u]
  BY <1>2 DEF WorkInv, TypeOK, Working, InRun
<1> QED BY <1>1, <1>3, InsideStep

LEMMA PoolNext ==
  ASSUME WorkInv, PoolOK, [Next]_vars
  PROVE  PoolOK'
<1>1. CASE Main \/ Terminated \/ UNCHANGED vars
  <2>1. CASE Main
    <3>1. main' # "build"
      BY <2>1 DEF Main, OrderNext, AddDependency, AddGoal, AddEdge, Begin, iscycle, Descend, PassBy,
                  MeetCycle, Close, AtNeighbour
    <3> QED BY <3>1 DEF PoolOK
  <2>2. CASE UNCHANGED vars
    <3>1. UNCHANGED <<items, main, nbs, data, s, target, pc>>
      BY <2>2 DEF vars, orderVars, marks, workerVars, locals, monitorVars
    <3>2. CASE main = "build"
      <4>1. PICK q \in Seq(Vertices), p \in Nat : Ordered(q) /\ Remains(q, p) /\ Pulled(q, p)
        BY <3>2 DEF PoolOK
      <4>2. Ordered(q)' /\ Remains(q, p)'
        BY <3>1, <4>1, OrderedUnchanged DEF Remains
      <4>3. Pulled(q, p)'
        BY <3>1, <4>1 DEF Pulled
      <4> QED BY <4>2, <4>3 DEF PoolOK
    <3> QED BY <3>1, <3>2 DEF PoolOK
  <2> QED BY <1>1, <2>1, <2>2 DEF Terminated
<1>2. CASE CreateWorkers
  BY <1>2, CreateWorkersPool
<1>3. ASSUME NEW t \in Threads, Step(t) \/ Wakeup(t) PROVE PoolOK'
  <2>1. main = "build" /\ nbs' = nbs
    BY <1>3, StepMain
  <2>2. PICK q \in Seq(Vertices), p \in Nat : Ordered(q) /\ Remains(q, p) /\ Pulled(q, p)
    BY <2>1 DEF PoolOK
  <2>3. Ordered(q)'
    BY <2>1, <2>2, OrderedUnchanged
  <2>4. CASE Pull(t)
    <3>1. Remains(q, p + 1)' /\ Pulled(q, p + 1)'
      BY <2>2, <2>4, PullPool
    <3>2. p + 1 \in Nat
      OBVIOUS
    <3> QED BY <2>3, <3>1, <3>2 DEF PoolOK
  <2>5. ASSUME ~Pull(t) PROVE Remains(q, p)' /\ Pulled(q, p)'
    <3>1. CASE Take(t)
      BY <2>2, <3>1, TakePool
    <3>2. CASE Store(t)
      BY <2>2, <3>2, StorePool
    <3>3. CASE SettleUnlock(t)
      BY <2>2, <3>3, SettleUnlockPool
    <3>4. CASE Wakeup(t)
      <4>1. UNCHANGED <<items, data, s, target, pc>>
        BY <3>4 DEF Wakeup, SpuriousWakeup, locals
      <4> QED BY <2>2, <4>1 DEF Remains, Pulled
    <3>5. CASE \/ CheckDep(t) \/ RunLook(t) \/ RunLock(t) \/ RunSleep(t) \/ RunRelock(t) \/ RunUnlock(t)
               \/ RunRead(t) \/ Decide(t) \/ Commands(t) \/ SettleLock(t)
      BY <2>2, <3>5, GoOnPool
    <3> QED BY <1>3, <2>5, <3>1, <3>2, <3>3, <3>4, <3>5 DEF Step
  <2> QED BY <2>3, <2>4, <2>5 DEF PoolOK
<1> QED BY <1>1, <1>2, <1>3 DEF Next

LEMMA PoolInvariant == SafeSpec => []PoolInv
<1>1. Init => PoolInv
  BY WorkInitInv, MutexInit DEF PoolInv, PoolOK, Init, OrderInit
<1>2. PoolInv /\ [Next]_vars => PoolInv'
  BY WorkNextInv, MutexNext, PoolNext DEF PoolInv
<1> QED BY <1>1, <1>2, PTL DEF SafeSpec

\* A non-empty set of numbers has a least one: the initial intervals they
\* bound are ordered by inclusion, which is well-founded on finite sets.
LEMMA LeastNumber ==
  ASSUME NEW T \in SUBSET Nat, T # {}
  PROVE  \E n \in T : \A m \in T : n <= m
<1> DEFINE U == {1 .. n : n \in T}
<1>1. IsWellFoundedOn(StrictSubsetOrdering(Nat), FiniteSubsetsOf(Nat))
  BY FS_StrictSubsetOrderingWellFounded
<1>2. U \subseteq FiniteSubsetsOf(Nat) /\ U # {}
  <2>1. \A n \in T : IsFiniteSet(1 .. n)
    <3>1. \A n \in T : n \in Int /\ 1 \in Int
      OBVIOUS
    <3> QED BY ONLY <3>1, FS_Interval
  <2>2. \A n \in T : 1 .. n \in SUBSET Nat
    OBVIOUS
  <2> QED BY <2>1, <2>2 DEF FiniteSubsetsOf
<1>3. PICK x \in U : \A y \in U : <<y, x>> \notin StrictSubsetOrdering(Nat)
  <2> HIDE DEF U
  <2> QED BY <1>1, <1>2, WFMin
<1>4. PICK n \in T : x = 1 .. n
  BY <1>3
<1>5. ASSUME NEW m \in T, m < n PROVE FALSE
  <2>1. 1 .. m \in SUBSET Nat /\ 1 .. n \in SUBSET Nat /\ 1 .. m \subseteq 1 .. n
    BY <1>5
  <2>2. n \in 1 .. n /\ n \notin 1 .. m
    BY <1>5
  <2>3. 1 .. m \in U
    OBVIOUS
  <2> QED BY <1>3, <1>4, <2>1, <2>2, <2>3 DEF StrictSubsetOrdering
<1> QED BY <1>5

\* A sleeper waits for a worker that is ahead of it in the queue's order.
LEMMA SleeperWaitsAhead ==
  ASSUME WorkInv, NEW q \in Seq(Vertices), NEW p \in Nat, Ordered(q), Pulled(q, p),
         NEW t \in waiting, NEW n \in 1 .. Len(q), target[t] = q[n], n <= p
  PROVE  \E u \in Threads, m \in 1 .. Len(q) :
           pc[u] \in Working /\ target[u] = q[m] /\ m < n /\ m <= p
<1>1. t \in Threads /\ pc[t] = "runWait" /\ data[Dep(t)] = "unvisited"
  BY DEF WorkInv, TypeOK, SleepersOK
<1>2. i[t] \in 1 .. Len(nbs[target[t]]) /\ Dep(t) = nbs[q[n]][i[t]]
  BY <1>1 DEF WorkInv, TypeOK, MainOK, LocalsOK, Working, InRun, Dep
<1>3. PICK m \in 1 .. n - 1 : q[m] = Dep(t)
  BY <1>2 DEF Ordered
<1>4. m \in 1 .. Len(q) /\ m < n /\ m <= p
  BY <1>3
<1>5. PICK u \in Threads : pc[u] \in Working /\ target[u] = q[m]
  BY <1>1, <1>3, <1>4 DEF Pulled
<1> QED BY <1>4, <1>5

LEMMA PoolSuffices == PoolInv => NeverStuck /\ NothingDropped
<1> SUFFICES ASSUME PoolInv PROVE NeverStuck /\ NothingDropped
  OBVIOUS
<1>1. NothingDropped
  <2>1. CASE main = "build"
    BY <2>1 DEF PoolInv, PoolOK, Pulled, NothingDropped
  <2>2. CASE main # "build"
    BY <2>2 DEF PoolInv, WorkInv, MainOK, NothingDropped
  <2> QED BY <2>1, <2>2
<1>2. ASSUME main = "build", ~Exited PROVE \E t \in Threads : CanStep(t)
  <2>1. WorkInv /\ MutexOK
    BY DEF PoolInv
  <2>2. PICK q \in Seq(Vertices), p \in Nat : Ordered(q) /\ Remains(q, p) /\ Pulled(q, p)
    BY <1>2 DEF PoolInv, PoolOK
  <2>3. PICK x \in Threads : pc[x] # "exit"
    BY <1>2 DEF Exited, At
  <2>4. \A t \in Threads : pc[t] # "new"
    BY <1>2, <2>1 DEF WorkInv, MainOK
  <2>5. \A t \in Threads : pc[t] # "runWait" => t \notin waiting
    BY <2>1 DEF WorkInv, SleepersOK
  <2>6. CASE owner \in Threads
    <3>1. pc[owner] \in {"runTest", "store", "settleUnlock"}
      BY <2>1, <2>6 DEF MutexOK
    <3>2. CanStep(owner)
      BY <2>5, <2>6, <3>1 DEF CanStep
    <3> QED BY <2>6, <3>2
  <2>7. items # <<>>
    <3> DEFINE N == Cardinality(Threads)
               E == {t \in Threads : pc[t] = "exit"}
    <3>1. E \subseteq Threads \ {x} /\ IsFiniteSet(Threads)
      BY <2>3, ParMakeAssumption
    <3>2. IsFiniteSet(Threads \ {x}) /\ Cardinality(Threads \ {x}) = N - 1
      BY <3>1, FS_RemoveElement
    <3>3. Cardinality(E) <= N - 1 /\ Cardinality(E) \in Nat /\ N \in Nat
      BY <3>1, <3>2, FS_Subset, FS_CardinalityType
    <3>4. Len(items) = Len(q) + N - p /\ Cardinality(E) = IF p <= Len(q) THEN 0 ELSE p - Len(q)
      BY <2>2 DEF Remains
    <3> HIDE DEF N, E
    <3>5. Len(items) # 0
      BY ONLY <3>3, <3>4, p \in Nat, Len(q) \in Nat, q \in Seq(Vertices)
    <3> QED BY <3>5
  <2>8. CASE owner = NoThread /\ \E t \in Threads : pc[t] # "exit" /\ t \notin waiting
    BY <2>4, <2>7, <2>8 DEF CanStep
  <2>9. CASE \A t \in Threads : pc[t] # "exit" => t \in waiting
    <3> DEFINE Places == {n \in 1 .. Len(q) : n <= p /\ \E t \in waiting : target[t] = q[n]}
    <3>1. \A t \in waiting : t \in Threads /\ pc[t] \in Working
      BY <2>1 DEF WorkInv, TypeOK, SleepersOK, Working, InRun
    <3>2. PICK k \in Places : TRUE
      BY <2>2, <2>3, <2>9, <3>1 DEF Pulled
    <3>3. Places \in SUBSET Nat
      OBVIOUS
    <3>4. PICK n \in Places : \A m \in Places : n <= m
      BY <3>2, <3>3, LeastNumber
    <3>5. PICK t \in waiting : target[t] = q[n] /\ n <= p /\ n \in 1 .. Len(q)
      BY <3>4
    <3>6. PICK u \in Threads, m \in 1 .. Len(q) :
            pc[u] \in Working /\ target[u] = q[m] /\ m < n /\ m <= p
      BY <2>1, <2>2, <3>5, SleeperWaitsAhead
    <3>7. u \in waiting
      BY <2>9, <3>6 DEF Working, InRun
    <3>8. m \in Places
      BY <3>6, <3>7
    <3> QED BY <3>4, <3>6, <3>8
  <2>10. owner \in Threads \/ owner = NoThread
    BY <2>1 DEF WorkInv, TypeOK
  <2> QED BY <2>6, <2>8, <2>9, <2>10
<1> QED BY <1>1, <1>2 DEF NeverStuck

\* Whatever the makefile and however many workers: until the last one has
\* exited, some worker has a step to take.  They never wait for each other in a
\* circle, as each sleeps for a rule that is ahead of its own in the queue
\* (parmake.c:66-70 queues dependencies first, 91-116 waits for them).
THEOREM WorkersNeverStuck == SafeSpec => []NeverStuck
BY PoolInvariant, PoolSuffices, PTL

\* set_contains and set_add (lines 212-213) race without a lock, yet no rule
\* is ever taken for one that has been taken before: each is queued once.
THEOREM WorkersDropNothing == SafeSpec => []NothingDropped
BY PoolInvariant, PoolSuffices, PTL
=============================================================================
