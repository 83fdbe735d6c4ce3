------------------------- MODULE BoundedQueueProofs -------------------------
(* Proofs about critical_concurrency/queue.c for every number of threads,    *)
(* every maximum size and every number of calls.                             *)
EXTENDS BoundedQueue, TLAPS, SequenceTheorems

Node == [data : Element, next : Nat]

\* Who executes what: needed to know that pushed data is an Element, that a
\* sleeper is at a wait, and that nothing runs after queue_destroy.
RoleOK == \A t \in Threads :
  /\ pc[t] \in {"pushLock", "pushTest", "pushWait", "pushWake", "pushUnlock"}
       => t \in Pushers
  /\ pc[t] \in {"pullLock", "pullTest", "pullWait", "pullWake", "pullUnlock"}
       => t \in Pullers
  /\ t \in waiting => pc[t] \in {"pushWait", "pullWait"}
  /\ life # "live" => Finished(t)

\* While queue_destroy walks the list it is at the end or on the list.
CursorOK == cursor # NULL => life = "destroying" /\ size # 0 /\ cursor >= head

\* The inductive invariant.
Safe == /\ TypeOK
        /\ RoleOK
        /\ MutualExclusion
        /\ CapacityRespected
        /\ ListShape
        /\ NoLostWakeup
        /\ NoDoubleFree
        /\ CursorOK

---------------------------------------------------------------------------
\* What lines 80-90 do to the nodes: one more node at the end, and the node
\* that was the tail now leads to it.
LEMMA LinkedNodes ==
  ASSUME TypeOK, ListShape, NEW t \in Pushers, t \in Threads
  PROVE  /\ Linked(t) \in Seq(Node)
         /\ Len(Linked(t)) = Len(nodes) + 1
         /\ \A i \in 1 .. Len(nodes) :
              /\ Linked(t)[i].data = nodes[i].data
              /\ Linked(t)[i].next = IF size # 0 /\ i = tail THEN NewNode
                                                             ELSE nodes[i].next
         /\ Linked(t)[NewNode] = [data |-> <<t, calls[t]>>, next |-> NULL]
<1> DEFINE old == IF size = 0 THEN nodes ELSE [nodes EXCEPT ![tail].next = NewNode]
           new == [data |-> <<t, calls[t]>>, next |-> NULL]
<1>1. nodes \in Seq(Node) /\ Len(nodes) \in Nat
  BY DEF TypeOK, Node
<1>2. new \in Node
  BY DEF TypeOK, Node, Element, NULL
<1>3. /\ old \in Seq(Node) /\ Len(old) = Len(nodes)
      /\ \A i \in 1 .. Len(nodes) :
           /\ old[i].data = nodes[i].data
           /\ old[i].next = IF size # 0 /\ i = tail THEN NewNode ELSE nodes[i].next
  <2>1. CASE size = 0
    BY <1>1, <2>1
  <2>2. CASE size # 0
    <3>1. tail \in 1 .. Len(nodes) /\ NewNode \in Nat
      BY <1>1, <2>2 DEF TypeOK, ListShape, NewNode
    <3>2. /\ nodes[tail] \in Node
          /\ [nodes[tail] EXCEPT !.next = NewNode] \in Node
      <4>1. nodes[tail] \in Node
        BY <1>1, <3>1, ElementOfSeq
      <4> QED BY <3>1, <4>1 DEF Node
    <3>3. old = [nodes EXCEPT ![tail] = [nodes[tail] EXCEPT !.next = NewNode]]
      BY <2>2
    <3>4. old \in Seq(Node) /\ Len(old) = Len(nodes)
      BY <1>1, <3>1, <3>2, <3>3, ExceptSeq
    <3>5. \A i \in 1 .. Len(nodes) :
            /\ old[i].data = nodes[i].data
            /\ old[i].next = IF i = tail THEN NewNode ELSE nodes[i].next
      BY <1>1, <3>1, <3>2, <3>3 DEF Node
    <3> QED BY <2>2, <3>4, <3>5
  <2> QED BY <2>1, <2>2
<1>4. Linked(t) = Append(old, new)
  BY DEF Linked
<1>5. /\ Append(old, new) \in Seq(Node)
      /\ Len(Append(old, new)) = Len(old) + 1
      /\ \A i \in 1 .. Len(old) : Append(old, new)[i] = old[i]
      /\ Append(old, new)[Len(old) + 1] = new
  BY <1>2, <1>3, AppendProperties
<1> QED BY <1>3, <1>4, <1>5 DEF NewNode

---------------------------------------------------------------------------
\* queue_create establishes the invariant.
LEMMA InitSafe == Init => Safe
<1> SUFFICES ASSUME Init PROVE Safe
  OBVIOUS
<1> USE QueueAssumption, MonitorAssumption DEF Init, MonitorInit
<1>1. TypeOK
  BY EmptySeq DEF TypeOK, Labels, Inside, NULL
<1>2. RoleOK
  BY DEF RoleOK
<1>3. MutualExclusion
  BY DEF MutualExclusion, Inside
<1>4. CapacityRespected /\ ListShape /\ NoLostWakeup
  BY DEF CapacityRespected, ListShape, NoLostWakeup
<1>5. NoDoubleFree /\ CursorOK
  BY DEF NoDoubleFree, CursorOK
<1> QED BY <1>1, <1>2, <1>3, <1>4, <1>5 DEF Safe

\* A thread enters queue_push or queue_pull.
LEMMA CallSafe ==
  ASSUME Safe, NEW t \in Threads, PushCall(t) \/ PullCall(t)
  PROVE  Safe'
<1> USE DEF PushCall, PullCall, Safe, At, Goto
<1>1. TypeOK'
  <2>1. pc' \in [Threads -> Labels]
    BY DEF TypeOK, Labels, Inside
  <2>2. calls' \in [Threads -> Nat]
    <3>1. calls \in [Threads -> Nat] /\ calls' = [calls EXCEPT ![t] = @ + 1]
      BY DEF TypeOK
    <3>2. calls[t] + 1 \in Nat
      BY <3>1
    <3> HIDE DEF PushCall, PullCall, Safe
    <3> QED BY <3>1, <3>2
  <2>3. UNCHANGED <<list, got, owner, waiting, spurious>>
    OBVIOUS
  <2> QED BY <2>1, <2>2, <2>3 DEF TypeOK, list
<1>2. RoleOK'
  BY DEF TypeOK, RoleOK, Finished, At, list
<1>3. MutualExclusion'
  BY MonitorAssumption DEF TypeOK, MutualExclusion, Inside
<1>4. CapacityRespected' /\ ListShape' /\ NoDoubleFree' /\ CursorOK'
  BY DEF CapacityRespected, ListShape, NoDoubleFree, CursorOK, list
<1>5. NoLostWakeup'
  BY DEF TypeOK, RoleOK, NoLostWakeup, At, Full, Empty, list
<1> QED BY <1>1, <1>2, <1>3, <1>4, <1>5

\* A thread takes the mutex.
LEMMA LockSafe ==
  ASSUME Safe, NEW t \in Threads, PushLock(t) \/ PullLock(t)
  PROVE  Safe'
<1> USE DEF PushLock, PullLock, Safe, At, Goto, Acquire
<1>1. TypeOK'
  BY DEF TypeOK, Labels, Inside, list
<1>2. RoleOK'
  BY DEF TypeOK, RoleOK, Finished, At, list
<1>3. MutualExclusion'
  BY MonitorAssumption DEF TypeOK, MutualExclusion, Inside
<1>4. CapacityRespected' /\ ListShape' /\ NoDoubleFree' /\ CursorOK'
  BY DEF CapacityRespected, ListShape, NoDoubleFree, CursorOK, list
<1>5. NoLostWakeup'
  BY DEF TypeOK, RoleOK, NoLostWakeup, At, Full, Empty, list
<1> QED BY <1>1, <1>2, <1>3, <1>4, <1>5

\* A thread goes to sleep and lets go of the mutex in one step.
LEMMA SleepSafe ==
  ASSUME Safe, NEW t \in Threads, PushSleep(t) \/ PullSleep(t)
  PROVE  Safe'
<1> USE DEF PushSleep, PullSleep, Safe, At, Goto, FallAsleep, Release
<1>1. TypeOK'
  BY DEF TypeOK, Labels, Inside, list
<1>2. RoleOK'
  BY DEF TypeOK, RoleOK, Finished, At, list
<1>3. MutualExclusion'
  BY MonitorAssumption DEF TypeOK, MutualExclusion, Inside
<1>4. CapacityRespected' /\ ListShape' /\ NoDoubleFree' /\ CursorOK'
  BY DEF CapacityRespected, ListShape, NoDoubleFree, CursorOK, list
<1>5. NoLostWakeup'
  BY DEF TypeOK, RoleOK, NoLostWakeup, At, Full, Empty, list
<1> QED BY <1>1, <1>2, <1>3, <1>4, <1>5

\* A thread has the mutex again after a wakeup.
LEMMA RelockSafe ==
  ASSUME Safe, NEW t \in Threads, PushRelock(t) \/ PullRelock(t)
  PROVE  Safe'
<1> USE DEF PushRelock, PullRelock, Safe, At, Goto, Awake, Acquire
<1>1. TypeOK'
  BY DEF TypeOK, Labels, Inside, list
<1>2. RoleOK'
  BY DEF TypeOK, RoleOK, Finished, At, list
<1>3. MutualExclusion'
  BY MonitorAssumption DEF TypeOK, MutualExclusion, Inside
<1>4. CapacityRespected' /\ ListShape' /\ NoDoubleFree' /\ CursorOK'
  BY DEF CapacityRespected, ListShape, NoDoubleFree, CursorOK, list
<1>5. NoLostWakeup'
  BY DEF TypeOK, RoleOK, NoLostWakeup, At, Full, Empty, list
<1> QED BY <1>1, <1>2, <1>3, <1>4, <1>5

\* A thread that changed the list wakes every sleeper.
LEMMA WakeSafe ==
  ASSUME Safe, NEW t \in Threads, PushWake(t) \/ PullWake(t)
  PROVE  Safe'
<1> USE DEF PushWake, PullWake, Safe, At, Goto, WakeAll
<1>1. TypeOK'
  BY DEF TypeOK, Labels, Inside, list
<1>2. RoleOK'
  BY DEF TypeOK, RoleOK, Finished, At, list
<1>3. MutualExclusion'
  BY MonitorAssumption DEF TypeOK, MutualExclusion, Inside
<1>4. CapacityRespected' /\ ListShape' /\ NoDoubleFree' /\ CursorOK'
  BY DEF CapacityRespected, ListShape, NoDoubleFree, CursorOK, list
<1>5. NoLostWakeup'
  BY DEF TypeOK, RoleOK, NoLostWakeup, At, Full, Empty, list
<1> QED BY <1>1, <1>2, <1>3, <1>4, <1>5

\* A thread lets go of the mutex after its broadcast.
LEMMA UnlockSafe ==
  ASSUME Safe, NEW t \in Threads, PushUnlock(t) \/ PullUnlock(t)
  PROVE  Safe'
<1> USE DEF PushUnlock, PullUnlock, Safe, At, Goto, Release
<1>1. TypeOK'
  BY DEF TypeOK, Labels, Inside, list
<1>2. RoleOK'
  BY DEF TypeOK, RoleOK, Finished, At, list
<1>3. MutualExclusion'
  BY MonitorAssumption DEF TypeOK, MutualExclusion, Inside
<1>4. CapacityRespected' /\ ListShape' /\ NoDoubleFree' /\ CursorOK'
  BY DEF CapacityRespected, ListShape, NoDoubleFree, CursorOK, list
<1>5. NoLostWakeup'
  BY DEF TypeOK, RoleOK, NoLostWakeup, At, Full, Empty, list
<1> QED BY <1>1, <1>2, <1>3, <1>4, <1>5

\* A sleeper wakes up for no reason.
LEMMA WakeupSafe ==
  ASSUME Safe, NEW t \in Threads, Wakeup(t)
  PROVE  Safe'
<1> USE DEF Wakeup, Safe, At, Goto, SpuriousWakeup
<1>1. TypeOK'
  BY DEF TypeOK, Labels, Inside, list
<1>2. RoleOK'
  BY DEF TypeOK, RoleOK, Finished, At, list
<1>3. MutualExclusion'
  BY MonitorAssumption DEF TypeOK, MutualExclusion, Inside
<1>4. CapacityRespected' /\ ListShape' /\ NoDoubleFree' /\ CursorOK'
  BY DEF CapacityRespected, ListShape, NoDoubleFree, CursorOK, list
<1>5. NoLostWakeup'
  BY DEF TypeOK, RoleOK, NoLostWakeup, At, Full, Empty, list
<1> QED BY <1>1, <1>2, <1>3, <1>4, <1>5

\* Lines 80-92: the node is linked behind the tail and counted.
LEMMA PushInsertSafe ==
  ASSUME Safe, NEW t \in Threads, PushInsert(t)
  PROVE  Safe'
<1> USE DEF PushInsert, Safe, At, Goto
<1>1. t \in Pushers
  BY DEF RoleOK
<1>2. /\ nodes' \in Seq(Node)
      /\ Len(nodes') = Len(nodes) + 1
      /\ \A i \in 1 .. Len(nodes) :
           nodes'[i].next = IF size # 0 /\ i = tail THEN NewNode ELSE nodes[i].next
      /\ nodes'[NewNode].next = NULL
  <2>1. nodes' = Linked(t)
    OBVIOUS
  <2>2. /\ Linked(t) \in Seq(Node)
        /\ Len(Linked(t)) = Len(nodes) + 1
        /\ \A i \in 1 .. Len(nodes) :
             Linked(t)[i].next = IF size # 0 /\ i = tail THEN NewNode ELSE nodes[i].next
        /\ Linked(t)[NewNode] = [data |-> <<t, calls[t]>>, next |-> NULL]
    BY <1>1, LinkedNodes
  <2>3. Linked(t)[NewNode].next = NULL
    BY <2>2
  <2> QED BY ONLY <2>1, <2>2, <2>3
<1>3. Len(nodes) \in Nat /\ size \in 0 .. Len(nodes) /\ NewNode = Len(nodes) + 1
  BY DEF TypeOK, NewNode
<1>4. TypeOK'
  <2>1. pc' \in [Threads -> Labels]
    BY DEF TypeOK, Labels, Inside
  <2>2. /\ freed' \subseteq 1 .. Len(nodes') /\ cursor' \in 0 .. Len(nodes')
        /\ head' \in 0 .. Len(nodes') /\ tail' \in 0 .. Len(nodes')
        /\ size' \in 0 .. Len(nodes')
    BY <1>2, <1>3 DEF TypeOK
  <2>3. /\ owner' \in Threads \cup {NoThread} /\ waiting' \subseteq Threads
        /\ spurious' \in Nat /\ life' \in {"live", "destroying", "destroyed"}
        /\ calls' \in [Threads -> Nat] /\ got' \in [Threads -> Element \cup {Nothing}]
    BY DEF TypeOK
  <2>4. nodes' \in Seq([data : Element, next : Nat])
    BY ONLY <1>2 DEF Node
  <2> QED BY ONLY <2>1, <2>2, <2>3, <2>4 DEF TypeOK
<1>5. RoleOK'
  BY <1>1 DEF TypeOK, RoleOK, Finished
<1>6. MutualExclusion'
  BY MonitorAssumption DEF TypeOK, MutualExclusion, Inside
<1>7. CapacityRespected'
  BY <1>3, QueueAssumption DEF CapacityRespected, Full
<1>8. ListShape'
  <2>1. CASE size = 0
    BY <1>2, <1>3, <2>1 DEF ListShape, NULL
  <2>2. CASE size # 0
    <3>1. /\ tail = Len(nodes) /\ head = Len(nodes) - size + 1 /\ head' = head
          /\ tail' = Len(nodes) + 1 /\ size' = size + 1 /\ head \in 1 .. Len(nodes)
      BY <1>3, <2>2 DEF ListShape
    <3>2. \A i \in head' .. Len(nodes') - 1 : nodes'[i].next = i + 1
      <4> SUFFICES ASSUME NEW i \in head .. Len(nodes) PROVE nodes'[i].next = i + 1
        BY <1>2, <1>3, <3>1
      <4>1. i \in 1 .. Len(nodes)
        BY <1>3, <3>1
      <4>2. CASE i = tail
        BY <1>2, <1>3, <2>2, <3>1, <4>1, <4>2
      <4>3. CASE i # tail
        <5>1. nodes'[i].next = nodes[i].next
          BY <1>2, <4>1, <4>3
        <5>2. \A j \in head .. Len(nodes) - 1 : nodes[j].next = j + 1
          BY <2>2 DEF ListShape
        <5>3. i \in head .. Len(nodes) - 1
          BY ONLY <1>3, <3>1, <4>1, <4>3, i \in head .. Len(nodes)
        <5>4. nodes[i].next = i + 1
          BY ONLY <5>2, <5>3
        <5> QED BY ONLY <5>1, <5>4
      <4> QED BY <4>2, <4>3
    <3> QED BY <1>2, <1>3, <3>1, <3>2 DEF ListShape
  <2> QED BY <2>1, <2>2
<1>9. NoLostWakeup'
  BY DEF TypeOK, NoLostWakeup
<1>10. NoDoubleFree' /\ CursorOK'
  <2>1. life = "live"
    BY DEF RoleOK, Finished
  <2> QED BY <2>1 DEF NoDoubleFree, CursorOK
<1> QED BY <1>4, <1>5, <1>6, <1>7, <1>8, <1>9, <1>10

\* Lines 106-117: the head is unlinked and counted off.
LEMMA PullRemoveSafe ==
  ASSUME Safe, NEW t \in Threads, PullRemove(t)
  PROVE  Safe'
<1> USE DEF PullRemove, Safe, At, Goto
<1>1. /\ Len(nodes) \in Nat /\ size \in 1 .. Len(nodes)
      /\ head = Len(nodes) - size + 1 /\ head \in 1 .. Len(nodes)
      /\ tail = Len(nodes)
  BY DEF TypeOK, ListShape, Empty
<1>2. nodes[head] \in Node /\ nodes[head].data \in Element
  <2>1. nodes[head] \in Node
    BY <1>1, ElementOfSeq DEF TypeOK, Node
  <2> QED BY <2>1 DEF Node
<1>3. size # 1 => head' = head + 1
  <2>1. \A i \in head .. Len(nodes) - 1 : nodes[i].next = i + 1
    BY <1>1 DEF ListShape
  <2>2. size # 1 => head \in head .. Len(nodes) - 1
    BY <1>1
  <2>3. size # 1 => head' = nodes[head].next
    OBVIOUS
  <2> QED BY ONLY <2>1, <2>2, <2>3
<1>4. TypeOK'
  <2>1. /\ head' \in 0 .. Len(nodes) /\ tail' \in 0 .. Len(nodes)
        /\ size' \in 0 .. Len(nodes)
    BY <1>1, <1>3 DEF NULL
  <2>2. got' \in [Threads -> Element \cup {Nothing}]
    BY <1>2 DEF TypeOK
  <2> QED BY <2>1, <2>2 DEF TypeOK, Labels, Inside
<1>5. RoleOK'
  BY DEF TypeOK, RoleOK, Finished, At, list
<1>6. MutualExclusion'
  BY MonitorAssumption DEF TypeOK, MutualExclusion, Inside
<1>7. CapacityRespected'
  BY <1>1, QueueAssumption DEF CapacityRespected
<1>8. ListShape'
  BY <1>1, <1>3 DEF ListShape
<1>9. NoLostWakeup'
  BY DEF TypeOK, NoLostWakeup
<1>10. NoDoubleFree' /\ CursorOK'
  <2>1. life = "live"
    BY DEF RoleOK, Finished
  <2> QED BY <2>1 DEF NoDoubleFree, CursorOK
<1> QED BY <1>4, <1>5, <1>6, <1>7, <1>8, <1>9, <1>10

---------------------------------------------------------------------------
\* queue_destroy reaches nobody: every client is out, for good.
LEMMA DestroySafe ==
  ASSUME Safe, Destroy
  PROVE  Safe'
<1> USE DEF Safe
<1>1. /\ RoleOK /\ (life = "live" => life' = "destroying" /\ AllJoined)
      /\ UNCHANGED <<nodes, head, tail, size, calls, got, monitorVars>>
  BY DEF Destroy, DestroyBegin, DestroyNode, DestroyEnd
<1>2. RoleOK' /\ MutualExclusion' /\ CapacityRespected' /\ ListShape' /\ NoLostWakeup'
  <2>1. RoleOK'
    BY <1>1 DEF RoleOK, monitorVars, AllJoined, Finished, At
  <2>2. MutualExclusion' /\ CapacityRespected' /\ ListShape'
    BY <1>1 DEF MutualExclusion, CapacityRespected, ListShape, monitorVars
  <2>3. NoLostWakeup'
    BY <1>1 DEF NoLostWakeup, Full, Empty, At, monitorVars
  <2> QED BY <2>1, <2>2, <2>3
<1>3. /\ Len(nodes) \in Nat /\ head \in 0 .. Len(nodes) /\ size \in 0 .. Len(nodes)
      /\ cursor \in 0 .. Len(nodes) /\ freed \subseteq 1 .. Len(nodes)
  BY DEF TypeOK
<1>4. /\ freed' \subseteq 1 .. Len(nodes) /\ cursor' \in 0 .. Len(nodes)
      /\ life' \in {"destroying", "destroyed"}
      /\ NoDoubleFree' /\ CursorOK'
  <2>1. CASE DestroyBegin
    <3>1. /\ freed = {} /\ freed' = {} /\ cursor' = head /\ life' = "destroying"
          /\ head' = head /\ size' = size /\ nodes' = nodes
      BY <2>1 DEF DestroyBegin, NoDoubleFree
    <3>2. CASE size = 0
      BY <1>3, <3>1, <3>2 DEF NoDoubleFree, CursorOK, ListShape, NULL
    <3>3. CASE size # 0
      <4>1. head \in 1 .. Len(nodes) /\ head .. head - 1 = {}
        BY <1>3, <3>3 DEF ListShape
      <4> QED BY <1>3, <3>1, <3>3, <4>1 DEF NoDoubleFree, CursorOK, NULL
    <3> QED BY <3>2, <3>3
  <2>2. CASE DestroyNode
    <3>1. /\ size # 0 /\ head = Len(nodes) - size + 1 /\ head \in 1 .. Len(nodes)
          /\ cursor \in head .. Len(nodes)
          /\ freed = head .. cursor - 1
      BY <1>3, <2>2 DEF DestroyNode, CursorOK, ListShape, NoDoubleFree, NULL
    <3>2. cursor' = IF cursor = Len(nodes) THEN NULL ELSE cursor + 1
      <4>1. cursor' = nodes[cursor].next
        BY <2>2 DEF DestroyNode
      <4>2. /\ \A j \in head .. Len(nodes) - 1 : nodes[j].next = j + 1
            /\ nodes[Len(nodes)].next = NULL
        BY <3>1 DEF ListShape
      <4>3. cursor # Len(nodes) => cursor \in head .. Len(nodes) - 1
        BY ONLY <1>3, <3>1
      <4> QED BY ONLY <4>1, <4>2, <4>3
    <3>3. freed' = head .. cursor
      BY <1>3, <2>2, <3>1 DEF DestroyNode
    <3> QED BY <1>3, <2>2, <3>1, <3>2, <3>3 DEF DestroyNode, NoDoubleFree, CursorOK, NULL
  <2>3. CASE DestroyEnd
    BY <1>3, <2>3 DEF DestroyEnd, NoDoubleFree, CursorOK, NULL
  <2> QED BY <2>1, <2>2, <2>3 DEF Destroy
<1>5. TypeOK'
  BY <1>1, <1>4 DEF TypeOK, monitorVars
<1> QED BY <1>2, <1>4, <1>5

\* Every step of the program preserves the invariant.
LEMMA NextSafe == Safe /\ [Next]_vars => Safe'
<1> SUFFICES ASSUME Safe, [Next]_vars PROVE Safe'
  OBVIOUS
<1>1. CASE UNCHANGED vars
  BY <1>1 DEF Safe, vars, list, monitorVars, TypeOK, RoleOK, MutualExclusion,
              CapacityRespected, ListShape, NoLostWakeup, NoDoubleFree, CursorOK,
              Finished, Full, Empty, At
<1>2. ASSUME NEW t \in Threads, PushStep(t) PROVE Safe'
  BY <1>2, CallSafe, LockSafe, SleepSafe, RelockSafe, PushInsertSafe,
     WakeSafe, UnlockSafe DEF PushStep
<1>3. ASSUME NEW t \in Threads, PullStep(t) PROVE Safe'
  BY <1>3, CallSafe, LockSafe, SleepSafe, RelockSafe, PullRemoveSafe,
     WakeSafe, UnlockSafe DEF PullStep
<1>4. ASSUME NEW t \in Threads, Wakeup(t) PROVE Safe'
  BY <1>4, WakeupSafe
<1>5. CASE Destroy
  BY <1>5, DestroySafe
<1> QED BY <1>1, <1>2, <1>3, <1>4, <1>5 DEF Next, Terminated

\* The queue is safe for any number of threads, calls and spurious wakeups.
THEOREM QueueSafe == SafeSpec => []Safe
<1> QED BY InitSafe, NextSafe, PTL DEF SafeSpec

\* The critical sections of queue_push and queue_pull exclude each other, a
\* bounded queue never holds more than max_size elements, and head, tail, the
\* next pointers and size agree (queue.c:72-122).
THEOREM QueueConsistent == SafeSpec => []Consistent
<1>1. Safe => Consistent
  BY DEF Safe, Consistent
<1> QED BY <1>1, QueueSafe, PTL

\* Nobody sleeps through the broadcast he waits for (queue.c:93, 118).
THEOREM QueueNoLostWakeup == SafeSpec => []NoLostWakeup
<1>1. Safe => NoLostWakeup
  BY DEF Safe
<1> QED BY <1>1, QueueSafe, PTL

\* queue_destroy frees the nodes of the list, each once (queue.c:54-60).
THEOREM QueueNoDoubleFree == SafeSpec => []NoDoubleFree
<1>1. Safe => NoDoubleFree
  BY DEF Safe
<1> QED BY <1>1, QueueSafe, PTL

---------------------------------------------------------------------------
(* The pointer structure implements the FIFO queue of queue.h.             *)

\* The list, read from head, is a sequence of elements of length `size`.
ContentsOK ==
  /\ Len(nodes) \in Nat /\ size \in 0 .. Len(nodes)
  /\ Contents \in Seq(Element) /\ Len(Contents) = size
  /\ size # 0 => head = Len(nodes) - size + 1 /\ head \in 1 .. Len(nodes)
  /\ \A i \in 1 .. Len(nodes) : nodes[i].data \in Element

\* ContentsOK is a consequence of the invariant.
LEMMA ContentsType == Safe => ContentsOK
<1> SUFFICES ASSUME Safe PROVE ContentsOK
  OBVIOUS
<1>1. Len(nodes) \in Nat /\ size \in 0 .. Len(nodes)
  BY DEF Safe, TypeOK
<1>2. size # 0 => head = Len(nodes) - size + 1 /\ head \in 1 .. Len(nodes)
  BY <1>1 DEF Safe, ListShape
<1>3. ASSUME NEW i \in 1 .. Len(nodes) PROVE nodes[i].data \in Element
  <2>1. nodes[i] \in Node
    BY ElementOfSeq DEF Safe, TypeOK, Node
  <2> QED BY <2>1 DEF Node
<1>4. \A i \in 1 .. size : head + i - 1 \in 1 .. Len(nodes)
  BY <1>1, <1>2
<1>5. \A i \in 1 .. size : nodes[head + i - 1].data \in Element
  BY <1>3, <1>4
<1>6. Contents \in Seq(Element) /\ Len(Contents) = size
  BY <1>1, <1>5 DEF Contents
<1> QED BY <1>1, <1>2, <1>3, <1>6 DEF ContentsOK

\* Linking a node behind the tail appends its data to the contents.
LEMMA InsertAppends ==
  ASSUME Safe, NEW t \in Threads, PushInsert(t)
  PROVE  Contents' = Append(Contents, <<t, calls[t]>>)
<1>1. Safe' /\ t \in Pushers
  BY PushInsertSafe DEF Safe, RoleOK, PushInsert, At
<1>2. size' = size + 1 /\ Len(nodes') = Len(nodes) + 1 /\ nodes' = Linked(t)
  BY <1>1, LinkedNodes DEF Safe, PushInsert
<1>3. /\ \A i \in 1 .. Len(nodes) : nodes'[i].data = nodes[i].data
      /\ nodes'[Len(nodes) + 1] = [data |-> <<t, calls[t]>>, next |-> NULL]
  BY <1>1, <1>2, LinkedNodes DEF Safe, NewNode
<1>4. nodes'[Len(nodes) + 1].data = <<t, calls[t]>>
  BY <1>3
<1>5. head' = Len(nodes) - size + 1
  BY <1>1, <1>2, ContentsType DEF Safe, ListShape, ContentsOK
<1>6. <<t, calls[t]>> \in Element
  BY <1>1 DEF Safe, TypeOK, Element
<1> DEFINE longer == Append(Contents, <<t, calls[t]>>)
<1>7. /\ longer \in Seq(Element) /\ Len(longer) = size + 1
      /\ \A i \in 1 .. size : longer[i] = Contents[i]
      /\ longer[size + 1] = <<t, calls[t]>>
  BY <1>6, ContentsType, AppendProperties DEF ContentsOK
<1>8. Contents' \in Seq(Element) /\ Len(Contents') = size + 1
  <2>1. Contents' \in Seq(Element) /\ Len(Contents') = size'
    <3>1. ContentsOK'
      BY <1>1, ContentsType, PTL
    <3> QED BY <3>1 DEF ContentsOK
  <2> QED BY <1>2, <2>1
<1>9. ASSUME NEW i \in 1 .. size + 1 PROVE Contents'[i] = longer[i]
  <2>1. Contents'[i] = nodes'[head' + i - 1].data
    BY <1>2, ContentsType DEF Contents, ContentsOK
  <2>2. CASE i = size + 1
    <3>1. head' + i - 1 = Len(nodes) + 1
      BY <1>5, <2>2, ContentsType DEF ContentsOK
    <3> QED BY <1>4, <1>7, <2>1, <2>2, <3>1
  <2>3. CASE i # size + 1
    <3>1. i \in 1 .. size /\ head = head' /\ head + i - 1 \in 1 .. Len(nodes)
      BY <1>5, <2>3, ContentsType DEF ContentsOK
    <3>2. Contents[i] = nodes[head + i - 1].data
      BY <3>1 DEF Contents
    <3> QED BY <1>3, <1>7, <2>1, <3>1, <3>2
  <2> QED BY <2>2, <2>3
<1> HIDE DEF longer
<1>10. Contents' = longer
  BY <1>7, <1>8, <1>9, SeqEqual
<1> QED BY <1>10 DEF longer

\* Unlinking the head removes the first element of the contents, and hands it over.
LEMMA RemoveTakesHead ==
  ASSUME Safe, NEW t \in Threads, PullRemove(t)
  PROVE  /\ Contents # <<>>
         /\ Contents' = Tail(Contents)
         /\ nodes[head].data = Head(Contents)
<1>1. Safe'
  BY PullRemoveSafe
<1>2. ContentsOK /\ ContentsOK'
  BY <1>1, ContentsType, PTL
<1>3. /\ size \in 1 .. Len(nodes) /\ Len(nodes) \in Nat
      /\ size' = size - 1 /\ nodes' = nodes
      /\ head = Len(nodes) - size + 1
  BY <1>2 DEF PullRemove, Empty, ContentsOK
<1>4. Contents \in Seq(Element) /\ Len(Contents) = size
  BY <1>2 DEF ContentsOK
<1>5. Contents[1] = nodes[head].data
  BY <1>3 DEF Contents
<1>6. Contents # <<>>
  BY <1>3, <1>4
<1>7. /\ Tail(Contents) \in Seq(Element) /\ Len(Tail(Contents)) = size - 1
      /\ \A i \in 1 .. size - 1 : Tail(Contents)[i] = Contents[i + 1]
      /\ Head(Contents) = Contents[1]
  BY <1>3, <1>4, <1>6, HeadTailProperties
<1>8. Contents' \in Seq(Element) /\ Len(Contents') = size - 1
  BY <1>2, <1>3 DEF ContentsOK
<1>9. ASSUME NEW i \in 1 .. size - 1 PROVE Contents'[i] = Tail(Contents)[i]
  <2>1. head' = head + 1
    BY <1>2, <1>3, <1>9 DEF ContentsOK
  <2>2. Contents'[i] = nodes[head + 1 + i - 1].data
    BY <1>3, <2>1 DEF Contents
  <2>3. Contents[i + 1] = nodes[head + (i + 1) - 1].data
    BY <1>3 DEF Contents
  <2>4. head + 1 + i - 1 = head + (i + 1) - 1
    BY <1>3
  <2> QED BY <1>7, <2>2, <2>3, <2>4
<1>10. Contents' = Tail(Contents)
  <2> DEFINE shorter == Tail(Contents)
  <2>1. /\ shorter \in Seq(Element) /\ Len(shorter) = size - 1
        /\ \A i \in 1 .. size - 1 : Contents'[i] = shorter[i]
    BY <1>7, <1>9
  <2> HIDE DEF shorter
  <2>2. Contents' = shorter
    BY <1>8, <2>1, SeqEqual
  <2> QED BY <2>2 DEF shorter
<1> QED BY <1>5, <1>6, <1>7, <1>10

\* A step that leaves the list alone leaves the contents alone.
LEMMA ContentsUnchanged == UNCHANGED list => UNCHANGED Contents
BY DEF list, Contents

\* Going from one label to another moves the phase of that thread only.
LEMMA PhaseStep ==
  ASSUME TypeOK, NEW t \in Threads, NEW l, Goto(t, l)
  PROVE  Phase' = [Phase EXCEPT ![t] = PhaseAt(l)]
BY DEF TypeOK, Goto, Phase

\* The steps of queue_push and queue_pull that the FIFO queue does not see.
LEMMA HiddenStep ==
  ASSUME TypeOK, NEW t \in Threads,
         \/ PushLock(t) \/ PushSleep(t) \/ PushRelock(t) \/ PushWake(t)
         \/ PullLock(t) \/ PullSleep(t) \/ PullRelock(t) \/ PullWake(t)
  PROVE  UNCHANGED Atomic!vars
<1>1. UNCHANGED <<list, calls, got>>
  BY DEF PushLock, PushSleep, PushRelock, PushWake,
         PullLock, PullSleep, PullRelock, PullWake
<1>2. PICK l \in Labels : Goto(t, l) /\ PhaseAt(l) = PhaseAt(pc[t])
  BY DEF PushLock, PushSleep, PushRelock, PushWake, PullLock, PullSleep,
         PullRelock, PullWake, At, PhaseAt, Labels, Inside
<1>3. Phase' = [Phase EXCEPT ![t] = PhaseAt(pc[t])]
  BY <1>2, PhaseStep
<1>4. Phase' = Phase
  BY <1>3 DEF Phase
<1> QED BY <1>1, <1>4, ContentsUnchanged DEF Atomic!vars

\* Each step of the code is a step of the FIFO queue or leaves it as it is.
LEMMA StepRefines == Safe /\ [Next]_vars => [Atomic!Next]_(Atomic!vars)
<1> SUFFICES ASSUME Safe, [Next]_vars PROVE [Atomic!Next]_(Atomic!vars)
  OBVIOUS
<1>1. TypeOK /\ Threads = Atomic!Clients
  BY QueueAssumption DEF Safe, Atomic!Clients
<1>2. CASE UNCHANGED vars
  <2>1. UNCHANGED <<list, calls, got, pc>>
    BY <1>2 DEF vars, monitorVars
  <2> QED BY <2>1, ContentsUnchanged DEF Atomic!vars, Phase
<1>3. ASSUME NEW t \in Threads, PushCall(t) \/ PullCall(t) PROVE Atomic!Call(t)
  <2>1. /\ At(t, "out") /\ calls[t] < Quota[t]
        /\ calls' = [calls EXCEPT ![t] = @ + 1]
        /\ Goto(t, "pushLock") \/ Goto(t, "pullLock")
        /\ UNCHANGED <<list, got>>
    BY <1>3 DEF PushCall, PullCall
  <2>2. Phase[t] = "out"
    BY <2>1 DEF Phase, PhaseAt, At
  <2>3. Phase' = [Phase EXCEPT ![t] = "called"]
    BY <1>1, <2>1, PhaseStep DEF PhaseAt
  <2> QED BY <2>1, <2>2, <2>3, ContentsUnchanged DEF Atomic!Call
<1>4. ASSUME NEW t \in Threads, PushInsert(t) PROVE Atomic!Push(t)
  <2>1. t \in Pushers /\ Phase[t] = "called"
    BY <1>4 DEF Safe, RoleOK, PushInsert, At, Phase, PhaseAt
  <2>2. Phase' = [Phase EXCEPT ![t] = "done"]
    BY <1>1, <1>4, PhaseStep DEF PushInsert, PhaseAt
  <2>3. ContentsOK
    BY ContentsType
  <2>4. MaxSize > 0 => Len(Contents) < MaxSize
    BY <1>4, <2>3, QueueAssumption DEF PushInsert, Full, ContentsOK
  <2>5. Contents' = Append(Contents, <<t, calls[t]>>)
    BY <1>4, InsertAppends
  <2> QED BY <1>4, <2>1, <2>2, <2>4, <2>5
          DEF Atomic!Push, Atomic!Enqueue, Atomic!CanPush, PushInsert
<1>5. ASSUME NEW t \in Threads, PullRemove(t) PROVE Atomic!Pull(t)
  <2>1. t \in Pullers /\ Phase[t] = "called"
    BY <1>5 DEF Safe, RoleOK, PullRemove, At, Phase, PhaseAt
  <2>2. Phase' = [Phase EXCEPT ![t] = "done"]
    BY <1>1, <1>5, PhaseStep DEF PullRemove, PhaseAt
  <2>3. /\ Contents # <<>> /\ Contents' = Tail(Contents)
        /\ nodes[head].data = Head(Contents)
    BY <1>5, RemoveTakesHead
  <2> QED BY <1>5, <2>1, <2>2, <2>3
          DEF Atomic!Pull, Atomic!Dequeue, Atomic!CanPull, PullRemove
<1>6. ASSUME NEW t \in Threads, PushUnlock(t) \/ PullUnlock(t) PROVE Atomic!Return(t)
  <2>1. /\ At(t, "pushUnlock") \/ At(t, "pullUnlock")
        /\ Goto(t, "out")
        /\ UNCHANGED <<list, calls, got>>
    BY <1>6 DEF PushUnlock, PullUnlock
  <2>2. Phase[t] = "done"
    BY <2>1 DEF Phase, PhaseAt, At
  <2>3. Phase' = [Phase EXCEPT ![t] = "out"]
    BY <1>1, <2>1, PhaseStep DEF PhaseAt
  <2> QED BY <2>1, <2>2, <2>3, ContentsUnchanged DEF Atomic!Return
<1>7. ASSUME NEW t \in Threads, Wakeup(t) PROVE UNCHANGED Atomic!vars
  BY <1>7, ContentsUnchanged DEF Wakeup, SpuriousWakeup, Atomic!vars, Phase
<1>8. ASSUME Destroy PROVE UNCHANGED Atomic!vars
  <2>1. UNCHANGED <<nodes, head, size, calls, got, pc>>
    BY <1>8 DEF Destroy, DestroyBegin, DestroyNode, DestroyEnd, monitorVars
  <2> QED BY <2>1 DEF Atomic!vars, Phase, Contents
<1>9. CASE \E t \in Threads : PushStep(t)
  BY <1>1, <1>3, <1>4, <1>6, <1>9, HiddenStep DEF PushStep, Atomic!Next
<1>10. CASE \E t \in Threads : PullStep(t)
  BY <1>1, <1>3, <1>5, <1>6, <1>10, HiddenStep DEF PullStep, Atomic!Next
<1> QED BY <1>2, <1>7, <1>8, <1>9, <1>10 DEF Next, Terminated

\* The queue before its first call is the empty FIFO queue.
LEMMA InitRefines == Init => Atomic!Init
<1> SUFFICES ASSUME Init PROVE Atomic!Init
  OBVIOUS
<1>1. Contents = <<>>
  BY DEF Init, Contents
<1>2. Phase = [t \in Threads |-> "out"]
  BY DEF Init, MonitorInit, Phase, PhaseAt
<1> QED BY <1>1, <1>2, QueueAssumption DEF Init, Atomic!Init, Atomic!Clients

\* queue.c is a linearizable FIFO queue: queue_push and queue_pull of any
\* number of threads behave as if each happened at one instant (queue.h:13-30).
THEOREM QueueIsLinearizable == SafeSpec => LinearizableFIFO
BY InitRefines, StepRefines, QueueSafe, PTL DEF SafeSpec, LinearizableFIFO, Atomic!SafeSpec

=============================================================================
