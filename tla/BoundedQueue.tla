---------------------------- MODULE BoundedQueue ----------------------------
(* critical_concurrency/queue.c: a linked list, its length and a maximum,    *)
(* shared by threads under one mutex and ONE condition variable on which     *)
(* pushers and pullers sleep together.  Clients that call queue_push make up *)
(* the set Pushers, clients of queue_pull the set Pullers; each makes a      *)
(* bounded number of calls, is joined, and the queue is then destroyed (the  *)
(* order of password_cracker/cracker1.c:55-75).                              *)
EXTENDS Monitor, Integers, Sequences

CONSTANTS Pushers, Pullers, Quota, MaxSize, Nothing

ASSUME QueueAssumption ==
  /\ Threads = Pushers \cup Pullers
  /\ Pushers \cap Pullers = {}
  /\ Quota \in [Threads -> Nat]
  /\ MaxSize \in Int
  /\ Nothing \notin Pushers \X Nat

VARIABLES nodes,   \* the queue_nodes malloc'd so far, oldest first
          freed,   \* the nodes given back with free()
          head, tail, size,   \* struct queue; a pointer is an index or NULL
          life,    \* "live", "destroying" inside queue_destroy, "destroyed"
          cursor,  \* curr, the node queue_destroy frees next
          calls,   \* calls[t]: calls thread t has begun
          got      \* got[t]: what queue_pull last returned to t

list == <<nodes, freed, head, tail, size, life, cursor>>
vars == <<list, calls, got, monitorVars>>

NULL == 0
Element == Pushers \X Nat

Inside == {"pushTest", "pushWake", "pushUnlock",
           "pullTest", "pullWake", "pullUnlock"}
Labels == Inside \cup {"out", "pushLock", "pushWait", "pullLock", "pullWait"}

\* queue_create: an empty list.
Init == /\ nodes = <<>> /\ freed = {}
        /\ head = NULL /\ tail = NULL /\ size = 0
        /\ life = "live" /\ cursor = NULL
        /\ calls = [t \in Threads |-> 0]
        /\ got = [t \in Threads |-> Nothing]
        /\ MonitorInit("out")

Full == MaxSize > 0 /\ size >= MaxSize
Empty == size <= 0

---------------------------------------------------------------------------
(* queue_push(this, data); the data of a call is unique to it.             *)

PushCall(t) == /\ At(t, "out") /\ t \in Pushers /\ calls[t] < Quota[t]
               /\ calls' = [calls EXCEPT ![t] = @ + 1]
               /\ Goto(t, "pushLock")
               /\ UNCHANGED <<list, got, owner, waiting, spurious>>

PushLock(t) == /\ At(t, "pushLock")
               /\ Acquire(t)
               /\ Goto(t, "pushTest")
               /\ UNCHANGED <<list, calls, got, waiting, spurious>>

NewNode == Len(nodes) + 1
Linked(t) == Append(IF size = 0 THEN nodes
                                ELSE [nodes EXCEPT ![tail].next = NewNode],
                    [data |-> <<t, calls[t]>>, next |-> NULL])

PushSleep(t) == /\ At(t, "pushTest") /\ Full
                /\ FallAsleep(t)
                /\ Goto(t, "pushWait")
                /\ UNCHANGED <<list, calls, got, spurious>>

PushRelock(t) == /\ At(t, "pushWait") /\ Awake(t)
                 /\ Acquire(t)
                 /\ Goto(t, "pushTest")
                 /\ UNCHANGED <<list, calls, got, waiting, spurious>>

PushInsert(t) == /\ At(t, "pushTest") /\ ~Full
                 /\ nodes' = Linked(t)
                 /\ tail' = NewNode
                 /\ head' = IF size = 0 THEN NewNode ELSE head
                 /\ size' = size + 1
                 /\ Goto(t, "pushWake")
                 /\ UNCHANGED <<freed, life, cursor, calls, got, owner, waiting, spurious>>

\* Slip: pthread_cond_signal, which wakes one sleeper of either kind.
PushWakeOne(t) == /\ At(t, "pushWake")
                  /\ IF waiting = {} THEN UNCHANGED waiting
                     ELSE \E u \in waiting : waiting' = waiting \ {u}
                  /\ Goto(t, "pushUnlock")
                  /\ UNCHANGED <<list, calls, got, owner, spurious>>

PushWake(t) == /\ At(t, "pushWake")
               /\ WakeAll
               /\ Goto(t, "pushUnlock")
               /\ UNCHANGED <<list, calls, got, owner, spurious>>

PushUnlock(t) == /\ At(t, "pushUnlock")
                 /\ Release(t)
                 /\ Goto(t, "out")
                 /\ UNCHANGED <<list, calls, got, waiting, spurious>>

---------------------------------------------------------------------------
(* queue_pull(this); note that it never frees the node it removes.         *)

PullCall(t) == /\ At(t, "out") /\ t \in Pullers /\ calls[t] < Quota[t]
               /\ calls' = [calls EXCEPT ![t] = @ + 1]
               /\ Goto(t, "pullLock")
               /\ UNCHANGED <<list, got, owner, waiting, spurious>>

PullLock(t) == /\ At(t, "pullLock")
               /\ Acquire(t)
               /\ Goto(t, "pullTest")
               /\ UNCHANGED <<list, calls, got, waiting, spurious>>

PullSleep(t) == /\ At(t, "pullTest") /\ Empty
                /\ FallAsleep(t)
                /\ Goto(t, "pullWait")
                /\ UNCHANGED <<list, calls, got, spurious>>

PullRelock(t) == /\ At(t, "pullWait") /\ Awake(t)
                 /\ Acquire(t)
                 /\ Goto(t, "pullTest")
                 /\ UNCHANGED <<list, calls, got, waiting, spurious>>

\* Slip: tail is left pointing at the removed node when the list empties.
PullRemoveStaleTail(t) == /\ At(t, "pullTest") /\ ~Empty
                          /\ head' = nodes[head].next
                          /\ size' = size - 1
                          /\ got' = [got EXCEPT ![t] = nodes[head].data]
                          /\ Goto(t, "pullWake")
                          /\ UNCHANGED <<nodes, freed, tail, life, cursor, calls, owner, waiting, spurious>>

\* Slip: the data is read after head has moved on.
PullRemoveLateRead(t) == /\ At(t, "pullTest") /\ ~Empty
                         /\ head' = IF size = 1 THEN NULL ELSE nodes[head].next
                         /\ tail' = IF size = 1 THEN NULL ELSE tail
                         /\ size' = size - 1
                         /\ got' = [got EXCEPT ![t] =
                                      nodes[IF size = 1 THEN head ELSE head'].data]
                         /\ Goto(t, "pullWake")
                         /\ UNCHANGED <<nodes, freed, life, cursor, calls, owner, waiting, spurious>>

PullRemove(t) == /\ At(t, "pullTest") /\ ~Empty
                 /\ head' = IF size = 1 THEN NULL ELSE nodes[head].next
                 /\ tail' = IF size = 1 THEN NULL ELSE tail
                 /\ size' = size - 1
                 /\ got' = [got EXCEPT ![t] = nodes[head].data]
                 /\ Goto(t, "pullWake")
                 /\ UNCHANGED <<nodes, freed, life, cursor, calls, owner, waiting, spurious>>

\* Slip: queue_pull does not tell the pushers that there is room.
PullWakeForgotten(t) == /\ At(t, "pullWake")
                        /\ Goto(t, "pullUnlock")
                        /\ UNCHANGED <<list, calls, got, owner, waiting, spurious>>

PullWake(t) == /\ At(t, "pullWake")
               /\ WakeAll
               /\ Goto(t, "pullUnlock")
               /\ UNCHANGED <<list, calls, got, owner, spurious>>

PullUnlock(t) == /\ At(t, "pullUnlock")
                 /\ Release(t)
                 /\ Goto(t, "out")
                 /\ UNCHANGED <<list, calls, got, waiting, spurious>>

---------------------------------------------------------------------------
Finished(t) == At(t, "out") /\ calls[t] = Quota[t]
AllJoined == \A t \in Threads : Finished(t)

\* queue_destroy(this), once every client has been joined: walk the list from
\* head, freeing one node at a time.
DestroyBegin == /\ life = "live" /\ AllJoined
                /\ cursor' = head
                /\ life' = "destroying"
                /\ UNCHANGED <<nodes, freed, head, tail, size, calls, got, monitorVars>>

\* Slip: the successor is not saved, the next node comes from this->head.
DestroyNodeFromHead == /\ life = "destroying" /\ cursor # NULL
                       /\ freed' = freed \cup {cursor}
                       /\ cursor' = nodes[head].next
                       /\ UNCHANGED <<nodes, head, tail, size, life, calls, got, monitorVars>>

DestroyNode == /\ life = "destroying" /\ cursor # NULL
               /\ freed' = freed \cup {cursor}
               /\ cursor' = nodes[cursor].next
               /\ UNCHANGED <<nodes, head, tail, size, life, calls, got, monitorVars>>

DestroyEnd == /\ life = "destroying" /\ cursor = NULL
              /\ life' = "destroyed"
              /\ UNCHANGED <<nodes, freed, head, tail, size, cursor, calls, got, monitorVars>>

Destroy == DestroyBegin \/ DestroyNode \/ DestroyEnd

Wakeup(t) == SpuriousWakeup(t) /\ UNCHANGED <<list, calls, got>>

PushStep(t) == \/ PushCall(t) \/ PushLock(t) \/ PushSleep(t) \/ PushRelock(t)
               \/ PushInsert(t) \/ PushWake(t) \/ PushUnlock(t)
PullStep(t) == \/ PullCall(t) \/ PullLock(t) \/ PullSleep(t) \/ PullRelock(t)
               \/ PullRemove(t) \/ PullWake(t) \/ PullUnlock(t)

\* The program is over; anything else that stops is a deadlock.
Terminated == life = "destroyed" /\ UNCHANGED vars

Next == \/ \E t \in Threads : PushStep(t) \/ PullStep(t) \/ Wakeup(t)
        \/ Destroy
        \/ Terminated

SafeSpec == Init /\ [][Next]_vars

\* Every thread is scheduled; the client that joined them destroys the queue.
Spec == /\ SafeSpec
        /\ \A t \in Threads : WF_vars(PushStep(t) \/ PullStep(t))
        /\ WF_vars(Destroy)

---------------------------------------------------------------------------
(* Properties.                                                             *)

\* Shape of the state: an element that was pulled is one that somebody pushed.
TypeOK == /\ pc \in [Threads -> Labels]
          /\ owner \in Threads \cup {NoThread}
          /\ waiting \subseteq Threads
          /\ spurious \in Nat
          /\ nodes \in Seq([data : Element, next : Nat])
          /\ freed \subseteq 1 .. Len(nodes)
          /\ head \in 0 .. Len(nodes) /\ tail \in 0 .. Len(nodes)
          /\ size \in 0 .. Len(nodes)
          /\ life \in {"live", "destroying", "destroyed"}
          /\ cursor \in 0 .. Len(nodes)
          /\ calls \in [Threads -> Nat]
          /\ got \in [Threads -> Element \cup {Nothing}]

\* The code between lock and unlock (queue.c:74-94, 100-119) is executed by
\* the owner of the mutex only, sleeping and waking up included.
MutualExclusion == \A t \in Threads : pc[t] \in Inside <=> owner = t

\* No interleaving of pushers that woke up together overfills the queue
\* (queue.c:76-78 tests again after every wakeup).
CapacityRespected == MaxSize > 0 => size <= MaxSize

\* The pointers and the counter tell the same story: the last `size` nodes
\* that were malloc'd form the list, from head to tail, and nothing follows
\* tail; an empty list has no dangling head or tail (queue.c:84-92, 106-117).
ListShape == IF size = 0
             THEN head = NULL /\ tail = NULL
             ELSE /\ head = Len(nodes) - size + 1
                  /\ tail = Len(nodes)
                  /\ \A i \in head .. Len(nodes) - 1 : nodes[i].next = i + 1
                  /\ nodes[Len(nodes)].next = NULL

\* The four together: who may touch the list, how long it may get, and that its
\* pointers describe it at every moment (queue.c:72-122).
Consistent == TypeOK /\ MutualExclusion /\ CapacityRespected /\ ListShape

\* No wakeup is lost although pushers and pullers share one condition
\* variable: a thread asleep either still has to wait, or somebody who
\* changed the queue is about to broadcast (queue.c:77, 93, 103, 118).
NoLostWakeup == \A t \in waiting :
  \/ At(t, "pushWait") /\ Full
  \/ At(t, "pullWait") /\ Empty
  \/ \E u \in Threads : pc[u] \in {"pushWake", "pullWake"}

\* Refinement: the pointer structure is a linearizable FIFO queue.  A call
\* takes effect when it changes the list, after the last of its sleeps.
Contents == [i \in 1 .. size |-> nodes[head + i - 1].data]
PhaseAt(label) ==
  CASE label = "out" -> "out"
    [] label \in {"pushWake", "pushUnlock", "pullWake", "pullUnlock"} -> "done"
    [] OTHER -> "called"
Phase == [t \in Threads |-> PhaseAt(pc[t])]
Atomic == INSTANCE AtomicQueue WITH items <- Contents, phase <- Phase
LinearizableFIFO == Atomic!SafeSpec

\* When as many elements are pulled as pushed, every call returns, whatever
\* the order in which the threads run, and the queue is destroyed.
Termination == <>(life = "destroyed")

\* queue_destroy frees each node of the list once and nothing else: what it
\* has freed is the front of the list, what is left starts at the cursor.
NoDoubleFree == IF life = "live" THEN freed = {}
                ELSE freed = IF size = 0 THEN {}
                             ELSE head .. (IF cursor = NULL THEN Len(nodes) ELSE cursor - 1)
=============================================================================
