----------------------------- MODULE ServerProofs -----------------------------
(* Proofs about the two servers.  charming_chatroom/server.c, for any number *)
(* of slots, clients and messages: slots, threads and descriptors keep to    *)
(* each other, although a number is closed without the mutex and given away  *)
(* at once; and who stays hears everything.  nonstop_networking/server.c,    *)
(* for any number of connections, names and sizes: however requests are cut  *)
(* into pieces and interleaved, a PUT answered OK is whole, and the list of  *)
(* files agrees with its length and with the directory.                      *)
EXTENDS ChatServer, MCFiles, TLAPS, FiniteSetTheorems, SequenceTheorems

Labels == {"none", "read", "lock", "write", "close", "clear"}
Stages == {"loop", "accept", "register", "spawn", "cleanup", "done", "exited", "killed"}

Shape == /\ clients \in [Slots -> Descriptors \cup {NONE}] /\ clientsCount \in Int
         /\ joined \in [Conns -> Nat] /\ sent \in Nat
         /\ pc \in [Slots -> Labels] /\ cursor \in 1 .. MAX_CLIENTS + 1
         /\ endSession \in BOOLEAN /\ stage \in Stages /\ swept \in Nat
         /\ fds \in [Descriptors -> Conns \cup {NONE}]
         /\ peer \in [Conns -> {"new", "open", "gone"}]
         /\ inbox \in [Conns -> Seq(Nat)]

\* Whose thread holds the mutex is writing, and nobody else is.
LockOK == /\ mutex \in Slots \cup {NONE}
          /\ \A i \in Slots : mutex = i <=> pc[i] = "write"
          /\ mutex = NONE => cursor = 1

\* main's local is a descriptor, then a slot; cleanup is the end.
MainOK == /\ stage = "register" => client_fd \in Descriptors
          /\ stage = "spawn" => client_fd \in Slots /\ clients[client_fd] # NONE
          /\ stage \in {"loop", "accept", "register", "spawn"} => swept = 0

\* The thread of a slot lives as long as the slot is taken; Spawn starts it.
ThreadsOK == Alive => \A i \in Slots :
               pc[i] # "none" <=> clients[i] # NONE /\ ~(stage = "spawn" /\ client_fd = i)

CountOK == clientsCount = Cardinality(Taken)

\* Slots whose thread, if it is there already, has not closed the descriptor.
Open == {i \in Taken : pc[i] # "clear"}

\* An open descriptor is that of one such slot, or main has just accepted it.
FdsOK == swept = 0 =>
  /\ \A i \in Open : fds[clients[i]] # NONE
  /\ \A i, k \in Open : clients[i] = clients[k] => i = k
  /\ Alive => \A f \in Descriptors : fds[f] # NONE =>
       (\E i \in Open : clients[i] = f) \/ (stage = "register" /\ client_fd = f)
  /\ stage = "register" => fds[client_fd] # NONE /\ \A i \in Open : clients[i] # client_fd

\* Connections are numbered in the order in which they are accepted.
PeersOK == /\ \E n \in 0 .. NumConns : {d \in Conns : peer[d] # "new"} = 1 .. n
           /\ \A f \in Descriptors : fds[f] # NONE => peer[fds[f]] # "new"

SlotsInv == Shape /\ LockOK /\ MainOK /\ ThreadsOK /\ CountOK /\ FdsOK /\ PeersOK

\* What has been received is a history: nothing is newer than the last broadcast.
InboxOK == \A c \in Conns :
  /\ \A k \in 1 .. Len(inbox[c]) : inbox[c][k] <= sent
  /\ \A k, l \in 1 .. Len(inbox[c]) : k < l => inbox[c][k] <= inbox[c][l]

\* A broadcast under way has reached the slots before the cursor.
Reached(i) == IF mutex # NONE /\ cursor <= i THEN sent - 1 ELSE sent
HeardOK == Alive /\ swept = 0 =>
  \A i \in Open : peer[fds[clients[i]]] = "open" =>
    \A m \in Nat : joined[fds[clients[i]]] < m /\ m <= Reached(i) =>
      \E k \in 1 .. Len(inbox[fds[clients[i]]]) : inbox[fds[clients[i]]][k] = m

ChatInv == SlotsInv /\ InboxOK /\ HeardOK

---------------------------------------------------------------------------
\* A non-empty set of numbers has a least one: the initial intervals they
\* bound are ordered by inclusion, which is well-founded on finite sets.
LEMMA LeastNumber ==
  ASSUME NEW T \in SUBSET Nat, T # {}
  PROVE  \E n \in T : \A m \in T : n <= m
<1> DEFINE U == {1 .. n : n \in T}
<1>1. IsWellFoundedOn(StrictSubsetOrdering(Nat), FiniteSubsetsOf(Nat))
  BY FS_StrictSubsetOrderingWellFounded
<1>2. U \subseteq FiniteSubsetsOf(Nat) /\ U # {}
  <2>1. \A n \in T : IsFiniteSet(1 .. n)
    <3>1. \A n \in T : n \in Int /\ 1 \in Int
      OBVIOUS
    <3> QED BY ONLY <3>1, FS_Interval
  <2>2. \A n \in T : 1 .. n \in SUBSET Nat
    OBVIOUS
  <2> QED BY <2>1, <2>2 DEF FiniteSubsetsOf
<1>3. PICK x \in U : \A y \in U : <<y, x>> \notin StrictSubsetOrdering(Nat)
  <2> HIDE DEF U
  <2> QED BY <1>1, <1>2, WFMin
<1>4. PICK n \in T : x = 1 .. n
  BY <1>3
<1>5. ASSUME NEW m \in T, m < n PROVE FALSE
  <2>1. 1 .. m \in SUBSET Nat /\ 1 .. n \in SUBSET Nat /\ 1 .. m \subseteq 1 .. n
    BY <1>5
  <2>2. n \in 1 .. n /\ n \notin 1 .. m
    BY <1>5
  <2>3. 1 .. m \in U
    OBVIOUS
  <2> QED BY <1>3, <1>4, <2>1, <2>2, <2>3 DEF StrictSubsetOrdering
<1> QED BY <1>5

LEMMA SlotsFinite ==
  /\ IsFiniteSet(Slots) /\ Cardinality(Slots) = MAX_CLIENTS
  /\ IsFiniteSet(Taken) /\ Cardinality(Taken) \in Nat
<1>1. 1 \in Int /\ MAX_CLIENTS \in Int /\ ~(1 > MAX_CLIENTS) /\ (MAX_CLIENTS - 1) + 1 = MAX_CLIENTS
  BY ChatAssumption
<1>2. IsFiniteSet(Slots) /\ Cardinality(Slots) = MAX_CLIENTS
  BY <1>1, FS_Interval DEF Slots
<1>3. Taken \subseteq Slots
  BY DEF Taken
<1> QED BY <1>2, <1>3, FS_Subset, FS_CardinalityType

LEMMA SlotsInit == Init => SlotsInv
<1> SUFFICES ASSUME Init PROVE SlotsInv
  OBVIOUS
<1>1. Shape
  <2>1. \A i \in Slots : clients[i] = NONE
    BY DEF Init
  <2>2. /\ clients \in [Slots -> Descriptors \cup {NONE}] /\ pc \in [Slots -> Labels]
        /\ fds \in [Descriptors -> Conns \cup {NONE}] /\ peer \in [Conns -> {"new", "open", "gone"}]
    BY DEF Init, Labels
  <2>3. joined \in [Conns -> Nat] /\ inbox \in [Conns -> Seq(Nat)]
    BY EmptySeq DEF Init
  <2>4. cursor \in 1 .. MAX_CLIENTS + 1
    BY ChatAssumption DEF Init
  <2>5. clientsCount \in Int /\ sent \in Nat /\ stage \in Stages /\ swept \in Nat
    BY DEF Init, Stages
  <2>6. endSession \in BOOLEAN
    BY DEF Init
  <2> QED BY <2>2, <2>3, <2>4, <2>5, <2>6 DEF Shape
<1>2. LockOK /\ MainOK /\ ThreadsOK
  BY DEF Init, LockOK, MainOK, ThreadsOK, NONE, Slots
<1>3. Taken = {}
  BY DEF Init, Taken
<1>4. CountOK
  BY <1>3, FS_EmptySet DEF Init, CountOK
<1>5. FdsOK
  BY <1>3 DEF Init, FdsOK, Open
<1>6. PeersOK
  <2>1. {d \in Conns : peer[d] # "new"} = 1 .. 0
    BY DEF Init
  <2> QED BY <2>1, ChatAssumption DEF PeersOK, Init
<1> QED BY <1>1, <1>2, <1>4, <1>5, <1>6 DEF SlotsInv

\* There are more descriptors than slots: accept finds one that is free.
LEMMA FreeDescriptor ==
  ASSUME SlotsInv, stage = "accept"
  PROVE  LET f == Min({d \in Descriptors : fds[d] = NONE})
         IN  f \in Descriptors /\ fds[f] = NONE
<1> DEFINE F == {d \in Descriptors : fds[d] = NONE}
<1>1. F # {}
  <2> SUFFICES ASSUME F = {} PROVE FALSE
    OBVIOUS
  <2>1. \A d \in Descriptors : \E i \in Slots : clients[i] = d
    BY DEF SlotsInv, MainOK, FdsOK, Alive, Open, Taken
  <2> DEFINE g == [d \in Descriptors |-> CHOOSE i \in Slots : clients[i] = d]
  <2>2. g \in [Descriptors -> Slots] /\ \A d \in Descriptors : clients[g[d]] = d
    BY <2>1
  <2>3. IsFiniteSet(Descriptors) /\ Cardinality(Descriptors) = MAX_CLIENTS + 1
    <3>1. 1 \in Int /\ MAX_CLIENTS + 1 \in Int /\ ~(1 > MAX_CLIENTS + 1)
          /\ ((MAX_CLIENTS + 1) - 1) + 1 = MAX_CLIENTS + 1
      BY ChatAssumption
    <3> QED BY <3>1, FS_Interval DEF Descriptors
  <2>4. Cardinality(Slots) < Cardinality(Descriptors)
    BY <2>3, SlotsFinite, ChatAssumption
  <2> HIDE DEF g
  <2>5. PICK d, e \in Descriptors : d # e /\ g[d] = g[e]
    BY <2>2, <2>3, <2>4, SlotsFinite, FS_PigeonHole
  <2> QED BY <2>2, <2>5
<1>2. F \in SUBSET Nat
  BY ChatAssumption DEF Descriptors
<1>3. PICK f \in F : \A d \in F : f <= d
  <2> HIDE DEF F
  <2> QED BY <1>1, <1>2, LeastNumber
<1>4. Min(F) \in F
  <2> HIDE DEF F
  <2> QED BY <1>3 DEF Min
<1> QED BY <1>4

LEMMA LoopSlots ==
  ASSUME SlotsInv, Loop
  PROVE  SlotsInv'
<1>1. Shape'
  BY ChatAssumption DEF SlotsInv, Shape, Labels, Stages, Loop, room, threads, main, sockets
<1>2. LockOK'
  BY DEF SlotsInv, Shape, LockOK, Loop, room, threads, main, sockets
<1>3. MainOK'
  BY DEF SlotsInv, Shape, MainOK, Loop, room, threads, main, sockets
<1>4. ThreadsOK'
  BY DEF SlotsInv, Shape, MainOK, ThreadsOK, Alive, Loop, room, threads, main, sockets
<1>5. CountOK'
  BY DEF SlotsInv, CountOK, Taken, Loop, room, threads, main, sockets
<1>6. FdsOK'
  BY DEF SlotsInv, Shape, MainOK, FdsOK, Open, Taken, Alive, Loop, room, threads, main, sockets
<1>7. PeersOK'
  BY DEF SlotsInv, Shape, PeersOK, Loop, room, threads, main, sockets
<1> QED BY <1>1, <1>2, <1>3, <1>4, <1>5, <1>6, <1>7 DEF SlotsInv

LEMMA AcceptSlots ==
  ASSUME SlotsInv, NEW c \in Conns, Accept(c)
  PROVE  SlotsInv'
<1>1. Shape'
  <2>1. client_fd' \in Descriptors /\ fds[client_fd'] = NONE
    BY FreeDescriptor DEF Accept
  <2>2. fds' \in [Descriptors -> Conns \cup {NONE}] /\ peer' \in [Conns -> {"new", "open", "gone"}]
    BY DEF SlotsInv, Shape, Accept
  <2> QED BY <2>2 DEF SlotsInv, Shape, Stages, Accept, room, threads
<1>2. LockOK'
  BY DEF SlotsInv, Shape, LockOK, Accept, room, threads, main, sockets
<1>3. MainOK'
  <2>1. client_fd' \in Descriptors
    BY FreeDescriptor DEF Accept
  <2> QED BY <2>1 DEF SlotsInv, MainOK, Accept
<1>4. ThreadsOK'
  BY DEF SlotsInv, Shape, MainOK, ThreadsOK, Alive, Accept, room, threads, main, sockets
<1>5. CountOK'
  BY DEF SlotsInv, CountOK, Taken, Accept, room, threads, main, sockets
<1>6. FdsOK'
  <2>1. client_fd' \in Descriptors /\ fds[client_fd'] = NONE
    BY FreeDescriptor DEF Accept
  <2>2. /\ fds'[client_fd'] = c /\ \A f \in Descriptors \ {client_fd'} : fds'[f] = fds[f]
    BY <2>1 DEF SlotsInv, Shape, Accept
  <2>3. Open' = Open /\ Open \subseteq Slots /\ UNCHANGED <<clients, swept>>
    BY DEF Open, Taken, Accept, room, threads
  <2>4. swept = 0 /\ Alive /\ stage' = "register" /\ stage # "register"
    BY DEF Accept, SlotsInv, MainOK, Alive
  <2>5. c # NONE
    BY DEF Conns, NONE
  <2>6. \A i \in Open : clients[i] \in Descriptors /\ fds[clients[i]] # NONE
    BY <2>4 DEF SlotsInv, FdsOK, Shape, Open, Taken
  <2>7. \A i \in Open : clients[i] # client_fd'
    BY <2>1, <2>6
  <2>8. \A i \in Open : fds'[clients[i]] # NONE
    BY <2>2, <2>6, <2>7
  <2>9. \A f \in Descriptors : fds'[f] # NONE => (\E i \in Open : clients[i] = f) \/ client_fd' = f
    BY <2>2, <2>4 DEF SlotsInv, FdsOK
  <2>10. \A i, k \in Open : clients[i] = clients[k] => i = k
    BY <2>4 DEF SlotsInv, FdsOK
  <2> QED BY <2>2, <2>3, <2>4, <2>5, <2>7, <2>8, <2>9, <2>10 DEF FdsOK
<1>7. PeersOK'
  <2>1. PICK n \in 0 .. NumConns : {d \in Conns : peer[d] # "new"} = 1 .. n
    BY DEF SlotsInv, PeersOK
  <2>2. Cardinality(1 .. n) = n
    <3>1. 1 \in Int /\ n \in Int /\ (IF 1 > n THEN 0 ELSE (n - 1) + 1) = n
      BY ChatAssumption
    <3> QED BY ONLY <3>1, FS_Interval
  <2>3. c = n + 1 /\ n + 1 \in 0 .. NumConns
    <3>1. c = Cardinality(1 .. n) + 1
      BY <2>1 DEF Accept
    <3>2. c \in 1 .. NumConns
      BY DEF Conns
    <3> QED BY <2>2, <3>1, <3>2, ChatAssumption
  <2>4. peer'[c] = "open" /\ \A d \in Conns \ {c} : peer'[d] = peer[d]
    BY DEF Accept, SlotsInv, Shape
  <2>5. {d \in Conns : peer'[d] # "new"} = 1 .. (n + 1)
    <3>1. {d \in Conns : peer'[d] # "new"} = {d \in Conns : peer[d] # "new"} \cup {c}
      BY <2>4
    <3> QED BY <2>1, <2>3, <3>1, ChatAssumption
  <2>6. client_fd' \in Descriptors
    BY FreeDescriptor DEF Accept
  <2>7. \A f \in Descriptors : fds'[f] = c \/ fds'[f] = fds[f]
    BY <2>6 DEF Accept, SlotsInv, Shape
  <2>8. \A f \in Descriptors : fds[f] # NONE => fds[f] \in Conns /\ peer[fds[f]] # "new"
    BY DEF SlotsInv, Shape, PeersOK
  <2>9. \A f \in Descriptors : fds'[f] # NONE => peer'[fds'[f]] # "new"
    BY <2>4, <2>7, <2>8
  <2> QED BY <2>3, <2>5, <2>9 DEF PeersOK
<1> QED BY <1>1, <1>2, <1>3, <1>4, <1>5, <1>6, <1>7 DEF SlotsInv

LEMMA RegisterSlots ==
  ASSUME SlotsInv, Register
  PROVE  SlotsInv'
<1>1. Shape'
  <2>1. client_fd \in Descriptors /\ fds[client_fd] \in Conns
    BY DEF Register, SlotsInv, Shape, MainOK, FdsOK
  <2> QED BY <2>1 DEF SlotsInv, Shape, Stages, Register, TakeSlot, threads, sockets
<1>2. LockOK'
  BY DEF SlotsInv, Shape, LockOK, Register, TakeSlot, room, threads, main, sockets
<1>3. MainOK'
  <2>1. PICK i \in Slots : clients' = [clients EXCEPT ![i] = client_fd] /\ client_fd' = i
    BY DEF Register, TakeSlot
  <2>2. clients'[i] = client_fd /\ client_fd # NONE
    BY <2>1 DEF SlotsInv, Shape, MainOK, Register, Descriptors, NONE
  <2>3. stage = "register" /\ stage' = "spawn" /\ UNCHANGED swept
    BY DEF Register, TakeSlot
  <2> QED BY <2>1, <2>2, <2>3 DEF SlotsInv, MainOK
<1>4. ThreadsOK'
  BY DEF SlotsInv, Shape, MainOK, ThreadsOK, Alive, Register, TakeSlot, room, threads, main, sockets
<1>5. CountOK'
  <2>1. PICK i \in Slots : clients[i] = NONE /\ clients' = [clients EXCEPT ![i] = client_fd]
                              /\ clientsCount' = clientsCount + 1
    BY DEF Register, TakeSlot
  <2>2. client_fd # NONE
    BY DEF Register, SlotsInv, MainOK, Descriptors, NONE
  <2>3. Taken' = Taken \cup {i} /\ i \notin Taken
    BY <2>1, <2>2 DEF Taken, SlotsInv, Shape
  <2>4. Cardinality(Taken \cup {i}) = Cardinality(Taken) + 1
    BY <2>3, SlotsFinite, FS_AddElement
  <2> QED BY <2>1, <2>3, <2>4 DEF SlotsInv, CountOK
<1>6. FdsOK'
  <2>1. PICK i \in Slots : clients[i] = NONE /\ clients' = [clients EXCEPT ![i] = client_fd]
    BY DEF Register, TakeSlot
  <2>2. /\ stage = "register" /\ stage' = "spawn" /\ UNCHANGED <<pc, fds, swept>>
    BY DEF Register, TakeSlot, threads, sockets
  <2>3. client_fd \in Descriptors /\ client_fd # NONE /\ swept = 0 /\ Alive
    BY <2>2 DEF SlotsInv, MainOK, Descriptors, NONE, Alive
  <2>4. clients'[i] = client_fd /\ \A k \in Slots \ {i} : clients'[k] = clients[k]
    BY <2>1 DEF SlotsInv, Shape
  <2>5. pc[i] = "none"
    BY <2>1, <2>2, <2>3 DEF SlotsInv, ThreadsOK
  <2>6. Open' = Open \cup {i} /\ i \notin Open /\ Open \subseteq Slots
    BY <2>1, <2>2, <2>3, <2>4, <2>5 DEF Open, Taken
  <2>7. /\ fds[client_fd] # NONE /\ (\A k \in Open : clients[k] # client_fd)
        /\ \A k \in Open : fds[clients[k]] # NONE
        /\ \A k, l \in Open : clients[k] = clients[l] => k = l
        /\ \A f \in Descriptors : fds[f] # NONE => (\E k \in Open : clients[k] = f) \/ client_fd = f
    BY <2>2, <2>3 DEF SlotsInv, FdsOK
  <2>8. \A k \in Open : clients'[k] = clients[k] /\ k # i
    BY <2>4, <2>6
  <2>9. \A f \in Descriptors : fds[f] # NONE => \E k \in Open \cup {i} : clients'[k] = f
    BY <2>4, <2>7, <2>8
  <2>10. \A k \in Open \cup {i} : fds[clients'[k]] # NONE
    BY <2>4, <2>7, <2>8
  <2>11. \A k, l \in Open \cup {i} : clients'[k] = clients'[l] => k = l
    BY <2>4, <2>7, <2>8
  <2> QED BY <2>2, <2>6, <2>9, <2>10, <2>11 DEF FdsOK
<1>7. PeersOK'
  BY DEF SlotsInv, Shape, PeersOK, Register, TakeSlot, room, threads, main, sockets
<1> QED BY <1>1, <1>2, <1>3, <1>4, <1>5, <1>6, <1>7 DEF SlotsInv

LEMMA RefuseSlots ==
  ASSUME SlotsInv, Refuse
  PROVE  SlotsInv'
<1>1. Shape'
  BY ChatAssumption DEF SlotsInv, Shape, Labels, Stages, Refuse, room, threads, main, sockets
<1>2. LockOK'
  BY DEF SlotsInv, Shape, LockOK, Refuse, room, threads, main, sockets
<1>3. MainOK'
  BY DEF SlotsInv, Shape, MainOK, Refuse, room, threads, main, sockets
<1>4. ThreadsOK'
  BY DEF SlotsInv, Shape, MainOK, ThreadsOK, Alive, Refuse, room, threads, main, sockets
<1>5. CountOK'
  BY DEF SlotsInv, CountOK, Taken, Refuse, room, threads, main, sockets
<1>6. FdsOK'
  BY DEF SlotsInv, Shape, MainOK, FdsOK, Open, Taken, Alive, Refuse, room, threads, main, sockets
<1>7. PeersOK'
  BY DEF SlotsInv, Shape, PeersOK, Refuse, room, threads, main, sockets
<1> QED BY <1>1, <1>2, <1>3, <1>4, <1>5, <1>6, <1>7 DEF SlotsInv

LEMMA SpawnSlots ==
  ASSUME SlotsInv, Spawn
  PROVE  SlotsInv'
<1>1. Shape'
  BY ChatAssumption DEF SlotsInv, Shape, Labels, Stages, Spawn, Goto, TopOfLoop, room, threads, main, sockets
<1>2. LockOK'
  <2>1. stage = "spawn" /\ stage' = "loop" /\ client_fd \in Slots /\ Alive
    BY DEF Spawn, SlotsInv, MainOK, Alive
  <2>2. pc[client_fd] = "none"
    BY <2>1 DEF SlotsInv, ThreadsOK
  <2>3. pc'[client_fd] \in {"read", "close"} /\ \A i \in Slots \ {client_fd} : pc'[i] = pc[i]
    BY <2>1 DEF Spawn, Goto, TopOfLoop, SlotsInv, Shape
  <2> QED BY <2>1, <2>2, <2>3 DEF SlotsInv, LockOK, Spawn, NONE, Slots
<1>3. MainOK'
  BY DEF SlotsInv, Shape, MainOK, Spawn, Goto, TopOfLoop, room, threads, main, sockets
<1>4. ThreadsOK'
  <2>1. stage = "spawn" /\ stage' = "loop" /\ client_fd \in Slots /\ Alive
    BY DEF Spawn, SlotsInv, MainOK, Alive
  <2>2. pc[client_fd] = "none"
    BY <2>1 DEF SlotsInv, ThreadsOK
  <2>3. pc'[client_fd] \in {"read", "close"} /\ \A i \in Slots \ {client_fd} : pc'[i] = pc[i]
    BY <2>1 DEF Spawn, Goto, TopOfLoop, SlotsInv, Shape
  <2>4. clients[client_fd] # NONE
    BY <2>1 DEF SlotsInv, MainOK
  <2>5. UNCHANGED clients
    BY DEF Spawn, room
  <2> QED BY <2>1, <2>2, <2>3, <2>4, <2>5 DEF SlotsInv, ThreadsOK
<1>5. CountOK'
  BY DEF SlotsInv, CountOK, Taken, Spawn, Goto, TopOfLoop, room, threads, main, sockets
<1>6. FdsOK'
  <2>1. stage = "spawn" /\ stage' = "loop" /\ client_fd \in Slots /\ Alive
    BY DEF Spawn, SlotsInv, MainOK, Alive
  <2>2. pc[client_fd] = "none"
    BY <2>1 DEF SlotsInv, ThreadsOK
  <2>3. pc'[client_fd] \in {"read", "close"} /\ \A i \in Slots \ {client_fd} : pc'[i] = pc[i]
    BY <2>1 DEF Spawn, Goto, TopOfLoop, SlotsInv, Shape
  <2>4. Open' = Open
    BY <2>1, <2>2, <2>3 DEF Open, Taken, Spawn, room
  <2>5. UNCHANGED <<clients, fds, swept>>
    BY DEF Spawn, room, sockets
  <2> QED BY <2>1, <2>4, <2>5 DEF SlotsInv, FdsOK, Alive
<1>7. PeersOK'
  BY DEF SlotsInv, Shape, PeersOK, Spawn, Goto, TopOfLoop, room, threads, main, sockets
<1> QED BY <1>1, <1>2, <1>3, <1>4, <1>5, <1>6, <1>7 DEF SlotsInv

LEMMA CleanupSlots ==
  ASSUME SlotsInv, Cleanup
  PROVE  SlotsInv'
<1>1. Shape'
  <2>1. fds' \in [Descriptors -> Conns \cup {NONE}]
    BY DEF SlotsInv, Shape, Cleanup, Closed
  <2>2. stage' \in Stages /\ swept' \in Nat
    BY DEF SlotsInv, Shape, Stages, Cleanup
  <2> QED BY <2>1, <2>2 DEF SlotsInv, Shape, Cleanup, room, threads
<1>2. LockOK'
  BY DEF SlotsInv, Shape, LockOK, Cleanup, Closed, room, threads, main, sockets
<1>3. MainOK'
  BY DEF SlotsInv, Shape, MainOK, Cleanup, Closed, room, threads, main, sockets
<1>4. ThreadsOK'
  BY DEF SlotsInv, Shape, MainOK, ThreadsOK, Alive, Cleanup, Closed, room, threads, main, sockets
<1>5. CountOK'
  BY DEF SlotsInv, CountOK, Taken, Cleanup, Closed, room, threads, main, sockets
<1>6. FdsOK'
  BY DEF SlotsInv, Shape, MainOK, FdsOK, Open, Taken, Alive, Cleanup, Closed, room, threads, main, sockets
<1>7. PeersOK'
  BY DEF SlotsInv, Shape, PeersOK, Cleanup, Closed, room, threads, main, sockets
<1> QED BY <1>1, <1>2, <1>3, <1>4, <1>5, <1>6, <1>7 DEF SlotsInv

LEMMA CloseServerSlots ==
  ASSUME SlotsInv, close_server
  PROVE  SlotsInv'
<1>1. Shape'
  BY ChatAssumption DEF SlotsInv, Shape, Labels, Stages, close_server, Alive, room, threads, main, sockets
<1>2. LockOK'
  BY DEF SlotsInv, Shape, LockOK, close_server, Alive, room, threads, main, sockets
<1>3. MainOK'
  BY DEF SlotsInv, Shape, MainOK, close_server, Alive, room, threads, main, sockets
<1>4. ThreadsOK'
  BY DEF SlotsInv, Shape, MainOK, ThreadsOK, Alive, close_server, Alive, room, threads, main, sockets
<1>5. CountOK'
  BY DEF SlotsInv, CountOK, Taken, close_server, Alive, room, threads, main, sockets
<1>6. FdsOK'
  BY DEF SlotsInv, Shape, MainOK, FdsOK, Open, Taken, Alive, close_server, Alive, room, threads, main, sockets
<1>7. PeersOK'
  BY DEF SlotsInv, Shape, PeersOK, close_server, Alive, room, threads, main, sockets
<1> QED BY <1>1, <1>2, <1>3, <1>4, <1>5, <1>6, <1>7 DEF SlotsInv

LEMMA ReadSlots ==
  ASSUME SlotsInv, NEW i \in Slots, Read(i)
  PROVE  SlotsInv'
<1>1. Shape'
  BY ChatAssumption DEF SlotsInv, Shape, Labels, Stages, Read, At, Goto, Conn, room, threads, main, sockets
<1>2. LockOK'
  BY DEF SlotsInv, Shape, LockOK, Read, At, Goto, Conn, room, threads, main, sockets
<1>3. MainOK'
  BY DEF SlotsInv, Shape, MainOK, Read, At, Goto, Conn, room, threads, main, sockets
<1>4. ThreadsOK'
  BY DEF SlotsInv, Shape, MainOK, ThreadsOK, Alive, Read, At, Goto, Conn, room, threads, main, sockets
<1>5. CountOK'
  BY DEF SlotsInv, CountOK, Taken, Read, At, Goto, Conn, room, threads, main, sockets
<1>6. FdsOK'
  BY DEF SlotsInv, Shape, MainOK, FdsOK, Open, Taken, Alive, Read, At, Goto, Conn, room, threads, main, sockets
<1>7. PeersOK'
  BY DEF SlotsInv, Shape, PeersOK, Read, At, Goto, Conn, room, threads, main, sockets
<1> QED BY <1>1, <1>2, <1>3, <1>4, <1>5, <1>6, <1>7 DEF SlotsInv

LEMMA ReadFailsSlots ==
  ASSUME SlotsInv, NEW i \in Slots, ReadFails(i)
  PROVE  SlotsInv'
<1>1. Shape'
  BY ChatAssumption DEF SlotsInv, Shape, Labels, Stages, ReadFails, At, Goto, room, threads, main, sockets
<1>2. LockOK'
  BY DEF SlotsInv, Shape, LockOK, ReadFails, At, Goto, room, threads, main, sockets
<1>3. MainOK'
  BY DEF SlotsInv, Shape, MainOK, ReadFails, At, Goto, room, threads, main, sockets
<1>4. ThreadsOK'
  BY DEF SlotsInv, Shape, MainOK, ThreadsOK, Alive, ReadFails, At, Goto, room, threads, main, sockets
<1>5. CountOK'
  BY DEF SlotsInv, CountOK, Taken, ReadFails, At, Goto, room, threads, main, sockets
<1>6. FdsOK'
  BY DEF SlotsInv, Shape, MainOK, FdsOK, Open, Taken, Alive, ReadFails, At, Goto, room, threads, main, sockets
<1>7. PeersOK'
  BY DEF SlotsInv, Shape, PeersOK, ReadFails, At, Goto, room, threads, main, sockets
<1> QED BY <1>1, <1>2, <1>3, <1>4, <1>5, <1>6, <1>7 DEF SlotsInv

LEMMA LockSlots ==
  ASSUME SlotsInv, NEW i \in Slots, Lock(i)
  PROVE  SlotsInv'
<1>1. Shape'
  BY ChatAssumption DEF SlotsInv, Shape, Labels, Stages, Lock, At, Goto, room, threads, main, sockets
<1>2. LockOK'
  BY DEF SlotsInv, Shape, LockOK, Lock, At, Goto, Labels, NONE, Slots
<1>3. MainOK'
  BY DEF SlotsInv, Shape, MainOK, Lock, At, Goto, room, threads, main, sockets
<1>4. ThreadsOK'
  BY DEF SlotsInv, Shape, MainOK, ThreadsOK, Alive, Lock, At, Goto, room, threads, main, sockets
<1>5. CountOK'
  BY DEF SlotsInv, CountOK, Taken, Lock, At, Goto, room, threads, main, sockets
<1>6. FdsOK'
  BY DEF SlotsInv, Shape, MainOK, FdsOK, Open, Taken, Alive, Lock, At, Goto, room, threads, main, sockets
<1>7. PeersOK'
  BY DEF SlotsInv, Shape, PeersOK, Lock, At, Goto, room, threads, main, sockets
<1> QED BY <1>1, <1>2, <1>3, <1>4, <1>5, <1>6, <1>7 DEF SlotsInv

LEMMA WriteSlots ==
  ASSUME SlotsInv, NEW i \in Slots, Write(i)
  PROVE  SlotsInv'
<1>1. Shape'
  <2>1. cursor' \in 1 .. MAX_CLIENTS + 1
    BY ChatAssumption DEF SlotsInv, Shape, Write
  <2>2. stage' \in Stages
    BY DEF SlotsInv, Shape, Write, Stages
  <2>3. inbox' \in [Conns -> Seq(Nat)]
    <3>1. inbox' = inbox \/ \E d \in Conns : inbox' = [inbox EXCEPT ![d] = Append(@, sent)]
      <4>1. cursor \in Slots
        BY DEF SlotsInv, Shape, Write, Slots
      <4>2. PICK d : d = Conn(cursor)
        OBVIOUS
      <4>3. d # NONE => d \in Conns
        BY <4>1, <4>2 DEF SlotsInv, Shape, Conn
      <4>4. inbox' = inbox \/ (d # NONE /\ inbox' = [inbox EXCEPT ![d] = Append(@, sent)])
        BY <4>2 DEF Write
      <4> QED BY <4>3, <4>4
    <3>2. inbox \in [Conns -> Seq(Nat)] /\ sent \in Nat
      BY DEF SlotsInv, Shape
    <3>3. \A d \in Conns : Append(inbox[d], sent) \in Seq(Nat)
      BY <3>2, AppendProperties
    <3> QED BY <3>1, <3>2, <3>3
  <2> QED BY <2>1, <2>2, <2>3 DEF SlotsInv, Shape, Write, room
<1>2. LockOK'
  BY DEF SlotsInv, Shape, LockOK, Write, At, Labels, NONE, Slots
<1>3. MainOK'
  BY DEF SlotsInv, Shape, MainOK, Write, At, room, threads, main, sockets
<1>4. ThreadsOK'
  BY DEF SlotsInv, Shape, MainOK, ThreadsOK, Alive, Write, At, room, threads, main, sockets
<1>5. CountOK'
  BY DEF SlotsInv, CountOK, Taken, Write, At, room, threads, main, sockets
<1>6. FdsOK'
  BY DEF SlotsInv, Shape, MainOK, FdsOK, Open, Taken, Alive, Write, At, room, threads, main, sockets
<1>7. PeersOK'
  BY DEF SlotsInv, Shape, PeersOK, Write, At, room, threads, main, sockets
<1> QED BY <1>1, <1>2, <1>3, <1>4, <1>5, <1>6, <1>7 DEF SlotsInv

LEMMA UnlockSlots ==
  ASSUME SlotsInv, NEW i \in Slots, Unlock(i)
  PROVE  SlotsInv'
<1>1. Shape'
  BY ChatAssumption DEF SlotsInv, Shape, Labels, Stages, Unlock, At, Goto, TopOfLoop, room, threads, main, sockets
<1>2. LockOK'
  BY DEF SlotsInv, Shape, LockOK, Unlock, At, Goto, TopOfLoop, Labels, NONE, Slots
<1>3. MainOK'
  BY DEF SlotsInv, Shape, MainOK, Unlock, At, Goto, TopOfLoop, room, threads, main, sockets
<1>4. ThreadsOK'
  BY DEF SlotsInv, Shape, MainOK, ThreadsOK, Alive, Unlock, At, Goto, TopOfLoop, room, threads, main, sockets
<1>5. CountOK'
  BY DEF SlotsInv, CountOK, Taken, Unlock, At, Goto, TopOfLoop, room, threads, main, sockets
<1>6. FdsOK'
  BY DEF SlotsInv, Shape, MainOK, FdsOK, Open, Taken, Alive, Unlock, At, Goto, TopOfLoop, room, threads, main, sockets
<1>7. PeersOK'
  BY DEF SlotsInv, Shape, PeersOK, Unlock, At, Goto, TopOfLoop, room, threads, main, sockets
<1> QED BY <1>1, <1>2, <1>3, <1>4, <1>5, <1>6, <1>7 DEF SlotsInv

LEMMA CloseSlots ==
  ASSUME SlotsInv, NEW i \in Slots, Close(i)
  PROVE  SlotsInv'
<1>1. Shape'
  BY ChatAssumption DEF SlotsInv, Shape, Labels, Stages, Close, At, Goto, Closed, room, threads, main, sockets
<1>2. LockOK'
  BY DEF SlotsInv, Shape, LockOK, Close, At, Goto, Closed, room, threads, main, sockets
<1>3. MainOK'
  BY DEF SlotsInv, Shape, MainOK, Close, At, Goto, Closed, room, threads, main, sockets
<1>4. ThreadsOK'
  BY DEF SlotsInv, Shape, MainOK, ThreadsOK, Alive, Close, At, Goto, Closed, room, threads, main, sockets
<1>5. CountOK'
  BY DEF SlotsInv, CountOK, Taken, Close, At, Goto, Closed, room, threads, main, sockets
<1>6. FdsOK'
  BY DEF SlotsInv, Shape, MainOK, FdsOK, Open, Taken, Alive, Close, At, Goto, Closed, room, threads, main, sockets
<1>7. PeersOK'
  BY DEF SlotsInv, Shape, PeersOK, Close, At, Goto, Closed, room, threads, main, sockets
<1> QED BY <1>1, <1>2, <1>3, <1>4, <1>5, <1>6, <1>7 DEF SlotsInv

LEMMA ClearSlots ==
  ASSUME SlotsInv, NEW i \in Slots, Clear(i)
  PROVE  SlotsInv'
<1>1. Shape'
  BY ChatAssumption DEF SlotsInv, Shape, Labels, Stages, Clear, At, Goto, room, threads, main, sockets
<1>2. LockOK'
  BY DEF SlotsInv, Shape, LockOK, Clear, At, Goto, room, threads, main, sockets
<1>3. MainOK'
  <2>1. stage = "spawn" => client_fd \in Slots /\ client_fd # i /\ clients[client_fd] # NONE
    BY DEF SlotsInv, MainOK, ThreadsOK, Clear, At
  <2>2. stage = "spawn" => clients'[client_fd] = clients[client_fd]
    BY <2>1 DEF SlotsInv, Shape, Clear
  <2>3. UNCHANGED <<stage, client_fd, swept>>
    BY DEF Clear, main
  <2> QED BY <2>1, <2>2, <2>3 DEF SlotsInv, MainOK
<1>4. ThreadsOK'
  BY DEF SlotsInv, Shape, MainOK, ThreadsOK, Alive, Clear, At, Goto, room, threads, main, sockets
<1>5. CountOK'
  <2>1. clients' = [clients EXCEPT ![i] = NONE] /\ clientsCount' = clientsCount - 1
    BY DEF Clear
  <2>2. clients[i] # NONE
    BY DEF Clear, At, SlotsInv, ThreadsOK
  <2>3. Taken' = Taken \ {i} /\ i \in Taken
    BY <2>1, <2>2 DEF Taken, SlotsInv, Shape
  <2>4. Cardinality(Taken \ {i}) = Cardinality(Taken) - 1
    BY <2>3, SlotsFinite, FS_RemoveElement
  <2> QED BY <2>1, <2>3, <2>4 DEF SlotsInv, CountOK
<1>6. FdsOK'
  BY DEF SlotsInv, Shape, MainOK, FdsOK, Open, Taken, Alive, Clear, At, Goto, room, threads, main, sockets
<1>7. PeersOK'
  BY DEF SlotsInv, Shape, PeersOK, Clear, At, Goto, room, threads, main, sockets
<1> QED BY <1>1, <1>2, <1>3, <1>4, <1>5, <1>6, <1>7 DEF SlotsInv

LEMMA SendSlots ==
  ASSUME SlotsInv, NEW c \in Conns, Send(c)
  PROVE  SlotsInv'
<1>1. Shape'
  BY ChatAssumption DEF SlotsInv, Shape, Labels, Stages, Send, room, threads, main, sockets
<1>2. LockOK'
  BY DEF SlotsInv, Shape, LockOK, Send, room, threads, main, sockets
<1>3. MainOK'
  BY DEF SlotsInv, Shape, MainOK, Send, room, threads, main, sockets
<1>4. ThreadsOK'
  BY DEF SlotsInv, Shape, MainOK, ThreadsOK, Alive, Send, room, threads, main, sockets
<1>5. CountOK'
  BY DEF SlotsInv, CountOK, Taken, Send, room, threads, main, sockets
<1>6. FdsOK'
  BY DEF SlotsInv, Shape, MainOK, FdsOK, Open, Taken, Alive, Send, room, threads, main, sockets
<1>7. PeersOK'
  BY DEF SlotsInv, Shape, PeersOK, Send, room, threads, main, sockets
<1> QED BY <1>1, <1>2, <1>3, <1>4, <1>5, <1>6, <1>7 DEF SlotsInv

LEMMA LeaveSlots ==
  ASSUME SlotsInv, NEW c \in Conns, Leave(c)
  PROVE  SlotsInv'
<1>1. Shape'
  BY ChatAssumption DEF SlotsInv, Shape, Labels, Stages, Leave, room, threads, main, sockets
<1>2. LockOK'
  BY DEF SlotsInv, Shape, LockOK, Leave, room, threads, main, sockets
<1>3. MainOK'
  BY DEF SlotsInv, Shape, MainOK, Leave, room, threads, main, sockets
<1>4. ThreadsOK'
  BY DEF SlotsInv, Shape, MainOK, ThreadsOK, Alive, Leave, room, threads, main, sockets
<1>5. CountOK'
  BY DEF SlotsInv, CountOK, Taken, Leave, room, threads, main, sockets
<1>6. FdsOK'
  BY DEF SlotsInv, Shape, MainOK, FdsOK, Open, Taken, Alive, Leave, room, threads, main, sockets
<1>7. PeersOK'
  BY DEF SlotsInv, Shape, PeersOK, Leave, room, threads, main, sockets
<1> QED BY <1>1, <1>2, <1>3, <1>4, <1>5, <1>6, <1>7 DEF SlotsInv

LEMMA SlotsNext ==
  ASSUME SlotsInv, [Next]_chatVars
  PROVE  SlotsInv'
<1>1. CASE Main
  BY <1>1, LoopSlots, RegisterSlots, RefuseSlots, SpawnSlots, CleanupSlots DEF Main
<1>2. CASE close_server
  BY <1>2, CloseServerSlots
<1>3. CASE \E i \in Slots : Thread(i)
  BY <1>3, ReadSlots, ReadFailsSlots, LockSlots, WriteSlots, UnlockSlots, CloseSlots, ClearSlots
     DEF Thread
<1>4. CASE \E c \in Conns : Accept(c) \/ Send(c) \/ Leave(c)
  BY <1>4, AcceptSlots, SendSlots, LeaveSlots
<1>5. CASE UNCHANGED chatVars
  BY <1>5 DEF SlotsInv, Shape, LockOK, MainOK, ThreadsOK, Alive, CountOK, Taken, FdsOK, Open, PeersOK,
     chatVars, room, threads, main, sockets
<1> QED BY <1>1, <1>2, <1>3, <1>4, <1>5 DEF Next

LEMMA SlotsSuffices ==
  ASSUME SlotsInv
  PROVE  SlotsConsistent
<1>1. clientsCount = Cardinality(Taken)
  BY DEF SlotsInv, CountOK
<1>2. mutex # NONE => pc[mutex] = "write"
  BY DEF SlotsInv, LockOK
<1>3. ASSUME Alive
      PROVE  {i \in Slots : pc[i] # "none"} = Taken \ (IF stage = "spawn" THEN {client_fd} ELSE {})
  <2>1. \A i \in Slots : pc[i] # "none" <=> clients[i] # NONE /\ ~(stage = "spawn" /\ client_fd = i)
    BY <1>3 DEF SlotsInv, ThreadsOK
  <2>2. CASE stage = "spawn"
    BY <2>1, <2>2 DEF Taken
  <2>3. CASE stage # "spawn"
    BY <2>1, <2>3 DEF Taken
  <2> QED BY <2>2, <2>3
<1>4. ASSUME swept = 0
      PROVE  /\ \A i \in Open : Conn(i) # NONE
             /\ \A i, k \in Open : clients[i] = clients[k] => i = k
  BY <1>4 DEF SlotsInv, FdsOK, Open, Taken, Conn
<1> QED BY <1>1, <1>2, <1>3, <1>4 DEF SlotsConsistent, Open

\* server.c:130-213: the count is that of the taken slots, each with its thread,
\* and no two slots in use share a connection, for any number of slots.
THEOREM SlotsStayConsistent == Spec => []SlotsConsistent
<1>1. SlotsInv /\ [Next]_chatVars => SlotsInv'
  BY SlotsNext
<1>2. SlotsInv => SlotsConsistent
  BY SlotsSuffices
<1> QED BY SlotsInit, <1>1, <1>2, PTL DEF Spec

---------------------------------------------------------------------------
\* What concerns the slots in use stays as it is: what they heard does, too.
LEMMA HeardKept ==
  ASSUME HeardOK, UNCHANGED <<joined, mutex, cursor, sent, inbox>>,
         Alive' /\ swept' = 0 =>
           /\ Alive /\ swept = 0
           /\ \A i \in Open' : /\ i \in Open /\ clients'[i] = clients[i]
                               /\ fds'[clients[i]] = fds[clients[i]]
                               /\ peer'[fds[clients[i]]] = "open" => peer[fds[clients[i]]] = "open"
  PROVE  HeardOK'
<1> SUFFICES ASSUME Alive', swept' = 0, NEW i \in Open', peer'[fds'[clients'[i]]] = "open",
                    NEW m \in Nat, (joined[fds[clients[i]]] < m)', (m <= Reached(i))'
             PROVE  (\E k \in 1 .. Len(inbox[fds[clients[i]]]) : inbox[fds[clients[i]]][k] = m)'
  BY DEF HeardOK
<1>1. /\ i \in Open /\ clients'[i] = clients[i] /\ fds'[clients[i]] = fds[clients[i]]
      /\ peer[fds[clients[i]]] = "open" /\ Alive /\ swept = 0
  OBVIOUS
<1>2. joined[fds[clients[i]]] < m /\ m <= Reached(i)
  BY <1>1 DEF Reached
<1>3. PICK k \in 1 .. Len(inbox[fds[clients[i]]]) : inbox[fds[clients[i]]][k] = m
  BY <1>1, <1>2 DEF HeardOK
<1> QED BY <1>1, <1>3

LEMMA InboxKept ==
  ASSUME InboxOK, UNCHANGED <<inbox, sent>>
  PROVE  InboxOK'
BY DEF InboxOK

\* A slot in use has a descriptor, and that a connection that has been accepted.
LEMMA OpenSlots ==
  ASSUME SlotsInv, swept = 0, NEW i \in Open
  PROVE  /\ i \in Slots /\ clients[i] \in Descriptors
         /\ fds[clients[i]] \in Conns /\ peer[fds[clients[i]]] # "new"
BY DEF SlotsInv, Shape, FdsOK, PeersOK, Open, Taken

LEMMA LoopHeard ==
  ASSUME ChatInv, Loop
  PROVE  InboxOK' /\ HeardOK'
<1>1. UNCHANGED <<room, threads, swept, sockets>> /\ Alive
  BY DEF Loop, Alive
<1>2. Open' = Open
  BY <1>1 DEF Open, Taken, room, threads
<1> QED BY <1>1, <1>2, HeardKept, InboxKept DEF ChatInv, room, threads, sockets

LEMMA AcceptHeard ==
  ASSUME ChatInv, NEW c \in Conns, Accept(c)
  PROVE  InboxOK' /\ HeardOK'
<1>1. UNCHANGED <<room, threads, swept, inbox>> /\ Alive
  BY DEF Accept, Alive
<1>2. Open' = Open
  BY <1>1 DEF Open, Taken, room, threads
<1>3. client_fd' \in Descriptors /\ fds[client_fd'] = NONE
  BY FreeDescriptor DEF Accept, ChatInv
<1>4. peer[c] = "new"
  <2>1. PICK n \in 0 .. NumConns : {d \in Conns : peer[d] # "new"} = 1 .. n
    BY DEF ChatInv, SlotsInv, PeersOK
  <2>2. Cardinality(1 .. n) = n
    <3>1. 1 \in Int /\ n \in Int /\ (IF 1 > n THEN 0 ELSE (n - 1) + 1) = n
      BY ChatAssumption
    <3> QED BY ONLY <3>1, FS_Interval
  <2>3. c = Cardinality(1 .. n) + 1
    BY <2>1 DEF Accept
  <2>4. c \notin 1 .. n
    BY <2>2, <2>3, ChatAssumption
  <2> QED BY <2>1, <2>4
<1>5. ASSUME swept = 0, NEW i \in Open
      PROVE  fds'[clients[i]] = fds[clients[i]] /\ peer'[fds[clients[i]]] = peer[fds[clients[i]]]
  <2>1. /\ clients[i] \in Descriptors /\ fds[clients[i]] \in Conns
        /\ peer[fds[clients[i]]] # "new"
    BY <1>5, OpenSlots DEF ChatInv
  <2>2. clients[i] # client_fd' /\ fds[clients[i]] # c
    BY <1>3, <1>4, <2>1 DEF NONE, Conns
  <2> QED BY <1>3, <2>1, <2>2 DEF Accept, ChatInv, SlotsInv, Shape
<1> QED BY <1>1, <1>2, <1>5, HeardKept, InboxKept DEF ChatInv, room, threads

\* A client that is given a slot has all broadcasts before it: none is under way.
LEMMA RegisterHeard ==
  ASSUME ChatInv, Register
  PROVE  InboxOK' /\ HeardOK'
<1>1. PICK j \in Slots : clients[j] = NONE /\ TakeSlot(j)
  BY DEF Register
<1>2. UNCHANGED <<threads, swept, sockets>> /\ Alive /\ stage = "register" /\ mutex = NONE
  BY <1>1 DEF Register, TakeSlot, Alive
<1>3. InboxOK'
  BY <1>2, InboxKept DEF ChatInv, threads, sockets
<1>4. client_fd \in Descriptors /\ fds[client_fd] \in Conns /\ swept = 0
  BY <1>2 DEF ChatInv, SlotsInv, Shape, MainOK, FdsOK
<1>5. /\ clients'[j] = client_fd /\ \A i \in Slots \ {j} : clients'[i] = clients[i]
      /\ joined'[fds[client_fd]] = sent
      /\ \A c \in Conns \ {fds[client_fd]} : joined'[c] = joined[c]
  BY <1>1, <1>4 DEF TakeSlot, ChatInv, SlotsInv, Shape
<1>6. ASSUME NEW i \in Open', peer[fds[clients'[i]]] = "open",
             NEW m \in Nat, joined'[fds[clients'[i]]] < m, m <= sent
      PROVE  \E k \in 1 .. Len(inbox[fds[clients'[i]]]) : inbox[fds[clients'[i]]][k] = m
  <2>1. fds[clients'[i]] # fds[client_fd]
    BY <1>5, <1>6 DEF ChatInv, SlotsInv, Shape
  <2>2. i \in Open /\ clients'[i] = clients[i]
    BY <1>2, <1>5, <2>1 DEF Open, Taken, threads
  <2>3. fds[clients[i]] \in Conns
    BY <1>4, <2>2, OpenSlots DEF ChatInv
  <2>4. joined[fds[clients[i]]] < m
    BY <1>5, <1>6, <2>1, <2>2, <2>3
  <2>5. m <= Reached(i)
    BY <1>2, <1>6 DEF Reached
  <2> QED BY <1>2, <1>4, <1>6, <2>2, <2>4, <2>5 DEF ChatInv, HeardOK
<1>7. HeardOK'
  <2>1. UNCHANGED <<fds, peer, inbox, mutex, sent>>
    BY <1>2 DEF sockets, threads
  <2>2. \A i \in Slots : Reached(i)' = sent
    BY <1>2, <2>1 DEF Reached
  <2>3. Open' \subseteq Slots
    BY DEF Open, Taken
  <2> QED BY <1>6, <2>1, <2>2, <2>3 DEF HeardOK
<1> QED BY <1>3, <1>7

LEMMA RefuseHeard ==
  ASSUME ChatInv, Refuse
  PROVE  InboxOK' /\ HeardOK'
<1>1. UNCHANGED <<room, threads, swept, peer, inbox>> /\ Alive /\ stage = "register"
  BY DEF Refuse, Alive
<1>2. Open' = Open
  BY <1>1 DEF Open, Taken, room, threads
<1>3. ASSUME swept = 0, NEW i \in Open
      PROVE  fds'[clients[i]] = fds[clients[i]]
  <2>1. clients[i] # client_fd
    BY <1>1, <1>3 DEF ChatInv, SlotsInv, FdsOK
  <2> QED BY <1>3, <2>1, OpenSlots DEF Refuse, ChatInv, SlotsInv, Shape
<1> QED BY <1>1, <1>2, <1>3, HeardKept, InboxKept DEF ChatInv, room, threads

LEMMA SpawnHeard ==
  ASSUME ChatInv, Spawn
  PROVE  InboxOK' /\ HeardOK'
<1>1. UNCHANGED <<room, mutex, cursor, sent, swept, sockets>> /\ Alive /\ stage = "spawn"
  BY DEF Spawn, Alive
<1>2. Open' \subseteq Open
  <2>1. pc[client_fd] = "none" /\ client_fd \in Slots
    BY <1>1 DEF ChatInv, SlotsInv, MainOK, ThreadsOK
  <2>2. \A i \in Slots : pc'[i] # "clear" => pc[i] # "clear"
    BY <2>1 DEF Spawn, Goto, ChatInv, SlotsInv, Shape
  <2> QED BY <1>1, <2>2 DEF Open, Taken, room
<1> QED BY <1>1, <1>2, HeardKept, InboxKept DEF ChatInv, room, sockets

LEMMA CleanupHeard ==
  ASSUME ChatInv, Cleanup
  PROVE  InboxOK' /\ HeardOK'
<1>1. UNCHANGED <<room, threads, inbox>>
  BY DEF Cleanup
<1>2. swept' # 0
  BY DEF Cleanup, ChatInv, SlotsInv, Shape
<1> QED BY <1>1, <1>2, InboxKept DEF ChatInv, HeardOK, threads

LEMMA CloseServerHeard ==
  ASSUME ChatInv, close_server
  PROVE  InboxOK' /\ HeardOK'
<1>1. UNCHANGED <<room, threads, swept, sockets>> /\ Alive
  BY DEF close_server
<1>2. Open' = Open
  BY <1>1 DEF Open, Taken, room, threads
<1> QED BY <1>1, <1>2, HeardKept, InboxKept DEF ChatInv, room, threads, sockets

LEMMA ReadHeard ==
  ASSUME ChatInv, NEW i \in Slots, Read(i) \/ ReadFails(i)
  PROVE  InboxOK' /\ HeardOK'
<1>1. UNCHANGED <<room, mutex, cursor, sent, main, fds, peer, inbox>> /\ Alive /\ pc[i] = "read"
  BY DEF Read, ReadFails, At, sockets
<1>2. Open' \subseteq Open
  <2>1. \A k \in Slots : pc'[k] # "clear" => pc[k] # "clear"
    BY <1>1 DEF Read, ReadFails, Goto, ChatInv, SlotsInv, Shape
  <2> QED BY <1>1, <2>1 DEF Open, Taken, room
<1> QED BY <1>1, <1>2, HeardKept, InboxKept DEF ChatInv, room, main

\* A broadcast begins: it has reached nobody, and the clients have the ones before.
LEMMA LockHeard ==
  ASSUME ChatInv, NEW i \in Slots, Lock(i)
  PROVE  InboxOK' /\ HeardOK'
<1>1. /\ UNCHANGED <<room, cursor, main, sockets>> /\ Alive /\ pc[i] = "lock"
      /\ mutex = NONE /\ mutex' = i /\ sent' = sent + 1 /\ i # NONE
  BY DEF Lock, At, Slots, NONE
<1>2. InboxOK'
  <2>1. \A c \in Conns : UNCHANGED inbox[c] /\ inbox[c] \in Seq(Nat)
    BY <1>1 DEF ChatInv, SlotsInv, Shape, sockets
  <2>2. \A x \in Nat : x <= sent => x <= sent'
    BY <1>1 DEF ChatInv, SlotsInv, Shape
  <2>3. \A c \in Conns : \A k \in 1 .. Len(inbox[c]) : inbox[c][k] \in Nat
    BY <2>1, ElementOfSeq
  <2> QED BY <1>1, <2>1, <2>2, <2>3 DEF ChatInv, InboxOK, sockets
<1>3. Open' = Open
  <2>1. \A k \in Slots : pc'[k] # "clear" <=> pc[k] # "clear"
    BY <1>1 DEF Lock, Goto, ChatInv, SlotsInv, Shape
  <2> QED BY <1>1, <2>1 DEF Open, Taken, room
<1>4. \A k \in Slots : Reached(k)' = Reached(k)
  <2>1. cursor = 1 /\ sent \in Nat
    BY <1>1 DEF ChatInv, SlotsInv, LockOK, Shape
  <2> QED BY <1>1, <2>1 DEF Reached, Slots
<1>5. HeardOK'
  BY <1>1, <1>3, <1>4 DEF ChatInv, HeardOK, Open, Taken, Alive, room, main, sockets
<1> QED BY <1>2, <1>5

LEMMA UnlockHeard ==
  ASSUME ChatInv, NEW i \in Slots, Unlock(i)
  PROVE  InboxOK' /\ HeardOK'
<1>1. /\ UNCHANGED <<room, sent, main, sockets>> /\ Alive /\ pc[i] = "write"
      /\ mutex' = NONE /\ cursor > MAX_CLIENTS
  BY DEF Unlock, At
<1>2. InboxOK'
  BY <1>1, InboxKept DEF ChatInv, sockets
<1>3. Open' = Open
  <2>1. \A k \in Slots : pc'[k] # "clear" <=> pc[k] # "clear"
    BY <1>1 DEF Unlock, Goto, TopOfLoop, ChatInv, SlotsInv, Shape
  <2> QED BY <1>1, <2>1 DEF Open, Taken, room
<1>4. \A k \in Slots : Reached(k)' = sent /\ Reached(k) = sent
  <2>1. cursor \in Int /\ MAX_CLIENTS \in Int
    BY ChatAssumption DEF ChatInv, SlotsInv, Shape
  <2> QED BY <1>1, <2>1 DEF Reached, Slots
<1>5. HeardOK'
  BY <1>1, <1>3, <1>4 DEF ChatInv, HeardOK, Open, Taken, Alive, room, main, sockets
<1> QED BY <1>2, <1>5

LEMMA CloseHeard ==
  ASSUME ChatInv, NEW i \in Slots, Close(i)
  PROVE  InboxOK' /\ HeardOK'
<1>1. UNCHANGED <<room, mutex, cursor, sent, main, peer, inbox>> /\ Alive /\ pc[i] = "close"
  BY DEF Close, At
<1>2. i \in Open
  BY <1>1 DEF ChatInv, SlotsInv, ThreadsOK, Open, Taken
<1>3. Open' = Open \ {i}
  <2>1. pc'[i] = "clear" /\ \A k \in Slots \ {i} : pc'[k] = pc[k]
    BY DEF Close, Goto, ChatInv, SlotsInv, Shape
  <2> QED BY <1>1, <2>1 DEF Open, Taken, room
<1>4. ASSUME swept = 0, NEW k \in Open \ {i}
      PROVE  fds'[clients[k]] = fds[clients[k]]
  <2>1. clients[k] # clients[i]
    BY <1>2, <1>4 DEF ChatInv, SlotsInv, FdsOK
  <2> QED BY <1>4, <2>1, OpenSlots DEF Close, Closed, ChatInv, SlotsInv, Shape
<1> QED BY <1>1, <1>3, <1>4, HeardKept, InboxKept DEF ChatInv, room, main

LEMMA ClearHeard ==
  ASSUME ChatInv, NEW i \in Slots, Clear(i)
  PROVE  InboxOK' /\ HeardOK'
<1>1. /\ UNCHANGED <<joined, mutex, cursor, sent, main, sockets>> /\ Alive /\ pc[i] = "clear"
  BY DEF Clear, At
<1>2. /\ clients'[i] = NONE /\ \A k \in Slots \ {i} : clients'[k] = clients[k] /\ pc'[k] = pc[k]
  BY DEF Clear, Goto, ChatInv, SlotsInv, Shape
<1>3. \A k \in Open' : k \in Open /\ clients'[k] = clients[k]
  BY <1>1, <1>2 DEF Open, Taken
<1> QED BY <1>1, <1>3, HeardKept, InboxKept DEF ChatInv, main, sockets

LEMMA SendHeard ==
  ASSUME ChatInv, NEW c \in Conns, Send(c)
  PROVE  InboxOK' /\ HeardOK'
<1>1. UNCHANGED <<room, threads, main, fds, peer, inbox>> /\ Alive
  BY DEF Send
<1>2. Open' = Open
  BY <1>1 DEF Open, Taken, room, threads
<1> QED BY <1>1, <1>2, HeardKept, InboxKept DEF ChatInv, room, threads, main

\* Who leaves hears nothing any more, and the others as much as before.
LEMMA LeaveHeard ==
  ASSUME ChatInv, NEW c \in Conns, Leave(c)
  PROVE  InboxOK' /\ HeardOK'
<1>1. UNCHANGED <<room, threads, main, fds>> /\ Alive
  BY DEF Leave
<1>2. /\ inbox'[c] = <<>> /\ \A d \in Conns \ {c} : inbox'[d] = inbox[d]
      /\ peer'[c] = "gone" /\ \A d \in Conns \ {c} : peer'[d] = peer[d]
  BY DEF Leave, ChatInv, SlotsInv, Shape
<1>3. InboxOK'
  <2>1. 1 .. Len(inbox'[c]) = {}
    BY <1>2
  <2> QED BY <1>1, <1>2, <2>1 DEF ChatInv, InboxOK, threads
<1>4. Open' = Open
  BY <1>1 DEF Open, Taken, room, threads
<1>5. HeardOK'
  <2> SUFFICES ASSUME Alive, swept = 0, NEW i \in Open, peer'[fds[clients[i]]] = "open",
                      NEW m \in Nat, joined[fds[clients[i]]] < m, m <= Reached(i)
               PROVE  \E k \in 1 .. Len(inbox'[fds[clients[i]]]) : inbox'[fds[clients[i]]][k] = m
    BY <1>1, <1>4 DEF HeardOK, Reached, Alive, room, threads, main
  <2>1. fds[clients[i]] \in Conns \ {c}
    BY <1>2, OpenSlots DEF ChatInv
  <2> QED BY <1>2, <2>1 DEF ChatInv, HeardOK
<1> QED BY <1>3, <1>5

\* The slot at the cursor, if its client is there, has the broadcast under way now.
LEMMA WriteHeard ==
  ASSUME ChatInv, NEW i \in Slots, Write(i)
  PROVE  InboxOK' /\ HeardOK'
<1>1. /\ UNCHANGED <<room, mutex, pc, sent, swept, fds, peer>> /\ Alive /\ cursor' = cursor + 1
      /\ mutex = i /\ mutex # NONE /\ cursor \in Slots /\ sent \in Nat
  BY DEF Write, At, ChatInv, SlotsInv, LockOK, Shape, Slots, NONE
<1>2. PICK d : d = Conn(cursor)
  OBVIOUS
<1>3. d # NONE => d \in Conns
  BY <1>1, <1>2 DEF Conn, ChatInv, SlotsInv, Shape
<1>4. inbox' = IF d # NONE /\ peer[d] = "open" THEN [inbox EXCEPT ![d] = Append(@, sent)] ELSE inbox
  BY <1>2 DEF Write
<1>5. \A c \in Conns : inbox[c] \in Seq(Nat)
  BY DEF ChatInv, SlotsInv, Shape
<1>6. \A c \in Conns : /\ Len(Append(inbox[c], sent)) = Len(inbox[c]) + 1
                       /\ \A k \in 1 .. Len(inbox[c]) : Append(inbox[c], sent)[k] = inbox[c][k]
                       /\ Append(inbox[c], sent)[Len(inbox[c]) + 1] = sent
  BY <1>1, <1>5, AppendProperties
<1>7. \A c \in Conns : \/ inbox'[c] = inbox[c] /\ ~(c = d /\ peer[c] = "open")
                       \/ inbox'[c] = Append(inbox[c], sent)
  BY <1>3, <1>4 DEF ChatInv, SlotsInv, Shape, NONE, Conns
<1>8. InboxOK'
  <2> SUFFICES ASSUME NEW c \in Conns
               PROVE  /\ \A k \in 1 .. Len(inbox'[c]) : inbox'[c][k] <= sent
                      /\ \A k, l \in 1 .. Len(inbox'[c]) : k < l => inbox'[c][k] <= inbox'[c][l]
    BY <1>1 DEF InboxOK
  <2>1. /\ \A k \in 1 .. Len(inbox[c]) : inbox[c][k] <= sent
        /\ \A k, l \in 1 .. Len(inbox[c]) : k < l => inbox[c][k] <= inbox[c][l]
    BY DEF ChatInv, InboxOK
  <2>2. Len(inbox[c]) \in Nat
    BY <1>5
  <2>3. CASE inbox'[c] = Append(inbox[c], sent)
    <3>1. \A k \in 1 .. Len(inbox[c]) + 1 : k \in 1 .. Len(inbox[c]) \/ k = Len(inbox[c]) + 1
      BY <2>2
    <3>2. sent <= sent
      BY <1>1
    <3>3. \A k, l \in 1 .. Len(inbox[c]) + 1 : k < l => k \in 1 .. Len(inbox[c])
      BY <2>2
    <3> QED BY <1>6, <2>1, <2>3, <3>1, <3>2, <3>3
  <2> QED BY <1>7, <2>1, <2>3
<1>9. HeardOK'
  <2> SUFFICES ASSUME swept = 0, NEW k \in Open, peer[fds[clients[k]]] = "open",
                      NEW m \in Nat, joined[fds[clients[k]]] < m, m <= Reached(k)'
               PROVE  \E l \in 1 .. Len(inbox'[fds[clients[k]]]) : inbox'[fds[clients[k]]][l] = m
    BY <1>1 DEF HeardOK, Open, Taken, Alive, room
  <2>1. PICK c \in Conns : c = fds[clients[k]]
    BY OpenSlots DEF ChatInv
  <2>2. k \in Slots /\ k \in Int /\ cursor \in Int /\ clients[k] # NONE
    BY <1>1 DEF Open, Taken, Slots
  <2>3. Len(inbox[c]) \in Nat
    BY <1>5
  <2>4. CASE m <= Reached(k)
    <3>1. PICK l \in 1 .. Len(inbox[c]) : inbox[c][l] = m
      BY <1>1, <2>1, <2>4 DEF ChatInv, HeardOK
    <3>2. l \in 1 .. Len(inbox[c]) + 1
      BY <2>3
    <3> QED BY <1>6, <1>7, <2>1, <3>1, <3>2
  <2>5. CASE ~(m <= Reached(k))
    <3>1. k = cursor /\ m = sent
      BY <1>1, <2>2, <2>5 DEF Reached
    <3>2. c = d
      BY <1>2, <2>1, <2>2, <3>1 DEF Conn
    <3>3. inbox'[c] = Append(inbox[c], sent)
      BY <1>7, <2>1, <3>2
    <3>4. Len(inbox[c]) + 1 \in 1 .. Len(inbox[c]) + 1
      BY <2>3
    <3> QED BY <1>6, <2>1, <3>1, <3>3, <3>4
  <2> QED BY <2>4, <2>5
<1> QED BY <1>8, <1>9

LEMMA ChatNext ==
  ASSUME ChatInv, [Next]_chatVars
  PROVE  ChatInv'
<1>1. SlotsInv'
  BY SlotsNext DEF ChatInv
<1>2. InboxOK' /\ HeardOK'
  <2>1. CASE Main
    BY <2>1, LoopHeard, RegisterHeard, RefuseHeard, SpawnHeard, CleanupHeard DEF Main
  <2>2. CASE close_server
    BY <2>2, CloseServerHeard
  <2>3. CASE \E i \in Slots : Thread(i)
    BY <2>3, ReadHeard, LockHeard, WriteHeard, UnlockHeard, CloseHeard, ClearHeard DEF Thread
  <2>4. CASE \E c \in Conns : Accept(c) \/ Send(c) \/ Leave(c)
    BY <2>4, AcceptHeard, SendHeard, LeaveHeard
  <2>5. CASE UNCHANGED chatVars
    BY <2>5 DEF ChatInv, InboxOK, HeardOK, Reached, Open, Taken, Alive,
       chatVars, room, threads, main, sockets
  <2> QED BY <2>1, <2>2, <2>3, <2>4, <2>5 DEF Next
<1> QED BY <1>1, <1>2 DEF ChatInv

LEMMA ChatInit == Init => ChatInv
<1> SUFFICES ASSUME Init PROVE ChatInv
  OBVIOUS
<1>1. SlotsInv
  BY SlotsInit
<1>2. \A c \in Conns : 1 .. Len(inbox[c]) = {}
  BY DEF Init
<1>3. InboxOK
  BY <1>2 DEF InboxOK
<1>4. Open = {}
  BY DEF Open, Taken, Init
<1>5. HeardOK
  BY <1>4 DEF HeardOK
<1> QED BY <1>1, <1>3, <1>5 DEF ChatInv

LEMMA ChatSuffices ==
  ASSUME ChatInv
  PROVE  HearsEverything
<1>1. \A c \in Conns : DOMAIN inbox[c] = 1 .. Len(inbox[c])
  BY DEF ChatInv, SlotsInv, Shape
<1>2. \A c \in Conns : \A k, l \in DOMAIN inbox[c] : k < l => inbox[c][k] <= inbox[c][l]
  BY <1>1 DEF ChatInv, InboxOK
<1>3. ASSUME mutex = NONE, Alive, swept = 0, NEW i \in Taken, pc[i] # "clear", peer[Conn(i)] = "open"
      PROVE  joined[Conn(i)] + 1 .. sent \subseteq ToSet(inbox[Conn(i)])
  <2>1. i \in Open /\ Conn(i) = fds[clients[i]]
    BY <1>3 DEF Open, Taken, Conn
  <2>2. PICK c \in Conns : c = Conn(i)
    BY <1>3, <2>1, OpenSlots DEF ChatInv
  <2>3. Reached(i) = sent
    BY <1>3 DEF Reached
  <2>4. joined[c] \in Nat /\ sent \in Nat
    BY DEF ChatInv, SlotsInv, Shape
  <2>5. ASSUME NEW m \in joined[c] + 1 .. sent
        PROVE  \E k \in 1 .. Len(inbox[c]) : inbox[c][k] = m
    <3>1. m \in Nat /\ joined[c] < m /\ m <= sent
      BY <2>4
    <3> QED BY <1>3, <2>1, <2>2, <2>3, <3>1 DEF ChatInv, HeardOK
  <2> QED BY <1>1, <2>2, <2>5 DEF ToSet
<1> QED BY <1>2, <1>3 DEF HearsEverything

\* server.c:164-178 against 208: whoever stays hears every broadcast since it was
\* given its slot, in the order of the mutex, for any number of slots, clients
\* and messages, although descriptors are closed and used again without the mutex.
THEOREM EveryoneHears == Spec => []HearsEverything
<1>1. ChatInv /\ [Next]_chatVars => ChatInv'
  BY ChatNext
<1>2. ChatInv => HearsEverything
  BY ChatSuffices
<1> QED BY ChatInit, <1>1, <1>2, PTL DEF Spec

---------------------------------------------------------------------------
(* The file server: what holds of its connections and files.               *)

Owners == Files!Requests \cup {Files!NULL}
Metadata == [header : BOOLEAN, offfsets : Nat, file_size : Nat,
             size_offfsets : Int, local_fd : Owners]
Inodes == [Files!Requests -> Seq(Owners)]
Answers == {"none", "OK", "ERROR", "silent"}

FileShape ==
  /\ req \in Seq(Files!Request) /\ Len(req) <= NumRequests
  /\ arrived \in Seq(Nat) /\ Len(arrived) = Len(req)
  /\ meta \in Seq(Metadata) /\ Len(meta) = Len(req)
  /\ reply \in Seq(Answers) /\ Len(reply) = Len(req)
  /\ file_vector \in Seq(Names)
  /\ disk \in [Names -> Owners] /\ data \in Inodes
  /\ lastPut \in [Names -> Owners]
  /\ running \in BOOLEAN /\ (running \/ req = <<>>)
  /\ late \subseteq DOMAIN req

\* What the metadata of a connection say of the units that have arrived.  For a
\* PUT that could not open its file, or got bytes late, they say little.
Progress(c) ==
  /\ meta[c].header => req[c].verb = "PUT"
  /\ ~meta[c].header => /\ meta[c].file_size = 0 /\ meta[c].size_offfsets = 0
                        /\ meta[c].local_fd = Files!NULL /\ c \notin late
                        /\ req[c].verb = "PUT" => reply[c] = "none"
                        /\ reply[c] = "none" => /\ arrived[c] < Files!Newline
                                                /\ meta[c].offfsets = arrived[c]
  /\ meta[c].header => meta[c].offfsets <= arrived[c]
  /\ c \in late => meta[c].offfsets < arrived[c]
  /\ meta[c].local_fd # Files!NULL => meta[c].size_offfsets \in Nat
  /\ meta[c].local_fd # Files!NULL /\ c \notin late /\ arrived[c] < Files!SizeEnd =>
       meta[c].offfsets = arrived[c] /\ meta[c].file_size = 0 /\ meta[c].size_offfsets = 0
  /\ meta[c].local_fd # Files!NULL /\ c \notin late /\ arrived[c] >= Files!SizeEnd =>
       /\ meta[c].offfsets = 0 /\ meta[c].file_size = req[c].size
       /\ meta[c].size_offfsets = arrived[c] - Files!SizeEnd
  /\ meta[c].header /\ reply[c] # "none" =>
       (reply[c] = "OK" <=> Files!SameInt(meta[c].size_offfsets, meta[c].file_size))
ProgressOK == \A c \in DOMAIN req : Progress(c)

\* c has opened, or created, the file n.
Opened(c, n) == /\ c \in DOMAIN req /\ req[c].verb = "PUT" /\ req[c].name = n
                /\ meta[c].local_fd # Files!NULL

\* An inode is named after a PUT of the one name it can be reached by, on disk
\* or through a descriptor that is still open after a DELETE.
InodesOK == running =>
  /\ \A n \in Names : disk[n] # Files!NULL => Opened(disk[n], n)
  /\ \A c \in DOMAIN req : meta[c].local_fd # Files!NULL =>
       Opened(c, req[c].name) /\ Opened(meta[c].local_fd, req[c].name)

\* The first len bytes of the file, and no more, are c's.
Holds(f, len, c) == Len(f) = len /\ \A k \in 1 .. len : f[k] = c

\* Who opened a name last, with nobody else at it, writes to the file on disk
\* alone, and has written all of it.
Lasting(c, n) ==
  /\ Opened(c, n)
  /\ reply[c] = "OK" => n \in Files!Listed
  /\ c \notin overlapped =>
       /\ disk[n] = meta[c].local_fd
       /\ Files!Writing(n) \subseteq {c}
       /\ Holds(data[disk[n]], meta[c].size_offfsets, c)
LastOK == running => \A n \in Names : lastPut[n] # Files!NULL => Lasting(lastPut[n], n)

FileInv == FileShape /\ ProgressOK /\ InodesOK /\ LastOK

---------------------------------------------------------------------------
(* Numbers and sequences.                                                  *)

\* vector_erase of the first name that matches moves up what stands behind it.
LEMMA RemoveFirstPlace ==
  ASSUME NEW S, NEW s \in Seq(S), NEW e \in Files!ToSet(s), NEW t, t = Files!RemoveFirst(s, e)
  PROVE  \E at \in 1 .. Len(s) :
           /\ s[at] = e /\ t \in Seq(S) /\ Len(t) = Len(s) - 1
           /\ \A k \in 1 .. Len(s) - 1 : t[k] = IF k < at THEN s[k] ELSE s[k + 1]
<1> DEFINE I == {i \in 1 .. Len(s) : s[i] = e}
           at == Files!SelectInSeq(s, LAMBDA v : v = e)
           left == SubSeq(s, 1, at - 1)
           right == SubSeq(s, at + 1, Len(s))
<1>1. \E i \in 1 .. Len(s) : s[i] = e
  BY LenProperties DEF Files!ToSet
<1>2. at \in I
  <2>1. I \in SUBSET Nat /\ I # {}
    BY <1>1
  <2>2. \E i \in I : \A j \in I : i <= j
    <3> HIDE DEF I
    <3> QED BY <2>1, LeastNumber
  <2>3. at = Files!Min(I)
    BY <2>1 DEF Files!SelectInSeq
  <2> HIDE DEF I, at
  <2> QED BY <2>2, <2>3 DEF Files!Min
<1>3. at \in 1 .. Len(s) /\ s[at] = e /\ Len(s) \in Nat
  <2> HIDE DEF at
  <2> QED BY <1>2
<1>4. t = left \o right
  <2> HIDE DEF at
  <2> QED BY <1>1 DEF Files!RemoveFirst, Files!RemoveAt, at
<1> HIDE DEF I, at
<1>5. /\ left \in Seq(S) /\ Len(left) = at - 1
      /\ \A k \in 1 .. at - 1 : left[k] = s[k]
  <2>1. 1 \in Int /\ at - 1 \in Int /\ \A k \in 1 .. at - 1 : s[k] \in S
    BY <1>3, ElementOfSeq
  <2>2. /\ left \in Seq(S) /\ Len(left) = IF 1 <= at - 1 THEN at - 1 - 1 + 1 ELSE 0
        /\ \A k \in 1 .. at - 1 - 1 + 1 : left[k] = s[1 + k - 1]
    BY <2>1, SubSeqProperties
  <2> HIDE DEF left
  <2> QED BY <1>3, <2>2
<1>6. /\ right \in Seq(S) /\ Len(right) = Len(s) - at
      /\ \A k \in 1 .. Len(s) - at : right[k] = s[at + k]
  <2>1. at + 1 \in Int /\ Len(s) \in Int /\ \A k \in at + 1 .. Len(s) : s[k] \in S
    BY <1>3, ElementOfSeq
  <2>2. /\ right \in Seq(S)
        /\ Len(right) = IF at + 1 <= Len(s) THEN Len(s) - (at + 1) + 1 ELSE 0
        /\ \A k \in 1 .. Len(s) - (at + 1) + 1 : right[k] = s[at + 1 + k - 1]
    BY <2>1, SubSeqProperties
  <2> HIDE DEF right
  <2> QED BY <1>3, <2>2
<1> HIDE DEF left, right
<1>7. /\ t \in Seq(S) /\ Len(t) = Len(left) + Len(right)
      /\ \A k \in 1 .. Len(left) + Len(right) : t[k] = IF k <= Len(left) THEN left[k] ELSE right[k - Len(left)]
  BY ONLY <1>4, <1>5, <1>6, ConcatProperties
<1>8. Len(t) = Len(s) - 1
  BY <1>3, <1>5, <1>6, <1>7
<1>9. ASSUME NEW k \in 1 .. Len(s) - 1 PROVE t[k] = IF k < at THEN s[k] ELSE s[k + 1]
  <2>1. k \in 1 .. Len(left) + Len(right) /\ k \in Int
    BY <1>7, <1>8
  <2>2. CASE k < at
    <3>1. k \in 1 .. at - 1 /\ k <= Len(left)
      BY <1>3, <1>5, <2>2
    <3> QED BY <1>5, <1>7, <2>1, <2>2, <3>1
  <2>3. CASE ~(k < at)
    <3>1. k - Len(left) \in 1 .. Len(s) - at /\ ~(k <= Len(left)) /\ at + (k - Len(left)) = k + 1
      BY <1>3, <1>5, <2>1, <2>3
    <3>2. t[k] = right[k - Len(left)]
      BY <1>7, <2>1, <3>1
    <3>3. right[k - Len(left)] = s[at + (k - Len(left))]
      BY <1>6, <3>1
    <3> QED BY <2>3, <3>1, <3>2, <3>3
  <2> QED BY <2>2, <2>3
<1> QED BY <1>3, <1>7, <1>8, <1>9

\* The other names stay; and where no name is twice, that one goes.
LEMMA RemoveFirstEffect ==
  ASSUME NEW S, NEW s \in Seq(S), NEW e
  PROVE  /\ Files!RemoveFirst(s, e) \in Seq(S)
         /\ \A x \in Files!ToSet(s) : x # e => x \in Files!ToSet(Files!RemoveFirst(s, e))
         /\ Files!IsInjective(s) => /\ Files!IsInjective(Files!RemoveFirst(s, e))
                                    /\ Files!ToSet(Files!RemoveFirst(s, e)) = Files!ToSet(s) \ {e}
<1>1. CASE e \in Files!ToSet(s)
  <2>1. PICK t : t = Files!RemoveFirst(s, e)
    OBVIOUS
  <2>2. PICK at \in 1 .. Len(s) :
             /\ s[at] = e /\ t \in Seq(S) /\ Len(t) = Len(s) - 1
             /\ \A k \in 1 .. Len(s) - 1 : t[k] = IF k < at THEN s[k] ELSE s[k + 1]
    BY <1>1, <2>1, RemoveFirstPlace
  <2>3. Len(s) \in Nat /\ DOMAIN s = 1 .. Len(s) /\ DOMAIN t = 1 .. Len(s) - 1
    BY <2>2, LenProperties
  <2>4. ASSUME NEW x \in Files!ToSet(s), x # e PROVE x \in Files!ToSet(t)
    <3>1. PICK i \in 1 .. Len(s) : s[i] = x
      BY <2>3 DEF Files!ToSet
    <3>2. PICK k : k = IF i < at THEN i ELSE i - 1
      OBVIOUS
    <3>3. i # at
      BY <2>2, <2>4, <3>1
    <3>4. k \in 1 .. Len(s) - 1 /\ t[k] = x
      BY <2>2, <2>3, <3>1, <3>2, <3>3
    <3> QED BY <2>3, <3>4 DEF Files!ToSet
  <2>5. ASSUME Files!IsInjective(s) PROVE Files!IsInjective(t) /\ Files!ToSet(t) = Files!ToSet(s) \ {e}
    <3>1. \A i, j \in 1 .. Len(s) : s[i] = s[j] => i = j
      BY <2>3, <2>5 DEF Files!IsInjective
    <3>2. ASSUME NEW k \in 1 .. Len(s) - 1
          PROVE  \E i \in 1 .. Len(s) : i = (IF k < at THEN k ELSE k + 1) /\ i # at /\ t[k] = s[i]
      BY <2>2, <2>3
    <3>3. ASSUME NEW k \in 1 .. Len(s) - 1, NEW l \in 1 .. Len(s) - 1, t[k] = t[l] PROVE k = l
      <4>1. PICK i \in 1 .. Len(s) : i = (IF k < at THEN k ELSE k + 1) /\ t[k] = s[i]
        BY <3>2
      <4>2. PICK j \in 1 .. Len(s) : j = (IF l < at THEN l ELSE l + 1) /\ t[l] = s[j]
        BY <3>2
      <4>3. i = j
        BY <3>1, <3>3, <4>1, <4>2
      <4> QED BY <2>3, <4>1, <4>2, <4>3
    <3>4. ASSUME NEW x \in Files!ToSet(t) PROVE x \in Files!ToSet(s) /\ x # e
      <4>1. PICK k \in 1 .. Len(s) - 1 : t[k] = x
        BY <2>3 DEF Files!ToSet
      <4>2. PICK i \in 1 .. Len(s) : i # at /\ t[k] = s[i]
        BY <3>2
      <4> QED BY <2>2, <2>3, <3>1, <4>1, <4>2 DEF Files!ToSet
    <3>5. Files!IsInjective(t)
      BY <2>3, <3>3 DEF Files!IsInjective
    <3>6. Files!ToSet(t) = Files!ToSet(s) \ {e}
      BY <2>4, <3>4
    <3> QED BY <3>5, <3>6
  <2> QED BY <2>1, <2>2, <2>4, <2>5
<1>2. CASE e \notin Files!ToSet(s)
  <2>1. ~\E i \in 1 .. Len(s) : s[i] = e
    BY <1>2, LenProperties DEF Files!ToSet
  <2>2. Files!RemoveFirst(s, e) = s
    BY <2>1 DEF Files!RemoveFirst
  <2> QED BY <1>2, <2>2
<1> QED BY <1>1, <1>2

---------------------------------------------------------------------------
(* The steps of the file server.                                           *)

LEMMA FileInit == Files!Init => FileInv
<1> SUFFICES ASSUME Files!Init PROVE FileInv
  OBVIOUS
<1> USE FilesOK DEF Files!FileServerAssumption, Files!Init, Files!NULL
<1>1. FileShape
  BY DEF FileShape, Owners, Inodes, Files!Requests, Files!NULL
<1>2. DOMAIN req = {}
  OBVIOUS
<1>3. ProgressOK /\ InodesOK /\ LastOK
  BY <1>2 DEF ProgressOK, InodesOK, LastOK
<1> QED BY <1>1, <1>3 DEF FileInv

\* write(2) at a position: other inodes stay, and at the end of an inode the
\* bytes are appended.
Appended(f, old, position, count, c) ==
  position = Len(old) =>
    /\ Len(f) = position + count
    /\ \A k \in 1 .. position + count : f[k] = IF k <= position THEN old[k] ELSE c

LEMMA WrittenEffect ==
  ASSUME NEW inodes \in Inodes, NEW i \in Files!Requests,
         NEW position \in Nat, NEW count \in Nat, NEW c \in Owners,
         data' = Files!Written(inodes, i, position, count, c)
  PROVE  \E f \in Seq(Owners) : /\ data' = [inodes EXCEPT ![i] = f]
                                 /\ Appended(f, inodes[i], position, count, c)
<1> DEFINE old == inodes[i]
           end == IF position + count > Len(old) THEN position + count ELSE Len(old)
           byte(k) == IF k \in position + 1 .. position + count THEN c
                      ELSE IF k <= Len(old) THEN old[k] ELSE Files!NULL
           f == [k \in 1 .. end |-> byte(k)]
<1>1. old \in Seq(Owners) /\ Len(old) \in Nat
  BY DEF Inodes
<1>2. end \in Nat
  BY <1>1
<1>3. \A k \in 1 .. end : byte(k) \in Owners
  <2> SUFFICES ASSUME NEW k \in 1 .. end PROVE byte(k) \in Owners
    OBVIOUS
  <2>1. k <= Len(old) => old[k] \in Owners
    BY <1>1, <1>2, ElementOfSeq
  <2> QED BY <2>1 DEF Owners
<1>4. f \in Seq(Owners)
  <2> HIDE DEF byte, end
  <2> QED BY <1>2, <1>3, IsASeq
<1>5. data' = [inodes EXCEPT ![i] = f]
  BY DEF Files!Written, Files!Requests, Files!NULL
<1>6. ASSUME position = Len(old)
      PROVE  /\ Len(f) = position + count
             /\ \A k \in 1 .. position + count : f[k] = IF k <= position THEN old[k] ELSE c
  <2>1. end = position + count
    BY <1>6, <1>1
  <2>2. Len(f) = end
    <3> HIDE DEF byte, end
    <3> QED BY <1>2
  <2> QED BY <1>6, <2>1, <2>2
<1> HIDE DEF f
<1> QED BY <1>4, <1>5, <1>6 DEF Appended

LEMMA AppendedHolds ==
  ASSUME NEW f, NEW old, NEW position \in Nat, NEW count \in Nat, NEW c,
         Holds(old, position, c), Appended(f, old, position, count, c)
  PROVE  Holds(f, position + count, c)
<1>1. position = Len(old) /\ \A k \in 1 .. position : old[k] = c
  BY DEF Holds
<1>2. /\ Len(f) = position + count
      /\ \A k \in 1 .. position + count : f[k] = IF k <= position THEN old[k] ELSE c
  BY <1>1 DEF Appended
<1>3. \A k \in 1 .. position + count : k <= position => k \in 1 .. position
  OBVIOUS
<1> QED BY <1>1, <1>2, <1>3 DEF Holds

\* What write_all_to_socket does to the inode of an open descriptor.
LEMMA WrittenHolds ==
  ASSUME NEW inodes \in Inodes, NEW i \in Files!Requests,
         NEW position \in Nat, NEW count \in Nat, NEW c \in Owners,
         data' = Files!Written(inodes, i, position, count, c)
  PROVE  /\ data' \in Inodes
         /\ \A j \in Files!Requests \ {i} : data'[j] = inodes[j]
         /\ Holds(inodes[i], position, c) => Holds(data'[i], position + count, c)
         /\ Files!Counted(i, count) = count
<1>1. PICK f \in Seq(Owners) : /\ data' = [inodes EXCEPT ![i] = f]
                                /\ Appended(f, inodes[i], position, count, c)
  BY WrittenEffect
<1>2. /\ data' \in Inodes /\ data'[i] = f
      /\ \A j \in Files!Requests \ {i} : data'[j] = inodes[j]
  BY <1>1 DEF Inodes
<1>3. PICK old : old = inodes[i]
  OBVIOUS
<1>4. Holds(old, position, c) => Holds(f, position + count, c)
  BY <1>1, <1>3, AppendedHolds
<1>5. Files!Counted(i, count) = count
  BY DEF Files!Counted, Files!Requests, Files!NULL
<1> QED BY <1>2, <1>3, <1>4, <1>5

\* What follows the size in the buffer is written once the size is whole.
LEMMA TakeSizeEffect ==
  ASSUME FileShape, NEW c \in DOMAIN req, NEW m \in Metadata, NEW inodes \in Inodes,
         NEW newline \in Nat, NEW size \in Nat, Files!TakeSize(c, m, inodes, newline, size)
  PROVE  /\ meta' \in Seq(Metadata) /\ Len(meta') = Len(meta)
         /\ \A d \in DOMAIN req \ {c} : meta'[d] = meta[d]
         /\ meta'[c].header = m.header /\ meta'[c].local_fd = m.local_fd
         /\ m.offfsets < newline + Files!SizeLen => meta'[c] = m /\ data' = inodes
         /\ m.offfsets >= newline + Files!SizeLen =>
              /\ meta'[c].offfsets = 0 /\ meta'[c].file_size = size
              /\ m.local_fd # Files!NULL =>
                   meta'[c].size_offfsets = m.size_offfsets + (m.offfsets - newline - Files!SizeLen)
         /\ m.local_fd = Files!NULL => data' = inodes
         /\ m.local_fd # Files!NULL /\ m.size_offfsets \in Nat =>
              /\ data' \in Inodes
              /\ \A i \in Files!Requests \ {m.local_fd} : data'[i] = inodes[i]
              /\ Holds(inodes[m.local_fd], m.size_offfsets, c) =>
                   Holds(data'[m.local_fd], meta'[c].size_offfsets, c)
<1> DEFINE rest == m.offfsets - newline - Files!SizeLen
           sum == m.size_offfsets + Files!Counted(m.local_fd, rest)
           full == [header |-> m.header, offfsets |-> 0, file_size |-> size,
                    size_offfsets |-> sum, local_fd |-> m.local_fd]
<1>1. /\ meta \in Seq(Metadata) /\ c \in 1 .. Len(meta) /\ DOMAIN req = 1 .. Len(meta)
      /\ c \in Owners
  BY FilesOK, LenProperties DEF FileShape, Owners, Files!Requests, Files!FileServerAssumption
<1>2. m.offfsets \in Nat /\ m.size_offfsets \in Int /\ newline + Files!SizeLen \in Nat
      /\ m.local_fd \in Owners
  BY DEF Metadata, Files!SizeLen
<1>3. CASE m.offfsets < newline + Files!SizeLen
  <2>1. meta' = [meta EXCEPT ![c] = m] /\ data' = inodes
    BY <1>3 DEF Files!TakeSize
  <2>2. /\ meta' \in Seq(Metadata) /\ Len(meta') = Len(meta) /\ meta'[c] = m
        /\ \A d \in DOMAIN req \ {c} : meta'[d] = meta[d]
    BY <1>1, <2>1, ExceptSeq
  <2>3. ~(m.offfsets >= newline + Files!SizeLen)
    BY <1>2, <1>3
  <2> QED BY <1>3, <2>1, <2>2, <2>3
<1>4. CASE ~(m.offfsets < newline + Files!SizeLen)
  <2>1. /\ meta' = [meta EXCEPT ![c] = full]
        /\ data' = Files!Written(inodes, m.local_fd, m.size_offfsets, rest, c)
    BY <1>4 DEF Files!TakeSize
  <2>2. rest \in Nat /\ sum \in Int
    BY <1>2, <1>4 DEF Files!Counted, Files!SizeLen
  <2>3. /\ full \in Metadata /\ full.offfsets = 0 /\ full.file_size = size
        /\ full.size_offfsets = sum /\ full.header = m.header /\ full.local_fd = m.local_fd
    <3> HIDE DEF sum
    <3> QED BY <2>2 DEF Metadata
  <2>4. /\ meta' \in Seq(Metadata) /\ Len(meta') = Len(meta) /\ meta'[c] = full
        /\ \A d \in DOMAIN req \ {c} : meta'[d] = meta[d]
    <3> HIDE DEF full
    <3> QED BY <1>1, <2>1, <2>3, ExceptSeq
  <2>5. m.local_fd = Files!NULL => data' = inodes
    BY <2>1 DEF Files!Written
  <2>6. ASSUME m.local_fd # Files!NULL, m.size_offfsets \in Nat
        PROVE  /\ data' \in Inodes
               /\ \A i \in Files!Requests \ {m.local_fd} : data'[i] = inodes[i]
               /\ Holds(inodes[m.local_fd], m.size_offfsets, c) => Holds(data'[m.local_fd], sum, c)
    <3>1. PICK i, position, count : i = m.local_fd /\ position = m.size_offfsets /\ count = rest
      OBVIOUS
    <3>2. i \in Files!Requests /\ position \in Nat /\ count \in Nat
      BY <1>2, <2>2, <2>6, <3>1 DEF Owners
    <3>3. /\ data' \in Inodes
          /\ \A j \in Files!Requests \ {i} : data'[j] = inodes[j]
          /\ Holds(inodes[i], position, c) => Holds(data'[i], position + count, c)
          /\ Files!Counted(i, count) = count
      BY <1>1, <2>1, <3>1, <3>2, WrittenHolds
    <3>4. sum = position + count
      BY <3>1, <3>3
    <3> HIDE DEF sum
    <3> QED BY <3>1, <3>3, <3>4
  <2>7. m.local_fd # Files!NULL => sum = m.size_offfsets + rest
    BY <2>2 DEF Files!Counted
  <2> HIDE DEF full, sum
  <2> QED BY <1>4, <2>3, <2>4, <2>5, <2>6, <2>7
<1> QED BY <1>3, <1>4

\* A request carries a size, which is 0 but for a PUT.
LEMMA RequestSize ==
  ASSUME NEW r \in Files!Request
  PROVE  r.size \in Nat /\ (r.verb = "PUT" => r.name \in Names)
<1>1. CASE r \in [verb : {"GET", "DELETE"}, name : Names, size : {0}]
  BY <1>1
<1>2. CASE r \in [verb : {"LIST", "V_UNKNOWN"}, name : {Files!NULL}, size : {0}]
  BY <1>2
<1>3. CASE r \in [verb : {"PUT"}, name : Names, size : PutSizes]
  BY <1>3, FilesOK DEF Files!FileServerAssumption
<1> QED BY <1>1, <1>2, <1>3 DEF Files!Request

\* What a read of count units is: a connection that has not been answered, with
\* no more units than it sends.
LEMMA MoreEffect ==
  ASSUME FileShape, NEW c \in Files!Requests, NEW count \in 1 .. Files!SizeEnd + MaxBody,
         Files!More(c, count)
  PROVE  /\ c \in DOMAIN req /\ DOMAIN req = 1 .. Len(req) /\ req[c] \in Files!Request
         /\ running /\ reply[c] = "none" /\ req' = req /\ running' = running
         /\ count \in Nat /\ count > 0 /\ arrived[c] \in Nat /\ meta[c] \in Metadata
         /\ arrived' \in Seq(Nat) /\ Len(arrived') = Len(req)
         /\ arrived'[c] = arrived[c] + count /\ arrived'[c] <= Files!Total(c)
         /\ \A d \in DOMAIN req \ {c} : arrived'[d] = arrived[d]
         /\ Files!Got(c, count) \in Metadata
         /\ LET m == Files!Got(c, count)
            IN  /\ m.header = meta[c].header /\ m.offfsets = meta[c].offfsets + count
                /\ m.file_size = meta[c].file_size /\ m.size_offfsets = meta[c].size_offfsets
                /\ m.local_fd = meta[c].local_fd
<1>1. /\ c \in DOMAIN reply /\ reply[c] = "none" /\ running
      /\ arrived' = [arrived EXCEPT ![c] = @ + count]
      /\ arrived[c] + count <= Files!Total(c) /\ req' = req /\ running' = running
  BY DEF Files!More, Files!Pending
<1>2. /\ DOMAIN req = 1 .. Len(req) /\ c \in 1 .. Len(req) /\ req[c] \in Files!Request
      /\ arrived[c] \in Nat /\ meta[c] \in Metadata
  BY <1>1, ElementOfSeq, LenProperties DEF FileShape
<1>3. count \in Nat /\ count > 0
  BY FilesOK DEF Files!FileServerAssumption, Files!SizeEnd, Files!SizeLen, Files!Newline
<1>4. /\ arrived' \in Seq(Nat) /\ Len(arrived') = Len(arrived) /\ arrived'[c] = arrived[c] + count
      /\ \A d \in DOMAIN req \ {c} : arrived'[d] = arrived[d]
  <2>1. arrived[c] + count \in Nat
    BY <1>2, <1>3
  <2> QED BY <1>1, <1>2, <2>1, ExceptSeq DEF FileShape
<1>5. /\ Files!Got(c, count) \in Metadata
      /\ LET m == Files!Got(c, count)
            IN  /\ m.header = meta[c].header /\ m.offfsets = meta[c].offfsets + count
                /\ m.file_size = meta[c].file_size /\ m.size_offfsets = meta[c].size_offfsets
                /\ m.local_fd = meta[c].local_fd
  BY <1>2, <1>3 DEF Metadata, Files!Got
<1> QED BY <1>1, <1>2, <1>3, <1>4, <1>5 DEF FileShape

\* A step that opens nothing and closes nothing leaves the inodes named.
LEMMA InodesKept ==
  ASSUME InodesOK, req' = req, running' = running, disk' = disk,
         \A c \in DOMAIN req : meta'[c].local_fd = meta[c].local_fd
  PROVE  InodesOK'
BY DEF InodesOK, Opened

\* A step that only answers leaves the files what they are.
LEMMA LastKept ==
  ASSUME LastOK, req' = req, running' = running, disk' = disk, data' = data,
         lastPut' = lastPut, overlapped' = overlapped,
         \A c \in DOMAIN req : /\ meta'[c].local_fd = meta[c].local_fd
                               /\ meta[c].local_fd # Files!NULL =>
                                    meta'[c].size_offfsets = meta[c].size_offfsets
                               /\ reply'[c] = "none" => reply[c] = "none"
                               /\ req[c].verb = "PUT" /\ reply'[c] = "OK" =>
                                    reply[c] = "OK" \/ req[c].name \in Files!Listed',
         Files!Listed \subseteq Files!Listed'
  PROVE  LastOK'
<1> SUFFICES ASSUME running', NEW n \in Names, lastPut'[n] # Files!NULL
             PROVE  Lasting(lastPut[n], n)'
  BY DEF LastOK
<1>0. PICK c : c = lastPut[n]
  OBVIOUS
<1>1. Lasting(c, n)
  BY <1>0 DEF LastOK
<1>2. c \in DOMAIN req /\ req[c].verb = "PUT" /\ req[c].name = n
  BY <1>1 DEF Lasting, Opened
<1>3. Opened(c, n)'
  BY <1>1, <1>2 DEF Lasting, Opened
<1>4. Files!Writing(n)' \subseteq Files!Writing(n)
  BY DEF Files!Writing
<1>5. meta'[c].local_fd = meta[c].local_fd /\ meta'[c].size_offfsets = meta[c].size_offfsets
  BY <1>1, <1>2 DEF Lasting, Opened
<1>6. reply'[c] = "OK" => n \in Files!Listed'
  BY <1>1, <1>2 DEF Lasting
<1>7. ASSUME c \notin overlapped'
      PROVE  /\ disk'[n] = meta'[c].local_fd
             /\ Files!Writing(n)' \subseteq {c}
             /\ Holds(data'[disk'[n]], meta'[c].size_offfsets, c)
  BY <1>1, <1>4, <1>5, <1>7 DEF Lasting
<1>8. Lasting(c, n)'
  BY <1>3, <1>6, <1>7 DEF Lasting
<1> QED BY <1>0, <1>8

LEMMA AcceptFile ==
  ASSUME FileInv, NEW r \in Files!Request, Files!accept_connections(r)
  PROVE  FileInv'
<1> DEFINE fresh == [header |-> FALSE, offfsets |-> 0, file_size |-> 0,
                     size_offfsets |-> 0, local_fd |-> Files!NULL]
<1>0. PICK new : new = Len(req) + 1
  OBVIOUS
<1>1. FileShape /\ Len(req) \in Nat /\ DOMAIN req = 1 .. Len(req)
  BY LenProperties DEF FileInv, FileShape
<1>2. /\ running /\ Len(req) < NumRequests /\ req' = Append(req, r) /\ arrived' = Append(arrived, 0)
      /\ meta' = Append(meta, fresh) /\ reply' = Append(reply, "none")
      /\ UNCHANGED <<file_vector, file_len, disk, data, running, lastPut, overlapped, again, late>>
  BY DEF Files!accept_connections, Files!files, Files!history
<1>3. fresh \in Metadata /\ fresh.header = FALSE /\ fresh.offfsets = 0 /\ fresh.file_size = 0
      /\ fresh.size_offfsets = 0 /\ fresh.local_fd = Files!NULL
  BY DEF Metadata, Owners
<1> HIDE DEF fresh
<1>4. /\ req' \in Seq(Files!Request) /\ Len(req') = new
      /\ arrived' \in Seq(Nat) /\ Len(arrived') = new
      /\ meta' \in Seq(Metadata) /\ Len(meta') = new
      /\ reply' \in Seq(Answers) /\ Len(reply') = new
      /\ DOMAIN req' = 1 .. new
      /\ \A d \in DOMAIN req : /\ d \in DOMAIN req' /\ req'[d] = req[d] /\ arrived'[d] = arrived[d]
                               /\ meta'[d] = meta[d] /\ reply'[d] = reply[d]
      /\ arrived'[new] = 0 /\ meta'[new] = fresh /\ reply'[new] = "none"
  <2>1. "none" \in Answers /\ 0 \in Nat
    BY DEF Answers
  <2>2. /\ req' \in Seq(Files!Request) /\ Len(req') = new
        /\ \A d \in 1 .. Len(req) : req'[d] = req[d]
    BY <1>0, <1>1, <1>2, AppendProperties DEF FileShape
  <2>3. /\ arrived' \in Seq(Nat) /\ Len(arrived') = new /\ arrived'[new] = 0
        /\ \A d \in 1 .. Len(req) : arrived'[d] = arrived[d]
    BY <1>0, <1>1, <1>2, <2>1, AppendProperties DEF FileShape
  <2>4. /\ meta' \in Seq(Metadata) /\ Len(meta') = new /\ meta'[new] = fresh
        /\ \A d \in 1 .. Len(req) : meta'[d] = meta[d]
    BY <1>0, <1>1, <1>2, <1>3, AppendProperties DEF FileShape
  <2>5. /\ reply' \in Seq(Answers) /\ Len(reply') = new /\ reply'[new] = "none"
        /\ \A d \in 1 .. Len(req) : reply'[d] = reply[d]
    BY <1>0, <1>1, <1>2, <2>1, AppendProperties DEF FileShape
  <2>6. DOMAIN req' = 1 .. new
    BY <2>2, LenProperties
  <2> QED BY <1>0, <1>1, <2>2, <2>3, <2>4, <2>5, <2>6
<1>5. DOMAIN req' = DOMAIN req \cup {new}
  BY <1>0, <1>1, <1>4
<1>6. FileShape'
  BY <1>0, <1>1, <1>2, <1>4, FilesOK DEF FileShape, Files!FileServerAssumption
<1>7. ProgressOK'
  <2>1. Progress(new)'
    <3>1. new \notin late'
      BY <1>0, <1>1, <1>2 DEF FileShape
    <3> QED BY <1>3, <1>4, <3>1 DEF Progress, Files!Newline
  <2>2. ASSUME NEW d \in DOMAIN req PROVE Progress(d)'
    <3>1. Progress(d)
      BY DEF FileInv, ProgressOK
    <3> QED BY <1>2, <1>4, <3>1 DEF Progress
  <2> QED BY <1>5, <2>1, <2>2 DEF ProgressOK
<1>8. \A c, n : Opened(c, n) => Opened(c, n)'
  BY <1>4 DEF Opened
<1>9. InodesOK'
  BY <1>2, <1>3, <1>4, <1>5, <1>8 DEF FileInv, InodesOK
<1>10. \A n \in Names : Files!Writing(n)' \subseteq Files!Writing(n)
  BY <1>3, <1>4, <1>5 DEF Files!Writing
<1>11. Files!Listed' = Files!Listed
  BY <1>2 DEF Files!Listed
<1>12. ASSUME NEW n \in Names, lastPut[n] # Files!NULL
       PROVE  Lasting(lastPut[n], n)'
  <2>0. PICK c : c = lastPut[n]
    OBVIOUS
  <2>1. Lasting(c, n)
    BY <1>2, <1>12, <2>0 DEF FileInv, LastOK
  <2>2. c \in DOMAIN req /\ lastPut'[n] = c
    BY <1>2, <2>0, <2>1 DEF Lasting, Opened
  <2>3. Lasting(c, n)'
    BY <1>2, <1>4, <1>8, <1>10, <1>11, <2>1, <2>2 DEF Lasting
  <2> QED BY <1>2, <2>0, <2>3
<1>13. LastOK'
  BY <1>2, <1>12 DEF LastOK
<1> QED BY <1>6, <1>7, <1>9, <1>13 DEF FileInv

LEMMA AnswerEffect ==
  ASSUME FileShape, NEW c \in DOMAIN req, NEW a \in Answers, Files!Answer(c, a)
  PROVE  /\ reply' \in Seq(Answers) /\ Len(reply') = Len(req) /\ reply'[c] = a
         /\ \A d \in DOMAIN req \ {c} : reply'[d] = reply[d]
<1>1. /\ reply \in Seq(Answers) /\ c \in 1 .. Len(reply) /\ DOMAIN req = 1 .. Len(reply)
      /\ reply' = [reply EXCEPT ![c] = a] /\ Len(reply) = Len(req)
  BY LenProperties DEF FileShape, Files!Answer
<1> QED BY <1>1, ExceptSeq

LEMMA HeaderIncompleteFile ==
  ASSUME FileInv, NEW c \in Files!Requests, NEW count \in 1 .. Files!SizeEnd + MaxBody,
         Files!HeaderIncomplete(c, count)
  PROVE  FileInv'
<1>1. /\ Files!More(c, count) /\ ~meta[c].header /\ arrived'[c] < Files!Newline
      /\ meta' = [meta EXCEPT ![c] = Files!Got(c, count)]
      /\ UNCHANGED <<reply, file_vector, file_len, disk, data, lastPut, overlapped, again, late>>
  BY DEF Files!HeaderIncomplete, Files!files, Files!history
<1>2. FileShape /\ ProgressOK /\ InodesOK /\ LastOK
  BY DEF FileInv
<1>3. /\ c \in DOMAIN req /\ DOMAIN req = 1 .. Len(req) /\ reply[c] = "none" /\ req' = req
      /\ running' = running /\ count \in Nat /\ arrived[c] \in Nat
      /\ arrived' \in Seq(Nat) /\ Len(arrived') = Len(req) /\ arrived'[c] = arrived[c] + count
      /\ \A d \in DOMAIN req \ {c} : arrived'[d] = arrived[d]
      /\ meta[c] \in Metadata /\ Files!Got(c, count) \in Metadata
      /\ LET m == Files!Got(c, count)
            IN  /\ m.header = meta[c].header /\ m.offfsets = meta[c].offfsets + count
                /\ m.file_size = meta[c].file_size /\ m.size_offfsets = meta[c].size_offfsets
                /\ m.local_fd = meta[c].local_fd
  BY <1>1, <1>2, MoreEffect
<1>4. /\ meta' \in Seq(Metadata) /\ Len(meta') = Len(req) /\ meta'[c] = Files!Got(c, count)
      /\ \A d \in DOMAIN req \ {c} : meta'[d] = meta[d]
  <2>1. meta \in Seq(Metadata) /\ c \in 1 .. Len(meta) /\ Len(meta) = Len(req)
    BY <1>2, <1>3 DEF FileShape
  <2> QED BY <1>1, <1>3, <2>1, ExceptSeq
<1>5. FileShape'
  BY <1>1, <1>2, <1>3, <1>4 DEF FileShape
<1>6. ProgressOK'
  <2>1. Progress(c)'
    <3>1. Progress(c)
      BY <1>2, <1>3 DEF ProgressOK
    <3>2. meta[c].offfsets = arrived[c] /\ meta[c].offfsets + count = arrived[c] + count
      BY <1>1, <1>3, <3>1 DEF Progress
    <3> QED BY <1>1, <1>3, <1>4, <3>1, <3>2 DEF Progress
  <2>2. ASSUME NEW d \in DOMAIN req \ {c} PROVE Progress(d)'
    <3>1. /\ Progress(d) /\ req'[d] = req[d] /\ arrived'[d] = arrived[d]
          /\ meta'[d] = meta[d] /\ reply'[d] = reply[d] /\ (d \in late' <=> d \in late)
      BY <1>1, <1>2, <1>3, <1>4 DEF ProgressOK
    <3> QED BY <3>1 DEF Progress
  <2> QED BY <1>3, <2>1, <2>2 DEF ProgressOK
<1>7. \A d \in DOMAIN req : /\ meta'[d].header = meta[d].header /\ meta'[d].local_fd = meta[d].local_fd
                            /\ meta'[d].size_offfsets = meta[d].size_offfsets
  BY <1>3, <1>4
<1>8. InodesOK'
  BY <1>1, <1>2, <1>3, <1>7, InodesKept
<1>9. LastOK'
  <2>1. Files!Listed' = Files!Listed
    BY <1>1 DEF Files!Listed
  <2> QED BY <1>1, <1>2, <1>3, <1>7, <2>1, LastKept
<1> QED BY <1>5, <1>6, <1>8, <1>9 DEF FileInv

\* The verbs that end a connection at once, and the end of a PUT that does not
\* list its name.
LEMMA AnswerFile ==
  ASSUME FileInv, NEW c \in DOMAIN req, NEW a \in Answers, a # "none", Files!Answer(c, a),
         UNCHANGED <<req, meta, disk, data, running, lastPut, overlapped, late>>,
         reply[c] = "none",
         arrived' \in Seq(Nat), Len(arrived') = Len(req),
         \A d \in DOMAIN req \ {c} : arrived'[d] = arrived[d],
         file_vector' \in Seq(Names), Files!Listed \subseteq Files!Listed',
         \/ req[c].verb # "PUT" /\ arrived'[c] \in Nat
         \/ /\ arrived' = arrived /\ meta[c].header
            /\ a = "OK" <=> Files!SameInt(meta[c].size_offfsets, meta[c].file_size)
            /\ a = "OK" => req[c].name \in Files!Listed'
  PROVE  FileInv'
<1>1. FileShape /\ ProgressOK /\ InodesOK /\ LastOK
  BY DEF FileInv
<1>2. /\ reply' \in Seq(Answers) /\ Len(reply') = Len(req) /\ reply'[c] = a
      /\ \A d \in DOMAIN req \ {c} : reply'[d] = reply[d]
  BY <1>1, AnswerEffect
<1>3. FileShape'
  BY <1>1, <1>2 DEF FileShape
<1>4. ProgressOK'
  <2>1. Progress(c)'
    BY <1>1, <1>2 DEF ProgressOK, Progress
  <2>2. ASSUME NEW d \in DOMAIN req \ {c} PROVE Progress(d)'
    <3>1. /\ Progress(d) /\ req'[d] = req[d] /\ arrived'[d] = arrived[d]
          /\ meta'[d] = meta[d] /\ reply'[d] = reply[d] /\ (d \in late' <=> d \in late)
      BY <1>1, <1>2 DEF ProgressOK
    <3> QED BY <3>1 DEF Progress
  <2> QED BY <2>1, <2>2 DEF ProgressOK
<1>5. InodesOK'
  BY <1>1, InodesKept
<1>6. \A d \in DOMAIN req : /\ reply'[d] = "none" => reply[d] = "none"
                            /\ req[d].verb = "PUT" /\ reply'[d] = "OK" =>
                                 reply[d] = "OK" \/ req[d].name \in Files!Listed'
  BY <1>2
<1>7. LastOK'
  BY <1>1, <1>6, LastKept
<1> QED BY <1>3, <1>4, <1>5, <1>7 DEF FileInv

LEMMA OnlyAnswerFile ==
  ASSUME FileInv, NEW c \in Files!Requests, NEW count \in 1 .. Files!SizeEnd + MaxBody,
         Files!OnlyAnswer(c, count)
  PROVE  FileInv'
<1>1. PICK a \in {"OK", "ERROR"} : Files!Answer(c, a) /\ Files!More(c, count) /\ req[c].verb # "PUT"
  BY DEF Files!OnlyAnswer, Files!Parsed
<1>2. UNCHANGED <<meta, file_vector, disk, data, lastPut, overlapped, late>>
  BY DEF Files!OnlyAnswer, Files!files, Files!history
<1>3. a \in Answers /\ a # "none" /\ FileShape
  BY DEF Answers, FileInv
<1>4. /\ c \in DOMAIN req /\ reply[c] = "none" /\ req' = req /\ running' = running
      /\ arrived' \in Seq(Nat) /\ Len(arrived') = Len(req) /\ arrived'[c] \in Nat
      /\ \A d \in DOMAIN req \ {c} : arrived'[d] = arrived[d]
  BY <1>1, <1>3, MoreEffect
<1>5. file_vector' \in Seq(Names) /\ Files!Listed \subseteq Files!Listed'
  BY <1>2, <1>3 DEF FileShape, Files!Listed
<1> QED BY <1>1, <1>2, <1>3, <1>4, <1>5, AnswerFile

LEMMA PutSucceedsFile ==
  ASSUME FileInv, NEW c \in Files!Requests, Files!PutSucceeds(c)
  PROVE  FileInv'
<1>1. /\ c \in DOMAIN reply /\ reply[c] = "none" /\ req[c].verb = "PUT" /\ meta[c].header
      /\ Files!SameInt(meta[c].size_offfsets, meta[c].file_size) /\ Files!Answer(c, "OK")
      /\ file_vector' = IF req[c].name \in Files!Listed THEN file_vector
                        ELSE Append(file_vector, req[c].name)
      /\ UNCHANGED <<req, arrived, meta, disk, data, running, lastPut, overlapped, late>>
  BY DEF Files!PutSucceeds, Files!Pending
<1>2. FileShape
  BY DEF FileInv
<1>3. c \in DOMAIN req /\ req[c] \in Files!Request
  BY <1>1, <1>2, LenProperties, ElementOfSeq DEF FileShape
<1>4. req[c].name \in Names
  BY <1>1, <1>3 DEF Files!Request
<1>5. file_vector' \in Seq(Names) /\ Files!Listed \subseteq Files!Listed' /\ req[c].name \in Files!Listed'
  <2>1. CASE req[c].name \in Files!Listed
    BY <1>1, <1>2, <2>1 DEF FileShape, Files!Listed
  <2>2. CASE req[c].name \notin Files!Listed
    <3>1. /\ file_vector \in Seq(Names) /\ file_vector' = Append(file_vector, req[c].name)
          /\ Len(file_vector) \in Nat
      BY <1>1, <1>2, <2>2, LenProperties DEF FileShape
    <3>2. /\ file_vector' \in Seq(Names) /\ Len(file_vector') = Len(file_vector) + 1
          /\ file_vector'[Len(file_vector) + 1] = req[c].name
          /\ \A i \in 1 .. Len(file_vector) : file_vector'[i] = file_vector[i]
      BY <1>4, <3>1, AppendProperties
    <3>3. DOMAIN file_vector = 1 .. Len(file_vector) /\ DOMAIN file_vector' = 1 .. Len(file_vector) + 1
      BY <3>1, <3>2, LenProperties
    <3> QED BY <3>1, <3>2, <3>3 DEF Files!Listed, Files!ToSet
  <2> QED BY <2>1, <2>2
<1>6. "OK" \in Answers
  BY DEF Answers
<1>7. arrived' \in Seq(Nat) /\ Len(arrived') = Len(req)
  BY <1>1, <1>2 DEF FileShape
<1> QED BY <1>1, <1>3, <1>5, <1>6, <1>7, AnswerFile

LEMMA PutFailsFile ==
  ASSUME FileInv, NEW c \in Files!Requests, Files!PutFails(c)
  PROVE  FileInv'
<1>1. /\ c \in DOMAIN reply /\ reply[c] = "none" /\ req[c].verb = "PUT" /\ meta[c].header
      /\ ~Files!SameInt(meta[c].size_offfsets, meta[c].file_size) /\ Files!Answer(c, "ERROR")
      /\ UNCHANGED <<req, arrived, meta, file_vector, disk, data, running, lastPut, overlapped, late>>
  BY DEF Files!PutFails, Files!Pending, Files!files, Files!history
<1>2. FileShape
  BY DEF FileInv
<1>3. c \in DOMAIN req
  BY <1>1, <1>2, LenProperties DEF FileShape
<1>4. "ERROR" \in Answers /\ "ERROR" # "none" /\ "ERROR" # "OK"
  BY DEF Answers
<1>5. /\ arrived' \in Seq(Nat) /\ Len(arrived') = Len(req)
      /\ file_vector' \in Seq(Names) /\ Files!Listed \subseteq Files!Listed'
  BY <1>1, <1>2 DEF FileShape, Files!Listed
<1> QED BY <1>1, <1>3, <1>4, <1>5, AnswerFile

\* Nothing is claimed of what is left on disk.
LEMMA GoneFile ==
  ASSUME FileInv, Files!Gone, disk' \in [Names -> Owners], data' \in Inodes
  PROVE  FileInv'
<1>1. /\ running' = FALSE /\ req' = <<>> /\ arrived' = <<>> /\ meta' = <<>> /\ reply' = <<>>
      /\ file_vector' = <<>> /\ lastPut' = [n \in Names |-> Files!NULL] /\ late' = {}
  BY DEF Files!Gone
<1>2. DOMAIN req' = {}
  BY <1>1
<1>3. lastPut' \in [Names -> Owners]
  BY <1>1 DEF Owners
<1>4. FileShape'
  <2>1. /\ <<>> \in Seq(Files!Request) /\ <<>> \in Seq(Nat) /\ <<>> \in Seq(Metadata)
        /\ <<>> \in Seq(Answers) /\ <<>> \in Seq(Names) /\ Len(<<>>) = 0
    BY EmptySeq
  <2>2. 0 <= NumRequests
    BY FilesOK DEF Files!FileServerAssumption
  <2>3. FALSE \in BOOLEAN /\ {} \subseteq DOMAIN req'
    OBVIOUS
  <2> QED BY <1>1, <1>3, <2>1, <2>2, <2>3, Zenon DEF FileShape
<1>5. ProgressOK' /\ InodesOK' /\ LastOK'
  BY <1>1, <1>2 DEF ProgressOK, InodesOK, LastOK
<1> QED BY <1>4, <1>5 DEF FileInv

LEMMA CrashFile ==
  ASSUME FileInv, NEW c \in Files!Requests, Files!Crash(c)
  PROVE  FileInv'
<1>1. Files!Gone /\ disk' \in [Names -> Owners] /\ data' \in Inodes
  BY DEF Files!Crash, FileInv, FileShape
<1> QED BY <1>1, GoneFile

LEMMA CleanupFile ==
  ASSUME FileInv, Files!final_cleanup
  PROVE  FileInv'
<1>1. /\ Files!Gone
      /\ disk' = [n \in Names |-> IF n \in Files!Listed THEN Files!NULL ELSE disk[n]]
      /\ data' = [i \in Files!Requests |-> IF \E n \in Names : disk'[n] = i THEN data[i] ELSE <<>>]
  BY DEF Files!final_cleanup
<1>2. disk' \in [Names -> Owners]
  BY <1>1 DEF FileInv, FileShape, Owners
<1>3. data' \in Inodes
  BY <1>1 DEF FileInv, FileShape, Inodes
<1> QED BY <1>1, <1>2, <1>3, GoneFile

\* A name that is deleted has no last PUT, and a PUT that was under way counts
\* as overlapped.
LEMMA DeleteFile ==
  ASSUME FileInv, NEW c \in Files!Requests, NEW count \in 1 .. Files!SizeEnd + MaxBody,
         Files!deleteinserver(c, count)
  PROVE  FileInv'
<1>1. FileShape /\ ProgressOK /\ InodesOK /\ LastOK
  BY DEF FileInv
<1>2. /\ Files!More(c, count) /\ req[c].verb = "DELETE" /\ UNCHANGED <<meta, data, again, late>>
  BY DEF Files!deleteinserver, Files!Parsed
<1>3. /\ c \in DOMAIN req /\ reply[c] = "none" /\ req' = req /\ running' = running
      /\ arrived' \in Seq(Nat) /\ Len(arrived') = Len(req) /\ arrived'[c] \in Nat
      /\ req[c] \in Files!Request /\ \A d \in DOMAIN req \ {c} : arrived'[d] = arrived[d]
  BY <1>1, <1>2, MoreEffect
<1>4. PICK n : n = req[c].name
  OBVIOUS
<1>5. n \in Names
  BY <1>2, <1>3, <1>4 DEF Files!Request
<1>6. CASE n \notin Files!Listed
  <2>1. /\ Files!Answer(c, "ERROR")
        /\ UNCHANGED <<file_vector, file_len, disk, lastPut, overlapped>>
    BY <1>4, <1>6 DEF Files!deleteinserver
  <2>2. "ERROR" \in Answers /\ "ERROR" # "none"
    BY DEF Answers
  <2>3. file_vector' \in Seq(Names) /\ Files!Listed \subseteq Files!Listed'
    BY <1>1, <2>1 DEF FileShape, Files!Listed
  <2> QED BY <1>2, <1>3, <2>1, <2>2, <2>3, AnswerFile
<1>7. CASE n \in Files!Listed
  <2>1. PICK a \in {"silent", "OK"} : Files!Answer(c, a)
    BY <1>4, <1>7 DEF Files!deleteinserver
  <2>2. /\ file_vector' = Files!RemoveFirst(file_vector, n)
        /\ disk' = [disk EXCEPT ![n] = Files!NULL]
        /\ lastPut' = [lastPut EXCEPT ![n] = Files!NULL]
        /\ overlapped' = overlapped \cup Files!Writing(n)
    BY <1>4, <1>7 DEF Files!deleteinserver
  <2>3. a \in Answers /\ a # "none"
    BY DEF Answers
  <2>4. /\ reply' \in Seq(Answers) /\ Len(reply') = Len(req) /\ reply'[c] = a
        /\ \A d \in DOMAIN req \ {c} : reply'[d] = reply[d]
    BY <1>1, <1>3, <2>1, <2>3, AnswerEffect
  <2>5. file_vector' \in Seq(Names) /\ \A x \in Files!Listed : x # n => x \in Files!Listed'
    BY <1>1, <2>2, RemoveFirstEffect DEF FileShape, Files!Listed
  <2>6. /\ disk' \in [Names -> Owners] /\ lastPut' \in [Names -> Owners]
        /\ disk'[n] = Files!NULL /\ lastPut'[n] = Files!NULL
        /\ \A m \in Names \ {n} : disk'[m] = disk[m] /\ lastPut'[m] = lastPut[m]
    BY <1>1, <1>5, <2>2 DEF FileShape, Owners
  <2>7. FileShape'
    BY <1>1, <1>2, <1>3, <2>4, <2>5, <2>6 DEF FileShape
  <2>8. ProgressOK'
    <3>1. Progress(c)'
      BY <1>1, <1>2, <1>3, <2>3, <2>4 DEF ProgressOK, Progress
    <3>2. ASSUME NEW d \in DOMAIN req \ {c} PROVE Progress(d)'
      <4>1. /\ Progress(d) /\ req'[d] = req[d] /\ arrived'[d] = arrived[d]
            /\ meta'[d] = meta[d] /\ reply'[d] = reply[d] /\ (d \in late' <=> d \in late)
        BY <1>1, <1>2, <1>3, <2>4 DEF ProgressOK
      <4> QED BY <4>1 DEF Progress
    <3> QED BY <1>3, <3>1, <3>2 DEF ProgressOK
  <2>9. InodesOK'
    BY <1>1, <1>2, <1>3, <2>6 DEF InodesOK, Opened
  <2>10. ASSUME running', NEW m \in Names, lastPut'[m] # Files!NULL PROVE Lasting(lastPut[m], m)'
    <3>1. PICK e : e = lastPut[m]
      OBVIOUS
    <3>2. m # n /\ lastPut'[m] = e /\ Lasting(e, m) /\ disk'[m] = disk[m]
      BY <1>1, <1>3, <2>6, <2>10, <3>1 DEF LastOK
    <3>3. e \in DOMAIN req /\ e # c /\ Opened(e, m) /\ Opened(e, m)'
      BY <1>2, <1>3, <3>2 DEF Lasting, Opened
    <3>4. Files!Writing(m)' \subseteq Files!Writing(m)
      BY <1>2, <1>3, <2>3, <2>4 DEF Files!Writing
    <3>5. Lasting(e, m)'
      BY <1>2, <1>3, <2>2, <2>4, <2>5, <3>2, <3>3, <3>4 DEF Lasting
    <3> QED BY <3>2, <3>5
  <2>11. LastOK'
    BY <2>10 DEF LastOK
  <2> QED BY <2>7, <2>8, <2>9, <2>11 DEF FileInv
<1> QED BY <1>6, <1>7

\* Writing to an inode of one name leaves the files of the others.
LEMMA OthersLast ==
  ASSUME FileInv, running, NEW c \in DOMAIN req, NEW i \in Files!Requests,
         UNCHANGED <<req, reply, file_vector, running>>, overlapped \subseteq overlapped',
         \A d \in DOMAIN req \ {c} : meta'[d] = meta[d],
         \A j \in Files!Requests \ {i} : data'[j] = data[j],
         NEW m \in Names, m # req[c].name, disk[m] # i,
         disk'[m] = disk[m], lastPut'[m] = lastPut[m], lastPut[m] # Files!NULL
  PROVE  Lasting(lastPut[m], m)'
<1>1. FileShape /\ InodesOK /\ LastOK
  BY DEF FileInv
<1>2. PICK e : e = lastPut[m]
  OBVIOUS
<1>3. Lasting(e, m)
  BY <1>1, <1>2 DEF LastOK
<1>4. e \in DOMAIN req /\ e # c /\ meta'[e] = meta[e] /\ Opened(e, m) /\ Opened(e, m)'
  BY <1>3 DEF Lasting, Opened
<1>5. Files!Writing(m)' \subseteq Files!Writing(m)
  BY DEF Files!Writing
<1>6. disk[m] = meta[e].local_fd => disk[m] \in Files!Requests /\ data'[disk[m]] = data[disk[m]]
  <2>1. Opened(meta[e].local_fd, req[e].name)
    BY <1>1, <1>4 DEF InodesOK, Opened
  <2>2. meta[e].local_fd \in 1 .. Len(req) /\ Len(req) \in Nat
    BY <1>1, <2>1, LenProperties DEF Opened, FileShape
  <2>3. meta[e].local_fd \in Files!Requests
    BY <1>1, <2>2, FilesOK DEF FileShape, Files!Requests, Files!FileServerAssumption
  <2> QED BY <2>3
<1>7. Files!Listed' = Files!Listed
  BY DEF Files!Listed
<1>8. Lasting(e, m)'
  BY <1>3, <1>4, <1>5, <1>6, <1>7 DEF Lasting
<1>9. lastPut'[m] = e
  BY <1>2
<1> QED BY <1>2, <1>8, <1>9

\* The open of a PUT empties the file.
LEMMA PutFile ==
  ASSUME FileInv, NEW c \in Files!Requests, NEW count \in 1 .. Files!SizeEnd + MaxBody,
         Files!putinserver(c, count)
  PROVE  FileInv'
<1>1. FileShape /\ ProgressOK /\ InodesOK /\ LastOK
  BY DEF FileInv
<1>2. PICK n : n = req[c].name
  OBVIOUS
<1>3. PICK inode : inode = IF disk[n] = Files!NULL THEN c ELSE disk[n]
  OBVIOUS
<1>4. PICK others : others = Files!Writing(n)
  OBVIOUS
<1>5. PICK m : m = [Files!Got(c, count) EXCEPT !.header = TRUE, !.local_fd = inode]
  OBVIOUS
<1>6. PICK inodes : inodes = [data EXCEPT ![inode] = <<>>]
  OBVIOUS
<1>7. /\ Files!More(c, count) /\ ~meta[c].header /\ arrived'[c] >= Files!Newline
      /\ req[c].verb = "PUT"
      /\ disk' = [disk EXCEPT ![n] = inode]
      /\ Files!TakeSize(c, m, inodes, Files!Newline, req[c].size)
      /\ lastPut' = [lastPut EXCEPT ![n] = c]
      /\ overlapped' = overlapped \cup (IF others = {} THEN {} ELSE others \cup {c})
      /\ UNCHANGED <<reply, file_vector, file_len, again, late>>
  BY <1>2, <1>3, <1>4, <1>5, <1>6, Zenon DEF Files!putinserver, Files!Parsed
<1>8. /\ c \in DOMAIN req /\ DOMAIN req = 1 .. Len(req) /\ running /\ reply[c] = "none" /\ req' = req
      /\ running' = running /\ count \in Nat /\ arrived[c] \in Nat /\ req[c] \in Files!Request
      /\ arrived' \in Seq(Nat) /\ Len(arrived') = Len(req) /\ arrived'[c] = arrived[c] + count
      /\ \A d \in DOMAIN req \ {c} : arrived'[d] = arrived[d]
      /\ Files!Got(c, count) \in Metadata
      /\ LET g == Files!Got(c, count)
         IN  /\ g.offfsets = meta[c].offfsets + count /\ g.file_size = meta[c].file_size
             /\ g.size_offfsets = meta[c].size_offfsets
  BY <1>1, <1>7, MoreEffect
<1>9. n \in Names /\ req[c].size \in Nat
  <2>1. req[c] \in Files!Request /\ req[c].verb = "PUT" /\ n = req[c].name
    BY <1>2, <1>7, <1>8
  <2> QED BY <2>1, RequestSize
<1>10. inode \in Files!Requests /\ (disk[n] # Files!NULL => inode = disk[n])
  BY <1>1, <1>3, <1>9 DEF FileShape, Owners
<1>11. /\ m \in Metadata /\ m.header = TRUE /\ m.local_fd = inode /\ m.offfsets = arrived'[c]
       /\ m.file_size = 0 /\ m.size_offfsets = 0
  <2>1. PICK g \in Metadata : /\ g = Files!Got(c, count) /\ g.offfsets = meta[c].offfsets + count
                             /\ g.file_size = meta[c].file_size /\ g.size_offfsets = meta[c].size_offfsets
    BY <1>8
  <2>2. /\ meta[c].offfsets = arrived[c] /\ meta[c].file_size = 0 /\ meta[c].size_offfsets = 0
    BY <1>1, <1>7, <1>8 DEF ProgressOK, Progress
  <2>3. PICK h : h = [g EXCEPT !.header = TRUE]
    OBVIOUS
  <2>4. /\ h \in Metadata /\ h.header = TRUE /\ h.offfsets = g.offfsets /\ h.file_size = g.file_size
        /\ h.size_offfsets = g.size_offfsets
    BY <2>3 DEF Metadata
  <2>5. m = [h EXCEPT !.local_fd = inode]
    BY <1>5, <2>1, <2>3
  <2> QED BY <1>8, <1>10, <2>1, <2>2, <2>4, <2>5 DEF Metadata, Owners
<1>12. inodes \in Inodes /\ inodes[inode] = <<>> /\ \A j \in Files!Requests \ {inode} : inodes[j] = data[j]
  <2>1. <<>> \in Seq(Owners) /\ data \in Inodes
    BY <1>1, EmptySeq DEF FileShape
  <2> QED BY <1>6, <1>10, <2>1 DEF Inodes
<1>13. /\ meta' \in Seq(Metadata) /\ Len(meta') = Len(meta)
       /\ \A d \in DOMAIN req \ {c} : meta'[d] = meta[d]
       /\ meta'[c].header = m.header /\ meta'[c].local_fd = m.local_fd
       /\ m.offfsets < Files!SizeEnd => meta'[c] = m /\ data' = inodes
       /\ m.offfsets >= Files!SizeEnd =>
            /\ meta'[c].offfsets = 0 /\ meta'[c].file_size = req[c].size
            /\ meta'[c].size_offfsets = m.offfsets - Files!SizeEnd
       /\ data' \in Inodes
       /\ \A i \in Files!Requests \ {inode} : data'[i] = inodes[i]
       /\ Holds(data'[inode], meta'[c].size_offfsets, c)
  <2>1. PICK newline, size : newline = Files!Newline /\ size = req[c].size
    OBVIOUS
  <2>2. newline \in Nat /\ size \in Nat /\ newline + Files!SizeLen = Files!SizeEnd
    BY <1>9, <2>1 DEF Files!SizeEnd, Files!Newline
  <2>3. inode # Files!NULL /\ m.local_fd # Files!NULL /\ m.size_offfsets \in Nat
    BY <1>10, <1>11 DEF Files!Requests, Files!NULL
  <2>4. Holds(inodes[inode], 0, c)
    BY <1>12, EmptySeq DEF Holds
  <2>5. /\ meta' \in Seq(Metadata) /\ Len(meta') = Len(meta)
        /\ \A d \in DOMAIN req \ {c} : meta'[d] = meta[d]
        /\ meta'[c].header = m.header /\ meta'[c].local_fd = m.local_fd
        /\ m.offfsets < newline + Files!SizeLen => meta'[c] = m /\ data' = inodes
        /\ m.offfsets >= newline + Files!SizeLen =>
             /\ meta'[c].offfsets = 0 /\ meta'[c].file_size = size
             /\ m.local_fd # Files!NULL =>
                  meta'[c].size_offfsets = m.size_offfsets + (m.offfsets - newline - Files!SizeLen)
        /\ m.local_fd # Files!NULL /\ m.size_offfsets \in Nat =>
             /\ data' \in Inodes
             /\ \A i \in Files!Requests \ {m.local_fd} : data'[i] = inodes[i]
             /\ Holds(inodes[m.local_fd], m.size_offfsets, c) =>
                  Holds(data'[m.local_fd], meta'[c].size_offfsets, c)
    <3>1. Files!TakeSize(c, m, inodes, newline, size)
      BY <1>7, <2>1
    <3>2. FileShape /\ c \in DOMAIN req /\ m \in Metadata /\ inodes \in Inodes
      BY <1>1, <1>8, <1>11, <1>12
    <3> QED BY <2>2, <3>1, <3>2, TakeSizeEffect
  <2>6. m.offfsets \in Nat
    BY <1>11 DEF Metadata
  <2> QED BY <1>11, <2>1, <2>2, <2>3, <2>4, <2>5, <2>6 DEF Files!SizeEnd, Files!SizeLen, Files!Newline
<1>14. /\ disk' \in [Names -> Owners] /\ lastPut' \in [Names -> Owners] /\ disk'[n] = inode
       /\ lastPut'[n] = c /\ \A x \in Names \ {n} : disk'[x] = disk[x] /\ lastPut'[x] = lastPut[x]
  BY <1>1, <1>7, <1>9, <1>10 DEF FileShape, Owners
<1>15. FileShape'
  BY <1>1, <1>7, <1>8, <1>13, <1>14 DEF FileShape
<1>16. ProgressOK'
  <2>1. Progress(c)'
    <3>1. c \notin late'
      BY <1>1, <1>7, <1>8 DEF ProgressOK, Progress
    <3>2. reply'[c] = "none" /\ arrived'[c] \in Nat /\ req'[c] = req[c]
      BY <1>7, <1>8
    <3>3. meta'[c].header = TRUE /\ meta'[c].local_fd = inode /\ m.offfsets = arrived'[c]
      BY <1>11, <1>13
    <3>4. /\ arrived'[c] < Files!SizeEnd =>
               meta'[c].offfsets = arrived'[c] /\ meta'[c].file_size = 0 /\ meta'[c].size_offfsets = 0
          /\ arrived'[c] >= Files!SizeEnd =>
               /\ meta'[c].offfsets = 0 /\ meta'[c].file_size = req[c].size
               /\ meta'[c].size_offfsets = arrived'[c] - Files!SizeEnd
      BY <1>11, <1>13
    <3>5. meta'[c].offfsets <= arrived'[c] /\ meta'[c].size_offfsets \in Nat
      BY <3>2, <3>4 DEF Files!SizeEnd, Files!SizeLen, Files!Newline
    <3> QED BY <1>7, <3>1, <3>2, <3>3, <3>4, <3>5 DEF Progress
  <2>2. ASSUME NEW d \in DOMAIN req \ {c} PROVE Progress(d)'
    <3>1. /\ Progress(d) /\ req'[d] = req[d] /\ arrived'[d] = arrived[d]
          /\ meta'[d] = meta[d] /\ reply'[d] = reply[d] /\ (d \in late' <=> d \in late)
      BY <1>1, <1>7, <1>8, <1>13 DEF ProgressOK
    <3> QED BY <3>1 DEF Progress
  <2> QED BY <1>8, <2>1, <2>2 DEF ProgressOK
<1>17. \A d, x : Opened(d, x) => Opened(d, x)'
  <2>1. inode # Files!NULL
    BY <1>10 DEF Files!Requests, Files!NULL
  <2> QED BY <1>8, <1>11, <1>13, <2>1 DEF Opened
<1>18. Opened(c, n)' /\ Opened(inode, n)'
  <2>1. Opened(c, n)'
    <3>1. inode # Files!NULL
      BY <1>10 DEF Files!Requests, Files!NULL
    <3> QED BY <1>2, <1>7, <1>8, <1>11, <1>13, <3>1 DEF Opened
  <2>2. disk[n] # Files!NULL => Opened(inode, n)
    BY <1>1, <1>8, <1>9, <1>10 DEF InodesOK
  <2> QED BY <1>3, <1>17, <2>1, <2>2
<1>19. InodesOK'
  <2>1. ASSUME NEW x \in Names, disk'[x] # Files!NULL PROVE Opened(disk[x], x)'
    <3>1. PICK i : i = disk'[x]
      OBVIOUS
    <3>2. x # n => Opened(i, x)
      BY <1>1, <1>8, <1>14, <2>1, <3>1 DEF InodesOK
    <3>3. Opened(i, x)'
      BY <1>14, <1>17, <1>18, <3>1, <3>2
    <3> QED BY <3>1, <3>3
  <2>2. ASSUME NEW d \in DOMAIN req, meta'[d].local_fd # Files!NULL
        PROVE  Opened(d, req[d].name)' /\ Opened(meta[d].local_fd, req[d].name)'
    <3>1. PICK i, x : i = meta'[d].local_fd /\ x = req[d].name
      OBVIOUS
    <3>2. d # c => Opened(d, x) /\ Opened(i, x)
      BY <1>1, <1>8, <1>13, <2>2, <3>1 DEF InodesOK
    <3>3. Opened(d, x)' /\ Opened(i, x)'
      BY <1>2, <1>11, <1>13, <1>17, <1>18, <3>1, <3>2
    <3>4. i = meta'[d].local_fd /\ x = req'[d].name
      BY <1>8, <3>1
    <3> QED BY <3>3, <3>4
  <2> QED BY <1>8, <2>1, <2>2 DEF InodesOK
<1>20. Lasting(c, n)'
  <2>1. c \notin overlapped' => others = {}
    BY <1>7
  <2>2. others = {} => Files!Writing(n)' \subseteq {c}
    BY <1>4, <1>7, <1>8, <1>13 DEF Files!Writing
  <2>3. reply'[c] # "OK"
    BY <1>7, <1>8
  <2> QED BY <1>11, <1>13, <1>14, <1>18, <2>1, <2>2, <2>3 DEF Lasting
<1>21. ASSUME NEW x \in Names, x # n, lastPut'[x] # Files!NULL PROVE Lasting(lastPut[x], x)'
  <2>1. disk[x] # inode
    <3>1. disk[x] # Files!NULL => Opened(disk[x], x)
      BY <1>1, <1>8 DEF InodesOK
    <3>2. ~Opened(c, x)
      BY <1>2, <1>21 DEF Opened
    <3>3. inode # Files!NULL
      BY <1>10 DEF Files!Requests, Files!NULL
    <3>4. disk[n] # Files!NULL => Opened(disk[n], n)
      BY <1>1, <1>8, <1>9 DEF InodesOK
    <3> QED BY <1>3, <1>21, <3>1, <3>2, <3>3, <3>4 DEF Opened
  <2>2. overlapped \subseteq overlapped' /\ x # req[c].name /\ lastPut[x] # Files!NULL
        /\ disk'[x] = disk[x] /\ lastPut'[x] = lastPut[x]
    BY <1>2, <1>7, <1>14, <1>21
  <2>3. \A j \in Files!Requests \ {inode} : data'[j] = data[j]
    BY <1>12, <1>13
  <2> QED BY <1>7, <1>8, <1>10, <1>13, <2>1, <2>2, <2>3, OthersLast
<1>22. LastOK'
  <2>1. ASSUME NEW x \in Names, lastPut'[x] # Files!NULL PROVE Lasting(lastPut[x], x)' 
    <3>1. lastPut'[n] = c
      BY <1>14
    <3> QED BY <1>20, <1>21, <2>1, <3>1
  <2> QED BY <2>1 DEF LastOK
<1> QED BY <1>15, <1>16, <1>19, <1>22 DEF FileInv

\* c's inode holds what c has written.
Filled(c) == Holds(data[meta[c].local_fd], meta[c].size_offfsets, c)

\* More of a PUT arrives that has no file to write to.
LEMMA UnopenedFile ==
  ASSUME FileInv, running, NEW c \in DOMAIN req,
         UNCHANGED <<req, reply, running, file_vector, disk, data, lastPut, overlapped>>,
         meta[c].local_fd = Files!NULL, meta'[c].local_fd = Files!NULL,
         arrived' \in Seq(Nat), Len(arrived') = Len(req),
         late' \subseteq DOMAIN req,
         \A d \in DOMAIN req \ {c} : /\ arrived'[d] = arrived[d] /\ meta'[d] = meta[d]
                                     /\ (d \in late' <=> d \in late),
         meta' \in Seq(Metadata), Len(meta') = Len(req), Progress(c)'
  PROVE  FileInv'
<1>1. FileShape /\ ProgressOK /\ InodesOK /\ LastOK
  BY DEF FileInv
<1>2. FileShape'
  BY <1>1 DEF FileShape
<1>3. ProgressOK'
  <2>1. ASSUME NEW d \in DOMAIN req \ {c} PROVE Progress(d)'
    <3>1. /\ Progress(d) /\ req'[d] = req[d] /\ arrived'[d] = arrived[d]
          /\ meta'[d] = meta[d] /\ reply'[d] = reply[d] /\ (d \in late' <=> d \in late)
      BY <1>1 DEF ProgressOK
    <3> QED BY <3>1 DEF Progress
  <2> QED BY <2>1 DEF ProgressOK
<1>4. \A d \in DOMAIN req : /\ meta'[d].local_fd = meta[d].local_fd
                            /\ meta[d].local_fd # Files!NULL =>
                                 meta'[d].size_offfsets = meta[d].size_offfsets
  OBVIOUS
<1>5. InodesOK'
  BY <1>1, <1>4, InodesKept
<1>6. LastOK'
  <2>1. Files!Listed' = Files!Listed
    BY DEF Files!Listed
  <2>2. \A d \in DOMAIN req : /\ reply'[d] = "none" => reply[d] = "none"
                              /\ req[d].verb = "PUT" /\ reply'[d] = "OK" =>
                                   reply[d] = "OK" \/ req[d].name \in Files!Listed'
    OBVIOUS
  <2> QED BY <1>1, <1>4, <2>1, <2>2, LastKept
<1> QED BY <1>2, <1>3, <1>5, <1>6 DEF FileInv

\* More of a PUT arrives: if its inode was its own before it still is.
LEMMA WriteFile ==
  ASSUME FileInv, running, NEW c \in DOMAIN req, req[c] \in Files!Request,
         UNCHANGED <<req, reply, running, file_vector, disk, lastPut, overlapped>>,
         meta[c].local_fd # Files!NULL, reply[c] = "none",
         arrived' \in Seq(Nat), Len(arrived') = Len(req),
         late' \subseteq DOMAIN req,
         \A d \in DOMAIN req \ {c} : /\ arrived'[d] = arrived[d] /\ meta'[d] = meta[d]
                                     /\ (d \in late' <=> d \in late),
         meta' \in Seq(Metadata), Len(meta') = Len(req),
         meta'[c].local_fd = meta[c].local_fd,
         Progress(c)', data' \in Inodes, Filled(c) => Filled(c)',
         \A j \in Files!Requests \ {meta[c].local_fd} : data'[j] = data[j]
  PROVE  FileInv'
<1>1. FileShape /\ ProgressOK /\ InodesOK /\ LastOK
  BY DEF FileInv
<1>2. PICK n, i : n = req[c].name /\ i = meta[c].local_fd
  OBVIOUS
<1>3. Opened(c, n) /\ Opened(i, n) /\ Opened(c, n)'
  BY <1>1, <1>2 DEF InodesOK, Opened
<1>4. n \in Names
  BY <1>2, <1>3 DEF Opened, Files!Request
<1>5. i \in Files!Requests
  <2>1. i \in 1 .. Len(req) /\ Len(req) \in Nat
    BY <1>1, <1>3, LenProperties DEF Opened, FileShape
  <2> QED BY <1>1, <2>1, FilesOK DEF FileShape, Files!Requests, Files!FileServerAssumption
<1>6. FileShape'
  BY <1>1 DEF FileShape
<1>7. ProgressOK'
  <2>1. ASSUME NEW d \in DOMAIN req \ {c} PROVE Progress(d)'
    <3>1. /\ Progress(d) /\ req'[d] = req[d] /\ arrived'[d] = arrived[d]
          /\ meta'[d] = meta[d] /\ reply'[d] = reply[d] /\ (d \in late' <=> d \in late)
      BY <1>1 DEF ProgressOK
    <3> QED BY <3>1 DEF Progress
  <2> QED BY <2>1 DEF ProgressOK
<1>8. InodesOK'
  BY <1>1, InodesKept
<1>9. ASSUME NEW x \in Names, lastPut'[x] # Files!NULL, x # n PROVE Lasting(lastPut[x], x)'
  <2>1. disk[x] # i
    <3>1. disk[x] # Files!NULL => Opened(disk[x], x)
      BY <1>1 DEF InodesOK
    <3>2. i # Files!NULL
      BY <1>5 DEF Files!Requests, Files!NULL
    <3> QED BY <1>3, <1>9, <3>1, <3>2 DEF Opened
  <2>2. overlapped \subseteq overlapped' /\ x # req[c].name /\ lastPut[x] # Files!NULL
        /\ disk'[x] = disk[x] /\ lastPut'[x] = lastPut[x]
    BY <1>2, <1>9
  <2> QED BY <1>2, <1>5, <2>1, <2>2, OthersLast
<1>10. ASSUME lastPut'[n] # Files!NULL PROVE Lasting(lastPut[n], n)'
  <2>1. PICK e : e = lastPut[n]
    OBVIOUS
  <2>2. Lasting(e, n) /\ lastPut'[n] = e
    BY <1>1, <1>4, <1>10, <2>1 DEF LastOK
  <2>3. Opened(e, n)'
    BY <2>2 DEF Lasting, Opened
  <2>4. Files!Writing(n)' = Files!Writing(n) /\ c \in Files!Writing(n)
    BY <1>2, <1>3 DEF Files!Writing, Opened
  <2>5. Files!Listed' = Files!Listed
    BY DEF Files!Listed
  <2>6. CASE e = c
    <3>1. Filled(c) <=> Holds(data[i], meta[c].size_offfsets, c)
      BY <1>2 DEF Filled
    <3>2. Filled(c)' <=> Holds(data'[i], meta'[c].size_offfsets, c)
      BY <1>2 DEF Filled
    <3>3. Opened(c, n)' /\ reply'[c] # "OK"
      BY <1>3
    <3>4. ASSUME c \notin overlapped'
          PROVE  /\ disk'[n] = i /\ meta'[c].local_fd = i /\ Files!Writing(n)' \subseteq {c}
                 /\ Filled(c)'
      <4>1. Lasting(c, n) /\ c \notin overlapped
        BY <2>2, <2>6, <3>4
      <4>2. /\ disk[n] = meta[c].local_fd /\ Files!Writing(n) \subseteq {c}
            /\ Holds(data[disk[n]], meta[c].size_offfsets, c)
        BY <4>1 DEF Lasting
      <4>3. Filled(c)
        BY <1>2, <3>1, <4>2
      <4> QED BY <1>2, <2>4, <4>2, <4>3
    <3>5. Lasting(c, n)'
      BY <3>2, <3>3, <3>4 DEF Lasting
    <3> QED BY <2>2, <2>6, <3>5
  <2>7. CASE e # c
    <3>1. e \in overlapped
      BY <2>2, <2>4, <2>7 DEF Lasting
    <3>2. Lasting(e, n)'
      BY <2>2, <2>3, <2>5, <3>1 DEF Lasting
    <3> QED BY <2>2, <3>2
  <2> QED BY <2>6, <2>7
<1>11. LastOK'
  BY <1>9, <1>10 DEF LastOK
<1> QED BY <1>6, <1>7, <1>8, <1>11 DEF FileInv

LEMMA SizeFile ==
  ASSUME FileInv, NEW c \in Files!Requests, NEW count \in 1 .. Files!SizeEnd + MaxBody,
         Files!SizeArrives(c, count) \/ Files!TakenAgain(c, count)
  PROVE  FileInv'
<1>1. FileShape /\ ProgressOK /\ InodesOK /\ LastOK
  BY DEF FileInv
<1>2. PICK m : m = Files!Got(c, count)
  OBVIOUS
<1>3. /\ Files!More(c, count) /\ meta[c].header /\ meta[c].file_size = 0
      /\ UNCHANGED <<reply, file_vector, disk, lastPut, overlapped>>
  BY DEF Files!SizeArrives, Files!TakenAgain, Files!history
<1>4. /\ c \in DOMAIN req /\ DOMAIN req = 1 .. Len(req) /\ running /\ reply[c] = "none" /\ req' = req
      /\ running' = running /\ count \in Nat /\ count > 0 /\ arrived[c] \in Nat /\ req[c] \in Files!Request
      /\ arrived' \in Seq(Nat) /\ Len(arrived') = Len(req) /\ arrived'[c] = arrived[c] + count
      /\ \A d \in DOMAIN req \ {c} : arrived'[d] = arrived[d]
      /\ meta[c] \in Metadata
      /\ m \in Metadata /\ m.offfsets = meta[c].offfsets + count /\ m.file_size = meta[c].file_size
      /\ m.size_offfsets = meta[c].size_offfsets /\ m.header = meta[c].header
      /\ m.local_fd = meta[c].local_fd
  BY <1>1, <1>2, <1>3, MoreEffect
<1>5. Progress(c) /\ req[c].verb = "PUT" /\ late \subseteq DOMAIN req
  BY <1>1, <1>3, <1>4 DEF ProgressOK, Progress, FileShape
<1>6. req[c].size \in Nat
  BY <1>4, RequestSize
\* Either the first size, of a request that begins the buffer, or one behind it.
<1>7. PICK newline \in Nat, size \in Nat :
        /\ Files!TakeSize(c, m, data, newline, size)
        /\ \/ /\ newline = Files!Newline /\ size = req[c].size /\ late' = late
              /\ meta[c].offfsets = arrived[c]
           \/ late' = late \cup {c} /\ meta[c].offfsets # arrived[c]
  <2>1. CASE Files!SizeArrives(c, count)
    <3>1. /\ Files!TakeSize(c, m, data, Files!Newline, req[c].size) /\ late' = late
          /\ meta[c].offfsets = arrived[c]
      BY <1>2, <2>1 DEF Files!SizeArrives, Files!FromStart, Files!history
    <3>2. Files!Newline \in Nat
      BY DEF Files!Newline
    <3> QED BY <1>6, <3>1, <3>2
  <2>2. CASE Files!TakenAgain(c, count)
    <3>1. PICK newline \in 1 .. arrived'[c], size \in PutSizes :
                 Files!TakeSize(c, m, data, newline, size)
      BY <1>2, <2>2 DEF Files!TakenAgain
    <3>2. newline \in Nat /\ size \in Nat
      BY <1>4, FilesOK DEF Files!FileServerAssumption
    <3>3. late' = late \cup {c} /\ meta[c].offfsets # arrived[c]
      BY <2>2 DEF Files!TakenAgain, Files!FromStart
    <3> QED BY <3>1, <3>2, <3>3
  <2> QED BY <2>1, <2>2
<1>8. data \in Inodes /\ Len(meta) = Len(req)
  BY <1>1 DEF FileShape
<1>9. /\ meta' \in Seq(Metadata) /\ Len(meta') = Len(req)
      /\ \A d \in DOMAIN req \ {c} : meta'[d] = meta[d]
      /\ meta'[c].header = m.header /\ meta'[c].local_fd = m.local_fd
      /\ m.offfsets < newline + Files!SizeLen => meta'[c] = m /\ data' = data
      /\ m.offfsets >= newline + Files!SizeLen =>
           /\ meta'[c].offfsets = 0 /\ meta'[c].file_size = size
           /\ m.local_fd # Files!NULL =>
                meta'[c].size_offfsets = m.size_offfsets + (m.offfsets - newline - Files!SizeLen)
      /\ m.local_fd = Files!NULL => data' = data
      /\ m.local_fd # Files!NULL /\ m.size_offfsets \in Nat =>
           /\ data' \in Inodes
           /\ \A i \in Files!Requests \ {m.local_fd} : data'[i] = data[i]
           /\ Holds(data[m.local_fd], m.size_offfsets, c) =>
                Holds(data'[m.local_fd], meta'[c].size_offfsets, c)
  <2>1. PICK inodes : inodes = data
    OBVIOUS
  <2>2. Files!TakeSize(c, m, inodes, newline, size) /\ inodes \in Inodes
    BY <1>7, <1>8, <2>1
  <2>3. /\ meta' \in Seq(Metadata) /\ Len(meta') = Len(meta)
        /\ \A d \in DOMAIN req \ {c} : meta'[d] = meta[d]
        /\ meta'[c].header = m.header /\ meta'[c].local_fd = m.local_fd
        /\ m.offfsets < newline + Files!SizeLen => meta'[c] = m /\ data' = inodes
        /\ m.offfsets >= newline + Files!SizeLen =>
             /\ meta'[c].offfsets = 0 /\ meta'[c].file_size = size
             /\ m.local_fd # Files!NULL =>
                  meta'[c].size_offfsets = m.size_offfsets + (m.offfsets - newline - Files!SizeLen)
        /\ m.local_fd = Files!NULL => data' = inodes
        /\ m.local_fd # Files!NULL /\ m.size_offfsets \in Nat =>
             /\ data' \in Inodes
             /\ \A i \in Files!Requests \ {m.local_fd} : data'[i] = inodes[i]
             /\ Holds(inodes[m.local_fd], m.size_offfsets, c) =>
                  Holds(data'[m.local_fd], meta'[c].size_offfsets, c)
    BY <1>1, <1>4, <2>2, TakeSizeEffect
  <2> QED BY <1>8, <2>1, <2>3
<1>10. /\ m.offfsets \in Nat /\ newline + Files!SizeLen \in Nat
       /\ meta'[c].offfsets \in {0, m.offfsets} /\ meta'[c].offfsets <= arrived'[c]
       /\ arrived'[c] > 0 /\ arrived'[c] \in Nat
       /\ c \in late' => meta'[c].offfsets < arrived'[c]
  <2>1. m.offfsets \in Nat /\ meta[c].offfsets \in Nat /\ newline + Files!SizeLen \in Nat
    <3>1. m \in Metadata /\ meta[c] \in Metadata
      BY <1>4
    <3> QED BY <3>1 DEF Metadata, Files!SizeLen
  <2>2. meta'[c].offfsets \in {0, m.offfsets}
    BY <1>9, <2>1
  <2>3. meta[c].offfsets <= arrived[c] /\ (c \in late' => meta[c].offfsets < arrived[c])
    BY <1>3, <1>4, <1>5, <1>7, <2>1 DEF Progress
  <2>4. arrived'[c] > 0 /\ arrived'[c] \in Nat /\ m.offfsets <= arrived'[c]
        /\ (c \in late' => m.offfsets < arrived'[c])
    <3>1. PICK o, a : o = meta[c].offfsets /\ a = arrived[c]
      OBVIOUS
    <3>2. /\ o \in Nat /\ a \in Nat /\ count \in Nat /\ count > 0
          /\ o <= a /\ (c \in late' => o < a)
      BY <1>4, <2>1, <2>3, <3>1
    <3>3. m.offfsets = o + count /\ arrived'[c] = a + count
      BY <1>4, <3>1
    <3>4. a + count > 0 /\ a + count \in Nat /\ o + count <= a + count /\ (o < a => o + count < a + count)
      BY <3>2
    <3> QED BY <3>2, <3>3, <3>4
  <2> QED BY <2>1, <2>2, <2>4
<1>11. late' \subseteq DOMAIN req /\ \A d \in DOMAIN req \ {c} : d \in late' <=> d \in late
  BY <1>4, <1>5, <1>7
<1>12. CASE m.local_fd = Files!NULL
  <2>1. Progress(c)'
    BY <1>3, <1>4, <1>5, <1>9, <1>10, <1>12 DEF Progress
  <2> QED BY <1>3, <1>4, <1>9, <1>11, <1>12, <2>1, UnopenedFile
<1>13. CASE m.local_fd # Files!NULL
  <2>1. m.size_offfsets \in Nat /\ meta'[c].size_offfsets \in Nat
    <3>1. m.size_offfsets \in Nat
      BY <1>4, <1>5, <1>13 DEF Progress
    <3> QED BY <1>7, <1>9, <1>10, <1>13, <3>1 DEF Files!SizeLen
  <2>2. ASSUME c \notin late'
        PROVE  /\ newline = Files!Newline /\ size = req[c].size /\ m.offfsets = arrived'[c]
               /\ m.size_offfsets = 0 /\ m.file_size = 0
    <3>1. c \notin late /\ newline = Files!Newline /\ size = req[c].size /\ meta[c].offfsets = arrived[c]
      BY <1>7, <2>2
    <3>2. arrived[c] < Files!SizeEnd
      BY <1>4, <1>5, <1>13, <3>1 DEF Progress, Files!SizeEnd, Files!SizeLen, Files!Newline
    <3> QED BY <1>3, <1>4, <1>5, <1>13, <3>1, <3>2 DEF Progress
  <2>3. ASSUME c \notin late'
        PROVE  /\ arrived'[c] < Files!SizeEnd => /\ meta'[c].offfsets = arrived'[c] 
                                                 /\ meta'[c].file_size = 0 /\ meta'[c].size_offfsets = 0
               /\ arrived'[c] >= Files!SizeEnd =>
                    /\ meta'[c].offfsets = 0 /\ meta'[c].file_size = req[c].size
                    /\ meta'[c].size_offfsets = arrived'[c] - Files!SizeEnd
    BY <1>9, <1>10, <1>13, <2>2, <2>3 DEF Files!SizeEnd, Files!SizeLen, Files!Newline
  <2>4. Progress(c)'
    BY <1>3, <1>4, <1>5, <1>9, <1>10, <1>13, <2>1, <2>3 DEF Progress
  <2>5. Filled(c) => Filled(c)'
    BY <1>4, <1>9, <1>13, <2>1 DEF Filled
  <2>6. /\ data' \in Inodes /\ meta[c].local_fd # Files!NULL /\ meta'[c].local_fd = meta[c].local_fd
        /\ \A j \in Files!Requests \ {meta[c].local_fd} : data'[j] = data[j]
    BY <1>4, <1>9, <1>13, <2>1
  <2> QED BY <1>3, <1>4, <1>9, <1>11, <2>4, <2>5, <2>6, WriteFile
<1> QED BY <1>12, <1>13

LEMMA BodyFile ==
  ASSUME FileInv, NEW c \in Files!Requests, NEW count \in 1 .. Files!SizeEnd + MaxBody,
         Files!BodyArrives(c, count)
  PROVE  FileInv'
<1>1. FileShape /\ ProgressOK /\ InodesOK /\ LastOK
  BY DEF FileInv
<1>2. PICK i, position, sum : /\ i = meta[c].local_fd /\ position = meta[c].size_offfsets
                              /\ sum = position + Files!Counted(i, count)
  OBVIOUS
<1>3. /\ Files!More(c, count) /\ meta[c].header /\ meta[c].file_size # 0
      /\ data' = Files!Written(data, i, position, count, c)
      /\ UNCHANGED <<reply, file_vector, disk, lastPut, overlapped, late>>
  BY <1>2 DEF Files!BodyArrives, Files!history
<1>4. /\ c \in DOMAIN req /\ DOMAIN req = 1 .. Len(req) /\ running /\ reply[c] = "none" /\ req' = req
      /\ running' = running /\ count \in Nat /\ count > 0 /\ arrived[c] \in Nat /\ req[c] \in Files!Request
      /\ arrived' \in Seq(Nat) /\ Len(arrived') = Len(req) /\ arrived'[c] = arrived[c] + count
      /\ \A d \in DOMAIN req \ {c} : arrived'[d] = arrived[d]
      /\ meta[c] \in Metadata
  BY <1>1, <1>3, MoreEffect
<1>5. PICK m1 : m1 = [meta[c] EXCEPT !.offfsets = 0]
  OBVIOUS
<1>6. PICK m : m = [m1 EXCEPT !.size_offfsets = sum]
  OBVIOUS
<1>7. position \in Int /\ sum \in Int /\ i \in Owners
  BY <1>2, <1>4 DEF Metadata, Files!Counted
<1>8. /\ m \in Metadata /\ m.header = meta[c].header /\ m.local_fd = meta[c].local_fd
      /\ m.offfsets = 0 /\ m.file_size = meta[c].file_size /\ m.size_offfsets = sum
  <2>1. m1 \in Metadata /\ m1.header = meta[c].header /\ m1.local_fd = meta[c].local_fd
        /\ m1.offfsets = 0 /\ m1.file_size = meta[c].file_size
    BY <1>4, <1>5 DEF Metadata
  <2> QED BY <1>6, <1>7, <2>1 DEF Metadata
<1>9. meta' = [meta EXCEPT ![c] = m]
  <2>1. c \in DOMAIN meta
    BY <1>1, <1>4, LenProperties DEF FileShape
  <2> QED BY <1>2, <1>4, <1>5, <1>6, <2>1 DEF Files!BodyArrives, Metadata
<1>10. /\ meta' \in Seq(Metadata) /\ Len(meta') = Len(req) /\ meta'[c] = m
       /\ \A d \in DOMAIN req \ {c} : meta'[d] = meta[d]
  BY <1>1, <1>4, <1>8, <1>9, ExceptSeq DEF FileShape
<1>11. Progress(c) /\ req[c].verb = "PUT" /\ late \subseteq DOMAIN req
  BY <1>1, <1>3, <1>4 DEF ProgressOK, Progress, FileShape
<1>12. /\ meta'[c].header /\ meta'[c].offfsets = 0 /\ meta'[c].file_size = meta[c].file_size
       /\ meta'[c].size_offfsets = sum /\ meta'[c].local_fd = i
       /\ arrived'[c] > 0 /\ arrived'[c] \in Nat /\ reply'[c] = "none"
  <2>1. meta'[c] = m /\ reply' = reply
    BY <1>3, <1>10
  <2>2. arrived'[c] > 0 /\ arrived'[c] \in Nat
    BY <1>4
  <2> QED BY <1>2, <1>3, <1>4, <1>8, <2>1, <2>2
<1>13. CASE i = Files!NULL
  <2>1. data' = data
    BY <1>3, <1>13 DEF Files!Written
  <2>2. Progress(c)'
    BY <1>3, <1>4, <1>11, <1>12, <1>13 DEF Progress
  <2> QED BY <1>2, <1>3, <1>4, <1>10, <1>11, <1>12, <1>13, <2>1, <2>2, UnopenedFile
<1>14. CASE i # Files!NULL
  <2>1. i \in Files!Requests /\ position \in Nat /\ c \in Owners
    BY <1>2, <1>7, <1>11, <1>14 DEF Owners, Progress
  <2>2. PICK inodes : inodes = data
    OBVIOUS
  <2>3. inodes \in Inodes
    BY <1>1, <2>2 DEF FileShape
  <2>4. /\ data' \in Inodes
        /\ \A j \in Files!Requests \ {i} : data'[j] = inodes[j]
        /\ Holds(inodes[i], position, c) => Holds(data'[i], position + count, c)
        /\ Files!Counted(i, count) = count
    BY <1>3, <1>4, <2>1, <2>2, <2>3, WrittenHolds
  <2>5. sum = position + count /\ sum \in Nat
    BY <1>2, <1>4, <2>1, <2>4
  <2>6. ASSUME c \notin late
        PROVE  /\ ~(arrived'[c] < Files!SizeEnd) /\ meta[c].file_size = req[c].size
               /\ sum = arrived'[c] - Files!SizeEnd
    <3>1. arrived[c] >= Files!SizeEnd
      BY <1>2, <1>3, <1>4, <1>11, <1>14, <2>6 DEF Progress, Files!SizeEnd, Files!SizeLen, Files!Newline
    <3>2. meta[c].file_size = req[c].size /\ position = arrived[c] - Files!SizeEnd
      BY <1>2, <1>3, <1>11, <1>14, <2>6, <3>1 DEF Progress
    <3> QED BY <1>4, <2>5, <3>1, <3>2 DEF Files!SizeEnd, Files!SizeLen, Files!Newline
  <2>7. Progress(c)'
    BY <1>3, <1>4, <1>11, <1>12, <2>5, <2>6 DEF Progress
  <2>8. Filled(c) => Filled(c)'
    BY <1>2, <1>12, <2>2, <2>4, <2>5 DEF Filled
  <2>9. \A j \in Files!Requests \ {meta[c].local_fd} : data'[j] = data[j]
    BY <1>2, <2>2, <2>4
  <2> QED BY <1>2, <1>3, <1>4, <1>10, <1>11, <1>12, <1>14, <2>4, <2>7, <2>8, <2>9, WriteFile
<1> QED BY <1>13, <1>14

\* The PUT goes on without a file.
LEMMA OpenFailsFile ==
  ASSUME FileInv, NEW c \in Files!Requests, NEW count \in 1 .. Files!SizeEnd + MaxBody,
         Files!OpenFails(c, count)
  PROVE  FileInv'
<1>1. FileShape /\ ProgressOK
  BY DEF FileInv
<1>2. PICK g, m : g = Files!Got(c, count) /\ m = [g EXCEPT !.header = TRUE]
  OBVIOUS
<1>3. /\ Files!More(c, count) /\ req[c].verb = "PUT" /\ ~meta[c].header
      /\ meta' = [meta EXCEPT ![c] = m]
      /\ UNCHANGED <<reply, file_vector, disk, data, lastPut, overlapped, late>>
  BY <1>2 DEF Files!OpenFails, Files!Parsed, Files!files, Files!history
<1>4. /\ c \in DOMAIN req /\ DOMAIN req = 1 .. Len(req) /\ running /\ reply[c] = "none" /\ req' = req
      /\ running' = running /\ count \in Nat /\ arrived[c] \in Nat
      /\ arrived' \in Seq(Nat) /\ Len(arrived') = Len(req) /\ arrived'[c] = arrived[c] + count
      /\ \A d \in DOMAIN req \ {c} : arrived'[d] = arrived[d]
      /\ g \in Metadata /\ g.offfsets = meta[c].offfsets + count /\ g.local_fd = meta[c].local_fd
  BY <1>1, <1>2, <1>3, MoreEffect
<1>5. Progress(c)
  BY <1>1, <1>4 DEF ProgressOK
<1>6. meta[c].local_fd = Files!NULL /\ c \notin late /\ meta[c].offfsets = arrived[c]
  BY <1>3, <1>4, <1>5 DEF Progress
<1>7. m \in Metadata /\ m.header /\ m.local_fd = Files!NULL /\ m.offfsets = arrived'[c]
  BY <1>2, <1>4, <1>6 DEF Metadata
<1>8. /\ meta' \in Seq(Metadata) /\ Len(meta') = Len(req) /\ meta'[c] = m
      /\ \A d \in DOMAIN req \ {c} : meta'[d] = meta[d]
  <2>1. meta \in Seq(Metadata) /\ c \in 1 .. Len(meta) /\ Len(meta) = Len(req)
    BY <1>1, <1>4 DEF FileShape
  <2> QED BY <1>3, <1>4, <1>7, <2>1, ExceptSeq
<1>9. arrived'[c] \in Nat /\ late \subseteq DOMAIN req
  BY <1>1, <1>4 DEF FileShape
<1>10. Progress(c)'
  BY <1>3, <1>4, <1>6, <1>7, <1>8, <1>9 DEF Progress
<1> QED BY <1>3, <1>4, <1>6, <1>7, <1>8, <1>9, <1>10, UnopenedFile

\* Every step of the file server keeps the invariant.
LEMMA FileNext == FileInv /\ [Files!Next]_Files!fileVars => FileInv'
<1> SUFFICES ASSUME FileInv, [Files!Next]_Files!fileVars PROVE FileInv'
  OBVIOUS
<1>1. ASSUME NEW r \in Files!Request, Files!accept_connections(r) PROVE FileInv'
  BY <1>1, AcceptFile
<1>2. ASSUME NEW c \in Files!Requests, Files!hd_data(c) PROVE FileInv'
  <2>1. ASSUME NEW count \in 1 .. Files!SizeEnd + MaxBody,
               \/ Files!HeaderIncomplete(c, count) \/ Files!OnlyAnswer(c, count)
               \/ Files!deleteinserver(c, count)
               \/ Files!putinserver(c, count) \/ Files!OpenFails(c, count)
               \/ Files!SizeArrives(c, count) \/ Files!TakenAgain(c, count)
               \/ Files!BodyArrives(c, count)
        PROVE  FileInv'
    BY <2>1, HeaderIncompleteFile, OnlyAnswerFile, DeleteFile, PutFile, OpenFailsFile,
       SizeFile, BodyFile
  <2>2. Files!PutSucceeds(c) => FileInv'
    BY PutSucceedsFile
  <2>3. Files!PutFails(c) \/ Files!Crash(c) => FileInv'
    BY PutFailsFile, CrashFile
  <2> QED BY <1>2, <2>1, <2>2, <2>3 DEF Files!hd_data
<1>3. ASSUME Files!final_cleanup PROVE FileInv'
  BY <1>3, CleanupFile
<1>4. ASSUME UNCHANGED Files!fileVars PROVE FileInv'
  <2>1. UNCHANGED <<req, arrived, meta, reply, file_vector, disk, data, running, lastPut,
                    overlapped, late>>
    BY <1>4 DEF Files!fileVars, Files!connections, Files!files, Files!history
  <2>2. FileShape'
    BY <2>1 DEF FileInv, FileShape
  <2>3. ProgressOK'
    BY <2>1 DEF FileInv, ProgressOK, Progress
  <2>4. InodesOK'
    BY <2>1 DEF FileInv, InodesOK, Opened
  <2>5. LastOK'
    BY <2>1 DEF FileInv, LastOK, Lasting, Opened, Files!Writing, Files!Listed
  <2> QED BY <2>2, <2>3, <2>4, <2>5 DEF FileInv
<1> QED BY <1>1, <1>2, <1>3, <1>4 DEF Files!Next

LEMMA FileSuffices == FileInv => StoredWhole
<1> SUFFICES ASSUME FileInv, NEW c \in DOMAIN req \ late,
                    req[c].verb = "PUT", reply[c] # "none", meta[c].local_fd # Files!NULL
             PROVE  LET n == req[c].name
                        came == IF arrived[c] < Files!SizeEnd THEN 0 ELSE arrived[c] - Files!SizeEnd
                        whole == IF arrived[c] < Files!SizeEnd THEN 0 ELSE req[c].size
                    IN  /\ (reply[c] = "OK") <=> Files!SameInt(came, whole)
                        /\ reply[c] = "OK" /\ lastPut[n] = c /\ c \notin overlapped =>
                             /\ n \in Files!Listed /\ disk[n] # Files!NULL
                             /\ data[disk[n]] = [k \in 1 .. came |-> c]
  BY DEF StoredWhole, Files!StoredWhole
<1>1. FileShape /\ Progress(c)
  BY DEF FileInv, ProgressOK
<1>2. meta[c].header /\ running
  BY <1>1 DEF Progress, FileShape
<1>3. PICK n, came, whole :
         /\ n = req[c].name
         /\ came = IF arrived[c] < Files!SizeEnd THEN 0 ELSE arrived[c] - Files!SizeEnd
         /\ whole = IF arrived[c] < Files!SizeEnd THEN 0 ELSE req[c].size
  OBVIOUS
<1>4. meta[c].size_offfsets = came /\ meta[c].file_size = whole /\ came \in Nat
  <2>1. arrived[c] \in Nat
    BY <1>1, ElementOfSeq, LenProperties DEF FileShape
  <2> QED BY <1>1, <1>2, <1>3, <2>1 DEF Progress, Files!SizeEnd, Files!SizeLen, Files!Newline
<1>5. reply[c] = "OK" <=> Files!SameInt(came, whole)
  BY <1>1, <1>2, <1>4 DEF Progress
<1>6. ASSUME reply[c] = "OK", lastPut[n] = c, c \notin overlapped
      PROVE  n \in Files!Listed /\ disk[n] # Files!NULL /\ data[disk[n]] = [k \in 1 .. came |-> c]
  <2>1. n \in Names /\ c \in 1 .. Len(req)
    <3>1. req[c] \in Files!Request /\ c \in 1 .. Len(req)
      BY <1>1, ElementOfSeq, LenProperties DEF FileShape
    <3> QED BY <1>3, <3>1 DEF Files!Request
  <2>2. c # Files!NULL
    BY <2>1 DEF Files!NULL
  <2>3. Lasting(c, n)
    BY <1>2, <1>6, <2>1, <2>2 DEF FileInv, LastOK
  <2>4. PICK i, f : i = disk[n] /\ f = data[i]
    OBVIOUS
  <2>5. n \in Files!Listed /\ i = meta[c].local_fd /\ Holds(f, came, c)
    BY <1>4, <1>6, <2>3, <2>4 DEF Lasting
  <2>6. i \in Files!Requests
    <3>1. Opened(i, n)
      BY <1>2, <1>3, <2>5 DEF FileInv, InodesOK
    <3>2. i \in 1 .. Len(req) /\ Len(req) \in Nat
      BY <1>1, <3>1, LenProperties DEF Opened, FileShape
    <3> QED BY <1>1, <3>2, FilesOK DEF FileShape, Files!Requests, Files!FileServerAssumption
  <2>7. f \in Seq(Owners)
    BY <1>1, <2>4, <2>6 DEF FileShape, Inodes
  <2>8. [k \in 1 .. came |-> c] \in Seq(Nat) /\ Len([k \in 1 .. came |-> c]) = came
    BY <1>4, <2>1
  <2>9. f = [k \in 1 .. came |-> c]
    BY <1>4, <2>5, <2>7, LenProperties DEF Holds
  <2> QED BY <2>4, <2>5, <2>6, <2>9 DEF Files!NULL, Files!Requests
<1> QED BY <1>3, <1>5, <1>6

\* server.c:257-274, 281-307, 480-514: however a PUT is cut into pieces and
\* whatever the other connections do, if its file was opened and nothing came
\* late behind a size of 0, it is answered OK if and only if what came and its
\* size are the same int, and the file it left holds what came.
THEOREM FilesStoredWhole == Files!Spec => []StoredWhole
<1>1. Files!Init => FileInv
  BY FileInit
<1>2. FileInv /\ [Files!Next]_Files!fileVars => FileInv'
  BY FileNext
<1>3. FileInv => StoredWhole
  BY FileSuffices
<1> QED BY <1>1, <1>2, <1>3, PTL DEF Files!Spec

---------------------------------------------------------------------------
(* The length of a list of names, which FoldSet adds up.                   *)

Length(S) == Files!FoldSet(LAMBDA n, sum : sum + NameLen[n] + 1, 0, S)

\* As FoldSet is defined: one name after the other is picked.
Pick(s) == CHOOSE x \in s : TRUE
Sums(it, S) == it = [s \in SUBSET S |-> IF s = {} THEN 0 ELSE it[s \ {Pick(s)}] + NameLen[Pick(s)] + 1]

\* What it adds up to: a name n stands for the bytes 0 .. NameLen[n].
Room(n) == {n} \X (0 .. NameLen[n])
Bytes(S) == UNION {Room(n) : n \in S}

LEMMA RoomSize ==
  ASSUME NEW n \in Names
  PROVE  IsFiniteSet(Room(n)) /\ Cardinality(Room(n)) = NameLen[n] + 1
<1>1. NameLen[n] \in Nat
  BY FilesOK DEF Files!FileServerAssumption
<1>2. IsFiniteSet({n}) /\ Cardinality({n}) = 1
  BY FS_Singleton
<1>3. IsFiniteSet(0 .. NameLen[n]) /\ Cardinality(0 .. NameLen[n]) = NameLen[n] + 1
  BY <1>1, FS_Interval
<1>4. PICK I : I = 0 .. NameLen[n]
  OBVIOUS
<1>5. IsFiniteSet({n} \X I) /\ Cardinality({n} \X I) = 1 * Cardinality(I)
  BY <1>2, <1>3, <1>4, FS_Product
<1> QED BY <1>1, <1>3, <1>4, <1>5 DEF Room

LEMMA BytesFinite ==
  ASSUME NEW S \in SUBSET Names, IsFiniteSet(S)
  PROVE  IsFiniteSet(Bytes(S))
<1> DEFINE T == {Room(n) : n \in S}
           f == [n \in S |-> Room(n)]
<1>1. f \in Surjection(S, T)
  BY DEF Surjection
<1>2. IsFiniteSet(T)
  <2> HIDE DEF T, f
  <2> QED BY <1>1, FS_Surjection
<1>3. \A R \in T : IsFiniteSet(R)
  BY RoomSize
<1>4. Bytes(S) = UNION T
  BY DEF Bytes
<1> QED
  <2> HIDE DEF T, f
  <2> QED BY <1>2, <1>3, <1>4, FS_UNION

LEMMA OneMore ==
  ASSUME NEW S \in SUBSET Names, IsFiniteSet(S), NEW n \in S
  PROVE  /\ IsFiniteSet(S \ {n}) /\ S \ {n} \in SUBSET Names
         /\ Cardinality(Bytes(S \ {n})) \in Nat
         /\ Cardinality(Bytes(S)) = Cardinality(Bytes(S \ {n})) + NameLen[n] + 1
<1>1. PICK T : T = S \ {n}
  OBVIOUS
<1>2. IsFiniteSet(T) /\ T \in SUBSET Names
  BY <1>1, FS_RemoveElement
<1>3. IsFiniteSet(Bytes(T)) /\ Cardinality(Bytes(T)) \in Nat
  BY <1>2, BytesFinite, FS_CardinalityType
<1>4. IsFiniteSet(Room(n)) /\ Cardinality(Room(n)) = NameLen[n] + 1
  BY RoomSize
<1>5. Bytes(S) = Bytes(T) \cup Room(n)
  BY <1>1 DEF Bytes
<1>6. Bytes(T) \cap Room(n) = {}
  BY <1>1 DEF Bytes, Room
<1>7. Cardinality(Bytes(T) \cap Room(n)) = 0
  BY <1>6, FS_EmptySet
<1>8. Cardinality(Bytes(T) \cup Room(n)) =
        Cardinality(Bytes(T)) + Cardinality(Room(n)) - Cardinality(Bytes(T) \cap Room(n))
  BY <1>3, <1>4, FS_Union
<1>9. NameLen[n] \in Nat
  BY FilesOK DEF Files!FileServerAssumption
<1> QED BY <1>1, <1>2, <1>3, <1>4, <1>5, <1>7, <1>8, <1>9

\* Whatever is picked first, the sum is that number.
LEMMA SumsAreBytes ==
  ASSUME NEW S \in SUBSET Names, IsFiniteSet(S), NEW it, Sums(it, S), NEW t \in SUBSET S
  PROVE  it[t] = Cardinality(Bytes(t))
<1> SUFFICES ASSUME it[t] # Cardinality(Bytes(t)) PROVE FALSE
  OBVIOUS
<1> DEFINE Bad == {s \in SUBSET S : it[s] # Cardinality(Bytes(s))}
           R == StrictSubsetOrdering(S)
<1>1. IsWellFoundedOn(R, FiniteSubsetsOf(S))
  BY FS_StrictSubsetOrderingWellFounded
<1>2. Bad # {} /\ Bad \subseteq FiniteSubsetsOf(S)
  BY FS_Subset DEF FiniteSubsetsOf
<1>3. PICK s \in Bad : \A u \in Bad : <<u, s>> \notin R
  <2> HIDE DEF Bad, R
  <2> QED BY <1>1, <1>2, WFMin
<1>4. s \in SUBSET S /\ it[s] # Cardinality(Bytes(s)) /\ IsFiniteSet(s) /\ s \in SUBSET Names
  BY FS_Subset
<1>5. it[s] = IF s = {} THEN 0 ELSE it[s \ {Pick(s)}] + NameLen[Pick(s)] + 1
  BY <1>4 DEF Sums
<1>6. s # {}
  <2>1. Bytes({}) = {}
    BY DEF Bytes
  <2> QED BY <1>4, <1>5, <2>1, FS_EmptySet
<1>7. PICK x : x = Pick(s)
  OBVIOUS
<1>8. x \in s
  BY <1>6, <1>7 DEF Pick
<1>9. Cardinality(Bytes(s)) = Cardinality(Bytes(s \ {x})) + NameLen[x] + 1
  BY <1>4, <1>8, OneMore
<1>10. it[s \ {x}] = Cardinality(Bytes(s \ {x}))
  <2>1. s \ {x} \in SUBSET S /\ s \ {x} \subseteq s /\ s \ {x} # s
    BY <1>4, <1>8
  <2>2. <<s \ {x}, s>> \in R
    BY <1>4, <2>1 DEF StrictSubsetOrdering
  <2> QED BY <1>3, <2>1, <2>2
<1> QED BY <1>4, <1>5, <1>6, <1>7, <1>9, <1>10

LEMMA LengthIsBytes ==
  ASSUME NEW S \in SUBSET Names, IsFiniteSet(S)
  PROVE  Length(S) = Cardinality(Bytes(S))
<1> DEFINE count == [s \in SUBSET S |-> Cardinality(Bytes(s))]
           step(s) == IF s = {} THEN 0 ELSE count[s \ {Pick(s)}] + NameLen[Pick(s)] + 1
           c == CHOOSE it : Sums(it, S)
<1>1. ASSUME NEW s \in SUBSET S PROVE count[s] = step(s)
  <2>1. CASE s = {}
    <3>1. Bytes({}) = {}
      BY DEF Bytes
    <3> QED BY <2>1, <3>1, FS_EmptySet
  <2>2. CASE s # {}
    <3>1. PICK x : x = Pick(s)
      OBVIOUS
    <3>2. x \in s /\ IsFiniteSet(s) /\ s \in SUBSET Names
      BY <2>2, <3>1, FS_Subset DEF Pick
    <3>3. Cardinality(Bytes(s)) = Cardinality(Bytes(s \ {x})) + NameLen[x] + 1
      BY <3>2, OneMore
    <3> QED BY <2>2, <3>1, <3>2, <3>3
  <2> QED BY <2>1, <2>2
<1>2. Sums(count, S)
  BY <1>1 DEF Sums
<1>3. Sums(c, S)
  <2> HIDE DEF count
  <2> QED BY <1>2
<1>4. Length(S) = c[S]
  <2> HIDE DEF count
  <2> QED BY <1>3 DEF Length, Files!FoldSet, Files!MapThenFoldSet, Sums, Pick
<1>5. c[S] = Cardinality(Bytes(S))
  <2> HIDE DEF count, c
  <2> QED BY <1>3, SumsAreBytes
<1> QED BY <1>4, <1>5

\* The length of the list grows by what a name takes, and shrinks by it.
LEMMA LengthEffect ==
  ASSUME NEW S \in SUBSET Names, IsFiniteSet(S), NEW n \in Names
  PROVE  /\ Length(S) \in Nat
         /\ n \notin S => Length(S \cup {n}) = Length(S) + NameLen[n] + 1
         /\ n \in S => Length(S) = Length(S \ {n}) + NameLen[n] + 1
<1>1. Length(S) = Cardinality(Bytes(S)) /\ Length(S) \in Nat
  BY LengthIsBytes, BytesFinite, FS_CardinalityType
<1>2. ASSUME n \in S PROVE Length(S) = Length(S \ {n}) + NameLen[n] + 1
  BY <1>1, <1>2, OneMore, LengthIsBytes
<1>3. ASSUME n \notin S PROVE Length(S \cup {n}) = Length(S) + NameLen[n] + 1
  <2>1. PICK T : T = S \cup {n}
    OBVIOUS
  <2>2. T \in SUBSET Names /\ IsFiniteSet(T) /\ n \in T /\ T \ {n} = S
    BY <1>3, <2>1, FS_AddElement
  <2> QED BY <1>1, <2>1, <2>2, OneMore, LengthIsBytes
<1> QED BY <1>1, <1>2, <1>3

LEMMA LengthOfNone == Length({}) = 0
<1>1. Bytes({}) = {} /\ {} \in SUBSET Names
  BY DEF Bytes
<1> QED BY <1>1, LengthIsBytes, FS_EmptySet

LEMMA ListedFinite ==
  ASSUME NEW S, NEW s \in Seq(S)
  PROVE  IsFiniteSet(Files!ToSet(s)) /\ Files!ToSet(s) \in SUBSET S
<1>1. DOMAIN s = 1 .. Len(s) /\ Len(s) \in Nat /\ \A i \in 1 .. Len(s) : s[i] \in S
  BY LenProperties, ElementOfSeq
<1>2. PICK I : I = 1 .. Len(s)
  OBVIOUS
<1>3. IsFiniteSet(I)
  <2>1. 1 \in Int /\ Len(s) \in Int
    BY <1>1
  <2> QED BY <1>2, <2>1, FS_Interval
<1>4. PICK T : T = Files!ToSet(s)
  OBVIOUS
<1>5. s \in Surjection(I, T)
  BY <1>1, <1>2, <1>4 DEF Surjection, Files!ToSet
<1>6. IsFiniteSet(T)
  BY <1>3, <1>5, FS_Surjection
<1> QED BY <1>1, <1>4, <1>6 DEF Files!ToSet

LEMMA AppendedNames ==
  ASSUME NEW S, NEW s \in Seq(S), Files!IsInjective(s), NEW e \in S, e \notin Files!ToSet(s)
  PROVE  /\ Files!IsInjective(Append(s, e))
         /\ Files!ToSet(Append(s, e)) = Files!ToSet(s) \cup {e}
<1>1. PICK t : t = Append(s, e)
  OBVIOUS
<1>2. /\ Len(s) \in Nat /\ DOMAIN s = 1 .. Len(s) /\ DOMAIN t = 1 .. Len(s) + 1
      /\ t[Len(s) + 1] = e /\ \A i \in 1 .. Len(s) : t[i] = s[i]
  BY <1>1, LenProperties, AppendProperties
<1>3. \A i \in 1 .. Len(s) + 1 : i \in 1 .. Len(s) \/ i = Len(s) + 1
  BY <1>2
<1>4. \A i \in 1 .. Len(s) : s[i] # e
  BY <1>2 DEF Files!ToSet
<1>5. Files!IsInjective(t)
  <2>1. \A i, j \in 1 .. Len(s) : s[i] = s[j] => i = j
    BY <1>2 DEF Files!IsInjective
  <2>2. \A i, j \in 1 .. Len(s) + 1 : t[i] = t[j] => i = j
    BY <1>2, <1>3, <1>4, <2>1
  <2> QED BY <1>2, <2>2 DEF Files!IsInjective
<1>6. Files!ToSet(t) = Files!ToSet(s) \cup {e}
  <2>1. ASSUME NEW x \in Files!ToSet(t) PROVE x \in Files!ToSet(s) \cup {e}
    BY <1>2, <1>3, <2>1 DEF Files!ToSet
  <2>2. ASSUME NEW x \in Files!ToSet(s) PROVE x \in Files!ToSet(t)
    <3>1. PICK i \in 1 .. Len(s) : s[i] = x
      BY <1>2 DEF Files!ToSet
    <3>2. i \in 1 .. Len(s) + 1 /\ t[i] = x
      BY <1>2, <3>1
    <3> QED BY <1>2, <3>2 DEF Files!ToSet
  <2>3. e \in Files!ToSet(t)
    <3>1. Len(s) + 1 \in 1 .. Len(s) + 1
      BY <1>2
    <3> QED BY <1>2, <3>1 DEF Files!ToSet
  <2> QED BY <2>1, <2>2, <2>3
<1> QED BY <1>1, <1>5, <1>6

---------------------------------------------------------------------------
(* The list, its length and the directory.                                 *)

\* file_len counts the names of the list, and the '\n' after each but the last.
CountOfList == /\ file_len \in Int /\ again \in BOOLEAN
               /\ file_len + 1 >= Length(Files!Listed)
               /\ ~again => file_len + 1 = Length(Files!Listed)

\* A PUT of the name met another request for it, or could not open its file.
Unopened(c) == meta[c].header /\ meta[c].local_fd = Files!NULL
Troubled(n) == \E c \in DOMAIN req : /\ req[c].verb = "PUT" /\ req[c].name = n
                                     /\ c \in overlapped \/ Unopened(c)

\* Otherwise it is on disk when it is listed or being written.
NamesOnDisk ==
  /\ \A n \in Files!Listed : disk[n] = Files!NULL => Troubled(n)
  /\ \A c \in DOMAIN req : meta[c].header /\ reply[c] = "none" =>
       disk[req[c].name] # Files!NULL \/ Troubled(req[c].name)

ListInv == FileInv /\ Files!IsInjective(file_vector) /\ CountOfList /\ NamesOnDisk

LEMMA ListInit == Files!Init => ListInv
<1> SUFFICES ASSUME Files!Init PROVE ListInv
  OBVIOUS
<1>1. FileInv
  BY FileInit
<1>2. /\ file_vector = <<>> /\ file_len = -1 /\ again = FALSE /\ req = <<>>
  BY DEF Files!Init
<1>3. DOMAIN file_vector = {} /\ DOMAIN req = {} /\ Files!Listed = {}
  BY <1>2 DEF Files!Listed, Files!ToSet
<1>4. Files!IsInjective(file_vector)
  BY <1>3 DEF Files!IsInjective
<1>5. CountOfList
  <2>1. Length(Files!Listed) = 0
    BY <1>3, LengthOfNone
  <2>2. file_len \in Int /\ file_len + 1 = 0 /\ again = FALSE
    BY <1>2
  <2>3. file_len + 1 >= Length(Files!Listed) /\ file_len + 1 = Length(Files!Listed)
    BY <2>1, <2>2
  <2> QED BY <2>2, <2>3 DEF CountOfList
<1>6. NamesOnDisk
  BY <1>3 DEF NamesOnDisk
<1> QED BY <1>1, <1>4, <1>5, <1>6 DEF ListInv

LEMMA TroubledKept ==
  ASSUME \A c \in DOMAIN req : /\ c \in DOMAIN req' /\ req'[c] = req[c]
                               /\ c \in overlapped => c \in overlapped'
                               /\ Unopened(c) => Unopened(c)',
         NEW n, Troubled(n)
  PROVE  Troubled(n)'
BY DEF Troubled

\* A step that leaves list and directory alone, and begins no PUT that opens a file.
LEMMA ListKept ==
  ASSUME ListInv, FileInv', UNCHANGED <<req, file_vector, file_len, disk, overlapped, again>>,
         \A c \in DOMAIN req : /\ Unopened(c) => Unopened(c)'
                               /\ meta'[c].header /\ reply'[c] = "none" =>
                                    (meta[c].header /\ reply[c] = "none") \/ Unopened(c)'
  PROVE  ListInv'
<1>1. Files!Listed' = Files!Listed
  BY DEF Files!Listed
<1>2. Files!IsInjective(file_vector)'
  BY DEF ListInv
<1>3. CountOfList'
  BY <1>1 DEF ListInv, CountOfList
<1>4. \A n : Troubled(n) => Troubled(n)'
  BY DEF Troubled
<1>5. ASSUME NEW n \in Files!Listed', disk'[n] = Files!NULL PROVE Troubled(n)'
  BY <1>1, <1>4, <1>5 DEF ListInv, NamesOnDisk
<1>6. ASSUME NEW c \in DOMAIN req', meta'[c].header, reply'[c] = "none"
      PROVE  disk'[req'[c].name] # Files!NULL \/ Troubled(req[c].name)'
  <2>1. CASE meta[c].header /\ reply[c] = "none"
    BY <1>4, <2>1 DEF ListInv, NamesOnDisk
  <2>2. CASE Unopened(c)'
    <3>1. req'[c].verb = "PUT"
      BY <1>6 DEF FileInv, ProgressOK, Progress
    <3> QED BY <2>2, <3>1 DEF Troubled
  <2> QED BY <1>6, <2>1, <2>2
<1>7. NamesOnDisk'
  BY <1>5, <1>6 DEF NamesOnDisk
<1> QED BY <1>2, <1>3, <1>7 DEF ListInv

LEMMA ListAccept ==
  ASSUME ListInv, NEW r \in Files!Request, Files!accept_connections(r)
  PROVE  ListInv'
<1>1. FileShape /\ FileInv'
  BY AcceptFile DEF ListInv, FileInv
<1>2. PICK m : m = [header |-> FALSE, offfsets |-> 0, file_size |-> 0,
                    size_offfsets |-> 0, local_fd |-> Files!NULL]
  OBVIOUS
<1>3. /\ req' = Append(req, r) /\ meta' = Append(meta, m) /\ reply' = Append(reply, "none")
      /\ UNCHANGED <<file_vector, file_len, disk, overlapped, again, running>>
  BY <1>2 DEF Files!accept_connections, Files!files, Files!history
<1>4. ~m.header
  BY <1>2
<1>5. /\ Len(req) \in Nat /\ DOMAIN req = 1 .. Len(req) /\ DOMAIN req' = 1 .. Len(req) + 1
      /\ meta'[Len(req) + 1] = m
      /\ \A c \in 1 .. Len(req) : meta'[c] = meta[c] /\ reply'[c] = reply[c] /\ req'[c] = req[c]
  BY <1>1, <1>3, LenProperties, AppendProperties DEF FileShape
<1>6. Files!Listed' = Files!Listed
  BY <1>3 DEF Files!Listed
<1>7. Files!IsInjective(file_vector)'
  BY <1>3 DEF ListInv
<1>8. CountOfList'
  BY <1>3, <1>6 DEF ListInv, CountOfList
<1>9. ASSUME NEW c \in DOMAIN req', meta'[c].header
      PROVE  c \in DOMAIN req /\ meta'[c] = meta[c] /\ reply'[c] = reply[c] /\ req'[c] = req[c]
  BY <1>4, <1>5, <1>9
<1>10. \A n : Troubled(n) => Troubled(n)'
  <2>1. \A c \in DOMAIN req : /\ c \in DOMAIN req' /\ req'[c] = req[c]
                              /\ c \in overlapped => c \in overlapped'
                              /\ Unopened(c) => Unopened(c)'
    <3>1. \A c \in DOMAIN req : /\ c \in DOMAIN req' /\ req'[c] = req[c] /\ meta'[c] = meta[c]
      BY <1>5
    <3> QED BY <1>3, <3>1 DEF Unopened
  <2> QED BY <2>1, TroubledKept
<1>11. NamesOnDisk'
  <2>1. ASSUME NEW n \in Files!Listed', disk'[n] = Files!NULL PROVE Troubled(n)'
    BY <1>3, <1>6, <1>10, <2>1 DEF ListInv, NamesOnDisk
  <2>2. ASSUME NEW c \in DOMAIN req', meta'[c].header, reply'[c] = "none"
        PROVE  disk'[req'[c].name] # Files!NULL \/ Troubled(req[c].name)'
    BY <1>3, <1>9, <1>10, <2>2 DEF ListInv, NamesOnDisk
  <2> QED BY <2>1, <2>2 DEF NamesOnDisk
<1> QED BY <1>1, <1>7, <1>8, <1>11 DEF ListInv

\* A read changes neither header nor descriptor of a connection that it does not parse.
LEMMA ListRead ==
  ASSUME ListInv, NEW c \in Files!Requests, NEW count \in 1 .. Files!SizeEnd + MaxBody,
         \/ Files!HeaderIncomplete(c, count) \/ Files!SizeArrives(c, count)
         \/ Files!TakenAgain(c, count) \/ Files!BodyArrives(c, count)
  PROVE  ListInv'
<1>1. FileShape /\ FileInv' /\ Files!More(c, count)
  BY HeaderIncompleteFile, SizeFile, BodyFile
  DEF ListInv, FileInv, Files!HeaderIncomplete, Files!SizeArrives, Files!TakenAgain, Files!BodyArrives
<1>2. PICK g : g = Files!Got(c, count)
  OBVIOUS
<1>3. /\ c \in DOMAIN req /\ req' = req /\ meta[c] \in Metadata
      /\ g.header = meta[c].header /\ g.local_fd = meta[c].local_fd
      /\ DOMAIN req = DOMAIN meta
  BY <1>1, <1>2, MoreEffect, LenProperties DEF FileShape
<1>4. \E m : meta' = [meta EXCEPT ![c] = m] /\ m.header = meta[c].header /\ m.local_fd = meta[c].local_fd
  <2>1. CASE Files!HeaderIncomplete(c, count)
    BY <1>2, <1>3, <2>1 DEF Files!HeaderIncomplete
  <2>2. ASSUME NEW newline, NEW size, Files!TakeSize(c, g, data, newline, size)
        PROVE  \E m : meta' = [meta EXCEPT ![c] = m] /\ m.header = g.header /\ m.local_fd = g.local_fd
    BY <2>2 DEF Files!TakeSize
  <2>3. CASE Files!SizeArrives(c, count) \/ Files!TakenAgain(c, count)
    <3>1. \E newline, size : Files!TakeSize(c, g, data, newline, size)
      BY <1>2, <2>3 DEF Files!SizeArrives, Files!TakenAgain
    <3> QED BY <1>3, <2>2, <3>1
  <2>4. CASE Files!BodyArrives(c, count)
    <3>1. PICK m1, sum : /\ m1 = [meta[c] EXCEPT !.offfsets = 0]
                         /\ sum = meta[c].size_offfsets + Files!Counted(meta[c].local_fd, count)
      OBVIOUS
    <3>2. PICK m : m = [m1 EXCEPT !.size_offfsets = sum]
      OBVIOUS
    <3>3. m1.header = meta[c].header /\ m.header = m1.header /\ m.local_fd = meta[c].local_fd
      BY <1>3, <3>1, <3>2 DEF Metadata
    <3>4. meta' = [meta EXCEPT ![c] = m]
      BY <1>3, <2>4, <3>1, <3>2 DEF Files!BodyArrives, Metadata
    <3> QED BY <3>3, <3>4
  <2> QED BY <2>1, <2>3, <2>4
<1>5. \A d \in DOMAIN req : meta'[d].header = meta[d].header /\ meta'[d].local_fd = meta[d].local_fd
  BY <1>3, <1>4
<1>6. UNCHANGED <<file_vector, file_len, disk, overlapped, again, reply>>
  BY DEF Files!HeaderIncomplete, Files!SizeArrives, Files!TakenAgain, Files!BodyArrives,
         Files!files, Files!history
<1>7. /\ \A d \in DOMAIN req : Unopened(d) => Unopened(d)'
      /\ \A d \in DOMAIN req : meta'[d].header /\ reply'[d] = "none" => meta[d].header /\ reply[d] = "none"
  BY <1>5, <1>6 DEF Unopened
<1> QED BY <1>1, <1>3, <1>6, <1>7, ListKept

LEMMA ListOpenFails ==
  ASSUME ListInv, NEW c \in Files!Requests, NEW count \in 1 .. Files!SizeEnd + MaxBody,
         Files!OpenFails(c, count)
  PROVE  ListInv'
<1>1. FileShape /\ FileInv' /\ Files!More(c, count)
  BY OpenFailsFile DEF ListInv, FileInv, Files!OpenFails, Files!Parsed
<1>2. /\ c \in DOMAIN req /\ req' = req /\ Files!Got(c, count) \in Metadata
      /\ Files!Got(c, count).local_fd = meta[c].local_fd
      /\ DOMAIN req = DOMAIN meta
  BY <1>1, MoreEffect, LenProperties DEF FileShape
<1>3. PICK g : g = Files!Got(c, count)
  OBVIOUS
<1>4. /\ ~meta[c].header /\ meta' = [meta EXCEPT ![c] = [g EXCEPT !.header = TRUE]]
      /\ UNCHANGED <<file_vector, file_len, disk, overlapped, again, reply>>
  BY <1>3 DEF Files!OpenFails, Files!Parsed, Files!files, Files!history
<1>5. meta[c].local_fd = Files!NULL
  BY <1>2, <1>4 DEF ListInv, FileInv, ProgressOK, Progress
<1>6. Unopened(c)' /\ ~Unopened(c) /\ \A d \in DOMAIN req \ {c} : meta'[d] = meta[d]
  BY <1>2, <1>3, <1>4, <1>5 DEF Unopened, Metadata
<1>7. \A d \in DOMAIN req : /\ Unopened(d) => Unopened(d)'
                            /\ meta'[d].header /\ reply'[d] = "none" =>
                                 (meta[d].header /\ reply[d] = "none") \/ Unopened(d)'
  BY <1>4, <1>6 DEF Unopened
<1> QED BY <1>1, <1>2, <1>4, <1>7, ListKept

\* An answer ends a PUT.
LEMMA ListAnswer ==
  ASSUME ListInv, FileInv', NEW c \in DOMAIN req, NEW answer, answer # "none", Files!Answer(c, answer),
         UNCHANGED <<req, meta, file_vector, file_len, disk, overlapped, again>>
  PROVE  ListInv'
<1>1. DOMAIN req = DOMAIN reply
  BY LenProperties DEF ListInv, FileInv, FileShape
<1>2. \A d \in DOMAIN req : reply'[d] = "none" => reply[d] = "none"
  BY <1>1 DEF Files!Answer
<1> QED BY <1>2, ListKept DEF Unopened

LEMMA ListOnlyAnswer ==
  ASSUME ListInv, NEW c \in Files!Requests, NEW count \in 1 .. Files!SizeEnd + MaxBody,
         Files!OnlyAnswer(c, count)
  PROVE  ListInv'
<1>1. FileShape /\ FileInv' /\ Files!More(c, count)
  BY OnlyAnswerFile DEF ListInv, FileInv, Files!OnlyAnswer, Files!Parsed
<1>2. c \in DOMAIN req /\ req' = req /\ running' = running
  BY <1>1, MoreEffect
<1>3. \E answer : answer # "none" /\ Files!Answer(c, answer)
  BY DEF Files!OnlyAnswer
<1>4. UNCHANGED <<meta, file_vector, file_len, disk, overlapped, again>>
  BY DEF Files!OnlyAnswer, Files!files, Files!history
<1> QED BY <1>1, <1>2, <1>3, <1>4, ListAnswer

LEMMA ListPutFails ==
  ASSUME ListInv, NEW c \in Files!Requests, Files!PutFails(c)
  PROVE  ListInv'
<1>1. FileShape /\ FileInv'
  BY PutFailsFile DEF ListInv, FileInv
<1>2. c \in DOMAIN req
  BY <1>1, LenProperties DEF FileShape, Files!PutFails, Files!Pending
<1>3. Files!Answer(c, "ERROR") /\ "ERROR" # "none"
  BY DEF Files!PutFails
<1>4. UNCHANGED <<req, running, meta, file_vector, file_len, disk, overlapped, again>>
  BY DEF Files!PutFails, Files!files, Files!history
<1> QED BY <1>1, <1>2, <1>3, <1>4, ListAnswer

\* Behind final_cleanup and behind a crash.
LEMMA ListGone ==
  ASSUME FileInv', Files!Gone
  PROVE  ListInv'
<1>2. file_vector' = <<>> /\ file_len' = -1 /\ again' = FALSE /\ req' = <<>>
  BY DEF Files!Gone
<1>3. DOMAIN file_vector' = {} /\ DOMAIN req' = {} /\ Files!Listed' = {}
  BY <1>2 DEF Files!Listed, Files!ToSet
<1>4. Files!IsInjective(file_vector)'
  BY <1>3 DEF Files!IsInjective
<1>5. CountOfList'
  <2>1. PICK len : len = Length(Files!Listed')
    OBVIOUS
  <2>2. len = 0
    BY <1>3, <2>1, LengthOfNone
  <2>3. file_len' \in Int /\ again' = FALSE /\ file_len' + 1 = len /\ file_len' + 1 >= len
    BY <1>2, <2>2
  <2> QED BY <2>1, <2>3 DEF CountOfList
<1>6. NamesOnDisk'
  BY <1>3 DEF NamesOnDisk
<1> QED BY <1>4, <1>5, <1>6 DEF ListInv

\* The name is listed, and the length of the list with it.
LEMMA ListPutSucceeds ==
  ASSUME ListInv, NEW c \in Files!Requests, Files!PutSucceeds(c)
  PROVE  ListInv'
<1>1. FileShape /\ FileInv'
  BY PutSucceedsFile DEF ListInv, FileInv
<1>2. PICK n : n = req[c].name
  OBVIOUS
<1>3. /\ running /\ c \in DOMAIN reply /\ reply[c] = "none" /\ req[c].verb = "PUT" /\ meta[c].header
      /\ file_len' = file_len + NameLen[n] + 1
      /\ file_vector' = IF n \in Files!Listed THEN file_vector ELSE Append(file_vector, n)
      /\ again' = (again \/ n \in Files!Listed)
      /\ reply' = [reply EXCEPT ![c] = "OK"]
      /\ UNCHANGED <<req, meta, disk, running, overlapped>>
  BY <1>2 DEF Files!PutSucceeds, Files!Pending, Files!Answer
<1>4. c \in DOMAIN req /\ DOMAIN req = DOMAIN reply /\ file_vector \in Seq(Names)
  BY <1>1, <1>3, LenProperties DEF FileShape
<1>5. n \in Names
  <2>1. req[c] \in Files!Request
    BY <1>1, <1>4, LenProperties, ElementOfSeq DEF FileShape
  <2> QED BY <1>2, <1>3, <2>1 DEF Files!Request
<1>6. Files!IsInjective(file_vector) /\ CountOfList /\ NamesOnDisk
  BY DEF ListInv
<1>7. /\ Files!IsInjective(file_vector') /\ Files!Listed' = Files!Listed \cup {n}
      /\ IsFiniteSet(Files!Listed) /\ Files!Listed \in SUBSET Names
  <2>1. CASE n \in Files!Listed
    BY <1>3, <1>4, <1>6, <2>1, ListedFinite DEF Files!Listed
  <2>2. CASE n \notin Files!Listed
    BY <1>3, <1>4, <1>5, <1>6, <2>2, ListedFinite, AppendedNames DEF Files!Listed
  <2> QED BY <2>1, <2>2
<1>8. CountOfList'
  <2>1. NameLen[n] \in Nat
    BY <1>5, FilesOK DEF Files!FileServerAssumption
  <2>2. PICK L : L = Files!Listed
    OBVIOUS
  <2>3. /\ Length(L) \in Nat
        /\ n \notin L => Length(L \cup {n}) = Length(L) + NameLen[n] + 1
        /\ n \in L => L \cup {n} = L
    BY <1>5, <1>7, <2>2, LengthEffect
  <2>4. Length(Files!Listed') = Length(L \cup {n})
    BY <1>7, <2>2
  <2>5. /\ file_len \in Int /\ again \in BOOLEAN /\ file_len + 1 >= Length(L)
        /\ ~again => file_len + 1 = Length(L)
    BY <1>6, <2>2 DEF CountOfList
  <2>6. file_len' \in Int /\ again' \in BOOLEAN
    BY <1>3, <2>1, <2>5
  <2>7. file_len' = file_len + NameLen[n] + 1 /\ (~again' => ~again /\ n \notin L)
    BY <1>3, <2>2
  <2>8. file_len' + 1 >= Length(L \cup {n}) /\ (~again' => file_len' + 1 = Length(L \cup {n}))
    <3>1. CASE n \in L
      BY <2>1, <2>3, <2>5, <2>7, <3>1
    <3>2. CASE n \notin L
      BY <2>1, <2>3, <2>5, <2>7, <3>2
    <3> QED BY <3>1, <3>2
  <2> QED BY <2>4, <2>6, <2>8 DEF CountOfList
<1>9. NamesOnDisk'
  <2>1. \A d \in DOMAIN req : reply'[d] = "none" => reply[d] = "none"
    BY <1>3, <1>4
  <2>2. disk[n] # Files!NULL \/ Troubled(n)
    BY <1>2, <1>3, <1>4, <1>6 DEF NamesOnDisk
  <2>3. \A x : Troubled(x) => Troubled(x)'
    BY <1>3 DEF Troubled, Unopened
  <2>4. ASSUME NEW x \in Files!Listed', disk'[x] = Files!NULL PROVE Troubled(x)'
    BY <1>3, <1>6, <1>7, <2>2, <2>3, <2>4 DEF NamesOnDisk
  <2>5. ASSUME NEW d \in DOMAIN req', meta'[d].header, reply'[d] = "none"
        PROVE  disk'[req'[d].name] # Files!NULL \/ Troubled(req[d].name)'
    BY <1>3, <1>6, <2>1, <2>3, <2>5 DEF NamesOnDisk
  <2> QED BY <2>4, <2>5 DEF NamesOnDisk
<1> QED BY <1>1, <1>7, <1>8, <1>9 DEF ListInv

LEMMA ListDelete ==
  ASSUME ListInv, NEW c \in Files!Requests, NEW count \in 1 .. Files!SizeEnd + MaxBody,
         Files!deleteinserver(c, count)
  PROVE  ListInv'
<1>1. FileShape /\ FileInv' /\ Files!More(c, count)
  BY DeleteFile DEF ListInv, FileInv, Files!deleteinserver, Files!Parsed
<1>2. c \in DOMAIN req /\ req' = req /\ running' = running /\ running
  BY <1>1, MoreEffect
<1>3. PICK n : n = req[c].name
  OBVIOUS
<1>4. /\ req[c].verb = "DELETE" /\ n \in Names
      /\ DOMAIN req = DOMAIN reply /\ file_vector \in Seq(Names) /\ disk \in [Names -> Owners]
  <2>1. req[c].verb = "DELETE"
    BY DEF Files!deleteinserver, Files!Parsed
  <2>2. req[c] \in Files!Request
    BY <1>1, <1>2, LenProperties, ElementOfSeq DEF FileShape
  <2> QED BY <1>1, <1>3, <2>1, <2>2, LenProperties DEF Files!Request, FileShape
<1>5. CASE n \notin Files!Listed
  <2>1. /\ Files!Answer(c, "ERROR") /\ "ERROR" # "none"
        /\ UNCHANGED <<meta, file_vector, file_len, disk, overlapped, again>>
    BY <1>3, <1>5 DEF Files!deleteinserver
  <2> QED BY <1>1, <1>2, <2>1, ListAnswer
<1>6. CASE n \in Files!Listed
  <2>1. /\ file_vector' = Files!RemoveFirst(file_vector, n)
        /\ file_len' = file_len - NameLen[n] - 1
        /\ disk' = [disk EXCEPT ![n] = Files!NULL]
        /\ \E answer : answer # "none" /\ reply' = [reply EXCEPT ![c] = answer]
        /\ overlapped' = overlapped \cup Files!Writing(n)
        /\ meta' = meta /\ again' = again
    BY <1>3, <1>6 DEF Files!deleteinserver, Files!Answer
  <2>2. Files!IsInjective(file_vector) /\ CountOfList /\ NamesOnDisk
    BY DEF ListInv
  <2>3. /\ Files!IsInjective(file_vector') /\ Files!Listed' = Files!Listed \ {n}
        /\ IsFiniteSet(Files!Listed) /\ Files!Listed \in SUBSET Names
    BY <1>4, <2>1, <2>2, RemoveFirstEffect, ListedFinite DEF Files!Listed
  <2>4. CountOfList'
    <3>1. NameLen[n] \in Nat
      BY <1>4, FilesOK DEF Files!FileServerAssumption
    <3>2. PICK len, less : len = Length(Files!Listed) /\ less = Length(Files!Listed \ {n})
      OBVIOUS
    <3>3. IsFiniteSet(Files!Listed \ {n}) /\ Files!Listed \ {n} \in SUBSET Names
      BY <2>3, FS_RemoveElement
    <3>4. len = less + NameLen[n] + 1 /\ less \in Nat
      BY <1>4, <1>6, <2>3, <3>2, <3>3, LengthEffect
    <3>5. file_len \in Int /\ again \in BOOLEAN /\ file_len + 1 >= len /\ (~again => file_len + 1 = len)
      BY <2>2, <3>2 DEF CountOfList
    <3>6. file_len' \in Int /\ again' \in BOOLEAN /\ file_len' + 1 >= less /\ (~again' => file_len' + 1 = less)
      BY <2>1, <3>1, <3>4, <3>5
    <3>7. less = Length(Files!Listed')
      BY <2>3, <3>2
    <3> QED BY <3>6, <3>7 DEF CountOfList
  <2>5. \A x : Troubled(x) => Troubled(x)'
    BY <1>2, <2>1 DEF Troubled, Unopened
  <2>6. ASSUME NEW x \in Files!Listed', disk'[x] = Files!NULL PROVE Troubled(x)'
    BY <1>4, <2>1, <2>2, <2>3, <2>5, <2>6 DEF NamesOnDisk
  <2>7. ASSUME NEW d \in DOMAIN req, meta'[d].header, reply'[d] = "none"
        PROVE  disk'[req'[d].name] # Files!NULL \/ Troubled(req[d].name)'
    <3>1. meta[d].header /\ reply[d] = "none"
      BY <1>2, <1>4, <2>1, <2>7
    <3>2. req[d].verb = "PUT"
      BY <3>1 DEF ListInv, FileInv, ProgressOK, Progress
    <3>3. PICK x : x = req[d].name
      OBVIOUS
    <3>4. x \in Names
      <4>1. req[d] \in Files!Request
        BY <1>1, LenProperties, ElementOfSeq DEF FileShape
      <4> QED BY <3>2, <3>3, <4>1 DEF Files!Request
    \* Whoever was writing the name that is deleted has met the DELETE.
    <3>5. CASE x = n
      <4>1. d \in Files!Writing(n) \/ Unopened(d)
        BY <3>1, <3>2, <3>3, <3>5 DEF Files!Writing, Unopened
      <4>2. d \in overlapped' \/ Unopened(d)'
        BY <2>1, <4>1 DEF Unopened
      <4>3. Troubled(x)'
        BY <1>2, <3>2, <3>3, <4>2 DEF Troubled
      <4> QED BY <1>2, <3>3, <4>3
    <3>6. CASE x # n
      <4>1. disk[x] # Files!NULL \/ Troubled(x)
        BY <2>2, <3>1, <3>3 DEF NamesOnDisk
      <4>2. disk'[x] # Files!NULL \/ Troubled(x)'
        BY <1>4, <2>1, <2>5, <3>4, <3>6, <4>1
      <4> QED BY <1>2, <3>3, <4>2
    <3> QED BY <3>5, <3>6
  <2>8. NamesOnDisk'
    BY <1>2, <2>6, <2>7 DEF NamesOnDisk
  <2> QED BY <1>1, <2>3, <2>4, <2>8 DEF ListInv
<1> QED BY <1>5, <1>6

LEMMA ListPut ==
  ASSUME ListInv, NEW c \in Files!Requests, NEW count \in 1 .. Files!SizeEnd + MaxBody,
         Files!putinserver(c, count)
  PROVE  ListInv'
<1>1. FileShape /\ FileInv' /\ Files!More(c, count)
  BY PutFile DEF ListInv, FileInv, Files!putinserver, Files!Parsed
<1>2. /\ c \in DOMAIN req /\ req' = req /\ running' = running /\ running /\ meta[c] \in Metadata
      /\ Files!Got(c, count) \in Metadata
      /\ DOMAIN req = DOMAIN meta
  BY <1>1, MoreEffect, LenProperties DEF FileShape
<1>3. PICK n, inode : n = req[c].name /\ inode = IF disk[n] = Files!NULL THEN c ELSE disk[n]
  OBVIOUS
<1>4. req[c].verb = "PUT" /\ n \in Names /\ disk \in [Names -> Owners]
  <2>1. req[c].verb = "PUT"
    BY DEF Files!putinserver, Files!Parsed
  <2>2. req[c] \in Files!Request
    BY <1>1, <1>2, LenProperties, ElementOfSeq DEF FileShape
  <2> QED BY <1>1, <1>3, <2>1, <2>2 DEF Files!Request, FileShape
<1>5. inode # Files!NULL
  BY <1>3 DEF Files!Requests, Files!NULL
<1>6. /\ disk' = [disk EXCEPT ![n] = inode]
      /\ UNCHANGED <<reply, file_vector, file_len, again>>
  BY <1>3 DEF Files!putinserver
<1>7. \E m : meta' = [meta EXCEPT ![c] = m]
  BY DEF Files!putinserver, Files!TakeSize
<1>8. \A d \in DOMAIN req \ {c} : meta'[d] = meta[d]
  BY <1>2, <1>7
<1>9. \A x : Troubled(x) => Troubled(x)'
  <2>1. ~meta[c].header /\ overlapped \subseteq overlapped'
    BY DEF Files!putinserver, Files!Parsed
  <2>2. \A d \in DOMAIN req : Unopened(d) => Unopened(d)'
    BY <1>8, <2>1 DEF Unopened
  <2> QED BY <1>2, <2>1, <2>2 DEF Troubled
<1>10. \A x \in Names : disk[x] # Files!NULL => disk'[x] # Files!NULL
  BY <1>4, <1>5, <1>6
<1>11. Files!Listed' = Files!Listed /\ Files!Listed \in SUBSET Names
  BY <1>1, <1>6, ListedFinite DEF Files!Listed, FileShape
<1>12. Files!IsInjective(file_vector)' /\ CountOfList'
  BY <1>6, <1>11 DEF ListInv, CountOfList
<1>13. ASSUME NEW d \in DOMAIN req, meta'[d].header, reply'[d] = "none"
       PROVE  disk'[req'[d].name] # Files!NULL \/ Troubled(req[d].name)'
  <2>1. CASE d = c
    BY <1>2, <1>3, <1>4, <1>5, <1>6, <2>1
  <2>2. CASE d # c
    <3>1. meta[d].header /\ reply[d] = "none"
      BY <1>6, <1>8, <1>13, <2>2
    <3>2. req[d].verb = "PUT"
      BY <3>1 DEF ListInv, FileInv, ProgressOK, Progress
    <3>3. PICK x : x = req[d].name
      OBVIOUS
    <3>4. x \in Names
      <4>1. req[d] \in Files!Request
        BY <1>1, LenProperties, ElementOfSeq DEF FileShape
      <4> QED BY <3>2, <3>3, <4>1 DEF Files!Request
    <3>5. disk[x] # Files!NULL \/ Troubled(x)
      BY <3>1, <3>3 DEF ListInv, NamesOnDisk
    <3>6. disk'[x] # Files!NULL \/ Troubled(x)'
      BY <1>9, <1>10, <3>4, <3>5
    <3> QED BY <1>2, <3>3, <3>6
  <2> QED BY <2>1, <2>2
<1>14. ASSUME NEW x \in Files!Listed', disk'[x] = Files!NULL PROVE Troubled(x)'
  BY <1>9, <1>10, <1>11, <1>14 DEF ListInv, NamesOnDisk
<1>15. NamesOnDisk'
  BY <1>2, <1>13, <1>14 DEF NamesOnDisk
<1> QED BY <1>1, <1>12, <1>15 DEF ListInv

LEMMA ListNext == ListInv /\ [Files!Next]_Files!fileVars => ListInv'
<1> SUFFICES ASSUME ListInv, [Files!Next]_Files!fileVars PROVE ListInv'
  OBVIOUS
<1>1. ASSUME NEW r \in Files!Request, Files!accept_connections(r) PROVE ListInv'
  BY <1>1, ListAccept
<1>2. ASSUME NEW c \in Files!Requests, Files!hd_data(c) PROVE ListInv'
  <2>1. ASSUME NEW count \in 1 .. Files!SizeEnd + MaxBody,
               \/ Files!HeaderIncomplete(c, count) \/ Files!OnlyAnswer(c, count)
               \/ Files!deleteinserver(c, count)
               \/ Files!putinserver(c, count) \/ Files!OpenFails(c, count)
               \/ Files!SizeArrives(c, count) \/ Files!TakenAgain(c, count)
               \/ Files!BodyArrives(c, count)
        PROVE  ListInv'
    BY <2>1, ListRead, ListOnlyAnswer, ListDelete, ListPut, ListOpenFails
  <2>2. Files!PutSucceeds(c) => ListInv'
    BY ListPutSucceeds
  <2>3. Files!PutFails(c) => ListInv'
    BY ListPutFails
  <2>4. Files!Crash(c) => ListInv'
    BY CrashFile, ListGone DEF ListInv, Files!Crash
  <2> QED BY <1>2, <2>1, <2>2, <2>3, <2>4 DEF Files!hd_data
<1>3. ASSUME Files!final_cleanup PROVE ListInv'
  BY <1>3, CleanupFile, ListGone DEF ListInv, Files!final_cleanup
<1>4. ASSUME UNCHANGED Files!fileVars PROVE ListInv'
  <2>1. FileInv'
    BY <1>4, FileNext DEF ListInv
  <2>2. UNCHANGED <<req, meta, reply, file_vector, file_len, disk, overlapped, again>>
    BY <1>4 DEF Files!fileVars, Files!connections, Files!files, Files!history
  <2> QED BY <2>1, <2>2, ListKept DEF Unopened
<1> QED BY <1>1, <1>2, <1>3, <1>4 DEF Files!Next

\* server.c:281-287, 337-347, 504-514: for any connections, names, lengths of names
\* and opens that fail, no name is listed twice, file_len is the length of the list,
\* but for PUTs of listed names, and a listed name is on disk unless a PUT of this
\* name met another request for it or could not open its file.
THEOREM ListAlwaysMatches == Files!Spec => []ListMatchesFiles
<1>1. ListInv => ListMatchesFiles
  <2> SUFFICES ASSUME ListInv PROVE ListMatchesFiles
    OBVIOUS
  <2>1. CountOfList /\ NamesOnDisk /\ Files!IsInjective(file_vector)
    BY DEF ListInv
  <2>2. \A n \in Files!Listed : disk[n] = Files!NULL =>
          \E c \in DOMAIN req : /\ req[c].verb = "PUT" /\ req[c].name = n
                                /\ c \in overlapped \/ (meta[c].header /\ meta[c].local_fd = Files!NULL)
    BY <2>1 DEF NamesOnDisk, Troubled, Unopened
  <2>3. PICK len : len = Length(Files!Listed)
    OBVIOUS
  <2>4. file_len + 1 >= len /\ (~again => file_len + 1 = len)
    BY <2>1, <2>3 DEF CountOfList
  <2> QED BY <2>1, <2>2, <2>3, <2>4 DEF ListMatchesFiles, Files!ListMatchesFiles, Length
<1> QED BY ListInit, ListNext, <1>1, PTL DEF Files!Spec
=============================================================================
