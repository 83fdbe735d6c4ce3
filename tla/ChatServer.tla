----------------------------- MODULE ChatServer ----------------------------
(* charming_chatroom/server.c with the loops of utils.c: main accepts        *)
(* connections into slots, a thread per slot reads messages and broadcasts   *)
(* them under the mutex.  Descriptors are numbers that are used again, the   *)
(* lowest first; a slot holds a number, not a connection.  A message is one  *)
(* unit: read_all_from_socket gives all of it or nothing.  Clients and the   *)
(* kernel's side of the sockets are external.                                *)
EXTENDS Integers, SequencesExt

CONSTANTS MAX_CLIENTS,
          NumConns,      \* connections clients make
          MaxMessages    \* bounds the messages of all clients

ASSUME ChatAssumption == /\ MAX_CLIENTS \in Nat \ {0}
                         /\ NumConns \in Nat /\ MaxMessages \in Nat

Conns == 1 .. NumConns  \* in the order in which they are accepted
Slots == 1 .. MAX_CLIENTS
\* Every slot taken, and one client that is about to be refused.
Descriptors == 1 .. MAX_CLIENTS + 1
NONE == -1

VARIABLES clients, clientsCount,
          joined,      \* broadcasts begun when the client was given a slot
          mutex,       \* the slot whose thread holds it, or NONE
          pc,          \* pc[i]: where the thread of slot i is
          cursor,      \* the slot write_to_clients is at
          sent,        \* broadcasts begun
          endSession,
          stage,       \* where main is
          client_fd,   \* main's local
          swept,       \* slots cleanup has been over
          fds,         \* fds[f]: the connection behind a descriptor, or NONE
          peer,        \* peer[c]: "new", "open" or "gone"
          quota,       \* messages the clients may still send
          unread,      \* messages of c the server has still to read
          inbox        \* the broadcasts c has received, while it stays

room == <<clients, clientsCount, joined>>
threads == <<mutex, pc, cursor, sent>>
main == <<endSession, stage, client_fd, swept>>
sockets == <<fds, peer, quota, unread, inbox>>
chatVars == <<room, threads, main, sockets>>

Init == /\ clients = [i \in Slots |-> NONE] /\ clientsCount = 0
        /\ joined = [c \in Conns |-> 0]
        /\ mutex = NONE /\ pc = [i \in Slots |-> "none"] /\ cursor = 1 /\ sent = 0
        /\ endSession = FALSE /\ stage = "loop" /\ client_fd = NONE /\ swept = 0
        /\ fds = [f \in Descriptors |-> NONE]
        /\ peer = [c \in Conns |-> "new"]
        /\ quota = MaxMessages
        /\ unread = [c \in Conns |-> 0]
        /\ inbox = [c \in Conns |-> <<>>]

Alive == stage \notin {"exited", "killed"}
Goto(i, l) == pc' = [pc EXCEPT ![i] = l]
\* Line 194; nobody but main reads endSession in between.
TopOfLoop == IF endSession THEN "close" ELSE "read"
Closed(i) == IF clients[i] = NONE THEN fds ELSE [fds EXCEPT ![clients[i]] = NONE]

---------------------------------------------------------------------------
(* run_server and cleanup: main.                                           *)

Loop == /\ stage = "loop"
        /\ stage' = IF endSession THEN "cleanup" ELSE "accept"
        /\ UNCHANGED <<room, threads, endSession, client_fd, swept, sockets>>

Accept(c) == /\ stage = "accept" /\ c = Cardinality({d \in Conns : peer[d] # "new"}) + 1
             /\ peer' = [peer EXCEPT ![c] = "open"]
             /\ client_fd' = Min({f \in Descriptors : fds[f] = NONE})
             /\ fds' = [fds EXCEPT ![client_fd'] = c]
             /\ stage' = "register"
             /\ UNCHANGED <<room, threads, endSession, swept, quota, unread, inbox>>

\* Line 152 passes i to the thread: client_fd holds it from here on.
TakeSlot(i) == /\ clients' = [clients EXCEPT ![i] = client_fd]
               /\ clientsCount' = clientsCount + 1
               /\ joined' = [joined EXCEPT ![fds[client_fd]] = sent]
               /\ stage' = "spawn" /\ client_fd' = i
               /\ UNCHANGED <<threads, endSession, swept, sockets>>

\* Slip: the slot is taken for the one after the last client.
RegisterByCount == /\ stage = "register" /\ mutex = NONE
                   /\ clientsCount < MAX_CLIENTS /\ TakeSlot(clientsCount + 1)

Register == /\ stage = "register" /\ mutex = NONE
            /\ \E i \in Slots :
                 /\ clients[i] = NONE /\ \A k \in 1 .. i - 1 : clients[k] # NONE
                 /\ TakeSlot(i)

Refuse == /\ stage = "register" /\ mutex = NONE
          /\ \A i \in Slots : clients[i] # NONE
          /\ fds' = [fds EXCEPT ![client_fd] = NONE]
          /\ stage' = "loop" /\ client_fd' = NONE
          /\ UNCHANGED <<room, threads, endSession, swept, peer, quota, unread, inbox>>

Spawn == /\ stage = "spawn"
         /\ Goto(client_fd, TopOfLoop)
         /\ stage' = "loop" /\ client_fd' = NONE
         /\ UNCHANGED <<room, mutex, cursor, sent, endSession, swept, sockets>>

\* Lines 52-59, without the mutex; pthread_exit then leaves the threads alone.
Cleanup == /\ stage = "cleanup"
           /\ swept' = swept + 1
           /\ fds' = Closed(swept')
           /\ stage' = IF swept' = MAX_CLIENTS THEN "done" ELSE stage
           /\ UNCHANGED <<room, threads, endSession, client_fd, peer, quota, unread, inbox>>

\* SIGINT: if it interrupts accept, accept returns -1 and line 126 exits.
close_server == /\ Alive /\ ~endSession
                /\ endSession' = TRUE
                /\ stage' \in IF stage = "accept" THEN {stage, "exited"} ELSE {stage}
                /\ UNCHANGED <<room, threads, client_fd, swept, sockets>>

---------------------------------------------------------------------------
(* process_client and write_to_clients: the thread of slot i.              *)

At(i, l) == Alive /\ pc[i] = l
Conn(i) == IF clients[i] = NONE THEN NONE ELSE fds[clients[i]]

Read(i) == /\ At(i, "read")
           /\ Conn(i) # NONE /\ unread[Conn(i)] > 0
           /\ unread' = [unread EXCEPT ![Conn(i)] = @ - 1]
           /\ Goto(i, "lock")
           /\ UNCHANGED <<room, mutex, cursor, sent, main, fds, peer, quota, inbox>>

\* End of file, an error, or a descriptor that cleanup has shut down; a reset
\* connection loses what was not read yet.
ReadFails(i) == /\ At(i, "read")
                /\ Conn(i) # NONE => peer[Conn(i)] = "gone"
                /\ Goto(i, "close")
                /\ UNCHANGED <<room, mutex, cursor, sent, main, sockets>>

\* Slip: a broadcast does not wait for the one before it.
LockNot(i) == /\ At(i, "lock")
              /\ mutex' = i /\ sent' = sent + 1
              /\ Goto(i, "write")
              /\ UNCHANGED <<room, cursor, main, sockets>>

Lock(i) == /\ At(i, "lock") /\ mutex = NONE
           /\ mutex' = i /\ sent' = sent + 1
           /\ Goto(i, "write")
           /\ UNCHANGED <<room, cursor, main, sockets>>

\* Lines 166-175 for one slot.  A closed descriptor is only reported; a client
\* that went away takes the bytes or raises SIGPIPE, which nobody handles.
Write(i) == /\ At(i, "write") /\ cursor <= MAX_CLIENTS
            /\ cursor' = cursor + 1
            /\ LET c == Conn(cursor)
                   there == c # NONE /\ peer[c] = "open"
                   gone == c # NONE /\ peer[c] = "gone"
               IN  /\ inbox' = IF there THEN [inbox EXCEPT ![c] = Append(@, sent)] ELSE inbox
                   /\ stage' \in IF gone THEN {stage, "killed"} ELSE {stage}
            /\ UNCHANGED <<room, mutex, pc, sent, endSession, client_fd, swept, fds, peer, quota, unread>>

Unlock(i) == /\ At(i, "write") /\ cursor > MAX_CLIENTS
             /\ mutex' = NONE /\ cursor' = 1
             /\ Goto(i, TopOfLoop)
             /\ UNCHANGED <<room, sent, main, sockets>>

\* Line 208, without the mutex: the number may be given away at once.
Close(i) == /\ At(i, "close")
            /\ fds' = Closed(i)
            /\ Goto(i, "clear")
            /\ UNCHANGED <<room, mutex, cursor, sent, main, peer, quota, unread, inbox>>

\* Slip: the thread ends with its slot still taken.
ClearOnlyCount(i) == /\ At(i, "clear") /\ mutex = NONE
                     /\ clientsCount' = clientsCount - 1
                     /\ Goto(i, "none")
                     /\ UNCHANGED <<clients, joined, mutex, cursor, sent, main, sockets>>

Clear(i) == /\ At(i, "clear") /\ mutex = NONE
            /\ clients' = [clients EXCEPT ![i] = NONE]
            /\ clientsCount' = clientsCount - 1
            /\ Goto(i, "none")
            /\ UNCHANGED <<joined, mutex, cursor, sent, main, sockets>>

---------------------------------------------------------------------------
(* The clients.                                                            *)

Send(c) == /\ Alive /\ peer[c] = "open" /\ quota > 0
           /\ quota' = quota - 1
           /\ unread' = [unread EXCEPT ![c] = @ + 1]
           /\ UNCHANGED <<room, threads, main, fds, peer, inbox>>

Leave(c) == /\ Alive /\ peer[c] = "open"
            /\ peer' = [peer EXCEPT ![c] = "gone"]
            /\ inbox' = [inbox EXCEPT ![c] = <<>>]
            /\ UNCHANGED <<room, threads, main, fds, quota, unread>>

---------------------------------------------------------------------------

Main == Loop \/ Register \/ Refuse \/ Spawn \/ Cleanup
Thread(i) == \/ Read(i) \/ ReadFails(i) \/ Lock(i) \/ Write(i) \/ Unlock(i)
             \/ Close(i) \/ Clear(i)
Next == \/ Main \/ close_server
        \/ \E i \in Slots : Thread(i)
        \/ \E c \in Conns : Accept(c) \/ Send(c) \/ Leave(c)

\* Every thread runs when it can; clients and SIGINT come or do not.
Spec == Init /\ [][Next]_chatVars
             /\ WF_chatVars(Main) /\ \A i \in Slots : WF_chatVars(Thread(i))

---------------------------------------------------------------------------
(* Properties.                                                             *)

Taken == {i \in Slots : clients[i] # NONE}

\* server.c:130-149 and 207-213: the count is that of the taken slots, and each
\* of them has one thread, or main is about to start it; a slot whose thread
\* has not closed its descriptor has a connection of its own, until cleanup.
SlotsConsistent ==
  /\ clientsCount = Cardinality(Taken)
  /\ mutex # NONE => pc[mutex] = "write"
  /\ Alive => {i \in Slots : pc[i] # "none"} = Taken \ (IF stage = "spawn" THEN {client_fd} ELSE {})
  /\ swept = 0 =>
       LET open == {i \in Taken : pc[i] # "clear"}
       IN  /\ \A i \in open : Conn(i) # NONE
           /\ \A i, k \in open : clients[i] = clients[k] => i = k

\* server.c:164-178 against 208: whoever stays connected hears, from the moment
\* it has a slot, every broadcast, and hears them in the order of the mutex,
\* also when its descriptor was used before and stands in two slots.
HearsEverything ==
  /\ \A c \in Conns : \A k, l \in DOMAIN inbox[c] : k < l => inbox[c][k] <= inbox[c][l]
  /\ mutex = NONE /\ Alive /\ swept = 0 =>
       \A i \in Taken : pc[i] # "clear" /\ peer[Conn(i)] = "open" =>
         joined[Conn(i)] + 1 .. sent \subseteq ToSet(inbox[Conn(i)])

\* server.c:195-213: the slot of a client that went away becomes free again, for
\* as long as the server lives.
SlotsAreFreed == \A i \in Slots : (i \in Taken /\ (Conn(i) = NONE \/ peer[Conn(i)] = "gone"))
                                    ~> (i \notin Taken \/ ~Alive)
=============================================================================
