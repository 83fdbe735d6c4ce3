------------------------------ MODULE Cracker2 ------------------------------
(* password_cracker/cracker2.c: all workers search the candidates of ONE     *)
(* user at a time, each in its own subrange; main and the workers meet three *)
(* times per user at one pthread_barrier of NumWorkers + 1 parties (external *)
(* to the repository: it releases the parties that wait, wherever in the     *)
(* program they wait, when all of them do).                                  *)
EXTENDS Integers, Sequences

CONSTANTS NumWorkers, NumUsers,
          Candidates,   \* Candidates[u]: 26 ^ (letters of the password of u that are unknown)
          Secret,       \* Secret[u]: the candidate whose hash matches, or NoSecret
          NoSecret,
          IntLimit      \* 2^31 in the build, the first value an int cannot hold

Workers == 1 .. NumWorkers
Users == 1 .. NumUsers
EOF == NumUsers + 1

ASSUME Cracker2Assumption == /\ NumWorkers \in Nat \ {0} /\ NumUsers \in Nat
                             /\ IntLimit \in Nat \ {0}
                             /\ Candidates \in [Users -> Nat \ {0}]
                             /\ NoSecret \notin Nat
                             /\ \A u \in Users :
                                  Secret[u] \in 0 .. Candidates[u] - 1 \cup {NoSecret}

VARIABLES mainPc,    \* where start() is; "meet1", "meet2", "meet3" are the barrier calls
          line,      \* the user main read last, or EOF
          someinfo,  \* the shared record: user (name, hash, pass, prefix), found, password, hash_count
          pc,        \* where each worker is
          buffer,    \* buffer[w]: the candidate w tries next
          left,      \* left[w]: iterations the loop of w still has
          num_hashes, thread_status,   \* locals of the workers
          printed    \* printed[u]: what v2_print_summary was given for u

locals == <<buffer, left, num_hashes, thread_status>>
vars == <<mainPc, line, someinfo, pc, locals, printed>>

Init == /\ mainPc = "read" /\ line = 0
        /\ someinfo = [user |-> 0, found |-> -1, password |-> NoSecret, hash_count |-> 0]
        /\ pc = [w \in Workers |-> "meet1"]
        /\ buffer = [w \in Workers |-> 0] /\ left = [w \in Workers |-> 0]
        /\ num_hashes = [w \in Workers |-> 0] /\ thread_status = [w \in Workers |-> 2]
        /\ printed = <<>>

Meeting == {"meet1", "meet2", "meet3"}
Past == [meet1 |-> "check", meet2 |-> "begin", meet3 |-> "meet1"]       \* of a worker
MainPast == [meet1 |-> "check", meet2 |-> "meet3", meet3 |-> "summary"]

\* pthread_barrier_wait lets everybody go when everybody waits; a worker that
\* leaves the third meeting resets its status on the way to the first.
BarrierTrips == /\ mainPc \in Meeting /\ \A w \in Workers : pc[w] \in Meeting
                /\ mainPc' = MainPast[mainPc]
                /\ pc' = [w \in Workers |-> Past[pc[w]]]
                /\ thread_status' = [w \in Workers |-> IF pc[w] = "meet3" THEN 2
                                                      ELSE thread_status[w]]
                /\ UNCHANGED <<line, someinfo, buffer, left, num_hashes, printed>>

---------------------------------------------------------------------------
(* The main thread: start().                                               *)

\* Lines 82-88: scanf sets someinfo->eof; the record is reset while the
\* workers wait, or are on their way to wait, at the first barrier.
Read == /\ mainPc = "read"
        /\ line' = line + 1
        /\ someinfo' = [someinfo EXCEPT !.found = 1, !.hash_count = 0]
        /\ mainPc' = "meet1"
        /\ UNCHANGED <<pc, locals, printed>>

\* Lines 93-104.
Publish == /\ mainPc = "check"
           /\ IF line = EOF THEN mainPc' = "join" /\ UNCHANGED someinfo
              ELSE mainPc' = "meet2" /\ someinfo' = [someinfo EXCEPT !.user = line]
           /\ UNCHANGED <<line, pc, locals, printed>>

Summary == /\ mainPc = "summary"
           /\ printed' = Append(printed, someinfo)
           /\ mainPc' = "read"
           /\ UNCHANGED <<line, someinfo, pc, locals>>

\* Lines 121-135, once every worker has left its loop.
Join == /\ mainPc = "join" /\ \A w \in Workers : pc[w] = "exit"
        /\ mainPc' = "done"
        /\ UNCHANGED <<line, someinfo, pc, locals, printed>>

Main == Read \/ Publish \/ Summary \/ Join

---------------------------------------------------------------------------
(* A worker: eachthread().                                                 *)

CheckEof(w) == /\ pc[w] = "check"
               /\ pc' = [pc EXCEPT ![w] = IF line = EOF THEN "exit" ELSE "meet2"]
               /\ UNCHANGED <<mainPc, line, someinfo, locals, printed>>

\* getSubrange(unknown letters, threads, w, &start_index, &count)
start_index(w, max) == (max * (w - 1)) \div NumWorkers
end_index(w, max) == (max * w) \div NumWorkers
\* Slip: `<=`, the first candidate of the next worker is tried, too.
countTooLong(w, max) == end_index(w, max) - start_index(w, max) + 1

count(w, max) == end_index(w, max) - start_index(w, max)

\* (int) of a long, and what a sum of ints wraps to: the value modulo 2 * IntLimit.
int(n) == ((n + IntLimit) % (2 * IntLimit)) - IntLimit

\* Lines 168-177.
Begin(w) == /\ pc[w] = "begin"
            /\ LET max == Candidates[someinfo.user] IN
                 /\ buffer' = [buffer EXCEPT ![w] = start_index(w, max)]
                 /\ left' = [left EXCEPT ![w] = int(count(w, max))]
            /\ num_hashes' = [num_hashes EXCEPT ![w] = 0]
            /\ pc' = [pc EXCEPT ![w] = "look"]
            /\ UNCHANGED <<mainPc, line, someinfo, thread_status, printed>>

\* Lines 178-187: leave the loop at its end or because the password was found.
Look(w) == /\ pc[w] = "look"
           /\ IF left[w] <= 0 THEN pc' = [pc EXCEPT ![w] = "add"] /\ UNCHANGED thread_status
              ELSE IF someinfo.found = 0
              THEN /\ pc' = [pc EXCEPT ![w] = "add"]
                   /\ thread_status' = [thread_status EXCEPT ![w] = 1]
              ELSE pc' = [pc EXCEPT ![w] = "hash"] /\ UNCHANGED thread_status
           /\ UNCHANGED <<mainPc, line, someinfo, buffer, left, num_hashes, printed>>

Matches(w) == buffer[w] = Secret[someinfo.user]

\* Lines 190-209 without a match, and with one up to line 198.
Hash(w) == /\ pc[w] = "hash"
           /\ num_hashes' = [num_hashes EXCEPT ![w] = @ + 1]
           /\ IF Matches(w)
              THEN /\ someinfo' = [someinfo EXCEPT !.password = buffer[w]]
                   /\ pc' = [pc EXCEPT ![w] = "found"]
                   /\ UNCHANGED <<buffer, left>>
              ELSE /\ buffer' = [buffer EXCEPT ![w] = @ + 1]
                   /\ left' = [left EXCEPT ![w] = @ - 1]
                   /\ pc' = [pc EXCEPT ![w] = "look"]
                   /\ UNCHANGED someinfo
           /\ UNCHANGED <<mainPc, line, thread_status, printed>>

\* Lines 200-204.
Found(w) == /\ pc[w] = "found"
            /\ someinfo' = [someinfo EXCEPT !.found = 0]
            /\ thread_status' = [thread_status EXCEPT ![w] = 0]
            /\ pc' = [pc EXCEPT ![w] = "add"]
            /\ UNCHANGED <<mainPc, line, buffer, left, num_hashes, printed>>

\* Slip: the sum is made without a mutex and overwrites what was added since.
AddLost(w) == /\ pc[w] = "add"
              /\ someinfo' = [someinfo EXCEPT !.hash_count = int(num_hashes[w])]
              /\ pc' = [pc EXCEPT ![w] = "meet3"]
              /\ UNCHANGED <<mainPc, line, locals, printed>>

\* Lines 215-223, each sum under the mutex; hash_count and num_hashes are ints.
Add(w) == /\ pc[w] = "add"
          /\ someinfo' = [someinfo EXCEPT !.hash_count = int(@ + num_hashes[w])]
          /\ pc' = [pc EXCEPT ![w] = "meet3"]
          /\ UNCHANGED <<mainPc, line, locals, printed>>

Worker(w) == CheckEof(w) \/ Begin(w) \/ Look(w) \/ Hash(w) \/ Found(w) \/ Add(w)

Terminated == mainPc = "done" /\ UNCHANGED vars

Next == BarrierTrips \/ Main \/ (\E w \in Workers : Worker(w)) \/ Terminated

SafeSpec == Init /\ [][Next]_vars
Spec == SafeSpec /\ WF_vars(BarrierTrips) /\ WF_vars(Main) /\ \A w \in Workers : WF_vars(Worker(w))

---------------------------------------------------------------------------
(* Properties.                                                             *)

Searching(w) == pc[w] \in {"begin", "look", "hash", "found", "add"}

\* Shape of the state.
TypeOK == /\ mainPc \in Meeting \cup {"read", "check", "summary", "join", "done"}
          /\ line \in 0 .. EOF
          /\ someinfo.user \in 0 .. NumUsers
          /\ someinfo.found \in {-1, 0, 1}
          /\ someinfo.password \in Nat \cup {NoSecret}
          /\ someinfo.hash_count \in -IntLimit .. IntLimit - 1
          /\ pc \in [Workers -> Meeting \cup {"check", "begin", "look", "hash", "found", "add", "exit"}]
          /\ buffer \in [Workers -> Nat] /\ left \in [Workers -> Int]
          /\ num_hashes \in [Workers -> Nat] /\ thread_status \in [Workers -> 0 .. 2]

\* While any worker searches, main waits for it and the record holds the user
\* read last: it is not changed under the worker (cracker2.c:91, 106-107).
OneUserAtATime == \A w \in Workers : Searching(w) => mainPc = "meet3" /\ someinfo.user = line

\* No candidate is hashed by two workers: each stays in its own subrange
\* (libs/utils.c:75-86, cracker2.c:168-209).
OwnSubrange == \A w \in Workers : pc[w] = "hash" =>
  LET max == Candidates[someinfo.user] IN
    /\ start_index(w, max) <= buffer[w]
    /\ \A v \in Workers : v > w => buffer[w] < start_index(v, max)
    /\ buffer[w] < max

\* A worker breaks off its search only when the password of THIS user has been
\* stored: the flag of the user before is gone and the flag is never ahead of
\* the password (cracker2.c:86, 184, 198-202).
CancelledForAReason == \A w \in Workers :
  (Searching(w) /\ thread_status[w] = 1) \/ pc[w] = "found" =>
    Secret[someinfo.user] # NoSecret /\ someinfo.password = Secret[someinfo.user]

\* The four together: one user, one worker per candidate, no false alarm
\* (cracker2.c:86-107, 158-209).
Consistent == TypeOK /\ OneUserAtATime /\ OwnSubrange /\ CancelledForAReason

\* What is printed for a user is right: the password if there is one, and, if
\* there is none, a count of hashes that shows every candidate was tried, as far
\* as an int shows it (cracker2.c:24, 114, 215-223).
SummaryRight == \A u \in DOMAIN printed :
  /\ printed[u].user = u
  /\ (printed[u].found = 0) <=> (Secret[u] # NoSecret)
  /\ printed[u].found = 0 => printed[u].password = Secret[u]
  /\ printed[u].found # 0 => printed[u].hash_count = int(Candidates[u])

\* Every user gets a summary and the program ends.
Termination == <>(mainPc = "done" /\ Len(printed) = NumUsers)
=============================================================================
