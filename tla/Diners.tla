------------------------------- MODULE Diners -------------------------------
(* deadlocked_diners: companies (threads) share interns (mutexes) that sit   *)
(* around a table, company c between intern c and intern c + 1.  The         *)
(* simulator (simulator.c) starts the companies and a surveillance thread    *)
(* that samples the mutexes for a deadlock, ends the billing cycle by an     *)
(* alarm and joins everybody.  The program is built twice, with arbitrator.c *)
(* as work_interns and with bad_company.c; `arbitrated` says which it is.    *)
EXTENDS Naturals, FiniteSets

CONSTANTS NumCompanies, NumInterns

\* arg_parse (simulator.c:120) refuses anything less than one.
ASSUME DinersAssumption == /\ NumCompanies \in Nat \ {0}
                           /\ NumInterns \in Nat \ {0}

Companies == 0 .. NumCompanies - 1
Interns == 0 .. NumInterns - 1
Nobody == NumCompanies
Left(c) == c % NumInterns
Right(c) == (c + 1) % NumInterns

VARIABLES arbitrated,  \* the build
          pc,          \* pc[c]: where company c is in work_interns
          owner,       \* owner[i]: the company that has locked intern i
          arbitrator,  \* the company that has locked the global mutex
          working, running, signum,     \* the globals of simulator.c
          rung,        \* the alarm has gone off
          watch,       \* the surveillance thread: its place in the loop
          next, sawLeft, busy,          \* its locals i, left_intern_owner == tid, working_threads
          process      \* "up", or how the process ended

table == <<arbitrated, owner, arbitrator>>
globals == <<working, running, signum, rung>>
surveillance == <<watch, next, sawLeft, busy>>
vars == <<pc, table, globals, surveillance, process>>

Init == /\ arbitrated \in BOOLEAN
        /\ pc = [c \in Companies |-> "barrier"]
        /\ owner = [i \in Interns |-> Nobody]
        /\ arbitrator = Nobody
        /\ working = 0 /\ running = TRUE /\ signum = "none" /\ rung = FALSE
        /\ watch = "barrier" /\ next = 0 /\ sawLeft = FALSE /\ busy = 0
        /\ process = "up"

At(c, label) == process = "up" /\ pc[c] = label
Goto(c, label) == pc' = [pc EXCEPT ![c] = label]

\* pthread_barrier_wait(&global_barrier): everybody, surveillance included, starts.
Start == /\ watch = "barrier" /\ process = "up"
         /\ pc' = [c \in Companies |-> "loop"]
         /\ watch' = "sleep"
         /\ UNCHANGED <<table, globals, next, sawLeft, busy, process>>

---------------------------------------------------------------------------
(* A company.                                                              *)

Loop(c) == /\ At(c, "loop")
           /\ Goto(c, IF ~running THEN "gone" ELSE IF arbitrated THEN "arbitrator" ELSE "left")
           /\ UNCHANGED <<table, globals, surveillance, process>>

LockArbitrator(c) == /\ At(c, "arbitrator") /\ arbitrator = Nobody
                     /\ arbitrator' = c
                     /\ Goto(c, "left")
                     /\ UNCHANGED <<arbitrated, owner, globals, surveillance, process>>

LockIntern(c, i, from, to) == /\ At(c, from) /\ owner[i] = Nobody
                              /\ owner' = [owner EXCEPT ![i] = c]
                              /\ Goto(c, to)
                              /\ UNCHANGED <<arbitrated, arbitrator, globals, surveillance, process>>

LockLeft(c) == LockIntern(c, Left(c), "left", "right")
\* Slip: pthread_mutex_trylock for the second intern, its result ignored.
LockRightTry(c) == /\ At(c, "right")
                   /\ owner' = [owner EXCEPT ![Right(c)] = IF @ = Nobody THEN c ELSE @]
                   /\ Goto(c, "hire")
                   /\ UNCHANGED <<arbitrated, arbitrator, globals, surveillance, process>>

LockRight(c) == LockIntern(c, Right(c), "right", "hire")

\* Company_hire_interns checks who holds the interns and exits if it is not
\* the caller; it then works.  Nothing ever sets `working` back to 0.
Hire(c) == /\ At(c, "hire")
           /\ IF owner[Left(c)] = c /\ owner[Right(c)] = c
              THEN working' = 1 /\ Goto(c, "work") /\ UNCHANGED process
              ELSE process' = "exit(1)" /\ UNCHANGED <<pc, working>>
           /\ UNCHANGED <<table, running, signum, rung, surveillance>>

UnlockIntern(c, i, from, to) == /\ At(c, from)
                                /\ owner' = [owner EXCEPT ![i] = Nobody]
                                /\ Goto(c, to)
                                /\ UNCHANGED <<arbitrated, arbitrator, globals, surveillance, process>>

UnlockRight(c) == UnlockIntern(c, Right(c), "work", "dropLeft")
\* Slip: the left intern is kept.
UnlockLeftForgotten(c) == /\ At(c, "dropLeft")
                          /\ Goto(c, IF arbitrated THEN "dropArbitrator" ELSE "loop")
                          /\ UNCHANGED <<table, globals, surveillance, process>>

UnlockLeft(c) == UnlockIntern(c, Left(c), "dropLeft",
                              IF arbitrated THEN "dropArbitrator" ELSE "loop")

\* The board meeting that follows changes nothing.
UnlockArbitrator(c) == /\ At(c, "dropArbitrator")
                       /\ arbitrator' = Nobody
                       /\ Goto(c, "loop")
                       /\ UNCHANGED <<arbitrated, owner, globals, surveillance, process>>

Company(c) == \/ Loop(c) \/ LockArbitrator(c) \/ LockLeft(c) \/ LockRight(c) \/ Hire(c)
              \/ UnlockRight(c) \/ UnlockLeft(c) \/ UnlockArbitrator(c)

---------------------------------------------------------------------------
(* Surveillance: lines 49-100.  The two owner fields of a company are read *)
(* one after the other while the companies run.                            *)

Watch(label) == process = "up" /\ watch = label

BeginScan == /\ Watch("sleep")
             /\ IF running THEN watch' = "left" ELSE watch' = "exiting"
             /\ next' = 0 /\ busy' = 0
             /\ UNCHANGED <<pc, table, globals, sawLeft, process>>

ReadLeft == /\ Watch("left")
            /\ sawLeft' = (owner[Left(next)] = next)
            /\ watch' = "right"
            /\ UNCHANGED <<pc, table, globals, next, busy, process>>

\* Slip: `||` for `&&`, a company with one intern counts as working.
ReadRightOr == /\ Watch("right")
               /\ busy' = IF sawLeft \/ owner[Right(next)] = next THEN busy + 1 ELSE busy
               /\ next' = next + 1
               /\ watch' = IF next + 1 = NumCompanies THEN "judge" ELSE "left"
               /\ UNCHANGED <<pc, table, globals, sawLeft, process>>

ReadRight == /\ Watch("right")
             /\ busy' = IF sawLeft /\ owner[Right(next)] = next THEN busy + 1 ELSE busy
             /\ next' = next + 1
             /\ watch' = IF next + 1 = NumCompanies THEN "judge" ELSE "left"
             /\ UNCHANGED <<pc, table, globals, sawLeft, process>>

OnlyOneIntern == \E c \in Companies : Left(c) = Right(c)

Judge == /\ Watch("judge")
         /\ watch' = IF busy = 0 /\ working = 0 /\ ~OnlyOneIntern THEN "deadlock" ELSE "sleep"
         /\ next' = 0 /\ busy' = 0 /\ sawLeft' = FALSE   \* of no further use
         /\ UNCHANGED <<pc, table, globals, process>>

\* Lines 92-98: SIGTERM to a thread that is still there ends the process.
Killing == \/ Watch("deadlock")
           \/ Watch("exiting") /\ signum = "SIGINT"
SomebodyThere == \E c \in Companies : pc[c] # "gone"

Report == /\ Killing /\ SomebodyThere
          /\ process' = "killed"
          /\ UNCHANGED <<pc, table, globals, surveillance>>

Retire == /\ watch \in {"exiting", "deadlock"} /\ process = "up"
          /\ ~(Killing /\ SomebodyThere)
          /\ watch' = "gone"
          /\ UNCHANGED <<pc, table, globals, next, sawLeft, busy, process>>

Surveillance == BeginScan \/ ReadLeft \/ ReadRight \/ Judge \/ Report \/ Retire

---------------------------------------------------------------------------
\* signalHandler, for the alarm(20) of main, which goes off once, and for any
\* number of interrupts from the keyboard.
signalHandler(sig) == /\ process = "up"
                      /\ signum' = sig /\ running' = FALSE
                      /\ UNCHANGED <<pc, table, working, surveillance, process>>

Alarm == ~rung /\ rung' = TRUE /\ signalHandler("SIGALRM")
Interrupt == signalHandler("SIGINT") /\ UNCHANGED rung

\* main joins the surveillance thread and every company, and returns.
Finish == /\ Watch("gone") /\ \A c \in Companies : pc[c] = "gone"
          /\ process' = "exit(0)"
          /\ UNCHANGED <<pc, table, globals, surveillance>>

Ended == process # "up" /\ UNCHANGED vars

Next == \/ Start \/ Surveillance \/ Alarm \/ Interrupt \/ Finish \/ Ended
        \/ \E c \in Companies : Company(c)

SafeSpec == Init /\ [][Next]_vars

\* The threads run; nothing is assumed of signals, so that a billing cycle may
\* last for any number of scans.
Spec == /\ SafeSpec
        /\ WF_vars(Start) /\ WF_vars(Surveillance) /\ WF_vars(Finish)
        /\ \A c \in Companies : WF_vars(Company(c))

---------------------------------------------------------------------------
(* Properties.                                                             *)

\* Shape of the state.
TypeOK == /\ arbitrated \in BOOLEAN
          /\ pc \in [Companies -> {"barrier", "loop", "arbitrator", "left", "right", "hire",
                                   "work", "dropLeft", "dropArbitrator", "gone"}]
          /\ owner \in [Interns -> Companies \cup {Nobody}]
          /\ arbitrator \in Companies \cup {Nobody}
          /\ working \in {0, 1} /\ running \in BOOLEAN
          /\ signum \in {"none", "SIGALRM", "SIGINT"} /\ rung \in BOOLEAN
          /\ watch \in {"barrier", "sleep", "left", "right", "judge", "deadlock", "exiting", "gone"}
          /\ next \in 0 .. NumCompanies /\ busy \in 0 .. NumCompanies
          /\ sawLeft \in BOOLEAN
          /\ process \in {"up", "exit(0)", "exit(1)", "killed"}

\* No intern works for two companies, and the checks of Company_hire_interns
\* (company.c:49-63) never stop the program.
InternsExclusive ==
  /\ process # "exit(1)"
  /\ \A c, d \in Companies :
       /\ c # d
       /\ pc[c] \in {"hire", "work"} /\ pc[d] \in {"hire", "work"}
       => {Left(c), Right(c)} \cap {Left(d), Right(d)} = {}

\* arbitrator.c:16: the arbitrator "eliminates hold and wait, since a company
\* will always get both interns or neither": it never has to wait for one.
NoHoldAndWait == arbitrated => \A c \in Companies :
  /\ pc[c] = "left" => owner[Left(c)] = Nobody
  /\ pc[c] = "right" => owner[Right(c)] = Nobody

\* The three together (company.c:37-74, bad_company.c:12-30, arbitrator.c:25-43).
Consistent == TypeOK /\ InternsExclusive /\ NoHoldAndWait

\* simulator.c:225: once the alarm has gone off the companies "finish whatever
\* they are doing" and the program comes to an end.
BillingCycleEnds == arbitrated /\ rung ~> process # "up"

\* Every company has its left intern and waits for the right one.
Stuck == process = "up" /\ \A c \in Companies : pc[c] = "right" /\ owner[Right(c)] # Nobody

\* A deadlock is noticed by the surveillance thread while the cycle lasts, if
\* it happens before any company has worked (simulator.c:77).
EarlyDeadlockReported == Stuck /\ working = 0 ~> process = "killed" \/ ~running
=============================================================================
