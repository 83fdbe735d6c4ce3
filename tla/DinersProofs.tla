---------------------------- MODULE DinersProofs ----------------------------
(* Proofs about deadlocked_diners for every number of companies and interns. *)
EXTENDS Diners, Integers, TLAPS

\* Where a company holds its left intern, and where it holds both.
HasLeft == {"right", "hire", "work", "dropLeft"}
HasBoth == {"hire", "work"}
\* Where an arbitrated company holds the arbitrator.
InTurn == HasLeft \cup {"left", "dropArbitrator"}

\* A company that should hold an intern does.
HoldsOK == \A c \in Companies :
  /\ pc[c] \in HasLeft => owner[Left(c)] = c
  /\ pc[c] \in HasBoth => owner[Right(c)] = c
  /\ pc[c] \in HasBoth \cup {"dropLeft"} => Left(c) # Right(c)

\* An intern that is held is held by a company that has use for it.
HeldOK == \A i \in Interns : owner[i] # Nobody =>
  \/ pc[owner[i]] \in HasLeft /\ i = Left(owner[i])
  \/ pc[owner[i]] \in HasBoth /\ i = Right(owner[i])

\* One company at a time is in the arbitrator's turn.
TurnOK == arbitrated => \A c \in Companies : pc[c] \in InTurn => arbitrator = c

\* Nobody has begun before surveillance has.
StartOK == watch = "barrier" =>
  /\ \A c \in Companies : pc[c] = "barrier"
  /\ \A i \in Interns : owner[i] = Nobody

\* The scan never leaves the table, and counts each company once.
ScanOK == watch \in {"left", "right"} => next < NumCompanies /\ busy <= next

\* The inductive invariant.
Safe == /\ TypeOK
        /\ ScanOK
        /\ StartOK
        /\ HoldsOK
        /\ HeldOK
        /\ TurnOK
        /\ process # "exit(1)"

---------------------------------------------------------------------------
\* Where a company sits.
LEMMA Seats == \A c \in Companies : Left(c) \in Interns /\ Right(c) \in Interns
BY DinersAssumption DEF Companies, Interns, Left, Right

LEMMA NobodyIsNoCompany == Nobody \notin Companies
BY DinersAssumption DEF Nobody, Companies

\* One is a multiple of nothing larger.
LEMMA OneIsNoMultiple ==
  ASSUME NEW n \in Nat, n > 1, NEW k \in Int
  PROVE  n * k # 1
<1>1. CASE k <= 0
  BY <1>1, SMT
<1>2. CASE k >= 1
  BY <1>2, SMT
<1> QED BY <1>1, <1>2

\* Neighbours have different remainders.
LEMMA NeighboursDiffer ==
  ASSUME NEW n \in Nat, n > 1, NEW a \in Nat
  PROVE  a % n # (a + 1) % n
<1> SUFFICES ASSUME a % n = (a + 1) % n PROVE FALSE
  OBVIOUS
<1> DEFINE q == a \div n
           p == (a + 1) \div n
           r == a % n
<1>1. a = n * q + r /\ q \in Int /\ r \in Int
  BY SMT
<1>2. a + 1 = n * p + r /\ p \in Int
  <2>1. a + 1 = n * p + ((a + 1) % n) /\ p \in Int
    BY SMT
  <2> QED BY <2>1
<1> HIDE DEF q, p, r
<1>3. n * q \in Int /\ n * p \in Int
  BY <1>1, <1>2
<1>4. n * p - n * q = 1
  BY <1>1, <1>2, <1>3
<1>5. n * (p - q) = 1
  BY <1>1, <1>2, <1>4
<1>6. p - q \in Int
  BY <1>1, <1>2
<1> QED BY ONLY <1>5, <1>6, n \in Nat, n > 1, OneIsNoMultiple

\* Between two interns or more everybody sits between two.
LEMMA TwoInterns == NumInterns > 1 => \A c \in Companies : Left(c) # Right(c)
<1> SUFFICES ASSUME NumInterns > 1, NEW c \in Companies PROVE c % NumInterns # (c + 1) % NumInterns
  BY DEF Left, Right
<1>1. NumInterns \in Nat /\ c \in Nat
  BY DinersAssumption DEF Companies
<1> QED BY ONLY <1>1, NumInterns > 1, NeighboursDiffer

---------------------------------------------------------------------------
\* The program before its barrier.
LEMMA InitSafe == Init => Safe
<1> SUFFICES ASSUME Init PROVE Safe
  OBVIOUS
<1> USE DinersAssumption, NobodyIsNoCompany DEF Init
<1>1. TypeOK
  <2>1. /\ pc \in [Companies -> {"barrier"}]
        /\ owner \in [Interns -> Companies \cup {Nobody}]
        /\ next \in 0 .. NumCompanies /\ busy \in 0 .. NumCompanies
    OBVIOUS
  <2>2. /\ arbitrator \in Companies \cup {Nobody} /\ working \in {0, 1}
        /\ running \in BOOLEAN /\ rung \in BOOLEAN /\ sawLeft \in BOOLEAN
        /\ arbitrated \in BOOLEAN
    OBVIOUS
  <2> QED BY <2>1, <2>2 DEF TypeOK
<1>2. HoldsOK /\ HeldOK /\ TurnOK /\ StartOK /\ ScanOK
  <2>1. \A c \in Companies : pc[c] = "barrier"
    OBVIOUS
  <2>2. \A i \in Interns : owner[i] = Nobody
    OBVIOUS
  <2> QED BY <2>1, <2>2 DEF HoldsOK, HeldOK, TurnOK, StartOK, ScanOK, HasLeft, HasBoth, InTurn
<1> QED BY <1>1, <1>2 DEF Safe

\* A company looks at running, or is given or gives up the arbitrator.
LEMMA TurnSafe ==
  ASSUME Safe, NEW c \in Companies, Loop(c) \/ LockArbitrator(c) \/ UnlockArbitrator(c)
  PROVE  Safe'
<1> USE NobodyIsNoCompany
     DEF Safe, Loop, LockArbitrator, UnlockArbitrator, At, Goto, table, globals, surveillance,
         HasLeft, HasBoth, InTurn
<1>1. TypeOK'
  BY DEF TypeOK
<1>2. HoldsOK'
  BY DEF TypeOK, HoldsOK, Left, Right
<1>3. HeldOK'
  BY DEF TypeOK, HeldOK, Left, Right
<1>4. TurnOK' /\ StartOK' /\ ScanOK'
  BY DEF TypeOK, TurnOK, StartOK, ScanOK
<1> QED BY <1>1, <1>2, <1>3, <1>4

\* A company locks its first or its second intern.
LEMMA LockSafe ==
  ASSUME Safe, NEW c \in Companies, LockLeft(c) \/ LockRight(c)
  PROVE  Safe'
<1> USE NobodyIsNoCompany, Seats
     DEF Safe, LockLeft, LockRight, LockIntern, At, Goto, globals, surveillance,
         HasLeft, HasBoth, InTurn
<1>1. TypeOK'
  BY DEF TypeOK
<1>2. HoldsOK'
  BY DEF TypeOK, HoldsOK
<1>3. HeldOK'
  BY DEF TypeOK, HeldOK
<1>4. TurnOK' /\ StartOK' /\ ScanOK'
  BY DEF TypeOK, TurnOK, StartOK, ScanOK
<1> QED BY <1>1, <1>2, <1>3, <1>4

\* Company_hire_interns finds the interns with the caller.
LEMMA HireSafe ==
  ASSUME Safe, NEW c \in Companies, Hire(c)
  PROVE  Safe'
<1> USE DEF Safe, Hire, At, Goto, table, surveillance, HasLeft, HasBoth, InTurn
<1>1. owner[Left(c)] = c /\ owner[Right(c)] = c
  BY DEF HoldsOK
<1>2. TypeOK'
  BY <1>1 DEF TypeOK
<1>3. HoldsOK'
  BY <1>1 DEF TypeOK, HoldsOK, Left, Right
<1>4. HeldOK'
  BY <1>1 DEF TypeOK, HeldOK, Left, Right
<1>5. TurnOK' /\ StartOK' /\ ScanOK'
  BY <1>1 DEF TypeOK, TurnOK, StartOK, ScanOK
<1> QED BY <1>1, <1>2, <1>3, <1>4, <1>5

\* A company lets its interns go, the right one first.
LEMMA UnlockSafe ==
  ASSUME Safe, NEW c \in Companies, UnlockRight(c) \/ UnlockLeft(c)
  PROVE  Safe'
<1> USE NobodyIsNoCompany, Seats
     DEF Safe, UnlockRight, UnlockLeft, UnlockIntern, At, Goto, globals, surveillance,
         HasLeft, HasBoth, InTurn
<1>1. TypeOK'
  BY DEF TypeOK
<1>2. HoldsOK'
  BY DEF TypeOK, HoldsOK
<1>3. HeldOK'
  BY DEF TypeOK, HeldOK
<1>4. TurnOK' /\ StartOK' /\ ScanOK'
  BY DEF TypeOK, TurnOK, StartOK, ScanOK
<1> QED BY <1>1, <1>2, <1>3, <1>4

\* Everybody passes the barrier.
LEMMA StartSafe == ASSUME Safe, Start PROVE Safe'
<1> USE DEF Safe, Start, table, globals
<1>1. TypeOK'
  BY DEF TypeOK
<1>2. HoldsOK' /\ TurnOK' /\ StartOK' /\ ScanOK'
  BY DEF TypeOK, HoldsOK, TurnOK, StartOK, ScanOK, HasLeft, HasBoth, InTurn
<1>3. HeldOK'
  BY DEF StartOK, HeldOK
<1> QED BY <1>1, <1>2, <1>3

\* Surveillance reads the table and never moves anything on it.
LEMMA SurveillanceSafe == ASSUME Safe, Surveillance PROVE Safe'
<1>1. UNCHANGED <<pc, table, globals>>
  BY DEF Surveillance, BeginScan, ReadLeft, ReadRight, Judge, Report, Retire, surveillance
<1>2. /\ process' \in {"up", "exit(0)", "killed"} \cup {process}
      /\ watch' = "barrier" => watch = "barrier"
  BY DEF Surveillance, BeginScan, ReadLeft, ReadRight, Judge, Report, Retire, surveillance, Watch
<1>3. ScanOK' /\ next' \in 0 .. NumCompanies /\ busy' \in 0 .. NumCompanies
  <2> USE DinersAssumption DEF Safe, TypeOK, ScanOK
  <2>1. CASE BeginScan
    BY <2>1 DEF BeginScan
  <2>2. CASE ReadLeft
    BY <2>2 DEF ReadLeft, Watch
  <2>3. CASE ReadRight
    <3>1. next \in Nat /\ busy \in Nat /\ next < NumCompanies /\ busy <= next
      BY <2>3 DEF ReadRight, Watch
    <3>2. /\ next' = next + 1 /\ busy' \in {busy, busy + 1}
          /\ watch' = IF next + 1 = NumCompanies THEN "judge" ELSE "left"
      BY <2>3 DEF ReadRight
    <3> QED BY <3>1, <3>2
  <2>4. CASE Judge
    BY <2>4 DEF Judge
  <2>5. CASE Report \/ Retire
    BY <2>5 DEF Report, Retire, surveillance
  <2> QED BY <2>1, <2>2, <2>3, <2>4, <2>5 DEF Surveillance
<1>4. TypeOK'
  <2>1. /\ watch' \in {"barrier", "sleep", "left", "right", "judge", "deadlock", "exiting", "gone"}
        /\ sawLeft' \in BOOLEAN
    BY DEF Safe, TypeOK, Surveillance, BeginScan, ReadLeft, ReadRight, Judge, Report, Retire,
           surveillance
  <2> QED BY <1>1, <1>2, <1>3, <2>1 DEF Safe, TypeOK, table, globals
<1>5. HoldsOK' /\ HeldOK' /\ TurnOK' /\ StartOK'
  BY <1>1, <1>2 DEF Safe, HoldsOK, HeldOK, TurnOK, StartOK, table, Left, Right
<1> QED BY <1>2, <1>3, <1>4, <1>5 DEF Safe

\* Signals, the end of the process, and steps that change nothing.
LEMMA OtherSafe ==
  ASSUME Safe, Alarm \/ Interrupt \/ Finish \/ UNCHANGED vars
  PROVE  Safe'
<1>1. /\ UNCHANGED <<pc, table, working, surveillance>>
      /\ process' \in {process, "exit(0)"}
      /\ running' \in BOOLEAN /\ rung' \in BOOLEAN /\ signum' \in {"none", "SIGALRM", "SIGINT"}
  BY DEF Alarm, Interrupt, signalHandler, Finish, vars, globals, Safe, TypeOK
<1>2. TypeOK'
  BY <1>1 DEF Safe, TypeOK, table, surveillance
<1>3. HoldsOK' /\ HeldOK' /\ TurnOK' /\ StartOK' /\ ScanOK'
  BY <1>1 DEF Safe, HoldsOK, HeldOK, TurnOK, StartOK, ScanOK, table, surveillance, Left, Right
<1> QED BY <1>1, <1>2, <1>3 DEF Safe

LEMMA StepSafe == Safe /\ [Next]_vars => Safe'
<1> SUFFICES ASSUME Safe, [Next]_vars PROVE Safe'
  OBVIOUS
<1>1. CASE \E c \in Companies : Company(c)
  <2> PICK c \in Companies : Company(c)
    BY <1>1
  <2>1. CASE Loop(c) \/ LockArbitrator(c) \/ UnlockArbitrator(c)
    BY <2>1, TurnSafe
  <2>2. CASE LockLeft(c) \/ LockRight(c)
    BY <2>2, LockSafe
  <2>3. CASE Hire(c)
    BY <2>3, HireSafe
  <2>4. CASE UnlockRight(c) \/ UnlockLeft(c)
    BY <2>4, UnlockSafe
  <2> QED BY <2>1, <2>2, <2>3, <2>4 DEF Company
<1>2. CASE Start
  BY <1>2, StartSafe
<1>3. CASE Surveillance
  BY <1>3, SurveillanceSafe
<1>4. CASE Alarm \/ Interrupt \/ Finish \/ UNCHANGED vars
  BY <1>4, OtherSafe
<1> QED BY <1>1, <1>2, <1>3, <1>4 DEF Next, Ended

\* The inductive invariant holds in every reachable state.
LEMMA AlwaysSafe == Spec => []Safe
BY InitSafe, StepSafe, PTL DEF Spec, SafeSpec

---------------------------------------------------------------------------
\* No intern works for two companies and company.c:49-63 never ends the program,
\* whatever the build and however many sit at the table.
THEOREM DinersInternsExclusive == Spec => []InternsExclusive
<1>1. Safe => InternsExclusive
  BY DEF Safe, HoldsOK, HasLeft, HasBoth, InternsExclusive
<1> QED BY <1>1, AlwaysSafe, PTL

\* The arbitrator rules hold-and-wait out when there is more than one intern; with
\* one, left and right are the same mutex (arbitrator.c:16-43).
THEOREM DinersConsistent == NumInterns > 1 => (Spec => []Consistent)
<1> SUFFICES ASSUME NumInterns > 1 PROVE Spec => []Consistent
  OBVIOUS
<1>1. Safe => NoHoldAndWait
  <2> SUFFICES ASSUME Safe, arbitrated, NEW c \in Companies
               PROVE  /\ pc[c] = "left" => owner[Left(c)] = Nobody
                      /\ pc[c] = "right" => owner[Right(c)] = Nobody
    BY DEF NoHoldAndWait
  <2> USE DEF HasLeft, HasBoth, InTurn
  <2>1. ASSUME pc[c] \in {"left", "right"}, NEW i \in Interns, owner[i] # Nobody
        PROVE  owner[i] = c
    <3>1. owner[i] \in Companies /\ pc[owner[i]] \in InTurn
      BY <2>1 DEF Safe, TypeOK, HeldOK
    <3> QED BY <2>1, <3>1 DEF Safe, TurnOK
  <2>2. ASSUME pc[c] = "left" PROVE owner[Left(c)] = Nobody
    BY <2>1, <2>2, Seats DEF Safe, HeldOK
  <2>3. ASSUME pc[c] = "right" PROVE owner[Right(c)] = Nobody
    BY <2>1, <2>3, Seats, TwoInterns DEF Safe, HeldOK
  <2> QED BY <2>2, <2>3
<1>2. Safe => InternsExclusive
  BY DEF Safe, HoldsOK, HasLeft, HasBoth, InternsExclusive
<1>3. Safe => Consistent
  BY <1>1, <1>2 DEF Safe, Consistent
<1> QED BY <1>3, AlwaysSafe, PTL
=============================================================================
