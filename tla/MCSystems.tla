----------------------------- MODULE MCSystems -----------------------------
(* Six programs that share nothing: a behaviour is one of these programs.   *)
EXTENDS MCFiles, MCMemory, TLC

CONSTANTS FileNames, DATA_NUMBER, BS, NUM_DIRECT_INODES, CHAR,
          MaxCount, MaxFsCalls,                                      \* MiniFS
          Elements, Default, INITIAL_CAPACITY, MaxVector             \* Vector

VARIABLES program,
          fs, content, strayed, fs_calls,
          size, capacity, array, elements, misused

\* Fewer requests of more sizes: 0, too, and what came may be the same int as a size
\* though not equal.
Wide == INSTANCE FileServer WITH NumRequests <- 2, PutSizes <- 0 .. 2, MaxBody <- 2
Disk == INSTANCE MiniFS WITH calls <- fs_calls, MaxCalls <- MaxFsCalls
Vec == INSTANCE Vector WITH expected <- elements, MaxSize <- MaxVector

fsVars == <<fs, content, strayed, fs_calls>>
vecVars == <<size, capacity, array, elements, misused>>
vars == <<program, fileVars, vmVars, heapVars, fsVars, leakVars, vecVars>>

Init == /\ program \in {"files", "wide files", "memory", "malloc", "minixfs", "valgrind", "vector"}
        /\ IF program = "wide files" THEN Wide!Init ELSE Files!Init
        /\ VM!Init /\ Malloc!Init /\ Disk!Init /\ Leaks!Init /\ Vec!Init
        /\ program # "minixfs" => fs.names = {}

Next == /\ UNCHANGED program
        /\ \/ /\ \/ program = "files" /\ Files!Next
                 \/ program = "wide files" /\ Wide!Next
              /\ UNCHANGED <<vmVars, heapVars, fsVars, leakVars, vecVars>>
           \/ /\ program = "memory" /\ VM!Next
              /\ UNCHANGED <<fileVars, heapVars, fsVars, leakVars, vecVars>>
           \/ /\ program = "malloc" /\ Malloc!Next
              /\ UNCHANGED <<fileVars, vmVars, fsVars, leakVars, vecVars>>
           \/ /\ program = "minixfs" /\ Disk!Next
              /\ UNCHANGED <<fileVars, vmVars, heapVars, leakVars, vecVars>>
           \/ /\ program = "valgrind" /\ Leaks!Next
              /\ UNCHANGED <<fileVars, vmVars, heapVars, fsVars, vecVars>>
           \/ /\ program = "vector" /\ Vec!Next
              /\ UNCHANGED <<fileVars, vmVars, heapVars, fsVars, leakVars>>

\* None of the six promises progress.
Spec == Init /\ [][Next]_vars

\* The length of every file name, of one letter.
OneEach == [n \in Names |-> 1]

\* minixfs never orders the names, and all the properties are invariants.
AnyFileName == Permutations(FileNames)

---------------------------------------------------------------------------
(* Properties, stated in the module of each program.  Those of files and     *)
(* memory are in MCFiles and MCMemory.                                       *)

\* minixfs.c: a file holds what was written to it, in blocks of its own.
FilesKept == program = "minixfs" => Disk!FilesKept
\* vector.c: a vector is the sequence its calls describe.
IsSequence == program = "vector" => Vec!IsSequence
=============================================================================
