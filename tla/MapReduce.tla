------------------------------ MODULE MapReduce -----------------------------
(* mapreduce/mapreduce.c and splitter.c: main makes a pipe per mapper and    *)
(* one for the reducer, forks splitters, mappers and the reducer, closes its *)
(* ends and waits for them in that order.  Whether a reader sees the end of  *)
(* its input depends on who still holds a write end.  The executables of     *)
(* mappers and reducer are external: a mapper turns each line of its input   *)
(* into a line of output, the reducer reads everything there is.  A line is  *)
(* the offset of its first byte.  Forked children come and go in any order.  *)
EXTENDS Integers, SequencesExt

CONSTANTS mapper_count,
          MaxLength,   \* bounds the bytes of the input file
          PipeSize     \* lines a pipe holds

MapReduceAssumption == mapper_count \in Nat \ {0} /\ MaxLength \in Nat

Indices == 0 .. mapper_count - 1
Splitters == {"splitter"} \X Indices
Mappers == {"mapper"} \X Indices
Reducer == <<"reducer", 0>>
Main == <<"main", 0>>
Children == Splitters \cup Mappers \cup {Reducer}

\* mapper_pipe[i], and reducer_pipe; their two ends.
Pipes == Indices \cup {mapper_count}
reducer_pipe == mapper_count
R(k) == <<k, "r">>
W(k) == <<k, "w">>
NoEnd == <<-1, "-">>

VARIABLES newlines, length,  \* the input file
          missing,           \* the programs execl does not find
          step,              \* main: children forked, then closing and waiting
          life,              \* life[c]: "unborn", "forked", "running", "exited", "killed", "reaped"
          ends_of,               \* ends_of[p]: pipe ends p holds above descriptor 1
          stdin, stdout,     \* stdin[p], stdout[p]: what dup2 left there
          todo,              \* todo[c]: lines c has read, or is to write
          pipe,              \* pipe[k]: lines in it
          output,            \* output[l]: how often the reducer has read line l
          reported           \* nonzero exit statuses printed

file == <<newlines, length, missing>>
mrVars == <<file, step, life, ends_of, stdin, stdout, todo, pipe, output, reported>>

\* The order in which main forks and in which it waits.
Order == [n \in 1 .. mapper_count |-> <<"splitter", n - 1>>]
         \o [n \in 1 .. mapper_count |-> <<"mapper", n - 1>>] \o <<Reducer>>
Forked == Len(Order)

Init == /\ length \in 0 .. MaxLength /\ newlines \in SUBSET (0 .. length - 1)
        /\ missing \in {{}, {"splitter"}, {"mapper"}, {"reducer"}}
        /\ step = 0
        /\ life = [c \in Children |-> "unborn"]
        /\ ends_of = [p \in Children \cup {Main} |-> IF p = Main THEN Pipes \X {"r", "w"} ELSE {}]
        /\ stdin = [c \in Children |-> NoEnd] /\ stdout = stdin
        /\ todo = [c \in Children |-> <<>>]
        /\ pipe = [k \in Pipes |-> <<>>]
        /\ output = [l \in 0 .. MaxLength - 1 |-> 0]
        /\ reported = {}

---------------------------------------------------------------------------
(* splitter.c                                                              *)

Lines == {l \in 0 .. length - 1 : l = 0 \/ l - 1 \in newlines}

\* The byte after the next newline, or the end.
nextLine(p) == LET ends == {e \in p + 1 .. length : e = length \/ e - 1 \in newlines}
               IN  IF ends = {} THEN length ELSE CHOOSE e \in ends : \A f \in ends : e <= f

start_offset(i) == (length * i) \div mapper_count

\* Slip: every splitter but the first starts at the line its offset is in.
start_ptrBefore(i) == IF i = 0 \/ start_offset(i) \in Lines THEN start_offset(i)
                      ELSE nextLine(start_offset(i))

start_ptr(i) == IF i = 0 THEN 0 ELSE nextLine(start_offset(i))
end_ptr(i) == IF i = mapper_count - 1 THEN length ELSE nextLine(start_offset(i + 1))

portion(i) == {l \in Lines : start_ptr(i) <= l /\ l < end_ptr(i)}

\* The lines of it, each once and in order.
write_portion(i) ==
  CHOOSE s \in [1 .. Cardinality(portion(i)) -> portion(i)] :
    Range(s) = portion(i) /\ \A j, k \in DOMAIN s : j < k => s[j] < s[k]

---------------------------------------------------------------------------
(* Pipes, as the kernel keeps them.                                        *)

Holds(p, end) == \/ end \in ends_of[p]
                 \/ p # Main /\ end \in {stdin[p], stdout[p]}
Held(end) == \E p \in Children \cup {Main} : Holds(p, end)

\* c has closed everything, whatever ended it.
Gone(c, how) == /\ life' = [life EXCEPT ![c] = how]
                /\ ends_of' = [ends_of EXCEPT ![c] = {}]
                /\ stdin' = [stdin EXCEPT ![c] = NoEnd]
                /\ stdout' = [stdout EXCEPT ![c] = NoEnd]

WriteTo(c, line) ==
  LET k == stdout[c][1]
  IN  \/ /\ ~Held(R(k))            \* SIGPIPE
         /\ Gone(c, "killed")
         /\ UNCHANGED <<todo, pipe>>
      \/ /\ Held(R(k)) /\ Len(pipe[k]) < PipeSize
         /\ pipe' = [pipe EXCEPT ![k] = Append(@, line)]
         /\ todo' = [todo EXCEPT ![c] = Tail(@)]
         /\ UNCHANGED <<life, ends_of, stdin, stdout>>

AtEnd(c) == pipe[stdin[c][1]] = <<>> /\ ~Held(W(stdin[c][1]))

---------------------------------------------------------------------------
(* The children.                                                           *)

\* What a child does to its descriptors before execl.
Setup(c) == CASE c \in Splitters -> [in |-> NoEnd, out |-> W(c[2])]
              [] c \in Mappers -> [in |-> R(c[2]), out |-> W(reducer_pipe)]
              [] c = Reducer -> [in |-> R(reducer_pipe), out |-> NoEnd]

\* close, dup2, execl: the pipes are O_CLOEXEC, descriptors 0 and 1 are not.
Exec(c) == /\ life[c] = "forked" /\ c[1] \notin missing
           /\ life' = [life EXCEPT ![c] = "running"]
           /\ ends_of' = [ends_of EXCEPT ![c] = {}]
           /\ stdin' = [stdin EXCEPT ![c] = Setup(c).in]
           /\ stdout' = [stdout EXCEPT ![c] = Setup(c).out]
           /\ todo' = [todo EXCEPT ![c] = IF c \in Splitters THEN write_portion(c[2]) ELSE <<>>]
           /\ UNCHANGED <<file, step, pipe, output, reported>>

\* execl returns: exit(1).
ExecFails(c) == /\ life[c] = "forked" /\ c[1] \in missing
                /\ Gone(c, "exited")
                /\ UNCHANGED <<file, step, todo, pipe, output, reported>>

Running(c) == life[c] = "running"

Write(c) == /\ Running(c) /\ todo[c] # <<>> /\ c # Reducer
            /\ WriteTo(c, Head(todo[c]))
            /\ UNCHANGED <<file, step, output, reported>>

Map(c) == /\ Running(c) /\ c \in Mappers /\ todo[c] = <<>>
          /\ LET k == stdin[c][1]
             IN  /\ pipe[k] # <<>>
                 /\ todo' = [todo EXCEPT ![c] = <<Head(pipe[k])>>]
                 /\ pipe' = [pipe EXCEPT ![k] = Tail(@)]
          /\ UNCHANGED <<file, step, life, ends_of, stdin, stdout, output, reported>>

Reduce == /\ Running(Reducer) /\ pipe[reducer_pipe] # <<>>
          /\ output' = [output EXCEPT ![Head(pipe[reducer_pipe])] = @ + 1]
          /\ pipe' = [pipe EXCEPT ![reducer_pipe] = Tail(@)]
          /\ UNCHANGED <<file, step, life, ends_of, stdin, stdout, todo, reported>>

Exit(c) == /\ Running(c) /\ todo[c] = <<>>
           /\ (c \notin Splitters => AtEnd(c))
           /\ Gone(c, "exited")
           /\ UNCHANGED <<file, step, todo, pipe, output, reported>>

Child(c) == Exec(c) \/ ExecFails(c) \/ Write(c) \/ Map(c) \/ Exit(c)

---------------------------------------------------------------------------
(* main                                                                    *)

Fork == /\ step < Forked
        /\ LET c == Order[step + 1]
           IN  /\ life' = [life EXCEPT ![c] = "forked"]
               /\ ends_of' = [ends_of EXCEPT ![c] = ends_of[Main]]
        /\ step' = step + 1
        /\ UNCHANGED <<file, stdin, stdout, todo, pipe, output, reported>>

\* Slip: main keeps its ends of the reducer's pipe.
CloseSome == /\ step = Forked
             /\ ends_of' = [ends_of EXCEPT ![Main] = @ \ (Indices \X {"r", "w"})]
             /\ step' = step + 1
             /\ UNCHANGED <<file, life, stdin, stdout, todo, pipe, output, reported>>

\* Both ends of the reducer's pipe, then close_mapper_pipe.
Close == /\ step = Forked
         /\ ends_of' = [ends_of EXCEPT ![Main] = {}]
         /\ step' = step + 1
         /\ UNCHANGED <<file, life, stdin, stdout, todo, pipe, output, reported>>

\* wait_finish: waitpid for each child; a status is printed if there is one.
wait_finish == /\ step \in Forked + 1 .. 2 * Forked
               /\ LET c == Order[step - Forked]
                  IN  /\ life[c] \in {"exited", "killed"}
                      /\ life' = [life EXCEPT ![c] = "reaped"]
                      /\ reported' = IF life[c] = "exited" /\ c[1] \in missing
                                     THEN reported \cup {c} ELSE reported
               /\ step' = step + 1
               /\ UNCHANGED <<file, ends_of, stdin, stdout, todo, pipe, output>>

Parent == Fork \/ Close \/ wait_finish
Done == step = 2 * Forked + 1
Terminated == Done /\ UNCHANGED mrVars

Next == Parent \/ Reduce \/ (\E c \in Children : Child(c)) \/ Terminated

SafeSpec == Init /\ [][Next]_mrVars

\* Every process runs on.
Spec == /\ SafeSpec
        /\ WF_mrVars(Parent) /\ WF_mrVars(Reduce)
        /\ \A c \in Children : WF_mrVars(Child(c))

---------------------------------------------------------------------------
(* Properties.                                                             *)

\* Nobody waits for ever for the end of a pipe that somebody holds open, or for
\* room in one that nobody reads: main reaps its last child, whatever is missing
\* (mapreduce.c:85-125).
NobodyHangs == <>Done

\* splitter.c:13: "If the output files are concatenated in order, the result is
\* the same as the input file."  With all programs there each line reaches the
\* reducer once; with one missing its exits are printed, and nothing is counted
\* twice (mapreduce.c:113-119).
EveryLineOnce ==
  /\ \A l \in DOMAIN output : output[l] <= 1 /\ (output[l] = 1 => l \in Lines)
  /\ Done => IF missing = {} THEN \A l \in Lines : output[l] = 1
             ELSE reported = {c \in Children : c[1] \in missing}
=============================================================================
