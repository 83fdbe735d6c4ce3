---------------------------- MODULE ParMakeOrder ----------------------------
(* What main does in parallel_make before it creates a worker: the parser    *)
(* builds the dependency graph (parser.c), and iscycle (parmake.c:31-71)     *)
(* searches it depth first, decides whether the goals are buildable and      *)
(* pushes each rule it finishes into the queue.  The recursion of iscycle is *)
(* the stack of its pending calls.  A vertex is 0, the sentinel "" whose     *)
(* neighbours are the goals, or a rule; rules are numbered in the order in   *)
(* which the makefile mentions them.                                         *)
EXTENDS FIFO, FiniteSets, SequencesExt

CONSTANTS NumRules,
          MaxEdges, MaxGoals   \* bounds on the makefiles that are tried

ASSUME OrderAssumption == /\ NumRules \in Nat \ {0} /\ MaxEdges \in Nat /\ MaxGoals \in Nat
                          /\ MaxSize <= 0   \* queue_create(-1)

Sentinel == 0
Vertices == 0 .. NumRules

VARIABLES main,    \* how far main has come: "parse", "search", "ordered", "build"
          nbs,     \* nbs[v]: graph_neighbors(g, v)
          state,   \* the rules with rule->state = 1
          data,    \* data[v]: rule->data
          stack,   \* the pending calls of iscycle, the innermost last
          cyclic   \* what iscycle("") has returned

marks == <<state, data>>
orderVars == <<items, main, nbs, marks, stack, cyclic>>

OrderInit == /\ main = "parse"
             /\ nbs = [v \in Vertices |-> <<>>]
             /\ state = {} /\ data = [v \in Vertices |-> "NULL"]
             /\ stack = <<>> /\ cyclic = FALSE
             /\ items = <<>>

---------------------------------------------------------------------------
(* parser_parse_makefile: the edges of the rules, then those of the goals. *)

Edges == {e \in Vertices \X Vertices : e[2] \in Range(nbs[e[1]])}
Mentioned == {v \in Vertices : \E e \in Edges : v \in {e[1], e[2]}} \cup {Sentinel}
Mentionable(V) == V \cup {Cardinality(V)}

AddEdge(v, w) == /\ w \in Mentionable(Mentioned \cup {v}) \ {Sentinel}
                 /\ <<v, w>> \notin Edges
                 /\ nbs' = [nbs EXCEPT ![v] = Append(@, w)]
                 /\ UNCHANGED <<items, main, marks, stack, cyclic>>

AddDependency == /\ main = "parse" /\ nbs[Sentinel] = <<>>
                 /\ Cardinality(Edges) < MaxEdges
                 /\ \E v \in Mentionable(Mentioned) \ {Sentinel}, w \in Vertices :
                       v \in Vertices /\ AddEdge(v, w)

AddGoal == /\ main = "parse" /\ Len(nbs[Sentinel]) < MaxGoals
           /\ \E w \in Vertices : AddEdge(Sentinel, w)

---------------------------------------------------------------------------
(* iscycle.                                                                *)

\* Lines 42-49: the call that meets v for the first time.
Open(v) == /\ state' = state \cup {v}
           /\ data' = [data EXCEPT ![v] = "visited"]

\* iscycle("") of line 231.
Begin == /\ main = "parse" /\ nbs[Sentinel] # <<>>
         /\ main' = "search"
         /\ Open(Sentinel)
         /\ stack' = <<[target |-> Sentinel, i |-> 1]>>
         /\ UNCHANGED <<items, nbs, cyclic>>

Call == Last(stack)
Neighbours == nbs[Call.target]

AtNeighbour == main = "search" /\ Call.i <= Len(Neighbours)
nb == Neighbours[Call.i]
NextNeighbour == [stack EXCEPT ![Len(stack)] = [target |-> Call.target, i |-> Call.i + 1]]

\* Slip: the rule is queued when it is opened, before its dependencies.
DescendEarly == /\ AtNeighbour /\ nb \notin state
                /\ Open(nb)
                /\ stack' = Append(NextNeighbour, [target |-> nb, i |-> 1])
                /\ Enqueue(nb)
                /\ UNCHANGED <<main, nbs, cyclic>>

Descend == /\ AtNeighbour /\ nb \notin state
           /\ Open(nb)
           /\ stack' = Append(NextNeighbour, [target |-> nb, i |-> 1])
           /\ UNCHANGED <<items, main, nbs, cyclic>>

\* Lines 35-40: a rule met again is no cycle when its call has returned...
PassBy == /\ AtNeighbour /\ nb \in state /\ data[nb] # "visited"
          /\ stack' = NextNeighbour
          /\ UNCHANGED <<items, main, nbs, marks, cyclic>>

\* ... and a cycle when it is still pending; every call returns 1 (line 64).
MeetCycle == /\ AtNeighbour /\ nb \in state /\ data[nb] = "visited"
             /\ cyclic' = TRUE
             /\ stack' = <<>> /\ main' = "ordered"
             /\ UNCHANGED <<items, nbs, marks>>

\* Slip: the mark is not taken back when the vertex is finished.
CloseKeepsMark == /\ main = "search" /\ ~AtNeighbour
                  /\ Enqueue(Call.target)
                  /\ stack' = Front(stack)
                  /\ main' = IF Len(stack) = 1 THEN "ordered" ELSE "search"
                  /\ UNCHANGED <<nbs, marks, cyclic>>

\* Lines 66-70.
Close == /\ main = "search" /\ ~AtNeighbour
         /\ data' = [data EXCEPT ![Call.target] = "unvisited"]
         /\ Enqueue(Call.target)
         /\ stack' = Front(stack)
         /\ main' = IF Len(stack) = 1 THEN "ordered" ELSE "search"
         /\ UNCHANGED <<nbs, state, cyclic>>

iscycle == Descend \/ PassBy \/ MeetCycle \/ Close

OrderNext == AddDependency \/ AddGoal \/ Begin \/ iscycle
OrderSpec == OrderInit /\ [][OrderNext]_orderVars

---------------------------------------------------------------------------
(* Properties.                                                             *)

\* Reference definitions: what can be reached along edges, and who is on a cycle.
ClosedUnderEdges(V) == \A v \in V : Range(nbs[v]) \subseteq V
Reach(V) == {w \in Vertices : \A U \in SUBSET Vertices : V \subseteq U /\ ClosedUnderEdges(U) => w \in U}
Needed == Reach({Sentinel})
OnCycle(v) == v \in Reach(Range(nbs[v]))

\* iscycle finds a cycle exactly when the goals depend on one (line 36: a
\* vertex met again is a cycle only while its call is pending).
FindsCycles == main = "ordered" => cyclic = \E v \in Needed : OnCycle(v)

\* Without a cycle the queue holds each rule the goals need, once.
QueuesWhatIsNeeded == main = "ordered" /\ ~cyclic => Range(items) = Needed /\ IsInjective(items)

\* Both: what iscycle returns and what it queues are right (parmake.c:31-71).
SearchRight == FindsCycles /\ QueuesWhatIsNeeded

\* A worker never waits for a rule behind its own in the queue: dependencies
\* come first, also in what a search that met a cycle leaves in the queue.
DependenciesFirst == main \in {"search", "ordered"} =>
  \A n \in DOMAIN items : Range(nbs[items[n]]) \subseteq Range(SubSeq(items, 1, n - 1))
=============================================================================
