--------------------------- MODULE ModelChecking ---------------------------
(* The mc command as a whole, with the concrete CPA: the program is          *)
(* transformed, its analysis states are generated by the engine, and the     *)
(* search looks for one at a location flagged AssertViolated.                *)
EXTENDS Pipeline

CONSTANT MaxStates   \* bound on the analysis states of a program

States  == 1 .. MaxStates
Reject  == 0
Raise   == -1
NoGraph == [nbProc |-> 0]

VARIABLES
  graph,   \* the program as the search sees it, its states numbered
  strategy, waiting, found, nbExplored, phase, call, stored, searchee, cursor,
  verdict, searches, origins
svars == <<strategy, waiting, found, nbExplored, phase, call, stored, searchee, cursor,
           verdict, searches, origins>>
allvars == <<vars, graph, svars>>

Search == INSTANCE Reachability WITH
            prog <- graph, State <- States, Hash <- States, Programs <- {},
            Starts <- States, Goals <- {}, MaxSearches <- 1

-----------------------------------------------------------------------------
(* The analysis states and what Transfer answers for their edges. The engine *)
(* takes the default for a NonDet, so it answers one state or none.          *)

Runs == RunsOf(g, "concrete", Main)

Answer(list, c, e) ==
  LET next == Along(g, "concrete", c, e)
  IN  IF next = {} THEN Reject ELSE CHOOSE n \in DOMAIN list : list[n] \in next

EdgesOf(list, n) ==
  IF n \notin DOMAIN list THEN <<>>
  ELSE LET out == g.out[Place(list[n])] IN [k \in DOMAIN out |-> Answer(list, list[n], out[k])]

GraphOf(list) ==
  [ nbProc |-> 1, hash |-> [n \in States |-> n], infeasible |-> {},
    out |-> [n \in States |-> <<EdgesOf(list, n)>>] ]

InitialState(list) == CHOOSE n \in DOMAIN list : list[n] = FirstRun(g, Main)

\* Mutation: a goal at the location of the program only, not in its callees.
GoalInEntry(list) == { n \in DOMAIN list : Len(list[n]) = 1 /\ Fails(g, list[n]) }

\* The lambda goal of mc_main.
Goal(list) == { n \in DOMAIN list : Fails(g, list[n]) }

-----------------------------------------------------------------------------
MCInit ==
  /\ Init
  /\ graph = NoGraph
  /\ strategy = "DFS" /\ waiting = <<>> /\ found = Reject /\ nbExplored = -1
  /\ phase = "idle" /\ call = [start |-> 1, goal |-> {}] /\ stored = {}
  /\ searchee = Reject /\ cursor = [proc |-> 0, iter |-> 0, done |-> TRUE]
  /\ verdict = "None" /\ searches = 0 /\ origins = {}

Compile ==
  /\ Lower \/ Split \/ Expand \/ Unroll \/ BeginInline \/ Inline \/ Finish
  /\ UNCHANGED <<graph, svars>>

\* makeInitialState, the goal, makeTransfer and setSearchStrategy.
MakeSearch ==
  /\ stage = "done" /\ graph = NoGraph
  /\ \E runs \in {Runs} : \E list \in {Listing(runs)} :
       /\ Len(list) <= MaxStates
       /\ graph' = GraphOf(list)
       /\ call' = [start |-> InitialState(list), goal |-> Goal(list)]
  /\ strategy' \in {"DFS", "BFS"}
  /\ UNCHANGED <<vars, waiting, found, nbExplored, phase, stored, searchee, cursor,
                 verdict, searches, origins>>

StartSearch == graph # NoGraph /\ Search!Search(call.start, call.goal) /\ UNCHANGED <<vars, graph>>

SearchOn == graph # NoGraph /\ Search!Step /\ UNCHANGED <<vars, graph>>

\* The command has answered, or a pass has thrown or left the defined.
Answered == (verdict # "None" \/ g.outcome # "ok") /\ UNCHANGED allvars

MCNext == Compile \/ MakeSearch \/ StartSearch \/ SearchOn \/ Answered

MCSpec == MCInit /\ [][MCNext]_allvars

-----------------------------------------------------------------------------
\* A NonDet that is not unfolded has one value for the concrete engine.
NonDetLeft == \E e \in UNION { OutEdges(f) : f \in Func } :
                \E i \in DOMAIN g.edge[e].ins : g.edge[e].ins[i].op = "NonDet"

\* The answer of mc is the truth about the program that was loaded. "Found
\* Violation" is never wrong; "No violation found" is right when every NonDet
\* was unfolded and no run was cut off by unrolling or inlining. An assert in
\* the middle of an edge is not seen.
VerdictRight ==
  AssertsLast =>
    /\ verdict = "Found" => source.does.violated
    /\ verdict = "NotFound" /\ ~NonDetLeft /\ (\A c \in Runs : ~DeadEnd(g, c)) => ~source.does.violated
=============================================================================
