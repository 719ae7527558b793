--------------------------- MODULE MCReachability ---------------------------
(* Small instances of Reachability for TLC.                                *)
EXTENDS Reachability

MCState == 1..3
MCHash  == 1..3

Injective == [s \in MCState |-> s]
Colliding == [s \in MCState |-> IF s = 3 THEN 2 ELSE s]

\* Edge lists of at most n edges with outcomes from S.
Lists(S, n) == UNION { [1..k -> S] : k \in 0..n }

\* One process: branching, cycles, rejected and raising edges.
OneProcess ==
  { [nbProc |-> 1, out |-> [s \in MCState |-> <<f[s]>>], hash |-> h, infeasible |-> i] :
      f \in { <<a, b, c>> : a \in Lists({2, 3, Raise}, 2), b \in Lists({1, 3}, 2), c \in Lists({1, 2}, 1) \ {<<>>} },
      h \in {Injective, Colliding},
      i \in {{}, {2}} }

\* Two processes: every distribution of at most one edge per state and process.
TwoProcesses ==
  { [nbProc |-> 2, out |-> [s \in MCState |-> <<f[s], g[s]>>], hash |-> Injective, infeasible |-> {}] :
      f \in [MCState -> Lists({2, 3}, 1)], g \in [MCState -> Lists({1, 3, Reject}, 1)] }

NoProcess ==
  { [nbProc |-> 0, out |-> [s \in MCState |-> <<>>], hash |-> Injective, infeasible |-> {}] }

AllPrograms == OneProcess \cup { g \in TwoProcesses : GapFree(g) } \cup NoProcess

-----------------------------------------------------------------------------
(* The disagreements of the violation runs.                                *)

\* bin/mc.cpp calls the command "Check whether it is possible to reach an assert
\* violation": a NotFound answer should exclude reachable goals for programs
\* with several entry points too, also when one of them sits at a location
\* without outgoing edges.
NotFoundExcludesGoal ==
  verdict = "NotFound" /\ HashSeparates(prog) => Reach(prog, {call.start}) \cap call.goal = {}

GappedPrograms == TwoProcesses

\* A detour to goal 4 beside the edge to goal 3.
DetourState == 1..4
DetourPrograms ==
  { [nbProc |-> 1, out |-> [s \in DetourState |-> << <<<<3, 2>>, <<4>>, <<>>, <<>>>>[s] >>],
     hash |-> [s \in DetourState |-> s], infeasible |-> {}] }

\* States at distance at most n from the start of the search.
Within[n \in Nat] ==
  IF n = 0 THEN {call.start}
  ELSE Within[n - 1] \cup UNION { Successors(prog, s) : s \in Within[n - 1] }

\* bin/mc.cpp offers "BFS" beside "DFS" as search strategy: breadth-first search
\* reports a goal state at minimal distance from the initial state.
BFSFindsNearest ==
  [][ verdict # "Found" /\ verdict' = "Found" /\ strategy = "BFS" /\ searches = 1 =>
        \A n \in 0..Cardinality(State) : Within[n] \cap call.goal # {} => found' \in Within[n] ]_vars
=============================================================================
