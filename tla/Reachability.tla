---------------------------- MODULE Reachability ----------------------------
(***************************************************************************)
(* algorithms/reachability: the worklist search behind the mc and enum     *)
(* commands. One Reachability object is built for a program; it may be     *)
(* searched several times, and its waiting list outlives a search that     *)
(* returns Found or is left by an exception. The set of stored hashes is   *)
(* local to one search.                                                    *)
(***************************************************************************)
EXTENDS StateGraph, TransitionEnumerator

CONSTANTS Programs,     \* programs the object may be built for
          Starts,       \* initial states callers search from
          Goals,        \* goal predicates callers pass, as sets of states
          MaxSearches   \* bound on the calls of search on one object

ASSUME ProgramsOK == Programs \subseteq Program
ASSUME CallsOK    == Starts \subseteq State /\ Goals \subseteq SUBSET State
ASSUME BoundOK    == MaxSearches \in Nat

VARIABLES
  prog,       \* the program the transfer was made for
  strategy,   \* the kind of the waiting list
  waiting,    \* _internal->waiting, front first
  found,      \* _internal->found; Reject stands for the empty AnalysisState
  nbExplored, \* _internal->nbExploredStates; -1 before the first write
  phase,      \* where the code is: idle, at the loop head, in the for loop
  call,       \* arguments of the current or last search
  stored,     \* local: hashes in HashStorage
  searchee,   \* local: the state being expanded
  cursor,     \* local: the TransitionEnumerator
  verdict,    \* what the last search returned; None while it runs or if it threw
  searches,   \* number of searches begun (bounded)
  origins     \* history: starts of the searches that fed the waiting list

vars == <<prog, strategy, waiting, found, nbExplored, phase, call, stored,
          searchee, cursor, verdict, searches, origins>>

config == <<prog, strategy>>

-----------------------------------------------------------------------------
(* The waiting lists. DFSList pushes and pops at the front; BFSList pushes *)
(* and pops at the back.                                                   *)

PushBack(w, s)  == Append(w, s)
PushFront(w, s) == <<s>> \o w

Push(w, s) == IF strategy = "BFS" THEN PushBack(w, s) ELSE PushFront(w, s)
Top(w)     == IF strategy = "BFS" THEN Last(w) ELSE Head(w)
Peeked(w)  == w   \* mutation: the popped state stays in the list
Rest(w)    == IF strategy = "BFS" THEN Front(w) ELSE Tail(w)

\* Mutations: without the filter, without the storage, and with the storage
\* consulted before the filter.
IsNewUnfiltered(s, hashes) == s \in State /\ prog.hash[s] \notin hashes
IsNewUnstored(s, hashes)   == Keep(prog, s)
InsertHashFirst(s, hashes, w) ==
  /\ stored' = hashes \cup {prog.hash[s]}
  /\ waiting' = IF Keep(prog, s) /\ prog.hash[s] \notin hashes THEN Push(w, s) ELSE w

\* search's local lambda insert: filter, then HashStorage::insert, then the
\* waiting list.
IsNew(s, hashes) == Keep(prog, s) /\ prog.hash[s] \notin hashes

Insert(s, hashes, w) ==
  IF IsNew(s, hashes)
    THEN stored' = hashes \cup {prog.hash[s]} /\ waiting' = Push(w, s)
    ELSE stored' = hashes /\ waiting' = w

-----------------------------------------------------------------------------
Init ==
  /\ prog \in Programs
  /\ strategy = "DFS"
  /\ waiting = <<>>
  /\ found = Reject
  /\ nbExplored = -1
  /\ phase = "idle"
  /\ call \in [start : Starts, goal : {{}}]
  /\ stored = {}
  /\ searchee = Reject
  /\ cursor = [proc |-> 0, iter |-> 0, done |-> TRUE]
  /\ verdict = "None"
  /\ searches = 0
  /\ origins = {}

\* Mutation: only the DFS branch makes a list.
SetSearchStrategyNull(strat) ==
  /\ phase = "idle"
  /\ strategy' = strat
  /\ waiting' = IF strat = "DFS" THEN <<>> ELSE Reject
  /\ UNCHANGED <<prog, found, nbExplored, phase, call, stored, searchee, cursor,
                 verdict, searches, origins>>

\* setSearchStrategy: a new, empty waiting list replaces the old one.
SetSearchStrategy(strat) ==
  /\ phase = "idle"
  /\ strategy' = strat
  /\ waiting' = <<>>
  /\ UNCHANGED <<prog, found, nbExplored, phase, call, stored, searchee, cursor,
                 verdict, searches, origins>>

\* Entry of search: fresh storage, then insert(state).
Search(start, goal) ==
  /\ phase = "idle"
  /\ searches < MaxSearches
  /\ searches' = searches + 1
  /\ call' = [start |-> start, goal |-> goal]
  /\ verdict' = "None"
  /\ phase' = "loop"
  /\ origins' = IF waiting = <<>> THEN {start} ELSE origins \cup {start}
  /\ Insert(start, {}, waiting)
  /\ UNCHANGED <<config, found, nbExplored, searchee, cursor>>

\* The popped state satisfies the goal: return Found.
PopGoal ==
  /\ phase = "loop"
  /\ waiting # <<>>
  /\ Top(waiting) \in call.goal
  /\ waiting' = Rest(waiting)
  /\ searchee' = Top(waiting)
  /\ found' = Top(waiting)
  /\ nbExplored' = Cardinality(stored)
  /\ verdict' = "Found"
  /\ phase' = "idle"
  /\ UNCHANGED <<config, call, stored, cursor, searches, origins>>

\* The popped state is not a goal: build its enumerator, unless there is no
\* process at all.
PopOther ==
  /\ phase = "loop"
  /\ waiting # <<>>
  /\ Top(waiting) \notin call.goal
  /\ waiting' = Rest(waiting)
  /\ searchee' = Top(waiting)
  /\ IF prog.nbProc = 0
       THEN UNCHANGED <<cursor, phase>>
       ELSE /\ cursor' = Start(prog.out[Top(waiting)])
            /\ phase' = IF cursor'.done THEN "loop" ELSE "expand"
  /\ UNCHANGED <<config, found, nbExplored, call, stored, verdict, searches, origins>>

outcome == Current(prog.out[searchee], cursor)

\* One round of the for loop: Transfer the current edge, insert the new
\* state if there is one, ++enumerator.
Expand ==
  /\ phase = "expand"
  /\ outcome # Raise
  /\ IF outcome = Reject THEN UNCHANGED <<stored, waiting>> ELSE Insert(outcome, stored, waiting)
  /\ cursor' = Advance(prog.out[searchee], cursor)
  /\ phase' = IF cursor'.done THEN "loop" ELSE "expand"
  /\ UNCHANGED <<config, found, nbExplored, call, searchee, verdict, searches, origins>>

\* Mutation: an exception ends the search with NotFound.
AbortAnswers ==
  /\ phase = "expand"
  /\ outcome = Raise
  /\ phase' = "idle"
  /\ verdict' = "NotFound"
  /\ UNCHANGED <<config, waiting, found, nbExplored, call, stored, searchee, cursor,
                 searches, origins>>

\* Transfer throws: the exception leaves search, the waiting list stays.
Abort ==
  /\ phase = "expand"
  /\ outcome = Raise
  /\ phase' = "idle"
  /\ UNCHANGED <<config, waiting, found, nbExplored, call, stored, searchee, cursor,
                 verdict, searches, origins>>

\* The waiting list ran empty: return NotFound.
Exhausted ==
  /\ phase = "loop"
  /\ waiting = <<>>
  /\ nbExplored' = Cardinality(stored)
  /\ verdict' = "NotFound"
  /\ phase' = "idle"
  /\ UNCHANGED <<config, waiting, found, call, stored, searchee, cursor, searches, origins>>

Step == PopGoal \/ PopOther \/ Expand \/ Abort \/ Exhausted

Next ==
  \/ \E strat \in {"DFS", "BFS"} : SetSearchStrategy(strat)
  \/ \E start \in Starts, goal \in Goals : Search(start, goal)
  \/ Step

Spec == Init /\ [][Next]_vars

\* search is one loop of one thread: while it is under way it keeps running.
FairSpec == Spec /\ WF_vars(Step)

-----------------------------------------------------------------------------
(* Properties                                                              *)

TypeOK ==
  /\ prog \in Program
  /\ strategy \in {"DFS", "BFS"}
  /\ waiting \in Seq(State)
  /\ found \in State \cup {Reject}
  /\ nbExplored \in Nat \cup {-1}
  /\ phase \in {"idle", "loop", "expand"}
  /\ call \in [start : State, goal : SUBSET State]
  /\ stored \subseteq Hash /\ IsFiniteSet(stored)
  /\ searchee \in State \cup {Reject}
  /\ cursor \in Enumerator
  /\ verdict \in {"None", "Found", "NotFound"}
  /\ searches \in 0..MaxSearches
  /\ origins \subseteq State

\* A reported state satisfies the goal and lies on a feasible path from a state
\* the object was searched from; in particular from the initial state when the
\* object is searched once, as the mc command does. States left waiting by an
\* earlier search are why "origins" is a set.
FoundIsReachable ==
  verdict = "Found" => found \in call.goal \cap Reach(prog, origins)

\* NotFound is a proof of absence: no feasible path leads to a goal state. It
\* needs every transition to be enumerated (GapFree) and no hash collision
\* (HashSeparates): the search cannot notice either.
NotFoundIsUnreachable ==
  verdict = "NotFound" /\ GapFree(prog) /\ HashSeparates(prog)
    => Reach(prog, {call.start}) \cap call.goal = {}

\* getNumberExploredStates after an exhaustive search is the number of reachable
\* feasible states, what the enum command prints.
CountsReachable ==
  verdict = "NotFound" /\ GapFree(prog) /\ HashSeparates(prog) /\ origins = {call.start}
    => nbExplored = Cardinality(Reach(prog, {call.start}))

\* In the first search of an object no two waiting states share a hash, each
\* waiting state is accounted for in the storage, and a state being expanded is
\* not also waiting: the storage is what makes every state expand at most once.
NoDoubleWork ==
  searches = 1 /\ phase # "idle" =>
    /\ \A i, j \in 1..Len(waiting) : prog.hash[waiting[i]] = prog.hash[waiting[j]] => i = j
    /\ \A i \in 1..Len(waiting) : prog.hash[waiting[i]] \in stored
    /\ phase = "expand" => \A i \in 1..Len(waiting) : prog.hash[waiting[i]] # prog.hash[searchee]

\* A search ends, whatever cycles the program has and whatever an earlier search
\* left waiting: each round consumes an edge or a waiting state, and a state
\* enters the list only with a new hash.
Terminates == phase # "idle" ~> phase = "idle"

\* The search implements the oracle its callers rely on.
Oracle == INSTANCE SearchOracle WITH busy <- phase # "idle"
ImplementsOracle == Oracle!Spec
=============================================================================
