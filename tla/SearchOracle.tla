---------------------------- MODULE SearchOracle ----------------------------
(***************************************************************************)
(* What Reachability promises its callers, without waiting list, storage   *)
(* or order: a search that is under way eventually either raises, or       *)
(* answers Found with a goal state reachable from a state the object was   *)
(* asked about, or answers NotFound; and NotFound excludes every goal      *)
(* state, for programs whose transitions the enumerator can all see and    *)
(* whose states the hash tells apart.                                      *)
(***************************************************************************)
EXTENDS StateGraph

CONSTANT Programs    \* the programs the object may be built for

VARIABLES prog, call, busy, verdict, found, origins

vars == <<prog, call, busy, verdict, found, origins>>

Init ==
  /\ prog \in Programs
  /\ call \in [start : State, goal : {{}}]
  /\ busy = FALSE
  /\ verdict = "None"
  /\ found \in State \cup {Reject}
  /\ origins = {}

\* A caller asks whether a goal state is reachable from s.
Ask(s, goal) ==
  /\ ~busy
  /\ busy' = TRUE
  /\ call' = [start |-> s, goal |-> goal]
  /\ verdict' = "None"
  /\ origins' \in {{s}, origins \cup {s}}
  /\ UNCHANGED <<prog, found>>

AnswerFound(s) ==
  /\ busy
  /\ s \in call.goal
  /\ s \in Reach(prog, origins)
  /\ busy' = FALSE
  /\ verdict' = "Found"
  /\ found' = s
  /\ UNCHANGED <<prog, call, origins>>

AnswerNotFound ==
  /\ busy
  /\ GapFree(prog) /\ HashSeparates(prog) => Reach(prog, {call.start}) \cap call.goal = {}
  /\ busy' = FALSE
  /\ verdict' = "NotFound"
  /\ UNCHANGED <<prog, call, found, origins>>

\* A transfer threw; no verdict.
Fail ==
  /\ busy
  /\ busy' = FALSE
  /\ UNCHANGED <<prog, call, verdict, found, origins>>

Next ==
  \/ \E s \in State, goal \in SUBSET State : Ask(s, goal)
  \/ \E s \in State : AnswerFound(s)
  \/ AnswerNotFound
  \/ Fail

Spec == Init /\ [][Next]_vars
=============================================================================
