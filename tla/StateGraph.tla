----------------------------- MODULE StateGraph -----------------------------
(***************************************************************************)
(* What the search algorithm can see of a program under analysis: analysis *)
(* states (opaque values), for each state and each process the ordered     *)
(* list of the outgoing edges of the process's location, each edge given   *)
(* by what AnalysisTransfer::Transfer answers for it, the 64-bit hash of   *)
(* each state, and the states DefaultFilter discards.                      *)
(***************************************************************************)
EXTENDS Integers, Sequences, SequencesExt

CONSTANTS State,     \* analysis states
          Reject,    \* Transfer returns false
          Raise,     \* Transfer throws (overflow of a heap block, unimplemented instruction ...)
          Hash       \* values of hash_t

Outcome == State \cup {Reject, Raise}

\* A program: the number of entry points (one process each), and per state
\* the edge lists (out[s][p][i] answers for edge i of process p), the hash
\* and the verdict of the feasibility filter.
Program ==
  { g \in [ nbProc     : Nat,
            out        : [State -> Seq(Seq(Outcome))],
            hash       : [State -> Hash],
            infeasible : SUBSET State ] :
      \A s \in State : Len(g.out[s]) = g.nbProc }

ASSUME OutcomesApart == Reject \notin State /\ Raise \notin State /\ Reject # Raise

-----------------------------------------------------------------------------
Keep(g, s) == s \in State /\ s \notin g.infeasible

\* States one transition of any process away from s, infeasible ones dropped.
Successors(g, s) ==
  { t \in State : /\ Keep(g, t)
                  /\ \E p \in 1..g.nbProc : \E i \in 1..Len(g.out[s][p]) : g.out[s][p][i] = t }

Closed(g, S) == \A s \in S : Successors(g, s) \subseteq S

\* Sets of states that hold the feasible members of starts and are closed under
\* transitions. The least of them, Reach, is the reference for what a search may
\* report.
Inductive(g, starts) ==
  { S \in SUBSET State : /\ \A t \in starts : Keep(g, t) => t \in S
                         /\ Closed(g, S) }

Reach(g, starts) == { s \in State : \A S \in Inductive(g, starts) : s \in S }

-----------------------------------------------------------------------------
\* No process without outgoing edges precedes a process that has some.
GapFree(g) ==
  \A s \in State : \A p, q \in 1..g.nbProc :
      p < q /\ g.out[s][p] = <<>> => g.out[s][q] = <<>>

\* Distinct states have distinct hashes (HashStorage keeps the hash only).
HashSeparates(g) == \A s, t \in State : g.hash[s] = g.hash[t] => s = t
=============================================================================
