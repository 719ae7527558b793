------------------------ MODULE TransitionEnumerator ------------------------
(***************************************************************************)
(* algorithms/successorgen.hpp: the iterator over the outgoing edges of    *)
(* all processes of one analysis state. "lists" is the sequence of edge    *)
(* lists, one per process; processes and edges are numbered from 1.        *)
(***************************************************************************)
EXTENDS Integers, Sequences

Enumerator == [proc : Nat, iter : Nat, done : BOOLEAN]

\* next() once the iterator of the current process ran out: it moves one
\* process on and reports whether that process has an edge.
NextProcess(lists, e) ==
  IF e.proc = Len(lists)
    THEN [e EXCEPT !.proc = @ + 1, !.done = TRUE]
    ELSE [proc |-> e.proc + 1, iter |-> 1, done |-> lists[e.proc + 1] = <<>>]

\* The constructor, which runs next() with init set.
Start(lists) == [proc |-> 1, iter |-> 1, done |-> lists[1] = <<>>]

\* Mutation: the processes after the current one are forgotten.
AdvanceOneProcess(lists, e) ==
  IF e.iter < Len(lists[e.proc])
    THEN [e EXCEPT !.iter = @ + 1]
    ELSE [e EXCEPT !.iter = @ + 1, !.done = TRUE]

\* operator++
Advance(lists, e) ==
  IF e.iter < Len(lists[e.proc])
    THEN [e EXCEPT !.iter = @ + 1]
    ELSE NextProcess(lists, e)

\* operator*
Current(lists, e) == lists[e.proc][e.iter]
=============================================================================
