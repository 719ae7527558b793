------------------------- MODULE ReachabilityProofs -------------------------
(***************************************************************************)
(* Proofs about Reachability for every set of programs, starts and goals:  *)
(* type correctness, soundness of Found, soundness of NotFound, the count  *)
(* of explored states, that no state is expanded twice, and that the       *)
(* search implements SearchOracle.                                         *)
(***************************************************************************)
EXTENDS Reachability, EnumeratorProofs, FiniteSetTheorems

-----------------------------------------------------------------------------
(* Reach                                                                   *)

\* Reach contains the feasible starts.
LEMMA ReachStart ==
  ASSUME NEW g, NEW starts, NEW s \in starts, Keep(g, s)
  PROVE  s \in Reach(g, starts)
  BY DEF Reach, Inductive, Keep

\* It is closed under successors.
LEMMA ReachStep ==
  ASSUME NEW g, NEW starts, NEW s \in Reach(g, starts), NEW t \in Successors(g, s)
  PROVE  t \in Reach(g, starts)
<1>1. t \in State
  BY DEF Successors
<1>2. ASSUME NEW S \in Inductive(g, starts) PROVE t \in S
  BY <1>2 DEF Reach, Inductive, Closed
<1>3. QED
  BY <1>1, <1>2 DEF Reach

\* It grows with the starts.
LEMMA ReachMonotone ==
  ASSUME NEW g, NEW starts, NEW more, starts \subseteq more
  PROVE  Reach(g, starts) \subseteq Reach(g, more)
<1>1. Inductive(g, more) \subseteq Inductive(g, starts)
  BY DEF Inductive
<1>2. QED
  BY <1>1 DEF Reach

\* It is contained in every closed set that holds the feasible starts.
LEMMA ReachLeast ==
  ASSUME NEW g, NEW starts, NEW S \in SUBSET State, Closed(g, S),
         \A t \in starts : Keep(g, t) => t \in S
  PROVE  Reach(g, starts) \subseteq S
  BY DEF Reach, Inductive

-----------------------------------------------------------------------------
(* The waiting list                                                        *)

In(s, w) == \E i \in 1..Len(w) : w[i] = s

\* Whatever the strategy, pushing adds exactly the pushed state to the list.
LEMMA PushIn ==
  ASSUME NEW w \in Seq(State), NEW s \in State
  PROVE  /\ Push(w, s) \in Seq(State)
         /\ \A t : In(t, Push(w, s)) <=> t = s \/ In(t, w)
<1>0. Len(w) \in Nat
  BY LenProperties
<1>1. CASE strategy = "BFS"
  <2> DEFINE v == Append(w, s)
  <2>1. Push(w, s) = v
    BY <1>1 DEF Push, PushBack
  <2>2. /\ v \in Seq(State)
        /\ Len(v) = Len(w) + 1
        /\ \A i \in 1..Len(w) : v[i] = w[i]
        /\ v[Len(w) + 1] = s
    BY AppendProperties
  <2> HIDE DEF v
  <2>3. ASSUME NEW t PROVE In(t, v) <=> t = s \/ In(t, w)
    <3>1. ASSUME In(t, v) PROVE t = s \/ In(t, w)
      BY <1>0, <2>2, <3>1 DEF In
    <3>2. ASSUME t = s PROVE In(t, v)
      BY <1>0, <2>2, <3>2 DEF In
    <3>3. ASSUME In(t, w) PROVE In(t, v)
      BY <1>0, <2>2, <3>3 DEF In
    <3>4. QED
      BY <3>1, <3>2, <3>3
  <2>4. QED
    BY <2>1, <2>2, <2>3
<1>2. CASE strategy # "BFS"
  <2> DEFINE v == <<s>> \o w
  <2>1. Push(w, s) = v
    BY <1>2 DEF Push, PushFront
  <2>2. /\ <<s>> \in Seq(State)
        /\ Len(<<s>>) = 1
        /\ <<s>>[1] = s
    OBVIOUS
  <2>3. /\ v \in Seq(State)
        /\ Len(v) = 1 + Len(w)
        /\ \A i \in 1..1 + Len(w) : v[i] = IF i <= 1 THEN s ELSE w[i - 1]
    <3>1. \A i \in 1..1 + Len(w) : v[i] = IF i <= 1 THEN <<s>>[i] ELSE w[i - 1]
      BY <2>2, ConcatProperties
    <3>2. QED
      BY <1>0, <2>2, <3>1, ConcatProperties
  <2> HIDE DEF v
  <2>4. ASSUME NEW t PROVE In(t, v) <=> t = s \/ In(t, w)
    <3>1. ASSUME In(t, v) PROVE t = s \/ In(t, w)
      BY <1>0, <2>3, <3>1 DEF In
    <3>2. ASSUME t = s PROVE In(t, v)
      <4>1. 1 \in 1..Len(v) /\ v[1] = s
        BY <1>0, <2>3
      <4>2. QED
        BY <3>2, <4>1 DEF In
    <3>3. ASSUME In(t, w) PROVE In(t, v)
      <4>1. PICK i \in 1..Len(w) : w[i] = t
        BY <3>3 DEF In
      <4>2. i + 1 \in 1..Len(v) /\ v[i + 1] = t
        BY <1>0, <2>3, <4>1
      <4>3. QED
        BY <4>2 DEF In
    <3>4. QED
      BY <3>1, <3>2, <3>3
  <2>5. QED
    BY <2>1, <2>3, <2>4
<1>3. QED
  BY <1>1, <1>2

\* Dropping the last element of a non-empty sequence (BFSList::pop).
LEMMA FrontProperties ==
  ASSUME NEW w \in Seq(State), w # <<>>
  PROVE  /\ Front(w) \in Seq(State)
         /\ Len(Front(w)) = Len(w) - 1
         /\ \A i \in 1..Len(w) - 1 : Front(w)[i] = w[i]
<1>1. PICK n \in Nat : n = Len(w) /\ n >= 1
  BY EmptySeq
<1>2. \A i \in 1..n - 1 : w[i] \in State
  BY <1>1, ElementOfSeq
<1> DEFINE v == SubSeq(w, 1, n - 1)
<1>3. /\ v \in Seq(State)
      /\ Len(v) = IF 1 <= n - 1 THEN n - 1 - 1 + 1 ELSE 0
      /\ \A i \in 1..n - 1 - 1 + 1 : v[i] = w[1 + i - 1]
  BY <1>2, SubSeqProperties
<1>4. Front(w) = v
  BY <1>1 DEF Front
<1> HIDE DEF v
<1>5. Len(v) = n - 1
  BY <1>1, <1>3
<1>6. \A i \in 1..n - 1 : v[i] = w[i]
  BY <1>1, <1>3
<1>7. QED
  BY <1>1, <1>3, <1>4, <1>5, <1>6

\* Popping returns a member of the list and keeps all the others.
LEMMA PopIn ==
  ASSUME NEW w \in Seq(State), w # <<>>
  PROVE  /\ Top(w) \in State
         /\ Rest(w) \in Seq(State)
         /\ \A t : In(t, w) <=> t = Top(w) \/ In(t, Rest(w))
<1>0. /\ Len(w) \in Nat
      /\ Len(w) >= 1
      /\ \A i \in 1..Len(w) : w[i] \in State
  BY EmptySeq, ElementOfSeq
<1>1. CASE strategy = "BFS"
  <2>1. Top(w) = w[Len(w)] /\ Rest(w) = Front(w)
    BY <1>1 DEF Top, Rest, Last
  <2> DEFINE v == Front(w)
  <2>2. /\ v \in Seq(State)
        /\ Len(v) = Len(w) - 1
        /\ \A i \in 1..Len(w) - 1 : v[i] = w[i]
    BY FrontProperties
  <2> HIDE DEF v
  <2>3. ASSUME NEW t PROVE In(t, w) <=> t = w[Len(w)] \/ In(t, v)
    BY <1>0, <2>2 DEF In
  <2>4. QED
    BY <1>0, <2>1, <2>2, <2>3 DEF v
<1>2. CASE strategy # "BFS"
  <2>1. Top(w) = w[1] /\ Rest(w) = Tail(w)
    BY <1>0, <1>2 DEF Top, Rest
  <2>2. /\ Tail(w) \in Seq(State)
        /\ Len(Tail(w)) = Len(w) - 1
        /\ \A i \in 1..Len(w) - 1 : Tail(w)[i] = w[i + 1]
    BY <1>0, HeadTailProperties
  <2>3. ASSUME NEW t PROVE In(t, w) <=> t = w[1] \/ In(t, Tail(w))
    <3>1. ASSUME In(t, w) PROVE t = w[1] \/ In(t, Tail(w))
      <4>1. PICK i \in 1..Len(w) : w[i] = t
        BY <3>1 DEF In
      <4>2. CASE i = 1
        BY <4>1, <4>2
      <4>3. CASE i # 1
        <5>1. i - 1 \in 1..Len(Tail(w)) /\ Tail(w)[i - 1] = t
          BY <1>0, <2>2, <4>1, <4>3
        <5>2. QED
          BY <5>1 DEF In
      <4>4. QED
        BY <4>2, <4>3
    <3>2. ASSUME t = w[1] PROVE In(t, w)
      BY <1>0, <3>2 DEF In
    <3>3. ASSUME In(t, Tail(w)) PROVE In(t, w)
      <4>1. PICK i \in 1..Len(Tail(w)) : Tail(w)[i] = t
        BY <3>3 DEF In
      <4>2. i + 1 \in 1..Len(w) /\ w[i + 1] = t
        BY <1>0, <2>2, <4>1
      <4>3. QED
        BY <4>2 DEF In
    <3>4. QED
      BY <3>1, <3>2, <3>3
  <2>4. QED
    BY <1>0, <2>1, <2>2, <2>3
<1>3. QED
  BY <1>1, <1>2

-----------------------------------------------------------------------------
(* Type correctness                                                        *)

\* While an edge is being transferred the enumerator stands on an edge of the
\* state that was popped: operator* never dereferences the end of a list.
CursorOK ==
  phase = "expand" => searchee \in State /\ InRange(prog.out[searchee], cursor)

\* What membership in Program gives for the program at hand.
LEMMA ProgramFacts ==
  ASSUME NEW g \in Program
  PROVE  /\ g.nbProc \in Nat
         /\ g.hash \in [State -> Hash]
         /\ \A s \in State : /\ g.out[s] \in Seq(Seq(Outcome))
                             /\ Len(g.out[s]) = g.nbProc
  BY DEF Program

\* The outcome of the current edge.
LEMMA OutcomeType ==
  ASSUME TypeOK, CursorOK, phase = "expand"
  PROVE  /\ outcome \in Outcome
         /\ outcome \notin {Reject, Raise} => outcome \in State
<1>1. /\ prog.out[searchee] \in Seq(Seq(Outcome))
      /\ cursor.proc \in 1..Len(prog.out[searchee])
      /\ cursor.iter \in 1..Len(prog.out[searchee][cursor.proc])
  BY ProgramFacts DEF TypeOK, CursorOK, InRange
<1>2. prog.out[searchee][cursor.proc] \in Seq(Outcome)
  BY <1>1, ElementOfSeq
<1>3. prog.out[searchee][cursor.proc][cursor.iter] \in Outcome
  BY <1>1, <1>2, ElementOfSeq
<1>4. QED
  BY <1>3 DEF outcome, Current, Outcome

\* insert leaves the storage a set of hashes and the waiting list a list of states,
\* which gains the state exactly when it is new.
LEMMA InsertType ==
  ASSUME NEW s \in State, NEW hashes \in SUBSET Hash, NEW w \in Seq(State),
         IsFiniteSet(hashes), prog \in Program, Insert(s, hashes, w)
  PROVE  /\ stored' \in SUBSET Hash /\ IsFiniteSet(stored')
         /\ waiting' \in Seq(State)
         /\ \/ /\ IsNew(s, hashes)
               /\ stored' = hashes \cup {prog.hash[s]}
               /\ \A t : In(t, waiting') <=> t = s \/ In(t, w)
            \/ /\ ~IsNew(s, hashes)
               /\ stored' = hashes
               /\ waiting' = w
<1>1. prog.hash[s] \in Hash
  BY ProgramFacts
<1>2. CASE IsNew(s, hashes)
  <2>1. stored' = hashes \cup {prog.hash[s]} /\ waiting' = Push(w, s)
    BY <1>2 DEF Insert
  <2>2. IsFiniteSet(stored')
    BY <2>1, FS_AddElement
  <2>3. QED
    BY <1>1, <1>2, <2>1, <2>2, PushIn
<1>3. CASE ~IsNew(s, hashes)
  BY <1>3 DEF Insert
<1>4. QED
  BY <1>2, <1>3

\* Every reachable state is well typed and the enumerator in range.
LEMMA TypeStep == TypeOK /\ CursorOK /\ [Next]_vars => TypeOK' /\ CursorOK'
<1> SUFFICES ASSUME TypeOK, CursorOK, [Next]_vars
             PROVE  TypeOK' /\ CursorOK'
  OBVIOUS
<1> USE DEF TypeOK, CursorOK, config
<1>1. ASSUME NEW strat \in {"DFS", "BFS"}, SetSearchStrategy(strat)
      PROVE  TypeOK' /\ CursorOK'
  BY <1>1 DEF SetSearchStrategy
<1>2. ASSUME NEW start \in Starts, NEW goal \in Goals, Search(start, goal)
      PROVE  TypeOK' /\ CursorOK'
  <2>1. start \in State /\ goal \in SUBSET State
    BY <1>2, CallsOK
  <2>2. stored' \in SUBSET Hash /\ IsFiniteSet(stored') /\ waiting' \in Seq(State)
    BY <1>2, <2>1, InsertType, FS_EmptySet DEF Search
  <2>3. searches' \in 0..MaxSearches
    BY <1>2, BoundOK DEF Search
  <2>4. QED
    BY <1>2, <2>1, <2>2, <2>3 DEF Search
<1>3. CASE PopGoal
  <2>1. Top(waiting) \in State /\ Rest(waiting) \in Seq(State)
    BY <1>3, PopIn DEF PopGoal
  <2>2. Cardinality(stored) \in Nat
    BY FS_CardinalityType
  <2>3. QED
    BY <1>3, <2>1, <2>2 DEF PopGoal
<1>4. CASE PopOther
  <2>1. Top(waiting) \in State /\ Rest(waiting) \in Seq(State)
    BY <1>4, PopIn DEF PopOther
  <2> DEFINE lists == prog.out[Top(waiting)]
  <2>2. lists \in Seq(Seq(Outcome)) /\ Len(lists) = prog.nbProc
    BY <2>1, ProgramFacts
  <2>3. CASE prog.nbProc = 0
    BY <1>4, <2>1, <2>3 DEF PopOther
  <2>4. CASE prog.nbProc # 0
    <3>1. cursor' = Start(lists) /\ searchee' = Top(waiting) /\ prog' = prog
      BY <1>4, <2>4 DEF PopOther
    <3>2. cursor' \in Enumerator /\ (~cursor'.done => InRange(lists, cursor'))
      BY <2>2, <2>4, <3>1, StartEnumerates
    <3>3. CASE Start(lists).done
      BY <1>4, <2>1, <2>4, <3>1, <3>2, <3>3 DEF PopOther
    <3>4. CASE ~Start(lists).done
      BY <1>4, <2>1, <2>4, <3>1, <3>2, <3>4 DEF PopOther
    <3>5. QED
      BY <3>3, <3>4
  <2>5. QED
    BY <2>3, <2>4
<1>5. CASE Expand
  <2>1. stored' \in SUBSET Hash /\ IsFiniteSet(stored') /\ waiting' \in Seq(State)
    <3>1. CASE outcome = Reject
      BY <1>5, <3>1 DEF Expand
    <3>2. CASE outcome # Reject
      <4>1. outcome \in State /\ Insert(outcome, stored, waiting)
        BY <1>5, <3>2, OutcomeType DEF Expand
      <4>2. QED
        BY <4>1, InsertType
    <3>3. QED
      BY <3>1, <3>2
  <2> DEFINE lists == prog.out[searchee]
  <2>2. lists \in Seq(Seq(Outcome)) /\ InRange(lists, cursor)
    BY <1>5, ProgramFacts DEF Expand
  <2>3. cursor' = Advance(lists, cursor) /\ searchee' = searchee /\ prog' = prog
    BY <1>5 DEF Expand
  <2>4. cursor' \in Enumerator /\ (~cursor'.done => InRange(lists, cursor'))
    BY <2>2, <2>3, AdvanceEnumerates
  <2>5. CASE cursor'.done
    BY <1>5, <2>1, <2>3, <2>4, <2>5 DEF Expand
  <2>6. CASE ~cursor'.done
    BY <1>5, <2>1, <2>3, <2>4, <2>6 DEF Expand
  <2>7. QED
    BY <2>5, <2>6
<1>6. CASE Abort
  BY <1>6 DEF Abort
<1>7. CASE Exhausted
  <2>1. Cardinality(stored) \in Nat
    BY FS_CardinalityType
  <2>2. QED
    BY <1>7, <2>1 DEF Exhausted
<1>8. CASE UNCHANGED vars
  BY <1>8 DEF vars
<1>9. QED
  BY <1>1, <1>2, <1>3, <1>4, <1>5, <1>6, <1>7, <1>8 DEF Next, Step

\* Type correctness of the search for every set of programs, starts and goals.
THEOREM TypeCorrect == Spec => [](TypeOK /\ CursorOK)
<1>1. Init => TypeOK /\ CursorOK
  BY ProgramsOK, CallsOK, BoundOK, FS_EmptySet DEF Init, TypeOK, CursorOK, Enumerator
<1>2. QED
  BY <1>1, TypeStep, PTL DEF Spec

-----------------------------------------------------------------------------
(* Soundness of Found                                                      *)

\* Everything in the worklist is reachable from the states the object was searched
\* from since the list was last empty; that is what makes a found state reachable.
SoundInv ==
  /\ \A s : In(s, waiting) => s \in Reach(prog, origins)
  /\ phase = "expand" => searchee \in Reach(prog, origins)
  /\ phase # "idle" => verdict = "None"
  /\ FoundIsReachable

\* A transition that is not rejected leads to a successor of the expanded state.
LEMMA OutcomeIsSuccessor ==
  ASSUME TypeOK, CursorOK, phase = "expand", Keep(prog, outcome)
  PROVE  outcome \in Successors(prog, searchee)
<1>1. /\ searchee \in State
      /\ cursor.proc \in 1..prog.nbProc
      /\ cursor.iter \in 1..Len(prog.out[searchee][cursor.proc])
  BY ProgramFacts DEF TypeOK, CursorOK, InRange
<1>2. outcome = prog.out[searchee][cursor.proc][cursor.iter]
  BY DEF outcome, Current
<1>3. QED
  BY <1>1, <1>2 DEF Successors, Keep

\* Every step preserves the invariant behind Found.
LEMMA SoundStep ==
  TypeOK /\ CursorOK /\ SoundInv /\ [Next]_vars => SoundInv'
<1> SUFFICES ASSUME TypeOK, CursorOK, SoundInv, [Next]_vars
             PROVE  SoundInv'
  OBVIOUS
<1> USE DEF config
<1>1. ASSUME NEW strat \in {"DFS", "BFS"}, SetSearchStrategy(strat)
      PROVE  SoundInv'
  <2>1. \A s : ~In(s, <<>>)
    BY DEF In
  <2>2. QED
    BY <1>1, <2>1 DEF SetSearchStrategy, SoundInv, FoundIsReachable
<1>2. ASSUME NEW start \in Starts, NEW goal \in Goals, Search(start, goal)
      PROVE  SoundInv'
  <2>1. start \in State /\ prog' = prog /\ start \in origins'
    BY <1>2, CallsOK DEF Search
  <2>2. ASSUME NEW s, In(s, waiting) PROVE s \in Reach(prog, origins')
    <3>1. waiting # <<>>
      BY <2>2 DEF In
    <3>2. origins \subseteq origins'
      BY <1>2, <3>1 DEF Search
    <3>3. Reach(prog, origins) \subseteq Reach(prog, origins')
      BY <3>2, ReachMonotone
    <3>4. QED
      BY <2>2, <3>3 DEF SoundInv
  <2>3. IsNew(start, {}) => start \in Reach(prog, origins')
    BY <2>1, ReachStart DEF IsNew
  <2>4. \A s : In(s, waiting') => s \in Reach(prog, origins')
    BY <1>2, <2>1, <2>2, <2>3, InsertType, FS_EmptySet DEF Search, TypeOK
  <2>5. QED
    BY <1>2, <2>1, <2>4 DEF Search, SoundInv, FoundIsReachable
<1>3. CASE PopGoal
  <2>1. Top(waiting) \in Reach(prog, origins) /\ \A s : In(s, Rest(waiting)) => s \in Reach(prog, origins)
    BY <1>3, PopIn DEF PopGoal, SoundInv, TypeOK
  <2>2. QED
    BY <1>3, <2>1 DEF PopGoal, SoundInv, FoundIsReachable
<1>4. CASE PopOther
  <2>1. Top(waiting) \in Reach(prog, origins) /\ \A s : In(s, Rest(waiting)) => s \in Reach(prog, origins)
    BY <1>4, PopIn DEF PopOther, SoundInv, TypeOK
  <2>2. phase' # "idle"
    BY <1>4 DEF PopOther
  <2>3. QED
    BY <1>4, <2>1, <2>2 DEF PopOther, SoundInv, FoundIsReachable
<1>5. CASE Expand
  <2>1. \A s : In(s, waiting') => s \in Reach(prog, origins)
    <3>1. CASE outcome = Reject
      BY <1>5, <3>1 DEF Expand, SoundInv
    <3>2. CASE outcome # Reject
      <4>1. outcome \in State /\ Insert(outcome, stored, waiting)
        BY <1>5, <3>2, OutcomeType DEF Expand
      <4>2. IsNew(outcome, stored) => outcome \in Reach(prog, origins)
        BY <1>5, OutcomeIsSuccessor, ReachStep DEF Expand, SoundInv, IsNew
      <4>3. QED
        BY <4>1, <4>2, InsertType DEF SoundInv, TypeOK
    <3>3. QED
      BY <3>1, <3>2
  <2>2. phase' # "idle"
    BY <1>5 DEF Expand
  <2>3. QED
    BY <1>5, <2>1, <2>2 DEF Expand, SoundInv, FoundIsReachable
<1>6. CASE Abort
  BY <1>6 DEF Abort, SoundInv, FoundIsReachable
<1>7. CASE Exhausted
  BY <1>7 DEF Exhausted, SoundInv, FoundIsReachable
<1>8. CASE UNCHANGED vars
  BY <1>8 DEF vars, SoundInv, FoundIsReachable
<1>9. QED
  BY <1>1, <1>2, <1>3, <1>4, <1>5, <1>6, <1>7, <1>8 DEF Next, Step

\* The invariant behind Found holds.
LEMMA SoundAlways == Spec => []SoundInv
<1>1. Init => SoundInv
  BY DEF Init, SoundInv, FoundIsReachable, In
<1>2. QED
  BY <1>1, SoundStep, TypeCorrect, PTL DEF Spec

\* A search that answers Found reports a goal state that a feasible path reaches,
\* whatever the program, the strategy and the earlier searches of the object.
THEOREM FoundSound == Spec => []FoundIsReachable
<1>1. SoundInv => FoundIsReachable
  BY DEF SoundInv
<1>2. QED
  BY <1>1, SoundAlways, PTL

-----------------------------------------------------------------------------
(* Soundness of NotFound                                                   *)

Trusted   == GapFree(prog) /\ HashSeparates(prog)
Hashed(s) == prog.hash[s] \in stored

\* s is no goal and all its successors are stored.
Settled(s) == s \notin call.goal /\ \A t \in Successors(prog, s) : Hashed(t)

\* The transitions of the expanded state that the enumerator has passed are stored.
PassedStored ==
  \A p \in 1..prog.nbProc : \A i \in 1..Len(prog.out[searchee][p]) :
    Before(cursor, p, i) /\ Keep(prog, prog.out[searchee][p][i])
      => Hashed(prog.out[searchee][p][i])

\* The classical worklist argument: a stored state waits, is being expanded, or is
\* settled. When nothing waits the stored states are closed under transitions.
CompleteInv ==
  Trusted /\ (phase # "idle" \/ verdict = "NotFound") =>
    /\ Keep(prog, call.start) => Hashed(call.start)
    /\ \A s \in State : Hashed(s) => \/ In(s, waiting)
                                     \/ phase = "expand" /\ s = searchee
                                     \/ Settled(s)
    /\ phase = "expand" => searchee \notin call.goal /\ PassedStored
    /\ phase = "idle" => waiting = <<>>

\* When the enumerator of the expanded state is done, the state is settled.
LEMMA PassedSettles ==
  ASSUME NEW s \in State,
         \A p \in 1..prog.nbProc : \A i \in 1..Len(prog.out[s][p]) :
            Keep(prog, prog.out[s][p][i]) => Hashed(prog.out[s][p][i]),
         s \notin call.goal
  PROVE  Settled(s)
<1>1. ASSUME NEW t \in Successors(prog, s) PROVE Hashed(t)
  BY <1>1 DEF Successors
<1>2. QED
  BY <1>1 DEF Settled

\* A gap-free program has no gap at any state.
LEMMA GapFreeLists ==
  ASSUME NEW s \in State, prog \in Program, GapFree(prog)
  PROVE  NoGap(prog.out[s])
  BY ProgramFacts DEF GapFree, NoGap

\* Popping a state that is no goal preserves the invariant behind NotFound.
LEMMA CompletePopOther ==
  ASSUME TypeOK, CursorOK, SoundInv, CompleteInv, PopOther
  PROVE  CompleteInv'
<1> DEFINE top == Top(waiting)
           lists == prog.out[top]
<1>1. /\ top \in State
      /\ waiting' = Rest(waiting)
      /\ \A t : In(t, waiting) <=> t = top \/ In(t, waiting')
  BY PopIn DEF PopOther, TypeOK
<1>2. /\ phase = "loop" /\ phase' \in {"loop", "expand"} /\ top \notin call.goal
      /\ searchee' = top
      /\ prog' = prog /\ stored' = stored /\ call' = call /\ verdict' = verdict
  BY DEF PopOther, config
<1>3. lists \in Seq(Seq(Outcome)) /\ Len(lists) = prog.nbProc
  BY <1>1, ProgramFacts DEF TypeOK
<1> SUFFICES ASSUME Trusted
             PROVE  /\ \A s \in State : Hashed(s) => \/ In(s, waiting')
                                                     \/ phase' = "expand" /\ s = top
                                                     \/ Settled(s)
                    /\ phase' = "expand" => PassedStored'
  BY <1>1, <1>2 DEF CompleteInv, Trusted, Hashed, Settled
<1> HIDE DEF top
<1>4. \A s \in State : Hashed(s) /\ s # top => In(s, waiting') \/ Settled(s)
  BY <1>1, <1>2 DEF CompleteInv
<1>5. CASE prog.nbProc = 0
  <2>1. phase' = "loop"
    BY <1>2, <1>5 DEF PopOther
  <2>2. \A p \in 1..prog.nbProc : FALSE
    BY <1>5
  <2>3. Settled(top)
    BY <1>1, <1>2, <2>2, PassedSettles
  <2>4. QED
    BY <1>4, <2>1, <2>3
<1>6. CASE prog.nbProc # 0 /\ Start(lists).done
  <2>1. phase' = "loop"
    BY <1>2, <1>6 DEF PopOther, top
  <2>2. NoGap(lists)
    BY <1>1, GapFreeLists DEF Trusted, TypeOK
  <2>3. \A p \in 1..prog.nbProc : lists[p] = <<>>
    BY <1>3, <1>6, <2>2, StartEnumerates
  <2>4. \A p \in 1..prog.nbProc : Len(lists[p]) = 0
    BY <2>3, EmptySeq
  <2>5. \A p \in 1..prog.nbProc : \A i \in 1..Len(lists[p]) : FALSE
    BY <2>4
  <2>6. Settled(top)
    BY <1>1, <1>2, <2>5, PassedSettles
  <2>7. QED
    BY <1>4, <2>1, <2>6
<1>7. CASE prog.nbProc # 0 /\ ~Start(lists).done
  <2>1. phase' = "expand" /\ cursor' = Start(lists)
    BY <1>2, <1>7 DEF PopOther, top
  <2>2. \A p \in 1..Len(lists) : \A i \in 1..Len(lists[p]) : ~Before(cursor', p, i)
    BY <1>3, <1>7, <2>1, StartEnumerates
  <2>3. PassedStored'
    BY <1>2, <1>3, <2>2 DEF PassedStored, Before
  <2>4. QED
    BY <1>4, <2>1, <2>3
<1>8. QED
  BY <1>5, <1>6, <1>7

\* So does a round of the expansion loop.
LEMMA CompleteExpand ==
  ASSUME TypeOK, CursorOK, SoundInv, CompleteInv, Expand
  PROVE  CompleteInv'
<1> DEFINE lists == prog.out[searchee]
<1>1. /\ phase = "expand" /\ phase' \in {"loop", "expand"}
      /\ searchee' = searchee /\ searchee \in State
      /\ cursor' = Advance(lists, cursor)
      /\ prog' = prog /\ call' = call /\ verdict' = verdict
  BY DEF Expand, config, CursorOK
<1>2. lists \in Seq(Seq(Outcome)) /\ Len(lists) = prog.nbProc /\ InRange(lists, cursor)
  BY <1>1, ProgramFacts DEF TypeOK, CursorOK
<1>3. /\ stored \subseteq stored'
      /\ \A t : In(t, waiting) => In(t, waiting')
      /\ Keep(prog, outcome) => prog.hash[outcome] \in stored'
      /\ \A t \in State : prog.hash[t] \in stored' /\ ~Hashed(t) =>
             prog.hash[t] = prog.hash[outcome] /\ outcome \in State /\ In(outcome, waiting')
  <2>1. CASE outcome = Reject
    <3>1. stored' = stored /\ waiting' = waiting /\ ~Keep(prog, outcome)
      BY <2>1, OutcomesApart DEF Expand, Keep
    <3>2. QED
      BY <3>1 DEF Hashed
  <2>2. CASE outcome # Reject
    <3>1. outcome \in State /\ Insert(outcome, stored, waiting)
      BY <1>1, <2>2, OutcomeType DEF Expand
    <3>2. QED
      BY <3>1, InsertType DEF TypeOK, IsNew, Hashed
  <2>3. QED
    BY <2>1, <2>2
<1>4. outcome = lists[cursor.proc][cursor.iter]
  BY DEF outcome, Current
<1> SUFFICES ASSUME Trusted
             PROVE  /\ Keep(prog, call.start) => prog.hash[call.start] \in stored'
                    /\ \A s \in State : prog.hash[s] \in stored' =>
                          \/ In(s, waiting')
                          \/ phase' = "expand" /\ s = searchee
                          \/ Settled(s)'
                    /\ phase' = "expand" => searchee \notin call.goal /\ PassedStored'
  BY <1>1 DEF CompleteInv, Trusted, Hashed
<1>5. \A s \in State : Settled(s) => Settled(s)'
  BY <1>1, <1>3 DEF Settled, Hashed
<1>6. Keep(prog, call.start) => prog.hash[call.start] \in stored'
  BY <1>1, <1>3 DEF CompleteInv, Hashed
<1>7. ASSUME NEW s \in State, prog.hash[s] \in stored', s # searchee
      PROVE  In(s, waiting') \/ Settled(s)'
  <2>1. CASE Hashed(s)
    BY <1>1, <1>3, <1>5, <1>7, <2>1 DEF CompleteInv
  <2>2. CASE ~Hashed(s)
    <3>1. prog.hash[s] = prog.hash[outcome] /\ outcome \in State /\ In(outcome, waiting')
      BY <1>3, <1>7, <2>2
    <3>2. s = outcome
      BY <3>1 DEF Trusted, HashSeparates
    <3>3. QED
      BY <3>1, <3>2
  <2>3. QED
    BY <2>1, <2>2
<1>8. searchee \notin call.goal /\ PassedStored
  BY <1>1 DEF CompleteInv
<1>9. CASE cursor'.done
  <2>1. phase' = "loop"
    BY <1>9 DEF Expand
  <2>2. NoGap(lists)
    BY <1>1, GapFreeLists DEF Trusted, TypeOK
  <2>3. \A p \in 1..Len(lists) : \A i \in 1..Len(lists[p]) :
            Before(cursor, p, i) \/ (p = cursor.proc /\ i = cursor.iter)
    BY <1>1, <1>2, <1>9, <2>2, AdvanceEnumerates DEF TypeOK
  <2>4. ASSUME NEW p \in 1..prog.nbProc, NEW i \in 1..Len(lists[p]), Keep(prog, lists[p][i])
        PROVE  prog.hash[lists[p][i]] \in stored'
    <3>1. CASE Before(cursor, p, i)
      BY <1>3, <1>8, <2>4, <3>1 DEF PassedStored, Hashed
    <3>2. CASE p = cursor.proc /\ i = cursor.iter
      BY <1>3, <1>4, <2>4, <3>2
    <3>3. QED
      BY <1>2, <2>3, <3>1, <3>2
  <2>5. ASSUME NEW s \in State, s = searchee PROVE Settled(s)'
    BY <1>1, <1>8, <2>4, <2>5 DEF Settled, Hashed, Successors
  <2>6. ASSUME NEW s \in State, prog.hash[s] \in stored' PROVE In(s, waiting') \/ Settled(s)'
    BY <1>7, <2>5, <2>6
  <2>7. QED
    BY <1>6, <2>1, <2>6
<1>10. CASE ~cursor'.done
  <2>1. phase' = "expand"
    BY <1>10 DEF Expand
  <2>2. \A p \in 1..Len(lists) : \A i \in 1..Len(lists[p]) :
            Before(cursor', p, i) => Before(cursor, p, i) \/ (p = cursor.proc /\ i = cursor.iter)
    BY <1>1, <1>2, <1>10, AdvanceEnumerates DEF TypeOK
  <2>3. ASSUME NEW p \in 1..prog.nbProc, NEW i \in 1..Len(lists[p]),
               Before(cursor', p, i), Keep(prog, lists[p][i])
        PROVE  prog.hash[lists[p][i]] \in stored'
    <3>1. CASE Before(cursor, p, i)
      BY <1>3, <1>8, <2>3, <3>1 DEF PassedStored, Hashed
    <3>2. CASE p = cursor.proc /\ i = cursor.iter
      BY <1>3, <1>4, <2>3, <3>2
    <3>3. QED
      BY <1>2, <2>2, <2>3, <3>1, <3>2
  <2>4. PassedStored'
    BY <1>1, <2>3 DEF PassedStored, Hashed, Before
  <2>5. QED
    BY <1>6, <1>7, <1>8, <2>1, <2>4
<1>11. QED
  BY <1>9, <1>10

\* So does every step.
LEMMA CompleteStep ==
  TypeOK /\ CursorOK /\ SoundInv /\ CompleteInv /\ [Next]_vars => CompleteInv'
<1> SUFFICES ASSUME TypeOK, CursorOK, SoundInv, CompleteInv, [Next]_vars
             PROVE  CompleteInv'
  OBVIOUS
<1>1. ASSUME NEW strat \in {"DFS", "BFS"}, SetSearchStrategy(strat)
      PROVE  CompleteInv'
  <2>1. /\ phase = "idle" /\ phase' = "idle" /\ waiting' = <<>>
        /\ prog' = prog /\ call' = call /\ stored' = stored /\ verdict' = verdict
    BY <1>1 DEF SetSearchStrategy
  <2>2. \A s : ~In(s, <<>>)
    BY DEF In
  <2>3. QED
    BY <2>1, <2>2 DEF CompleteInv, Trusted, Hashed, Settled
<1>2. ASSUME NEW start \in Starts, NEW goal \in Goals, Search(start, goal)
      PROVE  CompleteInv'
  <2>1. /\ start \in State /\ phase' = "loop" /\ prog' = prog
        /\ call' = [start |-> start, goal |-> goal]
        /\ Insert(start, {}, waiting)
    BY <1>2, CallsOK DEF Search, config
  <2>2. call'.start = start
    BY <2>1
  <2>3. /\ Keep(prog, start) => prog.hash[start] \in stored'
        /\ \A t \in State : prog.hash[t] \in stored' =>
             prog.hash[t] = prog.hash[start] /\ In(start, waiting')
    BY <2>1, InsertType, FS_EmptySet DEF TypeOK, IsNew
  <2>4. ASSUME Trusted, NEW s \in State, prog.hash[s] \in stored' PROVE In(s, waiting')
    BY <2>1, <2>3, <2>4 DEF Trusted, HashSeparates
  <2>5. QED
    BY <2>1, <2>2, <2>3, <2>4 DEF CompleteInv, Trusted, Hashed
<1>3. CASE PopGoal
  BY <1>3 DEF PopGoal, CompleteInv
<1>4. CASE PopOther
  BY <1>4, CompletePopOther
<1>5. CASE Expand
  BY <1>5, CompleteExpand
<1>6. CASE Abort
  <2>1. phase' = "idle" /\ verdict' = "None"
    BY <1>6 DEF Abort, SoundInv
  <2>2. QED
    BY <2>1 DEF CompleteInv
<1>7. CASE Exhausted
  <2>1. /\ phase = "loop" /\ phase' = "idle" /\ waiting = <<>> /\ waiting' = <<>>
        /\ prog' = prog /\ call' = call /\ stored' = stored
    BY <1>7 DEF Exhausted, config
  <2>2. QED
    BY <2>1 DEF CompleteInv, Trusted, Hashed, Settled
<1>8. CASE UNCHANGED vars
  BY <1>8 DEF vars, CompleteInv, Trusted, Hashed, Settled, PassedStored
<1>9. QED
  BY <1>1, <1>2, <1>3, <1>4, <1>5, <1>6, <1>7, <1>8 DEF Next, Step

\* The invariant behind NotFound holds.
LEMMA CompleteAlways == Spec => []CompleteInv
<1>1. Init => CompleteInv
  BY DEF Init, CompleteInv
<1>2. QED
  BY <1>1, CompleteStep, SoundAlways, TypeCorrect, PTL DEF Spec

\* When the search has answered NotFound, the stored states hold the feasible start
\* and are closed under transitions: every reachable state is among them.
LEMMA CompleteStores ==
  ASSUME CompleteInv, TypeOK, verdict = "NotFound", phase = "idle", Trusted
  PROVE  Reach(prog, {call.start}) \subseteq { s \in State : Hashed(s) }
<1> DEFINE S == { s \in State : Hashed(s) }
<1>1. \A s \in S : Settled(s)
  BY DEF CompleteInv, In
<1>2. Closed(prog, S)
  <2>1. ASSUME NEW s \in S, NEW t \in Successors(prog, s) PROVE t \in S
    BY <1>1, <2>1 DEF Settled, Successors
  <2>2. QED
    BY <2>1 DEF Closed
<1>3. \A t \in {call.start} : Keep(prog, t) => t \in S
  BY DEF CompleteInv, Keep
<1>4. S \in SUBSET State
  OBVIOUS
<1> HIDE DEF S
<1>5. Reach(prog, {call.start}) \subseteq S
  BY <1>2, <1>3, <1>4, ReachLeast
<1>6. QED
  BY <1>5 DEF S

\* None of them is a goal.
LEMMA CompleteAnswers ==
  ASSUME CompleteInv, TypeOK, verdict = "NotFound", phase = "idle", Trusted
  PROVE  Reach(prog, {call.start}) \cap call.goal = {}
<1>1. \A s \in State : Hashed(s) => s \notin call.goal
  BY DEF CompleteInv, In, Settled
<1>2. QED
  BY <1>1, CompleteStores

\* NotFound is a proof of absence for every gap-free program whose hash separates its
\* states, whatever the strategy and whatever an earlier search left waiting.
THEOREM NotFoundSound == Spec => []NotFoundIsUnreachable
<1>1. TypeOK /\ SoundInv /\ CompleteInv => NotFoundIsUnreachable
  BY CompleteAnswers DEF SoundInv, NotFoundIsUnreachable, Trusted, TypeOK
<1>2. QED
  BY <1>1, SoundAlways, CompleteAlways, TypeCorrect, PTL

-----------------------------------------------------------------------------
(* Counting                                                                *)

\* What is stored was reached, and a count that is on offer after NotFound is the
\* size of the storage.
CountInv ==
  /\ \A h \in stored : \E s \in Reach(prog, origins) : prog.hash[s] = h
  /\ verdict = "NotFound" => nbExplored = Cardinality(stored)

\* Every step preserves it.
LEMMA CountStep ==
  TypeOK /\ CursorOK /\ SoundInv /\ CountInv /\ [Next]_vars => CountInv'
<1> SUFFICES ASSUME TypeOK, CursorOK, SoundInv, CountInv, [Next]_vars
             PROVE  CountInv'
  OBVIOUS
<1> USE DEF config
<1>1. ASSUME NEW strat \in {"DFS", "BFS"}, SetSearchStrategy(strat)
      PROVE  CountInv'
  BY <1>1 DEF SetSearchStrategy, CountInv
<1>2. ASSUME NEW start \in Starts, NEW goal \in Goals, Search(start, goal)
      PROVE  CountInv'
  <2>1. start \in State /\ prog' = prog /\ start \in origins' /\ verdict' = "None"
    BY <1>2, CallsOK DEF Search
  <2>2. stored' = {} \/ (Keep(prog, start) /\ stored' = {prog.hash[start]})
    BY <1>2 DEF Search, Insert, IsNew
  <2>3. Keep(prog, start) => start \in Reach(prog, origins')
    BY <2>1, ReachStart
  <2>4. QED
    BY <2>1, <2>2, <2>3 DEF CountInv
<1>3. CASE PopGoal
  BY <1>3 DEF PopGoal, CountInv
<1>4. CASE PopOther
  BY <1>4 DEF PopOther, CountInv
<1>5. CASE Expand
  <2>1. /\ prog' = prog /\ origins' = origins /\ verdict' = verdict /\ nbExplored' = nbExplored
        /\ phase = "expand" /\ verdict = "None"
    BY <1>5 DEF Expand, SoundInv
  <2>2. stored' = stored \/ (Keep(prog, outcome) /\ stored' = stored \cup {prog.hash[outcome]})
    BY <1>5 DEF Expand, Insert, IsNew
  <2>3. Keep(prog, outcome) => outcome \in Reach(prog, origins)
    BY <2>1, OutcomeIsSuccessor, ReachStep DEF SoundInv
  <2>4. QED
    BY <2>1, <2>2, <2>3 DEF CountInv
<1>6. CASE Abort
  BY <1>6 DEF Abort, CountInv
<1>7. CASE Exhausted
  BY <1>7 DEF Exhausted, CountInv
<1>8. CASE UNCHANGED vars
  BY <1>8 DEF vars, CountInv
<1>9. QED
  BY <1>1, <1>2, <1>3, <1>4, <1>5, <1>6, <1>7, <1>8 DEF Next, Step

\* It holds always.
LEMMA CountAlways == Spec => []CountInv
<1>1. Init => CountInv
  BY DEF Init, CountInv
<1>2. QED
  BY <1>1, CountStep, SoundAlways, TypeCorrect, PTL DEF Spec

\* A set that a function without collisions maps onto a finite set is as large.
LEMMA ImageCounts ==
  ASSUME NEW S, NEW T, NEW f \in [S -> T], IsFiniteSet(T),
         \A s, t \in S : f[s] = f[t] => s = t,
         \A h \in T : \E s \in S : f[s] = h
  PROVE  Cardinality(S) = Cardinality(T)
<1>1. f \in Injection(S, T) /\ f \in Surjection(S, T)
  BY DEF Injection, IsInjective, Surjection
<1>2. QED
  BY <1>1, FS_Injection

\* The number of explored states after an exhaustive search is the number of the
\* reachable feasible states: the storage holds the hashes of the former (CountInv)
\* and of all the latter (CompleteInv), and no two of them share one.
LEMMA CountAnswers ==
  ASSUME TypeOK, CompleteInv, CountInv, verdict = "NotFound", phase = "idle", Trusted,
         origins = {call.start}
  PROVE  nbExplored = Cardinality(Reach(prog, {call.start}))
<1> DEFINE R == Reach(prog, {call.start})
           f == [s \in R |-> prog.hash[s]]
<1>1. R \subseteq { s \in State : Hashed(s) }
  BY CompleteStores
<1>2. R \subseteq State
  BY DEF Reach
<1>3. f \in [R -> stored]
  BY <1>1 DEF Hashed
<1>4. \A s, t \in R : f[s] = f[t] => s = t
  BY <1>2 DEF Trusted, HashSeparates
<1>5. \A h \in stored : \E s \in R : f[s] = h
  BY DEF CountInv
<1> HIDE DEF f, R
<1>6. Cardinality(R) = Cardinality(stored)
  BY <1>3, <1>4, <1>5, ImageCounts DEF TypeOK
<1>7. QED
  BY <1>6 DEF CountInv, R

\* getNumberExploredStates, what the enum command prints, is exact for every gap-free
\* program whose hash separates its states, when the search began with nothing left
\* waiting from another start.
THEOREM CountExact == Spec => []CountsReachable
<1>1. TypeOK /\ SoundInv /\ CompleteInv /\ CountInv => CountsReachable
  BY CountAnswers DEF SoundInv, CountsReachable, Trusted, TypeOK
<1>2. QED
  BY <1>1, SoundAlways, CompleteAlways, CountAlways, TypeCorrect, PTL

-----------------------------------------------------------------------------
(* No double work                                                          *)

\* No two states of the list share a hash.
Separate(w) == \A i, j \in 1..Len(w) : prog.hash[w[i]] = prog.hash[w[j]] => i = j

\* A state with a hash of its own can be pushed.
LEMMA PushSeparate ==
  ASSUME NEW w \in Seq(State), NEW s \in State, Separate(w),
         \A i \in 1..Len(w) : prog.hash[w[i]] # prog.hash[s]
  PROVE  Separate(Push(w, s))
<1>0. Len(w) \in Nat
  BY LenProperties
<1>1. CASE strategy = "BFS"
  <2> DEFINE v == Append(w, s)
  <2>1. Push(w, s) = v
    BY <1>1 DEF Push, PushBack
  <2>2. /\ Len(v) = Len(w) + 1
        /\ \A i \in 1..Len(w) : v[i] = w[i]
        /\ v[Len(w) + 1] = s
    BY AppendProperties
  <2> HIDE DEF v
  <2>3. QED
    BY <1>0, <2>1, <2>2 DEF Separate
<1>2. CASE strategy # "BFS"
  <2> DEFINE v == <<s>> \o w
  <2>1. Push(w, s) = v
    BY <1>2 DEF Push, PushFront
  <2>2. /\ <<s>> \in Seq(State)
        /\ Len(<<s>>) = 1
        /\ <<s>>[1] = s
    OBVIOUS
  <2>3. /\ Len(v) = 1 + Len(w)
        /\ \A i \in 1..1 + Len(w) : v[i] = IF i <= 1 THEN <<s>>[i] ELSE w[i - 1]
    BY <2>2, ConcatProperties
  <2> HIDE DEF v
  <2>4. v[1] = s /\ \A i \in 2..Len(v) : v[i] = w[i - 1] /\ i - 1 \in 1..Len(w)
    BY <1>0, <2>2, <2>3
  <2>5. ASSUME NEW i \in 1..Len(v), NEW j \in 1..Len(v), prog.hash[v[i]] = prog.hash[v[j]]
        PROVE  i = j
    <3>1. CASE i = 1 /\ j = 1
      BY <3>1
    <3>2. CASE i = 1 /\ j # 1
      BY <1>0, <2>3, <2>4, <2>5, <3>2
    <3>3. CASE i # 1 /\ j = 1
      BY <1>0, <2>3, <2>4, <2>5, <3>3
    <3>4. CASE i # 1 /\ j # 1
      <4>1. prog.hash[w[i - 1]] = prog.hash[w[j - 1]] /\ i - 1 \in 1..Len(w) /\ j - 1 \in 1..Len(w)
        BY <1>0, <2>3, <2>4, <2>5, <3>4
      <4>2. i - 1 = j - 1
        BY <4>1 DEF Separate
      <4>3. QED
        BY <1>0, <2>3, <2>5, <4>2
    <3>5. QED
      BY <3>1, <3>2, <3>3, <3>4
  <2>6. QED
    BY <2>1, <2>5 DEF Separate
<1>3. QED
  BY <1>1, <1>2

\* What is left after a pop is still apart, from the popped state too.
LEMMA PopSeparate ==
  ASSUME NEW w \in Seq(State), w # <<>>, Separate(w)
  PROVE  /\ Separate(Rest(w))
         /\ \A i \in 1..Len(Rest(w)) : prog.hash[Rest(w)[i]] # prog.hash[Top(w)]
<1>0. Len(w) \in Nat /\ Len(w) >= 1
  BY EmptySeq, LenProperties
<1>1. CASE strategy = "BFS"
  <2>1. Top(w) = w[Len(w)] /\ Rest(w) = Front(w)
    BY <1>1 DEF Top, Rest, Last
  <2>2. /\ Len(Rest(w)) = Len(w) - 1
        /\ \A i \in 1..Len(w) - 1 : Rest(w)[i] = w[i]
    BY <2>1, FrontProperties
  <2>3. QED
    BY <1>0, <2>1, <2>2 DEF Separate
<1>2. CASE strategy # "BFS"
  <2>1. Top(w) = w[1] /\ Rest(w) = Tail(w)
    BY <1>0, <1>2 DEF Top, Rest
  <2>2. /\ Len(Rest(w)) = Len(w) - 1
        /\ \A i \in 1..Len(w) - 1 : Rest(w)[i] = w[i + 1]
    BY <2>1, HeadTailProperties
  <2>3. ASSUME NEW i \in 1..Len(Rest(w)), NEW j \in 1..Len(Rest(w)),
               prog.hash[Rest(w)[i]] = prog.hash[Rest(w)[j]]
        PROVE  i = j
    <3>0. /\ i + 1 \in 1..Len(w) /\ Rest(w)[i] = w[i + 1]
          /\ j + 1 \in 1..Len(w) /\ Rest(w)[j] = w[j + 1]
      BY <1>0, <2>2
    <3>1. prog.hash[w[i + 1]] = prog.hash[w[j + 1]]
      BY <2>3, <3>0
    <3>2. i + 1 = j + 1
      BY <3>0, <3>1 DEF Separate
    <3>3. QED
      BY <1>0, <2>2, <3>2
  <2>4. ASSUME NEW i \in 1..Len(Rest(w)) PROVE prog.hash[Rest(w)[i]] # prog.hash[Top(w)]
    <3>1. i + 1 \in 1..Len(w) /\ 1 \in 1..Len(w) /\ i + 1 # 1 /\ Rest(w)[i] = w[i + 1]
      BY <1>0, <2>2, <2>4
    <3>2. QED
      BY <2>1, <3>1 DEF Separate
  <2>5. QED
    BY <2>3, <2>4 DEF Separate
<1>3. QED
  BY <1>1, <1>2

\* The list of a first search, with the storage and the expanded state. Before the
\* first search the list is empty; NoDoubleWork alone does not say so, nor that the
\* state under expansion is stored.
WorkInv ==
  /\ searches = 0 => waiting = <<>> /\ phase = "idle"
  /\ searches = 1 /\ phase # "idle" =>
       /\ Separate(waiting)
       /\ \A i \in 1..Len(waiting) : Hashed(waiting[i])
       /\ phase = "expand" => /\ Hashed(searchee)
                              /\ \A i \in 1..Len(waiting) : prog.hash[waiting[i]] # prog.hash[searchee]

\* insert keeps the list apart, and every state of it stored.
LEMMA InsertSeparate ==
  ASSUME NEW s \in State, NEW hashes \in SUBSET Hash, NEW w \in Seq(State), IsFiniteSet(hashes),
         prog \in Program, Insert(s, hashes, w), prog' = prog, strategy' = strategy,
         Separate(w), \A i \in 1..Len(w) : prog.hash[w[i]] \in hashes
  PROVE  /\ Separate(waiting)'
         /\ \A i \in 1..Len(waiting') : prog.hash[waiting'[i]] \in stored'
         /\ hashes \subseteq stored'
         /\ \A h \in hashes : (\A i \in 1..Len(w) : prog.hash[w[i]] # h)
                                => \A i \in 1..Len(waiting') : prog.hash[waiting'[i]] # h
<1>1. CASE IsNew(s, hashes)
  <2>1. stored' = hashes \cup {prog.hash[s]} /\ waiting' = Push(w, s) /\ prog.hash[s] \notin hashes
    BY <1>1 DEF Insert, IsNew
  <2>2. Separate(Push(w, s))
    BY <2>1, PushSeparate
  <2>3. ASSUME NEW i \in 1..Len(waiting') PROVE waiting'[i] = s \/ In(waiting'[i], w)
    <3>1. In(waiting'[i], Push(w, s))
      BY <2>1, <2>3 DEF In
    <3>2. QED
      BY <3>1, PushIn
  <2>4. \A i \in 1..Len(waiting') : waiting'[i] = s \/ \E j \in 1..Len(w) : waiting'[i] = w[j]
    BY <2>3 DEF In
  <2>5. QED
    BY <2>1, <2>2, <2>4 DEF Separate
<1>2. CASE ~IsNew(s, hashes)
  BY <1>2 DEF Insert, Separate
<1>3. QED
  BY <1>1, <1>2

\* Every step preserves the invariant behind NoDoubleWork.
LEMMA WorkStep ==
  TypeOK /\ CursorOK /\ WorkInv /\ [Next]_vars => WorkInv'
<1> SUFFICES ASSUME TypeOK, CursorOK, WorkInv, [Next]_vars
             PROVE  WorkInv'
  OBVIOUS
<1> USE DEF config
<1>0. searches \in Nat
  BY BoundOK DEF TypeOK
<1>1. ASSUME NEW strat \in {"DFS", "BFS"}, SetSearchStrategy(strat)
      PROVE  WorkInv'
  BY <1>1 DEF SetSearchStrategy, WorkInv
<1>2. ASSUME NEW start \in Starts, NEW goal \in Goals, Search(start, goal)
      PROVE  WorkInv'
  <2>1. /\ start \in State /\ prog' = prog /\ strategy' = strategy /\ phase' = "loop"
        /\ searches' = searches + 1 /\ Insert(start, {}, waiting)
    BY <1>2, CallsOK DEF Search
  <2>2. CASE searches = 0
    <3>1. waiting = <<>> /\ \A i \in 1..Len(waiting) : FALSE
      BY <2>2 DEF WorkInv
    <3>2. Separate(waiting)
      BY <3>1 DEF Separate
    <3>3. /\ Separate(waiting)'
          /\ \A i \in 1..Len(waiting') : prog.hash[waiting'[i]] \in stored'
      BY <2>1, <3>1, <3>2, InsertSeparate, FS_EmptySet DEF TypeOK
    <3>4. QED
      BY <2>1, <2>2, <3>3 DEF WorkInv, Hashed
  <2>3. CASE searches # 0
    BY <1>0, <2>1, <2>3 DEF WorkInv
  <2>4. QED
    BY <2>2, <2>3
<1>3. CASE PopGoal
  BY <1>3 DEF PopGoal, WorkInv
<1>4. CASE PopOther
  <2> DEFINE top == Top(waiting)
  <2>1. /\ phase = "loop" /\ phase' \in {"loop", "expand"} /\ waiting # <<>>
        /\ waiting' = Rest(waiting) /\ searchee' = top
        /\ prog' = prog /\ stored' = stored /\ searches' = searches
    BY <1>4 DEF PopOther
  <2>2. top \in State /\ In(top, waiting) /\ \A t : In(t, waiting') => In(t, waiting)
    BY <2>1, PopIn DEF TypeOK
  <2> HIDE DEF top
  <2>3. CASE searches = 1
    <3>1. Separate(waiting) /\ \A i \in 1..Len(waiting) : Hashed(waiting[i])
      BY <2>1, <2>3 DEF WorkInv
    <3>2. /\ Separate(waiting')
          /\ \A i \in 1..Len(waiting') : prog.hash[waiting'[i]] # prog.hash[top]
      BY <2>1, <3>1, PopSeparate DEF TypeOK, top
    <3>3. Hashed(top)
      BY <2>2, <3>1 DEF In
    <3>4. \A i \in 1..Len(waiting') : Hashed(waiting'[i])
      BY <2>2, <3>1 DEF In
    <3>5. QED
      BY <2>1, <2>3, <3>2, <3>3, <3>4 DEF WorkInv, Hashed, Separate
  <2>4. CASE searches # 1
    BY <2>1, <2>4 DEF WorkInv
  <2>5. QED
    BY <2>3, <2>4
<1>5. CASE Expand
  <2>1. /\ phase = "expand" /\ phase' # "idle" /\ searchee' = searchee
        /\ prog' = prog /\ strategy' = strategy /\ searches' = searches
    BY <1>5 DEF Expand
  <2>2. CASE searches = 1
    <3>1. /\ Separate(waiting) /\ Hashed(searchee)
          /\ \A i \in 1..Len(waiting) : prog.hash[waiting[i]] \in stored
          /\ \A i \in 1..Len(waiting) : prog.hash[waiting[i]] # prog.hash[searchee]
      BY <2>1, <2>2 DEF WorkInv, Hashed
    <3>2. CASE outcome = Reject
      <4>1. stored' = stored /\ waiting' = waiting
        BY <1>5, <3>2 DEF Expand
      <4>2. QED
        BY <2>1, <2>2, <3>1, <4>1 DEF WorkInv, Hashed, Separate
    <3>3. CASE outcome # Reject
      <4>1. outcome \in State /\ Insert(outcome, stored, waiting)
        BY <1>5, <3>3, OutcomeType DEF Expand
      <4>2. /\ Separate(waiting)'
            /\ \A i \in 1..Len(waiting') : prog.hash[waiting'[i]] \in stored'
            /\ stored \subseteq stored'
            /\ \A i \in 1..Len(waiting') : prog.hash[waiting'[i]] # prog.hash[searchee]
        BY <2>1, <3>1, <4>1, InsertSeparate DEF TypeOK, Hashed
      <4>3. QED
        BY <2>1, <2>2, <3>1, <4>2 DEF WorkInv, Hashed
    <3>4. QED
      BY <3>2, <3>3
  <2>3. CASE searches # 1
    BY <2>1, <2>3 DEF WorkInv
  <2>4. QED
    BY <2>2, <2>3
<1>6. CASE Abort
  BY <1>6 DEF Abort, WorkInv
<1>7. CASE Exhausted
  BY <1>7 DEF Exhausted, WorkInv
<1>8. CASE UNCHANGED vars
  BY <1>8 DEF vars, WorkInv, Hashed, Separate
<1>9. QED
  BY <1>1, <1>2, <1>3, <1>4, <1>5, <1>6, <1>7, <1>8 DEF Next, Step

\* In the first search of an object the storage makes every hash enter the waiting list
\* once: no state waits twice, nor while it is expanded, whatever cycles the program has.
THEOREM ExpandedOnce == Spec => []NoDoubleWork
<1>1. Init => WorkInv
  BY DEF Init, WorkInv
<1>2. WorkInv => NoDoubleWork
  BY DEF WorkInv, NoDoubleWork, Separate, Hashed
<1>3. QED
  BY <1>1, <1>2, WorkStep, TypeCorrect, PTL DEF Spec

-----------------------------------------------------------------------------
(* Refinement                                                              *)

\* The oracle reads the program as the search does.
LEMMA OracleReach ==
  /\ \A g, S : Oracle!Reach(g, S) = Reach(g, S)
  /\ \A g : Oracle!GapFree(g) = GapFree(g) /\ Oracle!HashSeparates(g) = HashSeparates(g)
  BY DEF Oracle!Reach, Oracle!Inductive, Oracle!Closed, Oracle!Successors, Oracle!Keep,
         Reach, Inductive, Closed, Successors, Keep, Oracle!GapFree, GapFree,
         Oracle!HashSeparates, HashSeparates

\* Every step of the search is a step of the oracle or a stutter.
LEMMA OracleStep ==
  ASSUME TypeOK, CursorOK, FoundIsReachable', NotFoundIsUnreachable', [Next]_vars
  PROVE  [Oracle!Next]_(Oracle!vars)
<1> USE DEF config
<1>1. ASSUME NEW strat \in {"DFS", "BFS"}, SetSearchStrategy(strat)
      PROVE  UNCHANGED Oracle!vars
  BY <1>1 DEF SetSearchStrategy, Oracle!vars
<1>2. ASSUME NEW start \in Starts, NEW goal \in Goals, Search(start, goal)
      PROVE  Oracle!Next
  <2>1. start \in State /\ goal \in SUBSET State
    BY CallsOK
  <2>2. Oracle!Ask(start, goal)
    BY <1>2 DEF Search, Oracle!Ask
  <2>3. QED
    BY <2>1, <2>2 DEF Oracle!Next
<1>3. ASSUME PopGoal PROVE Oracle!Next
  <2>1. verdict' = "Found" /\ found' \in State /\ found' \in call.goal
        /\ prog' = prog /\ origins' = origins
    BY <1>3, PopIn DEF PopGoal, TypeOK
  <2>2. found' \in Reach(prog, origins)
    BY <2>1 DEF FoundIsReachable
  <2>3. Oracle!AnswerFound(found')
    BY <1>3, <2>1, <2>2, OracleReach DEF PopGoal, Oracle!AnswerFound
  <2>4. QED
    BY <2>1, <2>3 DEF Oracle!Next
<1>4. ASSUME PopOther PROVE UNCHANGED Oracle!vars
  BY <1>4 DEF PopOther, Oracle!vars
<1>5. ASSUME Expand PROVE UNCHANGED Oracle!vars
  BY <1>5 DEF Expand, Oracle!vars
<1>6. ASSUME Abort PROVE Oracle!Next
  <2>1. Oracle!Fail
    BY <1>6 DEF Abort, Oracle!Fail
  <2>2. QED
    BY <2>1 DEF Oracle!Next
<1>7. ASSUME Exhausted PROVE Oracle!Next
  <2>1. /\ prog' = prog /\ call' = call /\ verdict' = "NotFound" /\ phase' = "idle"
    BY <1>7 DEF Exhausted
  <2>2. Trusted => Reach(prog, {call.start}) \cap call.goal = {}
    BY <2>1 DEF NotFoundIsUnreachable, Trusted
  <2>3. Oracle!AnswerNotFound
    BY <1>7, <2>1, <2>2, OracleReach DEF Exhausted, Oracle!AnswerNotFound, Trusted
  <2>4. QED
    BY <2>3 DEF Oracle!Next
<1>8. ASSUME UNCHANGED vars PROVE UNCHANGED Oracle!vars
  BY <1>8 DEF vars, Oracle!vars
<1>9. QED
  BY <1>1, <1>2, <1>3, <1>4, <1>5, <1>6, <1>7, <1>8 DEF Next, Step

\* The search implements SearchOracle: it answers only what a reader of its name may
\* rely on, for every program, strategy and sequence of calls.
THEOREM Refinement == Spec => ImplementsOracle
<1>1. Init => Oracle!Init
  BY CallsOK DEF Init, Oracle!Init
<1>2. TypeOK /\ CursorOK /\ FoundIsReachable' /\ NotFoundIsUnreachable' /\ [Next]_vars
        => [Oracle!Next]_(Oracle!vars)
  BY OracleStep
<1>3. QED
  BY <1>1, <1>2, TypeCorrect, FoundSound, NotFoundSound, PTL DEF Spec, Oracle!Spec, ImplementsOracle
=============================================================================
