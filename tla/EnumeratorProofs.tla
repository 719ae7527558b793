-------------------------- MODULE EnumeratorProofs --------------------------
(***************************************************************************)
(* Lemmas about TransitionEnumerator for any sequence of edge lists, used  *)
(* by the search and by the interpreter: the enumerator stands on an edge  *)
(* until it is done, and passes one edge at a time. Then about loops: what *)
(* any number of rounds makes of a state exists.                           *)
(***************************************************************************)
EXTENDS TransitionEnumerator, SequenceTheorems, WellFoundedInduction, TLAPS

InRange(lists, e) ==
  /\ ~e.done
  /\ e.proc \in 1..Len(lists)
  /\ e.iter \in 1..Len(lists[e.proc])

\* Edge i of process p precedes the position of the enumerator.
Before(e, p, i) == p < e.proc \/ (p = e.proc /\ i < e.iter)

NoGap(lists) ==
  \A p, q \in 1..Len(lists) : p < q /\ lists[p] = <<>> => lists[q] = <<>>

\* A fresh enumerator stands on the first edge of the first process, or is done
\* because that process has none; then, without gaps, there is no edge at all.
LEMMA StartEnumerates ==
  ASSUME NEW S, NEW lists \in Seq(Seq(S)), Len(lists) # 0
  PROVE  /\ Start(lists) \in Enumerator
         /\ ~Start(lists).done =>
              /\ InRange(lists, Start(lists))
              /\ \A p \in 1..Len(lists) : \A i \in 1..Len(lists[p]) : ~Before(Start(lists), p, i)
         /\ Start(lists).done /\ NoGap(lists) => \A p \in 1..Len(lists) : lists[p] = <<>>
<1> DEFINE e == Start(lists)
<1>1. PICK n \in Nat : n = Len(lists) /\ n >= 1
  BY LenProperties
<1>2. lists[1] \in Seq(S)
  BY <1>1, ElementOfSeq
<1>3. PICK k \in Nat : k = Len(lists[1]) /\ (lists[1] # <<>> => k >= 1)
  BY <1>2, EmptySeq, LenProperties
<1>4. e.proc = 1 /\ e.iter = 1 /\ (e.done <=> lists[1] = <<>>)
  BY DEF Start
<1>5. e \in Enumerator
  BY ZenonT(20) DEF Start, Enumerator
<1>6. ASSUME ~e.done PROVE InRange(lists, e)
  BY <1>1, <1>3, <1>4, <1>6 DEF InRange
<1>7. ASSUME NEW p \in 1..Len(lists), NEW i \in 1..Len(lists[p]) PROVE ~Before(e, p, i)
  <2>1. p \in Nat /\ p >= 1
    BY <1>1, <1>7
  <2>2. PICK m \in Nat : m = Len(lists[p])
    BY <1>7, ElementOfSeq, LenProperties
  <2>3. i >= 1 /\ i \in Nat
    BY <1>7, <2>2
  <2>4. QED
    BY <1>4, <2>1, <2>3 DEF Before
<1>8. ASSUME e.done, NoGap(lists), NEW p \in 1..Len(lists) PROVE lists[p] = <<>>
  <2>1. lists[1] = <<>>
    BY <1>4, <1>8
  <2>2. 1 \in 1..Len(lists) /\ p \in Nat /\ (p = 1 \/ 1 < p)
    BY <1>1, <1>8
  <2>3. QED
    BY <1>8, <2>1, <2>2 DEF NoGap
<1>9. QED
  BY <1>5, <1>6, <1>7, <1>8

\* One step of the enumerator passes exactly the edge it stood on; when it is done
\* and there is no gap, every other edge was passed before.
LEMMA AdvanceEnumerates ==
  ASSUME NEW S, NEW lists \in Seq(Seq(S)), NEW e \in Enumerator, InRange(lists, e)
  PROVE  /\ Advance(lists, e) \in Enumerator
         /\ ~Advance(lists, e).done => InRange(lists, Advance(lists, e))
         /\ ~Advance(lists, e).done =>
              \A p \in 1..Len(lists) : \A i \in 1..Len(lists[p]) :
                 Before(Advance(lists, e), p, i) =>
                   Before(e, p, i) \/ (p = e.proc /\ i = e.iter)
         /\ Advance(lists, e).done /\ NoGap(lists) =>
              \A p \in 1..Len(lists) : \A i \in 1..Len(lists[p]) :
                 Before(e, p, i) \/ (p = e.proc /\ i = e.iter)
<1> DEFINE f == Advance(lists, e)
<1>0. f = IF e.iter < Len(lists[e.proc]) THEN [e EXCEPT !.iter = @ + 1] ELSE NextProcess(lists, e)
  BY DEF Advance
<1> SUFFICES /\ f \in Enumerator
             /\ ~f.done => InRange(lists, f)
             /\ ~f.done => \A p \in 1..Len(lists) : \A i \in 1..Len(lists[p]) :
                  Before(f, p, i) => Before(e, p, i) \/ (p = e.proc /\ i = e.iter)
             /\ f.done /\ NoGap(lists) => \A p \in 1..Len(lists) : \A i \in 1..Len(lists[p]) :
                  Before(e, p, i) \/ (p = e.proc /\ i = e.iter)
  OBVIOUS
<1> HIDE DEF f
<1>1. PICK n \in Nat : n = Len(lists)
  BY LenProperties
<1>2. /\ e.proc \in 1..n
      /\ e.proc \in Nat /\ e.iter \in Nat /\ ~e.done
      /\ e = [proc |-> e.proc, iter |-> e.iter, done |-> e.done]
  BY <1>1 DEF InRange, Enumerator
<1>3. lists[e.proc] \in Seq(S)
  BY <1>1, <1>2, ElementOfSeq
<1>4. PICK k \in Nat : k = Len(lists[e.proc]) /\ e.iter \in 1..k
  BY <1>3, LenProperties DEF InRange
<1>5. CASE e.iter < k
  <2>1. f = [proc |-> e.proc, iter |-> e.iter + 1, done |-> FALSE]
    <3>1. f = [e EXCEPT !.iter = e.iter + 1]
      BY <1>0, <1>4, <1>5
    <3>2. e.done = FALSE
      BY <1>2 DEF Enumerator
    <3>3. QED
      BY <3>1, <3>2 DEF Enumerator
  <2>2. f \in Enumerator /\ InRange(lists, f)
    BY <1>1, <1>2, <1>4, <1>5, <2>1 DEF Enumerator, InRange
  <2>3. ASSUME NEW p \in 1..Len(lists), NEW i \in 1..Len(lists[p]), Before(f, p, i)
        PROVE  Before(e, p, i) \/ (p = e.proc /\ i = e.iter)
    <3>1. PICK m \in Nat : m = Len(lists[p])
      BY <2>3, ElementOfSeq, LenProperties
    <3>2. p \in Nat /\ i \in Nat
      BY <1>1, <2>3, <3>1
    <3>3. QED
      BY <1>2, <2>1, <2>3, <3>2 DEF Before
  <2>4. QED
    BY <2>1, <2>2, <2>3
<1>6. CASE ~(e.iter < k)
  <2>0. e.iter = k /\ f = NextProcess(lists, e)
    BY <1>0, <1>2, <1>4, <1>6
  <2>1. CASE e.proc = n
    <3>0. f = [proc |-> e.proc + 1, iter |-> e.iter, done |-> TRUE]
      BY <1>1, <1>2, <2>0, <2>1 DEF NextProcess
    <3>1. f.done /\ f \in Enumerator
      BY <1>2, <3>0 DEF Enumerator
    <3>2. ASSUME NEW p \in 1..Len(lists), NEW i \in 1..Len(lists[p])
          PROVE  Before(e, p, i) \/ (p = e.proc /\ i = e.iter)
      <4>1. PICK m \in Nat : m = Len(lists[p])
        BY <3>2, ElementOfSeq, LenProperties
      <4>2. CASE p = e.proc
        <5>1. m = k /\ i \in 1..k
          BY <1>4, <3>2, <4>1, <4>2
        <5>2. QED
          BY <1>2, <2>0, <4>2, <5>1 DEF Before
      <4>3. CASE p # e.proc
        <5>1. p < e.proc
          BY <1>1, <1>2, <2>1, <3>2, <4>3
        <5>2. QED
          BY <5>1 DEF Before
      <4>4. QED
        BY <4>2, <4>3
    <3>3. QED
      BY <3>1, <3>2
  <2>2. CASE e.proc # n
    <3>0. f = [proc |-> e.proc + 1, iter |-> 1, done |-> lists[e.proc + 1] = <<>>]
      BY <1>1, <2>0, <2>2 DEF NextProcess
    <3>1. /\ f.proc = e.proc + 1 /\ f.iter = 1
          /\ f.done <=> lists[e.proc + 1] = <<>>
          /\ e.proc + 1 \in 1..n
      <4>1. f.proc = e.proc + 1 /\ f.iter = 1 /\ e.proc + 1 \in 1..n
        BY <1>1, <1>2, <2>2, <3>0
      <4>2. f.done <=> lists[e.proc + 1] = <<>>
        BY <3>0, ZenonT(20)
      <4>3. QED
        BY <4>1, <4>2
    <3>2. lists[e.proc + 1] \in Seq(S)
      BY <1>1, <3>1, ElementOfSeq
    <3>3. PICK j \in Nat : j = Len(lists[e.proc + 1]) /\ (lists[e.proc + 1] # <<>> => j >= 1)
      BY <3>2, EmptySeq, LenProperties
    <3>4. f \in Enumerator
      <4>1. e.proc + 1 \in Nat /\ 1 \in Nat
        BY <1>2
      <4>2. QED
        BY <3>0, <4>1, ZenonT(20) DEF Enumerator
    <3>5. ASSUME ~f.done PROVE InRange(lists, f)
      BY <1>1, <3>1, <3>3, <3>5 DEF InRange
    <3>6. ASSUME NEW p \in 1..Len(lists), NEW i \in 1..Len(lists[p]), p <= e.proc
          PROVE  Before(e, p, i) \/ (p = e.proc /\ i = e.iter)
      <4>1. PICK m \in Nat : m = Len(lists[p])
        BY <3>6, ElementOfSeq, LenProperties
      <4>2. CASE p = e.proc
        <5>1. m = k /\ i \in 1..k
          BY <1>4, <3>6, <4>1, <4>2
        <5>2. QED
          BY <1>2, <2>0, <4>2, <5>1 DEF Before
      <4>3. CASE p # e.proc
        <5>1. p < e.proc
          BY <1>1, <1>2, <3>6, <4>3
        <5>2. QED
          BY <5>1 DEF Before
      <4>4. QED
        BY <4>2, <4>3
    <3>7. ASSUME NEW p \in 1..Len(lists), NEW i \in 1..Len(lists[p]), Before(f, p, i)
          PROVE  p <= e.proc
      <4>1. PICK m \in Nat : m = Len(lists[p])
        BY <3>7, ElementOfSeq, LenProperties
      <4>2. p \in Nat /\ i \in Nat /\ i >= 1
        BY <1>1, <3>7, <4>1
      <4>3. QED
        BY <1>2, <3>1, <3>7, <4>2 DEF Before
    <3>8. ASSUME f.done, NoGap(lists), NEW p \in 1..Len(lists), NEW i \in 1..Len(lists[p])
          PROVE  p <= e.proc
      <4>1. lists[e.proc + 1] = <<>>
        BY <3>1, <3>8
      <4>2. SUFFICES ASSUME p > e.proc PROVE FALSE
        BY <1>1, <1>2, <3>8
      <4>3. p = e.proc + 1 \/ e.proc + 1 < p
        BY <1>1, <1>2, <3>8, <4>2
      <4>4. lists[p] = <<>>
        BY <1>1, <3>1, <3>8, <4>1, <4>3 DEF NoGap
      <4>5. QED
        BY <3>8, <4>4, EmptySeq
    <3>9. QED
      BY <3>4, <3>5, <3>6, <3>7, <3>8
  <2>3. QED
    BY <2>1, <2>2
<1>7. QED
  BY <1>4, <1>5, <1>6

-----------------------------------------------------------------------------
(* Iteration                                                               *)

\* A non-empty set of natural numbers has a least member.
LEMMA LeastNat ==
  ASSUME NEW T \in SUBSET Nat, T # {}
  PROVE  \E m \in T : \A n \in T : m <= n
<1>1. PICK m \in T : \A n \in T : ~(<<n, m>> \in OpToRel(<, Nat))
  BY NatLessThanWellFounded, WFMin
<1>2. ASSUME NEW n \in T PROVE m <= n
  <2>1. n \in Nat /\ m \in Nat
    OBVIOUS
  <2>2. ~(n < m)
    BY <1>1, <1>2, <2>1 DEF OpToRel
  <2>3. QED
    BY <2>1, <2>2
<1>3. QED
  BY <1>2

Steps(S) == [S -> S]

Repeats(f, S, init, step) ==
  f \in [Nat -> S] /\ f[0] = init /\ \A n \in Nat \ {0} : f[n] = step[f[n - 1]]

\* A function that starts somewhere and repeats a step exists.
LEMMA Iteration ==
  ASSUME NEW S, NEW init \in S, NEW step \in Steps(S)
  PROVE  \E f : Repeats(f, S, init, step)
<1> USE DEF Steps
<1> DEFINE Upto(n, g) == /\ g \in [0..n -> S] /\ g[0] = init
                         /\ \A k \in 1..n : g[k] = step[g[k - 1]]
           Missing == {n \in Nat : ~ \E g : Upto(n, g)}
<1>1. ASSUME NEW n \in Nat PROVE \E g : Upto(n, g)
  <2>1. SUFFICES ASSUME Missing # {} PROVE FALSE
    OBVIOUS
  <2>2. PICK m \in Missing : \A k \in Missing : m <= k
    BY <2>1, LeastNat
  <2>3. m # 0
    <3>1. Upto(0, [k \in 0..0 |-> init])
      OBVIOUS
    <3>2. QED
      BY <3>1
  <2>4. PICK g : Upto(m - 1, g)
    <3>1. m - 1 \in Nat /\ ~(m <= m - 1)
      BY <2>2, <2>3
    <3>2. m - 1 \notin Missing
      BY <2>2, <3>1
    <3>3. QED
      BY <3>1, <3>2
  <2> DEFINE h == [k \in 0..m |-> IF k = m THEN step[g[m - 1]] ELSE g[k]]
  <2>5. h \in [0..m -> S] /\ h[0] = init
    BY <2>2, <2>3, <2>4
  <2>6. ASSUME NEW k \in 1..m PROVE h[k] = step[h[k - 1]]
    BY <2>2, <2>3, <2>4
  <2>7. QED
    BY <2>2, <2>5, <2>6
<1>2. ASSUME NEW n \in Nat, NEW m \in 0..n, NEW g, NEW h, Upto(n, g), Upto(m, h)
      PROVE  g[m] = h[m]
  <2> DEFINE Differ == {k \in 0..m : g[k] # h[k]}
  <2>1. SUFFICES ASSUME Differ # {} PROVE FALSE
    OBVIOUS
  <2>2. PICK k \in Differ : \A j \in Differ : k <= j
    <3>1. Differ \in SUBSET Nat
      BY <1>2
    <3> HIDE DEF Differ
    <3>2. QED
      BY <2>1, <3>1, LeastNat
  <2>3. k # 0
    BY <1>2
  <2>4. k \in 1..m /\ k - 1 \in 0..m /\ k \in 1..n
    BY <1>2, <2>2, <2>3
  <2>5. k - 1 \notin Differ
    BY <2>2, <2>4
  <2>6. g[k - 1] = h[k - 1]
    BY <2>4, <2>5
  <2>7. QED
    BY <1>2, <2>2, <2>4, <2>6
<1> DEFINE G(n) == CHOOSE g : Upto(n, g)
           f == [n \in Nat |-> G(n)[n]]
<1>3. \A n \in Nat : Upto(n, G(n))
  BY <1>1
<1> HIDE DEF G
<1>4. f \in [Nat -> S] /\ f[0] = init
  BY <1>3
<1>5. ASSUME NEW n \in Nat \ {0} PROVE f[n] = step[f[n - 1]]
  <2>1. Upto(n, G(n)) /\ Upto(n - 1, G(n - 1)) /\ n - 1 \in 0..n
    BY <1>3
  <2>2. Upto(n - 1, [k \in 0..n - 1 |-> G(n)[k]])
    BY <2>1
  <2>3. G(n)[n - 1] = G(n - 1)[n - 1]
    BY <1>2, <2>1, <2>2
  <2>4. QED
    BY <2>1, <2>3
<1>6. QED
  BY <1>4, <1>5 DEF Repeats

=============================================================================
