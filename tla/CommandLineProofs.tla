------------------------- MODULE CommandLineProofs --------------------------
(***************************************************************************)
(* Proofs about the program from main to its exit code, sessions of the    *)
(* interpreter included, for every graph, any number of processes, names   *)
(* and loaders, and sessions of any length.                                *)
(***************************************************************************)
EXTENDS CommandLine, EnumeratorProofs

-----------------------------------------------------------------------------
(* The edges of a state                                                    *)

\* The edges of all processes of a state.
Outgoing(s) == UNION {ToSet(CFG[s[p]]) : p \in 1..NbProc}

\* What get_edge holds between two rounds of its loop.
Rounds(E, lists) == {r \in [edges : Seq(E), at : Enumerator] : ~r.at.done => InRange(lists, r.at)}

\* Whatever number of rounds it takes, the edges that were collected are edges of
\* the lists.
LEMMA CollectedType ==
  ASSUME NEW E, NEW lists \in Seq(Seq(E)), Len(lists) # 0
  PROVE  Collected(lists) \in Seq(E)
<1> DEFINE S    == Rounds(E, lists)
           init == [edges |-> <<>>, at |-> Start(lists)]
           step == [r \in S |-> IF r.at.done THEN r
                                ELSE [edges |-> Append(r.edges, Current(lists, r.at)),
                                      at    |-> Advance(lists, r.at)]]
<1>1. init \in S
  BY StartEnumerates, EmptySeq DEF Rounds
<1>2. ASSUME NEW r \in S PROVE step[r] \in S
  <2>1. r.edges \in Seq(E) /\ r.at \in Enumerator
    BY DEF Rounds
  <2>2. CASE r.at.done
    BY <2>2
  <2>3. CASE ~r.at.done
    <3>1. InRange(lists, r.at)
      BY <2>3 DEF Rounds
    <3>2. /\ Advance(lists, r.at) \in Enumerator
          /\ ~Advance(lists, r.at).done => InRange(lists, Advance(lists, r.at))
      BY <2>1, <3>1, AdvanceEnumerates
    <3>3. Current(lists, r.at) \in E
      <4>1. lists[r.at.proc] \in Seq(E)
        BY <3>1, ElementOfSeq DEF InRange
      <4>2. QED
        BY <3>1, <4>1, ElementOfSeq DEF InRange, Current
    <3>4. Append(r.edges, Current(lists, r.at)) \in Seq(E)
      BY <2>1, <3>3, AppendProperties
    <3>5. QED
      BY <2>3, <3>2, <3>4 DEF Rounds
  <2>4. QED
    BY <2>2, <2>3
<1>3. step \in [S -> S]
  BY <1>2
<1>4. PICK f \in [Nat -> S] : f[0] = init /\ \A n \in Nat \ {0} : f[n] = step[f[n - 1]]
  <2>1. step \in Steps(S)
    BY <1>3 DEF Steps
  <2> HIDE DEF S, init, step
  <2>2. \E f : Repeats(f, S, init, step)
    BY <1>1, <2>1, Iteration
  <2>3. QED
    BY <2>2 DEF Repeats
<1> DEFINE code(g) == [k \in Nat |-> IF k = 0 THEN init
                                     ELSE LET r == g[k - 1] IN
                                          IF r.at.done THEN r
                                          ELSE [edges |-> Append(r.edges, Current(lists, r.at)),
                                                at    |-> Advance(lists, r.at)]]
<1>5. f = code(f)
  <2>1. ASSUME NEW k \in Nat PROVE f[k] = code(f)[k]
    <3>1. CASE k = 0
      BY <1>4, <3>1
    <3>2. CASE k # 0
      <4>1. k - 1 \in Nat /\ k \in Nat \ {0}
        BY <3>2
      <4>2. f[k - 1] \in S
        <5> HIDE DEF S
        <5>1. QED
          BY <4>1
      <4>3. f[k] = step[f[k - 1]]
        BY <1>4, <4>1
      <4> DEFINE r == f[k - 1]
                 more == [edges |-> Append(r.edges, Current(lists, r.at)), at |-> Advance(lists, r.at)]
      <4>4. step[r] = IF r.at.done THEN r ELSE more
        BY <4>2
      <4>5. code(f)[k] = IF r.at.done THEN r ELSE more
        BY <3>2
      <4>6. QED
        BY <4>3, <4>4, <4>5
    <3>3. QED
      BY <3>1, <3>2
  <2>2. code(f) = [k \in Nat |-> code(f)[k]] /\ f = [k \in Nat |-> f[k]]
    <3> HIDE DEF S
    <3>1. QED
      OBVIOUS
  <2> HIDE DEF code
  <2>3. QED
    BY <2>1, <2>2
<1> DEFINE round == CHOOSE g : g = code(g)
<1>6. round = code(round)
  BY <1>5
<1>7. ASSUME NEW k \in Nat PROVE round[k] \in S
  <2> DEFINE Outside == {n \in Nat : round[n] \notin S}
  <2>1. SUFFICES ASSUME Outside # {} PROVE FALSE
    OBVIOUS
  <2>2. PICK m \in Outside : \A n \in Outside : m <= n
    <3>1. Outside \in SUBSET Nat
      OBVIOUS
    <3> HIDE DEF Outside
    <3>2. QED
      BY <2>1, <3>1, LeastNat
  <2> HIDE DEF round, S, init
  <2>3. round[m] = code(round)[m]
    BY <1>6
  <2>4. CASE m = 0
    BY <1>1, <2>2, <2>3, <2>4
  <2>5. CASE m # 0
    <3>1. m - 1 \in Nat /\ ~(m <= m - 1)
      BY <2>5
    <3>2. round[m - 1] \in S
      BY <2>2, <3>1
    <3> DEFINE r == round[m - 1]
               more == [edges |-> Append(r.edges, Current(lists, r.at)), at |-> Advance(lists, r.at)]
    <3>3. round[m] = IF r.at.done THEN r ELSE more
      BY <2>3, <2>5
    <3>4. step[r] = IF r.at.done THEN r ELSE more
      BY <3>2
    <3>5. round[m] \in S
      <4> HIDE DEF step
      <4>1. QED
        BY <1>2, <3>2, <3>3, <3>4
    <3>6. QED
      BY <3>5
  <2>6. QED
    BY <2>4, <2>5
<1>8. NbProc * MaxEdges \in Nat
  BY GraphOK
<1>9. Collected(lists) = round[NbProc * MaxEdges].edges
  BY DEF Collected
<1>10. QED
  BY <1>7, <1>8, <1>9 DEF Rounds

\* The edges the user picks from are edges of the processes.
LEMMA EdgesType ==
  ASSUME NEW s \in State
  PROVE  EdgesOf(s) \in Seq(Outgoing(s))
<1> DEFINE E == Outgoing(s)
<1>1. NbProc \in Nat \ {0} /\ Lists(s) = [p \in 1..NbProc |-> CFG[s[p]]]
  BY GraphOK DEF Lists
<1>2. ASSUME NEW p \in 1..NbProc PROVE CFG[s[p]] \in Seq(E)
  <2>1. PICK D : CFG[s[p]] \in Seq(D)
    BY GraphOK DEF State
  <2>2. PICK n \in Nat : CFG[s[p]] \in [1..n -> D]
    BY <2>1, LenProperties
  <2>3. ToSet(CFG[s[p]]) \subseteq E
    BY DEF Outgoing
  <2>4. CFG[s[p]] \in [1..n -> E]
    BY <2>2, <2>3 DEF ToSet
  <2>5. QED
    BY <2>4, SeqDef
<1>3. Lists(s) \in Seq(Seq(E)) /\ Len(Lists(s)) = NbProc
  <2>1. Lists(s) \in [1..NbProc -> Seq(E)]
    BY <1>1, <1>2
  <2>2. Lists(s) \in Seq(Seq(E))
    BY <1>1, <2>1, SeqDef
  <2>3. DOMAIN Lists(s) = 1..NbProc /\ DOMAIN Lists(s) = 1..Len(Lists(s)) /\ Len(Lists(s)) \in Nat
    BY <1>1, <2>2, LenProperties
  <2>4. QED
    BY <1>1, <2>2, <2>3
<1>4. QED
  BY <1>1, <1>3, CollectedType DEF EdgesOf

\* An edge at the location of the first process is one of its edges.
LEMMA EdgeKnown ==
  ASSUME NEW s \in State, NEW e \in Outgoing(s)
  PROVE  e \in EdgeOf /\ (e.from = s[1] => e \in ToSet(CFG[s[1]]))
<1>1. PICK p \in 1..NbProc : e \in ToSet(CFG[s[p]])
  BY DEF Outgoing
<1>2. s[p] \in Loc
  BY DEF State
<1>3. CFG[s[p]] \in Seq({d \in EdgeOf : d.from = s[p]})
  BY <1>2, GraphOK
<1>4. PICK i \in DOMAIN CFG[s[p]] : e = CFG[s[p]][i]
  BY <1>1 DEF ToSet
<1>5. e \in {d \in EdgeOf : d.from = s[p]}
  BY <1>3, <1>4, LenProperties, ElementOfSeq
<1>6. QED
  BY <1>1, <1>5

\* Whichever edge of a state is taken, the first process moves over one of its own
\* edges, or nothing moves.
LEMMA TransferMoves ==
  ASSUME NEW s \in State, NEW e \in Outgoing(s)
  PROVE  Transfer(s, e) \in State /\ Transfer(s, e) \in Moves(s)
<1>1. e \in EdgeOf /\ (e.from = s[1] => e \in ToSet(CFG[s[1]]))
  BY EdgeKnown
<1>2. CASE e.from = s[1] /\ e.answer = "ok"
  <2>1. Transfer(s, e) = [s EXCEPT ![1] = e.to]
    BY <1>2 DEF Transfer
  <2>2. e.to \in Loc
    BY <1>1 DEF EdgeOf
  <2>3. [s EXCEPT ![1] = e.to] \in State
    BY <2>2 DEF State
  <2>4. QED
    BY <1>1, <1>2, <2>1, <2>3 DEF Moves
<1>3. CASE ~(e.from = s[1] /\ e.answer = "ok")
  BY <1>3 DEF Transfer, Moves
<1>4. QED
  BY <1>2, <1>3

\* The silent edge that is followed is an edge of the state.
LEMMA FollowedMoves ==
  ASSUME NEW s \in State
  PROVE  Followed(s) \in State /\ Followed(s) \in Moves(s)
<1>1. CASE SilentEdges(s) = {}
  BY <1>1 DEF Followed, Moves
<1>2. CASE SilentEdges(s) # {}
  <2>1. SilentEdges(s) \in SUBSET Nat /\ SilentEdges(s) \subseteq 1..Len(EdgesOf(s))
    BY EdgesType, LenProperties DEF SilentEdges
  <2>2. \E i \in SilentEdges(s) : \A j \in SilentEdges(s) : i <= j
    BY <1>2, <2>1, LeastNat
  <2> DEFINE first == CHOOSE i \in SilentEdges(s) : \A j \in SilentEdges(s) : i <= j
  <2>3. first \in 1..Len(EdgesOf(s))
    BY <2>1, <2>2
  <2>4. FirstSilent(s) \in Outgoing(s)
    <3> HIDE DEF first
    <3>1. EdgesOf(s)[first] \in Outgoing(s)
      BY <2>3, EdgesType, ElementOfSeq
    <3>2. QED
      BY <3>1 DEF FirstSilent, first
  <2>5. QED
    BY <1>2, <2>4, TransferMoves DEF Followed
<1>3. QED
  BY <1>1, <1>2

-----------------------------------------------------------------------------
(* The map of states                                                       *)

\* What a line leaves at every name.
LEMMA AssignedAt ==
  ASSUME NEW m, NEW to, NEW s
  PROVE  /\ DOMAIN Assigned(m, to, s) = DOMAIN m \cup {to}
         /\ \A n \in DOMAIN m \cup {to} : Assigned(m, to, s)[n] = IF n = to THEN s ELSE m[n]
BY DEF Assigned

LEMMA TouchedAt ==
  ASSUME NEW m, NEW name
  PROVE  /\ DOMAIN Touched(m, name) = DOMAIN m \cup {name}
         /\ \A n \in DOMAIN m \cup {name} :
              Touched(m, name)[n] = IF n \in DOMAIN m THEN m[n] ELSE Null
<1>1. CASE name \in DOMAIN m
  <2>1. Touched(m, name) = m
    BY <1>1 DEF Touched
  <2>2. DOMAIN m \cup {name} = DOMAIN m
    BY <1>1
  <2>3. QED
    BY <2>1, <2>2
<1>2. CASE name \notin DOMAIN m
  <2>1. Touched(m, name) = Assigned(m, name, Null)
    BY <1>2 DEF Touched
  <2>2. \A n \in DOMAIN m \cup {name} : n = name <=> n \notin DOMAIN m
    BY <1>2
  <2>3. QED
    BY <2>1, <2>2 DEF Assigned
<1>3. QED
  BY <1>1, <1>2

CopyOf(m, to, from) ==
  [n \in DOMAIN m \cup {to, from} |-> IF n = to THEN IF from \in DOMAIN m THEN m[from] ELSE Null
                                      ELSE IF n \in DOMAIN m THEN m[n] ELSE Null]

LEMMA CopiedIs ==
  ASSUME NEW m, NEW to, NEW from
  PROVE  Copied(m, to, from) = CopyOf(m, to, from)
<1> DEFINE t == Touched(m, from)
           c == Assigned(t, to, t[from])
<1>1. Copied(m, to, from) = c
  BY DEF Copied
<1>2. /\ DOMAIN t = DOMAIN m \cup {from}
      /\ \A n \in DOMAIN m \cup {from} : t[n] = IF n \in DOMAIN m THEN m[n] ELSE Null
  BY TouchedAt
<1> HIDE DEF t
<1>3. c = [n \in DOMAIN t \cup {to} |-> IF n = to THEN t[from] ELSE t[n]]
  BY DEF Assigned
<1>4. DOMAIN t \cup {to} = DOMAIN m \cup {to, from}
  BY <1>2
<1>5. t[from] = IF from \in DOMAIN m THEN m[from] ELSE Null
  BY <1>2
<1> HIDE DEF c
<1>6. QED
  BY <1>1, <1>2, <1>3, <1>4, <1>5 DEF CopyOf

-----------------------------------------------------------------------------
(* Sessions                                                                *)

\* A session has a current state; as long as no line named a state that nobody
\* made, no name stands for a null state. Nothing was stepped before a session.
SessionInv ==
  /\ DOMAIN map \subseteq Names /\ \A n \in DOMAIN map : map[n] \in State \cup {Null}
  /\ session \in {"off", "on", "quit", "raised", "undefined"}
  /\ session # "off" => "current" \in DOMAIN map
  /\ session = "off" => before = Null
  /\ strange \in BOOLEAN
  /\ ~strange => \A n \in DOMAIN map : map[n] # Null
  /\ StepsAreMoves /\ PrevUndoes /\ CrashIsMisuse

LEMMA NamesKnown == {"current", "prev", "bookmark"} \subseteq Names
BY GraphOK DEF Names

LEMMA StateNotNull == Null \notin State
<1>1. SUFFICES ASSUME Null \in State PROVE FALSE
  OBVIOUS
<1>2. DOMAIN Null = 1..NbProc
  BY <1>1 DEF State
<1>3. DOMAIN Null = {}
  BY DEF Null
<1>4. QED
  BY <1>2, <1>3, GraphOK

\* A line that leaves a map of states, whatever it named, leaves the invariant.
LEMMA DoneInv ==
  ASSUME SessionInv, session = "on", NEW m, Done(m), strange' \in BOOLEAN, strange => strange',
         DOMAIN m \subseteq Names, "current" \in DOMAIN m,
         \A n \in DOMAIN m : m[n] \in State \cup {Null},
         ~strange' => \A n \in DOMAIN m : m[n] # Null
  PROVE  SessionInv'
BY DEF SessionInv, Done, StepsAreMoves, PrevUndoes, CrashIsMisuse

\* A line that ends the session, with an exception or the use of what is not there.
LEMMA CrashInv ==
  ASSUME SessionInv, session = "on", NEW why \in {"raised", "undefined"}, Crash(why),
         strange' \in BOOLEAN, strange => strange', why = "undefined" => strange'
  PROVE  SessionInv'
BY DEF SessionInv, Crash, StepsAreMoves, PrevUndoes, CrashIsMisuse

LEMMA ShowInv ==
  ASSUME SessionInv, NEW w \in Word \cup {""}, Show(w)
  PROVE  SessionInv'
<1> DEFINE name == Arg(w, "current")
           m    == Touched(map, name)
<1>1. session = "on" /\ name \in Names /\ (w \in Word => name = w) /\ (w \notin Word => name = "current")
  BY NamesKnown DEF Show, Line, Arg, Names
<1>2. strange' = (strange \/ (w \in Word /\ name \notin DOMAIN map))
  BY <1>1 DEF Show, Misused, Unknown
<1>3. "current" \in DOMAIN map
  BY <1>1 DEF SessionInv
<1>4. strange' \in BOOLEAN /\ (strange => strange') /\ (~strange' => name \in DOMAIN map /\ ~strange)
  BY <1>1, <1>2, <1>3 DEF SessionInv
<1>5. /\ DOMAIN m = DOMAIN map \cup {name}
      /\ \A n \in DOMAIN map \cup {name} : m[n] = IF n \in DOMAIN map THEN map[n] ELSE Null
  BY TouchedAt
<1>6. CASE m[name] = Null
  <2>1. Crash("undefined")
    BY <1>6 DEF Show
  <2>2. ~strange' => m[name] # Null
    BY <1>4, <1>5 DEF SessionInv
  <2>3. QED
    BY <1>1, <1>4, <1>6, <2>1, <2>2, CrashInv
<1>7. CASE m[name] # Null
  <2>1. Done(m)
    BY <1>7 DEF Show
  <2> HIDE DEF m
  <2>2. QED
    BY <1>1, <1>3, <1>4, <1>5, <2>1, DoneInv DEF SessionInv
<1>8. QED
  BY <1>6, <1>7

LEMMA JumpInv ==
  ASSUME SessionInv, NEW w \in Word \cup {""}, Jump(w)
  PROVE  SessionInv'
<1> DEFINE name == Arg(w, "bookmark")
           m    == IF Unknown(name) THEN map ELSE Assigned(map, "current", map[name])
<1>1. session = "on" /\ Done(m) /\ strange' = strange
  BY DEF Jump, Line
<1>2. /\ DOMAIN m = DOMAIN map /\ "current" \in DOMAIN map
      /\ \A n \in DOMAIN m : m[n] = map[n] \/ (name \in DOMAIN map /\ m[n] = map[name])
  BY <1>1 DEF SessionInv, Unknown, Assigned
<1> HIDE DEF m, name
<1>3. QED
  BY <1>1, <1>2, DoneInv DEF SessionInv

LEMMA BookmarkInv ==
  ASSUME SessionInv, NEW w \in Word \cup {""}, Bookmark(w)
  PROVE  SessionInv'
<1> DEFINE name == Arg(w, "current")
           m    == Copied(map, "bookmark", name)
<1>1. session = "on" /\ Done(m) /\ name \in Names
      /\ (w \in Word => name = w) /\ (w \notin Word => name = "current")
  BY NamesKnown DEF Bookmark, Line, Arg, Names
<1>2. strange' = (strange \/ (w \in Word /\ name \notin DOMAIN map)) /\ "current" \in DOMAIN map
  BY <1>1 DEF Bookmark, Misused, Unknown, SessionInv
<1>3. strange' \in BOOLEAN /\ (strange => strange') /\ (~strange' => name \in DOMAIN map /\ ~strange)
  BY <1>1, <1>2 DEF SessionInv
<1>4. /\ DOMAIN m = DOMAIN map \cup {"bookmark", name}
      /\ \A n \in DOMAIN map \cup {"bookmark", name} :
           m[n] = IF n = "bookmark" THEN IF name \in DOMAIN map THEN map[name] ELSE Null
                  ELSE IF n \in DOMAIN map THEN map[n] ELSE Null
  BY CopiedIs DEF CopyOf
<1> HIDE DEF m
<1>5. DOMAIN m \subseteq Names /\ "current" \in DOMAIN m
  BY <1>1, <1>2, <1>4, NamesKnown DEF SessionInv
<1>6. \A n \in DOMAIN m : m[n] \in State \cup {Null}
  BY <1>4 DEF SessionInv
<1>7. ASSUME ~strange', NEW n \in DOMAIN m PROVE m[n] # Null
  BY <1>3, <1>4, <1>7 DEF SessionInv
<1>8. QED
  BY <1>1, <1>3, <1>5, <1>6, <1>7, DoneInv

\* A step without a number, or where there is no edge.
LEMMA StepNowhereInv ==
  ASSUME SessionInv, NEW n \in -1..MaxNumber, StepNowhere(n)
  PROVE  SessionInv'
<1> DEFINE m == Copied(map, "prev", "current")
<1>1. session = "on" /\ Done(m) /\ strange' = strange
  BY DEF StepNowhere, Line
<1>2. "current" \in DOMAIN map
  BY <1>1 DEF SessionInv
<1>3. /\ DOMAIN m = DOMAIN map \cup {"prev", "current"}
      /\ \A k \in DOMAIN map \cup {"prev", "current"} :
           m[k] = IF k = "prev" THEN IF "current" \in DOMAIN map THEN map["current"] ELSE Null
                  ELSE IF k \in DOMAIN map THEN map[k] ELSE Null
  BY CopiedIs DEF CopyOf
<1> HIDE DEF m
<1>4. DOMAIN m \subseteq Names /\ "current" \in DOMAIN m
  BY <1>2, <1>3, NamesKnown DEF SessionInv
<1>5. \A k \in DOMAIN m : m[k] \in State \cup {Null}
  BY <1>3 DEF SessionInv
<1>6. ASSUME ~strange', NEW k \in DOMAIN m PROVE m[k] # Null
  BY <1>1, <1>2, <1>3, <1>6 DEF SessionInv
<1>7. QED
  BY <1>1, <1>4, <1>5, <1>6, DoneInv DEF SessionInv

\* A step over an edge that was picked.
LEMMA StepInv ==
  ASSUME SessionInv, NEW n \in -1..MaxNumber, Step(n)
  PROVE  SessionInv'
<1> DEFINE cur == map["current"]
           e   == EdgesOf(cur)[n]
           next == Transfer(cur, e)
           m   == Saved(map, Followed(next))
<1>1. session = "on" /\ "current" \in DOMAIN map /\ cur \in State \cup {Null}
  BY DEF Step, Line, SessionInv
<1>2. CASE cur = Null \/ n \notin 1..Len(EdgesOf(cur))
  <2>1. Crash("undefined") /\ strange' = (strange \/ (cur # Null))
    BY <1>2 DEF Step
  <2>2. strange' = TRUE
    BY <1>1, <2>1 DEF SessionInv
  <2>3. QED
    BY <1>1, <2>1, <2>2, CrashInv
<1>3. CASE ~(cur = Null \/ n \notin 1..Len(EdgesOf(cur)))
  <2>1. cur \in State /\ n \in 1..Len(EdgesOf(cur))
    BY <1>1, <1>3
  <2>2. strange' = strange
    BY <1>3 DEF Step
  <2>3. CASE Raises(cur, e) \/ FollowRaises(next)
    <3>1. Crash("raised")
      BY <1>3, <2>3 DEF Step
    <3>2. QED
      BY <1>1, <2>2, <3>1, CrashInv DEF SessionInv
  <2>4. CASE ~(Raises(cur, e) \/ FollowRaises(next))
    <3>1. map' = m /\ before' = cur /\ session' = session
      BY <1>3, <2>4 DEF Step
    <3>2. e \in Outgoing(cur)
      BY <2>1, EdgesType, ElementOfSeq
    <3>3. next \in State /\ next \in Moves(cur)
      BY <2>1, <3>2, TransferMoves
    <3>4. Followed(next) \in State /\ Followed(next) \in Moves(next)
      BY <3>3, FollowedMoves
    <3> DEFINE new == Followed(next)
    <3> HIDE DEF cur, new
    <3>5. /\ DOMAIN m = DOMAIN map \cup {"prev"}
          /\ m["current"] = new /\ m["prev"] = cur
          /\ \A k \in DOMAIN m \ {"current", "prev"} : k \in DOMAIN map /\ m[k] = map[k]
      <4> DEFINE c == Copied(map, "prev", "current")
      <4>1. /\ DOMAIN c = DOMAIN map \cup {"prev", "current"}
            /\ \A k \in DOMAIN map \cup {"prev", "current"} :
                 c[k] = IF k = "prev" THEN IF "current" \in DOMAIN map THEN map["current"] ELSE Null
                        ELSE IF k \in DOMAIN map THEN map[k] ELSE Null
        BY CopiedIs DEF CopyOf
      <4>2. m = Assigned(c, "current", new)
        BY DEF Saved, new
      <4> HIDE DEF c, m
      <4>3. QED
        BY <1>1, <4>1, <4>2 DEF Assigned, cur
    <3> HIDE DEF m
    <3>6. DOMAIN map' \subseteq Names /\ "current" \in DOMAIN map'
      BY <1>1, <3>1, <3>5, NamesKnown DEF SessionInv
    <3>7. \A k \in DOMAIN map' : map'[k] \in State \cup {Null}
      BY <2>1, <3>1, <3>4, <3>5 DEF SessionInv, new
    <3>8. ASSUME ~strange', NEW k \in DOMAIN map' PROVE map'[k] # Null
      BY <2>1, <2>2, <3>1, <3>4, <3>5, <3>8, StateNotNull DEF SessionInv, new
    <3>9. StepsAreMoves'
      BY <3>1, <3>3, <3>4, <3>5 DEF StepsAreMoves, new
    <3>10. PrevUndoes' /\ CrashIsMisuse'
      BY <1>1, <3>1, <3>5 DEF PrevUndoes, CrashIsMisuse
    <3>11. QED
      BY <1>1, <2>2, <3>1, <3>6, <3>7, <3>8, <3>9, <3>10 DEF SessionInv
  <2>5. QED
    BY <2>3, <2>4
<1>4. QED
  BY <1>2, <1>3

LEMMA InterpretInv ==
  ASSUME SessionInv, Interpret
  PROVE  SessionInv'
<1>1. CASE Edges
  <2>1. session = "on" /\ strange' = strange /\ "current" \in DOMAIN map
    BY <1>1 DEF Edges, Line, SessionInv
  <2>2. CASE map["current"] = Null
    BY <1>1, <2>1, <2>2, CrashInv DEF Edges, SessionInv
  <2>3. CASE map["current"] # Null
    BY <1>1, <2>1, <2>3, DoneInv DEF Edges, SessionInv
  <2>4. QED
    BY <2>2, <2>3
<1>2. CASE Other
  BY <1>2, DoneInv DEF Other, Line, SessionInv
<1>3. CASE Quit
  BY <1>3 DEF Quit, SessionInv, StepsAreMoves, PrevUndoes, CrashIsMisuse
<1>4. QED
  BY <1>1, <1>2, <1>3, ShowInv, JumpInv, BookmarkInv, StepNowhereInv, StepInv DEF Interpret

-----------------------------------------------------------------------------
(* From main to the exit code                                              *)

\* Where main is, what it has done by then, and what it will answer.
PhaseInv ==
  /\ options \in Options
  /\ phase \in {"options", "load", "typecheck", "transform", "output", "command", "search", "exited"}
  /\ exit \in {Running, AllGood, RuntimeError, ConfigurationError, UnexpectedResult, TypeError}
  /\ phase = "exited" <=> exit # Running
  /\ session # "off" => options.command = "intp"
  /\ \E S : passes \in Seq(S)
  /\ phase \in {"output", "command", "search"} => options.transform \cup {"splitAsserts"} \subseteq ToSet(passes)
  /\ phase = "search" => options.command \in {"mc", "enum"}
  /\ phase = "search" /\ options.command = "mc" => verdict \in {"Found", "NotFound"}
  /\ ExitTellsVerdict

\* What transformProgram appends holds every pass that was asked for.
LEMMA AskedHolds ==
  ASSUME options \in Options
  PROVE  /\ Asked \in Seq({"splitAsserts", "expand", "unroll", "inline"})
         /\ options.transform \cup {"splitAsserts"} \subseteq ToSet(Asked)
<1> DEFINE P == {"splitAsserts", "expand", "unroll", "inline"}
<1>1. options.transform \subseteq {"expand", "unroll", "inline"}
  BY DEF Options
<1>2. ASSUME NEW x \in P, NEW s \in Seq(P)
      PROVE  /\ s \o Option(x) \in Seq(P) /\ ToSet(s) \subseteq ToSet(s \o Option(x))
             /\ x \in options.transform => x \in ToSet(s \o Option(x))
  <2>1. Option(x) \in Seq(P) /\ (x \in options.transform => Len(Option(x)) = 1 /\ Option(x)[1] = x)
    <3>1. CASE x \in options.transform
      <4>1. Option(x) = <<x>>
        BY <3>1 DEF Option
      <4>2. QED
        BY <3>1, <4>1
    <3>2. CASE x \notin options.transform
      BY <3>2 DEF Option
    <3>3. QED
      BY <3>1, <3>2
  <2>2. /\ s \o Option(x) \in Seq(P)
        /\ Len(s \o Option(x)) = Len(s) + Len(Option(x))
        /\ \A i \in 1..Len(s) + Len(Option(x)) :
             (s \o Option(x))[i] = IF i <= Len(s) THEN s[i] ELSE Option(x)[i - Len(s)]
    BY <2>1, ConcatProperties
  <2>3. PICK k \in Nat : k = Len(s) /\ DOMAIN s = 1..k
    BY LenProperties
  <2>4. PICK j \in Nat : j = Len(Option(x))
    BY <2>1, LenProperties
  <2>5. DOMAIN (s \o Option(x)) = 1..k + j
    BY <2>2, <2>3, <2>4, LenProperties
  <2>6. ToSet(s) \subseteq ToSet(s \o Option(x))
    BY <2>2, <2>3, <2>4, <2>5 DEF ToSet
  <2>7. ASSUME x \in options.transform PROVE x \in ToSet(s \o Option(x))
    <3>1. (s \o Option(x))[k + 1] = x /\ k + 1 \in 1..k + j
      BY <2>1, <2>2, <2>3, <2>4, <2>7
    <3>2. QED
      BY <2>5, <3>1 DEF ToSet
  <2>8. QED
    BY <2>2, <2>6, <2>7
<1> DEFINE s0 == <<"splitAsserts">>
           s1 == s0 \o Option("expand")
           s2 == s1 \o Option("unroll")
           s3 == s2 \o Option("inline")
<1>3. s0 \in Seq(P) /\ "splitAsserts" \in ToSet(s0)
  BY DEF ToSet
<1> HIDE DEF s0
<1>4. /\ s1 \in Seq(P) /\ ToSet(s0) \subseteq ToSet(s1)
      /\ "expand" \in options.transform => "expand" \in ToSet(s1)
  BY <1>2, <1>3
<1> HIDE DEF s1
<1>5. /\ s2 \in Seq(P) /\ ToSet(s1) \subseteq ToSet(s2)
      /\ "unroll" \in options.transform => "unroll" \in ToSet(s2)
  BY <1>2, <1>4
<1> HIDE DEF s2
<1>6. /\ s3 \in Seq(P) /\ ToSet(s2) \subseteq ToSet(s3)
      /\ "inline" \in options.transform => "inline" \in ToSet(s3)
  BY <1>2, <1>5
<1>7. Asked = s3
  BY DEF Asked, s0, s1, s2
<1> HIDE DEF s3
<1>8. QED
  BY <1>1, <1>3, <1>4, <1>5, <1>6, <1>7

\* The transformations leave what was done before and append what was asked for.
LEMMA TransformHolds ==
  ASSUME PhaseInv, TransformProgram
  PROVE  (\E S : passes' \in Seq(S)) /\ options.transform \cup {"splitAsserts"} \subseteq ToSet(passes')
<1>1. PICK S : passes \in Seq(S)
  BY DEF PhaseInv
<1> DEFINE P == {"splitAsserts", "expand", "unroll", "inline"}
           T == S \cup P
<1>2. Asked \in Seq(P) /\ options.transform \cup {"splitAsserts"} \subseteq ToSet(Asked)
  BY AskedHolds DEF PhaseInv
<1>3. passes \in Seq(T) /\ Asked \in Seq(T)
  <2>1. S \subseteq T /\ P \subseteq T
    OBVIOUS
  <2> HIDE DEF T, P
  <2>2. QED
    BY <1>1, <1>2, <2>1, SeqMonotonic
<1>4. passes' = passes \o Asked
  BY DEF TransformProgram
<1> HIDE DEF T
<1>5. /\ passes' \in Seq(T) /\ Len(passes') = Len(passes) + Len(Asked)
      /\ \A i \in 1..Len(passes) + Len(Asked) :
           passes'[i] = IF i <= Len(passes) THEN passes[i] ELSE Asked[i - Len(passes)]
  BY <1>3, <1>4, ConcatProperties
<1>6. PICK k \in Nat, j \in Nat : k = Len(passes) /\ j = Len(Asked)
  BY <1>3, LenProperties
<1>7. DOMAIN passes' = 1..k + j /\ DOMAIN Asked = 1..j
  BY <1>3, <1>5, <1>6, LenProperties
<1>8. ToSet(Asked) \subseteq ToSet(passes')
  <2>1. SUFFICES ASSUME NEW i \in 1..j PROVE Asked[i] \in ToSet(passes')
    BY <1>7 DEF ToSet
  <2>2. k + i \in 1..k + j /\ ~(k + i <= k) /\ k + i - k = i
    OBVIOUS
  <2>3. passes'[k + i] = Asked[i]
    BY <1>5, <1>6, <2>2
  <2>4. QED
    BY <1>7, <2>2, <2>3 DEF ToSet
<1>9. QED
  BY <1>2, <1>5, <1>8

\* No step of main leaves the invariant.
LEMMA PhaseStep ==
  ASSUME PhaseInv, Next
  PROVE  PhaseInv'
<1> USE DEF Running, AllGood, RuntimeError, ConfigurationError, UnexpectedResult, TypeError, ExitTellsVerdict
<1>1. CASE ParseOptions
  BY <1>1 DEF PhaseInv, ParseOptions, Go, End, ivars
<1>2. CASE Throw
  BY <1>2 DEF PhaseInv, Throw, End, ivars
<1>3. CASE Load
  <2>1. passes' \in Seq({"lowerPhi"})
    BY <1>3 DEF Load
  <2>2. QED
    <3>1. \E S : passes' \in Seq(S)
      BY <2>1
    <3>2. QED
      BY <1>3, <3>1 DEF PhaseInv, Load, Go, ivars
<1>4. CASE Typecheck
  BY <1>4 DEF PhaseInv, Typecheck, Go, End, ivars
<1>5. CASE TransformProgram
  <2>1. (\E S : passes' \in Seq(S)) /\ options.transform \cup {"splitAsserts"} \subseteq ToSet(passes')
    BY <1>5, TransformHolds
  <2>2. QED
    BY <1>5, <2>1 DEF PhaseInv, TransformProgram, Go, ivars
<1>6. CASE Output
  BY <1>6 DEF PhaseInv, Output, Go, ivars
<1>7. CASE NoCommand
  BY <1>7 DEF PhaseInv, NoCommand, End, ivars
<1>8. CASE Convert
  BY <1>8 DEF PhaseInv, Convert, End, ivars
<1>9. CASE Search
  BY <1>9 DEF PhaseInv, Search, Go, ivars
<1>10. CASE McAnswers
  <2>1. verdict \in {"Found", "NotFound"}
    BY <1>10 DEF PhaseInv, McAnswers, End
  <2>2. exit' = CodeFor(verdict) /\ phase = "search" /\ phase' = "exited"
        /\ UNCHANGED <<options, passes, verdict, session>>
    BY <1>10 DEF McAnswers, End, ivars
  <2>3. exit' \in {AllGood, UnexpectedResult}
        /\ (exit' = AllGood <=> ((verdict = "Found") <=> (Expected = "Reachable")))
    BY <2>2 DEF CodeFor
  <2>4. Expected = "Reachable" <=> options.expect = 1
    BY DEF Expected
  <2>5. QED
    BY <2>1, <2>2, <2>3, <2>4 DEF PhaseInv
<1>11. CASE EnumAnswers
  BY <1>11 DEF PhaseInv, EnumAnswers, End, ivars
<1>12. CASE StartInterpreter
  BY <1>12 DEF PhaseInv, StartInterpreter
<1>13. CASE Interpreting
  BY <1>13 DEF PhaseInv, Interpreting
<1>14. CASE EndSession
  BY <1>14 DEF PhaseInv, EndSession, End, ivars
<1>15. QED
  BY <1>1, <1>2, <1>3, <1>4, <1>5, <1>6, <1>7, <1>8, <1>9, <1>10, <1>11, <1>12, <1>13, <1>14 DEF Next

\* Only a session touches the map of states.
LEMMA SessionStep ==
  ASSUME SessionInv, Next
  PROVE  SessionInv'
<1>1. CASE StartInterpreter
  BY <1>1, GraphOK, NamesKnown, StateNotNull
     DEF StartInterpreter, Open, SessionInv, State, StepsAreMoves, PrevUndoes, CrashIsMisuse
<1>2. CASE Interpreting
  BY <1>2, InterpretInv DEF Interpreting
<1>3. CASE UNCHANGED ivars
  BY <1>3 DEF ivars, SessionInv, StepsAreMoves, PrevUndoes, CrashIsMisuse
<1>4. CASE ParseOptions \/ Throw \/ Load \/ Typecheck \/ TransformProgram \/ Output
  BY <1>3, <1>4 DEF ParseOptions, Throw, Load, Typecheck, TransformProgram, Output, Go
<1>5. CASE NoCommand \/ Convert \/ Search \/ McAnswers \/ EnumAnswers \/ EndSession
  BY <1>3, <1>5 DEF NoCommand, Convert, Search, McAnswers, EnumAnswers, EndSession, Go
<1>6. QED
  BY <1>1, <1>2, <1>4, <1>5 DEF Next

LEMMA Invariants == Spec => [](SessionInv /\ PhaseInv)
<1>1. Init => SessionInv /\ PhaseInv
  <2>1. SUFFICES ASSUME Init PROVE SessionInv /\ PhaseInv
    OBVIOUS
  <2>2. DOMAIN map = {}
    BY <2>1 DEF Init, InterpreterInit
  <2>3. SessionInv
    BY <2>1, <2>2 DEF Init, InterpreterInit, SessionInv, StepsAreMoves, PrevUndoes, CrashIsMisuse
  <2>4. passes \in Seq({})
    BY <2>1, EmptySeq DEF Init
  <2>5. PhaseInv
    BY <2>1, <2>4 DEF Init, InterpreterInit, PhaseInv, ExitTellsVerdict, Running, AllGood, RuntimeError,
                      ConfigurationError, UnexpectedResult, TypeError
  <2>6. QED
    BY <2>3, <2>5
<1>2. SessionInv /\ PhaseInv /\ [Next]_vars => (SessionInv /\ PhaseInv)'
  <2>1. SUFFICES ASSUME SessionInv, PhaseInv, [Next]_vars PROVE (SessionInv /\ PhaseInv)'
    OBVIOUS
  <2>2. CASE Next
    BY <2>1, <2>2, SessionStep, PhaseStep
  <2>3. CASE UNCHANGED vars
    BY <2>1, <2>3 DEF vars, ivars, SessionInv, PhaseInv, StepsAreMoves, PrevUndoes, CrashIsMisuse,
                      ExitTellsVerdict, CodeFor, Expected
  <2>4. QED
    BY <2>1, <2>2, <2>3
<1>3. QED
  BY <1>1, <1>2, PTL DEF Spec

-----------------------------------------------------------------------------
(* Theorems                                                                *)

\* The variables of the program and of a session have their types, and there is an
\* exit code exactly when main has ended.
THEOREM CommandTypes == Spec => []TypeOK
<1>1. SessionInv /\ PhaseInv => TypeOK
  BY DEF SessionInv, PhaseInv, TypeOK
<1>2. QED
  BY <1>1, Invariants, PTL

\* A step of the interpreter takes the first process over at most two edges of its
\* own, although the user picks among the edges of all processes and so does the
\* search for a silent edge.
THEOREM StepsMove == Spec => []StepsAreMoves
<1>1. SessionInv => StepsAreMoves
  BY DEF SessionInv
<1>2. QED
  BY <1>1, Invariants, PTL

\* After a step, prev is the state that the step started from.
THEOREM PrevIsBefore == Spec => []PrevUndoes
<1>1. SessionInv => PrevUndoes
  BY DEF SessionInv
<1>2. QED
  BY <1>1, Invariants, PTL

\* Unless a line named a state nobody made, or the number of an edge that is not
\* there, a session never uses a null state nor reads past the edges.
THEOREM CrashNeedsMisuse == Spec => []CrashIsMisuse
<1>1. SessionInv => CrashIsMisuse
  BY DEF SessionInv
<1>2. QED
  BY <1>1, Invariants, PTL

\* The exit code zero of mc means that the program was searched after every
\* transformation that was asked for and that the verdict is the expected one.
THEOREM ExitIsVerdict == Spec => []ExitTellsVerdict
<1>1. PhaseInv => ExitTellsVerdict
  BY DEF PhaseInv
<1>2. QED
  BY <1>1, Invariants, PTL

=============================================================================
