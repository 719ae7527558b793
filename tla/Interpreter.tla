---------------------------- MODULE Interpreter -----------------------------
(* The intp command: lines typed by the user act on a map from names to      *)
(* analysis states.  A state is the locations of the processes; the CPAs     *)
(* below are what Transfer answers for an edge.                              *)
EXTENDS Integers, Sequences, SequencesExt, Functions, TransitionEnumerator

CONSTANTS
  Loc, NbProc, Start1,   \* locations, processes and where all of them begin
  CFG,                   \* the edges that leave a location, in order
  MaxEdges,              \* bound on the edges that leave a location
  Word,                  \* identifiers the user types, without the commands
  MaxLines, MaxNumber    \* bounds on a session: lines, and the numbers typed

State  == [1 .. NbProc -> Loc]
EdgeOf == [from : Loc, to : Loc, silent : BOOLEAN, answer : {"ok", "reject", "raise"}]

ASSUME GraphOK ==
  /\ NbProc \in Nat \ {0} /\ Start1 \in Loc
  /\ MaxEdges \in Nat
  /\ \A l \in Loc : CFG[l] \in Seq({e \in EdgeOf : e.from = l}) /\ Len(CFG[l]) <= MaxEdges
  /\ {"current", "prev"} \subseteq Word

\* A state that was default constructed: a null pointer.
Null     == <<>>
Commands == {"print", "jump", "bookmark", "step", "edges", "help"}
Names    == Word \cup {"bookmark"}

VARIABLES
  map,      \* StateMap
  session,  \* "off", "on", "quit", "raised", "undefined"
  lines,
  before,   \* the state the last line stepped from
  strange   \* a line named a state that did not exist, or an edge that does not
ivars == <<map, session, lines, before, strange>>

-----------------------------------------------------------------------------
Assigned(m, to, s) == [n \in DOMAIN m \cup {to} |-> IF n = to THEN s ELSE m[n]]

\* unordered_map::operator[] makes what it does not find.
Touched(m, name) == IF name \in DOMAIN m THEN m ELSE Assigned(m, name, Null)

\* StateMap::set(to, from).
Copied(m, to, from) == Assigned(Touched(m, from), to, Touched(m, from)[from])

Lists(s) == [p \in 1 .. NbProc |-> CFG[s[p]]]

\* get_edge: the enumerator after each round of the loop, and the edges it has
\* passed; no state has more edges than the last round.
Collected(lists) ==
  LET round[k \in Nat] ==
        IF k = 0 THEN [edges |-> <<>>, at |-> Start(lists)]
        ELSE LET r == round[k - 1] IN
             IF r.at.done THEN r
             ELSE [edges |-> Append(r.edges, Current(lists, r.at)), at |-> Advance(lists, r.at)]
  IN  round[NbProc * MaxEdges].edges
EdgesOf(s) == Collected(Lists(s))

\* Mutation: any edge moves the process.
TransferAny(s, e) == [s EXCEPT ![1] = e.to]

\* Transfer of the first process: an edge that is not at its location, or that
\* a CPA rejects, leaves the state.
Transfer(s, e) == IF e.from = s[1] /\ e.answer = "ok" THEN [s EXCEPT ![1] = e.to] ELSE s

Raises(s, e) == e.from = s[1] /\ e.answer = "raise"

\* haveNoInstructionEdge: the first such edge, whoever may take it.
SilentEdges(s) == {i \in DOMAIN EdgesOf(s) : EdgesOf(s)[i].silent}
FirstSilent(s) == EdgesOf(s)[CHOOSE i \in SilentEdges(s) : \A j \in SilentEdges(s) : i <= j]

\* What a step does after the edge that was picked.
Followed(s)    == IF SilentEdges(s) = {} THEN s ELSE Transfer(s, FirstSilent(s))
FollowRaises(s) == SilentEdges(s) # {} /\ Raises(s, FirstSilent(s))

\* Mutation: nothing typed is a name as well.
ArgAsTyped(word, default) == word

\* get_id: an identifier, or what stands for none. Commands and numbers are none.
Arg(word, default) == IF word \in Word THEN word ELSE default

-----------------------------------------------------------------------------
InterpreterInit ==
  /\ map = <<>>
  /\ session = "off" /\ lines = 0 /\ before = Null /\ strange = FALSE

Open ==
  /\ session = "off"
  /\ session' = "on"
  /\ map' = [n \in {"current"} |-> [p \in 1 .. NbProc |-> Start1]]
  /\ UNCHANGED <<lines, before, strange>>

Line ==
  /\ session = "on" /\ lines < MaxLines
  /\ lines' = lines + 1

\* The line is done; the map is m.
Done(m) == map' = m /\ before' = Null /\ UNCHANGED session

Crash(why) == session' = why /\ UNCHANGED <<map, before>>

Unknown(name) == name \notin DOMAIN map
Misused(word) == strange' = (strange \/ (word \in Word /\ Unknown(word)))

\* Printing reads through the pointer of the state.
Show(word) ==
  LET name == Arg(word, "current")
      m    == Touched(map, name)
  IN  /\ Line /\ Misused(word)
      /\ IF m[name] = Null THEN Crash("undefined") ELSE Done(m)

Edges ==
  /\ Line
  /\ IF map["current"] = Null THEN Crash("undefined") ELSE Done(map)
  /\ UNCHANGED strange

Jump(word) ==
  LET name == Arg(word, "bookmark") IN
  /\ Line
  /\ Done(IF Unknown(name) THEN map ELSE Assigned(map, "current", map[name]))
  /\ UNCHANGED strange

\* Mutation: a name is taken as it is found.
BookmarkDefault(word) ==
  LET name == Arg(word, "bookmark") IN
  Line /\ Misused(word) /\ Done(Copied(map, "bookmark", name))

Bookmark(word) ==
  LET name == Arg(word, "current") IN
  Line /\ Misused(word) /\ Done(Copied(map, "bookmark", name))

\* Help, and a line that is no command.
Other == Line /\ Done(map) /\ UNCHANGED strange

\* A step without a number, or where there is no edge, only sets prev.
StepNowhere(n) ==
  /\ Line
  /\ IF n = -1 THEN TRUE ELSE map["current"] # Null /\ EdgesOf(map["current"]) = <<>>
  /\ Done(Copied(map, "prev", "current"))
  /\ UNCHANGED strange

\* Mutation: the state before is saved after the step.
SavedAfter(m, s) == Copied(Assigned(m, "current", s), "prev", "current")

Saved(m, s) == Assigned(Copied(m, "prev", "current"), "current", s)

Step(n) ==
  LET cur == map["current"] IN
  /\ Line
  /\ n # -1
  /\ IF cur = Null THEN TRUE ELSE EdgesOf(cur) # <<>>
  /\ IF cur = Null \/ n \notin 1 .. Len(EdgesOf(cur))
     THEN /\ strange' = (strange \/ (cur # Null))
          /\ Crash("undefined")
     ELSE LET e    == EdgesOf(cur)[n]
              next == Transfer(cur, e)
          IN  /\ UNCHANGED strange
              /\ IF Raises(cur, e) \/ FollowRaises(next) THEN Crash("raised")
                 ELSE /\ map' = Saved(map, Followed(next))
                      /\ before' = cur
                      /\ UNCHANGED session

Quit ==
  /\ session = "on"
  /\ session' = "quit"
  /\ UNCHANGED <<map, lines, before, strange>>

Interpret ==
  \/ Edges \/ Other \/ Quit
  \/ \E w \in Word \cup {""} : Show(w) \/ Jump(w) \/ Bookmark(w)
  \/ \E n \in -1 .. MaxNumber : StepNowhere(n) \/ Step(n)

-----------------------------------------------------------------------------
Moves(s) == {s} \cup {[s EXCEPT ![1] = e.to] : e \in {e \in ToSet(CFG[s[1]]) : e.answer = "ok"}}

\* A step runs the first process over at most two edges of its own: the one that
\* was picked and a silent one, though the user picks from, and the silent edge is
\* looked for among, the edges of all processes (Parser::step, get_edge,
\* haveNoInstructionEdge).
StepsAreMoves == before # Null => map["current"] \in UNION {Moves(s) : s \in Moves(before)}

\* After a step, and the silent edge it takes behind the user's back, jumping to
\* prev brings back the state the step started from.
PrevUndoes == before # Null => map["prev"] = before

\* Only a line that names a state nobody made, or the number of an edge that is
\* not there, leads to the use of a null state or past the end of the edges.
CrashIsMisuse == session = "undefined" => strange
=============================================================================
