----------------------------- MODULE ProgramRuns ----------------------------
(* What an automaton does: the locations and registers its runs reach, as    *)
(* the engine executes it (phi edges in order, a failing assert blocks, any  *)
(* value for a NonDet or, in the concrete CPA, the default), and as the      *)
(* source is meant (the assignments of a phi edge at once, a failing assert  *)
(* is a violation).  A run is a stack of activations.                        *)
EXTENDS ControlFlow

CONSTANTS Truthy, MaxCalls   \* bound on the activations

Violated   == <<>>

Held(c, a) == IF a.kind = "const" THEN a.id ELSE Last(c).vals[a.id]
Put(c, r, v) == IF r = NoReg THEN c ELSE [c EXCEPT ![Len(c)].vals[r] = v]
Going(c)   == c # Violated

\* The concrete CPA takes the default value where the path formula takes any.
Chosen(mode) == IF mode = "concrete" THEN {0} ELSE Value

\* The runs an instruction leads to.
Do1(g, mode, c, i) ==
  CASE i.op = "Skip"      -> {c}
    [] i.op = "Assign"    -> {Put(c, i.res, Held(c, i.args[1]))}
    [] i.op = "Not"       -> {Put(c, i.res, IF Held(c, i.args[1]) \in Truthy THEN 0 ELSE 1)}
    [] i.op = "NonDet"    -> { Put(c, i.res, v) : v \in Chosen(mode) }
    [] i.op = "Assume"    -> IF Held(c, i.args[1]) \in Truthy THEN {c} ELSE {}
    [] i.op = "NegAssume" -> IF Held(c, i.args[1]) \in Truthy THEN {} ELSE {c}
    [] i.op = "Assert"    -> IF Held(c, i.args[1]) \in Truthy THEN {c}
                             ELSE IF mode = "source" THEN {Violated} ELSE {}
    [] i.op = "Call"      -> LET f == g.fun[i.func]
                                 Arg(r) == {k \in DOMAIN f.params : f.params[k] = r}
                             IN  IF Len(c) = MaxCalls THEN {}
                                 ELSE {Append(c, [ loc  |-> f.initial, res |-> i.res,
                                         vals |-> [r \in 0 .. f.regs - 1 |->
                                           IF Arg(r) = {} THEN 0 ELSE Held(c, i.args[Max(Arg(r))])] ])}
    [] i.op = "Ret"       -> IF Len(c) = 1 THEN {} ELSE {Put(Front(c), Last(c).res, Held(c, i.args[1]))}
    [] i.op = "RetVoid"   -> IF Len(c) = 1 THEN {} ELSE {Front(c)}

\* A phi edge of the source.
AtOnce(c, ins) ==
  LET Source(r) == {k \in DOMAIN ins : ins[k].res = r} IN
  [c EXCEPT ![Len(c)].vals = [r \in DOMAIN @ |-> IF Source(r) = {} THEN @[r] ELSE Held(c, ins[Max(Source(r))].args[1])]]

Along(g, mode, c, e) ==
  LET r     == g.edge[e]
      moved == [c EXCEPT ![Len(c)].loc = r.to]
  IN  IF mode = "source" /\ r.phi THEN {AtOnce(moved, r.ins)}
      ELSE FoldLeft(LAMBDA cs, i : UNION { IF Going(d) THEN Do1(g, mode, d, i) ELSE {d} : d \in cs }, {moved}, r.ins)

Steps(g, mode, c) ==
  IF ~Going(c) THEN {}
  ELSE UNION { Along(g, mode, c, g.out[Last(c).loc][k]) : k \in DOMAIN g.out[Last(c).loc] }

RECURSIVE Closure(_, _, _, _)
Closure(g, mode, done, todo) ==
  IF todo = {} THEN done
  ELSE LET more == UNION { Steps(g, mode, c) : c \in todo } \ (done \cup todo)
       IN  Closure(g, mode, done \cup todo, more)

FirstRun(g, f) == <<[loc |-> g.fun[f].initial, vals |-> [r \in 0 .. g.fun[f].regs - 1 |-> 0], res |-> NoReg]>>

RunsOf(g, mode, f) == Closure(g, mode, {}, {FirstRun(g, f)})

-----------------------------------------------------------------------------
Place(c) == Last(c).loc
Fails(g, c) == IF Going(c) THEN "AssertViolated" \in g.loc[Place(c)].flags ELSE TRUE

\* Where runs are cut off: nothing leaves a location that was added.
DeadEnd(g, c) == Going(c) /\ g.loc[Place(c)].orig = 0 /\ g.out[Place(c)] = <<>> /\ ~Fails(g, c)

\* What can be told of the runs by the source: the locations of the source
\* with the first n registers of the entry point, and a violation.
Observed(g, mode, f, n) ==
  LET runs == RunsOf(g, mode, f) IN
  [ seen     |-> { <<g.loc[Place(c)].orig, [r \in 0 .. n - 1 |-> c[1].vals[r]]>> : c \in {d \in runs : Going(d) /\ g.loc[Place(d)].orig # 0} },
    violated |-> \E c \in runs : Fails(g, c),
    cut      |-> \E c \in runs : DeadEnd(g, c) ]
=============================================================================
