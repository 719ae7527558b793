---------------------------- MODULE PathFormula -----------------------------
(* The path-formula CPA along one path: registers hold terms over fresh      *)
(* variables, and the assumptions met are gathered in a formula a solver is  *)
(* asked about.  A term is the function from worlds (values of the fresh     *)
(* variables) to values, a formula the set of its models.  Beside it the     *)
(* same edges are run in one arbitrary world with plain values.  Memory is   *)
(* left to HeapPath, words to DataPath.                                      *)
EXTENDS VMProgram

CONSTANTS
  Programs,
  MaxVars,    \* bound on the fresh variables of a path
  MaxDepth    \* bound on the call depth

MemoryOps == {"Load", "LoadByte", "Store"}
ASSUME PathProgramsOK ==
  /\ Programs \subseteq VMPrograms
  /\ \A g \in Programs, e \in UNION {h.edges : h \in Programs} :
       \A i \in 1 .. Len(e.instrs) : e.instrs[i].op \notin MemoryOps
ASSUME PathBoundsOK == MaxVars \in Nat /\ MaxDepth \in Nat \ {0}

World  == [1 .. MaxVars -> Value]
Term   == [World -> Value]
NoTerm == <<>>      \* a value that was never constructed

VARIABLES
  prog,
  state,    \* PathFormula::State, with the locations of the other half
  copy,     \* resstate, the copy an edge is run on, and its path control
  edge,     \* the edge that is run, and the next instruction
  pc,
  fresh,    \* the variables made so far; nothing resets the count
  phase,
  shown,    \* what evaluate last answered
  world,    \* the choices the plain run makes
  plain,    \* the plain run of the path
  pcopy     \* its copy
vars == <<prog, state, copy, edge, pc, fresh, phase, shown, world, plain, pcopy>>

NoEdge  == <<>>
Nothing == [reg |-> NoReg, value |-> Zero, model |-> <<>>]

-----------------------------------------------------------------------------
(* Activation stacks, of terms or of plain values.                         *)

Top(d)      == Last(d.frames)
Read(d, r)  == IF r.kind = "local" THEN Top(d).vals[r.id] ELSE d.cpu[r.id]
HasReg(d, r) == IF r.kind = "local" THEN d.frames # <<>> /\ r.id \in DOMAIN Top(d).vals
                ELSE r.id \in DOMAIN d.cpu

SetLocal(d, id, v) == [d EXCEPT !.frames[Len(d.frames)].vals[id] = v]
Saved(d, r, v)     == IF r.kind = "local" THEN SetLocal(d, r.id, v) ELSE [d EXCEPT !.cpu[r.id] = v]

PushFrame(d, vals, ret) == [d EXCEPT !.frames = Append(@, [vals |-> vals, ret |-> ret])]
PopFrame(d)             == [d EXCEPT !.frames = Front(@)]

\* Argument values over default values, by the numbers of the parameters.
WithArgs(g, f, defaults, args) ==
  [id \in DOMAIN defaults |->
     IF \E k \in 1 .. Len(args) : g.params[f][k] = id
     THEN args[CHOOSE k \in 1 .. Len(args) : g.params[f][k] = id] ELSE defaults[id]]

\* unboundValue, defaultValue: the n-th variable.
Var(n) == [w \in World |-> w[n]]

\* Mutation: only the parameters get a value.
DefaultsParams(f, n) == [id \in 0 .. Len(prog.params[f]) - 1 |-> Var(n + id + 1)]

Defaults(f, n) == [id \in 0 .. prog.regs[f] - 1 |-> Var(n + id + 1)]
Chosen(f, n)   == [id \in 0 .. prog.regs[f] - 1 |-> world[n + id + 1]]

ReadTerm(a)  == IF a.kind = "const" THEN [w \in World |-> a.id] ELSE Read(copy, a)
ReadPlain(a) == IF a.kind = "const" THEN a.id ELSE Read(pcopy, a)

-----------------------------------------------------------------------------
\* The plain run goes on until an assumption or an assert fails in its world.
Going(d) == d.stopped = "no"

Init ==
  /\ prog \in Programs
  /\ world \in World
  /\ edge = NoEdge /\ pc = 0 /\ shown = Nothing
  /\ IF Len(prog.entries) = 1
     THEN LET f == prog.entries[1] IN
          /\ prog.regs[f] <= MaxVars
          /\ fresh = prog.regs[f]
          /\ phase = "idle"
          /\ state = [ locs |-> <<prog.init[f]>>, formula |-> World, assump |-> World,
                       frames |-> <<[vals |-> Defaults(f, 0), ret |-> NoReg]>>,
                       cpu |-> [id \in 0 .. NbCpu - 1 |-> NoTerm] ]
          /\ plain = [ stopped |-> "no", frames |-> <<[vals |-> Chosen(f, 0), ret |-> NoReg]>>,
                       cpu |-> [id \in 0 .. NbCpu - 1 |-> NoTerm] ]
     ELSE /\ fresh = 0
          /\ phase = "refused"
          /\ state = NoEdge /\ plain = NoEdge
  /\ copy = state /\ pcopy = plain

\* The next edge of the path. A state whose formula has no model is filtered:
\* the solver may also be unable to tell, and the state is kept.
Begin(e) ==
  /\ phase = "idle"
  /\ e.from = Last(state.locs)
  /\ edge' = e /\ pc' = 1 /\ phase' = "run"
  /\ copy' = [state EXCEPT !.locs[Len(state.locs)] = e.to, !.assump = World]
  /\ pcopy' = plain
  /\ UNCHANGED <<prog, state, fresh, shown, world, plain>>

Filter ==
  /\ phase = "idle"
  /\ state.formula = {}
  /\ phase' = "filtered"
  /\ UNCHANGED <<prog, state, copy, edge, pc, fresh, shown, world, plain, pcopy>>

ins == edge.instrs[pc]

ArgsReadable ==
  \A k \in 1 .. Len(ins.args) : LET a == ins.args[k] IN
    a.kind = "const" \/ (HasReg(copy, a) /\ Read(copy, a) # NoTerm)

CanReturnTo(d) ==
  LET n == Len(d.frames) IN
  n > 1 /\ d.frames[n].ret # NoReg /\ d.frames[n].ret.id \in DOMAIN d.frames[n - 1].vals

Raises ==
  \/ ins.op = "Throw"
  \/ ins.op = "Call" /\ ins.func \in prog.varargs

Defined ==
  /\ ArgsReadable
  /\ ins.op \in Writes => ins.res # NoReg /\ HasReg(copy, ins.res)
  /\ ins.op = "Call" => Len(ins.args) >= Len(prog.params[ins.func])
  /\ ins.op = "Ret" => CanReturnTo(copy)
  /\ ins.op = "RetVoid" => copy.frames # <<>>

Running(op) ==
  /\ phase = "run" /\ pc <= Len(edge.instrs) /\ ~Raises /\ Defined
  /\ ins.op = op

\* The instruction leaves c, and p in the plain run; n variables were made.
Continue(c, p, n) ==
  /\ copy' = c
  /\ pcopy' = IF Going(pcopy) THEN p ELSE pcopy
  /\ fresh' = fresh + n
  /\ pc' = pc + 1
  /\ UNCHANGED <<prog, state, edge, phase, shown, world, plain>>

T(k) == ReadTerm(ins.args[k])
P(k) == ReadPlain(ins.args[k])

Compute ==
  /\ Running("Compute")
  /\ Continue(Saved(copy, ins.res, [w \in World |-> ins.table[<<T(1)[w], T(2)[w]>>]]),
              Saved(pcopy, ins.res, ins.table[<<P(1), P(2)>>]), 0)

Assign == Running("Assign") /\ Continue(Saved(copy, ins.res, T(1)), Saved(pcopy, ins.res, P(1)), 0)

\* Mutation: the variable made last is used again.
NonDetSame ==
  /\ Running("NonDet") /\ fresh < MaxVars
  /\ Continue(Saved(copy, ins.res, Var(fresh)), Saved(pcopy, ins.res, world[fresh + 1]), 1)

NonDet ==
  /\ Running("NonDet") /\ fresh < MaxVars
  /\ Continue(Saved(copy, ins.res, Var(fresh + 1)), Saved(pcopy, ins.res, world[fresh + 1]), 1)

Skip == Running("Skip") /\ Continue(copy, pcopy, 0)

Stop(d, ok, why) == IF ok THEN d ELSE [d EXCEPT !.stopped = why]

\* Mutation: an assumption replaces the one before it.
AddAssumptionLast(c, ws) == [c EXCEPT !.assump = ws]

\* PathControl::addAssumption: unknown, so the engine goes on.
AddAssumption(c, ws) == [c EXCEPT !.assump = @ \cap ws]

Assume ==
  /\ Running("Assume")
  /\ Continue(AddAssumption(copy, {w \in World : T(1)[w] \in Truthy}),
              Stop(pcopy, P(1) \in Truthy, "assume"), 0)

NegAssume ==
  /\ Running("NegAssume")
  /\ Continue(AddAssumption(copy, {w \in World : T(1)[w] \notin Truthy}),
              Stop(pcopy, P(1) \notin Truthy, "assume"), 0)

\* addAssert gathers a formula nobody asks for.
CheckAssert == Running("Assert") /\ Continue(copy, Stop(pcopy, P(1) \in Truthy, "assert"), 0)

Call ==
  /\ Running("Call")
  /\ LET f == ins.func
         n == prog.regs[f]
         args  == [k \in 1 .. Len(prog.params[f]) |-> T(k)]
         pargs == [k \in 1 .. Len(prog.params[f]) |-> P(k)]
     IN  /\ fresh + n <= MaxVars /\ Len(copy.locs) < MaxDepth
         /\ Continue([PushFrame(copy, WithArgs(prog, f, Defaults(f, fresh), args), ins.res)
                        EXCEPT !.locs = Append(@, prog.init[f])],
                     PushFrame(pcopy, WithArgs(prog, f, Chosen(f, fresh), pargs), ins.res), n)

\* Mutation: the last location goes as well.
PopLocationAlways(c) == [c EXCEPT !.locs = Front(@)]

PopLocation(c) == [c EXCEPT !.locs = IF Len(@) > 1 THEN Front(@) ELSE @]

Ret ==
  /\ Running("Ret")
  /\ Continue(SetLocal(PopFrame(PopLocation(copy)), Top(copy).ret.id, T(1)),
              SetLocal(PopFrame(pcopy), Top(pcopy).ret.id, P(1)), 0)

RetVoid == Running("RetVoid") /\ Continue(PopFrame(PopLocation(copy)), PopFrame(pcopy), 0)

\* doTransfer throws; the copy is lost, the variables stay used.
Throw ==
  /\ phase = "run" /\ pc <= Len(edge.instrs) /\ Raises
  /\ phase' = "idle" /\ edge' = NoEdge /\ pc' = 0
  /\ copy' = state /\ pcopy' = plain
  /\ UNCHANGED <<prog, state, fresh, shown, world, plain>>

Undefined ==
  /\ phase = "run" /\ pc <= Len(edge.instrs) /\ ~Raises /\ ~Defined
  /\ phase' = "undefined"
  /\ UNCHANGED <<prog, state, copy, edge, pc, fresh, shown, world, plain, pcopy>>

\* addConstraints, when there are any.
Commit ==
  /\ phase = "run" /\ pc > Len(edge.instrs)
  /\ state' = [copy EXCEPT !.formula = @ \cap copy.assump, !.assump = World]
  /\ plain' = pcopy
  /\ copy' = state' /\ pcopy' = pcopy
  /\ phase' = "idle" /\ edge' = NoEdge /\ pc' = 0
  /\ UNCHANGED <<prog, fresh, shown, world>>

\* Concretizer::evaluate of a register of the top frame: its value in some
\* model of the formula; it throws when there is none.
Evaluate(r) ==
  /\ phase = "idle" /\ state.frames # <<>>
  /\ r \in DOMAIN Top(state).vals
  /\ \E m \in state.formula : shown' = [reg |-> r, value |-> Top(state).vals[r][m], model |-> m]
  /\ phase' = "shown"
  /\ UNCHANGED <<prog, state, copy, edge, pc, fresh, world, plain, pcopy>>

Close ==
  /\ phase = "shown" /\ phase' = "idle"
  /\ shown' = Nothing
  /\ UNCHANGED <<prog, state, copy, edge, pc, fresh, world, plain, pcopy>>

Transfer == Compute \/ Assign \/ NonDet \/ Skip \/ Assume \/ NegAssume \/ CheckAssert
            \/ Call \/ Ret \/ RetVoid \/ Throw \/ Undefined \/ Commit

Next ==
  \/ \E e \in prog.edges : Begin(e)
  \/ \E r \in 0 .. MaxVars : Evaluate(r)
  \/ Filter \/ Transfer \/ Close

Spec == Init /\ [][Next]_vars

-----------------------------------------------------------------------------
TypeOK ==
  /\ phase \in {"idle", "run", "shown", "filtered", "undefined", "refused"}
  /\ phase = "refused" <=> Len(prog.entries) # 1
  /\ fresh \in 0 .. MaxVars
  /\ phase # "refused" =>
       \A c \in {state, copy} :
         /\ c.formula \subseteq World /\ c.assump \subseteq World
         /\ Len(c.locs) \in 1 .. MaxDepth
         /\ \A i \in 1 .. Len(c.frames) : \A r \in DOMAIN c.frames[i].vals : c.frames[i].vals[r] \in Term
         /\ \A r \in DOMAIN c.cpu : c.cpu[r] \in Term \cup {NoTerm}

Denotes(term, w, v) == IF term = NoTerm THEN v = NoTerm ELSE v = term[w]

\* In the world w the terms of c have the values of d.
SameValues(c, d, w) ==
  /\ Len(c.frames) = Len(d.frames)
  /\ \A i \in 1 .. Len(c.frames) :
       /\ c.frames[i].ret = d.frames[i].ret
       /\ \A r \in DOMAIN c.frames[i].vals : Denotes(c.frames[i].vals[r], w, d.frames[i].vals[r])
  /\ \A r \in DOMAIN c.cpu : Denotes(c.cpu[r], w, d.cpu[r])

\* A world is a model of the formula exactly when the run that makes its
\* choices can follow the path, and its registers are then what the terms say.
\* The one exception is an assert left in the middle of an edge: it stops the
\* run, and the formula does not notice.
PathExact ==
  phase \in {"idle", "shown", "filtered"} =>
    /\ Going(plain) => world \in state.formula /\ SameValues(state, plain, world)
    /\ world \in state.formula => plain.stopped # "assume"

\* A value reported for a register is the value in a run that follows the path,
\* and a path is filtered only when no run follows it.
AnswersReal ==
  /\ shown # Nothing /\ shown.model = world /\ Going(plain) => Top(plain).vals[shown.reg] = shown.value
  /\ shown # Nothing /\ shown.model = world => plain.stopped # "assume"
  /\ phase = "filtered" => ~Going(plain)

\* In a disciplined program the engine touches a value that does not exist only
\* by reading a CPU register before anything was written to it.
UndefinedIsUnsetCpu ==
  Disciplined(prog) /\ phase = "undefined" =>
    \E k \in 1 .. Len(ins.args) : ins.args[k].kind = "cpu" /\ Read(copy, ins.args[k]) = NoTerm
=============================================================================
