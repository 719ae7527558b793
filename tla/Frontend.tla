------------------------------- MODULE Frontend -------------------------------
(* From an input to a run: a module is loaded, or a program is given as it   *)
(* is; the type checker looks at it; what it accepts runs.                   *)
EXTENDS LLVMLoader, TypedRun

CONSTANT Modules     \* LLVM modules by name

ASSUME BoundsMatch == MaxFrames = MaxCalls + 1 /\ NonDetNumbers = Unknown

VARIABLES
  input,      \* the name of the module, or "" for a program of Programs
  stage       \* "input", "loaded", "running", "failed"

vars == <<input, stage, program, run>>

IsModule    == input # ""
NoProgram   == [fun |-> <<>>, order |-> <<>>, heap |-> <<>>, init |-> <<>>, entry |-> ""]
NoRun       == [frames |-> <<>>, sp |-> Default(Type("Bool")), heap |-> <<>>, todo |-> <<>>, end |-> Going]

Init ==
  /\ stage = "input"
  /\ input \in DOMAIN Modules \cup {""}
  /\ program = NoProgram /\ run = NoRun

\* A loader that throws ends the program.
LoadInput ==
  /\ stage = "input"
  /\ IF ~IsModule THEN program' \in Programs /\ stage' = "loaded"
     ELSE IF LoadAnswer(Modules[input]) = "ok" THEN program' = LoadedProgram(Modules[input]) /\ stage' = "loaded"
     ELSE program' = NoProgram /\ stage' = "failed"
  /\ UNCHANGED <<input, run>>

\* Only an accepted program runs.
Typecheck ==
  /\ stage = "loaded"
  /\ IF Check(program) THEN stage' = "running" /\ run' = Start(program)
     ELSE stage' = "failed" /\ run' = NoRun
  /\ UNCHANGED <<input, program>>

Move ==
  /\ stage = "running"
  /\ RunNext
  /\ UNCHANGED <<input, stage>>

Next == LoadInput \/ Typecheck \/ Move
Spec == Init /\ [][Next]_vars

---------------------------------------------------------------------------
(* What the runs of a program end in. *)

AtEnd(p, c) == c.end = Going /\ c.todo = <<>> /\ Len(c.frames) = 1 /\ EdgesFrom(p, c) = {}

Outcome(p, c) ==
  CASE c.end.why = "violated" -> <<"violated">>
    [] c.end.why = "bound"    -> <<"bound">>
    [] AtEnd(p, c)            -> <<"returned", IF "result" \in DOMAIN Top(c).regs THEN Top(c).regs["result"].v ELSE 0>>
    [] OTHER                  -> <<"stuck">>

RECURSIVE Runs(_, _, _)
Runs(p, done, todo) ==
  IF todo = {} THEN done
  ELSE Runs(p, done \cup todo, UNION { Moves(p, c) \cup Executes(p, c) : c \in todo } \ (done \cup todo))

\* A run that an assumption blocks has no end.
Outcomes(p) ==
  { Outcome(p, c) : c \in { d \in Runs(p, {}, {Start(p)}) : d.end # Going \/ AtEnd(p, d) } }

---------------------------------------------------------------------------
(* What the properties leave out, each named for the code that makes it so. *)

\* The checker accepts no load of a boolean, no comparison of pointers with a
\* boolean for result, no conversion between widths that have one type, no
\* answer of a declared function that is not an integer, and no function that
\* is entered without its arguments.
Unloadable(m) ==
  LET rets == { m.fun[f].ret : f \in { g \in DOMAIN m.fun : m.fun[g].decl } } IN
  \/ Somewhere(m, LAMBDA i : i.op = "indirectbr" \/ (i.op = "load" /\ i.t = <<"i", 1>>))
  \/ Somewhere(m, LAMBDA i : i.op \in {"trunc", "zext", "sext"} /\ SizeOf(i.t) = SizeOf(i.args[1].t) /\ i.args[1].t # <<"i", 1>>)
  \/ \E t \in rets : t # <<"void">> /\ (t[1] # "i" \/ t = <<"i", 1>>)
  \/ m.fun[m.main].params # <<>>

\* Where the program loaded is not the module.
SignedDivision(m)  == Somewhere(m, LAMBDA i : i.op = "sdiv")
ByteDivision(m)    == Somewhere(m, LAMBDA i : i.op = "udiv" /\ SizeOf(i.t) = 1)
LessOrEqual(m)     == Somewhere(m, LAMBDA i : i.op = "ule")
Dropped(m)         == Somewhere(m, LAMBDA i : i.op \in {"select", "urem"})
OddWidth(m)        == Somewhere(m, LAMBDA i : i.t[1] = "i" /\ i.t[2] \notin {1, 8, 16, 32, 64})
NestedPath(m)      == Somewhere(m, LAMBDA i : i.op \in {"insertvalue", "extractvalue"} /\ Len(i.aux) > 1)
ExprInPhi(m)       == \E f \in DOMAIN m.fun : 
                        \E b \in DOMAIN m.fun[f].blocks : \E k \in DOMAIN m.fun[f].blocks[b].phis : HasExpr(m.fun[f].blocks[b].phis[k])
WideAssert(m)      == Somewhere(m, LAMBDA i : i.op = "call" /\ i.aux = "assert" /\ SizeOf(i.args[1].t) > 1)
UndefAggregate(m)  == Somewhere(m, LAMBDA i : i.op = "insertvalue" /\ i.args[1].k = "undef")
Differs(m) ==
  \/ SignedDivision(m) \/ ByteDivision(m) \/ LessOrEqual(m) \/ UndefAggregate(m) \/ Dropped(m)
  \/ OddWidth(m) \/ NestedPath(m) \/ ExprInPhi(m) \/ WideAssert(m)

---------------------------------------------------------------------------
(* Properties. *)

\* The loader keeps the rules programs are built by, which the type checker
\* relies on: operands have the types of their registers, constants are in
\* range, a change of the stack ends its edge, the stack pointer is set first.
TypeOK ==
  /\ stage \in {"input", "loaded", "running", "failed"}
  /\ program # NoProgram => WellFormed(program)

\* The loader makes well typed programs: what it loads the checker accepts,
\* but for what Unloadable names.
LoadedAccepted ==
  IsModule /\ stage = "failed" /\ program # NoProgram => Unloadable(Modules[input])

\* A loaded program does what its module says: its runs end in the same
\* violations and answers, but for what Differs names and for runs the engine
\* raises in.
LoadedMeansLLVM ==
  IsModule /\ stage = "running" /\ run = Start(program) /\ ~Differs(Modules[input])
       /\ (\A i \in ProgramInstructions(program) : ~NoRule(program, i)) =>
    Outcomes(program) = LOutcomes(Modules[input])

\* The objects that are live on the stack lie apart, inside the block of the
\* stack, as long as the block is large enough for them: a call gives back
\* what it took.
LiveAllocas(c) == UNION { { [at |-> a.at, size |-> a.size, frame |-> k] : a \in c.frames[k].allocas } : k \in DOMAIN c.frames }
Room(as)       == FoldSet(LAMBDA a, n : a.size + n, 0, as)
AllocasApart ==
  IsModule /\ stage = "running" /\ Room(LiveAllocas(run)) <= StackSize =>
    \A a \in LiveAllocas(run) :
      /\ BaseOf(a.at) = StackBase(Modules[input]) /\ OffsetOf(a.at) + a.size <= StackSize
      /\ \A b \in LiveAllocas(run) \ {a} :
           OffsetOf(a.at) + a.size <= OffsetOf(b.at) \/ OffsetOf(b.at) + b.size <= OffsetOf(a.at)
=============================================================================
