----------------------------- MODULE VMProgram ------------------------------
(***************************************************************************)
(* Programs as the two CPAs execute them: functions, their control-flow    *)
(* automata, and the instruction stream on every edge. Register contents   *)
(* are opaque; an instruction that only computes carries the table of its  *)
(* result, so that every TAC, comparison, pointer, cast and aggregate      *)
(* instruction is one opcode.                                              *)
(***************************************************************************)
EXTENDS Integers, Sequences, SequencesExt

CONSTANTS Location, Func, Value,
          Zero,      \* the default value of a register
          Truthy,    \* values that hold as a Boolean
          Cell,      \* addresses of an access inside a heap block
          Beyond,    \* addresses of an access that leaves its block
          Unmapped,  \* addresses without a block
          NbCpu,     \* CPU registers of each process
          NoReg      \* the null register of a call without result

ASSUME ValuesOK ==
  /\ Zero \in Value
  /\ Truthy \subseteq Value
  /\ Cell \cup Beyond \cup Unmapped \subseteq Value
  /\ Cell \cap (Beyond \cup Unmapped) = {} /\ Beyond \cap Unmapped = {}
ASSUME NbCpuOK == NbCpu \in Nat

Reg     == [kind : {"local", "cpu"}, id : Nat]
Operand == Reg \cup [kind : {"const"}, id : Value]

ASSUME NoRegOK == NoReg \notin Reg

\* Compute: TAC, comparison, pointer, cast and aggregate instructions. Skip:
\* those the engine leaves without effect (Uniform and predicates among them).
\* LoadByte: loads of one byte. Throw: those the engine refuses (a Store of a
\* Bool, a Load of an aggregate, a SymbolicConstant as operand).
OpCode == {"Compute", "Assign", "NonDet", "Skip", "Assume", "NegAssume", "Assert",
           "Load", "LoadByte", "Store", "Throw", "Call", "Ret", "RetVoid"}

\* The number of operands is fixed by the kind of instruction, but for a Call.
Arity == [op \in OpCode |-> CASE op \in {"Compute", "Store"} -> 2
                              [] op \in {"Assign", "Assume", "NegAssume", "Assert",
                                         "Load", "LoadByte", "Ret"} -> 1
                              [] OTHER -> 0]

Instr == { ins \in [op : OpCode, res : Reg \cup {NoReg}, args : Seq(Operand),
                    func : Func, table : [Value \X Value -> Value]] :
             ins.op # "Call" => Len(ins.args) = Arity[ins.op] }

Edge == [from : Location, to : Location, instrs : Seq(Instr)]

VMPrograms ==
  [ entries : Seq(Func),              \* one process each
    init    : [Func -> Location],
    owner   : [Location -> Func],
    regs    : [Func -> Nat],          \* registers, numbered from 0
    params  : [Func -> Seq(Nat)],     \* the registers of the parameters
    varargs : SUBSET Func,
    edges   : SUBSET Edge ]

Procs(g) == 1..Len(g.entries)

-----------------------------------------------------------------------------
(* The programs for which the two CPAs are meant to agree.                 *)

StackOps == {"Call", "Ret", "RetVoid"}

IsCall(e)   == e.instrs # <<>> /\ Last(e.instrs).op = "Call"
IsReturn(e) == e.instrs # <<>> /\ Last(e.instrs).op \in {"Ret", "RetVoid"}

\* EdgeBuilder gives a call an edge of its own; a return ends its edge.
StackOpsLast(e) ==
  \A i \in 1..Len(e.instrs) :
    /\ e.instrs[i].op \in StackOps => i = Len(e.instrs)
    /\ e.instrs[i].op = "Call" => i = 1

\* A register of function f, or a CPU register.
InScope(g, f, r) == r.id < IF r.kind = "local" THEN g.regs[f] ELSE NbCpu

Writes == {"Compute", "Assign", "NonDet", "Load", "LoadByte"}

\* What the loaders and the typechecker give of an instruction of function f.
WellTyped(g, f, ins) ==
  /\ \A k \in 1..Len(ins.args) : ins.args[k].kind = "const" \/ InScope(g, f, ins.args[k])
  /\ ins.op = "Call" => Len(ins.args) = Len(g.params[ins.func])
  /\ ins.op \in Writes => ins.res # NoReg /\ InScope(g, f, ins.res)

WellFormed(g) ==
  /\ \A f \in Func :
       /\ g.owner[g.init[f]] = f
       /\ \A k \in 1..Len(g.params[f]) : g.params[f][k] < g.regs[f]
  /\ \A e \in g.edges :
       /\ g.owner[e.to] = g.owner[e.from]
       /\ StackOpsLast(e)
       /\ \A i \in 1..Len(e.instrs) : WellTyped(g, g.owner[e.from], e.instrs[i])
       /\ IsReturn(e) => \A d \in g.edges : d.from # e.to

\* Calls receive what their function returns: a function with a Ret is called
\* with a register of the caller, and is no entry point.
ReturnsReceived(g) ==
  \A e \in g.edges : e.instrs # <<>> /\ Last(e.instrs).op = "Ret" =>
    LET f == g.owner[e.from] IN
      /\ \A p \in Procs(g) : g.entries[p] # f
      /\ \A c \in g.edges : IsCall(c) /\ Last(c.instrs).func = f =>
           LET r == Last(c.instrs).res
           IN  r # NoReg /\ r.kind = "local" /\ InScope(g, g.owner[c.from], r)

Disciplined(g) == WellFormed(g) /\ ReturnsReceived(g)
=============================================================================
