------------------------------- MODULE TypedRun -------------------------------
(* What the type checker accepts runs: what an instruction does depends on   *)
(* the types the values have when it runs, and it raises for values that it  *)
(* has no rule for.  The assignments of a phi edge happen at once, as they   *)
(* do after the pass that lowers them.  NonDet chooses any number; the       *)
(* concrete engine always 0.                                                 *)
EXTENDS TypedProgram

CONSTANTS
  Programs,
  NonDetNumbers,     \* numbers NonDet may choose
  MaxFrames          \* bound on the activations of a run

ASSUME TypedRunOK ==
  /\ \A p \in Programs : WellFormed(p)
  /\ 0 \in NonDetNumbers /\ NonDetNumbers \subseteq Nat
  /\ MaxFrames \in Nat

\* A run: its activations, the stack pointer (the one register of the cpu),
\* the blocks of the heap, the instructions left of its edge, and how it
\* ended.  An activation notes the part of the stack each of its allocas took.
Going == [why |-> "going", op |-> ""]
Ended(c, why, op) == [c EXCEPT !.end = [why |-> why, op |-> op]]
Raise(c, i)       == {Ended(c, "raised", i.op)}   \* no rule for these values
Fault(c, i)       == {Ended(c, "fault", i.op)}    \* no such address, no quotient

Value(ty, v)  == [ty |-> ty, v |-> v]
Default(ty)   == Value(ty, 0)
Top(c)        == Last(c.frames)

Lookup(c, o) ==
  CASE o.k = "local" -> Top(c).regs[o.n]
    [] o.k = "cpu"   -> c.sp
    [] o.k = "undef" -> Default(o.ty)
    [] o.k = "const" -> Value(o.ty, o.v)

\* A value is saved as it is, whatever the type of the register.
Save(c, o, x) ==
  IF IsSP(o) THEN [c EXCEPT !.sp = x] ELSE [c EXCEPT !.frames[Len(c.frames)].regs[o.n] = x]

\* The concrete host. A division of bytes divides a word of two, and nothing
\* clears the upper one; the processor traps when the quotient does not fit.
Above(n) == IF n = 1 THEN 0 .. Radix - 1 ELSE {0}
MayTrap(op, a, b, n) ==
  \/ op = "UDiv" /\ \E h \in Above(n) : h >= b
  \/ op = "SDiv" /\ (b = 0 \/ (SignedOf(b, n) = -1 /\ 2 * SignedOf(a, n) = -Pow[n]))

TowardsZero(x, y) ==
  LET mag(z) == IF z < 0 THEN -z ELSE z
      q      == mag(x) \div mag(y)
  IN  IF (x < 0) = (y < 0) THEN q ELSE -q

\* A word is the set of its bits; of the count of a shift the processor takes
\* the low bits.
CountMod(n) == ByteBits * (IF n = 8 THEN 8 ELSE 4)
BitsAfter(op, a, b, n) ==
  LET A    == BitSet(a, n)
      B    == BitSet(b, n)
      s    == b % CountMod(n)
      Sign == ByteBits * n - 1
  IN CASE op = "And"  -> A \cap B
       [] op = "Or"   -> A \cup B
       [] op = "Xor"  -> (A \cup B) \ (A \cap B)
       [] op = "Shl"  -> { k \in Places(n) : k - s \in A }
       [] op = "LShr" -> { k \in Places(n) : k + s \in A }
       [] op = "AShr" -> { k \in Places(n) : (IF k + s > Sign THEN Sign ELSE k + s) \in A }

Calculated(op, a, b, n) ==
  CASE op = "Add"  -> {(a + b) % Pow[n]}
    [] op = "Sub"  -> {(a - b) % Pow[n]}
    [] op = "Mul"  -> {(a * b) % Pow[n]}
    [] op = "UDiv" -> { (h * Pow[n] + a) \div b : h \in { h \in Above(n) : h < b } }
    [] op = "SDiv" -> IF MayTrap(op, a, b, n) THEN {} ELSE {TowardsZero(SignedOf(a, n), SignedOf(b, n)) % Pow[n]}
    [] OTHER       -> LET after == BitsAfter(op, a, b, n) IN { v \in 0 .. Pow[n] - 1 : BitSet(v, n) = after }

\* The host's ULE is its UGE.
Compares(op, a, b, n) ==
  LET s(v) == SignedOf(v, n) IN
  CASE op = "ICMP_EQ"  -> a = b
    [] op = "ICMP_NEQ" -> a # b
    [] op = "ICMP_UGT" -> a > b
    [] op = "ICMP_UGE" -> a >= b
    [] op = "ICMP_ULT" -> a < b
    [] op = "ICMP_ULE" -> a >= b
    [] op = "ICMP_SGT" -> s(a) > s(b)
    [] op = "ICMP_SGE" -> s(a) >= s(b)
    [] op = "ICMP_SLT" -> s(a) < s(b)
    [] op = "ICMP_SLE" -> s(a) <= s(b)

Truth(b) == Value(Type("Bool"), IF b THEN 1 ELSE 0)

Compute(c, i, x, y) ==
  IF x.ty # y.ty \/ ~IsInteger(x.ty) THEN Raise(c, i)
  ELSE { Save(c, i.res, Value(x.ty, v)) : v \in Calculated(i.op, x.v, y.v, x.ty.size) }
       \cup IF MayTrap(i.op, x.v, y.v, x.ty.size) THEN Fault(c, i) ELSE {}

Compare(c, i, x, y) ==
  IF x.ty # y.ty \/ ~(IsInteger(x.ty) \/ IsPointer(x.ty)) THEN Raise(c, i)
  ELSE {Save(c, i.res, Truth(Compares(i.op, x.v, y.v, x.ty.size)))}

\* The direction of a cast is checked, equal widths pass.
Cast(c, i, x) ==
  LET to == i.res.ty IN
  IF \/ ~IsInteger(x.ty) \/ ~IsInteger(to)
     \/ IF i.op = "Trunc" THEN to.size > x.ty.size ELSE to.size < x.ty.size
  THEN Raise(c, i)
  ELSE {Save(c, i.res, Value(to, (IF i.op = "SExt" THEN SignedOf(x.v, x.ty.size) ELSE x.v) % Pow[to.size]))}

CastBool(c, i, x) ==
  IF x.ty.id # "Bool" \/ ~IsInteger(i.res.ty) THEN Raise(c, i)
  ELSE {Save(c, i.res, Value(i.res.ty, IF x.v = 0 THEN 0 ELSE IF i.op = "BoolSExt" THEN Pow[i.res.ty.size] - 1 ELSE 1))}

\* The declared type of the operand says which integer it has to hold.
ToBool(c, i, x) ==
  IF ~IsInteger(i.args[1].ty) \/ x.ty # i.args[1].ty THEN Raise(c, i)
  ELSE {Save(c, i.res, Truth(x.v % Radix # 0))}

ToPtr(c, i, x) ==
  LET ty == IF i.res.ty.id = "Pointer" THEN Type("Pointer") ELSE Type("Pointer32") IN
  IF ~IsInteger(x.ty) THEN Raise(c, i) ELSE {Save(c, i.res, Value(ty, x.v % Pow[ty.size]))}

\* A Pointer32 is widened part by part.
Address(x) ==
  IF x.ty.id = "Pointer" THEN x.v ELSE PointerTo(x.v % Half(4), x.v \div Half(4))

\* An alloca is a step down of the stack pointer; it is noted with its size.
Noted(c, o, skip, q) ==
  IF ~IsSP(o) THEN c
  ELSE [c EXCEPT !.frames[Len(c.frames)].allocas = @ \cup {[at |-> q, size |-> skip]}]

PtrStep(c, i, p, size, n) ==
  IF ~IsPointer(p.ty) \/ ~IsInteger(size.ty) \/ size.ty # n.ty THEN Raise(c, i)
  ELSE LET skip == (size.v * n.v) % Pow[n.ty.size]
           from == Address(p)
           q    == PointerTo(BaseOf(from), OffsetOf(from) + (IF i.op = "PtrAdd" THEN skip ELSE -skip))
           d    == Save(c, i.res, Value(Type("Pointer"), q))
       IN  {IF i.op = "PtrSub" THEN Noted(d, i.res, skip, q) ELSE d}

PtrEqual(c, i, x, y) ==
  IF ~IsPointer(x.ty) \/ ~IsPointer(y.ty) THEN Raise(c, i)
  ELSE {Save(c, i.res, Truth(Address(x) = Address(y)))}

Inside(c, q, n) == OffsetOf(q) + n <= Len(c.heap[BaseOf(q)])

\* Past the end of a block a load of one byte reads any byte.
Load(c, i, p) ==
  LET ty == i.res.ty
      q  == Address(p)
      Bytes(block) == [k \in 1 .. ty.size |-> block[OffsetOf(q) + k]]
  IN
  IF ~IsPointer(p.ty) \/ ty.id = "Aggregate" THEN Raise(c, i)
  ELSE IF BaseOf(q) \notin DOMAIN c.heap THEN Fault(c, i)
  ELSE IF Inside(c, q, ty.size) THEN {Save(c, i.res, Value(ty, Number(Bytes(c.heap[BaseOf(q)]))))}
  ELSE IF ty.size = 1 THEN { Save(c, i.res, Value(ty, v)) : v \in 0 .. Card(ty) - 1 }
  ELSE Fault(c, i)

\* The bytes of a block from at on, overwritten.
Overwritten(block, at, bytes) ==
  [k \in DOMAIN block |-> IF k \in at + 1 .. at + Len(bytes) THEN bytes[k - at] ELSE block[k]]

\* A store without a block is lost.
Store(c, i, p, x) ==
  LET q == Address(p) IN
  IF ~IsPointer(p.ty) \/ x.ty.id = "Bool" THEN Raise(c, i)
  ELSE IF BaseOf(q) \notin DOMAIN c.heap THEN {c}
  ELSE IF ~Inside(c, q, x.ty.size) THEN Fault(c, i)
  ELSE {[c EXCEPT !.heap[BaseOf(q)] = Overwritten(@, OffsetOf(q), Digits(x.v, x.ty.size))]}

\* The offset is a constant of 16 bits or more.  Whether the part lies inside
\* the aggregate is only asserted.
NoPlace(at)     == at.k # "const" \/ at.ty.id \notin {"I16", "I32", "I64"}
NoPart(ty)      == ty.id \in {"Bool", "Pointer32"}

Insert(c, i, aggr, at, ty, x) ==
  IF NoPlace(at) \/ NoPart(ty) \/ aggr.ty.id # "Aggregate" \/ x.ty.id # ty.id THEN Raise(c, i)
  ELSE IF at.v + x.ty.size > aggr.ty.size THEN {Ended(c, "undefined", i.op)}
  ELSE {Save(c, i.res, Value(aggr.ty,
          Number(Overwritten(Digits(aggr.v, aggr.ty.size), at.v, Digits(x.v, x.ty.size)))))}

Extract(c, i, aggr, at, ty) ==
  IF NoPlace(at) \/ NoPart(ty) \/ aggr.ty.id # "Aggregate" THEN Raise(c, i)
  ELSE IF at.v + ty.size > aggr.ty.size THEN {Ended(c, "undefined", i.op)}
  ELSE {Save(c, i.res, Value(ty, Number([k \in 1 .. ty.size |-> Digits(aggr.v, aggr.ty.size)[at.v + k]])))}

CheckCondition(c, i, x) ==
  IF x.ty.id # "Bool" THEN Raise(c, i)
  ELSE IF (x.v # 0) = (i.op # "NegAssume") THEN {c}
  ELSE IF i.op = "Assert" THEN {Ended(c, "violated", "")} ELSE {}

\* Parameters get the arguments, the other registers their defaults.
Entered(p, c, i) ==
  LET f == p.fun[CalleeOf(p, i)]
      Initial(r) == IF \E k \in DOMAIN f.params : f.params[k] = r
                    THEN Lookup(c, i.args[CHOOSE k \in DOMAIN f.params : f.params[k] = r])
                    ELSE Default(f.regs[r])
  IN [fun |-> CalleeOf(p, i), loc |-> f.initial, res |-> i.res, allocas |-> {}, regs |-> [r \in DOMAIN f.regs |-> Initial(r)]]

\* No engine calls a function that takes more arguments than it names.
Call(p, c, i) ==
  IF p.fun[CalleeOf(p, i)].varargs THEN Raise(c, i)
  ELSE IF Len(c.frames) = MaxFrames THEN {Ended(c, "bound", i.op)}
  ELSE {[c EXCEPT !.frames = Append(@, Entered(p, c, i))]}

\* The value goes to a register of the caller's frame, by its number.  A call
\* without a result names no register, one with a register of the cpu the
\* wrong one; the entry point has no caller.
Return(c, x) ==
  LET to == Top(c).res IN
  IF Len(c.frames) = 1 \/ to.k # "local" THEN {Ended(c, "undefined", "Call")}
  ELSE {Save([c EXCEPT !.frames = Front(@)], to, x)}

Run(p, c, i) ==
  LET x(k) == Lookup(c, i.args[k]) IN
  CASE i.op \in TAC       -> Compute(c, i, x(1), x(2))
    [] i.op \in CMP       -> Compare(c, i, x(1), x(2))
    [] i.op \in IntCasts  -> Cast(c, i, x(1))
    [] i.op \in BoolCasts -> CastBool(c, i, x(1))
    [] i.op = "IntToBool" -> ToBool(c, i, x(1))
    [] i.op = "IntToPtr"  -> ToPtr(c, i, x(1))
    [] i.op \in {"PtrToInt", "BitCast"} -> Raise(c, i)
    [] i.op \in PtrSteps  -> PtrStep(c, i, x(1), x(2), x(3))
    [] i.op = "PtrEq"     -> PtrEqual(c, i, x(1), x(2))
    [] i.op = "Load"      -> Load(c, i, x(1))
    [] i.op = "Store"     -> Store(c, i, x(1), x(2))
    [] i.op = "InsertValue"  -> Insert(c, i, x(1), i.args[2], i.args[3].ty, x(3))
    [] i.op = "ExtractValue" -> Extract(c, i, x(1), i.args[2], i.res.ty)
    [] i.op = "Assign"    -> {Save(c, i.res, x(1))}
    [] i.op = "NonDet"    -> { Save(c, i.res, Value(i.res.ty, v % Card(i.res.ty))) : v \in NonDetNumbers }
    [] i.op \in Checks    -> CheckCondition(c, i, x(1))
    [] i.op = "Call"      -> Call(p, c, i)
    [] i.op = "Ret"       -> Return(c, x(1))
    [] i.op = "RetVoid"   -> {[c EXCEPT !.frames = Front(@)]}
    [] i.op = "Skip"      -> {c}

\* The symbol of a function has no value.
Symbolically(i) == \E k \in DOMAIN i.args : i.args[k].k = "symbol"
Execute(p, c, i) == IF Symbolically(i) THEN Raise(c, i) ELSE Run(p, c, i)

\* A phi edge reads all its sources before it writes.
Assigned(c, ins, r) ==
  IF \E k \in DOMAIN ins : ins[k].res.n = r
  THEN Lookup(c, ins[CHOOSE k \in DOMAIN ins : ins[k].res.n = r].args[1]) ELSE Top(c).regs[r]
AtOnce(c, ins) ==
  IF \E k \in DOMAIN ins : Symbolically(ins[k]) THEN Ended(c, "raised", "Assign")
  ELSE [c EXCEPT !.frames[Len(c.frames)].regs = [r \in DOMAIN @ |-> Assigned(c, ins, r)]]

Along(c, e) ==
  LET moved == [c EXCEPT !.frames[Len(c.frames)].loc = e.to] IN
  IF e.phi THEN AtOnce(moved, e.ins) ELSE [moved EXCEPT !.todo = e.ins]

EdgesFrom(p, c) ==
  IF c.frames = <<>> THEN {}
  ELSE { e \in ToSet(p.fun[Top(c).fun].edges) : e.from = Top(c).loc }

Moves(p, c)    == IF c.end = Going /\ c.todo = <<>> THEN { Along(c, e) : e \in EdgesFrom(p, c) } ELSE {}
Executes(p, c) == IF c.end = Going /\ c.todo # <<>> THEN Execute(p, [c EXCEPT !.todo = Tail(@)], Head(c.todo)) ELSE {}

\* The entry point with its registers; the initial stores are executed first.
\* The cpu register holds what a value that was never set holds.
Start(p) ==
  LET f == p.fun[p.entry] IN
  [frames |-> <<[fun |-> p.entry, loc |-> f.initial, res |-> Nobody, allocas |-> {},
                 regs |-> [r \in DOMAIN f.regs |-> Default(f.regs[r])]]>>,
   sp   |-> Default(Type("Bool")),
   heap |-> [b \in DOMAIN p.heap |-> [k \in 1 .. p.heap[b] |-> 0]],
   todo |-> p.init,
   end  |-> Going]

-----------------------------------------------------------------------------
VARIABLES program, run
runVars == <<program, run>>

RunInit == program \in Programs /\ Check(program) /\ run = Start(program)

TakeEdge       == run' \in Moves(program, run) /\ UNCHANGED program
RunInstruction == run' \in Executes(program, run) /\ UNCHANGED program

RunNext == TakeEdge \/ RunInstruction
RunSpec == RunInit /\ [][RunNext]_runVars

-----------------------------------------------------------------------------
(* What the properties leave out, each named for the code that makes it so. *)

\* The checker wants the result of PtrEq to be a pointer, the engine makes a
\* boolean; it lets a Pointer32 be stepped, the engine makes a Pointer; it does
\* not compare the sizes of the aggregates of InsertValue.
Mistyped(i) ==
  \/ i.op = "PtrEq"
  \/ i.op \in PtrSteps /\ i.res.ty.id = "Pointer32"
  \/ i.op = "InsertValue" /\ i.res.ty # i.args[1].ty

\* What the checker accepts and the engine has no rule for.
NoRule(p, i) ==
  \/ i.op \in {"PtrToInt", "BitCast"} \/ Symbolically(i)
  \/ i.op = "Call" /\ p.fun[CalleeOf(p, i)].varargs
  \/ i.op \in TAC /\ ~IsInteger(i.res.ty)
  \/ i.op \in CMP /\ i.args[1].ty.id \in {"Bool", "Aggregate"}
  \/ i.op = "Store" /\ i.args[2].ty.id = "Bool"
  \/ i.op = "ExtractValue" /\ (NoPlace(i.args[2]) \/ NoPart(i.res.ty))
  \/ i.op = "InsertValue"  /\ (NoPlace(i.args[2]) \/ NoPart(i.args[3].ty))

\* What the checker accepts and the engine does not define: a part that is not
\* inside its aggregate, an answer that no register of the frame waits for.
Undefined(p, i) ==
  \/ i.op = "ExtractValue" /\ i.args[2].v + i.res.ty.size > i.args[1].ty.size
  \/ i.op = "InsertValue" /\ i.args[2].v + i.args[3].ty.size > i.args[1].ty.size
  \/ i.op = "Call" /\ i.res.k # "local" /\ p.fun[CalleeOf(p, i)].ret # Type("Void")

-----------------------------------------------------------------------------
(* Properties. *)

Fits(x, ty) == x.ty = ty /\ x.v \in 0 .. Card(ty) - 1

\* Type preservation: in every run of a program that the checker accepted, each
\* register holds a value of its declared type, in the range of that type; the
\* checker's rules (typechecker.cpp) and the engine's results agree.
WellTyped ==
  (\A i \in ProgramInstructions(program) : ~Mistyped(i)) =>
    \A k \in DOMAIN run.frames : LET fr == run.frames[k] IN
      \A r \in DOMAIN fr.regs : Fits(fr.regs[r], program.fun[fr.fun].regs[r])

\* Progress: an accepted program never meets a value that its instruction has
\* no rule for, and never what the engine does not define, beyond the
\* instructions of NoRule and Undefined and what a mistyped result leads to.
AcceptedRuns ==
  /\ run.end.why = "raised" =>
       \E i \in ProgramInstructions(program) : (i.op = run.end.op /\ NoRule(program, i)) \/ Mistyped(i)
  /\ run.end.why = "undefined" =>
       \E i \in ProgramInstructions(program) : (i.op = run.end.op /\ Undefined(program, i)) \/ Mistyped(i)
=============================================================================
