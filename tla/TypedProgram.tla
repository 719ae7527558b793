---------------------------- MODULE TypedProgram -----------------------------
(* Programs with the types of their operands, as the loaders build them, and *)
(* the type checker: which of them it accepts.  All data is a number: a value *)
(* of n bytes is below Pow[n] (a byte has 256 values in the program), its    *)
(* first byte the least significant one; a pointer is a base (with its       *)
(* segment) and, in its upper half, an offset.                               *)
EXTENDS Integers, Sequences, SequencesExt, FiniteSetsExt

CONSTANTS
  Radix,      \* the values of a byte
  ByteBits    \* and its bits
ASSUME RadixOK == Radix \in Nat \ {0, 1}

\* The number of values of n bytes, and of n bits.
Pow[n \in Nat] == IF n = 0 THEN 1 ELSE Radix * Pow[n - 1]
Two[n \in Nat] == IF n = 0 THEN 1 ELSE 2 * Two[n - 1]
ASSUME BitsOK == ByteBits \in Nat /\ Radix = Two[ByteBits]

\* A type is its id and its size; aggregates of one size are one type.
Type(id) ==
  [id |-> id,
   size |-> CASE id = "Void" -> 0 [] id \in {"Bool", "I8"} -> 1 [] id = "I16" -> 2
              [] id \in {"I32", "Pointer32"} -> 4 [] id \in {"I64", "Pointer"} -> 8]
AggregateType(n) == [id |-> "Aggregate", size |-> n]

\* The smallest integer type of at least that many bits.
IntegerType(bits) ==
  Type(CASE bits <= 8 -> "I8" [] bits <= 16 -> "I16" [] bits <= 32 -> "I32" [] bits <= 64 -> "I64")

IsInteger(t) == t.id \in {"I8", "I16", "I32", "I64"}
IsPointer(t) == t.id \in {"Pointer", "Pointer32"}

\* What a register or a constant can be of.
Scalars      == { Type(id) : id \in {"Bool", "I8", "I16", "I32", "I64", "Pointer", "Pointer32"} }
ValueType(t) == t \in Scalars \/ (t = AggregateType(t.size) /\ t.size \in Nat)

\* The number of values of a type.
Card(t) == IF t.id = "Bool" THEN 2 ELSE Pow[t.size]

Digits(v, n)   == [k \in 1 .. n |-> (v \div Pow[k - 1]) % Radix]
Number(ds)     == LET sum[k \in 0 .. Len(ds)] == IF k = 0 THEN 0 ELSE sum[k - 1] + ds[k] * Pow[k - 1] IN sum[Len(ds)]
SignedOf(v, n) == IF v < Pow[n] \div 2 THEN v ELSE v - Pow[n]

\* The bits of a value of n bytes, numbered from the least significant one.
Places(n)    == 0 .. ByteBits * n - 1
BitSet(v, n) == { k \in Places(n) : (v \div Two[k]) % 2 = 1 }

\* Pointers of both widths: the halves have 2 bytes in a Pointer32.
Half(n)            == Pow[n \div 2]
Pointer(b, o, n)   == b + (Half(n) * (o % Half(n)))
OffsetRange        == Half(8)
PointerTo(b, o)    == Pointer(b, o, 8)
BaseOf(p)          == p % OffsetRange
OffsetOf(p)        == p \div OffsetRange
NullPointer        == 0

\* An operand: a register of the frame or of the cpu, a constant, undef, or
\* the symbol of a function. A call may also name its function by a pointer,
\* whose base is the number of the function.
Operand(k, n, ty, v) == [k |-> k, n |-> n, ty |-> ty, v |-> v]
Local(n, ty) == Operand("local", n, ty, 0)
Const(ty, v) == Operand("const", "", ty, v)
Undef(ty)    == Operand("undef", "", ty, 0)
Symbolic(f)  == Operand("symbol", f, Type("Pointer"), 0)
Numbered(k)  == Operand("function", "", Type("Pointer"), k)
Nobody       == Operand("none", "", Type("Void"), 0)

TAC  == {"Add", "Sub", "Mul", "UDiv", "SDiv", "Shl", "LShr", "AShr", "And", "Or", "Xor"}
CMP  == {"ICMP_EQ", "ICMP_NEQ", "ICMP_UGT", "ICMP_UGE", "ICMP_ULT", "ICMP_ULE",
         "ICMP_SGT", "ICMP_SGE", "ICMP_SLT", "ICMP_SLE"}
IntCasts  == {"Trunc", "ZExt", "SExt"}
BoolCasts == {"BoolZExt", "BoolSExt"}
PtrSteps  == {"PtrAdd", "PtrSub"}
Checks    == {"Assume", "NegAssume", "Assert"}
StackOps  == {"Call", "Ret", "RetVoid"}

Ins(op, res, args) == [op |-> op, res |-> res, args |-> args, fun |-> Nobody]

\* A function of a program: its registers with their types, its parameters in
\* order, its edges in the order they were made, and whether it takes more
\* arguments than it has parameters.  A program: its functions in
\* order, the blocks of its heap layout, the stores that initialise them.
FunctionOf(params, ret, regs, initial, edges) ==
  [params |-> params, ret |-> ret, regs |-> regs, initial |-> initial, edges |-> edges, varargs |-> FALSE]

\* The function a call names.
NamesFunction(p, i) ==
  \/ i.fun.k = "symbol"   /\ i.fun.n \in DOMAIN p.fun
  \/ i.fun.k = "function" /\ i.fun.v + 1 \in DOMAIN p.order
CalleeOf(p, i) == IF i.fun.k = "symbol" THEN i.fun.n ELSE p.order[i.fun.v + 1]

-----------------------------------------------------------------------------
(* The programs that are built. *)

OneArg    == IntCasts \cup BoolCasts \cup Checks
               \cup {"IntToBool", "IntToPtr", "PtrToInt", "BitCast", "Load", "Assign", "Ret"}
TwoArgs   == TAC \cup CMP \cup {"PtrEq", "Store", "ExtractValue"}
ThreeArgs == PtrSteps \cup {"InsertValue"}
Results   == (OneArg \ (Checks \cup {"Ret"})) \cup (TwoArgs \ {"Store"}) \cup ThreeArgs \cup {"NonDet"}
Opcodes   == OneArg \cup TwoArgs \cup ThreeArgs \cup {"NonDet", "Skip", "RetVoid", "Call"}

IsSP(o) == o.k = "cpu"

OperandOf(f, o) ==
  CASE o.k = "local"  -> o.n \in DOMAIN f.regs /\ o.ty = f.regs[o.n]
    [] o.k = "cpu"    -> o.ty = Type("Pointer")
    [] o.k = "const"  -> ValueType(o.ty) /\ o.v \in 0 .. Card(o.ty) - 1
    [] o.k = "undef"  -> ValueType(o.ty)
    [] o.k = "symbol" -> TRUE
    [] OTHER          -> FALSE

IsRegister(o) == o.k \in {"local", "cpu"}
IsList(s)     == s \in Seq(ToSet(s))

WellFormedInstr(f, i) ==
  /\ i.op \in Opcodes /\ IsList(i.args)
  /\ i.op \in OneArg => Len(i.args) = 1
  /\ i.op \in TwoArgs => Len(i.args) = 2
  /\ i.op \in ThreeArgs => Len(i.args) = 3
  /\ \A k \in DOMAIN i.args : OperandOf(f, i.args[k])
  /\ i.op \in Results => IsRegister(i.res)
  /\ IsRegister(i.res) => OperandOf(f, i.res)
  /\ i.res.k \in {"local", "cpu", "none"}

\* An instruction that changes the stack ends its edge; phis are assignments to
\* registers of the frame.
WellFormedEdge(f, e) ==
  /\ IsList(e.ins)
  /\ \A k \in DOMAIN e.ins :
       /\ WellFormedInstr(f, e.ins[k])
       /\ e.ins[k].op \in StackOps => k = Len(e.ins)
  /\ e.phi =>
       /\ \A k \in DOMAIN e.ins : e.ins[k].op = "Assign" /\ e.ins[k].res.k = "local"
       /\ \A j, k \in DOMAIN e.ins : e.ins[j].res.n = e.ins[k].res.n => j = k

WellFormedFunction(f) ==
  /\ \A r \in DOMAIN f.regs : ValueType(f.regs[r])
  /\ IsList(f.params) /\ IsInjective(f.params) /\ ToSet(f.params) \subseteq DOMAIN f.regs
  /\ \A k \in DOMAIN f.edges : WellFormedEdge(f, f.edges[k])

InstructionsOf(f)      == UNION { ToSet(f.edges[k].ins) : k \in DOMAIN f.edges }
ProgramInstructions(p) == ToSet(p.init) \cup UNION { InstructionsOf(p.fun[f]) : f \in DOMAIN p.fun }

UsesSP(p) == \E i \in ProgramInstructions(p) : IsSP(i.res) \/ \E k \in DOMAIN i.args : IsSP(i.args[k])

\* The entry point sets the stack pointer before anything reads it.
SetsSP(i) == i.op = "PtrAdd" /\ IsSP(i.res) /\ \A k \in DOMAIN i.args : ~IsSP(i.args[k])
StackIsSet(p) ==
  LET f == p.fun[p.entry] IN
  \A k \in DOMAIN f.edges :
    f.edges[k].from = f.initial => ~f.edges[k].phi /\ f.edges[k].ins # <<>> /\ SetsSP(Head(f.edges[k].ins))

\* The heap is initialised by stores of constants.
Initialises(i) ==
  /\ i.op = "Store" /\ i.res = Nobody
  /\ IsList(i.args) /\ Len(i.args) = 2 /\ IsPointer(i.args[1].ty)
  /\ \A k \in 1 .. 2 : i.args[k].k = "const" /\ ValueType(i.args[k].ty) /\ i.args[k].v \in 0 .. Card(i.args[k].ty) - 1

WellFormed(p) ==
  /\ ToSet(p.order) = DOMAIN p.fun
  /\ p.entry \in DOMAIN p.fun /\ p.fun[p.entry].ret = Type("Void")
  /\ \A f \in DOMAIN p.fun : WellFormedFunction(p.fun[f])
  /\ IsList(p.init) /\ \A k \in DOMAIN p.init : Initialises(p.init[k])
  /\ p.heap \in Seq(Nat)
  /\ UsesSP(p) => StackIsSet(p)

-----------------------------------------------------------------------------
(* The type checker. *)

\* The checks of doCheck, a family of instructions each, by the types of the
\* result and of the arguments; ret is what the function returns.
To(i)     == i.res.ty
ArgType(i, k)  == i.args[k].ty

AcceptsCompute(i) ==
  /\ ArgType(i, 1) = ArgType(i, 2)
  /\ IF i.op \in CMP THEN To(i).id = "Bool" ELSE To(i) = ArgType(i, 1)

AcceptsCast(i) ==
  CASE i.op = "Trunc"                    -> IsInteger(ArgType(i, 1)) /\ IsInteger(To(i)) /\ ArgType(i, 1).size > To(i).size
    [] i.op \in {"ZExt", "SExt"}         -> IsInteger(ArgType(i, 1)) /\ IsInteger(To(i)) /\ ArgType(i, 1).size < To(i).size
    [] i.op = "IntToBool"                -> IsInteger(ArgType(i, 1)) /\ To(i).id = "Bool"
    [] i.op \in {"BoolZExt", "BoolSExt"} -> ArgType(i, 1).id = "Bool" /\ IsInteger(To(i))

AcceptsPtrCast(i) ==
  IF i.op = "IntToPtr" THEN IsInteger(ArgType(i, 1)) /\ To(i).id = "Pointer"
  ELSE IsPointer(ArgType(i, 1)) /\ IsInteger(To(i))

\* A pointer steps by a size times a count.
SkipAny(size, count) == IsInteger(size)     \* mutation: their types may differ
SkipOk(size, count)  == IsInteger(size) /\ size = count
AcceptsStep(i) == IsPointer(To(i)) /\ To(i).id = ArgType(i, 1).id /\ SkipOk(ArgType(i, 2), ArgType(i, 3))

AcceptsMemory(i) == IsPointer(ArgType(i, 1)) /\ (i.op = "Store" \/ IsInteger(To(i)) \/ IsPointer(To(i)))

AcceptsPart(i) ==
  IsInteger(ArgType(i, 2)) /\ ArgType(i, 1).id = "Aggregate" /\ (i.op = "InsertValue" => To(i).id = "Aggregate")

AcceptsReturn(i, ret) == IF i.op = "Ret" THEN ArgType(i, 1) = ret ELSE ret.id = "Void"

\* A call is checked apart.
Accepts(i, ret) ==
  CASE i.op \in TAC \cup CMP \cup {"PtrEq"}       -> AcceptsCompute(i)
    [] i.op \in IntCasts \cup BoolCasts \cup {"IntToBool"} -> AcceptsCast(i)
    [] i.op \in {"IntToPtr", "PtrToInt"}          -> AcceptsPtrCast(i)
    [] i.op \in PtrSteps                          -> AcceptsStep(i)
    [] i.op \in {"Store", "Load"}                 -> AcceptsMemory(i)
    [] i.op \in {"InsertValue", "ExtractValue"}   -> AcceptsPart(i)
    [] i.op \in Checks                            -> ArgType(i, 1).id = "Bool"
    [] i.op \in {"Ret", "RetVoid"}                -> AcceptsReturn(i, ret)
    [] i.op = "Assign"                            -> To(i) = ArgType(i, 1)
    [] i.op = "NonDet"                            -> IsInteger(To(i))
    [] i.op \in {"Skip", "BitCast"}               -> TRUE

\* Mutation: the types of the arguments are not compared.
AcceptsCallAnyTypes(p, i) ==
  LET f == p.fun[CalleeOf(p, i)] IN
  /\ f.varargs \/ Len(f.params) = Len(i.args)
  /\ i.res.k # "none" => i.res.ty = f.ret

\* The arguments of a function that takes more are not looked at.
AcceptsCall(p, i) ==
  LET f == p.fun[CalleeOf(p, i)] IN
  /\ f.varargs \/ /\ Len(f.params) = Len(i.args)
                  /\ \A k \in DOMAIN f.params : f.regs[f.params[k]] = i.args[k].ty
  /\ i.res.k # "none" => i.res.ty = f.ret

\* A symbol that names no function throws; a number of no function, and what is
\* no constant, gives a null function, which is not looked at before its use.
AcceptsInstr(p, ret, i) ==
  IF i.op = "Call" THEN NamesFunction(p, i) /\ AcceptsCall(p, i)
  ELSE Accepts(i, ret)

AcceptsFunction(p, f) == \A i \in InstructionsOf(f) : AcceptsInstr(p, f.ret, i)

\* The functions after a rejected one are not looked at.
Check(p) == \A k \in DOMAIN p.order : AcceptsFunction(p, p.fun[p.order[k]])
=============================================================================
