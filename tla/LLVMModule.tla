------------------------------ MODULE LLVMModule ------------------------------
(* What an LLVM module means: a part of the language reference, for modules  *)
(* without undefined behaviour.  Objects are apart, a pointer is an object   *)
(* and an offset; layout is packed, as the loader computes it.               *)
EXTENDS TypedProgram, TLC, Bitwise

CONSTANTS
  Unknown,    \* numbers a function that is only declared may return
  MaxCalls    \* bound on the activations

\* Types: <<"i", bits>>, <<"ptr">>, <<"void">>, <<"struct", types>>,
\* <<"array", length, type>>.
RECURSIVE SizeOf(_)
SizeOf(t) ==
  CASE t[1] = "i"      -> IntegerType(t[2]).size
    [] t[1] = "ptr"    -> Type("Pointer").size
    [] t[1] = "struct" -> FoldLeft(LAMBDA n, e : n + SizeOf(e), 0, t[2])
    [] t[1] = "array"  -> t[2] * SizeOf(t[3])
    [] t[1] = "void"   -> 0

\* A byte of the language is 8 bits: what is narrower has fewer values.
Count(t)       == IF t[1] = "i" /\ t[2] < 8 THEN 2 ELSE Radix^SizeOf(t)
FieldAt(t, k)  == IF t[1] = "array" THEN k * SizeOf(t[3])
                  ELSE FoldLeft(LAMBDA n, e : n + SizeOf(e), 0, SubSeq(t[2], 1, k))
FieldOf(t, k)  == IF t[1] = "array" THEN t[3] ELSE t[2][k + 1]

\* Operands of LLVM: a value by its name, constants, functions and blocks,
\* and expressions of constants (v is the instruction it stands for).
LOperand(k, n, t, v) == [k |-> k, n |-> n, t |-> t, v |-> v]
LVal(n, t)  == LOperand("val", n, t, 0)
LInt(b, v)  == LOperand("int", "", <<"i", b>>, v)
LNull       == LOperand("null", "", <<"ptr">>, 0)
LUndef(t)   == LOperand("undef", "", t, 0)
LZero(t)    == LOperand("zero", "", t, 0)
LAggr(t, v) == LOperand("aggr", "", t, v)
LExpr(i)    == LOperand("expr", i.n, i.t, i)
LGlobal(n)  == LOperand("global", n, <<"ptr">>, 0)
LBlock(f, k) == LOperand("block", f, <<"ptr">>, k)

\* An instruction: aux is the type allocated or indexed, the path of a field,
\* or the name of the function called.
LIns(op, n, t, args, aux) == [op |-> op, n |-> n, t |-> t, args |-> args, aux |-> aux]
LTerm(op, args, to) == [op |-> op, n |-> "", t |-> <<"void">>, args |-> args, aux |-> "", to |-> to]
LPhi(n, t, from)    == [n |-> n, t |-> t, from |-> from]
LFunction(params, ret, decl, blocks) ==
  [params |-> params, ret |-> ret, decl |-> decl, blocks |-> blocks, varargs |-> FALSE]
LBody(params, ret, blocks) == LFunction(params, ret, FALSE, blocks)
LDeclare(params, ret)      == LFunction(params, ret, TRUE, <<>>)

Now(c)        == Last(c.frames)
End(c, o)     == [c EXCEPT !.end = o]
Running       == <<"running">>
Write(c, n, v) == IF n = "" THEN c ELSE [c EXCEPT !.frames[Len(c.frames)].regs = (n :> v) @@ @]
Onward(c)      == [c EXCEPT !.frames[Len(c.frames)].pc = @ + 1]

\* The address of a block is a number above those of the objects.
BlockBase == OffsetRange - 1
GlobalAt(m, n) == PointerTo(CHOOSE k \in DOMAIN m.globals : m.globals[k].n = n, 0)

RECURSIVE Element(_, _, _)
Read(m, c, o) ==
  CASE o.k = "val"    -> Now(c).regs[o.n]
    [] o.k = "global" -> GlobalAt(m, o.n)
    [] o.k = "block"  -> PointerTo(BlockBase, o.v)
    [] o.k = "expr"   -> Element(m, c, o.v)
    [] OTHER          -> o.v

SignedBit(v, t) == IF v < Count(t) \div 2 THEN v ELSE v - Count(t)

Arith(op, a, b, t) ==
  LET s(x)    == SignedBit(x, t)
      mag(x)  == IF s(x) < 0 THEN -s(x) ELSE x
      q       == mag(a) \div mag(b) IN
  CASE op = "add"  -> (a + b) % Count(t)
    [] op = "sub"  -> (a - b) % Count(t)
    [] op = "mul"  -> (a * b) % Count(t)
    [] op = "udiv" -> a \div b
    [] op = "urem" -> a % b
    [] op = "sdiv" -> (IF (s(a) < 0) = (s(b) < 0) THEN q ELSE -q) % Count(t)
    [] op = "shl"  -> (a * 2^b) % Count(t)
    [] op = "lshr" -> a \div 2^b
    [] op = "ashr" -> (s(a) \div 2^b) % Count(t)
    [] op = "and"  -> a & b
    [] op = "or"   -> a | b
    [] op = "xor"  -> a ^^ b

Holds(op, a, b, t) ==
  LET s(x) == SignedBit(x, t) IN
  CASE op = "eq"  -> a = b
    [] op = "ne"  -> a # b
    [] op = "ugt" -> a > b
    [] op = "uge" -> a >= b
    [] op = "ult" -> a < b
    [] op = "ule" -> a <= b
    [] op = "sgt" -> s(a) > s(b)
    [] op = "sge" -> s(a) >= s(b)
    [] op = "slt" -> s(a) < s(b)
    [] op = "sle" -> s(a) <= s(b)

Arithmetic == {"add", "sub", "mul", "udiv", "urem", "sdiv", "shl", "lshr", "ashr", "and", "or", "xor"}
Predicates == {"eq", "ne", "ugt", "uge", "ult", "ule", "sgt", "sge", "slt", "sle"}

\* Offset and type a path of indices leads to.
Walk(t, path) ==
  FoldLeft(LAMBDA w, k : [at |-> w.at + FieldAt(w.t, k), t |-> FieldOf(w.t, k)], [at |-> 0, t |-> t], path)

\* The first index steps over whole objects, the others into their fields.
Element(m, c, i) ==
  LET index == [k \in 1 .. Len(i.args) - 1 |-> Read(m, c, i.args[k + 1])]
      p     == Read(m, c, i.args[1])
  IN  PointerTo(BaseOf(p), OffsetOf(p) + index[1] * SizeOf(i.aux) + Walk(i.aux, Tail(index)).at)

Enter(m, c, i, args) ==
  LET f == m.fun[i.aux] IN
  [c EXCEPT !.frames = Append(@, [fun |-> i.aux, blk |-> 1, pc |-> 1, res |-> i.n,
     regs |-> [n \in { f.params[k].n : k \in DOMAIN f.params } |->
                args[CHOOSE k \in DOMAIN f.params : f.params[k].n = n]]])]

\* One instruction: the configurations it leads to.
LDo(m, c, i) ==
  LET a(k) == Read(m, c, i.args[k])
      d    == Onward(c)
      Set1(v) == {Write(d, i.n, v)}
      Into(x, at, n, v) == LET low == x % Radix^at IN low + Radix^at * (v + Radix^n * (x \div Radix^(at + n)))
  IN CASE i.op \in Arithmetic -> Set1(Arith(i.op, a(1), a(2), i.args[1].t))
       [] i.op \in Predicates -> Set1(IF Holds(i.op, a(1), a(2), i.args[1].t) THEN 1 ELSE 0)
       [] i.op \in {"trunc", "zext", "ptrtoint", "inttoptr"} -> Set1(a(1) % Count(i.t))
       [] i.op = "sext"    -> Set1(SignedBit(a(1), i.args[1].t) % Count(i.t))
       [] i.op = "select"  -> Set1(IF a(1) # 0 THEN a(2) ELSE a(3))
       [] i.op = "alloca"  -> {Write([d EXCEPT !.heap = Append(@, [k \in 1 .. SizeOf(i.aux) |-> 0])], i.n, PointerTo(Len(c.heap) + 1, 0))}
       [] i.op = "load"    -> LET n == SizeOf(i.t) IN
            Set1(Number([k \in 1 .. n |-> c.heap[BaseOf(a(1))][OffsetOf(a(1)) + k]]))
       [] i.op = "store"   -> LET n == SizeOf(i.args[1].t)
                                  p == a(2)
                                  v == a(1) IN
            {[d EXCEPT !.heap[BaseOf(p)] = [k \in DOMAIN @ |->
                IF k \in OffsetOf(p) + 1 .. OffsetOf(p) + n THEN Digits(v, n)[k - OffsetOf(p)] ELSE @[k]]]}
       [] i.op = "gep"     -> Set1(Element(m, c, i))
       [] i.op = "insertvalue"  -> LET w == Walk(i.t, i.aux) IN Set1(Into(a(1), w.at, SizeOf(w.t), a(2)))
       [] i.op = "extractvalue" -> LET w == Walk(i.args[1].t, i.aux) IN Set1((a(1) \div Radix^w.at) % Radix^SizeOf(w.t))
       [] i.op = "call"    ->
            IF i.aux = "assert" THEN {IF a(1) # 0 THEN d ELSE End(c, <<"violated">>)}
            ELSE IF m.fun[i.aux].decl THEN { Write(d, i.n, v % Count(i.t)) : v \in Unknown }
            ELSE IF Len(c.frames) = MaxCalls THEN {End(c, <<"bound">>)}
            ELSE {Enter(m, d, i, [k \in DOMAIN i.args |-> a(k)])}

\* The phis of the block entered take their values at once.
Goto(m, c, k) ==
  LET from  == Now(c).blk
      phis  == m.fun[Now(c).fun].blocks[k].phis
      fresh == [n \in { phis[j].n : j \in DOMAIN phis } |->
                  Read(m, c, phis[CHOOSE j \in DOMAIN phis : phis[j].n = n].from[from])]
  IN  [c EXCEPT !.frames[Len(c.frames)] = [@ EXCEPT !.blk = k, !.pc = 1, !.regs = fresh @@ @]]

Terminate(m, c, t) ==
  CASE t.op = "br"     -> {Goto(m, c, t.to[1])}
    [] t.op = "condbr" -> {Goto(m, c, t.to[IF Read(m, c, t.args[1]) # 0 THEN 1 ELSE 2])}
    [] t.op = "indirectbr" -> {Goto(m, c, OffsetOf(Read(m, c, t.args[1])))}
    [] t.op = "ret"    -> LET v == IF t.args = <<>> THEN 0 ELSE Read(m, c, t.args[1]) IN
         IF Len(c.frames) = 1 THEN {End(c, <<"returned", v>>)}
         ELSE {Write([c EXCEPT !.frames = Front(@)], Now(c).res, v)}

LStep(m, c) ==
  IF c.end # Running THEN {}
  ELSE LET b == m.fun[Now(c).fun].blocks[Now(c).blk] IN
       IF Now(c).pc > Len(b.ins) THEN Terminate(m, c, b.term) ELSE LDo(m, c, b.ins[Now(c).pc])

LStart(m) ==
  [frames |-> <<[fun |-> m.main, blk |-> 1, pc |-> 1, res |-> "", regs |-> <<>>]>>,
   heap   |-> [k \in DOMAIN m.globals |-> Digits(m.globals[k].init.v, SizeOf(m.globals[k].t))],
   end    |-> Running]

RECURSIVE LReach(_, _, _)
LReach(m, done, todo) ==
  IF todo = {} THEN done
  ELSE LReach(m, done \cup todo, UNION { LStep(m, c) : c \in todo } \ (done \cup todo))

\* How the runs of a module end.
LOutcomes(m) == { c.end : c \in { d \in LReach(m, {}, {LStart(m)}) : d.end # Running } }
=============================================================================
