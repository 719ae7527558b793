------------------------------ MODULE LLVMLoader ------------------------------
(* How the loader turns an LLVM module into a program: its own passes over   *)
(* the module, the values, the instructions, the edges of the blocks, the    *)
(* globals and the entry point with its stack.  LLVM's own passes (lowering  *)
(* of switches, promotion of allocas) are left out.                          *)
EXTENDS LLVMModule

CONSTANT StackSize    \* the option "stack" of the loader
ASSUME StackFits == StackSize \in 1 .. OffsetRange - 1

---------------------------------------------------------------------------
(* The passes. *)

Exprs(args) ==
  LET es == SelectSeq(args, LAMBDA o : o.k = "expr") IN [k \in DOMAIN es |-> es[k].v]
Named(o)     == IF o.k = "expr" THEN LVal(o.n, o.t) ELSE o
Plain(i)     == [i EXCEPT !.args = [k \in DOMAIN @ |-> Named(@[k])]]
HasExpr(phi) == \E b \in DOMAIN phi.from : phi.from[b].k = "expr"

\* ConstExprRemover: an expression becomes an instruction before its user.  If
\* the user is a phi, that is among the phis of the block, and the range of
\* the phis of the block ends there: the later ones are left as instructions.
RemoveConstExprs(b) ==
  LET bad  == { k \in DOMAIN b.phis : HasExpr(b.phis[k]) }
      last == IF bad = {} THEN Len(b.phis) ELSE Min(bad) - 1
      Incoming(phi) == LET ps == SetToSeq(DOMAIN phi.from) IN [j \in DOMAIN ps |-> phi.from[ps[j]]]
      Late(phi)     == LIns("phi", phi.n, phi.t, Incoming(phi), "")
      late == [k \in 1 .. Len(b.phis) - last |-> Late(b.phis[last + k])]
      Split(is) == FlattenSeq([k \in DOMAIN is |-> Append(Exprs(is[k].args), Plain(is[k]))])
  IN  [phis |-> SubSeq(b.phis, 1, last),
       ins  |-> Split(late \o b.ins) \o Exprs(b.term.args),
       term |-> Plain(b.term)]

\* RemoveUnusedInstructions, until nothing changes.
Uses(blocks) ==
  LET OfIns(is)   == UNION { { is[j].args[k].n : k \in DOMAIN is[j].args } : j \in DOMAIN is }
      OfPhis(ps)  == UNION { { ps[j].from[p].n : p \in DOMAIN ps[j].from } : j \in DOMAIN ps }
  IN  UNION { OfIns(Append(blocks[k].ins, blocks[k].term)) \cup OfPhis(blocks[k].phis) : k \in DOMAIN blocks }

RECURSIVE RemoveUnused(_)
RemoveUnused(blocks) ==
  LET used    == Uses(blocks)
      Kept(i) == i.op \in {"store", "call"} \/ i.n \in used
      next    == [k \in DOMAIN blocks |->
                   [blocks[k] EXCEPT !.phis = SelectSeq(@, LAMBDA phi : phi.n \in used), !.ins = SelectSeq(@, Kept)]]
  IN  IF next = blocks THEN blocks ELSE RemoveUnused(next)

\* GetElementPtrSimplifier: one step for each index.
Simplify(i) ==
  LET n       == Len(i.args) - 1
      name(k) == IF k = n THEN i.n ELSE i.n \o "_gep_" \o ToString(k)
      over[k \in 1 .. n] == IF k <= 2 THEN i.aux ELSE FieldOf(over[k - 1], i.args[k].v)
  IN  IF i.op # "gep" THEN <<i>>
      ELSE [k \in 1 .. n |->
              LIns("gep", name(k), i.t, IF k = 1 THEN SubSeq(i.args, 1, 2)
                                        ELSE <<LVal(name(k - 1), i.t), LInt(32, 0), i.args[k + 1]>>, over[k])]

Modified(f) ==
  LET blocks == RemoveUnused([k \in DOMAIN f.blocks |-> RemoveConstExprs(f.blocks[k])])
  IN  [f EXCEPT !.blocks = [k \in DOMAIN blocks |->
         [blocks[k] EXCEPT !.ins = FlattenSeq([j \in DOMAIN @ |-> Simplify(@[j])])]]]

---------------------------------------------------------------------------
(* Types and values. *)

TypeOf(t) ==
  CASE t[1] = "void" -> Type("Void")
    [] t[1] = "ptr"  -> Type("Pointer")
    [] t[1] = "i"    -> IF t[2] = 1 THEN Type("Bool") ELSE IntegerType(t[2])
    [] OTHER         -> AggregateType(SizeOf(t))

\* An undefined aggregate is made without its size.
FindValue(m, o) ==
  CASE o.k = "val"    -> Local(o.n, TypeOf(o.t))
    [] o.k = "undef"  -> Undef(IF o.t[1] \in {"struct", "array"} THEN AggregateType(0) ELSE TypeOf(o.t))
    [] o.k = "global" -> Const(Type("Pointer"), GlobalAt(m, o.n))
    [] o.k = "block"  -> Const(Type("Pointer"), PointerTo(BlockBase, o.v))
    [] OTHER          -> Const(TypeOf(o.t), o.v)

SP      == Operand("cpu", "sp", Type("Pointer"), 0)
SPMem   == Local("sp_mem", Type("Pointer"))
Num(v)  == Const(Type("I32"), v)
Fresh   == Local("bool", Type("Bool"))    \* written and read at once

---------------------------------------------------------------------------
(* The instructions. *)

Opcode == [add |-> "Add", sub |-> "Sub", mul |-> "Mul", udiv |-> "UDiv", sdiv |-> "UDiv", shl |-> "Shl",
           lshr |-> "LShr", ashr |-> "AShr", and |-> "And", or |-> "Or", xor |-> "Xor",
           eq |-> "ICMP_EQ", ne |-> "ICMP_NEQ", ugt |-> "ICMP_UGT", uge |-> "ICMP_UGE", ult |-> "ICMP_ULT",
           ule |-> "ICMP_ULE", sgt |-> "ICMP_SGT", sge |-> "ICMP_SGE", slt |-> "ICMP_SLT", sle |-> "ICMP_SLE",
           trunc |-> "Trunc", zext |-> "ZExt",
           sext |-> "SExt", ptrtoint |-> "PtrToInt", inttoptr |-> "IntToPtr", load |-> "Load"]

\* Every index of a path is looked up in the outermost type.
Skip(t, path) == FoldLeft(LAMBDA n, k : n + FieldAt(t, k), 0, path)

\* A step of one index skips objects, a step of two an element or a field.
Gep(m, i) ==
  LET k    == FindValue(m, Last(i.args))
      step == IF Len(i.args) = 2 THEN <<Const(k.ty, SizeOf(i.aux)), k>>
              ELSE IF i.aux[1] = "array" THEN <<Const(k.ty, SizeOf(i.aux[3])), k>>
              ELSE <<Num(FieldAt(i.aux, Last(i.args).v)), Num(1)>>
  IN  <<Ins("PtrAdd", Local(i.n, TypeOf(i.t)), <<FindValue(m, i.args[1])>> \o step)>>

Unsaved(call)  == <<call>>     \* mutation: what the callee took stays taken
SavingSP(call) == <<Ins("Assign", SPMem, <<SP>>), call, Ins("Assign", SP, <<SPMem>>)>>

\* A call saves the stack pointer; of an assert no call is left.
CallOf(m, i, res) ==
  LET args == [k \in DOMAIN i.args |-> FindValue(m, i.args[k])] IN
  IF i.aux # "assert"
  THEN SavingSP([Ins("Call", IF i.t = <<"void">> THEN Nobody ELSE res, args) EXCEPT !.fun = Symbolic(i.aux)])
  ELSE IF args[1].ty.id = "Bool" THEN <<Ins("Assert", Nobody, args)>>
  ELSE IF IsInteger(args[1].ty) THEN <<Ins("IntToBool", Fresh, args), Ins("Assert", Nobody, <<Fresh>>)>>
  ELSE <<>>

\* What has no case of its own is left out.
Translate(m, i) ==
  LET res  == Local(i.n, TypeOf(i.t))
      a(k) == FindValue(m, i.args[k])
  IN CASE i.op \in DOMAIN Opcode -> <<Ins(Opcode[i.op], res, [k \in DOMAIN i.args |-> a(k)])>>
       [] i.op = "store"  -> <<Ins("Store", Nobody, <<a(2), a(1)>>)>>
       [] i.op = "alloca" -> <<Ins("PtrSub", SP, <<SP, Num(1), Num(SizeOf(i.aux))>>), Ins("Assign", res, <<SP>>)>>
       [] i.op = "gep"    -> Gep(m, i)
       [] i.op = "insertvalue"  -> <<Ins("InsertValue", res, <<a(1), Num(Skip(i.t, i.aux)), a(2)>>)>>
       [] i.op = "extractvalue" ->
            IF i.args[1].k = "aggr"
            THEN LET w == Walk(i.args[1].t, i.aux)
                 IN  <<Ins("Assign", res, <<Const(TypeOf(w.t), (i.args[1].v \div Radix^w.at) % Radix^SizeOf(w.t))>>)>>
            ELSE <<Ins("ExtractValue", res, <<a(1), Num(Skip(i.args[1].t, i.aux))>>)>>
       [] i.op = "call"   -> CallOf(m, i, res)
       [] i.op = "ret"    -> IF i.args = <<>> THEN <<Ins("RetVoid", Nobody, <<>>)>> ELSE <<Ins("Ret", Nobody, <<a(1)>>)>>
       [] OTHER           -> <<>>

---------------------------------------------------------------------------
(* The edges. *)

\* Mutation: the edge of phis is an edge like any other.
EdgeOfPlain(from, to, ins, phi) == [from |-> from, to |-> to, ins |-> ins, phi |-> FALSE]
EdgeOf(from, to, ins, phi)      == [from |-> from, to |-> to, ins |-> ins, phi |-> phi]

\* Mutation: the type that is extended is not looked at.
ExtendAny(i) == i

\* A boolean is extended by an instruction of its own.
Extend(i) ==
  IF i.op \in {"ZExt", "SExt"} /\ i.args[1].ty.id = "Bool"
  THEN [i EXCEPT !.op = IF i.op = "ZExt" THEN "BoolZExt" ELSE "BoolSExt"] ELSE i

\* The edge builder: some instructions get an edge of their own.
Single == {"NonDet", "Assume", "NegAssume", "Assert"}   \* mutation: a call stays with its neighbours
Alone == {"Call", "NonDet", "Assume", "NegAssume", "Assert"}
BuildEdges(from, to, stream) ==
  LET node(n) == <<from, to, n>>
      Add(b, i) ==
        IF i.op \notin Alone THEN [b EXCEPT !.ins = Append(@, Extend(i))]
        ELSE LET n == Len(b.edges) IN
             [at |-> node(n + 1), ins |-> <<>>,
              edges |-> b.edges \o <<EdgeOf(b.at, node(n), b.ins, FALSE), EdgeOf(node(n), node(n + 1), <<i>>, FALSE)>>]
      b == FoldLeft(Add, [at |-> from, ins |-> <<>>, edges |-> <<>>], stream)
  IN  Append(b.edges, EdgeOf(b.at, to, b.ins, FALSE))

\* A block is the edges of its instructions, up to a location of its own, and
\* those of its terminator from there; the phis of the block entered are
\* assigned on an edge of their own.
Block(k) == <<"block", k>>
After(k) == <<"after", k>>

Enters(m, f, k, from, to) ==
  LET phis == f.blocks[to].phis IN
  EdgeOf(from, Block(to), [j \in DOMAIN phis |->
    Ins("Assign", Local(phis[j].n, TypeOf(phis[j].t)), <<FindValue(m, Named(phis[j].from[k]))>>)], TRUE)

Guarded(m, f, k, way, stream, to) ==
  Append(BuildEdges(After(k), <<way, k>>, stream), Enters(m, f, k, <<way, k>>, to))

Leaves(m, f, k) ==
  LET t    == f.blocks[k].term
      cond == [j \in DOMAIN t.args |-> FindValue(m, t.args[j])]
      Is(j) == Ins("PtrEq", Fresh, <<cond[1], FindValue(m, LBlock("", t.to[j]))>>)
  IN CASE t.op = "br"     -> <<Enters(m, f, k, After(k), t.to[1])>>
       [] t.op = "condbr" -> Guarded(m, f, k, "then", <<Ins("Assume", Nobody, cond)>>, t.to[1])
                             \o Guarded(m, f, k, "else", <<Ins("NegAssume", Nobody, cond)>>, t.to[2])
       [] t.op = "indirectbr" ->
            FlattenSeq([j \in DOMAIN t.to |->
              Guarded(m, f, k, "way" \o ToString(j), <<Is(j), Ins("Assume", Nobody, <<Fresh>>)>>, t.to[j])])
       [] OTHER -> <<>>

BlockEdges(m, f, k) ==
  LET b    == f.blocks[k]
      body == FlattenSeq([j \in DOMAIN b.ins |-> Translate(m, b.ins[j])])
  IN  BuildEdges(Block(k), After(k), body \o (IF b.term.op = "ret" THEN Translate(m, b.term) ELSE <<>>))
      \o Leaves(m, f, k)

\* Only the blocks that the entry block leads to.
RECURSIVE Reached(_, _)
Reached(f, ks) ==
  LET more == ks \cup UNION { ToSet(f.blocks[k].term.to) : k \in ks }
  IN  IF more = ks THEN ks ELSE Reached(f, more)

---------------------------------------------------------------------------
(* The functions and the program. *)

Prototype(f, fun) == [fun EXCEPT !.varargs = f.varargs]

\* A function that is only declared answers any number.
Declared(f) ==
  LET r == Local("ret", TypeOf(f.ret))
  IN  Prototype(f, FunctionOf([k \in DOMAIN f.params |-> f.params[k].n], TypeOf(f.ret),
        ("ret" :> TypeOf(f.ret)) @@ [n \in { f.params[k].n : k \in DOMAIN f.params } |->
           TypeOf((CHOOSE q \in ToSet(f.params) : q.n = n).t)],
        <<"init", 0>>,
        BuildEdges(<<"init", 0>>, <<"exit", 0>>,
          IF f.ret = <<"void">> THEN <<Ins("RetVoid", Nobody, <<>>)>>
          ELSE <<Ins("NonDet", r, <<>>), Ins("Ret", Nobody, <<r>>)>>)))

\* What has a name and a type: parameters, phis and instructions.
Registers(f) ==
  LET Of(qs) == { [n |-> qs[k].n, t |-> qs[k].t] : k \in DOMAIN qs }
  IN  { q \in Of(f.params) \cup UNION { Of(f.blocks[k].ins) \cup Of(f.blocks[k].phis) : k \in DOMAIN f.blocks } :
          q.n # "" /\ q.t # <<"void">> }

Defined(m, f) ==
  LET g == Modified(f) IN
  Prototype(f, FunctionOf([k \in DOMAIN f.params |-> f.params[k].n], TypeOf(f.ret),
    ("sp_mem" :> SPMem.ty @@ "bool" :> Fresh.ty)
       @@ [n \in { q.n : q \in Registers(g) } |-> TypeOf((CHOOSE q \in Registers(g) : q.n = n).t)],
    Block(1),
    FlattenSeq([k \in DOMAIN g.blocks |-> IF k \in Reached(g, {1}) THEN BlockEdges(m, g, k) ELSE <<>>])))

\* The entry point puts the stack pointer at the end of a block of its own,
\* then calls the function without arguments.
StackBase(m) == Len(m.globals) + 1
EntryPoint(m) ==
  LET ret   == TypeOf(m.fun[m.main].ret)
      res   == IF ret.id = "Void" THEN Nobody ELSE Local("result", ret)
      size  == Const(Type("I64"), StackSize)
      stack == Const(Type("Pointer"), PointerTo(StackBase(m), 0))
  IN  FunctionOf(<<>>, Type("Void"), IF ret.id = "Void" THEN <<>> ELSE "result" :> ret, <<"init", 0>>,
        BuildEdges(<<"init", 0>>, <<"end", 0>>,
          <<Ins("PtrAdd", SP, <<stack, size, Const(Type("I64"), 1)>>),
            [Ins("Call", res, <<>>) EXCEPT !.fun = Symbolic(m.main)]>>))

EntryName == "entry"

LoadedProgram(m) ==
  [fun   |-> (EntryName :> EntryPoint(m)) @@
             [f \in DOMAIN m.fun |-> IF m.fun[f].decl THEN Declared(m.fun[f]) ELSE Defined(m, m.fun[f])],
   order |-> Append(m.order, EntryName),
   heap  |-> [b \in 1 .. StackBase(m) |-> IF b = StackBase(m) THEN StackSize ELSE SizeOf(m.globals[b].t)],
   init  |-> [k \in DOMAIN m.globals |->
                Ins("Store", Nobody, <<Const(Type("Pointer"), PointerTo(k, 0)), FindValue(m, m.globals[k].init)>>)],
   entry |-> EntryName]

\* What the loader throws for: a constant it cannot make, a declared function
\* of an odd size, an entry that is not there.  A call of no known function
\* is undefined.
Somewhere(m, P(_)) ==
  \E f \in DOMAIN m.fun : \E b \in DOMAIN m.fun[f].blocks :
    LET is == Append(m.fun[f].blocks[b].ins, m.fun[f].blocks[b].term) IN \E k \in DOMAIN is : P(is[k])
LoadAnswer(m) ==
  IF Somewhere(m, LAMBDA i : i.op = "call" /\ i.aux = "") THEN "undefined"
  ELSE IF \/ Somewhere(m, LAMBDA i : \E k \in DOMAIN i.args : i.args[k].k = "zero")
          \/ \E f \in DOMAIN m.fun : m.fun[f].decl /\ SizeOf(m.fun[f].ret) \notin {0, 1, 2, 4, 8}
          \/ m.main \notin DOMAIN m.fun
       THEN "raised"
  ELSE "ok"
=============================================================================
