------------------------------ MODULE DataPath ------------------------------
(* One register of a program, computed by both engines side by side.  The  *)
(* VM engine is one template; the concrete and the path-formula domain fill*)
(* in the operations and the casts.  A run applies instructions to an      *)
(* accumulator, the other operand being a constant, until an instruction   *)
(* at which the two engines come apart: their values no longer denote the  *)
(* same thing, or one of them raises an exception and the other does not.  *)
EXTENDS Words

CONSTANT Operands   \* integer type -> constants used as the second operand

C == INSTANCE ConcreteWords
S == INSTANCE SymbolicWords

ASSUME OperandsOK == \A ty \in IntTypes : Operands[ty] \subseteq Word(ty)

VARIABLES
  acc,   \* type of the accumulator, its concrete value, what its term denotes
  gap    \* the instruction at which the engines came apart
vars == <<acc, gap>>

Types == IntTypes \cup PtrTypes \cup {"Bool"}
None  == [op |-> "none", ty |-> "Bool", left |-> 0, right |-> 0]

\* The word both engines mean by a value.
Denotes(ty, c, s) ==
  CASE ty = "Bool"     -> (c # 0) = s
    [] ty \in IntTypes -> c = s
    [] ty \in PtrTypes -> S!MakePointer(c, ty) = s

Corner(ty) == { p \in PtrRecord(ty) : p.segment < 2 /\ p.base < 3 }

Init ==
  /\ gap = None
  /\ \/ \E ty \in IntTypes : \E n \in Operands[ty] : acc = [ty |-> ty, conc |-> n, sym |-> n]
     \/ \E ty \in PtrTypes : \E p \in Corner(ty) : acc = [ty |-> ty, conc |-> p, sym |-> S!MakePointer(p, ty)]
     \/ \E b \in BOOLEAN : acc = [ty |-> "Bool", conc |-> S!BoolZExt(b, "I8"), sym |-> b]

\* An instruction with a result of type ty: cs are the outcomes the concrete
\* engine may have, s is the outcome of the symbolic one.
Run(op, right, ty, cs, s) ==
  /\ \E c \in cs :
       \/ /\ c # Raise /\ s # Raise
          /\ Denotes(ty, c[1], s[1])
          /\ acc' = [ty |-> ty, conc |-> c[1], sym |-> s[1]]
          /\ UNCHANGED gap
       \/ /\ IF c = Raise \/ s = Raise THEN c # s ELSE ~Denotes(ty, c[1], s[1])
          /\ gap' = [op |-> op, ty |-> acc.ty, left |-> acc.conc, right |-> right]
          /\ UNCHANGED acc

Binary(op) ==
  /\ acc.ty \in IntTypes
  /\ \E r \in Operands[acc.ty] :
       Run(op, r, acc.ty, C!HostTAC(op, acc.ty, acc.conc, r), Value(S!SmtTAC(op, acc.ty, acc.sym, r)))

\* Pointers are compared as integers of their width.
Compare(op) ==
  \/ /\ acc.ty \in IntTypes
     /\ \E r \in Operands[acc.ty] :
          Run(op, r, "Bool", {Value(C!Bool(C!HostCMP(op, acc.ty, acc.conc, r)))},
              Value(S!SmtCMP(op, acc.ty, acc.sym, r)))
  \/ /\ acc.ty \in PtrTypes
     /\ \E q \in Corner(acc.ty) :
          Run(op, q, "Bool",
              {Value(C!Bool(C!HostCMP(op, acc.ty, C!PtrToInt(acc.conc, acc.ty), C!PtrToInt(q, acc.ty))))},
              Value(S!SmtCMP(op, acc.ty, S!PtrToInt(acc.sym, acc.ty), S!MakePointer(q, acc.ty))))

\* An address of the narrow type is widened first.
Wide(c, s) ==
  IF acc.ty = "Pointer32" THEN [c |-> C!Ptr32ToPtr(c), s |-> S!Ptr32ToPtr(s)] ELSE [c |-> c, s |-> s]

\* The distance is size times count, both of one integer type.
PtrArith(op) ==
  /\ acc.ty \in PtrTypes
  /\ \E ty \in {"I8", "I32"} : \E size \in {1, 2}, n \in Operands[ty] :
       LET p    == Wide(acc.conc, acc.sym)
           skip == Wrap(size * n, ty)
       IN  Run(op, skip, "Pointer",
               {Value(IF op = "PtrAdd" THEN C!PtrAdd(p.c, skip) ELSE C!PtrSub(p.c, skip))},
               Value(IF op = "PtrAdd" THEN S!PtrAdd(p.s, skip) ELSE S!PtrSub(p.s, skip)))

PtrEq ==
  /\ acc.ty \in PtrTypes
  /\ \E q \in Corner("Pointer") :
       LET p == Wide(acc.conc, acc.sym)
       IN  Run("PtrEq", q, "Bool", {C!PtrEq(p.c, q)}, S!PtrEq(p.s, S!MakePointer(q, "Pointer")))

\* Narrowing and widening; doCastOp throws for the wrong direction in both
\* engines alike.
Cast(op) ==
  /\ acc.ty \in IntTypes
  /\ \E to \in IntTypes :
       \/ /\ op = "Trunc" /\ Bits(to) <= Bits(acc.ty)
          /\ Run(op, to, to, {Value(C!Trunc(acc.conc, to))}, Value(S!Trunc(acc.sym, to)))
       \/ /\ op = "ZExt" /\ Bits(to) >= Bits(acc.ty)
          /\ Run(op, to, to, {Value(C!ZExt(acc.conc, acc.ty, to))}, Value(S!ZExt(acc.sym, acc.ty, to)))
       \/ /\ op = "SExt" /\ Bits(to) >= Bits(acc.ty)
          /\ Run(op, to, to, {Value(C!SExt(acc.conc, acc.ty, to))}, Value(S!SExt(acc.sym, acc.ty, to)))

BoolExt(op) ==
  /\ acc.ty = "Bool"
  /\ \E to \in IntTypes :
       IF op = "BoolZExt"
       THEN Run(op, to, to, {Value(C!BoolZExt(acc.conc, to))}, Value(S!BoolZExt(acc.sym, to)))
       ELSE Run(op, to, to, {Value(C!BoolSExt(acc.conc, to))}, Value(S!BoolSExt(acc.sym, to)))

IntToBool ==
  /\ acc.ty \in IntTypes
  /\ Run("IntToBool", 0, "Bool", {Value(C!IntToBool(acc.conc))}, Value(S!IntToBool(acc.sym)))

IntToPtr ==
  /\ acc.ty \in IntTypes
  /\ \E to \in PtrTypes :
       Run("IntToPtr", to, to, {Value(C!IntToPtr(acc.conc, to))}, Value(S!IntToPtr(acc.sym, to)))

\* Assume, negated: the only place that negates a Bool.
Negate ==
  /\ acc.ty = "Bool"
  /\ Run("NegAssume", 0, "Bool", {Value(C!BoolNegate(acc.conc))}, Value(S!BoolNegate(acc.sym)))

Next ==
  /\ gap = None
  /\ \/ \E op \in TAC : Binary(op)
     \/ \E op \in CMP : Compare(op)
     \/ \E op \in {"PtrAdd", "PtrSub"} : PtrArith(op)
     \/ PtrEq
     \/ \E op \in {"Trunc", "ZExt", "SExt"} : Cast(op)
     \/ \E op \in {"BoolZExt", "BoolSExt"} : BoolExt(op)
     \/ IntToBool \/ IntToPtr \/ Negate

Spec == Init /\ [][Next]_vars

-----------------------------------------------------------------------------
\* The instructions at which the concrete host may leave the theory of bit
\* vectors, with the operands at which it does.
Excused(g) ==
  LET ordering == CMP \ {"Eq", "NEq"}
      carries  == LET o == g.left.offset IN
                  IF g.op = "PtrAdd" THEN o + g.right >= Pow2[Fields["Pointer"].offset] ELSE o < g.right
  IN \/ g.op \in {"LShl", "LShr", "AShr"} /\ g.right >= C!CountMod(g.ty)
     \/ g.op = "UDiv" /\ (g.right = 0 \/ g.ty = "I8")
     \/ g.op = "SDiv" /\ (g.right = 0 \/ (g.left = Pow2[Bits(g.ty) - 1] /\ g.right = Top(g.ty)))
     \/ g.op = "ULe" /\ g.left # g.right
     \/ g.op \in {"PtrAdd", "PtrSub"} /\ carries
     \/ g.op = "PtrEq"
     \/ g.op = "IntToPtr" /\ g.left # 0
     \/ g.op = "IntToBool" /\ g.left # 0 /\ g.left % Pow2[Bits("I8")] = 0
     \/ /\ g.op \in ordering /\ g.ty \in PtrTypes /\ g.left # g.right
        /\ \/ g.op \in {"SGt", "SGe", "SLt", "SLe"}
           \/ g.left.segment # g.right.segment \/ g.left.base # g.right.base

\* The accumulator is a value of its type in both domains.
TypeOK ==
  /\ acc.ty \in Types
  /\ acc.conc \in (IF acc.ty \in PtrTypes THEN PtrRecord(acc.ty)
                   ELSE IF acc.ty = "Bool" THEN Word("I8") ELSE Word(acc.ty))
  /\ acc.sym \in (IF acc.ty = "Bool" THEN BOOLEAN ELSE Word(acc.ty))

\* A program means the same to both engines (mc answers for one of them): they
\* come apart only at the instructions and operands of Excused, so in every
\* other program a register's term denotes the register's value.
EnginesAgree == gap # None => Excused(gap)

\* Pointers survive their bit patterns.  The engines lay them out differently,
\* but each must take apart what it put together: a pointer compared or cast
\* as an integer, narrowed after it was widened, is the same pointer.
PointersSurvive ==
  /\ acc.ty \in PtrTypes =>
       /\ C!IntToPtr(C!PtrToInt(acc.conc, acc.ty), acc.ty) = acc.conc
       /\ S!IntToPtr(S!PtrToInt(acc.sym, acc.ty), acc.ty) = acc.sym
  /\ acc.ty = "Pointer32" =>
       /\ C!PtrToPtr32(C!Ptr32ToPtr(acc.conc)) = acc.conc
       /\ S!PtrToPtr32(S!Ptr32ToPtr(acc.sym)) = acc.sym
=============================================================================
