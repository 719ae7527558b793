------------------------------ MODULE MCTypedRun ------------------------------
(* Programs of an instruction or a few, over registers a, b and r of every   *)
(* combination of types, most of which the checker rejects.                  *)
EXTENDS TypedRun

Types == {Type("Bool"), Type("I8"), Type("I16"), Type("Pointer"), Type("Pointer32"), AggregateType(2)}
Edge(from, to, ins) == [from |-> from, to |-> to, ins |-> ins, phi |-> FALSE]
Chosen(ty) == IF IsInteger(ty) THEN <<Ins("NonDet", Local("a", ty), <<>>)>> ELSE <<>>
StackPtr         == Operand("cpu", "sp", Type("Pointer"), 0)
Address1(o) == Const(Type("Pointer"), PointerTo(1, o))

Callee(param, ret) ==
  FunctionOf(<<"x">>, ret, [n \in {"x"} |-> param], <<1>>, <<Edge(<<1>>, <<2>>, <<Ins("Ret", Nobody, <<Local("x", param)>>)>>)>>)

\* The types of the registers, the first instructions, the edges after them,
\* and the other function.
Program(ta, tb, tr, first, edges, callee) ==
  [fun |-> [main |-> FunctionOf(<<>>, Type("Void"), [a |-> ta, b |-> tb, r |-> tr], <<1>>, <<Edge(<<1>>, <<2>>, first)>> \o edges),
            callee |-> callee],
   order |-> <<"main", "callee">>, heap |-> [k \in 1 .. 1 |-> 4],
   init |-> <<Ins("Store", Nobody, <<Address1(0), Const(Type("I16"), 6)>>)>>,
   entry |-> "main"]
Simple(ta, tb, tr, ins) ==
  Program(ta, tb, tr, Chosen(ta), <<Edge(<<2>>, <<3>>, ins)>>, Callee(Type("I8"), Type("I8")))

RegA(t) == Local("a", t)
RegB(t) == Local("b", t)
RegR(t) == Local("r", t)

Unary   == {"Trunc", "ZExt", "SExt", "IntToBool", "BoolZExt", "BoolSExt", "IntToPtr", "PtrToInt", "BitCast", "Assign", "Load"}
Binary  == {"Add", "UDiv", "AShr", "ICMP_SLT", "PtrEq"}
Offsets == {Const(Type("I8"), 0), Const(Type("I16"), 1)}

Singles ==
  { Simple(x, x, z, <<Ins(op, RegR(z), <<RegA(x)>>)>>) : op \in Unary, x \in Types, z \in Types }
  \cup { Simple(x, y, z, <<Ins(op, RegR(z), <<RegA(x), RegB(y)>>)>>) : op \in Binary, x \in Types, y \in Types, z \in Types }
  \cup { Simple(x, y, z, <<Ins("PtrAdd", RegR(z), <<Address1(1), RegA(x), RegB(y)>>)>>) : x \in Types, y \in Types, z \in Types }
  \cup { Simple(x, y, x, <<Ins("PtrSub", RegB(y), <<RegB(y), Const(x, 1), RegA(x)>>)>>) : x \in Types, y \in Types }
  \cup { Simple(x, y, z, <<Ins("InsertValue", RegR(z), <<RegA(x), o, RegB(y)>>)>>) : o \in Offsets, x \in Types, y \in Types, z \in Types }
  \cup { Simple(x, x, z, <<Ins("ExtractValue", RegR(z), <<RegA(x), o>>)>>) : o \in Offsets, x \in Types, z \in Types }
  \cup { Simple(x, y, y, <<Ins("Store", Nobody, <<Address1(3), RegA(x)>>), Ins("Load", RegB(y), <<Address1(3)>>)>>) : x \in Types, y \in Types }
  \cup { Simple(x, x, x, <<Ins(op, Nobody, <<RegA(x)>>)>>) : op \in Checks, x \in Types }

Calling(f, res, args) == [Ins("Call", res, args) EXCEPT !.fun = f]
Called(ta, tr, call, callee) == Program(ta, ta, tr, Chosen(ta), <<Edge(<<2>>, <<3>>, <<call>>)>>, callee)

Calls ==
  { Called(x, z, Calling(Symbolic("callee"), RegR(z), <<RegA(x)>>), Callee(y, w)) : x \in Types, y \in Types, z \in Types, w \in Types }
  \cup { Called(Type("I8"), Type("I8"), Calling(f, RegR(Type("I8")), args), Callee(Type("I8"), Type("I8"))) :
           args \in {<<>>, <<RegA(Type("I8"))>>}, f \in {Symbolic("callee"), Symbolic("nowhere"), Numbered(1), Numbered(2), RegA(Type("Pointer"))} }
  \cup { Called(Type("I8"), Type("I8"), Calling(Symbolic("callee"), RegR(Type("I8")), args),
                [Callee(Type("I8"), Type("I8")) EXCEPT !.varargs = TRUE]) : args \in {<<>>, <<RegA(Type("I8"))>>} }

\* A comparison of pointers accepted with a pointer for result, and the address
\* of a function.
Forged == Simple(Type("I8"), Type("Pointer"), Type("Pointer"),
            <<Ins("PtrEq", RegR(Type("Pointer")), <<RegB(Type("Pointer")), RegB(Type("Pointer"))>>),
              Ins("Load", RegA(Type("I8")), <<RegR(Type("Pointer"))>>)>>)
Referring  == Simple(Type("I8"), Type("Pointer"), Type("Pointer"), <<Ins("Assign", RegR(Type("Pointer")), <<Symbolic("callee")>>)>>)

\* Registers that change places on a phi edge, over and over.
Turns  == Program(Type("I8"), Type("I8"), Type("I16"), <<Ins("NonDet", RegA(Type("I8")), <<>>)>>,
            <<[Edge(<<2>>, <<2>>, <<Ins("Assign", RegA(Type("I8")), <<RegB(Type("I8"))>>), Ins("Assign", RegB(Type("I8")), <<RegA(Type("I8"))>>)>>)
                 EXCEPT !.phi = TRUE]>>, Callee(Type("I8"), Type("I8")))

\* The stack pointer: set, moved for an object, read and written through, given
\* to a function, put back; and the result of a call that goes to it.
Set    == Ins("PtrAdd", StackPtr, <<Address1(0), Const(Type("I16"), 2), Const(Type("I16"), 2)>>)
Take   == Ins("PtrSub", StackPtr, <<StackPtr, Const(Type("I16"), 1), Const(Type("I16"), 2)>>)
Object == Program(Type("I16"), Type("I16"), Type("Pointer"), <<Set>>,
            <<Edge(<<2>>, <<3>>, <<Ins("Assign", RegR(Type("Pointer")), <<StackPtr>>), Take, Ins("NonDet", RegA(Type("I16")), <<>>),
                                   Ins("Store", Nobody, <<StackPtr, RegA(Type("I16"))>>), Calling(Symbolic("callee"), RegB(Type("I16")), <<StackPtr>>)>>),
              Edge(<<3>>, <<2>>, <<Ins("Assign", StackPtr, <<RegR(Type("Pointer"))>>)>>)>>,
            FunctionOf(<<"p">>, Type("I16"), [n \in {"p", "v"} |-> IF n = "p" THEN Type("Pointer") ELSE Type("I16")], <<1>>,
              <<Edge(<<1>>, <<2>>, <<Take, Ins("Load", Local("v", Type("I16")), <<Local("p", Type("Pointer"))>>), Ins("Ret", Nobody, <<Local("v", Type("I16"))>>)>>)>>))
Misled == Program(Type("Pointer"), Type("I8"), Type("I8"), <<Set>>, <<Edge(<<2>>, <<3>>, <<Calling(Symbolic("callee"), StackPtr, <<RegA(Type("Pointer"))>>)>>)>>,
            Callee(Type("Pointer"), Type("Pointer")))

MCPrograms == Singles \cup Calls \cup {Forged, Referring, Turns, Object, Misled}
=============================================================================
