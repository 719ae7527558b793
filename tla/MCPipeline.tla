----------------------------- MODULE MCPipeline -----------------------------
(* All automata with up to MaxEdges of the edges of a menu over four         *)
(* locations, and programs with calls.                                       *)
EXTENDS Pipeline

CONSTANT MaxEdges

MCFunc == {"main", "f", "h"}
MCFunctions == <<"main", "f", "h">>
MCValue == {0, 1}

r(i) == Reg(i)
NonDetTo(i) == [Do("NonDet", <<>>) EXCEPT !.res = i]
NotOf(i, a) == [Do("Not", <<a>>) EXCEPT !.res = i]
CallTo(c, i, args) == [Do("Call", args) EXCEPT !.res = i, !.func = c]

\* A function: the number of its locations, its edges between them, registers.
Fn(n, edges, regs, params) == [n |-> n, edges |-> edges, regs |-> regs, params |-> params, opaque |-> {}]
NoFn == Fn(1, <<>>, 0, <<>>)

Empty == [ loc |-> <<>>, out |-> <<>>, inc |-> <<>>, edge |-> <<>>, outcome |-> "ok",
           fun |-> [f \in MCFunc |-> [locs |-> <<>>, edges |-> <<>>, initial |-> 0, regs |-> 0,
                                      params |-> <<>>, opaque |-> {}, frames |-> {}]] ]

\* The locations of f are numbered on from those made before.
WithFunction(p, f, fn) ==
  LET n == Len(p.loc)
      h == FoldLeft(LAMBDA k, i : FreshLocation(k, f, {}, n + i), p, [i \in 1 .. fn.n |-> i])
  IN  MakeEdges([h EXCEPT !.fun[f] = [@ EXCEPT !.initial = n + 1, !.regs = fn.regs, !.params = fn.params, !.opaque = fn.opaque]],
                f, [k \in DOMAIN fn.edges |-> Moved(fn.edges[k], n + fn.edges[k].from, n + fn.edges[k].to)])

Program(main, f, h) == WithFunction(WithFunction(WithFunction(Empty, "main", main), "f", f), "h", h)

-----------------------------------------------------------------------------
Phi(from, to, ins) == [Rec(from, to, ins) EXCEPT !.phi = TRUE]

Menu == << Rec(1, 2, <<NonDetTo(0)>>),
           Rec(1, 3, <<>>),
           Phi(2, 3, <<Set(0, r(1)), Set(1, r(0))>>),
           Rec(3, 2, <<Do("Assume", <<r(0)>>), NotOf(1, r(1))>>),
           Rec(2, 4, <<Do("Assert", <<r(0)>>)>>),
           Rec(3, 4, <<Do("NegAssume", <<r(1)>>)>>),
           Rec(4, 3, <<NotOf(0, r(0))>>),
           Rec(3, 3, <<Set(1, Const(1)), Do("Assert", <<r(0)>>)>>),
           Rec(4, 2, <<NonDetTo(1), Do("Assume", <<r(1)>>)>>),
           Rec(2, 1, <<Do("Assume", <<r(0)>>)>>) >>

Pick(ks) == LET order == SortSeq(Listing(ks), <) IN [i \in DOMAIN order |-> Menu[order[i]]]

Automata == { Program(Fn(4, Pick(ks), 2, <<>>), NoFn, NoFn) : ks \in kSubset(MaxEdges, DOMAIN Menu) \cup kSubset(MaxEdges - 1, DOMAIN Menu) }

-----------------------------------------------------------------------------
Flip  == Fn(2, <<Rec(1, 2, <<NotOf(0, r(0)), Do("Ret", <<r(0)>>)>>)>>, 1, <<0>>)
Check == Fn(2, <<Rec(1, 2, <<Do("Assert", <<r(0)>>)>>), Rec(2, 2, <<>>)>>, 1, <<0>>)
Walk  == Fn(3, <<Rec(1, 2, <<>>), Rec(2, 3, <<Do("Skip", <<>>), Do("RetVoid", <<>>)>>)>>, 1, <<>>)
Outer == Fn(2, <<Rec(1, 2, <<CallTo("h", NoReg, <<r(0)>>)>>)>>, 1, <<0>>)
Long  == Fn(3, <<Rec(1, 2, <<NotOf(0, r(0))>>), Rec(2, 3, <<Do("Ret", <<r(0)>>)>>)>>, 1, <<0>>)

Caller(c, i, args) == Fn(4, << Rec(1, 2, <<NonDetTo(0)>>), Rec(2, 3, <<CallTo(c, i, args)>>),
                               Rec(3, 4, <<Do("Assert", <<r(1)>>)>>) >>, 2, <<>>)
Twice  == Fn(3, << Rec(1, 2, <<CallTo("f", 1, <<r(0)>>)>>), Rec(2, 3, <<CallTo("f", 0, <<r(1)>>)>>) >>, 2, <<>>)
Looped == Fn(3, << Rec(1, 2, <<>>), Rec(2, 3, <<CallTo("f", 1, <<r(0)>>)>>), Rec(3, 2, <<Set(0, r(1))>>) >>, 2, <<>>)
Again  == Fn(2, << Rec(1, 2, <<CallTo("main", NoReg, <<>>)>>) >>, 1, <<>>)
Opaque == [Fn(2, << Rec(1, 2, <<NonDetTo(0), Do("Skip", <<>>)>>) >>, 1, <<>>) EXCEPT !.opaque = {0}]

Calling == { Program(Caller("f", 1, <<r(0)>>), Flip, NoFn),
             Program(Caller("f", NoReg, <<r(0)>>), Check, NoFn),
             Program(Caller("f", NoReg, <<>>), Walk, NoFn),
             Program(Caller("f", NoReg, <<r(0)>>), Outer, Check),
             Program(Caller("f", 1, <<r(0)>>), Long, NoFn),
             Program(Twice, Flip, NoFn), Program(Looped, Flip, NoFn),
             Program(Again, NoFn, NoFn), Program(Opaque, NoFn, NoFn) }

\* The same programs as the LLVM loader writes their calls.
BySymbol(p) == [p EXCEPT !.edge = [e \in DOMAIN @ |-> [@[e] EXCEPT !.ins = [k \in DOMAIN @ |->
                  IF @[k].op = "Call" THEN [@[k] EXCEPT !.by = "symbol"] ELSE @[k]]]]]
CallingBySymbol == { BySymbol(p) : p \in Calling }

MCSources == Automata \cup Calling \cup CallingBySymbol

-----------------------------------------------------------------------------
\* An assert with an instruction behind it.
MidAssert == { Program(Fn(3, << Rec(1, 2, <<NonDetTo(0)>>), Rec(2, 3, <<Do("Assert", <<r(0)>>), Do("Skip", <<>>)>>) >>, 1, <<>>),
                       NoFn, NoFn) }
=============================================================================
