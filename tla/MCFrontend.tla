------------------------------ MODULE MCFrontend ------------------------------
(* Modules that use what the loader handles, one matter each.                *)
EXTENDS Frontend, MCTypedRun

I1   == <<"i", 1>>
I4   == <<"i", 4>>
I8   == <<"i", 8>>
I16  == <<"i", 16>>
I32  == <<"i", 32>>
Ptr  == <<"ptr">>
None == <<"void">>
Pair == <<"struct", <<I8, I16>>>>
Nest == <<"struct", <<Pair, I8>>>>
Row  == <<"array", 3, I16>>

b(n) == LVal(n, I8)
q(n) == LVal(n, Ptr)
P(n, t) == [n |-> n, t |-> t]
Blk(phis, ins, term) == [phis |-> phis, ins |-> ins, term |-> term]
Ret(o)  == LTerm("ret", <<o>>, <<>>)
Void    == LTerm("ret", <<>>, <<>>)
Br(k)   == LTerm("br", <<>>, <<k>>)
If(c, k, j) == LTerm("condbr", <<LVal(c, I1)>>, <<k, j>>)
Ask(n)  == LIns("call", n, I8, <<>>, "ask")
Cmp(op, n, x, y) == LIns(op, n, I1, <<x, y>>, "")
Bin(op, n, x, y) == LIns(op, n, x.t, <<x, y>>, "")
Conv(op, n, t, x) == LIns(op, n, t, <<x>>, "")
New(n, t)   == LIns("alloca", n, Ptr, <<>>, t)
Get(n, t, p) == LIns("load", n, t, <<p>>, "")
Put(x, p)   == LIns("store", "", None, <<x, p>>, "")
At(n, t, args) == LIns("gep", n, Ptr, args, t)
Must(x)     == LIns("call", "", None, <<x>>, "assert")

\* A module of main, of the function ask without a body, and of others.
Module(ret, blocks, others) ==
  [fun |-> ("main" :> LBody(<<>>, ret, blocks)) @@ ("ask" :> LDeclare(<<>>, I8)) @@ others,
   order |-> SetToSeq({"main", "ask"} \cup DOMAIN others), globals |-> <<>>, main |-> "main"]
Main(ret, ins, o) == Module(ret, <<Blk(<<>>, ins, Ret(o))>>, <<>>)
With(m, globals)  == [m EXCEPT !.globals = globals]

\* The answers of the predicates, one bit each, in r5.
Answers(x, y) ==
  LET preds == <<"ugt", "uge", "sgt", "sge", "sle">>
      N(v, k)  == v \o ToString(k)
      Sofar(k) == IF k = 0 THEN LInt(32, 0) ELSE LVal(N("r", k), I32)
  IN  FlattenSeq([k \in DOMAIN preds |->
        <<Cmp(preds[k], N("c", k), x, y), Conv("zext", N("z", k), I32, LVal(N("c", k), I1)),
          Bin("shl", N("d", k), Sofar(k - 1), LInt(32, 1)), Bin("or", N("r", k), LVal(N("d", k), I32), LVal(N("z", k), I32))>>])

Faithful ==
  [arith |-> Main(I16, <<Ask("x"), Bin("sub", "y", b("x"), LInt(8, 3)), Conv("sext", "s", I16, b("y")),
                         Bin("udiv", "z", LVal("s", I16), LInt(16, 3)), Bin("mul", "w", LVal("z", I16), LVal("s", I16))>>, LVal("w", I16)),
   bits |-> Main(I16, <<Ask("x"), Conv("zext", "z", I16, b("x")), Bin("shl", "s", LVal("z", I16), LInt(16, 2)),
                        Bin("ashr", "a", LVal("s", I16), LInt(16, 1)), Bin("lshr", "l", LVal("s", I16), LInt(16, 3)),
                        Bin("xor", "e", LVal("a", I16), LVal("l", I16)), Bin("and", "f", LVal("e", I16), LInt(16, 13)),
                        Bin("or", "o", LVal("f", I16), LVal("z", I16))>>, LVal("o", I16)),
   orders |-> Main(I32, <<Ask("x"), Ask("y")>> \o Answers(b("x"), b("y")), LVal("r5", I32)),
   widths |-> Main(I32, <<Ask("x"), Cmp("slt", "c", b("x"), LInt(8, 1)), Conv("zext", "z", I16, LVal("c", I1)),
                          Conv("sext", "s", I32, b("x")), Conv("sext", "e", I32, LVal("c", I1)),
                          Conv("zext", "u", I32, LVal("z", I16)), Bin("add", "v", LVal("s", I32), LVal("e", I32)),
                          Bin("add", "r", LVal("v", I32), LVal("u", I32))>>, LVal("r", I32)),
   \* the greater of two, by a phi
   branch |-> Module(I8, <<Blk(<<>>, <<Ask("x"), Ask("y"), Cmp("ult", "c", b("x"), b("y"))>>, If("c", 2, 3)),
                           Blk(<<>>, <<Bin("sub", "d", b("y"), b("x"))>>, Br(3)),
                           Blk(<<LPhi("r", I8, 1 :> b("x") @@ 2 :> b("d"))>>, <<>>, Ret(b("r")))>>, <<>>),
   \* a loop whose phis change places
   swap |-> Module(I8, <<Blk(<<>>, <<Ask("x")>>, Br(2)),
                         Blk(<<LPhi("i", I8, 1 :> LInt(8, 3) @@ 2 :> b("j")),
                               LPhi("a", I8, 1 :> b("x") @@ 2 :> b("k")), LPhi("k", I8, 1 :> LInt(8, 2) @@ 2 :> b("a"))>>,
                             <<Bin("sub", "j", b("i"), LInt(8, 1)), Cmp("eq", "c", b("j"), LInt(8, 0))>>, If("c", 3, 2)),
                         Blk(<<>>, <<>>, Ret(b("a")))>>, <<>>),
   \* a field of a pair and an element of a row on the stack
   stack |-> Main(I16, <<New("p", Pair), New("r", Row), Ask("x"), Conv("zext", "i", I32, b("x")),
                         At("f", Pair, <<q("p"), LInt(32, 0), LInt(32, 1)>>), Put(LInt(16, 7), q("f")),
                         At("e", Row, <<q("r"), LInt(32, 0), LVal("i", I32)>>), Get("v", I16, q("f")),
                         Cmp("ult", "c", LVal("i", I32), LInt(32, 3)), Must(LVal("c", I1)),
                         Put(LVal("v", I16), q("e")), Get("w", I16, q("e"))>>, LVal("w", I16)),
   \* three calls of a function that takes from the stack
   calls |-> Module(I8, <<Blk(<<>>, <<New("o", I8), Put(LInt(8, 0), q("o"))>>, Br(2)),
                          Blk(<<LPhi("i", I8, 1 :> LInt(8, 3) @@ 2 :> b("j"))>>,
                              <<LIns("call", "s", I8, <<b("i"), q("o")>>, "f"), Bin("sub", "j", b("i"), LInt(8, 1)),
                                Cmp("ne", "c", b("j"), LInt(8, 0))>>, If("c", 2, 3)),
                          Blk(<<>>, <<Get("r", I8, q("o"))>>, Ret(b("r")))>>,
              "f" :> LBody(<<P("n", I8), P("out", Ptr)>>, I8,
                       <<Blk(<<>>, <<New("l", I32), New("m", I16), Put(LInt(16, 9), q("m")), Put(LInt(32, 5), q("l")), Get("v", I8, q("out")),
                                     Bin("add", "t", b("v"), b("n")), Put(b("t"), q("out"))>>, Ret(b("t")))>>)),
   \* recursion, to the bound
   recursion |-> Module(I8, <<Blk(<<>>, <<Ask("x"), LIns("call", "s", I8, <<b("x")>>, "f")>>, Ret(b("s")))>>,
              "f" :> LBody(<<P("n", I8)>>, I8,
                       <<Blk(<<>>, <<New("l", I8), Put(b("n"), q("l")), Cmp("eq", "c", b("n"), LInt(8, 0))>>, If("c", 2, 3)),
                         Blk(<<>>, <<>>, Ret(LInt(8, 1))),
                         Blk(<<>>, <<Bin("sub", "m", b("n"), LInt(8, 1)), LIns("call", "s", I8, <<b("m")>>, "f"),
                                     Get("v", I8, q("l")), Bin("add", "t", b("s"), b("v"))>>, Ret(b("t")))>>)),
   asserts |-> Module(None, <<Blk(<<>>, <<Ask("x"), Must(b("x")), Cmp("ne", "c", b("x"), LInt(8, 2)), Must(LVal("c", I1))>>, Void)>>, <<>>),
   globals |-> With(Main(I16, <<At("f", Pair, <<LGlobal("g"), LInt(32, 0), LInt(32, 1)>>), Get("v", I16, q("f")),
                                Get("y", I8, LGlobal("h")), Conv("zext", "z", I16, b("y")),
                                Bin("add", "s", LVal("z", I16), LVal("v", I16)), Put(LVal("s", I16), q("f")),
                                Get("t", I16, LExpr(At("x", I8, <<LGlobal("g"), LInt(32, 1)>>)))>>, LVal("t", I16)),
                    <<[n |-> "g", t |-> Pair, init |-> LAggr(Pair, 2 + Radix * 6)], [n |-> "h", t |-> I8, init |-> LInt(8, 3)]>>),
   fields |-> Main(I16, <<Ask("x"), LIns("insertvalue", "a", Pair, <<LAggr(Pair, 2 + Radix * 6), b("x")>>, <<0>>),
                          LIns("extractvalue", "y", I8, <<LVal("a", Pair)>>, <<0>>), Conv("zext", "z", I16, b("y")),
                          LIns("extractvalue", "v", I16, <<LVal("a", Pair)>>, <<1>>),
                          LIns("extractvalue", "k", I16, <<LAggr(Pair, 1 + Radix * 4)>>, <<1>>),
                          Bin("add", "s", LVal("z", I16), LVal("v", I16)), Bin("add", "t", LVal("s", I16), LVal("k", I16))>>, LVal("t", I16)),
   unused |-> Main(I8, <<New("p", I8), Ask("x"), Conv("ptrtoint", "n", I32, q("p")), Bin("add", "w", LVal("n", I32), LInt(32, 1))>>, b("x"))]

\* Modules whose program is not what they say, or that are not loaded.
Strange ==
  [sdiv    |-> Main(I8, <<Ask("x"), Bin("sdiv", "y", b("x"), LInt(8, 3))>>, b("y")),
   half    |-> Main(I8, <<Ask("x"), Bin("udiv", "y", b("x"), LInt(8, 2))>>, b("y")),
   atmost  |-> Module(I8, <<Blk(<<>>, <<Ask("x"), Cmp("ule", "c", b("x"), LInt(8, 1))>>, If("c", 2, 3)),
                            Blk(<<>>, <<>>, Ret(b("x"))), Blk(<<>>, <<>>, Ret(LInt(8, 3)))>>, <<>>),
   print   |-> Module(I8, <<Blk(<<>>, <<Ask("x"), LIns("call", "n", I8, <<b("x"), b("x")>>, "print")>>, Ret(b("n")))>>,
                      "print" :> [LDeclare(<<P("p", I8)>>, I8) EXCEPT !.varargs = TRUE]),
   select  |-> Main(I8, <<Ask("x"), Cmp("eq", "c", b("x"), LInt(8, 1)), LIns("select", "y", I8, <<LVal("c", I1), b("x"), LInt(8, 3)>>, "")>>, b("y")),
   narrow  |-> Module(I1, <<Blk(<<>>, <<LIns("call", "x", I4, <<>>, "which"), Bin("add", "y", LVal("x", I4), LInt(4, 1)), Bin("add", "z", LVal("y", I4), LInt(4, 1)),
                                        Cmp("eq", "c", LVal("z", I4), LVal("x", I4))>>, Ret(LVal("c", I1)))>>, "which" :> LDeclare(<<>>, I4)),
   cut     |-> Main(I4, <<Ask("x"), Conv("trunc", "y", I4, b("x"))>>, LVal("y", I4)),
   nested  |-> Main(I16, <<Ask("x"), LIns("insertvalue", "a", Nest, <<LAggr(Nest, 0), b("x")>>, <<0, 1>>),
                           LIns("extractvalue", "v", I16, <<LVal("a", Nest)>>, <<0, 1>>)>>, LVal("v", I16)),
   undef   |-> Main(I8, <<Ask("x"), LIns("insertvalue", "a", Pair, <<LUndef(Pair), b("x")>>, <<0>>),
                          LIns("extractvalue", "v", I8, <<LVal("a", Pair)>>, <<0>>)>>, b("v")),
   wide    |-> Module(None, <<Blk(<<>>, <<Must(LInt(16, Radix))>>, Void)>>, <<>>),
   exprphi |-> With(Module(I8, <<Blk(<<>>, <<Ask("x"), Cmp("eq", "c", b("x"), LInt(8, 0))>>, If("c", 2, 3)), Blk(<<>>, <<>>, Br(3)),
                            Blk(<<LPhi("p", Ptr, 1 :> LGlobal("g") @@ 2 :> LExpr(At("e", I8, <<LGlobal("g"), LInt(32, 1)>>)))>>,
                                <<Get("v", I8, q("p"))>>, Ret(b("v")))>>, <<>>),
                    <<[n |-> "g", t |-> I16, init |-> LInt(16, 6)]>>),
   flip    |-> Main(I1, <<Ask("x"), Cmp("eq", "c", b("x"), LInt(8, 1)), Bin("xor", "n", LVal("c", I1), LInt(1, 1))>>, LVal("n", I1)),
   address |-> Main(I32, <<New("p", I32), Conv("ptrtoint", "n", I32, q("p"))>>, LVal("n", I32)),
   flag    |-> Main(I1, <<New("p", I1), Put(LInt(1, 1), q("p")), Get("v", I1, q("p"))>>, LVal("v", I1)),
   jump    |-> Module(I8, <<Blk(<<>>, <<New("p", Ptr), Put(LBlock("main", 2), q("p")), Get("v", Ptr, q("p"))>>, LTerm("indirectbr", <<q("v")>>, <<2, 3>>)),
                            Blk(<<>>, <<>>, Ret(LInt(8, 1))), Blk(<<>>, <<>>, Ret(LInt(8, 2)))>>, <<>>),
   decided |-> Module(I1, <<Blk(<<>>, <<LIns("call", "x", I1, <<>>, "which")>>, Ret(LVal("x", I1)))>>, "which" :> LDeclare(<<>>, I1)),
   big     |-> Module(None, <<Blk(<<>>, <<LIns("call", "x", Pair, <<>>, "which")>>, Void)>>, "which" :> LDeclare(<<>>, Pair)),
   null    |-> Module(None, <<Blk(<<>>, <<Ask("x"), LIns("call", "", None, <<>>, "")>>, Void)>>, <<>>),
   zero    |-> With(Module(None, <<Blk(<<>>, <<Put(LZero(Row), LGlobal("g"))>>, Void)>>, <<>>), <<[n |-> "g", t |-> Row, init |-> LInt(16, 0)]>>),
   params  |-> [Module(I8, <<Blk(<<>>, <<>>, Ret(LInt(8, 0)))>>, "f" :> LBody(<<P("x", I8)>>, I8, <<Blk(<<>>, <<>>, Ret(b("x")))>>)) EXCEPT !.main = "f"]]

MCModules == Faithful @@ Strange
=============================================================================
