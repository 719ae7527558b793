--------------------------- MODULE MCPathFormula ----------------------------
(* Programs of two values whose paths make up to five fresh variables.     *)
EXTENDS PathFormula

MCValue    == {0, 1}
MCLocation == 1 .. 8
MCFunc     == {"main", "flip", "log"}

l(i) == [kind |-> "local", id |-> i]
cpu0 == [kind |-> "cpu", id |-> 0]
k(v) == [kind |-> "const", id |-> v]

Table(Op(_, _)) == [ab \in MCValue \X MCValue |-> Op(ab[1], ab[2])]
Xor(a, b) == (a + b) % 2
And(a, b) == a * b

I(op, res, args) == [op |-> op, res |-> res, args |-> args, func |-> "main", table |-> Table(And)]
Do(op, args)     == I(op, NoReg, args)
XorOf(res, a, b) == [I("Compute", res, <<a, b>>) EXCEPT !.table = Table(Xor)]
CallOf(res, f, args) == [I("Call", res, args) EXCEPT !.func = f]

E(from, to, instrs) == [from |-> from, to |-> to, instrs |-> instrs]

G(entries, regs, edges) ==
  [ entries |-> entries,
    init    |-> [f \in MCFunc |-> CASE f = "main" -> 1 [] f = "flip" -> 6 [] f = "log" -> 8],
    owner   |-> [i \in MCLocation |-> IF i < 6 THEN "main" ELSE IF i < 8 THEN "flip" ELSE "log"],
    regs    |-> [f \in MCFunc |-> IF f = "main" THEN regs ELSE 1],
    params  |-> [f \in MCFunc |-> IF f = "flip" THEN <<0>> ELSE <<>>],
    varargs |-> {"log"},
    edges   |-> edges ]

\* Two choices, branches on what they give, asserts at and before the end of an
\* edge, a failing instruction behind a choice.
Branching == G(<<"main">>, 2,
  { E(1, 2, << I("NonDet", l(0), <<>>), Do("Assume", <<l(1)>>) >>),
    E(1, 3, << Do("NegAssume", <<l(1)>>), I("NonDet", l(1), <<>>), Do("Skip", <<>>) >>),
    E(1, 1, << I("NonDet", l(0), <<>>), CallOf(NoReg, "log", <<>>) >>),
    E(2, 3, << I("Compute", l(1), <<l(0), l(1)>>), Do("Assert", <<l(1)>>), Do("Assume", <<l(0)>>), I("Assign", cpu0, <<l(1)>>) >>),
    E(2, 4, << Do("Assume", <<l(0)>>), Do("NegAssume", <<l(0)>>) >>),
    E(3, 1, << I("NonDet", l(0), <<>>), XorOf(l(1), l(0), l(1)) >>),
    E(3, 4, << Do("Assert", <<l(0)>>) >>),
    E(4, 5, << Do("Assume", <<cpu0>>) >>),
    E(4, 5, << Do("Throw", <<>>) >>) })

\* A call with an argument and a result, and a call that ignores it.
Calling == G(<<"main">>, 2,
  { E(1, 2, << CallOf(l(1), "flip", <<l(0)>>) >>),
    E(2, 3, << Do("Assume", <<l(1)>>), I("NonDet", l(0), <<>>) >>),
    E(3, 2, << CallOf(l(0), "flip", <<l(1)>>) >>),
    E(3, 4, << Do("NegAssume", <<l(0)>>), Do("RetVoid", <<>>) >>),
    E(6, 7, << XorOf(l(0), l(0), k(1)), Do("Ret", <<l(0)>>) >>) })

\* More registers at work than the entry point has, and two entry points.
Misuse  == G(<<"main">>, 1, { E(1, 2, << I("Assign", l(1), <<k(0)>>) >>), E(1, 3, << Do("Ret", <<l(0)>>) >>) })
TwoProcs == G(<<"main", "main">>, 1, {})

MCPrograms == {Branching, Calling, Misuse, TwoProcs}
=============================================================================
