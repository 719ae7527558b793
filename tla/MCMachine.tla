----------------------------- MODULE MCMachine ------------------------------
(* Small programs for the machine.                                         *)
EXTENDS Machine

MCValue    == 0..3
MCTruthy   == 1..3
MCLocation == 1..14
MCFunc     == {"main", "count", "tick", "log"}

l(i) == [kind |-> "local", id |-> i]
cpu0 == [kind |-> "cpu", id |-> 0]
k(v) == [kind |-> "const", id |-> v]

NoTable == [ab \in MCValue \X MCValue |-> 0]
Plus    == [ab \in MCValue \X MCValue |-> (ab[1] + ab[2]) % 4]

I(op, res, args)      == [op |-> op, res |-> res, args |-> args, func |-> "main", table |-> NoTable]
Add(res, a, b)        == [I("Compute", res, <<a, b>>) EXCEPT !.table = Plus]
CallOf(res, f, args)  == [I("Call", res, args) EXCEPT !.func = f]
Do(op, args)          == I(op, NoReg, args)

E(from, to, instrs) == [from |-> from, to |-> to, instrs |-> instrs]

P(entries, edges) ==
  [ entries |-> entries,
    init    |-> [f \in MCFunc |-> CASE f = "main" -> 1 [] f = "count" -> 5 [] f = "tick" -> 10 [] f = "log" -> 13],
    owner   |-> [i \in MCLocation |-> IF i < 5 THEN "main" ELSE IF i < 10 THEN "count" ELSE IF i < 13 THEN "tick" ELSE "log"],
    regs    |-> [f \in MCFunc |-> CASE f = "main" -> 2 [] f = "count" -> 3 [] OTHER -> 1],
    params  |-> [f \in MCFunc |-> IF f = "count" THEN <<1>> ELSE <<>>],
    varargs |-> {"log"},
    edges   |-> edges ]

\* main reads the shared cell, counts down from it by recursion and stores the
\* answer; tick, the second entry point, increments the cell in a loop.
MainEdges ==
  { E(1, 2, << I("Load", l(0), <<k(1)>>) >>),
    E(2, 3, << CallOf(l(1), "count", <<l(0)>>) >>),
    E(3, 4, << Do("Store", <<k(1), l(1)>>), Do("RetVoid", <<>>) >>) }

CountEdges ==
  { E(5, 6, << Do("Assume", <<l(1)>>) >>),
    E(5, 9, << Do("NegAssume", <<l(1)>>), Do("Ret", <<k(0)>>) >>),
    E(6, 7, << I("Assign", cpu0, <<l(1)>>), Add(l(0), l(1), k(3)) >>),
    E(7, 8, << CallOf(l(2), "count", <<l(0)>>) >>),
    E(8, 9, << Add(l(2), l(2), cpu0), Do("Ret", <<l(2)>>) >>) }

TickEdges ==
  { E(10, 11, << I("Load", cpu0, <<k(1)>>) >>),
    E(11, 10, << Add(cpu0, cpu0, k(1)), Do("Store", <<k(1), cpu0>>) >>),
    E(10, 12, << I("NonDet", l(0), <<>>), Do("RetVoid", <<>>) >>) }

Recursive == [P(<<"main", "tick">>, MainEdges \cup CountEdges \cup TickEdges) EXCEPT !.varargs = {}]

\* Everything that can go wrong on one edge, and a call of a vararg function.
Faulty ==
  P(<<"main">>,
    { E(1, 1, << I(op, l(0), <<k(a)>>) >>) : op \in {"Load", "LoadByte"}, a \in MCValue } \cup
    { E(1, 2, << Do("Store", <<k(a), l(0)>>), I("Assign", l(1), <<l(0)>>) >>) : a \in MCValue } \cup
    { E(2, 1, << Do("Skip", <<>>), Do("Assert", <<l(0)>>) >>),
      E(2, 2, << Do("Store", <<k(1), k(3)>>), Do("Throw", <<>>) >>),
      E(2, 3, << CallOf(NoReg, "log", <<>>) >>),
      E(2, 4, << >>) })

\* The entry point returns a value.
EntryReturns == P(<<"main">>, { E(1, 2, << Do("Ret", <<l(0)>>) >>) })

MCPrograms == {Recursive, Faulty, EntryReturns}

\* The doc of RemoveRetEntryPoints: replacing the returns of entry points avoids
\* "managing special cases (in exploration algorithms) when an entry point
\* terminates". With the program as it reaches the CPAs no special case should
\* remain to be managed.
EntryReturnHandled == WellFormed(prog) => phase # "undefined"
=============================================================================
