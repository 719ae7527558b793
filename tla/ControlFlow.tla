---------------------------- MODULE ControlFlow -----------------------------
(* Control-flow automata under construction and change.  Locations and      *)
(* edges are objects, numbered in the order they are made; an automaton is  *)
(* two vectors of them.  A location lists the edges that leave it and those *)
(* that enter it, whichever automaton made them.                            *)
EXTENDS Integers, Sequences, SequencesExt, FiniteSetsExt

CONSTANTS Func, Value

ASSUME ControlFlowOK == Value \subseteq Int

Operand == [kind : {"reg", "const"}, id : Int]
NoReg   == -1

\* by: how a call names its function, by a function pointer or by another
\* constant, its symbol.
Instr == [op   : {"Skip", "Assign", "Not", "NonDet", "Assume", "NegAssume", "Assert",
                  "Call", "Ret", "RetVoid"},
          res  : Nat \cup {NoReg},
          args : Seq(Operand),
          func : Func,
          by   : {"pointer", "symbol"}]

Flag == {"AssertViolated", "UnrollFailed"}

\* sym: the symbol, named by the location it was first made for; orig: the
\* location of the source program this one is or copies, 0 for none.
LocationRec == [sym : Nat, flags : SUBSET Flag, orig : Nat]
EdgeRec     == [from : Nat, to : Nat, ins : Seq(Instr), phi : BOOLEAN]

\* opaque: the registers NonDet cannot be unfolded for (not integers);
\* frames: the functions whose symbols were copied into this one's frame.
FunctionRec == [locs : Seq(Nat), edges : Seq(Nat), initial : Nat, regs : Nat, params : Seq(Nat),
                opaque : SUBSET Nat, frames : SUBSET Func]

\* outcome: a C++ exception or undefined behaviour ended the work.
Programs == [loc : Seq(LocationRec), out : Seq(Seq(Nat)), inc : Seq(Seq(Nat)), edge : Seq(EdgeRec),
             fun : [Func -> FunctionRec], outcome : {"ok", "raised", "undefined"}]

-----------------------------------------------------------------------------
NextLocation(g) == Len(g.loc) + 1

\* A fresh symbol is the number of the location it is made for.
MakeLocation(g, f, sym, flags, orig) ==
  [g EXCEPT !.loc = Append(@, [sym |-> sym, flags |-> flags, orig |-> orig]),
            !.out = Append(@, <<>>),
            !.inc = Append(@, <<>>),
            !.fun[f].locs = Append(@, NextLocation(g))]

FreshLocation(g, f, flags, orig) == MakeLocation(g, f, NextLocation(g), flags, orig)

MakeEdge(g, f, from, to, ins, phi) ==
  LET e == Len(g.edge) + 1 IN
  [g EXCEPT !.edge = Append(@, [from |-> from, to |-> to, ins |-> ins, phi |-> phi]),
            !.fun[f].edges = Append(@, e),
            !.inc[to]   = Append(@, e),
            !.out[from] = Append(@, e)]

MakeEdges(g, f, recs) == FoldLeft(LAMBDA h, r : MakeEdge(h, f, r.from, r.to, r.ins, r.phi), g, recs)

\* A set in some order.
Listing(S) == FoldSet(LAMBDA x, s : Append(s, x), <<>>, S)

Without(s, x) == SelectSeq(s, LAMBDA y : y # x)

Listed(g, e) == Contains(g.out[g.edge[e].from], e) /\ Contains(g.inc[g.edge[e].to], e)

\* Mutation: the target keeps the edge in its list.
DeleteEdgeOut(g, f, e) ==
  IF ~Listed(g, e) THEN [g EXCEPT !.outcome = "undefined"]
  ELSE [g EXCEPT !.out[g.edge[e].from] = Without(@, e),
                 !.fun[f].edges = Without(@, e)]

\* An edge is searched for in the lists of its ends, without which the erase is
\* undefined; the automaton need not own it.
DeleteEdge(g, f, e) ==
  IF ~Listed(g, e) THEN [g EXCEPT !.outcome = "undefined"]
  ELSE [g EXCEPT !.out[g.edge[e].from] = Without(@, e),
                 !.inc[g.edge[e].to]   = Without(@, e),
                 !.fun[f].edges = Without(@, e)]

DeleteEdges(g, f, es) == FoldLeft(LAMBDA h, e : DeleteEdge(h, f, e), g, es)

\* A self-loop is in both lists.
DeleteLocation(g, f, l) ==
  LET h == DeleteEdges(g, f, g.out[l] \o g.inc[l])
  IN  [h EXCEPT !.fun[f].locs = Without(@, l)]

-----------------------------------------------------------------------------
LastOp(ins) == IF ins = <<>> THEN "none" ELSE Last(ins).op

\* An edge as it is, between other locations.
Moved(r, from, to) == [r EXCEPT !.from = from, !.to = to]

\* What entry of a symbol table a location finds: m is the sequence of the
\* locations inserted, at base + 1, base + 2, ...; the first of a symbol stays.
Entry(g, m, base, l) ==
  IF \E k \in DOMAIN m : g.loc[m[k]].sym = g.loc[l].sym
  THEN base + Min({k \in DOMAIN m : g.loc[m[k]].sym = g.loc[l].sym})
  ELSE l
=============================================================================
