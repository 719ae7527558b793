------------------------------- MODULE Passes -------------------------------
(* The transformations the Controller runs, each from a program to a        *)
(* program, and the analysis of loops they rest on.                         *)
EXTENDS ControlFlow

(* Dominators and natural loops of an automaton. *)

Predecessors(g, l) == { g.edge[e].from : e \in ToSet(g.inc[l]) }

\* One sweep: a location is dominated by itself and by what dominates all the
\* locations before it.
Sweep(g, dom) ==
  [l \in DOMAIN dom |-> {l} \cup IF Predecessors(g, l) = {} THEN {}
                                 ELSE { d \in DOMAIN dom : \A s \in Predecessors(g, l) : d \in dom[s] }]

RECURSIVE SweepAll(_, _)
SweepAll(g, dom) == IF Sweep(g, dom) = dom THEN dom ELSE SweepAll(g, Sweep(g, dom))

\* calculateDominators: from all locations down, the initial one included.
Dominators(g, f) == SweepAll(g, [l \in ToSet(g.fun[f].locs) |-> ToSet(g.fun[f].locs)])

-----------------------------------------------------------------------------
RECURSIVE Backward(_, _, _)
Backward(g, head, body) ==
  LET more == body \cup (UNION { Predecessors(g, l) : l \in body } \ {head})
  IN  IF more = body THEN body ELSE Backward(g, head, more)

\* constructLoop: what reaches the latch without passing the head.
BodyOf(g, head, latch) == IF latch = head THEN {} ELSE Backward(g, head, {latch})

\* The loops of one head are one.  finalise sorts the edges that leave the body
\* or the head.
LoopAt(g, head, latches) ==
  LET body  == UNION { BodyOf(g, head, l) : l \in latches }
      inside == body \cup {head}
      edges == UNION { ToSet(g.out[l]) : l \in inside }
  IN  [ head     |-> head,
        latches  |-> latches \ {head},
        body     |-> body,
        back     |-> { e \in edges : g.edge[e].to = head },
        internal |-> { e \in edges : g.edge[e].to \in body },
        exiting  |-> { e \in edges : g.edge[e].to \notin inside } ]

\* createLoopInfo, before the loops are nested.
Loops(g, f) ==
  LET dom  == Dominators(g, f)
      back == { e \in ToSet(g.fun[f].edges) : g.edge[e].to \in dom[g.edge[e].from] }
  IN  { LoopAt(g, h, { g.edge[e].from : e \in {b \in back : g.edge[b].to = h} })
        : h \in { g.edge[e].to : e \in back } }

Holds(loop, l)  == l \in loop.body \cup {loop.head}
LoopSize(loop)  == Cardinality(loop.latches) + Cardinality(loop.body) + 1

\* The order of the loops: by size, latches of the body counted twice.
Smaller(a, b) == LoopSize(a) < LoopSize(b)
BySize(loops) == SortSeq(Listing(loops), Smaller)

\* nestLoops moves a loop below one sorted behind it that holds its head, and
\* then runs past the end of the vector it shortened. Loops of one size are in
\* any order.
NestsAny(loops) == \E a, b \in loops : a # b /\ ~Smaller(b, a) /\ Holds(b, a.head)

-----------------------------------------------------------------------------
(* What the transformations write. *)

Reg(r)       == [kind |-> "reg", id |-> r]
Const(v)     == [kind |-> "const", id |-> v]
Do(op, args) == [op |-> op, res |-> NoReg, args |-> args, func |-> CHOOSE f \in Func : TRUE, by |-> "pointer"]
Set(r, a)    == [Do("Assign", <<a>>) EXCEPT !.res = r]
Rec(from, to, ins) == [from |-> from, to |-> to, ins |-> ins, phi |-> FALSE]

-----------------------------------------------------------------------------
(* LowerPhi: every register assigned on a phi edge is saved, then all are    *)
(* assigned in turn from what was saved.                                     *)

FirstWrite(ins, r) == CHOOSE k \in DOMAIN ins : ins[k].res = r /\ \A j \in 1 .. k - 1 : ins[j].res # r
IsWritten(ins, a)  == a.kind = "reg" /\ \E k \in DOMAIN ins : ins[k].res = a.id

\* Mutation: the edge is left to the order its assignments stand in.
LowerEdgePlain(g, f, e) == [g EXCEPT !.fun[f].regs = @ + Len(g.edge[e].ins)]

LowerEdge(g, f, e) ==
  LET ins     == g.edge[e].ins
      Temp(r) == g.fun[f].regs + FirstWrite(ins, r) - 1
      saves   == [k \in DOMAIN ins |-> Set(Temp(ins[k].res), Reg(ins[k].res))]
      moves   == [k \in DOMAIN ins |-> LET a == ins[k].args[1] IN
                    Set(ins[k].res, IF IsWritten(ins, a) THEN Reg(Temp(a.id)) ELSE a)]
  IN  [g EXCEPT !.edge[e].ins = saves \o moves,
                !.fun[f].regs = @ + Len(ins)]

LowerPhi(g, f) == FoldLeft(LAMBDA h, e : IF h.edge[e].phi THEN LowerEdge(h, f, e) ELSE h, g, g.fun[f].edges)

-----------------------------------------------------------------------------
(* SplitAsserts: an assert that ends an edge becomes a branch, to where the  *)
(* edge led or to the location of the violation.                             *)

SplitEdge(g, f, violated, e) ==
  IF LastOp(g.edge[e].ins) # "Assert" THEN g
  ELSE LET r == g.edge[e]
           n == NextLocation(g)
           h == MakeEdge(FreshLocation(g, f, {}, 0), f, r.from, n, Front(r.ins), FALSE)
       IN  MakeEdges(DeleteEdge(h, f, e), f,
                     << Rec(n, violated, <<Do("NegAssume", Last(r.ins).args)>>),
                        Rec(n, r.to,     <<Do("Assume", Last(r.ins).args)>>) >>)

SplitAsserts(g, f) ==
  FoldLeft(LAMBDA h, e : SplitEdge(h, f, NextLocation(g), e),
           FreshLocation(g, f, {"AssertViolated"}, 0), g.fun[f].edges)

-----------------------------------------------------------------------------
(* expandNonDet: a NonDet becomes one edge for every value. The two          *)
(* locations about it carry the symbol and the flags of the one before.      *)

Values == Listing(Value)

\* acc: the program, the location reached, the instructions since.
ExpandInstr(f, phi, acc, i) ==
  IF i.op # "NonDet" THEN [acc EXCEPT !.gathered = Append(@, i)]
  ELSE LET old == acc.g.loc[acc.prev]
           n   == NextLocation(acc.g)
           two == MakeLocation(MakeLocation(acc.g, f, old.sym, old.flags, 0), f, old.sym, old.flags, 0)
           h   == MakeEdge(two, f, acc.prev, n, acc.gathered, phi)
       IN  IF acc.g.outcome # "ok" THEN acc
           ELSE IF i.res \in h.fun[f].opaque THEN [acc EXCEPT !.g = [h EXCEPT !.outcome = "raised"]]
           ELSE [ g        |-> MakeEdges(h, f, [k \in DOMAIN Values |-> Rec(n, n + 1, <<Set(i.res, Const(Values[k]))>>)]),
                  prev     |-> n + 1,
                  gathered |-> <<>> ]

ExpandEdge(g, f, e) ==
  LET r   == g.edge[e]
      acc == FoldLeft(LAMBDA a, i : ExpandInstr(f, r.phi, a, i), [g |-> g, prev |-> r.from, gathered |-> <<>>], r.ins)
  IN  IF g.outcome # "ok" \/ r.ins = <<>> THEN g
      ELSE IF acc.g.outcome # "ok" THEN acc.g
      ELSE DeleteEdge(MakeEdge(acc.g, f, acc.prev, r.to, acc.gathered, FALSE), f, e)

ExpandNonDet(g, f) == FoldLeft(LAMBDA h, e : ExpandEdge(h, f, e), g, g.fun[f].edges)

-----------------------------------------------------------------------------
(* unrollLoop: amount copies of the loop, each turning back to the next and  *)
(* the last to a location flagged UnrollFailed. A latch of the body is copied*)
(* twice; an edge finds its ends by symbol.                                  *)

\* Mutation: the last copy turns back to itself.
TurnTargetSame(i, amount, first, dead) == first[i]

TurnTarget(i, amount, first, dead) == IF i < amount THEN first[i + 1] ELSE dead

UnrollLoop(g, f, loop, amount) ==
  LET members  == <<loop.head>> \o Listing(loop.body) \o Listing(loop.latches)
      n        == Len(members)
      dead     == NextLocation(g)
      base     == [i \in 1 .. amount |-> dead + (i - 1) * n]
      first    == [i \in 1 .. amount |-> base[i] + 1]
      In(i, l) == Entry(g, members, base[i], l)
      copied   == FoldLeft(LAMBDA h, k : LET l == members[((k - 1) % n) + 1] IN FreshLocation(h, f, g.loc[l].flags, g.loc[l].orig),
                           FreshLocation(g, f, {"UnrollFailed"}, 0), [k \in 1 .. amount * n |-> k])
      back     == Listing(loop.back)
      others   == Listing(loop.internal) \o Listing(loop.exiting)
      Inside(i) == [k \in DOMAIN others |-> LET r == g.edge[others[k]] IN Moved(r, In(i, r.from), In(i, r.to))]
      Turns(i)  == [k \in DOMAIN back |-> LET r == g.edge[back[k]] IN
                      [Moved(r, In(i, r.from), TurnTarget(i, amount, first, dead)) EXCEPT !.phi = FALSE]]
      entries   == [k \in DOMAIN back |-> Moved(g.edge[back[k]], g.edge[back[k]].from, first[1])]
  IN  IF g.outcome # "ok" THEN g
      ELSE IF \E k \in DOMAIN (back \o others) : ~Listed(g, (back \o others)[k])
           THEN [g EXCEPT !.outcome = "undefined"]       \* freed by an earlier loop
      ELSE DeleteEdges(MakeEdges(copied, f, FlattenSeq([i \in 1 .. amount |-> Inside(i) \o Turns(i)]) \o entries),
                       f, back)

\* UnrollLoops::runFunction.
UnrollLoops(g, f, amount) ==
  IF g.outcome # "ok" THEN g
  ELSE IF NestsAny(Loops(g, f)) THEN [g EXCEPT !.outcome = "undefined"]
  ELSE FoldLeft(LAMBDA h, loop : UnrollLoop(h, f, loop, amount), g, BySize(Loops(g, f)))

-----------------------------------------------------------------------------
(* InlineFunctions: calls are taken from a stack of pairs of a depth and an  *)
(* edge.                                                                     *)

\* Mutation: edges without instructions are not passed over.
BusyAll(g, es) == es

Busy(g, es) == SelectSeq(es, LAMBDA e : g.edge[e].ins # <<>>)
CallsIn(g, es) == SelectSeq(es, LAMBDA e : LastOp(g.edge[e].ins) = "Call")
Pending(depth, es) == [k \in DOMAIN es |-> <<depth, es[k]>>]

\* An operand, an instruction in the registers that begin at n.
InFrame(n, a) == IF a.kind = "reg" THEN Reg(a.id + n) ELSE a
Renamed(n, i) == [i EXCEPT !.args = [k \in DOMAIN @ |-> InFrame(n, @[k])],
                           !.res  = IF @ = NoReg THEN NoReg ELSE @ + n]

\* What a return of an inlined function becomes.
ReturnAs(i, call) == IF i.op = "Ret" THEN Set(call.res, i.args[1]) ELSE Do("Skip", <<>>)

\* copyCFG. A symbol of the frame cannot be made twice.
CopyCFG(g, f, c) ==
  LET locs  == g.fun[c].locs
      base  == Len(g.loc)
      In(l) == Entry(g, locs, base, l)
      h     == FoldLeft(LAMBDA k, l : FreshLocation(k, f, g.loc[l].flags, g.loc[l].orig), g, locs)
  IN  MakeEdges([h EXCEPT !.fun[f].regs = @ + g.fun[c].regs], f,
        [k \in DOMAIN g.fun[c].edges |-> LET r == g.edge[g.fun[c].edges[k]] IN
           [Moved(r, In(r.from), In(r.to)) EXCEPT !.ins = [j \in DOMAIN @ |-> Renamed(g.fun[f].regs, @[j])]]])

SameSymbol(g, f) == \E i, j \in DOMAIN g.fun[f].locs : i # j /\ g.loc[g.fun[f].locs[i]].sym = g.loc[g.fun[f].locs[j]].sym

\* A copied edge that ends in a call or a return. New edges of a return belong
\* to the automaton of the callee; the one deleted stays among those of f.
Settle(f, cut, depth, call, to, acc, e) ==
  LET r == acc.g.edge[e] IN
  CASE LastOp(r.ins) = "Call" /\ depth > 1 -> [acc EXCEPT !.work = Append(@, <<depth - 1, e>>)]
    [] LastOp(r.ins) = "Call" /\ depth = 1 ->
         [acc EXCEPT !.g = DeleteEdge(MakeEdge(@, f, r.from, cut, <<>>, FALSE), f, e)]
    [] LastOp(r.ins) \in {"Ret", "RetVoid"} ->
         [acc EXCEPT !.g = DeleteEdge(MakeEdge(@, call.func, r.from, to, Append(Front(r.ins), ReturnAs(Last(r.ins), call)), FALSE),
                                      call.func, e)]
    [] OTHER -> acc

\* Mutation: parameters are counted from one.
EntryAssignsFromOne(n, params, args) == [k \in DOMAIN args |-> Set(n + params[k] + 1, args[k])]

EntryAssigns(n, params, args) == [k \in DOMAIN args |-> Set(n + params[k], args[k])]

\* inlineCallEdgeToFunction, for the call popped. Whatever names the callee is
\* read as a function pointer. Arguments and entry are made and the call is
\* deleted once for every copied edge with instructions.
InlineCall(g, f, cut, depth, e, work) ==
  LET call   == Last(g.edge[e].ins)
      c      == call.func
      from   == g.edge[e].from
      copied == CopyCFG(g, f, c)
      new    == [k \in DOMAIN g.fun[c].edges |-> Len(g.edge) + k]
      acc    == FoldLeft(LAMBDA a, n : Settle(f, cut, depth, call, g.edge[e].to, a, n),
                         [g |-> [copied EXCEPT !.fun[f].frames = @ \cup {c}], work |-> work], Busy(copied, new))
      entry  == Entry(g, g.fun[c].locs, Len(g.loc), g.fun[c].initial)
      ins    == Front(g.edge[e].ins) \o EntryAssigns(g.fun[f].regs, g.fun[c].params, call.args)
  IN  CASE call.by # "pointer"   -> [g |-> [g EXCEPT !.outcome = "undefined"], work |-> <<>>]
        [] c \in g.fun[f].frames -> [g |-> [g EXCEPT !.outcome = "raised"], work |-> <<>>]
        [] c = f                 -> [g |-> [g EXCEPT !.outcome = "undefined"], work |-> <<>>]
        [] c \notin g.fun[f].frames /\ c # f /\ SameSymbol(g, c) ->
             [g |-> [g EXCEPT !.outcome = "raised", !.fun[f].frames = @ \cup {c}], work |-> <<>>]
        [] OTHER ->
             CASE Busy(copied, new) = <<>>    -> acc
               [] Len(Busy(copied, new)) = 1  ->
                    [acc EXCEPT !.g = DeleteEdge(MakeEdge(@, c, from, entry, ins, FALSE), c, e)]
               [] OTHER -> [g |-> [acc.g EXCEPT !.outcome = "undefined"], work |-> <<>>]
=============================================================================
