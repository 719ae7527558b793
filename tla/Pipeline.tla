------------------------------ MODULE Pipeline ------------------------------
(* What happens to a program between the loader and the analysis: the        *)
(* Controller lowers the phi edges, splits the asserts and, as the options   *)
(* ask, unfolds NonDet, unrolls loops and inlines calls.  The first function *)
(* is the entry point.                                                       *)
EXTENDS Passes, ProgramRuns

CONSTANTS Sources, Functions, MaxUnroll, MaxInline

ASSUME SourcesOK ==
  /\ Sources \subseteq Programs
  /\ Functions \in Seq(Func) /\ ToSet(Functions) = Func
  /\ \A g \in Sources : \A e \in DOMAIN g.edge :
       g.edge[e].phi => \A i \in DOMAIN g.edge[e].ins : g.edge[e].ins[i].op = "Assign"

Main == Functions[1]

VARIABLES
  g,        \* the program
  options,  \* what transformProgram is asked for
  stage,
  work,     \* InlineFunctions: the calls still to inline
  cut,      \* and the location made for those beyond the depth
  source    \* what the program as loaded does
vars == <<g, options, stage, work, cut, source>>

SourceRegs(h) == h.fun[Main].regs

Init ==
  /\ g \in Sources
  /\ options \in [expand : BOOLEAN, unroll : 0 .. MaxUnroll, inline : 0 .. MaxInline]
  /\ stage = "loaded"
  /\ work = <<>> /\ cut = 0
  /\ source = [ regs |-> SourceRegs(g), does |-> Observed(g, "source", Main, SourceRegs(g)) ]

\* A pass goes over all functions in their order.
Over(h, F(_, _)) == FoldLeft(LAMBDA k, f : F(k, f), h, Functions)

Pass(from, to, result) ==
  /\ stage = from /\ g.outcome = "ok"
  /\ g' = result
  /\ stage' = to
  /\ UNCHANGED <<options, work, cut, source>>

Lower == Pass("loaded", "lowered", Over(g, LowerPhi))

Split == Pass("lowered", "split", Over(g, SplitAsserts))

Expand ==
  /\ options.expand
  /\ Pass("split", "expanded", Over(g, ExpandNonDet))

AfterExpand == IF options.expand THEN "expanded" ELSE "split"

Unroll ==
  /\ options.unroll > 0
  /\ Pass(AfterExpand, "unrolled", Over(g, LAMBDA h, f : UnrollLoops(h, f, options.unroll)))

AfterUnroll == IF options.unroll > 0 THEN "unrolled" ELSE AfterExpand

BeginInline ==
  /\ options.inline > 0
  /\ stage = AfterUnroll /\ g.outcome = "ok"
  /\ stage' = "inlining"
  /\ g' = FreshLocation(g, Main, {}, 0)
  /\ cut' = NextLocation(g)
  /\ work' = Pending(options.inline, CallsIn(g, g.fun[Main].edges))
  /\ UNCHANGED <<options, source>>

Inline ==
  /\ stage = "inlining" /\ work # <<>> /\ g.outcome = "ok"
  /\ LET next == Last(work)
         done == InlineCall(g, Main, cut, next[1], next[2], Front(work))
     IN  g' = done.g /\ work' = done.work
  /\ UNCHANGED <<options, stage, cut, source>>

Finish ==
  /\ stage = IF options.inline > 0 THEN "inlining" ELSE AfterUnroll
  /\ work = <<>> /\ g.outcome = "ok"
  /\ stage' = "done"
  /\ UNCHANGED <<g, options, work, cut, source>>

\* The Python bindings offer deleteLocation on the loaded program.
Prune(l) ==
  /\ stage = "loaded"
  /\ l \in ToSet(g.fun[Main].locs)
  /\ g' = DeleteLocation(g, Main, l)
  /\ stage' = "pruned"
  /\ UNCHANGED <<options, work, cut, source>>

Next == Lower \/ Split \/ Expand \/ Unroll \/ BeginInline \/ Inline \/ Finish \/ \E l \in 1 .. Len(g.loc) : Prune(l)

Spec == Init /\ [][Next]_vars

-----------------------------------------------------------------------------
Locations(f)  == ToSet(g.fun[f].locs)
OutEdges(f)   == UNION { ToSet(g.out[l]) : l \in Locations(f) }
HasReg(f, r)  == r < g.fun[f].regs
Instructions  == UNION { UNION { {<<f, g.edge[e].ins[i]>> : i \in DOMAIN g.edge[e].ins} : e \in OutEdges(f) } : f \in Func }

\* Every instruction names registers of the function its edge is in.
TypeOK ==
  /\ g.outcome \in {"ok", "raised", "undefined"}
  /\ stage \in {"loaded", "lowered", "split", "expanded", "unrolled", "inlining", "done", "pruned"}
  /\ \A l \in DOMAIN g.loc : g.loc[l] \in LocationRec /\ ToSet(g.out[l]) \cup ToSet(g.inc[l]) \subseteq DOMAIN g.edge
  /\ \A fi \in Instructions : HasReg(fi[1], fi[2].res)
                              /\ \A k \in DOMAIN fi[2].args : fi[2].args[k].kind = "reg" => HasReg(fi[1], fi[2].args[k].id)

\* Once each, an edge is listed where it begins and where it ends or nowhere;
\* and until calls are inlined, an automaton owns the edges of its locations.
ListsAgree ==
  g.outcome = "ok" =>
    /\ \A l \in DOMAIN g.loc : IsInjective(g.out[l]) /\ IsInjective(g.inc[l])
    /\ \A e \in DOMAIN g.edge, l \in DOMAIN g.loc :
         /\ Contains(g.out[l], e) => l = g.edge[e].from /\ Contains(g.inc[g.edge[e].to], e)
         /\ Contains(g.inc[l], e) => l = g.edge[e].to /\ Contains(g.out[g.edge[e].from], e)
    /\ cut = 0 => \A f \in Func : ToSet(g.fun[f].edges) = OutEdges(f)

-----------------------------------------------------------------------------
\* Where an assert does not end its edge, it is not split off.
AssertsLast == \A e \in DOMAIN g.edge : \A i \in 1 .. Len(g.edge[e].ins) - 1 : g.edge[e].ins[i].op # "Assert"

\* Two locations of one symbol were unrolled.
Aliased == options.unroll > 0 /\ stage # AfterExpand /\ \E f \in Func : SameSymbol(g, f)

\* Every pass keeps the runs of the source, apart from those it cuts off: the
\* locations of the source are reached with the same registers, and an assert
\* fails exactly when a location flagged for it is reached.
SameRuns ==
  /\ stage \notin {"loaded", "lowered", "pruned"} /\ g.outcome = "ok"
  /\ AssertsLast /\ ~Aliased
  => LET now == Observed(g, "engine", Main, source.regs) IN
     /\ now.seen \subseteq source.does.seen
     /\ now.violated => source.does.violated
     /\ ~now.cut => now.seen = source.does.seen /\ now.violated = source.does.violated

-----------------------------------------------------------------------------
Succ(l, without) == { g.edge[e].to : e \in ToSet(g.out[l]) } \ without

RECURSIVE Forward(_, _)
Forward(ls, without) ==
  LET more == ls \cup UNION { Succ(l, without) : l \in ls }
  IN  IF more = ls THEN ls ELSE Forward(more, without)

Reached(f, without) == IF g.fun[f].initial \in without THEN {} ELSE Forward({g.fun[f].initial}, without)
OnCycle(l)     == l \in Forward(Succ(l, {}), {})
Together(a, b) == a \in Forward({b}, {}) /\ b \in Forward({a}, {})

\* d is on every way to l.
Dominates(f, d, l) == l \in Reached(f, {}) \ Reached(f, {d})

Heads(f) == { g.edge[e].to : e \in { d \in OutEdges(f) : Dominates(f, g.edge[d].to, g.edge[d].from) } }

\* Loops that meet, a loop through the initial location, one never reached.
Tangled(f) ==
  \/ \E a, b \in Heads(f) : a # b /\ Together(a, b)
  \/ OnCycle(g.fun[f].initial)
  \/ \E l \in Locations(f) \ Reached(f, {}) : OnCycle(l)

\* Locations no run reaches count as ways into those that follow them.
HiddenByUnreached(f) ==
  \E l \in Locations(f) \ Reached(f, {}) : Succ(l, {}) \cap Reached(f, {}) # {}

\* No natural loop is left in an unrolled function, unless a location no run
\* reaches leads into it: a run comes back to a location only around a cycle
\* that can be entered at several places.
UnrolledAcyclic ==
  stage = "unrolled" /\ g.outcome = "ok" /\ ~Aliased =>
    \A f \in Func : Heads(f) = {} \/ HiddenByUnreached(f)

\* The passes are defined but for loops that meet, for a self-loop pruned, and,
\* where calls are inlined, for a call of the entry point that names its function
\* by a symbol, calls the entry point, or calls what has two edges to copy.
UndefinedOnlyWhere ==
  g.outcome = "undefined" =>
    CASE stage = "unrolled" -> \E f \in Func : Tangled(f)
      [] stage = "inlining" ->
           \E e \in OutEdges(Main) : LastOp(g.edge[e].ins) = "Call" /\ LET call == Last(g.edge[e].ins) IN
             \/ call.by = "symbol"
             \/ call.func = Main
             \/ \E a, b \in OutEdges(call.func) : a # b /\ g.edge[a].ins # <<>> /\ g.edge[b].ins # <<>>
      [] stage = "pruned"   -> \E e \in DOMAIN g.edge : g.edge[e].from = g.edge[e].to
      [] OTHER              -> FALSE
=============================================================================
