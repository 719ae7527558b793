--------------------------- MODULE CallDiscipline ---------------------------
(***************************************************************************)
(* What an analysis may assume of a transfer when it reads a state: each   *)
(* process is a stack of activations, a location together with the         *)
(* registers of its function, and a transfer follows one edge of the top   *)
(* activation. An edge computes, or calls, or returns.                     *)
(***************************************************************************)
EXTENDS VMProgram

CONSTANT Programs

VARIABLES prog, stack, cpu, heap

vars == <<prog, stack, cpu, heap>>

Blank(f) == [id \in 0..prog.regs[f] - 1 |-> Zero]

Init ==
  /\ prog \in Programs
  /\ stack = [p \in Procs(prog) |-> << [ loc  |-> prog.init[prog.entries[p]],
                                          vals |-> Blank(prog.entries[p]),
                                          ret  |-> NoReg ] >>]
  /\ cpu = [p \in Procs(prog) |-> [id \in 0..NbCpu - 1 |-> Zero]]
  /\ heap \in [Cell -> Value]

Top(p) == Last(stack[p])

\* The process is at the edge; the others keep stack and CPU registers.
Follow(p, e) ==
  /\ stack[p] # <<>>
  /\ Top(p).loc = e.from
  /\ prog' = prog
  /\ \A q \in Procs(prog) \ {p} : stack'[q] = stack[q] /\ cpu'[q] = cpu[q]

\* Registers of the process and the heap change, nothing else but the location.
Compute(p, e) ==
  /\ Follow(p, e)
  /\ ~IsCall(e) /\ ~IsReturn(e)
  /\ Len(stack'[p]) = Len(stack[p])
  /\ Front(stack'[p]) = Front(stack[p])
  /\ LET new == Last(stack'[p]) IN
       new.loc = e.to /\ new.ret = Top(p).ret /\ DOMAIN new.vals = DOMAIN Top(p).vals

\* A call leaves the location after it behind and starts the callee with its
\* arguments, evaluated in the caller; its other registers have the default value.
Eval(p, a) ==
  CASE a.kind = "const" -> a.id
    [] a.kind = "local" -> Top(p).vals[a.id]
    [] a.kind = "cpu"   -> cpu[p][a.id]

Passed(p, call, vals) ==
  \A id \in DOMAIN vals :
    LET positions == { k \in 1..Len(call.args) : prog.params[call.func][k] = id } IN
      IF positions = {} THEN vals[id] = Zero
                        ELSE \E k \in positions : vals[id] = Eval(p, call.args[k])

CallStep(p, e) ==
  /\ Follow(p, e)
  /\ IsCall(e)
  /\ UNCHANGED <<cpu, heap>>
  /\ LET call == Last(e.instrs) IN
       \E vals \in [0..prog.regs[call.func] - 1 -> Value] :
         /\ Passed(p, call, vals)
         /\ stack'[p] = Append([stack[p] EXCEPT ![Len(stack[p])] = [Top(p) EXCEPT !.loc = e.to]],
                               [loc |-> prog.init[call.func], vals |-> vals, ret |-> call.res])

\* A return resumes the caller where the call left it; a Ret delivers a value to
\* the register the call named.
ReturnStep(p, e) ==
  /\ Follow(p, e)
  /\ IsReturn(e)
  /\ Len(stack[p]) > 1
  /\ LET below == stack[p][Len(stack[p]) - 1] IN
       \E v \in Value :
         stack'[p] = Append(Front(Front(stack[p])),
                            IF Last(e.instrs).op = "Ret"
                              THEN [below EXCEPT !.vals = [below.vals EXCEPT ![Top(p).ret.id] = v]]
                              ELSE below)

\* The entry point returns: the process has ended.
FinishStep(p, e) ==
  /\ Follow(p, e)
  /\ IsReturn(e)
  /\ Len(stack[p]) = 1
  /\ stack'[p] = <<>>

\* Nothing is promised for other programs.
Anything == ~Disciplined(prog) /\ UNCHANGED prog

Next ==
  \/ \E p \in Procs(prog), e \in prog.edges :
       Compute(p, e) \/ CallStep(p, e) \/ ReturnStep(p, e) \/ FinishStep(p, e)
  \/ Anything

Spec == Init /\ [][Next]_vars
=============================================================================
