------------------------------ MODULE Machine -------------------------------
(***************************************************************************)
(* AnalysisTransfer::Transfer over the Location and the Concrete CPA. Both *)
(* run the same edge on a copy of their half of the state, one after the   *)
(* other and each through its own instantiation of the VM engine: the      *)
(* Location CPA keeps a stack of locations per process, the Concrete CPA a *)
(* stack of frames per process, CPU registers, and the heap all processes  *)
(* share. A step of an engine is one instruction.                          *)
(***************************************************************************)
EXTENDS VMProgram

CONSTANTS Programs, MaxDepth    \* bound on the call depth

ASSUME ProgramsOK == Programs \subseteq VMPrograms
ASSUME MaxDepthOK == MaxDepth \in Nat

VARIABLES
  prog,     \* the program
  locs,     \* Location::State: per process, the stack of locations
  data,     \* Concrete::State: frames and cpu per process, and the heap
  phase,    \* idle; loc or data: which doTransfer runs; undefined
  job,      \* the Transition: process and edge
  pc,       \* next instruction of the edge
  nlocs,    \* local: the copy the Location CPA works on
  ndata,    \* local: the copy the Concrete CPA works on
  outcome   \* of the last Transfer

vars == <<prog, locs, data, phase, job, pc, nlocs, ndata, outcome>>

Frame(g) == [vals : UNION { [0..g.regs[f] - 1 -> Value] : f \in Func }, ret : Reg \cup {NoReg}]

Data(g) == [frames : [Procs(g) -> Seq(Frame(g))],
            cpu    : [Procs(g) -> [0..NbCpu - 1 -> Value]],
            heap   : [Cell -> Value]]

-----------------------------------------------------------------------------
(* LocationState                                                           *)

OverTop(stack, x) == [stack EXCEPT ![Len(stack)] = x]

SetLocation(ls, p, l)  == [ls EXCEPT ![p] = OverTop(ls[p], l)]
PushLocation(ls, p, l) == [ls EXCEPT ![p] = Append(ls[p], l)]

\* Mutation: the pop without its guard.
PopLocationAlways(ls, p) == [ls EXCEPT ![p] = Front(ls[p])]

\* The last location stays.
PopLocation(ls, p) == [ls EXCEPT ![p] = IF Len(ls[p]) > 1 THEN Front(ls[p]) ELSE ls[p]]

-----------------------------------------------------------------------------
(* ActivationStack, BaseValueLookup                                        *)

TopFrame(d, p) == Last(d.frames[p])

\* Reading or writing the register touches memory that exists.
Present(d, p, r) ==
  IF r.kind = "local" THEN d.frames[p] # <<>> /\ r.id \in DOMAIN TopFrame(d, p).vals
                      ELSE r.id \in DOMAIN d.cpu[p]

Readable(d, p, a) == a.kind = "const" \/ Present(d, p, a)

Lookup(d, p, a) ==
  CASE a.kind = "const" -> a.id
    [] a.kind = "local" -> TopFrame(d, p).vals[a.id]
    [] a.kind = "cpu"   -> d.cpu[p][a.id]

SetRegister(fr, id, v) == [fr EXCEPT !.vals = [fr.vals EXCEPT ![id] = v]]

SetFrames(d, p, fs) == [d EXCEPT !.frames = [d.frames EXCEPT ![p] = fs]]
SetCpu(d, p, id, v) == [d EXCEPT !.cpu = [d.cpu EXCEPT ![p] = [d.cpu[p] EXCEPT ![id] = v]]]

SetTop(d, p, id, v) ==
  SetFrames(d, p, OverTop(d.frames[p], SetRegister(TopFrame(d, p), id, v)))

\* Mutation: the lookup is built for the first process.
SaveFirst(d, p, r, v) ==
  IF r.kind = "local" THEN SetTop(d, p, r.id, v) ELSE SetCpu(d, 1, r.id, v)

Save(d, p, r, v) ==
  IF r.kind = "local" THEN SetTop(d, p, r.id, v) ELSE SetCpu(d, p, r.id, v)

\* Mutation: the frame holds the parameters only.
NewFrameParams(g, f, args, r) ==
  [ vals |-> [ id \in 0..Len(args) - 1 |-> args[id + 1] ], ret |-> r ]

\* The frame a call pushes: default values, the arguments in the parameters.
NewFrame(g, f, args, r) ==
  [ vals |-> [ id \in 0..g.regs[f] - 1 |->
                 IF \E k \in 1..Len(args) : g.params[f][k] = id
                   THEN args[CHOOSE k \in 1..Len(args) : g.params[f][k] = id]
                   ELSE Zero ],
    ret  |-> r ]

PushFrame(d, p, fr) == SetFrames(d, p, Append(d.frames[p], fr))
PopFrame(d, p)      == SetFrames(d, p, Front(d.frames[p]))

-----------------------------------------------------------------------------
NoTransition == <<>>

Init ==
  /\ prog \in Programs
  /\ locs = [p \in Procs(prog) |-> <<prog.init[prog.entries[p]]>>]
  /\ \E heap \in [Cell -> Value] :
       data = [ frames |-> [p \in Procs(prog) |-> <<NewFrame(prog, prog.entries[p], <<>>, NoReg)>>],
                cpu    |-> [p \in Procs(prog) |-> [id \in 0..NbCpu - 1 |-> Zero]],
                heap   |-> heap ]
  /\ phase = "idle"
  /\ job = NoTransition
  /\ pc = 0
  /\ nlocs = locs
  /\ ndata = data
  /\ outcome = "none"

\* Transfer returns or throws; its locals die with it.
Leave(o, ls, d) ==
  /\ locs' = ls /\ nlocs' = ls
  /\ data' = d /\ ndata' = d
  /\ phase' = "idle"
  /\ job' = NoTransition
  /\ pc' = 0
  /\ outcome' = o
  /\ UNCHANGED prog

-----------------------------------------------------------------------------
(* Location::Transferer::doTransfer                                        *)

\* The edge does not leave the current location.
Mismatch(p, e) ==
  /\ phase = "idle"
  /\ e.from # Last(locs[p])
  /\ Leave("rejected", locs, data)

Begin(p, e) ==
  /\ phase = "idle"
  /\ e.from = Last(locs[p])
  /\ IsCall(e) => Len(locs[p]) < MaxDepth
  /\ job' = [proc |-> p, edge |-> e]
  /\ nlocs' = SetLocation(locs, p, e.to)
  /\ phase' = "loc"
  /\ pc' = 1
  /\ UNCHANGED <<prog, locs, data, ndata, outcome>>

ins  == job.edge.instrs[pc]
more == pc <= Len(job.edge.instrs)

\* One instruction of the Location CPA's engine: only calls and returns act.
LocStep ==
  /\ phase = "loc"
  /\ more
  /\ nlocs' = CASE ins.op = "Call"              -> PushLocation(nlocs, job.proc, prog.init[ins.func])
               [] ins.op \in {"Ret", "RetVoid"} -> PopLocation(nlocs, job.proc)
               [] OTHER                         -> nlocs
  /\ pc' = pc + 1
  /\ UNCHANGED <<prog, locs, data, phase, job, ndata, outcome>>

LocDone ==
  /\ phase = "loc"
  /\ ~more
  /\ phase' = "data"
  /\ pc' = 1
  /\ UNCHANGED <<prog, locs, data, job, nlocs, ndata, outcome>>

-----------------------------------------------------------------------------
(* Concrete::Transferer::doTransfer                                        *)

Arg(k) == Lookup(ndata, job.proc, ins.args[k])
Args   == [k \in 1..Len(ins.args) |-> Arg(k)]

ArgsReadable == \A k \in 1..Len(ins.args) : Readable(ndata, job.proc, ins.args[k])

\* The instruction throws.
Raises ==
  \/ ins.op = "Throw"
  \/ ins.op = "Call" /\ ins.func \in prog.varargs
  \/ ins.op = "Load" /\ ArgsReadable /\ Arg(1) \notin Cell
  \/ ins.op = "LoadByte" /\ ArgsReadable /\ Arg(1) \notin Cell \cup Beyond
  \/ ins.op = "Store" /\ ArgsReadable /\ Arg(1) \notin Cell \cup Unmapped

\* The value of a Ret goes to the register the caller's frame names.
CanReturnValue(d, p) ==
  LET n == Len(d.frames[p]) IN
    /\ n > 1
    /\ d.frames[p][n].ret # NoReg
    /\ d.frames[p][n].ret.id \in DOMAIN d.frames[p][n - 1].vals

\* The instruction stays within the frames and registers that exist.
Defined ==
  /\ ArgsReadable
  /\ ins.op \in Writes => ins.res # NoReg /\ Present(ndata, job.proc, ins.res)
  /\ ins.op = "Call" =>
       /\ Len(ins.args) >= Len(prog.params[ins.func])
       /\ \A k \in 1..Len(prog.params[ins.func]) : prog.params[ins.func][k] < prog.regs[ins.func]
  /\ ins.op = "Ret" => CanReturnValue(ndata, job.proc)
  /\ ins.op = "RetVoid" => ndata.frames[job.proc] # <<>>

Running == phase = "data" /\ more /\ ~Raises /\ Defined

\* Status::Ok with new data d: on to the next instruction.
Continue(d) ==
  /\ ndata' = d
  /\ pc' = pc + 1
  /\ UNCHANGED <<prog, locs, data, phase, job, nlocs, outcome>>

Write(v) == Continue(Save(ndata, job.proc, ins.res, v))

Compute == Running /\ ins.op = "Compute" /\ Write(ins.table[<<Arg(1), Arg(2)>>])
Assign  == Running /\ ins.op = "Assign" /\ Write(Arg(1))
NonDet  == Running /\ ins.op = "NonDet" /\ Write(Zero)
Skip    == Running /\ ins.op = "Skip" /\ Continue(ndata)

\* Assume, NegAssume and Assert all end the transfer when they fail.
Holds == IF ins.op = "NegAssume" THEN Arg(1) \notin Truthy ELSE Arg(1) \in Truthy

Check ==
  /\ Running
  /\ ins.op \in {"Assume", "NegAssume", "Assert"}
  /\ IF Holds THEN Continue(ndata) ELSE Leave("rejected", locs, data)

\* A one-byte load past the end of its block reads whatever is there.
Load ==
  /\ Running
  /\ ins.op \in {"Load", "LoadByte"}
  /\ \E v \in IF Arg(1) \in Cell THEN {ndata.heap[Arg(1)]} ELSE Value : Write(v)

\* A store to an address without a block is lost.
Store ==
  /\ Running
  /\ ins.op = "Store"
  /\ Continue(IF Arg(1) \in Cell THEN [ndata EXCEPT !.heap = [ndata.heap EXCEPT ![Arg(1)] = Arg(2)]] ELSE ndata)

\* Mutation: the arguments are evaluated after the push.
CallPushFirst ==
  /\ Running
  /\ ins.op = "Call"
  /\ LET blank  == PushFrame(ndata, job.proc, NewFrame(prog, ins.func, <<>>, ins.res))
         Late(k) == IF Readable(blank, job.proc, ins.args[k]) THEN Lookup(blank, job.proc, ins.args[k]) ELSE Zero
     IN  Continue(PushFrame(ndata, job.proc,
           NewFrame(prog, ins.func, [k \in 1..Len(ins.args) |-> Late(k)], ins.res)))

\* The arguments are evaluated in the frame of the caller.
Call ==
  /\ Running
  /\ ins.op = "Call"
  /\ Continue(PushFrame(ndata, job.proc, NewFrame(prog, ins.func, Args, ins.res)))

\* Mutation: the callee's frame is left in place.
RetKeepFrame ==
  /\ Running
  /\ ins.op = "Ret"
  /\ Continue(ndata)

\* StackControl::pop writes into the caller's frame, by the number of the
\* register and whatever its kind.
Ret ==
  /\ Running
  /\ ins.op = "Ret"
  /\ Continue(SetTop(PopFrame(ndata, job.proc), job.proc, TopFrame(ndata, job.proc).ret.id, Arg(1)))

RetVoid ==
  /\ Running
  /\ ins.op = "RetVoid"
  /\ Continue(PopFrame(ndata, job.proc))

Throw ==
  /\ phase = "data"
  /\ more
  /\ Raises
  /\ Leave("raised", locs, data)

\* A read or write outside the frame, or the back() of an empty vector:
\* nothing is known of what follows.
Undefined ==
  /\ phase = "data"
  /\ more
  /\ ~Raises /\ ~Defined
  /\ phase' = "undefined"
  /\ UNCHANGED <<prog, locs, data, job, pc, nlocs, ndata, outcome>>

\* The result state pairs the two halves.
Commit ==
  /\ phase = "data"
  /\ ~more
  /\ Leave("moved", nlocs, ndata)

DataStep == Compute \/ Assign \/ NonDet \/ Skip \/ Check \/ Load \/ Store \/ Call \/ Ret \/ RetVoid

Next ==
  \/ \E p \in Procs(prog), e \in prog.edges : Mismatch(p, e) \/ Begin(p, e)
  \/ LocStep \/ LocDone
  \/ DataStep \/ Throw \/ Undefined \/ Commit

Spec == Init /\ [][Next]_vars

-----------------------------------------------------------------------------
(* Properties                                                              *)

TypeOK ==
  /\ prog \in VMPrograms
  /\ \A ls \in {locs, nlocs} : ls \in [Procs(prog) -> Seq(Location) \ {<<>>}]
  /\ data \in Data(prog) /\ ndata \in Data(prog)
  /\ phase \in {"idle", "loc", "data", "undefined"}
  /\ phase = "idle" => job = NoTransition
  /\ phase # "idle" => job \in [proc : Procs(prog), edge : prog.edges] /\ pc \in Nat \ {0}
  /\ outcome \in {"none", "moved", "rejected", "raised"}

\* The two stacks of a process describe the same activations, though two
\* engines maintain them: same height, each frame sized for the function its
\* location is in, each activation above the first made by a call that leads to
\* the location below it and names the frame's return register. An entry point
\* that returned keeps its location, from which no edge leaves, and no frame.
CalledFrom(g, below, loc, ret) ==
  \E c \in g.edges : /\ IsCall(c) /\ c.to = below
                     /\ Last(c.instrs).func = g.owner[loc]
                     /\ Last(c.instrs).res = ret

Agree(g, ls, fs) ==
  \/ Len(ls) = 1 /\ fs = <<>> /\ \A e \in g.edges : e.from # ls[1]
  \/ /\ Len(fs) = Len(ls)
     /\ \A k \in 1..Len(ls) : DOMAIN fs[k].vals = 0..g.regs[g.owner[ls[k]]] - 1
     /\ \A k \in 2..Len(ls) : CalledFrom(g, ls[k - 1], ls[k], fs[k].ret)

StacksAgree ==
  Disciplined(prog) /\ phase = "idle" => \A p \in Procs(prog) : Agree(prog, locs[p], data.frames[p])

\* A disciplined program never drives the engine outside its frames: every
\* register it touches exists and every value returned finds its caller.
NeverUndefined == Disciplined(prog) => phase # "undefined"

\* A transfer acts on one process: the locations, frames and CPU registers of
\* the others stay, and so do its own frames below the top, but for the register
\* the frame of the callee names. A transfer that fails changes nothing.
OnlyRegister(new, old, r) ==
  /\ new.ret = old.ret /\ DOMAIN new.vals = DOMAIN old.vals
  /\ \A id \in DOMAIN old.vals : new.vals[id] # old.vals[id] => r # NoReg /\ r.id = id

FramesBelowKept(new, old) ==
  \A k \in 1..Len(old) - 1 :
    /\ k <= Len(new)
    /\ \/ new[k] = old[k]
       \/ k = Len(new) /\ k = Len(old) - 1 /\ OnlyRegister(new[k], old[k], old[k + 1].ret)

TransferIsolated ==
  [][ /\ outcome' # "moved" => locs' = locs /\ data' = data
      /\ Disciplined(prog) /\ <<locs', data'>> # <<locs, data>> =>
           /\ phase = "data"
           /\ \A q \in Procs(prog) \ {job.proc} :
                /\ locs'[q] = locs[q]
                /\ data'.frames[q] = data.frames[q]
                /\ data'.cpu[q] = data.cpu[q]
           /\ FramesBelowKept(data'.frames[job.proc], data.frames[job.proc]) ]_vars

\* Each transfer is one step of a machine with a single stack of activations
\* per process.
Activations(ls, fs) == [k \in 1..Len(fs) |-> [loc |-> ls[k], vals |-> fs[k].vals, ret |-> fs[k].ret]]

Discipline == INSTANCE CallDiscipline
  WITH stack <- [p \in Procs(prog) |-> Activations(locs[p], data.frames[p])],
       cpu   <- data.cpu,
       heap  <- data.heap
ImplementsCallDiscipline == Discipline!Spec
=============================================================================
