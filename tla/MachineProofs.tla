---------------------------- MODULE MachineProofs ----------------------------
(***************************************************************************)
(* Proofs about Machine for every set of programs: its types, and that the *)
(* two stacks agree, a disciplined program never leaves its frames, and    *)
(* transfers are isolated. The last three rest on one invariant, which     *)
(* relates the working copies of a transfer under way to the state it      *)
(* started from.                                                           *)
(***************************************************************************)
EXTENDS Machine, SequenceTheorems, TLAPS

-----------------------------------------------------------------------------
(* Sequences                                                               *)

\* The first elements and the last element of a non-empty sequence.
LEMMA FrontLast ==
  ASSUME NEW S, NEW s \in Seq(S), s # <<>>
  PROVE  /\ Len(s) \in Nat \ {0}
         /\ Last(s) = s[Len(s)] /\ Last(s) \in S
         /\ Front(s) \in Seq(S)
         /\ Len(Front(s)) = Len(s) - 1
         /\ \A k \in 1..Len(s) - 1 : Front(s)[k] = s[k]
<1>1. Len(s) \in Nat \ {0}
  BY EmptySeq, LenProperties
<1>2. \A k \in 1..Len(s) : s[k] \in S
  BY ElementOfSeq
<1>3. Last(s) = s[Len(s)] /\ Last(s) \in S
  BY <1>1, <1>2 DEF Last
<1> DEFINE n == Len(s) - 1
<1>4. n \in Nat /\ \A k \in 1..n : s[k] \in S
  BY <1>1, <1>2
<1>5. /\ SubSeq(s, 1, n) \in Seq(S)
      /\ Len(SubSeq(s, 1, n)) = n
      /\ \A k \in 1..n : SubSeq(s, 1, n)[k] = s[k]
  <2>1. /\ SubSeq(s, 1, n) \in Seq(S)
        /\ Len(SubSeq(s, 1, n)) = IF 1 <= n THEN n - 1 + 1 ELSE 0
        /\ \A k \in 1..n - 1 + 1 : SubSeq(s, 1, n)[k] = s[1 + k - 1]
    BY <1>4, SubSeqProperties
  <2> HIDE DEF n
  <2>2. QED
    BY <1>4, <2>1
<1>6. QED
  BY <1>1, <1>3, <1>5 DEF Front

\* Overwriting the last element.
LEMMA OverwriteLast ==
  ASSUME NEW S, NEW s \in Seq(S), s # <<>>, NEW x \in S
  PROVE  LET t == [s EXCEPT ![Len(s)] = x] IN
           /\ t \in Seq(S) /\ t # <<>>
           /\ Len(t) = Len(s)
           /\ t[Len(s)] = x
           /\ \A k \in 1..Len(s) - 1 : t[k] = s[k]
           /\ Front(t) = Front(s) /\ Last(t) = x
<1> DEFINE t == [s EXCEPT ![Len(s)] = x]
<1>1. Len(s) \in Nat \ {0}
  BY EmptySeq, LenProperties
<1>2. /\ t \in Seq(S) /\ Len(t) = Len(s)
      /\ t[Len(s)] = x
      /\ \A k \in 1..Len(s) - 1 : t[k] = s[k]
  BY <1>1, SMT
<1>3. t # <<>>
  BY <1>1, <1>2
<1>4. Last(t) = x
  BY <1>2 DEF Last
<1>5. Front(t) = Front(s)
  <2>1. /\ Front(s) \in Seq(S) /\ Len(Front(s)) = Len(s) - 1
        /\ \A k \in 1..Len(s) - 1 : Front(s)[k] = s[k]
    BY FrontLast
  <2>2. /\ Front(t) \in Seq(S) /\ Len(Front(t)) = Len(s) - 1
        /\ \A k \in 1..Len(s) - 1 : Front(t)[k] = t[k]
    BY FrontLast, <1>2, <1>3
  <2> HIDE DEF t
  <2>3. \A k \in 1..Len(Front(s)) : Front(t)[k] = Front(s)[k]
    BY <1>2, <2>1, <2>2
  <2>4. QED
    BY <2>1, <2>2, <2>3, SeqEqual
<1>6. QED
  BY <1>2, <1>3, <1>4, <1>5

\* OverTop writes the top of a stack.
LEMMA OverTopFacts ==
  ASSUME NEW S, NEW s \in Seq(S), s # <<>>, NEW x \in S
  PROVE  /\ OverTop(s, x) \in Seq(S) /\ OverTop(s, x) # <<>>
         /\ Len(OverTop(s, x)) = Len(s)
         /\ OverTop(s, x)[Len(s)] = x
         /\ \A k \in 1..Len(s) - 1 : OverTop(s, x)[k] = s[k]
         /\ Front(OverTop(s, x)) = Front(s) /\ Last(OverTop(s, x)) = x
  BY OverwriteLast DEF OverTop

-----------------------------------------------------------------------------
(* Types of the operations on stacks                                       *)

LocStacks(g) == [Procs(g) -> Seq(Location) \ {<<>>}]

\* The parts of a Concrete::State.
LEMMA DataParts ==
  ASSUME NEW g, NEW d \in Data(g), NEW p \in Procs(g)
  PROVE  /\ d = [frames |-> d.frames, cpu |-> d.cpu, heap |-> d.heap]
         /\ d.frames \in [Procs(g) -> Seq(Frame(g))]
         /\ d.frames[p] \in Seq(Frame(g))
         /\ d.cpu \in [Procs(g) -> [0..NbCpu - 1 -> Value]]
         /\ d.cpu[p] \in [0..NbCpu - 1 -> Value]
         /\ d.heap \in [Cell -> Value]
  BY DEF Data

\* Changing one register keeps the frame a frame.
LEMMA FrameExcept ==
  ASSUME NEW g, NEW fr \in Frame(g), NEW id \in DOMAIN fr.vals, NEW v \in Value
  PROVE  /\ SetRegister(fr, id, v) \in Frame(g)
         /\ SetRegister(fr, id, v).ret = fr.ret
         /\ DOMAIN SetRegister(fr, id, v).vals = DOMAIN fr.vals
<1>1. PICK f \in Func : fr.vals \in [0..g.regs[f] - 1 -> Value]
  BY DEF Frame
<1>2. [fr.vals EXCEPT ![id] = v] \in [0..g.regs[f] - 1 -> Value]
  BY <1>1
<1>3. QED
  BY <1>1, <1>2 DEF Frame, SetRegister

\* Replacing the frames of p.
LEMMA SetFramesParts ==
  ASSUME NEW g, NEW d \in Data(g), NEW p \in Procs(g), NEW fs \in Seq(Frame(g))
  PROVE  /\ SetFrames(d, p, fs) \in Data(g)
         /\ SetFrames(d, p, fs).cpu = d.cpu /\ SetFrames(d, p, fs).heap = d.heap
         /\ SetFrames(d, p, fs).frames[p] = fs
         /\ \A q \in Procs(g) \ {p} : SetFrames(d, p, fs).frames[q] = d.frames[q]
<1>1. d.frames \in [Procs(g) -> Seq(Frame(g))]
  BY DataParts
<1> DEFINE frames == [d.frames EXCEPT ![p] = fs]
<1>2. SetFrames(d, p, fs) = [frames |-> frames, cpu |-> d.cpu, heap |-> d.heap]
  <2> HIDE DEF frames
  <2>1. SetFrames(d, p, fs) = [d EXCEPT !.frames = frames]
    BY DEF SetFrames, frames
  <2>2. d = [frames |-> d.frames, cpu |-> d.cpu, heap |-> d.heap]
    BY DataParts
  <2>3. QED
    BY <2>1, <2>2
<1>3. frames \in [Procs(g) -> Seq(Frame(g))]
  BY <1>1
<1>4. SetFrames(d, p, fs) \in Data(g)
  <2> HIDE DEF frames
  <2>1. QED
    BY <1>2, <1>3, DataParts DEF Data
<1>5. QED
  BY <1>1, <1>2, <1>4

\* SetTop writes one register of the top frame of p.
LEMMA SetTopParts ==
  ASSUME NEW g, NEW d \in Data(g), NEW p \in Procs(g), d.frames[p] # <<>>,
         NEW id \in DOMAIN TopFrame(d, p).vals, NEW v \in Value
  PROVE  LET new == SetRegister(TopFrame(d, p), id, v)
             e   == SetTop(d, p, id, v)
         IN  /\ e \in Data(g)
             /\ e.cpu = d.cpu /\ e.heap = d.heap
             /\ \A q \in Procs(g) \ {p} : e.frames[q] = d.frames[q]
             /\ e.frames[p] = OverTop(d.frames[p], new)
             /\ new \in Frame(g) /\ TopFrame(d, p) \in Frame(g)
<1>1. d.frames[p] \in Seq(Frame(g))
  BY DataParts
<1>2. TopFrame(d, p) \in Frame(g)
  BY <1>1, FrontLast DEF TopFrame
<1>3. SetRegister(TopFrame(d, p), id, v) \in Frame(g)
  BY <1>2, FrameExcept
<1>4. OverTop(d.frames[p], SetRegister(TopFrame(d, p), id, v)) \in Seq(Frame(g))
  BY <1>1, <1>3, OverwriteLast DEF OverTop
<1>5. SetTop(d, p, id, v) = SetFrames(d, p, OverTop(d.frames[p], SetRegister(TopFrame(d, p), id, v)))
  BY DEF SetTop
<1>6. ASSUME NEW st \in Seq(Frame(g))
      PROVE  /\ SetFrames(d, p, st) \in Data(g)
             /\ SetFrames(d, p, st).cpu = d.cpu /\ SetFrames(d, p, st).heap = d.heap
             /\ SetFrames(d, p, st).frames[p] = st
             /\ \A q \in Procs(g) \ {p} : SetFrames(d, p, st).frames[q] = d.frames[q]
  BY SetFramesParts
<1>7. QED
  BY <1>2, <1>3, <1>4, <1>5, <1>6

\* Reading and writing registers.
LEMMA LookupType ==
  ASSUME NEW g, NEW d \in Data(g), NEW p \in Procs(g), NEW a \in Operand, Readable(d, p, a)
  PROVE  Lookup(d, p, a) \in Value
<1>1. CASE a.kind = "const"
  BY <1>1 DEF Lookup, Operand, Reg
<1>2. CASE a.kind = "local"
  <2>1. d.frames[p] # <<>> /\ a.id \in DOMAIN TopFrame(d, p).vals
    BY <1>2 DEF Readable, Present
  <2>2. TopFrame(d, p) \in Frame(g)
    BY <2>1, DataParts, FrontLast DEF TopFrame
  <2>3. PICK f \in Func : TopFrame(d, p).vals \in [0..g.regs[f] - 1 -> Value]
    BY <2>2 DEF Frame
  <2>4. TopFrame(d, p).vals[a.id] \in Value
    BY <2>1, <2>3
  <2>5. QED
    BY <1>2, <2>4 DEF Lookup
<1>3. CASE a.kind = "cpu"
  <2>1. a.id \in DOMAIN d.cpu[p]
    BY <1>3 DEF Readable, Present
  <2>2. d.cpu[p] \in [0..NbCpu - 1 -> Value]
    BY DataParts
  <2>3. d.cpu[p][a.id] \in Value
    BY <2>1, <2>2
  <2>4. QED
    BY <1>3, <2>3 DEF Lookup
<1>4. QED
  BY <1>1, <1>2, <1>3 DEF Operand, Reg

\* Writing a register that exists keeps the state well typed.
LEMMA SaveType ==
  ASSUME NEW g, NEW d \in Data(g), NEW p \in Procs(g), NEW r \in Reg, Present(d, p, r),
         NEW v \in Value
  PROVE  Save(d, p, r, v) \in Data(g)
<1>1. CASE r.kind = "local"
  BY <1>1, SetTopParts DEF Save, Present
<1>2. CASE r.kind # "local"
  <2>1. [d.cpu[p] EXCEPT ![r.id] = v] \in [0..NbCpu - 1 -> Value]
    BY DataParts
  <2>2. [d.cpu EXCEPT ![p] = [d.cpu[p] EXCEPT ![r.id] = v]] \in [Procs(g) -> [0..NbCpu - 1 -> Value]]
    BY <2>1, DataParts
  <2>3. QED
    BY <1>2, <2>2, DataParts DEF Save, SetCpu, Data
<1>3. QED
  BY <1>1, <1>2

\* The frame a call pushes has the registers of the callee.
LEMMA NewFrameType ==
  ASSUME NEW g \in VMPrograms, NEW f \in Func, NEW args \in Seq(Value),
         NEW r \in Reg \cup {NoReg}
  PROVE  /\ NewFrame(g, f, args, r) \in Frame(g)
         /\ NewFrame(g, f, args, r).vals \in [0..g.regs[f] - 1 -> Value]
         /\ NewFrame(g, f, args, r).ret = r
<1> DEFINE Val(id) == IF \E k \in 1..Len(args) : g.params[f][k] = id
                        THEN args[CHOOSE k \in 1..Len(args) : g.params[f][k] = id]
                        ELSE Zero
<1>1. ASSUME NEW id PROVE Val(id) \in Value
  <2>1. \A k \in 1..Len(args) : args[k] \in Value
    BY ElementOfSeq
  <2>2. QED
    BY <2>1, ValuesOK
<1>2. NewFrame(g, f, args, r) = [vals |-> [id \in 0..g.regs[f] - 1 |-> Val(id)], ret |-> r]
  BY DEF NewFrame
<1> HIDE DEF Val
<1>3. [id \in 0..g.regs[f] - 1 |-> Val(id)] \in [0..g.regs[f] - 1 -> Value]
  BY <1>1
<1>4. QED
  BY <1>2, <1>3 DEF Frame

-----------------------------------------------------------------------------
(* Types of the location stacks                                            *)

\* The stack operations of the Location CPA never empty a stack, and change one
\* process.
LEMMA LocParts ==
  ASSUME NEW g, NEW ls \in LocStacks(g), NEW p \in Procs(g), NEW l \in Location
  PROVE  /\ SetLocation(ls, p, l) \in LocStacks(g)
         /\ SetLocation(ls, p, l)[p] = OverTop(ls[p], l)
         /\ PushLocation(ls, p, l) \in LocStacks(g)
         /\ PushLocation(ls, p, l)[p] = Append(ls[p], l)
         /\ PopLocation(ls, p) \in LocStacks(g)
         /\ PopLocation(ls, p)[p] = IF Len(ls[p]) > 1 THEN Front(ls[p]) ELSE ls[p]
         /\ \A q \in Procs(g) \ {p} : /\ SetLocation(ls, p, l)[q] = ls[q]
                                      /\ PushLocation(ls, p, l)[q] = ls[q]
                                      /\ PopLocation(ls, p)[q] = ls[q]
<1>1. ls[p] \in Seq(Location) /\ ls[p] # <<>>
  BY DEF LocStacks
<1>2. OverTop(ls[p], l) \in Seq(Location) \ {<<>>}
  BY <1>1, OverwriteLast DEF OverTop
<1>3. Append(ls[p], l) \in Seq(Location) \ {<<>>}
  BY <1>1, AppendProperties
<1>4. ASSUME Len(ls[p]) > 1 PROVE Front(ls[p]) \in Seq(Location) \ {<<>>}
  <2>1. Front(ls[p]) \in Seq(Location) /\ Len(Front(ls[p])) = Len(ls[p]) - 1 /\ Len(ls[p]) \in Nat
    BY <1>1, FrontLast
  <2>2. QED
    BY <1>4, <2>1, EmptySeq
<1>5. QED
  BY <1>1, <1>2, <1>3, <1>4 DEF LocStacks, SetLocation, PushLocation, PopLocation
-----------------------------------------------------------------------------
(* Type correctness                                                        *)

\* TypeOK with the two location states as functions.
LEMMA TypeParts ==
  ASSUME TypeOK
  PROVE  /\ prog \in VMPrograms
         /\ locs \in LocStacks(prog) /\ nlocs \in LocStacks(prog)
         /\ data \in Data(prog) /\ ndata \in Data(prog)
  BY DEF TypeOK, LocStacks

\* While a transfer runs its process and edge exist, and so does the instruction
\* at pc.
LEMMA JobType ==
  ASSUME TypeOK, phase # "idle"
  PROVE  /\ job.proc \in Procs(prog)
         /\ job.edge \in prog.edges
         /\ job.edge \in Edge
         /\ Len(job.edge.instrs) \in Nat
         /\ pc \in Nat \ {0}
         /\ more => pc \in 1..Len(job.edge.instrs) /\ ins \in Instr
<1>1. prog \in VMPrograms /\ job \in [proc : Procs(prog), edge : prog.edges] /\ pc \in Nat \ {0}
  BY DEF TypeOK
<1>2. job.proc \in Procs(prog) /\ job.edge \in prog.edges
  BY <1>1
<1>3. job.edge \in Edge
  BY <1>1, <1>2 DEF VMPrograms
<1>4. job.edge.instrs \in Seq(Instr)
  BY <1>3 DEF Edge
<1>5. Len(job.edge.instrs) \in Nat
  BY <1>4, LenProperties
<1>6. more => pc \in 1..Len(job.edge.instrs)
  BY <1>1, <1>5 DEF more
<1>7. more => ins \in Instr
  BY <1>4, <1>6, ElementOfSeq DEF ins
<1>8. QED
  BY <1>1, <1>2, <1>3, <1>5, <1>6, <1>7

\* The parts of the instruction at pc.
LEMMA InsType ==
  ASSUME TypeOK, phase # "idle", more
  PROVE  /\ ins.op \in OpCode
         /\ ins.res \in Reg \cup {NoReg}
         /\ ins.args \in Seq(Operand)
         /\ ins.func \in Func
         /\ ins.table \in [Value \X Value -> Value]
         /\ ins.op # "Call" => Len(ins.args) = Arity[ins.op]
<1>1. ins \in Instr
  BY JobType
<1>2. QED
  BY <1>1 DEF Instr

\* Operands that can be read have values.
LEMMA ArgType ==
  ASSUME TypeOK, phase # "idle", more, ArgsReadable
  PROVE  /\ \A k \in 1..Len(ins.args) : Arg(k) \in Value
         /\ Args \in Seq(Value)
         /\ Len(Args) = Len(ins.args)
<1>1. ins.args \in Seq(Operand)
  BY InsType
<1>2. ASSUME NEW k \in 1..Len(ins.args) PROVE Arg(k) \in Value
  <2>1. ins.args[k] \in Operand
    BY <1>1, ElementOfSeq
  <2>2. Readable(ndata, job.proc, ins.args[k])
    BY DEF ArgsReadable
  <2>3. ndata \in Data(prog) /\ job.proc \in Procs(prog)
    BY TypeParts, JobType
  <2>4. QED
    BY <2>1, <2>2, <2>3, LookupType DEF Arg
<1>3. Len(ins.args) \in Nat
  BY <1>1, LenProperties
<1>4. Args = [k \in 1..Len(ins.args) |-> Arg(k)]
  BY DEF Args
<1>5. QED
  BY <1>2, <1>3, <1>4

\* The first operand of the instructions that have one.
LEMMA FirstArg ==
  ASSUME TypeOK, Running,
         ins.op \in {"Compute", "Assign", "Load", "LoadByte", "Store", "Ret"}
  PROVE  /\ Arg(1) \in Value
         /\ ins.op \in {"Compute", "Store"} => Arg(2) \in Value
<1>1. Len(ins.args) = Arity[ins.op] /\ ins.op \in OpCode
  BY InsType DEF Running
<1>2. \A k \in 1..Len(ins.args) : Arg(k) \in Value
  BY ArgType DEF Running, Defined
<1>3. CASE ins.op \in {"Compute", "Store"}
  <2>1. Len(ins.args) = 2
    BY <1>1, <1>3 DEF Arity
  <2>2. QED
    BY <1>2, <2>1
<1>4. CASE ins.op \in {"Assign", "Load", "LoadByte", "Ret"}
  <2>1. Len(ins.args) = 1
    BY <1>1, <1>4 DEF Arity
  <2>2. QED
    BY <1>2, <1>4, <2>1
<1>5. QED
  BY <1>3, <1>4

\* An instruction that goes on with well-typed data.
LEMMA ContinueType ==
  ASSUME TypeOK, phase = "data", NEW d \in Data(prog), Continue(d)
  PROVE  TypeOK'
<1>1. pc' \in Nat \ {0}
  BY JobType DEF Continue
<1>2. QED
  BY <1>1 DEF TypeOK, Continue, Procs

\* A transfer that ends with well-typed states.
LEMMA LeaveType ==
  ASSUME TypeOK, NEW o \in {"moved", "rejected", "raised"},
         NEW ls \in LocStacks(prog), NEW d \in Data(prog), Leave(o, ls, d)
  PROVE  TypeOK'
  BY DEF TypeOK, Leave, LocStacks

\* An instruction that writes its result register.
LEMMA WriteType ==
  ASSUME TypeOK, Running, ins.op \in Writes, NEW v \in Value, Write(v)
  PROVE  TypeOK'
<1>1. ndata \in Data(prog) /\ job.proc \in Procs(prog)
  BY TypeParts, JobType DEF Running
<1>2. ins.res \in Reg
  BY InsType DEF Running, Defined
<1>3. Present(ndata, job.proc, ins.res)
  BY DEF Running, Defined
<1>4. Save(ndata, job.proc, ins.res, v) \in Data(prog)
  BY <1>1, <1>2, <1>3, SaveType
<1>5. QED
  BY <1>4, ContinueType DEF Write, Running

\* Pushing and popping a frame change the frames of one process only.
LEMMA PushPopType ==
  ASSUME NEW g, NEW d \in Data(g), NEW p \in Procs(g)
  PROVE  /\ \A fr \in Frame(g) :
              /\ PushFrame(d, p, fr) \in Data(g)
              /\ PushFrame(d, p, fr).cpu = d.cpu /\ PushFrame(d, p, fr).heap = d.heap
              /\ PushFrame(d, p, fr).frames[p] = Append(d.frames[p], fr)
              /\ \A q \in Procs(g) \ {p} : PushFrame(d, p, fr).frames[q] = d.frames[q]
         /\ d.frames[p] # <<>> =>
              /\ PopFrame(d, p) \in Data(g)
              /\ PopFrame(d, p).cpu = d.cpu /\ PopFrame(d, p).heap = d.heap
              /\ PopFrame(d, p).frames[p] = Front(d.frames[p])
              /\ \A q \in Procs(g) \ {p} : PopFrame(d, p).frames[q] = d.frames[q]
<1>1. d.frames[p] \in Seq(Frame(g))
  BY DataParts
<1>2. ASSUME NEW fr \in Frame(g) PROVE Append(d.frames[p], fr) \in Seq(Frame(g))
  BY <1>1, AppendProperties
<1>3. ASSUME d.frames[p] # <<>> PROVE Front(d.frames[p]) \in Seq(Frame(g))
  BY <1>1, <1>3, FrontLast
<1>4. ASSUME NEW fr \in Frame(g)
      PROVE  /\ PushFrame(d, p, fr) \in Data(g)
             /\ PushFrame(d, p, fr).cpu = d.cpu /\ PushFrame(d, p, fr).heap = d.heap
             /\ PushFrame(d, p, fr).frames[p] = Append(d.frames[p], fr)
             /\ \A q \in Procs(g) \ {p} : PushFrame(d, p, fr).frames[q] = d.frames[q]
  <2>1. PICK st \in Seq(Frame(g)) : st = Append(d.frames[p], fr)
    BY <1>2
  <2>2. PushFrame(d, p, fr) = SetFrames(d, p, st)
    BY <2>1 DEF PushFrame
  <2>3. /\ SetFrames(d, p, st) \in Data(g)
        /\ SetFrames(d, p, st).cpu = d.cpu /\ SetFrames(d, p, st).heap = d.heap
        /\ SetFrames(d, p, st).frames[p] = st
        /\ \A q \in Procs(g) \ {p} : SetFrames(d, p, st).frames[q] = d.frames[q]
    BY SetFramesParts
  <2>4. QED
    BY <2>1, <2>2, <2>3
<1>5. ASSUME d.frames[p] # <<>>
      PROVE  /\ PopFrame(d, p) \in Data(g)
             /\ PopFrame(d, p).cpu = d.cpu /\ PopFrame(d, p).heap = d.heap
             /\ PopFrame(d, p).frames[p] = Front(d.frames[p])
             /\ \A q \in Procs(g) \ {p} : PopFrame(d, p).frames[q] = d.frames[q]
  BY <1>3, <1>5, SetFramesParts DEF PopFrame
<1>6. QED
  BY <1>4, <1>5

\* Type correctness of the transfer, for every set of programs: registers and heap
\* cells hold values, every process has a location, a running transfer has a
\* process and an edge of the program.
THEOREM TypeCorrect == Spec => []TypeOK
<1>1. Init => TypeOK
  <2> SUFFICES ASSUME Init PROVE TypeOK
    OBVIOUS
  <2>1. prog \in VMPrograms
    BY ProgramsOK DEF Init
  <2>2. \A p \in Procs(prog) : prog.entries[p] \in Func /\ prog.init[prog.entries[p]] \in Location
    BY <2>1, ElementOfSeq DEF VMPrograms, Procs
  <2>3. \A l \in Location : <<l>> \in Seq(Location) \ {<<>>}
    OBVIOUS
  <2>4. locs \in [Procs(prog) -> Seq(Location) \ {<<>>}]
    BY <2>2, <2>3 DEF Init
  <2>5. \A p \in Procs(prog) : NewFrame(prog, prog.entries[p], <<>>, NoReg) \in Frame(prog)
    <3>1. <<>> \in Seq(Value)
      OBVIOUS
    <3>2. QED
      BY <2>1, <2>2, <3>1, NewFrameType
  <2>6. \A fr \in Frame(prog) : <<fr>> \in Seq(Frame(prog))
    OBVIOUS
  <2>7. [id \in 0..NbCpu - 1 |-> Zero] \in [0..NbCpu - 1 -> Value]
    BY ValuesOK
  <2>8. data \in Data(prog)
    <3>1. PICK heap \in [Cell -> Value] :
            data = [ frames |-> [p \in Procs(prog) |-> <<NewFrame(prog, prog.entries[p], <<>>, NoReg)>>],
                     cpu    |-> [p \in Procs(prog) |-> [id \in 0..NbCpu - 1 |-> Zero]],
                     heap   |-> heap ]
      BY DEF Init
    <3>2. [p \in Procs(prog) |-> <<NewFrame(prog, prog.entries[p], <<>>, NoReg)>>] \in [Procs(prog) -> Seq(Frame(prog))]
      BY <2>5, <2>6
    <3>3. [p \in Procs(prog) |-> [id \in 0..NbCpu - 1 |-> Zero]] \in [Procs(prog) -> [0..NbCpu - 1 -> Value]]
      BY <2>7
    <3>4. QED
      BY <3>1, <3>2, <3>3 DEF Data
  <2>9. QED
    BY <2>1, <2>4, <2>8 DEF TypeOK, Init
<1>2. TypeOK /\ [Next]_vars => TypeOK'
  <2> SUFFICES ASSUME TypeOK, [Next]_vars PROVE TypeOK'
    OBVIOUS
  <2> USE TypeParts, JobType
  <2>1. CASE UNCHANGED vars
    BY <2>1 DEF TypeOK, vars
  <2>2. ASSUME NEW p \in Procs(prog), NEW e \in prog.edges, Mismatch(p, e) PROVE TypeOK'
    BY <2>2, LeaveType DEF Mismatch
  <2>3. ASSUME NEW p \in Procs(prog), NEW e \in prog.edges, Begin(p, e) PROVE TypeOK'
    <3>1. e.to \in Location
      BY DEF VMPrograms, Edge
    <3>2. nlocs' \in LocStacks(prog)
      BY <2>3, <3>1, LocParts DEF Begin
    <3>3. QED
      BY <2>3, <3>2 DEF TypeOK, Begin, LocStacks
  <2>4. CASE LocStep
    <3>1. pc' \in Nat \ {0}
      BY <2>4 DEF LocStep
    <3>2. ins.func \in Func
      BY <2>4, InsType DEF LocStep
    <3>3. prog.init[ins.func] \in Location
      BY <3>2 DEF VMPrograms
    <3>4. /\ PushLocation(nlocs, job.proc, prog.init[ins.func]) \in LocStacks(prog)
          /\ PopLocation(nlocs, job.proc) \in LocStacks(prog)
      BY <2>4, <3>3, LocParts DEF LocStep
    <3>5. nlocs' \in LocStacks(prog)
      BY <2>4, <3>4 DEF LocStep
    <3>6. QED
      BY <2>4, <3>1, <3>5 DEF TypeOK, LocStep, LocStacks
  <2>5. CASE LocDone
    BY <2>5 DEF TypeOK, LocDone
  <2>6. CASE Compute
    <3>1. ins.table[<<Arg(1), Arg(2)>>] \in Value
      BY <2>6, FirstArg, InsType DEF Compute, Running
    <3>2. QED
      BY <2>6, <3>1, WriteType DEF Compute, Writes
  <2>7. CASE Assign
    BY <2>7, FirstArg, WriteType DEF Assign, Writes
  <2>8. CASE NonDet
    BY <2>8, ValuesOK, WriteType DEF NonDet, Writes
  <2>9. CASE Skip
    BY <2>9, ContinueType DEF Skip, Running
  <2>10. CASE Check
    BY <2>10, ContinueType, LeaveType DEF Check, Running
  <2>11. CASE Load
    <3>1. Arg(1) \in Value
      BY <2>11, FirstArg DEF Load
    <3>2. \A a \in Cell : ndata.heap[a] \in Value
      BY DEF Data
    <3>3. PICK v \in Value : Write(v)
      BY <2>11, <3>1, <3>2 DEF Load
    <3>4. QED
      BY <2>11, <3>3, WriteType DEF Load, Writes
  <2>12. CASE Store
    <3>1. Arg(1) \in Value /\ Arg(2) \in Value
      BY <2>12, FirstArg DEF Store
    <3>2. ASSUME Arg(1) \in Cell
          PROVE  [ndata EXCEPT !.heap = [ndata.heap EXCEPT ![Arg(1)] = Arg(2)]] \in Data(prog)
      <4>1. [ndata.heap EXCEPT ![Arg(1)] = Arg(2)] \in [Cell -> Value]
        BY <3>1, <3>2, DataParts DEF Data
      <4>2. QED
        BY <4>1 DEF Data
    <3>3. QED
      BY <2>12, <3>2, ContinueType DEF Store, Running
  <2>13. CASE Call
    <3>1. NewFrame(prog, ins.func, Args, ins.res) \in Frame(prog)
      BY <2>13, ArgType, InsType, NewFrameType DEF Call, Running, Defined
    <3>2. PushFrame(ndata, job.proc, NewFrame(prog, ins.func, Args, ins.res)) \in Data(prog)
      BY <2>13, <3>1, PushPopType DEF Call, Running
    <3>3. QED
      BY <2>13, <3>2, ContinueType DEF Call, Running
  <2>14. CASE Ret
    <3> DEFINE p == job.proc
               d == PopFrame(ndata, p)
               r == TopFrame(ndata, p).ret
    <3>1. p \in Procs(prog) /\ ndata.frames[p] \in Seq(Frame(prog)) /\ Arg(1) \in Value
      BY <2>14, FirstArg, DataParts DEF Ret, Running
    <3>2. CanReturnValue(ndata, p)
      BY <2>14 DEF Ret, Running, Defined
    <3>3. Len(ndata.frames[p]) \in Nat /\ Len(ndata.frames[p]) > 1
      BY <3>1, <3>2, LenProperties DEF CanReturnValue
    <3>4. ndata.frames[p] # <<>>
      BY <3>3, EmptySeq
    <3>5. d \in Data(prog) /\ d.frames[p] = Front(ndata.frames[p])
      BY <3>1, <3>4, PushPopType
    <3>6. r.id \in DOMAIN TopFrame(d, p).vals /\ d.frames[p] # <<>>
      <4>1. Len(Front(ndata.frames[p])) = Len(ndata.frames[p]) - 1
            /\ Front(ndata.frames[p])[Len(ndata.frames[p]) - 1] = ndata.frames[p][Len(ndata.frames[p]) - 1]
        <5> DEFINE fs == ndata.frames[p]
        <5>1. fs \in Seq(Frame(prog)) /\ fs # <<>> /\ Len(fs) - 1 \in 1..Len(fs) - 1
          BY <3>1, <3>3, <3>4
        <5> HIDE DEF fs
        <5>2. Len(Front(fs)) = Len(fs) - 1 /\ \A k \in 1..Len(fs) - 1 : Front(fs)[k] = fs[k]
          BY <5>1, FrontLast
        <5>3. QED
          BY <5>1, <5>2 DEF fs
      <4>2. TopFrame(d, p) = ndata.frames[p][Len(ndata.frames[p]) - 1]
        BY <3>5, <4>1 DEF TopFrame, Last
      <4>3. r = ndata.frames[p][Len(ndata.frames[p])].ret
        BY DEF TopFrame, Last
      <4>4. ndata.frames[p][Len(ndata.frames[p])].ret.id
              \in DOMAIN ndata.frames[p][Len(ndata.frames[p]) - 1].vals
        BY <3>2 DEF CanReturnValue
      <4> HIDE DEF d, r, p
      <4>5. d.frames[p] # <<>>
        BY <3>3, <3>5, <4>1, EmptySeq
      <4>6. QED
        BY <4>2, <4>3, <4>4, <4>5
    <3>7. SetTop(d, p, r.id, Arg(1)) \in Data(prog)
      <4> HIDE DEF d, r, p
      <4>1. QED
        BY <3>1, <3>5, <3>6, SetTopParts
    <3>8. QED
      BY <2>14, <3>7, ContinueType DEF Ret, Running
  <2>15. CASE RetVoid
    <3>1. ndata.frames[job.proc] # <<>>
      BY <2>15 DEF RetVoid, Running, Defined
    <3>2. PopFrame(ndata, job.proc) \in Data(prog)
      BY <2>15, <3>1, PushPopType DEF RetVoid, Running
    <3>3. QED
      BY <2>15, <3>2, ContinueType DEF RetVoid, Running
  <2>16. CASE Throw
    BY <2>16, LeaveType DEF Throw
  <2>17. CASE Undefined
    BY <2>17 DEF TypeOK, Undefined
  <2>18. CASE Commit
    BY <2>18, LeaveType DEF Commit
  <2>19. QED
    BY <2>1, <2>2, <2>3, <2>4, <2>5, <2>6, <2>7, <2>8, <2>9, <2>10, <2>11, <2>12, <2>13,
       <2>14, <2>15, <2>16, <2>17, <2>18 DEF Next, DataStep
<1>3. QED
  BY <1>1, <1>2, PTL DEF Spec

-----------------------------------------------------------------------------
(* The invariant                                                           *)

\* The locations once the edge is taken, before and after its call or return.
Moved == SetLocation(locs, job.proc, job.edge.to)

Final ==
  IF IsCall(job.edge)
    THEN PushLocation(Moved, job.proc, prog.init[Last(job.edge.instrs).func])
    ELSE IF IsReturn(job.edge) THEN PopLocation(Moved, job.proc) ELSE Moved

\* Same heights, sizes and return registers; only the top has other values.
SameShape(new, old) ==
  /\ Len(new) = Len(old)
  /\ \A k \in 1..Len(old) : new[k].ret = old[k].ret /\ DOMAIN new[k].vals = DOMAIN old[k].vals
  /\ \A k \in 1..Len(old) - 1 : new[k] = old[k]

\* Frames vals for the call, its arguments evaluated in the caller.
Received(g, d, p, call, vals) ==
  \A id \in DOMAIN vals :
    \/ vals[id] = Zero /\ \A k \in 1..Len(call.args) : g.params[call.func][k] # id
    \/ \E k \in 1..Len(call.args) :
         g.params[call.func][k] = id /\ vals[id] = Lookup(d, p, call.args[k])

Called(g, call, d, nd, p) ==
  /\ nd.cpu = d.cpu /\ nd.heap = d.heap
  /\ \E vals \in [0..g.regs[call.func] - 1 -> Value] :
       /\ nd.frames[p] = Append(d.frames[p], [vals |-> vals, ret |-> call.res])
       /\ Received(g, d, p, call, vals)

Returned(op, old, new) ==
  LET n == Len(old) IN
    /\ Len(new) = n - 1
    /\ \A k \in 1..n - 2 : new[k] = old[k]
    /\ n > 1 => IF op = "RetVoid" THEN new[n - 1] = old[n - 1]
                ELSE \E v \in Value : new[n - 1] = SetRegister(old[n - 1], old[n].ret.id, v)

\* What the Concrete CPA has done of the edge so far.
Progress ==
  LET p     == job.proc
      e     == job.edge
      ended == pc > Len(e.instrs)
  IN
    /\ \A q \in Procs(prog) \ {p} : ndata.frames[q] = data.frames[q] /\ ndata.cpu[q] = data.cpu[q]
    /\ pc = 1 => ndata = data
    /\ ~ended \/ ~(IsCall(e) \/ IsReturn(e)) => SameShape(ndata.frames[p], data.frames[p])
    /\ ended /\ IsCall(e) => Called(prog, Last(e.instrs), data, ndata, p)
    /\ ended /\ IsReturn(e) => Returned(Last(e.instrs).op, data.frames[p], ndata.frames[p])

UnderWay ==
  /\ job.edge.from = Last(locs[job.proc])
  /\ pc <= Len(job.edge.instrs) + 1

StackInv ==
  /\ phase # "undefined"
  /\ \A q \in Procs(prog) : Agree(prog, locs[q], data.frames[q])
  /\ \A q \in Procs(prog) : prog.owner[locs[q][1]] = prog.entries[q]
  /\ phase \in {"idle", "loc"} => ndata = data
  /\ phase \in {"loc", "data"} => UnderWay
  /\ phase = "loc" => nlocs = IF pc <= Len(job.edge.instrs) THEN Moved ELSE Final
  /\ phase = "data" => nlocs = Final /\ Progress

Inv == TypeOK /\ (Disciplined(prog) => StackInv)

-----------------------------------------------------------------------------
(* Programs                                                                *)

\* What a disciplined program guarantees of an edge.
LEMMA EdgeFacts ==
  ASSUME NEW g \in VMPrograms, Disciplined(g), NEW e \in g.edges
  PROVE  /\ e.from \in Location /\ e.to \in Location
         /\ e.instrs \in Seq(Instr) /\ Len(e.instrs) \in Nat
         /\ g.owner[e.to] = g.owner[e.from]
         /\ \A i \in 1..Len(e.instrs) :
              /\ e.instrs[i] \in Instr
              /\ WellTyped(g, g.owner[e.from], e.instrs[i])
              /\ e.instrs[i].op \in StackOps => i = Len(e.instrs)
              /\ e.instrs[i].op = "Call" => i = 1
         /\ e.instrs # <<>> => Last(e.instrs) = e.instrs[Len(e.instrs)] /\ Len(e.instrs) > 0
         /\ ~(IsCall(e) /\ IsReturn(e))
<1>1. e \in Edge
  BY DEF VMPrograms
<1>2. e.from \in Location /\ e.to \in Location /\ e.instrs \in Seq(Instr)
  BY <1>1 DEF Edge
<1>3. Len(e.instrs) \in Nat /\ \A i \in 1..Len(e.instrs) : e.instrs[i] \in Instr
  BY <1>2, LenProperties, ElementOfSeq
<1>4. /\ g.owner[e.to] = g.owner[e.from]
      /\ StackOpsLast(e)
      /\ \A i \in 1..Len(e.instrs) : WellTyped(g, g.owner[e.from], e.instrs[i])
  BY DEF Disciplined, WellFormed
<1>5. e.instrs # <<>> => Last(e.instrs) = e.instrs[Len(e.instrs)] /\ Len(e.instrs) > 0
  <2>1. PICK s \in Seq(Instr) : s = e.instrs
    BY <1>2
  <2>2. s # <<>> => Last(s) = s[Len(s)] /\ Len(s) \in Nat \ {0}
    BY FrontLast
  <2>3. QED
    BY <2>1, <2>2
<1>6. ~(IsCall(e) /\ IsReturn(e))
  BY DEF IsCall, IsReturn
<1>7. QED
  BY <1>2, <1>3, <1>4, <1>5, <1>6 DEF StackOpsLast

\* Stacks of one height, frames sized and linked as Agree requires.
Paired(g, ls, fs) ==
  /\ Len(fs) = Len(ls)
  /\ \A k \in 1..Len(ls) : DOMAIN fs[k].vals = 0..g.regs[g.owner[ls[k]]] - 1
  /\ \A k \in 2..Len(ls) : CalledFrom(g, ls[k - 1], ls[k], fs[k].ret)

\* ls2 and fs2 are the lowest n activations of ls and fs, with other values
\* perhaps, and the last of them perhaps at another location of its function.
Resembles(g, n, ls2, fs2, ls, fs) ==
  /\ n \in 1..Len(ls) /\ Len(ls2) = n /\ Len(fs2) = n
  /\ \A k \in 1..n : /\ g.owner[ls2[k]] = g.owner[ls[k]]
                    /\ DOMAIN fs2[k].vals = DOMAIN fs[k].vals
                    /\ fs2[k].ret = fs[k].ret
  /\ \A k \in 1..n - 1 : ls2[k] = ls[k]

\* A location that edges leave has a frame.
LEMMA AgreeRunning ==
  ASSUME NEW g, NEW ls, NEW fs, Agree(g, ls, fs),
         NEW e \in g.edges, e.from = Last(ls)
  PROVE  Paired(g, ls, fs)
<1>1. CASE Len(ls) = 1 /\ fs = <<>> /\ \A c \in g.edges : c.from # ls[1]
  BY <1>1 DEF Last
<1>2. QED
  BY <1>1 DEF Agree, Paired

\* Stacks agree when they resemble, up to some height, stacks that do.
LEMMA AgreePrefix ==
  ASSUME NEW g, NEW ls, NEW fs, NEW ls2, NEW fs2, NEW n,
         Len(ls) \in Nat, Paired(g, ls, fs), Resembles(g, n, ls2, fs2, ls, fs)
  PROVE  Agree(g, ls2, fs2)
<1>1. \A k \in 1..Len(ls2) : DOMAIN fs2[k].vals = 0..g.regs[g.owner[ls2[k]]] - 1
  BY DEF Paired, Resembles
<1>2. ASSUME NEW k \in 2..Len(ls2) PROVE CalledFrom(g, ls2[k - 1], ls2[k], fs2[k].ret)
  <2>1. k \in 2..Len(ls) /\ k - 1 \in 1..n - 1 /\ k \in 1..n
    BY DEF Resembles
  <2>2. CalledFrom(g, ls[k - 1], ls[k], fs[k].ret)
    BY <2>1 DEF Paired
  <2>3. ls2[k - 1] = ls[k - 1] /\ g.owner[ls2[k]] = g.owner[ls[k]] /\ fs2[k].ret = fs[k].ret
    BY <2>1 DEF Resembles
  <2>4. QED
    BY <2>2, <2>3 DEF CalledFrom
<1>3. QED
  BY <1>1, <1>2 DEF Agree, Resembles

\* A call puts one activation on stacks that agree.
LEMMA AgreePush ==
  ASSUME NEW g, NEW ls \in Seq(Location), NEW S, NEW fs \in Seq(S), ls # <<>>,
         Agree(g, ls, fs), Len(fs) = Len(ls),
         NEW e \in g.edges, IsCall(e), e.to = Last(ls),
         NEW loc \in Location, g.owner[loc] = Last(e.instrs).func,
         NEW fr \in S, fr.ret = Last(e.instrs).res,
         DOMAIN fr.vals = 0..g.regs[Last(e.instrs).func] - 1
  PROVE  Agree(g, Append(ls, loc), Append(fs, fr))
<1> DEFINE ls2 == Append(ls, loc)
           fs2 == Append(fs, fr)
           n   == Len(ls)
<1>1. n \in Nat \ {0} /\ Last(ls) = ls[n]
  BY FrontLast
<1>2. /\ Len(ls2) = n + 1 /\ Len(fs2) = n + 1
      /\ \A k \in 1..n : ls2[k] = ls[k] /\ fs2[k] = fs[k]
      /\ ls2[n + 1] = loc /\ fs2[n + 1] = fr
  BY <1>1, AppendProperties
<1>3. /\ \A k \in 1..n : DOMAIN fs[k].vals = 0..g.regs[g.owner[ls[k]]] - 1
      /\ \A k \in 2..n : CalledFrom(g, ls[k - 1], ls[k], fs[k].ret)
  BY <1>1, EmptySeq DEF Agree
<1> HIDE DEF ls2, fs2, n
<1>4. ASSUME NEW k \in 1..n + 1 PROVE DOMAIN fs2[k].vals = 0..g.regs[g.owner[ls2[k]]] - 1
  <2>1. CASE k = n + 1
    BY <1>2, <2>1
  <2>2. CASE k # n + 1
    <3>1. k \in 1..n
      BY <1>1, <2>2
    <3>2. QED
      BY <1>2, <1>3, <3>1
  <2>3. QED
    BY <2>1, <2>2
<1>5. ASSUME NEW k \in 2..n + 1 PROVE CalledFrom(g, ls2[k - 1], ls2[k], fs2[k].ret)
  <2>1. CASE k = n + 1
    <3>1. ls2[k - 1] = e.to /\ ls2[k] = loc /\ fs2[k] = fr
      BY <1>1, <1>2, <2>1
    <3>2. QED
      BY <3>1 DEF CalledFrom
  <2>2. CASE k # n + 1
    <3>1. k \in 2..n /\ k \in 1..n /\ k - 1 \in 1..n
      BY <1>1, <2>2
    <3>2. QED
      BY <1>2, <1>3, <3>1
  <2>3. QED
    BY <2>1, <2>2
<1>6. Agree(g, ls2, fs2)
  BY <1>2, <1>4, <1>5 DEF Agree
<1>7. QED
  BY <1>6 DEF ls2, fs2

-----------------------------------------------------------------------------
(* A transfer under way                                                    *)

\* The process of a running transfer has a frame and stands at the start of the
\* edge.
LEMMA JobFacts ==
  ASSUME Inv, Disciplined(prog), phase \in {"loc", "data"}
  PROVE  LET p  == job.proc
             e  == job.edge
             ls == locs[p]
             fs == data.frames[p]
         IN  /\ ls \in Seq(Location) /\ fs \in Seq(Frame(prog)) /\ fs # <<>>
             /\ Len(ls) \in Nat \ {0} /\ Len(fs) = Len(ls)
             /\ Last(ls) = ls[Len(ls)] /\ e.from = ls[Len(ls)]
             /\ Last(fs) = fs[Len(ls)]
             /\ Paired(prog, ls, fs)
             /\ prog.owner[ls[1]] = prog.entries[p]
<1> DEFINE p  == job.proc
           e  == job.edge
           ls == locs[p]
           fs == data.frames[p]
<1>1. TypeOK /\ StackInv
  BY DEF Inv
<1>2. p \in Procs(prog) /\ e \in prog.edges
  BY <1>1, JobType
<1>3. ls \in Seq(Location) /\ ls # <<>>
  BY <1>1, <1>2, TypeParts DEF LocStacks
<1>4. fs \in Seq(Frame(prog))
  BY <1>1, <1>2, TypeParts, DataParts
<1>5. e.from = Last(ls)
  BY <1>1 DEF StackInv, UnderWay
<1>6. Agree(prog, ls, fs) /\ prog.owner[ls[1]] = prog.entries[p]
  BY <1>1, <1>2 DEF StackInv
<1> HIDE DEF p, e, ls, fs
<1>7. Len(ls) \in Nat \ {0} /\ Last(ls) = ls[Len(ls)]
  BY <1>3, FrontLast
<1>8. Paired(prog, ls, fs) /\ Len(fs) = Len(ls)
  BY <1>2, <1>5, <1>6, AgreeRunning DEF Paired
<1>9. fs # <<>> /\ Last(fs) = fs[Len(ls)]
  BY <1>4, <1>7, <1>8, EmptySeq, FrontLast
<1>10. QED
  BY <1>3, <1>4, <1>5, <1>6, <1>7, <1>8, <1>9 DEF p, e, ls, fs

\* Until the stack instruction the working copy has the frames it started with.
LEMMA WorkFacts ==
  ASSUME Inv, Disciplined(prog), phase = "data", more
  PROVE  LET p  == job.proc
             fs == data.frames[p]
             nf == ndata.frames[p]
             n  == Len(locs[p])
         IN  /\ nf \in Seq(Frame(prog)) /\ nf # <<>> /\ Len(nf) = n
             /\ Last(nf) = nf[n]
             /\ \A k \in 1..n : nf[k].ret = fs[k].ret /\ DOMAIN nf[k].vals = DOMAIN fs[k].vals
             /\ \A k \in 1..n - 1 : nf[k] = fs[k]
<1> DEFINE p  == job.proc
           fs == data.frames[p]
           nf == ndata.frames[p]
           n  == Len(locs[p])
<1>1. TypeOK /\ StackInv
  BY DEF Inv
<1>2. p \in Procs(prog) /\ pc \in Nat /\ Len(job.edge.instrs) \in Nat
  BY <1>1, JobType
<1>3. SameShape(nf, fs)
  BY <1>1, <1>2 DEF StackInv, Progress, more
<1>4. Len(fs) = n /\ n \in Nat \ {0}
  BY JobFacts
<1>5. nf \in Seq(Frame(prog))
  BY <1>1, <1>2, TypeParts, DataParts
<1> HIDE DEF nf, fs, n, p
<1>6. nf # <<>> /\ Last(nf) = nf[n]
  BY <1>3, <1>4, <1>5, EmptySeq, FrontLast DEF SameShape
<1>7. QED
  BY <1>3, <1>4, <1>5, <1>6 DEF SameShape, nf, fs, n, p

\* The registers an instruction may name exist.
LEMMA ScopePresent ==
  ASSUME Inv, Disciplined(prog), phase = "data", more,
         NEW r \in Reg, InScope(prog, prog.owner[job.edge.from], r)
  PROVE  Present(ndata, job.proc, r)
<1> DEFINE p == job.proc
           n == Len(locs[p])
<1>1. p \in Procs(prog) /\ ndata \in Data(prog)
  BY TypeParts, JobType DEF Inv
<1>2. r.id \in Nat
  BY DEF Reg
<1>3. CASE r.kind = "local"
  <2>1. r.id < prog.regs[prog.owner[job.edge.from]]
    BY <1>3 DEF InScope
  <2> DEFINE old == data.frames[p]
             new == ndata.frames[p]
             ls  == locs[p]
  <2>2. /\ n \in Nat \ {0} /\ job.edge.from = ls[n]
        /\ \A k \in 1..n : DOMAIN old[k].vals = 0..prog.regs[prog.owner[ls[k]]] - 1
    BY JobFacts DEF Paired
  <2>3. /\ new # <<>> /\ TopFrame(ndata, p) = new[n]
        /\ \A k \in 1..n : DOMAIN new[k].vals = DOMAIN old[k].vals
    BY WorkFacts DEF TopFrame
  <2>4. prog.regs[prog.owner[job.edge.from]] \in Nat
    <3>1. prog \in VMPrograms /\ job.edge \in Edge
      BY TypeParts, JobType DEF Inv
    <3>2. prog.owner[job.edge.from] \in Func
      BY <3>1 DEF VMPrograms, Edge
    <3>3. QED
      BY <3>1, <3>2 DEF VMPrograms
  <2>5. r.id \in DOMAIN new[n].vals
    <3> HIDE DEF new, old, ls, n
    <3>1. n \in 1..n
      BY <2>2
    <3>2. DOMAIN new[n].vals = 0..prog.regs[prog.owner[job.edge.from]] - 1
      BY <2>2, <2>3, <3>1
    <3>3. QED
      BY <1>2, <2>1, <2>4, <3>2
  <2>6. QED
    BY <1>3, <2>3, <2>5 DEF Present
<1>4. CASE r.kind # "local"
  <2>1. r.id < NbCpu
    BY <1>4 DEF InScope
  <2>2. DOMAIN ndata.cpu[p] = 0..NbCpu - 1
    BY <1>1, DataParts
  <2>3. QED
    BY <1>2, <1>4, <2>1, <2>2, NbCpuOK DEF Present
<1>5. QED
  BY <1>3, <1>4

\* The instruction at pc.
LEMMA InsFacts ==
  ASSUME Inv, Disciplined(prog), phase \in {"loc", "data"}, more
  PROVE  /\ WellTyped(prog, prog.owner[job.edge.from], ins)
         /\ ins.op \in StackOps => pc = Len(job.edge.instrs) /\ ins = Last(job.edge.instrs)
         /\ ins.op = "Call" => pc = 1
         /\ pc = Len(job.edge.instrs) => ins = Last(job.edge.instrs)
         /\ job.edge.instrs # <<>>
         /\ ins.op = "Call" <=> pc = Len(job.edge.instrs) /\ IsCall(job.edge)
         /\ ins.op \in {"Ret", "RetVoid"} <=> pc = Len(job.edge.instrs) /\ IsReturn(job.edge)
<1>1. prog \in VMPrograms /\ job.edge \in prog.edges /\ pc \in 1..Len(job.edge.instrs)
  BY TypeParts, JobType DEF Inv
<1> DEFINE s == job.edge.instrs
<1>2. /\ s \in Seq(Instr) /\ Len(s) \in Nat
      /\ WellTyped(prog, prog.owner[job.edge.from], s[pc])
      /\ s[pc].op \in StackOps => pc = Len(s)
      /\ s[pc].op = "Call" => pc = 1
      /\ s # <<>> => Last(s) = s[Len(s)]
  BY <1>1, EdgeFacts
<1>3. s # <<>>
  BY <1>1, <1>2, EmptySeq
<1>4. ins = s[pc]
  BY DEF ins
<1>5. QED
  BY <1>2, <1>3, <1>4 DEF StackOps, IsCall, IsReturn

\* The caller of a function that returns a value gave it a register of its own.
LEMMA CallerKnown ==
  ASSUME Inv, Disciplined(prog), phase = "data",
         job.edge.instrs # <<>>, Last(job.edge.instrs).op = "Ret"
  PROVE  LET p  == job.proc
             n  == Len(locs[p])
             fs == data.frames[p]
         IN  n > 1 /\ fs[n].ret # NoReg /\ fs[n].ret.id \in DOMAIN fs[n - 1].vals
<1> DEFINE p  == job.proc
           e  == job.edge
           n  == Len(locs[p])
           f  == prog.owner[e.from]
           fs == data.frames[p]
<1>1. p \in Procs(prog) /\ e \in prog.edges /\ prog \in VMPrograms
  BY TypeParts, JobType DEF Inv
<1>2. e.instrs # <<>> /\ Last(e.instrs).op = "Ret"
  OBVIOUS
<1>3. /\ \A q \in Procs(prog) : prog.entries[q] # f
      /\ \A c \in prog.edges : IsCall(c) /\ Last(c.instrs).func = f =>
           LET r == Last(c.instrs).res
           IN  r # NoReg /\ r.kind = "local" /\ InScope(prog, prog.owner[c.from], r)
  BY <1>1, <1>2 DEF Disciplined, ReturnsReceived
<1>4. /\ n \in Nat \ {0} /\ e.from = locs[p][n]
      /\ \A k \in 1..n : DOMAIN fs[k].vals = 0..prog.regs[prog.owner[locs[p][k]]] - 1
      /\ \A k \in 2..n : CalledFrom(prog, locs[p][k - 1], locs[p][k], fs[k].ret)
      /\ prog.owner[locs[p][1]] = prog.entries[p]
      /\ locs[p] \in Seq(Location)
  BY JobFacts DEF Paired
<1>5. n > 1
  BY <1>1, <1>3, <1>4
<1>6. PICK c \in prog.edges : /\ IsCall(c) /\ c.to = locs[p][n - 1]
                              /\ Last(c.instrs).func = f
                              /\ Last(c.instrs).res = fs[n].ret
  <2>1. n \in 2..n /\ prog.owner[locs[p][n]] = f
    BY <1>4, <1>5
  <2>2. CalledFrom(prog, locs[p][n - 1], locs[p][n], fs[n].ret)
    BY <1>4, <2>1
  <2> HIDE DEF p, n, f, fs
  <2>3. QED
    BY <2>1, <2>2 DEF CalledFrom
<1>7. fs[n].ret # NoReg /\ fs[n].ret.kind = "local" /\ InScope(prog, prog.owner[c.from], fs[n].ret)
  BY <1>3, <1>6
<1>8. prog.owner[c.from] = prog.owner[locs[p][n - 1]]
  BY <1>1, <1>6, EdgeFacts
<1>9. fs[n].ret.id \in Nat
  <2>1. c.instrs # <<>> /\ c.instrs \in Seq(Instr)
    BY <1>1, <1>6, EdgeFacts DEF IsCall
  <2>2. Last(c.instrs) \in Instr
    BY <2>1, FrontLast
  <2>3. Last(c.instrs).res \in Reg \cup {NoReg}
    BY <2>2 DEF Instr
  <2>4. QED
    BY <1>6, <1>7, <2>3 DEF Reg
<1>10. prog.regs[prog.owner[locs[p][n - 1]]] \in Nat
  <2>1. locs[p][n - 1] \in Location
    BY <1>4, <1>5, ElementOfSeq
  <2>2. prog.owner[locs[p][n - 1]] \in Func
    BY <1>1, <2>1 DEF VMPrograms
  <2>3. QED
    BY <1>1, <2>2 DEF VMPrograms
<1>11. fs[n].ret.id \in DOMAIN fs[n - 1].vals
  <2>1. fs[n].ret.id < prog.regs[prog.owner[locs[p][n - 1]]]
    BY <1>7, <1>8 DEF InScope
  <2>2. n - 1 \in 1..n
    BY <1>4, <1>5
  <2>3. DOMAIN fs[n - 1].vals = 0..prog.regs[prog.owner[locs[p][n - 1]]] - 1
    BY <1>4, <2>2
  <2> HIDE DEF n, p, fs
  <2>4. QED
    BY <1>9, <1>10, <2>1, <2>3
<1>12. QED
  BY <1>5, <1>7, <1>11

\* A return of a value finds that register.
LEMMA ReturnFindsCaller ==
  ASSUME Inv, Disciplined(prog), phase = "data", more, ins.op = "Ret"
  PROVE  CanReturnValue(ndata, job.proc)
<1> DEFINE p  == job.proc
           n  == Len(locs[p])
           fs == data.frames[p]
<1>1. job.edge.instrs # <<>> /\ Last(job.edge.instrs).op = "Ret"
  BY InsFacts DEF StackOps
<1>2. n > 1 /\ fs[n].ret # NoReg /\ fs[n].ret.id \in DOMAIN fs[n - 1].vals
  BY <1>1, CallerKnown
<1>3. n \in Nat
  BY JobFacts
<1>4. /\ Len(ndata.frames[p]) = n
      /\ ndata.frames[p][n].ret = fs[n].ret
      /\ ndata.frames[p][n - 1] = fs[n - 1]
  <2>1. /\ Len(ndata.frames[p]) = n
        /\ \A k \in 1..n : ndata.frames[p][k].ret = fs[k].ret
        /\ \A k \in 1..n - 1 : ndata.frames[p][k] = fs[k]
    BY WorkFacts
  <2>2. n \in 1..n /\ n - 1 \in 1..n - 1
    BY <1>2, <1>3
  <2> HIDE DEF n, p, fs
  <2>3. QED
    BY <2>1, <2>2
<1> HIDE DEF n, p, fs
<1>5. QED
  BY <1>2, <1>4 DEF CanReturnValue, p

\* The next instruction of a disciplined program stays within its frames.
LEMMA StaysDefined ==
  ASSUME Inv, Disciplined(prog), phase = "data", more
  PROVE  Defined
<1> DEFINE f == prog.owner[job.edge.from]
<1>1. WellTyped(prog, f, ins)
  BY InsFacts
<1>2. TypeOK /\ prog \in VMPrograms
  BY TypeParts DEF Inv
<1>3. ins.res \in Reg \cup {NoReg} /\ ins.args \in Seq(Operand) /\ ins.func \in Func
  BY <1>2, InsType
<1>4. ASSUME NEW k \in 1..Len(ins.args) PROVE Readable(ndata, job.proc, ins.args[k])
  <2>1. ins.args[k] \in Operand
    BY <1>3, ElementOfSeq
  <2>2. CASE ins.args[k].kind = "const"
    BY <2>2 DEF Readable
  <2>3. CASE ins.args[k].kind # "const"
    <3>1. ins.args[k] \in Reg
      BY <2>1, <2>3 DEF Operand
    <3>2. InScope(prog, f, ins.args[k])
      BY <1>1, <2>3 DEF WellTyped
    <3>3. QED
      BY <3>1, <3>2, ScopePresent DEF Readable
  <2>4. QED
    BY <2>2, <2>3
<1>5. ASSUME ins.op \in Writes PROVE ins.res # NoReg /\ Present(ndata, job.proc, ins.res)
  <2>1. ins.res # NoReg /\ InScope(prog, f, ins.res)
    BY <1>1, <1>5 DEF WellTyped
  <2>2. QED
    BY <1>3, <2>1, ScopePresent
<1>6. ASSUME ins.op = "Call"
      PROVE  /\ Len(ins.args) >= Len(prog.params[ins.func])
             /\ \A k \in 1..Len(prog.params[ins.func]) : prog.params[ins.func][k] < prog.regs[ins.func]
  <2>1. Len(ins.args) = Len(prog.params[ins.func])
    BY <1>1, <1>6 DEF WellTyped
  <2>2. Len(ins.args) \in Nat
    BY <1>3, LenProperties
  <2>3. QED
    BY <1>3, <2>1, <2>2 DEF Disciplined, WellFormed
<1>7. ndata.frames[job.proc] # <<>>
  BY WorkFacts
<1>8. QED
  BY <1>4, <1>5, <1>6, <1>7, ReturnFindsCaller DEF Defined, ArgsReadable

-----------------------------------------------------------------------------
(* The locations a transfer ends in                                        *)

\* The locations a transfer ends in: the others' are as before, those of its
\* process have e.to on top, under the callee's initial location after a call.
LEMMA FinalLocs ==
  ASSUME Inv, Disciplined(prog), phase \in {"loc", "data"}
  PROVE  LET p    == job.proc
             e    == job.edge
             base == OverTop(locs[p], e.to)
             n    == Len(locs[p])
         IN  /\ base \in Seq(Location) /\ base # <<>> /\ Len(base) = n
             /\ base[n] = e.to /\ Last(base) = e.to
             /\ \A k \in 1..n - 1 : base[k] = locs[p][k]
             /\ Front(base) = Front(locs[p])
             /\ Moved \in LocStacks(prog)
             /\ Final[p] = IF IsCall(e) THEN Append(base, prog.init[Last(e.instrs).func])
                           ELSE IF IsReturn(e) /\ n > 1 THEN Front(base) ELSE base
             /\ \A q \in Procs(prog) \ {p} : Final[q] = locs[q]
             /\ IsCall(e) => /\ Last(e.instrs).func \in Func
                             /\ Last(e.instrs).res \in Reg \cup {NoReg}
                             /\ prog.init[Last(e.instrs).func] \in Location
                             /\ prog.owner[prog.init[Last(e.instrs).func]] = Last(e.instrs).func
<1> DEFINE p    == job.proc
           e    == job.edge
           base == OverTop(locs[p], e.to)
           n    == Len(locs[p])
           f    == Last(e.instrs).func
<1>1. /\ prog \in VMPrograms /\ locs \in LocStacks(prog)
      /\ p \in Procs(prog) /\ e \in prog.edges /\ e.to \in Location
  BY TypeParts, JobType DEF Inv, Edge
<1>2. locs[p] \in Seq(Location) /\ locs[p] # <<>>
  BY <1>1 DEF LocStacks
<1>3. /\ base \in Seq(Location) /\ base # <<>> /\ Len(base) = n
      /\ base[n] = e.to /\ Last(base) = e.to
      /\ \A k \in 1..n - 1 : base[k] = locs[p][k]
      /\ Front(base) = Front(locs[p])
  <2> DEFINE ls == locs[p]
             x  == e.to
  <2>1. ls \in Seq(Location) /\ ls # <<>> /\ x \in Location
    BY <1>1, <1>2
  <2>2. base = OverTop(ls, x) /\ n = Len(ls)
    OBVIOUS
  <2> HIDE DEF ls, x, base, n
  <2>3. /\ OverTop(ls, x) \in Seq(Location) /\ OverTop(ls, x) # <<>>
        /\ Len(OverTop(ls, x)) = Len(ls)
        /\ OverTop(ls, x)[Len(ls)] = x
        /\ \A k \in 1..Len(ls) - 1 : OverTop(ls, x)[k] = ls[k]
        /\ Front(OverTop(ls, x)) = Front(ls) /\ Last(OverTop(ls, x)) = x
    BY <2>1, OverTopFacts
  <2>4. QED
    BY <2>2, <2>3 DEF ls, x
<1>4. /\ Moved \in LocStacks(prog) /\ Moved[p] = base
      /\ \A q \in Procs(prog) \ {p} : Moved[q] = locs[q]
  <2>1. Moved = SetLocation(locs, p, e.to)
    BY DEF Moved
  <2> HIDE DEF p, e, Moved
  <2>2. SetLocation(locs, p, e.to) \in LocStacks(prog) /\ SetLocation(locs, p, e.to)[p] = OverTop(locs[p], e.to)
    BY <1>1, LocParts
  <2>3. \A q \in Procs(prog) \ {p} : SetLocation(locs, p, e.to)[q] = locs[q]
    BY <1>1 DEF SetLocation, LocStacks
  <2>4. QED
    BY <2>1, <2>2, <2>3
<1>5. ASSUME IsCall(e)
      PROVE  /\ f \in Func /\ Last(e.instrs).res \in Reg \cup {NoReg}
             /\ prog.init[f] \in Location /\ prog.owner[prog.init[f]] = f
  <2>1. e.instrs \in Seq(Instr) /\ e.instrs # <<>>
    BY <1>1, <1>5, EdgeFacts DEF IsCall
  <2>2. Last(e.instrs) \in Instr
    BY <2>1, FrontLast
  <2>3. f \in Func /\ Last(e.instrs).res \in Reg \cup {NoReg}
    BY <2>2 DEF Instr
  <2>4. QED
    BY <1>1, <2>3 DEF VMPrograms, Disciplined, WellFormed
<1> HIDE DEF p, e, base, n, f
<1>6. CASE IsCall(e)
  <2>1. Final = PushLocation(Moved, p, prog.init[f])
    BY <1>6 DEF Final, p, e, f
  <2>2. /\ Final[p] = Append(Moved[p], prog.init[f])
        /\ \A q \in Procs(prog) \ {p} : Final[q] = Moved[q]
    BY <1>1, <1>4, <2>1 DEF PushLocation, LocStacks
  <2>3. Final[p] = Append(base, prog.init[f]) /\ \A q \in Procs(prog) \ {p} : Final[q] = locs[q]
    BY <1>4, <2>2
  <2>4. QED
    BY <1>3, <1>4, <1>5, <1>6, <2>3 DEF p, e, base, n, f
<1>7. CASE ~IsCall(e) /\ IsReturn(e)
  <2>1. Final = PopLocation(Moved, p)
    BY <1>7 DEF Final, p, e
  <2>2. /\ Final[p] = IF Len(Moved[p]) > 1 THEN Front(Moved[p]) ELSE Moved[p]
        /\ \A q \in Procs(prog) \ {p} : Final[q] = Moved[q]
    BY <1>1, <1>4, <2>1 DEF PopLocation, LocStacks
  <2>3. /\ Final[p] = IF n > 1 THEN Front(base) ELSE base
        /\ \A q \in Procs(prog) \ {p} : Final[q] = locs[q]
    BY <1>3, <1>4, <2>2
  <2>4. QED
    BY <1>3, <1>4, <1>7, <2>3 DEF p, e, base, n, f
<1>8. CASE ~IsCall(e) /\ ~IsReturn(e)
  <2>1. Final = Moved
    BY <1>8 DEF Final, e
  <2>2. QED
    BY <1>3, <1>4, <1>8, <2>1 DEF p, e, base, n, f
<1>9. QED
  BY <1>6, <1>7, <1>8

\* The stacks a transfer commits agree again.
LEMMA CommitAgree ==
  ASSUME Inv, Disciplined(prog), phase = "data", ~more
  PROVE  \A q \in Procs(prog) : /\ Agree(prog, nlocs[q], ndata.frames[q])
                                /\ prog.owner[nlocs[q][1]] = prog.entries[q]
<1> DEFINE p    == job.proc
           e    == job.edge
           base == OverTop(locs[p], e.to)
           n    == Len(locs[p])
           old  == data.frames[p]
           new  == ndata.frames[p]
<1>1. /\ TypeOK /\ StackInv /\ Progress /\ nlocs = Final
      /\ prog \in VMPrograms /\ p \in Procs(prog) /\ e \in prog.edges
      /\ pc \in Nat /\ Len(e.instrs) \in Nat
  BY TypeParts, JobType DEF Inv, StackInv
<1>2. pc > Len(e.instrs)
  BY <1>1 DEF more
<1>3. /\ old \in Seq(Frame(prog)) /\ new \in Seq(Frame(prog))
  BY <1>1, TypeParts, DataParts
<1>4. /\ n \in Nat \ {0} /\ Len(old) = n /\ e.from = locs[p][n]
      /\ Paired(prog, locs[p], old)
      /\ prog.owner[locs[p][1]] = prog.entries[p]
  BY JobFacts
<1>5. /\ base \in Seq(Location) /\ base # <<>> /\ Len(base) = n
      /\ base[n] = e.to /\ Last(base) = e.to
      /\ \A k \in 1..n - 1 : base[k] = locs[p][k]
      /\ Front(base) = Front(locs[p])
  BY FinalLocs
<1>6. /\ Final[p] = IF IsCall(e) THEN Append(base, prog.init[Last(e.instrs).func])
                    ELSE IF IsReturn(e) /\ n > 1 THEN Front(base) ELSE base
      /\ \A q \in Procs(prog) \ {p} : Final[q] = locs[q]
      /\ IsCall(e) => /\ Last(e.instrs).func \in Func
                      /\ Last(e.instrs).res \in Reg \cup {NoReg}
                      /\ prog.init[Last(e.instrs).func] \in Location
                      /\ prog.owner[prog.init[Last(e.instrs).func]] = Last(e.instrs).func
  BY FinalLocs
<1>7. prog.owner[e.to] = prog.owner[e.from]
  BY <1>1, EdgeFacts
<1>8. ASSUME NEW q \in Procs(prog) \ {p}
      PROVE  /\ Agree(prog, nlocs[q], ndata.frames[q])
             /\ prog.owner[nlocs[q][1]] = prog.entries[q]
  <2>1. nlocs[q] = locs[q]
    BY <1>1, <1>6
  <2>2. ndata.frames[q] = data.frames[q]
    BY <1>1 DEF Progress
  <2>3. QED
    BY <1>1, <2>1, <2>2 DEF StackInv
<1>9. \A k \in 1..n : prog.owner[base[k]] = prog.owner[locs[p][k]]
  <2> HIDE DEF base, n
  <2>1. QED
    BY <1>4, <1>5, <1>7
<1>10. Progress /\ pc > Len(e.instrs) =>
         /\ ~IsCall(e) /\ ~IsReturn(e) => SameShape(new, old)
         /\ IsCall(e) => Called(prog, Last(e.instrs), data, ndata, p)
         /\ IsReturn(e) => Returned(Last(e.instrs).op, old, new)
  BY DEF Progress
<1> HIDE DEF p, e, base, n, old, new
<1>11. Agree(prog, base, old)
  <2>1. Resembles(prog, n, base, old, locs[p], old)
    BY <1>4, <1>5, <1>9 DEF Resembles, n
  <2>2. QED
    BY <1>4, <2>1, AgreePrefix DEF n
<1>12. prog.owner[base[1]] = prog.entries[p]
  BY <1>4, <1>9
<1>13. Agree(prog, nlocs[p], new) /\ prog.owner[nlocs[p][1]] = prog.entries[p]
  <2>1. CASE IsCall(e)
    <3> DEFINE call == Last(e.instrs)
    <3> HIDE DEF call
    <3>1. PICK vals \in [0..prog.regs[call.func] - 1 -> Value] :
            new = Append(old, [vals |-> vals, ret |-> call.res])
      BY <1>1, <1>2, <1>10, <2>1 DEF Called, call, new, old
    <3> DEFINE fr == [vals |-> vals, ret |-> call.res]
    <3>2. call.func \in Func /\ call.res \in Reg \cup {NoReg}
      BY <1>6, <2>1 DEF call
    <3>3. fr \in Frame(prog)
      BY <3>2 DEF Frame
    <3>4. DOMAIN fr.vals = 0..prog.regs[call.func] - 1 /\ fr.ret = call.res
      OBVIOUS
    <3> HIDE DEF fr
    <3>5. Agree(prog, Append(base, prog.init[call.func]), Append(old, fr))
      <4> DEFINE l == prog.init[call.func]
      <4>1. l \in Location /\ prog.owner[l] = Last(e.instrs).func
        BY <1>6, <2>1 DEF call
      <4>2. fr.ret = Last(e.instrs).res /\ DOMAIN fr.vals = 0..prog.regs[Last(e.instrs).func] - 1
        BY <3>4 DEF call
      <4>3. Len(old) = Len(base) /\ e.to = Last(base) /\ e \in prog.edges
        BY <1>1, <1>4, <1>5
      <4> HIDE DEF l
      <4>4. Agree(prog, Append(base, l), Append(old, fr))
        BY <1>3, <1>5, <1>11, <2>1, <3>3, <4>1, <4>2, <4>3, AgreePush
      <4>5. QED
        BY <4>4 DEF l
    <3>6. nlocs[p] = Append(base, prog.init[call.func]) /\ new = Append(old, fr)
      BY <1>1, <1>6, <2>1, <3>1 DEF call, fr
    <3>7. nlocs[p][1] = base[1]
      BY <1>4, <1>5, <1>6, <2>1, <3>6, AppendProperties DEF call
    <3>8. QED
      BY <1>12, <3>5, <3>6, <3>7
  <2>2. CASE IsReturn(e) /\ ~IsCall(e) /\ n > 1
    <3>1. nlocs[p] = Front(base)
      BY <1>1, <1>6, <2>2
    <3>2. Len(Front(base)) = n - 1 /\ \A k \in 1..n - 1 : Front(base)[k] = base[k]
      BY <1>5, FrontLast
    <3>3. Returned(Last(e.instrs).op, old, new)
      BY <1>1, <1>2, <1>10, <2>2
    <3>4. /\ Len(new) = n - 1
          /\ \A k \in 1..n - 2 : new[k] = old[k]
          /\ new[n - 1].ret = old[n - 1].ret /\ DOMAIN new[n - 1].vals = DOMAIN old[n - 1].vals
      <4>1. /\ Len(new) = n - 1
            /\ \A k \in 1..n - 2 : new[k] = old[k]
            /\ \/ new[n - 1] = old[n - 1]
               \/ \E v \in Value : new[n - 1] = SetRegister(old[n - 1], old[n].ret.id, v)
        BY <1>4, <2>2, <3>3 DEF Returned
      <4>2. old[n - 1] \in Frame(prog)
        BY <1>3, <1>4, <2>2, ElementOfSeq
      <4>3. ASSUME NEW v \in Value, NEW id, NEW fr \in Frame(prog)
            PROVE  SetRegister(fr, id, v).ret = fr.ret /\ DOMAIN SetRegister(fr, id, v).vals = DOMAIN fr.vals
        BY DEF SetRegister, Frame
      <4>4. CASE new[n - 1] = old[n - 1]
        BY <4>1, <4>4
      <4>5. CASE \E v \in Value : new[n - 1] = SetRegister(old[n - 1], old[n].ret.id, v)
        <5>1. PICK v \in Value : new[n - 1] = SetRegister(old[n - 1], old[n].ret.id, v)
          BY <4>5
        <5>2. QED
          BY <4>1, <4>2, <4>3, <5>1
      <4>6. QED
        BY <4>1, <4>4, <4>5
    <3>5. \A k \in 1..n - 1 : new[k].ret = old[k].ret /\ DOMAIN new[k].vals = DOMAIN old[k].vals
      BY <1>4, <2>2, <3>4
    <3>6. n - 1 \in 1..n /\ 1 \in 1..n - 1
      BY <1>4, <2>2
    <3>7. Agree(prog, Front(base), new)
      <4>1. PICK ls2 \in Seq(Location) : ls2 = Front(base)
        BY <1>5, FrontLast
      <4>2. Resembles(prog, n - 1, ls2, new, locs[p], old)
        <5>1. n - 1 \in 1..n /\ n - 1 \in Nat /\ Len(ls2) = n - 1 /\ Len(new) = n - 1
          BY <1>4, <3>2, <3>4, <3>6, <4>1
        <5>2. \A k \in 1..n - 1 : ls2[k] = locs[p][k]
          BY <1>5, <3>2, <4>1
        <5>3. \A k \in 1..(n - 1) - 1 : ls2[k] = locs[p][k]
          BY <5>1, <5>2
        <5>4. QED
          BY <3>5, <5>1, <5>2, <5>3 DEF Resembles, n
      <4>3. QED
        BY <1>4, <4>1, <4>2, AgreePrefix DEF n
    <3>8. QED
      BY <1>12, <3>1, <3>2, <3>6, <3>7
  <2>3. CASE IsReturn(e) /\ ~IsCall(e) /\ n = 1
    <3>1. nlocs[p] = base
      BY <1>1, <1>6, <2>3
    <3>2. Len(new) = 0
      BY <1>1, <1>2, <1>4, <1>10, <2>3 DEF Returned
    <3>3. new = <<>>
      BY <1>3, <3>2, EmptySeq
    <3>4. \A c \in prog.edges : c.from # e.to
      BY <1>1, <2>3 DEF Disciplined, WellFormed, e
    <3>5. QED
      BY <1>5, <1>12, <2>3, <3>1, <3>3, <3>4 DEF Agree
  <2>4. CASE ~IsCall(e) /\ ~IsReturn(e)
    <3>1. nlocs[p] = base
      BY <1>1, <1>6, <2>4
    <3>2. SameShape(new, old)
      BY <1>1, <1>2, <1>10, <2>4
    <3>3. Agree(prog, base, new)
      <4>1. Resembles(prog, n, base, new, locs[p], old)
        BY <1>4, <1>5, <1>9, <3>2 DEF Resembles, SameShape, n
      <4>2. QED
        BY <1>4, <4>1, AgreePrefix DEF n
    <3>4. QED
      BY <1>12, <3>1, <3>3
  <2>5. QED
    BY <1>4, <2>1, <2>2, <2>3, <2>4
<1>14. QED
  BY <1>8, <1>13 DEF new, p

-----------------------------------------------------------------------------
(* The instructions                                                        *)

\* d is ndata with other values in the top frame and the CPU registers of the
\* process that moves, and in the heap.
Local(d) ==
  /\ \A q \in Procs(prog) \ {job.proc} : d.frames[q] = ndata.frames[q] /\ d.cpu[q] = ndata.cpu[q]
  /\ SameShape(d.frames[job.proc], ndata.frames[job.proc])

\* Writing a register is local.
LEMMA SaveLocal ==
  ASSUME TypeOK, phase # "idle", NEW r \in Reg, Present(ndata, job.proc, r), NEW v \in Value
  PROVE  Local(Save(ndata, job.proc, r, v))
<1> DEFINE p == job.proc
           S == ndata.frames[p]
<1>1. p \in Procs(prog) /\ ndata \in Data(prog)
  BY TypeParts, JobType
<1>2. S \in Seq(Frame(prog))
  BY <1>1, DataParts
<1>3. CASE r.kind = "local"
  <2> DEFINE new == SetRegister(TopFrame(ndata, p), r.id, v)
             d   == SetTop(ndata, p, r.id, v)
  <2>1. S # <<>> /\ r.id \in DOMAIN TopFrame(ndata, p).vals
    BY <1>3 DEF Present
  <2>2. /\ d.cpu = ndata.cpu
        /\ \A q \in Procs(prog) \ {p} : d.frames[q] = ndata.frames[q]
        /\ d.frames[p] = OverTop(S, new)
        /\ new \in Frame(prog) /\ TopFrame(ndata, p) \in Frame(prog)
    BY <1>1, <2>1, SetTopParts
  <2>3. new.ret = TopFrame(ndata, p).ret /\ DOMAIN new.vals = DOMAIN TopFrame(ndata, p).vals
    BY <2>1, <2>2, FrameExcept
  <2>4. TopFrame(ndata, p) = S[Len(S)] /\ Len(S) \in Nat \ {0}
    BY <1>2, <2>1, FrontLast DEF TopFrame
  <2> HIDE DEF new
  <2>5. /\ Len(OverTop(S, new)) = Len(S) /\ OverTop(S, new)[Len(S)] = new
        /\ \A k \in 1..Len(S) - 1 : OverTop(S, new)[k] = S[k]
    BY <1>2, <2>1, <2>2, OverwriteLast DEF OverTop
  <2>6. SameShape(OverTop(S, new), S)
    <3> DEFINE T == OverTop(S, new)
    <3> HIDE DEF T, S
    <3>1. QED
      BY <2>3, <2>4, <2>5 DEF SameShape, T
  <2>7. Save(ndata, p, r, v) = d
    BY <1>3 DEF Save
  <2> HIDE DEF d
  <2>8. QED
    BY <2>2, <2>6, <2>7 DEF Local
<1>4. CASE r.kind # "local"
  <2> DEFINE d == SetCpu(ndata, p, r.id, v)
  <2>1. Save(ndata, p, r, v) = d
    BY <1>4 DEF Save
  <2>2. d.frames = ndata.frames /\ \A q \in Procs(prog) \ {p} : d.cpu[q] = ndata.cpu[q]
    <3> DEFINE cpu == [ndata.cpu EXCEPT ![p] = [ndata.cpu[p] EXCEPT ![r.id] = v]]
    <3>1. \A q \in Procs(prog) \ {p} : cpu[q] = ndata.cpu[q]
      BY <1>1, DataParts
    <3> HIDE DEF cpu
    <3>2. d = [ndata EXCEPT !.cpu = cpu]
      BY DEF SetCpu, cpu
    <3>3. d = [frames |-> ndata.frames, cpu |-> cpu, heap |-> ndata.heap]
      BY <1>1, <3>2, DataParts
    <3> HIDE DEF d
    <3>4. QED
      BY <3>1, <3>3
  <2>3. SameShape(S, S)
    BY DEF SameShape
  <2> HIDE DEF d
  <2>4. QED
    BY <2>1, <2>2, <2>3 DEF Local
<1>5. QED
  BY <1>3, <1>4

\* What the instructions that are no calls or returns do, when they go on.
Quietly ==
  /\ phase = "data" /\ more
  /\ ins.op \notin StackOps
  /\ Continue(ndata')
  /\ Local(ndata')

\* Neither writing the result register nor any other instruction that is no call
\* and no return changes the height of the stack.
LEMMA WriteQuiet ==
  ASSUME TypeOK, Running, ins.op \in Writes, NEW v \in Value, Write(v)
  PROVE  Quietly
<1>1. ins.res \in Reg /\ Present(ndata, job.proc, ins.res)
  BY InsType DEF Running, Defined
<1>2. Local(Save(ndata, job.proc, ins.res, v))
  BY <1>1, SaveLocal DEF Running
<1>3. ndata' = Save(ndata, job.proc, ins.res, v)
  BY DEF Write, Continue
<1>4. QED
  BY <1>2, <1>3 DEF Quietly, Running, Write, Continue, Writes, StackOps

\* Every instruction that is neither call nor return is quiet.
LEMMA QuietInstructions ==
  ASSUME TypeOK,
         Compute \/ Assign \/ NonDet \/ Skip \/ Load \/ Store \/ (Check /\ Holds)
  PROVE  Quietly
<1>1. CASE Compute
  <2>1. ins.table[<<Arg(1), Arg(2)>>] \in Value
    BY <1>1, FirstArg, InsType DEF Compute, Running
  <2>2. QED
    BY <1>1, <2>1, WriteQuiet DEF Compute, Writes
<1>2. CASE Assign
  BY <1>2, FirstArg, WriteQuiet DEF Assign, Writes
<1>3. CASE NonDet
  BY <1>3, ValuesOK, WriteQuiet DEF NonDet, Writes
<1>4. CASE Load
  <2>1. Arg(1) \in Value
    BY <1>4, FirstArg DEF Load
  <2>2. \A a \in Cell : ndata.heap[a] \in Value
    BY TypeParts DEF Data
  <2>3. PICK v \in Value : Write(v)
    BY <1>4, <2>1, <2>2 DEF Load
  <2>4. QED
    BY <1>4, <2>3, WriteQuiet DEF Load, Writes
<1>5. CASE Skip \/ (Check /\ Holds)
  <2>1. Running /\ Continue(ndata) /\ ins.op \notin StackOps
    BY <1>5 DEF Skip, Check, StackOps
  <2>2. Local(ndata)
    BY DEF Local, SameShape
  <2>3. QED
    BY <2>1, <2>2 DEF Quietly, Running, Continue
<1>6. CASE Store
  <2>1. Running /\ ins.op \notin StackOps
    BY <1>6 DEF Store, StackOps
  <2>2. PICK d : /\ d = IF Arg(1) \in Cell THEN [ndata EXCEPT !.heap = [ndata.heap EXCEPT ![Arg(1)] = Arg(2)]] ELSE ndata
                 /\ Continue(d)
    BY <1>6 DEF Store
  <2>3. d.frames = ndata.frames /\ d.cpu = ndata.cpu
    BY <2>2, TypeParts DEF Data
  <2>4. ndata' = d
    BY <2>2 DEF Continue
  <2>5. QED
    BY <2>1, <2>2, <2>3, <2>4 DEF Quietly, Running, Continue, Local, SameShape
<1>7. QED
  BY <1>1, <1>2, <1>3, <1>4, <1>5, <1>6

\* An instruction that goes on leaves everything but ndata and pc; the locations
\* the transfer ends in are as before.
LEMMA ContinueKeeps ==
  ASSUME TypeOK, Inv, phase = "data", more, Continue(ndata')
  PROVE  /\ prog' = prog /\ locs' = locs /\ data' = data /\ job' = job /\ phase' = "data"
         /\ pc' = pc + 1 /\ pc' \in Nat \ {0, 1}
         /\ pc' <= Len(job.edge.instrs) + 1
         /\ Final' = Final /\ nlocs' = nlocs
<1>1. pc \in 1..Len(job.edge.instrs) /\ Len(job.edge.instrs) \in Nat
  BY JobType
<1>2. QED
  BY <1>1 DEF Continue, Final, Moved

\* From there the invariant follows from what is done of the edge.
LEMMA ContinueInv ==
  ASSUME Inv, Disciplined(prog), phase = "data", more, Continue(ndata'), Progress'
  PROVE  StackInv'
<1>1. StackInv /\ TypeOK
  BY DEF Inv
<1>2. /\ prog' = prog /\ locs' = locs /\ data' = data /\ job' = job /\ phase' = "data"
      /\ pc' <= Len(job.edge.instrs) + 1
      /\ Final' = Final /\ nlocs' = nlocs
  BY <1>1, ContinueKeeps
<1>3. nlocs = Final /\ UnderWay
  BY <1>1 DEF StackInv
<1>4. UnderWay'
  BY <1>2, <1>3 DEF UnderWay
<1>5. QED
  BY <1>1, <1>2, <1>3, <1>4 DEF StackInv

\* Progress after a quiet instruction.
LEMMA ProgressQuiet ==
  ASSUME Inv, Disciplined(prog), Quietly
  PROVE  Progress'
<1> DEFINE p  == job.proc
           e  == job.edge
           fs == data.frames[p]
           nf == ndata.frames[p]
<1>1. /\ phase = "data" /\ more /\ Continue(ndata') /\ ins.op \notin StackOps
      /\ TypeOK /\ StackInv /\ Progress
  BY DEF Quietly, Inv, StackInv
<1>2. /\ prog' = prog /\ locs' = locs /\ data' = data /\ job' = job
      /\ pc' = pc + 1 /\ pc' \in Nat \ {0, 1}
  BY <1>1, ContinueKeeps
<1>3. pc \in 1..Len(e.instrs) /\ Len(e.instrs) \in Nat
  BY <1>1, JobType
<1>4. pc' > Len(e.instrs) => ~IsCall(e) /\ ~IsReturn(e)
  BY <1>1, <1>2, <1>3, InsFacts DEF StackOps
<1>5. \A q \in Procs(prog) \ {p} : ndata'.frames[q] = data.frames[q] /\ ndata'.cpu[q] = data.cpu[q]
  BY <1>1 DEF Quietly, Local, Progress
<1>6. SameShape(ndata'.frames[p], fs)
  <2>1. SameShape(ndata'.frames[p], nf)
    BY DEF Quietly, Local
  <2>2. SameShape(nf, fs)
    BY <1>1, <1>3 DEF Progress, more
  <2>3. QED
    BY <2>1, <2>2 DEF SameShape
<1>7. QED
  BY <1>2, <1>4, <1>5, <1>6 DEF Progress

\* Progress after a call.
LEMMA ProgressCall ==
  ASSUME Inv, Disciplined(prog), Call
  PROVE  Progress' /\ Continue(ndata')
<1> DEFINE p    == job.proc
           e    == job.edge
           call == Last(e.instrs)
           fr   == NewFrame(prog, ins.func, Args, ins.res)
<1>1. /\ phase = "data" /\ more /\ Running /\ ins.op = "Call" /\ Defined
      /\ TypeOK /\ StackInv /\ Progress
      /\ Continue(ndata') /\ ndata' = PushFrame(ndata, p, fr)
  BY DEF Call, Running, Continue, Inv, StackInv
<1>2. /\ prog' = prog /\ locs' = locs /\ data' = data /\ job' = job
      /\ pc' = pc + 1 /\ pc' \in Nat \ {0, 1}
  BY <1>1, ContinueKeeps
<1>3. pc = 1 /\ pc = Len(e.instrs) /\ ins = call /\ IsCall(e) /\ ~IsReturn(e)
  BY <1>1, InsFacts DEF StackOps, IsCall, IsReturn
<1>4. ndata = data
  BY <1>1, <1>3 DEF Progress
<1>5. /\ prog \in VMPrograms /\ p \in Procs(prog) /\ data \in Data(prog)
      /\ ins.func \in Func /\ ins.res \in Reg \cup {NoReg} /\ ins.args \in Seq(Operand)
      /\ Args \in Seq(Value) /\ Len(Args) = Len(ins.args)
  BY <1>1, TypeParts, JobType, InsType, ArgType DEF Defined
<1>6. /\ fr \in Frame(prog) /\ fr.vals \in [0..prog.regs[ins.func] - 1 -> Value] /\ fr.ret = ins.res
      /\ fr = [vals |-> fr.vals, ret |-> ins.res]
  <2>1. fr \in Frame(prog) /\ fr.vals \in [0..prog.regs[ins.func] - 1 -> Value] /\ fr.ret = ins.res
    BY <1>5, NewFrameType
  <2>2. QED
    BY <2>1 DEF Frame
<1>7. /\ ndata'.cpu = data.cpu /\ ndata'.heap = data.heap
      /\ ndata'.frames[p] = Append(data.frames[p], fr)
      /\ \A q \in Procs(prog) \ {p} : ndata'.frames[q] = data.frames[q]
  <2> HIDE DEF fr, p
  <2>1. QED
    BY <1>1, <1>4, <1>5, <1>6, PushPopType
<1>8. Received(prog, data, p, ins, fr.vals)
  <2> SUFFICES ASSUME NEW id \in DOMAIN fr.vals
               PROVE  \/ fr.vals[id] = Zero /\ \A k \in 1..Len(ins.args) : prog.params[ins.func][k] # id
                      \/ \E k \in 1..Len(ins.args) :
                           prog.params[ins.func][k] = id /\ fr.vals[id] = Lookup(data, p, ins.args[k])
    BY DEF Received
  <2>1. id \in 0..prog.regs[ins.func] - 1
    BY <1>6
  <2>2. fr.vals[id] = IF \E k \in 1..Len(Args) : prog.params[ins.func][k] = id
                        THEN Args[CHOOSE k \in 1..Len(Args) : prog.params[ins.func][k] = id]
                        ELSE Zero
    BY <2>1 DEF NewFrame
  <2>3. \A k \in 1..Len(ins.args) : Args[k] = Lookup(data, p, ins.args[k])
    BY <1>4 DEF Args, Arg
  <2> DEFINE P(k) == prog.params[ins.func][k] = id
  <2> HIDE DEF P, fr
  <2>4. CASE \E k \in 1..Len(ins.args) : P(k)
    <3>1. PICK c : c = CHOOSE k \in 1..Len(ins.args) : P(k)
      OBVIOUS
    <3>2. c \in 1..Len(ins.args) /\ P(c)
      BY <2>4, <3>1
    <3>3. fr.vals[id] = Args[c]
      BY <1>5, <2>2, <2>4, <3>1 DEF P
    <3>4. QED
      BY <2>3, <3>2, <3>3 DEF P
  <2>5. CASE \A k \in 1..Len(ins.args) : ~P(k)
    BY <1>5, <2>2, <2>5 DEF P
  <2>6. QED
    BY <2>4, <2>5
<1>9. Called(prog, call, data, ndata', p)
  <2> HIDE DEF fr, p, call
  <2>1. ndata'.frames[p] = Append(data.frames[p], [vals |-> fr.vals, ret |-> ins.res])
    BY <1>6, <1>7
  <2>2. QED
    BY <1>3, <1>6, <1>7, <1>8, <2>1 DEF Called
<1>10. \A q \in Procs(prog) \ {p} : ndata'.frames[q] = data.frames[q] /\ ndata'.cpu[q] = data.cpu[q]
  BY <1>7
<1>11. Continue(ndata')
  BY <1>1
<1> HIDE DEF fr
<1>12. Called(prog', Last(job'.edge.instrs), data', ndata', job'.proc)
  BY <1>2, <1>9
<1>13. pc' # 1 /\ pc' > Len(e.instrs)
  <2>1. pc = 1 /\ Len(e.instrs) = 1 /\ pc' = pc + 1
    BY <1>2, <1>3
  <2> HIDE DEF e
  <2>2. QED
    BY <2>1
<1>14. Progress'
  BY <1>2, <1>3, <1>10, <1>12, <1>13 DEF Progress
<1>15. QED
  BY <1>11, <1>14

\* Progress after a return.
LEMMA ProgressReturn ==
  ASSUME Inv, Disciplined(prog), Ret \/ RetVoid
  PROVE  Progress' /\ Continue(ndata')
<1> DEFINE p  == job.proc
           e  == job.edge
           n  == Len(locs[p])
           fs == data.frames[p]
           nf == ndata.frames[p]
           d  == PopFrame(ndata, p)
<1>1. /\ phase = "data" /\ more /\ Running /\ ins.op \in {"Ret", "RetVoid"} /\ Defined
      /\ TypeOK /\ StackInv /\ Progress /\ Continue(ndata')
  BY DEF Ret, RetVoid, Running, Continue, Inv, StackInv
<1>2. /\ prog' = prog /\ locs' = locs /\ data' = data /\ job' = job
      /\ pc' = pc + 1 /\ pc' \in Nat \ {0, 1}
  BY <1>1, ContinueKeeps
<1>3. pc = Len(e.instrs) /\ ins = Last(e.instrs) /\ IsReturn(e) /\ ~IsCall(e)
  BY <1>1, InsFacts DEF StackOps, IsCall, IsReturn
<1>4. p \in Procs(prog) /\ ndata \in Data(prog)
  BY <1>1, TypeParts, JobType
<1>5. n \in Nat \ {0} /\ Len(fs) = n
  BY <1>1, JobFacts
<1>6. /\ nf \in Seq(Frame(prog)) /\ nf # <<>> /\ Len(nf) = n
      /\ \A k \in 1..n : nf[k].ret = fs[k].ret
      /\ \A k \in 1..n - 1 : nf[k] = fs[k]
  BY <1>1, WorkFacts
<1>7. /\ d \in Data(prog) /\ d.cpu = ndata.cpu /\ d.frames[p] = Front(nf)
      /\ \A q \in Procs(prog) \ {p} : d.frames[q] = ndata.frames[q]
  BY <1>4, <1>6, PushPopType
<1> HIDE DEF n, fs, nf, d
<1>8. /\ Front(nf) \in Seq(Frame(prog)) /\ Len(Front(nf)) = n - 1
      /\ \A k \in 1..n - 1 : Front(nf)[k] = fs[k]
      /\ Last(nf) = nf[n]
  BY <1>6, FrontLast
<1>9. CASE RetVoid
  <2>1. ndata' = d /\ ins.op = "RetVoid"
    BY <1>9 DEF RetVoid, Continue, d, p
  <2>2. Returned("RetVoid", fs, ndata'.frames[p])
    BY <1>5, <1>7, <1>8, <2>1 DEF Returned
  <2>3. \A q \in Procs(prog) \ {p} : ndata'.frames[q] = data.frames[q] /\ ndata'.cpu[q] = data.cpu[q]
    BY <1>1, <1>7, <2>1 DEF Progress
  <2>4. QED
    BY <1>1, <1>2, <1>3, <2>1, <2>2, <2>3 DEF Progress, fs
<1>10. CASE Ret
  <2> DEFINE id == TopFrame(ndata, p).ret.id
             d2 == SetTop(d, p, id, Arg(1))
             fr == SetRegister(TopFrame(d, p), id, Arg(1))
  <2>1. ndata' = d2 /\ ins.op = "Ret" /\ Arg(1) \in Value
    BY <1>1, <1>10, FirstArg DEF Ret, Continue, d, p
  <2>2. n > 1 /\ nf[n].ret.id \in DOMAIN nf[n - 1].vals
    BY <1>1, <1>6, <2>1 DEF Defined, CanReturnValue, nf, p
  <2>3. id = nf[n].ret.id /\ TopFrame(d, p) = fs[n - 1] /\ nf[n - 1] = fs[n - 1]
    BY <1>5, <1>6, <1>7, <1>8, <2>2 DEF TopFrame, Last, nf
  <2>4. d.frames[p] # <<>> /\ id \in DOMAIN TopFrame(d, p).vals
    BY <1>5, <1>7, <1>8, <2>2, <2>3, EmptySeq
  <2> HIDE DEF id
  <2>5. /\ d2.cpu = d.cpu
        /\ \A q \in Procs(prog) \ {p} : d2.frames[q] = d.frames[q]
        /\ d2.frames[p] = OverTop(d.frames[p], fr)
        /\ fr \in Frame(prog)
    BY <1>4, <1>7, <2>1, <2>4, SetTopParts
  <2> HIDE DEF d2, fr
  <2>6. /\ Len(d2.frames[p]) = n - 1
        /\ d2.frames[p][n - 1] = fr
        /\ \A k \in 1..n - 2 : d2.frames[p][k] = fs[k]
    <3> DEFINE st == Front(nf)
    <3>1. /\ st \in Seq(Frame(prog)) /\ st # <<>> /\ Len(st) = n - 1
          /\ d2.frames[p] = [st EXCEPT ![Len(st)] = fr]
          /\ \A k \in 1..n - 1 : st[k] = fs[k]
      BY <1>5, <1>7, <1>8, <2>4, <2>5 DEF OverTop
    <3> HIDE DEF st
    <3>2. QED
      BY <1>5, <2>2, <2>5, <3>1, OverwriteLast
  <2>7. fr = SetRegister(fs[n - 1], fs[n].ret.id, Arg(1))
    BY <1>5, <1>6, <2>3 DEF fr
  <2>8. Returned("Ret", fs, d2.frames[p])
    BY <1>5, <2>1, <2>2, <2>6, <2>7 DEF Returned
  <2>9. \A q \in Procs(prog) \ {p} : ndata'.frames[q] = data.frames[q] /\ ndata'.cpu[q] = data.cpu[q]
    BY <1>1, <1>7, <2>1, <2>5 DEF Progress
  <2>10. QED
    BY <1>1, <1>2, <1>3, <2>1, <2>8, <2>9 DEF Progress, fs
<1>11. QED
  BY <1>9, <1>10

-----------------------------------------------------------------------------
(* The theorems                                                            *)

\* The initial states, one frame and one location per process, satisfy Inv.
LEMMA InitInv == Init /\ TypeOK => Inv
<1> SUFFICES ASSUME Init, TypeOK, Disciplined(prog) PROVE StackInv
  BY DEF Inv
<1>1. prog \in VMPrograms
  BY TypeParts
<1>2. PICK heap \in [Cell -> Value] :
        data = [ frames |-> [p \in Procs(prog) |-> <<NewFrame(prog, prog.entries[p], <<>>, NoReg)>>],
                 cpu    |-> [p \in Procs(prog) |-> [id \in 0..NbCpu - 1 |-> Zero]],
                 heap   |-> heap ]
  BY DEF Init
<1>3. ASSUME NEW q \in Procs(prog)
      PROVE  Agree(prog, locs[q], data.frames[q]) /\ prog.owner[locs[q][1]] = prog.entries[q]
  <2> DEFINE f  == prog.entries[q]
             fr == NewFrame(prog, f, <<>>, NoReg)
  <2>1. f \in Func
    BY <1>1, ElementOfSeq DEF VMPrograms, Procs
  <2>2. prog.owner[prog.init[f]] = f
    BY <2>1 DEF Disciplined, WellFormed
  <2>3. <<>> \in Seq(Value)
    OBVIOUS
  <2>4. DOMAIN fr.vals = 0..prog.regs[f] - 1
    <3>1. fr.vals \in [0..prog.regs[f] - 1 -> Value]
      BY <1>1, <2>1, <2>3, NewFrameType
    <3> HIDE DEF fr
    <3>2. QED
      BY <3>1
  <2> HIDE DEF fr
  <2>5. data.frames[q] = <<fr>>
    BY <1>2 DEF fr
  <2> HIDE DEF f
  <2>6. locs[q] = <<prog.init[f]>>
    BY DEF Init, f
  <2>7. Agree(prog, <<prog.init[f]>>, <<fr>>)
    BY <2>2, <2>4 DEF Agree
  <2>8. QED
    BY <2>2, <2>5, <2>6, <2>7 DEF f
<1>4. QED
  BY <1>3 DEF Init, StackInv

\* A transfer that fails leaves the stacks as they were.
LEMMA LeaveInv ==
  ASSUME StackInv, NEW o, Leave(o, locs, data)
  PROVE  StackInv'
  BY DEF StackInv, Leave

\* The run of the Location CPA: after it nlocs is Final.
LEMMA LocInv ==
  ASSUME Inv, Disciplined(prog),
         LocStep \/ LocDone \/ \E p \in Procs(prog), e \in prog.edges : Begin(p, e)
  PROVE  StackInv'
<1>1. StackInv /\ TypeOK /\ prog \in VMPrograms
  BY TypeParts DEF Inv
<1>2. ASSUME NEW p \in Procs(prog), NEW e \in prog.edges, Begin(p, e) PROVE StackInv'
  <2>1. /\ prog' = prog /\ locs' = locs /\ data' = data /\ ndata' = ndata
        /\ job'.proc = p /\ job'.edge = e /\ pc' = 1 /\ phase' = "loc"
        /\ nlocs' = SetLocation(locs, p, e.to) /\ e.from = Last(locs[p]) /\ phase = "idle"
    BY <1>2 DEF Begin
  <2>2. Len(e.instrs) \in Nat /\ (e.instrs = <<>> \/ Len(e.instrs) > 0)
    BY <1>1, EdgeFacts
  <2>3. nlocs' = Moved'
    BY <2>1 DEF Moved
  <2>4. e.instrs = <<>> => Final' = Moved'
    BY <2>1 DEF Final, IsCall, IsReturn
  <2>5. UnderWay'
    BY <2>1, <2>2 DEF UnderWay
  <2>6. nlocs' = IF pc' <= Len(job'.edge.instrs) THEN Moved' ELSE Final'
    BY <2>1, <2>2, <2>3, <2>4
  <2>7. QED
    BY <1>1, <2>1, <2>5, <2>6 DEF StackInv
<1>3. CASE LocStep
  <2> DEFINE e == job.edge
  <2>1. /\ phase = "loc" /\ more /\ phase' = "loc" /\ pc' = pc + 1
        /\ prog' = prog /\ locs' = locs /\ data' = data /\ ndata' = ndata /\ job' = job
        /\ nlocs' = CASE ins.op = "Call"              -> PushLocation(nlocs, job.proc, prog.init[ins.func])
                      [] ins.op \in {"Ret", "RetVoid"} -> PopLocation(nlocs, job.proc)
                      [] OTHER                         -> nlocs
    BY <1>3 DEF LocStep
  <2>2. Moved' = Moved /\ Final' = Final
    BY <2>1 DEF Moved, Final
  <2>3. pc \in 1..Len(e.instrs) /\ Len(e.instrs) \in Nat
    BY <1>1, <2>1, JobType
  <2>4. nlocs = Moved
    BY <1>1, <2>1, <2>3 DEF StackInv
  <2>5. /\ ins.op \in StackOps => pc = Len(e.instrs) /\ ins = Last(e.instrs)
        /\ ins.op = "Call" <=> pc = Len(e.instrs) /\ IsCall(e)
        /\ ins.op \in {"Ret", "RetVoid"} <=> pc = Len(e.instrs) /\ IsReturn(e)
    BY <2>1, InsFacts
  <2>6. CASE pc < Len(e.instrs)
    <3>1. nlocs' = Moved'
      BY <2>1, <2>2, <2>3, <2>4, <2>5, <2>6
    <3>2. pc' <= Len(e.instrs) /\ pc' <= Len(e.instrs) + 1
      BY <2>1, <2>3, <2>6
    <3>3. UnderWay'
      BY <1>1, <2>1, <3>2 DEF StackInv, UnderWay
    <3>4. QED
      BY <1>1, <2>1, <3>1, <3>2, <3>3 DEF StackInv
  <2>7. CASE pc = Len(e.instrs)
    <3>1. nlocs' = Final
      BY <2>1, <2>4, <2>5, <2>7 DEF Final, StackOps
    <3>2. pc' = Len(e.instrs) + 1 /\ ~(pc' <= Len(e.instrs))
      BY <2>1, <2>3, <2>7
    <3>3. QED
      BY <1>1, <2>1, <2>2, <3>1, <3>2 DEF StackInv, UnderWay
  <2>8. QED
    BY <2>3, <2>6, <2>7
<1>4. CASE LocDone
  <2> DEFINE e == job.edge
  <2>1. /\ phase = "loc" /\ ~more /\ phase' = "data" /\ pc' = 1
        /\ prog' = prog /\ locs' = locs /\ data' = data /\ ndata' = ndata /\ job' = job /\ nlocs' = nlocs
    BY <1>4 DEF LocDone
  <2>2. Moved' = Moved /\ Final' = Final
    BY <2>1 DEF Moved, Final
  <2>3. pc \in Nat /\ Len(e.instrs) \in Nat /\ e \in prog.edges
    BY <1>1, <2>1, JobType
  <2>4. nlocs = Final /\ ndata = data
    BY <1>1, <2>1, <2>3 DEF StackInv, more
  <2>5. pc' > Len(e.instrs) => ~IsCall(e) /\ ~IsReturn(e)
    <3>1. e.instrs # <<>> => Len(e.instrs) > 0
      BY <1>1, <2>3, EdgeFacts
    <3>2. QED
      BY <2>1, <2>3, <3>1 DEF IsCall, IsReturn
  <2>6. Progress'
    BY <2>1, <2>4, <2>5 DEF Progress, SameShape
  <2>7. UnderWay'
    BY <1>1, <2>1, <2>3 DEF StackInv, UnderWay
  <2>8. QED
    BY <1>1, <2>1, <2>2, <2>4, <2>6, <2>7 DEF StackInv
<1>5. QED
  BY <1>2, <1>3, <1>4

\* The step that pairs the two halves.
LEMMA CommitInv ==
  ASSUME Inv, Disciplined(prog), Commit
  PROVE  StackInv'
<1>1. \A q \in Procs(prog) : /\ Agree(prog, nlocs[q], ndata.frames[q])
                             /\ prog.owner[nlocs[q][1]] = prog.entries[q]
  BY CommitAgree DEF Commit
<1>2. /\ prog' = prog /\ locs' = nlocs /\ data' = ndata /\ ndata' = ndata /\ phase' = "idle"
  BY DEF Commit, Leave
<1>3. QED
  BY <1>1, <1>2 DEF StackInv

\* Every step preserves the part of Inv that is about stacks.
LEMMA NextInv == Inv /\ [Next]_vars => (Disciplined(prog') => StackInv')
<1> SUFFICES ASSUME Inv, [Next]_vars, Disciplined(prog') PROVE StackInv'
  OBVIOUS
<1>1. TypeOK
  BY DEF Inv
<1>2. CASE UNCHANGED vars
  BY <1>2 DEF Inv, StackInv, vars, UnderWay, Moved, Final, Progress, Called, Received
<1>3. CASE Next
  <2>1. prog' = prog
    BY <1>3 DEF Next, DataStep, Mismatch, Begin, LocStep, LocDone, Compute, Assign, NonDet, Skip,
                Check, Load, Store, Call, Ret, RetVoid, Throw, Undefined, Commit, Leave, Continue, Write
  <2>2. Disciplined(prog) /\ StackInv
    BY <2>1 DEF Inv
  <2>3. CASE LocStep \/ LocDone \/ \E p \in Procs(prog), e \in prog.edges : Begin(p, e)
    BY <2>2, <2>3, LocInv
  <2>4. CASE \E p \in Procs(prog), e \in prog.edges : Mismatch(p, e)
    BY <2>2, <2>4, LeaveInv DEF Mismatch
  <2>5. CASE Throw \/ (Check /\ ~Holds)
    BY <2>2, <2>5, LeaveInv DEF Throw, Check
  <2>6. CASE Compute \/ Assign \/ NonDet \/ Skip \/ Load \/ Store \/ (Check /\ Holds)
    <3>1. Quietly
      BY <1>1, <2>6, QuietInstructions
    <3>2. QED
      BY <2>2, <3>1, ProgressQuiet, ContinueInv DEF Quietly
  <2>7. CASE Call
    BY <2>2, <2>7, ProgressCall, ContinueInv DEF Call, Running
  <2>8. CASE Ret \/ RetVoid
    BY <2>2, <2>8, ProgressReturn, ContinueInv DEF Ret, RetVoid, Running
  <2>9. CASE Undefined
    BY <2>2, <2>9, StaysDefined DEF Undefined
  <2>10. CASE Commit
    BY <2>2, <2>10, CommitInv
  <2>11. QED
    BY <1>3, <2>3, <2>4, <2>5, <2>6, <2>7, <2>8, <2>9, <2>10 DEF Next, DataStep
<1>4. QED
  BY <1>2, <1>3

\* The inductive invariant holds, for every set of programs: the stacks agree
\* between transfers, and during one the working copies are the stacks it started
\* from with the edge partly carried out.
THEOREM Invariance == Spec => []Inv
<1>1. Init /\ TypeOK => Inv
  BY InitInv
<1>2. Inv /\ TypeOK' /\ [Next]_vars => Inv'
  BY NextInv DEF Inv
<1>3. Spec => []TypeOK
  BY TypeCorrect
<1>4. QED
  BY <1>1, <1>2, <1>3, PTL DEF Spec

\* The Location CPA and the Concrete CPA, each with its own engine, keep stacks
\* that describe the same activations, in every disciplined program.
THEOREM StacksAlwaysAgree == Spec => []StacksAgree
<1>1. Inv => StacksAgree
  BY DEF Inv, StackInv, StacksAgree
<1>2. QED
  BY <1>1, Invariance, PTL

\* No disciplined program makes the engine touch a register outside its frame, or
\* the back of an empty frame stack.
THEOREM AlwaysDefined == Spec => []NeverUndefined
<1>1. Inv => NeverUndefined
  BY DEF Inv, StackInv, NeverUndefined
<1>2. QED
  BY <1>1, Invariance, PTL

\* Only the end of a transfer changes the state.
LEMMA OnlyCommit ==
  ASSUME [Next]_vars, ~Commit
  PROVE  prog' = prog /\ locs' = locs /\ data' = data
BY DEF vars, Next, DataStep, Mismatch, Begin, LocStep, LocDone, Compute, Assign, NonDet, Skip,
       Check, Load, Store, Call, Ret, RetVoid, Throw, Undefined, Leave, Continue, Write

\* A commit changes the process of the transfer only, and below its top frame at
\* most the register that receives a value.
LEMMA CommitIsolated ==
  ASSUME Inv, Disciplined(prog), Commit
  PROVE  LET p == job.proc IN
           /\ phase = "data" /\ p \in Procs(prog)
           /\ \A q \in Procs(prog) \ {p} : /\ locs'[q] = locs[q]
                                           /\ data'.frames[q] = data.frames[q]
                                           /\ data'.cpu[q] = data.cpu[q]
           /\ FramesBelowKept(data'.frames[p], data.frames[p])
<1> DEFINE p   == job.proc
           e   == job.edge
           old == data.frames[p]
           new == ndata.frames[p]
           n   == Len(locs[p])
<1>1. /\ phase = "data" /\ ~more /\ locs' = nlocs /\ data' = ndata
      /\ TypeOK /\ StackInv /\ Progress /\ nlocs = Final
  BY DEF Commit, Leave, Inv, StackInv
<1>2. /\ prog \in VMPrograms /\ p \in Procs(prog) /\ e \in prog.edges
      /\ pc \in Nat /\ Len(e.instrs) \in Nat
  BY <1>1, TypeParts, JobType
<1>3. ASSUME NEW q \in Procs(prog) \ {p}
      PROVE  locs'[q] = locs[q] /\ data'.frames[q] = data.frames[q] /\ data'.cpu[q] = data.cpu[q]
  BY <1>1, FinalLocs DEF Progress
<1>4. old \in Seq(Frame(prog)) /\ n \in Nat \ {0} /\ Len(old) = n
  BY <1>1, JobFacts
<1>5. /\ ~IsCall(e) /\ ~IsReturn(e) => SameShape(new, old)
      /\ IsCall(e) => Called(prog, Last(e.instrs), data, ndata, p)
      /\ IsReturn(e) => Returned(Last(e.instrs).op, old, new)
  BY <1>1, <1>2 DEF Progress, more
<1>6. IsReturn(e) /\ Last(e.instrs).op # "RetVoid" => old[n].ret # NoReg
  BY <1>1, CallerKnown DEF IsReturn
<1> HIDE DEF n, old, new
<1>7. FramesBelowKept(new, old)
  <2>1. CASE ~IsCall(e) /\ ~IsReturn(e)
    BY <1>4, <1>5, <2>1 DEF FramesBelowKept, SameShape
  <2>2. CASE IsCall(e)
    <3>1. PICK fr : new = Append(old, fr)
      BY <1>5, <2>2 DEF Called, new, old
    <3>2. Len(new) = n + 1 /\ \A k \in 1..n : new[k] = old[k]
      BY <1>4, <3>1
    <3>3. QED
      BY <1>4, <3>2 DEF FramesBelowKept
  <2>3. CASE IsReturn(e)
    <3>1. /\ Len(new) = n - 1
          /\ \A k \in 1..n - 2 : new[k] = old[k]
      BY <1>4, <1>5, <2>3 DEF Returned
    <3>2. CASE n = 1 \/ new[n - 1] = old[n - 1]
      BY <1>4, <3>1, <3>2 DEF FramesBelowKept
    <3>3. CASE n > 1 /\ new[n - 1] # old[n - 1]
      <4>1. PICK v \in Value : new[n - 1] = SetRegister(old[n - 1], old[n].ret.id, v)
        BY <1>4, <1>5, <2>3, <3>3 DEF Returned
      <4>2. old[n - 1] \in Frame(prog)
        BY <1>4, <3>3, ElementOfSeq
      <4>3. old[n].ret # NoReg
        BY <1>4, <1>5, <1>6, <2>3, <3>3 DEF Returned
      <4>4. ASSUME NEW fr \in Frame(prog), NEW r, r # NoReg
            PROVE  OnlyRegister(SetRegister(fr, r.id, v), fr, r)
        BY <4>4 DEF OnlyRegister, SetRegister, Frame
      <4>5. OnlyRegister(new[n - 1], old[n - 1], old[n].ret)
        BY <4>1, <4>2, <4>3, <4>4
      <4>6. QED
        BY <1>4, <3>1, <3>3, <4>5 DEF FramesBelowKept
    <3>4. QED
      BY <1>4, <3>2, <3>3
  <2>4. QED
    BY <2>1, <2>2, <2>3
<1>8. QED
  BY <1>1, <1>2, <1>3, <1>7 DEF new, old

\* A transfer is isolated: it changes no other process, none of the frames below the
\* top but for the return register, and nothing at all when it fails.
THEOREM Isolation == Spec => TransferIsolated
<1> DEFINE A == /\ outcome' # "moved" => locs' = locs /\ data' = data
                /\ Disciplined(prog) /\ <<locs', data'>> # <<locs, data>> =>
                     /\ phase = "data"
                     /\ \A q \in Procs(prog) \ {job.proc} :
                          /\ locs'[q] = locs[q]
                          /\ data'.frames[q] = data.frames[q]
                          /\ data'.cpu[q] = data.cpu[q]
                     /\ FramesBelowKept(data'.frames[job.proc], data.frames[job.proc])
<1>1. ASSUME Inv, [Next]_vars PROVE A
  <2>1. CASE Commit
    <3>1. outcome' = "moved"
      BY <2>1 DEF Commit, Leave
    <3>2. QED
      BY <1>1, <2>1, <3>1, CommitIsolated
  <2>2. CASE ~Commit
    BY <1>1, <2>2, OnlyCommit
  <2>3. QED
    BY <2>1, <2>2
<1> HIDE DEF A
<1>2. Inv /\ [Next]_vars => [A]_vars
  BY <1>1
<1>3. Spec => [][A]_vars
  BY <1>2, Invariance, PTL DEF Spec
<1>4. QED
  BY <1>3 DEF TransferIsolated, A

-----------------------------------------------------------------------------
(***************************************************************************)
(* Machine implements CallDiscipline, for every set of programs: the       *)
(* commit of a transfer is one step of the machine with a single stack of  *)
(* activations, every other step a stutter.                                *)
(***************************************************************************)

\* The refinement mapping, at constant level.
Stack(g, ls, d) == [p \in Procs(g) |-> Activations(ls[p], d.frames[p])]

\* An activation, of a location and a frame.
Pair(l, fr) == [loc |-> l, vals |-> fr.vals, ret |-> fr.ret]

Activation(g) == [loc  : Location,
                  vals : UNION { [0..g.regs[f] - 1 -> Value] : f \in Func },
                  ret  : Reg \cup {NoReg}]

\* The stack of activations is a sequence as high as the stack of frames.
LEMMA ActivationsSeq ==
  ASSUME NEW g, NEW ls \in Seq(Location), NEW fs \in Seq(Frame(g)), Len(fs) <= Len(ls)
  PROVE  /\ Activations(ls, fs) \in Seq(Activation(g))
         /\ Len(Activations(ls, fs)) = Len(fs)
         /\ \A k \in 1..Len(fs) : Activations(ls, fs)[k] = Pair(ls[k], fs[k])
<1> DEFINE Act(k) == Pair(ls[k], fs[k])
<1>1. Len(fs) \in Nat /\ Len(ls) \in Nat
  BY LenProperties
<1>2. ASSUME NEW k \in 1..Len(fs) PROVE Act(k) \in Activation(g)
  <2>1. fs[k] \in Frame(g)
    BY ElementOfSeq
  <2>2. ls[k] \in Location
    BY <1>1, ElementOfSeq
  <2>3. QED
    BY <2>1, <2>2 DEF Frame, Activation, Pair
<1>3. Activations(ls, fs) = [k \in 1..Len(fs) |-> Act(k)]
  BY DEF Activations, Pair
<1> DEFINE s == [k \in 1..Len(fs) |-> Act(k)]
<1>4. \A k \in 1..Len(fs) : s[k] = Act(k)
  OBVIOUS
<1> HIDE DEF Act
<1>5. s \in Seq(Activation(g)) /\ Len(s) = Len(fs)
  BY <1>1, <1>2
<1> HIDE DEF s
<1>6. QED
  BY <1>3, <1>4, <1>5 DEF Act, s

\* The steps of the refined stack, for one process: old and new activations
\* from locations ls, nl and frames old, new.
LEMMA ComputeStack ==
  ASSUME NEW g, NEW ls \in Seq(Location), NEW old \in Seq(Frame(g)), old # <<>>, Len(old) = Len(ls),
         NEW l \in Location, NEW new \in Seq(Frame(g)), SameShape(new, old)
  PROVE  LET s == Activations(ls, old)
             t == Activations(OverTop(ls, l), new)
         IN  /\ Len(t) = Len(s) /\ Front(t) = Front(s)
             /\ Last(t).loc = l /\ Last(t).ret = Last(s).ret
             /\ DOMAIN Last(t).vals = DOMAIN Last(s).vals
<1> DEFINE n  == Len(ls)
           nl == OverTop(ls, l)
           s  == Activations(ls, old)
           t  == Activations(nl, new)
<1>1. n \in Nat \ {0} /\ ls # <<>>
  BY EmptySeq, LenProperties
<1>2. /\ nl \in Seq(Location) /\ Len(nl) = n /\ nl[n] = l
      /\ \A k \in 1..n - 1 : nl[k] = ls[k]
  BY <1>1, OverwriteLast DEF OverTop
<1>3. Len(new) = n
  BY DEF SameShape
<1> HIDE DEF nl, n
<1>4. /\ s \in Seq(Activation(g)) /\ Len(s) = n
      /\ \A k \in 1..n : s[k] = Pair(ls[k], old[k])
  BY <1>1, ActivationsSeq DEF n
<1>5. /\ t \in Seq(Activation(g)) /\ Len(t) = n
      /\ \A k \in 1..n : t[k] = Pair(nl[k], new[k])
  BY <1>1, <1>2, <1>3, ActivationsSeq
<1> HIDE DEF s, t
<1>6. \A k \in 1..n - 1 : t[k] = s[k]
  <2>1. \A k \in 1..n - 1 : new[k] = old[k]
    BY DEF SameShape, n
  <2>2. \A k \in 1..n - 1 : k \in 1..n
    BY <1>1
  <2>3. QED
    BY <1>2, <1>4, <1>5, <2>1, <2>2
<1>7. s # <<>> /\ t # <<>>
  BY <1>1, <1>4, <1>5, EmptySeq
<1>8. /\ Front(s) \in Seq(Activation(g)) /\ Len(Front(s)) = n - 1 /\ Last(s) = s[n]
      /\ \A k \in 1..n - 1 : Front(s)[k] = s[k]
  BY <1>4, <1>7, FrontLast
<1>9. /\ Front(t) \in Seq(Activation(g)) /\ Len(Front(t)) = n - 1 /\ Last(t) = t[n]
      /\ \A k \in 1..n - 1 : Front(t)[k] = t[k]
  BY <1>5, <1>7, FrontLast
<1>10. Front(t) = Front(s)
  BY <1>6, <1>8, <1>9, SeqEqual
<1>11. /\ Last(t).loc = l /\ Last(t).ret = Last(s).ret
       /\ DOMAIN Last(t).vals = DOMAIN Last(s).vals
  <2>1. n \in 1..n
    BY <1>1
  <2>2. new[n].ret = old[n].ret /\ DOMAIN new[n].vals = DOMAIN old[n].vals
    BY <2>1 DEF SameShape, n
  <2>3. Last(t) = Pair(l, new[n]) /\ Last(s) = Pair(ls[n], old[n])
    BY <1>2, <1>4, <1>5, <1>8, <1>9, <2>1
  <2>4. QED
    BY <2>2, <2>3 DEF Pair
<1>12. QED
  BY <1>4, <1>5, <1>10, <1>11 DEF s, t, nl

\* The top activation goes on at location l.
Resumed(s, l) == [s EXCEPT ![Len(s)] = [Last(s) EXCEPT !.loc = l]]

CallShape(g, ls, old, l, m, fr, nl, new) ==
  /\ ls \in Seq(Location) /\ old \in Seq(Frame(g)) /\ old # <<>> /\ Len(old) = Len(ls)
  /\ l \in Location /\ m \in Location /\ fr \in Frame(g)
  /\ nl = Append(OverTop(ls, l), m)
  /\ new = Append(old, fr)

AfterCall(ls, old, l, m, fr) == Append(Resumed(Activations(ls, old), l), Pair(m, fr))

\* The activations after a call: the callee's on top of the resumed caller's.
LEMMA CallStack ==
  ASSUME NEW g, NEW ls, NEW old, NEW l, NEW m, NEW fr, NEW nl, NEW new,
         CallShape(g, ls, old, l, m, fr, nl, new)
  PROVE  Activations(nl, new) = AfterCall(ls, old, l, m, fr)
<1>0. /\ ls \in Seq(Location) /\ old \in Seq(Frame(g)) /\ old # <<>> /\ Len(old) = Len(ls)
      /\ l \in Location /\ m \in Location /\ fr \in Frame(g)
  BY DEF CallShape
<1> DEFINE n  == Len(ls)
           s  == Activations(ls, old)
           t  == Activations(nl, new)
           x  == [Last(s) EXCEPT !.loc = l]
           y  == Pair(m, fr)
           r  == [s EXCEPT ![Len(s)] = x]
<1>1. n \in Nat \ {0} /\ ls # <<>>
  BY <1>0, EmptySeq, LenProperties
<1>2. /\ OverTop(ls, l) \in Seq(Location) /\ Len(OverTop(ls, l)) = n /\ OverTop(ls, l)[n] = l
      /\ \A k \in 1..n - 1 : OverTop(ls, l)[k] = ls[k]
  BY <1>0, <1>1, OverwriteLast DEF OverTop
<1>3. /\ nl \in Seq(Location) /\ Len(nl) = n + 1 /\ nl[n] = l /\ nl[n + 1] = m
      /\ \A k \in 1..n - 1 : nl[k] = ls[k]
  <2> DEFINE b == OverTop(ls, l)
  <2> HIDE DEF b, n
  <2>1. /\ b \in Seq(Location) /\ Len(b) = n /\ b[n] = l
        /\ \A k \in 1..n - 1 : b[k] = ls[k]
    BY <1>2 DEF b
  <2>2. QED
    BY <1>0, <1>1, <2>1, AppendProperties DEF b, CallShape
<1>4. /\ new \in Seq(Frame(g)) /\ Len(new) = n + 1 /\ new[n + 1] = fr
      /\ \A k \in 1..n : new[k] = old[k]
  BY <1>0, <1>1, AppendProperties DEF CallShape
<1> HIDE DEF n
<1>5. /\ s \in Seq(Activation(g)) /\ Len(s) = n
      /\ \A k \in 1..n : s[k] = Pair(ls[k], old[k])
  BY <1>0, <1>1, ActivationsSeq DEF n
<1>6. /\ t \in Seq(Activation(g)) /\ Len(t) = n + 1
      /\ \A k \in 1..n + 1 : t[k] = Pair(nl[k], new[k])
  BY <1>1, <1>3, <1>4, ActivationsSeq
<1> HIDE DEF s, t
<1>7. s # <<>> /\ Last(s) = s[n] /\ s[n] \in Activation(g)
  BY <1>1, <1>5, EmptySeq, FrontLast
<1>8. x = Pair(l, old[n]) /\ x \in Activation(g)
  <2>1. n \in 1..n
    BY <1>1
  <2>2. Last(s) = Pair(ls[n], old[n]) /\ old[n] \in Frame(g)
    BY <1>0, <1>1, <1>5, <1>7, <2>1, ElementOfSeq DEF n
  <2>3. x = Pair(l, old[n])
    BY <2>2 DEF Pair
  <2> HIDE DEF x
  <2>4. QED
    BY <1>0, <2>2, <2>3 DEF Activation, Frame, Pair
<1>9. y \in Activation(g)
  BY <1>0 DEF Activation, Frame, Pair
<1> HIDE DEF x, y
<1>10. /\ r \in Seq(Activation(g)) /\ Len(r) = n /\ r[n] = x
       /\ \A k \in 1..n - 1 : r[k] = s[k]
  BY <1>5, <1>7, <1>8, OverwriteLast
<1> HIDE DEF r
<1>11. /\ Append(r, y) \in Seq(Activation(g)) /\ Len(Append(r, y)) = n + 1
       /\ Append(r, y)[n + 1] = y /\ \A k \in 1..n : Append(r, y)[k] = r[k]
  BY <1>1, <1>9, <1>10, AppendProperties
<1> DEFINE u == Append(r, y)
<1> HIDE DEF u
<1>12. ASSUME NEW k \in 1..n + 1 PROVE t[k] = u[k]
  <2>1. CASE k = n + 1
    BY <1>1, <1>3, <1>4, <1>6, <1>11, <2>1 DEF y, u
  <2>2. CASE k = n
    <3>1. k \in 1..n /\ k \in 1..n + 1
      BY <1>1, <2>2
    <3>2. t[k] = Pair(l, old[n])
      BY <1>3, <1>4, <1>6, <2>2, <3>1
    <3>3. u[k] = x
      BY <1>10, <1>11, <2>2, <3>1 DEF u
    <3>4. QED
      BY <1>8, <3>2, <3>3
  <2>3. CASE k \in 1..n - 1
    <3>1. k \in 1..n /\ k \in 1..n + 1
      BY <1>1, <2>3
    <3>2. t[k] = Pair(ls[k], old[k])
      BY <1>3, <1>4, <1>6, <2>3, <3>1
    <3>3. u[k] = s[k]
      BY <1>10, <1>11, <2>3, <3>1 DEF u
    <3>4. QED
      BY <1>5, <3>1, <3>2, <3>3
  <2>4. QED
    BY <1>1, <2>1, <2>2, <2>3
<1>13. t = Append(r, y)
  BY <1>6, <1>11, <1>12, SeqEqual DEF u
<1>14. QED
  BY <1>13 DEF t, r, x, y, s, Resumed, AfterCall

ReturnShape(g, ls, old, nl, new) ==
  /\ ls \in Seq(Location) /\ old \in Seq(Frame(g)) /\ Len(old) = Len(ls) /\ Len(ls) > 1
  /\ nl \in Seq(Location) /\ Len(nl) = Len(ls) - 1
  /\ \A k \in 1..Len(ls) - 1 : nl[k] = ls[k]
  /\ new \in Seq(Frame(g)) /\ Len(new) = Len(ls) - 1
  /\ \A k \in 1..Len(ls) - 2 : new[k] = old[k]

AfterReturn(ls, old, new) ==
  Append(Front(Front(Activations(ls, old))), Pair(ls[Len(ls) - 1], new[Len(ls) - 1]))

\* The activations after a return: the callee's is gone.
LEMMA ReturnStack ==
  ASSUME NEW g, NEW ls, NEW old, NEW nl, NEW new, ReturnShape(g, ls, old, nl, new)
  PROVE  Activations(nl, new) = AfterReturn(ls, old, new)
<1>0. /\ ls \in Seq(Location) /\ old \in Seq(Frame(g)) /\ Len(old) = Len(ls) /\ Len(ls) > 1
      /\ nl \in Seq(Location) /\ Len(nl) = Len(ls) - 1
      /\ \A k \in 1..Len(ls) - 1 : nl[k] = ls[k]
      /\ new \in Seq(Frame(g)) /\ Len(new) = Len(ls) - 1
      /\ \A k \in 1..Len(ls) - 2 : new[k] = old[k]
  BY DEF ReturnShape
<1> DEFINE n == Len(ls)
           s == Activations(ls, old)
           t == Activations(nl, new)
           y == Pair(ls[n - 1], new[n - 1])
<1>1. n \in Nat /\ n > 1
  BY <1>0, LenProperties
<1>2. /\ s \in Seq(Activation(g)) /\ Len(s) = n
      /\ \A k \in 1..n : s[k] = Pair(ls[k], old[k])
  BY <1>0, <1>1, ActivationsSeq
<1>3. /\ t \in Seq(Activation(g)) /\ Len(t) = n - 1
      /\ \A k \in 1..n - 1 : t[k] = Pair(nl[k], new[k])
  BY <1>0, <1>1, ActivationsSeq
<1> HIDE DEF s, t, n
<1>4. /\ Front(s) \in Seq(Activation(g)) /\ Len(Front(s)) = n - 1
      /\ \A k \in 1..n - 1 : Front(s)[k] = s[k]
  <2>1. s # <<>>
    BY <1>1, <1>2, EmptySeq
  <2>2. /\ Front(s) \in Seq(Activation(g)) /\ Len(Front(s)) = Len(s) - 1
        /\ \A k \in 1..Len(s) - 1 : Front(s)[k] = s[k]
    BY <1>2, <2>1, FrontLast
  <2>3. QED
    BY <1>2, <2>2
<1> DEFINE u == Front(s)
<1> HIDE DEF u
<1>5. u \in Seq(Activation(g)) /\ Len(u) = n - 1 /\ \A k \in 1..n - 1 : u[k] = s[k]
  BY <1>4 DEF u
<1>6. /\ Front(u) \in Seq(Activation(g)) /\ Len(Front(u)) = n - 2
      /\ \A k \in 1..n - 2 : Front(u)[k] = u[k]
  <2>1. u # <<>>
    BY <1>1, <1>5, EmptySeq
  <2>2. /\ Front(u) \in Seq(Activation(g)) /\ Len(Front(u)) = Len(u) - 1
        /\ \A k \in 1..Len(u) - 1 : Front(u)[k] = u[k]
    BY <1>5, <2>1, FrontLast
  <2>3. Len(u) - 1 = n - 2
    BY <1>1, <1>5
  <2>4. QED
    BY <2>2, <2>3
<1> DEFINE w == Front(u)
<1> HIDE DEF w
<1>7. w \in Seq(Activation(g)) /\ Len(w) = n - 2 /\ \A k \in 1..n - 2 : w[k] = s[k]
  BY <1>1, <1>5, <1>6 DEF w
<1>8. t[n - 1] = y
  BY <1>0, <1>1, <1>3 DEF n
<1>9. y \in Activation(g)
  BY <1>1, <1>3, <1>8, ElementOfSeq
<1> HIDE DEF y
<1>10. /\ Append(w, y) \in Seq(Activation(g)) /\ Len(Append(w, y)) = n - 1
       /\ Append(w, y)[n - 1] = y /\ \A k \in 1..n - 2 : Append(w, y)[k] = w[k]
  BY <1>1, <1>7, <1>9, AppendProperties
<1>11. \A k \in 1..n - 2 : t[k] = s[k]
  <2>1. \A k \in 1..n - 2 : nl[k] = ls[k] /\ new[k] = old[k]
    BY <1>0, <1>1 DEF n
  <2>2. \A k \in 1..n - 2 : k \in 1..n - 1 /\ k \in 1..n
    BY <1>1
  <2>3. QED
    BY <1>2, <1>3, <2>1, <2>2
<1> DEFINE v == Append(w, y)
<1> HIDE DEF v
<1>12. \A k \in 1..n - 1 : t[k] = v[k]
  <2>1. v[n - 1] = y /\ \A k \in 1..n - 2 : v[k] = w[k]
    BY <1>10 DEF v
  <2>2. QED
    BY <1>1, <1>7, <1>8, <1>11, <2>1
<1>13. t = Append(w, y)
  BY <1>3, <1>10, <1>12, SeqEqual DEF v
<1>14. QED
  BY <1>13 DEF t, s, u, w, y, n, AfterReturn

-----------------------------------------------------------------------------
(* The refinement                                                          *)

\* CallDiscipline reads programs and sequences as Machine does.
LEMMA SameOperators ==
  /\ \A g : Discipline!Procs(g) = Procs(g)
  /\ \A q : Discipline!Last(q) = Last(q) /\ Discipline!Front(q) = Front(q)
  /\ \A e : Discipline!IsCall(e) = IsCall(e) /\ Discipline!IsReturn(e) = IsReturn(e)
  BY DEF Discipline!Procs, Procs, Discipline!Last, Last, Discipline!Front, Front,
         Discipline!IsCall, IsCall, Discipline!IsReturn, IsReturn

\* CallDiscipline accepts the programs Machine does.
LEMMA SameDiscipline ==
  ASSUME NEW g
  PROVE  Discipline!Disciplined(g) <=> Disciplined(g)
<1>1. \A f, r : Discipline!InScope(g, f, r) <=> InScope(g, f, r)
  BY DEF Discipline!InScope, InScope
<1>2. Discipline!Writes = Writes /\ Discipline!StackOps = StackOps
  BY DEF Discipline!Writes, Writes, Discipline!StackOps, StackOps
<1>3. \A f, i : Discipline!WellTyped(g, f, i) <=> WellTyped(g, f, i)
  BY <1>1, <1>2 DEF Discipline!WellTyped, WellTyped
<1>4. \A e : Discipline!StackOpsLast(e) <=> StackOpsLast(e)
  BY <1>2 DEF Discipline!StackOpsLast, StackOpsLast
<1>5. Discipline!WellFormed(g) <=> WellFormed(g)
  BY <1>3, <1>4, SameOperators DEF Discipline!WellFormed, WellFormed
<1>6. Discipline!ReturnsReceived(g) <=> ReturnsReceived(g)
  BY <1>1, SameOperators DEF Discipline!ReturnsReceived, ReturnsReceived
<1>7. QED
  BY <1>5, <1>6 DEF Discipline!Disciplined, Disciplined

\* Initial states map to initial states.
LEMMA InitRefines == Init => Discipline!Init
<1> SUFFICES ASSUME Init PROVE Discipline!Init
  OBVIOUS
<1>1. PICK heap \in [Cell -> Value] :
        data = [ frames |-> [p \in Procs(prog) |-> <<NewFrame(prog, prog.entries[p], <<>>, NoReg)>>],
                 cpu    |-> [p \in Procs(prog) |-> [id \in 0..NbCpu - 1 |-> Zero]],
                 heap   |-> heap ]
  BY DEF Init
<1>2. prog \in Programs /\ data.cpu = [p \in Procs(prog) |-> [id \in 0..NbCpu - 1 |-> Zero]] /\ data.heap \in [Cell -> Value]
  BY <1>1 DEF Init
<1>3. ASSUME NEW p \in Procs(prog)
      PROVE  Activations(locs[p], data.frames[p]) =
               << [ loc  |-> prog.init[prog.entries[p]],
                    vals |-> Discipline!Blank(prog.entries[p]),
                    ret  |-> NoReg ] >>
  <2> DEFINE fr == NewFrame(prog, prog.entries[p], <<>>, NoReg)
  <2>1. fr.vals = Discipline!Blank(prog.entries[p]) /\ fr.ret = NoReg
    BY DEF NewFrame, Discipline!Blank
  <2> HIDE DEF fr
  <2>2. data.frames[p] = <<fr>>
    BY <1>1 DEF fr
  <2>3. locs[p] = <<prog.init[prog.entries[p]]>>
    BY DEF Init
  <2>4. QED
    BY <2>1, <2>2, <2>3 DEF Activations
<1>4. QED
  BY <1>2, <1>3, SameOperators DEF Discipline!Init

\* The stacks of a commit.
LEMMA CommitStacks ==
  ASSUME Inv, Disciplined(prog), Commit
  PROVE  Discipline!Next
<1> DEFINE p    == job.proc
           e    == job.edge
           call == Last(e.instrs)
           ls   == locs[p]
           base == OverTop(ls, e.to)
           n    == Len(ls)
           old  == data.frames[p]
           new  == ndata.frames[p]
           st   == [q \in Procs(prog) |-> Activations(locs[q], data.frames[q])]
           st2  == [q \in Procs(prog) |-> Activations(nlocs[q], ndata.frames[q])]
<1>1. /\ phase = "data" /\ ~more /\ prog' = prog /\ locs' = nlocs /\ data' = ndata
      /\ TypeOK /\ StackInv /\ Progress /\ nlocs = Final
  BY DEF Commit, Leave, Inv, StackInv
<1>2. /\ prog \in VMPrograms /\ p \in Procs(prog) /\ e \in prog.edges /\ e.to \in Location
      /\ pc \in Nat /\ Len(e.instrs) \in Nat
      /\ new \in Seq(Frame(prog)) /\ nlocs[p] \in Seq(Location)
  BY <1>1, TypeParts, JobType, DataParts DEF LocStacks, Edge
<1>3. /\ ls \in Seq(Location) /\ old \in Seq(Frame(prog)) /\ old # <<>>
      /\ n \in Nat \ {0} /\ Len(old) = n /\ e.from = ls[n]
  BY <1>1, JobFacts
<1>4. /\ base \in Seq(Location) /\ Len(base) = n /\ base # <<>>
      /\ \A k \in 1..n - 1 : base[k] = ls[k]
      /\ nlocs[p] = IF IsCall(e) THEN Append(base, prog.init[call.func])
                    ELSE IF IsReturn(e) /\ n > 1 THEN Front(base) ELSE base
      /\ IsCall(e) => call.func \in Func /\ call.res \in Reg \cup {NoReg} /\ prog.init[call.func] \in Location
  BY <1>1, FinalLocs
<1>5. ASSUME NEW q \in Procs(prog) \ {p}
      PROVE  st2[q] = st[q] /\ ndata.cpu[q] = data.cpu[q]
  BY <1>1, FinalLocs DEF Progress
<1>6. /\ ~IsCall(e) /\ ~IsReturn(e) => SameShape(new, old)
      /\ IsCall(e) => Called(prog, call, data, ndata, p)
      /\ IsReturn(e) => Returned(call.op, old, new)
  BY <1>1, <1>2 DEF Progress, more
<1>7. st[p] = Activations(ls, old) /\ st2[p] = Activations(nlocs[p], new)
  BY <1>2
<1> DEFINE s == Activations(ls, old)
<1>8. /\ s \in Seq(Activation(prog)) /\ Len(s) = n /\ s # <<>> /\ Last(s) = s[n]
      /\ \A k \in 1..n : s[k] = Pair(ls[k], old[k])
  <2>1. /\ s \in Seq(Activation(prog)) /\ Len(s) = n
        /\ \A k \in 1..n : s[k] = Pair(ls[k], old[k])
    BY <1>3, ActivationsSeq
  <2> HIDE DEF s, n
  <2>2. s # <<>>
    BY <1>3, <2>1, EmptySeq
  <2>3. Last(s) = s[Len(s)]
    BY <2>1, <2>2, FrontLast
  <2>4. QED
    BY <2>1, <2>2, <2>3
<1> HIDE DEF s, n, old, new, base
<1>9. Last(s) = Pair(e.from, old[n])
  BY <1>3, <1>8
<1>10. Discipline!Follow(p, e)
  <2>1. st[p] = s /\ s # <<>> /\ Last(s).loc = e.from
    BY <1>7, <1>8, <1>9 DEF Pair, s, old
  <2>2. Discipline!Top(p) = Last(st[p])
    BY SameOperators DEF Discipline!Top
  <2>3. st' = st2 /\ data'.cpu = ndata.cpu
    BY <1>1
  <2>4. Discipline!Procs(prog) = Procs(prog)
    BY SameOperators
  <2>5. QED
    BY <1>1, <1>5, <2>1, <2>2, <2>3, <2>4 DEF Discipline!Follow
<1>11. st' = st2 /\ data'.cpu = ndata.cpu /\ data'.heap = ndata.heap
  BY <1>1
<1>12. /\ Discipline!Procs(prog) = Procs(prog)
       /\ Discipline!IsCall(e) = IsCall(e) /\ Discipline!IsReturn(e) = IsReturn(e)
       /\ \A q : Discipline!Last(q) = Last(q) /\ Discipline!Front(q) = Front(q)
  BY SameOperators
<1>13. Discipline!Top(p) = Last(s) /\ st[p] = s
  BY <1>7, <1>12 DEF Discipline!Top, s, old
<1>14. ASSUME ~IsCall(e), ~IsReturn(e) PROVE Discipline!Compute(p, e)
  <2> DEFINE t == Activations(base, new)
  <2>1. SameShape(new, old) /\ nlocs[p] = base
    BY <1>4, <1>6, <1>14
  <2>2. /\ Len(t) = Len(s) /\ Front(t) = Front(s)
        /\ Last(t).loc = e.to /\ Last(t).ret = Last(s).ret
        /\ DOMAIN Last(t).vals = DOMAIN Last(s).vals
    BY <1>2, <1>3, <2>1, ComputeStack DEF s, base, n
  <2>3. st2[p] = t
    BY <1>7, <2>1
  <2> HIDE DEF t, st, st2
  <2>4. QED
    BY <1>10, <1>11, <1>12, <1>13, <1>14, <2>2, <2>3 DEF Discipline!Compute, st
<1>15. ASSUME IsCall(e) PROVE Discipline!CallStep(p, e)
  <2>1. PICK vals \in [0..prog.regs[call.func] - 1 -> Value] :
          /\ new = Append(old, [vals |-> vals, ret |-> call.res])
          /\ Received(prog, data, p, call, vals)
    BY <1>6, <1>15 DEF Called, new, old
  <2>2. ndata.cpu = data.cpu /\ ndata.heap = data.heap
    BY <1>6, <1>15 DEF Called
  <2> DEFINE fr == [vals |-> vals, ret |-> call.res]
             l  == prog.init[call.func]
  <2>3. fr \in Frame(prog) /\ l \in Location
    BY <1>4, <1>15 DEF Frame
  <2>4. Pair(l, fr) = [loc |-> l, vals |-> vals, ret |-> call.res]
    BY DEF Pair
  <2> HIDE DEF fr, l
  <2>5. nlocs[p] = Append(base, l) /\ new = Append(old, fr)
    BY <1>4, <1>15, <2>1 DEF fr, l
  <2>6. st2[p] = Append(Resumed(s, e.to), Pair(l, fr))
    <3>1. CallShape(prog, ls, old, e.to, l, fr, nlocs[p], new)
      BY <1>2, <1>3, <2>3, <2>5 DEF CallShape, base, n
    <3>2. Activations(nlocs[p], new) = AfterCall(ls, old, e.to, l, fr)
      BY <3>1, CallStack
    <3>3. QED
      BY <1>7, <3>2 DEF AfterCall, s
  <2>7. Discipline!Passed(p, call, vals)
    <3>1. Last(s).vals = TopFrame(data, p).vals
      <4>1. Last(old) = old[n]
        BY <1>3 DEF Last
      <4>2. TopFrame(data, p) = old[n]
        BY <4>1 DEF TopFrame, old
      <4>3. QED
        BY <1>9, <4>2 DEF Pair
    <3>2. \A a : Discipline!Eval(p, a) = Lookup(data, p, a)
      BY <1>13, <3>1 DEF Discipline!Eval, Lookup
    <3> DEFINE at(id) == { k \in 1..Len(call.args) : prog.params[call.func][k] = id }
    <3>3. ASSUME NEW id \in DOMAIN vals
          PROVE  IF at(id) = {} THEN vals[id] = Zero
                 ELSE \E k \in at(id) : vals[id] = Discipline!Eval(p, call.args[k])
      <4>1. \/ vals[id] = Zero /\ \A k \in 1..Len(call.args) : prog.params[call.func][k] # id
            \/ \E k \in 1..Len(call.args) :
                 prog.params[call.func][k] = id /\ vals[id] = Lookup(data, p, call.args[k])
        BY <2>1 DEF Received
      <4>2. CASE vals[id] = Zero /\ at(id) = {}
        BY <4>2
      <4>3. CASE \E k \in at(id) : vals[id] = Lookup(data, p, call.args[k])
        BY <3>2, <4>3
      <4>4. QED
        BY <4>1, <4>2, <4>3
    <3>4. QED
      BY <3>3 DEF Discipline!Passed
  <2> HIDE DEF st, st2, call
  <2>8. QED
    BY <1>10, <1>11, <1>12, <1>13, <1>15, <2>2, <2>4, <2>6, <2>7
       DEF Discipline!CallStep, st, call, l, Resumed
<1>16. ASSUME IsReturn(e), ~IsCall(e), n > 1 PROVE Discipline!ReturnStep(p, e)
  <2>1. nlocs[p] = Front(base)
    BY <1>4, <1>16
  <2>2. Len(Front(base)) = n - 1 /\ \A k \in 1..n - 1 : Front(base)[k] = base[k]
    BY <1>4, FrontLast
  <2>3. Len(nlocs[p]) = n - 1 /\ \A k \in 1..n - 1 : nlocs[p][k] = ls[k]
    BY <1>4, <2>1, <2>2
  <2>4. Len(new) = n - 1 /\ \A k \in 1..n - 2 : new[k] = old[k]
    BY <1>3, <1>6, <1>16 DEF Returned
  <2>5. Activations(nlocs[p], new) = Append(Front(Front(s)), Pair(ls[n - 1], new[n - 1]))
    <3>1. ReturnShape(prog, ls, old, nlocs[p], new)
      BY <1>2, <1>3, <1>16, <2>3, <2>4 DEF ReturnShape, n
    <3>2. Activations(nlocs[p], new) = AfterReturn(ls, old, new)
      BY <3>1, ReturnStack
    <3>3. QED
      BY <3>2 DEF AfterReturn, s, n
  <2> DEFINE below == s[n - 1]
             r     == old[n].ret.id
  <2>6. below = Pair(ls[n - 1], old[n - 1]) /\ old[n - 1] \in Frame(prog) /\ Last(s).ret = old[n].ret
    BY <1>3, <1>8, <1>9, <1>16, ElementOfSeq DEF Pair
  <2>7. \E v \in Value :
          Pair(ls[n - 1], new[n - 1])
            = IF call.op = "Ret" THEN [below EXCEPT !.vals = [below.vals EXCEPT ![r] = v]] ELSE below
    <3>1. CASE call.op = "RetVoid"
      BY <1>3, <1>6, <1>16, <2>6, <3>1, ValuesOK DEF Returned
    <3>2. CASE call.op = "Ret"
      <4>1. PICK v \in Value : new[n - 1] = SetRegister(old[n - 1], r, v)
        BY <1>3, <1>6, <1>16, <3>2 DEF Returned
      <4>2. Pair(ls[n - 1], SetRegister(old[n - 1], r, v)) = [below EXCEPT !.vals = [below.vals EXCEPT ![r] = v]]
        BY <2>6 DEF Pair, SetRegister, Frame
      <4>3. QED
        BY <3>2, <4>1, <4>2
    <3>3. QED
      BY <1>16, <3>1, <3>2 DEF IsReturn
  <2> HIDE DEF st, st2, call, r, below
  <2>8. PICK v \in Value :
          Pair(ls[n - 1], new[n - 1])
            = IF call.op = "Ret" THEN [below EXCEPT !.vals = [below.vals EXCEPT ![r] = v]] ELSE below
    BY <2>7
  <2> DEFINE y == Pair(ls[n - 1], new[n - 1])
             z == IF call.op = "Ret" THEN [below EXCEPT !.vals = [below.vals EXCEPT ![r] = v]] ELSE below
  <2>9. st2[p] = Append(Front(Front(s)), y)
    <3>1. nlocs[p] = Front(base)
      BY <2>1
    <3>2. st2[p] = Activations(nlocs[p], new)
      BY <1>7
    <3>3. QED
      BY <3>2, <2>5
  <2>10. y = z
    BY <2>8
  <2> HIDE DEF y
  <2>11. st'[p] = Append(Front(Front(s)), z)
    BY <1>11, <2>9, <2>10
  <2>12. Len(st[p]) = n /\ st[p][n - 1] = below
    BY <1>3, <1>8, <1>13 DEF below
  <2>13. Discipline!Top(p).ret.id = r
    BY <1>13, <2>6 DEF r
  <2>14. Discipline!Front(Discipline!Front(st[p])) = Front(Front(s)) /\ Discipline!Last(e.instrs) = call
    BY <1>12, <1>13 DEF call
  <2>15. Discipline!IsReturn(e) /\ Discipline!Follow(p, e)
    BY <1>10, <1>12, <1>16
  <2>16. st'[p] = Append(Discipline!Front(Discipline!Front(st[p])),
                   IF Discipline!Last(e.instrs).op = "Ret"
                     THEN [st[p][Len(st[p]) - 1] EXCEPT !.vals =
                            [st[p][Len(st[p]) - 1].vals EXCEPT ![Discipline!Top(p).ret.id] = v]]
                     ELSE st[p][Len(st[p]) - 1])
    BY <2>11, <2>12, <2>13, <2>14
  <2>17. Len(st[p]) > 1
    BY <1>16, <2>12
  <2>18. QED
    BY <2>15, <2>16, <2>17 DEF Discipline!ReturnStep, st
<1>17. ASSUME IsReturn(e), ~IsCall(e), n = 1 PROVE Discipline!FinishStep(p, e)
  <2>1. Len(new) = 0
    BY <1>3, <1>6, <1>17 DEF Returned
  <2>2. nlocs[p] = base
    BY <1>4, <1>17
  <2>3. Len(st2[p]) = 0 /\ st2[p] \in Seq(Activation(prog))
    <3>1. base \in Seq(Location) /\ new \in Seq(Frame(prog)) /\ Len(new) <= Len(base)
      BY <1>2, <1>4, <1>17, <2>1
    <3>2. Activations(base, new) \in Seq(Activation(prog)) /\ Len(Activations(base, new)) = 0
      BY <2>1, <3>1, ActivationsSeq
    <3>3. st2[p] = Activations(base, new)
      BY <1>7, <2>2
    <3>4. QED
      BY <3>2, <3>3
  <2>4. st2[p] = <<>>
    BY <2>3, EmptySeq
  <2> HIDE DEF st, st2
  <2>5. QED
    BY <1>8, <1>10, <1>11, <1>12, <1>13, <1>17, <2>4 DEF Discipline!FinishStep, st
<1>18. n = 1 \/ n > 1
  BY <1>3
<1>19. ~(IsCall(e) /\ IsReturn(e))
  BY <1>2, EdgeFacts
<1>20. QED
  BY <1>2, <1>12, <1>14, <1>15, <1>16, <1>17, <1>18, <1>19 DEF Discipline!Next

\* Each transfer over the two stacks is one step of the machine with a single stack
\* of activations per process, all other steps leave that stack alone.
THEOREM MachineRefines == Spec => ImplementsCallDiscipline
<1>1. Init => Discipline!Init
  BY InitRefines
<1>2. ASSUME Inv, [Next]_vars PROVE [Discipline!Next]_(Discipline!vars)
  <2>1. CASE ~Commit
    BY <1>2, <2>1, OnlyCommit DEF Discipline!vars
  <2>2. CASE Commit /\ Disciplined(prog)
    BY <1>2, <2>2, CommitStacks
  <2>3. CASE Commit /\ ~Disciplined(prog)
    <3>1. prog' = prog
      BY <2>3 DEF Commit, Leave
    <3>2. Discipline!Anything
      BY <2>3, <3>1, SameDiscipline DEF Discipline!Anything
    <3>3. QED
      BY <3>2 DEF Discipline!Next
  <2>4. QED
    BY <2>1, <2>2, <2>3
<1>3. QED
  BY <1>1, <1>2, Invariance, PTL DEF Spec, Discipline!Spec, ImplementsCallDiscipline

=============================================================================
