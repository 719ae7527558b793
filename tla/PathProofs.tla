----------------------------- MODULE PathProofs -----------------------------
(***************************************************************************)
(* Proofs about the path formula for every set of programs, of registers   *)
(* and values, and for paths of any length: what the terms and the formula *)
(* say in a world is what the run that makes the choices of that world     *)
(* does.                                                                   *)
(***************************************************************************)
EXTENDS PathFormula, SequenceTheorems, TLAPS

-----------------------------------------------------------------------------
(* Types                                                                   *)

Frames(V) == [vals : UNION {[D -> V] : D \in SUBSET Nat}, ret : Reg \cup {NoReg}]
Cpu(V)    == [0..NbCpu - 1 -> V \cup {NoTerm}]

TermStates  == [locs : Seq(Location), formula : SUBSET World, assump : SUBSET World,
                frames : Seq(Frames(Term)), cpu : Cpu(Term)]
PlainStates == [stopped : {"no", "assume", "assert"}, frames : Seq(Frames(Value)), cpu : Cpu(Value)]

-----------------------------------------------------------------------------
(* The invariant                                                           *)

\* In the world that was chosen the terms of c have the values of d, register by
\* register.
FrameSame(f, g) ==
  /\ f.ret = g.ret /\ DOMAIN f.vals = DOMAIN g.vals
  /\ \A r \in DOMAIN f.vals : g.vals[r] = f.vals[r][world]

Mirrors(c, d) ==
  /\ Len(c.frames) = Len(d.frames)
  /\ \A i \in 1..Len(c.frames) : FrameSame(c.frames[i], d.frames[i])
  /\ \A r \in 0..NbCpu - 1 : Denotes(c.cpu[r], world, d.cpu[r])

\* The run d follows the path to c, whose models are ws.
Follows(c, d, ws) ==
  /\ Going(d) => world \in ws /\ Mirrors(c, d)
  /\ world \in ws => d.stopped # "assume"

\* The edge that is run.
UnderWay ==
  /\ edge \in prog.edges /\ pc \in Nat \ {0}
  /\ copy.formula = state.formula
  /\ Follows(copy, pcopy, copy.formula \cap copy.assump)

\* What evaluate answered.
Answered ==
  /\ phase = "shown"
  /\ state.frames # <<>> /\ shown.reg \in DOMAIN Top(state).vals
  /\ shown.model \in state.formula /\ shown.value = Top(state).vals[shown.reg][shown.model]

PathTypes ==
  /\ prog \in VMPrograms /\ world \in World
  /\ phase \in {"idle", "run", "shown", "filtered", "undefined", "refused"}
  /\ phase = "refused" <=> Len(prog.entries) # 1
  /\ fresh \in 0..MaxVars
  /\ phase # "refused" =>
       /\ state \in TermStates /\ copy \in TermStates /\ plain \in PlainStates /\ pcopy \in PlainStates
       /\ Len(state.locs) \in 1..MaxDepth /\ Len(copy.locs) \in 1..MaxDepth

PathInv ==
  /\ PathTypes
  /\ phase # "refused" => Follows(state, plain, state.formula)
  /\ phase = "run" => UnderWay
  /\ shown # Nothing => Answered
  /\ phase = "filtered" => state.formula = {}

-----------------------------------------------------------------------------
(* Frames and CPU registers                                                *)

LEMMA NoTermIsNone ==
  ASSUME world \in World
  PROVE  NoTerm \notin Term
<1>1. SUFFICES ASSUME NoTerm \in Term PROVE FALSE
  OBVIOUS
<1>2. DOMAIN NoTerm = World
  BY <1>1 DEF Term
<1>3. DOMAIN NoTerm = {}
  BY DEF NoTerm
<1>4. QED
  BY <1>2, <1>3

\* The last of a sequence that is not empty, and what is before it.
LEMMA LastFront ==
  ASSUME NEW S, NEW s \in Seq(S), s # <<>>
  PROVE  /\ Len(s) \in Nat \ {0} /\ Last(s) = s[Len(s)] /\ Last(s) \in S
         /\ Front(s) \in Seq(S) /\ Len(Front(s)) = Len(s) - 1
         /\ \A i \in 1..Len(s) - 1 : Front(s)[i] = s[i]
<1>1. PICK n \in Nat \ {0} : n = Len(s)
  BY EmptySeq
<1>2. Last(s) = s[n] /\ Last(s) \in S
  BY <1>1, ElementOfSeq DEF Last
<1>3. Front(s) = SubSeq(s, 1, n - 1)
  BY <1>1 DEF Front
<1>4. \A i \in 1..n - 1 : s[i] \in S
  BY <1>1, ElementOfSeq
<1>5. /\ SubSeq(s, 1, n - 1) \in Seq(S)
      /\ Len(SubSeq(s, 1, n - 1)) = IF 1 <= n - 1 THEN n - 1 - 1 + 1 ELSE 0
      /\ \A i \in 1..n - 1 - 1 + 1 : SubSeq(s, 1, n - 1)[i] = s[1 + i - 1]
  BY <1>1, <1>4, SubSeqProperties
<1>6. Len(Front(s)) = n - 1
  BY <1>1, <1>3, <1>5
<1>7. \A i \in 1..n - 1 : Front(s)[i] = s[i]
  BY <1>1, <1>3, <1>5
<1>8. QED
  BY <1>1, <1>2, <1>3, <1>5, <1>6, <1>7

\* A register of the top frame is replaced.
Put(fs, id, v) == [fs EXCEPT ![Len(fs)].vals[id] = v]

LEMMA PutAt ==
  ASSUME NEW V, NEW fs \in Seq(Frames(V)), fs # <<>>, NEW id \in DOMAIN Last(fs).vals, NEW v \in V
  PROVE  /\ Put(fs, id, v) \in Seq(Frames(V)) /\ Len(Put(fs, id, v)) = Len(fs)
         /\ \A i \in 1..Len(fs) :
              /\ Put(fs, id, v)[i].ret = fs[i].ret
              /\ DOMAIN Put(fs, id, v)[i].vals = DOMAIN fs[i].vals
              /\ \A r \in DOMAIN fs[i].vals :
                   Put(fs, id, v)[i].vals[r] = IF i = Len(fs) /\ r = id THEN v ELSE fs[i].vals[r]
<1>1. PICK n \in Nat \ {0} : n = Len(fs)
  BY EmptySeq
<1>2. fs[n] \in Frames(V) /\ Last(fs) = fs[n] /\ n \in 1..n
  BY <1>1, ElementOfSeq DEF Last
<1>3. PICK D \in SUBSET Nat : fs[n].vals \in [D -> V]
  BY <1>2 DEF Frames
<1> DEFINE new == [fs[n] EXCEPT !.vals[id] = v]
<1>4. /\ new \in Frames(V) /\ new.ret = fs[n].ret /\ DOMAIN new.vals = DOMAIN fs[n].vals
      /\ \A r \in DOMAIN fs[n].vals : new.vals[r] = IF r = id THEN v ELSE fs[n].vals[r]
  <2>1. /\ [fs[n].vals EXCEPT ![id] = v] \in [D -> V]
        /\ \A r \in D : [fs[n].vals EXCEPT ![id] = v][r] = IF r = id THEN v ELSE fs[n].vals[r]
    BY <1>2, <1>3
  <2>2. new.vals = [fs[n].vals EXCEPT ![id] = v] /\ new.ret = fs[n].ret /\ new \in Frames(V)
    BY <1>2, <2>1 DEF Frames
  <2>3. QED
    BY <1>3, <2>1, <2>2
<1>5. Put(fs, id, v) = [fs EXCEPT ![n] = new]
  BY <1>1 DEF Put
<1> HIDE DEF new
<1>6. /\ [fs EXCEPT ![n] = new] \in Seq(Frames(V)) /\ Len([fs EXCEPT ![n] = new]) = n
      /\ \A i \in 1..n : [fs EXCEPT ![n] = new][i] = IF i = n THEN new ELSE fs[i]
  BY <1>1, <1>2, <1>4, ExceptSeq
<1>7. QED
  BY <1>1, <1>2, <1>4, <1>5, <1>6

\* Where both runs have the same registers, they read the same, unless the register
\* was never written.
LEMMA ReadSame ==
  ASSUME world \in World, NEW c \in TermStates, NEW d \in PlainStates,
         NEW r \in Reg, HasReg(c, r), Read(c, r) # NoTerm
  PROVE  Read(c, r) \in Term /\ (Mirrors(c, d) => Read(d, r) = Read(c, r)[world])
<1>1. CASE r.kind = "local"
  <2>1. c.frames \in Seq(Frames(Term)) /\ c.frames # <<>> /\ r.id \in DOMAIN Top(c).vals
    BY <1>1 DEF HasReg, TermStates
  <2>2. /\ Len(c.frames) \in Nat \ {0} /\ Top(c) = c.frames[Len(c.frames)] /\ Top(c) \in Frames(Term)
    BY <2>1, LastFront DEF Top
  <2>3. Read(c, r) = Top(c).vals[r.id] /\ Read(d, r) = Top(d).vals[r.id]
    BY <1>1 DEF Read
  <2>4. Read(c, r) \in Term
    <3>1. PICK D \in SUBSET Nat : Top(c).vals \in [D -> Term]
      BY <2>2 DEF Frames
    <3>2. QED
      BY <2>1, <2>3, <3>1
  <2>5. ASSUME Mirrors(c, d) PROVE Read(d, r) = Read(c, r)[world]
    <3>1. Len(c.frames) = Len(d.frames) /\ Top(d) = d.frames[Len(d.frames)]
      BY <2>5 DEF Mirrors, Top, Last
    <3>2. Len(c.frames) \in 1..Len(c.frames)
      BY <2>2
    <3>3. QED
      BY <2>1, <2>2, <2>3, <2>5, <3>1, <3>2 DEF Mirrors, FrameSame
  <2>6. QED
    BY <2>4, <2>5
<1>2. CASE r.kind # "local"
  <2>1. Read(c, r) = c.cpu[r.id] /\ Read(d, r) = d.cpu[r.id] /\ r.id \in DOMAIN c.cpu
    BY <1>2 DEF Read, HasReg
  <2>2. DOMAIN c.cpu = 0..NbCpu - 1 /\ c.cpu[r.id] \in Term \cup {NoTerm}
    BY <2>1 DEF TermStates, Cpu
  <2>3. QED
    BY <2>1, <2>2 DEF Mirrors, Denotes
<1>3. QED
  BY <1>1, <1>2

\* The two runs write the same local register.
LEMMA SetLocalSame ==
  ASSUME world \in World, NEW c \in TermStates, NEW d \in PlainStates,
         c.frames # <<>>, NEW id \in DOMAIN Top(c).vals, NEW t \in Term
  PROVE  /\ SetLocal(c, id, t) \in TermStates
         /\ SetLocal(c, id, t).locs = c.locs
         /\ SetLocal(c, id, t).formula = c.formula /\ SetLocal(c, id, t).assump = c.assump
         /\ Mirrors(c, d) => /\ SetLocal(d, id, t[world]) \in PlainStates
                             /\ SetLocal(d, id, t[world]).stopped = d.stopped
                             /\ Mirrors(SetLocal(c, id, t), SetLocal(d, id, t[world]))
<1> DEFINE v  == t[world]
           fc == Put(c.frames, id, t)
           fd == Put(d.frames, id, v)
<1>1. c.frames \in Seq(Frames(Term)) /\ d.frames \in Seq(Frames(Value))
  BY DEF TermStates, PlainStates
<1>2. SetLocal(c, id, t) = [c EXCEPT !.frames = fc] /\ SetLocal(d, id, v) = [d EXCEPT !.frames = fd]
  BY DEF SetLocal, Put
<1>3. v \in Value
  BY DEF Term
<1>4. /\ fc \in Seq(Frames(Term)) /\ Len(fc) = Len(c.frames)
      /\ \A i \in 1..Len(c.frames) :
           /\ fc[i].ret = c.frames[i].ret
           /\ DOMAIN fc[i].vals = DOMAIN c.frames[i].vals
           /\ \A r \in DOMAIN c.frames[i].vals :
                fc[i].vals[r] = IF i = Len(c.frames) /\ r = id THEN t ELSE c.frames[i].vals[r]
  BY <1>1, PutAt DEF Top
<1>5. ASSUME Mirrors(c, d)
      PROVE  /\ fd \in Seq(Frames(Value)) /\ Len(fd) = Len(d.frames) /\ Len(d.frames) = Len(c.frames)
             /\ \A i \in 1..Len(d.frames) :
                  /\ fd[i].ret = d.frames[i].ret
                  /\ DOMAIN fd[i].vals = DOMAIN d.frames[i].vals
                  /\ \A r \in DOMAIN d.frames[i].vals :
                       fd[i].vals[r] = IF i = Len(d.frames) /\ r = id THEN v ELSE d.frames[i].vals[r]
  <2>1. Len(d.frames) = Len(c.frames) /\ Len(c.frames) \in Nat \ {0}
    BY <1>1, <1>5, EmptySeq DEF Mirrors
  <2>2. d.frames # <<>>
    BY <1>1, <2>1, EmptySeq
  <2>3. id \in DOMAIN Last(d.frames).vals
    <3>1. Len(c.frames) \in 1..Len(c.frames)
      BY <2>1
    <3>2. QED
      BY <1>5, <2>1, <3>1 DEF Mirrors, FrameSame, Top, Last
  <2> HIDE DEF v
  <2>4. QED
    BY <1>1, <1>3, <2>1, <2>2, <2>3, PutAt
<1> HIDE DEF fc, fd
<1>6. /\ [c EXCEPT !.frames = fc] \in TermStates
      /\ [c EXCEPT !.frames = fc].frames = fc /\ [c EXCEPT !.frames = fc].cpu = c.cpu
      /\ [c EXCEPT !.frames = fc].locs = c.locs
      /\ [c EXCEPT !.frames = fc].formula = c.formula /\ [c EXCEPT !.frames = fc].assump = c.assump
  BY <1>4 DEF TermStates
<1>7. ASSUME Mirrors(c, d)
      PROVE  /\ [d EXCEPT !.frames = fd] \in PlainStates
             /\ [d EXCEPT !.frames = fd].frames = fd /\ [d EXCEPT !.frames = fd].cpu = d.cpu
             /\ [d EXCEPT !.frames = fd].stopped = d.stopped
  BY <1>5, <1>7 DEF PlainStates
<1>8. ASSUME Mirrors(c, d) PROVE Mirrors([c EXCEPT !.frames = fc], [d EXCEPT !.frames = fd])
  <2>1. Len(fc) = Len(fd)
    BY <1>4, <1>5, <1>8
  <2>2. ASSUME NEW i \in 1..Len(fc) PROVE FrameSame(fc[i], fd[i])
    <3>1. i \in 1..Len(c.frames) /\ i \in 1..Len(d.frames) /\ Len(c.frames) = Len(d.frames)
      BY <1>4, <1>5, <1>8, <2>2
    <3>2. /\ c.frames[i].ret = d.frames[i].ret
          /\ DOMAIN c.frames[i].vals = DOMAIN d.frames[i].vals
          /\ \A r \in DOMAIN c.frames[i].vals : d.frames[i].vals[r] = c.frames[i].vals[r][world]
      BY <1>8, <3>1 DEF Mirrors, FrameSame
    <3>3. QED
      BY <1>4, <1>5, <1>8, <3>1, <3>2 DEF FrameSame
  <2>3. QED
    BY <1>6, <1>7, <1>8, <2>1, <2>2 DEF Mirrors
<1>9. QED
  BY <1>2, <1>6, <1>7, <1>8

\* The two runs write the same register.
LEMMA SavedSame ==
  ASSUME world \in World, NEW c \in TermStates, NEW d \in PlainStates,
         NEW r \in Reg, HasReg(c, r), NEW t \in Term
  PROVE  /\ Saved(c, r, t) \in TermStates
         /\ Saved(c, r, t).locs = c.locs
         /\ Saved(c, r, t).formula = c.formula /\ Saved(c, r, t).assump = c.assump
         /\ Mirrors(c, d) => /\ Saved(d, r, t[world]) \in PlainStates
                             /\ Saved(d, r, t[world]).stopped = d.stopped
                             /\ Mirrors(Saved(c, r, t), Saved(d, r, t[world]))
<1>1. CASE r.kind = "local"
  <2>1. Saved(c, r, t) = SetLocal(c, r.id, t) /\ Saved(d, r, t[world]) = SetLocal(d, r.id, t[world])
    BY <1>1 DEF Saved
  <2>2. c.frames # <<>> /\ r.id \in DOMAIN Top(c).vals
    BY <1>1 DEF HasReg
  <2>3. QED
    BY <2>1, <2>2, SetLocalSame
<1>2. CASE r.kind # "local"
  <2> DEFINE v == t[world]
             cc == [c EXCEPT !.cpu[r.id] = t]
             dd == [d EXCEPT !.cpu[r.id] = v]
  <2>1. Saved(c, r, t) = cc /\ Saved(d, r, v) = dd
    BY <1>2 DEF Saved
  <2>2. v \in Value
    BY DEF Term
  <2>3. c.cpu \in Cpu(Term) /\ d.cpu \in Cpu(Value) /\ r.id \in 0..NbCpu - 1
    BY <1>2 DEF HasReg, TermStates, PlainStates, Cpu
  <2>4. /\ [c.cpu EXCEPT ![r.id] = t] \in Cpu(Term) /\ [d.cpu EXCEPT ![r.id] = v] \in Cpu(Value)
        /\ \A k \in 0..NbCpu - 1 : /\ [c.cpu EXCEPT ![r.id] = t][k] = IF k = r.id THEN t ELSE c.cpu[k]
                                   /\ [d.cpu EXCEPT ![r.id] = v][k] = IF k = r.id THEN v ELSE d.cpu[k]
    BY <2>2, <2>3 DEF Cpu
  <2>5. /\ cc \in TermStates /\ cc.locs = c.locs /\ cc.formula = c.formula /\ cc.assump = c.assump
        /\ cc.frames = c.frames /\ cc.cpu = [c.cpu EXCEPT ![r.id] = t]
    BY <2>4 DEF TermStates
  <2>6. /\ dd \in PlainStates /\ dd.stopped = d.stopped /\ dd.frames = d.frames
        /\ dd.cpu = [d.cpu EXCEPT ![r.id] = v]
    BY <2>4 DEF PlainStates
  <2>7. Denotes(t, world, v)
    BY NoTermIsNone DEF Denotes
  <2> HIDE DEF cc, dd, v
  <2>8. Mirrors(c, d) => Mirrors(cc, dd)
    BY <2>4, <2>5, <2>6, <2>7 DEF Mirrors
  <2>9. QED
    BY <2>1, <2>5, <2>6, <2>8 DEF v
<1>3. QED
  BY <1>1, <1>2

\* Both runs call a function, or leave one.
LEMMA PushSame ==
  ASSUME world \in World, NEW c \in TermStates, NEW d \in PlainStates,
         NEW ts, NEW vs, NEW ret,
         [vals |-> ts, ret |-> ret] \in Frames(Term), [vals |-> vs, ret |-> ret] \in Frames(Value),
         FrameSame([vals |-> ts, ret |-> ret], [vals |-> vs, ret |-> ret])
  PROVE  /\ PushFrame(c, ts, ret) \in TermStates
         /\ PushFrame(c, ts, ret).locs = c.locs
         /\ PushFrame(c, ts, ret).formula = c.formula /\ PushFrame(c, ts, ret).assump = c.assump
         /\ PushFrame(d, vs, ret) \in PlainStates /\ PushFrame(d, vs, ret).stopped = d.stopped
         /\ Mirrors(c, d) => Mirrors(PushFrame(c, ts, ret), PushFrame(d, vs, ret))
<1> DEFINE ct == [vals |-> ts, ret |-> ret]
           dv == [vals |-> vs, ret |-> ret]
           fc == Append(c.frames, ct)
           fd == Append(d.frames, dv)
           cc == [c EXCEPT !.frames = fc]
           dd == [d EXCEPT !.frames = fd]
<1>1. PushFrame(c, ts, ret) = cc /\ PushFrame(d, vs, ret) = dd
  BY DEF PushFrame
<1>2. ct \in Frames(Term) /\ dv \in Frames(Value)
  OBVIOUS
<1>3. c.frames \in Seq(Frames(Term)) /\ d.frames \in Seq(Frames(Value))
  BY DEF TermStates, PlainStates
<1>4. FrameSame(ct, dv)
  OBVIOUS
<1> HIDE DEF ct, dv
<1>5. /\ fc \in Seq(Frames(Term)) /\ Len(fc) = Len(c.frames) + 1
      /\ \A i \in 1..Len(c.frames) : fc[i] = c.frames[i]
      /\ fc[Len(c.frames) + 1] = ct
  BY <1>2, <1>3, AppendProperties
<1>6. /\ fd \in Seq(Frames(Value)) /\ Len(fd) = Len(d.frames) + 1
      /\ \A i \in 1..Len(d.frames) : fd[i] = d.frames[i]
      /\ fd[Len(d.frames) + 1] = dv
  BY <1>2, <1>3, AppendProperties
<1>7. PICK n \in Nat : n = Len(c.frames)
  BY <1>3, LenProperties
<1> HIDE DEF fc, fd
<1>8. /\ cc \in TermStates /\ cc.locs = c.locs /\ cc.formula = c.formula /\ cc.assump = c.assump
      /\ cc.frames = fc /\ cc.cpu = c.cpu
  BY <1>5 DEF TermStates
<1>9. /\ dd \in PlainStates /\ dd.stopped = d.stopped /\ dd.frames = fd /\ dd.cpu = d.cpu
  BY <1>6 DEF PlainStates
<1> HIDE DEF cc, dd
<1>10. ASSUME Mirrors(c, d) PROVE Mirrors(cc, dd)
  <2>1. Len(d.frames) = n
    BY <1>7, <1>10 DEF Mirrors
  <2>2. ASSUME NEW i \in 1..n + 1 PROVE FrameSame(fc[i], fd[i])
    <3>1. CASE i = n + 1
      BY <1>4, <1>5, <1>6, <1>7, <2>1, <3>1
    <3>2. CASE i # n + 1
      <4>1. i \in 1..n
        BY <3>2
      <4>2. QED
        BY <1>5, <1>6, <1>7, <1>10, <2>1, <4>1 DEF Mirrors
    <3>3. QED
      BY <3>1, <3>2
  <2>3. QED
    BY <1>5, <1>6, <1>7, <1>8, <1>9, <1>10, <2>1, <2>2 DEF Mirrors
<1>11. QED
  BY <1>1, <1>8, <1>9, <1>10

LEMMA PopSame ==
  ASSUME world \in World, NEW c \in TermStates, NEW d \in PlainStates, c.frames # <<>>
  PROVE  /\ PopFrame(c) \in TermStates
         /\ PopFrame(c).locs = c.locs
         /\ PopFrame(c).formula = c.formula /\ PopFrame(c).assump = c.assump
         /\ Len(PopFrame(c).frames) = Len(c.frames) - 1
         /\ \A i \in 1..Len(c.frames) - 1 : PopFrame(c).frames[i] = c.frames[i]
         /\ Mirrors(c, d) => /\ PopFrame(d) \in PlainStates /\ PopFrame(d).stopped = d.stopped
                             /\ Mirrors(PopFrame(c), PopFrame(d))
<1> DEFINE fc == Front(c.frames)
           fd == Front(d.frames)
           cc == [c EXCEPT !.frames = fc]
           dd == [d EXCEPT !.frames = fd]
<1>1. PopFrame(c) = cc /\ PopFrame(d) = dd
  BY DEF PopFrame
<1>2. c.frames \in Seq(Frames(Term)) /\ d.frames \in Seq(Frames(Value))
  BY DEF TermStates, PlainStates
<1>3. PICK n \in Nat \ {0} : n = Len(c.frames)
  BY <1>2, EmptySeq
<1>4. fc \in Seq(Frames(Term)) /\ Len(fc) = n - 1 /\ \A i \in 1..n - 1 : fc[i] = c.frames[i]
  BY <1>2, <1>3, LastFront
<1>5. ASSUME Mirrors(c, d)
      PROVE  fd \in Seq(Frames(Value)) /\ Len(fd) = n - 1 /\ \A i \in 1..n - 1 : fd[i] = d.frames[i]
  <2>1. Len(d.frames) = n /\ d.frames # <<>>
    BY <1>2, <1>3, <1>5, EmptySeq DEF Mirrors
  <2>2. QED
    BY <1>2, <2>1, LastFront
<1> HIDE DEF fc, fd
<1>6. /\ cc \in TermStates /\ cc.locs = c.locs /\ cc.formula = c.formula /\ cc.assump = c.assump
      /\ cc.frames = fc /\ cc.cpu = c.cpu
  BY <1>4 DEF TermStates
<1>7. ASSUME Mirrors(c, d)
      PROVE  dd \in PlainStates /\ dd.stopped = d.stopped /\ dd.frames = fd /\ dd.cpu = d.cpu
  BY <1>5, <1>7 DEF PlainStates
<1> HIDE DEF cc, dd
<1>8. ASSUME Mirrors(c, d) PROVE Mirrors(cc, dd)
  <2>1. \A i \in 1..n - 1 : i \in 1..n
    OBVIOUS
  <2>2. QED
    BY <1>3, <1>4, <1>5, <1>6, <1>7, <1>8, <2>1 DEF Mirrors
<1>9. QED
  BY <1>1, <1>3, <1>4, <1>6, <1>7, <1>8

-----------------------------------------------------------------------------
(* Instructions                                                            *)

\* An instruction that is run.
AtWork == PathInv /\ phase = "run" /\ pc <= Len(edge.instrs)

LEMMA WorkTypes ==
  ASSUME AtWork
  PROVE  /\ prog \in VMPrograms /\ world \in World /\ fresh \in 0..MaxVars
         /\ copy \in TermStates /\ pcopy \in PlainStates /\ Len(copy.locs) \in 1..MaxDepth
         /\ UnderWay
BY DEF AtWork, PathInv, PathTypes

LEMMA InsType ==
  ASSUME AtWork
  PROVE  /\ ins.op \in OpCode
         /\ ins.res \in Reg \cup {NoReg}
         /\ ins.args \in Seq(Operand) /\ Len(ins.args) \in Nat
         /\ ins.func \in Func
         /\ ins.table \in [Value \X Value -> Value]
         /\ ins.op # "Call" => Len(ins.args) = Arity[ins.op]
<1>1. edge \in Edge /\ pc \in Nat \ {0} /\ pc <= Len(edge.instrs)
  BY WorkTypes DEF UnderWay, VMPrograms, AtWork
<1>2. edge.instrs \in Seq(Instr)
  BY <1>1 DEF Edge
<1>3. pc \in 1..Len(edge.instrs)
  BY <1>1, <1>2, LenProperties
<1>4. ins \in Instr
  BY <1>2, <1>3, ElementOfSeq DEF ins
<1>5. ins.args \in Seq(Operand)
  BY <1>4 DEF Instr
<1>6. QED
  BY <1>4, <1>5, LenProperties DEF Instr

\* What an operand that can be read is in both runs.
LEMMA OperandSame ==
  ASSUME AtWork, Defined, NEW k \in 1..Len(ins.args)
  PROVE  T(k) \in Term /\ T(k)[world] \in Value /\ (Mirrors(copy, pcopy) => P(k) = T(k)[world])
<1> DEFINE a == ins.args[k]
<1>1. a \in Operand
  BY InsType, ElementOfSeq
<1>2. world \in World
  BY WorkTypes
<1>3. CASE a.kind = "const"
  <2>1. a.id \in Value
    BY <1>1, <1>3 DEF Operand, Reg
  <2>2. T(k) = [w \in World |-> a.id] /\ P(k) = a.id
    BY <1>3 DEF T, P, ReadTerm, ReadPlain
  <2>3. QED
    BY <1>2, <2>1, <2>2 DEF Term
<1>4. CASE a.kind # "const"
  <2>1. a \in Reg
    BY <1>1, <1>4 DEF Operand
  <2>2. HasReg(copy, a) /\ Read(copy, a) # NoTerm
    BY <1>4 DEF Defined, ArgsReadable
  <2>3. T(k) = Read(copy, a) /\ P(k) = Read(pcopy, a)
    BY <1>4 DEF T, P, ReadTerm, ReadPlain
  <2> HIDE DEF a
  <2>4. T(k) \in Term /\ (Mirrors(copy, pcopy) => P(k) = T(k)[world])
    BY <1>2, <2>1, <2>2, <2>3, WorkTypes, ReadSame
  <2>5. QED
    BY <1>2, <2>4 DEF Term
<1>5. QED
  BY <1>3, <1>4

\* The operands of the instructions that have one or two.
LEMMA FirstOperands ==
  ASSUME AtWork, Defined, ins.op \in {"Compute", "Assign", "Assume", "NegAssume", "Assert", "Ret"}
  PROVE  /\ T(1) \in Term /\ T(1)[world] \in Value /\ (Mirrors(copy, pcopy) => P(1) = T(1)[world])
         /\ ins.op = "Compute" =>
              T(2) \in Term /\ T(2)[world] \in Value /\ (Mirrors(copy, pcopy) => P(2) = T(2)[world])
<1>1. Len(ins.args) = IF ins.op = "Compute" THEN 2 ELSE 1
  <2>1. ins.op \in OpCode /\ Len(ins.args) = Arity[ins.op]
    BY InsType
  <2>2. QED
    BY <2>1 DEF Arity
<1>2. 1 \in 1..Len(ins.args) /\ (ins.op = "Compute" => 2 \in 1..Len(ins.args))
  BY <1>1
<1>3. QED
  BY <1>2, OperandSame

\* An instruction that leaves a state the run follows keeps the invariant.
LEMMA ContinueInv ==
  ASSUME AtWork, NEW c \in TermStates, NEW d, NEW n \in Nat, fresh + n <= MaxVars,
         Continue(c, d, n),
         Len(c.locs) \in 1..MaxDepth, c.formula = copy.formula, c.assump \subseteq copy.assump,
         Going(pcopy) /\ Mirrors(copy, pcopy) /\ world \in copy.formula \cap copy.assump =>
           d \in PlainStates /\ Follows(c, d, c.formula \cap c.assump)
  PROVE  PathInv'
<1>1. /\ PathInv /\ phase = "run" /\ UnderWay
      /\ prog' = prog /\ state' = state /\ edge' = edge /\ phase' = phase /\ shown' = shown
      /\ world' = world /\ plain' = plain /\ pc' = pc + 1 /\ fresh' = fresh + n
      /\ copy' = c /\ pcopy' = IF Going(pcopy) THEN d ELSE pcopy
  BY WorkTypes DEF AtWork, Continue
<1>2. pcopy' \in PlainStates /\ Follows(c, pcopy', c.formula \cap c.assump)
  <2>1. CASE Going(pcopy)
    BY <1>1, <2>1 DEF UnderWay, Follows
  <2>2. CASE ~Going(pcopy)
    <3>1. pcopy' = pcopy
      BY <1>1, <2>2
    <3>2. world \in c.formula \cap c.assump => pcopy.stopped # "assume"
      BY <1>1 DEF UnderWay, Follows
    <3>3. QED
      BY <2>2, <3>1, <3>2, WorkTypes DEF Follows
  <2>3. QED
    BY <2>1, <2>2
<1>3. (Follows(copy, pcopy, copy.formula \cap copy.assump))'
  BY <1>1, <1>2 DEF Follows, Mirrors, FrameSame, Going, Denotes
<1>4. UnderWay'
  BY <1>1, <1>3 DEF UnderWay
<1>5. PathTypes'
  BY <1>1, <1>2, PathBoundsOK DEF PathInv, PathTypes
<1>6. (Follows(state, plain, state.formula))'
  BY <1>1 DEF PathInv, Follows, Mirrors, FrameSame, Going, Denotes
<1>7. shown' = Nothing
  BY <1>1 DEF PathInv, Answered
<1>8. QED
  BY <1>1, <1>4, <1>5, <1>6, <1>7 DEF PathInv

\* Instructions that write a term to a register and its value in the run.
LEMMA WriteInv ==
  ASSUME AtWork, ins.op \in Writes, Defined, NEW t \in Term, NEW v, NEW n \in Nat, fresh + n <= MaxVars,
         Mirrors(copy, pcopy) => v = t[world],
         Continue(Saved(copy, ins.res, t), Saved(pcopy, ins.res, v), n)
  PROVE  PathInv'
<1> DEFINE c == Saved(copy, ins.res, t)
<1>1. ins.res \in Reg /\ HasReg(copy, ins.res)
  BY InsType DEF Defined
<1>2. /\ c \in TermStates /\ c.locs = copy.locs /\ c.formula = copy.formula /\ c.assump = copy.assump
      /\ Mirrors(copy, pcopy) => /\ Saved(pcopy, ins.res, t[world]) \in PlainStates
                                 /\ Saved(pcopy, ins.res, t[world]).stopped = pcopy.stopped
                                 /\ Mirrors(c, Saved(pcopy, ins.res, t[world]))
  BY <1>1, WorkTypes, SavedSame
<1> HIDE DEF c
<1>3. ASSUME Going(pcopy), Mirrors(copy, pcopy), world \in copy.formula \cap copy.assump
      PROVE  /\ Saved(pcopy, ins.res, v) \in PlainStates
             /\ Follows(c, Saved(pcopy, ins.res, v), c.formula \cap c.assump)
  BY <1>2, <1>3 DEF Follows, Going
<1>4. Len(c.locs) \in 1..MaxDepth
  BY <1>2, WorkTypes
<1>5. QED
  BY <1>2, <1>3, <1>4, ContinueInv DEF c

LEMMA VarType ==
  ASSUME world \in World, NEW n \in 1..MaxVars
  PROVE  Var(n) \in Term /\ Var(n)[world] = world[n] /\ world[n] \in Value
BY DEF Var, Term, World

LEMMA ComputeInv == AtWork /\ Compute => PathInv'
<1> SUFFICES ASSUME AtWork, Compute PROVE PathInv'
  OBVIOUS
<1> DEFINE t == [w \in World |-> ins.table[<<T(1)[w], T(2)[w]>>]]
           v == ins.table[<<P(1), P(2)>>]
<1>1. ins.op = "Compute" /\ Defined /\ Continue(Saved(copy, ins.res, t), Saved(pcopy, ins.res, v), 0)
  BY DEF Compute, Running
<1>2. ins.table \in [Value \X Value -> Value]
  BY InsType
<1>3. /\ T(1) \in Term /\ T(2) \in Term
      /\ Mirrors(copy, pcopy) => P(1) = T(1)[world] /\ P(2) = T(2)[world]
  BY <1>1, FirstOperands
<1>4. t \in Term
  <2>1. ASSUME NEW w \in World PROVE ins.table[<<T(1)[w], T(2)[w]>>] \in Value
    <3>1. T(1)[w] \in Value /\ T(2)[w] \in Value
      BY <1>3 DEF Term
    <3>2. QED
      BY <1>2, <3>1
  <2>2. QED
    BY <2>1 DEF Term
<1>5. Mirrors(copy, pcopy) => v = t[world]
  BY <1>3, WorkTypes
<1> HIDE DEF t, v
<1>6. fresh + 0 <= MaxVars
  BY WorkTypes, PathBoundsOK
<1>7. QED
  BY <1>1, <1>4, <1>5, <1>6, WriteInv DEF Writes

LEMMA AssignInv == AtWork /\ Assign => PathInv'
<1> SUFFICES ASSUME AtWork, Assign PROVE PathInv'
  OBVIOUS
<1>1. ins.op = "Assign" /\ Defined /\ Continue(Saved(copy, ins.res, T(1)), Saved(pcopy, ins.res, P(1)), 0)
  BY DEF Assign, Running
<1>2. T(1) \in Term /\ (Mirrors(copy, pcopy) => P(1) = T(1)[world])
  BY <1>1, FirstOperands
<1>3. fresh + 0 <= MaxVars
  BY WorkTypes, PathBoundsOK
<1>4. QED
  BY <1>1, <1>2, <1>3, WriteInv DEF Writes

LEMMA NonDetInv == AtWork /\ NonDet => PathInv'
<1> SUFFICES ASSUME AtWork, NonDet PROVE PathInv'
  OBVIOUS
<1>1. /\ ins.op = "NonDet" /\ Defined /\ fresh < MaxVars
      /\ Continue(Saved(copy, ins.res, Var(fresh + 1)), Saved(pcopy, ins.res, world[fresh + 1]), 1)
  BY DEF NonDet, Running
<1>2. fresh + 1 \in 1..MaxVars /\ fresh + 1 <= MaxVars
  BY <1>1, WorkTypes, PathBoundsOK
<1>3. Var(fresh + 1) \in Term /\ world[fresh + 1] = Var(fresh + 1)[world]
  BY <1>2, VarType, WorkTypes
<1>4. QED
  BY <1>1, <1>2, <1>3, WriteInv DEF Writes

\* An assumption keeps a world exactly when its run goes on.
LEMMA AssumeInv ==
  ASSUME AtWork, NEW ws, NEW ok \in BOOLEAN,
         Mirrors(copy, pcopy) => (world \in ws <=> ok),
         Continue(AddAssumption(copy, ws), Stop(pcopy, ok, "assume"), 0)
  PROVE  PathInv'
<1> DEFINE c == AddAssumption(copy, ws)
           d == Stop(pcopy, ok, "assume")
<1>1. /\ c \in TermStates /\ c.locs = copy.locs /\ c.formula = copy.formula /\ c.assump = copy.assump \cap ws
      /\ c.frames = copy.frames /\ c.cpu = copy.cpu
  BY WorkTypes DEF AddAssumption, TermStates
<1>2. /\ d \in PlainStates /\ d.frames = pcopy.frames /\ d.cpu = pcopy.cpu
      /\ d.stopped = IF ok THEN pcopy.stopped ELSE "assume"
  <2>1. CASE ok
    BY <2>1, WorkTypes DEF Stop
  <2>2. CASE ~ok
    BY <2>2, WorkTypes DEF Stop, PlainStates
  <2>3. QED
    BY <2>1, <2>2
<1> HIDE DEF c, d
<1>3. ASSUME Going(pcopy), Mirrors(copy, pcopy), world \in copy.formula \cap copy.assump
      PROVE  d \in PlainStates /\ Follows(c, d, c.formula \cap c.assump)
  BY <1>1, <1>2, <1>3 DEF Follows, Going, Mirrors
<1>4. fresh + 0 <= MaxVars
  BY WorkTypes, PathBoundsOK
<1>5. Len(c.locs) \in 1..MaxDepth
  BY <1>1, WorkTypes
<1>6. QED
  BY <1>1, <1>3, <1>4, <1>5, ContinueInv DEF c, d

LEMMA AssumptionsInv == AtWork /\ (Assume \/ NegAssume) => PathInv'
<1> SUFFICES ASSUME AtWork, Assume \/ NegAssume PROVE PathInv'
  OBVIOUS
<1>1. Defined /\ ins.op \in {"Assume", "NegAssume"}
  BY DEF Assume, NegAssume, Running
<1>2. T(1) \in Term /\ (Mirrors(copy, pcopy) => P(1) = T(1)[world]) /\ world \in World
  BY <1>1, FirstOperands, WorkTypes
<1>3. CASE Assume
  <2>1. Continue(AddAssumption(copy, {w \in World : T(1)[w] \in Truthy}),
                 Stop(pcopy, P(1) \in Truthy, "assume"), 0)
    BY <1>3 DEF Assume
  <2>2. Mirrors(copy, pcopy) => (world \in {w \in World : T(1)[w] \in Truthy} <=> P(1) \in Truthy)
    BY <1>2
  <2>3. (P(1) \in Truthy) \in BOOLEAN
    OBVIOUS
  <2>4. QED
    BY <2>1, <2>2, <2>3, AssumeInv
<1>4. CASE NegAssume
  <2>1. Continue(AddAssumption(copy, {w \in World : T(1)[w] \notin Truthy}),
                 Stop(pcopy, P(1) \notin Truthy, "assume"), 0)
    BY <1>4 DEF NegAssume
  <2>2. Mirrors(copy, pcopy) => (world \in {w \in World : T(1)[w] \notin Truthy} <=> P(1) \notin Truthy)
    BY <1>2
  <2>3. (P(1) \notin Truthy) \in BOOLEAN
    OBVIOUS
  <2>4. QED
    BY <2>1, <2>2, <2>3, AssumeInv
<1>5. QED
  BY <1>3, <1>4

LEMMA QuietInv == AtWork /\ (Skip \/ CheckAssert) => PathInv'
<1> SUFFICES ASSUME AtWork, Skip \/ CheckAssert PROVE PathInv'
  OBVIOUS
<1>1. PICK d : Continue(copy, d, 0) /\ (d = pcopy \/ d = [pcopy EXCEPT !.stopped = "assert"])
  BY DEF Skip, CheckAssert, Stop
<1>2. d \in PlainStates /\ d.frames = pcopy.frames /\ d.cpu = pcopy.cpu /\ d.stopped \in {pcopy.stopped, "assert"}
  BY <1>1, WorkTypes DEF PlainStates
<1>3. ASSUME Going(pcopy), Mirrors(copy, pcopy), world \in copy.formula \cap copy.assump
      PROVE  d \in PlainStates /\ Follows(copy, d, copy.formula \cap copy.assump)
  BY <1>2, <1>3 DEF Follows, Going, Mirrors
<1>4. fresh + 0 <= MaxVars
  BY WorkTypes, PathBoundsOK
<1>5. QED
  BY <1>1, <1>3, <1>4, ContinueInv, WorkTypes

\* The registers of a function that is called, in both runs.
LEMMA CalleeSame ==
  ASSUME world \in World, prog \in VMPrograms, NEW f \in Func, NEW n \in Nat, n + prog.regs[f] <= MaxVars,
         NEW m \in Nat, NEW ts \in [1..m -> Term], NEW vs \in [1..m -> Value],
         Len(ts) = m, Len(vs) = m, \A k \in 1..m : vs[k] = ts[k][world]
  PROVE  LET D == 0..prog.regs[f] - 1
             t == WithArgs(prog, f, Defaults(f, n), ts)
             v == WithArgs(prog, f, Chosen(f, n), vs)
         IN  D \in SUBSET Nat /\ t \in [D -> Term] /\ v \in [D -> Value] /\ \A id \in D : v[id] = t[id][world]
<1> DEFINE D == 0..prog.regs[f] - 1
           t == WithArgs(prog, f, Defaults(f, n), ts)
           v == WithArgs(prog, f, Chosen(f, n), vs)
           At(id, k) == prog.params[f][k] = id
<1>1. prog.regs[f] \in Nat /\ D \in SUBSET Nat
  BY DEF VMPrograms
<1>2. ASSUME NEW id \in D
      PROVE  /\ Defaults(f, n)[id] \in Term /\ Chosen(f, n)[id] \in Value
             /\ Chosen(f, n)[id] = Defaults(f, n)[id][world]
  <2>1. n + id + 1 \in 1..MaxVars
    BY <1>1, PathBoundsOK
  <2>2. Defaults(f, n)[id] = Var(n + id + 1) /\ Chosen(f, n)[id] = world[n + id + 1]
    BY DEF Defaults, Chosen
  <2>3. QED
    BY <2>1, <2>2, VarType
<1>3. /\ t = [id \in D |-> IF \E k \in 1..m : At(id, k) THEN ts[CHOOSE k \in 1..m : At(id, k)] ELSE Defaults(f, n)[id]]
      /\ v = [id \in D |-> IF \E k \in 1..m : At(id, k) THEN vs[CHOOSE k \in 1..m : At(id, k)] ELSE Chosen(f, n)[id]]
  BY DEF WithArgs, Defaults, Chosen
<1>4. ASSUME NEW id \in D PROVE t[id] \in Term /\ v[id] \in Value /\ v[id] = t[id][world]
  <2>1. CASE \E k \in 1..m : At(id, k)
    <3> DEFINE k == CHOOSE k \in 1..m : At(id, k)
    <3>1. k \in 1..m
      BY <2>1
    <3>2. t[id] = ts[k] /\ v[id] = vs[k]
      BY <1>3, <2>1
    <3> HIDE DEF k, t, v
    <3>3. QED
      BY <3>1, <3>2
  <2>2. CASE ~ \E k \in 1..m : At(id, k)
    <3>1. t[id] = Defaults(f, n)[id] /\ v[id] = Chosen(f, n)[id]
      BY <1>3, <2>2
    <3> HIDE DEF t, v
    <3>2. QED
      BY <1>2, <3>1
  <2>3. QED
    BY <2>1, <2>2
<1>5. t \in [D -> Term] /\ v \in [D -> Value]
  <2> HIDE DEF At
  <2>1. t = [id \in D |-> t[id]] /\ v = [id \in D |-> v[id]]
    BY <1>3
  <2> HIDE DEF t, v
  <2>2. QED
    BY <1>4, <2>1
<1> HIDE DEF t, v
<1>6. QED
  BY <1>1, <1>4, <1>5 DEF t, v

\* The registers of a call under way, in a run of the world that was chosen.
LEMMA CallRegisters ==
  ASSUME AtWork, Call
  PROVE  LET f  == ins.func
             m  == Len(prog.params[f])
             ts == [k \in 1..m |-> T(k)]
             ps == [k \in 1..m |-> P(k)]
             vs == [k \in 1..m |-> T(k)[world]]
             t  == WithArgs(prog, f, Defaults(f, fresh), ts)
             w  == WithArgs(prog, f, Chosen(f, fresh), vs)
             D  == 0..prog.regs[f] - 1
         IN  /\ D \in SUBSET Nat /\ t \in [D -> Term] /\ w \in [D -> Value]
             /\ \A id \in D : w[id] = t[id][world]
             /\ Mirrors(copy, pcopy) => ps = vs
<1> DEFINE f  == ins.func
           n  == prog.regs[f]
           m  == Len(prog.params[f])
           ts == [k \in 1..m |-> T(k)]
           ps == [k \in 1..m |-> P(k)]
           vs == [k \in 1..m |-> T(k)[world]]
<1>1. Defined /\ ins.op = "Call" /\ fresh + n <= MaxVars
  BY DEF Call, Running
<1>2. f \in Func /\ prog \in VMPrograms /\ world \in World /\ fresh \in Nat
  BY InsType, WorkTypes
<1>3. m \in Nat /\ \A k \in 1..m : k \in 1..Len(ins.args)
  <2>1. prog.params[f] \in Seq(Nat)
    BY <1>2 DEF VMPrograms
  <2>2. m \in Nat /\ Len(ins.args) \in Nat /\ Len(ins.args) >= m
    BY <1>1, <2>1, InsType, LenProperties DEF Defined
  <2>3. QED
    BY <2>2
<1>4. \A k \in 1..m : T(k) \in Term /\ T(k)[world] \in Value /\ (Mirrors(copy, pcopy) => P(k) = T(k)[world])
  BY <1>1, <1>3, OperandSame
<1>5. ts \in [1..m -> Term] /\ Len(ts) = m
  BY <1>3, <1>4
<1>6. vs \in [1..m -> Value] /\ Len(vs) = m /\ \A k \in 1..m : vs[k] = ts[k][world]
  BY <1>3, <1>4
<1>7. Mirrors(copy, pcopy) => ps = vs
  BY <1>4
<1> HIDE DEF ts, vs, ps
<1> DEFINE t == WithArgs(prog, f, Defaults(f, fresh), ts)
           w == WithArgs(prog, f, Chosen(f, fresh), vs)
           D == 0..n - 1
<1>8. D \in SUBSET Nat /\ t \in [D -> Term] /\ w \in [D -> Value] /\ \A id \in D : w[id] = t[id][world]
  BY <1>1, <1>2, <1>3, <1>5, <1>6, CalleeSame
<1> HIDE DEF t, w, D, n, m, f
<1>9. QED
  BY <1>7, <1>8 DEF t, w, D, n, m, f, ts, vs, ps

LEMMA CallInv == AtWork /\ Call => PathInv'
<1> SUFFICES ASSUME AtWork, Call PROVE PathInv'
  OBVIOUS
<1> DEFINE f  == ins.func
           n  == prog.regs[f]
           m  == Len(prog.params[f])
           t  == WithArgs(prog, f, Defaults(f, fresh), [k \in 1..m |-> T(k)])
           v  == WithArgs(prog, f, Chosen(f, fresh), [k \in 1..m |-> P(k)])
           w  == WithArgs(prog, f, Chosen(f, fresh), [k \in 1..m |-> T(k)[world]])
           cc == PushFrame(copy, t, ins.res)
           c  == [cc EXCEPT !.locs = Append(@, prog.init[f])]
           d  == PushFrame(pcopy, v, ins.res)
           dd == PushFrame(pcopy, w, ins.res)
           D  == 0..n - 1
<1>1. /\ Defined /\ ins.op = "Call" /\ fresh + n <= MaxVars /\ Len(copy.locs) < MaxDepth
      /\ Continue(c, d, n)
  BY DEF Call, Running
<1>2. /\ f \in Func /\ n \in Nat /\ prog.init[f] \in Location /\ ins.res \in Reg \cup {NoReg}
      /\ prog \in VMPrograms /\ world \in World /\ fresh \in Nat /\ copy \in TermStates /\ pcopy \in PlainStates
  BY InsType, WorkTypes DEF VMPrograms
<1>3. /\ D \in SUBSET Nat /\ t \in [D -> Term] /\ w \in [D -> Value] /\ \A id \in D : w[id] = t[id][world]
      /\ Mirrors(copy, pcopy) => v = w
  BY CallRegisters
<1> HIDE DEF t, v, w
<1>4. /\ cc \in TermStates /\ cc.locs = copy.locs /\ cc.formula = copy.formula /\ cc.assump = copy.assump
      /\ dd \in PlainStates /\ dd.stopped = pcopy.stopped
      /\ Mirrors(copy, pcopy) => Mirrors(cc, dd)
  <2>1. /\ [vals |-> t, ret |-> ins.res] \in Frames(Term) /\ [vals |-> w, ret |-> ins.res] \in Frames(Value)
        /\ FrameSame([vals |-> t, ret |-> ins.res], [vals |-> w, ret |-> ins.res])
    BY <1>2, <1>3 DEF Frames, FrameSame
  <2>2. QED
    BY <1>2, <2>1, PushSame
<1>5. Mirrors(copy, pcopy) => d = dd
  BY <1>3
<1> HIDE DEF cc, d, dd, f, n
<1>6. Append(cc.locs, prog.init[f]) \in Seq(Location) /\ Len(Append(cc.locs, prog.init[f])) = Len(copy.locs) + 1
  BY <1>2, <1>4, AppendProperties DEF TermStates
<1>7. /\ c \in TermStates /\ c.formula = copy.formula /\ c.assump = copy.assump
      /\ c.frames = cc.frames /\ c.cpu = cc.cpu /\ c.locs = Append(cc.locs, prog.init[f])
  BY <1>4, <1>6 DEF TermStates
<1> HIDE DEF c
<1>8. ASSUME Going(pcopy), Mirrors(copy, pcopy), world \in copy.formula \cap copy.assump
      PROVE  d \in PlainStates /\ Follows(c, d, c.formula \cap c.assump)
  BY <1>4, <1>5, <1>7, <1>8 DEF Follows, Going, Mirrors
<1>9. Len(c.locs) \in 1..MaxDepth
  BY <1>1, <1>6, <1>7, WorkTypes, PathBoundsOK
<1>10. QED
  BY <1>1, <1>2, <1>7, <1>8, <1>9, ContinueInv

\* A return leaves the frames alone where it leaves the location.
LEMMA PopLocationSame ==
  ASSUME AtWork
  PROVE  /\ PopLocation(copy) \in TermStates /\ Len(PopLocation(copy).locs) \in 1..MaxDepth
         /\ PopLocation(copy).formula = copy.formula /\ PopLocation(copy).assump = copy.assump
         /\ PopLocation(copy).frames = copy.frames
         /\ Mirrors(copy, pcopy) => Mirrors(PopLocation(copy), pcopy)
<1> DEFINE ls == IF Len(copy.locs) > 1 THEN Front(copy.locs) ELSE copy.locs
           c  == [copy EXCEPT !.locs = ls]
<1>1. copy \in TermStates /\ copy.locs \in Seq(Location) /\ Len(copy.locs) \in 1..MaxDepth /\ copy.locs # <<>>
  BY WorkTypes, EmptySeq DEF TermStates
<1>2. ls \in Seq(Location) /\ Len(ls) \in 1..MaxDepth
  <2>1. CASE Len(copy.locs) > 1
    <3>1. Front(copy.locs) \in Seq(Location) /\ Len(Front(copy.locs)) = Len(copy.locs) - 1
      BY <1>1, LastFront
    <3>2. Len(copy.locs) - 1 \in 1..MaxDepth
      BY <1>1, <2>1, PathBoundsOK
    <3>3. QED
      BY <2>1, <3>1, <3>2
  <2>2. CASE ~(Len(copy.locs) > 1)
    BY <1>1, <2>2
  <2>3. QED
    BY <2>1, <2>2
<1>3. PopLocation(copy) = c
  BY DEF PopLocation
<1> HIDE DEF ls
<1>4. /\ c \in TermStates /\ c.locs = ls /\ c.formula = copy.formula /\ c.assump = copy.assump
      /\ c.frames = copy.frames /\ c.cpu = copy.cpu
  BY <1>1, <1>2 DEF TermStates
<1> HIDE DEF c
<1>5. QED
  BY <1>2, <1>3, <1>4 DEF Mirrors

LEMMA RetVoidInv == AtWork /\ RetVoid => PathInv'
<1> SUFFICES ASSUME AtWork, RetVoid PROVE PathInv'
  OBVIOUS
<1> DEFINE b == PopLocation(copy)
           c == PopFrame(b)
           d == PopFrame(pcopy)
<1>1. Defined /\ ins.op = "RetVoid" /\ copy.frames # <<>> /\ Continue(c, d, 0)
  BY DEF RetVoid, Running, Defined
<1>2. /\ b \in TermStates /\ Len(b.locs) \in 1..MaxDepth /\ b.formula = copy.formula /\ b.assump = copy.assump
      /\ b.frames = copy.frames /\ (Mirrors(copy, pcopy) => Mirrors(b, pcopy))
  BY PopLocationSame
<1> HIDE DEF b
<1>3. /\ c \in TermStates /\ c.locs = b.locs /\ c.formula = b.formula /\ c.assump = b.assump
      /\ Mirrors(b, pcopy) => d \in PlainStates /\ d.stopped = pcopy.stopped /\ Mirrors(c, d)
  BY <1>1, <1>2, WorkTypes, PopSame
<1> HIDE DEF c, d
<1>4. ASSUME Going(pcopy), Mirrors(copy, pcopy), world \in copy.formula \cap copy.assump
      PROVE  d \in PlainStates /\ Follows(c, d, c.formula \cap c.assump)
  BY <1>2, <1>3, <1>4 DEF Follows, Going
<1>5. fresh + 0 <= MaxVars
  BY WorkTypes, PathBoundsOK
<1>6. QED
  BY <1>1, <1>2, <1>3, <1>4, <1>5, ContinueInv

LEMMA RetInv == AtWork /\ Ret => PathInv'
<1> SUFFICES ASSUME AtWork, Ret PROVE PathInv'
  OBVIOUS
<1> DEFINE b  == PopLocation(copy)
           c1 == PopFrame(b)
           d1 == PopFrame(pcopy)
           id == Top(copy).ret.id
           c  == SetLocal(c1, id, T(1))
           d  == SetLocal(d1, Top(pcopy).ret.id, P(1))
           n  == Len(copy.frames)
<1>1. Defined /\ ins.op = "Ret" /\ CanReturnTo(copy) /\ Continue(c, d, 0)
  BY DEF Ret, Running, Defined
<1>2. /\ b \in TermStates /\ Len(b.locs) \in 1..MaxDepth /\ b.formula = copy.formula /\ b.assump = copy.assump
      /\ b.frames = copy.frames /\ (Mirrors(copy, pcopy) => Mirrors(b, pcopy))
  BY PopLocationSame
<1>3. n \in Nat /\ n > 1 /\ copy.frames \in Seq(Frames(Term)) /\ copy.frames # <<>> /\ Top(copy) = copy.frames[n]
      /\ id \in DOMAIN copy.frames[n - 1].vals
  <2>1. copy.frames \in Seq(Frames(Term))
    BY WorkTypes DEF TermStates
  <2>2. n \in Nat /\ n > 1
    BY <1>1, <2>1, LenProperties DEF CanReturnTo
  <2>3. copy.frames # <<>>
    BY <2>1, <2>2, EmptySeq
  <2>4. QED
    BY <1>1, <2>1, <2>2, <2>3 DEF CanReturnTo, Top, Last
<1>4. T(1) \in Term /\ (Mirrors(copy, pcopy) => P(1) = T(1)[world])
  BY <1>1, FirstOperands
<1>5. Mirrors(copy, pcopy) => Top(pcopy).ret.id = id
  <2>1. SUFFICES ASSUME Mirrors(copy, pcopy) PROVE Top(pcopy).ret.id = id
    OBVIOUS
  <2>2. n \in 1..n /\ Top(pcopy) = pcopy.frames[n] /\ FrameSame(copy.frames[n], pcopy.frames[n])
    BY <1>3, <2>1 DEF Mirrors, Top, Last
  <2>3. QED
    BY <1>3, <2>2 DEF FrameSame
<1> HIDE DEF b, id
<1>6. /\ c1 \in TermStates /\ c1.locs = b.locs /\ c1.formula = b.formula /\ c1.assump = b.assump
      /\ Len(c1.frames) = n - 1 /\ \A i \in 1..n - 1 : c1.frames[i] = copy.frames[i]
      /\ Mirrors(b, pcopy) => d1 \in PlainStates /\ d1.stopped = pcopy.stopped /\ Mirrors(c1, d1)
  <2>1. b.frames # <<>>
    BY <1>2, <1>3
  <2>2. /\ c1 \in TermStates /\ c1.locs = b.locs /\ c1.formula = b.formula /\ c1.assump = b.assump
        /\ Len(c1.frames) = Len(b.frames) - 1
        /\ \A i \in 1..Len(b.frames) - 1 : c1.frames[i] = b.frames[i]
        /\ Mirrors(b, pcopy) => d1 \in PlainStates /\ d1.stopped = pcopy.stopped /\ Mirrors(c1, d1)
    BY <1>2, <2>1, WorkTypes, PopSame
  <2> HIDE DEF c1, d1
  <2>3. QED
    BY <1>2, <2>2
<1> HIDE DEF c1, d1
<1>7. c1.frames # <<>> /\ id \in DOMAIN Top(c1).vals
  <2>1. c1.frames # <<>>
    BY <1>3, <1>6, EmptySeq
  <2>2. n - 1 \in 1..n - 1 /\ Top(c1) = c1.frames[n - 1]
    BY <1>3, <1>6 DEF Top, Last
  <2>3. QED
    BY <1>3, <1>6, <2>1, <2>2
<1> DEFINE e == SetLocal(d1, id, T(1)[world])
<1>8. /\ c \in TermStates /\ c.locs = c1.locs /\ c.formula = c1.formula /\ c.assump = c1.assump
  BY <1>4, <1>6, <1>7, WorkTypes, SetLocalSame
<1>9. ASSUME Mirrors(b, pcopy)
      PROVE  e \in PlainStates /\ e.stopped = pcopy.stopped /\ Mirrors(c, e)
  BY <1>4, <1>6, <1>7, <1>9, WorkTypes, SetLocalSame
<1>10. Mirrors(copy, pcopy) => d = e
  BY <1>4, <1>5
<1> HIDE DEF c, d, e
<1>11. ASSUME Going(pcopy), Mirrors(copy, pcopy), world \in copy.formula \cap copy.assump
       PROVE  d \in PlainStates /\ Follows(c, d, c.formula \cap c.assump)
  BY <1>2, <1>6, <1>8, <1>9, <1>10, <1>11 DEF Follows, Going
<1>12. fresh + 0 <= MaxVars
  BY WorkTypes, PathBoundsOK
<1>13. QED
  BY <1>1, <1>2, <1>6, <1>8, <1>11, <1>12, ContinueInv

-----------------------------------------------------------------------------
(* Edges and answers                                                       *)

\* An edge starts from the state that was reached.
LEMMA BeginInv ==
  ASSUME PathInv, NEW e \in prog.edges, Begin(e)
  PROVE  PathInv'
<1> DEFINE c == [state EXCEPT !.locs[Len(state.locs)] = e.to, !.assump = World]
<1>1. /\ phase = "idle" /\ edge' = e /\ pc' = 1 /\ phase' = "run" /\ copy' = c /\ pcopy' = plain
      /\ UNCHANGED <<prog, state, fresh, shown, world, plain>>
  BY DEF Begin
<1>2. /\ PathTypes /\ state \in TermStates /\ plain \in PlainStates /\ Len(state.locs) \in 1..MaxDepth
      /\ Follows(state, plain, state.formula)
  BY <1>1 DEF PathInv, PathTypes
<1>3. e.to \in Location
  BY <1>2 DEF PathTypes, VMPrograms, Edge
<1>4. /\ [state.locs EXCEPT ![Len(state.locs)] = e.to] \in Seq(Location)
      /\ Len([state.locs EXCEPT ![Len(state.locs)] = e.to]) = Len(state.locs)
  <2>1. state.locs \in Seq(Location) /\ Len(state.locs) \in 1..Len(state.locs)
    BY <1>2, PathBoundsOK DEF TermStates
  <2>2. QED
    BY <1>3, <2>1, ExceptSeq
<1>5. /\ c \in TermStates /\ c.formula = state.formula /\ c.assump = World
      /\ c.frames = state.frames /\ c.cpu = state.cpu /\ Len(c.locs) = Len(state.locs)
  BY <1>2, <1>4 DEF TermStates
<1> HIDE DEF c
<1>6. (Follows(copy, pcopy, copy.formula \cap copy.assump))'
  <2>1. world \in c.formula \cap c.assump <=> world \in state.formula
    BY <1>2, <1>5 DEF PathTypes
  <2>2. Mirrors(state, plain) => Mirrors(c, plain)
    BY <1>5 DEF Mirrors
  <2>3. Follows(c, plain, c.formula \cap c.assump)
    BY <1>2, <2>1, <2>2 DEF Follows
  <2>4. QED
    BY <1>1, <2>3 DEF Follows, Mirrors, FrameSame, Going, Denotes
<1>7. UnderWay'
  BY <1>1, <1>5, <1>6 DEF UnderWay
<1>8. PathTypes'
  BY <1>1, <1>2, <1>5 DEF PathTypes
<1>9. (Follows(state, plain, state.formula))'
  BY <1>1, <1>2 DEF Follows, Mirrors, FrameSame, Going, Denotes
<1>10. shown' = Nothing
  BY <1>1 DEF PathInv, Answered
<1>11. QED
  BY <1>1, <1>7, <1>8, <1>9, <1>10 DEF PathInv

\* A state that was run to the end of its edge is kept with its assumptions.
LEMMA CommitInv == PathInv /\ Commit => PathInv'
<1> SUFFICES ASSUME PathInv, Commit PROVE PathInv'
  OBVIOUS
<1> DEFINE c == [copy EXCEPT !.formula = @ \cap copy.assump, !.assump = World]
<1>1. /\ phase = "run" /\ state' = c /\ plain' = pcopy /\ copy' = c /\ pcopy' = pcopy /\ phase' = "idle"
      /\ UNCHANGED <<prog, fresh, shown, world>>
  BY DEF Commit
<1>2. /\ PathTypes /\ copy \in TermStates /\ pcopy \in PlainStates /\ Len(copy.locs) \in 1..MaxDepth
      /\ Follows(copy, pcopy, copy.formula \cap copy.assump)
  BY <1>1 DEF PathInv, PathTypes, UnderWay
<1>3. /\ c \in TermStates /\ c.formula = copy.formula \cap copy.assump /\ c.locs = copy.locs
      /\ c.frames = copy.frames /\ c.cpu = copy.cpu
  BY <1>2 DEF TermStates
<1> HIDE DEF c
<1>4. (Follows(state, plain, state.formula))'
  <2>1. Follows(c, pcopy, c.formula)
    BY <1>2, <1>3 DEF Follows, Mirrors
  <2>2. QED
    BY <1>1, <2>1 DEF Follows, Mirrors, FrameSame, Going, Denotes
<1>5. PathTypes'
  BY <1>1, <1>2, <1>3 DEF PathTypes
<1>6. shown' = Nothing
  BY <1>1 DEF PathInv, Answered
<1>7. QED
  BY <1>1, <1>4, <1>5, <1>6 DEF PathInv

\* Steps that leave the state and the run of the path as they are.
LEMMA StillInv ==
  ASSUME PathInv, Throw \/ Undefined \/ Filter \/ Close \/ \E r \in 0..MaxVars : Evaluate(r)
  PROVE  PathInv'
<1>1. UNCHANGED <<prog, state, fresh, world, plain>> /\ phase # "refused" /\ phase' # "refused"
  BY DEF Throw, Undefined, Filter, Close, Evaluate
<1>2. (Follows(state, plain, state.formula))'
  BY <1>1 DEF PathInv, Follows, Mirrors, FrameSame, Going, Denotes
<1>3. PathTypes'
  BY <1>1 DEF PathInv, PathTypes, Throw, Undefined, Filter, Close, Evaluate
<1>4. CASE Throw \/ Undefined \/ Filter
  <2>1. shown' = Nothing
    BY <1>4 DEF PathInv, Answered, Throw, Undefined, Filter
  <2>2. phase' # "run" /\ (phase' = "filtered" => state'.formula = {})
    BY <1>1, <1>4 DEF Throw, Undefined, Filter
  <2>3. QED
    BY <1>2, <1>3, <2>1, <2>2 DEF PathInv
<1>5. CASE Close
  BY <1>2, <1>3, <1>5 DEF PathInv, Close
<1>6. ASSUME NEW r \in 0..MaxVars, Evaluate(r) PROVE PathInv'
  <2>1. PICK m \in state.formula : shown' = [reg |-> r, value |-> Top(state).vals[r][m], model |-> m]
    BY <1>6 DEF Evaluate
  <2>2. phase' = "shown" /\ state.frames # <<>> /\ r \in DOMAIN Top(state).vals
    BY <1>6 DEF Evaluate
  <2>3. Answered'
    BY <1>1, <2>1, <2>2 DEF Answered, Top
  <2>4. QED
    BY <1>2, <1>3, <2>2, <2>3 DEF PathInv
<1>7. QED
  BY <1>4, <1>5, <1>6

LEMMA InitInv == Init => PathInv
<1> SUFFICES ASSUME Init PROVE PathInv
  OBVIOUS
<1>1. prog \in VMPrograms /\ world \in World /\ copy = state /\ pcopy = plain /\ shown = Nothing
  BY PathProgramsOK DEF Init
<1>2. CASE Len(prog.entries) = 1
  <2> DEFINE f == prog.entries[1]
             n == prog.regs[f]
             ts == Defaults(f, 0)
             vs == Chosen(f, 0)
             ft == [vals |-> ts, ret |-> NoReg]
             fv == [vals |-> vs, ret |-> NoReg]
             none == [id \in 0..NbCpu - 1 |-> NoTerm]
  <2>1. /\ n <= MaxVars /\ fresh = n /\ phase = "idle"
        /\ state = [locs |-> <<prog.init[f]>>, formula |-> World, assump |-> World, frames |-> <<ft>>, cpu |-> none]
        /\ plain = [stopped |-> "no", frames |-> <<fv>>, cpu |-> none]
    BY <1>2 DEF Init
  <2>2. f \in Func /\ n \in Nat /\ prog.init[f] \in Location
    <3>1. prog.entries \in Seq(Func) /\ 1 \in 1..Len(prog.entries)
      BY <1>1, <1>2 DEF VMPrograms
    <3>2. f \in Func
      BY <3>1, ElementOfSeq
    <3>3. QED
      BY <1>1, <3>2 DEF VMPrograms
  <2>3. ASSUME NEW id \in 0..n - 1
        PROVE  ts[id] \in Term /\ vs[id] \in Value /\ vs[id] = ts[id][world]
    <3>1. 0 + id + 1 \in 1..MaxVars
      BY <2>1, <2>2, PathBoundsOK
    <3>2. ts[id] = Var(0 + id + 1) /\ vs[id] = world[0 + id + 1]
      BY DEF Defaults, Chosen
    <3>3. QED
      BY <1>1, <3>1, <3>2, VarType
  <2>4. ts \in [0..n - 1 -> Term] /\ vs \in [0..n - 1 -> Value]
    <3>1. ts = [id \in 0..n - 1 |-> ts[id]] /\ vs = [id \in 0..n - 1 |-> vs[id]]
      BY DEF Defaults, Chosen
    <3> HIDE DEF ts, vs
    <3>2. QED
      BY <2>3, <3>1
  <2> HIDE DEF ts, vs
  <2>5. ft \in Frames(Term) /\ fv \in Frames(Value) /\ FrameSame(ft, fv)
    BY <2>2, <2>3, <2>4 DEF Frames, FrameSame
  <2> HIDE DEF ft, fv
  <2>6. none \in Cpu(Term) /\ none \in Cpu(Value) /\ \A r \in 0..NbCpu - 1 : Denotes(none[r], world, none[r])
    BY DEF Cpu, Denotes
  <2> HIDE DEF none
  <2>7. state \in TermStates /\ plain \in PlainStates /\ Len(state.locs) = 1
    BY <2>1, <2>2, <2>5, <2>6 DEF TermStates, PlainStates
  <2>8. Mirrors(state, plain)
    BY <2>1, <2>5, <2>6 DEF Mirrors
  <2>9. Follows(state, plain, state.formula)
    BY <1>1, <2>1, <2>8 DEF Follows, Going
  <2>10. fresh \in 0..MaxVars /\ 1 \in 1..MaxDepth
    BY <2>1, <2>2, PathBoundsOK
  <2>11. PathTypes
    BY <1>1, <1>2, <2>1, <2>7, <2>10 DEF PathTypes
  <2>12. QED
    BY <1>1, <2>1, <2>9, <2>11 DEF PathInv
<1>3. CASE Len(prog.entries) # 1
  <2>1. fresh = 0 /\ phase = "refused"
    BY <1>3 DEF Init
  <2>2. PathTypes
    BY <1>1, <1>3, <2>1, PathBoundsOK DEF PathTypes
  <2>3. QED
    BY <1>1, <2>1, <2>2 DEF PathInv
<1>4. QED
  BY <1>2, <1>3

LEMMA StepInv == PathInv /\ [Next]_vars => PathInv'
<1> SUFFICES ASSUME PathInv, [Next]_vars PROVE PathInv'
  OBVIOUS
<1>1. CASE Transfer
  <2>1. CASE Throw \/ Undefined
    BY <2>1, StillInv
  <2>2. CASE Commit
    BY <2>2, CommitInv
  <2>3. CASE Compute \/ Assign \/ NonDet \/ Skip \/ Assume \/ NegAssume \/ CheckAssert \/ Call \/ Ret \/ RetVoid
    <3>1. AtWork
      BY <2>3 DEF AtWork, Running, Compute, Assign, NonDet, Skip, Assume, NegAssume, CheckAssert, Call, Ret, RetVoid
    <3>2. QED
      BY <2>3, <3>1, ComputeInv, AssignInv, NonDetInv, AssumptionsInv, QuietInv, CallInv, RetInv, RetVoidInv
  <2>4. QED
    BY <1>1, <2>1, <2>2, <2>3 DEF Transfer
<1>2. CASE Next /\ ~Transfer
  BY <1>2, BeginInv, StillInv DEF Next
<1>3. CASE UNCHANGED vars
  BY <1>3 DEF vars, PathInv, PathTypes, UnderWay, Answered, Follows, Mirrors, FrameSame, Going, Denotes, Top
<1>4. QED
  BY <1>1, <1>2, <1>3

LEMMA Invariant == Spec => []PathInv
BY InitInv, StepInv, PTL DEF Spec

-----------------------------------------------------------------------------
(* Activations                                                             *)

\* Function f has a Ret.
Returning(g, f) ==
  \E e \in g.edges : e.instrs # <<>> /\ Last(e.instrs).op = "Ret" /\ g.owner[e.from] = f

\* The k-th frame is one of the function whose location is the k-th: it has all
\* registers of it, and a function with a Ret a register of the caller to return to.
Activation(g, ls, fs, k) ==
  /\ DOMAIN fs[k].vals = 0..g.regs[g.owner[ls[k]]] - 1
  /\ Returning(g, g.owner[ls[k]]) =>
       k > 1 /\ fs[k].ret # NoReg /\ fs[k].ret.id < g.regs[g.owner[ls[k - 1]]]

Active(g, ls, fs) == Len(fs) = Len(ls) /\ \A k \in 1..Len(ls) : Activation(g, ls, fs, k)

\* After the return of the entry point a last location is left, where nothing starts.
Over(g, ls, fs) == Len(ls) = 1 /\ fs = <<>> /\ \A e \in g.edges : e.from # Last(ls)

Sound(g, c) == Active(g, c.locs, c.frames) \/ Over(g, c.locs, c.frames)

\* An operand of the instruction is a CPU register that was never written.
Unset == \E k \in 1..Len(ins.args) : ins.args[k].kind = "cpu" /\ Read(copy, ins.args[k]) = NoTerm

StackInv ==
  /\ phase # "refused" => Sound(prog, state)
  /\ phase = "run" /\ pc <= Len(edge.instrs) =>
       Active(prog, copy.locs, copy.frames) /\ Last(copy.locs) = edge.to
  /\ phase = "run" /\ pc > Len(edge.instrs) => Sound(prog, copy)
  /\ phase = "undefined" => Unset

Inv == PathInv /\ (Disciplined(prog) => StackInv)

\* What a disciplined program guarantees of an edge.
LEMMA EdgeFacts ==
  ASSUME NEW g \in VMPrograms, Disciplined(g), NEW e \in g.edges
  PROVE  /\ e.from \in Location /\ e.to \in Location
         /\ e.instrs \in Seq(Instr) /\ Len(e.instrs) \in Nat
         /\ g.owner[e.to] = g.owner[e.from] /\ g.owner[e.to] \in Func
         /\ \A i \in 1..Len(e.instrs) :
              /\ WellTyped(g, g.owner[e.from], e.instrs[i])
              /\ e.instrs[i].op \in StackOps => i = Len(e.instrs)
         /\ e.instrs # <<>> => Last(e.instrs) = e.instrs[Len(e.instrs)]
         /\ IsReturn(e) => \A d \in g.edges : d.from # e.to
<1>1. e \in Edge
  BY DEF VMPrograms
<1>2. e.from \in Location /\ e.to \in Location /\ e.instrs \in Seq(Instr) /\ Len(e.instrs) \in Nat
  BY <1>1, LenProperties DEF Edge
<1>3. /\ g.owner[e.to] = g.owner[e.from] /\ StackOpsLast(e)
      /\ \A i \in 1..Len(e.instrs) : WellTyped(g, g.owner[e.from], e.instrs[i])
      /\ IsReturn(e) => \A d \in g.edges : d.from # e.to
  BY DEF Disciplined, WellFormed
<1>4. e.instrs # <<>> => Last(e.instrs) = e.instrs[Len(e.instrs)]
  BY <1>2, LastFront
<1>5. g.owner[e.to] \in Func
  BY <1>2 DEF VMPrograms
<1>6. QED
  BY <1>2, <1>3, <1>4, <1>5 DEF StackOpsLast

\* Registers that a function may name, and return registers, have numbers.
LEMMA RegsType ==
  ASSUME NEW g \in VMPrograms, NEW ls \in Seq(Location), NEW k \in 1..Len(ls)
  PROVE  g.owner[ls[k]] \in Func /\ g.regs[g.owner[ls[k]]] \in Nat
<1>1. ls[k] \in Location
  BY ElementOfSeq
<1>2. g.owner[ls[k]] \in Func
  BY <1>1 DEF VMPrograms
<1>3. QED
  BY <1>2 DEF VMPrograms

\* Other values, and other locations of the same functions.
Alike(g, ls2, fs2, ls, fs) ==
  /\ Len(ls2) = Len(ls) /\ Len(fs2) = Len(fs)
  /\ \A k \in 1..Len(ls) : /\ g.owner[ls2[k]] = g.owner[ls[k]]
                          /\ fs2[k].ret = fs[k].ret /\ DOMAIN fs2[k].vals = DOMAIN fs[k].vals

LEMMA ActiveAlike ==
  ASSUME NEW g, NEW ls \in Seq(Location), NEW fs, NEW ls2, NEW fs2,
         Active(g, ls, fs), Alike(g, ls2, fs2, ls, fs)
  PROVE  Active(g, ls2, fs2)
<1>1. PICK n \in Nat : n = Len(ls)
  BY LenProperties
<1>2. ASSUME NEW k \in 1..n PROVE Activation(g, ls2, fs2, k)
  <2>1. Activation(g, ls, fs, k) /\ fs2[k].ret = fs[k].ret /\ DOMAIN fs2[k].vals = DOMAIN fs[k].vals
    BY <1>1 DEF Active, Alike
  <2>2. g.owner[ls2[k]] = g.owner[ls[k]] /\ (k > 1 => g.owner[ls2[k - 1]] = g.owner[ls[k - 1]])
    <3>1. k > 1 => k - 1 \in 1..n
      BY <1>1
    <3>2. QED
      BY <1>1, <3>1 DEF Alike
  <2>3. QED
    BY <2>1, <2>2 DEF Activation
<1>3. QED
  BY <1>1, <1>2 DEF Active, Alike

LEMMA ActivePush ==
  ASSUME NEW g, NEW ls \in Seq(Location), NEW S, NEW fs \in Seq(S), ls # <<>>, Active(g, ls, fs),
         NEW loc \in Location, NEW fr \in S, DOMAIN fr.vals = 0..g.regs[g.owner[loc]] - 1,
         Returning(g, g.owner[loc]) => fr.ret # NoReg /\ fr.ret.id < g.regs[g.owner[Last(ls)]]
  PROVE  Active(g, Append(ls, loc), Append(fs, fr))
<1> DEFINE ls2 == Append(ls, loc)
           fs2 == Append(fs, fr)
<1>1. PICK n \in Nat \ {0} : n = Len(ls) /\ Last(ls) = ls[n] /\ Len(fs) = n
  BY LastFront DEF Active
<1>2. /\ Len(ls2) = n + 1 /\ \A k \in 1..n : ls2[k] = ls[k]
      /\ ls2[n + 1] = loc
  BY <1>1, AppendProperties
<1>3. /\ Len(fs2) = n + 1 /\ \A k \in 1..n : fs2[k] = fs[k]
      /\ fs2[n + 1] = fr
  BY <1>1, AppendProperties
<1> HIDE DEF ls2, fs2
<1>4. ASSUME NEW k \in 1..n + 1 PROVE Activation(g, ls2, fs2, k)
  <2>1. CASE k = n + 1
    <3>1. ls2[k] = loc /\ fs2[k] = fr /\ ls2[k - 1] = Last(ls) /\ k > 1
      BY <1>1, <1>2, <1>3, <2>1
    <3>2. QED
      BY <3>1 DEF Activation
  <2>2. CASE k # n + 1
    <3>1. k \in 1..n /\ (k > 1 => k - 1 \in 1..n)
      BY <2>2
    <3>2. Activation(g, ls, fs, k) /\ ls2[k] = ls[k] /\ fs2[k] = fs[k] /\ (k > 1 => ls2[k - 1] = ls[k - 1])
      BY <1>1, <1>2, <1>3, <3>1 DEF Active
    <3>3. QED
      BY <3>2 DEF Activation
  <2>3. QED
    BY <2>1, <2>2
<1>5. QED
  BY <1>2, <1>3, <1>4 DEF Active, ls2, fs2

\* The lowest n activations.
Below(ls2, fs2, ls, fs, n) ==
  /\ Len(ls2) = n /\ Len(fs2) = n
  /\ \A k \in 1..n : /\ ls2[k] = ls[k] /\ fs2[k].ret = fs[k].ret
                    /\ DOMAIN fs2[k].vals = DOMAIN fs[k].vals

LEMMA ActivePop ==
  ASSUME NEW g, NEW ls, NEW fs, NEW ls2, NEW fs2, NEW n \in Nat, Len(ls) = n + 1,
         Active(g, ls, fs), Below(ls2, fs2, ls, fs, n)
  PROVE  Active(g, ls2, fs2)
<1>1. ASSUME NEW k \in 1..n PROVE Activation(g, ls2, fs2, k)
  <2>1. k \in 1..n + 1 /\ (k > 1 => k - 1 \in 1..n)
    OBVIOUS
  <2>2. Activation(g, ls, fs, k)
    BY <2>1 DEF Active
  <2>3. /\ ls2[k] = ls[k] /\ fs2[k].ret = fs[k].ret /\ DOMAIN fs2[k].vals = DOMAIN fs[k].vals
        /\ k > 1 => ls2[k - 1] = ls[k - 1]
    BY <2>1 DEF Below
  <2>4. QED
    BY <2>2, <2>3 DEF Activation
<1>2. QED
  BY <1>1 DEF Active, Below

\* A register is written: no frame gets other registers.
SameShape(fs2, fs) ==
  /\ Len(fs2) = Len(fs)
  /\ \A k \in 1..Len(fs) : fs2[k].ret = fs[k].ret /\ DOMAIN fs2[k].vals = DOMAIN fs[k].vals

LEMMA SetLocalShape ==
  ASSUME NEW c \in TermStates, c.frames # <<>>, NEW id \in DOMAIN Top(c).vals, NEW t \in Term
  PROVE  SameShape(SetLocal(c, id, t).frames, c.frames) /\ SetLocal(c, id, t).locs = c.locs
<1>1. c.frames \in Seq(Frames(Term))
  BY DEF TermStates
<1>2. SetLocal(c, id, t) = [c EXCEPT !.frames = Put(c.frames, id, t)]
  BY DEF SetLocal, Put
<1>3. SetLocal(c, id, t).frames = Put(c.frames, id, t) /\ SetLocal(c, id, t).locs = c.locs
  BY <1>2 DEF TermStates
<1>4. id \in DOMAIN Last(c.frames).vals
  BY DEF Top
<1>5. QED
  BY <1>1, <1>3, <1>4, PutAt DEF SameShape

LEMMA SavedShape ==
  ASSUME NEW c \in TermStates, NEW r \in Reg, HasReg(c, r), NEW t \in Term
  PROVE  SameShape(Saved(c, r, t).frames, c.frames) /\ Saved(c, r, t).locs = c.locs
<1>1. CASE r.kind = "local"
  BY <1>1, SetLocalShape DEF Saved, HasReg
<1>2. CASE r.kind # "local"
  BY <1>2 DEF Saved, SameShape, TermStates
<1>3. QED
  BY <1>1, <1>2

\* An instruction that is run in a disciplined program.
OrderlyWork == AtWork /\ Disciplined(prog) /\ StackInv

\* The edge, the instruction and the stacks it works on.
LEMMA StackFacts ==
  ASSUME OrderlyWork
  PROVE  /\ prog \in VMPrograms /\ edge \in prog.edges /\ ins = edge.instrs[pc]
         /\ WellTyped(prog, prog.owner[edge.from], ins)
         /\ ins.op \in StackOps => pc = Len(edge.instrs) /\ ins = Last(edge.instrs)
         /\ edge.instrs # <<>> /\ pc \in Nat /\ Len(edge.instrs) \in Nat
         /\ prog.owner[Last(copy.locs)] = prog.owner[edge.from] /\ Last(copy.locs) = edge.to
         /\ copy.locs \in Seq(Location) /\ Len(copy.locs) \in Nat \ {0} /\ copy.locs # <<>>
         /\ Last(copy.locs) = copy.locs[Len(copy.locs)]
         /\ copy.frames \in Seq(Frames(Term)) /\ Len(copy.frames) = Len(copy.locs) /\ copy.frames # <<>>
         /\ Top(copy) = copy.frames[Len(copy.locs)]
         /\ Active(prog, copy.locs, copy.frames)
<1>1. /\ prog \in VMPrograms /\ edge \in prog.edges /\ pc \in Nat \ {0} /\ pc <= Len(edge.instrs)
      /\ copy \in TermStates /\ Len(copy.locs) \in 1..MaxDepth
  BY WorkTypes DEF OrderlyWork, AtWork, UnderWay
<1>2. Active(prog, copy.locs, copy.frames) /\ Last(copy.locs) = edge.to
  BY DEF OrderlyWork, AtWork, StackInv
<1>3. Disciplined(prog)
  BY DEF OrderlyWork
<1>4. /\ edge.instrs \in Seq(Instr) /\ Len(edge.instrs) \in Nat /\ prog.owner[edge.to] = prog.owner[edge.from]
      /\ \A i \in 1..Len(edge.instrs) :
           /\ WellTyped(prog, prog.owner[edge.from], edge.instrs[i])
           /\ edge.instrs[i].op \in StackOps => i = Len(edge.instrs)
      /\ edge.instrs # <<>> => Last(edge.instrs) = edge.instrs[Len(edge.instrs)]
  BY <1>1, <1>3, EdgeFacts
<1>5. pc \in 1..Len(edge.instrs) /\ edge.instrs # <<>>
  BY <1>1, <1>4, EmptySeq
<1>6. /\ copy.locs \in Seq(Location) /\ Len(copy.locs) \in Nat \ {0} /\ copy.locs # <<>>
      /\ copy.frames \in Seq(Frames(Term))
  BY <1>1, EmptySeq DEF TermStates
<1>7. Len(copy.frames) = Len(copy.locs) /\ copy.frames # <<>>
  BY <1>2, <1>6, EmptySeq DEF Active
<1>8. Last(copy.locs) = copy.locs[Len(copy.locs)] /\ Top(copy) = copy.frames[Len(copy.locs)]
  BY <1>7 DEF Last, Top
<1>9. ins = edge.instrs[pc]
  BY DEF ins
<1>10. QED
  BY <1>1, <1>2, <1>4, <1>5, <1>6, <1>7, <1>8, <1>9

\* A register in scope exists.
LEMMA ScopePresent ==
  ASSUME OrderlyWork, NEW r \in Reg, InScope(prog, prog.owner[edge.from], r)
  PROVE  HasReg(copy, r)
<1>1. r.id \in Nat
  BY DEF Reg
<1>2. CASE r.kind = "local"
  <2> DEFINE n == Len(copy.locs)
  <2>1. n \in 1..Len(copy.locs) /\ prog.owner[copy.locs[n]] = prog.owner[edge.from]
    BY StackFacts
  <2>2. DOMAIN copy.frames[n].vals = 0..prog.regs[prog.owner[edge.from]] - 1
    BY <2>1, StackFacts DEF Active, Activation
  <2>3. prog.regs[prog.owner[edge.from]] \in Nat
    BY <2>1, RegsType, StackFacts
  <2>4. r.id < prog.regs[prog.owner[edge.from]]
    BY <1>2 DEF InScope
  <2>5. r.id \in DOMAIN Top(copy).vals
    BY <1>1, <2>2, <2>3, <2>4, StackFacts
  <2>6. QED
    BY <1>2, <2>5, StackFacts DEF HasReg
<1>3. CASE r.kind # "local"
  <2>1. DOMAIN copy.cpu = 0..NbCpu - 1
    BY WorkTypes DEF OrderlyWork, TermStates, Cpu
  <2>2. QED
    BY <1>1, <1>3, <2>1, NbCpuOK DEF HasReg, InScope
<1>4. QED
  BY <1>2, <1>3

\* A return finds the caller's frame and its register.
LEMMA CallerKnown ==
  ASSUME OrderlyWork, ins.op = "Ret"
  PROVE  CanReturnTo(copy)
<1> DEFINE n == Len(copy.locs)
           ls == copy.locs
           fs == copy.frames
<1>1. n \in Nat \ {0} /\ prog.owner[ls[n]] = prog.owner[edge.from] /\ Len(fs) = n /\ ls \in Seq(Location)
  BY StackFacts
<1>2. Returning(prog, prog.owner[edge.from])
  BY StackFacts DEF Returning, StackOps
<1>3. /\ \A k \in 1..n : Activation(prog, ls, fs, k)
      /\ fs \in Seq(Frames(Term))
  BY StackFacts DEF Active
<1> HIDE DEF n, ls, fs
<1>4. n > 1 /\ fs[n].ret # NoReg /\ fs[n].ret.id < prog.regs[prog.owner[ls[n - 1]]]
  BY <1>1, <1>2, <1>3 DEF Activation
<1>5. n - 1 \in 1..n /\ n \in 1..n
  BY <1>1, <1>4
<1>6. DOMAIN fs[n - 1].vals = 0..prog.regs[prog.owner[ls[n - 1]]] - 1
  BY <1>3, <1>5 DEF Activation
<1>7. fs[n].ret.id \in Nat
  <2>1. fs[n] \in Frames(Term)
    BY <1>1, <1>3, <1>5, ElementOfSeq
  <2>2. QED
    BY <1>4, <2>1 DEF Frames, Reg
<1>8. prog.regs[prog.owner[ls[n - 1]]] \in Nat
  BY <1>1, <1>5, RegsType, StackFacts DEF n, ls
<1>9. fs[n].ret.id \in DOMAIN fs[n - 1].vals
  BY <1>4, <1>6, <1>7, <1>8
<1>10. QED
  BY <1>1, <1>4, <1>9 DEF CanReturnTo, fs

\* What stops the engine in a disciplined program is an unset CPU register.
LEMMA UndefinedUnset ==
  ASSUME OrderlyWork, ~Defined
  PROVE  Unset
<1>1. /\ \A k \in 1..Len(ins.args) :
           ins.args[k].kind = "const" \/ InScope(prog, prog.owner[edge.from], ins.args[k])
      /\ ins.op = "Call" => Len(ins.args) = Len(prog.params[ins.func])
      /\ ins.op \in Writes => ins.res # NoReg /\ InScope(prog, prog.owner[edge.from], ins.res)
  BY StackFacts DEF WellTyped
<1>2. ins.res \in Reg \cup {NoReg} /\ ins.args \in Seq(Operand) /\ Len(ins.args) \in Nat
  BY InsType DEF OrderlyWork
<1>3. ins.op \in Writes => ins.res # NoReg /\ HasReg(copy, ins.res)
  BY <1>1, <1>2, ScopePresent
<1>4. ins.op = "Call" => Len(ins.args) >= Len(prog.params[ins.func])
  BY <1>1, <1>2
<1>5. (ins.op = "Ret" => CanReturnTo(copy)) /\ (ins.op = "RetVoid" => copy.frames # <<>>)
  BY CallerKnown, StackFacts
<1>6. ~ArgsReadable
  BY <1>3, <1>4, <1>5 DEF Defined
<1>7. PICK k \in 1..Len(ins.args) :
        ins.args[k].kind # "const" /\ ~(HasReg(copy, ins.args[k]) /\ Read(copy, ins.args[k]) # NoTerm)
  BY <1>6 DEF ArgsReadable
<1>8. ins.args[k] \in Reg
  <2>1. ins.args[k] \in Operand
    BY <1>2, ElementOfSeq
  <2>2. QED
    BY <1>7, <2>1 DEF Operand
<1>9. HasReg(copy, ins.args[k]) /\ Read(copy, ins.args[k]) = NoTerm
  BY <1>1, <1>7, <1>8, ScopePresent
<1>10. ins.args[k].kind = "cpu"
  <2>1. SUFFICES ASSUME ins.args[k].kind = "local" PROVE FALSE
    BY <1>8 DEF Reg
  <2>2. Top(copy) \in Frames(Term)
    BY StackFacts, ElementOfSeq
  <2>3. PICK D \in SUBSET Nat : Top(copy).vals \in [D -> Term]
    BY <2>2 DEF Frames
  <2>4. NoTerm \in Term
    BY <1>9, <2>1, <2>3 DEF HasReg, Read
  <2>5. QED
    BY <2>4, NoTermIsNone, WorkTypes DEF OrderlyWork
<1>11. QED
  BY <1>9, <1>10 DEF Unset

-----------------------------------------------------------------------------
(* Steps of a disciplined program                                          *)

\* An instruction other than a call or a return.
LEMMA PlainStack ==
  ASSUME OrderlyWork, NEW c, NEW d, NEW n, Continue(c, d, n),
         c.locs = copy.locs, SameShape(c.frames, copy.frames)
  PROVE  StackInv'
<1>1. /\ prog' = prog /\ state' = state /\ edge' = edge /\ phase' = "run" /\ phase = "run"
      /\ pc' = pc + 1 /\ copy' = c /\ Sound(prog, state)
  BY DEF Continue, OrderlyWork, AtWork, StackInv
<1>2. Active(prog, c.locs, c.frames)
  <2>1. Alike(prog, c.locs, c.frames, copy.locs, copy.frames)
    BY StackFacts DEF SameShape, Alike
  <2>2. QED
    BY <2>1, StackFacts, ActiveAlike
<1>3. Sound(prog, c) /\ Last(c.locs) = edge.to
  BY <1>2, StackFacts DEF Sound
<1>4. QED
  BY <1>1, <1>2, <1>3 DEF StackInv

\* A call or a return, the last instruction of its edge.
LEMMA LastStack ==
  ASSUME OrderlyWork, ins.op \in StackOps, NEW c, NEW d, NEW n, Continue(c, d, n), Sound(prog, c)
  PROVE  StackInv'
<1>1. /\ prog' = prog /\ state' = state /\ edge' = edge /\ phase' = "run" /\ phase = "run"
      /\ pc' = pc + 1 /\ copy' = c /\ Sound(prog, state)
  BY DEF Continue, OrderlyWork, AtWork, StackInv
<1>2. pc' > Len(edge'.instrs)
  BY <1>1, StackFacts
<1>3. ~(pc' <= Len(edge'.instrs))
  BY <1>1, StackFacts
<1>4. QED
  BY <1>1, <1>2, <1>3 DEF StackInv

LEMMA WriteStack == OrderlyWork /\ (Compute \/ Assign \/ NonDet) => StackInv'
<1> SUFFICES ASSUME OrderlyWork, Compute \/ Assign \/ NonDet PROVE StackInv'
  OBVIOUS
<1>1. /\ AtWork /\ Defined /\ ins.op \in Writes /\ ins.op \in {"Compute", "Assign", "NonDet"}
      /\ ins.res \in Reg /\ HasReg(copy, ins.res) /\ copy \in TermStates
  BY InsType, WorkTypes DEF OrderlyWork, Compute, Assign, NonDet, Running, Writes, Defined
<1>2. PICK t, d, n : t \in Term /\ Continue(Saved(copy, ins.res, t), d, n)
  <2>1. CASE Compute
    <3> DEFINE t == [w \in World |-> ins.table[<<T(1)[w], T(2)[w]>>]]
    <3>1. T(1) \in Term /\ T(2) \in Term /\ ins.table \in [Value \X Value -> Value]
      BY <1>1, <2>1, FirstOperands, InsType DEF Compute, Running
    <3>2. ASSUME NEW w \in World PROVE ins.table[<<T(1)[w], T(2)[w]>>] \in Value
      <4>1. T(1)[w] \in Value /\ T(2)[w] \in Value
        BY <3>1 DEF Term
      <4>2. QED
        BY <3>1, <4>1
    <3>3. t \in Term
      BY <3>2 DEF Term
    <3>4. \E d : Continue(Saved(copy, ins.res, t), d, 0)
      BY <2>1 DEF Compute
    <3> HIDE DEF t
    <3>5. QED
      BY <3>3, <3>4
  <2>2. CASE Assign
    <3>1. T(1) \in Term
      BY <1>1, <2>2, FirstOperands DEF Assign, Running
    <3>2. \E d : Continue(Saved(copy, ins.res, T(1)), d, 0)
      BY <2>2 DEF Assign
    <3>3. QED
      BY <3>1, <3>2
  <2>3. CASE NonDet
    <3>1. Var(fresh + 1) \in Term
      <4>1. fresh + 1 \in 1..MaxVars /\ world \in World
        BY <1>1, <2>3, WorkTypes, PathBoundsOK DEF NonDet
      <4>2. QED
        BY <4>1, VarType
    <3>2. \E d : Continue(Saved(copy, ins.res, Var(fresh + 1)), d, 1)
      BY <2>3 DEF NonDet
    <3>3. QED
      BY <3>1, <3>2
  <2>4. QED
    BY <2>1, <2>2, <2>3
<1>3. SameShape(Saved(copy, ins.res, t).frames, copy.frames) /\ Saved(copy, ins.res, t).locs = copy.locs
  BY <1>1, <1>2, SavedShape
<1>4. QED
  BY <1>2, <1>3, PlainStack

LEMMA QuietStack == OrderlyWork /\ (Skip \/ Assume \/ NegAssume \/ CheckAssert) => StackInv'
<1> SUFFICES ASSUME OrderlyWork, Skip \/ Assume \/ NegAssume \/ CheckAssert PROVE StackInv'
  OBVIOUS
<1>1. PICK c, d : Continue(c, d, 0) /\ (c = copy \/ \E ws : c = AddAssumption(copy, ws))
  BY DEF Skip, Assume, NegAssume, CheckAssert
<1>2. c.locs = copy.locs /\ c.frames = copy.frames
  BY <1>1, WorkTypes DEF AddAssumption, TermStates, OrderlyWork
<1>3. SameShape(c.frames, copy.frames)
  BY <1>2 DEF SameShape
<1>4. QED
  BY <1>1, <1>2, <1>3, PlainStack

LEMMA CallStack == OrderlyWork /\ Call => StackInv'
<1> SUFFICES ASSUME OrderlyWork, Call PROVE StackInv'
  OBVIOUS
<1> DEFINE f   == ins.func
           n   == prog.regs[f]
           t   == WithArgs(prog, f, Defaults(f, fresh), [k \in 1..Len(prog.params[f]) |-> T(k)])
           fr  == [vals |-> t, ret |-> ins.res]
           loc == prog.init[f]
           cc  == PushFrame(copy, t, ins.res)
           c   == [cc EXCEPT !.locs = Append(@, loc)]
<1>1. ins.op = "Call" /\ \E d : Continue(c, d, n)
  BY DEF Call, Running
<1>2. /\ prog \in VMPrograms /\ Disciplined(prog) /\ copy \in TermStates
      /\ f \in Func /\ n \in Nat /\ loc \in Location /\ ins.res \in Reg \cup {NoReg} /\ prog.owner[loc] = f
  BY InsType, WorkTypes DEF VMPrograms, OrderlyWork, Disciplined, WellFormed
<1>3. t \in [0..n - 1 -> Term] /\ 0..n - 1 \in SUBSET Nat
  BY CallRegisters DEF OrderlyWork
<1> HIDE DEF t
<1>4. fr \in Frames(Term) /\ DOMAIN fr.vals = 0..n - 1 /\ fr.ret = ins.res
  BY <1>2, <1>3 DEF Frames
<1>5. Returning(prog, f) => ins.res # NoReg /\ ins.res.id < prog.regs[prog.owner[Last(copy.locs)]]
  <2>1. SUFFICES ASSUME NEW e \in prog.edges, e.instrs # <<>>, Last(e.instrs).op = "Ret", prog.owner[e.from] = f
                 PROVE  ins.res # NoReg /\ ins.res.id < prog.regs[prog.owner[Last(copy.locs)]]
    BY DEF Returning
  <2>2. edge \in prog.edges /\ IsCall(edge) /\ Last(edge.instrs) = ins
    BY <1>1, StackFacts DEF IsCall, StackOps
  <2>3. ins.res # NoReg /\ ins.res.kind = "local" /\ InScope(prog, prog.owner[edge.from], ins.res)
    BY <1>2, <2>1, <2>2 DEF Disciplined, ReturnsReceived
  <2>4. QED
    BY <2>3, StackFacts DEF InScope
<1> HIDE DEF fr
<1>6. c.frames = Append(copy.frames, fr) /\ c.locs = Append(copy.locs, loc)
  BY <1>2 DEF PushFrame, TermStates, fr
<1>7. Active(prog, Append(copy.locs, loc), Append(copy.frames, fr))
  BY <1>2, <1>4, <1>5, StackFacts, ActivePush
<1>8. Sound(prog, c)
  BY <1>6, <1>7 DEF Sound
<1>9. QED
  BY <1>1, <1>8, LastStack DEF StackOps

\* A return leaves the activations below, or nothing of the entry point but its
\* last location.
LEMMA ReturnStack == OrderlyWork /\ (Ret \/ RetVoid) => StackInv'
<1> SUFFICES ASSUME OrderlyWork, Ret \/ RetVoid PROVE StackInv'
  OBVIOUS
<1> DEFINE b == PopLocation(copy)
           p == PopFrame(b)
<1>0. PICK m \in Nat : Len(copy.locs) = m + 1 /\ m = Len(copy.locs) - 1
  <2>1. Len(copy.locs) - 1 \in Nat /\ Len(copy.locs) = Len(copy.locs) - 1 + 1
    BY StackFacts
  <2>2. QED
    BY <2>1
<1>1. PICK c, d : /\ Continue(c, d, 0)
                  /\ \/ ins.op = "RetVoid" /\ c = p
                     \/ ins.op = "Ret" /\ c = SetLocal(p, Top(copy).ret.id, T(1))
  BY DEF Ret, RetVoid, Running
<1>2. AtWork /\ Defined /\ ins.op \in {"Ret", "RetVoid"} /\ IsReturn(edge)
  BY StackFacts DEF Ret, RetVoid, Running, OrderlyWork, IsReturn, StackOps
<1>3. /\ b \in TermStates /\ b.frames = copy.frames
      /\ b.locs = IF m > 0 THEN Front(copy.locs) ELSE copy.locs
  <2>1. m > 0 <=> Len(copy.locs) > 1
    BY <1>0
  <2>2. b.locs = IF Len(copy.locs) > 1 THEN Front(copy.locs) ELSE copy.locs
    BY <1>2, WorkTypes DEF PopLocation, TermStates
  <2>3. QED
    BY <1>2, <2>1, <2>2, PopLocationSame
<1>4. /\ p \in TermStates /\ p.locs = b.locs /\ Len(p.frames) = m
      /\ \A i \in 1..m : p.frames[i] = copy.frames[i]
  <2>1. b.frames # <<>> /\ world \in World /\ pcopy \in PlainStates /\ Len(b.frames) = m + 1 /\ m = m + 1 - 1
    BY <1>0, <1>2, <1>3, StackFacts, WorkTypes DEF OrderlyWork
  <2> HIDE DEF b
  <2>2. /\ p \in TermStates /\ p.locs = b.locs /\ Len(p.frames) = Len(b.frames) - 1
        /\ \A i \in 1..Len(b.frames) - 1 : p.frames[i] = b.frames[i]
    BY <1>3, <2>1, PopSame
  <2> HIDE DEF p
  <2>3. QED
    BY <1>3, <2>1, <2>2
<1> HIDE DEF b, p
<1>5. SameShape(c.frames, p.frames) /\ c.locs = p.locs /\ (ins.op = "Ret" => m > 0)
  <2>1. CASE ins.op = "RetVoid"
    BY <1>1, <2>1 DEF SameShape
  <2>2. CASE ins.op = "Ret"
    <3>1. CanReturnTo(copy) /\ T(1) \in Term
      BY <1>2, <2>2, FirstOperands DEF Defined
    <3>2. m > 0 /\ m \in 1..m /\ Top(copy).ret.id \in DOMAIN copy.frames[m].vals
      BY <1>0, <3>1, StackFacts DEF CanReturnTo
    <3>3. p.frames # <<>> /\ Top(p) = copy.frames[m]
      BY <1>4, <3>2, EmptySeq DEF Top, Last
    <3>4. SameShape(c.frames, p.frames) /\ c.locs = p.locs
      BY <1>1, <1>4, <2>2, <3>1, <3>2, <3>3, SetLocalShape
    <3>5. QED
      BY <3>2, <3>4
  <2>3. QED
    BY <1>2, <2>1, <2>2
<1>6. CASE m > 0
  <2>1. /\ Len(Front(copy.locs)) = m /\ \A i \in 1..m : Front(copy.locs)[i] = copy.locs[i]
    BY <1>0, StackFacts, LastFront
  <2>2. Below(c.locs, c.frames, copy.locs, copy.frames, m)
    BY <1>3, <1>4, <1>5, <1>6, <2>1 DEF Below, SameShape
  <2>3. Active(prog, c.locs, c.frames)
    BY <1>0, <2>2, StackFacts, ActivePop
  <2>4. Sound(prog, c)
    BY <2>3 DEF Sound
  <2>5. QED
    BY <1>1, <1>2, <2>4, LastStack DEF StackOps
<1>7. CASE m = 0
  <2>1. c.frames = <<>>
    <3>1. c = p
      BY <1>0, <1>1, <1>5, <1>7
    <3>2. p.frames \in Seq(Frames(Term)) /\ Len(p.frames) = 0
      BY <1>4, <1>7 DEF TermStates
    <3>3. QED
      BY <3>1, <3>2, EmptySeq
  <2>2. c.locs = copy.locs /\ Len(c.locs) = 1 /\ Last(c.locs) = edge.to
    BY <1>0, <1>3, <1>4, <1>5, <1>7, StackFacts
  <2>3. \A e \in prog.edges : e.from # edge.to
    BY <1>2, StackFacts, EdgeFacts DEF OrderlyWork
  <2>4. Sound(prog, c)
    BY <2>1, <2>2, <2>3 DEF Sound, Over
  <2>5. QED
    BY <1>1, <1>2, <2>4, LastStack DEF StackOps
<1>8. m > 0 \/ m = 0
  BY <1>0
<1>9. QED
  BY <1>6, <1>7, <1>8

\* An edge starts where edges start, so there are frames to run it on.
LEMMA BeginStack ==
  ASSUME PathInv, Disciplined(prog), StackInv, NEW e \in prog.edges, Begin(e)
  PROVE  StackInv'
<1> DEFINE n  == Len(state.locs)
           ls == [state.locs EXCEPT ![n] = e.to]
<1>1. /\ phase = "idle" /\ edge' = e /\ pc' = 1 /\ phase' = "run" /\ prog' = prog /\ state' = state
      /\ copy' = [state EXCEPT !.locs[n] = e.to, !.assump = World] /\ e.from = Last(state.locs)
  BY DEF Begin
<1>2. /\ prog \in VMPrograms /\ state \in TermStates /\ n \in 1..MaxDepth
      /\ state.locs \in Seq(Location)
  BY <1>1 DEF PathInv, PathTypes, TermStates
<1>3. copy'.locs = ls /\ copy'.frames = state.frames
  BY <1>1, <1>2 DEF TermStates
<1>4. Active(prog, state.locs, state.frames)
  BY <1>1 DEF StackInv, Sound, Over
<1>5. e.to \in Location /\ prog.owner[e.to] = prog.owner[e.from] /\ e.from = state.locs[n]
  BY <1>1, <1>2, EdgeFacts DEF Last
<1>6. /\ ls \in Seq(Location) /\ Len(ls) = n /\ n \in 1..n
      /\ \A k \in 1..n : ls[k] = IF k = n THEN e.to ELSE state.locs[k]
  BY <1>2, <1>5, ExceptSeq, PathBoundsOK
<1> HIDE DEF ls
<1>7. Active(prog, ls, state.frames) /\ Last(ls) = e.to
  <2>1. Alike(prog, ls, state.frames, state.locs, state.frames)
    BY <1>4, <1>5, <1>6 DEF Alike, Active
  <2>2. Last(ls) = e.to
    BY <1>6 DEF Last
  <2>3. QED
    BY <1>2, <1>4, <2>1, <2>2, ActiveAlike
<1>8. Sound(prog, state) /\ Sound(prog, [locs |-> ls, frames |-> state.frames])
  BY <1>1, <1>7 DEF StackInv, Sound
<1>9. Sound(prog, copy')
  BY <1>3, <1>7 DEF Sound
<1>10. QED
  BY <1>1, <1>3, <1>7, <1>8, <1>9 DEF StackInv

\* Steps between edges, and the end of an edge.
LEMMA StillStack ==
  ASSUME PathInv, StackInv, Throw \/ Filter \/ Close \/ Commit \/ \E r \in 0..MaxVars : Evaluate(r)
  PROVE  StackInv'
<1>1. /\ prog' = prog /\ phase # "refused" /\ phase' \notin {"run", "undefined"}
      /\ state' = state \/ Commit
  BY DEF Throw, Filter, Close, Commit, Evaluate
<1>2. Sound(prog, state')
  <2>1. CASE ~Commit
    BY <1>1, <2>1 DEF StackInv
  <2>2. CASE Commit
    <3>1. copy \in TermStates /\ Sound(prog, copy)
      BY <2>2 DEF Commit, PathInv, PathTypes, StackInv
    <3>2. state'.locs = copy.locs /\ state'.frames = copy.frames
      BY <2>2, <3>1 DEF Commit, TermStates
    <3>3. QED
      BY <3>1, <3>2 DEF Sound
  <2>3. QED
    BY <2>1, <2>2
<1>3. QED
  BY <1>1, <1>2 DEF StackInv

LEMMA UndefinedStack == PathInv /\ Disciplined(prog) /\ StackInv /\ Undefined => StackInv'
<1> SUFFICES ASSUME PathInv, Disciplined(prog), StackInv, Undefined PROVE StackInv'
  OBVIOUS
<1>1. OrderlyWork /\ ~Defined
  BY DEF Undefined, OrderlyWork, AtWork
<1>2. UNCHANGED <<prog, state, copy, edge, pc>> /\ phase' = "undefined" /\ phase = "run"
  BY DEF Undefined
<1>3. Unset'
  BY <1>1, <1>2, UndefinedUnset DEF Unset, ins, Read, Top
<1>4. (Sound(prog, state))'
  BY <1>2 DEF StackInv
<1>5. QED
  BY <1>2, <1>3, <1>4 DEF StackInv

LEMMA InitStack == Init /\ Disciplined(prog) => StackInv
<1> SUFFICES ASSUME Init, Disciplined(prog), Len(prog.entries) = 1 PROVE StackInv
  BY DEF Init, StackInv
<1> DEFINE f == prog.entries[1]
           n == prog.regs[f]
<1>1. /\ phase = "idle" /\ prog \in VMPrograms
      /\ state.locs = <<prog.init[f]>> /\ state.frames = <<[vals |-> Defaults(f, 0), ret |-> NoReg]>>
  BY PathProgramsOK DEF Init
<1>2. f \in Func /\ 1 \in Procs(prog)
  <2>1. prog.entries \in Seq(Func) /\ 1 \in 1..Len(prog.entries)
    BY <1>1 DEF VMPrograms
  <2>2. QED
    BY <2>1, ElementOfSeq DEF Procs
<1>3. prog.owner[prog.init[f]] = f /\ ~Returning(prog, f)
  BY <1>2 DEF Disciplined, WellFormed, ReturnsReceived, Returning
<1>4. DOMAIN Defaults(f, 0) = 0..n - 1
  BY DEF Defaults
<1>5. Active(prog, state.locs, state.frames)
  <2>1. /\ Len(state.locs) = 1 /\ Len(state.frames) = 1
        /\ state.locs[1] = prog.init[f] /\ state.frames[1].vals = Defaults(f, 0)
    BY <1>1
  <2>2. Activation(prog, state.locs, state.frames, 1)
    BY <1>3, <1>4, <2>1 DEF Activation
  <2>3. QED
    BY <2>1, <2>2 DEF Active
<1>6. QED
  BY <1>1, <1>5 DEF StackInv, Sound

LEMMA StepStack == PathInv /\ Disciplined(prog) /\ StackInv /\ [Next]_vars => StackInv'
<1> SUFFICES ASSUME PathInv, Disciplined(prog), StackInv, [Next]_vars PROVE StackInv'
  OBVIOUS
<1>1. CASE Compute \/ Assign \/ NonDet \/ Skip \/ Assume \/ NegAssume \/ CheckAssert \/ Call \/ Ret \/ RetVoid
  <2>1. OrderlyWork
    BY <1>1 DEF OrderlyWork, AtWork, Running, Compute, Assign, NonDet, Skip, Assume, NegAssume, CheckAssert, Call, Ret, RetVoid
  <2>2. QED
    BY <1>1, <2>1, WriteStack, QuietStack, CallStack, ReturnStack
<1>2. CASE Throw \/ Filter \/ Close \/ Commit \/ \E r \in 0..MaxVars : Evaluate(r)
  BY <1>2, StillStack
<1>3. CASE Undefined
  BY <1>3, UndefinedStack
<1>4. CASE \E e \in prog.edges : Begin(e)
  BY <1>4, BeginStack
<1>5. CASE UNCHANGED vars
  BY <1>5 DEF vars, StackInv, Unset, ins, Read, Top
<1>6. QED
  BY <1>1, <1>2, <1>3, <1>4, <1>5 DEF Next, Transfer

LEMMA StackInvariance == Spec => []Inv
<1>1. Init => Inv
  BY InitInv, InitStack DEF Inv
<1>2. Inv /\ [Next]_vars => Inv'
  <2> SUFFICES ASSUME Inv, [Next]_vars PROVE Inv'
    OBVIOUS
  <2>1. prog' = prog
    BY DEF Next, vars, Begin, Filter, Evaluate, Close, Transfer, Throw, Undefined, Commit, Continue,
           Compute, Assign, NonDet, Skip, Assume, NegAssume, CheckAssert, Call, Ret, RetVoid
  <2>2. QED
    BY <2>1, StepInv, StepStack DEF Inv
<1>3. QED
  BY <1>1, <1>2, PTL DEF Spec

-----------------------------------------------------------------------------
(* Theorems                                                                *)

\* The path formula, its frames and its locations have their types: a return keeps
\* the location of the entry point, and every register holds a term.
THEOREM PathFormulaTypes == Spec => []TypeOK
<1>1. PathInv => TypeOK
  <2> SUFFICES ASSUME PathInv, phase # "refused", NEW c \in {state, copy}
               PROVE  /\ \A i \in 1..Len(c.frames) : \A r \in DOMAIN c.frames[i].vals : c.frames[i].vals[r] \in Term
                      /\ \A r \in DOMAIN c.cpu : c.cpu[r] \in Term \cup {NoTerm}
    BY DEF PathInv, PathTypes, TypeOK, TermStates
  <2>1. c \in TermStates
    BY DEF PathInv, PathTypes
  <2>2. ASSUME NEW i \in 1..Len(c.frames), NEW r \in DOMAIN c.frames[i].vals
        PROVE  c.frames[i].vals[r] \in Term
    <3>1. c.frames[i] \in Frames(Term)
      BY <2>1, ElementOfSeq DEF TermStates
    <3>2. PICK D \in SUBSET Nat : c.frames[i].vals \in [D -> Term]
      BY <3>1 DEF Frames
    <3>3. QED
      BY <3>2
  <2>3. QED
    BY <2>1, <2>2 DEF TermStates, Cpu
<1>2. QED
  BY <1>1, Invariant, PTL

\* A world satisfies the formula exactly when the run that makes its choices can
\* follow the path, and the terms are then worth what that run computes: the
\* formula is neither too strong nor too weak, whatever was called and returned.
THEOREM FormulaExact == Spec => []PathExact
<1>1. PathInv => PathExact
  <2> SUFFICES ASSUME PathInv, phase \in {"idle", "shown", "filtered"}
               PROVE  /\ Going(plain) => world \in state.formula /\ SameValues(state, plain, world)
                      /\ world \in state.formula => plain.stopped # "assume"
    BY DEF PathExact
  <2>1. Follows(state, plain, state.formula) /\ state \in TermStates /\ world \in World
    BY DEF PathInv, PathTypes
  <2>2. ASSUME Mirrors(state, plain) PROVE SameValues(state, plain, world)
    <3>1. ASSUME NEW i \in 1..Len(state.frames)
          PROVE  /\ state.frames[i].ret = plain.frames[i].ret
                 /\ \A r \in DOMAIN state.frames[i].vals :
                      Denotes(state.frames[i].vals[r], world, plain.frames[i].vals[r])
      <4>1. FrameSame(state.frames[i], plain.frames[i])
        BY <2>2 DEF Mirrors
      <4>2. state.frames[i] \in Frames(Term)
        BY <2>1, ElementOfSeq DEF TermStates
      <4>3. PICK D \in SUBSET Nat : state.frames[i].vals \in [D -> Term]
        BY <4>2 DEF Frames
      <4>4. \A r \in DOMAIN state.frames[i].vals : state.frames[i].vals[r] # NoTerm
        BY <2>1, <4>3, NoTermIsNone
      <4>5. QED
        BY <4>1, <4>4 DEF FrameSame, Denotes
    <3>2. DOMAIN state.cpu = 0..NbCpu - 1
      BY <2>1 DEF TermStates, Cpu
    <3>3. QED
      BY <2>2, <3>1, <3>2 DEF Mirrors, SameValues
  <2>3. QED
    BY <2>1, <2>2 DEF Follows
<1>2. QED
  BY <1>1, Invariant, PTL

\* What the concretizer reports of a register is its value in a run that follows
\* the path, and a path is dropped only when no run follows it.
THEOREM AnswersAreReal == Spec => []AnswersReal
<1>1. PathInv => AnswersReal
  <2> SUFFICES ASSUME PathInv PROVE AnswersReal
    OBVIOUS
  <2>1. ASSUME shown # Nothing, shown.model = world
        PROVE  /\ Going(plain) => Top(plain).vals[shown.reg] = shown.value
               /\ plain.stopped # "assume"
    <3>1. Answered /\ state \in TermStates /\ Follows(state, plain, state.formula)
      BY <2>1 DEF PathInv, PathTypes, Answered
    <3>2. world \in state.formula
      BY <2>1, <3>1 DEF Answered
    <3>3. ASSUME Going(plain) PROVE Top(plain).vals[shown.reg] = shown.value
      <4>1. PICK n \in Nat \ {0} : n = Len(state.frames)
        BY <3>1, EmptySeq DEF Answered, TermStates
      <4>2. FrameSame(state.frames[n], plain.frames[n]) /\ Len(plain.frames) = n
        BY <3>1, <3>3, <4>1 DEF Follows, Mirrors
      <4>3. Top(state) = state.frames[n] /\ Top(plain) = plain.frames[n]
        BY <4>1, <4>2 DEF Top, Last
      <4>4. QED
        BY <2>1, <3>1, <4>2, <4>3 DEF Answered, FrameSame
    <3>4. QED
      BY <3>1, <3>2, <3>3 DEF Follows
  <2>2. phase = "filtered" => ~Going(plain)
    BY DEF PathInv, Follows
  <2>3. QED
    BY <2>1, <2>2 DEF AnswersReal
<1>2. QED
  BY <1>1, Invariant, PTL

\* A disciplined program never makes the engine touch a register outside its frame, a
\* caller that is not there or the back of an empty stack: the one value that may be
\* missing is that of a CPU register nothing was written to.
THEOREM OnlyUnsetRegisters == Spec => []UndefinedIsUnsetCpu
<1>1. Inv => UndefinedIsUnsetCpu
  BY DEF Inv, StackInv, Unset, UndefinedIsUnsetCpu
<1>2. QED
  BY <1>1, StackInvariance, PTL

=============================================================================
