------------------------------ MODULE TypedProofs ------------------------------
(***************************************************************************)
(* Type soundness: for every set of programs that are built by the rules   *)
(* of WellFormed, every number of values of a byte and any choices of      *)
(* NonDet, what the type checker accepts keeps the types of its registers  *)
(* and never meets a value that its instruction has no rule for.           *)
(***************************************************************************)
EXTENDS TypedRun, SequenceTheorems, TLAPS

\* What repeating a step makes of a value exists.
Loop == INSTANCE EnumeratorProofs

USE RadixOK

-----------------------------------------------------------------------------
(* Numbers                                                                 *)

LEMMA PowExists == Pow = [n \in Nat |-> IF n = 0 THEN 1 ELSE Radix * Pow[n - 1]]
<1> DEFINE step == [v \in Nat |-> Radix * v]
           code(g) == [n \in Nat |-> IF n = 0 THEN 1 ELSE Radix * g[n - 1]]
<1>1. \E f : f = code(f)
  <2>1. step \in Loop!Steps(Nat) /\ 1 \in Nat
    BY DEF Loop!Steps
  <2>2. PICK f : Loop!Repeats(f, Nat, 1, step)
    <3> HIDE DEF step
    <3>1. QED
      BY <2>1, Loop!Iteration
  <2>3. f \in [Nat -> Nat] /\ f[0] = 1
    BY <2>2 DEF Loop!Repeats
  <2>4. ASSUME NEW n \in Nat, n # 0 PROVE f[n] = Radix * f[n - 1]
    <3>1. n \in Nat \ {0} /\ n - 1 \in Nat
      BY <2>4
    <3>2. f[n] = step[f[n - 1]] /\ f[n - 1] \in Nat
      BY <2>2, <2>3, <3>1 DEF Loop!Repeats
    <3>3. QED
      BY <3>2
  <2>5. ASSUME NEW n \in Nat PROVE f[n] = code(f)[n]
    BY <2>3, <2>4
  <2>6. f = code(f)
    <3>1. f = [n \in Nat |-> f[n]] /\ code(f) = [n \in Nat |-> code(f)[n]]
      BY <2>3
    <3> HIDE DEF code
    <3>2. QED
      BY <2>5, <3>1
  <2>7. QED
    BY <2>6
<1>2. Pow = CHOOSE g : g = code(g)
  BY DEF Pow
<1> HIDE DEF code
<1>3. Pow = code(Pow)
  BY <1>1, <1>2
<1>4. QED
  BY <1>3 DEF code

LEMMA PowSteps == Pow[0] = 1 /\ \A n \in Nat \ {0} : Pow[n] = Radix * Pow[n - 1]
<1>1. ASSUME NEW n \in Nat PROVE Pow[n] = IF n = 0 THEN 1 ELSE Radix * Pow[n - 1]
  <2> DEFINE code(g) == [m \in Nat |-> IF m = 0 THEN 1 ELSE Radix * g[m - 1]]
  <2>1. code(Pow)[n] = IF n = 0 THEN 1 ELSE Radix * Pow[n - 1]
    OBVIOUS
  <2>2. Pow = code(Pow)
    BY PowExists
  <2> HIDE DEF code
  <2>3. QED
    BY <2>1, <2>2
<1>2. QED
  BY <1>1

LEMMA Products ==
  ASSUME NEW a \in Nat \ {0}, NEW b \in Nat \ {0}
  PROVE  a * b \in Nat \ {0} /\ a <= a * b /\ b <= a * b
  OBVIOUS

LEMMA PowPositive == \A n \in Nat : Pow[n] \in Nat \ {0}
<1> DEFINE Outside == {n \in Nat : Pow[n] \notin Nat \ {0}}
<1>1. SUFFICES ASSUME Outside # {} PROVE FALSE
  OBVIOUS
<1>2. PICK m \in Outside : \A n \in Outside : m <= n
  <2>1. Outside \in SUBSET Nat
    OBVIOUS
  <2> HIDE DEF Outside
  <2>2. QED
    BY <1>1, <2>1, Loop!LeastNat
<1>3. m # 0
  BY <1>2, PowSteps
<1>4. m - 1 \in Nat /\ ~(m <= m - 1) /\ m \in Nat \ {0}
  BY <1>2, <1>3
<1>5. Pow[m - 1] \in Nat \ {0}
  BY <1>2, <1>4
<1>6. Pow[m] \in Nat \ {0}
  BY <1>4, <1>5, PowSteps, Products
<1>7. QED
  BY <1>2, <1>6

LEMMA PowGrows == \A n \in Nat \ {0} : Pow[n] >= 2
<1>1. TAKE n \in Nat \ {0}
<1>2. n - 1 \in Nat
  OBVIOUS
<1>3. Pow[n] = Radix * Pow[n - 1] /\ Pow[n - 1] \in Nat \ {0}
  BY <1>2, PowSteps, PowPositive
<1>4. Radix <= Radix * Pow[n - 1]
  BY <1>3, Products
<1>5. QED
  BY <1>3, <1>4

LEMMA Regroup ==
  ASSUME NEW a \in Nat, NEW b \in Nat, NEW c \in Nat
  PROVE  a * (b * c) = (a * b) * c
  OBVIOUS

\* Two halves of a pointer make the pointer.
LEMMA PowHalves == Pow[4] = Pow[2] * Pow[2] /\ Pow[8] = Pow[4] * Pow[4] /\ Pow[2] <= Pow[4]
<1>1. \A n \in 0 .. 8 : Pow[n] \in Nat
  BY PowPositive
<1>2. /\ Pow[1] = Radix /\ Pow[2] = Radix * Pow[1] /\ Pow[3] = Radix * Pow[2] /\ Pow[4] = Radix * Pow[3]
      /\ Pow[5] = Radix * Pow[4] /\ Pow[6] = Radix * Pow[5] /\ Pow[7] = Radix * Pow[6] /\ Pow[8] = Radix * Pow[7]
  BY PowSteps
<1>3. Pow[4] = Pow[2] * Pow[2]
  <2>1. Pow[4] = Radix * (Pow[1] * Pow[2])
    BY <1>2
  <2>2. QED
    BY <1>1, <1>2, <2>1, Regroup
<1>4. Pow[5] = Pow[1] * Pow[4]
  BY <1>2
<1>5. Pow[6] = Pow[2] * Pow[4]
  BY <1>1, <1>2, <1>4, Regroup
<1>6. Pow[7] = Pow[3] * Pow[4]
  BY <1>1, <1>2, <1>5, Regroup
<1>7. Pow[8] = Pow[4] * Pow[4]
  BY <1>1, <1>2, <1>6, Regroup
<1>8. Pow[2] <= Pow[4]
  BY <1>3, PowPositive, Products
<1>9. QED
  BY <1>3, <1>7, <1>8

LEMMA Remainders ==
  ASSUME NEW a \in Int, NEW m \in Nat \ {0}
  PROVE  a % m \in 0 .. m - 1
  OBVIOUS

LEMMA Quotients ==
  ASSUME NEW a \in Nat, NEW m \in Nat \ {0}
  PROVE  a \div m \in 0 .. a
<1>1. PICK q \in Int, r \in 0 .. m - 1 : q = a \div m /\ a = m * q + r
  OBVIOUS
<1>2. q >= 0
  BY <1>1
<1>3. q <= a
  BY <1>1, <1>2
<1>4. QED
  BY <1>1, <1>2, <1>3

LEMMA Parts ==
  ASSUME NEW a \in Nat, NEW m \in Nat \ {0}
  PROVE  a % m \in Nat /\ a \div m \in Nat
  BY Remainders, Quotients

\* A base below m and an offset make a number below m * m.
LEMMA Halves ==
  ASSUME NEW m \in Nat \ {0}, NEW b \in 0 .. m - 1, NEW o \in 0 .. m - 1
  PROVE  b + m * o \in 0 .. m * m - 1
<1>1. m * o <= m * (m - 1)
  OBVIOUS
<1>2. m * (m - 1) = m * m - m
  OBVIOUS
<1>3. QED
  BY <1>1, <1>2

LEMMA ListOf ==
  ASSUME NEW S, NEW n \in Nat, NEW f \in [1 .. n -> S]
  PROVE  f \in Seq(S) /\ Len(f) = n /\ DOMAIN f = 1 .. n
<1>1. f \in Seq(S)
  BY SeqDef
<1>2. DOMAIN f = 1 .. n /\ DOMAIN f = 1 .. Len(f) /\ Len(f) \in Nat
  BY <1>1, LenProperties
<1>3. QED
  BY <1>1, <1>2

Bytes == 0 .. Radix - 1

\* One more byte on top of a number.
LEMMA TopByte ==
  ASSUME NEW m \in Nat \ {0}, NEW v \in 0 .. m - 1, NEW d \in Bytes
  PROVE  v + d * m \in 0 .. (Radix * m) - 1
<1>1. d * m <= (Radix - 1) * m /\ (Radix - 1) * m = Radix * m - m /\ d * m \in Nat
  BY DEF Bytes
<1>2. QED
  BY <1>1

\* The sum of the bytes, one byte at a time.
Sums(ds, n, g) == [k \in 0 .. n |-> IF k = 0 THEN 0 ELSE g[k - 1] + ds[k] * Pow[k - 1]]

LEMMA SumExists ==
  ASSUME NEW n \in Nat, NEW ds \in [1 .. n -> Bytes]
  PROVE  \E g : g = Sums(ds, n, g)
<1> DEFINE S == Nat \X Nat
           step == [p \in S |-> <<p[1] + 1, IF p[1] < n THEN p[2] + ds[p[1] + 1] * Pow[p[1]] ELSE 0>>]
           init == <<0, 0>>
<1>1. init \in S
  OBVIOUS
<1>2. ASSUME NEW p \in S PROVE step[p] \in S
  <2>1. CASE p[1] < n
    <3>1. ds[p[1] + 1] \in Nat
      BY <2>1 DEF Bytes
    <3>2. Pow[p[1]] \in Nat
      BY PowPositive
    <3>3. ds[p[1] + 1] * Pow[p[1]] \in Nat
      BY <3>1, <3>2
    <3>4. QED
      BY <2>1, <3>3
  <2>2. CASE ~(p[1] < n)
    BY <2>2
  <2>3. QED
    BY <2>1, <2>2
<1>3. step \in Loop!Steps(S)
  BY <1>2 DEF Loop!Steps
<1>4. PICK f : Loop!Repeats(f, S, init, step)
  <2> HIDE DEF S, init, step
  <2>1. QED
    BY <1>1, <1>3, Loop!Iteration
<1>5. f \in [Nat -> S] /\ f[0] = init /\ \A k \in Nat \ {0} : f[k] = step[f[k - 1]]
  BY <1>4 DEF Loop!Repeats
<1>6. ASSUME NEW p \in S
      PROVE  step[p][1] = p[1] + 1 /\ (p[1] < n => step[p][2] = p[2] + ds[p[1] + 1] * Pow[p[1]])
  OBVIOUS
<1> HIDE DEF step
<1>7. ASSUME NEW k \in Nat PROVE f[k][1] = k
  <2> DEFINE Off == {j \in Nat : f[j][1] # j}
  <2>1. SUFFICES ASSUME Off # {} PROVE FALSE
    OBVIOUS
  <2>2. PICK m \in Off : \A j \in Off : m <= j
    <3>1. Off \in SUBSET Nat
      OBVIOUS
    <3> HIDE DEF Off
    <3>2. QED
      BY <2>1, <3>1, Loop!LeastNat
  <2>3. m # 0
    BY <1>5, <2>2
  <2>4. m - 1 \in Nat /\ ~(m <= m - 1) /\ m \in Nat \ {0}
    BY <2>2, <2>3
  <2>5. f[m - 1][1] = m - 1 /\ f[m - 1] \in S
    BY <1>5, <2>2, <2>4
  <2>6. f[m][1] = m - 1 + 1
    BY <1>5, <1>6, <2>4, <2>5
  <2>7. QED
    BY <2>2, <2>4, <2>6
<1> DEFINE g == [k \in 0 .. n |-> f[k][2]]
<1>8. ASSUME NEW k \in 0 .. n PROVE g[k] = Sums(ds, n, g)[k]
  <2>1. CASE k = 0
    BY <1>5, <2>1 DEF Sums
  <2>2. CASE k # 0
    <3>1. k - 1 \in 0 .. n /\ k \in Nat \ {0} /\ k - 1 < n /\ k - 1 \in Nat
      BY <2>2
    <3>2. f[k - 1] \in S /\ f[k - 1][1] = k - 1
      BY <1>5, <1>7, <3>1
    <3>3. f[k][2] = f[k - 1][2] + ds[k] * Pow[k - 1]
      <4>1. f[k] = step[f[k - 1]]
        BY <1>5, <3>1
      <4>2. k - 1 + 1 = k
        OBVIOUS
      <4>3. QED
        BY <1>6, <3>1, <3>2, <4>1, <4>2
    <3>4. Sums(ds, n, g)[k] = g[k - 1] + ds[k] * Pow[k - 1]
      BY <2>2 DEF Sums
    <3>5. QED
      BY <3>1, <3>3, <3>4
  <2>3. QED
    BY <2>1, <2>2
<1>9. g = Sums(ds, n, g)
  <2>1. g = [k \in 0 .. n |-> g[k]] /\ Sums(ds, n, g) = [k \in 0 .. n |-> Sums(ds, n, g)[k]]
    BY DEF Sums
  <2> HIDE DEF g
  <2>2. QED
    BY <1>8, <2>1
<1>10. QED
  BY <1>9

\* A number of n bytes is below Pow[n].
LEMMA NumberRange ==
  ASSUME NEW n \in Nat, NEW ds \in [1 .. n -> Bytes]
  PROVE  Number(ds) \in 0 .. Pow[n] - 1
<1>1. Len(ds) = n
  BY ListOf
<1> DEFINE sum == CHOOSE g : g = Sums(ds, n, g)
<1>2. Number(ds) = sum[n]
  BY <1>1 DEF Number, Sums
<1>3. sum = Sums(ds, n, sum)
  BY SumExists
<1> HIDE DEF sum
<1>4. sum[0] = 0 /\ \A k \in 1 .. n : sum[k] = sum[k - 1] + ds[k] * Pow[k - 1]
  BY <1>3 DEF Sums
<1> DEFINE Off == {k \in 0 .. n : sum[k] \notin 0 .. Pow[k] - 1}
<1>5. SUFFICES ASSUME Off # {} PROVE FALSE
  BY <1>2
<1>6. PICK m \in Off : \A k \in Off : m <= k
  <2>1. Off \in SUBSET Nat
    OBVIOUS
  <2> HIDE DEF Off
  <2>2. QED
    BY <1>5, <2>1, Loop!LeastNat
<1>7. m # 0
  BY <1>4, <1>6, PowSteps
<1>8. m \in 1 .. n /\ m - 1 \in 0 .. n /\ ~(m <= m - 1) /\ m \in Nat \ {0} /\ m - 1 \in Nat
  BY <1>6, <1>7
<1>9. sum[m - 1] \in 0 .. Pow[m - 1] - 1
  BY <1>6, <1>8
<1>10. sum[m] \in 0 .. (Radix * Pow[m - 1]) - 1
  <2>1. Pow[m - 1] \in Nat \ {0} /\ ds[m] \in Bytes
    BY <1>8, PowPositive
  <2>2. sum[m - 1] + ds[m] * Pow[m - 1] \in 0 .. (Radix * Pow[m - 1]) - 1
    BY <1>9, <2>1, TopByte
  <2>3. QED
    BY <1>4, <1>8, <2>2
<1>11. QED
  BY <1>6, <1>8, <1>10, PowSteps

-----------------------------------------------------------------------------
(* Types and values                                                        *)

Sized(t) ==
  /\ t.size \in Nat /\ Card(t) \in Nat \ {0}
  /\ IsInteger(t) => t = Type(t.id) /\ t.size \in Nat \ {0} /\ Card(t) = Pow[t.size] /\ t.id # "Aggregate"
  /\ IsPointer(t) => t = Type(t.id) /\ t.size \in {4, 8} /\ Card(t) = Pow[t.size] /\ t.id # "Aggregate"
  /\ t.id = "Bool" => Card(t) = 2 /\ t = Type("Bool")
  /\ t.id # "Bool" => Card(t) = Pow[t.size]

LEMMA TypeSized ==
  ASSUME NEW t, ValueType(t)
  PROVE  Sized(t)
<1>1. CASE t = AggregateType(t.size) /\ t.size \in Nat
  <2>1. t.id = "Aggregate" /\ Card(t) = Pow[t.size] /\ Pow[t.size] \in Nat \ {0}
    <3>1. t.id = "Aggregate"
      BY <1>1 DEF AggregateType
    <3>2. QED
      BY <1>1, <3>1, PowPositive DEF Card
  <2>2. QED
    BY <1>1, <2>1 DEF Sized, IsInteger, IsPointer
<1>2. ASSUME NEW id \in {"Bool", "I8", "I16", "I32", "I64", "Pointer", "Pointer32"}, t = Type(id) PROVE Sized(t)
  <2>1. t.id = id
    BY <1>2 DEF Type
  <2>2. t.size = CASE id \in {"Bool", "I8"} -> 1 [] id = "I16" -> 2 [] id \in {"I32", "Pointer32"} -> 4 [] id \in {"I64", "Pointer"} -> 8
    BY <1>2 DEF Type
  <2>3. t.size \in {1, 2, 4, 8} /\ (IsPointer(t) => t.size \in {4, 8})
    BY <2>1, <2>2 DEF IsPointer
  <2>4. Pow[t.size] \in Nat \ {0}
    BY <2>3, PowPositive
  <2>5. Card(t) = IF id = "Bool" THEN 2 ELSE Pow[t.size]
    BY <2>1 DEF Card
  <2>6. QED
    BY <1>2, <2>1, <2>3, <2>4, <2>5 DEF Sized, IsInteger, IsPointer
<1>3. QED
  BY <1>1, <1>2 DEF ValueType, Scalars

PointerType == Type("Pointer")

LEMMA PointerCard == PointerType.id = "Pointer" /\ PointerType.size = 8 /\ Card(PointerType) = Pow[8] /\ Card(Type("Pointer32")) = Pow[4] /\ Type("Pointer32").size = 4
<1>1. PointerType.id = "Pointer" /\ PointerType.size = 8 /\ Type("Pointer32").id = "Pointer32" /\ Type("Pointer32").size = 4
  BY DEF PointerType, Type
<1>2. QED
  BY <1>1 DEF Card

LEMMA BoolFits == \A b : Fits(Truth(b), Type("Bool"))
<1>1. Type("Bool").id = "Bool"
  BY DEF Type
<1>2. QED
  BY <1>1 DEF Fits, Truth, Value, Card

LEMMA ValueFits ==
  ASSUME NEW t, NEW v \in 0 .. Card(t) - 1
  PROVE  Fits(Value(t, v), t)
  BY DEF Fits, Value

LEMMA DefaultFits ==
  ASSUME NEW t, ValueType(t)
  PROVE  Fits(Default(t), t)
<1>1. 0 \in 0 .. Card(t) - 1
  BY TypeSized DEF Sized
<1>2. QED
  BY <1>1, ValueFits DEF Default

\* A pointer is made of a base and any offset.
LEMMA PointerRange ==
  ASSUME NEW b \in Nat, NEW o \in Int
  PROVE  PointerTo(b % OffsetRange, o) \in 0 .. Pow[8] - 1
<1>1. 8 \div 2 = 4 /\ Pow[4] \in Nat \ {0}
  BY PowPositive
<1>2. OffsetRange = Pow[4]
  BY <1>1 DEF OffsetRange, Half
<1>3. b % Pow[4] \in 0 .. Pow[4] - 1 /\ o % Pow[4] \in 0 .. Pow[4] - 1
  <2>1. PICK m \in Nat \ {0} : m = Pow[4]
    BY <1>1
  <2>2. b % m \in 0 .. m - 1 /\ o % m \in 0 .. m - 1
    BY Remainders
  <2>3. QED
    BY <2>1, <2>2
<1>4. PointerTo(b % OffsetRange, o) = (b % Pow[4]) + Pow[4] * (o % Pow[4])
  BY <1>1, <1>2 DEF PointerTo, Pointer, Half
<1>5. QED
  BY <1>1, <1>3, <1>4, Halves, PowHalves

\* An address is a number.
LEMMA AddressNumber ==
  ASSUME NEW x, x.v \in Nat
  PROVE  Address(x) \in Nat /\ BaseOf(Address(x)) \in Nat /\ OffsetOf(Address(x)) \in Nat
<1>1. 8 \div 2 = 4 /\ 4 \div 2 = 2 /\ Pow[4] \in Nat \ {0} /\ Pow[2] \in Nat \ {0}
  BY PowPositive
<1>2. x.v % Pow[2] \in Nat /\ x.v \div Pow[2] \in Nat
  BY <1>1, Parts
<1>3. (x.v \div Pow[2]) % Pow[4] \in Nat
  BY <1>1, <1>2, Parts
<1>4. PointerTo(x.v % Half(4), x.v \div Half(4)) \in Nat
  <2>1. PointerTo(x.v % Half(4), x.v \div Half(4)) = (x.v % Pow[2]) + Pow[4] * ((x.v \div Pow[2]) % Pow[4])
    BY <1>1 DEF PointerTo, Pointer, Half
  <2>2. Pow[4] * ((x.v \div Pow[2]) % Pow[4]) \in Nat
    BY <1>1, <1>3
  <2>3. QED
    BY <1>2, <2>1, <2>2
<1>5. Address(x) \in Nat
  BY <1>4 DEF Address
<1>6. OffsetRange = Pow[4]
  BY <1>1 DEF OffsetRange, Half
<1>7. QED
  BY <1>1, <1>5, <1>6, Parts DEF BaseOf, OffsetOf

LEMMA DigitBytes ==
  ASSUME NEW v \in Nat, NEW n \in Nat
  PROVE  Digits(v, n) \in [1 .. n -> Bytes]
<1>1. ASSUME NEW k \in 1 .. n PROVE (v \div Pow[k - 1]) % Radix \in Bytes
  <2>1. k - 1 \in Nat
    OBVIOUS
  <2>2. PICK w \in Nat : w = v \div Pow[k - 1]
    BY <2>1, PowPositive, Parts
  <2>3. w % Radix \in 0 .. Radix - 1
    BY Remainders
  <2>4. QED
    BY <2>2, <2>3 DEF Bytes
<1>2. QED
  BY <1>1 DEF Digits

LEMMA SignedNumber ==
  ASSUME NEW n \in Nat, NEW v \in Nat
  PROVE  SignedOf(v, n) \in Int
  BY PowPositive DEF SignedOf

-----------------------------------------------------------------------------
(* Instructions                                                            *)

\* What an instruction of an accepted program does to a run, other than to its
\* heap or stack: nothing, an end the properties allow, or to save a value that
\* fits its result.
Excused(p, i, c, d) ==
  \/ d = Ended(c, "fault", i.op) \/ d = Ended(c, "violated", "") \/ d = Ended(c, "bound", i.op)
  \/ d = Ended(c, "raised", i.op) /\ NoRule(p, i)
  \/ d = Ended(c, "undefined", i.op) /\ Undefined(p, i)
Saves(i, c, d) == IsRegister(i.res) /\ \E x : Fits(x, To(i)) /\ d = Save(c, i.res, x)
Sound(p, i, c, d) == d = c \/ Excused(p, i, c, d) \/ Saves(i, c, d)

LEMMA RaiseSound ==
  ASSUME NEW p, NEW i, NEW c, NoRule(p, i), NEW d \in Raise(c, i)
  PROVE  Sound(p, i, c, d)
  BY DEF Sound, Excused, Raise

LEMMA FaultSound ==
  ASSUME NEW p, NEW i, NEW c, NEW d \in Fault(c, i)
  PROVE  Sound(p, i, c, d)
  BY DEF Sound, Excused, Fault

LEMMA SaveSound ==
  ASSUME NEW p, NEW i, NEW c, IsRegister(i.res), NEW v \in 0 .. Card(To(i)) - 1
  PROVE  Sound(p, i, c, Save(c, i.res, Value(To(i), v)))
  BY ValueFits DEF Sound, Saves

\* A word of two parts, divided by what is greater than its upper part, gives
\* a quotient that fits the lower one.
LEMMA QuotientFits ==
  ASSUME NEW m \in Nat \ {0}, NEW h \in Nat, NEW a \in 0 .. m - 1, NEW b \in Nat, h < b
  PROVE  (h * m + a) \div b \in 0 .. m - 1
<1>1. PICK v \in Nat : v = h * m + a
  OBVIOUS
<1>2. PICK q \in Nat : q = v \div b
  BY Parts
<1>3. b * q <= v
  BY <1>2
<1>4. v < b * m
  <2>1. PICK d \in Nat : b = h + 1 + d
    <3>1. b - h - 1 \in Nat /\ b = h + 1 + (b - h - 1)
      OBVIOUS
    <3>2. QED
      BY <3>1
  <2>2. b * m = h * m + m + d * m /\ d * m \in Nat
    BY <2>1
  <2>3. QED
    BY <1>1, <2>2
<1>5. q < m
  <2>1. SUFFICES ASSUME q >= m PROVE FALSE
    OBVIOUS
  <2>2. PICK d \in Nat : q = m + d
    <3>1. q - m \in Nat /\ q = m + (q - m)
      BY <2>1
    <3>2. QED
      BY <3>1
  <2>3. b * q = b * m + b * d /\ b * d \in Nat
    BY <2>2
  <2>4. QED
    BY <1>3, <1>4, <2>3
<1>6. QED
  BY <1>1, <1>2, <1>5

LEMMA TowardsZeroNumber ==
  ASSUME NEW x \in Int, NEW y \in Int, y # 0
  PROVE  TowardsZero(x, y) \in Int
<1> DEFINE mag(z) == IF z < 0 THEN -z ELSE z
<1>1. PICK u \in Nat : u = mag(x)
  OBVIOUS
<1>2. PICK w \in Nat \ {0} : w = mag(y)
  OBVIOUS
<1>3. u \div w \in Nat
  BY Parts
<1>4. QED
  BY <1>1, <1>2, <1>3 DEF TowardsZero

LEMMA CalculatedRange ==
  ASSUME NEW op, NEW n \in Nat, NEW a \in 0 .. Pow[n] - 1, NEW b \in 0 .. Pow[n] - 1
  PROVE  Calculated(op, a, b, n) \subseteq 0 .. Pow[n] - 1
<1>1. PICK m \in Nat \ {0} : m = Pow[n]
  BY PowPositive
<1>2. a \in 0 .. m - 1 /\ b \in 0 .. m - 1
  BY <1>1
<1>3. CASE op \in {"Add", "Sub", "Mul"}
  <2>1. PICK u, v, w \in Int : u = a + b /\ v = a - b /\ w = a * b
    BY <1>2
  <2>2. u % m \in 0 .. m - 1 /\ v % m \in 0 .. m - 1 /\ w % m \in 0 .. m - 1
    BY Remainders
  <2>3. QED
    BY <1>1, <1>3, <2>1, <2>2 DEF Calculated
<1>4. CASE op = "UDiv"
  <2>1. ASSUME NEW h \in Above(n), h < b PROVE (h * m + a) \div b \in 0 .. m - 1
    <3>1. h \in Nat /\ b \in Nat
      BY <1>2 DEF Above
    <3>2. QED
      BY <1>2, <2>1, <3>1, QuotientFits
  <2>2. QED
    BY <1>1, <1>4, <2>1 DEF Calculated
<1>5. CASE op = "SDiv"
  <2>1. SUFFICES ASSUME ~MayTrap(op, a, b, n)
                 PROVE  TowardsZero(SignedOf(a, n), SignedOf(b, n)) % m \in 0 .. m - 1
    BY <1>1, <1>5 DEF Calculated
  <2>2. b # 0
    BY <1>5, <2>1 DEF MayTrap
  <2>3. SignedOf(a, n) \in Int /\ SignedOf(b, n) \in Int /\ SignedOf(b, n) # 0
    BY <1>1, <1>2, <2>2 DEF SignedOf
  <2>4. PICK v \in Int : v = TowardsZero(SignedOf(a, n), SignedOf(b, n))
    BY <2>3, TowardsZeroNumber
  <2>5. QED
    BY <2>4, Remainders
<1>6. CASE op \notin {"Add", "Sub", "Mul", "UDiv", "SDiv"}
  BY <1>6 DEF Calculated
<1>7. QED
  BY <1>3, <1>4, <1>5, <1>6

LEMMA ComputeSound ==
  ASSUME NEW p, NEW i, NEW c, NEW x, NEW y, i.op \in TAC, IsRegister(i.res), ValueType(ArgType(i, 1)),
         AcceptsCompute(i), Fits(x, ArgType(i, 1)), Fits(y, ArgType(i, 2)), NEW d \in Compute(c, i, x, y)
  PROVE  Sound(p, i, c, d)
<1>1. i.op \notin CMP
  BY DEF TAC, CMP
<1>2. To(i) = x.ty /\ y.ty = x.ty /\ x.ty = ArgType(i, 1)
  BY <1>1 DEF AcceptsCompute, Fits
<1>3. CASE ~IsInteger(x.ty)
  <2>1. NoRule(p, i)
    BY <1>2, <1>3 DEF NoRule, To
  <2>2. d \in Raise(c, i)
    BY <1>3 DEF Compute
  <2>3. QED
    BY <2>1, <2>2, RaiseSound
<1>4. CASE d \in Fault(c, i)
  BY <1>4, FaultSound
<1>5. CASE IsInteger(x.ty) /\ d \notin Fault(c, i)
  <2>1. x.ty.size \in Nat /\ Card(x.ty) = Pow[x.ty.size]
    BY <1>2, <1>5, TypeSized DEF Sized
  <2>2. x.v \in 0 .. Pow[x.ty.size] - 1 /\ y.v \in 0 .. Pow[x.ty.size] - 1
    BY <1>2, <2>1 DEF Fits
  <2>3. PICK v \in Calculated(i.op, x.v, y.v, x.ty.size) : d = Save(c, i.res, Value(x.ty, v))
    BY <1>2, <1>5 DEF Compute
  <2>4. v \in 0 .. Card(To(i)) - 1
    BY <1>2, <2>1, <2>2, <2>3, CalculatedRange
  <2>5. QED
    BY <1>2, <2>3, <2>4, SaveSound
<1>6. QED
  BY <1>3, <1>4, <1>5

LEMMA CompareSound ==
  ASSUME NEW p, NEW i, NEW c, NEW x, NEW y, i.op \in CMP, IsRegister(i.res), ValueType(ArgType(i, 1)), ValueType(To(i)),
         AcceptsCompute(i), Fits(x, ArgType(i, 1)), Fits(y, ArgType(i, 2)), NEW d \in Compare(c, i, x, y)
  PROVE  Sound(p, i, c, d)
<1>1. To(i) = Type("Bool") /\ y.ty = x.ty /\ x.ty = ArgType(i, 1)
  BY TypeSized DEF AcceptsCompute, Fits, Sized
<1>2. CASE ~(IsInteger(x.ty) \/ IsPointer(x.ty))
  <2>1. x.ty.id \in {"Bool", "Aggregate"}
    <3>1. x.ty = AggregateType(x.ty.size) => x.ty.id = "Aggregate"
      BY DEF AggregateType
    <3>2. \A id : x.ty = Type(id) => x.ty.id = id
      BY DEF Type
    <3>3. QED
      BY <1>1, <1>2, <3>1, <3>2 DEF ValueType, Scalars, IsInteger, IsPointer
  <2>2. NoRule(p, i)
    BY <1>1, <2>1 DEF NoRule, ArgType
  <2>3. d \in Raise(c, i)
    BY <1>2 DEF Compare
  <2>4. QED
    BY <2>2, <2>3, RaiseSound
<1>3. CASE IsInteger(x.ty) \/ IsPointer(x.ty)
  <2>1. PICK b : d = Save(c, i.res, Truth(b))
    BY <1>1, <1>3 DEF Compare
  <2>2. QED
    BY <1>1, <2>1, BoolFits DEF Sound, Saves
<1>4. QED
  BY <1>2, <1>3

LEMMA CastSound ==
  ASSUME NEW p, NEW i, NEW c, NEW x, i.op \in IntCasts, IsRegister(i.res), ValueType(ArgType(i, 1)), ValueType(To(i)),
         AcceptsCast(i), Fits(x, ArgType(i, 1)), NEW d \in Cast(c, i, x)
  PROVE  Sound(p, i, c, d)
<1>1. IsInteger(To(i)) /\ IsInteger(x.ty) /\ x.ty = ArgType(i, 1)
      /\ IF i.op = "Trunc" THEN x.ty.size > To(i).size ELSE x.ty.size < To(i).size
  BY DEF IntCasts, AcceptsCast, Fits
<1>2. /\ x.ty.size \in Nat /\ Card(x.ty) = Pow[x.ty.size] /\ Card(x.ty) \in Nat
      /\ To(i).size \in Nat /\ Card(To(i)) = Pow[To(i).size]
  BY <1>1, TypeSized DEF Sized
<1>3. x.v \in Nat
  BY <1>1, <1>2 DEF Fits
<1>4. PICK w \in Int : w = IF i.op = "SExt" THEN SignedOf(x.v, x.ty.size) ELSE x.v
  BY <1>2, <1>3, SignedNumber
<1>5. PICK m \in Nat \ {0} : m = Pow[To(i).size]
  BY <1>2, PowPositive
<1>6. ~IF i.op = "Trunc" THEN To(i).size > x.ty.size ELSE To(i).size < x.ty.size
  BY <1>1, <1>2
<1>7. d = Save(c, i.res, Value(To(i), w % m))
  BY <1>1, <1>4, <1>5, <1>6 DEF Cast, To
<1>8. w % m \in 0 .. Card(To(i)) - 1
  BY <1>2, <1>5, Remainders
<1>9. QED
  BY <1>7, <1>8, SaveSound

LEMMA CastBoolSound ==
  ASSUME NEW p, NEW i, NEW c, NEW x, i.op \in BoolCasts, IsRegister(i.res), ValueType(To(i)),
         AcceptsCast(i), Fits(x, ArgType(i, 1)), NEW d \in CastBool(c, i, x)
  PROVE  Sound(p, i, c, d)
<1>1. IsInteger(To(i)) /\ x.ty.id = "Bool"
  BY DEF BoolCasts, AcceptsCast, Fits
<1>2. To(i).size \in Nat \ {0} /\ Card(To(i)) = Pow[To(i).size]
  BY <1>1, TypeSized DEF Sized
<1>3. PICK m \in Nat : m = Pow[To(i).size] /\ m >= 2
  BY <1>2, PowGrows, PowPositive
<1> DEFINE v == IF x.v = 0 THEN 0 ELSE IF i.op = "BoolSExt" THEN m - 1 ELSE 1
<1>4. d = Save(c, i.res, Value(To(i), v))
  BY <1>1, <1>3 DEF CastBool, To
<1>5. v \in 0 .. Card(To(i)) - 1
  BY <1>2, <1>3
<1>6. QED
  BY <1>4, <1>5, SaveSound

LEMMA ToBoolSound ==
  ASSUME NEW p, NEW i, NEW c, NEW x, i.op = "IntToBool", IsRegister(i.res), ValueType(To(i)),
         AcceptsCast(i), Fits(x, ArgType(i, 1)), NEW d \in ToBool(c, i, x)
  PROVE  Sound(p, i, c, d)
<1>1. IsInteger(ArgType(i, 1)) /\ To(i).id = "Bool" /\ x.ty = ArgType(i, 1)
  BY DEF AcceptsCast, Fits, IntCasts
<1>2. To(i) = Type("Bool")
  BY <1>1, TypeSized DEF Sized
<1>3. PICK b : d = Save(c, i.res, Truth(b))
  BY <1>1 DEF ToBool, ArgType
<1>4. QED
  BY <1>2, <1>3, BoolFits DEF Sound, Saves

LEMMA ToPtrSound ==
  ASSUME NEW p, NEW i, NEW c, NEW x, i.op = "IntToPtr", IsRegister(i.res), ValueType(To(i)), ValueType(ArgType(i, 1)),
         AcceptsPtrCast(i), Fits(x, ArgType(i, 1)), NEW d \in ToPtr(c, i, x)
  PROVE  Sound(p, i, c, d)
<1>1. IsInteger(x.ty) /\ To(i).id = "Pointer" /\ x.ty = ArgType(i, 1) /\ IsPointer(To(i))
  BY DEF AcceptsPtrCast, Fits, IsPointer
<1>2. To(i) = Type("Pointer") /\ To(i).size \in Nat /\ Card(To(i)) = Pow[To(i).size] /\ Card(x.ty) \in Nat
  BY <1>1, TypeSized DEF Sized
<1>3. PICK m \in Nat \ {0} : m = Pow[To(i).size]
  BY <1>2, PowPositive
<1>4. PICK w \in Int : w = x.v
  BY <1>1, <1>2 DEF Fits
<1>5. d = Save(c, i.res, Value(To(i), w % m))
  BY <1>1, <1>2, <1>3, <1>4 DEF ToPtr, To
<1>6. w % m \in 0 .. Card(To(i)) - 1
  BY <1>2, <1>3, <1>4, Remainders
<1>7. QED
  BY <1>5, <1>6, SaveSound

LEMMA PtrStepSound ==
  ASSUME NEW p, NEW i, NEW c, NEW x, NEW size, NEW n, i.op \in PtrSteps, IsRegister(i.res),
         ValueType(To(i)), ValueType(ArgType(i, 1)), ValueType(ArgType(i, 2)), ~Mistyped(i),
         AcceptsStep(i), Fits(x, ArgType(i, 1)), Fits(size, ArgType(i, 2)), Fits(n, ArgType(i, 3)),
         NEW d \in PtrStep(c, i, x, size, n)
  PROVE  \E e : Saves(i, c, e) /\ (d = e \/ \E skip, q : d = Noted(e, i.res, skip, q))
<1>1. /\ IsPointer(To(i)) /\ To(i).id # "Pointer32" /\ IsPointer(x.ty) /\ x.ty = ArgType(i, 1)
      /\ IsInteger(size.ty) /\ size.ty = n.ty /\ size.ty = ArgType(i, 2)
  <2>1. IsPointer(To(i)) /\ To(i).id = ArgType(i, 1).id /\ IsInteger(ArgType(i, 2)) /\ ArgType(i, 2) = ArgType(i, 3)
    BY DEF AcceptsStep, SkipOk
  <2>2. To(i).id # "Pointer32"
    BY DEF Mistyped, To, IsPointer, Type
  <2>3. QED
    BY <2>1, <2>2 DEF Fits, IsPointer
<1>2. To(i) = Type("Pointer")
  BY <1>1, TypeSized DEF Sized, IsPointer
<1>3. x.v \in Nat /\ size.v \in Nat /\ n.v \in Nat /\ n.ty.size \in Nat
  BY <1>1, TypeSized DEF Fits, Sized
<1>4. PICK skip \in Int : skip = (size.v * n.v) % Pow[n.ty.size]
  <2>1. PICK m \in Nat \ {0} : m = Pow[n.ty.size]
    BY <1>3, PowPositive
  <2>2. PICK w \in Int : w = size.v * n.v
    BY <1>3
  <2>3. w % m \in 0 .. m - 1
    BY Remainders
  <2>4. QED
    BY <2>1, <2>2, <2>3
<1>5. PICK from \in Nat : from = Address(x) /\ OffsetOf(from) \in Nat
  BY <1>3, AddressNumber
<1>6. PICK o \in Int : o = OffsetOf(from) + (IF i.op = "PtrAdd" THEN skip ELSE -skip)
  BY <1>5
<1> DEFINE q == PointerTo(BaseOf(from), o)
           e == Save(c, i.res, Value(Type("Pointer"), q))
<1>7. q \in 0 .. Card(To(i)) - 1
  <2>1. q \in 0 .. Pow[8] - 1
    BY PointerRange DEF BaseOf
  <2>2. QED
    BY <1>2, <2>1, PointerCard DEF PointerType
<1>8. Saves(i, c, e)
  <2> HIDE DEF q
  <2>1. Fits(Value(To(i), q), To(i))
    BY <1>7, ValueFits
  <2>2. QED
    BY <1>2, <2>1 DEF Saves
<1>9. d = IF i.op = "PtrSub" THEN Noted(e, i.res, skip, q) ELSE e
  BY <1>1, <1>4, <1>5, <1>6 DEF PtrStep
<1> HIDE DEF q, e
<1>10. QED
  BY <1>8, <1>9

\* The blocks of a heap are bytes.
Heaps == Seq(Seq(Bytes))

LEMMA LoadSound ==
  ASSUME NEW p, NEW i, NEW c, NEW x, i.op = "Load", IsRegister(i.res), ValueType(To(i)), ValueType(ArgType(i, 1)),
         AcceptsMemory(i), Fits(x, ArgType(i, 1)), c.heap \in Heaps, NEW d \in Load(c, i, x)
  PROVE  Sound(p, i, c, d)
<1>1. IsPointer(x.ty) /\ (IsInteger(To(i)) \/ IsPointer(To(i))) /\ x.ty = ArgType(i, 1)
  BY DEF AcceptsMemory, Fits
<1>2. To(i).size \in Nat \ {0} /\ Card(To(i)) = Pow[To(i).size] /\ To(i).id # "Aggregate"
  BY <1>1, TypeSized DEF Sized
<1>3. x.v \in Nat
  BY <1>1, TypeSized DEF Fits, Sized
<1>4. PICK q \in Nat : q = Address(x) /\ OffsetOf(q) \in Nat
  BY <1>3, AddressNumber
<1>5. PICK n \in Nat \ {0} : n = To(i).size
  BY <1>2
<1> DEFINE bytes == [k \in 1 .. n |-> c.heap[BaseOf(q)][OffsetOf(q) + k]]
<1>6. \/ d \in Fault(c, i)
      \/ BaseOf(q) \in DOMAIN c.heap /\ Inside(c, q, n) /\ d = Save(c, i.res, Value(To(i), Number(bytes)))
      \/ \E v \in 0 .. Card(To(i)) - 1 : d = Save(c, i.res, Value(To(i), v))
  BY <1>1, <1>2, <1>4, <1>5 DEF Load, To
<1>7. CASE BaseOf(q) \in DOMAIN c.heap /\ Inside(c, q, n) /\ d = Save(c, i.res, Value(To(i), Number(bytes)))
  <2>1. PICK block \in Seq(Bytes) : block = c.heap[BaseOf(q)]
    BY <1>7, LenProperties DEF Heaps
  <2>2. PICK o \in Nat : o = OffsetOf(q) /\ o + n <= Len(block)
    BY <1>4, <1>7, <2>1 DEF Inside
  <2>3. ASSUME NEW k \in 1 .. n PROVE c.heap[BaseOf(q)][OffsetOf(q) + k] \in Bytes
    <3>1. o + k \in 1 .. Len(block)
      BY <2>2, LenProperties
    <3>2. QED
      BY <2>1, <2>2, <3>1, ElementOfSeq
  <2>4. bytes \in [1 .. n -> Bytes]
    BY <2>3
  <2> HIDE DEF bytes
  <2>5. Number(bytes) \in 0 .. Pow[n] - 1
    BY <2>4, NumberRange
  <2>6. QED
    BY <1>2, <1>5, <1>7, <2>5, SaveSound
<1> HIDE DEF bytes
<1>8. QED
  BY <1>6, <1>7, FaultSound, SaveSound

LEMMA OverwrittenBytes ==
  ASSUME NEW n \in Nat, NEW block \in [1 .. n -> Bytes], NEW at \in Nat, NEW m \in Nat, NEW bytes \in [1 .. m -> Bytes]
  PROVE  Overwritten(block, at, bytes) \in [1 .. n -> Bytes]
<1>1. Len(bytes) = m
  BY ListOf
<1>2. ASSUME NEW k \in 1 .. n, k \in at + 1 .. at + m PROVE bytes[k - at] \in Bytes
  <2>1. k - at \in 1 .. m
    BY <1>2
  <2>2. QED
    BY <2>1
<1>3. QED
  BY <1>1, <1>2 DEF Overwritten

\* A store changes a block of the heap, or nothing.
Stores(c, d) == \E h \in Heaps : d = [c EXCEPT !.heap = h]

LEMMA StoreSound ==
  ASSUME NEW p, NEW i, NEW c, NEW x, NEW y, i.op = "Store", ValueType(ArgType(i, 1)), ValueType(ArgType(i, 2)),
         AcceptsMemory(i), Fits(x, ArgType(i, 1)), Fits(y, ArgType(i, 2)), c.heap \in Heaps, NEW d \in Store(c, i, x, y)
  PROVE  Sound(p, i, c, d) \/ Stores(c, d)
<1>1. IsPointer(x.ty) /\ x.ty = ArgType(i, 1) /\ y.ty = ArgType(i, 2)
  BY DEF AcceptsMemory, Fits
<1>2. x.v \in Nat /\ y.v \in Nat /\ y.ty.size \in Nat
  BY <1>1, TypeSized DEF Fits, Sized
<1>3. PICK q \in Nat : q = Address(x) /\ OffsetOf(q) \in Nat
  BY <1>2, AddressNumber
<1>4. CASE y.ty.id = "Bool"
  <2>1. NoRule(p, i)
    BY <1>1, <1>4 DEF NoRule, ArgType
  <2>2. d \in Raise(c, i)
    BY <1>4 DEF Store
  <2>3. QED
    BY <2>1, <2>2, RaiseSound
<1> DEFINE bytes == Digits(y.v, y.ty.size)
           block == Overwritten(c.heap[BaseOf(q)], OffsetOf(q), bytes)
<1>5. CASE y.ty.id # "Bool" /\ BaseOf(q) \in DOMAIN c.heap /\ Inside(c, q, y.ty.size)
  <2>1. d = [c EXCEPT !.heap[BaseOf(q)] = block]
    BY <1>1, <1>3, <1>5 DEF Store
  <2>2. PICK n \in Nat : c.heap[BaseOf(q)] \in [1 .. n -> Bytes]
    <3>1. c.heap[BaseOf(q)] \in Seq(Bytes)
      BY <1>5, LenProperties DEF Heaps
    <3>2. QED
      BY <3>1, LenProperties
  <2>3. bytes \in [1 .. y.ty.size -> Bytes]
    BY <1>2, DigitBytes
  <2> HIDE DEF bytes
  <2>4. block \in Seq(Bytes)
    <3>1. block \in [1 .. n -> Bytes]
      BY <1>2, <1>3, <2>2, <2>3, OverwrittenBytes
    <3> HIDE DEF block
    <3>2. QED
      BY <3>1, ListOf
  <2> HIDE DEF block
  <2>5. [c.heap EXCEPT ![BaseOf(q)] = block] \in Heaps
    <3>1. BaseOf(q) \in 1 .. Len(c.heap)
      BY <1>5, LenProperties DEF Heaps
    <3>2. QED
      BY <2>4, <3>1, ExceptSeq DEF Heaps
  <2>6. d = [c EXCEPT !.heap = [c.heap EXCEPT ![BaseOf(q)] = block]]
    BY <2>1
  <2>7. QED
    BY <2>5, <2>6 DEF Stores
<1>6. CASE y.ty.id # "Bool" /\ ~(BaseOf(q) \in DOMAIN c.heap /\ Inside(c, q, y.ty.size))
  <2>1. d = c \/ d \in Fault(c, i)
    BY <1>1, <1>3, <1>6 DEF Store
  <2>2. QED
    BY <2>1, FaultSound DEF Sound
<1>7. QED
  BY <1>4, <1>5, <1>6

\* The offset of a part is a number.
LEMMA PlaceNumber ==
  ASSUME NEW f, NEW o, OperandOf(f, o), ~NoPlace(o)
  PROVE  o.v \in Nat
<1>1. o.k = "const"
  BY DEF NoPlace
<1>2. ValueType(o.ty) /\ o.v \in 0 .. Card(o.ty) - 1
  BY <1>1 DEF OperandOf
<1>3. QED
  BY <1>2, TypeSized DEF Sized

LEMMA InsertSound ==
  ASSUME NEW p, NEW f, NEW i, NEW c, NEW x, NEW y, i.op = "InsertValue", IsRegister(i.res), OperandOf(f, i.args[2]),
         ValueType(ArgType(i, 1)), ValueType(ArgType(i, 3)), ~Mistyped(i), AcceptsPart(i),
         Fits(x, ArgType(i, 1)), Fits(y, ArgType(i, 3)), NEW d \in Insert(c, i, x, i.args[2], ArgType(i, 3), y)
  PROVE  Sound(p, i, c, d)
<1>1. To(i) = ArgType(i, 1) /\ x.ty = ArgType(i, 1) /\ x.ty.id = "Aggregate" /\ y.ty = ArgType(i, 3)
  BY DEF Mistyped, AcceptsPart, Fits, To, ArgType
<1>2. x.v \in Nat /\ y.v \in Nat /\ x.ty.size \in Nat /\ y.ty.size \in Nat /\ Card(To(i)) = Pow[To(i).size]
  BY <1>1, TypeSized DEF Fits, Sized
<1> DEFINE at == i.args[2]
<1>3. CASE NoPlace(at) \/ NoPart(ArgType(i, 3))
  <2>1. NoRule(p, i)
    BY <1>3 DEF NoRule, ArgType
  <2>2. d \in Raise(c, i)
    BY <1>3 DEF Insert
  <2>3. QED
    BY <2>1, <2>2, RaiseSound
<1>4. CASE ~NoPlace(at) /\ ~NoPart(ArgType(i, 3)) /\ at.v + y.ty.size > x.ty.size
  <2>1. Undefined(p, i)
    BY <1>1, <1>4 DEF Undefined, ArgType
  <2>2. d = Ended(c, "undefined", i.op)
    BY <1>1, <1>4 DEF Insert
  <2>3. QED
    BY <2>1, <2>2 DEF Sound, Excused
<1>5. CASE ~NoPlace(at) /\ ~NoPart(ArgType(i, 3)) /\ ~(at.v + y.ty.size > x.ty.size)
  <2> DEFINE bytes == Overwritten(Digits(x.v, x.ty.size), at.v, Digits(y.v, y.ty.size))
  <2>1. d = Save(c, i.res, Value(x.ty, Number(bytes)))
    BY <1>1, <1>5 DEF Insert
  <2>2. bytes \in [1 .. x.ty.size -> Bytes]
    <3>1. Digits(x.v, x.ty.size) \in [1 .. x.ty.size -> Bytes] /\ Digits(y.v, y.ty.size) \in [1 .. y.ty.size -> Bytes]
      BY <1>2, DigitBytes
    <3>2. at.v \in Nat
      BY <1>5, PlaceNumber
    <3>3. QED
      BY <1>2, <3>1, <3>2, OverwrittenBytes
  <2> HIDE DEF bytes
  <2>3. Number(bytes) \in 0 .. Pow[x.ty.size] - 1
    BY <1>2, <2>2, NumberRange
  <2>4. QED
    BY <1>1, <1>2, <2>1, <2>3, SaveSound
<1>6. QED
  BY <1>3, <1>4, <1>5

LEMMA ExtractSound ==
  ASSUME NEW p, NEW f, NEW i, NEW c, NEW x, i.op = "ExtractValue", IsRegister(i.res), OperandOf(f, i.args[2]),
         ValueType(ArgType(i, 1)), ValueType(To(i)), AcceptsPart(i),
         Fits(x, ArgType(i, 1)), NEW d \in Extract(c, i, x, i.args[2], To(i))
  PROVE  Sound(p, i, c, d)
<1>1. x.ty = ArgType(i, 1) /\ x.ty.id = "Aggregate"
  BY DEF AcceptsPart, Fits, ArgType
<1>2. x.v \in Nat /\ x.ty.size \in Nat /\ To(i).size \in Nat
  BY <1>1, TypeSized DEF Fits, Sized
<1> DEFINE at == i.args[2]
<1>3. CASE NoPlace(at) \/ NoPart(To(i))
  <2>1. NoRule(p, i)
    BY <1>3 DEF NoRule, To
  <2>2. d \in Raise(c, i)
    BY <1>3 DEF Extract
  <2>3. QED
    BY <2>1, <2>2, RaiseSound
<1>4. CASE ~NoPlace(at) /\ ~NoPart(To(i)) /\ at.v + To(i).size > x.ty.size
  <2>1. Undefined(p, i)
    BY <1>1, <1>4 DEF Undefined, ArgType, To
  <2>2. d = Ended(c, "undefined", i.op)
    BY <1>1, <1>4 DEF Extract
  <2>3. QED
    BY <2>1, <2>2 DEF Sound, Excused
<1>5. CASE ~NoPlace(at) /\ ~NoPart(To(i)) /\ ~(at.v + To(i).size > x.ty.size)
  <2>1. PICK n \in Nat : n = To(i).size
    BY <1>2
  <2>2. PICK o \in Nat : o = at.v /\ o + n <= x.ty.size
    <3>1. at.v \in Nat
      BY <1>5, PlaceNumber
    <3>2. QED
      BY <1>2, <1>5, <2>1, <3>1
  <2> DEFINE bytes == [k \in 1 .. n |-> Digits(x.v, x.ty.size)[o + k]]
  <2>3. d = Save(c, i.res, Value(To(i), Number(bytes)))
    BY <1>1, <1>5, <2>1, <2>2 DEF Extract
  <2>4. bytes \in [1 .. n -> Bytes]
    <3>1. PICK ds \in [1 .. x.ty.size -> Bytes] : ds = Digits(x.v, x.ty.size)
      BY <1>2, DigitBytes
    <3>2. PICK m \in Nat : m = x.ty.size /\ o + n <= m
      BY <1>2, <2>2
    <3>3. \A k \in 1 .. n : o + k \in 1 .. m
      BY <3>2
    <3>4. QED
      BY <3>1, <3>2, <3>3
  <2> HIDE DEF bytes
  <2>5. Number(bytes) \in 0 .. Pow[n] - 1
    BY <2>4, NumberRange
  <2>6. Card(To(i)) = Pow[n]
    BY <1>5, <2>1, TypeSized DEF Sized, NoPart
  <2>7. QED
    BY <2>3, <2>5, <2>6, SaveSound
<1>6. QED
  BY <1>3, <1>4, <1>5

LEMMA ConditionSound ==
  ASSUME NEW p, NEW i, NEW c, NEW x, ArgType(i, 1).id = "Bool", Fits(x, ArgType(i, 1)), NEW d \in CheckCondition(c, i, x)
  PROVE  Sound(p, i, c, d)
<1>1. x.ty.id = "Bool"
  BY DEF Fits
<1>2. d = c \/ d = Ended(c, "violated", "")
  BY <1>1 DEF CheckCondition
<1>3. QED
  BY <1>2 DEF Sound, Excused

LEMMA NonDetSound ==
  ASSUME NEW p, NEW i, NEW c, IsRegister(i.res), ValueType(To(i)), NEW v \in NonDetNumbers
  PROVE  Sound(p, i, c, Save(c, i.res, Value(To(i), v % Card(To(i)))))
<1>1. PICK m \in Nat \ {0} : m = Card(To(i))
  BY TypeSized DEF Sized
<1>2. v \in Int
  BY TypedRunOK
<1>3. v % m \in 0 .. m - 1
  BY <1>2, Remainders
<1>4. QED
  BY <1>1, <1>3, SaveSound

-----------------------------------------------------------------------------
(* Operands                                                                *)

LEMMA OperandTyped ==
  ASSUME NEW f, WellFormedFunction(f), NEW o, OperandOf(f, o), o.k # "symbol"
  PROVE  ValueType(o.ty)
<1>1. CASE o.k = "local"
  BY <1>1 DEF OperandOf, WellFormedFunction
<1>2. CASE o.k = "cpu"
  <2>1. o.ty = Type("Pointer")
    BY <1>2 DEF OperandOf
  <2>2. QED
    BY <2>1 DEF ValueType, Scalars
<1>3. CASE o.k \in {"const", "undef"}
  BY <1>3 DEF OperandOf
<1>4. QED
  BY <1>1, <1>2, <1>3 DEF OperandOf

\* The registers of an activation hold values of their types.
Holding(f, regs) ==
  regs = [r \in DOMAIN f.regs |-> regs[r]] /\ \A r \in DOMAIN f.regs : Fits(regs[r], f.regs[r])

LEMMA LookupFits ==
  ASSUME NEW f, WellFormedFunction(f), NEW c, Holding(f, Top(c).regs), NEW o, OperandOf(f, o), o.k # "symbol",
         IsSP(o) => Fits(c.sp, PointerType)
  PROVE  Fits(Lookup(c, o), o.ty)
<1>1. CASE o.k = "local"
  BY <1>1 DEF OperandOf, Holding, Lookup
<1>2. CASE o.k = "cpu"
  BY <1>2 DEF OperandOf, Lookup, IsSP, PointerType
<1>3. CASE o.k = "undef"
  BY <1>3, DefaultFits DEF OperandOf, Lookup
<1>4. CASE o.k = "const"
  BY <1>4, ValueFits DEF OperandOf, Lookup
<1>5. QED
  BY <1>1, <1>2, <1>3, <1>4 DEF OperandOf

\* What a run has to hold for an instruction of a function.
Ready(f, c, i) ==
  /\ WellFormedFunction(f) /\ WellFormedInstr(f, i) /\ ~Mistyped(i)
  /\ Holding(f, Top(c).regs) /\ c.heap \in Heaps
  /\ \A k \in DOMAIN i.args : IsSP(i.args[k]) => Fits(c.sp, PointerType)

Operable(f, c, i) ==
  /\ \A k \in DOMAIN i.args :
       OperandOf(f, i.args[k]) /\ ValueType(ArgType(i, k)) /\ Fits(Lookup(c, i.args[k]), ArgType(i, k))
  /\ IsRegister(i.res) => ValueType(To(i))

LEMMA ReadyOperable ==
  ASSUME NEW f, NEW c, NEW i, Ready(f, c, i), ~Symbolically(i)
  PROVE  Operable(f, c, i)
<1>1. ASSUME NEW k \in DOMAIN i.args
      PROVE  OperandOf(f, i.args[k]) /\ ValueType(ArgType(i, k)) /\ Fits(Lookup(c, i.args[k]), ArgType(i, k))
  <2>1. OperandOf(f, i.args[k]) /\ i.args[k].k # "symbol"
    BY DEF Ready, WellFormedInstr, Symbolically
  <2>2. QED
    BY <2>1, OperandTyped, LookupFits DEF Ready, ArgType
<1>2. IsRegister(i.res) => ValueType(To(i))
  <2>1. IsRegister(i.res) => OperandOf(f, i.res) /\ i.res.k # "symbol"
    BY DEF Ready, WellFormedInstr, IsRegister
  <2>2. QED
    BY <2>1, OperandTyped DEF Ready, To
<1>3. QED
  BY <1>1, <1>2 DEF Operable

\* The arguments an opcode has.
LEMMA Arity ==
  ASSUME NEW f, NEW i, WellFormedInstr(f, i)
  PROVE  /\ i.op \in OneArg => 1 \in DOMAIN i.args
         /\ i.op \in TwoArgs => {1, 2} \subseteq DOMAIN i.args
         /\ i.op \in ThreeArgs => {1, 2, 3} \subseteq DOMAIN i.args
<1>1. i.args \in Seq(ToSet(i.args))
  BY DEF WellFormedInstr, IsList
<1>2. PICK n \in Nat : n = Len(i.args) /\ DOMAIN i.args = 1 .. n
  BY <1>1, LenProperties
<1>3. (i.op \in OneArg => n = 1) /\ (i.op \in TwoArgs => n = 2) /\ (i.op \in ThreeArgs => n = 3)
  BY <1>2 DEF WellFormedInstr
<1>4. 1 \in 1 .. 1 /\ {1, 2} \subseteq 1 .. 2 /\ {1, 2, 3} \subseteq 1 .. 3
  OBVIOUS
<1>5. QED
  BY <1>2, <1>3, <1>4

\* An effect an instruction that is not of the stack may have.
Effect(p, i, c, d) ==
  Sound(p, i, c, d) \/ Stores(c, d) \/ \E e : Saves(i, c, e) /\ \E skip, q : d = Noted(e, i.res, skip, q)

\* One opcode after the other: the family of an instruction keeps the types.
LEMMA RunSound ==
  ASSUME NEW p, NEW f, NEW c, NEW i, Ready(f, c, i), ~Symbolically(i), Accepts(i, f.ret),
         i.op \notin StackOps, NEW d \in Run(p, c, i)
  PROVE  Effect(p, i, c, d)
<1>1. Operable(f, c, i)
  BY ReadyOperable
<1>2. /\ i.op \in OneArg => 1 \in DOMAIN i.args
      /\ i.op \in TwoArgs => {1, 2} \subseteq DOMAIN i.args
      /\ i.op \in ThreeArgs => {1, 2, 3} \subseteq DOMAIN i.args
  BY Arity DEF Ready
<1>3. i.op \in Opcodes /\ (i.op \in Results => IsRegister(i.res)) /\ ~Mistyped(i) /\ c.heap \in Heaps
  BY DEF Ready, WellFormedInstr
<1> DEFINE x(k) == Lookup(c, i.args[k])
<1> USE DEF OneArg, TwoArgs, ThreeArgs, Results, TAC, CMP, IntCasts, BoolCasts, PtrSteps, Checks, StackOps
<1>4. CASE i.op \in TAC
  <2>1. d \in Compute(c, i, x(1), x(2)) /\ AcceptsCompute(i)
    BY <1>4 DEF Run, Accepts
  <2>2. QED
    BY <1>1, <1>2, <1>3, <1>4, <2>1, ComputeSound DEF Operable, Effect
<1>5. CASE i.op \in CMP
  <2>1. d \in Compare(c, i, x(1), x(2)) /\ AcceptsCompute(i)
    BY <1>5 DEF Run, Accepts
  <2>2. QED
    BY <1>1, <1>2, <1>3, <1>5, <2>1, CompareSound DEF Operable, Effect
<1>6. CASE i.op \in IntCasts
  <2>1. d \in Cast(c, i, x(1)) /\ AcceptsCast(i)
    BY <1>6 DEF Run, Accepts
  <2>2. QED
    BY <1>1, <1>2, <1>3, <1>6, <2>1, CastSound DEF Operable, Effect
<1>7. CASE i.op \in BoolCasts
  <2>1. d \in CastBool(c, i, x(1)) /\ AcceptsCast(i)
    BY <1>7 DEF Run, Accepts
  <2>2. QED
    BY <1>1, <1>2, <1>3, <1>7, <2>1, CastBoolSound DEF Operable, Effect
<1>8. CASE i.op = "IntToBool"
  <2>1. d \in ToBool(c, i, x(1)) /\ AcceptsCast(i)
    BY <1>8 DEF Run, Accepts
  <2>2. QED
    BY <1>1, <1>2, <1>3, <1>8, <2>1, ToBoolSound DEF Operable, Effect
<1>9. CASE i.op = "IntToPtr"
  <2>1. d \in ToPtr(c, i, x(1)) /\ AcceptsPtrCast(i)
    BY <1>9 DEF Run, Accepts
  <2>2. QED
    BY <1>1, <1>2, <1>3, <1>9, <2>1, ToPtrSound DEF Operable, Effect
<1>10. CASE i.op \in {"PtrToInt", "BitCast"}
  <2>1. d \in Raise(c, i) /\ NoRule(p, i)
    BY <1>10 DEF Run, NoRule
  <2>2. QED
    BY <2>1, RaiseSound DEF Effect
<1>11. CASE i.op \in PtrSteps
  <2>1. d \in PtrStep(c, i, x(1), x(2), x(3)) /\ AcceptsStep(i)
    BY <1>11 DEF Run, Accepts
  <2>2. PICK e : Saves(i, c, e) /\ (d = e \/ \E skip, q : d = Noted(e, i.res, skip, q))
    BY <1>1, <1>2, <1>3, <1>11, <2>1, PtrStepSound DEF Operable
  <2>3. QED
    BY <2>2 DEF Effect, Sound
<1>12. i.op # "PtrEq"
  BY <1>3 DEF Mistyped
<1>13. CASE i.op = "Load"
  <2>1. d \in Load(c, i, x(1)) /\ AcceptsMemory(i)
    BY <1>13 DEF Run, Accepts
  <2>2. QED
    BY <1>1, <1>2, <1>3, <1>13, <2>1, LoadSound DEF Operable, Effect
<1>14. CASE i.op = "Store"
  <2>1. d \in Store(c, i, x(1), x(2)) /\ AcceptsMemory(i)
    BY <1>14 DEF Run, Accepts
  <2>2. QED
    BY <1>1, <1>2, <1>3, <1>14, <2>1, StoreSound DEF Operable, Effect
<1>15. CASE i.op = "InsertValue"
  <2>1. d \in Insert(c, i, x(1), i.args[2], ArgType(i, 3), x(3)) /\ AcceptsPart(i)
    BY <1>15 DEF Run, Accepts, ArgType
  <2>2. QED
    BY <1>1, <1>2, <1>3, <1>15, <2>1, InsertSound DEF Operable, Effect
<1>16. CASE i.op = "ExtractValue"
  <2>1. d \in Extract(c, i, x(1), i.args[2], To(i)) /\ AcceptsPart(i)
    BY <1>16 DEF Run, Accepts, To
  <2>2. QED
    BY <1>1, <1>2, <1>3, <1>16, <2>1, ExtractSound DEF Operable, Effect
<1>17. CASE i.op = "Assign"
  <2>1. d = Save(c, i.res, x(1)) /\ To(i) = ArgType(i, 1)
    BY <1>17 DEF Run, Accepts
  <2>2. Fits(x(1), To(i)) /\ IsRegister(i.res)
    BY <1>1, <1>2, <1>3, <1>17, <2>1 DEF Operable
  <2>3. QED
    BY <2>1, <2>2 DEF Effect, Sound, Saves
<1>18. CASE i.op = "NonDet"
  <2>1. PICK v \in NonDetNumbers : d = Save(c, i.res, Value(To(i), v % Card(To(i))))
    BY <1>18 DEF Run, To
  <2>2. QED
    BY <1>1, <1>3, <1>18, <2>1, NonDetSound DEF Operable, Effect
<1>19. CASE i.op \in Checks
  <2>1. d \in CheckCondition(c, i, x(1)) /\ ArgType(i, 1).id = "Bool"
    BY <1>19 DEF Run, Accepts
  <2>2. QED
    BY <1>1, <1>2, <1>19, <2>1, ConditionSound DEF Operable, Effect
<1>20. CASE i.op = "Skip"
  BY <1>20 DEF Run, Effect, Sound
<1>21. QED
  BY <1>3, <1>4, <1>5, <1>6, <1>7, <1>8, <1>9, <1>10, <1>11, <1>12, <1>13, <1>14, <1>15, <1>16, <1>17, <1>18,
     <1>19, <1>20 DEF Opcodes

-----------------------------------------------------------------------------
(* Lists                                                                   *)

LEMMA ListFacts ==
  ASSUME NEW s, IsList(s)
  PROVE  Len(s) \in Nat /\ DOMAIN s = 1 .. Len(s) /\ (s = <<>> <=> Len(s) = 0)
         /\ ToSet(s) = { s[k] : k \in 1 .. Len(s) }
<1>1. s \in Seq(ToSet(s))
  BY DEF IsList
<1>2. Len(s) \in Nat /\ DOMAIN s = 1 .. Len(s)
  BY <1>1, LenProperties
<1>3. s # <<>> => Len(s) \in Nat \ {0}
  BY <1>1, EmptySeq
<1>4. Len(<<>>) = 0
  BY EmptySeq
<1>5. QED
  BY <1>2, <1>3, <1>4 DEF ToSet

LEMMA ListIn ==
  ASSUME NEW S, NEW s \in Seq(S)
  PROVE  IsList(s)
<1>1. PICK n \in Nat : n = Len(s) /\ DOMAIN s = 1 .. n /\ s \in [1 .. n -> S]
  BY LenProperties
<1>2. s \in [1 .. n -> ToSet(s)]
  BY <1>1 DEF ToSet
<1>3. QED
  BY <1>2, ListOf DEF IsList

LEMMA ListTail ==
  ASSUME NEW s, IsList(s), s # <<>>, NEW n \in Nat, Len(s) = n + 1
  PROVE  /\ IsList(Tail(s)) /\ Len(Tail(s)) = n /\ Head(s) = s[1]
         /\ \A k \in 1 .. n : Tail(s)[k] = s[k + 1]
<1>1. s \in Seq(ToSet(s))
  BY DEF IsList
<1>2. Tail(s) \in Seq(ToSet(s)) /\ Len(Tail(s)) = n
  BY <1>1, HeadTailProperties
<1>3. \A k \in 1 .. n : Tail(s)[k] = s[k + 1]
  BY <1>1, <1>2, HeadTailProperties
<1>4. IsList(Tail(s))
  BY <1>2, ListIn
<1>5. Head(s) = s[1]
  BY <1>1
<1>6. QED
  BY <1>2, <1>3, <1>4, <1>5

LEMMA ListPush ==
  ASSUME NEW s, IsList(s), NEW e
  PROVE  /\ IsList(Append(s, e)) /\ Len(Append(s, e)) = Len(s) + 1
         /\ Append(s, e)[Len(s) + 1] = e
         /\ \A k \in 1 .. Len(s) : Append(s, e)[k] = s[k]
<1> DEFINE S == ToSet(s) \cup {e}
<1>1. s \in Seq(S) /\ e \in S
  BY SeqMonotonic DEF IsList
<1>2. Append(s, e) \in Seq(S)
  BY <1>1, AppendProperties
<1> HIDE DEF S
<1>3. IsList(Append(s, e))
  BY <1>2, ListIn
<1>4. /\ Len(Append(s, e)) = Len(s) + 1
      /\ \A k \in 1 .. Len(s) : Append(s, e)[k] = s[k]
      /\ Append(s, e)[Len(s) + 1] = e
  BY <1>1, AppendProperties
<1>5. QED
  BY <1>3, <1>4

LEMMA ListPop ==
  ASSUME NEW s, IsList(s), NEW n \in Nat, Len(s) = n + 1
  PROVE  /\ IsList(Front(s)) /\ Len(Front(s)) = n
         /\ \A k \in 1 .. n : Front(s)[k] = s[k]
<1>1. s \in Seq(ToSet(s))
  BY DEF IsList
<1>2. Front(s) = SubSeq(s, 1, n)
  BY <1>1, LenProperties DEF Front
<1>3. \A k \in 1 .. n : s[k] \in ToSet(s)
  BY <1>1, LenProperties DEF ToSet
<1>4. /\ SubSeq(s, 1, n) \in Seq(ToSet(s))
      /\ Len(SubSeq(s, 1, n)) = n
      /\ \A k \in 1 .. n : SubSeq(s, 1, n)[k] = s[k]
  BY <1>3, SubSeqProperties
<1>5. QED
  BY <1>2, <1>4, ListIn

IsPut(s, k, e, t) ==
  IsList(t) /\ Len(t) = Len(s) /\ \A j \in 1 .. Len(s) : t[j] = IF j = k THEN e ELSE s[j]

LEMMA ListPut ==
  ASSUME NEW s, IsList(s), NEW k \in 1 .. Len(s), NEW e
  PROVE  IsPut(s, k, e, [s EXCEPT ![k] = e])
<1> DEFINE S == ToSet(s) \cup {e}
<1>1. s \in Seq(S) /\ e \in S
  BY SeqMonotonic DEF IsList
<1> HIDE DEF S
<1>2. [s EXCEPT ![k] = e] \in Seq(S)
  BY <1>1, ExceptSeq
<1>3. IsList([s EXCEPT ![k] = e])
  BY <1>2, ListIn
<1>4. /\ Len([s EXCEPT ![k] = e]) = Len(s)
      /\ \A j \in 1 .. Len(s) : [s EXCEPT ![k] = e][j] = IF j = k THEN e ELSE s[j]
  BY <1>1, ExceptSeq
<1>5. QED
  BY <1>3, <1>4 DEF IsPut

-----------------------------------------------------------------------------
(* The invariant of a run                                                  *)

IsFrame(fr) == fr = [fun |-> fr.fun, loc |-> fr.loc, res |-> fr.res, allocas |-> fr.allocas, regs |-> fr.regs]

FrameOK(p, fr) == IsFrame(fr) /\ fr.fun \in DOMAIN p.fun /\ Holding(p.fun[fr.fun], fr.regs)

\* An activation was entered by a call of the one below it.
Awaits(p, caller, fr) ==
  \E i \in InstructionsOf(p.fun[caller.fun]) : i.op = "Call" /\ CalleeOf(p, i) = fr.fun /\ i.res = fr.res

FramesOK(p, frames) ==
  /\ IsList(frames)
  /\ \A k \in 1 .. Len(frames) :
       /\ FrameOK(p, frames[k])
       /\ IF k = 1 THEN frames[k].fun = p.entry ELSE Awaits(p, frames[k - 1], frames[k])

\* What is left of an edge are instructions of the function, or of the heap's
\* initialisation; a change of the stack comes last.
Pending(p, c, i) == i \in InstructionsOf(p.fun[Top(c).fun]) \/ i \in ToSet(p.init)
TodoOK(p, c) ==
  /\ IsList(c.todo) /\ (c.todo # <<>> => c.frames # <<>>)
  /\ \A k \in 1 .. Len(c.todo) : Pending(p, c, c.todo[k]) /\ (c.todo[k].op \in StackOps => k = Len(c.todo))

\* Before the entry point has set the stack pointer.
Starting(p, c) ==
  /\ Len(c.frames) = 1
  /\ \/ c.todo # <<>> /\ SetsSP(Head(c.todo))
     \/ Top(c).loc = p.fun[p.entry].initial /\ \A k \in 1 .. Len(c.todo) : c.todo[k] \in ToSet(p.init)
SPReady(p, c) == UsesSP(p) /\ c.end = Going /\ c.frames # <<>> => Fits(c.sp, PointerType) \/ Starting(p, c)

IsRun(c) == c = [frames |-> c.frames, sp |-> c.sp, heap |-> c.heap, todo |-> c.todo, end |-> c.end]

EndOK(p, c) ==
  /\ c.end.why = "raised" => \E i \in ProgramInstructions(p) : i.op = c.end.op /\ NoRule(p, i)
  /\ c.end.why = "undefined" => \E i \in ProgramInstructions(p) : i.op = c.end.op /\ Undefined(p, i)

RunOK(p, c) ==
  IsRun(c) /\ FramesOK(p, c.frames) /\ c.heap \in Heaps /\ TodoOK(p, c) /\ SPReady(p, c) /\ EndOK(p, c)

Clean(p) == \A i \in ProgramInstructions(p) : ~Mistyped(i)

\* The inductive invariant.
Soundness == program \in Programs /\ Check(program) /\ (Clean(program) => RunOK(program, run))

-----------------------------------------------------------------------------
(* Instructions of a program                                               *)

Sane(p) == WellFormed(p) /\ Check(p) /\ Clean(p)

LEMMA InstructionOf ==
  ASSUME NEW p, Sane(p), NEW g \in DOMAIN p.fun, NEW i \in InstructionsOf(p.fun[g])
  PROVE  /\ WellFormedInstr(p.fun[g], i) /\ AcceptsInstr(p, p.fun[g].ret, i)
         /\ ~Mistyped(i) /\ i \in ProgramInstructions(p)
<1> DEFINE f == p.fun[g]
<1>1. WellFormedFunction(f)
  BY DEF Sane, WellFormed
<1>2. PICK k \in DOMAIN f.edges : i \in ToSet(f.edges[k].ins)
  BY DEF InstructionsOf
<1>3. PICK j \in DOMAIN f.edges[k].ins : i = f.edges[k].ins[j]
  BY <1>2 DEF ToSet
<1>4. WellFormedInstr(f, i)
  BY <1>1, <1>3 DEF WellFormedFunction, WellFormedEdge
<1>5. i \in ProgramInstructions(p)
  BY DEF ProgramInstructions
<1>6. PICK m \in DOMAIN p.order : p.order[m] = g
  BY DEF Sane, WellFormed, ToSet
<1>7. AcceptsInstr(p, f.ret, i)
  BY <1>6 DEF Sane, Check, AcceptsFunction
<1>8. QED
  BY <1>4, <1>5, <1>7 DEF Sane, Clean

\* A store that initialises the heap is fit for every function.
LEMMA InitialInstruction ==
  ASSUME NEW p, Sane(p), NEW g \in DOMAIN p.fun, NEW i \in ToSet(p.init)
  PROVE  /\ WellFormedInstr(p.fun[g], i) /\ AcceptsInstr(p, p.fun[g].ret, i)
         /\ ~Mistyped(i) /\ i \in ProgramInstructions(p)
         /\ Initialises(i)
<1>1. i \in ProgramInstructions(p)
  BY DEF ProgramInstructions
<1>2. Initialises(i)
  BY DEF Sane, WellFormed, ToSet
<1>3. i.op = "Store" /\ i.res.k = "none" /\ IsList(i.args) /\ Len(i.args) = 2 /\ IsPointer(i.args[1].ty)
  <2>1. Nobody.k = "none"
    BY DEF Nobody, Operand
  <2>2. QED
    BY <1>2, <2>1 DEF Initialises
<1>4. DOMAIN i.args = 1 .. 2
  BY <1>3, ListFacts
<1>5. \A k \in 1 .. 2 : OperandOf(p.fun[g], i.args[k])
  BY <1>2 DEF Initialises, OperandOf
<1>6. WellFormedInstr(p.fun[g], i)
  BY <1>3, <1>4, <1>5 DEF WellFormedInstr, Opcodes, OneArg, TwoArgs, ThreeArgs, Results, IsRegister, Checks,
     IntCasts, BoolCasts, TAC, CMP, PtrSteps
<1>7. AcceptsInstr(p, p.fun[g].ret, i)
  BY <1>3 DEF AcceptsInstr, Accepts, AcceptsMemory, ArgType, TAC, CMP, IntCasts, BoolCasts, PtrSteps, Checks
<1>8. QED
  BY <1>1, <1>2, <1>6, <1>7 DEF Sane, Clean

\* What is known of the instruction that a run stands before.
Known(p, g, i) ==
  /\ WellFormedInstr(p.fun[g], i) /\ AcceptsInstr(p, p.fun[g].ret, i) /\ ~Mistyped(i) /\ i \in ProgramInstructions(p)
  /\ i \in InstructionsOf(p.fun[g]) \/ i.op = "Store"

LEMMA PendingKnown ==
  ASSUME NEW p, Sane(p), NEW g \in DOMAIN p.fun, NEW i, i \in InstructionsOf(p.fun[g]) \/ i \in ToSet(p.init)
  PROVE  Known(p, g, i)
  BY InstructionOf, InitialInstruction DEF Known, Initialises

-----------------------------------------------------------------------------
(* Activations                                                             *)

LEMMA TopFrame ==
  ASSUME NEW c, IsList(c.frames), c.frames # <<>>
  PROVE  \E n \in Nat : Len(c.frames) = n + 1 /\ Top(c) = c.frames[n + 1]
<1>1. PICK m \in Nat : m = Len(c.frames) /\ m # 0
  BY ListFacts
<1>2. m - 1 \in Nat /\ Len(c.frames) = (m - 1) + 1
  BY <1>1
<1>3. Top(c) = c.frames[m]
  BY <1>1 DEF Top, Last
<1>4. QED
  BY <1>1, <1>2, <1>3

\* The activation on top, put in place of what it was.
LEMMA FramePut ==
  ASSUME NEW p, NEW frames, FramesOK(p, frames), NEW n \in Nat, Len(frames) = n + 1,
         NEW fr, FrameOK(p, fr), fr.fun = frames[n + 1].fun, fr.res = frames[n + 1].res
  PROVE  /\ FramesOK(p, [frames EXCEPT ![n + 1] = fr])
         /\ Len([frames EXCEPT ![n + 1] = fr]) = n + 1
         /\ [frames EXCEPT ![n + 1] = fr][n + 1] = fr
<1> DEFINE gs == [frames EXCEPT ![n + 1] = fr]
<1>1. IsList(frames) /\ n + 1 \in 1 .. Len(frames)
  BY DEF FramesOK
<1>2. IsList(gs) /\ Len(gs) = n + 1 /\ \A j \in 1 .. n + 1 : gs[j] = IF j = n + 1 THEN fr ELSE frames[j]
  <2>1. PICK m \in 1 .. Len(frames) : m = n + 1
    BY <1>1
  <2>2. IsPut(frames, m, fr, [frames EXCEPT ![m] = fr])
    BY <1>1, ListPut
  <2>3. QED
    BY <2>1, <2>2 DEF IsPut
<1> HIDE DEF gs
<1>3. ASSUME NEW k \in 1 .. n + 1
      PROVE  FrameOK(p, gs[k]) /\ IF k = 1 THEN gs[k].fun = p.entry ELSE Awaits(p, gs[k - 1], gs[k])
  <2>1. FrameOK(p, frames[k]) /\ IF k = 1 THEN frames[k].fun = p.entry ELSE Awaits(p, frames[k - 1], frames[k])
    BY DEF FramesOK
  <2>2. gs[k].fun = frames[k].fun /\ gs[k].res = frames[k].res /\ FrameOK(p, gs[k])
    BY <1>2, <2>1
  <2>3. k # 1 => gs[k - 1] = frames[k - 1]
    <3>1. k # 1 => k - 1 \in 1 .. n + 1 /\ k - 1 # n + 1
      OBVIOUS
    <3>2. QED
      BY <1>2, <3>1
  <2>4. QED
    BY <2>1, <2>2, <2>3 DEF Awaits
<1>4. FramesOK(p, gs)
  BY <1>2, <1>3 DEF FramesOK
<1>5. gs[n + 1] = fr
  BY <1>2
<1>6. QED
  BY <1>2, <1>4, <1>5 DEF gs

\* A register of an activation with a value of its type.
LEMMA FrameSet ==
  ASSUME NEW p, NEW fr, FrameOK(p, fr), NEW r \in DOMAIN p.fun[fr.fun].regs, NEW x, Fits(x, p.fun[fr.fun].regs[r])
  PROVE  LET new == [fr EXCEPT !.regs = [fr.regs EXCEPT ![r] = x]] IN
         FrameOK(p, new) /\ new.fun = fr.fun /\ new.res = fr.res /\ new.loc = fr.loc
<1> DEFINE regs == [fr.regs EXCEPT ![r] = x]
           f == p.fun[fr.fun]
<1>1. Holding(f, fr.regs)
  BY DEF FrameOK
<1>2. Holding(f, regs)
  BY <1>1 DEF Holding
<1> HIDE DEF regs
<1> DEFINE new == [fr EXCEPT !.regs = regs]
<1>3. fr = [fun |-> fr.fun, loc |-> fr.loc, res |-> fr.res, allocas |-> fr.allocas, regs |-> fr.regs]
  BY DEF FrameOK, IsFrame
<1>4. new = [fun |-> fr.fun, loc |-> fr.loc, res |-> fr.res, allocas |-> fr.allocas, regs |-> regs]
  BY <1>3
<1>5. IsFrame(new) /\ new.fun = fr.fun /\ new.res = fr.res /\ new.loc = fr.loc /\ new.regs = regs
  BY <1>4 DEF IsFrame
<1>6. QED
  BY <1>2, <1>5 DEF FrameOK, regs

\* A run whose activations and stack pointer hold what they held, or what fits.
Alike(p, c, d) ==
  /\ IsRun(d) /\ FramesOK(p, d.frames) /\ d.heap \in Heaps /\ d.todo = c.todo /\ d.end = c.end
  /\ Len(d.frames) = Len(c.frames) /\ d.frames # <<>> /\ Top(d).fun = Top(c).fun /\ Top(d).loc = Top(c).loc
  /\ d.sp = c.sp \/ Fits(d.sp, PointerType)

Standing(p, c) == IsRun(c) /\ FramesOK(p, c.frames) /\ c.frames # <<>> /\ c.heap \in Heaps

\* The parts of a run, one of them replaced.
LEMMA RunParts ==
  ASSUME NEW c, IsRun(c), NEW v
  PROVE  /\ [c EXCEPT !.frames = v] = [frames |-> v, sp |-> c.sp, heap |-> c.heap, todo |-> c.todo, end |-> c.end]
         /\ [c EXCEPT !.sp = v] = [frames |-> c.frames, sp |-> v, heap |-> c.heap, todo |-> c.todo, end |-> c.end]
         /\ [c EXCEPT !.heap = v] = [frames |-> c.frames, sp |-> c.sp, heap |-> v, todo |-> c.todo, end |-> c.end]
         /\ [c EXCEPT !.todo = v] = [frames |-> c.frames, sp |-> c.sp, heap |-> c.heap, todo |-> v, end |-> c.end]
         /\ [c EXCEPT !.end = v] = [frames |-> c.frames, sp |-> c.sp, heap |-> c.heap, todo |-> c.todo, end |-> v]
  BY DEF IsRun

LEMMA FrameParts ==
  ASSUME NEW fr, IsFrame(fr), NEW v
  PROVE  /\ [fr EXCEPT !.loc = v] = [fun |-> fr.fun, loc |-> v, res |-> fr.res, allocas |-> fr.allocas, regs |-> fr.regs]
         /\ [fr EXCEPT !.allocas = v] = [fun |-> fr.fun, loc |-> fr.loc, res |-> fr.res, allocas |-> v, regs |-> fr.regs]
  BY DEF IsFrame

\* What is no register of an activation may change.
Renewed(fr, new) == new.fun = fr.fun /\ new.res = fr.res /\ new.regs = fr.regs /\ IsFrame(new)

LEMMA FrameRenewed ==
  ASSUME NEW fr, IsFrame(fr), NEW v
  PROVE  /\ Renewed(fr, [fr EXCEPT !.loc = v]) /\ [fr EXCEPT !.loc = v].loc = v
         /\ Renewed(fr, [fr EXCEPT !.allocas = v]) /\ [fr EXCEPT !.allocas = v].loc = fr.loc
<1>1. PICK moved : moved = [fr EXCEPT !.loc = v]
  OBVIOUS
<1>2. PICK noted : noted = [fr EXCEPT !.allocas = v]
  OBVIOUS
<1>3. moved = [fun |-> fr.fun, loc |-> v, res |-> fr.res, allocas |-> fr.allocas, regs |-> fr.regs]
  BY <1>1, FrameParts
<1>4. noted = [fun |-> fr.fun, loc |-> fr.loc, res |-> fr.res, allocas |-> v, regs |-> fr.regs]
  BY <1>2, FrameParts
<1>5. Renewed(fr, moved) /\ moved.loc = v
  BY <1>3 DEF Renewed, IsFrame
<1>6. Renewed(fr, noted) /\ noted.loc = fr.loc
  BY <1>4 DEF Renewed, IsFrame
<1>7. QED
  BY <1>1, <1>2, <1>5, <1>6

\* The activation on top replaced by one of the same function.
Placed(p, c, d, fr) ==
  /\ IsRun(d) /\ FramesOK(p, d.frames) /\ d.heap = c.heap /\ d.todo = c.todo /\ d.end = c.end
  /\ Len(d.frames) = Len(c.frames) /\ d.frames # <<>> /\ d.sp = c.sp /\ Top(d) = fr

LEMMA TopPlaced ==
  ASSUME NEW p, NEW c, Standing(p, c), NEW fr, FrameOK(p, fr),
         fr.fun = Top(c).fun, fr.res = Top(c).res,
         NEW d, d = [c EXCEPT !.frames = [c.frames EXCEPT ![Len(c.frames)] = fr]]
  PROVE  Placed(p, c, d, fr)
<1>1. PICK n \in Nat : Len(c.frames) = n + 1 /\ Top(c) = c.frames[n + 1]
  BY TopFrame DEF Standing, FramesOK
<1> DEFINE gs == [c.frames EXCEPT ![n + 1] = fr]
<1>2. FramesOK(p, gs) /\ Len(gs) = n + 1 /\ gs[n + 1] = fr
  BY <1>1, FramePut DEF Standing
<1>3. d = [c EXCEPT !.frames = gs]
  BY <1>1
<1> HIDE DEF gs
<1>4. d = [frames |-> gs, sp |-> c.sp, heap |-> c.heap, todo |-> c.todo, end |-> c.end]
  BY <1>3, RunParts DEF Standing
<1>5. d.frames = gs /\ d.sp = c.sp /\ d.heap = c.heap /\ d.todo = c.todo /\ d.end = c.end /\ IsRun(d)
  <2>1. PICK g : g = gs
    OBVIOUS
  <2>2. d = [frames |-> g, sp |-> c.sp, heap |-> c.heap, todo |-> c.todo, end |-> c.end]
    BY <1>4, <2>1
  <2>3. d.frames = g /\ d.sp = c.sp /\ d.heap = c.heap /\ d.todo = c.todo /\ d.end = c.end
    BY <2>2
  <2>4. IsRun(d)
    BY <2>2, <2>3 DEF IsRun
  <2>5. QED
    BY <2>1, <2>3, <2>4
<1>6. gs # <<>> /\ Top(d) = fr
  <2>1. IsList(gs)
    BY <1>2 DEF FramesOK
  <2>2. gs # <<>>
    BY <1>2, <2>1, ListFacts
  <2>3. PICK m \in Nat : Len(d.frames) = m + 1 /\ Top(d) = d.frames[m + 1]
    BY <1>5, <2>1, <2>2, TopFrame
  <2>4. m = n
    BY <1>2, <1>5, <2>3
  <2>5. QED
    BY <1>2, <1>5, <2>2, <2>3, <2>4
<1>7. QED
  BY <1>1, <1>2, <1>5, <1>6 DEF Placed, Standing

LEMMA TopPut ==
  ASSUME NEW p, NEW c, Standing(p, c), NEW fr, FrameOK(p, fr),
         fr.fun = Top(c).fun, fr.res = Top(c).res, fr.loc = Top(c).loc,
         NEW d, d = [c EXCEPT !.frames = [c.frames EXCEPT ![Len(c.frames)] = fr]]
  PROVE  Alike(p, c, d) /\ d.sp = c.sp /\ Top(d) = fr
<1>1. Placed(p, c, d, fr)
  BY TopPlaced
<1>2. QED
  BY <1>1 DEF Placed, Alike, Standing

LEMMA TopIsFrame ==
  ASSUME NEW p, NEW c, Standing(p, c)
  PROVE  FrameOK(p, Top(c))
<1>1. PICK n \in Nat : Len(c.frames) = n + 1 /\ Top(c) = c.frames[n + 1]
  BY TopFrame DEF Standing, FramesOK
<1>2. n + 1 \in 1 .. Len(c.frames)
  BY <1>1
<1>3. QED
  BY <1>1, <1>2 DEF Standing, FramesOK

LEMMA SaveAlike ==
  ASSUME NEW p, NEW c, Standing(p, c), NEW o, OperandOf(p.fun[Top(c).fun], o), IsRegister(o), NEW x, Fits(x, o.ty)
  PROVE  Alike(p, c, Save(c, o, x)) /\ (IsSP(o) => Fits(Save(c, o, x).sp, PointerType))
<1> DEFINE d == Save(c, o, x)
<1>1. CASE IsSP(o)
  <2>1. d = [c EXCEPT !.sp = x]
    BY <1>1 DEF Save
  <2> HIDE DEF d
  <2>2. d = [frames |-> c.frames, sp |-> x, heap |-> c.heap, todo |-> c.todo, end |-> c.end]
    BY <2>1, RunParts DEF Standing
  <2>3. d.frames = c.frames /\ d.sp = x /\ d.heap = c.heap /\ d.todo = c.todo /\ d.end = c.end /\ IsRun(d)
    BY <2>2 DEF IsRun
  <2>4. Fits(x, PointerType)
    BY <1>1 DEF OperandOf, IsSP, PointerType
  <2>5. QED
    BY <2>3, <2>4 DEF Alike, Standing, Top, d
<1>2. CASE ~IsSP(o)
  <2>1. o.n \in DOMAIN p.fun[Top(c).fun].regs /\ o.ty = p.fun[Top(c).fun].regs[o.n]
    BY <1>2 DEF OperandOf, IsSP, IsRegister
  <2>2. FrameOK(p, Top(c))
    BY TopIsFrame
  <2> DEFINE new == [Top(c) EXCEPT !.regs = [Top(c).regs EXCEPT ![o.n] = x]]
  <2>3. FrameOK(p, new) /\ new.fun = Top(c).fun /\ new.res = Top(c).res /\ new.loc = Top(c).loc
    BY <2>1, <2>2, FrameSet
  <2>4. Top(c) = c.frames[Len(c.frames)]
    BY DEF Top, Last
  <2>5. d = [c EXCEPT !.frames = [c.frames EXCEPT ![Len(c.frames)] = new]]
    BY <1>2, <2>4 DEF Save
  <2> HIDE DEF new, d
  <2>6. Alike(p, c, d)
    BY <2>3, <2>5, TopPut
  <2>7. QED
    BY <1>2, <2>6 DEF d
<1>3. QED
  BY <1>1, <1>2

LEMMA NotedAlike ==
  ASSUME NEW p, NEW c, Standing(p, c), NEW o, NEW skip, NEW q
  PROVE  Alike(p, c, Noted(c, o, skip, q)) /\ Noted(c, o, skip, q).sp = c.sp
<1> DEFINE d == Noted(c, o, skip, q)
<1>1. CASE ~IsSP(o)
  <2>1. d = c
    BY <1>1 DEF Noted
  <2>2. QED
    BY <2>1 DEF Alike, Standing
<1>2. CASE IsSP(o)
  <2>1. Top(c) = c.frames[Len(c.frames)]
    BY DEF Top, Last
  <2> DEFINE noted == Top(c).allocas \cup {[at |-> q, size |-> skip]}
             new == [Top(c) EXCEPT !.allocas = noted]
  <2>2. d = [c EXCEPT !.frames = [c.frames EXCEPT ![Len(c.frames)] = new]]
    BY <1>2, <2>1 DEF Noted
  <2>3. FrameOK(p, Top(c))
    BY TopIsFrame
  <2> HIDE DEF noted, d
  <2>4. new.fun = Top(c).fun /\ new.res = Top(c).res /\ new.loc = Top(c).loc /\ new.regs = Top(c).regs /\ IsFrame(new)
    BY <2>3, FrameRenewed DEF FrameOK, Renewed
  <2> HIDE DEF new
  <2>5. FrameOK(p, new)
    BY <2>3, <2>4 DEF FrameOK
  <2>6. Alike(p, c, d) /\ d.sp = c.sp
    BY <2>2, <2>4, <2>5, TopPut
  <2>7. QED
    BY <2>6 DEF d
<1>3. QED
  BY <1>1, <1>2

LEMMA StoresAlike ==
  ASSUME NEW p, NEW c, Standing(p, c), NEW d, Stores(c, d)
  PROVE  Alike(p, c, d) /\ d.sp = c.sp
<1>1. PICK h \in Heaps : d = [c EXCEPT !.heap = h]
  BY DEF Stores
<1>2. d = [frames |-> c.frames, sp |-> c.sp, heap |-> h, todo |-> c.todo, end |-> c.end]
  BY <1>1, RunParts DEF Standing
<1>3. d.frames = c.frames /\ d.sp = c.sp /\ d.heap = h /\ d.todo = c.todo /\ d.end = c.end /\ IsRun(d)
  BY <1>2 DEF IsRun
<1>4. QED
  BY <1>3 DEF Alike, Standing, Top

\* What an instruction that is not of the stack leaves: a run like the one
\* before, or an end.
LEMMA EffectAlike ==
  ASSUME NEW p, NEW c, Standing(p, c), NEW i, WellFormedInstr(p.fun[Top(c).fun], i), NEW d, Effect(p, i, c, d)
  PROVE  Excused(p, i, c, d) \/ Alike(p, c, d)
<1>1. CASE d = c
  BY <1>1 DEF Alike, Standing
<1>2. ASSUME NEW e, Saves(i, c, e) PROVE Alike(p, c, e)
  <2>1. PICK x : Fits(x, To(i)) /\ e = Save(c, i.res, x) /\ IsRegister(i.res)
    BY <1>2 DEF Saves
  <2>2. OperandOf(p.fun[Top(c).fun], i.res)
    BY <2>1 DEF WellFormedInstr
  <2>3. QED
    BY <2>1, <2>2, SaveAlike DEF To
<1>3. ASSUME NEW e, Saves(i, c, e), NEW skip, NEW q, d = Noted(e, i.res, skip, q) PROVE Alike(p, c, d)
  <2>1. Alike(p, c, e)
    BY <1>2, <1>3
  <2>2. Standing(p, e)
    BY <2>1 DEF Alike, Standing
  <2>3. Alike(p, e, d) /\ d.sp = e.sp
    BY <1>3, <2>2, NotedAlike
  <2>4. QED
    BY <2>1, <2>3 DEF Alike
<1>4. QED
  BY <1>1, <1>2, <1>3, StoresAlike DEF Effect, Sound

-----------------------------------------------------------------------------
(* A step of a run                                                         *)

\* A run that is about to execute i, the instruction already taken from its list.
Next1(c) == [c EXCEPT !.todo = Tail(c.todo)]

Before(p, c, i) ==
  /\ Sane(p) /\ RunOK(p, c) /\ c.end = Going /\ c.todo # <<>> /\ i = Head(c.todo)

Taken(p, c, i, e) ==
  /\ Standing(p, e) /\ e.frames = c.frames /\ e.sp = c.sp /\ e.todo = Tail(c.todo) /\ e.end = Going /\ Top(e) = Top(c)
  /\ TodoOK(p, e) /\ (i.op \in StackOps => e.todo = <<>>)
  /\ Top(e).fun \in DOMAIN p.fun /\ Known(p, Top(e).fun, i)

LEMMA NextTaken ==
  ASSUME NEW p, NEW c, NEW i, Before(p, c, i)
  PROVE  Taken(p, c, i, Next1(c))
<1> DEFINE e == Next1(c)
<1>1. IsList(c.todo) /\ c.frames # <<>> /\ IsRun(c) /\ FramesOK(p, c.frames) /\ c.heap \in Heaps
  BY DEF Before, RunOK, TodoOK
<1>2. e = [frames |-> c.frames, sp |-> c.sp, heap |-> c.heap, todo |-> Tail(c.todo), end |-> c.end]
  BY <1>1, RunParts DEF Next1
<1> HIDE DEF e
<1>3. e.frames = c.frames /\ e.sp = c.sp /\ e.heap = c.heap /\ e.todo = Tail(c.todo) /\ e.end = c.end /\ IsRun(e)
  BY <1>2 DEF IsRun
<1>4. Standing(p, e) /\ Top(e) = Top(c)
  BY <1>1, <1>3 DEF Standing, Top
<1>5. PICK n \in Nat : Len(c.todo) = n + 1
  <2>1. Len(c.todo) \in Nat /\ Len(c.todo) # 0
    BY <1>1, ListFacts DEF Before
  <2>2. Len(c.todo) - 1 \in Nat /\ Len(c.todo) = (Len(c.todo) - 1) + 1
    BY <2>1
  <2>3. QED
    BY <2>2
<1>6. /\ IsList(Tail(c.todo)) /\ Len(Tail(c.todo)) = n /\ i = c.todo[1]
      /\ \A k \in 1 .. n : Tail(c.todo)[k] = c.todo[k + 1]
  BY <1>1, <1>5, ListTail DEF Before
<1>7. \A k \in 1 .. n + 1 : Pending(p, c, c.todo[k]) /\ (c.todo[k].op \in StackOps => k = n + 1)
  BY <1>5 DEF Before, RunOK, TodoOK
<1>8. TodoOK(p, e)
  <2>1. ASSUME NEW k \in 1 .. n
        PROVE  Pending(p, e, e.todo[k]) /\ (e.todo[k].op \in StackOps => k = n)
    <3>1. k + 1 \in 1 .. n + 1 /\ e.todo[k] = c.todo[k + 1]
      BY <1>3, <1>6
    <3>2. Pending(p, c, e.todo[k]) /\ (e.todo[k].op \in StackOps => k + 1 = n + 1)
      BY <1>7, <3>1
    <3>3. QED
      BY <1>4, <3>2 DEF Pending
  <2>2. QED
    BY <1>1, <1>3, <1>6, <2>1 DEF TodoOK
<1>9. i.op \in StackOps => e.todo = <<>>
  <2>1. 1 \in 1 .. n + 1
    OBVIOUS
  <2>2. i.op \in StackOps => n = 0
    BY <1>6, <1>7, <2>1
  <2>3. QED
    BY <1>3, <1>6, <2>2, ListFacts
<1>10. Top(e).fun \in DOMAIN p.fun
  BY <1>4, TopIsFrame DEF FrameOK
<1>11. Pending(p, c, i)
  <2>1. 1 \in 1 .. n + 1
    OBVIOUS
  <2>2. QED
    BY <1>6, <1>7, <2>1
<1>12. Known(p, Top(e).fun, i)
  BY <1>4, <1>10, <1>11, PendingKnown DEF Pending, Before
<1>13. QED
  BY <1>3, <1>4, <1>8, <1>9, <1>10, <1>12 DEF Taken, e, Before

LEMMA HoldingTop ==
  ASSUME NEW p, NEW c, Standing(p, c)
  PROVE  Holding(p.fun[Top(c).fun], Top(c).regs)
  BY TopIsFrame DEF FrameOK

LEMMA NextReady ==
  ASSUME NEW p, NEW c, NEW i, Before(p, c, i), NEW e, Taken(p, c, i, e)
  PROVE  Ready(p.fun[Top(e).fun], e, i)
<1> DEFINE f == p.fun[Top(e).fun]
<1>1. WellFormedFunction(f)
  BY DEF Before, Sane, WellFormed, Taken
<1>2. WellFormedInstr(f, i) /\ ~Mistyped(i) /\ i \in ProgramInstructions(p)
  BY DEF Taken, Known
<1>3. Holding(f, Top(e).regs) /\ e.heap \in Heaps
  BY HoldingTop DEF Taken, Standing
<1>4. ASSUME NEW k \in DOMAIN i.args, IsSP(i.args[k]) PROVE Fits(e.sp, PointerType)
  <2>1. UsesSP(p)
    BY <1>2, <1>4 DEF UsesSP
  <2>2. SUFFICES ASSUME Starting(p, c) PROVE FALSE
    BY <2>1 DEF Before, RunOK, SPReady, TodoOK, Taken
  <2>3. ~SetsSP(i)
    BY <1>4 DEF SetsSP
  <2>4. c.todo[1] \in ToSet(p.init)
    <3>1. \A m \in 1 .. Len(c.todo) : c.todo[m] \in ToSet(p.init)
      BY <2>2, <2>3 DEF Starting, Before
    <3>2. 1 \in 1 .. Len(c.todo)
      BY ListFacts DEF Before, RunOK, TodoOK
    <3>3. QED
      BY <3>1, <3>2
  <2>5. i = c.todo[1]
    <3>1. IsList(c.todo) /\ c.todo # <<>> /\ i = Head(c.todo)
      BY DEF Before, RunOK, TodoOK
    <3>2. c.todo \in Seq(ToSet(c.todo))
      BY <3>1 DEF IsList
    <3>3. QED
      BY <3>1, <3>2
  <2>6. Initialises(i)
    BY <2>4, <2>5, InitialInstruction DEF Taken, Before
  <2>7. DOMAIN i.args = 1 .. 2
    BY <2>6, ListFacts DEF Initialises
  <2>8. QED
    BY <1>4, <2>6, <2>7 DEF Initialises, IsSP
<1>5. QED
  BY <1>1, <1>2, <1>3, <1>4 DEF Ready

\* An end that the properties allow keeps the invariant.
LEMMA ExcusedKeeps ==
  ASSUME NEW p, NEW e, IsRun(e), FramesOK(p, e.frames), e.heap \in Heaps, TodoOK(p, e), NEW i \in ProgramInstructions(p),
         NEW d, Excused(p, i, e, d)
  PROVE  RunOK(p, d)
<1>1. PICK why, op : d = Ended(e, why, op)
                      /\ (why = "raised" => op = i.op /\ NoRule(p, i)) /\ (why = "undefined" => op = i.op /\ Undefined(p, i))
                      /\ why # "going"
  BY DEF Excused
<1>2. d = [frames |-> e.frames, sp |-> e.sp, heap |-> e.heap, todo |-> e.todo, end |-> [why |-> why, op |-> op]]
  BY <1>1, RunParts DEF Ended
<1>3. d.frames = e.frames /\ d.heap = e.heap /\ d.todo = e.todo /\ d.end = [why |-> why, op |-> op] /\ IsRun(d)
  BY <1>2 DEF IsRun
<1>4. d.end.why = why /\ d.end.op = op /\ d.end # Going
  <2>1. d.end.why = why /\ d.end.op = op
    BY <1>3
  <2>2. Going.why = "going"
    BY DEF Going
  <2>3. QED
    BY <1>1, <2>1, <2>2
<1>5. EndOK(p, d)
  BY <1>1, <1>4 DEF EndOK
<1>6. TodoOK(p, d)
  BY <1>3 DEF TodoOK, Pending, Top
<1>7. QED
  BY <1>3, <1>4, <1>5, <1>6 DEF RunOK, SPReady

\* The instruction that sets the stack pointer leaves a pointer in it.
LEMMA SetsStack ==
  ASSUME NEW p, NEW e, Standing(p, e), NEW i, SetsSP(i), Ready(p.fun[Top(e).fun], e, i), ~Symbolically(i),
         Accepts(i, p.fun[Top(e).fun].ret), NEW d \in Run(p, e, i)
  PROVE  Fits(d.sp, PointerType)
<1> DEFINE f == p.fun[Top(e).fun]
<1>1. Operable(f, e, i) /\ {1, 2, 3} \subseteq DOMAIN i.args
  BY ReadyOperable, Arity DEF SetsSP, ThreeArgs, PtrSteps, Ready
<1>2. IsRegister(i.res) /\ ~Mistyped(i) /\ OperandOf(f, i.res) /\ IsSP(i.res) /\ i.op \in PtrSteps
  BY DEF Ready, WellFormedInstr, SetsSP, IsSP, IsRegister, PtrSteps
<1>3. d \in PtrStep(e, i, Lookup(e, i.args[1]), Lookup(e, i.args[2]), Lookup(e, i.args[3])) /\ AcceptsStep(i)
  BY <1>2 DEF SetsSP, Run, Accepts, TAC, CMP, IntCasts, BoolCasts, PtrSteps, Checks
<1>4. PICK g : Saves(i, e, g) /\ (d = g \/ \E skip, q : d = Noted(g, i.res, skip, q))
  BY <1>1, <1>2, <1>3, PtrStepSound DEF Operable
<1>5. Alike(p, e, g) /\ Fits(g.sp, PointerType)
  BY <1>2, <1>4, SaveAlike DEF Saves, To
<1>6. Standing(p, g)
  BY <1>5 DEF Alike, Standing
<1>7. QED
  BY <1>4, <1>5, <1>6, NotedAlike

\* What is left of a list, after its first.
LEMMA RestOf ==
  ASSUME NEW s, IsList(s), s # <<>>, NEW P, \A k \in 1 .. Len(s) : s[k] \in P
  PROVE  \A k \in 1 .. Len(Tail(s)) : Tail(s)[k] \in P
<1>1. PICK n \in Nat : Len(s) = n + 1
  <2>1. Len(s) \in Nat /\ Len(s) # 0
    BY ListFacts
  <2>2. Len(s) - 1 \in Nat /\ Len(s) = (Len(s) - 1) + 1
    BY <2>1
  <2>3. QED
    BY <2>2
<1>2. Len(Tail(s)) = n /\ \A k \in 1 .. n : Tail(s)[k] = s[k + 1]
  BY <1>1, ListTail
<1>3. \A k \in 1 .. n : k + 1 \in 1 .. n + 1
  OBVIOUS
<1>4. QED
  BY <1>1, <1>2, <1>3

\* An instruction that leaves the run alike keeps the invariant.
LEMMA AlikeKeeps ==
  ASSUME NEW p, NEW c, NEW i, Before(p, c, i), NEW e, Taken(p, c, i, e),
         NEW d, Alike(p, e, d), SetsSP(i) => Fits(d.sp, PointerType)
  PROVE  RunOK(p, d)
<1>1. d.todo = e.todo /\ Top(d).fun = Top(e).fun /\ d.frames # <<>>
  BY DEF Alike
<1>2. TodoOK(p, d)
  BY <1>1 DEF TodoOK, Pending, Taken
<1>3. EndOK(p, d)
  <2>1. d.end = Going /\ Going.why = "going"
    BY DEF Alike, Taken, Going
  <2>2. QED
    BY <2>1 DEF EndOK
<1>4. ASSUME UsesSP(p)
      PROVE  Fits(d.sp, PointerType) \/ Starting(p, d)
  <2>1. CASE Fits(c.sp, PointerType)
    BY <2>1 DEF Alike, Taken
  <2>2. CASE Starting(p, c) /\ SetsSP(i)
    BY <2>2
  <2>3. CASE Starting(p, c) /\ ~SetsSP(i)
    <3>1. Len(c.frames) = 1 /\ Top(c).loc = p.fun[p.entry].initial
      BY <2>3 DEF Starting, Before
    <3>2. \A k \in 1 .. Len(c.todo) : c.todo[k] \in ToSet(p.init)
      BY <2>3 DEF Starting, Before
    <3>3. IsList(c.todo) /\ c.todo # <<>>
      BY DEF Before, RunOK, TodoOK
    <3>4. \A k \in 1 .. Len(Tail(c.todo)) : Tail(c.todo)[k] \in ToSet(p.init)
      BY <3>2, <3>3, RestOf
    <3>5. d.todo = Tail(c.todo) /\ Len(d.frames) = Len(c.frames) /\ Top(d).loc = Top(c).loc
      BY DEF Alike, Taken
    <3>6. QED
      BY <3>1, <3>4, <3>5 DEF Starting
  <2>4. SPReady(p, c) /\ c.end = Going /\ c.frames # <<>>
    BY DEF Before, RunOK, TodoOK
  <2>5. QED
    BY <1>4, <2>1, <2>2, <2>3, <2>4 DEF SPReady
<1>5. SPReady(p, d)
  BY <1>4 DEF SPReady
<1>6. QED
  BY <1>2, <1>3, <1>5 DEF Alike, RunOK

\* The parts of a run that its invariant is about when an instruction ends it.
LEMMA TakenExcused ==
  ASSUME NEW p, NEW c, NEW i, Before(p, c, i), NEW e, Taken(p, c, i, e), NEW d, Excused(p, i, e, d)
  PROVE  RunOK(p, d)
<1>1. IsRun(e) /\ FramesOK(p, e.frames) /\ e.heap \in Heaps /\ TodoOK(p, e) /\ i \in ProgramInstructions(p)
  BY DEF Taken, Standing, Known
<1>2. QED
  BY <1>1, ExcusedKeeps

\* Instructions other than those of the stack.
LEMMA PlainKeeps ==
  ASSUME NEW p, NEW c, NEW i, Before(p, c, i), NEW e, Taken(p, c, i, e), i.op \notin StackOps, ~Symbolically(i),
         NEW d \in Run(p, e, i)
  PROVE  RunOK(p, d)
<1> DEFINE f == p.fun[Top(e).fun]
<1>1. Ready(f, e, i)
  BY NextReady
<1>2. Accepts(i, f.ret)
  BY DEF Taken, Known, AcceptsInstr, StackOps
<1>3. Effect(p, i, e, d)
  BY <1>1, <1>2, RunSound
<1>4. Standing(p, e) /\ WellFormedInstr(f, i)
  BY DEF Taken, Known
<1>5. Excused(p, i, e, d) \/ Alike(p, e, d)
  BY <1>3, <1>4, EffectAlike
<1>6. SetsSP(i) => Fits(d.sp, PointerType)
  BY <1>1, <1>2, <1>4, SetsStack
<1>7. QED
  BY <1>5, <1>6, AlikeKeeps, TakenExcused

-----------------------------------------------------------------------------
(* Calls and returns                                                       *)

\* The entry point has set its stack pointer before it changes the stack.
LEMMA StackOpReady ==
  ASSUME NEW p, NEW c, NEW i, Before(p, c, i), i.op \in StackOps, UsesSP(p)
  PROVE  Fits(c.sp, PointerType)
<1>1. SPReady(p, c) /\ c.end = Going /\ c.frames # <<>> /\ IsList(c.todo) /\ c.todo # <<>>
  BY DEF Before, RunOK, TodoOK
<1>2. ~Starting(p, c)
  <2>1. ~SetsSP(i)
    BY DEF SetsSP, StackOps
  <2>2. SUFFICES ASSUME \A k \in 1 .. Len(c.todo) : c.todo[k] \in ToSet(p.init) PROVE FALSE
    BY <2>1 DEF Starting, Before
  <2>3. Len(c.todo) \in Nat /\ Len(c.todo) # 0
    BY <1>1, ListFacts
  <2>4. c.todo[1] \in ToSet(p.init)
    BY <2>2, <2>3
  <2>5. i = c.todo[1]
    <3>1. c.todo \in Seq(ToSet(c.todo)) /\ i = Head(c.todo)
      BY <1>1 DEF IsList, Before
    <3>2. QED
      BY <1>1, <3>1
  <2>6. Initialises(i)
    BY <2>4, <2>5 DEF Before, Sane, WellFormed, ToSet
  <2>7. QED
    BY <2>6 DEF Initialises, StackOps
<1>3. QED
  BY <1>1, <1>2 DEF SPReady

\* A change of the stack ends its edge.
LEMMA StackKeeps ==
  ASSUME NEW p, NEW c, NEW i, Before(p, c, i), NEW e, Taken(p, c, i, e), i.op \in StackOps,
         NEW d, IsRun(d), FramesOK(p, d.frames), d.heap \in Heaps, d.todo = e.todo, d.end = e.end,
         d.sp = e.sp \/ Fits(d.sp, PointerType)
  PROVE  RunOK(p, d)
<1>1. d.todo = <<>> /\ d.end = Going
  BY DEF Taken
<1>2. TodoOK(p, d)
  <2>1. Len(<<>>) = 0 /\ IsList(<<>>)
    BY ListIn, EmptySeq
  <2>2. QED
    BY <1>1, <2>1 DEF TodoOK
<1>3. EndOK(p, d)
  <2>1. Going.why = "going"
    BY DEF Going
  <2>2. QED
    BY <1>1, <2>1 DEF EndOK
<1>4. SPReady(p, d)
  BY StackOpReady DEF SPReady, Taken
<1>5. QED
  BY <1>2, <1>3, <1>4 DEF RunOK

\* The function that a call names is one of the program.
LEMMA CalleeNamed ==
  ASSUME NEW p, Sane(p), NEW i, NamesFunction(p, i)
  PROVE  CalleeOf(p, i) \in DOMAIN p.fun
<1>1. ASSUME NEW k \in DOMAIN p.order PROVE p.order[k] \in DOMAIN p.fun
  BY DEF Sane, WellFormed, ToSet
<1>2. QED
  BY <1>1 DEF NamesFunction, CalleeOf

\* The activation that a call enters.
LEMMA EnteredOK ==
  ASSUME NEW p, Sane(p), NEW e, NEW i, i.op = "Call", NEW g \in DOMAIN p.fun,
         AcceptsInstr(p, p.fun[g].ret, i), IsList(i.args), Operable(p.fun[g], e, i), ~p.fun[CalleeOf(p, i)].varargs
  PROVE  FrameOK(p, Entered(p, e, i)) /\ Entered(p, e, i).fun = CalleeOf(p, i) /\ Entered(p, e, i).res = i.res
<1> DEFINE f == p.fun[CalleeOf(p, i)]
           fr == Entered(p, e, i)
           IsParam(r) == \E k \in DOMAIN f.params : f.params[k] = r
           Initial(r) == IF IsParam(r) THEN Lookup(e, i.args[CHOOSE k \in DOMAIN f.params : f.params[k] = r])
                         ELSE Default(f.regs[r])
           regs == [r \in DOMAIN f.regs |-> Initial(r)]
<1>1. CalleeOf(p, i) \in DOMAIN p.fun /\ AcceptsCall(p, i)
  BY CalleeNamed DEF AcceptsInstr
<1>2. WellFormedFunction(f)
  BY <1>1 DEF Sane, WellFormed
<1>3. DOMAIN f.params = DOMAIN i.args
  BY <1>1, <1>2, ListFacts DEF AcceptsCall, WellFormedFunction
<1>4. ASSUME NEW r \in DOMAIN f.regs
      PROVE  Fits(Initial(r), f.regs[r])
  <2>1. CASE IsParam(r)
    <3>1. PICK k \in DOMAIN f.params : f.params[k] = r /\ Initial(r) = Lookup(e, i.args[k])
      BY <2>1
    <3>2. f.regs[r] = ArgType(i, k)
      BY <1>1, <3>1 DEF AcceptsCall, ArgType
    <3>3. QED
      BY <1>3, <3>1, <3>2 DEF Operable
  <2>2. CASE ~IsParam(r)
    BY <1>2, <2>2, DefaultFits DEF WellFormedFunction
  <2>3. QED
    BY <2>1, <2>2
<1>5. fr = [fun |-> CalleeOf(p, i), loc |-> f.initial, res |-> i.res, allocas |-> {}, regs |-> regs]
  BY DEF Entered
<1>6. Holding(f, regs)
  <2> HIDE DEF f
  <2>1. \A r \in DOMAIN f.regs : regs[r] = Initial(r)
    OBVIOUS
  <2> HIDE DEF Initial
  <2>2. regs = [r \in DOMAIN f.regs |-> regs[r]]
    OBVIOUS
  <2>3. \A r \in DOMAIN f.regs : Fits(regs[r], f.regs[r])
    BY <1>4, <2>1
  <2> HIDE DEF regs
  <2>4. QED
    BY <2>2, <2>3 DEF Holding
<1> HIDE DEF regs, f, fr
<1>7. IsFrame(fr) /\ fr.fun = CalleeOf(p, i) /\ fr.res = i.res /\ fr.regs = regs
  BY <1>5 DEF IsFrame
<1>8. QED
  BY <1>1, <1>6, <1>7 DEF FrameOK, f, fr

\* One activation more, one less.
LEMMA FramesPush ==
  ASSUME NEW p, NEW frames, FramesOK(p, frames), NEW n \in Nat, Len(frames) = n + 1,
         NEW fr, FrameOK(p, fr), Awaits(p, frames[n + 1], fr)
  PROVE  FramesOK(p, Append(frames, fr))
<1> DEFINE gs == Append(frames, fr)
<1>1. IsList(frames)
  BY DEF FramesOK
<1>2. IsList(gs) /\ Len(gs) = n + 2 /\ gs[n + 2] = fr /\ \A k \in 1 .. n + 1 : gs[k] = frames[k]
  <2>1. Len(frames) + 1 = n + 2
    OBVIOUS
  <2>2. QED
    BY <1>1, <2>1, ListPush
<1> HIDE DEF gs
<1>3. ASSUME NEW k \in 1 .. n + 2
      PROVE  FrameOK(p, gs[k]) /\ IF k = 1 THEN gs[k].fun = p.entry ELSE Awaits(p, gs[k - 1], gs[k])
  <2>1. CASE k = n + 2
    <3>1. k - 1 = n + 1 /\ n + 1 \in 1 .. n + 1 /\ k # 1
      BY <2>1
    <3>2. QED
      BY <1>2, <2>1, <3>1
  <2>2. CASE k \in 1 .. n + 1
    <3>1. k # 1 => k - 1 \in 1 .. n + 1
      BY <2>2
    <3>2. FrameOK(p, frames[k]) /\ IF k = 1 THEN frames[k].fun = p.entry ELSE Awaits(p, frames[k - 1], frames[k])
      BY <2>2 DEF FramesOK
    <3>3. QED
      BY <1>2, <2>2, <3>1, <3>2
  <2>3. QED
    BY <2>1, <2>2
<1>4. QED
  BY <1>2, <1>3 DEF FramesOK, gs

LEMMA FramesFront ==
  ASSUME NEW p, NEW frames, FramesOK(p, frames), NEW n \in Nat, Len(frames) = n + 1
  PROVE  FramesOK(p, Front(frames)) /\ Len(Front(frames)) = n /\ \A k \in 1 .. n : Front(frames)[k] = frames[k]
<1> DEFINE gs == Front(frames)
<1>1. IsList(gs) /\ Len(gs) = n /\ \A k \in 1 .. n : gs[k] = frames[k]
  BY ListPop DEF FramesOK
<1> HIDE DEF gs
<1>2. ASSUME NEW k \in 1 .. n
      PROVE  FrameOK(p, gs[k]) /\ IF k = 1 THEN gs[k].fun = p.entry ELSE Awaits(p, gs[k - 1], gs[k])
  <2>1. (k # 1 => k - 1 \in 1 .. n) /\ k \in 1 .. n + 1
    OBVIOUS
  <2>2. FrameOK(p, frames[k]) /\ IF k = 1 THEN frames[k].fun = p.entry ELSE Awaits(p, frames[k - 1], frames[k])
    BY <2>1 DEF FramesOK
  <2>3. QED
    BY <1>1, <2>1, <2>2
<1>3. QED
  BY <1>1, <1>2 DEF FramesOK, gs

LEMMA CallKeeps ==
  ASSUME NEW p, NEW c, NEW i, Before(p, c, i), NEW e, Taken(p, c, i, e), i.op = "Call", ~Symbolically(i),
         NEW d \in Call(p, e, i)
  PROVE  RunOK(p, d)
<1> DEFINE g == Top(e).fun
           fr == Entered(p, e, i)
<1>1. CASE d = Ended(e, "bound", i.op)
  BY <1>1, TakenExcused DEF Excused
<1>2. CASE d = Ended(e, "raised", i.op) /\ p.fun[CalleeOf(p, i)].varargs
  BY <1>2, TakenExcused DEF Excused, NoRule
<1>3. CASE d = [e EXCEPT !.frames = Append(e.frames, fr)] /\ ~p.fun[CalleeOf(p, i)].varargs
  <2>1. Standing(p, e) /\ g \in DOMAIN p.fun /\ Sane(p) /\ IsList(i.args) /\ AcceptsInstr(p, p.fun[g].ret, i)
    BY DEF Taken, Known, Before, WellFormedInstr
  <2>2. Operable(p.fun[g], e, i)
    BY NextReady, ReadyOperable
  <2>3. FrameOK(p, fr) /\ fr.fun = CalleeOf(p, i) /\ fr.res = i.res
    BY <1>3, <2>1, <2>2, EnteredOK
  <2>4. i \in InstructionsOf(p.fun[g])
    BY DEF Taken, Known
  <2>5. Awaits(p, Top(e), fr)
    BY <2>3, <2>4 DEF Awaits
  <2>6. PICK n \in Nat : Len(e.frames) = n + 1 /\ Top(e) = e.frames[n + 1]
    BY <2>1, TopFrame DEF Standing, FramesOK
  <2> DEFINE gs == Append(e.frames, fr)
  <2> HIDE DEF fr, g
  <2>7. FramesOK(p, gs)
    BY <2>1, <2>3, <2>5, <2>6, FramesPush DEF Standing
  <2>8. d = [e EXCEPT !.frames = gs]
    BY <1>3
  <2> HIDE DEF gs
  <2>9. d = [frames |-> gs, sp |-> e.sp, heap |-> e.heap, todo |-> e.todo, end |-> e.end]
    BY <2>1, <2>8, RunParts DEF Standing
  <2>10. d.frames = gs /\ d.sp = e.sp /\ d.heap = e.heap /\ d.todo = e.todo /\ d.end = e.end /\ IsRun(d)
    BY <2>9 DEF IsRun
  <2>11. QED
    BY <2>1, <2>7, <2>10, StackKeeps DEF StackOps, Standing
<1>4. QED
  BY <1>1, <1>2, <1>3 DEF Call, Raise

\* The activation below, with the one on top left.
IsLeft(e, d) == d = [e EXCEPT !.frames = Front(e.frames)]

Resumes(p, e, d) ==
  /\ IsRun(d) /\ FramesOK(p, d.frames) /\ d.heap \in Heaps
  /\ d.todo = e.todo /\ d.end = e.end /\ d.sp = e.sp

LEMMA Left ==
  ASSUME NEW p, NEW e, Standing(p, e), NEW n \in Nat, Len(e.frames) = n + 1, NEW d, IsLeft(e, d)
  PROVE  /\ Resumes(p, e, d)
         /\ n # 0 => Standing(p, d) /\ Top(d) = e.frames[n]
<1> DEFINE gs == Front(e.frames)
<1>1. FramesOK(p, gs) /\ Len(gs) = n /\ \A k \in 1 .. n : gs[k] = e.frames[k]
  BY FramesFront DEF Standing
<1> HIDE DEF gs
<1>2. d = [frames |-> gs, sp |-> e.sp, heap |-> e.heap, todo |-> e.todo, end |-> e.end]
  BY RunParts DEF Standing, gs, IsLeft
<1>3. d.frames = gs /\ d.sp = e.sp /\ d.heap = e.heap /\ d.todo = e.todo /\ d.end = e.end /\ IsRun(d)
  BY <1>2 DEF IsRun
<1>4. ASSUME n # 0 PROVE Standing(p, d) /\ Top(d) = e.frames[n]
  <2>1. gs # <<>>
    BY <1>1, <1>4, ListFacts DEF FramesOK
  <2>2. Top(d) = gs[n]
    BY <1>1, <1>3 DEF Top, Last
  <2>3. n \in 1 .. n
    BY <1>4
  <2>4. QED
    BY <1>1, <1>3, <2>1, <2>2, <2>3 DEF Standing
<1>5. QED
  BY <1>1, <1>3, <1>4 DEF Standing, Resumes

\* No value is of type Void.
LEMMA NoVoidValue == ~ValueType(Type("Void"))
<1>1. Type("Void").id = "Void" /\ \A t \in Scalars : t.id # "Void"
  BY DEF Type, Scalars
<1>2. \A n : AggregateType(n).id = "Aggregate"
  BY DEF AggregateType
<1>3. QED
  BY <1>1, <1>2 DEF ValueType

\* What an activation returns to: the call that entered it.
LEMMA Caller ==
  ASSUME NEW p, Sane(p), NEW caller, caller.fun \in DOMAIN p.fun, NEW fr, Awaits(p, caller, fr)
  PROVE  \E j \in InstructionsOf(p.fun[caller.fun]) :
           /\ j \in ProgramInstructions(p) /\ j.op = "Call" /\ CalleeOf(p, j) = fr.fun /\ j.res = fr.res
           /\ WellFormedInstr(p.fun[caller.fun], j) /\ AcceptsCall(p, j)
<1>1. PICK j \in InstructionsOf(p.fun[caller.fun]) : j.op = "Call" /\ CalleeOf(p, j) = fr.fun /\ j.res = fr.res
  BY DEF Awaits
<1>2. /\ WellFormedInstr(p.fun[caller.fun], j) /\ AcceptsInstr(p, p.fun[caller.fun].ret, j)
      /\ j \in ProgramInstructions(p)
  BY InstructionOf
<1>3. QED
  BY <1>1, <1>2 DEF AcceptsInstr

LEMMA RetVoidKeeps ==
  ASSUME NEW p, NEW c, NEW i, Before(p, c, i), NEW e, Taken(p, c, i, e), i.op = "RetVoid",
         NEW d, IsLeft(e, d)
  PROVE  RunOK(p, d)
<1>1. Standing(p, e)
  BY DEF Taken
<1>2. PICK n \in Nat : Len(e.frames) = n + 1
  BY <1>1, TopFrame DEF Standing, FramesOK
<1>3. Resumes(p, e, d)
  BY <1>1, <1>2, Left
<1>4. QED
  BY <1>3, StackKeeps DEF StackOps, Resumes

LEMMA RetKeeps ==
  ASSUME NEW p, NEW c, NEW i, Before(p, c, i), NEW e, Taken(p, c, i, e), i.op = "Ret", ~Symbolically(i),
         NEW d \in Return(e, Lookup(e, i.args[1]))
  PROVE  RunOK(p, d)
<1> DEFINE f == p.fun[Top(e).fun]
           x == Lookup(e, i.args[1])
           to == Top(e).res
<1>1. Standing(p, e) /\ Sane(p) /\ AcceptsInstr(p, f.ret, i) /\ WellFormedInstr(f, i)
  BY DEF Taken, Known, Before
<1>2. ArgType(i, 1) = f.ret
  BY <1>1 DEF AcceptsInstr, Accepts, AcceptsReturn, TAC, CMP, IntCasts, BoolCasts, PtrSteps, Checks
<1>3. 1 \in DOMAIN i.args
  BY <1>1, Arity DEF OneArg
<1>4. ValueType(f.ret) /\ Fits(x, f.ret)
  BY <1>2, <1>3, NextReady, ReadyOperable DEF Operable
<1>5. f.ret # Type("Void")
  BY <1>4, NoVoidValue
<1>6. PICK n \in Nat : Len(e.frames) = n + 1 /\ Top(e) = e.frames[n + 1]
  BY <1>1, TopFrame DEF Standing, FramesOK
<1>7. n # 0
  <2>1. SUFFICES ASSUME n = 0 PROVE FALSE
    OBVIOUS
  <2>2. 1 \in 1 .. Len(e.frames) /\ Top(e) = e.frames[1]
    BY <1>6, <2>1
  <2>3. Top(e).fun = p.entry
    BY <1>1, <2>2 DEF Standing, FramesOK
  <2>4. QED
    BY <1>1, <1>5, <2>3 DEF Sane, WellFormed
<1>8. FrameOK(p, e.frames[n]) /\ Awaits(p, e.frames[n], Top(e))
  <2>1. n \in 1 .. Len(e.frames) /\ n + 1 \in 1 .. Len(e.frames) /\ n + 1 # 1 /\ (n + 1) - 1 = n
    BY <1>6, <1>7
  <2>2. QED
    BY <1>1, <1>6, <2>1 DEF Standing, FramesOK
<1> DEFINE caller == e.frames[n]
<1>9. caller.fun \in DOMAIN p.fun
  BY <1>8 DEF FrameOK
<1>10. PICK j \in InstructionsOf(p.fun[caller.fun]) :
           /\ j \in ProgramInstructions(p) /\ j.op = "Call" /\ CalleeOf(p, j) = Top(e).fun /\ j.res = to
           /\ WellFormedInstr(p.fun[caller.fun], j) /\ AcceptsCall(p, j)
  BY <1>1, <1>8, <1>9, Caller
<1>11. Len(e.frames) # 1
  BY <1>6, <1>7
<1> HIDE DEF caller
<1>12. CASE to.k # "local"
  <2>1. d = Ended(e, "undefined", "Call")
    BY <1>12 DEF Return
  <2>2. Undefined(p, j)
    BY <1>5, <1>10, <1>12 DEF Undefined
  <2>3. Excused(p, j, e, d)
    BY <1>10, <2>1, <2>2 DEF Excused
  <2>4. IsRun(e) /\ FramesOK(p, e.frames) /\ e.heap \in Heaps /\ TodoOK(p, e)
    BY <1>1 DEF Taken, Standing
  <2>5. QED
    BY <1>10, <2>3, <2>4, ExcusedKeeps
<1>13. CASE to.k = "local"
  <2> DEFINE b == [e EXCEPT !.frames = Front(e.frames)]
  <2>1. d = Save(b, to, x)
    BY <1>11, <1>13 DEF Return
  <2>2. Standing(p, b) /\ Top(b) = caller /\ b.todo = e.todo /\ b.end = e.end /\ b.sp = e.sp
    BY <1>1, <1>6, <1>7, Left DEF caller, IsLeft, Resumes
  <2>3. IsRegister(to) /\ ~IsSP(to)
    BY <1>13 DEF IsRegister, IsSP
  <2>4. OperandOf(p.fun[caller.fun], to)
    BY <1>10, <2>3 DEF WellFormedInstr
  <2>5. Fits(x, to.ty)
    BY <1>4, <1>10, <1>13 DEF AcceptsCall
  <2> HIDE DEF b, x, to
  <2>6. Alike(p, b, Save(b, to, x))
    BY <2>2, <2>3, <2>4, <2>5, SaveAlike
  <2>7. IsRun(d) /\ FramesOK(p, d.frames) /\ d.heap \in Heaps /\ d.todo = e.todo /\ d.end = e.end
        /\ (d.sp = e.sp \/ Fits(d.sp, PointerType))
    BY <2>1, <2>2, <2>6 DEF Alike
  <2>8. QED
    BY <2>7, StackKeeps DEF StackOps
<1>14. QED
  BY <1>12, <1>13

-----------------------------------------------------------------------------
(* Steps                                                                   *)

LEMMA ExecuteKeeps ==
  ASSUME NEW p, Sane(p), NEW c, RunOK(p, c), NEW d \in Executes(p, c)
  PROVE  RunOK(p, d)
<1> DEFINE i == Head(c.todo)
           e == Next1(c)
<1>1. Before(p, c, i) /\ d \in Execute(p, e, i)
  BY DEF Executes, Before, Next1
<1>2. Taken(p, c, i, e)
  BY <1>1, NextTaken
<1> HIDE DEF i, e
<1>3. CASE Symbolically(i)
  <2>1. d = Ended(e, "raised", i.op) /\ NoRule(p, i)
    BY <1>1, <1>3 DEF Execute, Raise, NoRule
  <2>2. QED
    BY <1>1, <1>2, <2>1, TakenExcused DEF Excused
<1>4. CASE ~Symbolically(i) /\ i.op \notin StackOps
  BY <1>1, <1>2, <1>4, PlainKeeps DEF Execute
<1>5. CASE ~Symbolically(i) /\ i.op = "Call"
  <2>1. d \in Call(p, e, i)
    BY <1>1, <1>5 DEF Execute, Run, TAC, CMP, IntCasts, BoolCasts, PtrSteps, Checks
  <2>2. QED
    BY <1>1, <1>2, <1>5, <2>1, CallKeeps
<1>6. CASE ~Symbolically(i) /\ i.op = "Ret"
  <2>1. d \in Return(e, Lookup(e, i.args[1]))
    BY <1>1, <1>6 DEF Execute, Run, TAC, CMP, IntCasts, BoolCasts, PtrSteps, Checks
  <2>2. QED
    BY <1>1, <1>2, <1>6, <2>1, RetKeeps
<1>7. CASE ~Symbolically(i) /\ i.op = "RetVoid"
  <2>1. IsLeft(e, d)
    BY <1>1, <1>7 DEF IsLeft, Execute, Run, TAC, CMP, IntCasts, BoolCasts, PtrSteps, Checks
  <2>2. QED
    BY <1>1, <1>2, <1>7, <2>1, RetVoidKeeps
<1>8. QED
  BY <1>3, <1>4, <1>5, <1>6, <1>7 DEF StackOps

\* A run before an edge of the location it is at.
Facing(p, c, e) ==
  /\ Sane(p) /\ RunOK(p, c) /\ c.end = Going /\ c.todo = <<>> /\ c.frames # <<>>
  /\ e \in ToSet(p.fun[Top(c).fun].edges) /\ e.from = Top(c).loc

LEMMA EdgeParts ==
  ASSUME NEW p, NEW c, NEW e, Facing(p, c, e)
  PROVE  /\ Standing(p, c) /\ Top(c).fun \in DOMAIN p.fun /\ WellFormedFunction(p.fun[Top(c).fun])
         /\ WellFormedEdge(p.fun[Top(c).fun], e)
         /\ \A k \in DOMAIN e.ins : e.ins[k] \in InstructionsOf(p.fun[Top(c).fun])
         /\ \E k \in DOMAIN p.fun[Top(c).fun].edges : e = p.fun[Top(c).fun].edges[k]
<1> DEFINE f == p.fun[Top(c).fun]
<1>1. Standing(p, c)
  BY DEF Facing, RunOK, Standing
<1>2. Top(c).fun \in DOMAIN p.fun
  BY <1>1, TopIsFrame DEF FrameOK
<1>3. WellFormedFunction(f)
  BY <1>2 DEF Facing, Sane, WellFormed
<1>4. PICK k \in DOMAIN f.edges : e = f.edges[k]
  BY DEF Facing, ToSet
<1>5. WellFormedEdge(f, e)
  BY <1>3, <1>4 DEF WellFormedFunction
<1>6. \A m \in DOMAIN e.ins : e.ins[m] \in InstructionsOf(f)
  <2>1. \A m \in DOMAIN e.ins : e.ins[m] \in ToSet(f.edges[k].ins)
    BY <1>4 DEF ToSet
  <2> HIDE DEF f
  <2>2. \A i \in ToSet(f.edges[k].ins) : i \in InstructionsOf(f)
    BY DEF InstructionsOf
  <2>3. QED
    BY <2>1, <2>2
<1>7. QED
  BY <1>1, <1>2, <1>3, <1>4, <1>5, <1>6

\* An edge is taken with the stack pointer set, or sets it first.
LEMMA EdgeStack ==
  ASSUME NEW p, NEW c, NEW e, Facing(p, c, e), UsesSP(p)
  PROVE  Fits(c.sp, PointerType) \/ (Len(c.frames) = 1 /\ ~e.phi /\ e.ins # <<>> /\ SetsSP(Head(e.ins)))
<1>1. SUFFICES ASSUME Starting(p, c)
               PROVE  Len(c.frames) = 1 /\ ~e.phi /\ e.ins # <<>> /\ SetsSP(Head(e.ins))
  BY DEF Facing, RunOK, SPReady
<1>2. Len(c.frames) = 1 /\ Top(c).loc = p.fun[p.entry].initial
  BY <1>1 DEF Starting, Facing
<1>3. Top(c).fun = p.entry
  <2>1. Top(c) = c.frames[1] /\ 1 \in 1 .. Len(c.frames)
    BY <1>2 DEF Top, Last
  <2>2. QED
    BY <2>1 DEF Facing, RunOK, FramesOK
<1>4. PICK k \in DOMAIN p.fun[p.entry].edges : e = p.fun[p.entry].edges[k]
  BY <1>3, EdgeParts
<1>5. e.from = p.fun[p.entry].initial /\ StackIsSet(p)
  BY <1>2 DEF Facing, Sane, WellFormed
<1>6. QED
  BY <1>2, <1>4, <1>5 DEF StackIsSet

\* The run at the end of the edge, its instructions not yet executed.
Moved(c, e) == [c EXCEPT !.frames = [c.frames EXCEPT ![Len(c.frames)] = [Top(c) EXCEPT !.loc = e.to]]]

LEMMA MovedPlaced ==
  ASSUME NEW p, NEW c, NEW e, Facing(p, c, e)
  PROVE  \E fr : Placed(p, c, Moved(c, e), fr) /\ fr.fun = Top(c).fun /\ fr.regs = Top(c).regs
<1>1. PICK fr : fr = [Top(c) EXCEPT !.loc = e.to]
  OBVIOUS
<1>2. Standing(p, c) /\ FrameOK(p, Top(c))
  BY EdgeParts, TopIsFrame
<1>3. fr.fun = Top(c).fun /\ fr.res = Top(c).res /\ fr.regs = Top(c).regs /\ IsFrame(fr)
  BY <1>1, <1>2, FrameRenewed DEF FrameOK, Renewed
<1>4. FrameOK(p, fr)
  BY <1>2, <1>3 DEF FrameOK
<1>5. Moved(c, e) = [c EXCEPT !.frames = [c.frames EXCEPT ![Len(c.frames)] = fr]]
  BY <1>1 DEF Moved
<1>6. Placed(p, c, Moved(c, e), fr)
  BY <1>2, <1>3, <1>4, <1>5, TopPlaced
<1>7. QED
  BY <1>3, <1>6

IsPlainEdge(c, e, d) == d = [Moved(c, e) EXCEPT !.todo = e.ins]

LEMMA PlainEdgeKeeps ==
  ASSUME NEW p, NEW c, NEW e, Facing(p, c, e), NEW d, IsPlainEdge(c, e, d)
  PROVE  RunOK(p, d)
<1> DEFINE f == p.fun[Top(c).fun]
<1>1. PICK m : m = Moved(c, e)
  OBVIOUS
<1>2. PICK fr : Placed(p, c, m, fr) /\ fr.fun = Top(c).fun
  BY <1>1, MovedPlaced
<1>3. d = [frames |-> m.frames, sp |-> m.sp, heap |-> m.heap, todo |-> e.ins, end |-> m.end]
  BY <1>1, <1>2, RunParts DEF Placed, IsPlainEdge
<1>4. d.frames = m.frames /\ d.sp = m.sp /\ d.heap = m.heap /\ d.todo = e.ins /\ d.end = m.end /\ IsRun(d)
  BY <1>3 DEF IsRun
<1>5. Top(d).fun = Top(c).fun /\ d.frames # <<>> /\ Len(d.frames) = Len(c.frames) /\ d.sp = c.sp /\ d.end = Going
      /\ FramesOK(p, d.frames) /\ d.heap \in Heaps
  BY <1>2, <1>4 DEF Placed, Top, Facing, RunOK
<1>6. TodoOK(p, d)
  <2>1. IsList(e.ins) /\ \A k \in DOMAIN e.ins : e.ins[k].op \in StackOps => k = Len(e.ins)
    BY EdgeParts DEF WellFormedEdge
  <2>2. DOMAIN e.ins = 1 .. Len(e.ins)
    BY <2>1, ListFacts
  <2>3. \A k \in 1 .. Len(e.ins) : Pending(p, d, e.ins[k])
    BY <1>5, <2>2, EdgeParts DEF Pending
  <2>4. QED
    BY <1>4, <1>5, <2>1, <2>2, <2>3 DEF TodoOK
<1>7. SPReady(p, d)
  BY <1>4, <1>5, EdgeStack DEF SPReady, Starting
<1>8. EndOK(p, d)
  <2>1. Going.why = "going"
    BY DEF Going
  <2>2. QED
    BY <1>5, <2>1 DEF EndOK
<1>9. QED
  BY <1>4, <1>5, <1>6, <1>7, <1>8 DEF RunOK

\* The registers of the activation on top, all of them with values of their types.
LEMMA FrameHold ==
  ASSUME NEW p, NEW fr, FrameOK(p, fr), NEW regs, Holding(p.fun[fr.fun], regs)
  PROVE  LET new == [fr EXCEPT !.regs = regs] IN
         FrameOK(p, new) /\ new.fun = fr.fun /\ new.res = fr.res /\ new.loc = fr.loc
<1> DEFINE new == [fr EXCEPT !.regs = regs]
<1>1. fr = [fun |-> fr.fun, loc |-> fr.loc, res |-> fr.res, allocas |-> fr.allocas, regs |-> fr.regs]
  BY DEF FrameOK, IsFrame
<1>2. new = [fun |-> fr.fun, loc |-> fr.loc, res |-> fr.res, allocas |-> fr.allocas, regs |-> regs]
  BY <1>1
<1>3. IsFrame(new) /\ new.fun = fr.fun /\ new.res = fr.res /\ new.loc = fr.loc /\ new.regs = regs
  BY <1>2 DEF IsFrame
<1>4. QED
  BY <1>3 DEF FrameOK

\* The registers of the frame after the assignments of a phi edge.
PhiRegs(c, ins) == [r \in DOMAIN Top(c).regs |-> Assigned(c, ins, r)]

LEMMA PhiHolds ==
  ASSUME NEW p, NEW c, NEW e, Facing(p, c, e), e.phi, \A k \in DOMAIN e.ins : ~Symbolically(e.ins[k]),
         NEW m, NEW fr, Placed(p, c, m, fr), fr.fun = Top(c).fun, fr.regs = Top(c).regs
  PROVE  Holding(p.fun[Top(c).fun], PhiRegs(m, e.ins))
<1> DEFINE f == p.fun[Top(c).fun]
<1>1. WellFormedFunction(f) /\ WellFormedEdge(f, e) /\ Top(c).fun \in DOMAIN p.fun
  BY EdgeParts
<1>2. Holding(f, Top(c).regs) /\ c.heap \in Heaps
  BY EdgeParts, HoldingTop DEF Standing
<1>3. Holding(f, Top(m).regs) /\ m.sp = c.sp /\ m.heap \in Heaps
  BY <1>2 DEF Placed
<1>4. UsesSP(p) => Fits(m.sp, PointerType)
  BY <1>3, EdgeStack
<1>5. ASSUME NEW k \in DOMAIN e.ins
      PROVE  Fits(Lookup(m, e.ins[k].args[1]), e.ins[k].res.ty) /\ OperandOf(f, e.ins[k].res) /\ e.ins[k].res.k = "local"
  <2> DEFINE i == e.ins[k]
  <2>1. i \in InstructionsOf(f) /\ ~Symbolically(i)
    BY EdgeParts
  <2>2. i.op = "Assign" /\ i.res.k = "local"
    BY <1>1 DEF WellFormedEdge
  <2>3. WellFormedInstr(f, i) /\ AcceptsInstr(p, f.ret, i) /\ ~Mistyped(i) /\ i \in ProgramInstructions(p)
    BY <1>1, <2>1, InstructionOf DEF Facing
  <2>4. ASSUME NEW j \in DOMAIN i.args, IsSP(i.args[j]) PROVE Fits(m.sp, PointerType)
    BY <1>4, <2>3, <2>4 DEF UsesSP
  <2>5. Ready(f, m, i)
    BY <1>1, <1>3, <2>3, <2>4 DEF Ready
  <2>6. To(i) = ArgType(i, 1) /\ 1 \in DOMAIN i.args
    BY <2>2, <2>3, Arity DEF AcceptsInstr, Accepts, TAC, CMP, IntCasts, BoolCasts, PtrSteps, Checks, OneArg
  <2>7. Fits(Lookup(m, i.args[1]), To(i))
    BY <2>1, <2>5, <2>6, ReadyOperable DEF Operable
  <2>8. OperandOf(f, i.res)
    BY <2>2, <2>3 DEF WellFormedInstr, IsRegister
  <2>9. QED
    BY <2>2, <2>7, <2>8 DEF To
<1>6. DOMAIN Top(m).regs = DOMAIN f.regs
  BY <1>3 DEF Holding
<1>7. ASSUME NEW r \in DOMAIN f.regs
      PROVE  Fits(Assigned(m, e.ins, r), f.regs[r])
  <2>1. CASE \E k \in DOMAIN e.ins : e.ins[k].res.n = r
    <3>1. PICK k \in DOMAIN e.ins : e.ins[k].res.n = r /\ Assigned(m, e.ins, r) = Lookup(m, e.ins[k].args[1])
      BY <2>1 DEF Assigned
    <3>2. e.ins[k].res.ty = f.regs[r]
      BY <1>5, <3>1 DEF OperandOf
    <3>3. QED
      BY <1>5, <3>1, <3>2
  <2>2. CASE ~\E k \in DOMAIN e.ins : e.ins[k].res.n = r
    BY <1>3, <2>2 DEF Assigned, Holding
  <2>3. QED
    BY <2>1, <2>2
<1>8. PhiRegs(m, e.ins) = [r \in DOMAIN f.regs |-> Assigned(m, e.ins, r)]
  BY <1>6 DEF PhiRegs
<1>9. \A r \in DOMAIN f.regs : PhiRegs(m, e.ins)[r] = Assigned(m, e.ins, r)
  BY <1>8
<1>10. PhiRegs(m, e.ins) = [r \in DOMAIN f.regs |-> PhiRegs(m, e.ins)[r]]
  BY <1>8
<1>11. QED
  BY <1>7, <1>9, <1>10 DEF Holding

LEMMA PhiEdgeKeeps ==
  ASSUME NEW p, NEW c, NEW e, Facing(p, c, e), e.phi
  PROVE  RunOK(p, AtOnce(Moved(c, e), e.ins))
<1>1. PICK m : m = Moved(c, e)
  OBVIOUS
<1>2. PICK fr : Placed(p, c, m, fr) /\ fr.fun = Top(c).fun /\ fr.regs = Top(c).regs
  BY <1>1, MovedPlaced
<1>3. PICK d : d = AtOnce(m, e.ins)
  OBVIOUS
<1>4. Standing(p, m) /\ m.todo = <<>> /\ m.end = Going /\ Top(m).fun = Top(c).fun /\ m.sp = c.sp
  BY <1>2 DEF Placed, Standing, Facing, RunOK
<1>5. \A r : TodoOK(p, r) \/ r.todo # <<>>
  <2>1. Len(<<>>) = 0 /\ IsList(<<>>)
    BY ListIn, EmptySeq
  <2>2. QED
    BY <2>1 DEF TodoOK
<1>6. CASE \E k \in DOMAIN e.ins : Symbolically(e.ins[k])
  <2>1. PICK k \in DOMAIN e.ins : Symbolically(e.ins[k])
    BY <1>6
  <2>2. e.ins[k].op = "Assign"
    BY EdgeParts DEF WellFormedEdge
  <2>3. e.ins[k] \in ProgramInstructions(p)
    BY EdgeParts, InstructionOf DEF Facing
  <2>4. d = Ended(m, "raised", e.ins[k].op) /\ NoRule(p, e.ins[k])
    BY <1>3, <2>1, <2>2 DEF AtOnce, NoRule
  <2>5. Excused(p, e.ins[k], m, d)
    BY <2>4 DEF Excused
  <2>6. RunOK(p, d)
    BY <1>4, <1>5, <2>3, <2>5, ExcusedKeeps DEF Standing
  <2>7. QED
    BY <1>1, <1>3, <2>6
<1>7. CASE ~\E k \in DOMAIN e.ins : Symbolically(e.ins[k])
  <2>1. PICK regs : regs = PhiRegs(m, e.ins)
    OBVIOUS
  <2>2. Holding(p.fun[Top(m).fun], regs)
    BY <1>2, <1>4, <1>7, <2>1, PhiHolds
  <2>3. PICK new : new = [Top(m) EXCEPT !.regs = regs]
    OBVIOUS
  <2>4. FrameOK(p, new) /\ new.fun = Top(m).fun /\ new.res = Top(m).res /\ new.loc = Top(m).loc
    BY <1>4, <2>2, <2>3, TopIsFrame, FrameHold
  <2>5. d = [m EXCEPT !.frames = [m.frames EXCEPT ![Len(m.frames)] = new]]
    <3>1. Top(m) = m.frames[Len(m.frames)]
      BY DEF Top, Last
    <3>2. d = [m EXCEPT !.frames[Len(m.frames)].regs = regs]
      BY <1>3, <1>7, <2>1, <3>1 DEF AtOnce, PhiRegs
    <3>3. QED
      BY <2>3, <3>1, <3>2
  <2>6. Alike(p, m, d) /\ d.sp = m.sp
    BY <1>4, <2>4, <2>5, TopPut
  <2>7. SPReady(p, d)
    BY <1>4, <2>6, EdgeStack DEF SPReady
  <2>8. EndOK(p, d)
    <3>1. Going.why = "going"
      BY DEF Going
    <3>2. QED
      BY <1>4, <2>6, <3>1 DEF EndOK, Alike
  <2>9. TodoOK(p, d)
    BY <1>4, <1>5, <2>6 DEF Alike
  <2>10. RunOK(p, d)
    BY <2>6, <2>7, <2>8, <2>9 DEF RunOK, Alike
  <2>11. QED
    BY <1>1, <1>3, <2>10
<1>8. QED
  BY <1>6, <1>7

LEMMA MoveKeeps ==
  ASSUME NEW p, Sane(p), NEW c, RunOK(p, c), NEW d \in Moves(p, c)
  PROVE  RunOK(p, d)
<1>1. PICK e \in EdgesFrom(p, c) : d = Along(c, e) /\ c.end = Going /\ c.todo = <<>>
  BY DEF Moves
<1>2. Facing(p, c, e)
  BY <1>1 DEF Facing, EdgesFrom
<1>3. [c EXCEPT !.frames[Len(c.frames)].loc = e.to] = Moved(c, e)
  <2>1. Top(c) = c.frames[Len(c.frames)]
    BY DEF Top, Last
  <2>2. QED
    BY <2>1 DEF Moved
<1>4. d = IF e.phi THEN AtOnce(Moved(c, e), e.ins) ELSE [Moved(c, e) EXCEPT !.todo = e.ins]
  BY <1>1, <1>3 DEF Along
<1>5. CASE e.phi
  BY <1>2, <1>4, <1>5, PhiEdgeKeeps
<1>6. CASE ~e.phi
  BY <1>2, <1>4, <1>6, PlainEdgeKeeps DEF IsPlainEdge
<1>7. QED
  BY <1>5, <1>6

-----------------------------------------------------------------------------
(* The theorems                                                            *)

\* A block of a new heap is of zeros.
LEMMA ZeroHeap ==
  ASSUME NEW heap \in Seq(Nat)
  PROVE  [b \in DOMAIN heap |-> [k \in 1 .. heap[b] |-> 0]] \in Heaps
<1>1. PICK n \in Nat : n = Len(heap) /\ DOMAIN heap = 1 .. n /\ heap \in [1 .. n -> Nat]
  BY LenProperties
<1>2. ASSUME NEW b \in 1 .. n PROVE [k \in 1 .. heap[b] |-> 0] \in Seq(Bytes)
  <2>1. PICK m \in Nat : m = heap[b]
    BY <1>1
  <2>2. 0 \in Bytes
    BY DEF Bytes
  <2>3. [k \in 1 .. m |-> 0] \in [1 .. m -> Bytes]
    BY <2>2
  <2>4. QED
    BY <2>1, <2>3, ListOf
<1>3. [b \in 1 .. n |-> [k \in 1 .. heap[b] |-> 0]] \in [1 .. n -> Seq(Bytes)]
  BY <1>2
<1>4. QED
  BY <1>1, <1>3, ListOf DEF Heaps

LEMMA StartFrame ==
  ASSUME NEW p, WellFormed(p), NEW fr,
         fr = [fun |-> p.entry, loc |-> p.fun[p.entry].initial, res |-> Nobody, allocas |-> {},
               regs |-> [r \in DOMAIN p.fun[p.entry].regs |-> Default(p.fun[p.entry].regs[r])]]
  PROVE  FramesOK(p, <<fr>>) /\ fr.loc = p.fun[p.entry].initial
<1>1. PICK f : f = p.fun[p.entry]
  OBVIOUS
<1>2. PICK regs : regs = [r \in DOMAIN f.regs |-> Default(f.regs[r])]
  OBVIOUS
<1>3. WellFormedFunction(f) /\ p.entry \in DOMAIN p.fun
  BY <1>1 DEF WellFormed
<1>4. Holding(f, regs)
  <2>1. \A r \in DOMAIN f.regs : Fits(regs[r], f.regs[r])
    BY <1>2, <1>3, DefaultFits DEF WellFormedFunction
  <2>2. regs = [r \in DOMAIN f.regs |-> regs[r]]
    BY <1>2
  <2>3. QED
    BY <2>1, <2>2 DEF Holding
<1>5. fr = [fun |-> p.entry, loc |-> f.initial, res |-> Nobody, allocas |-> {}, regs |-> regs]
  BY <1>1, <1>2
<1>6. FrameOK(p, fr) /\ fr.fun = p.entry /\ fr.loc = f.initial
  <2>1. fr.fun = p.entry /\ fr.loc = f.initial /\ fr.regs = regs /\ IsFrame(fr)
    BY <1>5 DEF IsFrame
  <2>2. QED
    BY <1>1, <1>3, <1>4, <2>1 DEF FrameOK
<1>7. IsList(<<fr>>) /\ Len(<<fr>>) = 1 /\ <<fr>>[1] = fr
  <2>1. <<fr>> \in Seq({fr})
    OBVIOUS
  <2>2. QED
    BY <2>1, ListIn
<1>8. \A k \in 1 .. 1 : k = 1
  OBVIOUS
<1>9. QED
  BY <1>1, <1>6, <1>7, <1>8 DEF FramesOK

LEMMA StartOK ==
  ASSUME NEW p, WellFormed(p)
  PROVE  RunOK(p, Start(p))
<1>1. PICK fr :
        fr = [fun |-> p.entry, loc |-> p.fun[p.entry].initial, res |-> Nobody, allocas |-> {},
              regs |-> [r \in DOMAIN p.fun[p.entry].regs |-> Default(p.fun[p.entry].regs[r])]]
  OBVIOUS
<1>2. PICK heap : heap = [b \in DOMAIN p.heap |-> [k \in 1 .. p.heap[b] |-> 0]]
  OBVIOUS
<1>3. PICK d : d = Start(p)
  OBVIOUS
<1>4. d = [frames |-> <<fr>>, sp |-> Default(Type("Bool")), heap |-> heap, todo |-> p.init, end |-> Going]
  BY <1>1, <1>2, <1>3 DEF Start
<1>5. d.frames = <<fr>> /\ d.heap = heap /\ d.todo = p.init /\ d.end = Going /\ IsRun(d)
  BY <1>4 DEF IsRun
<1>6. FramesOK(p, d.frames) /\ fr.loc = p.fun[p.entry].initial
  BY <1>1, <1>5, StartFrame
<1>7. d.heap \in Heaps
  BY <1>2, <1>5, ZeroHeap DEF WellFormed
<1>8. d.frames # <<>> /\ Len(d.frames) = 1 /\ Top(d) = fr
  BY <1>5 DEF Top, Last
<1>9. IsList(d.todo) /\ \A k \in 1 .. Len(d.todo) : d.todo[k] \in ToSet(p.init) /\ d.todo[k].op = "Store"
  <2>1. IsList(p.init) /\ \A k \in DOMAIN p.init : Initialises(p.init[k])
    BY DEF WellFormed
  <2>2. DOMAIN p.init = 1 .. Len(p.init)
    BY <2>1, ListFacts
  <2>3. QED
    BY <1>5, <2>1, <2>2 DEF Initialises, ToSet
<1>10. TodoOK(p, d)
  BY <1>8, <1>9 DEF TodoOK, Pending, StackOps
<1>11. SPReady(p, d)
  BY <1>6, <1>8, <1>9 DEF SPReady, Starting
<1>12. EndOK(p, d)
  <2>1. Going.why = "going"
    BY DEF Going
  <2>2. QED
    BY <1>5, <2>1 DEF EndOK
<1>13. QED
  BY <1>3, <1>5, <1>6, <1>7, <1>10, <1>11, <1>12 DEF RunOK

\* The invariant holds of what a run starts with, and every step keeps it: the
\* program stays, and each edge and each instruction leaves values that fit.
LEMMA SoundnessInductive ==
  /\ RunInit => Soundness
  /\ Soundness /\ [RunNext]_runVars => Soundness'
<1>1. RunInit => Soundness
  BY TypedRunOK, StartOK DEF RunInit, Soundness
<1>2. ASSUME Soundness, [RunNext]_runVars
      PROVE  Soundness'
  <2>1. program' = program
    BY <1>2 DEF RunNext, TakeEdge, RunInstruction, runVars
  <2>2. program \in Programs /\ Check(program)
    BY <1>2 DEF Soundness
  <2>3. ASSUME Clean(program)
        PROVE  RunOK(program, run')
    <3>1. RunOK(program, run) /\ Sane(program)
      BY <1>2, <2>2, <2>3, TypedRunOK DEF Soundness, Sane
    <3>2. CASE TakeEdge
      BY <3>1, <3>2, MoveKeeps DEF TakeEdge
    <3>3. CASE RunInstruction
      BY <3>1, <3>3, ExecuteKeeps DEF RunInstruction
    <3>4. CASE UNCHANGED runVars
      BY <3>1, <3>4 DEF runVars
    <3>5. QED
      BY <1>2, <3>2, <3>3, <3>4 DEF RunNext
  <2>4. QED
    BY <2>1, <2>2, <2>3 DEF Soundness
<1>3. QED
  BY <1>1, <1>2

LEMMA SoundnessHolds == RunSpec => []Soundness
<1>1. RunInit => Soundness
  BY SoundnessInductive
<1>2. Soundness /\ [RunNext]_runVars => Soundness'
  BY SoundnessInductive
<1>3. QED
  BY <1>1, <1>2, PTL DEF RunSpec

\* Type preservation, for every set of well-formed programs: the rules of
\* typechecker.cpp and the results of the engine's instructions agree.
THEOREM TypesPreserved == RunSpec => []WellTyped
<1>1. Soundness => WellTyped
  <2>1. SUFFICES ASSUME Soundness, Clean(program), NEW k \in DOMAIN run.frames,
                        NEW r \in DOMAIN run.frames[k].regs
                 PROVE  Fits(run.frames[k].regs[r], program.fun[run.frames[k].fun].regs[r])
    BY DEF WellTyped, Clean
  <2>2. FramesOK(program, run.frames)
    BY <2>1 DEF Soundness, RunOK
  <2>3. k \in 1 .. Len(run.frames)
    BY <2>1, <2>2, ListFacts DEF FramesOK
  <2>4. Holding(program.fun[run.frames[k].fun], run.frames[k].regs)
    BY <2>2, <2>3 DEF FramesOK, FrameOK
  <2>5. QED
    BY <2>1, <2>4 DEF Holding
<1>2. QED
  BY <1>1, SoundnessHolds, PTL

\* Progress, for every set of well-formed programs: an accepted program raises,
\* or leaves what the engine defines, only at the instructions the checker is
\* known to let through.
THEOREM AcceptedProgress == RunSpec => []AcceptedRuns
<1>1. Soundness => AcceptedRuns
  <2>1. ASSUME Soundness, Clean(program) PROVE AcceptedRuns
    BY <2>1 DEF Soundness, RunOK, EndOK, AcceptedRuns
  <2>2. ASSUME ~Clean(program) PROVE AcceptedRuns
    BY <2>2 DEF Clean, AcceptedRuns
  <2>3. QED
    BY <2>1, <2>2
<1>2. QED
  BY <1>1, SoundnessHolds, PTL

=============================================================================
