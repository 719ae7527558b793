---------------------------- MODULE DataPathProofs ----------------------------
(***************************************************************************)
(* The two engines on data: for every width of the words, every layout of  *)
(* the pointers and every constant, they mean the same value until an      *)
(* instruction of Excused.                                                 *)
(***************************************************************************)
EXTENDS DataPath, TLAPS

\* What repeating a step makes of a value exists.
Loop == INSTANCE EnumeratorProofs

-----------------------------------------------------------------------------
(* Powers of two                                                           *)

LEMMA Pow2Exists == Pow2 = [n \in Nat |-> IF n = 0 THEN 1 ELSE 2 * Pow2[n - 1]]
<1> DEFINE step == [v \in Nat |-> 2 * v]
           code(g) == [n \in Nat |-> IF n = 0 THEN 1 ELSE 2 * g[n - 1]]
<1>1. \E f : f = code(f)
  <2>1. step \in Loop!Steps(Nat) /\ 1 \in Nat
    BY DEF Loop!Steps
  <2>2. PICK f : Loop!Repeats(f, Nat, 1, step)
    <3> HIDE DEF step
    <3>1. QED
      BY <2>1, Loop!Iteration
  <2>3. f \in [Nat -> Nat] /\ f[0] = 1
    BY <2>2 DEF Loop!Repeats
  <2>4. ASSUME NEW n \in Nat, n # 0 PROVE f[n] = 2 * f[n - 1]
    <3>1. n \in Nat \ {0} /\ n - 1 \in Nat
      BY <2>4
    <3>2. f[n] = step[f[n - 1]] /\ f[n - 1] \in Nat
      BY <2>2, <2>3, <3>1 DEF Loop!Repeats
    <3>3. QED
      BY <3>2
  <2>5. ASSUME NEW n \in Nat PROVE f[n] = code(f)[n]
    BY <2>3, <2>4
  <2>6. f = code(f)
    <3>1. f = [n \in Nat |-> f[n]] /\ code(f) = [n \in Nat |-> code(f)[n]]
      BY <2>3
    <3> HIDE DEF code
    <3>2. QED
      BY <2>5, <3>1
  <2>7. QED
    BY <2>6
<1>2. Pow2 = CHOOSE g : g = code(g)
  BY DEF Pow2
<1> HIDE DEF code
<1>3. Pow2 = code(Pow2)
  BY <1>1, <1>2
<1>4. QED
  BY <1>3 DEF code

LEMMA SamePow2 == C!Pow2 = Pow2 /\ S!Pow2 = Pow2
  BY DEF Pow2, C!Pow2, S!Pow2

LEMMA SameBits == \A ty : C!Bits(ty) = Bits(ty) /\ S!Bits(ty) = Bits(ty)
  BY DEF Bits, C!Bits, S!Bits, IntOf, C!IntOf, S!IntOf

LEMMA SameWrap == \A x, ty : C!Wrap(x, ty) = Wrap(x, ty) /\ S!Wrap(x, ty) = Wrap(x, ty)
  BY SamePow2, SameBits DEF Wrap, C!Wrap, S!Wrap

LEMMA Pow2Steps == Pow2[0] = 1 /\ \A n \in Nat \ {0} : Pow2[n] = 2 * Pow2[n - 1]
<1>1. ASSUME NEW n \in Nat PROVE Pow2[n] = IF n = 0 THEN 1 ELSE 2 * Pow2[n - 1]
  <2> DEFINE code(g) == [m \in Nat |-> IF m = 0 THEN 1 ELSE 2 * g[m - 1]]
  <2>1. code(Pow2)[n] = IF n = 0 THEN 1 ELSE 2 * Pow2[n - 1]
    OBVIOUS
  <2>2. Pow2 = code(Pow2)
    BY Pow2Exists
  <2> HIDE DEF code
  <2>3. QED
    BY <2>1, <2>2
<1>2. QED
  BY <1>1

LEMMA Pow2Positive == \A n \in Nat : Pow2[n] \in Nat \ {0}
<1> DEFINE Off == {n \in Nat : Pow2[n] \notin Nat \ {0}}
<1>1. SUFFICES ASSUME Off # {} PROVE FALSE
  OBVIOUS
<1>2. PICK m \in Off : \A n \in Off : m <= n
  <2>1. Off \in SUBSET Nat
    OBVIOUS
  <2> HIDE DEF Off
  <2>2. QED
    BY <1>1, <2>1, Loop!LeastNat
<1>3. m # 0
  BY <1>2, Pow2Steps
<1>4. m - 1 \in Nat /\ ~(m <= m - 1) /\ m \in Nat \ {0}
  BY <1>2, <1>3
<1>5. Pow2[m - 1] \in Nat \ {0}
  BY <1>2, <1>4
<1>6. QED
  BY <1>2, <1>4, <1>5, Pow2Steps

LEMMA Regroup ==
  ASSUME NEW a \in Int, NEW b \in Int, NEW c \in Int
  PROVE  a * (b * c) = (a * b) * c /\ a * b = b * a /\ a * (b + c) = a * b + a * c
  OBVIOUS

LEMMA Pow2Sum ==
  ASSUME NEW a \in Nat, NEW b \in Nat
  PROVE  Pow2[a + b] = Pow2[a] * Pow2[b]
<1> DEFINE Off == {n \in Nat : Pow2[n + b] # Pow2[n] * Pow2[b]}
<1>1. SUFFICES ASSUME Off # {} PROVE FALSE
  OBVIOUS
<1>2. PICK m \in Off : \A n \in Off : m <= n
  <2>1. Off \in SUBSET Nat
    OBVIOUS
  <2> HIDE DEF Off
  <2>2. QED
    BY <1>1, <2>1, Loop!LeastNat
<1>3. m # 0
  BY <1>2, Pow2Steps, Pow2Positive
<1>4. m - 1 \in Nat /\ ~(m <= m - 1) /\ m \in Nat \ {0} /\ m + b \in Nat \ {0} /\ (m + b) - 1 = (m - 1) + b
  BY <1>2, <1>3
<1>5. Pow2[(m - 1) + b] = Pow2[m - 1] * Pow2[b]
  BY <1>2, <1>4
<1>6. Pow2[m + b] = 2 * (Pow2[m - 1] * Pow2[b])
  BY <1>4, <1>5, Pow2Steps
<1>7. Pow2[m] * Pow2[b] = 2 * (Pow2[m - 1] * Pow2[b])
  BY <1>4, Pow2Steps, Pow2Positive, Regroup
<1>8. QED
  BY <1>2, <1>6, <1>7

LEMMA Products ==
  ASSUME NEW a \in Nat \ {0}, NEW b \in Nat \ {0}
  PROVE  a * b \in Nat \ {0} /\ a <= a * b /\ b <= a * b
  OBVIOUS

LEMMA Pow2Split ==
  ASSUME NEW a \in Nat, NEW b \in Nat, a <= b
  PROVE  /\ b - a \in Nat /\ Pow2[b] = Pow2[a] * Pow2[b - a]
         /\ Pow2[a] <= Pow2[b]
<1>1. b - a \in Nat /\ a + (b - a) = b
  OBVIOUS
<1>2. Pow2[b] = Pow2[a] * Pow2[b - a]
  BY <1>1, Pow2Sum
<1>3. QED
  BY <1>1, <1>2, Pow2Positive, Products

-----------------------------------------------------------------------------
(* Quotients and remainders                                                *)

LEMMA DivMod ==
  ASSUME NEW a \in Int, NEW m \in Nat \ {0}
  PROVE  a \div m \in Int /\ a % m \in 0 .. m - 1 /\ a = m * (a \div m) + (a % m)
  OBVIOUS

LEMMA Apart ==
  ASSUME NEW m \in Nat \ {0}, NEW p \in Int, NEW q \in Int, p < q
  PROVE  m * p + m <= m * q
<1>1. m * (q - p) >= m
  OBVIOUS
<1>2. m * (q - p) = m * q - m * p
  OBVIOUS
<1>3. QED
  BY <1>1, <1>2

\* A number has one quotient and one remainder.
LEMMA Unique ==
  ASSUME NEW m \in Nat \ {0}, NEW q \in Int, NEW r \in 0 .. m - 1
  PROVE  (m * q + r) \div m = q /\ (m * q + r) % m = r
<1>1. PICK a \in Int : a = m * q + r
  OBVIOUS
<1>2. a \div m \in Int /\ a % m \in 0 .. m - 1 /\ a = m * (a \div m) + (a % m)
  BY DivMod
<1>3. PICK d \in Int, e \in 0 .. m - 1 : d = a \div m /\ e = a % m /\ a = m * d + e
  BY <1>2
<1>4. m * d \in Int /\ m * q \in Int
  OBVIOUS
<1>5. ~(d < q)
  <2>1. d < q => m * d + m <= m * q
    BY Apart
  <2>2. QED
    BY <1>1, <1>3, <1>4, <2>1
<1>6. ~(q < d)
  <2>1. q < d => m * q + m <= m * d
    BY Apart
  <2>2. QED
    BY <1>1, <1>3, <1>4, <2>1
<1>7. d = q
  BY <1>5, <1>6
<1>8. e = r
  BY <1>1, <1>3, <1>4, <1>7
<1>9. QED
  BY <1>1, <1>3, <1>7, <1>8

LEMMA ModSmall ==
  ASSUME NEW m \in Nat \ {0}, NEW a \in 0 .. m - 1
  PROVE  a % m = a /\ a \div m = 0
<1>1. m * 0 + a = a
  OBVIOUS
<1>2. QED
  BY <1>1, Unique

LEMMA ModShift ==
  ASSUME NEW m \in Nat \ {0}, NEW a \in Int, NEW k \in Int
  PROVE  (a + m * k) % m = a % m
<1>1. PICK d \in Int, e \in 0 .. m - 1 : d = a \div m /\ e = a % m /\ a = m * d + e
  BY DivMod
<1>2. PICK q \in Int : q = d + k
  OBVIOUS
<1>3. a + m * k = m * q + e
  BY <1>1, <1>2, Regroup
<1>4. (m * q + e) % m = e
  BY Unique
<1>5. QED
  BY <1>1, <1>3, <1>4

LEMMA DivRange ==
  ASSUME NEW m \in Nat \ {0}, NEW n \in Nat \ {0}, NEW a \in 0 .. (m * n) - 1
  PROVE  a \div m \in 0 .. n - 1
<1>1. PICK d \in Int, e \in 0 .. m - 1 : d = a \div m /\ a = m * d + e
  BY DivMod
<1>2. m * d \in Int /\ m * n \in Int /\ m * 0 = 0
  OBVIOUS
<1>3. ~(d < 0)
  <2>1. d < 0 => m * d + m <= m * 0
    BY Apart
  <2>2. QED
    BY <1>1, <1>2, <2>1
<1>4. ~(n <= d)
  <2>1. n < d => m * n + m <= m * d
    BY Apart
  <2>2. QED
    BY <1>1, <1>2, <2>1
<1>5. QED
  BY <1>1, <1>3, <1>4

\* A part above m: what a number of two parts is bounded by.
LEMMA PairRange ==
  ASSUME NEW m \in Nat \ {0}, NEW n \in Nat \ {0}, NEW q \in 0 .. n - 1, NEW r \in 0 .. m - 1
  PROVE  m * q + r \in 0 .. (m * n) - 1
<1>1. m * q + m <= m * n
  BY Apart
<1>2. m * q \in Nat /\ m * n \in Nat
  OBVIOUS
<1>3. QED
  BY <1>1, <1>2

\* Three fields one above the other, and each taken out again.
Three(l, m, h, x, y, z) == l * (m * z + y) + x

LEMMA Fielded ==
  ASSUME NEW l \in Nat \ {0}, NEW m \in Nat \ {0}, NEW h \in Nat \ {0},
         NEW x \in 0 .. l - 1, NEW y \in 0 .. m - 1, NEW z \in 0 .. h - 1
  PROVE  /\ Three(l, m, h, x, y, z) \in 0 .. (l * (m * h)) - 1
         /\ Three(l, m, h, x, y, z) % l = x
         /\ (Three(l, m, h, x, y, z) \div l) % m = y
         /\ Three(l, m, h, x, y, z) \div (l * m) = z
<1>1. PICK n \in Nat : n = m * z + y
  OBVIOUS
<1>2. n \in 0 .. (m * h) - 1 /\ n % m = y /\ m * h \in Nat \ {0}
  BY <1>1, PairRange, Unique, Products
<1>3. Three(l, m, h, x, y, z) = l * n + x
  BY <1>1 DEF Three
<1>4. l * n + x \in 0 .. (l * (m * h)) - 1
  BY <1>2, PairRange
<1>5. (l * n + x) % l = x /\ (l * n + x) \div l = n
  BY Unique
<1>6. PICK k \in Nat \ {0} : k = l * m
  BY Products
<1>7. PICK r \in Nat : r = l * y + x
  OBVIOUS
<1>8. r \in 0 .. k - 1
  BY <1>6, <1>7, PairRange
<1>9. l * n + x = k * z + r
  BY <1>1, <1>6, <1>7, Regroup
<1>10. (k * z + r) \div k = z
  BY <1>8, Unique
<1>11. QED
  BY <1>2, <1>3, <1>4, <1>5, <1>6, <1>9, <1>10

LEMMA FieldRanges ==
  ASSUME NEW l \in Nat \ {0}, NEW m \in Nat \ {0}, NEW h \in Nat \ {0}, NEW v \in 0 .. (l * (m * h)) - 1
  PROVE  /\ v % l \in 0 .. l - 1
         /\ (v \div l) % m \in 0 .. m - 1
         /\ v \div (l * m) \in 0 .. h - 1
<1>1. PICK k \in Nat \ {0} : k = l * m
  BY Products
<1>2. v \in 0 .. (k * h) - 1
  BY <1>1, Regroup
<1>3. v \div k \in 0 .. h - 1
  BY <1>2, DivRange
<1>4. PICK d \in Int : d = v \div l
  BY DivMod
<1>5. QED
  BY <1>1, <1>3, <1>4, DivMod

-----------------------------------------------------------------------------
(* Words and pointers                                                      *)

WordTypes == IntTypes \cup PtrTypes

LEMMA Widths ==
  /\ \A ty \in IntTypes : Bits(ty) = BitWidth[ty]
  /\ Bits("Pointer") = BitWidth["I64"] /\ Bits("Pointer32") = BitWidth["I32"]
  /\ \A ty \in WordTypes : Bits(ty) \in Nat \ {0}
<1>1. \A ty \in IntTypes : Bits(ty) = BitWidth[ty]
  BY DEF Bits, IntOf, IntTypes
<1>2. Bits("Pointer") = BitWidth["I64"] /\ Bits("Pointer32") = BitWidth["I32"]
  BY DEF Bits, IntOf
<1>3. \A ty \in IntTypes : BitWidth[ty] \in Nat \ {0}
  BY WidthsOK
<1>4. "I64" \in IntTypes /\ "I32" \in IntTypes
  BY DEF IntTypes
<1>5. QED
  BY <1>1, <1>2, <1>3, <1>4 DEF WordTypes, PtrTypes

\* The number of words of a type.
Size(ty) == Pow2[Bits(ty)]

LEMMA Sizes ==
  ASSUME NEW ty \in WordTypes
  PROVE  /\ Size(ty) \in Nat \ {0} /\ Pow2[Bits(ty) - 1] \in Nat \ {0}
         /\ Size(ty) = 2 * Pow2[Bits(ty) - 1]
         /\ Word(ty) = 0 .. Size(ty) - 1 /\ Top(ty) = Size(ty) - 1 /\ Top(ty) \in Word(ty)
         /\ 0 \in Word(ty) /\ 1 \in Word(ty)
         /\ \A x \in Int : Wrap(x, ty) = x % Size(ty) /\ Wrap(x, ty) \in Word(ty)
         /\ \A x \in Word(ty) : Wrap(x, ty) = x
<1>1. Bits(ty) \in Nat \ {0} /\ Bits(ty) - 1 \in Nat
  BY Widths
<1>2. Size(ty) \in Nat \ {0} /\ Pow2[Bits(ty) - 1] \in Nat \ {0} /\ Size(ty) = 2 * Pow2[Bits(ty) - 1]
  BY <1>1, Pow2Positive, Pow2Steps DEF Size
<1>3. Word(ty) = 0 .. Size(ty) - 1 /\ Top(ty) = Size(ty) - 1
  BY DEF Word, Top, Size
<1>4. \A x \in Int : Wrap(x, ty) = x % Size(ty) /\ Wrap(x, ty) \in Word(ty)
  BY <1>2, <1>3, DivMod DEF Wrap, Size
<1>5. ASSUME NEW x \in Word(ty) PROVE Wrap(x, ty) = x
  <2>1. PICK m \in Nat \ {0} : m = Size(ty)
    BY <1>2
  <2>2. x \in 0 .. m - 1 /\ x \in Int
    BY <1>3, <2>1
  <2>3. x % m = x
    BY <2>2, ModSmall
  <2>4. QED
    BY <1>4, <2>1, <2>2, <2>3
<1>6. Top(ty) \in Word(ty) /\ 0 \in Word(ty) /\ 1 \in Word(ty)
  <2>1. PICK m \in Nat \ {0}, h \in Nat \ {0} : m = Size(ty) /\ m = 2 * h
    BY <1>2
  <2>2. QED
    BY <1>3, <2>1
<1>7. QED
  BY <1>2, <1>3, <1>4, <1>5, <1>6

LEMMA Numbers == \A ty \in WordTypes : \A x \in Word(ty) : x \in Nat
<1>1. ASSUME NEW ty \in WordTypes, NEW x \in Word(ty) PROVE x \in Nat
  <2>1. PICK m \in Nat : Word(ty) = 0 .. m - 1
    BY Sizes
  <2>2. QED
    BY <2>1
<1>2. QED
  BY <1>1

\* The number of segments, of bases, of offsets.
Seg(ty) == Pow2[Fields[ty].segment]
Bas(ty) == Pow2[Fields[ty].base]
Off(ty) == Pow2[Fields[ty].offset]

LEMMA Layout ==
  ASSUME NEW ty \in PtrTypes
  PROVE  /\ Fields[ty].segment \in Nat /\ Fields[ty].base \in Nat /\ Fields[ty].offset \in Nat
         /\ Seg(ty) \in Nat \ {0} /\ Bas(ty) \in Nat \ {0} /\ Off(ty) \in Nat \ {0}
         /\ Size(ty) = Seg(ty) * (Bas(ty) * Off(ty)) /\ Size(ty) = Off(ty) * (Bas(ty) * Seg(ty))
         /\ Pow2[Fields[ty].segment + Fields[ty].base] = Seg(ty) * Bas(ty)
         /\ Pow2[Fields[ty].base + Fields[ty].offset] = Off(ty) * Bas(ty)
         /\ PtrRecord(ty) = [segment : 0 .. Seg(ty) - 1, base : 0 .. Bas(ty) - 1, offset : 0 .. Off(ty) - 1]
<1>1. Fields[ty] \in [segment : Nat, base : Nat, offset : Nat]
  BY WidthsOK
<1>2. PICK s \in Nat, b \in Nat, o \in Nat : s = Fields[ty].segment /\ b = Fields[ty].base /\ o = Fields[ty].offset
  BY <1>1
<1>3. Bits(ty) = s + (b + o)
  <2>1. Bits(ty) = s + b + o
    BY <1>2, WidthsOK
  <2>2. QED
    BY <2>1
<1>4. Seg(ty) \in Nat \ {0} /\ Bas(ty) \in Nat \ {0} /\ Off(ty) \in Nat \ {0}
  BY <1>2, Pow2Positive DEF Seg, Bas, Off
<1>5. Pow2[s + b] = Seg(ty) * Bas(ty) /\ Pow2[b + o] = Bas(ty) * Off(ty)
  BY <1>2, Pow2Sum DEF Seg, Bas, Off
<1>6. Size(ty) = Seg(ty) * (Bas(ty) * Off(ty))
  <2>1. PICK n \in Nat : n = b + o
    OBVIOUS
  <2>2. Pow2[s + n] = Seg(ty) * Pow2[n]
    BY <1>2, <2>1, Pow2Sum DEF Seg
  <2>3. QED
    BY <1>3, <1>5, <2>1, <2>2 DEF Size
<1>7. Seg(ty) * (Bas(ty) * Off(ty)) = Off(ty) * (Bas(ty) * Seg(ty)) /\ Bas(ty) * Off(ty) = Off(ty) * Bas(ty)
  BY <1>4, Regroup
<1>8. PtrRecord(ty) = [segment : 0 .. Seg(ty) - 1, base : 0 .. Bas(ty) - 1, offset : 0 .. Off(ty) - 1]
  BY DEF PtrRecord, Seg, Bas, Off
<1>9. QED
  BY <1>2, <1>4, <1>5, <1>6, <1>7, <1>8

LEMMA SameWords ==
  /\ \A ty : C!Word(ty) = Word(ty) /\ S!Word(ty) = Word(ty)
  /\ \A ty : C!Top(ty) = Top(ty) /\ S!Top(ty) = Top(ty)
  /\ \A x, ty : C!Signed(x, ty) = Signed(x, ty) /\ S!Signed(x, ty) = Signed(x, ty)
  /\ \A a, b : C!Towards0(a, b) = Towards0(a, b) /\ S!Towards0(a, b) = Towards0(a, b)
  /\ \A x, n, ty : C!ShiftSigned(x, n, ty) = ShiftSigned(x, n, ty) /\ S!ShiftSigned(x, n, ty) = ShiftSigned(x, n, ty)
<1>1. \A x, ty : C!Signed(x, ty) = Signed(x, ty) /\ S!Signed(x, ty) = Signed(x, ty)
  BY SamePow2, SameBits DEF Signed, C!Signed, S!Signed
<1>2. \A ty : C!Word(ty) = Word(ty) /\ S!Word(ty) = Word(ty) /\ C!Top(ty) = Top(ty) /\ S!Top(ty) = Top(ty)
  BY SamePow2, SameBits DEF Word, C!Word, S!Word, Top, C!Top, S!Top
<1>3. \A a, b : C!Towards0(a, b) = Towards0(a, b) /\ S!Towards0(a, b) = Towards0(a, b)
  BY DEF Towards0, C!Towards0, S!Towards0
<1>4. \A x, n, ty : C!ShiftSigned(x, n, ty) = ShiftSigned(x, n, ty) /\ S!ShiftSigned(x, n, ty) = ShiftSigned(x, n, ty)
  BY <1>1, SamePow2, SameWrap DEF ShiftSigned, C!ShiftSigned, S!ShiftSigned
<1>5. QED
  BY <1>1, <1>2, <1>3, <1>4

LEMMA SameBitwise ==
  ASSUME NEW x, NEW y, NEW ty
  PROVE  /\ C!BitAnd(x, y, ty) = BitAnd(x, y, ty) /\ S!BitAnd(x, y, ty) = BitAnd(x, y, ty)
         /\ C!BitOr(x, y, ty) = BitOr(x, y, ty) /\ S!BitOr(x, y, ty) = BitOr(x, y, ty)
         /\ C!BitXor(x, y, ty) = BitXor(x, y, ty) /\ S!BitXor(x, y, ty) = BitXor(x, y, ty)
<1>1. \A z : C!BitsOf(z, ty) = BitsOf(z, ty) /\ S!BitsOf(z, ty) = BitsOf(z, ty)
  BY SamePow2, SameBits DEF BitsOf, C!BitsOf, S!BitsOf
<1>2. \A B : C!WordOf(B, ty) = WordOf(B, ty) /\ S!WordOf(B, ty) = WordOf(B, ty)
  BY SamePow2, SameBits DEF WordOf, C!WordOf, S!WordOf
<1>3. QED
  BY <1>1, <1>2 DEF BitAnd, C!BitAnd, S!BitAnd, BitOr, C!BitOr, S!BitOr, BitXor, C!BitXor, S!BitXor

-----------------------------------------------------------------------------
(* Pointers in both engines                                                *)

LEMMA ConcretePointer ==
  ASSUME NEW ty \in PtrTypes, NEW p \in PtrRecord(ty)
  PROVE  /\ C!PtrToInt(p, ty) = Three(Seg(ty), Bas(ty), Off(ty), p.segment, p.base, p.offset)
         /\ C!PtrToInt(p, ty) \in Word(ty)
         /\ C!IntToPtr(C!PtrToInt(p, ty), ty) = p
<1>1. p \in [segment : 0 .. Seg(ty) - 1, base : 0 .. Bas(ty) - 1, offset : 0 .. Off(ty) - 1]
  BY Layout
<1>2. PICK s \in 0 .. Seg(ty) - 1, b \in 0 .. Bas(ty) - 1, o \in 0 .. Off(ty) - 1 :
        p = [segment |-> s, base |-> b, offset |-> o]
  BY <1>1
<1>3. PICK l \in Nat \ {0}, m \in Nat \ {0}, h \in Nat \ {0} : l = Seg(ty) /\ m = Bas(ty) /\ h = Off(ty)
  BY Layout
<1>4. s \in 0 .. l - 1 /\ b \in 0 .. m - 1 /\ o \in 0 .. h - 1
  BY <1>2, <1>3
<1>5. C!PtrToInt(p, ty) = Three(l, m, h, s, b, o)
  <2>1. C!PtrToInt(p, ty) = s + l * (b + m * o)
    BY <1>2, <1>3, SamePow2 DEF C!PtrToInt, C!PtrBits, Seg, Bas, Off
  <2>2. s + l * (b + m * o) = l * (m * o + b) + s
    BY <1>4
  <2>3. QED
    BY <2>1, <2>2 DEF Three
<1>6. PICK v : v = Three(l, m, h, s, b, o)
  OBVIOUS
<1>7. v \in 0 .. (l * (m * h)) - 1 /\ v % l = s /\ (v \div l) % m = b /\ v \div (l * m) = o
  BY <1>4, <1>6, Fielded
<1>8. v \in Word(ty) /\ Wrap(v, ty) = v
  <2>1. ty \in WordTypes
    BY DEF WordTypes
  <2>2. Word(ty) = 0 .. (l * (m * h)) - 1
    BY <1>3, <2>1, Sizes, Layout
  <2>3. QED
    BY <1>7, <2>1, <2>2, Sizes
<1>9. C!IntToPtr(v, ty) = [segment |-> v % l, base |-> (v \div l) % m, offset |-> v \div (l * m)]
  BY <1>3, <1>8, SameWrap, SamePow2, Layout DEF C!IntToPtr, C!PtrOfBits, Seg, Bas, Off
<1>10. QED
  BY <1>2, <1>3, <1>5, <1>6, <1>7, <1>8, <1>9

LEMMA SymbolicPointer ==
  ASSUME NEW ty \in PtrTypes, NEW p \in PtrRecord(ty)
  PROVE  /\ S!MakePointer(p, ty) = Three(Off(ty), Bas(ty), Seg(ty), p.offset, p.base, p.segment)
         /\ S!MakePointer(p, ty) \in Word(ty)
         /\ S!SegmentOf(S!MakePointer(p, ty), Fields[ty]) = p.segment
         /\ S!BaseOf(S!MakePointer(p, ty), Fields[ty]) = p.base
         /\ S!OffsetOf(S!MakePointer(p, ty), Fields[ty]) = p.offset
<1>1. p \in [segment : 0 .. Seg(ty) - 1, base : 0 .. Bas(ty) - 1, offset : 0 .. Off(ty) - 1]
  BY Layout
<1>2. PICK s \in 0 .. Seg(ty) - 1, b \in 0 .. Bas(ty) - 1, o \in 0 .. Off(ty) - 1 :
        p = [segment |-> s, base |-> b, offset |-> o]
  BY <1>1
<1>3. PICK l \in Nat \ {0}, m \in Nat \ {0}, h \in Nat \ {0} : l = Off(ty) /\ m = Bas(ty) /\ h = Seg(ty)
  BY Layout
<1>4. s \in 0 .. h - 1 /\ b \in 0 .. m - 1 /\ o \in 0 .. l - 1
  BY <1>2, <1>3
<1>5. S!MakePointer(p, ty) = Three(l, m, h, o, b, s)
  <2>1. S!MakePointer(p, ty) = (s * m + b) * l + o
    BY <1>2, <1>3, SamePow2 DEF S!MakePointer, S!Concat3, Seg, Bas, Off
  <2>2. (s * m + b) * l + o = l * (m * s + b) + o
    BY <1>4
  <2>3. QED
    BY <2>1, <2>2 DEF Three
<1>6. PICK v : v = Three(l, m, h, o, b, s)
  OBVIOUS
<1>7. v \in 0 .. (l * (m * h)) - 1 /\ v % l = o /\ (v \div l) % m = b /\ v \div (l * m) = s
  BY <1>4, <1>6, Fielded
<1>8. Word(ty) = 0 .. (l * (m * h)) - 1
  <2>1. ty \in WordTypes
    BY DEF WordTypes
  <2>2. QED
    BY <1>3, <2>1, Sizes, Layout
<1>9. /\ S!SegmentOf(v, Fields[ty]) = v \div (l * m)
      /\ S!BaseOf(v, Fields[ty]) = (v \div l) % m
      /\ S!OffsetOf(v, Fields[ty]) = v % l
  BY <1>3, SamePow2, Layout DEF S!SegmentOf, S!BaseOf, S!OffsetOf, Seg, Bas, Off
<1>10. QED
  BY <1>2, <1>3, <1>5, <1>6, <1>7, <1>8, <1>9

\* Narrow pointers are pointers.
LEMMA Widened ==
  ASSUME NEW p \in PtrRecord("Pointer32")
  PROVE  /\ p \in PtrRecord("Pointer")
         /\ S!Ptr32ToPtr(S!MakePointer(p, "Pointer32")) = S!MakePointer(p, "Pointer")
<1>1. "Pointer" \in PtrTypes /\ "Pointer32" \in PtrTypes
  BY DEF PtrTypes
<1>2. Seg("Pointer32") <= Seg("Pointer") /\ Bas("Pointer32") <= Bas("Pointer") /\ Off("Pointer32") <= Off("Pointer")
  BY <1>1, WidthsOK, Layout, Pow2Split DEF Seg, Bas, Off
<1>3. p \in PtrRecord("Pointer")
  <2>1. p \in [segment : 0 .. Seg("Pointer32") - 1, base : 0 .. Bas("Pointer32") - 1, offset : 0 .. Off("Pointer32") - 1]
    BY <1>1, Layout
  <2>2. \A ty \in PtrTypes : Seg(ty) \in Nat /\ Bas(ty) \in Nat /\ Off(ty) \in Nat
    BY Layout
  <2>3. p \in [segment : 0 .. Seg("Pointer") - 1, base : 0 .. Bas("Pointer") - 1, offset : 0 .. Off("Pointer") - 1]
    BY <1>1, <1>2, <2>1, <2>2
  <2>4. QED
    BY <1>1, <2>3, Layout
<1>4. S!Ptr32ToPtr(S!MakePointer(p, "Pointer32")) = S!Concat3(p.segment, p.base, p.offset, Fields["Pointer"])
  BY <1>1, SymbolicPointer DEF S!Ptr32ToPtr
<1>5. QED
  BY <1>3, <1>4 DEF S!MakePointer

\* And narrowed again they are the same.
LEMMA Narrowed ==
  ASSUME NEW p \in PtrRecord("Pointer32")
  PROVE  /\ C!PtrToPtr32(C!Ptr32ToPtr(p)) = p
         /\ S!PtrToPtr32(S!MakePointer(p, "Pointer")) = S!MakePointer(p, "Pointer32")
<1>1. "Pointer" \in PtrTypes /\ "Pointer32" \in PtrTypes
  BY DEF PtrTypes
<1>2. PICK s \in 0 .. Seg("Pointer32") - 1, b \in 0 .. Bas("Pointer32") - 1, o \in 0 .. Off("Pointer32") - 1 :
        p = [segment |-> s, base |-> b, offset |-> o]
  <2>1. p \in [segment : 0 .. Seg("Pointer32") - 1, base : 0 .. Bas("Pointer32") - 1, offset : 0 .. Off("Pointer32") - 1]
    BY <1>1, Layout
  <2>2. QED
    BY <2>1
<1>3. s % Seg("Pointer32") = s /\ b % Bas("Pointer32") = b /\ o % Off("Pointer32") = o
  BY <1>1, <1>2, Layout, ModSmall
<1>4. C!PtrToPtr32(C!Ptr32ToPtr(p)) = p
  BY <1>2, <1>3, SamePow2 DEF C!PtrToPtr32, C!Ptr32ToPtr, Seg, Bas, Off
<1>5. S!PtrToPtr32(S!MakePointer(p, "Pointer"))
        = S!Concat3(s % Seg("Pointer32"), b % Bas("Pointer32"), o % Off("Pointer32"), Fields["Pointer32"])
  BY <1>1, <1>2, Widened, SymbolicPointer, SamePow2 DEF S!PtrToPtr32, Seg, Bas, Off
<1>6. QED
  BY <1>2, <1>3, <1>4, <1>5 DEF S!MakePointer

-----------------------------------------------------------------------------
(* Operations on bits                                                      *)

\* The sum of the bits, one bit at a time.
Sums(B, n, g) == [k \in 0 .. n |-> IF k = 0 THEN 0 ELSE g[k - 1] + (IF k - 1 \in B THEN Pow2[k - 1] ELSE 0)]

LEMMA SumExists ==
  ASSUME NEW n \in Nat, NEW B
  PROVE  \E g : g = Sums(B, n, g)
<1> DEFINE S0 == Nat \X Nat
           step == [p \in S0 |-> <<p[1] + 1, p[2] + (IF p[1] \in B THEN Pow2[p[1]] ELSE 0)>>]
           init == <<0, 0>>
<1>1. init \in S0
  OBVIOUS
<1>2. ASSUME NEW p \in S0 PROVE step[p] \in S0
  BY Pow2Positive
<1>3. step \in Loop!Steps(S0)
  BY <1>2 DEF Loop!Steps
<1>4. PICK f : Loop!Repeats(f, S0, init, step)
  <2> HIDE DEF S0, init, step
  <2>1. QED
    BY <1>1, <1>3, Loop!Iteration
<1>5. f \in [Nat -> S0] /\ f[0] = init /\ \A k \in Nat \ {0} : f[k] = step[f[k - 1]]
  BY <1>4 DEF Loop!Repeats
<1>6. ASSUME NEW p \in S0
      PROVE  step[p][1] = p[1] + 1 /\ step[p][2] = p[2] + (IF p[1] \in B THEN Pow2[p[1]] ELSE 0)
  OBVIOUS
<1> HIDE DEF step
<1>7. ASSUME NEW k \in Nat PROVE f[k][1] = k
  <2> DEFINE Outside == {j \in Nat : f[j][1] # j}
  <2>1. SUFFICES ASSUME Outside # {} PROVE FALSE
    OBVIOUS
  <2>2. PICK m \in Outside : \A j \in Outside : m <= j
    <3>1. Outside \in SUBSET Nat
      OBVIOUS
    <3> HIDE DEF Outside
    <3>2. QED
      BY <2>1, <3>1, Loop!LeastNat
  <2>3. m # 0
    BY <1>5, <2>2
  <2>4. m - 1 \in Nat /\ ~(m <= m - 1) /\ m \in Nat \ {0}
    BY <2>2, <2>3
  <2>5. f[m - 1][1] = m - 1 /\ f[m - 1] \in S0
    BY <1>5, <2>2, <2>4
  <2>6. f[m][1] = m - 1 + 1
    BY <1>5, <1>6, <2>4, <2>5
  <2>7. QED
    BY <2>2, <2>4, <2>6
<1> DEFINE g == [k \in 0 .. n |-> f[k][2]]
<1>8. ASSUME NEW k \in 0 .. n PROVE g[k] = Sums(B, n, g)[k]
  <2>1. CASE k = 0
    BY <1>5, <2>1 DEF Sums
  <2>2. CASE k # 0
    <3>1. k - 1 \in 0 .. n /\ k \in Nat \ {0} /\ k - 1 \in Nat
      BY <2>2
    <3>2. f[k - 1] \in S0 /\ f[k - 1][1] = k - 1
      BY <1>5, <1>7, <3>1
    <3>3. f[k][2] = f[k - 1][2] + (IF k - 1 \in B THEN Pow2[k - 1] ELSE 0)
      <4>1. f[k] = step[f[k - 1]]
        BY <1>5, <3>1
      <4>2. QED
        BY <1>6, <3>2, <4>1
    <3>4. Sums(B, n, g)[k] = g[k - 1] + (IF k - 1 \in B THEN Pow2[k - 1] ELSE 0)
      BY <2>2 DEF Sums
    <3>5. QED
      BY <3>1, <3>3, <3>4
  <2>3. QED
    BY <2>1, <2>2
<1>9. g = Sums(B, n, g)
  <2>1. g = [k \in 0 .. n |-> g[k]] /\ Sums(B, n, g) = [k \in 0 .. n |-> Sums(B, n, g)[k]]
    BY DEF Sums
  <2> HIDE DEF g
  <2>2. QED
    BY <1>8, <2>1
<1>10. QED
  BY <1>9

\* Any bits make a word.
LEMMA BitsMakeWord ==
  ASSUME NEW ty \in IntTypes, NEW B
  PROVE  WordOf(B, ty) \in Word(ty)
<1>1. PICK n \in Nat : n = Bits(ty)
  BY Widths DEF WordTypes
<1> DEFINE sum == CHOOSE g : g = Sums(B, n, g)
<1>2. WordOf(B, ty) = sum[n]
  BY <1>1 DEF WordOf, Sums
<1>3. sum = Sums(B, n, sum)
  BY SumExists
<1> HIDE DEF sum
<1>4. sum[0] = 0 /\ \A k \in 1 .. n : sum[k] = sum[k - 1] + (IF k - 1 \in B THEN Pow2[k - 1] ELSE 0)
  BY <1>3 DEF Sums
<1> DEFINE Outside == {k \in 0 .. n : sum[k] \notin 0 .. Pow2[k] - 1}
<1>5. SUFFICES ASSUME Outside # {} PROVE FALSE
  BY <1>1, <1>2 DEF Word
<1>6. PICK m \in Outside : \A k \in Outside : m <= k
  <2>1. Outside \in SUBSET Nat
    OBVIOUS
  <2> HIDE DEF Outside
  <2>2. QED
    BY <1>5, <2>1, Loop!LeastNat
<1>7. m # 0
  BY <1>4, <1>6, Pow2Steps
<1>8. m \in 1 .. n /\ m - 1 \in 0 .. n /\ ~(m <= m - 1) /\ m \in Nat \ {0} /\ m - 1 \in Nat
  BY <1>6, <1>7
<1>9. sum[m - 1] \in 0 .. Pow2[m - 1] - 1
  BY <1>6, <1>8
<1>10. Pow2[m] = 2 * Pow2[m - 1] /\ Pow2[m - 1] \in Nat
  BY <1>8, Pow2Steps, Pow2Positive
<1>11. sum[m] \in 0 .. Pow2[m] - 1
  BY <1>4, <1>8, <1>9, <1>10
<1>12. QED
  BY <1>6, <1>8, <1>11

-----------------------------------------------------------------------------
(* Arithmetic                                                              *)

LEMMA Outcomes ==
  ASSUME NEW v
  PROVE  /\ Value(v) # Raise /\ Value(v)[1] = v
         /\ C!Value(v) = Value(v) /\ S!Value(v) = Value(v) /\ C!Raise = Raise /\ S!Raise = Raise
  BY DEF Value, Raise, C!Value, S!Value, C!Raise, S!Raise

LEMMA SignedRange ==
  ASSUME NEW ty \in IntTypes, NEW x \in Word(ty)
  PROVE  LET h == Pow2[Bits(ty) - 1] IN
         /\ Signed(x, ty) \in -h .. h - 1
         /\ Signed(x, ty) = IF x < h THEN x ELSE x - 2 * h
         /\ (Signed(x, ty) = 0 <=> x = 0)
<1>1. PICK h \in Nat \ {0} : h = Pow2[Bits(ty) - 1] /\ Size(ty) = 2 * h
  BY Sizes DEF WordTypes
<1>2. x \in 0 .. 2 * h - 1
  BY <1>1, Sizes DEF WordTypes
<1>3. Signed(x, ty) = IF x < h THEN x ELSE x - 2 * h
  BY <1>1 DEF Signed, Size
<1>4. QED
  BY <1>1, <1>2, <1>3

LEMMA Negative ==
  ASSUME NEW m \in Nat \ {0}, NEW a \in -m .. -1
  PROVE  a \div m = -1
<1>1. a + m \in 0 .. m - 1 /\ a = m * (-1) + (a + m)
  OBVIOUS
<1>2. PICK r \in 0 .. m - 1 : r = a + m
  BY <1>1
<1>3. (m * (-1) + r) \div m = -1
  BY Unique
<1>4. QED
  BY <1>1, <1>2, <1>3

Shifts == {"LShl", "LShr", "AShr"}

LEMMA Counts ==
  ASSUME NEW ty \in IntTypes, NEW r \in Nat, r < C!CountMod(ty)
  PROVE  r % C!CountMod(ty) = r
<1>1. PICK n \in Nat \ {0} : n = C!CountMod(ty)
  <2>1. Bits("I64") \in Nat \ {0} /\ Bits("I32") \in Nat \ {0}
    BY Widths DEF WordTypes, IntTypes
  <2>2. QED
    BY <2>1, SameBits DEF C!CountMod
<1>2. r \in 0 .. n - 1
  BY <1>1
<1>3. QED
  BY <1>1, <1>2, ModSmall

LEMMA BVCounts ==
  ASSUME NEW ty \in IntTypes, NEW r \in Nat
  PROVE  S!BVCount(r, ty) = IF r < Bits(ty) THEN r ELSE Bits(ty)
  BY SameBits DEF S!BVCount

\* Shifting a word out, by its width or more.
LEMMA ShiftedOut ==
  ASSUME NEW ty \in IntTypes, NEW l \in Word(ty), NEW n \in Nat, n >= Bits(ty)
  PROVE  /\ Wrap(l * Pow2[n], ty) = 0
         /\ l \div Pow2[n] = 0
         /\ Signed(l, ty) \div Pow2[n] = IF Signed(l, ty) < 0 THEN -1 ELSE 0
<1>1. PICK m \in Nat \ {0} : m = Size(ty)
  BY Sizes DEF WordTypes
<1>2. l \in 0 .. m - 1
  BY <1>1, Sizes DEF WordTypes
<1>3. Bits(ty) \in Nat
  BY Widths DEF WordTypes
<1>4. PICK k \in Nat \ {0}, p \in Nat \ {0} : k = Pow2[n - Bits(ty)] /\ p = Pow2[n] /\ p = m * k /\ m <= p
  BY <1>1, <1>3, Pow2Split, Pow2Positive DEF Size
<1>5. Wrap(l * Pow2[n], ty) = 0
  <2>1. PICK j \in Int : j = l * k
    BY <1>2
  <2>2. l * p = m * j + 0
    BY <1>2, <1>4, <2>1, Regroup
  <2>3. 0 \in 0 .. m - 1
    BY <1>1
  <2>4. (m * j + 0) % m = 0
    BY <2>3, Unique
  <2>5. (l * p) % m = 0
    BY <2>2, <2>4
  <2>6. QED
    BY <1>1, <1>4, <2>5 DEF Wrap, Size
<1>6. l \div Pow2[n] = 0
  <2>1. l \in 0 .. p - 1
    BY <1>2, <1>4
  <2>2. QED
    BY <1>4, <2>1, ModSmall
<1>7. Signed(l, ty) \div Pow2[n] = IF Signed(l, ty) < 0 THEN -1 ELSE 0
  <2>1. PICK h \in Nat \ {0} : h = Pow2[Bits(ty) - 1] /\ m = 2 * h
    BY <1>1, Sizes DEF WordTypes
  <2>7. Signed(l, ty) \in -h .. h - 1
    BY <2>1, SignedRange
  <2>8. PICK a \in Int : a = Signed(l, ty) /\ a \in -h .. h - 1
    BY <2>7
  <2>2. a \in -p .. p - 1
    BY <1>4, <2>1, <2>8
  <2>3. CASE a < 0
    <3>1. a \in -p .. -1
      BY <2>2, <2>3
    <3>2. QED
      BY <1>4, <2>8, <2>3, <3>1, Negative
  <2>4. CASE ~(a < 0)
    <3>1. a \in 0 .. p - 1
      BY <2>2, <2>4
    <3>2. QED
      BY <1>4, <2>8, <2>4, <3>1, ModSmall
  <2>5. QED
    BY <2>3, <2>4
<1>8. QED
  BY <1>5, <1>6, <1>7

\* A count below the width of the machine's shift: both engines shift alike.
LEMMA ShiftsAgree ==
  ASSUME NEW ty \in IntTypes, NEW l \in Word(ty), NEW r \in Nat, r < C!CountMod(ty)
  PROVE  LET n == r % C!CountMod(ty)
             k == S!BVCount(r, ty)
         IN  /\ Wrap(l * Pow2[n], ty) = Wrap(l * Pow2[k], ty)
             /\ l \div Pow2[n] = l \div Pow2[k]
             /\ ShiftSigned(l, n, ty) = ShiftSigned(l, k, ty)
<1>1. r % C!CountMod(ty) = r
  BY Counts
<1>2. CASE r < Bits(ty)
  BY <1>1, <1>2, BVCounts
<1>3. CASE ~(r < Bits(ty))
  <2>1. Bits(ty) \in Nat /\ r >= Bits(ty) /\ Bits(ty) >= Bits(ty)
    BY <1>3, Widths DEF WordTypes
  <2>2. S!BVCount(r, ty) = Bits(ty)
    BY <1>3, BVCounts
  <2>3. QED
    BY <1>1, <2>1, <2>2, ShiftedOut DEF ShiftSigned
<1>4. QED
  BY <1>2, <1>3

\* What a shift leaves is a word.
LEMMA ShiftsTyped ==
  ASSUME NEW ty \in IntTypes, NEW l \in Word(ty), NEW n \in Nat
  PROVE  /\ Wrap(l * Pow2[n], ty) \in Word(ty)
         /\ l \div Pow2[n] \in Word(ty)
         /\ ShiftSigned(l, n, ty) \in Word(ty)
<1>1. PICK m \in Nat \ {0} : m = Size(ty)
  BY Sizes DEF WordTypes
<1>2. l \in 0 .. m - 1 /\ Word(ty) = 0 .. m - 1
  BY <1>1, Sizes DEF WordTypes
<1>3. PICK p \in Nat \ {0} : p = Pow2[n]
  BY Pow2Positive
<1>4. l * p \in Int
  BY <1>2
<1>5. Signed(l, ty) \div p \in Int
  <2>1. PICK h \in Nat \ {0} : h = Pow2[Bits(ty) - 1]
    BY Sizes DEF WordTypes
  <2>2. Signed(l, ty) \in -h .. h - 1
    BY <2>1, SignedRange
  <2>3. Signed(l, ty) \in Int
    BY <2>2
  <2>4. QED
    BY <2>3, DivMod
<1>6. l \div p \in 0 .. m - 1
  <2>1. m <= p * m /\ l \in 0 .. (p * m) - 1
    BY <1>2, Products
  <2>2. QED
    BY <2>1, DivRange
<1>7. QED
  BY <1>2, <1>3, <1>4, <1>5, <1>6, Sizes DEF ShiftSigned, WordTypes

\* A quotient is no larger than what is divided, and smaller when the divisor
\* is not 1.
LEMMA Quotients ==
  ASSUME NEW a \in Nat, NEW b \in Nat \ {0}
  PROVE  /\ a \div b \in 0 .. a
         /\ b > 1 /\ a > 0 => a \div b < a
<1>1. PICK d \in Int, e \in 0 .. b - 1 : d = a \div b /\ a = b * d + e
  BY DivMod
<1>2. ~(d < 0)
  <2>1. d < 0 => b * d + b <= b * 0
    BY Apart
  <2>2. b * d \in Int /\ b * 0 = 0
    OBVIOUS
  <2>3. QED
    BY <1>1, <2>1, <2>2
<1>3. d \in Nat
  BY <1>1, <1>2
<1>4. CASE d = 0
  BY <1>1, <1>3, <1>4
<1>5. CASE d # 0
  <2>1. b * d \in Nat /\ d <= b * d
    BY <1>3, <1>5, Products
  <2>2. b > 1 => 2 * d <= b * d
    <3>1. ASSUME b > 1 PROVE (b - 2) * d >= 0 /\ (b - 2) * d = b * d - 2 * d
      BY <1>3, <3>1
    <3>2. QED
      BY <2>1, <1>3, <3>1
  <2>3. QED
    BY <1>1, <1>3, <1>5, <2>1, <2>2
<1>6. QED
  BY <1>4, <1>5

\* Only one division of two signed words leaves their range.
LEMMA Overflows ==
  ASSUME NEW h \in Nat \ {0}, NEW a \in -h .. h - 1, NEW b \in -h .. h - 1, b # 0
  PROVE  Towards0(a, b) \in Int /\ (Towards0(a, b) >= h => a = -h /\ b = -1)
<1>1. PICK A \in Nat : A = (IF a < 0 THEN -a ELSE a) /\ A <= h
  OBVIOUS
<1>2. PICK B \in Nat \ {0} : B = (IF b < 0 THEN -b ELSE b)
  OBVIOUS
<1>3. PICK q \in Int : q = A \div B
  BY DivMod
<1>4. q \in 0 .. A /\ (B > 1 /\ A > 0 => q < A)
  BY <1>3, Quotients
<1>5. Towards0(a, b) = IF (a < 0) = (b < 0) THEN q ELSE -q
  BY <1>1, <1>2, <1>3 DEF Towards0
<1>6. Towards0(a, b) \in Int
  BY <1>5
<1>7. ASSUME Towards0(a, b) >= h PROVE a = -h /\ b = -1
  <2>1. ((a < 0) <=> (b < 0)) /\ q >= h
    <3>1. (a < 0) = (b < 0) \/ -q >= h
      BY <1>5, <1>7
    <3>2. ~(-q >= h)
      BY <1>4
    <3>3. (a < 0) = (b < 0)
      BY <3>1, <3>2
    <3>4. q >= h
      BY <1>5, <1>7, <3>3
    <3>5. QED
      BY <3>3, <3>4
  <2>2. A = h /\ B = 1
    BY <1>1, <1>2, <1>4, <2>1
  <2>3. a < 0
    BY <1>1, <2>2
  <2>4. QED
    BY <1>1, <1>2, <2>1, <2>2, <2>3
<1>8. QED
  BY <1>6, <1>7

LEMMA SDivAgrees ==
  ASSUME NEW ty \in IntTypes, NEW l \in Word(ty), NEW r \in Word(ty)
  PROVE  /\ S!BVSDiv(ty, l, r) \in Word(ty)
         /\ \/ C!SDiv(ty, l, r) = Value(S!BVSDiv(ty, l, r))
            \/ r = 0
            \/ l = Pow2[Bits(ty) - 1] /\ r = Top(ty)
<1>1. PICK h \in Nat \ {0} : h = Pow2[Bits(ty) - 1] /\ Size(ty) = 2 * h /\ Top(ty) = 2 * h - 1
  BY Sizes DEF WordTypes
<1>2. l \in 0 .. 2 * h - 1 /\ r \in 0 .. 2 * h - 1
  BY <1>1, Sizes DEF WordTypes
<1>3. PICK a \in -h .. h - 1 : a = Signed(l, ty) /\ a = IF l < h THEN l ELSE l - 2 * h
  BY <1>1, SignedRange
<1>4. PICK b \in -h .. h - 1 : b = Signed(r, ty) /\ b = (IF r < h THEN r ELSE r - 2 * h) /\ (b = 0 <=> r = 0)
  BY <1>1, SignedRange
<1>5. S!BVSDiv(ty, l, r) = IF b # 0 THEN Wrap(Towards0(a, b), ty) ELSE IF a < 0 THEN 1 ELSE Top(ty)
  BY <1>3, <1>4, SameWords, SameWrap DEF S!BVSDiv
<1>6. b # 0 => Towards0(a, b) \in Int /\ (Towards0(a, b) >= h => a = -h /\ b = -1)
  BY Overflows
<1>7. S!BVSDiv(ty, l, r) \in Word(ty)
  BY <1>5, <1>6, Sizes DEF WordTypes
<1>8. C!SDiv(ty, l, r) = IF b = 0 \/ Towards0(a, b) >= h THEN Raise ELSE Value(Wrap(Towards0(a, b), ty))
  BY <1>1, <1>3, <1>4, SameWords, SameWrap, SamePow2, SameBits, Outcomes DEF C!SDiv
<1>9. CASE b = 0
  BY <1>4, <1>7, <1>9
<1>10. CASE b # 0 /\ ~(Towards0(a, b) >= h)
  BY <1>5, <1>7, <1>8, <1>10
<1>11. CASE b # 0 /\ Towards0(a, b) >= h
  <2>1. a = -h /\ b = -1
    BY <1>6, <1>11
  <2>2. l = h /\ r = 2 * h - 1
    BY <1>2, <1>3, <1>4, <2>1
  <2>3. QED
    BY <1>1, <1>7, <2>2
<1>12. QED
  BY <1>9, <1>10, <1>11

LEMMA UDivAgrees ==
  ASSUME NEW ty \in IntTypes, NEW l \in Word(ty), NEW r \in Word(ty)
  PROVE  /\ S!BVUDiv(ty, l, r) \in Word(ty)
         /\ r # 0 /\ ty # "I8" => C!UDiv(ty, l, r) = {Value(S!BVUDiv(ty, l, r))}
<1>1. PICK m \in Nat \ {0} : m = Size(ty) /\ Top(ty) = m - 1 /\ Word(ty) = 0 .. m - 1
  BY Sizes DEF WordTypes
<1>2. S!BVUDiv(ty, l, r) = IF r = 0 THEN Top(ty) ELSE l \div r
  BY SameWords DEF S!BVUDiv
<1>3. CASE r = 0
  BY <1>1, <1>2, <1>3
<1>4. CASE r # 0
  <2>1. r \in Nat \ {0} /\ l \in Nat
    BY <1>1, <1>4
  <2>2. l \div r \in 0 .. l
    BY <2>1, Quotients
  <2>3. l \div r \in 0 .. m - 1
    BY <1>1, <2>1, <2>2
  <2>4. QED
    BY <1>1, <1>2, <1>4, <2>3, Outcomes DEF C!UDiv
<1>5. QED
  BY <1>3, <1>4

\* Where an operation may differ.
TacGap(op, ty, l, r) ==
  \/ op \in Shifts /\ r >= C!CountMod(ty)
  \/ op = "UDiv" /\ (r = 0 \/ ty = "I8")
  \/ op = "SDiv" /\ (r = 0 \/ (l = Pow2[Bits(ty) - 1] /\ r = Top(ty)))

LEMMA TacAgrees ==
  ASSUME NEW ty \in IntTypes, NEW l \in Word(ty), NEW r \in Word(ty), NEW op \in TAC
  PROVE  /\ S!SmtTAC(op, ty, l, r) \in Word(ty)
         /\ \A c \in C!HostTAC(op, ty, l, r) : c = Value(S!SmtTAC(op, ty, l, r)) \/ TacGap(op, ty, l, r)
<1> DEFINE s == S!SmtTAC(op, ty, l, r)
           cs == C!HostTAC(op, ty, l, r)
           n == r % C!CountMod(ty)
           k == S!BVCount(r, ty)
<1>1. PICK m \in Nat \ {0} : m = Size(ty) /\ Word(ty) = 0 .. m - 1
  BY Sizes DEF WordTypes
<1>2. l \in Int /\ r \in Nat /\ l + r \in Int /\ l - r \in Int /\ l * r \in Int
  BY <1>1
<1>3. CASE op = "Add"
  <2>1. s = Wrap(l + r, ty) /\ cs = {Value(s)}
    BY <1>3, SameWrap, Outcomes DEF S!SmtTAC, C!HostTAC
  <2>2. QED
    BY <1>2, <2>1, Sizes DEF WordTypes
<1>4. CASE op = "Sub"
  <2>1. s = Wrap(l - r, ty) /\ cs = {Value(s)}
    BY <1>4, SameWrap, Outcomes DEF S!SmtTAC, C!HostTAC
  <2>2. QED
    BY <1>2, <2>1, Sizes DEF WordTypes
<1>5. CASE op = "Mul"
  <2>1. s = Wrap(l * r, ty) /\ cs = {Value(s)}
    BY <1>5, SameWrap, Outcomes DEF S!SmtTAC, C!HostTAC
  <2>2. QED
    BY <1>2, <2>1, Sizes DEF WordTypes
<1>6. CASE op = "UDiv"
  <2>1. s = S!BVUDiv(ty, l, r) /\ cs = C!UDiv(ty, l, r)
    BY <1>6 DEF S!SmtTAC, C!HostTAC
  <2>2. r # 0 /\ ty # "I8" => cs = {Value(s)}
    BY <2>1, UDivAgrees
  <2>3. QED
    BY <1>6, <2>1, <2>2, UDivAgrees DEF TacGap
<1>7. CASE op = "SDiv"
  <2>1. s = S!BVSDiv(ty, l, r) /\ cs = {C!SDiv(ty, l, r)}
    BY <1>7 DEF S!SmtTAC, C!HostTAC
  <2>2. QED
    BY <1>7, <2>1, SDivAgrees DEF TacGap
<1>8. k \in Nat
  <2>1. Bits(ty) \in Nat
    BY Widths DEF WordTypes
  <2>2. QED
    BY <1>2, <2>1, BVCounts
<1>9. CASE op = "LShl"
  <2>1. s = Wrap(l * Pow2[k], ty) /\ cs = {Value(Wrap(l * Pow2[n], ty))}
    BY <1>9, SameWrap, SamePow2, Outcomes DEF S!SmtTAC, C!HostTAC
  <2>2. ~(r >= C!CountMod(ty)) => cs = {Value(s)}
    <3>1. C!CountMod(ty) \in Nat
      BY SameBits, Widths DEF C!CountMod, WordTypes, IntTypes
    <3>2. QED
      BY <1>2, <2>1, <3>1, ShiftsAgree
  <2>3. QED
    BY <1>8, <1>9, <2>1, <2>2, ShiftsTyped DEF TacGap, Shifts
<1>10. CASE op = "LShr"
  <2>1. s = l \div Pow2[k] /\ cs = {Value(l \div Pow2[n])}
    BY <1>10, SamePow2, Outcomes DEF S!SmtTAC, C!HostTAC
  <2>2. ~(r >= C!CountMod(ty)) => cs = {Value(s)}
    <3>1. C!CountMod(ty) \in Nat
      BY SameBits, Widths DEF C!CountMod, WordTypes, IntTypes
    <3>2. QED
      BY <1>2, <2>1, <3>1, ShiftsAgree
  <2>3. QED
    BY <1>8, <1>10, <2>1, <2>2, ShiftsTyped DEF TacGap, Shifts
<1>11. CASE op = "AShr"
  <2>1. s = ShiftSigned(l, k, ty) /\ cs = {Value(ShiftSigned(l, n, ty))}
    BY <1>11, SameWords, Outcomes DEF S!SmtTAC, C!HostTAC
  <2>2. ~(r >= C!CountMod(ty)) => cs = {Value(s)}
    <3>1. C!CountMod(ty) \in Nat
      BY SameBits, Widths DEF C!CountMod, WordTypes, IntTypes
    <3>2. QED
      BY <1>2, <2>1, <3>1, ShiftsAgree
  <2>3. QED
    BY <1>8, <1>11, <2>1, <2>2, ShiftsTyped DEF TacGap, Shifts
<1>12. CASE op = "And"
  <2>1. s = BitAnd(l, r, ty) /\ cs = {Value(s)}
    BY <1>12, SameBitwise, Outcomes DEF S!SmtTAC, C!HostTAC
  <2>2. QED
    BY <2>1, BitsMakeWord DEF BitAnd
<1>13. CASE op = "Or"
  <2>1. s = BitOr(l, r, ty) /\ cs = {Value(s)}
    BY <1>13, SameBitwise, Outcomes DEF S!SmtTAC, C!HostTAC
  <2>2. QED
    BY <2>1, BitsMakeWord DEF BitOr
<1>14. CASE op = "Xor"
  <2>1. s = BitXor(l, r, ty) /\ cs = {Value(s)}
    BY <1>14, SameBitwise, Outcomes DEF S!SmtTAC, C!HostTAC
  <2>2. QED
    BY <2>1, BitsMakeWord DEF BitXor
<1>15. QED
  BY <1>3, <1>4, <1>5, <1>6, <1>7, <1>9, <1>10, <1>11, <1>12, <1>13, <1>14 DEF TAC

\* Comparisons: one of them reads the wrong flag.
LEMMA CmpAgrees ==
  ASSUME NEW ty \in WordTypes, NEW l \in Word(ty), NEW r \in Word(ty), NEW op \in CMP
  PROVE  /\ C!HostCMP(op, ty, l, r) \in BOOLEAN /\ S!SmtCMP(op, ty, l, r) \in BOOLEAN
         /\ C!HostCMP(op, ty, l, r) # S!SmtCMP(op, ty, l, r) => op = "ULe" /\ l # r
<1>1. C!Signed(l, ty) = Signed(l, ty) /\ S!Signed(l, ty) = Signed(l, ty)
      /\ C!Signed(r, ty) = Signed(r, ty) /\ S!Signed(r, ty) = Signed(r, ty)
  BY SameWords
<1>2. l \in Int /\ r \in Int
  BY Numbers
<1>3. CASE op = "ULe"
  BY <1>2, <1>3 DEF C!HostCMP, S!SmtCMP
<1>4. CASE op # "ULe"
  <2>1. CASE op = "SGt"
    BY <1>1, <1>2, <2>1 DEF C!HostCMP, S!SmtCMP
  <2>2. CASE op = "UGt"
    BY <1>1, <1>2, <2>2 DEF C!HostCMP, S!SmtCMP
  <2>3. CASE op = "SGe"
    BY <1>1, <1>2, <2>3 DEF C!HostCMP, S!SmtCMP
  <2>4. CASE op = "UGe"
    BY <1>1, <1>2, <2>4 DEF C!HostCMP, S!SmtCMP
  <2>5. CASE op = "SLt"
    BY <1>1, <1>2, <2>5 DEF C!HostCMP, S!SmtCMP
  <2>6. CASE op = "ULt"
    BY <1>1, <1>2, <2>6 DEF C!HostCMP, S!SmtCMP
  <2>7. CASE op = "SLe"
    BY <1>1, <1>2, <2>7 DEF C!HostCMP, S!SmtCMP
  <2>8. CASE op = "Eq"
    BY <1>1, <1>2, <2>8 DEF C!HostCMP, S!SmtCMP
  <2>9. CASE op = "NEq"
    BY <1>1, <1>2, <2>9 DEF C!HostCMP, S!SmtCMP
  <2>10. QED
    BY <1>4, <2>1, <2>2, <2>3, <2>4, <2>5, <2>6, <2>7, <2>8, <2>9 DEF CMP
<1>5. QED
  BY <1>3, <1>4

-----------------------------------------------------------------------------
(* Pointers compared, moved and cast                                       *)

\* Pointers into one block are ordered by their offsets.
LEMMA Ordered ==
  ASSUME NEW l \in Nat \ {0}, NEW m \in Nat \ {0}, NEW s \in Nat, NEW b \in Nat, NEW o \in Nat, NEW n \in Nat, o < n
  PROVE  l * (m * o + b) + s < l * (m * n + b) + s
<1>1. m * o + m <= m * n
  BY Apart
<1>2. PICK x \in Nat, y \in Nat : x = m * o + b /\ y = m * n + b
  OBVIOUS
<1>3. x < y
  <2>1. m * o \in Nat /\ m * n \in Nat
    OBVIOUS
  <2>2. QED
    BY <1>1, <1>2, <2>1
<1>4. l * x + l <= l * y
  BY <1>3, Apart
<1>5. l * x \in Nat /\ l * y \in Nat
  OBVIOUS
<1>6. QED
  BY <1>2, <1>4, <1>5

LEMMA SameBlock ==
  ASSUME NEW ty \in PtrTypes, NEW p \in PtrRecord(ty), NEW q \in PtrRecord(ty),
         p.segment = q.segment, p.base = q.base, p.offset < q.offset
  PROVE  /\ C!PtrToInt(p, ty) < C!PtrToInt(q, ty)
         /\ S!MakePointer(p, ty) < S!MakePointer(q, ty)
<1>1. PICK l \in Nat \ {0}, m \in Nat \ {0}, h \in Nat \ {0} : l = Seg(ty) /\ m = Bas(ty) /\ h = Off(ty)
  BY Layout
<1>2. PtrRecord(ty) = [segment : 0 .. l - 1, base : 0 .. m - 1, offset : 0 .. h - 1]
  BY <1>1, Layout
<1>3. PICK s \in 0 .. l - 1, b \in 0 .. m - 1, o \in 0 .. h - 1 : s = p.segment /\ b = p.base /\ o = p.offset
  BY <1>2
<1>4. PICK n \in 0 .. h - 1 : n = q.offset
  BY <1>2
<1>5. C!PtrToInt(p, ty) < C!PtrToInt(q, ty)
  <2>1. C!PtrToInt(p, ty) = l * (m * o + b) + s /\ C!PtrToInt(q, ty) = l * (m * n + b) + s
    BY <1>1, <1>3, <1>4, ConcretePointer DEF Three
  <2>2. QED
    BY <1>3, <1>4, <2>1, Ordered
<1>6. S!MakePointer(p, ty) < S!MakePointer(q, ty)
  <2>1. PICK x \in Nat : x = h * (m * s + b)
    OBVIOUS
  <2>2. S!MakePointer(p, ty) = x + o /\ S!MakePointer(q, ty) = x + n
    BY <1>1, <1>3, <1>4, <2>1, SymbolicPointer DEF Three
  <2>3. QED
    BY <1>3, <1>4, <2>2
<1>7. QED
  BY <1>5, <1>6

\* Where a comparison of two pointers may differ.
PtrCmpGap(op, p, q) ==
  \/ op = "ULe" /\ p # q
  \/ /\ op \in CMP \ {"Eq", "NEq"} /\ p # q
     /\ op \in {"SGt", "SGe", "SLt", "SLe"} \/ p.segment # q.segment \/ p.base # q.base

LEMMA PtrCmpAgrees ==
  ASSUME NEW ty \in PtrTypes, NEW p \in PtrRecord(ty), NEW q \in PtrRecord(ty), NEW op \in CMP
  PROVE  LET host == C!HostCMP(op, ty, C!PtrToInt(p, ty), C!PtrToInt(q, ty))
             smt  == S!SmtCMP(op, ty, S!MakePointer(p, ty), S!MakePointer(q, ty))
         IN  host \in BOOLEAN /\ smt \in BOOLEAN /\ (host # smt => PtrCmpGap(op, p, q))
<1>1. PICK x \in Word(ty), y \in Word(ty) : x = C!PtrToInt(p, ty) /\ y = C!PtrToInt(q, ty)
  BY ConcretePointer
<1>2. PICK u \in Word(ty), v \in Word(ty) : u = S!MakePointer(p, ty) /\ v = S!MakePointer(q, ty)
  BY SymbolicPointer
<1>3. ty \in WordTypes /\ x \in Int /\ y \in Int /\ u \in Int /\ v \in Int
  <2>1. ty \in WordTypes
    BY DEF WordTypes
  <2>2. QED
    BY <2>1, Numbers
<1>4. C!HostCMP(op, ty, x, y) \in BOOLEAN /\ S!SmtCMP(op, ty, u, v) \in BOOLEAN
  BY <1>3, CmpAgrees
<1>5. CASE p = q
  <2>1. x = y /\ u = v
    BY <1>1, <1>2, <1>5
  <2>2. PICK a \in Int, b \in Int : a = Signed(x, ty) /\ b = Signed(u, ty)
    <3>1. \A z \in Word(ty) : Signed(z, ty) \in Int
      <4>1. Size(ty) \in Int /\ \A z \in Word(ty) : z \in Int
        BY <1>3, Sizes
      <4>2. QED
        BY <4>1 DEF Signed, Size
    <3>2. QED
      BY <3>1
  <2>3. C!Signed(x, ty) = a /\ S!Signed(u, ty) = b
    BY <2>2, SameWords
  <2>4. C!HostCMP(op, ty, x, x) = (op \in {"SGe", "UGe", "SLe", "ULe", "Eq"})
    BY <1>3, <2>2, <2>3 DEF C!HostCMP, CMP
  <2>5. S!SmtCMP(op, ty, u, u) = (op \in {"SGe", "UGe", "SLe", "ULe", "Eq"})
    BY <1>3, <2>2, <2>3 DEF S!SmtCMP, CMP
  <2>6. QED
    BY <1>1, <1>2, <1>4, <2>1, <2>4, <2>5
<1>6. CASE p # q
  <2>1. x # y
    BY <1>1, <1>6, ConcretePointer
  <2>2. u # v
    <3>1. PtrRecord(ty) = [segment : 0 .. Seg(ty) - 1, base : 0 .. Bas(ty) - 1, offset : 0 .. Off(ty) - 1]
      BY Layout
    <3>2. p.segment # q.segment \/ p.base # q.base \/ p.offset # q.offset
      BY <1>6, <3>1
    <3>3. QED
      BY <1>2, <3>2, SymbolicPointer
  <2>3. CASE op = "Eq" \/ op = "NEq"
    BY <1>1, <1>2, <1>4, <2>1, <2>2, <2>3 DEF C!HostCMP, S!SmtCMP
  <2>4. CASE op \in {"UGt", "UGe", "ULt"} /\ p.segment = q.segment /\ p.base = q.base
    <3>1. p.offset < q.offset \/ q.offset < p.offset
      <4>1. PtrRecord(ty) = [segment : 0 .. Seg(ty) - 1, base : 0 .. Bas(ty) - 1, offset : 0 .. Off(ty) - 1]
        BY Layout
      <4>2. p.offset # q.offset
        BY <1>6, <2>4, <4>1
      <4>3. p.offset \in Int /\ q.offset \in Int
        BY <4>1
      <4>4. QED
        BY <4>2, <4>3
    <3>2. (x < y /\ u < v) \/ (y < x /\ v < u)
      BY <1>1, <1>2, <2>4, <3>1, SameBlock
    <3>3. QED
      BY <1>1, <1>2, <1>3, <1>4, <2>4, <3>2 DEF C!HostCMP, S!SmtCMP
  <2>5. CASE ~(op \in {"Eq", "NEq"}) /\ ~(op \in {"UGt", "UGe", "ULt"} /\ p.segment = q.segment /\ p.base = q.base)
    BY <1>1, <1>2, <1>4, <1>6, <2>5 DEF PtrCmpGap, CMP
  <2>6. QED
    BY <2>3, <2>4, <2>5
<1>7. QED
  BY <1>5, <1>6

\* Pointer arithmetic: both engines move the offset, until it carries.
LEMMA MovesAgree ==
  ASSUME NEW p \in PtrRecord("Pointer"), NEW skip \in Nat, NEW x, x = S!MakePointer(p, "Pointer")
  PROVE  /\ C!PtrAdd(p, skip) \in PtrRecord("Pointer") /\ S!PtrAdd(x, skip) \in Word("Pointer")
         /\ C!PtrSub(p, skip) \in PtrRecord("Pointer") /\ S!PtrSub(x, skip) \in Word("Pointer")
         /\ p.offset + skip < Off("Pointer") => S!MakePointer(C!PtrAdd(p, skip), "Pointer") = S!PtrAdd(x, skip)
         /\ p.offset >= skip => S!MakePointer(C!PtrSub(p, skip), "Pointer") = S!PtrSub(x, skip)
<1>1. "Pointer" \in PtrTypes /\ "Pointer" \in WordTypes
  BY DEF PtrTypes, WordTypes
<1>2. PICK l \in Nat \ {0}, m \in Nat \ {0}, h \in Nat \ {0} : l = Off("Pointer") /\ m = Bas("Pointer") /\ h = Seg("Pointer")
  BY <1>1, Layout
<1>3. PtrRecord("Pointer") = [segment : 0 .. h - 1, base : 0 .. m - 1, offset : 0 .. l - 1]
  BY <1>1, <1>2, Layout
<1>4. PICK s \in 0 .. h - 1, b \in 0 .. m - 1, o \in 0 .. l - 1 : p = [segment |-> s, base |-> b, offset |-> o]
  <2>1. p \in [segment : 0 .. h - 1, base : 0 .. m - 1, offset : 0 .. l - 1]
    BY <1>3
  <2>2. QED
    BY <2>1
<1>5. PICK n \in Nat : n = l * (m * s + b)
  BY <1>4
<1>6. ASSUME NEW k \in 0 .. l - 1
      PROVE  /\ [p EXCEPT !.offset = k] \in PtrRecord("Pointer")
             /\ S!MakePointer([p EXCEPT !.offset = k], "Pointer") = n + k
             /\ n + k \in Word("Pointer")
  <2>1. PICK q \in PtrRecord("Pointer") : q = [p EXCEPT !.offset = k] /\ q.segment = s /\ q.base = b /\ q.offset = k
    <3>1. [p EXCEPT !.offset = k] = [segment |-> s, base |-> b, offset |-> k]
      BY <1>4
    <3>2. [segment |-> s, base |-> b, offset |-> k] \in PtrRecord("Pointer")
      BY <1>3
    <3>3. QED
      BY <3>1, <3>2
  <2>2. S!MakePointer(q, "Pointer") = Three(l, m, h, k, b, s) /\ S!MakePointer(q, "Pointer") \in Word("Pointer")
    BY <1>1, <1>2, <2>1, SymbolicPointer
  <2>3. Three(l, m, h, k, b, s) = n + k
    BY <1>5 DEF Three
  <2>4. QED
    BY <2>1, <2>2, <2>3
<1>7. x = n + o
  <2>1. [p EXCEPT !.offset = o] = p
    BY <1>4
  <2>2. QED
    BY <1>6, <2>1
<1>8. C!PtrAdd(p, skip) = [p EXCEPT !.offset = (o + skip) % l] /\ C!PtrSub(p, skip) = [p EXCEPT !.offset = (o - skip) % l]
  BY <1>2, <1>4, SamePow2 DEF C!PtrAdd, C!PtrSub, Off
<1>9. S!PtrAdd(n + o, skip) = Wrap(n + o + skip, "Pointer") /\ S!PtrSub(n + o, skip) = Wrap(n + o - skip, "Pointer")
  BY SameWrap DEF S!PtrAdd, S!PtrSub
<1>10. (o + skip) % l \in 0 .. l - 1 /\ (o - skip) % l \in 0 .. l - 1
  <2>1. PICK y \in Int, z \in Int : y = o + skip /\ z = o - skip
    BY <1>4
  <2>2. QED
    BY <2>1, DivMod
<1>11. Wrap(n + o + skip, "Pointer") \in Word("Pointer") /\ Wrap(n + o - skip, "Pointer") \in Word("Pointer")
  <2>1. n + o + skip \in Int /\ n + o - skip \in Int
    BY <1>4, <1>5
  <2>2. QED
    BY <1>1, <2>1, Sizes
<1>12. ASSUME o + skip < l PROVE S!MakePointer(C!PtrAdd(p, skip), "Pointer") = S!PtrAdd(n + o, skip)
  <2>1. PICK k \in 0 .. l - 1 : k = o + skip
    BY <1>4, <1>12
  <2>2. k % l = k
    BY ModSmall
  <2>3. n + o + skip = n + k
    BY <1>4, <1>5, <2>1
  <2>4. Wrap(n + k, "Pointer") = n + k
    BY <1>1, <1>6, Sizes
  <2>5. QED
    BY <1>6, <1>8, <1>9, <2>1, <2>2, <2>3, <2>4
<1>13. ASSUME o >= skip PROVE S!MakePointer(C!PtrSub(p, skip), "Pointer") = S!PtrSub(n + o, skip)
  <2>1. PICK k \in 0 .. l - 1 : k = o - skip
    BY <1>4, <1>13
  <2>2. k % l = k
    BY ModSmall
  <2>3. n + o - skip = n + k
    BY <1>4, <1>5, <2>1
  <2>4. Wrap(n + k, "Pointer") = n + k
    BY <1>1, <1>6, Sizes
  <2>5. QED
    BY <1>6, <1>8, <1>9, <2>1, <2>2, <2>3, <2>4
<1>14. QED
  BY <1>2, <1>4, <1>6, <1>7, <1>8, <1>9, <1>10, <1>11, <1>12, <1>13

\* Wider types have more words.
LEMMA Wider ==
  ASSUME NEW from \in IntTypes, NEW to \in IntTypes, Bits(to) >= Bits(from)
  PROVE  Size(from) <= Size(to) /\ Word(from) \subseteq Word(to)
<1>1. Bits(from) \in Nat /\ Bits(to) \in Nat
  BY Widths DEF WordTypes
<1>2. Size(from) <= Size(to)
  BY <1>1, Pow2Split DEF Size
<1>3. PICK m \in Nat, n \in Nat : m = Size(from) /\ n = Size(to)
  BY Sizes DEF WordTypes
<1>4. Word(from) = 0 .. m - 1 /\ Word(to) = 0 .. n - 1
  BY <1>3, Sizes DEF WordTypes
<1>5. QED
  BY <1>2, <1>3, <1>4

LEMMA CastsAgree ==
  ASSUME NEW from \in IntTypes, NEW to \in IntTypes, NEW x \in Word(from)
  PROVE  /\ C!Trunc(x, to) = S!Trunc(x, to) /\ S!Trunc(x, to) \in Word(to)
         /\ Bits(to) >= Bits(from) =>
              /\ C!ZExt(x, from, to) = S!ZExt(x, from, to) /\ S!ZExt(x, from, to) \in Word(to)
              /\ C!SExt(x, from, to) = S!SExt(x, from, to) /\ S!SExt(x, from, to) \in Word(to)
<1>1. PICK m \in Nat \ {0}, h \in Nat \ {0} : m = Size(from) /\ h = Pow2[Bits(from) - 1] /\ m = 2 * h /\ Word(from) = 0 .. m - 1
  BY Sizes DEF WordTypes
<1>2. x \in 0 .. m - 1 /\ x \in Int
  BY <1>1
<1>3. C!Trunc(x, to) = S!Trunc(x, to) /\ S!Trunc(x, to) \in Word(to)
  BY <1>2, SamePow2, SameBits, SameWrap, Sizes DEF C!Trunc, S!Trunc, WordTypes, Size
<1>4. ASSUME Bits(to) >= Bits(from)
      PROVE  C!ZExt(x, from, to) = S!ZExt(x, from, to) /\ S!ZExt(x, from, to) \in Word(to)
  BY <1>4, Wider DEF C!ZExt, S!ZExt
<1>5. ASSUME Bits(to) >= Bits(from)
      PROVE  C!SExt(x, from, to) = S!SExt(x, from, to) /\ S!SExt(x, from, to) \in Word(to)
  <2>1. PICK n \in Nat \ {0} : n = Size(to) /\ m <= n /\ Word(to) = 0 .. n - 1
    <3>1. Size(from) <= Size(to)
      BY <1>5, Wider
    <3>2. Size(to) \in Nat \ {0} /\ Word(to) = 0 .. Size(to) - 1
      BY Sizes DEF WordTypes
    <3>3. QED
      BY <1>1, <3>1, <3>2
  <2>2. C!SExt(x, from, to) = (IF x < h THEN x ELSE x - m) % n
    <3>1. C!SExt(x, from, to) = Wrap(Signed(x, from), to)
      BY SameWords, SameWrap DEF C!SExt
    <3>2. Signed(x, from) = IF x < h THEN x ELSE x - m
      BY <1>1 DEF Signed, Size
    <3>3. QED
      BY <2>1, <3>1, <3>2 DEF Wrap, Size
  <2>3. S!SExt(x, from, to) = IF x < h THEN x ELSE x + n - m
    BY <1>1, <2>1, SamePow2, SameBits DEF S!SExt, Size
  <2>4. CASE x < h
    <3>1. x \in 0 .. n - 1
      BY <1>2, <2>1
    <3>2. x % n = x
      BY <3>1, ModSmall
    <3>3. QED
      BY <2>1, <2>2, <2>3, <2>4, <3>1, <3>2
  <2>5. CASE ~(x < h)
    <3>1. PICK k \in 0 .. n - 1 : k = x + n - m
      <4>1. x + n - m \in 0 .. n - 1
        <5>1. x \in Int /\ x <= m - 1 /\ m = 2 * h /\ ~(x < h) /\ m <= n
          BY <1>1, <1>2, <2>1, <2>5
        <5>2. x \in 0 .. m - 1 /\ n - m \in Nat
          BY <1>2, <5>1
        <5>3. QED
          BY <5>1, <5>2
      <4>2. QED
        BY <4>1
    <3>2. x - m = n * (-1) + k
      BY <1>2, <2>1, <3>1
    <3>3. (n * (-1) + k) % n = k
      BY Unique
    <3>4. QED
      BY <2>1, <2>2, <2>3, <2>5, <3>1, <3>2, <3>3
  <2>6. QED
    BY <2>4, <2>5
<1>6. QED
  BY <1>3, <1>4, <1>5

LEMMA PointerOfWord ==
  ASSUME NEW from \in IntTypes, NEW x \in Word(from), NEW to \in PtrTypes
  PROVE  /\ C!IntToPtr(x, to) \in PtrRecord(to) /\ S!IntToPtr(x, to) \in Word(to)
         /\ x = 0 => S!MakePointer(C!IntToPtr(x, to), to) = S!IntToPtr(x, to)
<1>1. PICK l \in Nat \ {0}, m \in Nat \ {0}, h \in Nat \ {0} : l = Seg(to) /\ m = Bas(to) /\ h = Off(to)
  BY Layout
<1>2. to \in WordTypes /\ x \in Int
  BY Sizes DEF WordTypes
<1>3. PICK v \in Word(to) : v = Wrap(x, to)
  BY <1>2, Sizes
<1>4. Word(to) = 0 .. (l * (m * h)) - 1
  BY <1>1, <1>2, Sizes, Layout
<1>5. C!IntToPtr(x, to) = [segment |-> v % l, base |-> (v \div l) % m, offset |-> v \div (l * m)]
  BY <1>1, <1>3, SameWrap, SamePow2, Layout DEF C!IntToPtr, C!PtrOfBits, Seg, Bas, Off
<1>6. PtrRecord(to) = [segment : 0 .. l - 1, base : 0 .. m - 1, offset : 0 .. h - 1]
  BY <1>1, Layout
<1>7. v % l \in 0 .. l - 1 /\ (v \div l) % m \in 0 .. m - 1 /\ v \div (l * m) \in 0 .. h - 1
  BY <1>3, <1>4, FieldRanges
<1>8. S!IntToPtr(x, to) = v
  BY <1>3, SamePow2, SameBits DEF S!IntToPtr, S!Trunc, Wrap
<1>9. ASSUME x = 0 PROVE S!MakePointer(C!IntToPtr(x, to), to) = 0 /\ v = 0
  <2>1. v = 0
    BY <1>2, <1>3, <1>9, Sizes
  <2>2. 0 \in 0 .. l - 1 /\ 0 \in 0 .. m - 1 /\ 0 \in 0 .. h - 1
    OBVIOUS
  <2>3. PICK z \in PtrRecord(to) : z = [segment |-> 0, base |-> 0, offset |-> 0]
    BY <1>6, <2>2
  <2>4. PICK k \in Nat \ {0} : k = l * m
    BY Products
  <2>5. 0 % l = 0 /\ 0 \div l = 0 /\ 0 % m = 0 /\ 0 \div k = 0
    BY <2>2, ModSmall
  <2>6. C!IntToPtr(x, to) = z
    BY <1>5, <2>1, <2>3, <2>4, <2>5
  <2>7. S!MakePointer(z, to) = h * (m * 0 + 0) + 0
    BY <1>1, <2>3, SymbolicPointer DEF Three
  <2>8. QED
    BY <2>1, <2>6, <2>7
<1>10. QED
  BY <1>5, <1>6, <1>7, <1>8, <1>9

-----------------------------------------------------------------------------
(* The run                                                                 *)

Typed(ty, c, s) ==
  /\ c \in (IF ty \in PtrTypes THEN PtrRecord(ty) ELSE IF ty = "Bool" THEN Word("I8") ELSE Word(ty))
  /\ s \in (IF ty = "Bool" THEN BOOLEAN ELSE Word(ty))

\* What holds of every state: the accumulator is a value of its type in both
\* engines and its term denotes its value; the engines have come apart at an
\* instruction of Excused or not at all.  Without the second part nothing is
\* known of the next result, and without the first nothing of a pointer's
\* bits.
DataInv == TypeOK /\ Denotes(acc.ty, acc.conc, acc.sym) /\ EnginesAgree

LEMMA Kinds ==
  /\ \A ty \in IntTypes : ty \notin PtrTypes /\ ty # "Bool" /\ ty \in Types /\ ty \in WordTypes
  /\ \A ty \in PtrTypes : ty \notin IntTypes /\ ty # "Bool" /\ ty \in Types /\ ty \in WordTypes
  /\ "Bool" \notin IntTypes /\ "Bool" \notin PtrTypes /\ "Bool" \in Types
  /\ "I8" \in IntTypes /\ "I32" \in IntTypes /\ "Pointer" \in PtrTypes
  BY DEF IntTypes, PtrTypes, Types, WordTypes

LEMMA IntMeaning ==
  ASSUME NEW ty \in IntTypes, NEW c, NEW s
  PROVE  (Denotes(ty, c, s) <=> c = s) /\ (Typed(ty, c, s) <=> c \in Word(ty) /\ s \in Word(ty))
  BY Kinds DEF Denotes, Typed

LEMMA PtrMeaning ==
  ASSUME NEW ty \in PtrTypes, NEW c, NEW s
  PROVE  /\ Denotes(ty, c, s) <=> S!MakePointer(c, ty) = s
         /\ Typed(ty, c, s) <=> c \in PtrRecord(ty) /\ s \in Word(ty)
  BY Kinds DEF Denotes, Typed

LEMMA BoolMeaning ==
  ASSUME NEW c, NEW s \in BOOLEAN
  PROVE  (Denotes("Bool", c, s) <=> (c # 0 <=> s)) /\ (Typed("Bool", c, s) <=> c \in Word("I8"))
  BY Kinds DEF Denotes, Typed

\* An instruction keeps the invariant when each of its outcomes is typed if
\* the engines agree on it, and they agree on it or are excused.
LEMMA RunKeeps ==
  ASSUME DataInv, NEW op, NEW right, NEW ty \in Types, NEW cs, NEW s, Run(op, right, ty, cs, s),
         \A c \in cs :
           /\ c # Raise /\ s # Raise /\ Denotes(ty, c[1], s[1]) => Typed(ty, c[1], s[1])
           /\ \/ c # Raise /\ s # Raise /\ Denotes(ty, c[1], s[1])
              \/ Excused([op |-> op, ty |-> acc.ty, left |-> acc.conc, right |-> right])
  PROVE  DataInv'
<1>1. PICK c \in cs :
        \/ /\ c # Raise /\ s # Raise
           /\ Denotes(ty, c[1], s[1])
           /\ acc' = [ty |-> ty, conc |-> c[1], sym |-> s[1]]
           /\ UNCHANGED gap
        \/ /\ IF c = Raise \/ s = Raise THEN c # s ELSE ~Denotes(ty, c[1], s[1])
           /\ gap' = [op |-> op, ty |-> acc.ty, left |-> acc.conc, right |-> right]
           /\ UNCHANGED acc
  BY DEF Run
<1>2. CASE /\ c # Raise /\ s # Raise
           /\ Denotes(ty, c[1], s[1])
           /\ acc' = [ty |-> ty, conc |-> c[1], sym |-> s[1]]
           /\ UNCHANGED gap
  <2>1. Typed(ty, c[1], s[1])
    BY <1>2
  <2>2. acc'.ty = ty /\ acc'.conc = c[1] /\ acc'.sym = s[1]
    BY <1>2
  <2>3. TypeOK'
    BY <2>1, <2>2 DEF TypeOK, Typed
  <2>4. Denotes(acc.ty, acc.conc, acc.sym)'
    BY <1>2, <2>2 DEF Denotes
  <2>5. EnginesAgree'
    BY <1>2 DEF DataInv, EnginesAgree, Excused
  <2>6. QED
    BY <2>3, <2>4, <2>5 DEF DataInv
<1>3. CASE /\ IF c = Raise \/ s = Raise THEN c # s ELSE ~Denotes(ty, c[1], s[1])
           /\ gap' = [op |-> op, ty |-> acc.ty, left |-> acc.conc, right |-> right]
           /\ UNCHANGED acc
  <2>1. ~(c # Raise /\ s # Raise /\ Denotes(ty, c[1], s[1]))
    BY <1>3
  <2>2. Excused([op |-> op, ty |-> acc.ty, left |-> acc.conc, right |-> right])
    BY <2>1
  <2>3. EnginesAgree'
    BY <1>3, <2>2 DEF EnginesAgree, Excused
  <2>4. TypeOK' /\ Denotes(acc.ty, acc.conc, acc.sym)'
    BY <1>3 DEF DataInv, TypeOK, Denotes
  <2>5. QED
    BY <2>3, <2>4 DEF DataInv
<1>4. QED
  BY <1>1, <1>2, <1>3

\* The accumulator under the invariant.
LEMMA Holding ==
  ASSUME DataInv
  PROVE  /\ acc.ty \in Types
         /\ acc.ty = "Bool" => acc.conc \in Word("I8") /\ acc.sym \in BOOLEAN /\ (acc.conc # 0 <=> acc.sym)
         /\ acc.ty \in IntTypes => acc.conc \in Word(acc.ty) /\ acc.sym = acc.conc
         /\ acc.ty \in PtrTypes => acc.conc \in PtrRecord(acc.ty) /\ acc.sym = S!MakePointer(acc.conc, acc.ty)
<1>1. acc.ty \in Types /\ Typed(acc.ty, acc.conc, acc.sym) /\ Denotes(acc.ty, acc.conc, acc.sym)
  BY DEF DataInv, TypeOK, Typed
<1>2. CASE acc.ty = "Bool"
  <2>1. acc.sym \in BOOLEAN
    BY <1>1, <1>2 DEF Typed
  <2>2. QED
    BY <1>1, <1>2, <2>1, Kinds, BoolMeaning
<1>3. CASE acc.ty \in IntTypes
  BY <1>1, <1>3, Kinds, IntMeaning
<1>4. CASE acc.ty \in PtrTypes
  BY <1>1, <1>4, Kinds, PtrMeaning
<1>5. QED
  BY <1>1, <1>2, <1>3, <1>4 DEF Types

LEMMA BinaryKeeps ==
  ASSUME DataInv, NEW op \in TAC, Binary(op)
  PROVE  DataInv'
<1>1. PICK ty \in IntTypes : ty = acc.ty
  BY DEF Binary
<1>2. PICK r \in Operands[ty] :
        Run(op, r, ty, C!HostTAC(op, ty, acc.conc, r), Value(S!SmtTAC(op, ty, acc.sym, r)))
  BY <1>1 DEF Binary
<1>3. PICK l \in Word(ty) : l = acc.conc /\ l = acc.sym
  BY <1>1, Holding
<1>4. r \in Word(ty)
  BY OperandsOK
<1>5. PICK s \in Word(ty) : s = S!SmtTAC(op, ty, l, r)
  BY <1>4, TacAgrees
<1>6. ASSUME NEW c \in C!HostTAC(op, ty, l, r)
      PROVE  /\ c # Raise /\ Value(s) # Raise /\ Denotes(ty, c[1], Value(s)[1]) => Typed(ty, c[1], Value(s)[1])
             /\ \/ c # Raise /\ Value(s) # Raise /\ Denotes(ty, c[1], Value(s)[1])
                \/ Excused([op |-> op, ty |-> acc.ty, left |-> acc.conc, right |-> r])
  <2>1. Value(s) # Raise /\ Value(s)[1] = s
    BY Outcomes
  <2>2. (Denotes(ty, c[1], s) <=> c[1] = s) /\ (Typed(ty, c[1], s) <=> c[1] \in Word(ty) /\ s \in Word(ty))
    BY IntMeaning
  <2>3. c = Value(s) \/ TacGap(op, ty, l, r)
    BY <1>4, <1>5, TacAgrees
  <2>4. TacGap(op, ty, l, r) => Excused([op |-> op, ty |-> acc.ty, left |-> acc.conc, right |-> r])
    BY <1>1, <1>3 DEF TacGap, Excused, Shifts
  <2>5. QED
    BY <2>1, <2>2, <2>3, <2>4
<1>7. QED
  BY <1>1, <1>2, <1>3, <1>5, <1>6, Kinds, RunKeeps

\* The same for an instruction that neither engine refuses.
LEMMA RunOne ==
  ASSUME DataInv, NEW op, NEW right, NEW ty \in Types, NEW c, NEW s, Run(op, right, ty, {Value(c)}, Value(s)), Typed(ty, c, s),
         Denotes(ty, c, s) \/ Excused([op |-> op, ty |-> acc.ty, left |-> acc.conc, right |-> right])
  PROVE  DataInv'
<1>1. Value(c) # Raise /\ Value(s) # Raise /\ Value(c)[1] = c /\ Value(s)[1] = s
  BY Outcomes
<1>2. QED
  BY <1>1, RunKeeps

LEMMA TruthValues ==
  ASSUME NEW b \in BOOLEAN
  PROVE  C!Bool(b) \in Word("I8") /\ (C!Bool(b) # 0 <=> b)
  BY Sizes, Kinds DEF C!Bool

LEMMA CompareKeeps ==
  ASSUME DataInv, NEW op \in CMP, Compare(op)
  PROVE  DataInv'
<1>1. CASE acc.ty \in IntTypes
  <2>1. PICK ty \in IntTypes : ty = acc.ty
    BY <1>1
  <2>2. PICK r \in Operands[ty] :
          Run(op, r, "Bool", {Value(C!Bool(C!HostCMP(op, ty, acc.conc, r)))}, Value(S!SmtCMP(op, ty, acc.sym, r)))
    BY <1>1, <2>1, Kinds DEF Compare
  <2>3. PICK l \in Word(ty) : l = acc.conc /\ l = acc.sym
    BY <2>1, Holding
  <2>4. r \in Word(ty) /\ ty \in WordTypes
    BY OperandsOK, Kinds
  <2>5. PICK a \in BOOLEAN, b \in BOOLEAN :
          a = C!HostCMP(op, ty, l, r) /\ b = S!SmtCMP(op, ty, l, r) /\ (a # b => op = "ULe" /\ l # r)
    BY <2>4, CmpAgrees
  <2>6. Typed("Bool", C!Bool(a), b) /\ (a = b => Denotes("Bool", C!Bool(a), b))
    BY TruthValues, BoolMeaning
  <2>7. a # b => Excused([op |-> op, ty |-> acc.ty, left |-> acc.conc, right |-> r])
    BY <2>3, <2>5 DEF Excused
  <2>8. QED
    BY <2>2, <2>3, <2>5, <2>6, <2>7, Kinds, RunOne
<1>2. CASE acc.ty \in PtrTypes
  <2>1. PICK ty \in PtrTypes : ty = acc.ty
    BY <1>2
  <2>2. PICK q \in Corner(ty) :
          Run(op, q, "Bool",
              {Value(C!Bool(C!HostCMP(op, ty, C!PtrToInt(acc.conc, ty), C!PtrToInt(q, ty))))},
              Value(S!SmtCMP(op, ty, S!PtrToInt(acc.sym, ty), S!MakePointer(q, ty))))
    BY <1>2, <2>1, Kinds DEF Compare
  <2>3. q \in PtrRecord(ty)
    BY DEF Corner
  <2>4. PICK p \in PtrRecord(ty) : p = acc.conc /\ acc.sym = S!MakePointer(p, ty)
    BY <2>1, Holding
  <2>5. PICK a \in BOOLEAN, b \in BOOLEAN :
          /\ a = C!HostCMP(op, ty, C!PtrToInt(p, ty), C!PtrToInt(q, ty))
          /\ b = S!SmtCMP(op, ty, S!MakePointer(p, ty), S!MakePointer(q, ty))
          /\ (a # b => PtrCmpGap(op, p, q))
    BY <2>3, PtrCmpAgrees
  <2>6. Typed("Bool", C!Bool(a), b) /\ (a = b => Denotes("Bool", C!Bool(a), b))
    BY TruthValues, BoolMeaning
  <2>7. PtrCmpGap(op, p, q) => Excused([op |-> op, ty |-> acc.ty, left |-> acc.conc, right |-> q])
    BY <2>1, <2>4 DEF Excused, PtrCmpGap
  <2>8. Run(op, q, "Bool", {Value(C!Bool(a))}, Value(b))
    BY <2>2, <2>4, <2>5 DEF S!PtrToInt
  <2>9. QED
    BY <2>5, <2>6, <2>7, <2>8, Kinds, RunOne
<1>3. QED
  BY <1>1, <1>2 DEF Compare

\* The widened accumulator.
LEMMA WideAddress ==
  ASSUME DataInv, acc.ty \in PtrTypes
  PROVE  LET w == Wide(acc.conc, acc.sym) IN
         w.c = acc.conc /\ w.c \in PtrRecord("Pointer") /\ w.s = S!MakePointer(w.c, "Pointer")
<1>1. CASE acc.ty = "Pointer32"
  BY <1>1, Holding, Widened DEF Wide, C!Ptr32ToPtr
<1>2. CASE acc.ty = "Pointer"
  BY <1>2, Holding, Kinds DEF Wide
<1>3. QED
  BY <1>1, <1>2 DEF PtrTypes

LEMMA PtrArithKeeps ==
  ASSUME DataInv, NEW op \in {"PtrAdd", "PtrSub"}, PtrArith(op)
  PROVE  DataInv'
<1>1. acc.ty \in PtrTypes
  BY DEF PtrArith
<1>2. PICK p \in PtrRecord("Pointer"), x \in Word("Pointer") :
        p = acc.conc /\ Wide(acc.conc, acc.sym).c = p /\ Wide(acc.conc, acc.sym).s = x /\ x = S!MakePointer(p, "Pointer")
  BY <1>1, WideAddress, SymbolicPointer, Kinds
<1>3. PICK skip \in Nat :
        Run(op, skip, "Pointer",
            {Value(IF op = "PtrAdd" THEN C!PtrAdd(p, skip) ELSE C!PtrSub(p, skip))},
            Value(IF op = "PtrAdd" THEN S!PtrAdd(x, skip) ELSE S!PtrSub(x, skip)))
  <2>1. PICK ty \in {"I8", "I32"} : \E size \in {1, 2}, n \in Operands[ty] :
          Run(op, Wrap(size * n, ty), "Pointer",
              {Value(IF op = "PtrAdd" THEN C!PtrAdd(p, Wrap(size * n, ty)) ELSE C!PtrSub(p, Wrap(size * n, ty)))},
              Value(IF op = "PtrAdd" THEN S!PtrAdd(x, Wrap(size * n, ty)) ELSE S!PtrSub(x, Wrap(size * n, ty))))
    BY <1>2 DEF PtrArith
  <2>8. PICK size \in {1, 2}, n \in Operands[ty] :
          Run(op, Wrap(size * n, ty), "Pointer",
              {Value(IF op = "PtrAdd" THEN C!PtrAdd(p, Wrap(size * n, ty)) ELSE C!PtrSub(p, Wrap(size * n, ty)))},
              Value(IF op = "PtrAdd" THEN S!PtrAdd(x, Wrap(size * n, ty)) ELSE S!PtrSub(x, Wrap(size * n, ty))))
    BY <2>1
  <2>2. ty \in IntTypes /\ ty \in WordTypes
    BY DEF IntTypes, WordTypes
  <2>3. PICK m \in Nat \ {0} : Word(ty) = 0 .. m - 1
    BY <2>2, Sizes
  <2>4. n \in Nat
    BY <2>2, <2>3, OperandsOK
  <2>5. size * n \in Int
    BY <2>4
  <2>6. Wrap(size * n, ty) \in Nat
    BY <2>2, <2>5, Sizes, Numbers
  <2>7. QED
    BY <2>8, <2>6
<1>4. Off("Pointer") \in Nat /\ p.offset \in Nat
  <2>1. PICK l \in Nat : l = Off("Pointer")
    BY Kinds, Layout
  <2>2. PtrRecord("Pointer") = [segment : 0 .. Seg("Pointer") - 1, base : 0 .. Bas("Pointer") - 1, offset : 0 .. l - 1]
    BY <2>1, Kinds, Layout
  <2>3. p \in [segment : 0 .. Seg("Pointer") - 1, base : 0 .. Bas("Pointer") - 1, offset : 0 .. l - 1]
    BY <2>2
  <2>4. p.offset \in 0 .. l - 1
    BY <2>3
  <2>5. QED
    BY <2>1, <2>4
<1>5. CASE op = "PtrAdd"
  <2>1. Typed("Pointer", C!PtrAdd(p, skip), S!PtrAdd(x, skip))
    BY <1>2, MovesAgree, Kinds, PtrMeaning
  <2>2. CASE p.offset + skip < Off("Pointer")
    <3>1. Denotes("Pointer", C!PtrAdd(p, skip), S!PtrAdd(x, skip))
      BY <1>2, <2>2, MovesAgree, Kinds, PtrMeaning
    <3>2. QED
      BY <1>3, <1>5, <2>1, <3>1, Kinds, RunOne
  <2>3. CASE ~(p.offset + skip < Off("Pointer"))
    <3>1. p.offset + skip >= Pow2[Fields["Pointer"].offset]
      BY <1>4, <2>3 DEF Off
    <3>2. Excused([op |-> op, ty |-> acc.ty, left |-> acc.conc, right |-> skip])
      BY <1>2, <1>5, <3>1 DEF Excused
    <3>3. QED
      BY <1>3, <1>5, <2>1, <3>2, Kinds, RunOne
  <2>4. QED
    BY <2>2, <2>3
<1>6. CASE op = "PtrSub"
  <2>1. Typed("Pointer", C!PtrSub(p, skip), S!PtrSub(x, skip))
    BY <1>2, MovesAgree, Kinds, PtrMeaning
  <2>2. CASE p.offset >= skip
    <3>1. Denotes("Pointer", C!PtrSub(p, skip), S!PtrSub(x, skip))
      BY <1>2, <2>2, MovesAgree, Kinds, PtrMeaning
    <3>2. QED
      BY <1>3, <1>6, <2>1, <3>1, Kinds, RunOne
  <2>3. CASE ~(p.offset >= skip)
    <3>1. p.offset < skip
      BY <1>4, <2>3
    <3>2. Excused([op |-> op, ty |-> acc.ty, left |-> acc.conc, right |-> skip])
      BY <1>2, <1>6, <3>1 DEF Excused
    <3>3. QED
      BY <1>3, <1>6, <2>1, <3>2, Kinds, RunOne
  <2>4. QED
    BY <2>2, <2>3
<1>7. QED
  BY <1>5, <1>6

LEMMA PtrEqKeeps ==
  ASSUME DataInv, PtrEq
  PROVE  DataInv'
<1>1. PICK q \in Corner("Pointer") :
        Run("PtrEq", q, "Bool", {C!PtrEq(Wide(acc.conc, acc.sym).c, q)}, Raise)
  BY Outcomes DEF PtrEq, S!PtrEq
<1>2. Excused([op |-> "PtrEq", ty |-> acc.ty, left |-> acc.conc, right |-> q])
  BY DEF Excused
<1>3. QED
  BY <1>1, <1>2, Kinds, RunKeeps

LEMMA CastKeeps ==
  ASSUME DataInv, NEW op \in {"Trunc", "ZExt", "SExt"}, Cast(op)
  PROVE  DataInv'
<1>1. PICK from \in IntTypes : from = acc.ty
  BY DEF Cast
<1>2. PICK x \in Word(from) : x = acc.conc /\ x = acc.sym
  BY <1>1, Holding
<1>3. PICK to \in IntTypes :
        \/ /\ op = "Trunc" /\ Bits(to) <= Bits(from)
           /\ Run(op, to, to, {Value(C!Trunc(x, to))}, Value(S!Trunc(x, to)))
        \/ /\ op = "ZExt" /\ Bits(to) >= Bits(from)
           /\ Run(op, to, to, {Value(C!ZExt(x, from, to))}, Value(S!ZExt(x, from, to)))
        \/ /\ op = "SExt" /\ Bits(to) >= Bits(from)
           /\ Run(op, to, to, {Value(C!SExt(x, from, to))}, Value(S!SExt(x, from, to)))
  BY <1>1, <1>2 DEF Cast
<1>4. PICK v \in Word(to) : Run(op, to, to, {Value(v)}, Value(v))
  BY <1>3, CastsAgree
<1>5. Typed(to, v, v) /\ Denotes(to, v, v)
  BY IntMeaning
<1>6. QED
  BY <1>4, <1>5, Kinds, RunOne

LEMMA BoolExtKeeps ==
  ASSUME DataInv, NEW op \in {"BoolZExt", "BoolSExt"}, BoolExt(op)
  PROVE  DataInv'
<1>1. acc.ty = "Bool"
  BY DEF BoolExt
<1>2. PICK b \in BOOLEAN : b = acc.sym /\ (acc.conc # 0 <=> b)
  BY <1>1, Holding
<1>3. PICK to \in IntTypes :
        IF op = "BoolZExt"
        THEN Run(op, to, to, {Value(C!BoolZExt(acc.conc, to))}, Value(S!BoolZExt(b, to)))
        ELSE Run(op, to, to, {Value(C!BoolSExt(acc.conc, to))}, Value(S!BoolSExt(b, to)))
  BY <1>2 DEF BoolExt
<1>4. to \in WordTypes
  BY Kinds
<1>5. C!BoolZExt(acc.conc, to) = S!BoolZExt(b, to) /\ S!BoolZExt(b, to) \in Word(to)
  BY <1>2, <1>4, Sizes DEF C!BoolZExt, S!BoolZExt
<1>6. C!BoolSExt(acc.conc, to) = S!BoolSExt(b, to) /\ S!BoolSExt(b, to) \in Word(to)
  BY <1>2, <1>4, Sizes, SameWords DEF C!BoolSExt, S!BoolSExt
<1>7. PICK v \in Word(to) : Run(op, to, to, {Value(v)}, Value(v))
  BY <1>3, <1>5, <1>6
<1>8. Typed(to, v, v) /\ Denotes(to, v, v)
  BY IntMeaning
<1>9. QED
  BY <1>7, <1>8, Kinds, RunOne

LEMMA IntToBoolKeeps ==
  ASSUME DataInv, IntToBool
  PROVE  DataInv'
<1>1. PICK from \in IntTypes : from = acc.ty
  BY DEF IntToBool
<1>2. PICK x \in Word(from) : x = acc.conc /\ x = acc.sym
  BY <1>1, Holding
<1>3. x \in Int
  BY Sizes, Kinds
<1>4. PICK c \in Word("I8") : c = C!IntToBool(x) /\ c = x % Pow2[Bits("I8")]
  BY <1>3, SameWrap, Sizes, Kinds DEF C!IntToBool, Size
<1>5. PICK b \in BOOLEAN : b <=> x # 0
  OBVIOUS
<1>6. Run("IntToBool", 0, "Bool", {Value(c)}, Value(b))
  <2>1. S!IntToBool(x) = b
    BY <1>5 DEF S!IntToBool
  <2>2. QED
    BY <1>2, <1>4, <2>1 DEF IntToBool
<1>7. Typed("Bool", c, b) /\ (Denotes("Bool", c, b) <=> (c # 0 <=> x # 0))
  BY <1>5, BoolMeaning
<1>8. CASE c # 0 <=> x # 0
  BY <1>6, <1>7, <1>8, Kinds, RunOne
<1>9. CASE ~(c # 0 <=> x # 0)
  <2>1. x # 0 /\ c = 0
    <3>1. ASSUME x = 0 PROVE c = 0
      <4>1. x \in Word("I8") /\ Wrap(x, "I8") = x
        BY <3>1, Sizes, Kinds
      <4>2. QED
        BY <1>4, <3>1, <4>1 DEF Wrap
    <3>2. QED
      BY <1>9, <3>1
  <2>2. Excused([op |-> "IntToBool", ty |-> acc.ty, left |-> acc.conc, right |-> 0])
    BY <1>2, <1>4, <2>1 DEF Excused
  <2>3. QED
    BY <1>6, <1>7, <2>2, Kinds, RunOne
<1>10. QED
  BY <1>8, <1>9

LEMMA IntToPtrKeeps ==
  ASSUME DataInv, IntToPtr
  PROVE  DataInv'
<1>1. PICK from \in IntTypes : from = acc.ty
  BY DEF IntToPtr
<1>2. PICK x \in Word(from) : x = acc.conc /\ x = acc.sym
  BY <1>1, Holding
<1>3. PICK to \in PtrTypes : Run("IntToPtr", to, to, {Value(C!IntToPtr(x, to))}, Value(S!IntToPtr(x, to)))
  BY <1>2 DEF IntToPtr
<1>4. Typed(to, C!IntToPtr(x, to), S!IntToPtr(x, to))
  BY PointerOfWord, PtrMeaning
<1>5. CASE x = 0
  <2>1. Denotes(to, C!IntToPtr(x, to), S!IntToPtr(x, to))
    BY <1>5, PointerOfWord, PtrMeaning
  <2>2. QED
    BY <1>3, <1>4, <2>1, Kinds, RunOne
<1>6. CASE x # 0
  <2>1. Excused([op |-> "IntToPtr", ty |-> acc.ty, left |-> acc.conc, right |-> to])
    BY <1>2, <1>6 DEF Excused
  <2>2. QED
    BY <1>3, <1>4, <2>1, Kinds, RunOne
<1>7. QED
  BY <1>5, <1>6

LEMMA NegateKeeps ==
  ASSUME DataInv, Negate
  PROVE  DataInv'
<1>1. acc.ty = "Bool"
  BY DEF Negate
<1>2. PICK b \in BOOLEAN : b = acc.sym /\ (acc.conc # 0 <=> b)
  BY <1>1, Holding
<1>3. PICK d \in BOOLEAN : d = ~b
  OBVIOUS
<1>4. Run("NegAssume", 0, "Bool", {Value(C!Bool(d))}, Value(d))
  <2>1. (acc.conc = 0) = d
    BY <1>2, <1>3
  <2>2. C!BoolNegate(acc.conc) = C!Bool(d)
    BY <2>1 DEF C!BoolNegate
  <2>3. S!BoolNegate(acc.sym) = d
    BY <1>2, <1>3 DEF S!BoolNegate
  <2>4. QED
    BY <2>2, <2>3 DEF Negate
<1>5. Typed("Bool", C!Bool(d), d) /\ Denotes("Bool", C!Bool(d), d)
  BY TruthValues, BoolMeaning
<1>6. QED
  BY <1>4, <1>5, Kinds, RunOne

LEMMA DataInit ==
  ASSUME Init
  PROVE  DataInv
<1>1. PICK ty, c, s :
        ty \in Types /\ acc = [ty |-> ty, conc |-> c, sym |-> s] /\ Typed(ty, c, s) /\ Denotes(ty, c, s)
  <2>1. CASE \E ty \in IntTypes : \E n \in Operands[ty] : acc = [ty |-> ty, conc |-> n, sym |-> n]
    <3>1. PICK ty \in IntTypes : \E n \in Operands[ty] : acc = [ty |-> ty, conc |-> n, sym |-> n]
      BY <2>1
    <3>2. PICK n \in Word(ty) : acc = [ty |-> ty, conc |-> n, sym |-> n]
      BY <3>1, OperandsOK
    <3>3. Typed(ty, n, n) /\ Denotes(ty, n, n)
      BY IntMeaning
    <3>4. QED
      BY <3>2, <3>3, Kinds
  <2>2. CASE \E ty \in PtrTypes : \E p \in Corner(ty) : acc = [ty |-> ty, conc |-> p, sym |-> S!MakePointer(p, ty)]
    <3>1. PICK ty \in PtrTypes : \E p \in Corner(ty) : acc = [ty |-> ty, conc |-> p, sym |-> S!MakePointer(p, ty)]
      BY <2>2
    <3>2. PICK p \in PtrRecord(ty) : acc = [ty |-> ty, conc |-> p, sym |-> S!MakePointer(p, ty)]
      BY <3>1 DEF Corner
    <3>3. Typed(ty, p, S!MakePointer(p, ty)) /\ Denotes(ty, p, S!MakePointer(p, ty))
      BY SymbolicPointer, PtrMeaning
    <3>4. QED
      BY <3>2, <3>3, Kinds
  <2>3. CASE \E b \in BOOLEAN : acc = [ty |-> "Bool", conc |-> S!BoolZExt(b, "I8"), sym |-> b]
    <3>1. PICK b \in BOOLEAN : acc = [ty |-> "Bool", conc |-> S!BoolZExt(b, "I8"), sym |-> b]
      BY <2>3
    <3>2. S!BoolZExt(b, "I8") \in Word("I8") /\ (S!BoolZExt(b, "I8") # 0 <=> b)
      BY Sizes, Kinds DEF S!BoolZExt
    <3>3. Typed("Bool", S!BoolZExt(b, "I8"), b) /\ Denotes("Bool", S!BoolZExt(b, "I8"), b)
      BY <3>2, BoolMeaning
    <3>4. QED
      BY <3>1, <3>3, Kinds
  <2>4. QED
    BY <2>1, <2>2, <2>3 DEF Init
<1>2. acc.ty = ty /\ acc.conc = c /\ acc.sym = s
  BY <1>1
<1>3. TypeOK
  BY <1>1, <1>2 DEF TypeOK, Typed
<1>4. EnginesAgree
  BY DEF Init, EnginesAgree
<1>5. QED
  BY <1>1, <1>2, <1>3, <1>4 DEF DataInv

LEMMA DataNext ==
  ASSUME DataInv, [Next]_vars
  PROVE  DataInv'
<1>1. CASE \E op \in TAC : Binary(op)
  BY <1>1, BinaryKeeps
<1>2. CASE \E op \in CMP : Compare(op)
  BY <1>2, CompareKeeps
<1>3. CASE \E op \in {"PtrAdd", "PtrSub"} : PtrArith(op)
  BY <1>3, PtrArithKeeps
<1>4. CASE PtrEq
  BY <1>4, PtrEqKeeps
<1>5. CASE \E op \in {"Trunc", "ZExt", "SExt"} : Cast(op)
  BY <1>5, CastKeeps
<1>6. CASE \E op \in {"BoolZExt", "BoolSExt"} : BoolExt(op)
  BY <1>6, BoolExtKeeps
<1>7. CASE IntToBool
  BY <1>7, IntToBoolKeeps
<1>8. CASE IntToPtr
  BY <1>8, IntToPtrKeeps
<1>9. CASE Negate
  BY <1>9, NegateKeeps
<1>10. CASE UNCHANGED vars
  BY <1>10 DEF vars, DataInv, TypeOK, Denotes, EnginesAgree, Excused
<1>11. QED
  BY <1>1, <1>2, <1>3, <1>4, <1>5, <1>6, <1>7, <1>8, <1>9, <1>10 DEF Next

\* What the invariant says of pointers.
LEMMA PointersIn ==
  ASSUME DataInv
  PROVE  PointersSurvive
<1>1. ASSUME acc.ty \in PtrTypes
      PROVE  /\ C!IntToPtr(C!PtrToInt(acc.conc, acc.ty), acc.ty) = acc.conc
             /\ S!IntToPtr(S!PtrToInt(acc.sym, acc.ty), acc.ty) = acc.sym
  <2>1. PICK ty \in PtrTypes, p \in PtrRecord(acc.ty) : ty = acc.ty /\ p = acc.conc /\ acc.sym = S!MakePointer(p, ty)
    BY <1>1, Holding
  <2>2. PICK v \in Word(ty) : v = acc.sym
    BY <2>1, SymbolicPointer
  <2>3. S!IntToPtr(S!PtrToInt(v, ty), ty) = Wrap(v, ty)
    BY SamePow2, SameBits DEF S!IntToPtr, S!PtrToInt, S!Trunc, Wrap
  <2>4. Wrap(v, ty) = v
    BY Sizes, Kinds
  <2>5. QED
    BY <2>1, <2>2, <2>3, <2>4, ConcretePointer
<1>2. ASSUME acc.ty = "Pointer32"
      PROVE  /\ C!PtrToPtr32(C!Ptr32ToPtr(acc.conc)) = acc.conc
             /\ S!PtrToPtr32(S!Ptr32ToPtr(acc.sym)) = acc.sym
  <2>1. "Pointer32" \in PtrTypes
    BY DEF PtrTypes
  <2>2. PICK p \in PtrRecord("Pointer32") : p = acc.conc /\ acc.sym = S!MakePointer(p, "Pointer32")
    BY <1>2, <2>1, Holding
  <2>3. QED
    BY <2>2, Narrowed, Widened
<1>3. QED
  BY <1>1, <1>2 DEF PointersSurvive

LEMMA DataInvariant == Spec => []DataInv
<1>1. Init => DataInv
  BY DataInit
<1>2. DataInv /\ [Next]_vars => DataInv'
  BY DataNext
<1>3. QED
  BY <1>1, <1>2, PTL DEF Spec

\* What the engines compute stays in its type: a register of the concrete
\* engine is a word, a pointer with all its fields in their ranges or a byte
\* for a Bool, and the term beside it a bit vector of the same width or a
\* Boolean; whatever the widths, the layout of pointers and the constants.
THEOREM DataTypes == Spec => []TypeOK
<1>1. DataInv => TypeOK
  BY DEF DataInv
<1>2. QED
  BY <1>1, DataInvariant, PTL

\* The path-formula engine and the concrete engine mean the same by every
\* program, until an instruction that Excused lists with its operands.
THEOREM EnginesMean == Spec => []EnginesAgree
<1>1. DataInv => EnginesAgree
  BY DEF DataInv
<1>2. QED
  BY <1>1, DataInvariant, PTL

\* Both engines take a pointer apart the way they put it together: through an
\* integer and back, widened and narrowed, it is the same pointer.
THEOREM PointersKept == Spec => []PointersSurvive
<1>1. DataInv => PointersSurvive
  BY PointersIn
<1>2. QED
  BY <1>1, DataInvariant, PTL

=============================================================================
