--------------------------- MODULE ConcreteWords ---------------------------
(* The concrete engine's arithmetic: the host's instructions on x86-64 and *)
(* the casts of the concrete value domain.  A Bool is a byte, true when it *)
(* is not zero; a pointer is a record of its three fields.                 *)
EXTENDS Words

\* Shifts use the low bits of the count: 5 for operands of up to 32 bits
\* (narrow ones are promoted or shifted by the same encoding), 6 for 64.
CountMod(ty) == IF ty = "I64" THEN Bits("I64") ELSE Bits("I32")

\* divb divides AX, and nothing clears its upper half: an 8-bit division sees
\* the byte an earlier computation left there.  The wider ones clear theirs.
\* The processor raises #DE when the quotient does not fit.
UDiv(ty, l, r) ==
  IF ty = "I8"
  THEN { IF ah < r THEN Value((ah * Pow2[Bits(ty)] + l) \div r) ELSE Raise : ah \in Word(ty) }
  ELSE { IF r = 0 THEN Raise ELSE Value(l \div r) }

SDiv(ty, l, r) ==
  LET a == Signed(l, ty)
      b == Signed(r, ty)
  IN  IF b = 0 \/ Towards0(a, b) >= Pow2[Bits(ty) - 1]
      THEN Raise ELSE Value(Wrap(Towards0(a, b), ty))

\* The results an operation may have.
HostTAC(op, ty, l, r) ==
  LET n == r % CountMod(ty)
  IN CASE op = "Add"  -> {Value(Wrap(l + r, ty))}
       [] op = "Sub"  -> {Value(Wrap(l - r, ty))}
       [] op = "Mul"  -> {Value(Wrap(l * r, ty))}
       [] op = "UDiv" -> UDiv(ty, l, r)
       [] op = "SDiv" -> {SDiv(ty, l, r)}
       [] op = "LShl" -> {Value(Wrap(l * Pow2[n], ty))}
       [] op = "LShr" -> {Value(l \div Pow2[n])}
       [] op = "AShr" -> {Value(ShiftSigned(l, n, ty))}
       [] op = "And"  -> {Value(BitAnd(l, r, ty))}
       [] op = "Or"   -> {Value(BitOr(l, r, ty))}
       [] op = "Xor"  -> {Value(BitXor(l, r, ty))}

HostCMP(op, ty, l, r) ==
  LET a == Signed(l, ty)
      b == Signed(r, ty)
  IN CASE op = "SGt" -> a > b
       [] op = "UGt" -> l > r
       [] op = "SGe" -> a >= b
       [] op = "UGe" -> l >= r
       [] op = "SLt" -> a < b
       [] op = "ULt" -> l < r
       [] op = "SLe" -> a <= b
       [] op = "ULe" -> l >= r
       [] op = "Eq"  -> l = r
       [] op = "NEq" -> l # r

Bool(b)       == IF b THEN 1 ELSE 0
BoolNegate(b) == Bool(b = 0)
IntToBool(x)  == Wrap(x, "I8")
BoolZExt(b, to) == IF b # 0 THEN 1 ELSE 0
BoolSExt(b, to) == IF b # 0 THEN Top(to) ELSE 0

Trunc(x, to)      == Wrap(x, to)
ZExt(x, from, to) == x
SExt(x, from, to) == Wrap(Signed(x, from), to)

\* bit_cast of the packed struct on a little-endian host: the segment comes
\* first and is in the lowest bits.
PtrBits(p, ty) == p.segment + Pow2[Fields[ty].segment] * (p.base + Pow2[Fields[ty].base] * p.offset)

\* Mutation: the struct is laid out with its offset first.
PtrOfBitsOffsetFirst(x, ty) ==
  [segment |-> x \div Pow2[Fields[ty].offset + Fields[ty].base],
   base    |-> (x \div Pow2[Fields[ty].offset]) % Pow2[Fields[ty].base],
   offset  |-> x % Pow2[Fields[ty].offset]]

PtrOfBits(x, ty) ==
  [segment |-> x % Pow2[Fields[ty].segment],
   base    |-> (x \div Pow2[Fields[ty].segment]) % Pow2[Fields[ty].base],
   offset  |-> x \div Pow2[Fields[ty].segment + Fields[ty].base]]

PtrToInt(p, ty)   == PtrBits(p, ty)
IntToPtr(x, to)   == PtrOfBits(Wrap(x, to), to)
PtrToPtr32(p)     == [segment |-> p.segment % Pow2[Fields["Pointer32"].segment],
                      base    |-> p.base % Pow2[Fields["Pointer32"].base],
                      offset  |-> p.offset % Pow2[Fields["Pointer32"].offset]]
Ptr32ToPtr(p)     == p

\* Pointer arithmetic stays in the block: the offset is a word of its own.
\* Mutation: the sum is not cut to the width of the offset.
PtrAddUncut(p, skip) == [p EXCEPT !.offset = @ + skip]

PtrAdd(p, skip) == [p EXCEPT !.offset = (@ + skip) % Pow2[Fields["Pointer"].offset]]
PtrSub(p, skip) == [p EXCEPT !.offset = (@ - skip) % Pow2[Fields["Pointer"].offset]]
PtrEq(p, q)     == Value(Bool(p = q))
=============================================================================
