--------------------------- MODULE SymbolicWords ---------------------------
(* The path-formula engine's arithmetic.  A value is an SMT-LIB term; here *)
(* it is what the term denotes under one valuation: a Boolean, or a bit    *)
(* vector, pointers included.                                              *)
EXTENDS Words

\* The theory of bit vectors: total functions, also where the host traps.
BVUDiv(ty, l, r) == IF r = 0 THEN Top(ty) ELSE l \div r
BVSDiv(ty, l, r) ==
  LET a == Signed(l, ty)
      b == Signed(r, ty)
  IN  IF b # 0 THEN Wrap(Towards0(a, b), ty) ELSE IF a < 0 THEN 1 ELSE Top(ty)
BVCount(r, ty) == IF r < Bits(ty) THEN r ELSE Bits(ty)

SmtTAC(op, ty, l, r) ==
  CASE op = "Add"  -> Wrap(l + r, ty)
    [] op = "Sub"  -> Wrap(l - r, ty)
    [] op = "Mul"  -> Wrap(l * r, ty)
    [] op = "UDiv" -> BVUDiv(ty, l, r)
    [] op = "SDiv" -> BVSDiv(ty, l, r)
    [] op = "LShl" -> Wrap(l * Pow2[BVCount(r, ty)], ty)
    [] op = "LShr" -> l \div Pow2[BVCount(r, ty)]
    [] op = "AShr" -> ShiftSigned(l, BVCount(r, ty), ty)
    [] op = "And"  -> BitAnd(l, r, ty)
    [] op = "Or"   -> BitOr(l, r, ty)
    [] op = "Xor"  -> BitXor(l, r, ty)

SmtCMP(op, ty, l, r) ==
  LET a == Signed(l, ty)
      b == Signed(r, ty)
  IN CASE op = "SGt" -> a > b
       [] op = "UGt" -> l > r
       [] op = "SGe" -> a >= b
       [] op = "UGe" -> l >= r
       [] op = "SLt" -> a < b
       [] op = "ULt" -> l < r
       [] op = "SLe" -> a <= b
       [] op = "ULe" -> l <= r
       [] op = "Eq"  -> l = r
       [] op = "NEq" -> l # r

Bool(b)       == b
BoolNegate(b) == ~b
IntToBool(x)  == x # 0
BoolZExt(b, to) == IF b THEN 1 ELSE 0
BoolSExt(b, to) == IF b THEN Top(to) ELSE 0

Trunc(x, to)      == x % Pow2[Bits(to)]
ZExt(x, from, to) == x
\* Mutation: an extension fills with zeros.
SExtZeroFill(x, from, to) == x

SExt(x, from, to) == IF x < Pow2[Bits(from) - 1] THEN x ELSE x + Pow2[Bits(to)] - Pow2[Bits(from)]

\* A pointer term is the concatenation of segment, base and offset: the
\* segment is in the highest bits.
Concat3(s, b, o, f) == (s * Pow2[f.base] + b) * Pow2[f.offset] + o
SegmentOf(x, f) == x \div Pow2[f.base + f.offset]
BaseOf(x, f)    == (x \div Pow2[f.offset]) % Pow2[f.base]
OffsetOf(x, f)  == x % Pow2[f.offset]
MakePointer(p, ty) == Concat3(p.segment, p.base, p.offset, Fields[ty])

PtrToInt(x, ty) == x
IntToPtr(x, to) == Trunc(x, to)
PtrToPtr32(x) ==
  LET f == Fields["Pointer"]
      g == Fields["Pointer32"]
  IN  Concat3(SegmentOf(x, f) % Pow2[g.segment], BaseOf(x, f) % Pow2[g.base], OffsetOf(x, f) % Pow2[g.offset], g)
Ptr32ToPtr(x) ==
  LET g == Fields["Pointer32"]
  IN  Concat3(SegmentOf(x, g), BaseOf(x, g), OffsetOf(x, g), Fields["Pointer"])

\* Pointer arithmetic is on the whole word.
PtrAdd(x, skip) == Wrap(x + skip, "Pointer")
PtrSub(x, skip) == Wrap(x - skip, "Pointer")
PtrEq(x, y)     == Raise
=============================================================================
