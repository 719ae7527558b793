------------------------------- MODULE Words -------------------------------
(* Machine words.  A word of w bits is a number below 2^w.  The widths are *)
(* constants, so that TLC can walk through all words of a narrow machine;  *)
(* minimc has 8, 16, 32 and 64 bits, pointers of 16+16+32 bits and narrow  *)
(* pointers of 8+8+16.                                                     *)
EXTENDS Integers

CONSTANTS
  BitWidth,   \* integer type -> number of bits
  Fields      \* pointer type -> bits of its segment, base and offset

IntTypes == {"I8", "I16", "I32", "I64"}
PtrTypes == {"Pointer", "Pointer32"}

\* A pointer is as wide as the integer its bits are read as.
IntOf(ty) == CASE ty = "Pointer" -> "I64" [] ty = "Pointer32" -> "I32" [] OTHER -> ty

Bits(ty) == BitWidth[IntOf(ty)]

ASSUME WidthsOK ==
  /\ BitWidth \in [IntTypes -> Nat \ {0}]
  /\ BitWidth["I8"] < BitWidth["I16"] /\ BitWidth["I16"] < BitWidth["I32"] /\ BitWidth["I32"] < BitWidth["I64"]
  /\ Fields \in [PtrTypes -> [segment: Nat, base: Nat, offset: Nat]]
  /\ \A p \in PtrTypes : Fields[p].segment + Fields[p].base + Fields[p].offset = Bits(p)
  /\ Fields["Pointer32"].segment <= Fields["Pointer"].segment
  /\ Fields["Pointer32"].base <= Fields["Pointer"].base
  /\ Fields["Pointer32"].offset <= Fields["Pointer"].offset

Pow2[n \in Nat] == IF n = 0 THEN 1 ELSE 2 * Pow2[n - 1]

Word(ty)    == 0 .. Pow2[Bits(ty)] - 1
Wrap(x, ty) == x % Pow2[Bits(ty)]
Top(ty)     == Pow2[Bits(ty)] - 1
Signed(x, ty) == IF x < Pow2[Bits(ty) - 1] THEN x ELSE x - Pow2[Bits(ty)]

PtrRecord(ty) == [segment: 0 .. Pow2[Fields[ty].segment] - 1,
                  base:    0 .. Pow2[Fields[ty].base] - 1,
                  offset:  0 .. Pow2[Fields[ty].offset] - 1]

\* Division that rounds towards zero, as idiv and bvsdiv do.
Towards0(a, b) == LET abs(x) == IF x < 0 THEN -x ELSE x
                      q == abs(a) \div abs(b)
                  IN  IF (a < 0) = (b < 0) THEN q ELSE -q

\* Arithmetic shift to the right: the vacated bits copy the sign.
ShiftSigned(x, n, ty) == Wrap(Signed(x, ty) \div Pow2[n], ty)

\* A word is the set of its bits; the operations on bits are those on sets.
BitsOf(x, ty) == {k \in 0 .. Bits(ty) - 1 : (x \div Pow2[k]) % 2 = 1}
WordOf(B, ty) ==
  LET sum[n \in 0 .. Bits(ty)] == IF n = 0 THEN 0 ELSE sum[n - 1] + (IF n - 1 \in B THEN Pow2[n - 1] ELSE 0)
  IN  sum[Bits(ty)]
BitAnd(x, y, ty) == WordOf(BitsOf(x, ty) \cap BitsOf(y, ty), ty)
BitOr(x, y, ty)  == WordOf(BitsOf(x, ty) \cup BitsOf(y, ty), ty)
BitXor(x, y, ty) == WordOf((BitsOf(x, ty) \ BitsOf(y, ty)) \cup (BitsOf(y, ty) \ BitsOf(x, ty)), ty)

TAC  == {"Add", "Sub", "Mul", "UDiv", "SDiv", "LShl", "LShr", "AShr", "And", "Or", "Xor"}
CMP  == {"SGt", "UGt", "SGe", "UGe", "SLt", "ULt", "SLe", "ULe", "Eq", "NEq"}

\* What an engine makes of an instruction: a value, or an exception.
Raise    == <<>>
Value(v) == <<v>>
=============================================================================
