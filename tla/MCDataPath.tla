----------------------------- MODULE MCDataPath -----------------------------
(* A narrow machine: words of 3, 5, 8 and 11 bits.                         *)
EXTENDS DataPath

MCBitWidth == [I8 |-> 3, I16 |-> 5, I32 |-> 8, I64 |-> 11]
MCFields   == [Pointer   |-> [segment |-> 3, base |-> 3, offset |-> 5],
               Pointer32 |-> [segment |-> 2, base |-> 2, offset |-> 4]]

\* Every word of the narrowest type; of the others the ends of the signed and
\* the unsigned range, powers of two and the shift counts around their width.
Around(ty) == LET h == Pow2[Bits(ty) - 1] IN {0, 1, 2, 3, h - 1, h, h + 1, Top(ty) - 1, Top(ty)}
MCOperands == [ty \in IntTypes |->
                 IF ty = "I8" THEN Word(ty)
                 ELSE (Around(ty) \cup {Bits(ty) - 1, Bits(ty), Bits(ty) + 1}) \cap Word(ty)]
=============================================================================
