----------------------------- MODULE ByteStore -----------------------------
(* What a heap promises: bytes addressed by block and offset, each of which *)
(* has the value the last write over it gave it.                            *)
EXTENDS Naturals

CONSTANTS
  Base, MaxSize, Byte, Zero

VARIABLES
  cells,   \* <<block, offset>> -> byte, for the bytes that exist
  last     \* for each of them the last write over it: its block, offset, size
vars == <<cells, last>>

Init == cells = <<>> /\ last = <<>>

Never == <<0, 0, 0>>

\* A new block: none of its bytes existed, and all hold zero.
NewBlock(base, n) ==
  LET new == {base} \X (0 .. n - 1) IN
  /\ \A c \in DOMAIN cells : c[1] # base
  /\ cells' = [c \in DOMAIN cells \cup new |-> IF c \in new THEN Zero ELSE cells[c]]
  /\ last'  = [c \in DOMAIN cells \cup new |-> IF c \in new THEN Never ELSE last[c]]

\* A write of n bytes inside a block changes those n bytes only.
Write(base, off, n) ==
  LET over == {base} \X (off .. off + n - 1) IN
  /\ over \subseteq DOMAIN cells
  /\ cells' \in [DOMAIN cells -> Byte]
  /\ \A c \in DOMAIN cells \ over : cells'[c] = cells[c]
  /\ last' = [c \in DOMAIN cells |-> IF c \in over THEN <<base, off, n>> ELSE last[c]]

Next == \E base \in Base, n \in 0 .. MaxSize :
          \/ NewBlock(base, n)
          \/ \E off \in 0 .. MaxSize : Write(base, off, n)

Spec == Init /\ [][Next]_vars
=============================================================================
