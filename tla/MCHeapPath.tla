----------------------------- MODULE MCHeapPath -----------------------------
(* Blocks of up to three bytes at two bases, offsets below four: a store    *)
(* can reach the end of its block, the end of the offsets and the block     *)
(* behind it.                                                               *)
EXTENDS HeapPath

B(base, size) == [baseobj |-> base, offset |-> 0, size |-> size]

MCBase    == 0 .. 2
MCByte    == {0, 1}
MCLayouts == { <<>>, <<B(1, 3)>>, <<B(1, 2), B(2, 1)>>, <<B(2, 2)>>, <<B(1, 2), B(1, 2)>>,
               <<B(2, 1), [B(1, 2) EXCEPT !.offset = 1]>> }
MCWords   == {1, 2}
=============================================================================
