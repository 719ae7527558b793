------------------------------ MODULE HeapPath ------------------------------
(* Loads, stores and aggregate instructions of one program, carried out by  *)
(* the concrete and by the symbolic memory side by side, until they come    *)
(* apart.  Memory is laid out from the program's heap layout first; alloca  *)
(* is part of the memory's interface, although no instruction of the        *)
(* current instruction set reaches it.                                      *)
EXTENDS ConcreteMemory, SymbolicMemory

CONSTANTS
  Layouts,      \* heap layouts of programs: sequences of blocks
  WordSizes,    \* bytes of the word types
  AggrSize,     \* bytes of the aggregate register
  MaxBlocks     \* bound on the number of blocks

ASSUME HeapPathOK ==
  /\ Layouts \subseteq Seq([baseobj: Base, offset: Nat, size: 0 .. MaxSize])
  /\ WordSizes \subseteq 1 .. MaxSize /\ AggrSize \in 1 .. MaxSize
  /\ OffSpan \in Nat /\ MaxSize <= OffSpan
  /\ BaseSpan \in Nat /\ Base \subseteq 0 .. BaseSpan - 1

VARIABLES
  layout,   \* blocks of the heap layout that are still to be created
  heap,     \* the concrete memory
  array,    \* the symbolic memory
  aggr,     \* an aggregate register, equal in both engines
  writer,   \* for every byte of a block the store that wrote it
  gap       \* the instruction at which the engines came apart
vars == <<layout, heap, array, aggr, writer, gap>>

None     == [op |-> "none", base |-> 0, off |-> 0, n |-> 0]
Fresh    == [start |-> 0, size |-> 0, kind |-> "fresh"]
Offset   == 0 .. OffSpan - 1
Apart(op, base, off, n) == [op |-> op, base |-> base, off |-> off, n |-> n]

Init ==
  /\ layout \in Layouts
  /\ heap = EmptyMemory
  /\ array = [x \in Address |-> Zero]
  /\ aggr = [i \in 0 .. AggrSize - 1 |-> Zero]
  /\ writer = [x \in Address |-> Fresh]
  /\ gap = None

\* createHeapLayout, one block.  The symbolic memory has nothing to create.
CreateBlock ==
  /\ layout # <<>>
  /\ LET b == Head(layout) IN
       IF CanAllocate(heap, b.baseobj, b.offset)
       THEN /\ heap' = Allocate(heap, b.baseobj, b.size)
            /\ layout' = Tail(layout)
            /\ UNCHANGED gap
       ELSE /\ gap' = Apart("layout", b.baseobj, b.offset, b.size)
            /\ UNCHANGED <<heap, layout>>
  /\ UNCHANGED <<array, aggr, writer>>

\* alloca with a fresh block.  The symbolic one counts from zero, whatever the
\* layout holds.
Alloca(n) ==
  /\ layout = <<>> /\ Len(heap.allocated) < MaxBlocks /\ heap.next \in Base
  /\ heap' = IF CanAllocate(heap, heap.next, 0) THEN Allocate(heap, heap.next, n) ELSE heap
  /\ gap' = IF CanAllocate(heap, heap.next, 0) /\ heap.next = 1 THEN None ELSE Apart("alloca", heap.next, 0, n)
  /\ UNCHANGED <<layout, array, aggr, writer>>

Stamp(base, off, n, kind) ==
  [x \in Address |-> IF \E i \in 0 .. n - 1 : x = Plus(AddressOf(base, off), i)
                     THEN [start |-> AddressOf(base, off), size |-> n, kind |-> kind] ELSE writer[x]]

Store(kind, base, off, v, n) ==
  /\ layout = <<>>
  /\ array' = IF kind = "word" THEN WriteWord(array, AddressOf(base, off), v, n)
              ELSE WriteAggr(array, AddressOf(base, off), v, n)
  /\ IF base \notin DOMAIN heap.entries \/ StoreThrows(heap, base, off, n)
     THEN /\ gap' = Apart("store", base, off, n)
          /\ UNCHANGED <<heap, writer>>
     ELSE /\ heap' = StoreValue(heap, base, off, v)
          /\ writer' = Stamp(base, off, n, kind)
          /\ UNCHANGED gap
  /\ UNCHANGED <<layout, aggr>>

StoreWord == \E base \in Base, off \in Offset, n \in WordSizes :
               \E v \in Bytes(n) : Store("word", base, off, v, n)
StoreAggr == \E base \in Base, off \in Offset : Store("aggr", base, off, aggr, AggrSize)

\* The concrete memory has no load for aggregates.
LoadAggr ==
  /\ layout = <<>>
  /\ \E base \in Base, off \in Offset : gap' = Apart("loadaggr", base, off, AggrSize)
  /\ UNCHANGED <<layout, heap, array, aggr, writer>>

LoadWord ==
  /\ layout = <<>>
  /\ \E base \in Base, off \in Offset, n \in WordSizes :
       IF LoadThrows(heap, base, off, n)
       THEN gap' = Apart("load", base, off, n)
       ELSE \E v \in LoadValue(heap, base, off, n) :
              gap' = IF v = Load(array, AddressOf(base, off), n) THEN None ELSE Apart("load", base, off, n)
  /\ UNCHANGED <<layout, heap, array, aggr, writer>>

\* InsertValue into the aggregate register, ExtractValue of a word from it.
InsertValue ==
  /\ layout = <<>>
  /\ \E n \in WordSizes : \E off \in 0 .. AggrSize - n, v \in Bytes(n) :
       IF InsertRaises(AggrSize, off, n) \/ Insert(aggr, off, v, n) # Overlay(aggr, off, v)
       THEN gap' = Apart("insert", 0, off, n) /\ UNCHANGED aggr
       ELSE aggr' = Overlay(aggr, off, v) /\ UNCHANGED gap
  /\ UNCHANGED <<layout, heap, array, writer>>

ExtractValue ==
  /\ layout = <<>>
  /\ \E n \in WordSizes : \E off \in 0 .. AggrSize - n :
       LET v == [i \in 0 .. n - 1 |-> aggr[off + i]] IN
       \/ gap' = IF ExtractBase(aggr, off, n) = v THEN None ELSE Apart("extract", 0, off, n)
       \/ gap' = IF ExtractAggregate(aggr, off, n) = v THEN None ELSE Apart("extractaggr", 0, off, n)
  /\ UNCHANGED <<layout, heap, array, aggr, writer>>

Next ==
  /\ gap = None
  /\ \/ CreateBlock
     \/ \E n \in 1 .. MaxSize : Alloca(n)
     \/ StoreWord \/ StoreAggr
     \/ LoadWord \/ LoadAggr
     \/ InsertValue \/ ExtractValue

Spec == Init /\ [][Next]_vars

-----------------------------------------------------------------------------
Ops == {"none", "layout", "alloca", "store", "load", "loadaggr", "insert", "extract", "extractaggr"}

TypeOK ==
  /\ heap \in Memories
  /\ layout \in Seq([baseobj: Base, offset: Nat, size: 0 .. MaxSize])
  /\ array \in [Address -> Byte]
  /\ aggr \in Bytes(AggrSize)
  /\ writer \in [Address -> [start: Address, size: 0 .. MaxSize, kind: {"fresh", "word", "aggr"}]]
  /\ gap \in [op: Ops, base: Nat, off: Nat, n: Nat]

\* Every block is in the list the hash runs over, once: two states whose heaps
\* differ in a byte offer the hash different inputs, so the search does not
\* take one for the other.
HashCovers ==
  /\ DOMAIN heap.entries = { heap.allocated[i] : i \in 1 .. Len(heap.allocated) }
  /\ \A i, j \in 1 .. Len(heap.allocated) : i # j => heap.allocated[i] # heap.allocated[j]

\* The n bytes at an address were written by one store of n bytes there, or
\* they are one byte of an aggregate, or nobody wrote them.
Intact(base, off, n) ==
  LET x == AddressOf(base, off)
      by(i) == writer[Plus(x, i)]
  IN  \/ \A i \in 0 .. n - 1 : by(i) = [start |-> x, size |-> n, kind |-> "word"]
      \/ n = 1 /\ by(0).kind = "aggr"
      \/ \A i \in 0 .. n - 1 : by(i) = Fresh

InsideBlock(base, off, n) == base \in DOMAIN heap.entries /\ InBlock(heap, base, off, n)

\* The two engines give a program the same values until it leaves a block,
\* reads bytes in another grouping than they were written in (the engines
\* differ in byte order), extracts a word that is not at the start of an
\* aggregate, replaces an aggregate as a whole or loads one, uses alloca, or
\* has a layout that names a block twice or does not name it by its start.
EnginesAgree ==
  CASE gap.op = "store"   -> ~InsideBlock(gap.base, gap.off, gap.n)
    [] gap.op = "load"    -> InsideBlock(gap.base, gap.off, gap.n) => ~Intact(gap.base, gap.off, gap.n)
    [] gap.op = "layout"  -> gap.base \in DOMAIN heap.entries \/ gap.off # 0
    [] gap.op = "extract" -> gap.off # 0
    [] gap.op = "insert"  -> gap.n = AggrSize
    [] OTHER -> gap.op \in {"none", "alloca", "loadaggr"}

\* The concrete heap as a set of bytes by block and offset.
Cells == UNION { { <<base, off>> : off \in DOMAIN heap.entries[base] } : base \in DOMAIN heap.entries }
LastOver(c) == LET w == writer[AddressOf(c[1], c[2])] IN <<w.start \div OffSpan, w.start % OffSpan, w.size>>
Promise == INSTANCE ByteStore WITH cells <- [c \in Cells |-> heap.entries[c[1]][c[2]]],
                                   last  <- [c \in Cells |-> LastOver(c)]

\* The concrete heap is a byte store: a block appears once, filled with zero,
\* and stays; a store that succeeds changes bytes of the block and the offsets
\* it names only.
ImplementsByteStore == Promise!Spec
=============================================================================
