------------------------------ MODULE HeapProofs ------------------------------
(***************************************************************************)
(* Proofs about HeapPath for every layout, block size and address space:   *)
(* the concrete heap is a byte store, its hash covers every block, and the *)
(* two memories give a program the same bytes. The last two rest on one    *)
(* invariant, which says for every byte of a block what the last store     *)
(* over it left in each of the memories.                                   *)
(***************************************************************************)
EXTENDS HeapPath, SequenceTheorems, TLAPS

USE HeapPathOK, MemoryOK

-----------------------------------------------------------------------------
(* Addresses                                                               *)

LEMMA BasesAreNumbers == \A b \in Base : b \in Nat
  OBVIOUS

LEMMA SizesAreNumbers == \A n \in 0 .. MaxSize : n \in Nat
  OBVIOUS

LEMMA SmallRemainder ==
  ASSUME NEW a \in Nat, NEW m \in Nat, a < m
  PROVE  a % m = a
  OBVIOUS

\* A block below x and its bytes stay below the bytes of block x.
LEMMA ProductOrder ==
  ASSUME NEW x \in Nat, NEW y \in Nat, NEW m \in Nat, x < y
  PROVE  x * m + m <= y * m
<1>1. PICK d \in Nat : y = x + 1 + d
  <2>1. y - x - 1 \in Nat /\ y = x + 1 + (y - x - 1)
    OBVIOUS
  <2> QED BY <2>1
<1>2. y * m = x * m + m + d * m /\ d * m \in Nat /\ x * m \in Nat
  BY <1>1
<1> QED BY <1>2

\* The pointer of a block and an offset is within the array, and tells both.
LEMMA AddressSplit ==
  ASSUME NEW base \in Base, NEW off \in Offset
  PROVE  /\ AddressOf(base, off) \in Address
         /\ AddressOf(base, off) \div OffSpan = base
         /\ AddressOf(base, off) % OffSpan = off
<1>1. base \in Nat /\ base < BaseSpan /\ off \in Nat /\ off < OffSpan
  BY DEF Offset
<1>2. base * OffSpan + OffSpan <= BaseSpan * OffSpan
  BY <1>1, ProductOrder
<1>3. base * OffSpan \in Nat /\ BaseSpan * OffSpan \in Nat
  BY <1>1
<1>4. AddressOf(base, off) \in Address
  BY <1>1, <1>2, <1>3 DEF AddressOf, Address
<1>5. AddressOf(base, off) \div OffSpan = base /\ AddressOf(base, off) % OffSpan = off
  BY <1>1 DEF AddressOf
<1> QED BY <1>4, <1>5

LEMMA AddressTells ==
  ASSUME NEW b \in Base, NEW o \in Offset, NEW c \in Base, NEW p \in Offset,
         AddressOf(b, o) = AddressOf(c, p)
  PROVE  b = c /\ o = p
<1>1. AddressOf(b, o) \div OffSpan = b /\ AddressOf(b, o) % OffSpan = o
  BY AddressSplit
<1>2. AddressOf(c, p) \div OffSpan = c /\ AddressOf(c, p) % OffSpan = p
  BY AddressSplit
<1> QED BY <1>1, <1>2

\* Within the offsets of a block the sum does not wrap.
LEMMA AddressPlus ==
  ASSUME NEW base \in Base, NEW off \in Nat, NEW i \in Nat, off + i < OffSpan
  PROVE  Plus(AddressOf(base, off), i) = AddressOf(base, off + i)
<1>1. off + i \in Offset
  BY DEF Offset
<1>2. AddressOf(base, off + i) \in Address
  BY <1>1, AddressSplit
<1>3. base * OffSpan \in Nat /\ BaseSpan * OffSpan \in Nat
  OBVIOUS
<1>4. AddressOf(base, off) + i = AddressOf(base, off + i)
  BY <1>3 DEF AddressOf
<1>5. AddressOf(base, off + i) \in Nat /\ AddressOf(base, off + i) < BaseSpan * OffSpan
  BY <1>2, <1>3 DEF Address
<1> QED BY <1>3, <1>4, <1>5, SmallRemainder DEF Plus

-----------------------------------------------------------------------------
(* Blocks                                                                  *)

LEMMA SizeOfBytes ==
  ASSUME NEW n \in 0 .. MaxSize, NEW b \in Bytes(n)
  PROVE  Size(b) = n
<1>1. DOMAIN b = 0 .. n - 1
  BY DEF Bytes
<1>2. CASE n = 0
  BY <1>1, <1>2 DEF Size
<1>3. CASE n # 0
  <2>1. DOMAIN b # {}
    BY <1>1, <1>3
  <2>2. n \in 1 .. MaxSize
    BY <1>3
  <2>3. \A k \in 1 .. MaxSize : DOMAIN b = 0 .. k - 1 => k = n
    <3> SUFFICES ASSUME NEW k \in 1 .. MaxSize, 0 .. k - 1 = 0 .. n - 1 PROVE k = n
      BY <1>1
    <3>1. k - 1 \in 0 .. n - 1 /\ n - 1 \in 0 .. k - 1
      BY <2>2
    <3> QED BY <3>1
  <2> QED BY <1>1, <2>1, <2>2, <2>3 DEF Size
<1> QED BY <1>2, <1>3

LEMMA BlockShape ==
  ASSUME NEW b \in Blocks
  PROVE  /\ Size(b) \in 0 .. MaxSize
         /\ b \in Bytes(Size(b))
         /\ DOMAIN b = 0 .. Size(b) - 1
         /\ \A i \in DOMAIN b : b[i] \in Byte
<1>1. PICK n \in 0 .. MaxSize : b \in Bytes(n)
  BY DEF Blocks
<1>2. Size(b) = n
  BY <1>1, SizeOfBytes
<1> QED BY <1>1, <1>2 DEF Bytes

LEMMA BlockBytes ==
  ASSUME NEW n \in 0 .. MaxSize, NEW b \in Bytes(n)
  PROVE  b \in Blocks
  BY DEF Blocks

LEMMA OverlayBytes ==
  ASSUME NEW n \in Nat, NEW b \in Bytes(n), NEW off \in Nat, NEW k \in Nat, NEW v \in Bytes(k)
  PROVE  Overlay(b, off, v) \in Bytes(n)
  BY DEF Overlay, Bytes

-----------------------------------------------------------------------------
(* Memories                                                                *)

LEMMA MemoryShape ==
  ASSUME NEW m \in Memories
  PROVE  /\ DOMAIN m.entries \subseteq Base
         /\ \A x \in DOMAIN m.entries : m.entries[x] \in Blocks
         /\ m.allocated \in Seq(Base) /\ m.next \in Nat
<1>1. m.entries \in UNION { [D -> Blocks] : D \in SUBSET Base } /\ m.allocated \in Seq(Base) /\ m.next \in Nat
  BY DEF Memories
<1>2. PICK D \in SUBSET Base : m.entries \in [D -> Blocks]
  BY <1>1
<1> QED BY <1>1, <1>2

LEMMA MemoryIs ==
  ASSUME NEW D \in SUBSET Base, NEW e \in [D -> Blocks], NEW a \in Seq(Base), NEW k \in Nat
  PROVE  [entries |-> e, allocated |-> a, next |-> k] \in Memories
<1>1. e \in UNION { [C -> Blocks] : C \in SUBSET Base }
  OBVIOUS
<1> QED BY <1>1 DEF Memories

LEMMA EmptyShape == EmptyMemory \in Memories /\ DOMAIN EmptyMemory.entries = {} /\ EmptyMemory.allocated = <<>>
<1>1. <<>> \in [{} -> Blocks] /\ <<>> \in Seq(Base) /\ 0 \in Nat /\ {} \in SUBSET Base
  OBVIOUS
<1>2. EmptyMemory \in Memories
  BY <1>1, MemoryIs DEF EmptyMemory
<1> QED BY <1>2 DEF EmptyMemory

\* A new block is filled with zero, noted last, and touches no other.
Grown(m, base, n, new) ==
  /\ new \in Memories
  /\ DOMAIN new.entries = DOMAIN m.entries \cup {base}
  /\ \A x \in DOMAIN m.entries : new.entries[x] = m.entries[x]
  /\ DOMAIN new.entries[base] = 0 .. n - 1
  /\ \A i \in DOMAIN new.entries[base] : new.entries[base][i] = Zero
  /\ new.allocated = Append(m.allocated, base)

LEMMA AllocateShape ==
  ASSUME NEW m \in Memories, NEW base \in Base, NEW n \in 0 .. MaxSize, base \notin DOMAIN m.entries,
         NEW new, new = Allocate(m, base, n)
  PROVE  Grown(m, base, n, new)
<1> DEFINE zeros == [i \in 0 .. n - 1 |-> Zero]
           D     == DOMAIN m.entries \cup {base}
           e     == [x \in D |-> IF x = base THEN zeros ELSE m.entries[x]]
           k     == IF base > m.next THEN base + 1 ELSE m.next
<1>1. Allocate(m, base, n) = [entries |-> e, allocated |-> Append(m.allocated, base), next |-> k]
  BY DEF Allocate
<1>2. zeros \in Blocks
  BY BlockBytes DEF Bytes
<1>3. e \in [D -> Blocks] /\ D \in SUBSET Base
  BY <1>2, MemoryShape
<1>4. Append(m.allocated, base) \in Seq(Base) /\ k \in Nat
  BY MemoryShape
<1>5. Allocate(m, base, n) \in Memories
  <2>1. e \in UNION { [C -> Blocks] : C \in SUBSET Base }
    <3> HIDE DEF e, D
    <3> QED BY <1>3
  <2> HIDE DEF e, D, k
  <2> QED BY <1>1, <1>4, <2>1 DEF Memories
<1>6. e[base] = zeros /\ \A x \in DOMAIN m.entries : e[x] = m.entries[x]
  OBVIOUS
<1>7. DOMAIN zeros = 0 .. n - 1 /\ \A i \in DOMAIN zeros : zeros[i] = Zero
  OBVIOUS
<1> HIDE DEF zeros
<1> QED BY <1>1, <1>5, <1>6, <1>7 DEF Grown

LEMMA EntriesReplaced ==
  ASSUME NEW E, NEW A, NEW K, NEW m \in [entries: E, allocated: A, next: K], NEW e
  PROVE  [m EXCEPT !.entries = e] = [entries |-> e, allocated |-> m.allocated, next |-> m.next]
  OBVIOUS

\* A store changes bytes of the block it names.
LEMMA StoreShape ==
  ASSUME NEW m \in Memories, NEW base \in DOMAIN m.entries, NEW off \in Nat, NEW k \in Nat, NEW v \in Bytes(k),
         NEW new, new = StoreValue(m, base, off, v)
  PROVE  /\ new \in Memories
         /\ DOMAIN new.entries = DOMAIN m.entries
         /\ \A x \in DOMAIN m.entries : x # base => new.entries[x] = m.entries[x]
         /\ new.entries[base] = Overlay(m.entries[base], off, v)
         /\ new.allocated = m.allocated
<1> DEFINE e == [m.entries EXCEPT ![base] = Overlay(m.entries[base], off, v)]
<1>1. StoreValue(m, base, off, v) = [m EXCEPT !.entries = e]
  BY DEF StoreValue
<1>2. m.entries[base] \in Blocks /\ DOMAIN m.entries \subseteq Base
  BY MemoryShape
<1>3. Overlay(m.entries[base], off, v) \in Blocks
  <2>1. Size(m.entries[base]) \in 0 .. MaxSize /\ m.entries[base] \in Bytes(Size(m.entries[base]))
    BY <1>2, BlockShape
  <2>2. Overlay(m.entries[base], off, v) \in Bytes(Size(m.entries[base]))
    BY <2>1, OverlayBytes
  <2> QED BY <2>1, <2>2, BlockBytes
<1>4. m.entries \in [DOMAIN m.entries -> Blocks]
  <2>1. PICK D \in SUBSET Base : m.entries \in [D -> Blocks]
    BY DEF Memories
  <2> QED BY <2>1
<1>5. e \in [DOMAIN m.entries -> Blocks]
  BY <1>3, <1>4
<1>6. [m EXCEPT !.entries = e] = [entries |-> e, allocated |-> m.allocated, next |-> m.next]
  <2> HIDE DEF e
  <2> QED BY EntriesReplaced DEF Memories
<1>7. e[base] = Overlay(m.entries[base], off, v) /\ \A x \in DOMAIN m.entries : x # base => e[x] = m.entries[x]
  BY <1>4
<1> HIDE DEF e
<1>8. [entries |-> e, allocated |-> m.allocated, next |-> m.next] \in Memories
  BY <1>2, <1>5, MemoryIs, MemoryShape
<1> QED BY <1>1, <1>5, <1>6, <1>7, <1>8

LEMMA OverlayAt ==
  ASSUME NEW n \in Nat, NEW b \in Bytes(n), NEW off \in Nat, NEW k \in Nat, NEW v \in Bytes(k)
  PROVE  /\ DOMAIN Overlay(b, off, v) = DOMAIN b
         /\ \A i \in DOMAIN b : Overlay(b, off, v)[i] = IF off <= i /\ i < off + k THEN v[i - off] ELSE b[i]
  BY DEF Overlay, Bytes

-----------------------------------------------------------------------------
(* Ranges of bytes in the array                                            *)

\* Byte p of block c is one of the n bytes from off in block b.
Over(b, off, n, c, p) == c = b /\ off <= p /\ p < off + n

\* The byte that n bytes v laid from o have at p, in order and in reverse.
ByteAt(v, o, p) == v[p - o]
ByteBack(v, o, n, p) == v[o + n - 1 - p]

\* A write of n bytes from off in block b leaves byte x at p of block c if it
\* reaches that, and what was there if it does not.
Laid(new, old, b, off, n, c, p, x) ==
  /\ Over(b, off, n, c, p) => new[AddressOf(c, p)] = x
  /\ ~Over(b, off, n, c, p) => new[AddressOf(c, p)] = old[AddressOf(c, p)]

LEMMA ReachedBytes ==
  ASSUME NEW b \in Base, NEW off \in Offset, NEW n \in Nat, off + n <= OffSpan,
         NEW c \in Base, NEW p \in Offset, NEW i \in 0 .. n - 1
  PROVE  AddressOf(c, p) = Plus(AddressOf(b, off), i) <=> c = b /\ p = off + i
<1>1. off + i \in Offset /\ off \in Nat
  BY DEF Offset
<1>2. Plus(AddressOf(b, off), i) = AddressOf(b, off + i)
  BY <1>1, AddressPlus DEF Offset
<1> QED BY <1>1, <1>2, AddressTells

\* A store stamps the bytes it names and no others.
LEMMA StampAt ==
  ASSUME NEW b \in Base, NEW off \in Offset, NEW n \in Nat, off + n <= OffSpan, NEW kind,
         NEW c \in Base, NEW p \in Offset
  PROVE  /\ Over(b, off, n, c, p) =>
              Stamp(b, off, n, kind)[AddressOf(c, p)] = [start |-> AddressOf(b, off), size |-> n, kind |-> kind]
         /\ ~Over(b, off, n, c, p) => Stamp(b, off, n, kind)[AddressOf(c, p)] = writer[AddressOf(c, p)]
<1>1. off \in Nat /\ p \in Nat
  BY DEF Offset
<1>2. (\E i \in 0 .. n - 1 : AddressOf(c, p) = Plus(AddressOf(b, off), i)) <=> Over(b, off, n, c, p)
  <2>1. ASSUME Over(b, off, n, c, p) PROVE \E i \in 0 .. n - 1 : AddressOf(c, p) = Plus(AddressOf(b, off), i)
    <3>1. p - off \in 0 .. n - 1 /\ p = off + (p - off) /\ c = b
      BY <1>1, <2>1 DEF Over
    <3> QED BY <3>1, ReachedBytes
  <2>2. ASSUME NEW i \in 0 .. n - 1, AddressOf(c, p) = Plus(AddressOf(b, off), i) PROVE Over(b, off, n, c, p)
    <3>1. c = b /\ p = off + i
      BY <2>2, ReachedBytes
    <3> QED BY <1>1, <3>1 DEF Over
  <2> QED BY <2>1, <2>2
<1>3. AddressOf(c, p) \in Address
  BY AddressSplit
<1> QED BY <1>2, <1>3 DEF Stamp

\* A word leaves its bytes in the array in reverse, an aggregate in order.
LEMMA WordAt ==
  ASSUME NEW b \in Base, NEW off \in Offset, NEW n \in Nat, off + n <= OffSpan, NEW mem, NEW v,
         NEW c \in Base, NEW p \in Offset
  PROVE  Laid(WriteWord(mem, AddressOf(b, off), v, n), mem, b, off, n, c, p, ByteBack(v, off, n, p))
<1> DEFINE hit(i) == AddressOf(c, p) = Plus(AddressOf(b, off), n - 1 - i)
<1>1. off \in Nat /\ p \in Nat
  BY DEF Offset
<1>2. \A i \in 0 .. n - 1 : hit(i) <=> c = b /\ p = off + (n - 1 - i)
  <2> TAKE i \in 0 .. n - 1
  <2>1. n - 1 - i \in 0 .. n - 1
    OBVIOUS
  <2> QED BY <2>1, ReachedBytes
<1>3. AddressOf(c, p) \in Address
  BY AddressSplit
<1>4. WriteWord(mem, AddressOf(b, off), v, n)[AddressOf(c, p)] =
        IF \E i \in 0 .. n - 1 : hit(i) THEN v[CHOOSE i \in 0 .. n - 1 : hit(i)] ELSE mem[AddressOf(c, p)]
  BY <1>3 DEF WriteWord
<1> HIDE DEF hit
<1>5. CASE Over(b, off, n, c, p)
  <2>1. off + n - 1 - p \in 0 .. n - 1 /\ \A i \in 0 .. n - 1 : hit(i) <=> i = off + n - 1 - p
    BY <1>1, <1>2, <1>5 DEF Over
  <2>2. (CHOOSE i \in 0 .. n - 1 : hit(i)) = off + n - 1 - p
    BY <2>1
  <2> QED BY <1>4, <1>5, <2>1, <2>2 DEF ByteBack, Laid
<1>6. CASE ~Over(b, off, n, c, p)
  <2>1. \A i \in 0 .. n - 1 : ~hit(i)
    BY <1>1, <1>2, <1>6 DEF Over
  <2> QED BY <1>4, <1>6, <2>1 DEF Laid
<1> QED BY <1>5, <1>6

LEMMA AggrAt ==
  ASSUME NEW b \in Base, NEW off \in Offset, NEW n \in Nat, off + n <= OffSpan, NEW mem, NEW v,
         NEW c \in Base, NEW p \in Offset
  PROVE  Laid(WriteAggr(mem, AddressOf(b, off), v, n), mem, b, off, n, c, p, ByteAt(v, off, p))
<1> DEFINE hit(i) == AddressOf(c, p) = Plus(AddressOf(b, off), i)
<1>1. off \in Nat /\ p \in Nat
  BY DEF Offset
<1>2. \A i \in 0 .. n - 1 : hit(i) <=> c = b /\ p = off + i
  BY ReachedBytes
<1>3. AddressOf(c, p) \in Address
  BY AddressSplit
<1>4. WriteAggr(mem, AddressOf(b, off), v, n)[AddressOf(c, p)] =
        IF \E i \in 0 .. n - 1 : hit(i) THEN v[CHOOSE i \in 0 .. n - 1 : hit(i)] ELSE mem[AddressOf(c, p)]
  BY <1>3 DEF WriteAggr
<1> HIDE DEF hit
<1>5. CASE Over(b, off, n, c, p)
  <2>1. p - off \in 0 .. n - 1 /\ \A i \in 0 .. n - 1 : hit(i) <=> i = p - off
    BY <1>1, <1>2, <1>5 DEF Over
  <2>2. (CHOOSE i \in 0 .. n - 1 : hit(i)) = p - off
    BY <2>1
  <2> QED BY <1>4, <1>5, <2>1, <2>2 DEF ByteAt, Laid
<1>6. CASE ~Over(b, off, n, c, p)
  <2>1. \A i \in 0 .. n - 1 : ~hit(i)
    BY <1>1, <1>2, <1>6 DEF Over
  <2> QED BY <1>4, <1>6, <2>1 DEF Laid
<1> QED BY <1>5, <1>6

-----------------------------------------------------------------------------
(* The invariant                                                           *)

Live(b, o) == b \in DOMAIN heap.entries /\ o \in DOMAIN heap.entries[b]
Stamped(b, o) == writer[AddressOf(b, o)]
Word(b, o, n) == [start |-> AddressOf(b, o), size |-> n, kind |-> "word"]

\* No store has reached a byte that is in no block.
OutsideUntouched ==
  \A b \in Base, o \in Offset :
    ~Live(b, o) => Stamped(b, o) = Fresh /\ array[AddressOf(b, o)] = Zero

\* A byte nobody wrote is zero in both, a byte of an aggregate the same in both.
BytesAgree ==
  \A b \in Base, o \in Offset :
    Live(b, o) =>
      /\ Stamped(b, o) = Fresh => heap.entries[b][o] = Zero /\ array[AddressOf(b, o)] = Zero
      /\ Stamped(b, o).kind = "aggr" => heap.entries[b][o] = array[AddressOf(b, o)]

\* Two bytes that mirror each other in a word, neither of them written since:
\* what the heap has in one, the array has in the other.
WordsMirror ==
  \A b \in Base, s \in Offset, n \in Nat : \A i \in 0 .. n - 1 :
    /\ Live(b, s + i) /\ Live(b, s + n - 1 - i)
    /\ Stamped(b, s + i) = Word(b, s, n) /\ Stamped(b, s + n - 1 - i) = Word(b, s, n)
    => heap.entries[b][s + i] = array[AddressOf(b, s + n - 1 - i)]

Agreement == gap = None => OutsideUntouched /\ BytesAgree /\ WordsMirror

HeapInv == TypeOK /\ HashCovers /\ Agreement /\ EnginesAgree

-----------------------------------------------------------------------------
(* Types                                                                   *)

LayoutBlock == [baseobj: Base, offset: Nat, size: 0 .. MaxSize]
Writers == [Address -> [start: Address, size: 0 .. MaxSize, kind: {"fresh", "word", "aggr"}]]
Gaps == [op: Ops, base: Nat, off: Nat, n: Nat]

LEMMA TypesAre == TypeOK <=> /\ heap \in Memories /\ layout \in Seq(LayoutBlock)
                             /\ array \in [Address -> Byte] /\ aggr \in Bytes(AggrSize)
                             /\ writer \in Writers /\ gap \in Gaps
  BY DEF TypeOK, LayoutBlock, Writers, Gaps

LEMMA StampType ==
  ASSUME TypeOK, NEW b \in Base, NEW o \in Offset, NEW n \in 0 .. MaxSize, NEW kind \in {"word", "aggr"}
  PROVE  Stamp(b, o, n, kind) \in Writers
<1>1. AddressOf(b, o) \in Address
  BY AddressSplit
<1>2. [start |-> AddressOf(b, o), size |-> n, kind |-> kind]
        \in [start: Address, size: 0 .. MaxSize, kind: {"fresh", "word", "aggr"}]
  BY <1>1
<1> QED BY <1>2 DEF TypeOK, Stamp, Writers

LEMMA WriteType ==
  ASSUME NEW mem \in [Address -> Byte], NEW a, NEW n \in Nat, NEW v \in Bytes(n)
  PROVE  WriteWord(mem, a, v, n) \in [Address -> Byte] /\ WriteAggr(mem, a, v, n) \in [Address -> Byte]
<1>1. \A i \in 0 .. n - 1 : v[i] \in Byte
  BY DEF Bytes
<1> QED BY <1>1 DEF WriteWord, WriteAggr

\* Both kinds of store; only the effect on the array differs.
LEMMA StoreType ==
  ASSUME TypeOK, NEW kind \in {"word", "aggr"}, NEW b \in Base, NEW o \in Offset,
         NEW n \in 1 .. MaxSize, NEW v \in Bytes(n), Store(kind, b, o, v, n)
  PROVE  TypeOK'
<1> USE TypesAre
<1>1. b \in Nat /\ o \in Nat /\ n \in Nat
  BY DEF Offset
<1>2. array' \in [Address -> Byte]
  BY <1>1, WriteType DEF Store
<1>3. layout' \in Seq(LayoutBlock) /\ aggr' \in Bytes(AggrSize)
  BY DEF Store
<1>4. CASE b \notin DOMAIN heap.entries \/ StoreThrows(heap, b, o, n)
  <2>1. heap' \in Memories /\ writer' \in Writers /\ gap' = Apart("store", b, o, n)
    BY <1>4 DEF Store
  <2>2. gap' \in Gaps
    BY <1>1, <2>1 DEF Apart, Gaps, Ops
  <2> QED BY <1>2, <1>3, <2>1, <2>2, TypesAre DEF TypeOK, LayoutBlock, Writers, Gaps
<1>5. CASE ~(b \notin DOMAIN heap.entries \/ StoreThrows(heap, b, o, n))
  <2>1. heap' = StoreValue(heap, b, o, v) /\ writer' = Stamp(b, o, n, kind) /\ gap' = gap
    BY <1>5 DEF Store
  <2>2. heap' \in Memories
    BY <1>1, <1>5, <2>1, StoreShape
  <2>3. writer' \in Writers
    BY <2>1, StampType
  <2>4. gap' \in Gaps
    BY <2>1
  <2> QED BY <1>2, <1>3, <2>2, <2>3, <2>4 DEF TypeOK, LayoutBlock, Writers, Gaps
<1> QED BY <1>4, <1>5

LEMMA InsertType ==
  ASSUME TypeOK, InsertValue
  PROVE  TypeOK'
<1> USE TypesAre
<1>1. PICK n \in WordSizes : \E off \in 0 .. AggrSize - n, v \in Bytes(n) :
        IF InsertRaises(AggrSize, off, n) \/ Insert(aggr, off, v, n) # Overlay(aggr, off, v)
        THEN gap' = Apart("insert", 0, off, n) /\ UNCHANGED aggr
        ELSE aggr' = Overlay(aggr, off, v) /\ UNCHANGED gap
  BY DEF InsertValue
<1>2. PICK off \in 0 .. AggrSize - n, v \in Bytes(n) :
        IF InsertRaises(AggrSize, off, n) \/ Insert(aggr, off, v, n) # Overlay(aggr, off, v)
        THEN gap' = Apart("insert", 0, off, n) /\ UNCHANGED aggr
        ELSE aggr' = Overlay(aggr, off, v) /\ UNCHANGED gap
  BY <1>1
<1>3. n \in Nat /\ off \in Nat /\ AggrSize \in Nat
  OBVIOUS
<1>4. Apart("insert", 0, off, n) \in Gaps
  BY <1>3 DEF Apart, Gaps, Ops
<1>5. Overlay(aggr, off, v) \in Bytes(AggrSize)
  BY <1>3, OverlayBytes
<1>6. gap' \in Gaps /\ aggr' \in Bytes(AggrSize)
  BY <1>2, <1>4, <1>5
<1> QED BY <1>6 DEF InsertValue, TypeOK, LayoutBlock, Writers, Gaps

LEMMA InitType == Init => TypeOK
<1> SUFFICES ASSUME Init PROVE TypeOK
  OBVIOUS
<1>1. heap \in Memories
  BY EmptyShape DEF Init
<1>2. layout \in Seq([baseobj: Base, offset: Nat, size: 0 .. MaxSize])
  BY DEF Init
<1>3. array \in [Address -> Byte] /\ aggr \in Bytes(AggrSize)
  BY DEF Init, Bytes
<1>4. writer \in Writers
  <2>1. 0 \in Base \/ TRUE
    OBVIOUS
  <2>2. \A x \in Address : 0 \in Address
    BY DEF Address
  <2> QED BY <2>2 DEF Init, Fresh, Writers
<1>5. gap \in Gaps
  BY DEF Init, None, Gaps, Ops
<1> QED BY <1>1, <1>2, <1>3, <1>4, <1>5 DEF TypeOK, Writers, Gaps

LEMMA NextType ==
  ASSUME TypeOK, [Next]_vars
  PROVE  TypeOK'
<1> USE TypesAre
<1>1. ASSUME CreateBlock PROVE TypeOK'
  <2> DEFINE b == Head(layout)
  <2>1. b \in LayoutBlock /\ Tail(layout) \in Seq(LayoutBlock)
    BY <1>1, HeadTailProperties DEF CreateBlock
  <2> HIDE DEF b
  <2>2. b.baseobj \in Base /\ b.offset \in Nat /\ b.size \in 0 .. MaxSize /\ b.baseobj \in Nat /\ b.size \in Nat
    <3>1. b.baseobj \in Base /\ b.offset \in Nat /\ b.size \in 0 .. MaxSize
      BY <2>1 DEF LayoutBlock
    <3> HIDE TypesAre
    <3> QED BY <3>1, BasesAreNumbers, SizesAreNumbers
  <2>3. CASE CanAllocate(heap, b.baseobj, b.offset)
    <3>1. heap' = Allocate(heap, b.baseobj, b.size) /\ layout' = Tail(layout) /\ gap' = gap
      BY <1>1, <2>3 DEF CreateBlock, b
    <3>2. heap' \in Memories
      BY <2>2, <2>3, <3>1, AllocateShape DEF CanAllocate, Grown
    <3> QED BY <1>1, <2>1, <3>1, <3>2 DEF CreateBlock, TypeOK, LayoutBlock, Writers, Gaps
  <2>4. CASE ~CanAllocate(heap, b.baseobj, b.offset)
    <3>1. heap' = heap /\ layout' = layout /\ gap' = Apart("layout", b.baseobj, b.offset, b.size)
      BY <1>1, <2>4 DEF CreateBlock, b
    <3>2. gap' \in Gaps
      BY <2>2, <3>1 DEF Apart, Gaps, Ops
    <3> QED BY <1>1, <3>1, <3>2 DEF CreateBlock, TypeOK, LayoutBlock, Writers, Gaps
  <2> QED BY <2>3, <2>4
<1>2. ASSUME NEW n \in 1 .. MaxSize, Alloca(n) PROVE TypeOK'
  <2>1. heap.next \in Base /\ heap.next \in Nat /\ n \in Nat /\ n \in 0 .. MaxSize
    <3>1. heap.next \in Base
      BY <1>2 DEF Alloca
    <3>2. n \in Nat /\ n \in 0 .. MaxSize
      OBVIOUS
    <3> QED BY <3>1, <3>2, BasesAreNumbers
  <2>2. heap' \in Memories
    BY <1>2, <2>1, AllocateShape DEF Alloca, CanAllocate, Grown
  <2>3. gap' \in Gaps
    BY <1>2, <2>1 DEF Alloca, Apart, Gaps, Ops, None
  <2> QED BY <1>2, <2>2, <2>3 DEF Alloca, TypeOK, LayoutBlock, Writers, Gaps
<1>3. ASSUME StoreWord PROVE TypeOK'
  <2>1. PICK b \in Base, o \in Offset, n \in WordSizes : \E v \in Bytes(n) : Store("word", b, o, v, n)
    BY <1>3 DEF StoreWord
  <2> QED BY <2>1, StoreType
<1>4. ASSUME StoreAggr PROVE TypeOK'
  BY <1>4, StoreType DEF StoreAggr
<1>5. ASSUME LoadWord PROVE TypeOK'
  <2>1. PICK b \in Base, o \in Offset, n \in WordSizes : gap' = None \/ gap' = Apart("load", b, o, n)
    BY <1>5 DEF LoadWord
  <2>2. b \in Nat /\ o \in Nat /\ n \in Nat
    BY DEF Offset
  <2>3. gap' \in Gaps
    BY <2>1, <2>2 DEF Apart, Gaps, Ops, None
  <2> QED BY <1>5, <2>3 DEF LoadWord, TypeOK, LayoutBlock, Writers, Gaps
<1>6. ASSUME LoadAggr PROVE TypeOK'
  <2>1. PICK b \in Base, o \in Offset : gap' = Apart("loadaggr", b, o, AggrSize)
    BY <1>6 DEF LoadAggr
  <2>2. b \in Nat /\ o \in Nat /\ AggrSize \in Nat
    BY DEF Offset
  <2>3. gap' \in Gaps
    BY <2>1, <2>2 DEF Apart, Gaps, Ops
  <2> QED BY <1>6, <2>3 DEF LoadAggr, TypeOK, LayoutBlock, Writers, Gaps
<1>7. ASSUME ExtractValue PROVE TypeOK'
  <2>1. PICK n \in WordSizes : \E off \in 0 .. AggrSize - n :
          gap' = None \/ gap' = Apart("extract", 0, off, n) \/ gap' = Apart("extractaggr", 0, off, n)
    BY <1>7 DEF ExtractValue
  <2>2. PICK off \in 0 .. AggrSize - n :
          gap' = None \/ gap' = Apart("extract", 0, off, n) \/ gap' = Apart("extractaggr", 0, off, n)
    BY <2>1
  <2>3. off \in Nat /\ n \in Nat
    OBVIOUS
  <2>4. gap' \in Gaps
    BY <2>2, <2>3 DEF Apart, Gaps, Ops, None
  <2> QED BY <1>7, <2>4 DEF ExtractValue, TypeOK, LayoutBlock, Writers, Gaps
<1>8. CASE UNCHANGED vars
  BY <1>8 DEF vars, TypeOK
<1> QED BY <1>1, <1>2, <1>3, <1>4, <1>5, <1>6, <1>7, <1>8, InsertType DEF Next

\* The memories keep their types: blocks are byte strings of bounded size.
THEOREM MemoryTypes == Spec => []TypeOK
  BY InitType, NextType, PTL DEF Spec

-----------------------------------------------------------------------------
(* The hash                                                                *)

LEMMA AllocateCovers ==
  ASSUME TypeOK, HashCovers, NEW b \in Base, NEW n \in 0 .. MaxSize, b \notin DOMAIN heap.entries,
         heap' = Allocate(heap, b, n)
  PROVE  HashCovers'
<1> DEFINE old == heap.allocated
           new == heap'.allocated
<1>1. heap \in Memories
  BY DEF TypeOK
<1>2. DOMAIN heap'.entries = DOMAIN heap.entries \cup {b} /\ new = Append(old, b)
  <2>1. Grown(heap, b, n, heap')
    BY <1>1, AllocateShape
  <2> QED BY <2>1 DEF Grown
<1>3. old \in Seq(Base)
  BY <1>1, MemoryShape
<1>4. /\ Len(new) = Len(old) + 1 /\ new[Len(old) + 1] = b /\ Len(old) \in Nat
      /\ \A i \in 1 .. Len(old) : new[i] = old[i]
  BY <1>2, <1>3, AppendProperties
<1>5. DOMAIN heap.entries = { old[i] : i \in 1 .. Len(old) }
  BY DEF HashCovers
<1>6. \A i, j \in 1 .. Len(old) : i # j => old[i] # old[j]
  BY DEF HashCovers
<1> HIDE DEF old, new
<1>7. { new[i] : i \in 1 .. Len(new) } = { old[i] : i \in 1 .. Len(old) } \cup {b}
  <2>1. 1 .. Len(new) = (1 .. Len(old)) \cup {Len(old) + 1}
    BY <1>4
  <2> QED BY <1>4, <2>1
<1>8. DOMAIN heap'.entries = { new[i] : i \in 1 .. Len(new) }
  BY <1>2, <1>5, <1>7
<1>9. \A i \in 1 .. Len(old) : old[i] # b
  BY <1>5
<1>10. ASSUME NEW i \in 1 .. Len(new), NEW j \in 1 .. Len(new), i # j PROVE new[i] # new[j]
  <2>1. CASE i \in 1 .. Len(old) /\ j \in 1 .. Len(old)
    BY <1>4, <1>6, <1>10, <2>1
  <2>2. CASE i \notin 1 .. Len(old)
    <3>1. i = Len(old) + 1 /\ j \in 1 .. Len(old)
      BY <1>4, <1>10, <2>2
    <3> QED BY <1>4, <1>9, <3>1
  <2>3. CASE j \notin 1 .. Len(old)
    <3>1. j = Len(old) + 1 /\ i \in 1 .. Len(old)
      BY <1>4, <1>10, <2>3
    <3> QED BY <1>4, <1>9, <3>1
  <2> QED BY <2>1, <2>2, <2>3
<1> QED BY <1>8, <1>10 DEF HashCovers, new

LEMMA SameBlocksCover ==
  ASSUME HashCovers, heap'.allocated = heap.allocated, DOMAIN heap'.entries = DOMAIN heap.entries
  PROVE  HashCovers'
  BY DEF HashCovers

\* What an action does to the memories: nothing to the heap, a new block, or a
\* store inside a block.
NewBlockStep ==
  /\ UNCHANGED <<array, writer>>
  /\ \E b \in Base, n \in 0 .. MaxSize : b \notin DOMAIN heap.entries /\ heap' = Allocate(heap, b, n)

StoreStep(kind, b, o, n, v) ==
  /\ b \in DOMAIN heap.entries /\ InBlock(heap, b, o, n)
  /\ heap' = StoreValue(heap, b, o, v)
  /\ writer' = Stamp(b, o, n, kind)
  /\ array' = IF kind = "word" THEN WriteWord(array, AddressOf(b, o), v, n)
              ELSE WriteAggr(array, AddressOf(b, o), v, n)

QuietStep == UNCHANGED <<heap, writer>> /\ (array' = array \/ gap' # None)

LEMMA StoreCases ==
  ASSUME NEW kind, NEW b \in Base, NEW o \in Offset, NEW n \in Nat, NEW v, Store(kind, b, o, v, n)
  PROVE  QuietStep \/ StoreStep(kind, b, o, n, v)
<1>1. CASE b \notin DOMAIN heap.entries \/ StoreThrows(heap, b, o, n)
  BY <1>1 DEF Store, QuietStep, Apart, None
<1>2. CASE ~(b \notin DOMAIN heap.entries \/ StoreThrows(heap, b, o, n))
  <2>1. b \in DOMAIN heap.entries /\ InBlock(heap, b, o, n)
    BY <1>2 DEF StoreThrows
  <2> QED BY <1>2, <2>1 DEF Store, StoreStep
<1> QED BY <1>1, <1>2

LEMMA MemorySteps ==
  ASSUME TypeOK, [Next]_vars
  PROVE  \/ QuietStep \/ NewBlockStep
         \/ \E kind \in {"word", "aggr"}, b \in Base, o \in Offset, n \in 1 .. MaxSize : \E v \in Bytes(n) :
              StoreStep(kind, b, o, n, v)
<1>1. ASSUME CreateBlock PROVE QuietStep \/ NewBlockStep
  <2> DEFINE b == Head(layout)
  <2>1. b \in LayoutBlock
    BY <1>1, HeadTailProperties, TypesAre DEF CreateBlock
  <2> HIDE DEF b
  <2>2. b.baseobj \in Base /\ b.size \in 0 .. MaxSize
    BY <2>1 DEF LayoutBlock
  <2>3. CASE CanAllocate(heap, b.baseobj, b.offset)
    <3>1. heap' = Allocate(heap, b.baseobj, b.size) /\ UNCHANGED <<array, writer>>
      BY <1>1, <2>3 DEF CreateBlock, b
    <3> QED BY <2>2, <2>3, <3>1 DEF NewBlockStep, CanAllocate
  <2>4. CASE ~CanAllocate(heap, b.baseobj, b.offset)
    BY <1>1, <2>4 DEF CreateBlock, QuietStep, b
  <2> QED BY <2>3, <2>4
<1>2. ASSUME NEW n \in 1 .. MaxSize, Alloca(n) PROVE QuietStep \/ NewBlockStep
  <2>1. heap.next \in Base /\ UNCHANGED <<array, writer>>
    BY <1>2 DEF Alloca
  <2>2. CASE CanAllocate(heap, heap.next, 0)
    <3>1. heap' = Allocate(heap, heap.next, n) /\ heap.next \notin DOMAIN heap.entries
      BY <1>2, <2>2 DEF Alloca, CanAllocate
    <3>2. n \in 0 .. MaxSize
      OBVIOUS
    <3> QED BY <2>1, <3>1, <3>2 DEF NewBlockStep
  <2>3. CASE ~CanAllocate(heap, heap.next, 0)
    BY <1>2, <2>3 DEF Alloca, QuietStep
  <2> QED BY <2>2, <2>3
<1>3. ASSUME StoreWord
      PROVE  QuietStep \/ \E b \in Base, o \in Offset, n \in 1 .. MaxSize : \E v \in Bytes(n) : StoreStep("word", b, o, n, v)
  <2>1. PICK b \in Base, o \in Offset, n \in WordSizes : \E v \in Bytes(n) : Store("word", b, o, v, n)
    BY <1>3 DEF StoreWord
  <2>2. n \in 1 .. MaxSize /\ n \in Nat
    OBVIOUS
  <2> QED BY <2>1, <2>2, StoreCases
<1>4. ASSUME StoreAggr
      PROVE  QuietStep \/ \E b \in Base, o \in Offset, n \in 1 .. MaxSize : \E v \in Bytes(n) : StoreStep("aggr", b, o, n, v)
  <2>1. PICK b \in Base, o \in Offset : Store("aggr", b, o, aggr, AggrSize)
    BY <1>4 DEF StoreAggr
  <2>2. aggr \in Bytes(AggrSize) /\ AggrSize \in 1 .. MaxSize /\ AggrSize \in Nat
    BY TypesAre
  <2> QED BY <2>1, <2>2, StoreCases
<1>5. ASSUME LoadWord \/ LoadAggr \/ InsertValue \/ ExtractValue \/ UNCHANGED vars PROVE QuietStep
  BY <1>5 DEF LoadWord, LoadAggr, InsertValue, ExtractValue, vars, QuietStep
<1> QED BY <1>1, <1>2, <1>3, <1>4, <1>5 DEF Next

LEMMA NextCovers ==
  ASSUME TypeOK, HashCovers, [Next]_vars
  PROVE  HashCovers'
<1>1. CASE QuietStep
  BY <1>1 DEF HashCovers, QuietStep
<1>2. CASE NewBlockStep
  BY <1>2, AllocateCovers DEF NewBlockStep
<1>3. ASSUME NEW kind \in {"word", "aggr"}, NEW b \in Base, NEW o \in Offset, NEW n \in 1 .. MaxSize,
             NEW v \in Bytes(n), StoreStep(kind, b, o, n, v)
      PROVE  HashCovers'
  <2>1. heap \in Memories /\ o \in Nat /\ n \in Nat /\ b \in DOMAIN heap.entries
    BY <1>3 DEF TypeOK, Offset, StoreStep
  <2> QED BY <1>3, <2>1, StoreShape, SameBlocksCover DEF StoreStep
<1> QED BY <1>1, <1>2, <1>3, MemorySteps

\* Every block is hashed, once: two heaps that differ in a byte offer the hash
\* different inputs.
THEOREM BlocksHashed == Spec => []HashCovers
<1>1. Init => TypeOK /\ HashCovers
  <2> SUFFICES ASSUME Init PROVE TypeOK /\ HashCovers
    OBVIOUS
  <2>1. heap.allocated = <<>> /\ DOMAIN heap.entries = {}
    BY EmptyShape DEF Init
  <2> QED BY <2>1, InitType DEF HashCovers
<1>2. TypeOK /\ HashCovers /\ [Next]_vars => (TypeOK /\ HashCovers)'
  BY NextType, NextCovers
<1> QED BY <1>1, <1>2, PTL DEF Spec

-----------------------------------------------------------------------------
(* The two memories                                                        *)

\* A block is within the offsets of a pointer.
LEMMA BlockOffsets ==
  ASSUME NEW m \in Memories, NEW b \in DOMAIN m.entries
  PROVE  DOMAIN m.entries[b] \subseteq Offset
<1>1. m.entries[b] \in Blocks
  BY MemoryShape
<1>2. Size(m.entries[b]) \in 0 .. MaxSize /\ DOMAIN m.entries[b] = 0 .. Size(m.entries[b]) - 1
  BY <1>1, BlockShape
<1> QED BY <1>2 DEF Offset

LEMMA AllocateAgrees ==
  ASSUME TypeOK, OutsideUntouched, BytesAgree, WordsMirror, UNCHANGED <<array, writer>>,
         NEW b \in Base, NEW n \in 0 .. MaxSize, b \notin DOMAIN heap.entries, heap' = Allocate(heap, b, n)
  PROVE  (OutsideUntouched /\ BytesAgree /\ WordsMirror)'
<1>1. heap \in Memories
  BY DEF TypeOK
<1>2. /\ heap' \in Memories
      /\ DOMAIN heap'.entries = DOMAIN heap.entries \cup {b}
      /\ \A x \in DOMAIN heap.entries : heap'.entries[x] = heap.entries[x]
      /\ DOMAIN heap'.entries[b] = 0 .. n - 1
      /\ \A i \in DOMAIN heap'.entries[b] : heap'.entries[b][i] = Zero
  <2>1. Grown(heap, b, n, heap')
    BY <1>1, AllocateShape
  <2> QED BY <2>1 DEF Grown
<1>3. \A c \in Base, p \in Offset : Live(c, p) => Live(c, p)' /\ heap'.entries[c][p] = heap.entries[c][p]
  BY <1>2 DEF Live
<1>4. \A c \in Base, p \in Offset :
        Live(c, p)' /\ ~Live(c, p) =>
          heap'.entries[c][p] = Zero /\ Stamped(c, p) = Fresh /\ array[AddressOf(c, p)] = Zero
  BY <1>2 DEF Live, OutsideUntouched
<1>5. \A c \in Base, p \in Offset : Stamped(c, p)' = Stamped(c, p) /\ array'[AddressOf(c, p)] = array[AddressOf(c, p)]
  BY DEF Stamped
<1>6. OutsideUntouched'
  BY <1>3, <1>5 DEF OutsideUntouched
<1>7. BytesAgree'
  BY <1>3, <1>4, <1>5 DEF BytesAgree, Fresh
<1>8. WordsMirror'
  <2> SUFFICES ASSUME NEW c \in Base, NEW s \in Offset, NEW k \in Nat, NEW i \in 0 .. k - 1,
                      Live(c, s + i)', Live(c, s + k - 1 - i)',
                      Stamped(c, s + i)' = Word(c, s, k), Stamped(c, s + k - 1 - i)' = Word(c, s, k)
               PROVE  heap'.entries[c][s + i] = array'[AddressOf(c, s + k - 1 - i)]
    BY DEF WordsMirror, Word
  <2>1. \A p : Live(c, p)' => p \in Offset
    <3>1. \A x \in DOMAIN heap'.entries : DOMAIN heap'.entries[x] \subseteq Offset
      BY <1>2, BlockOffsets
    <3> QED BY <3>1 DEF Live
  <2>2. s + i \in Offset /\ s + k - 1 - i \in Offset
    BY <2>1
  <2>3. Word(c, s, k) # Fresh
    BY DEF Word, Fresh
  <2>4. Live(c, s + i) /\ Live(c, s + k - 1 - i)
    BY <1>4, <1>5, <2>2, <2>3
  <2>5. heap.entries[c][s + i] = array[AddressOf(c, s + k - 1 - i)]
    BY <1>5, <2>2, <2>4 DEF WordsMirror
  <2>6. heap'.entries[c][s + i] = heap.entries[c][s + i]
    BY <1>3, <2>2, <2>4
  <2> QED BY <2>5, <2>6
<1> QED BY <1>6, <1>7, <1>8

\* What a store inside a block does to a byte: to whether it exists, to its
\* stamp and to its value in the heap.
StoreEffect(kind, b, o, n, v, c, p) ==
  /\ Live(c, p)' <=> Live(c, p)
  /\ Over(b, o, n, c, p) => Live(c, p)
  /\ Over(b, o, n, c, p) => Stamped(c, p)' = [start |-> AddressOf(b, o), size |-> n, kind |-> kind]
  /\ ~Over(b, o, n, c, p) => Stamped(c, p)' = Stamped(c, p)
  /\ Over(b, o, n, c, p) => heap'.entries[c][p] = ByteAt(v, o, p)
  /\ Live(c, p) /\ ~Over(b, o, n, c, p) => heap'.entries[c][p] = heap.entries[c][p]
  /\ o + n <= OffSpan

LEMMA StoreAt ==
  ASSUME TypeOK, NEW kind, NEW b \in Base, NEW o \in Offset, NEW n \in 1 .. MaxSize, NEW v \in Bytes(n),
         StoreStep(kind, b, o, n, v), NEW c \in Base, NEW p \in Offset
  PROVE  StoreEffect(kind, b, o, n, v, c, p)
<1>1. heap \in Memories /\ b \in DOMAIN heap.entries /\ o \in Nat /\ p \in Nat /\ n \in Nat
  BY DEF TypeOK, StoreStep, Offset
<1>2. /\ DOMAIN heap'.entries = DOMAIN heap.entries
      /\ \A x \in DOMAIN heap.entries : x # b => heap'.entries[x] = heap.entries[x]
      /\ heap'.entries[b] = Overlay(heap.entries[b], o, v)
  BY <1>1, StoreShape DEF StoreStep
<1>3. heap.entries[b] \in Blocks
  BY <1>1, MemoryShape
<1>4. Size(heap.entries[b]) \in 0 .. MaxSize /\ heap.entries[b] \in Bytes(Size(heap.entries[b]))
      /\ DOMAIN heap.entries[b] = 0 .. Size(heap.entries[b]) - 1
  BY <1>3, BlockShape
<1>5. o + n <= Size(heap.entries[b])
  BY <1>1, <1>4 DEF StoreStep, InBlock
<1>6. o + n <= OffSpan
  BY <1>1, <1>4, <1>5
<1>7. /\ DOMAIN Overlay(heap.entries[b], o, v) = DOMAIN heap.entries[b]
      /\ \A i \in DOMAIN heap.entries[b] : Overlay(heap.entries[b], o, v)[i] =
            IF o <= i /\ i < o + n THEN v[i - o] ELSE heap.entries[b][i]
  BY <1>1, <1>4, OverlayAt
<1>8. Live(c, p)' <=> Live(c, p)
  BY <1>1, <1>2, <1>7 DEF Live
<1>9. Over(b, o, n, c, p) => Live(c, p)
  BY <1>1, <1>4, <1>5 DEF Over, Live
<1>10. /\ Over(b, o, n, c, p) => Stamped(c, p)' = [start |-> AddressOf(b, o), size |-> n, kind |-> kind]
       /\ ~Over(b, o, n, c, p) => Stamped(c, p)' = Stamped(c, p)
  <2>1. Stamped(c, p)' = Stamp(b, o, n, kind)[AddressOf(c, p)]
    BY DEF StoreStep, Stamped
  <2>2. /\ Over(b, o, n, c, p) =>
             Stamp(b, o, n, kind)[AddressOf(c, p)] = [start |-> AddressOf(b, o), size |-> n, kind |-> kind]
        /\ ~Over(b, o, n, c, p) => Stamp(b, o, n, kind)[AddressOf(c, p)] = writer[AddressOf(c, p)]
    BY <1>1, <1>6, StampAt
  <2> QED BY <2>1, <2>2 DEF Stamped
<1>11. Over(b, o, n, c, p) => heap'.entries[c][p] = ByteAt(v, o, p)
  <2> SUFFICES ASSUME Over(b, o, n, c, p) PROVE heap'.entries[c][p] = ByteAt(v, o, p)
    OBVIOUS
  <2>1. c = b /\ p \in DOMAIN heap.entries[b] /\ o <= p /\ p < o + n
    BY <1>1, <1>4, <1>5 DEF Over
  <2> QED BY <1>2, <1>7, <2>1 DEF ByteAt
<1>12. Live(c, p) /\ ~Over(b, o, n, c, p) => heap'.entries[c][p] = heap.entries[c][p]
  <2>1. CASE c # b
    BY <1>2, <2>1 DEF Live
  <2>2. CASE c = b
    BY <1>1, <1>2, <1>7, <2>2 DEF Live, Over
  <2> QED BY <2>1, <2>2
<1> QED BY <1>6, <1>8, <1>9, <1>10, <1>11, <1>12 DEF StoreEffect

LEMMA StoreAgrees ==
  ASSUME TypeOK, OutsideUntouched, BytesAgree, WordsMirror,
         NEW kind \in {"word", "aggr"}, NEW b \in Base, NEW o \in Offset, NEW n \in 1 .. MaxSize,
         NEW v \in Bytes(n), StoreStep(kind, b, o, n, v)
  PROVE  (OutsideUntouched /\ BytesAgree /\ WordsMirror)'
<1> DEFINE Hit(c, p) == Over(b, o, n, c, p)
           mark == [start |-> AddressOf(b, o), size |-> n, kind |-> kind]
<1>1. n \in Nat /\ o \in Nat
  BY DEF Offset
<1>0. \A c \in Base, p \in Offset : StoreEffect(kind, b, o, n, v, c, p)
  BY StoreAt
<1>2. \A c \in Base, p \in Offset : (Live(c, p)' <=> Live(c, p)) /\ (Hit(c, p) => Live(c, p))
  BY <1>0 DEF StoreEffect
<1>3. \A c \in Base, p \in Offset :
        /\ Hit(c, p) => Stamped(c, p)' = mark
        /\ ~Hit(c, p) => Stamped(c, p)' = Stamped(c, p)
  BY <1>0 DEF StoreEffect
<1>4. \A c \in Base, p \in Offset :
        /\ Hit(c, p) => heap'.entries[c][p] = ByteAt(v, o, p)
        /\ Live(c, p) /\ ~Hit(c, p) => heap'.entries[c][p] = heap.entries[c][p]
  BY <1>0 DEF StoreEffect
<1>5. o + n <= OffSpan
  BY <1>0 DEF StoreEffect
<1>6. \A c \in Base, p \in Offset :
        /\ Hit(c, p) => array'[AddressOf(c, p)] = IF kind = "word" THEN ByteBack(v, o, n, p) ELSE ByteAt(v, o, p)
        /\ ~Hit(c, p) => array'[AddressOf(c, p)] = array[AddressOf(c, p)]
  <2> TAKE c \in Base, p \in Offset
  <2>1. Laid(WriteWord(array, AddressOf(b, o), v, n), array, b, o, n, c, p, ByteBack(v, o, n, p))
    BY <1>1, <1>5, WordAt
  <2>2. Laid(WriteAggr(array, AddressOf(b, o), v, n), array, b, o, n, c, p, ByteAt(v, o, p))
    BY <1>1, <1>5, AggrAt
  <2>3. CASE kind = "word"
    BY <2>1, <2>3 DEF StoreStep, Laid
  <2>4. CASE kind # "word"
    BY <2>2, <2>4 DEF StoreStep, Laid
  <2> QED BY <2>3, <2>4
<1>7. mark # Fresh /\ mark.kind = kind
  BY DEF Fresh
<1>8. OutsideUntouched'
  <2> HIDE DEF Hit, mark
  <2> QED BY <1>2, <1>3, <1>6 DEF OutsideUntouched
<1>9. BytesAgree'
  <2> HIDE DEF Hit, mark
  <2> SUFFICES ASSUME NEW c \in Base, NEW p \in Offset, Live(c, p)'
               PROVE  /\ Stamped(c, p)' = Fresh => heap'.entries[c][p] = Zero /\ array'[AddressOf(c, p)] = Zero
                      /\ Stamped(c, p)'.kind = "aggr" => heap'.entries[c][p] = array'[AddressOf(c, p)]
    BY DEF BytesAgree, Fresh
  <2>1. CASE Hit(c, p)
    BY <1>2, <1>3, <1>4, <1>6, <1>7, <2>1
  <2>2. CASE ~Hit(c, p)
    BY <1>2, <1>3, <1>4, <1>6, <2>2 DEF BytesAgree
  <2> QED BY <2>1, <2>2
<1>10. WordsMirror'
  <2> SUFFICES ASSUME NEW c \in Base, NEW s \in Offset, NEW k \in Nat, NEW i \in 0 .. k - 1,
                      Live(c, s + i)', Live(c, s + k - 1 - i)',
                      Stamped(c, s + i)' = Word(c, s, k), Stamped(c, s + k - 1 - i)' = Word(c, s, k)
               PROVE  heap'.entries[c][s + i] = array'[AddressOf(c, s + k - 1 - i)]
    BY DEF WordsMirror, Word
  <2> DEFINE p == s + i
             q == s + k - 1 - i
  <2>1. p \in Offset /\ q \in Offset
    <3>1. heap' \in Memories
      BY <1>1, StoreShape DEF StoreStep, TypeOK
    <3>2. \A x \in DOMAIN heap'.entries : DOMAIN heap'.entries[x] \subseteq Offset
      BY <3>1, BlockOffsets
    <3> QED BY <3>2 DEF Live
  <2>2. Live(c, p) /\ Live(c, q)
    BY <1>2, <2>1
  <2>3. CASE Word(c, s, k) = mark
    <3>1. AddressOf(c, s) = AddressOf(b, o) /\ k = n /\ kind = "word"
      BY <2>3 DEF Word
    <3>2. c = b /\ s = o
      BY <3>1, AddressTells
    <3>3. Hit(c, p) /\ Hit(c, q)
      BY <1>1, <3>1, <3>2 DEF Over
    <3>4. heap'.entries[c][p] = ByteAt(v, o, p) /\ array'[AddressOf(c, q)] = ByteBack(v, o, n, q)
      BY <1>4, <1>6, <2>1, <2>2, <3>1, <3>3
    <3>5. p - o = i /\ o + n - 1 - q = i
      BY <1>1, <3>1, <3>2
    <3> QED BY <3>4, <3>5 DEF ByteAt, ByteBack
  <2>4. CASE Word(c, s, k) # mark
    <3> HIDE DEF mark, Hit, p, q
    <3>1. Stamped(c, p)' = Word(c, s, k) /\ Stamped(c, q)' = Word(c, s, k)
      BY DEF p, q
    <3>2. ~Hit(c, p) /\ ~Hit(c, q)
      BY <1>3, <2>1, <2>4, <3>1
    <3>3. Stamped(c, p) = Word(c, s, k) /\ Stamped(c, q) = Word(c, s, k)
      BY <1>3, <2>1, <3>1, <3>2
    <3>4. heap.entries[c][p] = array[AddressOf(c, q)]
      BY <2>2, <3>3 DEF WordsMirror, p, q
    <3>5. heap'.entries[c][p] = array'[AddressOf(c, q)]
      BY <1>4, <1>6, <2>1, <2>2, <3>2, <3>4
    <3> QED BY <3>5 DEF p, q
  <2> QED BY <2>3, <2>4
<1> QED BY <1>8, <1>9, <1>10

\* A load of bytes that one store left together gives both engines the same.
LEMMA LoadsAgree ==
  ASSUME TypeOK, BytesAgree, WordsMirror,
         NEW b \in Base, NEW o \in Offset, NEW n \in 1 .. MaxSize, InsideBlock(b, o, n), Intact(b, o, n),
         NEW v \in LoadValue(heap, b, o, n)
  PROVE  v = Load(array, AddressOf(b, o), n)
<1>1. heap \in Memories /\ o \in Nat /\ n \in Nat /\ b \in DOMAIN heap.entries /\ InBlock(heap, b, o, n)
  BY DEF TypeOK, Offset, InsideBlock
<1>2. heap.entries[b] \in Blocks
  BY <1>1, MemoryShape
<1>3. Size(heap.entries[b]) \in 0 .. MaxSize /\ DOMAIN heap.entries[b] = 0 .. Size(heap.entries[b]) - 1
  BY <1>2, BlockShape
<1>4. o + n <= Size(heap.entries[b])
  BY <1>1, <1>3 DEF InBlock
<1>5. v = [i \in 0 .. n - 1 |-> heap.entries[b][o + i]]
  BY <1>1 DEF LoadValue
<1>6. Load(array, AddressOf(b, o), n) = [i \in 0 .. n - 1 |-> array[Plus(AddressOf(b, o), n - 1 - i)]]
  BY DEF Load
<1>7. ASSUME NEW i \in 0 .. n - 1
      PROVE  /\ o + i \in Offset /\ Live(b, o + i) /\ Plus(AddressOf(b, o), i) = AddressOf(b, o + i)
  <2>1. i \in Nat /\ o + i \in Nat /\ o + i < OffSpan /\ o + i \in DOMAIN heap.entries[b]
    BY <1>1, <1>3, <1>4
  <2>2. Plus(AddressOf(b, o), i) = AddressOf(b, o + i)
    BY <1>1, <2>1, AddressPlus
  <2>3. o + i \in Offset
    BY <2>1 DEF Offset
  <2>4. Live(b, o + i)
    BY <1>1, <2>1 DEF Live
  <2> QED BY <2>2, <2>3, <2>4
<1>8. ASSUME NEW i \in 0 .. n - 1
      PROVE  heap.entries[b][o + i] = array[AddressOf(b, o + (n - 1 - i))]
  <2> DEFINE j == n - 1 - i
  <2>1. j \in 0 .. n - 1
    BY <1>1
  <2>2. /\ Live(b, o + i) /\ Plus(AddressOf(b, o), i) = AddressOf(b, o + i) /\ o + i \in Offset
        /\ Live(b, o + j) /\ Plus(AddressOf(b, o), j) = AddressOf(b, o + j) /\ o + j \in Offset
    <3> HIDE DEF j
    <3> QED BY <1>7, <2>1
  <2>3. CASE \A k \in 0 .. n - 1 : writer[Plus(AddressOf(b, o), k)] = Word(b, o, n)
    <3>1. Stamped(b, o + i) = Word(b, o, n) /\ Stamped(b, o + j) = Word(b, o, n)
      <4> HIDE DEF j
      <4> QED BY <2>1, <2>2, <2>3 DEF Stamped
    <3>2. o + j = o + n - 1 - i
      BY <1>1
    <3> HIDE DEF j
    <3> HIDE DEF Word
    <3>4. Live(b, o + n - 1 - i) /\ Stamped(b, o + n - 1 - i) = Word(b, o, n)
      BY <2>2, <3>1, <3>2
    <3>3. heap.entries[b][o + i] = array[AddressOf(b, o + n - 1 - i)]
      BY <1>1, <2>2, <3>1, <3>4 DEF WordsMirror
    <3> QED BY <3>2, <3>3 DEF j
  <2>4. CASE n = 1 /\ writer[Plus(AddressOf(b, o), 0)].kind = "aggr"
    <3>1. i = 0 /\ j = 0
      <4>1. i \in 0 .. 0
        BY <2>4
      <4>2. n = 1
        BY <2>4
      <4>3. i = 0
        BY <4>1
      <4> QED BY <4>2, <4>3
    <3>2. Stamped(b, o + i).kind = "aggr"
      BY <2>2, <2>4, <3>1 DEF Stamped
    <3>3. heap.entries[b][o + i] = array[AddressOf(b, o + i)]
      BY <2>2, <3>2 DEF BytesAgree
    <3> QED BY <2>4, <3>1, <3>3
  <2>5. CASE \A k \in 0 .. n - 1 : writer[Plus(AddressOf(b, o), k)] = Fresh
    <3> HIDE DEF j
    <3>1. Stamped(b, o + i) = Fresh /\ Stamped(b, o + j) = Fresh
      BY <2>1, <2>2, <2>5 DEF Stamped
    <3>2. heap.entries[b][o + i] = Zero /\ array[AddressOf(b, o + j)] = Zero
      BY <2>2, <3>1 DEF BytesAgree
    <3> QED BY <3>2 DEF j
  <2> QED BY <2>3, <2>4, <2>5 DEF Intact, Word
<1>9. ASSUME NEW i \in 0 .. n - 1
      PROVE  heap.entries[b][o + i] = array[Plus(AddressOf(b, o), n - 1 - i)]
  <2>1. n - 1 - i \in 0 .. n - 1
    BY <1>1
  <2> QED BY <1>7, <1>8, <2>1
<1> QED BY <1>5, <1>6, <1>9

\* Building the bytes around a word gives the aggregate with the word laid over.
LEMMA InsertIsOverlay ==
  ASSUME NEW k \in Nat, NEW a \in Bytes(k), NEW off \in Nat, NEW n \in Nat, NEW v \in Bytes(n)
  PROVE  Insert(a, off, v, n) = Overlay(a, off, v)
<1>1. DOMAIN a = 0 .. k - 1 /\ DOMAIN v = 0 .. n - 1
  BY DEF Bytes
<1>2. \A i \in DOMAIN a : (i >= off /\ i < off + n) <=> (i >= off /\ i - off \in DOMAIN v)
  BY <1>1
<1> QED BY <1>2 DEF Insert, Overlay

LEMMA NoGapAgrees ==
  ASSUME gap' = None
  PROVE  EnginesAgree'
  BY DEF EnginesAgree, None

LEMMA NextAgrees ==
  ASSUME TypeOK, gap = None, BytesAgree, WordsMirror, Next
  PROVE  EnginesAgree'
<1>1. ASSUME CreateBlock PROVE EnginesAgree'
  <2> DEFINE b == Head(layout)
  <2>1. CASE CanAllocate(heap, b.baseobj, b.offset)
    BY <1>1, <2>1, NoGapAgrees DEF CreateBlock
  <2>2. CASE ~CanAllocate(heap, b.baseobj, b.offset)
    <3>1. heap' = heap /\ gap' = Apart("layout", b.baseobj, b.offset, b.size)
      BY <1>1, <2>2 DEF CreateBlock
    <3>2. b.baseobj \in DOMAIN heap.entries \/ b.offset # 0
      BY <2>2 DEF CanAllocate
    <3> HIDE DEF b
    <3> QED BY <3>1, <3>2 DEF EnginesAgree, Apart
  <2> QED BY <2>1, <2>2
<1>2. ASSUME NEW n \in 1 .. MaxSize, Alloca(n) PROVE EnginesAgree'
  <2>1. gap' = None \/ gap' = Apart("alloca", heap.next, 0, n)
    BY <1>2 DEF Alloca
  <2> QED BY <2>1, NoGapAgrees DEF EnginesAgree, Apart
<1>3. ASSUME NEW kind, NEW b \in Base, NEW o \in Offset, NEW n, NEW v, Store(kind, b, o, v, n)
      PROVE  EnginesAgree'
  <2>1. CASE b \notin DOMAIN heap.entries \/ StoreThrows(heap, b, o, n)
    <3>1. heap' = heap /\ gap' = Apart("store", b, o, n)
      BY <1>3, <2>1 DEF Store
    <3>2. ~InsideBlock(b, o, n)
      BY <2>1 DEF InsideBlock, StoreThrows
    <3>3. ~InsideBlock(b, o, n)'
      BY <3>1, <3>2 DEF InsideBlock
    <3> QED BY <3>1, <3>3 DEF EnginesAgree, Apart
  <2>2. CASE ~(b \notin DOMAIN heap.entries \/ StoreThrows(heap, b, o, n))
    BY <1>3, <2>2, NoGapAgrees DEF Store
  <2> QED BY <2>1, <2>2
<1>4. ASSUME LoadWord PROVE EnginesAgree'
  <2>1. PICK b \in Base, o \in Offset, n \in WordSizes :
          IF LoadThrows(heap, b, o, n)
          THEN gap' = Apart("load", b, o, n)
          ELSE \E v \in LoadValue(heap, b, o, n) :
                 gap' = IF v = Load(array, AddressOf(b, o), n) THEN None ELSE Apart("load", b, o, n)
    BY <1>4 DEF LoadWord
  <2>2. heap' = heap /\ writer' = writer
    BY <1>4 DEF LoadWord
  <2>3. n \in 1 .. MaxSize
    OBVIOUS
  <2>4. ASSUME gap' = Apart("load", b, o, n), InsideBlock(b, o, n) => ~Intact(b, o, n) PROVE EnginesAgree'
    <3>1. InsideBlock(b, o, n)' => ~Intact(b, o, n)'
      BY <2>2, <2>4 DEF InsideBlock, Intact
    <3> QED BY <2>4, <3>1 DEF EnginesAgree, Apart
  <2>5. CASE LoadThrows(heap, b, o, n)
    BY <2>1, <2>4, <2>5 DEF LoadThrows, InsideBlock
  <2>6. CASE ~LoadThrows(heap, b, o, n)
    <3>1. PICK v \in LoadValue(heap, b, o, n) :
            gap' = IF v = Load(array, AddressOf(b, o), n) THEN None ELSE Apart("load", b, o, n)
      BY <2>1, <2>6
    <3>2. CASE v = Load(array, AddressOf(b, o), n)
      BY <3>1, <3>2, NoGapAgrees
    <3>3. CASE v # Load(array, AddressOf(b, o), n)
      BY <2>3, <2>4, <3>1, <3>3, LoadsAgree
    <3> QED BY <3>2, <3>3
  <2> QED BY <2>5, <2>6
<1>5. ASSUME LoadAggr PROVE EnginesAgree'
  BY <1>5 DEF LoadAggr, EnginesAgree, Apart
<1>6. ASSUME InsertValue PROVE EnginesAgree'
  <2>1. PICK n \in WordSizes : \E off \in 0 .. AggrSize - n, v \in Bytes(n) :
          IF InsertRaises(AggrSize, off, n) \/ Insert(aggr, off, v, n) # Overlay(aggr, off, v)
          THEN gap' = Apart("insert", 0, off, n) /\ UNCHANGED aggr
          ELSE aggr' = Overlay(aggr, off, v) /\ UNCHANGED gap
    BY <1>6 DEF InsertValue
  <2>2. PICK off \in 0 .. AggrSize - n, v \in Bytes(n) :
          IF InsertRaises(AggrSize, off, n) \/ Insert(aggr, off, v, n) # Overlay(aggr, off, v)
          THEN gap' = Apart("insert", 0, off, n) /\ UNCHANGED aggr
          ELSE aggr' = Overlay(aggr, off, v) /\ UNCHANGED gap
    BY <2>1
  <2>3. n \in Nat /\ off \in Nat /\ AggrSize \in Nat /\ aggr \in Bytes(AggrSize)
    BY DEF TypeOK
  <2>4. Insert(aggr, off, v, n) = Overlay(aggr, off, v)
    BY <2>3, InsertIsOverlay
  <2>5. CASE InsertRaises(AggrSize, off, n)
    <3>1. gap' = Apart("insert", 0, off, n) /\ n = AggrSize
      BY <2>2, <2>5 DEF InsertRaises
    <3> QED BY <3>1 DEF EnginesAgree, Apart
  <2>6. CASE ~InsertRaises(AggrSize, off, n)
    BY <2>2, <2>4, <2>6, NoGapAgrees
  <2> QED BY <2>5, <2>6
<1>7. ASSUME ExtractValue PROVE EnginesAgree'
  <2>1. PICK n \in WordSizes : \E off \in 0 .. AggrSize - n :
          LET v == [i \in 0 .. n - 1 |-> aggr[off + i]] IN
          \/ gap' = IF ExtractBase(aggr, off, n) = v THEN None ELSE Apart("extract", 0, off, n)
          \/ gap' = IF ExtractAggregate(aggr, off, n) = v THEN None ELSE Apart("extractaggr", 0, off, n)
    BY <1>7 DEF ExtractValue
  <2>2. PICK off \in 0 .. AggrSize - n :
          LET v == [i \in 0 .. n - 1 |-> aggr[off + i]] IN
          \/ gap' = IF ExtractBase(aggr, off, n) = v THEN None ELSE Apart("extract", 0, off, n)
          \/ gap' = IF ExtractAggregate(aggr, off, n) = v THEN None ELSE Apart("extractaggr", 0, off, n)
    BY <2>1
  <2>3. ExtractAggregate(aggr, off, n) = [i \in 0 .. n - 1 |-> aggr[off + i]]
    BY DEF ExtractAggregate
  <2>4. off = 0 => ExtractBase(aggr, off, n) = [i \in 0 .. n - 1 |-> aggr[off + i]]
    BY DEF ExtractBase
  <2>5. gap' = None \/ (gap' = Apart("extract", 0, off, n) /\ off # 0)
    BY <2>2, <2>3, <2>4
  <2> QED BY <2>5, NoGapAgrees DEF EnginesAgree, Apart
<1> QED BY <1>1, <1>2, <1>3, <1>4, <1>5, <1>6, <1>7 DEF Next, StoreWord, StoreAggr

LEMMA InitAgrees == Init => HeapInv
<1> SUFFICES ASSUME Init PROVE HeapInv
  OBVIOUS
<1>1. heap.allocated = <<>> /\ DOMAIN heap.entries = {} /\ gap = None
  BY EmptyShape DEF Init
<1>2. HashCovers
  BY <1>1 DEF HashCovers
<1>3. \A b \in Base, o \in Offset : Stamped(b, o) = Fresh /\ array[AddressOf(b, o)] = Zero
  BY AddressSplit DEF Init, Stamped
<1>4. OutsideUntouched /\ BytesAgree /\ WordsMirror
  BY <1>1, <1>3 DEF OutsideUntouched, BytesAgree, WordsMirror, Live
<1>5. EnginesAgree
  BY <1>1 DEF EnginesAgree, None
<1> QED BY <1>2, <1>4, <1>5, InitType DEF HeapInv, Agreement

LEMMA NextInv ==
  ASSUME HeapInv, [Next]_vars
  PROVE  HeapInv'
<1>1. TypeOK /\ HashCovers /\ Agreement /\ EnginesAgree
  BY DEF HeapInv
<1>2. TypeOK' /\ HashCovers'
  BY <1>1, NextType, NextCovers
<1>3. CASE UNCHANGED vars
  <2>1. Agreement'
    BY <1>1, <1>3 DEF vars, Agreement, OutsideUntouched, BytesAgree, WordsMirror, Live, Stamped, Word, None
  <2>2. EnginesAgree'
    BY <1>1, <1>3 DEF vars, EnginesAgree, InsideBlock, Intact
  <2> QED BY <1>2, <2>1, <2>2 DEF HeapInv
<1>4. CASE Next
  <2>1. gap = None /\ OutsideUntouched /\ BytesAgree /\ WordsMirror
    BY <1>1, <1>4 DEF Next, Agreement
  <2>2. EnginesAgree'
    BY <1>1, <1>4, <2>1, NextAgrees
  <2>3. ASSUME gap' = None PROVE (OutsideUntouched /\ BytesAgree /\ WordsMirror)'
    <3>1. CASE QuietStep
      BY <2>1, <2>3, <3>1 DEF QuietStep, OutsideUntouched, BytesAgree, WordsMirror, Live, Stamped, Word
    <3>2. CASE NewBlockStep
      BY <1>1, <2>1, <3>2, AllocateAgrees DEF NewBlockStep
    <3>3. ASSUME NEW kind \in {"word", "aggr"}, NEW b \in Base, NEW o \in Offset, NEW n \in 1 .. MaxSize,
                 NEW v \in Bytes(n), StoreStep(kind, b, o, n, v)
          PROVE  (OutsideUntouched /\ BytesAgree /\ WordsMirror)'
      BY <1>1, <2>1, <3>3, StoreAgrees
    <3> QED BY <1>1, <3>1, <3>2, <3>3, MemorySteps
  <2> QED BY <1>2, <2>2, <2>3 DEF HeapInv, Agreement
<1> QED BY <1>3, <1>4

LEMMA HeapInvariant == Spec => []HeapInv
  BY InitAgrees, NextInv, PTL DEF Spec

\* A program gets the same bytes from both engines unless it leaves a block,
\* regroups bytes, or uses one of the named operations that differ.
THEOREM MemoriesAgree == Spec => []EnginesAgree
<1>1. HeapInv => EnginesAgree
  BY DEF HeapInv
<1> QED BY <1>1, HeapInvariant, PTL

-----------------------------------------------------------------------------
(* The byte store                                                          *)

Contents == [c \in Cells |-> heap.entries[c[1]][c[2]]]
LastWrites == [c \in Cells |-> LastOver(c)]

\* The cells of a memory, before and after a step.
CellsOf(m) == UNION { { <<b, o>> : o \in DOMAIN m.entries[b] } : b \in DOMAIN m.entries }

LEMMA PairIs ==
  ASSUME NEW m, NEW b, NEW o
  PROVE  <<b, o>> \in CellsOf(m) <=> b \in DOMAIN m.entries /\ o \in DOMAIN m.entries[b]
<1>1. ASSUME b \in DOMAIN m.entries, o \in DOMAIN m.entries[b] PROVE <<b, o>> \in CellsOf(m)
  <2>1. <<b, o>> \in { <<b, p>> : p \in DOMAIN m.entries[b] }
    BY <1>1
  <2> QED BY <1>1, <2>1 DEF CellsOf
<1>2. ASSUME <<b, o>> \in CellsOf(m) PROVE b \in DOMAIN m.entries /\ o \in DOMAIN m.entries[b]
  <2>1. PICK x \in DOMAIN m.entries : <<b, o>> \in { <<x, p>> : p \in DOMAIN m.entries[x] }
    BY <1>2 DEF CellsOf
  <2>2. PICK p \in DOMAIN m.entries[x] : <<b, o>> = <<x, p>>
    BY <2>1
  <2> QED BY <2>2
<1> QED BY <1>1, <1>2

LEMMA PairShape ==
  ASSUME NEW m \in Memories, NEW c \in CellsOf(m)
  PROVE  /\ c = <<c[1], c[2]>>
         /\ c[1] \in DOMAIN m.entries /\ c[2] \in DOMAIN m.entries[c[1]]
         /\ c[1] \in Base /\ c[2] \in Offset
<1>1. PICK x \in DOMAIN m.entries : c \in { <<x, p>> : p \in DOMAIN m.entries[x] }
  BY DEF CellsOf
<1>2. PICK p \in DOMAIN m.entries[x] : c = <<x, p>>
  BY <1>1
<1>3. x \in Base
  BY MemoryShape
<1>4. p \in Offset
  BY BlockOffsets
<1> QED BY <1>2, <1>3, <1>4

LEMMA CellIs == \A b, o : <<b, o>> \in Cells <=> Live(b, o)
  BY PairIs DEF Cells, CellsOf, Live

LEMMA CellIsPrimed == \A b, o : <<b, o>> \in Cells' <=> Live(b, o)'
<1>1. Cells' = CellsOf(heap')
  BY DEF Cells, CellsOf
<1> QED BY <1>1, PairIs DEF Live

LEMMA CellShape ==
  ASSUME heap \in Memories, NEW c \in Cells
  PROVE  /\ c = <<c[1], c[2]>> /\ Live(c[1], c[2])
         /\ c[1] \in Base /\ c[2] \in Offset
<1>1. c \in CellsOf(heap)
  BY DEF Cells, CellsOf
<1> QED BY <1>1, PairShape DEF Live

LEMMA CellsPrimed ==
  ASSUME heap' \in Memories, NEW c \in Cells'
  PROVE  /\ c = <<c[1], c[2]>> /\ Live(c[1], c[2])'
         /\ c[1] \in Base /\ c[2] \in Offset
<1>1. c \in CellsOf(heap')
  BY DEF Cells, CellsOf
<1> QED BY <1>1, PairShape DEF Live

\* A new block adds its cells, zero and never written.
LEMMA NewBlockRefines ==
  ASSUME TypeOK, OutsideUntouched, UNCHANGED <<array, writer>>,
         NEW b \in Base, NEW n \in 0 .. MaxSize, b \notin DOMAIN heap.entries, heap' = Allocate(heap, b, n)
  PROVE  Promise!NewBlock(b, n)
<1> DEFINE new == {b} \X (0 .. n - 1)
<1>1. heap \in Memories
  BY DEF TypeOK
<1>2. /\ heap' \in Memories
      /\ DOMAIN heap'.entries = DOMAIN heap.entries \cup {b}
      /\ \A x \in DOMAIN heap.entries : heap'.entries[x] = heap.entries[x]
      /\ DOMAIN heap'.entries[b] = 0 .. n - 1
      /\ \A i \in DOMAIN heap'.entries[b] : heap'.entries[b][i] = Zero
  <2>1. Grown(heap, b, n, heap')
    BY <1>1, AllocateShape
  <2> QED BY <2>1 DEF Grown
<1>3. \A x, p : Live(x, p)' <=> Live(x, p) \/ <<x, p>> \in new
  BY <1>2 DEF Live
<1>4. \A c \in Cells : c[1] # b
  BY <1>1, CellShape DEF Live
<1>5. \A c \in new : c = <<c[1], c[2]>> /\ c[1] = b
  OBVIOUS
<1> HIDE DEF new
<1>6. Cells' = Cells \cup new
  <2>1. ASSUME NEW c \in Cells' PROVE c \in Cells \cup new
    <3>1. c = <<c[1], c[2]>> /\ Live(c[1], c[2])'
      BY <1>2, CellsPrimed
    <3> QED BY <1>3, <3>1, CellIs
  <2>2. ASSUME NEW c \in Cells \cup new PROVE c \in Cells'
    <3>1. c = <<c[1], c[2]>> /\ (Live(c[1], c[2]) \/ c \in new)
      BY <1>1, <1>5, CellShape
    <3>2. Live(c[1], c[2])'
      BY <1>3, <3>1
    <3> QED BY <3>1, <3>2, CellIsPrimed
  <2> QED BY <2>1, <2>2
<1>7. \A c \in Cells : c \notin new
  BY <1>4, <1>5
<1>8. \A c \in Cells : heap'.entries[c[1]][c[2]] = heap.entries[c[1]][c[2]] /\ LastOver(c)' = LastOver(c)
  BY <1>1, <1>2, CellShape DEF Live, LastOver
<1>9. ASSUME NEW c \in new
      PROVE  heap'.entries[c[1]][c[2]] = Zero /\ LastOver(c)' = <<0, 0, 0>>
  <2>1. c \in Cells' /\ c \notin Cells
    BY <1>6, <1>7
  <2>2. c = <<c[1], c[2]>> /\ c[1] = b /\ c[2] \in Offset /\ c[2] \in DOMAIN heap'.entries[b]
    BY <1>2, <1>5, <2>1, CellsPrimed DEF Live
  <2>3. ~Live(c[1], c[2])
    BY <2>1, <2>2, CellIs
  <2>4. writer'[AddressOf(c[1], c[2])] = Fresh
    BY <2>2, <2>3 DEF OutsideUntouched, Stamped
  <2>5. 0 \div OffSpan = 0 /\ 0 % OffSpan = 0
    BY DEF Offset
  <2> QED BY <1>2, <2>2, <2>4, <2>5 DEF LastOver, Fresh
<1>10. Contents' = [c \in Cells \cup new |-> IF c \in new THEN Zero ELSE Contents[c]]
  BY <1>6, <1>8, <1>9 DEF Contents
<1>11. LastWrites' = [c \in Cells \cup new |-> IF c \in new THEN <<0, 0, 0>> ELSE LastWrites[c]]
  BY <1>6, <1>8, <1>9 DEF LastWrites
<1>12. DOMAIN Contents = Cells
  BY DEF Contents
<1> QED BY <1>4, <1>10, <1>11, <1>12 DEF Promise!NewBlock, Promise!Never, Contents, LastWrites, new

\* A store inside a block changes the bytes it names and no others.
LEMMA WriteRefines ==
  ASSUME TypeOK, NEW kind, NEW b \in Base, NEW o \in Offset, NEW n \in 1 .. MaxSize,
         NEW v \in Bytes(n), StoreStep(kind, b, o, n, v)
  PROVE  Promise!Write(b, o, n)
<1> DEFINE over == {b} \X (o .. o + n - 1)
<1>1. heap \in Memories /\ o \in Nat /\ n \in Nat /\ b \in DOMAIN heap.entries
  BY DEF TypeOK, Offset, StoreStep
<1>2. heap' \in Memories
  BY <1>1, StoreShape DEF StoreStep
<1>3. ASSUME NEW c \in Base, NEW p \in Offset
      PROVE  /\ Live(c, p)' <=> Live(c, p)
             /\ <<c, p>> \in over <=> Over(b, o, n, c, p)
  <2>1. p \in Nat
    BY DEF Offset
  <2>2. <<c, p>> \in over <=> Over(b, o, n, c, p)
    BY <1>1, <2>1 DEF Over
  <2> QED BY <2>2, StoreAt DEF StoreEffect
<1>4. over \subseteq Cells
  <2> SUFFICES ASSUME NEW p \in o .. o + n - 1 PROVE <<b, p>> \in Cells
    OBVIOUS
  <2>1. p \in Nat /\ p < o + n /\ o <= p
    BY <1>1
  <2>2. o + n <= OffSpan
    BY StoreAt DEF StoreEffect
  <2>3. p \in Offset /\ Over(b, o, n, b, p)
    BY <1>1, <2>1, <2>2 DEF Offset, Over
  <2> QED BY <2>3, StoreAt, CellIs DEF StoreEffect
<1> HIDE DEF over
<1>5. Cells' = Cells
  <2>1. ASSUME NEW c \in Cells' PROVE c \in Cells
    BY <1>2, <1>3, CellsPrimed, CellIs
  <2>2. ASSUME NEW c \in Cells PROVE c \in Cells'
    BY <1>1, <1>3, CellShape, CellIsPrimed
  <2> QED BY <2>1, <2>2
<1>6. Contents' \in [Cells -> Byte]
  <2> SUFFICES ASSUME NEW c \in Cells' PROVE heap'.entries[c[1]][c[2]] \in Byte
    BY <1>5 DEF Contents
  <2>1. c[1] \in DOMAIN heap'.entries /\ c[2] \in DOMAIN heap'.entries[c[1]]
    BY <1>2, CellsPrimed DEF Live
  <2>2. heap'.entries[c[1]] \in Blocks
    BY <1>2, <2>1, MemoryShape
  <2> QED BY <2>1, <2>2, BlockShape
<1>7. ASSUME NEW c \in Cells \ over PROVE Contents'[c] = Contents[c] /\ LastOver(c)' = LastOver(c)
  <2>1. /\ c = <<c[1], c[2]>> /\ Live(c[1], c[2])
        /\ c[1] \in Base /\ c[2] \in Offset
    BY <1>1, CellShape
  <2>2. ~Over(b, o, n, c[1], c[2])
    BY <1>3, <2>1
  <2>3. heap'.entries[c[1]][c[2]] = heap.entries[c[1]][c[2]] /\ Stamped(c[1], c[2])' = Stamped(c[1], c[2])
    BY <2>1, <2>2, StoreAt DEF StoreEffect
  <2> QED BY <1>5, <2>3 DEF Contents, LastOver, Stamped
<1>8. ASSUME NEW c \in over PROVE LastOver(c)' = <<b, o, n>>
  <2>1. /\ c = <<c[1], c[2]>> /\ Live(c[1], c[2])
        /\ c[1] \in Base /\ c[2] \in Offset
    BY <1>1, <1>4, CellShape
  <2>2. Over(b, o, n, c[1], c[2])
    BY <1>3, <2>1
  <2>3. Stamped(c[1], c[2])' = [start |-> AddressOf(b, o), size |-> n, kind |-> kind]
    BY <2>1, <2>2, StoreAt DEF StoreEffect
  <2>4. AddressOf(b, o) \div OffSpan = b /\ AddressOf(b, o) % OffSpan = o
    BY AddressSplit
  <2> QED BY <2>3, <2>4 DEF LastOver, Stamped
<1>9. LastWrites' = [c \in Cells |-> IF c \in over THEN <<b, o, n>> ELSE LastWrites[c]]
  BY <1>5, <1>7, <1>8 DEF LastWrites
<1>10. DOMAIN Contents = Cells
  BY DEF Contents
<1> QED BY <1>4, <1>6, <1>7, <1>9, <1>10 DEF Promise!Write, Contents, LastWrites, over

LEMMA InitRefines == Init => Promise!Init
<1> SUFFICES ASSUME Init PROVE Promise!Init
  OBVIOUS
<1>1. DOMAIN heap.entries = {}
  BY EmptyShape DEF Init
<1>2. Cells = {}
  BY <1>1 DEF Cells
<1>3. \A f : DOMAIN f = {} /\ f = [x \in {} |-> f[x]] => f = <<>>
  OBVIOUS
<1> QED BY <1>2, <1>3 DEF Promise!Init

LEMMA NextRefines ==
  ASSUME HeapInv, [Next]_vars
  PROVE  [Promise!Next]_(Promise!vars)
<1>1. TypeOK
  BY DEF HeapInv
<1>2. CASE UNCHANGED vars
  <2>1. heap' = heap /\ writer' = writer
    BY <1>2 DEF vars
  <2> QED BY <2>1 DEF Promise!vars, Cells, LastOver
<1>3. CASE Next
  <2>1. OutsideUntouched
    BY <1>3 DEF HeapInv, Agreement, Next
  <2>2. CASE QuietStep
    BY <2>2 DEF QuietStep, Promise!vars, Cells, LastOver
  <2>3. CASE NewBlockStep
    <3>1. PICK b \in Base, n \in 0 .. MaxSize : b \notin DOMAIN heap.entries /\ heap' = Allocate(heap, b, n)
      BY <2>3 DEF NewBlockStep
    <3>2. Promise!NewBlock(b, n)
      BY <1>1, <2>1, <2>3, <3>1, NewBlockRefines DEF NewBlockStep
    <3> QED BY <3>2 DEF Promise!Next
  <2>4. ASSUME NEW kind \in {"word", "aggr"}, NEW b \in Base, NEW o \in Offset, NEW n \in 1 .. MaxSize,
               NEW v \in Bytes(n), StoreStep(kind, b, o, n, v)
        PROVE  Promise!Next
    <3>1. Promise!Write(b, o, n)
      BY <1>1, <2>4, WriteRefines
    <3>2. n \in 0 .. MaxSize /\ o \in 0 .. MaxSize
      <4>1. heap \in Memories /\ b \in DOMAIN heap.entries /\ o \in Nat
        BY <1>1, <2>4 DEF TypeOK, StoreStep, Offset
      <4>2. heap.entries[b] \in Blocks
        BY <4>1, MemoryShape
      <4>3. Size(heap.entries[b]) \in 0 .. MaxSize
        BY <4>2, BlockShape
      <4>4. n + o <= Size(heap.entries[b])
        BY <2>4 DEF StoreStep, InBlock
      <4> QED BY <4>1, <4>3, <4>4
    <3> QED BY <3>1, <3>2 DEF Promise!Next
  <2> QED BY <1>1, <1>3, <2>2, <2>3, <2>4, MemorySteps
<1> QED BY <1>2, <1>3

\* The concrete heap is a byte store: a block appears once, filled with zero, and
\* stays, and a store that succeeds changes the bytes of the block and offsets it
\* names only.
THEOREM HeapIsByteStore == Spec => ImplementsByteStore
  BY InitRefines, NextRefines, HeapInvariant, PTL DEF Spec, Promise!Spec, ImplementsByteStore

=============================================================================
