--------------------------- MODULE ConcreteMemory ---------------------------
(* The concrete heap: a map from base pointers to blocks of bytes, the      *)
(* order in which they were allocated, and the base of the next fresh one.  *)
(* Every address is looked up with the segment of the heap, so pointers of  *)
(* other segments reach heap blocks of their base.                          *)
EXTENDS Naturals, Sequences

CONSTANTS
  Base,      \* numbers of blocks
  MaxSize,   \* size of the largest block
  Byte,      \* values of a byte
  Zero       \* the byte a block is filled with

ASSUME MemoryOK == Base \subseteq Nat /\ MaxSize \in Nat /\ Zero \in Byte

Bytes(n) == [0 .. n - 1 -> Byte]
Blocks   == UNION { Bytes(n) : n \in 0 .. MaxSize }
Size(b)  == IF DOMAIN b = {} THEN 0 ELSE CHOOSE n \in 1 .. MaxSize : DOMAIN b = 0 .. n - 1

Memories == [entries: UNION { [D -> Blocks] : D \in SUBSET Base },
             allocated: Seq(Base),
             next: Nat]

EmptyMemory == [entries |-> <<>>, allocated |-> <<>>, next |-> 0]

\* A block starts at offset zero, and the map does not replace an entry.
CanAllocate(m, base, off) == base \notin DOMAIN m.entries /\ off = 0

\* Mutation: a block gets one byte too many.
AllocateOneMore(m, base, n) ==
  [entries   |-> [x \in DOMAIN m.entries \cup {base} |->
                    IF x = base THEN [i \in 0 .. n |-> Zero] ELSE m.entries[x]],
   allocated |-> Append(m.allocated, base),
   next      |-> m.next]

\* Mutation: an allocation forgets to note the pointer.
AllocateUnlisted(m, base, n) ==
  [entries   |-> [x \in DOMAIN m.entries \cup {base} |->
                    IF x = base THEN [i \in 0 .. n - 1 |-> Zero] ELSE m.entries[x]],
   allocated |-> m.allocated,
   next      |-> m.next]

Allocate(m, base, n) ==
  [entries   |-> [x \in DOMAIN m.entries \cup {base} |->
                    IF x = base THEN [i \in 0 .. n - 1 |-> Zero] ELSE m.entries[x]],
   allocated |-> Append(m.allocated, base),
   next      |-> IF base > m.next THEN base + 1 ELSE m.next]

InBlock(m, base, off, n) == n + off <= Size(m.entries[base])

\* Bytes go to increasing offsets: the host is little-endian.
Overlay(block, off, v) ==
  [i \in DOMAIN block |-> IF i >= off /\ i - off \in DOMAIN v THEN v[i - off] ELSE block[i]]

\* A store without a block is lost, one across the end of its block throws.
StoreThrows(m, base, off, n) == base \in DOMAIN m.entries /\ ~InBlock(m, base, off, n)

\* Mutation: the bytes go to the block that was allocated first.
StoreValueFirst(m, base, off, v) ==
  IF base \in DOMAIN m.entries /\ InBlock(m, m.allocated[1], off, Size(v))
  THEN [m EXCEPT !.entries[m.allocated[1]] = Overlay(@, off, v)] ELSE m

StoreValue(m, base, off, v) ==
  IF base \in DOMAIN m.entries
  THEN [m EXCEPT !.entries[base] = Overlay(m.entries[base], off, v)] ELSE m

\* A load of one byte is not checked against the size of the block: past the
\* end it reads whatever memory the host has there.
LoadThrows(m, base, off, n) ==
  \/ base \notin DOMAIN m.entries
  \/ n # 1 /\ ~InBlock(m, base, off, n)
LoadValue(m, base, off, n) ==
  IF InBlock(m, base, off, n)
  THEN { [i \in 0 .. n - 1 |-> m.entries[base][off + i]] }
  ELSE Bytes(n)

\* What a state contributes to its hash: the blocks in order of allocation.
HashInput(m) == [i \in 1 .. Len(m.allocated) |-> m.entries[m.allocated[i]]]
=============================================================================
