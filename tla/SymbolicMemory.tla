--------------------------- MODULE SymbolicMemory ---------------------------
(* The path formula's heap: one array of bytes, indexed by the bits of a    *)
(* pointer, and terms for aggregates.  An array and a term are what they    *)
(* denote under one valuation, the one that gives untouched bytes the value *)
(* zero, as the concrete heap does.                                         *)
EXTENDS Naturals

CONSTANTS
  OffSpan,   \* offsets below one base: 2^32 in minimc
  BaseSpan   \* bases: 2^16 in minimc

Address == 0 .. BaseSpan * OffSpan - 1
Plus(a, i) == (a + i) % (BaseSpan * OffSpan)
AddressOf(base, off) == base * OffSpan + off

\* A word is written with its most significant byte first.  Byte 0 of v is
\* the least significant one.
WriteWord(mem, a, v, n) ==
  [x \in Address |-> IF \E i \in 0 .. n - 1 : x = Plus(a, n - 1 - i)
                     THEN v[CHOOSE i \in 0 .. n - 1 : x = Plus(a, n - 1 - i)] ELSE mem[x]]

\* An aggregate is written with its first byte first.
WriteAggr(mem, a, v, n) ==
  [x \in Address |-> IF \E i \in 0 .. n - 1 : x = Plus(a, i)
                     THEN v[CHOOSE i \in 0 .. n - 1 : x = Plus(a, i)] ELSE mem[x]]

\* Mutation: a word is read with its first byte the least significant.
LoadLittle(mem, a, n) == [i \in 0 .. n - 1 |-> mem[Plus(a, i)]]

\* Words and aggregates alike are read with the first byte the most
\* significant.
Load(mem, a, n) == [i \in 0 .. n - 1 |-> mem[Plus(a, n - 1 - i)]]

\* extractBytes: the loop runs from the offset to the size, not to their sum.
\* An empty result is a null term.
ExtractBase(aggr, off, n) == [i \in 0 .. n - off - 1 |-> aggr[off + i]]
ExtractAggregate(aggr, off, n) == [i \in 0 .. n - 1 |-> aggr[off + i]]

\* storeBytes: what lies before and behind the inserted bytes is extracted
\* and concatenated; an aggregate replaced as a whole would need an empty
\* extract, which no solver builds.
Insert(aggr, off, v, n) ==
  [i \in DOMAIN aggr |-> IF i >= off /\ i < off + n THEN v[i - off] ELSE aggr[i]]
InsertRaises(size, off, n) == off = 0 /\ n = size
=============================================================================
