--------------------------- MODULE FtMemPoolProofs ---------------------------
(***************************************************************************)
(* Theorems about FtMemPool, and about FtObject and FtIntObj in it.        *)
(*                                                                         *)
(* The first part holds however many objects are live: the pool is type    *)
(* correct and never looks up a bitset word that does not exist.  The      *)
(* second part holds while no more objects are live than one word has      *)
(* bits: no two handles share an object, pointers stay valid, and the pool *)
(* implements SlotAllocator.                                               *)
(*                                                                         *)
(* The third part adds the objects in the pool's cells and the integers    *)
(* main.c keeps in them, with one thread and no more of them than one word *)
(* has bits.  With two threads the two atomic operations of _FtObj_DECREF  *)
(* interleave and an object can be freed twice; with more objects than     *)
(* bits the pool itself hands out a slot that is in use.                   *)
(***************************************************************************)
EXTENDS FtIntObj, FiniteSetTheorems, FunctionTheorems, SequenceTheorems,
        WellFoundedInduction, TLAPS

------------------------------------------------------------------------------
(* Arithmetic of slots, words and bits.                                     *)

\* Quotient and remainder of a slot number, as used by the code to split an
\* index into word and bit.
LEMMA DivMod ==
  ASSUME NEW n \in Nat, NEW w \in Nat, w >= 1
  PROVE  /\ n \div w \in Nat
         /\ n % w \in 0 .. w - 1
         /\ n = w * (n \div w) + (n % w)
  BY Z3

\* A slot below w * k lies in one of the first k words.
LEMMA DivBelow ==
  ASSUME NEW n \in Nat, NEW w \in Nat, w >= 1, NEW k \in Nat, n < w * k
  PROVE  n \div w < k
  <1> DEFINE q == n \div w
  <1>1. q \in Nat /\ n >= w * q
    BY DivMod, Z3
  <1>2. SUFFICES ASSUME q >= k PROVE FALSE
    BY <1>1
  <1>3. w * q >= w * k
    BY <1>1, <1>2, Z3
  <1> QED
    BY <1>1, <1>3

LEMMA BelowDiv ==
  ASSUME NEW n \in Nat, NEW w \in Nat, w >= 1, NEW k \in Nat, n \div w < k
  PROVE  n < w * k
  <1> DEFINE q == n \div w
  <1>1. q \in Nat /\ n < w * q + w
    BY DivMod, Z3
  <1>2. w * (q + 1) <= w * k
    BY <1>1, Z3
  <1> QED
    BY <1>1, <1>2, Z3

\* A slot below WordBits * k has a word among the first k and a bit in it.
LEMMA SlotWord ==
  ASSUME NEW n \in Nat, NEW k \in Nat, n < WordBits * k
  PROVE  /\ n \div WordBits \in Nat
         /\ n \div WordBits < k
         /\ n % WordBits \in Bits
  <1>1. WordBits \in Nat /\ WordBits >= 1
    BY MemPoolAssumption
  <1>2. n \div WordBits \in Nat /\ n % WordBits \in 0 .. WordBits - 1
    BY <1>1, DivMod
  <1>3. n \div WordBits < k
    BY <1>1, DivBelow
  <1> QED
    BY <1>2, <1>3 DEF Bits

\* Replacing an element of a sequence.
LEMMA SeqReplace ==
  ASSUME NEW S, NEW s \in Seq(S), NEW i \in 1 .. Len(s), NEW x \in S
  PROVE  /\ [s EXCEPT ![i] = x] \in Seq(S)
         /\ Len([s EXCEPT ![i] = x]) = Len(s)
  OBVIOUS

\* A stack of numbers below n keeps that property when it loses its top, or
\* gains a number below n.
LEMMA StackBelow ==
  ASSUME NEW s \in Seq(Nat), NEW n \in Nat,
         \A k \in 1 .. Len(s) : s[k] < n
  PROVE  /\ s # <<>> =>
              /\ SubSeq(s, 1, Len(s) - 1) \in Seq(Nat)
              /\ \A k \in 1 .. Len(SubSeq(s, 1, Len(s) - 1)) :
                   SubSeq(s, 1, Len(s) - 1)[k] < n
         /\ \A w \in Nat : w < n =>
              /\ Append(s, w) \in Seq(Nat)
              /\ \A k \in 1 .. Len(Append(s, w)) : Append(s, w)[k] < n
  OBVIOUS

\* Adding a bit number to a word NUMBER, as FtMemPool_Alloc does, gives a
\* slot of that word or of an earlier one.
LEMMA WordPlusBit ==
  ASSUME NEW w \in Nat, w >= 1, NEW t \in Nat, NEW b \in 0 .. w - 1
  PROVE  t + b < w * (t + 1)
  <1>1. w * t >= t
    BY Z3
  <1>2. w * (t + 1) = w * t + w
    BY Z3
  <1> QED
    BY <1>1, <1>2

\* A non-empty bitset word has a lowest set bit.
LEMMA LowestBitExists ==
  ASSUME NEW word \in SUBSET Nat, word # {}
  PROVE  /\ LowestBit(word) \in word
         /\ \A c \in word : LowestBit(word) <= c
  <1> DEFINE Less == {ss \in Nat \X Nat : ss[1] < ss[2]}
  <1>1. IsWellFoundedOn(Less, Nat)
    BY NatLessThanWellFounded, Zenon DEF OpToRel
  <1>2. PICK b \in word : \A c \in word : <<c, b>> \notin Less
    <2> HIDE DEF Less
    <2> QED BY <1>1, WFMin
  <1>3. ASSUME NEW c \in word PROVE b <= c
    <2>1. c \in Nat /\ b \in Nat
      OBVIOUS
    <2>2. <<c, b>> \notin Less
      BY <1>2
    <2>3. ~ (<<c, b>>[1] < <<c, b>>[2])
      BY <2>1, <2>2
    <2> QED
      BY <2>1, <2>3
  <1> QED
    BY <1>3 DEF LowestBit

------------------------------------------------------------------------------
(* Any number of live objects.                                              *)

\* The inductive invariant behind WordLookupsInRange: the stack names
\* existing words, and every slot below pool.len, so every index handed out,
\* belongs to an existing word.
RangeInv ==
  /\ PoolTypeOK
  /\ \A k \in 1 .. Len(valuesWithOpenSlots) :
       valuesWithOpenSlots[k] < Len(freeValues)
  /\ pool.len <= WordBits * Len(freeValues)
  /\ \A h \in Handles :
       idxOf[h] # NoSlot => idxOf[h] < WordBits * Len(freeValues)

\* The slot the search computes is a natural number and lies in an existing
\* word.
LEMMA FreeSlotInRange ==
  ASSUME RangeInv, ~NoOpenSlot
  PROVE  /\ Top \in Nat /\ Top < Len(freeValues)
         /\ Word(Top) \in SUBSET Bits
         /\ FreeSlot \in Nat
         /\ FreeSlot < WordBits * Len(freeValues)
         /\ FreeSlot \div WordBits \in Nat
         /\ FreeSlot \div WordBits < Len(freeValues)
         /\ FreeSlot % WordBits \in Bits
  <1>1. valuesWithOpenSlots # <<>> /\ valuesWithOpenSlots \in Seq(Nat)
    BY DEF NoOpenSlot, RangeInv, PoolTypeOK, PoolType
  <1>2. Len(valuesWithOpenSlots) \in 1 .. Len(valuesWithOpenSlots)
    BY <1>1
  <1>3. Top \in Nat /\ Top < Len(freeValues)
    BY <1>1, <1>2 DEF Top, RangeInv
  <1>4. Word(Top) \in SUBSET Bits
    BY <1>3 DEF Word, RangeInv, PoolTypeOK, PoolType
  <1>5. FreeSlot \in Nat /\ FreeSlot < WordBits * (Top + 1)
    <2>1. CASE Word(Top) = {}
      <3>1. Top # 0
        BY <2>1 DEF NoOpenSlot
      <3>2. Top < WordBits * (Top + 1)
        BY <1>3, WordPlusBit, MemPoolAssumption
      <3> QED
        BY <2>1, <3>1, <3>2, <1>3, MemPoolAssumption DEF FreeSlot
    <2>2. CASE Word(Top) # {}
      <3>1. LowestBit(Word(Top)) \in 0 .. WordBits - 1
        <4>1. Word(Top) \in SUBSET Nat
          BY <1>4 DEF Bits
        <4> QED
          BY <4>1, <1>4, <2>2, LowestBitExists DEF Bits
      <3>2. Top + LowestBit(Word(Top)) < WordBits * (Top + 1)
        BY <3>1, <1>3, WordPlusBit, MemPoolAssumption
      <3> QED
        BY <2>2, <3>1, <3>2, <1>3, MemPoolAssumption DEF FreeSlot
    <2> QED
      BY <2>1, <2>2
  <1>6. Len(freeValues) \in Nat
    BY DEF RangeInv, PoolTypeOK, PoolType
  <1>7. FreeSlot < WordBits * Len(freeValues)
    <2>1. WordBits * (Top + 1) <= WordBits * Len(freeValues)
      BY <1>3, <1>6, MemPoolAssumption, Z3
    <2> QED
      BY <2>1, <1>3, <1>5, <1>6, MemPoolAssumption, Z3
  <1>8. /\ FreeSlot \div WordBits \in Nat
        /\ FreeSlot \div WordBits < Len(freeValues)
        /\ FreeSlot % WordBits \in Bits
    BY <1>5, <1>6, <1>7, SlotWord
  <1> QED
    BY <1>3, <1>4, <1>5, <1>7, <1>8

LEMMA RangeInit == PoolInit => RangeInv
  BY MemPoolAssumption DEF PoolInit, RangeInv, PoolTypeOK, PoolType

\* FtArr_AppendZeroed adds one object to the object array.
LEMMA GrowPool ==
  ASSUME PoolType, pool.len < MaxSlots, pool' = GrownPool
  PROVE  /\ pool' \in [len : 0 .. MaxSlots, cap : Nat, block : Nat]
         /\ pool'.len = pool.len + 1
         /\ pool.len # pool.cap => pool'.block = pool.block /\ pool'.cap = pool.cap
  <1> USE MemPoolAssumption DEF PoolType
  <1>1. CASE pool.len = pool.cap
    <2>1. pool' = [len |-> pool.len + 1, cap |-> 2 * pool.len, block |-> pool.block + 1]
      BY <1>1 DEF GrownPool
    <2>2. pool.len \in Nat /\ pool.len < MaxSlots /\ MaxSlots \in Nat /\ pool.block \in Nat
      OBVIOUS
    <2>3. pool.len + 1 \in 0 .. MaxSlots /\ 2 * pool.len \in Nat /\ pool.block + 1 \in Nat
      BY <2>2
    <2> QED BY <1>1, <2>1, <2>3
  <1>2. CASE pool.len # pool.cap
    <2>1. pool' = [len |-> pool.len + 1, cap |-> pool.cap, block |-> pool.block]
      BY <1>2 DEF GrownPool
    <2>2. pool.len + 1 \in 0 .. MaxSlots
      OBVIOUS
    <2> QED BY <2>1, <2>2
  <1> QED
    BY <1>1, <1>2

\* A handle that receives an object keeps the handle variables well typed.
LEMMA ReceiveType ==
  ASSUME PoolTypeOK, NEW h \in Handles, NEW i \in Nat, NEW b \in Nat, NEW c \in Nat,
         Receive(h, i, b, c)
  PROVE  /\ idxOf' \in [Handles -> Nat \cup {NoSlot}]
         /\ cellOf' \in [Handles -> [block : Nat, cell : Nat] \cup {NoSlot}]
         /\ \A g \in Handles : idxOf'[g] = NoSlot <=> cellOf'[g] = NoSlot
         /\ \A g \in Handles : idxOf'[g] = IF g = h THEN i ELSE idxOf[g]
         /\ \A g \in Handles : cellOf'[g] = IF g = h THEN [block |-> b, cell |-> c]
                                                     ELSE cellOf[g]
  <1>1. [block |-> b, cell |-> c] \in [block : Nat, cell : Nat]
    OBVIOUS
  <1>2. i # NoSlot /\ [block |-> b, cell |-> c] # NoSlot
    BY <1>1, MemPoolAssumption
  <1>3. /\ idxOf' \in [Handles -> Nat \cup {NoSlot}]
        /\ cellOf' \in [Handles -> [block : Nat, cell : Nat] \cup {NoSlot}]
    BY <1>1 DEF Receive, PoolTypeOK
  <1>4. /\ \A g \in Handles : idxOf'[g] = IF g = h THEN i ELSE idxOf[g]
        /\ \A g \in Handles : cellOf'[g] = IF g = h THEN [block |-> b, cell |-> c]
                                                    ELSE cellOf[g]
    BY DEF Receive, PoolTypeOK
  <1> QED
    BY <1>2, <1>3, <1>4 DEF PoolTypeOK

LEMMA RangeAllocFresh ==
  ASSUME RangeInv, NEW h \in Handles, AllocFresh(h)
  PROVE  RangeInv'
  <1>1. PoolType /\ PoolTypeOK /\ pool.len \in Nat
    BY MemPoolAssumption DEF RangeInv, PoolTypeOK, PoolType
  <1>2. Len(freeValues) \in Nat /\ Len(freeValues') = Len(freeValues) + 1
    BY <1>1 DEF AllocFresh, PoolType
  <1>3. /\ WordBits * Len(freeValues') = WordBits * Len(freeValues) + WordBits
        /\ WordBits * Len(freeValues) \in Nat
    BY <1>2, MemPoolAssumption, Z3
  <1>4. /\ freeValues' \in Seq(SUBSET Bits)
        /\ valuesWithOpenSlots' \in Seq(Nat)
        /\ \A k \in 1 .. Len(valuesWithOpenSlots') :
             valuesWithOpenSlots'[k] < Len(freeValues')
    BY <1>1, <1>2 DEF AllocFresh, RangeInv, PoolType
  <1>5. /\ pool' \in [len : 0 .. MaxSlots, cap : Nat, block : Nat]
        /\ pool'.len = pool.len + 1
    BY <1>1, GrowPool DEF AllocFresh
  <1>6. /\ idxOf' \in [Handles -> Nat \cup {NoSlot}]
        /\ cellOf' \in [Handles -> [block : Nat, cell : Nat] \cup {NoSlot}]
        /\ \A g \in Handles : idxOf'[g] = NoSlot <=> cellOf'[g] = NoSlot
        /\ \A g \in Handles : idxOf'[g] = IF g = h THEN pool.len ELSE idxOf[g]
    <2>1. pool'.block \in Nat /\ Receive(h, pool.len, pool'.block, pool.len)
      BY <1>5 DEF AllocFresh
    <2> QED
      BY <1>1, <2>1, ReceiveType
  <1>7. pool'.len <= WordBits * Len(freeValues')
    BY <1>1, <1>3, <1>5, MemPoolAssumption DEF RangeInv
  <1>8. ASSUME NEW g \in Handles, idxOf'[g] # NoSlot
        PROVE  idxOf'[g] < WordBits * Len(freeValues')
    <2>1. CASE g = h
      <3>1. idxOf'[g] = pool.len
        BY <1>6, <2>1
      <3>2. WordBits * Len(freeValues') \in Nat
        BY <1>3, MemPoolAssumption
      <3> QED
        BY <1>1, <1>5, <1>7, <3>1, <3>2
    <2>2. CASE g # h
      <3>1. idxOf[g] \in Nat /\ idxOf[g] < WordBits * Len(freeValues)
        BY <1>1, <1>6, <1>8, <2>2 DEF RangeInv, PoolTypeOK
      <3> QED
        BY <1>2, <1>3, <1>6, <2>2, <3>1, MemPoolAssumption
    <2> QED
      BY <2>1, <2>2
  <1> QED
    BY <1>4, <1>5, <1>6, <1>7, <1>8 DEF RangeInv, PoolTypeOK, PoolType

\* Clearing the bit of FreeSlot changes neither the number of words nor
\* their type, and the stack keeps naming existing words.
LEMMA TakeBitRange ==
  ASSUME RangeInv, ~NoOpenSlot, TakeBit
  PROVE  /\ freeValues' \in Seq(SUBSET Bits)
         /\ Len(freeValues') = Len(freeValues)
         /\ valuesWithOpenSlots' \in Seq(Nat)
         /\ \A k \in 1 .. Len(valuesWithOpenSlots') :
              valuesWithOpenSlots'[k] < Len(freeValues')
  <1> DEFINE w == FreeSlot \div WordBits
             word == Word(w) \ {FreeSlot % WordBits}
  <1>1. w \in Nat /\ w < Len(freeValues)
    BY FreeSlotInRange
  <1>2. freeValues \in Seq(SUBSET Bits) /\ valuesWithOpenSlots \in Seq(Nat)
    BY DEF RangeInv, PoolTypeOK, PoolType
  <1>3. word \in SUBSET Bits
    BY <1>1, <1>2 DEF Word
  <1>4. freeValues' = [freeValues EXCEPT ![w + 1] = word]
    BY DEF TakeBit
  <1>5. freeValues' \in Seq(SUBSET Bits) /\ Len(freeValues') = Len(freeValues)
    <2>1. w + 1 \in 1 .. Len(freeValues)
      BY <1>1, <1>2
    <2> HIDE DEF w, word
    <2> QED
      BY <1>2, <1>3, <1>4, <2>1, SeqReplace
  <1>6. valuesWithOpenSlots # <<>>
    BY DEF NoOpenSlot
  <1>7. \/ valuesWithOpenSlots' = valuesWithOpenSlots
        \/ valuesWithOpenSlots' =
             SubSeq(valuesWithOpenSlots, 1, Len(valuesWithOpenSlots) - 1)
    BY DEF TakeBit
  <1>8. /\ Len(freeValues) \in Nat
        /\ \A k \in 1 .. Len(valuesWithOpenSlots) :
             valuesWithOpenSlots[k] < Len(freeValues)
    BY <1>2 DEF RangeInv
  <1>9. /\ valuesWithOpenSlots' \in Seq(Nat)
        /\ \A k \in 1 .. Len(valuesWithOpenSlots') :
             valuesWithOpenSlots'[k] < Len(freeValues)
    <2>1. CASE valuesWithOpenSlots' = valuesWithOpenSlots
      BY <1>2, <1>8, <2>1
    <2>2. CASE valuesWithOpenSlots' =
                 SubSeq(valuesWithOpenSlots, 1, Len(valuesWithOpenSlots) - 1)
      BY <1>2, <1>6, <1>8, <2>2, StackBelow
    <2> QED
      BY <1>7, <2>1, <2>2
  <1> QED
    BY <1>5, <1>9

LEMMA RangeAllocExtend ==
  ASSUME RangeInv, NEW h \in Handles, AllocExtend(h)
  PROVE  RangeInv'
  <1>1. PoolType /\ PoolTypeOK /\ pool.len \in Nat
    BY MemPoolAssumption DEF RangeInv, PoolTypeOK, PoolType
  <1>2. /\ FreeSlot \in Nat
        /\ FreeSlot < WordBits * Len(freeValues)
        /\ ~NoOpenSlot
    BY FreeSlotInRange DEF AllocExtend
  <1>3. /\ freeValues' \in Seq(SUBSET Bits)
        /\ Len(freeValues') = Len(freeValues)
        /\ valuesWithOpenSlots' \in Seq(Nat)
        /\ \A k \in 1 .. Len(valuesWithOpenSlots') :
             valuesWithOpenSlots'[k] < Len(freeValues')
    BY TakeBitRange DEF AllocExtend
  <1>4. /\ pool' \in [len : 0 .. MaxSlots, cap : Nat, block : Nat]
        /\ pool'.len = pool.len + 1
    BY <1>1, GrowPool DEF AllocExtend
  <1>5. /\ idxOf' \in [Handles -> Nat \cup {NoSlot}]
        /\ cellOf' \in [Handles -> [block : Nat, cell : Nat] \cup {NoSlot}]
        /\ \A g \in Handles : idxOf'[g] = NoSlot <=> cellOf'[g] = NoSlot
        /\ \A g \in Handles : idxOf'[g] = IF g = h THEN FreeSlot ELSE idxOf[g]
    <2>1. pool'.block \in Nat /\ Receive(h, FreeSlot, pool'.block, pool.len)
      BY <1>4 DEF AllocExtend
    <2> QED
      BY <1>1, <1>2, <2>1, ReceiveType
  <1>6. WordBits * Len(freeValues) \in Nat
    BY <1>1, MemPoolAssumption, Z3 DEF PoolType
  <1>7. pool'.len <= WordBits * Len(freeValues')
    BY <1>1, <1>2, <1>3, <1>4, <1>6 DEF AllocExtend
  <1>8. \A g \in Handles : idxOf'[g] # NoSlot => idxOf'[g] < WordBits * Len(freeValues')
    BY <1>2, <1>3, <1>5 DEF RangeInv
  <1> QED
    BY <1>3, <1>4, <1>5, <1>7, <1>8 DEF RangeInv, PoolTypeOK, PoolType

LEMMA RangeAllocReuse ==
  ASSUME RangeInv, NEW h \in Handles, AllocReuse(h)
  PROVE  RangeInv'
  <1>1. PoolTypeOK /\ pool \in [len : 0 .. MaxSlots, cap : Nat, block : Nat]
    BY DEF RangeInv, PoolTypeOK, PoolType
  <1>2. FreeSlot \in Nat /\ FreeSlot < WordBits * Len(freeValues) /\ ~NoOpenSlot
    BY FreeSlotInRange DEF AllocReuse
  <1>3. /\ freeValues' \in Seq(SUBSET Bits)
        /\ Len(freeValues') = Len(freeValues)
        /\ valuesWithOpenSlots' \in Seq(Nat)
        /\ \A k \in 1 .. Len(valuesWithOpenSlots') :
             valuesWithOpenSlots'[k] < Len(freeValues')
    BY TakeBitRange DEF AllocReuse
  <1>4. /\ idxOf' \in [Handles -> Nat \cup {NoSlot}]
        /\ cellOf' \in [Handles -> [block : Nat, cell : Nat] \cup {NoSlot}]
        /\ \A g \in Handles : idxOf'[g] = NoSlot <=> cellOf'[g] = NoSlot
        /\ \A g \in Handles : idxOf'[g] = IF g = h THEN FreeSlot ELSE idxOf[g]
    <2>1. pool.block \in Nat /\ Receive(h, FreeSlot, pool.block, FreeSlot)
      BY <1>1 DEF AllocReuse
    <2> QED
      BY <1>1, <1>2, <2>1, ReceiveType
  <1>5. pool' = pool
    BY DEF AllocReuse
  <1> QED
    BY <1>1, <1>2, <1>3, <1>4, <1>5 DEF RangeInv, PoolTypeOK, PoolType

LEMMA RangeFree ==
  ASSUME RangeInv, NEW h \in Handles, Free(h)
  PROVE  RangeInv'
  <1> DEFINE i == idxOf[h]
             w == i \div WordBits
  <1>1. /\ freeValues \in Seq(SUBSET Bits)
        /\ valuesWithOpenSlots \in Seq(Nat)
        /\ Len(freeValues) \in Nat
    BY DEF RangeInv, PoolTypeOK, PoolType
  <1>2. i \in Nat /\ i < WordBits * Len(freeValues)
    BY DEF Free, RangeInv, PoolTypeOK
  <1>3. w \in Nat /\ i % WordBits \in Bits /\ w < Len(freeValues)
    <2> HIDE DEF i
    <2> QED
      BY <1>1, <1>2, SlotWord
  <1>4. /\ freeValues' \in Seq(SUBSET Bits)
        /\ Len(freeValues') = Len(freeValues)
    <2>1. freeValues' = [freeValues EXCEPT ![w + 1] = @ \cup {i % WordBits}]
      BY DEF Free, FreeBit
    <2>2. freeValues[w + 1] \cup {i % WordBits} \in SUBSET Bits
      BY <1>1, <1>3
    <2>3. w + 1 \in 1 .. Len(freeValues)
      BY <1>1, <1>3
    <2> HIDE DEF i, w
    <2> QED
      BY <1>1, <2>1, <2>2, <2>3, SeqReplace
  <1>5. /\ valuesWithOpenSlots' \in Seq(Nat)
        /\ \A k \in 1 .. Len(valuesWithOpenSlots') :
             valuesWithOpenSlots'[k] < Len(freeValues')
    <2>1. \/ valuesWithOpenSlots' = valuesWithOpenSlots
          \/ valuesWithOpenSlots' = Append(valuesWithOpenSlots, w)
      BY DEF Free, FreeBit
    <2>2. \A k \in 1 .. Len(valuesWithOpenSlots) :
            valuesWithOpenSlots[k] < Len(freeValues)
      BY DEF RangeInv
    <2> HIDE DEF w
    <2>3. CASE valuesWithOpenSlots' = valuesWithOpenSlots
      BY <1>1, <1>4, <2>2, <2>3
    <2>4. CASE valuesWithOpenSlots' = Append(valuesWithOpenSlots, w)
      BY <1>1, <1>3, <1>4, <2>2, <2>4, StackBelow
    <2> QED
      BY <2>1, <2>3, <2>4
  <1>6. /\ idxOf' \in [Handles -> Nat \cup {NoSlot}]
        /\ cellOf' \in [Handles -> [block : Nat, cell : Nat] \cup {NoSlot}]
        /\ \A g \in Handles : idxOf'[g] = NoSlot <=> cellOf'[g] = NoSlot
        /\ \A g \in Handles : idxOf'[g] = IF g = h THEN NoSlot ELSE idxOf[g]
        /\ pool' = pool
    BY DEF Free, RangeInv, PoolTypeOK
  <1> QED
    BY <1>4, <1>5, <1>6 DEF RangeInv, PoolTypeOK, PoolType

LEMMA RangeNext == RangeInv /\ [PoolNext]_allocVars => RangeInv'
  <1> SUFFICES ASSUME RangeInv, [PoolNext]_allocVars PROVE RangeInv'
    OBVIOUS
  <1>1. ASSUME NEW h \in Handles, Alloc(h) PROVE RangeInv'
    BY <1>1, RangeAllocFresh, RangeAllocExtend, RangeAllocReuse DEF Alloc
  <1>2. ASSUME NEW h \in Handles, Free(h) PROVE RangeInv'
    BY <1>2, RangeFree
  <1>3. CASE UNCHANGED allocVars
    BY <1>3 DEF allocVars, RangeInv, PoolTypeOK, PoolType
  <1> QED
    BY <1>1, <1>2, <1>3 DEF PoolNext

THEOREM RangeInvariant == PoolSpec => []RangeInv
  BY RangeInit, RangeNext, PTL DEF PoolSpec

\* Type correctness, for any number of handles, any word size and any bound.
THEOREM MemPoolTypeCorrect == PoolSpec => []PoolTypeOK
  <1>1. RangeInv => PoolTypeOK
    BY DEF RangeInv
  <1> QED
    BY <1>1, RangeInvariant, PTL

\* FtMemPool_Alloc and FtMemPool_Free never dereference the NULL FtArr_Get
\* returns for a word that does not exist, however many objects are live.
THEOREM MemPoolLookupsInRange == PoolSpec => []WordLookupsInRange
  <1>1. ASSUME RangeInv PROVE WordLookupsInRange
    <2>1. ~NoOpenSlot => FreeSlot \div WordBits < Len(freeValues)
      BY <1>1, FreeSlotInRange
    <2>2. ASSUME NEW h \in Handles, idxOf[h] # NoSlot
          PROVE  idxOf[h] \div WordBits < Len(freeValues)
      <3>1. idxOf[h] \in Nat /\ Len(freeValues) \in Nat
        BY <1>1, <2>2 DEF RangeInv, PoolTypeOK, PoolType
      <3>2. idxOf[h] < WordBits * Len(freeValues)
        BY <1>1, <2>2 DEF RangeInv
      <3> QED
        BY <3>1, <3>2, SlotWord
    <2> QED
      BY <1>1, <2>1, <2>2 DEF WordLookupsInRange, RangeInv
  <1> QED
    BY <1>1, RangeInvariant, PTL

------------------------------------------------------------------------------
(* No more live objects than one bitset word has bits.                      *)

\* The program never has more objects of the class alive than one word has
\* bits, and the object array starts out large enough for them.  In the code
\* the word has 16 bits and the array 32 cells.
FitsOneWord ==
  /\ Cardinality(Handles) <= WordBits
  /\ WordBits <= InitialCap

\* The inductive invariant: there is at most one word, it is exact, it is on
\* the stack exactly while it has a set bit, every index handed out belongs
\* to one handle and is the cell its pointer refers to, and the object array
\* has not been moved.
OneWordInv ==
  /\ PoolTypeOK
  /\ Len(freeValues) <= 1
  /\ freeValues = <<>> => valuesWithOpenSlots = <<>> /\ pool.len = 0
  /\ freeValues # <<>> =>
       /\ \A b \in Bits : b \in freeValues[1] <=> \A h \in Handles : idxOf[h] # b
       /\ valuesWithOpenSlots = IF freeValues[1] = {} THEN <<>> ELSE <<0>>
  /\ pool.len <= WordBits /\ pool.cap = InitialCap /\ pool.block = 0
  /\ \A h \in Handles : idxOf[h] # NoSlot =>
       /\ idxOf[h] < pool.len
       /\ cellOf[h] = [block |-> 0, cell |-> idxOf[h]]
  /\ \A g, h \in Handles : idxOf[g] = idxOf[h] /\ idxOf[g] # NoSlot => g = h

\* While some handle holds nothing, fewer slots are taken than there are
\* handles.
LEMMA TakenBelowHandles ==
  ASSUME NEW h \in Handles, idxOf[h] = NoSlot, NEW n \in Nat,
         \A j \in 0 .. n - 1 : \E g \in Handles : idxOf[g] = j
  PROVE  n <= Cardinality(Handles) - 1
  <1> DEFINE others == Handles \ {h}
             owner == [j \in 0 .. n - 1 |-> CHOOSE g \in Handles : idxOf[g] = j]
  <1>1. ASSUME NEW j \in 0 .. n - 1
        PROVE  owner[j] \in others /\ idxOf[owner[j]] = j
    <2>1. owner[j] \in Handles /\ idxOf[owner[j]] = j
      OBVIOUS
    <2>2. j # NoSlot
      BY MemPoolAssumption
    <2> QED
      BY <2>1, <2>2
  <1>2. owner \in Injection(0 .. n - 1, others)
    <2>1. owner \in [0 .. n - 1 -> others]
      BY <1>1
    <2>2. \A a, b \in 0 .. n - 1 : owner[a] = owner[b] => a = b
      BY <1>1
    <2> HIDE DEF owner, others
    <2> QED
      BY <2>1, <2>2, Fun_IsInj
  <1>3. /\ IsFiniteSet(others)
        /\ Cardinality(others) = Cardinality(Handles) - 1
    BY FS_RemoveElement, MemPoolAssumption
  <1>4. Cardinality(0 .. n - 1) <= Cardinality(others)
    <2> HIDE DEF owner, others
    <2> QED
      BY <1>2, <1>3, FS_Injection
  <1>5. Cardinality(0 .. n - 1) = n
    <2>1. n - 1 \in Int /\ 0 \in Int
      OBVIOUS
    <2>2. Cardinality(0 .. n - 1) = IF 0 > n - 1 THEN 0 ELSE n - 1 - 0 + 1
      BY <2>1, FS_Interval
    <2> QED
      BY <2>2
  <1> QED
    BY <1>3, <1>4, <1>5

\* Once the first object exists there is exactly one word.
LEMMA OneWordCount ==
  ASSUME OneWordInv, freeValues # <<>>
  PROVE  Len(freeValues) = 1
  <1>1. freeValues \in Seq(SUBSET Bits) /\ Len(freeValues) <= 1
    BY DEF OneWordInv, PoolTypeOK, PoolType
  <1> DEFINE n == Len(freeValues)
  <1>2. n \in Nat \ {0}
    BY <1>1, EmptySeq
  <1>3. n <= 1
    BY <1>1
  <1> HIDE DEF n
  <1>4. n = 1
    BY <1>2, <1>3
  <1> QED
    BY <1>4 DEF n

\* An index is below the length of the array, and its pointer is to its cell.
LEMMA OneWordCells ==
  ASSUME OneWordInv, NEW h \in Handles, idxOf[h] # NoSlot
  PROVE  idxOf[h] < pool.len /\ cellOf[h] = [block |-> 0, cell |-> idxOf[h]]
  BY Zenon DEF OneWordInv

\* Before the first object exists no handle holds anything.
LEMMA OneWordNone ==
  ASSUME OneWordInv, pool.len = 0, NEW h \in Handles
  PROVE  idxOf[h] = NoSlot
  <1> SUFFICES ASSUME idxOf[h] # NoSlot PROVE FALSE
    OBVIOUS
  <1>1. idxOf[h] \in Nat
    BY DEF OneWordInv, PoolTypeOK
  <1>2. idxOf[h] < 0
    BY OneWordCells
  <1> QED
    BY <1>1, <1>2

\* The index and the pointer of a live object.
LEMMA OneWordPointer ==
  ASSUME OneWordInv, NEW h \in Handles, idxOf[h] # NoSlot
  PROVE  cellOf[h].cell = idxOf[h] /\ cellOf[h].block = 0
  <1>1. cellOf[h] = [block |-> 0, cell |-> idxOf[h]]
    BY DEF OneWordInv
  <1> QED
    BY <1>1

\* A slot below WordBits is bit number slot of word 0.
LEMMA FirstWord ==
  ASSUME NEW i \in Bits
  PROVE  i \div WordBits = 0 /\ i % WordBits = i
  <1>1. WordBits \in Nat /\ WordBits >= 1 /\ i \in Nat /\ i < WordBits
    BY MemPoolAssumption DEF Bits
  <1> QED
    BY <1>1, Z3

\* The search fails only before the first object exists: with one word all
\* of whose bits are clear, more objects would be alive than there are
\* handles.
LEMMA OneWordFull ==
  ASSUME FitsOneWord, OneWordInv, NoOpenSlot, NEW h \in Handles, idxOf[h] = NoSlot
  PROVE  freeValues = <<>>
  <1> SUFFICES ASSUME freeValues # <<>> PROVE FALSE
    OBVIOUS
  <1>1. freeValues[1] = {}
    <2> SUFFICES ASSUME freeValues[1] # {} PROVE FALSE
      OBVIOUS
    <2>1. valuesWithOpenSlots = <<0>>
      BY DEF OneWordInv
    <2>2. valuesWithOpenSlots # <<>> /\ Top = 0
      BY <2>1 DEF Top
    <2>3. Word(Top) = freeValues[1]
      BY <2>2 DEF Word
    <2> QED
      BY <2>2, <2>3 DEF NoOpenSlot
  <1>2. \A j \in 0 .. WordBits - 1 : \E g \in Handles : idxOf[g] = j
    BY <1>1 DEF OneWordInv, Bits
  <1>3. WordBits <= Cardinality(Handles) - 1
    BY <1>2, TakenBelowHandles, MemPoolAssumption
  <1>4. Cardinality(Handles) \in Nat /\ WordBits \in Nat
    BY FS_CardinalityType, MemPoolAssumption
  <1> QED
    BY <1>3, <1>4 DEF FitsOneWord

\* A search that succeeds finds the lowest slot no handle holds, and that
\* slot is in use for the first time only if all below it are taken.
LEMMA OneWordSearch ==
  ASSUME OneWordInv, ~NoOpenSlot
  PROVE  /\ Len(freeValues) = 1 /\ valuesWithOpenSlots = <<0>>
         /\ FreeSlot \in Bits
         /\ \A b \in Bits : b < FreeSlot => \E g \in Handles : idxOf[g] = b
         /\ \A g \in Handles : idxOf[g] # FreeSlot
         /\ FreeSlot <= pool.len
  <1>1. Len(freeValues) = 1 /\ freeValues \in Seq(SUBSET Bits)
    BY DEF OneWordInv, NoOpenSlot, PoolTypeOK, PoolType
  <1>2. valuesWithOpenSlots = <<0>> /\ freeValues[1] # {}
    BY <1>1 DEF OneWordInv, NoOpenSlot
  <1>3. Top = 0 /\ Word(Top) = freeValues[1]
    BY <1>2 DEF Top, Word
  <1>4. freeValues[1] \in SUBSET Bits /\ Bits \subseteq Nat
    BY <1>1 DEF Bits
  <1>5. /\ LowestBit(freeValues[1]) \in freeValues[1]
        /\ \A c \in freeValues[1] : LowestBit(freeValues[1]) <= c
    BY <1>2, <1>4, LowestBitExists
  <1>6. FreeSlot = LowestBit(freeValues[1])
    <2>1. FreeSlot = 0 + LowestBit(freeValues[1])
      BY <1>2, <1>3 DEF FreeSlot
    <2>2. LowestBit(freeValues[1]) \in Nat
      BY <1>4, <1>5
    <2> QED
      BY <2>1, <2>2
  <1>7. FreeSlot \in Bits /\ FreeSlot \in Nat /\ FreeSlot < WordBits
    BY <1>4, <1>5, <1>6, MemPoolAssumption DEF Bits
  <1>8. \A b \in Bits : b \in freeValues[1] <=> \A g \in Handles : idxOf[g] # b
    BY <1>1 DEF OneWordInv
  <1>9. \A b \in Bits : b < FreeSlot => \E g \in Handles : idxOf[g] = b
    <2>1. ASSUME NEW b \in Bits, b < FreeSlot PROVE b \notin freeValues[1]
      BY <1>4, <1>5, <1>6, <1>7, <2>1
    <2> QED
      BY <1>8, <2>1
  <1>10. \A g \in Handles : idxOf[g] # FreeSlot
    BY <1>5, <1>6, <1>7, <1>8
  <1>11. pool.len \in Nat /\ pool.len <= WordBits /\ WordBits \in Nat
    BY MemPoolAssumption DEF OneWordInv, PoolTypeOK, PoolType
  <1>12. FreeSlot <= pool.len
    <2>1. CASE pool.len = WordBits
      BY <1>7, <1>11, <2>1
    <2>2. CASE pool.len < WordBits
      <3>1. pool.len \in Bits
        BY <1>11, <2>2 DEF Bits
      <3>2. \A g \in Handles : idxOf[g] # pool.len
        BY <1>11, MemPoolAssumption DEF OneWordInv, PoolTypeOK
      <3>3. pool.len \in freeValues[1]
        BY <1>8, <3>1, <3>2
      <3> QED
        BY <1>5, <1>6, <3>3
    <2> QED
      BY <1>11, <2>1, <2>2
  <1> QED
    BY <1>1, <1>2, <1>7, <1>9, <1>10, <1>12

\* A handle that holds nothing receives a slot no handle holds: the
\* assertions of the invariant about handles are kept.
LEMMA OneWordReceive ==
  ASSUME OneWordInv, NEW h \in Handles, idxOf[h] = NoSlot, NEW i \in Nat,
         \A g \in Handles : idxOf[g] # i,
         Receive(h, i, 0, i),
         pool.len <= pool'.len, i < pool'.len, pool'.len \in Nat
  PROVE  /\ idxOf' \in [Handles -> Nat \cup {NoSlot}]
         /\ cellOf' \in [Handles -> [block : Nat, cell : Nat] \cup {NoSlot}]
         /\ \A g \in Handles : idxOf'[g] = NoSlot <=> cellOf'[g] = NoSlot
         /\ \A g \in Handles : idxOf'[g] = IF g = h THEN i ELSE idxOf[g]
         /\ \A g \in Handles : idxOf'[g] # NoSlot =>
              /\ idxOf'[g] < pool'.len
              /\ cellOf'[g] = [block |-> 0, cell |-> idxOf'[g]]
         /\ \A f, g \in Handles :
              idxOf'[f] = idxOf'[g] /\ idxOf'[f] # NoSlot => f = g
  <1>1. PoolTypeOK /\ pool.len \in Nat
    BY MemPoolAssumption DEF OneWordInv, PoolTypeOK, PoolType
  <1>2. /\ idxOf' \in [Handles -> Nat \cup {NoSlot}]
        /\ cellOf' \in [Handles -> [block : Nat, cell : Nat] \cup {NoSlot}]
        /\ \A g \in Handles : idxOf'[g] = NoSlot <=> cellOf'[g] = NoSlot
        /\ \A g \in Handles : idxOf'[g] = IF g = h THEN i ELSE idxOf[g]
        /\ \A g \in Handles : cellOf'[g] = IF g = h THEN [block |-> 0, cell |-> i]
                                                   ELSE cellOf[g]
    BY <1>1, ReceiveType
  <1>3. ASSUME NEW g \in Handles, idxOf'[g] # NoSlot
        PROVE  /\ idxOf'[g] < pool'.len
               /\ cellOf'[g] = [block |-> 0, cell |-> idxOf'[g]]
    <2>1. CASE g = h
      BY <1>2, <2>1
    <2>2. CASE g # h
      <3>1. idxOf[g] < pool.len /\ cellOf[g] = [block |-> 0, cell |-> idxOf[g]]
        BY <1>2, <1>3, <2>2, OneWordCells
      <3>2. idxOf[g] \in Nat
        BY <1>1, <1>2, <1>3, <2>2 DEF PoolTypeOK
      <3> QED
        BY <1>1, <1>2, <2>2, <3>1, <3>2
    <2> QED
      BY <2>1, <2>2
  <1>4. ASSUME NEW f \in Handles, NEW g \in Handles,
               idxOf'[f] = idxOf'[g], idxOf'[f] # NoSlot
        PROVE  f = g
    BY <1>2, <1>4 DEF OneWordInv
  <1> QED
    BY <1>2, <1>3, <1>4

LEMMA OneWordInit == FitsOneWord /\ PoolInit => OneWordInv
  <1> SUFFICES ASSUME PoolInit PROVE OneWordInv
    OBVIOUS
  <1>1. PoolTypeOK
    BY RangeInit DEF RangeInv
  <1>2. Len(freeValues) = 0 /\ WordBits \in Nat /\ WordBits >= 0
    BY MemPoolAssumption DEF PoolInit
  <1>3. \A h \in Handles : idxOf[h] = NoSlot
    BY DEF PoolInit
  <1>4. pool.len = 0 /\ pool.cap = InitialCap /\ pool.block = 0
    BY DEF PoolInit
  <1>5. freeValues = <<>> /\ valuesWithOpenSlots = <<>>
    BY DEF PoolInit
  <1> QED
    BY <1>1, <1>2, <1>3, <1>4, <1>5 DEF OneWordInv

LEMMA OneWordAllocFresh ==
  ASSUME FitsOneWord, OneWordInv, NEW h \in Handles, AllocFresh(h)
  PROVE  OneWordInv'
  <1>1. idxOf[h] = NoSlot /\ freeValues = <<>> /\ valuesWithOpenSlots = <<>>
    BY OneWordFull DEF AllocFresh, OneWordInv
  <1>2. /\ pool.len = 0 /\ pool.cap = InitialCap /\ pool.block = 0 /\ PoolType
        /\ MaxSlots \in Nat /\ 0 < MaxSlots /\ pool \in [len : 0 .. MaxSlots, cap : Nat, block : Nat]
    BY <1>1, MemPoolAssumption DEF OneWordInv, PoolTypeOK, PoolType, AllocFresh
  <1>3. /\ pool' \in [len : 0 .. MaxSlots, cap : Nat, block : Nat]
        /\ pool'.len = 1 /\ pool'.cap = InitialCap /\ pool'.block = 0
    <2>1. pool' = [pool EXCEPT !.len = @ + 1]
      BY <1>2, MemPoolAssumption DEF AllocFresh, GrownPool
    <2> QED
      BY <1>2, <2>1
  <1>4. 0 % WordBits = 0 /\ 0 \in Bits /\ 1 \in Bits
    BY FirstWord, MemPoolAssumption DEF Bits
  <1>5. freeValues' = <<Bits \ {0}>> /\ valuesWithOpenSlots' = <<0>>
    BY <1>1, <1>2, <1>4 DEF AllocFresh
  <1>6. \A g \in Handles : idxOf[g] = NoSlot
    BY <1>2, OneWordNone
  <1>7. /\ idxOf' \in [Handles -> Nat \cup {NoSlot}]
        /\ cellOf' \in [Handles -> [block : Nat, cell : Nat] \cup {NoSlot}]
        /\ \A g \in Handles : idxOf'[g] = NoSlot <=> cellOf'[g] = NoSlot
        /\ \A g \in Handles : idxOf'[g] = IF g = h THEN 0 ELSE idxOf[g]
        /\ \A g \in Handles : idxOf'[g] # NoSlot =>
             /\ idxOf'[g] < pool'.len
             /\ cellOf'[g] = [block |-> 0, cell |-> idxOf'[g]]
        /\ \A f, g \in Handles :
             idxOf'[f] = idxOf'[g] /\ idxOf'[f] # NoSlot => f = g
    <2>1. Receive(h, 0, 0, 0)
      BY <1>2, <1>3 DEF AllocFresh
    <2>2. \A g \in Handles : idxOf[g] # 0
      BY <1>6, MemPoolAssumption
    <2> QED
      BY <1>1, <1>2, <1>3, <2>1, <2>2, OneWordReceive
  <1>8. \A b \in Bits : b \in freeValues'[1] <=> \A g \in Handles : idxOf'[g] # b
    <2>1. NoSlot \notin Bits
      BY MemPoolAssumption DEF Bits
    <2> QED
      BY <1>5, <1>6, <1>7, <2>1
  <1>9. valuesWithOpenSlots' = IF freeValues'[1] = {} THEN <<>> ELSE <<0>>
    BY <1>4, <1>5
  <1>10. freeValues' \in Seq(SUBSET Bits) /\ Len(freeValues') = 1 /\ freeValues' # <<>>
    BY <1>5
  <1>11. valuesWithOpenSlots' \in Seq(Nat)
    BY <1>5
  <1>12. pool'.len <= WordBits
    BY <1>3, MemPoolAssumption
  <1> QED
    BY <1>3, <1>7, <1>8, <1>9, <1>10, <1>11, <1>12 DEF OneWordInv, PoolTypeOK, PoolType

\* What taking the slot the search found does to the bitset.
LEMMA OneWordTakeBit ==
  ASSUME OneWordInv, ~NoOpenSlot, TakeBit, NEW h \in Handles, idxOf[h] = NoSlot,
         \A g \in Handles : idxOf'[g] = IF g = h THEN FreeSlot ELSE idxOf[g]
  PROVE  /\ freeValues' \in Seq(SUBSET Bits)
         /\ valuesWithOpenSlots' \in Seq(Nat)
         /\ Len(freeValues') = 1 /\ freeValues' # <<>>
         /\ \A b \in Bits : b \in freeValues'[1] <=> \A g \in Handles : idxOf'[g] # b
         /\ valuesWithOpenSlots' = IF freeValues'[1] = {} THEN <<>> ELSE <<0>>
  <1>1. /\ Len(freeValues) = 1 /\ valuesWithOpenSlots = <<0>> /\ FreeSlot \in Bits
        /\ freeValues \in Seq(SUBSET Bits)
    BY OneWordSearch DEF OneWordInv, PoolTypeOK, PoolType
  <1>2. FreeSlot \div WordBits = 0 /\ FreeSlot % WordBits = FreeSlot
    BY <1>1, FirstWord
  <1> DEFINE word == freeValues[1] \ {FreeSlot}
  <1>3. /\ freeValues' = [freeValues EXCEPT ![1] = word]
        /\ valuesWithOpenSlots' =
             IF word = {}
             THEN SubSeq(valuesWithOpenSlots, 1, Len(valuesWithOpenSlots) - 1)
             ELSE valuesWithOpenSlots
    <2> DEFINE w == FreeSlot \div WordBits
               rest == Word(w) \ {FreeSlot % WordBits}
    <2>1. /\ freeValues' = [freeValues EXCEPT ![w + 1] = rest]
          /\ valuesWithOpenSlots' =
               IF rest = {}
               THEN SubSeq(valuesWithOpenSlots, 1, Len(valuesWithOpenSlots) - 1)
               ELSE valuesWithOpenSlots
      BY DEF TakeBit
    <2>2. w + 1 = 1
      BY <1>2
    <2>3. rest = word
      BY <1>2, <2>2 DEF Word
    <2> HIDE DEF w, rest, word
    <2> QED
      BY <2>1, <2>2, <2>3
  <1>4. 1 \in 1 .. Len(freeValues) /\ word \in SUBSET Bits
    BY <1>1
  <1>5. freeValues' \in Seq(SUBSET Bits) /\ Len(freeValues') = 1
    <2> HIDE DEF word
    <2> QED
      BY <1>1, <1>3, <1>4, SeqReplace
  <1>6. freeValues'[1] = word /\ freeValues' # <<>>
    BY <1>1, <1>3, <1>5
  <1>7. SubSeq(<<0>>, 1, Len(<<0>>) - 1) = <<>>
    OBVIOUS
  <1>8. valuesWithOpenSlots' = IF freeValues'[1] = {} THEN <<>> ELSE <<0>>
    BY <1>1, <1>3, <1>6, <1>7
  <1>9. ASSUME NEW b \in Bits
        PROVE  b \in freeValues'[1] <=> \A g \in Handles : idxOf'[g] # b
    <2>1. b \in freeValues[1] <=> \A g \in Handles : idxOf[g] # b
      BY <1>1 DEF OneWordInv
    <2>2. b # NoSlot
      BY MemPoolAssumption DEF Bits
    <2> QED
      BY <1>6, <2>1, <2>2
  <1> QED
    BY <1>5, <1>6, <1>8, <1>9

LEMMA OneWordAllocExtend ==
  ASSUME FitsOneWord, OneWordInv, NEW h \in Handles, AllocExtend(h)
  PROVE  OneWordInv'
  <1>1. /\ idxOf[h] = NoSlot /\ ~NoOpenSlot /\ TakeBit /\ pool' = GrownPool
        /\ FreeSlot >= pool.len /\ pool.len < MaxSlots
        /\ Receive(h, FreeSlot, pool'.block, pool.len)
    BY DEF AllocExtend
  <1>2. /\ pool \in [len : 0 .. MaxSlots, cap : Nat, block : Nat] /\ PoolType
        /\ pool.cap = InitialCap /\ pool.block = 0
    BY DEF OneWordInv, PoolTypeOK, PoolType
  <1>3. /\ FreeSlot \in Nat /\ FreeSlot < WordBits /\ FreeSlot = pool.len
        /\ \A g \in Handles : idxOf[g] # FreeSlot
    <2>1. FreeSlot \in Bits /\ FreeSlot <= pool.len /\ \A g \in Handles : idxOf[g] # FreeSlot
      BY <1>1, OneWordSearch
    <2>2. FreeSlot \in Nat /\ FreeSlot < WordBits /\ pool.len \in Nat
      BY <1>2, <2>1, MemPoolAssumption DEF Bits
    <2> QED
      BY <1>1, <2>1, <2>2
  <1>4. pool.len # pool.cap
    BY <1>2, <1>3, MemPoolAssumption DEF FitsOneWord
  <1>5. /\ pool' \in [len : 0 .. MaxSlots, cap : Nat, block : Nat]
        /\ pool'.len = pool.len + 1 /\ pool'.cap = InitialCap /\ pool'.block = 0
    BY <1>1, <1>2, <1>4, GrowPool
  <1>6. /\ idxOf' \in [Handles -> Nat \cup {NoSlot}]
        /\ cellOf' \in [Handles -> [block : Nat, cell : Nat] \cup {NoSlot}]
        /\ \A g \in Handles : idxOf'[g] = NoSlot <=> cellOf'[g] = NoSlot
        /\ \A g \in Handles : idxOf'[g] = IF g = h THEN FreeSlot ELSE idxOf[g]
        /\ \A g \in Handles : idxOf'[g] # NoSlot =>
             /\ idxOf'[g] < pool'.len
             /\ cellOf'[g] = [block |-> 0, cell |-> idxOf'[g]]
        /\ \A f, g \in Handles :
             idxOf'[f] = idxOf'[g] /\ idxOf'[f] # NoSlot => f = g
    <2>1. Receive(h, FreeSlot, 0, FreeSlot)
      BY <1>1, <1>3, <1>5
    <2>2. pool.len <= pool'.len /\ FreeSlot < pool'.len /\ pool'.len \in Nat
      BY <1>3, <1>5
    <2> QED
      BY <1>1, <1>3, <2>1, <2>2, OneWordReceive
  <1>7. /\ freeValues' \in Seq(SUBSET Bits)
        /\ valuesWithOpenSlots' \in Seq(Nat)
        /\ Len(freeValues') = 1 /\ freeValues' # <<>>
        /\ \A b \in Bits : b \in freeValues'[1] <=> \A g \in Handles : idxOf'[g] # b
        /\ valuesWithOpenSlots' = IF freeValues'[1] = {} THEN <<>> ELSE <<0>>
    BY <1>1, <1>6, OneWordTakeBit
  <1>8. pool'.len <= WordBits
    BY <1>3, <1>5, MemPoolAssumption
  <1> QED
    BY <1>5, <1>6, <1>7, <1>8 DEF OneWordInv, PoolTypeOK, PoolType

LEMMA OneWordAllocReuse ==
  ASSUME OneWordInv, NEW h \in Handles, AllocReuse(h)
  PROVE  OneWordInv'
  <1>1. /\ idxOf[h] = NoSlot /\ ~NoOpenSlot /\ TakeBit /\ pool' = pool
        /\ FreeSlot < pool.len
        /\ Receive(h, FreeSlot, pool.block, FreeSlot)
    BY DEF AllocReuse
  <1>2. /\ pool \in [len : 0 .. MaxSlots, cap : Nat, block : Nat] /\ pool.len \in Nat
        /\ pool.cap = InitialCap /\ pool.block = 0 /\ pool.len <= WordBits
    BY MemPoolAssumption DEF OneWordInv, PoolTypeOK, PoolType
  <1>3. FreeSlot \in Nat /\ \A g \in Handles : idxOf[g] # FreeSlot
    BY <1>1, OneWordSearch DEF Bits
  <1>4. /\ idxOf' \in [Handles -> Nat \cup {NoSlot}]
        /\ cellOf' \in [Handles -> [block : Nat, cell : Nat] \cup {NoSlot}]
        /\ \A g \in Handles : idxOf'[g] = NoSlot <=> cellOf'[g] = NoSlot
        /\ \A g \in Handles : idxOf'[g] = IF g = h THEN FreeSlot ELSE idxOf[g]
        /\ \A g \in Handles : idxOf'[g] # NoSlot =>
             /\ idxOf'[g] < pool'.len
             /\ cellOf'[g] = [block |-> 0, cell |-> idxOf'[g]]
        /\ \A f, g \in Handles :
             idxOf'[f] = idxOf'[g] /\ idxOf'[f] # NoSlot => f = g
    <2>1. Receive(h, FreeSlot, 0, FreeSlot)
      BY <1>1, <1>2
    <2>2. pool.len <= pool'.len /\ FreeSlot < pool'.len /\ pool'.len \in Nat
      BY <1>1, <1>2
    <2> QED
      BY <1>1, <1>3, <2>1, <2>2, OneWordReceive
  <1>5. /\ freeValues' \in Seq(SUBSET Bits)
        /\ valuesWithOpenSlots' \in Seq(Nat)
        /\ Len(freeValues') = 1 /\ freeValues' # <<>>
        /\ \A b \in Bits : b \in freeValues'[1] <=> \A g \in Handles : idxOf'[g] # b
        /\ valuesWithOpenSlots' = IF freeValues'[1] = {} THEN <<>> ELSE <<0>>
    BY <1>1, <1>4, OneWordTakeBit
  <1> QED
    BY <1>1, <1>2, <1>4, <1>5 DEF OneWordInv, PoolTypeOK, PoolType

LEMMA OneWordFree ==
  ASSUME OneWordInv, NEW h \in Handles, Free(h)
  PROVE  OneWordInv'
  <1> DEFINE i == idxOf[h]
  <1>1. /\ PoolTypeOK /\ freeValues \in Seq(SUBSET Bits) /\ Len(freeValues) \in Nat
        /\ Len(freeValues) <= 1 /\ pool.len \in Nat /\ pool.len <= WordBits
    BY MemPoolAssumption DEF OneWordInv, PoolTypeOK, PoolType
  <1>2. i \in Nat /\ i < pool.len /\ i # NoSlot
    BY <1>1 DEF Free, OneWordInv, PoolTypeOK
  <1>3. i \in Bits
    BY <1>1, <1>2, MemPoolAssumption DEF Bits
  <1>4. Len(freeValues) = 1 /\ freeValues # <<>>
    <2>1. freeValues # <<>>
      BY <1>2 DEF OneWordInv
    <2> QED
      BY <2>1, OneWordCount
  <1>5. i \div WordBits = 0 /\ i % WordBits = i
    BY <1>3, FirstWord
  <1>6. /\ freeValues' = [freeValues EXCEPT ![1] = freeValues[1] \cup {i}]
        /\ valuesWithOpenSlots' =
             IF freeValues[1] = {} THEN Append(valuesWithOpenSlots, 0)
                                   ELSE valuesWithOpenSlots
    <2>1. FreeBit(i)
      BY DEF Free
    <2> HIDE DEF i
    <2> DEFINE w == i \div WordBits
               bit == i % WordBits
    <2>2. /\ freeValues' = [freeValues EXCEPT ![w + 1] = freeValues[w + 1] \cup {bit}]
          /\ valuesWithOpenSlots' =
               IF Word(w) = {} THEN Append(valuesWithOpenSlots, w)
                               ELSE valuesWithOpenSlots
      BY <2>1 DEF FreeBit
    <2>3. w = 0 /\ w + 1 = 1 /\ bit = i
      BY <1>5
    <2>4. Word(w) = freeValues[1]
      BY <2>3 DEF Word
    <2> HIDE DEF w, bit
    <2> QED
      BY <2>2, <2>3, <2>4
  <1>7. /\ freeValues' \in Seq(SUBSET Bits) /\ Len(freeValues') = 1
        /\ freeValues' # <<>> /\ freeValues'[1] = freeValues[1] \cup {i}
    <2>1. 1 \in 1 .. Len(freeValues) /\ freeValues[1] \cup {i} \in SUBSET Bits
      BY <1>1, <1>3, <1>4
    <2>2. freeValues' \in Seq(SUBSET Bits) /\ Len(freeValues') = 1
      BY <1>1, <1>4, <1>6, <2>1, SeqReplace
    <2> QED
      BY <1>1, <1>4, <1>6, <2>2
  <1>8. valuesWithOpenSlots' = <<0>>
    <2>1. valuesWithOpenSlots = IF freeValues[1] = {} THEN <<>> ELSE <<0>>
      BY <1>4 DEF OneWordInv
    <2>2. CASE freeValues[1] = {}
      <3>1. Append(<<>>, 0) = <<0>>
        OBVIOUS
      <3> QED
        BY <1>6, <2>1, <2>2, <3>1
    <2>3. CASE freeValues[1] # {}
      BY <1>6, <2>1, <2>3
    <2> QED
      BY <2>2, <2>3
  <1>9. /\ idxOf' \in [Handles -> Nat \cup {NoSlot}]
        /\ cellOf' \in [Handles -> [block : Nat, cell : Nat] \cup {NoSlot}]
        /\ \A g \in Handles : idxOf'[g] = NoSlot <=> cellOf'[g] = NoSlot
        /\ \A g \in Handles : idxOf'[g] = IF g = h THEN NoSlot ELSE idxOf[g]
        /\ \A g \in Handles : g # h => cellOf'[g] = cellOf[g]
        /\ pool' = pool
    BY <1>1 DEF Free, PoolTypeOK
  <1>10. \A b \in Bits : b \in freeValues'[1] <=> \A g \in Handles : idxOf'[g] # b
    <2> SUFFICES ASSUME NEW b \in Bits
                 PROVE  b \in freeValues'[1] <=> \A g \in Handles : idxOf'[g] # b
      OBVIOUS
    <2>1. b \in freeValues[1] <=> \A g \in Handles : idxOf[g] # b
      BY <1>4 DEF OneWordInv
    <2>2. b # NoSlot
      BY MemPoolAssumption DEF Bits
    <2>3. \A g \in Handles : idxOf[g] = i => g = h
      BY <1>2 DEF OneWordInv
    <2> HIDE DEF i
    <2>4. CASE b = i
      BY <1>7, <1>9, <2>2, <2>3, <2>4 DEF i
    <2>5. CASE b # i
      BY <1>7, <1>9, <2>1, <2>2, <2>5 DEF i
    <2> QED
      BY <2>4, <2>5
  <1>11. /\ \A g \in Handles : idxOf'[g] # NoSlot =>
              /\ idxOf'[g] < pool'.len
              /\ cellOf'[g] = [block |-> 0, cell |-> idxOf'[g]]
         /\ \A f, g \in Handles :
              idxOf'[f] = idxOf'[g] /\ idxOf'[f] # NoSlot => f = g
    <2> HIDE DEF i
    <2>1. ASSUME NEW g \in Handles, idxOf'[g] # NoSlot
          PROVE  /\ g # h /\ idxOf'[g] = idxOf[g] /\ idxOf[g] # NoSlot
                 /\ cellOf'[g] = cellOf[g]
      BY <1>9, <2>1
    <2>2. ASSUME NEW g \in Handles, idxOf'[g] # NoSlot
          PROVE  /\ idxOf'[g] < pool'.len
                 /\ cellOf'[g] = [block |-> 0, cell |-> idxOf'[g]]
      <3>1. /\ idxOf'[g] = idxOf[g] /\ idxOf[g] # NoSlot
            /\ cellOf'[g] = cellOf[g]
        BY <2>1, <2>2
      <3>2. /\ idxOf[g] < pool.len
            /\ cellOf[g] = [block |-> 0, cell |-> idxOf[g]]
        BY <3>1 DEF OneWordInv
      <3>3. pool' = pool
        BY <1>9
      <3> QED
        BY <3>1, <3>2, <3>3
    <2>3. ASSUME NEW f \in Handles, NEW g \in Handles,
                 idxOf'[f] = idxOf'[g], idxOf'[f] # NoSlot
          PROVE  f = g
      <3>1. idxOf[f] = idxOf[g] /\ idxOf[f] # NoSlot
        BY <2>1, <2>3
      <3> QED
        BY <3>1 DEF OneWordInv
    <2> QED
      BY <2>2, <2>3
  <1>12. valuesWithOpenSlots' \in Seq(Nat) /\ freeValues'[1] # {}
    BY <1>7, <1>8
  <1>13. /\ pool' \in [len : 0 .. MaxSlots, cap : Nat, block : Nat]
         /\ pool'.len <= WordBits /\ pool'.cap = InitialCap /\ pool'.block = 0
    BY <1>9 DEF OneWordInv, PoolTypeOK, PoolType
  <1>14. PoolTypeOK'
    BY <1>7, <1>9, <1>12, <1>13 DEF PoolTypeOK, PoolType
  <1> HIDE DEF i
  <1> QED
    BY <1>7, <1>8, <1>10, <1>11, <1>12, <1>13, <1>14 DEF OneWordInv

LEMMA OneWordNext == FitsOneWord /\ OneWordInv /\ [PoolNext]_allocVars => OneWordInv'
  <1> SUFFICES ASSUME FitsOneWord, OneWordInv, [PoolNext]_allocVars PROVE OneWordInv'
    OBVIOUS
  <1>1. ASSUME NEW h \in Handles, Alloc(h) PROVE OneWordInv'
    BY <1>1, OneWordAllocFresh, OneWordAllocExtend, OneWordAllocReuse DEF Alloc
  <1>2. ASSUME NEW h \in Handles, Free(h) PROVE OneWordInv'
    BY <1>2, OneWordFree
  <1>3. CASE UNCHANGED allocVars
    BY <1>3 DEF allocVars, OneWordInv, PoolTypeOK, PoolType
  <1> QED
    BY <1>1, <1>2, <1>3 DEF PoolNext

THEOREM OneWordInvariant ==
  ASSUME FitsOneWord
  PROVE  PoolSpec => []OneWordInv
  BY OneWordInit, OneWordNext, PTL DEF PoolSpec

\* Two live objects never share a cell of the pool.
THEOREM MemPoolNoSharedSlot ==
  ASSUME FitsOneWord
  PROVE  PoolSpec => []NoSharedSlot
  <1>1. ASSUME OneWordInv PROVE NoSharedSlot
    <2> SUFFICES ASSUME NEW g \in Handles, NEW h \in Handles, g # h,
                        idxOf[g] # NoSlot, idxOf[h] # NoSlot
                 PROVE  idxOf[g] # idxOf[h] /\ cellOf[g] # cellOf[h]
      BY DEF NoSharedSlot
    <2>1. idxOf[g] # idxOf[h]
      BY <1>1 DEF OneWordInv
    <2>2. cellOf[g].cell = idxOf[g] /\ cellOf[h].cell = idxOf[h]
      BY <1>1, OneWordPointer
    <2> QED
      BY <2>1, <2>2
  <1> QED
    BY <1>1, OneWordInvariant, PTL

\* The index and the pointer of a live object name the same cell, and the
\* pointer stays valid while the object is held.
THEOREM MemPoolPointersValid ==
  ASSUME FitsOneWord
  PROVE  PoolSpec => []PointersValid
  <1>1. ASSUME OneWordInv PROVE PointersValid
    BY <1>1, OneWordPointer DEF OneWordInv, PointersValid
  <1> QED
    BY <1>1, OneWordInvariant, PTL

\* The bitset and the stack of open words tell exactly which slots no handle
\* holds.
THEOREM MemPoolBitsetExact ==
  ASSUME FitsOneWord
  PROVE  PoolSpec => []BitsetExact
  <1>1. ASSUME OneWordInv PROVE BitsetExact
    <2>1. WordBits \in Nat
      BY MemPoolAssumption
    <2>2. CASE freeValues = <<>>
      BY <1>1, <2>2 DEF OneWordInv, BitsetExact
    <2>3. CASE freeValues # <<>>
      <3>1. Len(freeValues) = 1
        BY <1>1, <2>3, OneWordCount
      <3>2. 0 .. Len(freeValues) - 1 = {0} /\ Word(0) = freeValues[1]
        BY <3>1 DEF Word
      <3>3. \A b \in Bits : 0 * WordBits + b = b
        BY <2>1 DEF Bits
      <3>4. \A w \in 0 .. Len(freeValues) - 1 : \A b \in Bits :
              b \in Word(w) <=> \A h \in Handles : idxOf[h] # w * WordBits + b
        BY <1>1, <2>3, <3>2, <3>3 DEF OneWordInv
      <3>5. { w \in 0 .. Len(freeValues) - 1 : Word(w) # {} } =
              IF freeValues[1] = {} THEN {} ELSE {0}
        BY <3>2
      <3>6. { valuesWithOpenSlots[k] : k \in 1 .. Len(valuesWithOpenSlots) } =
              IF freeValues[1] = {} THEN {} ELSE {0}
        <4>1. CASE freeValues[1] = {}
          BY <1>1, <2>3, <4>1 DEF OneWordInv
        <4>2. CASE freeValues[1] # {}
          BY <1>1, <2>3, <4>2 DEF OneWordInv
        <4> QED
          BY <4>1, <4>2
      <3> QED
        BY <3>4, <3>5, <3>6 DEF BitsetExact
    <2> QED
      BY <2>2, <2>3
  <1> QED
    BY <1>1, OneWordInvariant, PTL

------------------------------------------------------------------------------
(* The pool implements SlotAllocator.                                       *)

\* The slot an allocation hands out is the lowest one no handle holds.
LEMMA AllocLowest ==
  ASSUME FitsOneWord, OneWordInv, NEW h \in Handles, Alloc(h)
  PROVE  /\ idxOf[h] = NoSlot
         /\ \E i \in Nat :
              /\ \A g \in Handles : idxOf[g] # i
              /\ \A j \in 0 .. i - 1 : \E g \in Handles : idxOf[g] = j
              /\ idxOf' = [idxOf EXCEPT ![h] = i]
  <1>1. CASE AllocFresh(h)
    <2>1. idxOf[h] = NoSlot /\ freeValues = <<>>
      BY <1>1, OneWordFull DEF AllocFresh
    <2>2. pool.len = 0 /\ idxOf' = [idxOf EXCEPT ![h] = pool.len]
      BY <1>1, <2>1 DEF AllocFresh, Receive, OneWordInv
    <2>3. \A g \in Handles : idxOf[g] # 0
      BY <2>2, OneWordNone, MemPoolAssumption
    <2>4. \A j \in 0 .. 0 - 1 : \E g \in Handles : idxOf[g] = j
      OBVIOUS
    <2>5. idxOf' = [idxOf EXCEPT ![h] = 0] /\ 0 \in Nat
      BY <2>2
    <2> QED
      BY <2>1, <2>3, <2>4, <2>5
  <1>2. CASE AllocExtend(h) \/ AllocReuse(h)
    <2>1. /\ idxOf[h] = NoSlot /\ ~NoOpenSlot
          /\ idxOf' = [idxOf EXCEPT ![h] = FreeSlot]
      BY <1>2 DEF AllocExtend, AllocReuse, Receive
    <2>2. /\ FreeSlot \in Bits
          /\ \A b \in Bits : b < FreeSlot => \E g \in Handles : idxOf[g] = b
          /\ \A g \in Handles : idxOf[g] # FreeSlot
      BY <2>1, OneWordSearch
    <2>3. FreeSlot \in Nat /\ \A j \in 0 .. FreeSlot - 1 : j \in Bits /\ j < FreeSlot
      BY <2>2, MemPoolAssumption DEF Bits
    <2> QED
      BY <2>1, <2>2, <2>3
  <1> QED
    BY <1>1, <1>2 DEF Alloc

LEMMA RefineStep ==
  ASSUME FitsOneWord, OneWordInv, [PoolNext]_allocVars
  PROVE  [Abstract!Next]_idxOf
  <1>1. ASSUME NEW h \in Handles, Alloc(h) PROVE Abstract!Alloc(h)
    <2>1. PICK i \in Nat :
            /\ idxOf[h] = NoSlot
            /\ \A g \in Handles : idxOf[g] # i
            /\ \A j \in 0 .. i - 1 : \E g \in Handles : idxOf[g] = j
            /\ idxOf' = [idxOf EXCEPT ![h] = i]
      BY <1>1, AllocLowest
    <2>2. i <= Cardinality(Handles) - 1
      BY <2>1, TakenBelowHandles
    <2>3. Cardinality(Handles) \in Nat
      BY FS_CardinalityType, MemPoolAssumption
    <2>4. i \in 0 .. Cardinality(Handles) - 1
      BY <2>2, <2>3
    <2>5. i \notin Abstract!Held
      BY <2>1 DEF Abstract!Held
    <2>6. \A j \in 0 .. i - 1 : j \in Abstract!Held
      BY <2>1, MemPoolAssumption DEF Abstract!Held
    <2> QED
      BY <2>1, <2>4, <2>5, <2>6 DEF Abstract!Alloc
  <1>2. ASSUME NEW h \in Handles, Free(h) PROVE Abstract!Free(h)
    BY <1>2 DEF Free, Abstract!Free
  <1>3. CASE UNCHANGED allocVars
    BY <1>3 DEF allocVars
  <1> QED
    BY <1>1, <1>2, <1>3 DEF PoolNext, Abstract!Next

\* FtMemPool_Alloc and FtMemPool_Free implement the abstract allocator: every
\* allocation hands out the lowest free slot, whatever was freed before.
THEOREM MemPoolImplementsSlotAllocator ==
  ASSUME FitsOneWord
  PROVE  PoolSpec => AbstractSpec
  <1>1. PoolInit => Abstract!Init
    BY DEF PoolInit, Abstract!Init
  <1>2. OneWordInv /\ [PoolNext]_allocVars => [Abstract!Next]_idxOf
    BY RefineStep
  <1> QED
    BY <1>1, <1>2, OneWordInvariant, PTL DEF PoolSpec, AbstractSpec, Abstract!Spec

------------------------------------------------------------------------------
(* Objects and integers in the pool, with one thread.                       *)

\* The cells of the pool's array, and the fields of the object in one.
Cells == 0 .. MaxSlots - 1

Fields ==
  [refCnt : 0 .. MaxRefs, handlers : 0 .. MaxHandlers, sized : BOOLEAN, poolIdx : Nat]

\* The types of what FtObject and FtIntObj add to the pool.
ObjType(t) ==
  /\ mem \in [Cells -> Fields]
  /\ refs \in [{t} -> [Handles -> 0 .. MaxRefs]]
  /\ pc \in [{t} -> [at : {"idle", "load", "release"}, obj : Handles \cup {NoSlot},
                     cell : Cells]]
  /\ value \in [Cells -> Ints]
  /\ number \in [Handles -> Ints]
  /\ copied \subseteq Handles

\* The object that h names is in the cell c: it has recorded its index, its
\* count is the number of references to it, and it is the number it was made
\* with as long as there are any.
Sound(t, h, c) ==
  /\ mem[c].poolIdx = c
  /\ mem[c].refCnt = refs[t][h]
  /\ refs[t][h] > 0 => value[c] = number[h]

\* An object without references is being dropped.
Dropping(t, h) == pc[t].at \in {"load", "release"} /\ pc[t].obj = h

Objects(t) ==
  \A h \in Handles :
    /\ idxOf[h] # NoSlot => Sound(t, h, idxOf[h]) /\ (refs[t][h] = 0 => Dropping(t, h))
    /\ idxOf[h] = NoSlot => refs[t][h] = 0

\* The thread is outside of _FtObj_DECREF, or drops an object of the pool.
Drops(t) ==
  \/ pc[t] = Idle
  \/ /\ pc[t].at \in {"load", "release"}
     /\ pc[t].obj \in Handles
     /\ idxOf[pc[t].obj] = pc[t].cell
     /\ pc[t].at = "release" => refs[t][pc[t].obj] = 0

\* The memory of a free cell has no handlers.
FreeCells ==
  \A c \in Cells : (\A h \in Handles : idxOf[h] # c) => mem[c].handlers = 0

\* What the program has a copy of has one reference and no handlers.
Copies(t) ==
  \A h \in copied : refs[t][h] = 1 /\ mem[idxOf[h]].handlers = 0

ObjInv(t) ==
  OneWordInv /\ ObjType(t) /\ Objects(t) /\ Drops(t) /\ FreeCells /\ Copies(t)

\* The sum over one thread is that thread's part.
LEMMA SumOfOne ==
  ASSUME NEW t, NEW h, NEW r, r[t][h] \in Nat
  PROVE  MapThenSumSet(LAMBDA u : r[u][h], {t}) = r[t][h]
  <1> DEFINE pick(s) == CHOOSE x \in s : TRUE
             Sums(f) == f = [s \in SUBSET {t} |->
                          IF s = {} THEN 0 ELSE r[pick(s)][h] + f[s \ {pick(s)}]]
             sum == [s \in SUBSET {t} |-> IF s = {} THEN 0 ELSE r[t][h]]
  <1>1. ASSUME NEW s \in SUBSET {t} PROVE s = {} \/ (s = {t} /\ pick(s) = t)
    OBVIOUS
  <1>2. Sums(sum)
    <2>1. ASSUME NEW s \in SUBSET {t}, s # {}
          PROVE  r[pick(s)][h] + sum[s \ {pick(s)}] = r[t][h]
      <3>1. s = {t} /\ pick(s) = t /\ s \ {pick(s)} = {}
        BY <1>1, <2>1
      <3>2. {} \in SUBSET {t}
        OBVIOUS
      <3>3. sum[{}] = 0
        BY <3>2
      <3> HIDE DEF sum, pick
      <3> QED BY <3>1, <3>3
    <2> HIDE DEF pick
    <2> QED BY <2>1
  <1>3. Sums(CHOOSE f : Sums(f))
    <2> HIDE DEF Sums
    <2> QED BY <1>2
  <1>4. ASSUME NEW f, Sums(f) PROVE f[{t}] = r[t][h]
    <2>1. {t} \in SUBSET {t} /\ {} \in SUBSET {t} /\ {t} # {} /\ pick({t}) = t /\ {t} \ {t} = {}
      BY <1>1
    <2> HIDE DEF pick
    <2>2. f[{}] = 0
      BY <1>4, <2>1
    <2>3. f[{t}] = r[t][h] + f[{}]
      BY <1>4, <2>1
    <2> QED BY <2>2, <2>3
  <1>5. MapThenSumSet(LAMBDA u : r[u][h], {t}) = (CHOOSE f : Sums(f))[{t}]
    BY DEF MapThenSumSet, MapThenFoldSet
  <1> HIDE DEF Sums
  <1> QED BY <1>3, <1>4, <1>5

\* With one thread the references to an object are those of that thread.
LEMMA OneThread ==
  ASSUME NEW t, Threads = {t}, ObjType(t), NEW h \in Handles
  PROVE  References(h) = refs[t][h]
  <1>1. refs[t][h] \in Nat
    BY ObjectAssumption DEF ObjType
  <1> QED BY <1>1, SumOfOne DEF References

\* A slot in use is a cell.
LEMMA HeldCell ==
  ASSUME OneWordInv, NEW h \in Handles, idxOf[h] # NoSlot
  PROVE  idxOf[h] \in Cells /\ cellOf[h].cell = idxOf[h]
  <1>1. idxOf[h] \in Nat /\ idxOf[h] < pool.len /\ pool.len \in 0 .. MaxSlots
    BY DEF OneWordInv, PoolTypeOK, PoolType
  <1>2. MaxSlots \in Nat
    BY MemPoolAssumption
  <1> QED BY <1>1, <1>2, OneWordPointer DEF Cells

LEMMA CellsAreSlots ==
  Cells \subseteq Nat /\ NoSlot \notin Cells
  BY MemPoolAssumption DEF Cells

\* _FtObj_DECREF frees the index the object was given.
LEMMA ReleaseFrees ==
  ASSUME NEW t, ObjInv(t), Release(t), t \in Threads, Threads = {t}
  PROVE  pc[t].obj \in Handles /\ pc[t].cell = idxOf[pc[t].obj] /\ Free(pc[t].obj)
  <1>1. pc[t].at = "release" /\ pc[t] # Idle
    BY DEF Release, Idle
  <1>2. pc[t].obj \in Handles /\ idxOf[pc[t].obj] = pc[t].cell /\ pc[t].cell \in Cells
    BY <1>1 DEF ObjInv, Drops, ObjType
  <1>3. PICK h \in Handles : h = pc[t].obj
    BY <1>2
  <1>4. idxOf[h] # NoSlot /\ pc[t].cell = idxOf[h]
    BY <1>2, <1>3, CellsAreSlots
  <1>5. mem[pc[t].cell].poolIdx = idxOf[h]
    BY <1>4 DEF ObjInv, Objects, Sound
  <1>6. /\ FreeBit(mem[pc[t].cell].poolIdx) /\ UNCHANGED pool
        /\ idxOf' = [idxOf EXCEPT ![h] = NoSlot]
        /\ cellOf' = [cellOf EXCEPT ![h] = NoSlot]
    BY <1>3 DEF Release
  <1>7. FreeBit(idxOf[h])
    BY <1>5, <1>6
  <1> QED BY <1>3, <1>4, <1>6, <1>7 DEF Free

\* The drop of a copy frees the index the object was given, too.
LEMMA DropCopyFrees ==
  ASSUME NEW t, ObjInv(t), NEW h \in Handles, DropCopy(t, h)
  PROVE  Free(h)
  <1>1. idxOf[h] # NoSlot
    BY DEF DropCopy, Uses
  <1>2. mem[cellOf[h].cell].poolIdx = idxOf[h]
    BY <1>1, HeldCell DEF ObjInv, Objects, Sound
  <1>3. FreeBit(mem[cellOf[h].cell].poolIdx) /\ UNCHANGED pool
    BY DEF DropCopy
  <1>4. FreeBit(idxOf[h])
    BY <1>2, <1>3
  <1> QED BY <1>1, <1>3, <1>4 DEF Free, DropCopy

\* A step of the program is a step of the pool, or leaves the pool alone.
LEMMA IntStepsPool ==
  ASSUME NEW t, Threads = {t}, ObjInv(t), [IntNext]_allVars
  PROVE  [PoolNext]_allocVars
  <1>1. ASSUME NEW h \in Handles, New(t, h) PROVE PoolNext
    BY <1>1 DEF New, PoolNext
  <1>2. ASSUME NEW h \in Handles, DropCopy(t, h) PROVE PoolNext
    BY <1>2, DropCopyFrees DEF PoolNext
  <1>3. ASSUME Release(t) PROVE PoolNext
    BY <1>3, ReleaseFrees DEF PoolNext
  <1>4. CASE \E h \in Handles, v \in Ints : FtIntObj_Init(t, h, v)
    BY <1>1, <1>4 DEF FtIntObj_Init
  <1>5. CASE \E self, other, h \in Handles : handle_plus(t, self, other, h)
    BY <1>1, <1>5 DEF handle_plus
  <1>6. CASE \E h \in Handles : Copy(t, h) \/ DropCopy(t, h)
    BY <1>2, <1>6 DEF Copy, vars, allocVars
  <1>7. CASE Shared(t)
    BY <1>3, <1>7 DEF Shared, AddHandler, DecRef, IncRef, Decrement, LoadZero, LoadNonZero
  <1>8. CASE UNCHANGED allVars
    BY <1>8 DEF allVars, vars, allocVars
  <1> QED BY <1>4, <1>5, <1>6, <1>7, <1>8 DEF IntNext

\* FtObj_Init makes an object in a cell that no other has, and writes its
\* count and its index there.
LEMMA NewEffect ==
  ASSUME FitsOneWord, NEW t, Threads = {t}, ObjInv(t), OneWordInv',
         NEW h \in Handles, New(t, h)
  PROVE  \E i \in Cells :
           /\ idxOf[h] = NoSlot /\ refs[t][h] = 0 /\ pc[t] = Idle
           /\ \A g \in Handles : idxOf[g] # i
           /\ \A g \in Handles : idxOf'[g] = IF g = h THEN i ELSE idxOf[g]
           /\ cellOf'[h].cell = i
           /\ mem' = [mem EXCEPT ![i] = [refCnt |-> 1, handlers |-> mem[i].handlers,
                                      sized |-> TRUE, poolIdx |-> i]]
           /\ refs' = [refs EXCEPT ![t][h] = 1]
           /\ pc' = pc
  <1>1. OneWordInv /\ ObjType(t) /\ Alloc(h)
    BY DEF ObjInv, New
  <1>2. PICK i \in Nat :
          /\ idxOf[h] = NoSlot
          /\ \A g \in Handles : idxOf[g] # i
          /\ idxOf' = [idxOf EXCEPT ![h] = i]
    BY <1>1, AllocLowest
  <1>3. \A g \in Handles : idxOf'[g] = IF g = h THEN i ELSE idxOf[g]
    BY <1>1, <1>2 DEF OneWordInv, PoolTypeOK
  <1>4. idxOf'[h] = i /\ i # NoSlot
    BY <1>3, MemPoolAssumption
  <1>5. i \in Cells /\ cellOf'[h].cell = i
    <2>1. i < pool'.len /\ pool'.len \in 0 .. MaxSlots /\ cellOf'[h] = [block |-> 0, cell |-> i]
      BY <1>4 DEF OneWordInv, PoolTypeOK, PoolType
    <2> QED BY <2>1, MemPoolAssumption DEF Cells
  <1>6. refs[t][h] = 0
    BY <1>1, OneThread DEF New
  <1> QED BY <1>2, <1>3, <1>4, <1>5, <1>6 DEF New

LEMMA NewKeeps ==
  ASSUME FitsOneWord, NEW t, Threads = {t}, ObjInv(t), OneWordInv',
         NEW h \in Handles, New(t, h), NEW v \in Ints, Made(h, v), copied' = copied
  PROVE  ObjInv(t)'
  <1>1. PICK i \in Cells :
           /\ idxOf[h] = NoSlot /\ refs[t][h] = 0 /\ pc[t] = Idle
           /\ \A g \in Handles : idxOf[g] # i
           /\ \A g \in Handles : idxOf'[g] = IF g = h THEN i ELSE idxOf[g]
           /\ cellOf'[h].cell = i
           /\ mem' = [mem EXCEPT ![i] = [refCnt |-> 1, handlers |-> mem[i].handlers,
                                      sized |-> TRUE, poolIdx |-> i]]
           /\ refs' = [refs EXCEPT ![t][h] = 1]
           /\ pc' = pc
    BY NewEffect
  <1>2. value' = [value EXCEPT ![i] = v] /\ number' = [number EXCEPT ![h] = v]
    BY <1>1 DEF Made
  <1>3. ObjType(t) /\ Objects(t) /\ FreeCells /\ Copies(t) /\ OneWordInv
    BY DEF ObjInv
  <1>4. /\ mem' \in [Cells -> Fields]
        /\ mem'[i].poolIdx = i /\ mem'[i].refCnt = 1 /\ mem'[i].handlers = mem[i].handlers
        /\ \A c \in Cells : c # i => mem'[c] = mem[c]
    <2>1. i \in Nat /\ 1 \in 0 .. MaxRefs
      BY CellsAreSlots, ObjectAssumption
    <2> DEFINE r == [refCnt |-> 1, handlers |-> mem[i].handlers, sized |-> TRUE, poolIdx |-> i]
    <2>2. mem \in [Cells -> Fields] /\ mem[i] \in Fields
      BY <1>3 DEF ObjType
    <2>3. r \in Fields
      BY <2>1, <2>2 DEF Fields
    <2>4. mem' = [mem EXCEPT ![i] = r]
      BY <1>1
    <2> HIDE DEF Cells, Fields, r
    <2>5. mem' \in [Cells -> Fields] /\ mem'[i] = r /\ \A c \in Cells : c # i => mem'[c] = mem[c]
      BY <2>2, <2>3, <2>4
    <2> QED BY <2>5 DEF r
  <1>5. /\ refs' \in [{t} -> [Handles -> 0 .. MaxRefs]]
        /\ refs'[t][h] = 1
        /\ \A g \in Handles : g # h => refs'[t][g] = refs[t][g]
    <2>1. 1 \in 0 .. MaxRefs
      BY ObjectAssumption
    <2> QED BY <1>1, <1>3, <2>1 DEF ObjType
  <1>6. /\ value' \in [Cells -> Ints] /\ number' \in [Handles -> Ints]
        /\ value'[i] = v /\ number'[h] = v
        /\ \A c \in Cells : c # i => value'[c] = value[c]
        /\ \A g \in Handles : g # h => number'[g] = number[g]
    BY <1>2, <1>3 DEF ObjType
  <1> HIDE DEF Cells, Fields, Ints
  <1>7. ObjType(t)'
    BY <1>1, <1>3, <1>4, <1>5, <1>6 DEF ObjType
  <1>8. i # NoSlot
    BY CellsAreSlots
  <1>9. \A g \in Handles : g # h /\ idxOf'[g] # NoSlot =>
          idxOf'[g] \in Cells /\ idxOf'[g] # i /\ idxOf'[g] = idxOf[g]
    BY <1>1, <1>3, HeldCell
  <1>10. Objects(t)'
    <2> SUFFICES ASSUME NEW g \in Handles
                 PROVE  /\ idxOf'[g] # NoSlot =>
                             /\ Sound(t, g, idxOf[g])'
                             /\ refs'[t][g] = 0 => Dropping(t, g)'
                        /\ idxOf'[g] = NoSlot => refs'[t][g] = 0
      BY DEF Objects
    <2>1. CASE g = h
      BY <1>1, <1>4, <1>5, <1>6, <1>8, <2>1 DEF Sound
    <2>2. CASE g # h
      BY <1>1, <1>3, <1>4, <1>5, <1>6, <1>9, <2>2 DEF Objects, Sound, Dropping
    <2> QED BY <2>1, <2>2
  <1>11. Drops(t)'
    BY <1>1 DEF Drops
  <1>12. FreeCells'
    BY <1>1, <1>3, <1>4, CellsAreSlots DEF FreeCells
  <1>13. Copies(t)'
    <2>1. ASSUME NEW g \in copied PROVE g \in Handles /\ g # h /\ idxOf[g] # NoSlot
      <3>1. g \in Handles /\ refs[t][g] = 1
        BY <1>3 DEF ObjType, Copies
      <3> QED BY <1>1, <1>3, <3>1 DEF Objects
    <2> QED BY <1>1, <1>3, <1>4, <1>5, <1>9, <2>1 DEF Copies
  <1> QED BY <1>7, <1>10, <1>11, <1>12, <1>13 DEF ObjInv

\* Writing one field of the object in a cell.
LEMMA SetHandlers ==
  ASSUME mem \in [Cells -> Fields], NEW c \in Cells, NEW x \in 0 .. MaxHandlers,
         mem' = [mem EXCEPT ![c].handlers = x]
  PROVE  /\ mem' \in [Cells -> Fields]
         /\ mem'[c].handlers = x /\ mem'[c].refCnt = mem[c].refCnt
         /\ mem'[c].poolIdx = mem[c].poolIdx
         /\ \A d \in Cells : d # c => mem'[d] = mem[d]
  <1> HIDE DEF Cells
  <1> QED BY DEF Fields

LEMMA SetCount ==
  ASSUME mem \in [Cells -> Fields], NEW c \in Cells, NEW x \in 0 .. MaxRefs,
         mem' = [mem EXCEPT ![c].refCnt = x]
  PROVE  /\ mem' \in [Cells -> Fields]
         /\ mem'[c].refCnt = x /\ mem'[c].handlers = mem[c].handlers
         /\ mem'[c].poolIdx = mem[c].poolIdx
         /\ \A d \in Cells : d # c => mem'[d] = mem[d]
  <1> HIDE DEF Cells
  <1> QED BY DEF Fields

\* What is known of an object the program uses through its pointer.
LEMMA ReachesFacts ==
  ASSUME NEW t, ObjInv(t), NEW h \in Handles, Reaches(t, h)
  PROVE  /\ h \notin copied /\ refs[t][h] \in 1 .. MaxRefs /\ pc[t] = Idle
         /\ idxOf[h] \in Cells /\ cellOf[h].cell = idxOf[h]
         /\ mem \in [Cells -> Fields] /\ mem[idxOf[h]] \in Fields
         /\ Sound(t, h, idxOf[h])
         /\ \A g \in Handles : g # h => idxOf[g] # idxOf[h]
         /\ \A g \in Handles : idxOf[g] # NoSlot => idxOf[g] \in Cells
         /\ \A g \in copied : g # h /\ g \in Handles /\ idxOf[g] \in Cells
  <1>1. h \notin copied /\ refs[t][h] > 0 /\ idxOf[h] # NoSlot /\ pc[t] = Idle
    BY DEF Reaches, Uses
  <1>2. ObjType(t) /\ OneWordInv /\ Objects(t) /\ Copies(t)
    BY DEF ObjInv
  <1>3. \A g \in Handles : idxOf[g] # NoSlot => idxOf[g] \in Cells /\ cellOf[g].cell = idxOf[g]
    BY <1>2, HeldCell
  <1>4. refs[t][h] \in 0 .. MaxRefs /\ MaxRefs \in Nat /\ mem \in [Cells -> Fields]
    BY <1>2, ObjectAssumption DEF ObjType
  <1>5. refs[t][h] \in 1 .. MaxRefs
    BY <1>1, <1>4
  <1>6. \A g \in Handles : g # h => idxOf[g] # idxOf[h]
    BY <1>1, <1>2 DEF OneWordInv
  <1>7. \A g \in copied : g \in Handles /\ idxOf[g] # NoSlot
    BY <1>2 DEF ObjType, Copies, Objects
  <1>8. Sound(t, h, idxOf[h])
    BY <1>1, <1>2 DEF Objects
  <1> HIDE DEF Cells, Fields
  <1> QED BY <1>1, <1>3, <1>4, <1>5, <1>6, <1>7, <1>8

LEMMA AddHandlerKeeps ==
  ASSUME NEW t, Threads = {t}, ObjInv(t), OneWordInv', NEW h \in Handles,
         Reaches(t, h), AddHandler(t, h), UNCHANGED intVars
  PROVE  ObjInv(t)'
  <1>1. PICK c \in Cells : c = idxOf[h] /\ cellOf[h].cell = c
    BY ReachesFacts
  <1>2. mem \in [Cells -> Fields] /\ ObjType(t) /\ Objects(t) /\ Drops(t) /\ FreeCells /\ Copies(t)
    BY DEF ObjInv, ObjType
  <1>3. mem[c].handlers + 1 \in 0 .. MaxHandlers
    <2>1. mem[c].handlers \in 0 .. MaxHandlers /\ mem[c].handlers < MaxHandlers
      BY <1>1, <1>2 DEF Fields, AddHandler
    <2> QED BY <2>1, ObjectAssumption
  <1>4. mem' = [mem EXCEPT ![c].handlers = mem[c].handlers + 1]
    BY <1>1 DEF AddHandler
  <1>5. /\ mem' \in [Cells -> Fields]
        /\ mem'[c].refCnt = mem[c].refCnt /\ mem'[c].poolIdx = mem[c].poolIdx
        /\ \A d \in Cells : d # c => mem'[d] = mem[d]
    BY <1>2, <1>3, <1>4, SetHandlers
  <1>6. UNCHANGED <<idxOf, cellOf, refs, pc, value, number, copied>>
    BY DEF AddHandler, allocVars, intVars
  <1> HIDE DEF Cells, Fields
  <1>7. ObjType(t)'
    BY <1>2, <1>5, <1>6 DEF ObjType
  <1>8. Objects(t)'
    <2>1. ASSUME NEW g \in Handles, idxOf[g] # NoSlot
          PROVE  mem'[idxOf[g]].refCnt = mem[idxOf[g]].refCnt /\ mem'[idxOf[g]].poolIdx = mem[idxOf[g]].poolIdx
      BY <1>5, <2>1, ReachesFacts
    <2> QED BY <1>2, <1>6, <2>1 DEF Objects, Sound, Dropping
  <1>9. Drops(t)' /\ FreeCells'
    BY <1>1, <1>2, <1>5, <1>6 DEF Drops, FreeCells
  <1>10. Copies(t)'
    BY <1>1, <1>2, <1>5, <1>6, ReachesFacts DEF Copies
  <1> QED BY <1>7, <1>8, <1>9, <1>10 DEF ObjInv

LEMMA IncRefKeeps ==
  ASSUME NEW t, Threads = {t}, ObjInv(t), OneWordInv', NEW h \in Handles,
         Reaches(t, h), IncRef(t, t, h), UNCHANGED intVars
  PROVE  ObjInv(t)'
  <1>1. PICK c \in Cells : c = idxOf[h] /\ cellOf[h].cell = c
    BY ReachesFacts
  <1>2. mem \in [Cells -> Fields] /\ ObjType(t) /\ Objects(t) /\ Drops(t) /\ FreeCells /\ Copies(t)
    BY DEF ObjInv, ObjType
  <1>3. PICK n \in 1 .. MaxRefs : refs[t][h] = n /\ mem[c].refCnt = n
    BY <1>1, ReachesFacts DEF Sound
  <1>4. n + 1 \in 0 .. MaxRefs
    <2>1. n < MaxRefs
      BY <1>2, <1>3, OneThread DEF IncRef
    <2> QED BY <2>1, ObjectAssumption
  <1>5. mem' = [mem EXCEPT ![c].refCnt = n + 1] /\ refs' = [refs EXCEPT ![t][h] = n + 1]
    BY <1>1, <1>3 DEF IncRef
  <1>6. /\ mem' \in [Cells -> Fields]
        /\ mem'[c].refCnt = n + 1 /\ mem'[c].poolIdx = mem[c].poolIdx
        /\ mem'[c].handlers = mem[c].handlers
        /\ \A d \in Cells : d # c => mem'[d] = mem[d]
    BY <1>2, <1>4, <1>5, SetCount
  <1>7. /\ refs' \in [{t} -> [Handles -> 0 .. MaxRefs]] /\ refs'[t][h] = n + 1
        /\ \A g \in Handles : g # h => refs'[t][g] = refs[t][g]
    BY <1>2, <1>4, <1>5 DEF ObjType
  <1>8. UNCHANGED <<idxOf, cellOf, pc, value, number, copied>>
    BY DEF IncRef, allocVars, intVars
  <1> HIDE DEF Cells, Fields
  <1>9. ObjType(t)'
    BY <1>2, <1>6, <1>7, <1>8 DEF ObjType
  <1>10. Objects(t)'
    <2> SUFFICES ASSUME NEW g \in Handles
                 PROVE  /\ idxOf[g] # NoSlot => /\ Sound(t, g, idxOf[g])'
                                                /\ refs'[t][g] = 0 => Dropping(t, g)'
                        /\ idxOf[g] = NoSlot => refs'[t][g] = 0
      BY <1>8 DEF Objects, Sound
    <2>1. CASE g = h
      BY <1>1, <1>2, <1>3, <1>6, <1>7, <1>8, <2>1, CellsAreSlots DEF Objects, Sound
    <2>2. CASE g # h
      BY <1>1, <1>2, <1>6, <1>7, <1>8, <2>2, ReachesFacts DEF Objects, Sound, Dropping
    <2> QED BY <2>1, <2>2
  <1>11. Drops(t)'
    BY <1>8, ReachesFacts DEF Drops
  <1>12. FreeCells'
    BY <1>1, <1>2, <1>6, <1>8 DEF FreeCells
  <1>13. Copies(t)'
    BY <1>1, <1>2, <1>6, <1>7, <1>8, ReachesFacts DEF Copies
  <1> QED BY <1>9, <1>10, <1>11, <1>12, <1>13 DEF ObjInv

LEMMA DecRefKeeps ==
  ASSUME NEW t, Threads = {t}, ObjInv(t), OneWordInv', NEW h \in Handles,
         Reaches(t, h), DecRef(t, h), UNCHANGED intVars
  PROVE  ObjInv(t)'
  <1>1. PICK c \in Cells : c = idxOf[h] /\ cellOf[h].cell = c
    BY ReachesFacts
  <1>2. mem \in [Cells -> Fields] /\ ObjType(t) /\ Objects(t) /\ FreeCells /\ Copies(t)
    BY DEF ObjInv, ObjType
  <1>3. PICK n \in 1 .. MaxRefs : refs[t][h] = n /\ mem[c].refCnt = n
    BY <1>1, ReachesFacts DEF Sound
  <1>4. n - 1 \in 0 .. MaxRefs /\ n > 0
    BY ObjectAssumption
  <1>5. /\ mem' = [mem EXCEPT ![c].refCnt = n - 1] /\ refs' = [refs EXCEPT ![t][h] = n - 1]
        /\ pc' = [pc EXCEPT ![t] = [at |-> "load", obj |-> h, cell |-> c]]
    BY <1>1, <1>3 DEF DecRef
  <1>6. /\ mem' \in [Cells -> Fields]
        /\ mem'[c].refCnt = n - 1 /\ mem'[c].poolIdx = mem[c].poolIdx
        /\ mem'[c].handlers = mem[c].handlers
        /\ \A d \in Cells : d # c => mem'[d] = mem[d]
    BY <1>2, <1>4, <1>5, SetCount
  <1>7. /\ refs' \in [{t} -> [Handles -> 0 .. MaxRefs]] /\ refs'[t][h] = n - 1
        /\ \A g \in Handles : g # h => refs'[t][g] = refs[t][g]
    BY <1>2, <1>4, <1>5 DEF ObjType
  <1>8. UNCHANGED <<idxOf, cellOf, value, number, copied>>
    BY DEF DecRef, allocVars, intVars
  <1> HIDE DEF Cells, Fields
  <1>9. /\ pc'[t] = [at |-> "load", obj |-> h, cell |-> c]
        /\ pc' \in [{t} -> [at : {"idle", "load", "release"}, obj : Handles \cup {NoSlot},
                            cell : Cells]]
    BY <1>2, <1>5 DEF ObjType
  <1>10. ObjType(t)'
    BY <1>2, <1>6, <1>7, <1>8, <1>9 DEF ObjType
  <1>11. Objects(t)'
    <2> SUFFICES ASSUME NEW g \in Handles
                 PROVE  /\ idxOf[g] # NoSlot => /\ Sound(t, g, idxOf[g])'
                                                /\ refs'[t][g] = 0 => Dropping(t, g)'
                        /\ idxOf[g] = NoSlot => refs'[t][g] = 0
      BY <1>8 DEF Objects, Sound
    <2>1. CASE g = h
      BY <1>1, <1>2, <1>3, <1>4, <1>6, <1>7, <1>8, <1>9, <2>1, CellsAreSlots
         DEF Objects, Sound, Dropping
    <2>2. CASE g # h
      <3>1. ~Dropping(t, g)
        BY ReachesFacts DEF Dropping, Idle
      <3> QED
        BY <1>1, <1>2, <1>6, <1>7, <1>8, <2>2, <3>1, ReachesFacts DEF Objects, Sound
    <2> QED BY <2>1, <2>2
  <1>12. Drops(t)'
    BY <1>1, <1>8, <1>9 DEF Drops
  <1>13. FreeCells'
    BY <1>1, <1>2, <1>6, <1>8 DEF FreeCells
  <1>14. Copies(t)'
    BY <1>1, <1>2, <1>6, <1>7, <1>8, ReachesFacts DEF Copies
  <1> QED BY <1>10, <1>11, <1>12, <1>13, <1>14 DEF ObjInv

\* The load that follows the decrement tells whether the reference was the
\* last one.
LEMMA LoadKeeps ==
  ASSUME NEW t, Threads = {t}, ObjInv(t), OneWordInv', LoadNonZero(t) \/ LoadZero(t),
         UNCHANGED intVars
  PROVE  ObjInv(t)'
  <1>1. ObjType(t) /\ Objects(t) /\ Drops(t) /\ FreeCells /\ Copies(t)
    BY DEF ObjInv
  <1>2. pc[t].at = "load" /\ pc[t] # Idle
    BY DEF LoadNonZero, LoadZero, Idle
  <1>3. PICK h \in Handles : h = pc[t].obj /\ idxOf[h] = pc[t].cell /\ pc[t].cell \in Cells
    BY <1>1, <1>2 DEF Drops, ObjType
  <1>4. mem[pc[t].cell].refCnt = refs[t][h] /\ idxOf[h] # NoSlot
    BY <1>1, <1>3, CellsAreSlots DEF Objects, Sound
  <1>5. UNCHANGED <<idxOf, cellOf, mem, refs, value, number, copied>>
    BY DEF LoadNonZero, LoadZero, allocVars, intVars
  <1> HIDE DEF Cells, Fields
  <1>6. FreeCells' /\ Copies(t)'
    BY <1>1, <1>5 DEF FreeCells, Copies
  <1>7. CASE LoadNonZero(t)
    <2>1. pc' = [pc EXCEPT ![t] = Idle] /\ refs[t][h] # 0
      BY <1>4, <1>7 DEF LoadNonZero
    <2>2. pc'[t] = Idle /\ ObjType(t)'
      <3>1. Idle \in [at : {"idle", "load", "release"}, obj : Handles \cup {NoSlot}, cell : Cells]
        BY MemPoolAssumption DEF Idle, Cells
      <3> QED BY <1>1, <1>5, <2>1, <3>1 DEF ObjType
    <2>3. Objects(t)'
      BY <1>1, <1>3, <1>5, <2>1 DEF Objects, Sound, Dropping
    <2> QED BY <1>6, <2>2, <2>3 DEF ObjInv, Drops
  <1>8. CASE LoadZero(t)
    <2>1. pc' = [pc EXCEPT ![t].at = "release"] /\ refs[t][h] = 0
      BY <1>4, <1>8 DEF LoadZero
    <2>2. ObjType(t)' /\ pc'[t].at = "release" /\ pc'[t].obj = h /\ pc'[t].cell = pc[t].cell
      BY <1>1, <1>3, <1>5, <2>1 DEF ObjType
    <2>3. Objects(t)'
      BY <1>1, <1>2, <1>3, <1>5, <2>2 DEF Objects, Sound, Dropping
    <2>4. Drops(t)'
      BY <1>3, <1>5, <2>1, <2>2 DEF Drops
    <2> QED BY <1>6, <2>2, <2>3, <2>4 DEF ObjInv
  <1> QED BY <1>7, <1>8

LEMMA ReleaseKeeps ==
  ASSUME NEW t, Threads = {t}, ObjInv(t), OneWordInv', Release(t), UNCHANGED intVars
  PROVE  ObjInv(t)'
  <1>1. ObjType(t) /\ Objects(t) /\ FreeCells /\ Copies(t) /\ OneWordInv /\ Drops(t)
    BY DEF ObjInv
  <1>2. PICK h \in Handles : h = pc[t].obj /\ pc[t].cell = idxOf[h] /\ Free(h)
    BY ReleaseFrees
  <1>3. PICK c \in Cells : c = idxOf[h] /\ idxOf[h] # NoSlot
    BY <1>1, <1>2, HeldCell DEF Free
  <1>4. refs[t][h] = 0
    BY <1>1, <1>2 DEF Release, Drops, Idle
  <1>5. /\ mem' = [mem EXCEPT ![c].handlers = 0] /\ refs' = refs /\ pc' = [pc EXCEPT ![t] = Idle]
        /\ idxOf' = [idxOf EXCEPT ![h] = NoSlot]
        /\ UNCHANGED <<value, number, copied>>
    BY <1>2, <1>3 DEF Release, intVars
  <1>6. /\ mem' \in [Cells -> Fields] /\ mem'[c].handlers = 0
        /\ \A d \in Cells : d # c => mem'[d] = mem[d]
    <2>1. 0 \in 0 .. MaxHandlers /\ mem \in [Cells -> Fields]
      BY <1>1, ObjectAssumption DEF ObjType
    <2> QED BY <1>5, <2>1, SetHandlers
  <1>7. \A g \in Handles : idxOf'[g] = IF g = h THEN NoSlot ELSE idxOf[g]
    BY <1>1, <1>5 DEF OneWordInv, PoolTypeOK
  <1>8. \A g \in Handles : g # h /\ idxOf[g] # NoSlot => idxOf[g] \in Cells /\ idxOf[g] # c
    BY <1>1, <1>3, HeldCell DEF OneWordInv
  <1>9. Idle \in [at : {"idle", "load", "release"}, obj : Handles \cup {NoSlot}, cell : Cells]
    BY MemPoolAssumption DEF Idle, Cells
  <1> HIDE DEF Cells, Fields
  <1>10. ObjType(t)' /\ pc'[t] = Idle
    BY <1>1, <1>5, <1>6, <1>9 DEF ObjType
  <1>11. Objects(t)'
    <2> SUFFICES ASSUME NEW g \in Handles
                 PROVE  /\ idxOf'[g] # NoSlot => /\ Sound(t, g, idxOf[g])'
                                                 /\ refs'[t][g] = 0 => Dropping(t, g)'
                        /\ idxOf'[g] = NoSlot => refs'[t][g] = 0
      BY DEF Objects
    <2>1. CASE g = h
      BY <1>4, <1>5, <1>7, <2>1
    <2>2. CASE g # h
      BY <1>1, <1>2, <1>5, <1>6, <1>7, <1>8, <2>2 DEF Objects, Sound, Dropping
    <2> QED BY <2>1, <2>2
  <1>12. FreeCells'
    <2> SUFFICES ASSUME NEW d \in Cells, \A g \in Handles : idxOf'[g] # d
                 PROVE  mem'[d].handlers = 0
      BY DEF FreeCells
    <2>1. CASE d = c
      BY <1>6, <2>1
    <2>2. CASE d # c
      BY <1>1, <1>3, <1>6, <1>7, <2>2 DEF FreeCells
    <2> QED BY <2>1, <2>2
  <1>13. Copies(t)'
    <2>1. ASSUME NEW g \in copied PROVE g \in Handles /\ g # h /\ idxOf[g] # NoSlot
      <3>1. g \in Handles /\ refs[t][g] = 1
        BY <1>1 DEF ObjType, Copies
      <3> QED BY <1>1, <1>4, <3>1 DEF Objects
    <2> QED BY <1>1, <1>5, <1>6, <1>7, <1>8, <2>1 DEF Copies
  <1> QED BY <1>10, <1>11, <1>12, <1>13 DEF ObjInv, Drops

\* main.c copies an object to which it has the only reference.
LEMMA CopyKeeps ==
  ASSUME NEW t, Threads = {t}, ObjInv(t), OneWordInv', NEW h \in Handles, Copy(t, h)
  PROVE  ObjInv(t)'
  <1>1. ObjType(t) /\ Objects(t) /\ Drops(t) /\ FreeCells /\ Copies(t)
    BY DEF ObjInv
  <1>2. Reaches(t, h) /\ cellOf[h].cell = idxOf[h] /\ Sound(t, h, idxOf[h])
    BY ReachesFacts DEF Copy
  <1>3. refs[t][h] = 1 /\ mem[idxOf[h]].handlers = 0
    BY <1>2 DEF Copy, Sound
  <1>4. /\ UNCHANGED <<idxOf, cellOf, mem, refs, pc, value, number>>
        /\ copied' = copied \cup {h}
    BY DEF Copy, vars, allocVars
  <1>5. ObjType(t)' /\ Objects(t)' /\ Drops(t)' /\ FreeCells'
    BY <1>1, <1>4 DEF ObjType, Objects, Drops, FreeCells, Sound, Dropping
  <1>6. Copies(t)'
    BY <1>1, <1>3, <1>4 DEF Copies
  <1> QED BY <1>5, <1>6 DEF ObjInv

\* Dropping a copy frees the cell of the object it was copied from: nothing
\* but the copy refers to that object, and it has no handlers.
LEMMA DropCopyKeeps ==
  ASSUME NEW t, Threads = {t}, ObjInv(t), OneWordInv', NEW h \in Handles, DropCopy(t, h)
  PROVE  ObjInv(t)'
  <1>1. ObjType(t) /\ Objects(t) /\ Drops(t) /\ FreeCells /\ Copies(t) /\ OneWordInv
    BY DEF ObjInv
  <1>2. h \in copied /\ pc[t] = Idle /\ idxOf[h] # NoSlot
    BY DEF DropCopy, Uses
  <1>3. mem[idxOf[h]].handlers = 0
    BY <1>1, <1>2 DEF Copies
  <1>4. /\ UNCHANGED <<mem, pc, value, number>> /\ copied' = copied \ {h}
        /\ idxOf' = [idxOf EXCEPT ![h] = NoSlot]
        /\ refs' = [refs EXCEPT ![t][h] = 0]
    BY DEF DropCopy
  <1>5. \A g \in Handles : idxOf'[g] = IF g = h THEN NoSlot ELSE idxOf[g]
    BY <1>1, <1>4 DEF OneWordInv, PoolTypeOK
  <1>6. /\ refs' \in [{t} -> [Handles -> 0 .. MaxRefs]] /\ refs'[t][h] = 0
        /\ \A g \in Handles : g # h => refs'[t][g] = refs[t][g]
    <2>1. 0 \in 0 .. MaxRefs
      BY ObjectAssumption
    <2> QED BY <1>1, <1>4, <2>1 DEF ObjType
  <1> HIDE DEF Cells, Fields
  <1>7. ObjType(t)' /\ Drops(t)'
    BY <1>1, <1>2, <1>4, <1>6 DEF ObjType, Drops
  <1>8. Objects(t)'
    BY <1>1, <1>4, <1>5, <1>6 DEF Objects, Sound, Dropping
  <1>9. FreeCells'
    <2> SUFFICES ASSUME NEW d \in Cells, \A g \in Handles : idxOf'[g] # d
                 PROVE  mem[d].handlers = 0
      BY <1>4 DEF FreeCells
    <2>1. CASE d = idxOf[h]
      BY <1>3, <2>1
    <2>2. CASE d # idxOf[h]
      BY <1>1, <1>5, <2>2 DEF FreeCells
    <2> QED BY <2>1, <2>2
  <1>10. Copies(t)'
    BY <1>1, <1>4, <1>5, <1>6 DEF Copies, ObjType
  <1> QED BY <1>7, <1>8, <1>9, <1>10 DEF ObjInv

\* The cells of two objects hold the numbers they were made with, so that
\* handle_plus makes its sum with the sum of the numbers.
LEMMA PlusMade ==
  ASSUME NEW t, Threads = {t}, ObjInv(t), NEW self \in Handles, NEW other \in Handles,
         NEW h \in Handles, handle_plus(t, self, other, h)
  PROVE  \E v \in Ints : Made(h, v)
  <1> DEFINE v == (number[self] + number[other]) % IntMod
  <1>1. Reaches(t, self) /\ Reaches(t, other)
    BY DEF handle_plus
  <1>2. ValueOf(self) = number[self] /\ ValueOf(other) = number[other]
    <2>1. ASSUME NEW g \in Handles, Reaches(t, g) PROVE ValueOf(g) = number[g]
      <3>1. refs[t][g] > 0 /\ Sound(t, g, idxOf[g]) /\ cellOf[g].cell = idxOf[g]
        BY <2>1, ReachesFacts
      <3> QED BY <3>1 DEF Sound, ValueOf
    <2> QED BY <1>1, <2>1
  <1>3. v \in Ints
    <2>1. number[self] \in Ints /\ number[other] \in Ints
      BY DEF ObjInv, ObjType
    <2>2. number[self] + number[other] \in Nat /\ IntMod \in Nat /\ IntMod >= 1
      BY <2>1, IntAssumption DEF Ints
    <2>3. v \in 0 .. IntMod - 1
      BY <2>2, DivMod
    <2> QED BY <2>3 DEF Ints
  <1>4. Made(h, v)
    BY <1>2 DEF handle_plus, Made
  <1> QED BY <1>3, <1>4

LEMMA ObjInit ==
  ASSUME FitsOneWord, NEW t, Threads = {t}, IntInit
  PROVE  ObjInv(t)
  <1>1. OneWordInv /\ \A h \in Handles : idxOf[h] = NoSlot
    BY OneWordInit DEF IntInit, Init, PoolInit
  <1>2. /\ 0 \in 0 .. MaxRefs /\ 0 \in 0 .. MaxHandlers /\ 0 \in Cells /\ 0 \in Ints /\ 0 \in Nat
    BY MemPoolAssumption, ObjectAssumption, IntAssumption DEF Cells, Ints
  <1>3. /\ mem = [c \in Cells |->
                    [refCnt |-> 0, handlers |-> 0, sized |-> FALSE, poolIdx |-> 0]]
        /\ refs = [u \in {t} |-> [h \in Handles |-> 0]]
        /\ pc = [u \in {t} |-> Idle]
        /\ value = [c \in Cells |-> 0] /\ number = [h \in Handles |-> 0] /\ copied = {}
    BY DEF IntInit, Init, Cells
  <1> HIDE DEF Cells, Ints
  <1>4. mem \in [Cells -> Fields]
    BY <1>2, <1>3 DEF Fields
  <1>5. pc \in [{t} -> [at : {"idle", "load", "release"}, obj : Handles \cup {NoSlot},
                        cell : Cells]] /\ pc[t] = Idle
    BY <1>2, <1>3 DEF Idle
  <1>6. ObjType(t)
    BY <1>2, <1>3, <1>4, <1>5 DEF ObjType
  <1>7. Objects(t) /\ Drops(t) /\ FreeCells /\ Copies(t)
    BY <1>1, <1>3, <1>5 DEF Objects, Drops, FreeCells, Copies
  <1> QED BY <1>1, <1>6, <1>7 DEF ObjInv

LEMMA ObjNext ==
  ASSUME FitsOneWord, NEW t, Threads = {t}, ObjInv(t), [IntNext]_allVars
  PROVE  ObjInv(t)'
  <1>1. OneWordInv'
    BY IntStepsPool, OneWordNext DEF ObjInv
  <1>2. CASE \E h \in Handles, v \in Ints : FtIntObj_Init(t, h, v)
    BY <1>1, <1>2, NewKeeps DEF FtIntObj_Init
  <1>3. CASE \E self, other, h \in Handles : handle_plus(t, self, other, h)
    <2>1. PICK self \in Handles, other \in Handles, h \in Handles : handle_plus(t, self, other, h)
      BY <1>3
    <2>2. PICK v \in Ints : Made(h, v)
      BY <2>1, PlusMade
    <2>3. New(t, h) /\ copied' = copied
      BY <2>1 DEF handle_plus
    <2> QED BY <1>1, <2>2, <2>3, NewKeeps
  <1>4. CASE \E h \in Handles : Copy(t, h) \/ DropCopy(t, h)
    BY <1>1, <1>4, CopyKeeps, DropCopyKeeps
  <1>5. CASE Shared(t)
    <2>1. UNCHANGED intVars
      BY <1>5 DEF Shared
    <2>2. CASE \E h \in Handles : Reaches(t, h) /\ (AddHandler(t, h) \/ DecRef(t, h))
      BY <1>1, <2>1, <2>2, AddHandlerKeeps, DecRefKeeps
    <2>3. CASE \E h \in Handles : Reaches(t, h) /\ IncRef(t, t, h)
      BY <1>1, <2>1, <2>3, IncRefKeeps
    <2>4. CASE Decrement(t)
      BY <1>1, <2>1, <2>4, LoadKeeps, ReleaseKeeps DEF Decrement
    <2> QED BY <1>5, <2>2, <2>3, <2>4 DEF Shared
  <1>6. CASE UNCHANGED allVars
    BY <1>1, <1>6 DEF allVars, vars, allocVars, intVars, ObjInv, ObjType, Objects, Sound, Dropping,
                 Drops, FreeCells, Copies
  <1> QED BY <1>2, <1>3, <1>4, <1>5, <1>6 DEF IntNext

\* What a thread has a reference to is in the pool.
LEMMA Referred ==
  ASSUME NEW t, Threads = {t}, ObjInv(t), NEW h \in Handles, References(h) > 0
  PROVE  References(h) = refs[t][h] /\ refs[t][h] > 0 /\ idxOf[h] # NoSlot
  <1>1. References(h) = refs[t][h] /\ refs[t][h] > 0
    BY OneThread DEF ObjInv
  <1>2. CASE idxOf[h] = NoSlot
    <2>1. refs[t][h] = 0
      BY <1>2 DEF ObjInv, Objects
    <2> QED BY <1>1, <2>1, SMT
  <1> QED BY <1>1, <1>2

\* Whether the behaviour is undefined, whatever the threads do.
UndefinedIsBoolean == undefined \in BOOLEAN

LEMMA UndefinedType == IntSpec => []UndefinedIsBoolean
  <1>1. IntInit => UndefinedIsBoolean
    BY DEF IntInit, Init, UndefinedIsBoolean
  <1>2. UndefinedIsBoolean /\ [IntNext]_allVars => UndefinedIsBoolean'
    <2> SUFFICES ASSUME undefined \in BOOLEAN, [IntNext]_allVars
                 PROVE  undefined' \in BOOLEAN
      BY DEF UndefinedIsBoolean
    <2>1. ASSUME NEW t, NEW h, New(t, h) PROVE UNCHANGED undefined
      BY <2>1 DEF New
    <2>2. ASSUME NEW t \in Threads, Shared(t) PROVE undefined' \in BOOLEAN
      <3>1. ASSUME NEW h, AddHandler(t, h) PROVE undefined' \in BOOLEAN
        BY <3>1 DEF AddHandler
      <3>2. ASSUME NEW h, DecRef(t, h) PROVE UNCHANGED undefined
        BY <3>2 DEF DecRef
      <3>3. ASSUME NEW u, NEW h, IncRef(t, u, h) PROVE UNCHANGED undefined
        BY <3>3 DEF IncRef
      <3>4. ASSUME Decrement(t) PROVE UNCHANGED undefined
        BY <3>4 DEF Decrement, LoadNonZero, LoadZero, Release
      <3> QED BY <2>2, <3>1, <3>2, <3>3, <3>4 DEF Shared
    <2>3. ASSUME NEW t, NEW h, Copy(t, h) \/ DropCopy(t, h) PROVE UNCHANGED undefined
      BY <2>3 DEF Copy, DropCopy, vars
    <2>4. CASE UNCHANGED allVars
      BY <2>4 DEF allVars, vars
    <2>5. ASSUME NEW t, NEW h, NEW v, FtIntObj_Init(t, h, v) PROVE UNCHANGED undefined
      <3>1. New(t, h)
        BY <2>5 DEF FtIntObj_Init
      <3> QED BY <3>1, <2>1
    <2>6. ASSUME NEW t, NEW a, NEW b, NEW h, handle_plus(t, a, b, h)
          PROVE  UNCHANGED undefined
      <3>1. New(t, h)
        BY <2>6 DEF handle_plus
      <3> QED BY <3>1, <2>1
    <2>7. CASE IntNext
      <3>1. PICK t \in Threads :
              \/ \E h \in Handles, v \in Ints : FtIntObj_Init(t, h, v)
              \/ \E self, other, h \in Handles : handle_plus(t, self, other, h)
              \/ \E h \in Handles : Copy(t, h) \/ DropCopy(t, h)
              \/ Shared(t)
        BY <2>7 DEF IntNext
      <3>2. CASE Shared(t)
        BY <3>2, <2>2
      <3>3. CASE ~Shared(t)
        <4>1. UNCHANGED undefined
          BY <3>1, <3>3, <2>3, <2>5, <2>6, Zenon
        <4> QED BY <4>1
      <3> QED BY <3>2, <3>3
    <2> QED BY <2>4, <2>7
  <1> QED BY <1>1, <1>2, PTL DEF IntSpec

THEOREM ObjInvariant ==
  ASSUME FitsOneWord, NEW t, Threads = {t}
  PROVE  IntSpec => []ObjInv(t)
  <1>1. IntInit => ObjInv(t)
    BY ObjInit
  <1>2. ObjInv(t) /\ [IntNext]_allVars => ObjInv(t)'
    BY ObjNext
  <1> QED BY <1>1, <1>2, PTL DEF IntSpec

\* Whatever the program does with its objects, it uses the pool as the
\* pool's specification has its callers do: _FtObj_DECREF never frees an
\* index twice, nor one that FtMemPool_Alloc has not handed out, though the
\* index is read back from the object's memory (Ft_object.c:83) or from a
\* copy of it.
THEOREM ObjectsUsePool ==
  ASSUME FitsOneWord, NEW t, Threads = {t}
  PROVE  IntSpec => PoolSpec
  <1>1. IntInit => PoolInit
    BY DEF IntInit, Init
  <1>2. ObjInv(t) /\ [IntNext]_allVars => [PoolNext]_allocVars
    BY IntStepsPool
  <1> QED BY <1>1, <1>2, ObjInvariant, PTL DEF IntSpec, PoolSpec

\* The count in an object's memory is the number of references to it, and an
\* object with references has not been given back to the pool, as long as
\* one thread uses the objects: _FtObj_INCREF and _FtObj_DECREF of
\* Ft_object.c:69.
THEOREM ObjectsCountReferences ==
  ASSUME FitsOneWord, NEW t, Threads = {t}
  PROVE  IntSpec => []CountsReferences
  <1>1. ASSUME ObjInv(t), UndefinedIsBoolean PROVE CountsReferences
    <2>1. TypeOK
      BY <1>1 DEF ObjInv, OneWordInv, ObjType, UndefinedIsBoolean, TypeOK, Cells, Fields
    <2> SUFFICES ASSUME NEW h \in Handles, References(h) > 0
                 PROVE  /\ idxOf[h] # NoSlot
                        /\ mem[cellOf[h].cell].refCnt = References(h)
                        /\ mem[cellOf[h].cell].poolIdx = idxOf[h]
                        /\ idxOf[h] % WordBits \notin Word(idxOf[h] \div WordBits)
      BY <2>1 DEF CountsReferences
    <2>2. References(h) = refs[t][h]
      BY <1>1, Referred
    <2>3. idxOf[h] # NoSlot
      BY <1>1, Referred
    <2>4. Sound(t, h, idxOf[h]) /\ cellOf[h].cell = idxOf[h]
      BY <1>1, <2>3, HeldCell DEF ObjInv, Objects
    <2>5. idxOf[h] \in Bits /\ idxOf[h] \notin freeValues[1]
      <3>1. OneWordInv /\ idxOf[h] \in Nat /\ idxOf[h] < pool.len /\ pool.len <= WordBits
        BY <1>1, <2>3 DEF ObjInv, OneWordInv, PoolTypeOK
      <3>2. pool.len \in Nat /\ WordBits \in Nat
        BY <3>1, MemPoolAssumption DEF OneWordInv, PoolTypeOK, PoolType
      <3>3. idxOf[h] \in Bits /\ pool.len # 0
        BY <3>1, <3>2 DEF Bits
      <3> QED BY <3>1, <3>3 DEF OneWordInv
    <2>6. idxOf[h] % WordBits \notin Word(idxOf[h] \div WordBits)
      BY <2>5, FirstWord DEF Word
    <2> QED BY <2>2, <2>3, <2>4, <2>6 DEF Sound
  <1> QED BY <1>1, ObjInvariant, UndefinedType, PTL

\* An integer the program has a reference to is the number it was made with,
\* whatever was made, freed, copied and made anew in the same memory
\* meanwhile: FtIntObj_Init and handle_plus of Ft_IntObj.c, and main.c's
\* copies.
THEOREM IntegersHoldNumbers ==
  ASSUME FitsOneWord, NEW t, Threads = {t}
  PROVE  IntSpec => []IntegersKeepValue
  <1>1. ASSUME ObjInv(t) PROVE IntegersKeepValue
    <2> SUFFICES ASSUME NEW h \in Handles, References(h) > 0
                 PROVE  ValueOf(h) = number[h]
      BY DEF IntegersKeepValue
    <2>1. refs[t][h] > 0 /\ idxOf[h] # NoSlot
      BY <1>1, Referred
    <2> QED BY <1>1, <2>1, HeldCell DEF ObjInv, Objects, Sound, ValueOf
  <1> QED BY <1>1, ObjInvariant, PTL

\* FtObj_Init hands out objects without handlers, though it takes the length
\* of the handlers as it finds it in the cell (Ft_object.c:51): the memory of
\* every free cell has none, also after the drop of a copy, which leaves the
\* object in the cell as it was.
THEOREM NewObjectsHaveNoHandlers ==
  ASSUME FitsOneWord, NEW t, Threads = {t}
  PROVE  IntSpec => NewObjectHasNoHandlers
  <1> DEFINE Clean == \A h \in Handles :
               idxOf[h] = NoSlot /\ idxOf'[h] # NoSlot => mem'[cellOf'[h].cell].handlers = 0
  <1>1. ASSUME ObjInv(t), [IntNext]_allVars PROVE [Clean]_vars
    <2>1. OneWordInv'
      BY <1>1, ObjNext DEF ObjInv
    <2>2. ASSUME NEW h \in Handles, New(t, h) PROVE Clean
      <3>1. PICK i \in Cells :
               /\ \A g \in Handles : idxOf[g] # i
               /\ \A g \in Handles : idxOf'[g] = IF g = h THEN i ELSE idxOf[g]
               /\ cellOf'[h].cell = i
               /\ mem' = [mem EXCEPT ![i] = [refCnt |-> 1, handlers |-> mem[i].handlers,
                                          sized |-> TRUE, poolIdx |-> i]]
        BY <1>1, <2>1, <2>2, NewEffect
      <3>2. mem[i].handlers = 0 /\ mem \in [Cells -> Fields]
        BY <1>1, <3>1 DEF ObjInv, FreeCells, ObjType
      <3>3. mem'[i].handlers = 0
        <4> HIDE DEF Cells, Fields
        <4> QED BY <3>1, <3>2
      <3> QED BY <3>1, <3>3
    <2>3. ASSUME NEW h \in Handles, Free(h) PROVE Clean
      <3>1. \A g \in Handles : idxOf'[g] = IF g = h THEN NoSlot ELSE idxOf[g]
        BY <1>1, <2>3 DEF Free, ObjInv, OneWordInv, PoolTypeOK
      <3> QED BY <3>1
    <2>4. CASE \E h \in Handles, v \in Ints : FtIntObj_Init(t, h, v)
      BY <2>2, <2>4 DEF FtIntObj_Init
    <2>5. CASE \E self, other, h \in Handles : handle_plus(t, self, other, h)
      BY <2>2, <2>5 DEF handle_plus
    <2>6. CASE \E h \in Handles : Copy(t, h) \/ DropCopy(t, h)
      BY <1>1, <2>3, <2>6, DropCopyFrees DEF Copy
    <2>7. CASE Shared(t)
      <3>1. CASE Release(t)
        BY <1>1, <2>3, <3>1, ReleaseFrees
      <3>2. CASE ~Release(t)
        BY <2>7, <3>2 DEF Shared, AddHandler, DecRef, IncRef, Decrement, LoadZero, LoadNonZero,
                     allocVars
      <3> QED BY <3>1, <3>2
    <2>8. CASE UNCHANGED allVars
      BY <2>8 DEF allVars
    <2> QED BY <1>1, <2>4, <2>5, <2>6, <2>7, <2>8 DEF IntNext
  <1> QED BY <1>1, ObjInvariant, PTL DEF IntSpec, NewObjectHasNoHandlers
==============================================================================
