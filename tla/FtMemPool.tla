------------------------------ MODULE FtMemPool ------------------------------
(***************************************************************************)
(* The object pool of VM/Ft_MemPool.c and the handles of its caller.       *)
(*                                                                         *)
(* A pool is an array of objects (`pool`), an array of bitset words with   *)
(* one bit per object, set while the object is free (`freeValues`), and a  *)
(* stack of the numbers of words that still have a set bit                 *)
(* (`valuesWithOpenSlots`).  A word is the set of its set bits.  C indices *)
(* start at 0, TLA+ sequences at 1: Word(w) is freeValues[w] of the code.  *)
(*                                                                         *)
(* FtMemPool_Alloc returns a pointer into `pool` and, through idxOut, the  *)
(* index FtMemPool_Free later needs.  The two are kept apart here: idxOf   *)
(* is the index, cellOf the cell the pointer refers to.  FtArr_Resize      *)
(* moves the array to a new memory block, so a pointer carries the block   *)
(* it was made in.                                                         *)
(***************************************************************************)
EXTENDS Naturals, Sequences, FiniteSets

CONSTANTS
  Handles,      \* the caller's variables that can hold a pool object
  NoSlot,       \* the handle holds nothing
  WordBits,     \* BITSET_NUM_BITS, 16 in the code
  InitialCap,   \* capacity the pool array starts with, 32 in the code
  MaxSlots      \* bound of the model on pool.len

ASSUME MemPoolAssumption ==
  /\ IsFiniteSet(Handles)
  /\ WordBits \in Nat /\ WordBits >= 2
  /\ InitialCap \in Nat /\ InitialCap >= 1
  /\ MaxSlots \in Nat \ {0}
  /\ NoSlot \notin Nat \cup [block : Nat, cell : Nat]

VARIABLES
  freeValues,            \* the bitset words
  valuesWithOpenSlots,   \* stack of word numbers, top last
  pool,                  \* len and cap of the object array, and its block
  idxOf,                 \* handle -> index from idxOut, or NoSlot
  cellOf                 \* handle -> [block, cell] of its pointer, or NoSlot

allocVars == <<freeValues, valuesWithOpenSlots, pool, idxOf, cellOf>>

Bits == 0 .. WordBits - 1
Word(w) == freeValues[w + 1]

PoolInit ==
  /\ freeValues = <<>>
  /\ valuesWithOpenSlots = <<>>
  /\ pool = [len |-> 0, cap |-> InitialCap, block |-> 0]
  /\ idxOf = [h \in Handles |-> NoSlot]
  /\ cellOf = [h \in Handles |-> NoSlot]

------------------------------------------------------------------------------
(* FtMemPool_Alloc                                                          *)

\* The word on top of the stack.
Top == valuesWithOpenSlots[Len(valuesWithOpenSlots)]

\* Mutant of LowestBit: the last set bit (fls) instead of the first (ffs).
HighestBit(word) == CHOOSE b \in word : \A c \in word : b >= c

\* ffs(word) - 1 for a word with a set bit.
LowestBit(word) == CHOOSE b \in word : \A c \in word : b <= c

\* The search yields Ft_InvalidSize: the stack is empty, or ffs(0) - 1 = -1
\* is added to word number 0 and wraps.
NoOpenSlot ==
  valuesWithOpenSlots # <<>> => Top = 0 /\ Word(Top) = {}

\* `freeSlot += ffs(slotInfo) - 1` on the word NUMBER taken from the stack.
FreeSlot ==
  IF Word(Top) = {} THEN Top - 1 ELSE Top + LowestBit(Word(Top))

\* Mutant of GrownPool: the array is moved for every object appended.
AlwaysMovedPool ==
  [len |-> pool.len + 1, cap |-> 2 * pool.cap, block |-> pool.block + 1]

\* FtArr_AppendZeroed on the object array: a full array is moved to a block
\* of twice the size first.
GrownPool ==
  IF pool.len = pool.cap
  THEN [len |-> pool.len + 1, cap |-> 2 * pool.len, block |-> pool.block + 1]
  ELSE [pool EXCEPT !.len = @ + 1]

\* The handle receives index i and a pointer to cell c of the block b.
Receive(h, i, b, c) ==
  /\ idxOf' = [idxOf EXCEPT ![h] = i]
  /\ cellOf' = [cellOf EXCEPT ![h] = [block |-> b, cell |-> c]]

\* No open slot: a new word and a new object are appended.
AllocFresh(h) ==
  /\ idxOf[h] = NoSlot
  /\ NoOpenSlot
  /\ pool.len < MaxSlots
  /\ valuesWithOpenSlots' = Append(valuesWithOpenSlots, Len(freeValues))
  /\ freeValues' = Append(freeValues, Bits \ {pool.len % WordBits})
  /\ pool' = GrownPool
  /\ Receive(h, pool.len, pool'.block, pool.len)

\* What taking FreeSlot does to the bitset and the stack.
TakeBit ==
  LET w == FreeSlot \div WordBits
      word == Word(w) \ {FreeSlot % WordBits}
  IN /\ freeValues' = [freeValues EXCEPT ![w + 1] = word]
     /\ valuesWithOpenSlots' =
          IF word = {}
          THEN SubSeq(valuesWithOpenSlots, 1, Len(valuesWithOpenSlots) - 1)
          ELSE valuesWithOpenSlots

\* The slot lies past the end of the object array: one object is appended.
AllocExtend(h) ==
  /\ idxOf[h] = NoSlot
  /\ ~NoOpenSlot
  /\ FreeSlot >= pool.len
  /\ pool.len < MaxSlots
  /\ TakeBit
  /\ pool' = GrownPool
  /\ Receive(h, FreeSlot, pool'.block, pool.len)

\* The slot was used before: the object is handed out as it is.
AllocReuse(h) ==
  /\ idxOf[h] = NoSlot
  /\ ~NoOpenSlot
  /\ FreeSlot < pool.len
  /\ TakeBit
  /\ Receive(h, FreeSlot, pool.block, FreeSlot)
  /\ UNCHANGED pool

Alloc(h) == AllocFresh(h) \/ AllocExtend(h) \/ AllocReuse(h)

------------------------------------------------------------------------------
(* FtMemPool_Free                                                           *)

\* Mutant of FreeBit: the stack receives the number of the object, not of the
\* word.
FreeBitPushesObject(i) ==
  LET w == i \div WordBits
  IN /\ valuesWithOpenSlots' =
          IF Word(w) = {} THEN Append(valuesWithOpenSlots, i)
                          ELSE valuesWithOpenSlots
     /\ freeValues' = [freeValues EXCEPT ![w + 1] = @ \cup {i % WordBits}]

\* What freeing index i does to the bitset and the stack.
FreeBit(i) ==
  LET w == i \div WordBits
  IN /\ valuesWithOpenSlots' =
          IF Word(w) = {} THEN Append(valuesWithOpenSlots, w)
                          ELSE valuesWithOpenSlots
     /\ freeValues' = [freeValues EXCEPT ![w + 1] = @ \cup {i % WordBits}]

Free(h) ==
  /\ idxOf[h] # NoSlot
  /\ FreeBit(idxOf[h])
  /\ idxOf' = [idxOf EXCEPT ![h] = NoSlot]
  /\ cellOf' = [cellOf EXCEPT ![h] = NoSlot]
  /\ UNCHANGED pool

PoolNext == \E h \in Handles : Alloc(h) \/ Free(h)

PoolSpec == PoolInit /\ [][PoolNext]_allocVars

------------------------------------------------------------------------------
(* Properties                                                               *)

PoolType ==
  /\ freeValues \in Seq(SUBSET Bits)
  /\ valuesWithOpenSlots \in Seq(Nat)
  /\ pool \in [len : 0 .. MaxSlots, cap : Nat, block : Nat]

\* Type correctness: every variable of the pool has the type the C
\* declarations give it, and a handle holds an index and a pointer, or none.
PoolTypeOK ==
  /\ PoolType
  /\ idxOf \in [Handles -> Nat \cup {NoSlot}]
  /\ cellOf \in [Handles -> [block : Nat, cell : Nat] \cup {NoSlot}]
  /\ \A h \in Handles : idxOf[h] = NoSlot <=> cellOf[h] = NoSlot

\* However many objects are in use, the FtArr_Get calls of FtMemPool_Alloc
\* and FtMemPool_Free that fetch a bitset word ask for one that exists:
\* FtArr_Get returns NULL past the end and both functions dereference what
\* it returns.  The stack names existing words, the word of the slot the
\* search computes exists, and so does the word of every index handed out.
WordLookupsInRange ==
  /\ \A k \in 1 .. Len(valuesWithOpenSlots) :
       valuesWithOpenSlots[k] < Len(freeValues)
  /\ ~NoOpenSlot => FreeSlot \div WordBits < Len(freeValues)
  /\ \A h \in Handles :
       idxOf[h] # NoSlot => idxOf[h] \div WordBits < Len(freeValues)

\* No two live objects occupy the same cell of the pool: neither the index
\* nor the pointer FtMemPool_Alloc returns is one another handle holds.
NoSharedSlot ==
  \A g, h \in Handles :
    /\ g # h
    /\ idxOf[g] # NoSlot
    /\ idxOf[h] # NoSlot
    => idxOf[g] # idxOf[h] /\ cellOf[g] # cellOf[h]

\* A pointer handed out stays valid while it is held, since FtArr_Resize has
\* not moved the object array, and names the same object as the index, so
\* the bit a later FtMemPool_Free sets is the bit of the object freed.
PointersValid ==
  \A h \in Handles :
    idxOf[h] # NoSlot => cellOf[h] = [block |-> pool.block, cell |-> idxOf[h]]

\* The bitset tells the truth: the bit of an index is clear exactly while a
\* handle holds it, and the stack holds exactly the words with a set bit.
BitsetExact ==
  /\ \A w \in 0 .. Len(freeValues) - 1 : \A b \in Bits :
       b \in Word(w) <=>
         \A h \in Handles : idxOf[h] # w * WordBits + b
  /\ { valuesWithOpenSlots[k] : k \in 1 .. Len(valuesWithOpenSlots) } =
       { w \in 0 .. Len(freeValues) - 1 : Word(w) # {} }

\* The comment at Ft_MemPool.c:29 says the search finds the first set bit of
\* a word with open slots: an allocation that finds one takes a slot whose
\* bit is set.
SearchTakesSetBit ==
  [][ ~NoOpenSlot =>
        \A h \in Handles :
          idxOf[h] = NoSlot /\ idxOf'[h] # NoSlot =>
            idxOf'[h] % WordBits \in Word(idxOf'[h] \div WordBits) ]_allocVars

\* FtMemPool implements SlotAllocator while no more objects are live than
\* one bitset word has bits: FtMemPool_Alloc hands out the lowest index no
\* handle holds, and the indices the handles hold are the whole abstract
\* state.
Abstract == INSTANCE SlotAllocator WITH Slots <- 0 .. Cardinality(Handles) - 1
AbstractSpec == Abstract!Spec
==============================================================================
