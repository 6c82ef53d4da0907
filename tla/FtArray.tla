------------------------------- MODULE FtArray -------------------------------
(***************************************************************************)
(* The dynamic array of VM/Ft_array.c: one array and one caller.           *)
(*                                                                         *)
(* The memory block is a sequence of cells, as many as the array has       *)
(* capacity; an element stays in its cell when it is popped.  The model    *)
(* stops (fault) at an access past the block and when the length is        *)
(* decremented below zero, after which every index passes the checks.  An  *)
(* array fits the 4 GB a Ft_Uint can count.                                *)
(***************************************************************************)
EXTENDS Naturals, Sequences

CONSTANTS
  Values,        \* what the caller stores
  Zero,          \* an element whose bytes are all zero
  InitialCaps,   \* the capacities arrays are made with: 0, 10, 32, ...
  ResizeCaps,    \* the capacities a caller asks FtArr_Resize for
  MaxCap         \* bound of the model on the capacity

ASSUME ArrayAssumption == InitialCaps \cup ResizeCaps \subseteq Nat /\ MaxCap \in Nat

VARIABLES
  len,         \* arr->len
  block,       \* the cells of arr->ptr; their number is arr->cap
  err,         \* the error code FtErr_Set left, or "none"
  popped,      \* has an element ever been popped?
  fault        \* "overrun" of the block, Pop of an "empty" array, or "none"

vars == <<len, block, err, popped, fault>>

Cells == Values \cup {Zero}
Cap == Len(block)

\* n cells of Ft_ZeroAlloc.
Zeroed(n) == [i \in 1 .. n |-> Zero]

\* FtArr_Init, without an error code set before: with one, or for elements of
\* no size, the struct comes back zeroed, of capacity 0.
Init ==
  /\ len = 0
  /\ \E n \in InitialCaps : block = Zeroed(n)
  /\ err = "none"
  /\ popped = FALSE
  /\ fault = "none"

\* Mutant of Moved: all but the last element are copied.
MovedShort(n) == [i \in 1 .. n |-> IF i < len THEN block[i] ELSE Zero]

\* Mutant of Moved: the new memory is not cleared, and holds anything.
MovedDirty(n) == [i \in 1 .. n |-> IF i <= len THEN block[i] ELSE CHOOSE v \in Values : TRUE]

\* The block FtArr_Resize moves the array to: n zeroed cells, the elements
\* copied.
Moved(n) == [i \in 1 .. n |-> IF i <= len THEN block[i] ELSE Zero]

Resize(n) ==
  /\ fault = "none"
  /\ IF n < len
     THEN err' = "too small" /\ UNCHANGED block
     ELSE block' = Moved(n) /\ UNCHANGED err
  /\ UNCHANGED <<len, popped, fault>>

\* Mutant of Grown: a full array grows when the next element does not fit.
GrownLate == IF len > Cap THEN Moved(2 * len) ELSE block

\* The block before an element is appended: twice as large if it was full.
Grown == IF len = Cap THEN Moved(2 * len) ELSE block

\* Twice nothing is nothing: there is no room in an array of capacity 0.
\* calloc may return NULL for no bytes, which sets the error code.
NoRoom ==
  /\ fault' = "overrun"
  /\ err' \in {err, "alloc"}
  /\ UNCHANGED <<len, block, popped>>

FtAppend(v) ==
  /\ fault = "none"
  /\ len < MaxCap
  /\ IF len >= Len(Grown)
     THEN NoRoom
     ELSE /\ block' = [Grown EXCEPT ![len + 1] = v]
          /\ len' = len + 1
          /\ UNCHANGED <<err, popped, fault>>

\* FtArr_AppendZeroed leaves the new element as its cell is.
AppendZeroed ==
  /\ fault = "none"
  /\ len < MaxCap
  /\ IF len >= Len(Grown)
     THEN NoRoom
     ELSE /\ block' = Grown
          /\ len' = len + 1
          /\ UNCHANGED <<err, popped, fault>>

\* The test for compaction, len / 4 >= cap, holds of no array with cells, so
\* FtArr_Resize is not called.
Pop ==
  /\ fault = "none"
  /\ len' = IF len = 0 THEN len ELSE len - 1
  /\ fault' = IF len = 0 THEN "empty" ELSE "none"
  /\ popped' = TRUE
  /\ UNCHANGED <<block, err>>

\* FtArr_Set with a C index.
Set(i, v) ==
  /\ fault = "none"
  /\ IF i >= len
     THEN err' = "out of range" /\ UNCHANGED block
     ELSE block' = [block EXCEPT ![i + 1] = v] /\ UNCHANGED err
  /\ UNCHANGED <<len, popped, fault>>

\* FtArr_Get with an index that is out of range; others change nothing.
GetOutOfRange(i) ==
  /\ fault = "none"
  /\ i >= len
  /\ err' = "out of range"
  /\ UNCHANGED <<len, block, popped, fault>>

Next ==
  \/ \E n \in ResizeCaps : Resize(n)
  \/ \E v \in Values : FtAppend(v)
  \/ AppendZeroed
  \/ Pop
  \/ \E i \in 0 .. MaxCap, v \in Values : Set(i, v)
  \/ \E i \in 0 .. MaxCap : GetOutOfRange(i)

Spec == Init /\ [][Next]_vars

------------------------------------------------------------------------------
(* Properties                                                               *)

\* Type correctness; the elements lie within the block.
TypeOK ==
  /\ block \in Seq(Cells)
  /\ len \in 0 .. Cap
  /\ err \in {"none", "too small", "out of range", "alloc"}
  /\ popped \in BOOLEAN /\ fault \in {"none", "empty", "overrun"}

\* An array that was never popped has zeroes past its length, so that
\* FtArr_AppendZeroed returns a zeroed element: what FtMemPool_Alloc and
\* FtCls_Init, which never pop, rely on.
SlackZeroed == ~popped => \A i \in len + 1 .. Cap : block[i] = Zero

\* FtArr_Append and FtArr_AppendZeroed write and return cells of the block,
\* unless the array has capacity 0, as the handlers of a class have
\* (Ft_class.c:48) and any array resized to 0.
StaysInBlock == fault = "overrun" => Cap = 0

\* FtArray implements FtList.  Growing, moving and resizing neither lose nor
\* change an element, also if the program goes wrong with the next.
Elements == [i \in 1 .. len |-> block[i]]
Abstract == INSTANCE FtList WITH Values <- Cells, list <- Elements, broken <- fault = "empty"
AbstractSpec == Abstract!Spec
==============================================================================
