---------------------------- MODULE FtArrayProofs ----------------------------
(***************************************************************************)
(* An array is a list, whatever its capacity, its element type and the     *)
(* order of the calls, and stays in its block unless its capacity is 0; an *)
(* environment, which is an array of bindings, returns what was last       *)
(* bound, whatever the names and however the array grows.                  *)
(*                                                                         *)
(* The argument: a full array has twice its length in cells after it has   *)
(* grown, and twice a positive length is more than the length; moving      *)
(* keeps the cells up to the length and zeroes the rest.  FtEnv_Set adds a *)
(* binding only for a name that has none, so that names are in one place   *)
(* each (Bindings), the place of a name is the first one, and what is      *)
(* there is what was bound.                                                *)
(***************************************************************************)
EXTENDS FtEnv, TLAPS

------------------------------------------------------------------------------
(* The array                                                                *)

IInv ==
  /\ TypeOK
  /\ SlackZeroed
  /\ StaysInBlock

\* IInv spelled out over the length of the block.
LEMMA IInvFacts ==
  ASSUME IInv
  PROVE  /\ block \in Seq(Cells) /\ Len(block) \in Nat /\ len \in Nat
         /\ len <= Len(block)
         /\ err \in {"none", "too small", "out of range", "alloc"}
         /\ popped \in BOOLEAN
         /\ fault \in {"none", "empty"} \/ (fault = "overrun" /\ Len(block) = 0)
         /\ ~popped => \A i \in len + 1 .. Len(block) : block[i] = Zero
<1>1. block \in Seq(Cells)
  BY DEF IInv, TypeOK
<1> HIDE DEF Cells
<1>2. Len(block) \in Nat
  BY <1>1
<1>3. len \in 0 .. Len(block)
  BY DEF IInv, TypeOK, Cap
<1>4. len \in Nat /\ len <= Len(block)
  BY <1>2, <1>3
<1>5. err \in {"none", "too small", "out of range", "alloc"} /\ popped \in BOOLEAN
  BY DEF IInv, TypeOK
<1>6. fault \in {"none", "empty"} \/ (fault = "overrun" /\ Len(block) = 0)
  BY DEF IInv, TypeOK, StaysInBlock, Cap
<1>7. ~popped => \A i \in len + 1 .. Len(block) : block[i] = Zero
  BY DEF IInv, SlackZeroed, Cap
<1> QED
  BY <1>1, <1>2, <1>3, <1>4, <1>5, <1>6, <1>7

LEMMA ZeroedIsBlock ==
  ASSUME NEW n \in Nat
  PROVE  Zeroed(n) \in Seq(Cells) /\ Len(Zeroed(n)) = n /\ \A i \in 1 .. n : Zeroed(n)[i] = Zero
  BY DEF Zeroed, Cells

\* FtArr_Resize to no less than the length keeps the elements and zeroes the
\* rest.
LEMMA MovedKeeps ==
  ASSUME IInv, NEW n \in Nat, len <= n
  PROVE  /\ Moved(n) \in Seq(Cells)
         /\ Len(Moved(n)) = n
         /\ \A i \in 1 .. len : Moved(n)[i] = block[i]
         /\ \A i \in len + 1 .. n : Moved(n)[i] = Zero
<1>1. block \in Seq(Cells) /\ Len(block) \in Nat /\ len \in Nat /\ len <= Len(block)
  BY IInvFacts
<1>2. \A i \in 1 .. n : (IF i <= len THEN block[i] ELSE Zero) \in Cells
  BY <1>1 DEF Cells
<1> QED
  BY <1>1, <1>2 DEF Moved

\* An array that has grown has room for one more element, if it had room for
\* any; its elements are what they were, and cells that were zero still are.
LEMMA GrownHasRoom ==
  ASSUME IInv
  PROVE  /\ Grown \in Seq(Cells)
         /\ len < Len(Grown) \/ Len(block) = 0
         /\ \A i \in 1 .. len : Grown[i] = block[i]
         /\ ~popped => \A i \in len + 1 .. Len(Grown) : Grown[i] = Zero
<1>1. /\ block \in Seq(Cells) /\ Len(block) \in Nat /\ len \in Nat
      /\ len <= Len(block)
  BY IInvFacts
<1>2. CASE len = Cap
  <2>1. 2 * len \in Nat /\ len <= 2 * len /\ (len < 2 * len \/ Len(block) = 0)
    BY <1>1, <1>2 DEF Cap
  <2>2. Grown = Moved(2 * len)
    BY <1>2 DEF Grown
  <2> HIDE DEF Grown, Moved
  <2> QED
    BY <2>1, <2>2, MovedKeeps
<1>3. CASE len # Cap
  BY <1>1, <1>3 DEF Grown, IInv, SlackZeroed, Cap
<1> QED
  BY <1>2, <1>3

LEMMA InitIInv == Init => IInv
<1> SUFFICES ASSUME Init PROVE IInv
  OBVIOUS
<1>1. PICK n \in InitialCaps : block = Zeroed(n)
  BY DEF Init
<1>2. n \in Nat
  BY ArrayAssumption
<1>3. block \in Seq(Cells) /\ Len(block) = n /\ \A i \in 1 .. n : block[i] = Zero
  BY <1>1, <1>2, ZeroedIsBlock
<1>4. len = 0 /\ err = "none" /\ popped = FALSE /\ fault = "none"
  BY DEF Init
<1>5. len \in 0 .. Cap
  BY <1>2, <1>3, <1>4 DEF Cap
<1>6. SlackZeroed
  BY <1>2, <1>3, <1>4 DEF SlackZeroed, Cap
<1> QED
  BY <1>3, <1>4, <1>5, <1>6 DEF IInv, TypeOK, StaysInBlock

LEMMA StepIInv == IInv /\ [Next]_vars => IInv'
<1> SUFFICES ASSUME IInv, [Next]_vars PROVE IInv'
  OBVIOUS
<1>a. Len(block) \in Nat /\ len \in Nat /\ len <= Len(block)
  BY IInvFacts
<1>b. block \in Seq(Cells)
  BY IInvFacts
<1>c. /\ err \in {"none", "too small", "out of range", "alloc"}
      /\ popped \in BOOLEAN
      /\ fault \in {"none", "empty"} \/ (fault = "overrun" /\ Len(block) = 0)
  BY IInvFacts
<1>d. ~popped => \A i \in len + 1 .. Len(block) : block[i] = Zero
  BY IInvFacts
<1> DEFINE
      Sized == len' \in Nat /\ len' <= Len(block')
      Plain == /\ err' \in {"none", "too small", "out of range", "alloc"}
               /\ popped' \in BOOLEAN
               /\ fault' \in {"none", "empty"} \/ (fault' = "overrun" /\ Len(block') = 0)
      Slack == ~popped' => \A i \in len' + 1 .. Len(block') : block'[i] = Zero
      Good == block' \in Seq(Cells) /\ Sized /\ Plain /\ Slack
<1>0. ASSUME block' = block, len' = len, popped' = popped
      PROVE  block' \in Seq(Cells) /\ Sized /\ Slack
  BY <1>0, <1>a, <1>b, <1>d
<1>1. ASSUME NEW n \in ResizeCaps, Resize(n) PROVE Good
  <2>1. n \in Nat
    BY ArrayAssumption
  <2>2. CASE n < len
    <3>1. Plain /\ block' = block /\ len' = len /\ popped' = popped
      BY <1>c, <1>1, <2>2 DEF Resize
    <3> QED
      BY <1>0, <3>1
  <2>3. CASE ~(n < len)
    <3>1. len <= n
      BY <1>a, <2>1, <2>3
    <3>2. /\ block' = Moved(n) /\ err' = err /\ len' = len /\ popped' = popped
          /\ fault' = "none"
      BY <1>1, <2>3 DEF Resize
    <3>3. /\ Moved(n) \in Seq(Cells) /\ Len(Moved(n)) = n
          /\ \A i \in len + 1 .. n : Moved(n)[i] = Zero
      BY <2>1, <3>1, MovedKeeps
    <3> HIDE DEF Moved
    <3>4. block' \in Seq(Cells) /\ Sized
      BY <1>a, <2>1, <3>1, <3>2, <3>3
    <3>5. Plain /\ Slack
      BY <1>c, <3>2, <3>3
    <3> QED
      BY <3>4, <3>5
  <2> QED
    BY <2>2, <2>3
<1>g. /\ Grown \in Seq(Cells) /\ Len(Grown) \in Nat
      /\ len < Len(Grown) \/ Len(block) = 0
      /\ ~popped => \A i \in len + 1 .. Len(Grown) : Grown[i] = Zero
  <2>1. /\ Grown \in Seq(Cells) /\ (len < Len(Grown) \/ Len(block) = 0)
        /\ ~popped => \A i \in len + 1 .. Len(Grown) : Grown[i] = Zero
    BY GrownHasRoom
  <2> HIDE DEF Grown, Cells
  <2>2. Len(Grown) \in Nat
    BY <2>1
  <2> QED
    BY <2>1, <2>2
<1>n. ASSUME NoRoom, len >= Len(Grown) PROVE Good
  <2>1. Len(block) = 0
    BY <1>a, <1>g, <1>n
  <2>2. /\ fault' = "overrun" /\ err' \in {err, "alloc"}
        /\ len' = len /\ block' = block /\ popped' = popped
    BY <1>n DEF NoRoom
  <2> QED
    BY <1>0, <1>c, <2>1, <2>2
<1>2. ASSUME NEW v \in Values, FtAppend(v), ~(len >= Len(Grown)) PROVE Good
  <2> HIDE DEF Grown
  <2>1. len < Len(Grown)
    BY <1>a, <1>g, <1>2
  <2>2. /\ block' = [Grown EXCEPT ![len + 1] = v] /\ len' = len + 1
        /\ err' = err /\ popped' = popped /\ fault' = "none"
    BY <1>2 DEF FtAppend
  <2>3. v \in Cells /\ len + 1 \in 1 .. Len(Grown)
    BY <1>a, <1>g, <2>1 DEF Cells
  <2> HIDE DEF Cells
  <2>4. block' \in Seq(Cells) /\ Len(block') = Len(Grown)
    BY <1>g, <2>2, <2>3
  <2>5. Sized
    BY <1>a, <1>g, <2>1, <2>2, <2>4
  <2>6. Slack
    <3> SUFFICES ASSUME ~popped, NEW i \in len + 2 .. Len(Grown) PROVE block'[i] = Zero
      BY <1>a, <2>2, <2>4
    <3>1. i \in len + 1 .. Len(Grown) /\ i \in 1 .. Len(Grown) /\ i # len + 1
      BY <1>a, <1>g
    <3> QED
      BY <1>g, <2>2, <3>1
  <2> QED
    BY <1>c, <2>2, <2>4, <2>5, <2>6
<1>3. ASSUME AppendZeroed, ~(len >= Len(Grown)) PROVE Good
  <2> HIDE DEF Grown
  <2>1. len < Len(Grown)
    BY <1>a, <1>g, <1>3
  <2>2. /\ block' = Grown /\ len' = len + 1
        /\ err' = err /\ popped' = popped /\ fault' = "none"
    BY <1>3 DEF AppendZeroed
  <2>3. Sized
    BY <1>a, <1>g, <2>1, <2>2
  <2>4. Slack
    BY <1>a, <1>g, <2>2
  <2> QED
    BY <1>c, <1>g, <2>2, <2>3, <2>4
<1>4. ASSUME Pop PROVE Good
  <2>1. block' = block /\ popped' = TRUE /\ err' = err /\ fault' \in {"none", "empty"}
    BY <1>4 DEF Pop
  <2>2. len' \in Nat /\ len' <= Len(block)
    BY <1>a, <1>4 DEF Pop
  <2> QED
    BY <1>a, <1>b, <1>c, <2>1, <2>2
<1>5. ASSUME NEW i \in 0 .. MaxCap, NEW v \in Values, Set(i, v) PROVE Good
  <2>1. i \in Nat
    BY ArrayAssumption
  <2>2. CASE i >= len
    <3>1. Plain /\ block' = block /\ len' = len /\ popped' = popped
      BY <1>c, <1>5, <2>2 DEF Set
    <3> QED
      BY <1>0, <3>1
  <2>3. CASE ~(i >= len)
    <3>1. /\ block' = [block EXCEPT ![i + 1] = v]
          /\ err' = err /\ len' = len /\ popped' = popped /\ fault' = "none"
      BY <1>5, <2>3 DEF Set
    <3>2. v \in Cells /\ i + 1 \in 1 .. len /\ i + 1 \in 1 .. Len(block)
      BY <1>a, <2>1, <2>3 DEF Cells
    <3> HIDE DEF Cells
    <3>3. block' \in Seq(Cells) /\ Len(block') = Len(block)
      BY <1>b, <3>1, <3>2
    <3>4. Sized
      BY <1>a, <3>1, <3>3
    <3>5. Slack
      <4> SUFFICES ASSUME ~popped, NEW j \in len + 1 .. Len(block) PROVE block'[j] = Zero
        BY <3>1, <3>3
      <4>1. j \in 1 .. Len(block) /\ j # i + 1
        BY <1>a, <2>1, <3>2
      <4> QED
        BY <1>b, <1>d, <3>1, <4>1
    <3> QED
      BY <1>c, <3>1, <3>3, <3>4, <3>5
  <2> QED
    BY <2>2, <2>3
<1>6. ASSUME NEW i \in 0 .. MaxCap, GetOutOfRange(i) PROVE Good
  <2>1. Plain /\ block' = block /\ len' = len /\ popped' = popped
    BY <1>c, <1>6 DEF GetOutOfRange
  <2> QED
    BY <1>0, <2>1
<1>7. ASSUME UNCHANGED vars PROVE Good
  <2>1. Plain /\ block' = block /\ len' = len /\ popped' = popped
    BY <1>c, <1>7 DEF vars
  <2> QED
    BY <1>0, <2>1
<1>8. Good
  <2> HIDE DEF Good, Grown
  <2>1. ASSUME NEW v \in Values, FtAppend(v), len >= Len(Grown) PROVE NoRoom
    BY <2>1 DEF FtAppend
  <2>2. ASSUME AppendZeroed, len >= Len(Grown) PROVE NoRoom
    BY <2>2 DEF AppendZeroed
  <2> QED
    BY <1>1, <1>n, <2>1, <2>2, <1>2, <1>3, <1>4, <1>5, <1>6, <1>7 DEF Next
<1>9. TypeOK'
  <2>1. block' \in Seq(Cells) /\ len' \in Nat /\ len' <= Len(block')
    BY <1>8
  <2> HIDE DEF Cells
  <2>2. Len(block') \in Nat
    BY <2>1
  <2>3. len' \in 0 .. Len(block')
    BY <2>1, <2>2
  <2> QED
    BY <1>8, <2>3 DEF TypeOK, Cap
<1> QED
  BY <1>8, <1>9 DEF IInv, SlackZeroed, StaysInBlock, Cap

\* The inductive invariant of the array.
THEOREM ArrayInvariant == Spec => []IInv
  BY InitIInv, StepIInv, PTL DEF Spec

\* Type correctness; the elements lie within the block.
THEOREM ArrayTypeCorrect == Spec => []TypeOK
<1>1. IInv => TypeOK
  BY DEF IInv
<1> QED
  BY <1>1, ArrayInvariant, PTL

\* An array with capacity never writes past its block.
THEOREM ArrayStaysInBlock == Spec => []StaysInBlock
<1>1. IInv => StaysInBlock
  BY DEF IInv
<1> QED
  BY <1>1, ArrayInvariant, PTL

\* An element appended with FtArr_AppendZeroed is zero if none was popped.
THEOREM ArraySlackZeroed == Spec => []SlackZeroed
<1>1. IInv => SlackZeroed
  BY DEF IInv
<1> QED
  BY <1>1, ArrayInvariant, PTL

------------------------------------------------------------------------------
(* The array implements the list                                            *)

\* The elements are the first len cells.
ElementsAreCells ==
  /\ Elements \in Seq(Cells) /\ Len(Elements) = len
  /\ \A i \in 1 .. len : Elements[i] = block[i]

LEMMA ElementsFacts == IInv => ElementsAreCells
<1> SUFFICES ASSUME IInv PROVE ElementsAreCells
  OBVIOUS
<1>1. len \in Nat /\ len <= Len(block) /\ Len(block) \in Nat /\ block \in Seq(Cells)
  BY IInvFacts
<1> HIDE DEF Cells
<1>2. \A i \in 1 .. len : block[i] \in Cells
  BY <1>1
<1> QED
  BY <1>1, <1>2 DEF Elements, ElementsAreCells

\* Cells that keep their contents up to a length that is kept are the same
\* elements.
LEMMA SameElements ==
  ASSUME len' = len, \A i \in 1 .. len : block'[i] = block[i]
  PROVE  Elements' = Elements
BY DEF Elements

\* Each step of the array is a step of the list, or leaves the list alone.
LEMMA StepRefines ==
  IInv /\ IInv' /\ [Next]_vars => [Abstract!Next]_(Abstract!vars)
<1> SUFFICES ASSUME IInv, IInv', [Next]_vars PROVE [Abstract!Next]_(Abstract!vars)
  OBVIOUS
<1> DEFINE Stutter == Elements' = Elements /\ (fault = "empty")' = (fault = "empty")
<1>a. /\ len \in Nat /\ Len(block) \in Nat /\ len <= Len(block) /\ block \in Seq(Cells)
      /\ Elements \in Seq(Cells) /\ Len(Elements) = len
      /\ \A i \in 1 .. len : Elements[i] = block[i]
  BY IInvFacts, ElementsFacts DEF ElementsAreCells
<1>b. /\ Elements' \in Seq(Cells) /\ Len(Elements') = len'
      /\ \A i \in 1 .. len' : Elements'[i] = block'[i]
  <2>1. ElementsAreCells'
    BY ElementsFacts, PTL
  <2> QED
    BY <2>1 DEF ElementsAreCells, Cells
<1>g. /\ Grown \in Seq(Cells)
      /\ \A i \in 1 .. len : Grown[i] = block[i]
  BY GrownHasRoom
<1>1. ASSUME NEW n \in ResizeCaps, Resize(n) PROVE Stutter
  <2>1. n \in Nat
    BY ArrayAssumption
  <2>2. CASE n < len
    BY <1>1, <2>2, SameElements DEF Resize
  <2>3. CASE ~(n < len)
    <3>1. len <= n
      BY <1>a, <2>1, <2>3
    <3>2. block' = Moved(n) /\ len' = len /\ fault' = fault
      BY <1>1, <2>3 DEF Resize
    <3>3. \A i \in 1 .. len : Moved(n)[i] = block[i]
      BY <2>1, <3>1, MovedKeeps
    <3> HIDE DEF Moved
    <3> QED
      BY <3>2, <3>3, SameElements
  <2> QED
    BY <2>2, <2>3
<1>2. ASSUME NEW v \in Cells, fault = "none", fault' = fault, len' = len + 1,
             \A i \in 1 .. len : block'[i] = block[i], block'[len + 1] = v
      PROVE  Abstract!Append_(v)
  <2>1. \A i \in 1 .. len + 1 : Elements'[i] = IF i = len + 1 THEN v ELSE Elements[i]
    BY <1>a, <1>b, <1>2
  <2> HIDE DEF Cells
  <2>2. Elements' = Append(Elements, v)
    BY <1>a, <1>b, <1>2, <2>1
  <2> QED
    BY <1>2, <2>2 DEF Abstract!Append_
<1>n. ASSUME NoRoom, fault = "none" PROVE Stutter
  BY <1>n, SameElements DEF NoRoom
<1>3. ASSUME NEW v \in Values, FtAppend(v), ~(len >= Len(Grown)) PROVE Abstract!Append_(v)
  <2> HIDE DEF Grown
  <2>1. len + 1 \in 1 .. Len(Grown)
    <3> HIDE DEF Cells
    <3>1. Len(Grown) \in Nat
      BY <1>g
    <3> QED
      BY <1>a, <1>3, <3>1
  <2>2. block' = [Grown EXCEPT ![len + 1] = v] /\ len' = len + 1 /\ fault = "none" /\ fault' = fault
    BY <1>3 DEF FtAppend
  <2>3. block'[len + 1] = v /\ \A i \in 1 .. len : block'[i] = block[i]
    <3> HIDE DEF Cells
    <3>1. \A i \in 1 .. len : i # len + 1 /\ i \in 1 .. Len(Grown)
      BY <1>a, <2>1
    <3> QED
      BY <1>g, <2>1, <2>2, <3>1
  <2>4. v \in Cells
    BY DEF Cells
  <2> QED
    BY <1>2, <2>2, <2>3, <2>4
<1>4. ASSUME AppendZeroed, ~(len >= Len(Grown)) PROVE \E v \in Cells : Abstract!Append_(v)
  <2> HIDE DEF Grown
  <2>1. len + 1 \in 1 .. Len(Grown)
    <3> HIDE DEF Cells
    <3>1. Len(Grown) \in Nat
      BY <1>g
    <3> QED
      BY <1>a, <1>4, <3>1
  <2>2. block' = Grown /\ len' = len + 1 /\ fault = "none" /\ fault' = fault
    BY <1>4 DEF AppendZeroed
  <2>3. Grown[len + 1] \in Cells
    <3> HIDE DEF Cells
    <3> QED
      BY <1>g, <2>1
  <2>4. \A i \in 1 .. len : block'[i] = block[i]
    BY <1>g, <2>2
  <2>5. Abstract!Append_(Grown[len + 1])
    BY <1>2, <2>2, <2>3, <2>4
  <2> QED
    BY <2>3, <2>5
<1>5. ASSUME Pop PROVE Abstract!Pop \/ Abstract!Break
  <2>1. CASE len = 0
    <3>1. Elements' = Elements /\ fault = "none" /\ fault' = "empty"
      BY <1>5, <2>1, SameElements DEF Pop
    <3>2. Elements = <<>>
      <4> HIDE DEF Cells
      <4> QED
        BY <1>a, <2>1
    <3> QED
      BY <3>1, <3>2 DEF Abstract!Break
  <2>2. CASE len # 0
    <3>1. fault = "none" /\ fault' = "none" /\ len' = len - 1 /\ block' = block
      BY <1>5, <2>2 DEF Pop
    <3> HIDE DEF Cells
    <3>2. \A i \in 1 .. len - 1 : Elements'[i] = Elements[i]
      BY <1>a, <1>b, <3>1
    <3>3. Elements' = SubSeq(Elements, 1, Len(Elements) - 1)
      BY <1>a, <1>b, <2>2, <3>1, <3>2
    <3>4. Elements # <<>>
      BY <1>a, <2>2
    <3> QED
      BY <3>1, <3>3, <3>4 DEF Abstract!Pop
  <2> QED
    BY <2>1, <2>2
<1>6. ASSUME NEW i \in 0 .. MaxCap, NEW v \in Values, Set(i, v)
      PROVE  Stutter \/ (\E w \in Cells : \E j \in DOMAIN Elements : Abstract!Set(j, w))
  <2>1. i \in Nat
    BY ArrayAssumption
  <2>2. CASE i >= len
    BY <1>6, <2>2, SameElements DEF Set
  <2>3. CASE ~(i >= len)
    <3>1. block' = [block EXCEPT ![i + 1] = v] /\ len' = len /\ fault = "none" /\ fault' = fault
      BY <1>6, <2>3 DEF Set
    <3>2. v \in Cells /\ i + 1 \in 1 .. len /\ i + 1 \in 1 .. Len(block)
      BY <1>a, <2>1, <2>3 DEF Cells
    <3> HIDE DEF Cells
    <3>3. \A j \in 1 .. len : j \in 1 .. Len(block)
      BY <1>a
    <3>4. \A j \in 1 .. len : Elements'[j] = IF j = i + 1 THEN v ELSE Elements[j]
      BY <1>a, <1>b, <3>1, <3>2, <3>3
    <3>5. Elements' = [Elements EXCEPT ![i + 1] = v]
      BY <1>a, <1>b, <3>1, <3>2, <3>4
    <3>6. i + 1 \in DOMAIN Elements
      BY <1>a, <3>2
    <3>7. Abstract!Set(i + 1, v)
      BY <3>1, <3>5, <3>6 DEF Abstract!Set
    <3> QED
      BY <3>2, <3>6, <3>7
  <2> QED
    BY <2>2, <2>3
<1>7. ASSUME NEW i \in 0 .. MaxCap, GetOutOfRange(i) PROVE Stutter
  BY <1>7, SameElements DEF GetOutOfRange
<1>8. ASSUME UNCHANGED vars PROVE Stutter
  BY <1>8, SameElements DEF vars
<1>9. Values \subseteq Cells
  BY DEF Cells
<1>10. Abstract!Next \/ Stutter
  <2> HIDE DEF Stutter, Cells, Grown
  <2>1. ASSUME NEW v \in Values, FtAppend(v), len >= Len(Grown) PROVE Stutter
    BY <1>n, <2>1 DEF FtAppend
  <2>2. ASSUME AppendZeroed, len >= Len(Grown) PROVE Stutter
    BY <1>n, <2>2 DEF AppendZeroed
  <2> QED
    BY <1>1, <2>1, <2>2, <1>3, <1>4, <1>5, <1>6, <1>7, <1>8, <1>9 DEF Next, Abstract!Next
<1> QED
  BY <1>10 DEF Abstract!vars

\* The array is a list: growing, moving and resizing neither lose nor change
\* an element.
THEOREM FtArrayImplementsFtList == Spec => AbstractSpec
<1>1. Init => Abstract!Init
  <2> SUFFICES ASSUME Init PROVE Abstract!Init
    OBVIOUS
  <2>1. Elements \in Seq(Cells) /\ Len(Elements) = 0
    BY InitIInv, ElementsFacts DEF Init, ElementsAreCells
  <2>2. Elements = <<>>
    <3> HIDE DEF Cells
    <3> QED
      BY <2>1
  <2> QED
    BY <2>2 DEF Init, Abstract!Init
<1> QED
  BY <1>1, StepRefines, ArrayInvariant, PTL DEF Spec, AbstractSpec, Abstract!Spec

------------------------------------------------------------------------------
(* The environment                                                          *)

\* What the array b of length n, with what was bound, is in an environment.
Bindings(b, n, bnd) ==
  /\ \A i \in 1 .. n : b[i] \in Values /\ bnd[NameOf[b[i]]] = b[i]
  /\ \A i, j \in 1 .. n : NameOf[b[i]] = NameOf[b[j]] => i = j
  /\ \A m \in Names : bnd[m] # NULL => \E i \in 1 .. n : NameOf[b[i]] = m

EnvIInv ==
  /\ IInv
  /\ bound \in [Names -> Values \cup {NULL}]
  /\ use = "env" => len <= MaxCap /\ Bindings(block, len, bound)

\* A name has one place or none.
LEMMA OnePlace ==
  ASSUME Bindings(block, len, bound), len \in Nat, NEW m, NEW p \in Places(m)
  PROVE  p \in 1 .. len /\ NameOf[block[p]] = m /\ Min(Places(m)) = p
<1>1. p \in 1 .. len /\ NameOf[block[p]] = m
  BY DEF Places
<1>2. Places(m) = {p}
  BY <1>1 DEF Places, Bindings
<1> QED
  BY <1>1, <1>2 DEF Min

LEMMA InitEnvIInv == EnvInit => EnvIInv
<1> SUFFICES ASSUME EnvInit PROVE EnvIInv
  OBVIOUS
<1>1. IInv
  BY InitIInv DEF EnvInit
<1>2. len = 0 /\ bound = [n \in Names |-> NULL]
  BY DEF EnvInit, Init
<1>3. MaxCap \in Nat
  BY ArrayAssumption
<1> QED
  BY <1>1, <1>2, <1>3 DEF EnvIInv, Bindings

\* FtEnv_Set of a name that has no binding.
LEMMA AppendKeepsBindings ==
  ASSUME IInv, bound \in [Names -> Values \cup {NULL}], Bindings(block, len, bound),
         NEW v \in Values, Places(NameOf[v]) = {}, FtAppend(v),
         bound' = IF fault' = "none" THEN [bound EXCEPT ![NameOf[v]] = v] ELSE bound
  PROVE  len' <= MaxCap /\ Bindings(block', len', bound')
<1>1. len \in Nat /\ MaxCap \in Nat /\ len < MaxCap /\ NameOf[v] \in Names
  BY IInvFacts, ArrayAssumption DEF FtAppend, Names
<1>2. CASE len >= Len(Grown)
  <2>1. fault' = "overrun" /\ UNCHANGED <<len, block>>
    BY <1>2 DEF FtAppend, NoRoom
  <2> QED
    BY <1>1, <2>1
<1>3. CASE ~(len >= Len(Grown))
  <2>1. Grown \in Seq(Cells) /\ \A i \in 1 .. len : Grown[i] = block[i]
    BY GrownHasRoom
  <2>2. /\ block' = [Grown EXCEPT ![len + 1] = v] /\ len' = len + 1
        /\ bound' = [bound EXCEPT ![NameOf[v]] = v]
    BY <1>3 DEF FtAppend
  <2> HIDE DEF Grown, Cells
  <2>3. len + 1 \in 1 .. Len(Grown)
    BY <1>1, <1>3, <2>1
  <2>4. block'[len + 1] = v /\ \A i \in 1 .. len : block'[i] = block[i]
    BY <1>1, <2>1, <2>2, <2>3
  <2>5. \A i \in 1 .. len : NameOf[block[i]] # NameOf[v]
    BY DEF Places
  <2>6. \A i \in 1 .. len + 1 : i \in 1 .. len \/ i = len + 1
    BY <1>1
  <2>7. ASSUME NEW i \in 1 .. len + 1
        PROVE  block'[i] \in Values /\ bound'[NameOf[block'[i]]] = block'[i]
    <3>1. CASE i = len + 1
      BY <1>1, <2>2, <2>4, <3>1
    <3>2. CASE i \in 1 .. len
      BY <2>2, <2>4, <2>5, <3>2 DEF Bindings, Names
    <3> QED
      BY <2>6, <3>1, <3>2
  <2>8. ASSUME NEW i \in 1 .. len + 1, NEW j \in 1 .. len + 1,
               NameOf[block'[i]] = NameOf[block'[j]]
        PROVE  i = j
    BY <2>4, <2>5, <2>6, <2>8 DEF Bindings
  <2>9. ASSUME NEW m \in Names, bound'[m] # NULL
        PROVE  \E i \in 1 .. len + 1 : NameOf[block'[i]] = m
    <3>1. CASE m = NameOf[v]
      BY <1>1, <2>4, <3>1
    <3>2. CASE m # NameOf[v]
      <4>1. PICK i \in 1 .. len : NameOf[block[i]] = m
        BY <2>2, <2>9, <3>2 DEF Bindings
      <4> QED
        BY <1>1, <2>4, <4>1
    <3> QED
      BY <3>1, <3>2
  <2>10. Bindings(block', len + 1, bound')
    BY <2>7, <2>8, <2>9 DEF Bindings
  <2> QED
    BY <1>1, <2>2, <2>10
<1> QED
  BY <1>2, <1>3

\* FtEnv_Set of a name that has one.
LEMMA SetKeepsBindings ==
  ASSUME IInv, bound \in [Names -> Values \cup {NULL}], Bindings(block, len, bound),
         NEW v \in Values, NEW p \in 1 .. len, NameOf[block[p]] = NameOf[v], Set(p - 1, v),
         bound' = IF fault' = "none" THEN [bound EXCEPT ![NameOf[v]] = v] ELSE bound
  PROVE  len' = len /\ Bindings(block', len, bound')
<1>1. /\ block \in Seq(Cells) /\ len \in Nat /\ Len(block) \in Nat /\ len <= Len(block)
  BY IInvFacts
<1>2. NameOf[v] \in Names
  BY DEF Names
<1>3. ~(p - 1 >= len) /\ p - 1 + 1 = p
  BY <1>1
<1>4. /\ block' = [block EXCEPT ![p] = v] /\ len' = len
      /\ bound' = [bound EXCEPT ![NameOf[v]] = v]
  BY <1>3 DEF Set
<1> HIDE DEF Cells
<1>5. p \in 1 .. Len(block)
  BY <1>1
<1>6. /\ block'[p] = v
      /\ \A i \in 1 .. len : i # p => block'[i] = block[i]
  BY <1>1, <1>4, <1>5
<1>7. \A i \in 1 .. len : NameOf[block'[i]] = NameOf[block[i]]
  BY <1>6
<1>8. ASSUME NEW i \in 1 .. len
      PROVE  block'[i] \in Values /\ bound'[NameOf[block'[i]]] = block'[i]
  <2>1. CASE i = p
    BY <1>2, <1>4, <1>6, <2>1
  <2>2. CASE i # p
    <3>1. NameOf[block[i]] # NameOf[v]
      BY <2>2 DEF Bindings
    <3> QED
      BY <1>4, <1>6, <2>2, <3>1 DEF Bindings, Names
  <2> QED
    BY <2>1, <2>2
<1>9. \A i, j \in 1 .. len : NameOf[block'[i]] = NameOf[block'[j]] => i = j
  BY <1>7 DEF Bindings
<1>10. ASSUME NEW m \in Names, bound'[m] # NULL
       PROVE  \E i \in 1 .. len : NameOf[block'[i]] = m
  <2>1. CASE m = NameOf[v]
    BY <1>6, <2>1
  <2>2. CASE m # NameOf[v]
    BY <1>4, <1>7, <1>10, <2>2 DEF Bindings
  <2> QED
    BY <2>1, <2>2
<1> QED
  BY <1>4, <1>8, <1>9, <1>10 DEF Bindings

LEMMA StepEnvIInv == EnvIInv /\ [EnvNext]_envVars => EnvIInv'
<1> SUFFICES ASSUME EnvIInv, [EnvNext]_envVars PROVE EnvIInv'
  OBVIOUS
<1>a. IInv /\ bound \in [Names -> Values \cup {NULL}] /\ len \in Nat
  BY IInvFacts DEF EnvIInv
<1>1. CASE UNCHANGED envVars
  <2>1. UNCHANGED vars
    BY <1>1 DEF envVars
  <2>2. IInv'
    BY <1>a, <2>1, StepIInv
  <2>3. UNCHANGED <<len, block, use, bound>>
    BY <1>1, <2>1 DEF envVars, vars
  <2> QED
    BY <2>2, <2>3 DEF EnvIInv, Bindings
<1>2. CASE use = "array" /\ Next /\ UNCHANGED <<bound, use>>
  <2>1. IInv'
    BY <1>a, <1>2, StepIInv
  <2> QED
    BY <1>2, <2>1 DEF EnvIInv
<1>3. ASSUME NEW v \in Values, use = "env", FtEnv_Set(v), use' = use PROVE EnvIInv'
  <2>1. len <= MaxCap /\ Bindings(block, len, bound) /\ MaxCap \in Nat
    BY <1>3, ArrayAssumption DEF EnvIInv
  <2>2. bound' = IF fault' = "none" THEN [bound EXCEPT ![NameOf[v]] = v] ELSE bound
    BY <1>3 DEF FtEnv_Set
  <2>3. bound' \in [Names -> Values \cup {NULL}]
    BY <1>a, <2>2
  <2>4. CASE Places(NameOf[v]) = {}
    <3>1. FtAppend(v)
      BY <1>3, <2>4 DEF FtEnv_Set
    <3>2. IInv'
      BY <1>a, <3>1, StepIInv DEF Next
    <3>3. len' <= MaxCap /\ Bindings(block', len', bound')
      BY <1>a, <2>1, <2>2, <2>4, <3>1, AppendKeepsBindings
    <3> QED
      BY <2>3, <3>2, <3>3 DEF EnvIInv
  <2>5. CASE Places(NameOf[v]) # {}
    <3>1. PICK p \in Places(NameOf[v]) : TRUE
      BY <2>5
    <3>2. p \in 1 .. len /\ NameOf[block[p]] = NameOf[v] /\ Min(Places(NameOf[v])) = p
      BY <1>a, <2>1, <3>1, OnePlace
    <3>3. Set(p - 1, v) /\ p - 1 \in 0 .. MaxCap
      BY <1>a, <1>3, <2>1, <2>5, <3>2 DEF FtEnv_Set
    <3>4. IInv'
      BY <1>a, <3>3, StepIInv DEF Next
    <3>5. len' = len /\ Bindings(block', len, bound')
      BY <1>a, <2>1, <2>2, <3>2, <3>3, SetKeepsBindings
    <3> QED
      BY <2>1, <2>3, <3>4, <3>5 DEF EnvIInv
  <2> QED
    BY <2>4, <2>5
<1> QED
  BY <1>1, <1>2, <1>3 DEF EnvNext

\* For any bindings and any capacity FtEnv_Find returns what FtEnv_Set was
\* last given for the name, and finds no name that was not set.
THEOREM EnvFindReturnsBound == EnvSpec => []FindReturnsBound
<1>1. EnvIInv => FindReturnsBound
  <2> SUFFICES ASSUME EnvIInv, use = "env", NEW n \in Names
               PROVE  FtEnv_Find(n) = bound[n]
    BY DEF FindReturnsBound
  <2>1. Bindings(block, len, bound) /\ len \in Nat
    BY IInvFacts DEF EnvIInv
  <2>2. CASE Places(n) = {}
    BY <2>1, <2>2 DEF Bindings, Places, FtEnv_Find
  <2>3. ASSUME NEW p \in Places(n) PROVE FtEnv_Find(n) = bound[n]
    <3>1. p \in 1 .. len /\ NameOf[block[p]] = n /\ Min(Places(n)) = p
      BY <2>1, <2>3, OnePlace
    <3> QED
      BY <2>1, <2>3, <3>1 DEF Bindings, FtEnv_Find
  <2> QED
    BY <2>2, <2>3
<1> QED
  BY <1>1, InitEnvIInv, StepEnvIInv, PTL DEF EnvSpec
==============================================================================
