------------------------------- MODULE FtIntObj -------------------------------
(***************************************************************************)
(* Integer objects (NativeObjects/Ft_IntObj.c) as main.c uses them: it     *)
(* makes them, sends them +, drops them, and copies some of them into an   *)
(* array, from which it drops them later.                                  *)
(*                                                                         *)
(* An integer is a field of its object and so memory of the pool's cell.   *)
(* A copy is a struct of its own outside of the pool: what is done with    *)
(* it leaves the object it was copied from as it was, and the program has  *)
(* only the copy from then on.  The + of a message without an argument, or *)
(* with one of another class, sets the error code and makes no object.     *)
(***************************************************************************)
EXTENDS FtObject

CONSTANT IntMod   \* integers are taken modulo this, 2^32 or 2^64 in the code

ASSUME IntAssumption == IntMod \in Nat \ {0}

VARIABLES
  value,    \* the integer in each cell
  number,   \* the integer the program made each object with
  copied    \* objects the program has only a copy of

intVars == <<value, number, copied>>
allVars == <<vars, intVars>>

Ints == 0 .. IntMod - 1

IntInit ==
  /\ Init
  /\ value = [c \in 0 .. MaxSlots - 1 |-> 0]
  /\ number = [h \in Handles |-> 0]
  /\ copied = {}

\* Mutant of Made: the value is set only by the constructor, to 0.
MadeZero(h, v) ==
  /\ value' = [value EXCEPT ![cellOf'[h].cell] = 0]
  /\ number' = [number EXCEPT ![h] = v]

\* What FtIntObj_Init and the constructor leave in a new object.
Made(h, v) ==
  /\ value' = [value EXCEPT ![cellOf'[h].cell] = v]
  /\ number' = [number EXCEPT ![h] = v]

FtIntObj_Init(t, h, v) ==
  /\ New(t, h)
  /\ Made(h, v)
  /\ UNCHANGED copied

\* A live object, which the program uses through its pointer.
Reaches(t, h) == Uses(t, h) /\ h \notin copied

ValueOf(h) == value[cellOf[h].cell]

\* The sum is what the two cells hold; the program expects that of the
\* numbers.
handle_plus(t, self, other, h) ==
  /\ Reaches(t, self) /\ Reaches(t, other)
  /\ New(t, h)
  /\ value' = [value EXCEPT ![cellOf'[h].cell] = (ValueOf(self) + ValueOf(other)) % IntMod]
  /\ number' = [number EXCEPT ![h] = (number[self] + number[other]) % IntMod]
  /\ UNCHANGED copied

\* main.c copies an object that nobody else refers to, without handlers.
Copy(t, h) ==
  /\ Reaches(t, h)
  /\ mem[cellOf[h].cell].refCnt = 1 /\ mem[cellOf[h].cell].handlers = 0
  /\ copied' = copied \cup {h}
  /\ UNCHANGED <<vars, value, number>>

\* _FtObj_DECREF of the copy: its own count goes to zero, and the slot whose
\* index it holds is freed.  The object there keeps its count.
DropCopy(t, h) ==
  /\ Uses(t, h) /\ h \in copied
  /\ copied' = copied \ {h}
  /\ FreeBit(mem[cellOf[h].cell].poolIdx)
  /\ idxOf' = [idxOf EXCEPT ![h] = NoSlot]
  /\ cellOf' = [cellOf EXCEPT ![h] = NoSlot]
  /\ refs' = [refs EXCEPT ![t][h] = 0]
  /\ UNCHANGED <<pool, mem, pc, undefined, value, number>>

\* What FtObject does with objects that were not copied.
Shared(t) ==
  /\ \/ \E h \in Handles : Reaches(t, h) /\ (AddHandler(t, h) \/ DecRef(t, h))
     \/ \E u \in Threads, h \in Handles : Reaches(t, h) /\ IncRef(t, u, h)
     \/ Decrement(t)
  /\ UNCHANGED intVars

IntNext ==
  \E t \in Threads :
    \/ \E h \in Handles, v \in Ints : FtIntObj_Init(t, h, v)
    \/ \E self, other, h \in Handles : handle_plus(t, self, other, h)
    \/ \E h \in Handles : Copy(t, h) \/ DropCopy(t, h)
    \/ Shared(t)

IntSpec == IntInit /\ [][IntNext]_allVars

\* A thread inside _FtObj_DECREF keeps running.
FairIntSpec == IntSpec /\ \A t \in Threads : WF_allVars(Decrement(t) /\ UNCHANGED intVars)

------------------------------------------------------------------------------
(* Properties                                                               *)

\* An integer that the program has a reference to is the number it was made
\* with, or the sum it was computed as, whatever was made, freed, copied and
\* made anew in the same memory meanwhile.
IntegersKeepValue == \A h \in Handles : References(h) > 0 => ValueOf(h) = number[h]
==============================================================================
