------------------------------- MODULE FtObject -------------------------------
(***************************************************************************)
(* The life of the objects of one class: FtObj_Init, FtObj_AddHandler,     *)
(* _FtObj_INCREF and _FtObj_DECREF of VM/Ft_object.c on top of the class's *)
(* pool, FtMemPool.                                                        *)
(*                                                                         *)
(* A handle of FtMemPool is the identity of one object, from FtObj_Init to *)
(* the FtMemPool_Free that ends it.  The fields of an object are memory of *)
(* its cell and outlive it: a cell that is handed out again is handed out  *)
(* as it was left.  Threads own references.  The two atomic operations of  *)
(* _FtObj_DECREF are two steps; the pool, which no lock protects, is       *)
(* entered by one thread at a time.                                        *)
(*                                                                         *)
(* The array of an object's handlers has capacity 0 from the zeroed memory *)
(* of its cell, and 0 doubled is 0: FtArr_AppendZeroed has every handler   *)
(* written behind the array's block.  Either nobody else uses that memory, *)
(* or the behaviour is undefined from there on, and the model stops.       *)
(***************************************************************************)
EXTENDS FtMemPool, FiniteSetsExt

CONSTANTS
  Threads,       \* the threads that own references
  MaxRefs,       \* bound of the model on the references to one object
  MaxHandlers    \* bound of the model on the handlers of one object

ASSUME ObjectAssumption == MaxRefs \in Nat \ {0} /\ MaxHandlers \in Nat

VARIABLES
  mem,    \* the fields of the object in each cell
  refs,   \* refs[t][h]: the references to h thread t owns
  pc,     \* what each thread is doing in _FtObj_DECREF, to which object
  undefined  \* is the behaviour of the program undefined from here on?

vars == <<allocVars, mem, refs, pc, undefined>>

Idle == [at |-> "idle", obj |-> NoSlot, cell |-> 0]

\* The pool array is zeroed memory.
Init ==
  /\ PoolInit
  /\ mem = [c \in 0 .. MaxSlots - 1 |->
              [refCnt |-> 0, handlers |-> 0, sized |-> FALSE, poolIdx |-> 0]]
  /\ refs = [t \in Threads |-> [h \in Handles |-> 0]]
  /\ pc = [t \in Threads |-> Idle]
  /\ undefined = FALSE

\* The references to h all threads own together.
References(h) == MapThenSumSet(LAMBDA t : refs[t][h], Threads)

\* Mutant of New: the count is left as the memory of the cell has it.
NewKeepsCount(t, h) ==
  /\ ~undefined
  /\ pc[t] = Idle
  /\ References(h) = 0
  /\ \A u \in Threads : pc[u].obj # h
  /\ Alloc(h)
  /\ LET c == cellOf'[h].cell
     IN mem' = [mem EXCEPT ![c] = [refCnt |-> mem[c].refCnt, handlers |-> mem[c].handlers,
                                   sized |-> TRUE, poolIdx |-> idxOf'[h]]]
  /\ refs' = [refs EXCEPT ![t][h] = 1]
  /\ UNCHANGED <<pc, undefined>>

\* FtObj_Init.  The handlers keep whatever length they had.
New(t, h) ==
  /\ ~undefined
  /\ pc[t] = Idle
  /\ References(h) = 0
  /\ \A u \in Threads : pc[u].obj # h
  /\ Alloc(h)
  /\ LET c == cellOf'[h].cell
     IN mem' = [mem EXCEPT ![c] = [refCnt |-> 1, handlers |-> mem[c].handlers,
                                   sized |-> TRUE, poolIdx |-> idxOf'[h]]]
  /\ refs' = [refs EXCEPT ![t][h] = 1]
  /\ UNCHANGED <<pc, undefined>>

\* A thread uses an object through a reference it owns.
Uses(t, h) ==
  ~undefined /\ pc[t] = Idle /\ refs[t][h] > 0 /\ idxOf[h] # NoSlot

AddHandler(t, h) ==
  /\ Uses(t, h)
  /\ mem[cellOf[h].cell].handlers < MaxHandlers
  /\ mem' = [mem EXCEPT ![cellOf[h].cell].handlers = @ + 1]
  /\ undefined' \in BOOLEAN
  /\ UNCHANGED <<allocVars, refs, pc>>

\* _FtObj_INCREF; the new reference is the caller's, or another thread's it
\* hands the object to.
IncRef(t, u, h) ==
  /\ Uses(t, h)
  /\ References(h) < MaxRefs
  /\ mem' = [mem EXCEPT ![cellOf[h].cell].refCnt = @ + 1]
  /\ refs' = [refs EXCEPT ![u][h] = @ + 1]
  /\ UNCHANGED <<allocVars, pc, undefined>>

\* _FtObj_DECREF: atomic_fetch_sub.  The thread's reference is gone.
DecRef(t, h) ==
  /\ Uses(t, h)
  /\ mem' = [mem EXCEPT ![cellOf[h].cell].refCnt = @ - 1]
  /\ refs' = [refs EXCEPT ![t][h] = @ - 1]
  /\ pc' = [pc EXCEPT ![t] = [at |-> "load", obj |-> h, cell |-> cellOf[h].cell]]
  /\ UNCHANGED <<allocVars, undefined>>

\* atomic_load: a second access, after others may have changed the count.
LoadNonZero(t) ==
  /\ ~undefined
  /\ pc[t].at = "load"
  /\ mem[pc[t].cell].refCnt # 0
  /\ pc' = [pc EXCEPT ![t] = Idle]
  /\ UNCHANGED <<allocVars, mem, refs, undefined>>

\* Mutant of LoadZero: a count of zero is not acted on.
LoadZeroIgnored(t) ==
  /\ ~undefined
  /\ pc[t].at = "load"
  /\ mem[pc[t].cell].refCnt = 0
  /\ pc' = [pc EXCEPT ![t] = Idle]
  /\ UNCHANGED <<allocVars, mem, refs, undefined>>

LoadZero(t) ==
  /\ ~undefined
  /\ pc[t].at = "load"
  /\ mem[pc[t].cell].refCnt = 0
  /\ pc' = [pc EXCEPT ![t].at = "release"]
  /\ UNCHANGED <<allocVars, mem, refs, undefined>>

\* Mutant of Release: the length of the handlers is not reset.
ReleaseKeepsHandlers(t) ==
  LET c == pc[t].cell
  IN /\ ~undefined
     /\ pc[t].at = "release"
     /\ FreeBit(mem[c].poolIdx)
     /\ idxOf' = [idxOf EXCEPT ![pc[t].obj] = NoSlot]
     /\ cellOf' = [cellOf EXCEPT ![pc[t].obj] = NoSlot]
     /\ pc' = [pc EXCEPT ![t] = Idle]
     /\ UNCHANGED <<pool, mem, refs, undefined>>

\* The object in the cell goes back to the pool under the index it recorded.
Release(t) ==
  LET c == pc[t].cell
  IN /\ ~undefined
     /\ pc[t].at = "release"
     /\ mem' = [mem EXCEPT ![c].handlers = 0]
     /\ FreeBit(mem[c].poolIdx)
     /\ idxOf' = [idxOf EXCEPT ![pc[t].obj] = NoSlot]
     /\ cellOf' = [cellOf EXCEPT ![pc[t].obj] = NoSlot]
     /\ pc' = [pc EXCEPT ![t] = Idle]
     /\ UNCHANGED <<pool, refs, undefined>>

Decrement(t) == LoadNonZero(t) \/ LoadZero(t) \/ Release(t)

Next ==
  \E t \in Threads :
    \/ \E h \in Handles : New(t, h) \/ AddHandler(t, h) \/ DecRef(t, h)
    \/ \E u \in Threads, h \in Handles : IncRef(t, u, h)
    \/ Decrement(t)

Spec == Init /\ [][Next]_vars

\* A thread inside _FtObj_DECREF keeps running.
FairSpec == Spec /\ \A t \in Threads : WF_vars(Decrement(t))

------------------------------------------------------------------------------
(* Properties                                                               *)

\* Type correctness.
TypeOK ==
  /\ PoolTypeOK
  /\ mem \in [0 .. MaxSlots - 1 ->
                [refCnt : 0 .. MaxRefs, handlers : 0 .. MaxHandlers,
                 sized : BOOLEAN, poolIdx : Nat]]
  /\ refs \in [Threads -> [Handles -> 0 .. MaxRefs]]
  /\ pc \in [Threads -> [at : {"idle", "load", "release"},
                         obj : Handles \cup {NoSlot}, cell : 0 .. MaxSlots - 1]]
  /\ undefined \in BOOLEAN

\* The count in an object's memory is the number of references the threads
\* own, and an object with references has not been given back to the pool:
\* its slot is its own and the pool's bit for it is clear.  Type correctness
\* is part of it.
CountsReferences ==
  /\ TypeOK
  /\ \A h \in Handles : References(h) > 0 =>
       /\ idxOf[h] # NoSlot
       /\ mem[cellOf[h].cell].refCnt = References(h)
       /\ mem[cellOf[h].cell].poolIdx = idxOf[h]
       /\ idxOf[h] % WordBits \notin Word(idxOf[h] \div WordBits)

\* FtObj_Init hands out objects without handlers, though it leaves the
\* length of the handlers as it finds it in the memory: the comment at
\* Ft_object.c:51 counts on what is there.
NewObjectHasNoHandlers ==
  [][ \A h \in Handles :
        idxOf[h] = NoSlot /\ idxOf'[h] # NoSlot =>
          mem'[cellOf'[h].cell].handlers = 0 ]_vars

\* An object whose last reference is gone is given back to the pool, unless
\* a handler was written over memory that somebody else uses meanwhile.
NothingLeaks ==
  \A h \in Handles :
    (idxOf[h] # NoSlot /\ References(h) = 0) ~> (idxOf[h] = NoSlot \/ undefined)
==============================================================================
