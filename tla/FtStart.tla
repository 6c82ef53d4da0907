------------------------------- MODULE FtStart -------------------------------
(***************************************************************************)
(* How the object module of VM/Ft_object.c starts: FtObj_Init calls        *)
(* call_once, whose callback makes the list of retired caches, a condition *)
(* variable, two mutexes and the cleanup thread, which uses them at once.  *)
(*                                                                         *)
(* A thread that has been through FtObj_Init may send messages, and so     *)
(* retire a cache.  The callback looks at no result: what it could not     *)
(* make is used all the same.                                              *)
(***************************************************************************)
EXTENDS TtCallOnce, Sequences

CONSTANT MayFail   \* what the system may fail to make here

VARIABLES
  inits,    \* how many statements of the callback are done
  failed,   \* what could not be made
  used,     \* what any thread has used
  ready,    \* threads that have been through FtObj_Init
  cleaner   \* where the cleanup thread is

startVars == <<inits, failed, used, ready, cleaner>>
allVars == <<vars, startVars>>

\* Mutant of Inits: the thread is created first.
InitsThreadFirst ==
  <<"cleanupThread", "cachesToFree", "cleanupCondition", "cleanupConditionMutex", "cachesToFreeMutex">>

\* once_InitObjectModule.
Inits ==
  <<"cachesToFree", "cleanupCondition", "cleanupConditionMutex", "cachesToFreeMutex", "cleanupThread">>

ASSUME StartAssumption == MayFail \subseteq {Inits[i] : i \in DOMAIN Inits}

StartInit ==
  /\ Init
  /\ inits = 0 /\ failed = {} /\ used = {} /\ ready = {}
  /\ cleaner = "none"

\* FtObj_Init calls call_once, every time, and goes on when that returns.
FtObj_Init(t) == Call(t) /\ UNCHANGED startVars

\* A callback that begins starts with its first statement.
InCallOnce(t) ==
  /\ Step(t)
  /\ pc[t] = "running" => inits = Len(Inits)
  /\ inits' = IF pc'[t] = "running" THEN 0 ELSE inits
  /\ ready' = IF pc'[t] = "out" THEN ready \cup {t} ELSE ready
  /\ UNCHANGED <<failed, used, cleaner>>

\* One statement of the callback.
InitObjectModule(t) ==
  /\ pc[t] = "running" /\ inits < Len(Inits)
  /\ inits' = inits + 1
  /\ LET what == Inits[inits + 1]
     IN \/ /\ cleaner' = IF what = "cleanupThread" THEN "new" ELSE cleaner
           /\ UNCHANGED failed
        \/ /\ what \in MayFail
           /\ failed' = failed \cup {what}
           /\ UNCHANGED cleaner
  /\ UNCHANGED <<vars, used, ready>>

Uses(what) == used' = used \cup what

\* FtObj_SendMsg puts a cache on the list and signals.
RetireCache(t) ==
  /\ pc[t] = "out" /\ t \in ready
  /\ Uses({"cachesToFreeMutex", "cachesToFree", "cleanupCondition"})
  /\ UNCHANGED <<vars, inits, failed, ready, cleaner>>

\* thread_CacheCleanup.
CleanerWaits ==
  /\ cleaner \in {"new", "scan"}
  /\ cleaner' = "wait"
  /\ Uses({"cleanupCondition", "cleanupConditionMutex"})
  /\ UNCHANGED <<vars, inits, failed, ready>>

CleanerScans ==
  /\ cleaner = "wait"
  /\ cleaner' = "scan"
  /\ Uses({"cachesToFreeMutex", "cachesToFree"})
  /\ UNCHANGED <<vars, inits, failed, ready>>

Inside(t) == InCallOnce(t) \/ InitObjectModule(t)

StartNext ==
  \/ \E t \in Threads : FtObj_Init(t) \/ Inside(t) \/ RetireCache(t)
  \/ CleanerWaits \/ CleanerScans

StartSpec == StartInit /\ [][StartNext]_allVars

\* Every thread inside call_once is scheduled.
FairStartSpec == StartSpec /\ \A t \in Threads : WF_allVars(Inside(t))

------------------------------------------------------------------------------
(* Properties                                                               *)

\* No thread, and the cleanup thread neither, uses the list, the condition
\* variable or a mutex before it was made, or has one made anew under its
\* hands, whichever thread runs the callback; what the system failed to make
\* is the exception, since nobody looks at the results.
InitBeforeUse == used \subseteq failed \cup {Inits[i] : i \in 1 .. inits}
==============================================================================
