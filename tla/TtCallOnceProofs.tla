--------------------------- MODULE TtCallOnceProofs ---------------------------
(***************************************************************************)
(* call_once implements Once, for any set of threads.                      *)
(*                                                                         *)
(* The argument: at most one thread is past the compare-and-exchange, and  *)
(* where it is determines the status, the lock and the phase.  A thread    *)
(* that lost enters the lock only at status 2 or 3, when the winner has    *)
(* made the lock and taken it; so it can never keep the winner out, and    *)
(* it finds status 3 after it was in the lock.                             *)
(*                                                                         *)
(* FtStart takes the steps of call_once and makes something in each step   *)
(* of the callback; what it has made follows from the phase, and a thread  *)
(* that uses it has returned from call_once, which is after the phase.     *)
(***************************************************************************)
EXTENDS FtStart, TLAPS

\* What the place of the winner says about the flag.
WinnerInv(t) ==
  /\ pc[t] = "make" => status = 1 /\ lock = NoLock /\ phase = "new"
  /\ pc[t] = "own" => status = 1 /\ lock = Unlocked /\ phase = "new"
  /\ pc[t] = "publish" => status = 1 /\ lock = t /\ phase = "new"
  /\ pc[t] = "func" => status = 2 /\ lock = t /\ phase = "new"
  /\ pc[t] = "running" => status = 2 /\ lock = t /\ phase = "begun"
  /\ pc[t] = "finish" => status = 2 /\ lock = t /\ phase = "done"
  /\ pc[t] = "disown" => status = 3 /\ lock = t /\ phase = "done"

\* What the place of a thread that lost says about the flag.
LoserInv(t) ==
  /\ pc[t] = "enter" => status >= 2
  /\ pc[t] = "leave" => status >= 2 /\ lock = t

FlagInv ==
  /\ status = 0 => phase = "new" /\ lock = NoLock /\ \A t \in Threads : pc[t] \notin Winning
  /\ status >= 2 => lock # NoLock
  /\ status = 3 => phase = "done"

OneWinner ==
  \A t, u \in Threads : pc[t] \in Winning /\ pc[u] \in Winning => t = u

IInv ==
  /\ TypeOK
  /\ OneWinner
  /\ FlagInv
  /\ \A t \in Threads : WinnerInv(t) /\ LoserInv(t)

LEMMA InitIInv == Init => IInv
  BY OnceAssumption DEF Init, IInv, TypeOK, OneWinner, FlagInv, WinnerInv, LoserInv, Winning

LEMMA StepIInv == IInv /\ [Next]_vars => IInv'
<1> SUFFICES ASSUME IInv, [Next]_vars PROVE IInv'
  OBVIOUS
<1> USE OnceAssumption DEF IInv, TypeOK, OneWinner, FlagInv, WinnerInv, LoserInv, Winning, Goto
<1>1. CASE UNCHANGED vars
  BY <1>1 DEF vars
<1>2. ASSUME NEW t \in Threads, Call(t) \/ Step(t) PROVE IInv'
  <2>1. CASE Call(t)  BY <2>1 DEF Call
  <2>2. CASE TestLoop(t)  BY <2>2 DEF TestLoop
  <2>3. CASE TestReturn(t)  BY <2>3 DEF TestReturn
  <2>4. CASE Switch(t)  BY <2>4 DEF Switch
  <2>5. CASE CasWin(t)  BY <2>5 DEF CasWin
  <2>6. CASE CasLose(t)  BY <2>6 DEF CasLose
  <2>7. CASE MakeLock(t)  BY <2>7 DEF MakeLock
  <2>8. CASE OwnLock(t)  BY <2>8 DEF OwnLock
  <2>9. CASE Publish(t)  BY <2>9 DEF Publish
  <2>10. CASE Begin(t)  BY <2>10 DEF Begin
  <2>11. CASE End(t)  BY <2>11 DEF End
  <2>12. CASE Finish(t)  BY <2>12 DEF Finish
  <2>13. CASE Disown(t)  BY <2>13 DEF Disown
  <2>14. CASE Enter(t)  BY <2>14 DEF Enter
  <2>15. CASE Leave(t)  BY <2>15 DEF Leave
  <2> QED
    BY <1>2, <2>1, <2>2, <2>3, <2>4, <2>5, <2>6, <2>7, <2>8, <2>9, <2>10,
       <2>11, <2>12, <2>13, <2>14, <2>15 DEF Step
<1> QED
  BY <1>1, <1>2 DEF Next

\* The inductive invariant: one winner, whose place determines the flag.
THEOREM OnceInvariant == Spec => []IInv
  BY InitIInv, StepIInv, PTL DEF Spec

\* call_once is type correct for any set of threads.
THEOREM OnceTypeCorrect == Spec => []TypeOK
<1>1. IInv => TypeOK
  BY DEF IInv
<1> QED
  BY <1>1, OnceInvariant, PTL

\* The critical section of a flag is initialised once and before any thread
\* enters it, and no loser is in it before the winner has been.
THEOREM OnceLockReady == Spec => []LockReady
<1>1. IInv => LockReady
  BY OnceAssumption DEF IInv, TypeOK, FlagInv, WinnerInv, LoserInv, LockReady
<1> QED
  BY <1>1, OnceInvariant, PTL

------------------------------------------------------------------------------

LEMMA InitAbstract == Init => Abstract!Init
  BY DEF Init, Abstract!Init

LEMMA StepAbstract == IInv /\ [Next]_vars => [Abstract!Next]_(Abstract!vars)
<1> DEFINE Place(p) == IF p \in {"out", "running"} THEN p ELSE "in"
           caller == [u \in Threads |-> Place(pc[u])]
<1> SUFFICES ASSUME IInv, [Next]_vars PROVE [Abstract!Next]_(Abstract!vars)
  OBVIOUS
<1>0. pc \in [Threads -> Winning \cup {"out", "test", "switch", "cas", "enter", "leave"}]
  BY DEF IInv, TypeOK
\* A step of t from one place to another moves the caller likewise.
<1>1. ASSUME NEW t \in Threads, NEW p, NEW q, Goto(t, p, q)
      PROVE /\ caller[t] = Place(p)
            /\ caller' = [caller EXCEPT ![t] = Place(q)]
            /\ Place(p) = Place(q) => caller' = caller
  BY <1>0, <1>1 DEF Goto
<1>2. CASE UNCHANGED vars
  BY <1>2 DEF vars, Abstract!vars
<1>3. ASSUME NEW t \in Threads, Call(t) \/ Step(t)
      PROVE [Abstract!Next]_(Abstract!vars)
  <2>1. CASE Call(t)
    BY <2>1, <1>1 DEF Call, Abstract!Next, Abstract!Call
  <2>2. CASE TestReturn(t)
    BY <2>2, <1>1 DEF TestReturn, IInv, FlagInv, Abstract!Next, Abstract!Return
  <2>3. CASE Disown(t)
    BY <2>3, <1>1 DEF Disown, Goto, IInv, WinnerInv, Abstract!Next, Abstract!Return
  <2>4. CASE Begin(t)
    BY <2>4, <1>1 DEF Begin, Goto, IInv, WinnerInv, Abstract!Next, Abstract!Begin
  <2>5. CASE End(t)
    BY <2>5, <1>1 DEF End, Abstract!Next, Abstract!End
  <2>6. CASE TestLoop(t) \/ Switch(t) \/ CasWin(t) \/ CasLose(t) \/ MakeLock(t)
             \/ OwnLock(t) \/ Publish(t) \/ Finish(t) \/ Enter(t) \/ Leave(t)
    <3>1. \E p, q : Goto(t, p, q) /\ Place(p) = Place(q)
      BY <2>6 DEF TestLoop, Switch, CasWin, CasLose, MakeLock, OwnLock,
         Publish, Finish, Enter, Leave
    <3>2. caller' = caller
      BY <3>1, <1>1
    <3>3. phase' = phase
      BY <2>6 DEF TestLoop, Switch, CasWin, CasLose, MakeLock, OwnLock,
         Publish, Finish, Enter, Leave
    <3> QED
      BY <3>2, <3>3 DEF Abstract!vars
  <2> QED
    BY <1>3, <2>1, <2>2, <2>3, <2>4, <2>5, <2>6 DEF Step
<1> QED
  BY <1>2, <1>3 DEF Next

\* call_once implements Once: the callback is invoked exactly once, whoever
\* calls and however the calls interleave, and every call returns after it.
THEOREM CallOnceImplementsOnce == Spec => AbstractSpec
  BY InitAbstract, StepAbstract, OnceInvariant, PTL DEF Spec, AbstractSpec, Abstract!Spec

------------------------------------------------------------------------------
(* The callback of FtObj_Init                                               *)

\* Until the last statement of the callback, which creates the cleanup
\* thread, nobody is past FtObj_Init and nothing has been used; the callback
\* begins once and returns when it is through with its statements.
StartInv ==
  /\ inits \in 0 .. Len(Inits)
  /\ used \subseteq {Inits[i] : i \in DOMAIN Inits}
  /\ inits < Len(Inits) => used = {} /\ ready = {} /\ cleaner = "none"
  /\ phase = "new" => inits = 0
  /\ phase = "done" => inits = Len(Inits)

\* What the callback makes.
LEMMA InitsFacts ==
  /\ Len(Inits) = 5 /\ DOMAIN Inits = 1 .. 5
  /\ Inits[5] = "cleanupThread"
  /\ \A i \in 1 .. 4 : Inits[i] # "cleanupThread"
  /\ {Inits[i] : i \in DOMAIN Inits} =
       {"cachesToFree", "cleanupCondition", "cleanupConditionMutex",
        "cachesToFreeMutex", "cleanupThread"}
<1>1. /\ Len(Inits) = 5 /\ DOMAIN Inits = 1 .. 5
      /\ Inits[1] = "cachesToFree" /\ Inits[2] = "cleanupCondition"
      /\ Inits[3] = "cleanupConditionMutex" /\ Inits[4] = "cachesToFreeMutex"
      /\ Inits[5] = "cleanupThread"
  BY DEF Inits
<1>2. \A i \in 1 .. 5 : i = 1 \/ i = 2 \/ i = 3 \/ i = 4 \/ i = 5
  OBVIOUS
<1>3. \A i \in 1 .. 4 : i = 1 \/ i = 2 \/ i = 3 \/ i = 4
  OBVIOUS
<1>4. \A i \in 1 .. 4 : Inits[i] # "cleanupThread"
  BY <1>1, <1>3
<1>5. {Inits[i] : i \in 1 .. 5} =
        {"cachesToFree", "cleanupCondition", "cleanupConditionMutex",
         "cachesToFreeMutex", "cleanupThread"}
  BY <1>1, <1>2
<1> QED
  BY <1>1, <1>4, <1>5

\* FtObj_Init takes the steps of call_once, and the callback none of them.
LEMMA StartStepsOnce == StartNext => [Next]_vars
  BY DEF StartNext, FtObj_Init, Inside, InCallOnce, InitObjectModule, RetireCache,
         CleanerWaits, CleanerScans, Next, vars

\* Where a step of call_once takes a thread, and with it the callback.
LEMMA StepPhases ==
  ASSUME IInv, NEW t \in Threads, Step(t)
  PROVE  /\ pc'[t] = "running" => phase = "new" /\ phase' = "begun"
         /\ pc'[t] # "running" =>
              \/ phase' = phase
              \/ pc[t] = "running" /\ phase' = "done"
         /\ pc'[t] = "out" => phase = "done" /\ phase' = "done"
<1> USE DEF IInv, TypeOK, Goto
<1>1. CASE Begin(t)
  BY <1>1 DEF Begin, WinnerInv, Winning
<1>2. CASE End(t)
  BY <1>2 DEF End, Winning
<1>3. CASE TestReturn(t) \/ Disown(t)
  BY <1>3 DEF TestReturn, Disown, WinnerInv, FlagInv, Winning
<1>4. CASE TestLoop(t) \/ Switch(t) \/ CasWin(t) \/ CasLose(t) \/ MakeLock(t)
           \/ OwnLock(t) \/ Publish(t) \/ Finish(t) \/ Enter(t) \/ Leave(t)
  BY <1>4 DEF TestLoop, Switch, CasWin, CasLose, MakeLock, OwnLock, Publish,
              Finish, Enter, Leave, Winning
<1> QED
  BY <1>1, <1>2, <1>3, <1>4 DEF Step

LEMMA InitStartInv == StartInit => StartInv
  BY InitsFacts DEF StartInit, Init, StartInv

LEMMA StepStartInv == IInv /\ StartInv /\ [StartNext]_allVars => StartInv'
<1> SUFFICES ASSUME IInv, StartInv, [StartNext]_allVars PROVE StartInv'
  OBVIOUS
<1>1. CASE UNCHANGED allVars
  BY <1>1 DEF allVars, vars, startVars, StartInv
<1>2. ASSUME NEW t \in Threads, FtObj_Init(t) PROVE StartInv'
  BY <1>2 DEF FtObj_Init, Call, startVars, StartInv
<1>3. ASSUME NEW t \in Threads, InCallOnce(t) PROVE StartInv'
  <2>1. /\ Step(t) /\ UNCHANGED <<failed, used, cleaner>>
        /\ pc[t] = "running" => inits = Len(Inits)
        /\ inits' = IF pc'[t] = "running" THEN 0 ELSE inits
        /\ ready' = IF pc'[t] = "out" THEN ready \cup {t} ELSE ready
    BY <1>3 DEF InCallOnce
  <2>2. CASE pc'[t] = "running"
    BY <2>1, <2>2, StepPhases, InitsFacts DEF StartInv
  <2>3. CASE pc'[t] = "out"
    BY <2>1, <2>3, StepPhases DEF StartInv
  <2>4. CASE pc'[t] \notin {"running", "out"}
    BY <2>1, <2>4, StepPhases DEF StartInv
  <2> QED
    BY <2>2, <2>3, <2>4
<1>4. ASSUME NEW t \in Threads, InitObjectModule(t) PROVE StartInv'
  <2>1. /\ inits < Len(Inits) /\ inits' = inits + 1 /\ phase' = phase
        /\ UNCHANGED <<used, ready>>
        /\ cleaner' = cleaner \/ Inits[inits + 1] = "cleanupThread"
        /\ phase = "begun"
    BY <1>4 DEF InitObjectModule, vars, IInv, WinnerInv
  <2>2. cleaner' = cleaner \/ inits' = Len(Inits)
    BY <2>1, InitsFacts DEF StartInv
  <2> QED
    BY <2>1, <2>2, InitsFacts DEF StartInv
<1>5. CASE CleanerWaits \/ CleanerScans \/ \E t \in Threads : RetireCache(t)
  <2>1. /\ UNCHANGED <<vars, inits, ready>>
        /\ cleaner # "none" \/ ready # {}
        /\ \E what \in SUBSET {"cachesToFree", "cleanupCondition",
                               "cleanupConditionMutex", "cachesToFreeMutex"} :
             used' = used \cup what
    BY <1>5 DEF CleanerWaits, CleanerScans, RetireCache, Uses
  <2>2. inits = Len(Inits) /\ phase' = phase /\ inits' = inits
    BY <2>1, InitsFacts DEF StartInv, vars
  <2> QED
    BY <2>1, <2>2, InitsFacts DEF StartInv
<1> QED
  BY <1>1, <1>2, <1>3, <1>4, <1>5 DEF StartNext, Inside

\* No thread, the cleanup thread included, uses what the callback of
\* FtObj_Init makes before it was made, nor while the callback runs a second
\* time: whichever thread runs it, the others wait in call_once, and the
\* thread it creates is created last (Ft_object.c:35-44).
THEOREM StartInitBeforeUse == StartSpec => []InitBeforeUse
<1>1. StartInit => IInv /\ StartInv
  BY InitIInv, InitStartInv DEF StartInit
<1>2. IInv /\ StartInv /\ [StartNext]_allVars => (IInv /\ StartInv)'
  <2>1. [StartNext]_allVars => [Next]_vars
    BY StartStepsOnce DEF allVars
  <2> QED
    BY <2>1, StepIInv, StepStartInv
<1>3. StartInv => InitBeforeUse
  BY InitsFacts DEF StartInv, InitBeforeUse
<1> QED
  BY <1>1, <1>2, <1>3, PTL DEF StartSpec
==============================================================================
