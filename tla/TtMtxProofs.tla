----------------------------- MODULE TtMtxProofs -----------------------------
(***************************************************************************)
(* Mutexes: one thread at a time holds a mutex of any kind, for any number *)
(* of threads, and once unless the mutex is recursive.                     *)
(*                                                                         *)
(* The argument: a thread that was granted the mutex, or is between the    *)
(* system's lock and the flag, owns the system's lock, which has one       *)
(* owner.  The flag is set while a mutex that is not recursive is held,    *)
(* and only the owner of the system's lock tests it.                       *)
(*                                                                         *)
(* The same holds in both builds of mtx_timedlock.  Where it polls, the    *)
(* mutex is the system's.                                                  *)
(*                                                                         *)
(* Condition variables: the count of waiters misses none, for any number   *)
(* of waiters and callers, and one waiter loses no wakeup. What is owed to *)
(* it is on its way until the waiter has it.                               *)
(*                                                                         *)
(* Time limits: what a wait ends at is the time limit, rounded to          *)
(* milliseconds, for any limits and clock that ClockAssumption admits. The *)
(* wait of each thread keeps the times it was computed from, and the rest  *)
(* is arithmetic.                                                          *)
(***************************************************************************)
EXTENDS MCTtMtx, TtCndTime, FiniteSetTheorems, TLAPS

Places ==
  {"out", "lock", "mark", "timedlock", "timedmark", "try", "leave", "ended", "sleep"}

\* Thread t has entered the system's lock once more than it was granted.
Inside(t) == pc[t] \in {"mark", "timedmark", "try", "leave"}
Entries(t) == held[t] + (IF Inside(t) THEN 1 ELSE 0)

Shape ==
  /\ kind \in Kinds /\ kind \subseteq {"timed", "recursive"}
  /\ abandoned \in BOOLEAN /\ already \in BOOLEAN
  /\ owner \in Threads \cup {NoThread} /\ depth \in Nat
  /\ pc \in [Threads -> Places] /\ held \in [Threads -> Nat]
  /\ undefined \in BOOLEAN

\* The system's lock covers what was granted.
Covered ==
  /\ owner = NoThread => depth = 0
  /\ \A t \in Threads :
       /\ held[t] > 0 \/ Inside(t) => owner = t
       /\ owner = t => depth >= Entries(t)

\* The flag of a mutex that is not recursive.
Flagged ==
  ~recursive => \A t \in Threads : held[t] > 0 => held[t] = 1 /\ already = TRUE

\* Nothing else enters the system's lock, if no thread exits with it.
Exact ==
  ~Exited =>
    /\ abandoned = FALSE
    /\ \A t \in Threads : ~undefined /\ owner = t => depth = Entries(t)

IInv == Shape /\ Covered /\ Flagged /\ Exact

LEMMA InitIInv == Init => IInv
<1> SUFFICES ASSUME Init PROVE IInv
  OBVIOUS
<1>1. NoThread \notin Threads /\ kind \subseteq {"timed", "recursive"}
  BY MtxAssumption DEF Init
<1>2. \A t \in Threads : ~Inside(t) /\ held[t] = 0 /\ owner # t
  BY <1>1 DEF Init, Inside
<1>3. \A t \in Threads : Entries(t) = 0
  <2> SUFFICES ASSUME NEW t \in Threads PROVE Entries(t) = 0
    OBVIOUS
  <2>1. ~Inside(t) /\ held[t] = 0
    BY <1>2
  <2> HIDE DEF Inside
  <2> QED
    BY <2>1 DEF Entries
<1>4. Shape
  BY <1>1 DEF Init, Shape, Places
<1>5. Covered /\ Flagged /\ Exact
  BY <1>2, <1>3 DEF Init, Covered, Flagged, Exact
<1> QED
  BY <1>4, <1>5 DEF IInv

\* A thread that exited does not come back.
LEMMA ExitedStays ==
  ASSUME IInv, NEW t \in Threads, NEW to, pc[t] # "ended", pc' = [pc EXCEPT ![t] = to], Exited
  PROVE  Exited'
<1>1. PICK u \in Threads : pc[u] = "ended"
  BY DEF Exited
<1>2. pc'[u] = "ended"
  BY <1>1 DEF IInv, Shape
<1> QED
  BY <1>2 DEF Exited

\* A thread that moves within the functions, and touches nothing else.
LEMMA MoveKeeps ==
  ASSUME IInv, NEW t \in Threads, NEW to \in Places,
         pc' = [pc EXCEPT ![t] = to], ~Inside(t), pc[t] # "ended",
         to \notin {"mark", "timedmark", "try", "leave"},
         UNCHANGED <<kind, owner, depth, abandoned, already, held, undefined>>
  PROVE  IInv'
<1>1. Shape'
  BY DEF IInv, Shape
<1>2. \A u \in Threads : Inside(u)' = Inside(u) /\ held'[u] = held[u] /\ Entries(u)' = Entries(u)
  BY DEF IInv, Shape, Inside, Entries
<1>3. Covered'
  BY <1>2 DEF IInv, Covered
<1>4. Flagged' /\ Exact'
  BY <1>2, ExitedStays DEF IInv, Flagged, Exact, recursive
<1> QED
  BY <1>1, <1>3, <1>4 DEF IInv

\* A thread that the system's lock lets in: it is granted the mutex, or goes
\* on to look at the flag.
LEMMA OwnKeeps ==
  ASSUME IInv, NEW t \in Threads, NEW to \in Places, ~Inside(t), pc[t] # "ended",
         Free(t), Own(t),
         pc' = [pc EXCEPT ![t] = to],
         \/ /\ to \in {"mark", "timedmark", "try"} /\ held' = held
         \/ /\ to = "out" /\ recursive
            /\ held' = [held EXCEPT ![t] = held[t] + 1]
         \/ /\ to = "out" /\ held' = held /\ Exited,
         UNCHANGED <<kind, already, undefined>>
  PROVE  IInv'
<1>a. /\ owner \in {NoThread, t} /\ owner' = t /\ depth' = depth + 1 /\ abandoned' = FALSE
      /\ NoThread \notin Threads /\ depth \in Nat /\ held \in [Threads -> Nat]
      /\ pc \in [Threads -> Places]
  BY MtxAssumption DEF Free, Own, IInv, Shape
<1>1. Shape'
  <2>1. held' \in [Threads -> Nat]
    BY <1>a
  <2>2. pc' \in [Threads -> Places]
    BY <1>a
  <2>3. kind' = kind /\ already' = already /\ undefined' = undefined
    OBVIOUS
  <2>4. depth' \in Nat /\ owner' \in Threads
    BY <1>a
  <2>5. abandoned' \in BOOLEAN
    BY <1>a
  <2> QED
    BY <2>1, <2>2, <2>3, <2>4, <2>5 DEF IInv, Shape
<1>2. \A u \in Threads \ {t} :
        /\ held'[u] = held[u] /\ (Inside(u)' <=> Inside(u))
        /\ held[u] = 0 /\ ~Inside(u)
  BY <1>a DEF IInv, Covered, Inside
<1>3. depth >= held[t] /\ (~Exited /\ ~undefined => depth = held[t])
  <2>1. CASE owner = t
    BY <1>a, <2>1 DEF IInv, Covered, Exact, Entries
  <2>2. CASE owner = NoThread
    <3>1. depth = 0 /\ held[t] = 0
      BY <1>a, <2>2 DEF IInv, Covered
    <3> QED
      BY <3>1
  <2> QED
    BY <1>a, <2>1, <2>2
<1>4. Entries(t)' <= held[t] + 1 /\ (~Exited => Entries(t)' = held[t] + 1)
  BY <1>a DEF Entries, Inside
<1>5. Covered'
  <2>1. \A u \in Threads : held'[u] > 0 \/ Inside(u)' => owner' = u
    BY <1>a, <1>2
  <2>2. depth' >= Entries(t)'
    BY <1>a, <1>3, <1>4 DEF Entries
  <2>3. \A u \in Threads : owner' = u => depth' >= Entries(u)'
    BY <1>a, <2>2
  <2> QED
    BY <1>a, <2>1, <2>3 DEF Covered
<1>6. Flagged'
  <2> SUFFICES ASSUME ~recursive, NEW u \in Threads, held'[u] > 0
               PROVE  held'[u] = 1 /\ already' = TRUE
    BY DEF Flagged, recursive
  <2>1. held' = held
    OBVIOUS
  <2> QED
    BY <2>1 DEF IInv, Flagged
<1>7. Exact'
  <2> SUFFICES ASSUME ~Exited, ~undefined PROVE depth' = Entries(t)'
    BY <1>a, ExitedStays DEF Exact
  <2> QED
    BY <1>a, <1>3, <1>4
<1> QED
  BY <1>1, <1>5, <1>6, <1>7 DEF IInv

\* A thread that finds the flag clear sets it and is granted the mutex.
LEMMA MarkKeeps ==
  ASSUME IInv, NEW t \in Threads, NEW from \in {"mark", "timedmark", "try"}, Mark(t, from)
  PROVE  IInv'
<1>a. /\ pc[t] = from /\ pc' = [pc EXCEPT ![t] = "out"]
      /\ already # TRUE /\ already' = TRUE
      /\ held' = [held EXCEPT ![t] = held[t] + 1]
      /\ kind' = kind /\ owner' = owner /\ depth' = depth /\ abandoned' = abandoned
      /\ undefined' = undefined
  BY DEF Mark, Goto, Grant
<1>b. depth \in Nat /\ held \in [Threads -> Nat] /\ pc \in [Threads -> Places] /\ Inside(t)
  BY <1>a DEF IInv, Shape, Inside
<1>1. Shape'
  BY <1>a, <1>b DEF IInv, Shape, Places
<1>2. \A u \in Threads : Entries(u)' = Entries(u)
  <2>1. Entries(t)' = Entries(t)
    BY <1>a, <1>b DEF Entries, Inside
  <2>2. \A u \in Threads \ {t} : held'[u] = held[u] /\ (Inside(u)' <=> Inside(u))
    BY <1>a, <1>b DEF Inside
  <2> QED
    BY <2>1, <2>2 DEF Entries
<1>3. owner = t
  BY <1>b DEF IInv, Covered
<1>4. \A u \in Threads : held'[u] > 0 \/ Inside(u)' => owner' = u
  <2>1. \A u \in Threads \ {t} : held'[u] = held[u] /\ (Inside(u)' <=> Inside(u))
    BY <1>a, <1>b DEF Inside
  <2> QED
    BY <1>a, <1>3, <2>1 DEF IInv, Covered
<1>5. Covered'
  BY <1>a, <1>2, <1>4 DEF IInv, Covered
<1>6. Flagged'
  <2> SUFFICES ASSUME ~recursive, NEW u \in Threads, held'[u] > 0 PROVE held'[u] = 1
    BY <1>a DEF Flagged, recursive
  <2>1. held[t] = 0
    <3>1. ~(held[t] > 0)
      BY <1>a DEF IInv, Flagged
    <3>2. held[t] \in Nat
      BY <1>b
    <3> QED
      BY <3>1, <3>2
  <2>2. u = t
    BY <1>a, <1>3, <1>4
  <2> QED
    BY <1>a, <1>b, <2>1, <2>2
<1>7. Exact'
  BY <1>a, <1>2, ExitedStays DEF IInv, Exact
<1> QED
  BY <1>1, <1>5, <1>6, <1>7 DEF IInv

\* A thread that leaves the system's lock once.
LEMMA DisownKeeps ==
  ASSUME IInv, NEW t \in Threads, NEW from \in {"try", "leave"}, Goto(t, from, "out"), Disown,
         UNCHANGED <<kind, already, held>>, undefined' = FALSE
  PROVE  IInv'
<1>a. /\ pc[t] = from /\ pc' = [pc EXCEPT ![t] = "out"] /\ ~undefined
      /\ depth' = depth - 1 /\ owner' = (IF depth = 1 THEN NoThread ELSE owner)
      /\ abandoned' = abandoned
  BY DEF Goto, Disown
<1>b. /\ depth \in Nat /\ held \in [Threads -> Nat] /\ pc \in [Threads -> Places]
      /\ Inside(t) /\ owner \in Threads \cup {NoThread} /\ NoThread \notin Threads
  BY <1>a, MtxAssumption DEF IInv, Shape, Inside
<1>c. owner = t /\ depth >= held[t] + 1 /\ (~Exited => depth = held[t] + 1)
  BY <1>a, <1>b DEF IInv, Covered, Exact, Entries
<1>1. Shape'
  <2>1. depth' \in Nat
    BY <1>a, <1>b, <1>c
  <2> QED
    BY <1>a, <1>b, <2>1 DEF IInv, Shape, Places
<1>2. Entries(t)' = held[t] /\ ~Inside(t)'
  BY <1>a, <1>b DEF Entries, Inside
<1>3. \A u \in Threads \ {t} : held'[u] = 0 /\ ~Inside(u)'
  BY <1>a, <1>b, <1>c DEF IInv, Covered, Inside
<1>4. Covered'
  <2>1. owner' = NoThread => depth' = 0
    BY <1>a, <1>b, <1>c
  <2>2. \A u \in Threads : held'[u] > 0 \/ Inside(u)' => owner' = u
    BY <1>a, <1>b, <1>c, <1>2, <1>3
  <2>3. \A u \in Threads : owner' = u => depth' >= Entries(u)'
    BY <1>a, <1>b, <1>c, <1>2
  <2> QED
    BY <2>1, <2>2, <2>3 DEF Covered
<1>5. Flagged'
  BY DEF IInv, Flagged, recursive
<1>6. Exact'
  <2>1. ~Exited' => ~Exited
    BY <1>a, ExitedStays
  <2>2. \A u \in Threads : owner' = u => u = t
    BY <1>a, <1>b, <1>c
  <2>3. ~Exited => abandoned' = FALSE /\ depth' = Entries(t)'
    BY <1>a, <1>b, <1>c, <1>2 DEF IInv, Exact
  <2> QED
    BY <2>1, <2>2, <2>3 DEF Exact
<1> QED
  BY <1>1, <1>4, <1>5, <1>6 DEF IInv

LEMMA StepIInv == IInv /\ [Next]_vars => IInv'
<1> SUFFICES ASSUME IInv, [Next]_vars PROVE IInv'
  OBVIOUS
<1>a. pc \in [Threads -> Places] /\ held \in [Threads -> Nat] /\ depth \in Nat
  BY DEF IInv, Shape
<1>1. ASSUME NEW t \in Threads, Lock(t) \/ TimedLock(t) PROVE IInv'
  <2>1. PICK to \in {"lock", "timedlock"} : Goto(t, "out", to)
    BY <1>1 DEF Lock, TimedLock
  <2>2. /\ to \in Places /\ to \notin {"mark", "timedmark", "try", "leave"} /\ ~Inside(t)
        /\ pc[t] # "ended"
    BY <2>1 DEF Places, Goto, Inside
  <2> QED
    BY <1>1, <2>1, <2>2, MoveKeeps DEF Lock, TimedLock, Goto
<1>2. ASSUME NEW t \in Threads, NEW from \in {"lock", "timedlock"},
             NEW to \in {"mark", "timedmark"}, Enter(t, from, to)
      PROVE  IInv'
  <2>1. ~Inside(t) /\ pc[t] # "ended" /\ "out" \in Places /\ to \in Places
    BY <1>2 DEF Enter, Goto, Inside, Places
  <2>2. CASE recursive
    BY <1>2, <2>1, <2>2, OwnKeeps DEF Enter, Goto, Grant
  <2>3. CASE ~recursive
    BY <1>2, <2>1, <2>3, OwnKeeps DEF Enter, Goto
  <2> QED
    BY <2>2, <2>3
<1>3. ASSUME NEW t \in Threads, NEW from \in {"lock", "timedlock", "out"},
             EnterAbandoned(t, from)
      PROVE  IInv'
  <2>1. ~Inside(t) /\ pc[t] # "ended" /\ "out" \in Places
    BY <1>3 DEF EnterAbandoned, Goto, Inside, Places
  <2>2. Exited
    BY <1>3 DEF EnterAbandoned, IInv, Exact
  <2> QED
    BY <1>3, <2>1, <2>2, OwnKeeps DEF EnterAbandoned, Goto
<1>4. ASSUME NEW t \in Threads, TimeOut(t) PROVE IInv'
  <2>1. ~Inside(t) /\ pc[t] # "ended" /\ "out" \in Places /\ "out" \notin {"mark", "timedmark", "try", "leave"}
    BY <1>4 DEF TimeOut, Goto, Inside, Places
  <2> QED
    BY <1>4, <2>1, MoveKeeps DEF TimeOut, Goto
<1>5. ASSUME NEW t \in Threads, NEW from \in {"mark", "timedmark", "try"}, Mark(t, from)
      PROVE  IInv'
  BY <1>5, MarkKeeps
<1>6. ASSUME NEW t \in Threads, TryLock(t) PROVE IInv'
  <2>1. ~Inside(t) /\ pc[t] # "ended" /\ "out" \in Places /\ "try" \in Places
    BY <1>6 DEF TryLock, Goto, Inside, Places
  <2>2. CASE recursive
    BY <1>6, <2>1, <2>2, OwnKeeps DEF TryLock, Goto, Grant
  <2>3. CASE ~recursive
    BY <1>6, <2>1, <2>3, OwnKeeps DEF TryLock, Goto
  <2> QED
    BY <2>2, <2>3
<1>7. ASSUME NEW t \in Threads, TryBusy(t) PROVE IInv'
  <2>1. CASE ~timed
    <3>1. ~timed /\ undefined' = timed
      BY <1>7, <2>1 DEF TryBusy
    <3>2. timed \in BOOLEAN
      BY DEF timed
    <3>3. undefined' = FALSE
      BY <3>1, <3>2
    <3>4. Disown /\ Goto(t, "try", "out")
      BY <1>7, <2>1 DEF TryBusy
    <3> QED
      BY <1>7, <3>3, <3>4, DisownKeeps DEF TryBusy
  <2>2. CASE timed
    <3>1. /\ pc[t] = "try" /\ pc' = [pc EXCEPT ![t] = "out"] /\ undefined' = TRUE
          /\ UNCHANGED <<kind, owner, depth, abandoned, already, held>>
      BY <1>7, <2>2 DEF TryBusy, Goto, timed
    <3>2. \A u \in Threads : /\ held'[u] = held[u] /\ (Inside(u)' => Inside(u))
                             /\ Entries(u)' <= Entries(u)
      BY <1>a, <3>1 DEF Inside, Entries
    <3>3. \A u \in Threads : Entries(u) \in Nat /\ Entries(u)' \in Nat
      BY <1>a, <3>1 DEF Entries
    <3>4. Shape'
      BY <3>1 DEF IInv, Shape, Places
    <3>5. Covered'
      BY <1>a, <3>1, <3>2, <3>3 DEF IInv, Covered
    <3>6. Flagged' /\ Exact'
      BY <3>1, ExitedStays DEF IInv, Flagged, Exact, recursive
    <3> QED
      BY <3>4, <3>5, <3>6 DEF IInv
  <2> QED
    BY <2>1, <2>2
<1>8. ASSUME NEW t \in Threads, Unlock(t) PROVE IInv'
  <2>1. /\ pc[t] = "out" /\ pc' = [pc EXCEPT ![t] = "leave"] /\ held[t] > 0
        /\ held' = [held EXCEPT ![t] = held[t] - 1]
        /\ UNCHANGED <<kind, owner, depth, abandoned, undefined>> /\ already' = FALSE
    BY <1>8 DEF Unlock, Goto
  <2>2. owner = t /\ \A u \in Threads \ {t} : held[u] = 0 /\ ~Inside(u)
    BY <1>a, <2>1 DEF IInv, Covered
  <2>3. \A u \in Threads : Entries(u)' = Entries(u)
    BY <1>a, <2>1 DEF Entries, Inside
  <2>4. Shape'
    <3>1. held' \in [Threads -> Nat]
      BY <1>a, <2>1
    <3>2. pc' \in [Threads -> Places]
      BY <1>a, <2>1 DEF Places
    <3>3. already' \in BOOLEAN
      BY <2>1
    <3>4. UNCHANGED <<kind, owner, depth, abandoned, undefined>>
      BY <2>1
    <3> QED
      BY <3>1, <3>2, <3>3, <3>4 DEF IInv, Shape
  <2>5. Covered'
    <3>1. \A u \in Threads : held'[u] > 0 \/ Inside(u)' => owner' = u
      BY <1>a, <2>1, <2>2 DEF Inside
    <3> QED
      BY <2>1, <2>3, <3>1 DEF IInv, Covered
  <2>6. Flagged'
    <3> SUFFICES ASSUME ~recursive PROVE \A u \in Threads : ~(held'[u] > 0)
      BY <2>1 DEF Flagged, recursive
    <3>1. held[t] = 1
      BY <2>1 DEF IInv, Flagged
    <3> QED
      BY <1>a, <2>1, <2>2, <3>1
  <2>7. Exact'
    BY <2>1, <2>3, ExitedStays DEF IInv, Exact
  <2> QED
    BY <2>4, <2>5, <2>6, <2>7 DEF IInv
<1>9. ASSUME NEW t \in Threads, Leave(t) PROVE IInv'
  <2>1. undefined' = FALSE /\ Disown /\ Goto(t, "leave", "out")
    BY <1>9 DEF Leave, Goto, IInv, Shape
  <2> QED
    BY <1>9, <2>1, DisownKeeps DEF Leave
<1>10. ASSUME NEW t \in Threads, Exit(t) PROVE IInv'
  <2>1. /\ owner = t /\ pc[t] = "out" /\ pc' = [pc EXCEPT ![t] = "ended"]
        /\ owner' = NoThread /\ depth' = 0 /\ held' = [held EXCEPT ![t] = 0]
        /\ UNCHANGED <<kind, already, undefined>> /\ abandoned' = TRUE
    BY <1>10 DEF Exit, Goto
  <2>2. \A u \in Threads : held'[u] = 0 /\ ~Inside(u)'
    BY <1>a, <2>1 DEF IInv, Covered, Inside
  <2>3. Shape'
    BY <1>a, <2>1 DEF IInv, Shape, Places
  <2>4. Covered'
    BY <2>1, <2>2, MtxAssumption DEF Covered
  <2>5. Flagged'
    BY <2>2 DEF Flagged
  <2>6. Exact'
    <3>1. pc'[t] = "ended"
      BY <1>a, <2>1
    <3> QED
      BY <3>1 DEF Exact, Exited
  <2> QED
    BY <2>3, <2>4, <2>5, <2>6 DEF IInv
<1>11. ASSUME UNCHANGED vars PROVE IInv'
  BY <1>11 DEF vars, IInv, Shape, Covered, Flagged, Exact, Exited, Inside, Entries, recursive
<1> QED
  BY <1>1, <1>2, <1>3, <1>4, <1>5, <1>6, <1>7, <1>8, <1>9, <1>10, <1>11
     DEF Next, Step, TryAbandoned

\* The inductive invariant of the mutex.
THEOREM MtxInvariant == Spec => []IInv
  BY InitIInv, StepIInv, PTL DEF Spec

\* Of the functions of TtMtx, none sleeps.
LEMMA NobodySleeps ==
  ASSUME IInv, "sleep" \notin {pc[t] : t \in Threads}, [Next]_vars
  PROVE  "sleep" \notin {pc[t] : t \in Threads}'
<1>1. CASE UNCHANGED vars
  BY <1>1 DEF vars
<1>2. ASSUME NEW t \in Threads, NEW from, NEW to \in Places \ {"sleep"}, Goto(t, from, to)
      PROVE  "sleep" \notin {pc[u] : u \in Threads}'
  BY <1>2 DEF Goto, IInv, Shape
<1>3. CASE Next
  <2>1. PICK t \in Threads :
          \/ Lock(t) \/ TimedLock(t) \/ TryLock(t) \/ TryAbandoned(t) \/ Unlock(t) \/ Exit(t)
          \/ Step(t)
    BY <1>3 DEF Next
  <2>2. PICK from, to \in Places \ {"sleep"} : Goto(t, from, to)
    BY <2>1 DEF Lock, TimedLock, TryLock, TryAbandoned, Unlock, Exit, Step, Enter,
                EnterAbandoned, TimeOut, Mark, TryBusy, Leave, Places
  <2> QED
    BY <1>2, <2>2
<1> QED
  BY <1>1, <1>3

\* Type correctness.
THEOREM MtxTypeCorrect == Spec => []TypeOK
<1> DEFINE Awake == "sleep" \notin {pc[t] : t \in Threads}
<1>1. IInv /\ Awake => TypeOK
  BY DEF IInv, Shape, TypeOK, Places
<1>2. Init => Awake
  BY DEF Init
<1>3. IInv /\ Awake /\ [Next]_vars => Awake'
  BY NobodySleeps
<1> QED
  BY <1>1, <1>2, <1>3, MtxInvariant, PTL DEF Spec

LEMMA HeldByItsOwner == IInv => HeldByOne
  BY DEF IInv, Shape, Covered, Flagged, HeldByOne

LEMMA GrantsMatched == IInv => LockMatchesGrants
<1> SUFFICES ASSUME IInv, NEW t \in Threads, ~undefined, ~Exited, pc[t] = "out"
             PROVE  IF owner = t THEN depth = held[t] ELSE held[t] = 0
  BY DEF LockMatchesGrants
<1>1. ~Inside(t) /\ held[t] \in Nat
  BY DEF Inside, IInv, Shape
<1> QED
  BY <1>1 DEF IInv, Covered, Exact, Entries

\* One thread at a time holds the mutex, and once unless it is recursive,
\* whichever of mtx_lock, mtx_timedlock and mtx_trylock granted it.
THEOREM MtxHeldByOne == Spec => []HeldByOne
  BY HeldByItsOwner, MtxInvariant, PTL

\* A thread outside the functions has entered the system's lock as often as
\* it holds the mutex, as long as no thread exits with the lock.
THEOREM MtxLockMatchesGrants == Spec => []LockMatchesGrants
  BY GrantsMatched, MtxInvariant, PTL

------------------------------------------------------------------------------
(* Both builds of mtx_timedlock, with the clock.                            *)

\* Where mtx_timedlock polls, the mutex is the system's.
PollInv ==
  /\ kind \in Kinds
  /\ owner \in Threads \cup {NoThread} /\ depth \in Nat
  /\ pc \in [Threads -> {"out", "poll", "busy", "nap"}] /\ held \in [Threads -> Nat]
  /\ owner = NoThread => depth = 0
  /\ \A t \in Threads :
       /\ held[t] > 0 => owner = t
       /\ owner = t => depth = held[t] /\ depth > 0
       /\ ~recursive => held[t] <= 1

BuildInv ==
  /\ build \in {"win32", "poll"}
  /\ build = "win32" => IInv
  /\ build = "poll" => PollInv

LEMMA BuildInit == MCInit => BuildInv
<1> SUFFICES ASSUME MCInit PROVE BuildInv
  OBVIOUS
<1>1. IInv /\ build \in {"win32", "poll"}
  BY InitIInv DEF MCInit, TimeInit
<1>2. PollInv
  BY MtxAssumption DEF MCInit, TimeInit, Init, PollInv
<1> QED
  BY <1>1, <1>2 DEF BuildInv

\* On Windows the clock stops nothing, and only thrd_sleep is new.
LEMMA TimeKeepsIInv == IInv /\ TimeNext => IInv'
<1> SUFFICES ASSUME IInv, TimeNext PROVE IInv'
  OBVIOUS
<1>1. CASE Tick
  BY <1>1, StepIInv DEF Tick
<1>2. ASSUME NEW t \in Threads,
             \/ Wake(t)
             \/ \E d \in Delays : Sleep(t, d)
      PROVE  IInv'
  <2>1. PICK from \in {"out", "sleep"}, to \in {"out", "sleep"} : Goto(t, from, to)
    BY <1>2 DEF Wake, Sleep
  <2>2. UNCHANGED <<kind, owner, depth, abandoned, already, held, undefined>>
    BY <1>2 DEF Wake, Sleep
  <2> QED
    BY <2>1, <2>2, MoveKeeps DEF Goto, Inside, Places
<1>3. ASSUME NEW t \in Threads,
             \/ Call(t) \/ TimeOutAt(t) \/ EnterInTime(t) \/ InnerStep(t)
             \/ \E d \in Delays : TimedLockUntil(t, d)
      PROVE  IInv'
  <2>1. Next
    BY <1>3 DEF Call, TimeOutAt, EnterInTime, InnerStep, TimedLockUntil, Next, Step
  <2> QED
    BY <2>1, StepIInv
<1> QED
  BY <1>1, <1>2, <1>3 DEF TimeNext, TimedStep

LEMMA PollKeepsInv == PollInv /\ Polls => PollInv'
<1> SUFFICES ASSUME PollInv, Polls PROVE PollInv'
  OBVIOUS
<1>a. /\ kind' = kind /\ (recursive' <=> recursive)
      /\ owner \in Threads \cup {NoThread} /\ NoThread \notin Threads /\ depth \in Nat
      /\ pc \in [Threads -> {"out", "poll", "busy", "nap"}] /\ held \in [Threads -> Nat]
  BY MtxAssumption DEF Polls, PollInv, recursive
<1>b. PICK t \in Threads :
        \/ Poll!Lock(t) \/ Poll!Unlock(t) \/ Poll!Step(t)
        \/ \E d \in Delays : Poll!TimedLock(t, d)
  BY DEF Polls, Poll!PollNext
<1>1. pc' \in [Threads -> {"out", "poll", "busy", "nap"}]
  <2>1. PICK from, to \in {"out", "poll", "busy", "nap"} : Poll!At(t, from, to)
    BY <1>b DEF Poll!Lock, Poll!Unlock, Poll!Step, Poll!TimedLock, Poll!TryGranted,
                Poll!TryBusy, Poll!GiveUp, Poll!Doze, Poll!WakeUp
  <2> QED
    BY <1>a, <2>1 DEF Poll!At
<1>2. CASE Poll!Grant(t)
  <2>1. /\ owner \in {NoThread, t} /\ (owner = t => recursive)
        /\ owner' = t /\ depth' = depth + 1 /\ held' = [held EXCEPT ![t] = held[t] + 1]
    BY <1>a, <1>2 DEF Poll!Grant, Poll!Available
  <2>2. /\ owner = NoThread => depth = 0 /\ held[t] = 0
        /\ owner = t => depth = held[t]
        /\ \A u \in Threads : u # t => held[u] = 0
    <3>1. \A u \in Threads : held[u] \in Nat /\ (owner # u => ~(held[u] > 0))
      BY <1>a DEF PollInv
    <3>2. \A u \in Threads : owner # u => held[u] = 0
      BY <3>1
    <3>3. (owner = NoThread => depth = 0) /\ (owner = t => depth = held[t])
      BY DEF PollInv
    <3> QED
      BY <1>a, <2>1, <3>2, <3>3
  <2>3. depth' = held'[t] /\ depth' > 0 /\ \A u \in Threads : u # t => held'[u] = 0
    <3>1. depth = held[t]
      BY <2>1, <2>2
    <3>2. held'[t] = held[t] + 1 /\ \A u \in Threads : u # t => held'[u] = held[u]
      BY <1>a, <2>1
    <3> QED
      BY <1>a, <2>1, <2>2, <3>1, <3>2
  <2>4. ~recursive => held'[t] <= 1
    BY <1>a, <2>1, <2>2
  <2>5. held' \in [Threads -> Nat]
    BY <1>a, <2>1
  <2> QED
    BY <1>a, <1>1, <2>1, <2>3, <2>4, <2>5 DEF PollInv
<1>3. CASE Poll!Unlock(t)
  <2>1. /\ held[t] > 0 /\ depth' = depth - 1 /\ held' = [held EXCEPT ![t] = held[t] - 1]
        /\ owner' = IF depth = 1 THEN NoThread ELSE owner
    BY <1>3 DEF Poll!Unlock
  <2>2. owner = t /\ depth = held[t] /\ \A u \in Threads : u # t => held[u] = 0
    BY <1>a, <2>1 DEF PollInv
  <2>3. /\ held' \in [Threads -> Nat] /\ depth' \in Nat /\ held'[t] = depth'
        /\ \A u \in Threads : u # t => held'[u] = 0
        /\ ~recursive => held'[t] <= 1
    BY <1>a, <2>1, <2>2 DEF PollInv
  <2>4. owner' = (IF depth' = 0 THEN NoThread ELSE t)
    BY <1>a, <2>1, <2>2
  <2> QED
    BY <1>a, <1>1, <2>3, <2>4 DEF PollInv
<1>4. CASE UNCHANGED <<owner, depth, held>>
  BY <1>a, <1>1, <1>4 DEF PollInv
<1> QED
  BY <1>b, <1>2, <1>3, <1>4
     DEF Poll!Lock, Poll!Step, Poll!TimedLock, Poll!TryGranted, Poll!TryBusy, Poll!GiveUp,
         Poll!Doze, Poll!WakeUp

LEMMA BuildNext == BuildInv /\ [MCNext]_mcVars => BuildInv'
<1> SUFFICES ASSUME BuildInv, [MCNext]_mcVars PROVE BuildInv'
  OBVIOUS
<1>1. ASSUME UNCHANGED vars PROVE (IInv => IInv') /\ (PollInv => PollInv')
  BY <1>1, StepIInv DEF vars, PollInv, recursive
<1>2. CASE UNCHANGED mcVars \/ (build = "poll" /\ Tick /\ UNCHANGED build)
  BY <1>1, <1>2 DEF mcVars, timeVars, Tick, BuildInv
<1>3. CASE build = "win32" /\ TimeNext /\ UNCHANGED build
  BY <1>3, TimeKeepsIInv DEF BuildInv
<1>4. CASE Polls /\ UNCHANGED build
  BY <1>4, PollKeepsInv DEF BuildInv, Polls
<1> QED
  BY <1>2, <1>3, <1>4 DEF MCNext

THEOREM BuildInvariant == MCSpec => []BuildInv
  BY BuildInit, BuildNext, PTL DEF MCSpec

\* MtxHeldByOne, in both builds and with the clock, for any time limits.
THEOREM BuildsHeldByOne == MCSpec => []HeldByOne
<1>1. PollInv => HeldByOne
  BY DEF PollInv, HeldByOne
<1>2. BuildInv => HeldByOne
  BY <1>1, HeldByItsOwner DEF BuildInv
<1> QED
  BY <1>2, BuildInvariant, PTL

\* MtxLockMatchesGrants, in both builds and with the clock.
THEOREM BuildsMatchGrants == MCSpec => []LockMatchesGrants
<1>1. PollInv => LockMatchesGrants
  BY DEF PollInv, LockMatchesGrants
<1>2. BuildInv => LockMatchesGrants
  BY <1>1, GrantsMatched DEF BuildInv
<1> QED
  BY <1>2, BuildInvariant, PTL

------------------------------------------------------------------------------
(* Condition variables                                                      *)

Spots ==
  {"out", "held", "counted", "unlocked", "blocked", "byOne", "byAll", "reset", "relock",
   "setOne", "setAll"}

\* Where a waiter is counted, and where an event has not yet released it.
CountedAt == {"counted", "unlocked", "blocked", "byOne", "byAll"}
Counted == {w \in Waiters : cndPc[w] \in CountedAt}

\* Sets of waiters are finite.
LEMMA CndFinite ==
  /\ Cardinality(Waiters) \in Nat
  /\ \A S \in SUBSET Waiters :
       /\ Cardinality(S) \in 0 .. Cardinality(Waiters)
       /\ \A w \in Waiters :
            /\ w \in S => Cardinality(S \ {w}) = Cardinality(S) - 1
            /\ w \notin S => Cardinality(S \cup {w}) = Cardinality(S) + 1
       /\ Cardinality(S) = 0 => S = {}
  <1>1. IsFiniteSet(Waiters) /\ Cardinality(Waiters) \in Nat
    BY CndAssumption, FS_CardinalityType
  <1>2. ASSUME NEW S \in SUBSET Waiters
        PROVE  /\ IsFiniteSet(S) /\ Cardinality(S) \in 0 .. Cardinality(Waiters)
               /\ \A w \in Waiters :
                    /\ w \in S => Cardinality(S \ {w}) = Cardinality(S) - 1
                    /\ w \notin S => Cardinality(S \cup {w}) = Cardinality(S) + 1
               /\ Cardinality(S) = 0 => S = {}
    <2>1. IsFiniteSet(S) /\ Cardinality(S) <= Cardinality(Waiters) /\ Cardinality(S) \in Nat
      BY <1>1, FS_Subset, FS_CardinalityType
    <2>2. Cardinality(S) \in 0 .. Cardinality(Waiters)
      BY <1>1, <2>1
    <2>3. Cardinality(S) = 0 => S = {}
      BY <2>1, FS_EmptySet
    <2>4. \A w \in Waiters : w \in S => Cardinality(S \ {w}) = Cardinality(S) - 1
      BY <2>1, FS_RemoveElement
    <2>5. \A w \in Waiters : w \notin S => Cardinality(S \cup {w}) = Cardinality(S) + 1
      BY <2>1, FS_AddElement
    <2> QED BY <2>1, <2>2, <2>3, <2>4, <2>5
  <1> QED BY <1>1, <1>2

\* What the step of one thread does to who is counted.
LEMMA CndMoved ==
  ASSUME CndTypeOK, NEW t \in Waiters \cup Callers, NEW to \in Spots,
         cndPc' = [cndPc EXCEPT ![t] = to]
  PROVE  /\ cndPc' \in [Waiters \cup Callers -> Spots]
         /\ t \in Callers => Counted' = Counted
         /\ t \in Waiters => Counted' = IF to \in CountedAt THEN Counted \cup {t}
                                                           ELSE Counted \ {t}
  <1>1. cndPc \in [Waiters \cup Callers -> Spots] /\ Waiters \cap Callers = {}
    BY CndAssumption DEF CndTypeOK, Spots
  <1>2. /\ cndPc' \in [Waiters \cup Callers -> Spots]
        /\ \A u \in Waiters \cup Callers : cndPc'[u] = IF u = t THEN to ELSE cndPc[u]
    BY <1>1
  <1>3. t \in Callers => Counted' = Counted
    BY <1>1, <1>2 DEF Counted
  <1>4. ASSUME t \in Waiters
        PROVE  Counted' = IF to \in CountedAt THEN Counted \cup {t} ELSE Counted \ {t}
    BY <1>2, <1>4 DEF Counted
  <1> QED BY <1>2, <1>3, <1>4

LEMMA CndInitCovers == CndInit => CountCoversWaiters
  <1> SUFFICES ASSUME CndInit PROVE CountCoversWaiters
    OBVIOUS
  <1>1. Counted = {} /\ Cardinality({}) = 0
    BY FS_EmptySet DEF CndInit, Counted, CountedAt
  <1>2. 0 \in 0 .. MaxCount /\ 0 \in 0 .. Cardinality(Waiters)
    BY CndFinite, CndAssumption
  <1>3. CndTypeOK
    BY <1>2 DEF CndInit, CndTypeOK
  <1>4. count >= Cardinality(Counted)
    BY <1>1 DEF CndInit
  <1> QED BY <1>3, <1>4 DEF CountCoversWaiters, Counted, CountedAt

\* A step of one waiter that keeps the count.
LEMMA CndWaiterKeeps ==
  ASSUME CountCoversWaiters, NEW w \in Waiters,
         NEW from \in Spots, NEW to \in Spots, CndGoto(w, from, to),
         to \in CountedAt => from \in CountedAt,
         mutex' \in Waiters \cup Callers \cup {Nobody},
         one' \in BOOLEAN, all' \in BOOLEAN, UNCHANGED <<count, overlaps>>,
         dueAll' \in SUBSET dueAll, due' \in 0 .. Cardinality(Waiters)
  PROVE  CountCoversWaiters'
  <1>1. CndTypeOK /\ count >= Cardinality(Counted) /\ count \in Nat
    BY CndAssumption DEF CountCoversWaiters, CndTypeOK, Counted, CountedAt
  <1>2. cndPc[w] = from /\ cndPc' = [cndPc EXCEPT ![w] = to]
    BY DEF CndGoto
  <1>3. /\ cndPc' \in [Waiters \cup Callers -> Spots]
        /\ Counted' = IF to \in CountedAt THEN Counted \cup {w} ELSE Counted \ {w}
    BY <1>1, <1>2, CndMoved
  <1>4. CndTypeOK'
    BY <1>1, <1>3 DEF CndTypeOK, Spots
  <1>5. Cardinality(Counted') <= Cardinality(Counted)
    <2>1. Counted \in SUBSET Waiters /\ (w \in Counted <=> from \in CountedAt)
      BY <1>2 DEF Counted
    <2>2. Cardinality(Counted) \in Nat
      BY <2>1, CndFinite
    <2>3. Counted' = Counted \/ (w \in Counted /\ Counted' = Counted \ {w})
      BY <1>3, <2>1
    <2>4. w \in Counted => Cardinality(Counted \ {w}) = Cardinality(Counted) - 1
      BY <2>1, CndFinite
    <2>5. CASE Counted' = Counted
      BY <2>2, <2>5
    <2>6. CASE w \in Counted /\ Counted' = Counted \ {w}
      <3>1. Cardinality(Counted') = Cardinality(Counted) - 1
        BY <2>4, <2>6, Zenon
      <3> QED BY <2>2, <3>1
    <2> QED BY <2>3, <2>5, <2>6
  <1>6. count' >= Cardinality(Counted')
    <2>1. Cardinality(Counted) \in Nat /\ Cardinality(Counted') \in Nat
      BY CndFinite DEF Counted
    <2> QED BY <1>1, <1>5, <2>1
  <1> QED BY <1>4, <1>6 DEF CountCoversWaiters, Counted, CountedAt

\* A step of one caller.
LEMMA CndCallerKeeps ==
  ASSUME CountCoversWaiters, NEW t \in Callers, NEW to \in Spots,
         cndPc' = [cndPc EXCEPT ![t] = to],
         one' \in BOOLEAN, all' \in BOOLEAN, UNCHANGED <<mutex, count>>,
         overlaps' \in SUBSET Waiters,
         dueAll' \in SUBSET Waiters, due' \in 0 .. Cardinality(Waiters)
  PROVE  CountCoversWaiters'
  <1>1. CndTypeOK /\ count >= Cardinality(Counted)
    BY DEF CountCoversWaiters, Counted, CountedAt
  <1>2. cndPc' \in [Waiters \cup Callers -> Spots] /\ Counted' = Counted
    BY <1>1, CndMoved
  <1>3. CndTypeOK'
    BY <1>1, <1>2 DEF CndTypeOK, Spots
  <1> QED BY <1>1, <1>2, <1>3 DEF CountCoversWaiters, Counted, CountedAt

\* What is owed is never more than there are waiters.
LEMMA CndDue ==
  ASSUME CndTypeOK
  PROVE  /\ due \in Nat /\ Cardinality(Waiters) \in Nat
         /\ Blocked \in SUBSET Waiters
         /\ Cardinality(Blocked) \in 0 .. Cardinality(Waiters)
         /\ \A n \in 0 .. due : n \in 0 .. Cardinality(Waiters)
  <1>1. Cardinality(Waiters) \in Nat /\ due \in 0 .. Cardinality(Waiters)
    BY CndFinite DEF CndTypeOK
  <1>2. Blocked \in SUBSET Waiters
    BY DEF Blocked
  <1>3. Cardinality(Blocked) \in 0 .. Cardinality(Waiters)
    BY <1>2, CndFinite
  <1> QED BY <1>1, <1>2, <1>3

\* The mutex, which waiters and callers take.
LEMMA CndMutex ==
  ASSUME CountCoversWaiters, NEW t \in Waiters \cup Callers,
         LockMutex(t) \/ UnlockMutex(t)
  PROVE  CountCoversWaiters'
  <1>1. CndTypeOK /\ Nobody \notin Waiters \cup Callers
    BY CndAssumption DEF CountCoversWaiters
  <1>2. PICK from \in Spots, to \in Spots :
          CndGoto(t, from, to) /\ to \notin CountedAt
    BY DEF LockMutex, UnlockMutex, Spots, CountedAt
  <1>3. /\ mutex' \in Waiters \cup Callers \cup {Nobody}
        /\ UNCHANGED <<count, one, all, overlaps, due, dueAll>>
        /\ cndPc' = [cndPc EXCEPT ![t] = to]
    BY <1>2 DEF LockMutex, UnlockMutex, promises, CndGoto
  <1>4. /\ overlaps' \in SUBSET Waiters /\ dueAll' \in SUBSET dueAll
        /\ dueAll' \in SUBSET Waiters /\ due' \in 0 .. Cardinality(Waiters)
        /\ one' \in BOOLEAN /\ all' \in BOOLEAN
    BY <1>1, <1>3 DEF CndTypeOK
  <1>5. CASE t \in Waiters
    BY <1>2, <1>3, <1>4, <1>5, CndWaiterKeeps
  <1>6. CASE t \in Callers
    <2>1. cndPc' \in [Waiters \cup Callers -> Spots] /\ Counted' = Counted
      BY <1>1, <1>3, <1>6, CndMoved
    <2>2. CndTypeOK'
      BY <1>1, <1>3, <1>4, <2>1 DEF CndTypeOK, Spots
    <2> QED BY <1>3, <2>1, <2>2 DEF CountCoversWaiters, Counted, CountedAt
  <1> QED BY <1>5, <1>6

\* The steps of a waiter between taking the mutex and having it again.
LEMMA CndWaiter ==
  ASSUME CountCoversWaiters, NEW w \in Waiters,
         \/ WaitUnlock(w) \/ WaitOne(w) \/ WaitAll(w) \/ WaitBlock(w)
         \/ WaitTimeOut(w) \/ Reset(w) \/ Relock(w)
  PROVE  CountCoversWaiters'
  <1>1. CndTypeOK
    BY DEF CountCoversWaiters
  <1>2. /\ mutex \in Waiters \cup Callers \cup {Nobody} /\ one \in BOOLEAN /\ all \in BOOLEAN
        /\ due \in 0 .. Cardinality(Waiters)
    BY <1>1 DEF CndTypeOK
  <1>3. PICK from \in Spots, to \in Spots :
          CndGoto(w, from, to) /\ (to \in CountedAt => from \in CountedAt)
    BY DEF WaitUnlock, WaitOne, WaitAll, WaitBlock, WaitTimeOut, Reset,
           Relock, Spots, CountedAt
  <1>4. /\ mutex' \in Waiters \cup Callers \cup {Nobody}
        /\ one' \in BOOLEAN /\ all' \in BOOLEAN /\ UNCHANGED <<count, overlaps>>
        /\ dueAll' \in SUBSET dueAll
    BY <1>2 DEF WaitUnlock, WaitOne, WaitAll, WaitBlock, WaitTimeOut, Reset,
           Relock, Released, promises
  <1>5. due' \in 0 .. Cardinality(Waiters)
    <2>1. CASE WaitTimeOut(w)
      <3>1. w \in Blocked
        BY <2>1 DEF WaitTimeOut, CndGoto, Blocked
      <3>2. Cardinality(Blocked) >= 1
        <4>1. Cardinality(Blocked) # 0
          BY <1>1, <3>1, CndFinite, CndDue
        <4> QED BY <1>1, <4>1, CndDue
      <3>3. due' = IF due < Cardinality(Blocked) THEN due ELSE due - 1
        BY <2>1 DEF WaitTimeOut
      <3> QED BY <1>1, <1>2, <3>2, <3>3, CndDue
    <2>2. CASE due' = IF due > 0 THEN due - 1 ELSE 0
      BY <1>1, <1>2, <2>2, CndDue
    <2>3. CASE due' = due
      BY <1>2, <2>3
    <2> QED
      BY <2>1, <2>2, <2>3 DEF WaitUnlock, WaitOne, WaitAll, WaitBlock, Reset,
         Relock, Released, promises
  <1> QED BY <1>3, <1>4, <1>5, CndWaiterKeeps

LEMMA CndWaitCount ==
  ASSUME CountCoversWaiters, NEW w \in Waiters, WaitCount(w)
  PROVE  CountCoversWaiters'
  <1>1. /\ CndTypeOK /\ count >= Cardinality(Counted) /\ count \in Nat /\ MaxCount \in Nat
        /\ Counted \in SUBSET Waiters
    BY CndAssumption DEF CountCoversWaiters, Counted, CountedAt, CndTypeOK
  <1>2. /\ cndPc[w] = "held" /\ cndPc' = [cndPc EXCEPT ![w] = "counted"]
        /\ count < MaxCount /\ count' = count + 1
        /\ UNCHANGED <<mutex, one, all, due, dueAll>>
        /\ overlaps' \in {overlaps \cup {w}, overlaps \ {w}}
    BY DEF WaitCount, CndGoto
  <1>3. /\ cndPc' \in [Waiters \cup Callers -> Spots] /\ Counted' = Counted \cup {w}
        /\ w \notin Counted
    BY <1>1, <1>2, CndMoved DEF Spots, CountedAt, Counted
  <1>4. CndTypeOK'
    BY <1>1, <1>2, <1>3 DEF CndTypeOK, Spots
  <1>5. Cardinality(Counted \cup {w}) = Cardinality(Counted) + 1
        /\ Cardinality(Counted) \in Nat
    BY <1>1, <1>3, CndFinite
  <1>6. count' >= Cardinality(Counted \cup {w})
    BY <1>1, <1>2, <1>5
  <1> QED BY <1>3, <1>4, <1>6 DEF CountCoversWaiters, Counted, CountedAt

\* A waiter that was released takes itself from the count.
LEMMA CndWakeCount ==
  ASSUME CountCoversWaiters, NEW w \in Waiters, WakeCount(w)
  PROVE  CountCoversWaiters'
  <1>1. /\ CndTypeOK /\ count >= Cardinality(Counted) /\ count \in Nat /\ MaxCount \in Nat
        /\ Counted \in SUBSET Waiters /\ count <= MaxCount
    BY CndAssumption DEF CountCoversWaiters, Counted, CountedAt, CndTypeOK
  <1>2. PICK to \in {"relock", "reset"} :
          cndPc[w] \in CountedAt /\ cndPc' = [cndPc EXCEPT ![w] = to]
    BY DEF WakeCount, CndGoto, CountedAt
  <1>3. count' = count - 1 /\ UNCHANGED <<mutex, one, all, overlaps, due, dueAll>>
    BY DEF WakeCount, promises
  <1>4. /\ cndPc' \in [Waiters \cup Callers -> Spots] /\ Counted' = Counted \ {w}
        /\ w \in Counted
    BY <1>1, <1>2, CndMoved DEF Spots, CountedAt, Counted
  <1>5. Cardinality(Counted \ {w}) = Cardinality(Counted) - 1
        /\ Cardinality(Counted \ {w}) \in Nat /\ Cardinality(Counted) \in Nat
    <2>1. Counted \ {w} \in SUBSET Waiters
      BY <1>1
    <2> QED BY <1>1, <1>4, <2>1, CndFinite
  <1>6. count' \in 0 .. MaxCount /\ count' >= Cardinality(Counted \ {w})
    BY <1>1, <1>3, <1>5
  <1>7. CndTypeOK'
    BY <1>1, <1>3, <1>4, <1>6 DEF CndTypeOK, Spots
  <1> QED BY <1>4, <1>6, <1>7 DEF CountCoversWaiters, Counted, CountedAt

\* cnd_signal and cnd_broadcast up to the event.
LEMMA CndCall ==
  ASSUME CountCoversWaiters, NEW t \in Callers,
         Signal(t) \/ Broadcast(t)
  PROVE  CountCoversWaiters'
  <1>1. CndTypeOK /\ cndPc[t] \in Spots /\ one \in BOOLEAN /\ all \in BOOLEAN
    BY DEF CountCoversWaiters, CndTypeOK, Spots
  <1>2. PICK set \in {"setOne", "setAll"} :
          /\ cndPc' = [cndPc EXCEPT ![t] = IF HaveWaiters THEN set ELSE cndPc[t]]
          /\ overlaps' = overlaps \cup Blocked \cup {w \in Waiters : cndPc[w] = "counted"}
          /\ UNCHANGED <<mutex, count, one, all>>
    BY DEF Signal, Broadcast, Check
  <1>3. PICK to \in Spots : cndPc' = [cndPc EXCEPT ![t] = to]
    <2>1. set \in Spots
      BY DEF Spots
    <2> QED BY <1>1, <1>2, <2>1
  <1>4. overlaps' \in SUBSET Waiters /\ dueAll' \in SUBSET Waiters
    BY <1>1, <1>2 DEF CndTypeOK, Blocked, Signal, Broadcast
  <1>5. due' \in 0 .. Cardinality(Waiters)
    <2>1. due \in 0 .. Cardinality(Waiters)
      BY <1>1 DEF CndTypeOK
    <2>2. due' = due \/ (due < Cardinality(Blocked) /\ due' = due + 1)
      BY DEF Signal, Broadcast
    <2> QED BY <1>1, <2>1, <2>2, CndDue
  <1> QED BY <1>1, <1>2, <1>3, <1>4, <1>5, CndCallerKeeps

\* SetEvent(one) with a waiter blocked, which stays counted.
LEMMA CndSetOneRelease ==
  ASSUME CountCoversWaiters, NEW t \in Callers, NEW w \in Waiters,
         SetOneRelease(t, w)
  PROVE  CountCoversWaiters'
  <1>1. CndTypeOK /\ count >= Cardinality(Counted)
    BY DEF CountCoversWaiters, Counted, CountedAt
  <1>2. PICK back \in {"held", "out"} : cndPc' = [cndPc EXCEPT ![t] = back, ![w] = "byOne"]
    BY DEF SetOneRelease, Back
  <1>3. /\ cndPc \in [Waiters \cup Callers -> Spots] /\ t \notin Waiters
        /\ cndPc[w] = "blocked" /\ back \in Spots /\ "byOne" \in Spots
    BY <1>1, CndAssumption DEF CndTypeOK, SetOneRelease, Spots
  <1>4. /\ cndPc' \in [Waiters \cup Callers -> Spots]
        /\ \A u \in Waiters : cndPc'[u] = IF u = w THEN "byOne" ELSE cndPc[u]
    BY <1>2, <1>3
  <1>5. Counted' = Counted
    BY <1>3, <1>4 DEF Counted, CountedAt
  <1>6. /\ UNCHANGED <<mutex, count, one, all, overlaps>>
        /\ dueAll' = dueAll \ {w} /\ due' = IF due > 0 THEN due - 1 ELSE 0
    BY DEF SetOneRelease, Released
  <1>7. due' \in 0 .. Cardinality(Waiters)
    BY <1>1, <1>6, CndDue DEF CndTypeOK
  <1>8. CndTypeOK'
    BY <1>1, <1>4, <1>6, <1>7 DEF CndTypeOK, Spots
  <1> QED BY <1>1, <1>5, <1>6, <1>8 DEF CountCoversWaiters, Counted, CountedAt

LEMMA CndSetOneKeep ==
  ASSUME CountCoversWaiters, NEW t \in Callers, SetOneKeep(t)
  PROVE  CountCoversWaiters'
  <1>1. CndTypeOK
    BY DEF CountCoversWaiters
  <1>2. PICK to \in Spots : cndPc' = [cndPc EXCEPT ![t] = to]
    BY DEF SetOneKeep, CndGoto, Back, Spots
  <1>3. one' = TRUE /\ UNCHANGED <<mutex, count, all, overlaps, due, dueAll>>
    BY DEF SetOneKeep, promises
  <1> QED BY <1>1, <1>2, <1>3, CndCallerKeeps DEF CndTypeOK

\* SetEvent(all): those released stay counted.
LEMMA CndSetAll ==
  ASSUME CountCoversWaiters, NEW t \in Callers, SetAll(t)
  PROVE  CountCoversWaiters'
  <1> DEFINE released == {w \in Waiters : cndPc[w] = "blocked"}
  <1>1. CndTypeOK /\ count >= Cardinality(Counted)
    BY DEF CountCoversWaiters, Counted, CountedAt
  <1>2. cndPc \in [Waiters \cup Callers -> Spots] /\ t \notin Waiters
    BY <1>1, CndAssumption DEF CndTypeOK, Spots
  <1>3. PICK back \in {"held", "out"} :
          cndPc' = [u \in DOMAIN cndPc |-> IF u \in released THEN "byAll"
                                           ELSE IF u = t THEN back ELSE cndPc[u]]
    BY DEF SetAll, Back
  <1>4. /\ cndPc' \in [Waiters \cup Callers -> Spots]
        /\ \A u \in Waiters : cndPc'[u] = IF u \in released THEN "byAll" ELSE cndPc[u]
    <2>1. back \in Spots /\ "byAll" \in Spots /\ DOMAIN cndPc = Waiters \cup Callers
      BY <1>2 DEF Spots
    <2> HIDE DEF released
    <2> QED BY <1>2, <1>3, <2>1
  <1>5. Counted' = Counted
    BY <1>4 DEF Counted, CountedAt
  <1>6. /\ UNCHANGED <<mutex, count, one, overlaps>> /\ all' = TRUE
        /\ dueAll' = dueAll \ released
        /\ due' = IF due > Cardinality(released) THEN due - Cardinality(released) ELSE 0
    BY DEF SetAll
  <1>7. due' \in 0 .. Cardinality(Waiters)
    <2>1. released \in SUBSET Waiters
      OBVIOUS
    <2>2. Cardinality(released) \in Nat
      <3> HIDE DEF released
      <3> QED BY <2>1, CndFinite
    <2> HIDE DEF released
    <2> QED BY <1>1, <1>6, <2>2, CndDue
  <1>8. CndTypeOK'
    BY <1>1, <1>4, <1>6, <1>7 DEF CndTypeOK, Spots
  <1> QED BY <1>1, <1>5, <1>6, <1>8 DEF CountCoversWaiters, Counted, CountedAt

LEMMA CndNextCovers ==
  CountCoversWaiters /\ [CndNext]_cndVars => CountCoversWaiters'
  <1> SUFFICES ASSUME CountCoversWaiters, [CndNext]_cndVars
               PROVE  CountCoversWaiters'
    OBVIOUS
  <1>1. CASE \E t \in Waiters \cup Callers : LockMutex(t) \/ UnlockMutex(t)
    BY <1>1, CndMutex
  <1>2. ASSUME NEW w \in Waiters,
               \/ WaitCount(w) \/ WaitUnlock(w) \/ WaitOne(w) \/ WaitAll(w)
               \/ WaitBlock(w) \/ WaitTimeOut(w) \/ WakeCount(w) \/ Reset(w)
               \/ Relock(w)
        PROVE  CountCoversWaiters'
    BY <1>2, CndWaitCount, CndWakeCount, CndWaiter
  <1>3. ASSUME NEW t \in Callers,
               \/ Signal(t) \/ Broadcast(t) \/ SetOneKeep(t) \/ SetAll(t)
               \/ \E w \in Waiters : SetOneRelease(t, w)
        PROVE  CountCoversWaiters'
    BY <1>3, CndCall, CndSetOneKeep, CndSetAll, CndSetOneRelease
  <1>4. CASE UNCHANGED cndVars
    BY <1>4 DEF cndVars, CountCoversWaiters, CndTypeOK
  <1> QED BY <1>1, <1>2, <1>3, <1>4 DEF CndNext

\* The count that cnd_signal and cnd_broadcast test before they touch an
\* event (mWaitersCount) never misses a waiter, for any number of waiters and
\* callers, though a wait that times out leaves it as it is.
THEOREM CndCountCoversWaiters == CndSpec => []CountCoversWaiters
  BY CndInitCovers, CndNextCovers, PTL DEF CndSpec

\* With one waiter, what cnd_signal and cnd_broadcast owe it is on its way:
\* a call is about to set the event, or has set it before the waiter looks.
Calling(at) == \E t \in Callers : cndPc[t] = at

Owed(w) ==
  /\ due > 0 => \/ cndPc[w] = "unlocked" /\ (one \/ Calling("setOne"))
                \/ cndPc[w] = "blocked" /\ Calling("setOne")
  /\ w \in dueAll => \/ cndPc[w] = "unlocked" /\ (all \/ Calling("setAll"))
                     \/ cndPc[w] = "blocked" /\ Calling("setAll")

CndInv(w) == CountCoversWaiters /\ Owed(w)

LEMMA OneWaiter ==
  ASSUME NEW w, Waiters = {w}, CountCoversWaiters
  PROVE  /\ CndTypeOK /\ cndPc \in [Waiters \cup Callers -> Spots] /\ w \notin Callers
         /\ due \in 0 .. 1 /\ dueAll \subseteq {w} /\ count \in Nat
         /\ Cardinality({w}) = 1 /\ Cardinality({}) = 0
         /\ Blocked = IF cndPc[w] \in {"unlocked", "blocked"} THEN {w} ELSE {}
         /\ cndPc[w] \in {"unlocked", "blocked"} => HaveWaiters
  <1>1. Cardinality({w}) = 1 /\ Cardinality({}) = 0
    BY FS_Singleton, FS_EmptySet
  <1>2. /\ CndTypeOK /\ cndPc \in [Waiters \cup Callers -> Spots] /\ w \notin Callers
        /\ due \in 0 .. 1 /\ dueAll \subseteq {w} /\ count \in Nat
    BY <1>1, CndAssumption DEF CountCoversWaiters, CndTypeOK, Spots
  <1>3. Blocked = IF cndPc[w] \in {"unlocked", "blocked"} THEN {w} ELSE {}
    BY DEF Blocked
  <1>4. ASSUME cndPc[w] \in {"unlocked", "blocked"} PROVE HaveWaiters
    <2>1. Counted = {w} /\ count >= Cardinality(Counted)
      BY <1>4 DEF Counted, CountedAt, CountCoversWaiters
    <2> QED BY <1>1, <1>2, <2>1 DEF HaveWaiters
  <1> QED BY <1>1, <1>2, <1>3, <1>4

\* Steps of the mutex, and of a waiter with the mutex, owe nothing.
LEMMA OwedMutex ==
  ASSUME NEW w, Waiters = {w}, CndInv(w), NEW t \in Waiters \cup Callers,
         LockMutex(t) \/ UnlockMutex(t)
  PROVE  Owed(w)'
  <1>1. PICK from \in {"out", "held"}, to \in Spots :
          cndPc[t] = from /\ cndPc' = [cndPc EXCEPT ![t] = to]
    BY DEF LockMutex, UnlockMutex, CndGoto, Spots
  <1>2. UNCHANGED <<one, all, due, dueAll>>
    BY DEF LockMutex, UnlockMutex, promises
  <1>3. cndPc \in [Waiters \cup Callers -> Spots] /\ w \notin Callers /\ Owed(w)
        /\ due \in 0 .. 1
    BY OneWaiter DEF CndInv
  <1>4. \A u \in Waiters \cup Callers : cndPc'[u] = IF u = t THEN to ELSE cndPc[u]
    BY <1>1, <1>3
  <1> QED BY <1>1, <1>2, <1>3, <1>4 DEF Owed, Calling

LEMMA OwedWaiter ==
  ASSUME NEW w, Waiters = {w}, CndInv(w),
         \/ WaitCount(w) \/ WaitUnlock(w) \/ WaitOne(w) \/ WaitAll(w)
         \/ WaitBlock(w) \/ WaitTimeOut(w) \/ WakeCount(w) \/ Reset(w)
         \/ Relock(w)
  PROVE  Owed(w)'
  <1>1. /\ cndPc \in [Waiters \cup Callers -> Spots] /\ w \notin Callers /\ Owed(w)
        /\ due \in 0 .. 1 /\ dueAll \subseteq {w} /\ Cardinality({w}) = 1
        /\ Blocked = IF cndPc[w] \in {"unlocked", "blocked"} THEN {w} ELSE {}
    BY OneWaiter DEF CndInv
  <1>2. ASSUME NEW to, cndPc' = [cndPc EXCEPT ![w] = to]
        PROVE  cndPc'[w] = to /\ \A t \in Callers : cndPc'[t] = cndPc[t]
    BY <1>1, <1>2
  <1>3. CASE WaitOne(w) \/ WaitAll(w) \/ WaitTimeOut(w)
    <2>1. due' = 0 /\ w \notin dueAll'
      BY <1>1, <1>3 DEF WaitOne, WaitAll, WaitTimeOut, Released, CndGoto
    <2> QED BY <2>1 DEF Owed
  <1>4. CASE WaitBlock(w)
    <2>1. /\ cndPc[w] = "unlocked" /\ cndPc' = [cndPc EXCEPT ![w] = "blocked"]
          /\ ~one /\ ~all /\ UNCHANGED <<due, dueAll>>
      BY <1>4 DEF WaitBlock, CndGoto, promises
    <2> QED BY <1>1, <1>2, <2>1 DEF Owed, Calling
  <1>5. CASE \/ WaitCount(w) \/ WaitUnlock(w) \/ WakeCount(w) \/ Reset(w)
             \/ Relock(w)
    <2>1. cndPc[w] \notin {"unlocked", "blocked"} /\ UNCHANGED <<due, dueAll>>
      BY <1>5 DEF WaitCount, WaitUnlock, WakeCount, Reset, Relock, CndGoto,
                  promises
    <2>2. ~(due > 0) /\ w \notin dueAll
      BY <1>1, <2>1 DEF Owed
    <2> QED BY <2>1, <2>2 DEF Owed
  <1> QED BY <1>3, <1>4, <1>5

LEMMA OwedCall ==
  ASSUME NEW w, Waiters = {w}, CndInv(w), NEW t \in Callers,
         Signal(t) \/ Broadcast(t)
  PROVE  Owed(w)'
  <1>1. /\ cndPc \in [Waiters \cup Callers -> Spots] /\ w \notin Callers /\ Owed(w)
        /\ due \in 0 .. 1 /\ dueAll \subseteq {w}
        /\ Cardinality({w}) = 1 /\ Cardinality({}) = 0
        /\ Blocked = IF cndPc[w] \in {"unlocked", "blocked"} THEN {w} ELSE {}
        /\ cndPc[w] \in {"unlocked", "blocked"} => HaveWaiters
    BY OneWaiter DEF CndInv
  <1>2. ASSUME NEW kind_, NEW bound, NEW set, Check(t, kind_, bound, set)
        PROVE  /\ cndPc'[w] = cndPc[w] /\ UNCHANGED <<one, all>>
               /\ cndPc[w] \in {"unlocked", "blocked"} => cndPc'[t] = set
               /\ cndPc[t] \in {"out", "held"}
               /\ \A u \in Callers : u # t => cndPc'[u] = cndPc[u]
    BY <1>1, <1>2 DEF Check
  <1>3. CASE Signal(t)
    <2>1. Check(t, "signal", MaxSignals, "setOne") /\ dueAll' = dueAll
          /\ due' = IF due < Cardinality(Blocked) THEN due + 1 ELSE due
      BY <1>3 DEF Signal
    <2>2. CASE cndPc[w] \in {"unlocked", "blocked"}
      BY <1>1, <1>2, <2>1, <2>2 DEF Owed, Calling
    <2>3. CASE cndPc[w] \notin {"unlocked", "blocked"}
      <3>1. due' = due
        BY <1>1, <2>1, <2>3
      <3> QED BY <1>1, <2>1, <2>3, <3>1 DEF Owed
    <2> QED BY <2>2, <2>3
  <1>4. CASE Broadcast(t)
    <2>1. Check(t, "broadcast", MaxBroadcasts, "setAll") /\ due' = due
          /\ dueAll' = dueAll \cup Blocked
      BY <1>4 DEF Broadcast
    <2>2. CASE cndPc[w] \in {"unlocked", "blocked"}
      BY <1>1, <1>2, <2>1, <2>2 DEF Owed, Calling
    <2>3. CASE cndPc[w] \notin {"unlocked", "blocked"}
      <3>1. dueAll' = dueAll
        BY <1>1, <2>1, <2>3
      <3> QED BY <1>1, <2>1, <2>3, <3>1 DEF Owed
    <2> QED BY <2>2, <2>3
  <1> QED BY <1>3, <1>4

\* The events.
LEMMA OwedSet ==
  ASSUME NEW w, Waiters = {w}, CndInv(w), NEW t \in Callers,
         SetOneKeep(t) \/ SetAll(t) \/ SetOneRelease(t, w)
  PROVE  Owed(w)'
  <1>1. /\ cndPc \in [Waiters \cup Callers -> Spots] /\ w \notin Callers /\ Owed(w)
        /\ due \in 0 .. 1 /\ dueAll \subseteq {w}
        /\ Cardinality({w}) = 1 /\ Cardinality({}) = 0
    BY OneWaiter DEF CndInv
  <1>2. CASE SetOneRelease(t, w)
    <2>1. due' = 0 /\ w \notin dueAll'
      BY <1>1, <1>2 DEF SetOneRelease, Released
    <2> QED BY <2>1 DEF Owed
  <1>3. CASE SetOneKeep(t)
    <2>1. /\ cndPc[w] # "blocked" /\ cndPc[t] = "setOne" /\ one' = TRUE
          /\ UNCHANGED <<all, due, dueAll>>
          /\ cndPc' = [cndPc EXCEPT ![t] = Back(t)]
      BY <1>3 DEF SetOneKeep, CndGoto, promises
    <2>2. cndPc'[w] = cndPc[w] /\ \A u \in Callers : u # t => cndPc'[u] = cndPc[u]
      BY <1>1, <2>1
    <2> QED BY <1>1, <2>1, <2>2 DEF Owed, Calling
  <1>4. CASE SetAll(t)
    <2> DEFINE released == {v \in Waiters : cndPc[v] = "blocked"}
    <2>1. /\ cndPc[t] = "setAll" /\ all' = TRUE /\ one' = one
          /\ dueAll' = dueAll \ released
          /\ due' = IF due > Cardinality(released) THEN due - Cardinality(released) ELSE 0
          /\ cndPc' = [u \in DOMAIN cndPc |-> IF u \in released THEN "byAll"
                                              ELSE IF u = t THEN Back(t) ELSE cndPc[u]]
      BY <1>4 DEF SetAll
    <2>2. released = IF cndPc[w] = "blocked" THEN {w} ELSE {}
      OBVIOUS
    <2>3. \A u \in Callers : u # t => cndPc'[u] = cndPc[u]
      <3>1. \A u \in Callers : u \notin released /\ u \in DOMAIN cndPc
        BY <1>1
      <3> HIDE DEF released
      <3> QED BY <2>1, <3>1
    <2>4. CASE cndPc[w] = "blocked"
      <3> HIDE DEF released
      <3>1. due' = 0 /\ w \notin dueAll'
        BY <1>1, <2>1, <2>2, <2>4
      <3> QED BY <3>1 DEF Owed
    <2>5. CASE cndPc[w] # "blocked"
      <3> HIDE DEF released
      <3>1. due' = due /\ dueAll' = dueAll /\ cndPc'[w] = cndPc[w]
        <4>1. released = {} /\ w \in DOMAIN cndPc /\ w # t
          BY <1>1, <2>2, <2>5
        <4> QED BY <1>1, <2>1, <4>1
      <3> QED BY <1>1, <2>1, <2>3, <2>5, <3>1 DEF Owed, Calling
    <2> QED BY <2>4, <2>5
  <1> QED BY <1>2, <1>3, <1>4

LEMMA CndInvNext ==
  ASSUME NEW w, Waiters = {w}, CndInv(w), [CndNext]_cndVars
  PROVE  CndInv(w)'
  <1>1. CountCoversWaiters'
    BY CndNextCovers DEF CndInv
  <1>2. CASE \E t \in Waiters \cup Callers : LockMutex(t) \/ UnlockMutex(t)
    BY <1>1, <1>2, OwedMutex DEF CndInv
  <1>3. CASE \E v \in Waiters :
               \/ WaitCount(v) \/ WaitUnlock(v) \/ WaitOne(v) \/ WaitAll(v)
               \/ WaitBlock(v) \/ WaitTimeOut(v) \/ WakeCount(v) \/ Reset(v)
               \/ Relock(v)
    <2>1. \/ WaitCount(w) \/ WaitUnlock(w) \/ WaitOne(w) \/ WaitAll(w)
          \/ WaitBlock(w) \/ WaitTimeOut(w) \/ WakeCount(w) \/ Reset(w)
          \/ Relock(w)
      BY <1>3
    <2> QED BY <1>1, <2>1, OwedWaiter DEF CndInv
  <1>4. CASE \E t \in Callers :
               \/ Signal(t) \/ Broadcast(t) \/ SetOneKeep(t) \/ SetAll(t)
               \/ \E v \in Waiters : SetOneRelease(t, v)
    <2>1. PICK t \in Callers :
            \/ Signal(t) \/ Broadcast(t)
            \/ SetOneKeep(t) \/ SetAll(t) \/ SetOneRelease(t, w)
      BY <1>4
    <2>2. CASE Signal(t) \/ Broadcast(t)
      BY <1>1, <2>2, OwedCall DEF CndInv
    <2>3. CASE SetOneKeep(t) \/ SetAll(t) \/ SetOneRelease(t, w)
      BY <1>1, <2>3, OwedSet DEF CndInv
    <2> QED BY <2>1, <2>2, <2>3
  <1>5. CASE UNCHANGED cndVars
    BY <1>1, <1>5 DEF CndInv, Owed, Calling, cndVars
  <1> QED BY <1>2, <1>3, <1>4, <1>5 DEF CndNext

\* What is owed to the waiter is on its way, so none is owed when no call is.
LEMMA WaiterLosesNone ==
  ASSUME NEW w, Waiters = {w}
  PROVE  CndSpec => []NoLostWakeup
  <1>1. CndInit => CndInv(w)
    BY CndInitCovers DEF CndInv, Owed, CndInit
  <1>2. CndInv(w) /\ [CndNext]_cndVars => CndInv(w)'
    BY CndInvNext
  <1>3. CndInv(w) => NoLostWakeup
    <2> SUFFICES ASSUME CndInv(w) PROVE NoLostWakeup
      OBVIOUS
    <2>1. due \in 0 .. 1 /\ CountCoversWaiters /\ Owed(w)
      BY OneWaiter DEF CndInv
    <2>2. SignalUnblocksOne
      BY <2>1 DEF SignalUnblocksOne, Owed, Calling
    <2>3. BroadcastUnblocksAll
      BY <2>1 DEF BroadcastUnblocksAll, Owed, Calling
    <2> QED BY <2>1, <2>2, <2>3 DEF NoLostWakeup
  <1> QED BY <1>1, <1>2, <1>3, PTL DEF CndSpec

------------------------------------------------------------------------------
(* Arithmetic of the clock.                                                 *)

LEMMA DivMod ==
  ASSUME NEW x \in Nat, NEW n \in Nat, n >= 1
  PROVE  /\ x \div n \in Nat /\ x % n \in 0 .. n - 1
         /\ x = n * (x \div n) + (x % n)
  <1>1. x % n \in 0 .. n - 1
    BY Z3
  <1>2. x = n * (x \div n) + (x % n)
    BY Z3
  <1>3. x \div n \in Nat
    BY Z3
  <1> QED BY <1>1, <1>2, <1>3

\* Of two products with one factor, the larger has the larger other factor.
LEMMA FactorOrder ==
  ASSUME NEW n \in Nat, n > 0, NEW a \in Int, NEW b \in Int
  PROVE  /\ n * a \in Int
         /\ n * a < n * b => a < b
         /\ n * a <= n * b => a <= b
         /\ a <= b => n * a <= n * b
         /\ n * (a + b) = n * a + n * b
         /\ n * (a - b) = n * a - n * b
         /\ a * n = n * a
  <1>1. n * a \in Int /\ n * b \in Int /\ a * n = n * a
    BY Z3
  <1>2. n * (a + b) = n * a + n * b
    BY Z3
  <1>3. n * (a - b) = n * a - n * b
    BY Z3
  <1>4. \A c \in Nat : n * c >= 0
    BY Z3
  <1>5. a <= b => n * a <= n * b
    <2> SUFFICES ASSUME a <= b PROVE n * a <= n * b
      OBVIOUS
    <2>1. n * (b - a) >= 0 /\ n * (b - a) = n * b - n * a
      <3>1. b - a \in Nat /\ n * (b - a) = n * b - n * a
        BY Z3
      <3> QED BY <1>4, <3>1
    <2> QED BY <1>1, <2>1
  <1>6. b < a => n * b < n * a
    <2> SUFFICES ASSUME b < a PROVE n * b < n * a
      OBVIOUS
    <2>1. a - b - 1 \in Nat /\ n * (a - b - 1) = n * a - n * b - n
      BY Z3
    <2>2. n * (a - b - 1) >= 0
      BY <1>4, <2>1
    <2> QED BY <1>1, <2>1, <2>2
  <1>7. n * a < n * b => a < b
    BY <1>1, <1>5, <1>6
  <1>8. n * a <= n * b => a <= b
    BY <1>1, <1>6
  <1> QED BY <1>1, <1>2, <1>3, <1>5, <1>7, <1>8

\* A quotient is the only one whose rest is in range.
LEMMA DivUnique ==
  ASSUME NEW n \in Nat, n > 0, NEW q \in Int, NEW x \in Nat, n * q <= x, x < n * (q + 1)
  PROVE  x \div n = q
  <1> DEFINE p == x \div n
  <1>1. p \in Int /\ n * p <= x /\ x < n * (p + 1)
    BY DivMod, FactorOrder, Z3
  <1> HIDE DEF p
  <1>2. n * p < n * (q + 1) /\ n * q < n * (p + 1) /\ q + 1 \in Int /\ p + 1 \in Int
    BY <1>1, FactorOrder
  <1>3. p < q + 1 /\ q < p + 1
    BY <1>1, <1>2, FactorOrder
  <1>4. p = q
    BY <1>1, <1>3
  <1> QED BY <1>4 DEF p

\* The clock of timespec_get is less than a tick of its own behind, and in
\* the same millisecond.
LEMMA ClockBehind ==
  ASSUME NEW x \in Nat
  PROVE  /\ timespec_get(x) \in Nat
         /\ timespec_get(x) <= x /\ x - timespec_get(x) < Resolution
         /\ timespec_get(x) \div NsPerMs = x \div NsPerMs
  <1> DEFINE n == NsPerMs
             r == Resolution
             a == x \div r
             b == x % r
             k == n \div r
             q == x \div n
  <1>1. n \in Nat /\ n > 0 /\ r \in Nat /\ r > 0 /\ n % r = 0
    BY ClockAssumption
  <1> HIDE DEF n, r
  <1>2. /\ a \in Nat /\ b \in Nat /\ b < r /\ x = r * a + b
        /\ k \in Nat /\ n = r * k
        /\ q \in Nat /\ n * q <= x /\ x < n * (q + 1)
    <2>1. a \in Int /\ b \in 0 .. r - 1 /\ x = r * a + b /\ a \in Nat
      BY <1>1, DivMod
    <2>2. k \in Nat /\ n = r * k + 0
      <3>1. n \in Nat /\ r \in Nat /\ r >= 1
        BY <1>1
      <3>2. k \in Nat /\ n = r * k + (n % r)
        BY <3>1, DivMod
      <3> HIDE DEF k
      <3> QED BY <1>1, <3>2
    <2>3. q \in Nat /\ x = n * q + (x % n) /\ x % n \in 0 .. n - 1 /\ n * q \in Int
      <3>1. n \in Nat /\ n >= 1
        BY <1>1
      <3>2. q \in Nat /\ x = n * q + (x % n) /\ x % n \in 0 .. n - 1
        BY <3>1, DivMod
      <3> HIDE DEF q
      <3>3. q \in Int
        BY <3>2
      <3>4. n * q \in Int
        BY <1>1, <3>3, FactorOrder
      <3> QED BY <3>2, <3>4
    <2>4. r * k \in Int
      BY <1>1, <2>2, FactorOrder
    <2>5. n * (q + 1) = n * q + n
      BY <1>1, <2>3, FactorOrder, Z3
    <2> QED BY <1>1, <2>1, <2>2, <2>3, <2>4, <2>5
  <1> HIDE DEF a, b, k, q
  <1>3. r * a = x - b /\ r * a \in Int
    BY <1>1, <1>2, FactorOrder
  <1>4. n * q <= r * a
    <2>1. k * q \in Int /\ r * (k * q) = n * q
      BY <1>1, <1>2, Z3
    <2>2. r * (k * q) < r * (a + 1)
      <3>1. r * (a + 1) = r * a + r
        BY <1>1, <1>2, Z3
      <3> QED BY <1>1, <1>2, <1>3, <2>1, <3>1
    <2>3. k * q < a + 1
      BY <1>1, <1>2, <2>1, <2>2, FactorOrder
    <2>4. k * q <= a
      BY <1>2, <2>1, <2>3
    <2> QED BY <1>1, <1>2, <2>1, <2>4, FactorOrder
  <1>5. r * a < n * (q + 1) /\ n * q \in Int
    BY <1>1, <1>2, <1>3, FactorOrder
  <1>6. (r * a) \div n = q
    <2>1. r * a \in Nat
      BY <1>1, <1>2, Z3
    <2> QED BY <1>1, <1>2, <1>4, <1>5, <2>1, DivUnique
  <1>7. timespec_get(x) = r * a
    BY <1>3 DEF timespec_get, r, b
  <1>8. r * a >= 0
    BY <1>1, <1>2, Z3
  <1> QED BY <1>2, <1>3, <1>6, <1>7, <1>8 DEF n, r, q

LEMMA SmallMod ==
  ASSUME NEW x \in Nat, NEW n \in Nat, x < n
  PROVE  x % n = x
  BY Z3

\* A whole number of milliseconds, and the rest.
LEMMA Millis ==
  ASSUME NEW x \in Nat
  PROVE  /\ x \div NsPerMs \in Nat /\ NsPerMs * (x \div NsPerMs) \in Int
         /\ NsPerMs * (x \div NsPerMs) <= x /\ x < NsPerMs * (x \div NsPerMs) + NsPerMs
  <1> DEFINE n == NsPerMs
             q == x \div n
  <1>1. n \in Nat /\ n >= 1 /\ n > 0
    BY ClockAssumption
  <1> HIDE DEF n
  <1>2. q \in Nat /\ x = n * q + (x % n) /\ x % n \in 0 .. n - 1
    BY <1>1, DivMod
  <1> HIDE DEF q
  <1>3. n * q \in Int
    BY <1>1, <1>2, FactorOrder
  <1>4. n * q <= x /\ x < n * q + n
    BY <1>1, <1>2, <1>3
  <1> QED BY <1>2, <1>3, <1>4 DEF n, q

\* What cnd_timedwait waits for, if it fits a DWORD.
LEMMA CndTimeoutBounds ==
  ASSUME NEW from \in Nat, NEW ts \in Nat, NEW ms,
         ms = CndTimeoutMs(timespec_get(from), ts),
         ts - from < (INFINITE - 1) * NsPerMs
  PROVE  /\ ms \in Nat /\ ms # INFINITE /\ ms * NsPerMs \in Nat
         /\ from + ms * NsPerMs > ts - NsPerMs
         /\ ts > from => ms * NsPerMs < ts - from + NsPerMs
         /\ ts <= from => ms * NsPerMs = 0
  <1> DEFINE n == NsPerMs
             p == ts \div n
             q == from \div n
  <1>1. n \in Nat /\ n > 0 /\ DWord \in Nat /\ DWord > 1 /\ INFINITE = DWord - 1
    BY ClockAssumption DEF INFINITE
  <1>2. /\ p \in Nat /\ n * p \in Int /\ n * p <= ts /\ ts < n * p + n
        /\ q \in Nat /\ n * q \in Int /\ n * q <= from /\ from < n * q + n
    BY Millis
  <1>3. ms = IF p > q THEN (p - q) % DWord ELSE 0
    BY ClockBehind DEF CndTimeoutMs
  <1>4. ts - from < n * (INFINITE - 1) /\ n * (INFINITE - 1) \in Int
        /\ n * INFINITE = n * (INFINITE - 1) + n /\ n * INFINITE \in Int
    <2>1. INFINITE - 1 \in Int /\ INFINITE \in Int
      BY <1>1
    <2> HIDE DEF n
    <2>2. n * INFINITE = n * (INFINITE - 1) + n * 1
      <3>1. INFINITE = (INFINITE - 1) + 1
        BY <2>1
      <3> QED BY <1>1, <2>1, <3>1, FactorOrder
    <2>3. (INFINITE - 1) * n = n * (INFINITE - 1)
      BY <1>1, <2>1, FactorOrder
    <2> QED BY <1>1, <2>1, <2>2, <2>3, FactorOrder DEF n
  <1> HIDE DEF n, p, q
  <1>5. CASE p > q
    <2>1. p - q \in Nat /\ n * (p - q) = n * p - n * q
      BY <1>1, <1>2, <1>5, FactorOrder
    <2>2. n * (p - q) < n * INFINITE
      BY <1>1, <1>2, <1>4, <2>1
    <2>3. p - q < INFINITE
      BY <1>1, <2>1, <2>2, FactorOrder
    <2>4. ms = p - q
      <3>1. p - q < DWord
        BY <1>1, <2>1, <2>3
      <3> QED BY <1>1, <1>3, <1>5, <2>1, <3>1, SmallMod
    <2>5. ms * n = n * p - n * q /\ ms * n \in Int
      BY <1>1, <2>1, <2>4, FactorOrder
    <2>6. ~(ts <= from)
      <3>1. n * q + n <= n * p
        <4>1. n * (q + 1) <= n * p /\ n * (q + 1) = n * q + n * 1
          BY <1>1, <1>2, <1>5, FactorOrder
        <4> QED BY <1>1, <4>1
      <3> QED BY <1>1, <1>2, <3>1
    <2>7. ms * n \in Nat
      BY <1>1, <1>2, <1>5, <2>1, <2>4, Z3
    <2>8. from + ms * n > ts - n /\ ms * n < ts - from + n
      BY <1>1, <1>2, <2>5
    <2> QED BY <2>1, <2>3, <2>4, <2>6, <2>7, <2>8, <1>1 DEF n
  <1>6. CASE ~(p > q)
    <2>1. ms = 0 /\ ms * n = 0
      BY <1>1, <1>3, <1>6
    <2>2. n * p <= n * q
      BY <1>1, <1>2, <1>6, FactorOrder
    <2>3. from > ts - n
      BY <1>1, <1>2, <2>2
    <2> QED BY <1>1, <2>1, <2>3 DEF n
  <1> QED BY <1>5, <1>6

------------------------------------------------------------------------------
(* The time limit of cnd_timedwait.                                         *)

\* The clock stops no step that TtCnd has not.
LEMMA CndTimeSteps == [CndTimeNext]_cndTimeVars => [CndNext]_cndVars
  BY DEF CndTimeNext, cndTimeVars, cndVars, CndNext, Untimed, cnd_wait,
         cnd_timedwait, Block, TimedOutAt, WokenUp, CndTick

\* TtCndTime is TtCnd with a clock: what holds of every wait holds of those
\* with a limit, whatever it is.
THEOREM CndTimeImplementsCnd == CndTimeSpec => CndSpec
  <1>1. CndTimeInit => CndInit
    BY DEF CndTimeInit
  <1> QED BY <1>1, CndTimeSteps, PTL DEF CndTimeSpec, CndSpec

WaitRecs == [ts : Int, ms : Int, from : Int, since : Int, until : Int]

\* The milliseconds are those of the limit from the call, and are counted
\* from the time of blocking; a limit is forgotten when its wait is over.
LimitKept(r, at, time) ==
  /\ r \in WaitRecs
  /\ at \notin CountedAt => r.ts = Never
  /\ r.ts # Never => /\ r.ts \in Nat /\ r.from \in Nat /\ r.from <= time
                     /\ r.ms = CndTimeoutMs(timespec_get(r.from), r.ts)
  /\ at = "blocked" => /\ r.since \in Nat
                       /\ r.ts # Never => r.since >= r.from
                       /\ r.until = IF r.ms = INFINITE THEN Never ELSE r.since + r.ms * NsPerMs

CndTimes ==
  /\ now \in Nat
  /\ cndWait = [w \in Waiters |-> cndWait[w]]
  /\ \A w \in Waiters : LimitKept(cndWait[w], cndPc[w], now)

\* A wait goes on, or is over and not yet forgotten.
LEMMA LimitStays ==
  ASSUME NEW r, NEW at, NEW at2, NEW time \in Nat, NEW time2 \in Nat, time <= time2,
         LimitKept(r, at, time),
         at2 = at \/ (at2 # "blocked" /\ (at \in CountedAt => at2 \in CountedAt))
  PROVE  LimitKept(r, at2, time2)
  BY DEF LimitKept

LEMMA UntimedMoves ==
  ASSUME CndTypeOK, Untimed, NEW w \in Waiters
  PROVE  \/ cndPc'[w] = cndPc[w]
         \/ cndPc'[w] # "blocked" /\ (cndPc[w] \in CountedAt => cndPc'[w] \in CountedAt)
  <1>1. cndPc \in [Waiters \cup Callers -> Spots] /\ w \notin Callers
    BY CndAssumption DEF CndTypeOK, Spots
  <1>2. ASSUME NEW t \in Waiters \cup Callers, NEW from, NEW to, CndGoto(t, from, to)
        PROVE  cndPc[t] = from /\ cndPc'[w] = IF t = w THEN to ELSE cndPc[w]
    BY <1>1, <1>2 DEF CndGoto
  <1>3. CASE \E t \in Waiters \cup Callers : LockMutex(t) \/ UnlockMutex(t)
    <2>1. PICK t \in Waiters \cup Callers : CndGoto(t, "out", "held") \/ CndGoto(t, "held", "out")
      BY <1>3 DEF LockMutex, UnlockMutex
    <2> QED BY <1>2, <2>1 DEF CountedAt
  <1>4. CASE \E v \in Waiters :
               \/ WaitUnlock(v) \/ WaitOne(v) \/ WaitAll(v)
               \/ Reset(v) \/ Relock(v)
    <2>1. PICK v \in Waiters :
            \/ CndGoto(v, "counted", "unlocked") \/ CndGoto(v, "unlocked", "byOne")
            \/ CndGoto(v, "unlocked", "byAll") \/ CndGoto(v, "reset", "relock")
            \/ CndGoto(v, "relock", "held")
      BY <1>4 DEF WaitUnlock, WaitOne, WaitAll, Reset, Relock
    <2> QED BY <1>2, <2>1 DEF CountedAt
  <1>5. ASSUME NEW t \in Callers,
               Signal(t) \/ Broadcast(t) \/ SetOneKeep(t)
        PROVE  cndPc'[w] = cndPc[w]
    BY <1>1, <1>5 DEF Signal, Broadcast, Check, SetOneKeep, CndGoto
  <1>6. ASSUME NEW t \in Callers, SetAll(t)
        PROVE  cndPc'[w] = IF cndPc[w] = "blocked" THEN "byAll" ELSE cndPc[w]
    BY <1>1, <1>6 DEF SetAll
  <1>7. ASSUME NEW t \in Callers, NEW v \in Waiters, SetOneRelease(t, v)
        PROVE  cndPc'[w] = IF w = v THEN "byOne" ELSE cndPc[w]
    BY <1>1, <1>7 DEF SetOneRelease
  <1>8. CASE \E t \in Callers : SetAll(t)
    BY <1>6, <1>8 DEF CountedAt
  <1>9. CASE \E t \in Callers, v \in Waiters : SetOneRelease(t, v)
    BY <1>7, <1>9 DEF CountedAt
  <1> QED BY <1>3, <1>4, <1>5, <1>8, <1>9 DEF Untimed

\* The step of one waiter that sets its limit.
LEMMA LimitSet ==
  ASSUME CndTypeOK, CndTimes, NEW w \in Waiters, NEW to \in Spots,
         NEW r, LimitKept(r, to, now), now' = now,
         cndPc' = [cndPc EXCEPT ![w] = to], cndWait' = [cndWait EXCEPT ![w] = r]
  PROVE  CndTimes'
  <1>1. /\ cndPc'[w] = to /\ cndWait'[w] = r
        /\ \A v \in Waiters : v # w => cndPc'[v] = cndPc[v] /\ cndWait'[v] = cndWait[v]
    BY DEF CndTimes, CndTypeOK
  <1>2. cndWait' = [v \in Waiters |-> cndWait'[v]]
    BY DEF CndTimes
  <1> QED BY <1>1, <1>2 DEF CndTimes

LEMMA NoLimit ==
  ASSUME NEW at, at # "blocked"
  PROVE  LimitKept(NoCndWait, at, now)
  BY ClockAssumption DEF LimitKept, NoCndWait, WaitRecs, Never, INFINITE

LEMMA CndTimesInit == CndTimeInit => CndTimes
  <1> SUFFICES ASSUME CndTimeInit PROVE CndTimes
    OBVIOUS
  <1>1. \A w \in Waiters : cndPc[w] = "out" /\ cndWait[w] = NoCndWait
    BY DEF CndTimeInit, CndInit
  <1>2. \A w \in Waiters : LimitKept(cndWait[w], cndPc[w], now)
    BY <1>1, NoLimit
  <1> QED BY <1>2 DEF CndTimes, CndTimeInit

LEMMA CndTimesNext ==
  ASSUME CndTypeOK, CndTimes, [CndTimeNext]_cndTimeVars
  PROVE  CndTimes'
  <1>1. CASE Untimed
    <2>1. now' = now /\ cndWait' = cndWait
      BY <1>1 DEF Untimed
    <2>2. ASSUME NEW w \in Waiters PROVE LimitKept(cndWait[w], cndPc'[w], now)
      <3>1. now \in Nat /\ now <= now /\ LimitKept(cndWait[w], cndPc[w], now)
        BY DEF CndTimes
      <3>2. \/ cndPc'[w] = cndPc[w]
            \/ cndPc'[w] # "blocked" /\ (cndPc[w] \in CountedAt => cndPc'[w] \in CountedAt)
        BY <1>1, UntimedMoves
      <3> QED BY <3>1, <3>2, LimitStays
    <2> QED BY <2>1, <2>2 DEF CndTimes
  <1>2. CASE CndTick
    <2>1. now' = now + 1 /\ cndWait' = cndWait /\ cndPc' = cndPc
      BY <1>2 DEF CndTick, cndVars
    <2>2. now \in Nat /\ now + 1 \in Nat /\ now <= now + 1
      BY DEF CndTimes
    <2>3. \A w \in Waiters : LimitKept(cndWait[w], cndPc[w], now + 1)
      BY <2>2, LimitStays DEF CndTimes
    <2> QED BY <2>1, <2>2, <2>3 DEF CndTimes
  <1>3. ASSUME NEW w \in Waiters, cnd_wait(w) PROVE CndTimes'
    <2>1. /\ cndPc[w] = "held" /\ cndPc' = [cndPc EXCEPT ![w] = "counted"]
          /\ now' = now /\ cndWait' = cndWait
      BY <1>3 DEF cnd_wait, WaitCount, CndGoto
    <2>2. \A v \in Waiters : cndPc'[v] = IF v = w THEN "counted" ELSE cndPc[v]
      BY <2>1 DEF CndTypeOK
    <2>3. \A v \in Waiters : LimitKept(cndWait[v], cndPc'[v], now)
      BY <2>1, <2>2, LimitStays DEF CndTimes, CountedAt
    <2> QED BY <2>1, <2>3 DEF CndTimes
  <1>4. ASSUME NEW w \in Waiters, NEW ts \in Limits, cnd_timedwait(w, ts) PROVE CndTimes'
    <2> DEFINE ms == CndTimeoutMs(timespec_get(now), ts)
               none == NoCndWait
               r == [none EXCEPT !.ts = ts, !.from = now, !.ms = ms]
    <2>1. /\ cndPc' = [cndPc EXCEPT ![w] = "counted"] /\ now' = now
          /\ cndWait' = [cndWait EXCEPT ![w] = r]
      BY <1>4 DEF cnd_timedwait, WaitCount, CndGoto
    <2>2. ts \in Nat /\ now \in Nat
      BY LimitAssumption DEF CndTimes
    <2>3. ms \in Int
      <3>1. ts \div NsPerMs \in Nat /\ timespec_get(now) \div NsPerMs \in Nat
        BY <2>2, ClockBehind, Millis
      <3>2. DWord \in Nat /\ DWord >= 1
        BY ClockAssumption
      <3>3. \A x \in Nat : x % DWord \in Int
        BY <3>2, DivMod
      <3> QED BY <3>1, <3>3 DEF CndTimeoutMs
    <2> HIDE DEF ms
    <2>4. r \in WaitRecs /\ r.ts = ts /\ r.from = now /\ r.ms = ms
      <3>1. none \in WaitRecs
        BY NoLimit DEF LimitKept
      <3> HIDE DEF none
      <3>2. ts \in Int /\ now \in Int
        BY <2>2
      <3>3. r \in WaitRecs
        BY <2>3, <3>1, <3>2 DEF WaitRecs
      <3>4. r.ts = ts
        BY <3>1 DEF WaitRecs
      <3>5. r.from = now
        BY <3>1 DEF WaitRecs
      <3>6. r.ms = ms
        BY <3>1 DEF WaitRecs
      <3> QED BY <3>3, <3>4, <3>5, <3>6
    <2> HIDE DEF r
    <2>5. LimitKept(r, "counted", now)
      <3>1. r \in WaitRecs /\ "counted" \in CountedAt /\ "counted" # "blocked"
        BY <2>4 DEF CountedAt
      <3>2. r.ts = ts /\ r.from = now /\ r.ms = CndTimeoutMs(timespec_get(now), ts)
        BY <2>4 DEF ms
      <3> QED BY <2>2, <3>1, <3>2 DEF LimitKept
    <2> QED BY <2>1, <2>5, LimitSet DEF Spots
  <1>5. ASSUME NEW w \in Waiters, Block(w) PROVE CndTimes'
    <2> DEFINE old == cndWait[w]
               r == [old EXCEPT !.since = now, !.until = After(old.ms)]
    <2>1. /\ cndPc[w] = "unlocked" /\ cndPc' = [cndPc EXCEPT ![w] = "blocked"] /\ now' = now
          /\ cndWait' = [cndWait EXCEPT ![w] = r]
      BY <1>5 DEF Block, WaitBlock, CndGoto
    <2>2. now \in Nat /\ LimitKept(old, "unlocked", now)
      BY <2>1 DEF CndTimes
    <2>3. old.ms \in Int /\ old.ms * NsPerMs \in Int /\ After(old.ms) \in Int
      <3>1. old.ms \in Int /\ NsPerMs \in Nat /\ NsPerMs > 0
        BY <2>2, ClockAssumption DEF LimitKept, WaitRecs
      <3>2. old.ms * NsPerMs \in Int
        BY <3>1, FactorOrder
      <3> QED BY <2>2, <3>1, <3>2 DEF After, Never
    <2>4. old \in WaitRecs
      BY <2>2 DEF LimitKept
    <2> HIDE DEF old
    <2>5. /\ r \in WaitRecs /\ r.ts = old.ts /\ r.ms = old.ms /\ r.from = old.from
          /\ r.since = now /\ r.until = After(old.ms)
      <3>1. now \in Int /\ After(old.ms) \in Int
        BY <2>2, <2>3
      <3> QED BY <2>4, <3>1 DEF WaitRecs
    <2> HIDE DEF r
    <2>6. LimitKept(r, "blocked", now)
      BY <2>2, <2>3, <2>5 DEF LimitKept, CountedAt, After
    <2> HIDE DEF r
    <2> QED BY <2>1, <2>6, LimitSet DEF Spots
  <1>6. ASSUME NEW w \in Waiters, TimedOutAt(w) \/ WokenUp(w) PROVE CndTimes'
    <2>1. PICK to \in {"relock", "reset"} : cndPc' = [cndPc EXCEPT ![w] = to]
      BY <1>6 DEF TimedOutAt, WaitTimeOut, WokenUp, WakeCount, CndGoto
    <2>2. now' = now /\ cndWait' = [cndWait EXCEPT ![w] = NoCndWait]
      BY <1>6 DEF TimedOutAt, WokenUp, ForgetLimit
    <2>3. LimitKept(NoCndWait, to, now) /\ to \in Spots
      BY NoLimit DEF Spots
    <2> QED BY <2>1, <2>2, <2>3, LimitSet
  <1>7. CASE UNCHANGED cndTimeVars
    BY <1>7 DEF CndTimes, cndTimeVars, cndVars
  <1> QED BY <1>1, <1>2, <1>3, <1>4, <1>5, <1>6, <1>7 DEF CndTimeNext

\* tinycthread.h:312: cnd_timedwait waits "until after the specified time".
\* For any limits, and any number of waiters and callers, a wait whose
\* milliseconds fit a DWORD ends less than one of them before its limit, and
\* after it by no more than went by before the thread blocked and what the
\* clock does not tell; a limit that has passed ends it at once.
THEOREM CndTimedWaitNearLimit == CndTimeSpec => []TimedWaitNearLimit
  <1>1. CountCoversWaiters => CndTypeOK
    BY DEF CountCoversWaiters
  <1>2. CndTimes => TimedWaitNearLimit
    <2> SUFFICES ASSUME CndTimes, NEW w \in Waiters, cndPc[w] = "blocked",
                        cndWait[w].ts # Never,
                        cndWait[w].ts - cndWait[w].from < (INFINITE - 1) * NsPerMs
                 PROVE  /\ cndWait[w].until > cndWait[w].ts - NsPerMs
                        /\ cndWait[w].ts > cndWait[w].from =>
                             cndWait[w].until < cndWait[w].ts
                               + (cndWait[w].since - cndWait[w].from) + NsPerMs + Resolution
                        /\ cndWait[w].ts <= cndWait[w].from =>
                             cndWait[w].until = cndWait[w].since
      BY DEF TimedWaitNearLimit
    <2> DEFINE r == cndWait[w]
               wait_ == r.ms * NsPerMs
    <2>1. /\ r.ts \in Nat /\ r.from \in Nat /\ r.since \in Nat /\ r.since >= r.from
          /\ r.ms = CndTimeoutMs(timespec_get(r.from), r.ts)
          /\ r.until = IF r.ms = INFINITE THEN Never ELSE r.since + wait_
      BY DEF CndTimes, LimitKept
    <2>2. /\ r.ms # INFINITE /\ wait_ \in Nat
          /\ r.from + wait_ > r.ts - NsPerMs
          /\ r.ts > r.from => wait_ < r.ts - r.from + NsPerMs
          /\ r.ts <= r.from => wait_ = 0
      BY <2>1, CndTimeoutBounds
    <2>3. NsPerMs \in Nat /\ Resolution \in Nat
      BY ClockAssumption
    <2> HIDE DEF wait_
    <2> QED BY <2>1, <2>2, <2>3
  <1>3. CndTimeSpec => []CountCoversWaiters
    BY CndTimeImplementsCnd, CndCountCoversWaiters, PTL
  <1> QED BY <1>1, <1>2, <1>3, CndTimesInit, CndTimesNext, PTL DEF CndTimeSpec

\* No wakeup is lost to the thread that waits (cnd_signal, cnd_broadcast and
\* _cnd_timedwait_win32 of tinycthread.c), for any number of callers and of
\* calls: once no call of cnd_signal or cnd_broadcast is under way, the waiter
\* is not blocked with a release owed to it.  This is for one waiter, as in the
\* program: of two, one may miss the wakeup owed to it, as README.md explains.
THEOREM CndNoLostWakeup ==
  ASSUME NEW w, Waiters = {w}
  PROVE  CndTimeSpec => []NoLostWakeup
  BY CndTimeImplementsCnd, WaiterLosesNone, PTL

------------------------------------------------------------------------------
(* The time limits of mtx_timedlock and thrd_sleep.                         *)

LEMMA Seconds ==
  ASSUME NEW x \in Nat
  PROVE  /\ NsPerSec \in Nat /\ NsPerSec > 0 /\ NsPerSec = NsPerMs * MsPerSec
         /\ Sec(x) \in Nat /\ NsPerSec * Sec(x) \in Int
         /\ Nsec(x) \in 0 .. NsPerSec - 1
         /\ x = NsPerSec * Sec(x) + Nsec(x)
  <1>1. NsPerMs \in Nat /\ NsPerMs > 0 /\ MsPerSec \in Nat /\ MsPerSec > 0
    BY ClockAssumption
  <1>2. NsPerSec = NsPerMs * MsPerSec
    BY DEF NsPerSec
  <1>3. NsPerSec \in Nat /\ NsPerSec >= 1
    <2>1. NsPerMs * 1 <= NsPerMs * MsPerSec /\ NsPerMs * MsPerSec \in Int
      BY <1>1, FactorOrder
    <2> QED BY <1>1, <1>2, <2>1
  <1>4. /\ x \div NsPerSec \in Nat /\ x % NsPerSec \in 0 .. NsPerSec - 1
        /\ x = NsPerSec * (x \div NsPerSec) + (x % NsPerSec)
    BY <1>3, DivMod
  <1>5. NsPerSec * (x \div NsPerSec) \in Int
    BY <1>3, <1>4, FactorOrder
  <1> QED BY <1>2, <1>3, <1>4, <1>5 DEF Sec, Nsec

\* Seconds are whole numbers of milliseconds.
LEMMA SecondsMillis ==
  ASSUME NEW a \in Int, NEW b \in Int
  PROVE  /\ a * MsPerSec \in Int
         /\ NsPerMs * (a * MsPerSec + b) = NsPerSec * a + NsPerMs * b
  <1>1. NsPerMs \in Nat /\ NsPerMs > 0 /\ MsPerSec \in Nat /\ MsPerSec > 0
    BY ClockAssumption
  <1>2. a * MsPerSec \in Int
    BY <1>1, FactorOrder
  <1>3. NsPerMs * (a * MsPerSec + b) = NsPerMs * (a * MsPerSec) + NsPerMs * b
    BY <1>1, <1>2, FactorOrder
  <1>4. NsPerMs * (a * MsPerSec) = NsPerSec * a
    <2> DEFINE n == NsPerMs
               m == MsPerSec
    <2>1. n \in Int /\ m \in Int
      BY <1>1
    <2> HIDE DEF n, m
    <2>2. n * (a * m) = (n * m) * a
      BY <2>1, Z3
    <2> QED BY <2>2 DEF n, m, NsPerSec
  <1> QED BY <1>2, <1>3, <1>4

\* A quotient that truncates towards zero is off by less than one.
LEMMA QuotientNear ==
  ASSUME NEW e \in Int
  PROVE  /\ Quotient(e, NsPerMs) \in Int /\ NsPerMs * Quotient(e, NsPerMs) \in Int
         /\ NsPerMs * Quotient(e, NsPerMs) > e - NsPerMs
         /\ NsPerMs * Quotient(e, NsPerMs) < e + NsPerMs
  <1> DEFINE n == NsPerMs
  <1>1. n \in Nat /\ n > 0
    BY ClockAssumption
  <1>2. CASE e >= 0
    <2>1. e \in Nat
      BY <1>2
    <2>2. /\ e \div n \in Nat /\ n * (e \div n) \in Int /\ n * (e \div n) <= e
          /\ e < n * (e \div n) + n
      BY <2>1, Millis
    <2>3. Quotient(e, n) = e \div n
      BY <1>2 DEF Quotient
    <2> HIDE DEF n
    <2> QED BY <1>1, <2>2, <2>3 DEF n
  <1>3. CASE ~(e >= 0)
    <2>1. 0 - e \in Nat
      BY <1>3
    <2> DEFINE q == (0 - e) \div n
    <2>2. q \in Nat /\ n * q \in Int /\ n * q <= 0 - e /\ 0 - e < n * q + n
      BY <2>1, Millis
    <2>3. Quotient(e, n) = 0 - q
      BY <1>3 DEF Quotient
    <2> HIDE DEF n, q
    <2>4. n * (0 - q) = n * 0 - n * q /\ n * 0 = 0
      BY <1>1, <2>2, FactorOrder
    <2> QED BY <1>1, <2>2, <2>3, <2>4 DEF n
  <1> QED BY <1>2, <1>3

\* So many milliseconds that they fit a DWORD.
LEMMA FitsDWord ==
  ASSUME NEW g \in Int, NEW limit \in Int, g >= 0,
         limit <= (INFINITE - 2) * NsPerMs, NsPerMs * g < limit + 2 * NsPerMs
  PROVE  g % DWord = g /\ g # INFINITE
  <1> DEFINE n == NsPerMs
  <1>1. n \in Nat /\ n > 0 /\ DWord \in Nat /\ DWord > 1 /\ INFINITE = DWord - 1
    BY ClockAssumption DEF INFINITE
  <1> HIDE DEF n
  <1>2. /\ (INFINITE - 2) * n = n * (INFINITE - 2) /\ n * (INFINITE - 2) = n * INFINITE - n * 2
        /\ n * INFINITE \in Int /\ n * 2 = 2 * n /\ n * g \in Int
    BY <1>1, FactorOrder
  <1>3. n * g < n * INFINITE
    BY <1>1, <1>2 DEF n
  <1>4. g < INFINITE
    BY <1>1, <1>3, FactorOrder
  <1> QED BY <1>1, <1>4, SmallMod

\* What mtx_timedlock waits for, from a point in time to a later one.
LEMMA TimeoutBounds ==
  ASSUME NEW from \in Nat, NEW ts \in Nat, from <= ts, NEW ms,
         ms = TimeoutMs(timespec_get(from), ts),
         ts - timespec_get(from) <= (INFINITE - 2) * NsPerMs
  PROVE  ms # INFINITE /\ from + ms * NsPerMs \in ts .. ts + 2 * NsPerMs + Resolution - 1
  <1> DEFINE n == NsPerMs
             cur == timespec_get(from)
             a == Sec(ts) - Sec(cur)
             e == Nsec(ts) - Nsec(cur)
             g == a * MsPerSec + Quotient(e, n) + 1
  <1>1. /\ n \in Nat /\ n > 0 /\ Resolution \in Nat /\ Resolution > 0 /\ DWord > 1 /\ DWord \in Nat
        /\ INFINITE = DWord - 1
    BY ClockAssumption DEF INFINITE
  <1>2. cur \in Nat /\ cur <= from /\ from - cur < Resolution
    BY ClockBehind
  <1>3. CASE cur >= ts
    <2>1. ms = 0 /\ from = ts
      BY <1>2, <1>3 DEF TimeoutMs
    <2>2. ms * n = 0
      BY <1>1, <2>1
    <2> QED BY <1>1, <2>1, <2>2
  <1>4. CASE ~(cur >= ts)
    <2>1. ms = g % DWord
      BY <1>4 DEF TimeoutMs
    <2>2. a \in Int /\ e \in Int /\ ts - cur = NsPerSec * a + e /\ NsPerSec * a \in Int
      <3>1. /\ Sec(ts) \in Nat /\ Sec(cur) \in Nat /\ Nsec(ts) \in Int /\ Nsec(cur) \in Int
            /\ ts = NsPerSec * Sec(ts) + Nsec(ts) /\ cur = NsPerSec * Sec(cur) + Nsec(cur)
            /\ NsPerSec \in Nat /\ NsPerSec > 0
            /\ NsPerSec * Sec(ts) \in Int /\ NsPerSec * Sec(cur) \in Int
        BY <1>2, Seconds
      <3>2. /\ NsPerSec * (Sec(ts) - Sec(cur)) = NsPerSec * Sec(ts) - NsPerSec * Sec(cur)
        BY <3>1, FactorOrder
      <3> HIDE DEF cur
      <3> QED BY <1>2, <3>1, <3>2
    <2> DEFINE q == Quotient(e, n)
    <2>3. q \in Int /\ n * q \in Int /\ n * q > e - n /\ n * q < e + n
      BY <2>2, QuotientNear
    <2>4. a * MsPerSec \in Int /\ n * (a * MsPerSec + q) = NsPerSec * a + n * q
      BY <2>2, <2>3, SecondsMillis
    <2> HIDE DEF n, cur, a, e, q
    <2>5. g = (a * MsPerSec + q) + 1
      BY DEF q
    <2> HIDE DEF g
    <2>6. g \in Int /\ n * g = n * (a * MsPerSec + q) + n * 1
      BY <1>1, <2>3, <2>4, <2>5, FactorOrder
    <2>7. n * g > ts - cur /\ n * g < (ts - cur) + 2 * n /\ n * g \in Int
      BY <1>1, <1>2, <2>2, <2>3, <2>4, <2>6
    <2>8. g >= 0
      <3>1. n * 0 < n * g
        BY <1>1, <1>2, <1>4, <2>7
      <3> QED BY <1>1, <2>6, <3>1, FactorOrder
    <2>9. g % DWord = g /\ g # INFINITE
      <3>1. ts - cur \in Int /\ ts - cur <= (INFINITE - 2) * n
        BY <1>2 DEF n, cur
      <3> QED BY <2>6, <2>7, <2>8, <3>1, FitsDWord DEF n
    <2>10. ms * n = n * g
      BY <1>1, <2>1, <2>6, <2>9, FactorOrder
    <2>11. from + ms * n \in ts .. ts + 2 * n + Resolution - 1
      BY <1>1, <1>2, <2>7, <2>10
    <2> QED BY <2>1, <2>9, <2>11 DEF n
  <1> QED BY <1>3, <1>4

\* How long thrd_sleep sleeps.
LEMMA SleepBounds ==
  ASSUME NEW d \in Nat, NEW ms, ms = SleepMs(d), d <= (INFINITE - 2) * NsPerMs
  PROVE  ms # INFINITE /\ ms * NsPerMs \in d .. d + NsPerMs - 1
  <1> DEFINE n == NsPerMs
             a == Sec(d)
             e == Nsec(d)
             b == e \div n
             r == e % n
             up == IF r = 0 THEN 0 ELSE 1
             g == a * MsPerSec + b + up
  <1>1. n \in Nat /\ n > 0 /\ n >= 1
    BY ClockAssumption
  <1>2. /\ a \in Nat /\ e \in Nat /\ d = NsPerSec * a + e /\ NsPerSec * a \in Int
        /\ NsPerSec \in Nat /\ NsPerSec > 0
    BY Seconds
  <1>3. ms = g % DWord
    BY DEF SleepMs
  <1> HIDE DEF n, a, e
  <1>4. /\ b \in Nat /\ r \in 0 .. n - 1 /\ e = n * b + r
    BY <1>1, <1>2, DivMod
  <1> HIDE DEF b, r
  <1>5. a * MsPerSec \in Int /\ n * (a * MsPerSec + b) = NsPerSec * a + n * b /\ n * b \in Int
    <2>1. a \in Int /\ b \in Int
      BY <1>2, <1>4
    <2>2. a * MsPerSec \in Int /\ n * (a * MsPerSec + b) = NsPerSec * a + n * b
      BY <2>1, SecondsMillis DEF n
    <2>3. n * b \in Int
      BY <1>1, <2>1, FactorOrder
    <2> QED BY <2>2, <2>3
  <1>6. up \in {0, 1} /\ (up = 0 <=> r = 0)
    OBVIOUS
  <1> HIDE DEF up
  <1>7. g \in Int /\ n * g = n * (a * MsPerSec + b) + n * up /\ n * up = (IF up = 0 THEN 0 ELSE n)
    <2>1. a * MsPerSec + b \in Int /\ up \in Int
      BY <1>4, <1>5, <1>6
    <2>2. n * up = IF up = 0 THEN 0 ELSE n
      BY <1>1, <1>6
    <2> QED BY <1>1, <2>1, <2>2, FactorOrder
  <1> HIDE DEF g
  <1>8. n * g \in d .. d + n - 1
    BY <1>1, <1>2, <1>4, <1>5, <1>6, <1>7
  <1>9. g >= 0
    <2>1. n * (0 - 1) < n * g
      BY <1>1, <1>8
    <2> QED BY <1>1, <1>7, <2>1, FactorOrder
  <1>10. g % DWord = g /\ g # INFINITE
    <2>1. d \in Int /\ n * g < d + 2 * n
      BY <1>1, <1>8
    <2> QED BY <1>7, <1>9, <2>1, FitsDWord DEF n
  <1>11. ms * n = n * g
    BY <1>1, <1>3, <1>7, <1>10, FactorOrder
  <1> QED BY <1>3, <1>8, <1>10, <1>11 DEF n

\* A difference of times in seconds and the rest, of which p is slept at most.
LEMMA NapWithin ==
  ASSUME NEW s \in Nat, NEW p \in 1 .. s, NEW sec \in Int, NEW nsec \in 0 .. s - 1,
         NEW diff \in Nat, diff > 0, diff = s * sec + nsec
  PROVE  (IF sec # 0 \/ nsec > p THEN p ELSE nsec) \in 1 .. diff
  <1>1. s > 0 /\ s * sec \in Int
    BY FactorOrder
  <1>2. sec >= 0
    <2>1. s * (0 - 1) = 0 - s
      BY <1>1
    <2>2. s * (0 - 1) < s * sec
      BY <1>1, <2>1
    <2> QED BY <1>1, <2>2, FactorOrder
  <1>3. CASE sec = 0
    <2>1. s * sec = 0
      BY <1>3
    <2> QED BY <1>1, <1>3, <2>1
  <1>4. CASE sec # 0
    <2>1. s * 1 <= s * sec /\ s * 1 = s
      BY <1>1, <1>2, <1>4, FactorOrder
    <2> QED BY <1>1, <1>4, <2>1
  <1> QED BY <1>3, <1>4

\* How long mtx_timedlock sleeps between two tries, where it polls: not past
\* the time limit, for all that it knows.
LEMMA NapBounds ==
  ASSUME NEW cur \in Nat, NEW ts \in Nat, cur < ts
  PROVE  NapNs(Nap(cur, ts)) \in 1 .. ts - cur
  <1> DEFINE s == NsPerSec
             a == Sec(ts)
             b == Sec(cur)
             e == Nsec(ts)
             f == Nsec(cur)
             p == PollMs * NsPerMs
             nap == Nap(cur, ts)
  <1>1. /\ s \in Nat /\ s > 0
        /\ a \in Nat /\ s * a \in Int /\ e \in 0 .. s - 1 /\ ts = s * a + e
        /\ b \in Nat /\ s * b \in Int /\ f \in 0 .. s - 1 /\ cur = s * b + f
    BY Seconds
  <1>2. p \in Nat /\ p >= 1 /\ p <= s
    <2>1. /\ NsPerMs \in Nat /\ NsPerMs > 0 /\ PollMs \in Nat /\ PollMs > 0 /\ MsPerSec \in Nat
          /\ PollMs <= MsPerSec
      BY ClockAssumption
    <2>2. /\ NsPerMs * PollMs <= NsPerMs * MsPerSec /\ NsPerMs * 1 <= NsPerMs * PollMs
          /\ PollMs * NsPerMs = NsPerMs * PollMs /\ NsPerMs * PollMs \in Int
      BY <2>1, FactorOrder
    <2> QED BY <2>1, <2>2 DEF NsPerSec
  <1>3. nap = [sec |-> a - b - (IF e < f THEN 1 ELSE 0), nsec |-> e - f + (IF e < f THEN 1 ELSE 0) * s]
    BY DEF Nap
  <1>4. NapNs(nap) = IF nap.sec # 0 \/ nap.nsec > p THEN p ELSE nap.nsec
    BY DEF NapNs
  <1> HIDE DEF s, a, b, e, f, p, nap
  <1>5. s * (a - b) = s * a - s * b /\ a - b \in Int
    BY <1>1, FactorOrder
  <1> DEFINE diff == ts - cur
             sec == nap.sec
             nsec == nap.nsec
  <1>6. diff \in Nat /\ diff > 0 /\ p \in 1 .. s
    BY <1>2
  <1> HIDE DEF diff, sec, nsec
  <1>7. ASSUME sec \in Int, nsec \in 0 .. s - 1, diff = s * sec + nsec
        PROVE  NapNs(nap) \in 1 .. diff
    <2>1. (IF sec # 0 \/ nsec > p THEN p ELSE nsec) \in 1 .. diff
      BY <1>1, <1>6, <1>7, NapWithin
    <2> QED BY <1>4, <2>1 DEF sec, nsec
  <1>8. CASE e < f
    <2>1. nap.sec = (a - b) - 1 /\ nap.nsec = e - f + s
      BY <1>1, <1>3, <1>8
    <2>2. s * ((a - b) - 1) = s * (a - b) - s * 1 /\ s * 1 = s
      BY <1>1, <1>5, FactorOrder
    <2>3. ts - cur = s * nap.sec + nap.nsec
      BY <1>1, <1>5, <2>1, <2>2
    <2>4. nap.sec \in Int /\ nap.nsec \in 0 .. s - 1
      BY <1>1, <1>5, <1>8, <2>1
    <2> QED BY <1>7, <2>3, <2>4 DEF diff, sec, nsec, nap
  <1>9. CASE ~(e < f)
    <2>1. nap.sec = a - b /\ nap.nsec = e - f
      BY <1>1, <1>3, <1>9
    <2>2. ts - cur = s * nap.sec + nap.nsec
      BY <1>1, <1>5, <2>1
    <2>3. nap.sec \in Int /\ nap.nsec \in 0 .. s - 1
      BY <1>1, <1>5, <1>9, <2>1
    <2> QED BY <1>7, <2>2, <2>3 DEF diff, sec, nsec, nap
  <1> QED BY <1>8, <1>9

\* What the wait of a thread says, by the place of the thread.
WaitKept(w, at) ==
  /\ w = [ts |-> w.ts, from |-> w.from, until |-> w.until]
  /\ at \in {"timedlock", "sleep"} => w.ts \in Nat /\ w.from \in Nat /\ w.from <= w.ts
  /\ at = "timedlock" =>
       LET ms == TimeoutMs(timespec_get(w.from), w.ts)
       IN w.until = IF ms = INFINITE THEN Never ELSE w.from + ms * NsPerMs
  /\ at = "sleep" =>
       LET ms == SleepMs(w.ts - w.from)
       IN w.until = IF ms = INFINITE THEN Never ELSE w.from + ms * NsPerMs
  /\ at \in {"poll", "busy", "nap"} => w.ts \in Nat
  /\ at = "nap" =>
       LET cur == timespec_get(w.from)
       IN w.from \in Nat /\ cur < w.ts /\ w.until = w.from + NapNs(Nap(cur, w.ts))

MtxTimes ==
  /\ now \in Nat
  /\ pc = [t \in Threads |-> pc[t]]
  /\ wait = [t \in Threads |-> wait[t]]
  /\ \A t \in Threads : WaitKept(wait[t], pc[t])

\* Places that ask nothing of the wait.
NoLimitAt == {"out", "lock", "mark", "timedmark", "try", "leave", "ended"}

LEMMA AnyWait ==
  ASSUME NEW w, w = [ts |-> w.ts, from |-> w.from, until |-> w.until], NEW at \in NoLimitAt
  PROVE  WaitKept(w, at)
  BY DEF WaitKept, NoLimitAt

\* The step of one thread, that sets its wait.
LEMMA WaitSet ==
  ASSUME MtxTimes, NEW t \in Threads, NEW to, NEW w, WaitKept(w, to), now' = now,
         pc' = [pc EXCEPT ![t] = to], wait' = [wait EXCEPT ![t] = w]
  PROVE  MtxTimes'
  <1>1. /\ pc'[t] = to /\ wait'[t] = w
        /\ \A u \in Threads : u # t => pc'[u] = pc[u] /\ wait'[u] = wait[u]
    BY DEF MtxTimes
  <1>2. pc' = [u \in Threads |-> pc'[u]] /\ wait' = [u \in Threads |-> wait'[u]]
    BY DEF MtxTimes
  <1> QED BY <1>1, <1>2 DEF MtxTimes

\* The calls and inner steps have no time limit.
LEMMA PlainMoves ==
  ASSUME NEW t, Call(t) \/ InnerStep(t)
  PROVE  \E from \in NoLimitAt, to \in NoLimitAt : Goto(t, from, to)
  BY DEF Call, InnerStep, Lock, TryLock, TryAbandoned, Unlock, Exit, Enter, EnterAbandoned,
         Mark, TryBusy, Leave, NoLimitAt

LEMMA PlainKeeps ==
  ASSUME MtxTimes, NEW t \in Threads, NEW to \in NoLimitAt \cup {"busy"},
         to = "busy" => pc[t] = "poll",
         pc' = [pc EXCEPT ![t] = to], UNCHANGED <<now, wait>>
  PROVE  MtxTimes'
  <1>1. wait' = [wait EXCEPT ![t] = wait[t]]
    BY DEF MtxTimes
  <1>2. WaitKept(wait[t], pc[t])
    BY DEF MtxTimes
  <1>3. WaitKept(wait[t], to)
    BY <1>2 DEF WaitKept, NoLimitAt
  <1> QED BY <1>1, <1>3, WaitSet

\* A wait that is forgotten.
LEMMA ForgetKeeps ==
  ASSUME MtxTimes, NEW t \in Threads, NEW to \in NoLimitAt, pc' = [pc EXCEPT ![t] = to],
         now' = now, wait' = [wait EXCEPT ![t] = NoWait]
  PROVE  MtxTimes'
  <1>1. WaitKept(NoWait, to)
    BY AnyWait DEF NoWait
  <1> QED BY <1>1, WaitSet

LEMMA NewLimit ==
  ASSUME NEW x
  PROVE  [NoWait EXCEPT !.ts = x] = [ts |-> x, from |-> 0, until |-> 0]
  BY DEF NoWait

LEMMA MtxTimesNext ==
  ASSUME MtxTimes, [MCNext]_mcVars
  PROVE  MtxTimes'
  <1>1. CASE UNCHANGED mcVars
    BY <1>1 DEF mcVars, timeVars, vars, MtxTimes
  <1>2. CASE Tick
    BY <1>2 DEF Tick, vars, MtxTimes
  <1>3. ASSUME NEW t \in Threads, Call(t) \/ InnerStep(t) PROVE MtxTimes'
    <2>1. PICK to \in NoLimitAt : pc' = [pc EXCEPT ![t] = to]
      BY <1>3, PlainMoves DEF Goto
    <2>2. UNCHANGED <<now, wait>>
      BY <1>3 DEF Call, InnerStep
    <2> QED BY <2>1, <2>2, PlainKeeps DEF NoLimitAt
  <1>4. ASSUME NEW t \in Threads, TimedStep(t) PROVE MtxTimes'
    <2>1. PICK to \in NoLimitAt : pc' = [pc EXCEPT ![t] = to]
      BY <1>4 DEF TimedStep, TimeOutAt, TimeOut, Wake, EnterInTime, Enter, EnterAbandoned,
                  Goto, NoLimitAt
    <2>2. now' = now /\ wait' = [wait EXCEPT ![t] = NoWait]
      BY <1>4 DEF TimedStep, TimeOutAt, Wake, EnterInTime, Timely, Forget
    <2> QED BY <2>1, <2>2, ForgetKeeps
  <1>5. ASSUME NEW t \in Threads, NEW d \in Delays, TimedLockUntil(t, d) \/ Sleep(t, d)
        PROVE  MtxTimes'
    <2> DEFINE end == now + d
               ms == IF TimedLockUntil(t, d) THEN TimeoutMs(timespec_get(now), end) ELSE SleepMs(d)
               to == IF TimedLockUntil(t, d) THEN "timedlock" ELSE "sleep"
               w == [ts |-> end, from |-> now, until |-> After(ms)]
    <2>1. /\ now' = now /\ pc' = [pc EXCEPT ![t] = to] /\ wait' = [wait EXCEPT ![t] = w]
      BY <1>5 DEF TimedLockUntil, TimedLock, Sleep, Goto, Waits
    <2>2. now \in Nat /\ d \in Nat /\ end \in Nat /\ now <= end /\ end - now = d
      BY DelayAssumption DEF MtxTimes
    <2>3. to = "timedlock" => ms = TimeoutMs(timespec_get(now), end)
      OBVIOUS
    <2>4. to = "sleep" => ms = SleepMs(end - now)
      BY <2>2
    <2>5. to \in {"timedlock", "sleep"}
      OBVIOUS
    <2> HIDE DEF ms, to, end
    <2>6. WaitKept(w, to)
      BY <2>2, <2>3, <2>4, <2>5 DEF WaitKept, After
    <2> QED BY <2>1, <2>6, WaitSet
  <1>6. CASE Polls
    <2>1. PICK t \in Threads :
            \/ Poll!Lock(t) \/ Poll!Unlock(t) \/ Poll!Step(t)
            \/ \E d \in Delays : Poll!TimedLock(t, d)
      BY <1>6 DEF Polls, Poll!PollNext
    <2> DEFINE old == wait[t]
    <2>a. now \in Nat /\ WaitKept(old, pc[t])
      BY DEF MtxTimes
    <2>2. CASE Poll!Lock(t) \/ Poll!Unlock(t)
      BY <2>2, PlainKeeps DEF Poll!Lock, Poll!Unlock, Poll!At, NoLimitAt
    <2>3. CASE Poll!TryBusy(t)
      BY <2>3, PlainKeeps DEF Poll!TryBusy, Poll!At
    <2>4. CASE Poll!TryGranted(t) \/ Poll!GiveUp(t)
      BY <2>4, ForgetKeeps
         DEF Poll!TryGranted, Poll!GiveUp, Poll!At, Poll!Forget, Poll!NoWait, NoWait, NoLimitAt
    <2>5. ASSUME NEW d \in Delays, Poll!TimedLock(t, d) PROVE MtxTimes'
      <3> DEFINE w == [ts |-> now + d, from |-> 0, until |-> 0]
      <3>1. /\ now' = now /\ pc' = [pc EXCEPT ![t] = "poll"] /\ wait' = [wait EXCEPT ![t] = w]
        <4>1. Poll!NoWait = NoWait
          BY DEF Poll!NoWait, NoWait
        <4> QED BY <2>5, <4>1, NewLimit DEF Poll!TimedLock, Poll!At
      <3>2. now + d \in Nat
        BY <2>a, DelayAssumption
      <3>3. WaitKept(w, "poll")
        BY <3>2 DEF WaitKept
      <3> QED BY <3>1, <3>3, WaitSet
    <2>6. CASE Poll!Doze(t)
      <3> DEFINE cur == timespec_get(now)
                 end == now + NapNs(Nap(cur, old.ts))
                 w == [ts |-> old.ts, from |-> now, until |-> end]
      <3>1. /\ now' = now /\ pc' = [pc EXCEPT ![t] = "nap"] /\ pc[t] = "busy"
            /\ cur < old.ts
            /\ wait' = [wait EXCEPT ![t].from = now, ![t].until = end]
        BY <2>6 DEF Poll!Doze, Poll!At, Poll!timespec_get, Poll!NapNs, Poll!Nap, timespec_get,
                    NapNs, Nap, Poll!Sec, Poll!Nsec, Poll!NsPerSec, Sec, Nsec, NsPerSec
      <3>2. old.ts \in Nat /\ old = [ts |-> old.ts, from |-> old.from, until |-> old.until]
        BY <2>a, <3>1 DEF WaitKept
      <3> HIDE DEF end
      <3> HIDE DEF old
      <3>3. [[old EXCEPT !.from = now] EXCEPT !.until = end] = w
        <4>1. PICK a, b, c : old = [ts |-> a, from |-> b, until |-> c]
          BY <3>2
        <4>2. old.ts = a
          BY <4>1
        <4>3. [old EXCEPT !.from = now] = [ts |-> a, from |-> now, until |-> c]
          BY <4>1
        <4>4. [[ts |-> a, from |-> now, until |-> c] EXCEPT !.until = end] = w
          BY <4>2
        <4> QED BY <4>3, <4>4
      <3>4. wait' = [wait EXCEPT ![t] = [[old EXCEPT !.from = now] EXCEPT !.until = end]]
        <4> DEFINE dozing == [old EXCEPT !.from = now]
                   between == [wait EXCEPT ![t] = dozing]
        <4>1. wait' = [between EXCEPT ![t] = [between[t] EXCEPT !.until = end]]
          BY <3>1 DEF old
        <4> HIDE DEF dozing
        <4>2. between[t] = dozing
          BY DEF MtxTimes
        <4>3. wait' = [between EXCEPT ![t] = [dozing EXCEPT !.until = end]]
          BY <4>1, <4>2
        <4>4. wait' = [wait EXCEPT ![t] = [dozing EXCEPT !.until = end]]
          BY <4>3
        <4> QED BY <4>4 DEF dozing
      <3>5. wait' = [wait EXCEPT ![t] = w]
        BY <3>3, <3>4
      <3>6. WaitKept(w, "nap")
        BY <2>a, <3>1, <3>2 DEF WaitKept, end
      <3> QED BY <3>1, <3>5, <3>6, WaitSet
    <2>7. CASE Poll!WakeUp(t)
      <3> DEFINE w == [ts |-> old.ts, from |-> 0, until |-> 0]
      <3>1. /\ now' = now /\ pc' = [pc EXCEPT ![t] = "poll"] /\ pc[t] = "nap"
            /\ wait' = [wait EXCEPT ![t] = w]
        <4>1. Poll!NoWait = NoWait
          BY DEF Poll!NoWait, NoWait
        <4> QED BY <2>7, <4>1, NewLimit DEF Poll!WakeUp, Poll!At
      <3>2. WaitKept(w, "poll")
        BY <2>a, <3>1 DEF WaitKept
      <3> QED BY <3>1, <3>2, WaitSet
    <2> QED BY <2>1, <2>2, <2>3, <2>4, <2>5, <2>6, <2>7 DEF Poll!Step
  <1> QED BY <1>1, <1>2, <1>3, <1>4, <1>5, <1>6 DEF MCNext, TimeNext
LEMMA MtxTimesInit == MCInit => MtxTimes
  <1> SUFFICES ASSUME MCInit PROVE MtxTimes
    OBVIOUS
  <1>1. \A t \in Threads : pc[t] = "out" /\ wait[t] = NoWait
    BY DEF MCInit, TimeInit, Init
  <1>2. \A t \in Threads : WaitKept(wait[t], pc[t])
    BY <1>1, AnyWait DEF NoWait, NoLimitAt
  <1> QED BY <1>2 DEF MtxTimes, MCInit, TimeInit, Init

LEMMA TimesNearLimit == MtxTimes /\ BuildInv => WaitsEndNearLimit
  <1> SUFFICES ASSUME MtxTimes, BuildInv, NEW t \in Threads, Fits(t)
               PROVE  /\ pc[t] \in {"timedlock", "sleep"} =>
                           wait[t].until \in wait[t].ts .. wait[t].ts + 2 * NsPerMs + Resolution - 1
                      /\ pc[t] = "nap" =>
                           wait[t].until \in wait[t].from + 1 .. wait[t].ts + Resolution - 1
    BY DEF WaitsEndNearLimit
  <1> DEFINE w == wait[t]
             cur == timespec_get(w.from)
  <1>1. WaitKept(w, pc[t])
    BY DEF MtxTimes
  <1>2. NsPerMs \in Nat /\ NsPerMs > 0 /\ Resolution \in Nat /\ Resolution > 0
    BY ClockAssumption
  <1> HIDE DEF w
  <1>3. ASSUME w.from \in Nat PROVE cur \in Nat /\ cur <= w.from /\ w.from - cur < Resolution
    BY <1>3, ClockBehind
  <1>4. ASSUME pc[t] \in {"timedlock", "sleep"}
        PROVE  w.until \in w.ts .. w.ts + 2 * NsPerMs + Resolution - 1
    <2>1. w.ts - cur <= (INFINITE - 2) * NsPerMs
      BY <1>4 DEF Fits, BuildInv, PollInv, w
    <2>2. w.ts \in Nat /\ w.from \in Nat /\ w.from <= w.ts
      BY <1>1, <1>4 DEF WaitKept
    <2>3. CASE pc[t] = "timedlock"
      <3> DEFINE ms == TimeoutMs(cur, w.ts)
      <3>1. w.until = IF ms = INFINITE THEN Never ELSE w.from + ms * NsPerMs
        BY <1>1, <2>3 DEF WaitKept
      <3>2. /\ ms # INFINITE
            /\ w.from + ms * NsPerMs \in w.ts .. w.ts + 2 * NsPerMs + Resolution - 1
        BY <2>1, <2>2, TimeoutBounds
      <3> QED BY <3>1, <3>2
    <2>4. CASE pc[t] = "sleep"
      <3> DEFINE d == w.ts - w.from
                 ms == SleepMs(d)
                 slept == ms * NsPerMs
      <3>1. w.until = IF ms = INFINITE THEN Never ELSE w.from + slept
        BY <1>1, <2>4 DEF WaitKept
      <3>2. d \in Nat /\ d <= (INFINITE - 2) * NsPerMs
        <4> DEFINE most == (INFINITE - 2) * NsPerMs
        <4>1. INFINITE - 2 \in Int
          BY ClockAssumption DEF INFINITE
        <4>2. most \in Int
          BY <1>2, <4>1, FactorOrder
        <4> HIDE DEF most
        <4>3. w.ts - cur <= most
          BY <2>1 DEF most
        <4>4. d \in Nat /\ d <= most
          BY <1>3, <2>2, <4>2, <4>3
        <4> QED BY <4>4 DEF most
      <3> HIDE DEF d
      <3>3. ms # INFINITE /\ slept \in d .. d + NsPerMs - 1
        BY <3>2, SleepBounds
      <3> HIDE DEF ms, slept
      <3> QED BY <1>2, <2>2, <3>1, <3>3 DEF d
    <2> QED BY <1>4, <2>3, <2>4
  <1>5. ASSUME pc[t] = "nap" PROVE w.until \in w.from + 1 .. w.ts + Resolution - 1
    <2> DEFINE nap == NapNs(Nap(cur, w.ts))
    <2>1. w.ts \in Nat /\ w.from \in Nat /\ cur < w.ts /\ w.until = w.from + nap
      BY <1>1, <1>5 DEF WaitKept
    <2>2. nap \in 1 .. w.ts - cur
      BY <1>3, <2>1, NapBounds
    <2> HIDE DEF nap
    <2> QED BY <1>2, <1>3, <2>1, <2>2
  <1> QED BY <1>4, <1>5 DEF w

\* In both builds, for any time limits, what mtx_timedlock and thrd_sleep of
\* tinycthread.c wait for is the time that was specified: a wait whose
\* milliseconds fit a DWORD ends at most two of them after it, and not before;
\* a sleep between two tries does not go on after it, but for what the clock
\* does not tell.
THEOREM BuildsWaitNearLimit == MCSpec => []WaitsEndNearLimit
  BY TimesNearLimit, MtxTimesInit, MtxTimesNext, BuildInvariant, PTL DEF MCSpec

\* A thread that gives up or wakes does so after its limit.
LEMMA GivesUpLate ==
  ASSUME MtxTimes, BuildInv, MCNext, NEW t \in Threads,
         pc[t] \in {"timedlock", "busy", "sleep"}, pc'[t] = "out",
         UNCHANGED <<owner, depth>>, Fits(t)
  PROVE  now >= wait[t].ts
  <1>a. /\ now \in Nat /\ WaitKept(wait[t], pc[t]) /\ pc = [u \in Threads |-> pc[u]]
        /\ depth \in Nat
    BY DEF MtxTimes, BuildInv, IInv, Shape, PollInv
  <1>b. ASSUME NEW u \in Threads, NEW to, pc' = [pc EXCEPT ![u] = to]
        PROVE  u = t /\ to = "out"
    BY <1>a, <1>b
  <1>1. ~Tick
    BY DEF Tick, vars
  <1>2. ASSUME NEW u \in Threads, Call(u) \/ InnerStep(u) PROVE FALSE
    <2>1. PICK from \in NoLimitAt, to \in NoLimitAt : Goto(u, from, to)
      BY <1>2, PlainMoves
    <2> QED BY <1>b, <2>1 DEF Goto, NoLimitAt
  <1>3. ASSUME NEW u \in Threads, NEW d \in Delays, TimedLockUntil(u, d) \/ Sleep(u, d)
        PROVE  FALSE
    BY <1>3, <1>b DEF TimedLockUntil, TimedLock, Sleep, Goto
  <1>4. ASSUME NEW u \in Threads, EnterInTime(u) PROVE FALSE
    BY <1>4, <1>a DEF EnterInTime, Enter, EnterAbandoned, Own
  <1>5. ASSUME NEW u \in Threads, TimeOutAt(u) \/ Wake(u) PROVE now >= wait[t].ts
    <2>1. PICK from \in {"timedlock", "sleep"} : Goto(u, from, "out")
      BY <1>5 DEF TimeOutAt, TimeOut, Wake
    <2>2. u = t /\ pc[t] \in {"timedlock", "sleep"}
      BY <1>b, <2>1 DEF Goto
    <2>3. wait[t].until # Never /\ now >= wait[t].until
      BY <1>5, <2>2 DEF TimeOutAt, Wake, Timely, Passed
    <2>4. wait[t].until \in wait[t].ts .. wait[t].ts + 2 * NsPerMs + Resolution - 1
      BY <2>2, TimesNearLimit DEF WaitsEndNearLimit
    <2>5. wait[t].ts \in Nat
      BY <1>a, <2>2 DEF WaitKept
    <2> DEFINE last == wait[t].ts + 2 * NsPerMs + Resolution - 1
    <2>6. wait[t].until \in Int /\ wait[t].until >= wait[t].ts
      BY <2>4, <2>5, ClockAssumption
    <2> QED BY <1>a, <2>3, <2>5, <2>6
  <1>6. ASSUME Polls PROVE now >= wait[t].ts
    <2>1. PICK u \in Threads :
            \/ Poll!Lock(u) \/ Poll!Unlock(u) \/ Poll!Step(u)
            \/ \E d \in Delays : Poll!TimedLock(u, d)
      BY <1>6 DEF Polls, Poll!PollNext
    <2>2. CASE Poll!GiveUp(u)
      <3>1. u = t /\ pc[t] = "busy" /\ timespec_get(now) >= wait[t].ts
        BY <1>b, <2>2 DEF Poll!GiveUp, Poll!At, Poll!timespec_get, timespec_get
      <3>2. wait[t].ts \in Nat /\ timespec_get(now) \in Nat /\ timespec_get(now) <= now
        BY <1>a, <3>1, ClockBehind DEF WaitKept
      <3> HIDE DEF timespec_get
      <3> QED BY <1>a, <3>1, <3>2
    <2>3. CASE \/ Poll!Lock(u) \/ Poll!Unlock(u) \/ Poll!TryGranted(u) \/ Poll!TryBusy(u)
               \/ Poll!Doze(u) \/ Poll!WakeUp(u) \/ \E d \in Delays : Poll!TimedLock(u, d)
      <3>1. PICK from, to : Poll!At(u, from, to) /\ (to # "out" \/ from \in {"out", "poll"})
        BY <2>3 DEF Poll!Lock, Poll!Unlock, Poll!TryGranted, Poll!TryBusy, Poll!Doze,
                    Poll!WakeUp, Poll!TimedLock
      <3> QED BY <1>b, <3>1 DEF Poll!At
    <2> QED BY <2>1, <2>2, <2>3 DEF Poll!Step
  <1> QED BY <1>1, <1>2, <1>3, <1>4, <1>5, <1>6 DEF MCNext, TimeNext, TimedStep

\* tinycthread.h:225: in both builds, for any time limits, mtx_timedlock gives
\* up, and thrd_sleep returns, not before the specified time, as long as the
\* milliseconds fit a DWORD.
THEOREM BuildsGiveUpLate == MCSpec => NotEarly
  <1>1. MtxTimes /\ BuildInv /\ [MCNext]_mcVars =>
          [\A t \in Threads :
             /\ pc[t] \in {"timedlock", "busy", "sleep"} /\ pc'[t] = "out"
             /\ UNCHANGED <<owner, depth>> /\ Fits(t)
             => now >= wait[t].ts]_mcVars
    BY GivesUpLate
  <1> QED BY <1>1, MtxTimesInit, MtxTimesNext, BuildInvariant, PTL DEF MCSpec, NotEarly
------------------------------------------------------------------------------
(* TtMtxTime is TtMtx with a clock: a thread that sleeps is in no function  *)
(* of the mutex.                                                            *)

awakePc == [t \in Threads |-> IF pc[t] = "sleep" THEN "out" ELSE pc[t]]

Mtx == INSTANCE TtMtx WITH pc <- awakePc

LEMMA AwakeGoto ==
  ASSUME IInv, NEW t \in Threads, NEW from, NEW to, from # "sleep", to # "sleep",
         Goto(t, from, to)
  PROVE  Mtx!Goto(t, from, to)
  <1>1. pc \in [Threads -> Places] /\ ~undefined /\ pc[t] = from /\ pc' = [pc EXCEPT ![t] = to]
    BY DEF IInv, Shape, Goto
  <1>2. awakePc[t] = from
    BY <1>1 DEF awakePc
  <1>3. awakePc' = [awakePc EXCEPT ![t] = to]
    BY <1>1 DEF awakePc
  <1> QED BY <1>1, <1>2, <1>3 DEF Mtx!Goto

LEMMA AwakeStep ==
  ASSUME IInv, TimeNext
  PROVE  [Mtx!Next]_Mtx!vars
  <1>a. /\ pc \in [Threads -> Places] /\ (Mtx!recursive <=> recursive) /\ (Mtx!timed <=> timed)
        /\ \A t : Mtx!Grant(t) <=> Grant(t)
        /\ \A t : Mtx!Own(t) <=> Own(t)
        /\ \A t : Mtx!Free(t) <=> Free(t)
        /\ Mtx!Disown <=> Disown
    BY DEF IInv, Shape, recursive, timed, Grant, Own, Free, Disown, Mtx!recursive, Mtx!timed,
           Mtx!Grant, Mtx!Own, Mtx!Free, Mtx!Disown
  <1>1. CASE Tick
    BY <1>1 DEF Tick, vars, Mtx!vars, awakePc
  <1>2. ASSUME NEW t \in Threads, Wake(t) \/ \E d \in Delays : Sleep(t, d)
        PROVE  UNCHANGED Mtx!vars
    <2>1. PICK from \in {"out", "sleep"}, to \in {"out", "sleep"} : Goto(t, from, to)
      BY <1>2 DEF Wake, Sleep
    <2>2. awakePc' = awakePc
      BY <1>a, <2>1 DEF Goto, awakePc
    <2>3. UNCHANGED <<kind, owner, depth, abandoned, already, held, undefined>>
      BY <1>2 DEF Wake, Sleep
    <2> QED BY <2>2, <2>3 DEF Mtx!vars
  <1>3. ASSUME NEW t \in Threads
        PROVE  /\ Lock(t) => Mtx!Lock(t)
               /\ TimedLock(t) => Mtx!TimedLock(t)
               /\ Unlock(t) => Mtx!Unlock(t)
               /\ Exit(t) => Mtx!Exit(t)
               /\ Leave(t) => Mtx!Leave(t)
               /\ TimeOut(t) => Mtx!TimeOut(t)
    <2>1. (Lock(t) => Mtx!Lock(t)) /\ (TimedLock(t) => Mtx!TimedLock(t))
      BY <1>a, AwakeGoto DEF Lock, TimedLock, Mtx!Lock, Mtx!TimedLock
    <2>2. Unlock(t) => Mtx!Unlock(t)
      BY <1>a, AwakeGoto DEF Unlock, Mtx!Unlock
    <2>3. Exit(t) => Mtx!Exit(t)
      BY <1>a, AwakeGoto DEF Exit, Mtx!Exit
    <2>4. (Leave(t) => Mtx!Leave(t)) /\ (TimeOut(t) => Mtx!TimeOut(t))
      BY <1>a, AwakeGoto DEF Leave, TimeOut, Mtx!Leave, Mtx!TimeOut
    <2> QED BY <2>1, <2>2, <2>3, <2>4
  <1>4. ASSUME NEW t \in Threads, NEW from, from # "sleep", NEW to, to # "sleep"
        PROVE  Enter(t, from, to) => Mtx!Enter(t, from, to)
    BY <1>a, <1>4, AwakeGoto DEF Enter, Mtx!Enter
  <1>5. ASSUME NEW t \in Threads, NEW from, from # "sleep"
        PROVE  /\ EnterAbandoned(t, from) => Mtx!EnterAbandoned(t, from)
               /\ Mark(t, from) => Mtx!Mark(t, from)
    BY <1>a, <1>5, AwakeGoto DEF EnterAbandoned, Mark, Mtx!EnterAbandoned, Mtx!Mark
  <1>6. ASSUME NEW t \in Threads PROVE TryLock(t) => Mtx!TryLock(t)
    BY <1>a, AwakeGoto DEF TryLock, Mtx!TryLock
  <1>7. ASSUME NEW t \in Threads PROVE TryBusy(t) => Mtx!TryBusy(t)
    BY <1>a, AwakeGoto DEF TryBusy, Mtx!TryBusy, timed, Mtx!timed
  <1>8. ASSUME NEW t \in Threads,
               \/ Call(t) \/ TimeOutAt(t) \/ EnterInTime(t) \/ InnerStep(t)
               \/ \E d \in Delays : TimedLockUntil(t, d)
        PROVE  Mtx!Next
    <2>1. \/ Lock(t) \/ TimedLock(t) \/ TryLock(t) \/ TryAbandoned(t) \/ Unlock(t) \/ Exit(t)
          \/ Step(t)
      BY <1>8 DEF Call, TimeOutAt, EnterInTime, InnerStep, TimedLockUntil, Step
    <2>2. CASE Lock(t) \/ TimedLock(t) \/ TryLock(t) \/ Unlock(t) \/ Exit(t)
      BY <1>3, <1>6, <2>2 DEF Mtx!Next
    <2>3. CASE TryAbandoned(t)
      BY <1>5, <2>3 DEF TryAbandoned, Mtx!TryAbandoned, Mtx!Next
    <2>4. CASE Step(t)
      <3>1. Mtx!Step(t)
        BY <1>3, <1>4, <1>5, <1>7, <2>4 DEF Step, Mtx!Step
      <3> QED BY <3>1 DEF Mtx!Next
    <2> QED BY <2>1, <2>2, <2>3, <2>4
  <1> QED BY <1>1, <1>2, <1>8 DEF TimeNext, TimedStep

\* The clock and thrd_sleep add nothing to the mutex: what holds of TtMtx
\* holds whatever the time limits are.
THEOREM TimeImplementsMtx == TimeSpec => Mtx!Spec
  <1>1. TimeInit => IInv
    BY InitIInv DEF TimeInit
  <1>2. IInv /\ [TimeNext]_timeVars => IInv'
    BY TimeKeepsIInv, StepIInv DEF timeVars
  <1>3. TimeInit => Mtx!Init
    BY DEF TimeInit, Init, Mtx!Init, awakePc
  <1>4. IInv /\ [TimeNext]_timeVars => [Mtx!Next]_Mtx!vars
    <2>1. ASSUME UNCHANGED timeVars PROVE UNCHANGED Mtx!vars
      BY <2>1 DEF timeVars, vars, Mtx!vars, awakePc
    <2> QED BY <2>1, AwakeStep
  <1> QED BY <1>1, <1>2, <1>3, <1>4, PTL DEF TimeSpec, Mtx!Spec
==============================================================================
