-------------------------------- MODULE TtThrd --------------------------------
(***************************************************************************)
(* Threads of tinycthread.c, from thrd_create to thrd_join, over the       *)
(* thread-specific storage each of them cleans up when it ends.            *)
(*                                                                         *)
(* What a new thread is to run is passed in a block from malloc.  The      *)
(* creator frees it if the system makes no thread, and else the thread     *)
(* does, once it has read it.  Only Main runs from the start.  The system  *)
(* may refuse to make a thread, to wait for one, or to tell its exit code. *)
(* A handle is used once: it is joined by one thread, or detached.         *)
(***************************************************************************)
EXTENDS TtTss

CONSTANTS
  Main,       \* the thread that runs main
  Results,    \* what a thread may return, or pass to thrd_exit
  MaxEnds     \* bound of the model on the threads that end

ASSUME ThrdAssumption == Main \in Threads /\ NULL \notin Threads \cup Results

VARIABLES
  thrd,     \* thrd[t]: how far thread t has started, its start information
            \* and its handle
  call,     \* the thread that each thread is creating or joining
  code,     \* the exit code of each thread
  joined    \* what thrd_join returned for each thread

thrdVars == <<thrd, call, code, joined>>
allVars == <<vars, thrdVars>>

NoCall == [op |-> "none", thr |-> NULL]

ThrdInit ==
  /\ Init
  /\ thrd = [t \in Threads |-> [at |-> IF t = Main THEN "up" ELSE "none",
                                info |-> "none", handle |-> "none"]]
  /\ call = [t \in Threads |-> NoCall]
  /\ code = [t \in Threads |-> NULL]
  /\ joined = [t \in Threads |-> NULL]

\* Thread t runs code of the program, outside of the functions below.
Idle(t) == Runs(t) /\ thrd[t].at = "up" /\ call[t] = NoCall

\* And not a destructor, which in this model uses the storage only.
InFunction(t) == Idle(t) /\ thread[t].pc = "run"

Calls(c, op) == ~undefined /\ call[c].op = op

Begin(c, op, t) == InFunction(c) /\ t # c /\ call' = [call EXCEPT ![c] = [op |-> op, thr |-> t]]
Return(c) == call' = [call EXCEPT ![c] = NoCall]

------------------------------------------------------------------------------
(* thrd_create, and the thread's way to its function                        *)

\* A malloc that fails is thrd_nomem and changes nothing.
ThrdCreate(c, t) ==
  /\ thrd[t].at = "none" /\ \A u \in Threads : call[u].thr # t
  /\ Begin(c, "create", t)
  /\ thrd' = [thrd EXCEPT ![t].info = "made"]
  /\ UNCHANGED <<vars, code, joined>>

\* The system has made the thread, which may run, and end, before its creator
\* goes on.
Spawn(c) ==
  /\ Calls(c, "create")
  /\ call' = [call EXCEPT ![c].op = "created"]
  /\ thrd' = [thrd EXCEPT ![call[c].thr].at = "new"]
  /\ UNCHANGED <<vars, code, joined>>

\* Mutant of CreateReturn: the start information is freed before
\* thrd_success, too.
CreateReturnFreed(c) ==
  /\ Calls(c, "created")
  /\ Return(c)
  /\ thrd' = [thrd EXCEPT ![call[c].thr].handle = "open", ![call[c].thr].info = "freed"]
  /\ UNCHANGED <<vars, code, joined>>

\* thrd_success: the caller has the handle.
CreateReturn(c) ==
  /\ Calls(c, "created")
  /\ Return(c)
  /\ thrd' = [thrd EXCEPT ![call[c].thr].handle = "open"]
  /\ UNCHANGED <<vars, code, joined>>

\* thrd_error.
SpawnFails(c) ==
  /\ Calls(c, "create")
  /\ Return(c)
  /\ thrd' = [thrd EXCEPT ![call[c].thr].info = "freed"]
  /\ UNCHANGED <<vars, code, joined>>

\* _thrd_wrapper_function.
ReadInfo(t) ==
  /\ ~undefined /\ thrd[t].at = "new"
  /\ thrd' = [thrd EXCEPT ![t].at = "read"]
  /\ UNCHANGED <<vars, call, code, joined>>

FreeInfo(t) ==
  /\ ~undefined /\ thrd[t].at = "read"
  /\ thrd' = [thrd EXCEPT ![t] = [at |-> "up", info |-> "freed", handle |-> @.handle]]
  /\ UNCHANGED <<vars, call, code, joined>>

------------------------------------------------------------------------------
(* thrd_exit, thrd_join and thrd_detach                                     *)

Ends == {u \in Threads : thread[u].pc # "run"}

\* Also the return of the thread's function.
ThrdExit(t, res) ==
  /\ InFunction(t)
  /\ Cardinality(Ends) < MaxEnds
  /\ Exit(t)
  /\ code' = [code EXCEPT ![t] = res]
  /\ UNCHANGED <<thrd, call, joined>>

\* One thread uses a handle, once.
Unclaimed(t) == thrd[t].handle = "open" /\ \A u \in Threads : call[u].thr # t

ThrdJoin(c, t) ==
  /\ Unclaimed(t)
  /\ Begin(c, "join", t)
  /\ UNCHANGED <<vars, thrd, code, joined>>

\* The wait is over when the thread has ended.
JoinReturn(c) ==
  LET t == call[c].thr
  IN /\ Calls(c, "join") /\ thread[t].pc = "ended"
     /\ Return(c)
     /\ joined' = [joined EXCEPT ![t] = code[t]]
     /\ thrd' = [thrd EXCEPT ![t].handle = "closed"]
     /\ UNCHANGED <<vars, code>>

\* The wait fails, or GetExitCodeThread does: thrd_error, and the handle
\* stays open.
JoinFails(c) ==
  /\ Calls(c, "join")
  /\ Return(c)
  /\ UNCHANGED <<vars, thrd, code, joined>>

ThrdDetach(c, t) ==
  /\ InFunction(c) /\ Unclaimed(t)
  /\ thrd' = [thrd EXCEPT ![t].handle = "closed"]
  /\ UNCHANGED <<vars, call, code, joined>>

------------------------------------------------------------------------------

\* Storage is used by threads that run; the rest is cleanup.
Storage ==
  /\ \/ \E k \in Keys, hasDtor \in BOOLEAN : (\E t \in Threads : Idle(t)) /\ Create(k, hasDtor)
     \/ \E t \in Threads :
          \/ /\ Idle(t)
             /\ \/ \E k \in Keys, v \in Values \cup {NULL} : Set(t, k, v)
                \/ \E k \in Keys : SetFails(t, k) \/ Delete(t, k)
          \/ Cleanup(t)
  /\ UNCHANGED thrdVars

ThrdNext ==
  \/ Storage
  \/ \E c \in Threads :
       \/ Spawn(c) \/ CreateReturn(c) \/ SpawnFails(c) \/ ReadInfo(c) \/ FreeInfo(c)
       \/ \E res \in Results : ThrdExit(c, res)
       \/ JoinReturn(c) \/ JoinFails(c)
       \/ \E t \in Threads : ThrdCreate(c, t) \/ ThrdJoin(c, t) \/ ThrdDetach(c, t)

ThrdSpec == ThrdInit /\ [][ThrdNext]_allVars

\* Some thread that is ending, or whose wait in thrd_join is over, is
\* scheduled, and destructors return.
FairThrdSpec ==
  /\ ThrdSpec
  /\ WF_allVars(\E t \in Threads : (Cleanup(t) /\ UNCHANGED thrdVars) \/ JoinReturn(t))

------------------------------------------------------------------------------
(* Properties                                                               *)

Started(t) == thrd[t].at \in {"new", "read"}
Creates(c, t) == call[c] = [op |-> "create", thr |-> t]

ThrdTypeOK ==
  /\ thrd \in [Threads -> [at : {"none", "new", "read", "up"},
                           info : {"none", "made", "freed"},
                           handle : {"none", "open", "closed"}]]
  /\ call \in [Threads -> [op : {"none", "create", "created", "join"}, thr : Threads \cup {NULL}]]
  /\ code \in [Threads -> Results \cup {NULL}] /\ joined \in [Threads -> Results \cup {NULL}]

\* The start information has one owner at any time (tinycthread.c:573: "The
\* thread is responsible for freeing the startup information", and its
\* creator is if there is no thread): it is there for the new thread to read
\* and free, or for the one creator to hand over or free, and no block is
\* left behind.  Type correctness is part of it.
InfoHasOwner ==
  /\ ThrdTypeOK
  /\ \A t \in Threads :
       /\ thrd[t].info = "made" <=> (Started(t) \/ \E c \in Threads : Creates(c, t))
       /\ \A c, d \in Threads : Creates(c, t) /\ Creates(d, t) => c = d
       /\ \A c \in Threads : Creates(c, t) => ~Started(t)

\* A thread that has ended has run its destructors and freed its nodes, if it
\* made at most two, and (tinycthread.h:360, thrd_join "blocks until the other
\* thread has terminated") what thrd_join returns is the result of a thread
\* that has ended.
EndsClean ==
  /\ DtorsRun /\ NothingLeaks
  /\ \A t \in Threads : joined[t] # NULL => joined[t] = code[t] /\ thread[t].pc = "ended"

\* thrd_join, called by the main thread, returns when the thread that it
\* waits for has begun to end, whatever that thread's destructors do.
JoinReturns ==
  \A c \in {Main} :
    (call[c].op = "join" /\ thread[call[c].thr].pc = "clean")
      ~> (undefined \/ call[c] = NoCall)
==============================================================================
