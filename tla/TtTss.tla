-------------------------------- MODULE TtTss --------------------------------
(***************************************************************************)
(* Thread-specific storage of tinycthread.c on Windows, and what a thread  *)
(* does with it when it ends.                                              *)
(*                                                                         *)
(* Each value a thread sets is in a node of the thread's own list; the     *)
(* system maps a key to the node.  When the thread ends, the destructors   *)
(* of the keys are called on the values left, for a number of rounds, as a *)
(* destructor may set values; then the list is freed.  A destructor may    *)
(* make any calls of this module, for the list it is called from too.  The *)
(* table of destructors is shared and the system reuses keys that were     *)
(* deleted.                                                                *)
(*                                                                         *)
(* A thread keeps at most one node for a key between two calls of          *)
(* tss_create that return it, so <<k, i>> names the node for the i-th; the *)
(* nodes that tss_set frees itself, as TlsSetValue fails, are all DANGLING.*)
(* The model stops (undefined) at the first access to a freed node or to   *)
(* NULL.  A malloc that fails changes nothing and is not a step.           *)
(***************************************************************************)
EXTENDS Naturals, Sequences, FiniteSets

CONSTANTS
  Threads,
  Keys,         \* the keys the system has
  Values,       \* pointers a thread may store
  NULL,         \* the NULL pointer
  DANGLING,     \* a pointer to a node that tss_set has made and freed
  Iterations,   \* TSS_DTOR_ITERATIONS, 4 in the code
  MaxCreates    \* bound of the model on how often a key is created

ASSUME TssAssumption ==
  /\ IsFiniteSet(Keys)
  /\ NULL \notin Values \cup (Keys \X Nat) /\ DANGLING \notin {NULL} \cup (Keys \X Nat)
  /\ Iterations \in Nat \ {0} /\ MaxCreates \in Nat \ {0}

VARIABLES
  live,       \* the keys that are allocated
  dtor,       \* _tinycthread_tss_dtors: has the key a destructor?
  created,    \* how often each key has been created
  mem,        \* mem[t][n]: node n of thread t
  ends,       \* _tinycthread_tss_head and _tail of each thread
  last,       \* the value each thread last set for each key
  thread,     \* what each thread is doing
  undefined   \* the behaviour of the program is undefined from here on

vars == <<live, dtor, created, mem, ends, last, thread, undefined>>

Nodes == Keys \X (1 .. MaxCreates)
KeyOf(n) == n[1]
Current(k) == <<k, created[k]>>

Running == [pc |-> "run", node |-> NULL, round |-> 0, again |-> FALSE]

Init ==
  /\ live = {}
  /\ dtor = [k \in Keys |-> FALSE]
  /\ created = [k \in Keys |-> 0]
  /\ mem = [t \in Threads |->
              [n \in Nodes |-> [state |-> "none", value |-> NULL, next |-> NULL]]]
  /\ ends = [t \in Threads |-> [head |-> NULL, tail |-> NULL]]
  /\ last = [t \in Threads |-> [k \in Keys |-> NULL]]
  /\ thread = [t \in Threads |-> Running]
  /\ undefined = FALSE

\* Thread t runs code of the program: its own function, or a destructor.
Runs(t) == ~undefined /\ thread[t].pc \in {"run", "dtor"}

Freed(t, n) == n # DANGLING => mem[t][n].state = "freed"

\* TlsGetValue: does thread t have a node for the live key k?
HasNode(t, k) == mem[t][Current(k)].state = "used"

------------------------------------------------------------------------------
(* tss_create and tss_set                                                   *)

Create(k, hasDtor) ==
  /\ ~undefined
  /\ k \notin live
  /\ created[k] < MaxCreates
  /\ live' = live \cup {k}
  /\ dtor' = [dtor EXCEPT ![k] = hasDtor]
  /\ created' = [created EXCEPT ![k] = @ + 1]
  /\ UNCHANGED <<mem, ends, last, thread, undefined>>

\* Mutant of Linked: the new node becomes the head and forgets the old one.
LinkedAsHead(t, m, n) ==
  /\ mem' = m
  /\ ends' = [ends EXCEPT ![t] = [head |-> n, tail |-> n]]
  /\ UNCHANGED undefined

\* The node n goes after the tail, in the memory m of thread t; the tail
\* stays where it is once there is one.  It may be a node that was freed.
Linked(t, m, n) ==
  LET tail == ends[t].tail
  IN /\ mem' = IF tail \in Nodes THEN [m EXCEPT ![t][tail].next = n] ELSE m
     /\ ends' = [ends EXCEPT ![t].tail = IF @ = NULL THEN n ELSE @,
                             ![t].head = IF @ = NULL THEN n ELSE @]
     /\ undefined' = (tail # NULL /\ Freed(t, tail))

NewNode(v) == [state |-> "used", value |-> v, next |-> NULL]

\* Mutant of Store: a node that exists keeps its value.
StoreOnce(t, m, k, v) ==
  IF HasNode(t, k)
  THEN mem' = m /\ UNCHANGED <<ends, undefined>>
  ELSE Linked(t, [m EXCEPT ![t][Current(k)] = NewNode(v)], Current(k))

\* tss_set(k, v) by thread t in the memory m.
Store(t, m, k, v) ==
  IF HasNode(t, k)
  THEN mem' = [m EXCEPT ![t][Current(k)].value = v] /\ UNCHANGED <<ends, undefined>>
  ELSE Linked(t, [m EXCEPT ![t][Current(k)] = NewNode(v)], Current(k))

\* TlsSetValue fails: the new node is freed after it was linked, and stays
\* in the list.
StoreFails(t, m, k) == ~HasNode(t, k) /\ Linked(t, m, DANGLING)

Set(t, k, v) ==
  /\ Runs(t)
  /\ k \in live
  /\ Store(t, mem, k, v)
  /\ last' = [last EXCEPT ![t][k] = v]
  /\ UNCHANGED <<live, dtor, created, thread>>

SetFails(t, k) ==
  /\ Runs(t)
  /\ k \in live
  /\ StoreFails(t, mem, k)
  /\ UNCHANGED <<live, dtor, created, last, thread>>

------------------------------------------------------------------------------
(* tss_delete                                                               *)

\* The list from the head: up to NULL, or the first node that was freed.
List(t) ==
  LET from[k \in 0 .. Cardinality(Nodes)] ==
        IF k = 0 THEN <<ends[t].head>>
        ELSE LET l == from[k - 1]
                 n == l[Len(l)]
             IN IF n = NULL THEN l
                ELSE IF Freed(t, n) THEN l ELSE Append(l, mem[t][n].next)
  IN from[Cardinality(Nodes)]

InList(t, n) == \E i \in DOMAIN List(t) : List(t)[i] = n

\* The node before n: NULL if n is the head.
Before(t, n) ==
  IF \E i \in 2 .. Len(List(t)) : List(t)[i] = n
  THEN CHOOSE p \in Nodes : InList(t, p) /\ mem[t][p].next = n
  ELSE NULL

\* The head is unlinked.  Any other node is freed where it is, in the list,
\* after a search for the one before it that has no other end.
Delete(t, k) ==
  LET n == Current(k)
  IN /\ Runs(t)
     /\ k \in live
     /\ IF HasNode(t, k)
        THEN /\ mem' = [mem EXCEPT ![t][n].state = "freed"]
             /\ ends' = [ends EXCEPT
                  ![t].head = IF @ = n THEN mem[t][n].next ELSE @,
                  ![t].tail = IF @ = n THEN Before(t, n) ELSE @]
             /\ undefined' = (ends[t].head # NULL /\ ~InList(t, n))
        ELSE UNCHANGED <<mem, ends, undefined>>
     /\ live' = live \ {k}
     /\ dtor' = [dtor EXCEPT ![k] = FALSE]
     /\ last' = [u \in Threads |-> [last[u] EXCEPT ![k] = NULL]]
     /\ UNCHANGED <<created, thread>>

------------------------------------------------------------------------------
(* thrd_exit, or the return of the thread's function                        *)

\* A round goes through the list from its head.
Round(t, k) == [pc |-> "clean", node |-> ends[t].head, round |-> k, again |-> FALSE]

Exit(t) ==
  /\ ~undefined /\ thread[t].pc = "run"
  /\ thread' = [thread EXCEPT ![t] =
                  IF ends[t].head = NULL THEN [Running EXCEPT !.pc = "ended"]
                                         ELSE Round(t, 1)]
  /\ UNCHANGED <<live, dtor, created, mem, ends, last, undefined>>

Cleans(t) == ~undefined /\ thread[t].pc = "clean"

\* The cleanup is at a node, and may read it.
Readable(t) == thread[t].node # NULL /\ ~Freed(t, thread[t].node)
AtNode(t) == Cleans(t) /\ Readable(t)

\* The node holds a value whose key has a destructor.
Destroys(t) ==
  LET n == thread[t].node
  IN mem[t][n].value # NULL /\ dtor[KeyOf(n)]

\* The destructor is called with the value, which is no more in the node.
CleanValue(t) ==
  LET n == thread[t].node
      k == KeyOf(n)
  IN /\ AtNode(t) /\ Destroys(t)
     /\ mem' = [mem EXCEPT ![t][n].value = NULL]
     /\ last' = IF n = Current(k) THEN [last EXCEPT ![t][k] = NULL] ELSE last
     /\ thread' = [thread EXCEPT ![t].pc = "dtor", ![t].again = TRUE]
     /\ UNCHANGED <<live, dtor, created, ends, undefined>>

\* The destructor returns, and the next node is looked for in the node.
CleanNext(t) ==
  /\ ~undefined /\ thread[t].pc = "dtor"
  /\ Readable(t)
  /\ thread' = [thread EXCEPT ![t].pc = "clean", ![t].node = mem[t][thread[t].node].next]
  /\ UNCHANGED <<live, dtor, created, mem, ends, last, undefined>>

\* A node without a value, or whose key has no destructor.
CleanOther(t) ==
  LET n == thread[t].node
  IN /\ AtNode(t) /\ ~Destroys(t)
     /\ mem' = [mem EXCEPT ![t][n].value = NULL]
     /\ thread' = [thread EXCEPT ![t].node = mem[t][n].next]
     /\ UNCHANGED <<live, dtor, created, ends, last, undefined>>

\* Mutant of CleanRound: rounds are not counted.
CleanRoundUncounted(t) ==
  /\ Cleans(t) /\ thread[t].node = NULL
  /\ thread[t].again /\ thread[t].round < Iterations
  /\ thread' = [thread EXCEPT ![t] = Round(t, thread[t].round)]
  /\ UNCHANGED <<live, dtor, created, mem, ends, last, undefined>>

CleanRound(t) ==
  /\ Cleans(t) /\ thread[t].node = NULL
  /\ thread[t].again /\ thread[t].round < Iterations
  /\ thread' = [thread EXCEPT ![t] = Round(t, thread[t].round + 1)]
  /\ UNCHANGED <<live, dtor, created, mem, ends, last, undefined>>

RoundsOver(t) == ~thread[t].again \/ thread[t].round = Iterations

\* No node from the head to the end of the list was freed.
Whole(t) == InList(t, NULL)

CleanFree(t) ==
  /\ Cleans(t) /\ thread[t].node = NULL
  /\ RoundsOver(t) /\ Whole(t)
  /\ mem' = [mem EXCEPT ![t] = [n \in Nodes |->
               IF InList(t, n) THEN [mem[t][n] EXCEPT !.state = "freed"] ELSE mem[t][n]]]
  /\ ends' = [ends EXCEPT ![t] = [head |-> NULL, tail |-> NULL]]
  /\ thread' = [thread EXCEPT ![t].pc = "ended"]
  /\ UNCHANGED <<live, dtor, created, last, undefined>>

\* The cleanup comes to a node that was freed, in a round or after them, or
\* comes back to the one its destructor freed.
CleanMisstep(t) ==
  /\ ~undefined /\ thread[t].pc \in {"clean", "dtor"}
  /\ IF thread[t].node = NULL THEN RoundsOver(t) /\ ~Whole(t) ELSE Freed(t, thread[t].node)
  /\ undefined' = TRUE
  /\ UNCHANGED <<live, dtor, created, mem, ends, last, thread>>

Cleanup(t) ==
  \/ CleanValue(t) \/ CleanNext(t) \/ CleanOther(t)
  \/ CleanRound(t) \/ CleanFree(t) \/ CleanMisstep(t)

Next ==
  \/ \E k \in Keys, hasDtor \in BOOLEAN : Create(k, hasDtor)
  \/ \E t \in Threads :
       \/ \E k \in Keys, v \in Values \cup {NULL} : Set(t, k, v)
       \/ \E k \in Keys : SetFails(t, k) \/ Delete(t, k)
       \/ Exit(t)
       \/ Cleanup(t)

Spec == Init /\ [][Next]_vars

------------------------------------------------------------------------------
(* Properties                                                               *)

Pointers == Nodes \cup {NULL, DANGLING}

\* Type correctness.
TypeOK ==
  /\ live \subseteq Keys
  /\ dtor \in [Keys -> BOOLEAN] /\ created \in [Keys -> 0 .. MaxCreates]
  /\ mem \in [Threads -> [Nodes -> [state : {"none", "used", "freed"},
                                    value : Values \cup {NULL}, next : Pointers]]]
  /\ ends \in [Threads -> [head : Pointers, tail : Pointers]]
  /\ last \in [Threads -> [Keys -> Values \cup {NULL}]]
  /\ thread \in [Threads -> [pc : {"run", "clean", "dtor", "ended"}, node : Pointers,
                             round : 0 .. Iterations, again : BOOLEAN]]
  /\ undefined \in BOOLEAN

\* tinycthread.h:439: tss_get returns the value the thread last set for the
\* key since it was created, whatever other keys and threads did meanwhile.
GetReturnsLastSet ==
  \A t \in Threads, k \in live :
    ~undefined /\ thread[t].pc = "run" =>
      last[t][k] = IF HasNode(t, k) THEN mem[t][Current(k)].value ELSE NULL

\* The tail stays at the first node, so the third one unlinks the second:
\* what is said of the end of a thread is of one that has made at most two.
Made(t) == {n \in Nodes : mem[t][n].state # "none"}
FewNodes(t) == Cardinality(Made(t)) <= 2

\* tinycthread.h:426: "the dtor will definitely be called when appropriate
\* for threads created with thrd_create": a thread that ended has left no
\* value whose key has a destructor, unless destructors kept setting values
\* for as many rounds as there are.
DtorsRun ==
  \A t \in Threads, k \in live :
    /\ thread[t].pc = "ended" /\ dtor[k] /\ FewNodes(t)
    /\ thread[t].round < Iterations
    => last[t][k] = NULL

\* A thread that ended has freed every node it allocated.  Type correctness
\* is part of it.
NothingLeaks ==
  /\ TypeOK
  /\ \A t \in Threads, n \in Nodes :
       thread[t].pc = "ended" /\ FewNodes(t) => mem[t][n].state # "used"
==============================================================================
