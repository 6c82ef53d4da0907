----------------------------- MODULE TtThrdProofs -----------------------------
(***************************************************************************)
(* Threads and their storage, for any number of threads, keys and values.  *)
(*                                                                         *)
(* The start information of a thread has one owner.  A block is made for a *)
(* thread that has not started and that nobody creates, and goes from its  *)
(* creator to the new thread in the step that makes the thread.            *)
(* InfoHasOwner says all of that but that a thread that creates or joins   *)
(* one has named it, which CallsName adds.                                 *)
(*                                                                         *)
(* Values are read back.  A node belongs to one creation of its key, so    *)
(* what other threads leave under a key that is deleted is not taken for   *)
(* the value of a new one (StorageInv).  The walk along a list, by         *)
(* induction, shows that a thread's head and tail stay nodes.              *)
(*                                                                         *)
(* A join returns the result of a thread that has ended.                   *)
(*                                                                         *)
(* A thread that has made at most two nodes leaves none behind (EndInv).   *)
(* Its list is whole and has every node in use, or else the cleanup comes  *)
(* to a node that was freed at one of its first two steps (ListShape).     *)
(* What the thread set last is in nodes that the round has yet to come to, *)
(* unless a destructor was called, and then there is a further round       *)
(* (Cleaning).                                                             *)
(***************************************************************************)
EXTENDS TtThrd, FiniteSetTheorems, WellFoundedInduction, TLAPS

CallsName == \A c \in Threads : call[c].op # "none" => call[c].thr \in Threads

IInv == InfoHasOwner /\ CallsName

LEMMA InitIInv == ThrdInit => IInv
  BY ThrdAssumption
  DEF ThrdInit, IInv, InfoHasOwner, CallsName, ThrdTypeOK, Started, Creates, NoCall

\* Steps of the storage leave threads and calls alone.
LEMMA SameIInv ==
  ASSUME IInv, UNCHANGED thrdVars
  PROVE  IInv'
  BY DEF IInv, InfoHasOwner, CallsName, ThrdTypeOK, Started, Creates, thrdVars

\* One field of what is known of a thread changes.
ThrdRecs == [at : {"none", "new", "read", "up"}, info : {"none", "made", "freed"},
             handle : {"none", "open", "closed"}]

CallRecs == [op : {"none", "create", "created", "join"}, thr : Threads \cup {NULL}]

LEMMA StateChanged ==
  ASSUME ThrdTypeOK, NEW t \in Threads
  PROVE  /\ [thrd EXCEPT ![t].at = "read"] \in [Threads -> ThrdRecs]
         /\ [thrd EXCEPT ![t].at = "new"] \in [Threads -> ThrdRecs]
         /\ [thrd EXCEPT ![t].handle = "open"] \in [Threads -> ThrdRecs]
         /\ [thrd EXCEPT ![t].info = "made"] \in [Threads -> ThrdRecs]
         /\ [thrd EXCEPT ![t].info = "freed"] \in [Threads -> ThrdRecs]
<1>1. thrd \in [Threads -> ThrdRecs]
  BY DEF ThrdTypeOK, ThrdRecs
<1>2. /\ [thrd[t] EXCEPT !.at = "read"] \in ThrdRecs
      /\ [thrd[t] EXCEPT !.at = "new"] \in ThrdRecs
      /\ [thrd[t] EXCEPT !.handle = "open"] \in ThrdRecs
      /\ [thrd[t] EXCEPT !.info = "made"] \in ThrdRecs
      /\ [thrd[t] EXCEPT !.info = "freed"] \in ThrdRecs
  BY <1>1 DEF ThrdRecs
<1> QED
  BY <1>1, <1>2

\* The way from thrd_create to the thread's function.
LEMMA StartIInv ==
  ASSUME IInv, NEW c \in Threads,
         \/ Spawn(c) \/ CreateReturn(c) \/ SpawnFails(c) \/ ReadInfo(c) \/ FreeInfo(c)
         \/ \E t \in Threads : ThrdCreate(c, t)
  PROVE  IInv'
<1> USE ThrdAssumption
    DEF IInv, InfoHasOwner, CallsName, ThrdTypeOK, Started, Creates, NoCall
<1>1. CASE Spawn(c)
  <2>1. /\ call[c].op = "create" /\ call' = [call EXCEPT ![c].op = "created"]
        /\ thrd' = [thrd EXCEPT ![call[c].thr].at = "new"]
        /\ code' = code /\ joined' = joined
    BY <1>1 DEF Spawn, Calls
  <2>2. PICK t \in Threads : Creates(c, t)
    BY <2>1
  <2>3. /\ \A d \in Threads, u \in Threads : Creates(d, u)' <=> Creates(d, u) /\ d # c
        /\ \A u \in Threads : Creates(c, u) => u = t
        /\ \A d \in Threads : Creates(d, t) => d = c
    BY <2>1, <2>2
  <2>4. call[c].thr = t
    BY <2>2
  <2>5. \A u \in Threads : /\ thrd'[u].info = thrd[u].info
                           /\ thrd'[u].at = IF u = t THEN "new" ELSE thrd[u].at
    BY <2>1, <2>4
  <2>6. ThrdTypeOK' /\ \A d \in Threads : call'[d].thr = call[d].thr
    <3>1. thrd' \in [Threads -> ThrdRecs]
      BY <2>1, <2>4, StateChanged
    <3>2. call' \in [Threads -> CallRecs] /\ \A d \in Threads : call'[d].thr = call[d].thr
      BY <2>1 DEF CallRecs
    <3> QED BY <2>1, <3>1, <3>2 DEF ThrdRecs, CallRecs
  <2>7. \A d \in Threads : call'[d].op # "none" => call[d].op # "none"
    BY <2>1
  <2>8. InfoHasOwner'
    <3> HIDE DEF ThrdTypeOK, Creates
    <3> QED BY <2>2, <2>3, <2>5, <2>6
  <2>9. CallsName'
    BY <2>6, <2>7
  <2> QED BY <2>8, <2>9
<1>2. CASE SpawnFails(c)
  <2>1. /\ call[c].op = "create" /\ call' = [call EXCEPT ![c] = NoCall]
        /\ thrd' = [thrd EXCEPT ![call[c].thr].info = "freed"]
        /\ code' = code /\ joined' = joined
    BY <1>2 DEF SpawnFails, Calls, Return
  <2>2. PICK t \in Threads : Creates(c, t)
    BY <2>1
  <2>3. /\ \A d \in Threads, u \in Threads : Creates(d, u)' <=> Creates(d, u) /\ d # c
        /\ \A u \in Threads : Creates(c, u) => u = t
    BY <2>1, <2>2
  <2>4. \A u \in Threads : /\ thrd'[u].at = thrd[u].at
                           /\ thrd'[u].info = IF u = t THEN "freed" ELSE thrd[u].info
    BY <2>1, <2>2
  <2>5. ThrdTypeOK'
    <3>1. thrd' \in [Threads -> ThrdRecs]
      <4>1. call[c].thr = t
        BY <2>2
      <4> QED BY <2>1, <4>1, StateChanged
    <3>2. call' \in [Threads -> CallRecs]
      BY <2>1 DEF CallRecs
    <3> QED BY <2>1, <3>1, <3>2 DEF ThrdRecs, CallRecs
  <2> QED
    <3> HIDE DEF ThrdTypeOK
    <3> QED BY <2>1, <2>2, <2>3, <2>4, <2>5
<1>3. CASE ReadInfo(c)
  <2>1. /\ thrd[c].at = "new" /\ thrd' = [thrd EXCEPT ![c].at = "read"]
        /\ call' = call /\ code' = code /\ joined' = joined
    BY <1>3 DEF ReadInfo
  <2>2. ThrdTypeOK'
    <3>1. thrd' \in [Threads -> ThrdRecs]
      BY <2>1, StateChanged
    <3> QED BY <2>1, <3>1 DEF ThrdRecs
  <2>3. \A u \in Threads : /\ thrd'[u].info = thrd[u].info
                           /\ thrd'[u].at \in {"new", "read"} <=> thrd[u].at \in {"new", "read"}
    BY <2>1
  <2> QED
    <3> HIDE DEF ThrdTypeOK
    <3> QED BY <2>1, <2>2, <2>3
<1>4. CASE FreeInfo(c)
  BY <1>4 DEF FreeInfo
<1>5. ASSUME NEW t \in Threads, ThrdCreate(c, t) PROVE IInv'
  <2>1. /\ thrd[t].at = "none" /\ \A u \in Threads : call[u].thr # t
        /\ thrd' = [thrd EXCEPT ![t].info = "made"]
        /\ call' = [call EXCEPT ![c] = [op |-> "create", thr |-> t]]
        /\ code' = code /\ joined' = joined
    BY <1>5 DEF ThrdCreate, Begin
  <2>2. ThrdTypeOK'
    <3>1. thrd' \in [Threads -> ThrdRecs]
      BY <2>1, StateChanged
    <3>2. call' \in [Threads -> CallRecs]
      BY <2>1 DEF CallRecs
    <3> QED BY <2>1, <3>1, <3>2 DEF ThrdRecs, CallRecs
  <2>3. \A u \in Threads : /\ thrd'[u].info = IF u = t THEN "made" ELSE thrd[u].info
                           /\ thrd'[u].at = thrd[u].at
    BY <2>1
  <2>4. \A d \in Threads : call'[d] = IF d = c THEN [op |-> "create", thr |-> t] ELSE call[d]
    BY <2>1
  <2>5. call[c] = NoCall
    BY <1>5 DEF ThrdCreate, Begin, InFunction, Idle
  <2>6. \A d, u \in Threads :
          Creates(d, u)' <=> (d = c /\ u = t) \/ Creates(d, u)
    <3> HIDE DEF ThrdTypeOK
    <3> QED BY <2>1, <2>4, <2>5
  <2>7. ~Started(t) /\ \A d \in Threads : ~Creates(d, t)
    BY <2>1
  <2>8. InfoHasOwner'
    <3> HIDE DEF ThrdTypeOK, Creates
    <3> QED BY <2>2, <2>3, <2>6, <2>7
  <2>9. CallsName'
    <3> HIDE DEF ThrdTypeOK
    <3> QED BY <2>4
  <2> QED BY <2>8, <2>9
<1>6. CASE CreateReturn(c)
  <2>1. /\ call[c].op = "created" /\ call' = [call EXCEPT ![c] = NoCall]
        /\ thrd' = [thrd EXCEPT ![call[c].thr].handle = "open"]
        /\ code' = code /\ joined' = joined
    BY <1>6 DEF CreateReturn, Calls, Return
  <2>2. ThrdTypeOK'
    <3>1. thrd' \in [Threads -> ThrdRecs]
      BY <2>1, StateChanged
    <3>2. call' \in [Threads -> CallRecs]
      BY <2>1 DEF CallRecs
    <3> QED BY <2>1, <3>1, <3>2 DEF ThrdRecs, CallRecs
  <2>3. \A u \in Threads : thrd'[u].info = thrd[u].info /\ thrd'[u].at = thrd[u].at
    BY <2>1
  <2>4. \A d, u \in Threads : Creates(d, u)' <=> Creates(d, u)
    BY <2>1
  <2>5. CallsName'
    BY <2>1
  <2> QED
    <3> HIDE DEF ThrdTypeOK, Creates, CallsName
    <3> QED BY <2>2, <2>3, <2>4, <2>5
<1> QED
  BY <1>1, <1>2, <1>3, <1>4, <1>5, <1>6

\* Its end, thrd_join and thrd_detach.
LEMMA EndIInv ==
  ASSUME IInv, NEW c \in Threads,
         \/ \E res \in Results : ThrdExit(c, res)
         \/ JoinReturn(c) \/ JoinFails(c)
         \/ \E t \in Threads : ThrdJoin(c, t) \/ ThrdDetach(c, t)
  PROVE  IInv'
<1> USE ThrdAssumption
    DEF IInv, InfoHasOwner, CallsName, ThrdTypeOK, Started, Creates, NoCall
<1>1. ASSUME NEW res \in Results, ThrdExit(c, res) PROVE IInv'
  BY <1>1 DEF ThrdExit
<1>2. CASE JoinReturn(c)
  BY <1>2 DEF JoinReturn, Calls, Return
<1>3. CASE JoinFails(c)
  BY <1>3 DEF JoinFails, Calls, Return
<1>4. ASSUME NEW t \in Threads, ThrdJoin(c, t) PROVE IInv'
  BY <1>4 DEF ThrdJoin, Begin, InFunction, Idle
<1>5. ASSUME NEW t \in Threads, ThrdDetach(c, t) PROVE IInv'
  BY <1>5 DEF ThrdDetach
<1> QED
  BY <1>1, <1>2, <1>3, <1>4, <1>5

LEMMA StepIInv == IInv /\ [ThrdNext]_allVars => IInv'
<1> SUFFICES ASSUME IInv, [ThrdNext]_allVars PROVE IInv'
  OBVIOUS
<1>1. CASE UNCHANGED allVars
  BY <1>1, SameIInv DEF allVars
<1>2. CASE Storage
  BY <1>2, SameIInv DEF Storage
<1>3. CASE \E c \in Threads :
             \/ Spawn(c) \/ CreateReturn(c) \/ SpawnFails(c) \/ ReadInfo(c) \/ FreeInfo(c)
             \/ \E t \in Threads : ThrdCreate(c, t)
  BY <1>3, StartIInv
<1>4. CASE \E c \in Threads :
             \/ \E res \in Results : ThrdExit(c, res)
             \/ JoinReturn(c) \/ JoinFails(c)
             \/ \E t \in Threads : ThrdJoin(c, t) \/ ThrdDetach(c, t)
  BY <1>4, EndIInv
<1> QED
  BY <1>1, <1>2, <1>3, <1>4, Zenon DEF ThrdNext

\* The start information is there for one thread to read and free, or for its
\* one creator to hand over or free, and no block is left behind.
THEOREM ThrdInfoHasOwner == ThrdSpec => []InfoHasOwner
<1>1. IInv => InfoHasOwner
  BY DEF IInv
<1> QED
  BY <1>1, InitIInv, StepIInv, PTL DEF ThrdSpec

------------------------------------------------------------------------------
(* The list of a thread's nodes.                                            *)

\* What holds of 0, and of a number's successor when it holds of the number,
\* holds of all numbers.
LEMMA InductionOnNat ==
  ASSUME NEW S, 0 \in S, \A k \in Nat : k \in S => k + 1 \in S
  PROVE  Nat \subseteq S
  <1> DEFINE Less == {ss \in Nat \X Nat : ss[1] < ss[2]}
             Rest == Nat \ S
  <1>1. IsWellFoundedOn(Less, Nat)
    BY NatLessThanWellFounded, Zenon DEF OpToRel
  <1> SUFFICES ASSUME Rest # {} PROVE FALSE
    OBVIOUS
  <1>2. PICK b \in Rest : \A c \in Rest : <<c, b>> \notin Less
    <2> HIDE DEF Less
    <2> QED BY <1>1, WFMin
  <1>3. b \in Nat /\ b \notin S /\ b # 0
    BY <1>2
  <1>4. b - 1 \in Nat /\ b - 1 < b /\ (b - 1) + 1 = b
    BY <1>3
  <1>5. b - 1 \in Rest
    BY <1>3, <1>4
  <1>6. <<b - 1, b>> \in Less
    BY <1>3, <1>4
  <1> QED BY <1>2, <1>5, <1>6

\* The walk of List from the head, in as many steps as f has.
Walked(t, l) ==
  LET n == l[Len(l)]
  IN IF n = NULL THEN l ELSE IF Freed(t, n) THEN l ELSE Append(l, mem[t][n].next)

Walk(t, m, f) ==
  f = [k \in 0 .. m |-> IF k = 0 THEN <<ends[t].head>> ELSE Walked(t, f[k - 1])]

LEMMA WalkExists ==
  ASSUME NEW t, NEW m \in Nat
  PROVE  \E f : Walk(t, m, f)
  <1> DEFINE S == {k \in Nat : \E f : Walk(t, k, f)}
  <1>1. 0 \in S
    <2>1. Walk(t, 0, [k \in 0 .. 0 |-> <<ends[t].head>>])
      BY DEF Walk
    <2> QED BY <2>1
  <1>2. ASSUME NEW k \in Nat, k \in S PROVE k + 1 \in S
    <2>1. PICK f : Walk(t, k, f)
      BY <1>2
    <2> DEFINE g == [j \in 0 .. k + 1 |-> IF j <= k THEN f[j] ELSE Walked(t, f[k])]
    <2>2. ASSUME NEW j \in 0 .. k + 1
          PROVE  g[j] = IF j = 0 THEN <<ends[t].head>> ELSE Walked(t, g[j - 1])
      <3>1. CASE j = 0
        BY <2>1, <3>1 DEF Walk
      <3>2. CASE j \in 1 .. k
        <4>1. g[j] = f[j] /\ g[j - 1] = f[j - 1] /\ j # 0
          BY <3>2
        <4>2. f[j] = Walked(t, f[j - 1])
          <5> HIDE DEF g
          <5> QED BY <2>1, <3>2 DEF Walk
        <4> QED BY <4>1, <4>2
      <3>3. CASE j = k + 1
        <4>1. g[j] = Walked(t, f[k]) /\ j # 0 /\ j - 1 = k /\ g[k] = f[k]
          BY <3>3
        <4> QED BY <4>1
      <3> QED BY <3>1, <3>2, <3>3
    <2>3. Walk(t, k + 1, g)
      <3>1. g = [j \in 0 .. k + 1 |-> g[j]]
        OBVIOUS
      <3> HIDE DEF g
      <3> QED BY <2>2, <3>1 DEF Walk
    <2> QED BY <2>3
  <1>3. Nat \subseteq S
    <2> HIDE DEF S
    <2> QED BY <1>1, <1>2, InductionOnNat
  <1> QED BY <1>3

LEMMA NodesFinite == IsFiniteSet(Nodes) /\ Cardinality(Nodes) \in Nat
  <1>1. IsFiniteSet(Keys) /\ MaxCreates \in Nat
    BY TssAssumption
  <1>2. IsFiniteSet(1 .. MaxCreates)
    BY <1>1, FS_Interval
  <1> QED BY <1>1, <1>2, FS_Product, FS_CardinalityType DEF Nodes

LEMMA ListIsWalk ==
  ASSUME NEW t
  PROVE  \E f : Walk(t, Cardinality(Nodes), f) /\ List(t) = f[Cardinality(Nodes)]
  <1> DEFINE f == CHOOSE x : Walk(t, Cardinality(Nodes), x)
  <1>1. Walk(t, Cardinality(Nodes), f)
    <2>1. \E x : Walk(t, Cardinality(Nodes), x)
      BY NodesFinite, WalkExists
    <2> QED BY <2>1
  <1>2. List(t) = f[Cardinality(Nodes)]
    BY DEF List, Walk, Walked
  <1> QED BY <1>1, <1>2

\* What is on the list comes from the head, or from a node on the list that
\* has not been freed.
LEMMA ListLinks ==
  ASSUME TypeOK, NEW t \in Threads
  PROVE  /\ List(t) \in Seq(Pointers) /\ Len(List(t)) >= 1 /\ List(t)[1] = ends[t].head
         /\ \A i \in 2 .. Len(List(t)) :
              /\ List(t)[i - 1] \in Nodes /\ ~Freed(t, List(t)[i - 1])
              /\ mem[t][List(t)[i - 1]].next = List(t)[i]
  <1> DEFINE N == Cardinality(Nodes)
             Good(l) == /\ l \in Seq(Pointers) /\ Len(l) >= 1 /\ l[1] = ends[t].head
                        /\ \A i \in 2 .. Len(l) :
                             /\ l[i - 1] \in Nodes /\ ~Freed(t, l[i - 1])
                             /\ mem[t][l[i - 1]].next = l[i]
  <1>1. PICK f : Walk(t, N, f) /\ List(t) = f[N]
    BY ListIsWalk
  <1>2. N \in Nat
    BY NodesFinite
  <1> HIDE DEF N
  <1>3. Good(<<ends[t].head>>)
    BY DEF TypeOK
  <1>4. ASSUME NEW l, Good(l) PROVE Good(Walked(t, l))
    <2> DEFINE n == l[Len(l)]
               x == mem[t][n].next
    <2>1. CASE n = NULL \/ Freed(t, n)
      BY <1>4, <2>1 DEF Walked
    <2>2. CASE n # NULL /\ ~Freed(t, n)
      <3>1. n \in Nodes /\ Len(l) \in Nat
        BY <1>4, <2>2 DEF Pointers, Freed
      <3>2. x \in Pointers
        BY <3>1 DEF TypeOK
      <3>3. Walked(t, l) = Append(l, x)
        BY <2>2 DEF Walked
      <3>4. /\ Append(l, x) \in Seq(Pointers) /\ Len(Append(l, x)) = Len(l) + 1
            /\ Append(l, x)[Len(l) + 1] = x
            /\ \A i \in 1 .. Len(l) : Append(l, x)[i] = l[i]
        BY <1>4, <3>2
      <3>5. ASSUME NEW i \in 2 .. Len(l) + 1
            PROVE  /\ Append(l, x)[i - 1] \in Nodes /\ ~Freed(t, Append(l, x)[i - 1])
                   /\ mem[t][Append(l, x)[i - 1]].next = Append(l, x)[i]
        <4>1. CASE i = Len(l) + 1
          <5>1. i - 1 = Len(l) /\ Append(l, x)[i] = x /\ Append(l, x)[i - 1] = n
            BY <1>4, <3>1, <3>4, <4>1
          <5> QED BY <2>2, <3>1, <5>1
        <4>2. CASE i # Len(l) + 1
          <5>1. i \in 2 .. Len(l) /\ i - 1 \in 1 .. Len(l) /\ i \in 1 .. Len(l)
            BY <3>1, <4>2
          <5> QED BY <1>4, <3>4, <5>1
        <4> QED BY <4>1, <4>2
      <3> QED
        <4>1. Append(l, x)[1] = ends[t].head /\ Len(l) + 1 >= 1
          BY <1>4, <3>1, <3>4
        <4> QED BY <3>3, <3>4, <3>5, <4>1
    <2> QED BY <2>1, <2>2
  <1> HIDE DEF Good
  <1>5. \A k \in Nat : k <= N => Good(f[k])
    <2> DEFINE S == {k \in Nat : k <= N => Good(f[k])}
    <2>1. 0 \in S
      BY <1>1, <1>2, <1>3 DEF Walk
    <2>2. ASSUME NEW k \in Nat, k \in S PROVE k + 1 \in S
      <3> SUFFICES ASSUME k + 1 <= N PROVE Good(f[k + 1])
        OBVIOUS
      <3>1. Good(f[k])
        BY <1>2, <2>2
      <3>2. k + 1 \in 0 .. N /\ k + 1 # 0 /\ (k + 1) - 1 = k
        BY <1>2
      <3>3. f[k + 1] = Walked(t, f[(k + 1) - 1])
        BY <1>1, <3>2 DEF Walk
      <3> QED BY <1>4, <3>1, <3>2, <3>3
    <2>3. Nat \subseteq S
      <3> HIDE DEF S
      <3> QED BY <2>1, <2>2, InductionOnNat
    <2> QED BY <2>3
  <1>6. Good(List(t))
    BY <1>1, <1>2, <1>5
  <1> QED BY <1>6 DEF Good

\* The node before another is a node, if there is one.
LEMMA BeforeIsPointer ==
  ASSUME TypeOK, NEW t \in Threads, NEW n
  PROVE  Before(t, n) \in Pointers
  <1>1. CASE \E i \in 2 .. Len(List(t)) : List(t)[i] = n
    <2>1. PICK i \in 2 .. Len(List(t)) : List(t)[i] = n
      BY <1>1
    <2>2. List(t)[i - 1] \in Nodes /\ mem[t][List(t)[i - 1]].next = n
      BY <2>1, ListLinks
    <2>3. InList(t, List(t)[i - 1])
      <3>1. i - 1 \in 1 .. Len(List(t)) /\ DOMAIN List(t) = 1 .. Len(List(t))
        BY <2>1, ListLinks
      <3> QED BY <3>1 DEF InList
    <2>4. \E p \in Nodes : InList(t, p) /\ mem[t][p].next = n
      BY <2>2, <2>3
    <2> QED BY <1>1, <2>4 DEF Before, Pointers
  <1>2. CASE ~ \E i \in 2 .. Len(List(t)) : List(t)[i] = n
    BY <1>2 DEF Before, Pointers
  <1> QED BY <1>1, <1>2

------------------------------------------------------------------------------
(* Thread-specific storage.                                                 *)

NodeRecs == [state : {"none", "used", "freed"}, value : Values \cup {NULL}, next : Pointers]
Mems == [Threads -> [Nodes -> NodeRecs]]

\* A key that is allocated has been created, a node that is used was made
\* for a creation of its key, and no thread has a value for a key that is
\* not allocated.
StorageInv ==
  /\ TypeOK
  /\ \A k \in live : created[k] >= 1
  /\ \A t \in Threads, k \in Keys, i \in 1 .. MaxCreates :
       i > created[k] => mem[t][<<k, i>>].state # "used"
  /\ \A t \in Threads, k \in Keys : k \notin live => last[t][k] = NULL
  /\ GetReturnsLastSet

LEMMA CurrentIsNode ==
  ASSUME StorageInv, NEW k \in live
  PROVE  Current(k) \in Nodes /\ k \in Keys
  <1>1. k \in Keys /\ created[k] \in 0 .. MaxCreates /\ created[k] >= 1
    BY DEF StorageInv, TypeOK
  <1>2. created[k] \in 1 .. MaxCreates
    BY <1>1, TssAssumption
  <1> QED BY <1>1, <1>2 DEF Nodes, Current

\* The links of thread t after n was linked in the memory m.
LinkedTo(t, m, n) ==
  /\ \A x \in Nodes : mem'[t][x].next = IF x = ends[t].tail THEN n ELSE m[t][x].next
  /\ ends'[t] = [head |-> IF ends[t].head = NULL THEN n ELSE ends[t].head,
                 tail |-> IF ends[t].tail = NULL THEN n ELSE ends[t].tail]
  /\ undefined' = (ends[t].tail # NULL /\ Freed(t, ends[t].tail))

\* A step of thread t changes nothing of the others' lists.
OthersKept(t, m) == \A u \in Threads \ {t} : ends'[u] = ends[u] /\ mem'[u] = m[u]

\* Linking a node changes where nodes point, and nothing else in them.
LEMMA LinkedEffect ==
  ASSUME TypeOK, NEW t \in Threads, NEW m \in Mems, NEW n \in Pointers, Linked(t, m, n)
  PROVE  /\ mem' \in Mems /\ ends' \in [Threads -> [head : Pointers, tail : Pointers]]
         /\ undefined' \in BOOLEAN
         /\ \A u \in Threads, x \in Nodes :
              mem'[u][x].state = m[u][x].state /\ mem'[u][x].value = m[u][x].value
         /\ LinkedTo(t, m, n) /\ OthersKept(t, m)
  <1> DEFINE hd == IF ends[t].head = NULL THEN n ELSE ends[t].head
             tl == IF ends[t].tail = NULL THEN n ELSE ends[t].tail
  <1>1. ends[t].tail \in Pointers /\ ends[t].head \in Pointers
    BY DEF TypeOK
  <1>2. /\ ends' \in [Threads -> [head : Pointers, tail : Pointers]]
        /\ ends'[t] = [head |-> hd, tail |-> tl]
        /\ \A u \in Threads \ {t} : ends'[u] = ends[u]
    <2>1. hd \in Pointers /\ tl \in Pointers
      BY <1>1
    <2>2. ends' = [ends EXCEPT ![t].tail = tl, ![t].head = hd]
      BY DEF Linked
    <2>3. ends \in [Threads -> [head : Pointers, tail : Pointers]]
      BY DEF TypeOK
    <2> HIDE DEF Pointers, hd, tl
    <2> QED BY <2>1, <2>2, <2>3
  <1>3. undefined' = (ends[t].tail # NULL /\ Freed(t, ends[t].tail))
    BY DEF Linked
  <1>4. CASE ends[t].tail \notin Nodes
    BY <1>2, <1>3, <1>4 DEF Linked, LinkedTo, OthersKept
  <1>5. CASE ends[t].tail \in Nodes
    <2>1. PICK a \in Nodes : a = ends[t].tail
      BY <1>5
    <2>2. mem' = [m EXCEPT ![t][a].next = n]
      BY <1>5, <2>1 DEF Linked
    <2>3. m[t][a] \in NodeRecs
      BY DEF Mems
    <2> DEFINE r == [m[t][a] EXCEPT !.next = n]
    <2>4. /\ r \in NodeRecs /\ r.state = m[t][a].state /\ r.value = m[t][a].value
          /\ r.next = n
      BY <2>3 DEF NodeRecs
    <2>5. mem' = [m EXCEPT ![t][a] = r]
      BY <2>2
    <2> HIDE DEF r
    <2>6. /\ mem' \in Mems /\ \A u \in Threads \ {t} : mem'[u] = m[u]
          /\ \A u \in Threads, x \in Nodes :
               mem'[u][x] = IF u = t /\ x = a THEN r ELSE m[u][x]
      BY <2>4, <2>5 DEF Mems
    <2> QED BY <1>2, <1>3, <2>1, <2>4, <2>6 DEF LinkedTo, OthersKept
  <1> QED BY <1>4, <1>5

\* The memory in which tss_set links a new node.
WithNew(t, m, k, v) == [m EXCEPT ![t][Current(k)] = NewNode(v)]

\* tss_set stores the value under the key, and nothing else.
LEMMA StoreEffect ==
  ASSUME StorageInv, NEW t \in Threads, NEW m \in Mems, NEW k \in live,
         NEW v \in Values \cup {NULL},
         \A x \in Nodes : m[t][x].state = mem[t][x].state,
         Store(t, m, k, v)
  PROVE  /\ mem' \in Mems /\ ends' \in [Threads -> [head : Pointers, tail : Pointers]]
         /\ undefined' \in BOOLEAN
         /\ mem'[t][Current(k)].state = "used" /\ mem'[t][Current(k)].value = v
         /\ \A u \in Threads, x \in Nodes : u # t \/ x # Current(k) =>
              mem'[u][x].state = m[u][x].state /\ mem'[u][x].value = m[u][x].value
         /\ OthersKept(t, m)
         /\ \/ /\ HasNode(t, k) /\ UNCHANGED <<ends, undefined>>
               /\ \A x \in Nodes : mem'[t][x].next = m[t][x].next
            \/ ~HasNode(t, k) /\ LinkedTo(t, WithNew(t, m, k, v), Current(k))
  <1> DEFINE n == Current(k)
  <1>1. n \in Nodes /\ k \in Keys /\ TypeOK
    BY CurrentIsNode DEF StorageInv
  <1>2. CASE HasNode(t, k)
    <2>1. mem' = [m EXCEPT ![t][n].value = v] /\ UNCHANGED <<ends, undefined>>
      BY <1>2 DEF Store
    <2>2. m[t][n].state = "used"
      BY <1>1, <1>2 DEF HasNode
    <2> DEFINE r == [m[t][n] EXCEPT !.value = v]
    <2> HIDE DEF n
    <2>3. m[t][n] \in NodeRecs
      BY <1>1 DEF Mems
    <2>4. r \in NodeRecs /\ r.state = "used" /\ r.value = v /\ r.next = m[t][n].next
      BY <2>2, <2>3 DEF NodeRecs
    <2>5. mem' = [m EXCEPT ![t] = [m[t] EXCEPT ![n] = r]]
      BY <2>1
    <2> HIDE DEF r
    <2>6. /\ mem' \in Mems /\ \A u \in Threads \ {t} : mem'[u] = m[u]
          /\ \A x \in Nodes : mem'[t][x] = IF x = n THEN r ELSE m[t][x]
      BY <1>1, <2>4, <2>5 DEF Mems
    <2>7. OthersKept(t, m)
      BY <2>1, <2>6 DEF OthersKept
    <2> USE DEF n
    <2> QED BY <1>1, <1>2, <2>1, <2>4, <2>6, <2>7 DEF TypeOK
  <1>3. CASE ~HasNode(t, k)
    <2> DEFINE r == NewNode(v)
               w == WithNew(t, m, k, v)
    <2>1. r \in NodeRecs /\ r.state = "used" /\ r.value = v
      BY DEF NodeRecs, Pointers, NewNode
    <2>2. /\ w \in Mems /\ w[t][n] = r /\ \A u \in Threads \ {t} : w[u] = m[u]
          /\ \A u \in Threads, x \in Nodes : u # t \/ x # n => w[u][x] = m[u][x]
      <3>1. w = [m EXCEPT ![t][n] = r]
        BY DEF WithNew
      <3> HIDE DEF r, n, w
      <3> QED BY <1>1, <2>1, <3>1 DEF Mems
    <2>3. Linked(t, w, n)
      BY <1>3 DEF Store, WithNew
    <2> HIDE DEF w, r
    <2>4. n \in Pointers
      BY <1>1 DEF Pointers
    <2>5. /\ mem' \in Mems /\ ends' \in [Threads -> [head : Pointers, tail : Pointers]]
          /\ undefined' \in BOOLEAN
          /\ \A u \in Threads, x \in Nodes :
               mem'[u][x].state = w[u][x].state /\ mem'[u][x].value = w[u][x].value
          /\ LinkedTo(t, w, n) /\ OthersKept(t, w)
      BY <1>1, <2>2, <2>3, <2>4, LinkedEffect
    <2>6. OthersKept(t, m)
      BY <2>2, <2>5 DEF OthersKept
    <2>7. LinkedTo(t, WithNew(t, m, k, v), Current(k))
      BY <2>5 DEF w
    <2> QED BY <1>1, <1>3, <2>1, <2>2, <2>5, <2>6, <2>7
  <1> QED BY <1>2, <1>3

LEMMA StorageInit == Init => StorageInv
  <1> SUFFICES ASSUME Init PROVE StorageInv
    OBVIOUS
  <1>1. TypeOK
    <2>1. 0 \in 0 .. MaxCreates /\ 0 \in 0 .. Iterations
      BY TssAssumption
    <2> QED BY <2>1 DEF Init, TypeOK, Running, Pointers
  <1>2. \A t \in Threads, x \in Nodes : mem[t][x].state # "used"
    BY DEF Init
  <1>3. \A t \in Threads, k \in Keys, i \in 1 .. MaxCreates : <<k, i>> \in Nodes
    BY DEF Nodes
  <1> QED BY <1>1, <1>2, <1>3 DEF Init, StorageInv, GetReturnsLastSet

\* A step of a thread's end leaves what the others have alone.
LEMMA EndKeeps ==
  ASSUME StorageInv, TypeOK', NEW t \in Threads, ~undefined, UNCHANGED <<live, created>>,
         thread'[t].pc # "run",
         \A u \in Threads \ {t} : thread'[u] = thread[u] /\ last'[u] = last[u],
         \A u \in Threads \ {t}, x \in Nodes :
           mem'[u][x].state = mem[u][x].state /\ mem'[u][x].value = mem[u][x].value,
         \A k \in Keys : k \notin live => last'[t][k] = NULL,
         \A x \in Nodes : mem'[t][x].state = "used" =>
           mem[t][x].state = "used" \/ \E k \in live : x = Current(k)
  PROVE  StorageInv'
  <1>1. \A k \in live : created'[k] >= 1
    BY DEF StorageInv
  <1>2. ASSUME NEW u \in Threads, NEW k \in Keys, NEW i \in 1 .. MaxCreates, i > created[k]
        PROVE  mem'[u][<<k, i>>].state # "used"
    <2>1. <<k, i>> \in Nodes /\ mem[u][<<k, i>>].state # "used"
      BY <1>2 DEF Nodes, StorageInv
    <2>2. \A j \in live : <<k, i>> # Current(j)
      <3> SUFFICES ASSUME NEW j \in live, <<k, i>> = <<j, created[j]>> PROVE FALSE
        BY DEF Current
      <3>1. i = created[k] /\ i \in Nat
        OBVIOUS
      <3> QED BY <1>2, <3>1
    <2> QED BY <2>1, <2>2
  <1>3. \A u \in Threads, k \in Keys : k \notin live => last'[u][k] = NULL
    BY DEF StorageInv
  <1>4. ASSUME NEW u \in Threads, NEW k \in live, thread'[u].pc = "run"
        PROVE  last'[u][k] = IF mem'[u][Current(k)].state = "used"
                             THEN mem'[u][Current(k)].value ELSE NULL
    <2>1. u # t /\ thread[u].pc = "run" /\ Current(k) \in Nodes
      BY <1>4, CurrentIsNode
    <2> QED BY <2>1 DEF StorageInv, GetReturnsLastSet, HasNode
  <1>5. GetReturnsLastSet'
    BY <1>4 DEF GetReturnsLastSet, HasNode, Current
  <1> QED BY <1>1, <1>2, <1>3, <1>5 DEF StorageInv

LEMMA StorageCreate ==
  ASSUME StorageInv, NEW k \in Keys, NEW d \in BOOLEAN, Create(k, d)
  PROVE  StorageInv'
  <1>1. /\ k \notin live /\ ~undefined /\ created[k] + 1 \in 1 .. MaxCreates
        /\ created[k] \in Nat
    BY TssAssumption DEF Create, StorageInv, TypeOK
  <1>2. /\ live' = live \cup {k} /\ created'[k] = created[k] + 1
        /\ \A j \in Keys : j # k => created'[j] = created[j]
        /\ UNCHANGED <<mem, ends, last, thread, undefined>>
    BY DEF Create, StorageInv, TypeOK
  <1>3. TypeOK'
    <2>1. /\ live' \subseteq Keys /\ dtor' \in [Keys -> BOOLEAN]
          /\ created' \in [Keys -> 0 .. MaxCreates]
      BY <1>1 DEF Create, StorageInv, TypeOK
    <2> QED BY <1>2, <2>1 DEF StorageInv, TypeOK
  <1>4. \A j \in live' : created'[j] >= 1
    BY <1>1, <1>2 DEF StorageInv, TypeOK
  <1>5. ASSUME NEW t \in Threads, NEW j \in Keys, NEW i \in 1 .. MaxCreates, i > created'[j]
        PROVE  mem[t][<<j, i>>].state # "used"
    <2>1. i > created[j]
      BY <1>1, <1>2, <1>5
    <2> QED BY <2>1 DEF StorageInv
  <1>6. \A t \in Threads, j \in Keys : j \notin live' => last'[t][j] = NULL
    BY <1>2 DEF StorageInv
  <1>7. GetReturnsLastSet'
    <2> SUFFICES ASSUME NEW t \in Threads, NEW j \in live', thread[t].pc = "run"
                 PROVE  last[t][j] = IF mem[t][<<j, created'[j]>>].state = "used"
                                     THEN mem[t][<<j, created'[j]>>].value ELSE NULL
      BY <1>2 DEF GetReturnsLastSet, HasNode, Current
    <2>1. CASE j = k
      <3>1. mem[t][<<k, created[k] + 1>>].state # "used"
        BY <1>1 DEF StorageInv
      <3> QED BY <1>1, <1>2, <2>1, <3>1 DEF StorageInv
    <2>2. CASE j # k
      <3>1. j \in live /\ created'[j] = created[j]
        BY <1>2, <2>2 DEF StorageInv, TypeOK
      <3> QED BY <1>1, <3>1 DEF StorageInv, GetReturnsLastSet, HasNode, Current
    <2> QED BY <2>1, <2>2
  <1> QED BY <1>2, <1>3, <1>4, <1>5, <1>6, <1>7 DEF StorageInv

LEMMA StorageSet ==
  ASSUME StorageInv, NEW t \in Threads, NEW k \in Keys, NEW v \in Values \cup {NULL}, Set(t, k, v)
  PROVE  StorageInv'
  <1> DEFINE n == Current(k)
  <1>1. /\ k \in live /\ ~undefined /\ n \in Nodes /\ mem \in Mems
        /\ UNCHANGED <<live, dtor, created, thread>>
        /\ last' = [last EXCEPT ![t][k] = v]
    BY CurrentIsNode DEF Set, Runs, Mems, NodeRecs, StorageInv, TypeOK
  <1>2. /\ mem' \in Mems /\ ends' \in [Threads -> [head : Pointers, tail : Pointers]]
        /\ undefined' \in BOOLEAN
        /\ mem'[t][n].state = "used" /\ mem'[t][n].value = v
        /\ \A u \in Threads, x \in Nodes : u # t \/ x # n =>
             mem'[u][x].state = mem[u][x].state /\ mem'[u][x].value = mem[u][x].value
    BY <1>1, StoreEffect DEF Set
  <1>3. /\ last' \in [Threads -> [Keys -> Values \cup {NULL}]] /\ last'[t][k] = v
        /\ \A u \in Threads, j \in Keys : u # t \/ j # k => last'[u][j] = last[u][j]
    BY <1>1 DEF StorageInv, TypeOK
  <1>4. TypeOK'
    BY <1>1, <1>2, <1>3 DEF StorageInv, TypeOK, Mems, NodeRecs
  <1>5. ASSUME NEW u \in Threads, NEW j \in Keys, NEW i \in 1 .. MaxCreates, i > created[j]
        PROVE  mem'[u][<<j, i>>].state # "used"
    <2>1. <<j, i>> \in Nodes /\ mem[u][<<j, i>>].state # "used"
      BY <1>5 DEF Nodes, StorageInv
    <2>2. <<j, i>> # n
      <3> SUFFICES ASSUME <<j, i>> = <<k, created[k]>> PROVE FALSE
        BY DEF Current
      <3>1. i = created[j] /\ i \in Nat
        OBVIOUS
      <3> QED BY <1>5, <3>1
    <2> QED BY <1>2, <2>1, <2>2
  <1>6. GetReturnsLastSet'
    <2> SUFFICES ASSUME NEW u \in Threads, NEW j \in live, thread[u].pc = "run"
                 PROVE  last'[u][j] = IF mem'[u][Current(j)].state = "used"
                                      THEN mem'[u][Current(j)].value ELSE NULL
      BY <1>1 DEF GetReturnsLastSet, HasNode, Current
    <2>1. CASE u = t /\ j = k
      BY <1>2, <1>3, <2>1
    <2>2. CASE ~(u = t /\ j = k)
      <3>1. Current(j) \in Nodes /\ j \in Keys /\ (j # k => Current(j) # n)
        BY CurrentIsNode DEF Current
      <3>2. last[u][j] = IF mem[u][Current(j)].state = "used"
                         THEN mem[u][Current(j)].value ELSE NULL
        BY <1>1 DEF StorageInv, GetReturnsLastSet, HasNode
      <3> QED BY <1>2, <1>3, <2>2, <3>1, <3>2
    <2> QED BY <2>1, <2>2
  <1> QED BY <1>1, <1>3, <1>4, <1>5, <1>6 DEF StorageInv

LEMMA StorageSetFails ==
  ASSUME StorageInv, NEW t \in Threads, NEW k \in Keys, SetFails(t, k)
  PROVE  StorageInv'
  <1>1. /\ mem \in Mems /\ DANGLING \in Pointers /\ Linked(t, mem, DANGLING)
        /\ UNCHANGED <<live, dtor, created, last, thread>> /\ ~undefined
    BY DEF SetFails, StoreFails, Runs, Mems, NodeRecs, Pointers, StorageInv, TypeOK
  <1>2. /\ mem' \in Mems /\ ends' \in [Threads -> [head : Pointers, tail : Pointers]]
        /\ undefined' \in BOOLEAN
        /\ \A u \in Threads, x \in Nodes :
             mem'[u][x].state = mem[u][x].state /\ mem'[u][x].value = mem[u][x].value
    BY <1>1, LinkedEffect DEF StorageInv
  <1>3. TypeOK'
    BY <1>1, <1>2 DEF StorageInv, TypeOK, Mems, NodeRecs
  <1>4. \A u \in Threads, j \in Keys, i \in 1 .. MaxCreates : <<j, i>> \in Nodes
    BY DEF Nodes
  <1>5. GetReturnsLastSet'
    <2>1. \A j \in live : Current(j) \in Nodes
      BY CurrentIsNode
    <2> QED BY <1>1, <1>2, <2>1 DEF StorageInv, GetReturnsLastSet, HasNode, Current
  <1> QED BY <1>1, <1>2, <1>3, <1>4, <1>5 DEF StorageInv

LEMMA StorageDelete ==
  ASSUME StorageInv, NEW t \in Threads, NEW k \in Keys, Delete(t, k)
  PROVE  StorageInv'
  <1> DEFINE n == Current(k)
  <1>1. /\ k \in live /\ ~undefined /\ n \in Nodes /\ TypeOK
        /\ live' = live \ {k} /\ dtor' = [dtor EXCEPT ![k] = FALSE]
        /\ last' = [u \in Threads |-> [last[u] EXCEPT ![k] = NULL]]
        /\ UNCHANGED <<created, thread>>
    BY CurrentIsNode DEF Delete, Runs, StorageInv
  <1>2. /\ mem' \in Mems /\ ends' \in [Threads -> [head : Pointers, tail : Pointers]]
        /\ undefined' \in BOOLEAN
        /\ \A u \in Threads, x \in Nodes : u # t \/ x # n => mem'[u][x] = mem[u][x]
        /\ mem'[t][n].state # "used"
    <2>1. mem \in Mems /\ ends \in [Threads -> [head : Pointers, tail : Pointers]]
      BY <1>1 DEF Mems, NodeRecs, TypeOK
    <2>2. CASE HasNode(t, k)
      <3>1. /\ mem' = [mem EXCEPT ![t][n].state = "freed"]
            /\ ends' = [ends EXCEPT
                 ![t].head = IF @ = n THEN mem[t][n].next ELSE @,
                 ![t].tail = IF @ = n THEN Before(t, n) ELSE @]
            /\ undefined' = (ends[t].head # NULL /\ ~InList(t, n))
        BY <2>2 DEF Delete
      <3>2. mem[t][n].next \in Pointers /\ Before(t, n) \in Pointers
        BY <1>1, BeforeIsPointer DEF TypeOK
      <3>3. ends' \in [Threads -> [head : Pointers, tail : Pointers]]
        <4>1. PICK p \in Pointers, q \in Pointers :
                ends' = [ends EXCEPT ![t].head = p, ![t].tail = q]
          <5>1. ends[t].head \in Pointers /\ ends[t].tail \in Pointers
            BY <1>1 DEF TypeOK
          <5> DEFINE hd == IF ends[t].head = n THEN mem[t][n].next ELSE ends[t].head
                     tl == IF ends[t].tail = n THEN Before(t, n) ELSE ends[t].tail
          <5>2. hd \in Pointers /\ tl \in Pointers
            BY <3>2, <5>1
          <5>3. ends' = [ends EXCEPT ![t].head = hd, ![t].tail = tl]
            BY <1>1, <2>1, <3>1
          <5> HIDE DEF hd, tl
          <5> QED BY <5>2, <5>3
        <4> HIDE DEF Pointers
        <4> QED BY <2>1, <4>1
      <3>4. /\ mem' \in Mems /\ mem'[t][n].state = "freed"
            /\ \A u \in Threads, x \in Nodes : u # t \/ x # n => mem'[u][x] = mem[u][x]
        <4> DEFINE r == [mem[t][n] EXCEPT !.state = "freed"]
        <4>1. mem[t][n] \in NodeRecs
          BY <1>1, <2>1 DEF Mems
        <4>2. r \in NodeRecs /\ r.state = "freed"
          BY <4>1 DEF NodeRecs
        <4>3. mem' = [mem EXCEPT ![t][n] = r]
          BY <3>1
        <4> HIDE DEF n, r
        <4> QED BY <1>1, <2>1, <4>2, <4>3 DEF Mems
      <3> QED BY <3>1, <3>3, <3>4
    <2>3. CASE ~HasNode(t, k)
      BY <1>1, <2>1, <2>3 DEF Delete, HasNode, TypeOK
    <2> QED BY <2>2, <2>3
  <1>3. /\ last' \in [Threads -> [Keys -> Values \cup {NULL}]]
        /\ \A u \in Threads : last'[u][k] = NULL
        /\ \A u \in Threads, j \in Keys : j # k => last'[u][j] = last[u][j]
    BY <1>1 DEF TypeOK
  <1>4. TypeOK'
    BY <1>1, <1>2, <1>3 DEF TypeOK, Mems, NodeRecs
  <1>5. ASSUME NEW u \in Threads, NEW j \in Keys, NEW i \in 1 .. MaxCreates, i > created[j]
        PROVE  mem'[u][<<j, i>>].state # "used"
    <2>1. <<j, i>> \in Nodes /\ mem[u][<<j, i>>].state # "used"
      BY <1>5 DEF Nodes, StorageInv
    <2> HIDE DEF n
    <2> QED BY <1>2, <2>1
  <1>6. GetReturnsLastSet'
    <2> SUFFICES ASSUME NEW u \in Threads, NEW j \in live \ {k}, thread[u].pc = "run"
                 PROVE  last[u][j] = IF mem'[u][Current(j)].state = "used"
                                     THEN mem'[u][Current(j)].value ELSE NULL
      BY <1>1, <1>3, CurrentIsNode DEF GetReturnsLastSet, HasNode, Current
    <2>1. last[u][j] = IF mem[u][Current(j)].state = "used"
                       THEN mem[u][Current(j)].value ELSE NULL
      BY <1>1 DEF StorageInv, GetReturnsLastSet, HasNode
    <2>2. Current(j) \in Nodes /\ Current(j) # n
      BY CurrentIsNode DEF Current
    <2> QED BY <1>2, <2>1, <2>2
  <1>7. \A u \in Threads, j \in Keys : j \notin live' => last'[u][j] = NULL
    BY <1>1, <1>3 DEF StorageInv
  <1> QED BY <1>1, <1>4, <1>5, <1>6, <1>7 DEF StorageInv

\* The steps of a thread's end.
LEMMA StorageExit ==
  ASSUME StorageInv, NEW t \in Threads, Exit(t)
  PROVE  StorageInv'
  <1>1. ~undefined /\ UNCHANGED <<live, dtor, created, mem, ends, last, undefined>>
    BY DEF Exit, Runs
  <1>2. thread'[t].pc # "run" /\ TypeOK' /\ \A u \in Threads \ {t} : thread'[u] = thread[u]
    <2>1. 1 \in 0 .. Iterations /\ 0 \in 0 .. Iterations /\ ends[t].head \in Pointers
      BY TssAssumption DEF StorageInv, TypeOK
    <2>2. PICK r \in [pc : {"clean", "ended"}, node : Pointers, round : 0 .. Iterations,
                      again : BOOLEAN] :
            thread' = [thread EXCEPT ![t] = r]
      <3> HIDE DEF Pointers
      <3>1. NULL \in Pointers
        BY DEF Pointers
      <3>2. CASE ends[t].head = NULL
        <4> DEFINE over == [Running EXCEPT !.pc = "ended"]
        <4>1. over \in [pc : {"clean", "ended"}, node : Pointers, round : 0 .. Iterations,
                        again : BOOLEAN]
          BY <2>1, <3>1 DEF Running
        <4>2. thread' = [thread EXCEPT ![t] = over]
          BY <3>2 DEF Exit
        <4> HIDE DEF over
        <4> QED BY <4>1, <4>2
      <3>3. CASE ends[t].head # NULL
        <4>1. thread' = [thread EXCEPT ![t] = Round(t, 1)]
          BY <3>3 DEF Exit
        <4> QED BY <2>1, <4>1 DEF Round
      <3> QED BY <3>2, <3>3
    <2> HIDE DEF Pointers
    <2>3. r.pc # "run" /\ r \in [pc : {"run", "clean", "dtor", "ended"}, node : Pointers,
                                 round : 0 .. Iterations, again : BOOLEAN]
      OBVIOUS
    <2>4. /\ thread'[t] = r /\ \A u \in Threads \ {t} : thread'[u] = thread[u]
          /\ thread' \in [Threads -> [pc : {"run", "clean", "dtor", "ended"}, node : Pointers,
                                      round : 0 .. Iterations, again : BOOLEAN]]
      BY <2>2, <2>3 DEF StorageInv, TypeOK
    <2> QED BY <1>1, <2>3, <2>4 DEF StorageInv, TypeOK
  <1> QED BY <1>1, <1>2, EndKeeps DEF StorageInv

\* The cleanup of thread t is at p and the node q.
Moves(t, p, q, b) ==
  thread' = [thread EXCEPT ![t].pc = p, ![t].node = q, ![t].again = b]

\* What a thread does next is a record of that type.
LEMMA NextThread ==
  ASSUME StorageInv, NEW t \in Threads, NEW p \in {"run", "clean", "dtor", "ended"},
         NEW q \in Pointers, NEW b \in BOOLEAN, Moves(t, p, q, b)
  PROVE  /\ thread' \in [Threads -> [pc : {"run", "clean", "dtor", "ended"}, node : Pointers,
                                      round : 0 .. Iterations, again : BOOLEAN]]
         /\ thread'[t].pc = p /\ thread'[t].node = q /\ thread'[t].again = b
         /\ thread'[t].round = thread[t].round
         /\ \A u \in Threads \ {t} : thread'[u] = thread[u]
  <1> DEFINE Recs == [pc : {"run", "clean", "dtor", "ended"}, node : Pointers,
                      round : 0 .. Iterations, again : BOOLEAN]
             r == [thread[t] EXCEPT !.pc = p, !.node = q, !.again = b]
  <1>1. thread \in [Threads -> Recs]
    BY DEF StorageInv, TypeOK
  <1> HIDE DEF Pointers
  <1>2. /\ r \in Recs /\ r.pc = p /\ r.node = q /\ r.again = b
        /\ r.round = thread[t].round
    BY <1>1
  <1>3. thread' = [thread EXCEPT ![t] = r]
    BY <1>1 DEF Moves
  <1> HIDE DEF r, Recs
  <1>4. /\ thread' \in [Threads -> Recs] /\ thread'[t] = r
        /\ \A u \in Threads \ {t} : thread'[u] = thread[u]
    BY <1>1, <1>2, <1>3
  <1> QED BY <1>2, <1>4 DEF Recs

\* The call of a destructor: where the thread is, and the value it takes.
LEMMA CleanValueEffect ==
  ASSUME StorageInv, NEW t \in Threads, NEW n \in Nodes, n = thread[t].node, CleanValue(t)
  PROVE  /\ ~undefined /\ thread[t].pc = "clean" /\ dtor[KeyOf(n)] /\ KeyOf(n) \in Keys
         /\ UNCHANGED <<live, dtor, created, ends, undefined>>
         /\ mem' = [mem EXCEPT ![t][n].value = NULL]
         /\ last' \in [Threads -> [Keys -> Values \cup {NULL}]]
         /\ \A u \in Threads \ {t} : last'[u] = last[u]
         /\ \A k \in Keys :
              last'[t][k] = IF n = Current(k) THEN NULL ELSE last[t][k]
         /\ thread' \in [Threads -> [pc : {"run", "clean", "dtor", "ended"}, node : Pointers,
                                      round : 0 .. Iterations, again : BOOLEAN]]
         /\ thread'[t].pc = "dtor" /\ thread'[t].node = n /\ thread'[t].again = TRUE
         /\ \A u \in Threads \ {t} : thread'[u] = thread[u]
  <1>1. /\ ~undefined /\ thread[t].pc = "clean" /\ dtor[KeyOf(n)] /\ KeyOf(n) \in Keys
        /\ UNCHANGED <<live, dtor, created, ends, undefined>>
        /\ mem' = [mem EXCEPT ![t][n].value = NULL]
        /\ last' = IF n = Current(KeyOf(n)) THEN [last EXCEPT ![t][KeyOf(n)] = NULL] ELSE last
        /\ thread' = [thread EXCEPT ![t].pc = "dtor", ![t].again = TRUE]
    BY DEF CleanValue, AtNode, Cleans, Destroys, Nodes, KeyOf
  <1>2. \A k \in Keys : n = Current(k) => k = KeyOf(n)
    BY DEF Current, KeyOf
  <1>3. last \in [Threads -> [Keys -> Values \cup {NULL}]] /\ NULL \in Values \cup {NULL}
    BY DEF StorageInv, TypeOK
  <1>4. /\ last' \in [Threads -> [Keys -> Values \cup {NULL}]]
        /\ \A u \in Threads \ {t} : last'[u] = last[u]
        /\ \A k \in Keys : last'[t][k] = IF n = Current(k) THEN NULL ELSE last[t][k]
    <2>1. CASE n = Current(KeyOf(n))
      <3>1. last' = [last EXCEPT ![t][KeyOf(n)] = NULL]
        BY <1>1, <2>1
      <3>2. \A k \in Keys : k # KeyOf(n) => n # Current(k)
        BY <1>2
      <3> HIDE DEF Current, KeyOf
      <3> QED BY <1>1, <1>3, <2>1, <3>1, <3>2
    <2>2. CASE n # Current(KeyOf(n))
      <3>1. last' = last /\ \A k \in Keys : n # Current(k)
        BY <1>1, <1>2, <2>2
      <3> QED BY <1>3, <3>1
    <2> QED BY <2>1, <2>2
  <1>5. /\ thread' \in [Threads -> [pc : {"run", "clean", "dtor", "ended"}, node : Pointers,
                                     round : 0 .. Iterations, again : BOOLEAN]]
        /\ thread'[t].pc = "dtor" /\ thread'[t].node = n /\ thread'[t].again = TRUE
        /\ \A u \in Threads \ {t} : thread'[u] = thread[u]
    <2>1. thread' = [thread EXCEPT ![t].pc = "dtor", ![t].node = n, ![t].again = TRUE]
      <3> DEFINE r == [thread[t] EXCEPT !.pc = "dtor", !.again = TRUE]
                 q == [thread[t] EXCEPT !.pc = "dtor", !.node = n, !.again = TRUE]
      <3>1. thread[t] \in [pc : {"run", "clean", "dtor", "ended"}, node : Pointers,
                           round : 0 .. Iterations, again : BOOLEAN]
        BY DEF StorageInv, TypeOK
      <3> HIDE DEF Pointers
      <3>2. r = q
        BY <3>1
      <3>3. thread' = [thread EXCEPT ![t] = r]
        BY <1>1
      <3> HIDE DEF r
      <3>4. thread' = [thread EXCEPT ![t] = q]
        BY <3>2, <3>3
      <3> QED BY <3>4
    <2>2. n \in Pointers
      BY DEF Pointers
    <2> QED BY <2>1, <2>2, NextThread DEF Moves
  <1> QED BY <1>1, <1>4, <1>5

LEMMA StorageCleanValue ==
  ASSUME StorageInv, NEW t \in Threads, CleanValue(t)
  PROVE  StorageInv'
  <1>1. PICK n \in Nodes : n = thread[t].node
    BY DEF CleanValue, AtNode, Readable, Freed, StorageInv, TypeOK, Pointers
  <1>2. /\ ~undefined /\ UNCHANGED <<live, dtor, created, ends, undefined>>
        /\ mem' = [mem EXCEPT ![t][n].value = NULL]
        /\ last' \in [Threads -> [Keys -> Values \cup {NULL}]]
        /\ \A u \in Threads \ {t} : last'[u] = last[u]
        /\ \A k \in Keys : last'[t][k] = IF n = Current(k) THEN NULL ELSE last[t][k]
        /\ thread' \in [Threads -> [pc : {"run", "clean", "dtor", "ended"}, node : Pointers,
                                     round : 0 .. Iterations, again : BOOLEAN]]
        /\ thread'[t].pc = "dtor" /\ \A u \in Threads \ {t} : thread'[u] = thread[u]
    BY <1>1, CleanValueEffect
  <1>3. /\ mem' \in Mems /\ \A x \in Nodes : mem'[t][x].state = mem[t][x].state
        /\ \A u \in Threads \ {t} : mem'[u] = mem[u]
    <2> DEFINE r == [mem[t][n] EXCEPT !.value = NULL]
    <2>1. mem \in Mems /\ mem[t][n] \in NodeRecs
      BY DEF StorageInv, TypeOK, Mems, NodeRecs
    <2>2. r \in NodeRecs /\ r.state = mem[t][n].state
      BY <2>1 DEF NodeRecs
    <2>3. mem' = [mem EXCEPT ![t][n] = r]
      BY <1>2
    <2> HIDE DEF r
    <2> QED BY <2>1, <2>2, <2>3 DEF Mems
  <1>4. \A k \in Keys : k \notin live => last'[t][k] = NULL
    BY <1>2 DEF StorageInv
  <1>5. TypeOK'
    BY <1>2, <1>3 DEF StorageInv, TypeOK, Mems, NodeRecs
  <1> QED BY <1>2, <1>3, <1>4, <1>5, EndKeeps

\* The return of a destructor.
LEMMA CleanNextEffect ==
  ASSUME StorageInv, NEW t \in Threads, CleanNext(t)
  PROVE  /\ ~undefined /\ thread[t].pc = "dtor"
         /\ UNCHANGED <<live, dtor, created, mem, ends, last, undefined>>
         /\ thread' \in [Threads -> [pc : {"run", "clean", "dtor", "ended"}, node : Pointers,
                                      round : 0 .. Iterations, again : BOOLEAN]]
         /\ thread'[t].pc = "clean" /\ thread'[t].again = thread[t].again
         /\ \A u \in Threads \ {t} : thread'[u] = thread[u]
  <1>1. PICK n \in Nodes : n = thread[t].node
    BY DEF CleanNext, Readable, Freed, StorageInv, TypeOK, Pointers
  <1>2. /\ ~undefined /\ thread[t].pc = "dtor"
        /\ UNCHANGED <<live, dtor, created, mem, ends, last, undefined>>
        /\ thread' = [thread EXCEPT ![t].pc = "clean", ![t].node = mem[t][n].next]
    BY <1>1 DEF CleanNext
  <1> DEFINE Recs == [pc : {"run", "clean", "dtor", "ended"}, node : Pointers,
                      round : 0 .. Iterations, again : BOOLEAN]
             x == mem[t][n].next
             r == [thread[t] EXCEPT !.pc = "clean", !.node = x]
  <1>3. thread \in [Threads -> Recs] /\ x \in Pointers
    BY DEF StorageInv, TypeOK
  <1> HIDE DEF Pointers, x
  <1>4. r \in Recs /\ r.pc = "clean" /\ r.again = thread[t].again
    BY <1>3
  <1>5. thread' = [thread EXCEPT ![t] = r]
    BY <1>2 DEF x
  <1> HIDE DEF r, Recs
  <1>6. /\ thread' \in [Threads -> Recs] /\ thread'[t] = r
        /\ \A u \in Threads \ {t} : thread'[u] = thread[u]
    BY <1>3, <1>4, <1>5
  <1> QED BY <1>2, <1>4, <1>6 DEF Recs

LEMMA StorageCleanNext ==
  ASSUME StorageInv, NEW t \in Threads, CleanNext(t)
  PROVE  StorageInv'
  <1>1. /\ ~undefined /\ UNCHANGED <<live, dtor, created, mem, ends, last, undefined>>
        /\ thread' \in [Threads -> [pc : {"run", "clean", "dtor", "ended"}, node : Pointers,
                                     round : 0 .. Iterations, again : BOOLEAN]]
        /\ thread'[t].pc = "clean" /\ \A u \in Threads \ {t} : thread'[u] = thread[u]
    BY CleanNextEffect
  <1>2. TypeOK'
    BY <1>1 DEF StorageInv, TypeOK
  <1> QED BY <1>1, <1>2, EndKeeps DEF StorageInv

LEMMA StorageCleanOther ==
  ASSUME StorageInv, NEW t \in Threads, CleanOther(t)
  PROVE  StorageInv'
  <1> DEFINE Recs == [pc : {"run", "clean", "dtor", "ended"}, node : Pointers,
                      round : 0 .. Iterations, again : BOOLEAN]
  <1>1. PICK n \in Nodes : n = thread[t].node
    BY DEF CleanOther, AtNode, Readable, Freed, StorageInv, TypeOK, Pointers
  <1>2. /\ ~undefined /\ thread[t].pc = "clean" /\ mem \in Mems /\ thread \in [Threads -> Recs]
        /\ UNCHANGED <<live, dtor, created, ends, last, undefined>>
        /\ mem' = [mem EXCEPT ![t][n].value = NULL]
        /\ thread' = [thread EXCEPT ![t].node = mem[t][n].next]
    BY <1>1 DEF CleanOther, AtNode, Cleans, StorageInv, TypeOK, Mems, NodeRecs
  <1>3. mem[t][n] \in NodeRecs /\ mem[t][n].next \in Pointers
    BY <1>2 DEF Mems, NodeRecs
  <1>4. /\ mem' \in Mems /\ \A x \in Nodes : mem'[t][x].state = mem[t][x].state
        /\ \A u \in Threads \ {t} : mem'[u] = mem[u]
    <2> DEFINE r == [mem[t][n] EXCEPT !.value = NULL]
    <2>1. r \in NodeRecs /\ r.state = mem[t][n].state
      BY <1>3 DEF NodeRecs
    <2>2. mem' = [mem EXCEPT ![t][n] = r]
      BY <1>2
    <2> HIDE DEF r
    <2>3. /\ mem' \in Mems /\ mem'[t][n] = r
          /\ \A x \in Nodes : x # n => mem'[t][x] = mem[t][x]
          /\ \A u \in Threads \ {t} : mem'[u] = mem[u]
      <3>1. mem \in Mems
        BY <1>2
      <3> QED BY <2>1, <2>2, <3>1 DEF Mems
    <2> QED BY <2>1, <2>3
  <1>5. /\ thread' \in [Threads -> Recs] /\ thread'[t].pc = "clean"
        /\ \A u \in Threads \ {t} : thread'[u] = thread[u]
    <2> HIDE DEF Pointers
    <2> QED BY <1>2, <1>3
  <1>6. TypeOK'
    BY <1>2, <1>4, <1>5 DEF StorageInv, TypeOK, Mems, NodeRecs
  <1> QED BY <1>2, <1>4, <1>5, <1>6, EndKeeps DEF StorageInv

LEMMA StorageCleanRound ==
  ASSUME StorageInv, NEW t \in Threads, CleanRound(t)
  PROVE  StorageInv'
  <1>1. /\ ~undefined /\ thread[t].pc = "clean" /\ thread[t].round < Iterations
        /\ UNCHANGED <<live, dtor, created, mem, ends, last, undefined>>
        /\ thread' = [thread EXCEPT ![t] = Round(t, thread[t].round + 1)]
    BY DEF CleanRound, Cleans
  <1>2. Round(t, thread[t].round + 1) \in
          [pc : {"run", "clean", "dtor", "ended"}, node : Pointers, round : 0 .. Iterations,
           again : BOOLEAN]
    <2>1. thread[t].round + 1 \in 0 .. Iterations /\ ends[t].head \in Pointers
      BY <1>1, TssAssumption DEF StorageInv, TypeOK
    <2> QED BY <2>1 DEF Round
  <1>3. TypeOK' /\ thread'[t] = Round(t, thread[t].round + 1)
        /\ \A u \in Threads \ {t} : thread'[u] = thread[u]
    BY <1>1, <1>2 DEF StorageInv, TypeOK
  <1>4. thread'[t].pc # "run"
    BY <1>3 DEF Round
  <1> QED BY <1>1, <1>3, <1>4, EndKeeps DEF StorageInv

LEMMA StorageCleanFree ==
  ASSUME StorageInv, NEW t \in Threads, CleanFree(t)
  PROVE  StorageInv'
  <1> DEFINE Recs == [pc : {"run", "clean", "dtor", "ended"}, node : Pointers,
                      round : 0 .. Iterations, again : BOOLEAN]
             row == [n \in Nodes |-> IF InList(t, n) THEN [mem[t][n] EXCEPT !.state = "freed"]
                                                     ELSE mem[t][n]]
  <1>1. /\ ~undefined /\ thread[t].pc = "clean" /\ mem \in Mems /\ thread \in [Threads -> Recs]
        /\ UNCHANGED <<live, dtor, created, last, undefined>>
        /\ mem' = [mem EXCEPT ![t] = row]
        /\ ends' = [ends EXCEPT ![t] = [head |-> NULL, tail |-> NULL]]
        /\ thread' = [thread EXCEPT ![t].pc = "ended"]
    BY DEF CleanFree, Cleans, StorageInv, TypeOK, Mems, NodeRecs
  <1>2. /\ row \in [Nodes -> NodeRecs]
        /\ \A n \in Nodes : row[n].state = "used" => mem[t][n].state = "used" /\ ~InList(t, n)
    <2>1. ASSUME NEW n \in Nodes
          PROVE  row[n] \in NodeRecs
                 /\ (row[n].state = "used" => mem[t][n].state = "used" /\ ~InList(t, n))
      <3>1. mem[t][n] \in NodeRecs
        BY <1>1 DEF Mems
      <3>2. CASE InList(t, n)
        BY <3>1, <3>2 DEF NodeRecs
      <3>3. CASE ~InList(t, n)
        BY <3>1, <3>3
      <3> QED BY <3>2, <3>3
    <2>2. row = [n \in Nodes |-> row[n]]
      OBVIOUS
    <2> HIDE DEF row
    <2> QED BY <2>1, <2>2
  <1> HIDE DEF row
  <1>3. mem' \in Mems /\ mem'[t] = row /\ \A u \in Threads \ {t} : mem'[u] = mem[u]
    BY <1>1, <1>2 DEF Mems
  <1>4. /\ thread' \in [Threads -> Recs] /\ thread'[t].pc = "ended"
        /\ \A u \in Threads \ {t} : thread'[u] = thread[u]
    <2> HIDE DEF Pointers
    <2> QED BY <1>1
  <1>5. TypeOK'
    <2>1. ends' \in [Threads -> [head : Pointers, tail : Pointers]]
      BY <1>1 DEF StorageInv, TypeOK, Pointers
    <2> QED BY <1>1, <1>3, <1>4, <2>1 DEF StorageInv, TypeOK, Mems, NodeRecs
  <1> QED BY <1>1, <1>2, <1>3, <1>4, <1>5, EndKeeps DEF StorageInv

LEMMA StorageSame ==
  ASSUME StorageInv, UNCHANGED vars
  PROVE  StorageInv'
  BY DEF StorageInv, TypeOK, GetReturnsLastSet, HasNode, Current, vars

LEMMA StorageCleanMisstep ==
  ASSUME StorageInv, NEW t \in Threads, CleanMisstep(t)
  PROVE  StorageInv'
  BY DEF CleanMisstep, StorageInv, TypeOK, GetReturnsLastSet

LEMMA StorageNext == StorageInv /\ [Next]_vars => StorageInv'
  <1> SUFFICES ASSUME StorageInv, [Next]_vars PROVE StorageInv'
    OBVIOUS
  <1>1. CASE \E k \in Keys, d \in BOOLEAN : Create(k, d)
    BY <1>1, StorageCreate
  <1>2. CASE \E t \in Threads, k \in Keys, v \in Values \cup {NULL} : Set(t, k, v)
    BY <1>2, StorageSet
  <1>3. CASE \E t \in Threads, k \in Keys : SetFails(t, k) \/ Delete(t, k)
    BY <1>3, StorageSetFails, StorageDelete
  <1>4. CASE \E t \in Threads : Exit(t)
    BY <1>4, StorageExit
  <1>5. CASE \E t \in Threads : Cleanup(t)
    BY <1>5, StorageCleanValue, StorageCleanNext, StorageCleanOther, StorageCleanRound,
       StorageCleanFree, StorageCleanMisstep
    DEF Cleanup
  <1>6. CASE UNCHANGED vars
    BY <1>6, StorageSame
  <1> QED BY <1>1, <1>2, <1>3, <1>4, <1>5, <1>6 DEF Next

\* Threads use their storage as TtTss has it.
LEMMA ThrdStepsStorage == [ThrdNext]_allVars => [Next]_vars
  <1> SUFFICES ASSUME [ThrdNext]_allVars PROVE [Next]_vars
    OBVIOUS
  <1>1. CASE Storage
    BY <1>1, Zenon DEF Storage, Next
  <1>2. CASE \E c \in Threads, res \in Results : ThrdExit(c, res)
    BY <1>2 DEF ThrdExit, Next
  <1>3. CASE UNCHANGED vars
    BY <1>3
  <1>4. CASE UNCHANGED allVars
    BY <1>4 DEF allVars
  <1>5. ASSUME NEW c \in Threads,
               \/ Spawn(c) \/ CreateReturn(c) \/ SpawnFails(c) \/ ReadInfo(c) \/ FreeInfo(c)
               \/ JoinReturn(c) \/ JoinFails(c)
               \/ \E t \in Threads : ThrdCreate(c, t) \/ ThrdJoin(c, t) \/ ThrdDetach(c, t)
        PROVE  UNCHANGED vars
    BY <1>5 DEF Spawn, CreateReturn, SpawnFails, ReadInfo, FreeInfo, JoinReturn, JoinFails,
                ThrdCreate, ThrdJoin, ThrdDetach
  <1> QED BY <1>1, <1>2, <1>3, <1>4, <1>5 DEF ThrdNext

THEOREM ThrdStorageInvariant == ThrdSpec => []StorageInv
  <1>1. ThrdInit => Init
    BY DEF ThrdInit
  <1> QED BY <1>1, StorageInit, StorageNext, ThrdStepsStorage, PTL DEF ThrdSpec

\* tss_get returns what the thread last set for the key since it was
\* created, or NULL, whatever keys are deleted and created anew, and whatever
\* other threads do or leave behind when they end: tss_set and tss_delete of
\* tinycthread.c.
THEOREM ThrdGetReturnsLastSet == ThrdSpec => []GetReturnsLastSet
  <1>1. StorageInv => GetReturnsLastSet
    BY DEF StorageInv
  <1> QED BY <1>1, ThrdStorageInvariant, PTL

\* A result that thrd_join has returned is the result of a thread that has
\* ended, and stays it.
Joined == \A t \in Threads : joined[t] # NULL => joined[t] = code[t] /\ thread[t].pc = "ended"

LEMMA EndedStays ==
  ASSUME StorageInv, [Next]_vars, NEW t \in Threads, thread[t].pc = "ended"
  PROVE  thread'[t].pc = "ended"
  <1>1. CASE \E k \in Keys, d \in BOOLEAN : Create(k, d)
    BY <1>1 DEF Create
  <1>2. CASE \E u \in Threads, k \in Keys, v \in Values \cup {NULL} : Set(u, k, v)
    BY <1>2 DEF Set
  <1>3. CASE \E u \in Threads, k \in Keys : SetFails(u, k) \/ Delete(u, k)
    BY <1>3 DEF SetFails, Delete
  <1>4. CASE \E u \in Threads : Exit(u)
    BY <1>4 DEF Exit, Runs, StorageInv, TypeOK
  <1>5. ASSUME NEW u \in Threads, Cleanup(u) PROVE thread'[t].pc = "ended"
    <2>1. u # t \/ UNCHANGED thread
      BY <1>5 DEF Cleanup, CleanValue, CleanNext, CleanOther, CleanRound, CleanFree,
                  CleanMisstep, Cleans, AtNode
    <2>2. u # t => thread'[t] = thread[t]
      BY <1>5 DEF Cleanup, CleanValue, CleanNext, CleanOther, CleanRound, CleanFree,
                  CleanMisstep, StorageInv, TypeOK
    <2> QED BY <2>1, <2>2
  <1>6. CASE UNCHANGED vars
    BY <1>6 DEF vars
  <1> QED BY <1>1, <1>2, <1>3, <1>4, <1>5, <1>6 DEF Next

\* tinycthread.h:360, thrd_join "blocks until the other thread has
\* terminated": what it returns is the result of a thread whose cleanup is
\* over, whatever fails in between.
THEOREM ThrdJoinReturnsResult == ThrdSpec => []Joined
  <1>1. ThrdInit => Joined
    BY DEF ThrdInit, Joined
  <1>2. ASSUME IInv, StorageInv, Joined, [ThrdNext]_allVars PROVE Joined'
    <2>1. \A t \in Threads : thread[t].pc = "ended" => thread'[t].pc = "ended"
      BY <1>2, ThrdStepsStorage, EndedStays
    <2>2. ASSUME NEW c \in Threads, JoinReturn(c) PROVE Joined'
      <3>1. call[c].thr \in Threads /\ thread[call[c].thr].pc = "ended"
        BY <1>2, <2>2 DEF JoinReturn, Calls, IInv, CallsName
      <3> QED BY <1>2, <2>1, <2>2, <3>1 DEF JoinReturn, Joined, IInv, InfoHasOwner, ThrdTypeOK
    <2>3. ASSUME NEW c \in Threads, NEW res \in Results, ThrdExit(c, res) PROVE Joined'
      <3>1. joined[c] = NULL
        BY <1>2, <2>3 DEF Joined, ThrdExit, InFunction
      <3> QED BY <1>2, <2>1, <2>3, <3>1 DEF ThrdExit, Joined, IInv, InfoHasOwner, ThrdTypeOK
    <2>4. CASE UNCHANGED <<code, joined>>
      BY <1>2, <2>1, <2>4 DEF Joined
    <2>5. ASSUME NEW c \in Threads,
                 \/ Spawn(c) \/ CreateReturn(c) \/ SpawnFails(c)
                 \/ ReadInfo(c) \/ FreeInfo(c) \/ JoinFails(c)
                 \/ \E t \in Threads : ThrdCreate(c, t) \/ ThrdJoin(c, t) \/ ThrdDetach(c, t)
          PROVE  UNCHANGED <<code, joined>>
      BY <2>5 DEF Spawn, CreateReturn, SpawnFails, ReadInfo, FreeInfo, JoinFails,
                  ThrdCreate, ThrdJoin, ThrdDetach
    <2>6. CASE Storage \/ UNCHANGED allVars
      BY <2>4, <2>6 DEF Storage, thrdVars, allVars
    <2> QED BY <1>2, <2>2, <2>3, <2>4, <2>5, <2>6 DEF ThrdNext
  <1>3. ThrdSpec => []IInv
    BY InitIInv, StepIInv, PTL DEF ThrdSpec
  <1> QED BY <1>1, <1>2, <1>3, ThrdStorageInvariant, PTL DEF ThrdSpec

------------------------------------------------------------------------------
(* What a thread leaves behind when it ends.                                *)

Used(t, n) == mem[t][n].state = "used"

\* p points to a node that was freed.
Dead(t, p) == p = DANGLING \/ (p \in Nodes /\ mem[t][p].state = "freed")

\* The cleanup comes to a node that was freed at the first or second step.
Broken(t) ==
  LET h == ends[t].head
  IN Dead(t, h) \/ (h \in Nodes /\ Dead(t, mem[t][h].next))

\* The list of a thread that has made at most two nodes: the cleanup finds
\* those that are used, unless it comes to one that was freed.  As long as
\* there is one node the list is that node, or empty once it is freed.
ListShape(t) ==
  LET h == ends[t].head
  IN /\ Broken(t) \/ \A n \in Nodes :
          Used(t, n) => n = h \/ (h \in Nodes /\ mem[t][h].next = n)
     /\ \A n \in Nodes : Made(t) \subseteq {n} =>
          \/ Dead(t, h)
          \/ IF Used(t, n)
             THEN h = n /\ ends[t].tail = n /\ mem[t][n].next \notin Nodes
             ELSE h = NULL /\ ends[t].tail = NULL

\* What a thread set last for a key with a destructor is in the node of the
\* key, which the cleanup has yet to come to in a round without destructors.
Cleaning(t) ==
  /\ thread[t].pc = "dtor" => thread[t].again
  /\ \A k \in live : dtor[k] /\ last[t][k] # NULL =>
       /\ Used(t, Current(k)) /\ mem[t][Current(k)].value # NULL
       /\ thread[t].again \/ Broken(t) \/ thread[t].node \in {Current(k), ends[t].head}

CleanEnd(t) ==
  /\ \A n \in Nodes : ~Used(t, n)
  /\ \A k \in live : dtor[k] /\ thread[t].round < Iterations => last[t][k] = NULL

EndOf(t) ==
  FewNodes(t) =>
    /\ ~undefined /\ thread[t].pc # "ended" => ListShape(t)
    /\ ~undefined /\ thread[t].pc \in {"clean", "dtor"} => Cleaning(t)
    /\ thread[t].pc = "ended" => CleanEnd(t)

\* Until a thread has ended, nodes are made for creations that have been, and
\* those of keys that are allocated are kept.
NodesOf(t) ==
  thread[t].pc # "ended" =>
    /\ \A k \in Keys, i \in 1 .. MaxCreates : i > created[k] => mem[t][<<k, i>>].state = "none"
    /\ \A k \in live : mem[t][Current(k)].state # "freed"

EndInv == \A t \in Threads : NodesOf(t) /\ EndOf(t)

LEMMA AtMostTwo ==
  ASSUME NEW S, IsFiniteSet(S), Cardinality(S) <= 2, NEW a \in S, NEW b \in S, NEW c \in S
  PROVE  a = b \/ b = c \/ a = c
  <1> SUFFICES ASSUME a # b, b # c, a # c PROVE FALSE
    OBVIOUS
  <1> DEFINE A == {a}
             B == A \cup {b}
             C == B \cup {c}
  <1>1. IsFiniteSet(A) /\ Cardinality(A) = 1
    BY FS_Singleton
  <1>2. IsFiniteSet(B) /\ Cardinality(B) = 2
    <2>1. b \notin A
      OBVIOUS
    <2> HIDE DEF A
    <2>2. IsFiniteSet(A \cup {b}) /\ Cardinality(A \cup {b}) = Cardinality(A) + 1
      BY <1>1, <2>1, FS_AddElement
    <2> QED BY <1>1, <2>2
  <1>3. Cardinality(C) = 3
    <2>1. c \notin B
      OBVIOUS
    <2> HIDE DEF B
    <2>2. IsFiniteSet(B \cup {c}) /\ Cardinality(B \cup {c}) = Cardinality(B) + 1
      BY <1>2, <2>1, FS_AddElement
    <2> QED BY <1>2, <2>2
  <1>4. C \in SUBSET S
    OBVIOUS
  <1> HIDE DEF C
  <1>5. Cardinality(C) <= Cardinality(S) /\ Cardinality(S) \in Nat
    BY <1>4, FS_Subset, FS_CardinalityType
  <1> QED BY <1>3, <1>5

\* A thread that has few nodes had few before.
LEMMA FewStays ==
  ASSUME NEW t, Made(t) \subseteq Made(t)', FewNodes(t)'
  PROVE  FewNodes(t)
  <1>1. IsFiniteSet(Made(t)')
    BY NodesFinite, FS_Subset DEF Made
  <1>2. Cardinality(Made(t)) <= Cardinality(Made(t)')
    BY <1>1, FS_Subset
  <1>3. Cardinality(Made(t)) \in Nat /\ Cardinality(Made(t)') \in Nat
    BY <1>1, FS_Subset, FS_CardinalityType
  <1> QED BY <1>2, <1>3 DEF FewNodes

\* A thread that has few nodes, one of them new, had one or none.
LEMMA OneBefore ==
  ASSUME NEW t, NEW n \in Nodes, n \notin Made(t), Made(t)' = Made(t) \cup {n}, FewNodes(t)'
  PROVE  \E a \in Nodes : Made(t) \subseteq {a}
  <1>1. IsFiniteSet(Made(t)')
    BY NodesFinite, FS_Subset DEF Made
  <1>2. \A a, b \in Made(t) : a = b
    <2> SUFFICES ASSUME NEW a \in Made(t), NEW b \in Made(t) PROVE a = b
      OBVIOUS
    <2>1. Cardinality(Made(t)') <= 2
      BY DEF FewNodes
    <2> DEFINE S == Made(t)'
    <2>2. a \in S /\ b \in S /\ n \in S /\ IsFiniteSet(S) /\ Cardinality(S) <= 2
      BY <1>1, <2>1
    <2> HIDE DEF S
    <2>3. a = b \/ b = n \/ a = n
      BY <2>2, AtMostTwo
    <2> QED BY <2>3
  <1>3. Made(t) \subseteq Nodes
    BY DEF Made
  <1> QED BY <1>2, <1>3

\* What a step of a thread does to its list: it links a node, which is new or
\* one that was freed at once, or leaves the list alone.
LinkStep(t, n) ==
  /\ \A x \in Nodes :
       /\ mem'[t][x].state = IF x = n THEN "used" ELSE mem[t][x].state
       /\ mem'[t][x].next = IF x = ends[t].tail THEN n
                            ELSE IF x = n THEN NULL ELSE mem[t][x].next
  /\ ends'[t] = [head |-> IF ends[t].head = NULL THEN n ELSE ends[t].head,
                 tail |-> IF ends[t].tail = NULL THEN n ELSE ends[t].tail]

KeepStep(t) ==
  /\ \A x \in Nodes :
       mem'[t][x].state = mem[t][x].state /\ mem'[t][x].next = mem[t][x].next
  /\ ends'[t] = ends[t]

StoreStep(t) ==
  \/ KeepStep(t)
  \/ LinkStep(t, DANGLING)
  \/ \E k \in live : ~HasNode(t, k) /\ LinkStep(t, Current(k))

LEMMA NullsApart == NULL \notin Nodes /\ DANGLING \notin Nodes /\ NULL # DANGLING
  <1>1. \A n \in Nodes : n \in Keys \X Nat
    BY TssAssumption DEF Nodes
  <1> QED BY <1>1, TssAssumption

LEMMA ShapeKept ==
  ASSUME NEW t, ListShape(t), KeepStep(t)
  PROVE  ListShape(t)' /\ (Broken(t)' <=> Broken(t))
  <1>1. /\ ends'[t] = ends[t] /\ Made(t)' = Made(t)
        /\ \A x \in Nodes : mem'[t][x].next = mem[t][x].next
        /\ \A x \in Nodes : Used(t, x)' <=> Used(t, x)
        /\ \A x : Dead(t, x)' <=> Dead(t, x)
    BY DEF KeepStep, Made, Used, Dead
  <1>2. Broken(t)' <=> Broken(t)
    BY <1>1 DEF Broken, Dead
  <1> QED BY <1>1, <1>2, Zenon DEF ListShape, Dead

LEMMA ShapeFailed ==
  ASSUME NEW t, ListShape(t), LinkStep(t, DANGLING)
  PROVE  ListShape(t)'
  <1> DEFINE h == ends[t].head
  <1>1. /\ Made(t)' = Made(t) /\ \A n \in Nodes : Used(t, n)' <=> Used(t, n)
        /\ \A x \in Nodes : mem'[t][x].state = mem[t][x].state
        /\ \A x \in Nodes :
             mem'[t][x].next = IF x = ends[t].tail THEN DANGLING ELSE mem[t][x].next
        /\ ends'[t].head = IF h = NULL THEN DANGLING ELSE h
        /\ ends'[t].tail = IF ends[t].tail = NULL THEN DANGLING ELSE ends[t].tail
    BY NullsApart DEF LinkStep, Made, Used
  <1>2. Broken(t) => Broken(t)'
    BY <1>1, NullsApart DEF Broken, Dead
  <1>3. Broken(t)' \/ \A n \in Nodes : Used(t, n)' =>
          n = ends'[t].head \/ (ends'[t].head \in Nodes /\ mem'[t][ends'[t].head].next = n)
    <2> SUFFICES ASSUME NEW n \in Nodes, Used(t, n), ~Broken(t), ~Broken(t)'
                 PROVE  n = h \/ (h \in Nodes /\ mem'[t][h].next = n)
      BY <1>1, <1>2, NullsApart DEF ListShape
    <2>1. n = h \/ (h \in Nodes /\ mem[t][h].next = n)
      BY DEF ListShape
    <2>2. h \in Nodes => h # ends[t].tail
      BY <1>1, NullsApart DEF Broken, Dead
    <2> QED BY <1>1, <2>1, <2>2
  <1>4. ASSUME NEW n \in Nodes, Made(t) \subseteq {n}
        PROVE  \/ Dead(t, ends[t].head)'
               \/ IF Used(t, n)
                  THEN ends'[t].head = n /\ ends'[t].tail = n /\ mem'[t][n].next \notin Nodes
                  ELSE ends'[t].head = NULL /\ ends'[t].tail = NULL
    <2>1. \/ Dead(t, h)
          \/ IF Used(t, n)
             THEN h = n /\ ends[t].tail = n /\ mem[t][n].next \notin Nodes
             ELSE h = NULL /\ ends[t].tail = NULL
      BY <1>4 DEF ListShape
    <2> QED BY <1>1, <2>1, NullsApart DEF Dead
  <1> QED BY <1>1, <1>3, <1>4 DEF ListShape

LEMMA ShapeLinked ==
  ASSUME NEW t, ListShape(t), NEW n \in Nodes, n \notin Made(t), LinkStep(t, n), FewNodes(t)'
  PROVE  ListShape(t)'
  <1> DEFINE h == ends[t].head
  <1>1. /\ Made(t)' = Made(t) \cup {n} /\ Made(t) \subseteq Nodes
        /\ \A x \in Nodes : Used(t, x)' <=> x = n \/ Used(t, x)
        /\ \A x \in Nodes : Used(t, x) => x \in Made(t)
    BY DEF LinkStep, Made, Used
  <1>2. /\ \A x \in Nodes : mem'[t][x].state = IF x = n THEN "used" ELSE mem[t][x].state
        /\ \A x \in Nodes : mem'[t][x].next = IF x = ends[t].tail THEN n
                                              ELSE IF x = n THEN NULL ELSE mem[t][x].next
        /\ ends'[t].head = IF h = NULL THEN n ELSE h
        /\ ends'[t].tail = IF ends[t].tail = NULL THEN n ELSE ends[t].tail
    BY DEF LinkStep
  <1>3. PICK a \in Nodes : Made(t) \subseteq {a}
    BY <1>1, OneBefore
  <1>4. CASE Dead(t, h)
    <2>1. Dead(t, ends[t].head)'
      BY <1>2, <1>4, NullsApart DEF Dead, Made
    <2> QED BY <2>1 DEF ListShape, Broken
  <1>5. CASE ~Dead(t, h) /\ a \in Made(t) /\ Used(t, a)
    <2>1. h = a /\ ends[t].tail = a /\ a # n
      BY <1>3, <1>5 DEF ListShape
    <2>2. ends'[t].head = a /\ mem'[t][a].next = n /\ ends'[t].tail = a
      BY <1>2, <2>1, NullsApart
    <2>3. \A x \in Nodes : Used(t, x)' => x = a \/ x = n
      BY <1>1, <1>3
    <2>4. \A x \in Nodes : ~(Made(t)' \subseteq {x})
      BY <1>1, <1>5, <2>1
    <2> QED BY <2>2, <2>3, <2>4 DEF ListShape
  <1>6. CASE ~Dead(t, h) /\ ~(a \in Made(t) /\ Used(t, a))
    <2>1. h = NULL /\ ends[t].tail = NULL
      BY <1>1, <1>3, <1>6 DEF ListShape
    <2>2. /\ ends'[t].head = n /\ ends'[t].tail = n /\ mem'[t][n].next = NULL
          /\ \A x \in Nodes : Used(t, x)' => x = n
      BY <1>1, <1>2, <1>3, <1>6, <2>1, NullsApart
    <2>3. \A x \in Nodes : Made(t)' \subseteq {x} => x = n /\ Used(t, x)'
      BY <1>1
    <2> QED BY <2>2, <2>3, NullsApart DEF ListShape
  <1> QED BY <1>4, <1>5, <1>6

LEMMA ShapeStored ==
  ASSUME NEW t \in Threads, thread[t].pc # "ended", NodesOf(t), StorageInv, ListShape(t),
         StoreStep(t), FewNodes(t)'
  PROVE  ListShape(t)'
  <1>1. ASSUME NEW k \in live, ~HasNode(t, k) PROVE Current(k) \in Nodes \ Made(t)
    <2>1. Current(k) \in Nodes
      BY CurrentIsNode
    <2> QED BY <1>1, <2>1 DEF NodesOf, HasNode, Made, StorageInv, TypeOK
  <1> QED BY <1>1, ShapeKept, ShapeFailed, ShapeLinked DEF StoreStep

LEMMA NodesStored ==
  ASSUME NEW t \in Threads, thread[t].pc # "ended", StorageInv, NodesOf(t), StoreStep(t),
         UNCHANGED <<live, created>>
  PROVE  NodesOf(t)'
  <1>1. ASSUME NEW x \in Nodes
        PROVE  \/ mem'[t][x].state = mem[t][x].state
               \/ mem'[t][x].state = "used" /\ \E j \in live : x = Current(j)
    BY NullsApart DEF StoreStep, KeepStep, LinkStep
  <1>2. ASSUME NEW k \in Keys, NEW i \in 1 .. MaxCreates, i > created[k]
        PROVE  mem'[t][<<k, i>>].state = "none"
    <2>1. <<k, i>> \in Nodes /\ mem[t][<<k, i>>].state = "none"
      BY <1>2 DEF Nodes, NodesOf
    <2>2. \A j \in live : <<k, i>> # Current(j)
      <3> SUFFICES ASSUME NEW j \in live, <<k, i>> = <<j, created[j]>> PROVE FALSE
        BY DEF Current
      <3>1. i = created[k] /\ i \in Nat
        OBVIOUS
      <3> QED BY <1>2, <3>1
    <2> QED BY <1>1, <2>1, <2>2
  <1>3. \A k \in live : mem'[t][Current(k)].state # "freed"
    <2>1. \A k \in live : Current(k) \in Nodes /\ mem[t][Current(k)].state # "freed"
      BY CurrentIsNode DEF NodesOf
    <2> QED BY <1>1, <2>1
  <1> QED BY <1>2, <1>3 DEF NodesOf, Current

\* A step of another thread that deletes no key, or deletes some.
SameKeys ==
  /\ ~undefined /\ created' = created /\ live' \subseteq live
  /\ \A k \in live' : dtor'[k] = dtor[k]

Untouched(t) ==
  /\ mem'[t] = mem[t] /\ ends'[t] = ends[t] /\ thread'[t] = thread[t]
  /\ \A k \in live' : last'[t][k] \in {last[t][k], NULL}

LEMMA EndUntouched ==
  ASSUME NEW t \in Threads, NodesOf(t), EndOf(t), SameKeys, Untouched(t)
  PROVE  NodesOf(t)' /\ EndOf(t)'
  <1>1. NodesOf(t)'
    BY DEF NodesOf, Current, SameKeys, Untouched
  <1>2. FewNodes(t)' <=> FewNodes(t)
    BY DEF FewNodes, Made, Untouched
  <1>3. KeepStep(t)
    BY DEF KeepStep, Untouched
  <1>4. Cleaning(t) => Cleaning(t)'
    <2>1. Broken(t)' <=> Broken(t)
      BY DEF Broken, Dead, Untouched
    <2> QED BY <2>1 DEF Cleaning, Used, Current, SameKeys, Untouched
  <1>5. CleanEnd(t) => CleanEnd(t)'
    BY DEF CleanEnd, Used, SameKeys, Untouched
  <1> QED BY <1>1, <1>2, <1>3, <1>4, <1>5, ShapeKept DEF EndOf, SameKeys, Untouched

\* A step of one thread.
LEMMA EndStep ==
  ASSUME EndInv, SameKeys, NEW t \in Threads, NodesOf(t)', EndOf(t)',
         \A u \in Threads \ {t} : Untouched(u)
  PROVE  EndInv'
  <1>1. ASSUME NEW u \in Threads \ {t} PROVE NodesOf(u)' /\ EndOf(u)'
    BY EndUntouched DEF EndInv
  <1> QED BY <1>1 DEF EndInv

LEMMA EndInit == Init => EndInv
  <1> SUFFICES ASSUME Init, NEW t \in Threads PROVE NodesOf(t) /\ EndOf(t)
    BY DEF EndInv
  <1>1. \A n \in Nodes : mem[t][n].state = "none"
    BY DEF Init
  <1>2. NodesOf(t)
    <2>1. \A k \in Keys, i \in 1 .. MaxCreates : <<k, i>> \in Nodes
      BY DEF Nodes
    <2> QED BY <1>1, <2>1 DEF NodesOf, Init
  <1>3. ends[t].head = NULL /\ ends[t].tail = NULL /\ thread[t].pc = "run"
    BY DEF Init, Running
  <1>4. ListShape(t)
    BY <1>1, <1>3 DEF ListShape, Used
  <1> QED BY <1>2, <1>3, <1>4 DEF EndOf

LEMMA EndCreate ==
  ASSUME StorageInv, EndInv, NEW k \in Keys, NEW d \in BOOLEAN, Create(k, d)
  PROVE  EndInv'
  <1> SUFFICES ASSUME NEW t \in Threads PROVE NodesOf(t)' /\ EndOf(t)'
    BY DEF EndInv
  <1>1. /\ k \notin live /\ ~undefined /\ live' = live \cup {k}
        /\ created[k] + 1 \in 1 .. MaxCreates /\ created[k] \in Nat
        /\ created'[k] = created[k] + 1
        /\ \A j \in Keys : j # k => created'[j] = created[j] /\ dtor'[j] = dtor[j]
        /\ UNCHANGED <<mem, ends, last, thread, undefined>>
    BY TssAssumption DEF Create, StorageInv, TypeOK
  <1>2. live \subseteq Keys /\ last[t][k] = NULL
    BY <1>1 DEF StorageInv, TypeOK
  <1>3. NodesOf(t) /\ EndOf(t)
    BY DEF EndInv
  <1>4. NodesOf(t)'
    <2> SUFFICES ASSUME thread[t].pc # "ended" PROVE NodesOf(t)'
      BY <1>1 DEF NodesOf
    <2>1. ASSUME NEW j \in Keys, NEW i \in 1 .. MaxCreates, i > created'[j]
          PROVE  mem[t][<<j, i>>].state = "none"
      <3>1. i > created[j]
        BY <1>1, <2>1
      <3> QED BY <1>3, <3>1 DEF NodesOf
    <2>2. ASSUME NEW j \in live'
          PROVE  mem[t][<<j, created'[j]>>].state # "freed"
      <3>1. CASE j = k
        <4>1. mem[t][<<k, created[k] + 1>>].state = "none"
          BY <1>1, <1>3 DEF NodesOf
        <4> QED BY <1>1, <3>1, <4>1
      <3>2. CASE j # k
        <4>1. j \in live /\ created'[j] = created[j]
          BY <1>1, <1>2, <3>2
        <4> QED BY <1>3, <2>2, <4>1 DEF NodesOf, Current
      <3> QED BY <3>1, <3>2
    <2> QED BY <1>1, <2>1, <2>2 DEF NodesOf, Current
  <1>5. \A j \in live' : dtor'[j] /\ last[t][j] # NULL =>
          j \in live /\ dtor[j] /\ Current(j)' = Current(j)
    BY <1>1, <1>2 DEF Current
  <1>6. /\ FewNodes(t)' <=> FewNodes(t)
        /\ KeepStep(t) /\ (Broken(t)' <=> Broken(t))
    BY <1>1 DEF FewNodes, Made, KeepStep, Broken, Dead
  <1>7. Cleaning(t) => Cleaning(t)'
    BY <1>1, <1>5, <1>6 DEF Cleaning, Used
  <1>8. CleanEnd(t) => CleanEnd(t)'
    BY <1>1, <1>5 DEF CleanEnd, Used
  <1> QED BY <1>1, <1>3, <1>4, <1>6, <1>7, <1>8, ShapeKept DEF EndOf

\* What tss_set does to the list, in a memory with the nodes of this one.
SameNodes(t, m) ==
  \A x \in Nodes : m[t][x].state = mem[t][x].state /\ m[t][x].next = mem[t][x].next

LEMMA StoreSteps ==
  ASSUME StorageInv, NEW t \in Threads, NEW m \in Mems, SameNodes(t, m), NEW k \in live,
         NEW v \in Values \cup {NULL}, Store(t, m, k, v)
  PROVE  StoreStep(t)
  <1> DEFINE n == Current(k)
             w == WithNew(t, m, k, v)
  <1>1. n \in Nodes
    BY CurrentIsNode
  <1>2. /\ mem'[t][n].state = "used"
        /\ \A x \in Nodes : x # n => mem'[t][x].state = m[t][x].state
        /\ \/ /\ HasNode(t, k) /\ UNCHANGED <<ends, undefined>>
              /\ \A x \in Nodes : mem'[t][x].next = m[t][x].next
           \/ ~HasNode(t, k) /\ LinkedTo(t, w, n)
    BY StoreEffect DEF SameNodes
  <1>3. CASE HasNode(t, k)
    BY <1>1, <1>2, <1>3 DEF StoreStep, KeepStep, SameNodes, HasNode
  <1>4. CASE ~HasNode(t, k)
    <2>1. \A x \in Nodes : w[t][x].next = IF x = n THEN NULL ELSE mem[t][x].next
      <3>1. w = [m EXCEPT ![t] = [m[t] EXCEPT ![n] = NewNode(v)]]
        BY DEF WithNew
      <3>2. NewNode(v).next = NULL
        BY DEF NewNode
      <3> HIDE DEF w, n
      <3> QED BY <1>1, <3>1, <3>2 DEF Mems, SameNodes
    <2> HIDE DEF w
    <2>2. LinkedTo(t, w, n) /\ \A x \in Nodes : x # n => mem'[t][x].state = mem[t][x].state
      BY <1>2, <1>4 DEF SameNodes
    <2>3. LinkStep(t, n)
      BY <1>2, <2>1, <2>2 DEF LinkStep, LinkedTo
    <2> QED BY <1>4, <2>3 DEF StoreStep
  <1> QED BY <1>3, <1>4

LEMMA FailSteps ==
  ASSUME TypeOK, NEW t \in Threads, NEW m \in Mems, SameNodes(t, m), Linked(t, m, DANGLING)
  PROVE  StoreStep(t)
  <1>1. DANGLING \in Pointers
    BY DEF Pointers
  <1>2. LinkedTo(t, m, DANGLING) /\ \A x \in Nodes : mem'[t][x].state = m[t][x].state
    BY <1>1, LinkedEffect
  <1>3. LinkStep(t, DANGLING)
    BY <1>2, NullsApart DEF LinkStep, LinkedTo, SameNodes
  <1> QED BY <1>3 DEF StoreStep

LEMMA MadeGrows ==
  ASSUME NEW t, StoreStep(t)
  PROVE  Made(t) \subseteq Made(t)'
  BY NullsApart DEF StoreStep, KeepStep, LinkStep, Made

\* A thread sets a value, or fails to.
LEMMA EndStored ==
  ASSUME StorageInv, EndInv, ~undefined, NEW t \in Threads, thread[t].pc \in {"run", "dtor"},
         StoreStep(t), UNCHANGED <<live, created, thread>>,
         thread[t].pc = "dtor" /\ Cleaning(t) => Cleaning(t)'
  PROVE  NodesOf(t)' /\ EndOf(t)'
  <1>1. NodesOf(t) /\ EndOf(t) /\ thread[t].pc # "ended"
    BY DEF EndInv
  <1>2. NodesOf(t)'
    BY <1>1, NodesStored
  <1>3. FewNodes(t)' => ListShape(t)'
    BY <1>1, MadeGrows, FewStays, ShapeStored DEF EndOf
  <1>4. FewNodes(t)' /\ thread[t].pc = "dtor" => Cleaning(t)'
    BY <1>1, MadeGrows, FewStays DEF EndOf
  <1> QED BY <1>1, <1>2, <1>3, <1>4 DEF EndOf

LEMMA EndSet ==
  ASSUME StorageInv, EndInv, NEW t \in Threads, NEW k \in Keys, NEW v \in Values \cup {NULL},
         Set(t, k, v)
  PROVE  EndInv'
  <1>1. /\ k \in live /\ ~undefined /\ thread[t].pc \in {"run", "dtor"} /\ mem \in Mems
        /\ Store(t, mem, k, v) /\ SameNodes(t, mem)
        /\ last' = [last EXCEPT ![t][k] = v] /\ UNCHANGED <<live, dtor, created, thread>>
    BY DEF Set, Runs, Mems, NodeRecs, SameNodes, StorageInv, TypeOK
  <1>2. /\ StoreStep(t) /\ OthersKept(t, mem)
        /\ mem'[t][Current(k)].state = "used" /\ mem'[t][Current(k)].value = v
        /\ \A x \in Nodes : x # Current(k) =>
             mem'[t][x].state = mem[t][x].state /\ mem'[t][x].value = mem[t][x].value
    BY <1>1, StoreSteps, StoreEffect
  <1>5. ASSUME thread[t].pc = "dtor", Cleaning(t) PROVE Cleaning(t)'
    <2> SUFFICES ASSUME NEW j \in live, dtor[j], last'[t][j] # NULL
                 PROVE  mem'[t][Current(j)].state = "used" /\ mem'[t][Current(j)].value # NULL
      BY <1>1, <1>5 DEF Cleaning, Used, Current
    <2>1. Current(j) \in Nodes /\ j \in Keys /\ (j # k => Current(j) # Current(k))
      BY CurrentIsNode DEF Current
    <2>2. last'[t][j] = IF j = k THEN v ELSE last[t][j]
      BY <1>1, <2>1 DEF StorageInv, TypeOK
    <2> QED BY <1>2, <1>5, <2>1, <2>2 DEF Cleaning, Used
  <1>3. NodesOf(t)' /\ EndOf(t)'
    BY <1>1, <1>2, <1>5, EndStored
  <1>4. SameKeys /\ \A u \in Threads \ {t} : Untouched(u)
    <2>1. \A u \in Threads \ {t} : last'[u] = last[u]
      BY <1>1 DEF StorageInv, TypeOK
    <2> QED BY <1>1, <1>2, <2>1 DEF SameKeys, Untouched, OthersKept
  <1> QED BY <1>3, <1>4, EndStep

LEMMA EndSetFails ==
  ASSUME StorageInv, EndInv, NEW t \in Threads, NEW k \in Keys, SetFails(t, k)
  PROVE  EndInv'
  <1>1. /\ ~undefined /\ thread[t].pc \in {"run", "dtor"} /\ mem \in Mems /\ TypeOK
        /\ Linked(t, mem, DANGLING) /\ SameNodes(t, mem)
        /\ UNCHANGED <<live, dtor, created, last, thread>>
    BY DEF SetFails, StoreFails, Runs, Mems, NodeRecs, SameNodes, StorageInv, TypeOK
  <1>2. /\ StoreStep(t) /\ OthersKept(t, mem)
        /\ \A x \in Nodes :
             mem'[t][x].state = mem[t][x].state /\ mem'[t][x].value = mem[t][x].value
    <2>1. DANGLING \in Pointers
      BY DEF Pointers
    <2> QED BY <1>1, <2>1, FailSteps, LinkedEffect
  <1>5. thread[t].pc = "dtor" /\ Cleaning(t) => Cleaning(t)'
    BY <1>1, <1>2, CurrentIsNode DEF Cleaning, Used, Current
  <1>3. NodesOf(t)' /\ EndOf(t)'
    BY <1>1, <1>2, <1>5, EndStored
  <1>4. SameKeys /\ \A u \in Threads \ {t} : Untouched(u)
    BY <1>1, <1>2 DEF SameKeys, Untouched, OthersKept
  <1> QED BY <1>3, <1>4, EndStep

\* There is no node before the only one.
LEMMA NoneBefore ==
  ASSUME TypeOK, NEW t \in Threads, NEW n \in Nodes, ends[t].head = n, mem[t][n].next = NULL
  PROVE  Before(t, n) = NULL
  <1> SUFFICES ASSUME NEW i \in 2 .. Len(List(t)), List(t)[i] = n PROVE FALSE
    BY DEF Before
  <1>1. List(t) \in Seq(Pointers) /\ Len(List(t)) \in Nat /\ List(t)[1] = n
    BY ListLinks
  <1>2. List(t)[2] = NULL
    <2>1. 2 \in 2 .. Len(List(t)) /\ 2 - 1 = 1
      BY <1>1
    <2> QED BY <1>1, <2>1, ListLinks
  <1>3. CASE i = 2
    BY <1>2, <1>3, NullsApart
  <1>4. CASE i # 2
    <2>1. 3 \in 2 .. Len(List(t)) /\ 3 - 1 = 2
      BY <1>1, <1>4
    <2>2. List(t)[2] \in Nodes
      BY <2>1, ListLinks
    <2> QED BY <1>2, <2>2, NullsApart
  <1> QED BY <1>3, <1>4

\* What tss_delete does to the list of its thread.
UnlinkStep(t, n) ==
  /\ \A x \in Nodes :
       /\ mem'[t][x].state = IF x = n THEN "freed" ELSE mem[t][x].state
       /\ mem'[t][x].next = mem[t][x].next
  /\ ends'[t] = [head |-> IF ends[t].head = n THEN mem[t][n].next ELSE ends[t].head,
                 tail |-> IF ends[t].tail = n THEN Before(t, n) ELSE ends[t].tail]

LEMMA DeleteEffect ==
  ASSUME StorageInv, NEW t \in Threads, NEW k \in Keys, Delete(t, k)
  PROVE  /\ k \in live /\ Current(k) \in Nodes /\ OthersKept(t, mem)
         /\ \/ KeepStep(t)
            \/ Used(t, Current(k)) /\ UnlinkStep(t, Current(k))
         /\ \A x \in Nodes : x # Current(k) => mem'[t][x] = mem[t][x]
  <1> DEFINE n == Current(k)
  <1>1. /\ k \in live /\ n \in Nodes /\ mem \in Mems
        /\ ends \in [Threads -> [head : Pointers, tail : Pointers]]
    BY CurrentIsNode DEF Delete, Mems, NodeRecs, StorageInv, TypeOK
  <1>2. CASE ~HasNode(t, k)
    BY <1>1, <1>2 DEF Delete, KeepStep, OthersKept
  <1>3. CASE HasNode(t, k)
    <2>1. /\ mem' = [mem EXCEPT ![t][n].state = "freed"]
          /\ ends' = [ends EXCEPT
               ![t].head = IF @ = n THEN mem[t][n].next ELSE @,
               ![t].tail = IF @ = n THEN Before(t, n) ELSE @]
      BY <1>3 DEF Delete
    <2> HIDE DEF n
    <2>2. /\ \A x \in Nodes :
               /\ mem'[t][x].state = IF x = n THEN "freed" ELSE mem[t][x].state
               /\ mem'[t][x].next = mem[t][x].next
               /\ x # n => mem'[t][x] = mem[t][x]
          /\ \A u \in Threads \ {t} : mem'[u] = mem[u]
      <3> DEFINE r == [mem[t][n] EXCEPT !.state = "freed"]
      <3>1. r.state = "freed" /\ r.next = mem[t][n].next
        BY <1>1 DEF Mems, NodeRecs
      <3>2. mem' = [mem EXCEPT ![t][n] = r]
        BY <2>1
      <3> HIDE DEF r
      <3> QED BY <1>1, <3>1, <3>2 DEF Mems
    <2>3. /\ ends'[t] = [head |-> IF ends[t].head = n THEN mem[t][n].next ELSE ends[t].head,
                         tail |-> IF ends[t].tail = n THEN Before(t, n) ELSE ends[t].tail]
          /\ \A u \in Threads \ {t} : ends'[u] = ends[u]
      <3> DEFINE hd == IF ends[t].head = n THEN mem[t][n].next ELSE ends[t].head
                 tl == IF ends[t].tail = n THEN Before(t, n) ELSE ends[t].tail
      <3>1. ends' = [ends EXCEPT ![t].head = hd, ![t].tail = tl]
        BY <1>1, <2>1
      <3> HIDE DEF hd, tl, Pointers
      <3>2. ends'[t] = [head |-> hd, tail |-> tl] /\ \A u \in Threads \ {t} : ends'[u] = ends[u]
        BY <1>1, <3>1
      <3> QED BY <3>2 DEF hd, tl
    <2>4. UnlinkStep(t, n) /\ OthersKept(t, mem)
      BY <2>2, <2>3 DEF UnlinkStep, OthersKept
    <2>5. Used(t, n)
      BY <1>3 DEF Used, HasNode, n
    <2> QED BY <1>1, <2>2, <2>4, <2>5 DEF n
  <1> QED BY <1>2, <1>3

LEMMA ShapeUnlinked ==
  ASSUME TypeOK, NEW t \in Threads, ListShape(t), NEW n \in Nodes, Used(t, n), UnlinkStep(t, n)
  PROVE  ListShape(t)'
  <1> DEFINE h == ends[t].head
             g == IF h = n THEN mem[t][n].next ELSE h
             Gone(p) == p = DANGLING \/ (p \in Nodes /\ mem'[t][p].state = "freed")
  <1>1. /\ ends'[t].head = g
        /\ ends'[t].tail = IF ends[t].tail = n THEN Before(t, n) ELSE ends[t].tail
        /\ \A x \in Nodes : mem'[t][x].next = mem[t][x].next
        /\ Made(t)' = Made(t)
        /\ \A x \in Nodes : Used(t, x)' <=> Used(t, x) /\ x # n
    BY DEF UnlinkStep, Made, Used
  <1>2. /\ \A x : Dead(t, x) => Gone(x) /\ x # n
        /\ Gone(n)
    BY NullsApart DEF UnlinkStep, Dead, Used
  <1>3. /\ Dead(t, ends[t].head)' <=> Gone(g)
        /\ Broken(t)' <=> Gone(g) \/ (g \in Nodes /\ Gone(mem[t][g].next))
    BY <1>1 DEF Broken, Dead
  <1> HIDE DEF Gone
  <1>4. Broken(t) => Broken(t)'
    <2>1. Dead(t, h) \/ (h \in Nodes /\ Dead(t, mem[t][h].next)) => Broken(t)'
      BY <1>2, <1>3
    <2> QED BY <2>1 DEF Broken
  <1>5. ASSUME ~Broken(t), NEW x \in Nodes, Used(t, x), x # n
        PROVE  x = g \/ (g \in Nodes /\ mem[t][g].next = x)
    BY <1>5 DEF ListShape
  <1>6. ASSUME NEW x \in Nodes, Made(t) \subseteq {x}
        PROVE  Gone(g) \/ (g = NULL /\ ends'[t].tail = NULL)
    <2>1. x = n
      BY <1>6 DEF Made, Used
    <2>2. Dead(t, h) \/ (h = n /\ ends[t].tail = n /\ mem[t][n].next \notin Nodes)
      BY <1>6, <2>1 DEF ListShape
    <2>3. CASE Dead(t, h)
      BY <1>2, <2>3
    <2>4. CASE h = n /\ ends[t].tail = n /\ mem[t][n].next \notin Nodes
      <3>1. g = NULL \/ g = DANGLING
        BY <2>4 DEF TypeOK, Pointers
      <3>2. CASE g = NULL
        BY <1>1, <2>4, <3>2, NoneBefore
      <3>3. CASE g = DANGLING
        BY <3>3 DEF Gone
      <3> QED BY <3>1, <3>2, <3>3
    <2> QED BY <2>2, <2>3, <2>4
  <1>7. \A x \in Nodes : Made(t)' \subseteq {x} =>
          /\ ~Used(t, x)'
          /\ Dead(t, ends[t].head)' \/ (ends'[t].head = NULL /\ ends'[t].tail = NULL)
    <2>1. \A x \in Nodes : Made(t) \subseteq {x} => x = n
      BY DEF Made, Used
    <2> QED BY <1>1, <1>3, <1>6, <2>1
  <1>8. Broken(t)' \/ \A x \in Nodes : Used(t, x)' =>
          x = ends'[t].head \/ (ends'[t].head \in Nodes /\ mem'[t][ends'[t].head].next = x)
    BY <1>1, <1>4, <1>5
  <1> QED BY <1>7, <1>8 DEF ListShape

LEMMA EndDelete ==
  ASSUME StorageInv, EndInv, NEW t \in Threads, NEW k \in Keys, Delete(t, k)
  PROVE  EndInv'
  <1> DEFINE n == Current(k)
  <1>1. /\ k \in live /\ n \in Nodes /\ OthersKept(t, mem)
        /\ KeepStep(t) \/ (Used(t, n) /\ UnlinkStep(t, n))
        /\ \A x \in Nodes : x # n => mem'[t][x] = mem[t][x]
    BY DeleteEffect
  <1>2. /\ ~undefined /\ thread[t].pc \in {"run", "dtor"} /\ TypeOK
        /\ live' = live \ {k} /\ UNCHANGED <<created, thread>>
        /\ \A j \in live' : dtor'[j] = dtor[j]
        /\ \A u \in Threads, j \in live' : last'[u][j] = last[u][j]
    BY DEF Delete, Runs, StorageInv, TypeOK
  <1>3. NodesOf(t) /\ EndOf(t)
    BY DEF EndInv
  <1>4. \A x \in Nodes : mem'[t][x].state = mem[t][x].state
                         \/ (x = n /\ Used(t, n) /\ mem'[t][x].state = "freed")
    BY <1>1 DEF KeepStep, UnlinkStep
  <1>5. NodesOf(t)'
    <2>1. ASSUME NEW j \in Keys, NEW i \in 1 .. MaxCreates, i > created[j]
          PROVE  mem'[t][<<j, i>>].state = "none"
      <3>1. <<j, i>> \in Nodes /\ mem[t][<<j, i>>].state = "none"
        BY <1>2, <1>3, <2>1 DEF Nodes, NodesOf
      <3> HIDE DEF n
      <3> QED BY <1>4, <3>1 DEF Used
    <2>2. ASSUME NEW j \in live' PROVE mem'[t][Current(j)].state # "freed"
      <3>1. j \in live /\ Current(j) \in Nodes /\ Current(j) # n
        BY <1>2, CurrentIsNode DEF Current
      <3>2. mem[t][Current(j)].state # "freed"
        BY <1>2, <1>3, <3>1 DEF NodesOf
      <3> HIDE DEF n
      <3> QED BY <1>4, <3>1, <3>2
    <2> QED BY <1>2, <2>1, <2>2 DEF NodesOf, Current
  <1>6. FewNodes(t)' => FewNodes(t)
    <2>1. Made(t) \subseteq Made(t)'
      <3> HIDE DEF n
      <3> QED BY <1>4 DEF Made
    <2> QED BY <2>1, FewStays
  <1>7. ListShape(t) => ListShape(t)'
    BY <1>1, <1>2, ShapeKept, ShapeUnlinked
  <1>10. thread[t].pc = "dtor" /\ Cleaning(t) => Cleaning(t)'
    <2>1. \A j \in live' : j \in live /\ Current(j) \in Nodes /\ Current(j) # n
      BY <1>2, CurrentIsNode DEF Current
    <2> HIDE DEF n
    <2> QED BY <1>1, <1>2, <2>1 DEF Cleaning, Used, Current
  <1>8. EndOf(t)'
    BY <1>2, <1>3, <1>6, <1>7, <1>10 DEF EndOf
  <1>9. SameKeys /\ \A u \in Threads \ {t} : Untouched(u)
    BY <1>1, <1>2 DEF SameKeys, Untouched, OthersKept
  <1> QED BY <1>5, <1>8, <1>9, EndStep

\* A thread without a list has no values, and one with a list begins to
\* clean it up at the head.
LEMMA EndExit ==
  ASSUME StorageInv, EndInv, NEW t \in Threads, Exit(t)
  PROVE  EndInv'
  <1>1. /\ ~undefined /\ thread[t].pc = "run" /\ TypeOK
        /\ UNCHANGED <<live, dtor, created, mem, ends, last, undefined>>
        /\ \A u \in Threads \ {t} : thread'[u] = thread[u]
        /\ thread'[t] = IF ends[t].head = NULL THEN [Running EXCEPT !.pc = "ended"]
                                              ELSE Round(t, 1)
    BY DEF Exit, Runs, StorageInv, TypeOK
  <1>2. NodesOf(t) /\ EndOf(t) /\ KeepStep(t)
    BY <1>1 DEF EndInv, KeepStep
  <1>3. \A k \in live : last[t][k] # NULL =>
          Used(t, Current(k)) /\ mem[t][Current(k)].value # NULL
    BY <1>1 DEF StorageInv, GetReturnsLastSet, HasNode, Used
  <1>4. NodesOf(t)'
    BY <1>1, <1>2 DEF NodesOf, Current
  <1>5. EndOf(t)'
    <2> SUFFICES ASSUME FewNodes(t)
                 PROVE  /\ thread'[t].pc # "ended" => ListShape(t)'
                        /\ thread'[t].pc \in {"clean", "dtor"} => Cleaning(t)'
                        /\ thread'[t].pc = "ended" => CleanEnd(t)'
      BY <1>1 DEF EndOf, FewNodes, Made
    <2>1. ListShape(t)
      BY <1>1, <1>2 DEF EndOf
    <2>2. CASE ends[t].head = NULL
      <3>1. thread'[t].pc = "ended"
        BY <1>1, <2>2 DEF Running
      <3>2. \A n \in Nodes : ~Used(t, n)
        BY <2>1, <2>2, NullsApart DEF ListShape, Broken, Dead
      <3>3. \A k \in live : last[t][k] = NULL
        BY <1>3, <3>2, CurrentIsNode
      <3> QED BY <1>1, <3>1, <3>2, <3>3 DEF CleanEnd, Used
    <2>3. CASE ends[t].head # NULL
      <3>1. thread'[t].pc = "clean" /\ thread'[t].node = ends[t].head
        BY <1>1, <2>3 DEF Round
      <3> QED BY <1>1, <1>2, <1>3, <2>1, <2>3, <3>1, ShapeKept DEF Cleaning, Used, Current
    <2> QED BY <2>2, <2>3
  <1>6. SameKeys /\ \A u \in Threads \ {t} : Untouched(u)
    BY <1>1 DEF SameKeys, Untouched
  <1> QED BY <1>4, <1>5, <1>6, EndStep

\* A step of a round, of which the destructors it calls are no part, leaves
\* the list alone.
LEMMA EndCleaned ==
  ASSUME StorageInv, EndInv, SameKeys, NEW t \in Threads, thread[t].pc \in {"clean", "dtor"},
         KeepStep(t), live' = live, thread'[t].pc \in {"clean", "dtor"},
         FewNodes(t) /\ ListShape(t) /\ Cleaning(t) => Cleaning(t)',
         \A u \in Threads \ {t} : Untouched(u)
  PROVE  EndInv'
  <1>1. NodesOf(t) /\ EndOf(t) /\ ~undefined /\ created' = created /\ thread[t].pc # "ended"
    BY DEF EndInv, SameKeys
  <1>2. NodesOf(t)'
    BY <1>1, NodesStored DEF StoreStep
  <1>3. FewNodes(t)' => FewNodes(t) /\ ListShape(t)' /\ Cleaning(t)'
    <2>1. FewNodes(t)' => FewNodes(t)
      BY MadeGrows, FewStays DEF StoreStep
    <2>2. FewNodes(t) => ListShape(t) /\ Cleaning(t)
      BY <1>1 DEF EndOf
    <2>3. ListShape(t) => ListShape(t)'
      BY ShapeKept
    <2> QED BY <2>1, <2>2, <2>3
  <1>4. EndOf(t)'
    BY <1>3 DEF EndOf
  <1> QED BY <1>2, <1>4, EndStep

\* The memory of a thread after the value of node n was taken.
LEMMA ValueTaken ==
  ASSUME TypeOK, NEW t \in Threads, NEW n \in Nodes, NEW m,
         m = [mem EXCEPT ![t][n].value = NULL]
  PROVE  /\ m \in Mems /\ SameNodes(t, m)
         /\ \A u \in Threads \ {t} : m[u] = mem[u]
         /\ \A x \in Nodes : x # n => m[t][x].value = mem[t][x].value
  <1> DEFINE r == [mem[t][n] EXCEPT !.value = NULL]
  <1>1. mem \in Mems /\ mem[t][n] \in NodeRecs
    BY DEF TypeOK, Mems, NodeRecs
  <1>2. r \in NodeRecs /\ r.state = mem[t][n].state /\ r.next = mem[t][n].next
    BY <1>1 DEF NodeRecs
  <1>3. m = [mem EXCEPT ![t][n] = r]
    OBVIOUS
  <1> HIDE DEF r
  <1>4. /\ m \in Mems /\ m[t][n] = r
        /\ \A x \in Nodes : x # n => m[t][x] = mem[t][x]
        /\ \A u \in Threads \ {t} : m[u] = mem[u]
    BY <1>1, <1>2, <1>3 DEF Mems
  <1> QED BY <1>2, <1>4 DEF SameNodes

\* A destructor is called: the value it takes is gone.
LEMMA EndCleanValue ==
  ASSUME StorageInv, EndInv, NEW t \in Threads, CleanValue(t)
  PROVE  EndInv'
  <1>1. PICK n \in Nodes : n = thread[t].node
    BY DEF CleanValue, AtNode, Readable, Freed, StorageInv, TypeOK, Pointers
  <1>2. /\ ~undefined /\ thread[t].pc = "clean"
        /\ UNCHANGED <<live, dtor, created, ends, undefined>>
        /\ mem' = [mem EXCEPT ![t][n].value = NULL]
        /\ \A u \in Threads \ {t} : last'[u] = last[u] /\ thread'[u] = thread[u]
        /\ \A k \in Keys : last'[t][k] = IF n = Current(k) THEN NULL ELSE last[t][k]
        /\ thread'[t].pc = "dtor" /\ thread'[t].again = TRUE
    BY <1>1, CleanValueEffect
  <1>3. /\ SameNodes(t, mem')
        /\ \A u \in Threads \ {t} : mem'[u] = mem[u]
        /\ \A x \in Nodes : x # n => mem'[t][x].value = mem[t][x].value
    <2> DEFINE m == [mem EXCEPT ![t][n].value = NULL]
    <2>1. TypeOK
      BY DEF StorageInv
    <2>2. /\ SameNodes(t, m)
          /\ \A u \in Threads \ {t} : m[u] = mem[u]
          /\ \A x \in Nodes : x # n => m[t][x].value = mem[t][x].value
      BY <2>1, ValueTaken
    <2>3. mem' = m
      BY <1>2
    <2> HIDE DEF m
    <2> QED BY <2>2, <2>3 DEF SameNodes
  <1>4. KeepStep(t)
    BY <1>2, <1>3 DEF KeepStep, SameNodes
  <1>5. ASSUME Cleaning(t) PROVE Cleaning(t)'
    <2> SUFFICES ASSUME NEW k \in live, dtor[k], last'[t][k] # NULL
                 PROVE  mem'[t][Current(k)].state = "used" /\ mem'[t][Current(k)].value # NULL
      BY <1>2 DEF Cleaning, Used, Current
    <2>1. Current(k) \in Nodes /\ k \in Keys
      BY CurrentIsNode
    <2>2. Current(k) # n /\ last[t][k] # NULL
      BY <1>2, <2>1
    <2> QED BY <1>3, <1>5, <2>1, <2>2 DEF Cleaning, Used, SameNodes
  <1>6. SameKeys /\ \A u \in Threads \ {t} : Untouched(u)
    BY <1>2, <1>3 DEF SameKeys, Untouched
  <1> QED BY <1>2, <1>4, <1>5, <1>6, EndCleaned

\* A destructor returns: there is a further round.
LEMMA EndCleanNext ==
  ASSUME StorageInv, EndInv, NEW t \in Threads, CleanNext(t)
  PROVE  EndInv'
  <1>1. /\ ~undefined /\ thread[t].pc = "dtor"
        /\ UNCHANGED <<live, dtor, created, mem, ends, last, undefined>>
        /\ thread'[t].pc = "clean" /\ thread'[t].again = thread[t].again
        /\ \A u \in Threads \ {t} : thread'[u] = thread[u]
    BY CleanNextEffect
  <1>2. KeepStep(t)
    BY <1>1 DEF KeepStep
  <1>3. Cleaning(t) => Cleaning(t)'
    BY <1>1 DEF Cleaning, Used, Current
  <1>4. SameKeys /\ \A u \in Threads \ {t} : Untouched(u)
    BY <1>1 DEF SameKeys, Untouched
  <1> QED BY <1>1, <1>2, <1>3, <1>4, EndCleaned

\* A node that is passed over held no value for a destructor, and the next
\* one after the head is the only other.
LEMMA EndCleanOther ==
  ASSUME StorageInv, EndInv, NEW t \in Threads, CleanOther(t)
  PROVE  EndInv'
  <1>1. PICK n \in Nodes : n = thread[t].node
    BY DEF CleanOther, AtNode, Readable, Freed, StorageInv, TypeOK, Pointers
  <1>2. /\ ~undefined /\ thread[t].pc = "clean" /\ TypeOK
        /\ UNCHANGED <<live, dtor, created, ends, last, undefined>>
        /\ mem' = [mem EXCEPT ![t][n].value = NULL]
        /\ mem[t][n].value # NULL => ~dtor[KeyOf(n)]
    BY <1>1 DEF CleanOther, AtNode, Cleans, Destroys, StorageInv
  <1>3. /\ SameNodes(t, mem')
        /\ \A u \in Threads \ {t} : mem'[u] = mem[u]
        /\ \A x \in Nodes : x # n => mem'[t][x].value = mem[t][x].value
    <2> DEFINE m == [mem EXCEPT ![t][n].value = NULL]
    <2>1. TypeOK
      BY <1>2
    <2>2. /\ SameNodes(t, m)
          /\ \A u \in Threads \ {t} : m[u] = mem[u]
          /\ \A x \in Nodes : x # n => m[t][x].value = mem[t][x].value
      BY <2>1, ValueTaken
    <2>3. mem' = m
      BY <1>2
    <2> HIDE DEF m
    <2> QED BY <2>2, <2>3 DEF SameNodes
  <1>4. thread' = [thread EXCEPT ![t].node = mem[t][n].next]
    BY <1>1 DEF CleanOther
  <1>5. /\ thread'[t].pc = "clean" /\ thread'[t].again = thread[t].again
        /\ thread'[t].node = mem[t][n].next
        /\ \A u \in Threads \ {t} : thread'[u] = thread[u]
    BY <1>2, <1>4 DEF TypeOK
  <1>6. KeepStep(t)
    BY <1>2, <1>3 DEF KeepStep, SameNodes
  <1>7. ASSUME ListShape(t), Cleaning(t) PROVE Cleaning(t)'
    <2>1. Broken(t)' <=> Broken(t)
      BY <1>6, <1>7, ShapeKept
    <2>2. ASSUME NEW k \in live, dtor[k], last[t][k] # NULL
          PROVE  /\ mem'[t][Current(k)].state = "used" /\ mem'[t][Current(k)].value # NULL
                 /\ thread'[t].again \/ Broken(t)' \/ thread'[t].node = Current(k)
      <3>1. /\ Current(k) \in Nodes /\ mem[t][Current(k)].state = "used"
            /\ mem[t][Current(k)].value # NULL
            /\ thread[t].again \/ Broken(t) \/ n \in {Current(k), ends[t].head}
        BY <1>1, <1>7, <2>2, CurrentIsNode DEF Cleaning, Used
      <3>2. Current(k) # n
        BY <1>2, <2>2, <3>1 DEF KeyOf, Current
      <3>3. ~Broken(t) /\ n = ends[t].head => mem[t][n].next = Current(k)
        BY <1>7, <3>1, <3>2 DEF ListShape, Used
      <3> QED BY <1>3, <1>5, <2>1, <3>1, <3>2, <3>3 DEF SameNodes
    <2> QED BY <1>2, <1>5, <1>7, <2>2 DEF Cleaning, Used, Current
  <1>8. SameKeys /\ \A u \in Threads \ {t} : Untouched(u)
    BY <1>2, <1>3, <1>5 DEF SameKeys, Untouched
  <1> QED BY <1>2, <1>5, <1>6, <1>7, <1>8, EndCleaned

\* A round starts at the head, where none has been passed over.
LEMMA EndCleanRound ==
  ASSUME StorageInv, EndInv, NEW t \in Threads, CleanRound(t)
  PROVE  EndInv'
  <1>1. /\ ~undefined /\ thread[t].pc = "clean"
        /\ UNCHANGED <<live, dtor, created, mem, ends, last, undefined>>
        /\ thread' = [thread EXCEPT ![t] = Round(t, thread[t].round + 1)]
    BY DEF CleanRound, Cleans
  <1>2. /\ thread'[t].pc = "clean" /\ thread'[t].node = ends[t].head
        /\ \A u \in Threads \ {t} : thread'[u] = thread[u]
    BY <1>1 DEF StorageInv, TypeOK, Round
  <1>3. KeepStep(t)
    BY <1>1 DEF KeepStep
  <1>4. Cleaning(t) => Cleaning(t)'
    BY <1>1, <1>2 DEF Cleaning, Used, Current
  <1>5. SameKeys /\ \A u \in Threads \ {t} : Untouched(u)
    BY <1>1, <1>2 DEF SameKeys, Untouched
  <1> QED BY <1>1, <1>2, <1>3, <1>4, <1>5, EndCleaned

\* A list that ends has its first two nodes.
LEMMA WholeList ==
  ASSUME TypeOK, NEW t \in Threads, Whole(t)
  PROVE  /\ ~Broken(t) /\ InList(t, ends[t].head)
         /\ ends[t].head \in Nodes => InList(t, mem[t][ends[t].head].next)
  <1> DEFINE h == ends[t].head
             l == List(t)
  <1>1. /\ Len(l) \in Nat /\ DOMAIN l = 1 .. Len(l) /\ 1 \in DOMAIN l /\ l[1] = h
    BY ListLinks
  <1>2. \A i \in 2 .. Len(l) : l[i - 1] \in Nodes /\ ~Dead(t, l[i - 1])
                              /\ mem[t][l[i - 1]].next = l[i]
    BY ListLinks DEF Dead, Freed
  <1>3. PICK i \in 1 .. Len(l) : l[i] = NULL
    BY <1>1 DEF Whole, InList
  <1> HIDE DEF l
  <1>4. ~Dead(t, NULL)
    BY NullsApart DEF Dead
  <1>5. ~Dead(t, h)
    <2>1. CASE i = 1
      BY <1>1, <1>3, <1>4, <2>1
    <2>2. CASE i # 1
      <3>1. 2 \in 2 .. Len(l) /\ 2 - 1 = 1
        BY <1>1, <1>3, <2>2
      <3> QED BY <1>1, <1>2, <3>1
    <2> QED BY <2>1, <2>2
  <1>6. ASSUME h \in Nodes
        PROVE  2 \in DOMAIN l /\ l[2] = mem[t][h].next /\ ~Dead(t, l[2])
    <2>1. i # 1
      BY <1>1, <1>3, <1>6, NullsApart
    <2>2. 2 \in 2 .. Len(l) /\ 2 - 1 = 1
      BY <1>1, <1>3, <2>1
    <2>3. l[2] = mem[t][h].next
      BY <1>1, <1>2, <2>2
    <2>4. CASE i = 2
      BY <1>1, <1>3, <1>4, <2>2, <2>3, <2>4
    <2>5. CASE i # 2
      <3>1. 3 \in 2 .. Len(l) /\ 3 - 1 = 2
        BY <1>1, <1>3, <2>1, <2>5
      <3> QED BY <1>1, <1>2, <2>2, <2>3, <3>1
    <2> QED BY <2>4, <2>5
  <1>7. ~Broken(t)
    BY <1>5, <1>6 DEF Broken
  <1> QED BY <1>1, <1>6, <1>7 DEF InList, l

\* The nodes that are left at the end are freed, and the last round has
\* passed over them all.
LEMMA EndCleanFree ==
  ASSUME StorageInv, EndInv, NEW t \in Threads, CleanFree(t)
  PROVE  EndInv'
  <1> DEFINE row == [n \in Nodes |-> IF InList(t, n) THEN [mem[t][n] EXCEPT !.state = "freed"]
                                                     ELSE mem[t][n]]
  <1>1. /\ ~undefined /\ thread[t].pc = "clean" /\ thread[t].node = NULL
        /\ RoundsOver(t) /\ Whole(t) /\ TypeOK
        /\ UNCHANGED <<live, dtor, created, last, undefined>>
        /\ mem' = [mem EXCEPT ![t] = row]
        /\ ends' = [ends EXCEPT ![t] = [head |-> NULL, tail |-> NULL]]
        /\ thread' = [thread EXCEPT ![t].pc = "ended"]
    BY DEF CleanFree, Cleans, StorageInv
  <1>2. \A n \in Nodes :
          row[n].state = IF InList(t, n) THEN "freed" ELSE mem[t][n].state
    BY <1>1 DEF TypeOK
  <1> HIDE DEF row
  <1>3. /\ \A n \in Nodes : mem'[t][n].state = IF InList(t, n) THEN "freed" ELSE mem[t][n].state
        /\ \A u \in Threads \ {t} : mem'[u] = mem[u] /\ ends'[u] = ends[u]
    BY <1>1, <1>2 DEF TypeOK
  <1>4. /\ thread'[t].pc = "ended" /\ thread'[t].round = thread[t].round
        /\ \A u \in Threads \ {t} : thread'[u] = thread[u]
    BY <1>1 DEF TypeOK
  <1>5. ASSUME FewNodes(t)' PROVE CleanEnd(t)'
    <2>1. FewNodes(t)
      <3>1. Made(t) \subseteq Made(t)'
        BY <1>3 DEF Made
      <3> QED BY <1>5, <3>1, FewStays
    <2>2. ListShape(t) /\ Cleaning(t)
      BY <1>1, <2>1 DEF EndInv, EndOf
    <2>3. /\ ~Broken(t) /\ InList(t, ends[t].head)
          /\ ends[t].head \in Nodes => InList(t, mem[t][ends[t].head].next)
      BY <1>1, WholeList
    <2>4. \A n \in Nodes : Used(t, n) => InList(t, n)
      BY <2>2, <2>3 DEF ListShape
    <2>5. \A n \in Nodes : ~Used(t, n)'
      BY <1>3, <2>4 DEF Used
    <2>6. ASSUME NEW k \in live, dtor[k], thread[t].round < Iterations PROVE last[t][k] = NULL
      <3>1. ~thread[t].again
        BY <1>1, <2>6, TssAssumption DEF RoundsOver, TypeOK
      <3>2. Current(k) \in Nodes /\ Current(k) # NULL
        BY CurrentIsNode, NullsApart
      <3>3. ends[t].head = NULL => ~Used(t, Current(k))
        BY <2>2, <2>3, <3>2, NullsApart DEF ListShape
      <3> QED BY <1>1, <2>2, <2>3, <2>6, <3>1, <3>2, <3>3 DEF Cleaning
    <2> QED BY <1>1, <1>4, <2>5, <2>6 DEF CleanEnd
  <1>6. NodesOf(t)' /\ EndOf(t)'
    BY <1>4, <1>5 DEF NodesOf, EndOf
  <1>7. SameKeys /\ \A u \in Threads \ {t} : Untouched(u)
    BY <1>1, <1>3, <1>4 DEF SameKeys, Untouched
  <1> QED BY <1>6, <1>7, EndStep

\* What is undefined says nothing of the threads that have not ended.
LEMMA EndCleanMisstep ==
  ASSUME StorageInv, EndInv, NEW t \in Threads, CleanMisstep(t)
  PROVE  EndInv'
  <1>1. undefined' = TRUE /\ UNCHANGED <<live, dtor, created, mem, ends, last, thread>>
    BY DEF CleanMisstep
  <1>2. ASSUME NEW u \in Threads PROVE NodesOf(u)' /\ EndOf(u)'
    BY <1>1 DEF EndInv, NodesOf, EndOf, FewNodes, Made, CleanEnd, Used, Current
  <1> QED BY <1>2 DEF EndInv

LEMMA EndSame ==
  ASSUME EndInv, UNCHANGED vars
  PROVE  EndInv'
  <1>1. UNCHANGED <<live, dtor, created, mem, ends, last, thread, undefined>>
    BY DEF vars
  <1>2. ASSUME NEW u \in Threads PROVE NodesOf(u)' /\ EndOf(u)'
    <2>1. NodesOf(u) /\ EndOf(u)
      BY DEF EndInv
    <2>2. (FewNodes(u)' <=> FewNodes(u)) /\ KeepStep(u)
      BY <1>1 DEF FewNodes, Made, KeepStep
    <2>3. (Cleaning(u)' <=> Cleaning(u)) /\ (CleanEnd(u)' <=> CleanEnd(u))
      BY <1>1 DEF Cleaning, CleanEnd, Broken, Dead, Used, Current
    <2>4. NodesOf(u)'
      BY <1>1, <2>1 DEF NodesOf, Current
    <2> QED BY <1>1, <2>1, <2>2, <2>3, <2>4, ShapeKept DEF EndOf
  <1> QED BY <1>2 DEF EndInv

LEMMA EndNext == StorageInv /\ EndInv /\ [Next]_vars => EndInv'
  <1> SUFFICES ASSUME StorageInv, EndInv, [Next]_vars PROVE EndInv'
    OBVIOUS
  <1>1. CASE \E k \in Keys, d \in BOOLEAN : Create(k, d)
    BY <1>1, EndCreate
  <1>2. CASE \E t \in Threads, k \in Keys, v \in Values \cup {NULL} : Set(t, k, v)
    BY <1>2, EndSet
  <1>3. CASE \E t \in Threads, k \in Keys : SetFails(t, k) \/ Delete(t, k)
    BY <1>3, EndSetFails, EndDelete
  <1>4. CASE \E t \in Threads : Exit(t)
    BY <1>4, EndExit
  <1>5. CASE \E t \in Threads : Cleanup(t)
    BY <1>5, EndCleanValue, EndCleanNext, EndCleanOther, EndCleanRound, EndCleanFree,
       EndCleanMisstep
    DEF Cleanup
  <1>6. CASE UNCHANGED vars
    BY <1>6, EndSame
  <1> QED BY <1>1, <1>2, <1>3, <1>4, <1>5, <1>6 DEF Next

\* A thread that has ended has called the destructors of the values it left,
\* unless the rounds were used up, and freed its nodes, and what thrd_join
\* returns is the result of such a thread: _tinycthread_tss_cleanup runs
\* before thrd_exit, and before _thrd_wrapper_function returns.
THEOREM ThrdEndsClean == ThrdSpec => []EndsClean
  <1>1. ThrdInit => Init
    BY DEF ThrdInit
  <1>2. ThrdSpec => []EndInv
    BY <1>1, StorageInit, StorageNext, EndInit, EndNext, ThrdStepsStorage, PTL DEF ThrdSpec
  <1>3. StorageInv /\ EndInv /\ Joined => EndsClean
    <2> SUFFICES ASSUME StorageInv, EndInv, Joined PROVE DtorsRun /\ NothingLeaks
      BY DEF EndsClean, Joined
    <2>1. \A t \in Threads : thread[t].pc = "ended" /\ FewNodes(t) => CleanEnd(t)
      BY DEF EndInv, EndOf
    <2>2. DtorsRun
      BY <2>1 DEF DtorsRun, CleanEnd
    <2>3. NothingLeaks
      BY <2>1 DEF NothingLeaks, CleanEnd, Used, StorageInv
    <2> QED BY <2>2, <2>3
  <1> QED BY <1>2, <1>3, ThrdStorageInvariant, ThrdJoinReturnsResult, PTL
==============================================================================
