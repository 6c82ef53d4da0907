--------------------------- MODULE FtMsgNameProofs ---------------------------
(***************************************************************************)
(* Proofs about the table of message names and the messages built on it,   *)
(* for any strings, any initial room of the table, any lists of arguments, *)
(* and any bounds of the model.                                            *)
(*                                                                         *)
(* The properties of the table speak of addresses handed out at different  *)
(* times.  They follow from what relates each of them to the table as it   *)
(* is now: the entry an address names still spells what was asked for      *)
(* (Spells), no two entries spell the same (Distinct), and a table that    *)
(* never had more entries than room is still in its first block            *)
(* (InFirstBlock).  A message takes steps of the table and no others       *)
(* (MsgStepsTable), and keeps the arguments within its places because a    *)
(* dynamic one always has a place to double (Roomy).                       *)
(***************************************************************************)
EXTENDS FtMsg, TLAPS

\* An address that was handed out names an entry with the text asked for.
Spells == \A h \in handed : Text[msgNames[h.entry.idx]] = Text[h.str]

\* No two entries have one text.
Distinct ==
  \A i, j \in DOMAIN msgNames : Text[msgNames[i]] = Text[msgNames[j]] => i = j

\* The table is in its first block, and so is all that was handed out, until
\* it has more entries than it had room for.
InFirstBlock ==
  Len(msgNames) <= TableCap =>
    /\ table.cap = TableCap /\ table.block = 0
    /\ \A h \in handed : h.entry.block = 0

NameInv == TableTypeOK /\ Spells /\ Distinct /\ InFirstBlock

\* FtStr_Eq compares texts, although it does not look at them when the two
\* strings are at one place (VM/Ft_str.c:21).
LEMMA EqComparesTexts ==
  ASSUME NEW s \in Strs, NEW u \in Strs
  PROVE  FtStr_Eq(s, u) <=> Text[s] = Text[u]
BY StrAssumption DEF FtStr_Eq

\* The invariant holds of the empty table msgNames_Init makes.
LEMMA NameInit == TableInit => NameInv
BY MsgNameAssumption DEF TableInit, NameInv, TableTypeOK, Spells, Distinct, InFirstBlock

\* What FtMsgName_Find does when an entry equals the string, and when none
\* does.
Known(s) ==
  \E i \in DOMAIN msgNames :
    /\ FirstEqual(s, i)
    /\ UNCHANGED <<msgNames, table>>
    /\ handed' = handed \cup { [str |-> s, entry |-> Entry(i, table.block)] }

Added(s) ==
  /\ Unknown(s)
  /\ Append1(s)
  /\ handed' = handed \cup { [str |-> s, entry |-> Entry(Len(msgNames)', table.block')] }

\* A call of FtMsgName_Find is one of the two.
LEMMA FindCases ==
  ASSUME NEW s \in Strs, FtMsgName_Find(s)
  PROVE  Known(s) \/ Added(s)
BY DEF FtMsgName_Find, Find, Known, Added

\* A string found in the table changes only what was handed out.
LEMMA KnownKeeps ==
  ASSUME NEW s \in Strs, NameInv, Known(s)
  PROVE  NameInv'
<1>1. PICK i \in DOMAIN msgNames :
        /\ FirstEqual(s, i)
        /\ UNCHANGED <<msgNames, table>>
        /\ handed' = handed \cup { [str |-> s, entry |-> Entry(i, table.block)] }
  BY DEF Known
<1>2. msgNames[i] \in Strs
  BY DEF NameInv, TableTypeOK
<1>3. Text[msgNames[i]] = Text[s]
  BY <1>1, <1>2, EqComparesTexts DEF FirstEqual
<1>4. TableTypeOK'
  BY <1>1 DEF NameInv, TableTypeOK, Entry
<1>5. Spells'
  BY <1>1, <1>3 DEF NameInv, Spells, Entry
<1>6. Distinct'
  BY <1>1 DEF NameInv, Distinct
<1>7. InFirstBlock'
  BY <1>1 DEF NameInv, InFirstBlock, Entry
<1>8. QED
  BY <1>4, <1>5, <1>6, <1>7 DEF NameInv

\* A string that is not in the table becomes its last entry; the entries
\* handed out before keep their index.
LEMMA AddedKeeps ==
  ASSUME NEW s \in Strs, NameInv, Added(s)
  PROVE  NameInv'
<1> DEFINE n == Len(msgNames)
<1>1. msgNames \in Seq(Strs) /\ n \in Nat
  BY DEF NameInv, TableTypeOK
<1>2. msgNames' \in Seq(Strs) /\ Len(msgNames') = n + 1
  BY <1>1 DEF Added, Append1
<1>3. DOMAIN msgNames = 1 .. n /\ DOMAIN msgNames' = 1 .. n + 1
  BY <1>1, <1>2
<1>4. msgNames'[n + 1] = s /\ \A i \in 1 .. n : msgNames'[i] = msgNames[i]
  BY <1>1 DEF Added, Append1
<1>5. \A i \in 1 .. n : Text[msgNames[i]] # Text[s]
  <2>1. TAKE i \in 1 .. n
  <2>2. msgNames[i] \in Strs
    BY <1>1
  <2>3. QED
    BY <1>3, <2>2, EqComparesTexts DEF Added, Unknown
<1>6. handed' = handed \cup { [str |-> s, entry |-> [idx |-> n + 1, block |-> table'.block]] }
  BY <1>2 DEF Added, Entry
<1>7. table' \in [cap : Nat \ {0}, block : Nat]
  BY MsgNameAssumption DEF NameInv, TableTypeOK, Added, Append1
<1>8. \A h \in handed : h.entry.idx \in 1 .. n
  BY <1>3 DEF NameInv, TableTypeOK
<1>9. TableTypeOK'
  <2>1. handed \subseteq [str : Strs, entry : [idx : 1 .. n + 1, block : Nat]]
    BY <1>1, <1>3 DEF NameInv, TableTypeOK
  <2>2. [str |-> s, entry |-> [idx |-> n + 1, block |-> table'.block]]
          \in [str : Strs, entry : [idx : 1 .. n + 1, block : Nat]]
    BY <1>1, <1>7
  <2>3. QED
    BY <1>2, <1>3, <1>6, <1>7, <2>1, <2>2 DEF TableTypeOK
<1>10. Spells'
  BY <1>4, <1>6, <1>8 DEF NameInv, Spells
<1>11. Distinct'
  BY <1>1, <1>3, <1>4, <1>5 DEF NameInv, Distinct
<1>12. InFirstBlock'
  <2>1. SUFFICES ASSUME n + 1 <= TableCap
                 PROVE  /\ table'.cap = TableCap /\ table'.block = 0
                        /\ \A h \in handed' : h.entry.block = 0
    BY <1>2 DEF InFirstBlock
  <2>2. n # TableCap /\ n <= TableCap
    BY <1>1, <2>1, MsgNameAssumption
  <2>3. table.cap = TableCap /\ table.block = 0 /\ \A h \in handed : h.entry.block = 0
    BY <2>2 DEF NameInv, InFirstBlock
  <2>4. table' = table
    BY <2>2, <2>3 DEF Added, Append1
  <2>5. QED
    BY <1>6, <2>3, <2>4
<1>13. QED
  BY <1>9, <1>10, <1>11, <1>12 DEF NameInv

LEMMA NameNext == NameInv /\ [TableNext]_tableVars => NameInv'
<1>1. SUFFICES ASSUME NameInv, [TableNext]_tableVars
               PROVE  NameInv'
  OBVIOUS
<1>2. CASE TableNext
  <2>1. PICK s \in Strs : FtMsgName_Find(s)
    BY <1>2 DEF TableNext
  <2>2. QED
    BY <1>1, <2>1, FindCases, KnownKeeps, AddedKeeps
<1>3. CASE UNCHANGED tableVars
  BY <1>1, <1>3 DEF tableVars, NameInv, TableTypeOK, Spells, Distinct, InFirstBlock
<1>4. QED
  BY <1>1, <1>2, <1>3

\* The invariant holds of every table FtMsgName_Find builds.
THEOREM NameInvariant == TableSpec => []NameInv
BY NameInit, NameNext, PTL DEF TableSpec

\* The types are right, and what was handed out stays an entry of the table.
THEOREM MsgNameTypeCorrect == TableSpec => []TableTypeOK
<1>1. NameInv => TableTypeOK
  BY DEF NameInv
<1>2. QED
  BY <1>1, NameInvariant, PTL

\* FtMsgName_Find gives two strings one index if and only if they spell the
\* same, whatever was added in between.
THEOREM MsgNameOneIndexPerText == TableSpec => []OneIndexPerText
<1>1. NameInv => OneIndexPerText
  <2>1. SUFFICES ASSUME NameInv, NEW g \in handed, NEW h \in handed
                 PROVE  Text[g.str] = Text[h.str] <=> g.entry.idx = h.entry.idx
    BY DEF OneIndexPerText
  <2>2. g.entry.idx \in DOMAIN msgNames /\ h.entry.idx \in DOMAIN msgNames
    BY <2>1 DEF NameInv, TableTypeOK
  <2>3. QED
    BY <2>1, <2>2 DEF NameInv, Spells, Distinct
<1>2. QED
  BY <1>1, NameInvariant, PTL

\* While the table has had no more entries than room, comparing addresses is
\* comparing texts.
THEOREM MsgNameAddressesCompareTexts == TableSpec => []AddressesCompareTexts
<1>1. NameInv => AddressesCompareTexts
  <2>1. SUFFICES ASSUME NameInv, Len(msgNames) <= TableCap,
                        NEW g \in handed, NEW h \in handed
                 PROVE  Text[g.str] = Text[h.str] <=> g.entry = h.entry
    BY DEF AddressesCompareTexts
  <2>2. /\ g.entry \in [idx : DOMAIN msgNames, block : Nat]
        /\ h.entry \in [idx : DOMAIN msgNames, block : Nat]
    BY <2>1 DEF NameInv, TableTypeOK
  <2>3. g.entry.block = 0 /\ h.entry.block = 0
    BY <2>1 DEF NameInv, InFirstBlock
  <2>4. g.entry = h.entry <=> g.entry.idx = h.entry.idx
    BY <2>2, <2>3
  <2>5. QED
    BY <2>1, <2>2, <2>4 DEF NameInv, Spells, Distinct
<1>2. QED
  BY <1>1, NameInvariant, PTL

------------------------------------------------------------------------------
(* Messages                                                                 *)

\* A message that is being built or used.
MsgRec ==
  [pc : {"args", "built", "exited"}, fn : Dynamic \cup Static, str : Strs,
   name : [idx : Nat, block : Nat], given : Lists, args : Lists, cap : Nat]

\* A dynamic message has room for at least one argument, so that doubling
\* makes room; a static one keeps the room it was declared with.
Roomy(m) ==
  /\ Len(m.args) <= m.cap
  /\ m.fn \in Dynamic => m.cap # 0
  /\ m.fn \in Static => m.cap = StaticArgs

\* The name is an entry of the table, if the message has looked it up.
HasName(m) ==
  \/ m.name.idx \in DOMAIN msgNames
  \/ m.fn = "FtStaticMsg_InitStr" /\ m.pc # "built"

\* What holds of the message at any time.
MsgInv == msg = NoMsg \/ (msg \in MsgRec /\ Roomy(msg) /\ HasName(msg))

\* A list of arguments is a sequence of them, with its bound.
LEMMA ListsAreSeqs ==
  /\ \A l \in Lists : l \in Seq(Args) /\ Len(l) \in Nat /\ Len(l) <= MaxArgs
  /\ \A l \in Seq(Args) : Len(l) <= MaxArgs => l \in Lists
<1>1. ASSUME NEW l \in Lists
      PROVE  l \in Seq(Args) /\ Len(l) \in Nat /\ Len(l) <= MaxArgs
  <2>1. PICK n \in 0 .. MaxArgs : l \in [1 .. n -> Args]
    BY DEF Lists
  <2>2. n \in Nat /\ n <= MaxArgs
    BY MsgAssumption
  <2> QED
    BY <2>1, <2>2
<1>2. ASSUME NEW l \in Seq(Args), Len(l) <= MaxArgs PROVE l \in Lists
  <2>1. l \in [1 .. Len(l) -> Args] /\ Len(l) \in 0 .. MaxArgs
    BY <1>2, MsgAssumption
  <2> QED
    BY <2>1 DEF Lists
<1> QED
  BY <1>1, <1>2

\* A message that is new has no argument yet.
LEMMA NewMsg ==
  ASSUME NEW fn \in Dynamic \cup Static, NEW s \in Strs,
         NEW e \in [idx : Nat, block : Nat], NEW given \in Lists
  PROVE  /\ New(fn, s, e, given) \in MsgRec /\ Roomy(New(fn, s, e, given))
         /\ New(fn, s, e, given).name = e /\ New(fn, s, e, given).fn = fn
         /\ New(fn, s, e, given).pc = "args"
<1>1. <<>> \in Lists
  <2>1. <<>> \in Seq(Args) /\ Len(<<>>) = 0
    OBVIOUS
  <2>2. Len(<<>>) <= MaxArgs
    BY <2>1, MsgAssumption
  <2> QED
    BY <2>1, <2>2, ListsAreSeqs
<1>2. /\ InitialArgs \in Nat /\ InitialArgs # 0 /\ StaticArgs \in Nat
      /\ \A f \in Static : f \notin Dynamic
  BY MsgAssumption DEF Dynamic, Static
<1> HIDE DEF Lists, Dynamic, Static
<1> DEFINE k == IF fn \in Dynamic THEN InitialArgs ELSE StaticArgs
           r == [pc |-> "args", fn |-> fn, str |-> s, name |-> e, given |-> given,
                 args |-> <<>>, cap |-> k]
<1>3. k \in Nat /\ (fn \in Dynamic => k # 0) /\ (fn \in Static => k = StaticArgs)
  BY <1>2
<1>4. New(fn, s, e, given) = r
  BY DEF New
<1> HIDE DEF k
<1>5. r \in MsgRec /\ r.name = e /\ r.fn = fn /\ r.pc = "args"
  BY <1>1, <1>3 DEF MsgRec
<1>6. Len(r.args) = 0 /\ r.cap = k
  OBVIOUS
<1> HIDE DEF r
<1>7. Roomy(r)
  BY <1>3, <1>5, <1>6 DEF Roomy
<1> QED
  BY <1>4, <1>5, <1>7

\* Building a message takes the steps of the table, and no others.
LEMMA MsgStepsTable ==
  ASSUME MsgInv, [Next]_vars
  PROVE  [TableNext]_tableVars
<1>1. CASE FinishStatic
  <2>1. msg.str \in Strs
    BY <1>1 DEF FinishStatic, NoMoreArgs, MsgInv, NoMsg, MsgRec
  <2> QED
    BY <1>1, <2>1 DEF FinishStatic, TableNext, FtMsgName_Find
<1>2. CASE \E s \in Strs, given \in Lists : StartByString(s, given)
  BY <1>2 DEF StartByString, TableNext, FtMsgName_Find
<1>3. CASE \/ \E s \in Strs, given \in Lists : StartStatic(s, given)
           \/ \E fn \in {"FtMsg_Init", "FtStaticMsg_Init"}, given \in Lists : StartByName(fn, given)
           \/ TakeDynamic \/ TakeStatic \/ Finish \/ FtMsg_Del \/ UNCHANGED vars
  BY <1>3 DEF StartStatic, StartByName, TakeDynamic, TakeStatic, Finish, FtMsg_Del,
              tableVars, vars
<1> QED
  BY <1>1, <1>2, <1>3 DEF Next

\* The invariants hold before the first message, and every step keeps them.
LEMMA MsgInit == Init => NameInv /\ MsgInv
BY NameInit DEF Init, MsgInv

\* The functions that start a message.
LEMMA MsgStart ==
  ASSUME NameInv, NameInv', MsgInv,
         \/ \E s \in Strs, given \in Lists : StartByString(s, given) \/ StartStatic(s, given)
         \/ \E fn \in {"FtMsg_Init", "FtStaticMsg_Init"}, given \in Lists : StartByName(fn, given)
  PROVE  MsgInv'
<1> SUFFICES ASSUME NEW fn \in Dynamic \cup Static, NEW s \in Strs,
                    NEW e \in [idx : Nat, block : Nat], NEW given \in Lists,
                    msg' = New(fn, s, e, given),
                    e.idx \in DOMAIN msgNames' \/ fn = "FtStaticMsg_InitStr"
             PROVE  msg' \in MsgRec /\ Roomy(msg') /\ HasName(msg)'
  <2> USE DEF MsgInv, Dynamic, Static, Roomy
  <2>1. ASSUME NEW s \in Strs, NEW given \in Lists, StartByString(s, given)
        PROVE  \E e \in [idx : Nat, block : Nat] :
                 /\ msg' = New("FtMsg_InitStr", s, e, given)
                 /\ e.idx \in DOMAIN msgNames'
    <3>1. PICK e : /\ msg' = New("FtMsg_InitStr", s, e, given)
                   /\ [str |-> s, entry |-> e] \in handed'
      BY <2>1 DEF StartByString
    <3>2. e \in [idx : DOMAIN msgNames', block : Nat] /\ DOMAIN msgNames' \subseteq Nat
      BY <3>1 DEF NameInv, TableTypeOK
    <3> QED
      BY <3>1, <3>2
  <2>2. ASSUME NEW s \in Strs, NEW given \in Lists, StartStatic(s, given)
        PROVE  /\ msg' = New("FtStaticMsg_InitStr", s, NoName, given)
               /\ NoName \in [idx : Nat, block : Nat]
    BY <2>2 DEF StartStatic, NoName
  <2>3. ASSUME NEW fn \in {"FtMsg_Init", "FtStaticMsg_Init"}, NEW given \in Lists,
               StartByName(fn, given)
        PROVE  \E s \in Strs, e \in [idx : Nat, block : Nat] :
                 /\ msg' = New(fn, s, e, given) /\ e.idx \in DOMAIN msgNames'
    <3>1. PICK h \in handed : msg' = New(fn, h.str, h.entry, given) /\ msgNames' = msgNames
      BY <2>3 DEF StartByName, tableVars
    <3>2. /\ h.str \in Strs /\ h.entry \in [idx : DOMAIN msgNames, block : Nat]
          /\ DOMAIN msgNames \subseteq Nat
      BY DEF NameInv, TableTypeOK
    <3> QED
      BY <3>1, <3>2
  <2> HIDE DEF MsgInv
  <2> QED
    BY <2>1, <2>2, <2>3 DEF MsgInv
<1> QED
  BY NewMsg DEF HasName


\* The steps that place an argument: a dynamic message that is full is doubled
\* first, and a static one that is full is given up.
LEMMA MsgTake ==
  ASSUME MsgInv, TakeDynamic \/ TakeStatic
  PROVE  MsgInv'
<1> DEFINE n == Len(msg.args)
<1>1. msg \in MsgRec /\ Roomy(msg) /\ HasName(msg)
  BY DEF MsgInv, NoMsg, TakeDynamic, TakeStatic, AnotherArg
<1>2. AnotherArg /\ msgNames' = msgNames
  BY DEF TakeDynamic, TakeStatic, tableVars
<1>3. msg.args \in Lists /\ msg.given \in Lists /\ msg.cap \in Nat
  BY <1>1 DEF MsgRec
<1>4. /\ msg.args \in Seq(Args) /\ n \in Nat
      /\ msg.given \in Seq(Args) /\ Len(msg.given) \in Nat /\ Len(msg.given) <= MaxArgs
  BY <1>3, ListsAreSeqs
<1>5. n < Len(msg.given) /\ n <= msg.cap
  BY <1>1, <1>2 DEF AnotherArg, Roomy
<1>6. /\ Placed \in Lists /\ Len(Placed) = n + 1
  <2>1. msg.given[n + 1] \in Args
    BY <1>4, <1>5
  <2>2. Placed \in Seq(Args) /\ Len(Placed) = n + 1
    BY <1>4, <2>1 DEF Placed
  <2>3. n + 1 <= MaxArgs
    BY <1>4, <1>5, MsgAssumption
  <2> QED
    BY <2>2, <2>3, ListsAreSeqs
<1> HIDE DEF Lists
<1>7. CASE TakeDynamic
  <2>1. msg' = [msg EXCEPT !.args = Placed, !.cap = Room] /\ msg.fn \in Dynamic
    BY <1>7 DEF TakeDynamic
  <2>2. msg.cap # 0 /\ msg.fn \notin Static
    BY <1>1, <2>1 DEF Roomy, Dynamic, Static
  <2>3. Room \in Nat /\ Room # 0 /\ n + 1 <= Room
    BY <1>3, <1>4, <1>5, <2>2 DEF Room
  <2>4. /\ msg' \in MsgRec
        /\ msg'.fn = msg.fn /\ msg'.name = msg.name /\ msg'.pc # "built"
        /\ msg'.args = Placed /\ msg'.cap = Room
    BY <1>1, <1>2, <1>6, <2>1, <2>3 DEF MsgRec, AnotherArg
  <2>5. Roomy(msg)'
    BY <1>6, <2>2, <2>3, <2>4 DEF Roomy
  <2> QED
    BY <1>1, <1>2, <2>4, <2>5 DEF MsgInv, HasName
<1>8. CASE TakeStatic /\ n = StaticArgs
  <2>1. /\ msg' \in MsgRec
        /\ msg'.fn = msg.fn /\ msg'.name = msg.name /\ msg'.pc # "built"
        /\ msg'.args = msg.args /\ msg'.cap = msg.cap
    BY <1>1, <1>8 DEF TakeStatic, MsgRec
  <2>2. Roomy(msg)'
    BY <1>1, <2>1 DEF Roomy
  <2> QED
    BY <1>1, <1>2, <2>1, <2>2 DEF MsgInv, HasName
<1>9. CASE TakeStatic /\ n # StaticArgs
  <2>1. msg' = [msg EXCEPT !.args = Placed] /\ msg.fn \in Static
    BY <1>9 DEF TakeStatic
  <2>2. /\ msg' \in MsgRec
        /\ msg'.fn = msg.fn /\ msg'.name = msg.name /\ msg'.pc # "built"
        /\ msg'.args = Placed /\ msg'.cap = msg.cap
    BY <1>1, <1>2, <1>6, <2>1 DEF MsgRec, AnotherArg
  <2>3. n + 1 <= msg.cap
    BY <1>1, <1>3, <1>4, <1>5, <1>9, <2>1 DEF Roomy
  <2>4. Roomy(msg)'
    BY <1>1, <1>6, <2>2, <2>3 DEF Roomy
  <2> QED
    BY <1>1, <1>2, <2>2, <2>4 DEF MsgInv, HasName
<1> QED
  BY <1>7, <1>8, <1>9

\* The steps that end the building of a message and its life.
LEMMA MsgEnd ==
  ASSUME MsgInv, NameInv', Finish \/ FinishStatic \/ FtMsg_Del
  PROVE  MsgInv'
<1>1. ASSUME Finish \/ FinishStatic PROVE msg \in MsgRec /\ Roomy(msg) /\ HasName(msg)
  <2>1. msg.pc = "args" /\ NoMsg.pc # "args"
    BY <1>1 DEF NoMsg, Finish, FinishStatic, NoMoreArgs
  <2> QED
    BY <2>1 DEF MsgInv
<1> HIDE DEF Lists
<1>2. CASE Finish
  <2>1. /\ msg' \in MsgRec /\ msg'.name = msg.name
        /\ msg'.fn = msg.fn /\ msg'.args = msg.args /\ msg'.cap = msg.cap
        /\ msg.fn # "FtStaticMsg_InitStr" /\ msgNames' = msgNames
    BY <1>1, <1>2 DEF Finish, MsgRec, tableVars
  <2>2. Roomy(msg)'
    BY <1>1, <1>2, <2>1 DEF Roomy
  <2>3. msg.name.idx \in DOMAIN msgNames'
    BY <1>1, <1>2, <2>1 DEF HasName
  <2> QED
    BY <2>1, <2>2, <2>3 DEF MsgInv, HasName
<1>3. CASE FinishStatic
  <2>1. PICK e : /\ [str |-> msg.str, entry |-> e] \in handed'
                 /\ msg' = [msg EXCEPT !.pc = "built", !.name = e]
    BY <1>3 DEF FinishStatic
  <2>2. e \in [idx : DOMAIN msgNames', block : Nat] /\ DOMAIN msgNames' \subseteq Nat
    BY <2>1 DEF NameInv, TableTypeOK
  <2>3. e \in [idx : Nat, block : Nat] /\ e.idx \in DOMAIN msgNames'
    BY <2>2
  <2>4. /\ msg' \in MsgRec /\ msg'.name = e
        /\ msg'.fn = msg.fn /\ msg'.args = msg.args /\ msg'.cap = msg.cap
    BY <1>1, <1>3, <2>1, <2>3 DEF MsgRec
  <2>5. Roomy(msg)'
    BY <1>1, <1>3, <2>4 DEF Roomy
  <2> QED
    BY <2>3, <2>4, <2>5 DEF MsgInv, HasName
<1>4. CASE FtMsg_Del
  BY <1>4 DEF FtMsg_Del, MsgInv
<1> QED
  BY <1>2, <1>3, <1>4

LEMMA MsgNext == NameInv /\ MsgInv /\ [Next]_vars => (NameInv /\ MsgInv)'
<1> SUFFICES ASSUME NameInv, MsgInv, [Next]_vars
             PROVE  NameInv' /\ MsgInv'
  OBVIOUS
<1>1. NameInv'
  BY MsgStepsTable, NameNext
<1> SUFFICES MsgInv'
  BY <1>1
<1>2. CASE \/ \E s \in Strs, given \in Lists : StartByString(s, given) \/ StartStatic(s, given)
           \/ \E fn \in {"FtMsg_Init", "FtStaticMsg_Init"}, given \in Lists : StartByName(fn, given)
  BY <1>1, <1>2, MsgStart
<1>3. CASE TakeDynamic \/ TakeStatic
  BY <1>3, MsgTake
<1>4. CASE Finish \/ FinishStatic \/ FtMsg_Del
  BY <1>1, <1>4, MsgEnd
<1>5. CASE UNCHANGED vars
  <2>1. msg' = msg /\ msgNames' = msgNames
    BY <1>5 DEF vars
  <2>2. CASE msg = NoMsg
    BY <2>1, <2>2 DEF MsgInv
  <2>3. CASE msg \in MsgRec /\ Roomy(msg) /\ HasName(msg)
    BY <2>1, <2>3 DEF MsgInv, Roomy, HasName
  <2> QED
    BY <2>2, <2>3 DEF MsgInv
<1> QED
  BY <1>1, <1>2, <1>3, <1>4, <1>5 DEF Next

\* An argument never lands past the places of its message: a dynamic message
\* is doubled when it is full, and the program ends when a static one is.  A
\* message that may be used has a name the table has.
THEOREM MsgPlacedInBlock == Spec => []PlacedInBlock
<1>1. NameInv /\ MsgInv => PlacedInBlock
  <2>1. SUFFICES ASSUME NameInv, MsgInv PROVE PlacedInBlock
    OBVIOUS
  <2>2. CASE msg = NoMsg
    BY <2>1, <2>2 DEF PlacedInBlock, TypeOK, NameInv, NoMsg
  <2>3. CASE msg \in MsgRec /\ Roomy(msg) /\ HasName(msg)
    <3> HIDE DEF Lists
    <3> QED
      BY <2>1, <2>3 DEF PlacedInBlock, TypeOK, NameInv, Roomy, HasName, MsgRec, Built
  <2> QED
    BY <2>1, <2>2, <2>3 DEF MsgInv
<1> QED
  BY <1>1, MsgInit, MsgNext, PTL DEF Spec
==============================================================================
