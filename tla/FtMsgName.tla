------------------------------ MODULE FtMsgName ------------------------------
(***************************************************************************)
(* The table of message names of VM/Ft_msg.c.                              *)
(*                                                                         *)
(* FtMsgName_Find turns a string into the address of an entry of the       *)
(* table, and messages, handlers and caches compare these addresses and    *)
(* never the strings.  An address is the block the table was in and the    *)
(* index of the entry: the table moves when it grows.  A string is where   *)
(* its bytes are and what they spell.  One thread uses the table.          *)
(***************************************************************************)
EXTENDS Naturals, Sequences

CONSTANTS
  Strs,       \* the strings (Ft_Str) the program asks for
  Val, Text,  \* where a string is, and what it spells
  TableCap,   \* DEFAULT_CAP of Ft_array.c, 32
  MaxNames    \* bound of the model on the entries

ASSUME MsgNameAssumption ==
  /\ TableCap \in Nat \ {0} /\ MaxNames \in Nat

\* Bytes are not written to after they were used for a string, nor used for
\* strings of different lengths.
ASSUME StrAssumption ==
  \A s, u \in Strs : Val[s] = Val[u] => Text[s] = Text[u]

VARIABLES
  msgNames,  \* the string of each entry
  table,     \* the array of entries: [cap, block]
  handed     \* which address FtMsgName_Find returned for which string

tableVars == <<msgNames, table, handed>>

\* Mutant of FtStr_Eq: only what is at the same place is equal.
FtStr_EqVal(l, r) == Val[l] = Val[r]

FtStr_Eq(l, r) == Val[l] = Val[r] \/ Text[l] = Text[r]

\* msgNames_Init.
TableInit ==
  /\ msgNames = <<>>
  /\ table = [cap |-> TableCap, block |-> 0]
  /\ handed = {}

Entry(i, block) == [idx |-> i, block |-> block]

\* Mutant of Append1: the table is moved for every entry.
Append1Moved(s) ==
  /\ msgNames' = Append(msgNames, s)
  /\ table' = [cap |-> 2 * table.cap, block |-> table.block + 1]

\* FtArr_Append: a full table moves to twice the room.
Append1(s) ==
  /\ msgNames' = Append(msgNames, s)
  /\ table' = IF Len(msgNames) = table.cap
              THEN [cap |-> 2 * table.cap, block |-> table.block + 1]
              ELSE table

\* Is i the first entry that equals s?
FirstEqual(s, i) ==
  /\ i \in DOMAIN msgNames /\ FtStr_Eq(s, msgNames[i])
  /\ \A j \in 1 .. i - 1 : ~FtStr_Eq(s, msgNames[j])

Unknown(s) == \A i \in DOMAIN msgNames : ~FtStr_Eq(s, msgNames[i])

\* FtMsgName_Find(s) returns the entry e.
Find(s, e) ==
  \/ /\ \E i \in DOMAIN msgNames : FirstEqual(s, i) /\ e = Entry(i, table.block)
     /\ UNCHANGED <<msgNames, table>>
  \/ /\ Unknown(s)
     /\ Len(msgNames) < MaxNames
     /\ Append1(s)
     /\ e = Entry(Len(msgNames)', table.block')

Entries == { Entry(i, b) : i \in 1 .. MaxNames, b \in 0 .. MaxNames }

FtMsgName_Find(s) ==
  \E e \in Entries : Find(s, e) /\ handed' = handed \cup { [str |-> s, entry |-> e] }

TableNext == \E s \in Strs : FtMsgName_Find(s)

TableSpec == TableInit /\ [][TableNext]_tableVars

------------------------------------------------------------------------------
(* Properties                                                               *)

\* Type correctness; what was handed out is an entry the table has.
TableTypeOK ==
  /\ msgNames \in Seq(Strs)
  /\ table \in [cap : Nat \ {0}, block : Nat]
  /\ handed \subseteq [str : Strs, entry : [idx : DOMAIN msgNames, block : Nat]]

\* The table has no two entries for one text, and what was handed out for a
\* string spells it: two strings have one index if and only if they spell
\* the same, whenever they were asked for.
OneIndexPerText ==
  \A g, h \in handed : Text[g.str] = Text[h.str] <=> g.entry.idx = h.entry.idx

\* Comparing addresses (VM/Ft_object.c:92) is comparing texts, as long as the
\* program has no more names than the table had room for at first.
AddressesCompareTexts ==
  Len(msgNames) <= TableCap =>
    \A g, h \in handed : Text[g.str] = Text[h.str] <=> g.entry = h.entry
==============================================================================
