-------------------------------- MODULE FtEnv --------------------------------
(***************************************************************************)
(* An environment (VM/Ft_env.c): an array of bindings of names to objects, *)
(* used with nothing but FtEnv_Set and FtEnv_Find.  The array is that of   *)
(* FtArray, whose other users call its operations themselves; the variable *)
(* `use` says which kind of user it has.                                   *)
(*                                                                         *)
(* An environment has a parent, but nothing is ever looked up there:       *)
(* FtEnv_Find follows the chain of parents and searches the array of the   *)
(* environment it was called with once for each of them.  So the parent is *)
(* no part of the state, and a search is one of the array.                 *)
(*                                                                         *)
(* An element is eight bytes longer than the binding in it, so FtEnv_Set   *)
(* copies eight bytes that follow the binding on its stack, too.  Nothing  *)
(* reads them in the element, and they are left out.                       *)
(***************************************************************************)
EXTENDS FtArray, FiniteSetsExt

CONSTANTS
  NameOf,   \* the name in each binding: the values of an environment's array
  NULL      \* the result of a search that finds nothing

ASSUME EnvAssumption == DOMAIN NameOf = Values /\ NULL \notin Values

VARIABLES
  use,     \* is the array an "array" or an "env"?
  bound    \* the binding FtEnv_Set was last given for each name, or NULL

envVars == <<vars, use, bound>>

Names == { NameOf[v] : v \in Values }

\* FtEnv_Init and FtEnv_InitChild.
EnvInit ==
  /\ Init
  /\ use \in {"array", "env"}
  /\ bound = [n \in Names |-> NULL]

\* Where the array has a binding of the name.
Places(n) == { i \in 1 .. len : NameOf[block[i]] = n }

\* Mutant of FtEnv_Set: a binding is added for a name that has one.
SetAppends(v) ==
  /\ FtAppend(v)
  /\ bound' = IF fault' = "none" THEN [bound EXCEPT ![NameOf[v]] = v] ELSE bound

\* The first binding of the name is replaced, or one is appended.
FtEnv_Set(v) ==
  LET places == Places(NameOf[v])
  IN /\ IF places = {} THEN FtAppend(v) ELSE Set(Min(places) - 1, v)
     /\ bound' = IF fault' = "none" THEN [bound EXCEPT ![NameOf[v]] = v] ELSE bound

FtEnv_Find(n) == IF Places(n) = {} THEN NULL ELSE block[Min(Places(n))]

EnvNext ==
  /\ \/ use = "array" /\ Next /\ UNCHANGED bound
     \/ use = "env" /\ \E v \in Values : FtEnv_Set(v)
  /\ UNCHANGED use

EnvSpec == EnvInit /\ [][EnvNext]_envVars

------------------------------------------------------------------------------
(* Properties                                                               *)

\* FtEnv_Find returns what FtEnv_Set was last given for the name, and finds
\* no name that was not set, however the array has grown in between.
FindReturnsBound == use = "env" => \A n \in Names : FtEnv_Find(n) = bound[n]
==============================================================================
