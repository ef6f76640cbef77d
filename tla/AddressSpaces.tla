--------------------------- MODULE AddressSpaces ---------------------------
(***************************************************************************)
(* What memory management promises: every task has a memory of its own.    *)
(* A new task starts with a copy of its parent's, and from then on neither *)
(* sees what the other writes.  Module Memory implements it with pages that*)
(* are shared until they are written to.                                   *)
(*                                                                         *)
(* The promise has an exception: what the kernel stores without verifying  *)
(* the place first may be seen in other tasks; unverified counts that.     *)
(***************************************************************************)
EXTENDS Naturals

CONSTANTS Tasks, Addresses, Values, Zero

VARIABLES
  space,        \* space[t][a]
  unverified

spaceVars == <<space, unverified>>

Cleared == [a \in Addresses |-> Zero]

Init == space = [t \in Tasks |-> Cleared] /\ unverified = 0

Fork(t, u) ==
  /\ space[u] = Cleared
  /\ space' = [space EXCEPT ![u] = space[t]]
  /\ UNCHANGED unverified

Store(t, a, v) ==
  /\ space' = [space EXCEPT ![t][a] = v]
  /\ UNCHANGED unverified

\* exec and exit.
Clear(t) ==
  /\ space' = [space EXCEPT ![t] = Cleared]
  /\ UNCHANGED unverified

StoreUnverified(t, a, v) ==
  /\ unverified' = unverified + 1
  /\ \E others \in SUBSET {u \in Tasks : space[u][a] = space[t][a]} :
       space' = [u \in Tasks |-> IF u = t \/ u \in others
                                   THEN [space[u] EXCEPT ![a] = v] ELSE space[u]]

Next ==
  \E t \in Tasks :
    \/ \E u \in Tasks \ {t} : Fork(t, u)
    \/ \E a \in Addresses, v \in Values : Store(t, a, v) \/ StoreUnverified(t, a, v)
    \/ Clear(t)

Spec == Init /\ [][Next]_spaceVars
=============================================================================
