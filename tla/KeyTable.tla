------------------------------ MODULE KeyTable ------------------------------
(***************************************************************************)
(* The encryption keys of kernel/sys.c: one global key and BROJ keys of    *)
(* single processes, each with the second at which it expires.             *)
(*                                                                         *)
(* A process is known by its slot of the task table.  sys_keyset runs in   *)
(* process context, funkcija in the clock interrupt, which comes between   *)
(* any two of its statements: kset is where a sys_keyset stands when that  *)
(* matters.  Nothing here is cleared when a process exits.                 *)
(***************************************************************************)
EXTENDS Integers, FiniteSets, Sequences, FiniteSetsExt

CONSTANTS
  Slots,        \* slots of the task table
  BROJ,         \* keys of processes
  Keys,         \* the keys users choose: sequences of character codes
  LocalLife,    \* seconds a process's key lasts (45 in the code)
  GlobalLife,   \* seconds the global key lasts (120)
  MaxTime       \* bound: the last second that is looked at

ASSUME KeyTableAssumption ==
  /\ BROJ \in Nat \ {0} /\ {LocalLife, GlobalLife} \subseteq Nat \ {0, 1}
  /\ MaxTime \in Nat
  /\ \A k \in Keys : k \in Seq(Nat \ {0})
  /\ Slots \subseteq Nat

VARIABLES
  seconds,              \* jiffies / HZ
  nizProcesIDova,       \* slot of the task table -> place of its key, or -1
  nizProcesVremena,     \* place -> second of expiry, or -1
  nizSlobodnih,         \* the free places
  nizProcesa,           \* place -> key
  global_key, brojacGlobal,
  prviSledeciBrojac,    \* the second of the next look at the table, or -1
  kset,                 \* the sys_keyset under way
  wild                  \* whether a table was written at index -1

keyVars == <<seconds, nizProcesIDova, nizProcesVremena, nizSlobodnih,
             nizProcesa, global_key, brojacGlobal, prviSledeciBrojac, kset,
             wild>>

Places == 0..(BROJ - 1)
NoKey == <<>>
Idle == [at |-> "none"]

KeyInit ==
  /\ seconds = 0
  /\ nizProcesIDova = [s \in Slots |-> -1]
  /\ nizProcesVremena = [j \in Places |-> -1]
  /\ nizSlobodnih = Places
  /\ nizProcesa = [j \in Places |-> NoKey]
  /\ global_key = NoKey /\ brojacGlobal = -1
  /\ prviSledeciBrojac = -1
  /\ kset = Idle
  /\ wild = FALSE

\* The length of a key must be a power of two up to 512.
PowerOfTwo(n) == n \in {1, 2, 4, 8, 16, 32, 64, 128, 256, 512}

\* The key in force for s, and whose it is: its own, or else the global one.
CurrentKey(s) ==
  IF nizProcesIDova[s] # -1 THEN nizProcesa[nizProcesIDova[s]] ELSE global_key

---------------------------------------------------------------------------
\* sys_keyset(0, k).
KeysetGlobal(k) ==
  /\ PowerOfTwo(Len(k))
  /\ global_key' = k
  /\ brojacGlobal' = seconds + GlobalLife
  /\ UNCHANGED <<seconds, nizProcesIDova, nizProcesVremena, nizSlobodnih,
                 nizProcesa, prviSledeciBrojac, kset, wild>>

\* sys_keyset(1, k) finds the process's place, or takes the last free one,
\* and writes the place into nizProcesIDova before anything else.  With no
\* place left the kernel panics: the step does not exist.
KeysetLocal(s, k) ==
  /\ PowerOfTwo(Len(k))
  /\ IF nizProcesIDova[s] # -1
       THEN /\ kset' = [at |-> "renew", s |-> s, key |-> k,
                        due |-> seconds + LocalLife]
            /\ UNCHANGED nizProcesIDova
       ELSE /\ nizSlobodnih # {}
            /\ nizProcesIDova' = [nizProcesIDova EXCEPT ![s] = Max(nizSlobodnih)]
            /\ kset' = [at |-> "claim", s |-> s, key |-> k,
                        due |-> seconds + LocalLife, place |-> Max(nizSlobodnih)]
  /\ UNCHANGED <<seconds, nizProcesVremena, nizSlobodnih, nizProcesa,
                 global_key, brojacGlobal, prviSledeciBrojac, wild>>

\* The rest of sys_keyset for a key that is replaced.  If the clock interrupt
\* took the place away meanwhile, both arrays are written at index -1.
KeysetRenew ==
  /\ kset.at = "renew"
  /\ LET j == nizProcesIDova[kset.s]
     IN IF j = -1
          THEN wild' = TRUE /\ UNCHANGED <<nizProcesa, nizProcesVremena>>
          ELSE /\ nizProcesa' = [nizProcesa EXCEPT ![j] = kset.key]
               /\ nizProcesVremena' = [nizProcesVremena EXCEPT ![j] = kset.due]
               /\ UNCHANGED wild
  /\ kset' = Idle
  /\ UNCHANGED <<seconds, nizProcesIDova, nizSlobodnih, global_key,
                 brojacGlobal, prviSledeciBrojac>>

\* A broken variant: the next look is not brought forward.
NextLookKept(due) == prviSledeciBrojac

\* When the table is looked at next once a key expires at due.
NextLook(due) ==
  IF prviSledeciBrojac = -1 \/ prviSledeciBrojac > due
    THEN due ELSE prviSledeciBrojac

\* The rest of sys_keyset for a new key.
KeysetClaim ==
  /\ kset.at = "claim"
  /\ LET j == nizProcesIDova[kset.s]
     IN IF j = -1
          THEN wild' = TRUE /\ UNCHANGED nizProcesVremena
          ELSE /\ nizProcesVremena' = [nizProcesVremena EXCEPT ![j] = kset.due]
               /\ UNCHANGED wild
  /\ nizSlobodnih' = nizSlobodnih \ {kset.place}
  /\ nizProcesa' = [nizProcesa EXCEPT ![kset.place] = kset.key]
  /\ prviSledeciBrojac' = NextLook(kset.due)
  /\ kset' = Idle
  /\ UNCHANGED <<seconds, nizProcesIDova, global_key, brojacGlobal>>

KeyclearGlobal ==
  /\ brojacGlobal' = -1 /\ global_key' = NoKey
  /\ UNCHANGED <<seconds, nizProcesIDova, nizProcesVremena, nizSlobodnih,
                 nizProcesa, prviSledeciBrojac, kset, wild>>

\* sys_keyclear(1).
KeyclearLocal(s) ==
  /\ nizProcesIDova[s] # -1
  /\ nizSlobodnih' = nizSlobodnih \cup {nizProcesIDova[s]}
  /\ nizProcesa' = [nizProcesa EXCEPT ![nizProcesIDova[s]] = NoKey]
  /\ nizProcesVremena' = [nizProcesVremena EXCEPT ![nizProcesIDova[s]] = -1]
  /\ nizProcesIDova' = [nizProcesIDova EXCEPT ![s] = -1]
  /\ UNCHANGED <<seconds, global_key, brojacGlobal, prviSledeciBrojac, kset,
                 wild>>

\* One second passes: funkcija, in the clock interrupt.  The table is only
\* looked at when the earliest key known is due.
Funkcija ==
  LET t == seconds'
      due == {s \in Slots : nizProcesIDova[s] # -1
                            /\ nizProcesVremena[nizProcesIDova[s]] <= t}
      gone == {nizProcesIDova[s] : s \in due}
      left == {nizProcesVremena[nizProcesIDova[s]] :
                 s \in {r \in Slots \ due : nizProcesIDova[r] # -1}} \ {-1}
  IN /\ IF brojacGlobal <= t /\ brojacGlobal # -1
          THEN global_key' = NoKey /\ brojacGlobal' = -1
          ELSE UNCHANGED <<global_key, brojacGlobal>>
     /\ IF prviSledeciBrojac > t \/ prviSledeciBrojac = -1
          THEN UNCHANGED <<nizProcesIDova, nizProcesVremena, nizSlobodnih,
                           nizProcesa, prviSledeciBrojac>>
          ELSE /\ nizProcesVremena' =
                    [j \in Places |-> IF j \in gone THEN -1 ELSE nizProcesVremena[j]]
               /\ nizSlobodnih' = nizSlobodnih \cup gone
               /\ nizProcesa' =
                    [j \in Places |-> IF j \in gone THEN NoKey ELSE nizProcesa[j]]
               /\ nizProcesIDova' =
                    [s \in Slots |-> IF s \in due THEN -1 ELSE nizProcesIDova[s]]
               /\ prviSledeciBrojac' = IF left = {} THEN -1 ELSE Min(left)

\* A sys_keyset that the interrupt hits is done before the next one.
Clock ==
  /\ seconds < MaxTime
  /\ IF kset = Idle THEN TRUE ELSE seconds = kset.due - LocalLife
  /\ seconds' = seconds + 1
  /\ Funkcija
  /\ UNCHANGED <<kset, wild>>

---------------------------------------------------------------------------
(* Properties.                                                             *)

KeyTypeOK ==
  /\ seconds \in 0..MaxTime
  /\ nizProcesIDova \in [Slots -> Places \cup {-1}]
  /\ nizProcesVremena \in [Places -> -1..(MaxTime + LocalLife)]
  /\ nizSlobodnih \subseteq Places
  /\ nizProcesa \in [Places -> Keys \cup {NoKey}]
  /\ global_key \in Keys \cup {NoKey}
  /\ brojacGlobal \in -1..(MaxTime + GlobalLife)
  /\ prviSledeciBrojac \in -1..(MaxTime + LocalLife)
  /\ wild \in BOOLEAN

\* The slots with a key, apart from one that sys_keyset is still filling in.
Holding ==
  {s \in Slots : nizProcesIDova[s] # -1
                 /\ ~(kset.at = "claim" /\ kset.s = s)}

\* No key outlives its time and no place is lost: unless an interrupt fell
\* into sys_keyset's window, a place is taken exactly when one slot holds it,
\* and the next look at the table comes no later than the first expiry, so
\* that no key set, replaced or cleared in between is missed (sys_keyset,
\* sys_keyclear and funkcija keep five arrays and a minimum in step).
KeysExpire ==
  wild \/
  /\ \A j \in Places \ nizSlobodnih :
       Cardinality({s \in Holding : nizProcesIDova[s] = j}) = 1
  /\ \A s \in Holding :
       /\ nizProcesIDova[s] \notin nizSlobodnih
       /\ nizProcesa[nizProcesIDova[s]] # NoKey
       /\ nizProcesVremena[nizProcesIDova[s]] > seconds
       /\ prviSledeciBrojac \in 0..nizProcesVremena[nizProcesIDova[s]]
=============================================================================
