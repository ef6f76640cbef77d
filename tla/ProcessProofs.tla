--------------------------- MODULE ProcessProofs ---------------------------
(***************************************************************************)
(* The safety of fork, exit and waitpid for every size of the task table   *)
(* and every range of pids; and of sleep_on and wake_up for every set of   *)
(* tasks and of wait queues.                                               *)
(***************************************************************************)
EXTENDS Process, WaitQueue, TLAPS

(* What the invariants need besides each other: a task has a pid.          *)
HasPid == \A s \in Slots : Live(s) => pid[s] # 0

IInv == TypeOK /\ HasPid /\ PidsUnique /\ FatherAlive /\ WaiterInformed

-----------------------------------------------------------------------------

(* The idle task alone satisfies the inductive invariant.                  *)
LEMMA InitIInv == Init => IInv
  BY NAssumption, MaxPidAssumption DEF Init, IInv, TypeOK, HasPid, PidsUnique, FatherAlive, WaiterInformed,
         Slots, Pids, Status, Live, Alive

(* What a pass over the task table may do: release one zombie child, go to *)
(* sleep with children that have all not ended, or nothing.                *)
LEMMA ScanCases ==
  ASSUME NEW s \in Slots, NEW w, Scan(s, w)
  PROVE  \/ \E z \in Slots \ {s} :
              /\ status[z] = "zombie" /\ father[z] = pid[s]
              /\ status' = [status EXCEPT ![z] = "none", ![s] = "running"]
              /\ wanted' = [wanted EXCEPT ![s] = 0]
              /\ pid' = [pid EXCEPT ![z] = 0]
              /\ father' = [father EXCEPT ![z] = 0]
         \/ /\ Children(s, w) # {}
            /\ \A c \in Children(s, w) : status[c] # "zombie"
            /\ status' = [status EXCEPT ![s] = "waiting"]
            /\ wanted' = [wanted EXCEPT ![s] = w]
            /\ UNCHANGED <<pid, father>>
         \/ /\ status' = [status EXCEPT ![s] = "running"]
            /\ wanted' = [wanted EXCEPT ![s] = 0]
            /\ UNCHANGED <<pid, father>>
<1> DEFINE zombies == {c \in Children(s, w) : status[c] = "zombie"}
<1>1. ASSUME NEW z \in zombies,
             status' = [status EXCEPT ![z] = "none", ![s] = "running"],
             wanted' = [wanted EXCEPT ![s] = 0],
             Release(z)
      PROVE  \E y \in Slots \ {s} :
               /\ status[y] = "zombie" /\ father[y] = pid[s]
               /\ status' = [status EXCEPT ![y] = "none", ![s] = "running"]
               /\ wanted' = [wanted EXCEPT ![s] = 0]
               /\ pid' = [pid EXCEPT ![y] = 0]
               /\ father' = [father EXCEPT ![y] = 0]
  <2>1. z \in Slots \ {s} /\ status[z] = "zombie" /\ father[z] = pid[s]
    BY DEF Children
  <2> QED BY <1>1, <2>1 DEF Release
<1> HIDE DEF zombies
<1>2. CASE \E z \in zombies :
             /\ status' = [status EXCEPT ![z] = "none", ![s] = "running"]
             /\ wanted' = [wanted EXCEPT ![s] = 0]
             /\ Release(z)
  BY <1>1, <1>2
<1>3. CASE /\ zombies = {} /\ Children(s, w) # {}
           /\ status' = [status EXCEPT ![s] = "waiting"]
           /\ wanted' = [wanted EXCEPT ![s] = w]
           /\ UNCHANGED <<pid, father>>
  BY <1>3 DEF zombies
<1>4. CASE /\ status' = [status EXCEPT ![s] = "running"]
           /\ wanted' = [wanted EXCEPT ![s] = 0]
           /\ UNCHANGED <<pid, father>>
  BY <1>4
<1> QED
  BY <1>2, <1>3, <1>4, Zenon DEF Scan, zombies

(* A pass over the task table keeps the types.                             *)
LEMMA ScanTypes ==
  ASSUME TypeOK, NEW s \in Slots, NEW w \in Pids \cup {Any}, Scan(s, w)
  PROVE  /\ status' \in [Slots -> Status]
         /\ pid' \in [Slots -> 0 .. MaxPid]
         /\ father' \in [Slots -> 0 .. MaxPid]
         /\ wanted' \in [Slots -> 0 .. MaxPid]
<1>1. w \in 0 .. MaxPid
  BY MaxPidAssumption DEF Pids, Any
<1> QED
  BY <1>1, ScanCases, MaxPidAssumption DEF TypeOK, Status

(* Process s has forked: its child is in slot c and has pid q.             *)
ForkOf(s, c, q) ==
  /\ status[s] = "running" /\ ~Live(c) /\ q \notin UsedPids
  /\ last_pid' = q
  /\ status' = [status EXCEPT ![c] = "running"]
  /\ pid' = [pid EXCEPT ![c] = q]
  /\ father' = [father EXCEPT ![c] = pid[s]]
  /\ sigchld' = [sigchld EXCEPT ![c] = FALSE]
  /\ sigother' = [sigother EXCEPT ![c] = FALSE]
  /\ UNCHANGED wanted

(* A fork has a free slot and an unused pid for the child.                 *)
LEMMA ForkCases ==
  ASSUME NEW s, Fork(s)
  PROVE  \E q \in Pids, c \in Slots : ForkOf(s, c, q)
  BY DEF Fork, NextPid, FirstFree, ForkOf

(* Every step keeps the types.                                             *)
LEMMA TypeStep == TypeOK /\ [Next]_vars => TypeOK'
<1> SUFFICES ASSUME TypeOK, [Next]_vars PROVE TypeOK'
  OBVIOUS
<1>1. ASSUME NEW s \in Slots, Fork(s) PROVE TypeOK'
  <2>1. PICK q \in Pids, c \in Slots : ForkOf(s, c, q)
    BY <1>1, ForkCases
  <2>2. q \in 0 .. MaxPid
    BY MaxPidAssumption DEF Pids
  <2> QED BY <2>1, <2>2 DEF ForkOf, TypeOK, Status
<1>2. ASSUME NEW s \in Slots, ForkFails(s) PROVE TypeOK'
  BY <1>2 DEF TypeOK, ForkFails
<1>3. ASSUME NEW s \in Slots, ExitBegin(s) PROVE TypeOK'
  <2>1. 0 \in 0 .. MaxPid
    BY MaxPidAssumption
  <2> QED BY <1>3, <2>1 DEF TypeOK, ExitBegin, Status
<1>4. ASSUME NEW s \in Slots, ExitEnd(s) PROVE TypeOK'
  <2>1. 0 \in 0 .. MaxPid
    BY MaxPidAssumption
  <2> QED BY <1>4, <2>1 DEF TypeOK, ExitEnd, Release, Alive, Status
<1>5. ASSUME NEW s \in Slots, NEW w \in Pids \cup {Any}, Wait(s, w) \/ WaitNoHang(s, w)
      PROVE TypeOK'
  BY <1>5, ScanTypes DEF TypeOK, Wait, WaitNoHang
<1>6. ASSUME NEW s \in Slots, Resume(s) PROVE TypeOK'
  <2>1. wanted[s] \in Pids \cup {Any} /\ 0 \in 0 .. MaxPid
    BY MaxPidAssumption DEF TypeOK, Pids, Any
  <2>2. CASE sigother[s]
    BY <1>6, <2>1, <2>2 DEF TypeOK, Resume, Status
  <2>3. CASE ~sigother[s]
    BY <1>6, <2>1, <2>3, ScanTypes DEF TypeOK, Resume
  <2> QED BY <2>2, <2>3
<1>7. ASSUME NEW s \in Slots, NEW p \in Pids, Kill(s, p) \/ KillChld(s, p)
      PROVE TypeOK'
  BY <1>7 DEF TypeOK, Kill, KillChld, Alive
<1>8. ASSUME NEW s \in Slots, TakeSignals(s) PROVE TypeOK'
  BY <1>8 DEF TypeOK, TakeSignals
<1>9. CASE UNCHANGED vars
  BY <1>9 DEF TypeOK, vars
<1> QED
  BY <1>1, <1>2, <1>3, <1>4, <1>5, <1>6, <1>7, <1>8, <1>9 DEF Next

(* The task table is well typed in every reachable state.                  *)
THEOREM TypeCorrect == Spec => []TypeOK
<1>1. Init => TypeOK
  BY InitIInv DEF IInv
<1> QED
  BY <1>1, TypeStep, PTL DEF Spec

-----------------------------------------------------------------------------
(* Pids                                                                    *)

(* All tasks but the child of a fork were there before, under their pids.  *)
Kept == \A s \in Slots : Live(s)' => Live(s) /\ pid'[s] = pid[s]

(* A step forks, or adds no task.                                          *)
LEMMA NewTasks ==
  ASSUME TypeOK, [Next]_vars
  PROVE  (\E s, c \in Slots, q \in Pids : ForkOf(s, c, q)) \/ Kept
<1>1. ASSUME NEW s \in Slots, Fork(s)
      PROVE  \E r, c \in Slots, q \in Pids : ForkOf(r, c, q)
  BY <1>1, ForkCases
<1>2. ASSUME NEW s \in Slots, ForkFails(s) PROVE Kept
  BY <1>2 DEF ForkFails, Kept, Live
<1>3. ASSUME NEW s \in Slots, ExitBegin(s) PROVE Kept
  BY <1>3 DEF ExitBegin, Kept, Live, TypeOK
<1>4. ASSUME NEW s \in Slots, ExitEnd(s) PROVE Kept
  BY <1>4 DEF ExitEnd, Release, Kept, Live, TypeOK
<1>5. ASSUME NEW s \in Slots, NEW w, Live(s), Scan(s, w) PROVE Kept
  BY <1>5, ScanCases DEF Kept, Live, TypeOK
<1>6. ASSUME NEW s \in Slots, NEW w, Wait(s, w) \/ WaitNoHang(s, w) PROVE Kept
  BY <1>5, <1>6 DEF Wait, WaitNoHang, Live
<1>7. ASSUME NEW s \in Slots, Resume(s) PROVE Kept
  <2>1. CASE sigother[s]
    BY <1>7, <2>1 DEF Resume, Kept, Live, TypeOK
  <2>2. CASE ~sigother[s]
    BY <1>5, <1>7, <2>2 DEF Resume, Live
  <2> QED BY <2>1, <2>2
<1>8. ASSUME NEW s \in Slots, NEW p, Kill(s, p) \/ KillChld(s, p) PROVE Kept
  BY <1>8 DEF Kill, KillChld, Kept, Live
<1>9. ASSUME NEW s \in Slots, TakeSignals(s) PROVE Kept
  BY <1>9 DEF TakeSignals, Kept, Live
<1>10. CASE UNCHANGED vars
  BY <1>10 DEF vars, Kept, Live
<1> QED
  BY <1>1, <1>2, <1>3, <1>4, <1>6, <1>7, <1>8, <1>9, <1>10 DEF Next

(* Pids stay different from each other and from 0.                         *)
LEMMA PidsStep ==
  ASSUME TypeOK, HasPid, PidsUnique, [Next]_vars
  PROVE  HasPid' /\ PidsUnique'
<1>1. CASE Kept
  BY <1>1 DEF Kept, HasPid, PidsUnique
<1>2. ASSUME NEW s \in Slots, NEW c \in Slots, NEW q \in Pids, ForkOf(s, c, q)
      PROVE  HasPid' /\ PidsUnique'
  <2>1. \A r \in Slots : pid'[r] = (IF r = c THEN q ELSE pid[r])
    BY <1>2 DEF ForkOf, TypeOK
  <2>2. \A r \in Slots : r # c => (Live(r)' <=> Live(r))
    BY <1>2 DEF ForkOf, TypeOK, Live
  <2>3. \A r \in Slots : Live(r) => pid[r] # q
    BY <1>2 DEF ForkOf, UsedPids
  <2>4. q # 0
    BY DEF Pids
  <2> QED BY <2>1, <2>2, <2>3, <2>4 DEF HasPid, PidsUnique
<1> QED
  BY <1>1, <1>2, NewTasks

(* No two tasks ever share a pid (find_empty_process), however often       *)
(* last_pid wraps.                                                         *)
THEOREM UniquePids == Spec => []PidsUnique
<1> DEFINE Inv == TypeOK /\ HasPid /\ PidsUnique
<1>1. Init => Inv
  BY InitIInv DEF IInv
<1>2. Inv /\ [Next]_vars => Inv'
  BY TypeStep, PidsStep
<1>3. Inv => PidsUnique
  OBVIOUS
<1> QED
  BY <1>1, <1>2, <1>3, PTL DEF Spec

-----------------------------------------------------------------------------
(* Fathers                                                                 *)

(* A step is harmless to the tree if nobody gets a father, and whoever     *)
(* stops being alive is nobody's father.                                   *)
LEMMA SameFathers ==
  ASSUME FatherAlive,
         \A c \in Slots : Live(c)' => Live(c) /\ father'[c] \in {father[c], 0},
         \A s \in Slots : Alive(s) =>
           \/ Alive(s)' /\ pid'[s] = pid[s]
           \/ \A c \in Slots : Live(c)' => father'[c] \in {0} \cup (Nat \ {pid[s]})
  PROVE  FatherAlive'
<1> SUFFICES ASSUME NEW c \in Slots, Live(c)', father'[c] # 0
             PROVE  \E s \in Slots : s # c /\ Alive(s)' /\ pid'[s] = father'[c]
  BY DEF FatherAlive
<1>1. Live(c) /\ father'[c] = father[c]
  OBVIOUS
<1>2. PICK s \in Slots : s # c /\ Alive(s) /\ pid[s] = father[c]
  BY <1>1 DEF FatherAlive
<1> QED
  BY <1>1, <1>2

(* Fathers stay alive.                                                     *)
LEMMA FatherStep ==
  ASSUME TypeOK, FatherAlive, [Next]_vars
  PROVE  FatherAlive'
<1>1. ASSUME NEW s \in Slots, Fork(s) PROVE FatherAlive'
  <2>1. PICK q \in Pids, c \in Slots : ForkOf(s, c, q)
    BY <1>1, ForkCases
  <2>2. \A r \in Slots \ {c} : /\ pid'[r] = pid[r] /\ father'[r] = father[r]
                               /\ status'[r] = status[r]
    BY <2>1 DEF ForkOf, TypeOK
  <2>3. father'[c] = pid[s] /\ Alive(s) /\ s # c /\ ~Alive(c)
    BY <2>1 DEF ForkOf, TypeOK, Alive, Live
  <2>4. \A r \in Slots \ {c} : (Live(r)' <=> Live(r)) /\ (Alive(r)' <=> Alive(r))
    BY <2>2 DEF Live, Alive
  <2> QED BY <2>2, <2>3, <2>4 DEF FatherAlive
<1>2. ASSUME NEW s \in Slots, ExitBegin(s) PROVE FatherAlive'
  <2>1. \A r \in Slots : Live(r)' <=> Live(r)
    BY <1>2 DEF ExitBegin, Live, TypeOK
  <2>2. \A c \in Slots : Live(c) =>
          father'[c] = IF father[c] = pid[s] THEN 0 ELSE father[c]
    BY <1>2 DEF ExitBegin, TypeOK
  <2>3. \A r \in Slots : r # s /\ Alive(r) => Alive(r)' /\ pid'[r] = pid[r]
    BY <1>2 DEF ExitBegin, Alive, TypeOK
  <2>4. \A c \in Slots : father[c] \in Nat
    BY MaxPidAssumption DEF TypeOK
  <2> QED BY <2>1, <2>2, <2>3, <2>4, SameFathers
<1>3. ASSUME NEW s \in Slots, ExitEnd(s) PROVE FatherAlive'
  <2>1. \A r \in Slots : Live(r)' => Live(r) /\ father'[r] = father[r]
    BY <1>3 DEF ExitEnd, Release, Live, TypeOK
  <2>2. \A r \in Slots : Alive(r) => Alive(r)' /\ pid'[r] = pid[r]
    BY <1>3 DEF ExitEnd, Release, Alive, TypeOK
  <2> QED BY <2>1, <2>2, SameFathers
<1>4. ASSUME NEW s \in Slots, NEW w, Alive(s), Scan(s, w) PROVE FatherAlive'
  <2>1. \A r \in Slots : Live(r)' => Live(r) /\ father'[r] = father[r]
    BY <1>4, ScanCases DEF Live, Alive, TypeOK
  <2>2. \A r \in Slots : Alive(r) => Alive(r)' /\ pid'[r] = pid[r]
    BY <1>4, ScanCases DEF Alive, TypeOK
  <2> QED BY <2>1, <2>2, SameFathers
<1>5. ASSUME NEW s \in Slots, NEW w, Wait(s, w) \/ WaitNoHang(s, w)
      PROVE  FatherAlive'
  BY <1>4, <1>5 DEF Wait, WaitNoHang, Alive
<1>6. ASSUME NEW s \in Slots, Resume(s) PROVE FatherAlive'
  <2>1. CASE sigother[s]
    BY <1>6, <2>1 DEF Resume, FatherAlive, Live, Alive, TypeOK
  <2>2. CASE ~sigother[s]
    BY <1>4, <1>6, <2>2 DEF Resume, Alive
  <2> QED BY <2>1, <2>2
<1>7. CASE UNCHANGED <<status, pid, father>>
  BY <1>7 DEF FatherAlive, Live, Alive
<1> QED
  BY <1>1, <1>2, <1>3, <1>5, <1>6, <1>7
  DEF Next, ForkFails, Kill, KillChld, TakeSignals, vars

(* A father named in a task can always still wait for it (do_exit).        *)
THEOREM FathersAlive == Spec => []FatherAlive
<1> DEFINE Inv == TypeOK /\ FatherAlive
<1>1. Init => Inv
  BY InitIInv DEF IInv
<1>2. Inv /\ [Next]_vars => Inv'
  BY TypeStep, FatherStep
<1>3. Inv => FatherAlive
  OBVIOUS
<1> QED
  BY <1>1, <1>2, <1>3, PTL DEF Spec
-----------------------------------------------------------------------------
(* Waiting for children                                                    *)

Informed(r) ==
  /\ Children(r, wanted[r]) # {}
  /\ (\E c \in Children(r, wanted[r]) : status[c] = "zombie") => sigchld[r]

(* A step does not disturb a father asleep in waitpid that keeps the       *)
(* children it had, none of which ends, and the signal it had.             *)
LEMMA Undisturbed ==
  ASSUME NEW r \in Slots, Informed(r),
         wanted'[r] = wanted[r], pid'[r] = pid[r],
         sigchld[r] => sigchld'[r],
         \A c \in Slots \ {r} :
            (Live(c) /\ father[c] = pid[r]) <=> (Live(c)' /\ father'[c] = pid[r]),
         \A c \in Slots \ {r} :
            Live(c) /\ father[c] = pid[r] =>
              pid'[c] = pid[c] /\ (status'[c] = "zombie" => status[c] = "zombie")
  PROVE  Informed(r)'
<1>1. Children(r, wanted[r])' = Children(r, wanted[r])
  BY DEF Children, Matches
<1>2. \A c \in Children(r, wanted[r]) : status'[c] = "zombie" => status[c] = "zombie"
  BY DEF Children
<1> QED
  BY <1>1, <1>2 DEF Informed

(* A pass over the table by process s leaves the other fathers alone, and  *)
(* s itself is put to sleep only with children none of which has ended.    *)
LEMMA ScanInforms ==
  ASSUME TypeOK, HasPid, PidsUnique, WaiterInformed,
         NEW s \in Slots, NEW w \in Pids \cup {Any}, Alive(s), Scan(s, w),
         \A r \in Slots \ {s} : sigchld'[r] = sigchld[r],
         NEW r \in Slots, status'[r] = "waiting"
  PROVE  Informed(r)'
<1>1. ASSUME NEW z \in Slots \ {s},
             status[z] = "zombie", father[z] = pid[s],
             status' = [status EXCEPT ![z] = "none", ![s] = "running"],
             wanted' = [wanted EXCEPT ![s] = 0],
             pid' = [pid EXCEPT ![z] = 0],
             father' = [father EXCEPT ![z] = 0]
      PROVE  Informed(r)'
  <2>1. r # s /\ r # z /\ status[r] = "waiting"
    BY <1>1 DEF TypeOK
  <2>2. Informed(r) /\ pid[r] # 0 /\ pid[r] # pid[s]
    BY <2>1 DEF WaiterInformed, Informed, HasPid, PidsUnique, Live, Alive
  <2>3. \A c \in Slots \ {z, s} : status'[c] = status[c] /\ pid'[c] = pid[c]
                                    /\ father'[c] = father[c]
    BY <1>1 DEF TypeOK
  <2>4. /\ status'[s] = "running" /\ pid'[s] = pid[s] /\ father'[s] = father[s]
        /\ status'[z] = "none" /\ father[z] # pid[r]
        /\ wanted'[r] = wanted[r] /\ sigchld'[r] = sigchld[r]
    BY <1>1, <2>1, <2>2 DEF TypeOK
  <2> QED BY <2>1, <2>2, <2>3, <2>4, Undisturbed DEF Live, Alive
<1>2. CASE /\ Children(s, w) # {}
           /\ \A c \in Children(s, w) : status[c] # "zombie"
           /\ status' = [status EXCEPT ![s] = "waiting"]
           /\ wanted' = [wanted EXCEPT ![s] = w]
           /\ UNCHANGED <<pid, father>>
  <2>1. \A c \in Slots \ {s} : status'[c] = status[c]
    BY <1>2 DEF TypeOK
  <2>2. status'[s] = "waiting" /\ wanted'[s] = w
    BY <1>2 DEF TypeOK
  <2>3. CASE r = s
    <3>1. Children(s, wanted[s])' = Children(s, w)
      BY <1>2, <2>1, <2>2 DEF Children, Matches, Live
    <3>2. \A c \in Children(s, w) : status'[c] # "zombie"
      BY <1>2, <2>1 DEF Children
    <3> QED BY <1>2, <2>3, <3>1, <3>2 DEF Informed
  <2>4. CASE r # s
    <3>1. status[r] = "waiting" /\ wanted'[r] = wanted[r] /\ sigchld'[r] = sigchld[r]
      BY <1>2, <2>1, <2>4 DEF TypeOK
    <3>2. Informed(r)
      BY <3>1 DEF WaiterInformed, Informed
    <3> QED BY <1>2, <2>1, <2>2, <3>1, <3>2, Undisturbed DEF Live, Alive
  <2> QED BY <2>3, <2>4
<1>3. CASE /\ status' = [status EXCEPT ![s] = "running"]
           /\ wanted' = [wanted EXCEPT ![s] = 0]
           /\ UNCHANGED <<pid, father>>
  <2>1. \A c \in Slots \ {s} : status'[c] = status[c]
    BY <1>3 DEF TypeOK
  <2>2. r # s /\ status'[s] = "running"
    BY <1>3 DEF TypeOK
  <2>3. status[r] = "waiting" /\ wanted'[r] = wanted[r] /\ sigchld'[r] = sigchld[r]
    BY <1>3, <2>1, <2>2 DEF TypeOK
  <2>4. Informed(r)
    BY <2>3 DEF WaiterInformed, Informed
  <2> QED BY <1>3, <2>1, <2>2, <2>3, <2>4, Undisturbed DEF Live, Alive
<1> QED
  BY <1>1, <1>2, <1>3, ScanCases

(* A waiting father is still owed a child or a signal after every step.    *)
LEMMA WaiterStep ==
  ASSUME TypeOK, HasPid, PidsUnique, WaiterInformed, [Next]_vars
  PROVE  WaiterInformed'
<1> SUFFICES ASSUME NEW r \in Slots, status'[r] = "waiting" PROVE Informed(r)'
  BY DEF WaiterInformed, Informed
<1>a. ASSUME status[r] = "waiting" PROVE Informed(r) /\ pid[r] # 0
  BY <1>a DEF WaiterInformed, Informed, HasPid, Live
<1>1. ASSUME NEW s \in Slots, Fork(s) PROVE Informed(r)'
  <2>1. PICK q \in Pids, c \in Slots : ForkOf(s, c, q)
    BY <1>1, ForkCases
  <2>2. \A x \in Slots \ {c} : /\ pid'[x] = pid[x] /\ father'[x] = father[x]
                               /\ status'[x] = status[x] /\ sigchld'[x] = sigchld[x]
    BY <2>1 DEF ForkOf, TypeOK
  <2>3. status'[c] = "running" /\ father'[c] = pid[s] /\ ~Live(c) /\ status[s] = "running"
    BY <2>1 DEF ForkOf, TypeOK
  <2>4. r # c /\ r # s /\ status[r] = "waiting" /\ wanted'[r] = wanted[r]
    BY <2>1, <2>2, <2>3 DEF ForkOf, Live
  <2>5. pid[r] # pid[s]
    BY <2>3, <2>4 DEF PidsUnique, Live
  <2> QED BY <1>a, <2>2, <2>3, <2>4, <2>5, Undisturbed DEF Live
<1>2. ASSUME NEW s \in Slots, ExitBegin(s) PROVE Informed(r)'
  <2>1. \A c \in Slots \ {s} : status'[c] = status[c] /\ sigchld'[c] = sigchld[c]
    BY <1>2 DEF ExitBegin, TypeOK
  <2>2. status[s] = "running" /\ status'[s] = "exiting"
    BY <1>2 DEF ExitBegin, TypeOK
  <2>3. r # s /\ status[r] = "waiting" /\ pid' = pid /\ wanted' = wanted
    BY <1>2, <2>1, <2>2 DEF ExitBegin
  <2>4. pid[r] # pid[s]
    BY <2>2, <2>3 DEF PidsUnique, Live
  <2>5. \A c \in Slots : (father'[c] = pid[r]) <=> (father[c] = pid[r])
    BY <1>2, <1>a, <2>3, <2>4 DEF ExitBegin
  <2> QED BY <1>a, <2>1, <2>2, <2>3, <2>5, Undisturbed DEF Live
<1>3. ASSUME NEW s \in Slots, ExitEnd(s) PROVE Informed(r)'
  <2>1. \A c \in Slots \ {s} :
           status'[c] = status[c] /\ pid'[c] = pid[c] /\ father'[c] = father[c]
    BY <1>3 DEF ExitEnd, Release, TypeOK
  <2>2. r # s /\ status[r] = "waiting" /\ wanted' = wanted
    BY <1>3, <2>1 DEF ExitEnd, TypeOK
  <2>3. sigchld[r] => sigchld'[r]
    BY <1>3 DEF ExitEnd
  <2>4. CASE father[s] = pid[r]
    <3>1. sigchld'[r]
      BY <1>3, <1>a, <2>2, <2>4 DEF ExitEnd, Alive
    <3>2. pid' = pid /\ father' = father /\ status' = [status EXCEPT ![s] = "zombie"]
      BY <1>3, <1>a, <2>2, <2>4 DEF ExitEnd
    <3>3. \A c \in Slots : Live(c)' <=> Live(c)
      BY <1>3, <2>1, <3>2 DEF ExitEnd, Live, TypeOK
    <3>4. Children(r, wanted[r])' = Children(r, wanted[r])
      BY <2>2, <3>2, <3>3 DEF Children, Matches
    <3> QED BY <1>a, <2>2, <3>1, <3>4 DEF Informed
  <2>5. CASE father[s] # pid[r]
    <3>1. ~(Live(s)' /\ father'[s] = pid[r])
      BY <1>3, <2>5 DEF ExitEnd, Release, Live, TypeOK
    <3> QED BY <1>a, <2>1, <2>2, <2>3, <2>5, <3>1, Undisturbed DEF Live
  <2> QED BY <2>4, <2>5
<1>4. ASSUME NEW s \in Slots, NEW w \in Pids \cup {Any}, Wait(s, w) \/ WaitNoHang(s, w)
      PROVE  Informed(r)'
  BY <1>4, ScanInforms DEF Wait, WaitNoHang, Alive
<1>5. ASSUME NEW s \in Slots, Resume(s) PROVE Informed(r)'
  <2>1. \A x \in Slots \ {s} : sigchld'[x] = sigchld[x]
    BY <1>5 DEF Resume, TypeOK
  <2>2. CASE ~sigother[s]
    <3>1. wanted[s] \in Pids \cup {Any}
      BY MaxPidAssumption DEF TypeOK, Pids, Any
    <3> QED BY <1>5, <2>1, <2>2, <3>1, ScanInforms DEF Resume, Alive
  <2>3. CASE sigother[s]
    <3>1. /\ r # s /\ status'[s] = "running" /\ status[s] = "waiting"
          /\ wanted'[r] = wanted[r] /\ pid' = pid /\ father' = father
      BY <1>5, <2>3 DEF Resume, TypeOK
    <3>2. \A c \in Slots \ {s} : status'[c] = status[c]
      BY <1>5, <2>3 DEF Resume, TypeOK
    <3> QED BY <1>a, <2>1, <3>1, <3>2, Undisturbed DEF Live
  <2> QED BY <2>2, <2>3
<1>6. ASSUME UNCHANGED <<status, pid, father, wanted>>, sigchld[r] => sigchld'[r]
      PROVE  Informed(r)'
  BY <1>6, <1>a, Undisturbed DEF Live
<1>7. ASSUME NEW s \in Slots, TakeSignals(s) PROVE Informed(r)'
  BY <1>6, <1>7 DEF TakeSignals, TypeOK
<1>8. ASSUME NEW s \in Slots, NEW p \in Pids, KillChld(s, p) PROVE Informed(r)'
  BY <1>6, <1>8 DEF KillChld
<1> QED
  BY <1>1, <1>2, <1>3, <1>4, <1>5, <1>6, <1>7, <1>8 DEF Next, ForkFails, Kill, vars

(* Nobody sleeps in waitpid for nothing, and a father whose child has      *)
(* ended has been signalled (sys_waitpid, do_exit).                        *)
THEOREM WaitersInformed == Spec => []WaiterInformed
<1> DEFINE Inv == TypeOK /\ HasPid /\ PidsUnique /\ WaiterInformed
<1>1. Init => Inv
  BY InitIInv DEF IInv
<1>2. Inv /\ [Next]_vars => Inv'
  BY TypeStep, PidsStep, WaiterStep
<1>3. Inv => WaiterInformed
  OBVIOUS
<1> QED
  BY <1>1, <1>2, <1>3, PTL DEF Spec
-----------------------------------------------------------------------------
(* The wait queues of kernel/sched.c, on which the processes sleep.         *)

(* Where a task stands in a sleep call. The last conjunct is the reason a  *)
(* queue woken by interrupts must be slept on with interrupts disabled:    *)
(* between *p = current and the write of the state the task must stay the  *)
(* first one of its queue.                                                 *)
Placed ==
  \A t \in Tasks :
    /\ pc[t] = "out" <=> wq[t] = NULL
    /\ pc[t] = "linked" =>
         /\ t = current
         /\ wq[t] \in SafeQueues => head[wq[t]] = t
         /\ wq[t] \notin CliQueues

(* The type invariant of the wait queues: task states, pointers and queue  *)
(* positions stay in range at every step of sleep_on, wake_up, schedule.   *)
THEOREM SleepTypeCorrect == SleepSpec => []SleepTypeOK
<1> USE DEF SleepTypeOK, PC
<1>1. SleepInit => SleepTypeOK
  BY DEF SleepInit
<1>2. SleepTypeOK /\ [SleepNext]_sleepvars => SleepTypeOK'
  <2> SUFFICES ASSUME SleepTypeOK, [SleepNext]_sleepvars PROVE SleepTypeOK'
    OBVIOUS
  <2>0. SignalScan \in [Tasks -> {"running", "interruptible", "uninterruptible"}]
    BY DEF SignalScan
  <2>00. \A t : Wake(t) \in [Tasks -> {"running", "interruptible", "uninterruptible"}]
    BY DEF Wake
  <2>1. ASSUME NEW t \in Tasks, Dispatch(t) PROVE SleepTypeOK'
    BY <2>0, <2>1 DEF Dispatch
  <2>2. CASE DispatchIdle
    BY <2>0, <2>2 DEF DispatchIdle
  <2>3. CASE Yield
    BY <2>3 DEF Yield
  <2>4. ASSUME NEW q \in Queues, Enter(q) PROVE SleepTypeOK'
    BY <2>4 DEF Enter, AsleepIn
  <2>5. CASE Commit
    BY <2>5 DEF Commit, AsleepIn
  <2>6. CASE Return
    BY <2>00, <2>6 DEF Return, Leave
  <2>7. CASE Repeat
    BY <2>00, <2>7 DEF Repeat
  <2>8. CASE ReturnIntr
    BY <2>00, <2>8 DEF ReturnIntr, Leave
  <2>9. ASSUME NEW q \in Queues, WakeHead(q) PROVE SleepTypeOK'
    BY <2>00, <2>9 DEF WakeHead
  <2>10. ASSUME NEW q \in Queues, SerialWake(q) PROVE SleepTypeOK'
    BY <2>00, <2>10 DEF SerialWake
  <2>11. ASSUME NEW t \in Tasks, SendSignal(t) PROVE SleepTypeOK'
    BY <2>11 DEF SendSignal
  <2>12. CASE TakeSignal
    BY <2>12 DEF TakeSignal
  <2>13. CASE UNCHANGED sleepvars
    BY <2>13 DEF sleepvars
  <2>14. QED
    BY <2>1, <2>2, <2>3, <2>4, <2>5, <2>6, <2>7, <2>8, <2>9, <2>10, <2>11,
       <2>12, <2>13 DEF SleepNext, WakeUp, IrqWakeUp
<1>3. QED
  BY <1>1, <1>2, PTL DEF SleepSpec

(* What keeps a queue anchored: nothing new sleeps below its first task,   *)
(* and whoever was going to wake a task that is still asleep still is.     *)
LEMMA AnchoredStep ==
  ASSUME NEW q, Anchored(q),
         (Sleepers(q) \ {head[q]})' \subseteq Sleepers(q) \ {head[q]},
         \A t \in Sleepers(q)', u \in Tasks :
           WokenBy(t, u, q) => WokenBy(t, u, q)'
  PROVE  Anchored(q)'
<1> SUFFICES ASSUME NEW S \in SUBSET (Sleepers(q) \ {head[q]})', S # {}
             PROVE  \E t \in S, u \in Tasks \ S : WokenBy(t, u, q)'
  BY DEF Anchored
<1>1. PICK t \in S, u \in Tasks \ S : WokenBy(t, u, q)
  BY DEF Anchored
<1>2. t \in Sleepers(q)'
  OBVIOUS
<1>3. QED
  BY <1>1, <1>2

(* Position of the tasks in their sleep calls is preserved by every step.  *)
LEMMA PlacedStep == SleepTypeOK /\ Placed /\ [SleepNext]_sleepvars => Placed'
<1> SUFFICES ASSUME SleepTypeOK, Placed, [SleepNext]_sleepvars PROVE Placed'
  OBVIOUS
<1> USE QueuesAssumption, TokensAssumption DEF SleepTypeOK, Placed, PC, SafeQueues
<1>1. ASSUME NEW t \in Tasks, Dispatch(t) PROVE Placed'
  BY <1>1 DEF Dispatch
<1>2. CASE DispatchIdle
  BY <1>2 DEF DispatchIdle
<1>3. CASE Yield
  BY <1>3 DEF Yield
<1>4. ASSUME NEW q \in Queues, Enter(q) PROVE Placed'
  BY <1>4 DEF Enter
<1>5. CASE Commit
  BY <1>5 DEF Commit
<1>6. CASE Return
  BY <1>6 DEF Return, Leave
<1>7. CASE Repeat
  BY <1>7 DEF Repeat
<1>8. CASE ReturnIntr
  BY <1>8 DEF ReturnIntr, Leave
<1>9. ASSUME NEW q \in Queues, WakeUp(q) PROVE Placed'
  BY <1>9 DEF WakeUp, WakeHead
<1>10. ASSUME NEW q \in Queues, IrqWakeUp(q) PROVE Placed'
  BY <1>10 DEF IrqWakeUp, WakeHead
<1>11. ASSUME NEW q \in Queues, SerialWake(q) PROVE Placed'
  BY <1>11 DEF SerialWake
<1>12. ASSUME NEW t \in Tasks, SendSignal(t) PROVE Placed'
  BY <1>12 DEF SendSignal
<1>13. CASE TakeSignal
  BY <1>13 DEF TakeSignal
<1>14. CASE UNCHANGED sleepvars
  BY <1>14 DEF sleepvars
<1>15. QED
  BY <1>1, <1>2, <1>3, <1>4, <1>5, <1>6, <1>7, <1>8, <1>9, <1>10, <1>11,
     <1>12, <1>13, <1>14 DEF SleepNext

(* A step that changes task states only, and puts nobody to sleep on q.    *)
LEMMA StatesOnly ==
  ASSUME NEW q, Anchored(q), UNCHANGED <<head, tmp, wq>>,
         Sleepers(q)' \subseteq Sleepers(q)
  PROVE  Anchored(q)'
BY AnchoredStep DEF WokenBy

(* No step of the kernel leaves sleepers of a safe queue to themselves.    *)
LEMMA NoOrphansStep ==
  SleepTypeOK /\ Placed /\ NoOrphans /\ [SleepNext]_sleepvars => NoOrphans'
<1> SUFFICES ASSUME SleepTypeOK, Placed, NoOrphans, [SleepNext]_sleepvars,
                    NEW q \in SafeQueues
             PROVE  Anchored(q)'
  BY DEF NoOrphans, SafeQueues
<1>a. Anchored(q)
  BY DEF NoOrphans
<1>q. /\ q \in Queues /\ q \notin IntrQueues /\ q # NULL
      /\ q \in IrqQueues => q \in CliQueues
  BY TokensAssumption DEF SafeQueues
<1> USE <1>q, QueuesAssumption, TokensAssumption DEF SleepTypeOK
<1>1. ASSUME NEW t \in Tasks, Dispatch(t) PROVE Anchored(q)'
  <2>1. Sleepers(q)' \subseteq Sleepers(q)
    BY <1>1 DEF Dispatch, SignalScan, Sleepers
  <2>2. QED
    BY <1>a, <1>1, <2>1, StatesOnly DEF Dispatch
<1>2. CASE DispatchIdle
  <2>1. Sleepers(q)' \subseteq Sleepers(q)
    BY <1>2 DEF DispatchIdle, SignalScan, Sleepers
  <2>2. QED
    BY <1>a, <1>2, <2>1, StatesOnly DEF DispatchIdle
<1>3. CASE Yield
  BY <1>a, <1>3, StatesOnly DEF Yield, Sleepers
<1>4. ASSUME NEW p \in Queues, Enter(p) PROVE Anchored(q)'
  (* The newcomer becomes the first one and remembers the one before it.   *)
  <2> DEFINE c == current
  <2>1. c \in Tasks /\ wq[c] = NULL
    BY <1>4 DEF Enter, Placed
  <2>2. Sleepers(q)' \subseteq Sleepers(q) \cup {c}
    BY <1>4 DEF Enter, Sleepers
  <2>3. \A t, u : u \in Tasks /\ WokenBy(t, u, q) => WokenBy(t, u, q)'
    BY <1>4, <2>1 DEF Enter, WokenBy
  <2>4. CASE p = q
    <3>1. head'[q] = c /\ wq'[c] = q /\ tmp'[c] = head[q]
      BY <1>4, <2>1, <2>4 DEF Enter
    <3>2. SUFFICES ASSUME NEW S \in SUBSET (Sleepers(q) \ {head[q]})', S # {}
                   PROVE  \E t \in S, u \in Tasks \ S : WokenBy(t, u, q)'
      BY DEF Anchored
    <3>3. c \notin S /\ S \subseteq Sleepers(q)
      BY <2>2, <3>1
    <3>4. CASE head[q] \in S
      BY <2>1, <3>1, <3>3, <3>4 DEF WokenBy
    <3>5. CASE head[q] \notin S
      <4>1. PICK t \in S, u \in Tasks \ S : WokenBy(t, u, q)
        BY <1>a, <3>2, <3>3, <3>5 DEF Anchored
      <4>2. QED
        BY <2>3, <4>1
    <3>6. QED
      BY <3>4, <3>5
  <2>5. CASE p # q
    <3>1. head'[q] = head[q]
      BY <1>4, <2>5 DEF Enter
    <3>2. Sleepers(q)' \subseteq Sleepers(q)
      BY <1>4, <2>1, <2>5 DEF Enter, Sleepers
    <3>3. QED
      BY <1>a, <2>3, <3>1, <3>2, AnchoredStep DEF Sleepers
  <2>6. QED
    BY <2>4, <2>5
<1>5. CASE Commit
  (* The task that goes to sleep is the first one of its queue.            *)
  <2>1. (Sleepers(q) \ {head[q]})' \subseteq Sleepers(q) \ {head[q]}
    BY <1>5 DEF Commit, Sleepers, Placed
  <2>2. QED
    BY <1>a, <1>5, <2>1, AnchoredStep DEF Commit, WokenBy
<1>6. CASE Return
  (* The task that leaves wakes the one it was going to wake.              *)
  <2>1. (Sleepers(q) \ {head[q]})' \subseteq Sleepers(q) \ {head[q]}
    BY <1>6 DEF Return, Leave, Wake, Sleepers
  <2>2. \A t \in Sleepers(q)', u \in Tasks :
          WokenBy(t, u, q) => WokenBy(t, u, q)'
    BY <1>6 DEF Return, Leave, Wake, Sleepers, WokenBy
  <2>3. QED
    BY <1>a, <2>1, <2>2, AnchoredStep
<1>7. CASE Repeat
  <2>1. Sleepers(q)' \subseteq Sleepers(q)
    BY <1>7 DEF Repeat, Wake, Sleepers
  <2>2. QED
    BY <1>a, <1>7, <2>1, StatesOnly DEF Repeat
<1>8. CASE ReturnIntr
  <2>1. (Sleepers(q) \ {head[q]})' \subseteq Sleepers(q) \ {head[q]}
    BY <1>8 DEF ReturnIntr, Leave, Wake, Sleepers
  <2>2. \A t \in Sleepers(q)', u \in Tasks :
          WokenBy(t, u, q) => WokenBy(t, u, q)'
    BY <1>8 DEF ReturnIntr, Leave, Wake, Sleepers, WokenBy
  <2>3. QED
    BY <1>a, <2>1, <2>2, AnchoredStep
<1>9. ASSUME NEW p \in Queues, WakeHead(p) PROVE Anchored(q)'
  (* The first one is not asleep any more when it stops being the first.   *)
  <2>1. (Sleepers(q) \ {head[q]})' \subseteq Sleepers(q) \ {head[q]}
    BY <1>9 DEF WakeHead, Wake, Sleepers
  <2>2. QED
    BY <1>a, <1>9, <2>1, AnchoredStep DEF WakeHead, WokenBy
<1>10. ASSUME NEW p \in Queues, SerialWake(p) PROVE Anchored(q)'
  <2>1. Sleepers(q)' \subseteq Sleepers(q)
    BY <1>10 DEF SerialWake, Wake, Sleepers
  <2>2. QED
    BY <1>a, <1>10, <2>1, StatesOnly DEF SerialWake
<1>11. CASE (\E t \in Tasks : SendSignal(t)) \/ TakeSignal \/ UNCHANGED sleepvars
  BY <1>a, <1>11, StatesOnly DEF SendSignal, TakeSignal, sleepvars, Sleepers
<1>12. QED
  BY <1>1, <1>2, <1>3, <1>4, <1>5, <1>6, <1>7, <1>8, <1>9, <1>10, <1>11
     DEF SleepNext, WakeUp, IrqWakeUp

(* No wake-up is lost on a queue that is slept on with sleep_on and, when  *)
(* an interrupt handler wakes it, with interrupts disabled.                *)
THEOREM NoLostSleeper == SleepSpec => []NoOrphans
<1>1. SleepInit => Placed /\ NoOrphans
  BY TokensAssumption
     DEF SleepInit, Placed, NoOrphans, Anchored, Sleepers, SafeQueues
<1>2. SleepTypeOK /\ Placed /\ NoOrphans /\ [SleepNext]_sleepvars => Placed' /\ NoOrphans'
  BY PlacedStep, NoOrphansStep
<1>3. QED
  BY <1>1, <1>2, SleepTypeCorrect, PTL DEF SleepSpec
=============================================================================
