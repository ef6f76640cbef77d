------------------------------- MODULE Files -------------------------------
(***************************************************************************)
(* Descriptors, the table of open files and a pipe: fs/open.c, fs/fcntl.c, *)
(* fs/pipe.c, the pipe's part of fs/read_write.c and fs/inode.c, and what  *)
(* fork, exec and exit do to descriptors.                                  *)
(*                                                                         *)
(* A descriptor is an index into the task's filp[], which points to an     *)
(* entry of file_table, which points to an inode.  f_count counts the      *)
(* descriptors of an entry, i_count the entries of an inode; a pipe has a  *)
(* reader and a writer exactly when its i_count is 2.                      *)
(*                                                                         *)
(* The kernel is not preempted: a step is what happens between two places  *)
(* where the process may sleep.  cpu is the process in the middle of such  *)
(* a stretch that takes several steps here, or Nobody.                     *)
(***************************************************************************)
EXTENDS Integers, FiniteSets, Sequences, FiniteSetsExt, TLC

CONSTANTS
  Procs,        \* the processes; one of them exists at the start
  First,        \* that one
  NR_OPEN,      \* descriptors of a process
  NR_FILE,      \* entries of file_table
  PAGE_SIZE,    \* size of the ring, a power of two
  Bytes,        \* what is written into the pipe
  Counts,       \* lengths of reads and writes
  NULL, Nobody

ASSUME FilesAssumption ==
  /\ First \in Procs /\ IsFiniteSet(Procs)
  /\ NR_OPEN \in Nat \ {0} /\ NR_FILE \in Nat \ {0}
  /\ PAGE_SIZE \in Nat \ {0, 1}
  /\ Counts \subseteq Nat \ {0}
  /\ Nobody \notin Procs

FDs == 0..(NR_OPEN - 1)
Entries == 0..(NR_FILE - 1)
Inodes == {"pipe", "file"}

ASSUME NullAssumption == NULL \notin Entries /\ NULL \notin Inodes

VARIABLES
  alive,            \* the processes that exist
  filp,             \* filp[p][fd]: an entry of file_table or NULL
  close_on_exec,    \* close_on_exec[p]: a set of descriptors
  f_count, f_inode, f_mode,   \* file_table; what nobody reads is NULL here
  i_count,          \* of the pipe's inode and of a regular file's
  ring, head, tail, \* the pipe's page (NULL: no byte to be read) and its indices
  pc,               \* where in the kernel a process is, or "user"
  arg,              \* the locals of its system call
  asleep,           \* the processes asleep on the pipe's i_wait
  cpu,              \* who is on its way between two sleeps
  told              \* what the last call on the pipe was told

tableVars == <<filp, close_on_exec, f_count, f_inode, f_mode>>
pipeVars == <<ring, head, tail, told>>
vars == <<alive, tableVars, i_count, pipeVars, pc, arg, asleep, cpu>>

PC == {"user", "opening", "piping", "reading", "writing", "putting",
       "exiting", "execing", "dup2ing"}

\* A broken variant: the indices are compared without the mask.
PipeSizeUnmasked == IF head >= tail THEN head - tail ELSE tail - head

\* The ring: PIPE_SIZE, PIPE_EMPTY, PIPE_FULL and INC_PIPE.
PipeSize == (head - tail) % PAGE_SIZE
PipeEmpty == head = tail
PipeFull == PipeSize = PAGE_SIZE - 1

IncPipe(x, k) == (x + k) % PAGE_SIZE

\* What the queue of the pipe is.
Contents == [k \in 1..PipeSize |-> ring[(tail + k - 1) % PAGE_SIZE]]

Locals == [fd |-> 0, fd2 |-> 0, then |-> "user", left |-> 0, byte |-> NULL]

Init ==
  /\ alive = {First}
  /\ filp = [p \in Procs |-> [fd \in FDs |-> NULL]]
  /\ close_on_exec = [p \in Procs |-> {}]
  /\ f_count = [f \in Entries |-> 0]
  /\ f_inode = [f \in Entries |-> NULL]
  /\ f_mode = [f \in Entries |-> "none"]
  /\ i_count = [i \in Inodes |-> 0]
  /\ ring = [k \in 0..(PAGE_SIZE - 1) |-> NULL]
  /\ head = 0 /\ tail = 0
  /\ pc = [p \in Procs |-> "user"]
  /\ arg = [p \in Procs |-> Locals]
  /\ asleep = {}
  /\ cpu = Nobody
  /\ told = "ok"

\* p may run at a place where its program counter is w.
Runs(p, w) ==
  /\ p \in alive \ asleep
  /\ pc[p] = w
  /\ cpu \in {p, Nobody}

At(p, w) == pc' = [pc EXCEPT ![p] = w]

FreeFDs(p) == {fd \in FDs : filp[p][fd] = NULL}
FreeEntries == {f \in Entries : f_count[f] = 0}
Open(p) == FDs \ FreeFDs(p)

\* close_on_exec &= ~(1<<fd).
OpenOnExec(p, fd) == [close_on_exec EXCEPT ![p] = @ \ {fd}]

---------------------------------------------------------------------------
(* Open.  Descriptor and entry are taken before open_namei, which sleeps;  *)
(* until it returns nobody else can reach the entry.                       *)

SysOpen(p) ==
  /\ Runs(p, "user")
  /\ FreeFDs(p) # {} /\ FreeEntries # {}
  /\ LET fd == Min(FreeFDs(p))
         f == Min(FreeEntries)
     IN /\ filp' = [filp EXCEPT ![p][fd] = f]
        /\ f_count' = [f_count EXCEPT ![f] = @ + 1]
        /\ close_on_exec' = OpenOnExec(p, fd)
        /\ arg' = [arg EXCEPT ![p].fd = fd]
  /\ At(p, "opening")
  /\ UNCHANGED <<alive, f_inode, f_mode, i_count, pipeVars, asleep, cpu>>

OpenEnd(p) ==
  /\ Runs(p, "opening")
  /\ LET f == filp[p][arg[p].fd]
     IN /\ f_mode' = [f_mode EXCEPT ![f] = "file"]
        /\ f_count' = [f_count EXCEPT ![f] = 1]
        /\ f_inode' = [f_inode EXCEPT ![f] = "file"]
  /\ i_count' = [i_count EXCEPT !["file"] = @ + 1]
  /\ arg' = [arg EXCEPT ![p] = Locals]
  /\ At(p, "user")
  /\ UNCHANGED <<alive, filp, close_on_exec, pipeVars, asleep, cpu>>

\* open_namei finds nothing, or a terminal the process may not have.
OpenFails(p) ==
  /\ Runs(p, "opening")
  /\ LET fd == arg[p].fd
     IN /\ filp' = [filp EXCEPT ![p][fd] = NULL]
        /\ f_count' = [f_count EXCEPT ![filp[p][fd]] = 0]
  /\ arg' = [arg EXCEPT ![p] = Locals]
  /\ At(p, "user")
  /\ UNCHANGED <<alive, close_on_exec, f_inode, f_mode, i_count, pipeVars,
                 asleep, cpu>>

---------------------------------------------------------------------------
(* Close.  Of a pipe's inode iput wakes the sleepers and counts down at    *)
(* once; of a regular file's it may sleep first, writing the inode.        *)

\* A broken variant: the sleepers are not woken.
PutPipeSilently ==
  /\ i_count' = [i_count EXCEPT !["pipe"] = @ - 1]
  /\ UNCHANGED <<asleep, ring, head, tail>>
  /\ told' = "ok"

\* iput of the pipe's inode; the page goes with the last end.
PutPipe ==
  /\ i_count' = [i_count EXCEPT !["pipe"] = @ - 1]
  /\ asleep' = {}
  /\ IF i_count["pipe"] = 1
       THEN /\ ring' = [k \in DOMAIN ring |-> NULL]
            /\ head' = 0 /\ tail' = 0
       ELSE UNCHANGED <<ring, head, tail>>
  /\ told' = "ok"

\* sys_close(fd), going on at w: the descriptor is emptied first, then the
\* entry counted down, then the inode given up.
CloseTo(p, fd, w) ==
  LET f == filp[p][fd]
  IN /\ filp' = [filp EXCEPT ![p][fd] = NULL]
     /\ close_on_exec' = OpenOnExec(p, fd)
     /\ f_count' = [f_count EXCEPT ![f] = @ - 1]
     /\ f_inode' = [f_inode EXCEPT ![f] = IF f_count[f] > 1 THEN @ ELSE NULL]
     /\ f_mode' = [f_mode EXCEPT ![f] = IF f_count[f] > 1 THEN @ ELSE "none"]
     /\ IF f_count[f] > 1
          THEN /\ UNCHANGED <<i_count, pipeVars, asleep>>
               /\ At(p, w)
               /\ cpu' = IF w = "user" THEN Nobody ELSE p
          ELSE IF f_inode[f] = "pipe"
          THEN /\ PutPipe
               /\ At(p, w)
               /\ cpu' = IF w = "user" THEN Nobody ELSE p
          ELSE /\ UNCHANGED <<i_count, pipeVars, asleep>>
               /\ At(p, "putting")
               /\ cpu' = Nobody
     /\ UNCHANGED alive

SysClose(p) ==
  /\ Runs(p, "user")
  /\ \E fd \in Open(p) : CloseTo(p, fd, "user")
  /\ UNCHANGED arg

\* iput has written the inode, if it had to, and counts down.
PutEnd(p) ==
  /\ Runs(p, "putting")
  /\ i_count' = [i_count EXCEPT !["file"] = @ - 1]
  /\ At(p, arg[p].then)
  /\ cpu' = IF arg[p].then = "user" THEN Nobody ELSE p
  /\ UNCHANGED <<alive, tableVars, pipeVars, arg, asleep>>

---------------------------------------------------------------------------
(* dup, dup2, fcntl.                                                       *)

\* dupfd: the first free descriptor from n on.
DupFd(p, fd, n) ==
  LET free == {a \in FreeFDs(p) : a >= n}
  IN IF filp[p][fd] = NULL \/ free = {}
       THEN UNCHANGED tableVars
       ELSE /\ filp' = [filp EXCEPT ![p][Min(free)] = filp[p][fd]]
            /\ f_count' = [f_count EXCEPT ![filp[p][fd]] = @ + 1]
            /\ close_on_exec' = OpenOnExec(p, Min(free))
            /\ UNCHANGED <<f_inode, f_mode>>

\* sys_dup and fcntl(F_DUPFD).
SysDup(p) ==
  /\ Runs(p, "user")
  /\ \E fd \in Open(p), n \in {0, NR_OPEN - 1} : DupFd(p, fd, n)
  /\ UNCHANGED <<alive, i_count, pipeVars, pc, arg, asleep, cpu>>

\* sys_dup2 closes the new descriptor whatever the old one is, the old one
\* itself included, and then duplicates what is left.
SysDup2(p) ==
  /\ Runs(p, "user")
  /\ \E old \in FDs, new \in FDs :
       /\ arg' = [arg EXCEPT ![p].fd = old, ![p].fd2 = new,
                             ![p].then = "dup2ing"]
       /\ IF filp[p][new] # NULL
            THEN CloseTo(p, new, "dup2ing")
            ELSE /\ At(p, "dup2ing")
                 /\ cpu' = p
                 /\ UNCHANGED <<alive, tableVars, i_count, pipeVars, asleep>>

Dup2End(p) ==
  /\ Runs(p, "dup2ing")
  /\ DupFd(p, arg[p].fd, arg[p].fd2)
  /\ arg' = [arg EXCEPT ![p] = Locals]
  /\ At(p, "user")
  /\ cpu' = Nobody
  /\ UNCHANGED <<alive, i_count, pipeVars, asleep>>

\* fcntl(F_SETFD).
SetCloseOnExec(p) ==
  /\ Runs(p, "user")
  /\ \E fd \in Open(p), new \in BOOLEAN :
       close_on_exec' = [close_on_exec EXCEPT ![p] =
                           IF new THEN @ \cup {fd} ELSE @ \ {fd}]
  /\ UNCHANGED <<alive, filp, f_count, f_inode, f_mode, i_count, pipeVars,
                 pc, arg, asleep, cpu>>

---------------------------------------------------------------------------
(* fork, exec, exit.                                                       *)

\* A broken variant: an entry is counted once however many descriptors of the
\* father refer to it.
ForkOnce(p) ==
  /\ Runs(p, "user")
  /\ \E c \in Procs \ alive :
       /\ alive' = alive \cup {c}
       /\ filp' = [filp EXCEPT ![c] = filp[p]]
       /\ close_on_exec' = [close_on_exec EXCEPT ![c] = close_on_exec[p]]
  /\ f_count' = [f \in Entries |->
                   IF \E fd \in FDs : filp[p][fd] = f
                     THEN f_count[f] + 1 ELSE f_count[f]]
  /\ UNCHANGED <<f_inode, f_mode, i_count, pipeVars, pc, arg, asleep, cpu>>

\* copy_process copies filp[] and counts every descriptor once more.
Fork(p) ==
  /\ Runs(p, "user")
  /\ \E c \in Procs \ alive :
       /\ alive' = alive \cup {c}
       /\ filp' = [filp EXCEPT ![c] = filp[p]]
       /\ close_on_exec' = [close_on_exec EXCEPT ![c] = close_on_exec[p]]
  /\ f_count' = [f \in Entries |->
                   f_count[f] + Cardinality({fd \in FDs : filp[p][fd] = f})]
  /\ UNCHANGED <<f_inode, f_mode, i_count, pipeVars, pc, arg, asleep, cpu>>

\* do_exit and do_execve close descriptors in ascending order.
Exit(p) ==
  /\ Runs(p, "user")
  /\ At(p, "exiting")
  /\ arg' = [arg EXCEPT ![p].then = "exiting"]
  /\ cpu' = p
  /\ UNCHANGED <<alive, tableVars, i_count, pipeVars, asleep>>

ExitClose(p) ==
  /\ Runs(p, "exiting")
  /\ Open(p) # {}
  /\ CloseTo(p, Min(Open(p)), "exiting")
  /\ UNCHANGED arg

ExitEnd(p) ==
  /\ Runs(p, "exiting")
  /\ Open(p) = {}
  /\ alive' = alive \ {p}
  /\ close_on_exec' = [close_on_exec EXCEPT ![p] = {}]
  /\ arg' = [arg EXCEPT ![p] = Locals]
  /\ At(p, "user")
  /\ cpu' = Nobody
  /\ UNCHANGED <<filp, f_count, f_inode, f_mode, i_count, pipeVars, asleep>>

Exec(p) ==
  /\ Runs(p, "user")
  /\ At(p, "execing")
  /\ arg' = [arg EXCEPT ![p].then = "execing"]
  /\ cpu' = p
  /\ UNCHANGED <<alive, tableVars, i_count, pipeVars, asleep>>

ExecClose(p) ==
  /\ Runs(p, "execing")
  /\ close_on_exec[p] # {}
  /\ CloseTo(p, Min(close_on_exec[p]), "execing")
  /\ UNCHANGED arg

ExecEnd(p) ==
  /\ Runs(p, "execing")
  /\ close_on_exec[p] = {}
  /\ arg' = [arg EXCEPT ![p] = Locals]
  /\ At(p, "user")
  /\ cpu' = Nobody
  /\ UNCHANGED <<alive, tableVars, i_count, pipeVars, asleep>>

---------------------------------------------------------------------------
(* The pipe.                                                               *)

\* sys_pipe takes two entries and two descriptors, all or nothing, then an
\* inode, for which it may sleep.
SysPipe(p) ==
  /\ Runs(p, "user")
  /\ i_count["pipe"] = 0 /\ \A q \in Procs : pc[q] # "piping"
  /\ Cardinality(FreeEntries) >= 2 /\ Cardinality(FreeFDs(p)) >= 2
  /\ LET f0 == Min(FreeEntries)
         f1 == Min(FreeEntries \ {f0})
         d0 == Min(FreeFDs(p))
         d1 == Min(FreeFDs(p) \ {d0})
     IN /\ f_count' = [f_count EXCEPT ![f0] = 1, ![f1] = 1]
        /\ filp' = [filp EXCEPT ![p][d0] = f0, ![p][d1] = f1]
        /\ arg' = [arg EXCEPT ![p].fd = d0, ![p].fd2 = d1]
  /\ At(p, "piping")
  /\ UNCHANGED <<alive, close_on_exec, f_inode, f_mode, i_count, pipeVars,
                 asleep, cpu>>

\* get_pipe_inode: two users, an empty ring.
PipeEnd(p) ==
  /\ Runs(p, "piping")
  /\ LET f0 == filp[p][arg[p].fd]
         f1 == filp[p][arg[p].fd2]
     IN /\ f_inode' = [f_inode EXCEPT ![f0] = "pipe", ![f1] = "pipe"]
        /\ f_mode' = [f_mode EXCEPT ![f0] = "read", ![f1] = "write"]
  /\ i_count' = [i_count EXCEPT !["pipe"] = 2]
  /\ head' = 0 /\ tail' = 0
  /\ told' = "ok"
  /\ arg' = [arg EXCEPT ![p] = Locals]
  /\ At(p, "user")
  /\ UNCHANGED <<alive, filp, close_on_exec, f_count, ring, asleep, cpu>>

\* No page for the ring.
PipeFails(p) ==
  /\ Runs(p, "piping")
  /\ LET d0 == arg[p].fd
         d1 == arg[p].fd2
     IN /\ f_count' = [f_count EXCEPT ![filp[p][d0]] = 0, ![filp[p][d1]] = 0]
        /\ filp' = [filp EXCEPT ![p][d0] = NULL, ![p][d1] = NULL]
  /\ arg' = [arg EXCEPT ![p] = Locals]
  /\ At(p, "user")
  /\ UNCHANGED <<alive, close_on_exec, f_inode, f_mode, i_count, pipeVars,
                 asleep, cpu>>

\* One pass of read_pipe with n bytes wanted, up to its end or a sleep.
ReadPass(p, n) ==
  IF PipeEmpty
    THEN IF i_count["pipe"] # 2
           THEN /\ told' = "eof"
                /\ asleep' = {}
                /\ At(p, "user")
                /\ arg' = [arg EXCEPT ![p] = Locals]
                /\ UNCHANGED <<ring, head, tail>>
           ELSE /\ asleep' = {p}        \* wake_up, then sleep_on
                /\ At(p, "reading")
                /\ arg' = [arg EXCEPT ![p].left = n]
                /\ UNCHANGED pipeVars
    ELSE LET k == Min({n, PipeSize})
         IN /\ tail' = IncPipe(tail, k)
            /\ told' = "ok"
            /\ asleep' = {}
            /\ At(p, "user")
            /\ arg' = [arg EXCEPT ![p] = Locals]
            /\ ring' = [j \in DOMAIN ring |->
                          IF (j - tail) % PAGE_SIZE < k THEN NULL ELSE ring[j]]
            /\ UNCHANGED head

SysRead(p) ==
  /\ Runs(p, "user")
  /\ \E fd \in Open(p), n \in Counts :
       /\ f_mode[filp[p][fd]] = "read"
       /\ ReadPass(p, n)
  /\ UNCHANGED <<alive, tableVars, i_count, cpu>>

ReadAgain(p) ==
  /\ Runs(p, "reading")
  /\ ReadPass(p, arg[p].left)
  /\ UNCHANGED <<alive, tableVars, i_count, cpu>>

\* One pass of write_pipe: bytes go in until all are in, or the ring is full,
\* and then the writer sleeps, or gives up for want of a reader.
WritePass(p, b, n) ==
  LET k == Min({n, PAGE_SIZE - 1 - PipeSize})
      in == [j \in 0..(PAGE_SIZE - 1) |->
               IF (j - head) % PAGE_SIZE < k THEN b ELSE ring[j]]
  IN /\ ring' = in
     /\ head' = IncPipe(head, k)
     /\ UNCHANGED tail
     /\ IF k = n \/ i_count["pipe"] # 2
          THEN /\ told' = IF k = n THEN "ok" ELSE "broken"
               /\ asleep' = {}
               /\ At(p, "user")
               /\ arg' = [arg EXCEPT ![p] = Locals]
          ELSE /\ told' = IF k > 0 THEN "ok" ELSE told
               /\ asleep' = {p}         \* wake_up, then sleep_on
               /\ At(p, "writing")
               /\ arg' = [arg EXCEPT ![p].left = n - k, ![p].byte = b]

SysWrite(p) ==
  /\ Runs(p, "user")
  /\ \E fd \in Open(p), n \in Counts, b \in Bytes :
       /\ f_mode[filp[p][fd]] = "write"
       /\ IF i_count["pipe"] # 2
            THEN /\ told' = "broken"
                 /\ asleep' = {}
                 /\ UNCHANGED <<ring, head, tail, pc, arg>>
            ELSE WritePass(p, b, n)
  /\ UNCHANGED <<alive, tableVars, i_count, cpu>>

WriteAgain(p) ==
  /\ Runs(p, "writing")
  /\ WritePass(p, arg[p].byte, arg[p].left)
  /\ UNCHANGED <<alive, tableVars, i_count, cpu>>

---------------------------------------------------------------------------
Steps(p) ==
  \/ SysOpen(p) \/ OpenEnd(p) \/ OpenFails(p)
  \/ SysClose(p) \/ PutEnd(p)
  \/ SysDup(p) \/ SysDup2(p) \/ Dup2End(p) \/ SetCloseOnExec(p)
  \/ Fork(p) \/ Exit(p) \/ ExitClose(p) \/ ExitEnd(p)
  \/ Exec(p) \/ ExecClose(p) \/ ExecEnd(p)
  \/ SysPipe(p) \/ PipeEnd(p) \/ PipeFails(p)
  \/ SysRead(p) \/ ReadAgain(p) \/ SysWrite(p) \/ WriteAgain(p)

Next == \E p \in Procs : Steps(p)

Spec == Init /\ [][Next]_vars

---------------------------------------------------------------------------
(* Properties.                                                             *)

TypeOK ==
  /\ alive \subseteq Procs /\ asleep \subseteq alive
  /\ filp \in [Procs -> [FDs -> Entries \cup {NULL}]]
  /\ close_on_exec \in [Procs -> SUBSET FDs]
  /\ f_count \in [Entries -> 0..(Cardinality(Procs) * NR_OPEN)]
  /\ f_inode \in [Entries -> Inodes \cup {NULL}]
  /\ f_mode \in [Entries -> {"none", "file", "read", "write"}]
  /\ i_count["pipe"] \in 0..2 /\ i_count["file"] \in 0..(NR_FILE + Cardinality(Procs))
  /\ ring \in [0..(PAGE_SIZE - 1) -> Bytes \cup {NULL}]
  /\ {head, tail} \subseteq 0..(PAGE_SIZE - 1)
  /\ pc \in [Procs -> PC]
  /\ arg \in [Procs -> [fd : FDs, fd2 : FDs, then : PC, left : Nat,
                        byte : Bytes \cup {NULL}]]
  /\ cpu \in Procs \cup {Nobody}
  /\ told \in {"ok", "eof", "broken"}

UsersOf(i) == {f \in Entries : f_count[f] > 0 /\ f_inode[f] = i}

\* The counts are exact through dup, dup2, fork, exec, exit and every failed
\* open or pipe, also while one of them sleeps: an entry counts its
\* descriptors and an inode its entries (sys_close's panic "file count is 0"
\* and iput's "trying to free free inode" are never reached).
CountsExact ==
  /\ \A f \in Entries :
       f_count[f] = Cardinality({d \in Procs \X FDs : filp[d[1]][d[2]] = f})
  /\ i_count["pipe"] = Cardinality(UsersOf("pipe"))
  /\ i_count["file"] = Cardinality(UsersOf("file"))
                         + Cardinality({p \in Procs : pc[p] = "putting"})

\* Nobody sleeps on a pipe who could go on: the one wait queue of i_wait, on
\* which readers and writers sleep together, is woken by every read, write
\* and close that makes a difference (read_pipe, write_pipe, iput).
SleepersBlocked ==
  \A p \in asleep :
    /\ i_count["pipe"] = 2
    /\ \/ pc[p] = "reading" /\ PipeEmpty
       \/ pc[p] = "writing" /\ PipeFull

\* The pipe is the bounded queue of PipeFifo: no byte is lost, invented or
\* reordered where the indices wrap, end of file is reported only when the
\* queue is empty and no descriptor of the writing end is left, SIGPIPE only
\* when none of the reading end is.
Fifo == INSTANCE PipeFifo
          WITH Byte <- Bytes, Capacity <- PAGE_SIZE - 1, queue <- Contents,
               ends <- {f_mode[f] : f \in UsersOf("pipe")}

ImplementsFifo == Fifo!Spec
=============================================================================
