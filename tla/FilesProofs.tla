----------------------------- MODULE FilesProofs -----------------------------
(***************************************************************************)
(* Proofs about module Files, for any number of processes, descriptors and *)
(* open files and every size of the ring: reference counts are exact, no   *)
(* process sleeps on a pipe that has what it waits for, and the pipe       *)
(* implements the bounded queue of PipeFifo.                               *)
(***************************************************************************)
EXTENDS Files, Counting, SequenceTheorems

-----------------------------------------------------------------------------
(* The invariant                                                           *)

RingOK ==
  /\ ring \in [0..(PAGE_SIZE - 1) -> Bytes \cup {NULL}]
  /\ head \in 0..(PAGE_SIZE - 1) /\ tail \in 0..(PAGE_SIZE - 1)
  /\ told \in {"ok", "eof", "broken"}

(* As TypeOK; the ranges of the counts follow from CountsExact.            *)
Types ==
  /\ alive \in SUBSET Procs /\ asleep \in SUBSET Procs
  /\ filp \in [Procs -> [FDs -> Entries \cup {NULL}]]
  /\ close_on_exec \in [Procs -> SUBSET FDs]
  /\ f_count \in [Entries -> Nat]
  /\ f_inode \in [Entries -> Inodes \cup {NULL}]
  /\ f_mode \in [Entries -> {"none", "file", "read", "write"}]
  /\ i_count \in [Inodes -> Int]
  /\ pc \in [Procs -> PC]
  /\ arg \in [Procs -> [fd : FDs, fd2 : FDs,
                        then : {"user", "exiting", "execing", "dup2ing"},
                        left : Nat, byte : Bytes \cup {NULL}]]
  /\ RingOK

(* The entries that a process has taken for a file or a pipe it has yet to *)
(* get.                                                                    *)
New(p) ==
  IF pc[p] = "opening" THEN {filp[p][arg[p].fd]}
  ELSE IF pc[p] = "piping" THEN {filp[p][arg[p].fd], filp[p][arg[p].fd2]}
  ELSE {}

NewFDs(p) ==
  IF pc[p] = "opening" THEN {arg[p].fd}
  ELSE IF pc[p] = "piping" THEN {arg[p].fd, arg[p].fd2}
  ELSE {}

(* A process has its own new entries alone; what is to be closed on exec   *)
(* is open; a process that does not exist has nothing; and one in a pipe   *)
(* has an end of it.                                                       *)
ProcessOf(p) ==
  /\ p \notin alive => pc[p] = "user" /\ Open(p) = {}
  /\ close_on_exec[p] \subseteq Open(p) \ NewFDs(p)
  /\ \A f \in New(p) : f \in Entries /\ f_count[f] = 1 /\ f_inode[f] = NULL
  /\ pc[p] = "piping" => /\ arg[p].fd # arg[p].fd2
                         /\ filp[p][arg[p].fd] # filp[p][arg[p].fd2]
  /\ pc[p] = "reading" => /\ \E fd \in Open(p) : f_mode[filp[p][fd]] = "read"
                          /\ arg[p].left > 0
  /\ pc[p] = "writing" => /\ \E fd \in Open(p) : f_mode[filp[p][fd]] = "write"
                          /\ arg[p].left > 0 /\ arg[p].byte \in Bytes

(* What an entry is for: nothing, something to come, a file or an end of   *)
(* the pipe, of which each has one entry.                                  *)
EntryOf(f) ==
  /\ f_count[f] = 0 => f_inode[f] = NULL
  /\ f_count[f] > 0 /\ f_inode[f] = NULL => \E p \in Procs : f \in New(p)
  /\ f_inode[f] = NULL => f_mode[f] = "none"
  /\ f_inode[f] = "file" => f_mode[f] = "file"
  /\ f_inode[f] = "pipe" => f_mode[f] \in {"read", "write"}
  /\ \A g \in Entries : f_inode[f] = "pipe" /\ f_inode[g] = "pipe" /\ f_mode[f] = f_mode[g]
                          => f = g

(* While a pipe is being made there is no other.                           *)
OnePipe ==
  \A p \in Procs : pc[p] = "piping" =>
    /\ \A f \in Entries : f_inode[f] # "pipe"
    /\ \A q \in Procs : pc[q] = "piping" => q = p

(* The descriptors that refer to f in tables F.                            *)
Refs(F, f) == {d \in Procs \X FDs : F[d[1]][d[2]] = f}

FilesCounted == \A f \in Entries : f_count[f] = Cardinality(Refs(filp, f))

InodesCounted ==
  /\ i_count["pipe"] = Cardinality(UsersOf("pipe"))
  /\ i_count["file"] = Cardinality(UsersOf("file"))
                         + Cardinality({p \in Procs : pc[p] = "putting"})

Counted ==
  /\ Types
  /\ \A p \in Procs : ProcessOf(p)
  /\ \A f \in Entries : EntryOf(f)
  /\ OnePipe /\ FilesCounted /\ InodesCounted

-----------------------------------------------------------------------------
(* Facts about the tables                                                  *)

LEMMA Constants ==
  /\ FDs \subseteq Nat /\ Entries \subseteq Nat
  /\ 0 \in FDs /\ NR_OPEN - 1 \in FDs /\ NULL \notin Entries /\ NULL \notin Inodes
  /\ IsFiniteSet(FDs) /\ IsFiniteSet(Entries) /\ IsFiniteSet(Procs)
  /\ IsFiniteSet(Procs \X FDs)
<1>1. IsFiniteSet(FDs) /\ IsFiniteSet(Entries)
  BY FS_Interval, FilesAssumption DEF FDs, Entries
<1>2. IsFiniteSet(Procs \X FDs)
  BY <1>1, FS_Product, FilesAssumption
<1>3. QED
  BY <1>1, <1>2, FilesAssumption, NullAssumption DEF FDs, Entries

Tables == [Procs -> [FDs -> Entries \cup {NULL}]]

(* What a descriptor comes to refer to is what the counts change by.       *)
LEMMA RefsChange ==
  ASSUME NEW F \in Tables, NEW p \in Procs, NEW fd \in FDs,
         NEW g \in Entries \cup {NULL}, NEW f \in Entries,
         NEW G, G = [F EXCEPT ![p][fd] = g]
  PROVE  /\ G \in Tables
         /\ Cardinality(Refs(F, f)) \in Nat /\ Cardinality(Refs(G, f)) \in Nat
         /\ Cardinality(Refs(G, f))
              = Cardinality(Refs(F, f)) - (IF F[p][fd] = f THEN 1 ELSE 0)
                                        + (IF g = f THEN 1 ELSE 0)
<1> DEFINE S == Refs(F, f)
           T == Refs(G, f)
           x == <<p, fd>>
<1>1. G \in Tables
  BY DEF Tables
<1>2. IsFiniteSet(S)
  BY Constants, FS_Subset DEF Refs
<1>3. S \ {x} = T \ {x}
  BY DEF Refs, Tables
<1>4. (x \in S <=> F[p][fd] = f) /\ (x \in T <=> g = f)
  BY DEF Refs, Tables
<1> HIDE DEF S, T, x
<1>5. /\ Cardinality(S) \in Nat /\ Cardinality(T) \in Nat
      /\ Cardinality(T) = Cardinality(S) - (IF x \in S THEN 1 ELSE 0)
                                         + (IF x \in T THEN 1 ELSE 0)
  BY <1>2, <1>3, ChangeOne
<1>6. QED
  BY <1>1, <1>4, <1>5 DEF S, T

(* An entry that a descriptor refers to is counted; counted once, no other *)
(* descriptor refers to it.                                                *)
LEMMA Users ==
  ASSUME Types, FilesCounted, NEW p \in Procs, NEW fd \in FDs, filp[p][fd] # NULL
  PROVE  LET f == filp[p][fd]
         IN /\ f \in Entries /\ f_count[f] \in Nat \ {0}
            /\ f_count[f] = 1 =>
                 \A q \in Procs, e \in FDs : filp[q][e] = f => q = p /\ e = fd
<1> DEFINE f == filp[p][fd]
           S == Refs(filp, f)
<1>1. f \in Entries
  BY DEF Types
<1>2. <<p, fd>> \in S
  BY DEF Refs
<1>3. IsFiniteSet(S)
  BY Constants, FS_Subset DEF Refs
<1>4. f_count[f] = Cardinality(S)
  BY <1>1 DEF FilesCounted
<1>5. f_count[f] \in Nat \ {0}
  BY <1>2, <1>3, <1>4, FS_CardinalityType, FS_EmptySet
<1>6. ASSUME f_count[f] = 1, NEW q \in Procs, NEW e \in FDs, filp[q][e] = f
      PROVE  q = p /\ e = fd
  <2>1. <<q, e>> \in S
    BY <1>6 DEF Refs
  <2>2. <<q, e>> = <<p, fd>>
    <3> HIDE DEF S
    <3>1. \E y : S = {y}
      BY <1>3, <1>4, <1>6, FS_Singleton
    <3>2. QED
      BY <1>2, <2>1, <3>1
  <2>3. QED
    BY <2>2
<1>7. QED
  BY <1>1, <1>5, <1>6

(* An entry of the file table with count 0 is behind no descriptor.        *)
LEMMA Unused ==
  ASSUME Types, FilesCounted, NEW f \in Entries, f_count[f] = 0
  PROVE  \A p \in Procs, fd \in FDs : filp[p][fd] # f
BY Users, Constants

(* The search loops of the system calls find a descriptor or an entry      *)
(* whenever there is one.                                                  *)
LEMMA MinFree ==
  /\ \A T \in SUBSET FDs : T # {} => Min(T) \in T
  /\ \A T \in SUBSET Entries : T # {} => Min(T) \in T
BY NatMin, Constants

(* The two searches of sys_pipe find two different numbers among two or    *)
(* more.                                                                   *)
LEMMA SecondFree ==
  ASSUME NEW T \in SUBSET Nat, IsFiniteSet(T), Cardinality(T) >= 2
  PROVE  /\ Min(T) \in T /\ Min(T \ {Min(T)}) \in T
         /\ Min(T \ {Min(T)}) # Min(T)
<1>1. T # {}
  BY FS_EmptySet
<1>2. Min(T) \in T
  BY <1>1, NatMin
<1>3. T \ {Min(T)} # {}
  <2> DEFINE m == Min(T)
             R == T \ {m}
  <2> HIDE DEF m
  <2>1. Cardinality(R) = Cardinality(T) - 1
    BY <1>2, FS_RemoveElement DEF m
  <2>2. Cardinality(T) \in Nat
    BY FS_CardinalityType
  <2>3. R # {}
    BY <2>1, <2>2, FS_EmptySet
  <2>4. QED
    BY <2>3 DEF m
<1>4. QED
  BY <1>2, <1>3, NatMin

(* sys_pipe finds two free entries and two free descriptors.               *)
LEMMA FreeEnds ==
  ASSUME NEW p, SysPipe(p)
  PROVE  /\ Min(FreeEntries) \in FreeEntries
         /\ Min(FreeEntries \ {Min(FreeEntries)}) \in FreeEntries
         /\ Min(FreeEntries \ {Min(FreeEntries)}) # Min(FreeEntries)
         /\ Min(FreeFDs(p)) \in FreeFDs(p)
         /\ Min(FreeFDs(p) \ {Min(FreeFDs(p))}) \in FreeFDs(p)
         /\ Min(FreeFDs(p) \ {Min(FreeFDs(p))}) # Min(FreeFDs(p))
<1>1. FreeEntries \in SUBSET Nat /\ FreeFDs(p) \in SUBSET Nat
  BY Constants DEF FreeEntries, FreeFDs
<1>2. IsFiniteSet(FreeEntries) /\ IsFiniteSet(FreeFDs(p))
  BY Constants, FS_Subset DEF FreeEntries, FreeFDs
<1>3. Cardinality(FreeEntries) >= 2 /\ Cardinality(FreeFDs(p)) >= 2
  BY DEF SysPipe
<1>4. QED
  BY <1>1, <1>2, <1>3, SecondFree

-----------------------------------------------------------------------------
(* What the steps do                                                       *)

Set(F, p, fd, g) == [F EXCEPT ![p][fd] = g]

(* An entry that is closed for good is an end of the pipe or a file, since *)
(* who closes it has no new entries.                                       *)
LEMMA ClosedHasInode ==
  ASSUME Counted, NEW p \in Procs, NEW fd \in Open(p), New(p) = {},
         f_count[filp[p][fd]] = 1
  PROVE  f_inode[filp[p][fd]] \in {"pipe", "file"}
<1> DEFINE f == filp[p][fd]
<1>1. fd \in FDs /\ f # NULL
  BY DEF Open, FreeFDs
<1>2. f \in Entries /\ \A q \in Procs, e \in FDs : filp[q][e] = f => q = p
  BY <1>1, Users DEF Counted
<1>3. \A q \in Procs : f \in New(q) => \E e \in FDs : filp[q][e] = f
  BY DEF New, Counted, Types
<1>4. f_inode[f] # NULL
  BY <1>2, <1>3 DEF Counted, EntryOf
<1>5. QED
  BY <1>2, <1>4 DEF Counted, Types, Inodes

(* The three ways that a close goes.                                       *)
LEMMA CloseDoes ==
  ASSUME Counted, NEW p \in Procs, NEW fd \in Open(p), New(p) = {},
         NEW w \in {"user", "dup2ing", "exiting", "execing"}, CloseTo(p, fd, w)
  PROVE  LET f == filp[p][fd]
         IN /\ fd \in FDs /\ f \in Entries /\ f_count[f] \in Nat \ {0}
            /\ filp' = Set(filp, p, fd, NULL)
            /\ close_on_exec' = [close_on_exec EXCEPT ![p] = @ \ {fd}]
            /\ f_count' = [f_count EXCEPT ![f] = @ - 1]
            /\ alive' = alive
            /\ \/ /\ f_count[f] > 1
                  /\ UNCHANGED <<f_inode, f_mode, i_count, pipeVars, asleep>>
                  /\ At(p, w)
               \/ /\ f_count[f] = 1
                  /\ f_inode' = [f_inode EXCEPT ![f] = NULL]
                  /\ f_mode' = [f_mode EXCEPT ![f] = "none"]
                  /\ \/ f_inode[f] = "pipe" /\ PutPipe /\ At(p, w)
                     \/ f_inode[f] = "file" /\ At(p, "putting")
                        /\ UNCHANGED <<i_count, pipeVars, asleep>>
<1> DEFINE f == filp[p][fd]
<1>1. fd \in FDs /\ f # NULL
  BY DEF Open, FreeFDs
<1>2. f \in Entries /\ f_count[f] \in Nat \ {0}
  BY <1>1, Users DEF Counted
<1>3. f_count[f] = 1 => f_inode[f] \in {"pipe", "file"}
  BY ClosedHasInode
<1>4. CASE f_count[f] > 1
  BY <1>1, <1>2, <1>4 DEF CloseTo, OpenOnExec, Counted, Types, Set
<1>5. CASE f_count[f] = 1
  BY <1>1, <1>2, <1>3, <1>5 DEF CloseTo, OpenOnExec, Set
<1>6. QED
  BY <1>2, <1>4, <1>5

Args ==
  [fd : FDs, fd2 : FDs, then : {"user", "exiting", "execing", "dup2ing"}, left : Nat,
   byte : Bytes \cup {NULL}]

NewArg(p) == \E a \in Args : arg' = [arg EXCEPT ![p] = a]

(* A process closes a descriptor.                                          *)
Closes(p) ==
  /\ pc[p] \in {"user", "exiting", "execing"} /\ p \in alive \ asleep /\ NewArg(p)
  /\ \E fd \in Open(p), w \in {"user", "dup2ing", "exiting", "execing"} : CloseTo(p, fd, w)

(* Descriptor to of p becomes a copy of descriptor fd.                     *)
Copies(p, fd, to) ==
  /\ filp' = Set(filp, p, to, filp[p][fd])
  /\ f_count' = [f_count EXCEPT ![filp[p][fd]] = @ + 1]
  /\ close_on_exec' = OpenOnExec(p, to)

Dups(p) ==
  /\ pc[p] \in {"user", "dup2ing"} /\ p \in alive \ asleep /\ NewArg(p)
  /\ \E fd \in Open(p), to \in FreeFDs(p) : Copies(p, fd, to)
  /\ At(p, "user")
  /\ UNCHANGED <<alive, f_inode, f_mode, i_count, pipeVars, asleep>>

(* A process goes on in the kernel with all tables as they are; who reads  *)
(* or writes the pipe has an end of it.                                    *)
Moves(p) ==
  /\ p \in alive \ asleep /\ pc[p] \notin {"opening", "piping", "putting"}
  /\ NewArg(p) /\ asleep' \in SUBSET Procs
  /\ \E l \in PC \ {"opening", "piping", "putting"} : At(p, l)
  /\ pc'[p] = "reading" =>
       (\E fd \in Open(p) : f_mode[filp[p][fd]] = "read") /\ arg'[p].left > 0
  /\ pc'[p] = "writing" =>
       /\ \E fd \in Open(p) : f_mode[filp[p][fd]] = "write"
       /\ arg'[p].left > 0 /\ arg'[p].byte \in Bytes
  /\ RingOK'
  /\ UNCHANGED <<alive, tableVars, i_count>>

Kinds(p) ==
  \/ SysOpen(p) \/ OpenEnd(p) \/ OpenFails(p)
  \/ Closes(p) \/ PutEnd(p) \/ Dups(p) \/ SetCloseOnExec(p)
  \/ Fork(p) \/ ExitEnd(p)
  \/ SysPipe(p) \/ PipeEnd(p) \/ PipeFails(p)
  \/ Moves(p)

(* dupfd copies, or does nothing.                                          *)
LEMMA DupDoes ==
  ASSUME Types, NEW p \in Procs, NEW fd \in FDs, NEW n, DupFd(p, fd, n)
  PROVE  \/ UNCHANGED tableVars
         \/ /\ fd \in Open(p)
            /\ \E to \in FreeFDs(p) : Copies(p, fd, to)
            /\ UNCHANGED <<f_inode, f_mode>>
<1> DEFINE free == {a \in FreeFDs(p) : a >= n}
<1>1. CASE filp[p][fd] = NULL \/ free = {}
  BY <1>1 DEF DupFd
<1>2. CASE filp[p][fd] # NULL /\ free # {}
  <2>1. Min(free) \in FreeFDs(p)
    <3>1. free \in SUBSET FDs
      BY DEF FreeFDs
    <3>2. Min(free) \in free
      BY <1>2, <3>1, MinFree
    <3>3. QED
      BY <3>2
  <2>2. fd \in Open(p)
    BY <1>2 DEF Open, FreeFDs
  <2>3. Copies(p, fd, Min(free)) /\ UNCHANGED <<f_inode, f_mode>>
    BY <1>2 DEF DupFd, Copies, Set
  <2>4. QED
    BY <2>1, <2>2, <2>3
<1>3. QED
  BY <1>1, <1>2

(* The indices stay in the ring, and k bytes are no more than there is     *)
(* room for.                                                               *)
LEMMA Indices ==
  ASSUME RingOK
  PROVE  /\ PipeSize \in 0..(PAGE_SIZE - 1)
         /\ \A n \in Nat : /\ IncPipe(head, n) \in 0..(PAGE_SIZE - 1)
                           /\ IncPipe(tail, n) \in 0..(PAGE_SIZE - 1)
BY FilesAssumption DEF RingOK, PipeSize, IncPipe

(* The room left in the ring is a natural number.                          *)
LEMMA Room ==
  ASSUME RingOK
  PROVE  PAGE_SIZE - 1 - PipeSize \in Nat
BY Indices, FilesAssumption

(* The smaller of two sizes, which limits what a pass copies.              *)
LEMMA Least ==
  ASSUME NEW m \in Nat, NEW n \in Nat
  PROVE  Min({m, n}) = IF m <= n THEN m ELSE n
<1>1. {m, n} \in SUBSET Nat /\ {m, n} # {}
  OBVIOUS
<1>2. Min({m, n}) \in {m, n} /\ Min({m, n}) <= m /\ Min({m, n}) <= n
  BY <1>1, NatMin
<1>3. QED
  BY <1>2

(* A pass of a read or write leaves a page of bytes and indices inside     *)
(* it.                                                                     *)
LEMMA PassRing ==
  ASSUME RingOK, NEW p, NEW n \in Nat \ {0},
         ReadPass(p, n) \/ \E b \in Bytes : WritePass(p, b, n)
  PROVE  RingOK'
<1>1. CASE ReadPass(p, n)
  <2>1. CASE UNCHANGED <<ring, head, tail>> /\ told' \in {"ok", "eof", "broken"}
    BY <2>1 DEF RingOK
  <2>2. CASE ~PipeEmpty
    <3> DEFINE k == Min({n, PipeSize})
    <3>1. k \in Nat
      BY Least, Indices, SMTT(60)
    <3>2. tail' \in 0..(PAGE_SIZE - 1)
      BY <1>1, <2>2, <3>1, Indices DEF ReadPass
    <3>3. ring' \in [0..(PAGE_SIZE - 1) -> Bytes \cup {NULL}]
      BY <1>1, <2>2 DEF ReadPass, RingOK
    <3>4. QED
      BY <1>1, <2>2, <3>2, <3>3 DEF ReadPass, RingOK
  <2>3. QED
    BY <1>1, <2>1, <2>2 DEF ReadPass, pipeVars, RingOK
<1>2. ASSUME NEW b \in Bytes, WritePass(p, b, n)
      PROVE  RingOK'
  <2> DEFINE k == Min({n, PAGE_SIZE - 1 - PipeSize})
  <2>1. k \in Nat
    BY Least, Room
  <2>2. head' \in 0..(PAGE_SIZE - 1) /\ tail' = tail
    BY <1>2, <2>1, Indices DEF WritePass
  <2>3. ring' \in [0..(PAGE_SIZE - 1) -> Bytes \cup {NULL}]
    BY <1>2 DEF WritePass, RingOK
  <2>4. told' \in {"ok", "eof", "broken"}
    BY <1>2 DEF WritePass, RingOK
  <2>5. QED
    BY <2>2, <2>3, <2>4 DEF RingOK
<1>3. QED
  BY <1>1, <1>2

(* One pass over the pipe of a process that has an end of it and so much   *)
(* to read or write.                                                       *)
LEMMA PassMoves ==
  ASSUME Types, NEW p \in Procs, NEW n \in Nat \ {0},
         p \in alive \ asleep, pc[p] \in {"user", "reading", "writing"},
         UNCHANGED <<alive, tableVars, i_count>>,
         \/ /\ ReadPass(p, n)
            /\ \E fd \in Open(p) : f_mode[filp[p][fd]] = "read"
         \/ \E b \in Bytes :
              /\ WritePass(p, b, n)
              /\ \E fd \in Open(p) : f_mode[filp[p][fd]] = "write"
  PROVE  Moves(p)
<1> DEFINE k == Min({n, PipeSize})
<1>0. RingOK'
  BY PassRing DEF Types
<1>a. arg[p] \in Args
  BY DEF Args, Types
<1>1. Locals \in Args /\ \A m \in Nat : [arg[p] EXCEPT !.left = m] \in Args
  <2>1. Locals \in Args
    BY Constants DEF Locals, Args
  <2>2. ASSUME NEW m \in Nat
        PROVE  [arg[p] EXCEPT !.left = m] \in Args
    BY <1>a DEF Args
  <2>3. QED
    BY <2>1, <2>2
<1>2. ASSUME NEW m \in Nat, NEW b \in Bytes
      PROVE  [arg[p] EXCEPT !.left = m, !.byte = b] \in Args
  BY <1>a DEF Args
<1>3. {} \in SUBSET Procs /\ {p} \in SUBSET Procs
  OBVIOUS
<1>4. pc' \in [Procs -> PC] => pc'[p] \in PC
  OBVIOUS
<1>5. CASE /\ ReadPass(p, n)
           /\ \E fd \in Open(p) : f_mode[filp[p][fd]] = "read"
  <2>1. CASE At(p, "user") /\ arg' = [arg EXCEPT ![p] = Locals] /\ asleep' = {}
    BY <1>0, <1>1, <1>3, <2>1 DEF Moves, NewArg, At, PC, Types
  <2>2. CASE At(p, "reading") /\ arg' = [arg EXCEPT ![p].left = n] /\ asleep' = {p}
    <3>1. arg' = [arg EXCEPT ![p] = [arg[p] EXCEPT !.left = n]]
      BY <2>2 DEF Types
    <3>2. arg'[p].left = n
      BY <3>1 DEF Types
    <3>3. NewArg(p)
      BY <1>1, <3>1 DEF NewArg
    <3>4. pc'[p] = "reading"
      BY <2>2 DEF At, Types
    <3>5. QED
      BY <1>0, <1>3, <1>5, <2>2, <3>2, <3>3, <3>4 DEF Moves, PC
  <2>3. QED
    BY <1>5, <2>1, <2>2 DEF ReadPass
<1>6. ASSUME NEW b \in Bytes, WritePass(p, b, n),
             \E fd \in Open(p) : f_mode[filp[p][fd]] = "write"
      PROVE  Moves(p)
  <2> DEFINE room == PAGE_SIZE - 1 - PipeSize
             m == Min({n, room})
  <2>1. CASE At(p, "user") /\ arg' = [arg EXCEPT ![p] = Locals] /\ asleep' = {}
    BY <1>0, <1>1, <1>3, <2>1 DEF Moves, NewArg, At, PC, Types
  <2>2. CASE /\ At(p, "writing") /\ m # n
             /\ arg' = [arg EXCEPT ![p].left = n - m, ![p].byte = b] /\ asleep' = {p}
    <3>1. arg' = [arg EXCEPT ![p] = [arg[p] EXCEPT !.left = n - m, !.byte = b]]
      BY <2>2 DEF Types
    <3>2. n - m \in Nat \ {0}
      <4>1. room \in Nat
        BY Room DEF Types
      <4>2. m = IF n <= room THEN n ELSE room
        BY <4>1, Least
      <4> HIDE DEF room, m
      <4>3. QED
        BY <2>2, <4>1, <4>2
    <3>3. arg'[p].left = n - m /\ arg'[p].byte = b
      BY <3>1 DEF Types
    <3>4. NewArg(p)
      BY <1>2, <3>1, <3>2 DEF NewArg
    <3>5. pc'[p] = "writing"
      BY <2>2 DEF At, Types
    <3>6. QED
      BY <1>0, <1>3, <1>6, <2>2, <3>2, <3>3, <3>4, <3>5 DEF Moves, PC
  <2>3. QED
    BY <1>6, <2>1, <2>2 DEF WritePass
<1>7. QED
  BY <1>5, <1>6

(* A process that goes on with nothing but its place and locals changed.   *)
LEMMA OnlyMoves ==
  ASSUME Types, NEW p \in Procs, p \in alive \ asleep,
         pc[p] \notin {"opening", "piping", "putting"}, NewArg(p),
         NEW l \in PC \ {"opening", "piping", "putting", "reading", "writing"}, At(p, l),
         UNCHANGED <<alive, tableVars, i_count, pipeVars, asleep>>
  PROVE  Moves(p)
<1>1. RingOK'
  BY DEF Types, RingOK, pipeVars
<1>2. asleep' \in SUBSET Procs
  BY DEF Types
<1>3. pc'[p] = l
  <2>1. pc' = [pc EXCEPT ![p] = l] /\ pc \in [Procs -> PC]
    BY DEF At, Types
  <2>2. QED
    BY <2>1
<1>4. QED
  BY <1>1, <1>2, <1>3 DEF Moves

(* The ways in which a step writes the locals of its process keep their    *)
(* types.                                                                  *)
LEMMA SameArg ==
  ASSUME Types, NEW p \in Procs
  PROVE  /\ UNCHANGED arg => NewArg(p)
         /\ arg' = [arg EXCEPT ![p] = Locals] => NewArg(p)
         /\ \A l \in {"user", "exiting", "execing", "dup2ing"} :
              arg' = [arg EXCEPT ![p].then = l] => NewArg(p)
         /\ \A a \in FDs, b \in FDs, l \in {"user", "exiting", "execing", "dup2ing"} :
              arg' = [arg EXCEPT ![p].fd = a, ![p].fd2 = b, ![p].then = l] => NewArg(p)
<1>1. arg[p] \in Args /\ Locals \in Args
  BY Constants DEF Types, Args, Locals
<1>2. UNCHANGED arg => arg' = [arg EXCEPT ![p] = arg[p]]
  BY DEF Types
<1>3. ASSUME NEW l \in {"user", "exiting", "execing", "dup2ing"}, arg' = [arg EXCEPT ![p].then = l]
      PROVE  NewArg(p)
  <2>1. [arg[p] EXCEPT !.then = l] \in Args
    BY <1>1 DEF Args
  <2>2. arg' = [arg EXCEPT ![p] = [arg[p] EXCEPT !.then = l]]
    BY <1>3 DEF Types
  <2>3. QED
    BY <2>1, <2>2 DEF NewArg
<1>4. ASSUME NEW a \in FDs, NEW b \in FDs, NEW l \in {"user", "exiting", "execing", "dup2ing"},
             arg' = [arg EXCEPT ![p].fd = a, ![p].fd2 = b, ![p].then = l]
      PROVE  NewArg(p)
  <2>1. [arg[p] EXCEPT !.fd = a, !.fd2 = b, !.then = l] \in Args
    BY <1>1 DEF Args
  <2>2. arg' = [arg EXCEPT ![p] = [arg[p] EXCEPT !.fd = a, !.fd2 = b, !.then = l]]
    BY <1>4 DEF Types
  <2>3. QED
    BY <2>1, <2>2 DEF NewArg
<1>5. QED
  BY <1>1, <1>2, <1>3, <1>4 DEF NewArg

(* Every step is of one of the kinds.                                      *)
LEMMA StepKinds ==
  ASSUME Counted, NEW p \in Procs, Steps(p)
  PROVE  Kinds(p)
<1> USE DEF Runs
<1>t. Types /\ ProcessOf(p)
  BY DEF Counted
<1>1. CASE SysOpen(p) \/ OpenEnd(p) \/ OpenFails(p) \/ PutEnd(p) \/ SetCloseOnExec(p)
           \/ Fork(p) \/ ExitEnd(p) \/ SysPipe(p) \/ PipeEnd(p) \/ PipeFails(p)
  BY <1>1, Zenon DEF Kinds
<1>2. CASE SysClose(p)
  BY <1>t, <1>2, SameArg DEF SysClose, Kinds, Closes
<1>3. CASE SysDup(p)
  <2>1. PICK fd \in Open(p), n \in {0, NR_OPEN - 1} : DupFd(p, fd, n)
    BY <1>3 DEF SysDup
  <2>2. fd \in FDs
    BY SMTT(60) DEF Open
  <2>3. NewArg(p) /\ At(p, "user")
    BY <1>t, <1>3, SameArg DEF SysDup, At, Types
  <2>4. CASE UNCHANGED tableVars
    BY <1>t, <1>3, <2>3, <2>4, OnlyMoves DEF SysDup, Kinds, PC
  <2>5. CASE \E to \in FreeFDs(p) : Copies(p, fd, to) /\ UNCHANGED <<f_inode, f_mode>>
    BY <1>3, <2>3, <2>5 DEF SysDup, Kinds, Dups
  <2>6. QED
    BY <1>t, <2>1, <2>2, <2>4, <2>5, DupDoes
<1>4. CASE SysDup2(p)
  <2>1. PICK old \in FDs, new \in FDs :
           /\ arg' = [arg EXCEPT ![p].fd = old, ![p].fd2 = new, ![p].then = "dup2ing"]
           /\ IF filp[p][new] # NULL
                THEN CloseTo(p, new, "dup2ing")
                ELSE /\ At(p, "dup2ing")
                     /\ cpu' = p
                     /\ UNCHANGED <<alive, tableVars, i_count, pipeVars, asleep>>
    BY <1>4 DEF SysDup2
  <2>2. NewArg(p)
    BY <1>t, <2>1, SameArg
  <2>3. CASE filp[p][new] # NULL
    <3>1. new \in Open(p)
      BY <2>3 DEF Open, FreeFDs
    <3>2. QED
      BY <1>4, <2>1, <2>2, <2>3, <3>1 DEF SysDup2, Kinds, Closes
  <2>4. CASE filp[p][new] = NULL
    BY <1>t, <1>4, <2>1, <2>2, <2>4, OnlyMoves DEF SysDup2, Kinds, PC
  <2>5. QED
    BY <2>3, <2>4
<1>5. CASE Dup2End(p)
  <2>1. arg[p].fd \in FDs
    BY <1>t DEF Types
  <2>2. NewArg(p)
    BY <1>t, <1>5, SameArg DEF Dup2End
  <2>3. CASE UNCHANGED tableVars
    BY <1>t, <1>5, <2>2, <2>3, OnlyMoves DEF Dup2End, Kinds, PC
  <2>4. CASE /\ arg[p].fd \in Open(p) /\ UNCHANGED <<f_inode, f_mode>>
             /\ \E to \in FreeFDs(p) : Copies(p, arg[p].fd, to)
    BY <1>5, <2>2, <2>4 DEF Dup2End, Kinds, Dups
  <2>5. QED
    BY <1>t, <1>5, <2>1, <2>3, <2>4, DupDoes DEF Dup2End
<1>6. CASE Exit(p)
  <2>1. /\ pc[p] = "user" /\ p \in alive \ asleep /\ At(p, "exiting")
        /\ arg' = [arg EXCEPT ![p].then = "exiting"]
        /\ UNCHANGED <<alive, tableVars, i_count, pipeVars, asleep>>
    BY <1>6 DEF Exit
  <2>2. NewArg(p)
    BY <1>t, <2>1, SameArg
  <2>3. "exiting" \in PC \ {"opening", "piping", "putting", "reading", "writing"}
    BY DEF PC
  <2>4. Moves(p)
    BY <1>t, <2>1, <2>2, <2>3, OnlyMoves
  <2>5. QED
    BY <2>4 DEF Kinds
<1>7. CASE ExitClose(p)
  <2>1. Min(Open(p)) \in Open(p)
    BY <1>t, <1>7, MinFree DEF ExitClose, Open
  <2>2. QED
    BY <1>t, <1>7, <2>1, SameArg DEF ExitClose, Kinds, Closes
<1>8. CASE Exec(p)
  <2>1. /\ pc[p] = "user" /\ p \in alive \ asleep /\ At(p, "execing")
        /\ arg' = [arg EXCEPT ![p].then = "execing"]
        /\ UNCHANGED <<alive, tableVars, i_count, pipeVars, asleep>>
    BY <1>8 DEF Exec
  <2>2. NewArg(p)
    BY <1>t, <2>1, SameArg
  <2>3. "execing" \in PC \ {"opening", "piping", "putting", "reading", "writing"}
    BY DEF PC
  <2>4. Moves(p)
    BY <1>t, <2>1, <2>2, <2>3, OnlyMoves
  <2>5. QED
    BY <2>4 DEF Kinds
<1>9. CASE ExecClose(p)
  <2>1. close_on_exec[p] \in SUBSET FDs /\ close_on_exec[p] \subseteq Open(p)
    BY <1>t DEF Types, ProcessOf
  <2>2. Min(close_on_exec[p]) \in Open(p)
    BY <1>t, <1>9, <2>1, MinFree DEF ExecClose
  <2>3. QED
    BY <1>t, <1>9, <2>2, SameArg DEF ExecClose, Kinds, Closes
<1>10. CASE ExecEnd(p)
  BY <1>t, <1>10, SameArg, OnlyMoves DEF ExecEnd, Kinds, PC
<1>11. CASE SysRead(p)
  <2>1. PICK fd \in Open(p), n \in Counts : f_mode[filp[p][fd]] = "read" /\ ReadPass(p, n)
    BY <1>11 DEF SysRead
  <2>2. n \in Nat \ {0}
    BY FilesAssumption
  <2>3. QED
    BY <1>t, <1>11, <2>1, <2>2, PassMoves DEF SysRead, Kinds
<1>12. CASE ReadAgain(p)
  <2>1. arg[p].left \in Nat \ {0} /\ \E fd \in Open(p) : f_mode[filp[p][fd]] = "read"
    BY <1>t, <1>12 DEF ReadAgain, ProcessOf, Types
  <2>2. QED
    BY <1>t, <1>12, <2>1, PassMoves DEF ReadAgain, Kinds
<1>13. CASE SysWrite(p)
  <2>1. PICK fd \in Open(p), n \in Counts, b \in Bytes :
          /\ f_mode[filp[p][fd]] = "write"
          /\ IF i_count["pipe"] # 2
               THEN /\ told' = "broken"
                    /\ asleep' = {}
                    /\ UNCHANGED <<ring, head, tail, pc, arg>>
               ELSE WritePass(p, b, n)
    BY <1>13 DEF SysWrite
  <2>2. n \in Nat \ {0}
    BY FilesAssumption
  <2>3. CASE i_count["pipe"] # 2
    <3>1. RingOK'
      BY <1>t, <2>1, <2>3, SMTT(60) DEF Types, RingOK
    <3>2. pc'[p] = "user" /\ At(p, "user") /\ NewArg(p) /\ asleep' \in SUBSET Procs
      BY <1>t, <1>13, <2>1, <2>3, SameArg DEF SysWrite, At, Types
    <3>3. QED
      BY <1>13, <3>1, <3>2 DEF SysWrite, Kinds, Moves, PC
  <2>4. CASE i_count["pipe"] = 2
    BY <1>t, <1>13, <2>1, <2>2, <2>4, PassMoves DEF SysWrite, Kinds
  <2>5. QED
    BY <2>3, <2>4
<1>14. CASE WriteAgain(p)
  <2>1. /\ arg[p].left \in Nat \ {0} /\ arg[p].byte \in Bytes
        /\ \E fd \in Open(p) : f_mode[filp[p][fd]] = "write"
    BY <1>t, <1>14 DEF WriteAgain, ProcessOf, Types
  <2>2. QED
    BY <1>t, <1>14, <2>1, PassMoves DEF WriteAgain, Kinds
<1>15. QED
  BY <1>1, <1>2, <1>3, <1>4, <1>5, <1>6, <1>7, <1>8, <1>9, <1>10, <1>11, <1>12, <1>13, <1>14
     DEF Steps

-----------------------------------------------------------------------------
(* The types                                                               *)

LEMMA InPipe ==
  ASSUME Counted, NEW p \in Procs
  PROVE  /\ arg[p].fd \in FDs /\ arg[p].fd2 \in FDs
         /\ pc[p] = "opening" => filp[p][arg[p].fd] \in Entries
         /\ pc[p] = "piping" => /\ filp[p][arg[p].fd] \in Entries
                                /\ filp[p][arg[p].fd2] \in Entries
                                /\ arg[p].fd # arg[p].fd2
                                /\ filp[p][arg[p].fd] # filp[p][arg[p].fd2]
<1>1. arg[p].fd \in FDs /\ arg[p].fd2 \in FDs
  BY DEF Counted, Types
<1>2. \A f \in New(p) : f \in Entries
  BY DEF Counted, ProcessOf
<1>3. QED
  BY <1>1, <1>2 DEF Counted, ProcessOf, New

(* Emptying the pipe with its last end, or leaving it alone, keeps its     *)
(* type.                                                                   *)
LEMMA PutRing ==
  ASSUME RingOK, PutPipe \/ UNCHANGED pipeVars
  PROVE  RingOK'
<1>1. CASE UNCHANGED pipeVars
  BY <1>1 DEF RingOK, pipeVars
<1>2. CASE PutPipe
  BY <1>2, FilesAssumption DEF RingOK, PutPipe
<1>3. QED
  BY <1>1, <1>2

(* Every kind of step keeps the types.                                     *)
LEMMA TypesStep ==
  ASSUME Counted, NEW p \in Procs, Kinds(p)
  PROVE  Types'
<1> USE DEF Types, Runs, At
<1>0. Types
  BY DEF Counted
<1>a. UNCHANGED pipeVars => RingOK'
  BY <1>0 DEF RingOK, pipeVars
<1>l. Locals \in Args
  BY Constants DEF Locals, Args
<1>n. NewArg(p) => arg' \in [Procs -> Args]
  BY <1>0 DEF NewArg, Args
<1>c. \A fd \in FDs : OpenOnExec(p, fd) \in [Procs -> SUBSET FDs]
  BY <1>0 DEF OpenOnExec
<1>1. CASE SysOpen(p)
  <2> DEFINE fd == Min(FreeFDs(p))
             f == Min(FreeEntries)
  <2>1. fd \in FDs /\ f \in Entries
    BY <1>1, MinFree DEF SysOpen, FreeFDs, FreeEntries
  <2> HIDE DEF fd, f
  <2>2. /\ filp' = [filp EXCEPT ![p][fd] = f]
        /\ f_count' = [f_count EXCEPT ![f] = @ + 1]
        /\ close_on_exec' = OpenOnExec(p, fd)
        /\ arg' = [arg EXCEPT ![p].fd = fd]
        /\ pc' = [pc EXCEPT ![p] = "opening"]
        /\ UNCHANGED <<alive, f_inode, f_mode, i_count, pipeVars, asleep, cpu>>
    BY <1>1 DEF SysOpen, fd, f
  <2>3. arg' \in [Procs -> Args]
    BY <1>0, <2>1, <2>2, ZenonT(60) DEF Args
  <2>4. QED
    BY <1>0, <1>a, <1>c, <2>1, <2>2, <2>3 DEF Args, PC
<1>2. CASE OpenEnd(p)
  BY <1>0, <1>2, <1>a, <1>l, InPipe DEF OpenEnd, Args, PC, Inodes
<1>3. CASE OpenFails(p)
  BY <1>0, <1>3, <1>a, <1>l, InPipe DEF OpenFails, Args, PC
<1>4. CASE Closes(p)
  <2>1. New(p) = {}
    BY <1>4 DEF Closes, New
  <2>2. PICK fd \in Open(p), w \in {"user", "dup2ing", "exiting", "execing"} : CloseTo(p, fd, w)
    BY <1>4 DEF Closes
  <2> DEFINE f == filp[p][fd]
  <2> HIDE DEF f
  <2>3. /\ fd \in FDs /\ f \in Entries /\ f_count[f] \in Nat \ {0}
        /\ filp' = Set(filp, p, fd, NULL)
        /\ close_on_exec' = [close_on_exec EXCEPT ![p] = @ \ {fd}]
        /\ f_count' = [f_count EXCEPT ![f] = @ - 1]
        /\ alive' = alive
        /\ \/ /\ f_count[f] > 1
              /\ UNCHANGED <<f_inode, f_mode, i_count, pipeVars, asleep>>
              /\ At(p, w)
           \/ /\ f_count[f] = 1
              /\ f_inode' = [f_inode EXCEPT ![f] = NULL]
              /\ f_mode' = [f_mode EXCEPT ![f] = "none"]
              /\ \/ f_inode[f] = "pipe" /\ PutPipe /\ At(p, w)
                 \/ f_inode[f] = "file" /\ At(p, "putting")
                    /\ UNCHANGED <<i_count, pipeVars, asleep>>
    BY <2>1, <2>2, CloseDoes DEF f
  <2>4. filp' \in [Procs -> [FDs -> Entries \cup {NULL}]]
    BY <1>0, <2>3 DEF Set
  <2>5. RingOK'
    BY <1>0, <2>3, PutRing DEF pipeVars
  <2>6. i_count' \in [Inodes -> Int] /\ asleep' \in SUBSET Procs
    BY <1>0, <2>3 DEF PutPipe
  <2>7. f_count' \in [Entries -> Nat]
    BY <1>0, <2>3
  <2>8. /\ f_inode' \in [Entries -> Inodes \cup {NULL}]
        /\ f_mode' \in [Entries -> {"none", "file", "read", "write"}]
    BY <1>0, <2>3
  <2>p. pc' \in [Procs -> PC]
    <3>1. At(p, w) \/ At(p, "putting")
      BY <2>3
    <3>2. QED
      BY <1>0, <3>1 DEF At, PC
  <2>9. arg' \in [Procs -> Args]
    BY <1>4, <1>n DEF Closes
  <2>10. QED
    BY <1>0, <2>3, <2>4, <2>5, <2>6, <2>7, <2>8, <2>p, <2>9 DEF Args
<1>5. CASE PutEnd(p)
  BY <1>0, <1>5, <1>a DEF PutEnd, PC, tableVars, Inodes
<1>6. CASE Dups(p)
  <2>1. PICK fd \in Open(p), to \in FreeFDs(p) : Copies(p, fd, to)
    BY <1>6 DEF Dups
  <2>2. fd \in FDs /\ to \in FDs /\ filp[p][fd] \in Entries
    BY <1>0 DEF Open, FreeFDs
  <2>3. /\ filp' \in [Procs -> [FDs -> Entries \cup {NULL}]]
        /\ f_count' \in [Entries -> Nat]
        /\ close_on_exec' \in [Procs -> SUBSET FDs]
    BY <1>0, <1>c, <2>1, <2>2 DEF Copies, Set
  <2>4. pc' \in [Procs -> PC] /\ arg' \in [Procs -> Args]
    BY <1>0, <1>6, <1>n DEF Dups, PC
  <2>5. RingOK' /\ UNCHANGED <<alive, f_inode, f_mode, i_count, asleep>>
    BY <1>6, <1>a DEF Dups
  <2>6. QED
    BY <1>0, <2>3, <2>4, <2>5 DEF Args
<1>7. CASE SetCloseOnExec(p)
  BY <1>0, <1>7, <1>a DEF SetCloseOnExec, Open
<1>8. CASE Fork(p)
  <2>1. \A f \in Entries : Cardinality({fd \in FDs : filp[p][fd] = f}) \in Nat
    BY Constants, CountPart
  <2>2. f_count' \in [Entries -> Nat]
    BY <1>0, <1>8, <2>1, SMTT(60) DEF Fork
  <2>3. QED
    BY <1>0, <1>8, <1>a, <2>2 DEF Fork
<1>9. CASE ExitEnd(p)
  BY <1>0, <1>9, <1>a, <1>l DEF ExitEnd, Args, PC
<1>10. CASE SysPipe(p)
  <2> DEFINE f0 == Min(FreeEntries)
             f1 == Min(FreeEntries \ {f0})
             d0 == Min(FreeFDs(p))
             d1 == Min(FreeFDs(p) \ {d0})
  <2>1. f0 \in Entries /\ f1 \in Entries /\ d0 \in FDs /\ d1 \in FDs
    BY <1>10, FreeEnds DEF FreeEntries, FreeFDs
  <2> HIDE DEF f0, f1, d0, d1
  <2>2. /\ f_count' = [f_count EXCEPT ![f0] = 1, ![f1] = 1]
        /\ filp' = [filp EXCEPT ![p][d0] = f0, ![p][d1] = f1]
        /\ arg' = [arg EXCEPT ![p].fd = d0, ![p].fd2 = d1]
        /\ pc' = [pc EXCEPT ![p] = "piping"]
        /\ UNCHANGED <<alive, close_on_exec, f_inode, f_mode, i_count, pipeVars, asleep, cpu>>
    BY <1>10 DEF SysPipe, f0, f1, d0, d1
  <2>3. arg' \in [Procs -> Args]
    <3>1. arg[p] \in Args /\ arg \in [Procs -> Args]
      BY <1>0 DEF Args
    <3>2. [arg[p] EXCEPT !.fd = d0, !.fd2 = d1] \in Args
      BY <2>1, <3>1 DEF Args
    <3>3. arg' = [arg EXCEPT ![p] = [arg[p] EXCEPT !.fd = d0, !.fd2 = d1]]
      BY <2>2, <3>1
    <3>4. QED
      BY <3>1, <3>2, <3>3
  <2>4. QED
    BY <1>0, <1>a, <2>1, <2>2, <2>3 DEF Args, PC
<1>11. CASE PipeEnd(p)
  <2>1. RingOK'
    BY <1>0, <1>11, FilesAssumption DEF PipeEnd, RingOK
  <2>2. pc' \in [Procs -> PC] /\ arg' \in [Procs -> Args]
    BY <1>0, <1>11, <1>l DEF PipeEnd, PC, Args
  <2>3. /\ f_inode' \in [Entries -> Inodes \cup {NULL}]
        /\ f_mode' \in [Entries -> {"none", "file", "read", "write"}]
        /\ i_count' \in [Inodes -> Int]
    <3> DEFINE f0 == filp[p][arg[p].fd]
               f1 == filp[p][arg[p].fd2]
    <3>1. f0 \in Entries /\ f1 \in Entries
      BY <1>11, InPipe DEF PipeEnd
    <3>2. /\ f_inode' = [f_inode EXCEPT ![f0] = "pipe", ![f1] = "pipe"]
          /\ f_mode' = [f_mode EXCEPT ![f0] = "read", ![f1] = "write"]
          /\ i_count' = [i_count EXCEPT !["pipe"] = 2]
      BY <1>11 DEF PipeEnd
    <3> HIDE DEF f0, f1
    <3>3. f_inode' \in [Entries -> Inodes \cup {NULL}]
      BY <1>0, <3>1, <3>2 DEF Inodes
    <3>4. f_mode' \in [Entries -> {"none", "file", "read", "write"}]
      BY <1>0, <3>1, <3>2
    <3>5. i_count' \in [Inodes -> Int]
      <4>1. i_count \in [Inodes -> Int] /\ 2 \in Int
        BY <1>0
      <4>2. QED
        BY <3>2, <4>1, Zenon
    <3>6. QED
      BY <3>3, <3>4, <3>5
  <2>4. UNCHANGED <<alive, filp, close_on_exec, f_count, asleep>>
    BY <1>11 DEF PipeEnd
  <2>5. QED
    BY <1>0, <2>1, <2>2, <2>3, <2>4 DEF Args
<1>12. CASE PipeFails(p)
  BY <1>0, <1>12, <1>a, <1>l, InPipe DEF PipeFails, Args, PC
<1>13. CASE Moves(p)
  <2>1. pc' \in [Procs -> PC] /\ arg' \in [Procs -> Args]
    <3>1. \A l \in PC : [pc EXCEPT ![p] = l] \in [Procs -> PC]
      BY <1>0
    <3>2. QED
      BY <1>13, <1>n, <3>1 DEF Moves
  <2>2. RingOK' /\ asleep' \in SUBSET Procs /\ UNCHANGED <<alive, tableVars, i_count>>
    BY <1>13 DEF Moves
  <2>3. QED
    BY <1>0, <2>1, <2>2 DEF tableVars, Args
<1>14. QED
  BY <1>1, <1>2, <1>3, <1>4, <1>5, <1>6, <1>7, <1>8, <1>9, <1>10, <1>11, <1>12, <1>13 DEF Kinds

-----------------------------------------------------------------------------
(* The counts of the entries                                               *)

(* A child's descriptors refer to what its father's do.                    *)
LEMMA ForkRefs ==
  ASSUME NEW F \in Tables, NEW p \in Procs, NEW c \in Procs, p # c,
         \A fd \in FDs : F[c][fd] = NULL, NEW f \in Entries,
         NEW E, E = [F EXCEPT ![c] = F[p]]
  PROVE  Cardinality(Refs(E, f))
           = Cardinality(Refs(F, f)) + Cardinality({fd \in FDs : F[p][fd] = f})
<1> DEFINE S == Refs(F, f)
           U == {fd \in FDs : F[p][fd] = f}
           T == {c} \X U
           G == Refs(E, f)
<1>1. f # NULL
  BY Constants
<1>2. G = S \cup T /\ S \cap T = {}
  BY <1>1 DEF Refs, Tables
<1>3. IsFiniteSet(S) /\ IsFiniteSet(U)
  BY Constants, FS_Subset DEF Refs
<1> HIDE DEF S, U, G
<1>4. IsFiniteSet({c}) /\ Cardinality({c}) = 1
  BY FS_Singleton
<1>5. IsFiniteSet(T) /\ Cardinality(T) = Cardinality({c}) * Cardinality(U)
  BY <1>3, <1>4, FS_Product
<1>6. Cardinality(T) = Cardinality(U)
  BY <1>3, <1>4, <1>5, FS_CardinalityType
<1> HIDE DEF T
<1>7. Cardinality(S \cap T) = 0
  BY <1>2, FS_EmptySet
<1>8. Cardinality(G) = Cardinality(S) + Cardinality(T) - Cardinality(S \cap T)
  BY <1>2, <1>3, <1>5, FS_Union
<1>9. QED
  BY <1>3, <1>5, <1>6, <1>7, <1>8, FS_CardinalityType DEF S, U, G

(* Every kind of step keeps f_count equal to the number of descriptors.    *)
LEMMA FilesCountedStep ==
  ASSUME Counted, NEW p \in Procs, Kinds(p)
  PROVE  FilesCounted'
<1> SUFFICES ASSUME NEW g \in Entries
             PROVE  f_count'[g] = Cardinality(Refs(filp', g))
  BY DEF FilesCounted
<1>t. Types /\ FilesCounted
  BY DEF Counted
<1>f. filp \in Tables /\ f_count \in [Entries -> Nat]
  BY <1>t DEF Types, Tables
<1>g. f_count[g] = Cardinality(Refs(filp, g)) /\ f_count[g] \in Nat
  BY <1>t, <1>f DEF FilesCounted
<1>n. NULL # g
  BY Constants
<1>1. CASE SysOpen(p)
  <2> DEFINE fd == Min(FreeFDs(p))
             f == Min(FreeEntries)
  <2>1. fd \in FreeFDs(p) /\ f \in FreeEntries
    BY <1>1, MinFree DEF SysOpen, FreeFDs, FreeEntries
  <2>2. /\ filp' = [filp EXCEPT ![p][fd] = f]
        /\ f_count' = [f_count EXCEPT ![f] = @ + 1]
    BY <1>1 DEF SysOpen
  <2> HIDE DEF fd, f
  <2>3. fd \in FDs /\ f \in Entries /\ filp[p][fd] = NULL
    BY <2>1 DEF FreeFDs, FreeEntries
  <2>4. Cardinality(Refs(filp', g)) = Cardinality(Refs(filp, g)) - 0 + (IF f = g THEN 1 ELSE 0)
    <3> DEFINE G == [filp EXCEPT ![p][fd] = f]
    <3>1. /\ G \in Tables
          /\ Cardinality(Refs(G, g)) \in Nat
          /\ Cardinality(Refs(G, g)) = Cardinality(Refs(filp, g)) - 0 + (IF f = g THEN 1 ELSE 0)
      BY <1>f, <1>n, <2>3, RefsChange
    <3>2. filp' = G
      BY <2>2
    <3> HIDE DEF G
    <3>3. QED
      BY <3>1, <3>2
  <2>5. QED
    BY <1>f, <1>g, <2>2, <2>3, <2>4
<1>2. CASE OpenEnd(p)
  <2> DEFINE f == filp[p][arg[p].fd]
  <2>1. f_count[f] = 1
    BY <1>2 DEF OpenEnd, Runs, Counted, ProcessOf, New
  <2>2. f_count' = [f_count EXCEPT ![f] = 1] /\ filp' = filp
    BY <1>2 DEF OpenEnd
  <2> HIDE DEF f
  <2>3. f_count'[g] = f_count[g]
    BY <1>f, <2>1, <2>2
  <2>4. QED
    BY <1>g, <2>2, <2>3
<1>3. CASE OpenFails(p)
  <2> DEFINE fd == arg[p].fd
             f == filp[p][fd]
  <2>1. f_count[f] = 1 /\ f \in Entries /\ fd \in FDs /\ filp[p][fd] = f
    BY <1>3, InPipe DEF OpenFails, Runs, Counted, ProcessOf, New
  <2>2. f_count' = [f_count EXCEPT ![f] = 0] /\ filp' = [filp EXCEPT ![p][fd] = NULL]
    BY <1>3 DEF OpenFails
  <2> HIDE DEF fd, f
  <2>3. Cardinality(Refs(filp', g))
          = Cardinality(Refs(filp, g)) - (IF f = g THEN 1 ELSE 0) + 0
    <3> DEFINE G == [filp EXCEPT ![p][fd] = NULL]
    <3>1. /\ G \in Tables
          /\ Cardinality(Refs(G, g)) \in Nat
          /\ Cardinality(Refs(G, g))
               = Cardinality(Refs(filp, g)) - (IF f = g THEN 1 ELSE 0) + 0
      BY <1>f, <1>n, <2>1, RefsChange
    <3>2. filp' = G
      BY <2>2
    <3> HIDE DEF G
    <3>3. QED
      BY <3>1, <3>2
  <2>4. QED
    BY <1>f, <1>g, <2>1, <2>2, <2>3
<1>4. CASE Closes(p)
  <2>1. New(p) = {}
    BY <1>4 DEF Closes, New
  <2>2. PICK fd \in Open(p), w \in {"user", "dup2ing", "exiting", "execing"} : CloseTo(p, fd, w)
    BY <1>4 DEF Closes
  <2> DEFINE f == filp[p][fd]
  <2>3. /\ filp' = [filp EXCEPT ![p][fd] = NULL]
        /\ f_count' = [f_count EXCEPT ![f] = @ - 1]
    BY <2>1, <2>2, CloseDoes DEF Set
  <2>3a. fd \in FDs /\ f \in Entries /\ f_count[f] \in Nat \ {0}
    BY <2>1, <2>2, CloseDoes
  <2>4. Cardinality(Refs(filp', g))
          = Cardinality(Refs(filp, g)) - (IF f = g THEN 1 ELSE 0) + 0
    <3> DEFINE G == [filp EXCEPT ![p][fd] = NULL]
    <3>1. /\ G \in Tables
          /\ Cardinality(Refs(G, g)) \in Nat
          /\ Cardinality(Refs(G, g))
               = Cardinality(Refs(filp, g)) - (IF f = g THEN 1 ELSE 0) + 0
      BY <1>f, <1>n, <2>3a, RefsChange
    <3>2. filp' = G
      BY <2>3
    <3> HIDE DEF G
    <3>3. QED
      BY <3>1, <3>2
  <2> HIDE DEF f
  <2>5. QED
    BY <1>f, <1>g, <2>3, <2>3a, <2>4
<1>5. CASE Dups(p)
  <2>1. PICK fd \in Open(p), to \in FreeFDs(p) : Copies(p, fd, to)
    BY <1>5 DEF Dups
  <2> DEFINE f == filp[p][fd]
  <2>2. fd \in FDs /\ to \in FDs /\ f \in Entries /\ filp[p][to] = NULL
    BY <1>t DEF Open, FreeFDs, Types
  <2>3. filp' = [filp EXCEPT ![p][to] = f] /\ f_count' = [f_count EXCEPT ![f] = @ + 1]
    BY <2>1 DEF Copies, Set
  <2> HIDE DEF f
  <2>4. Cardinality(Refs(filp', g)) = Cardinality(Refs(filp, g)) - 0 + (IF f = g THEN 1 ELSE 0)
    <3> DEFINE G == [filp EXCEPT ![p][to] = f]
    <3>1. /\ G \in Tables
          /\ Cardinality(Refs(G, g)) \in Nat
          /\ Cardinality(Refs(G, g)) = Cardinality(Refs(filp, g)) - 0 + (IF f = g THEN 1 ELSE 0)
      BY <1>f, <1>n, <2>2, RefsChange
    <3>2. filp' = G
      BY <2>3
    <3> HIDE DEF G
    <3>3. QED
      BY <3>1, <3>2
  <2>5. QED
    BY <1>f, <1>g, <2>2, <2>3, <2>4
<1>6. CASE Fork(p)
  <2>1. PICK c \in Procs \ alive : filp' = [filp EXCEPT ![c] = filp[p]]
    BY <1>6 DEF Fork
  <2>2. p # c /\ \A fd \in FDs : filp[c][fd] = NULL
    BY <1>6 DEF Fork, Runs, Counted, ProcessOf, Open, FreeFDs
  <2>3. f_count'[g] = f_count[g] + Cardinality({fd \in FDs : filp[p][fd] = g})
    BY <1>6 DEF Fork
  <2>4. QED
    <3> DEFINE G == [filp EXCEPT ![c] = filp[p]]
    <3>1. Cardinality(Refs(G, g))
            = Cardinality(Refs(filp, g)) + Cardinality({fd \in FDs : filp[p][fd] = g})
      BY <1>f, <2>2, ForkRefs
    <3> HIDE DEF G
    <3>2. QED
      BY <1>g, <2>1, <2>3, <3>1 DEF G
<1>7. CASE SysPipe(p)
  <2> DEFINE f0 == Min(FreeEntries)
             f1 == Min(FreeEntries \ {f0})
             d0 == Min(FreeFDs(p))
             d1 == Min(FreeFDs(p) \ {d0})
             F == [filp EXCEPT ![p][d0] = f0]
  <2>1. /\ f0 \in FreeEntries /\ f1 \in FreeEntries /\ f0 # f1
        /\ d0 \in FreeFDs(p) /\ d1 \in FreeFDs(p) /\ d0 # d1
    BY <1>7, FreeEnds
  <2>2. /\ f_count' = [f_count EXCEPT ![f0] = 1, ![f1] = 1]
        /\ filp' = [filp EXCEPT ![p][d0] = f0, ![p][d1] = f1]
    BY <1>7 DEF SysPipe
  <2> HIDE DEF f0, f1, d0, d1
  <2>3. /\ f0 \in Entries /\ f1 \in Entries /\ f_count[f0] = 0 /\ f_count[f1] = 0
        /\ d0 \in FDs /\ d1 \in FDs /\ filp[p][d0] = NULL /\ filp[p][d1] = NULL
    BY <2>1 DEF FreeFDs, FreeEntries
  <2>4. /\ F \in Tables /\ Cardinality(Refs(F, g)) \in Nat
        /\ Cardinality(Refs(F, g)) = Cardinality(Refs(filp, g)) - 0 + (IF f0 = g THEN 1 ELSE 0)
    BY <1>f, <1>n, <2>3, RefsChange
  <2>5. filp' = [F EXCEPT ![p][d1] = f1]
    BY <1>f, <2>1, <2>2, <2>3 DEF Tables
  <2>5a. F[p][d1] = NULL
    BY <1>f, <2>1, <2>3 DEF Tables
  <2> HIDE DEF F
  <2>6. Cardinality(Refs(filp', g)) = Cardinality(Refs(F, g)) - 0 + (IF f1 = g THEN 1 ELSE 0)
    <3> DEFINE G == [F EXCEPT ![p][d1] = f1]
    <3>1. /\ G \in Tables
          /\ Cardinality(Refs(G, g)) \in Nat
          /\ Cardinality(Refs(G, g)) = Cardinality(Refs(F, g)) - 0 + (IF f1 = g THEN 1 ELSE 0)
      BY <1>n, <2>3, <2>4, <2>5a, RefsChange
    <3>2. filp' = G
      BY <2>5
    <3> HIDE DEF G
    <3>3. QED
      BY <3>1, <3>2
  <2>7. QED
    BY <1>f, <1>g, <2>1, <2>2, <2>3, <2>4, <2>6
<1>8. CASE PipeFails(p)
  <2> DEFINE d0 == arg[p].fd
             d1 == arg[p].fd2
             f0 == filp[p][d0]
             f1 == filp[p][d1]
             F == [filp EXCEPT ![p][d0] = NULL]
  <2>1. /\ f0 \in Entries /\ f1 \in Entries /\ f0 # f1
        /\ d0 \in FDs /\ d1 \in FDs /\ d0 # d1
    BY <1>8, InPipe DEF PipeFails, Runs
  <2>2. f_count[f0] = 1 /\ f_count[f1] = 1
    BY <1>8 DEF PipeFails, Runs, Counted, ProcessOf, New
  <2>3. /\ f_count' = [f_count EXCEPT ![f0] = 0, ![f1] = 0]
        /\ filp' = [filp EXCEPT ![p][d0] = NULL, ![p][d1] = NULL]
    BY <1>8 DEF PipeFails
  <2>4. /\ F \in Tables /\ Cardinality(Refs(F, g)) \in Nat
        /\ Cardinality(Refs(F, g)) = Cardinality(Refs(filp, g)) - (IF f0 = g THEN 1 ELSE 0) + 0
    BY <1>f, <1>n, <2>1, RefsChange, SMTT(60)
  <2>5. filp' = [F EXCEPT ![p][d1] = NULL]
    BY <1>f, <2>1, <2>3 DEF Tables
  <2>5a. F[p][d1] = f1
    BY <1>f, <2>1 DEF Tables
  <2> HIDE DEF F, f0, f1, d0, d1
  <2>6. Cardinality(Refs(filp', g)) = Cardinality(Refs(F, g)) - (IF f1 = g THEN 1 ELSE 0) + 0
    <3> DEFINE G == [F EXCEPT ![p][d1] = NULL]
    <3>1. /\ G \in Tables
          /\ Cardinality(Refs(G, g)) \in Nat
          /\ Cardinality(Refs(G, g)) = Cardinality(Refs(F, g)) - (IF f1 = g THEN 1 ELSE 0) + 0
      BY <1>n, <2>1, <2>4, <2>5a, RefsChange
    <3>2. filp' = G
      BY <2>5
    <3> HIDE DEF G
    <3>3. QED
      BY <3>1, <3>2
  <2>7. QED
    BY <1>f, <1>g, <2>1, <2>2, <2>3, <2>4, <2>6
<1>9. CASE PutEnd(p) \/ SetCloseOnExec(p) \/ ExitEnd(p) \/ PipeEnd(p) \/ Moves(p)
  <2>1. UNCHANGED <<filp, f_count>>
    BY <1>9 DEF PutEnd, SetCloseOnExec, ExitEnd, PipeEnd, Moves, tableVars
  <2>2. QED
    BY <1>g, <2>1
<1>10. QED
  BY <1>1, <1>2, <1>3, <1>4, <1>5, <1>6, <1>7, <1>8, <1>9 DEF Kinds

-----------------------------------------------------------------------------
(* What a step leaves alone                                                *)

(* A step of p changes what an entry is for only when no other process     *)
(* refers to it, and counts no entry but those it refers to.               *)
LEMMA KeepsEntries ==
  ASSUME Counted, NEW p \in Procs, Kinds(p), NEW g \in Entries, f_count[g] > 0
  PROVE  /\ (f_count[g] > 1 \/ \A fd \in FDs : filp[p][fd] # g)
              => f_inode'[g] = f_inode[g] /\ f_mode'[g] = f_mode[g]
         /\ (\A fd \in FDs : filp[p][fd] # g) => f_count'[g] = f_count[g]
<1>t. /\ f_count \in [Entries -> Nat] /\ f_inode \in [Entries -> Inodes \cup {NULL}]
      /\ f_mode \in [Entries -> {"none", "file", "read", "write"}]
  BY DEF Counted, Types
<1>1. CASE SysOpen(p)
  <2>1. Min(FreeEntries) \in FreeEntries
    BY <1>1, MinFree DEF SysOpen, FreeEntries
  <2>2. Min(FreeEntries) # g
    BY <2>1 DEF FreeEntries
  <2>3. /\ f_count' = [f_count EXCEPT ![Min(FreeEntries)] = @ + 1]
        /\ UNCHANGED <<f_inode, f_mode>>
    BY <1>1 DEF SysOpen
  <2>4. QED
    BY <1>t, <2>2, <2>3
<1>2. CASE OpenEnd(p)
  <2> DEFINE f == filp[p][arg[p].fd]
  <2>1. f_count[f] = 1 /\ arg[p].fd \in FDs
    BY <1>2, InPipe DEF OpenEnd, Runs, Counted, ProcessOf, New
  <2>2. /\ f_mode' = [f_mode EXCEPT ![f] = "file"]
        /\ f_count' = [f_count EXCEPT ![f] = 1]
        /\ f_inode' = [f_inode EXCEPT ![f] = "file"]
    BY <1>2 DEF OpenEnd
  <2>3. QED
    BY <1>t, <2>1, <2>2
<1>3. CASE OpenFails(p)
  <2>1. arg[p].fd \in FDs
    BY InPipe
  <2>2. /\ f_count' = [f_count EXCEPT ![filp[p][arg[p].fd]] = 0]
        /\ UNCHANGED <<f_inode, f_mode>>
    BY <1>3 DEF OpenFails
  <2>3. QED
    BY <1>t, <2>1, <2>2
<1>4. CASE Closes(p)
  <2>1. New(p) = {}
    BY <1>4 DEF Closes, New
  <2>2. PICK fd \in Open(p), w \in {"user", "dup2ing", "exiting", "execing"} : CloseTo(p, fd, w)
    BY <1>4 DEF Closes
  <2> DEFINE f == filp[p][fd]
  <2>3. /\ fd \in FDs /\ f_count' = [f_count EXCEPT ![f] = @ - 1]
        /\ \/ UNCHANGED <<f_inode, f_mode>>
           \/ /\ f_count[f] = 1
              /\ f_inode' = [f_inode EXCEPT ![f] = NULL]
              /\ f_mode' = [f_mode EXCEPT ![f] = "none"]
    BY <2>1, <2>2, CloseDoes
  <2>4. QED
    BY <1>t, <2>3
<1>5. CASE Dups(p)
  <2>1. PICK fd \in Open(p), to \in FreeFDs(p) : Copies(p, fd, to)
    BY <1>5 DEF Dups
  <2>2. fd \in FDs /\ f_count' = [f_count EXCEPT ![filp[p][fd]] = @ + 1]
    BY <2>1 DEF Copies, Open
  <2>3. UNCHANGED <<f_inode, f_mode>>
    BY <1>5 DEF Dups
  <2>4. QED
    BY <1>t, <2>2, <2>3
<1>6. CASE Fork(p)
  <2> DEFINE U == {fd \in FDs : filp[p][fd] = g}
  <2>1. f_count'[g] = f_count[g] + Cardinality(U) /\ UNCHANGED <<f_inode, f_mode>>
    BY <1>6 DEF Fork
  <2>2. (\A fd \in FDs : filp[p][fd] # g) => U = {}
    OBVIOUS
  <2> HIDE DEF U
  <2>3. U = {} => Cardinality(U) = 0
    BY FS_EmptySet
  <2>4. QED
    BY <1>t, <2>1, <2>2, <2>3 DEF U
<1>7. CASE SysPipe(p)
  <2> DEFINE f0 == Min(FreeEntries)
             f1 == Min(FreeEntries \ {f0})
  <2>1. FreeEntries \in SUBSET Nat /\ IsFiniteSet(FreeEntries)
    BY Constants, FS_Subset DEF FreeEntries
  <2>2. f0 \in FreeEntries /\ f1 \in FreeEntries
    BY <1>7, <2>1, SecondFree DEF SysPipe
  <2>3. f0 # g /\ f1 # g
    BY <2>2 DEF FreeEntries
  <2>4. /\ f_count' = [f_count EXCEPT ![f0] = 1, ![f1] = 1]
        /\ UNCHANGED <<f_inode, f_mode>>
    BY <1>7 DEF SysPipe
  <2>5. QED
    BY <1>t, <2>3, <2>4
<1>8. CASE PipeEnd(p) \/ PipeFails(p)
  <2> DEFINE f0 == filp[p][arg[p].fd]
             f1 == filp[p][arg[p].fd2]
  <2>1. pc[p] = "piping"
    BY <1>8 DEF PipeEnd, PipeFails, Runs
  <2>2. \/ /\ f_inode' = [f_inode EXCEPT ![f0] = "pipe", ![f1] = "pipe"]
           /\ f_mode' = [f_mode EXCEPT ![f0] = "read", ![f1] = "write"]
           /\ UNCHANGED f_count
        \/ /\ f_count' = [f_count EXCEPT ![f0] = 0, ![f1] = 0]
           /\ UNCHANGED <<f_inode, f_mode>>
    BY <1>8 DEF PipeEnd, PipeFails
  <2>3. f0 \in New(p) /\ f1 \in New(p)
    BY <2>1 DEF New
  <2>4. \A f \in New(p) : f_count[f] = 1
    BY DEF Counted, ProcessOf
  <2>5. arg[p].fd \in FDs /\ arg[p].fd2 \in FDs
    BY InPipe
  <2>6. (\A fd \in FDs : filp[p][fd] # g) => f0 # g /\ f1 # g
    BY <2>5
  <2> HIDE DEF f0, f1
  <2>7. f_count[g] > 1 => f0 # g /\ f1 # g
    BY <2>3, <2>4
  <2>8. f0 # g /\ f1 # g =>
          f_inode'[g] = f_inode[g] /\ f_mode'[g] = f_mode[g] /\ f_count'[g] = f_count[g]
    BY <1>t, <2>2
  <2>9. QED
    BY <2>6, <2>7, <2>8
<1>9. CASE PutEnd(p) \/ SetCloseOnExec(p) \/ ExitEnd(p) \/ Moves(p)
  BY <1>9 DEF PutEnd, SetCloseOnExec, ExitEnd, Moves, tableVars
<1>10. QED
  BY <1>1, <1>2, <1>3, <1>4, <1>5, <1>6, <1>7, <1>8, <1>9 DEF Kinds

(* Of another process a step changes nothing, but that fork makes one.     *)
LEMMA KeepsOthers ==
  ASSUME Counted, NEW p \in Procs, Kinds(p), NEW r \in Procs, r # p
  PROVE  /\ pc'[r] = pc[r] /\ arg'[r] = arg[r]
         /\ \/ /\ filp'[r] = filp[r] /\ close_on_exec'[r] = close_on_exec[r]
               /\ r \in alive' <=> r \in alive
            \/ /\ Fork(p) /\ r \in alive' \ alive
               /\ filp'[r] = filp[p] /\ close_on_exec'[r] = close_on_exec[p]
<1> USE DEF Runs, At
<1>t. Types
  BY DEF Counted
<1>1. CASE SysOpen(p) \/ OpenEnd(p) \/ OpenFails(p)
  BY <1>t, <1>1 DEF SysOpen, OpenEnd, OpenFails, OpenOnExec, Types
<1>2. CASE Closes(p)
  <2>1. New(p) = {}
    BY <1>2 DEF Closes, New
  <2>2. PICK fd \in Open(p), w \in {"user", "dup2ing", "exiting", "execing"} : CloseTo(p, fd, w)
    BY <1>2 DEF Closes
  <2>3. /\ filp' = Set(filp, p, fd, NULL) /\ alive' = alive
        /\ close_on_exec' = [close_on_exec EXCEPT ![p] = @ \ {fd}]
        /\ At(p, w) \/ At(p, "putting")
    BY <2>1, <2>2, CloseDoes
  <2>4. NewArg(p)
    BY <1>2 DEF Closes
  <2>5. QED
    BY <1>t, <2>3, <2>4 DEF Set, NewArg, Types
<1>3. CASE Dups(p)
  BY <1>t, <1>3 DEF Dups, Copies, Set, NewArg, OpenOnExec, Types
<1>4. CASE Fork(p)
  BY <1>t, <1>4 DEF Fork, Types
<1>5. CASE SysPipe(p) \/ PipeEnd(p) \/ PipeFails(p)
  BY <1>t, <1>5 DEF SysPipe, PipeEnd, PipeFails, Types
<1>6. CASE PutEnd(p) \/ SetCloseOnExec(p) \/ ExitEnd(p)
  BY <1>t, <1>6 DEF PutEnd, SetCloseOnExec, ExitEnd, tableVars, Types
<1>7. CASE Moves(p)
  BY <1>t, <1>7 DEF Moves, NewArg, tableVars, Types
<1>8. QED
  BY <1>1, <1>2, <1>3, <1>4, <1>5, <1>6, <1>7 DEF Kinds

-----------------------------------------------------------------------------
(* The processes                                                           *)

(* What another process refers to keeps its mode, and what it has taken    *)
(* for itself stays untouched.                                             *)
LEMMA ProcessOther ==
  ASSUME Counted, NEW p \in Procs, Kinds(p), NEW r \in Procs, r # p, Types'
  PROVE  ProcessOf(r)'
<1>t. Types /\ FilesCounted /\ ProcessOf(r) /\ ProcessOf(p)
  BY DEF Counted
<1>1. pc'[r] = pc[r] /\ arg'[r] = arg[r]
  BY KeepsOthers
<1>2. CASE /\ Fork(p) /\ r \in alive' \ alive
           /\ filp'[r] = filp[p] /\ close_on_exec'[r] = close_on_exec[p]
  <2>1. pc[r] = "user" /\ pc[p] = "user" /\ r \in alive'
    BY <1>t, <1>2 DEF Fork, Runs, ProcessOf
  <2>2. close_on_exec[p] \subseteq Open(p)
    BY <1>t DEF ProcessOf
  <2>3. New(r)' = {} /\ NewFDs(r)' = {} /\ Open(r)' = Open(p)
    BY <1>1, <1>2, <2>1 DEF New, NewFDs, Open, FreeFDs
  <2>4. QED
    BY <1>1, <1>2, <2>1, <2>2, <2>3 DEF ProcessOf
<1>3. CASE /\ filp'[r] = filp[r] /\ close_on_exec'[r] = close_on_exec[r]
           /\ r \in alive' <=> r \in alive
  <2>1. New(r)' = New(r) /\ NewFDs(r)' = NewFDs(r) /\ Open(r)' = Open(r)
    BY <1>1, <1>3 DEF New, NewFDs, Open, FreeFDs
  <2>2. ASSUME NEW f \in New(r)
        PROVE  f \in Entries /\ f_count'[f] = 1 /\ f_inode'[f] = NULL
    <3>1. f \in Entries /\ f_count[f] = 1 /\ f_inode[f] = NULL
      BY <1>t DEF ProcessOf
    <3>2. PICK fd \in FDs : filp[r][fd] = f
      BY <1>t DEF New, Types
    <3>3. \A e \in FDs : filp[p][e] # f
      <4>1. filp[r][fd] # NULL
        BY <3>1, <3>2, Constants
      <4>2. \A q \in Procs, e \in FDs : filp[q][e] = f => q = r
        BY <1>t, <3>1, <3>2, <4>1, Users
      <4>3. QED
        BY <4>2
    <3>4. QED
      BY <3>1, <3>3, KeepsEntries
  <2>3. ASSUME NEW fd \in Open(r)
        PROVE  f_mode'[filp[r][fd]] = f_mode[filp[r][fd]]
    <3> DEFINE f == filp[r][fd]
    <3>1. fd \in FDs /\ f # NULL
      BY DEF Open, FreeFDs
    <3>2. /\ f \in Entries /\ f_count[f] \in Nat \ {0}
          /\ f_count[f] = 1 => \A q \in Procs, e \in FDs : filp[q][e] = f => q = r
      BY <1>t, <3>1, Users
    <3>3. f_count[f] > 1 \/ \A e \in FDs : filp[p][e] # f
      BY <3>2
    <3> HIDE DEF f
    <3>4. QED
      BY <3>2, <3>3, KeepsEntries DEF f
  <2>4. /\ r \notin alive' => pc'[r] = "user" /\ Open(r)' = {}
        /\ close_on_exec'[r] \subseteq Open(r)' \ NewFDs(r)'
    BY <1>t, <1>1, <1>3, <2>1 DEF ProcessOf
  <2>5. pc'[r] = "piping" => /\ arg'[r].fd # arg'[r].fd2
                             /\ filp'[r][arg'[r].fd] # filp'[r][arg'[r].fd2]
    BY <1>t, <1>1, <1>3 DEF ProcessOf
  <2>6. /\ pc'[r] = "reading" =>
              (\E fd \in Open(r)' : f_mode'[filp'[r][fd]] = "read") /\ arg'[r].left > 0
        /\ pc'[r] = "writing" =>
              /\ \E fd \in Open(r)' : f_mode'[filp'[r][fd]] = "write"
              /\ arg'[r].left > 0 /\ arg'[r].byte \in Bytes
    <3>1. /\ pc[r] = "reading" =>
                (\E fd \in Open(r) : f_mode[filp[r][fd]] = "read") /\ arg[r].left > 0
          /\ pc[r] = "writing" =>
                /\ \E fd \in Open(r) : f_mode[filp[r][fd]] = "write"
                /\ arg[r].left > 0 /\ arg[r].byte \in Bytes
      BY <1>t DEF ProcessOf
    <3>2. QED
      BY <1>1, <1>3, <2>1, <2>3, <3>1
  <2>7. QED
    BY <2>1, <2>2, <2>4, <2>5, <2>6 DEF ProcessOf
<1>4. QED
  BY <1>2, <1>3, KeepsOthers

(* After a step of p, what p has under way still fits where p is.          *)
LEMMA ProcessOwn ==
  ASSUME Counted, NEW p \in Procs, Kinds(p), Types'
  PROVE  ProcessOf(p)'
<1> USE DEF Runs, At
<1>t. Types /\ ProcessOf(p) /\ \A f \in Entries : EntryOf(f)
  BY DEF Counted
<1>v. /\ filp \in [Procs -> [FDs -> Entries \cup {NULL}]]
      /\ close_on_exec \in [Procs -> SUBSET FDs]
      /\ f_count \in [Entries -> Nat] /\ f_inode \in [Entries -> Inodes \cup {NULL}]
      /\ pc \in [Procs -> PC] /\ arg \in [Procs -> Args]
  BY <1>t DEF Types, Args
<1>c. NULL \notin Entries
  BY Constants
<1>p. /\ p \notin alive => pc[p] = "user" /\ Open(p) = {}
      /\ close_on_exec[p] \subseteq Open(p) \ NewFDs(p)
  BY <1>t DEF ProcessOf
<1>q. ASSUME p \in alive', pc'[p] \notin {"opening", "piping", "reading", "writing"},
             close_on_exec'[p] \subseteq Open(p)'
      PROVE  ProcessOf(p)'
  BY <1>q DEF ProcessOf, New, NewFDs
<1>1. CASE SysOpen(p)
  <2> DEFINE fd == Min(FreeFDs(p))
             f == Min(FreeEntries)
  <2>1. fd \in FreeFDs(p) /\ f \in FreeEntries
    BY <1>1, MinFree DEF SysOpen, FreeFDs, FreeEntries
  <2>2. /\ filp' = [filp EXCEPT ![p][fd] = f]
        /\ f_count' = [f_count EXCEPT ![f] = @ + 1]
        /\ close_on_exec' = [close_on_exec EXCEPT ![p] = @ \ {fd}]
        /\ arg' = [arg EXCEPT ![p].fd = fd]
        /\ pc' = [pc EXCEPT ![p] = "opening"]
        /\ UNCHANGED <<alive, f_inode>> /\ p \in alive
    BY <1>1 DEF SysOpen, OpenOnExec
  <2> HIDE DEF fd, f
  <2>3. /\ fd \in FDs /\ f \in Entries /\ filp[p][fd] = NULL
        /\ f_count[f] = 0 /\ f_inode[f] = NULL
    BY <1>t, <2>1 DEF FreeFDs, FreeEntries, EntryOf
  <2>4. pc'[p] = "opening" /\ arg'[p].fd = fd /\ filp'[p][fd] = f
    BY <1>v, <2>2, <2>3 DEF Args
  <2>5. f_count'[f] = 1 /\ f_inode'[f] = NULL
    BY <1>v, <2>2, <2>3
  <2>6. New(p)' = {f} /\ NewFDs(p)' = {fd}
    BY <2>4 DEF New, NewFDs
  <2>7. \A e \in FDs \ {fd} : filp'[p][e] = filp[p][e]
    BY <1>v, <2>2
  <2>8. close_on_exec'[p] = close_on_exec[p] \ {fd}
    BY <1>v, <2>2
  <2>9. close_on_exec'[p] \subseteq Open(p)' \ NewFDs(p)'
    BY <1>p, <2>6, <2>7, <2>8 DEF Open, FreeFDs
  <2>10. QED
    BY <2>2, <2>3, <2>4, <2>5, <2>6, <2>9 DEF ProcessOf
<1>2. CASE OpenEnd(p)
  <2>1. /\ pc'[p] = "user" /\ p \in alive'
        /\ close_on_exec'[p] = close_on_exec[p] /\ filp'[p] = filp[p]
    BY <1>v, <1>2 DEF OpenEnd
  <2>2. QED
    BY <1>p, <1>q, <2>1 DEF Open, FreeFDs
<1>3. CASE OpenFails(p)
  <2>1. /\ pc'[p] = "user" /\ p \in alive' /\ pc[p] = "opening"
        /\ close_on_exec'[p] = close_on_exec[p]
        /\ \A e \in FDs \ {arg[p].fd} : filp'[p][e] = filp[p][e]
    BY <1>v, <1>3, InPipe DEF OpenFails
  <2>2. close_on_exec'[p] \subseteq Open(p)'
    BY <1>p, <2>1 DEF Open, FreeFDs, NewFDs
  <2>3. QED
    BY <1>q, <2>1, <2>2
<1>4. CASE Closes(p)
  <2>1. New(p) = {} /\ p \in alive
    BY <1>4 DEF Closes, New
  <2>2. PICK fd \in Open(p), w \in {"user", "dup2ing", "exiting", "execing"} : CloseTo(p, fd, w)
    BY <1>4 DEF Closes
  <2>3. /\ fd \in FDs /\ filp' = [filp EXCEPT ![p][fd] = NULL] /\ alive' = alive
        /\ close_on_exec' = [close_on_exec EXCEPT ![p] = @ \ {fd}]
        /\ pc' = [pc EXCEPT ![p] = w] \/ pc' = [pc EXCEPT ![p] = "putting"]
    BY <2>1, <2>2, CloseDoes DEF Set
  <2>4. close_on_exec'[p] \subseteq Open(p)'
    BY <1>v, <1>p, <2>3 DEF Open, FreeFDs
  <2>5. pc'[p] \in {"user", "dup2ing", "exiting", "execing", "putting"}
    BY <1>v, <2>3
  <2>6. QED
    BY <1>q, <2>1, <2>3, <2>4, <2>5
<1>5. CASE PutEnd(p)
  <2>1. pc'[p] = arg[p].then /\ UNCHANGED <<alive, filp, close_on_exec>> /\ p \in alive
    BY <1>v, <1>5 DEF PutEnd, tableVars
  <2>2. arg[p].then \in {"user", "exiting", "execing", "dup2ing"}
    BY <1>v DEF Args
  <2>3. QED
    BY <1>p, <1>q, <2>1, <2>2 DEF Open, FreeFDs
<1>6. CASE Dups(p)
  <2>1. PICK fd \in Open(p), to \in FreeFDs(p) : Copies(p, fd, to)
    BY <1>6 DEF Dups
  <2>2. /\ fd \in FDs /\ to \in FDs
        /\ filp' = [filp EXCEPT ![p][to] = filp[p][fd]]
        /\ close_on_exec' = [close_on_exec EXCEPT ![p] = @ \ {to}]
    BY <2>1 DEF Copies, Set, Open, FreeFDs, OpenOnExec
  <2>3. pc'[p] = "user" /\ p \in alive'
    BY <1>v, <1>6 DEF Dups
  <2>4. close_on_exec'[p] \subseteq Open(p)'
    BY <1>v, <1>p, <2>2 DEF Open, FreeFDs
  <2>5. QED
    BY <1>q, <2>3, <2>4
<1>7. CASE SetCloseOnExec(p)
  <2>1. PICK fd \in Open(p), new \in BOOLEAN :
          close_on_exec' = [close_on_exec EXCEPT ![p] =
                              IF new THEN @ \cup {fd} ELSE @ \ {fd}]
    BY <1>7 DEF SetCloseOnExec
  <2>2. close_on_exec'[p] \subseteq Open(p)
    BY <1>v, <1>p, <2>1
  <2>3. UNCHANGED <<alive, filp, pc>> /\ p \in alive /\ pc[p] = "user"
    BY <1>7 DEF SetCloseOnExec
  <2>4. QED
    BY <1>q, <2>2, <2>3 DEF Open, FreeFDs
<1>8. CASE Fork(p)
  <2>1. PICK c \in Procs \ alive :
          /\ alive' = alive \cup {c}
          /\ filp' = [filp EXCEPT ![c] = filp[p]]
          /\ close_on_exec' = [close_on_exec EXCEPT ![c] = close_on_exec[p]]
    BY <1>8 DEF Fork
  <2>2. p \in alive /\ pc[p] = "user" /\ UNCHANGED pc /\ c # p
    BY <1>8 DEF Fork
  <2>3. filp'[p] = filp[p] /\ close_on_exec'[p] = close_on_exec[p]
    BY <1>v, <2>1, <2>2
  <2>4. QED
    BY <1>p, <1>q, <2>1, <2>2, <2>3 DEF Open, FreeFDs
<1>9. CASE ExitEnd(p)
  <2>1. pc'[p] = "user" /\ close_on_exec'[p] = {} /\ filp'[p] = filp[p] /\ Open(p) = {}
    BY <1>v, <1>9 DEF ExitEnd
  <2>2. QED
    BY <2>1 DEF ProcessOf, New, NewFDs, Open, FreeFDs
<1>10. CASE SysPipe(p)
  <2> DEFINE f0 == Min(FreeEntries)
             f1 == Min(FreeEntries \ {f0})
             d0 == Min(FreeFDs(p))
             d1 == Min(FreeFDs(p) \ {d0})
  <2>1. /\ f0 \in FreeEntries /\ f1 \in FreeEntries /\ f0 # f1
        /\ d0 \in FreeFDs(p) /\ d1 \in FreeFDs(p) /\ d0 # d1
    BY <1>10, FreeEnds
  <2>2. /\ f_count' = [f_count EXCEPT ![f0] = 1, ![f1] = 1]
        /\ filp' = [filp EXCEPT ![p][d0] = f0, ![p][d1] = f1]
        /\ arg' = [arg EXCEPT ![p].fd = d0, ![p].fd2 = d1]
        /\ pc' = [pc EXCEPT ![p] = "piping"]
        /\ UNCHANGED <<alive, close_on_exec, f_inode>> /\ p \in alive
    BY <1>10 DEF SysPipe
  <2> HIDE DEF f0, f1, d0, d1
  <2>3. /\ f0 \in Entries /\ f1 \in Entries /\ f_inode[f0] = NULL /\ f_inode[f1] = NULL
        /\ d0 \in FDs /\ d1 \in FDs /\ filp[p][d0] = NULL /\ filp[p][d1] = NULL
    BY <1>t, <2>1 DEF FreeFDs, FreeEntries, EntryOf
  <2>4. /\ pc'[p] = "piping" /\ arg'[p].fd = d0 /\ arg'[p].fd2 = d1
        /\ filp'[p][d0] = f0 /\ filp'[p][d1] = f1
        /\ \A e \in FDs \ {d0, d1} : filp'[p][e] = filp[p][e]
    BY <1>v, <2>1, <2>2, <2>3 DEF Args
  <2>5. New(p)' = {f0, f1} /\ NewFDs(p)' = {d0, d1}
    BY <2>4 DEF New, NewFDs
  <2>6. f_count'[f0] = 1 /\ f_count'[f1] = 1 /\ f_inode'[f0] = NULL /\ f_inode'[f1] = NULL
    BY <1>v, <2>2, <2>3
  <2>7. close_on_exec'[p] \subseteq Open(p)' \ NewFDs(p)'
    BY <1>p, <2>2, <2>3, <2>4, <2>5, ZenonT(60) DEF Open, FreeFDs
  <2>8. QED
    BY <2>1, <2>2, <2>3, <2>4, <2>5, <2>6, <2>7 DEF ProcessOf
<1>11. CASE PipeEnd(p)
  <2>1. /\ pc'[p] = "user" /\ p \in alive'
        /\ close_on_exec'[p] = close_on_exec[p] /\ filp'[p] = filp[p]
    BY <1>v, <1>11 DEF PipeEnd
  <2>2. QED
    BY <1>p, <1>q, <2>1 DEF Open, FreeFDs
<1>12. CASE PipeFails(p)
  <2>1. /\ pc'[p] = "user" /\ p \in alive' /\ pc[p] = "piping"
        /\ close_on_exec'[p] = close_on_exec[p]
        /\ \A e \in FDs \ {arg[p].fd, arg[p].fd2} : filp'[p][e] = filp[p][e]
    BY <1>v, <1>12, InPipe DEF PipeFails
  <2>2. close_on_exec'[p] \subseteq Open(p)'
    BY <1>p, <2>1 DEF Open, FreeFDs, NewFDs
  <2>3. QED
    BY <1>q, <2>1, <2>2
<1>13. CASE Moves(p)
  <2>1. /\ p \in alive' /\ UNCHANGED <<filp, close_on_exec, f_mode>>
        /\ pc'[p] \notin {"opening", "piping", "putting"}
    BY <1>v, <1>13 DEF Moves, tableVars
  <2>2. /\ pc'[p] = "reading" =>
             (\E fd \in Open(p) : f_mode[filp[p][fd]] = "read") /\ arg'[p].left > 0
        /\ pc'[p] = "writing" =>
             /\ \E fd \in Open(p) : f_mode[filp[p][fd]] = "write"
             /\ arg'[p].left > 0 /\ arg'[p].byte \in Bytes
    BY <1>13 DEF Moves
  <2>3. Open(p)' = Open(p) /\ New(p)' = {} /\ NewFDs(p)' = {}
    BY <2>1 DEF Open, FreeFDs, New, NewFDs
  <2>4. QED
    BY <1>p, <2>1, <2>2, <2>3 DEF ProcessOf
<1>14. QED
  BY <1>1, <1>2, <1>3, <1>4, <1>5, <1>6, <1>7, <1>8, <1>9, <1>10, <1>11, <1>12, <1>13 DEF Kinds

-----------------------------------------------------------------------------
(* The entries                                                             *)

LEMMA NewOthers ==
  ASSUME Counted, NEW p \in Procs, Kinds(p), NEW r \in Procs, r # p
  PROVE  New(r)' = New(r)
<1>1. CASE filp'[r] = filp[r]
  BY <1>1, KeepsOthers DEF New
<1>2. CASE r \in alive' \ alive /\ Fork(p)
  <2>1. pc[r] = "user" /\ pc'[r] = "user"
    BY <1>2, KeepsOthers DEF Fork, Counted, ProcessOf
  <2>2. QED
    BY <2>1 DEF New
<1>3. QED
  BY <1>1, <1>2, KeepsOthers

(* The five things a step may do to what entries are for.                  *)
LEMMA EntryEffects ==
  ASSUME Counted, NEW p \in Procs, Kinds(p)
  PROVE  \/ /\ UNCHANGED <<f_inode, f_mode>> /\ New(p)' = New(p)     \* nothing
            /\ \A g \in Entries : f_count'[g] > 0 <=> f_count[g] > 0
            /\ \/ PutEnd(p)
               \/ i_count' = i_count /\ pc[p] # "putting" /\ pc'[p] # "putting"
         \/ /\ SysOpen(p) \/ SysPipe(p)                              \* take some
            /\ UNCHANGED <<f_inode, f_mode>> /\ New(p) = {}
            /\ \A g \in New(p)' : g \in Entries /\ f_count[g] = 0
            /\ \A g \in Entries :
                 f_count'[g] > 0 <=> f_count[g] > 0 \/ g \in New(p)'
         \/ /\ OpenFails(p) \/ PipeFails(p)                          \* give them back
            /\ UNCHANGED <<f_inode, f_mode>> /\ New(p)' = {}
            /\ \A g \in Entries :
                 f_count'[g] > 0 <=> f_count[g] > 0 /\ g \notin New(p)
         \/ /\ OpenEnd(p) \/ PipeEnd(p)                              \* put them to use
            /\ New(p)' = {}
            /\ \A g \in Entries : f_count'[g] = f_count[g]
            /\ \A g \in Entries \ New(p) : f_inode'[g] = f_inode[g] /\ f_mode'[g] = f_mode[g]
         \/ /\ Closes(p) /\ New(p) = {} /\ New(p)' = {}              \* end the use of one
            /\ \E fd \in Open(p) :
                 LET f == filp[p][fd]
                 IN /\ f \in Entries /\ f_count[f] = 1 /\ f_count'[f] = 0
                    /\ f_inode[f] \in Inodes
                    /\ f_inode' = [f_inode EXCEPT ![f] = NULL]
                    /\ f_mode' = [f_mode EXCEPT ![f] = "none"]
                    /\ \A g \in Entries \ {f} : f_count'[g] = f_count[g]
                    /\ \/ f_inode[f] = "pipe" /\ PutPipe /\ pc'[p] # "putting"
                       \/ /\ f_inode[f] = "file" /\ pc'[p] = "putting"
                          /\ UNCHANGED <<i_count, pipeVars, asleep>>
<1> USE DEF Runs, At
<1>t. Types /\ FilesCounted /\ ProcessOf(p)
  BY DEF Counted
<1>v. /\ filp \in [Procs -> [FDs -> Entries \cup {NULL}]] /\ f_count \in [Entries -> Nat]
      /\ pc \in [Procs -> PC] /\ arg \in [Procs -> Args]
      /\ f_inode \in [Entries -> Inodes \cup {NULL}]
      /\ f_mode \in [Entries -> {"none", "file", "read", "write"}]
  BY <1>t DEF Types, Args
<1>1. CASE SysOpen(p)
  <2> DEFINE fd == Min(FreeFDs(p))
             f == Min(FreeEntries)
  <2>1. fd \in FDs /\ f \in Entries /\ f_count[f] = 0
    BY <1>1, MinFree DEF SysOpen, FreeFDs, FreeEntries
  <2>2. /\ filp' = [filp EXCEPT ![p][fd] = f]
        /\ f_count' = [f_count EXCEPT ![f] = @ + 1]
        /\ arg' = [arg EXCEPT ![p].fd = fd]
        /\ pc[p] = "user" /\ pc' = [pc EXCEPT ![p] = "opening"]
        /\ UNCHANGED <<f_inode, f_mode>>
    BY <1>1 DEF SysOpen
  <2> HIDE DEF fd, f
  <2>3. New(p)' = {f} /\ New(p) = {}
    BY <1>v, <2>1, <2>2 DEF New, Args
  <2>4. \A g \in Entries : f_count'[g] > 0 <=> f_count[g] > 0 \/ g = f
    BY <1>v, <2>1, <2>2
  <2>5. QED
    BY <1>1, <2>1, <2>2, <2>3, <2>4
<1>2. CASE SysPipe(p)
  <2> DEFINE f0 == Min(FreeEntries)
             f1 == Min(FreeEntries \ {f0})
             d0 == Min(FreeFDs(p))
             d1 == Min(FreeFDs(p) \ {d0})
  <2>1. /\ f0 \in FreeEntries /\ f1 \in FreeEntries /\ f0 # f1
        /\ d0 \in FreeFDs(p) /\ d1 \in FreeFDs(p) /\ d0 # d1
    BY <1>2, FreeEnds
  <2>2. /\ f_count' = [f_count EXCEPT ![f0] = 1, ![f1] = 1]
        /\ filp' = [filp EXCEPT ![p][d0] = f0, ![p][d1] = f1]
        /\ arg' = [arg EXCEPT ![p].fd = d0, ![p].fd2 = d1]
        /\ pc[p] = "user" /\ pc' = [pc EXCEPT ![p] = "piping"]
        /\ UNCHANGED <<f_inode, f_mode>>
    BY <1>2 DEF SysPipe
  <2> HIDE DEF f0, f1, d0, d1
  <2>3. /\ f0 \in Entries /\ f1 \in Entries /\ f_count[f0] = 0 /\ f_count[f1] = 0
        /\ d0 \in FDs /\ d1 \in FDs
    BY <2>1 DEF FreeFDs, FreeEntries
  <2>4. New(p)' = {f0, f1} /\ New(p) = {}
    BY <1>v, <2>1, <2>2, <2>3 DEF New, Args
  <2>5. \A g \in Entries : f_count'[g] > 0 <=> f_count[g] > 0 \/ g \in {f0, f1}
    BY <1>v, <2>1, <2>2, <2>3
  <2>6. QED
    BY <1>2, <2>2, <2>3, <2>4, <2>5
<1>3. CASE OpenFails(p)
  <2> DEFINE f == filp[p][arg[p].fd]
  <2>1. New(p) = {f} /\ f \in Entries
    BY <1>3, InPipe DEF OpenFails, New
  <2>2. New(p)' = {} /\ UNCHANGED <<f_inode, f_mode>> /\ f_count' = [f_count EXCEPT ![f] = 0]
    BY <1>v, <1>3 DEF OpenFails, New
  <2> HIDE DEF f
  <2>3. \A g \in Entries : f_count'[g] > 0 <=> f_count[g] > 0 /\ g # f
    BY <1>v, <2>1, <2>2
  <2>4. QED
    BY <1>3, <2>1, <2>2, <2>3
<1>4. CASE PipeFails(p)
  <2> DEFINE f0 == filp[p][arg[p].fd]
             f1 == filp[p][arg[p].fd2]
  <2>1. New(p) = {f0, f1} /\ f0 \in Entries /\ f1 \in Entries
    BY <1>4, InPipe DEF PipeFails, New
  <2>2. /\ New(p)' = {} /\ UNCHANGED <<f_inode, f_mode>>
        /\ f_count' = [f_count EXCEPT ![f0] = 0, ![f1] = 0]
    BY <1>v, <1>4 DEF PipeFails, New
  <2> HIDE DEF f0, f1
  <2>3. \A g \in Entries : f_count'[g] > 0 <=> f_count[g] > 0 /\ g \notin {f0, f1}
    BY <1>v, <2>1, <2>2
  <2>4. QED
    BY <1>4, <2>1, <2>2, <2>3
<1>5. CASE OpenEnd(p)
  <2> DEFINE f == filp[p][arg[p].fd]
  <2>1. New(p) = {f} /\ f \in Entries /\ f_count[f] = 1
    BY <1>t, <1>5, InPipe DEF OpenEnd, New, ProcessOf
  <2>2. /\ New(p)' = {} /\ f_count' = [f_count EXCEPT ![f] = 1]
        /\ f_mode' = [f_mode EXCEPT ![f] = "file"]
        /\ f_inode' = [f_inode EXCEPT ![f] = "file"]
    BY <1>v, <1>5 DEF OpenEnd, New
  <2> HIDE DEF f
  <2>3. /\ \A g \in Entries : f_count'[g] = f_count[g]
        /\ \A g \in Entries \ New(p) : f_inode'[g] = f_inode[g] /\ f_mode'[g] = f_mode[g]
    BY <1>v, <2>1, <2>2
  <2>4. QED
    BY <1>5, <2>2, <2>3
<1>6. CASE PipeEnd(p)
  <2> DEFINE f0 == filp[p][arg[p].fd]
             f1 == filp[p][arg[p].fd2]
  <2>1. New(p) = {f0, f1} /\ f0 \in Entries /\ f1 \in Entries
    BY <1>6, InPipe DEF PipeEnd, New
  <2>2. /\ New(p)' = {} /\ f_count' = f_count
        /\ f_inode' = [f_inode EXCEPT ![f0] = "pipe", ![f1] = "pipe"]
        /\ f_mode' = [f_mode EXCEPT ![f0] = "read", ![f1] = "write"]
    BY <1>v, <1>6 DEF PipeEnd, New
  <2> HIDE DEF f0, f1
  <2>3. \A g \in Entries \ New(p) : f_inode'[g] = f_inode[g] /\ f_mode'[g] = f_mode[g]
    BY <1>v, <2>1, <2>2
  <2>4. QED
    BY <1>6, <2>2, <2>3
<1>7. CASE Closes(p)
  <2>1. New(p) = {}
    BY <1>7 DEF Closes, New
  <2>2. PICK fd \in Open(p), w \in {"user", "dup2ing", "exiting", "execing"} : CloseTo(p, fd, w)
    BY <1>7 DEF Closes
  <2> DEFINE f == filp[p][fd]
  <2> HIDE DEF f
  <2>3. /\ f \in Entries /\ f_count[f] \in Nat \ {0}
        /\ f_count' = [f_count EXCEPT ![f] = @ - 1]
        /\ \/ /\ f_count[f] > 1
              /\ UNCHANGED <<f_inode, f_mode, i_count, pipeVars, asleep>>
              /\ At(p, w)
           \/ /\ f_count[f] = 1
              /\ f_inode' = [f_inode EXCEPT ![f] = NULL]
              /\ f_mode' = [f_mode EXCEPT ![f] = "none"]
              /\ \/ f_inode[f] = "pipe" /\ PutPipe /\ At(p, w)
                 \/ f_inode[f] = "file" /\ At(p, "putting")
                    /\ UNCHANGED <<i_count, pipeVars, asleep>>
    BY <2>1, <2>2, CloseDoes DEF f
  <2>4. pc'[p] \in {w, "putting"}
    BY <1>v, <2>3
  <2>5. New(p)' = {}
    BY <2>4 DEF New
  <2>6. CASE f_count[f] > 1
    <3>1. \A g \in Entries : f_count'[g] > 0 <=> f_count[g] > 0
      BY <1>v, <2>3, <2>6
    <3>2. i_count' = i_count /\ pc[p] # "putting" /\ pc'[p] # "putting"
      BY <1>v, <1>7, <2>3, <2>6 DEF Closes
    <3>3. QED
      BY <2>1, <2>3, <2>5, <2>6, <3>1, <3>2
  <2>7. CASE f_count[f] = 1
    <3>1. f_count'[f] = 0 /\ \A g \in Entries \ {f} : f_count'[g] = f_count[g]
      BY <1>v, <2>3, <2>7
    <3>2. f_inode[f] \in Inodes
      BY <2>3, <2>7 DEF Inodes
    <3>3. \/ f_inode[f] = "pipe" /\ PutPipe /\ pc'[p] # "putting"
          \/ /\ f_inode[f] = "file" /\ pc'[p] = "putting"
             /\ UNCHANGED <<i_count, pipeVars, asleep>>
      BY <1>v, <2>3, <2>7
    <3>4. QED
      BY <1>7, <2>1, <2>3, <2>5, <2>7, <3>1, <3>2, <3>3 DEF f
  <2>8. QED
    BY <2>3, <2>6, <2>7
<1>8. CASE Dups(p)
  <2>1. PICK fd \in Open(p), to \in FreeFDs(p) : Copies(p, fd, to)
    BY <1>8 DEF Dups
  <2>2. /\ f_count' = [f_count EXCEPT ![filp[p][fd]] = @ + 1]
        /\ filp[p][fd] \in Entries /\ f_count[filp[p][fd]] \in Nat \ {0}
    BY <1>t, <2>1, Users DEF Copies, Open, FreeFDs
  <2>3. \A g \in Entries : f_count'[g] > 0 <=> f_count[g] > 0
    BY <1>v, <2>2
  <2>4. New(p)' = New(p)
    BY <1>v, <1>8 DEF Dups, New
  <2>5. pc[p] # "putting" /\ pc'[p] # "putting"
    BY <1>v, <1>8 DEF Dups
  <2>6. QED
    BY <1>8, <2>3, <2>4, <2>5 DEF Dups
<1>9. CASE Fork(p)
  <2>1. ASSUME NEW g \in Entries
        PROVE  f_count'[g] > 0 <=> f_count[g] > 0
    <3> DEFINE U == {fd \in FDs : filp[p][fd] = g}
    <3>1. f_count'[g] = f_count[g] + Cardinality(U)
      BY <1>9 DEF Fork
    <3>2. f_count[g] = 0 => U = {}
      BY <1>t, Unused
    <3>3. Cardinality(U) \in Nat /\ (U = {} => Cardinality(U) = 0)
      BY Constants, CountPart
    <3>4. f_count[g] \in Nat
      BY <1>v
    <3> HIDE DEF U
    <3>5. QED
      BY <3>1, <3>2, <3>3, <3>4
  <2>2. New(p)' = New(p)
    BY <1>v, <1>9 DEF Fork, New
  <2>3. QED
    BY <1>9, <2>1, <2>2 DEF Fork
<1>10. CASE PutEnd(p) \/ SetCloseOnExec(p) \/ ExitEnd(p) \/ Moves(p)
  <2>1. UNCHANGED <<filp, f_count, f_inode, f_mode>>
    BY <1>10 DEF PutEnd, SetCloseOnExec, ExitEnd, Moves, tableVars
  <2>2. pc[p] \notin {"opening", "piping"} /\ pc'[p] \notin {"opening", "piping"}
    <3>1. CASE PutEnd(p)
      <4>1. arg[p].then \in {"user", "exiting", "execing", "dup2ing"}
        BY <1>v DEF Args
      <4>2. QED
        BY <1>v, <3>1, <4>1 DEF PutEnd
    <3>2. CASE SetCloseOnExec(p) \/ ExitEnd(p)
      BY <1>v, <3>2 DEF SetCloseOnExec, ExitEnd
    <3>3. CASE Moves(p)
      BY <1>v, <3>3 DEF Moves
    <3>4. QED
      BY <1>10, <3>1, <3>2, <3>3
  <2>3. New(p) = {} /\ New(p)' = {}
    BY <2>2 DEF New
  <2>4. \/ PutEnd(p)
        \/ i_count' = i_count /\ pc[p] # "putting" /\ pc'[p] # "putting"
    <3>1. CASE SetCloseOnExec(p) \/ ExitEnd(p)
      BY <1>v, <3>1 DEF SetCloseOnExec, ExitEnd
    <3>2. CASE Moves(p)
      BY <1>v, <3>2 DEF Moves
    <3>3. QED
      BY <1>10, <3>1, <3>2
  <2>5. QED
    BY <2>1, <2>3, <2>4
<1>11. QED
  BY <1>1, <1>2, <1>3, <1>4, <1>5, <1>6, <1>7, <1>8, <1>9, <1>10 DEF Kinds

(* Every kind of step keeps inode and mode of an entry in keeping with     *)
(* its count.                                                              *)
LEMMA EntryStep ==
  ASSUME Counted, NEW p \in Procs, Kinds(p), Types', NEW f \in Entries
  PROVE  EntryOf(f)'
<1>t. Types /\ ProcessOf(p) /\ OnePipe /\ \A g \in Entries : EntryOf(g)
  BY DEF Counted
<1>v. /\ f_count \in [Entries -> Nat] /\ f_count' \in [Entries -> Nat]
      /\ f_inode \in [Entries -> Inodes \cup {NULL}]
      /\ f_mode \in [Entries -> {"none", "file", "read", "write"}]
  BY <1>t DEF Types
<1>n. \A q \in Procs \ {p} : New(q)' = New(q)
  BY NewOthers
<1>c. NULL # "pipe" /\ NULL # "file"
  BY Constants DEF Inodes
<1>1. CASE /\ UNCHANGED <<f_inode, f_mode>> /\ New(p)' = New(p)
           /\ \A g \in Entries : f_count'[g] > 0 <=> f_count[g] > 0
  <2>1. \A q \in Procs : New(q)' = New(q)
    BY <1>n, <1>1
  <2>2. f_count'[f] = 0 <=> f_count[f] = 0
    BY <1>v, <1>1
  <2>3. QED
    BY <1>t, <1>1, <2>1, <2>2 DEF EntryOf
<1>2. CASE /\ UNCHANGED <<f_inode, f_mode>> /\ New(p) = {}
           /\ \A g \in New(p)' : g \in Entries /\ f_count[g] = 0
           /\ \A g \in Entries : f_count'[g] > 0 <=> f_count[g] > 0 \/ g \in New(p)'
  <2>1. f_count'[f] = 0 => f_count[f] = 0
    BY <1>v, <1>2
  <2>2. f_count'[f] > 0 /\ f_inode[f] = NULL => \E q \in Procs : f \in New(q)'
    <3>1. CASE f \in New(p)'
      BY <3>1
    <3>2. CASE f_count[f] > 0
      BY <1>t, <1>n, <1>2, <3>2 DEF EntryOf
    <3>3. QED
      BY <1>2, <3>1, <3>2
  <2>3. QED
    BY <1>t, <1>2, <2>1, <2>2 DEF EntryOf
<1>3. CASE /\ UNCHANGED <<f_inode, f_mode>> /\ New(p)' = {}
           /\ \A g \in Entries : f_count'[g] > 0 <=> f_count[g] > 0 /\ g \notin New(p)
  <2>1. f_count'[f] = 0 => f_inode[f] = NULL
    <3>1. f \in New(p) => f_inode[f] = NULL
      BY <1>t DEF ProcessOf
    <3>2. QED
      BY <1>t, <1>v, <1>3, <3>1 DEF EntryOf
  <2>2. f_count'[f] > 0 /\ f_inode[f] = NULL => \E q \in Procs : f \in New(q)'
    BY <1>t, <1>n, <1>3 DEF EntryOf
  <2>3. QED
    BY <1>t, <1>3, <2>1, <2>2 DEF EntryOf
<1>4. CASE /\ OpenEnd(p) \/ PipeEnd(p)
           /\ New(p)' = {}
           /\ \A g \in Entries : f_count'[g] = f_count[g]
           /\ \A g \in Entries \ New(p) : f_inode'[g] = f_inode[g] /\ f_mode'[g] = f_mode[g]
  <2>1. \A g \in New(p) : g \in Entries /\ f_count[g] = 1
    BY <1>t DEF ProcessOf
  <2>2. CASE OpenEnd(p)
    <3>1. New(p) = {filp[p][arg[p].fd]}
      BY <2>2 DEF OpenEnd, Runs, New
    <3>2. \A g \in New(p) : f_inode'[g] = "file" /\ f_mode'[g] = "file"
      BY <1>v, <2>1, <2>2, <3>1 DEF OpenEnd
    <3>3. QED
      BY <1>t, <1>c, <1>n, <1>4, <2>1, <3>2 DEF EntryOf
  <2>3. CASE PipeEnd(p)
    <3> DEFINE f0 == filp[p][arg[p].fd]
               f1 == filp[p][arg[p].fd2]
    <3>1. New(p) = {f0, f1} /\ f0 # f1 /\ pc[p] = "piping"
      BY <2>3, InPipe, SMTT(60) DEF PipeEnd, Runs, New
    <3>2. /\ f_inode'[f0] = "pipe" /\ f_mode'[f0] = "read"
          /\ f_inode'[f1] = "pipe" /\ f_mode'[f1] = "write"
      BY <1>v, <2>1, <2>3, <3>1 DEF PipeEnd
    <3>3. \A g \in Entries \ New(p) : f_inode'[g] # "pipe"
      BY <1>t, <1>4, <3>1 DEF OnePipe
    <3> HIDE DEF f0, f1
    <3>4. CASE f \in New(p)
      BY <1>c, <1>4, <2>1, <3>1, <3>2, <3>3, <3>4 DEF EntryOf
    <3>5. CASE f \notin New(p)
      BY <1>t, <1>c, <1>n, <1>4, <3>3, <3>5 DEF EntryOf
    <3>6. QED
      BY <3>4, <3>5
  <2>4. QED
    BY <1>4, <2>2, <2>3
<1>5. CASE /\ New(p) = {} /\ New(p)' = {}
           /\ \E fd \in Open(p) :
                LET h == filp[p][fd]
                IN /\ h \in Entries /\ f_count[h] = 1 /\ f_count'[h] = 0
                   /\ f_inode' = [f_inode EXCEPT ![h] = NULL]
                   /\ f_mode' = [f_mode EXCEPT ![h] = "none"]
                   /\ \A g \in Entries \ {h} : f_count'[g] = f_count[g]
  <2>1. PICK h \in Entries :
               /\ f_count'[h] = 0
               /\ f_inode' = [f_inode EXCEPT ![h] = NULL]
               /\ f_mode' = [f_mode EXCEPT ![h] = "none"]
               /\ \A g \in Entries \ {h} : f_count'[g] = f_count[g]
    BY <1>5
  <2>2. /\ f_inode'[h] = NULL /\ f_mode'[h] = "none"
        /\ \A g \in Entries \ {h} : f_inode'[g] = f_inode[g] /\ f_mode'[g] = f_mode[g]
    BY <1>v, <2>1
  <2>3. CASE f = h
    BY <1>c, <2>1, <2>2, <2>3 DEF EntryOf
  <2>4. CASE f # h
    BY <1>t, <1>c, <1>n, <1>5, <2>1, <2>2, <2>4 DEF EntryOf
  <2>5. QED
    BY <2>3, <2>4
<1>6. QED
  BY <1>1, <1>2, <1>3, <1>4, <1>5, EntryEffects

(* A pipe is only made when no entry is an end of one, and by one process. *)
LEMMA OnePipeStep ==
  ASSUME Counted, NEW p \in Procs, Kinds(p)
  PROVE  OnePipe'
<1>t. Types /\ OnePipe /\ InodesCounted /\ \A g \in Entries : EntryOf(g)
  BY DEF Counted
<1>v. /\ f_count \in [Entries -> Nat] /\ f_inode \in [Entries -> Inodes \cup {NULL}]
      /\ pc \in [Procs -> PC] /\ arg \in [Procs -> Args]
  BY <1>t DEF Types, Args
<1>c. NULL # "pipe"
  BY Constants DEF Inodes
<1>o. \A r \in Procs \ {p} : pc'[r] = pc[r]
  BY KeepsOthers
<1>1. CASE SysPipe(p)
  <2>1. \A q \in Procs : pc[q] # "piping"
    BY <1>1 DEF SysPipe
  <2>2. UsersOf("pipe") = {}
    <3>1. IsFiniteSet(UsersOf("pipe"))
      BY Constants, FS_Subset DEF UsersOf
    <3>2. Cardinality(UsersOf("pipe")) = 0
      BY <1>t, <1>1 DEF InodesCounted, SysPipe
    <3>3. QED
      BY <3>1, <3>2, FS_EmptySet
  <2>3. \A f \in Entries : f_inode[f] # "pipe"
    <3>1. \A f \in Entries : f_count[f] > 0 => f_inode[f] # "pipe"
      BY <2>2 DEF UsersOf
    <3>2. \A f \in Entries : f_count[f] = 0 => f_inode[f] = NULL
      BY <1>t DEF EntryOf
    <3>3. QED
      BY <1>v, <1>c, <3>1, <3>2
  <2>4. f_inode' = f_inode
    BY <1>1 DEF SysPipe
  <2>5. QED
    BY <1>o, <2>1, <2>3, <2>4 DEF OnePipe
<1>2. CASE ~SysPipe(p)
  <2>1. pc'[p] # "piping"
    <3> USE DEF Runs, At
    <3>1. CASE SysOpen(p) \/ OpenEnd(p) \/ OpenFails(p) \/ SetCloseOnExec(p)
               \/ Fork(p) \/ ExitEnd(p) \/ PipeEnd(p) \/ PipeFails(p) \/ Dups(p)
      BY <1>v, <3>1 DEF SysOpen, OpenEnd, OpenFails, SetCloseOnExec, Fork, ExitEnd,
                        PipeEnd, PipeFails, Dups
    <3>2. CASE Closes(p)
      <4>1. New(p) = {}
        BY <3>2 DEF Closes, New
      <4>2. PICK fd \in Open(p), w \in {"user", "dup2ing", "exiting", "execing"} :
                   CloseTo(p, fd, w)
        BY <3>2 DEF Closes
      <4>3. pc' = [pc EXCEPT ![p] = w] \/ pc' = [pc EXCEPT ![p] = "putting"]
        BY <4>1, <4>2, CloseDoes
      <4>4. QED
        BY <1>v, <4>3
    <3>3. CASE PutEnd(p)
      <4>1. arg[p].then \in {"user", "exiting", "execing", "dup2ing"}
        BY <1>v DEF Args
      <4>2. QED
        BY <1>v, <3>3, <4>1 DEF PutEnd
    <3>4. CASE Moves(p)
      BY <1>v, <3>4 DEF Moves
    <3>5. QED
      BY <1>2, <3>1, <3>2, <3>3, <3>4, SMTT(60) DEF Kinds
  <2>2. ASSUME NEW q \in Procs, pc'[q] = "piping"
        PROVE  \A f \in Entries : f_inode'[f] # "pipe"
    <3>1. q # p /\ pc[q] = "piping"
      BY <1>o, <2>1, <2>2
    <3>2. pc[p] # "piping" /\ \A f \in Entries : f_inode[f] # "pipe"
      BY <1>t, <3>1 DEF OnePipe
    <3>3. ~PipeEnd(p)
      BY <3>2 DEF PipeEnd, Runs
    <3>4. CASE UNCHANGED f_inode
      BY <3>2, <3>4
    <3>5. CASE OpenEnd(p)
      BY <1>v, <3>2, <3>5 DEF OpenEnd
    <3>6. CASE \E h \in Entries : f_inode' = [f_inode EXCEPT ![h] = NULL]
      BY <1>v, <1>c, <3>2, <3>6
    <3>7. QED
      BY <3>3, <3>4, <3>5, <3>6, EntryEffects
  <2>3. QED
    BY <1>t, <1>o, <2>1, <2>2 DEF OnePipe
<1>3. QED
  BY <1>1, <1>2

-----------------------------------------------------------------------------
(* The counts of the inodes                                                *)

Putting == {q \in Procs : pc[q] = "putting"}

(* A step changes the number of processes inside iput by its own process   *)
(* only.                                                                   *)
LEMMA PuttingChange ==
  ASSUME Counted, NEW p \in Procs, Kinds(p)
  PROVE  /\ Cardinality(Putting) \in Nat /\ Cardinality(Putting') \in Nat
         /\ Cardinality(Putting') = Cardinality(Putting)
              - (IF pc[p] = "putting" THEN 1 ELSE 0) + (IF pc'[p] = "putting" THEN 1 ELSE 0)
<1> DEFINE S == Putting
           T == Putting'
<1>1. IsFiniteSet(S)
  BY Constants, FS_Subset DEF Putting
<1>2. S \ {p} = T \ {p}
  BY KeepsOthers DEF Putting
<1>3. (p \in S <=> pc[p] = "putting") /\ (p \in T <=> pc'[p] = "putting")
  BY DEF Putting
<1> HIDE DEF S, T
<1>4. /\ Cardinality(S) \in Nat /\ Cardinality(T) \in Nat
      /\ Cardinality(T) = Cardinality(S) - (IF p \in S THEN 1 ELSE 0)
                                         + (IF p \in T THEN 1 ELSE 0)
  BY <1>1, <1>2, ChangeOne
<1>5. QED
  BY <1>3, <1>4 DEF S, T

(* The users of an inode when one entry changes.                           *)
LEMMA UsersChange ==
  ASSUME NEW i, NEW x, UsersOf(i) \ {x} = UsersOf(i)' \ {x}
  PROVE  /\ Cardinality(UsersOf(i)) \in Nat /\ Cardinality(UsersOf(i)') \in Nat
         /\ Cardinality(UsersOf(i)') = Cardinality(UsersOf(i))
              - (IF x \in UsersOf(i) THEN 1 ELSE 0) + (IF x \in UsersOf(i)' THEN 1 ELSE 0)
<1> DEFINE S == UsersOf(i)
           T == UsersOf(i)'
<1>1. IsFiniteSet(S)
  BY Constants, FS_Subset DEF UsersOf
<1> HIDE DEF S, T
<1>2. S \ {x} = T \ {x}
  BY DEF S, T
<1>3. /\ Cardinality(S) \in Nat /\ Cardinality(T) \in Nat
      /\ Cardinality(T) = Cardinality(S) - (IF x \in S THEN 1 ELSE 0)
                                         + (IF x \in T THEN 1 ELSE 0)
  BY <1>1, <1>2, ChangeOne
<1>4. QED
  BY <1>3 DEF S, T

(* Every kind of step keeps i_count equal to the entries and the iputs     *)
(* under way.                                                              *)
LEMMA InodesCountedStep ==
  ASSUME Counted, NEW p \in Procs, Kinds(p), Types'
  PROVE  InodesCounted'
<1> DEFINE P == UsersOf("pipe")
           F == UsersOf("file")
<1>t. Types /\ ProcessOf(p) /\ OnePipe /\ InodesCounted /\ \A g \in Entries : EntryOf(g)
  BY DEF Counted
<1>v. /\ f_count \in [Entries -> Nat] /\ f_count' \in [Entries -> Nat]
      /\ f_inode \in [Entries -> Inodes \cup {NULL}]
      /\ i_count \in [Inodes -> Int]
      /\ pc \in [Procs -> PC] /\ arg \in [Procs -> Args]
  BY <1>t DEF Types, Args
<1>c. NULL # "pipe" /\ NULL # "file" /\ "pipe" \in Inodes /\ "file" \in Inodes
  BY Constants DEF Inodes
<1>i. /\ i_count["pipe"] = Cardinality(P)
      /\ i_count["file"] = Cardinality(F) + Cardinality(Putting)
  BY <1>t DEF InodesCounted, Putting
<1>p. /\ Cardinality(Putting) \in Nat /\ Cardinality(Putting') \in Nat
      /\ Cardinality(Putting') = Cardinality(Putting)
           - (IF pc[p] = "putting" THEN 1 ELSE 0) + (IF pc'[p] = "putting" THEN 1 ELSE 0)
  BY PuttingChange
<1>n. Cardinality(P) \in Nat /\ Cardinality(F) \in Nat
  BY Constants, CountPart DEF UsersOf
<1>g. SUFFICES /\ i_count'["pipe"] = Cardinality(P')
               /\ i_count'["file"] = Cardinality(F') + Cardinality(Putting')
  BY DEF InodesCounted, Putting
<1>s. P' = P /\ F' = F => Cardinality(P') = Cardinality(P) /\ Cardinality(F') = Cardinality(F)
  OBVIOUS
<1>1. CASE /\ UNCHANGED <<f_inode, f_mode>> /\ New(p)' = New(p)
           /\ \A g \in Entries : f_count'[g] > 0 <=> f_count[g] > 0
           /\ \/ PutEnd(p)
              \/ i_count' = i_count /\ pc[p] # "putting" /\ pc'[p] # "putting"
  <2>1. P' = P /\ F' = F
    BY <1>1 DEF UsersOf
  <2>2. CASE PutEnd(p)
    <3>1. arg[p].then \in {"user", "exiting", "execing", "dup2ing"}
      BY <1>v DEF Args
    <3>2. pc[p] = "putting" /\ pc'[p] # "putting"
      BY <1>v, <2>2, <3>1 DEF PutEnd, Runs, At
    <3>3. i_count'["pipe"] = i_count["pipe"] /\ i_count'["file"] = i_count["file"] - 1
      BY <1>v, <1>c, <2>2 DEF PutEnd
    <3> HIDE DEF P, F
    <3>4. QED
      BY <1>i, <1>p, <1>n, <1>s, <2>1, <3>2, <3>3
  <2>3. CASE i_count' = i_count /\ pc[p] # "putting" /\ pc'[p] # "putting"
    <3> HIDE DEF P, F
    <3>1. QED
      BY <1>i, <1>p, <1>n, <1>s, <2>1, <2>3
  <2>4. QED
    BY <1>1, <2>2, <2>3
<1>2. CASE /\ SysOpen(p) \/ SysPipe(p) \/ OpenFails(p) \/ PipeFails(p)
           /\ UNCHANGED <<f_inode, f_mode>>
           /\ \A g \in Entries : f_inode[g] # NULL => (f_count'[g] > 0 <=> f_count[g] > 0)
  <2>1. P' = P /\ F' = F
    BY <1>c, <1>2 DEF UsersOf
  <2>2. i_count' = i_count /\ pc[p] # "putting" /\ pc'[p] # "putting"
    BY <1>v, <1>2 DEF SysOpen, SysPipe, OpenFails, PipeFails, Runs, At
  <2> HIDE DEF P, F
  <2>3. QED
    BY <1>i, <1>p, <1>n, <1>s, <2>1, <2>2
<1>3. CASE /\ OpenEnd(p)
           /\ \A g \in Entries : f_count'[g] = f_count[g]
           /\ \A g \in Entries \ New(p) : f_inode'[g] = f_inode[g] /\ f_mode'[g] = f_mode[g]
  <2> DEFINE f == filp[p][arg[p].fd]
  <2>1. /\ New(p) = {f} /\ f \in Entries /\ f_count[f] = 1 /\ f_inode[f] = NULL
    BY <1>t, <1>3 DEF OpenEnd, Runs, New, ProcessOf
  <2>2. f_inode'[f] = "file"
    BY <1>v, <1>3, <2>1 DEF OpenEnd
  <2>3. i_count' = [i_count EXCEPT !["file"] = @ + 1] /\ pc[p] # "putting" /\ pc'[p] # "putting"
    BY <1>v, <1>3 DEF OpenEnd, Runs, At
  <2> HIDE DEF f
  <2>4. P' = P
    BY <1>c, <1>3, <2>1, <2>2 DEF UsersOf
  <2>5. F \ {f} = F' \ {f} /\ f \notin F /\ f \in F'
    BY <1>c, <1>3, <2>1, <2>2 DEF UsersOf
  <2>6. Cardinality(F') = Cardinality(F) + 1
    BY <1>n, <2>5, UsersChange
  <2>7. i_count'["pipe"] = i_count["pipe"] /\ i_count'["file"] = i_count["file"] + 1
    BY <1>v, <1>c, <2>3
  <2> HIDE DEF P, F
  <2>8. QED
    BY <1>i, <1>p, <1>n, <2>3, <2>4, <2>6, <2>7
<1>4. CASE /\ PipeEnd(p)
           /\ \A g \in Entries : f_count'[g] = f_count[g]
           /\ \A g \in Entries \ New(p) : f_inode'[g] = f_inode[g] /\ f_mode'[g] = f_mode[g]
  <2> DEFINE f0 == filp[p][arg[p].fd]
             f1 == filp[p][arg[p].fd2]
  <2>1. /\ New(p) = {f0, f1} /\ f0 # f1 /\ f0 \in Entries /\ f1 \in Entries
        /\ pc[p] = "piping"
    BY <1>4, InPipe DEF PipeEnd, Runs, New
  <2>2. \A g \in New(p) : f_count[g] = 1 /\ f_inode[g] = NULL
    BY <1>t DEF ProcessOf
  <2>3. f_inode' = [f_inode EXCEPT ![f0] = "pipe", ![f1] = "pipe"]
    BY <1>4 DEF PipeEnd
  <2>4. i_count' = [i_count EXCEPT !["pipe"] = 2] /\ pc[p] # "putting" /\ pc'[p] # "putting"
    BY <1>v, <1>4 DEF PipeEnd, Runs, At
  <2>5. \A g \in Entries : f_inode[g] # "pipe"
    BY <1>t, <2>1 DEF OnePipe
  <2> HIDE DEF f0, f1
  <2>6. F' = F
    BY <1>v, <1>c, <1>4, <2>1, <2>2, <2>3 DEF UsersOf
  <2>7. P' = {f0} \cup {f1}
    BY <1>v, <1>c, <1>4, <2>1, <2>2, <2>3, <2>5 DEF UsersOf
  <2>8. Cardinality(P') = 2
    <3>1. IsFiniteSet({f0}) /\ Cardinality({f0}) = 1
      BY FS_Singleton
    <3>2. Cardinality({f0} \cup {f1}) = Cardinality({f0}) + 1
      BY <2>1, <3>1, FS_AddElement
    <3>3. QED
      BY <2>7, <3>1, <3>2
  <2>9. i_count'["pipe"] = 2 /\ i_count'["file"] = i_count["file"]
    BY <1>v, <1>c, <2>4
  <2> HIDE DEF P, F
  <2>10. QED
    BY <1>i, <1>p, <1>n, <2>4, <2>6, <2>8, <2>9
<1>5. CASE /\ Closes(p)
           /\ \E fd \in Open(p) :
                LET f == filp[p][fd]
                IN /\ f \in Entries /\ f_count[f] = 1 /\ f_count'[f] = 0
                   /\ f_inode[f] \in Inodes
                   /\ f_inode' = [f_inode EXCEPT ![f] = NULL]
                   /\ f_mode' = [f_mode EXCEPT ![f] = "none"]
                   /\ \A g \in Entries \ {f} : f_count'[g] = f_count[g]
                   /\ \/ f_inode[f] = "pipe" /\ PutPipe /\ pc'[p] # "putting"
                      \/ /\ f_inode[f] = "file" /\ pc'[p] = "putting"
                         /\ UNCHANGED <<i_count, pipeVars, asleep>>
  <2>1. PICK f \in Entries :
               /\ f_count[f] = 1 /\ f_count'[f] = 0
               /\ f_inode' = [f_inode EXCEPT ![f] = NULL]
               /\ \A g \in Entries \ {f} : f_count'[g] = f_count[g]
               /\ \/ f_inode[f] = "pipe" /\ PutPipe /\ pc'[p] # "putting"
                  \/ /\ f_inode[f] = "file" /\ pc'[p] = "putting"
                     /\ UNCHANGED <<i_count, pipeVars, asleep>>
    BY <1>5
  <2>2. pc[p] # "putting"
    BY <1>5 DEF Closes
  <2>3. f_inode'[f] = NULL /\ \A g \in Entries \ {f} : f_inode'[g] = f_inode[g]
    BY <1>v, <2>1
  <2>4. CASE f_inode[f] = "pipe" /\ PutPipe /\ pc'[p] # "putting"
    <3>1. F' = F
      BY <1>c, <2>1, <2>3, <2>4 DEF UsersOf
    <3>2. P \ {f} = P' \ {f} /\ f \in P /\ f \notin P'
      BY <1>c, <2>1, <2>3, <2>4 DEF UsersOf
    <3>3. Cardinality(P') = Cardinality(P) - 1
      BY <1>n, <3>2, UsersChange
    <3>4. i_count'["pipe"] = i_count["pipe"] - 1 /\ i_count'["file"] = i_count["file"]
      BY <1>v, <1>c, <2>4 DEF PutPipe
    <3> HIDE DEF P, F
    <3>5. QED
      BY <1>i, <1>p, <1>n, <2>2, <2>4, <3>1, <3>3, <3>4
  <2>5. CASE /\ f_inode[f] = "file" /\ pc'[p] = "putting"
             /\ UNCHANGED <<i_count, pipeVars, asleep>>
    <3>1. P' = P
      BY <1>c, <2>1, <2>3, <2>5 DEF UsersOf
    <3>2. F \ {f} = F' \ {f} /\ f \in F /\ f \notin F'
      BY <1>c, <2>1, <2>3, <2>5 DEF UsersOf
    <3>3. Cardinality(F') = Cardinality(F) - 1
      BY <1>n, <3>2, UsersChange
    <3> HIDE DEF P, F
    <3>4. QED
      BY <1>i, <1>p, <1>n, <2>2, <2>5, <3>1, <3>3
  <2>6. QED
    BY <2>1, <2>4, <2>5
<1>6. ASSUME NEW g \in Entries, f_inode[g] # NULL
      PROVE  g \notin New(p) /\ f_count[g] # 0
  BY <1>t, <1>6 DEF ProcessOf, EntryOf
<1>7. QED
  BY <1>1, <1>2, <1>3, <1>4, <1>5, <1>6, EntryEffects

-----------------------------------------------------------------------------
(* Reference counts are exact                                              *)

LEMMA InitCounted ==
  ASSUME Init
  PROVE  Counted
<1> USE DEF Init
<1>c. NULL \notin Entries /\ NULL \notin Inodes
  BY Constants
<1>e. Cardinality({}) = 0
  BY FS_EmptySet
<1>1. Types
  <2>1. Locals \in Args
    BY Constants DEF Locals, Args
  <2>2. RingOK
    BY FilesAssumption DEF RingOK
  <2>3. QED
    BY <2>1, <2>2, FilesAssumption DEF Types, Args, PC
<1>2. \A p \in Procs : ProcessOf(p)
  BY DEF ProcessOf, New, NewFDs, Open, FreeFDs
<1>3. \A f \in Entries : EntryOf(f)
  BY <1>c DEF EntryOf, Inodes
<1>4. OnePipe
  BY DEF OnePipe
<1>5. FilesCounted
  <2>1. \A f \in Entries : Refs(filp, f) = {}
    BY <1>c DEF Refs
  <2>2. QED
    BY <1>e, <2>1 DEF FilesCounted
<1>6. InodesCounted
  <2>1. UsersOf("pipe") = {} /\ UsersOf("file") = {} /\ Putting = {}
    BY DEF UsersOf, Putting
  <2>2. i_count["pipe"] = 0 /\ i_count["file"] = 0
    BY DEF Inodes
  <2>3. i_count["file"] = Cardinality(UsersOf("file")) + Cardinality(Putting)
    <3>1. Cardinality(UsersOf("file")) = 0 /\ Cardinality(Putting) = 0
      BY <1>e, <2>1, Zenon
    <3>2. QED
      BY <2>2, <3>1
  <2>4. QED
    BY <1>e, <2>1, <2>2, <2>3 DEF InodesCounted, Putting
<1>7. QED
  BY <1>1, <1>2, <1>3, <1>4, <1>5, <1>6 DEF Counted

(* Every step keeps the inductive invariant.                               *)
LEMMA CountedStep ==
  ASSUME Counted, [Next]_vars
  PROVE  Counted'
<1>1. ASSUME NEW p \in Procs, Steps(p)
      PROVE  Counted'
  <2>1. Kinds(p)
    BY <1>1, StepKinds
  <2>2. Types'
    BY <2>1, TypesStep
  <2>3. \A r \in Procs : ProcessOf(r)'
    BY <2>1, <2>2, ProcessOwn, ProcessOther
  <2>4. \A f \in Entries : EntryOf(f)'
    BY <2>1, <2>2, EntryStep
  <2>5. OnePipe' /\ FilesCounted' /\ InodesCounted'
    BY <2>1, <2>2, OnePipeStep, FilesCountedStep, InodesCountedStep
  <2>6. QED
    BY <2>2, <2>3, <2>4, <2>5 DEF Counted
<1>2. CASE UNCHANGED vars
  <2> USE <1>2 DEF vars, tableVars, pipeVars
  <2>1. Types'
    BY DEF Counted, Types, RingOK
  <2>2. \A p \in Procs : ProcessOf(p)'
    BY DEF Counted, ProcessOf, New, NewFDs, Open, FreeFDs
  <2>3. \A f \in Entries : EntryOf(f)'
    BY DEF Counted, EntryOf, New
  <2>4. OnePipe' /\ FilesCounted' /\ InodesCounted'
    BY DEF Counted, OnePipe, FilesCounted, InodesCounted, UsersOf
  <2>5. QED
    BY <2>1, <2>2, <2>3, <2>4 DEF Counted
<1>3. QED
  BY <1>1, <1>2 DEF Next

(* The inductive invariant holds for ever.                                 *)
LEMMA AlwaysCounted == Spec => []Counted
BY InitCounted, CountedStep, PTL DEF Spec

(* The counts are exact through dup, dup2, fork, exec, exit and every      *)
(* failed open or pipe, while any of them sleeps.                          *)
THEOREM CountsRight == Spec => []CountsExact
<1>1. Counted => CountsExact
  BY DEF Counted, FilesCounted, InodesCounted, Refs, CountsExact
<1>2. QED
  BY <1>1, AlwaysCounted, PTL

-----------------------------------------------------------------------------
(* The pipe                                                                *)

PipeEnds == {f_mode[f] : f \in UsersOf("pipe")}

(* Whose descriptor is of a mode holds that end of the pipe.               *)
LEMMA HasEnd ==
  ASSUME Counted, NEW p \in Procs, NEW fd \in Open(p), NEW m \in {"read", "write"},
         f_mode[filp[p][fd]] = m
  PROVE  m \in PipeEnds
<1> DEFINE f == filp[p][fd]
<1>1. fd \in FDs /\ f # NULL
  BY DEF Open, FreeFDs
<1>2. f \in Entries /\ f_count[f] > 0
  BY <1>1, Users DEF Counted
<1>3. f_inode[f] = "pipe"
  <2>1. EntryOf(f) /\ f_inode[f] \in {NULL, "pipe", "file"} /\ f_mode[f] \in {"read", "write"}
    BY <1>2 DEF Counted, Types, Inodes
  <2> HIDE DEF f
  <2>2. QED
    BY <2>1 DEF EntryOf
<1>4. QED
  BY <1>2, <1>3 DEF PipeEnds, UsersOf

(* A pipe has two users when it has both ends.                             *)
EndsCounted ==
  /\ PipeEnds \subseteq {"read", "write"}
  /\ i_count["pipe"] = 2 <=> PipeEnds = {"read", "write"}
  /\ i_count["pipe"] = 1 <=> \E m : PipeEnds = {m}
  /\ i_count["pipe"] = 0 <=> PipeEnds = {}

(* i_count of the pipe is the number of its ends, because no two entries   *)
(* are the same end.                                                       *)
LEMMA TwoUsers == Counted => EndsCounted
<1> SUFFICES ASSUME Counted
             PROVE  EndsCounted
  OBVIOUS
<1> DEFINE U == UsersOf("pipe")
<1>1. /\ U \subseteq Entries
      /\ \A f \in U : f_mode[f] \in {"read", "write"}
      /\ \A f \in U, g \in U : f_mode[f] = f_mode[g] => f = g
  BY DEF Counted, EntryOf, UsersOf
<1>2. i_count["pipe"] = Cardinality(U)
  BY DEF Counted, InodesCounted
<1>3. IsFiniteSet(U)
  BY <1>1, Constants, FS_Subset
<1>4. PipeEnds = {f_mode[f] : f \in U}
  BY DEF PipeEnds
<1> HIDE DEF U
<1>5. CASE U = {}
  <2>1. Cardinality(U) = 0 /\ PipeEnds = {}
    BY <1>4, <1>5, FS_EmptySet
  <2>2. QED
    BY <1>2, <2>1 DEF EndsCounted
<1>6. CASE \E f \in U : U = {f}
  <2>1. PICK f \in U : U = {f}
    BY <1>6
  <2>2. Cardinality(U) = 1
    BY <2>1, FS_Singleton
  <2>3. PipeEnds = {f_mode[f]} /\ f_mode[f] \in {"read", "write"}
    BY <1>1, <1>4, <2>1
  <2>4. QED
    BY <1>2, <2>2, <2>3 DEF EndsCounted
<1>7. CASE \E f \in U, g \in U : f # g
  <2>1. PICK f \in U, g \in U : f # g
    BY <1>7
  <2>2. f_mode[f] # f_mode[g] /\ U = {f} \cup {g}
    BY <1>1, <2>1
  <2>3. PipeEnds = {"read", "write"}
    BY <1>1, <1>4, <2>2
  <2>4. IsFiniteSet({f}) /\ Cardinality({f}) = 1
    BY FS_Singleton
  <2>5. Cardinality({f} \cup {g}) = 2
    BY <2>1, <2>4, FS_AddElement
  <2>6. QED
    BY <1>2, <2>2, <2>3, <2>5 DEF EndsCounted
<1>8. QED
  BY <1>5, <1>6, <1>7

(* The same in the next state.                                             *)
LEMMA TwoUsersNext == Counted' => EndsCounted'
BY TwoUsers, PTL

(* A pass over the pipe by a process that has the end for it.              *)
Passes(p) ==
  /\ UNCHANGED <<tableVars, i_count>>
  /\ \/ "read" \in PipeEnds /\ \E n \in Nat \ {0} : ReadPass(p, n)
     \/ "write" \in PipeEnds /\ \E n \in Nat \ {0}, b \in Bytes : WritePass(p, b, n)
     \/ /\ "write" \in PipeEnds /\ i_count["pipe"] # 2
        /\ told' = "broken" /\ asleep' = {} /\ UNCHANGED <<ring, head, tail, pc>>

(* What a step does to the pipe: nothing, or it makes it, or gives up one  *)
(* end of it, or passes over it.                                           *)
LEMMA PipeEffects ==
  ASSUME Counted, NEW p \in Procs, Steps(p)
  PROVE  \/ UNCHANGED <<pipeVars, asleep>> /\ PipeEnds' = PipeEnds
         \/ /\ PipeEnd(p) /\ PipeEnds = {} /\ PipeEnds' = {"read", "write"}
         \/ /\ PutPipe /\ \E m \in PipeEnds : PipeEnds' = PipeEnds \ {m}
         \/ Passes(p)
<1>k. Kinds(p)
  BY StepKinds
<1>t. Types /\ ProcessOf(p) /\ OnePipe /\ \A g \in Entries : EntryOf(g)
  BY DEF Counted
<1>v. /\ f_inode \in [Entries -> Inodes \cup {NULL}]
      /\ f_mode \in [Entries -> {"none", "file", "read", "write"}]
  BY <1>t DEF Types
<1>c. NULL # "pipe"
  BY Constants DEF Inodes
<1>n. \A g \in New(p) : g \in Entries /\ f_count[g] = 1 /\ f_inode[g] = NULL
  BY <1>t DEF ProcessOf
<1>1. CASE OpenEnd(p)
  <2> DEFINE f == filp[p][arg[p].fd]
  <2>1. f \in New(p)
    BY <1>1 DEF OpenEnd, Runs, New
  <2>2. /\ f_inode' = [f_inode EXCEPT ![f] = "file"]
        /\ f_mode' = [f_mode EXCEPT ![f] = "file"]
        /\ f_count' = [f_count EXCEPT ![f] = 1]
        /\ UNCHANGED <<pipeVars, asleep>>
    BY <1>1 DEF OpenEnd
  <2> HIDE DEF f
  <2>3. f \in Entries /\ f_inode[f] = NULL
    BY <1>n, <2>1
  <2>4. UsersOf("pipe")' = UsersOf("pipe") /\ f \notin UsersOf("pipe")
    BY <1>t, <1>v, <1>c, <2>2, <2>3 DEF UsersOf, Types
  <2>5. \A g \in UsersOf("pipe") : f_mode'[g] = f_mode[g]
    BY <1>v, <2>2, <2>3, <2>4 DEF UsersOf
  <2>6. PipeEnds' = PipeEnds
    BY <2>4, <2>5 DEF PipeEnds
  <2>7. QED
    BY <2>2, <2>6
<1>2. CASE PipeEnd(p)
  <2> DEFINE f0 == filp[p][arg[p].fd]
             f1 == filp[p][arg[p].fd2]
  <2>1. /\ New(p) = {f0, f1} /\ f0 # f1 /\ pc[p] = "piping"
    BY <1>2, InPipe DEF PipeEnd, Runs, New
  <2>2. /\ f_inode' = [f_inode EXCEPT ![f0] = "pipe", ![f1] = "pipe"]
        /\ f_mode' = [f_mode EXCEPT ![f0] = "read", ![f1] = "write"]
        /\ f_count' = f_count
    BY <1>2 DEF PipeEnd
  <2>3. \A g \in Entries : f_inode[g] # "pipe"
    BY <1>t, <2>1 DEF OnePipe
  <2> HIDE DEF f0, f1
  <2>4. UsersOf("pipe") = {} /\ UsersOf("pipe")' = {f0, f1}
    BY <1>n, <1>v, <2>1, <2>2, <2>3 DEF UsersOf
  <2>5. f_mode'[f0] = "read" /\ f_mode'[f1] = "write"
    BY <1>n, <1>v, <2>1, <2>2
  <2>6. QED
    BY <1>2, <2>4, <2>5 DEF PipeEnds
<1>3. CASE SysOpen(p) \/ OpenFails(p) \/ PutEnd(p) \/ SetCloseOnExec(p)
           \/ Fork(p) \/ ExitEnd(p) \/ SysPipe(p) \/ PipeFails(p) \/ Dups(p)
           \/ UNCHANGED <<tableVars, pipeVars, asleep>>
  <2>1. UNCHANGED <<pipeVars, asleep, f_inode, f_mode>>
    BY <1>3 DEF SysOpen, OpenFails, PutEnd, SetCloseOnExec, Fork, ExitEnd, SysPipe, PipeFails,
                Dups, tableVars
  <2>2. \A g \in Entries : f_inode[g] = "pipe" => f_count[g] # 0 /\ g \notin New(p)
    BY <1>t, <1>n, <1>c DEF EntryOf
  <2>3. \A g \in Entries : f_inode[g] = "pipe" => f_count'[g] > 0
    <3>1. CASE UNCHANGED tableVars
      BY <1>t, <2>2, <3>1 DEF tableVars, Types
    <3>2. CASE SysOpen(p) \/ OpenFails(p) \/ PutEnd(p) \/ SetCloseOnExec(p)
               \/ Fork(p) \/ ExitEnd(p) \/ SysPipe(p) \/ PipeFails(p) \/ Dups(p)
      <4>1. \A g \in Entries : f_inode[g] = "pipe" => f_count[g] > 0
        BY <1>t, <2>2 DEF Types
      <4>2. \A g \in Entries : (f_count[g] > 0 /\ g \notin New(p)) => f_count'[g] > 0
        <5>1. \A h \in Entries :
                f_inode[h] \in Inodes => f_inode' # [f_inode EXCEPT ![h] = NULL]
          BY <1>v, <2>1, NullAssumption
        <5>2. QED
          BY <1>k, <1>n, <5>1, EntryEffects
      <4>3. QED
        BY <2>2, <4>1, <4>2
    <3>3. QED
      BY <1>3, <3>1, <3>2 DEF tableVars
  <2>4. UsersOf("pipe")' = UsersOf("pipe")
    BY <1>t, <2>1, <2>2, <2>3 DEF UsersOf, Types
  <2>5. QED
    BY <2>1, <2>4 DEF PipeEnds
<1>4. CASE Closes(p)
  <2>1. New(p) = {}
    BY <1>4 DEF Closes, New
  <2>2. PICK fd \in Open(p), w \in {"user", "dup2ing", "exiting", "execing"} : CloseTo(p, fd, w)
    BY <1>4 DEF Closes
  <2> DEFINE f == filp[p][fd]
  <2> HIDE DEF f
  <2>3. /\ f \in Entries /\ f_count[f] \in Nat \ {0}
        /\ f_count' = [f_count EXCEPT ![f] = @ - 1]
        /\ \/ /\ f_count[f] > 1
              /\ UNCHANGED <<f_inode, f_mode, i_count, pipeVars, asleep>>
           \/ /\ f_count[f] = 1
              /\ f_inode' = [f_inode EXCEPT ![f] = NULL]
              /\ f_mode' = [f_mode EXCEPT ![f] = "none"]
              /\ \/ f_inode[f] = "pipe" /\ PutPipe
                 \/ f_inode[f] = "file" /\ UNCHANGED <<i_count, pipeVars, asleep>>
    BY <2>1, <2>2, CloseDoes DEF f
  <2>4. \A g \in Entries \ {f} : f_count'[g] = f_count[g]
    BY <1>t, <2>3 DEF Types
  <2>5. f_count'[f] = f_count[f] - 1
    BY <1>t, <2>3 DEF Types
  <2>6. CASE f_count[f] > 1 /\ UNCHANGED <<f_inode, f_mode, pipeVars, asleep>>
    <3>1. UsersOf("pipe")' = UsersOf("pipe")
      BY <2>3, <2>4, <2>5, <2>6 DEF UsersOf
    <3>2. QED
      BY <2>6, <3>1 DEF PipeEnds
  <2>7. CASE /\ f_count[f] = 1
             /\ f_inode' = [f_inode EXCEPT ![f] = NULL]
             /\ f_mode' = [f_mode EXCEPT ![f] = "none"]
             /\ \/ f_inode[f] = "pipe" /\ PutPipe
                \/ f_inode[f] = "file" /\ UNCHANGED <<i_count, pipeVars, asleep>>
    <3>1. UsersOf("pipe")' = UsersOf("pipe") \ {f}
      BY <1>v, <1>c, <2>3, <2>4, <2>5, <2>7 DEF UsersOf
    <3>2. \A g \in Entries \ {f} : f_mode'[g] = f_mode[g]
      BY <1>v, <2>7
    <3>3. PipeEnds' = {f_mode[g] : g \in UsersOf("pipe") \ {f}}
      BY <3>1, <3>2 DEF PipeEnds, UsersOf
    <3>4. CASE f_inode[f] = "pipe" /\ PutPipe
      <4>1. f \in UsersOf("pipe")
        BY <2>3, <3>4 DEF UsersOf
      <4>2. \A g \in UsersOf("pipe") : f_mode[g] = f_mode[f] => g = f
        BY <1>t, <3>4, <4>1 DEF EntryOf, UsersOf
      <4>3. f_mode[f] \in PipeEnds /\ PipeEnds' = PipeEnds \ {f_mode[f]}
        BY <3>3, <4>1, <4>2 DEF PipeEnds
      <4>4. QED
        BY <3>4, <4>3
    <3>5. CASE f_inode[f] = "file" /\ UNCHANGED <<i_count, pipeVars, asleep>>
      <4>1. f \notin UsersOf("pipe")
        BY <3>5 DEF UsersOf
      <4>2. PipeEnds' = PipeEnds
        BY <3>3, <4>1 DEF PipeEnds
      <4>3. QED
        BY <3>5, <4>2
    <3>6. QED
      BY <2>7, <3>4, <3>5
  <2>8. QED
    BY <2>3, <2>6, <2>7
<1>5. CASE SysClose(p) \/ ExitClose(p) \/ ExecClose(p)
  <2>1. CASE SysClose(p)
    <3>1. NewArg(p) /\ pc[p] = "user" /\ p \in alive \ asleep
      BY <1>t, <2>1, SameArg DEF SysClose, Runs
    <3>2. Closes(p)
      BY <2>1, <3>1 DEF SysClose, Closes
    <3>3. QED
      BY <1>4, <3>2
  <2>2. CASE ExitClose(p)
    <3>1. Min(Open(p)) \in Open(p)
      <4>1. Open(p) \in SUBSET FDs /\ Open(p) # {}
        BY <2>2 DEF ExitClose, Open
      <4>2. QED
        BY <4>1, MinFree
    <3>2. QED
      BY <1>t, <1>4, <2>2, <3>1, SameArg DEF ExitClose, Closes, Runs
  <2>3. CASE ExecClose(p)
    <3>1. close_on_exec[p] \in SUBSET FDs /\ close_on_exec[p] \subseteq Open(p)
      BY <1>t DEF Types, ProcessOf
    <3>2. Min(close_on_exec[p]) \in Open(p)
      BY <2>3, <3>1, MinFree DEF ExecClose
    <3>3. QED
      BY <1>t, <1>4, <2>3, <3>2, SameArg DEF ExecClose, Closes, Runs
  <2>4. QED
    BY <1>5, <2>1, <2>2, <2>3, SMTT(60)
<1>6. CASE SysDup(p) \/ Dup2End(p)
  <2>1. UNCHANGED <<pipeVars, asleep>> /\ (Moves(p) => UNCHANGED tableVars)
    BY <1>6 DEF SysDup, Dup2End, Moves
  <2>2. pc[p] \in {"user", "dup2ing"}
    BY <1>6 DEF SysDup, Dup2End, Runs
  <2>3. QED
    BY <1>k, <1>1, <1>2, <1>3, <1>4, <2>1 DEF Kinds
<1>7. CASE SysDup2(p)
  <2>1. PICK old \in FDs, new \in FDs :
           /\ arg' = [arg EXCEPT ![p].fd = old, ![p].fd2 = new, ![p].then = "dup2ing"]
           /\ IF filp[p][new] # NULL
                THEN CloseTo(p, new, "dup2ing")
                ELSE UNCHANGED <<tableVars, pipeVars, asleep>>
    BY <1>7 DEF SysDup2
  <2>2. CASE filp[p][new] # NULL
    <3>1. new \in Open(p) /\ NewArg(p)
      BY <1>t, <2>1, <2>2, SameArg DEF Open, FreeFDs
    <3>2. QED
      BY <1>4, <1>7, <2>1, <2>2, <3>1 DEF SysDup2, Closes, Runs
  <2>3. QED
    BY <1>3, <2>1, <2>2
<1>8. CASE Exit(p) \/ Exec(p) \/ ExecEnd(p)
  BY <1>3, <1>8 DEF Exit, Exec, ExecEnd
<1>9. CASE SysRead(p) \/ ReadAgain(p)
  <2>1. UNCHANGED <<tableVars, i_count>>
    BY <1>9 DEF SysRead, ReadAgain
  <2>2. PICK fd \in Open(p), n \in Nat \ {0} : f_mode[filp[p][fd]] = "read" /\ ReadPass(p, n)
    <3>1. CASE SysRead(p)
      BY <3>1, FilesAssumption DEF SysRead
    <3>2. CASE ReadAgain(p)
      BY <1>t, <3>2 DEF ReadAgain, Runs, ProcessOf, Types
    <3>3. QED
      BY <1>9, <3>1, <3>2
  <2>3. QED
    BY <2>1, <2>2, HasEnd DEF Passes
<1>10. CASE WriteAgain(p)
  <2>1. UNCHANGED <<tableVars, i_count>> /\ WritePass(p, arg[p].byte, arg[p].left)
    BY <1>10 DEF WriteAgain
  <2>2. /\ arg[p].left \in Nat \ {0} /\ arg[p].byte \in Bytes
        /\ \E fd \in Open(p) : f_mode[filp[p][fd]] = "write"
    BY <1>t, <1>10 DEF WriteAgain, Runs, ProcessOf, Types
  <2>3. QED
    BY <2>1, <2>2, HasEnd DEF Passes
<1>11. CASE SysWrite(p)
  <2>1. PICK fd \in Open(p), n \in Counts, b \in Bytes :
          /\ f_mode[filp[p][fd]] = "write"
          /\ IF i_count["pipe"] # 2
               THEN /\ told' = "broken"
                    /\ asleep' = {}
                    /\ UNCHANGED <<ring, head, tail, pc, arg>>
               ELSE WritePass(p, b, n)
    BY <1>11 DEF SysWrite
  <2>2. n \in Nat \ {0} /\ "write" \in PipeEnds
    BY <2>1, HasEnd, FilesAssumption
  <2>3. QED
    BY <1>11, <2>1, <2>2 DEF SysWrite, Passes
<1>12. QED
  BY <1>1, <1>2, <1>3, <1>5, <1>6, <1>7, <1>8, <1>9, <1>10, <1>11 DEF Steps

-----------------------------------------------------------------------------
(* The ring                                                                *)

(* The indices without remainders: the size, and the place of the byte     *)
(* that is j behind a place x.                                             *)
Off(x, j) == IF x + j < PAGE_SIZE THEN x + j ELSE x + j - PAGE_SIZE
Size(h, t) == IF h >= t THEN h - t ELSE h - t + PAGE_SIZE

Places == 0..(PAGE_SIZE - 1)

(* The masks of the index arithmetic, in linear cases.                     *)
LEMMA Remainders ==
  /\ \A x \in Places, j \in 0..PAGE_SIZE : (x + j) % PAGE_SIZE = Off(x, j)
  /\ \A x \in Places, y \in Places : (x - y) % PAGE_SIZE = Size(x, y)
<1>1. PAGE_SIZE \in Nat \ {0}
  BY FilesAssumption
<1>2. ASSUME NEW x \in Places, NEW j \in 0..PAGE_SIZE
      PROVE  (x + j) % PAGE_SIZE = Off(x, j)
  <2>1. x + j \in -PAGE_SIZE .. (2 * PAGE_SIZE - 1)
    BY <1>1 DEF Places
  <2> DEFINE a == x + j
  <2> HIDE DEF a
  <2>2. a % PAGE_SIZE = IF a < 0 THEN a + PAGE_SIZE ELSE IF a < PAGE_SIZE THEN a ELSE a - PAGE_SIZE
    BY <1>1, <2>1, ModNear DEF a
  <2>3. a >= 0
    BY <1>1 DEF a, Places
  <2>4. QED
    BY <1>1, <2>2, <2>3 DEF a, Off, Places
<1>3. ASSUME NEW x \in Places, NEW y \in Places
      PROVE  (x - y) % PAGE_SIZE = Size(x, y)
  <2>1. x - y \in -PAGE_SIZE .. (2 * PAGE_SIZE - 1)
    BY <1>1 DEF Places
  <2> DEFINE a == x - y
  <2> HIDE DEF a
  <2>2. a % PAGE_SIZE = IF a < 0 THEN a + PAGE_SIZE ELSE IF a < PAGE_SIZE THEN a ELSE a - PAGE_SIZE
    BY <1>1, <2>1, ModNear DEF a
  <2>3. a < PAGE_SIZE /\ (a < 0 <=> x < y)
    BY <1>1 DEF a, Places
  <2>4. QED
    BY <2>2, <2>3 DEF a, Size, Places
<1>4. QED
  BY <1>2, <1>3

QueueOf(R, h, t) == [j \in 1..Size(h, t) |-> R[Off(t, j - 1)]]

(* The queue of a ring, without remainders.                                *)
LEMMA SizeIs ==
  ASSUME NEW h \in Places, NEW t \in Places
  PROVE  /\ (h - t) % PAGE_SIZE = Size(h, t) /\ Size(h, t) \in Places
         /\ h = t <=> Size(h, t) = 0
<1>1. PAGE_SIZE \in Nat \ {0, 1}
  BY FilesAssumption
<1>2. (h - t) % PAGE_SIZE = Size(h, t)
  BY Remainders
<1>3. Size(h, t) \in Places /\ (h = t <=> Size(h, t) = 0)
  BY <1>1 DEF Size, Places
<1>4. QED
  BY <1>2, <1>3

(* And what its bytes are.                                                 *)
LEMMA QueueIs ==
  ASSUME NEW h \in Places, NEW t \in Places, NEW R
  PROVE  /\ (h - t) % PAGE_SIZE = Size(h, t) /\ Size(h, t) \in Places
         /\ h = t <=> Size(h, t) = 0
         /\ [j \in 1..((h - t) % PAGE_SIZE) |-> R[(t + j - 1) % PAGE_SIZE]] = QueueOf(R, h, t)
<1>1. PAGE_SIZE \in Nat \ {0, 1}
  BY FilesAssumption
<1>2. (h - t) % PAGE_SIZE = Size(h, t)
  BY SizeIs
<1>3. Size(h, t) \in Places /\ (h = t <=> Size(h, t) = 0)
  BY SizeIs
<1>4. ASSUME NEW j \in 1..Size(h, t)
      PROVE  (t + j - 1) % PAGE_SIZE = Off(t, j - 1)
  <2>1. j - 1 \in 0..PAGE_SIZE /\ t + j - 1 = t + (j - 1)
    BY <1>1, <1>3 DEF Places
  <2>2. QED
    BY <2>1, Remainders
<1>5. QED
  BY <1>2, <1>3, <1>4 DEF QueueOf

(* Size, emptiness and contents of the pipe, without remainders.           *)
LEMMA RingIs ==
  ASSUME RingOK
  PROVE  /\ head \in Places /\ tail \in Places
         /\ PipeSize = Size(head, tail) /\ PipeSize \in Places
         /\ PipeEmpty <=> PipeSize = 0
         /\ Contents = [j \in 1..PipeSize |-> ring[Off(tail, j - 1)]]
<1>1. head \in Places /\ tail \in Places
  BY DEF RingOK, Places
<1>2. Contents = QueueOf(ring, head, tail)
  BY <1>1, QueueIs DEF Contents, PipeSize
<1>3. PipeSize = Size(head, tail) /\ PipeSize \in Places /\ (PipeEmpty <=> PipeSize = 0)
  <2>1. /\ (head - tail) % PAGE_SIZE = Size(head, tail) /\ Size(head, tail) \in Places
        /\ head = tail <=> Size(head, tail) = 0
    BY <1>1, SizeIs
  <2>2. QED
    BY <2>1 DEF PipeSize, PipeEmpty
<1>4. QED
  BY <1>1, <1>2, <1>3 DEF QueueOf

(* The same in the next state.                                             *)
LEMMA RingIsNext ==
  ASSUME RingOK'
  PROVE  /\ head' \in Places /\ tail' \in Places
         /\ PipeSize' = Size(head', tail') /\ PipeSize' \in Places
         /\ PipeEmpty' <=> PipeSize' = 0
         /\ Contents' = [j \in 1..PipeSize' |-> ring'[Off(tail', j - 1)]]
<1>1. head' \in Places /\ tail' \in Places
  BY DEF RingOK, Places
<1>2. Contents' = QueueOf(ring', head', tail')
  BY <1>1, QueueIs DEF Contents, PipeSize
<1>3. PipeSize' = Size(head', tail') /\ PipeSize' \in Places /\ (PipeEmpty' <=> PipeSize' = 0)
  <2>1. /\ (head' - tail') % PAGE_SIZE = Size(head', tail') /\ Size(head', tail') \in Places
        /\ head' = tail' <=> Size(head', tail') = 0
    BY <1>1, SizeIs
  <2>2. QED
    BY <2>1 DEF PipeSize, PipeEmpty
<1>4. QED
  BY <1>1, <1>2, <1>3 DEF QueueOf

(* A read of k bytes takes the first k of the queue.                       *)
LEMMA TakeBytes ==
  ASSUME RingOK, NEW k \in 1..PipeSize, RingOK',
         tail' = IncPipe(tail, k), head' = head,
         ring' = [j \in DOMAIN ring |->
                    IF (j - tail) % PAGE_SIZE < k THEN NULL ELSE ring[j]]
  PROVE  PipeSize' = PipeSize - k /\ Contents' = [j \in 1..(PipeSize - k) |-> Contents[j + k]]
<1>1. /\ PAGE_SIZE \in Nat \ {0, 1} /\ head \in Places /\ tail \in Places
      /\ PipeSize = Size(head, tail) /\ PipeSize \in Places /\ k \in Nat
  BY RingIs, FilesAssumption DEF Places
<1>2. tail' = Off(tail, k) /\ tail' \in Places
  BY <1>1, Remainders, RingIs DEF IncPipe, Places, RingOK
<1>3. PipeSize' = Size(head, Off(tail, k))
  BY <1>2, RingIsNext
<1>4. Size(head, Off(tail, k)) = Size(head, tail) - k
  BY <1>1 DEF Size, Off, Places
<1>5. Contents' = [j \in 1..(PipeSize - k) |-> ring'[Off(Off(tail, k), j - 1)]]
  BY <1>1, <1>2, <1>3, <1>4, RingIsNext
<1>6. ASSUME NEW j \in 1..(PipeSize - k)
      PROVE  ring'[Off(Off(tail, k), j - 1)] = ring[Off(tail, j + k - 1)]
  <2>1. /\ Off(Off(tail, k), j - 1) = Off(tail, j + k - 1)
        /\ Off(tail, j + k - 1) \in Places
        /\ Size(Off(tail, j + k - 1), tail) >= k
    BY <1>1 DEF Off, Places, Size
  <2>2. \A x \in Places : ring'[x] = IF Size(x, tail) < k THEN NULL ELSE ring[x]
    BY <1>1, Remainders DEF RingOK, Places
  <2>3. Size(Off(tail, j + k - 1), tail) \in Int
    BY <1>1, <2>1 DEF Size, Places
  <2> DEFINE x == Off(tail, j + k - 1)
  <2> HIDE DEF x
  <2>4. x \in Places /\ Size(x, tail) >= k /\ Size(x, tail) \in Int
    BY <2>1, <2>3 DEF x
  <2>5. ring'[x] = ring[x]
    <3>1. ~(Size(x, tail) < k)
      BY <1>1, <2>4
    <3>2. QED
      BY <2>2, <2>4, <3>1, Zenon
  <2>6. QED
    BY <2>1, <2>5 DEF x
<1>7. ASSUME NEW j \in 1..(PipeSize - k)
      PROVE  Contents[j + k] = ring[Off(tail, j + k - 1)]
  <2>1. j + k \in 1..PipeSize
    BY <1>1 DEF Places
  <2>2. QED
    BY <2>1, RingIs
<1>8. QED
  BY <1>1, <1>3, <1>4, <1>5, <1>6, <1>7

(* A write of k bytes appends them.                                        *)
LEMMA PutBytes ==
  ASSUME RingOK, NEW b \in Bytes, NEW k \in 0..(PAGE_SIZE - 1 - PipeSize), RingOK',
         head' = IncPipe(head, k), tail' = tail,
         ring' = [j \in 0..(PAGE_SIZE - 1) |->
                    IF (j - head) % PAGE_SIZE < k THEN b ELSE ring[j]]
  PROVE  /\ PipeSize' = PipeSize + k
         /\ Contents' = [j \in 1..(PipeSize + k) |-> IF j <= PipeSize THEN Contents[j] ELSE b]
<1>1. /\ PAGE_SIZE \in Nat \ {0, 1} /\ head \in Places /\ tail \in Places
      /\ PipeSize = Size(head, tail) /\ PipeSize \in Places /\ k \in 0..PAGE_SIZE
  BY RingIs, FilesAssumption, SMTT(60) DEF Places
<1>2. head' = Off(head, k) /\ head' \in Places
  BY <1>1, Remainders DEF IncPipe, Places, RingOK
<1>3. PipeSize' = Size(Off(head, k), tail)
  BY <1>2, RingIsNext
<1>4. Size(Off(head, k), tail) = Size(head, tail) + k
  BY <1>1 DEF Size, Off, Places
<1>5. Contents' = [j \in 1..(PipeSize + k) |-> ring'[Off(tail, j - 1)]]
  BY <1>1, <1>2, <1>3, <1>4, RingIsNext
<1>6. \A x \in Places : ring'[x] = IF Size(x, head) < k THEN b ELSE ring[x]
  BY <1>1, Remainders DEF RingOK, Places
<1>7. ASSUME NEW j \in 1..(PipeSize + k)
      PROVE  ring'[Off(tail, j - 1)] = IF j <= PipeSize THEN Contents[j] ELSE b
  <2> DEFINE x == Off(tail, j - 1)
  <2>1. /\ x \in Places /\ Size(x, head) \in Int
        /\ j <= PipeSize => Size(x, head) >= k
        /\ j > PipeSize => Size(x, head) < k
    BY <1>1 DEF Size, Off, Places
  <2>2. j <= PipeSize => Contents[j] = ring[x]
    BY <1>1, RingIs
  <2> HIDE DEF x
  <2>3. CASE j <= PipeSize
    <3>1. ~(Size(x, head) < k)
      BY <1>1, <2>1, <2>3
    <3>2. ring'[x] = Contents[j]
      BY <1>6, <2>1, <2>2, <2>3, <3>1, Zenon
    <3>3. QED
      BY <2>3, <3>2 DEF x
  <2>4. CASE j > PipeSize
    BY <1>1, <1>6, <2>1, <2>4, SMTT(60) DEF x, Places
  <2>5. QED
    BY <1>1, <2>3, <2>4 DEF Places
<1>8. QED
  BY <1>1, <1>3, <1>4, <1>5, <1>7

(* What a pass of a writer puts in: as much as there is room for.          *)
LEMMA WriteSize ==
  ASSUME RingOK, NEW n \in Nat \ {0}
  PROVE  LET k == Min({n, PAGE_SIZE - 1 - PipeSize})
         IN /\ k \in 0..(PAGE_SIZE - 1 - PipeSize) /\ k <= n
            /\ k # n => PipeSize + k = PAGE_SIZE - 1
<1> DEFINE room == PAGE_SIZE - 1 - PipeSize
           k == Min({n, room})
<1>1. room \in Nat
  BY Room
<1>2. k = IF n <= room THEN n ELSE room
  BY <1>1, Least
<1>3. PipeSize \in Places /\ PAGE_SIZE \in Nat
  BY RingIs, FilesAssumption
<1>4. k \in 0..room /\ k <= n /\ (k # n => k = room)
  <2> HIDE DEF room, k
  <2>1. QED
    BY <1>1, <1>2
<1>5. k = room => PipeSize + k = PAGE_SIZE - 1
  BY <1>3 DEF Places
<1>6. QED
  BY <1>4, <1>5

(* What a pass of a reader takes out.                                      *)
LEMMA ReadSize ==
  ASSUME RingOK, NEW n \in Nat \ {0}, ~PipeEmpty
  PROVE  Min({n, PipeSize}) \in 1..PipeSize
<1>1. PipeSize \in Nat \ {0}
  BY RingIs, FilesAssumption DEF Places
<1>2. Min({n, PipeSize}) = IF n <= PipeSize THEN n ELSE PipeSize
  BY <1>1, Least
<1>3. QED
  BY <1>1, <1>2

-----------------------------------------------------------------------------
(* Who sleeps is blocked                                                   *)

LEMMA BlockedStep ==
  ASSUME Counted, Counted', SleepersBlocked, [Next]_vars
  PROVE  SleepersBlocked'
<1>1. ASSUME NEW p \in Procs, Steps(p)
      PROVE  SleepersBlocked'
  <2>r. RingOK /\ RingOK' /\ asleep \in SUBSET Procs /\ pc \in [Procs -> PC]
    BY DEF Counted, Types
  <2>k. Kinds(p)
    BY <1>1, StepKinds, ZenonT(60)
  <2>p. p \notin asleep
    BY <1>1 DEF Steps, Runs, SysOpen, OpenEnd, OpenFails, SysClose, PutEnd, SysDup, SysDup2,
                Dup2End, SetCloseOnExec, Fork, Exit, ExitClose, ExitEnd, Exec, ExecClose, ExecEnd,
                SysPipe, PipeEnd, PipeFails, SysRead, ReadAgain, SysWrite, WriteAgain
  <2>1. CASE UNCHANGED <<pipeVars, asleep>> /\ PipeEnds' = PipeEnds
    <3>1. \A q \in asleep : pc'[q] = pc[q]
      BY <2>k, <2>p, <2>r, KeepsOthers
    <3>2. i_count["pipe"] = 2 => i_count'["pipe"] = 2
      <4>1. i_count["pipe"] = 2 => PipeEnds = {"read", "write"}
        BY TwoUsers DEF EndsCounted
      <4>2. PipeEnds' = {"read", "write"} => i_count'["pipe"] = 2
        BY TwoUsersNext DEF EndsCounted
      <4>3. QED
        BY <2>1, <4>1, <4>2
    <3>3. (PipeEmpty => PipeEmpty') /\ (PipeFull => PipeFull')
      BY <2>1 DEF pipeVars, PipeEmpty, PipeFull, PipeSize
    <3>4. QED
      BY <2>1, <3>1, <3>2, <3>3 DEF SleepersBlocked
  <2>2. CASE PipeEnd(p) /\ PipeEnds = {}
    <3>1. i_count["pipe"] = 0
      BY <2>2, TwoUsers DEF EndsCounted
    <3>2. asleep = {}
      BY <3>1 DEF SleepersBlocked
    <3>3. QED
      BY <2>2, <3>2 DEF PipeEnd, SleepersBlocked
  <2>3. CASE PutPipe
    BY <2>3 DEF PutPipe, SleepersBlocked
  <2>4. CASE Passes(p)
    <3>1. CASE asleep' = {}
      BY <3>1 DEF SleepersBlocked
    <3>2. ASSUME NEW n \in Nat \ {0}, ReadPass(p, n), asleep' # {}
          PROVE  SleepersBlocked'
      <4>1. /\ PipeEmpty /\ i_count["pipe"] = 2 /\ asleep' = {p} /\ At(p, "reading")
            /\ UNCHANGED <<head, tail>>
        BY <3>2 DEF ReadPass, pipeVars
      <4>2. pc'[p] = "reading" /\ i_count'["pipe"] = 2 /\ PipeEmpty'
        BY <2>4, <2>r, <4>1 DEF Passes, At, PipeEmpty
      <4>3. QED
        BY <4>1, <4>2 DEF SleepersBlocked
    <3>3. ASSUME NEW n \in Nat \ {0}, NEW b \in Bytes, WritePass(p, b, n), asleep' # {}
          PROVE  SleepersBlocked'
      <4> DEFINE k == Min({n, PAGE_SIZE - 1 - PipeSize})
      <4>1. /\ k # n /\ i_count["pipe"] = 2 /\ asleep' = {p} /\ At(p, "writing")
            /\ head' = IncPipe(head, k) /\ tail' = tail
            /\ ring' = [j \in 0..(PAGE_SIZE - 1) |->
                          IF (j - head) % PAGE_SIZE < k THEN b ELSE ring[j]]
        BY <3>3 DEF WritePass
      <4>2. k \in 0..(PAGE_SIZE - 1 - PipeSize) /\ PipeSize + k = PAGE_SIZE - 1
        BY <2>r, <4>1, WriteSize
      <4> HIDE DEF k
      <4>3. PipeSize' = PipeSize + k
        BY <2>r, <4>1, <4>2, PutBytes
      <4>4. PipeFull'
        BY <4>2, <4>3 DEF PipeFull
      <4>5. pc'[p] = "writing" /\ i_count'["pipe"] = 2
        BY <2>4, <2>r, <4>1 DEF Passes, At
      <4>6. QED
        BY <4>1, <4>4, <4>5 DEF SleepersBlocked
    <3>4. QED
      BY <2>4, <3>1, <3>2, <3>3 DEF Passes
  <2>5. QED
    BY <1>1, <2>1, <2>2, <2>3, <2>4, PipeEffects
<1>2. CASE UNCHANGED vars
  BY <1>2 DEF vars, pipeVars, SleepersBlocked, PipeEmpty, PipeFull, PipeSize
<1>3. QED
  BY <1>1, <1>2 DEF Next

(* Nobody sleeps on a pipe who could go on: every read, write and close    *)
(* that makes a difference wakes the one queue of the pipe, whoever is on  *)
(* it.                                                                     *)
THEOREM SleepersWaitForSomething == Spec => []SleepersBlocked
<1>1. Init => SleepersBlocked
  BY DEF Init, SleepersBlocked
<1>2. QED
  BY <1>1, AlwaysCounted, BlockedStep, PTL DEF Spec

-----------------------------------------------------------------------------
(* The pipe is a bounded queue                                             *)

LEMMA ContentsIsSeq ==
  ASSUME RingOK
  PROVE  Contents \in Seq(Bytes \cup {NULL})
<1>1. PipeSize \in Nat /\ tail \in Places /\ PipeSize \in Places
  BY RingIs DEF Places
<1>2. \A j \in 1..PipeSize : Off(tail, j - 1) \in Places
  BY <1>1, FilesAssumption DEF Off, Places
<1>3. Contents \in [1..PipeSize -> Bytes \cup {NULL}]
  BY <1>2, RingIs DEF RingOK, Places
<1>4. QED
  BY <1>1, <1>3

(* A sequence that goes on with k times b.                                 *)
LEMMA AppendMany ==
  ASSUME NEW S, NEW q \in Seq(S), NEW b \in S, NEW k \in Nat
  PROVE  [j \in 1..(Len(q) + k) |-> IF j <= Len(q) THEN q[j] ELSE b] = q \o [j \in 1..k |-> b]
<1> DEFINE n == Len(q)
           R == [j \in 1..(n + k) |-> IF j <= n THEN q[j] ELSE b]
           T == [j \in 1..k |-> b]
<1>1. n \in Nat /\ \A j \in 1..n : q[j] \in S
  BY LenProperties, ElementOfSeq
<1>2. R \in [1..(n + k) -> S] /\ n + k \in Nat /\ DOMAIN R = 1..(n + k)
  BY <1>1
<1>3. R \in Seq(S) /\ Len(R) = n + k
  <2> HIDE DEF R, n
  <2>1. QED
    BY <1>2
<1>4. T \in Seq(S) /\ Len(T) = k
  OBVIOUS
<1>5. /\ q \o T \in Seq(S) /\ Len(q \o T) = n + k
      /\ \A j \in 1..(n + k) : (q \o T)[j] = IF j <= n THEN q[j] ELSE T[j - n]
  <2> HIDE DEF T
  <2>1. QED
    BY <1>4, ConcatProperties
<1>6. \A j \in 1..(n + k) : R[j] = (q \o T)[j]
  <2> SUFFICES ASSUME NEW j \in 1..(n + k)
               PROVE  R[j] = (q \o T)[j]
    OBVIOUS
  <2>1. R[j] = IF j <= n THEN q[j] ELSE b
    OBVIOUS
  <2>2. j > n => T[j - n] = b
    BY <1>1
  <2> HIDE DEF R, T, n
  <2>3. QED
    BY <1>1, <1>5, <2>1, <2>2
<1> HIDE DEF R, T, n
<1>7. R = q \o T
  BY <1>3, <1>5, <1>6, SeqEqual
<1>8. QED
  BY <1>7 DEF R, T, n

(* An empty page is an empty queue.                                        *)
LEMMA FifoInit ==
  ASSUME Init
  PROVE  Fifo!Init
<1>1. RingOK
  BY FilesAssumption DEF Init, RingOK
<1>2. PipeSize = 0
  BY <1>1, RingIs DEF Init, PipeEmpty
<1>3. Contents = <<>>
  BY <1>2 DEF Contents
<1>4. UsersOf("pipe") = {}
  BY DEF Init, UsersOf
<1>5. QED
  BY <1>3, <1>4 DEF Init, Fifo!Init

(* Every step is a step of the queue with two ends, or leaves it alone.    *)
LEMMA FifoStep ==
  ASSUME Counted, Counted', [Next]_vars
  PROVE  [Fifo!Next]_(Fifo!fifoVars)
<1> DEFINE Stutter == Contents' = Contents /\ PipeEnds' = PipeEnds /\ told' = told
<1>s. Stutter => [Fifo!Next]_(Fifo!fifoVars)
  BY DEF Fifo!fifoVars, PipeEnds
<1>1. ASSUME NEW p \in Procs, Steps(p)
      PROVE  [Fifo!Next]_(Fifo!fifoVars)
  <2>r. RingOK /\ RingOK'
    BY DEF Counted, Types
  <2>e. EndsCounted /\ EndsCounted'
    BY TwoUsers, TwoUsersNext
  <2>l. Len(Contents) = PipeSize /\ PipeSize \in Nat
    BY <2>r, RingIs DEF Places
  <2>1. CASE UNCHANGED <<pipeVars, asleep>> /\ PipeEnds' = PipeEnds
    BY <1>s, <2>1 DEF pipeVars, Contents, PipeSize
  <2>2. CASE /\ PipeEnd(p) /\ PipeEnds = {} /\ PipeEnds' = {"read", "write"}
    <3>1. head' = 0 /\ tail' = 0 /\ told' = "ok"
      BY <2>2 DEF PipeEnd
    <3>2. PipeSize' = 0
      BY <2>r, <3>1, RingIsNext DEF PipeEmpty
    <3>3. Contents' = <<>>
      BY <3>2 DEF Contents
    <3>4. Fifo!Make
      BY <2>2, <3>1, <3>3 DEF Fifo!Make, Fifo!Ends, PipeEnds
    <3>5. QED
      BY <3>4 DEF Fifo!Next
  <2>3. CASE /\ PutPipe /\ \E m \in PipeEnds : PipeEnds' = PipeEnds \ {m}
    <3>1. PICK m \in PipeEnds : PipeEnds' = PipeEnds \ {m}
      BY <2>3
    <3>2. i_count["pipe"] = 1 <=> PipeEnds' = {}
      BY <2>e, <3>1, ZenonT(60) DEF EndsCounted
    <3>3. CASE i_count["pipe"] = 1
      <4>1. head' = 0 /\ tail' = 0
        BY <2>3, <3>3 DEF PutPipe
      <4>2. PipeSize' = 0
        BY <2>r, <4>1, RingIsNext DEF PipeEmpty
      <4>3. Contents' = <<>>
        BY <4>2 DEF Contents
      <4>4. Fifo!Close
        BY <2>3, <3>1, <3>2, <3>3, <4>3 DEF PutPipe, Fifo!Close, PipeEnds
      <4>5. QED
        BY <4>4 DEF Fifo!Next
    <3>4. CASE i_count["pipe"] # 1
      <4>1. Contents' = Contents
        BY <2>3, <3>4 DEF PutPipe, Contents, PipeSize
      <4>2. PipeEnds' \in (SUBSET PipeEnds) \ {PipeEnds}
        BY <3>1
      <4>3. PipeEnds' # {} /\ told' = "ok"
        BY <2>3, <3>2, <3>4 DEF PutPipe
      <4>4. Fifo!Close
        BY <4>1, <4>2, <4>3 DEF Fifo!Close, PipeEnds
      <4>5. QED
        BY <4>4 DEF Fifo!Next
    <3>5. QED
      BY <3>3, <3>4
  <2>4. CASE Passes(p)
    <3>0. PipeEnds' = PipeEnds
      BY <2>4 DEF Passes, tableVars, PipeEnds, UsersOf
    <3>1. ASSUME "read" \in PipeEnds, NEW n \in Nat \ {0}, ReadPass(p, n)
          PROVE  [Fifo!Next]_(Fifo!fifoVars)
      <4>1. CASE PipeEmpty /\ i_count["pipe"] # 2
        <5>1. told' = "eof" /\ UNCHANGED <<ring, head, tail>>
          BY <3>1, <4>1 DEF ReadPass
        <5>2. Contents' = Contents /\ Contents = <<>>
          BY <2>r, <4>1, <5>1, RingIs DEF Contents, PipeSize
        <5>3. "write" \notin PipeEnds
          BY <2>e, <3>1, <4>1 DEF EndsCounted
        <5>4. Fifo!TellEof
          BY <3>0, <3>1, <5>1, <5>2, <5>3 DEF Fifo!TellEof, PipeEnds
        <5>5. QED
          BY <5>4 DEF Fifo!Next
      <4>2. CASE PipeEmpty /\ i_count["pipe"] = 2
        <5>1. UNCHANGED pipeVars
          BY <3>1, <4>2 DEF ReadPass
        <5>2. QED
          BY <1>s, <3>0, <5>1 DEF pipeVars, Contents, PipeSize
      <4>3. CASE ~PipeEmpty
        <5> DEFINE k == Min({n, PipeSize})
        <5>1. /\ tail' = IncPipe(tail, k) /\ head' = head /\ told' = "ok"
              /\ ring' = [j \in DOMAIN ring |->
                            IF (j - tail) % PAGE_SIZE < k THEN NULL ELSE ring[j]]
          BY <3>1, <4>3 DEF ReadPass
        <5>2. k \in 1..PipeSize
          BY <2>r, <4>3, ReadSize
        <5> HIDE DEF k
        <5>3. Contents' = [j \in 1..(PipeSize - k) |-> Contents[j + k]]
          BY <2>r, <5>1, <5>2, TakeBytes
        <5>4. Contents' = SubSeq(Contents, k + 1, Len(Contents))
          BY <2>l, <5>2, <5>3
        <5>5. Fifo!Take
          BY <2>l, <3>0, <3>1, <5>1, <5>2, <5>4 DEF Fifo!Take, PipeEnds
        <5>6. QED
          BY <5>5 DEF Fifo!Next
      <4>4. QED
        BY <4>1, <4>2, <4>3
    <3>2. ASSUME "write" \in PipeEnds, NEW n \in Nat \ {0}, NEW b \in Bytes, WritePass(p, b, n)
          PROVE  [Fifo!Next]_(Fifo!fifoVars)
      <4> DEFINE k == Min({n, PAGE_SIZE - 1 - PipeSize})
      <4>1. /\ head' = IncPipe(head, k) /\ tail' = tail
            /\ ring' = [j \in 0..(PAGE_SIZE - 1) |->
                          IF (j - head) % PAGE_SIZE < k THEN b ELSE ring[j]]
            /\ \/ k = n /\ told' = "ok"
               \/ k # n /\ i_count["pipe"] # 2 /\ told' = "broken"
               \/ k # n /\ i_count["pipe"] = 2 /\ told' = IF k > 0 THEN "ok" ELSE told
        BY <3>2 DEF WritePass
      <4>2. k \in 0..(PAGE_SIZE - 1 - PipeSize)
        BY <2>r, WriteSize
      <4> HIDE DEF k
      <4>3. Contents' = [j \in 1..(PipeSize + k) |-> IF j <= PipeSize THEN Contents[j] ELSE b]
        BY <2>r, <4>1, <4>2, PutBytes
      <4>4. i_count["pipe"] # 2 => "read" \notin PipeEnds
        BY <2>e, <3>2 DEF EndsCounted
      <4>5. CASE k = 0
        <5>1. Contents' = Contents
          BY <2>r, <4>2, <4>3, <4>5, RingIs DEF Places
        <5>2. CASE told' = told
          BY <1>s, <3>0, <5>1, <5>2
        <5>3. CASE told' = "broken" /\ i_count["pipe"] # 2
          <6>1. Fifo!TellBroken
            BY <3>0, <3>2, <4>4, <5>1, <5>3 DEF Fifo!TellBroken, PipeEnds
          <6>2. QED
            BY <6>1 DEF Fifo!Next
        <5>4. QED
          BY <4>1, <4>5, <5>2, <5>3
      <4>6. CASE k > 0
        <5>1. Contents' = Contents \o [j \in 1..k |-> b]
          <6>1. Contents \in Seq(Bytes \cup {NULL})
            BY <2>r, ContentsIsSeq
          <6>2. QED
            BY <2>l, <4>2, <4>3, <6>1, AppendMany
        <5>2. k \in 1..((PAGE_SIZE - 1) - Len(Contents))
          BY <2>l, <4>2, <4>6, FilesAssumption
        <5>3. told' \in {"ok"} \cup (IF "read" \in PipeEnds THEN {} ELSE {"broken"})
          BY <4>1, <4>4, <4>6
        <5>4. Fifo!Put
          BY <3>0, <3>2, <5>1, <5>2, <5>3 DEF Fifo!Put, PipeEnds
        <5>5. QED
          BY <5>4 DEF Fifo!Next
      <4>7. QED
        BY <4>2, <4>5, <4>6
    <3>3. ASSUME "write" \in PipeEnds, i_count["pipe"] # 2, told' = "broken",
                 UNCHANGED <<ring, head, tail>>
          PROVE  [Fifo!Next]_(Fifo!fifoVars)
      <4>1. Contents' = Contents
        BY <3>3 DEF Contents, PipeSize
      <4>2. "read" \notin PipeEnds
        BY <2>e, <3>3 DEF EndsCounted
      <4>3. Fifo!TellBroken
        BY <3>0, <3>3, <4>1, <4>2 DEF Fifo!TellBroken, PipeEnds
      <4>4. QED
        BY <4>3 DEF Fifo!Next
    <3>4. QED
      BY <2>4, <3>1, <3>2, <3>3 DEF Passes
  <2>5. QED
    BY <1>1, <2>1, <2>2, <2>3, <2>4, PipeEffects
<1>2. CASE UNCHANGED vars
  BY <1>s, <1>2 DEF vars, pipeVars, tableVars, Contents, PipeSize, PipeEnds, UsersOf
<1>3. QED
  BY <1>1, <1>2 DEF Next

(* The ring in a page, with its indices that wrap, the counts and the      *)
(* sleeping readers and writers implement the bounded queue of PipeFifo.   *)
THEOREM PipeIsFifo == Spec => ImplementsFifo
BY AlwaysCounted, FifoInit, FifoStep, PTL DEF Spec, ImplementsFifo, Fifo!Spec

-----------------------------------------------------------------------------
(* Type correctness                                                        *)

CpuOK == cpu \in Procs \cup {Nobody}

(* The processor belongs to a process or to nobody.                        *)
LEMMA CpuStep ==
  ASSUME CpuOK, [Next]_vars
  PROVE  CpuOK'
<1>1. ASSUME NEW p \in Procs, Steps(p)
      PROVE  CpuOK'
  <2>1. CASE UNCHANGED cpu
    BY <2>1 DEF CpuOK
  <2>2. CASE cpu' \in {p, Nobody}
    BY <2>2 DEF CpuOK
  <2>3. \A fd, w : CloseTo(p, fd, w) => cpu' \in {p, Nobody}
    BY SMTT(60) DEF CloseTo
  <2>4. SysOpen(p) \/ OpenEnd(p) \/ OpenFails(p) \/ SysDup(p) \/ SetCloseOnExec(p) \/ Fork(p)
          \/ SysPipe(p) \/ PipeEnd(p) \/ PipeFails(p) \/ SysRead(p) \/ ReadAgain(p)
          \/ SysWrite(p) \/ WriteAgain(p)
        => UNCHANGED cpu
    BY DEF SysOpen, OpenEnd, OpenFails, SysDup, SetCloseOnExec, Fork, SysPipe, PipeEnd,
           PipeFails, SysRead, ReadAgain, SysWrite, WriteAgain
  <2>5. PutEnd(p) \/ Dup2End(p) \/ Exit(p) \/ ExitEnd(p) \/ Exec(p) \/ ExecEnd(p)
        => cpu' \in {p, Nobody}
    BY SMTT(60) DEF PutEnd, Dup2End, Exit, ExitEnd, Exec, ExecEnd
  <2>6. SysClose(p) \/ SysDup2(p) \/ ExitClose(p) \/ ExecClose(p) => cpu' \in {p, Nobody}
    BY <2>3 DEF SysClose, SysDup2, ExitClose, ExecClose
  <2>7. QED
    BY <1>1, <2>1, <2>2, <2>4, <2>5, <2>6 DEF Steps
<1>2. CASE UNCHANGED vars
  BY <1>2 DEF vars, CpuOK
<1>3. QED
  BY <1>1, <1>2 DEF Next

(* Types, and the bounds of the counts, which follow from what they count. *)
THEOREM FilesTyped == Spec => []TypeOK
<1>1. ASSUME Counted, SleepersBlocked, CpuOK
      PROVE  TypeOK
  <2>t. Types
    BY <1>1 DEF Counted
  <2>1. asleep \subseteq alive
    BY <1>1, <2>t DEF SleepersBlocked, Counted, ProcessOf, Types
  <2>2. f_count \in [Entries -> 0..(Cardinality(Procs) * NR_OPEN)]
    <3> DEFINE n == Cardinality(Procs) * NR_OPEN
    <3>1. IsFiniteSet(Procs \X FDs) /\ Cardinality(Procs \X FDs) = n
      <4>1. IsFiniteSet(FDs) /\ Cardinality(FDs) = NR_OPEN
        BY FS_Interval, FilesAssumption DEF FDs
      <4>2. QED
        BY <4>1, FS_Product, FilesAssumption
    <3>2. n \in Nat
      BY FS_CardinalityType, FilesAssumption
    <3>3. ASSUME NEW f \in Entries
          PROVE  f_count[f] \in 0..n
      <4>1. f_count[f] = Cardinality(Refs(filp, f))
        BY <1>1 DEF Counted, FilesCounted
      <4>2. Refs(filp, f) \in SUBSET (Procs \X FDs)
        BY DEF Refs
      <4>3. Cardinality(Refs(filp, f)) \in Nat /\ Cardinality(Refs(filp, f)) <= n
        BY <3>1, <4>2, CountPart
      <4> HIDE DEF n
      <4>4. QED
        BY <3>2, <4>1, <4>3
    <3>4. QED
      BY <2>t, <3>3 DEF Types
  <2>3. i_count["pipe"] \in 0..2
    BY <1>1, TwoUsers, <2>t DEF EndsCounted, Counted, InodesCounted
  <2>4. i_count["file"] \in 0..(NR_FILE + Cardinality(Procs))
    <3>1. IsFiniteSet(Entries) /\ Cardinality(Entries) = NR_FILE
      BY FS_Interval, FilesAssumption DEF Entries
    <3>2. Cardinality(UsersOf("file")) \in 0..NR_FILE
      BY <3>1, CountPart DEF UsersOf
    <3>3. Cardinality(Putting) \in 0..Cardinality(Procs)
      BY CountPart, FilesAssumption, FS_CardinalityType DEF Putting
    <3>4. i_count["file"] = Cardinality(UsersOf("file")) + Cardinality(Putting)
      BY <1>1 DEF Counted, InodesCounted, Putting
    <3>5. NR_FILE \in Nat /\ Cardinality(Procs) \in Nat
      BY FilesAssumption, FS_CardinalityType
    <3>6. QED
      BY <3>2, <3>3, <3>4, <3>5
  <2>5. arg \in [Procs -> [fd : FDs, fd2 : FDs, then : PC, left : Nat, byte : Bytes \cup {NULL}]]
    <3>1. \A p \in Procs : arg[p] \in [fd : FDs, fd2 : FDs, then : PC, left : Nat,
                                       byte : Bytes \cup {NULL}]
      BY <2>t DEF Types, PC
    <3>2. QED
      BY <2>t, <3>1 DEF Types
  <2>6. QED
    BY <1>1, <2>t, <2>1, <2>2, <2>3, <2>4, <2>5 DEF TypeOK, Types, RingOK, CpuOK
<1>2. Init => CpuOK /\ SleepersBlocked
  BY DEF Init, CpuOK, SleepersBlocked
<1>3. QED
  BY <1>1, <1>2, CpuStep, AlwaysCounted, SleepersWaitForSomething, PTL DEF Spec
=============================================================================
