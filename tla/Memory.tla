------------------------------- MODULE Memory -------------------------------
(***************************************************************************)
(* Pages of memory: mm/memory.c, and what fork, exec, exit and the kernel's*)
(* stores to user memory do with it.  fork lets parent and child share     *)
(* their pages, which are copied when one of them writes.                  *)
(*                                                                         *)
(* Page tables and pages are found through the page directory, one part of *)
(* it for each slot of the task table.  Contents are versions.  Page 0     *)
(* stands for the memory of the kernel, below LOW_MEM, which task 0 uses   *)
(* and which is not counted; init/main.c sees to it that task 0 does not   *)
(* write once it has forked.                                               *)
(***************************************************************************)
EXTENDS Integers, FiniteSets, FiniteSetsExt

CONSTANTS
  NR_TASKS,         \* slots of the task table
  Pages,            \* pages above LOW_MEM
  DIRS,             \* page tables of a task: 16 in the code
  ENTRIES,          \* entries of a page table: 1024 in the code
  Values,           \* contents of pages, 0 is a cleared page
  MaxUnverified     \* bound on the stores that are not verified

ASSUME MemoryAssumption ==
  /\ {NR_TASKS, DIRS, ENTRIES} \subseteq Nat \ {0}
  /\ 0 \in Values /\ MaxUnverified \in Nat
  /\ Pages \cap {0, -1} = {}

Tasks == 0..(NR_TASKS - 1)
Dirs == 0..(DIRS - 1)
Addresses == Dirs \X (0..(ENTRIES - 1))
Top == <<DIRS - 1, ENTRIES - 1>>
Low == 0
NoPage == -1

VARIABLES
  mem,      \* map: mem_map; dir[t][d]: the page that holds a page table;
            \* page[t][a], writable[t][a]: its entries; val: contents of pages
  task,     \* the page of the task structure, NoPage for a free slot
  pc,       \* what the task is doing
  place,    \* where a system call will store
  limit,    \* the number of page tables within its segment
  args,     \* the page exec holds for the arguments, or NoPage
  pipes,    \* pages of pipes
  lost,     \* pages that are counted but that nobody knows of any more
  unverified

memVars == <<mem, task, pc, place, limit, args, pipes, lost, unverified>>

MemInit ==
  /\ mem = [map |-> [p \in Pages |-> 0],
            dir |-> [t \in Tasks |-> [d \in Dirs |->
                       IF t = 0 /\ d = 0 THEN Low ELSE NoPage]],
            page |-> [t \in Tasks |-> [a \in Addresses |->
                       IF t = 0 /\ a[1] = 0 THEN Low ELSE NoPage]],
            writable |-> [t \in Tasks |-> [a \in Addresses |-> t = 0 /\ a[1] = 0]],
            val |-> [p \in Pages \cup {Low} |-> 0]]
  /\ task = [t \in Tasks |-> IF t = 0 THEN Low ELSE NoPage]
  /\ pc = [t \in Tasks |-> IF t = 0 THEN "user" ELSE "none"]
  /\ limit = [t \in Tasks |-> 1]
  /\ place = [t \in Tasks |-> Top]
  /\ args = [t \in Tasks |-> NoPage]
  /\ pipes = {} /\ lost = {} /\ unverified = 0

---------------------------------------------------------------------------
(* mm/memory.c, as functions from one state of memory to the next.         *)

Free(m) == {p \in Pages : m.map[p] = 0}

\* get_free_page: the last free page, cleared; there must be one.  Which one
\* it is makes no difference.
FreePage(m) == CHOOSE p \in Pages : m.map[p] = 0
get_free_page(m) ==
  [m EXCEPT !.map[FreePage(m)] = 1, !.val[FreePage(m)] = 0]

\* Contents of free pages are never looked at.
Forgotten(m) ==
  [m EXCEPT !.val = [p \in DOMAIN @ |-> IF p \in Free(m) THEN 0 ELSE @[p]]]

free_page(m, p) ==
  IF p \in Pages THEN Forgotten([m EXCEPT !.map[p] = @ - 1]) ELSE m

In(d) == {a \in Addresses : a[1] = d}
Users(m, t, addresses, p) == Cardinality({a \in addresses : m.page[t][a] = p})

\* A broken variant: pages are freed, page tables are not.
KeepTables(m, t, n) ==
  LET gone == {a \in Addresses : a[1] < n}
  IN Forgotten([m EXCEPT
       !.map = [p \in Pages |-> @[p] - Users(m, t, gone, p)],
       !.dir[t] = [d \in Dirs |-> IF d < n THEN NoPage ELSE @[d]],
       !.page[t] = [a \in Addresses |-> IF a \in gone THEN NoPage ELSE @[a]],
       !.writable[t] = [a \in Addresses |-> a \notin gone /\ @[a]]])

\* free_page_tables: the pages and page tables of n entries of the directory.
free_page_tables(m, t, n) ==
  LET gone == {a \in Addresses : a[1] < n}
      tables == {m.dir[t][d] : d \in 0..(n - 1)}
  IN Forgotten([m EXCEPT
       !.map = [p \in Pages |-> @[p] - Users(m, t, gone, p)
                                - (IF p \in tables THEN 1 ELSE 0)],
       !.dir[t] = [d \in Dirs |-> IF d < n THEN NoPage ELSE @[d]],
       !.page[t] = [a \in Addresses |-> IF a \in gone THEN NoPage ELSE @[a]],
       !.writable[t] = [a \in Addresses |-> a \notin gone /\ @[a]]])

\* A broken variant: only the child's entries become read-only.
CopyTableChild(m, t, u, d) ==
  LET copied == {a \in In(d) : m.page[t][a] # NoPage}
      n == get_free_page(m)
  IN [n EXCEPT !.dir[u][d] = FreePage(m),
               !.page[u] = [a \in Addresses |-> IF a \in copied THEN m.page[t][a] ELSE @[a]],
               !.map = [p \in Pages |-> @[p] + Users(m, t, copied, p)]]

\* One page table is copied: all pages become read-only for both, except that
\* the kernel's memory stays writable for its owner.
CopyTable(m, t, u, d) ==
  LET copied == {a \in In(d) : m.page[t][a] # NoPage}
      n == get_free_page(m)
  IN [n EXCEPT !.dir[u][d] = FreePage(m),
               !.page[u] = [a \in Addresses |-> IF a \in copied THEN m.page[t][a] ELSE @[a]],
               !.writable[t] = [a \in Addresses |-> @[a] /\ ~(a \in copied /\ m.page[t][a] # Low)],
               !.map = [p \in Pages |-> @[p] + Users(m, t, copied, p)]]

\* copy_page_tables, and free_page_tables if there is not enough memory; the
\* parent's pages stay read-only then.
copy_page_tables(m, t, u, n) ==
  LET f[d \in 0..n] ==
        IF d = 0 THEN [m |-> m, ok |-> TRUE]
        ELSE LET g == f[d - 1]
             IN IF ~g.ok \/ m.dir[t][d - 1] = NoPage THEN g
                ELSE IF Free(g.m) = {} THEN [g EXCEPT !.ok = FALSE]
                ELSE [g EXCEPT !.m = CopyTable(g.m, t, u, d - 1)]
  IN IF f[n].ok THEN f[n] ELSE [f[n] EXCEPT !.m = free_page_tables(@, u, n)]

\* put_page, if there is a page table or a page for one.
CanPut(m, t, a) == m.dir[t][a[1]] # NoPage \/ Free(m) # {}
put_page(m, t, a, p) ==
  LET n == IF m.dir[t][a[1]] # NoPage THEN m
           ELSE [get_free_page(m) EXCEPT !.dir[t][a[1]] = FreePage(m)]
  IN [n EXCEPT !.page[t][a] = p, !.writable[t][a] = TRUE]

copy_page(m, from, to) == [m EXCEPT !.val[to] = m.val[from]]

\* un_wp_page: the last user keeps the page.
Alone(m, p) == p # Low /\ m.map[p] = 1
un_wp_page(m, t, a) ==
  LET old == m.page[t][a]
      n == get_free_page(m)
      new == FreePage(m)
  IN IF Alone(m, old) THEN [m EXCEPT !.writable[t][a] = TRUE]
     ELSE copy_page([n EXCEPT !.map = [p \in Pages |-> IF p = old THEN @[p] - 1 ELSE @[p]],
                              !.page[t][a] = new,
                              !.writable[t][a] = TRUE],
                    old, new)

---------------------------------------------------------------------------
(* Tasks.                                                                  *)

\* do_exit of the task itself, or from a fault that finds no memory: what
\* exec holds is forgotten.
ExitWith(m, t) ==
  /\ mem' = free_page_tables(m, t, limit[t])
  /\ pc' = [pc EXCEPT ![t] = "zombie"]
  /\ args' = [args EXCEPT ![t] = NoPage]
  /\ lost' = lost \cup ({args[t]} \cap Pages)
  /\ UNCHANGED <<task, place, limit, pipes, unverified>>

Only(m) == mem' = m /\ UNCHANGED <<task, pc, place, limit, args, pipes, lost, unverified>>

\* fork: a page for the task structure, then the page tables.
Fork(t) ==
  /\ pc[t] = "user"
  /\ \E u \in Tasks : task[u] = NoPage
  /\ LET u == Min({v \in Tasks : task[v] = NoPage})
         n == get_free_page(mem)
         copy == copy_page_tables(n, t, u, limit[t])
     IN IF Free(mem) = {} THEN UNCHANGED memVars
        ELSE IF ~copy.ok THEN Only(free_page(copy.m, FreePage(mem)))
        ELSE /\ mem' = copy.m
             /\ task' = [task EXCEPT ![u] = FreePage(mem)]
             /\ pc' = [pc EXCEPT ![u] = "user"]
             /\ limit' = [limit EXCEPT ![u] = limit[t]]
             /\ UNCHANGED <<place, args, pipes, lost, unverified>>

Within(t, a) == a[1] < limit[t]

\* do_no_page: a page got for a page table that cannot be had is lost.
DoNoPage(t, a) ==
  /\ Within(t, a) /\ mem.page[t][a] = NoPage
  /\ IF Free(mem) = {} THEN ExitWith(mem, t)
     ELSE LET n == get_free_page(mem)
          IN IF CanPut(n, t, a) THEN Only(put_page(n, t, a, FreePage(mem)))
             ELSE /\ mem' = free_page_tables(n, t, limit[t])
                  /\ pc' = [pc EXCEPT ![t] = "zombie"]
                  /\ args' = [args EXCEPT ![t] = NoPage]
                  /\ lost' = lost \cup {FreePage(mem)} \cup ({args[t]} \cap Pages)
                  /\ UNCHANGED <<task, place, limit, pipes, unverified>>

\* do_wp_page, and write_verify of verify_area.
DoWpPage(t, a) ==
  /\ Within(t, a) /\ mem.page[t][a] # NoPage /\ ~mem.writable[t][a]
  /\ IF Alone(mem, mem.page[t][a]) \/ Free(mem) # {} THEN Only(un_wp_page(mem, t, a))
     ELSE ExitWith(mem, t)

\* A task touches its memory: its stores fault until the page is writable.
Touch(t, a) == pc[t] = "user" /\ t # 0 /\ (DoNoPage(t, a) \/ DoWpPage(t, a))

Put(t, a, v) == Only([mem EXCEPT !.val[mem.page[t][a]] = v])

Store(t, a, v) ==
  /\ pc[t] = "user" /\ t # 0
  /\ Within(t, a) /\ mem.writable[t][a]
  /\ Put(t, a, v)

\* A broken variant: the place is not verified.
UnverifiedWrite(t, a) == FALSE

\* write_verify: a page that is there and is not writable is made so.
write_verify(t, a) == mem.page[t][a] # NoPage /\ ~mem.writable[t][a]

\* A system call that stores: verify_area, the work, in which it may sleep,
\* and put_fs_byte, for which the processor does not look at the protection.
Verify(t, a) ==
  /\ pc[t] = "user" /\ t # 0 /\ Within(t, a)
  /\ IF write_verify(t, a) /\ ~Alone(mem, mem.page[t][a]) /\ Free(mem) = {}
       THEN ExitWith(mem, t)
       ELSE /\ mem' = IF write_verify(t, a) THEN un_wp_page(mem, t, a) ELSE mem
            /\ pc' = [pc EXCEPT ![t] = "put"]
            /\ place' = [place EXCEPT ![t] = a]
            /\ UNCHANGED <<task, limit, args, pipes, lost, unverified>>

PutVerified(t, a) ==
  /\ pc[t] = "put" /\ place[t] = a
  /\ \/ DoNoPage(t, a)
     \/ /\ mem.page[t][a] # NoPage
        /\ \E v \in Values : mem' = [mem EXCEPT !.val[mem.page[t][a]] = v]
        /\ pc' = [pc EXCEPT ![t] = "user"]
        /\ place' = [place EXCEPT ![t] = Top]
        /\ UNCHANGED <<task, limit, args, pipes, lost, unverified>>

\* sys_pipe stores the descriptors without verify_area.
PutUnverified(t, a, v) ==
  /\ pc[t] = "user" /\ t # 0 /\ unverified < MaxUnverified
  /\ Within(t, a) /\ mem.page[t][a] \in Pages
  /\ mem' = [mem EXCEPT !.val[mem.page[t][a]] = v]
  /\ unverified' = unverified + 1
  /\ UNCHANGED <<task, pc, place, limit, args, pipes, lost>>

\* Pages of pipes come and go.
PipePage ==
  /\ \/ /\ Free(mem) # {} /\ pipes = {}
        /\ mem' = get_free_page(mem)
        /\ pipes' = {FreePage(mem)}
     \/ \E p \in pipes : mem' = free_page(mem, p) /\ pipes' = pipes \ {p}
  /\ UNCHANGED <<task, pc, place, limit, args, lost, unverified>>

---------------------------------------------------------------------------
(* exec, from one place where it may sleep to the next.                    *)

\* copy_strings: arguments fill a page, or there are none; without memory the
\* call fails.
ExecArgs(t) ==
  /\ pc[t] = "user" /\ t # 0
  /\ \/ UNCHANGED <<mem, args>>
     \/ /\ Free(mem) # {}
        /\ \E v \in Values :
             mem' = [get_free_page(mem) EXCEPT !.val[FreePage(mem)] = v]
        /\ args' = [args EXCEPT ![t] = FreePage(mem)]
  /\ pc' = [pc EXCEPT ![t] = "exec"]
  /\ UNCHANGED <<task, place, limit, pipes, lost, unverified>>

\* The point of no return: files are closed and the memory is given up.
ExecFree(t) ==
  /\ pc[t] = "exec"
  /\ mem' = free_page_tables(mem, t, limit[t])
  /\ pc' = [pc EXCEPT ![t] = "load"]
  /\ UNCHANGED <<task, place, limit, args, pipes, lost, unverified>>

\* load_elf_binary: a section is copied, page by page, faults and all.
ExecLoad(t, a, v) ==
  /\ pc[t] = "load"
  /\ \/ DoNoPage(t, a)
     \/ Within(t, a) /\ mem.page[t][a] # NoPage /\ Put(t, a, v)

\* A file that is not what it should be: the call returns to a program that is
\* gone, and the page of the arguments is lost.
ExecFail(t) ==
  /\ pc[t] = "load"
  /\ pc' = [pc EXCEPT ![t] = "user"]
  /\ lost' = lost \cup ({args[t]} \cap Pages)
  /\ args' = [args EXCEPT ![t] = NoPage]
  /\ UNCHANGED <<mem, task, place, limit, pipes, unverified>>

\* change_ldt: the segment is as large as can be, and the arguments go to its
\* top, in place of a section that was loaded there; create_tables stores
\* there, which faults if there is no page.
ExecDone(t) ==
  /\ pc[t] = "load"
  /\ limit' = [limit EXCEPT ![t] = DIRS]
  /\ IF args[t] # NoPage /\ CanPut(mem, t, Top)
       THEN /\ mem' = put_page(mem, t, Top, args[t])
            /\ lost' = lost \cup ({mem.page[t][Top]} \cap Pages)
       ELSE UNCHANGED mem /\ lost' = lost \cup ({args[t]} \cap Pages)
  /\ args' = [args EXCEPT ![t] = NoPage]
  /\ pc' = [pc EXCEPT ![t] = "tables"]
  /\ UNCHANGED <<task, place, pipes, unverified>>

CreateTables(t) ==
  /\ pc[t] = "tables"
  /\ \/ DoNoPage(t, Top)
     \/ /\ mem.page[t][Top] # NoPage
        /\ pc' = [pc EXCEPT ![t] = "user"]
        /\ UNCHANGED <<mem, task, place, limit, args, pipes, lost, unverified>>

\* do_exit, and release by the parent.
Exit(t) == pc[t] = "user" /\ t # 0 /\ ExitWith(mem, t)

Release(t) ==
  /\ pc[t] = "zombie"
  /\ mem' = free_page(mem, task[t])
  /\ task' = [task EXCEPT ![t] = NoPage]
  /\ pc' = [pc EXCEPT ![t] = "none"]
  /\ limit' = [limit EXCEPT ![t] = 1]
  /\ UNCHANGED <<place, args, pipes, lost, unverified>>

MemNext ==
  \/ PipePage
  \/ \E t \in Tasks :
       \/ Fork(t) \/ Exit(t) \/ Release(t)
       \/ ExecArgs(t) \/ ExecFree(t) \/ ExecFail(t) \/ ExecDone(t) \/ CreateTables(t)
       \/ \E a \in Addresses :
            \/ Touch(t, a) \/ Verify(t, a) \/ PutVerified(t, a)
            \/ \E v \in Values :
                 Store(t, a, v) \/ PutUnverified(t, a, v) \/ ExecLoad(t, a, v)

MemSpec == MemInit /\ [][MemNext]_memVars

---------------------------------------------------------------------------
(* Properties.                                                             *)

\* Every page is counted as often as it is referred to: by entries of page
\* tables and of the directory, as task structure, by exec or by a pipe, or
\* because it was lost.  So no page is free that is in use, and none is freed
\* twice, however fork, faults and exec run out of memory half-way.
References(p) ==
  Cardinality({x \in Tasks \X Addresses : mem.page[x[1]][x[2]] = p})
  + Cardinality({x \in Tasks \X Dirs : mem.dir[x[1]][x[2]] = p})
  + Cardinality({t \in Tasks : task[t] = p})
  + Cardinality({t \in Tasks : args[t] = p})
  + (IF p \in pipes THEN 1 ELSE 0) + (IF p \in lost THEN 1 ELSE 0)

CountsReferences == \A p \in Pages : mem.map[p] = References(p)

\* A page that a task may write to is nobody else's.
WritableAlone ==
  \A t \in Tasks, a \in Addresses :
    mem.writable[t][a] => \/ mem.page[t][a] \in Pages /\ mem.map[mem.page[t][a]] = 1
                          \/ t = 0 /\ mem.page[t][a] = Low

\* Tasks have memories of their own, though they share pages.
Spaces == INSTANCE AddressSpaces
            WITH Zero <- 0,
                 space <- [t \in Tasks |-> [a \in Addresses |->
                             IF mem.page[t][a] = NoPage THEN 0
                             ELSE mem.val[mem.page[t][a]]]]

MemoriesApart == Spaces!Spec
=============================================================================
