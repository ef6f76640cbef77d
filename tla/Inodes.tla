------------------------------- MODULE Inodes -------------------------------
(***************************************************************************)
(* The inode table, the two bitmaps and the blocks of a file: fs/inode.c,  *)
(* fs/bitmap.c and fs/truncate.c.  Kernel code is never preempted: cpu     *)
(* names the process that is running kernel code, and the steps of the     *)
(* others wait until it may sleep (a read of a block, a locked inode).  A  *)
(* process keeps in at[p] where it is, its local variables and the places  *)
(* to return to.                                                           *)
(*                                                                         *)
(* One file system; a slot without an inode (i_dev = 0) has num 0.  A file *)
(* has one direct block, zone, and one indirect block, ind, that names one *)
(* more; a directory has its entries in zone.                              *)
(***************************************************************************)
EXTENDS Naturals, Sequences, FiniteSets, FiniteSetsExt, SequencesExt

CONSTANTS
    Proc,      \* the processes
    Nobody,    \* no process: the processor is free for any of them
    SLOTS,     \* NR_INODE
    INODES,    \* s_ninodes: the inode numbers are 1 .. INODES
    BLOCKS     \* the data blocks are 1 .. BLOCKS

VARIABLES
    table,     \* inode_table
    disk,      \* the inodes as the inode blocks hold them
    imap,      \* the inode numbers marked in use
    zmap,      \* the blocks marked in use
    data,      \* the directory entries, or the pointer, a block holds; data[0] is empty
    last,      \* last_allocated_inode
    at,        \* what each process is doing
    cpu,       \* who runs kernel code and has not slept since
    panic,     \* the message of the panic, "" before one
    harmed      \* history: the inodes a race of two calls, or mkdir, damaged

vars == <<table, disk, imap, zmap, data, last, at, cpu, panic, harmed>>

Slots == 0 .. SLOTS - 1
NoSlot == SLOTS

\* memset(inode, 0, sizeof(*inode))
Cleared == [num |-> 0, count |-> 0, dirt |-> FALSE, lock |-> FALSE,
            mode |-> "none", links |-> 0, zone |-> 0, ind |-> 0]

\* The part of an inode that is on the disk: struct d_inode.
OnDisk(i) == [mode |-> i.mode, links |-> i.links, zone |-> i.zone, ind |-> i.ind]

\* Slot contents s with what the disk holds, d.
Loaded(s, d) == [s EXCEPT !.mode = d.mode, !.links = d.links, !.zone = d.zone, !.ind = d.ind]

-----------------------------------------------------------------------------
\* Control: p runs at label l; p goes on as r; p has to sleep or may sleep.
Here(p, l) == panic = "" /\ cpu \in {Nobody, p} /\ at[p].pc = l
GoOn(p, r) == at' = [at EXCEPT ![p] = r] /\ cpu' = p
MaySleep(p, r) == at' = [at EXCEPT ![p] = r] /\ cpu' = Nobody
Panic(text) == panic' = text /\ UNCHANGED <<at, cpu>>

To(r, l) == [r EXCEPT !.pc = l]
Enter(r, l, home) == [r EXCEPT !.pc = l, !.back = <<home>> \o @]
Back(r) == [r EXCEPT !.pc = Head(r.back), !.back = Tail(@)]

\* iput of each of the slots, then label l.
PutAll(r, slots, l) == [Enter(r, "puts", l) EXCEPT !.puts = slots]

Idle == [pc |-> "user", back |-> <<>>, puts |-> <<>>, work |-> NoSlot,
         empty |-> NoSlot, num |-> 0, blk |-> 0, ib |-> 0, bh |-> 0,
         kind |-> "", rest |-> <<>>, to |-> <<>>, dir |-> NoSlot,
         ino |-> NoSlot, len |-> 0, pos |-> 0, file |-> NoSlot]

Slot(p) == table[at[p].work]

Update(s, i) == table' = [table EXCEPT ![s] = i]

-----------------------------------------------------------------------------
\* The current copy of inode n: the one in the table, else the one on disk.
InCore(n) == {s \in Slots : table[s].num = n /\ ~ (table[s].lock /\ table[s].mode = "none")}
Current(n) == IF InCore(n) = {} THEN disk[n] ELSE OnDisk(table[Min(InCore(n))])

\* The entries of the directories that still have a name.
Live == {n \in imap : Current(n).mode = "dir" /\ Current(n).links > 0}
Entries(n) ==
    UNION {{d} \X {i \in DOMAIN data[Current(d).zone] : data[Current(d).zone][i].ino = n}
           : d \in Live}

-----------------------------------------------------------------------------
\* wait_on_inode and lock_inode on a locked inode: sleep until it is unlocked.
WaitsOnInode == {"scrub", "put", "join", "repeat", "sync"}
SleepOnInode(p) ==
    /\ panic = "" /\ cpu = p /\ at[p].pc \in WaitsOnInode
    /\ at[p].work \in Slots /\ Slot(p).lock
    /\ cpu' = Nobody
    /\ UNCHANGED <<table, disk, imap, zmap, data, last, at, panic, harmed>>

\* get_empty_inode: the next slot nobody uses, from the last one taken.
PickSlot(p) ==
    /\ Here(p, "empty")
    /\ LET unused == {s \in Slots : table[s].count = 0}
           Ahead(s) == (s + SLOTS - last) % SLOTS
       IN  IF unused = {}
           THEN Panic("No free inodes in mem") /\ UNCHANGED last
           ELSE \E s \in unused :
                  /\ \A t \in unused : Ahead(s) <= Ahead(t)
                  /\ last' = s
                  /\ GoOn(p, [at[p] EXCEPT !.pc = "scrub", !.work = s])
                  /\ UNCHANGED panic
    /\ UNCHANGED <<table, disk, imap, zmap, data, harmed>>

\* ... written out while it is dirty, and left alone if somebody took it.
Scrub(p) ==
    /\ Here(p, "scrub") /\ ~ Slot(p).lock
    /\ \/ /\ Slot(p).dirt
          /\ Update(at[p].work, [Slot(p) EXCEPT !.lock = TRUE])
          /\ MaySleep(p, Enter(at[p], "write", "scrub"))
       \/ /\ ~ Slot(p).dirt /\ Slot(p).count > 0
          /\ GoOn(p, To(at[p], "empty"))
          /\ UNCHANGED table
       \/ /\ ~ Slot(p).dirt /\ Slot(p).count = 0
          /\ Update(at[p].work, [Cleared EXCEPT !.count = 1])
          /\ GoOn(p, [Back(at[p]) EXCEPT !.empty = at[p].work])
    /\ UNCHANGED <<disk, imap, zmap, data, last, panic, harmed>>

\* write_inode after its read of the inode block; the caller locked the inode.
\* (A slot that was freed meanwhile is written outside of the block.)
write_inode(p) ==
    /\ Here(p, "write")
    /\ disk' = IF Slot(p).num = 0 THEN disk ELSE [disk EXCEPT ![Slot(p).num] = OnDisk(Slot(p))]
    /\ Update(at[p].work, [Slot(p) EXCEPT !.dirt = FALSE, !.lock = FALSE])
    /\ GoOn(p, Back(at[p]))
    /\ UNCHANGED <<imap, zmap, data, last, panic, harmed>>

-----------------------------------------------------------------------------
\* iget(num): an empty slot first, then the table is searched.
iget(p) ==
    /\ Here(p, "iget")
    /\ GoOn(p, Enter(at[p], "empty", "search"))
    /\ UNCHANGED <<table, disk, imap, zmap, data, last, panic, harmed>>

\* A caller that comes for an inode no directory names any more.
Late(n) == IF Entries(n) = {} THEN harmed \cup {n} ELSE harmed

InTableUnlocked(n) == {s \in Slots : table[s].num = n /\ ~ table[s].lock}   \* a broken variant
InTable(n) == {s \in Slots : table[s].num = n}

Search(p) ==
    /\ Here(p, "search")
    /\ LET n == at[p].num
           same == InTable(n)
       IN  IF same # {}
           THEN /\ GoOn(p, [at[p] EXCEPT !.pc = "join", !.work = Min(same)])
                /\ UNCHANGED <<table, harmed>>
           ELSE /\ Update(at[p].empty, [table[at[p].empty] EXCEPT !.num = n, !.lock = TRUE])
                /\ harmed' = Late(n)
                /\ MaySleep(p, [at[p] EXCEPT !.pc = "read", !.work = at[p].empty])
    /\ UNCHANGED <<disk, imap, zmap, data, last, panic>>

JoinKeepsEmpty(p) ==    \* a broken variant: the empty slot is not given back
    /\ Here(p, "join") /\ ~ Slot(p).lock
    /\ IF Slot(p).num = at[p].num
       THEN /\ Update(at[p].work, [Slot(p) EXCEPT !.count = @ + 1])
            /\ harmed' = Late(at[p].num)
            /\ GoOn(p, [Back(at[p]) EXCEPT !.empty = NoSlot])
       ELSE GoOn(p, To(at[p], "search")) /\ UNCHANGED <<table, harmed>>
    /\ UNCHANGED <<disk, imap, zmap, data, last, panic>>

\* The inode is in the table: if it still is after the wait, count one more
\* user and give the empty slot back.
Join(p) ==
    /\ Here(p, "join") /\ ~ Slot(p).lock
    /\ IF Slot(p).num = at[p].num
       THEN /\ LET joined == [table EXCEPT ![at[p].work].count = @ + 1]
               IN  table' = [joined EXCEPT ![at[p].empty].count = @ - 1]
            /\ harmed' = Late(at[p].num)
            /\ GoOn(p, [Back(at[p]) EXCEPT !.empty = NoSlot])
       ELSE GoOn(p, To(at[p], "search")) /\ UNCHANGED <<table, harmed>>
    /\ UNCHANGED <<disk, imap, zmap, data, last, panic>>

\* read_inode after its read of the inode block.
read_inode(p) ==
    /\ Here(p, "read")
    /\ Update(at[p].work, Loaded([Slot(p) EXCEPT !.lock = FALSE], disk[Slot(p).num]))
    /\ GoOn(p, [Back(at[p]) EXCEPT !.empty = NoSlot])
    /\ UNCHANGED <<disk, imap, zmap, data, last, panic, harmed>>

-----------------------------------------------------------------------------
\* iput(work).
Puts(p) ==
    /\ Here(p, "puts")
    /\ IF at[p].puts = <<>>
       THEN GoOn(p, Back(at[p]))
       ELSE GoOn(p, [Enter(at[p], "put", "puts") EXCEPT !.work = Head(at[p].puts), !.puts = Tail(@)])
    /\ UNCHANGED <<table, disk, imap, zmap, data, last, panic, harmed>>

\* The loop at repeat: free a nameless inode, write a dirty one and look again.
Release(p) ==
    \/ /\ Slot(p).links = 0
       /\ GoOn(p, Enter(at[p], "truncate", "free"))
       /\ UNCHANGED table
    \/ /\ Slot(p).links > 0 /\ Slot(p).dirt
       /\ Update(at[p].work, [Slot(p) EXCEPT !.lock = TRUE])
       /\ MaySleep(p, Enter(at[p], "write", "repeat"))
    \/ /\ Slot(p).links > 0 /\ ~ Slot(p).dirt
       /\ Update(at[p].work, [Slot(p) EXCEPT !.count = @ - 1])
       /\ GoOn(p, Back(at[p]))

iput(p) ==
    /\ Here(p, "put") /\ ~ Slot(p).lock
    /\ IF Slot(p).count = 0
       THEN Panic("iput: trying to free free inode") /\ UNCHANGED table
       ELSE /\ \/ /\ Slot(p).count > 1 \/ Slot(p).num = 0
                /\ Update(at[p].work, [Slot(p) EXCEPT !.count = @ - 1])
                /\ GoOn(p, Back(at[p]))
             \/ /\ Slot(p).count = 1 /\ Slot(p).num # 0
                /\ Release(p)
            /\ UNCHANGED panic
    /\ UNCHANGED <<disk, imap, zmap, data, last, harmed>>

\* "we can sleep - so do again": the use count is not looked at again.
Repeat(p) ==
    /\ Here(p, "repeat") /\ ~ Slot(p).lock
    /\ Release(p)
    /\ UNCHANGED <<disk, imap, zmap, data, last, panic, harmed>>

\* free_inode(work), without a sleep: also of an inode that sync_inodes locked
\* to write it, while truncate slept.
NotToFree(i) ==
    CASE i.count > 1 -> "free_inode"
      [] i.count <= 1 /\ i.links # 0 -> "trying to free inode with links"
      [] i.count <= 1 /\ i.links = 0 /\ i.num \notin imap \cup {0} -> "free_inode: bit already cleared"
      [] OTHER -> ""

free_inode(p) ==
    /\ Here(p, "free")
    /\ IF NotToFree(Slot(p)) # ""
       THEN Panic(NotToFree(Slot(p))) /\ UNCHANGED <<table, imap>>
       ELSE /\ imap' = imap \ {Slot(p).num}
            /\ Update(at[p].work, Cleared)
            /\ GoOn(p, Back(at[p])) /\ UNCHANGED panic
    /\ harmed' = IF Slot(p).lock THEN harmed \cup {Slot(p).num} ELSE harmed
    /\ UNCHANGED <<disk, zmap, data, last>>

\* new_inode: the slot get_empty_inode found gets the first number free.
new_inode(p) ==
    /\ Here(p, "fresh")
    /\ LET free == (1 .. INODES) \ imap
           s == at[p].empty
       IN  IF free = {}
           THEN /\ Update(s, [table[s] EXCEPT !.count = @ - 1])
                /\ GoOn(p, [Back(at[p]) EXCEPT !.work = NoSlot, !.empty = NoSlot])
                /\ UNCHANGED imap
           ELSE /\ imap' = imap \cup {Min(free)}
                /\ Update(s, [table[s] EXCEPT !.num = Min(free), !.links = 1, !.dirt = TRUE])
                /\ GoOn(p, [Back(at[p]) EXCEPT !.work = s, !.empty = NoSlot])
    /\ UNCHANGED <<disk, zmap, data, last, panic, harmed>>

-----------------------------------------------------------------------------
\* Two calls at work on the blocks of one inode, of which one may sleep.
BlockWork == {"freeblk", "trunc_zone", "trunc_ind", "trunc_ptr", "trunc_self", "trunc_end",
              "newblk", "clear", "bmap_set", "bmap7_set", "bmap7_read", "bmap7_ptr",
              "bmap7_put", "grown"}
Overlap(p, s) ==
    IF \E q \in Proc \ {p} : at[q].work = s /\ at[q].pc \in BlockWork
    THEN harmed \cup {table[s].num} ELSE harmed

\* The buffer of block b is held by a process (b_count).
Holders(b) == {q \in Proc : b \in {at[q].bh, at[q].ib}}

\* free_block(blk): a block somebody has in use is left marked.
free_block(p) ==
    /\ Here(p, "freeblk")
    /\ LET b == at[p].blk IN
       IF Holders(b) = {} /\ b \notin zmap
       THEN Panic("free_block: bit already cleared") /\ UNCHANGED zmap
       ELSE /\ zmap' = IF Holders(b) = {} THEN zmap \ {b} ELSE zmap
            /\ GoOn(p, Back(at[p])) /\ UNCHANGED panic
    /\ UNCHANGED <<table, disk, imap, data, last, harmed>>

\* new_block: the first block free is marked, then its buffer is fetched.
new_block(p) ==
    /\ Here(p, "newblk")
    /\ LET free == (1 .. BLOCKS) \ zmap IN
       IF free = {}
       THEN GoOn(p, [Back(at[p]) EXCEPT !.blk = 0]) /\ UNCHANGED zmap
       ELSE /\ zmap' = zmap \cup {Min(free)}
            /\ MaySleep(p, [at[p] EXCEPT !.pc = "clear", !.blk = Min(free)])
    /\ UNCHANGED <<table, disk, imap, data, last, panic, harmed>>

ClearBlock(p) ==
    /\ Here(p, "clear")
    /\ IF Holders(at[p].blk) # {}
       THEN Panic("new block: count is != 1") /\ UNCHANGED data
       ELSE /\ data' = [data EXCEPT ![at[p].blk] = <<>>]
            /\ GoOn(p, Back(at[p])) /\ UNCHANGED panic
    /\ UNCHANGED <<table, disk, imap, zmap, last, harmed>>

-----------------------------------------------------------------------------
\* truncate(work): the direct block, the block behind the indirect one, the
\* indirect one.  free_block may sleep for the buffer, free_ind for the read.
FreeLater(p, b, home) == MaySleep(p, [Enter(at[p], "freeblk", home) EXCEPT !.blk = b])

truncate(p) ==
    /\ Here(p, "truncate")
    /\ \/ Slot(p).mode \notin {"reg", "dir"} /\ GoOn(p, Back(at[p]))
       \/ /\ Slot(p).mode \in {"reg", "dir"} /\ Slot(p).zone # 0
          /\ FreeLater(p, Slot(p).zone, "trunc_zone")
       \/ /\ Slot(p).mode \in {"reg", "dir"} /\ Slot(p).zone = 0
          /\ GoOn(p, To(at[p], "trunc_ind"))
    /\ harmed' = Overlap(p, at[p].work)
    /\ UNCHANGED <<table, disk, imap, zmap, data, last, panic>>

DropZoneKept(p) ==      \* a broken variant: the freed block stays in i_zone
    /\ Here(p, "trunc_zone")
    /\ GoOn(p, To(at[p], "trunc_ind"))
    /\ UNCHANGED <<table, disk, imap, zmap, data, last, panic, harmed>>

DropZone(p) ==
    /\ Here(p, "trunc_zone")
    /\ Update(at[p].work, [Slot(p) EXCEPT !.zone = 0])
    /\ GoOn(p, To(at[p], "trunc_ind"))
    /\ UNCHANGED <<disk, imap, zmap, data, last, panic, harmed>>

free_ind(p) ==
    /\ \/ /\ Here(p, "trunc_ind")
          /\ IF Slot(p).ind = 0 THEN GoOn(p, To(at[p], "trunc_end"))
             ELSE MaySleep(p, [at[p] EXCEPT !.pc = "trunc_ptr", !.ib = Slot(p).ind])
       \/ /\ Here(p, "trunc_ptr")
          /\ IF data[at[p].ib] = <<>> THEN GoOn(p, To(at[p], "trunc_self"))
             ELSE FreeLater(p, data[at[p].ib][1].ino, "trunc_self")
       \/ /\ Here(p, "trunc_self")
          /\ MaySleep(p, [Enter(at[p], "freeblk", "trunc_end")
                          EXCEPT !.blk = at[p].ib, !.ib = 0])
    /\ UNCHANGED <<table, disk, imap, zmap, data, last, panic, harmed>>

DropInd(p) ==
    /\ Here(p, "trunc_end")
    /\ Update(at[p].work, [Slot(p) EXCEPT !.ind = 0, !.dirt = TRUE])
    /\ GoOn(p, Back(at[p]))
    /\ UNCHANGED <<disk, imap, zmap, data, last, panic, harmed>>

-----------------------------------------------------------------------------
\* create_block(work, ...) = _bmap with create: a direct block, or the
\* indirect block and a block behind it.
NeedBlock(p, home) == GoOn(p, Enter(at[p], "newblk", home))

MapDirect(p) ==
    \/ /\ Here(p, "bmap")
       /\ IF Slot(p).zone = 0 THEN NeedBlock(p, "bmap_set") ELSE GoOn(p, Back(at[p]))
       /\ UNCHANGED <<table, disk, imap, zmap, data, last, panic>>
       /\ harmed' = Overlap(p, at[p].work)
    \/ /\ Here(p, "bmap_set")
       /\ Update(at[p].work, [Slot(p) EXCEPT !.zone = at[p].blk,
                                             !.dirt = @ \/ at[p].blk # 0])
       /\ GoOn(p, Back(at[p]))
       /\ UNCHANGED <<disk, imap, zmap, data, last, panic, harmed>>

MapIndirect(p) ==
    \/ /\ Here(p, "bmap7")
       /\ IF Slot(p).ind = 0 THEN NeedBlock(p, "bmap7_set") ELSE GoOn(p, To(at[p], "bmap7_read"))
       /\ UNCHANGED <<table, disk, imap, zmap, data, last, panic>>
       /\ harmed' = Overlap(p, at[p].work)
    \/ /\ Here(p, "bmap7_set")
       /\ Update(at[p].work, [Slot(p) EXCEPT !.ind = at[p].blk,
                                             !.dirt = @ \/ at[p].blk # 0])
       /\ GoOn(p, To(at[p], "bmap7_read"))
       /\ UNCHANGED <<disk, imap, zmap, data, last, panic, harmed>>
    \/ /\ Here(p, "bmap7_read")
       /\ IF Slot(p).ind = 0 THEN GoOn(p, Back(at[p]))
          ELSE MaySleep(p, [at[p] EXCEPT !.pc = "bmap7_ptr", !.ib = Slot(p).ind])
       /\ UNCHANGED <<table, disk, imap, zmap, data, last, panic, harmed>>
    \/ /\ Here(p, "bmap7_ptr")
       /\ IF data[at[p].ib] = <<>> THEN NeedBlock(p, "bmap7_put")
          ELSE GoOn(p, [Back(at[p]) EXCEPT !.ib = 0])
       /\ UNCHANGED <<table, disk, imap, zmap, data, last, panic, harmed>>
    \/ /\ Here(p, "bmap7_put")
       /\ data' = IF at[p].blk = 0 THEN data
                  ELSE [data EXCEPT ![at[p].ib] = <<[name |-> "ptr", ino |-> at[p].blk]>>]
       /\ GoOn(p, [Back(at[p]) EXCEPT !.ib = 0])
       /\ UNCHANGED <<table, disk, imap, zmap, last, panic, harmed>>

-----------------------------------------------------------------------------
\* sync_inodes: every slot in turn, the dirty ones written.
sync_inodes(p) ==
    /\ Here(p, "sync")
    /\ IF at[p].work = SLOTS
       THEN GoOn(p, Back(at[p])) /\ UNCHANGED table
       ELSE /\ ~ Slot(p).lock
            /\ IF Slot(p).dirt
               THEN /\ Update(at[p].work, [Slot(p) EXCEPT !.lock = TRUE])
                    /\ MaySleep(p, Enter(at[p], "write", "sync_next"))
               ELSE GoOn(p, To(at[p], "sync_next")) /\ UNCHANGED table
    /\ UNCHANGED <<disk, imap, zmap, data, last, panic, harmed>>

SyncNext(p) ==
    /\ Here(p, "sync_next")
    /\ GoOn(p, [at[p] EXCEPT !.pc = "sync", !.work = @ + 1])
    /\ UNCHANGED <<table, disk, imap, zmap, data, last, panic, harmed>>

InodeStep(p) ==
    \/ SleepOnInode(p)
    \/ PickSlot(p) \/ Scrub(p) \/ write_inode(p)
    \/ iget(p) \/ Search(p) \/ Join(p) \/ read_inode(p)
    \/ Puts(p) \/ iput(p) \/ Repeat(p) \/ free_inode(p) \/ new_inode(p)
    \/ free_block(p) \/ new_block(p) \/ ClearBlock(p)
    \/ truncate(p) \/ DropZone(p) \/ free_ind(p) \/ DropInd(p)
    \/ MapDirect(p) \/ MapIndirect(p)
    \/ sync_inodes(p) \/ SyncNext(p)
=============================================================================
