---------------------------- MODULE Directories ----------------------------
(***************************************************************************)
(* Path names and the calls that change directories: fs/namei.c, with what *)
(* mount_root (fs/super.c) sets up.  A path is the sequence of its names,  *)
(* from the root; the last name is "" when the path ends in a slash.  The  *)
(* caller is the super-user: permission refuses only what has no name.     *)
(***************************************************************************)
EXTENDS Inodes

CONSTANTS
    Calls,              \* the calls: [kind, path, to]
    MaxCalls,           \* bound: the calls of a behaviour
    DIR_ENTRIES,        \* DIR_ENTRIES_PER_BLOCK
    brojZaGlavniFile    \* the inode of the file that lists the encrypted files

VARIABLE calls          \* the calls made

fsvars == <<vars, calls>>

Root == 0
Opens == {"open", "trunc", "creat", "excl"}

\* A call is one of the seven; "linkto" is the second half of link.
ASSUME DirectoriesAssumption ==
    /\ IsFiniteSet(Proc) /\ SLOTS \in Nat \ {0}
    /\ \A c \in Calls : c.kind \in Opens \cup {"mkdir", "rmdir", "unlink", "link"}

Creates == {"creat", "excl"}
Truncates == {"trunc", "creat"}

Entry(name, n) == [name |-> name, ino |-> n]

\* A deleted file is refused to everybody.
permission(s) == table[s].num = 0 \/ table[s].links > 0

Dir(p) == table[at[p].dir]
Still == UNCHANGED <<table, disk, imap, zmap, data, last, panic, harmed, calls>>

\* brelse of the directory block.
NoBlock(r) == [r EXCEPT !.bh = 0]

-----------------------------------------------------------------------------
(* The calls.                                                              *)

\* get_dir starts at the root, which it counts as used once more.
Call(p) ==
    /\ Here(p, "user") /\ cpu = Nobody
    /\ calls < MaxCalls /\ calls' = calls + 1
    /\ \E c \in Calls :
         /\ c.kind \in Opens => at[p].file = NoSlot
         /\ table' = [table EXCEPT ![Root].count = @ + 1]
         /\ GoOn(p, [at[p] EXCEPT !.pc = "walk", !.kind = c.kind, !.rest = c.path,
                                  !.to = c.to, !.dir = Root])
    /\ UNCHANGED <<disk, imap, zmap, data, last, panic, harmed>>

\* sys_close of a regular file; a write that needs a block of the file, the
\* first one or one behind the indirect block; sys_sync.
CallOnFile(p) ==
    /\ Here(p, "user") /\ cpu = Nobody
    /\ calls < MaxCalls /\ calls' = calls + 1
    /\ at[p].file # NoSlot
    /\ \/ GoOn(p, [PutAll(at[p], <<at[p].file>>, "done") EXCEPT !.file = NoSlot])
       \/ \E l \in {"bmap", "bmap7"} :
            /\ table[at[p].file].mode = "reg"
            /\ GoOn(p, [Enter(at[p], l, "done") EXCEPT !.work = at[p].file])
    /\ UNCHANGED <<table, disk, imap, zmap, data, last, panic, harmed>>

Sync(p) ==
    /\ Here(p, "user") /\ cpu = Nobody
    /\ calls < MaxCalls /\ calls' = calls + 1
    /\ GoOn(p, [Enter(at[p], "sync", "done") EXCEPT !.work = 0])
    /\ UNCHANGED <<table, disk, imap, zmap, data, last, panic, harmed>>

Done(p) ==
    /\ Here(p, "done")
    /\ MaySleep(p, [Idle EXCEPT !.file = at[p].file])
    /\ Still

-----------------------------------------------------------------------------
(* find_entry, add_entry and get_dir.                                      *)

\* The size is read before the block is.
find_entry(p) ==
    /\ Here(p, "find")
    /\ IF Dir(p).zone = 0
       THEN GoOn(p, [Back(at[p]) EXCEPT !.pos = 0])
       ELSE MaySleep(p, [at[p] EXCEPT !.pc = "match", !.bh = Dir(p).zone,
                                      !.len = Len(data[Dir(p).zone])])
    /\ Still

Match(p) ==
    /\ Here(p, "match")
    /\ LET block == data[at[p].bh]
           found == {i \in DOMAIN block : /\ i <= at[p].len
                                          /\ block[i].name = Head(at[p].rest)
                                          /\ block[i].ino # 0}
       IN  GoOn(p, IF found = {} THEN NoBlock([Back(at[p]) EXCEPT !.pos = 0])
                   ELSE [Back(at[p]) EXCEPT !.pos = Min(found)])
    /\ Still

\* de->inode
Named(p) == data[at[p].bh][at[p].pos].ino

\* add_entry: the directory is read; when its first block is full a second one
\* is allocated; the first entry free is taken.  The caller stores the inode
\* number n without a sleep.  (Entries are kept with the first block; the
\* second one is freed as an indirect block is.)
Free(p) == {i \in DOMAIN data[at[p].bh] : data[at[p].bh][i].ino = 0}
Full(p) == Free(p) = {} /\ Len(data[at[p].bh]) = DIR_ENTRIES /\ Dir(p).ind = 0
Room(p, label) == Here(p, "entry") /\ at[p].kind = label /\ ~ Full(p)

ReadToAdd(p) ==
    /\ Here(p, "add")
    /\ IF Dir(p).zone = 0
       THEN GoOn(p, To(at[p], "no_room"))
       ELSE MaySleep(p, [at[p] EXCEPT !.pc = "entry", !.bh = Dir(p).zone])
    /\ Still

Grow(p) ==
    \/ /\ Here(p, "entry") /\ Full(p)
       /\ GoOn(p, [NoBlock(Enter(at[p], "newblk", "grown")) EXCEPT !.work = at[p].dir])
       /\ harmed' = Overlap(p, at[p].dir)
       /\ UNCHANGED <<table, disk, imap, zmap, data, last, panic, calls>>
    \/ /\ Here(p, "grown")
       /\ table' = [table EXCEPT ![at[p].dir].ind = at[p].blk,
                                 ![at[p].dir].dirt = @ \/ at[p].blk # 0]
       /\ IF at[p].blk = 0 THEN GoOn(p, To(at[p], "no_room"))
          ELSE MaySleep(p, [at[p] EXCEPT !.pc = "entry", !.bh = Dir(p).zone])
       /\ UNCHANGED <<disk, imap, zmap, data, last, panic, harmed, calls>>

\* The directory after it: larger by one entry when none was free.
add_entry(p, n) ==
    LET e == Entry(Head(at[p].rest), n) IN
    data' = [data EXCEPT ![at[p].bh] = IF Free(p) = {} THEN Append(@, e)
                                       ELSE [@ EXCEPT ![Min(Free(p))] = e]]

\* The directory lost its own name while the call slept.
Orphan(p, n) == IF Dir(p).links = 0 THEN harmed \cup {n, Dir(p).num} ELSE harmed

\* The directories of the path; a failure gives back what the call holds.
Held(p) == IF at[p].ino = NoSlot THEN <<>> ELSE <<at[p].ino>>
Fail(p) == GoOn(p, PutAll(NoBlock(at[p]), <<at[p].dir>> \o Held(p), "done"))

get_dir(p) ==
    \/ /\ Here(p, "walk")
       /\ IF Dir(p).mode # "dir" \/ ~ permission(at[p].dir) THEN Fail(p)
          ELSE GoOn(p, IF Len(at[p].rest) = 1 THEN To(at[p], "last")
                       ELSE Enter(at[p], "find", "step"))
       /\ Still
    \/ /\ Here(p, "step")
       /\ IF at[p].pos = 0 THEN Fail(p)
          ELSE GoOn(p, NoBlock([PutAll(at[p], <<at[p].dir>>, "down") EXCEPT !.num = Named(p)]))
       /\ Still
    \/ /\ Here(p, "down")
       /\ GoOn(p, Enter(at[p], "iget", "into"))
       /\ Still
    \/ /\ Here(p, "into")
       /\ GoOn(p, [at[p] EXCEPT !.pc = "walk", !.dir = at[p].work, !.rest = Tail(@)])
       /\ Still

\* The directory is found: what each call checks before it looks for the name.
DirFound(p) ==
    /\ Here(p, "last")
    /\ \/ /\ Head(at[p].rest) = ""
          /\ IF at[p].kind = "open"
             THEN GoOn(p, [at[p] EXCEPT !.pc = "done", !.file = at[p].dir])
             ELSE Fail(p)
       \/ /\ Head(at[p].rest) # ""
          /\ IF \/ at[p].kind = "unlink" /\ Dir(p).num = brojZaGlavniFile
                \/ at[p].kind \in {"mkdir", "unlink", "linkto"} /\ ~ permission(at[p].dir)
             THEN Fail(p)
             ELSE GoOn(p, Enter(at[p], "find", at[p].kind))
    /\ Still

-----------------------------------------------------------------------------
(* open_namei.                                                             *)

\* The name is not there: O_CREAT makes the inode first.
OpenMissing(p) ==
    /\ at[p].kind \in Opens /\ Here(p, at[p].kind) /\ at[p].pos = 0
    /\ IF at[p].kind \notin Creates \/ ~ permission(at[p].dir) THEN Fail(p)
       ELSE GoOn(p, Enter(Enter(at[p], "fresh", "made"), "empty", "fresh"))
    /\ Still

OpenMade(p) ==
    /\ Here(p, "made")
    /\ IF at[p].work = NoSlot THEN Fail(p) /\ UNCHANGED table
       ELSE /\ Update(at[p].work, [Slot(p) EXCEPT !.mode = "reg", !.dirt = TRUE])
            /\ GoOn(p, [at[p] EXCEPT !.pc = "add", !.ino = at[p].work])
    /\ UNCHANGED <<disk, imap, zmap, data, last, panic, harmed, calls>>

OpenEntry(p) ==
    /\ at[p].kind \in Opens /\ Room(p, at[p].kind)
    /\ add_entry(p, table[at[p].ino].num)
    /\ harmed' = Orphan(p, table[at[p].ino].num)
    /\ table' = [table EXCEPT ![at[p].dir].dirt = @ \/ Free(p) = {}]
    /\ GoOn(p, NoBlock([PutAll(at[p], <<at[p].dir>>, "done")
                        EXCEPT !.file = at[p].ino, !.ino = NoSlot]))
    /\ UNCHANGED <<disk, imap, zmap, last, panic, calls>>

\* No room for the entry: the inode loses its one link.
OpenNoRoom(p) ==
    /\ at[p].kind \in Opens /\ Here(p, "no_room")
    /\ table' = [table EXCEPT ![at[p].ino].links = @ - 1]
    /\ GoOn(p, PutAll(at[p], <<at[p].ino, at[p].dir>>, "done"))
    /\ UNCHANGED <<disk, imap, zmap, data, last, panic, harmed, calls>>

\* The name is there: the directory is given back before the inode is taken.
OpenFound(p) ==
    /\ at[p].kind \in Opens /\ Here(p, at[p].kind) /\ at[p].pos # 0
    /\ GoOn(p, NoBlock([PutAll(at[p], <<at[p].dir>>,
                               IF at[p].kind = "excl" THEN "done" ELSE "open_take")
                        EXCEPT !.num = Named(p)]))
    /\ Still

OpenTaken(p) ==
    \/ /\ Here(p, "open_take")
       /\ GoOn(p, Enter(at[p], "iget", "opened"))
       /\ Still
    \/ /\ Here(p, "opened")
       /\ IF \/ Slot(p).mode = "dir" /\ at[p].kind \in Truncates
             \/ ~ permission(at[p].work)
          THEN GoOn(p, PutAll(at[p], <<at[p].work>>, "done"))
          ELSE GoOn(p, LET r == [at[p] EXCEPT !.file = at[p].work] IN
                       IF at[p].kind \in Truncates THEN Enter(r, "truncate", "done")
                       ELSE To(r, "done"))
       /\ Still

-----------------------------------------------------------------------------
(* sys_mkdir.                                                              *)

MkdirLooked(p) ==
    /\ Here(p, "mkdir")
    /\ IF at[p].pos # 0 THEN Fail(p)
       ELSE GoOn(p, Enter(Enter(at[p], "fresh", "mk_made"), "empty", "fresh"))
    /\ Still

MkdirMade(p) ==
    /\ Here(p, "mk_made")
    /\ IF at[p].work = NoSlot THEN Fail(p)
       ELSE GoOn(p, [Enter(at[p], "newblk", "mk_block") EXCEPT !.ino = at[p].work])
    /\ Still

\* No block left: the directory is given back, then the new inode unlinked.
MkdirBlock(p) ==
    /\ Here(p, "mk_block")
    /\ IF at[p].blk = 0
       THEN GoOn(p, PutAll(at[p], <<at[p].dir>>, "mk_undo")) /\ UNCHANGED table
       ELSE /\ table' = [table EXCEPT ![at[p].ino].zone = at[p].blk, ![at[p].ino].dirt = TRUE]
            /\ MaySleep(p, [at[p] EXCEPT !.pc = "mk_fill", !.bh = at[p].blk])
    /\ UNCHANGED <<disk, imap, zmap, data, last, panic, harmed, calls>>

MkdirFill(p) ==
    /\ Here(p, "mk_fill")
    /\ data' = [data EXCEPT ![at[p].bh] = <<Entry(".", table[at[p].ino].num),
                                           Entry("..", Dir(p).num)>>]
    /\ table' = [table EXCEPT ![at[p].ino].links = 2, ![at[p].ino].mode = "dir",
                              ![at[p].ino].dirt = TRUE]
    /\ GoOn(p, NoBlock(To(at[p], "add")))
    /\ UNCHANGED <<disk, imap, zmap, last, panic, harmed, calls>>

\* The buffer of the parent is given back last.
MkdirEntry(p) ==
    /\ Room(p, "mkdir")
    /\ add_entry(p, table[at[p].ino].num)
    /\ harmed' = Orphan(p, table[at[p].ino].num)
    /\ table' = [table EXCEPT ![at[p].dir].links = (@ + 1) % 256,
                              ![at[p].dir].dirt = TRUE]
    /\ GoOn(p, [PutAll(at[p], <<at[p].dir, at[p].ino>>, "done") EXCEPT !.ino = NoSlot])
    /\ UNCHANGED <<disk, imap, zmap, last, panic, calls>>

\* No entry left: the block is freed while the inode still names it.
MkdirNoRoom(p) ==
    \/ /\ at[p].kind = "mkdir" /\ Here(p, "no_room")
       /\ GoOn(p, PutAll(at[p], <<at[p].dir>>, "mk_free"))
       /\ Still
    \/ /\ Here(p, "mk_free")
       /\ FreeLater(p, table[at[p].ino].zone, "mk_undo")
       /\ harmed' = harmed \cup {table[at[p].ino].num}
       /\ UNCHANGED <<table, disk, imap, zmap, data, last, panic, calls>>
    \/ /\ Here(p, "mk_undo")
       /\ table' = [table EXCEPT ![at[p].ino].links = 0]
       /\ GoOn(p, PutAll(at[p], <<at[p].ino>>, "done"))
       /\ UNCHANGED <<disk, imap, zmap, data, last, panic, harmed, calls>>

-----------------------------------------------------------------------------
(* sys_rmdir and sys_unlink: the entry is remembered while iget sleeps, and *)
(* cleared without another look at it.                                     *)

Clear(p) == data' = [data EXCEPT ![at[p].bh][at[p].pos].ino = 0]
Mistaken(p) ==
    LET n == table[at[p].ino].num IN
    IF Named(p) = n THEN harmed ELSE harmed \cup ({n, Named(p), Dir(p).num} \ {0})

RmdirLooked(p) ==
    /\ Here(p, "rmdir")
    /\ IF at[p].pos = 0 THEN Fail(p)
       ELSE IF ~ permission(at[p].dir) THEN GoOn(p, PutAll(at[p], <<at[p].dir>>, "done"))
       ELSE GoOn(p, [Enter(at[p], "iget", "rm_got") EXCEPT !.num = Named(p)])
    /\ Still

\* Not "." and not a file; empty_dir reads the block of the directory.
RmdirTaken(p) ==
    /\ Here(p, "rm_got")
    /\ IF at[p].work = at[p].dir \/ Slot(p).mode # "dir" \/ Slot(p).zone = 0
       THEN GoOn(p, PutAll(at[p], <<at[p].work, at[p].dir>>, "done"))
       ELSE MaySleep(p, [at[p] EXCEPT !.pc = "rm_empty", !.ino = at[p].work,
                                      !.ib = Slot(p).zone, !.len = Len(data[Slot(p).zone])])
    /\ Still

\* The size was read before the block: what was added since is not seen.
Grown(p) == IF Len(data[at[p].ib]) > at[p].len THEN {table[at[p].ino].num} ELSE {}
empty_dir(p) == \A i \in 3 .. at[p].len : data[at[p].ib][i].ino = 0

RmdirDone(p) ==
    /\ Here(p, "rm_empty")
    /\ LET r == [at[p] EXCEPT !.ib = 0] IN
       \/ /\ ~ empty_dir(p)
          /\ GoOn(p, PutAll(r, <<r.ino, r.dir>>, "done"))
          /\ UNCHANGED <<table, data, harmed>>
       \/ /\ empty_dir(p)
          /\ Clear(p) /\ harmed' = Mistaken(p) \cup Grown(p)
          /\ table' = [table EXCEPT ![r.ino].links = 0, ![r.ino].dirt = TRUE,
                                    ![r.dir].links = (@ + 255) % 256, ![r.dir].dirt = TRUE]
          /\ GoOn(p, NoBlock(PutAll(r, <<r.dir, r.ino>>, "done")))
    /\ UNCHANGED <<disk, imap, zmap, last, panic, calls>>

UnlinkLooked(p) ==
    /\ Here(p, "unlink")
    /\ IF at[p].pos = 0 THEN Fail(p)
       ELSE GoOn(p, [Enter(at[p], "iget", "un_got") EXCEPT !.num = Named(p)])
    /\ Still

\* An inode without a link is given one first, to take it away again.
UnlinkTaken(p) ==
    /\ Here(p, "un_got")
    /\ IF Slot(p).num = brojZaGlavniFile \/ Slot(p).mode # "reg"
       THEN GoOn(p, PutAll(at[p], <<at[p].work, at[p].dir>>, "done"))
       ELSE GoOn(p, [at[p] EXCEPT !.pc = "un_clear", !.ino = at[p].work])
    /\ Still

LessOneKept(links) == IF links <= 1 THEN links ELSE links - 1   \* a broken variant
LessOne(links) == IF links = 0 THEN 0 ELSE links - 1

UnlinkDone(p) ==
    /\ Here(p, "un_clear")
    /\ Clear(p) /\ harmed' = Mistaken(p)
    /\ table' = [table EXCEPT ![at[p].ino].links = LessOne(@),
                              ![at[p].ino].dirt = TRUE]
    /\ GoOn(p, NoBlock(PutAll(at[p], <<at[p].ino, at[p].dir>>, "done")))
    /\ UNCHANGED <<disk, imap, zmap, last, panic, calls>>

-----------------------------------------------------------------------------
(* sys_link: namei of the old name, the directory of the new one, a look   *)
(* that it is not there, the entry, and the count last.                    *)

namei(p) ==
    \/ /\ Here(p, "link")
       /\ IF at[p].pos = 0 THEN Fail(p)
          ELSE GoOn(p, NoBlock([PutAll(at[p], <<at[p].dir>>, "ln_take") EXCEPT !.num = Named(p)]))
       /\ Still
    \/ /\ Here(p, "ln_take")
       /\ GoOn(p, Enter(at[p], "iget", "ln_old"))
       /\ Still

LinkOld(p) ==
    /\ Here(p, "ln_old")
    /\ IF Slot(p).mode # "reg"
       THEN /\ Update(at[p].work, [Slot(p) EXCEPT !.dirt = TRUE])
            /\ GoOn(p, PutAll(at[p], <<at[p].work>>, "done"))
       ELSE /\ table' = [table EXCEPT ![at[p].work].dirt = TRUE, ![Root].count = @ + 1]
            /\ GoOn(p, [at[p] EXCEPT !.pc = "walk", !.kind = "linkto", !.rest = at[p].to,
                                     !.ino = at[p].work, !.dir = Root])
    /\ UNCHANGED <<disk, imap, zmap, data, last, panic, harmed, calls>>

LinkLooked(p) ==
    /\ Here(p, "linkto")
    /\ IF at[p].pos # 0 THEN Fail(p) ELSE GoOn(p, To(at[p], "add"))
    /\ Still

LinkEntry(p) ==
    /\ Room(p, "linkto")
    /\ add_entry(p, table[at[p].ino].num)
    /\ harmed' = Orphan(p, table[at[p].ino].num)
    /\ table' = [table EXCEPT ![at[p].dir].dirt = @ \/ Free(p) = {}]
    /\ GoOn(p, NoBlock(PutAll(at[p], <<at[p].dir>>, "ln_count")))
    /\ UNCHANGED <<disk, imap, zmap, last, panic, calls>>

LinkNoRoom(p) ==
    /\ at[p].kind = "linkto" /\ Here(p, "no_room")
    /\ Fail(p)
    /\ Still

LinkCount(p) ==
    /\ Here(p, "ln_count")
    /\ table' = [table EXCEPT ![at[p].ino].links = @ + 1, ![at[p].ino].dirt = TRUE]
    /\ GoOn(p, PutAll(at[p], <<at[p].ino>>, "done"))
    /\ UNCHANGED <<disk, imap, zmap, data, last, panic, harmed, calls>>

-----------------------------------------------------------------------------
\* mount_root: the root is counted four times (read, imount, pwd and root).
\* It has a file "a" of a direct and an indirect block and an empty directory
\* "d"; each process may have the file open.
RootInode == [mode |-> "dir", links |-> 3, zone |-> 1, ind |-> 0]
FileInode == [mode |-> "reg", links |-> 1, zone |-> 3, ind |-> 4]
DirInode  == [mode |-> "dir", links |-> 2, zone |-> 2, ind |-> 0]
Unused    == [mode |-> "none", links |-> 0, zone |-> 0, ind |-> 0]

mount_root ==
    /\ disk = [n \in 1 .. INODES |-> CASE n = 1 -> RootInode [] n = 2 -> FileInode
                                       [] n = 3 -> DirInode [] OTHER -> Unused]
    /\ imap = {1, 2, 3} /\ zmap = 1 .. 5
    /\ data = [b \in 0 .. BLOCKS |->
                 CASE b = 1 -> <<Entry(".", 1), Entry("..", 1), Entry("a", 2), Entry("d", 3)>>
                   [] b = 2 -> <<Entry(".", 3), Entry("..", 1)>>
                   [] b = 4 -> <<Entry("ptr", 5)>>
                   [] OTHER -> <<>>]
    /\ \E openers \in SUBSET Proc :
         /\ at = [p \in Proc |-> [Idle EXCEPT !.file = IF p \in openers THEN 1 ELSE NoSlot]]
         /\ table = [s \in Slots |->
               CASE s = Root -> Loaded([Cleared EXCEPT !.num = 1, !.count = 4], RootInode)
                 [] s = 1 /\ openers # {} ->
                       Loaded([Cleared EXCEPT !.num = 2, !.count = Cardinality(openers)], FileInode)
                 [] OTHER -> Cleared]
    /\ last = 0 /\ cpu = Nobody /\ panic = "" /\ harmed = {} /\ calls = 0

FsNext ==
    \E p \in Proc :
        \/ InodeStep(p) /\ UNCHANGED calls
        \/ Call(p) \/ CallOnFile(p) \/ Sync(p) \/ Done(p)
        \/ find_entry(p) \/ Match(p) \/ ReadToAdd(p) \/ Grow(p) \/ get_dir(p) \/ DirFound(p)
        \/ OpenMissing(p) \/ OpenMade(p) \/ OpenEntry(p) \/ OpenNoRoom(p)
        \/ OpenFound(p) \/ OpenTaken(p)
        \/ MkdirLooked(p) \/ MkdirMade(p) \/ MkdirBlock(p) \/ MkdirFill(p)
        \/ MkdirEntry(p) \/ MkdirNoRoom(p)
        \/ RmdirLooked(p) \/ RmdirTaken(p) \/ RmdirDone(p)
        \/ UnlinkLooked(p) \/ UnlinkTaken(p) \/ UnlinkDone(p)
        \/ namei(p) \/ LinkOld(p) \/ LinkLooked(p) \/ LinkEntry(p) \/ LinkNoRoom(p) \/ LinkCount(p)

FsSpec == mount_root /\ [][FsNext]_fsvars

-----------------------------------------------------------------------------
(* Properties.  harmed holds the inodes hit by what the code does not      *)
(* exclude: an inode taken after its last name had gone, an entry cleared  *)
(* that named another inode by then, an entry added to a removed           *)
(* directory, a directory removed that grew while empty_dir read it, two   *)
(* calls at work on the blocks of one inode, an inode freed while sync     *)
(* wrote it, and the double free of mkdir.                                 *)
Quiet == \A p \in Proc : at[p].pc = "user"

\* At most one slot in use has an inode (iget searches the table again after
\* it slept for an empty slot, and waits for a locked slot before it joins).
InodeOnce ==
    \A s, t \in Slots :
        /\ s # t /\ table[s].num = table[t].num /\ table[s].num # 0
        => table[s].num \in harmed \/ table[s].count = 0 \/ table[t].count = 0

\* Once all calls have returned, the use counts are those of the files the
\* processes have open and of the root, on every error path of every call,
\* whatever the calls did to each other.
UsersCounted ==
    Quiet => \A s \in Slots :
        table[s].count = Cardinality({p \in Proc : at[p].file = s}) + (IF s = Root THEN 4 ELSE 0)

\* Once all calls have returned, an inode has as many links as there are
\* entries for it, and one without links is in use or has been freed (link
\* adds the entry before it counts it, unlink takes the inode before it clears
\* the entry, and both sleep in between).
LinksCounted ==
    Quiet /\ harmed = {} =>
        \A n \in imap :
            /\ Current(n).links = Cardinality(Entries(n))
            /\ Current(n).links = 0 => \E s \in Slots : table[s].num = n /\ table[s].count > 0

\* Once all calls have returned, no block belongs to two inodes and the map
\* of blocks marks just those that belong to one: nothing lost, nothing freed
\* twice (new_block marks before it sleeps, truncate frees before it forgets).
BlocksOf(n) ==
    LET i == Current(n) IN
    ({i.zone, i.ind} \cup (IF i.mode = "reg" THEN {e.ino : e \in ToSet(data[i.ind])} ELSE {})) \ {0}
BlocksOnce ==
    Quiet /\ harmed = {} =>
        /\ \A m, n \in imap : m # n => BlocksOf(m) \cap BlocksOf(n) = {}
        /\ UNION {BlocksOf(n) : n \in imap} = zmap

\* The checks the code panics on (free_inode, free_block, new_block, iput) can
\* fail only after one of the races named above; running out of slots apart.
OnlyRacesPanic == panic \in {"", "No free inodes in mem"} \/ harmed # {}
=============================================================================
