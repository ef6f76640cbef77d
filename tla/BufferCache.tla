---------------------------- MODULE BufferCache ----------------------------
(***************************************************************************)
(* The buffer cache, fs/buffer.c: finding the buffer of a block, taking a  *)
(* free one for it, writing dirty ones out, reading and releasing.         *)
(*                                                                         *)
(* The kernel is not preemptible: of the processes inside the cache at     *)
(* most one runs, the others sleep; disk transfers end at any time and in  *)
(* any order (the driver sorts its queue: module HardDisk).  There is one  *)
(* device.  The contents of blocks and buffers are abstracted to whether   *)
(* they are the latest that a process has written.                         *)
(***************************************************************************)
EXTENDS Integers, FiniteSets

CONSTANTS
  Procs,       (* the processes                                            *)
  NR_BUFFERS,  (* buffers, in the order of the array at start_buffer       *)
  Blocks,      (* the blocks of the device                                 *)
  Writable,    (* those of them that processes change                      *)
  None,        (* the block of a buffer with b_dev = 0                     *)
  MaxHeld      (* buffers that a process holds at once                     *)

ASSUME BlocksAssumption == None \notin Blocks /\ Writable \subseteq Blocks
(* Buffers are so many that processes cannot hold all while each wants one *)
(* more, nor take all at once out of the lists to write them.              *)
ASSUME BuffersAssumption ==
  /\ NR_BUFFERS \in Nat /\ MaxHeld \in Nat \ {0} /\ IsFiniteSet(Procs)
  /\ NR_BUFFERS > Cardinality(Procs) * (MaxHeld - 1)
  /\ NR_BUFFERS > Cardinality(Procs) \/ (Writable = {} /\ NR_BUFFERS > 1)

Buffers == 1 .. NR_BUFFERS
NULL == 0

VARIABLES
  b_block,    (* b_dev and b_blocknr of each buffer                        *)
  b_uptodate,
  b_dirt,
  b_count,
  b_lock,     (* "no", or the transfer under way                           *)
  hashed,     (* the buffers in the hash table                             *)
  next_free,  (* b_next_free                                               *)
  prev_free,  (* b_prev_free                                               *)
  free_list,
  pc,         (* where each process is                                     *)
  want,       (* the parameter block of getblk                             *)
  buf,        (* the local variable bh or tmp                              *)
  i,          (* the loop variable of sync_dev                             *)
  held,       (* the buffers each process has got and not released         *)
  fresh,      (* the buffers that hold the latest data of their blocks     *)
  stored,     (* the blocks whose latest data are on the disk              *)
  spoiled     (* the blocks hit by an unprotected race, no more followed   *)

bufferVars == <<b_block, b_uptodate, b_dirt, b_count, b_lock>>
listVars == <<hashed, next_free, prev_free, free_list>>
procVars == <<pc, want, buf, i, held>>
dataVars == <<fresh, stored, spoiled>>
vars == <<bufferVars, listVars, procVars, dataVars>>

(* Where a process is.  Running, in get_hash_table and getblk (find, check, *)
(* walk, refill), in sync_dev (sync) or in bread (got); or asleep there, in *)
(* wait_on_buffer, in ll_rw_block or on buffer_wait (asleep, woken).        *)
Running == {"find", "check", "walk", "sync", "refill", "got"}
Waiting == {"hashwait", "walkwait", "asleep", "woken", "syncwait", "writing",
            "reading", "putwait"}

MaxCount == Cardinality(Procs) * (MaxHeld + 1)

TypeOK ==
  /\ b_block \in [Buffers -> Blocks \cup {None}]
  /\ b_uptodate \in [Buffers -> BOOLEAN]
  /\ b_dirt \in [Buffers -> BOOLEAN]
  /\ b_count \in [Buffers -> 0 .. MaxCount]
  /\ b_lock \in [Buffers -> {"no", "read", "write"}]
  /\ hashed \in SUBSET Buffers
  /\ next_free \in [Buffers -> Buffers]
  /\ prev_free \in [Buffers -> Buffers]
  /\ free_list \in Buffers
  /\ pc \in [Procs -> {"out"} \cup Running \cup Waiting]
  /\ want \in [Procs -> Blocks \cup {None}]
  /\ buf \in [Procs -> Buffers \cup {NULL}]
  /\ i \in [Procs -> 0 .. NR_BUFFERS + 1]
  /\ held \in [Procs -> SUBSET (Buffers \X Blocks)]
  /\ fresh \in SUBSET Buffers
  /\ stored \in SUBSET Blocks
  /\ spoiled \in SUBSET Blocks

(* buffer_init: all buffers on the free list, in a ring.                   *)
Init ==
  /\ b_block = [b \in Buffers |-> None]
  /\ b_uptodate = [b \in Buffers |-> FALSE]
  /\ b_dirt = [b \in Buffers |-> FALSE]
  /\ b_count = [b \in Buffers |-> 0]
  /\ b_lock = [b \in Buffers |-> "no"]
  /\ hashed = {}
  /\ next_free = [b \in Buffers |-> IF b = NR_BUFFERS THEN 1 ELSE b + 1]
  /\ prev_free = [b \in Buffers |-> IF b = 1 THEN NR_BUFFERS ELSE b - 1]
  /\ free_list = 1
  /\ pc = [p \in Procs |-> "out"]
  /\ want = [p \in Procs |-> None]
  /\ buf = [p \in Procs |-> NULL]
  /\ i = [p \in Procs |-> 0]
  /\ held = [p \in Procs |-> {}]
  /\ fresh = {}
  /\ stored = Blocks
  /\ spoiled = {}

-----------------------------------------------------------------------------
(* Processes, waiting and releasing                                        *)

(* Nobody runs but p.                                                      *)
Free(p) == \A q \in Procs \ {p} : pc[q] \notin Running

Goto(p, l) == pc' = [pc EXCEPT ![p] = l]

(* p is at l, asleep in wait_on_buffer(b), and wakes up.                   *)
WakesFrom(p, l, b) == pc[p] = l /\ Free(p) /\ b_lock[b] = "no"

(* p's call is over.                                                       *)
Forget(p) ==
  /\ want' = [want EXCEPT ![p] = None]
  /\ buf' = [buf EXCEPT ![p] = NULL]

\* a broken variant
PutSilently(p, b, l) ==
  /\ b_count' = [b_count EXCEPT ![b] = @ - 1]
  /\ Goto(p, l)

(* brelse(b), b being unlocked; p goes on to l.  wake_up(&buffer_wait)     *)
(* wakes the whole chain (module WaitQueue).                               *)
Put(p, b, l) ==
  /\ b_count' = [b_count EXCEPT ![b] = @ - 1]
  /\ pc' = [q \in Procs |-> CASE q = p -> l
                             [] q # p /\ pc[q] = "asleep" -> "woken"
                             [] OTHER -> pc[q]]

-----------------------------------------------------------------------------
(* The lists                                                               *)

(* remove_from_queues                                                      *)
Unqueue(b) ==
  LET prev == prev_free[b]
      next == next_free[b]
  IN /\ hashed' = hashed \ {b}
     /\ next_free' = [next_free EXCEPT ![prev] = next]
     /\ prev_free' = [prev_free EXCEPT ![next] = prev]
     /\ free_list' = IF free_list = b THEN next ELSE free_list

\* a broken variant
EnqueueOneWay(b, hasBlock) ==
  LET last == prev_free[free_list]
  IN /\ next_free' = [next_free EXCEPT ![b] = free_list, ![last] = b]
     /\ prev_free' = [prev_free EXCEPT ![b] = last]
     /\ hashed' = IF hasBlock THEN hashed \cup {b} ELSE hashed
     /\ UNCHANGED free_list

(* insert_into_queues: b to the end of the free list and, if it has a      *)
(* block, to the hash table.                                               *)
Enqueue(b, hasBlock) ==
  LET last == prev_free[free_list]
  IN /\ next_free' = [next_free EXCEPT ![b] = free_list, ![last] = b]
     /\ prev_free' = [prev_free EXCEPT ![b] = last, ![free_list] = b]
     /\ hashed' = IF hasBlock THEN hashed \cup {b} ELSE hashed
     /\ UNCHANGED free_list

(* find_buffer                                                             *)
Found(x) == {b \in hashed : b_block[b] = x}

-----------------------------------------------------------------------------
(* get_hash_table, getblk                                                  *)

(* bread(x): a block the process has not got already.                      *)
Bread(p, x) ==
  /\ pc[p] = "out" /\ Free(p)
  /\ Cardinality(held[p]) < MaxHeld
  /\ \A h \in held[p] : h[2] # x
  /\ want' = [want EXCEPT ![p] = x]
  /\ Goto(p, "find")
  /\ UNCHANGED <<bufferVars, listVars, dataVars, buf, i, held>>

(* The block is found in the hash table, or the search of the free list    *)
(* begins.                                                                 *)
Lookup(p) ==
  /\ pc[p] = "find"
  /\ \/ \E b \in Found(want[p]) :
          /\ b_count' = [b_count EXCEPT ![b] = @ + 1]
          /\ buf' = [buf EXCEPT ![p] = b]
          /\ Goto(p, IF b_lock[b] = "no" THEN "check" ELSE "hashwait")
     \/ /\ Found(want[p]) = {}
        /\ buf' = [buf EXCEPT ![p] = free_list]
        /\ Goto(p, "walk")
        /\ UNCHANGED b_count
  /\ UNCHANGED <<b_block, b_uptodate, b_dirt, b_lock, listVars, dataVars, want,
                 i, held>>

HashWake(p) ==
  /\ WakesFrom(p, "hashwait", buf[p])
  /\ Goto(p, "check")
  /\ UNCHANGED <<bufferVars, listVars, dataVars, want, buf, i, held>>

(* Is it still the buffer of the block?                                    *)
Check(p) ==
  /\ pc[p] = "check"
  /\ IF b_block[buf[p]] = want[p]
     THEN /\ Goto(p, "got") /\ UNCHANGED <<b_count, buf>>
     ELSE /\ Put(p, buf[p], "find") /\ buf' = [buf EXCEPT ![p] = NULL]
  /\ UNCHANGED <<b_block, b_uptodate, b_dirt, b_lock, listVars, dataVars, want,
                 i, held>>

\* a broken variant
ClaimDiscarding(p, b) ==
  /\ b_count' = [b_count EXCEPT ![b] = @ + 1]
  /\ Unqueue(b)
  /\ Goto(p, "refill")
  /\ UNCHANGED <<buf, i>>

(* A free buffer is found: take it out of the lists, and have it written   *)
(* if it is dirty.                                                         *)
Claim(p, b) ==
  /\ b_count' = [b_count EXCEPT ![b] = @ + 1]
  /\ Unqueue(b)
  /\ i' = [i EXCEPT ![p] = IF b_dirt[b] THEN 1 ELSE 0]
  /\ Goto(p, IF b_dirt[b] THEN "sync" ELSE "refill")
  /\ UNCHANGED buf

(* On to the next of the free list, which may have changed; or to sleep.   *)
Advance(p, b) ==
  /\ IF next_free[b] = free_list
     THEN Goto(p, "asleep") /\ buf' = [buf EXCEPT ![p] = NULL]
     ELSE Goto(p, "walk") /\ buf' = [buf EXCEPT ![p] = next_free[b]]
  /\ UNCHANGED <<b_count, listVars, i>>

Walk(p) ==
  /\ pc[p] = "walk"
  /\ LET b == buf[p] IN
     \/ b_count[b] # 0 /\ Advance(p, b)
     \/ b_count[b] = 0 /\ b_lock[b] = "no" /\ Claim(p, b)
     \/ /\ b_count[b] = 0 /\ b_lock[b] # "no" /\ Goto(p, "walkwait")
        /\ UNCHANGED <<b_count, listVars, buf, i>>
  /\ UNCHANGED <<b_block, b_uptodate, b_dirt, b_lock, dataVars, want, held>>

\* a broken variant
WalkWakeUnchecked(p) ==
  /\ WakesFrom(p, "walkwait", buf[p])
  /\ Claim(p, buf[p])
  /\ UNCHANGED <<b_block, b_uptodate, b_dirt, b_lock, dataVars, want, held>>

WalkWake(p) ==
  /\ WakesFrom(p, "walkwait", buf[p])
  /\ IF b_count[buf[p]] = 0 THEN Claim(p, buf[p]) ELSE Advance(p, buf[p])
  /\ UNCHANGED <<b_block, b_uptodate, b_dirt, b_lock, dataVars, want, held>>

(* sleep_on(&buffer_wait) returns.                                         *)
Retry(p) ==
  /\ pc[p] = "woken" /\ Free(p)
  /\ Goto(p, "find")
  /\ UNCHANGED <<bufferVars, listVars, dataVars, want, buf, i, held>>

\* a broken variant
RefillUnchecked(p) ==
  LET b == buf[p]
  IN /\ pc[p] = "refill"
     /\ b_block' = [b_block EXCEPT ![b] = want[p]]
     /\ b_dirt' = [b_dirt EXCEPT ![b] = FALSE]
     /\ b_uptodate' = [b_uptodate EXCEPT ![b] = FALSE]
     /\ Enqueue(b, TRUE)
     /\ Goto(p, "got")
     /\ fresh' = fresh \ {b}
     /\ UNCHANGED <<b_lock, b_count, want, buf, i, held, stored, spoiled>>

(* The buffer gets its new block, unless another process has been faster.  *)
Refill(p) ==
  LET b == buf[p]
      beaten == Found(want[p]) # {}
  IN /\ pc[p] = "refill"
     /\ b_block' = [b_block EXCEPT ![b] = IF beaten THEN None ELSE want[p]]
     /\ b_dirt' = [b_dirt EXCEPT ![b] = FALSE]
     /\ b_uptodate' = [b_uptodate EXCEPT ![b] = FALSE]
     /\ b_count' = [b_count EXCEPT ![b] = IF beaten THEN 0 ELSE @]
     /\ Enqueue(b, ~beaten)
     /\ Goto(p, IF beaten THEN "find" ELSE "got")
     /\ buf' = [buf EXCEPT ![p] = IF beaten THEN NULL ELSE b]
     /\ fresh' = fresh \ {b}
     /\ UNCHANGED <<b_lock, want, i, held, stored, spoiled>>

-----------------------------------------------------------------------------
(* sync_dev, sys_sync                                                      *)

SysSync(p) ==
  /\ pc[p] = "out" /\ Free(p)
  /\ i' = [i EXCEPT ![p] = 1]
  /\ Goto(p, "sync")
  /\ UNCHANGED <<bufferVars, listVars, dataVars, want, buf, held>>

(* The next buffer of the array that is not skipped at once.               *)
Busy(from) ==
  {b \in from .. NR_BUFFERS : b_block[b] # None /\ (b_lock[b] # "no" \/ b_dirt[b])}

Sync(p) ==
  /\ pc[p] = "sync"
  /\ \/ /\ Busy(i[p]) = {}
        /\ i' = [i EXCEPT ![p] = 0]
        /\ Goto(p, IF buf[p] = NULL THEN "out" ELSE "refill")
        /\ UNCHANGED b_lock
     \/ \E b \in Busy(i[p]) :
          /\ \A c \in Busy(i[p]) : b <= c
          /\ i' = [i EXCEPT ![p] = b]
          /\ IF b_lock[b] # "no"
             THEN Goto(p, "syncwait") /\ UNCHANGED b_lock
             ELSE Goto(p, "writing") /\ b_lock' = [b_lock EXCEPT ![b] = "write"]
  /\ UNCHANGED <<b_block, b_uptodate, b_dirt, b_count, listVars, dataVars, want,
                 buf, held>>

SyncWake(p) ==
  /\ WakesFrom(p, "syncwait", i[p])
  /\ Goto(p, "sync")
  /\ UNCHANGED <<bufferVars, listVars, dataVars, want, buf, i, held>>

WriteWake(p) ==
  /\ WakesFrom(p, "writing", i[p])
  /\ i' = [i EXCEPT ![p] = @ + 1]
  /\ Goto(p, "sync")
  /\ UNCHANGED <<bufferVars, listVars, dataVars, want, buf, held>>

-----------------------------------------------------------------------------
(* bread, the use of a buffer, brelse                                      *)

Hold(p) ==
  /\ held' = [held EXCEPT ![p] = @ \cup {<<buf[p], want[p]>>}]
  /\ Goto(p, "out")
  /\ Forget(p)

(* Is x being written from a buffer that nobody can find any more?         *)
Evicting(x) == \E b \in Buffers \ hashed : b_block[b] = x /\ b_dirt[b]

(* From now on nothing is said of the data of x.                           *)
Spoil(x) ==
  /\ spoiled' = spoiled \cup {x}
  /\ stored' = stored \ {x}
  /\ fresh' = {b \in fresh : b_block[b] # x}

Got(p) ==
  /\ pc[p] = "got"
  /\ IF b_uptodate[buf[p]]
     THEN Hold(p) /\ UNCHANGED <<b_lock, dataVars>>
     ELSE /\ b_lock' = [b_lock EXCEPT ![buf[p]] = "read"]
          /\ IF Evicting(want[p]) THEN Spoil(want[p]) ELSE UNCHANGED dataVars
          /\ Goto(p, "reading")
          /\ UNCHANGED <<want, buf, held>>
  /\ UNCHANGED <<b_block, b_uptodate, b_dirt, b_count, listVars, i>>

\* a broken variant
ReadWakeLeaking(p) ==
  /\ WakesFrom(p, "reading", buf[p])
  /\ IF b_uptodate[buf[p]]
     THEN Hold(p)
     ELSE Goto(p, "out") /\ Forget(p) /\ UNCHANGED held
  /\ UNCHANGED <<b_block, b_uptodate, b_dirt, b_lock, b_count, listVars, dataVars, i>>

ReadWake(p) ==
  /\ WakesFrom(p, "reading", buf[p])
  /\ IF b_uptodate[buf[p]]
     THEN Hold(p) /\ UNCHANGED b_count
     ELSE Put(p, buf[p], "out") /\ Forget(p) /\ UNCHANGED held
  /\ UNCHANGED <<b_block, b_uptodate, b_dirt, b_lock, listVars, dataVars, i>>

(* A process changes the data of a buffer it holds, be it locked or not.   *)
Modify(p, b, x) ==
  /\ pc[p] = "out" /\ Free(p)
  /\ <<b, x>> \in held[p]
  /\ b_dirt' = [b_dirt EXCEPT ![b] = TRUE]
  /\ IF b_lock[b] # "no" \/ x \in spoiled
     THEN Spoil(x)
     ELSE /\ fresh' = {c \in fresh : b_block[c] # x} \cup {b}
          /\ stored' = stored \ {x}
          /\ UNCHANGED spoiled
  /\ UNCHANGED <<b_block, b_uptodate, b_count, b_lock, listVars, procVars>>

Brelse(p, b, x) ==
  /\ pc[p] = "out" /\ Free(p)
  /\ <<b, x>> \in held[p]
  /\ held' = [held EXCEPT ![p] = @ \ {<<b, x>>}]
  /\ IF b_lock[b] = "no"
     THEN Put(p, b, "out") /\ UNCHANGED buf
     ELSE /\ Goto(p, "putwait") /\ buf' = [buf EXCEPT ![p] = b]
          /\ UNCHANGED b_count
  /\ UNCHANGED <<b_block, b_uptodate, b_dirt, b_lock, listVars, dataVars, want, i>>

PutWake(p) ==
  /\ WakesFrom(p, "putwait", buf[p])
  /\ Put(p, buf[p], "out")
  /\ buf' = [buf EXCEPT ![p] = NULL]
  /\ UNCHANGED <<b_block, b_uptodate, b_dirt, b_lock, listVars, dataVars, want, i,
                 held>>

-----------------------------------------------------------------------------
(* The disk                                                                *)

(* read_intr or write_intr, at the end of a transfer: they clear b_dirt.   *)
Complete(b) ==
  /\ b_lock[b] # "no"
  /\ b_lock' = [b_lock EXCEPT ![b] = "no"]
  /\ b_uptodate' = [b_uptodate EXCEPT ![b] = TRUE]
  /\ b_dirt' = [b_dirt EXCEPT ![b] = FALSE]
  /\ IF b_lock[b] = "read"
     THEN /\ fresh' = IF b_block[b] \in stored THEN fresh \cup {b} ELSE fresh \ {b}
          /\ UNCHANGED stored
     ELSE /\ stored' = IF b \in fresh THEN stored \cup {b_block[b]}
                                    ELSE stored \ {b_block[b]}
          /\ UNCHANGED fresh
  /\ UNCHANGED <<b_block, b_count, listVars, procVars, spoiled>>

(* bad_rw_intr, after its last try of a read.                              *)
Fail(b) ==
  /\ b_lock[b] = "read"
  /\ b_lock' = [b_lock EXCEPT ![b] = "no"]
  /\ b_uptodate' = [b_uptodate EXCEPT ![b] = FALSE]
  /\ UNCHANGED <<b_block, b_dirt, b_count, listVars, procVars, dataVars>>

-----------------------------------------------------------------------------

Next ==
  \/ \E p \in Procs, x \in Blocks : Bread(p, x)
  \/ \E p \in Procs : SysSync(p)
  \/ \E p \in Procs : Lookup(p)
  \/ \E p \in Procs : HashWake(p)
  \/ \E p \in Procs : Check(p)
  \/ \E p \in Procs : Walk(p)
  \/ \E p \in Procs : WalkWake(p)
  \/ \E p \in Procs : Retry(p)
  \/ \E p \in Procs : Refill(p)
  \/ \E p \in Procs : Sync(p)
  \/ \E p \in Procs : SyncWake(p)
  \/ \E p \in Procs : WriteWake(p)
  \/ \E p \in Procs : Got(p)
  \/ \E p \in Procs : ReadWake(p)
  \/ \E p \in Procs : PutWake(p)
  \/ \E p \in Procs, b \in Buffers, x \in Writable : Modify(p, b, x)
  \/ \E p \in Procs, b \in Buffers, x \in Blocks : Brelse(p, b, x)
  \/ \E b \in Buffers : Complete(b)
  \/ \E b \in Buffers : Fail(b)

Spec == Init /\ [][Next]_vars

-----------------------------------------------------------------------------
(* Properties                                                              *)

(* A block has one buffer in the hash table at most (getblk, its second    *)
(* find_buffer).                                                           *)
OneBufferEach ==
  \A b, c \in hashed : b_block[b] = b_block[c] => b = c

(* The buffers p counts on while it is in the cache.                       *)
Uses(p, b) ==
  buf[p] = b /\ pc[p] \notin {"walk", "walkwait"}

HeldBy(p) == {h[1] : h \in held[p]}

(* b_count counts the users (get_hash_table, getblk, brelse): it is zero   *)
(* when and only when the buffer may be taken for another block, and       *)
(* brelse never panics.                                                    *)
CountsUsers ==
  \A b \in Buffers :
    b_count[b] = Cardinality({p \in Procs : b \in HeldBy(p)})
                   + Cardinality({p \in Procs : Uses(p, b)})

(* Whoever has got a buffer keeps it (get_hash_table, getblk): until its   *)
(* brelse the buffer is the block's, is found in the hash table and is not *)
(* being taken by anyone; so the recheck in get_hash_table, "This          *)
(* shouldn't really happen currently", never fails.                        *)
HeldStays ==
  \A p \in Procs :
    /\ \A h \in held[p] : h[1] \in hashed /\ b_block[h[1]] = h[2]
    /\ pc[p] \in {"hashwait", "check", "got", "reading"} =>
         buf[p] \in hashed /\ b_block[buf[p]] = want[p]

(* The buffers that getblk has taken out of the lists.                     *)
Claimed == {buf[p] : p \in {q \in Procs : buf[q] # NULL /\ pc[q] \in
                              {"sync", "syncwait", "writing", "refill"}}}

(* The free list is a ring of all buffers but the claimed (remove_from_    *)
(* queues, insert_into_queues), whatever happens while claimants sleep.    *)
FreeListWhole ==
  LET reach[n \in 0 .. NR_BUFFERS] ==
        IF n = 0 THEN {free_list}
        ELSE reach[n - 1] \cup {next_free[b] : b \in reach[n - 1]}
  IN /\ reach[NR_BUFFERS] = Buffers \ Claimed
     /\ \A b \in Buffers \ Claimed : prev_free[next_free[b]] = b

(* The latest of a block is never lost (getblk, sync_dev, brelse,          *)
(* write_intr): it is on the disk or in a dirty buffer, and whoever finds  *)
(* the block finds the latest; unless it was read while it was written out *)
(* from a claimed buffer, or changed while it was written.                 *)
Coherent ==
  \A x \in Blocks \ spoiled :
    /\ x \in stored \/ \E b \in fresh : b_block[b] = x /\ b_dirt[b]
    /\ \A b \in Found(x) : b_uptodate[b] => b \in fresh

(* Has p a buffer that it will release?  It holds one, is inside getblk    *)
(* with one, or has given its own back and finds that of another process.  *)
HasBuffer(p) ==
  \/ held[p] # {}
  \/ \E b \in Buffers : Uses(p, b)
  \/ pc[p] = "find" /\ Found(want[p]) # {}

(* No sleeper on buffer_wait is forgotten (brelse; getblk wakes nobody     *)
(* when it gives a claimed buffer back, and walks the free list from a     *)
(* buffer that may have moved): someone not asleep there still has a       *)
(* buffer to release.                                                      *)
SleeperRemembered ==
  (\E p \in Procs : pc[p] = "asleep") =>
     \E q \in Procs : pc[q] # "asleep" /\ HasBuffer(q)

(* "We can sleep here without fear of race-conditions" (fs/buffer.c:171):  *)
(* a block that is read is not being written from a claimed buffer.        *)
NoRace ==
  \A p \in Procs : pc[p] = "reading" => ~Evicting(want[p])
=============================================================================
