-------------------------- MODULE BufferCacheProofs --------------------------
(***************************************************************************)
(* Proofs about module BufferCache, for every set of processes and blocks  *)
(* and every number of buffers: b_count counts the users of a buffer, and  *)
(* who has got a buffer keeps it; a block has one buffer; the latest data  *)
(* of a block are never lost; the free list stays whole; no sleeper is     *)
(* forgotten.                                                              *)
(***************************************************************************)
EXTENDS BufferCache, Counting

-----------------------------------------------------------------------------
(* The invariant                                                           *)

(* As TypeOK; the range of b_count follows from CountsUsers, and that of   *)
(* stored from what is written.                                            *)
Types ==
  /\ b_block \in [Buffers -> Blocks \cup {None}]
  /\ b_uptodate \in [Buffers -> BOOLEAN]
  /\ b_dirt \in [Buffers -> BOOLEAN]
  /\ b_count \in [Buffers -> Int]
  /\ b_lock \in [Buffers -> {"no", "read", "write"}]
  /\ hashed \in SUBSET Buffers
  /\ next_free \in [Buffers -> Buffers]
  /\ prev_free \in [Buffers -> Buffers]
  /\ free_list \in Buffers
  /\ pc \in [Procs -> {"out"} \cup Running \cup Waiting]
  /\ want \in [Procs -> Blocks \cup {None}]
  /\ buf \in [Procs -> Buffers \cup {NULL}]
  /\ i \in [Procs -> 0 .. NR_BUFFERS + 1]
  /\ held \in [Procs -> SUBSET (Buffers \X Blocks)]
  /\ fresh \in SUBSET Buffers
  /\ spoiled \in SUBSET Blocks

Syncing == {"sync", "syncwait", "writing"}

(* What the locals of a process are where it is: a process has a buffer or *)
(* none, and is after a block or not.                                      *)
LocalsOf(p) ==
  /\ pc[p] \in {"out", "find", "asleep", "woken"} => buf[p] = NULL
  /\ pc[p] \in {"check", "walk", "refill", "got", "hashwait", "walkwait",
                "reading", "putwait"} => buf[p] \in Buffers
  /\ pc[p] \in {"out", "putwait"} => want[p] = None
  /\ pc[p] \in Syncing /\ buf[p] = NULL => want[p] = None
  /\ pc[p] \in Syncing /\ buf[p] # NULL => want[p] \in Blocks
  /\ pc[p] \notin Syncing \cup {"out", "putwait"} => want[p] \in Blocks
  /\ pc[p] = "sync" => i[p] # 0
  /\ pc[p] \in {"syncwait", "writing"} => i[p] \in Buffers

Locals == \A p \in Procs : LocalsOf(p)

(* A process never asks for a block it has, and has a buffer of it once.   *)
WantNotHeld == \A p \in Procs : \A h \in held[p] : h[2] # want[p]

(* HeldStays, and also while brelse waits for the buffer.                  *)
UsedStays ==
  \A p \in Procs :
    /\ \A h \in held[p] : h[1] \in hashed /\ b_block[h[1]] = h[2]
    /\ pc[p] \in {"hashwait", "check", "got", "reading"} =>
         buf[p] \in hashed /\ b_block[buf[p]] = want[p]
    /\ pc[p] = "putwait" => buf[p] \in hashed

HasClaimed(p) == buf[p] # NULL /\ pc[p] \in Syncing \cup {"refill"}

(* A claimed buffer cannot be found, and nobody else has claimed it.       *)
ClaimedAlone ==
  \A p \in Procs : HasClaimed(p) =>
    /\ buf[p] \notin hashed
    /\ \A q \in Procs : HasClaimed(q) /\ buf[q] = buf[p] => q = p

HashedHasBlock == \A b \in hashed : b_block[b] \in Blocks

Counted ==
  /\ Types /\ Locals /\ WantNotHeld
  /\ UsedStays /\ ClaimedAlone /\ HashedHasBlock
  /\ CountsUsers /\ OneBufferEach

-----------------------------------------------------------------------------
(* The second invariant, of the data                                       *)

(* A buffer that is read is in the table and not up to date; one that is   *)
(* dirty is up to date, belongs to a block, and it alone is written.       *)
Transfers ==
  \A b \in Buffers :
    /\ b_lock[b] = "read" => b \in hashed /\ ~b_uptodate[b]
    /\ b_dirt[b] => b_uptodate[b] /\ b_block[b] # None
    /\ b_lock[b] = "write" => b_dirt[b]

HeldUptodate == \A p \in Procs : \A h \in held[p] : b_uptodate[h[1]]

(* sync_dev has still to come to a claimed buffer that is dirty, or is at  *)
(* it, so that the buffer is clean when it gets its new block.             *)
ClaimedWritten ==
  \A p \in Procs : HasClaimed(p) /\ b_dirt[buf[p]] =>
    /\ pc[p] \in Syncing
    /\ i[p] <= buf[p]
    /\ pc[p] = "writing" /\ i[p] = buf[p] => b_lock[buf[p]] # "no"

(* What is dirty is the latest, and while an evicted buffer is still dirty *)
(* nobody gets the data of its block from a new one.                       *)
DirtyFresh ==
  \A b \in Buffers : b_dirt[b] /\ b_block[b] \notin spoiled => b \in fresh

EvictedFirst ==
  \A b \in hashed, c \in Buffers \ hashed :
    b_dirt[c] /\ b_block[c] = b_block[b] /\ b_block[b] \notin spoiled =>
      ~b_uptodate[b] /\ b_lock[b] # "read"

DataInv ==
  /\ Transfers /\ HeldUptodate /\ ClaimedWritten
  /\ DirtyFresh /\ EvictedFirst /\ Coherent

-----------------------------------------------------------------------------
(* The first invariant: types, locals, and what stays in the table         *)

(* There are buffers and finitely many processes.                          *)
LEMMA Constants == NR_BUFFERS \in Nat \ {0} /\ 1 \in Buffers /\ NULL \notin Buffers
                   /\ IsFiniteSet(Procs)
<1>1. Cardinality(Procs) \in Nat
  BY FS_CardinalityType, BuffersAssumption
<1>2. QED
  BY <1>1, BuffersAssumption DEF Buffers, NULL

(* brelse moves p, and those asleep on buffer_wait.                        *)
LEMMA PutMoves ==
  ASSUME NEW p \in Procs, NEW b, NEW l, Put(p, b, l), Types
  PROVE  /\ pc' = [q \in Procs |-> IF q = p THEN l
                                   ELSE IF pc[q] = "asleep" THEN "woken" ELSE pc[q]]
         /\ b_count' = [b_count EXCEPT ![b] = @ - 1]
BY DEF Put, Types, Running, Waiting

(* Every variable keeps to its values, and the locals to what they are at  *)
(* each place.                                                             *)
LEMMA TypesStep == Types /\ Locals /\ [Next]_vars => Types'
<1> SUFFICES ASSUME Types, Locals, [Next]_vars PROVE Types'
  OBVIOUS
<1> USE Constants, BlocksAssumption DEF Types, Running, Waiting, Syncing, Goto
<1>b. \A p \in Procs : LocalsOf(p)
  BY DEF Locals
<1>c. ASSUME NEW b \in Buffers, Unqueue(b)
      PROVE  /\ hashed' \in SUBSET Buffers
             /\ next_free' \in [Buffers -> Buffers]
             /\ prev_free' \in [Buffers -> Buffers]
             /\ free_list' \in Buffers
  BY <1>c DEF Unqueue
<1>d. ASSUME NEW b \in Buffers, NEW e, Enqueue(b, e)
      PROVE  /\ hashed' \in SUBSET Buffers
             /\ next_free' \in [Buffers -> Buffers]
             /\ prev_free' \in [Buffers -> Buffers]
             /\ free_list' \in Buffers
  BY <1>d DEF Enqueue
<1>1. ASSUME NEW p \in Procs, NEW x \in Blocks, Bread(p, x) PROVE Types'
  BY <1>1 DEF Bread, bufferVars, listVars, dataVars
<1>2. ASSUME NEW p \in Procs, SysSync(p) PROVE Types'
  BY <1>2 DEF SysSync, bufferVars, listVars, dataVars
<1>3. ASSUME NEW p \in Procs, Lookup(p) PROVE Types'
  BY <1>3 DEF Lookup, listVars, dataVars, Found
<1>4. ASSUME NEW p \in Procs, HashWake(p) PROVE Types'
  BY <1>4 DEF HashWake, WakesFrom, bufferVars, listVars, dataVars
<1>5. ASSUME NEW p \in Procs, Check(p) PROVE Types'
  <2>1. CASE b_block[buf[p]] = want[p]
    BY <1>5, <2>1 DEF Check, listVars, dataVars
  <2>2. CASE b_block[buf[p]] # want[p]
    <3>1. Put(p, buf[p], "find")
      BY <1>5, <2>2 DEF Check
    <3>2. QED
      BY <1>5, <2>2, <3>1, PutMoves DEF Check, listVars, dataVars
  <2>3. QED
    BY <2>1, <2>2
<1>6. ASSUME NEW p \in Procs, Walk(p) PROVE Types'
  <2>1. buf[p] \in Buffers
    BY <1>6, <1>b DEF Walk, LocalsOf
  <2>2. CASE Claim(p, buf[p])
    BY <1>6, <1>c, <2>1, <2>2 DEF Walk, Claim, dataVars
  <2>3. CASE Advance(p, buf[p])
    BY <1>6, <2>1, <2>3 DEF Walk, Advance, listVars, dataVars
  <2>4. CASE Goto(p, "walkwait") /\ UNCHANGED <<b_count, listVars, buf, i>>
    BY <1>6, <2>4 DEF Walk, listVars, dataVars
  <2>5. QED
    BY <1>6, <2>2, <2>3, <2>4 DEF Walk
<1>7. ASSUME NEW p \in Procs, WalkWake(p) PROVE Types'
  <2>1. buf[p] \in Buffers
    BY <1>7, <1>b DEF WalkWake, WakesFrom, LocalsOf
  <2>2. CASE Claim(p, buf[p])
    BY <1>7, <1>c, <2>1, <2>2 DEF WalkWake, Claim, dataVars
  <2>3. CASE Advance(p, buf[p])
    BY <1>7, <2>1, <2>3 DEF WalkWake, Advance, listVars, dataVars
  <2>4. QED
    BY <1>7, <2>2, <2>3 DEF WalkWake
<1>8. ASSUME NEW p \in Procs, Retry(p) PROVE Types'
  BY <1>8 DEF Retry, bufferVars, listVars, dataVars
<1>9. ASSUME NEW p \in Procs, Refill(p) PROVE Types'
  <2>1. buf[p] \in Buffers
    BY <1>9, <1>b DEF Refill, LocalsOf
  <2>2. QED
    BY <1>9, <1>d, <2>1 DEF Refill
<1>10. ASSUME NEW p \in Procs, Sync(p) PROVE Types'
  <2>1. CASE Busy(i[p]) = {}
    BY <1>10, <2>1 DEF Sync, listVars, dataVars
  <2>2. ASSUME NEW b \in Busy(i[p]),
               i' = [i EXCEPT ![p] = b],
               IF b_lock[b] # "no"
                 THEN Goto(p, "syncwait") /\ UNCHANGED b_lock
                 ELSE Goto(p, "writing") /\ b_lock' = [b_lock EXCEPT ![b] = "write"]
        PROVE  Types'
    <3>1. b \in 0 .. NR_BUFFERS + 1
      BY <2>2 DEF Busy
    <3>2. QED
      BY <1>10, <2>2, <3>1 DEF Sync, listVars, dataVars
  <2>3. QED
    BY <1>10, <2>1, <2>2 DEF Sync
<1>11. ASSUME NEW p \in Procs, SyncWake(p) PROVE Types'
  BY <1>11 DEF SyncWake, WakesFrom, bufferVars, listVars, dataVars
<1>12. ASSUME NEW p \in Procs, WriteWake(p) PROVE Types'
  <2>1. i[p] \in 1 .. NR_BUFFERS
    BY <1>12, <1>b DEF WriteWake, WakesFrom, LocalsOf, Buffers
  <2>2. QED
    BY <1>12, <2>1 DEF WriteWake, bufferVars, listVars, dataVars
<1>13. ASSUME NEW p \in Procs, Got(p) PROVE Types'
  <2>1. buf[p] \in Buffers /\ want[p] \in Blocks
    BY <1>13, <1>b DEF Got, LocalsOf
  <2>2. QED
    BY <1>13, <2>1, SMTT(60) DEF Got, Hold, Forget, Spoil, listVars, dataVars
<1>14. ASSUME NEW p \in Procs, ReadWake(p) PROVE Types'
  <2>1. buf[p] \in Buffers /\ want[p] \in Blocks
    BY <1>14, <1>b DEF ReadWake, WakesFrom, LocalsOf
  <2>2. CASE b_uptodate[buf[p]]
    BY <1>14, <2>1, <2>2 DEF ReadWake, Hold, Forget, listVars, dataVars
  <2>3. CASE ~b_uptodate[buf[p]]
    <3>1. Put(p, buf[p], "out")
      BY <1>14, <2>3 DEF ReadWake
    <3>2. QED
      BY <1>14, <2>1, <2>3, <3>1, PutMoves DEF ReadWake, Forget, listVars, dataVars
  <2>4. QED
    BY <2>2, <2>3
<1>15. ASSUME NEW p \in Procs, PutWake(p) PROVE Types'
  <2>1. buf[p] \in Buffers /\ Put(p, buf[p], "out")
    BY <1>15, <1>b DEF PutWake, WakesFrom, LocalsOf
  <2>2. QED
    BY <1>15, <2>1, PutMoves DEF PutWake, listVars, dataVars
<1>16. ASSUME NEW p \in Procs, NEW b \in Buffers, NEW x \in Writable, Modify(p, b, x)
       PROVE  Types'
  BY <1>16 DEF Modify, Spoil, listVars, procVars
<1>17. ASSUME NEW p \in Procs, NEW b \in Buffers, NEW x \in Blocks, Brelse(p, b, x)
       PROVE  Types'
  <2>1. CASE b_lock[b] = "no"
    <3>1. Put(p, b, "out")
      BY <1>17, <2>1 DEF Brelse
    <3>2. QED
      BY <1>17, <2>1, <3>1, PutMoves DEF Brelse, listVars, dataVars
  <2>2. CASE b_lock[b] # "no"
    BY <1>17, <2>2, SMTT(60) DEF Brelse, listVars, dataVars
  <2>3. QED
    BY <2>1, <2>2
<1>18. ASSUME NEW b \in Buffers, Complete(b) PROVE Types'
  BY <1>18 DEF Complete, listVars, procVars
<1>19. ASSUME NEW b \in Buffers, Fail(b) PROVE Types'
  BY <1>19 DEF Fail, listVars, procVars, dataVars
<1>20. CASE UNCHANGED vars
  BY <1>20 DEF vars, bufferVars, listVars, procVars, dataVars
<1>21. QED
  BY <1>1, <1>2, <1>3, <1>4, <1>5, <1>6, <1>7, <1>8, <1>9, <1>10, <1>11, <1>12,
     <1>13, <1>14, <1>15, <1>16, <1>17, <1>18, <1>19, <1>20 DEF Next

(* Where a process is tells what it has in buf and want. *)
LEMMA LocalsStep == Types /\ Locals /\ [Next]_vars => Locals'
<1> SUFFICES ASSUME Types, Locals, [Next]_vars, NEW r \in Procs
             PROVE  LocalsOf(r)'
  BY DEF Locals
<1> USE Constants, BlocksAssumption DEF Types, Running, Waiting, Syncing, Goto, LocalsOf
<1>a. LocalsOf(r)
  BY DEF Locals
<1>b. \A p \in Procs : LocalsOf(p)
  BY DEF Locals
<1>1. ASSUME NEW p \in Procs, NEW x \in Blocks, Bread(p, x) PROVE LocalsOf(r)'
  BY <1>1, <1>a DEF Bread
<1>2. ASSUME NEW p \in Procs, SysSync(p) PROVE LocalsOf(r)'
  BY <1>2, <1>a DEF SysSync
<1>3. ASSUME NEW p \in Procs, Lookup(p) PROVE LocalsOf(r)'
  BY <1>3, <1>a DEF Lookup, Found
<1>4. ASSUME NEW p \in Procs, HashWake(p) PROVE LocalsOf(r)'
  BY <1>4, <1>a DEF HashWake, WakesFrom
<1>5. ASSUME NEW p \in Procs, Check(p) PROVE LocalsOf(r)'
  <2>1. CASE b_block[buf[p]] = want[p]
    BY <1>5, <1>a, <2>1 DEF Check
  <2>2. CASE b_block[buf[p]] # want[p]
    <3>1. Put(p, buf[p], "find")
      BY <1>5, <2>2 DEF Check
    <3>2. QED
      BY <1>5, <1>a, <2>2, <3>1, PutMoves DEF Check
  <2>3. QED
    BY <2>1, <2>2
<1>6. ASSUME NEW p \in Procs, Walk(p) PROVE LocalsOf(r)'
  <2>1. buf[p] \in Buffers
    BY <1>6, <1>b DEF Walk
  <2>2. CASE Claim(p, buf[p])
    BY <1>6, <1>a, <2>1, <2>2 DEF Walk, Claim
  <2>3. CASE Advance(p, buf[p])
    BY <1>6, <1>a, <2>1, <2>3 DEF Walk, Advance
  <2>4. CASE Goto(p, "walkwait") /\ UNCHANGED <<b_count, listVars, buf, i>>
    BY <1>6, <1>a, <2>4 DEF Walk
  <2>5. QED
    BY <1>6, <2>2, <2>3, <2>4 DEF Walk
<1>7. ASSUME NEW p \in Procs, WalkWake(p) PROVE LocalsOf(r)'
  <2>1. buf[p] \in Buffers
    BY <1>7, <1>b DEF WalkWake, WakesFrom
  <2>2. CASE Claim(p, buf[p])
    BY <1>7, <1>a, <2>1, <2>2 DEF WalkWake, WakesFrom, Claim
  <2>3. CASE Advance(p, buf[p])
    BY <1>7, <1>a, <2>1, <2>3 DEF WalkWake, WakesFrom, Advance
  <2>4. QED
    BY <1>7, <2>2, <2>3 DEF WalkWake
<1>8. ASSUME NEW p \in Procs, Retry(p) PROVE LocalsOf(r)'
  BY <1>8, <1>a DEF Retry
<1>9. ASSUME NEW p \in Procs, Refill(p) PROVE LocalsOf(r)'
  BY <1>9, <1>a, <1>b DEF Refill
<1>10. ASSUME NEW p \in Procs, Sync(p) PROVE LocalsOf(r)'
  <2>1. CASE Busy(i[p]) = {}
    BY <1>10, <1>a, <2>1 DEF Sync
  <2>2. ASSUME NEW b \in Busy(i[p]),
               i' = [i EXCEPT ![p] = b],
               IF b_lock[b] # "no"
                 THEN Goto(p, "syncwait") /\ UNCHANGED b_lock
                 ELSE Goto(p, "writing") /\ b_lock' = [b_lock EXCEPT ![b] = "write"]
        PROVE  LocalsOf(r)'
    <3>1. CASE r = p
      <4>1. b \in 1 .. NR_BUFFERS
        BY <1>10, <1>a, <2>2, <3>1 DEF Busy, Sync
      <4>2. i'[p] = b /\ pc'[p] \in {"syncwait", "writing"} /\ buf' = buf /\ want' = want
        BY <1>10, <2>2 DEF Sync
      <4>3. QED
        BY <1>10, <1>a, <3>1, <4>1, <4>2 DEF Sync, Buffers
    <3>2. CASE r # p
      BY <1>10, <1>a, <2>2, <3>2 DEF Sync
    <3>3. QED
      BY <3>1, <3>2
  <2>3. QED
    BY <1>10, <2>1, <2>2 DEF Sync
<1>11. ASSUME NEW p \in Procs, SyncWake(p) PROVE LocalsOf(r)'
  BY <1>11, <1>a DEF SyncWake, WakesFrom, NULL
<1>12. ASSUME NEW p \in Procs, WriteWake(p) PROVE LocalsOf(r)'
  BY <1>12, <1>a DEF WriteWake, WakesFrom
<1>13. ASSUME NEW p \in Procs, Got(p) PROVE LocalsOf(r)'
  BY <1>13, <1>a DEF Got, Hold, Forget
<1>14. ASSUME NEW p \in Procs, ReadWake(p) PROVE LocalsOf(r)'
  <2>1. CASE b_uptodate[buf[p]]
    BY <1>14, <1>a, <2>1 DEF ReadWake, WakesFrom, Hold, Forget
  <2>2. CASE ~b_uptodate[buf[p]]
    <3>1. Put(p, buf[p], "out")
      BY <1>14, <2>2 DEF ReadWake
    <3>2. QED
      BY <1>14, <1>a, <2>2, <3>1, PutMoves DEF ReadWake, Forget
  <2>3. QED
    BY <2>1, <2>2
<1>15. ASSUME NEW p \in Procs, PutWake(p) PROVE LocalsOf(r)'
  <2>1. Put(p, buf[p], "out")
    BY <1>15 DEF PutWake
  <2>2. QED
    BY <1>15, <1>a, <2>1, PutMoves DEF PutWake, WakesFrom
<1>16. ASSUME NEW p \in Procs, NEW b \in Buffers, NEW x \in Writable, Modify(p, b, x)
       PROVE  LocalsOf(r)'
  BY <1>16, <1>a DEF Modify, procVars
<1>17. ASSUME NEW p \in Procs, NEW b \in Buffers, NEW x \in Blocks, Brelse(p, b, x)
       PROVE  LocalsOf(r)'
  <2>1. CASE b_lock[b] = "no"
    <3>1. Put(p, b, "out")
      BY <1>17, <2>1 DEF Brelse
    <3>2. QED
      BY <1>17, <1>a, <2>1, <3>1, PutMoves DEF Brelse
  <2>2. CASE b_lock[b] # "no"
    BY <1>17, <1>a, <2>2 DEF Brelse
  <2>3. QED
    BY <2>1, <2>2
<1>18. ASSUME NEW b \in Buffers, Complete(b) PROVE LocalsOf(r)'
  BY <1>18, <1>a DEF Complete, procVars
<1>19. ASSUME NEW b \in Buffers, Fail(b) PROVE LocalsOf(r)'
  BY <1>19, <1>a DEF Fail, procVars
<1>20. CASE UNCHANGED vars
  BY <1>20, <1>a DEF vars, procVars
<1>21. QED
  BY <1>1, <1>2, <1>3, <1>4, <1>5, <1>6, <1>7, <1>8, <1>9, <1>10, <1>11, <1>12,
     <1>13, <1>14, <1>15, <1>16, <1>17, <1>18, <1>19, <1>20 DEF Next

-----------------------------------------------------------------------------
(* Who uses a buffer keeps it                                              *)

(* A buffer that nobody counts on is nobody's.                             *)
LEMMA Unused ==
  ASSUME CountsUsers, NEW b \in Buffers, b_count[b] = 0, NEW q \in Procs
  PROVE  ~Uses(q, b) /\ \A h \in held[q] : h[1] # b
<1> DEFINE H == {p \in Procs : b \in HeldBy(p)}
           U == {p \in Procs : Uses(p, b)}
<1>1. /\ Cardinality(H) \in Nat /\ (Cardinality(H) = 0 <=> H = {})
      /\ Cardinality(U) \in Nat /\ (Cardinality(U) = 0 <=> U = {})
  BY CountPart, Constants
<1>2. Cardinality(H) + Cardinality(U) = 0
  BY DEF CountsUsers
<1>3. H = {} /\ U = {}
  BY <1>1, <1>2
<1>4. QED
  BY <1>3 DEF HeldBy

(* The part of UsedStays about one process.                                *)
StaysOf(p) ==
  /\ \A h \in held[p] : h[1] \in hashed /\ b_block[h[1]] = h[2]
  /\ pc[p] \in {"hashwait", "check", "got", "reading"} =>
       buf[p] \in hashed /\ b_block[buf[p]] = want[p]
  /\ pc[p] = "putwait" => buf[p] \in hashed

(* Taking b out of the lists, when nobody counts on it, takes it from      *)
(* nobody.                                                                 *)
LEMMA ClaimStays ==
  ASSUME Types, Locals, CountsUsers, NEW p \in Procs, NEW b \in Buffers,
         b_count[b] = 0, Claim(p, b), pc[p] \in {"walk", "walkwait"},
         UNCHANGED <<b_block, held, want>>,
         NEW r \in Procs, StaysOf(r)
  PROVE  StaysOf(r)'
<1>1. hashed' = hashed \ {b}
  BY DEF Claim, Unqueue
<1>2. ~Uses(r, b) /\ \A h \in held[r] : h[1] # b
  BY Unused
<1>3. pc'[r] = pc[r] \/ pc'[r] \in {"sync", "refill"}
  BY DEF Claim, Goto, Types
<1>4. buf' = buf
  BY DEF Claim
<1>5. pc'[r] \in {"hashwait", "check", "got", "reading", "putwait"} => buf[r] # b
  BY <1>2, <1>3 DEF Uses
<1>6. QED
  BY <1>1, <1>2, <1>3, <1>4, <1>5 DEF StaysOf

(* Nobody loses a buffer to another process or to another block.           *)
LEMMA StaysStep ==
  /\ Types /\ Locals /\ UsedStays /\ ClaimedAlone /\ CountsUsers
  /\ [Next]_vars
  => UsedStays'
<1> SUFFICES ASSUME Types, Locals, UsedStays, ClaimedAlone, CountsUsers,
                    [Next]_vars, NEW r \in Procs
             PROVE  StaysOf(r)'
  BY DEF UsedStays, StaysOf
<1> USE Constants DEF Types, Running, Waiting, Goto, StaysOf
<1>a. StaysOf(r) /\ \A p \in Procs : StaysOf(p)
  BY DEF UsedStays
<1>b. \A p \in Procs : LocalsOf(p)
  BY DEF Locals
<1>1. ASSUME NEW p \in Procs, NEW x \in Blocks, Bread(p, x) PROVE StaysOf(r)'
  BY <1>1, <1>a DEF Bread, bufferVars, listVars
<1>2. ASSUME NEW p \in Procs, SysSync(p) PROVE StaysOf(r)'
  BY <1>2, <1>a DEF SysSync, bufferVars, listVars
<1>3. ASSUME NEW p \in Procs, Lookup(p) PROVE StaysOf(r)'
  BY <1>3, <1>a DEF Lookup, Found, listVars
<1>4. ASSUME NEW p \in Procs, HashWake(p) PROVE StaysOf(r)'
  BY <1>4, <1>a DEF HashWake, WakesFrom, bufferVars, listVars
<1>5. ASSUME NEW p \in Procs, Check(p) PROVE StaysOf(r)'
  BY <1>5, <1>a DEF Check, listVars
<1>6. ASSUME NEW p \in Procs, Walk(p) PROVE StaysOf(r)'
  <2>1. buf[p] \in Buffers
    BY <1>6, <1>b DEF Walk, LocalsOf
  <2>2. CASE b_count[buf[p]] = 0 /\ Claim(p, buf[p])
    BY <1>6, <1>a, <2>1, <2>2, ClaimStays DEF Walk
  <2>3. CASE Advance(p, buf[p])
    BY <1>6, <1>a, <2>3 DEF Walk, Advance, listVars
  <2>4. CASE Goto(p, "walkwait") /\ UNCHANGED <<b_count, listVars, buf, i>>
    BY <1>6, <1>a, <2>4 DEF Walk, listVars
  <2>5. QED
    BY <1>6, <2>2, <2>3, <2>4 DEF Walk
<1>7. ASSUME NEW p \in Procs, WalkWake(p) PROVE StaysOf(r)'
  <2>1. buf[p] \in Buffers
    BY <1>7, <1>b DEF WalkWake, WakesFrom, LocalsOf
  <2>2. CASE b_count[buf[p]] = 0 /\ Claim(p, buf[p])
    BY <1>7, <1>a, <2>1, <2>2, ClaimStays DEF WalkWake, WakesFrom
  <2>3. CASE Advance(p, buf[p])
    BY <1>7, <1>a, <2>3 DEF WalkWake, WakesFrom, Advance, listVars
  <2>4. QED
    BY <1>7, <2>2, <2>3 DEF WalkWake
<1>8. ASSUME NEW p \in Procs, Retry(p) PROVE StaysOf(r)'
  BY <1>8, <1>a DEF Retry, bufferVars, listVars
<1>9. ASSUME NEW p \in Procs, Refill(p) PROVE StaysOf(r)'
  <2>1. buf[p] \in Buffers /\ buf[p] \notin hashed
    BY <1>9, <1>b DEF Refill, LocalsOf, ClaimedAlone, HasClaimed
  <2>2. /\ hashed' = IF Found(want[p]) # {} THEN hashed ELSE hashed \cup {buf[p]}
        /\ \A b \in Buffers : b # buf[p] => b_block'[b] = b_block[b]
        /\ Found(want[p]) = {} => b_block'[buf[p]] = want[p]
    BY <1>9, <2>1 DEF Refill, Enqueue
  <2>3. /\ held' = held /\ want' = want
        /\ r # p => pc'[r] = pc[r] /\ buf'[r] = buf[r]
        /\ Found(want[p]) # {} => pc'[p] = "find"
        /\ Found(want[p]) = {} => pc'[p] = "got" /\ buf'[p] = buf[p]
    BY <1>9 DEF Refill
  <2>4. \A h \in held[r] : h[1] \in hashed' /\ b_block'[h[1]] = h[2]
    BY <1>a, <2>1, <2>2
  <2>5. QED
    BY <1>a, <2>1, <2>2, <2>3, <2>4
<1>10. ASSUME NEW p \in Procs, Sync(p) PROVE StaysOf(r)'
  BY <1>10, <1>a DEF Sync, listVars
<1>11. ASSUME NEW p \in Procs, SyncWake(p) PROVE StaysOf(r)'
  BY <1>11, <1>a DEF SyncWake, WakesFrom, bufferVars, listVars
<1>12. ASSUME NEW p \in Procs, WriteWake(p) PROVE StaysOf(r)'
  BY <1>12, <1>a DEF WriteWake, WakesFrom, bufferVars, listVars
<1>13. ASSUME NEW p \in Procs, Got(p) PROVE StaysOf(r)'
  BY <1>13, <1>a DEF Got, Hold, Forget, listVars
<1>14. ASSUME NEW p \in Procs, ReadWake(p) PROVE StaysOf(r)'
  <2>1. CASE b_uptodate[buf[p]]
    BY <1>14, <1>a, <2>1 DEF ReadWake, WakesFrom, Hold, Forget, listVars
  <2>2. CASE ~b_uptodate[buf[p]]
    <3>1. Put(p, buf[p], "out")
      BY <1>14, <2>2 DEF ReadWake
    <3>2. QED
      BY <1>14, <1>a, <2>2, <3>1, PutMoves DEF ReadWake, Forget, listVars
  <2>3. QED
    BY <2>1, <2>2
<1>15. ASSUME NEW p \in Procs, PutWake(p) PROVE StaysOf(r)'
  <2>1. Put(p, buf[p], "out")
    BY <1>15 DEF PutWake
  <2>2. QED
    BY <1>15, <1>a, <2>1, PutMoves DEF PutWake, WakesFrom, listVars
<1>16. ASSUME NEW p \in Procs, NEW b \in Buffers, NEW x \in Writable, Modify(p, b, x)
       PROVE  StaysOf(r)'
  BY <1>16, <1>a DEF Modify, procVars, listVars
<1>17. ASSUME NEW p \in Procs, NEW b \in Buffers, NEW x \in Blocks, Brelse(p, b, x)
       PROVE  StaysOf(r)'
  <2>1. CASE b_lock[b] = "no"
    <3>1. Put(p, b, "out")
      BY <1>17, <2>1 DEF Brelse
    <3>2. QED
      BY <1>17, <1>a, <2>1, <3>1, PutMoves DEF Brelse, listVars
  <2>2. CASE b_lock[b] # "no"
    BY <1>17, <1>a, <2>2 DEF Brelse, listVars
  <2>3. QED
    BY <2>1, <2>2
<1>18. ASSUME NEW b \in Buffers, Complete(b) PROVE StaysOf(r)'
  BY <1>18, <1>a DEF Complete, procVars, listVars
<1>19. ASSUME NEW b \in Buffers, Fail(b) PROVE StaysOf(r)'
  BY <1>19, <1>a DEF Fail, procVars, listVars
<1>20. CASE UNCHANGED vars
  BY <1>20, <1>a DEF vars, procVars, bufferVars, listVars
<1>21. QED
  BY <1>1, <1>2, <1>3, <1>4, <1>5, <1>6, <1>7, <1>8, <1>9, <1>10, <1>11, <1>12,
     <1>13, <1>14, <1>15, <1>16, <1>17, <1>18, <1>19, <1>20 DEF Next

-----------------------------------------------------------------------------
(* Claimed buffers, and one buffer for a block                             *)

(* p takes the buffer it is at out of the lists.                           *)
Claims(p) ==
  /\ pc[p] \in {"walk", "walkwait"}
  /\ b_count[buf[p]] = 0 /\ b_lock[buf[p]] = "no"
  /\ Claim(p, buf[p])
  /\ UNCHANGED <<b_block, b_uptodate, b_dirt, b_lock, dataVars, want, held>>

(* No table of buffers changes, and nobody has claimed one since.          *)
ListsSame ==
  /\ UNCHANGED <<listVars, b_block>>
  /\ \A q \in Procs : HasClaimed(q)' => HasClaimed(q) /\ buf'[q] = buf[q]

(* What a step does to the lists: it claims a buffer, or gives a claimed   *)
(* one a block, or leaves them alone.                                      *)
LEMMA ListSteps ==
  ASSUME Types, Locals, [Next]_vars
  PROVE  \/ ListsSame
         \/ \E p \in Procs : Claims(p)
         \/ \E p \in Procs : Refill(p)
<1> USE Constants DEF Types, Running, Waiting, Syncing, Goto, HasClaimed, ListsSame
<1>b. \A p \in Procs : LocalsOf(p)
  BY DEF Locals
<1>1. ASSUME NEW p \in Procs, NEW x \in Blocks, Bread(p, x) PROVE ListsSame
  BY <1>1 DEF Bread, bufferVars
<1>2. ASSUME NEW p \in Procs, SysSync(p) PROVE ListsSame
  BY <1>2, <1>b DEF SysSync, bufferVars, LocalsOf
<1>3. ASSUME NEW p \in Procs, Lookup(p) PROVE ListsSame
  BY <1>3 DEF Lookup
<1>4. ASSUME NEW p \in Procs, HashWake(p) PROVE ListsSame
  BY <1>4 DEF HashWake, bufferVars
<1>5. ASSUME NEW p \in Procs, Check(p) PROVE ListsSame
  <2>1. CASE b_block[buf[p]] = want[p]
    BY <1>5, <2>1 DEF Check
  <2>2. CASE b_block[buf[p]] # want[p]
    <3>1. Put(p, buf[p], "find")
      BY <1>5, <2>2 DEF Check
    <3>2. QED
      BY <1>5, <2>2, <3>1, PutMoves DEF Check
  <2>3. QED
    BY <2>1, <2>2
<1>6. ASSUME NEW p \in Procs, Walk(p) PROVE ListsSame \/ Claims(p)
  <2>1. CASE b_count[buf[p]] = 0 /\ b_lock[buf[p]] = "no" /\ Claim(p, buf[p])
    BY <1>6, <2>1 DEF Walk, Claims
  <2>2. CASE Advance(p, buf[p])
    BY <1>6, <2>2 DEF Walk, Advance
  <2>3. CASE Goto(p, "walkwait") /\ UNCHANGED <<b_count, listVars, buf, i>>
    BY <1>6, <2>3 DEF Walk
  <2>4. QED
    BY <1>6, <2>1, <2>2, <2>3 DEF Walk
<1>7. ASSUME NEW p \in Procs, WalkWake(p) PROVE ListsSame \/ Claims(p)
  <2>1. CASE b_count[buf[p]] = 0 /\ Claim(p, buf[p])
    BY <1>7, <2>1 DEF WalkWake, WakesFrom, Claims
  <2>2. CASE Advance(p, buf[p])
    BY <1>7, <2>2 DEF WalkWake, Advance
  <2>3. QED
    BY <1>7, <2>1, <2>2 DEF WalkWake
<1>8. ASSUME NEW p \in Procs, Retry(p) PROVE ListsSame
  BY <1>8 DEF Retry, bufferVars
<1>10. ASSUME NEW p \in Procs, Sync(p) PROVE ListsSame
  BY <1>10 DEF Sync
<1>11. ASSUME NEW p \in Procs, SyncWake(p) PROVE ListsSame
  BY <1>11 DEF SyncWake, WakesFrom, bufferVars
<1>12. ASSUME NEW p \in Procs, WriteWake(p) PROVE ListsSame
  BY <1>12 DEF WriteWake, WakesFrom, bufferVars
<1>13. ASSUME NEW p \in Procs, Got(p) PROVE ListsSame
  BY <1>13 DEF Got, Hold, Forget
<1>14. ASSUME NEW p \in Procs, ReadWake(p) PROVE ListsSame
  <2>1. CASE b_uptodate[buf[p]]
    BY <1>14, <2>1 DEF ReadWake, Hold, Forget
  <2>2. CASE ~b_uptodate[buf[p]]
    <3>1. Put(p, buf[p], "out")
      BY <1>14, <2>2 DEF ReadWake
    <3>2. QED
      BY <1>14, <2>2, <3>1, PutMoves DEF ReadWake, Forget
  <2>3. QED
    BY <2>1, <2>2
<1>15. ASSUME NEW p \in Procs, PutWake(p) PROVE ListsSame
  <2>1. Put(p, buf[p], "out")
    BY <1>15 DEF PutWake
  <2>2. QED
    BY <1>15, <2>1, PutMoves DEF PutWake
<1>16. ASSUME NEW p \in Procs, NEW b \in Buffers, NEW x \in Writable, Modify(p, b, x)
       PROVE  ListsSame
  BY <1>16 DEF Modify, procVars
<1>17. ASSUME NEW p \in Procs, NEW b \in Buffers, NEW x \in Blocks, Brelse(p, b, x)
       PROVE  ListsSame
  <2>1. CASE b_lock[b] = "no"
    <3>1. Put(p, b, "out")
      BY <1>17, <2>1 DEF Brelse
    <3>2. QED
      BY <1>17, <2>1, <3>1, PutMoves, SMTT(60) DEF Brelse
  <2>2. CASE b_lock[b] # "no"
    BY <1>17, <2>2 DEF Brelse
  <2>3. QED
    BY <2>1, <2>2
<1>18. ASSUME NEW b \in Buffers, Complete(b) PROVE ListsSame
  BY <1>18 DEF Complete, procVars
<1>19. ASSUME NEW b \in Buffers, Fail(b) PROVE ListsSame
  BY <1>19 DEF Fail, procVars
<1>20. CASE UNCHANGED vars
  BY <1>20 DEF vars, procVars, bufferVars
<1>21. QED
  BY <1>1, <1>2, <1>3, <1>4, <1>5, <1>6, <1>7, <1>8, <1>10, <1>11, <1>12, <1>13,
     <1>14, <1>15, <1>16, <1>17, <1>18, <1>19, <1>20 DEF Next

(* What Refill does, by whether another process has been faster.           *)
LEMMA RefillDoes ==
  ASSUME Types, Locals, ClaimedAlone, NEW p \in Procs, Refill(p)
  PROVE  /\ buf[p] \in Buffers \ hashed /\ want[p] \in Blocks /\ HasClaimed(p)
         /\ \A b \in Buffers \ {buf[p]} : /\ b_block'[b] = b_block[b]
                                         /\ b_count'[b] = b_count[b]
                                         /\ b_dirt'[b] = b_dirt[b]
                                         /\ b_uptodate'[b] = b_uptodate[b]
         /\ \A q \in Procs \ {p} : pc'[q] = pc[q] /\ buf'[q] = buf[q]
         /\ ~b_dirt'[buf[p]] /\ ~b_uptodate'[buf[p]]
         /\ IF Found(want[p]) = {}
            THEN /\ hashed' = hashed \cup {buf[p]} /\ b_block'[buf[p]] = want[p]
                 /\ b_count'[buf[p]] = b_count[buf[p]]
                 /\ pc'[p] = "got" /\ buf'[p] = buf[p]
            ELSE /\ hashed' = hashed /\ b_block'[buf[p]] = None
                 /\ b_count'[buf[p]] = 0
                 /\ pc'[p] = "find" /\ buf'[p] = NULL
<1>1. buf[p] \in Buffers \ hashed /\ want[p] \in Blocks /\ HasClaimed(p)
  BY Constants DEF Refill, Locals, LocalsOf, ClaimedAlone, HasClaimed, Syncing
<1>2. hashed' = IF Found(want[p]) # {} THEN hashed ELSE hashed \cup {buf[p]}
  BY DEF Refill, Enqueue
<1>3. QED
  BY <1>1, <1>2 DEF Refill, Goto, Types, Running, Waiting

(* A claimed buffer is claimed by one process.                             *)
LEMMA ClaimedStep ==
  /\ Types /\ Locals /\ ClaimedAlone /\ CountsUsers /\ [Next]_vars
  => ClaimedAlone'
<1> SUFFICES ASSUME Types, Locals, ClaimedAlone, CountsUsers, [Next]_vars
             PROVE  ClaimedAlone'
  OBVIOUS
<1>1. CASE ListsSame
  BY <1>1 DEF ListsSame, ClaimedAlone, listVars
<1>2. ASSUME NEW p \in Procs, Claims(p) PROVE ClaimedAlone'
  <2>1. buf[p] \in Buffers
    BY <1>2 DEF Claims, Locals, LocalsOf
  <2>2. \A q \in Procs : ~Uses(q, buf[p])
    BY <1>2, <2>1, Unused DEF Claims
  <2>3. /\ buf' = buf /\ hashed' = hashed \ {buf[p]}
        /\ \A q \in Procs \ {p} : pc'[q] = pc[q]
    BY <1>2 DEF Claims, Claim, Unqueue, Goto, Types
  <2>4. \A q \in Procs \ {p} : HasClaimed(q)' => HasClaimed(q) /\ buf[q] # buf[p]
    BY <2>2, <2>3 DEF HasClaimed, Uses, Syncing
  <2>5. QED
    BY <2>3, <2>4 DEF ClaimedAlone
<1>3. ASSUME NEW p \in Procs, Refill(p) PROVE ClaimedAlone'
  <2>1. ~HasClaimed(p)'
    BY <1>3, RefillDoes DEF HasClaimed, Syncing
  <2>2. \A q \in Procs \ {p} : HasClaimed(q)' => HasClaimed(q) /\ buf'[q] = buf[q]
                                               /\ buf[q] # buf[p]
    BY <1>3, RefillDoes DEF HasClaimed, ClaimedAlone
  <2>3. hashed' \subseteq hashed \cup {buf[p]}
    BY <1>3, RefillDoes
  <2>4. QED
    BY <2>1, <2>2, <2>3 DEF ClaimedAlone
<1>4. QED
  BY <1>1, <1>2, <1>3, ListSteps

(* A block has one buffer in the table, and what is in it has a block.     *)
LEMMA OneBufferStep ==
  /\ Types /\ Locals /\ ClaimedAlone /\ HashedHasBlock /\ OneBufferEach /\ [Next]_vars
  => HashedHasBlock' /\ OneBufferEach'
<1> SUFFICES ASSUME Types, Locals, ClaimedAlone, HashedHasBlock, OneBufferEach,
                    [Next]_vars
             PROVE  HashedHasBlock' /\ OneBufferEach'
  OBVIOUS
<1>1. CASE ListsSame
  BY <1>1 DEF ListsSame, listVars, HashedHasBlock, OneBufferEach
<1>2. ASSUME NEW p \in Procs, Claims(p) PROVE HashedHasBlock' /\ OneBufferEach'
  <2>1. hashed' \subseteq hashed /\ b_block' = b_block
    BY <1>2 DEF Claims, Claim, Unqueue
  <2>2. QED
    BY <2>1 DEF HashedHasBlock, OneBufferEach
<1>3. ASSUME NEW p \in Procs, Refill(p) PROVE HashedHasBlock' /\ OneBufferEach'
  <2>1. hashed \subseteq Buffers \ {buf[p]}
    BY <1>3, RefillDoes DEF Types
  <2>2. CASE Found(want[p]) = {}
    <3>1. \A b \in hashed : b_block[b] # want[p]
      BY <2>2 DEF Found
    <3>2. QED
      BY <1>3, <2>1, <2>2, <3>1, RefillDoes DEF HashedHasBlock, OneBufferEach
  <2>3. CASE Found(want[p]) # {}
    BY <1>3, <2>1, <2>3, RefillDoes DEF HashedHasBlock, OneBufferEach
  <2>4. QED
    BY <2>2, <2>3
<1>4. QED
  BY <1>1, <1>2, <1>3, ListSteps

-----------------------------------------------------------------------------
(* b_count                                                                 *)

(* How often p counts in b_count of b.                                     *)
Weight(p, b) == (IF b \in HeldBy(p) THEN 1 ELSE 0) + (IF Uses(p, b) THEN 1 ELSE 0)

(* A step of one process keeps the counts if b_count follows what it uses. *)
LEMMA CountOne ==
  ASSUME Types, CountsUsers, NEW p \in Procs,
         \A q \in Procs \ {p}, b \in Buffers :
           /\ b \in HeldBy(q)' <=> b \in HeldBy(q)
           /\ Uses(q, b)' <=> Uses(q, b),
         \A b \in Buffers : b_count'[b] = b_count[b] - Weight(p, b) + Weight(p, b)'
  PROVE  CountsUsers'
<1> SUFFICES ASSUME NEW b \in Buffers
             PROVE  b_count'[b] = Cardinality({q \in Procs : b \in HeldBy(q)'})
                                    + Cardinality({q \in Procs : Uses(q, b)'})
  BY DEF CountsUsers
<1> DEFINE H == {q \in Procs : b \in HeldBy(q)}
           U == {q \in Procs : Uses(q, b)}
           Hn == {q \in Procs : b \in HeldBy(q)'}
           Un == {q \in Procs : Uses(q, b)'}
<1>1. H \ {p} = Hn \ {p} /\ U \ {p} = Un \ {p}
  OBVIOUS
<1>2. /\ p \in H <=> b \in HeldBy(p)
      /\ p \in Hn <=> b \in HeldBy(p)'
      /\ p \in U <=> Uses(p, b)
      /\ p \in Un <=> Uses(p, b)'
  OBVIOUS
<1>3. IsFiniteSet(H) /\ IsFiniteSet(U)
  BY Constants, CountPart
<1>4. b_count[b] = Cardinality(H) + Cardinality(U)
  BY DEF CountsUsers
<1> HIDE DEF H, U, Hn, Un
<1>5. /\ Cardinality(H) \in Nat /\ Cardinality(Hn) \in Nat
      /\ Cardinality(Hn) = Cardinality(H) - (IF p \in H THEN 1 ELSE 0)
                                          + (IF p \in Hn THEN 1 ELSE 0)
  BY <1>1, <1>3, ChangeOne
<1>6. /\ Cardinality(U) \in Nat /\ Cardinality(Un) \in Nat
      /\ Cardinality(Un) = Cardinality(U) - (IF p \in U THEN 1 ELSE 0)
                                          + (IF p \in Un THEN 1 ELSE 0)
  BY <1>1, <1>3, ChangeOne
<1>7. b_count'[b] = b_count[b] - Weight(p, b) + Weight(p, b)'
  OBVIOUS
<1>8. b_count'[b] = Cardinality(Hn) + Cardinality(Un)
  BY <1>2, <1>4, <1>5, <1>6, <1>7 DEF Weight
<1>9. QED
  BY <1>8 DEF Hn, Un

(* A step that changes neither b_count nor what anybody uses.              *)
LEMMA CountSame ==
  ASSUME CountsUsers, UNCHANGED <<b_count, held>>,
         \A q \in Procs, b \in Buffers : Uses(q, b)' <=> Uses(q, b)
  PROVE  CountsUsers'
<1> SUFFICES ASSUME NEW b \in Buffers
             PROVE  b_count'[b] = Cardinality({q \in Procs : b \in HeldBy(q)'})
                                    + Cardinality({q \in Procs : Uses(q, b)'})
  BY DEF CountsUsers
<1>1. {q \in Procs : b \in HeldBy(q)'} = {q \in Procs : b \in HeldBy(q)}
  BY DEF HeldBy
<1>2. {q \in Procs : Uses(q, b)'} = {q \in Procs : Uses(q, b)}
  OBVIOUS
<1>3. QED
  BY <1>1, <1>2 DEF CountsUsers

(* A process that has claimed a buffer is the only one that counts on it.  *)
LEMMA SoleUser ==
  ASSUME Types, Locals, UsedStays, ClaimedAlone, CountsUsers,
         NEW p \in Procs, HasClaimed(p)
  PROVE  /\ buf[p] \in Buffers /\ b_count[buf[p]] = 1
         /\ Uses(p, buf[p]) /\ buf[p] \notin HeldBy(p)
<1> DEFINE b == buf[p]
           H == {q \in Procs : b \in HeldBy(q)}
           U == {q \in Procs : Uses(q, b)}
<1>1. b \in Buffers /\ b \notin hashed /\ Uses(p, b)
  BY DEF Types, HasClaimed, ClaimedAlone, Uses, Syncing
<1>2. H = {}
  BY <1>1 DEF UsedStays, HeldBy
<1>3. ASSUME NEW q \in Procs, Uses(q, b) PROVE q = p
  <2>1. buf[q] = b /\ b # NULL
    BY <1>1, <1>3, Constants DEF Uses
  <2>2. pc[q] \notin {"hashwait", "check", "got", "reading", "putwait"}
    BY <1>1, <2>1 DEF UsedStays
  <2>3. pc[q] \in Syncing \cup {"refill"}
    BY <1>3, <2>1, <2>2 DEF Types, Running, Waiting, Locals, LocalsOf, Uses, Syncing
  <2>4. QED
    BY <2>1, <2>3 DEF HasClaimed, ClaimedAlone
<1>4. U = {p}
  BY <1>1, <1>3
<1>5. Cardinality(H) = 0 /\ Cardinality(U) = 1
  BY <1>2, <1>4, Constants, CountPart
<1>6. b_count[b] = Cardinality(H) + Cardinality(U)
  BY <1>1 DEF CountsUsers
<1>7. QED
  BY <1>1, <1>2, <1>5, <1>6

(* p gives up a buffer that it uses: others are not concerned.             *)
LEMMA PutCounts ==
  ASSUME Types, Locals, CountsUsers, NEW p \in Procs, NEW l,
         Put(p, buf[p], l), Uses(p, buf[p]), buf[p] \in Buffers,
         buf' = [buf EXCEPT ![p] = NULL], UNCHANGED held
  PROVE  CountsUsers'
<1>1. \A q \in Procs \ {p}, b \in Buffers :
        (b \in HeldBy(q)' <=> b \in HeldBy(q)) /\ (Uses(q, b)' <=> Uses(q, b))
  BY PutMoves DEF Types, HeldBy, Uses
<1>2. \A b \in Buffers : /\ b \in HeldBy(p)' <=> b \in HeldBy(p)
                         /\ ~Uses(p, b)'
                         /\ Uses(p, b) <=> b = buf[p]
  BY Constants DEF Types, HeldBy, Uses
<1>3. \A b \in Buffers : b_count'[b] = b_count[b] - (IF b = buf[p] THEN 1 ELSE 0)
  BY PutMoves DEF Types
<1>4. \A b \in Buffers : b_count'[b] = b_count[b] - Weight(p, b) + Weight(p, b)'
  BY <1>2, <1>3 DEF Weight, Types
<1>5. QED
  BY <1>1, <1>4, CountOne

(* p takes a buffer that it did not use.                                   *)
LEMMA TakeCounts ==
  ASSUME Types, CountsUsers, NEW p \in Procs, NEW b \in Buffers,
         b_count' = [b_count EXCEPT ![b] = @ + 1], UNCHANGED held,
         \A q \in Procs \ {p} : pc'[q] = pc[q] /\ buf'[q] = buf[q],
         \A c \in Buffers : ~Uses(p, c) /\ (Uses(p, c)' <=> c = b)
  PROVE  CountsUsers'
<1>1. \A q \in Procs \ {p}, c \in Buffers :
        (c \in HeldBy(q)' <=> c \in HeldBy(q)) /\ (Uses(q, c)' <=> Uses(q, c))
  BY DEF HeldBy, Uses
<1>2. \A c \in Buffers : /\ c \in HeldBy(p)' <=> c \in HeldBy(p)
                         /\ ~Uses(p, c) /\ (Uses(p, c)' <=> c = b)
  BY DEF HeldBy
<1>3. \A c \in Buffers : b_count'[c] = b_count[c] + (IF c = b THEN 1 ELSE 0)
  BY DEF Types
<1>4. \A c \in Buffers : b_count'[c] = b_count[c] - Weight(p, c) + Weight(p, c)'
  BY <1>2, <1>3 DEF Weight, Types
<1>5. QED
  BY <1>1, <1>4, CountOne

(* bread has got the buffer: p holds it, and uses it no more.              *)
LEMMA HoldCounts ==
  ASSUME Types, CountsUsers, NEW p \in Procs, Hold(p), UNCHANGED b_count,
         Uses(p, buf[p]), buf[p] \in Buffers, buf[p] \notin HeldBy(p)
  PROVE  CountsUsers'
<1>1. \A q \in Procs \ {p}, c \in Buffers :
        (c \in HeldBy(q)' <=> c \in HeldBy(q)) /\ (Uses(q, c)' <=> Uses(q, c))
  BY DEF Hold, Goto, Forget, Types, HeldBy, Uses
<1>2. HeldBy(p)' = HeldBy(p) \cup {buf[p]}
  <2>1. held'[p] = held[p] \cup {<<buf[p], want[p]>>}
    BY DEF Hold, Types
  <2>2. <<buf[p], want[p]>>[1] = buf[p]
    OBVIOUS
  <2>3. QED
    BY <2>1, <2>2 DEF HeldBy
<1>3. \A c \in Buffers : ~Uses(p, c)' /\ (Uses(p, c) <=> c = buf[p])
  BY Constants DEF Hold, Forget, Types, Uses
<1>4. \A c \in Buffers : b_count'[c] = b_count[c] - Weight(p, c) + Weight(p, c)'
  BY <1>2, <1>3 DEF Weight, Types
<1>5. QED
  BY <1>1, <1>4, CountOne

(* No step makes b_count wrong.                                            *)
LEMMA CountsStep ==
  /\ Types /\ Locals /\ WantNotHeld /\ UsedStays /\ ClaimedAlone /\ CountsUsers
  /\ [Next]_vars
  => CountsUsers'
<1> SUFFICES ASSUME Types, Locals, WantNotHeld, UsedStays, ClaimedAlone, CountsUsers,
                    [Next]_vars
             PROVE  CountsUsers'
  OBVIOUS
<1> USE Constants
<1>b. \A p \in Procs : LocalsOf(p)
  BY DEF Locals
<1>n. \A p \in Procs : pc[p] \in {"out", "find", "walk", "walkwait"} =>
        \A b \in Buffers : ~Uses(p, b)
  BY DEF Locals, LocalsOf, Uses
<1>u. \A p \in Procs : pc[p] \in {"hashwait", "check", "got", "reading", "putwait"} =>
        buf[p] \in Buffers /\ Uses(p, buf[p])
  BY DEF Locals, LocalsOf, Uses
<1>h. \A p \in Procs : pc[p] \in {"got", "reading"} => buf[p] \notin HeldBy(p)
  BY DEF UsedStays, WantNotHeld, HeldBy
<1>1. ASSUME NEW p \in Procs, NEW x \in Blocks, Bread(p, x) PROVE CountsUsers'
  BY <1>1, CountSame DEF Bread, bufferVars, Goto, Types, Uses
<1>2. ASSUME NEW p \in Procs, SysSync(p) PROVE CountsUsers'
  BY <1>2, CountSame DEF SysSync, bufferVars, Goto, Types, Uses
<1>3. ASSUME NEW p \in Procs, Lookup(p) PROVE CountsUsers'
  <2>1. ASSUME NEW b \in Found(want[p]),
               b_count' = [b_count EXCEPT ![b] = @ + 1],
               buf' = [buf EXCEPT ![p] = b],
               Goto(p, IF b_lock[b] = "no" THEN "check" ELSE "hashwait")
        PROVE  CountsUsers'
    <3>1. b \in Buffers
      BY DEF Found, Types
    <3>2. \A c \in Buffers : ~Uses(p, c) /\ (Uses(p, c)' <=> c = b)
      BY <1>3, <1>n, <2>1, <3>1 DEF Lookup, Goto, Types, Uses
    <3>3. QED
      BY <1>3, <2>1, <3>1, <3>2, TakeCounts DEF Lookup, Goto, Types
  <2>2. CASE buf' = [buf EXCEPT ![p] = free_list] /\ Goto(p, "walk") /\ UNCHANGED b_count
    BY <1>3, <1>n, <2>2, CountSame DEF Lookup, Goto, Types, Uses
  <2>3. QED
    BY <1>3, <2>1, <2>2 DEF Lookup
<1>4. ASSUME NEW p \in Procs, HashWake(p) PROVE CountsUsers'
  BY <1>4, CountSame DEF HashWake, WakesFrom, bufferVars, Goto, Types, Uses
<1>5. ASSUME NEW p \in Procs, Check(p) PROVE CountsUsers'
  <2>1. CASE b_block[buf[p]] = want[p]
    BY <1>5, <2>1, CountSame DEF Check, Goto, Types, Uses
  <2>2. CASE b_block[buf[p]] # want[p]
    BY <1>5, <1>u, <2>2, PutCounts DEF Check
  <2>3. QED
    BY <2>1, <2>2
<1>6. ASSUME NEW p \in Procs, pc[p] \in {"walk", "walkwait"}, Claim(p, buf[p]),
             UNCHANGED held
      PROVE  CountsUsers'
  <2>1. buf[p] \in Buffers
    BY <1>6, <1>b DEF LocalsOf
  <2>2. \A c \in Buffers : ~Uses(p, c) /\ (Uses(p, c)' <=> c = buf[p])
    BY <1>6, <1>n DEF Claim, Goto, Types, Uses
  <2>3. QED
    BY <1>6, <2>1, <2>2, TakeCounts DEF Claim, Goto, Types
<1>7. ASSUME NEW p \in Procs, pc[p] \in {"walk", "walkwait"}, Advance(p, buf[p]),
             UNCHANGED held
      PROVE  CountsUsers'
  BY <1>7, CountSame DEF Advance, Goto, Types, Uses
<1>8. ASSUME NEW p \in Procs, Walk(p) PROVE CountsUsers'
  <2>1. CASE Goto(p, "walkwait") /\ UNCHANGED <<b_count, listVars, buf, i>>
    BY <1>8, <2>1, CountSame DEF Walk, Goto, Types, Uses
  <2>2. QED
    BY <1>6, <1>7, <1>8, <2>1 DEF Walk
<1>9. ASSUME NEW p \in Procs, WalkWake(p) PROVE CountsUsers'
  BY <1>6, <1>7, <1>9 DEF WalkWake, WakesFrom
<1>10. ASSUME NEW p \in Procs, Retry(p) PROVE CountsUsers'
  BY <1>10, CountSame DEF Retry, bufferVars, Goto, Types, Uses
<1>11. ASSUME NEW p \in Procs, Refill(p) PROVE CountsUsers'
  <2>1. HasClaimed(p) /\ held' = held
    BY <1>11, RefillDoes DEF Refill
  <2>2. /\ buf[p] \in Buffers /\ b_count[buf[p]] = 1
        /\ Uses(p, buf[p]) /\ buf[p] \notin HeldBy(p)
    BY <2>1, SoleUser
  <2>3. CASE Found(want[p]) = {}
    <3>1. b_count' = b_count
      BY <1>11, <2>3 DEF Refill, Types
    <3>2. \A q \in Procs, b \in Buffers : Uses(q, b)' <=> Uses(q, b)
      BY <1>11, <2>2, <2>3, RefillDoes DEF Uses
    <3>3. QED
      BY <2>1, <3>1, <3>2, CountSame
  <2>4. CASE Found(want[p]) # {}
    <3>1. \A q \in Procs \ {p}, b \in Buffers :
            (b \in HeldBy(q)' <=> b \in HeldBy(q)) /\ (Uses(q, b)' <=> Uses(q, b))
      BY <1>11, <2>1, RefillDoes DEF HeldBy, Uses
    <3>2. \A b \in Buffers : /\ b \in HeldBy(p)' <=> b \in HeldBy(p)
                             /\ ~Uses(p, b)'
                             /\ Uses(p, b) <=> b = buf[p]
      BY <1>11, <2>1, <2>2, <2>4, RefillDoes, SMTT(60) DEF HeldBy, Uses
    <3>3. \A b \in Buffers : b_count'[b] = b_count[b] - (IF b = buf[p] THEN 1 ELSE 0)
      BY <1>11, <2>2, <2>4, RefillDoes DEF Types
    <3>4. \A b \in Buffers : b_count'[b] = b_count[b] - Weight(p, b) + Weight(p, b)'
      BY <3>2, <3>3 DEF Weight, Types
    <3>5. QED
      BY <3>1, <3>4, CountOne
  <2>5. QED
    BY <2>3, <2>4
<1>12. ASSUME NEW p \in Procs, Sync(p) PROVE CountsUsers'
  BY <1>12, CountSame DEF Sync, Goto, Types, Uses
<1>13. ASSUME NEW p \in Procs, SyncWake(p) PROVE CountsUsers'
  BY <1>13, CountSame DEF SyncWake, WakesFrom, bufferVars, Goto, Types, Uses
<1>14. ASSUME NEW p \in Procs, WriteWake(p) PROVE CountsUsers'
  BY <1>14, CountSame DEF WriteWake, WakesFrom, bufferVars, Goto, Types, Uses
<1>15. ASSUME NEW p \in Procs, Got(p) PROVE CountsUsers'
  <2>1. CASE Hold(p)
    BY <1>15, <1>u, <1>h, <2>1, HoldCounts DEF Got
  <2>2. CASE ~b_uptodate[buf[p]]
    BY <1>15, <2>2, CountSame DEF Got, Goto, Types, Uses
  <2>3. QED
    BY <1>15, <2>1, <2>2 DEF Got
<1>16. ASSUME NEW p \in Procs, ReadWake(p) PROVE CountsUsers'
  <2>1. CASE b_uptodate[buf[p]]
    BY <1>16, <1>u, <1>h, <2>1, HoldCounts DEF ReadWake, WakesFrom
  <2>2. CASE ~b_uptodate[buf[p]]
    BY <1>16, <1>u, <2>2, PutCounts DEF ReadWake, WakesFrom, Forget
  <2>3. QED
    BY <2>1, <2>2
<1>17. ASSUME NEW p \in Procs, PutWake(p) PROVE CountsUsers'
  BY <1>17, <1>u, PutCounts DEF PutWake, WakesFrom
<1>18. ASSUME NEW p \in Procs, NEW b \in Buffers, NEW x \in Writable, Modify(p, b, x)
       PROVE  CountsUsers'
  BY <1>18, CountSame DEF Modify, procVars, Uses
<1>19. ASSUME NEW p \in Procs, NEW b \in Buffers, NEW x \in Blocks, Brelse(p, b, x)
       PROVE  CountsUsers'
  <2>1. /\ b \in HeldBy(p) /\ HeldBy(p)' = HeldBy(p) \ {b}
        /\ \A q \in Procs \ {p} : HeldBy(q)' = HeldBy(q)
    <3>1. \A h \in held[p] : h[1] = b => h = <<b, x>>
      <4>1. \A h \in held[p] : h \in Buffers \X Blocks /\ b_block[h[1]] = h[2]
        BY DEF Types, UsedStays
      <4>2. <<b, x>> \in held[p]
        BY <1>19 DEF Brelse
      <4>3. QED
        BY <4>1, <4>2
    <3>2. held'[p] = held[p] \ {<<b, x>>} /\ \A q \in Procs \ {p} : held'[q] = held[q]
      BY <1>19 DEF Brelse, Types
    <3>3. <<b, x>> \in held[p]
      BY <1>19 DEF Brelse
    <3>4. QED
      BY <3>1, <3>2, <3>3 DEF HeldBy
  <2>2. CASE b_lock[b] = "no"
    <3>1. Put(p, b, "out") /\ buf' = buf
      BY <1>19, <2>2 DEF Brelse
    <3>2. \A q \in Procs, c \in Buffers : Uses(q, c)' <=> Uses(q, c)
      BY <1>19, <1>n, <3>1, PutMoves DEF Brelse, Types, Uses
    <3>3. \A c \in Buffers : b_count'[c] = b_count[c] - (IF c = b THEN 1 ELSE 0)
      BY <3>1, PutMoves DEF Types
    <3>4. \A c \in Buffers : b_count'[c] = b_count[c] - Weight(p, c) + Weight(p, c)'
      BY <2>1, <3>2, <3>3 DEF Weight, Types
    <3>5. QED
      BY <2>1, <3>2, <3>4, CountOne
  <2>3. CASE b_lock[b] # "no"
    <3>1. Goto(p, "putwait") /\ buf' = [buf EXCEPT ![p] = b] /\ b_count' = b_count
      BY <1>19, <2>3 DEF Brelse
    <3>2. \A q \in Procs \ {p}, c \in Buffers : Uses(q, c)' <=> Uses(q, c)
      BY <3>1 DEF Goto, Types, Uses
    <3>3. \A c \in Buffers : ~Uses(p, c) /\ (Uses(p, c)' <=> c = b)
      BY <1>19, <1>n, <3>1 DEF Brelse, Goto, Types, Uses
    <3>4. \A c \in Buffers : b_count'[c] = b_count[c] - Weight(p, c) + Weight(p, c)'
      BY <2>1, <3>1, <3>3 DEF Weight, Types
    <3>5. QED
      BY <2>1, <3>2, <3>4, CountOne
  <2>4. QED
    BY <2>2, <2>3
<1>20. ASSUME NEW b \in Buffers, Complete(b) PROVE CountsUsers'
  BY <1>20, CountSame DEF Complete, procVars, Uses
<1>21. ASSUME NEW b \in Buffers, Fail(b) PROVE CountsUsers'
  BY <1>21, CountSame DEF Fail, procVars, Uses
<1>22. CASE UNCHANGED vars
  BY <1>22, CountSame DEF vars, procVars, bufferVars, Uses
<1>23. QED
  BY <1>1, <1>2, <1>3, <1>4, <1>5, <1>8, <1>9, <1>10, <1>11, <1>12, <1>13, <1>14,
     <1>15, <1>16, <1>17, <1>18, <1>19, <1>20, <1>21, <1>22 DEF Next

(* A process asks only for blocks it has not got.                          *)
LEMMA WantNotHeldStep == Types /\ Locals /\ WantNotHeld /\ [Next]_vars => WantNotHeld'
<1> SUFFICES ASSUME Types, Locals, WantNotHeld, [Next]_vars,
                    NEW r \in Procs, NEW h \in held'[r]
             PROVE  h[2] # want'[r]
  BY DEF WantNotHeld
<1> USE Constants, BlocksAssumption
<1>a. \A g \in held[r] : g[2] # want[r] /\ g[2] # None
  BY DEF WantNotHeld, Types
<1>1. ASSUME NEW p \in Procs, NEW x \in Blocks, Bread(p, x) PROVE h[2] # want'[r]
  BY <1>1, <1>a DEF Bread, Types
<1>2. CASE UNCHANGED <<want, held>>
  BY <1>2, <1>a
<1>3. ASSUME NEW p \in Procs, Got(p) PROVE h[2] # want'[r]
  BY <1>3, <1>a DEF Got, Hold, Forget, Types, Locals, LocalsOf, Syncing
<1>4. ASSUME NEW p \in Procs, ReadWake(p) PROVE h[2] # want'[r]
  BY <1>4, <1>a DEF ReadWake, WakesFrom, Hold, Forget, Types, Locals, LocalsOf, Syncing
<1>5. ASSUME NEW p \in Procs, NEW b \in Buffers, NEW x \in Blocks, Brelse(p, b, x)
      PROVE  h[2] # want'[r]
  BY <1>5, <1>a DEF Brelse, Types
<1>6. ASSUME NEW p \in Procs,
             \/ SysSync(p) \/ Lookup(p) \/ HashWake(p) \/ Check(p) \/ Walk(p)
             \/ WalkWake(p) \/ Retry(p) \/ Refill(p) \/ Sync(p) \/ SyncWake(p)
             \/ WriteWake(p) \/ PutWake(p)
             \/ \E b \in Buffers, x \in Writable : Modify(p, b, x)
      PROVE  UNCHANGED <<want, held>>
  BY <1>6 DEF SysSync, Lookup, HashWake, Check, Walk, WalkWake, Retry, Refill, Sync,
              SyncWake, WriteWake, PutWake, Modify, procVars
<1>7. ASSUME NEW b \in Buffers, Complete(b) \/ Fail(b) PROVE UNCHANGED <<want, held>>
  BY <1>7 DEF Complete, Fail, procVars
<1>8. CASE UNCHANGED vars
  BY <1>2, <1>8 DEF vars, procVars
<1>9. QED
  BY <1>1, <1>2, <1>3, <1>4, <1>5, <1>6, <1>7, <1>8 DEF Next

(* It holds at boot.                                                       *)
LEMMA InitCounted == Init => Counted
<1> SUFFICES ASSUME Init PROVE Counted
  OBVIOUS
<1> USE Constants, BlocksAssumption DEF Init
<1>1. Types
  BY DEF Types, Buffers
<1>2. Locals /\ WantNotHeld /\ UsedStays /\ ClaimedAlone /\ HashedHasBlock /\ OneBufferEach
  BY DEF Locals, LocalsOf, WantNotHeld, UsedStays, ClaimedAlone, HasClaimed,
         HashedHasBlock, OneBufferEach, Syncing
<1>3. CountsUsers
  <2> SUFFICES ASSUME NEW b \in Buffers
               PROVE  b_count[b] = Cardinality({p \in Procs : b \in HeldBy(p)})
                                     + Cardinality({p \in Procs : Uses(p, b)})
    BY DEF CountsUsers
  <2> DEFINE H == {p \in Procs : b \in HeldBy(p)}
             U == {p \in Procs : Uses(p, b)}
  <2>1. H = {} /\ U = {}
    BY DEF HeldBy, Uses
  <2>2. b_count[b] = 0
    OBVIOUS
  <2> HIDE DEF H, U, Init
  <2>3. b_count[b] = Cardinality(H) + Cardinality(U)
    BY <2>1, <2>2, FS_EmptySet
  <2>4. QED
    BY <2>3 DEF H, U
<1>4. QED
  BY <1>1, <1>2, <1>3 DEF Counted

(* And every step keeps it.                                                *)
LEMMA CountedStep == Counted /\ [Next]_vars => Counted'
BY TypesStep, LocalsStep, WantNotHeldStep, StaysStep, ClaimedStep, OneBufferStep,
   CountsStep DEF Counted

(* The first invariant of the cache: who uses what, and where it lies.     *)
LEMMA AlwaysCounted == Spec => []Counted
BY InitCounted, CountedStep, PTL DEF Spec

(* No two buffers in the hash table are of the same block: getblk, which   *)
(* may have slept, looks for the block again before it enters a buffer.    *)
THEOREM OneBuffer == Spec => []OneBufferEach
BY AlwaysCounted, PTL DEF Counted

(* b_count is the number of the users of a buffer, whatever sleeps lie     *)
(* between get_hash_table, getblk, bread and brelse.                       *)
THEOREM CountsAreUsers == Spec => []CountsUsers
BY AlwaysCounted, PTL DEF Counted

(* A buffer that a process has got stays its block's until the process     *)
(* releases it, so that the recheck in get_hash_table never fails.         *)
THEOREM Kept == Spec => []HeldStays
<1>1. Counted => HeldStays
  BY DEF Counted, UsedStays, HeldStays
<1>2. QED
  BY <1>1, AlwaysCounted, PTL

-----------------------------------------------------------------------------
(* The data: what steps there are                                          *)

DataSame == UNCHANGED <<b_block, b_uptodate, b_dirt, b_lock, hashed, dataVars>>

(* sync_dev has b written.                                                 *)
Writes(p, b) ==
  /\ pc[p] = "sync" /\ b \in Buffers
  /\ b_dirt[b] /\ b_lock[b] = "no" /\ b_lock' = [b_lock EXCEPT ![b] = "write"]
  /\ UNCHANGED <<b_block, b_uptodate, b_dirt, hashed, dataVars>>

(* bread has the buffer read.                                              *)
Reads(p) ==
  /\ pc[p] = "got" /\ ~b_uptodate[buf[p]]
  /\ b_lock' = [b_lock EXCEPT ![buf[p]] = "read"]
  /\ IF Evicting(want[p]) THEN Spoil(want[p]) ELSE UNCHANGED dataVars
  /\ UNCHANGED <<b_block, b_uptodate, b_dirt, hashed, held>>

(* What a step does to the data.                                           *)
LEMMA DataSteps ==
  ASSUME Counted, [Next]_vars
  PROVE  \/ DataSame
         \/ \E p \in Procs : Claims(p)
         \/ \E p \in Procs : Refill(p)
         \/ \E p \in Procs, b \in Buffers : Writes(p, b)
         \/ \E p \in Procs : Reads(p)
         \/ \E p \in Procs, b \in Buffers, x \in Writable : Modify(p, b, x)
         \/ \E b \in Buffers : Complete(b)
         \/ \E b \in Buffers : Fail(b)
<1> USE DEF Counted, DataSame, bufferVars, listVars
<1>1. ASSUME NEW p \in Procs, NEW x \in Blocks, Bread(p, x) PROVE DataSame
  BY <1>1 DEF Bread
<1>2. ASSUME NEW p \in Procs,
             SysSync(p) \/ Lookup(p) \/ HashWake(p) \/ Check(p) \/ Retry(p)
             \/ SyncWake(p) \/ WriteWake(p) \/ ReadWake(p) \/ PutWake(p)
      PROVE  DataSame
  BY <1>2 DEF SysSync, Lookup, HashWake, Check, Retry, SyncWake, WriteWake, ReadWake,
              PutWake
<1>3. ASSUME NEW p \in Procs, Walk(p) PROVE DataSame \/ Claims(p)
  <2>1. CASE b_count[buf[p]] = 0 /\ b_lock[buf[p]] = "no" /\ Claim(p, buf[p])
    BY <1>3, <2>1 DEF Walk, Claims
  <2>2. CASE Advance(p, buf[p])
    BY <1>3, <2>2 DEF Walk, Advance
  <2>3. CASE Goto(p, "walkwait") /\ UNCHANGED <<b_count, listVars, buf, i>>
    BY <1>3, <2>3 DEF Walk
  <2>4. QED
    BY <1>3, <2>1, <2>2, <2>3 DEF Walk
<1>4. ASSUME NEW p \in Procs, WalkWake(p) PROVE DataSame \/ Claims(p)
  <2>1. CASE b_count[buf[p]] = 0 /\ Claim(p, buf[p])
    BY <1>4, <2>1 DEF WalkWake, WakesFrom, Claims
  <2>2. CASE Advance(p, buf[p])
    BY <1>4, <2>2 DEF WalkWake, Advance
  <2>3. QED
    BY <1>4, <2>1, <2>2 DEF WalkWake
<1>5. ASSUME NEW p \in Procs, Sync(p)
      PROVE  DataSame \/ \E b \in Buffers : Writes(p, b)
  <2>1. CASE UNCHANGED b_lock
    BY <1>5, <2>1 DEF Sync
  <2>2. ASSUME NEW b \in Busy(i[p]), b_lock[b] = "no",
               b_lock' = [b_lock EXCEPT ![b] = "write"]
        PROVE  Writes(p, b) /\ b \in Buffers
    <3>1. b \in Buffers
      BY <1>5, <2>2 DEF Busy, Sync, Locals, LocalsOf, Types, Buffers
    <3>2. b_dirt[b]
      BY <2>2 DEF Busy
    <3>3. QED
      BY <1>5, <2>2, <3>1, <3>2 DEF Sync, Writes
  <2>3. QED
    BY <1>5, <2>1, <2>2 DEF Sync
<1>6. ASSUME NEW p \in Procs, Got(p) PROVE DataSame \/ Reads(p)
  BY <1>6 DEF Got, Hold, Reads
<1>7. ASSUME NEW p \in Procs, NEW b \in Buffers, NEW x \in Blocks, Brelse(p, b, x)
      PROVE  DataSame
  BY <1>7 DEF Brelse
<1>8. CASE UNCHANGED vars
  BY <1>8 DEF vars
<1>9. QED
  BY <1>1, <1>2, <1>3, <1>4, <1>5, <1>6, <1>7, <1>8 DEF Next

(* Whoever holds a buffer holds one that is in the table, is its block's,  *)
(* and is up to date.                                                      *)
LEMMA HeldBuffer ==
  ASSUME Counted, HeldUptodate, NEW p \in Procs, NEW b, NEW x, <<b, x>> \in held[p]
  PROVE  b \in hashed /\ b \in Buffers /\ b_block[b] = x /\ x \in Blocks
         /\ b_uptodate[b]
<1>1. <<b, x>> \in Buffers \X Blocks
  BY DEF Counted, Types
<1>2. <<b, x>>[1] = b /\ <<b, x>>[2] = x
  OBVIOUS
<1>3. QED
  BY <1>1, <1>2 DEF Counted, UsedStays, HeldUptodate

(* A claimed buffer that gets its new block is neither dirty nor locked.   *)
LEMMA RefillClean ==
  ASSUME Counted, Transfers, ClaimedWritten, NEW p \in Procs, Refill(p)
  PROVE  ~b_dirt[buf[p]] /\ b_lock[buf[p]] = "no"
<1>1. HasClaimed(p) /\ buf[p] \in Buffers \ hashed
  BY RefillDoes DEF Counted
<1>2. ~b_dirt[buf[p]]
  BY <1>1 DEF ClaimedWritten, Refill, Syncing
<1>3. QED
  BY <1>1, <1>2 DEF Transfers, Counted, Types

(* Only clean buffers are read and only dirty ones are written.            *)
LEMMA TransfersStep ==
  Counted /\ Transfers /\ HeldUptodate /\ ClaimedWritten /\ [Next]_vars => Transfers'
<1> SUFFICES ASSUME Counted, Transfers, HeldUptodate, ClaimedWritten, [Next]_vars
             PROVE  Transfers'
  OBVIOUS
<1>t. Types
  BY DEF Counted
<1>1. CASE DataSame
  BY <1>1 DEF DataSame, Transfers
<1>2. ASSUME NEW p \in Procs, Claims(p) PROVE Transfers'
  BY <1>2 DEF Claims, Claim, Unqueue, Transfers
<1>3. ASSUME NEW p \in Procs, Refill(p) PROVE Transfers'
  <2>1. ~b_dirt[buf[p]] /\ b_lock[buf[p]] = "no"
    BY <1>3, RefillClean
  <2>2. b_lock' = b_lock /\ hashed \subseteq hashed'
    BY <1>3 DEF Refill, Enqueue
  <2>3. QED
    BY <1>3, <2>1, <2>2, RefillDoes DEF Counted, Transfers
<1>4. ASSUME NEW p \in Procs, NEW b \in Buffers, Writes(p, b) PROVE Transfers'
  BY <1>4, <1>t DEF Writes, Transfers, Types
<1>5. ASSUME NEW p \in Procs, Reads(p) PROVE Transfers'
  <2>1. buf[p] \in hashed
    BY <1>5 DEF Counted, UsedStays, Reads
  <2>2. QED
    BY <1>5, <1>t, <2>1 DEF Reads, Transfers, Types
<1>6. ASSUME NEW p \in Procs, NEW b \in Buffers, NEW x \in Writable, Modify(p, b, x)
      PROVE  Transfers'
  <2>1. b \in hashed /\ b_block[b] \in Blocks /\ b_uptodate[b]
    BY <1>6, HeldBuffer DEF Modify
  <2>2. QED
    BY <1>6, <1>t, <2>1, BlocksAssumption DEF Modify, Transfers, Types, listVars
<1>7. ASSUME NEW b \in Buffers, Complete(b) PROVE Transfers'
  BY <1>7, <1>t DEF Complete, Transfers, Types, listVars
<1>8. ASSUME NEW b \in Buffers, Fail(b) PROVE Transfers'
  BY <1>8, <1>t DEF Fail, Transfers, Types, listVars
<1>9. QED
  BY <1>1, <1>2, <1>3, <1>4, <1>5, <1>6, <1>7, <1>8, DataSteps

(* What is held stays up to date: only a read that fails undoes that.      *)
LEMMA HeldUptodateStep ==
  Counted /\ Transfers /\ HeldUptodate /\ [Next]_vars => HeldUptodate'
<1> SUFFICES ASSUME Counted, Transfers, HeldUptodate, [Next]_vars,
                    NEW r \in Procs, NEW h \in held'[r]
             PROVE  b_uptodate'[h[1]]
  BY DEF HeldUptodate
<1>t. Types
  BY DEF Counted
<1>a. \A g \in held[r] : /\ g[1] \in Buffers /\ g[1] \in hashed /\ b_uptodate[g[1]]
                         /\ \A p \in Procs : HasClaimed(p) => g[1] # buf[p]
  BY <1>t DEF Types, Counted, UsedStays, ClaimedAlone, HeldUptodate
<1>1. h \in held[r] \/ b_uptodate'[h[1]]
  <2>1. ASSUME NEW p \in Procs, Hold(p), b_uptodate[buf[p]], UNCHANGED b_uptodate
        PROVE  h \in held[r] \/ b_uptodate'[h[1]]
    <3>1. held' = [held EXCEPT ![p] = @ \cup {<<buf[p], want[p]>>}]
      BY <2>1 DEF Hold
    <3>2. h \in held[r] \/ h = <<buf[p], want[p]>>
      BY <1>t, <3>1 DEF Types
    <3>3. QED
      BY <2>1, <3>2
  <2>2. ASSUME NEW p \in Procs, Got(p) PROVE h \in held[r] \/ b_uptodate'[h[1]]
    BY <2>1, <2>2 DEF Got
  <2>3. ASSUME NEW p \in Procs, ReadWake(p) PROVE h \in held[r] \/ b_uptodate'[h[1]]
    BY <2>1, <2>3 DEF ReadWake
  <2>4. ASSUME NEW p \in Procs, NEW b \in Buffers, NEW x \in Blocks, Brelse(p, b, x)
        PROVE  h \in held[r]
    BY <2>4, <1>t DEF Brelse, Types
  <2>5. ASSUME NEW p \in Procs,
               \/ \E x \in Blocks : Bread(p, x)
               \/ SysSync(p) \/ Lookup(p) \/ HashWake(p) \/ Check(p) \/ Walk(p)
               \/ WalkWake(p) \/ Retry(p) \/ Refill(p) \/ Sync(p) \/ SyncWake(p)
               \/ WriteWake(p) \/ PutWake(p)
               \/ \E b \in Buffers, x \in Writable : Modify(p, b, x)
        PROVE  held' = held
    BY <2>5 DEF Bread, SysSync, Lookup, HashWake, Check, Walk, WalkWake, Retry, Refill,
                Sync, SyncWake, WriteWake, PutWake, Modify, procVars
  <2>6. ASSUME NEW b \in Buffers, Complete(b) \/ Fail(b) PROVE held' = held
    BY <2>6 DEF Complete, Fail, procVars
  <2>7. CASE UNCHANGED vars
    BY <2>7 DEF vars, procVars
  <2>8. QED
    BY <2>2, <2>3, <2>4, <2>5, <2>6, <2>7 DEF Next
<1>2. ASSUME NEW g \in held[r] PROVE b_uptodate'[g[1]]
  <2>1. CASE DataSame
    BY <1>a, <2>1 DEF DataSame
  <2>2. ASSUME NEW p \in Procs, Claims(p) PROVE b_uptodate'[g[1]]
    BY <1>a, <2>2 DEF Claims
  <2>3. ASSUME NEW p \in Procs, Refill(p) PROVE b_uptodate'[g[1]]
    BY <1>a, <2>3, RefillDoes DEF Counted
  <2>4. ASSUME NEW p \in Procs, NEW b \in Buffers, Writes(p, b) PROVE b_uptodate'[g[1]]
    BY <1>a, <2>4 DEF Writes
  <2>5. ASSUME NEW p \in Procs, Reads(p) PROVE b_uptodate'[g[1]]
    BY <1>a, <2>5 DEF Reads
  <2>6. ASSUME NEW p \in Procs, NEW b \in Buffers, NEW x \in Writable, Modify(p, b, x)
        PROVE  b_uptodate'[g[1]]
    BY <1>a, <2>6 DEF Modify
  <2>7. ASSUME NEW b \in Buffers, Complete(b) PROVE b_uptodate'[g[1]]
    BY <1>a, <1>t, <2>7 DEF Complete, Types
  <2>8. ASSUME NEW b \in Buffers, Fail(b) PROVE b_uptodate'[g[1]]
    BY <1>a, <1>t, <2>8 DEF Fail, Transfers, Types
  <2>9. QED
    BY <2>1, <2>2, <2>3, <2>4, <2>5, <2>6, <2>7, <2>8, DataSteps
<1>3. QED
  BY <1>1, <1>2

(* What a process that has claimed a buffer does: it claims it in this     *)
(* step, or goes on in sync_dev, or nothing.                               *)
LEMMA ClaimantSteps ==
  ASSUME Counted, [Next]_vars, NEW r \in Procs, HasClaimed(r)'
  PROVE  \/ Claims(r)
         \/ /\ HasClaimed(r) /\ buf'[r] = buf[r]
            /\ (pc'[r] = pc[r] /\ i'[r] = i[r]) \/ Sync(r) \/ SyncWake(r) \/ WriteWake(r)
<1> USE Constants DEF Counted, Types, Running, Waiting, Syncing, Goto, HasClaimed
<1> DEFINE Same == HasClaimed(r) /\ buf'[r] = buf[r] /\ pc'[r] = pc[r] /\ i'[r] = i[r]
<1>b. \A p \in Procs : LocalsOf(p)
  BY DEF Locals
<1>1. ASSUME NEW p \in Procs,
             \/ \E x \in Blocks : Bread(p, x)
             \/ Lookup(p) \/ HashWake(p) \/ Retry(p)
      PROVE  Same
  BY <1>1 DEF Bread, Lookup, HashWake, Retry
<1>2. ASSUME NEW p \in Procs, SysSync(p) PROVE Same
  BY <1>2, <1>b DEF SysSync, LocalsOf
<1>3. ASSUME NEW p \in Procs, Check(p) PROVE Same
  <2>1. CASE b_block[buf[p]] = want[p]
    BY <1>3, <2>1 DEF Check
  <2>2. CASE Put(p, buf[p], "find") /\ buf' = [buf EXCEPT ![p] = NULL]
    BY <1>3, <2>2, PutMoves DEF Check
  <2>3. QED
    BY <1>3, <2>1, <2>2 DEF Check
<1>4. ASSUME NEW p \in Procs, Walk(p) PROVE Same \/ Claims(r)
  <2>1. CASE b_count[buf[p]] = 0 /\ b_lock[buf[p]] = "no" /\ Claim(p, buf[p])
    <3>1. Claims(p)
      BY <1>4, <2>1 DEF Walk, Claims
    <3>2. r # p => Same
      BY <2>1 DEF Claim
    <3>3. QED
      BY <3>1, <3>2
  <2>2. CASE Advance(p, buf[p])
    BY <1>4, <2>2 DEF Walk, Advance
  <2>3. CASE Goto(p, "walkwait") /\ UNCHANGED <<b_count, listVars, buf, i>>
    BY <1>4, <2>3 DEF Walk
  <2>4. QED
    BY <1>4, <2>1, <2>2, <2>3 DEF Walk
<1>5. ASSUME NEW p \in Procs, WalkWake(p) PROVE Same \/ Claims(r)
  <2>1. CASE b_count[buf[p]] = 0 /\ Claim(p, buf[p])
    <3>1. Claims(p)
      BY <1>5, <2>1 DEF WalkWake, WakesFrom, Claims
    <3>2. r # p => Same
      BY <2>1 DEF Claim
    <3>3. QED
      BY <3>1, <3>2
  <2>2. CASE Advance(p, buf[p])
    BY <1>5, <2>2 DEF WalkWake, Advance
  <2>3. QED
    BY <1>5, <2>1, <2>2 DEF WalkWake
<1>6. ASSUME NEW p \in Procs, Refill(p) PROVE Same
  BY <1>6, RefillDoes DEF Refill
<1>7. ASSUME NEW p \in Procs, Sync(p) \/ SyncWake(p) \/ WriteWake(p)
      PROVE  \/ Same
             \/ /\ HasClaimed(r) /\ buf'[r] = buf[r]
                /\ Sync(r) \/ SyncWake(r) \/ WriteWake(r)
  <2>1. CASE r = p
    BY <1>7, <2>1 DEF Sync, SyncWake, WriteWake, WakesFrom
  <2>2. CASE r # p
    BY <1>7, <2>2 DEF Sync, SyncWake, WriteWake, WakesFrom
  <2>3. QED
    BY <2>1, <2>2
<1>8. ASSUME NEW p \in Procs, Got(p) PROVE Same
  BY <1>8 DEF Got, Hold, Forget
<1>9. ASSUME NEW p \in Procs, ReadWake(p) PROVE Same
  <2>1. CASE Hold(p)
    BY <1>9, <2>1 DEF ReadWake, Hold, Forget
  <2>2. CASE Put(p, buf[p], "out") /\ Forget(p)
    BY <1>9, <2>2, PutMoves DEF ReadWake, Forget
  <2>3. QED
    BY <1>9, <2>1, <2>2 DEF ReadWake
<1>10. ASSUME NEW p \in Procs, PutWake(p) PROVE Same
  <2>1. Put(p, buf[p], "out")
    BY <1>10 DEF PutWake
  <2>2. QED
    BY <1>10, <2>1, PutMoves DEF PutWake
<1>11. ASSUME NEW p \in Procs, NEW b \in Buffers, NEW x \in Blocks, Brelse(p, b, x)
       PROVE  Same
  <2>1. CASE Put(p, b, "out") /\ UNCHANGED buf
    BY <1>11, <2>1, PutMoves DEF Brelse
  <2>2. CASE Goto(p, "putwait") /\ buf' = [buf EXCEPT ![p] = b]
    BY <1>11, <2>2 DEF Brelse
  <2>3. QED
    BY <1>11, <2>1, <2>2 DEF Brelse
<1>12. ASSUME UNCHANGED procVars PROVE Same
  BY <1>12 DEF procVars
<1>13. QED
  BY <1>1, <1>2, <1>3, <1>4, <1>5, <1>6, <1>7, <1>8, <1>9, <1>10, <1>11, <1>12
     DEF Next, Modify, Complete, Fail, vars

(* Nobody makes a claimed buffer dirty, and a transfer leaves it clean.    *)
LEMMA ClaimedData ==
  ASSUME Counted, Transfers, HeldUptodate, ClaimedWritten, [Next]_vars,
         NEW r \in Procs, HasClaimed(r), HasClaimed(r)', b_dirt'[buf[r]]
  PROVE  b_dirt[buf[r]] /\ (b_lock'[buf[r]] = "no" => b_lock[buf[r]] = "no")
<1> DEFINE c == buf[r]
<1>t. Types
  BY DEF Counted
<1>c. c \in Buffers /\ c \notin hashed
  BY <1>t, Constants DEF Types, Counted, ClaimedAlone, HasClaimed
<1>1. CASE DataSame
  BY <1>1 DEF DataSame
<1>2. ASSUME NEW p \in Procs, Claims(p) PROVE b_dirt[c] /\ b_lock' = b_lock
  BY <1>2 DEF Claims
<1>3. ASSUME NEW p \in Procs, Refill(p) PROVE b_dirt[c] /\ b_lock' = b_lock
  <2>1. p # r
    BY <1>3, RefillDoes DEF Counted, HasClaimed, Syncing
  <2>2. HasClaimed(p) /\ buf[p] # c
    BY <1>3, <2>1, RefillDoes DEF Counted, ClaimedAlone
  <2>3. b_lock' = b_lock
    BY <1>3 DEF Refill
  <2>4. QED
    BY <1>3, <1>c, <2>2, <2>3, RefillDoes DEF Counted
<1>4. ASSUME NEW p \in Procs, NEW b \in Buffers, Writes(p, b)
      PROVE  b_dirt[c] /\ (b_lock'[c] = "no" => b_lock[c] = "no")
  BY <1>4, <1>t, <1>c DEF Writes, Types
<1>5. ASSUME NEW p \in Procs, Reads(p)
      PROVE  b_dirt[c] /\ (b_lock'[c] = "no" => b_lock[c] = "no")
  BY <1>5, <1>t, <1>c DEF Reads, Types
<1>6. ASSUME NEW p \in Procs, NEW b \in Buffers, NEW x \in Writable, Modify(p, b, x)
      PROVE  b_dirt[c] /\ b_lock' = b_lock
  <2>1. b \in hashed
    BY <1>6, HeldBuffer DEF Modify
  <2>2. QED
    BY <1>6, <1>t, <1>c, <2>1 DEF Modify, Types
<1>7. ASSUME NEW b \in Buffers, Complete(b)
      PROVE  b_dirt[c] /\ (b_lock'[c] = "no" => b_lock[c] = "no")
  BY <1>7, <1>t, <1>c DEF Complete, Types
<1>8. ASSUME NEW b \in Buffers, Fail(b)
      PROVE  b_dirt[c] /\ (b_lock'[c] = "no" => b_lock[c] = "no")
  BY <1>8, <1>t, <1>c DEF Fail, Transfers, Types
<1>9. QED
  BY <1>1, <1>2, <1>3, <1>4, <1>5, <1>6, <1>7, <1>8, DataSteps DEF DataSame

(* sync_dev goes over the array from the front: it does not pass a claimed *)
(* buffer that is dirty without having it written.                         *)
LEMMA ClaimedWrittenStep ==
  Counted /\ Transfers /\ HeldUptodate /\ ClaimedWritten /\ [Next]_vars => ClaimedWritten'
<1> SUFFICES ASSUME Counted, Transfers, HeldUptodate, ClaimedWritten, [Next]_vars,
                    NEW r \in Procs, HasClaimed(r)', b_dirt'[buf'[r]]
             PROVE  /\ pc'[r] \in Syncing /\ i'[r] <= buf'[r]
                    /\ pc'[r] = "writing" /\ i'[r] = buf'[r] => b_lock'[buf'[r]] # "no"
  BY DEF ClaimedWritten
<1>t. Types /\ LocalsOf(r)
  BY DEF Counted, Locals
<1>1. CASE Claims(r)
  <2>1. buf[r] \in 1 .. NR_BUFFERS /\ b_dirt' = b_dirt /\ buf' = buf
    BY <1>1, <1>t DEF Claims, Claim, LocalsOf, Buffers
  <2>2. pc'[r] = "sync" /\ i'[r] = 1
    BY <1>1, <1>t, <2>1 DEF Claims, Claim, Goto, Types
  <2>3. QED
    BY <2>1, <2>2 DEF Syncing
<1>2. CASE HasClaimed(r) /\ buf'[r] = buf[r]
  <2>1. /\ b_dirt[buf[r]] /\ (b_lock'[buf[r]] = "no" => b_lock[buf[r]] = "no")
        /\ pc[r] \in Syncing /\ i[r] <= buf[r] /\ buf[r] \in 1 .. NR_BUFFERS
        /\ pc[r] = "writing" /\ i[r] = buf[r] => b_lock[buf[r]] # "no"
        /\ i[r] \in 0 .. NR_BUFFERS + 1
    BY <1>2, <1>t, ClaimedData, Constants DEF ClaimedWritten, HasClaimed, Types, Buffers
  <2>2. CASE pc'[r] = pc[r] /\ i'[r] = i[r]
    BY <1>2, <2>1, <2>2
  <2>3. CASE Sync(r)
    <3>1. buf[r] \in Busy(i[r])
      BY <2>1 DEF Busy, Transfers, Buffers
    <3>2. PICK b \in Busy(i[r]) :
            /\ b <= buf[r] /\ i' = [i EXCEPT ![r] = b]
            /\ \/ Goto(r, "syncwait")
               \/ Goto(r, "writing") /\ b_lock' = [b_lock EXCEPT ![b] = "write"]
      BY <2>3, <3>1 DEF Sync
    <3>3. i'[r] = b /\ pc'[r] \in {"syncwait", "writing"}
          /\ (pc'[r] = "writing" => b_lock' = [b_lock EXCEPT ![b] = "write"])
      BY <1>t, <3>2 DEF Goto, Types
    <3>4. QED
      BY <1>2, <1>t, <2>1, <3>2, <3>3 DEF Syncing, Types, Buffers
  <2>4. CASE SyncWake(r)
    BY <1>2, <1>t, <2>1, <2>4 DEF SyncWake, WakesFrom, Goto, Syncing, Types
  <2>5. CASE WriteWake(r)
    <3>1. i[r] # buf[r] /\ i'[r] = i[r] + 1 /\ pc'[r] = "sync"
      BY <1>t, <2>1, <2>5 DEF WriteWake, WakesFrom, Goto, Types
    <3>2. QED
      BY <1>2, <2>1, <3>1 DEF Syncing
  <2>6. QED
    BY <1>2, <2>2, <2>3, <2>4, <2>5, ClaimantSteps, <1>1
<1>3. QED
  BY <1>1, <1>2, ClaimantSteps

(* Whoever changes a block has its only up-to-date buffer: no other buffer *)
(* of the block is dirty.                                                  *)
LEMMA SoleDirty ==
  ASSUME Counted, HeldUptodate, EvictedFirst, NEW b \in hashed, b_uptodate[b],
         b_block[b] \notin spoiled,
         NEW c \in Buffers, b_dirt[c], b_block[c] = b_block[b]
  PROVE  c = b
BY DEF Counted, OneBufferEach, EvictedFirst

(* What a process writes is the latest, until the block is spoiled.        *)
LEMMA DirtyFreshStep ==
  Counted /\ DataInv /\ [Next]_vars => DirtyFresh'
<1> SUFFICES ASSUME Counted, DataInv, [Next]_vars, NEW c \in Buffers,
                    b_dirt'[c], b_block'[c] \notin spoiled'
             PROVE  c \in fresh'
  BY DEF DirtyFresh
<1>t. Types /\ DirtyFresh /\ EvictedFirst /\ HeldUptodate /\ Transfers /\ ClaimedWritten
  BY DEF Counted, DataInv
<1>1. CASE DataSame
  BY <1>1, <1>t DEF DataSame, DirtyFresh, dataVars
<1>2. ASSUME NEW p \in Procs, Claims(p) PROVE c \in fresh'
  BY <1>2, <1>t DEF Claims, DirtyFresh, dataVars
<1>3. ASSUME NEW p \in Procs, Refill(p) PROVE c \in fresh'
  <2>1. c # buf[p] /\ b_block'[c] = b_block[c] /\ b_dirt[c]
    BY <1>3, RefillDoes DEF Counted
  <2>2. fresh' = fresh \ {buf[p]} /\ spoiled' = spoiled
    BY <1>3 DEF Refill
  <2>3. QED
    BY <1>t, <2>1, <2>2 DEF DirtyFresh
<1>4. ASSUME NEW p \in Procs, NEW b \in Buffers, Writes(p, b) PROVE c \in fresh'
  BY <1>4, <1>t DEF Writes, DirtyFresh, dataVars
<1>5. ASSUME NEW p \in Procs, Reads(p) PROVE c \in fresh'
  BY <1>5, <1>t DEF Reads, Spoil, DirtyFresh, dataVars
<1>6. ASSUME NEW p \in Procs, NEW b \in Buffers, NEW x \in Writable, Modify(p, b, x)
      PROVE  c \in fresh'
  <2>1. b \in hashed /\ b_block[b] = x /\ b_uptodate[b]
    BY <1>6, <1>t, HeldBuffer DEF Modify
  <2>2. b_block' = b_block /\ spoiled \subseteq spoiled' /\ (c # b => b_dirt[c])
    BY <1>6, <1>t DEF Modify, Spoil, Types
  <2>3. CASE b_block[c] = x
    <3>1. x \notin spoiled /\ fresh' = {d \in fresh : b_block[d] # x} \cup {b}
      BY <1>6, <2>2, <2>3 DEF Modify, Spoil
    <3>2. c = b
      BY <1>t, <2>1, <2>2, <2>3, <3>1, SoleDirty
    <3>3. QED
      BY <3>1, <3>2
  <2>4. CASE b_block[c] # x
    <3>1. c # b /\ c \in fresh
      BY <1>t, <2>1, <2>2, <2>4 DEF DirtyFresh
    <3>2. QED
      BY <1>6, <2>4, <3>1 DEF Modify, Spoil
  <2>5. QED
    BY <2>3, <2>4
<1>7. ASSUME NEW b \in Buffers, Complete(b) PROVE c \in fresh'
  <2>1. c # b /\ b_dirt[c]
    BY <1>7, <1>t DEF Complete, Types
  <2>2. QED
    BY <1>7, <1>t, <2>1 DEF Complete, DirtyFresh
<1>8. ASSUME NEW b \in Buffers, Fail(b) PROVE c \in fresh'
  BY <1>8, <1>t DEF Fail, DirtyFresh, dataVars
<1>9. QED
  BY <1>1, <1>2, <1>3, <1>4, <1>5, <1>6, <1>7, <1>8, DataSteps

(* Nobody gets old data of a block from the disk while its latest are in a *)
(* claimed buffer, except where the block is spoiled.                      *)
LEMMA EvictedFirstStep ==
  Counted /\ DataInv /\ [Next]_vars => EvictedFirst'
<1> SUFFICES ASSUME Counted, DataInv, [Next]_vars,
                    NEW b \in hashed', NEW c \in Buffers \ hashed',
                    b_dirt'[c], b_block'[c] = b_block'[b], b_block'[b] \notin spoiled'
             PROVE  ~b_uptodate'[b] /\ b_lock'[b] # "read"
  BY DEF EvictedFirst
<1>t. Types /\ EvictedFirst /\ HeldUptodate /\ Transfers /\ ClaimedWritten
  BY DEF Counted, DataInv
<1>b. b \in Buffers /\ c # b
  BY TypesStep DEF Counted, Types
<1> DEFINE Old == /\ b \in hashed /\ c \notin hashed /\ b_dirt[c]
                  /\ b_block[c] = b_block[b] /\ b_block[b] \notin spoiled
<1>e. Old => ~b_uptodate[b] /\ b_lock[b] # "read"
  BY <1>t DEF EvictedFirst
<1>1. CASE DataSame
  BY <1>1, <1>e DEF DataSame, dataVars
<1>2. ASSUME NEW p \in Procs, Claims(p) PROVE Old /\ UNCHANGED <<b_uptodate, b_lock>>
  <2>1. /\ hashed' \subseteq hashed
        /\ UNCHANGED <<b_block, b_dirt, b_uptodate, b_lock, spoiled>>
    BY <1>2 DEF Claims, Claim, Unqueue, dataVars
  <2>2. c \notin hashed
    BY <1>b, <2>1 DEF Counted, OneBufferEach
  <2>3. QED
    BY <2>1, <2>2
<1>3. ASSUME NEW p \in Procs, Refill(p) PROVE ~b_uptodate'[b] /\ b_lock'[b] # "read"
  <2>1. c # buf[p]
    BY <1>3, RefillDoes DEF Counted
  <2>2. b_lock' = b_lock /\ spoiled' = spoiled /\ b_lock[buf[p]] = "no"
    BY <1>3, <1>t, RefillClean DEF Refill
  <2>3. CASE b = buf[p]
    BY <1>3, <2>2, <2>3, RefillDoes DEF Counted
  <2>4. CASE b # buf[p]
    <3>1. Old /\ b_uptodate'[b] = b_uptodate[b]
      BY <1>3, <1>b, <2>1, <2>2, <2>4, RefillDoes DEF Counted
    <3>2. QED
      BY <1>e, <2>2, <3>1
  <2>5. QED
    BY <2>3, <2>4
<1>4. ASSUME NEW p \in Procs, NEW d \in Buffers, Writes(p, d)
      PROVE  ~b_uptodate'[b] /\ b_lock'[b] # "read"
  BY <1>4, <1>t, <1>e, <1>b DEF Writes, Types, dataVars
<1>5. ASSUME NEW p \in Procs, Reads(p) PROVE ~b_uptodate'[b] /\ b_lock'[b] # "read"
  <2>1. Old
    BY <1>5 DEF Reads, Spoil, dataVars
  <2>2. b # buf[p]
    <3>1. buf[p] \in hashed /\ b_block[buf[p]] = want[p]
      BY <1>5 DEF Reads, Counted, UsedStays
    <3>2. b = buf[p] => Evicting(want[p])
      BY <2>1, <3>1 DEF Evicting
    <3>3. Evicting(want[p]) => want[p] \in spoiled'
      BY <1>5 DEF Reads, Spoil
    <3>4. b_block' = b_block
      BY <1>5 DEF Reads
    <3>5. QED
      BY <3>1, <3>2, <3>3, <3>4
  <2>3. QED
    BY <1>5, <1>t, <1>b, <1>e, <2>1, <2>2 DEF Reads, Types
<1>6. ASSUME NEW p \in Procs, NEW d \in Buffers, NEW x \in Writable, Modify(p, d, x)
      PROVE  ~b_uptodate'[b] /\ b_lock'[b] # "read"
  <2>1. d \in hashed
    BY <1>6, <1>t, HeldBuffer DEF Modify
  <2>2. Old
    BY <1>6, <1>t, <2>1 DEF Modify, Spoil, Types, listVars
  <2>3. QED
    BY <1>6, <1>e, <2>2 DEF Modify
<1>7. ASSUME NEW d \in Buffers, Complete(d) PROVE ~b_uptodate'[b] /\ b_lock'[b] # "read"
  <2>1. Old /\ c # d
    BY <1>7, <1>t DEF Complete, Types, listVars
  <2>2. b # d
    BY <1>7, <1>t, <1>b, <1>e, <2>1 DEF Complete, Transfers, Types
  <2>3. QED
    BY <1>7, <1>t, <1>b, <1>e, <2>1, <2>2 DEF Complete, Types
<1>8. ASSUME NEW d \in Buffers, Fail(d) PROVE ~b_uptodate'[b] /\ b_lock'[b] # "read"
  BY <1>8, <1>t, <1>b, <1>e DEF Fail, Types, listVars, dataVars
<1>9. QED
  BY <1>1, <1>2, <1>e, <1>3, <1>4, <1>5, <1>6, <1>7, <1>8, DataSteps

(* The latest data of x are in a dirty buffer.                             *)
InBuffer(x) == \E b \in fresh : b_block[b] = x /\ b_dirt[b]

(* The latest data of a block stay on the disk or in a dirty buffer, and   *)
(* an up-to-date buffer that can be found has them.                        *)
LEMMA CoherentStep ==
  Counted /\ DataInv /\ [Next]_vars => Coherent'
<1> SUFFICES ASSUME Counted, DataInv, [Next]_vars,
                    NEW x \in Blocks, x \notin spoiled'
             PROVE  /\ x \in stored' \/ InBuffer(x)'
                    /\ \A b \in hashed' : b_block'[b] = x /\ b_uptodate'[b] => b \in fresh'
  BY DEF Coherent, Found, InBuffer
<1>t. Types /\ Transfers /\ HeldUptodate /\ ClaimedWritten /\ DirtyFresh /\ EvictedFirst
  BY DEF Counted, DataInv
<1> DEFINE Old == /\ x \in stored \/ InBuffer(x)
                  /\ \A b \in hashed : b_block[b] = x /\ b_uptodate[b] => b \in fresh
           New == /\ x \in stored' \/ InBuffer(x)'
                  /\ \A b \in hashed' : b_block'[b] = x /\ b_uptodate'[b] => b \in fresh'
<1>o. x \notin spoiled => Old
  BY DEF DataInv, Coherent, Found, InBuffer
<1>1. ASSUME hashed' \subseteq hashed, UNCHANGED <<b_block, b_uptodate, b_dirt, dataVars>>
      PROVE  New
  BY <1>1, <1>o DEF InBuffer, dataVars
<1>2. ASSUME NEW p \in Procs, Refill(p) PROVE New
  <2>1. stored' = stored /\ spoiled' = spoiled /\ fresh' = fresh \ {buf[p]}
    BY <1>2 DEF Refill
  <2>2. ~b_dirt[buf[p]] /\ buf[p] \notin hashed /\ ~b_uptodate'[buf[p]]
    BY <1>2, <1>t, RefillClean, RefillDoes DEF Counted
  <2>3. \A b \in Buffers \ {buf[p]} : /\ b_block'[b] = b_block[b]
                                      /\ b_dirt'[b] = b_dirt[b]
                                      /\ b_uptodate'[b] = b_uptodate[b]
    BY <1>2, RefillDoes DEF Counted
  <2>4. hashed' \subseteq hashed \cup {buf[p]}
    BY <1>2, RefillDoes DEF Counted
  <2>5. x \in stored' \/ InBuffer(x)'
    BY <1>o, <1>t, <2>1, <2>2, <2>3 DEF InBuffer, Types
  <2>6. QED
    BY <1>o, <1>t, <2>1, <2>2, <2>3, <2>4, <2>5 DEF Types
<1>3. ASSUME NEW p \in Procs, Reads(p) PROVE New
  BY <1>3, <1>o DEF Reads, Spoil, InBuffer, dataVars
<1>4. ASSUME NEW p \in Procs, NEW b \in Buffers, NEW y \in Writable, Modify(p, b, y)
      PROVE  New
  <2>1. b \in hashed /\ b_block[b] = y /\ b_uptodate[b] /\ b_dirt'[b]
    BY <1>4, <1>t, HeldBuffer DEF Modify, Types
  <2>2. /\ hashed' = hashed /\ b_block' = b_block /\ b_uptodate' = b_uptodate
        /\ \A c \in Buffers : b_dirt[c] => b_dirt'[c]
        /\ spoiled \subseteq spoiled'
    BY <1>4, <1>t DEF Modify, Spoil, Types, listVars
  <2>3. CASE x = y
    <3>1. b \in fresh'
      BY <1>4, <2>3 DEF Modify, Spoil
    <3>2. \A c \in hashed : b_block[c] = x => c = b
      BY <2>1, <2>3 DEF Counted, OneBufferEach
    <3>3. QED
      BY <2>1, <2>2, <2>3, <3>1, <3>2 DEF InBuffer
  <2>4. CASE x # y
    <3>1. /\ x \in stored => x \in stored'
          /\ \A c \in fresh : b_block[c] = x => c \in fresh'
      BY <1>4, <2>4 DEF Modify, Spoil
    <3>2. QED
      BY <1>o, <1>t, <2>2, <3>1 DEF InBuffer, Types
  <2>5. QED
    BY <2>3, <2>4
<1>5. ASSUME NEW d \in Buffers, Complete(d) PROVE New
  <2>1. /\ UNCHANGED <<hashed, b_block, spoiled>>
        /\ ~b_dirt'[d] /\ b_uptodate'[d]
        /\ \A c \in Buffers \ {d} : b_dirt'[c] = b_dirt[c] /\ b_uptodate'[c] = b_uptodate[c]
    BY <1>5, <1>t DEF Complete, Types, listVars
  <2>2. CASE b_lock[d] = "read"
    <3>1. d \in hashed /\ ~b_uptodate[d] /\ ~b_dirt[d]
      BY <1>t, <2>2 DEF Transfers
    <3>2. /\ stored' = stored
          /\ fresh' = IF b_block[d] \in stored THEN fresh \cup {d} ELSE fresh \ {d}
      BY <1>5, <2>2 DEF Complete
    <3>3. x \in stored' \/ InBuffer(x)'
      BY <1>o, <1>t, <2>1, <3>1, <3>2 DEF InBuffer, Types
    <3>4. b_block[d] = x => x \in stored
      <4>1. \A c \in Buffers \ hashed : b_block[c] = x /\ b_block[d] = x => ~b_dirt[c]
        BY <1>t, <2>1, <2>2, <3>1 DEF EvictedFirst
      <4>2. \A c \in hashed : b_block[c] = x /\ b_block[d] = x => ~b_dirt[c]
        BY <3>1 DEF Counted, OneBufferEach
      <4>3. QED
        BY <1>o, <1>t, <2>1, <4>1, <4>2 DEF InBuffer, Types
    <3>5. QED
      BY <1>o, <1>t, <2>1, <3>2, <3>3, <3>4 DEF Types
  <2>3. CASE b_lock[d] = "write"
    <3>1. b_dirt[d] /\ b_uptodate[d]
      BY <1>t, <2>3 DEF Transfers
    <3>2. /\ fresh' = fresh
          /\ stored' = IF d \in fresh THEN stored \cup {b_block[d]}
                                      ELSE stored \ {b_block[d]}
      BY <1>5, <2>3 DEF Complete
    <3>3. b_block[d] = x => x \in stored'
      BY <1>t, <2>1, <3>1, <3>2 DEF DirtyFresh
    <3>4. b_block[d] # x => (x \in stored' \/ InBuffer(x)')
      BY <1>o, <1>t, <2>1, <3>2 DEF InBuffer, Types
    <3>5. QED
      BY <1>o, <1>t, <2>1, <3>1, <3>2, <3>3, <3>4 DEF Types
  <2>4. QED
    BY <1>5, <1>t, <2>2, <2>3 DEF Complete, Types
<1>6. ASSUME NEW d \in Buffers, Fail(d) PROVE New
  BY <1>6, <1>t, <1>o DEF Fail, InBuffer, Types, listVars, dataVars
<1>7. QED
  <2>1. CASE DataSame
    BY <1>1, <2>1 DEF DataSame
  <2>2. ASSUME NEW p \in Procs, Claims(p) PROVE New
    BY <1>1, <2>2 DEF Claims, Claim, Unqueue
  <2>3. ASSUME NEW p \in Procs, NEW b \in Buffers, Writes(p, b) PROVE New
    BY <1>1, <2>3 DEF Writes
  <2>4. QED
    BY <2>1, <2>2, <2>3, <1>2, <1>3, <1>4, <1>5, <1>6, DataSteps

(* The second invariant, given the first.                                  *)
LEMMA AlwaysData == Spec => []DataInv
<1>1. Init => DataInv
  BY Constants, BlocksAssumption
     DEF Init, DataInv, Transfers, HeldUptodate, ClaimedWritten, HasClaimed, DirtyFresh,
         EvictedFirst, Coherent, Found, Buffers
<1>2. Counted /\ DataInv /\ [Next]_vars => DataInv'
  BY TransfersStep, HeldUptodateStep, ClaimedWrittenStep, DirtyFreshStep,
     EvictedFirstStep, CoherentStep DEF DataInv
<1>3. QED
  BY <1>1, <1>2, AlwaysCounted, PTL DEF Spec

(* The latest data of a block are never lost, and whoever finds the block  *)
(* finds them, whatever sleeps lie between taking a buffer, writing it out *)
(* and giving it its new block; but for the two races that are recorded.   *)
THEOREM LatestKept == Spec => []Coherent
BY AlwaysData, PTL DEF DataInv

(* What is written belongs to a block: a buffer without one is not dirty.  *)
LEMMA StoredStep ==
  Counted /\ DataInv /\ stored \subseteq Blocks /\ [Next]_vars => stored' \subseteq Blocks
<1> SUFFICES ASSUME Counted, DataInv, stored \subseteq Blocks, [Next]_vars
             PROVE  stored' \subseteq Blocks
  OBVIOUS
<1>1. ASSUME NEW b \in Buffers, Complete(b) PROVE stored' \subseteq Blocks
  <2>1. b_lock[b] # "read" => b_block[b] \in Blocks
    BY <1>1 DEF Complete, DataInv, Transfers, Counted, Types
  <2>2. QED
    BY <1>1, <2>1 DEF Complete
<1>2. QED
  BY <1>1, DataSteps DEF DataSame, Claims, Refill, Writes, Reads, Spoil, Modify, Fail,
                         dataVars

(* Every variable keeps to its range: no count goes below zero, and none   *)
(* beyond what the processes can hold and be about to get.                 *)
THEOREM TypeCorrect == Spec => []TypeOK
<1> DEFINE Inv == Counted /\ DataInv /\ stored \subseteq Blocks
<1>1. Inv => TypeOK
  <2> SUFFICES ASSUME Inv PROVE TypeOK
    OBVIOUS
  <2>1. \A b \in Buffers : b_count[b] \in 0 .. MaxCount
    <3> SUFFICES ASSUME NEW b \in Buffers PROVE b_count[b] \in 0 .. MaxCount
      OBVIOUS
    <3> DEFINE H == {p \in Procs : b \in HeldBy(p)}
               U == {p \in Procs : Uses(p, b)}
    <3>1. /\ Cardinality(H) \in Nat /\ Cardinality(H) <= Cardinality(Procs)
          /\ Cardinality(U) \in Nat /\ Cardinality(U) <= Cardinality(Procs)
      BY CountPart, Constants
    <3>2. b_count[b] = Cardinality(H) + Cardinality(U)
      BY DEF Counted, CountsUsers
    <3> HIDE DEF H, U
    <3>3. Cardinality(Procs) \in Nat
      BY Constants, FS_CardinalityType
    <3>4. 2 * Cardinality(Procs) <= MaxCount /\ MaxCount \in Nat
      <4>1. \A n \in Nat, m \in Nat \ {0} : n * (m + 1) \in Nat /\ 2 * n <= n * (m + 1)
        OBVIOUS
      <4>2. QED
        BY <3>3, <4>1, BuffersAssumption DEF MaxCount
    <3>5. QED
      BY <3>1, <3>2, <3>3, <3>4
  <2>2. QED
    BY <2>1 DEF Counted, Types, TypeOK
<1>2. Init => stored \subseteq Blocks
  BY DEF Init
<1>3. Counted /\ DataInv /\ stored \subseteq Blocks /\ [Next]_vars => (stored \subseteq Blocks)'
  BY StoredStep
<1>4. Spec => [](stored \subseteq Blocks)
  BY <1>2, <1>3, AlwaysCounted, AlwaysData, PTL DEF Spec
<1>5. QED
  BY <1>1, <1>4, AlwaysCounted, AlwaysData, PTL

-----------------------------------------------------------------------------
(* Who runs, and what a step does to processes                             *)

(* p is on the free list, in the search of getblk.                         *)
Walking(p) == pc[p] \in {"walk", "walkwait"}

(* Only p can run, and nothing else changes about the others than that     *)
(* some are woken.                                                         *)
ByOnly(p) ==
  /\ \A q \in Procs \ {p} : /\ pc[q] \notin Running
                            /\ buf'[q] = buf[q] /\ want'[q] = want[q] /\ held'[q] = held[q]

ListsStay == UNCHANGED <<b_block, listVars>>

(* p goes on with what it has, or gets something.                          *)
GoesOn(p) ==
  /\ ByOnly(p) /\ ListsStay
  /\ \A q \in Procs \ {p} : pc'[q] = pc[q]
  /\ ~Walking(p) /\ ~Walking(p)' /\ pc[p] # "asleep" /\ pc'[p] # "asleep"
  /\ HasBuffer(p) => HasBuffer(p)'
  /\ HasClaimed(p)' <=> HasClaimed(p)
  /\ HasClaimed(p) => buf'[p] = buf[p]

(* p releases a buffer, and nobody sleeps for one.                         *)
Releases(p) ==
  /\ ByOnly(p) /\ ListsStay
  /\ \A q \in Procs \ {p} : pc'[q] = IF pc[q] = "asleep" THEN "woken" ELSE pc[q]
  /\ pc[p] \notin Syncing \cup {"refill"} /\ pc'[p] \in {"out", "find"}
  /\ ~Walking(p)

(* p begins to walk the free list.                                         *)
SetsOut(p) ==
  /\ ByOnly(p) /\ ListsStay /\ UNCHANGED <<b_count, held>>
  /\ pc[p] = "find" /\ pc' = [pc EXCEPT ![p] = "walk"]
  /\ Found(want[p]) = {} /\ buf'[p] = free_list

(* p finds the buffer in use and goes to the next, or to sleep.            *)
Advances(p) ==
  /\ ByOnly(p) /\ ListsStay /\ UNCHANGED <<b_count, held>>
  /\ Walking(p) /\ b_count[buf[p]] # 0
  /\ IF next_free[buf[p]] = free_list
     THEN pc' = [pc EXCEPT ![p] = "asleep"] /\ buf'[p] = NULL
     ELSE pc' = [pc EXCEPT ![p] = "walk"] /\ buf'[p] = next_free[buf[p]]

(* p waits for the buffer it has come to.                                  *)
Halts(p) ==
  /\ ByOnly(p) /\ ListsStay /\ UNCHANGED <<b_count, held, buf>>
  /\ pc[p] = "walk" /\ pc' = [pc EXCEPT ![p] = "walkwait"]
  /\ b_count[buf[p]] = 0

(* The kernel is not preemptible.                                          *)
OneRuns == \A p, r \in Procs : pc[p] \in Running /\ pc[r] \in Running => p = r

(* While p runs, or nobody does but p, the others do not.                  *)
LEMMA OthersStill ==
  ASSUME OneRuns, NEW p \in Procs, pc[p] \in Running \/ Free(p)
  PROVE  \A q \in Procs \ {p} : pc[q] \notin Running
BY DEF OneRuns, Free

(* What a step is to the processes.                                        *)
LEMMA StepKinds ==
  ASSUME Types, Locals, OneRuns, [Next]_vars
  PROVE  \/ UNCHANGED <<procVars, b_count, listVars, b_block>>
         \/ \E p \in Procs : \/ GoesOn(p) \/ Releases(p) \/ SetsOut(p)
                             \/ Advances(p) \/ Halts(p)
                             \/ (Claims(p) \/ Refill(p)) /\ ByOnly(p)
<1> USE Constants DEF Types, Running, Waiting, Syncing, Goto, ByOnly, ListsStay
<1>b. \A p \in Procs : LocalsOf(p)
  BY DEF Locals
<1>1. ASSUME NEW p \in Procs, NEW x \in Blocks, Bread(p, x) PROVE GoesOn(p)
  <2>1. \A q \in Procs \ {p} : pc[q] \notin Running
    BY <1>1, OthersStill DEF Bread
  <2>2. QED
    BY <1>1, <2>1 DEF Bread, bufferVars, GoesOn, Walking, HasBuffer, Uses, HasClaimed
<1>2. ASSUME NEW p \in Procs, SysSync(p) PROVE GoesOn(p)
  <2>1. \A q \in Procs \ {p} : pc[q] \notin Running
    BY <1>2, OthersStill DEF SysSync
  <2>2. QED
    BY <1>2, <1>b, <2>1 DEF SysSync, bufferVars, GoesOn, Walking, HasBuffer, Uses, HasClaimed, LocalsOf
<1>3. ASSUME NEW p \in Procs, Lookup(p) PROVE GoesOn(p) \/ SetsOut(p)
  <2>1. \A q \in Procs \ {p} : pc[q] \notin Running
    BY <1>3, OthersStill DEF Lookup
  <2>2. CASE Found(want[p]) = {}
    <3>1. /\ buf' = [buf EXCEPT ![p] = free_list] /\ pc' = [pc EXCEPT ![p] = "walk"]
          /\ UNCHANGED <<b_count, b_block, listVars, want, held>> /\ pc[p] = "find"
      BY <1>3, <2>2 DEF Lookup
    <3>2. SetsOut(p)
      BY <2>1, <2>2, <3>1 DEF SetsOut
    <3>3. QED
      BY <3>2
  <2>3. CASE Found(want[p]) # {}
    <3>1. PICK b \in Found(want[p]) :
            /\ buf' = [buf EXCEPT ![p] = b]
            /\ pc' = [pc EXCEPT ![p] = IF b_lock[b] = "no" THEN "check" ELSE "hashwait"]
      BY <1>3, <2>3 DEF Lookup
    <3>2. b \in Buffers
      BY <3>1 DEF Found
    <3>3. GoesOn(p)
      BY <1>3, <2>1, <3>1, <3>2 DEF Lookup, GoesOn, Walking, HasBuffer, Uses, HasClaimed
    <3>4. QED
      BY <3>3
  <2>4. QED
    BY <2>2, <2>3
<1>4. ASSUME NEW p \in Procs, HashWake(p) PROVE GoesOn(p)
  <2>1. \A q \in Procs \ {p} : pc[q] \notin Running
    BY <1>4, OthersStill DEF HashWake, WakesFrom
  <2>2. QED
    BY <1>4, <2>1 DEF HashWake, WakesFrom, bufferVars, GoesOn, Walking, HasBuffer, Uses, HasClaimed
<1>5. ASSUME NEW p \in Procs, Check(p) PROVE GoesOn(p) \/ Releases(p)
  <2>1. \A q \in Procs \ {p} : pc[q] \notin Running
    BY <1>5, OthersStill DEF Check
  <2>2. CASE b_block[buf[p]] = want[p]
    <3>1. GoesOn(p)
      BY <1>5, <2>1, <2>2 DEF Check, GoesOn, Walking, HasBuffer, Uses, HasClaimed
    <3>2. QED
      BY <3>1
  <2>3. CASE b_block[buf[p]] # want[p]
    <3>1. Put(p, buf[p], "find")
      BY <1>5, <2>3 DEF Check
    <3>2. pc' = [q \in Procs |-> IF q = p THEN "find"
                                 ELSE IF pc[q] = "asleep" THEN "woken" ELSE pc[q]]
      BY <3>1, PutMoves
    <3>3. Releases(p)
      BY <1>5, <2>1, <2>3, <3>2 DEF Check, Releases, Walking
    <3>4. QED
      BY <3>3
  <2>4. QED
    BY <2>2, <2>3
<1>6. ASSUME NEW p \in Procs, Walk(p) PROVE Advances(p) \/ Halts(p) \/ (Claims(p) /\ ByOnly(p))
  <2>1. \A q \in Procs \ {p} : pc[q] \notin Running
    BY <1>6, OthersStill DEF Walk
  <2>2. CASE b_count[buf[p]] # 0 /\ Advance(p, buf[p])
    <3>1. Advances(p)
      BY <1>6, <2>1, <2>2 DEF Walk, Advance, Advances, Walking
    <3>2. QED
      BY <3>1
  <2>3. CASE b_count[buf[p]] = 0 /\ b_lock[buf[p]] = "no" /\ Claim(p, buf[p])
    <3>1. Claims(p) /\ ByOnly(p)
      BY <1>6, <2>1, <2>3 DEF Walk, Claims, Claim
    <3>2. QED
      BY <3>1
  <2>4. CASE /\ b_count[buf[p]] = 0 /\ b_lock[buf[p]] # "no" /\ Goto(p, "walkwait")
             /\ UNCHANGED <<b_count, listVars, buf, i>>
    <3>1. Halts(p)
      BY <1>6, <2>1, <2>4 DEF Walk, Halts
    <3>2. QED
      BY <3>1
  <2>5. QED
    BY <1>6, <2>2, <2>3, <2>4 DEF Walk
<1>7. ASSUME NEW p \in Procs, WalkWake(p) PROVE Advances(p) \/ (Claims(p) /\ ByOnly(p))
  <2>1. \A q \in Procs \ {p} : pc[q] \notin Running
    BY <1>7, OthersStill DEF WalkWake, WakesFrom
  <2>2. CASE b_count[buf[p]] # 0 /\ Advance(p, buf[p])
    <3>1. Advances(p)
      BY <1>7, <2>1, <2>2 DEF WalkWake, WakesFrom, Advance, Advances, Walking
    <3>2. QED
      BY <3>1
  <2>3. CASE b_count[buf[p]] = 0 /\ Claim(p, buf[p])
    <3>1. Claims(p) /\ ByOnly(p)
      BY <1>7, <2>1, <2>3 DEF WalkWake, WakesFrom, Claims, Claim
    <3>2. QED
      BY <3>1
  <2>4. QED
    BY <1>7, <2>2, <2>3 DEF WalkWake
<1>8. ASSUME NEW p \in Procs, Retry(p) PROVE GoesOn(p)
  <2>1. \A q \in Procs \ {p} : pc[q] \notin Running
    BY <1>8, OthersStill DEF Retry
  <2>2. QED
    BY <1>8, <1>b, <2>1 DEF Retry, bufferVars, GoesOn, Walking, HasBuffer, Uses, HasClaimed, LocalsOf
<1>9. ASSUME NEW p \in Procs, Refill(p) PROVE Refill(p) /\ ByOnly(p)
  <2>1. \A q \in Procs \ {p} : pc[q] \notin Running
    BY <1>9, OthersStill DEF Refill
  <2>2. QED
    BY <1>9, <2>1 DEF Refill
<1>10. ASSUME NEW p \in Procs, Sync(p) PROVE GoesOn(p)
  <2>1. \A q \in Procs \ {p} : pc[q] \notin Running
    BY <1>10, OthersStill DEF Sync
  <2>2. /\ pc[p] = "sync" /\ UNCHANGED <<b_block, b_count, listVars, want, buf, held>>
        /\ \/ pc' = [pc EXCEPT ![p] = IF buf[p] = NULL THEN "out" ELSE "refill"]
           \/ pc' = [pc EXCEPT ![p] = "syncwait"]
           \/ pc' = [pc EXCEPT ![p] = "writing"]
    BY <1>10 DEF Sync
  <2>3. QED
    BY <2>1, <2>2 DEF GoesOn, Walking, HasBuffer, Uses, HasClaimed
<1>11. ASSUME NEW p \in Procs, SyncWake(p) PROVE GoesOn(p)
  <2>1. \A q \in Procs \ {p} : pc[q] \notin Running
    BY <1>11, OthersStill DEF SyncWake, WakesFrom
  <2>2. QED
    BY <1>11, <2>1 DEF SyncWake, WakesFrom, bufferVars, GoesOn, Walking, HasBuffer, Uses, HasClaimed
<1>12. ASSUME NEW p \in Procs, WriteWake(p) PROVE GoesOn(p)
  <2>1. \A q \in Procs \ {p} : pc[q] \notin Running
    BY <1>12, OthersStill DEF WriteWake, WakesFrom
  <2>2. QED
    BY <1>12, <2>1 DEF WriteWake, WakesFrom, bufferVars, GoesOn, Walking, HasBuffer, Uses, HasClaimed
<1>h. ASSUME NEW p \in Procs, pc[p] \in {"got", "reading"}, Hold(p), UNCHANGED <<b_block, listVars>>,
             \A q \in Procs \ {p} : pc[q] \notin Running
      PROVE  GoesOn(p)
  <2>1. held'[p] # {} /\ pc' = [pc EXCEPT ![p] = "out"]
    BY <1>h DEF Hold
  <2>2. QED
    BY <1>h, <2>1 DEF Hold, Forget, GoesOn, Walking, HasBuffer, HasClaimed
<1>13. ASSUME NEW p \in Procs, Got(p) PROVE GoesOn(p)
  <2>1. \A q \in Procs \ {p} : pc[q] \notin Running
    BY <1>13, OthersStill DEF Got
  <2>2. CASE b_uptodate[buf[p]]
    BY <1>13, <1>h, <2>1, <2>2 DEF Got
  <2>3. CASE ~b_uptodate[buf[p]]
    BY <1>13, <2>1, <2>3 DEF Got, GoesOn, Walking, HasBuffer, Uses, HasClaimed
  <2>4. QED
    BY <2>2, <2>3
<1>14. ASSUME NEW p \in Procs, ReadWake(p) PROVE GoesOn(p) \/ Releases(p)
  <2>1. \A q \in Procs \ {p} : pc[q] \notin Running
    BY <1>14, OthersStill DEF ReadWake, WakesFrom
  <2>2. CASE b_uptodate[buf[p]]
    BY <1>14, <1>h, <2>1, <2>2 DEF ReadWake, WakesFrom
  <2>3. CASE ~b_uptodate[buf[p]]
    <3>1. Put(p, buf[p], "out")
      BY <1>14, <2>3 DEF ReadWake
    <3>2. pc' = [q \in Procs |-> IF q = p THEN "out"
                                 ELSE IF pc[q] = "asleep" THEN "woken" ELSE pc[q]]
      BY <3>1, PutMoves
    <3>3. Releases(p)
      BY <1>14, <2>1, <2>3, <3>2 DEF ReadWake, WakesFrom, Forget, Releases, Walking
    <3>4. QED
      BY <3>3
  <2>4. QED
    BY <2>2, <2>3
<1>15. ASSUME NEW p \in Procs, PutWake(p) PROVE Releases(p)
  <2>1. \A q \in Procs \ {p} : pc[q] \notin Running
    BY <1>15, OthersStill DEF PutWake, WakesFrom
  <2>2. Put(p, buf[p], "out")
    BY <1>15 DEF PutWake
  <2>3. pc' = [q \in Procs |-> IF q = p THEN "out"
                               ELSE IF pc[q] = "asleep" THEN "woken" ELSE pc[q]]
    BY <2>2, PutMoves
  <2>4. QED
    BY <1>15, <2>1, <2>3 DEF PutWake, WakesFrom, Releases, Walking
<1>16. ASSUME NEW p \in Procs, NEW b \in Buffers, NEW x \in Blocks, Brelse(p, b, x)
       PROVE  GoesOn(p) \/ Releases(p)
  <2>1. \A q \in Procs \ {p} : pc[q] \notin Running
    BY <1>16, OthersStill DEF Brelse
  <2>2. CASE b_lock[b] = "no"
    <3>1. Put(p, b, "out")
      BY <1>16, <2>2 DEF Brelse
    <3>2. pc' = [q \in Procs |-> IF q = p THEN "out"
                                 ELSE IF pc[q] = "asleep" THEN "woken" ELSE pc[q]]
      BY <3>1, PutMoves
    <3>3. Releases(p)
      BY <1>16, <2>1, <2>2, <3>2 DEF Brelse, Releases, Walking
    <3>4. QED
      BY <3>3
  <2>3. CASE b_lock[b] # "no"
    <3>1. /\ pc[p] = "out" /\ pc' = [pc EXCEPT ![p] = "putwait"] /\ buf' = [buf EXCEPT ![p] = b]
          /\ held' = [held EXCEPT ![p] = @ \ {<<b, x>>}]
          /\ UNCHANGED <<b_block, listVars, want>>
      BY <1>16, <2>3 DEF Brelse
    <3>2. HasBuffer(p)' /\ ~HasClaimed(p)' /\ ~HasClaimed(p)
      BY <3>1 DEF HasBuffer, Uses, HasClaimed
    <3>3. GoesOn(p)
      BY <2>1, <3>1, <3>2 DEF GoesOn, Walking
    <3>4. QED
      BY <3>3
  <2>4. QED
    BY <2>2, <2>3
<1>17. ASSUME NEW p \in Procs, NEW b \in Buffers, NEW x \in Writable, Modify(p, b, x)
       PROVE  UNCHANGED <<procVars, b_count, listVars, b_block>>
  BY <1>17 DEF Modify
<1>18. ASSUME NEW b \in Buffers, Complete(b) \/ Fail(b)
       PROVE  UNCHANGED <<procVars, b_count, listVars, b_block>>
  BY <1>18 DEF Complete, Fail
<1>19. CASE UNCHANGED vars
  BY <1>19 DEF vars, bufferVars
<1>20. QED
  BY <1>1, <1>2, <1>3, <1>4, <1>5, <1>6, <1>7, <1>8, <1>9, <1>10, <1>11, <1>12, <1>13,
     <1>14, <1>15, <1>16, <1>17, <1>18, <1>19 DEF Next

(* Of the processes inside the cache at most one runs.                     *)
LEMMA OneRunsStep ==
  Types /\ Locals /\ OneRuns /\ [Next]_vars => OneRuns'
<1> SUFFICES ASSUME Types, Locals, OneRuns, [Next]_vars
             PROVE  OneRuns'
  OBVIOUS
<1>1. CASE UNCHANGED <<procVars, b_count, listVars, b_block>>
  BY <1>1 DEF procVars, OneRuns
<1>2. ASSUME NEW p \in Procs, ByOnly(p),
             \A q \in Procs \ {p} : pc'[q] = pc[q] \/ pc'[q] \notin Running
      PROVE  OneRuns'
  BY <1>2 DEF ByOnly, OneRuns
<1>3. ASSUME NEW p \in Procs, GoesOn(p) \/ SetsOut(p) \/ Advances(p) \/ Halts(p)
      PROVE  ByOnly(p) /\ \A q \in Procs \ {p} : pc'[q] = pc[q]
  BY <1>3 DEF GoesOn, SetsOut, Advances, Halts, Types
<1>4. ASSUME NEW p \in Procs, Releases(p)
      PROVE  ByOnly(p) /\ \A q \in Procs \ {p} : pc'[q] = pc[q] \/ pc'[q] \notin Running
  BY <1>4 DEF Releases, Running
<1>5. ASSUME NEW p \in Procs, Claims(p) \/ Refill(p), ByOnly(p)
      PROVE  \A q \in Procs \ {p} : pc'[q] = pc[q]
  BY <1>5 DEF Claims, Claim, Refill, Goto, Types
<1>6. QED
  BY <1>1, <1>2, <1>3, <1>4, <1>5, StepKinds

(* A process that asks for a block has room for one more buffer.           *)
FewOf(p) ==
  /\ IsFiniteSet(held[p]) /\ Cardinality(held[p]) <= MaxHeld
  /\ want[p] # None => Cardinality(held[p]) < MaxHeld
HeldFew == \A p \in Procs : FewOf(p)

(* Processes hold MaxHeld buffers at most, the one they wait for included. *)
LEMMA HeldFewStep ==
  Types /\ Locals /\ HeldFew /\ [Next]_vars => HeldFew'
<1> SUFFICES ASSUME Types, Locals, HeldFew, [Next]_vars, NEW r \in Procs
             PROVE  FewOf(r)'
  BY DEF HeldFew
<1> USE DEF Types
<1>a. FewOf(r)
  BY DEF HeldFew
<1>b. \A p \in Procs : LocalsOf(p)
  BY DEF Locals
<1>c. MaxHeld \in Nat /\ Cardinality(held[r]) \in Nat
  BY <1>a, BuffersAssumption, FS_CardinalityType DEF FewOf
<1>s. ASSUME held'[r] = held[r], want'[r] = want[r] \/ want'[r] = None
      PROVE  FewOf(r)'
  BY <1>a, <1>s DEF FewOf
<1>1. ASSUME NEW p \in Procs, NEW x \in Blocks, Bread(p, x) PROVE FewOf(r)'
  BY <1>1, <1>a DEF Bread, FewOf
<1>2. ASSUME NEW p \in Procs, Hold(p), want[p] \in Blocks PROVE FewOf(r)'
  <2>1. CASE r # p
    BY <1>2, <1>s, <2>1 DEF Hold, Forget
  <2>2. CASE r = p
    <3>1. want[r] # None /\ want'[r] = None /\ held'[r] = held[r] \cup {<<buf[r], want[r]>>}
      BY <1>2, <2>2, BlocksAssumption DEF Hold, Forget
    <3>2. /\ IsFiniteSet(held'[r])
          /\ \/ Cardinality(held'[r]) = Cardinality(held[r])
             \/ Cardinality(held'[r]) = Cardinality(held[r]) + 1
      <4> DEFINE H == held[r]
                 h == <<buf[r], want[r]>>
      <4>1. IsFiniteSet(H) /\ held'[r] = H \cup {h}
        BY <1>a, <3>1 DEF FewOf
      <4> HIDE DEF H, h
      <4>2. /\ IsFiniteSet(H \cup {h})
            /\ Cardinality(H \cup {h}) = IF h \in H THEN Cardinality(H) ELSE Cardinality(H) + 1
        BY <4>1, FS_AddElement
      <4>3. QED
        BY <4>1, <4>2 DEF H
    <3>3. Cardinality(held[r]) < MaxHeld
      BY <1>a, <3>1 DEF FewOf
    <3>4. Cardinality(held'[r]) <= MaxHeld
      BY <1>c, <3>2, <3>3
    <3>5. QED
      BY <3>1, <3>2, <3>4 DEF FewOf
  <2>3. QED
    BY <2>1, <2>2
<1>3. ASSUME NEW p \in Procs, NEW b \in Buffers, NEW x \in Blocks, Brelse(p, b, x)
      PROVE  FewOf(r)'
  <2>1. want' = want /\ (r # p => held'[r] = held[r])
        /\ (r = p => held'[r] = held[r] \ {<<b, x>>})
    BY <1>3 DEF Brelse
  <2>2. CASE r # p
    BY <1>s, <2>1, <2>2
  <2>3. CASE r = p
    <3>1. /\ IsFiniteSet(held'[r])
          /\ \/ Cardinality(held'[r]) = Cardinality(held[r])
             \/ Cardinality(held'[r]) = Cardinality(held[r]) - 1
      <4> DEFINE H == held[r]
                 h == <<b, x>>
      <4>1. IsFiniteSet(H) /\ held'[r] = H \ {h}
        BY <1>a, <2>1, <2>3 DEF FewOf
      <4> HIDE DEF H, h
      <4>2. /\ IsFiniteSet(H \ {h})
            /\ Cardinality(H \ {h}) = IF h \in H THEN Cardinality(H) - 1 ELSE Cardinality(H)
        BY <4>1, FS_RemoveElement
      <4>3. QED
        BY <4>1, <4>2 DEF H
    <3>2. QED
      BY <1>a, <1>c, <2>1, <3>1 DEF FewOf
  <2>4. QED
    BY <2>2, <2>3
<1>4. ASSUME NEW p \in Procs,
             \/ SysSync(p) \/ Lookup(p) \/ HashWake(p) \/ Check(p) \/ Walk(p) \/ WalkWake(p)
             \/ Retry(p) \/ Refill(p) \/ Sync(p) \/ SyncWake(p) \/ WriteWake(p) \/ PutWake(p)
      PROVE  FewOf(r)'
  <2>1. held' = held /\ want' = want
    BY <1>4 DEF SysSync, Lookup, HashWake, Check, Walk, WalkWake, Retry, Refill, Sync,
                SyncWake, WriteWake, PutWake
  <2>2. QED
    BY <1>s, <2>1
<1>5. ASSUME NEW p \in Procs, Got(p) PROVE FewOf(r)'
  <2>1. want[p] \in Blocks
    BY <1>5, <1>b DEF Got, LocalsOf, Syncing
  <2>2. CASE b_uptodate[buf[p]]
    BY <1>2, <1>5, <2>1, <2>2 DEF Got
  <2>3. CASE ~b_uptodate[buf[p]]
    BY <1>s, <1>5, <2>3 DEF Got
  <2>4. QED
    BY <2>2, <2>3
<1>6. ASSUME NEW p \in Procs, ReadWake(p) PROVE FewOf(r)'
  <2>1. want[p] \in Blocks
    BY <1>6, <1>b DEF ReadWake, WakesFrom, LocalsOf, Syncing
  <2>2. CASE b_uptodate[buf[p]]
    BY <1>2, <1>6, <2>1, <2>2 DEF ReadWake
  <2>3. CASE ~b_uptodate[buf[p]]
    BY <1>s, <1>6, <2>3 DEF ReadWake, Forget
  <2>4. QED
    BY <2>2, <2>3
<1>7. ASSUME NEW p \in Procs, NEW b \in Buffers, NEW x \in Writable, Modify(p, b, x)
      PROVE  FewOf(r)'
  BY <1>s, <1>7 DEF Modify, procVars
<1>8. ASSUME NEW b \in Buffers, Complete(b) \/ Fail(b) PROVE FewOf(r)'
  BY <1>s, <1>8 DEF Complete, Fail, procVars
<1>9. CASE UNCHANGED vars
  BY <1>s, <1>9 DEF vars, procVars
<1>10. QED
  BY <1>1, <1>3, <1>4, <1>5, <1>6, <1>7, <1>8, <1>9 DEF Next

(* On a device that nobody changes no buffer is dirty, so that no claimant *)
(* sleeps.                                                                 *)
NothingDirty ==
  Writable = {} => /\ \A b \in Buffers : ~b_dirt[b]
                   /\ \A p \in Procs : buf[p] # NULL => pc[p] \notin Syncing

(* A buffer gets dirty by a change only, and a claimant syncs for a dirty  *)
(* buffer only.                                                            *)
LEMMA NothingDirtyStep ==
  Types /\ Locals /\ NothingDirty /\ [Next]_vars => NothingDirty'
<1> SUFFICES ASSUME Types, Locals, NothingDirty, [Next]_vars, Writable = {}
             PROVE  /\ \A b \in Buffers : ~b_dirt'[b]
                    /\ \A p \in Procs : buf'[p] # NULL => pc'[p] \notin Syncing
  BY DEF NothingDirty
<1> USE DEF Types, Syncing, Running, Waiting, Goto
<1>b. \A p \in Procs : LocalsOf(p)
  BY DEF Locals
<1>d. \A b \in Buffers : ~b_dirt[b]
  BY DEF NothingDirty
<1>p. \A p \in Procs : buf[p] # NULL => pc[p] \notin Syncing
  BY DEF NothingDirty
<1>m. ~ \E p \in Procs, b \in Buffers, x \in Writable : Modify(p, b, x)
  OBVIOUS
<1>1. \A b \in Buffers : ~b_dirt'[b]
  <2>1. ASSUME NEW p \in Procs,
               \/ \E x \in Blocks : Bread(p, x)
               \/ SysSync(p) \/ Lookup(p) \/ HashWake(p) \/ Check(p) \/ Walk(p) \/ WalkWake(p)
               \/ Retry(p) \/ Sync(p) \/ SyncWake(p) \/ WriteWake(p) \/ Got(p) \/ ReadWake(p)
               \/ PutWake(p) \/ (\E b \in Buffers, x \in Blocks : Brelse(p, b, x))
        PROVE  b_dirt' = b_dirt
    BY <2>1 DEF Bread, SysSync, Lookup, HashWake, Check, Walk, WalkWake, Retry, Sync,
                SyncWake, WriteWake, Got, ReadWake, PutWake, Brelse, bufferVars
  <2>2. ASSUME NEW p \in Procs, Refill(p)
        PROVE  b_dirt' = [b_dirt EXCEPT ![buf[p]] = FALSE]
    BY <2>2 DEF Refill
  <2>3. ASSUME NEW b \in Buffers, Complete(b)
        PROVE  b_dirt' = [b_dirt EXCEPT ![b] = FALSE]
    BY <2>3 DEF Complete
  <2>4. ASSUME NEW b \in Buffers, Fail(b)
        PROVE  b_dirt' = b_dirt
    BY <2>4 DEF Fail
  <2>5. CASE UNCHANGED vars
    BY <1>d, <2>5 DEF vars, bufferVars
  <2>6. \/ b_dirt' = b_dirt
        \/ \E b \in Buffers : b_dirt' = [b_dirt EXCEPT ![b] = FALSE]
        \/ \E p \in Procs : Refill(p)
    BY <1>m, <2>1, <2>3, <2>4, <2>5 DEF Next, vars, bufferVars
  <2>7. QED
    BY <1>d, <2>2, <2>6
<1>2. ASSUME NEW r \in Procs, buf'[r] # NULL, pc'[r] \in Syncing
      PROVE  FALSE
  <2>a. buf[r] = NULL \/ pc[r] \notin Syncing
    BY <1>p
  <2>c. ASSUME NEW p \in Procs, pc[p] \in {"walk", "walkwait"}, Claim(p, buf[p]) PROVE FALSE
    <3>1. buf[p] \in Buffers
      BY <1>b, <2>c DEF LocalsOf
    <3>2. QED
      BY <1>2, <1>d, <2>a, <2>c, <3>1 DEF Claim
  <2>o. ASSUME NEW p \in Procs, NEW b, NEW l, l \notin Syncing, Put(p, b, l),
               buf'[r] = buf[r] \/ r = p
        PROVE  FALSE
    BY <1>2, <2>a, <2>o, PutMoves
  <2>1. ASSUME NEW p \in Procs,
               \/ \E x \in Blocks : Bread(p, x)
               \/ SysSync(p) \/ Lookup(p) \/ HashWake(p) \/ Retry(p) \/ Refill(p)
        PROVE  FALSE
    BY <1>2, <1>b, <2>a, <2>1 DEF Bread, SysSync, Lookup, HashWake, WakesFrom, Retry, Refill,
       LocalsOf
  <2>2. ASSUME NEW p \in Procs, Check(p) PROVE FALSE
    BY <1>2, <2>a, <2>o, <2>2 DEF Check
  <2>3. ASSUME NEW p \in Procs, Walk(p) PROVE FALSE
    BY <1>2, <2>a, <2>c, <2>3 DEF Walk, Advance
  <2>4. ASSUME NEW p \in Procs, WalkWake(p) PROVE FALSE
    BY <1>2, <2>a, <2>c, <2>4 DEF WalkWake, WakesFrom, Advance
  <2>5. ASSUME NEW p \in Procs, Sync(p) \/ SyncWake(p) \/ WriteWake(p) PROVE FALSE
    <3>1. buf' = buf /\ pc[p] \in Syncing /\ \A q \in Procs \ {p} : pc'[q] = pc[q]
      BY <2>5 DEF Sync, SyncWake, WriteWake, WakesFrom
    <3>2. QED
      BY <1>2, <2>a, <3>1
  <2>6. ASSUME NEW p \in Procs, Got(p) PROVE FALSE
    BY <1>2, <2>a, <2>6 DEF Got, Hold, Forget
  <2>7. ASSUME NEW p \in Procs, ReadWake(p) PROVE FALSE
    BY <1>2, <2>a, <2>o, <2>7 DEF ReadWake, Hold, Forget
  <2>8. ASSUME NEW p \in Procs, PutWake(p) PROVE FALSE
    BY <1>2, <2>a, <2>o, <2>8 DEF PutWake
  <2>9. ASSUME NEW p \in Procs, NEW b \in Buffers, NEW x \in Blocks, Brelse(p, b, x)
        PROVE FALSE
    BY <1>2, <2>a, <2>o, <2>9 DEF Brelse
  <2>10. ASSUME NEW b \in Buffers, Complete(b) \/ Fail(b) PROVE FALSE
    BY <1>2, <2>a, <2>10 DEF Complete, Fail, procVars
  <2>11. CASE UNCHANGED vars
    BY <1>2, <2>a, <2>11 DEF vars, procVars
  <2>12. QED
    BY <1>m, <2>1, <2>2, <2>3, <2>4, <2>5, <2>6, <2>7, <2>8, <2>9, <2>10, <2>11 DEF Next
<1>3. QED
  BY <1>1, <1>2

-----------------------------------------------------------------------------
(* The free list                                                           *)

Listed == Buffers \ Claimed

(* The links go round the list, and there is no shorter way round.         *)
ListInv ==
  /\ free_list \in Listed
  /\ \A b \in Listed : /\ next_free[b] \in Listed /\ prev_free[next_free[b]] = b
                       /\ prev_free[b] \in Listed /\ next_free[prev_free[b]] = b
  /\ \A S \in SUBSET Listed :
       free_list \in S /\ (\A b \in S : next_free[b] \in S) => S = Listed

(* Not all buffers are claimed at once: claimants are too few, or do not   *)
(* sleep.                                                                  *)
LEMMA SomeListed == Types /\ OneRuns /\ NothingDirty => Listed # {}
<1> SUFFICES ASSUME Types, OneRuns, NothingDirty, Listed = {} PROVE FALSE
  OBVIOUS
<1> DEFINE Q == {q \in Procs : buf[q] # NULL /\ pc[q] \in Syncing \cup {"refill"}}
           f == [q \in Q |-> buf[q]]
<1>1. Buffers = {buf[q] : q \in Q}
  <2>1. Claimed \subseteq Buffers
    BY DEF Claimed, Types
  <2>2. Claimed = {buf[q] : q \in Q}
    BY DEF Claimed, Syncing
  <2>3. QED
    BY <2>1, <2>2 DEF Listed
<1>2. Cardinality(Buffers) = NR_BUFFERS
  <2>1. NR_BUFFERS \in Nat \ {0}
    BY Constants
  <2>2. Cardinality(1 .. NR_BUFFERS) = IF 1 > NR_BUFFERS THEN 0 ELSE NR_BUFFERS - 1 + 1
    BY <2>1, FS_Interval
  <2>3. QED
    BY <2>1, <2>2 DEF Buffers
<1>3. CASE NR_BUFFERS > Cardinality(Procs)
  <2>1. IsFiniteSet(Q) /\ Cardinality(Q) <= Cardinality(Procs)
    BY Constants, FS_Subset
  <2>2. f \in Surjection(Q, Buffers)
    BY <1>1 DEF Surjection
  <2> HIDE DEF f, Q
  <2>3. Cardinality(Buffers) <= Cardinality(Q)
    BY <2>1, <2>2, FS_Surjection
  <2>4. Cardinality(Q) \in Nat /\ Cardinality(Procs) \in Nat /\ NR_BUFFERS \in Nat
    BY <2>1, Constants, FS_CardinalityType
  <2>5. QED
    BY <1>2, <1>3, <2>1, <2>3, <2>4
<1>4. CASE Writable = {} /\ NR_BUFFERS > 1
  <2>1. \A q \in Q : pc[q] \in Running
    BY <1>4 DEF NothingDirty, Running
  <2>2. 1 \in Buffers /\ 2 \in Buffers
    BY <1>4, Constants DEF Buffers
  <2>3. PICK p \in Q, q \in Q : buf[p] = 1 /\ buf[q] = 2
    BY <1>1, <2>2
  <2>4. p = q
    BY <2>1 DEF OneRuns
  <2>5. QED
    BY <2>3, <2>4
<1>5. QED
  BY <1>3, <1>4, BuffersAssumption

(* Nothing is claimed or given back when the lists stay.                   *)
LEMMA ClaimedSame ==
  ASSUME Types, NEW p \in Procs,
         GoesOn(p) \/ Releases(p) \/ SetsOut(p) \/ Advances(p) \/ Halts(p)
  PROVE  Claimed' = Claimed
<1>1. \A q \in Procs : /\ HasClaimed(q)' <=> HasClaimed(q)
                       /\ HasClaimed(q) => buf'[q] = buf[q]
  <2> SUFFICES ASSUME NEW q \in Procs
               PROVE  /\ HasClaimed(q)' <=> HasClaimed(q)
                      /\ HasClaimed(q) => buf'[q] = buf[q]
    OBVIOUS
  <2>1. CASE GoesOn(p)
    BY <2>1 DEF GoesOn, ByOnly, HasClaimed
  <2>2. CASE Releases(p)
    BY <2>2 DEF Releases, ByOnly, HasClaimed, Syncing
  <2>3. CASE SetsOut(p)
    BY <2>3 DEF SetsOut, ByOnly, HasClaimed, Syncing, Types
  <2>4. CASE Advances(p)
    BY <2>4 DEF Advances, Walking, ByOnly, HasClaimed, Syncing, Types
  <2>5. CASE Halts(p)
    BY <2>5 DEF Halts, ByOnly, HasClaimed, Syncing, Types
  <2>6. QED
    BY <2>1, <2>2, <2>3, <2>4, <2>5
<1>2. Claimed = {buf[q] : q \in {r \in Procs : HasClaimed(r)}}
  BY DEF Claimed, HasClaimed, Syncing
<1>3. Claimed' = {buf'[q] : q \in {r \in Procs : HasClaimed(r)'}}
  BY DEF Claimed, HasClaimed, Syncing
<1>4. QED
  BY <1>1, <1>2, <1>3

(* remove_from_queues takes a buffer out of the ring.                      *)
LEMMA RingWithout ==
  ASSUME Types, ListInv, NEW b \in Listed, Listed' = Listed \ {b}, Listed' # {}, Unqueue(b)
  PROVE  ListInv'
<1> USE DEF Types
<1>t. Listed \subseteq Buffers
  BY DEF Listed
<1>l. \A x \in Listed : /\ next_free[x] \in Listed /\ prev_free[next_free[x]] = x
                        /\ prev_free[x] \in Listed /\ next_free[prev_free[x]] = x
  BY DEF ListInv
<1>c. \A S \in SUBSET Listed :
        free_list \in S /\ (\A x \in S : next_free[x] \in S) => S = Listed
  BY DEF ListInv
<1> DEFINE prev == prev_free[b]
           next == next_free[b]
<1>1. next # b
  <2> SUFFICES ASSUME next = b PROVE FALSE
    OBVIOUS
  <2>1. prev = b
    BY <1>l
  <2>2. CASE free_list = b
    <3>1. {b} = Listed
      <4> DEFINE T == {b}
      <4>1. T \in SUBSET Listed /\ free_list \in T /\ \A x \in T : next_free[x] \in T
        BY <2>2
      <4> HIDE DEF T
      <4>2. T = Listed
        BY <1>c, <4>1
      <4>3. QED
        BY <4>2 DEF T
    <3>2. QED
      BY <3>1
  <2>3. CASE free_list # b
    <3>1. \A x \in Listed \ {b} : next_free[x] \in Listed \ {b}
      BY <1>l, <2>1
    <3>2. Listed \ {b} = Listed
      BY <1>c, <2>3, <3>1 DEF ListInv
    <3>3. QED
      BY <3>2
  <2>4. QED
    BY <2>2, <2>3
<1>2. prev # b /\ prev \in Listed' /\ next \in Listed'
  BY <1>1, <1>l
<1>3. /\ next_free' = [next_free EXCEPT ![prev] = next]
      /\ prev_free' = [prev_free EXCEPT ![next] = prev]
      /\ free_list' = IF free_list = b THEN next ELSE free_list
  BY DEF Unqueue
<1>n. next_free[prev] = b /\ prev_free[next] = b
  BY <1>l
<1> HIDE DEF prev, next
<1>4. /\ \A x \in Listed' : next_free'[x] = IF x = prev THEN next ELSE next_free[x]
      /\ \A x \in Listed' : prev_free'[x] = IF x = next THEN prev ELSE prev_free[x]
  BY <1>t, <1>3
<1>5. free_list' \in Listed'
  BY <1>2, <1>3 DEF ListInv
<1>6. \A x \in Listed' : x # prev => next_free[x] \in Listed' /\ next_free[x] # next
  BY <1>l, <1>n DEF prev
<1>7. \A x \in Listed' : x # next => prev_free[x] \in Listed' /\ prev_free[x] # prev
  BY <1>l, <1>n DEF next
<1>8. ASSUME NEW x \in Listed'
      PROVE  /\ next_free'[x] \in Listed' /\ prev_free'[next_free'[x]] = x
             /\ prev_free'[x] \in Listed' /\ next_free'[prev_free'[x]] = x
  <2>1. next_free'[x] \in Listed' /\ prev_free'[next_free'[x]] = x
    BY <1>2, <1>4, <1>6, <1>l
  <2>2. prev_free'[x] \in Listed' /\ next_free'[prev_free'[x]] = x
    BY <1>2, <1>4, <1>7, <1>l
  <2>3. QED
    BY <2>1, <2>2
<1>9. ASSUME NEW S \in SUBSET Listed', free_list' \in S, \A x \in S : next_free'[x] \in S
      PROVE  S = Listed'
  <2>1. CASE prev \in S \/ free_list = b
    <3>1. next \in S
      BY <1>2, <1>3, <1>4, <1>9, <2>1
    <3>2. free_list \in S \cup {b}
      BY <1>3, <1>9
    <3>3. \A x \in S \cup {b} : next_free[x] \in S \cup {b}
      BY <1>4, <1>9, <1>n, <3>1 DEF next
    <3>4. S \cup {b} = Listed
      <4> DEFINE T == S \cup {b}
      <4>1. T \in SUBSET Listed
        BY <1>9
      <4>2. free_list \in T /\ \A x \in T : next_free[x] \in T
        BY <3>2, <3>3
      <4> HIDE DEF T
      <4>3. T = Listed
        BY <1>c, <4>1, <4>2
      <4>4. QED
        BY <4>3 DEF T
    <3>5. QED
      BY <3>4
  <2>2. CASE prev \notin S /\ free_list # b
    <3>1. free_list \in S /\ \A x \in S : next_free[x] \in S
      BY <1>3, <1>4, <1>9, <2>2
    <3>2. S = Listed
      BY <1>c, <3>1
    <3>3. QED
      BY <3>2
  <2>3. QED
    BY <2>1, <2>2
<1>10. QED
  BY <1>5, <1>8, <1>9 DEF ListInv

(* insert_into_queues puts a buffer at the end of the ring.                *)
LEMMA RingWith ==
  ASSUME Types, ListInv, NEW b \in Buffers, b \notin Listed, Listed' = Listed \cup {b},
         NEW e, Enqueue(b, e)
  PROVE  ListInv'
<1> USE DEF Types
<1>t. Listed \subseteq Buffers
  BY DEF Listed
<1>l. \A x \in Listed : /\ next_free[x] \in Listed /\ prev_free[next_free[x]] = x
                        /\ prev_free[x] \in Listed /\ next_free[prev_free[x]] = x
  BY DEF ListInv
<1>c. \A S \in SUBSET Listed :
        free_list \in S /\ (\A x \in S : next_free[x] \in S) => S = Listed
  BY DEF ListInv
<1>f. free_list \in Listed
  BY DEF ListInv
<1> DEFINE last == prev_free[free_list]
<1>1. last \in Listed /\ last # b /\ next_free[last] = free_list /\ free_list # b
  BY <1>l, <1>f
<1>2. /\ next_free' = [next_free EXCEPT ![b] = free_list, ![last] = b]
      /\ prev_free' = [prev_free EXCEPT ![b] = last, ![free_list] = b]
      /\ free_list' = free_list
  BY DEF Enqueue
<1>3. \A x \in Listed : /\ x # last => next_free[x] # free_list
                        /\ x # free_list => prev_free[x] # last
  BY <1>l, <1>f
<1> HIDE DEF last
<1>4. /\ next_free'[b] = free_list /\ prev_free'[b] = last
      /\ \A x \in Listed : next_free'[x] = IF x = last THEN b ELSE next_free[x]
      /\ \A x \in Listed : prev_free'[x] = IF x = free_list THEN b ELSE prev_free[x]
  BY <1>1, <1>2, <1>f, <1>t
<1>5. ASSUME NEW x \in Listed'
      PROVE  /\ next_free'[x] \in Listed' /\ prev_free'[next_free'[x]] = x
             /\ prev_free'[x] \in Listed' /\ next_free'[prev_free'[x]] = x
  <2>1. CASE x = b
    BY <1>1, <1>4, <1>f, <2>1
  <2>2. CASE x \in Listed
    BY <1>1, <1>3, <1>4, <1>f, <1>l, <2>2
  <2>3. QED
    BY <2>1, <2>2
<1>6. ASSUME NEW S \in SUBSET Listed', free_list' \in S, \A x \in S : next_free'[x] \in S
      PROVE  S = Listed'
  <2>1. free_list \in S \ {b}
    BY <1>1, <1>2, <1>6
  <2>2. \A x \in S \ {b} : next_free[x] \in S \ {b}
    BY <1>1, <1>4, <1>6, <1>l, <2>1
  <2>3. S \ {b} = Listed
    BY <1>c, <2>1, <2>2
  <2>4. b \in S
    BY <1>1, <1>4, <1>6, <2>3
  <2>5. QED
    BY <2>3, <2>4
<1>7. free_list' \in Listed'
  BY <1>2, <1>f
<1>8. QED
  BY <1>5, <1>6, <1>7 DEF ListInv

(* A buffer that is claimed has its claimant as its user.                  *)
LEMMA ClaimedUsed ==
  ASSUME Types, NEW b \in Buffers
  PROVE  b \in Claimed <=> \E q \in Procs : HasClaimed(q) /\ Uses(q, b)
BY DEF Claimed, HasClaimed, Uses, Syncing

(* The free list stays a ring of the buffers that are not claimed.         *)
LEMMA ListInvStep ==
  Counted /\ OneRuns /\ NothingDirty /\ ListInv /\ [Next]_vars => ListInv'
<1> SUFFICES ASSUME Counted, OneRuns, NothingDirty, ListInv, [Next]_vars
             PROVE  ListInv'
  OBVIOUS
<1>1. Types /\ Locals /\ Types' /\ Counted' /\ OneRuns' /\ NothingDirty' /\ CountsUsers
  BY CountedStep, OneRunsStep, NothingDirtyStep DEF Counted
<1>s. ASSUME UNCHANGED listVars, Claimed' = Claimed
      PROVE  ListInv'
  BY <1>s DEF listVars, ListInv, Listed
<1>2. CASE UNCHANGED <<procVars, b_count, listVars, b_block>>
  <2>1. Claimed' = Claimed
    BY <1>2 DEF procVars, Claimed
  <2>2. QED
    BY <1>2, <1>s, <2>1
<1>3. ASSUME NEW p \in Procs,
             GoesOn(p) \/ Releases(p) \/ SetsOut(p) \/ Advances(p) \/ Halts(p)
      PROVE  ListInv'
  <2>1. UNCHANGED listVars
    BY <1>3 DEF GoesOn, Releases, SetsOut, Advances, Halts, ListsStay
  <2>2. QED
    BY <1>1, <1>3, <1>s, <2>1, ClaimedSame
<1>4. ASSUME NEW p \in Procs, Claims(p)
      PROVE  ListInv'
  <2>1. PICK b \in Buffers : b = buf[p]
    BY <1>1, <1>4 DEF Claims, Locals, LocalsOf
  <2>2. b \notin Claimed
    BY <1>1, <1>4, <2>1, ClaimedUsed, Unused DEF Claims
  <2>3. /\ Unqueue(b) /\ buf' = buf /\ \A q \in Procs \ {p} : pc'[q] = pc[q]
        /\ pc[p] \in {"walk", "walkwait"} /\ pc'[p] \in {"sync", "refill"}
    BY <1>1, <1>4, <2>1 DEF Claims, Claim, Goto, Types
  <2>4. \A q \in Procs : HasClaimed(q)' <=> HasClaimed(q) \/ q = p
    BY <2>1, <2>3, Constants DEF HasClaimed, Syncing
  <2>5. \A c \in Buffers : c \in Claimed' <=> c \in Claimed \/ c = b
    <3>1. \A c \in Buffers : c \in Claimed <=> \E q \in Procs : HasClaimed(q) /\ buf[q] = c
      BY DEF Claimed, HasClaimed, Syncing
    <3>2. \A c \in Buffers : c \in Claimed' <=> \E q \in Procs : HasClaimed(q)' /\ buf'[q] = c
      BY DEF Claimed, HasClaimed, Syncing
    <3>3. QED
      BY <2>1, <2>3, <2>4, <3>1, <3>2
  <2>6. b \in Listed /\ Listed' = Listed \ {b}
    BY <2>2, <2>5 DEF Listed, Buffers
  <2>7. (Listed # {})'
    BY <1>1, SomeListed, PTL
  <2>8. QED
    BY <1>1, <2>3, <2>6, <2>7, RingWithout
<1>5. ASSUME NEW p \in Procs, Refill(p)
      PROVE  ListInv'
  <2>1. PICK b \in Buffers : b = buf[p] /\ HasClaimed(p)
    BY <1>5, RefillDoes DEF Counted
  <2>2. /\ \E e : Enqueue(b, e)
        /\ \A q \in Procs \ {p} : pc'[q] = pc[q] /\ buf'[q] = buf[q]
        /\ pc'[p] \in {"find", "got"}
    BY <1>1, <1>5, <2>1 DEF Refill, Goto, Types
  <2>3. \A q \in Procs : HasClaimed(q)' <=> HasClaimed(q) /\ q # p
    BY <2>2 DEF HasClaimed, Syncing
  <2>4. \A q \in Procs : HasClaimed(q) /\ buf[q] = b => q = p
    BY <2>1 DEF Counted, ClaimedAlone
  <2>5. \A c \in Buffers : c \in Claimed' <=> c \in Claimed /\ c # b
    <3>1. \A c \in Buffers : c \in Claimed <=> \E q \in Procs : HasClaimed(q) /\ buf[q] = c
      BY DEF Claimed, HasClaimed, Syncing
    <3>2. \A c \in Buffers : c \in Claimed' <=> \E q \in Procs : HasClaimed(q)' /\ buf'[q] = c
      BY DEF Claimed, HasClaimed, Syncing
    <3>3. QED
      BY <2>1, <2>2, <2>3, <2>4, <3>1, <3>2
  <2>6. b \notin Listed /\ Listed' = Listed \cup {b}
    <3>1. b \in Claimed
      BY <2>1 DEF Claimed, HasClaimed, Syncing
    <3>2. QED
      BY <2>5, <3>1 DEF Listed, Buffers
  <2>7. QED
    BY <1>1, <2>2, <2>6, RingWith
<1>6. QED
  BY <1>1, <1>2, <1>3, <1>4, <1>5, StepKinds

(* buffer_init links all buffers.                                          *)
LEMMA InitList == Init => OneRuns /\ HeldFew /\ NothingDirty /\ ListInv
<1> SUFFICES ASSUME Init PROVE OneRuns /\ HeldFew /\ NothingDirty /\ ListInv
  OBVIOUS
<1>1. OneRuns /\ NothingDirty
  BY DEF Init, OneRuns, Running, NothingDirty
<1>2. HeldFew
  <2>1. IsFiniteSet({}) /\ Cardinality({}) = 0
    BY FS_EmptySet
  <2>2. QED
    BY <2>1, BuffersAssumption DEF Init, HeldFew, FewOf
<1>3. Listed = Buffers
  BY DEF Init, Listed, Claimed
<1>4. free_list \in Buffers
  BY Constants DEF Init
<1>5. ASSUME NEW b \in Buffers
      PROVE  /\ next_free[b] \in Buffers /\ prev_free[next_free[b]] = b
             /\ prev_free[b] \in Buffers /\ next_free[prev_free[b]] = b
  <2>1. next_free[b] = (IF b = NR_BUFFERS THEN 1 ELSE b + 1) /\ next_free[b] \in Buffers
    BY Constants DEF Init, Buffers
  <2>2. prev_free[b] = (IF b = 1 THEN NR_BUFFERS ELSE b - 1) /\ prev_free[b] \in Buffers
    BY Constants DEF Init, Buffers
  <2>3. QED
    BY <2>1, <2>2, Constants DEF Init, Buffers
<1>6. ASSUME NEW S \in SUBSET Buffers, free_list \in S, \A b \in S : next_free[b] \in S
      PROVE  S = Buffers
  <2> DEFINE T == Buffers \ S
  <2>1. SUFFICES ASSUME T # {} PROVE FALSE
    OBVIOUS
  <2>2. T \in SUBSET Nat
    BY Constants DEF Buffers
  <2>3. PICK b \in T : \A c \in T : b <= c
    BY <2>1, <2>2, NatMin
  <2>4. b # 1 /\ b \in 1 .. NR_BUFFERS
    BY <1>6 DEF Init, Buffers
  <2>5. b - 1 \in Buffers /\ b - 1 # NR_BUFFERS
    BY <2>4, Constants DEF Buffers
  <2>6. b - 1 \in S
    BY <2>3, <2>4, <2>5
  <2>7. next_free[b - 1] = b
    BY <2>4, <2>5 DEF Init
  <2>8. QED
    BY <1>6, <2>6, <2>7
<1>7. ListInv
  BY <1>3, <1>4, <1>5, <1>6 DEF ListInv
<1>8. QED
  BY <1>1, <1>2, <1>7

(* What is reached from free_list in n steps, as FreeListWhole defines it. *)
Reach(g) ==
  g = [n \in 0 .. NR_BUFFERS |->
         IF n = 0 THEN {free_list} ELSE g[n - 1] \cup {next_free[b] : b \in g[n - 1]}]

(* There is such a function: each step adds one more value.                *)
LEMMA SomeReach == \E g : Reach(g)
<1> DEFINE Step(s) == s \cup {next_free[b] : b \in s}
           Upto(g, k) == /\ g = [n \in 0 .. k |-> g[n]]
                         /\ g[0] = {free_list}
                         /\ \A n \in 1 .. k : g[n] = Step(g[n - 1])
           Bad == {k \in Nat : ~ \E g : Upto(g, k)}
<1>1. Bad = {}
  <2>1. SUFFICES ASSUME Bad # {} PROVE FALSE
    OBVIOUS
  <2>2. PICK k \in Bad : \A m \in Bad : k <= m
    <3>1. Bad \in SUBSET Nat
      OBVIOUS
    <3> HIDE DEF Bad
    <3>2. QED
      BY <2>1, <3>1, NatMin
  <2>3. CASE k = 0
    <3> DEFINE g == [n \in 0 .. 0 |-> {free_list}]
    <3>1. Upto(g, 0)
      OBVIOUS
    <3>2. QED
      BY <2>2, <2>3, <3>1
  <2>4. CASE k # 0
    <3>1. k \in Nat /\ k - 1 \in Nat
      BY <2>4
    <3>2. PICK f : Upto(f, k - 1)
      <4>1. ~(k <= k - 1)
        BY <3>1
      <4>2. k - 1 \notin Bad
        BY <2>2, <4>1
      <4>3. QED
        BY <3>1, <4>2
    <3> DEFINE s == Step(f[k - 1])
    <3> HIDE DEF Step
    <3> DEFINE g == [n \in 0 .. k |-> IF n = k THEN s ELSE f[n]]
    <3>3. g = [n \in 0 .. k |-> g[n]] /\ g[0] = {free_list}
      BY <2>4, <3>1, <3>2
    <3>4. \A n \in 1 .. k : g[n] = Step(g[n - 1])
      <4>1. SUFFICES ASSUME NEW n \in 1 .. k PROVE g[n] = Step(g[n - 1])
        OBVIOUS
      <4>2. g[n - 1] = f[n - 1]
        BY <3>1
      <4>3. CASE n = k
        BY <4>2, <4>3
      <4>4. CASE n # k
        <5>1. g[n] = f[n] /\ n \in 1 .. k - 1
          BY <3>1, <4>4
        <5>2. QED
          BY <3>2, <4>2, <5>1
      <4>5. QED
        BY <4>3, <4>4
    <3> HIDE DEF g
    <3>5. Upto(g, k)
      BY <3>3, <3>4
    <3>6. QED
      BY <2>2, <3>5
  <2>5. QED
    BY <2>3, <2>4
<1>2. NR_BUFFERS \in Nat
  BY Constants
<1>3. PICK g : Upto(g, NR_BUFFERS)
  BY <1>1, <1>2
<1>4. \A n \in 0 .. NR_BUFFERS :
        g[n] = IF n = 0 THEN {free_list} ELSE Step(g[n - 1])
  <2>1. \A n \in 0 .. NR_BUFFERS : n # 0 => n \in 1 .. NR_BUFFERS
    BY <1>2
  <2> HIDE DEF Step
  <2>2. QED
    BY <1>3, <2>1
<1>5. g = [n \in 0 .. NR_BUFFERS |-> IF n = 0 THEN {free_list} ELSE Step(g[n - 1])]
  BY <1>3, <1>4
<1>6. QED
  BY <1>5 DEF Reach

(* All that is listed is reached, since every step reaches one more or     *)
(* there is nothing more.                                                  *)
LEMMA ReachAll ==
  ASSUME Types, ListInv, NEW g, Reach(g)
  PROVE  g[NR_BUFFERS] = Listed
<1> DEFINE Step(s) == s \cup {next_free[b] : b \in s}
           Bad == {k \in 0 .. NR_BUFFERS :
                     ~ /\ g[k] \in SUBSET Listed
                       /\ g[k] = Listed \/ Cardinality(g[k]) > k
                       /\ free_list \in g[k]}
<1>c. NR_BUFFERS \in Nat
  BY Constants
<1>f. IsFiniteSet(Listed) /\ Cardinality(Listed) <= NR_BUFFERS /\ Cardinality(Listed) \in Nat
  <2>1. Listed \in SUBSET (1 .. NR_BUFFERS)
    BY DEF Listed, Buffers
  <2>2. IsFiniteSet(1 .. NR_BUFFERS) /\ Cardinality(1 .. NR_BUFFERS) = NR_BUFFERS
    BY <1>c, FS_Interval
  <2>3. QED
    BY <2>1, <2>2, FS_Subset, FS_CardinalityType
<1>1. ASSUME NEW n \in 0 .. NR_BUFFERS
      PROVE  g[n] = IF n = 0 THEN {free_list} ELSE Step(g[n - 1])
  BY Zenon DEF Reach
<1>2. Bad = {}
  <2>1. SUFFICES ASSUME Bad # {} PROVE FALSE
    OBVIOUS
  <2>2. PICK k \in Bad : \A m \in Bad : k <= m
    <3>1. Bad \in SUBSET Nat
      BY <1>c
    <3> HIDE DEF Bad
    <3>2. QED
      BY <2>1, <3>1, NatMin
  <2>3. k \in 0 .. NR_BUFFERS
    OBVIOUS
  <2>4. CASE k = 0
    <3>1. g[k] = {free_list}
      BY <1>1, <2>3, <2>4
    <3>2. Cardinality({free_list}) = 1 /\ free_list \in Listed
      BY FS_Singleton DEF ListInv
    <3>3. QED
      BY <2>4, <3>1, <3>2
  <2>5. CASE k # 0
    <3> DEFINE s == g[k - 1]
               t == g[k]
    <3>1. k - 1 \in 0 .. NR_BUFFERS /\ k - 1 \notin Bad
      BY <1>c, <2>2, <2>3, <2>5
    <3>2. /\ s \in SUBSET Listed /\ free_list \in s
          /\ s = Listed \/ Cardinality(s) > k - 1
      BY <3>1
    <3>3. t = s \cup {next_free[b] : b \in s}
      BY <1>1, <2>3, <2>5
    <3> HIDE DEF s, t, Step
    <3>4. s \subseteq t /\ t \in SUBSET Listed /\ free_list \in t
      BY <3>2, <3>3 DEF ListInv
    <3>5. IsFiniteSet(t) /\ Cardinality(t) \in Nat
      BY <1>f, <3>4, FS_Subset, FS_CardinalityType
    <3>6. IsFiniteSet(s) /\ Cardinality(s) \in Nat /\ Cardinality(s) <= Cardinality(t)
          /\ (Cardinality(s) = Cardinality(t) => s = t)
      <4>1. IsFiniteSet(s) /\ Cardinality(s) <= Cardinality(t)
            /\ (Cardinality(t) = Cardinality(s) => t = s)
        BY <3>4, <3>5, FS_Subset
      <4>2. QED
        BY <4>1, FS_CardinalityType
    <3>7. s = t => s = Listed
      BY <3>2, <3>3, SMTT(60) DEF ListInv
    <3>8. t = Listed \/ Cardinality(t) > k
      <4>1. CASE s = Listed
        BY <3>4, <4>1
      <4>2. CASE s # Listed
        <5>1. Cardinality(s) > k - 1 /\ Cardinality(s) # Cardinality(t)
          BY <3>2, <3>6, <3>7, <4>2
        <5>2. QED
          BY <2>3, <3>5, <3>6, <5>1
      <4>3. QED
        BY <4>1, <4>2
    <3>9. QED
      BY <3>4, <3>8 DEF t
  <2>6. QED
    BY <2>4, <2>5
<1>3. NR_BUFFERS \in 0 .. NR_BUFFERS /\ NR_BUFFERS \notin Bad
  BY <1>2, <1>c
<1> DEFINE u == g[NR_BUFFERS]
<1>4. u \in SUBSET Listed /\ (u = Listed \/ Cardinality(u) > NR_BUFFERS)
  BY <1>3
<1> HIDE DEF u, Bad
<1>5. Cardinality(u) <= Cardinality(Listed) /\ Cardinality(u) \in Nat
  BY <1>f, <1>4, FS_Subset, FS_CardinalityType
<1>6. u = Listed
  BY <1>c, <1>f, <1>4, <1>5
<1>7. QED
  BY <1>6 DEF u

(* The links of the free list as FreeListWhole has them.                   *)
LEMMA ListIsWhole == Types /\ ListInv => FreeListWhole
<1> SUFFICES ASSUME Types, ListInv PROVE FreeListWhole
  OBVIOUS
<1> DEFINE f == CHOOSE g : Reach(g)
<1>1. Reach(f)
  BY SomeReach
<1> HIDE DEF f
<1>2. f[NR_BUFFERS] = Buffers \ Claimed
  BY <1>1, ReachAll DEF Listed
<1>3. \A b \in Buffers \ Claimed : prev_free[next_free[b]] = b
  BY DEF ListInv, Listed
<1>4. QED
  BY <1>2, <1>3, Zenon DEF FreeListWhole, Reach, f

(* The second invariant of the lists.                                      *)
LEMMA AlwaysListed == Spec => [](Counted /\ OneRuns /\ HeldFew /\ NothingDirty /\ ListInv)
<1>1. Init => Counted /\ OneRuns /\ HeldFew /\ NothingDirty /\ ListInv
  BY InitCounted, InitList
<1>2. Counted /\ OneRuns /\ HeldFew /\ NothingDirty /\ ListInv /\ [Next]_vars
      => (Counted /\ OneRuns /\ HeldFew /\ NothingDirty /\ ListInv)'
  BY CountedStep, OneRunsStep, HeldFewStep, NothingDirtyStep, ListInvStep DEF Counted
<1>3. QED
  BY <1>1, <1>2, PTL DEF Spec

(* remove_from_queues and insert_into_queues keep the free list a ring of  *)
(* all buffers but those that getblk has taken out and not given a block,  *)
(* whatever is done while getblk sleeps in sync_dev.                       *)
THEOREM ListWhole == Spec => []FreeListWhole
<1>1. Counted /\ ListInv => FreeListWhole
  BY ListIsWhole DEF Counted
<1>2. QED
  BY <1>1, AlwaysListed, PTL

-----------------------------------------------------------------------------
(* The sleepers                                                            *)

(* p is on its way, and may be relied upon.                                *)
OnItsWay(p) == ~Walking(p) /\ pc[p] # "asleep" /\ HasBuffer(p)

(* A buffer with a b_count has a user.                                     *)
LEMMA HasUser ==
  ASSUME Types, CountsUsers, NEW b \in Buffers, b_count[b] # 0
  PROVE  \E q \in Procs : b \in HeldBy(q) \/ Uses(q, b)
<1> SUFFICES ASSUME \A q \in Procs : b \notin HeldBy(q) /\ ~Uses(q, b)
             PROVE  FALSE
  OBVIOUS
<1>1. {p \in Procs : b \in HeldBy(p)} = {} /\ {p \in Procs : Uses(p, b)} = {}
  OBVIOUS
<1>2. b_count[b] = Cardinality({p \in Procs : b \in HeldBy(p)})
                     + Cardinality({p \in Procs : Uses(p, b)})
  BY DEF CountsUsers
<1>3. b_count[b] = 0
  BY <1>1, <1>2, FS_EmptySet
<1>4. QED
  BY <1>3

(* When all buffers are used, somebody is on its way: those that wait for  *)
(* a buffer do not hold them all.                                          *)
LEMMA SomebodyMoves ==
  ASSUME Types, Locals, CountsUsers, HeldFew, \A b \in Buffers : b_count[b] # 0
  PROVE  \E p \in Procs : OnItsWay(p)
<1> SUFFICES ASSUME \A p \in Procs : ~OnItsWay(p) PROVE FALSE
  OBVIOUS
<1> DEFINE f == [p \in Procs |-> IF Walking(p) \/ pc[p] = "asleep" THEN HeldBy(p) ELSE {}]
           m == MaxHeld - 1
<1>1. m \in Nat
  BY BuffersAssumption
<1>2. ASSUME NEW p \in Procs
      PROVE  IsFiniteSet(f[p]) /\ Cardinality(f[p]) <= m
  <2>1. CASE Walking(p) \/ pc[p] = "asleep"
    <3> DEFINE H == held[p]
               T == HeldBy(p)
               g == [h \in H |-> h[1]]
    <3>1. IsFiniteSet(H) /\ Cardinality(H) < MaxHeld
      <4>1. want[p] \in Blocks
        BY <2>1 DEF Locals, LocalsOf, Walking, Syncing
      <4>2. QED
        BY <4>1, BlocksAssumption DEF HeldFew, FewOf
    <3>2. g \in Surjection(H, T)
      BY DEF HeldBy, Surjection
    <3> HIDE DEF H, T, g
    <3>3. IsFiniteSet(T) /\ Cardinality(T) <= Cardinality(H)
      BY <3>1, <3>2, FS_Surjection
    <3>4. Cardinality(T) \in Nat /\ Cardinality(H) \in Nat
      BY <3>1, <3>3, FS_CardinalityType
    <3>5. Cardinality(T) <= m
      BY <3>1, <3>3, <3>4, BuffersAssumption
    <3>6. QED
      BY <2>1, <3>3, <3>5 DEF T
  <2>2. CASE ~(Walking(p) \/ pc[p] = "asleep")
    BY <1>1, <2>2, FS_EmptySet
  <2>3. QED
    BY <2>1, <2>2
<1>3. Buffers = UNION {f[p] : p \in Procs}
  <2>1. ASSUME NEW b \in Buffers
        PROVE  b \in UNION {f[p] : p \in Procs}
    <3>1. PICK q \in Procs : b \in HeldBy(q) \/ Uses(q, b)
      BY <2>1, HasUser
    <3>2. HasBuffer(q)
      BY <2>1, <3>1 DEF HasBuffer, HeldBy
    <3>3. Walking(q) \/ pc[q] = "asleep"
      BY <3>2 DEF OnItsWay
    <3>4. ~Uses(q, b)
      BY <3>3, Constants DEF Uses, Walking, Locals, LocalsOf
    <3>5. QED
      BY <3>1, <3>3, <3>4
  <2>2. ASSUME NEW p \in Procs
        PROVE  f[p] \subseteq Buffers
    BY DEF HeldBy, Types
  <2>3. QED
    BY <2>1, <2>2
<1>4. Cardinality(Buffers) = NR_BUFFERS
  <2>1. NR_BUFFERS \in Nat \ {0}
    BY Constants
  <2>2. Cardinality(1 .. NR_BUFFERS) = IF 1 > NR_BUFFERS THEN 0 ELSE NR_BUFFERS - 1 + 1
    BY <2>1, FS_Interval
  <2>3. QED
    BY <2>1, <2>2 DEF Buffers
<1> HIDE DEF f
<1>5. Cardinality(UNION {f[p] : p \in Procs}) <= Cardinality(Procs) * m
  <2> HIDE DEF m
  <2>1. QED
    BY <1>1, <1>2, Constants, UnionFew
<1>6. NR_BUFFERS <= Cardinality(Procs) * (MaxHeld - 1)
  BY <1>3, <1>4, <1>5
<1>7. Cardinality(Procs) \in Nat
  BY Constants, FS_CardinalityType
<1>8. Cardinality(Procs) * (MaxHeld - 1) \in Nat
  BY <1>1, <1>7
<1>9. QED
  BY <1>6, <1>8, BuffersAssumption

(* v may rely on somebody with a buffer: one on its way, or one that       *)
(* walks and set out after v did.                                          *)
Relies(R, v) ==
  \E q \in Procs : pc[q] # "asleep" /\ HasBuffer(q) /\ (Walking(q) => <<q, v>> \in R)

(* v has walked from free_list to its buffer over buffers in use.          *)
Passed(v) ==
  /\ buf[v] \in Listed
  /\ \E P \in SUBSET Listed :
       /\ \A b \in P : b_count[b] # 0
       /\ free_list \in P \cup {buf[v]}
       /\ \A b \in P : next_free[b] \in P \cup {buf[v]}

(* R orders processes by their last walk, the latest first.                *)
IsOrder(R) ==
  /\ R \subseteq Procs \X Procs
  /\ \A p \in Procs : <<p, p>> \notin R
  /\ \A p, q, r \in Procs : <<p, q>> \in R /\ <<q, r>> \in R => <<p, r>> \in R

(* A sleeper relies on somebody.  The buffer at which v waits was free     *)
(* when v came to it: who holds it and walks or sleeps has set out since.  *)
RankedBy(R) ==
  /\ \A v \in Procs : pc[v] = "asleep" => Relies(R, v)
  /\ \A u, v \in Procs :
       pc[v] = "walkwait" /\ buf[v] \in HeldBy(u) /\ (Walking(u) \/ pc[u] = "asleep")
         => <<u, v>> \in R
  /\ \A v \in Procs : pc[v] = "walk" => Relies(R, v) \/ Passed(v)

Ranked == \E R : IsOrder(R) /\ RankedBy(R)

(* Who comes upon a buffer that has got into use relies on its user, or on *)
(* whom the user relies on.                                                *)
LEMMA ComesUpon ==
  ASSUME Types, Locals, CountsUsers, NEW R, IsOrder(R), RankedBy(R),
         NEW p \in Procs, pc[p] = "walkwait", b_count[buf[p]] # 0
  PROVE  Relies(R, p)
<1>1. buf[p] \in Buffers
  BY DEF Locals, LocalsOf
<1>2. PICK u \in Procs : buf[p] \in HeldBy(u) \/ Uses(u, buf[p])
  BY <1>1, HasUser
<1>3. HasBuffer(u)
  BY <1>1, <1>2 DEF HasBuffer, HeldBy
<1>4. CASE ~Walking(u) /\ pc[u] # "asleep"
  BY <1>3, <1>4 DEF Relies
<1>5. CASE Walking(u) \/ pc[u] = "asleep"
  <2>1. buf[p] \in HeldBy(u)
    <3>1. ~Uses(u, buf[p])
      BY <1>1, <1>5, Constants DEF Uses, Walking, Locals, LocalsOf
    <3>2. QED
      BY <1>2, <3>1
  <2>2. <<u, p>> \in R
    BY <1>5, <2>1 DEF RankedBy
  <2>3. CASE pc[u] # "asleep"
    BY <1>3, <2>2, <2>3 DEF Relies
  <2>4. CASE pc[u] = "asleep"
    <3>1. PICK q \in Procs : pc[q] # "asleep" /\ HasBuffer(q) /\ (Walking(q) => <<q, u>> \in R)
      BY <2>4 DEF RankedBy, Relies
    <3>2. Walking(q) => <<q, p>> \in R
      BY <2>2, <3>1 DEF IsOrder
    <3>3. QED
      BY <3>1, <3>2 DEF Relies
  <2>5. QED
    BY <2>3, <2>4
<1>6. QED
  BY <1>4, <1>5

(* Who has come round the free list found every buffer in use.             *)
LEMMA ComesRound ==
  ASSUME Types, Locals, CountsUsers, HeldFew, ListInv, NEW R,
         NEW p \in Procs, Passed(p), b_count[buf[p]] # 0, next_free[buf[p]] = free_list
  PROVE  Relies(R, p)
<1>1. PICK P \in SUBSET Listed :
        /\ \A b \in P : b_count[b] # 0
        /\ free_list \in P \cup {buf[p]}
        /\ \A b \in P : next_free[b] \in P \cup {buf[p]}
  BY DEF Passed
<1> DEFINE S == P \cup {buf[p]}
<1>2. S \in SUBSET Listed
  BY DEF Passed
<1>3. free_list \in S /\ \A b \in S : next_free[b] \in S
  BY <1>1
<1>4. \A b \in S : b_count[b] # 0
  BY <1>1
<1> HIDE DEF S
<1>5. S = Listed
  BY <1>2, <1>3 DEF ListInv
<1>6. ASSUME NEW b \in Claimed, b \in Buffers
      PROVE  b_count[b] # 0
  BY <1>6, ClaimedUsed, Unused
<1>7. \A b \in Buffers : b_count[b] # 0
  BY <1>4, <1>5, <1>6 DEF Listed
<1>8. PICK q \in Procs : OnItsWay(q)
  BY <1>7, SomebodyMoves
<1>9. QED
  BY <1>8 DEF OnItsWay, Relies

(* Who relies on somebody else still does if that one is where it was.     *)
LEMMA StillRelies ==
  ASSUME Types, NEW p \in Procs, NEW q \in Procs \ {p}, ByOnly(p),
         HasBuffer(q), pc[q] # "asleep", pc'[q] = pc[q]
  PROVE  HasBuffer(q)' /\ pc'[q] # "asleep" /\ (Walking(q)' <=> Walking(q))
<1>1. /\ pc[q] \notin Running /\ buf'[q] = buf[q] /\ want'[q] = want[q] /\ held'[q] = held[q]
  BY DEF ByOnly
<1>2. pc[q] # "find"
  BY <1>1 DEF Running
<1>3. QED
  BY <1>1, <1>2 DEF HasBuffer, Uses, Walking

(* The walk of p goes on, or p goes to sleep relying on somebody.          *)
LEMMA RankedAdvance ==
  ASSUME Counted, HeldFew, ListInv, NEW R, IsOrder(R), RankedBy(R),
         NEW p \in Procs, Advances(p)
  PROVE  RankedBy(R)'
<1> USE DEF Counted, Types
<1>a. /\ ByOnly(p) /\ ListsStay /\ b_count' = b_count /\ held' = held
      /\ Walking(p) /\ b_count[buf[p]] # 0
      /\ \A q \in Procs \ {p} : pc'[q] = pc[q] /\ buf'[q] = buf[q]
  BY DEF Advances, ByOnly
<1>b. \/ /\ next_free[buf[p]] = free_list /\ pc'[p] = "asleep" /\ buf'[p] = NULL
      \/ /\ next_free[buf[p]] # free_list /\ pc'[p] = "walk" /\ buf'[p] = next_free[buf[p]]
  BY DEF Advances
<1>l. Claimed' = Claimed /\ Listed' = Listed
  BY ClaimedSame DEF Listed
<1>h. HasBuffer(p) => HasBuffer(p)'
  <2>1. HasBuffer(p) => held[p] # {}
    BY <1>a DEF HasBuffer, Uses, Walking
  <2>2. QED
    BY <1>a, <2>1 DEF HasBuffer
<1>1. ASSUME NEW v \in Procs, Relies(R, v), v = p \/ (pc'[p] = "asleep" => Relies(R, p))
      PROVE  Relies(R, v)'
  <2>1. PICK q \in Procs : pc[q] # "asleep" /\ HasBuffer(q) /\ (Walking(q) => <<q, v>> \in R)
    BY <1>1 DEF Relies
  <2>2. CASE q # p
    <3>1. HasBuffer(q)' /\ pc'[q] # "asleep" /\ (Walking(q)' <=> Walking(q))
      BY <1>a, <2>1, <2>2, StillRelies
    <3>2. QED
      BY <2>1, <3>1 DEF Relies
  <2>3. CASE q = p /\ pc'[p] # "asleep"
    BY <1>a, <1>h, <2>1, <2>3 DEF Relies
  <2>4. CASE q = p /\ pc'[p] = "asleep"
    <3>1. <<p, v>> \in R /\ v # p
      BY <1>a, <2>1, <2>4 DEF IsOrder
    <3>2. PICK r \in Procs : pc[r] # "asleep" /\ HasBuffer(r) /\ (Walking(r) => <<r, p>> \in R)
      BY <1>1, <2>4, <3>1 DEF Relies
    <3>3. r # p
      BY <1>a, <3>2 DEF IsOrder
    <3>4. HasBuffer(r)' /\ pc'[r] # "asleep" /\ (Walking(r)' <=> Walking(r))
      BY <1>a, <3>2, <3>3, StillRelies
    <3>5. Walking(r)' => <<r, v>> \in R
      BY <3>1, <3>2, <3>4 DEF IsOrder
    <3>6. QED
      BY <3>4, <3>5 DEF Relies
  <2>5. QED
    BY <2>2, <2>3, <2>4
<1>2. Relies(R, p) \/ Passed(p)
  BY <1>a, ComesUpon DEF RankedBy, Walking
<1>3. pc'[p] = "asleep" => Relies(R, p)
  BY <1>2, <1>a, <1>b, ComesRound
<1>4. \A v \in Procs : pc'[v] = "asleep" => Relies(R, v)'
  <2>1. SUFFICES ASSUME NEW v \in Procs, pc'[v] = "asleep"
                 PROVE  Relies(R, v)'
    OBVIOUS
  <2>2. CASE v = p
    BY <1>1, <1>3, <2>1, <2>2
  <2>3. CASE v # p
    <3>1. Relies(R, v)
      BY <1>a, <2>1, <2>3 DEF RankedBy
    <3>2. QED
      BY <1>1, <1>3, <3>1
  <2>4. QED
    BY <2>2, <2>3
<1>5. ASSUME NEW u \in Procs, NEW v \in Procs, pc'[v] = "walkwait", buf'[v] \in HeldBy(u)',
             Walking(u)' \/ pc'[u] = "asleep"
      PROVE  <<u, v>> \in R
  <2>1. v # p /\ pc[v] = "walkwait" /\ buf[v] \in HeldBy(u)
    BY <1>a, <1>b, <1>5 DEF HeldBy
  <2>2. Walking(u) \/ pc[u] = "asleep"
    BY <1>a, <1>5 DEF Walking
  <2>3. QED
    BY <2>1, <2>2 DEF RankedBy
<1>6. ASSUME NEW v \in Procs, pc'[v] = "walk"
      PROVE  Relies(R, v)' \/ Passed(v)'
  <2>1. v = p
    BY <1>a, <1>6 DEF ByOnly, Running
  <2>2. CASE Relies(R, p)
    BY <1>1, <2>1, <2>2
  <2>3. CASE Passed(p)
    <3>1. PICK P \in SUBSET Listed :
            /\ \A b \in P : b_count[b] # 0
            /\ free_list \in P \cup {buf[p]}
            /\ \A b \in P : next_free[b] \in P \cup {buf[p]}
      BY <2>3 DEF Passed
    <3> DEFINE S == P \cup {buf[p]}
    <3>2. S \in SUBSET Listed /\ (\A b \in S : b_count[b] # 0) /\ free_list \in S
      BY <1>a, <2>3, <3>1 DEF Passed
    <3>3. buf'[p] = next_free[buf[p]] /\ next_free[buf[p]] \in Listed
      BY <1>b, <1>6, <2>1, <2>3 DEF Passed, ListInv
    <3>4. \A b \in S : next_free[b] \in S \cup {buf'[p]}
      BY <3>1, <3>3
    <3> HIDE DEF S
    <3>5. UNCHANGED <<next_free, free_list, b_count>>
      BY <1>a DEF ListsStay, listVars
    <3>6. Passed(p)'
      BY <1>l, <3>2, <3>3, <3>4, <3>5 DEF Passed
    <3>7. QED
      BY <2>1, <3>6
  <2>4. QED
    BY <1>2, <2>2, <2>3
<1>7. QED
  BY <1>4, <1>5, <1>6 DEF RankedBy

(* p sets out, the latest of all.                                          *)
LEMMA RankedSetsOut ==
  ASSUME Counted, ListInv, NEW R, IsOrder(R), RankedBy(R),
         NEW p \in Procs, SetsOut(p)
  PROVE  Ranked'
<1> USE DEF Counted, Types
<1> DEFINE N == {e \in R : e[1] # p /\ e[2] # p} \cup ({p} \X (Procs \ {p}))
<1>n. \A u, v : <<u, v>> \in N <=>
        \/ <<u, v>> \in R /\ u # p /\ v # p
        \/ u = p /\ v \in Procs /\ v # p
  OBVIOUS
<1>o. N \subseteq Procs \X Procs
  BY DEF IsOrder
<1> HIDE DEF N
<1>1. IsOrder(N)
  BY <1>n, <1>o DEF IsOrder
<1>a. /\ ByOnly(p) /\ ListsStay /\ b_count' = b_count /\ held' = held
      /\ pc[p] = "find" /\ pc'[p] = "walk" /\ buf'[p] = free_list
      /\ \A q \in Procs \ {p} : pc'[q] = pc[q] /\ buf'[q] = buf[q]
  BY DEF SetsOut, ByOnly
<1>h. HasBuffer(p) => HasBuffer(p)'
  <2>1. buf[p] = NULL /\ Found(want[p]) = {}
    BY <1>a DEF SetsOut, Locals, LocalsOf
  <2>2. HasBuffer(p) => held[p] # {}
    BY <2>1, Constants DEF HasBuffer, Uses
  <2>3. QED
    BY <1>a, <2>2 DEF HasBuffer
<1>2. ASSUME NEW v \in Procs, v # p, Relies(R, v)
      PROVE  Relies(N, v)'
  <2>1. PICK q \in Procs : pc[q] # "asleep" /\ HasBuffer(q) /\ (Walking(q) => <<q, v>> \in R)
    BY <1>2 DEF Relies
  <2>2. CASE q = p
    BY <1>a, <1>h, <1>n, <1>2, <2>1, <2>2 DEF Relies
  <2>3. CASE q # p
    <3>1. HasBuffer(q)' /\ pc'[q] # "asleep" /\ (Walking(q)' <=> Walking(q))
      BY <1>a, <2>1, <2>3, StillRelies
    <3>2. Walking(q)' => <<q, v>> \in N
      BY <1>n, <1>2, <2>1, <2>3, <3>1
    <3>3. QED
      BY <3>1, <3>2 DEF Relies
  <2>4. QED
    BY <2>2, <2>3
<1>3. \A v \in Procs : pc'[v] = "asleep" => Relies(N, v)'
  BY <1>a, <1>2 DEF RankedBy
<1>4. ASSUME NEW u \in Procs, NEW v \in Procs, pc'[v] = "walkwait", buf'[v] \in HeldBy(u)',
             Walking(u)' \/ pc'[u] = "asleep"
      PROVE  <<u, v>> \in N
  <2>1. v # p /\ pc[v] = "walkwait" /\ buf[v] \in HeldBy(u)
    BY <1>a, <1>4 DEF HeldBy
  <2>2. CASE u = p
    BY <1>n, <2>1, <2>2
  <2>3. CASE u # p
    <3>1. Walking(u) \/ pc[u] = "asleep"
      BY <1>a, <1>4, <2>3 DEF Walking
    <3>2. <<u, v>> \in R
      BY <2>1, <3>1 DEF RankedBy
    <3>3. QED
      BY <1>n, <2>1, <2>3, <3>2
  <2>4. QED
    BY <2>2, <2>3
<1>5. ASSUME NEW v \in Procs, pc'[v] = "walk"
      PROVE  Passed(v)'
  <2>1. v = p
    BY <1>a, <1>5 DEF ByOnly, Running
  <2>2. Listed' = Listed /\ free_list' = free_list /\ free_list \in Listed
    BY <1>a, ClaimedSame DEF Listed, ListsStay, listVars, ListInv
  <2>3. {} \in SUBSET Listed' /\ buf'[p] \in Listed' /\ free_list' \in {} \cup {buf'[p]}
    BY <1>a, <2>2
  <2>4. QED
    BY <2>1, <2>3 DEF Passed
<1>6. RankedBy(N)'
  BY <1>3, <1>4, <1>5 DEF RankedBy
<1>7. QED
  BY <1>1, <1>6 DEF Ranked

(* p goes on, releases, claims or gives back: who relied on it still may.  *)
LEMMA RankedMoves ==
  ASSUME Counted, NEW R, IsOrder(R), RankedBy(R), NEW p \in Procs, ByOnly(p),
         ~Walking(p)', pc'[p] # "asleep",
         \/ /\ HasBuffer(p) => HasBuffer(p)'
            /\ \A q \in Procs \ {p} : pc'[q] = pc[q]
         \/ \A q \in Procs \ {p} : pc'[q] = IF pc[q] = "asleep" THEN "woken" ELSE pc[q]
  PROVE  RankedBy(R)'
<1> USE DEF Counted, Types
<1>a. \A q \in Procs \ {p} : buf'[q] = buf[q] /\ held'[q] = held[q] /\ pc[q] \notin Running
  BY DEF ByOnly
<1>1. \A q \in Procs \ {p} : pc'[q] \in {"walk", "walkwait", "asleep"} => pc'[q] = pc[q]
  OBVIOUS
<1>2. ASSUME NEW v \in Procs, pc'[v] = "asleep"
      PROVE  Relies(R, v)'
  <2>1. v # p /\ pc[v] = "asleep"
    BY <1>1, <1>2
  <2>2. /\ HasBuffer(p) => HasBuffer(p)'
        /\ \A q \in Procs \ {p} : pc'[q] = pc[q]
    BY <1>2, <2>1
  <2>3. PICK q \in Procs : pc[q] # "asleep" /\ HasBuffer(q) /\ (Walking(q) => <<q, v>> \in R)
    BY <2>1 DEF RankedBy, Relies
  <2>4. CASE q = p
    BY <2>2, <2>3, <2>4 DEF Relies
  <2>5. CASE q # p
    <3>1. HasBuffer(q)' /\ pc'[q] # "asleep" /\ (Walking(q)' <=> Walking(q))
      BY <2>2, <2>3, <2>5, StillRelies
    <3>2. QED
      BY <2>3, <3>1 DEF Relies
  <2>6. QED
    BY <2>4, <2>5
<1>3. ASSUME NEW u \in Procs, NEW v \in Procs, pc'[v] = "walkwait", buf'[v] \in HeldBy(u)',
             Walking(u)' \/ pc'[u] = "asleep"
      PROVE  <<u, v>> \in R
  <2>1. u # p /\ v # p
    BY <1>3 DEF Walking
  <2>2. pc[v] = "walkwait" /\ pc'[u] = pc[u]
    BY <1>1, <1>3, <2>1 DEF Walking
  <2>3. buf[v] \in HeldBy(u)
    BY <1>a, <1>3, <2>1 DEF HeldBy
  <2>4. QED
    BY <1>3, <2>2, <2>3 DEF RankedBy, Walking
<1>4. ASSUME NEW v \in Procs, pc'[v] = "walk"
      PROVE  FALSE
  BY <1>a, <1>1, <1>4 DEF Walking, Running
<1>5. QED
  BY <1>2, <1>3, <1>4 DEF RankedBy

(* p waits for the buffer, which nobody has got.                           *)
LEMMA RankedHalts ==
  ASSUME Counted, NEW R, IsOrder(R), RankedBy(R), NEW p \in Procs, Halts(p)
  PROVE  RankedBy(R)'
<1> USE DEF Counted, Types
<1>a. /\ ByOnly(p) /\ ListsStay /\ b_count' = b_count /\ held' = held /\ buf' = buf
      /\ pc[p] = "walk" /\ pc'[p] = "walkwait" /\ b_count[buf[p]] = 0
      /\ \A q \in Procs \ {p} : pc'[q] = pc[q]
  BY DEF Halts
<1>h. HasBuffer(p) => HasBuffer(p)'
  <2>1. HasBuffer(p) => held[p] # {}
    BY <1>a DEF HasBuffer, Uses
  <2>2. QED
    BY <1>a, <2>1 DEF HasBuffer
<1>1. ASSUME NEW v \in Procs, pc'[v] = "asleep"
      PROVE  Relies(R, v)'
  <2>1. v # p /\ pc[v] = "asleep"
    BY <1>a, <1>1
  <2>2. PICK q \in Procs : pc[q] # "asleep" /\ HasBuffer(q) /\ (Walking(q) => <<q, v>> \in R)
    BY <2>1 DEF RankedBy, Relies
  <2>3. HasBuffer(q)' /\ pc'[q] # "asleep" /\ (Walking(q)' <=> Walking(q))
    <3>1. CASE q = p
      BY <1>a, <1>h, <2>2, <3>1 DEF Walking
    <3>2. CASE q # p
      BY <1>a, <2>2, <3>2, StillRelies
    <3>3. QED
      BY <3>1, <3>2
  <2>4. QED
    BY <2>2, <2>3 DEF Relies
<1>2. ASSUME NEW u \in Procs, NEW v \in Procs, pc'[v] = "walkwait", buf'[v] \in HeldBy(u)',
             Walking(u)' \/ pc'[u] = "asleep"
      PROVE  <<u, v>> \in R
  <2>1. buf[v] \in HeldBy(u)
    BY <1>a, <1>2 DEF HeldBy
  <2>2. v # p
    <3>1. buf[p] \in Buffers
      BY <1>a DEF Locals, LocalsOf
    <3>2. \A h \in held[u] : h[1] # buf[p]
      BY <1>a, <3>1, Unused
    <3>3. QED
      BY <2>1, <3>2 DEF HeldBy
  <2>3. pc[v] = "walkwait" /\ (Walking(u) \/ pc[u] = "asleep")
    BY <1>a, <1>2, <2>2 DEF Walking
  <2>4. QED
    BY <2>1, <2>3 DEF RankedBy
<1>3. ASSUME NEW v \in Procs, pc'[v] = "walk"
      PROVE  FALSE
  BY <1>a, <1>3 DEF ByOnly, Running
<1>4. QED
  BY <1>1, <1>2, <1>3 DEF RankedBy

(* Every step keeps the order of the walks, or begins one.                 *)
LEMMA RankedStep ==
  Counted /\ OneRuns /\ HeldFew /\ ListInv /\ Ranked /\ [Next]_vars => Ranked'
<1> SUFFICES ASSUME Counted, OneRuns, HeldFew, ListInv, Ranked, [Next]_vars
             PROVE  Ranked'
  OBVIOUS
<1> USE DEF Counted, Types
<1>1. PICK R : IsOrder(R) /\ RankedBy(R)
  BY DEF Ranked
<1>r. RankedBy(R)' => Ranked'
  BY <1>1 DEF Ranked
<1>2. CASE UNCHANGED <<procVars, b_count, listVars, b_block>>
  <2>1. /\ \A q \in Procs : /\ HasBuffer(q)' <=> HasBuffer(q)
                            /\ Walking(q)' <=> Walking(q)
                            /\ HeldBy(q)' = HeldBy(q)
        /\ Claimed' = Claimed
    BY <1>2 DEF procVars, listVars, HasBuffer, Uses, Found, Walking, HeldBy, Claimed
  <2>2. /\ pc' = pc /\ buf' = buf /\ b_count' = b_count
        /\ next_free' = next_free /\ free_list' = free_list
    BY <1>2 DEF procVars, listVars
  <2>3. \A v \in Procs : (Relies(R, v) => Relies(R, v)') /\ (Passed(v) => Passed(v)')
    BY <2>1, <2>2 DEF Relies, Passed, Listed
  <2>4. RankedBy(R)'
    BY <1>1, <2>1, <2>2, <2>3 DEF RankedBy
  <2>5. QED
    BY <1>r, <2>4
<1>3. ASSUME NEW p \in Procs, GoesOn(p) PROVE Ranked'
  <2>1. RankedBy(R)'
    BY <1>1, <1>3, RankedMoves DEF GoesOn
  <2>2. QED
    BY <1>r, <2>1
<1>4. ASSUME NEW p \in Procs, Releases(p) PROVE Ranked'
  <2>1. ByOnly(p) /\ ~Walking(p)' /\ pc'[p] # "asleep"
    BY <1>4 DEF Releases, Walking
  <2>2. RankedBy(R)'
    BY <1>1, <1>4, <2>1, RankedMoves DEF Releases
  <2>3. QED
    BY <1>r, <2>2
<1>5. ASSUME NEW p \in Procs, SetsOut(p) PROVE Ranked'
  BY <1>1, <1>5, RankedSetsOut
<1>6. ASSUME NEW p \in Procs, Advances(p) PROVE Ranked'
  <2>1. RankedBy(R)'
    BY <1>1, <1>6, RankedAdvance
  <2>2. QED
    BY <1>r, <2>1
<1>7. ASSUME NEW p \in Procs, Halts(p) PROVE Ranked'
  <2>1. RankedBy(R)'
    BY <1>1, <1>7, RankedHalts
  <2>2. QED
    BY <1>r, <2>1
<1>8. ASSUME NEW p \in Procs, Claims(p), ByOnly(p) PROVE Ranked'
  <2>1. /\ \A q \in Procs \ {p} : pc'[q] = pc[q]
        /\ pc'[p] \in {"sync", "refill"} /\ buf' = buf /\ buf[p] \in Buffers
    BY <1>8 DEF Claims, Claim, Goto, Locals, LocalsOf
  <2>2. HasBuffer(p)' /\ ~Walking(p)' /\ pc'[p] # "asleep"
    BY <2>1 DEF HasBuffer, Uses, Walking
  <2>3. RankedBy(R)'
    BY <1>1, <1>8, <2>1, <2>2, RankedMoves
  <2>4. QED
    BY <1>r, <2>3
<1>9. ASSUME NEW p \in Procs, Refill(p), ByOnly(p) PROVE Ranked'
  <2>1. /\ \A q \in Procs \ {p} : pc'[q] = pc[q]
        /\ want' = want /\ buf[p] \in Buffers
        /\ \/ pc'[p] = "got" /\ buf'[p] = buf[p]
           \/ pc'[p] = "find" /\ Found(want[p]) # {}
    BY <1>9 DEF Refill, Goto, Locals, LocalsOf
  <2>2. Found(want[p]) \subseteq Found(want[p])'
    <3>1. hashed \subseteq hashed'
      BY <1>9 DEF Refill, Enqueue
    <3>2. \A b \in hashed : b_block'[b] = b_block[b]
      BY <1>9, RefillDoes
    <3>3. QED
      BY <2>1, <3>1, <3>2 DEF Found
  <2>3. HasBuffer(p)' /\ ~Walking(p)' /\ pc'[p] # "asleep"
    BY <2>1, <2>2 DEF HasBuffer, Uses, Walking
  <2>4. RankedBy(R)'
    BY <1>1, <1>9, <2>1, <2>3, RankedMoves
  <2>5. QED
    BY <1>r, <2>4
<1>10. QED
  BY <1>2, <1>3, <1>4, <1>5, <1>6, <1>7, <1>8, <1>9, StepKinds

(* At first nobody walks or sleeps.                                        *)
LEMMA InitRanked == Init => Ranked
<1> SUFFICES ASSUME Init PROVE Ranked
  OBVIOUS
<1>1. IsOrder({})
  BY DEF IsOrder
<1>2. RankedBy({})
  BY DEF Init, RankedBy
<1>3. QED
  BY <1>1, <1>2 DEF Ranked

(* A process asleep on buffer_wait will be woken: though getblk gives a    *)
(* claimed buffer back without a wake-up and may cut its walk short, there *)
(* is always somebody else with a buffer to release.                       *)
THEOREM NobodyForgotten == Spec => []SleeperRemembered
<1>1. Ranked => SleeperRemembered
  BY DEF Ranked, RankedBy, Relies, SleeperRemembered
<1>2. QED
  BY <1>1, InitRanked, RankedStep, AlwaysListed, PTL DEF Spec
=============================================================================
