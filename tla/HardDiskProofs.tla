--------------------------- MODULE HardDiskProofs ---------------------------
(***************************************************************************)
(* Proofs about module HardDisk, for every number of processes, requests   *)
(* and places: every request is in the table once, the queue holds all of  *)
(* them, the drive is kept at work, and data arrive where they belong,     *)
(* whatever interrupts come while the queue is being sorted.               *)
(***************************************************************************)
EXTENDS HardDisk, Counting

-----------------------------------------------------------------------------
(* The invariant                                                           *)

Types ==
  /\ request \in [Requests -> Entry]
  /\ this_request \in 0 .. NR_REQUEST
  /\ do_hd \in {"NULL", "read_intr", "write_intr", "do_request"}
  /\ drive \in [op : {"none", "specify", "read", "write"}, at : 0 .. 2]
  /\ pc \in [Procs -> PC]
  /\ lock \in [Procs -> BOOLEAN] /\ uptodate \in [Procs -> BOOLEAN]
  /\ moved \in [Procs -> [0 .. 1 -> {"no", "right", "wrong"}]]
  /\ sorting \in BOOLEAN /\ hit \in BOOLEAN

Sleeping == {"full", "asleep", "again"}
Busy(i) == request[i].busy
HasEntry(p) == lock[p] /\ pc[p] \notin Sleeping

(* Entries and locked buffers belong together, one by one.                 *)
Entries ==
  /\ \A i \in Requests : Busy(i) <=> request[i].bh \in Procs
  /\ \A i, j \in Requests : Busy(i) /\ Busy(j) /\ request[i].bh = request[j].bh => i = j
  /\ \A i \in Requests, p \in Procs : Busy(i) /\ request[i].bh = p => HasEntry(p)
  /\ \A p \in Procs : HasEntry(p) => \E i \in Requests : Busy(i) /\ request[i].bh = p
  /\ \A p \in Procs : /\ pc[p] = "out" => ~lock[p]
                      /\ pc[p] \in Sleeping => lock[p]

(* One process at most is in the driver, and knows its entry and, unless a *)
(* handler has moved on meanwhile, the first of the queue.                 *)
Behind == request[tmp].next = this_request /\ hit /\ drive.op \in {"none", "specify"}
Adder ==
  /\ \A p, r \in Inside : p = r
  /\ sorting <=> \E p \in Procs : pc[p] \in {"look", "insert", "linked"}
  /\ \A p \in Adding : /\ mine \in Requests
                       /\ Busy(mine) /\ request[mine].bh = p /\ request[mine].next = NULL
  /\ \A p \in Procs : pc[p] = "insert" =>
       /\ tmp \in 0 .. NR_REQUEST /\ tmp # mine
       /\ tmp = this_request \/ (tmp # NULL /\ Behind)

(* The queue is a line of n entries in use, and of all of them unless an   *)
(* interrupt has hit the sorting.                                          *)
Line(q, n) ==
  /\ q \in [1 .. n -> Requests]
  /\ \A j, k \in 1 .. n : q[j] = q[k] => j = k
  /\ this_request = IF n = 0 THEN NULL ELSE q[1]
  /\ \A k \in 1 .. n : /\ Busy(q[k])
                       /\ request[q[k]].next = IF k = n THEN NULL ELSE q[k + 1]
                       /\ Adding # {} => q[k] # mine
  /\ ~hit => \A i \in Requests :
       Busy(i) => (Adding # {} /\ i = mine) \/ \E k \in 1 .. n : q[k] = i
Lined == \E n \in Nat : \E q : Line(q, n)

(* The drive, the handler and the queue.                                   *)
Driven ==
  /\ drive.op = "specify" => do_hd = "do_request"
  /\ drive.op = "read" => do_hd = "read_intr" /\ this_request # NULL
  /\ drive.op = "write" => do_hd = "write_intr" /\ this_request # NULL
  /\ ~hit /\ do_hd # "NULL" => drive.op # "none"
  /\ ~hit /\ ~sorting /\ this_request # NULL => drive.op # "none"

(* What has been moved of a request that has not failed yet.               *)
Written ==
  /\ \A i \in Requests :
       Busy(i) /\ request[i].errors = 0 /\ request[i].nsector # 2
         => i = this_request /\ drive.op = "write"
  /\ drive.op = "write" =>
       LET r == request[this_request]
       IN /\ r.nsector = 2 => drive.at = 1
          /\ r.errors = 0 => /\ moved[r.bh][0] = "right"
                             /\ r.nsector # 2 => moved[r.bh][1] = "right"

HdInv == Types /\ Entries /\ Adder /\ Lined /\ Driven /\ Written

-----------------------------------------------------------------------------
(* The first request and the process in the driver                         *)

(* The first request is in the table.                                      *)
LEMMA First ==
  ASSUME Lined, this_request # NULL
  PROVE  this_request \in Requests /\ Busy(this_request)
<1>1. PICK n \in Nat : \E q : Line(q, n)
  BY DEF Lined
<1> PICK q : Line(q, n)
  BY <1>1
<1>2. n # 0 /\ this_request = q[1]
  BY DEF Line
<1>3. 1 \in 1 .. n
  BY <1>2
<1>4. QED
  BY <1>2, <1>3 DEF Line

(* A handler runs for the first request.                                   *)
LEMMA Served ==
  ASSUME HdInv, drive.op \in {"read", "write"}
  PROVE  /\ this_request \in Requests /\ this_request # NULL
         /\ Busy(this_request) /\ request[this_request].bh \in Procs
<1>1. this_request # NULL /\ Lined /\ Entries
  BY DEF HdInv, Driven
<1>2. QED
  BY <1>1, First DEF Entries

(* Nobody else adds a request.                                             *)
LEMMA Alone ==
  ASSUME Adder, NEW p \in Procs, pc[p] \in {"full", "look", "insert", "linked"}
  PROVE  /\ \A r \in Procs : r # p => pc[r] \notin {"full", "look", "insert", "linked"}
         /\ sorting <=> pc[p] # "full"
         /\ Adding = IF pc[p] \in {"look", "insert"} THEN {p} ELSE {}
<1>1. p \in Inside
  BY DEF Inside
<1>2. \A r \in Procs : r # p => r \notin Inside
  BY <1>1 DEF Adder, Inside
<1>3. \A r \in Procs : r # p => pc[r] \notin {"full", "look", "insert", "linked"}
  BY <1>2 DEF Inside
<1>4. QED
  BY <1>3 DEF Adder, Adding

(* With nobody in the driver the queue is not being sorted.                *)
LEMMA NobodyAdds ==
  ASSUME Types, Adder, Inside = {}
  PROVE  Adding = {} /\ sorting = FALSE
BY DEF Types, Adder, Inside, Adding

-----------------------------------------------------------------------------
(* Entries and locked buffers                                              *)

SameEntries ==
  \A i \in Requests : /\ request'[i].busy = request[i].busy
                      /\ request'[i].bh = request[i].bh
SameSleep ==
  \A p \in Procs : /\ pc'[p] \in Sleeping <=> pc[p] \in Sleeping
                   /\ pc'[p] = "out" => pc[p] = "out" \/ ~lock[p]

(* Steps that neither make nor free an entry.                              *)
LEMMA EntriesKept ==
  ASSUME Entries, SameEntries, SameSleep, lock' = lock
  PROVE  Entries'
<1>1. \A i \in Requests : Busy(i)' = Busy(i) /\ request'[i].bh = request[i].bh
  BY DEF SameEntries, Busy
<1>2. \A p \in Procs : HasEntry(p)' <=> HasEntry(p)
  BY DEF SameSleep, HasEntry
<1>3. \A p \in Procs : /\ pc'[p] = "out" => ~lock'[p]
                       /\ pc'[p] \in Sleeping => lock'[p]
  BY DEF Entries, SameSleep
<1>4. QED
  BY <1>1, <1>2, <1>3 DEF Entries

(* A process has found a free entry.                                       *)
NewEntry(p, i) ==
  /\ i \in Requests /\ ~Busy(i)
  /\ \A j \in Requests : j # i => request'[j] = request[j]
  /\ request'[i] = [busy |-> TRUE, nsector |-> 2, errors |-> 0, bh |-> p, next |-> NULL]
  /\ mine' = i /\ sorting' /\ pc' = [pc EXCEPT ![p] = "look"]

(* The entry is the only one of the process.                               *)
LEMMA EntriesNew ==
  ASSUME Types, Entries, NEW p \in Procs, NEW i, NewEntry(p, i), ~HasEntry(p),
         lock'[p], \A r \in Procs : r # p => lock'[r] = lock[r]
  PROVE  Entries'
<1>1. /\ Busy(i)' = TRUE /\ request'[i].bh = p /\ ~Busy(i) /\ i \in Requests
      /\ \A j \in Requests : j # i => Busy(j)' = Busy(j) /\ request'[j].bh = request[j].bh
  BY DEF NewEntry, Busy
<1>2. \A j \in Requests : Busy(j) => request[j].bh # p
  BY DEF Entries
<1>3. /\ pc'[p] = "look" /\ \A r \in Procs : r # p => pc'[r] = pc[r]
  BY DEF NewEntry, Types
<1>4. /\ HasEntry(p)' /\ \A r \in Procs : r # p => (HasEntry(r)' <=> HasEntry(r))
  BY <1>3 DEF HasEntry, Sleeping
<1>5. \A j \in Requests : Busy(j)' <=> request'[j].bh \in Procs
  BY <1>1 DEF Entries
<1>6. \A j, k \in Requests : Busy(j)' /\ Busy(k)' /\ request'[j].bh = request'[k].bh => j = k
  BY <1>1, <1>2 DEF Entries
<1>7. \A j \in Requests, r \in Procs : Busy(j)' /\ request'[j].bh = r => HasEntry(r)'
  BY <1>1, <1>2, <1>4 DEF Entries
<1>8. \A r \in Procs : HasEntry(r)' => \E j \in Requests : Busy(j)' /\ request'[j].bh = r
  <2>1. ASSUME NEW r \in Procs, HasEntry(r)', r # p
        PROVE  \E j \in Requests : Busy(j)' /\ request'[j].bh = r
    <3>1. PICK j \in Requests : Busy(j) /\ request[j].bh = r
      BY <1>4, <2>1 DEF Entries
    <3>2. QED
      BY <1>1, <3>1
  <2>2. QED
    BY <1>1, <2>1
<1>9. \A r \in Procs : /\ pc'[r] = "out" => ~lock'[r]
                       /\ pc'[r] \in Sleeping => lock'[r]
  BY <1>3 DEF Entries, Sleeping
<1>10. QED
  BY <1>5, <1>6, <1>7, <1>8, <1>9 DEF Entries

(* A process has locked its buffer and found the table full.               *)
LEMMA EntriesFull ==
  ASSUME Types, Entries, NEW p \in Procs, pc[p] = "out", SameEntries,
         pc' = [pc EXCEPT ![p] = "full"], lock' = [lock EXCEPT ![p] = TRUE]
  PROVE  Entries'
<1>1. \A i \in Requests : Busy(i)' = Busy(i) /\ request'[i].bh = request[i].bh
  BY DEF SameEntries, Busy
<1>2. /\ pc'[p] = "full" /\ lock'[p]
      /\ \A r \in Procs : r # p => pc'[r] = pc[r] /\ lock'[r] = lock[r]
  BY DEF Types
<1>3. ~HasEntry(p) /\ \A r \in Procs : HasEntry(r)' <=> HasEntry(r)
  BY <1>2 DEF Entries, HasEntry, Sleeping
<1>4. \A r \in Procs : /\ pc'[r] = "out" => ~lock'[r]
                       /\ pc'[r] \in Sleeping => lock'[r]
  BY <1>2 DEF Entries, Sleeping
<1>5. QED
  BY <1>1, <1>3, <1>4 DEF Entries

(* The transfer of the first request is over.                              *)
LEMMA EntriesOver ==
  ASSUME Types, Entries, this_request \in Requests, Busy(this_request), NEW ok, Complete(ok)
  PROVE  Entries'
<1> PICK i : i = this_request
  OBVIOUS
<1> PICK b : b = request[i].bh
  OBVIOUS
<1>1. b \in Procs /\ Busy(i) /\ i \in Requests
  BY DEF Entries
<1>2. /\ ~request'[i].busy /\ request'[i].bh = NoProc
      /\ \A j \in Requests : j # i => request'[j] = request[j]
  BY <1>1 DEF Complete, Free, Types
<1>3. /\ ~Busy(i)' /\ request'[i].bh = NoProc
      /\ \A j \in Requests : j # i => Busy(j)' = Busy(j) /\ request'[j].bh = request[j].bh
  BY <1>2 DEF Busy
<1>4. ~lock'[b] /\ \A r \in Procs : r # b => lock'[r] = lock[r]
  BY <1>1 DEF Complete, Types
<1>5. \A r \in Procs : /\ pc'[r] = "out" <=> pc[r] = "out"
                       /\ pc'[r] \in Sleeping <=> pc[r] \in Sleeping
  BY DEF Complete, WakeWaiters, Sleeping
<1>6. \A j \in Requests : j # i /\ Busy(j) => request[j].bh # b
  BY <1>1 DEF Entries
<1>7. ~HasEntry(b)' /\ \A r \in Procs : r # b => (HasEntry(r)' <=> HasEntry(r))
  BY <1>4, <1>5 DEF HasEntry
<1>8. \A j \in Requests : Busy(j)' <=> request'[j].bh \in Procs
  BY <1>3, ProcsAssumption DEF Entries
<1>9. \A j, k \in Requests : Busy(j)' /\ Busy(k)' /\ request'[j].bh = request'[k].bh => j = k
  BY <1>3 DEF Entries
<1>10. \A j \in Requests, r \in Procs : Busy(j)' /\ request'[j].bh = r => HasEntry(r)'
  BY <1>3, <1>6, <1>7 DEF Entries
<1>11. \A r \in Procs : HasEntry(r)' => \E j \in Requests : Busy(j)' /\ request'[j].bh = r
  <2>1. ASSUME NEW r \in Procs, HasEntry(r)'
        PROVE  \E j \in Requests : Busy(j)' /\ request'[j].bh = r
    <3>1. r # b
      BY <1>7, <2>1
    <3>2. PICK j \in Requests : Busy(j) /\ request[j].bh = r
      BY <1>7, <2>1, <3>1 DEF Entries
    <3>3. j # i
      BY <3>1, <3>2
    <3>4. QED
      BY <1>3, <3>2, <3>3
  <2>2. QED
    BY <2>1
<1>12. \A r \in Procs : /\ pc'[r] = "out" => ~lock'[r]
                        /\ pc'[r] \in Sleeping => lock'[r]
  <2>1. pc[b] \notin Sleeping
    BY <1>1 DEF Entries, HasEntry
  <2>2. QED
    BY <1>4, <1>5, <2>1 DEF Entries
<1>13. QED
  BY <1>8, <1>9, <1>10, <1>11, <1>12 DEF Entries

-----------------------------------------------------------------------------
(* The process in the driver                                               *)

InDriver == {"full", "look", "insert", "linked"}
SamePlaces ==
  \A p \in Procs : pc'[p] = pc[p] \/ (pc[p] \notin InDriver /\ pc'[p] \notin InDriver)

(* Steps that leave the process in the driver alone.                       *)
LEMMA AdderKept ==
  ASSUME Adder, SamePlaces, UNCHANGED <<sorting, mine, tmp>>,
         \A p \in Adding : /\ request'[mine].busy /\ request'[mine].bh = p
                           /\ request'[mine].next = NULL,
         \A p \in Procs : pc[p] = "insert" => tmp = this_request' \/ (tmp # NULL /\ Behind')
  PROVE  Adder'
<1>1. \A p \in Procs : /\ pc'[p] = "full" <=> pc[p] = "full"
                       /\ pc'[p] = "look" <=> pc[p] = "look"
                       /\ pc'[p] = "insert" <=> pc[p] = "insert"
                       /\ pc'[p] = "linked" <=> pc[p] = "linked"
  BY DEF SamePlaces, InDriver
<1>2. Inside' = Inside /\ Adding' = Adding
  BY <1>1 DEF Inside, Adding
<1>3. \A p \in Adding' : /\ mine' \in Requests /\ Busy(mine)' /\ request'[mine'].bh = p
                         /\ request'[mine'].next = NULL
  BY <1>2 DEF Adder, Busy
<1>4. \A p \in Procs : pc'[p] = "insert" =>
        /\ tmp' \in 0 .. NR_REQUEST /\ tmp' # mine'
        /\ tmp' = this_request' \/ (tmp' # NULL /\ Behind')
  BY <1>1 DEF Adder
<1>5. sorting' <=> \E p \in Procs : pc'[p] \in {"look", "insert", "linked"}
  BY <1>1 DEF Adder
<1>6. QED
  BY <1>2, <1>3, <1>4, <1>5 DEF Adder

(* A process comes in, goes on, or leaves.                                 *)
GoesTo(p, place) ==
  /\ pc'[p] = place
  /\ \A r \in Procs : r # p => pc'[r] = pc[r] /\ pc[r] \notin InDriver

(* Then it is alone there, at the new place.                               *)
LEMMA AdderMoves ==
  ASSUME NEW p \in Procs, NEW place, GoesTo(p, place), sorting' \in BOOLEAN,
         sorting' <=> place \in {"look", "insert", "linked"},
         place \in {"look", "insert"} =>
           /\ mine' \in Requests /\ request'[mine'].busy /\ request'[mine'].bh = p
           /\ request'[mine'].next = NULL,
         place = "insert" => /\ tmp' \in 0 .. NR_REQUEST /\ tmp' # mine'
                             /\ tmp' = this_request'
  PROVE  Adder' /\ Adding' = IF place \in {"look", "insert"} THEN {p} ELSE {}
<1>1. Inside' = IF place \in InDriver THEN {p} ELSE {}
  BY DEF GoesTo, Inside, InDriver
<1>2. Adding' = IF place \in {"look", "insert"} THEN {p} ELSE {}
  BY DEF GoesTo, Adding, InDriver
<1>3. sorting' <=> \E r \in Procs : pc'[r] \in {"look", "insert", "linked"}
  BY DEF GoesTo, InDriver
<1>4. \A r \in Adding' : /\ mine' \in Requests /\ Busy(mine)' /\ request'[mine'].bh = r
                         /\ request'[mine'].next = NULL
  BY <1>2 DEF Busy
<1>5. \A r \in Procs : pc'[r] = "insert" =>
        /\ tmp' \in 0 .. NR_REQUEST /\ tmp' # mine'
        /\ tmp' = this_request' \/ (tmp' # NULL /\ Behind')
  BY DEF GoesTo, InDriver
<1>6. QED
  BY <1>1, <1>2, <1>3, <1>4, <1>5 DEF Adder

-----------------------------------------------------------------------------
(* The queue                                                               *)

SameLinks ==
  /\ this_request' = this_request
  /\ \A i \in Requests : request'[i].busy = request[i].busy /\ request'[i].next = request[i].next
  /\ Adding' = {} <=> Adding = {}
  /\ Adding # {} => mine' = mine

(* Steps that leave the queue alone.                                       *)
LEMMA LineKept ==
  ASSUME Lined, SameLinks, hit => hit'
  PROVE  Lined'
<1>1. PICK n \in Nat : \E q : Line(q, n)
  BY DEF Lined
<1> PICK q : Line(q, n)
  BY <1>1
<1>2. \A k \in 1 .. n : q[k] \in Requests
  BY DEF Line
<1>3. this_request' = IF n = 0 THEN NULL ELSE q[1]
  BY DEF Line, SameLinks
<1>4. \A k \in 1 .. n : /\ Busy(q[k])' /\ request'[q[k]].next = IF k = n THEN NULL ELSE q[k + 1]
                        /\ Adding' # {} => q[k] # mine'
  BY <1>2 DEF Line, SameLinks, Busy
<1>5. ~hit' => \A i \in Requests :
        Busy(i)' => (Adding' # {} /\ i = mine') \/ \E k \in 1 .. n : q[k] = i
  BY DEF Line, SameLinks, Busy
<1>6. Line(q, n)'
  BY <1>3, <1>4, <1>5 DEF Line
<1>7. QED
  BY <1>6 DEF Lined

(* The new entry is not in the queue yet.                                  *)
LEMMA LineNew ==
  ASSUME Lined, NEW p \in Procs, NEW i, NewEntry(p, i), Adding = {}, Adding' = {p},
         UNCHANGED <<this_request, hit>>
  PROVE  Lined'
<1>1. PICK n \in Nat : \E q : Line(q, n)
  BY DEF Lined
<1> PICK q : Line(q, n)
  BY <1>1
<1>2. \A k \in 1 .. n : q[k] \in Requests /\ q[k] # i
  BY DEF Line, NewEntry
<1>3. /\ mine' = i /\ \A j \in Requests : j # i => request'[j] = request[j]
      /\ this_request' = this_request /\ hit' = hit
  BY DEF NewEntry
<1>4. \A k \in 1 .. n : /\ Busy(q[k])' /\ request'[q[k]].next = IF k = n THEN NULL ELSE q[k + 1]
                        /\ Adding' # {} => q[k] # mine'
  BY <1>2, <1>3 DEF Line, Busy
<1>5. ~hit' => \A j \in Requests :
        Busy(j)' => (Adding' # {} /\ j = mine') \/ \E k \in 1 .. n : q[k] = j
  BY <1>3 DEF Line, Busy
<1>6. Line(q, n)'
  BY <1>3, <1>4, <1>5 DEF Line
<1>7. QED
  BY <1>6 DEF Lined

(* The first of the queue is done.                                         *)
LEMMA LineOver ==
  ASSUME Types, Lined, this_request # NULL, NEW ok, Complete(ok), Adding' = Adding
  PROVE  /\ Lined'
         /\ this_request' # NULL => /\ this_request' \in Requests /\ this_request' # this_request
                                   /\ request'[this_request'].busy
<1>1. PICK n \in Nat : \E q : Line(q, n)
  BY DEF Lined
<1> PICK q : Line(q, n)
  BY <1>1
<1> PICK i : i = this_request
  OBVIOUS
<1>2. n # 0 /\ i = q[1] /\ 1 \in 1 .. n
  BY DEF Line
<1>3. /\ \A k \in 1 .. n : q[k] \in Requests
      /\ \A k \in 1 .. n : k # 1 => q[k] # i
      /\ i \in Requests
  BY <1>2 DEF Line
<1>4. /\ this_request' = request[i].next /\ mine' = mine /\ (hit => hit')
      /\ ~request'[i].busy
      /\ \A j \in Requests : j # i => request'[j] = request[j]
  BY <1>3 DEF Complete, Free, Types
<1> DEFINE m == n - 1
           r == [k \in 1 .. m |-> q[k + 1]]
<1>5. m \in Nat /\ \A k \in 1 .. m : k + 1 \in 1 .. n /\ k + 1 # 1 /\ r[k] = q[k + 1]
  BY <1>2
<1>6. request[i].next = IF m = 0 THEN NULL ELSE r[1]
  <2>1. request[q[1]].next = IF 1 = n THEN NULL ELSE q[2]
    BY <1>2 DEF Line
  <2>2. m # 0 => 1 \in 1 .. m /\ r[1] = q[2]
    BY <1>5
  <2>3. QED
    BY <1>2, <2>1, <2>2
<1>7. \A k \in 1 .. m : request[r[k]].next = IF k = m THEN NULL ELSE r[k + 1]
  <2>1. ASSUME NEW k \in 1 .. m
        PROVE  request[r[k]].next = IF k = m THEN NULL ELSE r[k + 1]
    <3>1. request[q[k + 1]].next = IF k + 1 = n THEN NULL ELSE q[(k + 1) + 1]
      BY <1>5 DEF Line
    <3>2. k # m => k + 1 \in 1 .. m /\ r[k + 1] = q[(k + 1) + 1]
      BY <1>5
    <3>3. k + 1 = n <=> k = m
      BY <1>2
    <3>4. QED
      BY <1>5, <3>1, <3>2, <3>3
  <2>2. QED
    BY <2>1
<1>8. \A k \in 1 .. m : Busy(r[k]) /\ r[k] \in Requests /\ r[k] # i /\ (Adding # {} => r[k] # mine)
  BY <1>3, <1>5 DEF Line
<1>9. \A j, k \in 1 .. m : r[j] = r[k] => j = k
  <2>1. ASSUME NEW j \in 1 .. m, NEW k \in 1 .. m, r[j] = r[k]
        PROVE  j = k
    <3>1. q[j + 1] = q[k + 1]
      BY <1>5, <2>1
    <3>2. j + 1 = k + 1
      BY <1>5, <3>1 DEF Line
    <3>3. QED
      BY <3>2
  <2>2. QED
    BY <2>1
<1>10. r \in [1 .. m -> Requests]
  BY <1>8
<1>11. ~hit => \A j \in Requests : j # i /\ Busy(j) =>
         (Adding # {} /\ j = mine) \/ \E k \in 1 .. m : r[k] = j
  <2>1. ASSUME ~hit, NEW j \in Requests, j # i, Busy(j), ~(Adding # {} /\ j = mine)
        PROVE  \E k \in 1 .. m : r[k] = j
    <3>1. PICK k \in 1 .. n : q[k] = j
      BY <2>1 DEF Line
    <3>2. k # 1
      BY <1>2, <2>1, <3>1
    <3>3. k - 1 \in 1 .. m /\ (k - 1) + 1 = k
      BY <1>2, <3>2
    <3>4. r[k - 1] = q[k]
      BY <3>3
    <3>5. QED
      BY <3>1, <3>3, <3>4
  <2>2. QED
    BY <2>1
<1> HIDE DEF r, m
<1>12. \A k \in 1 .. m : /\ Busy(r[k])' /\ request'[r[k]].next = IF k = m THEN NULL ELSE r[k + 1]
                         /\ Adding' # {} => r[k] # mine'
  BY <1>4, <1>7, <1>8 DEF Busy
<1>13. ~hit' => \A j \in Requests :
         Busy(j)' => (Adding' # {} /\ j = mine') \/ \E k \in 1 .. m : r[k] = j
  BY <1>4, <1>11 DEF Busy
<1>14. this_request' = IF m = 0 THEN NULL ELSE r[1]
  BY <1>4, <1>6
<1>15. \E nn \in Nat : \E qq : Line(qq, nn)'
  <2>1. PICK mm : mm = m
    OBVIOUS
  <2>2. PICK rr : rr = r
    OBVIOUS
  <2>3. Line(rr, mm)'
    BY <1>9, <1>10, <1>12, <1>13, <1>14, <2>1, <2>2 DEF Line
  <2>4. QED
    BY <1>5, <2>1, <2>3
<1>16. this_request' # NULL => /\ this_request' \in Requests /\ this_request' # this_request
                               /\ request'[this_request'].busy
  <2>1. m # 0 => 1 \in 1 .. m
    BY <1>5
  <2>2. QED
    BY <1>8, <1>12, <1>14, <2>1 DEF Busy
<1>17. QED
  BY <1>15, <1>16 DEF Lined

(* The new request is linked in behind one of the queue.                   *)
LEMMA LineLink ==
  ASSUME Types, NEW n \in Nat, NEW q, Line(q, n), NEW k \in 1 .. n,
         Adding # {}, mine \in Requests, Busy(mine), request[mine].next = NULL,
         LinkAfter(q[k]), this_request' = this_request, hit' = hit, Adding' = {}
  PROVE  Lined'
<1> PICK x : x = mine
  OBVIOUS
<1> PICK i : i = q[k]
  OBVIOUS
<1>1. /\ i \in Requests /\ x \in Requests /\ x # i
      /\ \A j \in 1 .. n : q[j] \in Requests /\ q[j] # x /\ Busy(q[j])
      /\ \A j \in 1 .. n : q[j] = i => j = k
  BY DEF Line
<1>2. /\ request'[x].next = request[i].next /\ request'[i].next = x
      /\ \A j \in Requests : request'[j].busy = request[j].busy
      /\ \A j \in Requests : j # i /\ j # x => request'[j].next = request[j].next
  <2>1. request' = [request EXCEPT ![i].next = x, ![x].next = request[i].next]
    BY DEF LinkAfter
  <2>2. /\ request'[x] = [request[x] EXCEPT !.next = request[i].next]
        /\ request'[i] = [request[i] EXCEPT !.next = x]
        /\ \A j \in Requests : j # i /\ j # x => request'[j] = request[j]
    BY <1>1, <2>1 DEF Types
  <2>3. request[x] \in Entry /\ request[i] \in Entry
    BY <1>1 DEF Types
  <2>4. /\ request'[x].next = request[i].next /\ request'[x].busy = request[x].busy
        /\ request'[i].next = x /\ request'[i].busy = request[i].busy
    BY <2>2, <2>3 DEF Entry
  <2>5. QED
    BY <2>2, <2>4
<1> DEFINE r == [j \in 1 .. (n + 1) |-> IF j <= k THEN q[j]
                                       ELSE IF j = k + 1 THEN x ELSE q[j - 1]]
<1>3. /\ \A j \in 1 .. (n + 1) : j <= k => j \in 1 .. n /\ r[j] = q[j]
      /\ \A j \in 1 .. (n + 1) : j > k + 1 => /\ j - 1 \in 1 .. n /\ j - 1 > k
                                             /\ r[j] = q[j - 1]
      /\ k \in 1 .. (n + 1) /\ k + 1 \in 1 .. (n + 1) /\ r[k + 1] = x
  OBVIOUS
<1>4. \A j \in 1 .. (n + 1) : j <= k \/ j = k + 1 \/ j > k + 1
  OBVIOUS
<1> HIDE DEF r
<1>5. \A j \in 1 .. (n + 1) : r[j] \in Requests
  BY <1>1, <1>3, <1>4
<1>6. r \in [1 .. (n + 1) -> Requests]
  BY <1>5 DEF r
<1>7. ASSUME NEW j \in 1 .. (n + 1), NEW l \in 1 .. (n + 1), r[j] = r[l]
      PROVE  j = l
  <2>1. \A a \in 1 .. (n + 1) : a = k + 1 <=> r[a] = x
    BY <1>1, <1>3, <1>4
  <2>2. ASSUME j # k + 1
        PROVE  l # k + 1
    BY <1>7, <2>1, <2>2
  <2>3. CASE j # k + 1
    <3>1. \A a, b \in 1 .. n : q[a] = q[b] => a = b
      BY DEF Line
    <3>2. l # k + 1
      BY <2>2, <2>3
    <3>3. CASE j <= k /\ l <= k
      BY <1>3, <1>7, <3>1, <3>3
    <3>4. CASE j <= k /\ l > k + 1
      <4>1. j = l - 1 /\ l - 1 > k
        BY <1>3, <1>7, <3>1, <3>4
      <4>2. QED
        BY <3>4, <4>1
    <3>5. CASE j > k + 1 /\ l <= k
      <4>1. l = j - 1 /\ j - 1 > k
        BY <1>3, <1>7, <3>1, <3>5
      <4>2. QED
        BY <3>5, <4>1
    <3>6. CASE j > k + 1 /\ l > k + 1
      <4>1. j - 1 = l - 1
        BY <1>3, <1>7, <3>1, <3>6
      <4>2. QED
        BY <4>1
    <3>7. QED
      BY <1>4, <2>3, <3>2, <3>3, <3>4, <3>5, <3>6
  <2>4. QED
    BY <1>7, <2>1, <2>3
<1>8. this_request' = IF n + 1 = 0 THEN NULL ELSE r[1]
  <2>1. 1 \in 1 .. (n + 1) /\ 1 <= k /\ n # 0 /\ n + 1 # 0
    OBVIOUS
  <2>2. r[1] = q[1] /\ this_request = q[1]
    BY <1>3, <2>1 DEF Line
  <2>3. QED
    BY <2>1, <2>2
<1>9. \A j \in 1 .. n : request[q[j]].next = IF j = n THEN NULL ELSE q[j + 1]
  BY DEF Line
<1>10. ASSUME NEW j \in 1 .. (n + 1)
       PROVE  Busy(r[j])' /\ request'[r[j]].next = IF j = n + 1 THEN NULL ELSE r[j + 1]
  <2>1. Busy(r[j])'
    BY <1>1, <1>2, <1>3, <1>4 DEF Busy
  <2>2. CASE j < k
    <3>1. /\ j \in 1 .. n /\ j + 1 \in 1 .. (n + 1) /\ j + 1 <= k /\ j # n /\ j # n + 1
          /\ r[j] = q[j] /\ r[j + 1] = q[j + 1]
      BY <1>3, <2>2
    <3>2. q[j] # i /\ q[j] # x /\ q[j] \in Requests
      BY <1>1, <2>2, <3>1
    <3>3. QED
      BY <1>2, <1>9, <2>1, <3>1, <3>2
  <2>3. CASE j = k
    BY <1>2, <1>3, <2>1, <2>3
  <2>4. CASE j = k + 1
    <3>1. request'[x].next = IF k = n THEN NULL ELSE q[k + 1]
      BY <1>2, <1>9
    <3>2. k # n => (k + 1) + 1 \in 1 .. (n + 1) /\ (k + 1) + 1 > k + 1 /\ ((k + 1) + 1) - 1 = k + 1
      OBVIOUS
    <3>3. k # n => r[(k + 1) + 1] = q[k + 1]
      BY <1>3, <3>2
    <3>4. QED
      BY <1>3, <2>1, <2>4, <3>1, <3>3
  <2>5. CASE j > k + 1
    <3>1. j - 1 \in 1 .. n /\ j - 1 > k /\ r[j] = q[j - 1] /\ (j - 1) + 1 = j
      BY <1>3, <2>5
    <3>2. q[j - 1] # i /\ q[j - 1] # x /\ q[j - 1] \in Requests
      BY <1>1, <3>1
    <3>3. request'[r[j]].next = IF j - 1 = n THEN NULL ELSE q[j]
      BY <1>2, <1>9, <3>1, <3>2
    <3>4. j - 1 # n => /\ j + 1 \in 1 .. (n + 1) /\ j + 1 > k + 1 /\ (j + 1) - 1 = j
      BY <2>5
    <3>5. j - 1 # n => r[j + 1] = q[j]
      BY <1>3, <3>4
    <3>6. j - 1 = n <=> j = n + 1
      OBVIOUS
    <3>7. QED
      BY <2>1, <3>3, <3>5, <3>6
  <2>6. QED
    BY <1>4, <2>2, <2>3, <2>4, <2>5
<1>11. ~hit' => \A j \in Requests :
         Busy(j)' => (Adding' # {} /\ j = mine') \/ \E l \in 1 .. (n + 1) : r[l] = j
  <2>1. ASSUME ~hit, NEW j \in Requests, Busy(j)
        PROVE  \E l \in 1 .. (n + 1) : r[l] = j
    <3>1. CASE j = x
      BY <1>3, <3>1
    <3>2. ASSUME NEW a \in 1 .. n, q[a] = j
          PROVE  \E l \in 1 .. (n + 1) : r[l] = j
      <4>1. CASE a <= k
        BY <1>3, <3>2, <4>1
      <4>2. CASE a > k
        <5>1. a + 1 \in 1 .. (n + 1) /\ a + 1 > k + 1 /\ (a + 1) - 1 = a
          BY <4>2
        <5>2. QED
          BY <1>3, <3>2, <5>1
      <4>3. QED
        BY <4>1, <4>2
    <3>3. QED
      BY <2>1, <3>1, <3>2 DEF Line
  <2>2. QED
    BY <1>2, <2>1 DEF Busy
<1>12. Line(r, n + 1)'
  <2>1. PICK s : s = r
    OBVIOUS
  <2>2. QED
    BY <1>6, <1>7, <1>8, <1>10, <1>11, <2>1 DEF Line
<1>13. QED
  BY <1>12 DEF Lined

-----------------------------------------------------------------------------
(* The walk of add_request                                                 *)

Follows(S, E, nx, f) == f = [i \in S |-> IF i \in E THEN i ELSE f[nx[i]]]

(* Following nx until E is reached is a function, even where nx goes round *)
(* for ever: what all the closed sets with i in them share tells where     *)
(* the walk from i ends.                                                   *)
LEMMA FollowExists ==
  ASSUME NEW S, NEW E, NEW nx, \A i \in S : i \notin E => nx[i] \in S
  PROVE  \E f : Follows(S, E, nx, f)
<1> DEFINE Closed(X) == \A x \in X : x \in E \/ nx[x] \in X
           T(i) == {x \in E : \A X \in SUBSET S : i \in X /\ Closed(X) => x \in X}
           f == [i \in S |-> CHOOSE j : j \in T(i)]
<1>1. ASSUME NEW i \in S, i \in E
      PROVE  T(i) = {i}
  <2>1. {i} \in SUBSET S /\ i \in {i} /\ Closed({i})
    BY <1>1
  <2>2. \A x \in T(i) : x \in {i}
    BY <2>1
  <2>3. i \in T(i)
    BY <1>1
  <2>4. QED
    BY <2>2, <2>3
<1>2. ASSUME NEW i \in S, i \notin E
      PROVE  T(i) = T(nx[i])
  <2>1. ASSUME NEW x \in T(i), NEW X \in SUBSET S, nx[i] \in X, Closed(X)
        PROVE  x \in X
    <3>1. X \cup {i} \in SUBSET S /\ i \in X \cup {i} /\ Closed(X \cup {i})
      BY <1>2, <2>1
    <3>2. x \in X \cup {i}
      BY <2>1, <3>1
    <3>3. x # i
      BY <1>2, <2>1
    <3>4. QED
      BY <3>2, <3>3
  <2>2. ASSUME NEW x \in T(nx[i]), NEW X \in SUBSET S, i \in X, Closed(X)
        PROVE  x \in X
    <3>1. nx[i] \in X
      BY <1>2, <2>2
    <3>2. QED
      BY <2>2, <3>1
  <2>3. \A x \in T(i) : x \in T(nx[i])
    BY <2>1
  <2>4. \A x \in T(nx[i]) : x \in T(i)
    BY <2>2
  <2>5. QED
    BY <2>3, <2>4
<1> HIDE DEF T
<1>3. ASSUME NEW i \in S
      PROVE  f[i] = IF i \in E THEN i ELSE f[nx[i]]
  <2>1. CASE i \in E
    <3>1. f[i] = CHOOSE j : j \in {i}
      BY <1>1, <1>3, <2>1
    <3>2. (CHOOSE j : j \in {i}) = i
      OBVIOUS
    <3>3. QED
      BY <2>1, <3>1, <3>2
  <2>2. CASE i \notin E
    BY <1>2, <1>3, <2>2
  <2>3. QED
    BY <2>1, <2>2
<1>4. f = [i \in S |-> f[i]]
  OBVIOUS
<1> HIDE DEF f
<1>5. Follows(S, E, nx, f)
  BY <1>3, <1>4, Zenon DEF Follows
<1>6. QED
  BY <1>5

(* What the walk from every request comes to.                              *)
WalkOf(new, s) ==
  s = [i \in Requests |-> IF request[i].next = NULL \/ Fits(i, new) THEN i
                          ELSE s[request[i].next]]

(* Walk is such a function.                                                *)
LEMMA WalkIs ==
  ASSUME Types, NEW new
  PROVE  \E s : WalkOf(new, s) /\ \A from : Walk(from, new) = s[from]
<1> DEFINE nx == [i \in Requests |-> request[i].next]
           E == {i \in Requests : request[i].next = NULL \/ Fits(i, new)}
<1>1. \A i \in Requests : request[i].next \in 0 .. NR_REQUEST
  BY DEF Types, Entry
<1>2. \A i \in Requests : i \notin E => nx[i] \in Requests
  BY <1>1, RequestAssumption DEF Requests, NULL
<1>3. \E f : Follows(Requests, E, nx, f)
  <2> HIDE DEF nx, E
  <2>1. QED
    BY <1>2, FollowExists
<1>4. PICK f : f = [i \in Requests |-> IF i \in E THEN i ELSE f[nx[i]]]
  BY <1>3 DEF Follows
<1>5. \A i \in Requests : /\ i \in E <=> request[i].next = NULL \/ Fits(i, new)
                          /\ nx[i] = request[i].next
  OBVIOUS
<1> HIDE DEF E, nx
<1>6. f = [i \in Requests |-> IF request[i].next = NULL \/ Fits(i, new) THEN i
                              ELSE f[request[i].next]]
  BY <1>4, <1>5
<1> DEFINE s == CHOOSE g : WalkOf(new, g)
<1>7. WalkOf(new, s)
  BY <1>6 DEF WalkOf
<1>8. \A from : Walk(from, new) = s[from]
  BY Zenon DEF Walk, WalkOf
<1>9. QED
  BY <1>7, <1>8

(* The walk from a request of the queue ends at one of the queue.          *)
LEMMA WalkEnds ==
  ASSUME Types, NEW n \in Nat, NEW q, Line(q, n), NEW j \in 1 .. n, NEW new
  PROVE  \E k \in 1 .. n : Walk(q[j], new) = q[k]
<1>1. PICK s : WalkOf(new, s) /\ \A from : Walk(from, new) = s[from]
  BY WalkIs
<1>2. \A l \in 1 .. n : /\ q[l] \in Requests
                        /\ request[q[l]].next = IF l = n THEN NULL ELSE q[l + 1]
  BY DEF Line
<1>3. \A i \in Requests : s[i] = i \/ (request[i].next # NULL /\ s[i] = s[request[i].next])
  BY <1>1 DEF WalkOf
<1> DEFINE Ends(l) == \E k \in 1 .. n : s[q[l]] = q[k]
           Left == {d \in Nat : \E l \in 1 .. n : n - l = d /\ ~Ends(l)}
           d == Min(Left)
<1>4. Left = {}
  <2>1. SUFFICES ASSUME Left # {}
                 PROVE  FALSE
    OBVIOUS
  <2>2. d \in Left /\ \A e \in Left : d <= e
    BY <2>1, NatMin
  <2> HIDE DEF d
  <2>3. PICK l \in 1 .. n : n - l = d /\ ~Ends(l)
    BY <2>2
  <2>4. s[q[l]] # q[l]
    BY <2>3
  <2>5. request[q[l]].next # NULL /\ s[q[l]] = s[request[q[l]].next]
    BY <1>2, <1>3, <2>4
  <2>6. l # n /\ request[q[l]].next = q[l + 1]
    BY <1>2, <2>5
  <2>7. l + 1 \in 1 .. n /\ n - (l + 1) \in Nat /\ n - (l + 1) < d
    BY <2>3, <2>6
  <2>8. ~Ends(l + 1)
    BY <2>3, <2>5, <2>6
  <2>9. n - (l + 1) \in Left
    BY <2>7, <2>8
  <2>10. QED
    BY <2>2, <2>7, <2>9
<1>5. Ends(j)
  <2>1. n - j \in Nat
    OBVIOUS
  <2>2. QED
    BY <1>4, <2>1
<1>6. QED
  BY <1>1, <1>5

(* The new request becomes the first, or is linked behind another.         *)
Placed ==
  \/ this_request = NULL /\ this_request' = mine /\ request' = request
  \/ /\ this_request' = this_request
     /\ \E i \in Requests : i # mine /\ LinkAfter(i)

(* add_request puts the new request into the queue, wherever the first has *)
(* gone since it looked.                                                   *)
LEMMA LineInsert ==
  ASSUME HdInv, NEW p \in Procs, Insert(p), Adding = {p}, Adding' = {}
  PROVE  Lined' /\ Placed
<1>1. PICK n \in Nat : \E q : Line(q, n)
  BY DEF HdInv, Lined
<1> PICK q : Line(q, n)
  BY <1>1
<1>2. /\ mine \in Requests /\ Busy(mine) /\ request[mine].next = NULL
      /\ tmp \in 0 .. NR_REQUEST /\ tmp # mine
      /\ tmp = this_request \/ (tmp # NULL /\ Behind)
  BY DEF HdInv, Adder, Insert
<1>3. Types /\ hit' = hit /\ Adding # {} /\ mine' = mine /\ p \in Adding
  BY DEF HdInv, Insert
<1>4. /\ this_request = IF n = 0 THEN NULL ELSE q[1]
      /\ \A l \in 1 .. n : request[q[l]].next = IF l = n THEN NULL ELSE q[l + 1]
      /\ \A l \in 1 .. n : q[l] # NULL
  BY DEF Line, Requests, NULL
<1>5. ASSUME NEW k \in 1 .. n, LinkAfter(q[k]), this_request' = this_request
      PROVE  Lined' /\ Placed
  <2>1. q[k] \in Requests /\ q[k] # mine
    BY <1>3 DEF Line
  <2>2. Lined'
    BY <1>2, <1>3, <1>5, LineLink
  <2>3. QED
    BY <1>5, <2>1, <2>2 DEF Placed
<1>6. CASE tmp = NULL
  <2>1. n = 0
    <3>1. n # 0 => 1 \in 1 .. n
      OBVIOUS
    <3>2. QED
      BY <1>2, <1>4, <1>6, <3>1
  <2>2. this_request' = mine /\ request' = request
    BY <1>6 DEF Insert
  <2> DEFINE r == [k \in 1 .. 1 |-> mine]
  <2>3. r \in [1 .. 1 -> Requests] /\ r[1] = mine /\ \A k \in 1 .. 1 : k = 1
    BY <1>2
  <2>4. ~hit => \A i \in Requests : Busy(i) => i = mine
    BY <2>1 DEF Line
  <2> HIDE DEF r
  <2>5. PICK x : x = r
    OBVIOUS
  <2>6. Line(x, 1)'
    BY <1>2, <1>3, <2>2, <2>3, <2>4, <2>5 DEF Line, Busy
  <2>7. this_request = NULL
    BY <1>4, <2>1
  <2>8. QED
    BY <2>2, <2>6, <2>7 DEF Lined, Placed
<1>7. CASE tmp # NULL /\ tmp = this_request
  <2>1. n # 0 /\ 1 \in 1 .. n /\ tmp = q[1]
    BY <1>4, <1>7
  <2>2. CASE request[tmp].next = NULL
    <3>1. LinkAfter(q[1]) /\ this_request' = this_request
      BY <1>7, <2>1, <2>2 DEF Insert
    <3>2. QED
      BY <1>5, <2>1, <3>1
  <2>3. CASE request[tmp].next # NULL
    <3>1. n # 1 /\ 2 \in 1 .. n /\ request[tmp].next = q[2]
      BY <1>4, <2>1, <2>3
    <3>2. PICK k \in 1 .. n : Walk(q[2], mine) = q[k]
      BY <1>3, <3>1, WalkEnds
    <3>3. LinkAfter(q[k]) /\ this_request' = this_request
      BY <1>7, <2>3, <3>1, <3>2 DEF Insert
    <3>4. QED
      BY <1>5, <3>3
  <2>4. QED
    BY <2>2, <2>3
<1>8. CASE tmp # NULL /\ tmp # this_request
  <2>1. request[tmp].next = this_request /\ hit
    BY <1>2, <1>8 DEF Behind
  <2>2. CASE this_request = NULL
    <3>1. n = 0
      <4>1. n # 0 => 1 \in 1 .. n
        OBVIOUS
      <4>2. QED
        BY <1>4, <2>2, <4>1
    <3>2. this_request' = NULL /\ hit'
      BY <1>3, <1>8, <2>1, <2>2 DEF Insert
    <3>3. Line(q, n)'
      BY <3>1, <3>2 DEF Line
    <3>4. this_request' = this_request /\ LinkAfter(tmp) /\ tmp \in Requests
      <4>1. tmp \in Requests
        BY <1>2, <1>8, RequestAssumption DEF Requests, NULL
      <4>2. QED
        BY <1>8, <2>1, <2>2, <4>1 DEF Insert
    <3>5. QED
      BY <1>2, <3>3, <3>4 DEF Lined, Placed
  <2>3. CASE this_request # NULL
    <3>1. 1 \in 1 .. n /\ this_request = q[1]
      BY <1>4, <2>3
    <3>2. PICK k \in 1 .. n : Walk(q[1], mine) = q[k]
      BY <1>3, <3>1, WalkEnds
    <3>3. LinkAfter(q[k]) /\ this_request' = this_request
      BY <1>8, <2>1, <2>3, <3>1, <3>2 DEF Insert
    <3>4. QED
      BY <1>5, <3>3
  <2>4. QED
    BY <2>2, <2>3
<1>9. QED
  BY <1>2, <1>6, <1>7, <1>8

-----------------------------------------------------------------------------
(* The drive and the data                                                  *)

Handlers == {"NULL", "read_intr", "write_intr", "do_request"}
Operations == [op : {"none", "specify", "read", "write"}, at : 0 .. 2]
Movements == [Procs -> [0 .. 1 -> {"no", "right", "wrong"}]]

(* A sector is moved, and nothing else.                                    *)
Moves(mv, b, at, half, mw) ==
  /\ mw \in Movements
  /\ mw[b][at] = IF at = half THEN "right" ELSE "wrong"
  /\ mw[b][1 - at] = mv[b][1 - at]
  /\ \A p \in Procs : p # b => mw[p] = mv[p]

(* Move does that.                                                         *)
LEMMA MoveOne ==
  ASSUME NEW mv \in Movements, NEW b \in Procs, NEW at \in 0 .. 1, NEW half
  PROVE  Moves(mv, b, at, half, Move(mv, b, at, half))
<1> DEFINE w == IF at = half THEN "right" ELSE "wrong"
           mw == [mv EXCEPT ![b][at] = w]
<1>1. mv[b] \in [0 .. 1 -> {"no", "right", "wrong"}] /\ w \in {"no", "right", "wrong"}
  BY DEF Movements
<1> HIDE DEF w
<1>2. mw[b] = [mv[b] EXCEPT ![at] = w] /\ \A p \in Procs : p # b => mw[p] = mv[p]
  BY DEF Movements
<1>3. /\ mw[b] \in [0 .. 1 -> {"no", "right", "wrong"}]
      /\ mw[b][at] = w /\ mw[b][1 - at] = mv[b][1 - at]
  <2>1. 1 - at \in 0 .. 1 /\ 1 - at # at
    OBVIOUS
  <2>2. QED
    BY <1>1, <1>2, <2>1
<1>4. mw \in Movements
  BY <1>2, <1>3 DEF Movements
<1>5. Moves(mv, b, at, half, mw)
  BY <1>2, <1>3, <1>4 DEF Moves, w
<1>6. QED
  BY <1>5 DEF Move, w

(* What the drive and the handler are after do_request, and what of the    *)
(* data has been moved.                                                    *)
Commanded(sort, rq, t, mv) ==
  /\ do_hd' \in Handlers /\ drive' \in Operations /\ moved' \in Movements
  /\ drive'.op = "specify" => do_hd' = "do_request"
  /\ drive'.op = "read" => do_hd' = "read_intr" /\ t # NULL
  /\ drive'.op = "write" =>
       /\ do_hd' = "write_intr" /\ t # NULL /\ drive'.at = 1
       /\ rq[t].nsector = 2 => moved'[rq[t].bh][0] = "right"
  /\ sort => drive'.op \in {"none", "specify"}
  /\ ~sort /\ (t # NULL \/ do_hd' # "NULL") => drive'.op # "none"
  /\ \A p \in Procs : (t = NULL \/ p # rq[t].bh) => moved'[p] = mv[p]

(* do_request gives the first request to the drive, if it may.             *)
LEMMA GivesCommand ==
  ASSUME NEW sort \in BOOLEAN, NEW rq, NEW t, t # NULL => rq[t].bh \in Procs,
         do_hd \in Handlers, NEW mv \in Movements, DoRequest(sort, rq, t, mv)
  PROVE  Commanded(sort, rq, t, mv)
<1>1. /\ Idle \in Operations /\ Specify \in Operations
      /\ [op |-> "read", at |-> 0] \in Operations /\ [op |-> "write", at |-> 1] \in Operations
      /\ Idle.op = "none" /\ Specify.op = "specify"
  BY DEF Idle, Specify, Operations
<1>2. CASE sort \/ t = NULL
  BY <1>1, <1>2 DEF DoRequest, Commanded, Handlers
<1>3. CASE ~sort /\ t # NULL /\ do_hd' = "write_intr" /\ drive' = [op |-> "write", at |-> 1]
           /\ moved' = Move(mv, rq[t].bh, 0, FirstHalf(rq[t].nsector))
  <2> DEFINE b == rq[t].bh
             h == FirstHalf(rq[t].nsector)
  <2>1. b \in Procs /\ 0 \in 0 .. 1
    BY <1>3
  <2>2. rq[t].nsector = 2 => h = 0
    BY DEF FirstHalf
  <2>3. moved' = Move(mv, b, 0, h)
    BY <1>3
  <2> HIDE DEF b, h
  <2>4. Moves(mv, b, 0, h, moved')
    BY <2>1, <2>3, MoveOne
  <2>5. /\ moved' \in Movements /\ \A p \in Procs : p # b => moved'[p] = mv[p]
        /\ rq[t].nsector = 2 => moved'[b][0] = "right"
    BY <2>2, <2>4 DEF Moves
  <2>6. QED
    BY <1>1, <1>3, <2>5 DEF Commanded, Handlers, b
<1>4. CASE ~sort /\ t # NULL /\ moved' = mv
           /\ \/ do_hd' = "read_intr" /\ drive' = [op |-> "read", at |-> 0]
              \/ do_hd' = "do_request" /\ drive' = Specify
  BY <1>1, <1>4 DEF Commanded, Handlers
<1>5. QED
  BY <1>2, <1>3, <1>4 DEF DoRequest

(* The request being added is not the first.                               *)
LEMMA MineWaits ==
  ASSUME Lined, this_request # NULL, Adding # {}
  PROVE  this_request # mine
<1>1. PICK n \in Nat : \E q : Line(q, n)
  BY DEF Lined
<1> PICK q : Line(q, n)
  BY <1>1
<1>2. n # 0 /\ this_request = q[1]
  BY DEF Line
<1>3. 1 \in 1 .. n
  BY <1>2
<1>4. QED
  BY <1>2, <1>3 DEF Line

(* Only the first request can have been moved in part.                     *)
LEMMA WholeRequests ==
  ASSUME Written, drive.op # "write"
  PROVE  \A i \in Requests : Busy(i) /\ request[i].errors = 0 => request[i].nsector = 2
BY DEF Written

(* Resetting the drive is one of the outcomes of do_request.               *)
LEMMA Resets ==
  ASSUME NEW sort \in BOOLEAN, NEW rq, NEW t, NEW mv \in Movements,
         do_hd' = "do_request", drive' = Specify, moved' = mv
  PROVE  Commanded(sort, rq, t, mv)
<1>1. Specify \in Operations /\ Specify.op = "specify"
  BY DEF Specify, Operations
<1>2. QED
  BY <1>1 DEF Commanded, Handlers

-----------------------------------------------------------------------------
(* The steps of the interrupt handlers                                     *)

(* An entry has the types of its fields, and may get other values.         *)
LEMMA EntryTypes ==
  ASSUME Types, NEW i \in Requests
  PROVE  /\ request[i].busy \in BOOLEAN /\ request[i].nsector \in 0 .. 2
         /\ request[i].errors \in 0 .. MAX_ERRORS
         /\ request[i].bh \in Procs \cup {NoProc} /\ request[i].next \in 0 .. NR_REQUEST
         /\ Free(request[i].next) \in Entry
<1>1. request[i] \in Entry
  BY DEF Types
<1>2. /\ request[i].busy \in BOOLEAN /\ request[i].nsector \in 0 .. 2
      /\ request[i].errors \in 0 .. MAX_ERRORS
      /\ request[i].bh \in Procs \cup {NoProc} /\ request[i].next \in 0 .. NR_REQUEST
  BY <1>1 DEF Entry
<1> DEFINE x == request[i].next
<1>3. x \in 0 .. NR_REQUEST /\ 0 \in 0 .. MAX_ERRORS /\ 0 \in 0 .. 2
  BY <1>2, ErrorsAssumption
<1> HIDE DEF x
<1>4. Free(x) \in Entry
  BY <1>3 DEF Free, Entry
<1>5. QED
  BY <1>2, <1>4 DEF x

(* A transfer is over, and the next begins or the drive is reset.          *)
LEMMA Completed ==
  ASSUME HdInv, drive.op \in {"read", "write"}, NEW ok \in BOOLEAN, Complete(ok),
         NEW mv \in Movements, Commanded(sorting, request, this_request', mv)
  PROVE  HdInv'
<1> PICK i : i = this_request
  OBVIOUS
<1>1. /\ i \in Requests /\ i # NULL /\ Busy(i) /\ request[i].bh \in Procs
      /\ Types /\ Entries /\ Adder /\ Lined /\ Written
  BY Served DEF HdInv
<1>2. /\ request' = [request EXCEPT ![i] = Free(request[i].next)]
      /\ this_request' = request[i].next
      /\ \A j \in Requests : j # i => request'[j] = request[j]
      /\ ~request'[i].busy
      /\ UNCHANGED <<sorting, mine, tmp>>
  BY <1>1 DEF Complete, Free, Types
<1>3. SamePlaces /\ Adding' = Adding
  BY DEF Complete, WakeWaiters, SamePlaces, InDriver, Adding
<1>4. /\ hit => hit'
      /\ sorting => hit'
      /\ hit' \in BOOLEAN
  BY <1>1 DEF Complete, Hits, Types
<1>5. Types'
  <2>1. request' \in [Requests -> Entry] /\ this_request' \in 0 .. NR_REQUEST
    BY <1>1, <1>2, EntryTypes DEF Types
  <2>2. pc' \in [Procs -> PC]
    BY <1>1 DEF Complete, WakeWaiters, Types, PC
  <2>3. lock' \in [Procs -> BOOLEAN] /\ uptodate' \in [Procs -> BOOLEAN] /\ sorting' \in BOOLEAN
    BY <1>1 DEF Complete, Types
  <2>4. QED
    BY <1>4, <2>1, <2>2, <2>3 DEF Types, Commanded, Handlers, Operations, Movements
<1>6. Entries'
  BY <1>1, EntriesOver
<1>7. Lined' /\ (this_request' # NULL => /\ this_request' \in Requests /\ this_request' # i
                                         /\ request'[this_request'].busy)
  BY <1>1, <1>3, LineOver
<1>8. Adder'
  <2>1. Adding # {} => mine # i
    BY <1>1, MineWaits
  <2>2. \A p \in Adding : /\ request'[mine].busy /\ request'[mine].bh = p
                          /\ request'[mine].next = NULL
    BY <1>1, <1>2, <2>1 DEF Adder, Busy
  <2>3. ASSUME NEW p \in Procs, pc[p] = "insert"
        PROVE  tmp = this_request' \/ (tmp # NULL /\ Behind')
    <3>1. tmp = i /\ sorting
      BY <1>1, <2>3 DEF Adder, Behind
    <3>2. request'[i].next = request[i].next
      BY <1>1, <1>2 DEF Types, Free
    <3>3. drive'.op \in {"none", "specify"} /\ hit'
      BY <1>4, <3>1 DEF Commanded
    <3>4. tmp' = tmp
      BY <1>2
    <3>5. Behind'
      BY <1>2, <3>1, <3>2, <3>3, <3>4 DEF Behind
    <3>6. QED
      BY <1>1, <3>1, <3>5
  <2>4. UNCHANGED <<sorting, mine, tmp>>
    BY <1>2
  <2>5. QED
    BY <1>1, <1>3, <2>2, <2>3, <2>4, AdderKept
<1>9. Driven'
  BY <1>2, <1>4 DEF Commanded, Driven
<1>10. Written'
  <2>1. \A j \in Requests : request'[j].busy /\ request'[j].errors = 0 => request'[j].nsector = 2
    BY <1>1, <1>2 DEF Written, Busy
  <2> PICK t : t = this_request'
    OBVIOUS
  <2>2. ASSUME drive'.op = "write"
        PROVE  /\ drive'.at = 1
               /\ request'[t].errors = 0 => /\ moved'[request'[t].bh][0] = "right"
                                            /\ request'[t].nsector = 2
    <3>1. t \in Requests /\ t # i /\ request'[t].busy
      BY <1>7, <2>2 DEF Commanded
    <3>2. request'[t] = request[t]
      BY <1>2, <3>1
    <3>3. QED
      BY <2>1, <2>2, <3>1, <3>2 DEF Commanded
  <2>3. QED
    BY <2>1, <2>2 DEF Written, Busy
<1>11. QED
  BY <1>5, <1>6, <1>7, <1>8, <1>9, <1>10 DEF HdInv

(* A handler that frees no entry leaves processes and the queue alone.     *)
StillServed ==
  /\ SameEntries
  /\ \A i \in Requests : request'[i].next = request[i].next
  /\ UNCHANGED <<this_request, pc, lock, uptodate, sorting, mine, tmp>>
  /\ hit => hit'

(* What concerns only them goes on to hold.                                *)
LEMMA StillQueued ==
  ASSUME HdInv, StillServed, sorting /\ Behind => drive'.op \in {"none", "specify"}
  PROVE  Entries' /\ Adder' /\ Lined'
<1>1. Entries /\ Adder /\ Lined
  BY DEF HdInv
<1>2. SameSleep /\ SamePlaces /\ Adding' = Adding
  BY DEF StillServed, SameSleep, SamePlaces, Adding
<1>3. Entries'
  BY <1>1, <1>2, EntriesKept DEF StillServed
<1>4. SameLinks
  BY <1>2 DEF StillServed, SameEntries, SameLinks
<1>5. Lined'
  BY <1>1, <1>4, LineKept DEF StillServed
<1>6. \A p \in Adding : /\ request'[mine].busy /\ request'[mine].bh = p
                        /\ request'[mine].next = NULL
  BY <1>1 DEF StillServed, SameEntries, Adder, Busy
<1>7. ASSUME NEW p \in Procs, pc[p] = "insert"
      PROVE  tmp = this_request' \/ (tmp # NULL /\ Behind')
  <2>1. /\ tmp = this_request \/ (tmp # NULL /\ Behind)
        /\ tmp \in 0 .. NR_REQUEST /\ sorting
    BY <1>1, <1>7 DEF Adder
  <2>2. tmp # NULL => tmp \in Requests
    BY <2>1, RequestAssumption DEF Requests, NULL
  <2>3. tmp # NULL /\ Behind => Behind'
    BY <2>1, <2>2 DEF StillServed, Behind
  <2>4. QED
    BY <2>1, <2>3 DEF StillServed
<1>8. UNCHANGED <<sorting, mine, tmp>>
  BY DEF StillServed
<1>9. Adder'
  BY <1>1, <1>2, <1>6, <1>7, <1>8, AdderKept
<1>10. QED
  BY <1>3, <1>5, <1>9

(* A failure is counted, and the drive reset.                              *)
LEMMA Retried ==
  ASSUME HdInv, drive.op \in {"read", "write"}, request[this_request].errors < MAX_ERRORS,
         request' = [request EXCEPT ![this_request].errors = @ + 1],
         UNCHANGED <<this_request, lock, uptodate, callVars, sorting, hit, moved>>,
         do_hd' = "do_request", drive' = Specify
  PROVE  HdInv'
<1> PICK i : i = this_request
  OBVIOUS
<1>1. /\ i \in Requests /\ i # NULL /\ Busy(i) /\ request[i].bh \in Procs
      /\ Types /\ Entries /\ Written
  BY Served DEF HdInv
<1>2. /\ request[i] \in Entry /\ request'[i] = [request[i] EXCEPT !.errors = @ + 1]
      /\ \A j \in Requests : j # i => request'[j] = request[j]
  BY <1>1 DEF Types
<1>3. /\ request'[i].busy = request[i].busy /\ request'[i].bh = request[i].bh
      /\ request'[i].next = request[i].next /\ request'[i].nsector = request[i].nsector
      /\ request'[i].errors = request[i].errors + 1
  BY <1>2 DEF Entry
<1>4. request[i].errors \in 0 .. MAX_ERRORS /\ request[i].errors < MAX_ERRORS
  BY <1>1, EntryTypes
<1>5. request[i].errors + 1 \in 0 .. MAX_ERRORS /\ request[i].errors + 1 # 0
  BY <1>4, ErrorsAssumption
<1>6. request'[i] \in Entry
  BY <1>2, <1>5 DEF Entry
<1>7. request' \in [Requests -> Entry]
  BY <1>1, <1>2, <1>6 DEF Types
<1>8. drive' \in Operations /\ drive'.op = "specify" /\ do_hd' \in Handlers /\ do_hd' = "do_request"
  BY DEF Specify, Operations, Handlers
<1>9. Types'
  BY <1>1, <1>7, <1>8 DEF Types, callVars, Operations, Handlers
<1>10. StillServed
  BY <1>2, <1>3 DEF StillServed, SameEntries, callVars
<1>11. Entries' /\ Adder' /\ Lined'
  BY <1>8, <1>10, StillQueued
<1>12. Driven'
  BY <1>8 DEF Driven
<1>13. Written'
  <2>1. \A j \in Requests : ~(request'[j].busy /\ request'[j].errors = 0 /\ request'[j].nsector # 2)
    BY <1>1, <1>2, <1>3, <1>4, <1>5 DEF Written, Busy
  <2>2. QED
    BY <1>8, <2>1 DEF Written, Busy
<1>14. QED
  BY <1>9, <1>11, <1>12, <1>13 DEF HdInv

(* bad_rw_intr.                                                            *)
LEMMA Failed ==
  ASSUME HdInv, drive.op \in {"read", "write"}, BadRwIntr
  PROVE  HdInv'
<1>1. Types
  BY DEF HdInv
<1>2. CASE request[this_request].errors >= MAX_ERRORS
  <2>1. Complete(FALSE) /\ do_hd' = "do_request" /\ drive' = Specify /\ moved' = moved
    BY <1>2 DEF BadRwIntr
  <2>2. moved \in Movements /\ sorting \in BOOLEAN
    BY <1>1 DEF Types, Movements
  <2>3. Commanded(sorting, request, this_request', moved)
    BY <2>1, <2>2, Resets
  <2>4. QED
    BY <2>1, <2>2, <2>3, Completed
<1>3. CASE ~(request[this_request].errors >= MAX_ERRORS)
  <2>1. this_request \in Requests
    BY Served
  <2>2. request[this_request].errors < MAX_ERRORS
    BY <1>1, <1>3, <2>1, EntryTypes, ErrorsAssumption
  <2>3. /\ request' = [request EXCEPT ![this_request].errors = @ + 1]
        /\ UNCHANGED <<this_request, lock, uptodate, callVars, sorting, hit, moved>>
        /\ do_hd' = "do_request" /\ drive' = Specify
    BY <1>3 DEF BadRwIntr
  <2>4. QED
    BY <2>2, <2>3, Retried
<1>4. QED
  BY <1>2, <1>3

(* The request that follows belongs to another process.                    *)
LEMMA NextFirst ==
  ASSUME HdInv, drive.op \in {"read", "write"}, NEW ok, Complete(ok), this_request' # NULL
  PROVE  /\ this_request' \in Requests /\ request[this_request'].bh \in Procs
         /\ request[this_request'].bh # request[this_request].bh
<1> PICK i : i = this_request
  OBVIOUS
<1> PICK t : t = this_request'
  OBVIOUS
<1>1. /\ i \in Requests /\ i # NULL /\ Busy(i) /\ request[i].bh \in Procs
      /\ Types /\ Entries /\ Lined
  BY Served DEF HdInv
<1>2. Adding' = Adding
  BY DEF Complete, WakeWaiters, Adding
<1>3. t \in Requests /\ t # i /\ request'[t].busy
  BY <1>1, <1>2, LineOver
<1>4. Busy(t)
  BY <1>1, <1>3 DEF Complete, Types, Busy
<1>5. QED
  BY <1>1, <1>3, <1>4 DEF Entries

(* What a read has moved when it is over.                                  *)
BothHalves(b) == Move(Move(moved, b, 0, 0), b, 1, 1)

(* Both halves, to where they belong.                                      *)
LEMMA ReadMoves ==
  ASSUME Types, NEW b \in Procs
  PROVE  /\ BothHalves(b) \in Movements
         /\ BothHalves(b)[b][0] = "right" /\ BothHalves(b)[b][1] = "right"
<1> DEFINE mv == Move(moved, b, 0, 0)
           mw == Move(mv, b, 1, 1)
<1>1. moved \in Movements /\ 0 \in 0 .. 1 /\ 1 \in 0 .. 1
  BY DEF Types, Movements
<1>2. Moves(moved, b, 0, 0, mv)
  BY <1>1, MoveOne
<1>3. mv \in Movements /\ mv[b][0] = "right"
  BY <1>2 DEF Moves
<1> HIDE DEF mv
<1>4. Moves(mv, b, 1, 1, mw)
  BY <1>1, <1>3, MoveOne
<1>5. mw \in Movements /\ mw[b][1] = "right" /\ mw[b][0] = "right"
  BY <1>3, <1>4 DEF Moves
<1>6. QED
  BY <1>5 DEF BothHalves, mv

(* read_intr.                                                              *)
LEMMA InvRead ==
  ASSUME HdInv, ReadIntr
  PROVE  HdInv'
<1> PICK b : b = request[this_request].bh
  OBVIOUS
<1>1. drive.op = "read" /\ Types /\ b \in Procs
  BY Served DEF ReadIntr, HdInv
<1>2. CASE BadRwIntr
  BY <1>1, <1>2, Failed
<1>3. CASE Complete(TRUE) /\ DoRequest(sorting, request, this_request', BothHalves(b))
  <2>1. BothHalves(b) \in Movements
    BY <1>1, ReadMoves
  <2>2. this_request' # NULL => request[this_request'].bh \in Procs
    BY <1>1, <1>3, NextFirst
  <2>3. sorting \in BOOLEAN /\ do_hd \in Handlers
    BY <1>1 DEF Types, Handlers
  <2>4. Commanded(sorting, request, this_request', BothHalves(b))
    BY <1>3, <2>1, <2>2, <2>3, GivesCommand
  <2>5. QED
    BY <1>1, <1>3, <2>1, <2>4, Completed
<1>4. QED
  BY <1>2, <1>3 DEF ReadIntr, BothHalves

(* The drive has taken the first sector of a write, and gets the second.   *)
SecondHalf ==
  /\ request[this_request].nsector = 2
  /\ request' = [request EXCEPT ![this_request].nsector = 1]
  /\ moved' = Move(moved, request[this_request].bh, drive.at, 1)
  /\ drive' = [drive EXCEPT !.at = @ + 1]
  /\ UNCHANGED <<this_request, do_hd, timeouts, sorting, lock, uptodate, callVars, hit>>

(* The second half goes to the second sector.                              *)
LEMMA InvSecondHalf ==
  ASSUME HdInv, drive.op = "write", SecondHalf
  PROVE  HdInv'
<1> PICK i : i = this_request
  OBVIOUS
<1> PICK b : b = request[i].bh
  OBVIOUS
<1>1. /\ i \in Requests /\ i # NULL /\ Busy(i) /\ b \in Procs
      /\ Types /\ Entries /\ Written /\ Driven
  BY Served DEF HdInv
<1>2. /\ request[i] \in Entry /\ request'[i] = [request[i] EXCEPT !.nsector = 1]
      /\ \A j \in Requests : j # i => request'[j] = request[j]
  BY <1>1 DEF Types, SecondHalf
<1>3. /\ request'[i].busy = request[i].busy /\ request'[i].bh = b
      /\ request'[i].next = request[i].next /\ request'[i].nsector = 1
      /\ request'[i].errors = request[i].errors
      /\ request'[i] \in Entry
  BY <1>2 DEF Entry
<1>4. request' \in [Requests -> Entry]
  BY <1>1, <1>2, <1>3 DEF Types, SecondHalf
<1>5. /\ drive.at = 1
      /\ request[i].errors = 0 => moved[b][0] = "right"
  BY <1>1 DEF Written, SecondHalf
<1>6. /\ drive' \in Operations /\ drive'.op = "write" /\ do_hd' \in Handlers
      /\ do_hd' = "write_intr"
  <2>1. drive \in Operations
    BY <1>1 DEF Types, Operations
  <2>2. drive' = [op |-> "write", at |-> 2]
    BY <1>5, <2>1 DEF SecondHalf, Operations
  <2>3. drive' \in Operations /\ drive'.op = "write"
    BY <2>2 DEF Operations
  <2>4. do_hd' = "write_intr"
    BY <1>1 DEF SecondHalf, Driven
  <2>5. QED
    BY <2>3, <2>4 DEF Handlers
<1>7. Moves(moved, b, 1, 1, moved')
  <2>1. moved \in Movements /\ 1 \in 0 .. 1 /\ moved' = Move(moved, b, 1, 1)
    BY <1>1, <1>5 DEF Types, Movements, SecondHalf
  <2>2. QED
    BY <1>1, <2>1, MoveOne
<1>8. /\ moved' \in Movements /\ moved'[b][1] = "right"
      /\ request[i].errors = 0 => moved'[b][0] = "right"
  BY <1>5, <1>7 DEF Moves
<1>9. Types'
  BY <1>1, <1>4, <1>6, <1>8 DEF Types, SecondHalf, callVars, Operations, Handlers, Movements
<1>10. StillServed
  BY <1>2, <1>3 DEF StillServed, SameEntries, SecondHalf, callVars
<1>11. Entries' /\ Adder' /\ Lined'
  BY <1>10, StillQueued DEF Behind
<1>12. Driven'
  BY <1>1, <1>6 DEF SecondHalf, Driven
<1>13. Written'
  <2>1. \A j \in Requests :
          request'[j].busy /\ request'[j].errors = 0 /\ request'[j].nsector # 2 => j = i
    BY <1>1, <1>2 DEF Written, Busy
  <2>2. this_request' = i /\ request'[i].nsector = 1
    BY <1>3 DEF SecondHalf
  <2>3. QED
    BY <1>3, <1>6, <1>8, <2>1, <2>2 DEF Written, Busy
<1>14. QED
  BY <1>9, <1>11, <1>12, <1>13 DEF HdInv

(* write_intr.                                                             *)
LEMMA InvWrite ==
  ASSUME HdInv, WriteIntr
  PROVE  HdInv'
<1>1. drive.op = "write" /\ Types
  BY DEF WriteIntr, HdInv
<1>2. CASE BadRwIntr
  BY <1>1, <1>2, Failed
<1>3. CASE SecondHalf
  BY <1>1, <1>3, InvSecondHalf
<1>4. CASE Complete(TRUE) /\ DoRequest(sorting, request, this_request', moved)
  <2>1. moved \in Movements /\ sorting \in BOOLEAN /\ do_hd \in Handlers
    BY <1>1 DEF Types, Movements, Handlers
  <2>2. this_request' # NULL => request[this_request'].bh \in Procs
    BY <1>1, <1>4, NextFirst
  <2>3. Commanded(sorting, request, this_request', moved)
    BY <1>4, <2>1, <2>2, GivesCommand
  <2>4. QED
    BY <1>1, <1>4, <2>1, <2>3, Completed
<1>5. QED
  BY <1>2, <1>3, <1>4 DEF WriteIntr, SecondHalf

(* Steps that give the first request to the drive while no interrupt for a *)
(* transfer is to come.                                                    *)
LEMMA DriveStarts ==
  ASSUME HdInv, drive.op \notin {"read", "write"}, NEW sort \in BOOLEAN,
         DoRequest(sort, request, this_request, moved),
         request' = request, this_request' = this_request,
         sorting' = sort, hit' \in BOOLEAN, sort => hit'
  PROVE  /\ Commanded(sort, request, this_request, moved)
         /\ Driven' /\ Written'
<1>1. Types /\ Entries /\ Written
  BY DEF HdInv
<1>2. /\ do_hd \in Handlers /\ moved \in Movements
      /\ this_request # NULL => this_request \in Requests /\ request[this_request].bh \in Procs
  <2>1. this_request # NULL => this_request \in Requests /\ Busy(this_request)
    BY First DEF HdInv
  <2>2. QED
    BY <1>1, <2>1 DEF Types, Handlers, Movements, Entries
<1>3. Commanded(sort, request, this_request, moved)
  BY <1>2, GivesCommand
<1>4. Driven'
  BY <1>3 DEF Commanded, Driven
<1>5. Written'
  <2> PICK t : t = this_request
    OBVIOUS
  <2>1. \A j \in Requests : request[j].busy /\ request[j].errors = 0 => request[j].nsector = 2
    BY <1>1 DEF Written, Busy
  <2>2. ASSUME drive'.op = "write"
        PROVE  /\ drive'.at = 1
               /\ request[t].errors = 0 => /\ moved'[request[t].bh][0] = "right"
                                           /\ request[t].nsector = 2
    <3>1. t # NULL /\ drive'.at = 1 /\ (request[t].nsector = 2 => moved'[request[t].bh][0] = "right")
      BY <1>3, <2>2 DEF Commanded
    <3>2. t \in Requests /\ request[t].busy
      BY <3>1, First DEF HdInv, Busy
    <3>3. QED
      BY <2>1, <3>1, <3>2
  <2>3. QED
    BY <2>1, <2>2 DEF Written, Busy
<1>6. QED
  BY <1>3, <1>4, <1>5

(* The handler of the reset.                                               *)
LEMMA InvReset ==
  ASSUME HdInv, ResetIntr
  PROVE  HdInv'
<1>1. /\ Types /\ drive.op = "specify" /\ DoRequest(sorting, request, this_request, moved)
      /\ request' = request /\ this_request' = this_request /\ sorting' = sorting
  BY DEF HdInv, ResetIntr
<1>2. /\ hit => hit'
      /\ sorting => hit'
      /\ hit' \in BOOLEAN /\ sorting \in BOOLEAN
  BY <1>1 DEF ResetIntr, Hits, Types
<1>3. Commanded(sorting, request, this_request, moved) /\ Driven' /\ Written'
  BY <1>1, <1>2, DriveStarts
<1>4. Types'
  BY <1>1, <1>2, <1>3 DEF Types, ResetIntr, callVars, Commanded, Operations, Handlers, Movements
<1>5. StillServed
  BY <1>1, <1>2 DEF StillServed, SameEntries, ResetIntr, callVars
<1>6. Entries' /\ Adder' /\ Lined'
  <2>1. sorting => drive'.op \in {"none", "specify"}
    BY <1>3 DEF Commanded
  <2>2. QED
    BY <1>5, <2>1, StillQueued
<1>7. QED
  BY <1>3, <1>4, <1>6 DEF HdInv

-----------------------------------------------------------------------------
(* The steps of rw_abs_hd                                                  *)

(* What a process does before the drive hears of it moves no data of those *)
(* who have an entry.                                                      *)
SameRequests ==
  /\ \A i \in Requests :
       /\ Busy(i) => /\ request'[i].busy /\ request'[i].errors = request[i].errors
                     /\ request'[i].nsector = request[i].nsector
                     /\ request'[i].bh = request[i].bh
       /\ ~Busy(i) /\ request'[i].busy => request'[i].nsector = 2
  /\ \A p \in Procs : HasEntry(p) => moved'[p] = moved[p]
  /\ drive' = drive
  /\ this_request' = this_request \/ this_request = NULL

(* A transfer that is under way goes on.                                   *)
LEMMA WrittenKept ==
  ASSUME HdInv, SameRequests
  PROVE  Written'
<1>1. Entries /\ Driven /\ Written /\ Lined
  BY DEF HdInv
<1>2. drive.op = "write" => this_request' = this_request /\ this_request # NULL
  BY <1>1 DEF Driven, SameRequests
<1>3. ASSUME NEW i \in Requests, request'[i].busy, request'[i].errors = 0, request'[i].nsector # 2
      PROVE  i = this_request' /\ drive'.op = "write"
  <2>1. Busy(i) /\ request[i].errors = 0 /\ request[i].nsector # 2
    BY <1>3 DEF SameRequests
  <2>2. i = this_request /\ drive.op = "write"
    BY <1>1, <2>1 DEF Written
  <2>3. QED
    BY <1>2, <2>2 DEF SameRequests
<1> PICK t : t = this_request
  OBVIOUS
<1>4. ASSUME drive.op = "write"
      PROVE  /\ request'[t].nsector = 2 => drive'.at = 1
             /\ request'[t].errors = 0 =>
                  /\ moved'[request'[t].bh][0] = "right"
                  /\ request'[t].nsector # 2 => moved'[request'[t].bh][1] = "right"
  <2>1. t \in Requests /\ Busy(t) /\ request[t].bh \in Procs /\ HasEntry(request[t].bh)
    BY <1>1, <1>2, <1>4, First DEF Entries
  <2>2. /\ request'[t].errors = request[t].errors /\ request'[t].nsector = request[t].nsector
        /\ request'[t].bh = request[t].bh /\ moved'[request[t].bh] = moved[request[t].bh]
    BY <2>1 DEF SameRequests
  <2>3. QED
    BY <1>1, <1>4, <2>2 DEF Written, SameRequests
<1>5. QED
  BY <1>2, <1>3, <1>4 DEF Written, Busy, SameRequests

(* Find finds a free entry, or that there is none.                         *)
LEMMA Finds ==
  ASSUME Types, NEW p \in Procs, Find(p)
  PROVE  \/ /\ \E i \in Requests : NewEntry(p, i)
            /\ request' \in [Requests -> Entry]
         \/ /\ pc' = [pc EXCEPT ![p] = "full"]
            /\ UNCHANGED <<request, mine, sorting>>
<1>1. ASSUME NEW i \in Requests, ~request[i].busy,
             request' = [request EXCEPT ![i] =
               [busy |-> TRUE, nsector |-> 2, errors |-> 0, bh |-> p, next |-> NULL]],
             mine' = i, sorting' = TRUE, pc' = [pc EXCEPT ![p] = "look"]
      PROVE  NewEntry(p, i) /\ request' \in [Requests -> Entry]
  <2> DEFINE e == [busy |-> TRUE, nsector |-> 2, errors |-> 0, bh |-> p, next |-> NULL]
  <2>1. 0 \in 0 .. MAX_ERRORS /\ NULL \in 0 .. NR_REQUEST /\ 2 \in 0 .. 2
    BY ErrorsAssumption, RequestAssumption DEF NULL
  <2>2. e \in Entry
    BY <2>1 DEF Entry
  <2> HIDE DEF e
  <2>3. /\ request'[i] = e /\ request' \in [Requests -> Entry]
        /\ \A j \in Requests : j # i => request'[j] = request[j]
    BY <1>1, <2>2 DEF Types, e
  <2>4. QED
    BY <1>1, <2>3 DEF NewEntry, Busy, e
<1>2. QED
  BY <1>1 DEF Find

(* A process that comes in finds nobody in the driver.                     *)
LEMMA ComesIn ==
  ASSUME Types, NEW p \in Procs, Inside = {}, NEW place, pc' = [pc EXCEPT ![p] = place]
  PROVE  GoesTo(p, place)
BY DEF Types, GoesTo, InDriver, Inside

(* What a process changes when it looks for an entry.                      *)
Searches(p) ==
  /\ pc[p] \in {"out", "again"} /\ Inside = {}
  /\ lock' = [lock EXCEPT ![p] = TRUE]
  /\ moved' \in Movements /\ \A r \in Procs : r # p => moved'[r] = moved[r]
  /\ UNCHANGED <<this_request, tmp, hit, do_hd, drive, uptodate>>

(* It finds one.                                                           *)
LEMMA InvNew ==
  ASSUME HdInv, NEW p \in Procs, Searches(p), NEW i \in Requests, NewEntry(p, i),
         request' \in [Requests -> Entry]
  PROVE  HdInv'
<1>1. Types /\ Entries /\ Adder /\ Lined /\ Driven
  BY DEF HdInv
<1>2. Adding = {} /\ ~HasEntry(p) /\ mine' = i /\ sorting'
  BY <1>1, NobodyAdds DEF Searches, Entries, HasEntry, Sleeping, NewEntry
<1>3. GoesTo(p, "look")
  BY <1>1, ComesIn DEF Searches, NewEntry
<1>4. sorting' \in BOOLEAN /\ pc' \in [Procs -> PC] /\ lock' \in [Procs -> BOOLEAN]
  <2>1. pc' \in [Procs -> PC]
    BY <1>1 DEF NewEntry, Types, PC
  <2>2. lock' \in [Procs -> BOOLEAN]
    BY <1>1 DEF Searches, Types
  <2>3. sorting' \in BOOLEAN
    <3>1. \E r \in Procs : r = p
      OBVIOUS
    <3>2. QED
      BY <1>1 DEF NewEntry
  <2>4. QED
    BY <2>1, <2>2, <2>3
<1>5. Types'
  BY <1>1, <1>4 DEF Types, Searches, Movements
<1>6. Entries'
  <2>1. lock'[p] /\ \A r \in Procs : r # p => lock'[r] = lock[r]
    BY <1>1 DEF Searches, Types
  <2>2. QED
    BY <1>1, <1>2, <2>1, EntriesNew
<1>7. Adder' /\ Adding' = {p}
  <2>1. request'[i].busy /\ request'[i].bh = p /\ request'[i].next = NULL
    BY DEF NewEntry
  <2>2. /\ "look" \in {"look", "insert", "linked"} /\ "look" \in {"look", "insert"}
        /\ "look" # "insert"
    OBVIOUS
  <2>3. Adder' /\ Adding' = IF "look" \in {"look", "insert"} THEN {p} ELSE {}
    BY <1>2, <1>3, <1>4, <2>1, <2>2, AdderMoves
  <2>4. QED
    BY <2>3
<1>8. Lined'
  BY <1>1, <1>2, <1>7, LineNew DEF Searches
<1>9. Driven'
  BY <1>1, <1>2 DEF Driven, Searches
<1>10. SameRequests
  BY <1>2 DEF SameRequests, NewEntry, Searches, Busy
<1>11. Written'
  BY <1>10, WrittenKept
<1>12. QED
  BY <1>5, <1>6, <1>7, <1>8, <1>9, <1>11 DEF HdInv

(* It finds none.                                                          *)
LEMMA InvFull ==
  ASSUME HdInv, NEW p \in Procs, Searches(p), pc' = [pc EXCEPT ![p] = "full"],
         UNCHANGED <<request, mine, sorting>>
  PROVE  HdInv'
<1>1. Types /\ Entries /\ Adder /\ Lined /\ Driven
  BY DEF HdInv
<1>2. Adding = {} /\ ~HasEntry(p) /\ sorting' = FALSE
  BY <1>1, NobodyAdds DEF Searches, Entries, HasEntry, Sleeping
<1>3. GoesTo(p, "full")
  BY <1>1, ComesIn DEF Searches
<1>4. pc' \in [Procs -> PC] /\ lock' \in [Procs -> BOOLEAN]
  BY <1>1 DEF Searches, Types, PC
<1>5. Types'
  BY <1>1, <1>4 DEF Types, Searches, Movements
<1>6. SameEntries
  BY DEF SameEntries
<1>7. Entries'
  <2>1. CASE pc[p] = "out"
    BY <1>1, <1>6, <2>1, EntriesFull DEF Searches
  <2>2. CASE pc[p] = "again"
    <3>1. lock' = lock
      BY <1>1, <2>2 DEF Searches, Types, Entries, Sleeping
    <3>2. SameSleep
      BY <1>1, <2>2 DEF SameSleep, Types, Sleeping
    <3>3. QED
      BY <1>1, <1>6, <3>1, <3>2, EntriesKept
  <2>3. QED
    BY <2>1, <2>2 DEF Searches
<1>8. Adder' /\ Adding' = {}
  <2>1. /\ "full" \notin {"look", "insert", "linked"} /\ "full" \notin {"look", "insert"}
        /\ "full" # "insert"
    OBVIOUS
  <2>2. Adder' /\ Adding' = IF "full" \in {"look", "insert"} THEN {p} ELSE {}
    BY <1>2, <1>3, <2>1, AdderMoves
  <2>3. QED
    BY <2>2
<1>9. Lined'
  <2>1. SameLinks
    BY <1>2, <1>8 DEF SameLinks, Searches
  <2>2. QED
    BY <1>1, <2>1, LineKept DEF Searches
<1>10. Driven'
  BY <1>1 DEF Driven, Searches
<1>11. SameRequests
  BY <1>2 DEF SameRequests, Searches, Busy
<1>12. Written'
  BY <1>11, WrittenKept
<1>13. QED
  BY <1>5, <1>7, <1>8, <1>9, <1>10, <1>12 DEF HdInv

(* rw_abs_hd, from the beginning and after sleep_on.                       *)
LEMMA InvSearch ==
  ASSUME HdInv, NEW p \in Procs,
         \/ \E cmd \in Commands, at \in Places : RwAbsHd(p, cmd, at)
         \/ Again(p)
  PROVE  HdInv'
<1>1. Types /\ Entries
  BY DEF HdInv
<1>2. moved \in Movements /\ Unmoved \in [0 .. 1 -> {"no", "right", "wrong"}]
  BY <1>1 DEF Types, Movements, Unmoved
<1>3. Searches(p) /\ Find(p)
  <2>1. CASE \E cmd \in Commands, at \in Places : RwAbsHd(p, cmd, at)
    <3>1. moved' = [moved EXCEPT ![p] = Unmoved]
      BY <2>1 DEF RwAbsHd
    <3>2. moved' \in Movements /\ \A r \in Procs : r # p => moved'[r] = moved[r]
      BY <1>2, <3>1 DEF Movements
    <3>3. QED
      BY <2>1, <3>2 DEF RwAbsHd, Searches, driveVars
  <2>2. CASE Again(p)
    <3>1. lock[p] = TRUE /\ lock \in [Procs -> BOOLEAN]
      BY <1>1, <2>2 DEF Again, Entries, Sleeping, Types
    <3>2. lock = [lock EXCEPT ![p] = TRUE]
      BY <3>1
    <3>3. QED
      BY <1>2, <2>2, <3>2 DEF Again, Searches, driveVars, bufferVars
  <2>3. QED
    BY <2>1, <2>2
<1>4. CASE /\ \E i \in Requests : NewEntry(p, i)
           /\ request' \in [Requests -> Entry]
  BY <1>3, <1>4, InvNew
<1>5. CASE pc' = [pc EXCEPT ![p] = "full"] /\ UNCHANGED <<request, mine, sorting>>
  BY <1>3, <1>5, InvFull
<1>6. QED
  BY <1>1, <1>3, <1>4, <1>5, Finds

(* A process moves on and changes nothing that concerns the drive.         *)
Quiet(p, place) ==
  /\ pc' = [pc EXCEPT ![p] = place] /\ place \in PC
  /\ UNCHANGED <<request, this_request, hit, mine, do_hd, drive, lock, moved, uptodate>>

(* Entries, the drive and the data stay as they are.                       *)
LEMMA QuietSteps ==
  ASSUME HdInv, NEW p \in Procs, NEW place, Quiet(p, place), sorting' \in BOOLEAN,
         place \in Sleeping <=> pc[p] \in Sleeping, place = "out" => ~lock[p]
  PROVE  /\ Types' /\ Entries' /\ Written'
         /\ sorting' = sorting => Driven'
         /\ (Adding' = {} <=> Adding = {}) => Lined'
<1>1. Types /\ Entries /\ Lined /\ Driven
  BY DEF HdInv
<1>2. /\ pc'[p] = place /\ \A r \in Procs : r # p => pc'[r] = pc[r]
      /\ pc' \in [Procs -> PC]
  BY <1>1 DEF Quiet, Types
<1>3. Types'
  BY <1>1, <1>2 DEF Types, Quiet
<1>4. SameEntries /\ SameSleep
  BY <1>2 DEF SameEntries, SameSleep, Quiet
<1>5. Entries'
  BY <1>1, <1>4, EntriesKept DEF Quiet
<1>6. SameRequests
  BY DEF SameRequests, Quiet, Busy
<1>7. Written'
  BY <1>6, WrittenKept
<1>8. sorting' = sorting => Driven'
  BY <1>1 DEF Driven, Quiet
<1>9. (Adding' = {} <=> Adding = {}) => SameLinks
  BY DEF SameLinks, Quiet
<1>10. QED
  BY <1>1, <1>3, <1>5, <1>7, <1>8, <1>9, LineKept DEF Quiet

(* sleep_on: the process leaves the driver.                                *)
LEMMA InvSleep ==
  ASSUME HdInv, NEW p \in Procs, Sleep(p)
  PROVE  HdInv'
<1>1. Types /\ Adder /\ pc[p] = "full"
  BY DEF HdInv, Sleep
<1>2. Quiet(p, "asleep") /\ sorting' = sorting
  BY DEF Sleep, Quiet, PC, driveVars, bufferVars
<1>3. sorting' = FALSE /\ Adding = {} /\ GoesTo(p, "asleep")
  <2>1. \A r \in Procs : r # p => pc[r] \notin {"full", "look", "insert", "linked"}
    BY <1>1, Alone
  <2>2. ~sorting /\ Adding = {}
    BY <1>1, Alone
  <2>3. QED
    BY <1>1, <1>2, <2>1, <2>2 DEF Types, GoesTo, InDriver, Quiet
<1>4. Adder' /\ Adding' = {}
  <2>1. /\ "asleep" \notin {"look", "insert", "linked"} /\ "asleep" \notin {"look", "insert"}
        /\ "asleep" # "insert"
    OBVIOUS
  <2>2. Adder' /\ Adding' = IF "asleep" \in {"look", "insert"} THEN {p} ELSE {}
    BY <1>3, <2>1, AdderMoves
  <2>3. QED
    BY <2>2
<1>5. /\ Types' /\ Entries' /\ Written'
      /\ sorting' = sorting => Driven'
      /\ (Adding' = {} <=> Adding = {}) => Lined'
  <2>1. /\ "asleep" \in Sleeping <=> pc[p] \in Sleeping
        /\ "asleep" # "out"
    BY <1>1 DEF Sleeping
  <2>2. sorting' \in BOOLEAN
    BY <1>3
  <2>3. QED
    BY <1>2, <2>1, <2>2, QuietSteps
<1>6. QED
  BY <1>2, <1>3, <1>4, <1>5 DEF HdInv

(* add_request reads this_request.                                         *)
LEMMA InvLook ==
  ASSUME HdInv, NEW p \in Procs, Look(p)
  PROVE  HdInv'
<1>1. Types /\ Adder /\ Lined /\ pc[p] = "look"
  BY DEF HdInv, Look
<1>2. Quiet(p, "insert") /\ sorting' = sorting /\ tmp' = this_request
  BY DEF Look, Quiet, PC, driveVars, bufferVars
<1>3. sorting' = TRUE /\ Adding = {p} /\ GoesTo(p, "insert")
  <2>1. \A r \in Procs : r # p => pc[r] \notin {"full", "look", "insert", "linked"}
    BY <1>1, Alone
  <2>2. sorting /\ Adding = {p} /\ sorting \in BOOLEAN
    BY <1>1, Alone DEF Types
  <2>3. QED
    BY <1>1, <1>2, <2>1, <2>2 DEF Types, GoesTo, InDriver, Quiet
<1>4. Adder' /\ Adding' = {p}
  <2>1. /\ mine' \in Requests /\ request'[mine'].busy /\ request'[mine'].bh = p
        /\ request'[mine'].next = NULL /\ mine' = mine
    BY <1>1, <1>2, <1>3 DEF Adder, Quiet, Busy
  <2>2. this_request # mine
    <3>1. CASE this_request = NULL
      BY <2>1, <3>1 DEF Requests, NULL
    <3>2. CASE this_request # NULL
      <4>1. Adding # {}
        BY <1>3
      <4>2. QED
        BY <1>1, <3>2, <4>1, MineWaits
    <3>3. QED
      BY <3>1, <3>2
  <2>3. tmp' \in 0 .. NR_REQUEST /\ tmp' # mine' /\ tmp' = this_request'
    BY <1>1, <1>2, <2>1, <2>2 DEF Types, Quiet
  <2>4. "insert" \in {"look", "insert", "linked"} /\ "insert" \in {"look", "insert"}
    OBVIOUS
  <2>5. Adder' /\ Adding' = IF "insert" \in {"look", "insert"} THEN {p} ELSE {}
    BY <1>3, <2>1, <2>3, <2>4, AdderMoves
  <2>6. QED
    BY <2>5
<1>5. /\ Types' /\ Entries' /\ Written'
      /\ sorting' = sorting => Driven'
      /\ (Adding' = {} <=> Adding = {}) => Lined'
  <2>1. /\ "insert" \in Sleeping <=> pc[p] \in Sleeping
        /\ "insert" # "out"
    BY <1>1 DEF Sleeping
  <2>2. sorting' \in BOOLEAN
    BY <1>3
  <2>3. QED
    BY <1>2, <2>1, <2>2, QuietSteps
<1>6. QED
  BY <1>2, <1>3, <1>4, <1>5 DEF HdInv

(* Linking a request in changes where entries lead to, and nothing else.   *)
LEMMA LinkKeeps ==
  ASSUME Types, NEW i \in Requests, mine \in Requests, i # mine, LinkAfter(i)
  PROVE  /\ request' \in [Requests -> Entry]
         /\ \A j \in Requests :
              /\ request'[j].busy = request[j].busy /\ request'[j].bh = request[j].bh
              /\ request'[j].errors = request[j].errors
              /\ request'[j].nsector = request[j].nsector
<1> PICK x : x = mine
  OBVIOUS
<1> PICK e : e = request[i].next
  OBVIOUS
<1>1. /\ request[i] \in Entry /\ request[x] \in Entry /\ x \in Requests
      /\ e \in 0 .. NR_REQUEST /\ x \in 0 .. NR_REQUEST
  BY EntryTypes DEF Types, Requests
<1>2. request' = [request EXCEPT ![i].next = x, ![x].next = e]
  BY DEF LinkAfter
<1>3. /\ request'[i] = [request[i] EXCEPT !.next = x]
      /\ request'[x] = [request[x] EXCEPT !.next = e]
      /\ \A j \in Requests : j # i /\ j # x => request'[j] = request[j]
  BY <1>1, <1>2 DEF Types
<1>4. \A j \in {i, x} : /\ request'[j] \in Entry
                        /\ request'[j].busy = request[j].busy
                        /\ request'[j].bh = request[j].bh
                        /\ request'[j].errors = request[j].errors
                        /\ request'[j].nsector = request[j].nsector
  BY <1>1, <1>3 DEF Entry
<1>5. request' \in [Requests -> Entry]
  <2>1. \A j \in Requests : request'[j] \in Entry
    BY <1>3, <1>4 DEF Types
  <2>2. QED
    BY <1>2, <2>1 DEF Types
<1>6. QED
  BY <1>3, <1>4, <1>5

(* add_request links the new request in.                                   *)
LEMMA InvInsert ==
  ASSUME HdInv, NEW p \in Procs, Insert(p)
  PROVE  HdInv'
<1>1. /\ Types /\ Entries /\ Adder /\ Driven /\ pc[p] = "insert"
      /\ pc' = [pc EXCEPT ![p] = "linked"]
      /\ UNCHANGED <<sorting, hit, mine, tmp, do_hd, drive, lock, uptodate, moved>>
  BY DEF HdInv, Insert, driveVars, bufferVars
<1>2. sorting = TRUE /\ Adding = {p} /\ GoesTo(p, "linked")
  <2>1. \A r \in Procs : r # p => pc[r] \notin {"full", "look", "insert", "linked"}
    BY <1>1, Alone
  <2>2. sorting /\ Adding = {p} /\ sorting \in BOOLEAN
    BY <1>1, Alone DEF Types
  <2>3. QED
    BY <1>1, <2>1, <2>2 DEF Types, GoesTo, InDriver
<1>3. Adder' /\ Adding' = {}
  <2>1. /\ "linked" \in {"look", "insert", "linked"} /\ "linked" \notin {"look", "insert"}
        /\ "linked" # "insert" /\ sorting' \in BOOLEAN /\ sorting'
    BY <1>1, <1>2
  <2>2. Adder' /\ Adding' = IF "linked" \in {"look", "insert"} THEN {p} ELSE {}
    BY <1>2, <2>1, AdderMoves
  <2>3. QED
    BY <2>2
<1>4. Lined' /\ Placed
  BY <1>2, <1>3, LineInsert
<1>5. mine \in Requests
  BY <1>1, <1>2 DEF Adder
<1>6. /\ request' \in [Requests -> Entry]
      /\ \A j \in Requests : /\ request'[j].busy = request[j].busy
                             /\ request'[j].bh = request[j].bh
                             /\ request'[j].errors = request[j].errors
                             /\ request'[j].nsector = request[j].nsector
      /\ this_request' = this_request \/ (this_request = NULL /\ this_request' = mine)
  BY <1>1, <1>4, <1>5, LinkKeeps DEF Placed, Types
<1>7. Types'
  <2>1. this_request' \in 0 .. NR_REQUEST
    BY <1>1, <1>5, <1>6 DEF Types, Requests
  <2>2. pc' \in [Procs -> PC]
    BY <1>1 DEF Types, PC
  <2>3. QED
    BY <1>1, <1>6, <2>1, <2>2 DEF Types
<1>8. Entries'
  <2>1. SameEntries /\ SameSleep
    BY <1>1, <1>6 DEF SameEntries, SameSleep, Types, Sleeping
  <2>2. QED
    BY <1>1, <2>1, EntriesKept
<1>9. Driven'
  BY <1>1, <1>2, <1>6 DEF Driven
<1>10. Written'
  <2>1. SameRequests
    BY <1>1, <1>6 DEF SameRequests, Busy
  <2>2. QED
    BY <2>1, WrittenKept
<1>11. QED
  BY <1>3, <1>4, <1>7, <1>8, <1>9, <1>10 DEF HdInv

(* The queue is sorted, and the drive started if need be.                  *)
LEMMA InvStart ==
  ASSUME HdInv, NEW p \in Procs, Start(p)
  PROVE  HdInv'
<1>1. /\ Types /\ Entries /\ Adder /\ Lined /\ Driven /\ pc[p] = "linked"
      /\ pc' = [pc EXCEPT ![p] = "wait"] /\ sorting' = FALSE
      /\ UNCHANGED <<request, this_request, hit, lock, uptodate>>
  BY DEF HdInv, Start
<1>2. Adding = {} /\ GoesTo(p, "wait")
  <2>1. \A r \in Procs : r # p => pc[r] \notin {"full", "look", "insert", "linked"}
    BY <1>1, Alone
  <2>2. Adding = {}
    BY <1>1, Alone
  <2>3. QED
    BY <1>1, <2>1, <2>2 DEF Types, GoesTo, InDriver
<1>3. Adder' /\ Adding' = {}
  <2>1. /\ "wait" \notin {"look", "insert", "linked"} /\ "wait" \notin {"look", "insert"}
        /\ "wait" # "insert" /\ sorting' \in BOOLEAN
    BY <1>1
  <2>2. Adder' /\ Adding' = IF "wait" \in {"look", "insert"} THEN {p} ELSE {}
    BY <1>1, <1>2, <2>1, AdderMoves
  <2>3. QED
    BY <2>2
<1>4. Lined'
  <2>1. SameLinks
    BY <1>1, <1>2, <1>3 DEF SameLinks
  <2>2. QED
    BY <1>1, <2>1, LineKept
<1>5. Entries'
  <2>1. SameEntries /\ SameSleep
    BY <1>1 DEF SameEntries, SameSleep, Types, Sleeping
  <2>2. QED
    BY <1>1, <2>1, EntriesKept
<1>6. /\ do_hd' \in Handlers /\ drive' \in Operations /\ moved' \in Movements
      /\ Driven' /\ Written'
  <2>1. CASE do_hd = "NULL"
    <3>1. drive.op \notin {"read", "write"} /\ DoRequest(FALSE, request, this_request, moved)
      BY <1>1, <2>1 DEF Driven, Start
    <3>2. hit' \in BOOLEAN
      BY <1>1 DEF Types
    <3>3. Commanded(FALSE, request, this_request, moved) /\ Driven' /\ Written'
      BY <1>1, <3>1, <3>2, DriveStarts
    <3>4. QED
      BY <3>3 DEF Commanded
  <2>2. CASE do_hd # "NULL"
    <3>1. UNCHANGED <<do_hd, drive, moved>>
      BY <2>2 DEF Start, driveVars
    <3>2. SameRequests
      BY <1>1, <3>1 DEF SameRequests, Busy
    <3>3. Written'
      BY <3>2, WrittenKept
    <3>4. Driven'
      BY <1>1, <2>2, <3>1 DEF Driven
    <3>5. QED
      BY <1>1, <3>1, <3>3, <3>4 DEF Types, Handlers, Operations, Movements
  <2>3. QED
    BY <2>1, <2>2
<1>7. Types'
  <2>1. pc' \in [Procs -> PC]
    BY <1>1 DEF Types, PC
  <2>2. QED
    BY <1>1, <1>6, <2>1 DEF Types, Handlers, Operations, Movements
<1>8. QED
  BY <1>3, <1>4, <1>5, <1>6, <1>7 DEF HdInv

(* wait_on_buffer returns.                                                 *)
LEMMA InvReturn ==
  ASSUME HdInv, NEW p \in Procs, Return(p)
  PROVE  HdInv'
<1>1. /\ Types /\ Entries /\ Adder /\ Lined /\ Driven /\ pc[p] = "wait" /\ ~lock[p]
      /\ Inside = {} /\ pc' = [pc EXCEPT ![p] = "out"]
      /\ UNCHANGED <<request, this_request, sorting, hit, mine, do_hd, drive, lock>>
  BY DEF HdInv, Return, driveVars
<1>2. /\ moved' \in Movements /\ \A r \in Procs : r # p => moved'[r] = moved[r]
      /\ uptodate' \in [Procs -> BOOLEAN]
  <2>1. Unmoved \in [0 .. 1 -> {"no", "right", "wrong"}]
    BY DEF Unmoved
  <2>2. QED
    BY <1>1, <2>1 DEF Types, Return, Movements
<1>3. Adding = {} /\ sorting = FALSE /\ GoesTo(p, "out")
  BY <1>1, NobodyAdds, ComesIn
<1>4. Adder' /\ Adding' = {}
  <2>1. /\ "out" \notin {"look", "insert", "linked"} /\ "out" \notin {"look", "insert"}
        /\ "out" # "insert" /\ sorting' = FALSE
    BY <1>1, <1>3
  <2>2. Adder' /\ Adding' = IF "out" \in {"look", "insert"} THEN {p} ELSE {}
    BY <1>3, <2>1, AdderMoves
  <2>3. QED
    BY <2>2
<1>5. Lined'
  <2>1. SameLinks
    BY <1>1, <1>3, <1>4 DEF SameLinks
  <2>2. QED
    BY <1>1, <2>1, LineKept
<1>6. Entries'
  <2>1. SameEntries /\ SameSleep
    BY <1>1 DEF SameEntries, SameSleep, Types, Sleeping
  <2>2. QED
    BY <1>1, <2>1, EntriesKept
<1>7. Driven'
  BY <1>1 DEF Driven
<1>8. Written'
  <2>1. SameRequests
    BY <1>1, <1>2 DEF SameRequests, HasEntry, Busy
  <2>2. QED
    BY <2>1, WrittenKept
<1>9. Types'
  <2>1. pc' \in [Procs -> PC]
    BY <1>1 DEF Types, PC
  <2>2. QED
    BY <1>1, <1>2, <2>1 DEF Types, Movements
<1>10. QED
  BY <1>4, <1>5, <1>6, <1>7, <1>8, <1>9 DEF HdInv

-----------------------------------------------------------------------------
(* The theorems                                                            *)

(* At first nothing is locked, queued or moved.                            *)
LEMMA HdBegins ==
  ASSUME Init
  PROVE  HdInv
<1>1. /\ \A i \in Requests : request[i] = Free(NULL) /\ ~Busy(i) /\ request[i].bh = NoProc
      /\ \A p \in Procs : pc[p] = "out" /\ ~lock[p]
      /\ drive.op = "none" /\ do_hd = "NULL" /\ this_request = NULL /\ sorting = FALSE
      /\ hit = FALSE
  BY DEF Init, Free, Busy, Idle
<1>2. Types
  <2>1. Free(NULL) \in Entry
    <3>1. 0 \in 0 .. MAX_ERRORS /\ 0 \in 0 .. 2 /\ NULL \in 0 .. NR_REQUEST
      BY ErrorsAssumption, RequestAssumption DEF NULL
    <3>2. QED
      BY <3>1 DEF Free, Entry
  <2>2. request \in [Requests -> Entry] /\ this_request \in 0 .. NR_REQUEST
    BY <2>1, RequestAssumption DEF Init, NULL
  <2>3. drive \in Operations /\ Unmoved \in [0 .. 1 -> {"no", "right", "wrong"}]
    BY DEF Init, Idle, Operations, Unmoved
  <2>4. QED
    BY <2>2, <2>3 DEF Init, Types, PC, Operations
<1>3. Entries
  BY <1>1, ProcsAssumption DEF Entries, HasEntry, Sleeping
<1>4. Adder
  BY <1>1 DEF Adder, Inside, Adding
<1>5. Lined
  <2> PICK q : q = [k \in 1 .. 0 |-> NULL]
    OBVIOUS
  <2>1. q \in [1 .. 0 -> Requests]
    OBVIOUS
  <2>2. Line(q, 0)
    BY <1>1, <2>1 DEF Line
  <2>3. QED
    BY <2>2 DEF Lined
<1>6. Driven /\ Written
  BY <1>1 DEF Driven, Written
<1>7. QED
  BY <1>2, <1>3, <1>4, <1>5, <1>6 DEF HdInv

(* Nothing happens.                                                        *)
LEMMA HdStutters ==
  ASSUME HdInv, UNCHANGED vars
  PROVE  HdInv'
<1>1. StillServed /\ SameRequests /\ drive' = drive /\ do_hd' = do_hd /\ hit' = hit
  BY DEF vars, callVars, driveVars, bufferVars, StillServed, SameEntries, SameRequests, Busy
<1>2. Entries' /\ Adder' /\ Lined'
  BY <1>1, StillQueued DEF Behind
<1>3. Written'
  BY <1>1, WrittenKept
<1>4. Types' /\ Driven'
  BY DEF HdInv, Types, Driven, vars, callVars, driveVars, bufferVars
<1>5. QED
  BY <1>2, <1>3, <1>4 DEF HdInv

(* Every step of the driver, and every interrupt, keeps the invariant.     *)
LEMMA HdStep ==
  ASSUME HdInv, [Next]_vars
  PROVE  HdInv'
<1>1. CASE ReadIntr
  BY <1>1, InvRead
<1>2. CASE WriteIntr
  BY <1>2, InvWrite
<1>3. CASE ResetIntr
  BY <1>3, InvReset
<1>4. ASSUME NEW p \in Procs, \E cmd \in Commands, at \in Places : RwAbsHd(p, cmd, at)
      PROVE  HdInv'
  BY <1>4, InvSearch
<1>5. ASSUME NEW p \in Procs, Sleep(p)
      PROVE  HdInv'
  BY <1>5, InvSleep
<1>6. ASSUME NEW p \in Procs, Again(p)
      PROVE  HdInv'
  BY <1>6, InvSearch
<1>7. ASSUME NEW p \in Procs, Look(p)
      PROVE  HdInv'
  BY <1>7, InvLook
<1>8. ASSUME NEW p \in Procs, Insert(p)
      PROVE  HdInv'
  BY <1>8, InvInsert
<1>9. ASSUME NEW p \in Procs, Start(p)
      PROVE  HdInv'
  BY <1>9, InvStart
<1>10. ASSUME NEW p \in Procs, Return(p)
       PROVE  HdInv'
  BY <1>10, InvReturn
<1>11. CASE UNCHANGED vars
  BY <1>11, HdStutters
<1>12. QED
  BY <1>1, <1>2, <1>3, <1>4, <1>5, <1>6, <1>7, <1>8, <1>9, <1>10, <1>11 DEF Next

(* The invariant holds in every state of the driver (kernel/hd.c).         *)
THEOREM AlwaysHd == Spec => []HdInv
<1>1. Init => HdInv
  BY HdBegins
<1>2. HdInv /\ [Next]_vars => HdInv'
  BY HdStep
<1>3. QED
  BY <1>1, <1>2, PTL DEF Spec

(* A locked buffer has one entry in the request table and an unlocked one  *)
(* none: no transfer is done twice, and none unlocks another's buffer.     *)
THEOREM EachOnce == Spec => []OneRequestEach
<1>1. ASSUME HdInv
      PROVE  OneRequestEach
  <2>1. Entries /\ Lined
    BY <1>1 DEF HdInv
  <2>2. ASSUME NEW p \in Procs
        PROVE  Cardinality({i \in Requests : request[i].busy /\ request[i].bh = p})
                 = IF lock[p] /\ pc[p] \notin {"full", "asleep", "again"} THEN 1 ELSE 0
    <3> DEFINE T == {i \in Requests : request[i].busy /\ request[i].bh = p}
    <3>1. CASE HasEntry(p)
      <4>1. PICK i \in Requests : Busy(i) /\ request[i].bh = p
        BY <2>1, <3>1 DEF Entries
      <4>2. T = {i}
        BY <2>1, <4>1 DEF Entries, Busy
      <4>3. Cardinality(T) = 1
        BY <4>2, FS_Singleton
      <4>4. QED
        BY <3>1, <4>3 DEF HasEntry, Sleeping
    <3>2. CASE ~HasEntry(p)
      <4>1. T = {}
        BY <2>1, <3>2 DEF Entries, Busy
      <4>2. Cardinality(T) = 0
        BY <4>1, FS_EmptySet
      <4>3. QED
        BY <3>2, <4>2 DEF HasEntry, Sleeping
    <3>3. QED
      BY <3>1, <3>2
  <2>3. this_request # NULL => request[this_request].busy
    BY <2>1, First DEF Busy
  <2>4. QED
    BY <2>2, <2>3 DEF OneRequestEach
<1>2. QED
  BY <1>1, AlwaysHd, PTL

(* Unless an interrupt has hit the sorting, the drive has a command        *)
(* whenever there is a request and nobody is adding one, and an interrupt  *)
(* that comes finds its handler.                                           *)
THEOREM AlwaysAtWork == Spec => []DriveAtWork
<1>1. HdInv => DriveAtWork
  BY DEF HdInv, Types, Driven, DriveAtWork
<1>2. QED
  BY <1>1, AlwaysHd, PTL

(* The queue is no longer than the table.                                  *)
LEMMA ShortQueue ==
  ASSUME NEW n \in Nat, NEW q, Line(q, n)
  PROVE  n <= NR_REQUEST
<1>1. SUFFICES ASSUME n > NR_REQUEST
               PROVE  FALSE
  BY RequestAssumption
<1>2. /\ IsFiniteSet(1 .. n) /\ Cardinality(1 .. n) = n
      /\ IsFiniteSet(Requests) /\ Cardinality(Requests) = NR_REQUEST
  <2>1. /\ 1 \in Int /\ n \in Int /\ NR_REQUEST \in Int /\ ~(1 > n) /\ ~(1 > NR_REQUEST)
        /\ n - 1 + 1 = n /\ NR_REQUEST - 1 + 1 = NR_REQUEST
    BY <1>1, RequestAssumption
  <2>2. QED
    BY <2>1, FS_Interval DEF Requests
<1>3. q \in [1 .. n -> Requests]
  BY DEF Line
<1>4. Cardinality(Requests) < Cardinality(1 .. n)
  BY <1>1, <1>2
<1>5. \E j, k \in 1 .. n : j # k /\ q[j] = q[k]
  BY <1>2, <1>3, <1>4, FS_PigeonHole
<1>6. QED
  BY <1>5 DEF Line

(* The first m + 1 of the queue, as the recursion in Queue finds them.     *)
Tails(f) ==
  f = [m \in 0 .. NR_REQUEST |->
         IF m = 0 THEN {this_request} \ {NULL}
         ELSE f[m - 1] \cup ({request[i].next : i \in f[m - 1]} \ {NULL})]
Upto(q, n, m) == {i \in Requests : \E k \in 1 .. n : k <= m + 1 /\ q[k] = i}

(* One more is found by following next.                                    *)
LEMMA UptoNext ==
  ASSUME NEW n \in Nat, NEW q, Line(q, n)
  PROVE  /\ Upto(q, n, 0) = {this_request} \ {NULL}
         /\ \A m \in Nat \ {0} :
              Upto(q, n, m) = Upto(q, n, m - 1)
                                \cup ({request[i].next : i \in Upto(q, n, m - 1)} \ {NULL})
<1>1. /\ \A k \in 1 .. n : /\ q[k] \in Requests /\ q[k] # NULL
                           /\ request[q[k]].next = IF k = n THEN NULL ELSE q[k + 1]
      /\ this_request = IF n = 0 THEN NULL ELSE q[1]
  BY DEF Line, Requests, NULL
<1>2. Upto(q, n, 0) = {this_request} \ {NULL}
  <2>1. \A k \in 1 .. n : k <= 0 + 1 <=> k = 1
    OBVIOUS
  <2>2. n # 0 => 1 \in 1 .. n
    OBVIOUS
  <2>3. CASE n = 0
    BY <1>1, <2>1, <2>3 DEF Upto
  <2>4. CASE n # 0
    BY <1>1, <2>1, <2>2, <2>4 DEF Upto
  <2>5. QED
    BY <2>3, <2>4
<1>3. ASSUME NEW m \in Nat \ {0}
      PROVE  Upto(q, n, m) = Upto(q, n, m - 1)
                               \cup ({request[i].next : i \in Upto(q, n, m - 1)} \ {NULL})
  <2> DEFINE U == Upto(q, n, m - 1)
             V == {request[i].next : i \in U}
  <2>1. \A k \in 1 .. n : k <= m => q[k] \in U
    BY <1>1 DEF Upto
  <2>2. \A i \in U : \E k \in 1 .. n : k <= m /\ q[k] = i
    BY DEF Upto
  <2>3. ASSUME NEW i \in Upto(q, n, m), i \notin U
        PROVE  i \in V \ {NULL}
    <3>1. PICK k \in 1 .. n : k <= m + 1 /\ q[k] = i
      BY <2>3 DEF Upto
    <3>2. k = m + 1
      BY <2>1, <2>3, <3>1
    <3>3. m \in 1 .. n /\ m # n /\ q[m] \in U
      BY <2>1, <3>2
    <3>4. request[q[m]].next = i
      BY <1>1, <3>1, <3>2, <3>3
    <3>5. QED
      BY <1>1, <3>1, <3>3, <3>4
  <2>4. ASSUME NEW i \in U
        PROVE  i \in Upto(q, n, m)
    BY <1>1, <2>2 DEF Upto
  <2>5. ASSUME NEW i \in V, i # NULL
        PROVE  i \in Upto(q, n, m)
    <3>1. PICK j \in U : i = request[j].next
      OBVIOUS
    <3>2. PICK k \in 1 .. n : k <= m /\ q[k] = j
      BY <2>2
    <3>3. k # n /\ i = q[k + 1]
      BY <1>1, <2>5, <3>1, <3>2
    <3>4. k + 1 \in 1 .. n /\ k + 1 <= m + 1
      BY <3>2, <3>3
    <3>5. QED
      BY <1>1, <3>3, <3>4 DEF Upto
  <2> HIDE DEF V, U
  <2>6. Upto(q, n, m) = U \cup (V \ {NULL})
    BY <2>3, <2>4, <2>5
  <2>7. QED
    BY <2>6 DEF U, V
<1>4. QED
  BY <1>2, <1>3

(* Queue has just the requests of the line.                                *)
LEMMA QueueIs ==
  ASSUME NEW n \in Nat, NEW q, Line(q, n)
  PROVE  Queue = {i \in Requests : \E k \in 1 .. n : q[k] = i}
<1> DEFINE g == [m \in 0 .. NR_REQUEST |-> Upto(q, n, m)]
<1>1. ASSUME NEW m \in 0 .. NR_REQUEST
      PROVE  g[m] = IF m = 0 THEN {this_request} \ {NULL}
                    ELSE g[m - 1] \cup ({request[i].next : i \in g[m - 1]} \ {NULL})
  <2>1. CASE m = 0
    BY <2>1, UptoNext
  <2>2. CASE m # 0
    <3>1. m - 1 \in 0 .. NR_REQUEST /\ m \in Nat \ {0}
      BY <2>2, RequestAssumption
    <3>2. g[m] = Upto(q, n, m) /\ g[m - 1] = Upto(q, n, m - 1)
      BY <3>1
    <3> HIDE DEF g
    <3>3. QED
      BY <2>2, <3>1, <3>2, UptoNext
  <2>3. QED
    BY <2>1, <2>2
<1>2. g = [m \in 0 .. NR_REQUEST |-> g[m]]
  OBVIOUS
<1> HIDE DEF g
<1>3. Tails(g)
  BY <1>1, <1>2, Zenon DEF Tails
<1> DEFINE f == CHOOSE h : Tails(h)
<1>4. Tails(f)
  BY <1>3
<1>5. Queue = f[NR_REQUEST]
  BY Zenon DEF Queue, Tails
<1> HIDE DEF f
<1>6. ASSUME NEW m \in 0 .. NR_REQUEST
      PROVE  f[m] = IF m = 0 THEN {this_request} \ {NULL}
                    ELSE f[m - 1] \cup ({request[i].next : i \in f[m - 1]} \ {NULL})
  BY <1>4, Zenon DEF Tails
<1> DEFINE Bad == {m \in 0 .. NR_REQUEST : f[m] # g[m]}
           b == Min(Bad)
<1>7. Bad = {}
  <2>1. SUFFICES ASSUME Bad # {}
                 PROVE  FALSE
    OBVIOUS
  <2>2. b \in Bad /\ \A m \in Bad : b <= m
    <3>1. Bad \in SUBSET Nat
      OBVIOUS
    <3>2. QED
      BY <2>1, <3>1, NatMin
  <2> HIDE DEF b
  <2>3. b # 0
    BY <1>1, <1>6, <2>2
  <2>4. b - 1 \in 0 .. NR_REQUEST /\ f[b - 1] = g[b - 1]
    <3>1. b \in 0 .. NR_REQUEST /\ \A m \in Bad : b <= m
      BY <2>2
    <3>2. b - 1 \in 0 .. NR_REQUEST /\ ~(b <= b - 1)
      BY <2>3, <3>1, RequestAssumption
    <3>3. b - 1 \notin Bad
      BY <3>1, <3>2
    <3>4. QED
      BY <3>2, <3>3
  <2>5. b \in 0 .. NR_REQUEST /\ f[b] # g[b]
    BY <2>2
  <2> HIDE DEF Bad
  <2>6. f[b] = f[b - 1] \cup ({request[i].next : i \in f[b - 1]} \ {NULL})
    BY <1>6, <2>3, <2>5
  <2>7. g[b] = g[b - 1] \cup ({request[i].next : i \in g[b - 1]} \ {NULL})
    BY <1>1, <2>3, <2>5
  <2>8. QED
    BY <2>4, <2>5, <2>6, <2>7, Zenon
<1>8. Queue = Upto(q, n, NR_REQUEST)
  <2>1. NR_REQUEST \in 0 .. NR_REQUEST
    BY RequestAssumption
  <2>2. QED
    BY <1>5, <1>7, <2>1 DEF g
<1>9. \A k \in 1 .. n : k <= NR_REQUEST + 1
  BY ShortQueue, RequestAssumption
<1>10. QED
  BY <1>8, <1>9 DEF Upto

(* Unless an interrupt has hit the sorting, every request in the table is  *)
(* in the queue, but for the one that add_request is about to put there,   *)
(* and the queue holds no other.                                           *)
THEOREM NoneLost == Spec => []QueueComplete
<1>1. ASSUME HdInv
      PROVE  QueueComplete
  <2>1. Entries /\ Lined /\ Adder
    BY <1>1 DEF HdInv
  <2>2. PICK n \in Nat : \E q : Line(q, n)
    BY <2>1 DEF Lined
  <2> PICK q : Line(q, n)
    BY <2>2
  <2>3. Queue = {i \in Requests : \E k \in 1 .. n : q[k] = i}
    BY QueueIs
  <2>4. \A k \in 1 .. n : q[k] \in Requests /\ Busy(q[k]) /\ (Adding # {} => q[k] # mine)
    BY DEF Line
  <2>5. ~hit => \A i \in Requests :
          Busy(i) => (Adding # {} /\ i = mine) \/ \E k \in 1 .. n : q[k] = i
    BY DEF Line
  <2>6. QED
    BY <2>3, <2>4, <2>5 DEF QueueComplete, Busy
<1>2. QED
  BY <1>1, AlwaysHd, PTL

(* The data of a transfer that is over stay where they are when the next   *)
(* request is given to the drive.                                          *)
LEMMA GoodOver ==
  ASSUME HdInv, drive.op \in {"read", "write"}, Complete(TRUE), NEW mv \in Movements,
         DoRequest(sorting, request, this_request', mv),
         NEW b, b = request[this_request].bh, mv[b][0] = "right", mv[b][1] = "right"
  PROVE  moved'[b] = [s \in 0 .. 1 |-> "right"]
<1>1. b \in Procs /\ sorting \in BOOLEAN /\ do_hd \in Handlers
  BY Served DEF HdInv, Types, Handlers
<1>2. this_request' # NULL =>
        request[this_request'].bh \in Procs /\ request[this_request'].bh # b
  BY NextFirst
<1>3. Commanded(sorting, request, this_request', mv)
  BY <1>1, <1>2, GivesCommand
<1>4. moved'[b] = mv[b] /\ moved' \in Movements
  BY <1>1, <1>2, <1>3 DEF Commanded
<1>5. moved'[b] \in [0 .. 1 -> {"no", "right", "wrong"}]
  BY <1>1, <1>4 DEF Movements
<1>6. \A s \in 0 .. 1 : moved'[b][s] = "right"
  BY <1>4
<1>7. QED
  BY <1>5, <1>6

(* Completing a transfer unlocks its buffer and no other.                  *)
LEMMA UnlocksOne ==
  ASSUME HdInv, drive.op \in {"read", "write"}, NEW ok, Complete(ok),
         NEW p \in Procs, lock[p], ~lock'[p]
  PROVE  p = request[this_request].bh /\ uptodate'[p] = ok
<1>1. request[this_request].bh \in Procs /\ Types
  BY Served DEF HdInv
<1>2. QED
  BY <1>1 DEF Complete, Types

(* What a step that unlocks a buffer has done.                             *)
Arrived(p) ==
  (lock[p] /\ ~lock'[p] /\ uptodate'[p] /\ request[this_request].errors = 0)
    => moved'[p] = [s \in 0 .. 1 |-> "right"]

(* The interrupt handlers end good transfers with both halves moved.       *)
LEMMA HandlersMove ==
  ASSUME HdInv, NEW p \in Procs, ReadIntr \/ WriteIntr
  PROVE  Arrived(p)
<1> SUFFICES ASSUME lock[p], ~lock'[p], uptodate'[p], request[this_request].errors = 0
             PROVE  moved'[p] = [s \in 0 .. 1 |-> "right"]
  BY DEF Arrived
<1> PICK b : b = request[this_request].bh
  OBVIOUS
<1>1. drive.op \in {"read", "write"} /\ Types /\ Written
  BY DEF HdInv, ReadIntr, WriteIntr
<1>2. b \in Procs /\ moved \in Movements
  BY <1>1, Served DEF Types, Movements
<1>3. ~BadRwIntr
  <2>1. BadRwIntr => Complete(FALSE) \/ lock' = lock
    BY DEF BadRwIntr
  <2>2. ~Complete(FALSE)
    BY <1>1, UnlocksOne
  <2>3. QED
    BY <2>1, <2>2
<1>4. ~SecondHalf
  BY DEF SecondHalf
<1>5. CASE ReadIntr
  <2>1. Complete(TRUE) /\ DoRequest(sorting, request, this_request', BothHalves(b))
    BY <1>3, <1>5 DEF ReadIntr, BothHalves
  <2> DEFINE mv == BothHalves(b)
  <2>2. mv \in Movements /\ mv[b][0] = "right" /\ mv[b][1] = "right"
    BY <1>1, <1>2, ReadMoves
  <2> HIDE DEF mv
  <2>3. DoRequest(sorting, request, this_request', mv)
    BY <2>1 DEF mv
  <2>4. p = b
    BY <1>1, <2>1, UnlocksOne
  <2>5. QED
    BY <1>1, <2>1, <2>2, <2>3, <2>4, GoodOver
<1>6. CASE WriteIntr
  <2>1. /\ request[this_request].nsector = 1 /\ drive.op = "write"
        /\ Complete(TRUE) /\ DoRequest(sorting, request, this_request', moved)
    BY <1>3, <1>4, <1>6 DEF WriteIntr, SecondHalf
  <2>2. moved[b][0] = "right" /\ moved[b][1] = "right"
    BY <1>1, <2>1 DEF Written
  <2>3. p = b
    BY <1>1, <2>1, UnlocksOne
  <2>4. QED
    BY <1>1, <1>2, <2>1, <2>2, <2>3, GoodOver
<1>7. QED
  BY <1>5, <1>6

(* A transfer that is reported good and was never retried has moved both   *)
(* halves of the buffer to or from their own sectors.                      *)
THEOREM DataAreMoved == Spec => DataArrive
<1>1. ASSUME HdInv, Next, NEW p \in Procs
      PROVE  Arrived(p)
  <2>1. CASE ReadIntr \/ WriteIntr
    BY <1>1, <2>1, HandlersMove
  <2>2. CASE ResetIntr
    BY <2>2 DEF ResetIntr, Arrived
  <2>3. CASE \E r \in Procs, cmd \in Commands, at \in Places : RwAbsHd(r, cmd, at)
    <3>1. lock' \in [Procs -> BOOLEAN] /\ \A r \in Procs : lock[r] => lock'[r]
      BY <1>1, <2>3 DEF RwAbsHd, HdInv, Types
    <3>2. QED
      BY <3>1 DEF Arrived
  <2>4. CASE \E r \in Procs : \/ Sleep(r) \/ Again(r) \/ Look(r) \/ Insert(r) \/ Start(r)
                              \/ Return(r)
    <3>1. lock' = lock
      BY <2>4 DEF Sleep, Again, Look, Insert, Start, Return, bufferVars
    <3>2. QED
      BY <3>1 DEF Arrived
  <2>5. QED
    BY <1>1, <2>1, <2>2, <2>3, <2>4 DEF Next
<1>2. HdInv /\ [Next]_vars =>
        [\A p \in Procs :
           (lock[p] /\ ~lock'[p] /\ uptodate'[p] /\ request[this_request].errors = 0)
             => moved'[p] = [s \in 0 .. 1 |-> "right"]]_vars
  BY <1>1 DEF Arrived
<1>3. QED
  BY <1>2, AlwaysHd, PTL DEF DataArrive, Spec
=============================================================================
