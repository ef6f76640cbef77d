------------------------------ MODULE HardDisk ------------------------------
(***************************************************************************)
(* The hard disk driver, kernel/hd.c: the table and the queue of requests, *)
(* the elevator that sorts it, the interrupt handlers, errors and retries. *)
(*                                                                         *)
(* A process in rw_abs_hd is not preempted, but interrupts come between    *)
(* any two of its steps.  Each process does one transfer at a time, of two *)
(* sectors, into or from a buffer of its own (module BufferCache shares    *)
(* buffers), and sleeps until it is done.  The drive is external: it       *)
(* answers a command with interrupts, at any later time.                   *)
(***************************************************************************)
EXTENDS Integers, FiniteSets

CONSTANTS
  Procs,        (* the processes                                           *)
  NoProc,       (* the bh of a free entry                                  *)
  NR_REQUEST,   (* size of the request table                               *)
  Commands,     (* "read", "write"                                         *)
  Places,       (* where requests go: pairs <<cylinder, sector>>           *)
  MAX_ERRORS,   (* failures a request survives                             *)
  MaxTimeouts   (* bound on the times the drive does not ask for data      *)

ASSUME ProcsAssumption == NoProc \notin Procs
ASSUME RequestAssumption == NR_REQUEST \in Nat \ {0}
ASSUME CommandsAssumption == Commands \subseteq {"read", "write"}
ASSUME PlacesAssumption == Places \subseteq Nat \X Nat
ASSUME ErrorsAssumption == MAX_ERRORS \in Nat /\ MaxTimeouts \in Nat

Requests == 1 .. NR_REQUEST
NULL == 0

VARIABLES
  request,       (* the request table; busy stands for hd >= 0             *)
  this_request,  (* the request being served, first of the queue           *)
  do_hd,         (* the handler the next interrupt will call               *)
  sorting,       (* is add_request at work on the queue                    *)
  drive,         (* what the drive does, and the next sector it will move  *)
  timeouts,      (* how often the drive has not asked for data             *)
  pc,            (* where each process is in rw_abs_hd                     *)
  job,           (* what each process wants: the parameters of rw_abs_hd   *)
  mine,          (* the request that add_request is adding                 *)
  tmp,           (* the local variable tmp of add_request                  *)
  lock,          (* b_lock of each process's buffer                        *)
  uptodate,      (* b_uptodate                                             *)
  moved,         (* per sector: nothing moved, its own half, the wrong one *)
  hit            (* has an interrupt hit an unprotected place (see Hits)   *)

callVars == <<pc, job, mine, tmp>>
driveVars == <<do_hd, drive, timeouts>>
bufferVars == <<lock, uptodate, moved>>
vars == <<request, this_request, sorting, hit, callVars, driveVars, bufferVars>>

(* "full": found no free entry.  "asleep", "again": on wait_for_request,   *)
(* then woken.  "look", "insert", "linked": in add_request.  "wait": in    *)
(* wait_on_buffer.                                                         *)
PC == {"out", "full", "asleep", "again", "look", "insert", "linked", "wait"}

Entry == [busy : BOOLEAN, nsector : 0 .. 2, errors : 0 .. MAX_ERRORS,
          bh : Procs \cup {NoProc}, next : 0 .. NR_REQUEST]

TypeOK ==
  /\ request \in [Requests -> Entry]
  /\ this_request \in 0 .. NR_REQUEST
  /\ do_hd \in {"NULL", "read_intr", "write_intr", "do_request"}
  /\ sorting \in BOOLEAN
  /\ drive \in [op : {"none", "specify"} \cup Commands, at : 0 .. 2]
  /\ timeouts \in 0 .. MaxTimeouts
  /\ pc \in [Procs -> PC]
  /\ job \in [Procs -> [cmd : Commands, at : Places]]
  /\ mine \in 0 .. NR_REQUEST
  /\ tmp \in 0 .. NR_REQUEST
  /\ lock \in [Procs -> BOOLEAN]
  /\ uptodate \in [Procs -> BOOLEAN]
  /\ moved \in [Procs -> [0 .. 1 -> {"no", "right", "wrong"}]]
  /\ hit \in BOOLEAN

Idle == [op |-> "none", at |-> 0]
Specify == [op |-> "specify", at |-> 0]
Unmoved == [s \in 0 .. 1 |-> "no"]
NoJob == [cmd |-> CHOOSE c \in Commands : TRUE, at |-> CHOOSE x \in Places : TRUE]

(* An entry with hd = -1: of its old contents only next is read again.     *)
Free(next) ==
  [busy |-> FALSE, nsector |-> 0, errors |-> 0, bh |-> NoProc, next |-> next]

Init ==
  /\ request = [i \in Requests |-> Free(NULL)]
  /\ this_request = NULL
  /\ do_hd = "NULL"
  /\ sorting = FALSE
  /\ drive = Idle
  /\ timeouts = 0
  /\ pc = [p \in Procs |-> "out"]
  /\ job = [p \in Procs |-> NoJob]
  /\ mine = NULL
  /\ tmp = NULL
  /\ lock = [p \in Procs |-> FALSE]
  /\ uptodate = [p \in Procs |-> FALSE]
  /\ moved = [p \in Procs |-> Unmoved]
  /\ hit = FALSE

-----------------------------------------------------------------------------
(* do_request: give the drive its next command                             *)

(* Sector at of the drive receives, or is read into, a half of bh's data.  *)
Move(mv, bh, at, half) ==
  [mv EXCEPT ![bh][at] = IF at = half THEN "right" ELSE "wrong"]

\* a broken variant
FirstHalfLast(nsector) == (nsector + 1) % 2

(* The half written first: b_data + 512 * (nsector & 1).                   *)
FirstHalf(nsector) == nsector % 2

(* do_request when t is the first of the requests rq and mv has been       *)
(* moved.  It does nothing, and leaves do_hd alone, while the queue is     *)
(* being sorted.                                                           *)
DoRequest(sort, rq, t, mv) ==
  \/ /\ sort
     /\ drive' = Idle /\ moved' = mv
     /\ UNCHANGED <<do_hd, timeouts>>
  \/ /\ ~sort /\ t = NULL
     /\ do_hd' = "NULL" /\ drive' = Idle /\ moved' = mv
     /\ UNCHANGED timeouts
  \/ /\ ~sort /\ t # NULL /\ job[rq[t].bh].cmd = "read"
     /\ do_hd' = "read_intr" /\ drive' = [op |-> "read", at |-> 0]
     /\ moved' = mv
     /\ UNCHANGED timeouts
  \/ /\ ~sort /\ t # NULL /\ job[rq[t].bh].cmd = "write"
     /\ do_hd' = "write_intr" /\ drive' = [op |-> "write", at |-> 1]
     /\ moved' = Move(mv, rq[t].bh, 0, FirstHalf(rq[t].nsector))
     /\ UNCHANGED timeouts
  \/ \* the drive does not ask for the data: reset it and start again
     /\ ~sort /\ t # NULL /\ job[rq[t].bh].cmd = "write"
     /\ timeouts < MaxTimeouts /\ timeouts' = timeouts + 1
     /\ do_hd' = "do_request" /\ drive' = Specify /\ moved' = mv

-----------------------------------------------------------------------------
(* Interrupt handlers                                                      *)

(* The two places where the driver does not expect an interrupt: while it  *)
(* sorts the queue, and after a process has found the table full and       *)
(* before it sleeps.                                                       *)
Hits(wakes) == \/ sorting
               \/ wakes /\ \E p \in Procs : pc[p] = "full"

\* a broken variant
WakeNobody == pc

(* wake_up(&wait_for_request): the chain of sleepers is woken (WaitQueue). *)
WakeWaiters == [p \in Procs |-> IF pc[p] = "asleep" THEN "again" ELSE pc[p]]

\* a broken variant
CompleteSwapped(ok) ==
  LET i == this_request IN
  /\ request' = [request EXCEPT ![request[i].next] = Free(@.next)]
  /\ this_request' = request[i].next
  /\ lock' = [lock EXCEPT ![request[i].bh] = FALSE]
  /\ uptodate' = [uptodate EXCEPT ![request[i].bh] = ok]
  /\ pc' = WakeWaiters
  /\ hit' = (hit \/ Hits(TRUE))
  /\ UNCHANGED <<sorting, job, mine, tmp>>

(* The transfer of the first request is over: unlock its buffer, free its  *)
(* entry, wake those who wait for one, and go to the next request.         *)
Complete(ok) ==
  LET i == this_request IN
  /\ request' = [request EXCEPT ![i] = Free(request[i].next)]
  /\ this_request' = request[i].next
  /\ lock' = [lock EXCEPT ![request[i].bh] = FALSE]
  /\ uptodate' = [uptodate EXCEPT ![request[i].bh] = ok]
  /\ pc' = WakeWaiters
  /\ hit' = (hit \/ Hits(TRUE))
  /\ UNCHANGED <<sorting, job, mine, tmp>>

\* a broken variant
BadRwIntrForEver ==
  /\ do_hd' = "do_request"
  /\ drive' = Specify
  /\ UNCHANGED <<request, this_request, lock, uptodate, callVars, sorting, hit,
                 timeouts, moved>>

(* bad_rw_intr: count the failure, give up after the last one, and reset   *)
(* the drive, whose next interrupt calls do_request.                       *)
BadRwIntr ==
  LET i == this_request IN
  /\ IF request[i].errors >= MAX_ERRORS
     THEN Complete(FALSE)
     ELSE /\ request' = [request EXCEPT ![i].errors = @ + 1]
          /\ UNCHANGED <<this_request, lock, uptodate, callVars, sorting, hit>>
  /\ do_hd' = "do_request"
  /\ drive' = Specify
  /\ UNCHANGED <<timeouts, moved>>

(* read_intr: the first sector is read; the interrupt for the second comes *)
(* while the handler still runs, as on the emulated drive it was written   *)
(* for, and only reads it.  The request is done.                           *)
ReadIntr ==
  LET bh == request[this_request].bh IN
  /\ do_hd = "read_intr" /\ drive.op = "read"
  /\ \/ BadRwIntr
     \/ /\ Complete(TRUE)
        /\ DoRequest(sorting, request, this_request',
                     Move(Move(moved, bh, 0, 0), bh, 1, 1))

(* write_intr: the drive has taken a sector; give it the second half, or   *)
(* the request is done.                                                    *)
WriteIntr ==
  LET i == this_request IN
  /\ do_hd = "write_intr" /\ drive.op = "write"
  /\ \/ BadRwIntr
     \/ /\ request[i].nsector = 2
        /\ request' = [request EXCEPT ![i].nsector = 1]
        /\ moved' = Move(moved, request[i].bh, drive.at, 1)
        /\ drive' = [drive EXCEPT !.at = @ + 1]
        /\ UNCHANGED <<this_request, do_hd, timeouts, sorting, lock, uptodate,
                       callVars, hit>>
     \/ /\ request[i].nsector = 1
        /\ Complete(TRUE)
        /\ DoRequest(sorting, request, this_request', moved)

(* The drive has been reset: do_request is the handler.                    *)
ResetIntr ==
  /\ do_hd = "do_request" /\ drive.op = "specify"
  /\ DoRequest(sorting, request, this_request, moved)
  /\ hit' = (hit \/ Hits(FALSE))
  /\ UNCHANGED <<request, this_request, callVars, sorting, lock, uptodate>>

-----------------------------------------------------------------------------
(* rw_abs_hd                                                               *)

(* A process runs in the driver until it sleeps.                           *)
Inside == {p \in Procs : pc[p] \in {"full", "look", "insert", "linked"}}

(* Take the first free entry and begin to sort, or find the table full.    *)
Find(p) ==
  \/ /\ \A i \in Requests : request[i].busy
     /\ pc' = [pc EXCEPT ![p] = "full"]
     /\ UNCHANGED <<request, mine, sorting>>
  \/ \E i \in Requests :
       /\ ~request[i].busy
       /\ \A j \in Requests : j < i => request[j].busy
       /\ request' = [request EXCEPT ![i] =
            [busy |-> TRUE, nsector |-> 2, errors |-> 0, bh |-> p, next |-> NULL]]
       /\ mine' = i
       /\ sorting' = TRUE
       /\ pc' = [pc EXCEPT ![p] = "look"]

(* The call: lock the buffer and look for a free entry.                    *)
RwAbsHd(p, cmd, at) ==
  /\ pc[p] = "out" /\ Inside = {}
  /\ lock' = [lock EXCEPT ![p] = TRUE]
  /\ moved' = [moved EXCEPT ![p] = Unmoved]
  /\ job' = [job EXCEPT ![p] = [cmd |-> cmd, at |-> at]]
  /\ Find(p)
  /\ UNCHANGED <<this_request, tmp, hit, driveVars, uptodate>>

(* sleep_on(&wait_for_request), which does not look at the table again.    *)
Sleep(p) ==
  /\ pc[p] = "full"
  /\ pc' = [pc EXCEPT ![p] = "asleep"]
  /\ UNCHANGED <<request, this_request, sorting, hit, job, mine, tmp,
                 driveVars, bufferVars>>

Again(p) ==
  /\ pc[p] = "again" /\ Inside = {}
  /\ Find(p)
  /\ UNCHANGED <<this_request, tmp, job, hit, driveVars, bufferVars>>

(* add_request reads this_request ...                                      *)
Look(p) ==
  /\ pc[p] = "look"
  /\ tmp' = this_request
  /\ pc' = [pc EXCEPT ![p] = "insert"]
  /\ UNCHANGED <<request, this_request, sorting, hit, job, mine, driveVars,
                 bufferVars>>

(* IN_ORDER, on one drive with one head.                                   *)
InOrder(a, b) == a[1] <= b[1] /\ a[2] < b[2]

Place(i) == job[request[i].bh].at

(* ... walks from the second request to the place of the new one ...       *)
Fits(i, new) ==
  LET next == request[i].next IN
  /\ InOrder(Place(i), Place(new)) \/ ~InOrder(Place(i), Place(next))
  /\ InOrder(Place(new), Place(next))

Walk(from, new) ==
  LET stop[i \in Requests] ==
        IF request[i].next = NULL \/ Fits(i, new) THEN i
        ELSE stop[request[i].next]
  IN stop[from]

\* a broken variant
LinkLast(i) == request' = [request EXCEPT ![i].next = mine]

LinkAfter(i) ==
  request' = [request EXCEPT ![i].next = mine, ![mine].next = request[i].next]

(* ... and links it in; the two first requests keep their places.          *)
Insert(p) ==
  /\ pc[p] = "insert"
  /\ \/ /\ tmp = NULL
        /\ this_request' = mine
        /\ UNCHANGED request
     \/ /\ tmp # NULL /\ request[tmp].next = NULL
        /\ LinkAfter(tmp)
        /\ UNCHANGED this_request
     \/ /\ tmp # NULL /\ request[tmp].next # NULL
        /\ LinkAfter(Walk(request[tmp].next, mine))
        /\ UNCHANGED this_request
  /\ pc' = [pc EXCEPT ![p] = "linked"]
  /\ UNCHANGED <<sorting, hit, job, mine, tmp, driveVars, bufferVars>>

\* a broken variant
StartNoRestart(p) ==
  /\ pc[p] = "linked"
  /\ sorting' = FALSE
  /\ pc' = [pc EXCEPT ![p] = "wait"]
  /\ mine' = NULL /\ tmp' = NULL
  /\ UNCHANGED <<request, this_request, hit, job, lock, uptodate, driveVars, moved>>

(* The queue is sorted; start the drive if no interrupt is to come.        *)
Start(p) ==
  /\ pc[p] = "linked"
  /\ sorting' = FALSE
  /\ IF do_hd = "NULL" THEN DoRequest(FALSE, request, this_request, moved)
                       ELSE UNCHANGED <<driveVars, moved>>
  /\ pc' = [pc EXCEPT ![p] = "wait"]
  /\ mine' = NULL /\ tmp' = NULL
  /\ UNCHANGED <<request, this_request, hit, job, lock, uptodate>>

(* wait_on_buffer returns: the transfer is over.                           *)
Return(p) ==
  /\ pc[p] = "wait" /\ ~lock[p] /\ Inside = {}
  /\ pc' = [pc EXCEPT ![p] = "out"]
  /\ job' = [job EXCEPT ![p] = NoJob]
  /\ moved' = [moved EXCEPT ![p] = Unmoved]
  /\ uptodate' = [uptodate EXCEPT ![p] = FALSE]
  /\ UNCHANGED <<request, this_request, sorting, hit, mine, tmp, driveVars, lock>>

Interrupt == ReadIntr \/ WriteIntr \/ ResetIntr

Proceed(p) ==
  Sleep(p) \/ Again(p) \/ Look(p) \/ Insert(p) \/ Start(p) \/ Return(p)

Next ==
  \/ ReadIntr
  \/ WriteIntr
  \/ ResetIntr
  \/ \E p \in Procs, cmd \in Commands, at \in Places : RwAbsHd(p, cmd, at)
  \/ \E p \in Procs : Sleep(p)
  \/ \E p \in Procs : Again(p)
  \/ \E p \in Procs : Look(p)
  \/ \E p \in Procs : Insert(p)
  \/ \E p \in Procs : Start(p)
  \/ \E p \in Procs : Return(p)

Spec == Init /\ [][Next]_vars

(* The drive answers every command, and a process that can run does.       *)
FairSpec == Spec /\ WF_vars(Interrupt) /\ \A p \in Procs : SF_vars(Proceed(p))

-----------------------------------------------------------------------------
(* Properties                                                              *)

(* The requests that are found by following next from this_request.        *)
Queue ==
  LET tail[n \in 0 .. NR_REQUEST] ==
        IF n = 0 THEN {this_request} \ {NULL}
        ELSE tail[n - 1] \cup ({request[i].next : i \in tail[n - 1]} \ {NULL})
  IN tail[NR_REQUEST]

Adding == {p \in Procs : pc[p] \in {"look", "insert"}}

(* Every request goes through once (add_request, the handlers): a locked   *)
(* buffer has one entry in the table and an unlocked one none, so no       *)
(* transfer is done twice and no buffer is unlocked by another's.          *)
OneRequestEach ==
  /\ \A p \in Procs :
       Cardinality({i \in Requests : request[i].busy /\ request[i].bh = p})
         = IF lock[p] /\ pc[p] \notin {"full", "asleep", "again"} THEN 1 ELSE 0
  /\ this_request # NULL => request[this_request].busy

(* No request is lost (add_request): unless an interrupt has hit the       *)
(* sorting, every entry in use is in the queue, but for the one that is    *)
(* about to be put there, and the queue holds no other.                    *)
QueueComplete ==
  ~hit => Queue = {i \in Requests : request[i].busy}
                     \ (IF Adding = {} THEN {} ELSE {mine})

(* The drive is kept at work (do_request, bad_rw_intr, add_request):       *)
(* unless an interrupt has hit the sorting, it has a command whenever      *)
(* there is a request and nobody is adding one; and an interrupt that      *)
(* comes always finds its handler.                                         *)
DriveAtWork ==
  /\ (~hit /\ ~sorting /\ this_request # NULL) => drive.op # "none"
  /\ drive.op # "none" => do_hd # "NULL"

(* Data arrive (read_intr, write_intr, do_request): a transfer reported    *)
(* good and never retried has moved both halves to their own sectors.      *)
DataArrive ==
  [][\A p \in Procs :
       (lock[p] /\ ~lock'[p] /\ uptodate'[p] /\ request[this_request].errors = 0)
         => moved'[p] = [s \in 0 .. 1 |-> "right"]]_vars

(* The two first requests are safe (add_request never touches them, the    *)
(* interrupt handlers serve them): their transfers end, whatever the       *)
(* drive's errors and however many requests are added meanwhile, unless an *)
(* interrupt hits an unprotected place.  Those behind have no such promise *)
(* : the elevator may let others in before them for ever.                  *)
Heads == {this_request} \cup {request[i].next : i \in {this_request} \ {NULL}}

HeadsServed ==
  \A p \in Procs :
    (\E i \in Heads \ {NULL} : request[i].bh = p) ~> (~lock[p] \/ hit)

(* Whoever waits for an entry is told of one (sleep_on(&wait_for_request), *)
(* wake_up in the handlers), unless an interrupt hits an unprotected       *)
(* place; it may find that others have been faster.                        *)
WaiterWoken == \A p \in Procs : pc[p] = "asleep" ~> (pc[p] # "asleep" \/ hit)

(* "As a result of sorting, the interrupts may have died down ... so we    *)
(* restart them if necessary" (kernel/hd.c:367): when add_request is over  *)
(* and there are requests, the drive is at work.                           *)
Restarted == (~sorting /\ this_request # NULL) => drive.op # "none"
=============================================================================
