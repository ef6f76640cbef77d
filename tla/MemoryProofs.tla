---------------------------- MODULE MemoryProofs ----------------------------
(***************************************************************************)
(* Proofs about module Memory, for every number of tasks, pages, page      *)
(* tables and entries: mem_map counts the references to every page, through*)
(* faults, forks and execs that run out of memory half-way; what a task may*)
(* write to is its own; and so shared pages implement separate memories.   *)
(***************************************************************************)
EXTENDS Memory, Counting

-----------------------------------------------------------------------------
(* The invariant                                                           *)

Memories ==
  [map : [Pages -> Int],
   dir : [Tasks -> [Dirs -> Pages \cup {Low, NoPage}]],
   page : [Tasks -> [Addresses -> Pages \cup {Low, NoPage}]],
   writable : [Tasks -> [Addresses -> BOOLEAN]],
   val : [Pages \cup {Low} -> Values]]

(* Where a memory refers to a page.                                        *)
PageRefs(m, p) == {x \in Tasks \X Addresses : m.page[x[1]][x[2]] = p}
DirRefs(m, p) == {x \in Tasks \X Dirs : m.dir[x[1]][x[2]] = p}

(* Every page is counted as often as a memory refers to it, and o[p] times *)
(* from outside: by the kernel.                                            *)
Balanced(m, o) ==
  \A p \in Pages :
    m.map[p] = Cardinality(PageRefs(m, p)) + Cardinality(DirRefs(m, p)) + o[p]

(* Page tables and what the kernel holds are not shared.                   *)
Single(m, o) ==
  /\ \A p \in Pages : o[p] # 0 => m.map[p] = 1
  /\ \A t \in Tasks, d \in Dirs : m.dir[t][d] \in Pages => m.map[m.dir[t][d]] = 1

(* Pages are found through page tables; tasks that share a page have it at *)
(* the same address; a page that may be written to is nobody else's.       *)
InTables(m) ==
  \A t \in Tasks, a \in Addresses : m.page[t][a] # NoPage => m.dir[t][a[1]] # NoPage
SamePlace(m) ==
  \A t, u \in Tasks, a, b \in Addresses :
    m.page[t][a] \in Pages /\ m.page[t][a] = m.page[u][b] => a = b
Writable(m) ==
  \A t \in Tasks, a \in Addresses :
    m.writable[t][a] => \/ m.page[t][a] \in Pages /\ m.map[m.page[t][a]] = 1
                        \/ t = 0 /\ m.page[t][a] = Low

(* A sound memory.  The steps go through memories that are sound while the *)
(* kernel holds a page for a moment, which is why o is a parameter.        *)
Sound(m, o) ==
  /\ m \in Memories /\ o \in [Pages -> Nat]
  /\ Balanced(m, o) /\ Single(m, o)
  /\ InTables(m) /\ SamePlace(m) /\ Writable(m)

(* What the kernel holds: task structures, arguments, pipes, lost pages.   *)
Owned(f, p) == {t \in Tasks : f[t] = p}
Held(ta, ar, pi, lo) ==
  [p \in Pages |-> Cardinality(Owned(ta, p)) + Cardinality(Owned(ar, p))
                   + (IF p \in pi THEN 1 ELSE 0) + (IF p \in lo THEN 1 ELSE 0)]
Outside == Held(task, args, pipes, lost)

Types ==
  /\ task \in [Tasks -> Pages \cup {Low, NoPage}]
  /\ pc \in [Tasks -> {"none", "user", "put", "exec", "load", "tables", "zombie"}]
  /\ place \in [Tasks -> Addresses]
  /\ limit \in [Tasks -> 1..DIRS]
  /\ args \in [Tasks -> Pages \cup {NoPage}]
  /\ pipes \in SUBSET Pages /\ lost \in SUBSET Pages
  /\ unverified \in Nat

(* What a task has where it is.                                            *)
TaskOf(t) ==
  /\ t = 0 => pc[t] = "user"
  /\ task[t] = NoPage <=> pc[t] = "none"
  /\ task[t] = Low <=> t = 0
  /\ args[t] # NoPage => pc[t] \in {"exec", "load"}
  /\ \A d \in Dirs : mem.dir[t][d] # NoPage => d < limit[t] /\ pc[t] \notin {"none", "zombie"}
  /\ pc[t] = "load" => \A a \in Addresses : mem.page[t][a] # NoPage => mem.writable[t][a]
  /\ pc[t] = "put" => \/ mem.page[t][place[t]] = NoPage
                      \/ mem.writable[t][place[t]]

MemInv ==
  /\ Types
  /\ Sound(mem, Outside)
  /\ \A t \in Tasks : TaskOf(t)

-----------------------------------------------------------------------------
(* References                                                              *)

(* Tasks, page tables and entries are finitely many; pages are not numbers *)
(* that mean something else.                                               *)
LEMMA Constants ==
  /\ IsFiniteSet(Tasks) /\ IsFiniteSet(Dirs) /\ IsFiniteSet(Addresses)
  /\ IsFiniteSet(Tasks \X Addresses) /\ IsFiniteSet(Tasks \X Dirs)
  /\ Tasks \subseteq Nat /\ Dirs \subseteq Nat /\ 0 \in Tasks /\ 0 \in Dirs
  /\ \A a \in Addresses : a[1] \in Dirs
  /\ Top \in Addresses
  /\ Low \notin Pages /\ NoPage \notin Pages /\ Low # NoPage
  /\ DIRS \in Nat \ {0}
<1>1. IsFiniteSet(Tasks) /\ IsFiniteSet(Dirs) /\ IsFiniteSet(0..(ENTRIES - 1))
  <2>1. NR_TASKS - 1 \in Int /\ DIRS - 1 \in Int /\ ENTRIES - 1 \in Int
    BY MemoryAssumption
  <2>2. QED
    BY <2>1, FS_Interval DEF Tasks, Dirs
<1>2. IsFiniteSet(Addresses)
  BY <1>1, FS_Product DEF Addresses
<1>3. IsFiniteSet(Tasks \X Addresses) /\ IsFiniteSet(Tasks \X Dirs)
  BY <1>1, <1>2, FS_Product
<1>4. /\ Tasks \subseteq Nat /\ Dirs \subseteq Nat /\ 0 \in Tasks /\ 0 \in Dirs
      /\ \A a \in Addresses : a[1] \in Dirs
      /\ Top \in Addresses
  BY MemoryAssumption DEF Tasks, Dirs, Addresses, Top
<1>5. Low \notin Pages /\ NoPage \notin Pages /\ Low # NoPage /\ DIRS \in Nat \ {0}
  BY MemoryAssumption DEF Low, NoPage
<1>6. QED
  BY <1>1, <1>2, <1>3, <1>4, <1>5

(* The references of a memory to a page are finitely many.                 *)
LEMMA RefsFinite ==
  ASSUME NEW m, NEW p
  PROVE  /\ IsFiniteSet(PageRefs(m, p)) /\ Cardinality(PageRefs(m, p)) \in Nat
         /\ IsFiniteSet(DirRefs(m, p)) /\ Cardinality(DirRefs(m, p)) \in Nat
BY Constants, FS_Subset, FS_CardinalityType DEF PageRefs, DirRefs

(* A free page is referred to by nobody, and one that is counted once by   *)
(* one entry, or one entry of a page directory, or the kernel.             *)
LEMMA Sharing ==
  ASSUME NEW m, NEW o \in [Pages -> Nat], Balanced(m, o), NEW p \in Pages
  PROVE  /\ m.map[p] \in Nat
         /\ m.map[p] = 0 => PageRefs(m, p) = {} /\ DirRefs(m, p) = {} /\ o[p] = 0
         /\ m.map[p] = 1 =>
              /\ \A x \in PageRefs(m, p) :
                   PageRefs(m, p) = {x} /\ DirRefs(m, p) = {} /\ o[p] = 0
              /\ \A x \in DirRefs(m, p) :
                   DirRefs(m, p) = {x} /\ PageRefs(m, p) = {} /\ o[p] = 0
              /\ o[p] # 0 => PageRefs(m, p) = {} /\ DirRefs(m, p) = {} /\ o[p] = 1
<1> DEFINE S == PageRefs(m, p)
           T == DirRefs(m, p)
<1>1. /\ IsFiniteSet(S) /\ Cardinality(S) \in Nat
      /\ IsFiniteSet(T) /\ Cardinality(T) \in Nat
  BY RefsFinite
<1>2. m.map[p] = Cardinality(S) + Cardinality(T) + o[p] /\ o[p] \in Nat
  BY DEF Balanced
<1> HIDE DEF S, T
<1>3. /\ Cardinality(S) = 0 <=> S = {}
      /\ Cardinality(T) = 0 <=> T = {}
  BY <1>1, FS_EmptySet
<1>4. CASE m.map[p] = 0
  <2>1. Cardinality(S) = 0 /\ Cardinality(T) = 0 /\ o[p] = 0
    BY <1>1, <1>2, <1>4
  <2>2. S = {} /\ T = {}
    BY <1>3, <2>1
  <2>3. QED
    BY <1>4, <2>1, <2>2 DEF S, T
<1>5. CASE m.map[p] = 1
  <2>1. ASSUME NEW x \in S
        PROVE  S = {x} /\ T = {} /\ o[p] = 0
    <3>1. Cardinality(S) = 1 /\ Cardinality(T) = 0 /\ o[p] = 0
      BY <1>1, <1>2, <1>3, <1>5, <2>1
    <3>2. QED
      BY <1>1, <1>3, <2>1, <3>1, OnlyOne
  <2>2. ASSUME NEW x \in T
        PROVE  T = {x} /\ S = {} /\ o[p] = 0
    <3>1. Cardinality(T) = 1 /\ Cardinality(S) = 0 /\ o[p] = 0
      BY <1>1, <1>2, <1>3, <1>5, <2>2
    <3>2. QED
      BY <1>1, <1>3, <2>2, <3>1, OnlyOne
  <2>3. o[p] # 0 => S = {} /\ T = {} /\ o[p] = 1
    BY <1>1, <1>2, <1>3, <1>5
  <2>4. QED
    BY <1>2, <1>5, <2>1, <2>2, <2>3 DEF S, T
<1>6. QED
  BY <1>1, <1>2, <1>4, <1>5 DEF S, T

(* The same with the entries by name.                                      *)
LEMMA Alones ==
  ASSUME NEW m, NEW o, Sound(m, o), NEW p \in Pages
  PROVE  /\ m.map[p] \in Nat
         /\ m.map[p] = 0 =>
              /\ o[p] = 0
              /\ \A u \in Tasks, b \in Addresses : m.page[u][b] # p
              /\ \A u \in Tasks, e \in Dirs : m.dir[u][e] # p
         /\ m.map[p] = 1 =>
              /\ \A t, u \in Tasks, a, b \in Addresses :
                   m.page[t][a] = p /\ m.page[u][b] = p => t = u /\ a = b
              /\ \A t, u \in Tasks, d, e \in Dirs :
                   m.dir[t][d] = p /\ m.dir[u][e] = p => t = u /\ d = e
              /\ \A t, u \in Tasks, a \in Addresses, e \in Dirs :
                   ~(m.page[t][a] = p /\ m.dir[u][e] = p)
              /\ \A t \in Tasks, a \in Addresses : m.page[t][a] = p => o[p] = 0
              /\ \A t \in Tasks, d \in Dirs : m.dir[t][d] = p => o[p] = 0
<1>1. o \in [Pages -> Nat] /\ Balanced(m, o)
  BY DEF Sound
<1>2. \A t \in Tasks, a \in Addresses : m.page[t][a] = p => <<t, a>> \in PageRefs(m, p)
  BY DEF PageRefs
<1>3. \A t \in Tasks, d \in Dirs : m.dir[t][d] = p => <<t, d>> \in DirRefs(m, p)
  BY DEF DirRefs
<1> DEFINE S == PageRefs(m, p)
           T == DirRefs(m, p)
<1>4. /\ m.map[p] \in Nat
      /\ m.map[p] = 0 => S = {} /\ T = {} /\ o[p] = 0
      /\ m.map[p] = 1 =>
           /\ \A x \in S : S = {x} /\ T = {} /\ o[p] = 0
           /\ \A x \in T : T = {x} /\ S = {} /\ o[p] = 0
  BY <1>1, Sharing
<1> HIDE DEF S, T
<1>5. CASE m.map[p] = 0
  BY <1>2, <1>3, <1>4, <1>5 DEF S, T
<1>6. CASE m.map[p] = 1
  <2>1. ASSUME NEW t \in Tasks, NEW a \in Addresses, m.page[t][a] = p
        PROVE  S = {<<t, a>>} /\ T = {} /\ o[p] = 0
    BY <1>2, <1>4, <1>6, <2>1 DEF S
  <2>2. ASSUME NEW t \in Tasks, NEW d \in Dirs, m.dir[t][d] = p
        PROVE  T = {<<t, d>>} /\ S = {} /\ o[p] = 0
    BY <1>3, <1>4, <1>6, <2>2 DEF T
  <2>3. ASSUME NEW t \in Tasks, NEW u \in Tasks, NEW a \in Addresses, NEW b \in Addresses,
               m.page[t][a] = p, m.page[u][b] = p
        PROVE  t = u /\ a = b
    <3>1. <<u, b>> \in {<<t, a>>}
      BY <1>2, <2>1, <2>3 DEF S
    <3>2. QED
      BY <3>1
  <2>4. ASSUME NEW t \in Tasks, NEW u \in Tasks, NEW d \in Dirs, NEW e \in Dirs,
               m.dir[t][d] = p, m.dir[u][e] = p
        PROVE  t = u /\ d = e
    <3>1. <<u, e>> \in {<<t, d>>}
      BY <1>3, <2>2, <2>4 DEF T
    <3>2. QED
      BY <3>1
  <2>5. ASSUME NEW t \in Tasks, NEW u \in Tasks, NEW a \in Addresses, NEW e \in Dirs,
               m.page[t][a] = p, m.dir[u][e] = p
        PROVE  FALSE
    BY <2>1, <2>2, <2>5
  <2>6. QED
    BY <1>4, <1>6, <2>1, <2>2, <2>3, <2>4, <2>5
<1>7. QED
  BY <1>4, <1>5, <1>6

-----------------------------------------------------------------------------
(* mm/memory.c keeps memories sound                                        *)

(* What each task sees.                                                    *)
Space(m) ==
  [t \in Tasks |-> [a \in Addresses |->
     IF m.page[t][a] = NoPage THEN 0 ELSE m.val[m.page[t][a]]]]

(* A memory with the entries of another that counts their pages alike is   *)
(* sound as well.                                                          *)
LEMMA SameRefs ==
  ASSUME NEW m, NEW n, n.page = m.page, n.dir = m.dir, NEW p
  PROVE  PageRefs(n, p) = PageRefs(m, p) /\ DirRefs(n, p) = DirRefs(m, p)
BY DEF PageRefs, DirRefs

(* Forgetting what free pages contain changes nothing else.                *)
LEMMA Forget ==
  ASSUME NEW m, NEW o, Sound(m, o), NEW n, n = Forgotten(m)
  PROVE  /\ Sound(n, o) /\ Space(n) = Space(m)
         /\ n.map = m.map /\ n.dir = m.dir /\ n.page = m.page /\ n.writable = m.writable
         /\ \A p \in Pages \cup {Low} : (p \in Pages => m.map[p] # 0) => n.val[p] = m.val[p]
<1>1. m \in Memories
  BY DEF Sound
<1>2. /\ n \in Memories
      /\ n.map = m.map /\ n.dir = m.dir /\ n.page = m.page /\ n.writable = m.writable
      /\ n.val = [p \in Pages \cup {Low} |-> IF p \in Free(m) THEN 0 ELSE m.val[p]]
  <2>1. n = [m EXCEPT !.val = [p \in Pages \cup {Low} |->
                                 IF p \in Free(m) THEN 0 ELSE m.val[p]]]
    BY <1>1 DEF Forgotten, Memories
  <2>2. QED
    BY <1>1, <2>1, MemoryAssumption, SMTT(60) DEF Memories
<1>3. \A p \in Pages \cup {Low} : (p \in Pages => m.map[p] # 0) => n.val[p] = m.val[p]
  BY <1>2, Constants DEF Free
<1>4. Sound(n, o)
  BY <1>2, SameRefs DEF Sound, Balanced, Single, InTables, SamePlace, Writable
<1>5. Space(n) = Space(m)
  <2>1. \A t \in Tasks, a \in Addresses :
          m.page[t][a] \in Pages => m.map[m.page[t][a]] # 0
    BY Alones
  <2>2. \A t \in Tasks, a \in Addresses : m.page[t][a] \in Pages \cup {Low, NoPage}
    BY <1>1 DEF Memories
  <2>3. \A t \in Tasks, a \in Addresses :
          m.page[t][a] # NoPage => n.val[m.page[t][a]] = m.val[m.page[t][a]]
    BY <1>3, <2>1, <2>2
  <2>4. n.page = m.page
    BY <1>2
  <2>5. QED
    BY <2>3, <2>4 DEF Space
<1>6. QED
  BY <1>2, <1>3, <1>4, <1>5

(* get_free_page: the kernel holds a page that nobody had.                 *)
LEMMA GetFreePage ==
  ASSUME NEW m, NEW o, Sound(m, o), Free(m) # {}, NEW n, n = get_free_page(m)
  PROVE  /\ FreePage(m) \in Pages /\ m.map[FreePage(m)] = 0 /\ o[FreePage(m)] = 0
         /\ Sound(n, [o EXCEPT ![FreePage(m)] = 1]) /\ Space(n) = Space(m)
         /\ n.map = [m.map EXCEPT ![FreePage(m)] = 1]
         /\ n.val = [m.val EXCEPT ![FreePage(m)] = 0]
         /\ n.dir = m.dir /\ n.page = m.page /\ n.writable = m.writable
<1> DEFINE f == FreePage(m)
           x == [o EXCEPT ![f] = 1]
<1>1. f \in Pages /\ m.map[f] = 0
  BY DEF Free, FreePage
<1>2. m \in Memories /\ o \in [Pages -> Nat]
  BY DEF Sound
<1>3. /\ n \in Memories
      /\ n.map = [m.map EXCEPT ![f] = 1] /\ n.val = [m.val EXCEPT ![f] = 0]
      /\ n.dir = m.dir /\ n.page = m.page /\ n.writable = m.writable
  <2>1. n = [m EXCEPT !.map[f] = 1, !.val[f] = 0] /\ 0 \in Values
    BY MemoryAssumption DEF get_free_page
  <2> HIDE DEF f
  <2>2. /\ n.map = [m.map EXCEPT ![f] = 1] /\ n.val = [m.val EXCEPT ![f] = 0]
        /\ n.dir = m.dir /\ n.page = m.page /\ n.writable = m.writable
    BY <1>2, <2>1 DEF Memories
  <2>3. n.map \in [Pages -> Int] /\ n.val \in [Pages \cup {Low} -> Values]
    BY <1>1, <1>2, <2>1, <2>2 DEF Memories
  <2>4. n \in Memories
    BY <1>2, <2>1, <2>3 DEF Memories
  <2>5. QED
    BY <2>2, <2>4
<1> HIDE DEF f
<1>4. /\ o[f] = 0
      /\ \A u \in Tasks, b \in Addresses : m.page[u][b] # f
      /\ \A u \in Tasks, e \in Dirs : m.dir[u][e] # f
  BY <1>1, Alones
<1>5. x \in [Pages -> Nat]
  BY <1>1, <1>2
<1>6. Balanced(n, x)
  <2> SUFFICES ASSUME NEW p \in Pages
               PROVE  n.map[p] = Cardinality(PageRefs(n, p)) + Cardinality(DirRefs(n, p)) + x[p]
    BY DEF Balanced
  <2>1. m.map[p] = Cardinality(PageRefs(n, p)) + Cardinality(DirRefs(n, p)) + o[p]
    BY <1>3, SameRefs DEF Sound, Balanced
  <2>2. Cardinality(PageRefs(n, p)) \in Nat /\ Cardinality(DirRefs(n, p)) \in Nat
    BY RefsFinite
  <2>3. n.map[p] = (IF p = f THEN 1 ELSE m.map[p]) /\ x[p] = (IF p = f THEN 1 ELSE o[p])
    BY <1>1, <1>2, <1>3 DEF Memories
  <2> HIDE DEF x
  <2>4. QED
    BY <1>1, <1>4, <2>1, <2>2, <2>3
<1>7. Single(n, x)
  BY <1>1, <1>2, <1>3, <1>4 DEF Single, Sound, Memories
<1>8. InTables(n) /\ SamePlace(n)
  BY <1>3 DEF Sound, InTables, SamePlace
<1>9. Writable(n)
  BY <1>1, <1>2, <1>3, <1>4 DEF Sound, Writable, Memories
<1>10. Space(n) = Space(m)
  <2>1. \A t \in Tasks, a \in Addresses :
          m.page[t][a] \in Pages \cup {Low, NoPage} /\ m.page[t][a] # f
    BY <1>2, <1>4 DEF Memories
  <2>2. \A p \in Pages \cup {Low} : p # f => n.val[p] = m.val[p]
    BY <1>2, <1>3 DEF Memories
  <2>3. QED
    BY <1>3, <2>1, <2>2 DEF Space
<1>11. QED
  BY <1>1, <1>3, <1>4, <1>5, <1>6, <1>7, <1>8, <1>9, <1>10 DEF Sound, f

(* free_page: the kernel gives back a page that it holds.                  *)
LEMMA FreeOne ==
  ASSUME NEW m, NEW o, Sound(m, o), NEW p \in Pages, o[p] # 0, NEW n, n = free_page(m, p)
  PROVE  /\ Sound(n, [o EXCEPT ![p] = @ - 1]) /\ Space(n) = Space(m)
         /\ n.dir = m.dir /\ n.page = m.page /\ n.writable = m.writable
<1> DEFINE k == [m EXCEPT !.map[p] = @ - 1]
           x == [o EXCEPT ![p] = @ - 1]
<1>1. m \in Memories /\ o \in [Pages -> Nat] /\ Balanced(m, o) /\ m.map[p] = 1
  BY DEF Sound, Single
<1>2. /\ k \in Memories
      /\ k.map = [m.map EXCEPT ![p] = 0] /\ k.val = m.val
      /\ k.dir = m.dir /\ k.page = m.page /\ k.writable = m.writable
  <2>1. k = [m EXCEPT !.map = [m.map EXCEPT ![p] = 0]]
    <3>1. m.map[p] - 1 = 0
      BY <1>1
    <3>2. QED
      BY <1>1, <3>1 DEF Memories
  <2> HIDE DEF k
  <2>2. /\ k.map = [m.map EXCEPT ![p] = 0] /\ k.val = m.val
        /\ k.dir = m.dir /\ k.page = m.page /\ k.writable = m.writable
    BY <1>1, <2>1 DEF Memories
  <2>3. k.map \in [Pages -> Int]
    BY <1>1, <2>2 DEF Memories
  <2>4. k \in Memories
    BY <1>1, <2>1, <2>2, <2>3 DEF Memories
  <2>5. QED
    BY <2>2, <2>4
<1>3. n = Forgotten(k)
  BY DEF free_page
<1> HIDE DEF k
<1>4. /\ PageRefs(m, p) = {} /\ DirRefs(m, p) = {} /\ o[p] = 1
      /\ \A u \in Tasks, b \in Addresses : m.page[u][b] # p
      /\ \A u \in Tasks, e \in Dirs : m.dir[u][e] # p
  <2>1. PageRefs(m, p) = {} /\ DirRefs(m, p) = {} /\ o[p] = 1
    BY <1>1, Sharing
  <2>2. QED
    BY <1>1, <2>1, Alones
<1>5. x \in [Pages -> Nat] /\ x = [o EXCEPT ![p] = 0]
  BY <1>1, <1>4
<1>6. Balanced(k, x)
  <2> SUFFICES ASSUME NEW q \in Pages
               PROVE  k.map[q] = Cardinality(PageRefs(k, q)) + Cardinality(DirRefs(k, q)) + x[q]
    BY DEF Balanced
  <2>1. m.map[q] = Cardinality(PageRefs(k, q)) + Cardinality(DirRefs(k, q)) + o[q]
    BY <1>1, <1>2, SameRefs DEF Balanced
  <2>2. Cardinality(PageRefs(k, q)) \in Nat /\ Cardinality(DirRefs(k, q)) \in Nat
    BY RefsFinite
  <2>3. k.map[q] = (IF q = p THEN 0 ELSE m.map[q]) /\ x[q] = (IF q = p THEN 0 ELSE o[q])
    BY <1>1, <1>2, <1>5 DEF Memories
  <2> HIDE DEF x
  <2>4. QED
    BY <1>1, <1>4, <2>1, <2>2, <2>3
<1>7. Single(k, x)
  BY <1>1, <1>2, <1>4, <1>5 DEF Single, Sound, Memories
<1>8. InTables(k) /\ SamePlace(k)
  BY <1>2 DEF Sound, InTables, SamePlace
<1>9. Writable(k)
  BY <1>1, <1>2, <1>4 DEF Sound, Writable, Memories
<1>10. Space(k) = Space(m)
  BY <1>2 DEF Space
<1>11. Sound(k, x)
  BY <1>2, <1>5, <1>6, <1>7, <1>8, <1>9 DEF Sound
<1> HIDE DEF x
<1>12. QED
  BY <1>2, <1>3, <1>10, <1>11, Forget DEF x

(* What n is when t has given up what is below c page tables.              *)
Freed(m, n, t, c) ==
  /\ \A v \in Tasks, e \in Dirs :
       n.dir[v][e] = IF v = t /\ e < c THEN NoPage ELSE m.dir[v][e]
  /\ \A v \in Tasks, a \in Addresses :
       /\ n.page[v][a] = IF v = t /\ a[1] < c THEN NoPage ELSE m.page[v][a]
       /\ n.writable[v][a] <=> ~(v = t /\ a[1] < c) /\ m.writable[v][a]
       /\ Space(n)[v][a] = IF v = t /\ a[1] < c THEN 0 ELSE Space(m)[v][a]

(* free_page_tables: a task gives up the part of its memory below c page   *)
(* tables.                                                                 *)
LEMMA FreeTables ==
  ASSUME NEW m, NEW o, Sound(m, o), NEW t \in Tasks, NEW c \in 0..DIRS,
         NEW n, n = free_page_tables(m, t, c)
  PROVE  Sound(n, o) /\ Freed(m, n, t, c)
<1> DEFINE gone == {a \in Addresses : a[1] < c}
           tables == {m.dir[t][d] : d \in 0..(c - 1)}
           D == [m.dir EXCEPT ![t] = [d \in Dirs |-> IF d < c THEN NoPage ELSE m.dir[t][d]]]
           P == [m.page EXCEPT ![t] =
                   [a \in Addresses |-> IF a[1] < c THEN NoPage ELSE m.page[t][a]]]
           W == [m.writable EXCEPT ![t] =
                   [a \in Addresses |-> ~(a[1] < c) /\ m.writable[t][a]]]
           M == [p \in Pages |-> m.map[p] - Users(m, t, gone, p)
                                   - (IF p \in tables THEN 1 ELSE 0)]
           k == [m EXCEPT !.map = M, !.dir = D, !.page = P, !.writable = W]
<1>1. m \in Memories /\ o \in [Pages -> Nat] /\ Balanced(m, o)
  BY DEF Sound
<1>2. D \in [Tasks -> [Dirs -> Pages \cup {Low, NoPage}]]
  BY <1>1 DEF Memories
<1>3. P \in [Tasks -> [Addresses -> Pages \cup {Low, NoPage}]]
  BY <1>1 DEF Memories
<1>4. W \in [Tasks -> [Addresses -> BOOLEAN]]
  BY <1>1 DEF Memories
<1>5. n = Forgotten(k)
  <2>1. /\ [m.dir EXCEPT ![t] = [d \in Dirs |-> IF d < c THEN NoPage ELSE @[d]]] = D
        /\ [m.page EXCEPT ![t] = [a \in Addresses |-> IF a \in gone THEN NoPage ELSE @[a]]] = P
        /\ [m.writable EXCEPT ![t] = [a \in Addresses |-> a \notin gone /\ @[a]]] = W
    BY <1>1 DEF Memories
  <2> HIDE DEF D, P, W
  <2>2. QED
    BY <2>1 DEF free_page_tables
<1>d. \A d : d \in 0..(c - 1) <=> d \in Dirs /\ d < c
  BY Constants DEF Dirs
<1>6. \A p \in Pages : Users(m, t, gone, p) \in Nat
  BY Constants, FS_Subset, FS_CardinalityType DEF Users
<1>7. /\ k \in Memories
      /\ k.map = M /\ k.dir = D /\ k.page = P /\ k.writable = W /\ k.val = m.val
  <2>1. M \in [Pages -> Int]
    BY <1>1, <1>6 DEF Memories
  <2> HIDE DEF M, D, P, W
  <2>2. k.map = M /\ k.dir = D /\ k.page = P /\ k.writable = W /\ k.val = m.val
    BY <1>1 DEF Memories
  <2>3. QED
    BY <1>1, <1>2, <1>3, <1>4, <2>1, <2>2 DEF Memories
<1> HIDE DEF k
<1>8. /\ \A u \in Tasks, d \in Dirs :
           k.dir[u][d] = IF u = t /\ d < c THEN NoPage ELSE m.dir[u][d]
      /\ \A u \in Tasks, a \in Addresses :
           /\ k.page[u][a] = IF u = t /\ a[1] < c THEN NoPage ELSE m.page[u][a]
           /\ k.writable[u][a] <=> ~(u = t /\ a[1] < c) /\ m.writable[u][a]
      /\ \A p \in Pages :
           k.map[p] = m.map[p] - Users(m, t, gone, p) - (IF p \in tables THEN 1 ELSE 0)
  BY <1>1, <1>7 DEF Memories
<1> HIDE DEF M, D, P, W
(* What is referred to from elsewhere, or not by these tables, keeps its   *)
(* count.                                                                  *)
<1>9. ASSUME NEW p \in Pages, \A a \in gone : m.page[t][a] # p, p \notin tables
      PROVE  k.map[p] = m.map[p]
  <2>1. Users(m, t, gone, p) = 0
    <3>1. {a \in gone : m.page[t][a] = p} = {}
      BY <1>9
    <3>2. QED
      BY <3>1, FS_EmptySet DEF Users
  <2>2. m.map[p] \in Int
    BY <1>1 DEF Memories
  <2>3. k.map[p] = m.map[p] - Users(m, t, gone, p) - (IF p \in tables THEN 1 ELSE 0)
    BY <1>8
  <2> HIDE DEF tables, gone
  <2>4. QED
    BY <1>9, <2>1, <2>2, <2>3
<1>10. \A p \in tables : \E d \in Dirs : d < c /\ m.dir[t][d] = p
  BY <1>d
<1>11. Balanced(k, o)
  <2> SUFFICES ASSUME NEW p \in Pages
               PROVE  k.map[p] = Cardinality(PageRefs(k, p)) + Cardinality(DirRefs(k, p)) + o[p]
    BY DEF Balanced
  <2> DEFINE A == {a \in gone : m.page[t][a] = p}
             B == {d \in 0..(c - 1) : m.dir[t][d] = p}
             R == PageRefs(k, p)
             S == DirRefs(k, p)
  <2>1. /\ IsFiniteSet(A) /\ IsFiniteSet(B) /\ IsFiniteSet(R) /\ IsFiniteSet(S)
        /\ Cardinality(R) \in Nat /\ Cardinality(S) \in Nat
    <3>1. 0..(c - 1) \subseteq Dirs
      BY <1>d
    <3>2. QED
      BY <3>1, Constants, FS_Subset, RefsFinite
  <2>2. PageRefs(m, p) = R \cup ({t} \X A) /\ R \cap ({t} \X A) = {}
    <3>1. \A u \in Tasks, a \in Addresses :
            m.page[u][a] = p <=> k.page[u][a] = p \/ (u = t /\ a \in A)
      BY <1>8, Constants
    <3>2. \A a \in A : k.page[t][a] # p
      BY <1>8, Constants
    <3>3. A \subseteq Addresses
      OBVIOUS
    <3> HIDE DEF A, gone
    <3>4. QED
      BY <3>1, <3>2, <3>3 DEF PageRefs
  <2>3. DirRefs(m, p) = S \cup ({t} \X B) /\ S \cap ({t} \X B) = {}
    <3>1. \A u \in Tasks, d \in Dirs :
            m.dir[u][d] = p <=> k.dir[u][d] = p \/ (u = t /\ d \in B)
      <4> SUFFICES ASSUME NEW u \in Tasks, NEW d \in Dirs
                   PROVE  m.dir[u][d] = p <=> k.dir[u][d] = p \/ (u = t /\ d \in B)
        OBVIOUS
      <4>1. k.dir[u][d] = IF u = t /\ d < c THEN NoPage ELSE m.dir[u][d]
        BY <1>8
      <4>2. u = t => (d \in B <=> d < c /\ m.dir[u][d] = p)
        BY <1>d
      <4> HIDE DEF B
      <4>3. QED
        BY <4>1, <4>2, Constants
    <3>2. \A d \in B : k.dir[t][d] # p
      BY <1>8, <1>d, Constants
    <3>3. B \subseteq Dirs
      BY <1>d
    <3> HIDE DEF B
    <3>4. QED
      BY <3>1, <3>2, <3>3 DEF DirRefs
  <2>4. Cardinality(B) = IF p \in tables THEN 1 ELSE 0
    <3>1. CASE p \in tables
      <4>1. PICK d \in 0..(c - 1) : m.dir[t][d] = p
        BY <3>1
      <4>2. d \in Dirs
        BY <4>1, <1>d
      <4>3. m.map[p] = 1
        BY <4>1, <4>2 DEF Sound, Single
      <4>4. \A e \in Dirs : m.dir[t][e] = p => e = d
        BY <4>1, <4>2, <4>3, Alones
      <4>5. B = {d}
        BY <4>1, <4>4, <1>d
      <4>6. QED
        BY <3>1, <4>5, FS_Singleton
    <3>2. CASE p \notin tables
      <4>1. B = {}
        BY <3>2
      <4>2. QED
        BY <3>2, <4>1, FS_EmptySet
    <3>3. QED
      BY <3>1, <3>2
  <2>5. Users(m, t, gone, p) = Cardinality(A)
    BY DEF Users
  <2>6. m.map[p] = Cardinality(PageRefs(m, p)) + Cardinality(DirRefs(m, p)) + o[p]
    BY <1>1 DEF Balanced
  <2>7. k.map[p] = m.map[p] - Cardinality(A) - Cardinality(B)
    BY <1>8, <2>4, <2>5
  <2>8. Cardinality(A) \in Nat /\ Cardinality(B) \in Nat
    BY <2>1, FS_CardinalityType
  <2> HIDE DEF A, B, R, S
  <2>9. /\ Cardinality(PageRefs(m, p)) = Cardinality(R) + Cardinality(A)
        /\ Cardinality(DirRefs(m, p)) = Cardinality(S) + Cardinality(B)
    <3>1. Cardinality(R \cup ({t} \X A)) = Cardinality(R) + Cardinality(A)
      BY <2>1, <2>2, AddRow
    <3>2. Cardinality(S \cup ({t} \X B)) = Cardinality(S) + Cardinality(B)
      BY <2>1, <2>3, AddRow
    <3>3. QED
      BY <2>2, <2>3, <3>1, <3>2
  <2>10. QED
    BY <1>1, <2>1, <2>6, <2>7, <2>8, <2>9 DEF R, S
<1>12. Single(k, o)
  <2>1. ASSUME NEW p \in Pages, o[p] # 0
        PROVE  k.map[p] = 1
    <3>1. m.map[p] = 1
      BY <2>1 DEF Sound, Single
    <3>2. (\A a \in gone : m.page[t][a] # p) /\ p \notin tables
      <4>1. /\ \A a \in Addresses : m.page[t][a] # p
            /\ \A d \in Dirs : m.dir[t][d] # p
        BY <2>1, <3>1, Alones
      <4>2. QED
        BY <1>10, <4>1
    <3>3. QED
      BY <1>9, <3>1, <3>2
  <2>2. ASSUME NEW u \in Tasks, NEW d \in Dirs, k.dir[u][d] \in Pages
        PROVE  k.map[k.dir[u][d]] = 1
    <3>1. /\ k.dir[u][d] = m.dir[u][d] /\ ~(u = t /\ d < c)
          /\ m.map[m.dir[u][d]] = 1
      BY <1>8, <2>2, Constants DEF Sound, Single
    <3>2. (\A a \in gone : m.page[t][a] # k.dir[u][d]) /\ k.dir[u][d] \notin tables
      BY <1>10, <2>2, <3>1, Alones
    <3>3. QED
      BY <1>9, <2>2, <3>1, <3>2
  <2>3. QED
    BY <2>1, <2>2 DEF Single
<1>13. InTables(k)
  <2> SUFFICES ASSUME NEW u \in Tasks, NEW a \in Addresses, k.page[u][a] # NoPage
               PROVE  k.dir[u][a[1]] # NoPage
    BY DEF InTables
  <2>1. a[1] \in Dirs
    BY Constants
  <2>2. ~(u = t /\ a[1] < c) /\ m.page[u][a] # NoPage
    BY <1>8
  <2>3. m.dir[u][a[1]] # NoPage
    BY <2>2 DEF Sound, InTables
  <2>4. QED
    BY <1>8, <2>1, <2>2, <2>3
<1>14. SamePlace(k)
  BY <1>8, Constants DEF Sound, SamePlace
<1>15. Writable(k)
  <2> SUFFICES ASSUME NEW u \in Tasks, NEW a \in Addresses, k.writable[u][a]
               PROVE  \/ k.page[u][a] \in Pages /\ k.map[k.page[u][a]] = 1
                      \/ u = 0 /\ k.page[u][a] = Low
    BY DEF Writable
  <2>1. m.writable[u][a] /\ ~(u = t /\ a[1] < c) /\ k.page[u][a] = m.page[u][a]
    BY <1>8
  <2>2. CASE m.page[u][a] \in Pages /\ m.map[m.page[u][a]] = 1
    <3>1. (\A b \in gone : m.page[t][b] # m.page[u][a]) /\ m.page[u][a] \notin tables
      BY <1>10, <2>1, <2>2, Alones, SMTT(60)
    <3>2. QED
      BY <1>9, <2>1, <2>2, <3>1
  <2>3. CASE u = 0 /\ m.page[u][a] = Low
    BY <2>1, <2>3
  <2>4. QED
    BY <2>1, <2>2, <2>3 DEF Sound, Writable
<1>16. Sound(k, o)
  BY <1>1, <1>7, <1>11, <1>12, <1>13, <1>14, <1>15 DEF Sound
<1>17. \A v \in Tasks, a \in Addresses :
          Space(k)[v][a] = IF v = t /\ a[1] < c THEN 0 ELSE Space(m)[v][a]
  BY <1>7, <1>8 DEF Space
<1>18. /\ Sound(n, o) /\ Space(n) = Space(k)
       /\ n.dir = k.dir /\ n.page = k.page /\ n.writable = k.writable
  BY <1>5, <1>16, Forget
<1>19. QED
  BY <1>8, <1>17, <1>18 DEF Freed

(* CopyTable: the child gets a page table of its own with the parent's     *)
(* pages, which nobody may write to any more.                              *)
LEMMA CopyOne ==
  ASSUME NEW m, NEW o, Sound(m, o), NEW t \in Tasks, NEW u \in Tasks, t # u,
         NEW d \in Dirs, m.dir[t][d] # NoPage, m.dir[u][d] = NoPage,
         Free(m) # {}, NEW r, r = CopyTable(m, t, u, d)
  PROVE  /\ Sound(r, o)
         /\ \A v \in Tasks, e \in Dirs :
              IF v = u /\ e = d THEN r.dir[v][e] # NoPage ELSE r.dir[v][e] = m.dir[v][e]
         /\ \A v \in Tasks, a \in Addresses :
              /\ v # t => (r.writable[v][a] <=> m.writable[v][a])
              /\ v # u => r.page[v][a] = m.page[v][a]
              /\ Space(r)[v][a] = IF v = u /\ a[1] = d THEN Space(m)[t][a] ELSE Space(m)[v][a]
<1> DEFINE copied == {a \in In(d) : m.page[t][a] # NoPage}
           f == FreePage(m)
           n == get_free_page(m)
           x == [o EXCEPT ![f] = 1]
           D == [m.dir EXCEPT ![u][d] = f]
           P == [m.page EXCEPT ![u] =
                   [a \in Addresses |-> IF a \in copied THEN m.page[t][a] ELSE m.page[u][a]]]
           W == [m.writable EXCEPT ![t] =
                   [a \in Addresses |-> m.writable[t][a] /\ ~(a \in copied /\ m.page[t][a] # Low)]]
           M == [p \in Pages |-> n.map[p] + Users(m, t, copied, p)]
<1>1. m \in Memories /\ o \in [Pages -> Nat] /\ Balanced(m, o)
  BY DEF Sound
<1>2. /\ f \in Pages /\ m.map[f] = 0 /\ o[f] = 0
      /\ Sound(n, x) /\ Space(n) = Space(m)
      /\ n.map = [m.map EXCEPT ![f] = 1] /\ n.val = [m.val EXCEPT ![f] = 0]
      /\ n.dir = m.dir /\ n.page = m.page /\ n.writable = m.writable
  BY GetFreePage
<1>3. n \in Memories
  BY <1>2 DEF Sound
<1>4. \A a \in Addresses : a \in copied <=> a[1] = d /\ m.page[t][a] # NoPage
  BY DEF In
<1>5. copied \subseteq Addresses
  BY DEF In
<1> HIDE DEF copied, f, n
<1>6. /\ D \in [Tasks -> [Dirs -> Pages \cup {Low, NoPage}]]
      /\ P \in [Tasks -> [Addresses -> Pages \cup {Low, NoPage}]]
      /\ W \in [Tasks -> [Addresses -> BOOLEAN]]
  BY <1>1, <1>2 DEF Memories
<1>7. \A p \in Pages : Users(m, t, copied, p) \in Nat
  BY <1>5, Constants, FS_Subset, FS_CardinalityType DEF Users
<1>8. M \in [Pages -> Int]
  BY <1>3, <1>7 DEF Memories
<1>9. r.map = M /\ r.dir = D /\ r.page = P /\ r.writable = W /\ r.val = n.val /\ r \in Memories
  <2>1. /\ [n.dir EXCEPT ![u][d] = f] = D
        /\ [n.page EXCEPT ![u] = [a \in Addresses |-> IF a \in copied THEN m.page[t][a] ELSE @[a]]] = P
        /\ [n.writable EXCEPT ![t] = [a \in Addresses |-> @[a] /\ ~(a \in copied /\ m.page[t][a] # Low)]] = W
    BY <1>1, <1>2 DEF Memories
  <2> DEFINE E == [a \in Addresses |-> IF a \in copied THEN m.page[t][a] ELSE n.page[u][a]]
             V == [a \in Addresses |-> n.writable[t][a] /\ ~(a \in copied /\ m.page[t][a] # Low)]
  <2>2. r = [n EXCEPT !.dir[u][d] = f, !.page[u] = E, !.writable[t] = V, !.map = M]
    BY DEF CopyTable, copied, f, n
  <2> HIDE DEF E, V, M
  <2>3. /\ r.map = M /\ r.dir = [n.dir EXCEPT ![u][d] = f] /\ r.val = n.val
        /\ r.page = [n.page EXCEPT ![u] = E] /\ r.writable = [n.writable EXCEPT ![t] = V]
    BY <1>3, <2>2 DEF Memories
  <2>4. r.map = M /\ r.dir = D /\ r.page = P /\ r.writable = W /\ r.val = n.val
    BY <2>1, <2>3 DEF E, V
  <2> HIDE DEF D, P, W
  <2>5. r \in Memories
    BY <1>3, <1>6, <1>8, <2>2, <2>4 DEF Memories
  <2>6. QED
    BY <2>4, <2>5
<1>10. /\ \A v \in Tasks, e \in Dirs :
            r.dir[v][e] = IF v = u /\ e = d THEN f ELSE m.dir[v][e]
       /\ \A v \in Tasks, a \in Addresses :
            /\ r.page[v][a] = IF v = u /\ a \in copied THEN m.page[t][a] ELSE m.page[v][a]
            /\ r.writable[v][a] <=> /\ m.writable[v][a]
                                    /\ ~(v = t /\ a \in copied /\ m.page[t][a] # Low)
       /\ \A p \in Pages :
            r.map[p] = (IF p = f THEN 1 ELSE m.map[p]) + Users(m, t, copied, p)
  BY <1>1, <1>2, <1>9 DEF Memories
<1> HIDE DEF D, P, W, M
<1>11. \A a \in Addresses : a[1] = d => m.page[u][a] = NoPage
  BY DEF Sound, InTables
<1>12. /\ \A v \in Tasks, a \in Addresses : m.page[v][a] # f
       /\ \A v \in Tasks, e \in Dirs : m.dir[v][e] # f
  BY <1>2, Alones
(* Pages that are not copied keep their count; the table is new.           *)
<1>13. ASSUME NEW p \in Pages, \A a \in copied : m.page[t][a] # p
       PROVE  r.map[p] = IF p = f THEN 1 ELSE m.map[p]
  <2>1. Users(m, t, copied, p) = 0
    <3>1. {a \in copied : m.page[t][a] = p} = {}
      BY <1>13
    <3>2. QED
      BY <3>1, FS_EmptySet DEF Users
  <2>2. m.map[p] \in Int
    BY <1>1 DEF Memories
  <2>3. QED
    BY <1>10, <2>1, <2>2
<1>14. Balanced(r, o)
  <2> SUFFICES ASSUME NEW p \in Pages
               PROVE  r.map[p] = Cardinality(PageRefs(r, p)) + Cardinality(DirRefs(r, p)) + o[p]
    BY DEF Balanced
  <2> DEFINE A == {a \in copied : m.page[t][a] = p}
             R == PageRefs(m, p)
             S == DirRefs(m, p)
             T == DirRefs(r, p)
  <2>1. /\ IsFiniteSet(A) /\ IsFiniteSet(R) /\ IsFiniteSet(S)
        /\ Cardinality(R) \in Nat /\ Cardinality(S) \in Nat
    BY <1>5, Constants, FS_Subset, RefsFinite
  <2>2. PageRefs(r, p) = R \cup ({u} \X A) /\ R \cap ({u} \X A) = {}
    <3>1. \A v \in Tasks, a \in Addresses :
            r.page[v][a] = p <=> m.page[v][a] = p \/ (v = u /\ a \in A)
      BY <1>4, <1>10, <1>11, Constants
    <3>2. \A a \in A : m.page[u][a] # p
      BY <1>4, <1>5, <1>11, Constants
    <3>3. A \subseteq Addresses
      BY <1>5
    <3> HIDE DEF A
    <3>4. QED
      BY <3>1, <3>2, <3>3 DEF PageRefs
  <2>3. /\ IsFiniteSet(T)
        /\ Cardinality(T) = Cardinality(S) + (IF p = f THEN 1 ELSE 0)
    <3>1. T \ {<<u, d>>} = S \ {<<u, d>>}
      BY <1>10 DEF DirRefs
    <3>2. <<u, d>> \notin S
      BY Constants DEF DirRefs
    <3>3. <<u, d>> \in T <=> p = f
      BY <1>10 DEF DirRefs
    <3> HIDE DEF S, T
    <3>4. QED
      BY <2>1, <3>1, <3>2, <3>3, ChangeOne
  <2>4. m.map[p] = Cardinality(R) + Cardinality(S) + o[p] /\ o[p] \in Nat
    BY <1>1 DEF Balanced
  <2>5. p = f => m.map[p] = 0
    BY <1>2
  <2>6. r.map[p] = (IF p = f THEN 1 ELSE m.map[p]) + Cardinality(A)
    BY <1>10 DEF Users
  <2>7. Cardinality(A) \in Nat
    BY <2>1, FS_CardinalityType
  <2> HIDE DEF A, R, S, T
  <2>8. Cardinality(PageRefs(r, p)) = Cardinality(R) + Cardinality(A)
    <3>1. Cardinality(R \cup ({u} \X A)) = Cardinality(R) + Cardinality(A)
      BY <2>1, <2>2, AddRow
    <3>2. QED
      BY <2>2, <3>1
  <2>9. QED
    BY <2>1, <2>3, <2>4, <2>5, <2>6, <2>7, <2>8 DEF T
<1>15. Single(r, o)
  <2>1. ASSUME NEW p \in Pages, o[p] # 0
        PROVE  r.map[p] = 1
    <3>1. m.map[p] = 1
      BY <2>1 DEF Sound, Single
    <3>2. \A a \in Addresses : m.page[t][a] # p
      BY <2>1, <3>1, Alones
    <3>3. QED
      BY <1>5, <1>13, <3>1, <3>2
  <2>2. ASSUME NEW v \in Tasks, NEW e \in Dirs, r.dir[v][e] \in Pages
        PROVE  r.map[r.dir[v][e]] = 1
    <3>1. CASE v = u /\ e = d
      BY <1>2, <1>5, <1>10, <1>12, <1>13, <3>1
    <3>2. CASE ~(v = u /\ e = d)
      <4>1. r.dir[v][e] = m.dir[v][e] /\ m.map[m.dir[v][e]] = 1
        BY <1>10, <2>2, <3>2 DEF Sound, Single
      <4>2. \A a \in Addresses : m.page[t][a] # m.dir[v][e]
        BY <2>2, <4>1, Alones
      <4>3. QED
        BY <1>5, <1>13, <2>2, <4>1, <4>2
    <3>3. QED
      BY <3>1, <3>2
  <2>3. QED
    BY <2>1, <2>2 DEF Single
<1>16. InTables(r)
  <2> SUFFICES ASSUME NEW v \in Tasks, NEW a \in Addresses, r.page[v][a] # NoPage
               PROVE  r.dir[v][a[1]] # NoPage
    BY DEF InTables
  <2>1. a[1] \in Dirs
    BY Constants
  <2>2. CASE v = u /\ a[1] = d
    BY <1>2, <1>10, <2>1, <2>2, Constants
  <2>3. CASE ~(v = u /\ a[1] = d)
    <3>1. r.page[v][a] = m.page[v][a] /\ r.dir[v][a[1]] = m.dir[v][a[1]]
      BY <1>4, <1>10, <2>1, <2>3
    <3>2. QED
      BY <3>1 DEF Sound, InTables
  <2>4. QED
    BY <2>2, <2>3
<1>17. SamePlace(r)
  <2>1. \A v \in Tasks, a \in Addresses :
          \E w \in Tasks : r.page[v][a] = m.page[w][a]
    BY <1>10
  <2> SUFFICES ASSUME NEW v \in Tasks, NEW w \in Tasks,
                      NEW a \in Addresses, NEW b \in Addresses,
                      r.page[v][a] \in Pages, r.page[v][a] = r.page[w][b]
               PROVE  a = b
    BY DEF SamePlace
  <2>2. PICK i \in Tasks : r.page[v][a] = m.page[i][a]
    BY <2>1
  <2>3. PICK j \in Tasks : r.page[w][b] = m.page[j][b]
    BY <2>1
  <2>4. QED
    BY <2>2, <2>3 DEF Sound, SamePlace
<1>18. Writable(r)
  <2> SUFFICES ASSUME NEW v \in Tasks, NEW a \in Addresses, r.writable[v][a]
               PROVE  \/ r.page[v][a] \in Pages /\ r.map[r.page[v][a]] = 1
                      \/ v = 0 /\ r.page[v][a] = Low
    BY DEF Writable
  <2>1. /\ m.writable[v][a] /\ ~(v = t /\ a \in copied /\ m.page[t][a] # Low)
        /\ \/ m.page[v][a] \in Pages /\ m.map[m.page[v][a]] = 1
           \/ v = 0 /\ m.page[v][a] = Low
    BY <1>10 DEF Sound, Writable
  <2>2. r.page[v][a] = m.page[v][a]
    BY <1>4, <1>10, <1>11, <2>1, Constants
  <2>3. CASE m.page[v][a] \in Pages /\ m.map[m.page[v][a]] = 1
    <3>1. \A b \in copied : m.page[t][b] # m.page[v][a]
      BY <1>5, <2>1, <2>3, Alones, Constants
    <3>2. QED
      BY <1>2, <1>13, <2>2, <2>3, <3>1
  <2>4. CASE v = 0 /\ m.page[v][a] = Low
    BY <2>2, <2>4
  <2>5. QED
    BY <2>1, <2>3, <2>4
<1>19. ASSUME NEW v \in Tasks, NEW a \in Addresses
       PROVE  Space(r)[v][a] = IF v = u /\ a[1] = d THEN Space(m)[t][a] ELSE Space(m)[v][a]
  <2>1. \A w \in Tasks : m.page[w][a] # NoPage => r.val[m.page[w][a]] = m.val[m.page[w][a]]
    <3>1. \A p \in Pages \cup {Low} : p # f => r.val[p] = m.val[p]
      BY <1>1, <1>2, <1>9 DEF Memories
    <3>2. \A w \in Tasks : m.page[w][a] \in Pages \cup {Low, NoPage}
      BY <1>1 DEF Memories
    <3>3. QED
      BY <1>12, <3>1, <3>2
  <2>2. r.page[v][a] = IF v = u /\ a[1] = d THEN m.page[t][a] ELSE m.page[v][a]
    BY <1>4, <1>10, <1>11
  <2>3. QED
    BY <2>1, <2>2 DEF Space
<1>20. Sound(r, o)
  BY <1>1, <1>9, <1>14, <1>15, <1>16, <1>17, <1>18 DEF Sound
<1>21. \A v \in Tasks, a \in Addresses :
         /\ v # t => (r.writable[v][a] <=> m.writable[v][a])
         /\ v # u => r.page[v][a] = m.page[v][a]
  BY <1>10
<1>22. \A v \in Tasks, e \in Dirs :
         IF v = u /\ e = d THEN r.dir[v][e] # NoPage ELSE r.dir[v][e] = m.dir[v][e]
  BY <1>2, <1>10, Constants
<1>23. QED
  BY <1>19, <1>20, <1>21, <1>22

(* One round of the loop of copy_page_tables, for the d-th page table.     *)
CopyStep(m, t, u, d, g) ==
  IF ~g.ok \/ m.dir[t][d - 1] = NoPage THEN g
  ELSE IF Free(g.m) = {} THEN [g EXCEPT !.ok = FALSE]
  ELSE [g EXCEPT !.m = CopyTable(g.m, t, u, d - 1)]

Rounds(m, t, u, n, f) ==
  f = [d \in 0..n |-> IF d = 0 THEN [m |-> m, ok |-> TRUE]
                      ELSE CopyStep(m, t, u, d, f[d - 1])]

(* The loop is well defined: there is a function from the number of rounds *)
(* to what they leave.                                                     *)
LEMMA RoundsExist ==
  ASSUME NEW m, NEW t, NEW u, NEW n \in Nat
  PROVE  \E f : Rounds(m, t, u, n, f)
<1> DEFINE Bad == {k \in Nat : ~ \E f : Rounds(m, t, u, k, f)}
           k == Min(Bad)
<1>1. SUFFICES ASSUME Bad # {}
               PROVE  FALSE
  OBVIOUS
<1>2. k \in Bad /\ \A j \in Bad : k <= j
  BY <1>1, NatMin
<1> HIDE DEF k
<1>3. k # 0
  <2> DEFINE f == [d \in 0..0 |-> [m |-> m, ok |-> TRUE]]
  <2>1. Rounds(m, t, u, 0, f)
    BY DEF Rounds
  <2>2. QED
    BY <1>2, <2>1
<1>4. k - 1 \in Nat /\ k - 1 \notin Bad
  BY <1>2, <1>3
<1>5. PICK f : Rounds(m, t, u, k - 1, f)
  BY <1>4
<1> DEFINE g == [d \in 0..k |-> IF d = k THEN CopyStep(m, t, u, k, f[k - 1]) ELSE f[d]]
<1>6. \A d \in 0..(k - 1) : f[d] = IF d = 0 THEN [m |-> m, ok |-> TRUE]
                                   ELSE CopyStep(m, t, u, d, f[d - 1])
  BY <1>5 DEF Rounds
<1>7. \A d \in 0..k : g[d] = IF d = 0 THEN [m |-> m, ok |-> TRUE]
                             ELSE CopyStep(m, t, u, d, g[d - 1])
  <2> SUFFICES ASSUME NEW d \in 0..k
               PROVE  g[d] = IF d = 0 THEN [m |-> m, ok |-> TRUE]
                             ELSE CopyStep(m, t, u, d, g[d - 1])
    OBVIOUS
  <2>1. k \in Nat
    BY <1>2
  <2>2. CASE d = k
    <3>1. g[d - 1] = f[k - 1]
      BY <1>3, <2>1, <2>2
    <3>2. QED
      BY <1>3, <2>1, <2>2, <3>1
  <2>3. CASE d # k
    <3>1. d \in 0..(k - 1) /\ g[d] = f[d]
      BY <2>1, <2>3
    <3>2. d # 0 => g[d - 1] = f[d - 1]
      BY <2>1, <2>3
    <3> HIDE DEF g
    <3>3. QED
      BY <1>6, <3>1, <3>2
  <2>4. QED
    BY <2>2, <2>3
<1>8. Rounds(m, t, u, k, g)
  <2>1. g = [d \in 0..k |-> g[d]]
    OBVIOUS
  <2> HIDE DEF g
  <2>2. QED
    BY <1>7, <2>1 DEF Rounds
<1>9. QED
  BY <1>2, <1>8

(* copy_page_tables does the n rounds, and takes everything back if one of *)
(* them finds no memory.                                                   *)
LEMMA CopyIs ==
  ASSUME NEW m, NEW t, NEW u, NEW n \in Nat
  PROVE  \E f : /\ Rounds(m, t, u, n, f)
                /\ copy_page_tables(m, t, u, n) =
                     IF f[n].ok THEN f[n]
                     ELSE [f[n] EXCEPT !.m = free_page_tables(@, u, n)]
<1> DEFINE f == CHOOSE g : Rounds(m, t, u, n, g)
<1>1. Rounds(m, t, u, n, f)
  BY RoundsExist
<1>2. copy_page_tables(m, t, u, n) = IF f[n].ok THEN f[n]
                     ELSE [f[n] EXCEPT !.m = free_page_tables(@, u, n)]
  BY Zenon DEF copy_page_tables, CopyStep, Rounds
<1>3. QED
  BY <1>1, <1>2

(* After d rounds the child u of t has what is below d page tables, if     *)
(* there was memory for that; all others have what they had.               *)
Copied(m, o, t, u, d, g) ==
  /\ g \in [m : Memories, ok : BOOLEAN]
  /\ Sound(g.m, o)
  /\ \A e \in Dirs :
       /\ \A v \in Tasks \ {u} : g.m.dir[v][e] = m.dir[v][e]
       /\ g.m.dir[u][e] # NoPage => e < d /\ m.dir[t][e] # NoPage
  /\ \A a \in Addresses :
       /\ \A v \in Tasks \ {t} : g.m.writable[v][a] <=> m.writable[v][a]
       /\ \A v \in Tasks \ {u} : g.m.page[v][a] = m.page[v][a]
       /\ \A v \in Tasks \ {u} : Space(g.m)[v][a] = Space(m)[v][a]
       /\ g.ok /\ a[1] < d => Space(g.m)[u][a] = Space(m)[t][a]

(* Where there is no page table there is nothing to see.                   *)
LEMMA NoTable ==
  ASSUME NEW m, NEW o, Sound(m, o), NEW t \in Tasks, NEW a \in Addresses,
         m.dir[t][a[1]] = NoPage
  PROVE  Space(m)[t][a] = 0 /\ m.page[t][a] = NoPage /\ ~m.writable[t][a]
BY Constants DEF Sound, InTables, Space, Writable

(* Each round copies one page table more.                                  *)
LEMMA CopyRound ==
  ASSUME NEW m, NEW o, Sound(m, o), NEW t \in Tasks, NEW u \in Tasks, t # u,
         NEW d \in Nat \ {0}, d - 1 \in Dirs, NEW g, Copied(m, o, t, u, d - 1, g)
  PROVE  Copied(m, o, t, u, d, CopyStep(m, t, u, d, g))
<1> DEFINE h == CopyStep(m, t, u, d, g)
<1>1. /\ g \in [m : Memories, ok : BOOLEAN] /\ Sound(g.m, o)
      /\ \A e \in Dirs :
           /\ \A v \in Tasks \ {u} : g.m.dir[v][e] = m.dir[v][e]
           /\ g.m.dir[u][e] # NoPage => e < d - 1 /\ m.dir[t][e] # NoPage
      /\ \A a \in Addresses :
           /\ \A v \in Tasks \ {t} : g.m.writable[v][a] <=> m.writable[v][a]
           /\ \A v \in Tasks \ {u} : g.m.page[v][a] = m.page[v][a]
           /\ \A v \in Tasks \ {u} : Space(g.m)[v][a] = Space(m)[v][a]
           /\ g.ok /\ a[1] < d - 1 => Space(g.m)[u][a] = Space(m)[t][a]
  BY DEF Copied
<1>2. /\ Dirs \subseteq Nat /\ d \in Nat
      /\ \A a \in Addresses : a[1] \in Dirs /\ a[1] \in Nat
  BY Constants
<1>3. CASE ~g.ok
  <2>1. h = g
    BY <1>3 DEF CopyStep
  <2>2. QED
    BY <1>1, <1>2, <1>3, <2>1 DEF Copied
<1>4. CASE g.ok /\ m.dir[t][d - 1] = NoPage
  <2>1. h = g
    BY <1>4 DEF CopyStep
  <2>2. ASSUME NEW a \in Addresses, a[1] = d - 1
        PROVE  Space(g.m)[u][a] = Space(m)[t][a]
    <3>1. g.m.dir[u][a[1]] = NoPage
      BY <1>1, <1>2, <2>2
    <3>2. QED
      BY <1>1, <1>4, <2>2, <3>1, NoTable
  <2>3. \A a \in Addresses : a[1] < d => a[1] < d - 1 \/ a[1] = d - 1
    BY <1>2
  <2>4. \A e \in Dirs : e < d - 1 => e < d
    BY <1>2
  <2> HIDE DEF h
  <2>5. QED
    BY <1>1, <2>1, <2>2, <2>3, <2>4 DEF Copied, h
<1>5. CASE g.ok /\ m.dir[t][d - 1] # NoPage /\ Free(g.m) = {}
  <2>1. h = [g EXCEPT !.ok = FALSE]
    BY <1>5 DEF CopyStep
  <2>2. h.m = g.m /\ h.ok = FALSE /\ h \in [m : Memories, ok : BOOLEAN]
    BY <1>1, <2>1
  <2>3. \A e \in Dirs : e < d - 1 => e < d
    BY <1>2
  <2> HIDE DEF h
  <2>4. QED
    BY <1>1, <2>2, <2>3 DEF Copied, h
<1>6. CASE g.ok /\ m.dir[t][d - 1] # NoPage /\ Free(g.m) # {}
  <2> DEFINE r == CopyTable(g.m, t, u, d - 1)
  <2>1. h = [g EXCEPT !.m = r]
    BY <1>6 DEF CopyStep
  <2>2. /\ Sound(r, o)
        /\ \A v \in Tasks, e \in Dirs :
             IF v = u /\ e = d - 1 THEN r.dir[v][e] # NoPage ELSE r.dir[v][e] = g.m.dir[v][e]
        /\ \A v \in Tasks, a \in Addresses :
             /\ v # t => (r.writable[v][a] <=> g.m.writable[v][a])
             /\ v # u => r.page[v][a] = g.m.page[v][a]
             /\ Space(r)[v][a] = IF v = u /\ a[1] = d - 1 THEN Space(g.m)[t][a]
                                 ELSE Space(g.m)[v][a]
    <3>1. g.m.dir[u][d - 1] = NoPage /\ g.m.dir[t][d - 1] # NoPage
      BY <1>1, <1>6
    <3>2. QED
      BY <1>1, <1>6, <3>1, CopyOne
  <2> HIDE DEF r
  <2>3. h.m = r /\ h.ok = g.ok /\ h \in [m : Memories, ok : BOOLEAN]
    BY <1>1, <2>1, <2>2 DEF Sound
  <2>4. \A e \in Dirs :
          /\ \A v \in Tasks \ {u} : r.dir[v][e] = m.dir[v][e]
          /\ r.dir[u][e] # NoPage => e < d /\ m.dir[t][e] # NoPage
    BY <1>1, <1>2, <1>6, <2>2
  <2>5. \A a \in Addresses :
          /\ \A v \in Tasks \ {t} : r.writable[v][a] <=> m.writable[v][a]
          /\ \A v \in Tasks \ {u} : r.page[v][a] = m.page[v][a]
          /\ \A v \in Tasks \ {u} : Space(r)[v][a] = Space(m)[v][a]
    BY <1>1, <2>2
  <2>6. ASSUME NEW a \in Addresses, a[1] < d
        PROVE  Space(r)[u][a] = Space(m)[t][a]
    <3>1. a[1] < d - 1 \/ a[1] = d - 1
      BY <1>2, <2>6
    <3>2. QED
      BY <1>1, <1>2, <1>6, <2>2, <3>1
  <2> HIDE DEF h
  <2>7. QED
    BY <2>2, <2>3, <2>4, <2>5, <2>6 DEF Copied, h
<1>7. QED
  BY <1>1, <1>3, <1>4, <1>5, <1>6

(* What r is when t has a child u, or would have one if there were memory. *)
Forked(m, r, t, u, n) ==
  /\ \A v \in Tasks \ {u}, e \in Dirs : r.m.dir[v][e] = m.dir[v][e]
  /\ \A e \in Dirs : r.m.dir[u][e] # NoPage => r.ok /\ e < n
  /\ \A v \in Tasks \ {t}, a \in Addresses : r.m.writable[v][a] <=> m.writable[v][a]
  /\ \A v \in Tasks \ {u}, a \in Addresses : r.m.page[v][a] = m.page[v][a]
  /\ Space(r.m) = IF r.ok THEN [Space(m) EXCEPT ![u] = Space(m)[t]] ELSE Space(m)

(* The whole of copy_page_tables: either the child has a copy of its       *)
(* parent's memory, or there was not enough memory and it has none.        *)
LEMMA CopyTables ==
  ASSUME NEW m, NEW o, Sound(m, o), NEW t \in Tasks, NEW u \in Tasks, t # u,
         \A e \in Dirs : m.dir[u][e] = NoPage,
         NEW n \in 0..DIRS, \A e \in Dirs : m.dir[t][e] # NoPage => e < n,
         NEW r, r = copy_page_tables(m, t, u, n)
  PROVE  Sound(r.m, o) /\ Forked(m, r, t, u, n)
<1>1. PICK f : /\ Rounds(m, t, u, n, f)
               /\ r = IF f[n].ok THEN f[n] ELSE [f[n] EXCEPT !.m = free_page_tables(@, u, n)]
  BY CopyIs
<1>2. \A d \in 0..n : f[d] = IF d = 0 THEN [m |-> m, ok |-> TRUE]
                             ELSE CopyStep(m, t, u, d, f[d - 1])
  BY <1>1 DEF Rounds
<1>3. Copied(m, o, t, u, n, f[n])
  <2> DEFINE Bad == {d \in 0..n : ~Copied(m, o, t, u, d, f[d])}
             k == Min(Bad)
  <2>1. SUFFICES ASSUME Bad # {}
                 PROVE  FALSE
    OBVIOUS
  <2>2. k \in Bad /\ \A d \in Bad : k <= d
    BY <2>1, NatMin
  <2> HIDE DEF k
  <2>3. CASE k = 0
    <3>1. f[0] = [m |-> m, ok |-> TRUE]
      <4>1. 0 \in 0..n
        OBVIOUS
      <4>2. QED
        BY <1>2, <4>1
    <3>2. m \in Memories
      BY DEF Sound
    <3>3. f[0] \in [m : Memories, ok : BOOLEAN] /\ f[0].m = m
      BY <3>1, <3>2
    <3>4. \A a \in Addresses : ~(a[1] < 0)
      <4>1. \A a \in Addresses : a[1] \in Nat
        BY Constants
      <4>2. QED
        BY <4>1
    <3>5. Copied(m, o, t, u, 0, f[0])
      BY <3>3, <3>4 DEF Copied
    <3>6. QED
      BY <2>2, <2>3, <3>5
  <2>4. CASE k # 0
    <3>1. k \in Nat \ {0} /\ k - 1 \in 0..n /\ k - 1 \notin Bad /\ k - 1 \in Dirs
      BY <2>2, <2>4, Constants DEF Dirs
    <3>2. Copied(m, o, t, u, k - 1, f[k - 1])
      BY <3>1
    <3>3. f[k] = CopyStep(m, t, u, k, f[k - 1])
      BY <1>2, <2>2, <2>4
    <3>4. QED
      BY <2>2, <3>1, <3>2, <3>3, CopyRound
  <2>5. QED
    BY <2>3, <2>4
<1> DEFINE g == f[n]
<1>4. /\ g \in [m : Memories, ok : BOOLEAN] /\ Sound(g.m, o)
      /\ \A e \in Dirs :
           /\ \A v \in Tasks \ {u} : g.m.dir[v][e] = m.dir[v][e]
           /\ g.m.dir[u][e] # NoPage => e < n /\ m.dir[t][e] # NoPage
      /\ \A a \in Addresses :
           /\ \A v \in Tasks \ {t} : g.m.writable[v][a] <=> m.writable[v][a]
           /\ \A v \in Tasks \ {u} : g.m.page[v][a] = m.page[v][a]
           /\ \A v \in Tasks \ {u} : Space(g.m)[v][a] = Space(m)[v][a]
           /\ g.ok /\ a[1] < n => Space(g.m)[u][a] = Space(m)[t][a]
  BY <1>3 DEF Copied
<1>5. r = IF g.ok THEN g ELSE [g EXCEPT !.m = free_page_tables(@, u, n)]
  BY <1>1
<1> HIDE DEF g
<1>6. \A a \in Addresses : a[1] \in Dirs /\ Space(m)[u][a] = 0
  BY Constants, NoTable
<1>7. CASE g.ok
  <2>1. r = g
    BY <1>5, <1>7
  <2>2. \A a \in Addresses : Space(g.m)[u][a] = Space(m)[t][a]
    <3> SUFFICES ASSUME NEW a \in Addresses
                 PROVE  Space(g.m)[u][a] = Space(m)[t][a]
      OBVIOUS
    <3>1. CASE m.dir[t][a[1]] # NoPage
      BY <1>4, <1>6, <1>7, <3>1
    <3>2. CASE m.dir[t][a[1]] = NoPage
      <4>1. g.m.dir[u][a[1]] = NoPage
        BY <1>4, <1>6, <3>2
      <4>2. QED
        BY <1>4, <3>2, <4>1, NoTable
    <3>3. QED
      BY <3>1, <3>2
  <2>3. Space(g.m) = [Space(m) EXCEPT ![u] = Space(m)[t]]
    <3>1. \A v \in Tasks : Space(g.m)[v] = IF v = u THEN Space(m)[t] ELSE Space(m)[v]
      BY <1>4, <2>2, SMTT(60) DEF Space
    <3>2. /\ Space(g.m) = [v \in Tasks |-> Space(g.m)[v]]
          /\ Space(m) = [v \in Tasks |-> Space(m)[v]]
      BY DEF Space
    <3>3. QED
      BY <3>1, <3>2
  <2>4. QED
    BY <1>4, <1>7, <2>1, <2>3 DEF Forked
<1>8. CASE ~g.ok
  <2> DEFINE x == free_page_tables(g.m, u, n)
  <2>1. r = [g EXCEPT !.m = x]
    BY <1>5, <1>8
  <2>2. r.m = x /\ r.ok = g.ok
    BY <1>4, <2>1
  <2>3. Sound(x, o) /\ Freed(g.m, x, u, n)
    BY <1>4, FreeTables
  <2> HIDE DEF x
  <2>4. /\ \A v \in Tasks \ {u}, e \in Dirs : x.dir[v][e] = m.dir[v][e]
        /\ \A e \in Dirs : x.dir[u][e] = NoPage
    BY <1>4, <2>3 DEF Freed
  <2>5. \A v \in Tasks \ {t}, a \in Addresses : x.writable[v][a] <=> m.writable[v][a]
    <3>1. \A a \in Addresses : ~x.writable[u][a] /\ ~m.writable[u][a]
      <4>1. \A a \in Addresses : x.dir[u][a[1]] = NoPage /\ m.dir[u][a[1]] = NoPage
        BY <1>6, <2>4
      <4>2. Sound(x, o) /\ Sound(m, o)
        BY <2>3
      <4>3. QED
        BY <4>1, <4>2, NoTable
    <3>2. \A v \in Tasks \ {u}, a \in Addresses : x.writable[v][a] <=> g.m.writable[v][a]
      BY <2>3 DEF Freed
    <3>3. QED
      BY <1>4, <3>1, <3>2
  <2>6. Space(x) = Space(m)
    <3>1. \A a \in Addresses : Space(x)[u][a] = 0 /\ Space(m)[u][a] = 0
      <4>1. \A a \in Addresses : x.dir[u][a[1]] = NoPage
        BY <1>6, <2>4
      <4>2. Sound(x, o)
        BY <2>3
      <4>3. QED
        BY <1>6, <4>1, <4>2, NoTable
    <3>2. \A v \in Tasks \ {u}, a \in Addresses : Space(x)[v][a] = Space(g.m)[v][a]
      BY <2>3 DEF Freed
    <3>3. \A v \in Tasks, a \in Addresses : Space(x)[v][a] = Space(m)[v][a]
      BY <1>4, <3>1, <3>2
    <3>4. QED
      BY <3>3 DEF Space
  <2>7. \A v \in Tasks \ {u}, a \in Addresses : x.page[v][a] = m.page[v][a]
    BY <1>4, <2>3 DEF Freed
  <2>8. QED
    BY <1>8, <2>2, <2>3, <2>4, <2>5, <2>6, <2>7 DEF Forked
<1>9. QED
  BY <1>4, <1>7, <1>8

(* Memories that differ in one entry, which was i and becomes j; the same  *)
(* for an entry of a page directory.                                       *)
OnePage(m, n, t, a, i, j) ==
  /\ m.page[t][a] = i /\ n.page[t][a] = j
  /\ \A v \in Tasks, b \in Addresses : (v = t /\ b = a) \/ n.page[v][b] = m.page[v][b]
OneDir(m, n, t, d, i, j) ==
  /\ m.dir[t][d] = i /\ n.dir[t][d] = j
  /\ \A v \in Tasks, e \in Dirs : (v = t /\ e = d) \/ n.dir[v][e] = m.dir[v][e]

(* The number of references to p when one of them changes from i to j.     *)
Shift(count, i, j, p) == count - (IF i = p THEN 1 ELSE 0) + (IF j = p THEN 1 ELSE 0)

(* One entry changes.                                                      *)
LEMMA ChangePage ==
  ASSUME NEW m, NEW n, NEW t \in Tasks, NEW a \in Addresses, NEW i, NEW j,
         OnePage(m, n, t, a, i, j), NEW p
  PROVE  Cardinality(PageRefs(n, p)) = Shift(Cardinality(PageRefs(m, p)), i, j, p)
<1> DEFINE S == PageRefs(m, p)
           T == PageRefs(n, p)
           y == <<t, a>>
<1>1. \A x \in Tasks \X Addresses : x[1] \in Tasks /\ x[2] \in Addresses /\ x = <<x[1], x[2]>>
  OBVIOUS
<1>2. \A x \in Tasks \X Addresses : x # y => n.page[x[1]][x[2]] = m.page[x[1]][x[2]]
  BY <1>1 DEF OnePage
<1>3. (y \in S <=> i = p) /\ (y \in T <=> j = p)
  BY DEF PageRefs, OnePage
<1> HIDE DEF y
<1>4. S \ {y} = T \ {y}
  BY <1>2 DEF PageRefs
<1>5. IsFiniteSet(S)
  BY RefsFinite
<1> HIDE DEF S, T
<1>6. /\ Cardinality(S) \in Nat /\ Cardinality(T) \in Nat
      /\ Cardinality(T) = Cardinality(S) - (IF y \in S THEN 1 ELSE 0)
                                         + (IF y \in T THEN 1 ELSE 0)
  BY <1>4, <1>5, ChangeOne
<1>7. QED
  BY <1>3, <1>6 DEF S, T, Shift

(* One entry of a page directory changes.                                  *)
LEMMA ChangeDir ==
  ASSUME NEW m, NEW n, NEW t \in Tasks, NEW d \in Dirs, NEW i, NEW j,
         OneDir(m, n, t, d, i, j), NEW p
  PROVE  Cardinality(DirRefs(n, p)) = Shift(Cardinality(DirRefs(m, p)), i, j, p)
<1> DEFINE S == DirRefs(m, p)
           T == DirRefs(n, p)
           y == <<t, d>>
<1>1. \A x \in Tasks \X Dirs : x[1] \in Tasks /\ x[2] \in Dirs /\ x = <<x[1], x[2]>>
  OBVIOUS
<1>2. \A x \in Tasks \X Dirs : x # y => n.dir[x[1]][x[2]] = m.dir[x[1]][x[2]]
  BY <1>1 DEF OneDir
<1>3. (y \in S <=> i = p) /\ (y \in T <=> j = p)
  BY DEF DirRefs, OneDir
<1> HIDE DEF y
<1>4. S \ {y} = T \ {y}
  BY <1>2 DEF DirRefs
<1>5. IsFiniteSet(S)
  BY RefsFinite
<1> HIDE DEF S, T
<1>6. /\ Cardinality(S) \in Nat /\ Cardinality(T) \in Nat
      /\ Cardinality(T) = Cardinality(S) - (IF y \in S THEN 1 ELSE 0)
                                         + (IF y \in T THEN 1 ELSE 0)
  BY <1>4, <1>5, ChangeOne
<1>7. QED
  BY <1>3, <1>6 DEF S, T, Shift

(* put_page gets a page table where there is none.                         *)
WithTable(m, t, d) ==
  IF m.dir[t][d] # NoPage THEN m ELSE [get_free_page(m) EXCEPT !.dir[t][d] = FreePage(m)]

(* Then the page is there, and nothing else has changed.                   *)
LEMMA GetTable ==
  ASSUME NEW m, NEW o, Sound(m, o), NEW t \in Tasks, NEW d \in Dirs,
         m.dir[t][d] # NoPage \/ Free(m) # {}, NEW n, n = WithTable(m, t, d)
  PROVE  /\ Sound(n, o) /\ Space(n) = Space(m)
         /\ n.page = m.page /\ n.writable = m.writable
         /\ \A v \in Tasks, e \in Dirs :
              IF v = t /\ e = d THEN n.dir[v][e] # NoPage ELSE n.dir[v][e] = m.dir[v][e]
         /\ \A p \in Pages : m.map[p] # 0 => n.map[p] = m.map[p] /\ n.val[p] = m.val[p]
<1>1. CASE m.dir[t][d] # NoPage
  <2>1. n = m
    BY <1>1 DEF WithTable
  <2>2. QED
    BY <1>1, <2>1
<1>2. CASE m.dir[t][d] = NoPage
  <2> DEFINE f == FreePage(m)
             k == get_free_page(m)
             x == [o EXCEPT ![f] = 1]
  <2>1. /\ f \in Pages /\ m.map[f] = 0 /\ o[f] = 0
        /\ Sound(k, x) /\ Space(k) = Space(m)
        /\ k.map = [m.map EXCEPT ![f] = 1] /\ k.val = [m.val EXCEPT ![f] = 0]
        /\ k.dir = m.dir /\ k.page = m.page /\ k.writable = m.writable
    BY <1>2, GetFreePage
  <2>2. n = [k EXCEPT !.dir[t][d] = f]
    BY <1>2 DEF WithTable
  <2> HIDE DEF f, k
  <2>3. m \in Memories /\ k \in Memories /\ o \in [Pages -> Nat]
    BY <2>1 DEF Sound
  <2>4. /\ n \in Memories
        /\ n.map = k.map /\ n.val = k.val /\ n.page = k.page /\ n.writable = k.writable
        /\ n.dir = [k.dir EXCEPT ![t][d] = f]
    <3>1. /\ n.map = k.map /\ n.val = k.val /\ n.page = k.page /\ n.writable = k.writable
          /\ n.dir = [k.dir EXCEPT ![t][d] = f]
      BY <2>2, <2>3 DEF Memories
    <3>2. n.dir \in [Tasks -> [Dirs -> Pages \cup {Low, NoPage}]]
      BY <2>1, <2>3, <3>1 DEF Memories
    <3>3. QED
      BY <2>2, <2>3, <3>1, <3>2 DEF Memories
  <2>5. \A v \in Tasks, e \in Dirs : n.dir[v][e] = IF v = t /\ e = d THEN f ELSE m.dir[v][e]
    BY <2>1, <2>3, <2>4 DEF Memories
  <2>6. \A v \in Tasks, e \in Dirs : m.dir[v][e] # f
    BY <2>1, Alones
  <2>7. \A v \in Tasks, b \in Addresses : m.page[v][b] # f
    BY <2>1, Alones
  <2>8. \A p \in Pages : n.map[p] = IF p = f THEN 1 ELSE m.map[p]
    BY <2>1, <2>3, <2>4 DEF Memories
  <2>9. \A p \in Pages : x[p] = IF p = f THEN 1 ELSE o[p]
    BY <2>3
  <2>10. Balanced(n, o)
    <3> SUFFICES ASSUME NEW p \in Pages
                 PROVE  n.map[p] = Cardinality(PageRefs(n, p)) + Cardinality(DirRefs(n, p)) + o[p]
      BY DEF Balanced
    <3>1. k.map[p] = Cardinality(PageRefs(k, p)) + Cardinality(DirRefs(k, p)) + x[p]
      BY <2>1 DEF Sound, Balanced
    <3>2. PageRefs(n, p) = PageRefs(k, p) /\ Cardinality(PageRefs(k, p)) \in Nat
      <4>1. PageRefs(n, p) = PageRefs(k, p)
        BY <2>4 DEF PageRefs
      <4>2. QED
        BY <4>1, RefsFinite
    <3>3. OneDir(k, n, t, d, NoPage, f)
      BY <1>2, <2>1, <2>5 DEF OneDir
    <3>4. Cardinality(DirRefs(n, p)) = Shift(Cardinality(DirRefs(k, p)), NoPage, f, p)
      BY <3>3, ChangeDir
    <3>8. Cardinality(DirRefs(k, p)) \in Nat /\ Cardinality(DirRefs(n, p)) \in Nat
      BY RefsFinite
    <3>5. n.map[p] = k.map[p]
      BY <2>4
    <3>6. NoPage # p
      BY Constants
    <3> HIDE DEF x
    <3>7. QED
      BY <2>1, <2>3, <2>9, <3>1, <3>2, <3>4, <3>5, <3>6, <3>8 DEF Shift
  <2>11. Single(n, o)
    BY <2>1, <2>5, <2>6, <2>8 DEF Sound, Single
  <2>12. InTables(n)
    <3>1. f # NoPage
      BY <2>1, Constants
    <3>2. QED
      BY <2>1, <2>4, <2>5, <3>1, Constants DEF Sound, InTables
  <2>13. SamePlace(n)
    BY <2>1, <2>4 DEF Sound, SamePlace
  <2>14. Writable(n)
    BY <2>1, <2>4, <2>8 DEF Sound, Writable
  <2>15. Space(n) = Space(m)
    BY <2>1, <2>4 DEF Space
  <2>16. \A p \in Pages : m.map[p] # 0 => n.map[p] = m.map[p] /\ n.val[p] = m.val[p]
    BY <2>1, <2>3, <2>4, <2>8 DEF Memories
  <2>17. f # NoPage
    BY <2>1, Constants
  <2>18. QED
    BY <2>1, <2>3, <2>4, <2>5, <2>10, <2>11, <2>12, <2>13, <2>14, <2>15, <2>16, <2>17
       DEF Sound
<1>3. QED
  BY <1>1, <1>2

(* What n is when the page p is put at address a of t.                     *)
Given(m, n, t, a, p) ==
  /\ \A v \in Tasks, e \in Dirs :
       IF v = t /\ e = a[1] THEN n.dir[v][e] # NoPage ELSE n.dir[v][e] = m.dir[v][e]
  /\ \A v \in Tasks, b \in Addresses :
       /\ n.page[v][b] = IF v = t /\ b = a THEN p ELSE m.page[v][b]
       /\ n.writable[v][b] <=> (v = t /\ b = a) \/ m.writable[v][b]
       /\ Space(n)[v][b] = IF v = t /\ b = a THEN m.val[p] ELSE Space(m)[v][b]

(* put_page: the kernel gives a page that it holds to a task, and holds    *)
(* the page that was there.                                                *)
LEMMA PutPage ==
  ASSUME NEW m, NEW o, Sound(m, o), NEW t \in Tasks, NEW a \in Addresses, CanPut(m, t, a),
         NEW p \in Pages, o[p] # 0,
         m.page[t][a] \in Pages => m.map[m.page[t][a]] = 1,
         NEW n, n = put_page(m, t, a, p),
         NEW x, x = [q \in Pages |-> IF q = p THEN 0 ELSE IF q = m.page[t][a] THEN 1 ELSE o[q]]
  PROVE  Sound(n, x) /\ Given(m, n, t, a, p)
<1> DEFINE k == WithTable(m, t, a[1])
           old == m.page[t][a]
<1>1. a[1] \in Dirs /\ p # NoPage /\ p # Low
  BY Constants
<1>2. m.dir[t][a[1]] # NoPage \/ Free(m) # {}
  BY DEF CanPut
<1>3. /\ Sound(k, o) /\ Space(k) = Space(m)
      /\ k.page = m.page /\ k.writable = m.writable
      /\ \A v \in Tasks, e \in Dirs :
           IF v = t /\ e = a[1] THEN k.dir[v][e] # NoPage ELSE k.dir[v][e] = m.dir[v][e]
      /\ \A q \in Pages : m.map[q] # 0 => k.map[q] = m.map[q] /\ k.val[q] = m.val[q]
  BY <1>1, <1>2, GetTable
<1>4. n = [k EXCEPT !.page[t][a] = p, !.writable[t][a] = TRUE]
  BY DEF put_page, WithTable
<1> HIDE DEF k
<1>5. /\ m \in Memories /\ k \in Memories /\ o \in [Pages -> Nat]
      /\ Balanced(m, o) /\ Balanced(k, o)
  BY <1>3 DEF Sound
<1>6. /\ m.map[p] = 1 /\ k.map[p] = 1 /\ k.val[p] = m.val[p] /\ o[p] = 1
      /\ \A v \in Tasks, b \in Addresses : m.page[v][b] # p
      /\ \A v \in Tasks, e \in Dirs : k.dir[v][e] # p
  <2>1. m.map[p] = 1
    BY DEF Sound, Single
  <2>2. k.map[p] = 1 /\ k.val[p] = m.val[p]
    BY <1>3, <2>1
  <2>3. PageRefs(m, p) = {} /\ DirRefs(m, p) = {} /\ o[p] = 1
    BY <1>5, <2>1, Sharing
  <2>4. PageRefs(k, p) = {} /\ DirRefs(k, p) = {}
    BY <1>5, <2>2, Sharing
  <2>5. \A v \in Tasks, b \in Addresses : m.page[v][b] # p
    BY <2>1, <2>3, Alones
  <2>6. \A v \in Tasks, e \in Dirs : k.dir[v][e] # p
    BY <1>3, <2>2, <2>3, Alones
  <2>7. QED
    BY <2>1, <2>2, <2>3, <2>5, <2>6
<1>7. /\ n \in Memories
      /\ n.map = k.map /\ n.val = k.val /\ n.dir = k.dir
      /\ n.page = [k.page EXCEPT ![t][a] = p] /\ n.writable = [k.writable EXCEPT ![t][a] = TRUE]
  <2>1. /\ n.map = k.map /\ n.val = k.val /\ n.dir = k.dir
        /\ n.page = [k.page EXCEPT ![t][a] = p]
        /\ n.writable = [k.writable EXCEPT ![t][a] = TRUE]
    BY <1>4, <1>5 DEF Memories
  <2>2. n.page \in [Tasks -> [Addresses -> Pages \cup {Low, NoPage}]]
    BY <1>5, <2>1 DEF Memories
  <2>3. n.writable \in [Tasks -> [Addresses -> BOOLEAN]]
    BY <1>5, <2>1 DEF Memories
  <2>4. QED
    BY <1>4, <1>5, <2>1, <2>2, <2>3 DEF Memories
<1>8. \A v \in Tasks, b \in Addresses :
        /\ n.page[v][b] = IF v = t /\ b = a THEN p ELSE m.page[v][b]
        /\ n.writable[v][b] <=> (v = t /\ b = a) \/ m.writable[v][b]
  BY <1>3, <1>5, <1>7 DEF Memories
<1>9. x \in [Pages -> Nat]
  BY <1>5
<1>10. old \in Pages => /\ m.map[old] = 1 /\ k.map[old] = 1 /\ o[old] = 0
                        /\ \A v \in Tasks, b \in Addresses : n.page[v][b] # old
                        /\ \A v \in Tasks, e \in Dirs : k.dir[v][e] # old
  <2> SUFFICES ASSUME old \in Pages
               PROVE  /\ m.map[old] = 1 /\ k.map[old] = 1 /\ o[old] = 0
                      /\ \A v \in Tasks, b \in Addresses : n.page[v][b] # old
                      /\ \A v \in Tasks, e \in Dirs : k.dir[v][e] # old
    OBVIOUS
  <2>1. m.map[old] = 1 /\ k.map[old] = 1
    BY <1>3
  <2>2. o[old] = 0
    BY <2>1, Alones
  <2>3. \A v \in Tasks, b \in Addresses : m.page[v][b] = old => v = t /\ b = a
    BY <2>1, Alones
  <2>4. \A v \in Tasks, b \in Addresses : n.page[v][b] # old
    BY <1>6, <1>8, <2>3
  <2>5. \A v \in Tasks, e \in Dirs : k.dir[v][e] # old
    <3>1. k.page[t][a] = old
      BY <1>3
    <3>2. QED
      BY <1>3, <2>1, <3>1, Alones
  <2>6. QED
    BY <2>1, <2>2, <2>4, <2>5
<1> HIDE DEF old
<1>11. Balanced(n, x)
  <2> SUFFICES ASSUME NEW q \in Pages
               PROVE  n.map[q] = Cardinality(PageRefs(n, q)) + Cardinality(DirRefs(n, q)) + x[q]
    BY DEF Balanced
  <2>1. k.map[q] = Cardinality(PageRefs(k, q)) + Cardinality(DirRefs(k, q)) + o[q]
    BY <1>5 DEF Balanced
  <2>2. OnePage(k, n, t, a, old, p)
    BY <1>3, <1>8 DEF OnePage, old
  <2>3. Cardinality(PageRefs(n, q)) = Shift(Cardinality(PageRefs(k, q)), old, p, q)
    BY <2>2, ChangePage
  <2>4. DirRefs(n, q) = DirRefs(k, q)
    BY <1>7 DEF DirRefs
  <2>5. /\ Cardinality(PageRefs(k, q)) \in Nat /\ Cardinality(PageRefs(n, q)) \in Nat
        /\ Cardinality(DirRefs(k, q)) \in Nat
    BY RefsFinite
  <2>6. n.map[q] = k.map[q] /\ old # p
    BY <1>3, <1>6, <1>7, <1>8 DEF old
  <2>7. x[q] = (IF q = p THEN 0 ELSE IF q = old THEN 1 ELSE o[q]) /\ o[q] \in Nat
    BY <1>5 DEF old
  <2>8. QED
    BY <1>6, <1>10, <2>1, <2>3, <2>4, <2>5, <2>6, <2>7 DEF Shift
<1>12. Single(n, x)
  <2>1. ASSUME NEW q \in Pages, x[q] # 0
        PROVE  n.map[q] = 1
    <3>1. q = old \/ o[q] # 0
      BY <2>1 DEF old
    <3>2. n.map[q] = k.map[q] /\ (o[q] # 0 => k.map[q] = 1)
      BY <1>3, <1>7 DEF Sound, Single
    <3>3. QED
      BY <1>10, <2>1, <3>1, <3>2
  <2>2. \A v \in Tasks, e \in Dirs : n.dir[v][e] \in Pages => n.map[n.dir[v][e]] = 1
    BY <1>3, <1>7 DEF Sound, Single
  <2>3. QED
    BY <2>1, <2>2 DEF Single
<1>13. InTables(n)
  <2> SUFFICES ASSUME NEW v \in Tasks, NEW b \in Addresses, n.page[v][b] # NoPage
               PROVE  n.dir[v][b[1]] # NoPage
    BY DEF InTables
  <2>1. b[1] \in Dirs
    BY Constants
  <2>2. CASE v = t /\ b = a
    BY <1>3, <1>7, <2>1, <2>2
  <2>3. CASE ~(v = t /\ b = a)
    <3>1. m.dir[v][b[1]] # NoPage
      BY <1>8, <2>3 DEF Sound, InTables
    <3>2. QED
      BY <1>3, <1>7, <2>1, <3>1
  <2>4. QED
    BY <2>2, <2>3
<1>14. SamePlace(n)
  BY <1>6, <1>8 DEF Sound, SamePlace
<1>15. Writable(n)
  <2> SUFFICES ASSUME NEW v \in Tasks, NEW b \in Addresses, n.writable[v][b]
               PROVE  \/ n.page[v][b] \in Pages /\ n.map[n.page[v][b]] = 1
                      \/ v = 0 /\ n.page[v][b] = Low
    BY DEF Writable
  <2>1. CASE v = t /\ b = a
    BY <1>6, <1>7, <1>8, <2>1
  <2>2. CASE ~(v = t /\ b = a)
    <3>1. n.page[v][b] = m.page[v][b] /\ m.writable[v][b]
      BY <1>8, <2>2
    <3>2. QED
      BY <1>3, <1>7, <3>1 DEF Sound, Writable
  <2>3. QED
    BY <2>1, <2>2
<1>16. ASSUME NEW v \in Tasks, NEW b \in Addresses
       PROVE  Space(n)[v][b] = IF v = t /\ b = a THEN m.val[p] ELSE Space(m)[v][b]
  <2>1. Space(n)[v][b] = IF n.page[v][b] = NoPage THEN 0 ELSE k.val[n.page[v][b]]
    BY <1>7 DEF Space
  <2>2. Space(k)[v][b] = IF k.page[v][b] = NoPage THEN 0 ELSE k.val[k.page[v][b]]
    BY DEF Space
  <2>3. QED
    BY <1>1, <1>3, <1>6, <1>8, <2>1, <2>2
<1>17. \A v \in Tasks, e \in Dirs :
         IF v = t /\ e = a[1] THEN n.dir[v][e] # NoPage ELSE n.dir[v][e] = m.dir[v][e]
  BY <1>3, <1>7
<1>18. Sound(n, x)
  BY <1>7, <1>9, <1>11, <1>12, <1>13, <1>14, <1>15 DEF Sound
<1>19. QED
  BY <1>8, <1>16, <1>17, <1>18 DEF Given

(* What n is when a page of t has become its own.                          *)
Unshared(m, n, t, a) ==
  /\ Space(n) = Space(m) /\ n.dir = m.dir
  /\ \A v \in Tasks, b \in Addresses :
       /\ n.page[v][b] = NoPage <=> m.page[v][b] = NoPage
       /\ n.writable[v][b] <=> (v = t /\ b = a) \/ m.writable[v][b]

(* un_wp_page: a task gets a page to itself; nobody sees a difference.     *)
LEMMA UnWp ==
  ASSUME NEW m, NEW o, Sound(m, o), NEW t \in Tasks, NEW a \in Addresses,
         m.page[t][a] # NoPage, ~m.writable[t][a],
         Alone(m, m.page[t][a]) \/ Free(m) # {}, NEW n, n = un_wp_page(m, t, a)
  PROVE  Sound(n, o) /\ Unshared(m, n, t, a)
<1> DEFINE old == m.page[t][a]
<1>1. /\ m \in Memories /\ o \in [Pages -> Nat] /\ Balanced(m, o)
      /\ old \in Pages \cup {Low} /\ old # NoPage
  BY DEF Sound, Memories
<1>2. CASE Alone(m, old)
  <2>1. old \in Pages /\ m.map[old] = 1
    BY <1>1, <1>2 DEF Alone
  <2>2. n = [m EXCEPT !.writable[t][a] = TRUE]
    BY <1>2 DEF un_wp_page
  <2>3. /\ n.map = m.map /\ n.val = m.val /\ n.dir = m.dir /\ n.page = m.page
        /\ n.writable = [m.writable EXCEPT ![t][a] = TRUE]
    BY <1>1, <2>2 DEF Memories
  <2>4. n.writable \in [Tasks -> [Addresses -> BOOLEAN]]
    BY <1>1, <2>3 DEF Memories
  <2>5. n \in Memories
    BY <1>1, <2>2, <2>3, <2>4 DEF Memories
  <2>6. \A v \in Tasks, b \in Addresses :
          n.writable[v][b] <=> (v = t /\ b = a) \/ m.writable[v][b]
    BY <1>1, <2>3 DEF Memories
  <2>7. Writable(n)
    BY <2>1, <2>3, <2>6 DEF Sound, Writable
  <2>8. Sound(n, o)
    BY <2>3, <2>5, <2>7, SameRefs DEF Sound, Balanced, Single, InTables, SamePlace
  <2>9. Space(n) = Space(m)
    BY <2>3 DEF Space
  <2>10. QED
    BY <2>3, <2>6, <2>8, <2>9 DEF Unshared
<1>3. CASE ~Alone(m, old)
  <2> DEFINE f == FreePage(m)
             k == get_free_page(m)
             x == [o EXCEPT ![f] = 1]
             M == [p \in Pages |-> IF p = old THEN k.map[p] - 1 ELSE k.map[p]]
             P == [k.page EXCEPT ![t][a] = f]
             W == [k.writable EXCEPT ![t][a] = TRUE]
             l == [k EXCEPT !.map = M, !.page[t][a] = f, !.writable[t][a] = TRUE]
  <2>1. /\ f \in Pages /\ m.map[f] = 0 /\ o[f] = 0
        /\ Sound(k, x) /\ Space(k) = Space(m)
        /\ k.map = [m.map EXCEPT ![f] = 1] /\ k.val = [m.val EXCEPT ![f] = 0]
        /\ k.dir = m.dir /\ k.page = m.page /\ k.writable = m.writable
    BY <1>3, GetFreePage
  <2>2. /\ k \in Memories /\ Balanced(k, x)
        /\ \A v \in Tasks, b \in Addresses : m.page[v][b] # f
        /\ \A v \in Tasks, e \in Dirs : m.dir[v][e] # f
    BY <2>1, Alones DEF Sound
  <2>3. old # f
    BY <2>2
  <2>4. l = [k EXCEPT !.map = [p \in Pages |-> IF p = old THEN @[p] - 1 ELSE @[p]],
                      !.page[t][a] = f, !.writable[t][a] = TRUE]
    OBVIOUS
  <2>5. n = [l EXCEPT !.val[f] = l.val[old]]
    BY <1>3, <2>4 DEF un_wp_page, copy_page
  <2> HIDE DEF f, k, old
  <2>6. M \in [Pages -> Int]
    BY <2>2 DEF Memories
  <2>7. P \in [Tasks -> [Addresses -> Pages \cup {Low, NoPage}]]
    BY <2>1, <2>2 DEF Memories
  <2>8. W \in [Tasks -> [Addresses -> BOOLEAN]]
    BY <2>2 DEF Memories
  <2>9. l.map = M /\ l.page = P /\ l.writable = W /\ l.val = k.val /\ l.dir = k.dir
    <3> HIDE DEF M
    <3>1. QED
      BY <2>2 DEF Memories
  <2>10. l \in Memories
    <3> DEFINE j == l
    <3>1. j = [k EXCEPT !.map = M, !.page[t][a] = f, !.writable[t][a] = TRUE]
      OBVIOUS
    <3>2. j.map = M /\ j.page = P /\ j.writable = W /\ j.val = k.val /\ j.dir = k.dir
      BY <2>9
    <3> HIDE DEF M, P, W, j
    <3>3. j \in Memories
      BY <2>2, <2>6, <2>7, <2>8, <3>1, <3>2 DEF Memories
    <3>4. QED
      BY <3>3 DEF j
  <2>11. \A p \in Pages :
           l.map[p] = IF p = f THEN 1 ELSE IF p = old THEN m.map[p] - 1 ELSE m.map[p]
    BY <1>1, <2>1, <2>3, <2>9 DEF Memories
  <2> HIDE DEF M, l
  <2>12. /\ n \in Memories
         /\ n.map = l.map /\ n.page = P /\ n.writable = W /\ n.dir = m.dir
         /\ n.val = [k.val EXCEPT ![f] = k.val[old]]
    <3>1. /\ n.map = l.map /\ n.page = P /\ n.writable = W /\ n.dir = m.dir
          /\ n.val = [k.val EXCEPT ![f] = k.val[old]]
      <4> HIDE DEF P, W
      <4>1. QED
        BY <2>1, <2>5, <2>9, <2>10 DEF Memories
    <3>2. n.val \in [Pages \cup {Low} -> Values]
      BY <1>1, <2>1, <2>2, <3>1 DEF Memories
    <3> HIDE DEF P, W
    <3>3. QED
      BY <2>5, <2>10, <3>1, <3>2 DEF Memories
  <2>13. \A v \in Tasks, b \in Addresses :
           /\ n.page[v][b] = IF v = t /\ b = a THEN f ELSE m.page[v][b]
           /\ n.writable[v][b] <=> (v = t /\ b = a) \/ m.writable[v][b]
    BY <2>1, <2>2, <2>12 DEF Memories
  <2>14. \A p \in Pages :
           n.map[p] = IF p = f THEN 1 ELSE IF p = old THEN m.map[p] - 1 ELSE m.map[p]
    BY <2>11, <2>12
  <2> HIDE DEF P, W
  (* The old page is shared: neither a page table nor the kernel's.        *)
  <2>15. old \in Pages => /\ m.map[old] # 1 /\ m.map[old] # 0 /\ o[old] = 0
                          /\ \A v \in Tasks, e \in Dirs : m.dir[v][e] # old
    <3>1. old \in Pages => m.map[old] # 1
      BY <1>1, <1>3, Constants DEF Alone
    <3>2. old \in Pages => m.map[old] # 0
      BY Alones DEF old
    <3>3. QED
      BY <1>1, <3>1, <3>2 DEF Sound, Single
  <2>16. Balanced(n, o)
    <3> SUFFICES ASSUME NEW q \in Pages
                 PROVE  n.map[q] = Cardinality(PageRefs(n, q)) + Cardinality(DirRefs(n, q)) + o[q]
      BY DEF Balanced
    <3>1. m.map[q] = Cardinality(PageRefs(m, q)) + Cardinality(DirRefs(m, q)) + o[q]
      BY <1>1 DEF Balanced
    <3>2. OnePage(m, n, t, a, old, f)
      BY <2>13 DEF OnePage, old
    <3>3. Cardinality(PageRefs(n, q)) = Shift(Cardinality(PageRefs(m, q)), old, f, q)
      BY <3>2, ChangePage
    <3>4. DirRefs(n, q) = DirRefs(m, q)
      BY <2>12 DEF DirRefs
    <3>5. /\ Cardinality(PageRefs(m, q)) \in Nat /\ Cardinality(PageRefs(n, q)) \in Nat
          /\ Cardinality(DirRefs(m, q)) \in Nat
      BY RefsFinite
    <3>6. o[q] \in Nat
      BY <1>1
    <3>7. n.map[q] = IF q = f THEN 1 ELSE IF q = old THEN m.map[q] - 1 ELSE m.map[q]
      BY <2>14
    <3>8. QED
      BY <2>1, <2>3, <3>1, <3>3, <3>4, <3>5, <3>6, <3>7 DEF Shift
  <2>17. Single(n, o)
    <3>1. ASSUME NEW q \in Pages, o[q] # 0
          PROVE  n.map[q] = 1
      <4>1. m.map[q] = 1
        BY <3>1 DEF Sound, Single
      <4>2. q # old
        BY <3>1, <4>1, <2>15
      <4>3. QED
        BY <2>14, <4>1, <4>2
    <3>2. ASSUME NEW v \in Tasks, NEW e \in Dirs, n.dir[v][e] \in Pages
          PROVE  n.map[n.dir[v][e]] = 1
      <4>1. m.map[m.dir[v][e]] = 1 /\ m.dir[v][e] \in Pages /\ n.dir[v][e] = m.dir[v][e]
        BY <2>12, <3>2 DEF Sound, Single
      <4>2. QED
        BY <2>14, <2>15, <4>1
    <3>3. QED
      BY <3>1, <3>2 DEF Single
  <2>18. InTables(n)
    <3> SUFFICES ASSUME NEW v \in Tasks, NEW b \in Addresses, n.page[v][b] # NoPage
                 PROVE  n.dir[v][b[1]] # NoPage
      BY DEF InTables
    <3>1. m.page[v][b] # NoPage
      BY <1>1, <2>13 DEF old
    <3>2. QED
      BY <2>12, <3>1 DEF Sound, InTables
  <2>19. SamePlace(n)
    BY <2>2, <2>13 DEF Sound, SamePlace
  <2>20. Writable(n)
    <3> SUFFICES ASSUME NEW v \in Tasks, NEW b \in Addresses, n.writable[v][b]
                 PROVE  \/ n.page[v][b] \in Pages /\ n.map[n.page[v][b]] = 1
                        \/ v = 0 /\ n.page[v][b] = Low
      BY DEF Writable
    <3>1. CASE v = t /\ b = a
      BY <2>1, <2>13, <2>14, <3>1
    <3>2. CASE ~(v = t /\ b = a)
      <4>1. n.page[v][b] = m.page[v][b] /\ m.writable[v][b]
        BY <2>13, <3>2
      <4>2. \/ m.page[v][b] \in Pages /\ m.map[m.page[v][b]] = 1
            \/ v = 0 /\ m.page[v][b] = Low
        BY <4>1 DEF Sound, Writable
      <4>3. QED
        BY <2>14, <2>15, <4>1, <4>2
    <3>3. QED
      BY <3>1, <3>2
  <2>21. ASSUME NEW v \in Tasks, NEW b \in Addresses
         PROVE  Space(n)[v][b] = Space(m)[v][b]
    <3>1. Space(n)[v][b] = IF n.page[v][b] = NoPage THEN 0 ELSE n.val[n.page[v][b]]
      BY DEF Space
    <3>2. Space(k)[v][b] = IF m.page[v][b] = NoPage THEN 0 ELSE k.val[m.page[v][b]]
      BY <2>1 DEF Space
    <3>3. f # NoPage
      BY <2>1, Constants
    <3>4. n.val[f] = k.val[old]
      BY <2>1, <2>2, <2>12 DEF Memories
    <3>5. \A p \in Pages \cup {Low} : p # f => n.val[p] = k.val[p]
      BY <2>1, <2>2, <2>12 DEF Memories
    <3>6. m.page[v][b] \in Pages \cup {Low, NoPage} /\ m.page[v][b] # f
      BY <1>1, <2>2 DEF Memories
    <3>7. CASE v = t /\ b = a
      BY <1>1, <2>1, <2>13, <3>1, <3>2, <3>3, <3>4, <3>7, SMTT(60) DEF old
    <3>8. CASE ~(v = t /\ b = a)
      BY <2>1, <2>13, <3>1, <3>2, <3>5, <3>6, <3>8
    <3>9. QED
      BY <3>7, <3>8
  <2>22. Space(n) = Space(m)
    BY <2>21 DEF Space
  <2>23. Sound(n, o)
    BY <1>1, <2>12, <2>16, <2>17, <2>18, <2>19, <2>20 DEF Sound
  <2>24. f # NoPage
    BY <2>1, Constants
  <2>25. QED
    BY <1>1, <2>12, <2>13, <2>22, <2>23, <2>24 DEF old, Unshared
<1>4. QED
  BY <1>2, <1>3

(* What n is when w was stored in page q.                                  *)
Stored(m, n, q, w) ==
  /\ n.dir = m.dir /\ n.page = m.page /\ n.writable = m.writable
  /\ \A v \in Tasks, b \in Addresses :
       Space(n)[v][b] = IF m.page[v][b] = q THEN w ELSE Space(m)[v][b]

(* A store to a page that somebody has.                                    *)
LEMMA PutVal ==
  ASSUME NEW m, NEW o, Sound(m, o), NEW q \in Pages \cup {Low}, NEW w \in Values,
         NEW n, n = [m EXCEPT !.val[q] = w]
  PROVE  Sound(n, o) /\ Stored(m, n, q, w)
<1>1. m \in Memories
  BY DEF Sound
<1>2. /\ n.map = m.map /\ n.dir = m.dir /\ n.page = m.page /\ n.writable = m.writable
      /\ n.val = [m.val EXCEPT ![q] = w]
  BY <1>1 DEF Memories
<1>3. n \in Memories
  <2>1. n.val \in [Pages \cup {Low} -> Values]
    BY <1>1, <1>2 DEF Memories
  <2>2. QED
    BY <1>1, <1>2, <2>1 DEF Memories
<1>4. Sound(n, o)
  <2>1. \A p : PageRefs(n, p) = PageRefs(m, p) /\ DirRefs(n, p) = DirRefs(m, p)
    BY <1>2 DEF PageRefs, DirRefs
  <2>2. Balanced(n, o) /\ Single(n, o)
    BY <1>2, <2>1 DEF Sound, Balanced, Single
  <2>3. InTables(n) /\ SamePlace(n) /\ Writable(n)
    BY <1>2 DEF Sound, InTables, SamePlace, Writable
  <2>4. QED
    BY <1>3, <2>2, <2>3 DEF Sound
<1>5. ASSUME NEW v \in Tasks, NEW b \in Addresses
      PROVE  Space(n)[v][b] = IF m.page[v][b] = q THEN w ELSE Space(m)[v][b]
  <2>1. m.page[v][b] \in Pages \cup {Low, NoPage} /\ q # NoPage
    BY <1>1, Constants DEF Memories
  <2>2. \A p \in Pages \cup {Low} : n.val[p] = IF p = q THEN w ELSE m.val[p]
    BY <1>1, <1>2 DEF Memories
  <2>3. QED
    BY <1>2, <2>1, <2>2 DEF Space
<1>6. QED
  BY <1>2, <1>4, <1>5 DEF Stored

-----------------------------------------------------------------------------
(* What the kernel holds                                                   *)

(* One task changes what it has from i to j.                               *)
OneTask(f, g, t, i, j) ==
  /\ f[t] = i /\ g[t] = j
  /\ \A v \in Tasks : v = t \/ g[v] = f[v]

(* Those that have a page are finitely many.                               *)
LEMMA OwnedFinite ==
  ASSUME NEW f, NEW p
  PROVE  /\ IsFiniteSet(Owned(f, p)) /\ Cardinality(Owned(f, p)) \in Nat
         /\ Cardinality(Owned(f, p)) = 0 <=> \A t \in Tasks : f[t] # p
<1>1. Owned(f, p) \in SUBSET Tasks /\ IsFiniteSet(Tasks)
  BY Constants DEF Owned
<1>2. /\ IsFiniteSet(Owned(f, p)) /\ Cardinality(Owned(f, p)) \in Nat
      /\ Cardinality(Owned(f, p)) = 0 <=> Owned(f, p) = {}
  BY <1>1, CountPart
<1>3. Owned(f, p) = {} <=> \A t \in Tasks : f[t] # p
  BY DEF Owned
<1>4. QED
  BY <1>2, <1>3

(* And when one task changes what it has, their number changes by one.     *)
LEMMA ChangeOwned ==
  ASSUME NEW f, NEW g, NEW t \in Tasks, NEW i, NEW j, OneTask(f, g, t, i, j), NEW p
  PROVE  Cardinality(Owned(g, p)) = Shift(Cardinality(Owned(f, p)), i, j, p)
<1> DEFINE S == Owned(f, p)
           T == Owned(g, p)
<1>1. (t \in S <=> i = p) /\ (t \in T <=> j = p) /\ S \ {t} = T \ {t}
  BY DEF Owned, OneTask
<1>2. IsFiniteSet(S)
  BY OwnedFinite
<1> HIDE DEF S, T
<1>3. Cardinality(T) = Cardinality(S) - (IF t \in S THEN 1 ELSE 0)
                                      + (IF t \in T THEN 1 ELSE 0)
  BY <1>1, <1>2, ChangeOne
<1>4. QED
  BY <1>1, <1>3 DEF S, T, Shift

(* The kernel holds a page in one way only.                                *)
LEMMA HeldOnce ==
  ASSUME NEW m, NEW o, Sound(m, o), NEW ta, NEW ar, NEW pi, NEW lo, o = Held(ta, ar, pi, lo),
         NEW p \in Pages
  PROVE  /\ Cardinality(Owned(ta, p)) \in Nat /\ Cardinality(Owned(ar, p)) \in Nat
         /\ o[p] \in {0, 1}
         /\ o[p] = Cardinality(Owned(ta, p)) + Cardinality(Owned(ar, p))
                   + (IF p \in pi THEN 1 ELSE 0) + (IF p \in lo THEN 1 ELSE 0)
<1>1. o \in [Pages -> Nat] /\ Balanced(m, o)
  BY DEF Sound
<1>2. o[p] \in {0, 1}
  <2>1. o[p] # 0 => m.map[p] = 1
    BY DEF Sound, Single
  <2>2. m.map[p] = 1 /\ o[p] # 0 => o[p] = 1
    BY <1>1, Sharing
  <2>3. QED
    BY <2>1, <2>2
<1>3. o[p] = Cardinality(Owned(ta, p)) + Cardinality(Owned(ar, p))
             + (IF p \in pi THEN 1 ELSE 0) + (IF p \in lo THEN 1 ELSE 0)
  BY DEF Held
<1>4. Cardinality(Owned(ta, p)) \in Nat /\ Cardinality(Owned(ar, p)) \in Nat
  BY OwnedFinite
<1>5. QED
  BY <1>2, <1>3, <1>4

(* A page that the kernel did not hold is held by a new task.              *)
LEMMA HoldTask ==
  ASSUME NEW m, NEW o, Sound(m, o), NEW ta, NEW ar, NEW pi, NEW lo, o = Held(ta, ar, pi, lo),
         NEW tb, NEW u \in Tasks, NEW f \in Pages, o[f] = 0, OneTask(ta, tb, u, NoPage, f)
  PROVE  Held(tb, ar, pi, lo) = [o EXCEPT ![f] = 1]
<1> DEFINE x == Held(tb, ar, pi, lo)
<1>1. o \in [Pages -> Nat] /\ NoPage \notin Pages
  BY Constants DEF Sound
<1>2. ASSUME NEW p \in Pages
      PROVE  x[p] = IF p = f THEN 1 ELSE o[p]
  <2>1. Cardinality(Owned(tb, p)) = Shift(Cardinality(Owned(ta, p)), NoPage, f, p)
    BY ChangeOwned
  <2>2. /\ Cardinality(Owned(ta, p)) \in Nat /\ Cardinality(Owned(ar, p)) \in Nat
        /\ o[p] = Cardinality(Owned(ta, p)) + Cardinality(Owned(ar, p))
                  + (IF p \in pi THEN 1 ELSE 0) + (IF p \in lo THEN 1 ELSE 0)
    BY HeldOnce
  <2>3. x[p] = Cardinality(Owned(tb, p)) + Cardinality(Owned(ar, p))
               + (IF p \in pi THEN 1 ELSE 0) + (IF p \in lo THEN 1 ELSE 0)
    BY DEF Held
  <2>4. NoPage # p
    BY <1>1
  <2> HIDE DEF x
  <2>5. QED
    BY <2>1, <2>2, <2>3, <2>4 DEF Shift
<1>3. x = [p \in Pages |-> x[p]]
  BY DEF Held
<1> HIDE DEF x
<1>4. x = [o EXCEPT ![f] = 1]
  BY <1>1, <1>2, <1>3
<1>5. QED
  BY <1>4 DEF x

(* The page of a task that is gone is no longer held.                      *)
LEMMA DropTask ==
  ASSUME NEW m, NEW o, Sound(m, o), NEW ta, NEW ar, NEW pi, NEW lo, o = Held(ta, ar, pi, lo),
         NEW tb, NEW u \in Tasks, NEW f \in Pages, OneTask(ta, tb, u, f, NoPage)
  PROVE  o[f] # 0 /\ Held(tb, ar, pi, lo) = [o EXCEPT ![f] = @ - 1]
<1> DEFINE x == Held(tb, ar, pi, lo)
<1>1. o \in [Pages -> Nat] /\ NoPage \notin Pages
  BY Constants DEF Sound
<1>2. ASSUME NEW p \in Pages
      PROVE  x[p] = IF p = f THEN o[p] - 1 ELSE o[p]
  <2>1. Cardinality(Owned(tb, p)) = Shift(Cardinality(Owned(ta, p)), f, NoPage, p)
    BY ChangeOwned
  <2>2. /\ Cardinality(Owned(ta, p)) \in Nat /\ Cardinality(Owned(ar, p)) \in Nat
        /\ o[p] = Cardinality(Owned(ta, p)) + Cardinality(Owned(ar, p))
                  + (IF p \in pi THEN 1 ELSE 0) + (IF p \in lo THEN 1 ELSE 0)
    BY HeldOnce
  <2>3. x[p] = Cardinality(Owned(tb, p)) + Cardinality(Owned(ar, p))
               + (IF p \in pi THEN 1 ELSE 0) + (IF p \in lo THEN 1 ELSE 0)
    BY DEF Held
  <2>4. NoPage # p
    BY <1>1
  <2> HIDE DEF x
  <2>5. QED
    BY <2>1, <2>2, <2>3, <2>4 DEF Shift
<1>3. x = [p \in Pages |-> x[p]]
  BY DEF Held
<1>4. o[f] # 0
  <2>1. Cardinality(Owned(ta, f)) # 0 /\ Cardinality(Owned(ta, f)) \in Nat
    BY OwnedFinite DEF OneTask
  <2>2. /\ Cardinality(Owned(ar, f)) \in Nat
        /\ o[f] = Cardinality(Owned(ta, f)) + Cardinality(Owned(ar, f))
                  + (IF f \in pi THEN 1 ELSE 0) + (IF f \in lo THEN 1 ELSE 0)
    BY HeldOnce
  <2>3. QED
    BY <2>1, <2>2
<1> HIDE DEF x
<1>5. x = [o EXCEPT ![f] = @ - 1]
  BY <1>1, <1>2, <1>3
<1>6. QED
  BY <1>4, <1>5 DEF x

(* Arguments for exec get a page that the kernel did not hold.             *)
LEMMA HoldArgs ==
  ASSUME NEW m, NEW o, Sound(m, o), NEW ta, NEW ar, NEW pi, NEW lo, o = Held(ta, ar, pi, lo),
         NEW ab, NEW u \in Tasks, NEW f \in Pages, o[f] = 0, OneTask(ar, ab, u, NoPage, f)
  PROVE  Held(ta, ab, pi, lo) = [o EXCEPT ![f] = 1]
<1> DEFINE x == Held(ta, ab, pi, lo)
<1>1. o \in [Pages -> Nat] /\ NoPage \notin Pages
  BY Constants DEF Sound
<1>2. ASSUME NEW p \in Pages
      PROVE  x[p] = IF p = f THEN 1 ELSE o[p]
  <2>1. Cardinality(Owned(ab, p)) = Shift(Cardinality(Owned(ar, p)), NoPage, f, p)
    BY ChangeOwned
  <2>2. /\ Cardinality(Owned(ta, p)) \in Nat /\ Cardinality(Owned(ar, p)) \in Nat
        /\ o[p] = Cardinality(Owned(ta, p)) + Cardinality(Owned(ar, p))
                  + (IF p \in pi THEN 1 ELSE 0) + (IF p \in lo THEN 1 ELSE 0)
    BY HeldOnce
  <2>3. x[p] = Cardinality(Owned(ta, p)) + Cardinality(Owned(ab, p))
               + (IF p \in pi THEN 1 ELSE 0) + (IF p \in lo THEN 1 ELSE 0)
    BY DEF Held
  <2>4. NoPage # p
    BY <1>1
  <2> HIDE DEF x
  <2>5. QED
    BY <2>1, <2>2, <2>3, <2>4 DEF Shift
<1>3. x = [p \in Pages |-> x[p]]
  BY DEF Held
<1> HIDE DEF x
<1>4. x = [o EXCEPT ![f] = 1]
  BY <1>1, <1>2, <1>3
<1>5. QED
  BY <1>4 DEF x

(* What the kernel holds when exec gives up the page i and l is lost.      *)
MayLose(o, i, l) == \A p \in l : p \in Pages /\ (o[p] = 0 \/ p = i)
Dropped(o, x, i, l) ==
  \A p \in Pages : /\ i = p => o[p] = 1
                   /\ x[p] = IF p \in l THEN 1 ELSE IF p = i THEN 0 ELSE o[p]

(* exec hands over the page of the arguments, if there is one, and pages   *)
(* of the set l that the kernel did not hold are lost.                     *)
LEMMA DropArgs ==
  ASSUME NEW m, NEW o, Sound(m, o), NEW ta, NEW ar, NEW pi, NEW lo, o = Held(ta, ar, pi, lo),
         NEW ab, NEW u \in Tasks, NEW i \in Pages \cup {NoPage}, OneTask(ar, ab, u, i, NoPage),
         NEW l, MayLose(o, i, l)
  PROVE  Dropped(o, Held(ta, ab, pi, lo \cup l), i, l)
<1> SUFFICES ASSUME NEW p \in Pages
             PROVE  /\ i = p => o[p] = 1
                    /\ Held(ta, ab, pi, lo \cup l)[p] =
                         IF p \in l THEN 1 ELSE IF p = i THEN 0 ELSE o[p]
  BY DEF Dropped
<1> DEFINE x == Held(ta, ab, pi, lo \cup l)
<1>1. o \in [Pages -> Nat] /\ NoPage \notin Pages
  BY Constants DEF Sound
<1>2. Cardinality(Owned(ab, p)) = Shift(Cardinality(Owned(ar, p)), i, NoPage, p)
  BY ChangeOwned
<1>3. /\ Cardinality(Owned(ta, p)) \in Nat /\ Cardinality(Owned(ar, p)) \in Nat
      /\ o[p] \in {0, 1}
      /\ o[p] = Cardinality(Owned(ta, p)) + Cardinality(Owned(ar, p))
                + (IF p \in pi THEN 1 ELSE 0) + (IF p \in lo THEN 1 ELSE 0)
  BY HeldOnce
<1>4. x[p] = Cardinality(Owned(ta, p)) + Cardinality(Owned(ab, p))
             + (IF p \in pi THEN 1 ELSE 0) + (IF p \in lo \/ p \in l THEN 1 ELSE 0)
  BY DEF Held
<1>5. NoPage # p
  BY <1>1
<1>6. i = p => Cardinality(Owned(ar, p)) # 0
  BY OwnedFinite DEF OneTask
<1> HIDE DEF x
<1>7. i = p => o[p] = 1 /\ Cardinality(Owned(ar, p)) = 1 /\ p \notin lo
  BY <1>3, <1>6
<1>8. x[p] = IF p \in l THEN 1 ELSE IF p = i THEN 0 ELSE o[p]
  <2>1. CASE p = i
    BY <1>2, <1>3, <1>4, <1>5, <1>7, <2>1 DEF Shift, MayLose
  <2>2. CASE p # i
    BY <1>2, <1>3, <1>4, <1>5, <2>2 DEF Shift, MayLose
  <2>3. QED
    BY <2>1, <2>2
<1>9. QED
  BY <1>7, <1>8 DEF x

-----------------------------------------------------------------------------
(* The steps                                                               *)

(* What a step does to what tasks see.                                     *)
Nothing == [a \in Addresses |-> 0]
SpaceStays == Space(mem') = Space(mem) /\ unverified' = unverified
SpaceCleared(t) ==
  Space(mem') = [Space(mem) EXCEPT ![t] = Nothing] /\ unverified' = unverified
SpaceStored(t, a, w) ==
  Space(mem') = [Space(mem) EXCEPT ![t][a] = w] /\ unverified' = unverified

(* A task keeps what it has: it gets no tables and no pages, and may write *)
(* where it could.                                                         *)
Keeps(m, n, v) ==
  /\ \A e \in Dirs : n.dir[v][e] # NoPage => m.dir[v][e] # NoPage
  /\ \A b \in Addresses : n.page[v][b] # NoPage => m.page[v][b] # NoPage
  /\ \A b \in Addresses : m.writable[v][b] => n.writable[v][b]

Idle(v) ==
  /\ task'[v] = task[v] /\ pc'[v] = pc[v] /\ place'[v] = place[v]
  /\ limit'[v] = limit[v] /\ args'[v] = args[v]

(* A task that keeps what it has and does nothing stays as it is.          *)
LEMMA OthersStay ==
  ASSUME MemInv, NEW v \in Tasks, Idle(v), Keeps(mem, mem', v)
  PROVE  TaskOf(v)'
<1>1. TaskOf(v) /\ place[v] \in Addresses
  BY DEF MemInv, Types
<1>2. QED
  BY <1>1 DEF TaskOf, Idle, Keeps

(* The parts of the invariant.                                             *)
LEMMA Parts ==
  ASSUME MemInv
  PROVE  /\ Types /\ Sound(mem, Outside) /\ mem \in Memories /\ Outside \in [Pages -> Nat]
         /\ Outside = Held(task, args, pipes, lost)
         /\ \A t \in Tasks : TaskOf(t)
BY DEF MemInv, Sound, Outside

(* What the kernel holds does not change.                                  *)
LEMMA OutsideSame ==
  ASSUME UNCHANGED <<task, args, pipes, lost>>
  PROVE  Outside' = Outside
BY DEF Outside

(* The page of a pipe: it is got, or given back.                           *)
LEMMA PipePageStep ==
  ASSUME MemInv, PipePage
  PROVE  MemInv' /\ SpaceStays
<1>1. /\ Types /\ Sound(mem, Outside) /\ mem \in Memories /\ Outside \in [Pages -> Nat]
      /\ Outside = Held(task, args, pipes, lost)
  BY Parts
<1>2. /\ task' = task /\ pc' = pc /\ place' = place /\ limit' = limit /\ args' = args
      /\ lost' = lost /\ unverified' = unverified
  BY DEF PipePage
<1>3. ASSUME NEW x, Sound(mem', x), Outside' = x, Space(mem') = Space(mem),
             pipes' \in SUBSET Pages,
             mem'.dir = mem.dir, mem'.page = mem.page, mem'.writable = mem.writable
      PROVE  MemInv' /\ SpaceStays
  <2>1. Types'
    BY <1>1, <1>2, <1>3 DEF Types
  <2>2. ASSUME NEW v \in Tasks
        PROVE  TaskOf(v)'
    <3>1. Idle(v) /\ Keeps(mem, mem', v)
      BY <1>2, <1>3 DEF Idle, Keeps
    <3>2. QED
      BY <3>1, OthersStay
  <2>3. QED
    BY <1>2, <1>3, <2>1, <2>2 DEF MemInv, SpaceStays
<1>4. CASE Free(mem) # {} /\ pipes = {} /\ mem' = get_free_page(mem) /\ pipes' = {FreePage(mem)}
  <2> DEFINE f == FreePage(mem)
             x == [Outside EXCEPT ![f] = 1]
  <2>1. /\ f \in Pages /\ Outside[f] = 0 /\ Sound(mem', x) /\ Space(mem') = Space(mem)
        /\ mem'.dir = mem.dir /\ mem'.page = mem.page /\ mem'.writable = mem.writable
    BY <1>1, <1>4, GetFreePage, ZenonT(60)
  <2>2. Outside' = Held(task, args, {f}, lost) /\ Outside = Held(task, args, {}, lost)
    BY <1>1, <1>2, <1>4 DEF Outside
  <2> HIDE DEF f
  <2>3. \A p \in Pages :
          /\ Cardinality(Owned(task, p)) \in Nat /\ Cardinality(Owned(args, p)) \in Nat
          /\ Outside[p] = Cardinality(Owned(task, p)) + Cardinality(Owned(args, p))
                          + (IF p \in lost THEN 1 ELSE 0)
          /\ Outside'[p] = Cardinality(Owned(task, p)) + Cardinality(Owned(args, p))
                          + (IF p = f THEN 1 ELSE 0) + (IF p \in lost THEN 1 ELSE 0)
    BY <2>2, OwnedFinite DEF Held
  <2>4. \A p \in Pages : Outside'[p] = x[p]
    BY <1>1, <2>1, <2>3
  <2>5. Outside' = [p \in Pages |-> Outside'[p]]
    BY <2>2 DEF Held
  <2>6. Outside' = x
    BY <1>1, <2>4, <2>5
  <2>7. pipes' \in SUBSET Pages
    BY <1>4, <2>1 DEF f
  <2> HIDE DEF x
  <2>8. QED
    BY <1>3, <2>1, <2>6, <2>7
<1>5. ASSUME NEW p \in pipes, mem' = free_page(mem, p), pipes' = pipes \ {p}
      PROVE  MemInv' /\ SpaceStays
  <2> DEFINE x == [Outside EXCEPT ![p] = @ - 1]
  <2>1. p \in Pages
    BY <1>1 DEF Types
  <2>2. Outside' = Held(task, args, pipes \ {p}, lost) /\ Outside = Held(task, args, pipes, lost)
    BY <1>1, <1>2, <1>5 DEF Outside
  <2>3. \A q \in Pages :
          /\ Cardinality(Owned(task, q)) \in Nat /\ Cardinality(Owned(args, q)) \in Nat
          /\ Outside[q] = Cardinality(Owned(task, q)) + Cardinality(Owned(args, q))
                          + (IF q \in pipes THEN 1 ELSE 0) + (IF q \in lost THEN 1 ELSE 0)
          /\ Outside'[q] = Cardinality(Owned(task, q)) + Cardinality(Owned(args, q))
                          + (IF q \in pipes /\ q # p THEN 1 ELSE 0) + (IF q \in lost THEN 1 ELSE 0)
    BY <2>2, OwnedFinite DEF Held
  <2>4. \A q \in Pages : Outside'[q] = x[q]
    BY <1>1, <2>1, <2>3
  <2>5. Outside' = [q \in Pages |-> Outside'[q]]
    BY <2>2 DEF Held
  <2>6. Outside' = x
    BY <1>1, <2>4, <2>5
  <2>7. Outside[p] # 0
    BY <2>1, <2>3
  <2>8. /\ Sound(mem', x) /\ Space(mem') = Space(mem)
        /\ mem'.dir = mem.dir /\ mem'.page = mem.page /\ mem'.writable = mem.writable
    <3> DEFINE n == mem'
               o == Outside
    <3>1. Sound(mem, o) /\ o[p] # 0 /\ n = free_page(mem, p) /\ p \in Pages
      BY <1>1, <1>5, <2>1, <2>7
    <3> HIDE DEF n, o
    <3>2. /\ Sound(n, [o EXCEPT ![p] = @ - 1]) /\ Space(n) = Space(mem)
          /\ n.dir = mem.dir /\ n.page = mem.page /\ n.writable = mem.writable
      BY <3>1, FreeOne
    <3>3. QED
      BY <3>2 DEF n, o
  <2>9. pipes' \in SUBSET Pages
    BY <1>1, <1>5 DEF Types
  <2> HIDE DEF x
  <2>10. QED
    BY <1>3, <2>6, <2>8, <2>9
<1>6. QED
  BY <1>4, <1>5 DEF PipePage

(* A task gives up its memory and becomes a zombie; k is its memory with a *)
(* page that is lost, if there is one.                                     *)
LEMMA Leave ==
  ASSUME MemInv, NEW t \in Tasks, t # 0, pc[t] # "none",
         NEW k, Sound(k, Outside'), k.dir = mem.dir, k.page = mem.page,
         k.writable = mem.writable, Space(k) = Space(mem),
         mem' = free_page_tables(k, t, limit[t]), lost' \in SUBSET Pages,
         pc' = [pc EXCEPT ![t] = "zombie"], args' = [args EXCEPT ![t] = NoPage],
         UNCHANGED <<task, place, limit, pipes, unverified>>
  PROVE  MemInv' /\ SpaceCleared(t)
<1>1. /\ Types /\ Sound(mem, Outside) /\ mem \in Memories
      /\ \A v \in Tasks : TaskOf(v)
  BY Parts
<1>2. Sound(mem', Outside') /\ Freed(k, mem', t, limit[t])
  <2>1. limit[t] \in 0..DIRS
    BY <1>1, Constants DEF Types
  <2> DEFINE x == Outside'
             n == mem'
  <2>2. Sound(k, x) /\ n = free_page_tables(k, t, limit[t])
    OBVIOUS
  <2> HIDE DEF x, n
  <2>3. Sound(n, x) /\ Freed(k, n, t, limit[t])
    BY <2>1, <2>2, FreeTables
  <2>4. QED
    BY <2>3 DEF x, n
<1>3. \A e \in Dirs : mem.dir[t][e] # NoPage => e < limit[t]
  BY <1>1 DEF TaskOf
<1>4. Types'
  BY <1>1 DEF Types
<1>5. /\ \A v \in Tasks \ {t}, e \in Dirs : mem'.dir[v][e] = mem.dir[v][e]
      /\ \A e \in Dirs : mem'.dir[t][e] = NoPage
      /\ \A v \in Tasks \ {t}, b \in Addresses :
           /\ mem'.page[v][b] = mem.page[v][b]
           /\ mem'.writable[v][b] <=> mem.writable[v][b]
           /\ Space(mem')[v][b] = Space(mem)[v][b]
  BY <1>2, <1>3 DEF Freed
<1>6. ASSUME NEW v \in Tasks
      PROVE  TaskOf(v)'
  <2>1. CASE v = t
    <3>1. pc'[t] = "zombie" /\ args'[t] = NoPage /\ task'[t] = task[t]
      BY <1>1 DEF Types
    <3>2. QED
      BY <1>1, <1>5, <2>1, <3>1 DEF TaskOf
  <2>2. CASE v # t
    <3>1. Idle(v)
      BY <1>1, <2>2 DEF Idle, Types
    <3>2. Keeps(mem, mem', v)
      BY <1>5, <2>2 DEF Keeps
    <3>3. QED
      BY <3>1, <3>2, OthersStay
  <2>3. QED
    BY <2>1, <2>2
<1>7. SpaceCleared(t)
  <2>1. \A b \in Addresses : Space(mem')[t][b] = 0
    <3>1. \A b \in Addresses : b[1] \in Dirs /\ mem'.dir[t][b[1]] = NoPage
      BY <1>5, Constants
    <3> DEFINE x == Outside'
               n == mem'
    <3>2. Sound(n, x) /\ \A b \in Addresses : n.dir[t][b[1]] = NoPage
      BY <1>2, <3>1
    <3> HIDE DEF x, n
    <3>3. \A b \in Addresses : Space(n)[t][b] = 0
      BY <3>2, NoTable
    <3>4. QED
      BY <3>3 DEF n
  <2>2. Space(mem')[t] = Nothing
    BY <2>1 DEF Nothing, Space
  <2>3. \A v \in Tasks \ {t} : Space(mem')[v] = Space(mem)[v]
    BY <1>5 DEF Space
  <2>4. /\ Space(mem') = [v \in Tasks |-> Space(mem')[v]]
        /\ Space(mem) = [v \in Tasks |-> Space(mem)[v]]
    BY DEF Space
  <2>5. Space(mem') = [Space(mem) EXCEPT ![t] = Nothing]
    BY <2>2, <2>3, <2>4
  <2>6. QED
    BY <2>5 DEF SpaceCleared
<1>8. QED
  BY <1>2, <1>4, <1>6, <1>7 DEF MemInv

(* The page of the arguments is not forgotten by exec alone.               *)
LEMMA LostArgs ==
  ASSUME MemInv, NEW t \in Tasks, args' = [args EXCEPT ![t] = NoPage],
         lost' = lost \cup ({args[t]} \cap Pages), UNCHANGED <<task, pipes>>
  PROVE  Outside' = Outside /\ lost' \in SUBSET Pages
<1> DEFINE o == Outside
           i == args[t]
           l == {i} \cap Pages
           ab == args'
           x == Held(task, ab, pipes, lost \cup l)
<1>1. /\ Types /\ Sound(mem, o) /\ o = Held(task, args, pipes, lost)
      /\ o \in [Pages -> Nat]
  BY Parts
<1>2. OneTask(args, ab, t, i, NoPage) /\ i \in Pages \cup {NoPage}
  BY <1>1 DEF OneTask, Types
<1>3. Outside' = x
  BY DEF Outside
<1>4. MayLose(o, i, l)
  BY DEF MayLose
<1> HIDE DEF o, ab, l, i
<1>5. Dropped(o, x, i, l)
  BY <1>1, <1>2, <1>4, DropArgs
<1>6. x = [p \in Pages |-> x[p]]
  BY DEF Held
<1> HIDE DEF x
<1>7. x = o
  BY <1>1, <1>5, <1>6 DEF l, Dropped
<1>8. lost' \in SUBSET Pages
  BY <1>1 DEF Types
<1>9. QED
  BY <1>3, <1>7, <1>8 DEF o

(* do_exit, of the task itself or from a fault.                            *)
LEMMA ExitStep ==
  ASSUME MemInv, NEW t \in Tasks, t # 0, pc[t] # "none", ExitWith(mem, t)
  PROVE  MemInv' /\ SpaceCleared(t)
<1>1. Sound(mem, Outside)
  BY Parts
<1>2. /\ mem' = free_page_tables(mem, t, limit[t])
      /\ pc' = [pc EXCEPT ![t] = "zombie"] /\ args' = [args EXCEPT ![t] = NoPage]
      /\ lost' = lost \cup ({args[t]} \cap Pages)
      /\ UNCHANGED <<task, place, limit, pipes, unverified>>
  BY DEF ExitWith
<1>3. Outside' = Outside /\ lost' \in SUBSET Pages
  BY <1>2, LostArgs
<1>4. QED
  BY <1>1, <1>2, <1>3, Leave

(* A task that does nothing but change its memory.                         *)
LEMMA OwnStep ==
  ASSUME MemInv, NEW t \in Tasks, UNCHANGED <<task, pc, place, limit, args, pipes, lost, unverified>>,
         Sound(mem', Outside), Space(mem') = Space(mem), pc[t] \notin {"none", "zombie"},
         \A v \in Tasks \ {t} : Keeps(mem, mem', v),
         \A e \in Dirs : mem'.dir[t][e] # NoPage => mem.dir[t][e] # NoPage \/ e < limit[t],
         \A b \in Addresses : \/ mem'.page[t][b] = NoPage
                              \/ mem'.writable[t][b]
                              \/ mem.page[t][b] # NoPage /\ ~mem.writable[t][b]
  PROVE  MemInv' /\ SpaceStays
<1>1. Types /\ \A v \in Tasks : TaskOf(v)
  BY Parts
<1>2. Outside' = Outside
  BY OutsideSame
<1>3. Types'
  BY <1>1 DEF Types
<1>4. ASSUME NEW v \in Tasks
      PROVE  TaskOf(v)'
  <2>1. CASE v = t
    <3>1. place[t] \in Addresses /\ TaskOf(t)
      BY <1>1 DEF Types
    <3>2. \A e \in Dirs : mem'.dir[t][e] # NoPage => e < limit[t]
      BY <3>1 DEF TaskOf
    <3>3. QED
      BY <2>1, <3>1, <3>2 DEF TaskOf
  <2>2. CASE v # t
    <3>1. Idle(v) /\ Keeps(mem, mem', v)
      BY <2>2 DEF Idle
    <3>2. QED
      BY <3>1, OthersStay
  <2>3. QED
    BY <2>1, <2>2
<1>5. QED
  BY <1>2, <1>3, <1>4 DEF MemInv, SpaceStays

(* do_no_page: a page is put where there is none, or the task has to leave.*)
LEMMA DoNoPageStep ==
  ASSUME MemInv, NEW t \in Tasks, NEW a \in Addresses, t # 0, pc[t] \notin {"none", "zombie"},
         DoNoPage(t, a)
  PROVE  MemInv' /\ (SpaceStays \/ SpaceCleared(t))
<1>1. /\ Types /\ Sound(mem, Outside) /\ mem \in Memories /\ Outside \in [Pages -> Nat]
      /\ Outside = Held(task, args, pipes, lost)
      /\ Within(t, a) /\ mem.page[t][a] = NoPage
  BY Parts DEF DoNoPage
<1>2. CASE Free(mem) = {}
  <2>1. ExitWith(mem, t)
    BY <1>2 DEF DoNoPage
  <2>2. QED
    BY <2>1, ExitStep
<1>3. CASE Free(mem) # {}
  <2> DEFINE f == FreePage(mem)
             n == get_free_page(mem)
             o == Outside
             x == [o EXCEPT ![f] = 1]
  <2>1. /\ f \in Pages /\ mem.map[f] = 0 /\ o[f] = 0
        /\ Sound(n, x) /\ Space(n) = Space(mem)
        /\ n.val = [mem.val EXCEPT ![f] = 0]
        /\ n.dir = mem.dir /\ n.page = mem.page /\ n.writable = mem.writable
    <3>1. Sound(mem, o)
      BY <1>1
    <3> HIDE DEF o
    <3>2. QED
      BY <1>3, <3>1, GetFreePage, ZenonT(60)
  <2>2. o \in [Pages -> Nat] /\ NoPage \notin Pages
    BY <1>1, Constants
  <2>3. x[f] # 0
    BY <2>1, <2>2
  <2>4. CASE CanPut(n, t, a)
    <3>1. mem' = put_page(n, t, a, f) /\ UNCHANGED <<task, pc, place, limit, args, pipes, lost, unverified>>
      BY <1>3, <2>4 DEF DoNoPage, Only
    <3> DEFINE k == mem'
               y == [q \in Pages |-> IF q = f THEN 0 ELSE IF q = n.page[t][a] THEN 1 ELSE x[q]]
    <3>2. n.page[t][a] \notin Pages
      BY <1>1, <2>1, <2>2
    <3>3. k = put_page(n, t, a, f)
      BY <3>1
    <3> HIDE DEF k, n, f, o, x
    <3>4. Sound(k, y) /\ Given(n, k, t, a, f)
      BY <2>1, <2>3, <2>4, <3>2, <3>3, PutPage
    <3>5. y = o
      <4>1. \A q \in Pages : y[q] = o[q]
        BY <2>1, <2>2, <3>2 DEF x
      <4>2. y = [q \in Pages |-> y[q]]
        OBVIOUS
      <4> HIDE DEF y
      <4>3. QED
        BY <2>2, <4>1, <4>2
    <3>6. n.val[f] = 0
      BY <1>1, <2>1 DEF Memories
    <3>7. Space(mem)[t][a] = 0
      BY <1>1 DEF Space
    <3>8. Space(k) = Space(mem)
      <4>1. \A v \in Tasks, b \in Addresses : Space(k)[v][b] = Space(mem)[v][b]
        BY <2>1, <3>4, <3>6, <3>7 DEF Given
      <4>2. QED
        BY <4>1 DEF Space
    <3>9. \A v \in Tasks \ {t} : Keeps(mem, k, v)
      BY <2>1, <3>4 DEF Given, Keeps
    <3>10. \A e \in Dirs : k.dir[t][e] # NoPage => mem.dir[t][e] # NoPage \/ e < limit[t]
      BY <1>1, <2>1, <3>4 DEF Given, Within
    <3>11. \A b \in Addresses : \/ k.page[t][b] = NoPage
                                \/ k.writable[t][b]
                                \/ mem.page[t][b] # NoPage /\ ~mem.writable[t][b]
      BY <2>1, <3>4 DEF Given
    <3>12. Sound(k, Outside)
      BY <3>4, <3>5 DEF o
    <3>13. QED
      BY <3>1, <3>8, <3>9, <3>10, <3>11, <3>12, OwnStep DEF k
  <2>5. CASE ~CanPut(n, t, a)
    <3>1. /\ mem' = free_page_tables(n, t, limit[t])
          /\ pc' = [pc EXCEPT ![t] = "zombie"] /\ args' = [args EXCEPT ![t] = NoPage]
          /\ lost' = lost \cup {f} \cup ({args[t]} \cap Pages)
          /\ UNCHANGED <<task, place, limit, pipes, unverified>>
      BY <1>3, <2>5 DEF DoNoPage
    <3> DEFINE i == args[t]
               l == {f} \cup ({i} \cap Pages)
               ab == args'
               y == Held(task, ab, pipes, lost \cup l)
    <3>2. OneTask(args, ab, t, i, NoPage) /\ i \in Pages \cup {NoPage}
      BY <1>1, <3>1 DEF OneTask, Types
    <3>3. Outside' = y
      <4>1. lost' = lost \cup l
        BY <3>1
      <4>2. QED
        BY <3>1, <4>1 DEF Outside
    <3>4. MayLose(o, i, l)
      BY <2>1 DEF MayLose
    <3>5. o = Held(task, args, pipes, lost) /\ Sound(mem, o)
      BY <1>1
    <3> HIDE DEF o, ab, l, i, f
    <3>6. Dropped(o, y, i, l)
      BY <3>2, <3>4, <3>5, DropArgs
    <3>7. y = [p \in Pages |-> y[p]]
      BY DEF Held
    <3> HIDE DEF y
    <3>8. \A p \in Pages : y[p] = x[p]
      BY <2>1, <2>2, <3>6 DEF l, Dropped
    <3>9. y = x
      BY <2>1, <2>2, <3>7, <3>8
    <3>10. lost' \in SUBSET Pages
      BY <1>1, <2>1, <3>1 DEF Types
    <3> HIDE DEF n, x
    <3>11. Sound(n, Outside')
      BY <2>1, <3>3, <3>9
    <3>12. pc[t] # "none"
      OBVIOUS
    <3>13. QED
      BY <2>1, <3>1, <3>10, <3>11, <3>12, Leave
  <2>6. QED
    BY <2>4, <2>5
<1>4. QED
  BY <1>2, <1>3

(* do_wp_page: the task gets a page of its own, or has to leave.           *)
LEMMA DoWpPageStep ==
  ASSUME MemInv, NEW t \in Tasks, NEW a \in Addresses, t # 0, pc[t] \notin {"none", "zombie"},
         DoWpPage(t, a)
  PROVE  MemInv' /\ (SpaceStays \/ SpaceCleared(t))
<1>1. Sound(mem, Outside) /\ mem.page[t][a] # NoPage /\ ~mem.writable[t][a]
  BY Parts DEF DoWpPage
<1>2. CASE Alone(mem, mem.page[t][a]) \/ Free(mem) # {}
  <2> DEFINE n == mem'
             o == Outside
  <2>1. n = un_wp_page(mem, t, a) /\ UNCHANGED <<task, pc, place, limit, args, pipes, lost, unverified>>
    BY <1>2 DEF DoWpPage, Only
  <2> HIDE DEF n, o
  <2>2. Sound(n, o) /\ Unshared(mem, n, t, a)
    BY <1>1, <1>2, <2>1, UnWp DEF o
  <2>3. /\ Space(n) = Space(mem)
        /\ \A v \in Tasks \ {t} : Keeps(mem, n, v)
        /\ \A e \in Dirs : n.dir[t][e] # NoPage => mem.dir[t][e] # NoPage \/ e < limit[t]
        /\ \A b \in Addresses : \/ n.page[t][b] = NoPage
                                \/ n.writable[t][b]
                                \/ mem.page[t][b] # NoPage /\ ~mem.writable[t][b]
    BY <2>2 DEF Unshared, Keeps
  <2>4. QED
    BY <2>1, <2>2, <2>3, OwnStep DEF n, o
<1>3. CASE ~(Alone(mem, mem.page[t][a]) \/ Free(mem) # {})
  <2>1. ExitWith(mem, t)
    BY <1>3 DEF DoWpPage
  <2>2. QED
    BY <2>1, ExitStep
<1>4. QED
  BY <1>2, <1>3

(* A task touches its memory.                                              *)
LEMMA TouchStep ==
  ASSUME MemInv, NEW t \in Tasks, NEW a \in Addresses, Touch(t, a)
  PROVE  MemInv' /\ (SpaceStays \/ SpaceCleared(t))
<1>1. t # 0 /\ pc[t] \notin {"none", "zombie"} /\ (DoNoPage(t, a) \/ DoWpPage(t, a))
  BY DEF Touch
<1>2. QED
  BY <1>1, DoNoPageStep, DoWpPageStep

(* verify_area and write_verify: the place is not shared from then on.     *)
LEMMA VerifyStep ==
  ASSUME MemInv, NEW t \in Tasks, NEW a \in Addresses, Verify(t, a)
  PROVE  MemInv' /\ (SpaceStays \/ SpaceCleared(t))
<1>1. /\ Types /\ Sound(mem, Outside) /\ \A v \in Tasks : TaskOf(v)
      /\ t # 0 /\ pc[t] = "user"
  BY Parts DEF Verify
<1>2. CASE write_verify(t, a) /\ ~Alone(mem, mem.page[t][a]) /\ Free(mem) = {}
  <2>1. ExitWith(mem, t) /\ pc[t] # "none"
    BY <1>1, <1>2 DEF Verify
  <2>2. QED
    BY <1>1, <2>1, ExitStep
<1>3. CASE ~(write_verify(t, a) /\ ~Alone(mem, mem.page[t][a]) /\ Free(mem) = {})
  <2> DEFINE n == mem'
             o == Outside
  <2>1. /\ n = IF write_verify(t, a) THEN un_wp_page(mem, t, a) ELSE mem
        /\ pc' = [pc EXCEPT ![t] = "put"] /\ place' = [place EXCEPT ![t] = a]
        /\ UNCHANGED <<task, limit, args, pipes, lost, unverified>>
    BY <1>3 DEF Verify
  <2> HIDE DEF n, o
  <2>2. /\ Sound(n, o) /\ Space(n) = Space(mem)
        /\ \A v \in Tasks : Keeps(mem, n, v)
        /\ n.page[t][a] = NoPage \/ n.writable[t][a]
    <3>1. CASE write_verify(t, a)
      <4>1. mem.page[t][a] # NoPage /\ ~mem.writable[t][a]
        BY <3>1 DEF write_verify
      <4>2. Sound(n, o) /\ Unshared(mem, n, t, a)
        BY <1>1, <1>3, <2>1, <3>1, <4>1, UnWp DEF o
      <4>3. QED
        BY <4>2 DEF Unshared, Keeps
    <3>2. CASE ~write_verify(t, a)
      BY <1>1, <2>1, <3>2 DEF write_verify, Keeps, o
    <3>3. QED
      BY <3>1, <3>2
  <2>3. Outside' = Outside
    BY <2>1, OutsideSame
  <2>4. Types'
    BY <1>1, <2>1 DEF Types
  <2>5. ASSUME NEW v \in Tasks
        PROVE  TaskOf(v)'
    <3>1. CASE v = t
      <4>1. /\ pc'[t] = "put" /\ place'[t] = a /\ args'[t] = args[t] /\ task'[t] = task[t]
            /\ limit'[t] = limit[t]
        BY <1>1, <2>1 DEF Types
      <4>2. args[t] = NoPage /\ task[t] # NoPage /\ task[t] # Low
        BY <1>1 DEF TaskOf
      <4>3. \A e \in Dirs : n.dir[t][e] # NoPage => e < limit[t]
        BY <1>1, <2>2 DEF TaskOf, Keeps
      <4>4. QED
        BY <1>1, <2>2, <3>1, <4>1, <4>2, <4>3 DEF TaskOf, n
    <3>2. CASE v # t
      <4>1. Idle(v) /\ Keeps(mem, mem', v)
        BY <1>1, <2>1, <2>2, <3>2 DEF Idle, Types, n
      <4>2. QED
        BY <4>1, OthersStay
    <3>3. QED
      BY <3>1, <3>2
  <2>6. MemInv' /\ SpaceStays
    BY <2>1, <2>2, <2>3, <2>4, <2>5 DEF MemInv, SpaceStays, n, o
  <2>7. QED
    BY <2>6
<1>4. QED
  BY <1>2, <1>3

(* Every place looks the same, but one.                                    *)
OnlyAt(m, n, t, a, w) ==
  \A v \in Tasks, b \in Addresses :
    Space(n)[v][b] = IF v = t /\ b = a THEN w ELSE Space(m)[v][b]

(* Then memories are the same but for that.                                *)
LEMMA OnePlace ==
  ASSUME NEW m, NEW n, NEW t \in Tasks, NEW a \in Addresses, NEW w, OnlyAt(m, n, t, a, w)
  PROVE  Space(n) = [Space(m) EXCEPT ![t][a] = w]
<1> DEFINE S == Space(m)
           N == Space(n)
           R == [S[t] EXCEPT ![a] = w]
<1>1. /\ S = [v \in Tasks |-> S[v]] /\ N = [v \in Tasks |-> N[v]]
      /\ \A v \in Tasks : /\ S[v] = [b \in Addresses |-> S[v][b]]
                          /\ N[v] = [b \in Addresses |-> N[v][b]]
  BY DEF Space
<1> HIDE DEF S, N
<1>2. N[t] = R
  <2>1. R = [b \in Addresses |-> IF b = a THEN w ELSE S[t][b]]
    BY <1>1
  <2>2. \A b \in Addresses : N[t][b] = IF b = a THEN w ELSE S[t][b]
    BY DEF N, S, OnlyAt
  <2> HIDE DEF R
  <2>3. QED
    BY <1>1, <2>1, <2>2
<1>3. \A v \in Tasks \ {t} : N[v] = S[v]
  <2>1. \A v \in Tasks \ {t}, b \in Addresses : N[v][b] = S[v][b]
    BY DEF N, S, OnlyAt
  <2>2. QED
    BY <1>1, <2>1
<1> HIDE DEF R
<1>4. N = [S EXCEPT ![t] = R]
  BY <1>1, <1>2, <1>3
<1>5. QED
  BY <1>4 DEF N, S, R

(* What a task stores where it may write is seen by itself alone.          *)
LEMMA StoreAlone ==
  ASSUME MemInv, NEW t \in Tasks, NEW a \in Addresses, t # 0, mem.writable[t][a],
         NEW w \in Values, mem' = [mem EXCEPT !.val[mem.page[t][a]] = w]
  PROVE  /\ Sound(mem', Outside)
         /\ mem'.dir = mem.dir /\ mem'.page = mem.page /\ mem'.writable = mem.writable
         /\ Space(mem') = [Space(mem) EXCEPT ![t][a] = w]
<1> DEFINE n == mem'
           o == Outside
           q == mem.page[t][a]
<1>1. Sound(mem, o)
  BY Parts
<1>2. q \in Pages /\ mem.map[q] = 1
  BY <1>1 DEF Sound, Writable
<1>3. \A v \in Tasks, b \in Addresses : mem.page[v][b] = q <=> v = t /\ b = a
  BY <1>1, <1>2, Alones
<1>4. n = [mem EXCEPT !.val[q] = w]
  OBVIOUS
<1> HIDE DEF n, o, q
<1>5. Sound(n, o) /\ Stored(mem, n, q, w)
  BY <1>1, <1>2, <1>4, PutVal
<1>6. OnlyAt(mem, n, t, a, w)
  BY <1>3, <1>5 DEF Stored, OnlyAt
<1>7. Space(n) = [Space(mem) EXCEPT ![t][a] = w]
  BY <1>6, OnePlace
<1>8. QED
  BY <1>5, <1>7 DEF Stored, n, o

(* A task stores where it may write.                                       *)
LEMMA StoreStep ==
  ASSUME MemInv, NEW t \in Tasks, NEW a \in Addresses, t # 0, mem.writable[t][a],
         NEW w \in Values, Put(t, a, w)
  PROVE  MemInv' /\ SpaceStored(t, a, w)
<1>1. /\ mem' = [mem EXCEPT !.val[mem.page[t][a]] = w]
      /\ UNCHANGED <<task, pc, place, limit, args, pipes, lost, unverified>>
  BY DEF Put, Only
<1>2. /\ Sound(mem', Outside)
      /\ mem'.dir = mem.dir /\ mem'.page = mem.page /\ mem'.writable = mem.writable
      /\ Space(mem') = [Space(mem) EXCEPT ![t][a] = w]
  BY <1>1, StoreAlone
<1>3. Types /\ Outside' = Outside
  BY <1>1, Parts, OutsideSame
<1>4. Types'
  BY <1>1, <1>3 DEF Types
<1>5. ASSUME NEW v \in Tasks
      PROVE  TaskOf(v)'
  <2>1. Idle(v) /\ Keeps(mem, mem', v)
    BY <1>1, <1>2 DEF Idle, Keeps
  <2>2. QED
    BY <2>1, OthersStay
<1>6. QED
  BY <1>1, <1>2, <1>3, <1>4, <1>5 DEF MemInv, SpaceStored

(* put_fs_byte after verify_area: the place is still the task's own.       *)
LEMMA PutVerifiedStep ==
  ASSUME MemInv, NEW t \in Tasks, NEW a \in Addresses, PutVerified(t, a)
  PROVE  MemInv' /\ (SpaceStays \/ SpaceCleared(t) \/ \E w \in Values : SpaceStored(t, a, w))
<1>1. Types /\ TaskOf(t) /\ pc[t] = "put" /\ place[t] = a /\ t # 0
  BY Parts DEF PutVerified, TaskOf
<1>2. CASE DoNoPage(t, a)
  <2>1. pc[t] \notin {"none", "zombie"}
    BY <1>1
  <2>2. QED
    BY <1>1, <1>2, <2>1, DoNoPageStep
<1>3. ASSUME mem.page[t][a] # NoPage, NEW w \in Values,
             mem' = [mem EXCEPT !.val[mem.page[t][a]] = w],
             pc' = [pc EXCEPT ![t] = "user"], place' = [place EXCEPT ![t] = Top],
             UNCHANGED <<task, limit, args, pipes, lost, unverified>>
      PROVE  MemInv' /\ SpaceStored(t, a, w)
  <2>1. mem.writable[t][a]
    BY <1>1, <1>3 DEF TaskOf
  <2>2. /\ Sound(mem', Outside)
        /\ mem'.dir = mem.dir /\ mem'.page = mem.page /\ mem'.writable = mem.writable
        /\ Space(mem') = [Space(mem) EXCEPT ![t][a] = w]
    BY <1>1, <1>3, <2>1, StoreAlone
  <2>3. Outside' = Outside
    BY <1>3, OutsideSame
  <2>4. Types'
    BY <1>1, <1>3, Constants DEF Types
  <2>5. ASSUME NEW v \in Tasks
        PROVE  TaskOf(v)'
    <3>1. CASE v = t
      <4>1. /\ pc'[t] = "user" /\ args'[t] = args[t] /\ task'[t] = task[t] /\ limit'[t] = limit[t]
        BY <1>1, <1>3 DEF Types
      <4>2. QED
        BY <1>1, <2>2, <3>1, <4>1 DEF TaskOf
    <3>2. CASE v # t
      <4>1. Idle(v) /\ Keeps(mem, mem', v)
        BY <1>1, <1>3, <2>2, <3>2 DEF Idle, Keeps, Types
      <4>2. QED
        BY <4>1, OthersStay
    <3>3. QED
      BY <3>1, <3>2
  <2>6. QED
    BY <1>3, <2>2, <2>3, <2>4, <2>5 DEF MemInv, SpaceStored
<1>4. QED
  BY <1>2, <1>3 DEF PutVerified

(* What the kernel stores without verify_area is seen by the task, and by  *)
(* tasks that share the page, which saw the same there.                    *)
SpaceUnverified(t, a, w) ==
  /\ unverified' = unverified + 1
  /\ \E others \in SUBSET {u \in Tasks : Space(mem)[u][a] = Space(mem)[t][a]} :
       Space(mem') = [u \in Tasks |-> IF u = t \/ u \in others
                                        THEN [Space(mem)[u] EXCEPT ![a] = w]
                                        ELSE Space(mem)[u]]

(* sys_pipe stores the descriptors.                                        *)
LEMMA PutUnverifiedStep ==
  ASSUME MemInv, NEW t \in Tasks, NEW a \in Addresses, NEW w \in Values, PutUnverified(t, a, w)
  PROVE  MemInv' /\ SpaceUnverified(t, a, w)
<1> DEFINE n == mem'
           o == Outside
           q == mem.page[t][a]
           others == {u \in Tasks : mem.page[u][a] = q}
<1>1. /\ n = [mem EXCEPT !.val[q] = w] /\ q \in Pages /\ unverified' = unverified + 1
      /\ UNCHANGED <<task, pc, place, limit, args, pipes, lost>>
  BY DEF PutUnverified
<1>2. Types /\ Sound(mem, o) /\ Outside' = o
  BY <1>1, Parts, OutsideSame
<1>3. Types'
  BY <1>1, <1>2 DEF Types
<1> HIDE DEF n, o, q
<1>4. Sound(n, o) /\ Stored(mem, n, q, w)
  BY <1>1, <1>2, PutVal
<1>5. ASSUME NEW v \in Tasks
      PROVE  TaskOf(v)'
  <2>1. Idle(v) /\ Keeps(mem, mem', v)
    BY <1>1, <1>4 DEF Idle, Keeps, Stored, n
  <2>2. QED
    BY <2>1, OthersStay
<1>6. \A u \in Tasks, b \in Addresses : mem.page[u][b] = q => b = a
  BY <1>1, <1>2 DEF Sound, SamePlace, q
<1>7. q # NoPage
  BY <1>1, Constants
<1>8. others \in SUBSET {u \in Tasks : Space(mem)[u][a] = Space(mem)[t][a]}
  BY <1>7 DEF Space, q
<1>9. ASSUME NEW u \in Tasks
      PROVE  Space(n)[u] = IF u = t \/ u \in others
                             THEN [Space(mem)[u] EXCEPT ![a] = w] ELSE Space(mem)[u]
  <2> DEFINE S == Space(mem)[u]
             N == Space(n)[u]
  <2>1. S = [b \in Addresses |-> S[b]] /\ N = [b \in Addresses |-> N[b]]
    BY DEF Space
  <2>2. \A b \in Addresses : N[b] = IF mem.page[u][b] = q THEN w ELSE S[b]
    BY <1>4 DEF Stored
  <2>3. (u = t \/ u \in others) <=> mem.page[u][a] = q
    BY DEF q
  <2>4. \A b \in Addresses : N[b] = IF b = a /\ mem.page[u][a] = q THEN w ELSE S[b]
    BY <1>6, <2>2
  <2> HIDE DEF S, N
  <2>5. CASE mem.page[u][a] = q
    <3>1. N = [S EXCEPT ![a] = w]
      BY <2>1, <2>4, <2>5
    <3>2. QED
      BY <2>3, <2>5, <3>1 DEF N, S
  <2>6. CASE mem.page[u][a] # q
    <3>1. N = S
      BY <2>1, <2>4, <2>6
    <3>2. QED
      BY <2>3, <2>6, <3>1 DEF N, S
  <2>7. QED
    BY <2>5, <2>6
<1>10. Space(n) = [u \in Tasks |-> IF u = t \/ u \in others
                                     THEN [Space(mem)[u] EXCEPT ![a] = w] ELSE Space(mem)[u]]
  <2>1. Space(n) = [u \in Tasks |-> Space(n)[u]]
    BY DEF Space
  <2> HIDE DEF others
  <2>2. QED
    BY <1>9, <2>1
<1> HIDE DEF others
<1>11. SpaceUnverified(t, a, w)
  BY <1>1, <1>8, <1>10 DEF SpaceUnverified, n
<1>12. QED
  BY <1>2, <1>3, <1>4, <1>5, <1>11 DEF MemInv, n, o

(* A section of a program is loaded.                                       *)
LEMMA ExecLoadStep ==
  ASSUME MemInv, NEW t \in Tasks, NEW a \in Addresses, NEW w \in Values, ExecLoad(t, a, w)
  PROVE  MemInv' /\ (SpaceStays \/ SpaceCleared(t) \/ SpaceStored(t, a, w))
<1>1. TaskOf(t) /\ pc[t] = "load" /\ t # 0
  BY Parts DEF ExecLoad, TaskOf
<1>2. CASE DoNoPage(t, a)
  <2>1. pc[t] \notin {"none", "zombie"}
    BY <1>1
  <2>2. QED
    BY <1>1, <1>2, <2>1, DoNoPageStep
<1>3. CASE mem.page[t][a] # NoPage /\ Put(t, a, w)
  <2>1. mem.writable[t][a]
    BY <1>1, <1>3 DEF TaskOf
  <2>2. QED
    BY <1>1, <1>3, <2>1, StoreStep
<1>4. QED
  BY <1>2, <1>3 DEF ExecLoad

(* create_tables: the top of the stack is there when it ends.              *)
LEMMA CreateTablesStep ==
  ASSUME MemInv, NEW t \in Tasks, CreateTables(t)
  PROVE  MemInv' /\ (SpaceStays \/ SpaceCleared(t))
<1>1. /\ Types /\ Sound(mem, Outside) /\ TaskOf(t)
      /\ pc[t] = "tables" /\ t # 0 /\ Top \in Addresses
  BY Parts, Constants DEF CreateTables, TaskOf
<1>2. CASE DoNoPage(t, Top)
  <2>1. pc[t] \notin {"none", "zombie"}
    BY <1>1
  <2>2. QED
    BY <1>1, <1>2, <2>1, DoNoPageStep
<1>3. CASE /\ pc' = [pc EXCEPT ![t] = "user"]
           /\ UNCHANGED <<mem, task, place, limit, args, pipes, lost, unverified>>
  <2>1. Outside' = Outside
    BY <1>3, OutsideSame
  <2>2. Types'
    BY <1>1, <1>3 DEF Types
  <2>3. ASSUME NEW v \in Tasks
        PROVE  TaskOf(v)'
    <3>1. CASE v = t
      <4>1. pc'[t] = "user"
        BY <1>1, <1>3 DEF Types
      <4>2. QED
        BY <1>1, <1>3, <3>1, <4>1 DEF TaskOf
    <3>2. CASE v # t
      <4>1. Idle(v) /\ Keeps(mem, mem', v)
        BY <1>1, <1>3, <3>2 DEF Idle, Keeps, Types
      <4>2. QED
        BY <4>1, OthersStay
    <3>3. QED
      BY <3>1, <3>2
  <2>4. QED
    BY <1>1, <1>3, <2>1, <2>2, <2>3 DEF MemInv, SpaceStays
<1>4. QED
  BY <1>2, <1>3 DEF CreateTables

(* A file that is not what it should be.                                   *)
LEMMA ExecFailStep ==
  ASSUME MemInv, NEW t \in Tasks, ExecFail(t)
  PROVE  MemInv' /\ SpaceStays
<1>1. Types /\ Sound(mem, Outside) /\ TaskOf(t) /\ pc[t] = "load" /\ t # 0
  BY Parts DEF ExecFail, TaskOf
<1>2. /\ pc' = [pc EXCEPT ![t] = "user"] /\ args' = [args EXCEPT ![t] = NoPage]
      /\ lost' = lost \cup ({args[t]} \cap Pages)
      /\ UNCHANGED <<mem, task, place, limit, pipes, unverified>>
  BY DEF ExecFail
<1>3. Outside' = Outside /\ lost' \in SUBSET Pages
  BY <1>2, LostArgs
<1>4. Types'
  BY <1>1, <1>2, <1>3 DEF Types
<1>5. ASSUME NEW v \in Tasks
      PROVE  TaskOf(v)'
  <2>1. CASE v = t
    <3>1. pc'[t] = "user" /\ args'[t] = NoPage
      BY <1>1, <1>2 DEF Types
    <3>2. QED
      BY <1>1, <1>2, <2>1, <3>1 DEF TaskOf
  <2>2. CASE v # t
    <3>1. Idle(v) /\ Keeps(mem, mem', v)
      BY <1>1, <1>2, <2>2 DEF Idle, Keeps, Types
    <3>2. QED
      BY <3>1, OthersStay
  <2>3. QED
    BY <2>1, <2>2
<1>6. QED
  BY <1>1, <1>2, <1>3, <1>4, <1>5 DEF MemInv, SpaceStays

(* The point of no return.                                                 *)
LEMMA ExecFreeStep ==
  ASSUME MemInv, NEW t \in Tasks, ExecFree(t)
  PROVE  MemInv' /\ SpaceCleared(t)
<1> DEFINE n == mem'
           o == Outside
<1>1. /\ Types /\ Sound(mem, o) /\ TaskOf(t) /\ pc[t] = "exec" /\ t # 0
  BY Parts DEF ExecFree, TaskOf
<1>2. /\ n = free_page_tables(mem, t, limit[t]) /\ pc' = [pc EXCEPT ![t] = "load"]
      /\ UNCHANGED <<task, place, limit, args, pipes, lost, unverified>>
  BY DEF ExecFree
<1>3. Outside' = o
  BY <1>2, OutsideSame
<1> HIDE DEF n, o
<1>4. Sound(n, o) /\ Freed(mem, n, t, limit[t])
  <2>1. limit[t] \in 0..DIRS
    BY <1>1, Constants DEF Types
  <2>2. QED
    BY <1>1, <1>2, <2>1, FreeTables
<1>5. /\ \A e \in Dirs : n.dir[t][e] = NoPage
      /\ \A v \in Tasks \ {t} : Keeps(mem, n, v)
      /\ \A v \in Tasks \ {t}, b \in Addresses : Space(n)[v][b] = Space(mem)[v][b]
  BY <1>1, <1>4 DEF Freed, Keeps, TaskOf
<1>6. \A b \in Addresses : Space(n)[t][b] = 0 /\ n.page[t][b] = NoPage
  <2>1. \A b \in Addresses : n.dir[t][b[1]] = NoPage
    BY <1>5, Constants
  <2>2. QED
    BY <1>4, <2>1, NoTable
<1>7. Types'
  BY <1>1, <1>2 DEF Types
<1>8. ASSUME NEW v \in Tasks
      PROVE  TaskOf(v)'
  <2>1. CASE v = t
    <3>1. pc'[t] = "load"
      BY <1>1, <1>2 DEF Types
    <3>2. QED
      BY <1>1, <1>2, <1>5, <1>6, <2>1, <3>1 DEF TaskOf, n
  <2>2. CASE v # t
    <3>1. Idle(v) /\ Keeps(mem, mem', v)
      BY <1>1, <1>2, <1>5, <2>2 DEF Idle, Types, n
    <3>2. QED
      BY <3>1, OthersStay
  <2>3. QED
    BY <2>1, <2>2
<1>9. Space(n) = [Space(mem) EXCEPT ![t] = Nothing]
  <2>1. Space(n)[t] = Nothing
    BY <1>6 DEF Nothing, Space
  <2>2. \A v \in Tasks \ {t} : Space(n)[v] = Space(mem)[v]
    BY <1>5 DEF Space
  <2>3. /\ Space(n) = [v \in Tasks |-> Space(n)[v]]
        /\ Space(mem) = [v \in Tasks |-> Space(mem)[v]]
    BY DEF Space
  <2>4. QED
    BY <2>1, <2>2, <2>3
<1>10. QED
  BY <1>2, <1>3, <1>4, <1>7, <1>8, <1>9 DEF MemInv, SpaceCleared, n, o

(* copy_strings: exec holds a page with the arguments.                     *)
LEMMA ExecArgsStep ==
  ASSUME MemInv, NEW t \in Tasks, ExecArgs(t)
  PROVE  MemInv' /\ SpaceStays
<1> DEFINE o == Outside
           f == FreePage(mem)
           k == get_free_page(mem)
           n == mem'
           x == [o EXCEPT ![f] = 1]
           ab == args'
<1>1. /\ Types /\ Sound(mem, o) /\ TaskOf(t) /\ pc[t] = "user" /\ t # 0
      /\ o = Held(task, args, pipes, lost) /\ args[t] = NoPage
  BY Parts DEF ExecArgs, TaskOf
<1>2. /\ pc' = [pc EXCEPT ![t] = "exec"]
      /\ UNCHANGED <<task, place, limit, pipes, lost, unverified>>
  BY DEF ExecArgs
<1>3. ASSUME Sound(mem', Outside'), Space(mem') = Space(mem), args' \in [Tasks -> Pages \cup {NoPage}],
             \A v \in Tasks \ {t} : args'[v] = args[v],
             mem'.dir = mem.dir, mem'.page = mem.page, mem'.writable = mem.writable
      PROVE  MemInv' /\ SpaceStays
  <2>1. Types'
    BY <1>1, <1>2, <1>3 DEF Types
  <2>2. ASSUME NEW v \in Tasks
        PROVE  TaskOf(v)'
    <3>1. CASE v = t
      <4>1. pc'[t] = "exec"
        BY <1>1, <1>2 DEF Types
      <4>2. QED
        BY <1>1, <1>2, <1>3, <3>1, <4>1 DEF TaskOf
    <3>2. CASE v # t
      <4>1. Idle(v) /\ Keeps(mem, mem', v)
        BY <1>1, <1>2, <1>3, <3>2 DEF Idle, Keeps, Types
      <4>2. QED
        BY <4>1, OthersStay
    <3>3. QED
      BY <3>1, <3>2
  <2>3. QED
    BY <1>2, <1>3, <2>1, <2>2 DEF MemInv, SpaceStays
<1>4. CASE UNCHANGED <<mem, args>>
  <2>1. Outside' = Outside
    BY <1>2, <1>4, OutsideSame
  <2>2. Sound(mem', Outside')
    BY <1>1, <1>4, <2>1
  <2>3. args' \in [Tasks -> Pages \cup {NoPage}]
    BY <1>1, <1>4 DEF Types
  <2>4. QED
    BY <1>3, <1>4, <2>2, <2>3
<1>5. ASSUME Free(mem) # {}, NEW w \in Values, n = [k EXCEPT !.val[f] = w],
             args' = [args EXCEPT ![t] = f]
      PROVE  MemInv' /\ SpaceStays
  <2>1. OneTask(args, ab, t, NoPage, f)
    BY <1>1, <1>5 DEF OneTask, Types
  <2>2. Outside' = Held(task, ab, pipes, lost)
    BY <1>2 DEF Outside
  <2> HIDE DEF o, k, n, ab
  <2>3. /\ f \in Pages /\ mem.map[f] = 0 /\ o[f] = 0
        /\ Sound(k, x) /\ Space(k) = Space(mem)
        /\ k.dir = mem.dir /\ k.page = mem.page /\ k.writable = mem.writable
    <3>1. k = get_free_page(mem)
      BY DEF k
    <3>2. QED
      BY <1>1, <1>5, <3>1, GetFreePage, ZenonT(60)
  <2> HIDE DEF f
  <2>4. Held(task, ab, pipes, lost) = x
    BY <1>1, <2>1, <2>3, HoldArgs
  <2> HIDE DEF x
  <2>5. Sound(n, x) /\ Stored(k, n, f, w)
    BY <1>5, <2>3, PutVal
  <2>6. \A v \in Tasks, b \in Addresses : mem.page[v][b] # f
    BY <1>1, <2>3, Alones
  <2>7. Space(n) = Space(mem)
    <3>1. \A v \in Tasks, b \in Addresses : Space(n)[v][b] = Space(mem)[v][b]
      BY <2>3, <2>5, <2>6 DEF Stored
    <3>2. QED
      BY <3>1 DEF Space
  <2>8. args' \in [Tasks -> Pages \cup {NoPage}] /\ \A v \in Tasks \ {t} : args'[v] = args[v]
    BY <1>1, <1>5, <2>3 DEF Types
  <2>9. n.dir = mem.dir /\ n.page = mem.page /\ n.writable = mem.writable
    BY <2>3, <2>5 DEF Stored
  <2>10. QED
    BY <1>3, <2>2, <2>4, <2>5, <2>7, <2>8, <2>9 DEF n
<1>6. QED
  BY <1>4, <1>5 DEF ExecArgs

(* The memory of one task has changed at one place.                        *)
LEMMA StoredThere ==
  ASSUME NEW t \in Tasks, NEW a \in Addresses, NEW w, OnlyAt(mem, mem', t, a, w),
         unverified' = unverified
  PROVE  SpaceStored(t, a, w)
<1> DEFINE n == mem'
<1>1. OnlyAt(mem, n, t, a, w)
  OBVIOUS
<1> HIDE DEF n
<1>2. Space(n) = [Space(mem) EXCEPT ![t][a] = w]
  BY <1>1, OnePlace
<1>3. QED
  BY <1>2 DEF SpaceStored, n

(* change_ldt: the arguments are put at the top of the new memory.         *)
LEMMA ExecDoneStep ==
  ASSUME MemInv, NEW t \in Tasks, ExecDone(t)
  PROVE  MemInv' /\ (SpaceStays \/ \E w \in Values : SpaceStored(t, Top, w))
<1> DEFINE o == Outside
           n == mem'
           p == args[t]
           old == mem.page[t][Top]
           l == {old} \cap Pages
           ab == args'
<1>1. /\ Types /\ Sound(mem, o) /\ TaskOf(t) /\ pc[t] = "load" /\ t # 0
      /\ o = Held(task, args, pipes, lost) /\ o \in [Pages -> Nat] /\ mem \in Memories
  BY Parts DEF ExecDone, TaskOf
<1>2. /\ limit' = [limit EXCEPT ![t] = DIRS] /\ args' = [args EXCEPT ![t] = NoPage]
      /\ pc' = [pc EXCEPT ![t] = "tables"] /\ UNCHANGED <<task, place, pipes, unverified>>
  BY DEF ExecDone
<1>3. Top \in Addresses /\ NoPage \notin Pages /\ Dirs = 0..(DIRS - 1) /\ DIRS \in Nat \ {0}
  BY Constants DEF Dirs
<1>4. ASSUME Sound(mem', Outside'), lost' \in SUBSET Pages, \A v \in Tasks \ {t} : Keeps(mem, mem', v)
      PROVE  MemInv'
  <2>1. Types'
    BY <1>1, <1>2, <1>3, <1>4 DEF Types
  <2>2. ASSUME NEW v \in Tasks
        PROVE  TaskOf(v)'
    <3>1. CASE v = t
      <4>1. pc'[t] = "tables" /\ limit'[t] = DIRS /\ args'[t] = NoPage
        BY <1>1, <1>2 DEF Types
      <4>2. \A e \in Dirs : e < DIRS
        BY <1>3
      <4>3. QED
        BY <1>1, <1>2, <3>1, <4>1, <4>2 DEF TaskOf
    <3>2. CASE v # t
      <4>1. Idle(v) /\ Keeps(mem, mem', v)
        BY <1>1, <1>2, <1>4, <3>2 DEF Idle, Types
      <4>2. QED
        BY <4>1, OthersStay
    <3>3. QED
      BY <3>1, <3>2
  <2>3. QED
    BY <1>4, <2>1, <2>2 DEF MemInv
<1>5. CASE p # NoPage /\ CanPut(mem, t, Top)
  <2>1. n = put_page(mem, t, Top, p) /\ lost' = lost \cup l
    BY <1>5 DEF ExecDone
  <2>2. p \in Pages
    BY <1>1, <1>5 DEF Types
  <2>3. old \in Pages => mem.map[old] = 1
    <3>1. old # NoPage => mem.writable[t][Top]
      BY <1>1, <1>3 DEF TaskOf
    <3>2. QED
      BY <1>1, <1>3, <3>1 DEF Sound, Writable
  <2>4. old \in Pages => o[old] = 0
    BY <1>1, <1>3, <2>3, Alones
  <2>5. OneTask(args, ab, t, p, NoPage) /\ Outside' = Held(task, ab, pipes, lost \cup l)
    BY <1>1, <1>2, <2>1 DEF OneTask, Types, Outside
  <2>6. MayLose(o, p, l)
    BY <2>4 DEF MayLose
  <2> DEFINE y == Held(task, ab, pipes, lost \cup l)
             x == [q \in Pages |-> IF q = p THEN 0 ELSE IF q = old THEN 1 ELSE o[q]]
  <2>7. lost' \in SUBSET Pages
    BY <1>1, <2>1 DEF Types
  <2> HIDE DEF o, n, p, ab, l
  <2>8. Dropped(o, y, p, l)
    BY <1>1, <2>2, <2>5, <2>6, DropArgs
  <2>9. o[p] = 1
    BY <2>2, <2>8 DEF Dropped
  <2>10. Sound(n, x) /\ Given(mem, n, t, Top, p)
    BY <1>1, <1>3, <1>5, <2>1, <2>2, <2>3, <2>9, PutPage
  <2> HIDE DEF old
  <2>11. y = x
    <3>1. \A q \in Pages : y[q] = x[q]
      BY <2>4, <2>8, <2>9 DEF Dropped, l
    <3>2. y = [q \in Pages |-> y[q]] /\ x = [q \in Pages |-> x[q]]
      BY DEF Held
    <3> HIDE DEF x, y
    <3>3. QED
      BY <3>1, <3>2
  <2>12. \A v \in Tasks \ {t} : Keeps(mem, n, v)
    BY <2>10 DEF Given, Keeps
  <2> HIDE DEF x, y
  <2>13. Sound(n, Outside')
    BY <2>5, <2>10, <2>11 DEF y
  <2>14. MemInv'
    BY <1>4, <2>7, <2>12, <2>13 DEF n
  <2>15. mem.val[p] \in Values
    BY <1>1, <2>2 DEF Memories
  <2>16. SpaceStored(t, Top, mem.val[p])
    <3> DEFINE w == mem.val[p]
    <3>1. OnlyAt(mem, n, t, Top, w)
      BY <2>10 DEF Given, OnlyAt
    <3>2. OnlyAt(mem, mem', t, Top, w) /\ unverified' = unverified
      BY <1>2, <3>1 DEF n
    <3> HIDE DEF w
    <3>3. SpaceStored(t, Top, w)
      BY <1>3, <3>2, StoredThere
    <3>4. QED
      BY <3>3 DEF w
  <2>17. QED
    BY <2>14, <2>15, <2>16
<1>6. CASE ~(p # NoPage /\ CanPut(mem, t, Top))
  <2>1. mem' = mem /\ lost' = lost \cup ({args[t]} \cap Pages)
    BY <1>6 DEF ExecDone
  <2>2. Outside' = Outside /\ lost' \in SUBSET Pages
    BY <1>2, <2>1, LostArgs
  <2>3. \A v \in Tasks \ {t} : Keeps(mem, mem', v)
    BY <2>1 DEF Keeps
  <2>4. MemInv'
    BY <1>1, <1>4, <2>1, <2>2, <2>3
  <2>5. QED
    BY <1>2, <2>1, <2>4 DEF SpaceStays
<1>7. QED
  BY <1>5, <1>6

(* release: the page of the task structure is given back.                  *)
LEMMA ReleaseStep ==
  ASSUME MemInv, NEW t \in Tasks, Release(t)
  PROVE  MemInv' /\ SpaceStays
<1> DEFINE o == Outside
           n == mem'
           p == task[t]
           tb == task'
           x == [o EXCEPT ![p] = @ - 1]
<1>1. /\ Types /\ Sound(mem, o) /\ TaskOf(t) /\ pc[t] = "zombie"
      /\ o = Held(task, args, pipes, lost)
  BY Parts DEF Release
<1>2. /\ n = free_page(mem, p) /\ task' = [task EXCEPT ![t] = NoPage]
      /\ pc' = [pc EXCEPT ![t] = "none"] /\ limit' = [limit EXCEPT ![t] = 1]
      /\ UNCHANGED <<place, args, pipes, lost, unverified>>
  BY DEF Release
<1>3. t # 0 /\ p \in Pages
  BY <1>1 DEF TaskOf, Types
<1>4. OneTask(task, tb, t, p, NoPage) /\ Outside' = Held(tb, args, pipes, lost)
  BY <1>1, <1>2 DEF OneTask, Types, Outside
<1>5. Types'
  BY <1>1, <1>2, Constants DEF Types
<1> HIDE DEF o, n, p, tb
<1>6. o[p] # 0 /\ Held(tb, args, pipes, lost) = x
  BY <1>1, <1>3, <1>4, DropTask
<1>7. /\ Sound(n, x) /\ Space(n) = Space(mem)
      /\ n.dir = mem.dir /\ n.page = mem.page /\ n.writable = mem.writable
  <2>1. /\ Sound(mem, o) /\ p \in Pages /\ o[p] # 0
        /\ n = free_page(mem, p)
    BY <1>1, <1>2, <1>3, <1>6
  <2>2. /\ Sound(n, [o EXCEPT ![p] = @ - 1]) /\ Space(n) = Space(mem)
        /\ n.dir = mem.dir /\ n.page = mem.page /\ n.writable = mem.writable
    BY <2>1, FreeOne
  <2>3. QED
    BY <2>2
<1> HIDE DEF x
<1>8. ASSUME NEW v \in Tasks
      PROVE  TaskOf(v)'
  <2>1. CASE v = t
    <3>1. pc'[t] = "none" /\ task'[t] = NoPage /\ args'[t] = args[t] /\ NoPage # Low
      BY <1>1, <1>2, Constants DEF Types
    <3>2. args[t] = NoPage /\ \A e \in Dirs : n.dir[t][e] = NoPage
      BY <1>1, <1>7 DEF TaskOf
    <3>3. QED
      BY <1>3, <2>1, <3>1, <3>2 DEF TaskOf, n
  <2>2. CASE v # t
    <3>1. Idle(v) /\ Keeps(mem, mem', v)
      BY <1>1, <1>2, <1>7, <2>2 DEF Idle, Keeps, Types, n
    <3>2. QED
      BY <3>1, OthersStay
  <2>3. QED
    BY <2>1, <2>2
<1>9. QED
  BY <1>2, <1>4, <1>5, <1>6, <1>7, <1>8 DEF MemInv, SpaceStays, n

(* What fork does to the memories of tasks.                                *)
SpaceForked(t, u) ==
  /\ Space(mem)[u] = Nothing
  /\ Space(mem') = [Space(mem) EXCEPT ![u] = Space(mem)[t]]
  /\ unverified' = unverified

(* Nothing happens.                                                        *)
LEMMA StutterStep ==
  ASSUME MemInv, UNCHANGED memVars
  PROVE  MemInv' /\ SpaceStays
<1>1. /\ mem' = mem /\ task' = task /\ pc' = pc /\ place' = place /\ limit' = limit
      /\ args' = args /\ pipes' = pipes /\ lost' = lost /\ unverified' = unverified
  BY DEF memVars
<1>2. Outside' = Outside
  BY <1>1, OutsideSame
<1>3. Types'
  BY <1>1 DEF MemInv, Types
<1>4. ASSUME NEW v \in Tasks
      PROVE  TaskOf(v)'
  BY <1>1 DEF MemInv, TaskOf
<1>5. QED
  BY <1>1, <1>2, <1>3, <1>4 DEF MemInv, SpaceStays

(* The slot that fork finds.                                               *)
LEMMA FreeSlot ==
  ASSUME MemInv, NEW t \in Tasks, pc[t] = "user", \E u \in Tasks : task[u] = NoPage,
         NEW u, u = Min({v \in Tasks : task[v] = NoPage})
  PROVE  /\ u \in Tasks /\ u # t /\ u # 0 /\ task[u] = NoPage /\ pc[u] = "none"
         /\ args[u] = NoPage /\ \A e \in Dirs : mem.dir[u][e] = NoPage
<1>1. u \in Tasks /\ task[u] = NoPage
  <2> DEFINE free == {v \in Tasks : task[v] = NoPage}
  <2>1. free \in SUBSET Nat /\ free # {}
    BY Constants
  <2> HIDE DEF free
  <2>2. Min(free) \in free
    BY <2>1, NatMin
  <2>3. QED
    BY <2>2 DEF free
<1>2. TaskOf(u) /\ TaskOf(t)
  BY <1>1, Parts
<1>3. QED
  BY <1>1, <1>2, Constants DEF TaskOf

(* fork: the page of the new task and the copies of the page tables.       *)
LEMMA ForkCopies ==
  ASSUME MemInv, NEW t \in Tasks, NEW u \in Tasks, u # t, Free(mem) # {},
         \A e \in Dirs : mem.dir[u][e] = NoPage,
         NEW r, r = copy_page_tables(get_free_page(mem), t, u, limit[t])
  PROVE  /\ FreePage(mem) \in Pages /\ Outside[FreePage(mem)] = 0
         /\ Sound(r.m, [Outside EXCEPT ![FreePage(mem)] = 1])
         /\ Forked(mem, r, t, u, limit[t])
<1> DEFINE o == Outside
           f == FreePage(mem)
           k == get_free_page(mem)
           x == [o EXCEPT ![f] = 1]
           c == limit[t]
<1>1. /\ Sound(mem, o) /\ TaskOf(t) /\ c \in 0..DIRS /\ r = copy_page_tables(k, t, u, c)
  BY Parts, Constants DEF Types
<1>2. k = get_free_page(mem)
  OBVIOUS
<1> HIDE DEF k, o
<1>3. /\ f \in Pages /\ o[f] = 0 /\ Sound(k, x) /\ Space(k) = Space(mem)
      /\ k.dir = mem.dir /\ k.page = mem.page /\ k.writable = mem.writable
  BY <1>1, <1>2, GetFreePage, ZenonT(60)
<1>4. /\ \A e \in Dirs : k.dir[u][e] = NoPage
      /\ \A e \in Dirs : k.dir[t][e] # NoPage => e < c
  BY <1>1, <1>3 DEF TaskOf
<1> HIDE DEF f, x, c
<1>5. Sound(r.m, x) /\ Forked(k, r, t, u, c)
  BY <1>1, <1>3, <1>4, CopyTables, SMTT(60)
<1>6. Forked(mem, r, t, u, c)
  BY <1>3, <1>5 DEF Forked
<1>7. QED
  BY <1>3, <1>5, <1>6 DEF f, x, c, o

(* Nothing differs but what mem_map says.                                  *)
SameEntries(n, k) ==
  n.dir = k.dir /\ n.page = k.page /\ n.writable = k.writable /\ Space(n) = Space(k)

(* The page of a task that is not made after all.                          *)
LEMMA GiveBack ==
  ASSUME NEW k, NEW o, o \in [Pages -> Nat], NEW f \in Pages, o[f] = 0,
         NEW x, x = [o EXCEPT ![f] = 1], Sound(k, x), NEW n, n = free_page(k, f)
  PROVE  Sound(n, o) /\ SameEntries(n, k)
<1>1. x[f] # 0
  OBVIOUS
<1> DEFINE y == [x EXCEPT ![f] = @ - 1]
<1>2. y = o
  <2>1. \A q \in Pages : y[q] = o[q]
    OBVIOUS
  <2>2. y = [q \in Pages |-> y[q]] /\ o = [q \in Pages |-> o[q]]
    OBVIOUS
  <2> HIDE DEF y
  <2>3. QED
    BY <2>1, <2>2
<1>3. /\ Sound(n, [x EXCEPT ![f] = @ - 1]) /\ Space(n) = Space(k)
      /\ n.dir = k.dir /\ n.page = k.page /\ n.writable = k.writable
  BY <1>1, FreeOne
<1>4. Sound(n, y)
  BY <1>3
<1> HIDE DEF y
<1>5. QED
  BY <1>2, <1>3, <1>4 DEF SameEntries

(* fork without memory for a page table: what there is of the new task is  *)
(* given up; pages of the parent stay read-only.                           *)
LEMMA ForkFails ==
  ASSUME MemInv, NEW t \in Tasks, pc[t] = "user", NEW u \in Tasks, u # t,
         NEW f \in Pages, Outside[f] = 0,
         NEW r, ~r.ok, Sound(r.m, [Outside EXCEPT ![f] = 1]), Forked(mem, r, t, u, limit[t]),
         Only(free_page(r.m, f))
  PROVE  MemInv' /\ SpaceStays
<1> DEFINE o == Outside
           x == [o EXCEPT ![f] = 1]
           n == mem'
           k == r.m
<1>1. n = free_page(k, f) /\ UNCHANGED <<task, pc, place, limit, args, pipes, lost, unverified>>
  BY DEF Only
<1>2. o \in [Pages -> Nat] /\ o[f] = 0 /\ Sound(k, x)
  BY Parts
<1>3. Outside' = o
  BY <1>1, OutsideSame
<1>4. x = [o EXCEPT ![f] = 1]
  OBVIOUS
<1> HIDE DEF o, x, n, k
<1>5. /\ Sound(n, o) /\ Space(n) = Space(k)
      /\ n.dir = k.dir /\ n.page = k.page /\ n.writable = k.writable
  <2>1. /\ o \in [Pages -> Nat] /\ f \in Pages /\ o[f] = 0 /\ x = [o EXCEPT ![f] = 1]
        /\ Sound(k, x) /\ n = free_page(k, f)
    BY <1>1, <1>2, <1>4
  <2>2. Sound(n, o) /\ SameEntries(n, k)
    BY <2>1, GiveBack
  <2>3. QED
    BY <2>2 DEF SameEntries
<1>6. /\ \A v \in Tasks \ {u}, e \in Dirs : n.dir[v][e] = mem.dir[v][e]
      /\ \A e \in Dirs : n.dir[u][e] = NoPage
      /\ \A v \in Tasks \ {t}, a \in Addresses : n.writable[v][a] <=> mem.writable[v][a]
      /\ \A v \in Tasks \ {u}, a \in Addresses : n.page[v][a] = mem.page[v][a]
      /\ Space(k) = Space(mem)
  BY <1>5 DEF Forked, k
<1>7. \A a \in Addresses : n.page[u][a] = NoPage
  <2>1. \A a \in Addresses : n.dir[u][a[1]] = NoPage
    BY <1>6, Constants
  <2>2. QED
    BY <1>5, <2>1, NoTable
<1>8. \A v \in Tasks \ {t} : Keeps(mem, n, v)
  BY <1>6, <1>7 DEF Keeps
<1>9. ASSUME NEW v \in Tasks
      PROVE  TaskOf(v)'
  <2>1. CASE v = t
    <3>1. TaskOf(t)
      BY Parts
    <3>2. QED
      BY <1>1, <1>6, <2>1, <3>1 DEF TaskOf, n
  <2>2. CASE v # t
    <3>1. Idle(v) /\ Keeps(mem, mem', v)
      BY <1>1, <1>8, <2>2 DEF Idle, n
    <3>2. QED
      BY <3>1, OthersStay
  <2>3. QED
    BY <2>1, <2>2
<1>10. Types'
  BY <1>1 DEF MemInv, Types
<1>11. QED
  BY <1>1, <1>3, <1>5, <1>6, <1>9, <1>10 DEF MemInv, SpaceStays, n, o

(* fork makes a new task.                                                  *)
LEMMA ForkMakes ==
  ASSUME MemInv, NEW t \in Tasks, pc[t] = "user", NEW u \in Tasks, u # t, u # 0,
         task[u] = NoPage, pc[u] = "none", args[u] = NoPage,
         \A e \in Dirs : mem.dir[u][e] = NoPage,
         NEW f \in Pages, Outside[f] = 0,
         NEW r, r.ok, Sound(r.m, [Outside EXCEPT ![f] = 1]), Forked(mem, r, t, u, limit[t]),
         mem' = r.m, task' = [task EXCEPT ![u] = f], pc' = [pc EXCEPT ![u] = "user"],
         limit' = [limit EXCEPT ![u] = limit[t]],
         UNCHANGED <<place, args, pipes, lost, unverified>>
  PROVE  MemInv' /\ SpaceForked(t, u)
<1> DEFINE o == Outside
           x == [o EXCEPT ![f] = 1]
           n == mem'
           tb == task'
<1>1. /\ Types /\ Sound(mem, o) /\ o = Held(task, args, pipes, lost) /\ o[f] = 0
      /\ Sound(n, x) /\ f # NoPage /\ f # Low
  BY Parts, Constants
<1>2. OneTask(task, tb, u, NoPage, f) /\ Outside' = Held(tb, args, pipes, lost)
  BY <1>1 DEF OneTask, Types, Outside
<1>3. /\ \A v \in Tasks \ {u}, e \in Dirs : n.dir[v][e] = mem.dir[v][e]
      /\ \A e \in Dirs : n.dir[u][e] # NoPage => e < limit[t]
      /\ \A v \in Tasks \ {t}, a \in Addresses : n.writable[v][a] <=> mem.writable[v][a]
      /\ \A v \in Tasks \ {u}, a \in Addresses : n.page[v][a] = mem.page[v][a]
      /\ Space(n) = [Space(mem) EXCEPT ![u] = Space(mem)[t]]
  BY DEF Forked
<1>4. Types'
  BY <1>1 DEF Types
<1> HIDE DEF o, x, n, tb
<1>5. Held(tb, args, pipes, lost) = x
  <2>1. Held(tb, args, pipes, lost) = [o EXCEPT ![f] = 1]
    BY <1>1, <1>2, HoldTask
  <2>2. QED
    BY <2>1 DEF x
<1>6. Sound(mem', Outside')
  BY <1>1, <1>2, <1>5 DEF n
<1>7. ASSUME NEW v \in Tasks
      PROVE  TaskOf(v)'
  <2>1. CASE v = u
    <3>1. task'[u] = f /\ pc'[u] = "user" /\ limit'[u] = limit[t] /\ args'[u] = NoPage
      BY <1>1 DEF Types
    <3>2. QED
      BY <1>1, <1>3, <2>1, <3>1 DEF TaskOf, n
  <2>2. CASE v = t
    <3>1. /\ task'[t] = task[t] /\ pc'[t] = pc[t] /\ limit'[t] = limit[t]
          /\ args'[t] = args[t] /\ TaskOf(t)
      BY <1>1, Parts DEF Types
    <3>2. QED
      BY <1>3, <2>2, <3>1 DEF TaskOf, n
  <2>3. CASE v # t /\ v # u
    <3>1. Idle(v) /\ Keeps(mem, mem', v)
      BY <1>1, <1>3, <2>3 DEF Idle, Keeps, Types, n
    <3>2. QED
      BY <3>1, OthersStay
  <2>4. QED
    BY <2>1, <2>2, <2>3
<1>8. Space(mem)[u] = Nothing
  <2>1. \A a \in Addresses : Space(mem)[u][a] = 0
    BY <1>1, Constants, NoTable
  <2>2. QED
    BY <2>1 DEF Space, Nothing
<1>9. QED
  BY <1>3, <1>4, <1>6, <1>7, <1>8 DEF MemInv, SpaceForked, n

(* fork, whatever comes of it.                                             *)
LEMMA ForkStep ==
  ASSUME MemInv, NEW t \in Tasks, Fork(t)
  PROVE  MemInv' /\ (SpaceStays \/ \E u \in Tasks \ {t} : SpaceForked(t, u))
<1> DEFINE u == Min({v \in Tasks : task[v] = NoPage})
           f == FreePage(mem)
           r == copy_page_tables(get_free_page(mem), t, u, limit[t])
<1>1. pc[t] = "user" /\ \E v \in Tasks : task[v] = NoPage
  BY DEF Fork
<1>2. CASE Free(mem) = {}
  BY <1>2, StutterStep DEF Fork
<1>3. /\ u \in Tasks /\ u # t /\ u # 0 /\ task[u] = NoPage /\ pc[u] = "none"
      /\ args[u] = NoPage /\ \A e \in Dirs : mem.dir[u][e] = NoPage
  BY <1>1, FreeSlot
<1>4. ASSUME Free(mem) # {}
      PROVE  /\ f \in Pages /\ Outside[f] = 0
             /\ Sound(r.m, [Outside EXCEPT ![f] = 1])
             /\ Forked(mem, r, t, u, limit[t])
  <2> HIDE DEF u
  <2>1. r = copy_page_tables(get_free_page(mem), t, u, limit[t])
    OBVIOUS
  <2> HIDE DEF r
  <2>2. QED
    BY <1>3, <1>4, <2>1, ForkCopies DEF f
<1>5. CASE Free(mem) # {} /\ ~r.ok
  <2>1. Only(free_page(r.m, f))
    BY <1>5 DEF Fork
  <2> HIDE DEF u, f, r
  <2>2. QED
    BY <1>1, <1>3, <1>4, <1>5, <2>1, ForkFails
<1>6. CASE Free(mem) # {} /\ r.ok
  <2>1. /\ mem' = r.m /\ task' = [task EXCEPT ![u] = f] /\ pc' = [pc EXCEPT ![u] = "user"]
        /\ limit' = [limit EXCEPT ![u] = limit[t]]
        /\ UNCHANGED <<place, args, pipes, lost, unverified>>
    BY <1>6 DEF Fork
  <2> HIDE DEF u, f, r
  <2>2. MemInv' /\ SpaceForked(t, u)
    BY <1>1, <1>3, <1>4, <1>6, <2>1, ForkMakes
  <2>3. QED
    BY <1>3, <2>2
<1>7. QED
  BY <1>2, <1>5, <1>6

(* Init                                                                    *)
LEMMA InitMemInv == MemInit => MemInv /\ Space(mem) = [t \in Tasks |-> Nothing]
<1> SUFFICES ASSUME MemInit
             PROVE  MemInv /\ Space(mem) = [t \in Tasks |-> Nothing]
  OBVIOUS
<1> DEFINE o == Outside
<1>1. /\ mem.map = [p \in Pages |-> 0]
      /\ mem.dir = [t \in Tasks |-> [d \in Dirs |-> IF t = 0 /\ d = 0 THEN Low ELSE NoPage]]
      /\ mem.page = [t \in Tasks |-> [a \in Addresses |->
                       IF t = 0 /\ a[1] = 0 THEN Low ELSE NoPage]]
      /\ mem.writable = [t \in Tasks |-> [a \in Addresses |-> t = 0 /\ a[1] = 0]]
      /\ mem.val = [p \in Pages \cup {Low} |-> 0]
  BY DEF MemInit
<1>2. /\ task = [t \in Tasks |-> IF t = 0 THEN Low ELSE NoPage]
      /\ pc = [t \in Tasks |-> IF t = 0 THEN "user" ELSE "none"]
      /\ limit = [t \in Tasks |-> 1] /\ place = [t \in Tasks |-> Top]
      /\ args = [t \in Tasks |-> NoPage] /\ pipes = {} /\ lost = {} /\ unverified = 0
  BY DEF MemInit
<1>3. Types
  BY <1>2, Constants DEF Types
<1>4. mem \in Memories
  <2>1. mem.map \in [Pages -> Int] /\ mem.val \in [Pages \cup {Low} -> Values]
    BY <1>1, MemoryAssumption
  <2>2. mem.dir \in [Tasks -> [Dirs -> Pages \cup {Low, NoPage}]]
    BY <1>1
  <2>3. mem.page \in [Tasks -> [Addresses -> Pages \cup {Low, NoPage}]]
    BY <1>1
  <2>4. mem.writable \in [Tasks -> [Addresses -> BOOLEAN]]
    BY <1>1
  <2>5. mem = [map |-> mem.map, dir |-> mem.dir, page |-> mem.page,
               writable |-> mem.writable, val |-> mem.val]
    BY DEF MemInit
  <2>6. QED
    BY <2>1, <2>2, <2>3, <2>4, <2>5 DEF Memories
<1>5. \A p \in Pages : o[p] = 0
  <2>1. ASSUME NEW p \in Pages
        PROVE  Cardinality(Owned(task, p)) = 0 /\ Cardinality(Owned(args, p)) = 0
    BY <1>2, OwnedFinite, Constants
  <2>2. QED
    BY <1>2, <2>1 DEF Outside, Held
<1>6. o \in [Pages -> Nat]
  BY <1>5 DEF Outside, Held
<1> HIDE DEF o
<1>7. Balanced(mem, o)
  <2>1. ASSUME NEW p \in Pages
        PROVE  PageRefs(mem, p) = {} /\ DirRefs(mem, p) = {}
    BY <1>1, Constants DEF PageRefs, DirRefs
  <2>2. Cardinality({}) = 0
    BY FS_EmptySet
  <2>3. \A p \in Pages : Cardinality(PageRefs(mem, p)) = 0 /\ Cardinality(DirRefs(mem, p)) = 0
    BY <2>1, <2>2
  <2>4. \A p \in Pages : mem.map[p] = 0
    BY <1>1
  <2>5. QED
    BY <1>5, <2>3, <2>4 DEF Balanced
<1>8. Single(mem, o)
  <2>1. \A t \in Tasks, d \in Dirs : mem.dir[t][d] \notin Pages
    BY <1>1, Constants
  <2>2. QED
    BY <1>5, <2>1 DEF Single
<1>9. InTables(mem) /\ SamePlace(mem) /\ Writable(mem)
  <2>1. ASSUME NEW t \in Tasks, NEW a \in Addresses
        PROVE  /\ mem.page[t][a] = (IF t = 0 /\ a[1] = 0 THEN Low ELSE NoPage)
               /\ mem.dir[t][a[1]] = (IF t = 0 /\ a[1] = 0 THEN Low ELSE NoPage)
               /\ mem.writable[t][a] <=> t = 0 /\ a[1] = 0
    <3> DEFINE d == a[1]
    <3>1. d \in Dirs
      BY Constants
    <3>2. /\ mem.page[t][a] = (IF t = 0 /\ a[1] = 0 THEN Low ELSE NoPage)
          /\ mem.writable[t][a] <=> t = 0 /\ a[1] = 0
      <4>1. mem.page[t][a] = (IF t = 0 /\ a[1] = 0 THEN Low ELSE NoPage)
        BY <1>1
      <4>2. mem.writable[t] = [b \in Addresses |-> t = 0 /\ b[1] = 0]
        BY <1>1
      <4>3. QED
        BY <4>1, <4>2, Zenon
    <3> HIDE DEF d
    <3>3. mem.dir[t][d] = (IF t = 0 /\ d = 0 THEN Low ELSE NoPage)
      BY <1>1, <3>1
    <3>4. QED
      BY <3>2, <3>3 DEF d
  <2>2. InTables(mem)
    BY <2>1, Constants DEF InTables
  <2>3. \A t \in Tasks, a \in Addresses : mem.page[t][a] \notin Pages
    BY <2>1, Constants
  <2>4. SamePlace(mem)
    BY <2>3 DEF SamePlace
  <2>5. Writable(mem)
    BY <2>1 DEF Writable
  <2>6. QED
    BY <2>2, <2>4, <2>5
<1>10. ASSUME NEW t \in Tasks
       PROVE  TaskOf(t)
  <2>1. /\ task[t] = (IF t = 0 THEN Low ELSE NoPage) /\ pc[t] = (IF t = 0 THEN "user" ELSE "none")
        /\ limit[t] = 1 /\ args[t] = NoPage
    BY <1>2
  <2>2. \A d \in Dirs : mem.dir[t][d] # NoPage => t = 0 /\ d < 1
    BY <1>1
  <2>3. QED
    BY <2>1, <2>2, Constants DEF TaskOf
<1>11. Space(mem) = [t \in Tasks |-> Nothing]
  <2>1. \A t \in Tasks, a \in Addresses :
          IF mem.page[t][a] = NoPage THEN TRUE ELSE mem.val[mem.page[t][a]] = 0
    BY <1>1
  <2>2. \A t \in Tasks : Space(mem)[t] = Nothing
    BY <2>1 DEF Space, Nothing
  <2>3. Space(mem) = [t \in Tasks |-> Space(mem)[t]]
    BY DEF Space
  <2>4. QED
    BY <2>2, <2>3
<1>12. QED
  BY <1>3, <1>4, <1>6, <1>7, <1>8, <1>9, <1>10, <1>11 DEF MemInv, Sound, o

-----------------------------------------------------------------------------
(* Every step                                                              *)

(* What a step of the program is for the memories of tasks.                *)
SpaceStep ==
  \/ SpaceStays
  \/ \E t \in Tasks :
       \/ \E u \in Tasks \ {t} : SpaceForked(t, u)
       \/ SpaceCleared(t)
       \/ \E a \in Addresses, w \in Values : SpaceStored(t, a, w) \/ SpaceUnverified(t, a, w)

(* The invariant is kept, and memories change as they should.              *)
LEMMA MemStep ==
  ASSUME MemInv, [MemNext]_memVars
  PROVE  MemInv' /\ SpaceStep
<1>1. CASE UNCHANGED memVars
  BY <1>1, StutterStep DEF SpaceStep
<1>2. CASE PipePage
  BY <1>2, PipePageStep DEF SpaceStep
<1>3. ASSUME NEW t \in Tasks,
             \/ Fork(t) \/ Exit(t) \/ Release(t)
             \/ ExecArgs(t) \/ ExecFree(t) \/ ExecFail(t) \/ ExecDone(t) \/ CreateTables(t)
      PROVE  MemInv' /\ SpaceStep
  <2>1. CASE Fork(t)
    BY <2>1, ForkStep DEF SpaceStep
  <2>2. CASE Exit(t)
    <3>1. t # 0 /\ pc[t] # "none" /\ ExitWith(mem, t)
      BY <2>2 DEF Exit
    <3>2. QED
      BY <3>1, ExitStep DEF SpaceStep
  <2>3. CASE Release(t)
    BY <2>3, ReleaseStep DEF SpaceStep
  <2>4. CASE ExecArgs(t)
    BY <2>4, ExecArgsStep DEF SpaceStep
  <2>5. CASE ExecFree(t)
    BY <2>5, ExecFreeStep DEF SpaceStep
  <2>6. CASE ExecFail(t)
    BY <2>6, ExecFailStep DEF SpaceStep
  <2>7. CASE ExecDone(t)
    BY <2>7, ExecDoneStep, Constants DEF SpaceStep
  <2>8. CASE CreateTables(t)
    BY <2>8, CreateTablesStep DEF SpaceStep
  <2>9. QED
    BY <1>3, <2>1, <2>2, <2>3, <2>4, <2>5, <2>6, <2>7, <2>8
<1>4. ASSUME NEW t \in Tasks, NEW a \in Addresses, Touch(t, a) \/ Verify(t, a) \/ PutVerified(t, a)
      PROVE  MemInv' /\ SpaceStep
  BY <1>4, TouchStep, VerifyStep, PutVerifiedStep DEF SpaceStep
<1>5. ASSUME NEW t \in Tasks, NEW a \in Addresses, NEW w \in Values,
             Store(t, a, w) \/ PutUnverified(t, a, w) \/ ExecLoad(t, a, w)
      PROVE  MemInv' /\ SpaceStep
  <2>1. CASE Store(t, a, w)
    <3>1. t # 0 /\ mem.writable[t][a] /\ Put(t, a, w)
      BY <2>1 DEF Store
    <3>2. QED
      BY <3>1, StoreStep DEF SpaceStep
  <2>2. CASE PutUnverified(t, a, w)
    BY <2>2, PutUnverifiedStep DEF SpaceStep
  <2>3. CASE ExecLoad(t, a, w)
    BY <2>3, ExecLoadStep DEF SpaceStep
  <2>4. QED
    BY <1>5, <2>1, <2>2, <2>3
<1>6. QED
  BY <1>1, <1>2, <1>3, <1>4, <1>5 DEF MemNext

(* The invariant always holds.                                             *)
LEMMA AlwaysMemInv == MemSpec => []MemInv
<1>1. MemInit => MemInv
  BY InitMemInv
<1>2. MemInv /\ [MemNext]_memVars => MemInv'
  BY MemStep
<1>3. QED
  BY <1>1, <1>2, PTL DEF MemSpec

-----------------------------------------------------------------------------
(* Theorems                                                                *)

(* mem_map counts every reference to every page, at all times.             *)
THEOREM AlwaysCounted == MemSpec => []CountsReferences
<1>1. ASSUME MemInv, NEW p \in Pages
      PROVE  mem.map[p] = References(p)
  <2>1. /\ mem.map[p] = Cardinality(PageRefs(mem, p)) + Cardinality(DirRefs(mem, p)) + Outside[p]
        /\ Outside[p] = Cardinality(Owned(task, p)) + Cardinality(Owned(args, p))
                        + (IF p \in pipes THEN 1 ELSE 0) + (IF p \in lost THEN 1 ELSE 0)
    BY <1>1, Parts DEF Sound, Balanced, Held
  <2>2. References(p) = Cardinality(PageRefs(mem, p)) + Cardinality(DirRefs(mem, p))
                        + Cardinality(Owned(task, p)) + Cardinality(Owned(args, p))
                        + (IF p \in pipes THEN 1 ELSE 0) + (IF p \in lost THEN 1 ELSE 0)
    BY DEF References, PageRefs, DirRefs, Owned
  <2>3. /\ Cardinality(PageRefs(mem, p)) \in Nat /\ Cardinality(DirRefs(mem, p)) \in Nat
        /\ Cardinality(Owned(task, p)) \in Nat /\ Cardinality(Owned(args, p)) \in Nat
    BY RefsFinite, OwnedFinite
  <2>4. QED
    BY <2>1, <2>2, <2>3
<1>2. MemInv => CountsReferences
  BY <1>1 DEF CountsReferences
<1>3. QED
  BY <1>2, AlwaysMemInv, PTL

(* A page that a task may write to is nobody else's.                       *)
THEOREM AlwaysAlone == MemSpec => []WritableAlone
<1>1. MemInv => WritableAlone
  BY Parts DEF Sound, Writable, WritableAlone
<1>2. QED
  BY <1>1, AlwaysMemInv, PTL

(* Pages that are shared until they are written to, and mem_map, implement *)
(* separate memories.                                                      *)
THEOREM SeparateMemories == MemSpec => MemoriesApart
<1> DEFINE S == Space(mem)
<1>1. ASSUME MemInit
      PROVE  Spaces!Init
  <2>1. Space(mem) = [t \in Tasks |-> Nothing] /\ unverified = 0
    BY <1>1, InitMemInv DEF MemInit
  <2>2. QED
    BY <2>1 DEF Spaces!Init, Spaces!Cleared, Space, Nothing
<1>2. ASSUME SpaceStep
      PROVE  [Spaces!Next]_(Spaces!spaceVars)
  <2>1. CASE SpaceStays
    BY <2>1 DEF SpaceStays, Spaces!spaceVars, Space
  <2>2. ASSUME NEW t \in Tasks, NEW u \in Tasks \ {t}, SpaceForked(t, u)
        PROVE  Spaces!Next
    <3>1. Spaces!Fork(t, u)
      BY <2>2 DEF SpaceForked, Spaces!Fork, Spaces!Cleared, Space, Nothing
    <3>2. QED
      BY <3>1, SMTT(60) DEF Spaces!Next
  <2>3. ASSUME NEW t \in Tasks, SpaceCleared(t)
        PROVE  Spaces!Next
    <3>1. Spaces!Clear(t)
      BY <2>3 DEF SpaceCleared, Spaces!Clear, Spaces!Cleared, Space, Nothing
    <3>2. QED
      BY <3>1 DEF Spaces!Next
  <2>4. ASSUME NEW t \in Tasks, NEW a \in Addresses, NEW w \in Values, SpaceStored(t, a, w)
        PROVE  Spaces!Next
    <3>1. Spaces!Store(t, a, w)
      BY <2>4 DEF SpaceStored, Spaces!Store, Space
    <3>2. QED
      BY <3>1 DEF Spaces!Next
  <2>5. ASSUME NEW t \in Tasks, NEW a \in Addresses, NEW w \in Values, SpaceUnverified(t, a, w)
        PROVE  Spaces!Next
    <3>1. Spaces!StoreUnverified(t, a, w)
      BY <2>5 DEF SpaceUnverified, Spaces!StoreUnverified, Space
    <3>2. QED
      BY <3>1, SMTT(60) DEF Spaces!Next
  <2>6. QED
    BY <1>2, <2>1, <2>2, <2>3, <2>4, <2>5 DEF SpaceStep
<1>3. MemInv /\ [MemNext]_memVars => [Spaces!Next]_(Spaces!spaceVars)
  BY <1>2, MemStep
<1>4. QED
  BY <1>1, <1>3, AlwaysMemInv, PTL DEF MemSpec, MemoriesApart, Spaces!Spec
=============================================================================
