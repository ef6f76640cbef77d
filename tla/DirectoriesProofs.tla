------------------------- MODULE DirectoriesProofs -------------------------
(***************************************************************************)
(* The use counts of the inode table, for any number of processes, slots,  *)
(* inodes and blocks.                                                      *)
(***************************************************************************)
EXTENDS Directories, Counting, SequenceTheorems

-----------------------------------------------------------------------------
(* Where a process is: the label of the call it is in, its home, and the   *)
(* labels it returns to on the way there.                                  *)

Lookups == Opens \cup {"mkdir", "rmdir", "unlink", "link", "linkto"}
Kinds == Lookups \cup {""}
Gots == {"into", "opened", "rm_got", "un_got", "ln_old"}
Mades == {"made", "mk_made"}
Putters == {"down", "open_take", "ln_take", "ln_count", "mk_free", "mk_undo", "done"}
Adding == {"add", "entry", "grown", "no_room"}
Walking == {"walk", "step", "last"}
Homes == Lookups \cup Gots \cup Mades \cup Putters \cup Adding \cup Walking
           \cup {"user", "mk_block", "mk_fill", "rm_empty", "un_clear"}

Freeing == {"truncate", "trunc_zone", "trunc_ind", "trunc_ptr", "trunc_self", "trunc_end"}
Mapping == {"bmap", "bmap_set", "bmap7", "bmap7_set", "bmap7_read", "bmap7_ptr", "bmap7_put"}

\* The labels a process may return to from label l.
Backs(l) ==
  CASE l \in Homes -> {<<>>}
    [] l \in {"find", "match"} -> {<<h>> : h \in Lookups \cup {"step"}}
    [] l \in {"iget", "search", "join", "read"} -> {<<h>> : h \in Gots}
    [] l = "fresh" -> {<<h>> : h \in Mades}
    [] l \in {"empty", "scrub"} ->
         {<<"search", h>> : h \in Gots} \cup {<<"fresh", h>> : h \in Mades}
    [] l = "puts" -> {<<h>> : h \in Putters}
    [] l \in {"put", "repeat", "free"} -> {<<"puts", h>> : h \in Putters}
    [] l \in Freeing -> {<<"free", "puts", h>> : h \in Putters} \cup {<<"done">>}
    [] l = "freeblk" ->
         {<<t, "free", "puts", h>> : t \in {"trunc_zone", "trunc_self", "trunc_end"}, h \in Putters}
           \cup {<<t, "done">> : t \in {"trunc_zone", "trunc_self", "trunc_end"}}
           \cup {<<"mk_undo">>}
    [] l = "write" ->
         {<<"scrub", "search", h>> : h \in Gots} \cup {<<"scrub", "fresh", h>> : h \in Mades}
           \cup {<<"repeat", "puts", h>> : h \in Putters} \cup {<<"sync_next", "done">>}
    [] l \in {"newblk", "clear"} ->
         {<<"mk_block">>, <<"grown">>} \cup
         {<<h, "done">> : h \in {"bmap_set", "bmap7_set", "bmap7_put"}}
    [] l \in Mapping \cup {"sync", "sync_next"} -> {<<"done">>}
    [] OTHER -> {}

Home(r) == IF r.back = <<>> THEN r.pc ELSE r.back[Len(r.back)]

\* The call may be of these kinds.
KindsAt(h) ==
  CASE h = "user" -> {""}
    [] h \in Lookups -> {h}
    [] h \in {"made", "opened", "open_take"} -> Opens
    [] h \in {"mk_made", "mk_block", "mk_fill", "mk_free", "mk_undo"} -> {"mkdir"}
    [] h \in {"rm_got", "rm_empty"} -> {"rmdir"}
    [] h \in {"un_got", "un_clear"} -> {"unlink"}
    [] h \in {"ln_take", "ln_old"} -> {"link"}
    [] h = "ln_count" -> {"linkto"}
    [] h \in Adding -> Opens \cup {"mkdir", "linkto"}
    [] h \in Walking \cup {"down", "into"} -> Lookups
    [] OTHER -> Kinds

\* iput is at work on a slot: it is not given back yet.
InPut(r) ==
  \/ r.pc \in {"put", "repeat", "free"}
  \/ r.pc \in Freeing /\ r.back # <<"done">>
  \/ r.pc = "freeblk" /\ Len(r.back) = 4
  \/ r.pc = "write" /\ r.back[1] = "repeat"

-----------------------------------------------------------------------------
(* The places where a process keeps a slot it has to give back.            *)

WithDir == Walking \cup Lookups \cup Mades \cup Adding
             \cup {"mk_block", "mk_fill", "rm_got", "rm_empty", "un_got", "un_clear"}
WithIno == Adding \cup {"mk_block", "mk_fill", "mk_free", "mk_undo", "rm_empty", "un_clear", "ln_count"}
Fields == {"file", "empty", "dir", "ino", "work", "first", "second"}

Holding(r) ==
  [file |-> r.file,
   empty |-> r.empty,
   dir |-> IF Home(r) \in WithDir THEN r.dir ELSE NoSlot,
   ino |-> IF Home(r) # "done" THEN r.ino ELSE NoSlot,
   work |-> IF InPut(r) \/ r.pc \in Gots \cup Mades THEN r.work ELSE NoSlot,
   first |-> IF Len(r.puts) >= 1 THEN r.puts[1] ELSE NoSlot,
   second |-> IF Len(r.puts) >= 2 THEN r.puts[2] ELSE NoSlot]

\* A record of what a process is doing.
Whole(r) ==
  /\ r = [pc |-> r.pc, back |-> r.back, puts |-> r.puts, work |-> r.work,
          empty |-> r.empty, num |-> r.num, blk |-> r.blk, ib |-> r.ib, bh |-> r.bh,
          kind |-> r.kind, rest |-> r.rest, to |-> r.to, dir |-> r.dir,
          ino |-> r.ino, len |-> r.len, pos |-> r.pos, file |-> r.file]
  /\ r.puts \in Seq(Nat) /\ {r.work, r.empty, r.dir, r.ino, r.file} \subseteq Nat

Good(r) ==
  /\ Whole(r)
  /\ r.back \in Backs(r.pc)
  /\ r.kind \in KindsAt(Home(r))
  /\ Len(r.puts) <= 2
  /\ ~InPut(r) /\ r.pc # "puts" => r.puts = <<>>
  /\ r.pc \notin {"search", "join", "read", "fresh"} => r.empty = NoSlot
  /\ r.pc = "read" => r.work = r.empty
  /\ r.kind \in Opens /\ Home(r) \notin {"user", "done"} => r.file = NoSlot
  /\ r.kind # "linkto" /\ Home(r) \notin WithIno \cup {"done"} => r.ino = NoSlot

Uses(s) == {u \in Proc \X Fields : Holding(at[u[1]])[u[2]] = s}

WholeInode(i) ==
  /\ i = [num |-> i.num, count |-> i.count, dirt |-> i.dirt, lock |-> i.lock,
          mode |-> i.mode, links |-> i.links, zone |-> i.zone, ind |-> i.ind]
  /\ i.count \in Int

UsersInv ==
  /\ at = [p \in Proc |-> at[p]] /\ \A p \in Proc : Good(at[p])
  /\ table = [s \in Slots |-> table[s]]
  /\ \A s \in Slots : /\ WholeInode(table[s])
                      /\ table[s].count = Cardinality(Uses(s)) + IF s = Root THEN 4 ELSE 0

-----------------------------------------------------------------------------
(* Sequences of labels                                                     *)

(* A label before another.                                                 *)
LEMMA ConsOne ==
  ASSUME NEW a, NEW b
  PROVE  <<a>> \o <<b>> = <<a, b>>
<1> DEFINE S == {a, b}
           u == <<a>>
           v == <<b>>
           s == u \o v
           t == <<a, b>>
<1>1. /\ u \in Seq(S) /\ v \in Seq(S) /\ t \in Seq(S) /\ Len(u) = 1 /\ Len(v) = 1 /\ Len(t) = 2
      /\ u[1] = a /\ v[1] = b /\ t[1] = a /\ t[2] = b
  OBVIOUS
<1> HIDE DEF u, v, t, S
<1>2. /\ s \in Seq(S) /\ Len(s) = Len(u) + Len(v)
      /\ \A i \in 1..(Len(u) + Len(v)) : s[i] = IF i <= Len(u) THEN u[i] ELSE v[i - Len(u)]
  BY <1>1, ConcatProperties
<1> HIDE DEF s
<1>3. Len(s) = 2
  BY <1>1, <1>2
<1>4. s[1] = u[1] /\ s[2] = v[1]
  BY <1>1, <1>2
<1>5. \A i \in 1..2 : s[i] = t[i]
  BY <1>1, <1>4
<1>6. s = t
  BY <1>1, <1>2, <1>3, <1>5, SeqEqual
<1>7. QED
  BY <1>6 DEF s, t, u, v

(* A label before two others.                                              *)
LEMMA ConsTwo ==
  ASSUME NEW a, NEW b, NEW c
  PROVE  <<a>> \o <<b, c>> = <<a, b, c>>
<1> DEFINE S == {a, b, c}
           u == <<a>>
           v == <<b, c>>
           s == u \o v
           t == <<a, b, c>>
<1>1. /\ u \in Seq(S) /\ v \in Seq(S) /\ t \in Seq(S) /\ Len(u) = 1 /\ Len(v) = 2 /\ Len(t) = 3
      /\ u[1] = a /\ v[1] = b /\ v[2] = c /\ t[1] = a /\ t[2] = b /\ t[3] = c
  OBVIOUS
<1> HIDE DEF u, v, t, S
<1>2. /\ s \in Seq(S) /\ Len(s) = Len(u) + Len(v)
      /\ \A i \in 1..(Len(u) + Len(v)) : s[i] = IF i <= Len(u) THEN u[i] ELSE v[i - Len(u)]
  BY <1>1, ConcatProperties
<1> HIDE DEF s
<1>3. Len(s) = 3
  BY <1>1, <1>2
<1>4. s[1] = u[1]
  BY <1>1, <1>2
<1>5. s[2] = v[1]
  BY <1>1, <1>2
<1>6. s[3] = v[2]
  BY <1>1, <1>2
<1>7. \A i \in 1..3 : s[i] = t[i]
  BY <1>1, <1>4, <1>5, <1>6
<1>8. s = t
  BY <1>1, <1>2, <1>3, <1>7, SeqEqual
<1>9. QED
  BY <1>8 DEF s, t, u, v

(* The same before three.                                                  *)
LEMMA ConsThree ==
  ASSUME NEW a, NEW b, NEW c, NEW d
  PROVE  <<a>> \o <<b, c, d>> = <<a, b, c, d>>
<1> DEFINE S == {a, b, c, d}
           u == <<a>>
           v == <<b, c, d>>
           s == u \o v
           t == <<a, b, c, d>>
<1>1. /\ u \in Seq(S) /\ v \in Seq(S) /\ t \in Seq(S) /\ Len(u) = 1 /\ Len(v) = 3 /\ Len(t) = 4
      /\ u[1] = a /\ v[1] = b /\ v[2] = c /\ v[3] = d
      /\ t[1] = a /\ t[2] = b /\ t[3] = c /\ t[4] = d
  OBVIOUS
<1> HIDE DEF u, v, t, S
<1>2. /\ s \in Seq(S) /\ Len(s) = Len(u) + Len(v)
      /\ \A i \in 1..(Len(u) + Len(v)) : s[i] = IF i <= Len(u) THEN u[i] ELSE v[i - Len(u)]
  BY <1>1, ConcatProperties
<1> HIDE DEF s
<1>3. Len(s) = 4
  BY <1>1, <1>2
<1>4. s[1] = u[1]
  BY <1>1, <1>2
<1>5. s[2] = v[1]
  BY <1>1, <1>2
<1>6. s[3] = v[2]
  BY <1>1, <1>2
<1>7. s[4] = v[3]
  BY <1>1, <1>2
<1>8. \A i \in 1..4 : s[i] = t[i]
  BY <1>1, <1>4, <1>5, <1>6, <1>7
<1>9. s = t
  BY <1>1, <1>2, <1>3, <1>8, SeqEqual
<1>10. QED
  BY <1>9 DEF s, t, u, v

(* A label before others, and what is left without it.                     *)
LEMMA Labels ==
  ASSUME NEW a, NEW b, NEW c, NEW d
  PROVE  /\ <<a>> \o <<>> = <<a>> /\ <<a>> \o <<b>> = <<a, b>>
         /\ <<a>> \o <<b, c>> = <<a, b, c>> /\ <<a>> \o <<b, c, d>> = <<a, b, c, d>>
         /\ Head(<<a>>) = a /\ Head(<<a, b>>) = a /\ Head(<<a, b, c>>) = a
         /\ Head(<<a, b, c, d>>) = a
         /\ Tail(<<a>>) = <<>> /\ Tail(<<a, b>>) = <<b>> /\ Tail(<<a, b, c>>) = <<b, c>>
         /\ Tail(<<a, b, c, d>>) = <<b, c, d>>
<1>1. <<a>> \o <<>> = <<a>>
  OBVIOUS
<1>2. <<a>> \o <<b>> = <<a, b>>
  BY ConsOne
<1>3. /\ Head(<<a>>) = a /\ Head(<<a, b>>) = a /\ Head(<<a, b, c>>) = a
      /\ Head(<<a, b, c, d>>) = a
      /\ Tail(<<a>>) = <<>> /\ Tail(<<a, b>>) = <<b>> /\ Tail(<<a, b, c>>) = <<b, c>>
      /\ Tail(<<a, b, c, d>>) = <<b, c, d>>
  OBVIOUS
<1>4. QED
  BY <1>1, <1>2, <1>3, ConsTwo, ConsThree

(* The home of a process that returns to one to four labels.               *)
LEMMA HomeIs ==
  ASSUME NEW r, NEW a, NEW b, NEW c, NEW d
  PROVE  /\ r.back = <<>> => Home(r) = r.pc
         /\ r.back = <<a>> => Home(r) = a
         /\ r.back = <<a, b>> => Home(r) = b
         /\ r.back = <<a, b, c>> => Home(r) = c
         /\ r.back = <<a, b, c, d>> => Home(r) = d
<1>1. r.back = <<>> => Home(r) = r.pc
  BY DEF Home
<1>2. /\ Len(<<a>>) = 1 /\ Len(<<a, b>>) = 2 /\ Len(<<a, b, c>>) = 3 /\ Len(<<a, b, c, d>>) = 4
      /\ <<a>> # <<>> /\ <<a, b>> # <<>> /\ <<a, b, c>> # <<>> /\ <<a, b, c, d>> # <<>>
  OBVIOUS
<1>3. r.back = <<a>> => Home(r) = a
  BY <1>2 DEF Home
<1>4. r.back = <<a, b>> => Home(r) = b
  BY <1>2 DEF Home
<1>5. r.back = <<a, b, c>> => Home(r) = c
  BY <1>2 DEF Home
<1>6. r.back = <<a, b, c, d>> => Home(r) = d
  BY <1>2 DEF Home
<1>7. QED
  BY <1>1, <1>3, <1>4, <1>5, <1>6

(* What is returned to, label by label.                                    *)
LEMMA BacksAre ==
  /\ \A l \in Homes : Backs(l) = {<<>>}
  /\ \A l \in {"find", "match"} : Backs(l) = {<<h>> : h \in Lookups \cup {"step"}}
  /\ \A l \in {"iget", "search", "join", "read"} : Backs(l) = {<<h>> : h \in Gots}
  /\ Backs("fresh") = {<<h>> : h \in Mades}
  /\ \A l \in {"empty", "scrub"} :
       Backs(l) = {<<"search", h>> : h \in Gots} \cup {<<"fresh", h>> : h \in Mades}
  /\ Backs("puts") = {<<h>> : h \in Putters}
  /\ \A l \in {"put", "repeat", "free"} : Backs(l) = {<<"puts", h>> : h \in Putters}
  /\ \A l \in Freeing : Backs(l) = {<<"free", "puts", h>> : h \in Putters} \cup {<<"done">>}
  /\ Backs("freeblk") =
       {<<t, "free", "puts", h>> : t \in {"trunc_zone", "trunc_self", "trunc_end"}, h \in Putters}
         \cup {<<t, "done">> : t \in {"trunc_zone", "trunc_self", "trunc_end"}}
         \cup {<<"mk_undo">>}
  /\ Backs("write") =
       {<<"scrub", "search", h>> : h \in Gots} \cup {<<"scrub", "fresh", h>> : h \in Mades}
         \cup {<<"repeat", "puts", h>> : h \in Putters} \cup {<<"sync_next", "done">>}
  /\ \A l \in {"newblk", "clear"} :
       Backs(l) = {<<"mk_block">>, <<"grown">>} \cup
                  {<<h, "done">> : h \in {"bmap_set", "bmap7_set", "bmap7_put"}}
  /\ \A l \in Mapping \cup {"sync", "sync_next"} : Backs(l) = {<<"done">>}
<1> USE DEF Homes, Lookups, Opens, Gots, Mades, Putters, Adding, Walking, Freeing, Mapping
<1>1. \A l \in Homes : Backs(l) = {<<>>}
  BY DEF Backs
<1>2. \A l \in {"find", "match"} : Backs(l) = {<<h>> : h \in Lookups \cup {"step"}}
  BY DEF Backs
<1>3. \A l \in {"iget", "search", "join", "read"} : Backs(l) = {<<h>> : h \in Gots}
  BY DEF Backs
<1>4. Backs("fresh") = {<<h>> : h \in Mades}
  BY DEF Backs
<1>5. \A l \in {"empty", "scrub"} :
        Backs(l) = {<<"search", h>> : h \in Gots} \cup {<<"fresh", h>> : h \in Mades}
  BY DEF Backs
<1>6. Backs("puts") = {<<h>> : h \in Putters}
  BY DEF Backs
<1>7. \A l \in {"put", "repeat", "free"} : Backs(l) = {<<"puts", h>> : h \in Putters}
  BY DEF Backs
<1>8. \A l \in Freeing : Backs(l) = {<<"free", "puts", h>> : h \in Putters} \cup {<<"done">>}
  BY DEF Backs
<1>9. Backs("freeblk") =
        {<<t, "free", "puts", h>> : t \in {"trunc_zone", "trunc_self", "trunc_end"}, h \in Putters}
          \cup {<<t, "done">> : t \in {"trunc_zone", "trunc_self", "trunc_end"}}
          \cup {<<"mk_undo">>}
  BY DEF Backs
<1>10. Backs("write") =
         {<<"scrub", "search", h>> : h \in Gots} \cup {<<"scrub", "fresh", h>> : h \in Mades}
           \cup {<<"repeat", "puts", h>> : h \in Putters} \cup {<<"sync_next", "done">>}
  BY DEF Backs
<1>11. \A l \in {"newblk", "clear"} :
         Backs(l) = {<<"mk_block">>, <<"grown">>} \cup
                    {<<h, "done">> : h \in {"bmap_set", "bmap7_set", "bmap7_put"}}
  BY DEF Backs
<1>12. \A l \in Mapping \cup {"sync", "sync_next"} : Backs(l) = {<<"done">>}
  BY DEF Backs
<1>13. QED
  BY <1>1, <1>2, <1>3, <1>4, <1>5, <1>6, <1>7, <1>8, <1>9, <1>10, <1>11, <1>12

-----------------------------------------------------------------------------
(* Counting the places                                                     *)

One(b) == IF b THEN 1 ELSE 0

\* How often a process that holds h has slot s to give back.
Refs(h, s) ==
  One(h.file = s) + One(h.empty = s) + One(h.dir = s) + One(h.ino = s)
    + One(h.work = s) + One(h.first = s) + One(h.second = s)

Own(h, s) == {k \in Fields : h[k] = s}

\* T is S with place k, if what is in it, a, is s.
WithPlace(T, S, k, a, s) == k \notin S /\ (a = s => T = S \cup {k}) /\ (a # s => T = S)

(* It has that many more.                                                  *)
LEMMA AddPlace ==
  ASSUME NEW T, NEW S, NEW k, NEW a, NEW s, WithPlace(T, S, k, a, s), IsFiniteSet(S)
  PROVE  IsFiniteSet(T) /\ Cardinality(T) = Cardinality(S) + (IF a = s THEN 1 ELSE 0)
<1>1. CASE a = s
  <2>1. Cardinality(S \cup {k}) = Cardinality(S) + 1 /\ IsFiniteSet(S \cup {k})
    BY FS_AddElement DEF WithPlace
  <2>2. QED
    BY <1>1, <2>1 DEF WithPlace
<1>2. CASE a # s
  <2>1. Cardinality(S) \in Nat
    BY FS_CardinalityType
  <2>2. QED
    BY <1>2, <2>1 DEF WithPlace
<1>3. QED
  BY <1>1, <1>2

(* The places with s are as many as Refs says.                             *)
LEMMA OwnIsRefs ==
  ASSUME NEW h, NEW s
  PROVE  IsFiniteSet(Own(h, s)) /\ Cardinality(Own(h, s)) = Refs(h, s) /\ Refs(h, s) \in Nat
<1> DEFINE M(k) == {y \in {k} : h[k] = s}
           S0 == {}
           S1 == S0 \cup M("file")
           S2 == S1 \cup M("empty")
           S3 == S2 \cup M("dir")
           S4 == S3 \cup M("ino")
           S5 == S4 \cup M("work")
           S6 == S5 \cup M("first")
           S7 == S6 \cup M("second")
<1>0. IsFiniteSet(S0) /\ Cardinality(S0) = 0
  BY FS_EmptySet
<1>1. WithPlace(S1, S0, "file", h.file, s)
  BY DEF WithPlace
<1>2. WithPlace(S2, S1, "empty", h.empty, s)
  BY DEF WithPlace
<1>3. WithPlace(S3, S2, "dir", h.dir, s)
  BY DEF WithPlace
<1>4. WithPlace(S4, S3, "ino", h.ino, s)
  BY DEF WithPlace
<1>5. WithPlace(S5, S4, "work", h.work, s)
  BY DEF WithPlace
<1>6. WithPlace(S6, S5, "first", h.first, s)
  BY DEF WithPlace
<1>7. WithPlace(S7, S6, "second", h.second, s)
  BY DEF WithPlace
<1>8. Own(h, s) = S7
  BY DEF Own, Fields
<1> HIDE DEF S0, S1, S2, S3, S4, S5, S6, S7
<1>9. IsFiniteSet(S1) /\ Cardinality(S1) = Cardinality(S0) + (IF h.file = s THEN 1 ELSE 0)
  BY <1>1, <1>0, AddPlace
<1>10. IsFiniteSet(S2) /\ Cardinality(S2) = Cardinality(S1) + (IF h.empty = s THEN 1 ELSE 0)
  BY <1>2, <1>9, AddPlace
<1>11. IsFiniteSet(S3) /\ Cardinality(S3) = Cardinality(S2) + (IF h.dir = s THEN 1 ELSE 0)
  BY <1>3, <1>10, AddPlace
<1>12. IsFiniteSet(S4) /\ Cardinality(S4) = Cardinality(S3) + (IF h.ino = s THEN 1 ELSE 0)
  BY <1>4, <1>11, AddPlace
<1>13. IsFiniteSet(S5) /\ Cardinality(S5) = Cardinality(S4) + (IF h.work = s THEN 1 ELSE 0)
  BY <1>5, <1>12, AddPlace
<1>14. IsFiniteSet(S6) /\ Cardinality(S6) = Cardinality(S5) + (IF h.first = s THEN 1 ELSE 0)
  BY <1>6, <1>13, AddPlace
<1>15. IsFiniteSet(S7) /\ Cardinality(S7) = Cardinality(S6) + (IF h.second = s THEN 1 ELSE 0)
  BY <1>7, <1>14, AddPlace
<1>16. QED
  BY <1>0, <1>8, <1>9, <1>10, <1>11, <1>12, <1>13, <1>14, <1>15 DEF Refs, One

(* There are finitely many places.                                         *)
LEMMA FieldsFinite ==
  IsFiniteSet(Fields)
<1>1. Fields = {"file", "empty", "dir", "ino", "work", "first", "second"}
  BY DEF Fields
<1>2. IsFiniteSet({"file"} \cup {"empty"} \cup {"dir"} \cup {"ino"} \cup {"work"} \cup {"first"}
                    \cup {"second"})
  BY FS_Singleton, FS_Union
<1>3. Fields = {"file"} \cup {"empty"} \cup {"dir"} \cup {"ino"} \cup {"work"} \cup {"first"}
                 \cup {"second"}
  BY <1>1
<1>4. QED
  BY <1>2, <1>3

(* What the others hold stays; of p's places there are as many as it has   *)
(* now.                                                                    *)
LEMMA UsesMove ==
  ASSUME IsFiniteSet(Proc), NEW p \in Proc, NEW q, NEW s,
         at = [x \in Proc |-> at[x]], at' = [at EXCEPT ![p] = q]
  PROVE  /\ Cardinality(Uses(s)) \in Nat /\ Cardinality(Uses(s)') \in Nat
         /\ Cardinality(Uses(s)') + Refs(Holding(at[p]), s)
              = Cardinality(Uses(s)) + Refs(Holding(q), s)
<1> DEFINE Rest == {u \in (Proc \ {p}) \X Fields : Holding(at[u[1]])[u[2]] = s}
           A == Own(Holding(at[p]), s)
           B == Own(Holding(q), s)
<1>1. IsFiniteSet(Fields)
  BY FieldsFinite
<1>2. IsFiniteSet(Rest)
  <2>1. IsFiniteSet((Proc \ {p}) \X Fields)
    BY <1>1, FS_Difference, FS_Product
  <2>2. Rest \in SUBSET ((Proc \ {p}) \X Fields)
    OBVIOUS
  <2>3. QED
    BY <2>1, <2>2, FS_Subset
<1>3. /\ IsFiniteSet(A) /\ Cardinality(A) = Refs(Holding(at[p]), s)
      /\ IsFiniteSet(B) /\ Cardinality(B) = Refs(Holding(q), s)
      /\ Cardinality(A) \in Nat /\ Cardinality(B) \in Nat
  BY OwnIsRefs
<1>4. Uses(s) = Rest \cup ({p} \X A)
  BY DEF Uses, Own
<1>5. Uses(s)' = Rest \cup ({p} \X B)
  <2>1. \A x \in Proc : at'[x] = IF x = p THEN q ELSE at[x]
    OBVIOUS
  <2>2. \A x \in Proc : Holding(at'[x]) = IF x = p THEN Holding(q) ELSE Holding(at[x])
    BY <2>1
  <2>3. QED
    BY <2>2 DEF Uses, Own
<1>6. Rest \cap ({p} \X A) = {} /\ Rest \cap ({p} \X B) = {}
  OBVIOUS
<1> HIDE DEF Rest, A, B
<1>7. Cardinality(Rest \cup ({p} \X A)) = Cardinality(Rest) + Cardinality(A)
  BY <1>2, <1>3, <1>6, AddRow
<1>8. Cardinality(Rest \cup ({p} \X B)) = Cardinality(Rest) + Cardinality(B)
  BY <1>2, <1>3, <1>6, AddRow
<1>9. Cardinality(Rest) \in Nat
  BY <1>2, FS_CardinalityType
<1>10. QED
  BY <1>3, <1>4, <1>5, <1>7, <1>8, <1>9

TableOK == table = [s \in Slots |-> table[s]] /\ \A s \in Slots : WholeInode(table[s])

\* A step of p after which it does q and counts what it holds.
Steps(p, q) ==
  /\ at' = [at EXCEPT ![p] = q] /\ Good(q)
  /\ TableOK'
  /\ \A s \in Slots : table'[s].count + Refs(Holding(at[p]), s)
                        = table[s].count + Refs(Holding(q), s)

(* Such a step keeps the counts.                                           *)
LEMMA CountStep ==
  ASSUME UsersInv, IsFiniteSet(Proc), NEW p \in Proc, NEW q, Steps(p, q)
  PROVE  UsersInv'
<1>1. at' = [x \in Proc |-> at'[x]] /\ \A x \in Proc : Good(at'[x])
  BY DEF UsersInv, Steps
<1>2. ASSUME NEW s \in Slots
      PROVE  table'[s].count = Cardinality(Uses(s)') + IF s = Root THEN 4 ELSE 0
  <2>1. /\ Cardinality(Uses(s)) \in Nat /\ Cardinality(Uses(s)') \in Nat
        /\ Cardinality(Uses(s)') + Refs(Holding(at[p]), s)
             = Cardinality(Uses(s)) + Refs(Holding(q), s)
    BY <1>2, UsesMove DEF UsersInv, Steps
  <2>2. table'[s].count + Refs(Holding(at[p]), s) = table[s].count + Refs(Holding(q), s)
    BY <1>2 DEF Steps
  <2>3. Refs(Holding(at[p]), s) \in Nat /\ Refs(Holding(q), s) \in Nat
    BY OwnIsRefs
  <2>4. table[s].count = Cardinality(Uses(s)) + IF s = Root THEN 4 ELSE 0
    BY <1>2 DEF UsersInv
  <2>5. table'[s].count \in Int
    BY <1>2 DEF Steps, TableOK, WholeInode
  <2>6. QED
    BY <2>1, <2>2, <2>3, <2>4, <2>5
<1>3. QED
  BY <1>1, <1>2 DEF UsersInv, Steps, TableOK

-----------------------------------------------------------------------------
(* What calls and returns do to what a process is doing                    *)

\* q keeps what r keeps, but for its place and the slot it works on.
Alike(q, r) ==
  /\ Whole(q) /\ q.puts = r.puts /\ q.empty = r.empty /\ q.kind = r.kind
  /\ q.dir = r.dir /\ q.ino = r.ino /\ q.file = r.file

(* Another label.                                                          *)
LEMMA ToDoes ==
  ASSUME NEW r, Whole(r), NEW l
  PROVE  /\ Alike(To(r, l), r) /\ To(r, l).work = r.work
         /\ To(r, l).pc = l /\ To(r, l).back = r.back
<1> DEFINE q == To(r, l)
<1>1. q = [r EXCEPT !.pc = l]
  BY DEF To
<1> HIDE DEF q
<1>2. QED
  BY <1>1, SMTT(60) DEF q, Whole, Alike

(* A call.                                                                 *)
LEMMA EnterDoes ==
  ASSUME NEW r, Whole(r), NEW l, NEW h
  PROVE  /\ Alike(Enter(r, l, h), r) /\ Enter(r, l, h).work = r.work
         /\ Enter(r, l, h).pc = l /\ Enter(r, l, h).back = <<h>> \o r.back
<1> DEFINE q == Enter(r, l, h)
<1>1. q = [r EXCEPT !.pc = l, !.back = <<h>> \o r.back]
  BY DEF Enter, Whole
<1> HIDE DEF q
<1>2. QED
  BY <1>1, ZenonT(60) DEF q, Whole, Alike

(* A call from home.                                                       *)
LEMMA EnterHome ==
  ASSUME NEW r, Whole(r), r.back = <<>>, NEW l, NEW h
  PROVE  /\ Alike(Enter(r, l, h), r) /\ Enter(r, l, h).work = r.work
         /\ Enter(r, l, h).pc = l /\ Enter(r, l, h).back = <<h>>
<1> DEFINE q == Enter(r, l, h)
<1>1. <<h>> \o <<>> = <<h>>
  OBVIOUS
<1>2. q = [r EXCEPT !.pc = l, !.back = <<h>>]
  BY <1>1 DEF Enter, Whole
<1> HIDE DEF q
<1>3. QED
  BY <1>2, ZenonT(60) DEF q, Whole, Alike

(* A return.                                                               *)
LEMMA BackDoes ==
  ASSUME NEW r, Whole(r)
  PROVE  /\ Alike(Back(r), r) /\ Back(r).work = r.work
         /\ Back(r).pc = Head(r.back) /\ Back(r).back = Tail(r.back)
<1> DEFINE q == Back(r)
<1>1. q = [r EXCEPT !.pc = Head(r.back), !.back = Tail(r.back)]
  BY DEF Back, Whole
<1> HIDE DEF q
<1>2. QED
  BY <1>1, ZenonT(60) DEF q, Whole, Alike

(* A call of iput for some slots.                                          *)
LEMMA PutAllDoes ==
  ASSUME NEW r, Whole(r), NEW slots \in Seq(Nat), NEW l
  PROVE  /\ Whole(PutAll(r, slots, l)) /\ PutAll(r, slots, l).puts = slots
         /\ PutAll(r, slots, l).work = r.work /\ PutAll(r, slots, l).empty = r.empty
         /\ PutAll(r, slots, l).kind = r.kind /\ PutAll(r, slots, l).dir = r.dir
         /\ PutAll(r, slots, l).ino = r.ino /\ PutAll(r, slots, l).file = r.file
         /\ PutAll(r, slots, l).pc = "puts" /\ PutAll(r, slots, l).back = <<l>> \o r.back
<1> DEFINE e == Enter(r, "puts", l)
           q == PutAll(r, slots, l)
<1>1. Alike(e, r) /\ e.work = r.work /\ e.pc = "puts" /\ e.back = <<l>> \o r.back
  BY EnterDoes
<1>2. q = [e EXCEPT !.puts = slots]
  BY DEF PutAll
<1> HIDE DEF q, e
<1>3. QED
  BY <1>1, <1>2, ZenonT(60) DEF q, Whole, Alike

(* Fields that say nothing about slots.                                    *)
LEMMA DataDoes ==
  ASSUME NEW r, Whole(r), NEW v
  PROVE  /\ Alike([r EXCEPT !.num = v], r) /\ Alike([r EXCEPT !.blk = v], r)
         /\ Alike([r EXCEPT !.ib = v], r) /\ Alike([r EXCEPT !.bh = v], r)
         /\ Alike([r EXCEPT !.rest = v], r) /\ Alike([r EXCEPT !.pos = v], r)
         /\ \A q \in {[r EXCEPT !.num = v], [r EXCEPT !.blk = v], [r EXCEPT !.ib = v],
                      [r EXCEPT !.bh = v], [r EXCEPT !.rest = v], [r EXCEPT !.pos = v]} :
              q.pc = r.pc /\ q.back = r.back /\ q.work = r.work
  BY SMTT(60) DEF Whole, Alike

-----------------------------------------------------------------------------
(* The steps inside a call                                                 *)

\* The places inside a call with the same ways back.
Groups == {{"find", "match"}, {"search", "join", "read"}, {"empty", "scrub"}, Freeing,
           {"newblk", "clear"}, Mapping, {"sync", "sync_next"}}

(* iput is at work just in these places.                                   *)
LEMMA InPutIs ==
  ASSUME NEW r, NEW t, NEW h, NEW g
  PROVE  /\ r.pc \in {"put", "repeat", "free"} => InPut(r)
         /\ r.pc \in Freeing /\ r.back = <<"free", "puts", h>> => InPut(r)
         /\ r.pc \in Freeing /\ r.back = <<"done">> => ~InPut(r)
         /\ r.pc = "freeblk" /\ r.back = <<t, "free", "puts", h>> => InPut(r)
         /\ r.pc = "freeblk" /\ (r.back = <<t, h>> \/ r.back = <<h>>) => ~InPut(r)
         /\ r.pc = "write" /\ r.back = <<"repeat", t, h>> => InPut(r)
         /\ r.pc = "write" /\ r.back \in {<<"scrub", t, h>>, <<"sync_next", h>>} => ~InPut(r)
         /\ r.pc \notin {"put", "repeat", "free", "freeblk", "write"} \cup Freeing => ~InPut(r)
<1> USE DEF Freeing
<1>1. <<"free", "puts", h>> # <<"done">>
  OBVIOUS
<1>2. Len(<<t, "free", "puts", h>>) = 4 /\ Len(<<t, h>>) = 2 /\ Len(<<h>>) = 1
  OBVIOUS
<1>3. <<"repeat", t, h>>[1] = "repeat" /\ <<"scrub", t, h>>[1] = "scrub"
      /\ <<"sync_next", h>>[1] = "sync_next"
  OBVIOUS
<1>4. QED
  BY <1>1, <1>2, <1>3 DEF InPut

\* The iget of a process is past its search of an empty slot.
Searching == {"search", "join", "read", "fresh"}

(* A step inside a call keeps what the process holds.                      *)
LEMMA Inside ==
  ASSUME NEW r, Good(r), NEW q, Alike(q, r),
         q.back \in Backs(q.pc), Home(q) = Home(r), InPut(q) <=> InPut(r),
         InPut(r) => q.work = r.work,
         r.pc \notin Gots \cup Mades, q.pc \notin Gots \cup Mades,
         r.pc \in Searching => q.pc \in Searching, q.pc = "read" => q.work = q.empty,
         r.pc = "puts" <=> q.pc = "puts"
  PROVE  Good(q) /\ Holding(q) = Holding(r)
<1>1. Holding(q) = Holding(r)
  BY DEF Alike, Holding
<1>2. Good(q)
  BY DEF Good, Alike, Searching
<1>3. QED
  BY <1>1, <1>2

(* Such a step that leaves the counts alone is one that counts.            *)
LEMMA Keeps ==
  ASSUME UsersInv, NEW p \in Proc, NEW q, at' = [at EXCEPT ![p] = q],
         Good(q), Holding(q) = Holding(at[p]), TableOK',
         \A s \in Slots : table'[s].count = table[s].count
  PROVE  Steps(p, q)
  BY DEF Steps

(* The places of the groups are no homes.                                  *)
LEMMA GroupsApart ==
  ASSUME NEW G \in Groups, NEW l \in G, NEW m \in G
  PROVE  /\ l \notin Homes \cup {"put", "repeat", "free", "freeblk", "write", "puts"}
         /\ l \in Freeing <=> m \in Freeing
         /\ l \in Searching <=> m \in Searching
<1> USE DEF Homes, Lookups, Opens, Gots, Mades, Putters, Adding, Walking, Freeing, Mapping, Searching
<1>1. CASE G = {"find", "match"}
  BY <1>1
<1>2. CASE G = {"search", "join", "read"}
  BY <1>2
<1>3. CASE G = {"empty", "scrub"}
  BY <1>3
<1>4. CASE G = Freeing
  BY <1>4
<1>5. CASE G = {"newblk", "clear"}
  BY <1>5
<1>6. CASE G = Mapping
  BY <1>6
<1>7. CASE G = {"sync", "sync_next"}
  BY <1>7
<1>8. QED
  BY <1>1, <1>2, <1>3, <1>4, <1>5, <1>6, <1>7 DEF Groups

(* They have the same ways back, and have one.                             *)
LEMMA GroupsBack ==
  ASSUME NEW G \in Groups, NEW l \in G, NEW m \in G
  PROVE  Backs(l) = Backs(m) /\ <<>> \notin Backs(l)
<1>0. \A a, b, c : <<>> \notin {<<a>>, <<a, b>>, <<a, b, c>>}
  OBVIOUS
<1>1. CASE G = {"find", "match"}
  <2>1. /\ Backs(l) = {<<h>> : h \in Lookups \cup {"step"}}
        /\ Backs(m) = {<<h>> : h \in Lookups \cup {"step"}}
    BY <1>1, BacksAre
  <2>2. QED
    BY <1>0, <2>1
<1>2. CASE G = {"search", "join", "read"}
  <2>1. Backs(l) = {<<h>> : h \in Gots} /\ Backs(m) = {<<h>> : h \in Gots}
    BY <1>2, BacksAre
  <2>2. QED
    BY <1>0, <2>1
<1>3. CASE G = {"empty", "scrub"}
  <2>1. /\ Backs(l) = {<<"search", h>> : h \in Gots} \cup {<<"fresh", h>> : h \in Mades}
        /\ Backs(m) = {<<"search", h>> : h \in Gots} \cup {<<"fresh", h>> : h \in Mades}
    BY <1>3, BacksAre
  <2>2. QED
    BY <1>0, <2>1
<1>4. CASE G = Freeing
  <2>1. /\ Backs(l) = {<<"free", "puts", h>> : h \in Putters} \cup {<<"done">>}
        /\ Backs(m) = {<<"free", "puts", h>> : h \in Putters} \cup {<<"done">>}
    BY <1>4, BacksAre
  <2>2. QED
    BY <1>0, <2>1
<1>5. CASE G = {"newblk", "clear"}
  <2> DEFINE B == {<<"mk_block">>, <<"grown">>} \cup
                  {<<h, "done">> : h \in {"bmap_set", "bmap7_set", "bmap7_put"}}
  <2>1. Backs(l) = B /\ Backs(m) = B
    BY <1>5, BacksAre
  <2>2. <<>> \notin B
    BY <1>0
  <2>3. QED
    BY <2>1, <2>2
<1>6. CASE G = Mapping
  <2>1. Backs(l) = {<<"done">>} /\ Backs(m) = {<<"done">>}
    BY <1>6, BacksAre
  <2>2. QED
    BY <1>0, <2>1
<1>7. CASE G = {"sync", "sync_next"}
  <2>1. Backs(l) = {<<"done">>} /\ Backs(m) = {<<"done">>}
    BY <1>7, BacksAre
  <2>2. QED
    BY <1>0, <2>1
<1>8. QED
  BY <1>1, <1>2, <1>3, <1>4, <1>5, <1>6, <1>7 DEF Groups

(* From one place of a group to another.                                   *)
LEMMA Hop ==
  ASSUME NEW r, Good(r), NEW q, Alike(q, r), q.back = r.back, q.work = r.work \/ r.pc \notin Freeing,
         q.pc = "read" => q.work = q.empty, NEW G \in Groups, r.pc \in G, q.pc \in G
  PROVE  Good(q) /\ Holding(q) = Holding(r)
<1>1. r.back \in Backs(r.pc)
  BY DEF Good
<1>2. /\ r.pc \notin Homes \cup {"put", "repeat", "free", "freeblk", "write", "puts"}
      /\ q.pc \notin Homes \cup {"put", "repeat", "free", "freeblk", "write", "puts"}
      /\ r.pc \in Freeing <=> q.pc \in Freeing
      /\ r.pc \in Searching <=> q.pc \in Searching
  BY GroupsApart
<1>3. Backs(q.pc) = Backs(r.pc) /\ <<>> \notin Backs(r.pc)
  BY GroupsBack
<1>4. InPut(q) <=> InPut(r)
  <2>1. CASE r.pc \in Freeing
    <3>1. r.back = <<"done">> \/ \E h : r.back = <<"free", "puts", h>>
      BY <1>1, <2>1, BacksAre
    <3>2. QED
      BY <1>2, <2>1, <3>1, InPutIs
  <2>2. CASE r.pc \notin Freeing
    BY <1>2, <2>2, InPutIs
  <2>3. QED
    BY <2>1, <2>2
<1>5. InPut(r) => q.work = r.work
  BY <1>2, InPutIs
<1>6. Home(q) = Home(r)
  BY <1>1, <1>3 DEF Home
<1>7. Gots \cup Mades \subseteq Homes
  BY DEF Homes
<1>8. QED
  BY <1>1, <1>2, <1>3, <1>4, <1>5, <1>6, <1>7, Inside

-----------------------------------------------------------------------------
(* The table                                                               *)

TableIs(t) == t = [s \in Slots |-> t[s]] /\ \A s \in Slots : WholeInode(t[s])

\* Inode i with v in one field, which is not the count.
Changed(i, v) ==
  {[i EXCEPT !.num = v], [i EXCEPT !.dirt = v], [i EXCEPT !.lock = v], [i EXCEPT !.mode = v],
   [i EXCEPT !.links = v], [i EXCEPT !.zone = v], [i EXCEPT !.ind = v]}

(* It counts the same users.                                               *)
LEMMA FieldOnly ==
  ASSUME NEW i, WholeInode(i), NEW v, NEW j \in Changed(i, v)
  PROVE  WholeInode(j) /\ j.count = i.count
<1>1. CASE j = [i EXCEPT !.num = v]
  BY <1>1 DEF WholeInode
<1>2. CASE j = [i EXCEPT !.dirt = v]
  BY <1>2 DEF WholeInode
<1>3. CASE j = [i EXCEPT !.lock = v]
  BY <1>3 DEF WholeInode
<1>4. CASE j = [i EXCEPT !.mode = v]
  BY <1>4 DEF WholeInode
<1>5. CASE j = [i EXCEPT !.links = v]
  BY <1>5 DEF WholeInode
<1>6. CASE j = [i EXCEPT !.zone = v]
  BY <1>6 DEF WholeInode
<1>7. CASE j = [i EXCEPT !.ind = v]
  BY <1>7 DEF WholeInode
<1>8. QED
  BY <1>1, <1>2, <1>3, <1>4, <1>5, <1>6, <1>7 DEF Changed

(* The count itself.                                                       *)
LEMMA CountOnly ==
  ASSUME NEW i, WholeInode(i), NEW v \in Int
  PROVE  WholeInode([i EXCEPT !.count = v]) /\ [i EXCEPT !.count = v].count = v
<1> DEFINE j == [i EXCEPT !.count = v]
<1>1. j = [i EXCEPT !.count = v]
  OBVIOUS
<1> HIDE DEF j
<1>2. QED
  BY <1>1 DEF j, WholeInode

\* Table t with inode i in slot x.
Written(t, x, i) == [t EXCEPT ![x] = i]

(* It is a table.                                                          *)
LEMMA WriteSlot ==
  ASSUME NEW t, TableIs(t), NEW x, NEW i, x \in Slots => WholeInode(i)
  PROVE  /\ TableIs(Written(t, x, i))
         /\ \A s \in Slots : Written(t, x, i)[s] = IF s = x THEN i ELSE t[s]
<1> DEFINE u == Written(t, x, i)
<1>1. \A s \in Slots : u[s] = IF s = x THEN i ELSE t[s]
  BY DEF TableIs, Written
<1>2. u = [s \in Slots |-> u[s]]
  BY DEF TableIs, Written
<1> HIDE DEF u
<1>3. TableIs(u)
  BY <1>1, <1>2 DEF TableIs
<1>4. QED
  BY <1>1, <1>3 DEF u

\* Table t with v in one field of the inode of slot x, which is not the count.
ChangedAt(t, x, v) ==
  {[t EXCEPT ![x].num = v], [t EXCEPT ![x].dirt = v], [t EXCEPT ![x].lock = v],
   [t EXCEPT ![x].mode = v], [t EXCEPT ![x].links = v], [t EXCEPT ![x].zone = v],
   [t EXCEPT ![x].ind = v]}

(* It counts the same users.                                               *)
LEMMA WriteField ==
  ASSUME NEW t, TableIs(t), NEW x, NEW v, NEW u \in ChangedAt(t, x, v)
  PROVE  TableIs(u) /\ \A s \in Slots : u[s].count = t[s].count
<1>1. PICK j \in Changed(t[x], v) : u = [t EXCEPT ![x] = j]
  BY DEF Changed, ChangedAt
<1>2. x \in Slots => WholeInode(j) /\ j.count = t[x].count
  <2>1. x \in Slots => WholeInode(t[x])
    BY DEF TableIs
  <2>2. QED
    BY <1>1, <2>1, FieldOnly
<1>3. \A s \in Slots : u[s] = IF s = x THEN j ELSE t[s]
  BY <1>1 DEF TableIs
<1>4. TableIs(u)
  <2>1. u = [s \in Slots |-> u[s]]
    BY <1>1 DEF TableIs
  <2>2. QED
    BY <1>2, <1>3, <2>1 DEF TableIs
<1>5. QED
  BY <1>2, <1>3, <1>4

\* Table t with k more users of slot x.
Counted(t, x, k) == [t EXCEPT ![x].count = t[x].count + k]

(* One more, or one less, is counted.                                      *)
LEMMA WriteCount ==
  ASSUME NEW t, TableIs(t), NEW x, NEW k \in Int
  PROVE  /\ TableIs(Counted(t, x, k))
         /\ \A s \in Slots : Counted(t, x, k)[s].count = t[s].count + IF s = x THEN k ELSE 0
<1> DEFINE j == [t[x] EXCEPT !.count = t[x].count + k]
           u == Counted(t, x, k)
<1>1. u = [t EXCEPT ![x] = j]
  BY DEF Counted
<1>2. x \in Slots => WholeInode(j) /\ j.count = t[x].count + k
  <2>1. x \in Slots => WholeInode(t[x]) /\ t[x].count \in Int
    BY DEF TableIs, WholeInode
  <2>2. QED
    BY <2>1, CountOnly
<1> HIDE DEF j, u
<1>3. \A s \in Slots : u[s] = IF s = x THEN j ELSE t[s]
  BY <1>1 DEF TableIs
<1>4. TableIs(u)
  <2>1. u = [s \in Slots |-> u[s]]
    BY <1>1 DEF TableIs
  <2>2. QED
    BY <1>2, <1>3, <2>1 DEF TableIs
<1>5. \A s \in Slots : t[s].count \in Int
  BY DEF TableIs, WholeInode
<1>6. \A s \in Slots : u[s].count = t[s].count + IF s = x THEN k ELSE 0
  BY <1>2, <1>3, <1>5
<1>7. QED
  BY <1>4, <1>6 DEF u

-----------------------------------------------------------------------------
(* Steps at home                                                           *)

(* The kinds of calls at a home.                                           *)
LEMMA KindsAre ==
  /\ KindsAt("user") = {""}
  /\ \A h \in Lookups : KindsAt(h) = {h}
  /\ \A h \in {"made", "opened", "open_take"} : KindsAt(h) = Opens
  /\ \A h \in {"mk_made", "mk_block", "mk_fill", "mk_free", "mk_undo"} : KindsAt(h) = {"mkdir"}
  /\ \A h \in {"rm_got", "rm_empty"} : KindsAt(h) = {"rmdir"}
  /\ \A h \in {"un_got", "un_clear"} : KindsAt(h) = {"unlink"}
  /\ \A h \in {"ln_take", "ln_old"} : KindsAt(h) = {"link"}
  /\ KindsAt("ln_count") = {"linkto"}
  /\ \A h \in Adding : KindsAt(h) = Opens \cup {"mkdir", "linkto"}
  /\ \A h \in Walking \cup {"down", "into"} : KindsAt(h) = Lookups
  /\ KindsAt("done") = Kinds
<1> USE DEF Lookups, Opens, Adding, Walking, Kinds
<1>1. KindsAt("user") = {""} /\ KindsAt("done") = Kinds /\ KindsAt("ln_count") = {"linkto"}
  BY DEF KindsAt
<1>2. \A h \in Lookups : KindsAt(h) = {h}
  BY ZenonT(60) DEF KindsAt
<1>3. \A h \in {"made", "opened", "open_take"} : KindsAt(h) = Opens
  BY DEF KindsAt
<1>4. \A h \in {"mk_made", "mk_block", "mk_fill", "mk_free", "mk_undo"} : KindsAt(h) = {"mkdir"}
  BY DEF KindsAt
<1>5. \A h \in {"rm_got", "rm_empty"} : KindsAt(h) = {"rmdir"}
  BY DEF KindsAt
<1>6. \A h \in {"un_got", "un_clear"} : KindsAt(h) = {"unlink"}
  BY DEF KindsAt
<1>7. \A h \in {"ln_take", "ln_old"} : KindsAt(h) = {"link"}
  BY DEF KindsAt
<1>8. \A h \in Adding : KindsAt(h) = Opens \cup {"mkdir", "linkto"}
  BY DEF KindsAt
<1>9. \A h \in Walking \cup {"down", "into"} : KindsAt(h) = Lookups
  BY DEF KindsAt
<1>10. QED
  BY <1>1, <1>2, <1>3, <1>4, <1>5, <1>6, <1>7, <1>8, <1>9

(* All of them are kinds.                                                  *)
LEMMA KindsIn ==
  ASSUME NEW h \in Homes
  PROVE  KindsAt(h) \subseteq Kinds
<1>1. h \in {"user", "done", "ln_count"} \cup Lookups \cup {"made", "opened", "open_take"}
           \cup {"mk_made", "mk_block", "mk_fill", "mk_free", "mk_undo"}
           \cup {"rm_got", "rm_empty"} \cup {"un_got", "un_clear"} \cup {"ln_take", "ln_old"}
           \cup Adding \cup Walking \cup {"down", "into"}
  BY DEF Homes, Gots, Mades, Putters
<1>2. CASE h \in {"user", "done", "ln_count"}
  BY <1>2, KindsAre DEF Kinds, Lookups
<1>3. CASE h \in Lookups
  <2>1. KindsAt(h) = {h}
    BY <1>3, KindsAre
  <2>2. QED
    BY <1>3, <2>1 DEF Kinds
<1>4. CASE h \in {"made", "opened", "open_take"}
  BY <1>4, KindsAre DEF Kinds, Lookups
<1>5. CASE h \in {"mk_made", "mk_block", "mk_fill", "mk_free", "mk_undo"}
  <2>1. KindsAt(h) = {"mkdir"}
    BY <1>5, KindsAre
  <2>2. QED
    BY <2>1 DEF Kinds, Lookups
<1>6. CASE h \in {"rm_got", "rm_empty"} \cup {"un_got", "un_clear"} \cup {"ln_take", "ln_old"}
  <2>1. /\ h \in {"rm_got", "rm_empty"} => KindsAt(h) = {"rmdir"}
        /\ h \in {"un_got", "un_clear"} => KindsAt(h) = {"unlink"}
        /\ h \in {"ln_take", "ln_old"} => KindsAt(h) = {"link"}
    BY KindsAre
  <2>2. {"rmdir", "unlink", "link"} \subseteq Kinds
    BY DEF Kinds, Lookups
  <2>3. QED
    BY <1>6, <2>1, <2>2
<1>7. CASE h \in Adding
  <2>1. KindsAt(h) = Opens \cup {"mkdir", "linkto"}
    BY <1>7, KindsAre
  <2>2. QED
    BY <2>1 DEF Kinds, Lookups
<1>8. CASE h \in Walking \cup {"down", "into"}
  BY <1>8, KindsAre DEF Kinds
<1>9. QED
  BY <1>1, <1>2, <1>3, <1>4, <1>5, <1>6, <1>7, <1>8

\* What a process holds that is not looking for a slot of the table.
Places(file, dir, ino, work, first, second) ==
  [file |-> file, empty |-> NoSlot, dir |-> dir, ino |-> ino, work |-> work,
   first |-> first, second |-> second]

\* On the way back to home h.
HeldFor(r, h, work) ==
  Places(r.file, IF h \in WithDir THEN r.dir ELSE NoSlot, IF h # "done" THEN r.ino ELSE NoSlot,
         work, IF Len(r.puts) >= 1 THEN r.puts[1] ELSE NoSlot,
         IF Len(r.puts) >= 2 THEN r.puts[2] ELSE NoSlot)

(* Homes are not inside iput.                                              *)
LEMMA HomesApart ==
  /\ Homes \cap ({"put", "repeat", "free", "freeblk", "write", "puts"} \cup Freeing \cup Searching) = {}
  /\ Gots \cup Mades \cup Putters \cup Lookups \cup Adding \cup Walking \cup {"done"} \subseteq Homes
  /\ (Gots \cup Mades) \cap (Putters \cup Lookups \cup Adding \cup Walking) = {}
BY DEF Homes, Lookups, Opens, Gots, Mades, Putters, Adding, Walking, Freeing, Searching

(* A process at home.                                                      *)
LEMMA AtHome ==
  ASSUME NEW r, Good(r), r.pc \in Homes
  PROVE  /\ Whole(r) /\ r.back = <<>> /\ Home(r) = r.pc /\ ~InPut(r) /\ r.puts = <<>>
         /\ r.empty = NoSlot /\ r.kind \in KindsAt(r.pc) /\ r.kind \in Kinds
         /\ r.kind \in Opens /\ r.pc \notin {"user", "done"} => r.file = NoSlot
         /\ r.kind # "linkto" /\ r.pc \notin WithIno \cup {"done"} => r.ino = NoSlot
         /\ Holding(r) = Places(r.file,
                                IF r.pc \in WithDir THEN r.dir ELSE NoSlot,
                                IF r.pc # "done" THEN r.ino ELSE NoSlot,
                                IF r.pc \in Gots \cup Mades THEN r.work ELSE NoSlot,
                                NoSlot, NoSlot)
<1>1. r.back = <<>> /\ Home(r) = r.pc
  BY BacksAre DEF Good, Home
<1>2. ~InPut(r)
  BY HomesApart, InPutIs
<1>3. r.puts = <<>> /\ r.empty = NoSlot /\ Len(r.puts) = 0
  BY <1>2, HomesApart DEF Good, Searching
<1>4. r.kind \in KindsAt(r.pc) /\ r.kind \in Kinds
  BY <1>1, KindsIn DEF Good
<1>5. /\ r.kind \in Opens /\ r.pc \notin {"user", "done"} => r.file = NoSlot
      /\ r.kind # "linkto" /\ r.pc \notin WithIno \cup {"done"} => r.ino = NoSlot
  BY <1>1 DEF Good
<1>6. Holding(r) = Places(r.file,
                          IF r.pc \in WithDir THEN r.dir ELSE NoSlot,
                          IF r.pc # "done" THEN r.ino ELSE NoSlot,
                          IF r.pc \in Gots \cup Mades THEN r.work ELSE NoSlot,
                          NoSlot, NoSlot)
  BY <1>1, <1>2, <1>3 DEF Holding, Places
<1>7. QED
  BY <1>1, <1>2, <1>3, <1>4, <1>5, <1>6 DEF Good

\* q, at home h or on the way back to it, is of a kind that comes there.
Fits(q, h) ==
  /\ Whole(q) /\ q.empty = NoSlot /\ q.kind \in KindsAt(h)
  /\ q.kind \in Opens /\ h \notin {"user", "done"} => q.file = NoSlot
  /\ q.kind # "linkto" /\ h \notin WithIno \cup {"done"} => q.ino = NoSlot

(* A process comes home.                                                   *)
LEMMA ComesHome ==
  ASSUME NEW q, q.pc \in Homes, Fits(q, q.pc), q.back = <<>>, q.puts = <<>>
  PROVE  /\ Good(q)
         /\ Holding(q) = HeldFor(q, q.pc, IF q.pc \in Gots \cup Mades THEN q.work ELSE NoSlot)
<1>1. q.back \in Backs(q.pc) /\ Home(q) = q.pc
  BY BacksAre DEF Home
<1>2. ~InPut(q) /\ q.pc # "read"
  BY HomesApart, InPutIs DEF Searching
<1>3. Good(q)
  BY <1>1, <1>2 DEF Good, Fits
<1>4. Holding(q) = HeldFor(q, q.pc, IF q.pc \in Gots \cup Mades THEN q.work ELSE NoSlot)
  BY <1>1, <1>2 DEF Holding, HeldFor, Places, Fits
<1>5. QED
  BY <1>3, <1>4

(* A process goes to give slots back.                                      *)
LEMMA GoesToPut ==
  ASSUME NEW q, NEW h \in Putters, q.pc = "puts", q.back = <<h>>, Fits(q, h), Len(q.puts) <= 2
  PROVE  Good(q) /\ Holding(q) = HeldFor(q, h, NoSlot)
<1>1. q.back \in Backs(q.pc) /\ Home(q) = h
  BY BacksAre, HomeIs
<1>2. ~InPut(q) /\ q.pc # "read" /\ q.pc \notin Gots \cup Mades
  BY InPutIs DEF Gots, Mades, Freeing
<1>3. Good(q)
  BY <1>1, <1>2 DEF Good, Fits
<1>4. Holding(q) = HeldFor(q, h, NoSlot)
  BY <1>1, <1>2 DEF Holding, HeldFor, Places, Fits
<1>5. QED
  BY <1>3, <1>4

(* A process goes into a call, other than iput.                            *)
LEMMA GoesInto ==
  ASSUME NEW q, NEW h, Home(q) = h, q.back \in Backs(q.pc), ~InPut(q), Fits(q, h), q.puts = <<>>,
         q.pc \notin Homes \cup {"read"}
  PROVE  Good(q) /\ Holding(q) = HeldFor(q, h, NoSlot)
<1>1. q.pc \notin Gots \cup Mades
  BY HomesApart
<1>2. Good(q)
  BY <1>1 DEF Good, Fits
<1>3. Holding(q) = HeldFor(q, h, NoSlot)
  BY <1>1 DEF Holding, HeldFor, Places, Fits
<1>4. QED
  BY <1>2, <1>3

\* Each slot is held as often in q as in r.
AsMuch(q, r) == \A s \in Slots : Refs(Holding(q), s) = Refs(Holding(r), s)

(* The table as it is.                                                     *)
LEMMA SameTable ==
  ASSUME UsersInv
  PROVE  /\ TableIs(table)
         /\ UNCHANGED table => TableIs(table') /\ \A s \in Slots : table'[s].count = table[s].count
BY DEF UsersInv, TableIs, WholeInode

(* A step of p that counts nobody more and nobody less.                    *)
LEMMA StepsOn ==
  ASSUME UsersInv, NEW p \in Proc, NEW q, at' = [at EXCEPT ![p] = q],
         Good(q), AsMuch(q, at[p]), TableIs(table'),
         \A s \in Slots : table'[s].count = table[s].count
  PROVE  UsersInv'
<1>1. IsFiniteSet(Proc)
  BY DirectoriesAssumption
<1>2. TableOK'
  BY DEF TableIs, TableOK
<1>3. Steps(p, q)
  BY <1>2 DEF Steps, AsMuch
<1>4. QED
  BY <1>1, <1>3, CountStep

(* No slot at all is none of the slots.                                    *)
LEMMA NoSlotIs ==
  NoSlot \notin Slots /\ NoSlot \in Nat /\ Root \in Nat
BY DirectoriesAssumption DEF NoSlot, Slots, Root

(* How often a slot is in such places.                                     *)
LEMMA RefsAre ==
  ASSUME NEW s \in Slots, NEW f, NEW d, NEW i, NEW w, NEW x, NEW y
  PROVE  Refs(Places(f, d, i, w, x, y), s)
           = One(f = s) + One(d = s) + One(i = s) + One(w = s) + One(x = s) + One(y = s)
BY NoSlotIs DEF Refs, Places, One

(* A call fails: what it holds is to be given back.                        *)
LEMMA FailDoes ==
  ASSUME NEW r, Good(r), r.pc \in WithDir \cap Homes, r.pc \in Gots \cup Mades => r.work = NoSlot,
         NEW held, held = IF r.ino = NoSlot THEN <<>> ELSE <<r.ino>>
  PROVE  LET q == PutAll(NoBlock(r), <<r.dir>> \o held, "done")
         IN  Good(q) /\ AsMuch(q, r)
<1> DEFINE e == NoBlock(r)
           slots == <<r.dir>> \o held
           q == PutAll(e, slots, "done")
<1>1. /\ Whole(r) /\ r.back = <<>> /\ r.empty = NoSlot /\ r.kind \in Kinds
      /\ Holding(r) = Places(r.file,
                             IF r.pc \in WithDir THEN r.dir ELSE NoSlot,
                             IF r.pc # "done" THEN r.ino ELSE NoSlot,
                             IF r.pc \in Gots \cup Mades THEN r.work ELSE NoSlot,
                             NoSlot, NoSlot)
  BY AtHome
<1>2. r.dir \in Nat /\ r.ino \in Nat
  BY <1>1 DEF Whole
<1>3. r.pc # "done"
  BY DEF WithDir, Walking, Lookups, Opens, Mades, Adding
<1>4. Alike(e, r) /\ e.back = <<>>
  BY <1>1, DataDoes DEF NoBlock
<1>5. slots = (IF r.ino = NoSlot THEN <<r.dir>> ELSE <<r.dir, r.ino>>) /\ slots \in Seq(Nat)
  <2>1. CASE r.ino = NoSlot
    <3>1. slots = <<r.dir>>
      BY <2>1
    <3>2. QED
      BY <1>2, <2>1, <3>1
  <2>2. CASE r.ino # NoSlot
    <3>1. slots = <<r.dir, r.ino>>
      BY <2>2, ConsOne
    <3>2. QED
      BY <1>2, <2>2, <3>1
  <2>3. QED
    BY <2>1, <2>2
<1>6. /\ Len(slots) = (IF r.ino = NoSlot THEN 1 ELSE 2) /\ Len(slots) <= 2 /\ slots[1] = r.dir
      /\ r.ino # NoSlot => slots[2] = r.ino
  BY <1>5
<1> HIDE DEF e, slots
<1>7. /\ Whole(q) /\ q.puts = slots /\ q.empty = e.empty /\ q.kind = e.kind /\ q.ino = e.ino
      /\ q.file = e.file /\ q.pc = "puts" /\ q.back = <<"done">> \o e.back
  <2>1. Whole(e) /\ slots \in Seq(Nat)
    BY <1>4, <1>5 DEF Alike
  <2>2. QED
    BY <2>1, PutAllDoes
<1> HIDE DEF q
<1>8. q.back = <<"done">>
  BY <1>4, <1>7
<1>9. Fits(q, "done")
  BY <1>1, <1>4, <1>7, KindsAre DEF Fits, Alike
<1>10. Len(q.puts) <= 2 /\ "done" \in Putters
  <2>1. "done" \in Putters
    BY DEF Putters
  <2>2. Len(slots) <= 2
    BY <1>6
  <2>3. QED
    BY <1>7, <2>1, <2>2
<1>11. Good(q) /\ Holding(q) = HeldFor(q, "done", NoSlot)
  BY <1>7, <1>8, <1>9, <1>10, GoesToPut
<1>12. AsMuch(q, r)
  <2>1. SUFFICES ASSUME NEW s \in Slots
                 PROVE  Refs(Holding(q), s) = Refs(Holding(r), s)
    BY DEF AsMuch
  <2>2. s # NoSlot
    BY NoSlotIs
  <2>3. "done" \notin WithDir
    BY DEF WithDir, Walking, Lookups, Opens, Mades, Adding
  <2>4. QED
    BY <1>1, <1>3, <1>4, <1>6, <1>7, <1>11, <2>2, <2>3, RefsAre DEF HeldFor, Alike, One
<1>13. QED
  BY <1>11, <1>12 DEF q, e, slots

\* q is to give the slots back and then be at l, and keeps the rest of r.
Putting(q, r, slots, l) ==
  /\ Whole(q) /\ q.pc = "puts" /\ q.back = <<l>> /\ q.puts = slots /\ q.empty = r.empty
  /\ q.kind = r.kind /\ q.dir = r.dir /\ q.ino = r.ino /\ q.file = r.file

(* The forms in which iput is called.                                      *)
LEMMA PutForms ==
  ASSUME NEW r, Whole(r), r.back = <<>>, NEW slots \in Seq(Nat), NEW l, NEW v
  PROVE  /\ Putting(PutAll(r, slots, l), r, slots, l)
         /\ Putting(NoBlock(PutAll(r, slots, l)), r, slots, l)
         /\ Putting(NoBlock([PutAll(r, slots, l) EXCEPT !.num = v]), r, slots, l)
<1> DEFINE q == PutAll(r, slots, l)
           n == [q EXCEPT !.num = v]
<1>1. Putting(q, r, slots, l)
  <2> DEFINE e == Enter(r, "puts", l)
  <2>1. Alike(e, r) /\ e.pc = "puts" /\ e.back = <<l>>
    BY EnterHome
  <2>2. q = [e EXCEPT !.puts = slots]
    BY DEF PutAll
  <2> HIDE DEF q, e
  <2>3. QED
    BY <2>1, <2>2 DEF Putting, Alike, Whole
<1> HIDE DEF q
<1>2. Whole(q)
  BY <1>1 DEF Putting
<1>3. Alike(n, q) /\ n.pc = q.pc /\ n.back = q.back
  BY <1>2, DataDoes
<1>4. Alike(NoBlock(q), q) /\ NoBlock(q).pc = q.pc /\ NoBlock(q).back = q.back
  BY <1>2, DataDoes DEF NoBlock
<1> HIDE DEF n
<1>5. Alike(NoBlock(n), n) /\ NoBlock(n).pc = n.pc /\ NoBlock(n).back = n.back
  <2>1. Whole(n)
    BY <1>3 DEF Alike
  <2>2. QED
    BY <2>1, DataDoes DEF NoBlock
<1>6. Putting(NoBlock(q), r, slots, l)
  BY <1>1, <1>4 DEF Putting, Alike
<1>7. Putting(NoBlock(n), r, slots, l)
  BY <1>1, <1>3, <1>5 DEF Putting, Alike
<1>8. QED
  BY <1>1, <1>6, <1>7 DEF q, n

(* One slot is given back.                                                 *)
LEMMA GivesOne ==
  ASSUME NEW r, Good(r), r.pc \in Homes \ {"user", "done"}, NEW x \in Nat, NEW l \in Putters,
         NEW q, Putting(q, r, <<x>>, l), r.kind \in KindsAt(l),
         r.kind # "linkto" /\ l \notin WithIno \cup {"done"} => r.ino = NoSlot
  PROVE  /\ Good(q)
         /\ Holding(q) = Places(r.file, NoSlot, IF l # "done" THEN r.ino ELSE NoSlot, NoSlot,
                                x, NoSlot)
<1>1. /\ r.empty = NoSlot
      /\ r.kind \in Opens /\ r.pc \notin {"user", "done"} => r.file = NoSlot
  BY AtHome
<1>2. Fits(q, l)
  BY <1>1 DEF Fits, Putting
<1>3. Len(<<x>>) = 1 /\ <<x>>[1] = x
  OBVIOUS
<1>4. l \notin WithDir
  BY DEF Putters, WithDir, Walking, Lookups, Opens, Mades, Adding
<1>5. q.pc = "puts" /\ q.back = <<l>> /\ q.puts = <<x>> /\ q.file = r.file /\ q.ino = r.ino
  BY DEF Putting
<1>6. Good(q) /\ Holding(q) = HeldFor(q, l, NoSlot)
  <2>1. Len(q.puts) <= 2
    BY <1>3, <1>5
  <2>2. QED
    BY <1>2, <1>5, <2>1, GoesToPut
<1>7. QED
  BY <1>3, <1>4, <1>5, <1>6 DEF HeldFor

(* Two are.                                                                *)
LEMMA GivesTwo ==
  ASSUME NEW r, Good(r), r.pc \in Homes \ {"user", "done"}, NEW x \in Nat, NEW y \in Nat,
         NEW q, Putting(q, r, <<x, y>>, "done")
  PROVE  /\ Good(q)
         /\ Holding(q) = Places(r.file, NoSlot, NoSlot, NoSlot, x, y)
<1>1. /\ r.empty = NoSlot /\ r.kind \in Kinds
      /\ r.kind \in Opens /\ r.pc \notin {"user", "done"} => r.file = NoSlot
  BY AtHome
<1>2. Fits(q, "done")
  BY <1>1, KindsAre DEF Fits, Putting
<1>3. Len(<<x, y>>) = 2 /\ <<x, y>>[1] = x /\ <<x, y>>[2] = y
  OBVIOUS
<1>4. "done" \notin WithDir /\ "done" \in Putters
  BY DEF Putters, WithDir, Walking, Lookups, Opens, Mades, Adding
<1>5. q.pc = "puts" /\ q.back = <<"done">> /\ q.puts = <<x, y>> /\ q.file = r.file
  BY DEF Putting
<1>6. Good(q) /\ Holding(q) = HeldFor(q, "done", NoSlot)
  <2>1. Len(q.puts) <= 2
    BY <1>3, <1>5
  <2>2. QED
    BY <1>2, <1>4, <1>5, <2>1, GoesToPut
<1>7. QED
  BY <1>3, <1>4, <1>5, <1>6 DEF HeldFor

\* At pc the call has just the directory, just the inode, or both to give back.
JustDir == WithDir \ (WithIno \cup Gots \cup Mades)
JustIno == {"mk_free", "mk_undo", "ln_count"}
JustBoth == WithDir \cap WithIno

(* What the homes have to do with slots.                                   *)
LEMMA HomesHold ==
  /\ WithDir \cup WithIno \subseteq Homes
  /\ WithDir \cap {"user", "done"} = {} /\ WithIno \cap ({"user", "done"} \cup Gots \cup Mades) = {}
  /\ JustIno \subseteq Homes \ WithDir /\ JustIno \subseteq WithIno
  /\ (Gots \cup Mades) \cap {"user", "done"} = {}
  /\ Putters \cap (WithDir \cup Gots \cup Mades) = {} /\ "done" \in Putters \cap Homes
  /\ "user" \in Homes
<1> USE DEF WithDir, WithIno, Homes, Lookups, Opens, Gots, Mades, Putters, Adding, Walking, JustIno
<1>1. WithDir \cup WithIno \subseteq Homes
  OBVIOUS
<1>2. WithDir \cap {"user", "done"} = {} /\ WithIno \cap ({"user", "done"} \cup Gots \cup Mades) = {}
  OBVIOUS
<1>3. JustIno \subseteq Homes \ WithDir /\ JustIno \subseteq WithIno
  OBVIOUS
<1>4. (Gots \cup Mades) \cap {"user", "done"} = {}
  OBVIOUS
<1>5. Putters \cap (WithDir \cup Gots \cup Mades) = {} /\ "done" \in Putters \cap Homes
  OBVIOUS
<1>6. "user" \in Homes
  OBVIOUS
<1>7. QED
  BY <1>1, <1>2, <1>3, <1>4, <1>5, <1>6

(* The directory is given back.                                            *)
LEMMA GivesDir ==
  ASSUME NEW r, Good(r), r.pc \in WithDir \ (Gots \cup Mades), NEW l \in Putters,
         NEW q, Putting(q, r, <<r.dir>>, l), r.kind \in KindsAt(l), l = "done" => r.ino = NoSlot,
         r.kind # "linkto" /\ l \notin WithIno \cup {"done"} => r.ino = NoSlot
  PROVE  Good(q) /\ AsMuch(q, r)
<1>1. r.pc \in Homes \ {"user", "done"}
  BY HomesHold
<1>2. Whole(r) /\ Holding(r) = Places(r.file, r.dir, r.ino, NoSlot, NoSlot, NoSlot)
  BY <1>1, AtHome
<1>3. r.dir \in Nat
  BY <1>2 DEF Whole
<1>4. /\ Good(q)
      /\ Holding(q) = Places(r.file, NoSlot, IF l # "done" THEN r.ino ELSE NoSlot, NoSlot,
                             r.dir, NoSlot)
  BY <1>1, <1>3, GivesOne
<1>5. AsMuch(q, r)
  BY <1>2, <1>4, RefsAre DEF AsMuch, One
<1>6. QED
  BY <1>4, <1>5

(* The inode is.                                                           *)
LEMMA GivesIno ==
  ASSUME NEW r, Good(r), r.pc \in JustIno, NEW q, Putting(q, r, <<r.ino>>, "done")
  PROVE  Good(q) /\ AsMuch(q, r)
<1>1. r.pc \in Homes \ {"user", "done"} /\ r.pc \notin WithDir \cup Gots \cup Mades
  BY HomesHold
<1>2. /\ Whole(r) /\ r.kind \in Kinds
      /\ Holding(r) = Places(r.file, NoSlot, r.ino, NoSlot, NoSlot, NoSlot)
  BY <1>1, AtHome
<1>3. r.ino \in Nat /\ r.kind \in KindsAt("done") /\ "done" \in Putters
  BY <1>2, KindsAre, HomesHold DEF Whole
<1>4. Good(q) /\ Holding(q) = Places(r.file, NoSlot, NoSlot, NoSlot, r.ino, NoSlot)
  BY <1>1, <1>3, GivesOne
<1>5. AsMuch(q, r)
  BY <1>2, <1>4, RefsAre DEF AsMuch, One
<1>6. QED
  BY <1>4, <1>5

(* Both are.                                                               *)
LEMMA GivesBoth ==
  ASSUME NEW r, Good(r), r.pc \in JustBoth, NEW q,
         Putting(q, r, <<r.ino, r.dir>>, "done") \/ Putting(q, r, <<r.dir, r.ino>>, "done")
  PROVE  Good(q) /\ AsMuch(q, r)
<1>1. r.pc \in Homes \ {"user", "done"} /\ r.pc \in WithDir \ (Gots \cup Mades)
  BY HomesHold DEF JustBoth
<1>2. Whole(r) /\ Holding(r) = Places(r.file, r.dir, r.ino, NoSlot, NoSlot, NoSlot)
  BY <1>1, AtHome
<1>3. r.ino \in Nat /\ r.dir \in Nat
  BY <1>2 DEF Whole
<1>4. CASE Putting(q, r, <<r.ino, r.dir>>, "done")
  <2>1. Good(q) /\ Holding(q) = Places(r.file, NoSlot, NoSlot, NoSlot, r.ino, r.dir)
    BY <1>1, <1>3, <1>4, GivesTwo
  <2>2. AsMuch(q, r)
    BY <1>2, <2>1, RefsAre DEF AsMuch, One
  <2>3. QED
    BY <2>1, <2>2
<1>5. CASE Putting(q, r, <<r.dir, r.ino>>, "done")
  <2>1. Good(q) /\ Holding(q) = Places(r.file, NoSlot, NoSlot, NoSlot, r.dir, r.ino)
    BY <1>1, <1>3, <1>5, GivesTwo
  <2>2. AsMuch(q, r)
    BY <1>2, <2>1, RefsAre DEF AsMuch, One
  <2>3. QED
    BY <2>1, <2>2
<1>6. QED
  BY <1>4, <1>5

(* What iget returned is given back, with the directory when it is kept.   *)
LEMMA GivesWork ==
  ASSUME NEW r, Good(r), NEW q,
         \/ r.pc \in {"opened", "ln_old"} /\ Putting(q, r, <<r.work>>, "done")
         \/ r.pc \in {"rm_got", "un_got"} /\ Putting(q, r, <<r.work, r.dir>>, "done")
  PROVE  Good(q) /\ AsMuch(q, r)
<1>1. /\ r.pc \in Homes \ {"user", "done"} /\ r.pc \in Gots /\ r.pc \notin WithIno
      /\ r.pc \in WithDir <=> r.pc \in {"rm_got", "un_got"}
  BY DEF Homes, Gots, WithIno, WithDir, Adding, Walking, Lookups, Opens, Mades
<1>2. r.kind # "linkto"
  <2>1. r.kind \in KindsAt(r.pc)
    BY <1>1, AtHome
  <2>2. KindsAt(r.pc) \subseteq Opens \cup {"link", "rmdir", "unlink"}
    BY KindsAre, ZenonT(60)
  <2>3. QED
    BY <2>1, <2>2 DEF Opens
<1>3. /\ Whole(r) /\ r.kind \in Kinds /\ r.ino = NoSlot
      /\ Holding(r) = Places(r.file, IF r.pc \in WithDir THEN r.dir ELSE NoSlot, NoSlot,
                             r.work, NoSlot, NoSlot)
  BY <1>1, <1>2, AtHome
<1>4. r.work \in Nat /\ r.dir \in Nat /\ r.kind \in KindsAt("done") /\ "done" \in Putters
  BY <1>3, KindsAre, HomesHold DEF Whole
<1>5. CASE r.pc \in {"opened", "ln_old"} /\ Putting(q, r, <<r.work>>, "done")
  <2>1. Good(q) /\ Holding(q) = Places(r.file, NoSlot, NoSlot, NoSlot, r.work, NoSlot)
    BY <1>1, <1>4, <1>5, GivesOne
  <2>2. AsMuch(q, r)
    BY <1>1, <1>3, <1>5, <2>1, RefsAre DEF AsMuch, One
  <2>3. QED
    BY <2>1, <2>2
<1>6. CASE r.pc \in {"rm_got", "un_got"} /\ Putting(q, r, <<r.work, r.dir>>, "done")
  <2>1. Good(q) /\ Holding(q) = Places(r.file, NoSlot, NoSlot, NoSlot, r.work, r.dir)
    BY <1>1, <1>4, <1>6, GivesTwo
  <2>2. AsMuch(q, r)
    BY <1>1, <1>3, <1>6, <2>1, RefsAre DEF AsMuch, One
  <2>3. QED
    BY <2>1, <2>2
<1>7. QED
  BY <1>5, <1>6

\* The homes h and m have the same places for slots, apart from work.
SameHold(h, m) ==
  /\ h \in WithDir <=> m \in WithDir
  /\ h \notin Gots \cup Mades \cup {"done"} /\ m # "user"

(* A call of a function that needs no slot back.                           *)
LEMMA IntoDoes ==
  ASSUME NEW r, Good(r), r.pc \in Homes, NEW q, Alike(q, r), NEW h, SameHold(r.pc, h),
         Home(q) = h, q.back \in Backs(q.pc), ~InPut(q), q.pc \notin Homes \cup {"read"},
         r.kind \in KindsAt(h), h = "done" => r.ino = NoSlot,
         r.kind # "linkto" /\ h \notin WithIno \cup {"done"} => r.ino = NoSlot
  PROVE  Good(q) /\ AsMuch(q, r)
<1>1. /\ Whole(r) /\ r.puts = <<>> /\ r.empty = NoSlot /\ r.kind \in KindsAt(r.pc)
      /\ r.kind \in Opens /\ r.pc \notin {"user", "done"} => r.file = NoSlot
      /\ Holding(r) = Places(r.file, IF r.pc \in WithDir THEN r.dir ELSE NoSlot, r.ino, NoSlot,
                             NoSlot, NoSlot)
  BY AtHome DEF SameHold
<1>2. r.kind \in Opens => r.pc # "user" /\ r.pc # "done"
  BY <1>1, KindsAre DEF Opens, SameHold
<1>3. Fits(q, h)
  BY <1>1, <1>2 DEF Fits, Alike
<1>4. q.puts = <<>> /\ q.file = r.file /\ q.dir = r.dir /\ q.ino = r.ino /\ Len(q.puts) = 0
  BY <1>1 DEF Alike
<1>5. Good(q) /\ Holding(q) = HeldFor(q, h, NoSlot)
  BY <1>3, <1>4, GoesInto
<1>6. Holding(q) = Places(r.file, IF r.pc \in WithDir THEN r.dir ELSE NoSlot, r.ino, NoSlot,
                          NoSlot, NoSlot)
  BY <1>4, <1>5 DEF HeldFor, SameHold
<1>7. QED
  BY <1>1, <1>5, <1>6 DEF AsMuch

(* Another home.                                                           *)
LEMMA HomeDoes ==
  ASSUME NEW r, Good(r), r.pc \in Homes, NEW q, Alike(q, r), SameHold(r.pc, q.pc),
         q.pc \in Homes \ (Gots \cup Mades), q.back = <<>>,
         r.kind \in KindsAt(q.pc), q.pc = "done" => r.ino = NoSlot,
         r.kind # "linkto" /\ q.pc \notin WithIno \cup {"done"} => r.ino = NoSlot
  PROVE  Good(q) /\ AsMuch(q, r)
<1>1. /\ Whole(r) /\ r.puts = <<>> /\ r.empty = NoSlot /\ r.kind \in KindsAt(r.pc)
      /\ r.kind \in Opens /\ r.pc \notin {"user", "done"} => r.file = NoSlot
      /\ Holding(r) = Places(r.file, IF r.pc \in WithDir THEN r.dir ELSE NoSlot, r.ino, NoSlot,
                             NoSlot, NoSlot)
  BY AtHome DEF SameHold
<1>2. r.kind \in Opens => r.pc # "user" /\ r.pc # "done"
  BY <1>1, KindsAre DEF Opens, SameHold
<1>3. Fits(q, q.pc)
  BY <1>1, <1>2 DEF Fits, Alike
<1>4. q.puts = <<>> /\ q.file = r.file /\ q.dir = r.dir /\ q.ino = r.ino /\ Len(q.puts) = 0
  BY <1>1 DEF Alike
<1>5. Good(q) /\ Holding(q) = HeldFor(q, q.pc, NoSlot)
  BY <1>3, <1>4, ComesHome
<1>6. Holding(q) = Places(r.file, IF r.pc \in WithDir THEN r.dir ELSE NoSlot, r.ino, NoSlot,
                          NoSlot, NoSlot)
  BY <1>4, <1>5 DEF HeldFor, SameHold
<1>7. QED
  BY <1>1, <1>5, <1>6 DEF AsMuch

-----------------------------------------------------------------------------
(* The calls: what each step does with the counts                          *)

(* A step that leaves the table alone.                                     *)
LEMMA StepStill ==
  ASSUME UsersInv, NEW p \in Proc, NEW q, at' = [at EXCEPT ![p] = q], UNCHANGED table,
         Good(q), AsMuch(q, at[p])
  PROVE  UsersInv'
BY SameTable, StepsOn

(* A failure.                                                              *)
LEMMA FailKeeps ==
  ASSUME UsersInv, NEW p \in Proc, Fail(p), UNCHANGED table, at[p].pc \in WithDir,
         at[p].pc \in Gots \cup Mades => at[p].work = NoSlot
  PROVE  UsersInv'
<1> DEFINE r == at[p]
           q == PutAll(NoBlock(r), <<r.dir>> \o Held(p), "done")
<1>1. Good(r) /\ r.pc \in WithDir \cap Homes
  BY HomesHold DEF UsersInv
<1>2. Held(p) = IF r.ino = NoSlot THEN <<>> ELSE <<r.ino>>
  BY DEF Held
<1>3. Good(q) /\ AsMuch(q, r)
  BY <1>1, <1>2, FailDoes
<1>4. at' = [at EXCEPT ![p] = q]
  BY DEF Fail, GoOn
<1> HIDE DEF q
<1>5. QED
  BY <1>3, <1>4, StepStill

\* What is called from home, and returns to it.
Callees == {"find", "iget", "newblk", "freeblk", "bmap", "bmap7", "sync"}

(* Such a call.                                                            *)
LEMMA EntersOne ==
  ASSUME NEW r, Good(r), r.pc \in Homes, NEW q, Alike(q, r), q.pc \in Callees, NEW h,
         q.back = <<h>>, <<h>> \in Backs(q.pc), SameHold(r.pc, h), r.kind \in KindsAt(h),
         h = "done" => r.ino = NoSlot,
         r.kind # "linkto" /\ h \notin WithIno \cup {"done"} => r.ino = NoSlot
  PROVE  Good(q) /\ AsMuch(q, r)
<1>1. Home(q) = h
  BY HomeIs
<1>2. ~InPut(q)
  BY InPutIs DEF Callees, Freeing
<1>3. q.pc \notin Homes \cup {"read"}
  BY DEF Callees, Homes, Lookups, Opens, Gots, Mades, Putters, Adding, Walking
<1>4. QED
  BY <1>1, <1>2, <1>3, IntoDoes

(* A call of new_inode, which looks for a slot first.                      *)
LEMMA EntersFresh ==
  ASSUME NEW r, Good(r), r.pc \in Homes, NEW h \in Mades, SameHold(r.pc, h), r.kind \in KindsAt(h),
         r.ino = NoSlot
  PROVE  LET q == Enter(Enter(r, "fresh", h), "empty", "fresh") IN Good(q) /\ AsMuch(q, r)
<1> DEFINE e == Enter(r, "fresh", h)
           q == Enter(e, "empty", "fresh")
<1>1. Whole(r) /\ r.back = <<>>
  BY AtHome
<1>2. Alike(e, r) /\ e.back = <<h>>
  BY <1>1, EnterHome
<1> HIDE DEF e
<1>3. Alike(q, e) /\ q.pc = "empty" /\ q.back = <<"fresh">> \o e.back
  BY <1>2, EnterDoes, SMTT(60) DEF Alike
<1> HIDE DEF q
<1>4. q.back = <<"fresh", h>>
  BY <1>2, <1>3, ConsOne
<1>5. Alike(q, r)
  BY <1>2, <1>3 DEF Alike
<1>6. q.back \in Backs(q.pc)
  <2>1. Backs("empty") = {<<"search", g>> : g \in Gots} \cup {<<"fresh", g>> : g \in Mades}
    BY BacksAre
  <2>2. QED
    BY <1>3, <1>4, <2>1
<1>7. Home(q) = h /\ ~InPut(q) /\ q.pc \notin Homes \cup {"read"} /\ h # "done"
  <2>1. Home(q) = h
    BY <1>4, HomeIs
  <2>2. ~InPut(q)
    BY <1>3, InPutIs DEF Freeing
  <2>3. "empty" \notin Homes /\ h # "done"
    BY DEF Homes, Lookups, Opens, Gots, Mades, Putters, Adding, Walking
  <2>4. QED
    BY <1>3, <2>1, <2>2, <2>3
<1>8. Good(q) /\ AsMuch(q, r)
  BY <1>5, <1>6, <1>7, IntoDoes
<1>9. QED
  BY <1>8 DEF q, e

(* The walk along the path.                                                *)
LEMMA GetDirKeeps ==
  ASSUME UsersInv, NEW p \in Proc, get_dir(p)
  PROVE  UsersInv'
<1> DEFINE r == at[p]
<1>0. Good(r) /\ UNCHANGED table
  BY DEF UsersInv, get_dir, Still
<1>1. CASE Here(p, "walk")
  <2>1. r.pc = "walk" /\ "walk" \in Homes /\ "walk" \in WithDir /\ "walk" \notin WithIno \cup Gots \cup Mades
    BY <1>1 DEF Here, Homes, WithDir, WithIno, Walking, Gots, Mades, Adding
  <2>2. /\ Whole(r) /\ r.back = <<>> /\ r.kind \in Lookups
        /\ r.kind # "linkto" => r.ino = NoSlot
    <3>1. KindsAt("walk") = Lookups
      BY KindsAre DEF Walking
    <3>2. QED
      BY <1>0, <2>1, <3>1, AtHome
  <2>3. CASE Fail(p)
    BY <1>0, <2>1, <2>3, FailKeeps
  <2>4. CASE GoOn(p, To(r, "last"))
    <3> DEFINE q == To(r, "last")
    <3>1. Alike(q, r) /\ q.pc = "last" /\ q.back = <<>>
      BY <2>2, ToDoes
    <3>2. /\ SameHold("walk", "last") /\ "last" \in Homes \ (Gots \cup Mades)
          /\ "last" \notin WithIno \cup {"done"}
      BY DEF SameHold, Homes, WithDir, WithIno, Walking, Gots, Mades, Adding
    <3>3. KindsAt("last") = Lookups
      BY KindsAre DEF Walking
    <3>4. at' = [at EXCEPT ![p] = q]
      BY <2>4 DEF GoOn
    <3> HIDE DEF q
    <3>5. Good(q) /\ AsMuch(q, r)
      BY <1>0, <2>1, <2>2, <3>1, <3>2, <3>3, HomeDoes
    <3>6. QED
      BY <1>0, <3>4, <3>5, StepStill
  <2>5. CASE GoOn(p, Enter(r, "find", "step"))
    <3> DEFINE q == Enter(r, "find", "step")
    <3>1. Alike(q, r) /\ q.pc = "find" /\ q.back = <<"step">>
      BY <2>2, EnterHome
    <3>2. SameHold("walk", "step") /\ "step" \notin WithIno \cup {"done"} /\ "find" \in Callees
      BY DEF SameHold, WithDir, WithIno, Walking, Gots, Mades, Adding, Callees
    <3>3. KindsAt("step") = Lookups /\ <<"step">> \in Backs("find")
      <4>1. KindsAt("step") = Lookups
        BY KindsAre DEF Walking
      <4>2. Backs("find") = {<<h>> : h \in Lookups \cup {"step"}}
        BY BacksAre
      <4>3. QED
        BY <4>1, <4>2
    <3>4. at' = [at EXCEPT ![p] = q]
      BY <2>5 DEF GoOn
    <3> HIDE DEF q
    <3>5. Good(q) /\ AsMuch(q, r)
      BY <1>0, <2>1, <2>2, <3>1, <3>2, <3>3, EntersOne
    <3>6. QED
      BY <1>0, <3>4, <3>5, StepStill
  <2>6. QED
    BY <1>1, <2>3, <2>4, <2>5 DEF get_dir, Here
<1>2. CASE Here(p, "step")
  <2>1. r.pc = "step" /\ "step" \in Homes /\ "step" \in WithDir \ (Gots \cup Mades) /\ "step" \notin WithIno
    BY <1>2 DEF Here, Homes, WithDir, WithIno, Walking, Gots, Mades, Adding
  <2>2. /\ Whole(r) /\ r.back = <<>> /\ r.kind \in Lookups /\ KindsAt("down") = Lookups
        /\ r.kind # "linkto" => r.ino = NoSlot
    <3>1. KindsAt("step") = Lookups /\ KindsAt("down") = Lookups
      BY KindsAre DEF Walking
    <3>2. QED
      BY <1>0, <2>1, <3>1, AtHome
  <2>3. CASE Fail(p)
    BY <1>0, <2>1, <2>3, FailKeeps
  <2>4. CASE GoOn(p, NoBlock([PutAll(r, <<r.dir>>, "down") EXCEPT !.num = Named(p)]))
    <3> DEFINE q == NoBlock([PutAll(r, <<r.dir>>, "down") EXCEPT !.num = Named(p)])
    <3>1. <<r.dir>> \in Seq(Nat)
      BY <2>2 DEF Whole
    <3>2. Putting(q, r, <<r.dir>>, "down")
      BY <2>2, <3>1, PutForms
    <3>3. "down" \in Putters /\ "down" # "done"
      BY DEF Putters
    <3>4. at' = [at EXCEPT ![p] = q]
      BY <2>4 DEF GoOn
    <3> HIDE DEF q
    <3>5. Good(q) /\ AsMuch(q, r)
      BY <1>0, <2>1, <2>2, <3>2, <3>3, GivesDir
    <3>6. QED
      BY <1>0, <3>4, <3>5, StepStill
  <2>5. QED
    BY <1>2, <2>3, <2>4 DEF get_dir, Here
<1>3. CASE Here(p, "down")
  <2> DEFINE q == Enter(r, "iget", "into")
  <2>1. r.pc = "down" /\ "down" \in Homes /\ "down" \notin WithIno
    BY <1>3 DEF Here, Homes, Putters, WithIno, Adding
  <2>2. /\ Whole(r) /\ r.back = <<>> /\ r.kind \in Lookups /\ KindsAt("into") = Lookups
        /\ r.kind # "linkto" => r.ino = NoSlot
    <3>1. KindsAt("down") = Lookups /\ KindsAt("into") = Lookups
      BY KindsAre
    <3>2. QED
      BY <1>0, <2>1, <3>1, AtHome
  <2>3. Alike(q, r) /\ q.pc = "iget" /\ q.back = <<"into">>
    BY <2>2, EnterHome
  <2>4. /\ SameHold("down", "into") /\ "into" \notin WithIno \cup {"done"} /\ "iget" \in Callees
        /\ "into" \in Gots
    BY DEF SameHold, WithDir, WithIno, Walking, Gots, Mades, Adding, Callees, Lookups, Opens
  <2>5. <<"into">> \in Backs("iget")
    BY <2>4, BacksAre
  <2>6. at' = [at EXCEPT ![p] = q]
    BY <1>3, <2>1 DEF get_dir, Here, GoOn
  <2> HIDE DEF q
  <2>7. Good(q) /\ AsMuch(q, r)
    BY <1>0, <2>1, <2>2, <2>3, <2>4, <2>5, EntersOne
  <2>8. QED
    BY <1>0, <2>6, <2>7, StepStill
<1>4. CASE Here(p, "into")
  <2> DEFINE q == [r EXCEPT !.pc = "walk", !.dir = r.work, !.rest = Tail(r.rest)]
  <2>1. r.pc = "into" /\ "into" \in Homes \cap Gots /\ "into" \notin WithIno \cup WithDir
    BY <1>4 DEF Here, Homes, Gots, WithIno, WithDir, Adding, Walking, Lookups, Opens, Mades
  <2>2. /\ Whole(r) /\ r.back = <<>> /\ r.kind \in Lookups /\ KindsAt("walk") = Lookups
        /\ r.puts = <<>> /\ r.empty = NoSlot
        /\ r.kind # "linkto" => r.ino = NoSlot
        /\ r.kind \in Opens => r.file = NoSlot
        /\ Holding(r) = Places(r.file, NoSlot, r.ino, r.work, NoSlot, NoSlot)
    <3>1. KindsAt("into") = Lookups /\ KindsAt("walk") = Lookups
      BY KindsAre DEF Walking
    <3>2. "into" \notin {"user", "done"}
      OBVIOUS
    <3>3. r.kind \in Lookups /\ r.kind \in KindsAt("into")
      BY <1>0, <2>1, <3>1, AtHome
    <3>4. QED
      BY <1>0, <2>1, <3>1, <3>2, <3>3, AtHome
  <2>3. /\ Whole(q) /\ q.pc = "walk" /\ q.back = <<>> /\ q.puts = <<>> /\ q.empty = NoSlot
        /\ q.kind = r.kind /\ q.dir = r.work /\ q.ino = r.ino /\ q.file = r.file
    <3>1. PICK v : v = Tail(r.rest)
      OBVIOUS
    <3>2. q = [r EXCEPT !.pc = "walk", !.dir = r.work, !.rest = v]
      BY <3>1
    <3> HIDE DEF q
    <3>3. QED
      BY <2>2, <3>2, ZenonT(60) DEF Whole
  <2>4. "walk" \in Homes /\ "walk" \in WithDir /\ "walk" \notin WithIno \cup Gots \cup Mades
    BY DEF Homes, WithDir, WithIno, Walking, Gots, Mades, Adding
  <2>5. at' = [at EXCEPT ![p] = q]
    BY <1>4, <2>1 DEF get_dir, Here, GoOn
  <2> HIDE DEF q
  <2>6. Fits(q, "walk") /\ Len(q.puts) = 0
    BY <2>2, <2>3 DEF Fits
  <2>7. Good(q) /\ Holding(q) = HeldFor(q, "walk", NoSlot)
    BY <2>3, <2>4, <2>6, ComesHome
  <2>8. Holding(q) = Places(r.file, r.work, r.ino, NoSlot, NoSlot, NoSlot)
    BY <2>3, <2>4, <2>6, <2>7 DEF HeldFor
  <2>9. AsMuch(q, r)
    BY <2>2, <2>8, RefsAre DEF AsMuch, One
  <2>10. QED
    BY <1>0, <2>5, <2>7, <2>9, StepStill
<1>5. QED
  BY <1>1, <1>2, <1>3, <1>4 DEF get_dir

\* A call for an inode number.
EnterNum(r, l, h, v) == [Enter(r, l, h) EXCEPT !.num = v]

(* It is a call.                                                           *)
LEMMA EnterNumDoes ==
  ASSUME NEW r, Whole(r), r.back = <<>>, NEW l, NEW h, NEW v
  PROVE  /\ Alike(EnterNum(r, l, h, v), r)
         /\ EnterNum(r, l, h, v).pc = l /\ EnterNum(r, l, h, v).back = <<h>>
<1> DEFINE e == Enter(r, l, h)
           q == EnterNum(r, l, h, v)
<1>1. Alike(e, r) /\ e.pc = l /\ e.back = <<h>>
  BY EnterHome
<1>2. q = [e EXCEPT !.num = v]
  BY DEF EnterNum
<1> HIDE DEF e, q
<1>3. Alike(q, r) /\ q.pc = l /\ q.back = <<h>>
  BY <1>1, <1>2 DEF Alike, Whole
<1>4. QED
  BY <1>3 DEF q

\* A call for a block.
EnterBlk(r, l, h, v) == [Enter(r, l, h) EXCEPT !.blk = v]

(* It is a call.                                                           *)
LEMMA EnterBlkDoes ==
  ASSUME NEW r, Whole(r), r.back = <<>>, NEW l, NEW h, NEW v
  PROVE  /\ Alike(EnterBlk(r, l, h, v), r)
         /\ EnterBlk(r, l, h, v).pc = l /\ EnterBlk(r, l, h, v).back = <<h>>
<1> DEFINE e == Enter(r, l, h)
           q == EnterBlk(r, l, h, v)
<1>1. Alike(e, r) /\ e.pc = l /\ e.back = <<h>>
  BY EnterHome
<1>2. q = [e EXCEPT !.blk = v]
  BY DEF EnterBlk
<1> HIDE DEF e, q
<1>3. Alike(q, r) /\ q.pc = l /\ q.back = <<h>>
  BY <1>1, <1>2 DEF Alike, Whole
<1>4. QED
  BY <1>3 DEF q

\* A call for a slot.
EnterWork(r, l, h, v) == [Enter(r, l, h) EXCEPT !.work = v]

(* It is a call.                                                           *)
LEMMA EnterWorkDoes ==
  ASSUME NEW r, Whole(r), r.back = <<>>, NEW l, NEW h, NEW v \in Nat
  PROVE  /\ Alike(EnterWork(r, l, h, v), r)
         /\ EnterWork(r, l, h, v).pc = l /\ EnterWork(r, l, h, v).back = <<h>>
<1> DEFINE e == Enter(r, l, h)
           q == EnterWork(r, l, h, v)
<1>1. Alike(e, r) /\ e.pc = l /\ e.back = <<h>>
  BY EnterHome
<1>2. q = [e EXCEPT !.work = v]
  BY DEF EnterWork
<1> HIDE DEF e, q
<1>3. Alike(q, r) /\ q.pc = l /\ q.back = <<h>>
  BY <1>1, <1>2 DEF Alike, Whole
<1>4. QED
  BY <1>3 DEF q

\* The same, without the block of the directory.
EnterNext(r, l, h, v) == [NoBlock(Enter(r, l, h)) EXCEPT !.work = v]

(* It is a call.                                                           *)
LEMMA EnterNextDoes ==
  ASSUME NEW r, Whole(r), r.back = <<>>, NEW l, NEW h, NEW v \in Nat
  PROVE  /\ Alike(EnterNext(r, l, h, v), r)
         /\ EnterNext(r, l, h, v).pc = l /\ EnterNext(r, l, h, v).back = <<h>>
<1> DEFINE e == Enter(r, l, h)
           n == NoBlock(e)
           q == EnterNext(r, l, h, v)
<1>1. Alike(e, r) /\ e.pc = l /\ e.back = <<h>>
  BY EnterHome
<1>2. n = [e EXCEPT !.bh = 0]
  BY DEF NoBlock
<1>3. q = [n EXCEPT !.work = v]
  BY DEF EnterNext
<1> HIDE DEF e, n, q
<1>4. Alike(n, r) /\ n.pc = l /\ n.back = <<h>>
  BY <1>1, <1>2 DEF Alike, Whole
<1>5. Alike(q, r) /\ q.pc = l /\ q.back = <<h>>
  BY <1>3, <1>4 DEF Alike, Whole
<1>6. QED
  BY <1>5 DEF q

(* A return home.                                                          *)
LEMMA ReturnsHome ==
  ASSUME NEW r, Good(r), NEW h \in Homes \ (Gots \cup Mades), r.back = <<h>>, ~InPut(r),
         r.pc \notin Searching \cup Homes, r.puts = <<>>, NEW q, Alike(q, Back(r)),
         q.pc = Back(r).pc, q.back = Back(r).back
  PROVE  Good(q) /\ AsMuch(q, r)
<1>1. Home(r) = h /\ Head(<<h>>) = h /\ Tail(<<h>>) = <<>>
  BY HomeIs
<1>2. /\ Whole(r) /\ r.kind \in KindsAt(h) /\ r.empty = NoSlot
      /\ r.kind \in Opens /\ h \notin {"user", "done"} => r.file = NoSlot
      /\ r.kind # "linkto" /\ h \notin WithIno \cup {"done"} => r.ino = NoSlot
  BY <1>1 DEF Good, Searching
<1>3. Alike(Back(r), r) /\ Back(r).pc = h /\ Back(r).back = <<>>
  BY <1>1, <1>2, BackDoes
<1>4. Alike(q, r) /\ q.pc = h /\ q.back = <<>>
  BY <1>3 DEF Alike
<1>5. Fits(q, h) /\ q.puts = <<>>
  BY <1>2, <1>4 DEF Fits, Alike
<1>6. Good(q) /\ Holding(q) = HeldFor(q, h, NoSlot)
  BY <1>4, <1>5, ComesHome
<1>7. r.pc \notin Gots \cup Mades
  BY HomesApart
<1>8. Holding(r) = HeldFor(q, h, NoSlot)
  BY <1>1, <1>2, <1>4, <1>7 DEF Holding, HeldFor, Places, Alike
<1>9. QED
  BY <1>6, <1>8 DEF AsMuch

(* A process that has looked the last name up.                             *)
LEMMA LookedUp ==
  ASSUME NEW r, Good(r), r.pc \in Lookups
  PROVE  /\ Whole(r) /\ r.back = <<>> /\ r.kind = r.pc /\ r.pc \in Homes /\ <<r.dir>> \in Seq(Nat)
         /\ r.pc \in WithDir \ (Gots \cup Mades)
         /\ r.pc # "linkto" => r.ino = NoSlot
<1>1. /\ r.pc \in Homes /\ r.pc \in WithDir \ (Gots \cup Mades)
      /\ r.pc \notin WithIno /\ r.pc # "done"
  BY DEF Homes, WithDir, WithIno, Lookups, Opens, Gots, Mades, Adding
<1>2. KindsAt(r.pc) = {r.pc}
  BY KindsAre
<1>3. Whole(r) /\ r.back = <<>> /\ r.kind = r.pc
  BY <1>1, <1>2, AtHome
<1>4. r.pc # "linkto" => r.ino = NoSlot
  BY <1>1, <1>3, AtHome
<1>5. <<r.dir>> \in Seq(Nat)
  BY <1>3 DEF Whole
<1>6. QED
  BY <1>1, <1>3, <1>4, <1>5

(* find_entry: the block is read, or the directory has none.               *)
LEMMA FindKeeps ==
  ASSUME UsersInv, NEW p \in Proc, find_entry(p) \/ Match(p)
  PROVE  UsersInv'
<1> DEFINE r == at[p]
<1>1. Good(r) /\ UNCHANGED table /\ r.pc \in {"find", "match"} /\ r.back \in Backs(r.pc)
  BY DEF UsersInv, find_entry, Match, Still, Here, Good
<1>2. PICK h \in Lookups \cup {"step"} : r.back = <<h>>
  BY <1>1, BacksAre
<1>3. /\ Whole(r) /\ ~InPut(r) /\ r.pc \notin Searching \cup Homes /\ r.puts = <<>>
      /\ h \in Homes \ (Gots \cup Mades)
  <2>1. /\ r.pc \notin Searching \cup Homes \cup {"puts"}
        /\ r.pc \notin {"put", "repeat", "free", "freeblk", "write"} \cup Freeing
    BY <1>1 DEF Searching, Homes, Lookups, Opens, Gots, Mades, Putters, Adding, Walking, Freeing
  <2>2. ~InPut(r)
    BY <2>1, InPutIs
  <2>3. h \in Homes \ (Gots \cup Mades)
    BY DEF Homes, Lookups, Opens, Gots, Mades, Walking
  <2>4. QED
    BY <1>1, <2>1, <2>2, <2>3 DEF Good
<1>4. ASSUME NEW v, NEW b \in {TRUE, FALSE},
             at' = [at EXCEPT ![p] = IF b THEN [Back(r) EXCEPT !.pos = v]
                                     ELSE NoBlock([Back(r) EXCEPT !.pos = v])]
      PROVE  UsersInv'
  <2> DEFINE e == Back(r)
             n == [e EXCEPT !.pos = v]
             q == IF b THEN n ELSE NoBlock(n)
  <2>1. Whole(e)
    BY <1>3, BackDoes DEF Alike
  <2>2. Alike(n, e) /\ n.pc = e.pc /\ n.back = e.back /\ Whole(n)
    <3> HIDE DEF e
    <3>1. Alike(n, e)
      BY <2>1, DataDoes
    <3>2. n.pc = e.pc /\ n.back = e.back
      BY <2>1, DataDoes
    <3> HIDE DEF n
    <3>3. QED
      BY <3>1, <3>2 DEF Alike
  <2>3. Alike(NoBlock(n), n) /\ NoBlock(n).pc = n.pc /\ NoBlock(n).back = n.back
    <3> HIDE DEF n
    <3>1. QED
      BY <2>2, DataDoes DEF NoBlock
  <2>4. at' = [at EXCEPT ![p] = q]
    BY <1>4
  <2>5. Alike(q, e) /\ q.pc = e.pc /\ q.back = e.back
    <3> HIDE DEF n, e
    <3>1. QED
      BY <2>2, <2>3 DEF Alike
  <2> HIDE DEF q
  <2>6. Good(q) /\ AsMuch(q, r)
    BY <1>1, <1>2, <1>3, <2>5, ReturnsHome
  <2>7. QED
    BY <1>1, <2>4, <2>6, StepStill
<1>5. ASSUME NEW b, NEW len, at' = [at EXCEPT ![p] = [r EXCEPT !.pc = "match", !.bh = b, !.len = len]]
      PROVE  UsersInv'
  <2> DEFINE q == [r EXCEPT !.pc = "match", !.bh = b, !.len = len]
             G == {"find", "match"}
  <2>1. Alike(q, r) /\ q.pc = "match" /\ q.back = r.back /\ q.work = r.work
    <3>1. q = [r EXCEPT !.pc = "match", !.bh = b, !.len = len]
      OBVIOUS
    <3> HIDE DEF q, r
    <3>2. QED
      BY <1>3, <3>1 DEF Alike, Whole
  <2>2. at' = [at EXCEPT ![p] = q]
    BY <1>5
  <2> HIDE DEF q
  <2>3. G \in Groups
    BY DEF Groups
  <2>4. Good(q) /\ Holding(q) = Holding(r)
    <3>1. r.pc \in G /\ q.pc \in G
      BY <1>1, <2>1
    <3> HIDE DEF G
    <3>2. QED
      BY <1>1, <2>1, <2>3, <3>1, Hop
  <2>5. AsMuch(q, r)
    BY <2>4 DEF AsMuch
  <2>6. QED
    BY <1>1, <2>2, <2>4, <2>5, StepStill
<1>6. CASE find_entry(p)
  <2>1. CASE Dir(p).zone = 0
    <3>1. at' = [at EXCEPT ![p] = IF TRUE THEN [Back(r) EXCEPT !.pos = 0]
                                  ELSE NoBlock([Back(r) EXCEPT !.pos = 0])]
      BY <1>6, <2>1 DEF find_entry, GoOn
    <3>2. QED
      BY <1>4, <3>1
  <2>2. CASE Dir(p).zone # 0
    <3>1. at' = [at EXCEPT ![p] = [r EXCEPT !.pc = "match", !.bh = Dir(p).zone,
                                            !.len = Len(data[Dir(p).zone])]]
      BY <1>6, <2>2 DEF find_entry, MaySleep
    <3>2. QED
      BY <1>5, <3>1
  <2>3. QED
    BY <2>1, <2>2
<1>7. CASE Match(p)
  <2> DEFINE block == data[r.bh]
             found == {i \in DOMAIN block : /\ i <= r.len
                                            /\ block[i].name = Head(r.rest)
                                            /\ block[i].ino # 0}
  <2>1. CASE found = {}
    <3>1. at' = [at EXCEPT ![p] = IF FALSE THEN [Back(r) EXCEPT !.pos = 0]
                                  ELSE NoBlock([Back(r) EXCEPT !.pos = 0])]
      BY <1>7, <2>1 DEF Match, GoOn
    <3>2. QED
      BY <1>4, <3>1
  <2>2. CASE found # {}
    <3> DEFINE v == Min(found)
    <3>1. at' = [at EXCEPT ![p] = IF TRUE THEN [Back(r) EXCEPT !.pos = v]
                                  ELSE NoBlock([Back(r) EXCEPT !.pos = v])]
      BY <1>7, <2>2 DEF Match, GoOn
    <3> HIDE DEF v
    <3>2. QED
      BY <1>4, <3>1
  <2>3. QED
    BY <2>1, <2>2
<1>8. QED
  BY <1>6, <1>7, SMTT(60)

(* The last name is looked up, or the path ended in a slash.               *)
LEMMA DirFoundKeeps ==
  ASSUME UsersInv, NEW p \in Proc, DirFound(p)
  PROVE  UsersInv'
<1> DEFINE r == at[p]
<1>1. Good(r) /\ UNCHANGED table /\ r.pc = "last"
  BY DEF UsersInv, DirFound, Still, Here
<1>2. "last" \in Homes /\ "last" \in WithDir \ (Gots \cup Mades) /\ "last" \notin WithIno
  BY DEF Homes, WithDir, WithIno, Walking, Gots, Mades, Adding
<1>3. /\ Whole(r) /\ r.back = <<>> /\ r.kind \in Lookups /\ r.puts = <<>> /\ r.empty = NoSlot
      /\ r.kind # "linkto" => r.ino = NoSlot
      /\ r.kind \in Opens => r.file = NoSlot
      /\ Holding(r) = Places(r.file, r.dir, r.ino, NoSlot, NoSlot, NoSlot)
  <2>1. KindsAt("last") = Lookups
    BY KindsAre DEF Walking
  <2>2. QED
    BY <1>1, <1>2, <2>1, AtHome
<1>4. CASE Fail(p)
  BY <1>1, <1>2, <1>4, FailKeeps
<1>5. CASE r.kind = "open" /\ GoOn(p, [r EXCEPT !.pc = "done", !.file = r.dir])
  <2> DEFINE q == [r EXCEPT !.pc = "done", !.file = r.dir]
  <2>1. q = [r EXCEPT !.pc = "done", !.file = r.dir] /\ at' = [at EXCEPT ![p] = q]
    BY <1>5 DEF GoOn
  <2>2. "done" \in Homes /\ "done" \notin WithDir \cup Gots \cup Mades /\ KindsAt("done") = Kinds
    BY HomesHold, KindsAre DEF WithDir, Gots, Mades
  <2> HIDE DEF q
  <2>3. /\ Whole(q) /\ q.pc = "done" /\ q.back = <<>> /\ q.puts = <<>> /\ q.empty = NoSlot
        /\ q.kind = r.kind /\ q.file = r.dir
    <3> HIDE DEF r
    <3>1. QED
      BY <1>3, <2>1 DEF Whole
  <2>4. Fits(q, "done") /\ Len(q.puts) = 0
    BY <1>3, <2>2, <2>3 DEF Fits, Kinds
  <2>5. Good(q) /\ Holding(q) = HeldFor(q, "done", NoSlot)
    BY <2>2, <2>3, <2>4, ComesHome
  <2>6. Holding(q) = Places(r.dir, NoSlot, NoSlot, NoSlot, NoSlot, NoSlot)
    BY <2>2, <2>3, <2>4, <2>5 DEF HeldFor
  <2>7. r.file = NoSlot /\ r.ino = NoSlot
    BY <1>3, <1>5 DEF Opens
  <2>8. AsMuch(q, r)
    BY <1>3, <2>6, <2>7, RefsAre DEF AsMuch, One
  <2>9. QED
    BY <1>1, <2>1, <2>5, <2>8, StepStill
<1>6. CASE GoOn(p, Enter(r, "find", r.kind))
  <2> DEFINE q == Enter(r, "find", r.kind)
  <2>1. Alike(q, r) /\ q.pc = "find" /\ q.back = <<r.kind>> /\ at' = [at EXCEPT ![p] = q]
    BY <1>3, <1>6, EnterHome DEF GoOn
  <2>2. /\ SameHold(r.pc, r.kind) /\ r.kind \notin WithIno \cup {"done"} /\ "find" \in Callees
        /\ KindsAt(r.kind) = {r.kind}
    <3>1. /\ Lookups \subseteq WithDir /\ Lookups \cap (WithIno \cup {"done", "user"}) = {}
          /\ "last" \notin {"done"}
      BY DEF WithDir, WithIno, Lookups, Opens, Adding
    <3>2. KindsAt(r.kind) = {r.kind}
      BY <1>3, KindsAre
    <3>3. QED
      BY <1>1, <1>2, <1>3, <3>1, <3>2 DEF SameHold, Callees
  <2>3. <<r.kind>> \in Backs("find")
    <3>1. Backs("find") = {<<h>> : h \in Lookups \cup {"step"}}
      BY BacksAre
    <3>2. QED
      BY <1>3, <3>1
  <2> HIDE DEF q
  <2>4. Good(q) /\ AsMuch(q, r)
    <3> DEFINE h == r.kind
    <3>1. /\ q.back = <<h>> /\ <<h>> \in Backs(q.pc) /\ SameHold(r.pc, h) /\ r.kind \in KindsAt(h)
          /\ h \notin WithIno \cup {"done"} /\ q.pc \in Callees
      BY <2>1, <2>2, <2>3
    <3> HIDE DEF h
    <3>2. QED
      BY <1>1, <1>2, <1>3, <2>1, <3>1, EntersOne
  <2>5. QED
    BY <1>1, <2>1, <2>4, StepStill
<1>7. QED
  BY <1>4, <1>5, <1>6 DEF DirFound

(* A process that adds an entry holds the directory and the inode.         *)
LEMMA InAdding ==
  ASSUME NEW r, Good(r), r.pc \in Adding
  PROVE  /\ Whole(r) /\ r.back = <<>> /\ r.kind \in Opens \cup {"mkdir", "linkto"}
         /\ r.pc \in JustBoth /\ r.pc \in Homes /\ r.pc \in WithDir \ (Gots \cup Mades)
         /\ r.dir \in Nat /\ r.ino \in Nat /\ <<r.dir>> \in Seq(Nat)
         /\ <<r.dir, r.ino>> \in Seq(Nat) /\ <<r.ino, r.dir>> \in Seq(Nat)
         /\ r.puts = <<>> /\ r.empty = NoSlot
         /\ r.kind \in Opens => r.file = NoSlot
         /\ Holding(r) = Places(r.file, r.dir, r.ino, NoSlot, NoSlot, NoSlot)
<1>1. /\ r.pc \in WithDir \cap WithIno /\ r.pc \in Homes /\ r.pc \notin Gots \cup Mades
      /\ r.pc \notin {"user", "done"}
  BY DEF Homes, WithDir, WithIno, Gots, Mades, Adding
<1>2. KindsAt(r.pc) = Opens \cup {"mkdir", "linkto"}
  BY KindsAre
<1>3. /\ Whole(r) /\ r.back = <<>> /\ r.kind \in Opens \cup {"mkdir", "linkto"}
      /\ r.puts = <<>> /\ r.empty = NoSlot
      /\ r.kind \in Opens => r.file = NoSlot
      /\ Holding(r) = Places(r.file, r.dir, r.ino, NoSlot, NoSlot, NoSlot)
  BY <1>1, <1>2, AtHome
<1>4. r.dir \in Nat /\ r.ino \in Nat
  BY <1>3 DEF Whole
<1>5. <<r.dir>> \in Seq(Nat) /\ <<r.dir, r.ino>> \in Seq(Nat) /\ <<r.ino, r.dir>> \in Seq(Nat)
  BY <1>4
<1>6. QED
  BY <1>1, <1>3, <1>4, <1>5 DEF JustBoth

(* open: the name is not there.                                            *)
LEMMA OpenMissingKeeps ==
  ASSUME UsersInv, NEW p \in Proc, OpenMissing(p)
  PROVE  UsersInv'
<1> DEFINE r == at[p]
<1>1. Good(r) /\ UNCHANGED table /\ r.pc = r.kind /\ r.pc \in Opens
  BY DEF UsersInv, OpenMissing, Still, Here
<1>2. r.pc \in Lookups /\ r.pc # "linkto"
  BY <1>1 DEF Lookups, Opens
<1>3. /\ r.back = <<>> /\ r.pc \in Homes /\ r.pc \in WithDir \ (Gots \cup Mades)
      /\ r.ino = NoSlot
  BY <1>1, <1>2, LookedUp
<1>4. CASE Fail(p)
  BY <1>1, <1>3, <1>4, FailKeeps
<1>5. CASE GoOn(p, Enter(Enter(r, "fresh", "made"), "empty", "fresh"))
  <2> DEFINE q == Enter(Enter(r, "fresh", "made"), "empty", "fresh")
  <2>1. at' = [at EXCEPT ![p] = q]
    BY <1>5 DEF GoOn
  <2>2. "made" \in Mades /\ KindsAt("made") = Opens /\ SameHold(r.pc, "made")
    <3>1. "made" \in Mades /\ "made" \in WithDir /\ r.pc # "done"
      BY <1>1 DEF Mades, WithDir, Opens
    <3>2. KindsAt("made") = Opens
      BY KindsAre
    <3>3. QED
      BY <1>3, <3>1, <3>2 DEF SameHold
  <2> HIDE DEF q
  <2>3. Good(q) /\ AsMuch(q, r)
    BY <1>1, <1>3, <2>2, EntersFresh DEF q
  <2>4. QED
    BY <1>1, <2>1, <2>3, StepStill
<1>6. QED
  BY <1>4, <1>5 DEF OpenMissing

(* open: the new inode.                                                    *)
LEMMA OpenMadeKeeps ==
  ASSUME UsersInv, NEW p \in Proc, OpenMade(p)
  PROVE  UsersInv'
<1> DEFINE r == at[p]
<1>1. Good(r) /\ r.pc = "made"
  BY DEF UsersInv, OpenMade, Here
<1>2. /\ "made" \in Homes /\ "made" \in WithDir \cap Mades
      /\ "made" \notin WithIno \cup {"user", "done"}
  BY DEF Homes, WithDir, WithIno, Mades, Adding
<1>3. /\ Whole(r) /\ r.back = <<>> /\ r.kind \in Opens /\ r.puts = <<>> /\ r.empty = NoSlot
      /\ r.ino = NoSlot /\ r.file = NoSlot
      /\ Holding(r) = Places(r.file, r.dir, NoSlot, r.work, NoSlot, NoSlot)
  <2>1. KindsAt("made") = Opens /\ "linkto" \notin Opens
    BY KindsAre DEF Opens
  <2>2. r.kind \in Opens
    BY <1>1, <1>2, <2>1, AtHome
  <2>3. QED
    BY <1>1, <1>2, <2>1, <2>2, AtHome
<1>4. CASE r.work = NoSlot
  <2>1. Fail(p) /\ UNCHANGED table
    BY <1>4 DEF OpenMade
  <2>2. QED
    BY <1>1, <1>2, <1>4, <2>1, FailKeeps
<1>5. CASE r.work # NoSlot
  <2> DEFINE q == [r EXCEPT !.pc = "add", !.ino = r.work]
             i == [Slot(p) EXCEPT !.mode = "reg", !.dirt = TRUE]
  <2>1. q = [r EXCEPT !.pc = "add", !.ino = r.work] /\ at' = [at EXCEPT ![p] = q]
    BY <1>5 DEF OpenMade, GoOn
  <2>2. /\ "add" \in Homes /\ "add" \in WithDir \cap WithIno /\ "add" \notin Gots \cup Mades
        /\ "add" \in Adding
    BY DEF Homes, WithDir, WithIno, Gots, Mades, Adding
  <2> HIDE DEF q
  <2>3. /\ Whole(q) /\ q.pc = "add" /\ q.back = <<>> /\ q.puts = <<>> /\ q.empty = NoSlot
        /\ q.kind = r.kind /\ q.file = r.file /\ q.dir = r.dir /\ q.ino = r.work
    <3> HIDE DEF r
    <3>1. QED
      BY <1>3, <2>1 DEF Whole
  <2>4. Fits(q, "add") /\ Len(q.puts) = 0
    <3>1. KindsAt("add") = Opens \cup {"mkdir", "linkto"}
      BY <2>2, KindsAre
    <3>2. QED
      BY <1>3, <2>2, <2>3, <3>1 DEF Fits
  <2>5. Good(q) /\ Holding(q) = HeldFor(q, "add", NoSlot)
    BY <2>2, <2>3, <2>4, ComesHome
  <2>6. Holding(q) = Places(r.file, r.dir, r.work, NoSlot, NoSlot, NoSlot)
    BY <2>2, <2>3, <2>4, <2>5 DEF HeldFor
  <2>7. AsMuch(q, r)
    BY <1>3, <2>6, RefsAre DEF AsMuch, One
  <2>8. TableIs(table') /\ \A s \in Slots : table'[s].count = table[s].count
    <3>1. TableIs(table)
      BY SameTable
    <3>2. table' = Written(table, r.work, i)
      BY <1>5 DEF OpenMade, Update, Written
    <3>3. r.work \in Slots => WholeInode(i) /\ i.count = table[r.work].count
      <4>1. r.work \in Slots => WholeInode(Slot(p))
        BY <3>1 DEF TableIs, Slot
      <4>2. i = [[Slot(p) EXCEPT !.mode = "reg"] EXCEPT !.dirt = TRUE]
        OBVIOUS
      <4> DEFINE m == [Slot(p) EXCEPT !.mode = "reg"]
      <4>3. r.work \in Slots => WholeInode(m) /\ m.count = Slot(p).count
        BY <4>1, FieldOnly DEF Changed
      <4> HIDE DEF m
      <4>4. r.work \in Slots => WholeInode(i) /\ i.count = m.count
        BY <4>2, <4>3, FieldOnly DEF Changed, m
      <4>5. QED
        BY <4>3, <4>4 DEF Slot
    <3> HIDE DEF i
    <3>4. TableIs(table') /\ \A s \in Slots : table'[s] = IF s = r.work THEN i ELSE table[s]
      BY <3>1, <3>2, <3>3, WriteSlot
    <3>5. QED
      BY <3>3, <3>4
  <2>9. QED
    BY <2>1, <2>5, <2>7, <2>8, StepsOn
<1>6. QED
  BY <1>4, <1>5

(* open: the entry.                                                        *)
LEMMA OpenEntryKeeps ==
  ASSUME UsersInv, NEW p \in Proc, OpenEntry(p)
  PROVE  UsersInv'
<1> DEFINE r == at[p]
           e == PutAll(r, <<r.dir>>, "done")
           f == [e EXCEPT !.file = r.ino, !.ino = NoSlot]
           q == NoBlock(f)
<1>1. Good(r) /\ r.pc = "entry" /\ r.pc \in Adding /\ r.kind \in Opens
  BY DEF UsersInv, OpenEntry, Room, Here, Adding
<1>2. /\ Whole(r) /\ r.back = <<>> /\ <<r.dir>> \in Seq(Nat) /\ r.empty = NoSlot /\ r.ino \in Nat
      /\ r.file = NoSlot /\ Holding(r) = Places(r.file, r.dir, r.ino, NoSlot, NoSlot, NoSlot)
  BY <1>1, InAdding
<1>3. Putting(e, r, <<r.dir>>, "done")
  BY <1>2, PutForms
<1>4. at' = [at EXCEPT ![p] = q] /\ f = [e EXCEPT !.file = r.ino, !.ino = NoSlot]
  BY DEF OpenEntry, GoOn
<1> HIDE DEF f, e
<1>5. /\ Whole(f) /\ f.pc = "puts" /\ f.back = <<"done">> /\ f.puts = <<r.dir>> /\ f.empty = NoSlot
      /\ f.kind = r.kind /\ f.file = r.ino
  <2> HIDE DEF r
  <2>1. QED
    BY <1>2, <1>3, <1>4, NoSlotIs DEF Putting, Whole
<1>6. Alike(q, f) /\ q.pc = f.pc /\ q.back = f.back
  BY <1>5, DataDoes, ZenonT(60) DEF NoBlock
<1> HIDE DEF q
<1>7. Len(<<r.dir>>) = 1 /\ <<r.dir>>[1] = r.dir /\ KindsAt("done") = Kinds /\ Opens \subseteq Kinds
  BY KindsAre DEF Kinds, Lookups
<1>8. /\ Fits(q, "done") /\ Len(q.puts) <= 2 /\ q.pc = "puts" /\ q.back = <<"done">>
      /\ q.puts = <<r.dir>> /\ q.file = r.ino
  BY <1>1, <1>5, <1>6, <1>7 DEF Fits, Alike
<1>9. Good(q) /\ Holding(q) = HeldFor(q, "done", NoSlot)
  BY <1>8, GoesToPut, HomesHold
<1>10. Holding(q) = Places(r.ino, NoSlot, NoSlot, NoSlot, r.dir, NoSlot)
  BY <1>7, <1>8, <1>9, HomesHold DEF HeldFor
<1>11. AsMuch(q, r)
  BY <1>2, <1>10, RefsAre DEF AsMuch, One
<1>12. TableIs(table') /\ \A s \in Slots : table'[s].count = table[s].count
  <2>1. table' \in ChangedAt(table, r.dir, table[r.dir].dirt \/ Free(p) = {})
    BY DEF OpenEntry, ChangedAt
  <2>2. QED
    BY <2>1, SameTable, WriteField
<1>13. QED
  BY <1>4, <1>9, <1>11, <1>12, StepsOn

(* open: no room for the entry.                                            *)
LEMMA OpenNoRoomKeeps ==
  ASSUME UsersInv, NEW p \in Proc, OpenNoRoom(p)
  PROVE  UsersInv'
<1> DEFINE r == at[p]
           q == PutAll(r, <<r.ino, r.dir>>, "done")
<1>1. Good(r) /\ r.pc \in Adding
  BY DEF UsersInv, OpenNoRoom, Here, Adding
<1>2. Whole(r) /\ r.back = <<>> /\ <<r.ino, r.dir>> \in Seq(Nat) /\ r.pc \in JustBoth
  BY <1>1, InAdding
<1>3. Putting(q, r, <<r.ino, r.dir>>, "done")
  BY <1>2, PutForms
<1>4. at' = [at EXCEPT ![p] = q]
  BY DEF OpenNoRoom, GoOn
<1> HIDE DEF q
<1>5. Good(q) /\ AsMuch(q, r)
  BY <1>1, <1>2, <1>3, GivesBoth
<1>6. TableIs(table') /\ \A s \in Slots : table'[s].count = table[s].count
  <2>1. table' \in ChangedAt(table, r.ino, table[r.ino].links - 1)
    BY DEF OpenNoRoom, ChangedAt
  <2>2. QED
    BY <2>1, SameTable, WriteField
<1>7. QED
  BY <1>4, <1>5, <1>6, StepsOn

(* open: the name is there.                                                *)
LEMMA OpenFoundKeeps ==
  ASSUME UsersInv, NEW p \in Proc, OpenFound(p)
  PROVE  UsersInv'
<1> DEFINE r == at[p]
           l == IF r.kind = "excl" THEN "done" ELSE "open_take"
           q == NoBlock([PutAll(r, <<r.dir>>, l) EXCEPT !.num = Named(p)])
<1>1. Good(r) /\ UNCHANGED table /\ r.pc = r.kind /\ r.pc \in Opens
  BY DEF UsersInv, OpenFound, Still, Here
<1>2. r.pc \in Lookups /\ r.pc # "linkto"
  BY <1>1 DEF Lookups, Opens
<1>3. /\ Whole(r) /\ r.back = <<>> /\ <<r.dir>> \in Seq(Nat)
      /\ r.pc \in WithDir \ (Gots \cup Mades) /\ r.ino = NoSlot
  BY <1>1, <1>2, LookedUp
<1>4. l \in Putters /\ r.kind \in KindsAt(l)
  <2>1. KindsAt("done") = Kinds /\ KindsAt("open_take") = Opens
    BY KindsAre
  <2>2. QED
    BY <1>1, <2>1 DEF Putters, Kinds, Lookups
<1>5. at' = [at EXCEPT ![p] = q]
  BY DEF OpenFound, GoOn
<1> HIDE DEF l
<1>6. Putting(q, r, <<r.dir>>, l)
  BY <1>3, PutForms
<1> HIDE DEF q
<1>7. Good(q) /\ AsMuch(q, r)
  BY <1>1, <1>3, <1>4, <1>6, GivesDir
<1>8. QED
  BY <1>1, <1>5, <1>7, StepStill

(* open: the inode of the name.                                            *)
LEMMA OpenTakenKeeps ==
  ASSUME UsersInv, NEW p \in Proc, OpenTaken(p)
  PROVE  UsersInv'
<1> DEFINE r == at[p]
<1>0. Good(r) /\ UNCHANGED table
  BY DEF UsersInv, OpenTaken, Still
<1>1. CASE Here(p, "open_take")
  <2> DEFINE q == Enter(r, "iget", "opened")
  <2>1. r.pc = "open_take" /\ "open_take" \in Homes /\ "open_take" \notin WithIno \cup WithDir
    BY <1>1 DEF Here, Homes, Putters, WithIno, WithDir, Walking, Lookups, Opens, Mades, Adding
  <2>2. /\ Whole(r) /\ r.back = <<>> /\ r.kind \in Opens /\ KindsAt("opened") = Opens
        /\ r.ino = NoSlot
    <3>1. KindsAt("open_take") = Opens /\ KindsAt("opened") = Opens /\ "linkto" \notin Opens
      BY KindsAre DEF Opens
    <3>2. r.kind \in Opens
      BY <1>0, <2>1, <3>1, AtHome
    <3>3. QED
      BY <1>0, <2>1, <3>1, <3>2, AtHome
  <2>3. Alike(q, r) /\ q.pc = "iget" /\ q.back = <<"opened">>
    BY <2>2, EnterHome
  <2>4. /\ SameHold("open_take", "opened") /\ "iget" \in Callees /\ "opened" \in Gots
    BY DEF SameHold, WithDir, Walking, Gots, Mades, Adding, Callees, Lookups, Opens
  <2>5. <<"opened">> \in Backs("iget") /\ "opened" # "done"
    BY <2>4, BacksAre
  <2>6. at' = [at EXCEPT ![p] = q]
    BY <1>1, <2>1 DEF OpenTaken, Here, GoOn
  <2> HIDE DEF q
  <2>7. Good(q) /\ AsMuch(q, r)
    BY <1>0, <2>1, <2>2, <2>3, <2>4, <2>5, EntersOne
  <2>8. QED
    BY <1>0, <2>6, <2>7, StepStill
<1>2. CASE Here(p, "opened")
  <2>1. /\ r.pc = "opened" /\ "opened" \in Homes \cap Gots
        /\ "opened" \notin WithIno \cup WithDir \cup {"user", "done"}
    BY <1>2 DEF Here, Homes, Gots, WithIno, WithDir, Walking, Lookups, Opens, Mades, Adding
  <2>2. /\ Whole(r) /\ r.back = <<>> /\ r.kind \in Opens /\ r.puts = <<>> /\ r.empty = NoSlot
        /\ r.ino = NoSlot /\ r.file = NoSlot
        /\ Holding(r) = Places(NoSlot, NoSlot, NoSlot, r.work, NoSlot, NoSlot)
    <3>1. KindsAt("opened") = Opens /\ "linkto" \notin Opens
      BY KindsAre DEF Opens
    <3>2. r.kind \in Opens
      BY <1>0, <2>1, <3>1, AtHome
    <3>3. r.file = NoSlot /\ r.ino = NoSlot
      BY <1>0, <2>1, <3>1, <3>2, AtHome
    <3>4. QED
      BY <1>0, <2>1, <3>2, <3>3, AtHome
  <2>3. /\ KindsAt("done") = Kinds /\ Opens \subseteq Kinds /\ "done" \in Homes
        /\ "done" \notin WithDir \cup Gots \cup Mades
    BY KindsAre, HomesHold DEF Kinds, Lookups
  <2>4. CASE GoOn(p, PutAll(r, <<r.work>>, "done"))
    <3> DEFINE q == PutAll(r, <<r.work>>, "done")
    <3>1. <<r.work>> \in Seq(Nat)
      BY <2>2 DEF Whole
    <3>2. Putting(q, r, <<r.work>>, "done")
      BY <2>2, <3>1, PutForms
    <3>3. at' = [at EXCEPT ![p] = q]
      BY <2>4 DEF GoOn
    <3> HIDE DEF q
    <3>4. Good(q) /\ AsMuch(q, r)
      BY <1>0, <2>1, <3>2, GivesWork
    <3>5. QED
      BY <1>0, <3>3, <3>4, StepStill
  <2> DEFINE o == [r EXCEPT !.file = r.work]
  <2>5. /\ Whole(o) /\ o.pc = "opened" /\ o.back = <<>> /\ o.kind = r.kind /\ o.puts = <<>>
        /\ o.empty = NoSlot /\ o.file = r.work
    <3>1. o = [r EXCEPT !.file = r.work]
      OBVIOUS
    <3> HIDE DEF o, r
    <3>2. QED
      BY <2>1, <2>2, <3>1 DEF Whole
  <2>6. CASE GoOn(p, Enter(o, "truncate", "done"))
    <3> DEFINE q == Enter(o, "truncate", "done")
    <3>1. at' = [at EXCEPT ![p] = q]
      BY <2>6 DEF GoOn
    <3> HIDE DEF o
    <3>2. Alike(q, o) /\ q.pc = "truncate" /\ q.back = <<"done">>
      BY <2>5, EnterHome
    <3> HIDE DEF q
    <3>3. Fits(q, "done") /\ q.puts = <<>> /\ Len(q.puts) = 0 /\ q.file = r.work
      BY <2>2, <2>3, <2>5, <3>2 DEF Fits, Alike
    <3>4. "truncate" \in Freeing /\ "truncate" \notin Homes \cup {"read"}
      BY DEF Freeing, Homes, Lookups, Opens, Gots, Mades, Putters, Adding, Walking
    <3>5. q.back \in Backs(q.pc)
      <4>1. Backs("truncate") = {<<"free", "puts", h>> : h \in Putters} \cup {<<"done">>}
        BY <3>4, BacksAre
      <4>2. QED
        BY <3>2, <4>1
    <3>6. Home(q) = "done" /\ ~InPut(q)
      BY <3>2, <3>4, HomeIs, InPutIs
    <3>7. Good(q) /\ Holding(q) = HeldFor(q, "done", NoSlot)
      BY <3>2, <3>3, <3>4, <3>5, <3>6, GoesInto
    <3>8. Holding(q) = Places(r.work, NoSlot, NoSlot, NoSlot, NoSlot, NoSlot)
      BY <2>3, <3>3, <3>7 DEF HeldFor
    <3>9. AsMuch(q, r)
      BY <2>2, <3>8, RefsAre DEF AsMuch, One
    <3>10. QED
      BY <1>0, <3>1, <3>7, <3>9, StepStill
  <2>7. CASE GoOn(p, To(o, "done"))
    <3> DEFINE q == To(o, "done")
    <3>1. at' = [at EXCEPT ![p] = q]
      BY <2>7 DEF GoOn
    <3> HIDE DEF o
    <3>2. Alike(q, o) /\ q.pc = "done" /\ q.back = <<>>
      BY <2>5, ToDoes
    <3> HIDE DEF q
    <3>3. Fits(q, "done") /\ q.puts = <<>> /\ Len(q.puts) = 0 /\ q.file = r.work
      BY <2>2, <2>3, <2>5, <3>2 DEF Fits, Alike
    <3>4. Good(q) /\ Holding(q) = HeldFor(q, "done", NoSlot)
      BY <2>3, <3>2, <3>3, ComesHome
    <3>5. Holding(q) = Places(r.work, NoSlot, NoSlot, NoSlot, NoSlot, NoSlot)
      BY <2>3, <3>3, <3>4 DEF HeldFor
    <3>6. AsMuch(q, r)
      BY <2>2, <3>5, RefsAre DEF AsMuch, One
    <3>7. QED
      BY <1>0, <3>1, <3>4, <3>6, StepStill
  <2>8. QED
    BY <1>2, <2>1, <2>4, <2>6, <2>7 DEF OpenTaken, Here
<1>3. QED
  BY <1>1, <1>2 DEF OpenTaken

(* mkdir: whether the name is there.                                       *)
LEMMA MkdirLookedKeeps ==
  ASSUME UsersInv, NEW p \in Proc, MkdirLooked(p)
  PROVE  UsersInv'
<1> DEFINE r == at[p]
<1>1. Good(r) /\ UNCHANGED table /\ r.pc = "mkdir"
  BY DEF UsersInv, MkdirLooked, Still, Here
<1>2. r.pc \in Lookups /\ r.pc # "linkto"
  BY <1>1 DEF Lookups
<1>3. /\ r.back = <<>> /\ r.pc \in Homes /\ r.pc \in WithDir \ (Gots \cup Mades)
      /\ r.ino = NoSlot /\ r.kind = "mkdir"
  BY <1>1, <1>2, LookedUp
<1>4. CASE Fail(p)
  BY <1>1, <1>3, <1>4, FailKeeps
<1>5. CASE GoOn(p, Enter(Enter(r, "fresh", "mk_made"), "empty", "fresh"))
  <2> DEFINE q == Enter(Enter(r, "fresh", "mk_made"), "empty", "fresh")
  <2>1. at' = [at EXCEPT ![p] = q]
    BY <1>5 DEF GoOn
  <2>2. "mk_made" \in Mades /\ KindsAt("mk_made") = {"mkdir"} /\ SameHold(r.pc, "mk_made")
    <3>1. "mk_made" \in Mades /\ "mk_made" \in WithDir
      BY DEF Mades, WithDir
    <3>2. KindsAt("mk_made") = {"mkdir"}
      BY KindsAre
    <3>3. QED
      BY <1>1, <1>3, <3>1, <3>2 DEF SameHold
  <2> HIDE DEF q
  <2>3. Good(q) /\ AsMuch(q, r)
    BY <1>1, <1>3, <2>2, EntersFresh DEF q
  <2>4. QED
    BY <1>1, <2>1, <2>3, StepStill
<1>6. QED
  BY <1>4, <1>5 DEF MkdirLooked

(* mkdir: the new inode.                                                   *)
LEMMA MkdirMadeKeeps ==
  ASSUME UsersInv, NEW p \in Proc, MkdirMade(p)
  PROVE  UsersInv'
<1> DEFINE r == at[p]
<1>1. Good(r) /\ UNCHANGED table /\ r.pc = "mk_made"
  BY DEF UsersInv, MkdirMade, Still, Here
<1>2. /\ "mk_made" \in Homes /\ "mk_made" \in WithDir \cap Mades
      /\ "mk_made" \notin WithIno \cup {"user", "done"}
  BY DEF Homes, WithDir, WithIno, Mades, Adding
<1>3. /\ Whole(r) /\ r.back = <<>> /\ r.kind = "mkdir" /\ r.puts = <<>> /\ r.empty = NoSlot
      /\ Holding(r) = Places(r.file, r.dir, NoSlot, r.work, NoSlot, NoSlot)
  <2>1. KindsAt("mk_made") = {"mkdir"}
    BY KindsAre
  <2>2. r.kind = "mkdir"
    BY <1>1, <1>2, <2>1, AtHome
  <2>3. r.ino = NoSlot
    BY <1>1, <1>2, <2>2, AtHome
  <2>4. QED
    BY <1>1, <1>2, <2>2, <2>3, AtHome
<1>4. CASE r.work = NoSlot
  <2>1. Fail(p)
    BY <1>4 DEF MkdirMade
  <2>2. QED
    BY <1>1, <1>2, <1>4, <2>1, FailKeeps
<1>5. CASE r.work # NoSlot
  <2> DEFINE e == Enter(r, "newblk", "mk_block")
             q == [e EXCEPT !.ino = r.work]
  <2>1. Alike(e, r) /\ e.pc = "newblk" /\ e.back = <<"mk_block">>
    BY <1>3, EnterHome
  <2>2. q = [e EXCEPT !.ino = r.work] /\ at' = [at EXCEPT ![p] = q]
    BY <1>5 DEF MkdirMade, GoOn
  <2>3. r.work \in Nat
    BY <1>3 DEF Whole
  <2> HIDE DEF e, q
  <2>4. /\ Whole(q) /\ q.pc = "newblk" /\ q.back = <<"mk_block">> /\ q.puts = <<>>
        /\ q.empty = NoSlot /\ q.kind = r.kind /\ q.file = r.file /\ q.dir = r.dir /\ q.ino = r.work
    <3> HIDE DEF r
    <3>1. QED
      BY <1>3, <2>1, <2>2, <2>3 DEF Whole, Alike
  <2>5. /\ "mk_block" \in WithDir \cap WithIno /\ KindsAt("mk_block") = {"mkdir"}
        /\ "newblk" \notin Homes \cup {"read"} \cup Freeing
    <3>1. KindsAt("mk_block") = {"mkdir"}
      BY KindsAre
    <3>2. /\ "mk_block" \in WithDir \cap WithIno
          /\ "newblk" \notin Homes \cup {"read"} \cup Freeing
      BY DEF WithDir, WithIno, Homes, Lookups, Opens, Gots, Mades, Putters, Adding, Walking, Freeing
    <3>3. QED
      BY <3>1, <3>2
  <2>6. Fits(q, "mk_block") /\ Len(q.puts) = 0
    BY <1>3, <2>4, <2>5 DEF Fits, Opens
  <2>7. q.back \in Backs(q.pc) /\ Home(q) = "mk_block" /\ ~InPut(q)
    <3>1. Backs("newblk") = {<<"mk_block">>, <<"grown">>} \cup
                              {<<h, "done">> : h \in {"bmap_set", "bmap7_set", "bmap7_put"}}
      BY BacksAre
    <3>2. q.back \in Backs(q.pc)
      BY <2>4, <3>1
    <3>3. QED
      BY <2>4, <2>5, <3>2, HomeIs, InPutIs
  <2>8. Good(q) /\ Holding(q) = HeldFor(q, "mk_block", NoSlot)
    BY <2>4, <2>5, <2>6, <2>7, GoesInto
  <2>9. Holding(q) = Places(r.file, r.dir, r.work, NoSlot, NoSlot, NoSlot)
    BY <2>4, <2>5, <2>6, <2>8 DEF HeldFor
  <2>10. AsMuch(q, r)
    BY <1>3, <2>9, RefsAre DEF AsMuch, One
  <2>11. QED
    BY <1>1, <2>2, <2>8, <2>10, StepStill
<1>6. QED
  BY <1>4, <1>5

\* The places of mkdir after it has its block.
InMkdir == {"mk_block", "mk_fill", "mk_free", "mk_undo"}

(* What mkdir holds there.                                                 *)
LEMMA MkdirHolds ==
  ASSUME NEW r, Good(r), r.pc \in InMkdir
  PROVE  /\ Whole(r) /\ r.back = <<>> /\ r.kind = "mkdir" /\ r.pc \in Homes \cap WithIno
         /\ r.pc \notin Gots \cup Mades \cup {"user", "done"} /\ <<r.dir>> \in Seq(Nat)
         /\ <<r.ino>> \in Seq(Nat)
<1>1. r.pc \in Homes \cap WithIno /\ r.pc \notin Gots \cup Mades \cup {"user", "done"}
  BY DEF InMkdir, Homes, Putters, WithIno, Gots, Mades
<1>2. KindsAt(r.pc) = {"mkdir"}
  BY KindsAre DEF InMkdir
<1>3. Whole(r) /\ r.back = <<>> /\ r.kind = "mkdir"
  BY <1>1, <1>2, AtHome
<1>4. <<r.dir>> \in Seq(Nat) /\ <<r.ino>> \in Seq(Nat)
  BY <1>3 DEF Whole
<1>5. QED
  BY <1>1, <1>3, <1>4

(* mkdir: the block.                                                       *)
LEMMA MkdirBlockKeeps ==
  ASSUME UsersInv, NEW p \in Proc, MkdirBlock(p)
  PROVE  UsersInv'
<1> DEFINE r == at[p]
<1>1. Good(r) /\ r.pc = "mk_block" /\ r.pc \in InMkdir
  BY DEF UsersInv, MkdirBlock, Here, InMkdir
<1>2. /\ Whole(r) /\ r.back = <<>> /\ r.kind = "mkdir" /\ r.pc \in Homes \cap WithIno
      /\ r.pc \notin Gots \cup Mades \cup {"user", "done"} /\ <<r.dir>> \in Seq(Nat)
  BY <1>1, MkdirHolds
<1>3. "mk_block" \in WithDir
  BY DEF WithDir
<1>4. CASE r.blk = 0
  <2> DEFINE q == PutAll(r, <<r.dir>>, "mk_undo")
  <2>1. Putting(q, r, <<r.dir>>, "mk_undo")
    BY <1>2, PutForms
  <2>2. /\ "mk_undo" \in Putters /\ "mk_undo" \in WithIno /\ "mk_undo" # "done"
        /\ KindsAt("mk_undo") = {"mkdir"}
    BY KindsAre DEF Putters, WithIno
  <2>3. at' = [at EXCEPT ![p] = q] /\ UNCHANGED table
    BY <1>4 DEF MkdirBlock, GoOn
  <2> HIDE DEF q
  <2>4. Good(q) /\ AsMuch(q, r)
    BY <1>1, <1>2, <1>3, <2>1, <2>2, GivesDir
  <2>5. QED
    BY <2>3, <2>4, StepStill
<1>5. CASE r.blk # 0
  <2> DEFINE q == [r EXCEPT !.pc = "mk_fill", !.bh = r.blk]
  <2>1. q = [r EXCEPT !.pc = "mk_fill", !.bh = r.blk] /\ at' = [at EXCEPT ![p] = q]
    BY <1>5 DEF MkdirBlock, MaySleep
  <2> HIDE DEF q
  <2>2. Alike(q, r) /\ q.pc = "mk_fill" /\ q.back = <<>>
    <3> HIDE DEF r
    <3>1. QED
      BY <1>2, <2>1 DEF Alike, Whole
  <2>3. /\ "mk_fill" \in Homes \ (Gots \cup Mades) /\ "mk_fill" \in WithDir \cap WithIno
        /\ KindsAt("mk_fill") = {"mkdir"} /\ "mk_fill" \notin {"user", "done"}
    BY KindsAre DEF Homes, Gots, Mades, WithDir, WithIno
  <2>4. SameHold(r.pc, q.pc)
    BY <1>1, <1>2, <1>3, <2>2, <2>3 DEF SameHold
  <2>5. Good(q) /\ AsMuch(q, r)
    BY <1>1, <1>2, <2>2, <2>3, <2>4, HomeDoes
  <2>6. TableIs(table') /\ \A s \in Slots : table'[s].count = table[s].count
    <3> DEFINE t == [table EXCEPT ![r.ino].zone = r.blk]
    <3>1. t \in ChangedAt(table, r.ino, r.blk)
      BY DEF ChangedAt
    <3>2. table' = [t EXCEPT ![r.ino].dirt = TRUE]
      BY <1>5 DEF MkdirBlock
    <3> HIDE DEF t
    <3>3. PICK v : table' \in ChangedAt(t, r.ino, v)
      BY <3>2 DEF ChangedAt
    <3>4. TableIs(t) /\ \A s \in Slots : t[s].count = table[s].count
      BY <3>1, SameTable, WriteField
    <3>5. TableIs(table') /\ \A s \in Slots : table'[s].count = t[s].count
      BY <3>3, <3>4, WriteField
    <3>6. QED
      BY <3>4, <3>5
  <2>7. QED
    BY <2>1, <2>5, <2>6, StepsOn
<1>6. QED
  BY <1>4, <1>5

(* mkdir: the entries of the new directory.                                *)
LEMMA MkdirFillKeeps ==
  ASSUME UsersInv, NEW p \in Proc, MkdirFill(p)
  PROVE  UsersInv'
<1> DEFINE r == at[p]
           e == To(r, "add")
           q == NoBlock(e)
<1>1. Good(r) /\ r.pc = "mk_fill" /\ r.pc \in InMkdir
  BY DEF UsersInv, MkdirFill, Here, InMkdir
<1>2. /\ Whole(r) /\ r.back = <<>> /\ r.kind = "mkdir" /\ r.pc \in Homes
      /\ r.pc \notin Gots \cup Mades \cup {"user", "done"}
  BY <1>1, MkdirHolds
<1>3. at' = [at EXCEPT ![p] = q]
  BY DEF MkdirFill, GoOn
<1>4. Alike(e, r) /\ e.pc = "add" /\ e.back = <<>>
  BY <1>2, ToDoes
<1> HIDE DEF e
<1>5. Alike(q, r) /\ q.pc = "add" /\ q.back = <<>>
  <2>1. Whole(e)
    BY <1>4 DEF Alike
  <2>2. Alike(q, e) /\ q.pc = e.pc /\ q.back = e.back
    BY <2>1, DataDoes DEF NoBlock
  <2> HIDE DEF q
  <2>3. QED
    BY <1>4, <2>2 DEF Alike
<1> HIDE DEF q
<1>6. /\ "add" \in Homes \ (Gots \cup Mades) /\ {"mk_fill", "add"} \subseteq WithDir
      /\ "add" \in WithIno /\ "add" \in Adding
  BY DEF Homes, Gots, Mades, WithDir, WithIno, Adding
<1>7. SameHold(r.pc, q.pc)
  BY <1>1, <1>2, <1>5, <1>6 DEF SameHold
<1>8. KindsAt("add") = Opens \cup {"mkdir", "linkto"}
  BY <1>6, KindsAre
<1>9. Good(q) /\ AsMuch(q, r)
  BY <1>1, <1>2, <1>5, <1>6, <1>7, <1>8, HomeDoes
<1>10. TableIs(table') /\ \A s \in Slots : table'[s].count = table[s].count
  <2> DEFINE t == [table EXCEPT ![r.ino].links = 2]
             u == [t EXCEPT ![r.ino].mode = "dir"]
  <2>1. t \in ChangedAt(table, r.ino, 2)
    BY DEF ChangedAt
  <2>2. table' = [u EXCEPT ![r.ino].dirt = TRUE]
    BY DEF MkdirFill
  <2> HIDE DEF t
  <2>3. u \in ChangedAt(t, r.ino, "dir")
    BY DEF ChangedAt
  <2> HIDE DEF u
  <2>4. PICK v : table' \in ChangedAt(u, r.ino, v)
    BY <2>2 DEF ChangedAt
  <2>5. TableIs(t) /\ \A s \in Slots : t[s].count = table[s].count
    BY <2>1, SameTable, WriteField
  <2>6. TableIs(u) /\ \A s \in Slots : u[s].count = t[s].count
    BY <2>3, <2>5, WriteField
  <2>7. TableIs(table') /\ \A s \in Slots : table'[s].count = u[s].count
    BY <2>4, <2>6, WriteField
  <2>8. QED
    BY <2>5, <2>6, <2>7
<1>11. QED
  BY <1>3, <1>9, <1>10, StepsOn

(* Two fields are written.                                                 *)
LEMMA WriteTwo ==
  ASSUME UsersInv, NEW t, NEW x, NEW v, NEW y, NEW w,
         t \in ChangedAt(table, x, v), table' \in ChangedAt(t, y, w)
  PROVE  TableIs(table') /\ \A s \in Slots : table'[s].count = table[s].count
<1>1. TableIs(t) /\ \A s \in Slots : t[s].count = table[s].count
  BY SameTable, WriteField
<1>2. TableIs(table') /\ \A s \in Slots : table'[s].count = t[s].count
  BY <1>1, WriteField
<1>3. QED
  BY <1>1, <1>2

(* mkdir: the entry in the parent.                                         *)
LEMMA MkdirEntryKeeps ==
  ASSUME UsersInv, NEW p \in Proc, MkdirEntry(p)
  PROVE  UsersInv'
<1> DEFINE r == at[p]
           e == PutAll(r, <<r.dir, r.ino>>, "done")
           q == [e EXCEPT !.ino = NoSlot]
<1>1. Good(r) /\ r.pc \in Adding
  BY DEF UsersInv, MkdirEntry, Room, Here, Adding
<1>2. r.kind = "mkdir"
  BY DEF MkdirEntry, Room
<1>3. /\ Whole(r) /\ r.back = <<>> /\ <<r.dir, r.ino>> \in Seq(Nat) /\ r.empty = NoSlot
      /\ Holding(r) = Places(r.file, r.dir, r.ino, NoSlot, NoSlot, NoSlot)
  BY <1>1, InAdding
<1>4. Putting(e, r, <<r.dir, r.ino>>, "done")
  BY <1>3, PutForms
<1>5. at' = [at EXCEPT ![p] = q] /\ q = [e EXCEPT !.ino = NoSlot]
  BY DEF MkdirEntry, GoOn
<1> HIDE DEF q, e
<1>6. /\ Whole(q) /\ q.pc = "puts" /\ q.back = <<"done">> /\ q.puts = <<r.dir, r.ino>>
      /\ q.empty = NoSlot /\ q.kind = "mkdir" /\ q.file = r.file
  <2> HIDE DEF r
  <2>1. QED
    BY <1>2, <1>3, <1>4, <1>5, NoSlotIs DEF Putting, Whole
<1>7. /\ Len(<<r.dir, r.ino>>) = 2 /\ <<r.dir, r.ino>>[1] = r.dir /\ <<r.dir, r.ino>>[2] = r.ino
      /\ KindsAt("done") = Kinds
  BY KindsAre
<1>8. Fits(q, "done") /\ Len(q.puts) <= 2
  <2>1. Len(q.puts) <= 2
    BY <1>6, <1>7
  <2>2. Fits(q, "done")
    BY <1>6, <1>7 DEF Fits, Opens, Kinds, Lookups
  <2>3. QED
    BY <2>1, <2>2
<1>9. Good(q) /\ Holding(q) = HeldFor(q, "done", NoSlot)
  BY <1>6, <1>8, GoesToPut, HomesHold
<1>10. Holding(q) = Places(r.file, NoSlot, NoSlot, NoSlot, r.dir, r.ino)
  BY <1>6, <1>7, <1>9, HomesHold DEF HeldFor
<1>11. AsMuch(q, r)
  BY <1>3, <1>10, RefsAre DEF AsMuch, One
<1>12. TableIs(table') /\ \A s \in Slots : table'[s].count = table[s].count
  <2> DEFINE v == (table[r.dir].links + 1) % 256
             t == [table EXCEPT ![r.dir].links = v]
  <2>1. t \in ChangedAt(table, r.dir, v)
    BY DEF ChangedAt
  <2>2. table' = [t EXCEPT ![r.dir].dirt = TRUE]
    BY DEF MkdirEntry
  <2> HIDE DEF t, v
  <2>3. PICK w : table' \in ChangedAt(t, r.dir, w)
    BY <2>2 DEF ChangedAt
  <2>4. QED
    BY <2>1, <2>3, WriteTwo
<1>13. QED
  BY <1>5, <1>9, <1>11, <1>12, StepsOn

(* mkdir: no room for the entry.                                           *)
LEMMA MkdirNoRoomKeeps ==
  ASSUME UsersInv, NEW p \in Proc, MkdirNoRoom(p)
  PROVE  UsersInv'
<1> DEFINE r == at[p]
<1>0. Good(r)
  BY DEF UsersInv
<1>1. CASE Here(p, "no_room") /\ r.kind = "mkdir" /\ GoOn(p, PutAll(r, <<r.dir>>, "mk_free")) /\ Still
  <2> DEFINE q == PutAll(r, <<r.dir>>, "mk_free")
  <2>1. r.pc \in Adding /\ UNCHANGED table /\ at' = [at EXCEPT ![p] = q]
    BY <1>1 DEF Here, Adding, Still, GoOn
  <2>2. Whole(r) /\ r.back = <<>> /\ <<r.dir>> \in Seq(Nat) /\ r.pc \in WithDir \ (Gots \cup Mades)
    BY <1>0, <2>1, InAdding
  <2>3. Putting(q, r, <<r.dir>>, "mk_free")
    BY <2>2, PutForms
  <2>4. /\ "mk_free" \in Putters /\ "mk_free" \in WithIno /\ "mk_free" # "done"
        /\ KindsAt("mk_free") = {"mkdir"}
    BY KindsAre DEF Putters, WithIno
  <2> HIDE DEF q
  <2>5. Good(q) /\ AsMuch(q, r)
    BY <1>0, <1>1, <2>2, <2>3, <2>4, GivesDir
  <2>6. QED
    BY <2>1, <2>5, StepStill
<1>2. CASE Here(p, "mk_free") /\ FreeLater(p, table[r.ino].zone, "mk_undo") /\ UNCHANGED table
  <2> DEFINE v == table[r.ino].zone
             q == EnterBlk(r, "freeblk", "mk_undo", v)
  <2>1. r.pc = "mk_free" /\ r.pc \in InMkdir /\ at' = [at EXCEPT ![p] = q]
    BY <1>2 DEF Here, InMkdir, FreeLater, MaySleep, EnterBlk
  <2>2. /\ Whole(r) /\ r.back = <<>> /\ r.kind = "mkdir" /\ r.pc \in Homes
        /\ r.pc \notin Gots \cup Mades \cup {"user", "done"}
    BY <1>0, <2>1, MkdirHolds
  <2> HIDE DEF v
  <2>3. Alike(q, r) /\ q.pc = "freeblk" /\ q.back = <<"mk_undo">>
    BY <2>2, EnterBlkDoes
  <2> HIDE DEF q
  <2>4. /\ {"mk_free", "mk_undo"} \cap WithDir = {} /\ "mk_undo" \in WithIno
        /\ KindsAt("mk_undo") = {"mkdir"} /\ "freeblk" \in Callees /\ "mk_undo" \notin {"user", "done"}
    BY KindsAre DEF WithDir, WithIno, Callees, Walking, Lookups, Opens, Mades, Adding
  <2>5. <<"mk_undo">> \in Backs("freeblk")
    BY BacksAre
  <2>6. SameHold(r.pc, "mk_undo")
    BY <2>1, <2>2, <2>4 DEF SameHold
  <2>7. Good(q) /\ AsMuch(q, r)
    BY <1>0, <2>2, <2>3, <2>4, <2>5, <2>6, EntersOne
  <2>8. QED
    BY <1>2, <2>1, <2>7, StepStill
<1>3. CASE Here(p, "mk_undo") /\ GoOn(p, PutAll(r, <<r.ino>>, "done"))
            /\ table' = [table EXCEPT ![r.ino].links = 0]
  <2> DEFINE q == PutAll(r, <<r.ino>>, "done")
  <2>1. r.pc \in JustIno /\ r.pc \in InMkdir /\ at' = [at EXCEPT ![p] = q]
    BY <1>3 DEF Here, InMkdir, JustIno, GoOn
  <2>2. Whole(r) /\ r.back = <<>> /\ <<r.ino>> \in Seq(Nat)
    BY <1>0, <2>1, MkdirHolds
  <2>3. Putting(q, r, <<r.ino>>, "done")
    BY <2>2, PutForms
  <2> HIDE DEF q
  <2>4. Good(q) /\ AsMuch(q, r)
    BY <1>0, <2>1, <2>3, GivesIno
  <2>5. table' \in ChangedAt(table, r.ino, 0)
    BY <1>3 DEF ChangedAt
  <2>6. TableIs(table') /\ \A s \in Slots : table'[s].count = table[s].count
    BY <2>5, SameTable, WriteField
  <2>7. QED
    BY <2>1, <2>4, <2>6, StepsOn
<1>4. QED
  BY <1>1, <1>2, <1>3 DEF MkdirNoRoom

(* rmdir and unlink: whether the name is there.                            *)
LEMMA RemovalLookedKeeps ==
  ASSUME UsersInv, NEW p \in Proc, RmdirLooked(p) \/ UnlinkLooked(p)
  PROVE  UsersInv'
<1> DEFINE r == at[p]
           got == IF r.pc = "rmdir" THEN "rm_got" ELSE "un_got"
<1>1. Good(r) /\ UNCHANGED table /\ r.pc \in {"rmdir", "unlink"}
  BY DEF UsersInv, RmdirLooked, UnlinkLooked, Still, Here
<1>2. r.pc \in Lookups /\ r.pc # "linkto"
  BY <1>1 DEF Lookups
<1>3. /\ Whole(r) /\ r.back = <<>> /\ r.pc \in Homes /\ r.pc \in WithDir \ (Gots \cup Mades)
      /\ r.ino = NoSlot /\ r.kind = r.pc /\ <<r.dir>> \in Seq(Nat)
  BY <1>1, <1>2, LookedUp
<1>4. CASE Fail(p)
  BY <1>1, <1>3, <1>4, FailKeeps
<1>5. CASE GoOn(p, PutAll(r, <<r.dir>>, "done"))
  <2> DEFINE q == PutAll(r, <<r.dir>>, "done")
  <2>1. Putting(q, r, <<r.dir>>, "done") /\ at' = [at EXCEPT ![p] = q]
    BY <1>3, <1>5, PutForms DEF GoOn
  <2>2. "done" \in Putters /\ KindsAt("done") = Kinds /\ r.kind \in Kinds
    BY <1>2, <1>3, KindsAre, HomesHold DEF Kinds
  <2> HIDE DEF q
  <2>3. Good(q) /\ AsMuch(q, r)
    BY <1>1, <1>3, <2>1, <2>2, GivesDir
  <2>4. QED
    BY <1>1, <2>1, <2>3, StepStill
<1>6. CASE GoOn(p, [Enter(r, "iget", got) EXCEPT !.num = Named(p)])
  <2> DEFINE v == Named(p)
             q == EnterNum(r, "iget", got, v)
  <2>1. at' = [at EXCEPT ![p] = q]
    BY <1>6 DEF GoOn, EnterNum
  <2>2. /\ got \in Gots /\ got \in WithDir /\ r.kind \in KindsAt(got) /\ "iget" \in Callees
        /\ got \notin {"user", "done"}
    <3>1. KindsAt("rm_got") = {"rmdir"} /\ KindsAt("un_got") = {"unlink"}
      BY KindsAre
    <3>2. QED
      BY <1>1, <1>3, <3>1 DEF Gots, WithDir, Callees
  <2> HIDE DEF v, got
  <2>3. Alike(q, r) /\ q.pc = "iget" /\ q.back = <<got>>
    BY <1>3, EnterNumDoes
  <2> HIDE DEF q
  <2>4. <<got>> \in Backs("iget")
    <3>1. Backs("iget") = {<<h>> : h \in Gots}
      BY BacksAre
    <3>2. QED
      BY <2>2, <3>1
  <2>5. SameHold(r.pc, got)
    BY <1>1, <1>3, <2>2 DEF SameHold
  <2>6. Good(q) /\ AsMuch(q, r)
    BY <1>1, <1>3, <2>2, <2>3, <2>4, <2>5, EntersOne
  <2>7. QED
    BY <1>1, <2>1, <2>6, StepStill
<1>7. CASE RmdirLooked(p)
  <2>1. r.pc = "rmdir" /\ got = "rm_got"
    BY <1>7 DEF RmdirLooked, Here
  <2>2. QED
    BY <1>4, <1>5, <1>6, <1>7, <2>1 DEF RmdirLooked
<1>8. CASE UnlinkLooked(p)
  <2>1. r.pc = "unlink" /\ got = "un_got"
    BY <1>8 DEF UnlinkLooked, Here
  <2>2. QED
    BY <1>4, <1>6, <1>8, <2>1 DEF UnlinkLooked
<1>9. QED
  BY <1>7, <1>8

\* The call keeps the inode it looked up.
TakesIno(q, r, l) ==
  /\ Whole(q) /\ q.pc = l /\ q.back = <<>> /\ q.puts = r.puts /\ q.empty = r.empty
  /\ q.kind = r.kind /\ q.dir = r.dir /\ q.ino = r.work /\ q.file = r.file

(* rmdir and unlink keep the directory and the inode.                      *)
LEMMA TakesBoth ==
  ASSUME NEW r, Good(r), NEW q,
         \/ r.pc = "rm_got" /\ TakesIno(q, r, "rm_empty")
         \/ r.pc = "un_got" /\ TakesIno(q, r, "un_clear")
  PROVE  Good(q) /\ AsMuch(q, r)
<1>1. /\ r.pc \in Homes \cap Gots \cap WithDir /\ r.pc \notin WithIno \cup {"user", "done"}
      /\ q.pc \in Homes \cap WithDir \cap WithIno /\ q.pc \notin Gots \cup Mades \cup {"user", "done"}
  BY DEF TakesIno, Homes, Gots, Mades, WithIno, WithDir, Adding, Walking, Lookups, Opens
<1>2. r.kind \in {"rmdir", "unlink"} /\ r.kind \in KindsAt(q.pc)
  <2>1. KindsAt("rm_got") = {"rmdir"} /\ KindsAt("rm_empty") = {"rmdir"}
    BY KindsAre
  <2>2. KindsAt("un_got") = {"unlink"} /\ KindsAt("un_clear") = {"unlink"}
    BY KindsAre
  <2>3. r.kind \in KindsAt(r.pc)
    BY <1>1, AtHome
  <2>4. CASE r.pc = "rm_got" /\ q.pc = "rm_empty"
    BY <2>1, <2>3, <2>4
  <2>5. CASE r.pc = "un_got" /\ q.pc = "un_clear"
    BY <2>2, <2>3, <2>5
  <2>6. QED
    BY <2>4, <2>5 DEF TakesIno
<1>3. /\ r.puts = <<>> /\ r.empty = NoSlot /\ r.ino = NoSlot
      /\ Holding(r) = Places(r.file, r.dir, NoSlot, r.work, NoSlot, NoSlot)
  <2>1. r.ino = NoSlot
    BY <1>1, <1>2, AtHome
  <2>2. QED
    BY <1>1, <2>1, AtHome
<1>4. Fits(q, q.pc) /\ q.back = <<>> /\ q.puts = <<>> /\ Len(q.puts) = 0
  BY <1>1, <1>2, <1>3 DEF Fits, TakesIno, Opens
<1>5. Good(q) /\ Holding(q) = HeldFor(q, q.pc, NoSlot)
  BY <1>1, <1>4, ComesHome
<1>6. Holding(q) = Places(r.file, r.dir, r.work, NoSlot, NoSlot, NoSlot)
  BY <1>1, <1>4, <1>5 DEF HeldFor, TakesIno
<1>7. QED
  BY <1>3, <1>5, <1>6, RefsAre DEF AsMuch, One

(* rmdir: the directory to remove.                                         *)
LEMMA RmdirTakenKeeps ==
  ASSUME UsersInv, NEW p \in Proc, RmdirTaken(p)
  PROVE  UsersInv'
<1> DEFINE r == at[p]
<1>1. Good(r) /\ UNCHANGED table /\ r.pc = "rm_got" /\ r.pc \in Homes
  BY DEF UsersInv, RmdirTaken, Still, Here, Homes, Gots
<1>2. Whole(r) /\ r.back = <<>>
  BY <1>1, AtHome
<1>3. r.work \in Nat /\ r.dir \in Nat /\ <<r.work, r.dir>> \in Seq(Nat)
  <2>1. r.work \in Nat /\ r.dir \in Nat
    BY <1>2 DEF Whole
  <2>2. QED
    BY <2>1
<1>4. CASE GoOn(p, PutAll(r, <<r.work, r.dir>>, "done"))
  <2> DEFINE q == PutAll(r, <<r.work, r.dir>>, "done")
  <2>1. Putting(q, r, <<r.work, r.dir>>, "done") /\ at' = [at EXCEPT ![p] = q]
    BY <1>2, <1>3, <1>4, PutForms DEF GoOn
  <2> HIDE DEF q
  <2>2. Good(q) /\ AsMuch(q, r)
    BY <1>1, <2>1, GivesWork
  <2>3. QED
    BY <1>1, <2>1, <2>2, StepStill
<1>5. ASSUME NEW b, NEW n,
             at' = [at EXCEPT ![p] = [r EXCEPT !.pc = "rm_empty", !.ino = r.work, !.ib = b, !.len = n]]
      PROVE  UsersInv'
  <2> DEFINE q == [r EXCEPT !.pc = "rm_empty", !.ino = r.work, !.ib = b, !.len = n]
  <2>1. q = [r EXCEPT !.pc = "rm_empty", !.ino = r.work, !.ib = b, !.len = n]
        /\ at' = [at EXCEPT ![p] = q]
    BY <1>5
  <2> HIDE DEF q
  <2>2. TakesIno(q, r, "rm_empty")
    <3> HIDE DEF r
    <3>1. QED
      BY <1>2, <1>3, <2>1, ZenonT(60) DEF TakesIno, Whole
  <2>3. Good(q) /\ AsMuch(q, r)
    BY <1>1, <2>2, TakesBoth
  <2>4. QED
    BY <1>1, <2>1, <2>3, StepStill
<1>6. CASE MaySleep(p, [at[p] EXCEPT !.pc = "rm_empty", !.ino = at[p].work,
                                     !.ib = Slot(p).zone, !.len = Len(data[Slot(p).zone])])
  <2> DEFINE b == Slot(p).zone
             n == Len(data[Slot(p).zone])
  <2>1. at' = [at EXCEPT ![p] = [r EXCEPT !.pc = "rm_empty", !.ino = r.work, !.ib = b, !.len = n]]
    BY <1>6 DEF MaySleep
  <2> HIDE DEF b, n
  <2>2. QED
    BY <1>5, <2>1
<1>7. QED
  BY <1>4, <1>6 DEF RmdirTaken

(* unlink: the file.                                                       *)
LEMMA UnlinkTakenKeeps ==
  ASSUME UsersInv, NEW p \in Proc, UnlinkTaken(p)
  PROVE  UsersInv'
<1> DEFINE r == at[p]
<1>1. Good(r) /\ UNCHANGED table /\ r.pc = "un_got" /\ r.pc \in Homes
  BY DEF UsersInv, UnlinkTaken, Still, Here, Homes, Gots
<1>2. Whole(r) /\ r.back = <<>>
  BY <1>1, AtHome
<1>3. r.work \in Nat /\ r.dir \in Nat /\ <<r.work, r.dir>> \in Seq(Nat)
  <2>1. r.work \in Nat /\ r.dir \in Nat
    BY <1>2 DEF Whole
  <2>2. QED
    BY <2>1
<1>4. CASE GoOn(p, PutAll(r, <<r.work, r.dir>>, "done"))
  <2> DEFINE q == PutAll(r, <<r.work, r.dir>>, "done")
  <2>1. Putting(q, r, <<r.work, r.dir>>, "done") /\ at' = [at EXCEPT ![p] = q]
    BY <1>2, <1>3, <1>4, PutForms DEF GoOn
  <2> HIDE DEF q
  <2>2. Good(q) /\ AsMuch(q, r)
    BY <1>1, <2>1, GivesWork
  <2>3. QED
    BY <1>1, <2>1, <2>2, StepStill
<1>5. CASE GoOn(p, [r EXCEPT !.pc = "un_clear", !.ino = r.work])
  <2> DEFINE q == [r EXCEPT !.pc = "un_clear", !.ino = r.work]
  <2>1. q = [r EXCEPT !.pc = "un_clear", !.ino = r.work] /\ at' = [at EXCEPT ![p] = q]
    BY <1>5 DEF GoOn
  <2> HIDE DEF q
  <2>2. TakesIno(q, r, "un_clear")
    <3> HIDE DEF r
    <3>1. QED
      BY <1>2, <1>3, <2>1 DEF TakesIno, Whole
  <2>3. Good(q) /\ AsMuch(q, r)
    BY <1>1, <2>2, TakesBoth
  <2>4. QED
    BY <1>1, <2>1, <2>3, StepStill
<1>6. QED
  BY <1>4, <1>5 DEF UnlinkTaken

(* rmdir: the entry goes, with both links, or the directory has others.    *)
LEMMA RmdirDoneKeeps ==
  ASSUME UsersInv, NEW p \in Proc, RmdirDone(p)
  PROVE  UsersInv'
<1> DEFINE r == at[p]
           e == [r EXCEPT !.ib = 0]
           q1 == PutAll(e, <<e.ino, e.dir>>, "done")
           q2 == NoBlock(PutAll(e, <<e.dir, e.ino>>, "done"))
<1>1. Good(r) /\ r.pc = "rm_empty" /\ r.pc \in Homes /\ r.pc \in JustBoth
  BY DEF UsersInv, RmdirDone, Here, Homes, JustBoth, WithDir, WithIno
<1>2. Whole(r) /\ r.back = <<>>
  BY <1>1, AtHome, SMTT(60)
<1>3. \/ at' = [at EXCEPT ![p] = q1] /\ UNCHANGED table
      \/ /\ at' = [at EXCEPT ![p] = q2]
         /\ table' = [table EXCEPT ![e.ino].links = 0, ![e.ino].dirt = TRUE,
                                   ![e.dir].links = (@ + 255) % 256, ![e.dir].dirt = TRUE]
  BY DEF RmdirDone, GoOn
<1>4. Alike(e, r) /\ e.pc = r.pc /\ e.back = <<>> /\ e.dir = r.dir /\ e.ino = r.ino
  <2>1. Alike(e, r) /\ e.pc = r.pc /\ e.back = r.back
    BY <1>2, DataDoes
  <2>2. QED
    BY <1>2, <2>1 DEF Alike
<1> HIDE DEF e
<1>5. Whole(e) /\ <<e.ino, e.dir>> \in Seq(Nat) /\ <<e.dir, e.ino>> \in Seq(Nat)
  <2>1. Whole(e)
    BY <1>4 DEF Alike
  <2>2. e.ino \in Nat /\ e.dir \in Nat
    BY <2>1 DEF Whole
  <2>3. QED
    BY <2>1, <2>2
<1>6. Putting(q1, e, <<e.ino, e.dir>>, "done") /\ Putting(q2, e, <<e.dir, e.ino>>, "done")
  BY <1>4, <1>5, PutForms
<1> HIDE DEF q1, q2
<1>7. Putting(q1, r, <<r.ino, r.dir>>, "done") /\ Putting(q2, r, <<r.dir, r.ino>>, "done")
  BY <1>4, <1>6 DEF Putting, Alike
<1>8. Good(q1) /\ AsMuch(q1, r) /\ Good(q2) /\ AsMuch(q2, r)
  BY <1>1, <1>7, GivesBoth
<1>9. CASE at' = [at EXCEPT ![p] = q1] /\ UNCHANGED table
  BY <1>8, <1>9, StepStill
<1>10. CASE /\ at' = [at EXCEPT ![p] = q2]
            /\ table' = [table EXCEPT ![e.ino].links = 0, ![e.ino].dirt = TRUE,
                                      ![e.dir].links = (@ + 255) % 256, ![e.dir].dirt = TRUE]
  <2>1. PICK v : table' = [[[[table EXCEPT ![e.ino].links = 0] EXCEPT ![e.ino].dirt = TRUE]
                              EXCEPT ![e.dir].links = v] EXCEPT ![e.dir].dirt = TRUE]
    BY <1>10
  <2> DEFINE t1 == [table EXCEPT ![e.ino].links = 0]
             t2 == [t1 EXCEPT ![e.ino].dirt = TRUE]
             t3 == [t2 EXCEPT ![e.dir].links = v]
  <2>0. table' = [t3 EXCEPT ![e.dir].dirt = TRUE]
    BY <2>1
  <2>2. TableIs(t1) /\ \A s \in Slots : t1[s].count = table[s].count
    <3>1. t1 \in ChangedAt(table, e.ino, 0)
      BY DEF ChangedAt
    <3> HIDE DEF t1
    <3>2. QED
      BY <3>1, SameTable, WriteField
  <2> HIDE DEF t1
  <2>3. TableIs(t2) /\ \A s \in Slots : t2[s].count = t1[s].count
    <3>1. PICK w : t2 \in ChangedAt(t1, e.ino, w)
      BY DEF ChangedAt
    <3> HIDE DEF t2
    <3>2. QED
      BY <2>2, <3>1, WriteField
  <2> HIDE DEF t2
  <2>4. TableIs(t3) /\ \A s \in Slots : t3[s].count = t2[s].count
    <3>1. t3 \in ChangedAt(t2, e.dir, v)
      BY DEF ChangedAt
    <3> HIDE DEF t3
    <3>2. QED
      BY <2>3, <3>1, WriteField
  <2> HIDE DEF t3
  <2>5. TableIs(table') /\ \A s \in Slots : table'[s].count = t3[s].count
    <3>1. PICK w : table' \in ChangedAt(t3, e.dir, w)
      BY <2>0 DEF ChangedAt
    <3>2. QED
      BY <2>4, <3>1, WriteField
  <2>6. TableIs(table') /\ \A s \in Slots : table'[s].count = table[s].count
    BY <2>2, <2>3, <2>4, <2>5
  <2>7. QED
    BY <1>8, <1>10, <2>6, StepsOn
<1>11. QED
  BY <1>3, <1>9, <1>10

(* unlink: the entry goes, with a link.                                    *)
LEMMA UnlinkDoneKeeps ==
  ASSUME UsersInv, NEW p \in Proc, UnlinkDone(p)
  PROVE  UsersInv'
<1> DEFINE r == at[p]
           q == NoBlock(PutAll(r, <<r.ino, r.dir>>, "done"))
<1>1. Good(r) /\ r.pc = "un_clear" /\ r.pc \in Homes /\ r.pc \in JustBoth
  BY DEF UsersInv, UnlinkDone, Here, Homes, JustBoth, WithDir, WithIno
<1>2. Whole(r) /\ r.back = <<>>
  BY <1>1, AtHome
<1>3. <<r.ino, r.dir>> \in Seq(Nat)
  <2>1. r.ino \in Nat /\ r.dir \in Nat
    BY <1>2 DEF Whole
  <2>2. QED
    BY <2>1
<1>4. Putting(q, r, <<r.ino, r.dir>>, "done") /\ at' = [at EXCEPT ![p] = q]
  BY <1>2, <1>3, PutForms DEF UnlinkDone, GoOn
<1> HIDE DEF q
<1>5. Good(q) /\ AsMuch(q, r)
  BY <1>1, <1>4, GivesBoth
<1>6. TableIs(table') /\ \A s \in Slots : table'[s].count = table[s].count
  <2> DEFINE v == LessOne(table[r.ino].links)
             t == [table EXCEPT ![r.ino].links = v]
  <2>1. t \in ChangedAt(table, r.ino, v)
    BY DEF ChangedAt
  <2>2. table' = [t EXCEPT ![r.ino].dirt = TRUE]
    BY DEF UnlinkDone
  <2> HIDE DEF t, v
  <2>3. PICK w : table' \in ChangedAt(t, r.ino, w)
    BY <2>2 DEF ChangedAt
  <2>4. QED
    BY <2>1, <2>3, WriteTwo
<1>7. QED
  BY <1>4, <1>5, <1>6, StepsOn

(* A step of p that changes the counts as it changes what p holds.         *)
LEMMA CountsOn ==
  ASSUME UsersInv, NEW p \in Proc, NEW q, at' = [at EXCEPT ![p] = q], Good(q), TableIs(table'),
         \A s \in Slots : table'[s].count + Refs(Holding(at[p]), s)
                            = table[s].count + Refs(Holding(q), s)
  PROVE  UsersInv'
<1>1. IsFiniteSet(Proc)
  BY DirectoriesAssumption
<1>2. TableOK'
  BY DEF TableIs, TableOK
<1>3. Steps(p, q)
  BY <1>2 DEF Steps
<1>4. QED
  BY <1>1, <1>3, CountStep

\* Slot x is held once more in q than in r, the others as often.
OneMore(q, r, x) ==
  \A s \in Slots : Refs(Holding(q), s) = Refs(Holding(r), s) + IF s = x THEN 1 ELSE 0

\* The tables count the same users.
SameCounts(t, u) == \A s \in Slots : t[s].count = u[s].count

(* The root is counted once more, for the walk that starts there.          *)
LEMMA RootOn ==
  ASSUME UsersInv, NEW p \in Proc, NEW q, at' = [at EXCEPT ![p] = q], Good(q), NEW t, TableIs(t),
         SameCounts(t, table), table' = Counted(t, Root, 1), OneMore(q, at[p], Root)
  PROVE  UsersInv'
<1>1. /\ TableIs(table')
      /\ \A s \in Slots : table'[s].count = t[s].count + IF s = Root THEN 1 ELSE 0
  BY WriteCount
<1>2. ASSUME NEW s \in Slots
      PROVE  table'[s].count + Refs(Holding(at[p]), s) = table[s].count + Refs(Holding(q), s)
  <2>1. Refs(Holding(at[p]), s) \in Nat
    BY OwnIsRefs
  <2>2. table[s].count \in Int
    BY SameTable DEF TableIs, WholeInode
  <2>3. QED
    BY <1>1, <2>1, <2>2 DEF OneMore, SameCounts
<1>3. QED
  BY <1>1, <1>2, CountsOn

\* The call starts its walk to a directory.
Walks(q, r) ==
  /\ Whole(q) /\ q.pc = "walk" /\ q.back = <<>> /\ q.puts = r.puts /\ q.empty = r.empty
  /\ q.dir = Root /\ q.file = r.file

(* What it holds then.                                                     *)
LEMMA WalksDoes ==
  ASSUME NEW r, NEW q, Walks(q, r), r.puts = <<>>, r.empty = NoSlot, q.kind \in Lookups,
         q.kind \in Opens => r.file = NoSlot, q.kind # "linkto" => q.ino = NoSlot
  PROVE  /\ Good(q)
         /\ Holding(q) = Places(r.file, Root, q.ino, NoSlot, NoSlot, NoSlot)
<1>1. "walk" \in Homes \cap WithDir /\ "walk" \notin WithIno \cup Gots \cup Mades \cup {"user", "done"}
  BY DEF Homes, WithDir, WithIno, Walking, Gots, Mades, Adding
<1>2. KindsAt("walk") = Lookups
  BY KindsAre DEF Walking
<1>3. Fits(q, "walk") /\ q.puts = <<>> /\ Len(q.puts) = 0
  BY <1>1, <1>2 DEF Fits, Walks
<1>4. Good(q) /\ Holding(q) = HeldFor(q, "walk", NoSlot)
  BY <1>1, <1>3, ComesHome DEF Walks
<1>5. QED
  BY <1>1, <1>3, <1>4 DEF HeldFor, Walks

(* A call of a process.                                                    *)
LEMMA CallKeeps ==
  ASSUME UsersInv, NEW p \in Proc, Call(p)
  PROVE  UsersInv'
<1> DEFINE r == at[p]
<1>1. Good(r) /\ r.pc = "user" /\ r.pc \in Homes /\ "user" \notin WithIno \cup WithDir \cup Gots \cup Mades
  BY HomesHold DEF UsersInv, Call, Here, WithIno, WithDir, Adding, Walking, Lookups, Opens, Gots, Mades
<1>2. /\ Whole(r) /\ r.back = <<>> /\ r.puts = <<>> /\ r.empty = NoSlot /\ r.ino = NoSlot
      /\ Holding(r) = Places(r.file, NoSlot, NoSlot, NoSlot, NoSlot, NoSlot)
  <2>1. KindsAt("user") = {""}
    BY KindsAre
  <2>2. r.ino = NoSlot
    <3>1. r.kind \in KindsAt(r.pc) /\ r.pc \notin WithIno \cup {"done"}
      BY <1>1, AtHome
    <3>2. r.kind # "linkto"
      BY <1>1, <2>1, <3>1
    <3> HIDE DEF r
    <3>3. QED
      BY <1>1, <3>1, <3>2, AtHome
  <2>3. QED
    BY <1>1, <2>2, AtHome
<1>3. PICK c \in Calls :
        /\ c.kind \in Opens => r.file = NoSlot
        /\ table' = Counted(table, Root, 1)
        /\ at' = [at EXCEPT ![p] = [r EXCEPT !.pc = "walk", !.kind = c.kind, !.rest = c.path,
                                             !.to = c.to, !.dir = Root]]
  BY DEF Call, GoOn, Counted
<1> DEFINE q == [r EXCEPT !.pc = "walk", !.kind = c.kind, !.rest = c.path, !.to = c.to, !.dir = Root]
<1>4. q = [r EXCEPT !.pc = "walk", !.kind = c.kind, !.rest = c.path, !.to = c.to, !.dir = Root]
      /\ at' = [at EXCEPT ![p] = q]
  BY <1>3
<1> HIDE DEF q
<1>5. Walks(q, r) /\ q.kind = c.kind /\ q.ino = NoSlot
  <2> HIDE DEF r
  <2>1. QED
    BY <1>2, <1>4, NoSlotIs, ZenonT(60) DEF Walks, Whole
<1>6. q.kind \in Lookups
  BY <1>5, DirectoriesAssumption DEF Lookups
<1>7. Good(q) /\ Holding(q) = Places(r.file, Root, NoSlot, NoSlot, NoSlot, NoSlot)
  BY <1>2, <1>3, <1>5, <1>6, WalksDoes
<1>8. OneMore(q, r, Root)
  BY <1>2, <1>7, RefsAre, NoSlotIs DEF One, OneMore
<1>9. TableIs(table) /\ SameCounts(table, table)
  BY SameTable DEF SameCounts
<1>10. QED
  BY <1>3, <1>4, <1>7, <1>8, <1>9, RootOn

(* link: the old name is there, or not.                                    *)
LEMMA NameiKeeps ==
  ASSUME UsersInv, NEW p \in Proc, namei(p)
  PROVE  UsersInv'
<1> DEFINE r == at[p]
<1>0. Good(r) /\ UNCHANGED table
  BY DEF UsersInv, namei, Still
<1>1. CASE Here(p, "link")
  <2>1. r.pc = "link" /\ r.pc \in Lookups
    BY <1>1 DEF Here, Lookups
  <2>2. /\ Whole(r) /\ r.back = <<>> /\ r.kind = "link" /\ <<r.dir>> \in Seq(Nat)
        /\ r.pc \in WithDir \ (Gots \cup Mades) /\ r.ino = NoSlot
    BY <1>0, <2>1, LookedUp
  <2>3. CASE Fail(p)
    BY <1>0, <2>2, <2>3, FailKeeps
  <2>4. CASE GoOn(p, NoBlock([PutAll(r, <<r.dir>>, "ln_take") EXCEPT !.num = Named(p)]))
    <3> DEFINE q == NoBlock([PutAll(r, <<r.dir>>, "ln_take") EXCEPT !.num = Named(p)])
    <3>1. Putting(q, r, <<r.dir>>, "ln_take")
      BY <2>2, PutForms
    <3>2. "ln_take" \in Putters /\ "ln_take" # "done" /\ KindsAt("ln_take") = {"link"}
      BY KindsAre DEF Putters
    <3>3. at' = [at EXCEPT ![p] = q]
      BY <2>4 DEF GoOn
    <3> HIDE DEF q
    <3>4. Good(q) /\ AsMuch(q, r)
      BY <1>0, <2>2, <3>1, <3>2, GivesDir
    <3>5. QED
      BY <1>0, <3>3, <3>4, StepStill
  <2>5. QED
    BY <1>1, <2>1, <2>3, <2>4 DEF namei, Here
<1>2. CASE Here(p, "ln_take")
  <2> DEFINE q == Enter(r, "iget", "ln_old")
  <2>1. r.pc = "ln_take" /\ "ln_take" \in Homes /\ "ln_take" \notin WithIno \cup WithDir
    BY <1>2 DEF Here, Homes, Putters, WithIno, WithDir, Walking, Lookups, Opens, Mades, Adding
  <2>2. /\ Whole(r) /\ r.back = <<>> /\ r.kind = "link" /\ KindsAt("ln_old") = {"link"}
        /\ r.ino = NoSlot
    <3>1. KindsAt("ln_take") = {"link"} /\ KindsAt("ln_old") = {"link"}
      BY KindsAre
    <3>2. r.kind = "link"
      BY <1>0, <2>1, <3>1, AtHome
    <3>3. QED
      BY <1>0, <2>1, <3>1, <3>2, AtHome
  <2>3. Alike(q, r) /\ q.pc = "iget" /\ q.back = <<"ln_old">>
    BY <2>2, EnterHome
  <2>4. /\ SameHold("ln_take", "ln_old") /\ "iget" \in Callees /\ "ln_old" \in Gots
    BY DEF SameHold, WithDir, Walking, Gots, Mades, Adding, Callees, Lookups, Opens
  <2>5. <<"ln_old">> \in Backs("iget") /\ "ln_old" # "done"
    BY <2>4, BacksAre
  <2>6. at' = [at EXCEPT ![p] = q]
    BY <1>2, <2>1 DEF namei, Here, GoOn
  <2> HIDE DEF q
  <2>7. Good(q) /\ AsMuch(q, r)
    BY <1>0, <2>1, <2>2, <2>3, <2>4, <2>5, EntersOne
  <2>8. QED
    BY <1>0, <2>6, <2>7, StepStill
<1>3. QED
  BY <1>1, <1>2 DEF namei

(* link: the old inode, and the walk to the new name.                      *)
LEMMA LinkOldKeeps ==
  ASSUME UsersInv, NEW p \in Proc, LinkOld(p)
  PROVE  UsersInv'
<1> DEFINE r == at[p]
<1>1. /\ Good(r) /\ r.pc = "ln_old" /\ r.pc \in Homes \cap Gots
      /\ "ln_old" \notin WithIno \cup WithDir \cup {"user", "done"}
  BY DEF UsersInv, LinkOld, Here, Homes, Gots, WithIno, WithDir, Adding, Walking, Lookups, Opens, Mades
<1>2. /\ Whole(r) /\ r.back = <<>> /\ r.puts = <<>> /\ r.empty = NoSlot
      /\ Holding(r) = Places(r.file, NoSlot, NoSlot, r.work, NoSlot, NoSlot)
  <2>1. KindsAt("ln_old") = {"link"}
    BY KindsAre
  <2>2. r.ino = NoSlot
    BY <1>1, <2>1, AtHome
  <2>3. QED
    BY <1>1, <2>2, AtHome
<1>3. r.work \in Nat /\ <<r.work>> \in Seq(Nat)
  BY <1>2 DEF Whole
<1> DEFINE t == [table EXCEPT ![r.work].dirt = TRUE]
<1>4. TableIs(t) /\ \A s \in Slots : t[s].count = table[s].count
  <2>1. PICK v : t \in ChangedAt(table, r.work, v)
    BY DEF ChangedAt
  <2> HIDE DEF t
  <2>2. QED
    BY <2>1, SameTable, WriteField
<1>5. CASE Slot(p).mode # "reg"
  <2> DEFINE q == PutAll(r, <<r.work>>, "done")
  <2>1. Putting(q, r, <<r.work>>, "done") /\ at' = [at EXCEPT ![p] = q]
    BY <1>2, <1>3, <1>5, PutForms DEF LinkOld, GoOn
  <2> HIDE DEF q
  <2>2. Good(q) /\ AsMuch(q, r)
    BY <1>1, <2>1, GivesWork
  <2>3. table' = t
    BY <1>5 DEF LinkOld, Update, Slot
  <2> HIDE DEF t
  <2>4. QED
    BY <1>4, <2>1, <2>2, <2>3, StepsOn
<1>6. CASE Slot(p).mode = "reg"
  <2> DEFINE q == [r EXCEPT !.pc = "walk", !.kind = "linkto", !.rest = r.to, !.ino = r.work, !.dir = Root]
  <2>1. q = [r EXCEPT !.pc = "walk", !.kind = "linkto", !.rest = r.to, !.ino = r.work, !.dir = Root]
        /\ at' = [at EXCEPT ![p] = q]
    BY <1>6 DEF LinkOld, GoOn
  <2>2. table' = [t EXCEPT ![Root].count = table[Root].count + 1]
    BY <1>6 DEF LinkOld
  <2> HIDE DEF q, t
  <2>3. Root \in Slots
    BY DirectoriesAssumption DEF Root, Slots
  <2>4. table' = Counted(t, Root, 1)
    BY <1>4, <2>2, <2>3 DEF Counted
  <2>5. Walks(q, r) /\ q.kind = "linkto" /\ q.ino = r.work
    <3> HIDE DEF r
    <3>1. QED
      BY <1>2, <1>3, <2>1, NoSlotIs, ZenonT(60) DEF Walks, Whole
  <2>6. q.kind \in Lookups /\ q.kind \notin Opens
    BY <2>5 DEF Lookups, Opens
  <2>7. Good(q) /\ Holding(q) = Places(r.file, Root, r.work, NoSlot, NoSlot, NoSlot)
    BY <1>2, <2>5, <2>6, WalksDoes
  <2>8. OneMore(q, r, Root)
    BY <1>2, <2>7, RefsAre, NoSlotIs DEF One, OneMore
  <2>9. SameCounts(t, table)
    BY <1>4 DEF SameCounts
  <2>10. QED
    BY <1>4, <2>1, <2>4, <2>7, <2>8, <2>9, RootOn
<1>7. QED
  BY <1>5, <1>6

(* link: the new name must not be there.                                   *)
LEMMA LinkLookedKeeps ==
  ASSUME UsersInv, NEW p \in Proc, LinkLooked(p)
  PROVE  UsersInv'
<1> DEFINE r == at[p]
<1>1. Good(r) /\ UNCHANGED table /\ r.pc = "linkto" /\ r.pc \in Lookups
  BY DEF UsersInv, LinkLooked, Still, Here, Lookups
<1>2. /\ Whole(r) /\ r.back = <<>> /\ r.kind = "linkto" /\ r.pc \in Homes
      /\ r.pc \in WithDir \ (Gots \cup Mades)
  BY <1>1, LookedUp
<1>3. CASE Fail(p)
  BY <1>1, <1>2, <1>3, FailKeeps
<1>4. CASE GoOn(p, To(r, "add"))
  <2> DEFINE q == To(r, "add")
  <2>1. Alike(q, r) /\ q.pc = "add" /\ q.back = <<>>
    BY <1>2, ToDoes
  <2>2. /\ "add" \in Homes \ (Gots \cup Mades) /\ "add" \in Adding /\ "add" \in WithDir
    BY DEF Homes, Gots, Mades, WithDir, Adding
  <2>3. KindsAt("add") = Opens \cup {"mkdir", "linkto"}
    BY <2>2, KindsAre
  <2>4. at' = [at EXCEPT ![p] = q]
    BY <1>4 DEF GoOn
  <2> HIDE DEF q
  <2>5. SameHold(r.pc, q.pc)
    BY <1>1, <1>2, <2>1, <2>2 DEF SameHold
  <2>6. Good(q) /\ AsMuch(q, r)
    BY <1>1, <1>2, <2>1, <2>2, <2>3, <2>5, HomeDoes
  <2>7. QED
    BY <1>1, <2>4, <2>6, StepStill
<1>5. QED
  BY <1>3, <1>4 DEF LinkLooked

(* link: the entry.                                                        *)
LEMMA LinkEntryKeeps ==
  ASSUME UsersInv, NEW p \in Proc, LinkEntry(p)
  PROVE  UsersInv'
<1> DEFINE r == at[p]
           q == NoBlock(PutAll(r, <<r.dir>>, "ln_count"))
<1>1. Good(r) /\ r.pc \in Adding /\ r.kind = "linkto"
  BY DEF UsersInv, LinkEntry, Room, Here, Adding
<1>2. /\ Whole(r) /\ r.back = <<>> /\ <<r.dir>> \in Seq(Nat) /\ r.pc \in WithDir \ (Gots \cup Mades)
  BY <1>1, InAdding
<1>3. Putting(q, r, <<r.dir>>, "ln_count") /\ at' = [at EXCEPT ![p] = q]
  BY <1>2, PutForms DEF LinkEntry, GoOn
<1> HIDE DEF q
<1>4. /\ "ln_count" \in Putters /\ "ln_count" \in WithIno /\ "ln_count" # "done"
      /\ KindsAt("ln_count") = {"linkto"}
  BY KindsAre DEF Putters, WithIno
<1>5. Good(q) /\ AsMuch(q, r)
  BY <1>1, <1>2, <1>3, <1>4, GivesDir
<1>6. TableIs(table') /\ \A s \in Slots : table'[s].count = table[s].count
  <2>1. table' \in ChangedAt(table, r.dir, table[r.dir].dirt \/ Free(p) = {})
    BY DEF LinkEntry, ChangedAt
  <2>2. QED
    BY <2>1, SameTable, WriteField
<1>7. QED
  BY <1>3, <1>5, <1>6, StepsOn

(* link: no room for the entry.                                            *)
LEMMA LinkNoRoomKeeps ==
  ASSUME UsersInv, NEW p \in Proc, LinkNoRoom(p)
  PROVE  UsersInv'
<1>1. Good(at[p]) /\ at[p].pc \in Adding /\ Fail(p) /\ UNCHANGED table
  BY DEF UsersInv, LinkNoRoom, Still, Here, Adding
<1>2. at[p].pc \in WithDir \ (Gots \cup Mades)
  BY <1>1, InAdding
<1>3. QED
  BY <1>1, <1>2, FailKeeps

(* link: one link more.                                                    *)
LEMMA LinkCountKeeps ==
  ASSUME UsersInv, NEW p \in Proc, LinkCount(p)
  PROVE  UsersInv'
<1> DEFINE r == at[p]
           q == PutAll(r, <<r.ino>>, "done")
<1>1. Good(r) /\ r.pc \in JustIno /\ r.pc \in Homes
  BY HomesHold DEF UsersInv, LinkCount, Here, JustIno
<1>2. Whole(r) /\ r.back = <<>>
  BY <1>1, AtHome
<1>3. <<r.ino>> \in Seq(Nat)
  BY <1>2 DEF Whole
<1>4. Putting(q, r, <<r.ino>>, "done") /\ at' = [at EXCEPT ![p] = q]
  BY <1>2, <1>3, PutForms DEF LinkCount, GoOn
<1> HIDE DEF q
<1>5. Good(q) /\ AsMuch(q, r)
  BY <1>1, <1>4, GivesIno
<1>6. TableIs(table') /\ \A s \in Slots : table'[s].count = table[s].count
  <2> DEFINE v == table[r.ino].links + 1
             t == [table EXCEPT ![r.ino].links = v]
  <2>1. t \in ChangedAt(table, r.ino, v)
    BY DEF ChangedAt
  <2>2. table' = [t EXCEPT ![r.ino].dirt = TRUE]
    BY DEF LinkCount
  <2> HIDE DEF t, v
  <2>3. PICK w : table' \in ChangedAt(t, r.ino, w)
    BY <2>2 DEF ChangedAt
  <2>4. QED
    BY <2>1, <2>3, WriteTwo
<1>7. QED
  BY <1>4, <1>5, <1>6, StepsOn

(* A process that adds an entry goes on with it.                           *)
LEMMA AddsOn ==
  ASSUME NEW r, Good(r), r.pc \in Adding, NEW q, Alike(q, r), q.pc \in Adding, q.back = <<>>
  PROVE  Good(q) /\ AsMuch(q, r)
<1>1. /\ Adding \subseteq Homes \cap WithDir \cap WithIno /\ Adding \cap (Gots \cup Mades) = {}
      /\ "done" \notin Adding /\ "user" \notin Adding
  BY DEF Adding, Homes, WithDir, WithIno, Gots, Mades
<1>2. SameHold(r.pc, q.pc) /\ q.pc \in Homes \ (Gots \cup Mades)
  BY <1>1 DEF SameHold
<1>3. r.kind \in KindsAt(q.pc)
  <2>1. KindsAt(q.pc) = Opens \cup {"mkdir", "linkto"}
    BY KindsAre
  <2>2. QED
    BY <2>1, InAdding
<1>4. r.pc \in Homes /\ q.pc # "done" /\ q.pc \in WithIno
  BY <1>1
<1>5. QED
  BY <1>2, <1>3, <1>4, HomeDoes

(* It has no block to look in, or reads it.                                *)
LEMMA AddsAway ==
  ASSUME NEW r, Good(r), r.pc \in Adding, NEW b
  PROVE  /\ Good(To(r, "no_room")) /\ AsMuch(To(r, "no_room"), r)
         /\ Good([r EXCEPT !.pc = "entry", !.bh = b]) /\ AsMuch([r EXCEPT !.pc = "entry", !.bh = b], r)
<1> DEFINE q1 == To(r, "no_room")
           q2 == [r EXCEPT !.pc = "entry", !.bh = b]
<1>1. Whole(r) /\ r.back = <<>>
  BY InAdding
<1>2. Alike(q1, r) /\ q1.pc = "no_room" /\ q1.back = <<>>
  BY <1>1, ToDoes
<1>3. Alike(q2, r) /\ q2.pc = "entry" /\ q2.back = <<>>
  <2>1. q2 = [r EXCEPT !.pc = "entry", !.bh = b]
    OBVIOUS
  <2> HIDE DEF q2
  <2>2. QED
    BY <1>1, <2>1 DEF Alike, Whole
<1> HIDE DEF q1, q2
<1>4. "no_room" \in Adding /\ "entry" \in Adding
  BY DEF Adding
<1>5. Good(q1) /\ AsMuch(q1, r) /\ Good(q2) /\ AsMuch(q2, r)
  BY <1>2, <1>3, <1>4, AddsOn
<1>6. QED
  BY <1>5 DEF q1, q2

(* The directory is read.                                                  *)
LEMMA ReadToAddKeeps ==
  ASSUME UsersInv, NEW p \in Proc, ReadToAdd(p)
  PROVE  UsersInv'
<1> DEFINE r == at[p]
           b == Dir(p).zone
           q1 == To(r, "no_room")
           q2 == [r EXCEPT !.pc = "entry", !.bh = b]
<1>1. Good(r) /\ r.pc \in Adding /\ UNCHANGED table
  BY DEF UsersInv, ReadToAdd, Still, Here, Adding
<1>2. at' = [at EXCEPT ![p] = q1] \/ at' = [at EXCEPT ![p] = q2]
  BY DEF ReadToAdd, GoOn, MaySleep
<1> HIDE DEF b
<1>3. Good(q1) /\ AsMuch(q1, r) /\ Good(q2) /\ AsMuch(q2, r)
  BY <1>1, AddsAway
<1> HIDE DEF q1, q2
<1>4. QED
  BY <1>1, <1>2, <1>3, StepStill

(* The directory gets a second block.                                      *)
LEMMA GrowKeeps ==
  ASSUME UsersInv, NEW p \in Proc, Grow(p)
  PROVE  UsersInv'
<1> DEFINE r == at[p]
<1>1. Good(r) /\ r.pc \in Adding
  BY DEF UsersInv, Grow, Here, Adding
<1>2. /\ Whole(r) /\ r.back = <<>> /\ r.kind \in Opens \cup {"mkdir", "linkto"} /\ r.dir \in Nat
      /\ r.pc \in Homes /\ r.pc \in WithDir \ (Gots \cup Mades)
  BY <1>1, InAdding
<1>3. CASE GoOn(p, [NoBlock(Enter(r, "newblk", "grown")) EXCEPT !.work = r.dir]) /\ UNCHANGED table
  <2> DEFINE q == EnterNext(r, "newblk", "grown", r.dir)
  <2>1. at' = [at EXCEPT ![p] = q]
    BY <1>3 DEF GoOn, EnterNext
  <2>2. Alike(q, r) /\ q.pc = "newblk" /\ q.back = <<"grown">>
    BY <1>2, EnterNextDoes
  <2> HIDE DEF q
  <2>3. /\ "newblk" \in Callees /\ "grown" \in Adding /\ "grown" # "done" /\ "grown" \in WithDir \cap WithIno
        /\ r.pc \notin {"done", "user"}
    BY <1>1 DEF Callees, Adding, WithDir, WithIno
  <2>4. <<"grown">> \in Backs("newblk")
    BY BacksAre
  <2>5. KindsAt("grown") = Opens \cup {"mkdir", "linkto"}
    BY <2>3, KindsAre
  <2>6. SameHold(r.pc, "grown")
    BY <1>2, <2>3 DEF SameHold
  <2>7. Good(q) /\ AsMuch(q, r)
    BY <1>1, <1>2, <2>2, <2>3, <2>4, <2>5, <2>6, EntersOne
  <2>8. QED
    BY <1>3, <2>1, <2>7, StepStill
<1>4. CASE Here(p, "grown")
  <2> DEFINE b == Dir(p).zone
             q1 == To(r, "no_room")
             q2 == [r EXCEPT !.pc = "entry", !.bh = b]
  <2>0. r.pc = "grown"
    BY <1>4 DEF Here
  <2>1. at' = [at EXCEPT ![p] = q1] \/ at' = [at EXCEPT ![p] = q2]
    BY <2>0 DEF Grow, GoOn, MaySleep, Here
  <2> HIDE DEF b
  <2>2. Good(q1) /\ AsMuch(q1, r) /\ Good(q2) /\ AsMuch(q2, r)
    BY <1>1, AddsAway
  <2> HIDE DEF q1, q2
  <2>3. TableIs(table') /\ \A s \in Slots : table'[s].count = table[s].count
    <3> DEFINE t == [table EXCEPT ![r.dir].ind = r.blk]
    <3>1. t \in ChangedAt(table, r.dir, r.blk)
      BY DEF ChangedAt
    <3>2. PICK v : table' = [t EXCEPT ![r.dir].dirt = v]
      BY <2>0 DEF Grow, Here
    <3> HIDE DEF t
    <3>3. PICK w : table' \in ChangedAt(t, r.dir, w)
      BY <3>2 DEF ChangedAt
    <3>4. QED
      BY <3>1, <3>3, WriteTwo
  <2>4. QED
    BY <2>1, <2>2, <2>3, StepsOn
<1>5. QED
  BY <1>3, <1>4 DEF Grow

(* What a process holds outside of the calls.                              *)
LEMMA AsUser ==
  ASSUME NEW r, Good(r), r.pc = "user"
  PROVE  /\ r.pc \in Homes /\ Whole(r) /\ r.back = <<>> /\ r.puts = <<>>
         /\ r.empty = NoSlot /\ r.ino = NoSlot /\ r.kind = "" /\ r.file \in Nat
         /\ Holding(r) = Places(r.file, NoSlot, NoSlot, NoSlot, NoSlot, NoSlot)
<1>1. r.pc \in Homes /\ "user" \notin WithIno \cup WithDir \cup Gots \cup Mades
  BY HomesHold DEF WithIno, WithDir, Adding, Walking, Lookups, Opens, Gots, Mades
<1>2. KindsAt("user") = {""}
  BY KindsAre
<1>3. r.ino = NoSlot /\ r.kind = ""
  <2>1. r.kind \in KindsAt(r.pc)
    BY <1>1, AtHome
  <2>2. r.kind = ""
    BY <1>2, <2>1
  <2>3. r.ino = NoSlot
    BY <1>1, <2>2, AtHome
  <2>4. QED
    BY <2>2, <2>3
<1>4. Whole(r) /\ r.back = <<>> /\ r.puts = <<>> /\ r.empty = NoSlot
  BY <1>1, AtHome
<1>5. Holding(r) = Places(r.file, NoSlot, NoSlot, NoSlot, NoSlot, NoSlot)
  BY <1>1, <1>3, AtHome
<1>6. r.file \in Nat
  BY <1>4 DEF Whole
<1>7. QED
  BY <1>1, <1>3, <1>4, <1>5, <1>6

(* A call into the inode functions for a slot.                             *)
LEMMA UserEnters ==
  ASSUME NEW r, Good(r), r.pc = "user", NEW q, Alike(q, r), q.pc \in {"bmap", "bmap7", "sync"},
         q.back = <<"done">>
  PROVE  Good(q) /\ AsMuch(q, r)
<1>1. r.pc \in Homes /\ r.ino = NoSlot /\ r.kind = ""
  BY AsUser
<1>2. /\ q.pc \in Callees /\ q.pc \in Mapping \cup {"sync", "sync_next"}
      /\ {"user", "done"} \cap WithDir = {} /\ "user" \notin Gots \cup Mades \cup {"done"}
  BY HomesHold DEF Callees, Mapping, Gots, Mades
<1>3. Backs(q.pc) = {<<"done">>}
  BY <1>2, BacksAre
<1>4. KindsAt("done") = Kinds /\ "" \in Kinds
  BY KindsAre DEF Kinds
<1>5. SameHold(r.pc, "done")
  BY <1>2 DEF SameHold
<1>6. <<"done">> \in Backs(q.pc)
  BY <1>3
<1>7. QED
  BY <1>1, <1>2, <1>4, <1>5, <1>6, EntersOne

(* One slot to give back, and the rest.                                    *)
LEMMA OnePut ==
  ASSUME NEW q, NEW l \in Putters, Fits(q, l), q.pc = "puts", q.back = <<l>>, NEW x, q.puts = <<x>>
  PROVE  /\ Good(q)
         /\ Holding(q) = Places(q.file, NoSlot, IF l # "done" THEN q.ino ELSE NoSlot, NoSlot, x, NoSlot)
<1>1. Len(<<x>>) = 1 /\ <<x>>[1] = x
  OBVIOUS
<1>2. Len(q.puts) <= 2
  BY <1>1
<1>3. Good(q) /\ Holding(q) = HeldFor(q, l, NoSlot)
  BY <1>2, GoesToPut
<1>4. l \notin WithDir
  BY HomesHold
<1>5. QED
  BY <1>1, <1>3, <1>4 DEF HeldFor

\* A process closes its file, slot x.
Closes(q, r, x) ==
  /\ Whole(q) /\ q.pc = "puts" /\ q.back = <<"done">> /\ q.puts = <<x>> /\ r.file = x
  /\ q.empty = r.empty /\ q.kind = r.kind /\ q.file = NoSlot

(* The close.                                                              *)
LEMMA UserGives ==
  ASSUME NEW r, Good(r), r.pc = "user", NEW x, NEW q, Closes(q, r, x)
  PROVE  Good(q) /\ AsMuch(q, r)
<1>1. r.empty = NoSlot /\ r.kind = "" /\ Holding(r) = Places(x, NoSlot, NoSlot, NoSlot, NoSlot, NoSlot)
  BY AsUser DEF Closes
<1>2. /\ Whole(q) /\ q.pc = "puts" /\ q.back = <<"done">> /\ q.puts = <<x>>
      /\ q.empty = NoSlot /\ q.kind = "" /\ q.file = NoSlot
  BY <1>1 DEF Closes
<1>3. KindsAt("done") = Kinds /\ "" \in Kinds
  BY KindsAre DEF Kinds
<1>4. Fits(q, "done")
  BY <1>2, <1>3 DEF Fits, Opens
<1>5. "done" \in Putters
  BY HomesHold
<1>6. Good(q) /\ Holding(q) = Places(q.file, NoSlot, NoSlot, NoSlot, x, NoSlot)
  BY <1>2, <1>4, <1>5, OnePut
<1>7. AsMuch(q, r)
  <2>1. Holding(q) = Places(NoSlot, NoSlot, NoSlot, NoSlot, x, NoSlot)
    BY <1>2, <1>6
  <2>2. Holding(r) = Places(x, NoSlot, NoSlot, NoSlot, NoSlot, NoSlot)
    BY <1>1
  <2>3. QED
    BY <2>1, <2>2, RefsAre DEF AsMuch, One
<1>8. QED
  BY <1>6, <1>7

(* A call on an open file, and one of sync.                                *)
LEMMA CallOnFileKeeps ==
  ASSUME UsersInv, NEW p \in Proc, CallOnFile(p) \/ Sync(p)
  PROVE  UsersInv'
<1> DEFINE r == at[p]
           x == r.file
           e == PutAll(r, <<x>>, "done")
           q == [e EXCEPT !.file = NoSlot]
<1>1. Good(r) /\ r.pc = "user" /\ UNCHANGED table
  BY DEF UsersInv, CallOnFile, Sync, Here
<1>2. Whole(r) /\ r.back = <<>> /\ x \in Nat
  BY <1>1, AsUser
<1>3. ASSUME NEW l \in {"bmap", "bmap7", "sync"}, NEW v \in Nat,
             at' = [at EXCEPT ![p] = EnterWork(r, l, "done", v)]
      PROVE  UsersInv'
  <2> DEFINE f == EnterWork(r, l, "done", v)
  <2>1. Alike(f, r) /\ f.pc = l /\ f.back = <<"done">>
    <3> HIDE DEF r
    <3>1. QED
      BY <1>2, EnterWorkDoes
  <2>2. at' = [at EXCEPT ![p] = f]
    BY <1>3
  <2> HIDE DEF f
  <2>3. Good(f) /\ AsMuch(f, r)
    BY <1>1, <2>1, UserEnters
  <2>4. QED
    BY <1>1, <2>2, <2>3, StepStill
<1>4. CASE GoOn(p, q)
  <2>1. at' = [at EXCEPT ![p] = q] /\ q = [e EXCEPT !.file = NoSlot]
    BY <1>4 DEF GoOn
  <2>2. r.file = x
    OBVIOUS
  <2> HIDE DEF x
  <2>3. <<x>> \in Seq(Nat)
    BY <1>2
  <2>4. Putting(e, r, <<x>>, "done")
    BY <1>2, <2>3, PutForms
  <2> HIDE DEF q, e
  <2>5. Closes(q, r, x)
    <3> HIDE DEF r
    <3>1. QED
      BY <2>1, <2>2, <2>4, NoSlotIs DEF Closes, Putting, Whole
  <2>6. Good(q) /\ AsMuch(q, r)
    BY <1>1, <2>5, UserGives
  <2>7. QED
    BY <1>1, <2>1, <2>6, StepStill
<1>5. CASE CallOnFile(p)
  <2>1. CASE \E l \in {"bmap", "bmap7"} : GoOn(p, [Enter(r, l, "done") EXCEPT !.work = x])
    <3>1. PICK l \in {"bmap", "bmap7"} : at' = [at EXCEPT ![p] = EnterWork(r, l, "done", x)]
      BY <2>1 DEF GoOn, EnterWork
    <3>2. QED
      BY <1>2, <1>3, <3>1
  <2>2. QED
    BY <1>4, <1>5, <2>1 DEF CallOnFile
<1>6. CASE Sync(p)
  <2>1. at' = [at EXCEPT ![p] = EnterWork(r, "sync", "done", 0)]
    BY <1>6 DEF Sync, GoOn, EnterWork
  <2>2. QED
    BY <1>3, <2>1
<1>7. QED
  BY <1>5, <1>6

\* What a process does outside of the calls, with file f open.
IdleWith(f) == [Idle EXCEPT !.file = f]

(* What it holds.                                                          *)
LEMMA IdleIs ==
  ASSUME NEW f \in Nat, NEW q, q = IdleWith(f)
  PROVE  Good(q) /\ Holding(q) = Places(f, NoSlot, NoSlot, NoSlot, NoSlot, NoSlot)
<1>1. PICK e, u, z : e = <<>> /\ u = "user" /\ z = ""
  OBVIOUS
<1>2. q = [pc |-> u, back |-> e, puts |-> e, work |-> NoSlot,
           empty |-> NoSlot, num |-> 0, blk |-> 0, ib |-> 0, bh |-> 0,
           kind |-> z, rest |-> e, to |-> e, dir |-> NoSlot,
           ino |-> NoSlot, len |-> 0, pos |-> 0, file |-> f]
  BY <1>1 DEF IdleWith, Idle
<1>3. /\ q.pc = "user" /\ q.back = <<>> /\ q.puts = <<>> /\ q.empty = NoSlot
      /\ q.kind = "" /\ q.ino = NoSlot /\ q.file = f /\ Whole(q)
  <2>1. /\ q = [pc |-> q.pc, back |-> q.back, puts |-> q.puts, work |-> q.work,
                empty |-> q.empty, num |-> q.num, blk |-> q.blk, ib |-> q.ib, bh |-> q.bh,
                kind |-> q.kind, rest |-> q.rest, to |-> q.to, dir |-> q.dir,
                ino |-> q.ino, len |-> q.len, pos |-> q.pos, file |-> q.file]
        /\ q.pc = u /\ q.back = e /\ q.puts = e /\ q.kind = z
        /\ q.empty = NoSlot /\ q.ino = NoSlot /\ q.file = f /\ q.work = NoSlot /\ q.dir = NoSlot
    BY <1>2
  <2>2. e \in Seq(Nat)
    <3>1. e = <<>>
      BY <1>1
    <3>2. QED
      BY <3>1
  <2>3. q.puts \in Seq(Nat)
    BY <2>1, <2>2
  <2>4. {q.work, q.empty, q.dir, q.ino, q.file} \subseteq Nat
    BY <2>1, NoSlotIs
  <2>5. Whole(q)
    BY <2>1, <2>3, <2>4 DEF Whole
  <2>6. QED
    BY <1>1, <2>1, <2>5
<1>4. KindsAt("user") = {""} /\ "user" \in Homes /\ "user" \notin WithDir \cup Gots \cup Mades
  BY KindsAre, HomesHold DEF Gots, Mades
<1>5. Fits(q, q.pc)
  BY <1>3, <1>4 DEF Fits, Opens
<1>6. Good(q) /\ Holding(q) = HeldFor(q, q.pc, NoSlot)
  BY <1>3, <1>4, <1>5, ComesHome
<1>7. Len(<<>>) = 0
  OBVIOUS
<1>8. Len(q.puts) = 0
  BY <1>3, <1>7
<1>9. Holding(q) = Places(f, NoSlot, NoSlot, NoSlot, NoSlot, NoSlot)
  <2>1. q.pc \notin WithDir /\ q.ino = NoSlot /\ q.file = f
    BY <1>3, <1>4
  <2>2. QED
    BY <1>6, <1>8, <2>1 DEF HeldFor
<1>10. QED
  BY <1>6, <1>9

(* A call returns.                                                         *)
LEMMA DoneKeeps ==
  ASSUME UsersInv, NEW p \in Proc, Done(p)
  PROVE  UsersInv'
<1> DEFINE r == at[p]
           f == r.file
           q == IdleWith(f)
<1>1. Good(r) /\ r.pc = "done" /\ r.pc \in Homes /\ UNCHANGED table
  BY HomesHold DEF UsersInv, Done, Here, Still
<1>2. "done" \notin WithDir \cup Gots \cup Mades
  BY HomesHold DEF Gots, Mades
<1>3. Whole(r) /\ Holding(r) = Places(f, NoSlot, NoSlot, NoSlot, NoSlot, NoSlot)
  BY <1>1, <1>2, AtHome
<1>4. f \in Nat
  BY <1>3 DEF Whole
<1>5. at' = [at EXCEPT ![p] = q] /\ q = IdleWith(f)
  BY DEF Done, MaySleep, IdleWith
<1> HIDE DEF q, f
<1>6. Good(q) /\ Holding(q) = Places(f, NoSlot, NoSlot, NoSlot, NoSlot, NoSlot)
  BY <1>4, <1>5, IdleIs
<1>7. QED
  BY <1>1, <1>3, <1>5, <1>6, StepStill DEF AsMuch

-----------------------------------------------------------------------------
(* Calls inside calls, and their returns                                   *)

\* q calls l from r, to return to h; q returns from r.
Enters(q, r, l, h) == Alike(q, r) /\ q.work = r.work /\ q.pc = l /\ q.back = <<h>> \o r.back
Leaves(q, r) == Alike(q, r) /\ q.work = r.work /\ q.pc = Head(r.back) /\ q.back = Tail(r.back)

\* A block number in such a step.
WithBlk(r, b) == [r EXCEPT !.blk = b]
WithIb(r, b) == [r EXCEPT !.ib = b]

(* The forms of a call.                                                    *)
LEMMA EnterForms ==
  ASSUME NEW r, Whole(r), NEW l, NEW h, NEW b, NEW c
  PROVE  /\ Enters(Enter(r, l, h), r, l, h)
         /\ Enters(WithBlk(Enter(r, l, h), b), r, l, h)
         /\ Enters(WithIb(WithBlk(Enter(r, l, h), b), c), r, l, h)
<1> DEFINE e == Enter(r, l, h)
           f == WithBlk(e, b)
           g == WithIb(f, c)
<1>1. Enters(e, r, l, h)
  BY EnterDoes DEF Enters
<1> HIDE DEF e
<1>2. Enters(f, r, l, h)
  <2>1. Whole(e)
    BY <1>1 DEF Enters, Alike
  <2>2. Alike(f, e) /\ f.pc = e.pc /\ f.back = e.back /\ f.work = e.work
    BY <2>1, DataDoes DEF WithBlk
  <2> HIDE DEF f
  <2>3. QED
    BY <1>1, <2>2 DEF Enters, Alike
<1> HIDE DEF f
<1>3. Enters(g, r, l, h)
  <2>1. Whole(f)
    BY <1>2 DEF Enters, Alike
  <2>2. Alike(g, f) /\ g.pc = f.pc /\ g.back = f.back /\ g.work = f.work
    BY <2>1, DataDoes, ZenonT(60) DEF WithIb
  <2> HIDE DEF g
  <2>3. QED
    BY <1>2, <2>2 DEF Enters, Alike
<1>4. QED
  BY <1>1, <1>2, <1>3 DEF f, e

(* The forms of a return.                                                  *)
LEMMA LeaveForms ==
  ASSUME NEW r, Whole(r), NEW b
  PROVE  Leaves(Back(r), r) /\ Leaves(WithBlk(Back(r), b), r) /\ Leaves(WithIb(Back(r), b), r)
<1> DEFINE e == Back(r)
           f == WithBlk(e, b)
           g == WithIb(e, b)
<1>1. Leaves(e, r)
  BY BackDoes DEF Leaves
<1> HIDE DEF e
<1>2. Whole(e)
  BY <1>1 DEF Leaves, Alike
<1>3. Alike(f, e) /\ f.pc = e.pc /\ f.back = e.back /\ f.work = e.work
  BY <1>2, DataDoes DEF WithBlk
<1>4. Alike(g, e) /\ g.pc = e.pc /\ g.back = e.back /\ g.work = e.work
  BY <1>2, DataDoes DEF WithIb
<1> HIDE DEF f, g
<1>5. Leaves(f, r) /\ Leaves(g, r)
  BY <1>1, <1>3, <1>4 DEF Leaves, Alike
<1>6. QED
  BY <1>1, <1>5 DEF e, f, g

\* Inside a call, and not looking the table up.
Inner == Freeing \cup Mapping \cup {"put", "repeat", "free", "freeblk", "write", "empty", "scrub",
                                    "iget", "newblk", "clear", "sync", "sync_next"}

(* From one such place to another.                                         *)
LEMMA InnerMoves ==
  ASSUME NEW r, Good(r), r.pc \in Inner, NEW q, Alike(q, r), q.work = r.work, q.pc \in Inner,
         q.back \in Backs(q.pc), Home(q) = Home(r), InPut(q) <=> InPut(r)
  PROVE  Good(q) /\ Holding(q) = Holding(r)
<1>1. Inner \cap (Gots \cup Mades \cup Searching \cup {"puts"}) = {} /\ "read" \in Searching
  BY DEF Inner, Freeing, Mapping, Gots, Mades, Searching
<1>2. QED
  BY <1>1, Inside

(* The ways back of these places.                                          *)
LEMMA InnerBacks ==
  ASSUME NEW r, Good(r)
  PROVE  /\ Whole(r)
         /\ r.pc \in {"empty", "scrub"} =>
              \/ \E h \in Gots : r.back = <<"search", h>>
              \/ \E h \in Mades : r.back = <<"fresh", h>>
         /\ r.pc \in {"put", "repeat", "free"} => \E h \in Putters : r.back = <<"puts", h>>
         /\ r.pc \in Freeing =>
              r.back = <<"done">> \/ \E h \in Putters : r.back = <<"free", "puts", h>>
         /\ r.pc \in Mapping \cup {"sync", "sync_next"} => r.back = <<"done">>
         /\ r.pc \in {"iget", "search", "join", "read"} => \E h \in Gots : r.back = <<h>>
         /\ r.pc = "fresh" => \E h \in Mades : r.back = <<h>>
         /\ r.pc = "puts" => \E h \in Putters : r.back = <<h>>
<1>1. Whole(r) /\ r.back \in Backs(r.pc)
  BY DEF Good
<1>2. r.pc \in {"empty", "scrub"} =>
        \/ \E h \in Gots : r.back = <<"search", h>>
        \/ \E h \in Mades : r.back = <<"fresh", h>>
  BY <1>1, BacksAre
<1>3. r.pc \in {"put", "repeat", "free"} => \E h \in Putters : r.back = <<"puts", h>>
  BY <1>1, BacksAre
<1>4. r.pc \in Freeing =>
        r.back = <<"done">> \/ \E h \in Putters : r.back = <<"free", "puts", h>>
  BY <1>1, BacksAre
<1>5. r.pc \in Mapping \cup {"sync", "sync_next"} => r.back = <<"done">>
  BY <1>1, BacksAre
<1>6. r.pc \in {"iget", "search", "join", "read"} => \E h \in Gots : r.back = <<h>>
  BY <1>1, BacksAre
<1>7. r.pc = "fresh" => \E h \in Mades : r.back = <<h>>
  BY <1>1, BacksAre
<1>8. r.pc = "puts" => \E h \in Putters : r.back = <<h>>
  BY <1>1, BacksAre
<1>9. QED
  BY <1>1, <1>2, <1>3, <1>4, <1>5, <1>6, <1>7, <1>8

(* A call of write_inode.                                                  *)
LEMMA GoesToWrite ==
  ASSUME NEW r, Good(r), NEW x, NEW q, Enters(q, r, "write", x),
         \/ r.pc = "scrub" /\ x = "scrub"
         \/ r.pc \in {"put", "repeat"} /\ x = "repeat"
         \/ r.pc = "sync" /\ x = "sync_next"
  PROVE  Good(q) /\ Holding(q) = Holding(r)
<1> DEFINE B == {<<"scrub", "search", h>> : h \in Gots} \cup {<<"scrub", "fresh", h>> : h \in Mades}
                  \cup {<<"repeat", "puts", h>> : h \in Putters} \cup {<<"sync_next", "done">>}
<1>1. Backs("write") = B
  BY BacksAre
<1>2. "write" \in Inner /\ {"scrub", "put", "repeat", "sync"} \subseteq Inner
  BY DEF Inner
<1>3. CASE r.pc = "scrub" /\ x = "scrub"
  <2>1. ~InPut(r)
    BY <1>3, InPutIs DEF Freeing
  <2>2. CASE \E h \in Gots : r.back = <<"search", h>>
    <3>1. PICK h \in Gots : r.back = <<"search", h>>
      BY <2>2
    <3>2. q.back = <<"scrub", "search", h>>
      BY <1>3, <3>1, ConsTwo DEF Enters
    <3>3. Home(r) = h /\ Home(q) = h
      BY <3>1, <3>2, HomeIs
    <3>4. q.back \in Backs(q.pc) /\ ~InPut(q)
      BY <1>1, <3>2, InPutIs DEF Enters
    <3>5. QED
      BY <1>2, <1>3, <2>1, <3>3, <3>4, InnerMoves DEF Enters
  <2>3. CASE \E h \in Mades : r.back = <<"fresh", h>>
    <3>1. PICK h \in Mades : r.back = <<"fresh", h>>
      BY <2>3
    <3>2. q.back = <<"scrub", "fresh", h>>
      BY <1>3, <3>1, ConsTwo DEF Enters
    <3>3. Home(r) = h /\ Home(q) = h
      BY <3>1, <3>2, HomeIs
    <3>4. q.back \in Backs(q.pc) /\ ~InPut(q)
      BY <1>1, <3>2, InPutIs DEF Enters
    <3>5. QED
      BY <1>2, <1>3, <2>1, <3>3, <3>4, InnerMoves DEF Enters
  <2>4. QED
    BY <1>3, <2>2, <2>3, InnerBacks
<1>4. CASE r.pc \in {"put", "repeat"} /\ x = "repeat"
  <2>1. InPut(r)
    BY <1>4, InPutIs
  <2>2. PICK h \in Putters : r.back = <<"puts", h>>
    BY <1>4, InnerBacks
  <2>3. q.back = <<"repeat", "puts", h>>
    BY <1>4, <2>2, ConsTwo DEF Enters
  <2>4. Home(r) = h /\ Home(q) = h
    BY <2>2, <2>3, HomeIs
  <2>5. q.back \in Backs(q.pc) /\ InPut(q)
    BY <1>1, <2>3, InPutIs DEF Enters
  <2>6. QED
    BY <1>2, <1>4, <2>1, <2>4, <2>5, InnerMoves DEF Enters
<1>5. CASE r.pc = "sync" /\ x = "sync_next"
  <2>1. ~InPut(r)
    BY <1>5, InPutIs DEF Freeing
  <2>2. r.back = <<"done">>
    BY <1>5, InnerBacks
  <2>3. q.back = <<"sync_next", "done">>
    BY <1>5, <2>2, ConsOne DEF Enters
  <2>4. Home(r) = "done" /\ Home(q) = "done"
    BY <2>2, <2>3, HomeIs
  <2>5. q.back \in Backs(q.pc) /\ ~InPut(q)
    BY <1>1, <2>3, InPutIs DEF Enters
  <2>6. QED
    BY <1>2, <1>5, <2>1, <2>4, <2>5, InnerMoves DEF Enters
<1>6. QED
  BY <1>3, <1>4, <1>5

(* A return from it.                                                       *)
LEMMA LeavesWrite ==
  ASSUME NEW r, Good(r), r.pc = "write", NEW q, Leaves(q, r)
  PROVE  Good(q) /\ Holding(q) = Holding(r)
<1>1. r.back \in Backs(r.pc)
  BY DEF Good
<1>2. Backs("write") = {<<"scrub", "search", h>> : h \in Gots} \cup {<<"scrub", "fresh", h>> : h \in Mades}
                          \cup {<<"repeat", "puts", h>> : h \in Putters} \cup {<<"sync_next", "done">>}
  BY BacksAre
<1>3. {"write", "scrub", "repeat", "sync_next"} \subseteq Inner
  BY DEF Inner
<1>4. CASE \E h \in Gots : r.back = <<"scrub", "search", h>>
  <2>1. PICK h \in Gots : r.back = <<"scrub", "search", h>>
    BY <1>4
  <2>2. q.pc = "scrub" /\ q.back = <<"search", h>>
    BY <2>1 DEF Leaves
  <2>3. Home(r) = h /\ Home(q) = h
    BY <2>1, <2>2, HomeIs
  <2>4. ~InPut(r) /\ ~InPut(q)
    BY <2>1, <2>2, InPutIs DEF Freeing
  <2>5. q.back \in Backs(q.pc)
    BY <2>2, BacksAre
  <2>6. QED
    BY <1>3, <2>2, <2>3, <2>4, <2>5, InnerMoves DEF Leaves
<1>5. CASE \E h \in Mades : r.back = <<"scrub", "fresh", h>>
  <2>1. PICK h \in Mades : r.back = <<"scrub", "fresh", h>>
    BY <1>5
  <2>2. q.pc = "scrub" /\ q.back = <<"fresh", h>>
    BY <2>1 DEF Leaves
  <2>3. Home(r) = h /\ Home(q) = h
    BY <2>1, <2>2, HomeIs
  <2>4. ~InPut(r) /\ ~InPut(q)
    BY <2>1, <2>2, InPutIs DEF Freeing
  <2>5. q.back \in Backs(q.pc)
    BY <2>2, BacksAre
  <2>6. QED
    BY <1>3, <2>2, <2>3, <2>4, <2>5, InnerMoves DEF Leaves
<1>6. CASE \E h \in Putters : r.back = <<"repeat", "puts", h>>
  <2>1. PICK h \in Putters : r.back = <<"repeat", "puts", h>>
    BY <1>6
  <2>2. q.pc = "repeat" /\ q.back = <<"puts", h>>
    BY <2>1 DEF Leaves
  <2>3. Home(r) = h /\ Home(q) = h
    BY <2>1, <2>2, HomeIs
  <2>4. InPut(r) /\ InPut(q)
    BY <2>1, <2>2, InPutIs
  <2>5. q.back \in Backs(q.pc)
    BY <2>2, BacksAre
  <2>6. QED
    BY <1>3, <2>2, <2>3, <2>4, <2>5, InnerMoves DEF Leaves
<1>7. CASE r.back = <<"sync_next", "done">>
  <2>1. q.pc = "sync_next" /\ q.back = <<"done">>
    BY <1>7 DEF Leaves
  <2>2. Home(r) = "done" /\ Home(q) = "done"
    BY <1>7, <2>1, HomeIs
  <2>3. ~InPut(r) /\ ~InPut(q)
    BY <1>7, <2>1, InPutIs DEF Freeing
  <2>4. q.back \in Backs(q.pc)
    BY <2>1, BacksAre
  <2>5. QED
    BY <1>3, <2>1, <2>2, <2>3, <2>4, InnerMoves DEF Leaves
<1>8. QED
  BY <1>1, <1>2, <1>4, <1>5, <1>6, <1>7

-----------------------------------------------------------------------------
(* More calls and returns: truncate, free_block, new_block, iget           *)

\* The counts of the table stay.
CountsKept == TableIs(table') /\ \A s \in Slots : table'[s].count = table[s].count

(* A step that keeps what the process holds, and the counts.               *)
LEMMA HoldsOn ==
  ASSUME UsersInv, NEW p \in Proc, NEW q, at' = [at EXCEPT ![p] = q], Good(q),
         AsMuch(q, at[p]) \/ Holding(q) = Holding(at[p]), UNCHANGED table \/ CountsKept
  PROVE  UsersInv'
<1>1. AsMuch(q, at[p])
  BY DEF AsMuch
<1>2. CountsKept
  BY SameTable DEF CountsKept
<1>3. QED
  BY <1>1, <1>2, StepsOn DEF CountsKept

(* One or two fields of an inode are written.                              *)
LEMMA SlotWritten ==
  ASSUME UsersInv, NEW x, NEW v, NEW w, NEW j \in Changed(table[x], v),
         NEW i \in Changed(j, w) \cup {j}, table' = Written(table, x, i)
  PROVE  CountsKept
<1>1. TableIs(table)
  BY SameTable
<1>2. x \in Slots => WholeInode(j) /\ j.count = table[x].count
  BY <1>1, FieldOnly DEF TableIs
<1>3. x \in Slots => WholeInode(i) /\ i.count = table[x].count
  BY <1>2, FieldOnly
<1>4. TableIs(table') /\ \A s \in Slots : table'[s] = IF s = x THEN i ELSE table[s]
  BY <1>1, <1>3, WriteSlot
<1>5. QED
  BY <1>3, <1>4 DEF CountsKept

(* A return to a home that keeps no slot it works on.                      *)
LEMMA LeavesHome ==
  ASSUME NEW r, Good(r), NEW h \in Homes \ (Gots \cup Mades), r.back = <<h>>, ~InPut(r),
         r.pc \notin Searching \cup Homes \cup {"puts"}, NEW q, Leaves(q, r)
  PROVE  Good(q) /\ AsMuch(q, r)
<1>1. Whole(r) /\ r.puts = <<>>
  BY DEF Good
<1>2. Alike(Back(r), r) /\ Back(r).pc = Head(r.back) /\ Back(r).back = Tail(r.back)
  BY <1>1, BackDoes
<1>3. Alike(q, Back(r)) /\ q.pc = Back(r).pc /\ q.back = Back(r).back
  BY <1>2 DEF Alike, Leaves
<1>4. QED
  BY <1>1, <1>3, ReturnsHome

(* iput and truncate.                                                      *)
LEMMA GoesToTruncate ==
  ASSUME NEW r, Good(r), r.pc \in {"put", "repeat"}, NEW q, Enters(q, r, "truncate", "free")
  PROVE  Good(q) /\ Holding(q) = Holding(r)
<1>1. PICK h \in Putters : r.back = <<"puts", h>>
  BY InnerBacks
<1>2. q.pc = "truncate" /\ q.back = <<"free", "puts", h>>
  BY <1>1, ConsTwo DEF Enters
<1>3. Home(r) = h /\ Home(q) = h
  BY <1>1, <1>2, HomeIs
<1>4. "truncate" \in Freeing /\ {"put", "repeat", "truncate"} \subseteq Inner
  BY DEF Freeing, Inner
<1>5. InPut(r) /\ InPut(q)
  BY <1>2, <1>4, InPutIs
<1>6. q.back \in Backs(q.pc)
  BY <1>2, <1>4, BacksAre
<1>7. QED
  BY <1>2, <1>3, <1>4, <1>5, <1>6, InnerMoves DEF Enters

(* A return from truncate.                                                 *)
LEMMA LeavesFreeing ==
  ASSUME NEW r, Good(r), r.pc \in Freeing, NEW q, Leaves(q, r)
  PROVE  Good(q) /\ AsMuch(q, r)
<1>1. /\ r.pc \in Inner /\ "free" \in Inner
      /\ "done" \in Homes \ (Gots \cup Mades) /\ r.pc \notin Searching \cup Homes \cup {"puts"}
  BY DEF Inner, Freeing, Homes, Lookups, Opens, Gots, Mades, Putters, Adding, Walking, Searching
<1>2. CASE r.back = <<"done">>
  <2>1. ~InPut(r)
    BY <1>2, InPutIs
  <2>2. QED
    BY <1>1, <1>2, <2>1, LeavesHome
<1>3. CASE \E h \in Putters : r.back = <<"free", "puts", h>>
  <2>1. PICK h \in Putters : r.back = <<"free", "puts", h>>
    BY <1>3
  <2>2. q.pc = "free" /\ q.back = <<"puts", h>>
    BY <2>1 DEF Leaves
  <2>3. Home(r) = h /\ Home(q) = h
    BY <2>1, <2>2, HomeIs
  <2>4. InPut(r) /\ InPut(q)
    BY <2>1, <2>2, InPutIs
  <2>5. q.back \in Backs(q.pc)
    BY <2>2, BacksAre
  <2>6. Good(q) /\ Holding(q) = Holding(r)
    BY <1>1, <2>2, <2>3, <2>4, <2>5, InnerMoves DEF Leaves
  <2>7. QED
    BY <2>6 DEF AsMuch
<1>4. QED
  BY <1>2, <1>3, InnerBacks

\* Where truncate goes on after free_block.
Cuts == {"trunc_zone", "trunc_self", "trunc_end"}

(* truncate frees a block.                                                 *)
LEMMA GoesToFreeBlock ==
  ASSUME NEW r, Good(r), r.pc \in Freeing, NEW x \in Cuts, NEW q, Enters(q, r, "freeblk", x)
  PROVE  Good(q) /\ Holding(q) = Holding(r)
<1>1. r.pc \in Inner /\ "freeblk" \in Inner
  BY DEF Inner
<1>2. Backs("freeblk") = {<<t, "free", "puts", h>> : t \in Cuts, h \in Putters}
                           \cup {<<t, "done">> : t \in Cuts} \cup {<<"mk_undo">>}
  BY BacksAre DEF Cuts
<1>3. CASE r.back = <<"done">>
  <2>1. q.pc = "freeblk" /\ q.back = <<x, "done">>
    BY <1>3, ConsOne DEF Enters
  <2>2. Home(r) = "done" /\ Home(q) = "done"
    BY <1>3, <2>1, HomeIs
  <2>3. ~InPut(r) /\ ~InPut(q)
    BY <1>3, <2>1, InPutIs
  <2>4. q.back \in Backs(q.pc)
    BY <1>2, <2>1
  <2>5. QED
    BY <1>1, <2>1, <2>2, <2>3, <2>4, InnerMoves DEF Enters
<1>4. CASE \E h \in Putters : r.back = <<"free", "puts", h>>
  <2>1. PICK h \in Putters : r.back = <<"free", "puts", h>>
    BY <1>4
  <2>2. q.pc = "freeblk" /\ q.back = <<x, "free", "puts", h>>
    BY <2>1, ConsThree DEF Enters
  <2>3. Home(r) = h /\ Home(q) = h
    BY <2>1, <2>2, HomeIs
  <2>4. InPut(r) /\ InPut(q)
    BY <2>1, <2>2, InPutIs
  <2>5. q.back \in Backs(q.pc)
    BY <1>2, <2>2
  <2>6. QED
    BY <1>1, <2>2, <2>3, <2>4, <2>5, InnerMoves DEF Enters
<1>5. QED
  BY <1>3, <1>4, InnerBacks

(* A return from free_block.                                               *)
LEMMA LeavesFreeBlock ==
  ASSUME NEW r, Good(r), r.pc = "freeblk", NEW q, Leaves(q, r)
  PROVE  Good(q) /\ AsMuch(q, r)
<1>1. Cuts \subseteq Freeing /\ Freeing \subseteq Inner /\ "freeblk" \in Inner
  BY DEF Inner, Freeing, Cuts
<1>2. r.back \in {<<t, "free", "puts", h>> : t \in Cuts, h \in Putters}
                   \cup {<<t, "done">> : t \in Cuts} \cup {<<"mk_undo">>}
  BY BacksAre DEF Cuts, Good
<1>3. CASE \E t \in Cuts, h \in Putters : r.back = <<t, "free", "puts", h>>
  <2>1. PICK t \in Cuts, h \in Putters : r.back = <<t, "free", "puts", h>>
    BY <1>3
  <2>2. q.pc = t /\ q.back = <<"free", "puts", h>>
    BY <2>1, Labels DEF Leaves
  <2>3. Home(r) = h /\ Home(q) = h
    BY <2>1, <2>2, HomeIs
  <2>4. InPut(r) /\ InPut(q)
    BY <1>1, <2>1, <2>2, InPutIs
  <2>5. q.back \in Backs(q.pc)
    BY <1>1, <2>2, BacksAre
  <2>6. Good(q) /\ Holding(q) = Holding(r)
    BY <1>1, <2>2, <2>3, <2>4, <2>5, InnerMoves DEF Leaves
  <2>7. QED
    BY <2>6 DEF AsMuch
<1>4. CASE \E t \in Cuts : r.back = <<t, "done">>
  <2>1. PICK t \in Cuts : r.back = <<t, "done">>
    BY <1>4
  <2>2. q.pc = t /\ q.back = <<"done">>
    BY <2>1, Labels DEF Leaves
  <2>3. Home(r) = "done" /\ Home(q) = "done"
    BY <2>1, <2>2, HomeIs
  <2>4. ~InPut(r) /\ ~InPut(q)
    BY <1>1, <2>1, <2>2, InPutIs
  <2>5. q.back \in Backs(q.pc)
    BY <1>1, <2>2, BacksAre
  <2>6. Good(q) /\ Holding(q) = Holding(r)
    BY <1>1, <2>2, <2>3, <2>4, <2>5, InnerMoves DEF Leaves
  <2>7. QED
    BY <2>6 DEF AsMuch
<1>5. CASE r.back = <<"mk_undo">>
  <2>1. /\ "mk_undo" \in Homes \ (Gots \cup Mades)
        /\ "freeblk" \notin Searching \cup Homes \cup {"puts"}
    BY DEF Homes, Lookups, Opens, Gots, Mades, Putters, Adding, Walking, Searching
  <2>2. ~InPut(r)
    BY <1>5, InPutIs
  <2>3. QED
    BY <1>5, <2>1, <2>2, LeavesHome
<1>6. QED
  BY <1>2, <1>3, <1>4, <1>5

\* Where _bmap goes on after new_block.
Sets == {"bmap_set", "bmap7_set", "bmap7_put"}

(* _bmap takes a block.                                                    *)
LEMMA GoesToNewBlock ==
  ASSUME NEW r, Good(r), r.pc \in Mapping, NEW x \in Sets, NEW q, Enters(q, r, "newblk", x)
  PROVE  Good(q) /\ Holding(q) = Holding(r)
<1>1. r.pc \in Inner /\ "newblk" \in Inner
  BY DEF Inner
<1>2. Backs("newblk") = {<<"mk_block">>, <<"grown">>} \cup {<<h, "done">> : h \in Sets}
  BY BacksAre DEF Sets
<1>3. r.back = <<"done">>
  BY InnerBacks
<1>4. q.pc = "newblk" /\ q.back = <<x, "done">>
  BY <1>3, ConsOne DEF Enters
<1>5. Home(r) = "done" /\ Home(q) = "done"
  BY <1>3, <1>4, HomeIs
<1>6. ~InPut(r) /\ ~InPut(q)
  BY <1>4, InPutIs DEF Mapping, Freeing
<1>7. q.back \in Backs(q.pc)
  BY <1>2, <1>4
<1>8. QED
  BY <1>1, <1>4, <1>5, <1>6, <1>7, InnerMoves DEF Enters

(* A return from new_block.                                                *)
LEMMA LeavesNewBlock ==
  ASSUME NEW r, Good(r), r.pc \in {"newblk", "clear"}, NEW q, Leaves(q, r)
  PROVE  Good(q) /\ AsMuch(q, r)
<1>1. Sets \subseteq Mapping /\ Mapping \subseteq Inner /\ r.pc \in Inner
  BY DEF Inner, Mapping, Sets
<1>2. r.back \in {<<"mk_block">>, <<"grown">>} \cup {<<h, "done">> : h \in Sets}
  BY BacksAre DEF Sets, Good
<1>3. ~InPut(r) /\ \A l \in Mapping : l \notin {"put", "repeat", "free", "freeblk", "write"} \cup Freeing
  BY InPutIs DEF Mapping, Freeing
<1>4. CASE \E t \in Sets : r.back = <<t, "done">>
  <2>1. PICK t \in Sets : r.back = <<t, "done">>
    BY <1>4
  <2>2. q.pc = t /\ q.back = <<"done">>
    BY <2>1, Labels DEF Leaves
  <2>3. Home(r) = "done" /\ Home(q) = "done"
    BY <2>1, <2>2, HomeIs
  <2>4. ~InPut(q)
    BY <1>1, <1>3, <2>2, InPutIs
  <2>5. q.back \in Backs(q.pc)
    BY <1>1, <2>2, BacksAre
  <2>6. Good(q) /\ Holding(q) = Holding(r)
    BY <1>1, <1>3, <2>2, <2>3, <2>4, <2>5, InnerMoves DEF Leaves
  <2>7. QED
    BY <2>6 DEF AsMuch
<1>5. CASE \E h \in {"mk_block", "grown"} : r.back = <<h>>
  <2>1. PICK h \in {"mk_block", "grown"} : r.back = <<h>>
    BY <1>5
  <2>2. /\ h \in Homes \ (Gots \cup Mades) /\ r.pc \notin Searching \cup Homes \cup {"puts"}
    BY DEF Homes, Lookups, Opens, Gots, Mades, Putters, Adding, Walking, Searching
  <2>3. QED
    BY <1>3, <2>1, <2>2, LeavesHome
<1>6. QED
  BY <1>2, <1>4, <1>5

(* A return from _bmap and sync_inodes.                                    *)
LEMMA LeavesDone ==
  ASSUME NEW r, Good(r), r.pc \in Mapping \cup {"sync"}, NEW q, Leaves(q, r)
  PROVE  Good(q) /\ AsMuch(q, r)
<1>1. /\ "done" \in Homes \ (Gots \cup Mades) /\ r.pc \notin Searching \cup Homes \cup {"puts"}
      /\ r.pc \notin {"put", "repeat", "free", "freeblk", "write"} \cup Freeing
  BY DEF Mapping, Freeing, Homes, Lookups, Opens, Gots, Mades, Putters, Adding, Walking, Searching
<1>2. r.back = <<"done">>
  BY InnerBacks
<1>3. ~InPut(r)
  BY <1>1, InPutIs
<1>4. QED
  BY <1>1, <1>2, <1>3, LeavesHome

(* iget and get_empty_inode.                                               *)
LEMMA GoesToEmpty ==
  ASSUME NEW r, Good(r), r.pc = "iget", NEW q, Enters(q, r, "empty", "search")
  PROVE  Good(q) /\ Holding(q) = Holding(r)
<1>1. "iget" \in Inner /\ "empty" \in Inner
  BY DEF Inner
<1>2. PICK h \in Gots : r.back = <<h>>
  BY InnerBacks
<1>3. q.pc = "empty" /\ q.back = <<"search", h>>
  BY <1>2, ConsOne DEF Enters
<1>4. Home(r) = h /\ Home(q) = h
  BY <1>2, <1>3, HomeIs
<1>5. ~InPut(r) /\ ~InPut(q)
  BY <1>3, InPutIs DEF Freeing
<1>6. q.back \in Backs(q.pc)
  BY <1>3, BacksAre
<1>7. QED
  BY <1>1, <1>3, <1>4, <1>5, <1>6, InnerMoves DEF Enters

-----------------------------------------------------------------------------
(* The steps of the inode table that leave the counts alone                *)

(* The places of a group, and a block number with it.                      *)
LEMMA Hops ==
  ASSUME NEW r, Good(r), NEW G \in Groups, r.pc \in G, NEW l \in G, l # "read", NEW v
  PROVE  /\ Good(To(r, l)) /\ Holding(To(r, l)) = Holding(r)
         /\ Good(WithBlk(To(r, l), v)) /\ Holding(WithBlk(To(r, l), v)) = Holding(r)
         /\ Good(WithIb(To(r, l), v)) /\ Holding(WithIb(To(r, l), v)) = Holding(r)
<1> DEFINE e == To(r, l)
           f == WithBlk(e, v)
           g == WithIb(e, v)
<1>1. Whole(r)
  BY DEF Good
<1>2. Alike(e, r) /\ e.work = r.work /\ e.pc = l /\ e.back = r.back
  BY <1>1, ToDoes
<1> HIDE DEF e
<1>3. Whole(e)
  BY <1>2 DEF Alike
<1>4. /\ Alike(f, e) /\ f.work = e.work /\ f.pc = e.pc /\ f.back = e.back
      /\ Alike(g, e) /\ g.work = e.work /\ g.pc = e.pc /\ g.back = e.back
  BY <1>3, DataDoes, ZenonT(60) DEF WithBlk, WithIb
<1> HIDE DEF f, g
<1>5. Alike(f, r) /\ Alike(g, r)
  BY <1>2, <1>4 DEF Alike
<1>6. Good(e) /\ Holding(e) = Holding(r)
  BY <1>2, Hop
<1>7. Good(f) /\ Holding(f) = Holding(r) /\ Good(g) /\ Holding(g) = Holding(r)
  BY <1>2, <1>4, <1>5, Hop
<1>8. QED
  BY <1>6, <1>7 DEF e, f, g

(* Nobody moves.                                                           *)
LEMMA Rests ==
  ASSUME UsersInv, UNCHANGED <<table, at>>
  PROVE  UsersInv'
<1>1. \A s : Uses(s)' = Uses(s)
  BY DEF Uses
<1>2. QED
  BY <1>1 DEF UsersInv

(* A process sleeps on a locked inode.                                     *)
LEMMA SleepOnInodeKeeps ==
  ASSUME UsersInv, NEW p \in Proc, SleepOnInode(p)
  PROVE  UsersInv'
  BY Rests DEF SleepOnInode

(* get_empty_inode picks a slot.                                           *)
LEMMA PickSlotKeeps ==
  ASSUME UsersInv, NEW p \in Proc, PickSlot(p)
  PROVE  UsersInv'
<1> DEFINE r == at[p]
<1>1. Good(r) /\ Whole(r) /\ UNCHANGED table /\ r.pc = "empty"
  BY DEF UsersInv, PickSlot, Here, Good
<1>2. CASE UNCHANGED at
  BY <1>1, <1>2, Rests
<1>3. CASE \E s \in Slots : GoOn(p, [r EXCEPT !.pc = "scrub", !.work = s])
  <2>1. PICK s \in Slots : GoOn(p, [r EXCEPT !.pc = "scrub", !.work = s])
    BY <1>3
  <2> DEFINE q == [r EXCEPT !.pc = "scrub", !.work = s]
  <2>2. at' = [at EXCEPT ![p] = q] /\ q = [r EXCEPT !.pc = "scrub", !.work = s]
    BY <2>1 DEF GoOn
  <2>3. s \in Nat
    BY DirectoriesAssumption DEF Slots
  <2> HIDE DEF q, r
  <2>4. Alike(q, r) /\ q.pc = "scrub" /\ q.back = r.back
    BY <1>1, <2>2, <2>3 DEF Whole, Alike
  <2>5. {"empty", "scrub"} \in Groups /\ r.pc \notin Freeing
    BY <1>1 DEF Groups, Freeing
  <2>6. Good(q) /\ Holding(q) = Holding(r)
    BY <1>1, <2>4, <2>5, Hop
  <2>7. QED
    BY <1>1, <2>2, <2>6, HoldsOn DEF r
<1>4. QED
  BY <1>2, <1>3 DEF PickSlot, Panic

(* iget looks for an empty slot first.                                     *)
LEMMA IgetKeeps ==
  ASSUME UsersInv, NEW p \in Proc, iget(p)
  PROVE  UsersInv'
<1> DEFINE r == at[p]
           q == Enter(r, "empty", "search")
<1>1. Good(r) /\ Whole(r) /\ UNCHANGED table /\ r.pc = "iget" /\ at' = [at EXCEPT ![p] = q]
  BY DEF UsersInv, iget, Here, Good, GoOn
<1>2. Enters(q, r, "empty", "search")
  BY <1>1, EnterForms
<1> HIDE DEF q
<1>3. Good(q) /\ Holding(q) = Holding(r)
  BY <1>1, <1>2, GoesToEmpty
<1>4. QED
  BY <1>1, <1>3, HoldsOn

(* sync_inodes goes on to the next slot.                                   *)
LEMMA SyncNextKeeps ==
  ASSUME UsersInv, NEW p \in Proc, SyncNext(p)
  PROVE  UsersInv'
<1> DEFINE r == at[p]
           v == r.work + 1
           q == [r EXCEPT !.pc = "sync", !.work = v]
<1>1. Good(r) /\ Whole(r) /\ UNCHANGED table /\ r.pc = "sync_next"
  BY DEF UsersInv, SyncNext, Here, Good
<1>2. v \in Nat
  BY <1>1 DEF Whole
<1>3. at' = [at EXCEPT ![p] = q]
  BY <1>1 DEF SyncNext, GoOn, Whole
<1> HIDE DEF v
<1>4. q = [r EXCEPT !.pc = "sync", !.work = v]
  OBVIOUS
<1> HIDE DEF q, r
<1>5. Alike(q, r) /\ q.pc = "sync" /\ q.back = r.back
  BY <1>1, <1>2, <1>4 DEF Whole, Alike
<1>6. {"sync", "sync_next"} \in Groups /\ r.pc \notin Freeing
  BY <1>1 DEF Groups, Freeing
<1>7. Good(q) /\ Holding(q) = Holding(r)
  BY <1>1, <1>5, <1>6, Hop
<1>8. QED
  BY <1>1, <1>3, <1>7, HoldsOn DEF r

(* truncate frees the direct block.                                        *)
LEMMA TruncateKeeps ==
  ASSUME UsersInv, NEW p \in Proc, truncate(p)
  PROVE  UsersInv'
<1> DEFINE r == at[p]
<1>1. Good(r) /\ Whole(r) /\ UNCHANGED table /\ r.pc = "truncate"
  BY DEF UsersInv, truncate, Here, Good
<1>2. /\ r.pc \in Freeing /\ "trunc_zone" \in Cuts /\ "trunc_ind" \in Freeing /\ Freeing \in Groups
      /\ "trunc_ind" # "read"
  BY <1>1 DEF Freeing, Cuts, Groups
<1>3. CASE GoOn(p, Back(r))
  <2> DEFINE q == Back(r)
  <2>1. Leaves(q, r) /\ at' = [at EXCEPT ![p] = q]
    BY <1>1, <1>3, LeaveForms DEF GoOn
  <2> HIDE DEF q
  <2>2. QED
    BY <1>1, <1>2, <2>1, LeavesFreeing, HoldsOn
<1>4. CASE FreeLater(p, Slot(p).zone, "trunc_zone")
  <2> DEFINE q == WithBlk(Enter(r, "freeblk", "trunc_zone"), Slot(p).zone)
  <2>1. Enters(q, r, "freeblk", "trunc_zone") /\ at' = [at EXCEPT ![p] = q]
    BY <1>1, <1>4, EnterForms DEF FreeLater, MaySleep, WithBlk
  <2> HIDE DEF q
  <2>2. Good(q) /\ Holding(q) = Holding(r)
    BY <1>1, <1>2, <2>1, GoesToFreeBlock
  <2>3. QED
    BY <1>1, <2>1, <2>2, HoldsOn
<1>5. CASE GoOn(p, To(r, "trunc_ind"))
  <2> DEFINE q == To(r, "trunc_ind")
  <2>1. Good(q) /\ Holding(q) = Holding(r) /\ at' = [at EXCEPT ![p] = q]
    BY <1>1, <1>2, <1>5, Hops DEF GoOn
  <2> HIDE DEF q
  <2>2. QED
    BY <1>1, <2>1, HoldsOn
<1>6. QED
  BY <1>3, <1>4, <1>5 DEF truncate

(* free_ind frees the block behind the indirect one, and that one.         *)
LEMMA FreeIndKeeps ==
  ASSUME UsersInv, NEW p \in Proc, free_ind(p)
  PROVE  UsersInv'
<1> DEFINE r == at[p]
<1>1. Good(r) /\ Whole(r) /\ UNCHANGED table /\ r.pc \in {"trunc_ind", "trunc_ptr", "trunc_self"}
  BY DEF UsersInv, free_ind, Here, Good
<1>2. /\ r.pc \in Freeing /\ {"trunc_end", "trunc_self"} \subseteq Cuts
      /\ {"trunc_end", "trunc_ptr", "trunc_self"} \subseteq Freeing /\ Freeing \in Groups
  BY <1>1 DEF Freeing, Cuts, Groups
<1>3. CASE \E l \in {"trunc_end", "trunc_self"} : GoOn(p, To(r, l))
  <2>1. PICK l \in {"trunc_end", "trunc_self"} : GoOn(p, To(r, l))
    BY <1>3
  <2> DEFINE q == To(r, l)
  <2>2. l \in Freeing /\ l # "read"
    BY <1>2
  <2>3. Good(q) /\ Holding(q) = Holding(r) /\ at' = [at EXCEPT ![p] = q]
    BY <1>1, <1>2, <2>1, <2>2, Hops DEF GoOn
  <2> HIDE DEF q
  <2>4. QED
    BY <1>1, <2>3, HoldsOn
<1>4. CASE MaySleep(p, [r EXCEPT !.pc = "trunc_ptr", !.ib = Slot(p).ind])
  <2> DEFINE q == WithIb(To(r, "trunc_ptr"), Slot(p).ind)
  <2>1. "trunc_ptr" # "read" /\ "trunc_ptr" \in Freeing
    BY <1>2
  <2>2. at' = [at EXCEPT ![p] = q]
    BY <1>4 DEF MaySleep, WithIb, To
  <2>3. Good(q) /\ Holding(q) = Holding(r)
    BY <1>1, <1>2, <2>1, Hops
  <2> HIDE DEF q
  <2>4. QED
    BY <1>1, <2>2, <2>3, HoldsOn
<1>5. CASE FreeLater(p, data[r.ib][1].ino, "trunc_self")
  <2> DEFINE b == data[r.ib][1].ino
             q == WithBlk(Enter(r, "freeblk", "trunc_self"), b)
  <2>1. Enters(q, r, "freeblk", "trunc_self") /\ at' = [at EXCEPT ![p] = q]
    BY <1>1, <1>5, EnterForms DEF FreeLater, MaySleep, WithBlk
  <2> HIDE DEF q
  <2>2. Good(q) /\ Holding(q) = Holding(r)
    BY <1>1, <1>2, <2>1, GoesToFreeBlock
  <2>3. QED
    BY <1>1, <2>1, <2>2, HoldsOn
<1>6. CASE MaySleep(p, [Enter(r, "freeblk", "trunc_end") EXCEPT !.blk = r.ib, !.ib = 0])
  <2> DEFINE q == WithIb(WithBlk(Enter(r, "freeblk", "trunc_end"), r.ib), 0)
  <2>1. Enters(q, r, "freeblk", "trunc_end")
    BY <1>1, EnterForms
  <2>2. at' = [at EXCEPT ![p] = q]
    BY <1>6 DEF MaySleep, WithBlk, WithIb
  <2> HIDE DEF q
  <2>3. Good(q) /\ Holding(q) = Holding(r)
    BY <1>1, <1>2, <2>1, GoesToFreeBlock
  <2>4. QED
    BY <1>1, <2>2, <2>3, HoldsOn
<1>7. QED
  BY <1>3, <1>4, <1>5, <1>6 DEF free_ind

(* free_block.                                                             *)
LEMMA FreeBlockKeeps ==
  ASSUME UsersInv, NEW p \in Proc, free_block(p)
  PROVE  UsersInv'
<1> DEFINE r == at[p]
           q == Back(r)
<1>1. Good(r) /\ Whole(r) /\ UNCHANGED table /\ r.pc = "freeblk"
  BY DEF UsersInv, free_block, Here, Good
<1>2. Leaves(q, r)
  BY <1>1, LeaveForms
<1>3. UNCHANGED at \/ at' = [at EXCEPT ![p] = q]
  BY DEF free_block, Panic, GoOn
<1> HIDE DEF q
<1>4. Good(q) /\ AsMuch(q, r)
  BY <1>1, <1>2, LeavesFreeBlock
<1>5. QED
  BY <1>1, <1>3, <1>4, HoldsOn, Rests

(* new_block.                                                              *)
LEMMA NewBlockKeeps ==
  ASSUME UsersInv, NEW p \in Proc, new_block(p)
  PROVE  UsersInv'
<1> DEFINE r == at[p]
           b == Min((1 .. BLOCKS) \ zmap)
           e == WithBlk(Back(r), 0)
           f == WithBlk(To(r, "clear"), b)
<1>1. Good(r) /\ Whole(r) /\ UNCHANGED table /\ r.pc = "newblk"
  BY DEF UsersInv, new_block, Here, Good
<1>2. Leaves(e, r)
  BY <1>1, LeaveForms
<1>3. Good(f) /\ Holding(f) = Holding(r)
  <2>1. {"newblk", "clear"} \in Groups /\ "clear" # "read"
    BY DEF Groups
  <2>2. QED
    BY <1>1, <2>1, Hops
<1>4. at' = [at EXCEPT ![p] = e] \/ at' = [at EXCEPT ![p] = f]
  BY DEF new_block, GoOn, MaySleep, WithBlk, To
<1> HIDE DEF e, f
<1>5. Good(e) /\ AsMuch(e, r)
  BY <1>1, <1>2, LeavesNewBlock
<1>6. QED
  BY <1>1, <1>3, <1>4, <1>5, HoldsOn

(* ... clears the block.                                                   *)
LEMMA ClearBlockKeeps ==
  ASSUME UsersInv, NEW p \in Proc, ClearBlock(p)
  PROVE  UsersInv'
<1> DEFINE r == at[p]
           q == Back(r)
<1>1. Good(r) /\ Whole(r) /\ UNCHANGED table /\ r.pc = "clear"
  BY DEF UsersInv, ClearBlock, Here, Good
<1>2. Leaves(q, r)
  BY <1>1, LeaveForms
<1>3. UNCHANGED at \/ at' = [at EXCEPT ![p] = q]
  BY DEF ClearBlock, Panic, GoOn
<1> HIDE DEF q
<1>4. Good(q) /\ AsMuch(q, r)
  BY <1>1, <1>2, LeavesNewBlock
<1>5. QED
  BY <1>1, <1>3, <1>4, HoldsOn, Rests

-----------------------------------------------------------------------------
(* The steps that write fields of an inode                                 *)

(* write_inode unlocks the inode.                                          *)
LEMMA WriteInodeKeeps ==
  ASSUME UsersInv, NEW p \in Proc, write_inode(p)
  PROVE  UsersInv'
<1> DEFINE r == at[p]
           q == Back(r)
           j == [Slot(p) EXCEPT !.dirt = FALSE]
           i == [Slot(p) EXCEPT !.dirt = FALSE, !.lock = FALSE]
<1>1. Good(r) /\ Whole(r) /\ r.pc = "write" /\ at' = [at EXCEPT ![p] = q]
  BY DEF UsersInv, write_inode, Here, Good, GoOn
<1>2. Leaves(q, r)
  BY <1>1, LeaveForms
<1>3. CountsKept
  <2>1. j \in Changed(table[r.work], FALSE)
    BY DEF Changed, Slot
  <2>2. i = [j EXCEPT !.lock = FALSE]
    OBVIOUS
  <2>3. table' = Written(table, r.work, i)
    BY DEF write_inode, Update, Written
  <2> HIDE DEF j, i
  <2>4. i \in Changed(j, FALSE)
    BY <2>2 DEF Changed
  <2>5. QED
    BY <2>1, <2>3, <2>4, SlotWritten
<1> HIDE DEF q
<1>4. Good(q) /\ Holding(q) = Holding(r)
  BY <1>1, <1>2, LeavesWrite
<1>5. QED
  BY <1>1, <1>3, <1>4, HoldsOn

(* truncate forgets the direct block.                                      *)
LEMMA DropZoneKeeps ==
  ASSUME UsersInv, NEW p \in Proc, DropZone(p)
  PROVE  UsersInv'
<1> DEFINE r == at[p]
           q == To(r, "trunc_ind")
           i == [Slot(p) EXCEPT !.zone = 0]
<1>1. Good(r) /\ r.pc = "trunc_zone" /\ at' = [at EXCEPT ![p] = q]
  BY DEF UsersInv, DropZone, Here, GoOn
<1>2. CountsKept
  <2>1. i \in Changed(table[r.work], 0) /\ i \in Changed(i, 0) \cup {i}
    BY DEF Changed, Slot
  <2>2. table' = Written(table, r.work, i)
    BY DEF DropZone, Update, Written
  <2> HIDE DEF i
  <2>3. QED
    BY <2>1, <2>2, SlotWritten
<1>3. Good(q) /\ Holding(q) = Holding(r)
  <2>1. r.pc \in Freeing /\ "trunc_ind" \in Freeing /\ Freeing \in Groups /\ "trunc_ind" # "read"
    BY <1>1 DEF Freeing, Groups
  <2>2. QED
    BY <1>1, <2>1, Hops
<1> HIDE DEF q
<1>4. QED
  BY <1>1, <1>2, <1>3, HoldsOn

(* ... and the indirect one.                                               *)
LEMMA DropIndKeeps ==
  ASSUME UsersInv, NEW p \in Proc, DropInd(p)
  PROVE  UsersInv'
<1> DEFINE r == at[p]
           q == Back(r)
           j == [Slot(p) EXCEPT !.ind = 0]
           i == [Slot(p) EXCEPT !.ind = 0, !.dirt = TRUE]
<1>1. Good(r) /\ Whole(r) /\ r.pc = "trunc_end" /\ at' = [at EXCEPT ![p] = q]
  BY DEF UsersInv, DropInd, Here, Good, GoOn
<1>2. Leaves(q, r) /\ r.pc \in Freeing
  BY <1>1, LeaveForms DEF Freeing
<1>3. CountsKept
  <2>1. j \in Changed(table[r.work], 0)
    BY DEF Changed, Slot
  <2>2. i = [j EXCEPT !.dirt = TRUE]
    OBVIOUS
  <2>3. table' = Written(table, r.work, i)
    BY DEF DropInd, Update, Written
  <2> HIDE DEF j, i
  <2>4. i \in Changed(j, TRUE)
    BY <2>2 DEF Changed
  <2>5. QED
    BY <2>1, <2>3, <2>4, SlotWritten
<1> HIDE DEF q
<1>4. Good(q) /\ AsMuch(q, r)
  BY <1>1, <1>2, LeavesFreeing
<1>5. QED
  BY <1>1, <1>3, <1>4, HoldsOn

(* A step of _bmap.                                                        *)
LEMMA MapSteps ==
  ASSUME UsersInv, NEW p \in Proc, at[p].pc \in Mapping, UNCHANGED table \/ CountsKept, NEW b,
         \/ GoOn(p, Back(at[p]))
         \/ GoOn(p, WithIb(Back(at[p]), b))
         \/ \E x \in Sets : NeedBlock(p, x)
         \/ \E l \in Mapping : GoOn(p, To(at[p], l)) \/ MaySleep(p, WithIb(To(at[p], l), b))
  PROVE  UsersInv'
<1> DEFINE r == at[p]
<1>1. Good(r) /\ Whole(r)
  BY DEF UsersInv, Good
<1>2. CASE GoOn(p, Back(r)) \/ GoOn(p, WithIb(Back(r), b))
  <2>1. PICK q \in {Back(r), WithIb(Back(r), b)} : at' = [at EXCEPT ![p] = q]
    BY <1>2 DEF GoOn
  <2>2. Leaves(q, r)
    BY <1>1, LeaveForms
  <2>3. Good(q) /\ AsMuch(q, r)
    BY <1>1, <2>2, LeavesDone
  <2>4. QED
    BY <2>1, <2>3, HoldsOn
<1>3. CASE \E x \in Sets : NeedBlock(p, x)
  <2>1. PICK x \in Sets : NeedBlock(p, x)
    BY <1>3
  <2> DEFINE q == Enter(r, "newblk", x)
  <2>2. at' = [at EXCEPT ![p] = q] /\ Enters(q, r, "newblk", x)
    BY <1>1, <2>1, EnterForms DEF NeedBlock, GoOn
  <2> HIDE DEF q
  <2>3. Good(q) /\ Holding(q) = Holding(r)
    BY <1>1, <2>2, GoesToNewBlock
  <2>4. QED
    BY <2>2, <2>3, HoldsOn
<1>4. CASE \E l \in Mapping : GoOn(p, To(r, l)) \/ MaySleep(p, WithIb(To(r, l), b))
  <2>1. PICK l \in Mapping : GoOn(p, To(r, l)) \/ MaySleep(p, WithIb(To(r, l), b))
    BY <1>4
  <2>2. PICK q \in {To(r, l), WithIb(To(r, l), b)} : at' = [at EXCEPT ![p] = q]
    BY <2>1 DEF GoOn, MaySleep
  <2>3. Mapping \in Groups /\ l # "read"
    BY DEF Groups, Mapping
  <2>4. Good(q) /\ Holding(q) = Holding(r)
    BY <1>1, <2>3, Hops
  <2>5. QED
    BY <2>2, <2>4, HoldsOn
<1>5. QED
  BY <1>2, <1>3, <1>4

(* _bmap of the direct block.                                              *)
LEMMA MapDirectKeeps ==
  ASSUME UsersInv, NEW p \in Proc, MapDirect(p)
  PROVE  UsersInv'
<1> DEFINE r == at[p]
<1>1. r.pc \in {"bmap", "bmap_set"}
  BY DEF MapDirect, Here
<1>2. r.pc \in Mapping /\ "bmap_set" \in Sets
  BY <1>1 DEF Mapping, Sets
<1>3. NeedBlock(p, "bmap_set") \/ GoOn(p, Back(r))
  BY DEF MapDirect
<1>4. UNCHANGED table \/ CountsKept
  <2>1. CASE r.pc = "bmap"
    BY <2>1 DEF MapDirect, Here
  <2>2. CASE r.pc = "bmap_set"
    <3> DEFINE v == Slot(p).dirt \/ r.blk # 0
               j == [Slot(p) EXCEPT !.zone = r.blk]
               i == [Slot(p) EXCEPT !.zone = r.blk, !.dirt = v]
    <3>1. PICK u : u = v /\ table' = Written(table, r.work, [Slot(p) EXCEPT !.zone = r.blk, !.dirt = u])
      BY <2>2 DEF MapDirect, Here, Update, Written
    <3>2. [Slot(p) EXCEPT !.zone = r.blk, !.dirt = u] = [j EXCEPT !.dirt = u]
      OBVIOUS
    <3>3. j \in Changed(table[r.work], r.blk)
      BY DEF Changed, Slot
    <3> HIDE DEF j
    <3>4. PICK k : k = [j EXCEPT !.dirt = u]
      OBVIOUS
    <3>5. k \in Changed(j, u) /\ table' = Written(table, r.work, k)
      BY <3>1, <3>2, <3>4 DEF Changed
    <3>6. QED
      BY <3>3, <3>5, SlotWritten
  <2>3. QED
    BY <1>1, <2>1, <2>2
<1>5. QED
  BY <1>2, <1>3, <1>4, MapSteps

(* ... and of the block behind the indirect one.                           *)
LEMMA MapIndirectKeeps ==
  ASSUME UsersInv, NEW p \in Proc, MapIndirect(p)
  PROVE  UsersInv'
<1> DEFINE r == at[p]
<1>1. r.pc \in {"bmap7", "bmap7_set", "bmap7_read", "bmap7_ptr", "bmap7_put"}
  BY DEF MapIndirect, Here
<1>2. /\ r.pc \in Mapping /\ {"bmap7_set", "bmap7_put"} \subseteq Sets
      /\ {"bmap7_read", "bmap7_ptr"} \subseteq Mapping
  BY <1>1 DEF Mapping, Sets
<1>3. UNCHANGED table \/ CountsKept
  <2>1. CASE r.pc # "bmap7_set"
    BY <2>1 DEF MapIndirect, Here
  <2>2. CASE r.pc = "bmap7_set"
    <3> DEFINE v == Slot(p).dirt \/ r.blk # 0
               j == [Slot(p) EXCEPT !.ind = r.blk]
    <3>1. PICK u : u = v /\ table' = Written(table, r.work, [Slot(p) EXCEPT !.ind = r.blk, !.dirt = u])
      BY <2>2 DEF MapIndirect, Here, Update, Written
    <3>2. [Slot(p) EXCEPT !.ind = r.blk, !.dirt = u] = [j EXCEPT !.dirt = u]
      OBVIOUS
    <3>3. j \in Changed(table[r.work], r.blk)
      BY DEF Changed, Slot
    <3> HIDE DEF j
    <3>4. PICK k : k = [j EXCEPT !.dirt = u]
      OBVIOUS
    <3>5. k \in Changed(j, u) /\ table' = Written(table, r.work, k)
      BY <3>1, <3>2, <3>4 DEF Changed
    <3>6. QED
      BY <3>3, <3>5, SlotWritten
  <2>3. QED
    BY <2>1, <2>2
<1>4. CASE r.pc = "bmap7"
  <2>1. NeedBlock(p, "bmap7_set") \/ GoOn(p, To(r, "bmap7_read"))
    BY <1>4 DEF MapIndirect, Here
  <2>2. QED
    BY <1>2, <1>3, <2>1, MapSteps
<1>5. CASE r.pc = "bmap7_set"
  <2>1. GoOn(p, To(r, "bmap7_read"))
    BY <1>5 DEF MapIndirect, Here
  <2>2. QED
    BY <1>2, <1>3, <2>1, MapSteps
<1>6. CASE r.pc = "bmap7_read"
  <2> DEFINE b == Slot(p).ind
  <2>1. GoOn(p, Back(r)) \/ MaySleep(p, WithIb(To(r, "bmap7_ptr"), b))
    BY <1>6 DEF MapIndirect, Here, WithIb, To
  <2> HIDE DEF b
  <2>2. QED
    BY <1>2, <1>3, <2>1, MapSteps
<1>7. CASE r.pc = "bmap7_ptr"
  <2>1. NeedBlock(p, "bmap7_put") \/ GoOn(p, WithIb(Back(r), 0))
    BY <1>7 DEF MapIndirect, Here, WithIb
  <2>2. QED
    BY <1>2, <1>3, <2>1, MapSteps
<1>8. CASE r.pc = "bmap7_put"
  <2>1. GoOn(p, WithIb(Back(r), 0))
    BY <1>8 DEF MapIndirect, Here, WithIb
  <2>2. QED
    BY <1>2, <1>3, <2>1, MapSteps
<1>9. QED
  BY <1>1, <1>4, <1>5, <1>6, <1>7, <1>8

(* write_inode is called for a dirty inode.                                *)
LEMMA LockKeeps ==
  ASSUME UsersInv, NEW p \in Proc, Update(at[p].work, [Slot(p) EXCEPT !.lock = TRUE])
  PROVE  CountsKept
<1> DEFINE i == [Slot(p) EXCEPT !.lock = TRUE]
<1>1. i \in Changed(table[at[p].work], TRUE) /\ i \in Changed(i, 0) \cup {i}
  BY DEF Changed, Slot
<1>2. table' = Written(table, at[p].work, i)
  BY DEF Update, Written
<1> HIDE DEF i
<1>3. QED
  BY <1>1, <1>2, SlotWritten

(* sync_inodes at a slot.                                                  *)
LEMMA SyncInodesKeeps ==
  ASSUME UsersInv, NEW p \in Proc, sync_inodes(p)
  PROVE  UsersInv'
<1> DEFINE r == at[p]
<1>1. Good(r) /\ Whole(r) /\ r.pc = "sync"
  BY DEF UsersInv, sync_inodes, Here, Good
<1>2. CASE GoOn(p, Back(r)) /\ UNCHANGED table
  <2> DEFINE q == Back(r)
  <2>1. Leaves(q, r) /\ at' = [at EXCEPT ![p] = q]
    BY <1>1, <1>2, LeaveForms DEF GoOn
  <2> HIDE DEF q
  <2>2. QED
    BY <1>1, <1>2, <2>1, LeavesDone, HoldsOn
<1>3. CASE /\ Update(r.work, [Slot(p) EXCEPT !.lock = TRUE])
           /\ MaySleep(p, Enter(r, "write", "sync_next"))
  <2> DEFINE q == Enter(r, "write", "sync_next")
  <2>1. Enters(q, r, "write", "sync_next") /\ at' = [at EXCEPT ![p] = q] /\ CountsKept
    BY <1>1, <1>3, EnterForms, LockKeeps DEF MaySleep
  <2> HIDE DEF q
  <2>2. Good(q) /\ Holding(q) = Holding(r)
    BY <1>1, <2>1, GoesToWrite
  <2>3. QED
    BY <2>1, <2>2, HoldsOn
<1>4. CASE GoOn(p, To(r, "sync_next")) /\ UNCHANGED table
  <2> DEFINE q == To(r, "sync_next")
  <2>1. {"sync", "sync_next"} \in Groups /\ "sync_next" # "read"
    BY DEF Groups
  <2>2. Good(q) /\ Holding(q) = Holding(r) /\ at' = [at EXCEPT ![p] = q]
    BY <1>1, <1>4, <2>1, Hops DEF GoOn
  <2> HIDE DEF q
  <2>3. QED
    BY <1>4, <2>2, HoldsOn
<1>5. QED
  BY <1>2, <1>3, <1>4 DEF sync_inodes

-----------------------------------------------------------------------------
(* The steps that count: get_empty_inode, iget, new_inode                  *)

(* A use count is written.                                                 *)
LEMMA CountWritten ==
  ASSUME UsersInv, NEW x, NEW v, x \in Slots => v \in Int,
         table' = Written(table, x, [table[x] EXCEPT !.count = v])
  PROVE  /\ TableIs(table')
         /\ \A s \in Slots : table'[s].count = IF s = x THEN v ELSE table[s].count
<1> DEFINE i == [table[x] EXCEPT !.count = v]
<1>1. TableIs(table)
  BY SameTable
<1>2. x \in Slots => WholeInode(i) /\ i.count = v
  BY <1>1, CountOnly DEF TableIs
<1> HIDE DEF i
<1>3. TableIs(table') /\ \A s \in Slots : table'[s] = IF s = x THEN i ELSE table[s]
  BY <1>1, <1>2, WriteSlot DEF i
<1>4. QED
  BY <1>2, <1>3

(* An inode is what its fields are.                                        *)
LEMMA InodeIs ==
  ASSUME NEW a, NEW b \in Int, NEW c, NEW d, NEW e, NEW f, NEW g, NEW h
  PROVE  WholeInode([num |-> a, count |-> b, dirt |-> c, lock |-> d, mode |-> e, links |-> f,
                     zone |-> g, ind |-> h])
  BY DEF WholeInode

\* q has taken the slot r worked on as the empty one.
Empties(q, r) ==
  /\ Whole(q) /\ q.pc = Head(r.back) /\ q.back = Tail(r.back) /\ q.puts = r.puts
  /\ q.empty = r.work /\ q.kind = r.kind /\ q.dir = r.dir /\ q.ino = r.ino /\ q.file = r.file

(* It holds that slot once more.                                           *)
LEMMA EmptiesDoes ==
  ASSUME NEW r, Good(r), r.pc = "scrub", NEW q, Empties(q, r)
  PROVE  /\ Good(q)
         /\ \A s \in Slots : Refs(Holding(q), s) = Refs(Holding(r), s) + One(r.work = s)
<1>1. PICK l \in {"search", "fresh"}, h \in Gots \cup Mades :
         r.back = <<l, h>> /\ (l = "search" => h \in Gots) /\ (l = "fresh" => h \in Mades)
  BY InnerBacks
<1>2. q.pc = l /\ q.back = <<h>>
  BY <1>1, Labels DEF Empties
<1>3. Home(r) = h /\ Home(q) = h
  BY <1>1, <1>2, HomeIs
<1>4. ~InPut(r) /\ ~InPut(q)
  BY <1>2, InPutIs DEF Freeing
<1>5. q.back \in Backs(q.pc)
  BY <1>1, <1>2, BacksAre
<1>6. l \in Searching /\ r.pc \notin Searching /\ l \notin {"read", "puts"}
  BY DEF Searching
<1>7. r.empty = NoSlot /\ r.puts = <<>> /\ Len(r.puts) <= 2
  BY <1>4, <1>6 DEF Good, Searching
<1>8. Good(q)
  BY <1>2, <1>3, <1>4, <1>5, <1>6, <1>7 DEF Good, Empties, Searching
<1>9. r.pc \notin Gots \cup Mades /\ q.pc \notin Gots \cup Mades
  BY <1>2 DEF Gots, Mades
<1>10. ASSUME NEW s \in Slots
       PROVE  Refs(Holding(q), s) = Refs(Holding(r), s) + One(r.work = s)
  <2>1. Holding(q) = [Holding(r) EXCEPT !.empty = r.work]
    BY <1>3, <1>4, <1>9 DEF Holding, Empties
  <2>2. Holding(r).empty = NoSlot
    BY <1>7 DEF Holding
  <2> DEFINE m == Holding(r)
  <2>3. m = [file |-> m.file, empty |-> m.empty, dir |-> m.dir, ino |-> m.ino, work |-> m.work,
             first |-> m.first, second |-> m.second]
    BY DEF Holding
  <2> HIDE DEF m
  <2> DEFINE n == [m EXCEPT !.empty = r.work]
  <2>4. /\ n.file = m.file /\ n.empty = r.work /\ n.dir = m.dir /\ n.ino = m.ino
        /\ n.work = m.work /\ n.first = m.first /\ n.second = m.second
    BY <2>3
  <2> HIDE DEF n
  <2>5. m.empty # s
    BY <2>2, NoSlotIs DEF m
  <2>6. Refs(n, s) = Refs(m, s) + One(r.work = s)
    BY <2>4, <2>5 DEF Refs, One
  <2>7. QED
    BY <2>1, <2>6 DEF m, n
<1>11. QED
  BY <1>8, <1>10

(* get_empty_inode looks at a slot.                                        *)
LEMMA ScrubKeeps ==
  ASSUME UsersInv, NEW p \in Proc, Scrub(p)
  PROVE  UsersInv'
<1> DEFINE r == at[p]
<1>1. Good(r) /\ Whole(r) /\ r.pc = "scrub"
  BY DEF UsersInv, Scrub, Here, Good
<1>2. CASE /\ Update(r.work, [Slot(p) EXCEPT !.lock = TRUE])
           /\ MaySleep(p, Enter(r, "write", "scrub"))
  <2> DEFINE q == Enter(r, "write", "scrub")
  <2>1. Enters(q, r, "write", "scrub") /\ at' = [at EXCEPT ![p] = q] /\ CountsKept
    BY <1>1, <1>2, EnterForms, LockKeeps DEF MaySleep
  <2> HIDE DEF q
  <2>2. Good(q) /\ Holding(q) = Holding(r)
    BY <1>1, <2>1, GoesToWrite
  <2>3. QED
    BY <2>1, <2>2, HoldsOn
<1>3. CASE GoOn(p, To(r, "empty")) /\ UNCHANGED table
  <2> DEFINE q == To(r, "empty")
  <2>1. {"empty", "scrub"} \in Groups /\ "empty" # "read"
    BY DEF Groups
  <2>2. Good(q) /\ Holding(q) = Holding(r) /\ at' = [at EXCEPT ![p] = q]
    BY <1>1, <1>3, <2>1, Hops DEF GoOn
  <2> HIDE DEF q
  <2>3. QED
    BY <1>3, <2>2, HoldsOn
<1>4. CASE /\ Slot(p).count = 0 /\ Update(r.work, [Cleared EXCEPT !.count = 1])
           /\ GoOn(p, [Back(r) EXCEPT !.empty = r.work])
  <2> DEFINE e == Back(r)
             q == [e EXCEPT !.empty = r.work]
             i == [Cleared EXCEPT !.count = 1]
  <2>1. at' = [at EXCEPT ![p] = q] /\ q = [e EXCEPT !.empty = r.work]
    BY <1>4 DEF GoOn
  <2>2. Leaves(e, r)
    BY <1>1, LeaveForms
  <2> HIDE DEF e, q
  <2>3. Empties(q, r)
    <3>1. r.work \in Nat
      BY <1>1 DEF Whole
    <3> HIDE DEF r
    <3>2. QED
      BY <2>1, <2>2, <3>1 DEF Leaves, Alike, Whole, Empties
  <2>4. /\ Good(q)
        /\ \A s \in Slots : Refs(Holding(q), s) = Refs(Holding(r), s) + One(r.work = s)
    BY <1>1, <2>3, EmptiesDoes
  <2>5. WholeInode(i) /\ i.count = 1
    <3>1. WholeInode(Cleared)
      BY InodeIs DEF Cleared
    <3>2. QED
      BY <3>1, CountOnly
  <2>6. table' = Written(table, r.work, i)
    BY <1>4 DEF Update, Written
  <2> HIDE DEF i
  <2>7. TableIs(table') /\ \A s \in Slots : table'[s] = IF s = r.work THEN i ELSE table[s]
    BY <2>5, <2>6, SameTable, WriteSlot
  <2>8. ASSUME NEW s \in Slots
        PROVE  table'[s].count + Refs(Holding(r), s) = table[s].count + Refs(Holding(q), s)
    <3>1. Refs(Holding(r), s) \in Nat /\ table[s].count \in Int
      BY OwnIsRefs, SameTable DEF TableIs, WholeInode
    <3>2. Refs(Holding(q), s) = Refs(Holding(r), s) + IF r.work = s THEN 1 ELSE 0
      BY <2>4 DEF One
    <3>3. table'[s].count = IF r.work = s THEN 1 ELSE table[s].count
      BY <2>5, <2>7
    <3>4. r.work = s => table[s].count = 0
      BY <1>4 DEF Slot
    <3>5. QED
      BY <3>1, <3>2, <3>3, <3>4
  <2>9. QED
    BY <2>1, <2>4, <2>7, <2>8, CountsOn
<1>5. QED
  BY <1>2, <1>3, <1>4 DEF Scrub

(* iget searches the table.                                                *)
LEMMA SearchKeeps ==
  ASSUME UsersInv, NEW p \in Proc, Search(p)
  PROVE  UsersInv'
<1> DEFINE r == at[p]
           n == r.num
           e == r.empty
           x == Min(InTable(n))
           q == [r EXCEPT !.pc = "join", !.work = x]
           f == [r EXCEPT !.pc = "read", !.work = e]
           j == [table[e] EXCEPT !.num = n]
           i == [table[e] EXCEPT !.num = n, !.lock = TRUE]
<1>1. Good(r) /\ Whole(r) /\ r.pc = "search"
  BY DEF UsersInv, Search, Here, Good
<1>2. {"search", "join", "read"} \in Groups /\ r.pc \notin Freeing
  BY <1>1 DEF Groups, Freeing
<1>3. CASE InTable(n) # {} /\ at' = [at EXCEPT ![p] = q] /\ UNCHANGED table
  <2>1. InTable(n) \in SUBSET Nat
    BY DirectoriesAssumption DEF InTable, Slots
  <2>2. x \in Nat
    BY <1>3, <2>1, NatMin
  <2> HIDE DEF x
  <2>3. q = [r EXCEPT !.pc = "join", !.work = x]
    OBVIOUS
  <2> HIDE DEF q, r
  <2>4. Alike(q, r) /\ q.pc = "join" /\ q.back = r.back
    BY <1>1, <2>2, <2>3 DEF Whole, Alike
  <2>5. Good(q) /\ Holding(q) = Holding(r)
    BY <1>1, <1>2, <2>4, Hop
  <2>6. QED
    BY <1>3, <2>5, HoldsOn DEF r
<1>4. CASE at' = [at EXCEPT ![p] = f] /\ Update(e, i)
  <2>1. CountsKept
    <3>1. j \in Changed(table[e], n)
      BY DEF Changed
    <3>2. i = [j EXCEPT !.lock = TRUE]
      OBVIOUS
    <3>3. table' = Written(table, e, i)
      BY <1>4 DEF Update, Written
    <3> HIDE DEF j, i
    <3>4. i \in Changed(j, TRUE)
      BY <3>2 DEF Changed
    <3>5. QED
      BY <3>1, <3>3, <3>4, SlotWritten
  <2>2. e \in Nat
    BY <1>1 DEF Whole
  <2>3. f = [r EXCEPT !.pc = "read", !.work = r.empty]
    OBVIOUS
  <2> HIDE DEF f, r
  <2>4. Alike(f, r) /\ f.pc = "read" /\ f.back = r.back /\ f.work = f.empty
    BY <1>1, <2>2, <2>3 DEF Whole, Alike
  <2>5. Good(f) /\ Holding(f) = Holding(r)
    BY <1>1, <1>2, <2>4, Hop
  <2>6. QED
    BY <1>4, <2>1, <2>5, HoldsOn DEF r
<1>5. QED
  BY <1>3, <1>4 DEF Search, GoOn, MaySleep

-----------------------------------------------------------------------------
(* iget and new_inode find an inode                                        *)

\* q comes home from r with slot w.
Finds(q, r, w) ==
  /\ Whole(q) /\ q.pc = Head(r.back) /\ q.back = Tail(r.back) /\ q.puts = r.puts /\ q.work = w
  /\ q.empty = NoSlot /\ q.kind = r.kind /\ q.dir = r.dir /\ q.ino = r.ino /\ q.file = r.file

(* It holds that slot in place of the empty one.                           *)
LEMMA FindsDoes ==
  ASSUME NEW r, Good(r), r.pc \in {"join", "read", "fresh"}, NEW w, NEW q, Finds(q, r, w)
  PROVE  /\ Good(q)
         /\ \A s \in Slots : Refs(Holding(q), s) + One(r.empty = s)
                               = Refs(Holding(r), s) + One(w = s)
<1>1. PICK h \in Gots \cup Mades : r.back = <<h>>
  BY InnerBacks
<1>2. q.pc = h /\ q.back = <<>>
  BY <1>1, Labels DEF Finds
<1>3. Home(r) = h /\ h \in Homes /\ h \notin {"user", "done"}
  BY <1>1, HomeIs, HomesApart, HomesHold
<1>4. ~InPut(r)
  BY InPutIs DEF Freeing
<1>5. r.puts = <<>> /\ r.pc # "puts" /\ r.pc \notin Gots \cup Mades
  BY <1>4 DEF Good, Gots, Mades
<1>6. Fits(q, h) /\ q.puts = <<>> /\ Len(q.puts) = 0
  BY <1>3, <1>5 DEF Good, Fits, Finds
<1>7. Good(q) /\ Holding(q) = HeldFor(q, h, w)
  <2>1. Good(q) /\ Holding(q) = HeldFor(q, h, q.work)
    BY <1>2, <1>3, <1>6, ComesHome
  <2>2. QED
    BY <2>1 DEF Finds
<1> DEFINE d == IF h \in WithDir THEN r.dir ELSE NoSlot
<1>8. Holding(q) = Places(r.file, d, r.ino, w, NoSlot, NoSlot)
  BY <1>3, <1>6, <1>7 DEF HeldFor, Finds
<1>9. Holding(r) = [file |-> r.file, empty |-> r.empty, dir |-> d, ino |-> r.ino, work |-> NoSlot,
                    first |-> NoSlot, second |-> NoSlot]
  BY <1>3, <1>4, <1>5 DEF Holding
<1> HIDE DEF d
<1>10. ASSUME NEW s \in Slots
       PROVE  Refs(Holding(q), s) + One(r.empty = s) = Refs(Holding(r), s) + One(w = s)
  <2>1. NoSlot # s
    BY NoSlotIs
  <2>2. Refs(Holding(q), s) = One(r.file = s) + One(d = s) + One(r.ino = s) + One(w = s)
                               + One(NoSlot = s) + One(NoSlot = s)
    BY <1>8, RefsAre
  <2>3. Refs(Holding(r), s) = One(r.file = s) + One(r.empty = s) + One(d = s) + One(r.ino = s)
                                + One(NoSlot = s) + One(NoSlot = s) + One(NoSlot = s)
    BY <1>9 DEF Refs
  <2>4. QED
    BY <2>1, <2>2, <2>3 DEF One
<1>11. QED
  BY <1>7, <1>10

(* The form of such a return.                                              *)
LEMMA FindsForms ==
  ASSUME NEW r, Whole(r), NEW w \in Nat
  PROVE  /\ Finds([Back(r) EXCEPT !.empty = NoSlot], r, r.work)
         /\ Finds([Back(r) EXCEPT !.work = w, !.empty = NoSlot], r, w)
<1> DEFINE e == Back(r)
           f == [e EXCEPT !.empty = NoSlot]
           g == [e EXCEPT !.work = w, !.empty = NoSlot]
<1>1. Leaves(e, r)
  BY LeaveForms
<1>2. f = [e EXCEPT !.empty = NoSlot] /\ g = [e EXCEPT !.work = w, !.empty = NoSlot]
  OBVIOUS
<1>3. NoSlot \in Nat
  BY NoSlotIs
<1> HIDE DEF e, f, g
<1>4. Finds(f, r, r.work)
  BY <1>1, <1>2, <1>3 DEF Leaves, Alike, Whole, Finds
<1>5. Finds(g, r, w)
  BY <1>1, <1>2, <1>3 DEF Leaves, Alike, Whole, Finds
<1>6. QED
  BY <1>4, <1>5 DEF e, f, g

(* The inode is in the table: one more user, and the empty slot goes back. *)
LEMMA JoinKeeps ==
  ASSUME UsersInv, NEW p \in Proc, Join(p)
  PROVE  UsersInv'
<1> DEFINE r == at[p]
           q == [Back(r) EXCEPT !.empty = NoSlot]
           f == To(r, "search")
           t == [table EXCEPT ![r.work].count = table[r.work].count + 1]
<1>1. Good(r) /\ Whole(r) /\ r.pc = "join"
  BY DEF UsersInv, Join, Here, Good
<1>2. CASE /\ at' = [at EXCEPT ![p] = q]
           /\ table' = [t EXCEPT ![r.empty].count = t[r.empty].count - 1]
  <2>1. /\ Good(q)
        /\ \A s \in Slots : Refs(Holding(q), s) + One(r.empty = s)
                              = Refs(Holding(r), s) + One(r.work = s)
    <3>1. Finds(q, r, r.work)
      BY <1>1, FindsForms, NoSlotIs
    <3> HIDE DEF q
    <3>2. QED
      BY <1>1, <3>1, FindsDoes
  <2> DEFINE v == t[r.empty].count - 1
  <2>2. table' = Written(t, r.empty, [t[r.empty] EXCEPT !.count = v])
    BY <1>2 DEF Written
  <2>3. t = Counted(table, r.work, 1)
    BY DEF Counted
  <2> HIDE DEF t
  <2>4. /\ TableIs(t)
        /\ \A s \in Slots : t[s].count = table[s].count + IF s = r.work THEN 1 ELSE 0
    BY <2>3, SameTable, WriteCount
  <2>5. r.empty \in Slots => v \in Int /\ WholeInode(t[r.empty])
    BY <2>4 DEF TableIs, WholeInode
  <2> DEFINE i == [t[r.empty] EXCEPT !.count = v]
  <2>6. v = t[r.empty].count - 1
    OBVIOUS
  <2> HIDE DEF v
  <2>7. r.empty \in Slots => WholeInode(i) /\ i.count = v
    BY <2>5, CountOnly
  <2> HIDE DEF i
  <2>8. TableIs(table') /\ \A s \in Slots : table'[s] = IF s = r.empty THEN i ELSE t[s]
    BY <2>2, <2>4, <2>7, WriteSlot DEF i
  <2>9. ASSUME NEW s \in Slots
        PROVE  table'[s].count + Refs(Holding(r), s) = table[s].count + Refs(Holding(q), s)
    <3>1. Refs(Holding(r), s) \in Nat /\ table[s].count \in Int /\ Refs(Holding(q), s) \in Nat
      BY OwnIsRefs, SameTable DEF TableIs, WholeInode
    <3>2. Refs(Holding(q), s) + (IF r.empty = s THEN 1 ELSE 0)
            = Refs(Holding(r), s) + (IF r.work = s THEN 1 ELSE 0)
      BY <2>1 DEF One
    <3>3. t[s].count = table[s].count + IF r.work = s THEN 1 ELSE 0
      BY <2>4
    <3>4. table'[s].count = IF r.empty = s THEN t[s].count - 1 ELSE t[s].count
      BY <2>6, <2>7, <2>8
    <3>5. CASE r.empty = s
      BY <3>1, <3>2, <3>3, <3>4, <3>5
    <3>6. CASE r.empty # s
      BY <3>1, <3>2, <3>3, <3>4, <3>6
    <3>7. QED
      BY <3>5, <3>6
  <2> HIDE DEF q
  <2>10. QED
    BY <1>2, <2>1, <2>8, <2>9, CountsOn
<1>3. CASE at' = [at EXCEPT ![p] = f] /\ UNCHANGED table
  <2>1. {"search", "join", "read"} \in Groups /\ "search" # "read"
    BY DEF Groups
  <2>2. Good(f) /\ Holding(f) = Holding(r)
    BY <1>1, <2>1, Hops
  <2> HIDE DEF f
  <2>3. QED
    BY <1>3, <2>2, HoldsOn
<1>4. QED
  BY <1>2, <1>3 DEF Join, GoOn

(* What is read from the disk is no use count.                             *)
LEMMA LoadedIs ==
  ASSUME NEW i, WholeInode(i), NEW d
  PROVE  WholeInode(Loaded(i, d)) /\ Loaded(i, d).count = i.count
<1> DEFINE a == [i EXCEPT !.mode = d.mode]
           b == [a EXCEPT !.links = d.links]
           c == [b EXCEPT !.zone = d.zone]
           e == [c EXCEPT !.ind = d.ind]
<1>1. Loaded(i, d) = e
  BY DEF Loaded
<1>2. /\ a \in Changed(i, d.mode) /\ b \in Changed(a, d.links)
      /\ c \in Changed(b, d.zone) /\ e \in Changed(c, d.ind)
  BY DEF Changed
<1> HIDE DEF a, b, c, e
<1>3. WholeInode(a) /\ a.count = i.count
  BY <1>2, FieldOnly
<1>4. WholeInode(b) /\ b.count = i.count
  BY <1>2, <1>3, FieldOnly
<1>5. WholeInode(c) /\ c.count = i.count
  BY <1>2, <1>4, FieldOnly
<1>6. WholeInode(e) /\ e.count = i.count
  BY <1>2, <1>5, FieldOnly
<1>7. QED
  BY <1>1, <1>6

(* iget has read the inode into the empty slot.                            *)
LEMMA ReadInodeKeeps ==
  ASSUME UsersInv, NEW p \in Proc, read_inode(p)
  PROVE  UsersInv'
<1> DEFINE r == at[p]
           q == [Back(r) EXCEPT !.empty = NoSlot]
<1>1. Good(r) /\ Whole(r) /\ r.pc = "read" /\ at' = [at EXCEPT ![p] = q] /\ r.work = r.empty
  BY DEF UsersInv, read_inode, Here, Good, GoOn
<1>2. /\ Good(q)
      /\ \A s \in Slots : Refs(Holding(q), s) + One(r.empty = s)
                            = Refs(Holding(r), s) + One(r.work = s)
  <2>1. Finds(q, r, r.work)
    BY <1>1, FindsForms, NoSlotIs
  <2> HIDE DEF q
  <2>2. QED
    BY <1>1, <2>1, FindsDoes
<1> HIDE DEF q
<1>3. AsMuch(q, r)
  <2>1. ASSUME NEW s \in Slots
        PROVE  Refs(Holding(q), s) = Refs(Holding(r), s)
    <3>1. Refs(Holding(q), s) + One(r.work = s) = Refs(Holding(r), s) + One(r.work = s)
      BY <1>1, <1>2
    <3>2. Refs(Holding(r), s) \in Nat /\ Refs(Holding(q), s) \in Nat /\ One(r.work = s) \in Nat
      BY OwnIsRefs DEF One
    <3>3. QED
      BY <3>1, <3>2
  <2>2. QED
    BY <2>1 DEF AsMuch
<1>4. CountsKept
  <2> DEFINE k == table[r.work]
             a == [k EXCEPT !.lock = FALSE]
             d == disk[Slot(p).num]
             i == Loaded(a, d)
  <2>1. table' = Written(table, r.work, i)
    BY DEF read_inode, Update, Written, Slot
  <2>2. TableIs(table)
    BY SameTable
  <2>3. r.work \in Slots => WholeInode(k)
    BY <2>2 DEF TableIs
  <2>4. a \in Changed(k, FALSE)
    BY DEF Changed
  <2> HIDE DEF a, d, k
  <2>5. r.work \in Slots => WholeInode(a) /\ a.count = k.count
    BY <2>3, <2>4, FieldOnly
  <2>6. r.work \in Slots => WholeInode(i) /\ i.count = k.count
    BY <2>5, LoadedIs
  <2> HIDE DEF i
  <2>7. TableIs(table') /\ \A s \in Slots : table'[s] = IF s = r.work THEN i ELSE table[s]
    BY <2>1, <2>2, <2>6, WriteSlot
  <2>8. QED
    BY <2>6, <2>7 DEF CountsKept, k
<1>5. QED
  BY <1>1, <1>2, <1>3, <1>4, HoldsOn

(* new_inode takes the empty slot, or gives it back.                       *)
LEMMA NewInodeKeeps ==
  ASSUME UsersInv, NEW p \in Proc, new_inode(p)
  PROVE  UsersInv'
<1> DEFINE r == at[p]
           x == r.empty
           q == [Back(r) EXCEPT !.work = NoSlot, !.empty = NoSlot]
           f == [Back(r) EXCEPT !.work = x, !.empty = NoSlot]
<1>1. Good(r) /\ Whole(r) /\ r.pc = "fresh"
  BY DEF UsersInv, new_inode, Here, Good
<1>2. CASE at' = [at EXCEPT ![p] = q] /\ Update(x, [table[x] EXCEPT !.count = @ - 1])
  <2>1. /\ Good(q)
        /\ \A s \in Slots : Refs(Holding(q), s) + One(x = s)
                              = Refs(Holding(r), s) + One(NoSlot = s)
    <3>1. Finds(q, r, NoSlot)
      BY <1>1, FindsForms, NoSlotIs
    <3> HIDE DEF q
    <3>2. QED
      BY <1>1, <3>1, FindsDoes
  <2> DEFINE v == table[x].count - 1
  <2>2. table' = Written(table, x, [table[x] EXCEPT !.count = v])
    BY <1>2 DEF Update, Written
  <2>3. x \in Slots => v \in Int
    BY SameTable DEF TableIs, WholeInode
  <2>4. v = table[x].count - 1
    OBVIOUS
  <2> HIDE DEF q, v
  <2>5. /\ TableIs(table')
        /\ \A s \in Slots : table'[s].count = IF s = x THEN v ELSE table[s].count
    BY <2>2, <2>3, CountWritten
  <2>6. ASSUME NEW s \in Slots
        PROVE  table'[s].count + Refs(Holding(r), s) = table[s].count + Refs(Holding(q), s)
    <3>1. Refs(Holding(r), s) \in Nat /\ table[s].count \in Int /\ Refs(Holding(q), s) \in Nat
      BY OwnIsRefs, SameTable DEF TableIs, WholeInode
    <3>2. Refs(Holding(q), s) + (IF x = s THEN 1 ELSE 0) = Refs(Holding(r), s)
      BY <2>1, <3>1, NoSlotIs DEF One
    <3>3. table'[s].count = IF x = s THEN table[s].count - 1 ELSE table[s].count
      BY <2>4, <2>5
    <3>4. QED
      BY <3>1, <3>2, <3>3
  <2>7. QED
    BY <1>2, <2>1, <2>5, <2>6, CountsOn
<1>3. ASSUME NEW n, at' = [at EXCEPT ![p] = f],
             Update(x, [table[x] EXCEPT !.num = n, !.links = 1, !.dirt = TRUE])
      PROVE  UsersInv'
  <2>1. x \in Nat
    BY <1>1 DEF Whole
  <2>2. /\ Good(f)
        /\ \A s \in Slots : Refs(Holding(f), s) + One(x = s)
                              = Refs(Holding(r), s) + One(x = s)
    <3>1. Finds(f, r, x)
      BY <1>1, <2>1, FindsForms
    <3> HIDE DEF f
    <3>2. QED
      BY <1>1, <3>1, FindsDoes
  <2> HIDE DEF f
  <2>3. AsMuch(f, r)
    <3>1. ASSUME NEW s \in Slots
          PROVE  Refs(Holding(f), s) = Refs(Holding(r), s)
      <4>1. Refs(Holding(r), s) \in Nat /\ Refs(Holding(f), s) \in Nat /\ One(x = s) \in Nat
        BY OwnIsRefs DEF One
      <4>2. QED
        BY <2>2, <4>1, SMTT(60)
    <3>2. QED
      BY <3>1 DEF AsMuch
  <2>4. CountsKept
    <3> DEFINE k == table[x]
               a == [k EXCEPT !.num = n]
               b == [a EXCEPT !.links = 1]
               i == [b EXCEPT !.dirt = TRUE]
    <3>1. table' = Written(table, x, i)
      BY <1>3 DEF Update, Written
    <3>2. TableIs(table)
      BY SameTable
    <3>3. a \in Changed(k, n) /\ b \in Changed(a, 1) /\ i \in Changed(b, TRUE)
      BY DEF Changed
    <3>4. x \in Slots => WholeInode(k)
      BY <3>2 DEF TableIs
    <3> HIDE DEF a, b, i, k
    <3>5. x \in Slots => WholeInode(a) /\ a.count = k.count
      BY <3>3, <3>4, FieldOnly
    <3>6. x \in Slots => WholeInode(b) /\ b.count = k.count
      BY <3>3, <3>5, FieldOnly
    <3>7. x \in Slots => WholeInode(i) /\ i.count = k.count
      BY <3>3, <3>6, FieldOnly
    <3>8. TableIs(table') /\ \A s \in Slots : table'[s] = IF s = x THEN i ELSE table[s]
      BY <3>1, <3>2, <3>7, WriteSlot
    <3>9. QED
      BY <3>7, <3>8 DEF CountsKept, k
  <2>5. QED
    BY <1>3, <2>2, <2>3, <2>4, HoldsOn
<1>4. QED
  BY <1>2, <1>3 DEF new_inode, GoOn

-----------------------------------------------------------------------------
(* iput gives slots back                                                   *)

(* One or two slots are left to give back.                                 *)
LEMMA FewPuts ==
  ASSUME NEW s \in Seq(Nat), s # <<>>, Len(s) <= 2
  PROVE  /\ Head(s) \in Nat /\ Tail(s) \in Seq(Nat) /\ Len(Tail(s)) = Len(s) - 1 /\ Head(s) = s[1]
         /\ Len(s) = 1 \/ Len(s) = 2
         /\ Len(s) = 2 => Tail(s)[1] = s[2]
<1>1. Len(s) \in Nat \ {0}
  BY EmptySeq
<1>2. Len(s) = 1 \/ Len(s) = 2
  <2> DEFINE n == Len(s)
  <2>1. n \in Nat \ {0} /\ n <= 2
    BY <1>1
  <2> HIDE DEF n
  <2>2. n = 1 \/ n = 2
    BY <2>1
  <2>3. QED
    BY <2>2 DEF n
<1>3. /\ Head(s) = s[1] /\ Len(Tail(s)) = Len(s) - 1
      /\ Head(s) \in Nat /\ Tail(s) \in Seq(Nat)
  OBVIOUS
<1>4. Len(s) = 2 => Tail(s)[1] = s[2]
  BY SMTT(60)
<1>5. QED
  BY <1>2, <1>3, <1>4

(* The next slot to give back.                                             *)
LEMMA PutsKeeps ==
  ASSUME UsersInv, NEW p \in Proc, Puts(p)
  PROVE  UsersInv'
<1> DEFINE r == at[p]
           x == Head(r.puts)
           rest == Tail(r.puts)
           e == Enter(r, "put", "puts")
           q == [e EXCEPT !.work = x, !.puts = rest]
           f == Back(r)
<1>1. Good(r) /\ Whole(r) /\ UNCHANGED table /\ r.pc = "puts" /\ Len(r.puts) <= 2
  BY DEF UsersInv, Puts, Here, Good
<1>2. PICK h \in Putters : r.back = <<h>>
  BY <1>1, InnerBacks
<1>3. /\ h \in Homes \ (Gots \cup Mades) /\ r.pc \notin Searching \cup Homes \cup Gots \cup Mades
      /\ Home(r) = h /\ ~InPut(r)
  <2>1. h \in Homes \ (Gots \cup Mades)
    BY HomesApart
  <2>2. "puts" \notin Searching \cup Homes \cup Gots \cup Mades
    BY HomesApart DEF Searching, Gots, Mades
  <2>3. "puts" \notin {"put", "repeat", "free", "freeblk", "write"} \cup Freeing
    BY DEF Freeing
  <2> HIDE DEF r
  <2>4. ~InPut(r)
    BY <1>1, <2>3, InPutIs
  <2>5. Home(r) = h
    BY <1>2, HomeIs
  <2>6. QED
    BY <1>1, <2>1, <2>2, <2>4, <2>5
<1>4. CASE r.puts = <<>> /\ at' = [at EXCEPT ![p] = f]
  <2>1. Leaves(f, r) /\ Alike(f, Back(r)) /\ f.pc = Back(r).pc /\ f.back = Back(r).back
    <3>1. Leaves(f, r)
      BY <1>1, LeaveForms
    <3>2. Alike(f, Back(r))
      BY <3>1 DEF Leaves, Alike
    <3>3. QED
      BY <3>1, <3>2
  <2> HIDE DEF f
  <2>2. Good(f) /\ AsMuch(f, r)
    BY <1>1, <1>2, <1>3, <1>4, <2>1, ReturnsHome
  <2>3. QED
    BY <1>1, <1>4, <2>2, HoldsOn
<1>5. CASE r.puts # <<>> /\ at' = [at EXCEPT ![p] = q]
  <2>1. /\ x \in Nat /\ rest \in Seq(Nat) /\ Len(rest) = Len(r.puts) - 1 /\ x = r.puts[1]
        /\ Len(r.puts) = 1 \/ Len(r.puts) = 2
        /\ Len(r.puts) = 2 => rest[1] = r.puts[2]
    <3>1. r.puts \in Seq(Nat)
      BY <1>1 DEF Whole
    <3>2. QED
      BY <1>1, <1>5, <3>1, FewPuts
  <2>2. Enters(e, r, "put", "puts")
    BY <1>1, EnterForms
  <2> HIDE DEF x, rest, e
  <2>3. q = [e EXCEPT !.work = x, !.puts = rest]
    OBVIOUS
  <2> HIDE DEF q
  <2>4. /\ Whole(q) /\ q.pc = "put" /\ q.back = <<"puts", h>> /\ q.puts = rest /\ q.work = x
        /\ q.empty = r.empty /\ q.kind = r.kind /\ q.dir = r.dir /\ q.ino = r.ino /\ q.file = r.file
    <3>1. <<"puts">> \o <<h>> = <<"puts", h>>
      BY ConsOne
    <3>2. Whole(e) /\ e.pc = "put" /\ e.back = <<"puts", h>> /\ e.empty = r.empty /\ e.kind = r.kind
          /\ e.dir = r.dir /\ e.ino = r.ino /\ e.file = r.file
      BY <1>2, <2>2, <3>1 DEF Enters, Alike
    <3> HIDE DEF r
    <3>3. QED
      BY <2>1, <2>3, <3>2, ZenonT(60) DEF Whole
  <2>5. Home(q) = h /\ InPut(q)
    BY <2>4, HomeIs, InPutIs
  <2>6. q.back \in Backs(q.pc)
    BY <2>4, BacksAre
  <2>7. Len(rest) <= 2
    <3> DEFINE m == Len(rest)
               n == Len(r.puts)
    <3>1. m = n - 1 /\ (n = 1 \/ n = 2)
      BY <2>1
    <3> HIDE DEF m, n
    <3>2. m <= 2
      BY <3>1
    <3>3. QED
      BY <3>2 DEF m
  <2>8. Good(q)
    <3>1. r.empty = NoSlot
      BY <1>1 DEF Good
    <3>2. QED
      BY <1>1, <1>3, <2>4, <2>5, <2>6, <2>7, <3>1 DEF Good
  <2>9. ASSUME NEW s \in Slots
        PROVE  Refs(Holding(q), s) = Refs(Holding(r), s)
    <3> DEFINE d == IF h \in WithDir THEN r.dir ELSE NoSlot
               i == IF h # "done" THEN r.ino ELSE NoSlot
               y == IF Len(r.puts) = 2 THEN r.puts[2] ELSE NoSlot
    <3>1. r.empty = NoSlot
      BY <1>1 DEF Good
    <3>2. (IF Len(rest) >= 1 THEN rest[1] ELSE NoSlot) = y
      <4>1. CASE Len(r.puts) = 1
        BY <2>1, <4>1
      <4>2. CASE Len(r.puts) = 2
        BY <2>1, <4>2
      <4>3. QED
        BY <2>1, <4>1, <4>2
    <3>3. /\ (IF Len(rest) >= 2 THEN rest[2] ELSE NoSlot) = NoSlot
          /\ (IF Len(r.puts) >= 2 THEN r.puts[2] ELSE NoSlot) = y
          /\ (IF Len(r.puts) >= 1 THEN r.puts[1] ELSE NoSlot) = x
      <4>1. CASE Len(r.puts) = 1
        BY <2>1, <4>1
      <4>2. CASE Len(r.puts) = 2
        BY <2>1, <4>2
      <4>3. QED
        BY <2>1, <4>1, <4>2
    <3>4. Holding(q) = Places(r.file, d, i, x, y, NoSlot)
      BY <2>4, <2>5, <3>1, <3>2, <3>3 DEF Holding, Places
    <3>5. Holding(r) = Places(r.file, d, i, NoSlot, x, y)
      BY <1>3, <3>1, <3>3 DEF Holding, Places
    <3> HIDE DEF d, i, y
    <3>6. Refs(Holding(q), s) = One(r.file = s) + One(d = s) + One(i = s) + One(x = s) + One(y = s)
                                 + One(NoSlot = s)
      BY <3>4, RefsAre
    <3>7. Refs(Holding(r), s) = One(r.file = s) + One(d = s) + One(i = s) + One(NoSlot = s)
                                 + One(x = s) + One(y = s)
      BY <3>5, RefsAre
    <3>8. QED
      BY <3>6, <3>7 DEF One
  <2>10. AsMuch(q, r)
    BY <2>9 DEF AsMuch
  <2>11. QED
    BY <1>1, <1>5, <2>8, <2>10, HoldsOn
<1>6. e.puts = r.puts
  <2>1. Enters(e, r, "put", "puts")
    BY <1>1, EnterForms
  <2> HIDE DEF e
  <2>2. QED
    BY <2>1 DEF Enters, Alike
<1>7. at' = [at EXCEPT ![p] = IF r.puts = <<>> THEN f
                               ELSE [e EXCEPT !.work = x, !.puts = Tail(e.puts)]]
  BY DEF Puts, GoOn
<1> HIDE DEF e, f
<1>8. QED
  BY <1>4, <1>5, <1>6, <1>7

(* A slot iput is done with.                                               *)
LEMMA GivenBack ==
  ASSUME NEW r, Good(r), r.pc \in {"put", "repeat", "free"}, NEW q, Leaves(q, r)
  PROVE  /\ Good(q)
         /\ \A s \in Slots : Refs(Holding(q), s) + One(r.work = s) = Refs(Holding(r), s)
<1>1. PICK h \in Putters : r.back = <<"puts", h>>
  BY InnerBacks
<1>2. q.pc = "puts" /\ q.back = <<h>> /\ Whole(q)
  BY <1>1, Labels DEF Leaves, Alike
<1>3. Home(r) = h /\ Home(q) = h /\ InPut(r) /\ ~InPut(q)
  BY <1>1, <1>2, HomeIs, InPutIs DEF Freeing
<1>4. q.back \in Backs(q.pc)
  BY <1>2, BacksAre
<1>5. r.empty = NoSlot /\ Len(r.puts) <= 2
  BY DEF Good
<1>6. Good(q)
  BY <1>2, <1>3, <1>4, <1>5 DEF Good, Leaves, Alike
<1>7. q.pc \notin Gots \cup Mades
  BY <1>2 DEF Gots, Mades
<1> DEFINE m == Holding(r)
           n == Holding(q)
<1>8. /\ m.work = r.work /\ n.work = NoSlot /\ n.file = m.file /\ n.empty = m.empty /\ n.dir = m.dir
      /\ n.ino = m.ino /\ n.first = m.first /\ n.second = m.second
  BY <1>3, <1>7 DEF Holding, Leaves, Alike
<1> HIDE DEF m, n
<1>9. ASSUME NEW s \in Slots
      PROVE  Refs(n, s) + One(r.work = s) = Refs(m, s)
  <2>1. NoSlot # s
    BY NoSlotIs
  <2>2. QED
    BY <1>8, <2>1 DEF Refs, One
<1>10. QED
  BY <1>6, <1>9 DEF m, n

(* It counts one user less.                                                *)
LEMMA GiveKeeps ==
  ASSUME UsersInv, NEW p \in Proc, at[p].pc \in {"put", "repeat", "free"}, GoOn(p, Back(at[p])),
         TableIs(table'),
         \A s \in Slots : table'[s].count = IF at[p].work = s THEN table[s].count - 1
                                            ELSE table[s].count
  PROVE  UsersInv'
<1> DEFINE r == at[p]
           q == Back(r)
<1>1. Good(r) /\ Whole(r) /\ at' = [at EXCEPT ![p] = q]
  BY DEF UsersInv, Good, GoOn
<1>2. Leaves(q, r)
  BY <1>1, LeaveForms
<1> HIDE DEF q
<1>3. /\ Good(q)
      /\ \A s \in Slots : Refs(Holding(q), s) + One(r.work = s) = Refs(Holding(r), s)
  BY <1>1, <1>2, GivenBack
<1>4. ASSUME NEW s \in Slots
      PROVE  table'[s].count + Refs(Holding(r), s) = table[s].count + Refs(Holding(q), s)
  <2>1. Refs(Holding(r), s) \in Nat /\ table[s].count \in Int /\ Refs(Holding(q), s) \in Nat
    BY OwnIsRefs, SameTable DEF TableIs, WholeInode
  <2>2. Refs(Holding(q), s) + (IF r.work = s THEN 1 ELSE 0) = Refs(Holding(r), s)
    BY <1>3 DEF One
  <2>3. QED
    BY <2>1, <2>2
<1>5. QED
  BY <1>1, <1>3, <1>4, CountsOn

(* The count of the slot goes down.                                        *)
LEMMA CountDown ==
  ASSUME UsersInv, NEW p \in Proc, Update(at[p].work, [Slot(p) EXCEPT !.count = @ - 1])
  PROVE  /\ TableIs(table')
         /\ \A s \in Slots : table'[s].count = IF at[p].work = s THEN table[s].count - 1
                                               ELSE table[s].count
<1> DEFINE x == at[p].work
           v == table[x].count - 1
<1>1. table' = Written(table, x, [table[x] EXCEPT !.count = v])
  BY DEF Update, Written, Slot
<1>2. x \in Slots => v \in Int
  BY SameTable DEF TableIs, WholeInode
<1>3. v = table[x].count - 1
  OBVIOUS
<1> HIDE DEF v, x
<1>4. /\ TableIs(table')
      /\ \A s \in Slots : table'[s].count = IF s = x THEN v ELSE table[s].count
  BY <1>1, <1>2, CountWritten
<1>5. QED
  BY <1>3, <1>4 DEF x

(* The loop of iput.                                                       *)
LEMMA ReleaseKeeps ==
  ASSUME UsersInv, NEW p \in Proc, at[p].pc \in {"put", "repeat"}, Release(p)
  PROVE  UsersInv'
<1> DEFINE r == at[p]
<1>1. Good(r) /\ Whole(r)
  BY DEF UsersInv, Good
<1>2. CASE GoOn(p, Enter(r, "truncate", "free")) /\ UNCHANGED table
  <2> DEFINE q == Enter(r, "truncate", "free")
  <2>1. Enters(q, r, "truncate", "free") /\ at' = [at EXCEPT ![p] = q]
    BY <1>1, <1>2, EnterForms DEF GoOn
  <2> HIDE DEF q
  <2>2. Good(q) /\ Holding(q) = Holding(r)
    BY <1>1, <2>1, GoesToTruncate
  <2>3. QED
    BY <1>2, <2>1, <2>2, HoldsOn
<1>3. CASE /\ Update(r.work, [Slot(p) EXCEPT !.lock = TRUE])
           /\ MaySleep(p, Enter(r, "write", "repeat"))
  <2> DEFINE q == Enter(r, "write", "repeat")
  <2>1. Enters(q, r, "write", "repeat") /\ at' = [at EXCEPT ![p] = q] /\ CountsKept
    BY <1>1, <1>3, EnterForms, LockKeeps DEF MaySleep
  <2> HIDE DEF q
  <2>2. Good(q) /\ Holding(q) = Holding(r)
    BY <1>1, <2>1, GoesToWrite
  <2>3. QED
    BY <2>1, <2>2, HoldsOn
<1>4. CASE Update(r.work, [Slot(p) EXCEPT !.count = @ - 1]) /\ GoOn(p, Back(r))
  <2>1. /\ TableIs(table')
        /\ \A s \in Slots : table'[s].count = IF r.work = s THEN table[s].count - 1
                                              ELSE table[s].count
    BY <1>4, CountDown
  <2>2. QED
    BY <1>4, <2>1, GiveKeeps
<1>5. QED
  BY <1>2, <1>3, <1>4 DEF Release

(* iput.                                                                   *)
LEMMA IputKeeps ==
  ASSUME UsersInv, NEW p \in Proc, iput(p) \/ Repeat(p)
  PROVE  UsersInv'
<1> DEFINE r == at[p]
<1>1. r.pc \in {"put", "repeat"}
  BY DEF iput, Repeat, Here
<1>2. CASE UNCHANGED <<table, at>>
  BY <1>2, Rests
<1>3. CASE Release(p)
  BY <1>1, <1>3, ReleaseKeeps
<1>4. CASE Update(r.work, [Slot(p) EXCEPT !.count = @ - 1]) /\ GoOn(p, Back(r))
  <2>1. /\ TableIs(table')
        /\ \A s \in Slots : table'[s].count = IF r.work = s THEN table[s].count - 1
                                              ELSE table[s].count
    BY <1>4, CountDown
  <2>2. QED
    BY <1>1, <1>4, <2>1, GiveKeeps
<1>5. QED
  BY <1>2, <1>3, <1>4 DEF iput, Repeat, Panic

(* A slot iput works on has a user.                                        *)
LEMMA InPutCounts ==
  ASSUME UsersInv, NEW p \in Proc, at[p].pc = "free", at[p].work \in Slots
  PROVE  table[at[p].work].count >= 1 /\ table[at[p].work].count \in Int
<1> DEFINE r == at[p]
           x == r.work
           U == Uses(x)
<1>1. InPut(r)
  BY InPutIs
<1>2. Holding(r)["work"] = x
  BY <1>1 DEF Holding
<1>3. <<p, "work">> \in U
  BY <1>2 DEF Uses, Fields
<1>4. IsFiniteSet(U)
  <2>1. U \subseteq Proc \X Fields
    BY DEF Uses
  <2>2. IsFiniteSet(Fields)
    BY FieldsFinite
  <2>3. IsFiniteSet(Proc \X Fields)
    BY <2>2, FS_Product, DirectoriesAssumption
  <2>4. QED
    BY <2>1, <2>3, FS_Subset
<1> HIDE DEF U
<1>5. Cardinality(U) \in Nat /\ Cardinality(U) # 0
  BY <1>3, <1>4, FS_CardinalityType, FS_EmptySet
<1>6. table[x].count = Cardinality(U) + IF x = Root THEN 4 ELSE 0
  BY DEF UsersInv, U
<1>7. QED
  BY <1>5, <1>6

(* free_inode does not free an inode in use.                               *)
LEMMA MayFree ==
  ASSUME NEW i, i.count \in Int, i.count > 1
  PROVE  NotToFree(i) = "free_inode"
  BY DEF NotToFree

(* free_inode clears the slot: its only user was iput.                     *)
LEMMA FreeInodeKeeps ==
  ASSUME UsersInv, NEW p \in Proc, free_inode(p)
  PROVE  UsersInv'
<1> DEFINE r == at[p]
           x == r.work
<1>1. r.pc = "free"
  BY DEF free_inode, Here
<1>2. CASE UNCHANGED <<table, at>>
  BY <1>2, Rests
<1>3. CASE NotToFree(Slot(p)) = "" /\ Update(x, Cleared) /\ GoOn(p, Back(r))
  <2>1. x \in Slots => table[x].count = 1
    <3>1. SUFFICES ASSUME x \in Slots, table[x].count > 1 PROVE FALSE
      BY <1>1, InPutCounts
    <3>2. table[x].count \in Int
      BY <1>1, <3>1, InPutCounts
    <3>3. NotToFree(Slot(p)) = "free_inode"
      BY <3>1, <3>2, MayFree DEF Slot
    <3>4. "free_inode" # ""
      OBVIOUS
    <3>5. QED
      BY <1>3, <3>3, <3>4
  <2>2. WholeInode(Cleared) /\ Cleared.count = 0
    BY InodeIs DEF Cleared
  <2>3. table' = Written(table, x, Cleared)
    BY <1>3 DEF Update, Written
  <2>4. TableIs(table') /\ \A s \in Slots : table'[s] = IF s = x THEN Cleared ELSE table[s]
    BY <2>2, <2>3, SameTable, WriteSlot
  <2>5. \A s \in Slots : table'[s].count = IF x = s THEN table[s].count - 1 ELSE table[s].count
    BY <2>1, <2>2, <2>4
  <2>6. QED
    BY <1>1, <1>3, <2>4, <2>5, GiveKeeps
<1>4. QED
  BY <1>2, <1>3 DEF free_inode, Panic

-----------------------------------------------------------------------------
(* The counts are right at the start, and every step keeps them so         *)

(* Who holds a file holds the slot in that place.                          *)
LEMMA OpenFiles ==
  ASSUME at = [p \in Proc |-> at[p]],
         \A p \in Proc : Holding(at[p]) = Places(at[p].file, NoSlot, NoSlot, NoSlot, NoSlot, NoSlot),
         IsFiniteSet(Proc), NEW s \in Slots
  PROVE  Cardinality(Uses(s)) = Cardinality({p \in Proc : at[p].file = s})
<1> DEFINE F == {p \in Proc : at[p].file = s}
<1>1. NoSlot # s
  BY NoSlotIs
<1>2. ASSUME NEW p \in Proc, NEW k \in Fields
      PROVE  Holding(at[p])[k] = s <=> at[p].file = s /\ k = "file"
  <2> DEFINE f == at[p].file
             h == Holding(at[p])
  <2>1. h = [file |-> f, empty |-> NoSlot, dir |-> NoSlot, ino |-> NoSlot, work |-> NoSlot,
             first |-> NoSlot, second |-> NoSlot]
    BY DEF Places
  <2> HIDE DEF h, f
  <2>2. h["file"] = f /\ (k # "file" => h[k] = NoSlot)
    BY <2>1 DEF Fields
  <2>3. QED
    BY <1>1, <2>2 DEF h, f
<1>3. Uses(s) = F \X {"file"}
  <2>1. "file" \in Fields
    BY DEF Fields
  <2>2. QED
    BY <1>2, <2>1 DEF Uses
<1>4. IsFiniteSet(F) /\ IsFiniteSet({"file"}) /\ Cardinality({"file"}) = 1
  BY FS_Subset, FS_Singleton
<1> HIDE DEF F
<1>5. Cardinality(F \X {"file"}) = Cardinality(F) * 1 /\ Cardinality(F) \in Nat
  BY <1>4, FS_Product, FS_CardinalityType
<1>6. QED
  BY <1>3, <1>5 DEF F

\* A slot taken for inode m, with k users.
Taken(m, k) == [Cleared EXCEPT !.num = m, !.count = k]

(* It counts them.                                                         *)
LEMMA TakenIs ==
  ASSUME NEW m, NEW k \in Int
  PROVE  WholeInode(Taken(m, k)) /\ Taken(m, k).count = k
<1> DEFINE c == [Cleared EXCEPT !.num = m]
<1>1. WholeInode(Cleared)
  BY InodeIs DEF Cleared
<1>2. c \in Changed(Cleared, m) /\ Taken(m, k) = [c EXCEPT !.count = k]
  BY DEF Changed, Taken
<1> HIDE DEF c
<1>3. WholeInode(c)
  BY <1>1, <1>2, FieldOnly
<1>4. QED
  BY <1>2, <1>3, CountOnly

(* mount_root counts the root, and the file some have open.                *)
LEMMA MountCounts ==
  ASSUME mount_root
  PROVE  UsersInv
<1>1. PICK openers \in SUBSET Proc :
        /\ at = [p \in Proc |-> [Idle EXCEPT !.file = IF p \in openers THEN 1 ELSE NoSlot]]
        /\ table = [s \in Slots |->
             CASE s = Root -> Loaded([Cleared EXCEPT !.num = 1, !.count = 4], RootInode)
               [] s = 1 /\ openers # {} ->
                    Loaded([Cleared EXCEPT !.num = 2, !.count = Cardinality(openers)], FileInode)
               [] OTHER -> Cleared]
  BY DEF mount_root
<1> DEFINE n == Cardinality(openers)
           a == Loaded([Cleared EXCEPT !.num = 1, !.count = 4], RootInode)
           b == Loaded([Cleared EXCEPT !.num = 2, !.count = n], FileInode)
<1>2. IsFiniteSet(openers) /\ n \in Nat /\ (openers = {} => n = 0) /\ IsFiniteSet(Proc)
  BY DirectoriesAssumption, FS_Subset, FS_CardinalityType, FS_EmptySet
<1>3. WholeInode(Cleared) /\ Cleared.count = 0
  BY InodeIs DEF Cleared
<1>5. WholeInode(a) /\ a.count = 4
  <2>1. WholeInode(Taken(1, 4)) /\ Taken(1, 4).count = 4
    BY TakenIs
  <2>2. a = Loaded(Taken(1, 4), RootInode)
    BY DEF Taken
  <2> HIDE DEF a
  <2>3. QED
    BY <2>1, <2>2, LoadedIs
<1>6. WholeInode(b) /\ b.count = n
  <2> HIDE DEF n
  <2>1. WholeInode(Taken(2, n)) /\ Taken(2, n).count = n
    BY <1>2, TakenIs
  <2>2. b = Loaded(Taken(2, n), FileInode)
    BY DEF Taken
  <2> HIDE DEF b
  <2>3. QED
    BY <2>1, <2>2, LoadedIs
<1>7. /\ at = [p \in Proc |-> at[p]]
      /\ \A p \in Proc : at[p] = IdleWith(IF p \in openers THEN 1 ELSE NoSlot)
  BY <1>1 DEF IdleWith
<1>8. ASSUME NEW p \in Proc
      PROVE  /\ Good(at[p]) /\ at[p].file = IF p \in openers THEN 1 ELSE NoSlot
             /\ Holding(at[p]) = Places(at[p].file, NoSlot, NoSlot, NoSlot, NoSlot, NoSlot)
  <2> DEFINE f == IF p \in openers THEN 1 ELSE NoSlot
             q == at[p]
  <2>1. f \in Nat /\ q = IdleWith(f)
    BY <1>7, NoSlotIs
  <2> HIDE DEF f, q
  <2>2. Good(q) /\ Holding(q) = Places(f, NoSlot, NoSlot, NoSlot, NoSlot, NoSlot)
    BY <2>1, IdleIs
  <2>3. q.file = f
    BY <2>2 DEF Holding, Places
  <2>4. QED
    BY <2>2, <2>3 DEF f, q
<1> HIDE DEF a, b
<1>9. table = [s \in Slots |-> CASE s = Root -> a [] s = 1 /\ openers # {} -> b [] OTHER -> Cleared]
  BY <1>1 DEF a, b, n
<1>10. ASSUME NEW s \in Slots
       PROVE  /\ WholeInode(table[s])
              /\ table[s].count = Cardinality(Uses(s)) + IF s = Root THEN 4 ELSE 0
  <2> DEFINE F == {p \in Proc : at[p].file = s}
  <2>1. Cardinality(Uses(s)) = Cardinality(F)
    BY <1>2, <1>7, <1>8, OpenFiles
  <2>2. F = IF s = 1 THEN openers ELSE {}
    BY <1>8, NoSlotIs
  <2>3. Cardinality(F) = IF s = 1 THEN n ELSE 0
    BY <2>2, FS_EmptySet
  <2> HIDE DEF F, n
  <2>4. table[s] = IF s = Root THEN a ELSE IF s = 1 /\ openers # {} THEN b ELSE Cleared
    BY <1>9 DEF Root
  <2>5. CASE s = Root
    BY <1>5, <2>1, <2>3, <2>4, <2>5 DEF Root
  <2>6. CASE s # Root /\ s = 1 /\ openers # {}
    BY <1>2, <1>6, <2>1, <2>3, <2>4, <2>6
  <2>7. CASE s # Root /\ ~ (s = 1 /\ openers # {})
    BY <1>2, <1>3, <2>1, <2>3, <2>4, <2>7
  <2>8. QED
    BY <2>5, <2>6, <2>7
<1>11. table = [s \in Slots |-> table[s]]
  BY <1>9
<1>12. QED
  BY <1>7, <1>8, <1>10, <1>11 DEF UsersInv

(* The steps of the inode table.                                           *)
LEMMA InodeStepKeeps ==
  ASSUME UsersInv, NEW p \in Proc, InodeStep(p)
  PROVE  UsersInv'
<1>1. CASE SleepOnInode(p) \/ PickSlot(p) \/ Scrub(p) \/ write_inode(p)
  BY <1>1, SleepOnInodeKeeps, PickSlotKeeps, ScrubKeeps, WriteInodeKeeps
<1>2. CASE iget(p) \/ Search(p) \/ Join(p) \/ read_inode(p)
  BY <1>2, IgetKeeps, SearchKeeps, JoinKeeps, ReadInodeKeeps
<1>3. CASE Puts(p) \/ iput(p) \/ Repeat(p) \/ free_inode(p) \/ new_inode(p)
  BY <1>3, PutsKeeps, IputKeeps, FreeInodeKeeps, NewInodeKeeps
<1>4. CASE free_block(p) \/ new_block(p) \/ ClearBlock(p)
  BY <1>4, FreeBlockKeeps, NewBlockKeeps, ClearBlockKeeps
<1>5. CASE truncate(p) \/ DropZone(p) \/ free_ind(p) \/ DropInd(p)
  BY <1>5, TruncateKeeps, DropZoneKeeps, FreeIndKeeps, DropIndKeeps
<1>6. CASE MapDirect(p) \/ MapIndirect(p) \/ sync_inodes(p) \/ SyncNext(p)
  BY <1>6, MapDirectKeeps, MapIndirectKeeps, SyncInodesKeeps, SyncNextKeeps
<1>7. QED
  BY <1>1, <1>2, <1>3, <1>4, <1>5, <1>6 DEF InodeStep

(* The steps of the calls.                                                 *)
LEMMA StepKeeps ==
  ASSUME UsersInv, FsNext
  PROVE  UsersInv'
<1>1. SUFFICES ASSUME NEW p \in Proc,
        \/ InodeStep(p)
        \/ Call(p) \/ CallOnFile(p) \/ Sync(p) \/ Done(p)
        \/ find_entry(p) \/ Match(p) \/ ReadToAdd(p) \/ Grow(p) \/ get_dir(p) \/ DirFound(p)
        \/ OpenMissing(p) \/ OpenMade(p) \/ OpenEntry(p) \/ OpenNoRoom(p)
        \/ OpenFound(p) \/ OpenTaken(p)
        \/ MkdirLooked(p) \/ MkdirMade(p) \/ MkdirBlock(p) \/ MkdirFill(p)
        \/ MkdirEntry(p) \/ MkdirNoRoom(p)
        \/ RmdirLooked(p) \/ RmdirTaken(p) \/ RmdirDone(p)
        \/ UnlinkLooked(p) \/ UnlinkTaken(p) \/ UnlinkDone(p)
        \/ namei(p) \/ LinkOld(p) \/ LinkLooked(p) \/ LinkEntry(p) \/ LinkNoRoom(p) \/ LinkCount(p)
      PROVE  UsersInv'
  BY DEF FsNext
<1>2. CASE InodeStep(p)
  BY <1>2, InodeStepKeeps
<1>3. CASE Call(p) \/ CallOnFile(p) \/ Sync(p) \/ Done(p)
  BY <1>3, CallKeeps, CallOnFileKeeps, DoneKeeps
<1>4. CASE find_entry(p) \/ Match(p) \/ ReadToAdd(p) \/ Grow(p) \/ get_dir(p) \/ DirFound(p)
  BY <1>4, FindKeeps, ReadToAddKeeps, GrowKeeps, GetDirKeeps, DirFoundKeeps
<1>5. CASE \/ OpenMissing(p) \/ OpenMade(p) \/ OpenEntry(p) \/ OpenNoRoom(p)
           \/ OpenFound(p) \/ OpenTaken(p)
  BY <1>5, OpenMissingKeeps, OpenMadeKeeps, OpenEntryKeeps, OpenNoRoomKeeps, OpenFoundKeeps,
     OpenTakenKeeps
<1>6. CASE \/ MkdirLooked(p) \/ MkdirMade(p) \/ MkdirBlock(p) \/ MkdirFill(p)
           \/ MkdirEntry(p) \/ MkdirNoRoom(p)
  BY <1>6, MkdirLookedKeeps, MkdirMadeKeeps, MkdirBlockKeeps, MkdirFillKeeps, MkdirEntryKeeps,
     MkdirNoRoomKeeps
<1>7. CASE \/ RmdirLooked(p) \/ RmdirTaken(p) \/ RmdirDone(p)
           \/ UnlinkLooked(p) \/ UnlinkTaken(p) \/ UnlinkDone(p)
  BY <1>7, RemovalLookedKeeps, RmdirTakenKeeps, RmdirDoneKeeps, UnlinkTakenKeeps, UnlinkDoneKeeps
<1>8. CASE namei(p) \/ LinkOld(p) \/ LinkLooked(p) \/ LinkEntry(p) \/ LinkNoRoom(p) \/ LinkCount(p)
  BY <1>8, NameiKeeps, LinkOldKeeps, LinkLookedKeeps, LinkEntryKeeps, LinkNoRoomKeeps, LinkCountKeeps
<1>9. QED
  BY <1>1, <1>2, <1>3, <1>4, <1>5, <1>6, <1>7, <1>8

(* When all calls have returned, only open files are held.                 *)
LEMMA QuietCounts ==
  ASSUME UsersInv
  PROVE  UsersCounted
<1>1. SUFFICES ASSUME Quiet, NEW s \in Slots
               PROVE  table[s].count = Cardinality({p \in Proc : at[p].file = s})
                                         + (IF s = Root THEN 4 ELSE 0)
  BY DEF UsersCounted
<1>2. \A p \in Proc : Holding(at[p]) = Places(at[p].file, NoSlot, NoSlot, NoSlot, NoSlot, NoSlot)
  <2>1. \A p \in Proc : Good(at[p]) /\ at[p].pc = "user"
    BY <1>1 DEF UsersInv, Quiet
  <2>2. QED
    BY <2>1, AsUser
<1>3. Cardinality(Uses(s)) = Cardinality({p \in Proc : at[p].file = s})
  BY <1>1, <1>2, OpenFiles, DirectoriesAssumption DEF UsersInv
<1>4. QED
  BY <1>1, <1>3 DEF UsersInv

(* The use count of every slot is the number of places where a process     *)
(* holds the slot, in every state: iget, new_inode and iput, and every     *)
(* error path of the calls in fs/namei.c, fs/open.c and fs/inode.c, take   *)
(* and give back in pairs.                                                 *)
THEOREM UsersAlways == FsSpec => []UsersInv
<1>1. mount_root => UsersInv
  BY MountCounts
<1>2. UsersInv /\ [FsNext]_fsvars => UsersInv'
  <2>1. UsersInv /\ FsNext => UsersInv'
    BY StepKeeps
  <2>2. UsersInv /\ UNCHANGED fsvars => UsersInv'
    BY Rests DEF fsvars, vars
  <2>3. QED
    BY <2>1, <2>2
<1>3. QED
  BY <1>1, <1>2, PTL DEF FsSpec

(* Once all calls have returned, the use counts of the inode table are     *)
(* those of the open files and of the root: no call of any history loses   *)
(* an inode, or gives one back twice.                                      *)
THEOREM UsersAreCounted == FsSpec => []UsersCounted
<1>1. UsersInv => UsersCounted
  BY QuietCounts
<1>2. QED
  BY <1>1, UsersAlways, PTL
=============================================================================
