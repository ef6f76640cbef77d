------------------------------- MODULE Cipher -------------------------------
(***************************************************************************)
(* The pure functions of transparent encryption: the hash of a key and the *)
(* columnar transposition of a block (kernel/sys.c, fs/file_dev.c), and    *)
(* the text of the list of encrypted files, "<inode> <hash>,<inode> ...".  *)
(* A key is a sequence of character codes, a block a function on           *)
(* 0..BLOCK_SIZE - 1, a text a sequence of digits, Space and Comma.        *)
(***************************************************************************)
EXTENDS Integers, Sequences, FiniteSets, FiniteSetsExt, SequencesExt

CONSTANT BLOCK_SIZE

ASSUME BlockAssumption == BLOCK_SIZE \in Nat \ {0}

Space == 10
Comma == 11

\* hashString: deg is 37^i mod 1050737.
hashString(string) ==
  FoldLeft(LAMBDA acc, c : [hash |-> (acc.hash + c * acc.deg) % 1050737,
                            deg |-> (acc.deg * 37) % 1050737],
           [hash |-> 0, deg |-> 37], string).hash

---------------------------------------------------------------------------
Swapped(s, i, j) == [s EXCEPT ![i] = s[j], ![j] = s[i]]

\* Where the exchange sort of the key's characters takes the columns from:
\* keyIdx after the loops of dekriptuj, which compare places i < j.
SortStep(acc, i, j) ==
  IF i < j /\ acc.tmp[i] > acc.tmp[j]
    THEN [tmp |-> Swapped(acc.tmp, i, j), idx |-> Swapped(acc.idx, i, j)]
    ELSE acc

Columns(key) ==
  LET n == Len(key)
      sorted[q \in 0..(n * n)] ==
        IF q = 0 THEN [tmp |-> key, idx |-> [i \in 1..n |-> i - 1]]
        ELSE SortStep(sorted[q - 1], ((q - 1) \div n) + 1, ((q - 1) % n) + 1)
  IN sorted[n * n].idx

\* The block is written row by row, its columns sorted, and read column by
\* column.
enkriptuj(in, key) ==
  LET col == Len(key)
      row == BLOCK_SIZE \div col
      idx == Columns(key)
  IN [n \in 0..(BLOCK_SIZE - 1) |-> in[(n % row) * col + idx[(n \div row) + 1]]]

\* A broken variant: columns go back to where sorting took them, not from.
dekriptujForward(in, key) ==
  LET col == Len(key)
      row == BLOCK_SIZE \div col
      idx == Columns(key)
  IN [n \in 0..(BLOCK_SIZE - 1) |-> in[idx[(n % col) + 1] * row + n \div col]]

dekriptuj(in, key) ==
  LET col == Len(key)
      row == BLOCK_SIZE \div col
      idx == Columns(key)
      from(c) == CHOOSE j \in 1..col : idx[j] = c
  IN [n \in 0..(BLOCK_SIZE - 1) |->
        in[(from(n % col) - 1) * row + n \div col]]

---------------------------------------------------------------------------
\* brojToString: the decimal digits of a number.
brojToString(broj) ==
  LET len == Min({n \in 1..7 : broj < 10^n})
  IN [d \in 1..len |-> (broj \div 10^(len - d)) % 10]

Number(digits) == FoldLeft(LAMBDA n, d : 10 * n + d, 0, digits)

\* doesItContainString: the first place where small occurs in big, or 0.
doesItContainString(big, small) ==
  LET at == {i \in 1..(Len(big) - Len(small) + 1) :
               SubSeq(big, i, i + Len(small) - 1) = small}
  IN IF at = {} THEN 0 ELSE Min(at)

\* shiftStringToLeft: howMuch characters from place from on are cut out.
shiftStringToLeft(text, from, howMuch) ==
  SubSeq(text, 1, from - 1) \o SubSeq(text, from + howMuch, Len(text))

\* The entries of a text, as isItInTheFile reads them: what lies between
\* commas, each with one space in it.
Entries(text) ==
  LET marks == {i \in 1..Len(text) : text[i] >= Space}
      before(i) == Max({0} \cup {m \in marks : m < i})
  IN {[end |-> i, num |-> Number(SubSeq(text, before(before(i)) + 1, before(i) - 1)),
       hash |-> Number(SubSeq(text, before(i) + 1, i - 1))] :
        i \in {m \in marks : text[m] = Comma}}

\* Whether the parser can read the text: every entry has its space, and no
\* filler is met.
WellFormed(text) ==
  LET spaces == SelectSeq(text, LAMBDA c : c \in {Space, Comma})
  IN /\ Len(spaces) % 2 = 0
     /\ \A i \in 1..Len(spaces) :
          spaces[i] = IF i % 2 = 1 THEN Space ELSE Comma
     /\ text = <<>> \/ (text[1] < Space /\ Last(text) = Comma)

\* isItInTheFile: the hash noted first for inode num, or -1.
isItInTheFile(text, num) ==
  LET found == {e \in Entries(text) : e.num = num}
  IN IF found = {} THEN -1
     ELSE (CHOOSE e \in found : \A o \in found : e.end <= o.end).hash

\* upisiUFajl: an entry is appended.
upisiUFajl(text, num, hash) ==
  text \o brojToString(num) \o <<Space>> \o brojToString(hash) \o <<Comma>>

\* izbrisiIzFajla cuts out as many characters as the entry has, from the
\* first place where the digits of the number occur, in whatever entry.
izbrisiIzFajla(text, num, duzinaHesha) ==
  LET at == doesItContainString(text, brojToString(num))
  IN IF at = 0 THEN text
     ELSE shiftStringToLeft(text, at,
                            Len(brojToString(num)) + 2 + duzinaHesha)
=============================================================================
