------------------------------ MODULE Console ------------------------------
(***************************************************************************)
(* The console of kernel/console.c: con_write's parser of escape sequences,*)
(* the cursor, the scrolling region, and a screen that is a window of      *)
(* lines * columns cells into the video memory.  Scrolling the whole       *)
(* screen slides the window; at the end of the memory it is copied back.   *)
(*                                                                         *)
(* con_write is interrupted by other writers only between characters here: *)
(* a step is a character.  Cells are counted, not bytes; colours are kept  *)
(* for the parser but not in the cells.                                    *)
(***************************************************************************)
EXTENDS Integers, Sequences, FiniteSets

CONSTANTS
  columns, lines,
  SCREEN_CELLS,     \* the size of the video memory
  TAB,              \* the distance of tab stops, 8
  Letters,          \* printable characters that mean nothing else
  Digits,           \* digits that parameters are made of
  NPAR,             \* parameters of a sequence
  Seven, Eight      \* the codes of '7' and '8'

ASSUME ConsoleAssumption ==
  /\ columns \in Nat \ {0} /\ lines \in Nat \ {0, 1} /\ NPAR \in Nat \ {0, 1}
  /\ SCREEN_CELLS \in Nat /\ SCREEN_CELLS >= (lines + 1) * columns
  /\ TAB \in Nat \ {0} /\ columns % TAB = 0
  /\ Digits \subseteq 0..9 /\ {Seven, Eight} \subseteq Nat

VARIABLE con    \* the static variables of console.c, and the memory mem

Blank == " "
Stale == "stale"        \* what was left outside the window
Cells == 0..(SCREEN_CELLS - 1)
Window(k) == k.origin..(k.origin + lines * columns - 1)

ConInit ==
  con = [origin |-> 0, x |-> 0, y |-> 0, pos |-> 0, top |-> 0,
         bottom |-> lines, state |-> 0, npar |-> 0,
         par |-> [n \in 0..(NPAR - 1) |-> 0], attr |-> 7,
         saved_x |-> 0, saved_y |-> 0,
         mem |-> [c \in Cells |-> IF c < lines * columns THEN Blank ELSE Stale]]

\* What lies outside the window is never shown again.
Forget(k) ==
  [k EXCEPT !.mem = [c \in Cells |-> IF c \in Window(k) THEN @[c] ELSE Stale]]

Fill(k, from, count) ==
  [k EXCEPT !.mem = [c \in Cells |-> IF c \in from..(from + count - 1)
                                       THEN Blank ELSE @[c]]]

\* count cells are copied from one place to another, as if all at once.
CopyCells(k, from, to, count) ==
  [k EXCEPT !.mem = [c \in Cells |-> IF c \in to..(to + count - 1)
                                       THEN @[c - to + from] ELSE @[c]]]

gotoxy(k, new_x, new_y) ==
  IF new_x \notin 0..(columns - 1) \/ new_y \notin 0..(lines - 1) THEN k
  ELSE [k EXCEPT !.x = new_x, !.y = new_y,
                 !.pos = k.origin + new_y * columns + new_x]

\* The window, past the end of the memory, is copied to its start.
Rewind(k) ==
  Fill([CopyCells(k, k.origin, 0, (lines - 1) * columns)
          EXCEPT !.pos = @ - k.origin, !.origin = 0],
       (lines - 1) * columns, columns)

\* A broken variant: the line that comes into view is not blanked.
SlideUncleared(k) == k
Slide(k) == Fill(k, k.origin + (lines - 1) * columns, columns)

scrup(k) ==
  IF k.top = 0 /\ k.bottom = lines
    THEN LET m == [k EXCEPT !.origin = @ + columns, !.pos = @ + columns]
         IN Forget(IF m.origin + lines * columns > SCREEN_CELLS
                     THEN Rewind(m) ELSE Slide(m))
    ELSE Fill(CopyCells(k, k.origin + columns * (k.top + 1),
                        k.origin + columns * k.top,
                        (k.bottom - k.top - 1) * columns),
              k.origin + columns * (k.bottom - 1), columns)

scrdown(k) ==
  Fill(CopyCells(k, k.origin + columns * k.top,
                 k.origin + columns * (k.top + 1),
                 (k.bottom - k.top - 1) * columns),
       k.origin + columns * k.top, columns)

lf(k) ==
  IF k.y + 1 < k.bottom THEN [k EXCEPT !.y = @ + 1, !.pos = @ + columns]
  ELSE scrup(k)

ri(k) ==
  IF k.y > k.top THEN [k EXCEPT !.y = @ - 1, !.pos = @ - columns]
  ELSE scrdown(k)

cr(k) == [k EXCEPT !.pos = @ - k.x, !.x = 0]

Left(k) == IF k.x = 0 THEN k ELSE [k EXCEPT !.x = @ - 1, !.pos = @ - 1]

del(k) == IF k.x = 0 THEN k ELSE Fill(Left(k), k.pos - 1, 1)

save_cur(k) == [k EXCEPT !.saved_x = k.x, !.saved_y = k.y]
restore_cur(k) ==
  [k EXCEPT !.x = k.saved_x, !.y = k.saved_y,
            !.pos = k.origin + k.saved_y * columns + k.saved_x]

\* The cursor is past the last column: it goes to the next line.
Wrap(k) == lf([k EXCEPT !.x = @ - columns, !.pos = @ - columns])

\* State 0: a printable character, a control character.
Shown(k, g) ==
  LET m == IF k.x >= columns THEN Wrap(k) ELSE k
  IN [m EXCEPT !.mem[m.pos] = g, !.pos = @ + 1, !.x = @ + 1]

Tabbed(k) ==
  LET m == [k EXCEPT !.x = @ + TAB - (k.x % TAB), !.pos = @ + TAB - (k.x % TAB)]
  IN IF m.x > columns THEN Wrap(m) ELSE m

---------------------------------------------------------------------------
(* Sequences.                                                              *)

\* At least one, at most limit.
Count(nr, limit) == IF nr > limit THEN limit ELSE IF nr = 0 THEN 1 ELSE nr

csi_J(k, p) ==
  CASE p = 0 -> Fill(k, k.pos, k.origin + lines * columns - k.pos)
    [] p = 1 -> Fill(k, k.origin, k.pos - k.origin)
    [] p = 2 -> Fill(k, k.origin, lines * columns)
    [] OTHER -> k

csi_K(k, p) ==
  CASE p = 0 -> IF k.x >= columns THEN k ELSE Fill(k, k.pos, columns - k.x)
    [] p = 1 -> Fill(k, k.pos - k.x, k.x)
    [] p = 2 -> Fill(k, k.pos - k.x, columns)
    [] OTHER -> k

csi_m(k) ==
  LET Colour(n) == CASE n \in {0, 27} -> 7 [] n \in {1, 4} -> 15 [] n = 7 -> 112
                     [] OTHER -> 0
      set == {n \in 0..k.npar : Colour(k.par[n]) # 0}
  IN IF set = {} THEN k
     ELSE [k EXCEPT !.attr = Colour(k.par[CHOOSE n \in set :
                                            \A m \in set : m <= n])]

\* insert_char and delete_char.
csi_at(k, nr) ==
  LET n == Count(nr, columns)
      rest == columns - k.x
  IN IF n >= rest THEN Fill(k, k.pos, rest)
     ELSE Fill(CopyCells(k, k.pos, k.pos + n, rest - n), k.pos, n)
csi_P(k, nr) ==
  LET n == Count(nr, columns)
      rest == columns - k.x
  IN IF n >= rest THEN Fill(k, k.pos, rest)
     ELSE Fill(CopyCells(k, k.pos + n, k.pos, rest - n), k.pos + rest - n, n)

\* insert_line and delete_line work on the lines from the cursor to the last
\* one; deleting in the first line is scrolling the whole screen.
FromCursor(k) == [k EXCEPT !.top = k.y, !.bottom = lines]
KeepRegion(k, m) == [m EXCEPT !.top = k.top, !.bottom = k.bottom]
InsertLine(k) == KeepRegion(k, scrdown(FromCursor(k)))
DeleteLine(k) == KeepRegion(k, scrup(FromCursor(k)))

csi_L(k, nr) ==
  LET f[i \in 0..lines] == IF i = 0 THEN k ELSE InsertLine(f[i - 1])
  IN f[Count(nr, lines)]
csi_M(k, nr) ==
  LET f[i \in 0..lines] == IF i = 0 THEN k ELSE DeleteLine(f[i - 1])
  IN f[Count(nr, lines)]

\* The scrolling region.
Region(k) ==
  LET t == IF k.par[0] > 0 THEN k.par[0] - 1 ELSE 0
      b == IF k.par[1] = 0 THEN lines ELSE k.par[1]
  IN IF t < b /\ b <= lines THEN [k EXCEPT !.top = t, !.bottom = b] ELSE k

\* State 4: the last character of a sequence.
Final(k, c) ==
  LET p == k.par[0]
      one == IF p = 0 THEN 1 ELSE p
      less(n) == IF n > 0 THEN n - 1 ELSE 0
  IN CASE c = "G" -> gotoxy(k, less(p), k.y)
       [] c = "A" -> gotoxy(k, k.x, k.y - one)
       [] c = "B" -> gotoxy(k, k.x, k.y + one)
       [] c = "C" -> gotoxy(k, k.x + one, k.y)
       [] c = "D" -> gotoxy(k, k.x - one, k.y)
       [] c = "E" -> gotoxy(k, 0, k.y + one)
       [] c = "F" -> gotoxy(k, 0, k.y - one)
       [] c = "d" -> gotoxy(k, k.x, less(p))
       [] c = "H" -> gotoxy(k, less(k.par[1]), less(p))
       [] c = "J" -> csi_J(k, p)
       [] c = "K" -> csi_K(k, p)
       [] c = "L" -> csi_L(k, p)
       [] c = "M" -> csi_M(k, p)
       [] c = "P" -> csi_P(k, p)
       [] c = "@" -> csi_at(k, p)
       [] c = "m" -> csi_m(k)
       [] c = "r" -> Region(k)
       [] c = "s" -> save_cur(k)
       [] c = "u" -> restore_cur(k)
       [] OTHER -> k

Finals == {"G", "A", "B", "C", "D", "E", "F", "d", "H", "J", "K", "L", "M",
           "P", "@", "m", "r", "s", "u"}

---------------------------------------------------------------------------
(* con_write: one character.                                               *)

Show == con.state = 0 /\ \E g \in Letters : con' = Shown(con, g)

Control ==
  /\ con.state = 0
  /\ \E f \in {"ESC", "LF", "CR", "DEL", "BS", "TAB"} :
       con' = CASE f = "ESC" -> [con EXCEPT !.state = 1]
                [] f = "LF" -> lf(con)
                [] f = "CR" -> cr(con)
                [] f = "DEL" -> del(con)
                [] f = "BS" -> Left(con)
                [] f = "TAB" -> Tabbed(con)

\* After ESC.  The code compares the column, not the character, with '7' and
\* '8'; it does so for any character that is none of the others.
Escape ==
  /\ con.state = 1
  /\ LET k == [con EXCEPT !.state = 0]
     IN \/ con' = [k EXCEPT !.state = 2]
        \/ con' = gotoxy(k, 0, k.y + 1)
        \/ con' = ri(k)
        \/ con' = lf(k)
        \/ con' = IF k.x = Seven THEN save_cur(k)
                  ELSE IF k.x = Eight THEN restore_cur(k) ELSE k

\* After ESC [ the parameters are cleared; a '?' is skipped, any other
\* character belongs to the sequence already.
Parameter(k) ==
  \/ /\ k.npar < NPAR - 1
     /\ con' = [k EXCEPT !.npar = @ + 1]
  \/ \E d \in Digits :
       /\ k.par[k.npar] = 0             \* bound: one digit
       /\ con' = [k EXCEPT !.par[k.npar] = 10 * @ + d]
  \/ \E c \in Finals \cup {"other"} :
       con' = Final([k EXCEPT !.state = 0], c)

Bracket ==
  /\ con.state = 2
  /\ LET k == [con EXCEPT !.state = 3, !.npar = 0,
                          !.par = [n \in 0..(NPAR - 1) |-> 0]]
     IN con' = k \/ Parameter(k)

Parameters == con.state = 3 /\ Parameter(con)

ConNext == Show \/ Control \/ Escape \/ Bracket \/ Parameters

ConSpec == ConInit /\ [][ConNext]_con

---------------------------------------------------------------------------
(* Properties.                                                             *)

\* The console shows a screen: what is seen changes as module Screen says,
\* wherever in memory the window lies and also when it is copied back.
Seen == INSTANCE Screen
          WITH Width <- columns, Height <- lines, Glyph <- Letters,
               cell <- [r \in 0..(lines - 1) |-> [c \in 0..(columns - 1) |->
                          con.mem[con.origin + r * columns + c]]],
               cx <- con.x, cy <- con.y

ShowsScreen == Seen!Spec
=============================================================================
