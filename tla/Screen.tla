------------------------------- MODULE Screen -------------------------------
(***************************************************************************)
(* What a terminal's screen promises: a matrix of cells and a cursor.  A   *)
(* character appears where the cursor is; apart from that lines move up    *)
(* and down within a range of lines, and cells are erased or shifted in    *)
(* the line of the cursor.  Module Console implements it with a window     *)
(* that slides over the video memory.                                      *)
(***************************************************************************)
EXTENDS Naturals

CONSTANTS Width, Height, Glyph, Blank

VARIABLES
  cell,     \* cell[r][c]
  cx, cy    \* the cursor; cx = Width after the last column was written

screenVars == <<cell, cx, cy>>

Rows == 0..(Height - 1)
Cols == 0..(Width - 1)
Empty == [c \in Cols |-> Blank]

Init == cell = [r \in Rows |-> Empty] /\ cx \in Cols /\ cy \in Rows

Cursor == cx' \in 0..Width /\ cy' \in Rows

\* Lines t to b - 1 move up or down by n.
Up(t, b, n) ==
  [r \in Rows |-> IF r \notin t..(b - 1) THEN cell[r]
                  ELSE IF r + n < b THEN cell[r + n] ELSE Empty]
Down(t, b, n) ==
  [r \in Rows |-> IF r \notin t..(b - 1) THEN cell[r]
                  ELSE IF r >= t + n THEN cell[r - n] ELSE Empty]

Move == Cursor /\ UNCHANGED cell

\* A character after the last column goes to the next line, for which lines
\* may have to move up.
Type ==
  /\ \E g \in Glyph :
       \/ /\ cx < Width
          /\ cell' = [cell EXCEPT ![cy][cx] = g]
          /\ cx' = cx + 1 /\ cy' = cy
       \/ /\ cx = Width /\ cx' = 1
          /\ \/ /\ cy' = cy + 1 /\ cy' \in Rows
                /\ cell' = [cell EXCEPT ![cy'][0] = g]
             \/ /\ cy' = cy
                /\ \E t \in Rows, b \in 1..Height :
                     cell' = [Up(t, b, 1) EXCEPT ![cy][0] = g]

Scroll ==
  /\ \E t \in Rows, b \in 1..Height, n \in 1..Height :
       t < b /\ cell' \in {Up(t, b, n), Down(t, b, n)}
  /\ Cursor

\* Cells are blanked from the cursor on, or up to it, in its line or on the
\* whole screen; or all of them.
Erase ==
  /\ cell' \in {[r \in Rows |-> [c \in Cols |->
                   IF gone[<<r, c>>] THEN Blank ELSE cell[r][c]]] :
                 gone \in {[p \in Rows \X Cols |->
                              p[1] > cy \/ (p[1] = cy /\ p[2] >= cx)],
                           [p \in Rows \X Cols |->
                              p[1] < cy \/ (p[1] = cy /\ p[2] < cx)],
                           [p \in Rows \X Cols |-> p[1] = cy /\ p[2] >= cx],
                           [p \in Rows \X Cols |-> p[1] = cy /\ p[2] < cx],
                           [p \in Rows \X Cols |-> p[1] = cy],
                           [p \in Rows \X Cols |-> TRUE]}}
  /\ UNCHANGED <<cx, cy>>

\* Back over a character, which disappears.
RubOut ==
  /\ cx > 0 /\ cx' = cx - 1 /\ cy' = cy
  /\ cell' = [cell EXCEPT ![cy][cx - 1] = Blank]

\* The rest of the line moves right or left by n.
Shift ==
  /\ \E n \in 1..Width :
       cell' \in {[cell EXCEPT ![cy] = [c \in Cols |->
                     IF c < cx THEN @[c] ELSE IF c < cx + n THEN Blank ELSE @[c - n]]],
                  [cell EXCEPT ![cy] = [c \in Cols |->
                     IF c < cx THEN @[c] ELSE IF c + n < Width THEN @[c + n] ELSE Blank]]}
  /\ UNCHANGED <<cx, cy>>

Next == Move \/ Type \/ Scroll \/ Erase \/ RubOut \/ Shift

Spec == Init /\ [][Next]_screenVars
=============================================================================
