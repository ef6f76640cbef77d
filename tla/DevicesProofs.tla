---------------------------- MODULE DevicesProofs ----------------------------
(***************************************************************************)
(* Proofs about what sys_read and sys_write choose between: the keyboard   *)
(* is in step with its keys, a serial line counts its lines and lets       *)
(* nobody sleep for what is there, and of encrypted files that the keys of *)
(* processes expire and that what a key encrypts it decrypts; and that the *)
(* console shows a screen.                                                 *)
(***************************************************************************)
EXTENDS EncryptedFiles, Tty, Console, Keyboard, Counting

---------------------------------------------------------------------------
(* The keyboard.                                                           *)

\* What a queue holds are whole sequences, but for the front of the first.
Rowed(q) ==
  \A i \in 1..Len(q) :
    IF i = Len(q) THEN q[i].part = q[i].of
    ELSE q[i + 1].part = IF q[i].part = q[i].of THEN 1 ELSE q[i].part + 1

InOrder == (\E S : key_queue \in Seq(S)) /\ Rowed(key_queue)

\* The modifier bits are those of the keys in S.
Shows(S) == mode \cap Modifiers = S \cap Modifiers

\* All is read.
Settled == wire = <<>> /\ e0 = 0 /\ Shows(held)

\* The codes of k, which went down or came up, are not all read.
Coming(k, down) ==
  /\ down <=> k \in held
  /\ Shows(IF down THEN held \ {k} ELSE held \cup {k})
  /\ \/ wire = Codes(k, down) /\ e0 = 0
     \/ k \in Extended /\ wire = <<Scan(Code(k), down)>> /\ e0 = 1

\* Of the codes of the pause key so many are left: its ctrl is the right one.
Pausing ==
  /\ held \cap {"lctrl", "rctrl"} = {}
  /\ \/ /\ wire = <<Scan("e1", TRUE), Scan("lctrl", TRUE), Scan("num", TRUE),
                    Scan("e1", TRUE), Scan("lctrl", FALSE), Scan("num", FALSE)>>
        /\ e0 = 0 /\ Shows(held)
     \/ /\ wire = <<Scan("lctrl", TRUE), Scan("num", TRUE), Scan("e1", TRUE),
                    Scan("lctrl", FALSE), Scan("num", FALSE)>>
        /\ e0 = 2 /\ Shows(held)
     \/ /\ wire = <<Scan("num", TRUE), Scan("e1", TRUE), Scan("lctrl", FALSE),
                    Scan("num", FALSE)>>
        /\ e0 = 0 /\ Shows(held \cup {"rctrl"})
     \/ /\ wire = <<Scan("e1", TRUE), Scan("lctrl", FALSE), Scan("num", FALSE)>>
        /\ e0 = 0 /\ Shows(held \cup {"rctrl"})
     \/ /\ wire = <<Scan("lctrl", FALSE), Scan("num", FALSE)>>
        /\ e0 = 2 /\ Shows(held \cup {"rctrl"})
     \/ /\ wire = <<Scan("num", FALSE)>>
        /\ e0 = 0 /\ Shows(held)

KbdInv ==
  /\ InOrder
  /\ selected_layout \in 0..(layouts_num - 1)
  /\ held \subseteq KeyboardKeys
  /\ Settled \/ Pausing \/ \E k \in KeyboardKeys, down \in BOOLEAN : Coming(k, down)

(* The characters of a key follow on those of the keys before it.          *)
LEMMA RowsJoin ==
  ASSUME NEW S, NEW q \in Seq(S), Rowed(q), NEW n \in Nat \ {0}, NEW what
  PROVE  /\ \E T : q \o Chars(n, what) \in Seq(T)
         /\ Rowed(q \o Chars(n, what))
<1> DEFINE r == Chars(n, what)
           T == {r[i] : i \in 1..n}
<1>1. r \in Seq(T) /\ Len(r) = n
  <2>1. r = [i \in 1..n |-> [part |-> i, of |-> n, what |-> what]]
    BY DEF Chars
  <2>2. \A i \in 1..n : r[i] \in T
    OBVIOUS
  <2> HIDE DEF T
  <2>3. r \in [1..n -> T]
    BY <2>1, <2>2
  <2> HIDE DEF r
  <2>4. QED
    BY <2>3
<1>2. \A i \in 1..n : r[i].part = i /\ r[i].of = n
  BY DEF Chars
<1> HIDE DEF r, T
<1>3. q \o r \in Seq(S \cup T) /\ Len(q \o r) = Len(q) + n
  <2>1. q \in Seq(S \cup T) /\ r \in Seq(S \cup T)
    BY <1>1
  <2>2. QED
    BY <1>1, <2>1
<1>4. Len(q) \in Nat
  OBVIOUS
<1>5. \A i \in 1..(Len(q) + n) : (q \o r)[i] = IF i <= Len(q) THEN q[i] ELSE r[i - Len(q)]
  BY <1>1, <1>4
<1> DEFINE w == q \o r
           m == Len(q)
<1>6. /\ m \in Nat /\ Len(w) = m + n
      /\ \A i \in 1..m : w[i] = q[i]
      /\ \A i \in 1..n : w[m + i].part = i /\ w[m + i].of = n
  BY <1>2, <1>3, <1>4, <1>5
<1>7. \A i \in 1..m : IF i = m THEN q[i].part = q[i].of
                      ELSE q[i + 1].part = IF q[i].part = q[i].of THEN 1 ELSE q[i].part + 1
  BY DEF Rowed
<1> HIDE DEF w, m
<1>8. Rowed(w)
  <2> SUFFICES ASSUME NEW i \in 1..(m + n)
               PROVE  IF i = m + n THEN w[i].part = w[i].of
                      ELSE w[i + 1].part = IF w[i].part = w[i].of THEN 1 ELSE w[i].part + 1
    BY <1>6 DEF Rowed
  <2>1. CASE i < m
    <3>1. i \in 1..m /\ i + 1 \in 1..m /\ i # m /\ i # m + n
      BY <1>6, <2>1
    <3>2. w[i] = q[i] /\ w[i + 1] = q[i + 1]
      BY <1>6, <3>1
    <3>3. QED
      BY <1>7, <3>1, <3>2
  <2>2. CASE i = m
    <3>1. m \in 1..m /\ 1 \in 1..n
      BY <1>6, <2>2
    <3>2. w[m + 1].part = 1
      BY <1>6, <3>1
    <3>3. QED
      BY <1>6, <1>7, <2>2, <3>1, <3>2
  <2>3. CASE i > m
    <3>1. PICK j \in 1..n : i = m + j
      <4>1. i - m \in 1..n /\ i = m + (i - m)
        BY <1>6, <2>3
      <4>2. QED
        BY <4>1
    <3>2. w[i].part = j /\ w[i].of = n
      BY <1>6, <3>1
    <3>3. CASE j = n
      BY <1>6, <3>1, <3>2, <3>3
    <3>4. CASE j < n
      <4>1. w[m + (j + 1)].part = j + 1
        BY <1>6, <3>4
      <4>2. m + (j + 1) = i + 1
        BY <1>6, <3>1
      <4>3. QED
        BY <1>6, <3>1, <3>2, <3>4, <4>1, <4>2
    <3>5. QED
      BY <3>3, <3>4
  <2>4. QED
    BY <1>6, <2>1, <2>2, <2>3
<1>9. QED
  BY <1>3, <1>8 DEF w, r

(* Taking characters off the front leaves the others in order.             *)
LEMMA RowsTaken ==
  ASSUME NEW S, NEW q \in Seq(S), Rowed(q), NEW n \in 1..Len(q)
  PROVE  /\ SubSeq(q, n + 1, Len(q)) \in Seq(S)
         /\ Rowed(SubSeq(q, n + 1, Len(q)))
<1> DEFINE w == SubSeq(q, n + 1, Len(q))
           m == Len(q)
<1>1. m \in Nat /\ w \in Seq(S) /\ Len(w) = m - n
  OBVIOUS
<1>2. \A i \in 1..(m - n) : w[i] = q[n + i]
  OBVIOUS
<1>3. \A i \in 1..m : IF i = m THEN q[i].part = q[i].of
                      ELSE q[i + 1].part = IF q[i].part = q[i].of THEN 1 ELSE q[i].part + 1
  BY DEF Rowed
<1>4. n \in 1..m
  OBVIOUS
<1> HIDE DEF w, m
<1>5. Rowed(w)
  <2> SUFFICES ASSUME NEW i \in 1..(m - n)
               PROVE  IF i = m - n THEN w[i].part = w[i].of
                      ELSE w[i + 1].part = IF w[i].part = w[i].of THEN 1 ELSE w[i].part + 1
    BY <1>1 DEF Rowed
  <2>1. w[i] = q[n + i] /\ n + i \in 1..m
    BY <1>1, <1>2, <1>4
  <2>2. CASE i = m - n
    BY <1>1, <1>3, <1>4, <2>1, <2>2
  <2>3. CASE i < m - n
    <3>1. w[i + 1] = q[(n + i) + 1]
      <4>1. i + 1 \in 1..(m - n) /\ n + (i + 1) = (n + i) + 1
        BY <1>1, <1>4, <2>3
      <4>2. w[i + 1] = q[n + (i + 1)]
        BY <1>2, <4>1
      <4>3. QED
        BY <4>1, <4>2
    <3>2. QED
      BY <1>1, <1>3, <1>4, <2>1, <2>3, <3>1
  <2>4. QED
    BY <1>1, <1>4, <2>2, <2>3
<1>6. QED
  BY <1>1, <1>5 DEF w

(* A key's characters are put in the queue all together or not at all.     *)
LEMMA PutInOrder ==
  ASSUME InOrder, NEW n \in Nat \ {0}, NEW what, put_queue(Chars(n, what))
  PROVE  InOrder'
<1>1. PICK S : key_queue \in Seq(S)
  BY DEF InOrder
<1>2. key_queue' = key_queue \o Chars(n, what) \/ key_queue' = key_queue
  BY DEF put_queue
<1>3. CASE key_queue' = key_queue
  BY <1>3 DEF InOrder
<1>4. CASE key_queue' = key_queue \o Chars(n, what)
  BY <1>1, <1>4, RowsJoin DEF InOrder
<1>5. QED
  BY <1>2, <1>3, <1>4

\* The modifier bit that the code of k sets and clears, if it has one, is the
\* one of k.
Moved(k, down) ==
  mode' \cap Modifiers = (IF down THEN mode \cup {k} ELSE mode \ {k}) \cap Modifiers

(* No key puts characters out of order, selects a layout that there is not *)
(* or moves a bit that is not its own.                                     *)
LEMMA Presses ==
  ASSUME InOrder, selected_layout \in 0..(layouts_num - 1), NEW down \in BOOLEAN
  PROVE  /\ Ctrl(down) => /\ InOrder' /\ selected_layout' = selected_layout
                          /\ mode' = IF down THEN mode \cup {IF e0 = 0 THEN "lctrl" ELSE "rctrl"}
                                     ELSE mode \ {IF e0 = 0 THEN "lctrl" ELSE "rctrl"}
         /\ Alt(down) => /\ InOrder' /\ selected_layout' = selected_layout
                         /\ mode' = IF down THEN mode \cup {IF e0 = 0 THEN "lalt" ELSE "altgr"}
                                    ELSE mode \ {IF e0 = 0 THEN "lalt" ELSE "altgr"}
         /\ LShift(down) => /\ InOrder' /\ selected_layout' \in 0..(layouts_num - 1)
                            /\ mode' = IF down THEN mode \cup {"lshift"} ELSE mode \ {"lshift"}
         /\ RShift(down) => /\ InOrder' /\ selected_layout' = selected_layout
                            /\ mode' = IF down THEN mode \cup {"rshift"} ELSE mode \ {"rshift"}
         /\ Caps(down) => /\ InOrder' /\ selected_layout' = selected_layout
                          /\ mode' \cap Modifiers = mode \cap Modifiers
         /\ Num(down) \/ Self(down) \/ Keypad(down) \/ Func(down) \/ Minus(down)
              => InOrder' /\ selected_layout' = selected_layout /\ mode' = mode
<1> USE DEF Modify, Side
<1>1. UNCHANGED key_queue => InOrder'
  BY DEF InOrder
<1>2. Ctrl(down) => /\ InOrder' /\ selected_layout' = selected_layout
                    /\ mode' = IF down THEN mode \cup {IF e0 = 0 THEN "lctrl" ELSE "rctrl"}
                               ELSE mode \ {IF e0 = 0 THEN "lctrl" ELSE "rctrl"}
  BY <1>1 DEF Ctrl
<1>3. Alt(down) => /\ InOrder' /\ selected_layout' = selected_layout
                   /\ mode' = IF down THEN mode \cup {IF e0 = 0 THEN "lalt" ELSE "altgr"}
                              ELSE mode \ {IF e0 = 0 THEN "lalt" ELSE "altgr"}
  BY <1>1 DEF Alt
<1>4. LShift(down) => /\ InOrder' /\ selected_layout' \in 0..(layouts_num - 1)
                      /\ mode' = IF down THEN mode \cup {"lshift"} ELSE mode \ {"lshift"}
  BY <1>1, KeyboardAssumption DEF LShift
<1>5. RShift(down) => /\ InOrder' /\ selected_layout' = selected_layout
                      /\ mode' = IF down THEN mode \cup {"rshift"} ELSE mode \ {"rshift"}
  BY <1>1 DEF RShift
<1>6. Caps(down) => /\ InOrder' /\ selected_layout' = selected_layout
                    /\ mode' \cap Modifiers = mode \cap Modifiers
  BY <1>1 DEF Caps, Modifiers
<1>7. Num(down) => InOrder' /\ selected_layout' = selected_layout /\ mode' = mode
  BY <1>1 DEF Num
<1>8. Self(down) => InOrder' /\ selected_layout' = selected_layout /\ mode' = mode
  BY <1>1, PutInOrder DEF Self
<1>9. Keypad(down) => InOrder' /\ selected_layout' = selected_layout /\ mode' = mode
  <2> SUFFICES ASSUME Keypad(down) PROVE InOrder'
    BY DEF Keypad
  <2>1. \/ UNCHANGED key_queue \/ put_queue(Chars(1, [kind |-> "digit"]))
        \/ \E n \in {3, 4} : put_queue(Chars(n, [kind |-> "cursor"]))
    BY DEF Keypad
  <2>2. QED
    BY <1>1, <2>1, PutInOrder
<1>10. Func(down) => InOrder' /\ selected_layout' = selected_layout /\ mode' = mode
  BY <1>1, PutInOrder DEF Func
<1>11. Minus(down) => InOrder' /\ selected_layout' = selected_layout /\ mode' = mode
  BY <1>1, <1>8, PutInOrder DEF Minus
<1>12. QED
  BY <1>2, <1>3, <1>4, <1>5, <1>6, <1>7, <1>8, <1>9, <1>10, <1>11

\* What the code of a key does, read with the prefix n before it.
Acted(k, down) ==
  /\ InOrder' /\ selected_layout' \in 0..(layouts_num - 1)
  /\ e0' = 0 /\ held' = held
  /\ Moved(k, down)

(* The code of a key moves the bit of that key, the prefix telling right   *)
(* from left.                                                              *)
LEMMA CodeRead ==
  ASSUME InOrder, selected_layout \in 0..(layouts_num - 1), NEW down \in BOOLEAN,
         NEW k \in KeyboardKeys, e0 = IF k \in Extended THEN 1 ELSE 0,
         wire # <<>>, Head(wire) = Scan(Code(k), down), keyboard_interrupt
  PROVE  Acted(k, down)
<1>1. k \notin {"e0", "e1"}
  BY KeyboardAssumption
<1> DEFINE c == Code(k)
<1>2. /\ c = IF k = "rctrl" THEN "lctrl" ELSE IF k = "altgr" THEN "lalt"
             ELSE IF k = "slash" THEN "minus" ELSE IF k = "cursor" THEN "keypad" ELSE k
      /\ e0 = IF k \in {"rctrl", "altgr", "slash", "cursor"} THEN 1 ELSE 0
  BY DEF Code, Extended
<1>3. Head(wire).key = c /\ Head(wire).down = down
  BY DEF Scan
<1> HIDE DEF c
<1>4. c \notin {"e0", "e1"}
  BY <1>1, <1>2
<1>5. /\ e0' = 0 /\ held' = held
      /\ c = "lctrl" => Ctrl(down)
      /\ c = "lalt" => Alt(down)
      /\ c = "lshift" => LShift(down)
      /\ c = "rshift" => RShift(down)
      /\ c = "caps" => Caps(down)
      /\ c = "num" => Num(down)
      /\ c = "keypad" => Keypad(down)
      /\ c = "func" => Func(down)
      /\ c = "minus" => Minus(down)
      /\ c \notin {"lctrl", "lalt", "lshift", "rshift", "caps", "num", "keypad", "func", "minus"}
           => Self(down)
  BY <1>3, <1>4 DEF keyboard_interrupt
<1> DEFINE P == Num(down) \/ Self(down) \/ Keypad(down) \/ Func(down) \/ Minus(down)
<1>6. /\ c = "lctrl" => k \in {"lctrl", "rctrl"} /\ k = IF e0 = 0 THEN "lctrl" ELSE "rctrl"
      /\ c = "lalt" => k \in {"lalt", "altgr"} /\ k = IF e0 = 0 THEN "lalt" ELSE "altgr"
      /\ c \in {"lshift", "rshift", "caps"} => k = c
      /\ c \notin {"lctrl", "lalt", "lshift", "rshift"} => k \notin Modifiers
  BY <1>2 DEF Modifiers
<1>7. CASE c \in {"lctrl", "lalt", "lshift", "rshift"}
  BY <1>5, <1>6, <1>7, Presses DEF Acted, Moved
<1>8. CASE c = "caps"
  BY <1>5, <1>6, <1>8, Presses DEF Acted, Moved
<1>9. CASE c \notin {"lctrl", "lalt", "lshift", "rshift", "caps"}
  <2>1. P
    BY <1>5, <1>9
  <2>2. InOrder' /\ selected_layout' = selected_layout /\ mode' = mode
    BY <2>1, Presses
  <2>3. QED
    BY <1>5, <1>6, <1>9, <2>2 DEF Acted, Moved
<1>10. QED
  BY <1>7, <1>8, <1>9

(* A prefix is noted and nothing else is done.                             *)
LEMMA PrefixRead ==
  ASSUME InOrder, selected_layout \in 0..(layouts_num - 1), wire # <<>>,
         NEW p \in {"e0", "e1"}, Head(wire) = Scan(p, TRUE), keyboard_interrupt
  PROVE  /\ InOrder' /\ selected_layout' \in 0..(layouts_num - 1)
         /\ e0' = IF p = "e0" THEN 1 ELSE 2
         /\ mode' = mode /\ held' = held
<1>1. Head(wire).key = p
  BY DEF Scan
<1>2. /\ e0' = IF p = "e0" THEN 1 ELSE 2
      /\ UNCHANGED <<mode, num_lock, holding_alt, selected_layout, key_queue>>
      /\ held' = held
  BY <1>1 DEF keyboard_interrupt
<1>3. QED
  BY <1>2 DEF InOrder

(* Inside the pause key's codes: its ctrl has the prefix e1.               *)
LEMMA PauseRead ==
  ASSUME InOrder, selected_layout \in 0..(layouts_num - 1), NEW down \in BOOLEAN,
         wire # <<>>, keyboard_interrupt
  PROVE  /\ Head(wire) = Scan("lctrl", down) /\ e0 = 2 => Acted("rctrl", down)
         /\ Head(wire) = Scan("num", down) /\ e0 = 0 => Acted("num", down)
<1>1. ASSUME Head(wire) = Scan("lctrl", down), e0 = 2 PROVE Acted("rctrl", down)
  <2>1. Ctrl(down) /\ e0' = 0 /\ held' = held
    BY <1>1 DEF keyboard_interrupt, Scan
  <2>2. QED
    BY <1>1, <2>1, Presses DEF Acted, Moved
<1>2. ASSUME Head(wire) = Scan("num", down), e0 = 0 PROVE Acted("num", down)
  <2>1. Num(down) /\ e0' = 0 /\ held' = held
    BY <1>2 DEF keyboard_interrupt, Scan
  <2>2. QED
    BY <2>1, Presses DEF Acted, Moved, Modifiers
<1>3. QED
  BY <1>1, <1>2

(* The tails of tuples, and tuples that are put together.                  *)
LEMMA Tails ==
  ASSUME NEW a, NEW b, NEW c, NEW d, NEW e, NEW f
  PROVE  /\ Tail(<<a, b, c, d, e, f>>) = <<b, c, d, e, f>>
         /\ Tail(<<b, c, d, e, f>>) = <<c, d, e, f>>
         /\ Tail(<<c, d, e, f>>) = <<d, e, f>>
         /\ Tail(<<d, e, f>>) = <<e, f>>
         /\ Tail(<<e, f>>) = <<f>> /\ Tail(<<f>>) = <<>>
         /\ <<>> \o <<f>> = <<f>> /\ <<e>> \o <<f>> = <<e, f>>
<1>1. Tail(<<a, b, c, d, e, f>>) = <<b, c, d, e, f>>
  OBVIOUS
<1>2. Tail(<<b, c, d, e, f>>) = <<c, d, e, f>>
  OBVIOUS
<1>3. Tail(<<c, d, e, f>>) = <<d, e, f>>
  OBVIOUS
<1>4. Tail(<<d, e, f>>) = <<e, f>>
  OBVIOUS
<1>5. Tail(<<e, f>>) = <<f>> /\ Tail(<<f>>) = <<>>
  OBVIOUS
<1>6. <<>> \o <<f>> = <<f>>
  OBVIOUS
<1>7. <<e>> \o <<f>> = <<e, f>>
  <2> DEFINE s == <<e>> \o <<f>>
             t == <<e, f>>
  <2>1. s \in Seq({e, f}) /\ t \in Seq({e, f})
    OBVIOUS
  <2>2. Len(s) = 2 /\ Len(t) = 2 /\ s[1] = t[1] /\ s[2] = t[2]
    OBVIOUS
  <2> HIDE DEF s, t
  <2>3. \A i \in 1..2 : s[i] = t[i]
    BY <2>2
  <2>4. s = t
    BY <2>1, <2>2, <2>3
  <2>5. QED
    BY <2>4 DEF s, t
<1>8. QED
  BY <1>1, <1>2, <1>3, <1>4, <1>5, <1>6, <1>7

(* The codes of the pause key, one after the other.                        *)
LEMMA PauseTails ==
  ASSUME NEW w
  PROVE  /\ w = <<Scan("e1", TRUE), Scan("lctrl", TRUE), Scan("num", TRUE),
                  Scan("e1", TRUE), Scan("lctrl", FALSE), Scan("num", FALSE)>>
            => /\ Head(w) = Scan("e1", TRUE)
               /\ Tail(w) = <<Scan("lctrl", TRUE), Scan("num", TRUE), Scan("e1", TRUE),
                              Scan("lctrl", FALSE), Scan("num", FALSE)>>
         /\ w = <<Scan("lctrl", TRUE), Scan("num", TRUE), Scan("e1", TRUE),
                  Scan("lctrl", FALSE), Scan("num", FALSE)>>
            => /\ Head(w) = Scan("lctrl", TRUE)
               /\ Tail(w) = <<Scan("num", TRUE), Scan("e1", TRUE), Scan("lctrl", FALSE),
                              Scan("num", FALSE)>>
         /\ w = <<Scan("num", TRUE), Scan("e1", TRUE), Scan("lctrl", FALSE),
                  Scan("num", FALSE)>>
            => /\ Head(w) = Scan("num", TRUE)
               /\ Tail(w) = <<Scan("e1", TRUE), Scan("lctrl", FALSE), Scan("num", FALSE)>>
         /\ w = <<Scan("e1", TRUE), Scan("lctrl", FALSE), Scan("num", FALSE)>>
            => /\ Head(w) = Scan("e1", TRUE)
               /\ Tail(w) = <<Scan("lctrl", FALSE), Scan("num", FALSE)>>
         /\ w = <<Scan("lctrl", FALSE), Scan("num", FALSE)>>
            => /\ Head(w) = Scan("lctrl", FALSE)
               /\ Tail(w) = <<Scan("num", FALSE)>>
<1> DEFINE a == Scan("e1", TRUE)
           b == Scan("lctrl", TRUE)
           c == Scan("num", TRUE)
           d == Scan("lctrl", FALSE)
           f == Scan("num", FALSE)
<1> HIDE DEF a, b, c, d, f
<1>1. /\ Tail(<<a, b, c, a, d, f>>) = <<b, c, a, d, f>>
      /\ Head(<<a, b, c, a, d, f>>) = a
  BY Tails
<1>2. Tail(<<b, c, a, d, f>>) = <<c, a, d, f>> /\ Head(<<b, c, a, d, f>>) = b
  BY Tails
<1>3. Tail(<<c, a, d, f>>) = <<a, d, f>> /\ Head(<<c, a, d, f>>) = c
  BY Tails
<1>4. Tail(<<a, d, f>>) = <<d, f>> /\ Head(<<a, d, f>>) = a
  BY Tails
<1>5. Tail(<<d, f>>) = <<f>> /\ Head(<<d, f>>) = d
  BY Tails
<1>6. QED
  BY <1>1, <1>2, <1>3, <1>4, <1>5 DEF a, b, c, d, f

(* A key goes down or comes up when all is settled.                        *)
LEMMA KeyMoves ==
  ASSUME KbdInv, Press \/ Release
  PROVE  KbdInv'
<1>1. wire = <<>> /\ UNCHANGED <<mode, e0, selected_layout, key_queue>>
  BY DEF Press, Release
<1>2. Settled
  <2>1. \A k, down : Codes(k, down) # <<>> /\ <<Scan(Code(k), down)>> # <<>>
    BY DEF Codes
  <2>2. QED
    BY <1>1, <2>1 DEF KbdInv, Pausing, Coming
<1>3. InOrder' /\ selected_layout' \in 0..(layouts_num - 1)
  BY <1>1 DEF KbdInv, InOrder
<1>4. PICK k \in KeyboardKeys, down \in BOOLEAN :
        /\ wire' = Codes(k, down)
        /\ IF down THEN k \notin held /\ held' = held \cup {k}
           ELSE k \in held /\ held' = held \ {k}
  BY DEF Press, Release, KbdInv
<1>5. Coming(k, down)'
  <2>1. down <=> k \in held'
    BY <1>4
  <2>2. (IF down THEN held' \ {k} ELSE held' \cup {k}) = held
    BY <1>4
  <2>3. Shows(IF down THEN held \ {k} ELSE held \cup {k})'
    BY <1>1, <1>2, <2>2 DEF Settled, Shows
  <2>4. QED
    BY <1>1, <1>2, <1>4, <2>1, <2>3 DEF Settled, Coming
<1>6. held' \subseteq KeyboardKeys
  BY <1>4 DEF KbdInv
<1>7. QED
  BY <1>3, <1>5, <1>6 DEF KbdInv

(* An interrupt reads the next code.                                       *)
LEMMA CodesRead ==
  ASSUME KbdInv, keyboard_interrupt
  PROVE  KbdInv'
<1>1. InOrder /\ selected_layout \in 0..(layouts_num - 1) /\ held \subseteq KeyboardKeys
  BY DEF KbdInv
<1>2. wire # <<>> /\ wire' = Tail(wire)
  BY DEF keyboard_interrupt
<1>3. ASSUME NEW k \in KeyboardKeys, NEW down \in BOOLEAN, Coming(k, down)
      PROVE  KbdInv'
  <2>1. CASE k \in Extended /\ wire = Codes(k, down) /\ e0 = 0
    <3>1. wire = <<Scan("e0", TRUE), Scan(Code(k), down)>>
      BY <2>1, Tails DEF Codes
    <3>2. Head(wire) = Scan("e0", TRUE) /\ wire' = <<Scan(Code(k), down)>>
      BY <1>2, <3>1
    <3>3. /\ InOrder' /\ selected_layout' \in 0..(layouts_num - 1)
          /\ e0' = 1 /\ mode' = mode /\ held' = held
      BY <1>1, <1>2, <3>2, PrefixRead
    <3>4. Coming(k, down)'
      BY <1>3, <2>1, <3>2, <3>3 DEF Coming, Shows
    <3>5. QED
      BY <1>1, <3>3, <3>4 DEF KbdInv
  <2>2. CASE ~(k \in Extended /\ wire = Codes(k, down) /\ e0 = 0)
    <3>1. wire = <<Scan(Code(k), down)>> /\ e0 = IF k \in Extended THEN 1 ELSE 0
      BY <1>3, <2>2, Tails DEF Coming, Codes
    <3>2. Head(wire) = Scan(Code(k), down) /\ wire' = <<>>
      BY <1>2, <3>1
    <3>3. Acted(k, down)
      BY <1>1, <1>2, <3>1, <3>2, CodeRead
    <3>4. Shows(held)'
      BY <1>3, <3>3 DEF Coming, Shows, Acted, Moved
    <3>5. QED
      BY <1>1, <3>2, <3>3, <3>4 DEF KbdInv, Settled, Acted
  <2>3. QED
    BY <2>1, <2>2
<1>4. ASSUME Pausing PROVE KbdInv'
  <2>1. held \cap {"lctrl", "rctrl"} = {}
    BY <1>4 DEF Pausing
  <2>2. CASE wire = <<Scan("e1", TRUE), Scan("lctrl", TRUE), Scan("num", TRUE),
                      Scan("e1", TRUE), Scan("lctrl", FALSE), Scan("num", FALSE)>>
    <3>1. /\ Head(wire) = Scan("e1", TRUE)
          /\ wire' = <<Scan("lctrl", TRUE), Scan("num", TRUE), Scan("e1", TRUE),
                       Scan("lctrl", FALSE), Scan("num", FALSE)>>
      BY <1>2, <2>2, PauseTails
    <3>2. Shows(held)
      BY <1>4, <2>2 DEF Pausing
    <3>3. QED
      BY <1>1, <1>2, <2>1, <3>1, <3>2, PrefixRead DEF KbdInv, Pausing, Shows
  <2>3. CASE wire = <<Scan("lctrl", TRUE), Scan("num", TRUE), Scan("e1", TRUE),
                      Scan("lctrl", FALSE), Scan("num", FALSE)>>
    <3>1. /\ Head(wire) = Scan("lctrl", TRUE)
          /\ wire' = <<Scan("num", TRUE), Scan("e1", TRUE), Scan("lctrl", FALSE),
                       Scan("num", FALSE)>>
      BY <1>2, <2>3, PauseTails
    <3>2. Shows(held) /\ e0 = 2
      BY <1>4, <2>3 DEF Pausing
    <3>3. Acted("rctrl", TRUE)
      BY <1>1, <1>2, <3>1, <3>2, PauseRead
    <3>4. Shows(held \cup {"rctrl"})'
      BY <3>2, <3>3 DEF Shows, Acted, Moved
    <3>5. QED
      BY <1>1, <2>1, <3>1, <3>3, <3>4 DEF KbdInv, Pausing, Acted
  <2>4. CASE wire = <<Scan("num", TRUE), Scan("e1", TRUE), Scan("lctrl", FALSE),
                      Scan("num", FALSE)>>
    <3>1. /\ Head(wire) = Scan("num", TRUE)
          /\ wire' = <<Scan("e1", TRUE), Scan("lctrl", FALSE), Scan("num", FALSE)>>
      BY <1>2, <2>4, PauseTails
    <3>2. Shows(held \cup {"rctrl"}) /\ e0 = 0
      BY <1>4, <2>4 DEF Pausing
    <3>3. Acted("num", TRUE)
      BY <1>1, <1>2, <3>1, <3>2, PauseRead
    <3>4. Shows(held \cup {"rctrl"})'
      BY <3>2, <3>3 DEF Shows, Acted, Moved, Modifiers
    <3>5. QED
      BY <1>1, <2>1, <3>1, <3>3, <3>4 DEF KbdInv, Pausing, Acted
  <2>5. CASE wire = <<Scan("e1", TRUE), Scan("lctrl", FALSE), Scan("num", FALSE)>>
    <3>1. /\ Head(wire) = Scan("e1", TRUE)
          /\ wire' = <<Scan("lctrl", FALSE), Scan("num", FALSE)>>
      BY <1>2, <2>5, PauseTails
    <3>2. Shows(held \cup {"rctrl"})
      BY <1>4, <2>5 DEF Pausing
    <3>3. QED
      BY <1>1, <1>2, <2>1, <3>1, <3>2, PrefixRead DEF KbdInv, Pausing, Shows
  <2>6. CASE wire = <<Scan("lctrl", FALSE), Scan("num", FALSE)>>
    <3>1. Head(wire) = Scan("lctrl", FALSE) /\ wire' = <<Scan("num", FALSE)>>
      BY <1>2, <2>6, PauseTails
    <3>2. Shows(held \cup {"rctrl"}) /\ e0 = 2
      BY <1>4, <2>6 DEF Pausing
    <3>3. Acted("rctrl", FALSE)
      BY <1>1, <1>2, <3>1, <3>2, PauseRead
    <3>4. Shows(held)'
      BY <2>1, <3>2, <3>3 DEF Shows, Acted, Moved
    <3>5. QED
      BY <1>1, <2>1, <3>1, <3>3, <3>4 DEF KbdInv, Pausing, Acted
  <2>7. CASE wire = <<Scan("num", FALSE)>>
    <3>1. Head(wire) = Scan("num", FALSE) /\ wire' = <<>>
      BY <1>2, <2>7
    <3>2. Shows(held) /\ e0 = 0
      BY <1>4, <2>7 DEF Pausing
    <3>3. Acted("num", FALSE)
      BY <1>1, <1>2, <3>1, <3>2, PauseRead
    <3>4. Shows(held)'
      BY <3>2, <3>3 DEF Shows, Acted, Moved, Modifiers
    <3>5. QED
      BY <1>1, <3>1, <3>3, <3>4 DEF KbdInv, Settled, Acted
  <2>8. QED
    BY <1>4, <2>2, <2>3, <2>4, <2>5, <2>6, <2>7 DEF Pausing
<1>5. QED
  BY <1>2, <1>3, <1>4 DEF KbdInv, Settled

(* Every step keeps the keyboard in step.                                  *)
LEMMA KbdStep == KbdInv /\ [KbdNext]_kbdVars => KbdInv'
<1> SUFFICES ASSUME KbdInv, [KbdNext]_kbdVars PROVE KbdInv'
  OBVIOUS
<1>1. CASE Press \/ Release
  BY <1>1, KeyMoves
<1>2. CASE Pause
  <2>1. wire = <<>> /\ UNCHANGED <<mode, e0, selected_layout, key_queue, held>>
    BY <1>2 DEF Pause
  <2>2. Settled
    <3>1. \A k, down : Codes(k, down) # <<>> /\ <<Scan(Code(k), down)>> # <<>>
      BY DEF Codes
    <3>2. QED
      BY <2>1, <3>1 DEF KbdInv, Pausing, Coming
  <2>3. Pausing'
    BY <1>2, <2>1, <2>2 DEF Pause, Pausing, Settled, Shows
  <2>4. QED
    BY <2>1, <2>3 DEF KbdInv, InOrder
<1>3. CASE keyboard_interrupt
  BY <1>3, CodesRead
<1>4. CASE TakeKeys
  <2>1. PICK n \in 1..Len(key_queue) : key_queue' = SubSeq(key_queue, n + 1, Len(key_queue))
    BY <1>4 DEF TakeKeys
  <2>2. InOrder'
    BY <2>1, RowsTaken DEF KbdInv, InOrder
  <2>3. UNCHANGED <<mode, e0, selected_layout, held, wire>>
    BY <1>4 DEF TakeKeys
  <2>4. QED
    BY <2>2, <2>3 DEF KbdInv, Settled, Pausing, Coming, Shows
<1>5. CASE ChangeUserLayout
  <2>1. selected_layout' \in 0..(layouts_num - 1)
    BY <1>5, KeyboardAssumption DEF ChangeUserLayout
  <2>2. UNCHANGED <<mode, e0, key_queue, held, wire>>
    BY <1>5 DEF ChangeUserLayout
  <2>3. QED
    BY <2>1, <2>2 DEF KbdInv, InOrder, Settled, Pausing, Coming, Shows
<1>6. CASE UNCHANGED kbdVars
  BY <1>6 DEF kbdVars, KbdInv, InOrder, Settled, Pausing, Coming, Shows
<1>7. QED
  BY <1>1, <1>2, <1>3, <1>4, <1>5, <1>6 DEF KbdNext

(* The keyboard is in step: whenever all codes are read the modifier bits  *)
(* are those of the keys that are down, sequences in the queue are whole,  *)
(* and the layout exists, whatever keys there are and however they are     *)
(* pressed, as long as the pause key is not pressed with a ctrl.           *)
THEOREM AlwaysInStep == KbdSpec => []KeyboardInStep
<1>1. KbdInit => KbdInv
  <2> SUFFICES ASSUME KbdInit PROVE KbdInv
    OBVIOUS
  <2>1. <<>> \in Seq({}) /\ Len(<<>>) = 0
    OBVIOUS
  <2>2. QED
    BY <2>1, KeyboardAssumption DEF KbdInit, KbdInv, InOrder, Rowed, Settled, Shows
<1>2. KbdInv => KeyboardInStep
  <2> SUFFICES ASSUME KbdInv PROVE KeyboardInStep
    OBVIOUS
  <2>1. CASE wire = <<>>
    <3>1. \A k, down : Codes(k, down) # <<>> /\ <<Scan(Code(k), down)>> # <<>>
      BY DEF Codes
    <3>2. Settled
      BY <2>1, <3>1 DEF KbdInv, Pausing, Coming
    <3>3. QED
      BY <2>1, <3>2 DEF KeyboardInStep, KbdInv, Settled, Shows, InOrder, Rowed
  <2>2. CASE wire # <<>>
    BY <2>2 DEF KeyboardInStep, KbdInv, InOrder, Rowed
  <2>3. QED
    BY <2>1, <2>2
<1>3. QED
  BY <1>1, <1>2, KbdStep, PTL DEF KbdSpec

---------------------------------------------------------------------------
(* A serial line.                                                          *)

Lines ==
  [read_q : Seq(Typed), secondary : Seq(Typed), data : Int,
   write_q : 0..(TTY_BUF_SIZE - 1), canon : BOOLEAN, echo : BOOLEAN,
   tx : BOOLEAN, intr : BOOLEAN, head : {"stored", "loaded", "moved"}]

IsLine(t) == t \in Lines /\ Len(t.secondary) < TTY_BUF_SIZE

\* The ends of lines and files in a queue.
EndsIn(q) == Cardinality({i \in DOMAIN q : q[i] \in Ends})

\* What handlers keep that turn t into u: no end is lost or counted twice, and
\* what they put in the transmit queue is sent.
Onto(t, u) ==
  /\ IsLine(u)
  /\ u.data - EndsIn(u.secondary) = t.data - EndsIn(t.secondary)
  /\ t.tx => u.tx
  /\ (u.write_q # 0 => u.tx) \/ (u.write_q = t.write_q /\ u.tx = t.tx)

(* The ends are as many as were put in less those taken out.               *)
LEMMA EndsMove ==
  ASSUME NEW q \in Seq(Typed)
  PROVE  /\ EndsIn(q) \in Nat
         /\ \A c \in Typed : /\ Append(q, c) \in Seq(Typed)
                             /\ EndsIn(Append(q, c)) = EndsIn(q) + IF c \in Ends THEN 1 ELSE 0
         /\ q # <<>> => /\ Tail(q) \in Seq(Typed) /\ Head(q) \in Typed
                        /\ EndsIn(Tail(q)) = EndsIn(q) - IF Head(q) \in Ends THEN 1 ELSE 0
         /\ q # <<>> => /\ DEC(q) \in Seq(Typed)
                        /\ EndsIn(DEC(q)) = EndsIn(q) - IF LAST(q) \in Ends THEN 1 ELSE 0
<1> DEFINE n == Len(q)
           A == {i \in 1..n : q[i] \in Ends}
<1>1. n \in Nat /\ DOMAIN q = 1..n /\ \A i \in 1..n : q[i] \in Typed
  OBVIOUS
<1>2. IsFiniteSet(A) /\ Cardinality(A) \in Nat /\ EndsIn(q) = Cardinality(A)
  <2>1. IsFiniteSet(1..n)
    BY <1>1, FS_Interval
  <2>2. A \in SUBSET (1..n) /\ EndsIn(q) = Cardinality(A)
    BY <1>1 DEF EndsIn
  <2> HIDE DEF A, n
  <2>3. IsFiniteSet(A) /\ Cardinality(A) \in Nat
    BY <2>1, <2>2, CountPart
  <2>4. QED
    BY <2>2, <2>3
<1>3. ASSUME NEW c \in Typed
      PROVE  /\ Append(q, c) \in Seq(Typed)
             /\ EndsIn(Append(q, c)) = EndsIn(q) + IF c \in Ends THEN 1 ELSE 0
  <2> DEFINE s == Append(q, c)
             B == {i \in 1..(n + 1) : s[i] \in Ends}
  <2>1. /\ s \in Seq(Typed) /\ Len(s) = n + 1 /\ DOMAIN s = 1..(n + 1)
        /\ s[n + 1] = c /\ \A i \in 1..n : s[i] = q[i]
    OBVIOUS
  <2>2. EndsIn(s) = Cardinality(B)
    BY <2>1 DEF EndsIn
  <2> HIDE DEF s, n
  <2>3. A \ {n + 1} = B \ {n + 1} /\ n + 1 \notin A /\ (n + 1 \in B <=> c \in Ends)
    BY <1>1, <2>1
  <2> HIDE DEF A, B
  <2>4. Cardinality(B) = Cardinality(A) - 0 + (IF c \in Ends THEN 1 ELSE 0)
    BY <1>2, <2>3, ChangeOne
  <2>5. QED
    BY <1>2, <2>1, <2>2, <2>4 DEF s
<1>4. ASSUME q # <<>>
      PROVE  /\ Tail(q) \in Seq(Typed) /\ Head(q) \in Typed
             /\ EndsIn(Tail(q)) = EndsIn(q) - IF Head(q) \in Ends THEN 1 ELSE 0
  <2> DEFINE s == Tail(q)
             B == {i \in 1..(n - 1) : s[i] \in Ends}
             C == A \ {1}
             f == [i \in B |-> i + 1]
  <2>1. /\ s \in Seq(Typed) /\ DOMAIN s = 1..(n - 1) /\ n # 0 /\ n - 1 \in Nat
        /\ Head(q) = q[1] /\ q[1] \in Typed
        /\ \A i \in 1..(n - 1) : s[i] = q[i + 1]
    BY <1>4
  <2>2. EndsIn(s) = Cardinality(B)
    BY <2>1 DEF EndsIn
  <2> HIDE DEF s, n
  <2>3. IsFiniteSet(B)
    <3>1. IsFiniteSet(1..(n - 1))
      BY <2>1, FS_Interval
    <3>2. B \in SUBSET (1..(n - 1))
      OBVIOUS
    <3> HIDE DEF B
    <3>3. QED
      BY <3>1, <3>2, CountPart
  <2>4. f \in Bijection(B, C)
    <3>1. f \in [B -> C]
      BY <1>1, <2>1
    <3>2. \A i, j \in B : f[i] = f[j] => i = j
      BY <1>1, <2>1
    <3>3. \A j \in C : \E i \in B : f[i] = j
      <4> SUFFICES ASSUME NEW j \in C PROVE j - 1 \in B /\ f[j - 1] = j
        OBVIOUS
      <4>1. j - 1 \in B
        BY <1>1, <2>1
      <4>2. QED
        BY <1>1, <4>1
    <3> HIDE DEF f, B, C
    <3>4. QED
      BY <3>1, <3>2, <3>3 DEF Bijection, Injection, Surjection, IsInjective
  <2>5. Cardinality(C) = Cardinality(B)
    <3> HIDE DEF f, B, C
    <3>1. QED
      BY <2>3, <2>4, FS_Bijection DEF ExistsBijection
  <2>6. A \ {1} = C \ {1} /\ 1 \notin C /\ (1 \in A <=> Head(q) \in Ends)
    BY <1>1, <2>1
  <2> HIDE DEF A, B, C
  <2>7. /\ Cardinality(C) \in Nat
        /\ Cardinality(C) = Cardinality(A) - (IF Head(q) \in Ends THEN 1 ELSE 0) + 0
    BY <1>2, <2>6, ChangeOne
  <2>8. QED
    BY <1>2, <2>1, <2>2, <2>5, <2>7 DEF s
<1>5. ASSUME q # <<>>
      PROVE  /\ DEC(q) \in Seq(Typed)
             /\ EndsIn(DEC(q)) = EndsIn(q) - IF LAST(q) \in Ends THEN 1 ELSE 0
  <2> DEFINE s == SubSeq(q, 1, n - 1)
             B == {i \in 1..(n - 1) : s[i] \in Ends}
  <2>1. /\ s \in Seq(Typed) /\ DOMAIN s = 1..(n - 1) /\ n # 0 /\ n - 1 \in Nat
        /\ \A i \in 1..(n - 1) : s[i] = q[i]
    BY <1>5
  <2>2. EndsIn(s) = Cardinality(B)
    BY <2>1 DEF EndsIn
  <2>3. s = DEC(q) /\ LAST(q) = q[n]
    BY DEF DEC, LAST
  <2> HIDE DEF s, n
  <2>4. A \ {n} = B \ {n} /\ n \notin B /\ (n \in A <=> LAST(q) \in Ends)
    BY <1>1, <2>1, <2>3
  <2> HIDE DEF A, B
  <2>5. Cardinality(B) = Cardinality(A) - (IF LAST(q) \in Ends THEN 1 ELSE 0) + 0
        /\ Cardinality(B) \in Nat
    BY <1>2, <2>4, ChangeOne
  <2>6. QED
    BY <1>2, <2>1, <2>2, <2>3, <2>5
<1>6. QED
  BY <1>2, <1>3, <1>4, <1>5

(* Echo does nothing to the characters that wait, and is sent.             *)
LEMMA EchoSent ==
  ASSUME NEW t \in Lines, NEW n \in 0..2
  PROVE  /\ Echo(t, n) \in Lines
         /\ Echo(t, n).secondary = t.secondary /\ Echo(t, n).data = t.data
         /\ Echo(t, n).read_q = t.read_q /\ Echo(t, n).canon = t.canon
         /\ t.tx => Echo(t, n).tx
         /\ \/ Echo(t, n).write_q # 0 => Echo(t, n).tx
            \/ Echo(t, n).write_q = t.write_q /\ Echo(t, n).tx = t.tx
<1> DEFINE u == [t EXCEPT !.write_q = Wrapped(@ + n),
                          !.head = IF @ = "loaded" THEN "moved" ELSE @]
<1>1. CASE Echo(t, n) = t
  BY <1>1
<1>2. CASE Echo(t, n) = rs_write(u)
  <2>1. Wrapped(t.write_q + n) \in 0..(TTY_BUF_SIZE - 1)
    BY TtyAssumption, SMTT(60) DEF Lines, Wrapped
  <2>2. /\ u \in Lines
        /\ u.secondary = t.secondary /\ u.data = t.data /\ u.read_q = t.read_q
        /\ u.canon = t.canon /\ u.tx = t.tx
    BY <2>1 DEF Lines
  <2> HIDE DEF u
  <2>3. /\ rs_write(u) \in Lines
        /\ rs_write(u).secondary = u.secondary /\ rs_write(u).data = u.data
        /\ rs_write(u).read_q = u.read_q /\ rs_write(u).canon = u.canon
        /\ rs_write(u).write_q = u.write_q
        /\ rs_write(u).tx = (u.tx \/ u.write_q # 0)
    BY <2>2 DEF rs_write, Lines
  <2>4. QED
    BY <1>2, <2>2, <2>3
<1>3. QED
  BY <1>1, <1>2 DEF Echo

(* A line that is left as it was.                                          *)
LEMMA OntoSelf == ASSUME NEW t, IsLine(t) PROVE Onto(t, t)
BY DEF Onto

(* What handlers keep one after the other they keep together.              *)
LEMMA OntoTwice ==
  ASSUME NEW t, IsLine(t), NEW u, Onto(t, u), NEW v, Onto(u, v)
  PROVE  Onto(t, v)
<1>1. IsLine(v) /\ IsLine(u)
  BY DEF Onto
<1>2. v.data - EndsIn(v.secondary) = t.data - EndsIn(t.secondary)
  BY DEF Onto
<1>3. /\ t.tx => v.tx
      /\ (v.write_q # 0 => v.tx) \/ (v.write_q = t.write_q /\ v.tx = t.tx)
  BY DEF Onto
<1>4. QED
  BY <1>1, <1>2, <1>3 DEF Onto

(* One character of copy_to_cooked.                                        *)
LEMMA CookKeeps ==
  ASSUME NEW t, IsLine(t), t.read_q # <<>>, ~FULL(Len(t.secondary))
  PROVE  Onto(t, Cook(t))
<1> DEFINE c == IF Head(t.read_q) = "cr" THEN "nl" ELSE Head(t.read_q)
           s == [t EXCEPT !.read_q = Tail(@)]
<1>1. t \in Lines /\ t.read_q \in Seq(Typed) /\ t.secondary \in Seq(Typed) /\ t.data \in Int
  BY DEF IsLine, Lines
<1>2. c \in Typed /\ Tail(t.read_q) \in Seq(Typed)
  BY <1>1, EndsMove DEF Typed
<1>3. /\ s \in Lines /\ s.secondary = t.secondary /\ s.data = t.data /\ s.canon = t.canon
      /\ s.write_q = t.write_q /\ s.tx = t.tx
  BY <1>1, <1>2 DEF Lines
<1>4. Onto(t, s)
  BY <1>3 DEF Onto, IsLine
<1>5. /\ Len(t.secondary) \in Nat /\ TTY_BUF_SIZE \in Nat
      /\ Len(t.secondary) + 1 < TTY_BUF_SIZE
  <2>1. Len(t.secondary) \in Nat /\ TTY_BUF_SIZE \in Nat
    BY <1>1, TtyAssumption
  <2>2. QED
    BY <2>1 DEF IsLine, FULL, LEFT
<1> HIDE DEF s
<1>6. CASE t.canon /\ c = "erase"
  <2>1. CASE t.secondary = <<>> \/ LAST(t.secondary) \in Ends
    <3>1. Cook(t) = s
      BY <1>6, <2>1 DEF Cook, s
    <3>2. QED
      BY <1>4, <3>1
  <2>2. CASE ~(t.secondary = <<>> \/ LAST(t.secondary) \in Ends)
    <3> DEFINE e == Echo(s, 1)
               u == [e EXCEPT !.secondary = DEC(@)]
    <3>1. Cook(t) = u
      BY <1>6, <2>2 DEF Cook, s
    <3>2. /\ e \in Lines /\ e.secondary = t.secondary /\ e.data = t.data
          /\ t.tx => e.tx
          /\ (e.write_q # 0 => e.tx) \/ (e.write_q = t.write_q /\ e.tx = t.tx)
      BY <1>3, EchoSent
    <3> HIDE DEF e
    <3>3. /\ DEC(t.secondary) \in Seq(Typed)
          /\ EndsIn(DEC(t.secondary)) = EndsIn(t.secondary)
      BY <1>1, <2>2, EndsMove
    <3>4. Len(DEC(t.secondary)) < TTY_BUF_SIZE
      BY <1>1, <1>5, <2>2 DEF DEC
    <3>5. /\ u \in Lines /\ u.secondary = DEC(t.secondary) /\ u.data = t.data
          /\ u.tx = e.tx /\ u.write_q = e.write_q
      BY <3>2, <3>3 DEF Lines
    <3> HIDE DEF u
    <3>6. Onto(t, u)
      BY <3>2, <3>3, <3>4, <3>5 DEF Onto, IsLine
    <3>7. QED
      BY <3>1, <3>6
  <2>3. QED
    BY <2>1, <2>2
<1>7. CASE ~(t.canon /\ c = "erase") /\ c = "intr"
  <2> DEFINE u == [s EXCEPT !.intr = TRUE]
  <2>1. Cook(t) = u
    BY <1>7 DEF Cook, s
  <2>2. /\ u \in Lines /\ u.secondary = s.secondary /\ u.data = s.data
        /\ u.tx = s.tx /\ u.write_q = s.write_q
    BY <1>3 DEF Lines
  <2> HIDE DEF u
  <2>3. Onto(t, u)
    BY <1>3, <1>4, <2>2 DEF Onto, IsLine
  <2>4. QED
    BY <2>1, <2>3
<1>8. CASE ~(t.canon /\ c = "erase") /\ c # "intr"
  <2>1. PICK n \in 0..2 : n = IF c = "nl" THEN 2 ELSE IF c = "eof" THEN 0 ELSE 1
    OBVIOUS
  <2> DEFINE e == Echo(s, n)
             u == [e EXCEPT !.secondary = PUTCH(c, @), !.data = IF c \in Ends THEN @ + 1 ELSE @]
  <2>2. Cook(t) = u
    BY <1>8, <2>1, Zenon DEF Cook, s, Take
  <2>3. /\ e \in Lines /\ e.secondary = t.secondary /\ e.data = t.data
        /\ t.tx => e.tx
        /\ (e.write_q # 0 => e.tx) \/ (e.write_q = t.write_q /\ e.tx = t.tx)
    BY <1>3, EchoSent
  <2> HIDE DEF e, c
  <2>4. PUTCH(c, t.secondary) = Append(t.secondary, c)
    BY DEF PUTCH
  <2>5. /\ Append(t.secondary, c) \in Seq(Typed)
        /\ EndsIn(Append(t.secondary, c)) = EndsIn(t.secondary) + IF c \in Ends THEN 1 ELSE 0
        /\ EndsIn(t.secondary) \in Nat
    BY <1>1, <1>2, EndsMove
  <2>6. Len(Append(t.secondary, c)) < TTY_BUF_SIZE
    BY <1>1, <1>5
  <2>7. /\ u \in Lines /\ u.secondary = Append(t.secondary, c)
        /\ u.data = IF c \in Ends THEN t.data + 1 ELSE t.data
        /\ u.tx = e.tx /\ u.write_q = e.write_q
    <3>1. PICK d : d = IF c \in Ends THEN t.data + 1 ELSE t.data
      OBVIOUS
    <3>2. d \in Int
      BY <1>1, <3>1
    <3>3. u = [e EXCEPT !.secondary = Append(t.secondary, c), !.data = d]
      BY <2>3, <2>4, <3>1
    <3>4. /\ u \in Lines /\ u.secondary = Append(t.secondary, c) /\ u.data = d
          /\ u.tx = e.tx /\ u.write_q = e.write_q
      <4> HIDE DEF u
      <4>1. QED
        BY <2>3, <2>5, <3>2, <3>3 DEF Lines
    <3>5. QED
      BY <3>1, <3>4
  <2> HIDE DEF u
  <2>8. u.data - EndsIn(u.secondary) = t.data - EndsIn(t.secondary)
    BY <1>1, <2>5, <2>7, SMTT(60)
  <2>9. Onto(t, u)
    BY <2>3, <2>6, <2>7, <2>8 DEF Onto, IsLine
  <2>10. QED
    BY <2>2, <2>9
<1>9. QED
  BY <1>6, <1>7, <1>8

\* copy_to_cooked's loop: one round, and all up to the n-th.
CookOnce(s) == IF s.read_q = <<>> \/ FULL(Len(s.secondary)) THEN s ELSE Cook(s)
Cooks(t, n, f) == f = [k \in 0..n |-> IF k = 0 THEN t ELSE CookOnce(f[k - 1])]

(* There is a function that notes what the rounds give.                    *)
LEMMA CooksExist ==
  ASSUME NEW t, NEW n \in Nat
  PROVE  \E f : Cooks(t, n, f)
<1> DEFINE Bad == {k \in Nat : ~ \E f : Cooks(t, k, f)}
           k == Min(Bad)
<1>1. SUFFICES ASSUME Bad # {}
               PROVE  FALSE
  OBVIOUS
<1>2. k \in Bad /\ \A j \in Bad : k <= j
  BY <1>1, NatMin
<1> HIDE DEF k
<1>3. k # 0
  <2> DEFINE f == [i \in 0..0 |-> t]
  <2>1. Cooks(t, 0, f)
    BY DEF Cooks
  <2>2. QED
    BY <1>2, <2>1
<1>4. k - 1 \in Nat /\ k - 1 \notin Bad
  BY <1>2, <1>3
<1>5. PICK f : Cooks(t, k - 1, f)
  BY <1>4
<1> DEFINE g == [i \in 0..k |-> IF i = k THEN CookOnce(f[k - 1]) ELSE f[i]]
<1>6. \A i \in 0..(k - 1) : f[i] = IF i = 0 THEN t ELSE CookOnce(f[i - 1])
  BY <1>5 DEF Cooks
<1>7. \A i \in 0..k : g[i] = IF i = 0 THEN t ELSE CookOnce(g[i - 1])
  <2> SUFFICES ASSUME NEW i \in 0..k
               PROVE  g[i] = IF i = 0 THEN t ELSE CookOnce(g[i - 1])
    OBVIOUS
  <2>1. k \in Nat
    BY <1>2
  <2>2. CASE i = k
    <3>1. g[i - 1] = f[k - 1]
      BY <1>3, <2>1, <2>2
    <3>2. QED
      BY <1>3, <2>1, <2>2, <3>1
  <2>3. CASE i # k
    <3>1. i \in 0..(k - 1) /\ g[i] = f[i]
      BY <2>1, <2>3
    <3>2. i # 0 => g[i - 1] = f[i - 1]
      BY <2>1, <2>3
    <3> HIDE DEF g
    <3>3. QED
      BY <1>6, <3>1, <3>2
  <2>4. QED
    BY <2>2, <2>3
<1>8. Cooks(t, k, g)
  <2>1. g = [i \in 0..k |-> g[i]]
    OBVIOUS
  <2> HIDE DEF g
  <2>2. QED
    BY <1>7, <2>1 DEF Cooks
<1>9. QED
  BY <1>2, <1>8

(* All of copy_to_cooked: of its rounds the first that did not keep a line *)
(* in order would follow on one that did.                                  *)
LEMMA CookedKeeps ==
  ASSUME NEW t, IsLine(t)
  PROVE  Onto(t, copy_to_cooked(t))
<1> DEFINE f == CHOOSE g : Cooks(t, TTY_BUF_SIZE, g)
<1>1. TTY_BUF_SIZE \in Nat
  BY TtyAssumption
<1>2. Cooks(t, TTY_BUF_SIZE, f)
  BY <1>1, CooksExist
<1>3. copy_to_cooked(t) = f[TTY_BUF_SIZE]
  BY Zenon DEF copy_to_cooked, CookOnce, Cooks
<1> HIDE DEF f
<1> DEFINE Bad == {k \in 0..TTY_BUF_SIZE : ~Onto(t, f[k])}
           k == Min(Bad)
<1>4. Bad = {}
  <2> SUFFICES ASSUME Bad # {} PROVE FALSE
    OBVIOUS
  <2>1. Bad \in SUBSET Nat
    BY <1>1
  <2> HIDE DEF Bad
  <2>2. k \in Bad /\ \A j \in Bad : k <= j
    BY <2>1, NatMin
  <2> HIDE DEF k
  <2> USE DEF Bad
  <2>3. k \in 0..TTY_BUF_SIZE /\ f[k] = IF k = 0 THEN t ELSE CookOnce(f[k - 1])
    BY <1>1, <1>2, <2>2 DEF Cooks
  <2>4. k # 0
    BY <2>2, <2>3, OntoSelf
  <2>5. k - 1 \in 0..TTY_BUF_SIZE /\ k - 1 \notin Bad
    BY <1>1, <2>2, <2>3, <2>4
  <2>6. PICK u : u = f[k - 1]
    OBVIOUS
  <2>7. Onto(t, u)
    BY <2>5, <2>6
  <2>8. IsLine(u)
    BY <2>7 DEF Onto
  <2>9. Onto(u, CookOnce(u))
    BY <2>8, OntoSelf, CookKeeps DEF CookOnce
  <2>10. Onto(t, CookOnce(u))
    BY <2>7, <2>9, OntoTwice
  <2>11. QED
    BY <2>2, <2>3, <2>4, <2>6, <2>10
<1>5. QED
  BY <1>1, <1>3, <1>4

InKernel == {"read", "get", "count", "done", "write", "next", "load", "store", "start"}

Calls ==
  [pc : InKernel \cup {"idle", "empty", "full", "ready", "empty_asleep", "full_asleep"},
   nr : Int, got : {0, 1}, c : Typed]

\* A call that has taken an end and not counted it, and one that has put
\* characters in the transmit queue and will start the line.
Takes(r) == r.pc = "count" /\ r.c \in Ends
Sends(r) == r.got = 1 /\ r.pc \in {"next", "load", "store", "start"}

Taking == {p \in Procs : Takes(io[p])}

LineInv ==
  /\ IsLine(tty)
  /\ io \in [Procs -> Calls]
  /\ running \in Procs \cup {Nobody}
  /\ \A p \in Procs : io[p].pc \in InKernel => running = p
  /\ tty.data = EndsIn(tty.secondary) + Cardinality(Taking)
  /\ tty.write_q # 0 => tty.tx \/ \E p \in Procs : Sends(io[p])
  /\ LineSleepers

One(b) == IF b THEN 1 ELSE 0

(* While p runs or nobody does, only p may be counting or sending.         *)
LEMMA OnlyRunning ==
  ASSUME NEW f, NEW who, NEW p \in Procs, who \in {p, Nobody},
         \A x \in Procs : f[x].pc \in InKernel => who = x
  PROVE  /\ Cardinality({x \in Procs : Takes(f[x])}) = One(Takes(f[p]))
         /\ (\E x \in Procs : Sends(f[x])) <=> Sends(f[p])
<1>1. Nobody \notin Procs
  BY TtyAssumption DEF Procs
<1>2. \A x \in Procs : Takes(f[x]) \/ Sends(f[x]) => f[x].pc \in InKernel
  BY DEF Takes, Sends, InKernel
<1>3. \A x \in Procs : f[x].pc \in InKernel => x = p
  BY <1>1
<1> DEFINE T == {x \in Procs : Takes(f[x])}
<1>4. CASE Takes(f[p])
  <2>1. T = {p}
    BY <1>2, <1>3, <1>4
  <2>2. Cardinality(T) = 1
    BY <2>1, FS_Singleton
  <2>3. QED
    BY <1>2, <1>3, <1>4, <2>2 DEF One
<1>5. CASE ~Takes(f[p])
  <2>1. T = {}
    BY <1>2, <1>3, <1>5
  <2>2. Cardinality(T) = 0
    BY <2>1, FS_EmptySet
  <2>3. QED
    BY <1>2, <1>3, <1>5, <2>2 DEF One
<1>6. QED
  BY <1>4, <1>5

(* What a step of one process has to keep: the count less what is in the   *)
(* queue and in the process's hand, and that what is put in the transmit   *)
(* queue is sent.                                                          *)
LEMMA ByOne ==
  ASSUME LineInv, NEW p \in Procs, running \in {p, Nobody},
         IsLine(tty'), io' \in [Procs -> Calls], running' \in {p, Nobody},
         \A x \in Procs \ {p} : io'[x] = io[x],
         io'[p].pc \in InKernel => running' = p,
         tty'.data - EndsIn(tty'.secondary) - One(Takes(io'[p]))
           = tty.data - EndsIn(tty.secondary) - One(Takes(io[p])),
         tty.secondary = <<>> => tty'.secondary = <<>>,
         tty.tx => tty'.tx,
         (tty.write_q # 0 => tty.tx \/ Sends(io[p]))
           => (tty'.write_q # 0 => tty'.tx \/ Sends(io'[p])),
         io'[p].pc = "empty_asleep" => tty'.secondary = <<>>,
         io'[p].pc = "full_asleep" /\ (tty.write_q # 0 => tty.tx \/ Sends(io[p]))
           => tty'.tx
  PROVE  LineInv'
<1>1. Nobody \notin Procs
  BY TtyAssumption DEF Procs
<1>2. \A x \in Procs : io[x].pc \in InKernel => running = x
  BY DEF LineInv
<1>3. \A x \in Procs : io'[x].pc \in InKernel => running' = x
  <2> SUFFICES ASSUME NEW x \in Procs, io'[x].pc \in InKernel PROVE running' = x
    OBVIOUS
  <2>1. CASE x = p
    BY <2>1
  <2>2. CASE x # p
    BY <1>1, <1>2, <2>2
  <2>3. QED
    BY <2>1, <2>2
<1>4. /\ Cardinality(Taking) = One(Takes(io[p]))
      /\ (\E x \in Procs : Sends(io[x])) <=> Sends(io[p])
  BY <1>2, OnlyRunning DEF Taking
<1>5. /\ Cardinality(Taking)' = One(Takes(io'[p]))
      /\ (\E x \in Procs : Sends(io'[x])) <=> Sends(io'[p])
  BY <1>3, OnlyRunning DEF Taking
<1>6. /\ tty.data = EndsIn(tty.secondary) + One(Takes(io[p]))
      /\ tty.write_q # 0 => tty.tx \/ Sends(io[p])
  BY <1>4 DEF LineInv
<1>7. /\ EndsIn(tty.secondary) \in Nat /\ EndsIn(tty'.secondary) \in Nat
      /\ tty.data \in Int /\ tty'.data \in Int
      /\ One(Takes(io[p])) \in Int /\ One(Takes(io'[p])) \in Int
  BY EndsMove DEF LineInv, IsLine, Lines, One
<1>8. tty'.data = EndsIn(tty'.secondary) + Cardinality(Taking)'
  BY <1>5, <1>6, <1>7, SMTT(60)
<1>9. tty'.write_q # 0 => tty'.tx \/ \E x \in Procs : Sends(io'[x])
  BY <1>5, <1>6
<1>10. LineSleepers'
  <2>1. ASSUME NEW x \in Procs, io'[x].pc = "empty_asleep" PROVE tty'.secondary = <<>>
    <3>1. CASE x = p
      BY <2>1, <3>1
    <3>2. CASE x # p
      BY <2>1, <3>2 DEF LineInv, LineSleepers, Asleep
    <3>3. QED
      BY <3>1, <3>2
  <2>2. ASSUME NEW x \in Procs, io'[x].pc = "full_asleep" PROVE tty'.tx
    <3>1. CASE x = p
      BY <1>6, <2>2, <3>1
    <3>2. CASE x # p
      BY <2>2, <3>2 DEF LineInv, LineSleepers, Asleep
    <3>3. QED
      BY <3>1, <3>2
  <2>3. QED
    BY <2>1, <2>2 DEF LineSleepers, Asleep
<1>11. QED
  BY <1>3, <1>8, <1>9, <1>10 DEF LineInv

(* Those that are woken leave off sleeping and are otherwise as they were. *)
LEMMA WokenAre ==
  ASSUME io \in [Procs -> Calls], NEW pcs \in SUBSET {"empty_asleep", "full_asleep"}
  PROVE  /\ Woken(pcs) \in [Procs -> Calls]
         /\ \A p \in Procs :
              /\ Takes(Woken(pcs)[p]) <=> Takes(io[p])
              /\ Sends(Woken(pcs)[p]) <=> Sends(io[p])
              /\ Woken(pcs)[p].pc \in InKernel <=> io[p].pc \in InKernel
              /\ Woken(pcs)[p].pc \in {"empty_asleep", "full_asleep"}
                   => Woken(pcs)[p].pc = io[p].pc /\ io[p].pc \notin pcs
<1> DEFINE w == Woken(pcs)
<1>1. ASSUME NEW p \in Procs
      PROVE  /\ w[p] \in Calls
             /\ Takes(w[p]) <=> Takes(io[p])
             /\ Sends(w[p]) <=> Sends(io[p])
             /\ w[p].pc \in InKernel <=> io[p].pc \in InKernel
             /\ w[p].pc \in {"empty_asleep", "full_asleep"}
                  => w[p].pc = io[p].pc /\ io[p].pc \notin pcs
  <2>1. io[p] \in Calls
    OBVIOUS
  <2>2. CASE io[p].pc \in pcs
    <3>1. PICK r : r = io[p]
      OBVIOUS
    <3>2. w[p] = [r EXCEPT !.pc = IF @ = "empty_asleep" THEN "empty" ELSE "full"]
      BY <2>2, <3>1 DEF Woken
    <3>3. PICK v : v = w[p]
      OBVIOUS
    <3>4. /\ v \in Calls /\ v.pc \in {"empty", "full"}
      BY <2>1, <3>1, <3>2, <3>3 DEF Calls
    <3>5. r.pc \in {"empty_asleep", "full_asleep"}
      BY <2>2, <3>1
    <3>6. QED
      BY <2>2, <3>1, <3>3, <3>4, <3>5 DEF Takes, Sends, InKernel
  <2>3. CASE io[p].pc \notin pcs
    <3>1. w[p] = io[p]
      BY <2>3 DEF Woken
    <3>2. QED
      BY <2>1, <2>3, <3>1
  <2>4. QED
    BY <2>2, <2>3
<1>2. w = [p \in Procs |-> w[p]]
  BY DEF Woken
<1> HIDE DEF w
<1>3. w \in [Procs -> Calls]
  BY <1>1, <1>2
<1>4. QED
  BY <1>1, <1>3 DEF w

(* What an interrupt has to keep.                                          *)
LEMMA ByHandler ==
  ASSUME LineInv, NEW t, Onto(tty, t), IsLine(tty'), running' = running,
         tty'.data = t.data, tty'.secondary = t.secondary,
         tty'.write_q # 0 /\ (t.write_q # 0 => t.tx \/ \E p \in Procs : Sends(io[p]))
           => tty'.tx \/ \E p \in Procs : Sends(io[p]),
         NEW pcs \in SUBSET {"empty_asleep", "full_asleep"},
         io' = Woken(pcs),
         "full_asleep" \in pcs \/ (t.tx => tty'.tx),
         "empty_asleep" \in pcs \/ tty'.secondary = tty.secondary
  PROVE  LineInv'
<1>1. io \in [Procs -> Calls] /\ tty \in Lines /\ t \in Lines /\ tty' \in Lines
  BY DEF LineInv, Onto, IsLine
<1>2. /\ io' \in [Procs -> Calls]
      /\ \A p \in Procs :
              /\ Takes(io'[p]) <=> Takes(io[p])
              /\ Sends(io'[p]) <=> Sends(io[p])
              /\ io'[p].pc \in InKernel <=> io[p].pc \in InKernel
              /\ io'[p].pc \in {"empty_asleep", "full_asleep"}
                   => io'[p].pc = io[p].pc /\ io[p].pc \notin pcs
  BY <1>1, WokenAre
<1>3. Taking' = Taking
  BY <1>2 DEF Taking
<1>4. EndsIn(tty.secondary) \in Nat /\ EndsIn(t.secondary) \in Nat
  BY <1>1, EndsMove DEF Lines
<1>5. tty'.data = EndsIn(tty'.secondary) + Cardinality(Taking)'
  <2>1. tty.data = EndsIn(tty.secondary) + Cardinality(Taking)
    BY DEF LineInv
  <2>2. t.data - EndsIn(t.secondary) = tty.data - EndsIn(tty.secondary)
    BY DEF Onto
  <2>3. tty.data \in Int /\ t.data \in Int
    BY <1>1 DEF Lines
  <2>4. PICK n : n = Cardinality(Taking)
    OBVIOUS
  <2>5. n \in Int
    <3>1. Taking \in SUBSET {running}
      BY DEF LineInv, Taking, Takes, InKernel
    <3>2. IsFiniteSet({running})
      BY FS_Singleton
    <3>3. QED
      BY <2>4, <3>1, <3>2, CountPart
  <2>6. QED
    BY <1>3, <1>4, <2>1, <2>2, <2>3, <2>4, <2>5
<1>6. tty'.write_q # 0 => tty'.tx \/ \E p \in Procs : Sends(io'[p])
  <2>1. tty.write_q # 0 => tty.tx \/ \E p \in Procs : Sends(io[p])
    BY DEF LineInv
  <2>2. t.write_q # 0 => t.tx \/ \E p \in Procs : Sends(io[p])
    BY <2>1 DEF Onto
  <2>3. QED
    BY <1>2, <2>2
<1>7. LineSleepers'
  <2>1. ASSUME NEW p \in Procs, io'[p].pc = "empty_asleep" PROVE tty'.secondary = <<>>
    BY <1>2, <2>1 DEF LineInv, LineSleepers, Asleep
  <2>2. ASSUME NEW p \in Procs, io'[p].pc = "full_asleep" PROVE tty'.tx
    <3>1. io[p].pc = "full_asleep" /\ "full_asleep" \notin pcs
      BY <1>2, <2>2
    <3>2. tty.tx
      BY <3>1 DEF LineInv, LineSleepers, Asleep
    <3>3. QED
      BY <3>1, <3>2 DEF Onto
  <2>3. QED
    BY <2>1, <2>2 DEF LineSleepers, Asleep
<1>8. QED
  BY <1>2, <1>5, <1>6, <1>7 DEF LineInv

(* An interrupt that receives a character.                                 *)
LEMMA ReadCharKeeps ==
  ASSUME LineInv, read_char
  PROVE  LineInv'
<1>1. IsLine(tty)
  BY DEF LineInv
<1>2. PICK c, t, pcs :
        /\ c \in Typed
        /\ t = IF FULL(Len(tty.read_q)) THEN tty
               ELSE copy_to_cooked([tty EXCEPT !.read_q = Append(@, c)])
        /\ pcs = {"empty_asleep"} \cup IF t.intr THEN {"full_asleep"} ELSE {}
        /\ tty' = [t EXCEPT !.intr = FALSE]
        /\ io' = IF t # tty THEN Woken(pcs) ELSE io
        /\ running' = running
  BY DEF read_char
<1>3. Onto(tty, t)
  <2> DEFINE s == [tty EXCEPT !.read_q = Append(@, c)]
  <2>1. /\ IsLine(s) /\ s.data = tty.data /\ s.secondary = tty.secondary
        /\ s.tx = tty.tx /\ s.write_q = tty.write_q
    <3>1. Append(tty.read_q, c) \in Seq(Typed)
      BY <1>1, <1>2 DEF IsLine, Lines
    <3>2. QED
      BY <1>1, <3>1 DEF IsLine, Lines
  <2> HIDE DEF s
  <2>2. Onto(s, copy_to_cooked(s))
    BY <2>1, CookedKeeps
  <2>3. Onto(tty, copy_to_cooked(s))
    BY <2>1, <2>2 DEF Onto
  <2>4. t = tty \/ t = copy_to_cooked(s)
    BY <1>2 DEF s
  <2>5. QED
    BY <1>1, <2>3, <2>4, OntoSelf
<1>4. /\ IsLine(tty') /\ tty'.data = t.data /\ tty'.secondary = t.secondary
      /\ tty'.tx = t.tx /\ tty'.write_q = t.write_q
  BY <1>2, <1>3 DEF Onto, IsLine, Lines
<1>5. CASE t # tty
  <2>1. /\ pcs \in SUBSET {"empty_asleep", "full_asleep"} /\ "empty_asleep" \in pcs
        /\ io' = Woken(pcs)
    BY <1>2, <1>5
  <2>2. QED
    BY <1>2, <1>3, <1>4, <2>1, ByHandler
<1>6. CASE t = tty
  <2>1. io' = io
    BY <1>2, <1>6
  <2>2. QED
    BY <1>2, <1>4, <1>6, <2>1 DEF LineInv, Taking, LineSleepers, Asleep
<1>7. QED
  BY <1>5, <1>6

(* An interrupt that sends a character.                                    *)
LEMMA WriteCharKeeps ==
  ASSUME LineInv, write_char
  PROVE  LineInv'
<1> DEFINE n == IF tty.write_q = 0 THEN 0 ELSE tty.write_q - 1
<1>1. /\ tty.tx /\ tty' = [tty EXCEPT !.write_q = n, !.tx = n # 0]
      /\ io' = IF AtEnd(tty.write_q) \/ tty.write_q = 1 THEN Woken({"full_asleep"}) ELSE io
      /\ running' = running
  BY DEF write_char
<1>2. IsLine(tty) /\ tty \in Lines /\ tty.write_q \in 0..(TTY_BUF_SIZE - 1)
  BY DEF LineInv, IsLine, Lines
<1>3. n \in 0..(TTY_BUF_SIZE - 1) /\ (n = 0 <=> tty.write_q \in {0, 1})
  BY <1>2, TtyAssumption
<1> HIDE DEF n
<1>4. /\ IsLine(tty') /\ tty'.data = tty.data /\ tty'.secondary = tty.secondary
      /\ tty'.write_q = n /\ (tty'.tx <=> n # 0)
  BY <1>1, <1>2, <1>3 DEF IsLine, Lines
<1>5. Onto(tty, tty)
  BY <1>2, OntoSelf
<1>6. CASE AtEnd(tty.write_q) \/ tty.write_q = 1
  <2>1. io' = Woken({"full_asleep"})
    BY <1>1, <1>6
  <2>2. QED
    BY <1>1, <1>4, <1>5, <2>1, ByHandler
<1>7. CASE ~(AtEnd(tty.write_q) \/ tty.write_q = 1)
  <2>1. io' = io
    BY <1>1, <1>7
  <2>2. tty.write_q # 0
    BY <1>7, TtyAssumption DEF AtEnd
  <2>3. n # 0
    BY <1>3, <1>7, <2>2
  <2>4. QED
    BY <1>1, <1>4, <2>1, <2>3 DEF LineInv, Taking, LineSleepers, Asleep
<1>8. QED
  BY <1>6, <1>7

(* A change of the line's modes or the emptying of a queue.                *)
LEMMA IoctlKeeps ==
  ASSUME LineInv, tty_ioctl
  PROVE  LineInv'
<1>1. IsLine(tty) /\ tty \in Lines
  BY DEF LineInv, IsLine
<1>2. /\ IsLine(tty') /\ tty'.data = tty.data /\ tty'.secondary = tty.secondary
      /\ tty'.tx = tty.tx /\ (tty'.write_q = 0 \/ tty'.write_q = tty.write_q)
  <2>1. CASE \E read, write \in BOOLEAN :
               tty' = [tty EXCEPT !.read_q = IF read THEN <<>> ELSE @,
                                  !.write_q = IF write THEN 0 ELSE @]
    <3>1. PICK r, w : /\ tty' = [tty EXCEPT !.read_q = r, !.write_q = w]
                      /\ r \in {<<>>, tty.read_q} /\ w \in {0, tty.write_q}
      BY <2>1
    <3>2. tty.read_q \in Seq(Typed) /\ tty.write_q \in 0..(TTY_BUF_SIZE - 1)
      BY <1>1 DEF Lines
    <3>3. r \in Seq(Typed)
      <4>1. CASE r = <<>>
        BY <4>1
      <4>2. CASE r = tty.read_q
        BY <3>2, <4>2
      <4>3. QED
        BY <3>1, <4>1, <4>2
    <3>4. w \in 0..(TTY_BUF_SIZE - 1)
      BY <3>1, <3>2, TtyAssumption
    <3>5. QED
      BY <1>1, <3>1, <3>3, <3>4 DEF IsLine, Lines
  <2>2. CASE \E canon, echo, read \in BOOLEAN :
               tty' = [tty EXCEPT !.canon = canon, !.echo = echo,
                                  !.read_q = IF read THEN <<>> ELSE @]
    <3>1. PICK canon, echo, r :
            /\ canon \in BOOLEAN /\ echo \in BOOLEAN
            /\ tty' = [tty EXCEPT !.canon = canon, !.echo = echo, !.read_q = r]
            /\ r \in {<<>>, tty.read_q}
      BY <2>2
    <3>2. tty.read_q \in Seq(Typed)
      BY <1>1 DEF Lines
    <3>3. r \in Seq(Typed)
      <4>1. CASE r = <<>>
        BY <4>1
      <4>2. CASE r = tty.read_q
        BY <3>2, <4>2
      <4>3. QED
        BY <3>1, <4>1, <4>2
    <3>4. QED
      BY <1>1, <3>1, <3>3 DEF IsLine, Lines
  <2>3. QED
    BY <2>1, <2>2 DEF tty_ioctl
<1>3. UNCHANGED <<running, io>>
  BY DEF tty_ioctl
<1>4. QED
  BY <1>2, <1>3 DEF LineInv, Taking, LineSleepers, Asleep

(* The process goes on and touches no queue.                               *)
LEMMA OnlyPc ==
  ASSUME LineInv, NEW p \in Procs, running \in {p, Nobody}, UNCHANGED tty,
         NEW r \in Calls, io' = [io EXCEPT ![p] = r], running' \in {p, Nobody},
         r.pc \in InKernel => running' = p,
         ~Takes(io[p]) /\ ~Takes(r), Sends(io[p]) => Sends(r),
         r.pc = "empty_asleep" => tty.secondary = <<>>,
         r.pc = "full_asleep" /\ (tty.write_q # 0 => tty.tx \/ Sends(io[p])) => tty.tx
  PROVE  LineInv'
<1>1. IsLine(tty) /\ io \in [Procs -> Calls]
  BY DEF LineInv
<1>2. /\ io' \in [Procs -> Calls] /\ io'[p] = r
      /\ \A x \in Procs \ {p} : io'[x] = io[x]
  BY <1>1
<1>3. QED
  BY <1>1, <1>2, ByOne DEF One

(* What a call that is over leaves.                                        *)
LEMMA LeaveKeeps ==
  ASSUME LineInv, NEW p \in Procs, running = p, Leave(p), ~Takes(io[p]), ~Sends(io[p])
  PROVE  LineInv'
<1>1. NoCall \in Calls /\ ~Takes(NoCall) /\ NoCall.pc = "idle"
  BY DEF NoCall, Calls, Takes, Typed
<1>2. "idle" \notin InKernel
  BY DEF InKernel
<1>3. QED
  BY <1>1, <1>2, OnlyPc DEF Leave

(* The steps of tty_read.                                                  *)
LEMMA ReadKeeps ==
  ASSUME LineInv, NEW p \in Procs,
         \/ ReadLoop(p) \/ sleep_if_empty(p) \/ ReadGet(p) \/ ReadCount(p) \/ ReadDone(p)
  PROVE  LineInv'
<1>1. /\ IsLine(tty) /\ tty \in Lines /\ tty.secondary \in Seq(Typed) /\ tty.data \in Int
      /\ Len(tty.secondary) < TTY_BUF_SIZE
      /\ io \in [Procs -> Calls] /\ io[p] \in Calls
      /\ EndsIn(tty.secondary) \in Nat
  BY EndsMove DEF LineInv, IsLine, Lines
<1>2. PICK v : v = io[p]
  OBVIOUS
<1>3. v \in Calls /\ v.c \in Typed /\ v.nr \in Int /\ v.got \in {0, 1}
  BY <1>1, <1>2 DEF Calls
<1>4. running = p
  BY DEF ReadLoop, sleep_if_empty, ReadGet, ReadCount, ReadDone, InCall
<1>5. {"read", "get", "count", "done"} \subseteq InKernel
      /\ {"empty", "empty_asleep"} \cap InKernel = {}
  BY DEF InKernel
<1>6. CASE ReadLoop(p)
  <2>1. v.pc = "read"
    BY <1>2, <1>6 DEF ReadLoop, InCall
  <2>2. CASE Leave(p)
    BY <1>2, <1>4, <2>1, <2>2, LeaveKeeps DEF Takes, Sends
  <2>3. CASE ~Leave(p)
    <3>1. PICK w \in {"empty", "get"} :
            io' = [io EXCEPT ![p].pc = w] /\ running' = running /\ tty' = tty
      BY <1>6, <2>3 DEF ReadLoop, Goto
    <3> DEFINE r == [v EXCEPT !.pc = w]
    <3>2. r \in Calls /\ r.pc = w
      BY <1>3 DEF Calls, InKernel
    <3>3. io' = [io EXCEPT ![p] = r]
      BY <1>1, <1>2, <3>1
    <3> HIDE DEF r
    <3>4. ~Takes(v) /\ ~Takes(r) /\ ~Sends(v)
      BY <2>1, <3>2 DEF Takes, Sends
    <3>5. QED
      BY <1>2, <1>4, <3>1, <3>2, <3>3, <3>4, OnlyPc
  <2>4. QED
    BY <2>2, <2>3
<1>7. CASE sleep_if_empty(p)
  <2>1. PICK w \in {"empty_asleep", "read"} :
          /\ io' = [io EXCEPT ![p].pc = w] /\ tty' = tty
          /\ w = "empty_asleep" => tty.secondary = <<>> /\ running' = Nobody
          /\ w = "read" => running' = running
    BY <1>7 DEF sleep_if_empty, Goto
  <2>2. v.pc = "empty"
    BY <1>2, <1>7 DEF sleep_if_empty, InCall
  <2> DEFINE r == [v EXCEPT !.pc = w]
  <2>3. r \in Calls /\ r.pc = w
    BY <1>3 DEF Calls, InKernel
  <2>4. io' = [io EXCEPT ![p] = r]
    BY <1>1, <1>2, <2>1
  <2> HIDE DEF r
  <2>5. ~Takes(v) /\ ~Takes(r) /\ ~Sends(v)
    BY <2>2, <2>3 DEF Takes, Sends
  <2>6. (r.pc \in InKernel => running' = p) /\ running' \in {p, Nobody}
    BY <1>4, <1>5, <2>1, <2>3
  <2>7. QED
    BY <1>2, <1>4, <2>1, <2>3, <2>4, <2>5, <2>6, OnlyPc
<1>8. CASE ReadGet(p)
  <2>1. v.pc = "get" /\ running' = running
    BY <1>2, <1>8 DEF ReadGet, InCall
  <2>2. CASE tty.secondary = <<>>
    <3>1. UNCHANGED <<tty, io, running>>
      BY <1>8, <2>2 DEF ReadGet
    <3>2. QED
      BY <3>1 DEF LineInv, Taking, LineSleepers, Asleep
  <2>3. CASE tty.secondary # <<>>
    <3> DEFINE h == Head(tty.secondary)
               r == [v EXCEPT !.pc = "count", !.c = h]
    <3>1. /\ tty' = [tty EXCEPT !.secondary = Tail(@)]
          /\ io' = [io EXCEPT ![p].pc = "count", ![p].c = h]
      BY <1>8, <2>3 DEF ReadGet
    <3>2. /\ h \in Typed /\ Tail(tty.secondary) \in Seq(Typed)
          /\ EndsIn(Tail(tty.secondary)) = EndsIn(tty.secondary) - IF h \in Ends THEN 1 ELSE 0
          /\ Len(Tail(tty.secondary)) < TTY_BUF_SIZE
      <4>1. Len(Tail(tty.secondary)) = Len(tty.secondary) - 1 /\ Len(tty.secondary) \in Nat
        BY <1>1, <2>3
      <4>2. QED
        BY <1>1, <2>3, <4>1, TtyAssumption, EndsMove, SMTT(60)
    <3> HIDE DEF h
    <3>3. r \in Calls /\ r.pc = "count" /\ r.c = h
      BY <1>3, <3>2 DEF Calls, InKernel
    <3>4. io' \in [Procs -> Calls] /\ io'[p] = r /\ \A x \in Procs \ {p} : io'[x] = io[x]
      BY <1>1, <1>2, <3>1, <3>3
    <3>5. /\ IsLine(tty') /\ tty'.data = tty.data /\ tty'.secondary = Tail(tty.secondary)
          /\ tty'.tx = tty.tx /\ tty'.write_q = tty.write_q
      BY <1>1, <3>1, <3>2 DEF IsLine, Lines
    <3> HIDE DEF r
    <3>6. One(Takes(io[p])) = 0 /\ One(Takes(io'[p])) = IF h \in Ends THEN 1 ELSE 0
      BY <1>2, <2>1, <3>3, <3>4 DEF One, Takes
    <3>7. tty'.data - EndsIn(tty'.secondary) - One(Takes(io'[p]))
           = tty.data - EndsIn(tty.secondary) - One(Takes(io[p]))
      BY <1>1, <3>2, <3>5, <3>6
    <3>8. ~Sends(io[p])
      BY <1>2, <2>1 DEF Sends
    <3>9. io'[p].pc = "count"
      BY <3>3, <3>4
    <3>10. QED
      BY <1>4, <1>5, <2>1, <2>3, <3>4, <3>5, <3>7, <3>8, <3>9, ByOne
  <2>4. QED
    BY <2>2, <2>3
<1>9. CASE ReadCount(p)
  <2>1. /\ v.pc = "count"
        /\ tty' = [tty EXCEPT !.data = IF v.c \in Ends THEN @ - 1 ELSE @]
    BY <1>2, <1>9 DEF ReadCount, InCall
  <2>2. /\ IsLine(tty') /\ tty'.data = tty.data - One(Takes(v))
        /\ tty'.secondary = tty.secondary
        /\ tty'.tx = tty.tx /\ tty'.write_q = tty.write_q
    <3>1. PICK d : d = IF v.c \in Ends THEN tty.data - 1 ELSE tty.data
      OBVIOUS
    <3>2. d \in Int /\ d = tty.data - One(Takes(v))
      BY <1>1, <2>1, <3>1 DEF One, Takes
    <3>3. tty' = [tty EXCEPT !.data = d]
      BY <2>1, <3>1
    <3>4. QED
      BY <1>1, <3>2, <3>3 DEF IsLine, Lines
  <2>3. /\ io' \in [Procs -> Calls] /\ running' \in {p, Nobody}
        /\ \A x \in Procs \ {p} : io'[x] = io[x]
        /\ io'[p].pc \in {"idle", "get", "done"}
        /\ io'[p].pc \in InKernel => running' = p
    <3>1. CASE io' = [io EXCEPT ![p] = NoCall] /\ running' = Nobody
      <4>1. NoCall \in Calls /\ NoCall.pc = "idle" /\ "idle" \notin InKernel
        BY DEF NoCall, Calls, Typed, InKernel
      <4>2. QED
        BY <1>1, <3>1, <4>1
    <3>2. CASE ~(io' = [io EXCEPT ![p] = NoCall] /\ running' = Nobody)
      <4>1. PICK w \in {"get", "done"} :
              /\ io' = [io EXCEPT ![p].nr = @ - 1, ![p].c = "a", ![p].pc = w]
              /\ running' = running
        BY <1>9, <3>2 DEF ReadCount
      <4> DEFINE r == [v EXCEPT !.nr = @ - 1, !.c = "a", !.pc = w]
      <4>2. r \in Calls /\ r.pc = w
        <5>1. PICK n \in Int : n = v.nr - 1
          BY <1>3
        <5>2. "a" \in Typed
          BY DEF Typed
        <5>3. r = [v EXCEPT !.nr = n, !.c = "a", !.pc = w]
          BY <5>1
        <5> HIDE DEF r
        <5>4. QED
          BY <1>3, <5>2, <5>3 DEF Calls, InKernel
      <4>3. io' = [io EXCEPT ![p] = r]
        BY <1>1, <1>2, <4>1
      <4> HIDE DEF r
      <4>4. QED
        BY <1>1, <1>4, <4>1, <4>2, <4>3, ZenonT(60)
    <3>3. QED
      BY <3>1, <3>2
  <2>4. One(Takes(io'[p])) = 0 /\ One(Takes(io[p])) = One(Takes(v)) /\ One(Takes(v)) \in Int
    BY <1>2, <2>3 DEF One, Takes
  <2>5. tty'.data - EndsIn(tty'.secondary) - One(Takes(io'[p]))
           = tty.data - EndsIn(tty.secondary) - One(Takes(io[p]))
    BY <1>1, <2>2, <2>4
  <2>6. ~Sends(io[p])
    BY <1>2, <2>1 DEF Sends
  <2>7. QED
    BY <1>4, <2>2, <2>3, <2>5, <2>6, ByOne
<1>10. CASE ReadDone(p)
  <2>1. Leave(p) /\ v.pc = "done"
    BY <1>2, <1>10 DEF ReadDone, InCall
  <2>2. QED
    BY <1>2, <1>4, <2>1, LeaveKeeps DEF Takes, Sends
<1>11. QED
  BY <1>6, <1>7, <1>8, <1>9, <1>10

(* The steps of tty_write.                                                 *)
LEMMA WriteKeeps ==
  ASSUME LineInv, NEW p \in Procs,
         \/ WriteLoop(p) \/ sleep_if_full(p) \/ WriteNext(p) \/ WriteLoad(p)
         \/ WriteStore(p) \/ WriteStart(p)
  PROVE  LineInv'
<1>1. /\ IsLine(tty) /\ tty \in Lines /\ tty.write_q \in 0..(TTY_BUF_SIZE - 1)
      /\ io \in [Procs -> Calls] /\ io[p] \in Calls
  BY DEF LineInv, IsLine, Lines
<1>2. PICK v : v = io[p]
  OBVIOUS
<1>3. v \in Calls /\ v.c \in Typed /\ v.nr \in Int /\ v.got \in {0, 1}
  BY <1>1, <1>2 DEF Calls
<1>4. running = p
  BY DEF WriteLoop, sleep_if_full, WriteNext, WriteLoad, WriteStore, WriteStart, InCall
<1>5. {"write", "next", "load", "store", "start"} \subseteq InKernel
      /\ {"full", "full_asleep", "ready", "idle"} \cap InKernel = {}
  BY DEF InKernel
<1>6. CASE WriteLoop(p)
  <2>1. v.pc = "write"
    BY <1>2, <1>6 DEF WriteLoop, InCall
  <2>2. CASE Leave(p)
    BY <1>2, <1>4, <2>1, <2>2, LeaveKeeps DEF Takes, Sends
  <2>3. CASE ~Leave(p)
    <3>1. PICK w \in {"full", "next"} :
            io' = [io EXCEPT ![p].pc = w] /\ running' = running /\ tty' = tty
      BY <1>6, <2>3 DEF WriteLoop, Goto
    <3> DEFINE r == [v EXCEPT !.pc = w]
    <3>2. r \in Calls /\ r.pc = w
      BY <1>3 DEF Calls, InKernel
    <3>3. io' = [io EXCEPT ![p] = r]
      BY <1>1, <1>2, <3>1
    <3> HIDE DEF r
    <3>4. ~Takes(v) /\ ~Takes(r) /\ ~Sends(v)
      BY <2>1, <3>2 DEF Takes, Sends
    <3>5. QED
      BY <1>2, <1>4, <3>1, <3>2, <3>3, <3>4, OnlyPc
  <2>4. QED
    BY <2>2, <2>3
<1>7. CASE sleep_if_full(p)
  <2>1. PICK w \in {"full_asleep", "next"} :
          /\ io' = [io EXCEPT ![p].pc = w] /\ tty' = tty
          /\ w = "full_asleep" => LEFT(tty.write_q) < Low /\ running' = Nobody
          /\ w = "next" => running' = running
    BY <1>7 DEF sleep_if_full, Goto
  <2>2. v.pc = "full"
    BY <1>2, <1>7 DEF sleep_if_full, InCall
  <2> DEFINE r == [v EXCEPT !.pc = w]
  <2>3. r \in Calls /\ r.pc = w
    BY <1>3 DEF Calls, InKernel
  <2>4. io' = [io EXCEPT ![p] = r]
    BY <1>1, <1>2, <2>1
  <2> HIDE DEF r
  <2>5. ~Takes(v) /\ ~Takes(r) /\ ~Sends(v)
    BY <2>2, <2>3 DEF Takes, Sends
  <2>6. (r.pc \in InKernel => running' = p) /\ running' \in {p, Nobody}
    BY <1>4, <1>5, <2>1, <2>3
  <2>7. w = "full_asleep" => tty.write_q # 0
    BY <1>1, <2>1, TtyAssumption DEF LEFT
  <2>8. QED
    BY <1>2, <1>4, <2>1, <2>3, <2>4, <2>5, <2>6, <2>7, OnlyPc
<1>8. CASE WriteNext(p)
  <2>1. v.pc = "next"
    BY <1>2, <1>8 DEF WriteNext, InCall
  <2>2. CASE p \in signal /\ io[p].got = 0
    <3>1. Leave(p)
      BY <1>8, <2>2 DEF WriteNext
    <3>2. QED
      BY <1>2, <1>4, <2>1, <2>2, <3>1, LeaveKeeps DEF Takes, Sends
  <2>3. CASE ~(p \in signal /\ io[p].got = 0)
    <3>1. PICK w \in {"load", "start"} :
            io' = [io EXCEPT ![p].pc = w] /\ running' = running /\ tty' = tty
      BY <1>8, <2>3 DEF WriteNext, Goto
    <3> DEFINE r == [v EXCEPT !.pc = w]
    <3>2. r \in Calls /\ r.pc = w /\ r.got = v.got
      BY <1>3 DEF Calls, InKernel
    <3>3. io' = [io EXCEPT ![p] = r]
      BY <1>1, <1>2, <3>1
    <3> HIDE DEF r
    <3>4. ~Takes(v) /\ ~Takes(r) /\ (Sends(v) => Sends(r))
      BY <2>1, <3>2 DEF Takes, Sends
    <3>5. QED
      BY <1>2, <1>4, <3>1, <3>2, <3>3, <3>4, OnlyPc
  <2>4. QED
    BY <2>2, <2>3
<1>9. CASE WriteLoad(p)
  <2>1. /\ v.pc = "load" /\ running' = running
        /\ tty' = [tty EXCEPT !.head = "loaded"]
        /\ io' = [io EXCEPT ![p].pc = "store"]
    BY <1>2, <1>9 DEF WriteLoad, InCall, Goto
  <2> DEFINE r == [v EXCEPT !.pc = "store"]
  <2>2. r \in Calls /\ r.pc = "store" /\ r.got = v.got
    BY <1>3 DEF Calls, InKernel
  <2>3. io' \in [Procs -> Calls] /\ io'[p] = r /\ \A x \in Procs \ {p} : io'[x] = io[x]
    BY <1>1, <1>2, <2>1, <2>2
  <2>4. /\ IsLine(tty') /\ tty'.data = tty.data /\ tty'.secondary = tty.secondary
        /\ tty'.tx = tty.tx /\ tty'.write_q = tty.write_q
    BY <1>1, <2>1 DEF IsLine, Lines
  <2> HIDE DEF r
  <2>5. ~Takes(io[p]) /\ ~Takes(io'[p]) /\ (Sends(io[p]) => Sends(io'[p]))
    BY <1>2, <2>1, <2>2, <2>3 DEF Takes, Sends
  <2>6. io'[p].pc = "store"
    BY <2>2, <2>3
  <2>7. QED
    BY <1>4, <2>1, <2>3, <2>4, <2>5, <2>6, ByOne DEF One
<1>10. CASE WriteStore(p)
  <2>1. v.pc = "store" /\ running' = running
    BY <1>2, <1>10 DEF WriteStore, InCall
  <2>2. CASE tty.head = "moved"
    <3>1. UNCHANGED <<tty, io, running>>
      BY <1>10, <2>2 DEF WriteStore
    <3>2. QED
      BY <3>1 DEF LineInv, Taking, LineSleepers, Asleep
  <2>3. CASE tty.head # "moved"
    <3> DEFINE r == [v EXCEPT !.pc = "next", !.nr = @ - 1, !.got = 1]
    <3>1. /\ tty' = [tty EXCEPT !.write_q = Wrapped(@ + 1), !.head = "stored"]
          /\ io' = [io EXCEPT ![p].pc = "next", ![p].nr = @ - 1, ![p].got = 1]
      BY <1>10, <2>3 DEF WriteStore
    <3>2. r \in Calls /\ r.pc = "next" /\ r.got = 1
      <4>1. PICK n \in Int : n = v.nr - 1
        BY <1>3
      <4>2. r = [v EXCEPT !.pc = "next", !.nr = n, !.got = 1]
        BY <4>1
      <4> HIDE DEF r
      <4>3. QED
        BY <1>3, <4>2 DEF Calls, InKernel
    <3>3. io' = [io EXCEPT ![p] = r]
      BY <1>1, <1>2, <3>1
    <3> HIDE DEF r
    <3>4. io' \in [Procs -> Calls] /\ io'[p] = r /\ \A x \in Procs \ {p} : io'[x] = io[x]
      BY <1>1, <3>2, <3>3
    <3>5. Wrapped(tty.write_q + 1) \in 0..(TTY_BUF_SIZE - 1)
      BY <1>1, TtyAssumption DEF Wrapped
    <3>6. /\ IsLine(tty') /\ tty'.data = tty.data /\ tty'.secondary = tty.secondary
          /\ tty'.tx = tty.tx
      BY <1>1, <3>1, <3>5 DEF IsLine, Lines
    <3>7. ~Takes(io[p]) /\ ~Takes(io'[p]) /\ Sends(io'[p])
      BY <1>2, <2>1, <3>2, <3>4 DEF Takes, Sends
    <3>8. io'[p].pc = "next"
      BY <3>2, <3>4
    <3>9. QED
      BY <1>4, <2>1, <3>4, <3>6, <3>7, <3>8, ByOne DEF One
  <2>4. QED
    BY <2>2, <2>3
<1>11. CASE WriteStart(p)
  <2>1. v.pc = "start" /\ running' = Nobody /\ tty' = rs_write(tty)
    BY <1>2, <1>11 DEF WriteStart, InCall
  <2>2. /\ IsLine(tty') /\ tty'.data = tty.data /\ tty'.secondary = tty.secondary
        /\ tty.tx => tty'.tx
        /\ tty'.write_q # 0 => tty'.tx
    BY <1>1, <2>1 DEF IsLine, Lines, rs_write
  <2>3. /\ io' \in [Procs -> Calls] /\ \A x \in Procs \ {p} : io'[x] = io[x]
        /\ io'[p].pc \in {"idle", "ready"}
    <3>1. CASE io' = [io EXCEPT ![p] = NoCall]
      <4>1. NoCall \in Calls /\ NoCall.pc = "idle"
        BY DEF NoCall, Calls, Typed
      <4>2. QED
        BY <1>1, <3>1, <4>1
    <3>2. CASE io' # [io EXCEPT ![p] = NoCall]
      <4>1. io' = [io EXCEPT ![p].pc = "ready", ![p].got = 0]
        BY <1>11, <3>2 DEF WriteStart
      <4> DEFINE r == [v EXCEPT !.pc = "ready", !.got = 0]
      <4>2. r \in Calls /\ r.pc = "ready"
        BY <1>3 DEF Calls
      <4>3. io' = [io EXCEPT ![p] = r]
        BY <1>1, <1>2, <4>1
      <4> HIDE DEF r
      <4>4. QED
        BY <1>1, <4>2, <4>3
    <3>3. QED
      BY <3>1, <3>2
  <2>4. ~Takes(io[p]) /\ ~Takes(io'[p])
    BY <1>2, <2>1, <2>3 DEF Takes
  <2>5. io'[p].pc \notin InKernel /\ io'[p].pc \notin {"empty_asleep", "full_asleep"}
    BY <1>5, <2>3
  <2>6. QED
    BY <1>4, <2>1, <2>2, <2>3, <2>4, <2>5, ByOne DEF One
<1>12. QED
  BY <1>6, <1>7, <1>8, <1>9, <1>10, <1>11

(* Every step keeps the line in order.                                     *)
LEMMA LineStep == LineInv /\ [TtyNext]_ttyVars => LineInv'
<1> SUFFICES ASSUME LineInv, [TtyNext]_ttyVars PROVE LineInv'
  OBVIOUS
<1>1. CASE read_char
  BY <1>1, ReadCharKeeps
<1>2. CASE write_char
  BY <1>2, WriteCharKeeps
<1>3. CASE tty_ioctl
  BY <1>3, IoctlKeeps
<1>4. ASSUME NEW p \in Procs, TtyProcess(p) PROVE LineInv'
  <2>1. io \in [Procs -> Calls] /\ io[p] \in Calls
    BY DEF LineInv
  <2>2. ASSUME NEW w \in {"read", "write"}, StartCall(p, w) PROVE LineInv'
    <3>1. PICK n \in Sizes : io' = [io EXCEPT ![p] = [NoCall EXCEPT !.pc = w, !.nr = n]]
      BY <2>2 DEF StartCall
    <3> DEFINE r == [NoCall EXCEPT !.pc = w, !.nr = n]
    <3>2. n \in Int
      BY TtyAssumption
    <3>3. r \in Calls /\ r.pc = w
      BY <3>2 DEF NoCall, Calls, Typed, InKernel
    <3> HIDE DEF r
    <3>4. running = Nobody /\ running' = p /\ io[p].pc = "idle" /\ tty' = tty
      BY <2>2 DEF StartCall
    <3>5. ~Takes(io[p]) /\ ~Takes(r) /\ ~Sends(io[p])
      BY <3>3, <3>4 DEF Takes, Sends
    <3>6. io' = [io EXCEPT ![p] = r]
      BY <3>1 DEF r
    <3>7. r.pc \notin {"empty_asleep", "full_asleep"}
      BY <3>3
    <3>8. QED
      BY <3>3, <3>4, <3>5, <3>6, <3>7, OnlyPc
  <2>3. CASE Resume(p)
    <3>1. /\ running = Nobody /\ running' = p /\ tty' = tty
          /\ io[p].pc \in {"empty", "full", "ready"}
          /\ io' = [io EXCEPT ![p].pc = IF @ = "ready" THEN "write" ELSE @]
      BY <2>3 DEF Resume
    <3>2. PICK v : v = io[p]
      OBVIOUS
    <3> DEFINE r == [v EXCEPT !.pc = IF @ = "ready" THEN "write" ELSE @]
    <3>3. r \in Calls /\ r.pc \in {"empty", "full", "write"}
      BY <2>1, <3>1, <3>2 DEF Calls, InKernel
    <3>4. io' = [io EXCEPT ![p] = r]
      BY <2>1, <3>1, <3>2
    <3> HIDE DEF r
    <3>5. ~Takes(io[p]) /\ ~Takes(r) /\ ~Sends(io[p])
      BY <3>1, <3>3 DEF Takes, Sends
    <3>6. r.pc \notin {"empty_asleep", "full_asleep"}
      BY <3>3
    <3>7. QED
      BY <3>1, <3>3, <3>4, <3>5, <3>6, OnlyPc
  <2>4. QED
    BY <1>4, <2>2, <2>3, ReadKeeps, WriteKeeps DEF TtyProcess
<1>5. CASE UNCHANGED ttyVars
  BY <1>5 DEF ttyVars, LineInv, Taking, LineSleepers, Asleep
<1>6. QED
  BY <1>1, <1>2, <1>3, <1>4, <1>5 DEF TtyNext

(* At first nobody is there and nothing waits.                             *)
LEMMA LineStart == TtyInit => LineInv
<1> SUFFICES ASSUME TtyInit PROVE LineInv
  OBVIOUS
<1>1. IsLine(tty) /\ tty.secondary = <<>> /\ tty.data = 0 /\ tty.write_q = 0
  BY TtyAssumption DEF TtyInit, IsLine, Lines
<1>2. /\ io \in [Procs -> Calls] /\ \A p \in Procs : io[p].pc = "idle"
  BY DEF TtyInit, NoCall, Calls, Typed
<1>3. EndsIn(tty.secondary) = 0
  <2>1. {i \in DOMAIN tty.secondary : tty.secondary[i] \in Ends} = {}
    BY <1>1
  <2>2. QED
    BY <2>1, FS_EmptySet DEF EndsIn
<1>4. Cardinality(Taking) = 0
  <2>1. Taking = {}
    BY <1>2 DEF Taking, Takes
  <2>2. QED
    BY <2>1, FS_EmptySet
<1>5. QED
  BY <1>1, <1>2, <1>3, <1>4 DEF TtyInit, LineInv, LineSleepers, Asleep, InKernel

(* The count of lines that tty_read decides on is right, between any two   *)
(* steps of readers and of the interrupt, for any queues and any readers.  *)
THEOREM AlwaysLinesCounted == TtySpec => []LinesCounted
<1>1. LineInv => LinesCounted
  <2> SUFFICES ASSUME LineInv PROVE LinesCounted
    OBVIOUS
  <2>1. Taking = {p \in Procs : io[p].pc = "count" /\ io[p].c \in Ends}
    BY DEF Taking, Takes
  <2>2. QED
    BY <2>1 DEF LineInv, LinesCounted, EndsIn
<1>2. QED
  BY <1>1, LineStart, LineStep, PTL DEF TtySpec

(* Nobody sleeps for what is there, whatever interrupts come and whatever  *)
(* the modes are changed to meanwhile.                                     *)
THEOREM NoLineSleepsOn == TtySpec => []LineSleepers
<1>1. LineInv => LineSleepers
  BY DEF LineInv
<1>2. QED
  BY <1>1, LineStart, LineStep, PTL DEF TtySpec

---------------------------------------------------------------------------
(* The key table.                                                          *)

\* The steps that move something of the table.
KeyStep ==
  \/ kset = Idle /\ \E k \in Keys : KeysetGlobal(k)
  \/ kset = Idle /\ \E s \in Slots, k \in Keys : KeysetLocal(s, k)
  \/ kset = Idle /\ KeyclearGlobal
  \/ kset = Idle /\ \E s \in Slots : KeyclearLocal(s)
  \/ KeysetRenew
  \/ KeysetClaim
  \/ Clock

\* The sys_keyset under way knows its second, and a place that is still free.
Under ==
  /\ \/ kset = Idle
     \/ kset \in [at : {"renew"}, s : Slots, key : Keys \ {NoKey}, due : Nat]
     \/ kset \in [at : {"claim"}, s : Slots, key : Keys \ {NoKey}, due : Nat, place : Places]
  /\ kset # Idle => kset.due - LocalLife \in {seconds, seconds - 1}
  /\ kset.at = "claim" => /\ kset.place \in nizSlobodnih
                          /\ nizProcesIDova[kset.s] \in {kset.place, -1}
  /\ kset.at = "renew" => \A j \in Places : nizProcesVremena[j] <= kset.due

KeyTypes ==
  /\ seconds \in Nat
  /\ nizProcesIDova \in [Slots -> Places \cup {-1}]
  /\ nizProcesVremena \in [Places -> Nat \cup {-1}]
  /\ nizSlobodnih \subseteq Places
  /\ nizProcesa \in [Places -> Keys \cup {NoKey}]
  /\ prviSledeciBrojac \in Nat \cup {-1}

\* No place belongs to two, a free one has no time, and no time is too late.
Distinct ==
  \A s, r \in Slots : nizProcesIDova[s] = nizProcesIDova[r] /\ nizProcesIDova[s] # -1
                        => s = r
NoneBlank ==
  \A j \in Places : /\ j \in nizSlobodnih => nizProcesVremena[j] = -1
                    /\ nizProcesVremena[j] <= seconds + LocalLife

HoldersKnown ==
  \A s \in Holding :
    /\ nizProcesIDova[s] \notin nizSlobodnih
    /\ nizProcesa[nizProcesIDova[s]] # NoKey
    /\ nizProcesVremena[nizProcesIDova[s]] > seconds
    /\ prviSledeciBrojac \in 0..nizProcesVremena[nizProcesIDova[s]]
TakenHeld ==
  \A j \in Places \ nizSlobodnih : \E s \in Holding : nizProcesIDova[s] = j

InTable == KeyTypes /\ Under /\ Distinct /\ NoneBlank /\ HoldersKnown /\ TakenHeld

KeyInv == wild \in BOOLEAN /\ (wild \/ InTable)

(* The greatest of some numbers below a bound is one of them.              *)
LEMMA NatMax ==
  ASSUME NEW n \in Nat, NEW T \in SUBSET (0..n), T # {}
  PROVE  Max(T) \in T
<1> DEFINE U == {n - x : x \in T}
<1>1. U \in SUBSET Nat /\ U # {}
  <2>1. \A x \in T : x \in 0..n /\ n - x \in Nat
    OBVIOUS
  <2>2. QED
    BY <2>1
<1>2. PICK u \in U : \A y \in U : u <= y
  BY <1>1, NatMin
<1>3. PICK x \in T : u = n - x
  OBVIOUS
<1>4. \A y \in T : x >= y
  <2> SUFFICES ASSUME NEW y \in T PROVE x >= y
    OBVIOUS
  <2>1. n - y \in U
    OBVIOUS
  <2>2. u <= n - y
    BY <1>2, <2>1
  <2>3. x \in 0..n /\ y \in 0..n
    OBVIOUS
  <2>4. QED
    BY <1>3, <2>2, <2>3
<1>5. QED
  BY <1>4 DEF Max

(* Reading, writing and the lists of encrypted files touch no key.         *)
LEMMA FilesTouchNoKey == [Next]_vars => KeyStep \/ UNCHANGED keyVars
<1> SUFFICES ASSUME [Next]_vars PROVE KeyStep \/ UNCHANGED keyVars
  OBVIOUS
<1>1. CASE KeyRest
  BY <1>1 DEF KeyRest, KeyStep
<1>2. ASSUME NEW s \in Slots, KeyCall(s) PROVE KeyStep
  BY <1>2, SMTT(60) DEF KeyCall, KeyStep, At
<1>3. ASSUME NEW s \in Slots, FileCall(s) PROVE UNCHANGED keyVars
  BY <1>3, ZenonT(60) DEF FileCall, SysEncry, SysDecry, SysReadWrite, SysEncryDir, SysDecryDir, Enter
<1>4. ASSUME NEW s \in Slots, FileStep(s) PROVE UNCHANGED keyVars
  BY <1>4 DEF FileStep, ListForRW, FoldersForDecry, ListForEncry, Enlist, ListForDecry,
       Delist, Walk, ListDir, Decrypt, Encrypt, Copy
<1>5. CASE UNCHANGED vars
  BY <1>5 DEF vars
<1>6. QED
  BY <1>1, <1>2, <1>3, <1>4, <1>5 DEF Next

(* sys_keyset begins for a process.                                        *)
LEMMA KeysetLocalKeeps ==
  ASSUME InTable, ~wild, kset = Idle, NEW s \in Slots, NEW k \in Keys, KeysetLocal(s, k)
  PROVE  InTable'
<1>1. k # NoKey
  <2>1. Len(NoKey) = 0
    BY DEF NoKey
  <2>2. Len(k) \in {1, 2, 4, 8, 16, 32, 64, 128, 256, 512}
    BY DEF KeysetLocal, PowerOfTwo
  <2>3. PICK n : n = Len(k)
    OBVIOUS
  <2>4. n # 0
    BY <2>2, <2>3
  <2>5. QED
    BY <2>1, <2>3, <2>4
<1>2. LocalLife \in Nat /\ seconds \in Nat /\ BROJ \in Nat \ {0}
  BY KeyTableAssumption DEF InTable, KeyTypes
<1>3. UNCHANGED <<seconds, nizProcesVremena, nizSlobodnih, nizProcesa, prviSledeciBrojac>>
  BY DEF KeysetLocal
<1>4. kset.at = "none" /\ Idle.at = "none"
  BY DEF Idle
<1>5. CASE nizProcesIDova[s] # -1
  <2>1. /\ kset' = [at |-> "renew", s |-> s, key |-> k, due |-> seconds + LocalLife]
        /\ nizProcesIDova' = nizProcesIDova
    BY <1>5 DEF KeysetLocal
  <2>2. /\ kset' \in [at : {"renew"}, s : Slots, key : Keys \ {NoKey}, due : Nat]
        /\ kset'.at = "renew" /\ kset'.due = seconds + LocalLife
    BY <1>1, <1>2, <2>1
  <2>3. Holding' = Holding
    BY <1>3, <1>4, <2>1, <2>2 DEF Holding
  <2>4. Under'
    BY <1>2, <1>3, <2>2 DEF Under, InTable, NoneBlank
  <2>5. QED
    BY <1>3, <2>1, <2>3, <2>4 DEF InTable, KeyTypes, Distinct, NoneBlank, HoldersKnown, TakenHeld
<1>6. CASE nizProcesIDova[s] = -1
  <2>1. PICK p : p = Max(nizSlobodnih)
    OBVIOUS
  <2>2. /\ nizSlobodnih # {}
        /\ nizProcesIDova' = [nizProcesIDova EXCEPT ![s] = p]
        /\ kset' = [at |-> "claim", s |-> s, key |-> k, due |-> seconds + LocalLife,
                    place |-> p]
    BY <1>6, <2>1 DEF KeysetLocal
  <2>3. p \in nizSlobodnih /\ p \in Places /\ p # -1
    <3>1. BROJ - 1 \in Nat /\ nizSlobodnih \in SUBSET (0..(BROJ - 1))
      BY <1>2 DEF InTable, KeyTypes, Places
    <3>2. p \in nizSlobodnih
      BY <2>1, <2>2, <3>1, NatMax
    <3>3. QED
      BY <3>1, <3>2 DEF Places
  <2>4. /\ kset' \in [at : {"claim"}, s : Slots, key : Keys \ {NoKey}, due : Nat,
                      place : Places]
        /\ kset'.at = "claim" /\ kset'.due = seconds + LocalLife /\ kset'.s = s
        /\ kset'.place = p
    BY <1>1, <1>2, <2>2, <2>3
  <2>5. /\ nizProcesIDova' \in [Slots -> Places \cup {-1}]
        /\ nizProcesIDova'[s] = p
        /\ \A r \in Slots \ {s} : nizProcesIDova'[r] = nizProcesIDova[r]
    BY <2>2, <2>3 DEF InTable, KeyTypes
  <2>6. Holding' = Holding /\ s \notin Holding
    BY <1>4, <1>6, <2>4, <2>5 DEF Holding
  <2>7. \A r \in Slots : nizProcesIDova[r] # -1 => nizProcesIDova[r] # p
    BY <1>4, <2>3 DEF InTable, HoldersKnown, Holding
  <2>8. Under'
    BY <1>2, <1>3, <2>3, <2>4, <2>5 DEF Under, Idle
  <2>9. Distinct'
    BY <2>5, <2>7 DEF InTable, Distinct
  <2>10. HoldersKnown' /\ TakenHeld'
    BY <1>3, <2>5, <2>6 DEF InTable, HoldersKnown, TakenHeld, Holding
  <2>11. KeyTypes' /\ NoneBlank'
    BY <1>3, <2>5 DEF InTable, KeyTypes, NoneBlank
  <2>12. QED
    BY <2>8, <2>9, <2>10, <2>11 DEF InTable
<1>7. QED
  BY <1>5, <1>6

(* sys_keyset ends for a process that had a key.                           *)
LEMMA KeysetRenewKeeps ==
  ASSUME InTable, ~wild, KeysetRenew, ~wild'
  PROVE  InTable'
<1>1. /\ kset.at = "renew" /\ kset' = Idle /\ Idle.at = "none"
      /\ UNCHANGED <<seconds, nizProcesIDova, nizSlobodnih, prviSledeciBrojac>>
  BY DEF KeysetRenew, Idle
<1>2. kset.s \in Slots /\ kset.key \in Keys \ {NoKey} /\ kset.due \in Nat
  BY <1>1 DEF InTable, Under
<1>3. PICK j : j = nizProcesIDova[kset.s]
  OBVIOUS
<1>4. /\ j # -1
      /\ nizProcesa' = [nizProcesa EXCEPT ![j] = kset.key]
      /\ nizProcesVremena' = [nizProcesVremena EXCEPT ![j] = kset.due]
  BY <1>3 DEF KeysetRenew
<1>5. j \in Places /\ kset.s \in Holding
  BY <1>1, <1>2, <1>3, <1>4 DEF InTable, KeyTypes, Holding
<1>6. Holding' = Holding
  BY <1>1 DEF Holding
<1>7. LocalLife \in Nat \ {0, 1} /\ seconds \in Nat
      /\ kset.due - LocalLife \in {seconds, seconds - 1}
  BY <1>1, KeyTableAssumption DEF InTable, KeyTypes, Under, Idle
<1>8. /\ nizProcesVremena' \in [Places -> Nat \cup {-1}]
      /\ nizProcesa' \in [Places -> Keys \cup {NoKey}]
      /\ nizProcesVremena'[j] = kset.due /\ nizProcesa'[j] = kset.key
      /\ \A i \in Places \ {j} : /\ nizProcesVremena'[i] = nizProcesVremena[i]
                                 /\ nizProcesa'[i] = nizProcesa[i]
  BY <1>2, <1>4, <1>5 DEF InTable, KeyTypes
<1>9. kset.due > seconds /\ kset.due <= seconds + LocalLife
  BY <1>2, <1>7
<1>10. j \notin nizSlobodnih /\ nizProcesVremena[j] <= kset.due
       /\ prviSledeciBrojac \in 0..nizProcesVremena[j] /\ nizProcesVremena[j] \in Nat \cup {-1}
  BY <1>1, <1>3, <1>5 DEF InTable, HoldersKnown, Under, KeyTypes
<1>11. NoneBlank'
  BY <1>1, <1>8, <1>9, <1>10 DEF InTable, NoneBlank
<1>12. HoldersKnown'
  <2> SUFFICES ASSUME NEW r \in Holding
               PROVE  /\ nizProcesIDova[r] \notin nizSlobodnih
                      /\ nizProcesa'[nizProcesIDova[r]] # NoKey
                      /\ nizProcesVremena'[nizProcesIDova[r]] > seconds
                      /\ prviSledeciBrojac \in 0..nizProcesVremena'[nizProcesIDova[r]]
    BY <1>1, <1>6 DEF HoldersKnown
  <2>1. PICK i : i = nizProcesIDova[r]
    OBVIOUS
  <2>2. /\ i \in Places /\ i \notin nizSlobodnih /\ nizProcesa[i] # NoKey
        /\ nizProcesVremena[i] > seconds /\ prviSledeciBrojac \in 0..nizProcesVremena[i]
    BY <2>1 DEF InTable, HoldersKnown, KeyTypes, Holding
  <2>3. CASE i = j
    <3>1. prviSledeciBrojac \in 0..kset.due
      BY <1>2, <1>10
    <3>2. QED
      BY <1>2, <1>8, <1>9, <1>10, <2>1, <2>3, <3>1
  <2>4. CASE i # j
    BY <1>8, <2>1, <2>2, <2>4
  <2>5. QED
    BY <2>3, <2>4
<1>13. Under' /\ Distinct' /\ TakenHeld' /\ KeyTypes'
  BY <1>1, <1>6, <1>8 DEF InTable, Under, Distinct, TakenHeld, KeyTypes
<1>14. QED
  BY <1>11, <1>12, <1>13 DEF InTable

(* sys_keyset ends for a process that had no key.                          *)
LEMMA KeysetClaimKeeps ==
  ASSUME InTable, ~wild, KeysetClaim, ~wild'
  PROVE  InTable'
<1>1. /\ kset.at = "claim" /\ kset' = Idle /\ Idle.at = "none"
      /\ UNCHANGED <<seconds, nizProcesIDova>>
  BY DEF KeysetClaim, Idle
<1>2. /\ kset.s \in Slots /\ kset.key \in Keys \ {NoKey} /\ kset.due \in Nat
      /\ kset.place \in Places
  BY <1>1 DEF InTable, Under, Idle
<1>3. PICK j, who : j = kset.place /\ who = kset.s
  OBVIOUS
<1>4. /\ nizProcesIDova[who] = j
      /\ j \in nizSlobodnih /\ j \in Places /\ j # -1
      /\ who \in Slots
  BY <1>1, <1>2, <1>3 DEF KeysetClaim, InTable, Under, Places
<1>5. /\ nizProcesVremena' = [nizProcesVremena EXCEPT ![j] = kset.due]
      /\ nizSlobodnih' = nizSlobodnih \ {j}
      /\ nizProcesa' = [nizProcesa EXCEPT ![j] = kset.key]
      /\ prviSledeciBrojac' = NextLook(kset.due)
  BY <1>3, <1>4 DEF KeysetClaim
<1>6. Holding' = Holding \cup {who} /\ who \notin Holding
  BY <1>1, <1>3, <1>4 DEF Holding
<1>7. LocalLife \in Nat \ {0, 1} /\ seconds \in Nat
      /\ kset.due - LocalLife \in {seconds, seconds - 1}
  BY <1>1, KeyTableAssumption DEF InTable, KeyTypes, Under, Idle
<1>8. /\ nizProcesVremena' \in [Places -> Nat \cup {-1}]
      /\ nizProcesa' \in [Places -> Keys \cup {NoKey}]
      /\ nizProcesVremena'[j] = kset.due /\ nizProcesa'[j] = kset.key
      /\ \A i \in Places \ {j} : /\ nizProcesVremena'[i] = nizProcesVremena[i]
                                 /\ nizProcesa'[i] = nizProcesa[i]
  BY <1>2, <1>4, <1>5 DEF InTable, KeyTypes
<1>9. kset.due > seconds /\ kset.due <= seconds + LocalLife
  BY <1>2, <1>7
<1>10. /\ prviSledeciBrojac \in Nat \cup {-1}
       /\ prviSledeciBrojac' \in 0..kset.due
       /\ prviSledeciBrojac \in Nat => prviSledeciBrojac' <= prviSledeciBrojac
  BY <1>2, <1>5 DEF NextLook, InTable, KeyTypes
<1>11. NoneBlank'
  BY <1>1, <1>5, <1>8, <1>9 DEF InTable, NoneBlank
<1>12. HoldersKnown'
  <2> SUFFICES ASSUME NEW r \in Holding'
               PROVE  /\ nizProcesIDova[r] \notin nizSlobodnih'
                      /\ nizProcesa'[nizProcesIDova[r]] # NoKey
                      /\ nizProcesVremena'[nizProcesIDova[r]] > seconds
                      /\ prviSledeciBrojac' \in 0..nizProcesVremena'[nizProcesIDova[r]]
    BY <1>1 DEF HoldersKnown
  <2>1. CASE r = who
    BY <1>2, <1>4, <1>5, <1>8, <1>9, <1>10, <2>1
  <2>2. CASE r # who
    <3>1. PICK i : i = nizProcesIDova[r]
      OBVIOUS
    <3>2. /\ i \in Places /\ i \notin nizSlobodnih /\ nizProcesa[i] # NoKey
          /\ nizProcesVremena[i] > seconds /\ prviSledeciBrojac \in 0..nizProcesVremena[i]
      BY <1>6, <2>2, <3>1 DEF InTable, HoldersKnown, KeyTypes, Holding
    <3>3. nizProcesVremena[i] \in Nat \cup {-1} /\ prviSledeciBrojac \in Nat
      BY <1>10, <3>2 DEF InTable, KeyTypes
    <3>4. i # j
      BY <1>4, <3>2
    <3>5. prviSledeciBrojac' \in 0..nizProcesVremena[i]
      BY <1>2, <1>10, <3>2, <3>3
    <3>6. QED
      BY <1>5, <1>8, <3>1, <3>2, <3>4, <3>5
  <2>3. QED
    BY <2>1, <2>2
<1>13. TakenHeld'
  BY <1>1, <1>4, <1>5, <1>6 DEF InTable, TakenHeld
<1>14. KeyTypes'
  BY <1>1, <1>2, <1>5, <1>8, <1>10 DEF InTable, KeyTypes
<1>15. Under' /\ Distinct'
  BY <1>1 DEF InTable, Under, Distinct
<1>16. QED
  BY <1>11, <1>12, <1>13, <1>14, <1>15 DEF InTable

(* sys_keyclear of a process's key.                                        *)
LEMMA KeyclearLocalKeeps ==
  ASSUME InTable, ~wild, kset = Idle, NEW s \in Slots, KeyclearLocal(s)
  PROVE  InTable'
<1>1. PICK j : j = nizProcesIDova[s]
  OBVIOUS
<1>2. /\ j # -1
      /\ nizSlobodnih' = nizSlobodnih \cup {j}
      /\ nizProcesa' = [nizProcesa EXCEPT ![j] = NoKey]
      /\ nizProcesVremena' = [nizProcesVremena EXCEPT ![j] = -1]
      /\ nizProcesIDova' = [nizProcesIDova EXCEPT ![s] = -1]
      /\ UNCHANGED <<seconds, prviSledeciBrojac, kset>>
  BY <1>1 DEF KeyclearLocal
<1>3. kset.at = "none"
  BY DEF Idle
<1>4. j \in Places
  BY <1>1, <1>2 DEF InTable, KeyTypes
<1>5. /\ nizProcesVremena' \in [Places -> Nat \cup {-1}]
      /\ nizProcesa' \in [Places -> Keys \cup {NoKey}]
      /\ nizProcesIDova' \in [Slots -> Places \cup {-1}]
      /\ nizProcesVremena'[j] = -1
      /\ \A i \in Places \ {j} : /\ nizProcesVremena'[i] = nizProcesVremena[i]
                                 /\ nizProcesa'[i] = nizProcesa[i]
      /\ nizProcesIDova'[s] = -1
      /\ \A r \in Slots \ {s} : nizProcesIDova'[r] = nizProcesIDova[r]
  BY <1>2, <1>4 DEF InTable, KeyTypes
<1>6. Holding' = Holding \ {s} /\ s \in Holding
  BY <1>1, <1>2, <1>3, <1>5 DEF Holding
<1>7. \A r \in Slots \ {s} : nizProcesIDova[r] # j
  BY <1>1, <1>2 DEF InTable, Distinct
<1>8. seconds \in Nat /\ LocalLife \in Nat
  BY KeyTableAssumption DEF InTable, KeyTypes
<1>9. NoneBlank'
  BY <1>2, <1>5, <1>8 DEF InTable, NoneBlank
<1>10. HoldersKnown'
  <2> SUFFICES ASSUME NEW r \in Holding'
               PROVE  /\ nizProcesIDova'[r] \notin nizSlobodnih'
                      /\ nizProcesa'[nizProcesIDova'[r]] # NoKey
                      /\ nizProcesVremena'[nizProcesIDova'[r]] > seconds
                      /\ prviSledeciBrojac \in 0..nizProcesVremena'[nizProcesIDova'[r]]
    BY <1>2 DEF HoldersKnown
  <2>1. r \in Holding /\ r # s /\ r \in Slots
    BY <1>6 DEF Holding
  <2>2. PICK i : i = nizProcesIDova[r]
    OBVIOUS
  <2>3. /\ i \in Places /\ i \notin nizSlobodnih /\ nizProcesa[i] # NoKey
        /\ nizProcesVremena[i] > seconds /\ prviSledeciBrojac \in 0..nizProcesVremena[i]
    BY <2>1, <2>2 DEF InTable, HoldersKnown, KeyTypes, Holding
  <2>4. i # j /\ nizProcesIDova'[r] = i
    BY <1>5, <1>7, <2>1, <2>2
  <2>5. QED
    BY <1>2, <1>5, <2>3, <2>4
<1>11. TakenHeld'
  BY <1>1, <1>2, <1>5, <1>6 DEF InTable, TakenHeld, Holding
<1>12. KeyTypes'
  BY <1>2, <1>4, <1>5 DEF InTable, KeyTypes
<1>13. Distinct'
  BY <1>5 DEF InTable, Distinct
<1>14. Under'
  BY <1>2, <1>3 DEF Under
<1>15. QED
  BY <1>9, <1>10, <1>11, <1>12, <1>13, <1>14 DEF InTable

(* The clock: funkcija takes away the keys that are due.                   *)
LEMMA ClockKeeps ==
  ASSUME InTable, ~wild, Clock
  PROVE  InTable'
<1>1. /\ seconds' = seconds + 1 /\ kset' = kset /\ Funkcija
      /\ kset = Idle \/ seconds = kset.due - LocalLife
  BY DEF Clock
<1>2. seconds \in Nat /\ LocalLife \in Nat \ {0, 1}
  BY KeyTableAssumption DEF InTable, KeyTypes
<1>3. PICK t : t = seconds + 1
  OBVIOUS
<1>4. t \in Nat /\ seconds' = t /\ t > seconds
  BY <1>1, <1>2, <1>3
<1>5. kset # Idle => kset.due - LocalLife \in {t, t - 1}
  BY <1>1, <1>2, <1>3
<1>6. CASE UNCHANGED <<nizProcesIDova, nizProcesVremena, nizSlobodnih, nizProcesa,
                       prviSledeciBrojac>>
           /\ (prviSledeciBrojac > t \/ prviSledeciBrojac = -1)
  <2>1. Holding' = Holding
    BY <1>1, <1>6 DEF Holding
  <2>2. HoldersKnown'
    <3> SUFFICES ASSUME NEW r \in Holding PROVE nizProcesVremena[nizProcesIDova[r]] > t
      BY <1>4, <1>6, <2>1 DEF InTable, HoldersKnown
    <3>1. PICK i : i = nizProcesIDova[r]
      OBVIOUS
    <3>2. /\ i \in Places /\ prviSledeciBrojac \in 0..nizProcesVremena[i]
          /\ nizProcesVremena[i] \in Nat \cup {-1}
      BY <3>1 DEF InTable, HoldersKnown, KeyTypes, Holding
    <3>3. QED
      BY <1>4, <1>6, <3>1, <3>2
  <2>3. NoneBlank'
    BY <1>2, <1>4, <1>6 DEF InTable, NoneBlank, KeyTypes
  <2>4. Under'
    BY <1>1, <1>4, <1>5, <1>6 DEF InTable, Under
  <2>5. KeyTypes' /\ Distinct' /\ TakenHeld'
    BY <1>4, <1>6, <2>1 DEF InTable, KeyTypes, Distinct, TakenHeld
  <2>6. QED
    BY <2>2, <2>3, <2>4, <2>5 DEF InTable
<1>7. CASE ~(prviSledeciBrojac > t \/ prviSledeciBrojac = -1)
  <2> DEFINE due == {s \in Slots : nizProcesIDova[s] # -1
                                   /\ nizProcesVremena[nizProcesIDova[s]] <= seconds'}
             gone == {nizProcesIDova[s] : s \in due}
             left == {nizProcesVremena[nizProcesIDova[s]] :
                        s \in {r \in Slots \ due : nizProcesIDova[r] # -1}} \ {-1}
  <2>1. /\ nizProcesVremena' = [j \in Places |-> IF j \in gone THEN -1 ELSE nizProcesVremena[j]]
        /\ nizSlobodnih' = nizSlobodnih \cup gone
        /\ nizProcesa' = [j \in Places |-> IF j \in gone THEN NoKey ELSE nizProcesa[j]]
        /\ nizProcesIDova' = [s \in Slots |-> IF s \in due THEN -1 ELSE nizProcesIDova[s]]
        /\ prviSledeciBrojac' = IF left = {} THEN -1 ELSE Min(left)
    BY <1>1, <1>4, <1>7 DEF Funkcija
  <2>2. gone \subseteq Places
    BY DEF InTable, KeyTypes
  <2>3. \A s \in Slots : s \notin due /\ nizProcesIDova[s] # -1
          => /\ nizProcesVremena[nizProcesIDova[s]] > t
             /\ nizProcesVremena[nizProcesIDova[s]] \in left
             /\ nizProcesIDova[s] \in Places
             /\ nizProcesIDova[s] \notin gone
    <3> SUFFICES ASSUME NEW s \in Slots, s \notin due, nizProcesIDova[s] # -1
                 PROVE  /\ nizProcesVremena[nizProcesIDova[s]] > t
                        /\ nizProcesVremena[nizProcesIDova[s]] \in left
                        /\ nizProcesIDova[s] \in Places
                        /\ nizProcesIDova[s] \notin gone
      OBVIOUS
    <3>1. nizProcesIDova[s] \in Places
      BY DEF InTable, KeyTypes
    <3>2. nizProcesVremena[nizProcesIDova[s]] \in Nat \cup {-1}
      BY <3>1 DEF InTable, KeyTypes
    <3>3. nizProcesVremena[nizProcesIDova[s]] > t
      BY <1>4, <3>2
    <3>4. nizProcesVremena[nizProcesIDova[s]] # -1
      BY <1>4, <3>2, <3>3
    <3>5. nizProcesIDova[s] \notin gone
      BY DEF InTable, Distinct
    <3>6. QED
      BY <3>1, <3>3, <3>4, <3>5
  <2>4. left \in SUBSET Nat
    BY DEF InTable, KeyTypes
  <2> HIDE DEF left
  <2>5. /\ prviSledeciBrojac' \in Nat \cup {-1}
        /\ \A x \in left : prviSledeciBrojac' \in Nat /\ prviSledeciBrojac' <= x /\ x \in Nat
    <3>1. CASE left = {}
      BY <2>1, <3>1
    <3>2. CASE left # {}
      <4>1. Min(left) \in left /\ \A x \in left : Min(left) <= x
        BY <2>4, <3>2, NatMin
      <4>2. QED
        BY <2>1, <2>4, <3>2, <4>1
    <3>3. QED
      BY <3>1, <3>2
  <2>6. /\ \A s \in due : s \in Slots
        /\ \A s \in Slots : s \in due => nizProcesIDova[s] \in gone
        /\ \A j \in gone : j \in Places
    BY <2>2
  <2> HIDE DEF due, gone
  <2>7. /\ KeyTypes'
        /\ \A s \in Slots : nizProcesIDova'[s] = IF s \in due THEN -1 ELSE nizProcesIDova[s]
        /\ \A j \in Places : /\ nizProcesVremena'[j] = IF j \in gone THEN -1 ELSE nizProcesVremena[j]
                             /\ nizProcesa'[j] = IF j \in gone THEN NoKey ELSE nizProcesa[j]
    <3>1. nizProcesIDova' \in [Slots -> Places \cup {-1}]
      BY <2>1 DEF InTable, KeyTypes
    <3>2. nizProcesVremena' \in [Places -> Nat \cup {-1}]
      BY <2>1 DEF InTable, KeyTypes
    <3>3. nizProcesa' \in [Places -> Keys \cup {NoKey}]
      BY <2>1 DEF InTable, KeyTypes
    <3>4. nizSlobodnih' \subseteq Places
      BY <2>1, <2>2 DEF InTable, KeyTypes
    <3>5. QED
      BY <1>4, <2>1, <2>5, <3>1, <3>2, <3>3, <3>4 DEF KeyTypes
  <2>8. Distinct'
    BY <2>7 DEF InTable, Distinct
  <2>9. NoneBlank'
    <3> SUFFICES ASSUME NEW j \in Places
                 PROVE  /\ j \in nizSlobodnih' => nizProcesVremena'[j] = -1
                        /\ nizProcesVremena'[j] <= t + LocalLife
      BY <1>4 DEF NoneBlank
    <3>1. /\ j \in nizSlobodnih => nizProcesVremena[j] = -1
          /\ nizProcesVremena[j] <= seconds + LocalLife
          /\ nizProcesVremena[j] \in Nat \cup {-1}
      BY DEF InTable, NoneBlank, KeyTypes
    <3>2. QED
      BY <1>2, <1>4, <2>1, <2>7, <3>1
  <2>10. \A s \in Slots : s \in Holding' <=> s \in Holding /\ s \notin due
    BY <1>1, <2>7 DEF Holding
  <2>11. HoldersKnown'
    <3> SUFFICES ASSUME NEW r \in Holding'
                 PROVE  /\ nizProcesIDova'[r] \notin nizSlobodnih'
                        /\ nizProcesa'[nizProcesIDova'[r]] # NoKey
                        /\ nizProcesVremena'[nizProcesIDova'[r]] > t
                        /\ prviSledeciBrojac' \in 0..nizProcesVremena'[nizProcesIDova'[r]]
      BY <1>4 DEF HoldersKnown
    <3>1. r \in Slots /\ r \in Holding /\ r \notin due
      <4>1. r \in Slots
        BY DEF Holding
      <4>2. QED
        BY <2>10, <4>1
    <3>2. PICK i : i = nizProcesIDova[r]
      OBVIOUS
    <3>3. nizProcesIDova'[r] = i /\ i # -1
      BY <2>7, <3>1, <3>2 DEF Holding
    <3>4. /\ nizProcesVremena[i] > t /\ nizProcesVremena[i] \in left
          /\ i \in Places /\ i \notin gone
      BY <2>3, <3>1, <3>2, <3>3
    <3>5. nizProcesVremena'[i] = nizProcesVremena[i] /\ nizProcesa'[i] = nizProcesa[i]
      BY <2>7, <3>4
    <3>6. i \notin nizSlobodnih /\ nizProcesa[i] # NoKey
      BY <3>1, <3>2 DEF InTable, HoldersKnown
    <3>7. prviSledeciBrojac' \in 0..nizProcesVremena[i]
      BY <2>5, <3>4
    <3>8. QED
      BY <2>1, <3>3, <3>4, <3>5, <3>6, <3>7
  <2>12. TakenHeld'
    <3> SUFFICES ASSUME NEW j \in Places, j \notin nizSlobodnih'
                 PROVE  \E s \in Holding' : nizProcesIDova'[s] = j
      BY DEF TakenHeld
    <3>1. j \notin nizSlobodnih /\ j \notin gone
      BY <2>1
    <3>2. PICK s \in Holding : nizProcesIDova[s] = j
      BY <3>1 DEF InTable, TakenHeld
    <3>3. s \in Slots /\ s \notin due
      BY <2>6, <3>1, <3>2 DEF Holding
    <3>4. s \in Holding' /\ nizProcesIDova'[s] = j
      BY <2>7, <2>10, <3>2, <3>3
    <3>5. QED
      BY <3>4
  <2>13. Under'
    <3>1. kset'.at = "renew" => \A j \in Places : nizProcesVremena'[j] <= kset'.due
      <4> SUFFICES ASSUME kset.at = "renew", NEW j \in Places
                   PROVE  nizProcesVremena'[j] <= kset.due
        BY <1>1
      <4>1. nizProcesVremena[j] <= kset.due /\ kset.due \in Nat
        BY DEF InTable, Under, Idle
      <4>2. QED
        BY <2>7, <4>1
    <3>2. kset'.at = "claim" => /\ kset'.place \in nizSlobodnih'
                                /\ nizProcesIDova'[kset'.s] \in {kset'.place, -1}
      <4> SUFFICES ASSUME kset.at = "claim"
                   PROVE  /\ kset.place \in nizSlobodnih'
                          /\ nizProcesIDova'[kset.s] \in {kset.place, -1}
        BY <1>1
      <4>1. /\ kset.place \in nizSlobodnih /\ kset.s \in Slots
            /\ nizProcesIDova[kset.s] \in {kset.place, -1}
        BY DEF InTable, Under, Idle
      <4>2. QED
        BY <2>1, <2>7, <4>1
    <3>3. QED
      BY <1>1, <1>4, <1>5, <3>1, <3>2 DEF InTable, Under
  <2>14. QED
    BY <2>7, <2>8, <2>9, <2>11, <2>12, <2>13 DEF InTable
<1>8. CASE prviSledeciBrojac > t \/ prviSledeciBrojac = -1
  BY <1>1, <1>4, <1>6, <1>8 DEF Funkcija
<1>9. QED
  BY <1>7, <1>8

(* Every step keeps the table in step, or writes at index -1.              *)
LEMMA KeysStep == KeyInv /\ [Next]_vars => KeyInv'
<1> SUFFICES ASSUME KeyInv, [Next]_vars PROVE KeyInv'
  OBVIOUS
<1>1. CASE UNCHANGED keyVars
  BY <1>1 DEF keyVars, KeyInv, InTable, KeyTypes, Under, Distinct, NoneBlank, HoldersKnown,
              TakenHeld, Holding
<1>2. CASE KeyStep
  <2>1. wild' \in BOOLEAN /\ (wild => wild')
    BY <1>2 DEF KeyInv, KeyStep, KeysetGlobal, KeysetLocal, KeyclearGlobal, KeyclearLocal,
                KeysetRenew, KeysetClaim, Clock
  <2>2. ASSUME InTable, ~wild, ~wild' PROVE InTable'
    <3>1. CASE (\E k \in Keys : KeysetGlobal(k)) \/ KeyclearGlobal
      <4>1. UNCHANGED <<seconds, nizProcesIDova, nizProcesVremena, nizSlobodnih,
                        nizProcesa, prviSledeciBrojac, kset>>
        BY <3>1 DEF KeysetGlobal, KeyclearGlobal
      <4>2. QED
        BY <2>2, <4>1 DEF InTable, KeyTypes, Under, Distinct, NoneBlank, HoldersKnown,
                          TakenHeld, Holding
    <3>2. QED
      BY <1>2, <2>2, <3>1, KeysetLocalKeeps, KeysetRenewKeeps, KeysetClaimKeeps,
         KeyclearLocalKeeps, ClockKeeps DEF KeyStep
  <2>3. QED
    BY <2>1, <2>2 DEF KeyInv
<1>3. QED
  BY <1>1, <1>2, FilesTouchNoKey

(* No process's key outlives its time and no place is lost, for any number *)
(* of places, whatever is set, replaced and cleared, unless the clock's    *)
(* interrupt falls into sys_keyset and it writes at index -1.              *)
THEOREM KeysAlwaysExpire == Spec => []KeysExpire
<1>1. Init => KeyInv
  <2> SUFFICES ASSUME Init PROVE KeyInv
    OBVIOUS
  <2>1. /\ seconds = 0 /\ nizProcesIDova = [s \in Slots |-> -1]
        /\ nizProcesVremena = [j \in Places |-> -1] /\ nizSlobodnih = Places
        /\ nizProcesa = [j \in Places |-> NoKey] /\ prviSledeciBrojac = -1
        /\ kset = Idle /\ wild = FALSE
    BY DEF Init, KeyInit
  <2>2. KeyTypes
    BY <2>1 DEF KeyTypes
  <2>3. Holding = {} /\ Distinct /\ TakenHeld
    BY <2>1 DEF Holding, Distinct, TakenHeld
  <2>4. NoneBlank
    BY <2>1, KeyTableAssumption DEF NoneBlank
  <2>5. Under
    BY <2>1 DEF Under, Idle
  <2>6. QED
    BY <2>1, <2>2, <2>3, <2>4, <2>5 DEF KeyInv, InTable, HoldersKnown
<1>2. KeyInv => KeysExpire
  <2> SUFFICES ASSUME InTable PROVE KeysExpire
    BY DEF KeyInv, KeysExpire
  <2>1. ASSUME NEW j \in Places \ nizSlobodnih
        PROVE  Cardinality({s \in Holding : nizProcesIDova[s] = j}) = 1
    <3>1. PICK s \in Holding : nizProcesIDova[s] = j
      BY DEF InTable, TakenHeld
    <3>2. {r \in Holding : nizProcesIDova[r] = j} = {s}
      BY <3>1 DEF InTable, Distinct, Holding
    <3>3. QED
      BY <3>2, FS_Singleton
  <2>2. QED
    BY <2>1 DEF KeysExpire, InTable, HoldersKnown
<1>3. QED
  BY <1>1, <1>2, KeysStep, PTL DEF Spec

---------------------------------------------------------------------------
(* The cipher.                                                             *)

(* A number is known by its quotient and its remainder.                    *)
LEMMA DivMod ==
  ASSUME NEW b \in Nat \ {0}, NEW a \in Nat, NEW r \in 0..(b - 1)
  PROVE  (a * b + r) \div b = a /\ (a * b + r) % b = r
<1> DEFINE x == a * b + r
           q == x \div b
           m == x % b
<1>1. a * b \in Nat /\ x \in Nat
  OBVIOUS
<1> HIDE DEF x
<1>2. q \in Int /\ m \in 0..(b - 1) /\ x = b * q + m
  BY <1>1
<1> HIDE DEF q, m
<1>3. q = a
  <2>1. CASE q > a
    <3>1. PICK d \in Nat : q = a + 1 + d
      <4>1. q - a - 1 \in Nat /\ q = a + 1 + (q - a - 1)
        BY <1>2, <2>1
      <4>2. QED
        BY <4>1
    <3>2. b * q = a * b + b + b * d /\ b * d \in Nat
      BY <1>2, <3>1
    <3>3. QED
      BY <1>1, <1>2, <3>2 DEF x
  <2>2. CASE q < a
    <3>1. PICK d \in Nat : a = q + 1 + d
      <4>1. a - q - 1 \in Nat /\ a = q + 1 + (a - q - 1)
        BY <1>2, <2>2
      <4>2. QED
        BY <4>1
    <3>2. a * b = b * q + b + b * d /\ b * d \in Nat
      BY <1>2, <3>1
    <3>3. QED
      BY <1>1, <1>2, <3>2 DEF x
  <2>3. QED
    BY <1>2, <2>1, <2>2
<1>4. m = r
  BY <1>1, <1>2, <1>3 DEF x
<1>5. QED
  BY <1>3, <1>4 DEF x, q, m

(* The quotient and the remainder of what is below a product.              *)
LEMMA DivBelow ==
  ASSUME NEW b \in Nat \ {0}, NEW c \in Nat, NEW x \in 0..(b * c - 1)
  PROVE  x \div b \in 0..(c - 1) /\ x % b \in 0..(b - 1) /\ x = (x \div b) * b + (x % b)
<1> DEFINE q == x \div b
           m == x % b
<1>1. b * c \in Nat /\ x \in Nat /\ x < b * c
  OBVIOUS
<1>2. q \in Nat /\ m \in 0..(b - 1) /\ x = b * q + m
  BY <1>1
<1> HIDE DEF q, m
<1>3. q < c
  <2> SUFFICES ASSUME q >= c PROVE FALSE
    BY <1>2
  <2>1. PICK d \in Nat : q = c + d
    <3>1. q - c \in Nat /\ q = c + (q - c)
      BY <1>2
    <3>2. QED
      BY <3>1
  <2>2. b * q = b * c + b * d /\ b * d \in Nat
    BY <2>1
  <2>3. QED
    BY <1>1, <1>2, <2>2
<1>4. x = q * b + m
  BY <1>2
<1>5. q \in 0..(c - 1) /\ m \in 0..(b - 1) /\ x = q * b + m
  BY <1>2, <1>3, <1>4
<1>6. QED
  BY <1>5, Zenon DEF q, m

\* f names each of the columns 0 .. n - 1 once.
IsOrder(f, n) ==
  /\ f \in [1..n -> 0..(n - 1)]
  /\ \A i, j \in 1..n : f[i] = f[j] => i = j
  /\ \A c \in 0..(n - 1) : \E i \in 1..n : f[i] = c

(* Two columns that change places are two columns still.                   *)
LEMMA SwapOrder ==
  ASSUME NEW n \in Nat, NEW f, IsOrder(f, n), NEW i \in 1..n, NEW j \in 1..n, i # j
  PROVE  IsOrder(Swapped(f, i, j), n)
<1> DEFINE g == Swapped(f, i, j)
<1>1. /\ f \in [1..n -> 0..(n - 1)]
      /\ \A k, l \in 1..n : f[k] = f[l] => k = l
      /\ \A c \in 0..(n - 1) : \E k \in 1..n : f[k] = c
  BY DEF IsOrder
<1>2. /\ g \in [1..n -> 0..(n - 1)]
      /\ g[i] = f[j] /\ g[j] = f[i]
      /\ \A k \in 1..n : k # i /\ k # j => g[k] = f[k]
  BY <1>1 DEF Swapped
<1> HIDE DEF g
<1>3. \A k, l \in 1..n : g[k] = g[l] => k = l
  <2> DEFINE other(k) == IF k = i THEN j ELSE IF k = j THEN i ELSE k
  <2>1. \A k \in 1..n : other(k) \in 1..n /\ g[k] = f[other(k)]
    BY <1>2
  <2>2. \A k, l \in 1..n : other(k) = other(l) => k = l
    OBVIOUS
  <2> HIDE DEF other
  <2>3. QED
    BY <1>1, <2>1, <2>2
<1>4. \A c \in 0..(n - 1) : \E k \in 1..n : g[k] = c
  <2> SUFFICES ASSUME NEW c \in 0..(n - 1) PROVE \E k \in 1..n : g[k] = c
    OBVIOUS
  <2>1. PICK k \in 1..n : f[k] = c
    BY <1>1
  <2>2. QED
    BY <1>2, <2>1
<1>5. IsOrder(g, n)
  BY <1>2, <1>3, <1>4 DEF IsOrder
<1>6. QED
  BY <1>5 DEF g

\* What the sort begins with, does for its q-th pair, and has done after n.
Unsorted(key) == [tmp |-> key, idx |-> [i \in 1..Len(key) |-> i - 1]]
NextPair(acc, n, q) == SortStep(acc, ((q - 1) \div n) + 1, ((q - 1) % n) + 1)
Sorts(key, m, f) ==
  f = [q \in 0..m |-> IF q = 0 THEN Unsorted(key) ELSE NextPair(f[q - 1], Len(key), q)]

(* There is a function that notes how far the sort is.                     *)
LEMMA SortsExist ==
  ASSUME NEW key, NEW m \in Nat
  PROVE  \E f : Sorts(key, m, f)
<1> DEFINE Bad == {k \in Nat : ~ \E f : Sorts(key, k, f)}
           k == Min(Bad)
<1>1. SUFFICES ASSUME Bad # {}
               PROVE  FALSE
  OBVIOUS
<1>2. k \in Bad /\ \A j \in Bad : k <= j
  BY <1>1, NatMin
<1> HIDE DEF k
<1>3. k # 0
  <2> DEFINE f == [i \in 0..0 |-> Unsorted(key)]
  <2>1. Sorts(key, 0, f)
    BY DEF Sorts
  <2>2. QED
    BY <1>2, <2>1
<1>4. k - 1 \in Nat /\ k - 1 \notin Bad
  BY <1>2, <1>3
<1>5. PICK f : Sorts(key, k - 1, f)
  BY <1>4
<1> DEFINE N(o, q) == NextPair(o, Len(key), q)
           g == [q \in 0..k |-> IF q = k THEN N(f[k - 1], k) ELSE f[q]]
<1>6. \A q \in 0..(k - 1) : f[q] = IF q = 0 THEN Unsorted(key) ELSE N(f[q - 1], q)
  BY <1>5 DEF Sorts
<1>7. \A q \in 0..k : g[q] = IF q = 0 THEN Unsorted(key) ELSE N(g[q - 1], q)
  <2> HIDE DEF N
  <2> SUFFICES ASSUME NEW q \in 0..k
               PROVE  g[q] = IF q = 0 THEN Unsorted(key) ELSE N(g[q - 1], q)
    OBVIOUS
  <2>1. k \in Nat
    BY <1>2
  <2>2. CASE q = k
    <3>1. g[q - 1] = f[k - 1]
      BY <1>3, <2>1, <2>2
    <3>2. QED
      BY <1>3, <2>1, <2>2, <3>1
  <2>3. CASE q # k
    <3>1. q \in 0..(k - 1) /\ g[q] = f[q]
      BY <2>1, <2>3
    <3>2. q # 0 => g[q - 1] = f[q - 1]
      BY <2>1, <2>3
    <3> HIDE DEF g
    <3>3. QED
      BY <1>6, <3>1, <3>2
  <2>4. QED
    BY <2>2, <2>3
<1>8. Sorts(key, k, g)
  <2>1. g = [q \in 0..k |-> g[q]]
    OBVIOUS
  <2> HIDE DEF g
  <2>2. QED
    BY <1>7, <2>1 DEF Sorts
<1>9. QED
  BY <1>2, <1>8

(* The sort of a key's characters permutes the columns: of its steps the   *)
(* first that did not would follow on one that did.                        *)
LEMMA ColumnsOrder ==
  ASSUME NEW key, Len(key) \in Nat \ {0}
  PROVE  IsOrder(Columns(key), Len(key))
<1> DEFINE n == Len(key)
           f == CHOOSE g : Sorts(key, n * n, g)
<1>1. n \in Nat \ {0} /\ n * n \in Nat
  OBVIOUS
<1>2. Sorts(key, n * n, f)
  BY <1>1, SortsExist
<1>3. Columns(key) = f[n * n].idx
  BY Zenon DEF Columns, Sorts, Unsorted, NextPair
<1> HIDE DEF f, n
<1> DEFINE Bad == {q \in 0..(n * n) : ~IsOrder(f[q].idx, n)}
           k == Min(Bad)
<1>4. Bad = {}
  <2> SUFFICES ASSUME Bad # {} PROVE FALSE
    OBVIOUS
  <2>1. Bad \in SUBSET Nat
    BY <1>1
  <2> HIDE DEF Bad
  <2>2. k \in Bad /\ \A j \in Bad : k <= j
    BY <2>1, NatMin
  <2> HIDE DEF k
  <2> USE DEF Bad
  <2>3. k \in 0..(n * n)
        /\ f[k] = IF k = 0 THEN Unsorted(key) ELSE NextPair(f[k - 1], n, k)
    BY <1>1, <1>2, <2>2 DEF Sorts, n
  <2>4. k # 0
    <3>1. IsOrder(Unsorted(key).idx, n)
      <4> DEFINE o == [i \in 1..n |-> i - 1]
      <4>1. o \in [1..n -> 0..(n - 1)]
        BY <1>1
      <4>2. \A i, j \in 1..n : o[i] = o[j] => i = j
        BY <1>1
      <4>3. \A c \in 0..(n - 1) : \E i \in 1..n : o[i] = c
        <5> SUFFICES ASSUME NEW c \in 0..(n - 1) PROVE c + 1 \in 1..n /\ o[c + 1] = c
          OBVIOUS
        <5>1. QED
          BY <1>1
      <4>4. Unsorted(key).idx = o
        BY DEF Unsorted, n
      <4> HIDE DEF o
      <4>5. QED
        BY <4>1, <4>2, <4>3, <4>4 DEF IsOrder
    <3>2. QED
      BY <2>2, <2>3, <3>1
  <2>5. k - 1 \in 0..(n * n) /\ k - 1 \in 0..(n * n - 1) /\ k - 1 \notin Bad
    BY <1>1, <2>2, <2>3, <2>4
  <2>6. PICK u : u = f[k - 1]
    OBVIOUS
  <2>7. IsOrder(u.idx, n)
    BY <2>5, <2>6
  <2>8. PICK i, j : i = ((k - 1) \div n) + 1 /\ j = ((k - 1) % n) + 1
    OBVIOUS
  <2>9. i \in 1..n /\ j \in 1..n
    <3>1. (k - 1) \div n \in 0..(n - 1) /\ (k - 1) % n \in 0..(n - 1)
      BY <1>1, <2>5, DivBelow
    <3>2. PICK a, b : a = (k - 1) \div n /\ b = (k - 1) % n
      OBVIOUS
    <3>3. i = a + 1 /\ j = b + 1
      BY <2>8, <3>2
    <3>4. a \in 0..(n - 1) /\ b \in 0..(n - 1)
      BY <3>1, <3>2
    <3>5. QED
      BY <1>1, <3>3, <3>4
  <2>10. f[k] = SortStep(u, i, j)
    BY <2>3, <2>4, <2>6, <2>8 DEF NextPair
  <2>11. CASE i < j /\ u.tmp[i] > u.tmp[j]
    <3>1. f[k].idx = Swapped(u.idx, i, j)
      BY <2>10, <2>11 DEF SortStep
    <3>2. i # j
      BY <2>9, <2>11
    <3>3. QED
      BY <1>1, <2>2, <2>7, <2>9, <3>1, <3>2, SwapOrder
  <2>12. CASE ~(i < j /\ u.tmp[i] > u.tmp[j])
    <3>1. f[k] = u
      BY <2>10, <2>12 DEF SortStep
    <3>2. QED
      BY <2>2, <2>7, <3>1
  <2>13. QED
    BY <2>11, <2>12
<1>5. n * n \in 0..(n * n)
  BY <1>1
<1>6. IsOrder(f[n * n].idx, n)
  BY <1>4, <1>5
<1>7. QED
  BY <1>3, <1>6 DEF n

(* What is encrypted with a key is decrypted with it, whatever the block   *)
(* and whatever the key, as long as its length divides the block's:        *)
(* sys_keyset takes only powers of two up to 512, and a block has 1024     *)
(* bytes.                                                                  *)
THEOREM DecryptsWhatWasEncrypted ==
  ASSUME NEW S, NEW in \in [0..(BLOCK_SIZE - 1) -> S], NEW key,
         Len(key) \in Nat \ {0}, NEW rows \in Nat, Len(key) * rows = BLOCK_SIZE
  PROVE  dekriptuj(enkriptuj(in, key), key) = in
<1> DEFINE col == Len(key)
           idx == Columns(key)
           row == BLOCK_SIZE \div col
           from(c) == CHOOSE j \in 1..col : idx[j] = c
           out == enkriptuj(in, key)
           back == dekriptuj(out, key)
<1>1. BLOCK_SIZE \in Nat \ {0} /\ col \in Nat \ {0} /\ col * rows = BLOCK_SIZE
  BY BlockAssumption
<1>2. IsOrder(idx, col)
  BY ColumnsOrder
<1>3. /\ out = [n \in 0..(BLOCK_SIZE - 1) |-> in[(n % row) * col + idx[(n \div row) + 1]]]
      /\ back = [n \in 0..(BLOCK_SIZE - 1) |-> out[(from(n % col) - 1) * row + n \div col]]
  BY DEF enkriptuj, dekriptuj
<1> HIDE DEF col, idx, out, back
<1>4. rows \in Nat \ {0} /\ row = rows
  <2>1. rows # 0
    BY <1>1
  <2>2. rows * col + 0 = BLOCK_SIZE /\ 0 \in 0..(col - 1)
    BY <1>1
  <2>3. (rows * col + 0) \div col = rows
    BY <1>1, <2>2, DivMod
  <2>4. QED
    BY <2>1, <2>2, <2>3
<1> HIDE DEF row
<1>5. \A c \in 0..(col - 1) : from(c) \in 1..col /\ idx[from(c)] = c
  BY <1>2 DEF IsOrder
<1> HIDE DEF from
<1>6. ASSUME NEW n \in 0..(BLOCK_SIZE - 1)
      PROVE  back[n] = in[n]
  <2>1. PICK d, m : d = n \div col /\ m = n % col
    OBVIOUS
  <2>2. d \in 0..(row - 1) /\ m \in 0..(col - 1) /\ n = d * col + m
    <3>1. n \in 0..(col * rows - 1)
      BY <1>1
    <3>2. QED
      BY <1>1, <1>4, <2>1, <3>1, DivBelow
  <2>3. PICK j : j = from(m)
    OBVIOUS
  <2>4. j \in 1..col /\ idx[j] = m
    BY <1>5, <2>2, <2>3
  <2>5. PICK e : e = (j - 1) * row + d
    OBVIOUS
  <2>6. j - 1 \in Nat /\ j - 1 + 1 = j /\ row \in Nat \ {0}
    BY <1>1, <1>4, <2>4
  <2>7. e \div row = j - 1 /\ e % row = d
    BY <2>2, <2>5, <2>6, DivMod
  <2>8. e \in 0..(BLOCK_SIZE - 1)
    <3>1. PICK h \in Nat : col = j + h
      <4>1. col - j \in Nat /\ col = j + (col - j)
        BY <1>1, <2>4
      <4>2. QED
        BY <4>1
    <3>2. col * row = (j - 1) * row + row + h * row /\ h * row \in Nat /\ (j - 1) * row \in Nat
      <4>1. PICK i \in Nat : i = j - 1
        BY <2>6
      <4>2. (i + 1 + h) * row = i * row + row + h * row /\ h * row \in Nat /\ i * row \in Nat
        BY <2>6
      <4>3. col = i + 1 + h
        BY <2>6, <3>1, <4>1
      <4>4. QED
        BY <4>1, <4>2, <4>3
    <3>3. col * row = BLOCK_SIZE
      BY <1>1, <1>4
    <3>4. QED
      <4>1. PICK x \in Nat : x = (j - 1) * row
        BY <3>2
      <4>2. PICK y \in Nat : y = h * row
        BY <3>2
      <4>3. e = x + d /\ BLOCK_SIZE = x + row + y
        BY <2>5, <3>2, <3>3, <4>1, <4>2
      <4>4. d \in Nat /\ d < row
        BY <2>2, <2>6
      <4>5. QED
        BY <2>6, <4>3, <4>4
  <2>9. back[n] = out[e]
    BY <1>3, <2>1, <2>3, <2>5
  <2>10. out[e] = in[d * col + idx[j]]
    BY <1>3, <2>6, <2>7, <2>8
  <2>11. QED
    BY <2>2, <2>4, <2>9, <2>10
<1>7. back = [n \in 0..(BLOCK_SIZE - 1) |-> in[n]]
  BY <1>3, <1>6
<1>8. QED
  BY <1>7 DEF back, out

\* What one block of the buffer cache holds.
BlockBytes == 1024

\* A key of n numbers cuts a block of size bytes into whole rows.
Fits(n, size) == n \in Nat \ {0} /\ \E rows \in Nat : n * rows = size

(* Every length that sys_keyset takes divides 1024.                         *)
LEMMA AcceptedLengths ==
  ASSUME NEW n, PowerOfTwo(n), NEW size, size = BlockBytes
  PROVE  Fits(n, size)
<1>1. n \in {1, 2, 4, 8, 16, 32, 64, 128, 256, 512}
  BY DEF PowerOfTwo
<1>2. ASSUME n = 1
      PROVE  n \in Nat \ {0} /\ n * 1024 = 1024
  BY <1>2
<1>3. ASSUME n = 2
      PROVE  n \in Nat \ {0} /\ n * 512 = 1024
  BY <1>3
<1>4. ASSUME n = 4
      PROVE  n \in Nat \ {0} /\ n * 256 = 1024
  BY <1>4
<1>5. ASSUME n = 8
      PROVE  n \in Nat \ {0} /\ n * 128 = 1024
  BY <1>5
<1>6. ASSUME n = 16
      PROVE  n \in Nat \ {0} /\ n * 64 = 1024
  BY <1>6
<1>7. ASSUME n = 32
      PROVE  n \in Nat \ {0} /\ n * 32 = 1024
  BY <1>7
<1>8. ASSUME n = 64
      PROVE  n \in Nat \ {0} /\ n * 16 = 1024
  BY <1>8
<1>9. ASSUME n = 128
      PROVE  n \in Nat \ {0} /\ n * 8 = 1024
  BY <1>9
<1>10. ASSUME n = 256
      PROVE  n \in Nat \ {0} /\ n * 4 = 1024
  BY <1>10
<1>11. ASSUME n = 512
      PROVE  n \in Nat \ {0} /\ n * 2 = 1024
  BY <1>11
<1>12. QED
  BY <1>1, <1>2, <1>3, <1>4, <1>5, <1>6, <1>7, <1>8, <1>9, <1>10, <1>11 DEF Fits, BlockBytes

(* A key that fits decrypts what it encrypted.                              *)
LEMMA FittingKeysDecrypt ==
  ASSUME NEW S, NEW in \in [0..(BLOCK_SIZE - 1) -> S], NEW key, Fits(Len(key), BLOCK_SIZE)
  PROVE  dekriptuj(enkriptuj(in, key), key) = in
<1>1. PICK rows \in Nat : Len(key) * rows = BLOCK_SIZE
  BY DEF Fits
<1>2. Len(key) \in Nat \ {0}
  BY DEF Fits
<1>3. QED
  BY <1>1, <1>2, DecryptsWhatWasEncrypted

(* So it is for every key that sys_keyset takes and every block of 1024    *)
(* bytes.                                                                  *)
THEOREM AcceptedKeysDecrypt ==
  ASSUME BLOCK_SIZE = BlockBytes, NEW S, NEW in \in [0..(BLOCK_SIZE - 1) -> S],
         NEW key \in Seq(Nat), PowerOfTwo(Len(key))
  PROVE  dekriptuj(enkriptuj(in, key), key) = in
<1>1. Fits(Len(key), BLOCK_SIZE)
  BY AcceptedLengths
<1>2. QED
  BY <1>1, FittingKeysDecrypt

---------------------------------------------------------------------------
(* The console: what is seen, and where it is in memory.                   *)

Rows == 0..(lines - 1)
Cols == 0..(columns - 1)

Place(k, r, c) == k.origin + r * columns + c
View(k) == [r \in Rows |-> [c \in Cols |-> k.mem[k.origin + r * columns + c]]]

Glyphs == Letters \cup {Blank, Stale}
ConType ==
  [origin : Int, x : Int, y : Int, pos : Int, top : Int, bottom : Int,
   state : Int, npar : Int, par : [0..(NPAR - 1) -> Nat], attr : Int,
   saved_x : Int, saved_y : Int, mem : [Cells -> Glyphs]]

\* The window lies in the memory.
Framed(k) ==
  /\ k \in ConType
  /\ k.origin >= 0 /\ k.origin + lines * columns <= SCREEN_CELLS

\* The cursor and the region lie in the window.
InPlace(k) ==
  /\ k.x \in 0..columns /\ k.y \in Rows
  /\ k.pos = k.origin + k.y * columns + k.x
  /\ k.top \in Rows /\ k.bottom \in 1..lines /\ k.top < k.bottom
  /\ k.saved_x \in 0..columns /\ k.saved_y \in Rows
  /\ k.npar \in 0..(NPAR - 1)

ConInv(k) == Framed(k) /\ InPlace(k)

\* Longer sides have more cells.
LEMMA MoreRows ==
  ASSUME NEW w \in Nat, NEW a \in Int, NEW b \in Int, a <= b
  PROVE  a * w <= b * w
<1>1. PICK d \in Nat : b = a + d
  <2>1. b - a \in Nat /\ b = a + (b - a)
    OBVIOUS
  <2>2. QED
    BY <2>1
<1>2. (a + d) * w = a * w + d * w
  OBVIOUS
<1>3. d * w \in Nat /\ a * w \in Int
  OBVIOUS
<1>4. QED
  BY <1>1, <1>2, <1>3

\* Row by row, and in a row from the left to the right.
Precedes(r, c, y, x) == r < y \/ (r = y /\ c < x)

\* That is the order of places in memory; x may be past the last column.
LEMMA PlaceOrder ==
  ASSUME NEW k, k.origin \in Int, NEW r \in Int, NEW c \in Cols,
         NEW y \in Int, NEW x \in 0..columns
  PROVE  Place(k, r, c) < Place(k, y, x) <=> Precedes(r, c, y, x)
<1> USE ConsoleAssumption
<1> DEFINE R == r * columns
           Y == y * columns
<1>1. c \in Int /\ c >= 0 /\ c < columns /\ columns \in Nat /\ x >= 0 /\ x <= columns /\ x \in Int
  BY DEF Cols
<1>2. R \in Int /\ Y \in Int /\ (r + 1) * columns = R + columns /\ (y + 1) * columns = Y + columns
  BY <1>1
<1>3. r < y => R + columns <= Y
  <2>1. r < y => (r + 1) * columns <= y * columns
    BY <1>1, MoreRows
  <2>2. QED
    BY <1>2, <2>1
<1>4. y < r => Y + columns <= R
  <2>1. y < r => (y + 1) * columns <= r * columns
    BY <1>1, MoreRows
  <2>2. QED
    BY <1>2, <2>1
<1>5. Place(k, r, c) = k.origin + R + c /\ Place(k, y, x) = k.origin + Y + x
  BY DEF Place
<1>6. r = y => R = Y
  OBVIOUS
<1> HIDE DEF R, Y
<1>7. r < y \/ r = y \/ y < r
  OBVIOUS
<1>8. CASE r < y
  BY <1>1, <1>2, <1>3, <1>5, <1>8 DEF Precedes
<1>9. CASE r = y
  BY <1>1, <1>2, <1>5, <1>6, <1>9 DEF Precedes
<1>10. CASE y < r
  BY <1>1, <1>2, <1>4, <1>5, <1>10 DEF Precedes
<1>11. QED
  BY <1>7, <1>8, <1>9, <1>10

\* Places are numbers; s is j lines below r.
LEMMA PlaceBelow ==
  ASSUME NEW k, k.origin \in Int, NEW r \in Int, NEW c \in Int, NEW j \in Int, NEW s, s = r + j
  PROVE  /\ Place(k, r, c) \in Int /\ Place(k, s, c) \in Int /\ j * columns \in Int
         /\ Place(k, s, c) = Place(k, r, c) + j * columns
<1>1. columns \in Int
  BY ConsoleAssumption
<1>2. /\ r * columns \in Int /\ j * columns \in Int
      /\ (r + j) * columns = r * columns + j * columns
  BY <1>1
<1>3. QED
  BY <1>2 DEF Place

(* Where lines begin.                                                      *)
LEMMA PlaceBegin ==
  ASSUME NEW k, k.origin \in Int, NEW a \in Int
  PROVE  Place(k, a, 0) = k.origin + columns * a /\ Place(k, a, 0) \in Int /\ Place(k, 0, 0) = k.origin
<1>1. columns \in Int
  BY ConsoleAssumption
<1>2. a * columns = columns * a /\ columns * a \in Int /\ 0 * columns = 0
  BY <1>1
<1>3. QED
  BY <1>2 DEF Place

(* Where columns are.                                                      *)
LEMMA PlaceInt ==
  ASSUME NEW k, k.origin \in Int, NEW r \in Int, NEW c \in Int
  PROVE  Place(k, r, c) \in Int /\ Place(k, r, c) = Place(k, r, 0) + c
<1>1. columns \in Int
  BY ConsoleAssumption
<1>2. r * columns \in Int
  BY <1>1
<1>3. QED
  BY <1>2 DEF Place

\* Places in the window are cells of the memory.
LEMMA InMemory ==
  ASSUME NEW k, Framed(k), NEW r \in Rows, NEW c \in Cols
  PROVE  /\ Place(k, r, c) \in Cells /\ Place(k, r, c) \in Window(k)
         /\ r \in Nat /\ c \in Nat /\ k.origin \in Int
<1>1. k.origin \in Int /\ k.origin >= 0 /\ k.origin + lines * columns <= SCREEN_CELLS
  BY DEF Framed, ConType
<1>2. /\ lines \in Nat /\ columns \in Nat /\ columns > 0 /\ SCREEN_CELLS \in Nat /\ r \in Nat
      /\ r < lines /\ c \in Nat /\ lines * columns \in Int
  BY ConsoleAssumption DEF Rows, Cols
<1>3. Place(k, r, c) \in Int /\ Place(k, 0, 0) = k.origin
  BY <1>1, <1>2, PlaceInt, PlaceBegin
<1>4. Place(k, lines, 0) = k.origin + lines * columns
  BY <1>1, <1>2 DEF Place
<1>5. Place(k, r, c) < Place(k, lines, 0)
  BY <1>1, <1>2, PlaceOrder DEF Precedes
<1>6. ~(Place(k, r, c) < Place(k, 0, 0))
  BY <1>1, <1>2, PlaceOrder DEF Precedes
<1> HIDE DEF Place
<1>7. QED
  BY <1>1, <1>2, <1>3, <1>4, <1>5, <1>6 DEF Cells, Window

\* The memory alone is different.
Redrawn(k, m) == m \in ConType /\ m = [k EXCEPT !.mem = m.mem]

\* The window and the cursor stay where they are.
LEMMA StaysInPlace ==
  ASSUME NEW k, NEW m, Redrawn(k, m)
  PROVE  /\ Framed(k) => Framed(m) /\ m.origin = k.origin
         /\ ConInv(k) => ConInv(m) /\ m.x = k.x /\ m.y = k.y
<1>1. Framed(k) => Framed(m) /\ m.origin = k.origin
  BY DEF Redrawn, Framed, ConType
<1>2. ConInv(k) => InPlace(m) /\ m.x = k.x /\ m.y = k.y
  BY <1>1 DEF Redrawn, ConInv, InPlace, Framed, ConType
<1>3. QED
  BY <1>1, <1>2 DEF ConInv

\* So they do when it changes twice.
LEMMA RedrawnTwice ==
  ASSUME NEW k, k \in ConType, NEW m, NEW n, Redrawn(k, m), Redrawn(m, n)
  PROVE  Redrawn(k, n)
BY DEF Redrawn, ConType

\* Pictures are equal if their cells are.
Picture(v) == v = [r \in Rows |-> [c \in Cols |-> v[r][c]]]

(* Pictures are compared cell by cell.                                     *)
LEMMA SamePicture ==
  ASSUME NEW u, NEW v, Picture(u), Picture(v), \A r \in Rows, c \in Cols : u[r][c] = v[r][c]
  PROVE  u = v
BY DEF Picture

(* What is seen is a picture.                                              *)
LEMMA ViewPicture ==
  ASSUME NEW k
  PROVE  Picture(View(k)) /\ \A r \in Rows, c \in Cols : View(k)[r][c] = k.mem[Place(k, r, c)]
BY DEF Picture, View, Place

\* From row y, column x on and before row z, column w.
Within(r, c, y, x, z, w) == ~Precedes(r, c, y, x) /\ Precedes(r, c, z, w)

\* These are the places from one to the other.
LEMMA InRange ==
  ASSUME NEW k, Framed(k), NEW r \in Rows, NEW c \in Cols, NEW y \in Int, NEW x \in 0..columns,
         NEW z \in Int, NEW w \in 0..columns, NEW from, NEW count \in Int,
         from = Place(k, y, x), from + count = Place(k, z, w)
  PROVE  Place(k, r, c) \in from..(from + count - 1) <=> Within(r, c, y, x, z, w)
<1>1. k.origin \in Int /\ r \in Int /\ c \in Int /\ x \in Int /\ w \in Int
  BY InMemory DEF Rows, Cols
<1>2. Place(k, r, c) \in Int /\ Place(k, y, x) \in Int /\ Place(k, z, w) \in Int
  BY <1>1, PlaceInt
<1>3. /\ Place(k, r, c) < Place(k, y, x) <=> Precedes(r, c, y, x)
      /\ Place(k, r, c) < Place(k, z, w) <=> Precedes(r, c, z, w)
  BY <1>1, PlaceOrder
<1> HIDE DEF Place
<1>4. QED
  BY <1>2, <1>3 DEF Within

(* What Fill does to what is seen.                                         *)
LEMMA FillRange ==
  ASSUME NEW k, Framed(k), NEW y \in Int, NEW x \in 0..columns, NEW z \in Int, NEW w \in 0..columns,
         NEW from, NEW count \in Int, from = Place(k, y, x), from + count = Place(k, z, w)
  PROVE  /\ Redrawn(k, Fill(k, from, count))
         /\ \A r \in Rows, c \in Cols : View(Fill(k, from, count))[r][c] =
              IF Within(r, c, y, x, z, w) THEN Blank ELSE View(k)[r][c]
<1> DEFINE m == Fill(k, from, count)
<1>1. /\ Redrawn(k, m)
      /\ m.mem = [a \in Cells |-> IF a \in from..(from + count - 1) THEN Blank ELSE k.mem[a]]
  BY DEF Fill, ConType, Glyphs, Framed, Redrawn
<1> HIDE DEF m
<1>2. ASSUME NEW r \in Rows, NEW c \in Cols
      PROVE  View(m)[r][c] = IF Within(r, c, y, x, z, w) THEN Blank ELSE View(k)[r][c]
  <2>1. Place(m, r, c) = Place(k, r, c)
    BY <1>1, StaysInPlace DEF Place
  <2>2. Place(k, r, c) \in Cells
    BY InMemory
  <2>3. View(m)[r][c] = m.mem[Place(k, r, c)] /\ View(k)[r][c] = k.mem[Place(k, r, c)]
    BY <2>1, ViewPicture
  <2>4. Place(k, r, c) \in from..(from + count - 1) <=> Within(r, c, y, x, z, w)
    BY InRange
  <2>5. QED
    BY <1>1, <2>2, <2>3, <2>4
<1>3. QED
  BY <1>1, <1>2 DEF m

(* What CopyCells does to what is seen.                                    *)
LEMMA CopyRange ==
  ASSUME NEW k, Framed(k), NEW y \in Int, NEW x \in 0..columns, NEW z \in Int, NEW w \in 0..columns,
         NEW from \in Int, NEW to \in Int, NEW count \in Int, to = Place(k, y, x), to + count = Place(k, z, w),
         from >= 0, from + count <= SCREEN_CELLS
  PROVE  /\ Redrawn(k, CopyCells(k, from, to, count))
         /\ \A r \in Rows, c \in Cols : View(CopyCells(k, from, to, count))[r][c] =
              IF Within(r, c, y, x, z, w) THEN k.mem[Place(k, r, c) - to + from] ELSE View(k)[r][c]
<1> DEFINE m == CopyCells(k, from, to, count)
<1>0. SCREEN_CELLS \in Int
  BY ConsoleAssumption
<1>a. \A a \in Cells : a \in to..(to + count - 1) => a - to + from \in Cells
  BY <1>0 DEF Cells
<1>1. /\ Redrawn(k, m)
      /\ m.mem = [a \in Cells |-> IF a \in to..(to + count - 1) THEN k.mem[a - to + from]
                                                                ELSE k.mem[a]]
  BY <1>a DEF CopyCells, ConType, Framed, Redrawn
<1> HIDE DEF m
<1>2. ASSUME NEW r \in Rows, NEW c \in Cols
      PROVE  View(m)[r][c] = IF Within(r, c, y, x, z, w) THEN k.mem[Place(k, r, c) - to + from]
                                                          ELSE View(k)[r][c]
  <2>1. Place(m, r, c) = Place(k, r, c)
    BY <1>1, StaysInPlace DEF Place
  <2>2. Place(k, r, c) \in Cells
    BY InMemory
  <2>3. View(m)[r][c] = m.mem[Place(k, r, c)] /\ View(k)[r][c] = k.mem[Place(k, r, c)]
    BY <2>1, ViewPicture
  <2>4. Place(k, r, c) \in to..(to + count - 1) <=> Within(r, c, y, x, z, w)
    BY InRange
  <2>5. QED
    BY <1>1, <2>2, <2>3, <2>4
<1>3. QED
  BY <1>1, <1>2 DEF m

---------------------------------------------------------------------------
(* The console: lines move up and down.                                    *)

EmptyLine == [c \in Cols |-> Blank]
MovedUp(v, t, b, n) ==
  [r \in Rows |-> IF r \notin t..(b - 1) THEN v[r]
                  ELSE IF r + n < b THEN v[r + n] ELSE EmptyLine]
MovedDown(v, t, b, n) ==
  [r \in Rows |-> IF r \notin t..(b - 1) THEN v[r]
                  ELSE IF r >= t + n THEN v[r - n] ELSE EmptyLine]

\* In row r of picture u is what MovedUp, MovedDown put there.
UpAt(u, v, t, b, n, r, c) ==
  u[r][c] = IF r \notin t..(b - 1) THEN v[r][c]
            ELSE IF r + n < b THEN v[r + n][c] ELSE Blank
DownAt(u, v, t, b, n, r, c) ==
  u[r][c] = IF r \notin t..(b - 1) THEN v[r][c]
            ELSE IF r >= t + n THEN v[r - n][c] ELSE Blank

\* A region of lines.
Lined(t, b) == t \in Nat /\ b \in Nat /\ b <= lines

\* They give pictures, cell by cell.
LEMMA MovedCells ==
  ASSUME NEW v, Picture(v), NEW t, NEW b, Lined(t, b), NEW n \in Nat
  PROVE  /\ Picture(MovedUp(v, t, b, n)) /\ Picture(MovedDown(v, t, b, n))
         /\ \A r \in Rows, c \in Cols :
              /\ UpAt(MovedUp(v, t, b, n), v, t, b, n, r, c)
              /\ DownAt(MovedDown(v, t, b, n), v, t, b, n, r, c)
<1> DEFINE U == MovedUp(v, t, b, n)
           D == MovedDown(v, t, b, n)
<1>1. lines \in Nat /\ t \in Nat /\ b \in Nat /\ b <= lines
  BY ConsoleAssumption DEF Lined
<1>2. ASSUME NEW r \in Rows
      PROVE  /\ U[r] = IF r \notin t..(b - 1) THEN v[r]
                       ELSE IF r + n < b THEN v[r + n] ELSE EmptyLine
             /\ D[r] = IF r \notin t..(b - 1) THEN v[r]
                       ELSE IF r >= t + n THEN v[r - n] ELSE EmptyLine
  BY DEF MovedUp, MovedDown
<1>3. \A r \in Rows : v[r] = [c \in Cols |-> v[r][c]]
  BY DEF Picture
<1>4. EmptyLine = [c \in Cols |-> EmptyLine[c]] /\ \A c \in Cols : EmptyLine[c] = Blank
  BY DEF EmptyLine
<1>5. /\ U = [r \in Rows |-> U[r]] /\ D = [r \in Rows |-> D[r]]
  BY DEF MovedUp, MovedDown
<1> HIDE DEF U, D
<1>6. ASSUME NEW r \in Rows
      PROVE  /\ U[r] \in {v[q] : q \in Rows} \cup {EmptyLine}
             /\ D[r] \in {v[q] : q \in Rows} \cup {EmptyLine}
  <2>1. r \in Nat /\ r < lines
    BY <1>1 DEF Rows
  <2>2. r \in t..(b - 1) /\ r + n < b => r + n \in Rows
    BY <1>1, <2>1 DEF Rows
  <2>3. r \in t..(b - 1) /\ r >= t + n => r - n \in Rows
    BY <1>1, <2>1 DEF Rows
  <2>4. QED
    BY <1>2, <2>2, <2>3
<1>7. ASSUME NEW r \in Rows
      PROVE  U[r] = [c \in Cols |-> U[r][c]] /\ D[r] = [c \in Cols |-> D[r][c]]
  <2>1. U[r] = EmptyLine \/ \E q \in Rows : U[r] = v[q]
    BY <1>6
  <2>2. D[r] = EmptyLine \/ \E q \in Rows : D[r] = v[q]
    BY <1>6
  <2>3. U[r] = [c \in Cols |-> U[r][c]]
    BY <1>3, <1>4, <2>1
  <2>4. D[r] = [c \in Cols |-> D[r][c]]
    BY <1>3, <1>4, <2>2
  <2>5. QED
    BY <2>3, <2>4
<1>8. Picture(U) /\ Picture(D)
  BY <1>5, <1>7 DEF Picture
<1>9. ASSUME NEW r \in Rows, NEW c \in Cols
      PROVE  UpAt(U, v, t, b, n, r, c) /\ DownAt(D, v, t, b, n, r, c)
  BY <1>2, <1>4 DEF UpAt, DownAt
<1>10. QED
  BY <1>8, <1>9 DEF U, D

(* A picture that has what MovedUp, MovedDown put in every cell is theirs. *)
LEMMA IsMoved ==
  ASSUME NEW u, Picture(u), NEW v, Picture(v), NEW t, NEW b, Lined(t, b), NEW n \in Nat
  PROVE  /\ (\A r \in Rows, c \in Cols : UpAt(u, v, t, b, n, r, c)) => u = MovedUp(v, t, b, n)
         /\ (\A r \in Rows, c \in Cols : DownAt(u, v, t, b, n, r, c)) => u = MovedDown(v, t, b, n)
<1> DEFINE U == MovedUp(v, t, b, n)
           D == MovedDown(v, t, b, n)
<1>1. /\ Picture(U) /\ Picture(D)
      /\ \A r \in Rows, c \in Cols : UpAt(U, v, t, b, n, r, c) /\ DownAt(D, v, t, b, n, r, c)
  BY MovedCells
<1> HIDE DEF U, D
<1>2. (\A r \in Rows, c \in Cols : UpAt(u, v, t, b, n, r, c)) => u = U
  <2> SUFFICES ASSUME \A r \in Rows, c \in Cols : UpAt(u, v, t, b, n, r, c) PROVE u = U
    OBVIOUS
  <2>1. \A r \in Rows, c \in Cols : u[r][c] = U[r][c]
    BY <1>1 DEF UpAt
  <2>2. QED
    BY <1>1, <2>1, SamePicture
<1>3. (\A r \in Rows, c \in Cols : DownAt(u, v, t, b, n, r, c)) => u = D
  <2> SUFFICES ASSUME \A r \in Rows, c \in Cols : DownAt(u, v, t, b, n, r, c) PROVE u = D
    OBVIOUS
  <2>1. \A r \in Rows, c \in Cols : u[r][c] = D[r][c]
    BY <1>1 DEF DownAt
  <2>2. QED
    BY <1>1, <2>1, SamePicture
<1>4. QED
  BY <1>2, <1>3 DEF U, D

\* e lines are copied from line a on to line d on.
LEMMA CopyLines ==
  ASSUME NEW k, Framed(k), NEW a \in Nat, NEW d \in Nat, NEW e \in Nat, a + e <= lines,
         NEW m, m = CopyCells(k, k.origin + columns * a, k.origin + columns * d, e * columns)
  PROVE  /\ Redrawn(k, m)
         /\ \A r \in Rows, c \in Cols :
              View(m)[r][c] = IF r \in d..(d + e - 1) THEN View(k)[r - d + a][c]
                                                      ELSE View(k)[r][c]
<1> DEFINE from == Place(k, a, 0)
           to == Place(k, d, 0)
           count == e * columns
           j == a - d
<1>1. columns \in Nat /\ lines \in Nat /\ SCREEN_CELLS \in Nat /\ k.origin \in Int
  BY ConsoleAssumption DEF Framed, ConType
<1>2. a \in Int /\ d \in Int /\ e \in Int /\ j \in Int /\ 0 \in Int
  OBVIOUS
<1>3. k.origin + columns * a = from /\ k.origin + columns * d = to
  BY <1>1, <1>2, PlaceBegin
<1>4. a = d + j /\ \A r \in Int : r - d + a = r + j
  OBVIOUS
<1>5. PICK ae \in Int, de \in Int : ae = a + e /\ de = d + e
  OBVIOUS
<1>6. /\ from \in Int /\ to \in Int /\ count \in Int
      /\ from + count = Place(k, ae, 0) /\ to + count = Place(k, de, 0)
      /\ from = to + j * columns /\ j * columns \in Int
  <2> HIDE DEF j, from, to, count
  <2>2. /\ Place(k, a, 0) \in Int /\ e * columns \in Int
        /\ Place(k, ae, 0) = Place(k, a, 0) + e * columns
    BY <1>1, <1>2, <1>5, PlaceBelow
  <2>3. Place(k, d, 0) \in Int /\ Place(k, de, 0) = Place(k, d, 0) + e * columns
    BY <1>1, <1>2, <1>5, PlaceBelow
  <2>4. j * columns \in Int /\ Place(k, a, 0) = Place(k, d, 0) + j * columns
    BY <1>1, <1>2, <1>4, PlaceBelow
  <2>5. QED
    BY <2>2, <2>3, <2>4 DEF from, to, count
<1> HIDE DEF j
<1>7. from >= 0 /\ from + count <= SCREEN_CELLS
  <2>1. k.origin >= 0 /\ k.origin + lines * columns <= SCREEN_CELLS
    BY DEF Framed
  <2>2. (a + e) * columns <= lines * columns /\ a * columns \in Nat /\ columns * a = a * columns
        /\ (a + e) * columns = a * columns + e * columns /\ lines * columns \in Int
    BY <1>1, MoreRows
  <2> DEFINE L == lines * columns
             A == a * columns
  <2>3. /\ L \in Int /\ A \in Nat /\ A + count <= L /\ from = k.origin + A
        /\ k.origin + L <= SCREEN_CELLS
    BY <1>1, <1>3, <2>1, <2>2
  <2> HIDE DEF L, A, from, count
  <2>4. QED
    BY <1>1, <1>6, <2>1, <2>3
<1> HIDE DEF from, to, count
<1>8. /\ Redrawn(k, m)
      /\ \A r \in Rows, c \in Cols : View(m)[r][c] =
           IF Within(r, c, d, 0, de, 0) THEN k.mem[Place(k, r, c) - to + from] ELSE View(k)[r][c]
  <2>1. 0 \in 0..columns
    BY <1>1
  <2>2. m = CopyCells(k, from, to, count) /\ to = Place(k, d, 0)
    BY <1>3 DEF to, count
  <2>3. QED
    BY <1>2, <1>5, <1>6, <1>7, <2>1, <2>2, CopyRange
<1>9. ASSUME NEW r \in Rows, NEW c \in Cols
      PROVE  View(m)[r][c] = IF r \in d..(d + e - 1) THEN View(k)[r - d + a][c]
                                                     ELSE View(k)[r][c]
  <2>1. r \in Nat /\ c \in Nat /\ r < lines /\ r \in Int /\ c \in Int
    BY <1>1 DEF Rows, Cols
  <2>2. Within(r, c, d, 0, de, 0) <=> r \in d..(d + e - 1)
    BY <1>5, <2>1 DEF Within, Precedes
  <2>3. CASE r \in d..(d + e - 1)
    <3>1. PICK s \in Rows : s = r - d + a
      BY <1>1, <2>1, <2>3 DEF Rows
    <3>2. s = r + j
      BY <1>4, <2>1, <3>1
    <3>3. Place(k, s, c) = Place(k, r, c) + j * columns /\ Place(k, r, c) \in Int
      BY <1>1, <1>2, <2>1, <3>2, PlaceBelow
    <3>4. Place(k, r, c) - to + from = Place(k, s, c)
      BY <1>6, <3>3
    <3>5. View(m)[r][c] = k.mem[Place(k, r, c) - to + from]
      BY <1>8, <2>2, <2>3
    <3>6. View(k)[s][c] = k.mem[Place(k, s, c)]
      BY ViewPicture
    <3>7. QED
      BY <2>3, <3>1, <3>4, <3>5, <3>6
  <2>4. CASE r \notin d..(d + e - 1)
    BY <1>8, <2>2, <2>4
  <2>5. QED
    BY <2>3, <2>4
<1>10. QED
  BY <1>8, <1>9

\* Line a is blanked.
LEMMA FillLine ==
  ASSUME NEW k, Framed(k), NEW a \in Nat, NEW m, m = Fill(k, k.origin + columns * a, columns)
  PROVE  /\ Redrawn(k, m)
         /\ \A r \in Rows, c \in Cols :
              View(m)[r][c] = IF r = a THEN Blank ELSE View(k)[r][c]
<1> DEFINE from == Place(k, a, 0)
<1>1. columns \in Nat /\ lines \in Nat /\ k.origin \in Int
  BY ConsoleAssumption DEF Framed, ConType
<1>2. PICK b \in Int : b = a + 1
  OBVIOUS
<1>3. k.origin + columns * a = from /\ from \in Int /\ from + columns = Place(k, b, 0)
  <2>1. a \in Int /\ 0 \in Int /\ 1 \in Int
    OBVIOUS
  <2>2. k.origin + columns * a = Place(k, a, 0) /\ Place(k, a, 0) \in Int
    BY <1>1, <2>1, PlaceBegin
  <2>3. Place(k, b, 0) = Place(k, a, 0) + 1 * columns
    BY <1>1, <1>2, <2>1, PlaceBelow
  <2>4. 1 * columns = columns
    BY <1>1
  <2>5. QED
    BY <1>1, <2>2, <2>3, <2>4
<1> HIDE DEF from
<1>4. /\ Redrawn(k, m)
      /\ \A r \in Rows, c \in Cols : View(m)[r][c] =
           IF Within(r, c, a, 0, b, 0) THEN Blank ELSE View(k)[r][c]
  <2>1. a \in Int /\ b \in Int /\ 0 \in 0..columns /\ columns \in Int
    BY <1>1
  <2>2. m = Fill(k, from, columns) /\ from = Place(k, a, 0)
    BY <1>3 DEF from
  <2>3. QED
    BY <1>3, <2>1, <2>2, FillRange
<1>5. ASSUME NEW r \in Rows, NEW c \in Cols
      PROVE  Within(r, c, a, 0, b, 0) <=> r = a
  <2>1. r \in Nat /\ c \in Nat
    BY <1>1 DEF Rows, Cols
  <2>2. QED
    BY <1>2, <2>1 DEF Within, Precedes
<1>6. QED
  BY <1>4, <1>5

---------------------------------------------------------------------------
(* The console: scrolling.                                                 *)

\* What holds of k besides its types.
LEMMA ConFacts ==
  ASSUME NEW k, ConInv(k)
  PROVE  /\ Framed(k) /\ k \in ConType /\ k.origin \in Int /\ k.origin >= 0
         /\ columns \in Nat \ {0} /\ lines \in Nat \ {0, 1} /\ SCREEN_CELLS \in Nat
         /\ k.top \in Nat /\ k.bottom \in Nat /\ k.top < k.bottom /\ k.bottom <= lines
         /\ k.x \in Nat /\ k.x <= columns /\ k.x \in 0..columns
         /\ k.y \in Nat /\ k.y < lines /\ k.y \in Rows
         /\ k.pos = Place(k, k.y, k.x) /\ k.pos \in Int
<1>1. Framed(k) /\ InPlace(k) /\ k \in ConType
  BY DEF ConInv, Framed
<1>2. k.origin \in Int /\ k.origin >= 0 /\ k.pos \in Int
  BY <1>1 DEF ConType, Framed
<1>3. /\ columns \in Nat \ {0} /\ lines \in Nat \ {0, 1} /\ SCREEN_CELLS \in Nat
      /\ k.x \in 0..columns /\ k.y \in Rows /\ k.pos = Place(k, k.y, k.x)
      /\ k.top \in Rows /\ k.bottom \in 1..lines /\ k.top < k.bottom
  BY <1>1, ConsoleAssumption DEF InPlace, Place
<1> HIDE DEF Place
<1>4. QED
  BY <1>1, <1>2, <1>3 DEF Rows

\* m has the cursor and the region of k.
SameCursor(k, m) == m.x = k.x /\ m.y = k.y /\ m.top = k.top /\ m.bottom = k.bottom

(* If it is redrawn it has.                                                *)
LEMMA RedrawnCursor ==
  ASSUME NEW k, ConInv(k), NEW m, Redrawn(k, m)
  PROVE  ConInv(m) /\ SameCursor(k, m) /\ m.pos = k.pos /\ m.origin = k.origin
<1>1. ConInv(m) /\ m.origin = k.origin
  BY StaysInPlace DEF ConInv
<1>2. SameCursor(k, m) /\ m.pos = k.pos
  BY DEF Redrawn, SameCursor, ConInv, Framed, ConType
<1>3. QED
  BY <1>1, <1>2

\* The region has moved up, or down, by a line.
MovesUp(k, m) ==
  ConInv(m) /\ SameCursor(k, m) /\ View(m) = MovedUp(View(k), k.top, k.bottom, 1)
MovesDown(k, m) ==
  ConInv(m) /\ SameCursor(k, m) /\ View(m) = MovedDown(View(k), k.top, k.bottom, 1)

(* Lines of a region move up: they are copied.                             *)
LEMMA RegionUp ==
  ASSUME NEW k, ConInv(k), ~(k.top = 0 /\ k.bottom = lines)
  PROVE  MovesUp(k, scrup(k))
<1>1. PICK t \in Nat, b \in Nat : t = k.top /\ b = k.bottom /\ t < b /\ b <= lines
  BY ConFacts
<1>2. Framed(k) /\ k \in ConType
  BY ConFacts
<1>3. PICK f \in Nat, e \in Nat, l \in Nat : f = t + 1 /\ e = b - t - 1 /\ l = b - 1
  BY <1>1
<1>4. PICK m : m = CopyCells(k, k.origin + columns * f, k.origin + columns * t, e * columns)
  OBVIOUS
<1>5. lines \in Nat /\ f + e <= lines
  BY <1>1, <1>3, ConsoleAssumption
<1>6. /\ Redrawn(k, m)
      /\ \A r \in Rows, c \in Cols :
           View(m)[r][c] = IF r \in t..(t + e - 1) THEN View(k)[r - t + f][c] ELSE View(k)[r][c]
  BY <1>2, <1>4, <1>5, CopyLines
<1>7. Framed(m) /\ m.origin = k.origin
  BY <1>2, <1>6, StaysInPlace
<1>8. PICK n : n = Fill(m, m.origin + columns * l, columns)
  OBVIOUS
<1>9. /\ Redrawn(m, n)
      /\ \A r \in Rows, c \in Cols : View(n)[r][c] = IF r = l THEN Blank ELSE View(m)[r][c]
  BY <1>7, <1>8, FillLine
<1>10. scrup(k) = n
  BY <1>1, <1>3, <1>4, <1>7, <1>8 DEF scrup
<1>11. ConInv(n) /\ SameCursor(k, n)
  BY <1>2, <1>6, <1>9, RedrawnTwice, RedrawnCursor
<1>12. ASSUME NEW r \in Rows, NEW c \in Cols
       PROVE  UpAt(View(n), View(k), t, b, 1, r, c)
  <2>1. r \in Nat /\ r - t + f = r + 1 /\ t + e - 1 = b - 2
    BY <1>1, <1>3 DEF Rows
  <2>2. View(n)[r][c] = IF r = l THEN Blank
                        ELSE IF r \in t..(b - 2) THEN View(k)[r + 1][c] ELSE View(k)[r][c]
    BY <1>6, <1>9, <2>1
  <2>3. QED
    BY <1>1, <1>3, <2>1, <2>2 DEF UpAt
<1>13. View(n) = MovedUp(View(k), t, b, 1)
  <2>1. Picture(View(n)) /\ Picture(View(k)) /\ Lined(t, b) /\ 1 \in Nat
    BY <1>1, ViewPicture DEF Lined
  <2>2. QED
    BY <1>12, <2>1, IsMoved
<1>14. QED
  BY <1>1, <1>10, <1>11, <1>13 DEF MovesUp

(* Lines of a region move down.                                            *)
LEMMA RegionDown ==
  ASSUME NEW k, ConInv(k)
  PROVE  MovesDown(k, scrdown(k))
<1>1. PICK t \in Nat, b \in Nat : t = k.top /\ b = k.bottom /\ t < b /\ b <= lines
  BY ConFacts
<1>2. Framed(k) /\ k \in ConType
  BY ConFacts
<1>3. PICK f \in Nat, e \in Nat : f = t + 1 /\ e = b - t - 1
  BY <1>1
<1>4. PICK m : m = CopyCells(k, k.origin + columns * t, k.origin + columns * f, e * columns)
  OBVIOUS
<1>5. lines \in Nat /\ t + e <= lines
  BY <1>1, <1>3, ConsoleAssumption
<1>6. /\ Redrawn(k, m)
      /\ \A r \in Rows, c \in Cols :
           View(m)[r][c] = IF r \in f..(f + e - 1) THEN View(k)[r - f + t][c] ELSE View(k)[r][c]
  BY <1>2, <1>4, <1>5, CopyLines
<1>7. Framed(m) /\ m.origin = k.origin
  BY <1>2, <1>6, StaysInPlace
<1>8. PICK n : n = Fill(m, m.origin + columns * t, columns)
  OBVIOUS
<1>9. /\ Redrawn(m, n)
      /\ \A r \in Rows, c \in Cols : View(n)[r][c] = IF r = t THEN Blank ELSE View(m)[r][c]
  BY <1>7, <1>8, FillLine
<1>10. scrdown(k) = n
  BY <1>1, <1>3, <1>4, <1>7, <1>8 DEF scrdown
<1>11. ConInv(n) /\ SameCursor(k, n)
  BY <1>2, <1>6, <1>9, RedrawnTwice, RedrawnCursor
<1>12. ASSUME NEW r \in Rows, NEW c \in Cols
       PROVE  DownAt(View(n), View(k), t, b, 1, r, c)
  <2>1. r \in Nat /\ r - f + t = r - 1 /\ f + e - 1 = b - 1
    BY <1>1, <1>3 DEF Rows
  <2>2. View(n)[r][c] = IF r = t THEN Blank
                        ELSE IF r \in f..(b - 1) THEN View(k)[r - 1][c] ELSE View(k)[r][c]
    BY <1>6, <1>9, <2>1
  <2>3. QED
    <3>1. CASE r \notin t..(b - 1)
      <4>1. r # t /\ r \notin f..(b - 1)
        BY <1>1, <1>3, <3>1
      <4>2. QED
        BY <2>2, <3>1, <4>1 DEF DownAt
    <3>2. CASE r \in t..(b - 1) /\ r >= t + 1
      <4>1. r # t /\ r \in f..(b - 1)
        BY <1>1, <1>3, <3>2
      <4>2. QED
        BY <2>2, <3>2, <4>1 DEF DownAt
    <3>3. CASE r \in t..(b - 1) /\ ~(r >= t + 1)
      <4>1. r = t
        BY <1>1, <2>1, <3>3
      <4>2. QED
        BY <2>2, <3>3, <4>1 DEF DownAt
    <3>4. QED
      BY <3>1, <3>2, <3>3
<1>13. View(n) = MovedDown(View(k), t, b, 1)
  <2>1. Picture(View(n)) /\ Picture(View(k)) /\ Lined(t, b) /\ 1 \in Nat
    BY <1>1, ViewPicture DEF Lined
  <2>2. QED
    BY <1>12, <2>1, IsMoved
<1>14. QED
  BY <1>1, <1>10, <1>11, <1>13 DEF MovesDown

(* What lies outside the window is not seen.                               *)
LEMMA ForgetView ==
  ASSUME NEW k, Framed(k)
  PROVE  Redrawn(k, Forget(k)) /\ View(Forget(k)) = View(k)
<1> DEFINE m == Forget(k)
<1>1. /\ Redrawn(k, m)
      /\ m.mem = [a \in Cells |-> IF a \in Window(k) THEN k.mem[a] ELSE Stale]
  BY DEF Forget, ConType, Glyphs, Framed, Redrawn
<1> HIDE DEF m
<1>2. ASSUME NEW r \in Rows, NEW c \in Cols
      PROVE  View(m)[r][c] = View(k)[r][c]
  <2>1. Place(m, r, c) = Place(k, r, c)
    BY <1>1, StaysInPlace DEF Place
  <2>2. Place(k, r, c) \in Cells /\ Place(k, r, c) \in Window(k)
    BY InMemory
  <2>3. View(m)[r][c] = m.mem[Place(k, r, c)] /\ View(k)[r][c] = k.mem[Place(k, r, c)]
    BY <2>1, ViewPicture
  <2>4. QED
    BY <1>1, <2>2, <2>3
<1>3. View(m) = View(k)
  BY <1>2, ViewPicture, SamePicture
<1>4. QED
  BY <1>1, <1>3 DEF m

\* The last line of q, whose others are one line above those of k, is blanked.
LEMMA SlidUp ==
  ASSUME NEW k, ConInv(k), k.top = 0, k.bottom = lines, NEW q, ConInv(q), SameCursor(k, q),
         \A r \in Rows, c \in Cols : r + 1 \in Rows => View(q)[r][c] = View(k)[r + 1][c],
         NEW n, n = Fill(q, q.origin + columns * (lines - 1), columns)
  PROVE  MovesUp(k, Forget(n))
<1>1. lines \in Nat /\ lines - 1 \in Nat /\ Framed(q) /\ q \in ConType
  BY ConFacts
<1>2. /\ Redrawn(q, n)
      /\ \A r \in Rows, c \in Cols :
           View(n)[r][c] = IF r = lines - 1 THEN Blank ELSE View(q)[r][c]
  BY <1>1, FillLine
<1>3. Framed(n)
  BY <1>1, <1>2, StaysInPlace
<1>4. Redrawn(n, Forget(n)) /\ View(Forget(n)) = View(n)
  BY <1>3, ForgetView
<1>5. ConInv(Forget(n)) /\ SameCursor(q, Forget(n))
  BY <1>1, <1>2, <1>4, RedrawnTwice, RedrawnCursor
<1>6. ASSUME NEW r \in Rows, NEW c \in Cols
      PROVE  UpAt(View(n), View(k), 0, lines, 1, r, c)
  <2>1. r \in Nat /\ r < lines /\ (r # lines - 1 => r + 1 \in Rows)
    BY <1>1 DEF Rows
  <2>2. View(n)[r][c] = IF r = lines - 1 THEN Blank ELSE View(k)[r + 1][c]
    BY <1>2, <2>1
  <2>3. QED
    BY <1>1, <2>1, <2>2 DEF UpAt
<1>7. View(n) = MovedUp(View(k), 0, lines, 1)
  <2>1. Picture(View(n)) /\ Picture(View(k)) /\ Lined(0, lines) /\ 1 \in Nat
    BY <1>1, ViewPicture DEF Lined
  <2>2. QED
    BY <1>6, <2>1, IsMoved
<1>8. SameCursor(k, Forget(n))
  BY <1>5 DEF SameCursor
<1>9. QED
  BY <1>4, <1>5, <1>7, <1>8 DEF MovesUp

\* m is k with the window at o and the cursor's place in memory at p.
SlidTo(m, k, o, p) == m = [k EXCEPT !.origin = o, !.pos = p]

(* The rest is as it was.                                                  *)
LEMMA Slid ==
  ASSUME NEW k, k \in ConType, NEW o \in Int, NEW p \in Int,
         NEW m, SlidTo(m, k, o, p)
  PROVE  /\ m \in ConType /\ m.origin = o /\ m.pos = p /\ m.mem = k.mem /\ SameCursor(k, m)
         /\ m.saved_x = k.saved_x /\ m.saved_y = k.saved_y /\ m.npar = k.npar
<1> DEFINE l == [k EXCEPT !.origin = o]
<1>1. m = [l EXCEPT !.pos = p] /\ l = [k EXCEPT !.origin = o]
  BY DEF SlidTo
<1> HIDE DEF l
<1>2. /\ l \in ConType /\ l.origin = o /\ l.mem = k.mem /\ SameCursor(k, l)
      /\ l.saved_x = k.saved_x /\ l.saved_y = k.saved_y /\ l.npar = k.npar
  BY <1>1 DEF ConType, SameCursor
<1>3. /\ m \in ConType /\ m.origin = l.origin /\ m.pos = p /\ m.mem = l.mem /\ SameCursor(l, m)
      /\ m.saved_x = l.saved_x /\ m.saved_y = l.saved_y /\ m.npar = l.npar
  BY <1>1, <1>2, ZenonT(60) DEF ConType, SameCursor
<1>4. QED
  BY <1>2, <1>3 DEF SameCursor

(* The whole screen moves up: the window slides, or is copied back.        *)
LEMMA WholeUp ==
  ASSUME NEW k, ConInv(k), k.top = 0, k.bottom = lines
  PROVE  MovesUp(k, scrup(k))
<1> DEFINE m == [k EXCEPT !.origin = @ + columns, !.pos = @ + columns]
           last == columns * (lines - 1)
<1>1. /\ Framed(k) /\ k \in ConType /\ k.origin \in Int /\ k.origin >= 0 /\ k.pos \in Int
      /\ columns \in Nat \ {0} /\ lines \in Nat \ {0, 1} /\ SCREEN_CELLS \in Nat
      /\ k.y \in Nat /\ k.y \in Int /\ k.x \in Int /\ k.pos = Place(k, k.y, k.x)
  BY ConFacts
<1>2. m = [k EXCEPT !.origin = k.origin + columns, !.pos = k.pos + columns]
  OBVIOUS
<1> HIDE DEF m
<1>3. /\ m \in ConType /\ m.origin = k.origin + columns /\ m.mem = k.mem
      /\ SameCursor(k, m) /\ m.pos = k.pos + columns
      /\ m.saved_x = k.saved_x /\ m.saved_y = k.saved_y /\ m.npar = k.npar
  <2>1. k.origin + columns \in Int /\ k.pos + columns \in Int
    BY <1>1
  <2>2. PICK o \in Int, i \in Int : o = k.origin + columns /\ i = k.pos + columns
    BY <2>1
  <2>3. SlidTo(m, k, o, i)
    BY <1>2, <2>2 DEF SlidTo
  <2>4. k \in ConType
    BY <1>1
  <2>5. /\ m \in ConType /\ m.origin = o /\ m.pos = i /\ m.mem = k.mem /\ SameCursor(k, m)
        /\ m.saved_x = k.saved_x /\ m.saved_y = k.saved_y /\ m.npar = k.npar
    BY <2>3, <2>4, Slid
  <2>6. QED
    BY <2>2, <2>5
<1>4. /\ last \in Nat /\ lines * columns \in Nat /\ lines * columns = last + columns
      /\ (lines - 1) * columns = last
  BY <1>1
<1>5. ASSUME NEW r \in Rows, NEW c \in Cols, r + 1 \in Rows
      PROVE  View(k)[r + 1][c] = k.mem[Place(k, r, c) + columns] /\ Place(k, r, c) \in Int
  <2>1. r \in Int /\ c \in Int /\ 1 \in Int
    BY <1>1 DEF Rows, Cols
  <2>2. PICK s \in Rows : s = r + 1
    BY <1>5
  <2>3. Place(k, s, c) = Place(k, r, c) + 1 * columns /\ Place(k, r, c) \in Int
    BY <1>1, <2>1, <2>2, PlaceBelow
  <2>4. 1 * columns = columns
    BY <1>1
  <2>5. View(k)[s][c] = k.mem[Place(k, s, c)]
    BY ViewPicture
  <2>6. QED
    BY <2>2, <2>3, <2>4, <2>5
<1>6. CASE m.origin + lines * columns <= SCREEN_CELLS
  <2>1. scrup(k) = Forget(Fill(m, m.origin + columns * (lines - 1), columns))
    <3>1. ~(m.origin + lines * columns > SCREEN_CELLS)
      BY <1>1, <1>3, <1>4, <1>6
    <3>2. scrup(k) = Forget(Slide(m))
      BY <1>2, <3>1 DEF scrup, m
    <3>3. Slide(m) = Fill(m, m.origin + last, columns)
      BY <1>4 DEF Slide
    <3>4. QED
      BY <3>2, <3>3
  <2>2. Framed(m)
    BY <1>1, <1>3, <1>6 DEF Framed
  <2>3. m.pos = m.origin + m.y * columns + m.x
    <3> DEFINE Y == k.y * columns
    <3>1. Y \in Int /\ k.pos = k.origin + Y + k.x /\ m.y = k.y /\ m.x = k.x
      BY <1>1, <1>3 DEF Place, SameCursor
    <3> HIDE DEF Y
    <3>2. m.pos = m.origin + Y + k.x
      BY <1>1, <1>3, <3>1
    <3>3. QED
      BY <3>1, <3>2 DEF Y
  <2>4. ConInv(m)
    BY <1>3, <2>2, <2>3 DEF ConInv, InPlace, SameCursor
  <2>5. ASSUME NEW r \in Rows, NEW c \in Cols, r + 1 \in Rows
        PROVE  View(m)[r][c] = View(k)[r + 1][c]
    <3>1. Place(m, r, c) = Place(k, r, c) + columns
      <4> DEFINE R == r * columns
      <4>1. R \in Int /\ c \in Int
        BY <1>1 DEF Rows, Cols
      <4>2. Place(m, r, c) = m.origin + R + c /\ Place(k, r, c) = k.origin + R + c
        BY DEF Place
      <4> HIDE DEF R, Place
      <4>3. QED
        BY <1>1, <1>3, <4>1, <4>2
    <3>2. View(m)[r][c] = m.mem[Place(m, r, c)]
      BY ViewPicture
    <3>3. QED
      BY <1>3, <1>5, <2>5, <3>1, <3>2
  <2>6. QED
    BY <1>3, <2>1, <2>4, <2>5, SlidUp
<1>7. CASE m.origin + lines * columns > SCREEN_CELLS
  <2> DEFINE p == CopyCells(m, m.origin, 0, (lines - 1) * columns)
             q == [p EXCEPT !.pos = @ - m.origin, !.origin = 0]
  <2>1. scrup(k) = Forget(Rewind(m))
    BY <1>2, <1>7 DEF scrup, m
  <2>2. Rewind(m) = Fill(q, last, columns)
    BY <1>4 DEF Rewind
  <2>3. /\ p = [m EXCEPT !.mem = [a \in Cells |-> IF a \in 0..(0 + last - 1)
                                                  THEN m.mem[a - 0 + m.origin] ELSE m.mem[a]]]
    BY <1>4 DEF CopyCells
  <2>4. \A a \in Cells : a \in 0..(0 + last - 1) => a - 0 + m.origin \in Cells
    <3>1. k.origin + lines * columns <= SCREEN_CELLS
      BY <1>1 DEF Framed
    <3>2. k.origin + last + columns <= SCREEN_CELLS
      BY <1>1, <1>4, <3>1
    <3> HIDE DEF last
    <3>3. QED
      BY <1>1, <1>3, <1>4, <3>2 DEF Cells
  <2> HIDE DEF p, last
  <2>5. p \in ConType /\ Redrawn(m, p) /\ p.pos = m.pos
    BY <1>3, <2>3, <2>4 DEF ConType, Redrawn
  <2>6. /\ p.mem = [a \in Cells |-> IF a \in 0..(0 + last - 1)
                                    THEN m.mem[a - 0 + m.origin] ELSE m.mem[a]]
        /\ SameCursor(m, p) /\ p.saved_x = m.saved_x /\ p.saved_y = m.saved_y /\ p.npar = m.npar
    BY <1>3, <2>3 DEF ConType, SameCursor
  <2>7. q = [p EXCEPT !.origin = 0, !.pos = m.pos - m.origin]
    BY <2>5
  <2> HIDE DEF q
  <2>8. /\ q \in ConType /\ q.origin = 0 /\ q.mem = p.mem /\ q.pos = m.pos - m.origin
        /\ SameCursor(p, q) /\ q.saved_x = p.saved_x /\ q.saved_y = p.saved_y /\ q.npar = p.npar
    <3>1. PICK o \in Int, i \in Int : o = 0 /\ i = m.pos - m.origin
      BY <1>1, <1>3
    <3>2. SlidTo(q, p, o, i)
      BY <2>7, <3>1 DEF SlidTo
    <3>3. p \in ConType
      BY <2>5
    <3>4. /\ q \in ConType /\ q.origin = o /\ q.pos = i /\ q.mem = p.mem /\ SameCursor(p, q)
          /\ q.saved_x = p.saved_x /\ q.saved_y = p.saved_y /\ q.npar = p.npar
      BY <3>2, <3>3, Slid
    <3>5. QED
      BY <3>1, <3>4
  <2>9. SameCursor(k, q)
    BY <1>3, <2>6, <2>8 DEF SameCursor
  <2>10. Framed(q)
    <3>1. k.origin + lines * columns <= SCREEN_CELLS
      BY <1>1 DEF Framed
    <3>2. 0 + lines * columns <= SCREEN_CELLS
      BY <1>1, <1>4, <3>1
    <3>3. QED
      BY <2>8, <3>2 DEF Framed
  <2>11. q.pos = q.origin + q.y * columns + q.x
    <3> DEFINE Y == k.y * columns
    <3>1. Y \in Int /\ k.pos = k.origin + Y + k.x /\ q.y = k.y /\ q.x = k.x
      BY <1>1, <2>9 DEF Place, SameCursor
    <3> HIDE DEF Y
    <3>2. q.pos = q.origin + Y + k.x
      BY <1>1, <1>3, <2>8, <3>1
    <3>3. QED
      BY <3>1, <3>2 DEF Y
  <2>12. ConInv(q)
    <3>1. q.saved_x = k.saved_x /\ q.saved_y = k.saved_y /\ q.npar = k.npar
      BY <1>3, <2>6, <2>8
    <3>2. QED
      BY <2>9, <2>10, <2>11, <3>1 DEF ConInv, InPlace, SameCursor
  <2>13. ASSUME NEW r \in Rows, NEW c \in Cols, r + 1 \in Rows
         PROVE  View(q)[r][c] = View(k)[r + 1][c]
    <3>1. r \in Int /\ c \in Int /\ r < lines - 1 /\ lines - 1 \in Int /\ 0 \in Int
      BY <1>1, <2>13 DEF Rows, Cols
    <3>2. Place(q, r, c) \in Cells /\ q.origin \in Int
      BY <2>8, <2>10, InMemory
    <3>3. Place(q, r, c) < Place(q, lines - 1, 0)
      <4>1. 0 \in 0..columns
        BY <1>1
      <4>2. Precedes(r, c, lines - 1, 0)
        BY <3>1 DEF Precedes
      <4>3. QED
        BY <3>1, <3>2, <4>1, <4>2, PlaceOrder
    <3>4. Place(q, lines - 1, 0) = last
      BY <1>4, <2>8, <3>1, <3>2, PlaceBegin DEF last
    <3>5. Place(q, r, c) + m.origin = Place(k, r, c) + columns
      <4> DEFINE R == r * columns
      <4>1. R \in Int
        BY <1>1, <3>1
      <4>2. Place(q, r, c) = q.origin + R + c /\ Place(k, r, c) = k.origin + R + c
        BY DEF Place
      <4> HIDE DEF R, Place
      <4>3. QED
        BY <1>1, <1>3, <2>8, <3>1, <4>1, <4>2
    <3> DEFINE a == Place(q, r, c)
    <3>6. a \in Cells /\ a \in Int /\ a >= 0 /\ a < last
      BY <3>2, <3>3, <3>4 DEF Cells
    <3>7. View(q)[r][c] = q.mem[a]
      BY ViewPicture
    <3> HIDE DEF a
    <3>8. a \in 0..(0 + last - 1) /\ a - 0 + m.origin = a + m.origin
      BY <1>1, <1>3, <1>4, <3>6
    <3>9. q.mem[a] = m.mem[a + m.origin]
      BY <2>6, <2>8, <3>6, <3>8
    <3>10. m.mem[a + m.origin] = View(k)[r + 1][c]
      BY <1>3, <1>5, <2>13, <3>5 DEF a
    <3>11. QED
      BY <3>7, <3>9, <3>10
  <2>14. scrup(k) = Forget(Fill(q, q.origin + columns * (lines - 1), columns))
    <3>1. 0 + columns * (lines - 1) = last
      BY <1>4 DEF last
    <3>2. QED
      BY <2>1, <2>2, <2>8, <3>1 DEF last
  <2>15. QED
    BY <2>9, <2>12, <2>13, <2>14, SlidUp
<1>8. QED
  BY <1>1, <1>3, <1>4, <1>6, <1>7

(* scrup.                                                                  *)
LEMMA GoesUp ==
  ASSUME NEW k, ConInv(k)
  PROVE  MovesUp(k, scrup(k))
BY RegionUp, WholeUp

---------------------------------------------------------------------------
(* The console: what module Screen promises of a step from k to m.         *)

KeepsCursor(k, m) == m.x = k.x /\ m.y = k.y
Still(k, m) == View(m) = View(k)
Scrolls(k, m) ==
  \E t \in Rows, b \in 1..lines, n \in 1..lines :
    t < b /\ View(m) \in {MovedUp(View(k), t, b, n), MovedDown(View(k), t, b, n)}
PrintsHere(k, m, g) ==
  k.x < columns /\ View(m) = [View(k) EXCEPT ![k.y][k.x] = g] /\ m.x = k.x + 1 /\ m.y = k.y
PrintsBelow(k, m, g) ==
  /\ k.x = columns /\ m.x = 1 /\ m.y = k.y + 1 /\ m.y \in Rows
  /\ View(m) = [View(k) EXCEPT ![m.y][0] = g]
PrintsLast(k, m, g) ==
  /\ k.x = columns /\ m.x = 1 /\ m.y = k.y
  /\ \E t \in Rows, b \in 1..lines : View(m) = [MovedUp(View(k), t, b, 1) EXCEPT ![k.y][0] = g]
Prints(k, m) ==
  \E g \in Letters : PrintsHere(k, m, g) \/ PrintsBelow(k, m, g) \/ PrintsLast(k, m, g)

\* Without what is gone.
Blanked(v, gone) == [r \in Rows |-> [c \in Cols |-> IF gone[<<r, c>>] THEN Blank ELSE v[r][c]]]
Erasable(y, x) ==
  {[p \in Rows \X Cols |-> p[1] > y \/ (p[1] = y /\ p[2] >= x)],
   [p \in Rows \X Cols |-> p[1] < y \/ (p[1] = y /\ p[2] < x)],
   [p \in Rows \X Cols |-> p[1] = y /\ p[2] >= x],
   [p \in Rows \X Cols |-> p[1] = y /\ p[2] < x],
   [p \in Rows \X Cols |-> p[1] = y],
   [p \in Rows \X Cols |-> TRUE]}
Erases(k, m) ==
  KeepsCursor(k, m) /\ \E gone \in Erasable(k.y, k.x) : View(m) = Blanked(View(k), gone)
RubsOut(k, m) ==
  k.x > 0 /\ m.x = k.x - 1 /\ m.y = k.y /\ View(m) = [View(k) EXCEPT ![k.y][k.x - 1] = Blank]
ShiftedRight(v, y, x, n) ==
  [v EXCEPT ![y] = [c \in Cols |->
     IF c < x THEN v[y][c] ELSE IF c < x + n THEN Blank ELSE v[y][c - n]]]
ShiftedLeft(v, y, x, n) ==
  [v EXCEPT ![y] = [c \in Cols |->
     IF c < x THEN v[y][c] ELSE IF c + n < columns THEN v[y][c + n] ELSE Blank]]
Shifts(k, m) ==
  /\ KeepsCursor(k, m)
  /\ \E n \in 1..columns : View(m) \in {ShiftedRight(View(k), k.y, k.x, n),
                                        ShiftedLeft(View(k), k.y, k.x, n)}

Promised(k, m) ==
  \/ Still(k, m) \/ Scrolls(k, m) \/ Prints(k, m) \/ Erases(k, m) \/ RubsOut(k, m)
  \/ Shifts(k, m)

(* That is what it promises of a step of the console.                      *)
LEMMA KeepsPromise ==
  ASSUME ConInv(con), ConInv(con'), Promised(con, con')
  PROVE  [Seen!Next]_(Seen!screenVars)
<1> DEFINE v == View(con)
           w == View(con')
<1>1. /\ con.x \in 0..columns /\ con.y \in Rows
      /\ con'.x \in 0..columns /\ con'.y \in Rows
      /\ columns \in Nat /\ lines \in Nat
  BY ConsoleAssumption DEF ConInv, InPlace
<1>2. Seen!Rows = Rows /\ Seen!Cols = Cols /\ Seen!Empty = EmptyLine
  BY DEF Seen!Rows, Seen!Cols, Seen!Empty, Rows, Cols, EmptyLine
<1>3. Seen!Cursor
  BY <1>1, <1>2 DEF Seen!Cursor
<1>4. \A t, b, n : Seen!Up(t, b, n) = MovedUp(v, t, b, n) /\ Seen!Down(t, b, n) = MovedDown(v, t, b, n)
  BY DEF Seen!Up, Seen!Down, Seen!Rows, Seen!Cols, Seen!Empty, MovedUp, MovedDown, View,
       EmptyLine, Rows, Cols
<1>5. CASE Still(con, con')
  <2>1. Seen!Move
    BY <1>3, <1>5 DEF Seen!Move, Still, View, Rows, Cols
  <2>2. QED
    BY <2>1 DEF Seen!Next
<1>6. CASE Scrolls(con, con')
  <2>1. Seen!Scroll
    <3>1. \E t \in Rows, b \in 1..lines, n \in 1..lines :
            t < b /\ View(con') \in {Seen!Up(t, b, n), Seen!Down(t, b, n)}
      BY <1>4, <1>6 DEF Scrolls
    <3>2. Seen!Scroll <=>
            /\ \E t \in Seen!Rows, b \in 1..lines, n \in 1..lines :
                 t < b /\ View(con') \in {Seen!Up(t, b, n), Seen!Down(t, b, n)}
            /\ Seen!Cursor
      BY Zenon DEF Seen!Scroll, View, Rows, Cols
    <3>3. QED
      BY <1>2, <1>3, <3>1, <3>2
  <2>2. QED
    BY <2>1 DEF Seen!Next
<1>7. CASE Prints(con, con')
  <2>1. Seen!Type
    BY <1>2, <1>3, <1>4, <1>7 DEF Seen!Type, Prints, PrintsHere, PrintsBelow, PrintsLast, View,
         Rows, Cols
  <2>2. QED
    BY <2>1 DEF Seen!Next
<1>8. CASE Erases(con, con')
  <2>1. Seen!Erase
    <3>1. View(con') \in {Blanked(View(con), gone) : gone \in Erasable(con.y, con.x)}
      BY <1>8 DEF Erases
    <3>2. <<con'.x, con'.y>> = <<con.x, con.y>>
      BY <1>8 DEF Erases, KeepsCursor
    <3>3. Seen!Erase <=> /\ View(con') \in {Blanked(View(con), gone) : gone \in Erasable(con.y, con.x)}
                         /\ <<con'.x, con'.y>> = <<con.x, con.y>>
      BY Zenon DEF Seen!Erase, Seen!Rows, Seen!Cols, Erasable, Blanked, View, Rows, Cols
    <3>4. QED
      BY <3>1, <3>2, <3>3
  <2>2. QED
    BY <2>1 DEF Seen!Next
<1>9. CASE RubsOut(con, con')
  <2>1. Seen!RubOut
    BY <1>9 DEF Seen!RubOut, RubsOut, View, Rows, Cols
  <2>2. QED
    BY <2>1 DEF Seen!Next
<1>10. CASE Shifts(con, con')
  <2>1. Seen!Shift
    BY <1>2, <1>10 DEF Seen!Shift, Shifts, ShiftedRight, ShiftedLeft, KeepsCursor, View, Rows, Cols
  <2>2. QED
    BY <2>1, ZenonT(60) DEF Seen!Next
<1>11. QED
  BY <1>5, <1>6, <1>7, <1>8, <1>9, <1>10 DEF Promised

---------------------------------------------------------------------------
(* The console: the cursor.                                                *)

\* Only the cursor is different: it is at column a of row b.
OnlyCursor(k, m, a, b, p) ==
  /\ m \in ConType /\ m.x = a /\ m.y = b /\ m.pos = p
  /\ m.origin = k.origin /\ m.mem = k.mem /\ m.top = k.top /\ m.bottom = k.bottom
  /\ m.saved_x = k.saved_x /\ m.saved_y = k.saved_y /\ m.npar = k.npar

XTo(m, k, a, p) == m = [k EXCEPT !.x = a, !.pos = p]
YTo(m, k, b, p) == m = [k EXCEPT !.y = b, !.pos = p]
XYTo(m, k, a, b, p) == m = [k EXCEPT !.x = a, !.y = b, !.pos = p]

(* The fields that do not change.                                          *)
LEMMA CursorFields ==
  ASSUME NEW k, k \in ConType, NEW m, NEW a \in Int, NEW b \in Int, NEW p \in Int
  PROVE  /\ XTo(m, k, a, p) => OnlyCursor(k, m, a, k.y, p)
         /\ YTo(m, k, b, p) => OnlyCursor(k, m, k.x, b, p)
         /\ XYTo(m, k, a, b, p) => OnlyCursor(k, m, a, b, p)
<1>1. XTo(m, k, a, p) => OnlyCursor(k, m, a, k.y, p)
  <2> SUFFICES ASSUME m = [k EXCEPT !.x = a, !.pos = p] PROVE OnlyCursor(k, m, a, k.y, p)
    BY DEF XTo
  <2> DEFINE l == [k EXCEPT !.x = a]
  <2>1. m = [l EXCEPT !.pos = p] /\ l = [k EXCEPT !.x = a]
    OBVIOUS
  <2> HIDE DEF l
  <2>2. OnlyCursor(k, l, a, k.y, k.pos)
    BY <2>1 DEF OnlyCursor, ConType
  <2>3. l \in ConType
    BY <2>2 DEF OnlyCursor
  <2>4. OnlyCursor(l, m, l.x, l.y, p)
    BY <2>1, <2>3, ZenonT(60) DEF OnlyCursor, ConType
  <2>5. QED
    BY <2>2, <2>4 DEF OnlyCursor
<1>2. YTo(m, k, b, p) => OnlyCursor(k, m, k.x, b, p)
  <2> SUFFICES ASSUME m = [k EXCEPT !.y = b, !.pos = p] PROVE OnlyCursor(k, m, k.x, b, p)
    BY DEF YTo
  <2> DEFINE l == [k EXCEPT !.y = b]
  <2>1. m = [l EXCEPT !.pos = p] /\ l = [k EXCEPT !.y = b]
    OBVIOUS
  <2> HIDE DEF l
  <2>2. OnlyCursor(k, l, k.x, b, k.pos)
    BY <2>1 DEF OnlyCursor, ConType
  <2>3. l \in ConType
    BY <2>2 DEF OnlyCursor
  <2>4. OnlyCursor(l, m, l.x, l.y, p)
    BY <2>1, <2>3, ZenonT(60) DEF OnlyCursor, ConType
  <2>5. QED
    BY <2>2, <2>4 DEF OnlyCursor
<1>3. XYTo(m, k, a, b, p) => OnlyCursor(k, m, a, b, p)
  <2> SUFFICES ASSUME m = [k EXCEPT !.x = a, !.y = b, !.pos = p] PROVE OnlyCursor(k, m, a, b, p)
    BY DEF XYTo
  <2> DEFINE h == [k EXCEPT !.x = a]
             l == [h EXCEPT !.y = b]
  <2>1. m = [l EXCEPT !.pos = p] /\ l = [h EXCEPT !.y = b] /\ h = [k EXCEPT !.x = a]
    OBVIOUS
  <2> HIDE DEF h, l
  <2>2. OnlyCursor(k, h, a, k.y, k.pos)
    BY <2>1 DEF OnlyCursor, ConType
  <2>3. h \in ConType
    BY <2>2 DEF OnlyCursor
  <2>4. OnlyCursor(h, l, h.x, b, h.pos)
    BY <2>1, <2>3 DEF OnlyCursor, ConType
  <2>5. l \in ConType
    BY <2>4 DEF OnlyCursor
  <2>6. OnlyCursor(l, m, l.x, l.y, p)
    BY <2>1, <2>5, ZenonT(60) DEF OnlyCursor, ConType
  <2>7. QED
    BY <2>2, <2>4, <2>6 DEF OnlyCursor
<1>4. QED
  BY <1>1, <1>2, <1>3

\* The cursor goes to column a of row b; nothing else happens.
GoesTo(k, m, a, b) ==
  /\ ConInv(m) /\ View(m) = View(k) /\ m.x = a /\ m.y = b
  /\ m.top = k.top /\ m.bottom = k.bottom /\ m.origin = k.origin /\ m.mem = k.mem

(* It does if its place in memory does.                                    *)
LEMMA CursorGoes ==
  ASSUME NEW k, Framed(k), k.top \in Rows, k.bottom \in 1..lines, k.top < k.bottom,
         k.saved_x \in 0..columns, k.saved_y \in Rows, k.npar \in 0..(NPAR - 1),
         NEW a \in 0..columns, NEW b \in Rows, NEW p, p = Place(k, b, a),
         NEW m, OnlyCursor(k, m, a, b, p)
  PROVE  GoesTo(k, m, a, b)
<1>1. Framed(m) /\ View(m) = View(k)
  BY DEF OnlyCursor, Framed, View
<1>2. InPlace(m)
  BY DEF OnlyCursor, InPlace, Place
<1>3. QED
  BY <1>1, <1>2 DEF OnlyCursor, GoesTo, ConInv

(* From where it should be, in particular.                                 *)
LEMMA CursorGoesOn ==
  ASSUME NEW k, ConInv(k), NEW a \in 0..columns, NEW b \in Rows, NEW p, p = Place(k, b, a), NEW m,
         OnlyCursor(k, m, a, b, p)
  PROVE  GoesTo(k, m, a, b)
<1>1. /\ Framed(k) /\ k.top \in Rows /\ k.bottom \in 1..lines /\ k.top < k.bottom
      /\ k.saved_x \in 0..columns /\ k.saved_y \in Rows /\ k.npar \in 0..(NPAR - 1)
  BY DEF ConInv, InPlace
<1>2. QED
  BY <1>1, CursorGoes

\* Lines go up, or the cursor down.
GoesDown(k, m) ==
  \/ k.y + 1 \in Rows /\ GoesTo(k, m, k.x, k.y + 1)
  \/ MovesUp(k, m)

(* lf.                                                                     *)
LEMMA LineFeed ==
  ASSUME NEW k, ConInv(k)
  PROVE  GoesDown(k, lf(k))
<1>1. /\ k.y \in Nat /\ k.bottom <= lines /\ lines \in Nat /\ k.x \in 0..columns /\ k.x \in Nat
      /\ k.bottom \in Nat /\ columns \in Nat /\ k.pos = Place(k, k.y, k.x) /\ k.pos \in Int
      /\ k.origin \in Int /\ k \in ConType
  BY ConFacts
<1>2. CASE k.y + 1 < k.bottom
  <2>1. PICK b \in Rows : b = k.y + 1
    BY <1>1, <1>2 DEF Rows
  <2>2. k.y \in Int /\ k.x \in Int /\ 1 \in Int /\ b \in Int
    BY <1>1, <2>1
  <2>3. Place(k, b, k.x) = Place(k, k.y, k.x) + 1 * columns
    BY <1>1, <2>1, <2>2, PlaceBelow
  <2>4. PICK p \in Int : p = k.pos + columns
    BY <1>1
  <2>5. p = Place(k, b, k.x)
    BY <1>1, <2>3, <2>4
  <2>6. YTo(lf(k), k, b, p)
    BY <1>2, <2>1, <2>4 DEF lf, YTo
  <2>7. OnlyCursor(k, lf(k), k.x, b, p)
    BY <1>1, <2>2, <2>6, CursorFields
  <2>8. GoesTo(k, lf(k), k.x, b)
    BY <1>1, <2>5, <2>7, CursorGoesOn
  <2>9. QED
    BY <2>1, <2>8 DEF GoesDown
<1>3. CASE ~(k.y + 1 < k.bottom)
  BY <1>3, GoesUp DEF lf, GoesDown
<1>4. QED
  BY <1>2, <1>3

(* ri.                                                                     *)
LEMMA ReverseIndex ==
  ASSUME NEW k, ConInv(k)
  PROVE  MovesDown(k, ri(k)) \/ \E b \in Rows : GoesTo(k, ri(k), k.x, b)
<1>1. /\ k.y \in Nat /\ k.y < lines /\ lines \in Nat /\ k.x \in 0..columns /\ k.x \in Nat
      /\ k.top \in Nat /\ columns \in Nat /\ k.pos = Place(k, k.y, k.x) /\ k.pos \in Int
      /\ k.origin \in Int /\ k \in ConType
  BY ConFacts
<1>2. CASE k.y > k.top
  <2>1. PICK b \in Rows : b = k.y - 1
    BY <1>1, <1>2 DEF Rows
  <2>2. k.y \in Int /\ k.x \in Int /\ 1 \in Int /\ b \in Int /\ k.y = b + 1
    BY <1>1, <2>1
  <2>3. Place(k, k.y, k.x) = Place(k, b, k.x) + 1 * columns /\ Place(k, b, k.x) \in Int
    BY <1>1, <2>2, PlaceBelow
  <2>4. PICK p \in Int : p = k.pos - columns
    BY <1>1
  <2>5. p = Place(k, b, k.x)
    BY <1>1, <2>3, <2>4
  <2>6. YTo(ri(k), k, b, p)
    BY <1>2, <2>1, <2>4 DEF ri, YTo
  <2>7. OnlyCursor(k, ri(k), k.x, b, p)
    BY <1>1, <2>2, <2>6, CursorFields
  <2>8. QED
    BY <1>1, <2>5, <2>7, CursorGoesOn
<1>3. CASE ~(k.y > k.top)
  BY <1>3, RegionDown DEF ri
<1>4. QED
  BY <1>2, <1>3

(* In its row the cursor's place is off by its column.                     *)
LEMMA InRow ==
  ASSUME NEW k, ConInv(k), NEW a \in 0..columns, NEW p, p = k.pos + (a - k.x), NEW m, XTo(m, k, a, p)
  PROVE  GoesTo(k, m, a, k.y)
<1>1. /\ k.y \in Rows /\ k.y \in Int /\ k.x \in Int /\ columns \in Nat /\ k.pos = Place(k, k.y, k.x)
      /\ k.pos \in Int /\ k.origin \in Int /\ k \in ConType
  BY ConFacts
<1>2. a \in Int /\ p \in Int
  BY <1>1
<1>3. /\ Place(k, k.y, k.x) = Place(k, k.y, 0) + k.x /\ Place(k, k.y, a) = Place(k, k.y, 0) + a
      /\ Place(k, k.y, 0) \in Int
  BY <1>1, <1>2, PlaceInt
<1>4. p = Place(k, k.y, a)
  BY <1>1, <1>2, <1>3
<1>5. OnlyCursor(k, m, a, k.y, p)
  BY <1>1, <1>2, CursorFields
<1>6. QED
  BY <1>1, <1>4, <1>5, CursorGoesOn

(* cr and Left.                                                            *)
LEMMA ToTheLeft ==
  ASSUME NEW k, ConInv(k)
  PROVE  /\ GoesTo(k, cr(k), 0, k.y)
         /\ k.x > 0 => GoesTo(k, Left(k), k.x - 1, k.y)
         /\ k.x = 0 => Left(k) = k
<1>1. k.x \in Nat /\ k.x <= columns /\ columns \in Nat /\ k.pos \in Int /\ k \in ConType
  BY ConFacts
<1>2. PICK p \in Int, q \in Int : p = k.pos - k.x /\ q = k.pos - 1
  BY <1>1
<1>3. GoesTo(k, cr(k), 0, k.y)
  <2>1. XTo(cr(k), k, 0, p)
    BY <1>1, <1>2 DEF cr, XTo, ConType
  <2>2. 0 \in 0..columns /\ p = k.pos + (0 - k.x)
    BY <1>1, <1>2
  <2>3. QED
    BY <2>1, <2>2, InRow
<1>4. ASSUME k.x > 0 PROVE GoesTo(k, Left(k), k.x - 1, k.y)
  <2>1. PICK a \in 0..columns : a = k.x - 1
    BY <1>1, <1>4
  <2>2. XTo(Left(k), k, a, q)
    BY <1>1, <1>2, <1>4, <2>1 DEF Left, XTo
  <2>3. q = k.pos + (a - k.x)
    BY <1>1, <1>2, <2>1
  <2>4. QED
    BY <2>1, <2>2, <2>3, InRow
<1>5. QED
  BY <1>3, <1>4 DEF Left

(* gotoxy and restore_cur.                                                 *)
LEMMA Anywhere ==
  ASSUME NEW k, ConInv(k), NEW a, NEW b
  PROVE  /\ gotoxy(k, a, b) = k \/ GoesTo(k, gotoxy(k, a, b), a, b)
         /\ GoesTo(k, restore_cur(k), k.saved_x, k.saved_y)
<1>1. /\ columns \in Nat \ {0} /\ lines \in Nat \ {0, 1} /\ k.origin \in Int /\ k \in ConType
      /\ k.saved_x \in 0..columns /\ k.saved_y \in Rows
  BY ConFacts DEF ConInv, InPlace
<1>2. ASSUME NEW x \in 0..columns, NEW y \in Rows, NEW m,
             m = [k EXCEPT !.x = x, !.y = y, !.pos = k.origin + y * columns + x]
      PROVE  GoesTo(k, m, x, y)
  <2>1. x \in Int /\ y \in Int
    BY <1>1 DEF Rows
  <2>2. PICK p \in Int : p = Place(k, y, x)
    BY <1>1, <2>1, PlaceInt
  <2>3. XYTo(m, k, x, y, p)
    BY <1>2, <2>2 DEF XYTo, Place
  <2>4. OnlyCursor(k, m, x, y, p)
    BY <1>1, <2>1, <2>3, CursorFields
  <2>5. QED
    BY <2>2, <2>4, CursorGoesOn
<1>3. ASSUME a \in 0..(columns - 1), b \in 0..(lines - 1)
      PROVE  GoesTo(k, gotoxy(k, a, b), a, b)
  <2>1. a \in 0..columns /\ b \in Rows
    BY <1>1, <1>3 DEF Rows
  <2>2. gotoxy(k, a, b) = [k EXCEPT !.x = a, !.y = b, !.pos = k.origin + b * columns + a]
    BY <1>3 DEF gotoxy
  <2>3. QED
    BY <1>2, <2>1, <2>2
<1>4. QED
  BY <1>1, <1>2, <1>3 DEF gotoxy, restore_cur

---------------------------------------------------------------------------
(* The console: characters.                                                *)

\* The promise is about what is seen and the cursor.
SeenAlike(k, l) == View(l) = View(k) /\ l.x = k.x /\ l.y = k.y

(* What looks alike is promised the same.                                  *)
LEMMA SamePromise ==
  ASSUME NEW k, NEW l, SeenAlike(k, l), NEW m, Promised(l, m)
  PROVE  Promised(k, m)
BY ZenonT(60) DEF SeenAlike, Promised, Still, Scrolls, Prints, PrintsHere, PrintsBelow,
     PrintsLast, Erases,
       RubsOut, Shifts, KeepsCursor

\* A step that keeps the invariant and its promise.
Good(k, m) == ConInv(m) /\ Promised(k, m)

(* Moving the cursor and scrolling are such.                               *)
LEMMA GoodMoves ==
  ASSUME NEW k, ConInv(k), NEW m
  PROVE  /\ \A a, b : GoesTo(k, m, a, b) => Good(k, m)
         /\ MovesUp(k, m) \/ MovesDown(k, m) => Good(k, m)
         /\ GoesDown(k, m) => Good(k, m)
         /\ m = k => Good(k, m)
<1>1. \A a, b : GoesTo(k, m, a, b) => Good(k, m)
  BY DEF GoesTo, Good, Promised, Still
<1>2. MovesUp(k, m) \/ MovesDown(k, m) => Good(k, m)
  <2>1. k.top \in Rows /\ k.bottom \in 1..lines /\ k.top < k.bottom /\ 1 \in 1..lines
    BY ConsoleAssumption DEF ConInv, InPlace
  <2>2. MovesUp(k, m) \/ MovesDown(k, m) => Scrolls(k, m)
    BY <2>1 DEF MovesUp, MovesDown, Scrolls
  <2>3. QED
    BY <2>2 DEF MovesUp, MovesDown, Good, Promised
<1>3. m = k => Good(k, m)
  BY DEF Good, Promised, Still
<1>4. QED
  BY <1>1, <1>2, <1>3 DEF GoesDown

\* m is k past the last column, where a is the column in the next line.
Past(k, m, a, q) == OnlyCursor(k, m, columns + a, k.y, q) /\ q = Place(k, k.y, columns + a)

(* Wrap.                                                                   *)
LEMMA WrapGoes ==
  ASSUME NEW k, ConInv(k), NEW a \in 0..columns, NEW q, NEW m, Past(k, m, a, q)
  PROVE  \E l : ConInv(l) /\ GoesTo(k, l, a, k.y) /\ GoesDown(l, Wrap(m))
<1> DEFINE l == [m EXCEPT !.x = @ - columns, !.pos = @ - columns]
<1>1. /\ columns \in Nat /\ k.origin \in Int /\ k \in ConType /\ k.y \in Int /\ k.y \in Rows
      /\ a \in Int /\ columns + a \in Int
  BY ConFacts DEF Rows
<1>2. PICK s \in Int : s = columns + a
  BY <1>1
<1>3. /\ Place(k, k.y, s) = Place(k, k.y, 0) + s /\ Place(k, k.y, a) = Place(k, k.y, 0) + a
      /\ Place(k, k.y, 0) \in Int
  BY <1>1, <1>2, PlaceInt
<1>4. OnlyCursor(k, m, s, k.y, q) /\ q = Place(k, k.y, s)
  BY <1>2 DEF Past
<1>5. m \in ConType /\ m.x = s /\ m.pos = q /\ m.y = k.y
  BY <1>4 DEF OnlyCursor
<1>6. PICK p \in Int : p = q - columns
  BY <1>1, <1>2, <1>3, <1>4
<1>7. XTo(l, m, a, p)
  <2>1. a = s - columns
    BY <1>1, <1>2
  <2>2. QED
    BY <1>5, <1>6, <2>1 DEF XTo
<1>8. Wrap(m) = lf(l)
  BY DEF Wrap
<1> HIDE DEF l
<1>9. OnlyCursor(m, l, a, m.y, p)
  BY <1>1, <1>5, <1>6, <1>7, CursorFields
<1>10. OnlyCursor(k, l, a, k.y, p)
  BY <1>4, <1>9 DEF OnlyCursor
<1>11. p = Place(k, k.y, a)
  BY <1>1, <1>2, <1>3, <1>4, <1>6
<1>12. GoesTo(k, l, a, k.y)
  BY <1>1, <1>10, <1>11, CursorGoesOn
<1>13. GoesDown(l, lf(l))
  BY <1>12, LineFeed DEF GoesTo
<1>14. QED
  BY <1>8, <1>12, <1>13 DEF GoesTo

Written(u, v, y, x, g) == u = [v EXCEPT ![y][x] = g]

(* A picture in which a cell is written.                                   *)
LEMMA WritePicture ==
  ASSUME NEW v, Picture(v), NEW y \in Rows, NEW x \in Cols, NEW g, NEW u, Written(u, v, y, x, g)
  PROVE  Picture(u) /\ \A r \in Rows, c \in Cols : u[r][c] = IF r = y /\ c = x THEN g ELSE v[r][c]
<1> DEFINE w == [v[y] EXCEPT ![x] = g]
<1>1. v = [r \in Rows |-> v[r]] /\ \A r \in Rows : v[r] = [c \in Cols |-> v[r][c]]
  BY DEF Picture
<1>2. w = [c \in Cols |-> w[c]] /\ \A c \in Cols : w[c] = IF c = x THEN g ELSE v[y][c]
  BY <1>1
<1> HIDE DEF w
<1>3. u = [v EXCEPT ![y] = w]
  BY DEF w, Written
<1>4. u = [r \in Rows |-> u[r]] /\ \A r \in Rows : u[r] = IF r = y THEN w ELSE v[r]
  BY <1>1, <1>3
<1>5. \A r \in Rows : u[r] = [c \in Cols |-> u[r][c]]
  BY <1>1, <1>2, <1>4
<1>6. Picture(u)
  BY <1>4, <1>5 DEF Picture
<1>7. QED
  BY <1>2, <1>4, <1>6

(* What is seen after a cell of it is written.                             *)
LEMMA WriteCell ==
  ASSUME NEW k, Framed(k), NEW y \in Rows, NEW x \in Cols, NEW g \in Glyphs, NEW m,
         m.origin = k.origin, m.mem = [k.mem EXCEPT ![Place(k, y, x)] = g]
  PROVE  View(m) = [View(k) EXCEPT ![y][x] = g]
<1> DEFINE v == View(k)
           u == [v EXCEPT ![y][x] = g]
<1>1. /\ Picture(v) /\ Picture(View(m))
      /\ \A r \in Rows, c \in Cols : v[r][c] = k.mem[Place(k, r, c)]
      /\ \A r \in Rows, c \in Cols : View(m)[r][c] = m.mem[Place(m, r, c)]
  BY ViewPicture
<1> HIDE DEF v
<1>2. Written(u, v, y, x, g)
  BY DEF Written
<1> HIDE DEF u
<1>3. /\ Picture(u)
      /\ \A r \in Rows, c \in Cols : u[r][c] = IF r = y /\ c = x THEN g ELSE v[r][c]
  BY <1>1, <1>2, WritePicture
<1>4. ASSUME NEW r \in Rows, NEW c \in Cols
      PROVE  View(m)[r][c] = u[r][c]
  <2>1. Place(m, r, c) = Place(k, r, c)
    BY DEF Place
  <2>2. Place(k, r, c) \in Cells /\ k.mem \in [Cells -> Glyphs]
    BY InMemory DEF Framed, ConType
  <2>3. Place(k, r, c) = Place(k, y, x) => r = y /\ c = x
    <3>1. k.origin \in Int /\ r \in Int /\ y \in Int /\ x \in 0..columns /\ c \in 0..columns
          /\ c \in Int /\ x \in Int /\ Place(k, r, c) \in Int /\ Place(k, y, x) \in Int
      BY InMemory, ConsoleAssumption DEF Rows, Cols, Cells
    <3>2. /\ Place(k, r, c) < Place(k, y, x) <=> Precedes(r, c, y, x)
          /\ Place(k, y, x) < Place(k, r, c) <=> Precedes(y, x, r, c)
      BY <3>1, PlaceOrder
    <3> HIDE DEF Place
    <3>3. QED
      BY <3>1, <3>2 DEF Precedes
  <2> HIDE DEF Place
  <2>4. m.mem[Place(k, r, c)] = IF Place(k, r, c) = Place(k, y, x) THEN g ELSE k.mem[Place(k, r, c)]
    BY <2>2
  <2>5. QED
    BY <1>1, <1>3, <2>1, <2>3, <2>4
<1>5. View(m) = u
  BY <1>1, <1>3, <1>4, SamePicture
<1>6. QED
  BY <1>5 DEF u, v

\* g is written in the cursor's cell, and the cursor goes on.
Puts(k, m, g) == m = [k EXCEPT !.mem[k.pos] = g, !.pos = @ + 1, !.x = @ + 1]

(* That is seen.                                                           *)
LEMMA PutCell ==
  ASSUME NEW k, ConInv(k), k.x < columns, NEW g \in Letters, NEW m, Puts(k, m, g)
  PROVE  /\ ConInv(m) /\ View(m) = [View(k) EXCEPT ![k.y][k.x] = g]
         /\ m.x = k.x + 1 /\ m.y = k.y
<1> DEFINE h == [k EXCEPT !.mem = [k.mem EXCEPT ![k.pos] = g]]
<1>1. /\ Framed(k) /\ k \in ConType /\ k.x \in Nat /\ k.y \in Rows /\ k.pos = Place(k, k.y, k.x)
      /\ k.pos \in Int /\ columns \in Nat
  BY ConFacts
<1>2. k.x \in Cols /\ g \in Glyphs
  BY <1>1 DEF Cols, Glyphs
<1>3. h = [k EXCEPT !.mem = h.mem] /\ h.mem = [k.mem EXCEPT ![k.pos] = g] /\ h \in ConType
  BY <1>1, <1>2 DEF ConType
<1>4. m = [h EXCEPT !.x = h.x + 1, !.pos = h.pos + 1]
  BY <1>1 DEF Puts, ConType
<1> HIDE DEF h
<1>5. Redrawn(k, h)
  BY <1>3 DEF Redrawn
<1>6. ConInv(h) /\ SameCursor(k, h) /\ h.pos = k.pos /\ h.origin = k.origin
  BY <1>5, RedrawnCursor
<1>7. View(h) = [View(k) EXCEPT ![k.y][k.x] = g]
  <2>1. PICK y \in Rows, x \in Cols : y = k.y /\ x = k.x
    BY <1>1, <1>2
  <2>2. h.mem = [k.mem EXCEPT ![Place(k, y, x)] = g]
    BY <1>1, <1>3, <2>1
  <2>3. View(h) = [View(k) EXCEPT ![y][x] = g]
    BY <1>1, <1>2, <1>6, <2>2, WriteCell
  <2>4. QED
    BY <2>1, <2>3
<1>8. PICK a \in 0..columns : a = h.x + 1
  BY <1>1, <1>6 DEF SameCursor
<1>9. GoesTo(h, m, a, h.y)
  <2>1. PICK p : p = h.pos + 1
    OBVIOUS
  <2>2. XTo(m, h, a, p)
    BY <1>4, <1>8, <2>1 DEF XTo
  <2>3. p = h.pos + (a - h.x)
    BY <1>1, <1>6, <1>8, <2>1 DEF SameCursor
  <2>4. QED
    BY <1>6, <2>2, <2>3, InRow
<1>10. QED
  BY <1>6, <1>7, <1>8, <1>9 DEF GoesTo, SameCursor

(* Shown.                                                                  *)
LEMMA ShownGood ==
  ASSUME NEW k, ConInv(k), NEW g \in Letters
  PROVE  Good(k, Shown(k, g))
<1>1. /\ columns \in Nat \ {0} /\ k.x \in Nat /\ k.x <= columns /\ k \in ConType /\ k.y \in Rows
      /\ k.pos = Place(k, k.y, k.x) /\ lines \in Nat
  BY ConFacts
<1>2. CASE k.x < columns
  <2>1. Puts(k, Shown(k, g), g)
    <3>1. ~(k.x >= columns)
      BY <1>1, <1>2
    <3>2. QED
      BY <3>1, Zenon DEF Shown, Puts
  <2>2. PrintsHere(k, Shown(k, g), g) /\ ConInv(Shown(k, g))
    BY <1>2, <2>1, PutCell DEF PrintsHere
  <2>3. QED
    BY <2>2 DEF Good, Promised, Prints
<1>3. CASE k.x = columns
  <2> DEFINE w == Wrap(k)
             m == Shown(k, g)
  <2>1. PICK l : ConInv(l) /\ GoesTo(k, l, 0, k.y) /\ GoesDown(l, w)
    <3>1. columns + 0 = columns /\ 0 \in 0..columns
      BY <1>1
    <3>2. PICK q : q = k.pos
      OBVIOUS
    <3>3. Past(k, k, 0, q)
      BY <1>1, <1>3, <3>1, <3>2 DEF Past, OnlyCursor
    <3>4. QED
      BY <3>1, <3>3, WrapGoes
  <2>2. Puts(w, m, g)
    BY <1>1, <1>3 DEF Shown, Puts
  <2> HIDE DEF w, m
  <2>3. l.x = 0 /\ l.y = k.y /\ View(l) = View(k)
    BY <2>1 DEF GoesTo
  <2>4. ConInv(w) /\ w.x = 0
    BY <2>1, <2>3 DEF GoesDown, GoesTo, MovesUp, SameCursor
  <2>5. ConInv(m) /\ View(m) = [View(w) EXCEPT ![w.y][0] = g] /\ m.x = 1 /\ m.y = w.y
    BY <1>1, <2>2, <2>4, PutCell
  <2>6. CASE k.y + 1 \in Rows /\ GoesTo(l, w, l.x, l.y + 1)
    <3>1. PrintsBelow(k, m, g)
      BY <1>3, <2>3, <2>5, <2>6 DEF PrintsBelow, GoesTo
    <3>2. QED
      BY <2>5, <3>1 DEF m, Good, Promised, Prints
  <2>7. CASE MovesUp(l, w)
    <3>1. l.top \in Rows /\ l.bottom \in 1..lines
      BY <2>1 DEF ConInv, InPlace
    <3>2. View(w) = MovedUp(View(k), l.top, l.bottom, 1) /\ w.y = k.y
      BY <2>3, <2>7 DEF MovesUp, SameCursor
    <3>3. PrintsLast(k, m, g)
      BY <1>3, <2>5, <3>1, <3>2 DEF PrintsLast
    <3>4. QED
      BY <2>5, <3>3 DEF m, Good, Promised, Prints
  <2>8. QED
    BY <2>1, <2>3, <2>6, <2>7 DEF GoesDown
<1>4. QED
  BY <1>1, <1>2, <1>3

(* The next tab stop is past the last column for none but that.            *)
LEMMA TabStop ==
  ASSUME NEW x \in 0..columns, NEW a, a = x + TAB - (x % TAB)
  PROVE  /\ a \in Nat /\ (x < columns => a <= columns)
         /\ x = columns => a = columns + TAB /\ TAB \in 0..columns
<1>1. columns \in Nat \ {0} /\ TAB \in Nat \ {0} /\ columns % TAB = 0
  BY ConsoleAssumption
<1>2. \A z \in Nat : z % TAB \in 0..(TAB - 1) /\ z \div TAB \in Nat /\ z = TAB * (z \div TAB) + (z % TAB)
  BY <1>1
<1>3. PICK p \in Nat : columns = p * TAB
  <2>1. columns \div TAB \in Nat /\ columns = TAB * (columns \div TAB) + (columns % TAB)
    BY <1>1, <1>2
  <2>2. PICK p \in Nat : p = columns \div TAB
    BY <2>1
  <2>3. columns = TAB * p
    BY <1>1, <2>1, <2>2
  <2>4. QED
    BY <1>1, <2>3
<1>4. PICK q \in Nat, r \in Nat : x = q * TAB + r /\ r = x % TAB /\ r < TAB
  <2>1. /\ x \in Nat /\ x % TAB \in 0..(TAB - 1) /\ x \div TAB \in Nat
        /\ x = TAB * (x \div TAB) + (x % TAB)
    BY <1>1, <1>2
  <2>2. PICK q \in Nat, r \in Nat : q = x \div TAB /\ r = x % TAB
    BY <1>1, <2>1
  <2>3. x = TAB * q + r /\ r < TAB /\ TAB * q = q * TAB
    BY <1>1, <2>1, <2>2
  <2>4. QED
    BY <2>2, <2>3
<1>5. (q + 1) * TAB = q * TAB + TAB /\ q * TAB \in Nat /\ p * TAB \in Nat
  BY <1>1
<1>6. a = q * TAB + TAB
  <2> DEFINE Q == q * TAB
  <2>1. x = Q + r /\ Q \in Nat /\ a = x + TAB - r
    BY <1>4, <1>5
  <2> HIDE DEF Q
  <2>2. a = Q + TAB
    BY <1>1, <2>1
  <2>3. QED
    BY <2>2 DEF Q
<1>7. ASSUME x < columns PROVE a <= columns
  <2>1. ~(p <= q)
    <3>1. SUFFICES ASSUME p <= q PROVE FALSE
      OBVIOUS
    <3>2. p * TAB <= q * TAB
      BY <1>1, <3>1, MoreRows
    <3>3. QED
      BY <1>3, <1>4, <1>5, <1>7, <3>2
  <2>2. (q + 1) * TAB <= p * TAB
    BY <1>1, <2>1, MoreRows
  <2>3. QED
    BY <1>3, <1>5, <1>6, <2>2
<1>8. ASSUME x = columns PROVE a = columns + TAB /\ TAB <= columns
  <2>1. a = columns + TAB
    BY <1>1, <1>8
  <2>2. p # 0
    BY <1>1, <1>3
  <2>3. 1 * TAB <= p * TAB
    BY <1>1, <2>2, MoreRows
  <2>4. QED
    BY <1>1, <1>3, <2>1, <2>3
<1>9. QED
  BY <1>1, <1>5, <1>6, <1>7, <1>8

(* Tabbed.                                                                 *)
LEMMA TabbedGood ==
  ASSUME NEW k, ConInv(k)
  PROVE  Good(k, Tabbed(k))
<1>1. /\ columns \in Nat \ {0} /\ k.x \in Nat /\ k.x <= columns /\ k.x \in 0..columns
      /\ k \in ConType
      /\ k.y \in Rows /\ k.y \in Int /\ k.origin \in Int
      /\ k.pos \in Int /\ k.pos = Place(k, k.y, k.x) /\ TAB \in Nat \ {0}
  BY ConFacts, ConsoleAssumption DEF Rows
<1>2. PICK a : a = k.x + TAB - (k.x % TAB)
  OBVIOUS
<1>3. /\ a \in Nat /\ (k.x < columns => a <= columns)
      /\ k.x = columns => a = columns + TAB /\ TAB \in 0..columns
  BY <1>1, <1>2, TabStop
<1>4. PICK t \in Int : t = k.x % TAB
  BY <1>1
<1>5. PICK p \in Int : p = k.pos + TAB - t
  BY <1>1
<1> DEFINE m == [k EXCEPT !.x = @ + TAB - (k.x % TAB), !.pos = @ + TAB - (k.x % TAB)]
<1>6. XTo(m, k, a, p)
  BY <1>2, <1>4, <1>5 DEF XTo
<1>7. Tabbed(k) = IF m.x > columns THEN Wrap(m) ELSE m
  BY DEF Tabbed
<1> HIDE DEF m
<1>8. OnlyCursor(k, m, a, k.y, p)
  BY <1>1, <1>3, <1>6, CursorFields
<1>9. p = k.pos + (a - k.x)
  BY <1>1, <1>2, <1>4, <1>5
<1>10. CASE k.x < columns
  <2>1. a \in 0..columns
    BY <1>1, <1>3, <1>10
  <2>2. GoesTo(k, m, a, k.y)
    BY <1>6, <1>9, <2>1, InRow
  <2>3. Tabbed(k) = m
    BY <1>1, <1>7, <1>8, <2>1 DEF OnlyCursor
  <2>4. QED
    BY <2>2, <2>3, GoodMoves
<1>11. CASE k.x = columns
  <2>1. a = columns + TAB /\ TAB \in 0..columns
    BY <1>3, <1>11
  <2>2. PICK s \in Int : s = columns + TAB
    BY <1>1
  <2>3. /\ Place(k, k.y, s) = Place(k, k.y, 0) + s
        /\ Place(k, k.y, k.x) = Place(k, k.y, 0) + k.x /\ Place(k, k.y, 0) \in Int
    BY <1>1, <2>2, PlaceInt
  <2>4. p = Place(k, k.y, s)
    BY <1>1, <1>9, <2>1, <2>2, <2>3
  <2>5. Past(k, m, TAB, p)
    BY <1>8, <2>1, <2>2, <2>4 DEF Past
  <2>6. PICK l : ConInv(l) /\ GoesTo(k, l, TAB, k.y) /\ GoesDown(l, Wrap(m))
    BY <2>1, <2>5, WrapGoes
  <2>7. Tabbed(k) = Wrap(m)
    BY <1>1, <1>7, <1>8, <2>1 DEF OnlyCursor
  <2>8. View(l) = View(k)
    BY <2>6 DEF GoesTo
  <2>9. Good(k, Wrap(m))
    <3>1. CASE l.y + 1 \in Rows /\ GoesTo(l, Wrap(m), l.x, l.y + 1)
      BY <2>8, <3>1 DEF GoesTo, Good, Promised, Still
    <3>2. CASE MovesUp(l, Wrap(m))
      <4>1. l.top \in Rows /\ l.bottom \in 1..lines /\ l.top < l.bottom /\ 1 \in 1..lines
        BY <2>6, ConsoleAssumption DEF ConInv, InPlace
      <4>2. Scrolls(k, Wrap(m)) /\ ConInv(Wrap(m))
        BY <2>8, <3>2, <4>1 DEF MovesUp, Scrolls
      <4>3. QED
        BY <4>2 DEF Good, Promised
    <3>3. QED
      BY <2>6, <3>1, <3>2 DEF GoesDown
  <2>10. QED
    BY <2>7, <2>9
<1>12. QED
  BY <1>1, <1>10, <1>11

---------------------------------------------------------------------------
(* The console: erasing.                                                   *)

\* Fill of what is gone, from row y, column x to row z, column w.
Fills(k, m, y, x, z, w) ==
  \E from, count \in Int : from = Place(k, y, x) /\ from + count = Place(k, z, w) /\ m = Fill(k, from, count)
Gone(gone, y, x, z, w) ==
  \A r \in Rows, c \in Cols : gone[<<r, c>>] <=> Within(r, c, y, x, z, w)

(* It erases.                                                              *)
LEMMA FillErases ==
  ASSUME NEW k, ConInv(k), NEW y \in Int, NEW x \in 0..columns, NEW z \in Int, NEW w \in 0..columns,
         NEW gone \in Erasable(k.y, k.x), Gone(gone, y, x, z, w), NEW m, Fills(k, m, y, x, z, w)
  PROVE  Good(k, m)
<1>1. Framed(k)
  BY ConFacts
<1>2. PICK from, count \in Int :
        /\ from = Place(k, y, x) /\ from + count = Place(k, z, w)
        /\ m = Fill(k, from, count)
  BY DEF Fills
<1>3. /\ Redrawn(k, m)
      /\ \A r \in Rows, c \in Cols : View(m)[r][c] = IF Within(r, c, y, x, z, w) THEN Blank
                                                                                ELSE View(k)[r][c]
  BY <1>1, <1>2, FillRange
<1>4. ConInv(m) /\ KeepsCursor(k, m)
  BY <1>3, RedrawnCursor DEF SameCursor, KeepsCursor
<1>5. \A r \in Rows, c \in Cols : View(m)[r][c] = Blanked(View(k), gone)[r][c]
  BY <1>3 DEF Gone, Blanked
<1>6. Picture(Blanked(View(k), gone)) /\ Picture(View(m))
  BY ViewPicture DEF Picture, Blanked
<1>7. View(m) = Blanked(View(k), gone)
  BY <1>5, <1>6, SamePicture
<1>8. QED
  BY <1>4, <1>7 DEF Good, Promised, Erases

\* What can be gone: from the cursor on, up to it, in its row, and all.
Later(y, x) == [p \in Rows \X Cols |-> p[1] > y \/ (p[1] = y /\ p[2] >= x)]
Before(y, x) == [p \in Rows \X Cols |-> p[1] < y \/ (p[1] = y /\ p[2] < x)]
RowLater(y, x) == [p \in Rows \X Cols |-> p[1] = y /\ p[2] >= x]
RowBefore(y, x) == [p \in Rows \X Cols |-> p[1] = y /\ p[2] < x]
RowAll(y) == [p \in Rows \X Cols |-> p[1] = y]
All == [p \in Rows \X Cols |-> TRUE]

(* From where to where that is.                                            *)
LEMMA WhatIsGone ==
  ASSUME NEW y \in Rows, NEW x \in 0..columns
  PROVE  /\ Later(y, x) \in Erasable(y, x) /\ Gone(Later(y, x), y, x, lines, 0)
         /\ Before(y, x) \in Erasable(y, x) /\ Gone(Before(y, x), 0, 0, y, x)
         /\ RowLater(y, x) \in Erasable(y, x) /\ Gone(RowLater(y, x), y, x, y, columns)
         /\ RowBefore(y, x) \in Erasable(y, x) /\ Gone(RowBefore(y, x), y, 0, y, x)
         /\ RowAll(y) \in Erasable(y, x) /\ Gone(RowAll(y), y, 0, y, columns)
         /\ All \in Erasable(y, x) /\ Gone(All, 0, 0, lines, 0)
<1>1. /\ Later(y, x) \in Erasable(y, x) /\ Before(y, x) \in Erasable(y, x)
      /\ RowLater(y, x) \in Erasable(y, x) /\ RowBefore(y, x) \in Erasable(y, x)
      /\ RowAll(y) \in Erasable(y, x) /\ All \in Erasable(y, x)
  BY DEF Later, Before, RowLater, RowBefore, RowAll, All, Erasable
<1>2. \A r \in Rows, c \in Cols :
        /\ Later(y, x)[<<r, c>>] = (r > y \/ (r = y /\ c >= x))
        /\ Before(y, x)[<<r, c>>] = (r < y \/ (r = y /\ c < x))
        /\ RowLater(y, x)[<<r, c>>] = (r = y /\ c >= x)
        /\ RowBefore(y, x)[<<r, c>>] = (r = y /\ c < x)
        /\ RowAll(y)[<<r, c>>] = (r = y)
        /\ All[<<r, c>>] = TRUE
  BY DEF Later, Before, RowLater, RowBefore, RowAll, All
<1>3. ASSUME NEW r \in Rows, NEW c \in Cols
      PROVE  /\ (r > y \/ (r = y /\ c >= x)) <=> Within(r, c, y, x, lines, 0)
             /\ (r < y \/ (r = y /\ c < x)) <=> Within(r, c, 0, 0, y, x)
             /\ (r = y /\ c >= x) <=> Within(r, c, y, x, y, columns)
             /\ (r = y /\ c < x) <=> Within(r, c, y, 0, y, x)
             /\ (r = y) <=> Within(r, c, y, 0, y, columns)
             /\ Within(r, c, 0, 0, lines, 0)
  <2>1. /\ r \in Nat /\ c \in Nat /\ y \in Nat /\ x \in Nat /\ r < lines /\ c < columns
        /\ lines \in Nat
        /\ columns \in Nat
    BY ConsoleAssumption DEF Rows, Cols
  <2>2. QED
    BY <2>1 DEF Within, Precedes
<1> HIDE DEF Later, Before, RowLater, RowBefore, RowAll, All
<1>4. QED
  BY <1>1, <1>2, <1>3, ZenonT(60) DEF Gone

\* Places about the cursor.
LEMMA CursorPlaces ==
  ASSUME NEW k, ConInv(k)
  PROVE  /\ k.origin = Place(k, 0, 0) /\ k.origin + lines * columns = Place(k, lines, 0)
         /\ k.pos = Place(k, k.y, k.x) /\ k.pos \in Int /\ k.origin \in Int
         /\ lines * columns \in Int
         /\ \A a \in Int : k.pos + (a - k.x) = Place(k, k.y, a) /\ Place(k, k.y, a) \in Int
<1>1. /\ k.y \in Int /\ k.x \in Int /\ columns \in Nat /\ lines \in Nat
      /\ k.pos = Place(k, k.y, k.x)
      /\ k.pos \in Int /\ k.origin \in Int
  BY ConFacts
<1>2. lines * columns \in Int /\ k.origin + lines * columns + 0 = k.origin + lines * columns
  BY <1>1
<1>3. ASSUME NEW a \in Int PROVE k.pos + (a - k.x) = Place(k, k.y, a) /\ Place(k, k.y, a) \in Int
  <2>1. /\ Place(k, k.y, k.x) = Place(k, k.y, 0) + k.x /\ Place(k, k.y, a) = Place(k, k.y, 0) + a
        /\ Place(k, k.y, 0) \in Int /\ Place(k, k.y, a) \in Int
    BY <1>1, PlaceInt
  <2>2. QED
    BY <1>1, <2>1
<1>4. k.origin = Place(k, 0, 0)
  BY <1>1, PlaceBegin
<1>5. k.origin + lines * columns = Place(k, lines, 0)
  BY <1>2 DEF Place
<1>6. QED
  BY <1>1, <1>2, <1>3, <1>4, <1>5

\* From the cursor to the end of its row.
LEMMA RestErased ==
  ASSUME NEW k, ConInv(k), NEW m, m = Fill(k, k.pos, columns - k.x)
  PROVE  Good(k, m)
<1>1. /\ k.y \in Rows /\ k.x \in 0..columns /\ columns \in Nat /\ k.y \in Int
      /\ columns \in 0..columns /\ k.x \in Int
  BY ConFacts DEF Rows
<1>2. Fills(k, m, k.y, k.x, k.y, columns)
  <2>1. /\ k.pos \in Int /\ k.pos = Place(k, k.y, k.x) /\ columns - k.x \in Int
        /\ k.pos + (columns - k.x) = Place(k, k.y, columns)
    BY <1>1, CursorPlaces
  <2>2. QED
    BY <2>1 DEF Fills
<1>3. RowLater(k.y, k.x) \in Erasable(k.y, k.x) /\ Gone(RowLater(k.y, k.x), k.y, k.x, k.y, columns)
  BY <1>1, WhatIsGone
<1>4. QED
  BY <1>1, <1>2, <1>3, FillErases

(* csi_J.                                                                  *)
LEMMA EraseScreen ==
  ASSUME NEW k, ConInv(k), NEW p
  PROVE  Good(k, csi_J(k, p))
<1>1. /\ k.y \in Rows /\ k.x \in 0..columns /\ columns \in Nat /\ lines \in Nat /\ k.y \in Int
      /\ 0 \in 0..columns /\ 0 \in Int /\ lines \in Int
  BY ConFacts DEF Rows
<1>2. /\ k.origin = Place(k, 0, 0) /\ k.origin + lines * columns = Place(k, lines, 0)
      /\ k.pos = Place(k, k.y, k.x) /\ k.pos \in Int /\ k.origin \in Int /\ lines * columns \in Int
  BY CursorPlaces
<1>3. /\ Later(k.y, k.x) \in Erasable(k.y, k.x) /\ Gone(Later(k.y, k.x), k.y, k.x, lines, 0)
      /\ Before(k.y, k.x) \in Erasable(k.y, k.x) /\ Gone(Before(k.y, k.x), 0, 0, k.y, k.x)
      /\ All \in Erasable(k.y, k.x) /\ Gone(All, 0, 0, lines, 0)
  BY <1>1, WhatIsGone
<1>4. CASE p = 0
  <2>1. csi_J(k, p) = Fill(k, k.pos, k.origin + lines * columns - k.pos)
    BY <1>4 DEF csi_J
  <2>2. Fills(k, csi_J(k, p), k.y, k.x, lines, 0)
    <3> DEFINE L == lines * columns
               e == k.origin + L - k.pos
    <3>1. L \in Int
      BY <1>2
    <3> HIDE DEF L
    <3>2. e \in Int /\ k.pos + e = k.origin + L
      BY <1>2, <3>1
    <3>3. k.pos + e = Place(k, lines, 0) /\ csi_J(k, p) = Fill(k, k.pos, e)
      BY <1>2, <2>1, <3>2 DEF L
    <3> HIDE DEF e
    <3>4. QED
      BY <1>2, <3>2, <3>3 DEF Fills
  <2>3. QED
    BY <1>1, <1>3, <2>2, FillErases
<1>5. CASE p = 1
  <2>1. csi_J(k, p) = Fill(k, k.origin, k.pos - k.origin)
    BY <1>5 DEF csi_J
  <2>2. Fills(k, csi_J(k, p), 0, 0, k.y, k.x)
    <3>1. PICK e \in Int : e = k.pos - k.origin
      BY <1>2
    <3>2. k.origin + e = Place(k, k.y, k.x)
      BY <1>2, <3>1
    <3>3. QED
      BY <1>2, <2>1, <3>1, <3>2 DEF Fills
  <2>3. QED
    BY <1>1, <1>3, <2>2, FillErases
<1>6. CASE p = 2
  <2>1. csi_J(k, p) = Fill(k, k.origin, lines * columns)
    BY <1>6 DEF csi_J
  <2>2. Fills(k, csi_J(k, p), 0, 0, lines, 0)
    <3>1. PICK e \in Int : e = lines * columns
      BY <1>2
    <3>2. QED
      BY <1>2, <2>1, <3>1 DEF Fills
  <2>3. QED
    BY <1>1, <1>3, <2>2, FillErases
<1>7. CASE p \notin {0, 1, 2}
  BY <1>7, GoodMoves DEF csi_J
<1>8. QED
  BY <1>4, <1>5, <1>6, <1>7

(* csi_K.                                                                  *)
LEMMA EraseLine ==
  ASSUME NEW k, ConInv(k), NEW p
  PROVE  Good(k, csi_K(k, p))
<1>1. /\ k.y \in Rows /\ k.x \in 0..columns /\ columns \in Nat /\ k.y \in Int /\ k.x \in Int
      /\ 0 \in 0..columns /\ 0 \in Int /\ columns \in 0..columns
  BY ConFacts DEF Rows
<1>2. /\ RowBefore(k.y, k.x) \in Erasable(k.y, k.x) /\ Gone(RowBefore(k.y, k.x), k.y, 0, k.y, k.x)
      /\ RowAll(k.y) \in Erasable(k.y, k.x) /\ Gone(RowAll(k.y), k.y, 0, k.y, columns)
  BY <1>1, WhatIsGone
<1>3. PICK f \in Int :
        /\ f = k.pos - k.x /\ f = Place(k, k.y, 0)
        /\ f + k.x = Place(k, k.y, k.x) /\ f + columns = Place(k, k.y, columns)
  <2>1. /\ k.pos \in Int /\ k.pos = Place(k, k.y, k.x) /\ k.pos + (0 - k.x) = Place(k, k.y, 0)
        /\ k.pos + (columns - k.x) = Place(k, k.y, columns)
    BY <1>1, CursorPlaces
  <2>2. PICK f \in Int : f = k.pos - k.x
    BY <1>1, <2>1
  <2>3. f = k.pos + (0 - k.x) /\ f + k.x = k.pos /\ f + columns = k.pos + (columns - k.x)
    BY <1>1, <2>1, <2>2
  <2>4. QED
    BY <2>1, <2>2, <2>3
<1>4. CASE p = 0
  <2>1. csi_K(k, p) = k \/ csi_K(k, p) = Fill(k, k.pos, columns - k.x)
    BY <1>4 DEF csi_K
  <2>2. QED
    BY <2>1, RestErased, GoodMoves
<1>5. CASE p = 1
  <2>1. csi_K(k, p) = Fill(k, f, k.x)
    BY <1>3, <1>5 DEF csi_K
  <2>2. Fills(k, csi_K(k, p), k.y, 0, k.y, k.x)
    BY <1>1, <1>3, <2>1 DEF Fills
  <2>3. QED
    BY <1>1, <1>2, <2>2, FillErases
<1>6. CASE p = 2
  <2>1. csi_K(k, p) = Fill(k, f, columns)
    BY <1>3, <1>6 DEF csi_K
  <2>2. Fills(k, csi_K(k, p), k.y, 0, k.y, columns)
    BY <1>1, <1>3, <2>1 DEF Fills
  <2>3. QED
    BY <1>1, <1>2, <2>2, FillErases
<1>7. CASE p \notin {0, 1, 2}
  BY <1>7, GoodMoves DEF csi_K
<1>8. QED
  BY <1>4, <1>5, <1>6, <1>7

(* del.                                                                    *)
LEMMA DelGood ==
  ASSUME NEW k, ConInv(k)
  PROVE  Good(k, del(k))
<1>1. k.x \in Nat /\ k.x <= columns /\ columns \in Nat /\ k.y \in Rows /\ k.pos \in Int
  BY ConFacts
<1>2. CASE k.x = 0
  BY <1>2, GoodMoves DEF del
<1>3. CASE k.x > 0
  <2> DEFINE l == Left(k)
             m == del(k)
  <2>1. m = Fill(l, k.pos - 1, 1)
    BY <1>1, <1>3 DEF del
  <2>2. GoesTo(k, l, k.x - 1, k.y)
    BY <1>3, ToTheLeft
  <2> HIDE DEF l, m
  <2>3. PICK a \in Cols, b \in 0..columns : a = k.x - 1 /\ b = k.x
    BY <1>1, <1>3 DEF Cols
  <2>4. ConInv(l) /\ View(l) = View(k) /\ l.x = a /\ l.y = k.y /\ l.origin = k.origin
    BY <2>2, <2>3 DEF GoesTo
  <2>5. PICK f \in Int : f = k.pos - 1 /\ f = Place(l, l.y, a) /\ f + 1 = Place(l, l.y, b)
    <3>1. a \in Int /\ b \in Int /\ b = a + 1
      BY <1>1, <2>3
    <3>2. k.pos = Place(k, k.y, b) /\ k.pos + (a - b) = Place(k, k.y, a)
      BY <2>3, <3>1, CursorPlaces, ZenonT(60)
    <3>3. Place(l, l.y, a) = Place(k, k.y, a) /\ Place(l, l.y, b) = Place(k, k.y, b)
      BY <2>4 DEF Place
    <3>4. PICK f \in Int : f = k.pos - 1
      BY <1>1
    <3>5. f = Place(k, k.y, a) /\ f + 1 = Place(k, k.y, b)
      BY <1>1, <3>1, <3>2, <3>4
    <3>6. QED
      BY <3>3, <3>4, <3>5
  <2>6. /\ Redrawn(l, m)
        /\ \A r \in Rows, c \in Cols : View(m)[r][c] = IF Within(r, c, l.y, a, l.y, b) THEN Blank
                                                                                  ELSE View(l)[r][c]
    <3>1. Framed(l) /\ l.y \in Int /\ a \in 0..columns /\ 1 \in Int
      <4>1. Framed(l) /\ l.y \in Nat
        BY <2>4, ConFacts
      <4>2. a \in 0..columns
        BY <1>1 DEF Cols
      <4>3. QED
        BY <4>1, <4>2
    <3>2. m = Fill(l, f, 1)
      BY <2>1, <2>5
    <3>3. QED
      BY <2>3, <2>5, <3>1, <3>2, FillRange
  <2>7. ConInv(m) /\ m.x = a /\ m.y = k.y
    BY <2>4, <2>6, RedrawnCursor DEF SameCursor
  <2>8. PICK y \in Rows : y = k.y
    BY <1>1
  <2> DEFINE v == View(k)
             u == [v EXCEPT ![y][a] = Blank]
  <2>9. Picture(v) /\ Picture(View(m))
    BY ViewPicture
  <2>10. \A r \in Rows, c \in Cols : View(m)[r][c] = IF Within(r, c, y, a, y, b) THEN Blank ELSE v[r][c]
    BY <2>4, <2>6, <2>8
  <2> HIDE DEF v
  <2>11. Written(u, v, y, a, Blank)
    BY DEF Written
  <2> HIDE DEF u
  <2>12. Picture(u) /\ \A r \in Rows, c \in Cols : u[r][c] = IF r = y /\ c = a THEN Blank ELSE v[r][c]
    BY <2>9, <2>11, WritePicture
  <2>13. ASSUME NEW r \in Rows, NEW c \in Cols PROVE Within(r, c, y, a, y, b) <=> r = y /\ c = a
    <3>1. r \in Int /\ c \in Int /\ y \in Int /\ a \in Int /\ b = a + 1
      BY <1>1, <2>3 DEF Rows, Cols
    <3>2. QED
      BY <3>1 DEF Within, Precedes
  <2>14. View(m) = u
    BY <2>9, <2>10, <2>12, <2>13, SamePicture
  <2>15. RubsOut(k, m)
    BY <1>3, <2>3, <2>7, <2>8, <2>14 DEF RubsOut, u, v
  <2>16. QED
    BY <2>7, <2>15 DEF m, Good, Promised
<1>4. QED
  BY <1>1, <1>2, <1>3

(* A row of a picture that shifts.                                         *)
LEMMA ShiftPictures ==
  ASSUME NEW v, Picture(v), NEW y \in Rows, NEW x, NEW n
  PROVE  /\ Picture(ShiftedRight(v, y, x, n)) /\ Picture(ShiftedLeft(v, y, x, n))
         /\ \A r \in Rows, c \in Cols :
              /\ ShiftedRight(v, y, x, n)[r][c] =
                   IF r # y \/ c < x THEN v[r][c] ELSE IF c < x + n THEN Blank ELSE v[r][c - n]
              /\ ShiftedLeft(v, y, x, n)[r][c] =
                   IF r # y \/ c < x THEN v[r][c]
                   ELSE IF c + n < columns THEN v[r][c + n] ELSE Blank
<1> DEFINE R == [c \in Cols |-> IF c < x THEN v[y][c] ELSE IF c < x + n THEN Blank ELSE v[y][c - n]]
           L == [c \in Cols |-> IF c < x THEN v[y][c] ELSE IF c + n < columns THEN v[y][c + n] ELSE Blank]
           U == ShiftedRight(v, y, x, n)
           W == ShiftedLeft(v, y, x, n)
<1>1. v = [r \in Rows |-> v[r]] /\ \A r \in Rows : v[r] = [c \in Cols |-> v[r][c]]
  BY DEF Picture
<1>2. /\ R = [c \in Cols |-> R[c]] /\ L = [c \in Cols |-> L[c]]
      /\ \A c \in Cols :
           /\ R[c] = IF c < x THEN v[y][c] ELSE IF c < x + n THEN Blank ELSE v[y][c - n]
           /\ L[c] = IF c < x THEN v[y][c] ELSE IF c + n < columns THEN v[y][c + n] ELSE Blank
  OBVIOUS
<1>3. U = [v EXCEPT ![y] = R] /\ W = [v EXCEPT ![y] = L]
  BY DEF ShiftedRight, ShiftedLeft
<1> HIDE DEF R, L, U, W
<1>4. /\ U = [r \in Rows |-> U[r]] /\ \A r \in Rows : U[r] = IF r = y THEN R ELSE v[r]
      /\ W = [r \in Rows |-> W[r]] /\ \A r \in Rows : W[r] = IF r = y THEN L ELSE v[r]
  BY <1>1, <1>3
<1>5. \A r \in Rows : U[r] = [c \in Cols |-> U[r][c]] /\ W[r] = [c \in Cols |-> W[r][c]]
  BY <1>1, <1>2, <1>4
<1>6. Picture(U) /\ Picture(W)
  BY <1>4, <1>5 DEF Picture
<1>7. ASSUME NEW r \in Rows, NEW c \in Cols
      PROVE  /\ U[r][c] = IF r # y \/ c < x THEN v[r][c] ELSE IF c < x + n THEN Blank ELSE v[r][c - n]
             /\ W[r][c] = IF r # y \/ c < x THEN v[r][c]
                          ELSE IF c + n < columns THEN v[r][c + n] ELSE Blank
  BY <1>2, <1>4
<1>8. QED
  BY <1>6, <1>7 DEF U, W

\* Places in a row lie in the memory.
LEMMA RowInMemory ==
  ASSUME NEW k, Framed(k), NEW y \in Rows, NEW a \in 0..columns
  PROVE  Place(k, y, a) \in Int /\ Place(k, y, a) >= 0 /\ Place(k, y, a) <= SCREEN_CELLS
<1>1. columns \in Nat \ {0} /\ SCREEN_CELLS \in Nat /\ k.origin \in Int /\ y \in Int /\ a \in Int
  BY ConsoleAssumption DEF Framed, ConType, Rows
<1>2. /\ Place(k, y, a) = Place(k, y, 0) + a /\ Place(k, y, 0) \in Int
      /\ \A b \in Cols : Place(k, y, b) = Place(k, y, 0) + b
  BY <1>1, PlaceInt DEF Cols
<1>3. PICK b \in Cols : a = b \/ a = b + 1
  <2>1. a = 0 \/ a - 1 \in Cols
    BY <1>1 DEF Cols
  <2>2. 0 \in Cols
    BY <1>1 DEF Cols
  <2>3. a = (a - 1) + 1
    BY <1>1
  <2>4. QED
    BY <2>1, <2>2, <2>3
<1>4. Place(k, y, b) \in Cells
  BY InMemory
<1>5. Place(k, y, b) = Place(k, y, 0) + b /\ b \in Int
  BY <1>2 DEF Cols
<1> HIDE DEF Place
<1>6. QED
  BY <1>1, <1>2, <1>3, <1>4, <1>5 DEF Cells

\* count cells of a row are copied from column f to column t, and n cells are
\* filled at column g.
RowCopied(k, m, f, t, count) == m = CopyCells(k, Place(k, k.y, f), Place(k, k.y, t), count)
RowFilled(k, m, g, n) == m = Fill(k, Place(k, k.y, g), n)

(* That is seen.                                                           *)
LEMMA RowCopy ==
  ASSUME NEW k, ConInv(k), NEW f \in 0..columns, NEW t \in 0..columns, NEW count \in Nat,
         f + count \in 0..columns, t + count \in 0..columns, NEW m, RowCopied(k, m, f, t, count)
  PROVE  /\ Redrawn(k, m)
         /\ \A r \in Rows, c \in Cols : View(m)[r][c] =
              IF r = k.y /\ c \in t..(t + count - 1) THEN View(k)[r][c - t + f] ELSE View(k)[r][c]
<1>1. /\ Framed(k) /\ k.y \in Rows /\ k.y \in Int /\ f \in Int /\ t \in Int /\ count \in Int
      /\ k.origin \in Int /\ columns \in Nat
  BY ConFacts DEF Rows
<1>2. PICK y \in Rows, from \in Int, to \in Int, e \in Int, d \in Int :
        /\ y = k.y /\ from = Place(k, y, f) /\ to = Place(k, y, t)
        /\ e = f + count /\ d = t + count
  <2>1. /\ Place(k, k.y, f) \in Int /\ Place(k, k.y, t) \in Int
        /\ f + count \in Int /\ t + count \in Int
    BY <1>1, PlaceInt
  <2>2. QED
    BY <1>1, <2>1
<1>3. e \in 0..columns /\ d \in 0..columns /\ e \in Int /\ d \in Int
  BY <1>1, <1>2
<1>4. /\ \A a \in Int : Place(k, y, a) = Place(k, y, 0) + a /\ Place(k, y, a) \in Int
  BY <1>1, <1>2, PlaceInt
<1>5. Place(k, y, 0) \in Int /\ from = Place(k, y, 0) + f /\ to = Place(k, y, 0) + t
  BY <1>1, <1>2, <1>4
<1>6. from \in Int /\ to \in Int /\ from + count = Place(k, y, e) /\ to + count = Place(k, y, d)
  BY <1>1, <1>2, <1>3, <1>4, <1>5
<1>7. from >= 0 /\ from + count <= SCREEN_CELLS
  BY <1>1, <1>2, <1>3, <1>6, RowInMemory
<1>8. /\ Redrawn(k, m)
      /\ \A r \in Rows, c \in Cols : View(m)[r][c] =
           IF Within(r, c, y, t, y, d) THEN k.mem[Place(k, r, c) - to + from] ELSE View(k)[r][c]
  <2>1. m = CopyCells(k, from, to, count)
    BY <1>2 DEF RowCopied
  <2>2. y \in Int
    BY <1>1, <1>2
  <2>3. QED
    BY <1>1, <1>2, <1>3, <1>6, <1>7, <2>1, <2>2, CopyRange
<1>9. ASSUME NEW r \in Rows, NEW c \in Cols
      PROVE  View(m)[r][c] =
               IF r = k.y /\ c \in t..(t + count - 1) THEN View(k)[r][c - t + f] ELSE View(k)[r][c]
  <2>1. r \in Int /\ c \in Int /\ y \in Int /\ c >= 0 /\ c < columns
    BY <1>1, <1>2 DEF Rows, Cols
  <2>2. Within(r, c, y, t, y, d) <=> r = y /\ c \in t..(t + count - 1)
    BY <1>1, <1>2, <1>3, <2>1 DEF Within, Precedes
  <2>3. CASE r = y /\ c \in t..(t + count - 1)
    <3>1. PICK a \in Cols : a = c - t + f
      BY <1>1, <2>1, <2>3 DEF Cols
    <3>2. Place(k, y, a) = Place(k, y, 0) + a /\ Place(k, y, c) = Place(k, y, 0) + c /\ a \in Int
      BY <1>1, <1>4, <2>1, <3>1
    <3>3. Place(k, r, c) - to + from = Place(k, y, a)
      BY <1>1, <1>5, <2>1, <2>3, <3>1, <3>2
    <3>4. View(k)[y][a] = k.mem[Place(k, y, a)]
      BY ViewPicture
    <3>5. QED
      BY <1>2, <1>8, <2>2, <2>3, <3>1, <3>3, <3>4
  <2>4. CASE ~(r = y /\ c \in t..(t + count - 1))
    BY <1>2, <1>8, <2>2, <2>4
  <2>5. QED
    BY <2>3, <2>4
<1>10. QED
  BY <1>8, <1>9

(* So is this.                                                             *)
LEMMA RowFill ==
  ASSUME NEW k, ConInv(k), NEW g \in 0..columns, NEW n \in Nat, NEW h \in 0..columns, h = g + n,
         NEW m, RowFilled(k, m, g, n)
  PROVE  /\ Redrawn(k, m)
         /\ \A r \in Rows, c \in Cols : View(m)[r][c] =
              IF r = k.y /\ c \in g..(h - 1) THEN Blank ELSE View(k)[r][c]
<1>1. /\ Framed(k) /\ k.y \in Rows /\ k.y \in Int /\ g \in Int /\ n \in Int
      /\ k.origin \in Int /\ columns \in Nat
  BY ConFacts DEF Rows
<1>2. PICK y \in Rows, from \in Int, e \in Int : y = k.y /\ from = Place(k, y, g) /\ e = h
  <2>1. Place(k, k.y, g) \in Int /\ h \in Int
    BY <1>1, PlaceInt
  <2>2. QED
    BY <1>1, <2>1
<1>3. e \in 0..columns /\ e \in Int /\ y \in Int /\ e = g + n
  BY <1>1, <1>2
<1>4. /\ Place(k, y, g) = Place(k, y, 0) + g /\ Place(k, y, e) = Place(k, y, 0) + e
      /\ Place(k, y, 0) \in Int
  BY <1>1, <1>3, PlaceInt
<1>5. from \in Int /\ from + n = Place(k, y, e)
  BY <1>1, <1>2, <1>3, <1>4
<1>6. m = Fill(k, from, n)
  BY <1>2 DEF RowFilled
<1>7. /\ Redrawn(k, m)
      /\ \A r \in Rows, c \in Cols : View(m)[r][c] =
           IF Within(r, c, y, g, y, e) THEN Blank ELSE View(k)[r][c]
  BY <1>1, <1>2, <1>3, <1>5, <1>6, FillRange
<1>8. ASSUME NEW r \in Rows, NEW c \in Cols
      PROVE  Within(r, c, y, g, y, e) <=> r = y /\ c \in g..(h - 1)
  <2>1. r \in Int /\ c \in Int
    BY DEF Rows, Cols
  <2>2. QED
    BY <1>1, <1>2, <1>3, <2>1 DEF Within, Precedes
<1>9. QED
  BY <1>2, <1>7, <1>8

(* csi_at and csi_P: at least one cell, and at most the rest of the row.   *)
LEMMA ShiftsGood ==
  ASSUME NEW k, ConInv(k), NEW nr \in Nat
  PROVE  Good(k, csi_at(k, nr)) /\ Good(k, csi_P(k, nr))
<1>1. /\ columns \in Nat \ {0} /\ k.x \in Nat /\ k.x <= columns /\ k.y \in Rows /\ k.pos \in Int
      /\ k.x \in 0..columns
  BY ConFacts
<1>2. PICK n \in 1..columns : n = Count(nr, columns)
  BY <1>1 DEF Count
<1>3. PICK rest \in 0..columns : rest = columns - k.x
  BY <1>1
<1>4. CASE n >= rest
  <2>1. /\ csi_at(k, nr) = Fill(k, k.pos, columns - k.x)
        /\ csi_P(k, nr) = Fill(k, k.pos, columns - k.x)
    BY <1>2, <1>3, <1>4 DEF csi_at, csi_P
  <2>2. QED
    BY <2>1, RestErased
<1>5. CASE ~(n >= rest)
  <2>1. PICK x \in Cols, y \in Rows, s \in 0..columns, e \in 0..columns, j \in Nat :
          /\ x = k.x /\ y = k.y /\ s = k.x + n /\ e = columns - n /\ j = rest - n
    BY <1>1, <1>2, <1>3, <1>5, SMTT(60) DEF Cols
  <2>2. /\ x \in Int /\ s \in Int /\ e \in Int /\ n \in Nat /\ x \in 0..columns
        /\ s + j = columns /\ x + j = e /\ e + n = columns /\ x + n = s /\ columns \in 0..columns
    BY <1>1, <1>2, <1>3, <2>1
  <2>3. /\ k.pos = Place(k, k.y, x) /\ k.pos + n = Place(k, k.y, s)
        /\ k.pos + rest - n = Place(k, k.y, e)
    <3>1. /\ k.pos = Place(k, k.y, k.x) /\ k.pos + (s - k.x) = Place(k, k.y, s)
          /\ k.pos + (e - k.x) = Place(k, k.y, e)
      BY <2>2, CursorPlaces
    <3>2. s - k.x = n /\ k.pos + (e - k.x) = k.pos + rest - n
      BY <1>1, <1>2, <1>3, <2>1
    <3>3. QED
      BY <2>1, <3>1, <3>2
  <2>4. PICK v : v = View(k) /\ Picture(v)
    BY ViewPicture
  <2>5. Good(k, csi_at(k, nr))
    <3>1. PICK m : m = CopyCells(k, Place(k, k.y, x), Place(k, k.y, s), j)
      OBVIOUS
    <3>2. PICK u : u = Fill(m, k.pos, n)
      OBVIOUS
    <3>3. csi_at(k, nr) = u
      <4>1. m = CopyCells(k, k.pos, k.pos + n, rest - n)
        BY <2>1, <2>3, <3>1
      <4>2. QED
        BY <1>2, <1>3, <1>5, <3>2, <4>1, Zenon DEF csi_at
    <3>4. /\ Redrawn(k, m)
          /\ \A r \in Rows, c \in Cols : View(m)[r][c] =
               IF r = k.y /\ c \in s..(s + j - 1) THEN View(k)[r][c - s + x] ELSE View(k)[r][c]
      <4>1. RowCopied(k, m, x, s, j)
        BY <3>1 DEF RowCopied
      <4>2. x + j \in 0..columns /\ s + j \in 0..columns
        BY <2>2
      <4>3. QED
        BY <2>2, <4>1, <4>2, RowCopy
    <3>5. ConInv(m) /\ SameCursor(k, m) /\ m.pos = k.pos /\ m.origin = k.origin
      BY <3>4, RedrawnCursor
    <3>6. /\ Redrawn(m, u)
          /\ \A r \in Rows, c \in Cols : View(u)[r][c] =
               IF r = m.y /\ c \in x..(s - 1) THEN Blank ELSE View(m)[r][c]
      <4>1. Place(m, m.y, x) = Place(k, k.y, x)
        BY <3>5 DEF Place, SameCursor
      <4>2. RowFilled(m, u, x, n)
        BY <2>3, <3>2, <4>1 DEF RowFilled
      <4>3. s = x + n /\ x \in 0..columns /\ n \in Nat
        BY <2>2
      <4>4. QED
        BY <3>5, <4>2, <4>3, RowFill
    <3>7. ConInv(u) /\ KeepsCursor(k, u)
      BY <3>5, <3>6, RedrawnCursor DEF SameCursor, KeepsCursor
    <3>8. ASSUME NEW r \in Rows, NEW c \in Cols
          PROVE  View(u)[r][c] = IF r # y \/ c < x THEN v[r][c]
                                 ELSE IF c < x + n THEN Blank ELSE v[r][c - n]
      <4>1. c \in Nat /\ c < columns
        BY <1>1 DEF Cols
      <4>2. View(u)[r][c] = IF r = y /\ c \in x..(s - 1) THEN Blank
                            ELSE IF r = y /\ c \in s..(columns - 1) THEN v[r][c - s + x] ELSE v[r][c]
        BY <2>1, <2>2, <2>4, <3>4, <3>5, <3>6 DEF SameCursor
      <4>3. c - s + x = c - n
        BY <2>2, <4>1
      <4>4. QED
        BY <1>1, <2>2, <4>1, <4>2, <4>3
    <3>9. View(u) = ShiftedRight(v, y, x, n)
      <4>1. Picture(View(u)) /\ Picture(ShiftedRight(v, y, x, n))
        BY <2>4, ViewPicture, ShiftPictures
      <4>2. \A r \in Rows, c \in Cols : View(u)[r][c] = ShiftedRight(v, y, x, n)[r][c]
        BY <2>4, <3>8, ShiftPictures
      <4>3. QED
        BY <4>1, <4>2, SamePicture
    <3>10. Shifts(k, u)
      BY <2>1, <2>4, <3>7, <3>9 DEF Shifts
    <3>11. QED
      BY <3>3, <3>7, <3>10 DEF Good, Promised
  <2>6. Good(k, csi_P(k, nr))
    <3>1. PICK m : m = CopyCells(k, Place(k, k.y, s), Place(k, k.y, x), j)
      OBVIOUS
    <3>2. PICK u : u = Fill(m, k.pos + rest - n, n)
      OBVIOUS
    <3>3. csi_P(k, nr) = u
      <4>1. m = CopyCells(k, k.pos + n, k.pos, rest - n)
        BY <2>1, <2>3, <3>1
      <4>2. QED
        BY <1>2, <1>3, <1>5, <3>2, <4>1, Zenon DEF csi_P
    <3>4. /\ Redrawn(k, m)
          /\ \A r \in Rows, c \in Cols : View(m)[r][c] =
               IF r = k.y /\ c \in x..(x + j - 1) THEN View(k)[r][c - x + s] ELSE View(k)[r][c]
      <4>1. RowCopied(k, m, s, x, j)
        BY <3>1 DEF RowCopied
      <4>2. x + j \in 0..columns /\ s + j \in 0..columns
        BY <2>2
      <4>3. QED
        BY <2>2, <4>1, <4>2, RowCopy
    <3>5. ConInv(m) /\ SameCursor(k, m) /\ m.pos = k.pos /\ m.origin = k.origin
      BY <3>4, RedrawnCursor
    <3>6. /\ Redrawn(m, u)
          /\ \A r \in Rows, c \in Cols : View(u)[r][c] =
               IF r = m.y /\ c \in e..(columns - 1) THEN Blank ELSE View(m)[r][c]
      <4>1. Place(m, m.y, e) = Place(k, k.y, e)
        BY <3>5 DEF Place, SameCursor
      <4>2. RowFilled(m, u, e, n)
        BY <2>3, <3>2, <4>1 DEF RowFilled
      <4>3. columns = e + n
        BY <2>2
      <4>4. QED
        BY <2>2, <3>5, <4>2, <4>3, RowFill
    <3>7. ConInv(u) /\ KeepsCursor(k, u)
      BY <3>5, <3>6, RedrawnCursor DEF SameCursor, KeepsCursor
    <3>8. ASSUME NEW r \in Rows, NEW c \in Cols
          PROVE  View(u)[r][c] = IF r # y \/ c < x THEN v[r][c]
                                 ELSE IF c + n < columns THEN v[r][c + n] ELSE Blank
      <4>1. c \in Nat /\ c < columns
        BY <1>1 DEF Cols
      <4>2. View(u)[r][c] = IF r = y /\ c \in e..(columns - 1) THEN Blank
                            ELSE IF r = y /\ c \in x..(e - 1) THEN v[r][c - x + s] ELSE v[r][c]
        BY <2>1, <2>2, <2>4, <3>4, <3>5, <3>6 DEF SameCursor
      <4>3. c - x + s = c + n
        BY <2>2, <4>1
      <4>4. QED
        BY <1>1, <2>2, <4>1, <4>2, <4>3
    <3>9. View(u) = ShiftedLeft(v, y, x, n)
      <4>1. Picture(View(u)) /\ Picture(ShiftedLeft(v, y, x, n))
        BY <2>4, ViewPicture, ShiftPictures
      <4>2. \A r \in Rows, c \in Cols : View(u)[r][c] = ShiftedLeft(v, y, x, n)[r][c]
        BY <2>4, <3>8, ShiftPictures
      <4>3. QED
        BY <4>1, <4>2, SamePicture
    <3>10. Shifts(k, u)
      BY <2>1, <2>4, <3>7, <3>9 DEF Shifts
    <3>11. QED
      BY <3>3, <3>7, <3>10 DEF Good, Promised
  <2>7. QED
    BY <2>5, <2>6
<1>6. QED
  BY <1>4, <1>5

---------------------------------------------------------------------------
(* The console: lines are inserted and deleted.                            *)

MoveLine(k, up) == IF up THEN DeleteLine(k) ELSE InsertLine(k)
MovedBy(v, t, up, n) == IF up THEN MovedUp(v, t, lines, n) ELSE MovedDown(v, t, lines, n)

\* The lines from the cursor's on have moved by n.
LinesMoved(k, m, up, n) ==
  ConInv(m) /\ SameCursor(k, m) /\ View(m) = MovedBy(View(k), k.y, up, n)

(* InsertLine and DeleteLine move them by one.                             *)
LEMMA MoveOne ==
  ASSUME NEW k, ConInv(k), NEW up \in BOOLEAN
  PROVE  LinesMoved(k, MoveLine(k, up), up, 1)
<1> DEFINE l == FromCursor(k)
<1>1. k \in ConType /\ k.y \in Rows /\ lines \in Nat \ {0, 1} /\ k.y < lines /\ k.y \in Nat
      /\ k.top \in Nat /\ k.bottom \in Nat
  BY ConFacts
<1>2. PICK t \in Int, b \in Int : t = k.top /\ b = k.bottom
  BY <1>1
<1>3. /\ l \in ConType /\ l.origin = k.origin /\ l.mem = k.mem /\ l.x = k.x /\ l.y = k.y
      /\ l.pos = k.pos
      /\ l.top = k.y /\ l.bottom = lines
      /\ l.saved_x = k.saved_x /\ l.saved_y = k.saved_y /\ l.npar = k.npar
  <2> DEFINE h == [k EXCEPT !.top = k.y]
  <2>1. l = [h EXCEPT !.bottom = lines]
    BY DEF FromCursor
  <2>2. /\ h \in ConType /\ h.origin = k.origin /\ h.mem = k.mem /\ h.x = k.x /\ h.y = k.y
        /\ h.pos = k.pos /\ h.top = k.y
        /\ h.saved_x = k.saved_x /\ h.saved_y = k.saved_y /\ h.npar = k.npar
    BY <1>1 DEF ConType
  <2>3. PICK e \in Int : e = lines
    BY <1>1
  <2>4. l = [h EXCEPT !.bottom = e] /\ h \in ConType
    BY <2>1, <2>2, <2>3
  <2> HIDE DEF h, l
  <2>5. /\ l \in ConType /\ l.origin = h.origin /\ l.mem = h.mem /\ l.x = h.x /\ l.y = h.y
        /\ l.pos = h.pos /\ l.top = h.top /\ l.bottom = e
        /\ l.saved_x = h.saved_x /\ l.saved_y = h.saved_y /\ l.npar = h.npar
    BY <2>4 DEF ConType
  <2>6. QED
    BY <2>2, <2>3, <2>5
<1> HIDE DEF l
<1>4. ConInv(l) /\ View(l) = View(k)
  <2>1. Framed(l) /\ View(l) = View(k)
    BY <1>3 DEF ConInv, Framed, View
  <2>2. l.top \in Rows /\ l.bottom \in 1..lines /\ l.top < l.bottom
    BY <1>1, <1>3
  <2>3. InPlace(l)
    BY <1>3, <2>2 DEF ConInv, InPlace
  <2>4. QED
    BY <2>1, <2>3 DEF ConInv
<1>5. PICK q : /\ MoveLine(k, up) = KeepRegion(k, q)
               /\ ConInv(q) /\ SameCursor(l, q)
               /\ View(q) = MovedBy(View(k), k.y, up, 1)
  <2>1. CASE up = TRUE
    <3>1. MovesUp(l, scrup(l))
      BY <1>4, GoesUp
    <3>2. MoveLine(k, up) = KeepRegion(k, scrup(l))
      BY <2>1 DEF MoveLine, DeleteLine, l
    <3>3. View(scrup(l)) = MovedBy(View(k), k.y, up, 1)
      BY <1>3, <1>4, <2>1, <3>1 DEF MovesUp, MovedBy
    <3>4. QED
      BY <3>1, <3>2, <3>3 DEF MovesUp
  <2>2. CASE up = FALSE
    <3>1. MovesDown(l, scrdown(l))
      BY <1>4, RegionDown
    <3>2. MoveLine(k, up) = KeepRegion(k, scrdown(l))
      BY <2>2 DEF MoveLine, InsertLine, l
    <3>3. View(scrdown(l)) = MovedBy(View(k), k.y, up, 1)
      BY <1>3, <1>4, <2>2, <3>1 DEF MovesDown, MovedBy
    <3>4. QED
      BY <3>1, <3>2, <3>3 DEF MovesDown
  <2>3. QED
    BY <2>1, <2>2
<1> DEFINE m == KeepRegion(k, q)
<1>6. /\ m \in ConType /\ m.origin = q.origin /\ m.mem = q.mem /\ m.x = q.x /\ m.y = q.y
      /\ m.pos = q.pos
      /\ m.top = k.top /\ m.bottom = k.bottom
      /\ m.saved_x = q.saved_x /\ m.saved_y = q.saved_y /\ m.npar = q.npar
  <2> DEFINE h == [q EXCEPT !.top = t]
  <2>0. q \in ConType
    BY <1>5, ConFacts
  <2>1. m = [h EXCEPT !.bottom = b]
    BY <1>2 DEF KeepRegion
  <2>2. /\ h \in ConType /\ h.origin = q.origin /\ h.mem = q.mem /\ h.x = q.x /\ h.y = q.y
        /\ h.pos = q.pos /\ h.top = t
        /\ h.saved_x = q.saved_x /\ h.saved_y = q.saved_y /\ h.npar = q.npar
    BY <2>0 DEF ConType
  <2> HIDE DEF h, m
  <2>3. /\ m \in ConType /\ m.origin = h.origin /\ m.mem = h.mem /\ m.x = h.x /\ m.y = h.y
        /\ m.pos = h.pos /\ m.top = h.top /\ m.bottom = b
        /\ m.saved_x = h.saved_x /\ m.saved_y = h.saved_y /\ m.npar = h.npar
    BY <2>1, <2>2 DEF ConType
  <2>4. QED
    BY <1>2, <2>2, <2>3
<1> HIDE DEF m
<1>7. ConInv(m) /\ View(m) = View(q)
  <2>1. Framed(m) /\ View(m) = View(q)
    BY <1>5, <1>6 DEF ConInv, Framed, View
  <2>2. m.top \in Rows /\ m.bottom \in 1..lines /\ m.top < m.bottom
    BY <1>6 DEF ConInv, InPlace
  <2>3. InPlace(m)
    BY <1>5, <1>6, <2>2 DEF ConInv, InPlace
  <2>4. QED
    BY <2>1, <2>3 DEF ConInv
<1>8. SameCursor(k, m)
  BY <1>3, <1>5, <1>6 DEF SameCursor
<1>9. QED
  BY <1>5, <1>7, <1>8 DEF m, LinesMoved

(* Moving by n and then by one is moving by one more.                      *)
LEMMA MoveMore ==
  ASSUME NEW v, Picture(v), NEW t, Lined(t, lines), NEW up \in BOOLEAN, NEW n \in Nat
  PROVE  /\ MovedBy(v, t, up, 0) = v
         /\ MovedBy(MovedBy(v, t, up, n), t, up, 1) = MovedBy(v, t, up, n + 1)
<1>1. lines \in Nat /\ t \in Nat
  BY DEF Lined
<1>2. PICK w : w = MovedUp(v, t, lines, n)
  OBVIOUS
<1>3. PICK z : z = MovedDown(v, t, lines, n)
  OBVIOUS
<1>4. PICK s \in Nat : s = n + 1
  OBVIOUS
<1>5. Picture(w) /\ Picture(z) /\ \A r \in Rows, c \in Cols : UpAt(w, v, t, lines, n, r, c) /\ DownAt(z, v, t, lines, n, r, c)
  BY <1>2, <1>3, MovedCells
<1>6. /\ Picture(MovedUp(w, t, lines, 1)) /\ Picture(MovedDown(z, t, lines, 1))
      /\ \A r \in Rows, c \in Cols : /\ UpAt(MovedUp(w, t, lines, 1), w, t, lines, 1, r, c)
                                     /\ DownAt(MovedDown(z, t, lines, 1), z, t, lines, 1, r, c)
  BY <1>5, MovedCells
<1>7. ASSUME NEW r \in Rows, NEW c \in Cols
      PROVE  /\ UpAt(MovedUp(w, t, lines, 1), v, t, lines, s, r, c)
             /\ DownAt(MovedDown(z, t, lines, 1), v, t, lines, s, r, c)
             /\ UpAt(v, v, t, lines, 0, r, c) /\ DownAt(v, v, t, lines, 0, r, c)
  <2>1. r \in Nat /\ r < lines
    BY <1>1 DEF Rows
  <2> DEFINE U == MovedUp(w, t, lines, 1)
             D == MovedDown(z, t, lines, 1)
  <2>2. UpAt(U, w, t, lines, 1, r, c) /\ DownAt(D, z, t, lines, 1, r, c)
    BY <1>6
  <2> HIDE DEF U, D
  <2>3. UpAt(U, v, t, lines, s, r, c)
    <3>1. CASE r >= t /\ r + 1 < lines
      <4>1. PICK q \in Rows : q = r + 1
        BY <1>1, <2>1, <3>1 DEF Rows
      <4>2. UpAt(w, v, t, lines, n, q, c)
        BY <1>5
      <4>3. q \in t..(lines - 1) /\ q + n = r + s /\ r \in t..(lines - 1)
        BY <1>1, <1>4, <2>1, <3>1, <4>1
      <4>4. U[r][c] = w[q][c]
        BY <2>2, <3>1, <4>1, <4>3 DEF UpAt
      <4>5. QED
        BY <4>2, <4>3, <4>4 DEF UpAt
    <3>2. CASE ~(r >= t)
      <4>1. r \notin t..(lines - 1)
        BY <1>1, <2>1, <3>2
      <4>2. UpAt(w, v, t, lines, n, r, c)
        BY <1>5
      <4>3. QED
        BY <2>2, <4>1, <4>2 DEF UpAt
    <3>3. CASE r >= t /\ ~(r + 1 < lines)
      <4>1. r \in t..(lines - 1) /\ ~(r + s < lines)
        BY <1>1, <1>4, <2>1, <3>3
      <4>2. QED
        BY <2>2, <3>3, <4>1 DEF UpAt
    <3>4. QED
      BY <3>1, <3>2, <3>3
  <2>4. DownAt(D, v, t, lines, s, r, c)
    <3>1. CASE r >= t + 1
      <4>1. PICK q \in Rows : q = r - 1
        BY <1>1, <2>1, <3>1 DEF Rows
      <4>2. DownAt(z, v, t, lines, n, q, c)
        BY <1>5
      <4>3. q \in t..(lines - 1) /\ q - n = r - s /\ r \in t..(lines - 1) /\ (q >= t + n <=> r >= t + s)
        BY <1>1, <1>4, <2>1, <3>1, <4>1
      <4>4. D[r][c] = z[q][c]
        BY <2>2, <3>1, <4>1, <4>3 DEF DownAt
      <4>5. QED
        BY <4>2, <4>3, <4>4 DEF DownAt
    <3>2. CASE ~(r >= t)
      <4>1. r \notin t..(lines - 1)
        BY <1>1, <2>1, <3>2
      <4>2. DownAt(z, v, t, lines, n, r, c)
        BY <1>5
      <4>3. QED
        BY <2>2, <4>1, <4>2 DEF DownAt
    <3>3. CASE r = t
      <4>1. r \in t..(lines - 1) /\ ~(r >= t + s) /\ ~(r >= t + 1)
        BY <1>1, <1>4, <2>1, <3>3
      <4>2. QED
        BY <2>2, <4>1 DEF DownAt
    <3>4. r >= t + 1 \/ ~(r >= t) \/ r = t
      BY <1>1, <2>1
    <3>5. QED
      BY <3>1, <3>2, <3>3, <3>4
  <2>5. UpAt(v, v, t, lines, 0, r, c) /\ DownAt(v, v, t, lines, 0, r, c)
    BY <1>1, <2>1 DEF UpAt, DownAt
  <2>6. QED
    BY <2>3, <2>4, <2>5 DEF U, D
<1>8. /\ MovedUp(w, t, lines, 1) = MovedUp(v, t, lines, s)
      /\ MovedDown(z, t, lines, 1) = MovedDown(v, t, lines, s)
  BY <1>6, <1>7, IsMoved
<1>9. v = MovedUp(v, t, lines, 0) /\ v = MovedDown(v, t, lines, 0)
  <2>1. 0 \in Nat
    OBVIOUS
  <2>2. QED
    BY <1>7, <2>1, IsMoved
<1>10. QED
  BY <1>2, <1>3, <1>4, <1>8, <1>9 DEF MovedBy

\* What i lines are, one after another.
LineByLine(k, n, up, f) == f = [i \in 0..n |-> IF i = 0 THEN k ELSE MoveLine(f[i - 1], up)]

(* There is a function that notes that.                                    *)
LEMMA LineByLineExists ==
  ASSUME NEW k, NEW n \in Nat, NEW up
  PROVE  \E f : LineByLine(k, n, up, f)
<1> DEFINE Bad == {j \in Nat : ~ \E f : LineByLine(k, j, up, f)}
           b == Min(Bad)
<1>1. SUFFICES ASSUME Bad # {}
               PROVE  FALSE
  OBVIOUS
<1>2. b \in Bad /\ \A j \in Bad : b <= j
  BY <1>1, NatMin
<1> HIDE DEF b
<1>3. b # 0
  <2> DEFINE f == [i \in 0..0 |-> k]
  <2>1. LineByLine(k, 0, up, f)
    BY DEF LineByLine
  <2>2. QED
    BY <1>2, <2>1
<1>4. b - 1 \in Nat /\ b - 1 \notin Bad
  BY <1>2, <1>3
<1>5. PICK f : LineByLine(k, b - 1, up, f)
  BY <1>4
<1> DEFINE g == [i \in 0..b |-> IF i = b THEN MoveLine(f[b - 1], up) ELSE f[i]]
<1>6. \A i \in 0..(b - 1) : f[i] = IF i = 0 THEN k ELSE MoveLine(f[i - 1], up)
  BY <1>5 DEF LineByLine
<1>7. \A i \in 0..b : g[i] = IF i = 0 THEN k ELSE MoveLine(g[i - 1], up)
  <2> SUFFICES ASSUME NEW i \in 0..b
               PROVE  g[i] = IF i = 0 THEN k ELSE MoveLine(g[i - 1], up)
    OBVIOUS
  <2>1. b \in Nat
    BY <1>2
  <2>2. CASE i = b
    <3>1. g[i - 1] = f[b - 1]
      BY <1>3, <2>1, <2>2
    <3>2. QED
      BY <1>3, <2>1, <2>2, <3>1
  <2>3. CASE i # b
    <3>1. i \in 0..(b - 1) /\ g[i] = f[i]
      BY <2>1, <2>3
    <3>2. i # 0 => g[i - 1] = f[i - 1]
      BY <2>1, <2>3
    <3> HIDE DEF g
    <3>3. QED
      BY <1>6, <3>1, <3>2
  <2>4. QED
    BY <2>2, <2>3
<1>8. LineByLine(k, b, up, g)
  <2>1. g = [i \in 0..b |-> g[i]]
    OBVIOUS
  <2> HIDE DEF g
  <2>2. QED
    BY <1>7, <2>1 DEF LineByLine
<1>9. QED
  BY <1>2, <1>8

(* Line by line they move: the first line that did not would follow on one *)
(* that did.                                                               *)
LEMMA LinesMove ==
  ASSUME NEW k, ConInv(k), NEW up \in BOOLEAN, NEW f, LineByLine(k, lines, up, f), NEW n \in 0..lines
  PROVE  LinesMoved(k, f[n], up, n)
<1>1. lines \in Nat /\ k.y \in Nat /\ Picture(View(k)) /\ Lined(k.y, lines)
  BY ConFacts, ViewPicture DEF Lined
<1>2. \A i \in 0..lines : f[i] = IF i = 0 THEN k ELSE MoveLine(f[i - 1], up)
  BY DEF LineByLine
<1> DEFINE Bad == {i \in 0..lines : ~LinesMoved(k, f[i], up, i)}
           b == Min(Bad)
<1>3. Bad = {}
  <2> SUFFICES ASSUME Bad # {} PROVE FALSE
    OBVIOUS
  <2>1. Bad \in SUBSET Nat
    BY <1>1
  <2>2. b \in Bad /\ \A j \in Bad : b <= j
    BY <2>1, NatMin
  <2> HIDE DEF b
  <2>3. b \in 0..lines /\ ~LinesMoved(k, f[b], up, b) /\ b \in Nat
    BY <1>1, <2>2
  <2>4. b # 0
    <3>1. LinesMoved(k, k, up, 0)
      BY <1>1, MoveMore DEF LinesMoved, SameCursor
    <3>2. f[0] = k
      BY <1>1, <1>2
    <3>3. QED
      BY <2>3, <3>1, <3>2
  <2>5. PICK i \in Nat : i = b - 1 /\ b = i + 1 /\ i \in 0..lines
    <3>1. b - 1 \in Nat /\ b - 1 \in 0..lines /\ b = (b - 1) + 1
      BY <1>1, <2>3, <2>4
    <3>2. QED
      BY <3>1
  <2>6. LinesMoved(k, f[i], up, i)
    <3>1. i \notin Bad
      BY <2>2, <2>5
    <3>2. QED
      BY <2>5, <3>1
  <2>7. f[b] = MoveLine(f[i], up)
    BY <1>2, <2>3, <2>4, <2>5
  <2>8. PICK m : m = f[i]
    OBVIOUS
  <2>9. ConInv(m) /\ SameCursor(k, m) /\ View(m) = MovedBy(View(k), k.y, up, i)
    BY <2>6, <2>8 DEF LinesMoved
  <2>10. LinesMoved(m, MoveLine(m, up), up, 1)
    BY <2>9, MoveOne
  <2>11. PICK l : l = MoveLine(m, up)
    OBVIOUS
  <2>12. /\ ConInv(l) /\ SameCursor(k, l)
         /\ View(l) = MovedBy(MovedBy(View(k), k.y, up, i), k.y, up, 1)
    BY <2>9, <2>10, <2>11 DEF LinesMoved, SameCursor
  <2>13. View(l) = MovedBy(View(k), k.y, up, b)
    BY <1>1, <2>5, <2>12, MoveMore
  <2>14. QED
    BY <2>3, <2>7, <2>8, <2>11, <2>12, <2>13 DEF LinesMoved
<1>4. QED
  BY <1>3

(* csi_L and csi_M.                                                        *)
LEMMA LinesGood ==
  ASSUME NEW k, ConInv(k), NEW nr \in Nat
  PROVE  Good(k, csi_L(k, nr)) /\ Good(k, csi_M(k, nr))
<1>1. lines \in Nat \ {0, 1} /\ k.y \in Rows /\ k.y < lines
  BY ConFacts
<1>2. PICK n \in 1..lines : n = Count(nr, lines)
  BY <1>1 DEF Count
<1>3. n \in 0..lines
  BY <1>1
<1>4. ASSUME NEW up \in BOOLEAN, NEW m, LinesMoved(k, m, up, n)
      PROVE  Good(k, m)
  <2>1. Scrolls(k, m)
    <3>1. lines \in 1..lines
      BY <1>1
    <3>2. View(m) \in {MovedUp(View(k), k.y, lines, n), MovedDown(View(k), k.y, lines, n)}
      BY <1>4 DEF LinesMoved, MovedBy
    <3>3. QED
      BY <1>1, <3>1, <3>2 DEF Scrolls
  <2>2. QED
    BY <1>4, <2>1 DEF LinesMoved, Good, Promised
<1>5. Good(k, csi_L(k, nr))
  <2> DEFINE f == CHOOSE f : LineByLine(k, lines, FALSE, f)
  <2>1. LineByLine(k, lines, FALSE, f)
    BY <1>1, LineByLineExists
  <2>2. csi_L(k, nr) = f[n]
    BY <1>2, Zenon DEF csi_L, LineByLine, MoveLine
  <2> HIDE DEF f
  <2>3. LinesMoved(k, f[n], FALSE, n)
    BY <1>3, <2>1, LinesMove
  <2>4. QED
    BY <1>4, <2>2, <2>3
<1>6. Good(k, csi_M(k, nr))
  <2> DEFINE f == CHOOSE f : LineByLine(k, lines, TRUE, f)
  <2>1. LineByLine(k, lines, TRUE, f)
    BY <1>1, LineByLineExists
  <2>2. csi_M(k, nr) = f[n]
    BY <1>2, Zenon DEF csi_M, LineByLine, MoveLine
  <2> HIDE DEF f
  <2>3. LinesMoved(k, f[n], TRUE, n)
    BY <1>3, <2>1, LinesMove
  <2>4. QED
    BY <1>4, <2>2, <2>3
<1>7. QED
  BY <1>5, <1>6

---------------------------------------------------------------------------
(* The console: sequences.                                                 *)

\* Neither what is seen nor the cursor is different in m.
Unseen(k, m) ==
  /\ m \in ConType /\ m.x = k.x /\ m.y = k.y /\ m.pos = k.pos
  /\ m.origin = k.origin /\ m.mem = k.mem
  /\ m.top \in Rows /\ m.bottom \in 1..lines /\ m.top < m.bottom
  /\ m.saved_x \in 0..columns /\ m.saved_y \in Rows /\ m.npar \in 0..(NPAR - 1)

(* That is still good.                                                     *)
LEMMA UnseenGood ==
  ASSUME NEW k, ConInv(k), NEW m, Unseen(k, m)
  PROVE  ConInv(m) /\ SeenAlike(k, m) /\ Good(k, m)
<1>1. Framed(m) /\ View(m) = View(k)
  BY DEF ConInv, Framed, View, Unseen
<1>2. InPlace(m)
  BY DEF ConInv, InPlace, Unseen
<1>3. QED
  BY <1>1, <1>2 DEF Unseen, ConInv, SeenAlike, Good, Promised, Still

(* What follows on it is as good.                                          *)
LEMMA GoodAfter ==
  ASSUME NEW k, ConInv(k), NEW l, Unseen(k, l), NEW m, Good(l, m)
  PROVE  Good(k, m)
BY UnseenGood, SamePromise DEF Good

\* The parser's fields.
StateTo(m, k, s) == m = [k EXCEPT !.state = s]
NparTo(m, k, n) == m = [k EXCEPT !.npar = n]
ParTo(m, k, p) == m = [k EXCEPT !.par = p]
AttrTo(m, k, a) == m = [k EXCEPT !.attr = a]

(* They are not seen.                                                      *)
LEMMA ParserUnseen ==
  ASSUME NEW k, ConInv(k), NEW m
  PROVE  /\ \A s \in Int : StateTo(m, k, s) => Unseen(k, m)
         /\ \A n \in 0..(NPAR - 1) : NparTo(m, k, n) => Unseen(k, m)
         /\ \A p \in [0..(NPAR - 1) -> Nat] : ParTo(m, k, p) => Unseen(k, m)
         /\ \A a \in Int : AttrTo(m, k, a) => Unseen(k, m)
<1>1. /\ k \in ConType /\ k.top \in Rows /\ k.bottom \in 1..lines /\ k.top < k.bottom
      /\ k.saved_x \in 0..columns /\ k.saved_y \in Rows /\ k.npar \in 0..(NPAR - 1)
  BY DEF ConInv, Framed, InPlace
<1>2. ASSUME NEW s \in Int, StateTo(m, k, s) PROVE Unseen(k, m)
  BY <1>1, <1>2 DEF StateTo, Unseen, ConType
<1>3. ASSUME NEW n \in 0..(NPAR - 1), NparTo(m, k, n) PROVE Unseen(k, m)
  <2>1. n \in Int
    BY ConsoleAssumption
  <2>2. QED
    BY <1>1, <1>3, <2>1 DEF NparTo, Unseen, ConType
<1>4. ASSUME NEW p \in [0..(NPAR - 1) -> Nat], ParTo(m, k, p) PROVE Unseen(k, m)
  BY <1>1, <1>4 DEF ParTo, Unseen, ConType
<1>5. ASSUME NEW a \in Int, AttrTo(m, k, a) PROVE Unseen(k, m)
  BY <1>1, <1>5 DEF AttrTo, Unseen, ConType
<1>6. QED
  BY <1>2, <1>3, <1>4, <1>5

(* One after the other is not seen either.                                 *)
LEMMA UnseenTwice ==
  ASSUME NEW k, NEW l, Unseen(k, l), NEW m, Unseen(l, m)
  PROVE  Unseen(k, m)
BY DEF Unseen

\* The region, the saved cursor.
RegionTo(m, k, t, b) == m = [k EXCEPT !.top = t, !.bottom = b]
SavedTo(m, k, x, y) == m = [k EXCEPT !.saved_x = x, !.saved_y = y]

(* Nor are these seen.                                                     *)
LEMMA MarksUnseen ==
  ASSUME NEW k, ConInv(k), NEW m
  PROVE  /\ \A t \in Rows, b \in 1..lines : t < b /\ RegionTo(m, k, t, b) => Unseen(k, m)
         /\ \A x \in 0..columns, y \in Rows : SavedTo(m, k, x, y) => Unseen(k, m)
<1>1. /\ k \in ConType /\ k.top \in Rows /\ k.bottom \in 1..lines /\ k.top < k.bottom
      /\ k.saved_x \in 0..columns /\ k.saved_y \in Rows /\ k.npar \in 0..(NPAR - 1)
  BY DEF ConInv, Framed, InPlace
<1>2. ASSUME NEW t \in Rows, NEW b \in 1..lines, t < b, RegionTo(m, k, t, b) PROVE Unseen(k, m)
  <2> DEFINE h == [k EXCEPT !.top = t]
  <2>1. m = [h EXCEPT !.bottom = b] /\ h = [k EXCEPT !.top = t]
    BY <1>2 DEF RegionTo
  <2>2. t \in Int /\ b \in Int
    BY DEF Rows
  <2> HIDE DEF h
  <2>3. /\ h \in ConType /\ h.x = k.x /\ h.y = k.y /\ h.pos = k.pos /\ h.origin = k.origin
        /\ h.mem = k.mem /\ h.top = t /\ h.saved_x = k.saved_x /\ h.saved_y = k.saved_y
        /\ h.npar = k.npar
    BY <1>1, <2>1, <2>2 DEF ConType
  <2>4. h \in ConType
    BY <2>3
  <2>5. /\ m \in ConType /\ m.x = h.x /\ m.y = h.y /\ m.pos = h.pos /\ m.origin = h.origin
        /\ m.mem = h.mem /\ m.top = h.top /\ m.bottom = b /\ m.saved_x = h.saved_x
        /\ m.saved_y = h.saved_y /\ m.npar = h.npar
    BY <2>1, <2>2, <2>4 DEF ConType
  <2>6. QED
    BY <1>1, <1>2, <2>3, <2>5 DEF Unseen
<1>3. ASSUME NEW x \in 0..columns, NEW y \in Rows, SavedTo(m, k, x, y) PROVE Unseen(k, m)
  <2> DEFINE h == [k EXCEPT !.saved_x = x]
  <2>1. m = [h EXCEPT !.saved_y = y] /\ h = [k EXCEPT !.saved_x = x]
    BY <1>3 DEF SavedTo
  <2>2. x \in Int /\ y \in Int
    BY DEF Rows
  <2> HIDE DEF h
  <2>3. /\ h \in ConType /\ h.x = k.x /\ h.y = k.y /\ h.pos = k.pos /\ h.origin = k.origin
        /\ h.mem = k.mem /\ h.top = k.top /\ h.bottom = k.bottom /\ h.saved_x = x
        /\ h.npar = k.npar
    BY <1>1, <2>1, <2>2 DEF ConType
  <2>4. h \in ConType
    BY <2>3
  <2>5. /\ m \in ConType /\ m.x = h.x /\ m.y = h.y /\ m.pos = h.pos /\ m.origin = h.origin
        /\ m.mem = h.mem /\ m.top = h.top /\ m.bottom = h.bottom /\ m.saved_x = h.saved_x
        /\ m.saved_y = y /\ m.npar = h.npar
    BY <2>1, <2>2, <2>4 DEF ConType
  <2>6. QED
    BY <1>1, <1>3, <2>3, <2>5 DEF Unseen
<1>4. QED
  BY <1>2, <1>3

(* csi_m, Region and save_cur.                                             *)
LEMMA MarksGood ==
  ASSUME NEW k, ConInv(k)
  PROVE  Good(k, csi_m(k)) /\ Good(k, Region(k)) /\ Good(k, save_cur(k))
<1>1. Good(k, csi_m(k))
  <2>1. csi_m(k) = k \/ \E a \in Int : AttrTo(csi_m(k), k, a)
    <3> DEFINE Colour(n) == CASE n \in {0, 27} -> 7 [] n \in {1, 4} -> 15 [] n = 7 -> 112
                              [] OTHER -> 0
               set == {n \in 0..k.npar : Colour(k.par[n]) # 0}
               a == Colour(k.par[CHOOSE n \in set : \A m \in set : m <= n])
    <3>1. \A n : Colour(n) \in {7, 15, 112, 0}
      OBVIOUS
    <3>2. a \in Int
      <4> HIDE DEF set
      <4>1. a \in {7, 15, 112, 0}
        BY <3>1
      <4> HIDE DEF a
      <4>2. QED
        BY <4>1
    <3>3. csi_m(k) = IF set = {} THEN k ELSE [k EXCEPT !.attr = a]
      BY Zenon DEF csi_m
    <3> HIDE DEF a, set
    <3>4. QED
      BY <3>2, <3>3 DEF AttrTo
  <2>2. QED
    BY <2>1, ParserUnseen, UnseenGood, GoodMoves
<1>2. Good(k, Region(k))
  <2>1. /\ k.par \in [0..(NPAR - 1) -> Nat] /\ lines \in Nat /\ 0 \in 0..(NPAR - 1)
        /\ 1 \in 0..(NPAR - 1)
    BY ConsoleAssumption, SMTT(60) DEF ConInv, Framed, ConType
  <2>2. k.par[0] \in Nat /\ k.par[1] \in Nat
    BY <2>1
  <2>3. PICK t \in Nat, b \in Nat : /\ t = IF k.par[0] > 0 THEN k.par[0] - 1 ELSE 0
                                    /\ b = IF k.par[1] = 0 THEN lines ELSE k.par[1]
    <3>1. (IF k.par[0] > 0 THEN k.par[0] - 1 ELSE 0) \in Nat
      BY <2>2
    <3>2. (IF k.par[1] = 0 THEN lines ELSE k.par[1]) \in Nat
      BY <2>1, <2>2
    <3>3. QED
      BY <3>1, <3>2, Zenon
  <2>4. Region(k) = IF t < b /\ b <= lines THEN [k EXCEPT !.top = t, !.bottom = b] ELSE k
    BY <2>3, Zenon DEF Region
  <2>5. CASE t < b /\ b <= lines
    <3>1. t \in Rows /\ b \in 1..lines
      BY <2>1, <2>5 DEF Rows
    <3>2. RegionTo(Region(k), k, t, b)
      BY <2>4, <2>5 DEF RegionTo
    <3>3. Unseen(k, Region(k))
      BY <2>5, <3>1, <3>2, MarksUnseen
    <3>4. QED
      BY <3>3, UnseenGood
  <2>6. CASE ~(t < b /\ b <= lines)
    BY <2>4, <2>6, GoodMoves
  <2>7. QED
    BY <2>5, <2>6
<1>3. Good(k, save_cur(k))
  <2>1. k.x \in 0..columns /\ k.y \in Rows
    BY ConFacts
  <2>2. SavedTo(save_cur(k), k, k.x, k.y)
    BY DEF SavedTo, save_cur
  <2>3. Unseen(k, save_cur(k))
    BY <2>1, <2>2, MarksUnseen
  <2>4. QED
    BY <2>3, UnseenGood
<1>4. QED
  BY <1>1, <1>2, <1>3

(* Final.                                                                  *)
LEMMA FinalGood ==
  ASSUME NEW k, ConInv(k), NEW c
  PROVE  Good(k, Final(k, c))
<1>1. \A a, b : Good(k, gotoxy(k, a, b)) /\ Good(k, restore_cur(k))
  BY Anywhere, GoodMoves
<1>2. k.par[0] \in Nat
  <2>1. k.par \in [0..(NPAR - 1) -> Nat] /\ 0 \in 0..(NPAR - 1)
    BY ConsoleAssumption, SMTT(60) DEF ConInv, Framed, ConType
  <2>2. QED
    BY <2>1
<1> DEFINE p == k.par[0]
           one == IF p = 0 THEN 1 ELSE p
           less(n) == IF n > 0 THEN n - 1 ELSE 0
<1>3. Good(k, csi_J(k, p)) /\ Good(k, csi_K(k, p))
  BY EraseScreen, EraseLine
<1>4. Good(k, csi_L(k, p)) /\ Good(k, csi_M(k, p))
  BY <1>2, LinesGood
<1>5. Good(k, csi_at(k, p)) /\ Good(k, csi_P(k, p))
  BY <1>2, ShiftsGood
<1>6. Good(k, csi_m(k)) /\ Good(k, Region(k)) /\ Good(k, save_cur(k)) /\ Good(k, k)
  BY MarksGood, GoodMoves
<1>7. CASE c \notin Finals
  <2>1. Final(k, c) = k
    BY <1>7 DEF Final, Finals
  <2>2. QED
    BY <1>6, <2>1
<1>8. CASE c \in {"G", "A", "B", "C", "D", "E", "F", "d", "H"}
  <2>1. \E a, b : Final(k, c) = gotoxy(k, a, b)
    <3>1. c = "G" => Final(k, c) = gotoxy(k, less(p), k.y)
      BY DEF Final
    <3>2. c = "A" => Final(k, c) = gotoxy(k, k.x, k.y - one)
      BY DEF Final
    <3>3. c = "B" => Final(k, c) = gotoxy(k, k.x, k.y + one)
      BY DEF Final
    <3>4. c = "C" => Final(k, c) = gotoxy(k, k.x + one, k.y)
      BY DEF Final
    <3>5. c = "D" => Final(k, c) = gotoxy(k, k.x - one, k.y)
      BY DEF Final
    <3>6. c = "E" => Final(k, c) = gotoxy(k, 0, k.y + one)
      BY DEF Final
    <3>7. c = "F" => Final(k, c) = gotoxy(k, 0, k.y - one)
      BY DEF Final
    <3>8. c = "d" => Final(k, c) = gotoxy(k, k.x, less(p))
      BY DEF Final
    <3>9. c = "H" => Final(k, c) = gotoxy(k, less(k.par[1]), less(p))
      BY DEF Final
    <3>10. QED
      BY <1>8, <3>1, <3>2, <3>3, <3>4, <3>5, <3>6, <3>7, <3>8, <3>9, Zenon
  <2>2. QED
    BY <1>1, <2>1
<1>9. CASE c \in {"J", "K", "L", "M", "P", "@", "m", "r", "s", "u"}
  <2>1. /\ c = "J" => Final(k, c) = csi_J(k, p)
        /\ c = "K" => Final(k, c) = csi_K(k, p)
        /\ c = "L" => Final(k, c) = csi_L(k, p)
        /\ c = "M" => Final(k, c) = csi_M(k, p)
    BY DEF Final
  <2>2. /\ c = "P" => Final(k, c) = csi_P(k, p)
        /\ c = "@" => Final(k, c) = csi_at(k, p)
        /\ c = "m" => Final(k, c) = csi_m(k)
    BY DEF Final
  <2>3. /\ c = "r" => Final(k, c) = Region(k)
        /\ c = "s" => Final(k, c) = save_cur(k)
        /\ c = "u" => Final(k, c) = restore_cur(k)
    BY DEF Final
  <2> HIDE DEF p
  <2>4. QED
    BY <1>1, <1>3, <1>4, <1>5, <1>6, <1>9, <2>1, <2>2, <2>3
<1>10. QED
  BY <1>7, <1>8, <1>9 DEF Finals

(* A character of a sequence.                                              *)
LEMMA ParameterGood ==
  ASSUME NEW k, ConInv(k), Parameter(k)
  PROVE  Good(k, con')
<1>1. /\ k.par \in [0..(NPAR - 1) -> Nat] /\ k.npar \in 0..(NPAR - 1) /\ NPAR \in Nat
      /\ Digits \subseteq 0..9
  BY ConsoleAssumption DEF ConInv, Framed, ConType, InPlace
<1>2. CASE k.npar < NPAR - 1 /\ con' = [k EXCEPT !.npar = @ + 1]
  <2>1. PICK n \in 0..(NPAR - 1) : n = k.npar + 1
    BY <1>1, <1>2
  <2>2. NparTo(con', k, n)
    BY <1>2, <2>1 DEF NparTo
  <2>3. QED
    BY <2>2, ParserUnseen, UnseenGood
<1>3. CASE \E d \in Digits : k.par[k.npar] = 0 /\ con' = [k EXCEPT !.par[k.npar] = 10 * @ + d]
  <2>1. PICK d \in Digits : k.par[k.npar] = 0 /\ con' = [k EXCEPT !.par[k.npar] = 10 * @ + d]
    BY <1>3
  <2>2. PICK e : e = 10 * k.par[k.npar] + d
    OBVIOUS
  <2>3. e \in Nat
    <3>1. d \in Nat
      BY <1>1
    <3>2. e = 10 * 0 + d
      BY <2>1, <2>2
    <3>3. QED
      BY <3>1, <3>2
  <2>4. PICK p : p = [k.par EXCEPT ![k.npar] = e]
    OBVIOUS
  <2>5. p \in [0..(NPAR - 1) -> Nat]
    BY <1>1, <2>3, <2>4
  <2>6. ParTo(con', k, p)
    BY <2>1, <2>2, <2>4, Zenon DEF ParTo
  <2>7. QED
    BY <2>5, <2>6, ParserUnseen, UnseenGood
<1>4. CASE \E c \in Finals \cup {"other"} : con' = Final([k EXCEPT !.state = 0], c)
  <2>1. PICK c : con' = Final([k EXCEPT !.state = 0], c)
    BY <1>4
  <2>2. PICK l : l = [k EXCEPT !.state = 0]
    OBVIOUS
  <2>3. Unseen(k, l)
    BY <2>2, ParserUnseen DEF StateTo
  <2>4. Good(l, con')
    BY <2>1, <2>2, <2>3, UnseenGood, FinalGood
  <2>5. QED
    BY <2>3, <2>4, GoodAfter
<1>5. QED
  BY <1>2, <1>3, <1>4 DEF Parameter

(* A character after ESC.                                                  *)
LEMMA EscapeGood ==
  ASSUME ConInv(con), Escape
  PROVE  Good(con, con')
<1>1. PICK k : k = [con EXCEPT !.state = 0]
  OBVIOUS
<1>2. Unseen(con, k)
  BY <1>1, ParserUnseen DEF StateTo
<1>3. ConInv(k)
  BY <1>2, UnseenGood
<1>4. \/ con' = [k EXCEPT !.state = 2]
      \/ con' = gotoxy(k, 0, k.y + 1)
      \/ con' = ri(k)
      \/ con' = lf(k)
      \/ con' = IF k.x = Seven THEN save_cur(k)
                ELSE IF k.x = Eight THEN restore_cur(k) ELSE k
  BY <1>1 DEF Escape
<1>5. Good(k, con')
  <2>1. CASE con' = [k EXCEPT !.state = 2]
    BY <1>3, <2>1, ParserUnseen, UnseenGood DEF StateTo
  <2>2. CASE con' = gotoxy(k, 0, k.y + 1)
    BY <1>3, <2>2, Anywhere, GoodMoves
  <2>3. CASE con' = ri(k)
    BY <1>3, <2>3, ReverseIndex, GoodMoves
  <2>4. CASE con' = lf(k)
    BY <1>3, <2>4, LineFeed, GoodMoves
  <2>5. CASE con' \in {save_cur(k), restore_cur(k), k}
    BY <1>3, <2>5, MarksGood, Anywhere, GoodMoves
  <2>6. QED
    BY <1>4, <2>1, <2>2, <2>3, <2>4, <2>5
<1>6. QED
  BY <1>2, <1>5, GoodAfter

(* Every character keeps the promise.                                      *)
LEMMA CharacterGood ==
  ASSUME ConInv(con), [ConNext]_con
  PROVE  Good(con, con')
<1>1. CASE Show
  BY <1>1, ShownGood DEF Show
<1>2. CASE Control
  <2>1. PICK f \in {"ESC", "LF", "CR", "DEL", "BS", "TAB"} :
          con' = CASE f = "ESC" -> [con EXCEPT !.state = 1]
                   [] f = "LF" -> lf(con)
                   [] f = "CR" -> cr(con)
                   [] f = "DEL" -> del(con)
                   [] f = "BS" -> Left(con)
                   [] f = "TAB" -> Tabbed(con)
    BY <1>2 DEF Control
  <2>2. \/ con' = [con EXCEPT !.state = 1] \/ con' = lf(con) \/ con' = cr(con)
        \/ con' = del(con) \/ con' = Left(con) \/ con' = Tabbed(con)
    BY <2>1
  <2>3. CASE con' = [con EXCEPT !.state = 1]
    BY <2>3, ParserUnseen, UnseenGood DEF StateTo
  <2>4. CASE con' = lf(con)
    BY <2>4, LineFeed, GoodMoves
  <2>5. CASE con' = cr(con) \/ con' = Left(con)
    <3>1. con.x > 0 \/ con.x = 0
      BY ConFacts
    <3>2. QED
      BY <2>5, <3>1, ToTheLeft, GoodMoves
  <2>6. CASE con' = del(con)
    BY <2>6, DelGood
  <2>7. CASE con' = Tabbed(con)
    BY <2>7, TabbedGood
  <2>8. QED
    BY <2>2, <2>3, <2>4, <2>5, <2>6, <2>7
<1>3. CASE Escape
  BY <1>3, EscapeGood
<1>4. CASE Bracket
  <2>1. PICK l : l = [con EXCEPT !.state = 3]
    OBVIOUS
  <2>2. PICK h : h = [l EXCEPT !.npar = 0]
    OBVIOUS
  <2>3. PICK p : p = [n \in 0..(NPAR - 1) |-> 0]
    OBVIOUS
  <2>4. PICK k : k = [h EXCEPT !.par = p]
    OBVIOUS
  <2>5. con' = k \/ Parameter(k)
    BY <1>4, <2>1, <2>2, <2>3, <2>4, Zenon DEF Bracket
  <2>6. Unseen(con, l) /\ ConInv(l)
    BY <2>1, ParserUnseen, UnseenGood DEF StateTo
  <2>7. Unseen(l, h) /\ ConInv(h)
    <3>1. 0 \in 0..(NPAR - 1)
      BY ConsoleAssumption
    <3>2. QED
      BY <2>2, <2>6, <3>1, ParserUnseen, UnseenGood DEF NparTo
  <2>8. Unseen(h, k) /\ ConInv(k)
    <3>1. p \in [0..(NPAR - 1) -> Nat]
      BY <2>3
    <3>2. ParTo(k, h, p)
      BY <2>4 DEF ParTo
    <3>3. QED
      BY <2>7, <3>1, <3>2, ParserUnseen, UnseenGood
  <2>9. Unseen(con, k)
    BY <2>6, <2>7, <2>8, UnseenTwice
  <2>10. CASE con' = k
    BY <2>9, <2>10, UnseenGood
  <2>11. CASE Parameter(k)
    <3>1. Good(k, con')
      BY <2>8, <2>11, ParameterGood
    <3>2. QED
      BY <2>9, <3>1, GoodAfter
  <2>12. QED
    BY <2>5, <2>10, <2>11
<1>5. CASE Parameters
  BY <1>5, ParameterGood DEF Parameters
<1>6. CASE UNCHANGED con
  BY <1>6, GoodMoves
<1>7. QED
  BY <1>1, <1>2, <1>3, <1>4, <1>5, <1>6 DEF ConNext

(* The screen is blank to begin with.                                      *)
LEMMA ConsoleBegins ==
  ASSUME ConInit
  PROVE  ConInv(con) /\ Seen!Init
<1>1. /\ columns \in Nat \ {0} /\ lines \in Nat \ {0, 1} /\ NPAR \in Nat \ {0, 1}
      /\ SCREEN_CELLS \in Nat
      /\ SCREEN_CELLS >= (lines + 1) * columns
  BY ConsoleAssumption
<1>2. lines * columns \in Nat /\ (lines + 1) * columns = lines * columns + columns
  BY <1>1
<1>3. lines * columns <= SCREEN_CELLS
  <2> DEFINE L == lines * columns
  <2>1. L \in Nat /\ SCREEN_CELLS >= L + columns
    BY <1>1, <1>2
  <2> HIDE DEF L
  <2>2. L <= SCREEN_CELLS
    BY <1>1, <2>1
  <2>3. QED
    BY <2>2 DEF L
<1>4. PICK mem, par : /\ mem = [c \in Cells |-> IF c < lines * columns THEN Blank ELSE Stale]
                      /\ par = [n \in 0..(NPAR - 1) |-> 0]
  OBVIOUS
<1>5. con = [origin |-> 0, x |-> 0, y |-> 0, pos |-> 0, top |-> 0,
             bottom |-> lines, state |-> 0, npar |-> 0, par |-> par, attr |-> 7,
             saved_x |-> 0, saved_y |-> 0, mem |-> mem]
  BY <1>4 DEF ConInit
<1>6. mem \in [Cells -> Glyphs] /\ par \in [0..(NPAR - 1) -> Nat]
  BY <1>4 DEF Glyphs
<1>7. Framed(con)
  <2>1. con \in ConType
    BY <1>1, <1>5, <1>6 DEF ConType
  <2>2. 0 + lines * columns <= SCREEN_CELLS
    BY <1>2, <1>3
  <2>3. QED
    BY <1>5, <2>1, <2>2 DEF Framed
<1>8. InPlace(con)
  <2>1. 0 * columns = 0
    BY <1>1
  <2>2. QED
    BY <1>1, <1>5, <2>1 DEF InPlace, Rows
<1>9. ASSUME NEW r \in Rows, NEW c \in Cols PROVE con.mem[con.origin + r * columns + c] = Blank
  <2>1. con.origin + r * columns + c \in Cells /\ con.origin + r * columns + c \in Window(con)
    BY <1>7, InMemory DEF Place
  <2>2. con.origin = 0 /\ con.mem = mem
    BY <1>5
  <2>3. PICK a : a = con.origin + r * columns + c
    OBVIOUS
  <2>4. a \in Cells /\ a \in 0..(lines * columns - 1)
    <3>1. Window(con) = 0..(lines * columns - 1)
      BY <1>2, <2>2 DEF Window
    <3>2. QED
      BY <2>1, <2>3, <3>1
  <2>5. a < lines * columns
    BY <1>2, <2>4
  <2>6. mem[a] = Blank
    BY <1>4, <2>4, <2>5
  <2>7. QED
    BY <2>2, <2>3, <2>6
<1>10. Seen!Init
  <2>1. con.x \in Seen!Cols /\ con.y \in Seen!Rows
    BY <1>1, <1>5 DEF Seen!Cols, Seen!Rows
  <2>2. [r \in 0..(lines - 1) |-> [c \in 0..(columns - 1) |-> con.mem[con.origin + r * columns + c]]]
        = [r \in Seen!Rows |-> Seen!Empty]
    BY <1>9 DEF Seen!Rows, Seen!Empty, Seen!Cols, Rows, Cols
  <2>3. QED
    BY <2>1, <2>2 DEF Seen!Init
<1>11. QED
  BY <1>7, <1>8, <1>10 DEF ConInv

(* The console shows a screen, with every size of it and of the video      *)
(* memory: con_write does to what is seen what module Screen says, though  *)
(* the window slides and is copied back.                                   *)
THEOREM ConsoleShowsScreen == ConSpec => ShowsScreen
<1>1. ConInit => ConInv(con) /\ Seen!Init
  BY ConsoleBegins
<1>2. ConInv(con) /\ [ConNext]_con => ConInv(con)' /\ [Seen!Next]_(Seen!screenVars)
  <2> SUFFICES ASSUME ConInv(con), [ConNext]_con
               PROVE  ConInv(con)' /\ [Seen!Next]_(Seen!screenVars)
    OBVIOUS
  <2>1. ConInv(con') /\ Promised(con, con')
    BY CharacterGood DEF Good
  <2>2. [Seen!Next]_(Seen!screenVars)
    BY <2>1, KeepsPromise
  <2>3. ConInv(con)'
    BY <2>1
  <2>4. QED
    BY <2>2, <2>3
<1>3. QED
  BY <1>1, <1>2, PTL DEF ConSpec, ShowsScreen, Seen!Spec
=============================================================================
