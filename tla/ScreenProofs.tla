---------------------------- MODULE ScreenProofs ----------------------------
(***************************************************************************)
(* The cursor of the terminal is where term.c takes it to be.              *)
(*                                                                         *)
(* Belief is sound for each of the bytes sent, then for term_goto and the  *)
(* rest of term.c, for drawing rows, for placing the cursor, which every   *)
(* command ends with, and so for every command.  Only a character typed is *)
(* sent with nothing placed after it: there the cursor must not be taken   *)
(* to be further right than in the line, and the line must not be full.    *)
(***************************************************************************)
EXTENDS Screen, CommandsProofs

-----------------------------------------------------------------------------
(* What the bytes do to the terminal.                                      *)

Terminals(V) ==
    [cells : [0..(Rows - 1) -> [0..(Cols - 1) -> V]], row : 0..(Rows - 1), col : 0..(Cols - 1),
     wrap : BOOLEAN, slid : BOOLEAN, trow : -1..(Rows - 1), tcol : Int]

\* u is t with its cursor there; what the program believes is t's.
Stands(V, t, u, r, c, w, s) ==
    /\ u \in Terminals(V)
    /\ u.row = r /\ u.col = c /\ u.wrap = w /\ u.slid = s
    /\ u.trow = t.trow /\ u.tcol = t.tcol

(* What a terminal is made of.                                             *)
LEMMA TerminalHas ==
    ASSUME NEW V, NEW t \in Terminals(V)
    PROVE  /\ t.cells \in [0..(Rows - 1) -> [0..(Cols - 1) -> V]]
           /\ t.row \in 0..(Rows - 1) /\ t.col \in 0..(Cols - 1)
           /\ t.wrap \in BOOLEAN /\ t.slid \in BOOLEAN
           /\ t.trow \in -1..(Rows - 1) /\ t.tcol \in Int
           /\ t.row \in Nat /\ t.col \in Nat
BY TerminalAssumption DEF Terminals

(* The size of the screen.                                                 *)
LEMMA Sizes ==
    /\ Rows \in Nat /\ Cols \in Nat /\ Rows >= 2 /\ Cols >= 2 /\ Bottom \in Nat /\ Bottom < Rows - 1
    /\ 0 \in 0..(Rows - 1) /\ 0 \in 0..(Cols - 1) /\ Bottom \in 0..(Rows - 1) /\ TextRows = Bottom + 1
BY TerminalAssumption DEF Bottom, TextRows

(* Moving the cursor.                                                      *)
LEMMA MovedIs ==
    ASSUME NEW V, NEW t \in Terminals(V), NEW r \in 0..(Rows - 1), NEW c \in 0..(Cols - 1)
    PROVE  Stands(V, t, Moved(t, r, c), r, c, FALSE, t.slid) /\ Moved(t, r, c).cells = t.cells
BY DEF Stands, Moved, Terminals

(* Writing cells, which ends a wrap.                                       *)
LEMMA WrittenIs ==
    ASSUME NEW V, NEW t \in Terminals(V), NEW x \in [0..(Rows - 1) -> [0..(Cols - 1) -> V]],
           NEW u, u = [t EXCEPT !.cells = x, !.wrap = FALSE]
    PROVE  Stands(V, t, u, t.row, t.col, FALSE, t.slid) /\ u.cells = x
BY DEF Stands, Terminals

(* The history of a slide.                                                 *)
LEMMA SlidIs ==
    ASSUME NEW V, NEW t \in Terminals(V), NEW b \in BOOLEAN
    PROVE  LET u == [t EXCEPT !.slid = b]
           IN  Stands(V, t, u, t.row, t.col, t.wrap, b) /\ u.cells = t.cells
BY DEF Stands, Terminals

(* The cursor is addressed.                                                *)
LEMMA DevGotoIs ==
    ASSUME NEW V, NEW t \in Terminals(V), NEW r \in 0..(Rows - 1), NEW c \in 0..(Cols - 1)
    PROVE  Stands(V, t, DevGoto(t, r, c), r, c, FALSE, FALSE) /\ DevGoto(t, r, c).cells = t.cells
<1> DEFINE m == Moved(t, r, c)
<1>1. DevGoto(t, r, c) = [m EXCEPT !.slid = FALSE]
  BY DEF DevGoto
<1>2. Stands(V, t, m, r, c, FALSE, t.slid) /\ m.cells = t.cells
  BY MovedIs
<1> HIDE DEF m
<1>3. m \in Terminals(V)
  BY <1>2 DEF Stands
<1>4. Stands(V, m, DevGoto(t, r, c), m.row, m.col, m.wrap, FALSE) /\ DevGoto(t, r, c).cells = m.cells
  BY <1>1, <1>3, SlidIs
<1> QED BY <1>2, <1>4 DEF Stands

(* A carriage return.                                                      *)
LEMMA DevReturnIs ==
    ASSUME NEW V, NEW t \in Terminals(V)
    PROVE  Stands(V, t, DevReturn(t), t.row, 0, FALSE, FALSE) /\ DevReturn(t).cells = t.cells
<1>1. t.row \in 0..(Rows - 1) /\ 0 \in 0..(Cols - 1)
  BY TerminalHas, Sizes
<1>2. DevReturn(t) = DevGoto(t, t.row, 0)
  BY DEF DevReturn, DevGoto
<1> QED BY <1>1, <1>2, DevGotoIs

(* A backspace.                                                            *)
LEMMA DevBackIs ==
    ASSUME NEW V, NEW t \in Terminals(V)
    PROVE  /\ Stands(V, t, DevBack(t), t.row, IF t.col > 0 THEN t.col - 1 ELSE 0, FALSE, t.slid \/ t.wrap)
           /\ DevBack(t).cells = t.cells
<1> DEFINE c == IF t.col > 0 THEN t.col - 1 ELSE 0
           m == Moved(t, t.row, c)
           b == m.slid \/ t.wrap
<1>1. t.row \in 0..(Rows - 1) /\ c \in 0..(Cols - 1) /\ t.slid \in BOOLEAN /\ t.wrap \in BOOLEAN
  BY TerminalHas, Sizes
<1>2. DevBack(t) = [m EXCEPT !.slid = b]
  BY DEF DevBack
<1> HIDE DEF c
<1>3. Stands(V, t, m, t.row, c, FALSE, t.slid) /\ m.cells = t.cells
  BY <1>1, MovedIs
<1> HIDE DEF m
<1>4. m \in Terminals(V) /\ m.slid = t.slid
  BY <1>3 DEF Stands
<1>5. b \in BOOLEAN /\ (b <=> (t.slid \/ t.wrap))
  BY <1>1, <1>4
<1>6. Stands(V, m, DevBack(t), m.row, m.col, m.wrap, b) /\ DevBack(t).cells = m.cells
  <2> HIDE DEF b
  <2> QED BY <1>2, <1>4, <1>5, SlidIs
<1>7. b = (t.slid \/ t.wrap)
  BY <1>5
<1> HIDE DEF b
<1> QED BY <1>3, <1>6, <1>7 DEF Stands, c

(* A step to the right.                                                    *)
LEMMA DevRightIs ==
    ASSUME NEW V, NEW t \in Terminals(V)
    PROVE  /\ Stands(V, t, DevRight(t), t.row, IF t.col < Cols - 1 THEN t.col + 1 ELSE t.col, FALSE, t.slid)
           /\ DevRight(t).cells = t.cells
<1>1. t.row \in 0..(Rows - 1) /\ (IF t.col < Cols - 1 THEN t.col + 1 ELSE t.col) \in 0..(Cols - 1)
  BY TerminalHas, Sizes
<1> QED BY <1>1, MovedIs DEF DevRight

(* Clearing the rest of a row.                                             *)
LEMMA DevClrEolIs ==
    ASSUME NEW V, Blank \in V, NEW t \in Terminals(V)
    PROVE  /\ Stands(V, t, DevClrEol(t), t.row, t.col, FALSE, t.slid)
           /\ DevClrEol(t).cells =
                [t.cells EXCEPT ![t.row] = [c \in 0..(Cols - 1) |-> IF c >= t.col THEN Blank ELSE t.cells[t.row][c]]]
<1> DEFINE a == t.cells[t.row]
           k == [c \in 0..(Cols - 1) |-> IF c >= t.col THEN Blank ELSE a[c]]
           x == [t.cells EXCEPT ![t.row] = k]
<1>0. t.cells \in [0..(Rows - 1) -> [0..(Cols - 1) -> V]] /\ t.row \in 0..(Rows - 1)
  BY TerminalHas
<1>1. a \in [0..(Cols - 1) -> V]
  BY <1>0
<1>2. DOMAIN a = 0..(Cols - 1)
  BY <1>1
<1>3. DevClrEol(t) = [t EXCEPT !.cells = x, !.wrap = FALSE]
  BY <1>2 DEF DevClrEol
<1>4. k \in [0..(Cols - 1) -> V]
  BY <1>1
<1> HIDE DEF k
<1>5. x \in [0..(Rows - 1) -> [0..(Cols - 1) -> V]]
  BY <1>0, <1>4
<1> HIDE DEF x
<1> DEFINE u == DevClrEol(t)
<1> HIDE DEF u
<1>6. Stands(V, t, u, t.row, t.col, FALSE, t.slid) /\ u.cells = x
  <2>1. u = [t EXCEPT !.cells = x, !.wrap = FALSE]
    BY <1>3 DEF u
  <2>2. Stands(V, t, u, t.row, t.col, FALSE, t.slid)
    BY <1>5, <2>1, WrittenIs
  <2>3. u.cells = x
    BY <2>1 DEF Terminals
  <2> QED BY <2>2, <2>3
<1> QED BY <1>6 DEF x, k, u

\* The text area with its first row gone.
ScrolledUp(t) == [r \in 0..(Rows - 1) |-> IF r < Bottom THEN t.cells[r + 1]
                                          ELSE IF r = Bottom THEN EmptyRow ELSE t.cells[r]]

(* A line feed: the text area scrolls at its end.                          *)
LEMMA DevFeedIs ==
    ASSUME NEW V, Blank \in V, NEW t \in Terminals(V)
    PROVE  /\ t.row = Bottom => /\ Stands(V, t, DevFeed(t), Bottom, t.col, FALSE, t.slid)
                               /\ DevFeed(t).cells = ScrolledUp(t)
           /\ t.row # Bottom => /\ Stands(V, t, DevFeed(t), IF t.row < Rows - 1 THEN t.row + 1 ELSE t.row,
                                          t.col, FALSE, t.slid)
                                /\ DevFeed(t).cells = t.cells
<1>0. t.cells \in [0..(Rows - 1) -> [0..(Cols - 1) -> V]] /\ t.row \in 0..(Rows - 1) /\ t.col \in 0..(Cols - 1)
  BY TerminalHas
<1>1. CASE t.row = Bottom
  <2> DEFINE x == ScrolledUp(t)
  <2>1. x \in [0..(Rows - 1) -> [0..(Cols - 1) -> V]]
    BY <1>0, Sizes DEF EmptyRow, ScrolledUp
  <2>2. DOMAIN (t.cells) = 0..(Rows - 1)
    BY <1>0
  <2>3. DevFeed(t) = [t EXCEPT !.cells = x, !.wrap = FALSE]
    BY <1>1, <2>2 DEF DevFeed, ScrolledUp
  <2> HIDE DEF x
  <2> DEFINE u == DevFeed(t)
  <2> HIDE DEF u
  <2>4. Stands(V, t, u, t.row, t.col, FALSE, t.slid) /\ u.cells = x
    <3>1. u = [t EXCEPT !.cells = x, !.wrap = FALSE]
      BY <2>3 DEF u
    <3>2. Stands(V, t, u, t.row, t.col, FALSE, t.slid)
      BY <2>1, <3>1, WrittenIs
    <3>3. u.cells = x
      BY <3>1 DEF Terminals
    <3> QED BY <3>2, <3>3
  <2> QED BY <1>1, <2>4 DEF x, u
<1>2. CASE t.row # Bottom
  <2> DEFINE r == IF t.row < Rows - 1 THEN t.row + 1 ELSE t.row
  <2>1. r \in 0..(Rows - 1)
    BY <1>0, Sizes
  <2>2. DevFeed(t) = Moved(t, r, t.col)
    BY <1>2 DEF DevFeed
  <2> HIDE DEF r
  <2>3. Stands(V, t, DevFeed(t), r, t.col, FALSE, t.slid) /\ DevFeed(t).cells = t.cells
    BY <1>0, <2>1, <2>2, MovedIs
  <2> QED BY <1>2, <2>3 DEF r
<1> QED BY <1>1, <1>2

\* The text area with its last row gone.
ScrolledDown(t) == [r \in 0..(Rows - 1) |-> IF r = 0 THEN EmptyRow
                                            ELSE IF r <= Bottom THEN t.cells[r - 1] ELSE t.cells[r]]

(* A reverse line feed, from the first row.                                *)
LEMMA DevReverseIs ==
    ASSUME NEW V, Blank \in V, NEW t \in Terminals(V)
    PROVE  /\ Stands(V, t, DevReverse(t), t.row, t.col, FALSE, t.slid)
           /\ DevReverse(t).cells = ScrolledDown(t)
<1> DEFINE x == ScrolledDown(t)
<1>1. t.cells \in [0..(Rows - 1) -> [0..(Cols - 1) -> V]]
  BY TerminalHas
<1>2. x \in [0..(Rows - 1) -> [0..(Cols - 1) -> V]]
  BY <1>1, Sizes DEF EmptyRow, ScrolledDown
<1>3. DOMAIN (t.cells) = 0..(Rows - 1)
  BY <1>1
<1>4. DevReverse(t) = [t EXCEPT !.cells = x, !.wrap = FALSE]
  BY <1>3 DEF DevReverse, ScrolledDown
<1> HIDE DEF x
<1> DEFINE u == DevReverse(t)
<1> HIDE DEF u
<1>5. Stands(V, t, u, t.row, t.col, FALSE, t.slid) /\ u.cells = x
  <2>1. u = [t EXCEPT !.cells = x, !.wrap = FALSE]
    BY <1>4 DEF u
  <2>2. Stands(V, t, u, t.row, t.col, FALSE, t.slid)
    BY <1>2, <2>1, WrittenIs
  <2>3. u.cells = x
    BY <2>1 DEF Terminals
  <2> QED BY <2>2, <2>3
<1> QED BY <1>5 DEF x, u

(* Opening and closing a row at the cursor.                                *)
LEMMA DevShiftIs ==
    ASSUME NEW V, Blank \in V, NEW t \in Terminals(V)
    PROVE  /\ Stands(V, t, DevInsert(t), t.row, t.col, FALSE, t.slid)
           /\ Stands(V, t, DevDelete(t), t.row, t.col, FALSE, t.slid)
<1> DEFINE a == t.cells[t.row]
           i == [c \in 0..(Cols - 1) |-> IF c < t.col THEN a[c] ELSE IF c = t.col THEN Blank ELSE a[c - 1]]
           d == [c \in 0..(Cols - 1) |-> IF c < t.col THEN a[c] ELSE IF c = Cols - 1 THEN Blank ELSE a[c + 1]]
           x == [t.cells EXCEPT ![t.row] = i]
           y == [t.cells EXCEPT ![t.row] = d]
<1>0. t.cells \in [0..(Rows - 1) -> [0..(Cols - 1) -> V]] /\ t.row \in 0..(Rows - 1) /\ t.col \in 0..(Cols - 1)
  BY TerminalHas
<1>1. a \in [0..(Cols - 1) -> V]
  BY <1>0
<1>2. DOMAIN a = 0..(Cols - 1)
  BY <1>1
<1>3. DevInsert(t) = [t EXCEPT !.cells = x, !.wrap = FALSE] /\ DevDelete(t) = [t EXCEPT !.cells = y, !.wrap = FALSE]
  BY <1>2 DEF DevInsert, DevDelete
<1> HIDE DEF a
<1>4. i \in [0..(Cols - 1) -> V] /\ d \in [0..(Cols - 1) -> V]
  BY <1>0, <1>1, Sizes
<1> HIDE DEF i, d
<1>5. x \in [0..(Rows - 1) -> [0..(Cols - 1) -> V]] /\ y \in [0..(Rows - 1) -> [0..(Cols - 1) -> V]]
  BY <1>0, <1>4
<1> HIDE DEF x, y
<1> QED BY <1>3, <1>5, WrittenIs

(* A character, before the end of the row or at it.                        *)
LEMMA DevPrintIs ==
    ASSUME NEW V, Blank \in V, NEW t \in Terminals(V), NEW ch \in V
    PROVE  /\ DevPrint(t, ch) \in Terminals(V)
           /\ DevPrint(t, ch).trow = t.trow /\ DevPrint(t, ch).tcol = t.tcol
           /\ DevPrint(t, ch).wrap => DevPrint(t, ch).col = Cols - 1
           /\ ~ t.wrap => Stands(V, t, DevPrint(t, ch), t.row, IF t.col < Cols - 1 THEN t.col + 1 ELSE t.col,
                                 t.col = Cols - 1, t.slid)
<1> DEFINE u == IF t.wrap THEN DevFeed(DevReturn(t)) ELSE t
           x == [u.cells EXCEPT ![u.row] = [u.cells[u.row] EXCEPT ![u.col] = ch]]
           c == IF u.col < Cols - 1 THEN u.col + 1 ELSE u.col
           b == (u.col = Cols - 1)
<1>1. u \in Terminals(V) /\ u.trow = t.trow /\ u.tcol = t.tcol
  <2>1. DevReturn(t) \in Terminals(V) /\ DevReturn(t).trow = t.trow /\ DevReturn(t).tcol = t.tcol
    BY DevReturnIs DEF Stands
  <2> DEFINE v == DevReturn(t)
  <2> HIDE DEF v
  <2>2. DevFeed(v) \in Terminals(V) /\ DevFeed(v).trow = t.trow /\ DevFeed(v).tcol = t.tcol
    BY <2>1, DevFeedIs DEF Stands, v
  <2> QED BY <2>2 DEF v
<1>2. DevPrint(t, ch) = [u EXCEPT !.cells = x, !.col = c, !.wrap = b]
  BY DEF DevPrint
<1>3. ~ t.wrap => u = t
  OBVIOUS
<1> HIDE DEF u
<1>4. /\ u.cells \in [0..(Rows - 1) -> [0..(Cols - 1) -> V]] /\ u.row \in 0..(Rows - 1)
      /\ u.col \in 0..(Cols - 1)
  BY <1>1, TerminalHas
<1>5. x \in [0..(Rows - 1) -> [0..(Cols - 1) -> V]] /\ c \in 0..(Cols - 1) /\ b \in BOOLEAN
  BY <1>4, Sizes
<1> HIDE DEF x, c, b
<1>6. LET p == [u EXCEPT !.cells = x, !.col = c, !.wrap = b]
      IN  /\ p \in Terminals(V) /\ p.cells = x /\ p.row = u.row /\ p.col = c /\ p.wrap = b
          /\ p.slid = u.slid /\ p.trow = u.trow /\ p.tcol = u.tcol
  BY <1>1, <1>5 DEF Terminals
<1>7. /\ DevPrint(t, ch) \in Terminals(V) /\ DevPrint(t, ch).cells = x /\ DevPrint(t, ch).row = u.row
      /\ DevPrint(t, ch).col = c /\ DevPrint(t, ch).wrap = b
      /\ DevPrint(t, ch).slid = u.slid /\ DevPrint(t, ch).trow = u.trow /\ DevPrint(t, ch).tcol = u.tcol
  BY <1>2, <1>6
<1>8. ASSUME ~ t.wrap
      PROVE  Stands(V, t, DevPrint(t, ch), t.row, IF t.col < Cols - 1 THEN t.col + 1 ELSE t.col,
                    t.col = Cols - 1, t.slid)
  <2>1. u = t
    BY <1>3, <1>8
  <2> QED BY <1>7, <2>1 DEF Stands, x, c, b
<1>9. b => c = Cols - 1
  BY <1>4, Sizes DEF b, c
<1> QED BY <1>1, <1>7, <1>8, <1>9

-----------------------------------------------------------------------------
(* A byte sent n times, the cursor staying away from the edges.            *)

(* Backspaces.                                                             *)
LEMMA BacksIs ==
    ASSUME NEW V, NEW t \in Terminals(V), NEW n \in Nat, n <= t.col
    PROVE  Stands(V, t, Repeat(DevBack, n, t), t.row, t.col - n, n = 0 /\ t.wrap, t.slid \/ (n > 0 /\ t.wrap))
<1> DEFINE S == Terminals(V)
           g == [q \in S |-> DevBack(q)]
           E(f, i) == IF i = 0 THEN t ELSE DevBack(f[i - 1])
           h == CHOOSE f : f = [i \in 0..n |-> E(f, i)]
<1>1. Repeat(DevBack, n, t) = h[n]
  BY DEF Repeat
<1>2. t \in S /\ \A q \in S : DevBack(q) \in S
  BY DevBackIs DEF Stands
<1> HIDE DEF S
<1>3. \E f : f = [i \in 0..n |-> E(f, i)]
  <2>1. g \in [S -> S]
    BY <1>2
  <2> HIDE DEF g
  <2>2. PICK f : Follows(f, g, S, n, t)
    BY <2>1, <1>2, Repeats
  <2>3. ASSUME NEW i \in 0..n PROVE f[i] = E(f, i)
    <3>1. CASE i = 0
      BY <3>1, <2>2 DEF Follows
    <3>2. CASE i # 0
      <4>1. i \in 1..n /\ i - 1 \in 0..n
        BY <3>2
      <4>2. f[i - 1] \in S /\ f[i] = g[f[i - 1]]
        BY <4>1, <2>2 DEF Follows
      <4>3. f[i] = DevBack(f[i - 1])
        BY <4>2 DEF g
      <4> QED BY <4>3, <3>2
    <3> QED BY <3>1, <3>2
  <2>4. f = [i \in 0..n |-> E(f, i)]
    <3>1. f = [i \in 0..n |-> f[i]]
      BY <2>2 DEF Follows
    <3> HIDE DEF E
    <3> QED BY <2>3, <3>1
  <2> HIDE DEF E
  <2> QED BY <2>4
<1>4. h = [i \in 0..n |-> E(h, i)]
  <2> HIDE DEF E
  <2> QED BY <1>3
<1> HIDE DEF h
<1>5. h[0] = t /\ \A i \in 1..n : h[i] = DevBack(h[i - 1])
  <2>1. \A i \in 0..n : h[i] = E(h, i)
    <3> HIDE DEF E
    <3> QED BY <1>4
  <2>2. 0 \in 0..n /\ \A i \in 1..n : i \in 0..n /\ i # 0
    OBVIOUS
  <2> QED BY <2>1, <2>2
<1> HIDE DEF E, g
<1> DEFINE P(k) == Stands(V, t, h[k], t.row, t.col - k, k = 0 /\ t.wrap, t.slid \/ (k > 0 /\ t.wrap))
           N == {k \in Nat : k <= n => P(k)}
<1>6. 0 \in N
  <2>1. P(0)
    BY <1>5, TerminalHas DEF Stands
  <2> QED BY <2>1
<1>7. ASSUME NEW k \in Nat, k \in N PROVE k + 1 \in N
  <2> SUFFICES ASSUME k + 1 <= n PROVE P(k + 1)
    OBVIOUS
  <2>1. k + 1 \in 1..n /\ (k + 1) - 1 = k /\ k <= n
    OBVIOUS
  <2> DEFINE u == h[k]
  <2>2. h[k + 1] = DevBack(u) /\ P(k)
    BY <1>5, <1>7, <2>1
  <2>3. Stands(V, t, u, t.row, t.col - k, k = 0 /\ t.wrap, t.slid \/ (k > 0 /\ t.wrap))
    BY <2>2
  <2> HIDE DEF u
  <2>4. u \in Terminals(V)
    BY <2>3 DEF Stands
  <2>5. Stands(V, u, DevBack(u), u.row, IF u.col > 0 THEN u.col - 1 ELSE 0, FALSE, u.slid \/ u.wrap)
    BY <2>4, DevBackIs
  <2>6. t.row \in 0..(Rows - 1) /\ t.col \in 0..(Cols - 1) /\ t.wrap \in BOOLEAN /\ t.slid \in BOOLEAN
    BY TerminalHas
  <2> DEFINE x == DevBack(u)
  <2> HIDE DEF x
  <2>7. Stands(V, t, x, t.row, t.col - (k + 1), k + 1 = 0 /\ t.wrap, t.slid \/ (k + 1 > 0 /\ t.wrap))
    <3>1. x \in Terminals(V) /\ x.row = t.row /\ x.col = t.col - (k + 1) /\ x.trow = t.trow /\ x.tcol = t.tcol
      BY <2>1, <2>3, <2>5, <2>6, Sizes DEF Stands, x
    <3>2. x.wrap = FALSE /\ x.slid = (u.slid \/ u.wrap)
      BY <2>1, <2>3, <2>5, <2>6, Sizes DEF Stands, x
    <3>3. (k + 1 = 0 /\ t.wrap) = FALSE
      OBVIOUS
    <3>4. (u.slid \/ u.wrap) = (t.slid \/ (k + 1 > 0 /\ t.wrap))
      <4>1. (u.wrap <=> (k = 0 /\ t.wrap)) /\ (u.slid <=> (t.slid \/ (k > 0 /\ t.wrap)))
        BY <2>3, <2>6 DEF Stands
      <4>2. u.wrap \in BOOLEAN /\ u.slid \in BOOLEAN
        BY <2>4, TerminalHas
      <4> QED BY <2>1, <2>6, <4>1, <4>2
    <3> QED BY <3>1, <3>2, <3>3, <3>4 DEF Stands
  <2> QED BY <2>2, <2>7 DEF x
<1>8. Nat \subseteq N
  <2> HIDE DEF N
  <2> QED BY <1>6, <1>7, Natural
<1> QED BY <1>1, <1>8

(* Steps to the right.                                                     *)
LEMMA RightsIs ==
    ASSUME NEW V, NEW t \in Terminals(V), NEW n \in Nat, t.col + n <= Cols - 1
    PROVE  Stands(V, t, Repeat(DevRight, n, t), t.row, t.col + n, n = 0 /\ t.wrap, t.slid)
<1> DEFINE S == Terminals(V)
           g == [q \in S |-> DevRight(q)]
           E(f, i) == IF i = 0 THEN t ELSE DevRight(f[i - 1])
           h == CHOOSE f : f = [i \in 0..n |-> E(f, i)]
<1>1. Repeat(DevRight, n, t) = h[n]
  BY DEF Repeat
<1>2. t \in S /\ \A q \in S : DevRight(q) \in S
  BY DevRightIs DEF Stands
<1> HIDE DEF S
<1>3. \E f : f = [i \in 0..n |-> E(f, i)]
  <2>1. g \in [S -> S]
    BY <1>2
  <2> HIDE DEF g
  <2>2. PICK f : Follows(f, g, S, n, t)
    BY <2>1, <1>2, Repeats
  <2>3. ASSUME NEW i \in 0..n PROVE f[i] = E(f, i)
    <3>1. CASE i = 0
      BY <3>1, <2>2 DEF Follows
    <3>2. CASE i # 0
      <4>1. i \in 1..n /\ i - 1 \in 0..n
        BY <3>2
      <4>2. f[i - 1] \in S /\ f[i] = g[f[i - 1]]
        BY <4>1, <2>2 DEF Follows
      <4>3. f[i] = DevRight(f[i - 1])
        BY <4>2 DEF g
      <4> QED BY <4>3, <3>2
    <3> QED BY <3>1, <3>2
  <2>4. f = [i \in 0..n |-> E(f, i)]
    <3>1. f = [i \in 0..n |-> f[i]]
      BY <2>2 DEF Follows
    <3> HIDE DEF E
    <3> QED BY <2>3, <3>1
  <2> HIDE DEF E
  <2> QED BY <2>4
<1>4. h = [i \in 0..n |-> E(h, i)]
  <2> HIDE DEF E
  <2> QED BY <1>3
<1> HIDE DEF h
<1>5. h[0] = t /\ \A i \in 1..n : h[i] = DevRight(h[i - 1])
  <2>1. \A i \in 0..n : h[i] = E(h, i)
    <3> HIDE DEF E
    <3> QED BY <1>4
  <2>2. 0 \in 0..n /\ \A i \in 1..n : i \in 0..n /\ i # 0
    OBVIOUS
  <2> QED BY <2>1, <2>2
<1> HIDE DEF E, g
<1> DEFINE P(k) == Stands(V, t, h[k], t.row, t.col + k, k = 0 /\ t.wrap, t.slid)
           N == {k \in Nat : k <= n => P(k)}
<1>6. 0 \in N
  <2>1. P(0)
    BY <1>5, TerminalHas DEF Stands
  <2> QED BY <2>1
<1>7. ASSUME NEW k \in Nat, k \in N PROVE k + 1 \in N
  <2> SUFFICES ASSUME k + 1 <= n PROVE P(k + 1)
    OBVIOUS
  <2>1. k + 1 \in 1..n /\ (k + 1) - 1 = k /\ k <= n
    OBVIOUS
  <2> DEFINE u == h[k]
  <2>2. h[k + 1] = DevRight(u) /\ P(k)
    BY <1>5, <1>7, <2>1
  <2>3. Stands(V, t, u, t.row, t.col + k, k = 0 /\ t.wrap, t.slid)
    BY <2>2
  <2> HIDE DEF u
  <2>4. u \in Terminals(V)
    BY <2>3 DEF Stands
  <2>5. Stands(V, u, DevRight(u), u.row, IF u.col < Cols - 1 THEN u.col + 1 ELSE u.col, FALSE, u.slid)
    BY <2>4, DevRightIs
  <2>6. t.row \in 0..(Rows - 1) /\ t.col \in 0..(Cols - 1) /\ t.wrap \in BOOLEAN /\ t.slid \in BOOLEAN
    BY TerminalHas
  <2> DEFINE x == DevRight(u)
  <2> HIDE DEF x
  <2>7. Stands(V, t, x, t.row, t.col + (k + 1), k + 1 = 0 /\ t.wrap, t.slid)
    <3>1. x \in Terminals(V) /\ x.row = t.row /\ x.col = t.col + (k + 1) /\ x.trow = t.trow /\ x.tcol = t.tcol
      BY <2>1, <2>3, <2>5, <2>6, Sizes DEF Stands, x
    <3>2. x.wrap = FALSE /\ x.slid = (u.slid)
      BY <2>1, <2>3, <2>5, <2>6, Sizes DEF Stands, x
    <3>3. (k + 1 = 0 /\ t.wrap) = FALSE
      OBVIOUS
    <3>4. (u.slid) = (t.slid)
      <4>1. (u.wrap <=> (k = 0 /\ t.wrap)) /\ (u.slid <=> (t.slid))
        BY <2>3, <2>6 DEF Stands
      <4>2. u.wrap \in BOOLEAN /\ u.slid \in BOOLEAN
        BY <2>4, TerminalHas
      <4> QED BY <2>1, <2>6, <4>1, <4>2
    <3> QED BY <3>1, <3>2, <3>3, <3>4 DEF Stands
  <2> QED BY <2>2, <2>7 DEF x
<1>8. Nat \subseteq N
  <2> HIDE DEF N
  <2> QED BY <1>6, <1>7, Natural
<1> QED BY <1>1, <1>8

(* A line feed leaves a terminal.                                          *)
LEMMA FedIn ==
    ASSUME NEW V, Blank \in V, NEW t \in Terminals(V)
    PROVE  DevFeed(t) \in Terminals(V)
BY DevFeedIs DEF Stands

(* Line feeds.                                                             *)
LEMMA FeedsIs ==
    ASSUME NEW V, Blank \in V, NEW t \in Terminals(V), NEW n \in Nat, t.row + n <= Bottom
    PROVE  Stands(V, t, Repeat(DevFeed, n, t), t.row + n, t.col, n = 0 /\ t.wrap, t.slid)
<1> DEFINE S == Terminals(V)
           g == [q \in S |-> DevFeed(q)]
           E(f, i) == IF i = 0 THEN t ELSE DevFeed(f[i - 1])
           h == CHOOSE f : f = [i \in 0..n |-> E(f, i)]
<1>1. Repeat(DevFeed, n, t) = h[n]
  BY DEF Repeat
<1>2. t \in S /\ \A q \in S : DevFeed(q) \in S
  BY FedIn
<1> HIDE DEF S
<1>3. \E f : f = [i \in 0..n |-> E(f, i)]
  <2>1. g \in [S -> S]
    BY <1>2
  <2> HIDE DEF g
  <2>2. PICK f : Follows(f, g, S, n, t)
    BY <2>1, <1>2, Repeats
  <2>3. ASSUME NEW i \in 0..n PROVE f[i] = E(f, i)
    <3>1. CASE i = 0
      BY <3>1, <2>2 DEF Follows
    <3>2. CASE i # 0
      <4>1. i \in 1..n /\ i - 1 \in 0..n
        BY <3>2
      <4>2. f[i - 1] \in S /\ f[i] = g[f[i - 1]]
        BY <4>1, <2>2 DEF Follows
      <4>3. f[i] = DevFeed(f[i - 1])
        BY <4>2 DEF g
      <4> QED BY <4>3, <3>2
    <3> QED BY <3>1, <3>2
  <2>4. f = [i \in 0..n |-> E(f, i)]
    <3>1. f = [i \in 0..n |-> f[i]]
      BY <2>2 DEF Follows
    <3> HIDE DEF E
    <3> QED BY <2>3, <3>1
  <2> HIDE DEF E
  <2> QED BY <2>4
<1>4. h = [i \in 0..n |-> E(h, i)]
  <2> HIDE DEF E
  <2> QED BY <1>3
<1> HIDE DEF h
<1>5. h[0] = t /\ \A i \in 1..n : h[i] = DevFeed(h[i - 1])
  <2>1. \A i \in 0..n : h[i] = E(h, i)
    <3> HIDE DEF E
    <3> QED BY <1>4
  <2>2. 0 \in 0..n /\ \A i \in 1..n : i \in 0..n /\ i # 0
    OBVIOUS
  <2> QED BY <2>1, <2>2
<1> HIDE DEF E, g
<1> DEFINE P(k) == Stands(V, t, h[k], t.row + k, t.col, k = 0 /\ t.wrap, t.slid)
           N == {k \in Nat : k <= n => P(k)}
<1>6. 0 \in N
  <2>1. P(0)
    BY <1>5, TerminalHas DEF Stands
  <2> QED BY <2>1
<1>7. ASSUME NEW k \in Nat, k \in N PROVE k + 1 \in N
  <2> SUFFICES ASSUME k + 1 <= n PROVE P(k + 1)
    OBVIOUS
  <2>1. k + 1 \in 1..n /\ (k + 1) - 1 = k /\ k <= n
    OBVIOUS
  <2> DEFINE u == h[k]
  <2>2. h[k + 1] = DevFeed(u) /\ P(k)
    BY <1>5, <1>7, <2>1
  <2>3. Stands(V, t, u, t.row + k, t.col, k = 0 /\ t.wrap, t.slid)
    BY <2>2
  <2> HIDE DEF u
  <2>4. u \in Terminals(V)
    BY <2>3 DEF Stands
  <2>5. u.row # Bottom => Stands(V, u, DevFeed(u), IF u.row < Rows - 1 THEN u.row + 1 ELSE u.row, u.col, FALSE, u.slid)
    BY <2>4, DevFeedIs
  <2>6. t.row \in 0..(Rows - 1) /\ t.col \in 0..(Cols - 1) /\ t.wrap \in BOOLEAN /\ t.slid \in BOOLEAN
    BY TerminalHas
  <2> DEFINE x == DevFeed(u)
  <2> HIDE DEF x
  <2>7. Stands(V, t, x, t.row + (k + 1), t.col, k + 1 = 0 /\ t.wrap, t.slid)
    <3>1. x \in Terminals(V) /\ x.row = t.row + (k + 1) /\ x.col = t.col /\ x.trow = t.trow /\ x.tcol = t.tcol
      BY <2>1, <2>3, <2>5, <2>6, Sizes DEF Stands, x
    <3>2. x.wrap = FALSE /\ x.slid = (u.slid)
      BY <2>1, <2>3, <2>5, <2>6, Sizes DEF Stands, x
    <3>3. (k + 1 = 0 /\ t.wrap) = FALSE
      OBVIOUS
    <3>4. (u.slid) = (t.slid)
      <4>1. (u.wrap <=> (k = 0 /\ t.wrap)) /\ (u.slid <=> (t.slid))
        BY <2>3, <2>6 DEF Stands
      <4>2. u.wrap \in BOOLEAN /\ u.slid \in BOOLEAN
        BY <2>4, TerminalHas
      <4> QED BY <2>1, <2>6, <4>1, <4>2
    <3> QED BY <3>1, <3>2, <3>3, <3>4 DEF Stands
  <2> QED BY <2>2, <2>7 DEF x
<1>8. Nat \subseteq N
  <2> HIDE DEF N
  <2> QED BY <1>6, <1>7, Natural
<1> QED BY <1>1, <1>8

-----------------------------------------------------------------------------
(* What term.c believes.                                                   *)

\* The cursor is where it is taken to be; after a slide, one column before.
Sound(t) ==
    /\ t.wrap => t.col = Cols - 1
    /\ t.tcol >= -1 /\ (t.trow = -1 <=> t.tcol = -1)
    /\ Known(t) => t.row = t.trow
    /\ Known(t) /\ t.slid => ~ t.wrap /\ t.tcol = t.col + 1
    /\ Known(t) /\ ~ t.slid => t.tcol = IF t.wrap THEN Cols ELSE t.col

\* It is sound, and taken to be there.
Placed(V, t, r, c) == t \in Terminals(V) /\ Sound(t) /\ t.trow = r /\ t.tcol = c

(* A sound terminal tracks its cursor but for a slide.                     *)
LEMMA SoundTracks ==
    ASSUME NEW V, NEW t \in Terminals(V), Sound(t), ~ t.slid
    PROVE  Tracked(t)
BY DEF Sound, Tracked

(* At the beginning of a row nothing is uncertain.                         *)
LEMMA AtRowStart ==
    ASSUME NEW V, NEW t, NEW r \in 0..(Rows - 1), Placed(V, t, r, 0)
    PROVE  t.row = r /\ t.col = 0 /\ ~ t.wrap /\ ~ t.slid
<1>1. t \in Terminals(V) /\ Known(t)
  BY DEF Placed, Known
<1>2. t.col \in Nat /\ t.wrap \in BOOLEAN /\ t.slid \in BOOLEAN
  BY <1>1, TerminalHas
<1> QED BY <1>1, <1>2, Sizes DEF Placed, Sound

(* Noting where the cursor is.                                             *)
LEMMA BelievedIs ==
    ASSUME NEW V, NEW t \in Terminals(V), NEW r \in -1..(Rows - 1), NEW c \in Int
    PROVE  /\ Believed(t, r, c) \in Terminals(V)
           /\ Believed(t, r, c).row = t.row /\ Believed(t, r, c).col = t.col
           /\ Believed(t, r, c).wrap = t.wrap /\ Believed(t, r, c).slid = t.slid
           /\ Believed(t, r, c).trow = r /\ Believed(t, r, c).tcol = c
           /\ Believed(t, r, c).cells = t.cells
BY DEF Believed, Terminals

(* What makes the belief true.                                             *)
LEMMA BelievedSound ==
    ASSUME NEW V, NEW t \in Terminals(V), NEW r \in 0..(Rows - 1), NEW c \in 0..(Cols - 1),
           t.row = r, ~ t.wrap, t.col = IF t.slid THEN c - 1 ELSE c
    PROVE  Placed(V, Believed(t, r, c), r, c)
<1> DEFINE u == Believed(t, r, c)
<1>1. /\ u \in Terminals(V) /\ u.row = t.row /\ u.col = t.col /\ u.wrap = t.wrap /\ u.slid = t.slid
      /\ u.trow = r /\ u.tcol = c
  BY BelievedIs, Sizes
<1> HIDE DEF u
<1>2. t.col \in Nat /\ c \in Nat /\ r \in Nat
  BY TerminalHas, Sizes
<1>3. Sound(u)
  BY <1>1, <1>2 DEF Sound, Known
<1> QED BY <1>1, <1>3 DEF Placed, u

(* term_goto takes the cursor there, whichever bytes it chooses to send,   *)
(* and what it believes stays sound (term.c:169-235).                      *)
THEOREM GotoArrives ==
    ASSUME NEW V, Blank \in V, NEW t \in Terminals(V), Sound(t),
           NEW r \in 0..(Rows - 1), NEW c \in 0..(Cols - 1)
    PROVE  Placed(V, Goto(t, r, c), r, c)
<1> DEFINE dc == c - t.tcol
           same == Known(t) /\ r = t.trow
           m == CASE Known(t) /\ r = t.trow /\ c = 0                  -> DevReturn(t)
                  [] Known(t) /\ r = t.trow /\ c > 0 /\ -dc \in 1..6 -> Repeat(DevBack, -dc, t)
                  [] Known(t) /\ r = t.trow /\ c > 0 /\ dc \in 1..2   -> Repeat(DevRight, dc, t)
                  [] Known(t) /\ CheapDown(t, r, c)                   -> Feeds(t, r - t.trow)
                  [] OTHER                                            -> DevGoto(t, r, c)
<1>0. /\ t.row \in 0..(Rows - 1) /\ t.col \in 0..(Cols - 1) /\ t.wrap \in BOOLEAN /\ t.slid \in BOOLEAN
      /\ t.trow \in -1..(Rows - 1) /\ t.tcol \in Int /\ Rows \in Nat /\ Cols \in Nat /\ Cols >= 2
  BY TerminalHas, Sizes
<1>1. Goto(t, r, c) = IF r = t.trow /\ c = t.tcol THEN t ELSE Believed(m, r, c)
  BY DEF Goto
<1>2. CASE r = t.trow /\ c = t.tcol
  BY <1>1, <1>2 DEF Placed
<1>3. CASE ~ (r = t.trow /\ c = t.tcol)
  <2> DEFINE Good(u) == u \in Terminals(V) /\ u.row = r /\ ~ u.wrap /\ u.col = IF u.slid THEN c - 1 ELSE c
  <2>0. /\ same /\ c = 0 => m = DevReturn(t)
        /\ same /\ c > 0 /\ -dc \in 1..6 => m = Repeat(DevBack, -dc, t)
        /\ same /\ c > 0 /\ dc \in 1..2 => m = Repeat(DevRight, dc, t)
        /\ ~ (same /\ (c = 0 \/ (c > 0 /\ (-dc \in 1..6 \/ dc \in 1..2)))) /\ Known(t) /\ CheapDown(t, r, c)
             => m = Feeds(t, r - t.trow)
        /\ ~ (same /\ (c = 0 \/ (c > 0 /\ (-dc \in 1..6 \/ dc \in 1..2)))) /\ ~ (Known(t) /\ CheapDown(t, r, c))
             => m = DevGoto(t, r, c)
    <3>1. same /\ c = 0 => m = DevReturn(t)
      BY <1>0 DEF CheapDown
    <3>2. same /\ c > 0 /\ -dc \in 1..6 => m = Repeat(DevBack, -dc, t)
      BY <1>0 DEF CheapDown
    <3>3. same /\ c > 0 /\ dc \in 1..2 => m = Repeat(DevRight, dc, t)
      BY <1>0 DEF CheapDown
    <3>4. ~ (same /\ (c = 0 \/ (c > 0 /\ (-dc \in 1..6 \/ dc \in 1..2)))) /\ Known(t) /\ CheapDown(t, r, c)
             => m = Feeds(t, r - t.trow)
      BY <1>0 DEF CheapDown
    <3>5. ~ (same /\ (c = 0 \/ (c > 0 /\ (-dc \in 1..6 \/ dc \in 1..2)))) /\ ~ (Known(t) /\ CheapDown(t, r, c))
             => m = DevGoto(t, r, c)
      BY <1>0 DEF CheapDown
    <3> HIDE DEF m, same, dc
    <3> QED BY <3>1, <3>2, <3>3, <3>4, <3>5
  <2> HIDE DEF m
  <2> SUFFICES Good(m)
    <3>1. ASSUME Good(m) PROVE Placed(V, Believed(m, r, c), r, c)
      BY <3>1, BelievedSound
    <3> QED BY <1>1, <1>3, <3>1
  <2>1. CASE same /\ c = 0
    <3>1. m = DevReturn(t)
      BY <2>0, <2>1
    <3>2. Stands(V, t, DevReturn(t), t.row, 0, FALSE, FALSE) /\ t.row = r
      BY <2>1, DevReturnIs DEF Sound
    <3>3. Good(DevReturn(t))
      BY <3>2, <2>1 DEF Stands
    <3> QED BY <3>1, <3>3
  <2>2. CASE same /\ c > 0 /\ -dc \in 1..6
    <3>1. m = Repeat(DevBack, -dc, t)
      BY <2>0, <2>2
    <3> DEFINE n == -dc
    <3>2. n \in Nat /\ n > 0 /\ t.row = r /\ n = t.tcol - c
      BY <2>2, <1>0 DEF Sound
    <3>3. n <= t.col /\ (t.col - n = IF t.slid \/ t.wrap THEN c - 1 ELSE c)
      BY <2>2, <3>2, <1>0 DEF Sound
    <3>8. m = Repeat(DevBack, n, t)
      BY <3>1
    <3> HIDE DEF n
    <3>4. Stands(V, t, Repeat(DevBack, n, t), t.row, t.col - n, n = 0 /\ t.wrap, t.slid \/ (n > 0 /\ t.wrap))
      BY <3>2, <3>3, BacksIs
    <3> DEFINE u == Repeat(DevBack, n, t)
    <3>9. m = u
      BY <3>8
    <3> HIDE DEF u
    <3>5. u \in Terminals(V) /\ u.row = r /\ u.col = t.col - n
      BY <3>2, <3>4 DEF Stands, u
    <3>6. ~ u.wrap /\ (u.slid <=> (t.slid \/ t.wrap))
      <4>1. u.wrap = (n = 0 /\ t.wrap) /\ u.slid = (t.slid \/ (n > 0 /\ t.wrap))
        BY <3>4 DEF Stands, u
      <4>2. ~ (n = 0 /\ t.wrap) /\ n > 0
        BY <3>2
      <4> QED BY <4>1, <4>2
    <3>7. Good(u)
      BY <3>3, <3>5, <3>6
    <3> QED BY <3>9, <3>7
  <2>3. CASE same /\ c > 0 /\ dc \in 1..2
    <3>1. m = Repeat(DevRight, dc, t)
      BY <2>0, <2>3
    <3> DEFINE n == dc
    <3>2. n \in Nat /\ n > 0 /\ t.row = r /\ n = c - t.tcol
      BY <2>3, <1>0 DEF Sound
    <3>3. ~ t.wrap /\ t.col + n <= Cols - 1 /\ (t.col + n = IF t.slid THEN c - 1 ELSE c)
      BY <2>3, <3>2, <1>0 DEF Sound
    <3>8. m = Repeat(DevRight, n, t)
      BY <3>1
    <3> HIDE DEF n
    <3>4. Stands(V, t, Repeat(DevRight, n, t), t.row, t.col + n, n = 0 /\ t.wrap, t.slid)
      BY <3>2, <3>3, RightsIs
    <3> DEFINE u == Repeat(DevRight, n, t)
    <3>9. m = u
      BY <3>8
    <3> HIDE DEF u
    <3>5. u \in Terminals(V) /\ u.row = r /\ u.col = t.col + n
      BY <3>2, <3>4 DEF Stands, u
    <3>6. ~ u.wrap /\ (u.slid <=> t.slid)
      <4>1. u.wrap = (n = 0 /\ t.wrap) /\ u.slid = t.slid
        BY <3>4 DEF Stands, u
      <4>2. ~ (n = 0 /\ t.wrap)
        BY <3>2
      <4> QED BY <4>1, <4>2
    <3>7. Good(u)
      BY <3>3, <3>5, <3>6
    <3> QED BY <3>9, <3>7
  <2>4. CASE ~ (same /\ (c = 0 \/ (c > 0 /\ (-dc \in 1..6 \/ dc \in 1..2)))) /\ Known(t) /\ CheapDown(t, r, c)
    <3>1. m = Feeds(t, r - t.trow)
      BY <2>0, <2>4
    <3> DEFINE n == r - t.trow
               v == IF t.tcol # 0 THEN DevReturn(t) ELSE t
    <3>2. n \in Nat /\ n > 0 /\ t.row + n = r /\ r <= Bottom /\ c = 0
      BY <2>4, <1>0 DEF Sound, CheapDown
    <3>3. v \in Terminals(V) /\ v.row = t.row /\ v.col = 0 /\ ~ v.wrap /\ ~ v.slid
      <4>1. CASE t.tcol # 0
        BY <4>1, DevReturnIs DEF Stands
      <4>2. CASE t.tcol = 0
        BY <4>2, <2>4, <1>0 DEF Sound, Known
      <4> QED BY <4>1, <4>2
    <3>4. Feeds(t, n) = Repeat(DevFeed, n, v)
      BY DEF Feeds
    <3> HIDE DEF n, v
    <3>5. Stands(V, v, Repeat(DevFeed, n, v), v.row + n, v.col, n = 0 /\ v.wrap, v.slid)
      BY <3>2, <3>3, FeedsIs
    <3> DEFINE u == Repeat(DevFeed, n, v)
    <3> HIDE DEF u
    <3>6. u \in Terminals(V) /\ u.row = r /\ u.col = 0
      BY <3>2, <3>3, <3>5 DEF Stands, u
    <3>7. ~ u.wrap /\ ~ u.slid
      BY <3>2, <3>3, <3>5 DEF Stands, u
    <3>8. Good(u)
      BY <3>2, <3>6, <3>7
    <3> QED BY <3>1, <3>4, <3>8 DEF u, n
  <2>5. CASE ~ (same /\ (c = 0 \/ (c > 0 /\ (-dc \in 1..6 \/ dc \in 1..2)))) /\ ~ (Known(t) /\ CheapDown(t, r, c))
    <3>1. m = DevGoto(t, r, c)
      BY <2>0, <2>5
    <3>2. Stands(V, t, DevGoto(t, r, c), r, c, FALSE, FALSE)
      BY DevGotoIs
    <3>3. Good(DevGoto(t, r, c))
      BY <3>2 DEF Stands
    <3> QED BY <3>1, <3>3
  <2> QED BY <2>1, <2>2, <2>3, <2>4, <2>5
<1> QED BY <1>2, <1>3

-----------------------------------------------------------------------------
(* Characters, and rows of them.                                           *)

\* f is what comes of p, the i-th time by g[i].
Stepwise(f, g, S, m, p) ==
    f \in [0..m -> S] /\ f[0] = p /\ \A i \in 1..m : f[i] = g[i][f[i - 1]]

(* There is such a function.                                               *)
LEMMA Stages ==
    ASSUME NEW S, NEW m \in Nat, NEW p \in S, NEW g, g \in [1..m -> [S -> S]]
    PROVE  \E f : Stepwise(f, g, S, m, p)
<1> DEFINE Q(k, f) == f[0] = p /\ \A i \in 1..k : f[i] = g[i][f[i - 1]]
           N == {k \in Nat : k <= m => \E f \in [0..k -> S] : Q(k, f)}
<1>1. 0 \in N
  <2> DEFINE f == [i \in 0..0 |-> p]
  <2>1. f \in [0..0 -> S] /\ Q(0, f)
    OBVIOUS
  <2> HIDE DEF f, Q
  <2> QED BY <2>1
<1>2. ASSUME NEW k \in Nat, k \in N PROVE k + 1 \in N
  <2> SUFFICES ASSUME k + 1 <= m PROVE \E f \in [0..(k + 1) -> S] : Q(k + 1, f)
    OBVIOUS
  <2>1. PICK f \in [0..k -> S] : Q(k, f)
    BY <1>2
  <2> DEFINE h == [i \in 0..(k + 1) |-> IF i = k + 1 THEN g[k + 1][f[k]] ELSE f[i]]
  <2>2. f[k] \in S /\ g[k + 1][f[k]] \in S
    <3>1. k + 1 \in 1..m /\ k \in 0..k
      OBVIOUS
    <3>2. g[k + 1] \in [S -> S]
      BY <3>1
    <3> QED BY <3>1, <3>2
  <2>3. h \in [0..(k + 1) -> S]
    BY <2>2
  <2>4. h[k + 1] = g[k + 1][f[k]] /\ \A i \in 0..k : h[i] = f[i]
    OBVIOUS
  <2> HIDE DEF h
  <2>5. ASSUME NEW i \in 1..(k + 1) PROVE h[i] = g[i][h[i - 1]]
    <3>1. CASE i = k + 1
      <4>1. h[i] = g[i][f[k]] /\ h[i - 1] = f[k]
        BY <3>1, <2>4
      <4> QED BY <4>1
    <3>2. CASE i \in 1..k
      <4>1. h[i] = f[i] /\ h[i - 1] = f[i - 1] /\ f[i] = g[i][f[i - 1]]
        BY <3>2, <2>4, <2>1
      <4> QED BY <4>1
    <3> QED BY <3>1, <3>2
  <2>6. h[0] = p
    BY <2>4, <2>1
  <2>7. Q(k + 1, h)
    BY <2>5, <2>6
  <2> HIDE DEF Q
  <2> QED BY <2>3, <2>7
<1>3. Nat \subseteq N
  <2> HIDE DEF N
  <2> QED BY <1>1, <1>2, Natural
<1>4. m \in N
  BY <1>3
<1> QED BY <1>4 DEF Stepwise

(* A character printed, and counted, before the last column is passed.     *)
LEMMA PutCharIs ==
    ASSUME NEW V, Blank \in V, NEW t \in Terminals(V), NEW ch \in V
    PROVE  /\ PutChar(t, ch) \in Terminals(V)
           /\ PutChar(t, ch).trow = t.trow
           /\ PutChar(t, ch).tcol = IF t.tcol >= 0 THEN t.tcol + 1 ELSE t.tcol
           /\ Sound(t) /\ (Known(t) => t.tcol <= Cols - 1) => Sound(PutChar(t, ch))
<1> DEFINE d == DevPrint(t, ch)
           u == PutChar(t, ch)
           c == IF t.tcol >= 0 THEN t.tcol + 1 ELSE t.tcol
<1>1. d \in Terminals(V) /\ d.trow = t.trow /\ d.tcol = t.tcol /\ (d.wrap => d.col = Cols - 1)
  <2>1. d \in Terminals(V) /\ d.trow = t.trow /\ d.tcol = t.tcol
    BY DevPrintIs
  <2>2. d.wrap => d.col = Cols - 1
    BY DevPrintIs
  <2> QED BY <2>1, <2>2
<1>2. ~ t.wrap => Stands(V, t, d, t.row, IF t.col < Cols - 1 THEN t.col + 1 ELSE t.col, t.col = Cols - 1, t.slid)
  BY DevPrintIs
<1>3. u = [d EXCEPT !.tcol = c]
  <2>1. u = [d EXCEPT !.tcol = IF d.tcol >= 0 THEN d.tcol + 1 ELSE d.tcol]
    BY DEF PutChar
  <2> HIDE DEF d, u
  <2> QED BY <2>1, <1>1
<1>4. t.tcol \in Int /\ t.col \in 0..(Cols - 1) /\ t.trow \in -1..(Rows - 1) /\ Cols \in Nat
  BY TerminalHas, Sizes
<1>5. c \in Int
  BY <1>4
<1> HIDE DEF d, u, c
<1>6. /\ u \in Terminals(V) /\ u.row = d.row /\ u.col = d.col /\ u.wrap = d.wrap /\ u.slid = d.slid
      /\ u.trow = d.trow /\ u.tcol = c
  BY <1>1, <1>3, <1>5 DEF Terminals
<1>7. ASSUME Sound(t), Known(t) => t.tcol <= Cols - 1 PROVE Sound(u)
  <2>1. CASE Known(t)
    <3>1. ~ t.wrap
      BY <1>7, <2>1, <1>4 DEF Sound, Known
    <3>2. /\ d.row = t.row /\ d.col = (IF t.col < Cols - 1 THEN t.col + 1 ELSE t.col)
          /\ d.wrap = (t.col = Cols - 1) /\ d.slid = t.slid
      BY <3>1, <1>2 DEF Stands
    <3>3. u.trow = t.trow /\ u.tcol = t.tcol + 1 /\ Known(u)
      BY <1>1, <1>4, <1>6, <2>1 DEF c, Known
    <3>4. t.row = t.trow /\ (t.slid => t.tcol = t.col + 1) /\ (~ t.slid => t.tcol = t.col)
      BY <1>7, <2>1, <3>1 DEF Sound
    <3>5. (u.wrap <=> t.col = Cols - 1) /\ (u.slid <=> t.slid) /\ u.row = t.row
      BY <1>6, <3>2
    <3>6. u.col = IF t.col < Cols - 1 THEN t.col + 1 ELSE t.col
      BY <1>6, <3>2
    <3>7. u.slid => ~ u.wrap /\ u.tcol = u.col + 1
      BY <1>7, <2>1, <1>4, <3>3, <3>4, <3>5, <3>6
    <3>8. ~ u.slid => u.tcol = IF u.wrap THEN Cols ELSE u.col
      BY <1>4, <3>3, <3>4, <3>5, <3>6
    <3>9. (u.wrap => u.col = Cols - 1) /\ u.tcol >= -1 /\ u.trow # -1 /\ u.tcol # -1 /\ u.row = u.trow
      BY <1>4, <2>1, <3>3, <3>4, <3>5, <3>6 DEF Known
    <3> QED BY <3>7, <3>8, <3>9 DEF Sound
  <2>2. CASE ~ Known(t)
    <3>1. t.tcol = -1 /\ t.trow = -1
      BY <1>7, <2>2, <1>4 DEF Sound, Known
    <3>2. u.tcol = -1 /\ u.trow = -1
      BY <3>1, <1>1, <1>6 DEF c
    <3> QED BY <3>2, <1>1, <1>6 DEF Sound, Known
  <2> QED BY <2>1, <2>2
<1> QED BY <1>1, <1>6, <1>7 DEF c, u

(* Characters printed from the beginning of a row on, no more than fit.    *)
LEMMA PutsIs ==
    ASSUME NEW V, Blank \in V, NEW t, NEW r \in 0..(Rows - 1), Placed(V, t, r, 0),
           NEW s \in Seq(V), Len(s) <= Cols
    PROVE  Placed(V, Puts(t, s), r, Len(s))
<1> DEFINE n == Len(s)
<1>0. n \in Nat /\ n <= Cols /\ \A i \in 1..n : s[i] \in V
  OBVIOUS
<1> DEFINE S == Terminals(V)
           g == [i \in 1..n |-> [q \in S |-> PutChar(q, s[i])]]
           E(f, i) == IF i = 0 THEN t ELSE PutChar(f[i - 1], s[i])
           h == CHOOSE f : f = [i \in 0..n |-> E(f, i)]
<1>1. Puts(t, s) = h[n]
  BY DEF Puts
<1>2. t \in S /\ \A i \in 1..n : \A q \in S : PutChar(q, s[i]) \in S
  BY <1>0, PutCharIs DEF Placed
<1> HIDE DEF S
<1>3. \E f : f = [i \in 0..n |-> E(f, i)]
  <2>1. g \in [1..n -> [S -> S]]
    BY <1>2
  <2>2. \A i \in 1..n : \A q \in S : g[i][q] = PutChar(q, s[i])
    OBVIOUS
  <2> HIDE DEF g
  <2>3. PICK f : Stepwise(f, g, S, n, t)
    BY <1>0, <2>1, <1>2, Stages
  <2>4. ASSUME NEW i \in 0..n PROVE f[i] = E(f, i)
    <3>1. CASE i = 0
      BY <3>1, <2>3 DEF Stepwise
    <3>2. CASE i # 0
      <4>1. i \in 1..n /\ i - 1 \in 0..n
        BY <3>2
      <4>2. f[i - 1] \in S /\ f[i] = g[i][f[i - 1]]
        BY <4>1, <2>3 DEF Stepwise
      <4>3. f[i] = PutChar(f[i - 1], s[i])
        BY <4>1, <4>2, <2>2
      <4> QED BY <4>3, <3>2
    <3> QED BY <3>1, <3>2
  <2>5. f = [i \in 0..n |-> E(f, i)]
    <3>1. f = [i \in 0..n |-> f[i]]
      BY <2>3 DEF Stepwise
    <3> HIDE DEF E
    <3> QED BY <2>4, <3>1
  <2> HIDE DEF E
  <2> QED BY <2>5
<1>4. h = [i \in 0..n |-> E(h, i)]
  <2> HIDE DEF E
  <2> QED BY <1>3
<1> HIDE DEF h
<1>5. h[0] = t /\ \A i \in 1..n : h[i] = PutChar(h[i - 1], s[i])
  <2>1. \A i \in 0..n : h[i] = E(h, i)
    <3> HIDE DEF E
    <3> QED BY <1>4
  <2>2. 0 \in 0..n /\ \A i \in 1..n : i \in 0..n /\ i # 0
    OBVIOUS
  <2> QED BY <2>1, <2>2
<1> HIDE DEF E, g
<1> DEFINE N == {k \in Nat : k <= n => Placed(V, h[k], r, k)}
<1>6. 0 \in N
  BY <1>5
<1>7. ASSUME NEW k \in Nat, k \in N PROVE k + 1 \in N
  <2> SUFFICES ASSUME k + 1 <= n PROVE Placed(V, h[k + 1], r, k + 1)
    OBVIOUS
  <2>1. k + 1 \in 1..n /\ (k + 1) - 1 = k /\ k <= n
    BY <1>0
  <2> DEFINE u == h[k]
             ch == s[k + 1]
  <2>2. h[k + 1] = PutChar(u, ch) /\ Placed(V, u, r, k) /\ ch \in V
    BY <1>0, <1>5, <1>7, <2>1
  <2> HIDE DEF u, ch
  <2>3. u \in Terminals(V) /\ Sound(u) /\ u.tcol <= Cols - 1 /\ u.tcol >= 0 /\ u.tcol = k /\ u.trow = r
    BY <1>0, <2>1, <2>2, Sizes DEF Placed
  <2>4. /\ PutChar(u, ch) \in Terminals(V) /\ PutChar(u, ch).trow = r /\ PutChar(u, ch).tcol = k + 1
        /\ Sound(PutChar(u, ch))
    BY <2>2, <2>3, PutCharIs
  <2> QED BY <2>2, <2>4 DEF Placed
<1>8. Nat \subseteq N
  <2> HIDE DEF N
  <2> QED BY <1>6, <1>7, Natural
<1>9. Placed(V, h[n], r, n)
  BY <1>0, <1>8
<1> QED BY <1>1, <1>9

-----------------------------------------------------------------------------
(* Rows drawn.                                                             *)

Glyphs   == Letters \cup {Blank, Message, Mark}
Tracking == {t \in Terminals(Glyphs) : Sound(t)}

(* What is drawn.                                                          *)
LEMMA GlyphsAre ==
    /\ Blank \in Glyphs /\ Letters \subseteq Glyphs
    /\ <<Message>> \in Seq(Glyphs) /\ <<Mark>> \in Seq(Glyphs) /\ << >> \in Seq(Glyphs)
    /\ Len(<<Message>>) <= Cols /\ Len(<<Mark>>) <= Cols /\ Len(<< >>) <= Cols
    /\ \A s : s \in Seq(Letters) => s \in Seq(Glyphs)
<1>1. Blank \in Glyphs /\ Letters \subseteq Glyphs /\ Message \in Glyphs /\ Mark \in Glyphs
  BY DEF Glyphs
<1> QED BY <1>1, Sizes

(* A placed cursor is a tracked one.                                       *)
LEMMA PlacedIn ==
    ASSUME NEW t, NEW r, NEW c, Placed(Glyphs, t, r, c)
    PROVE  t \in Tracking
BY DEF Placed, Tracking

(* A row cleared from its beginning on.                                    *)
LEMMA ClearedIs ==
    ASSUME NEW t \in Tracking, NEW r \in 0..(Rows - 1)
    PROVE  Placed(Glyphs, ClrEol(Goto(t, r, 0)), r, 0)
<1> DEFINE u == Goto(t, r, 0)
           v == DevClrEol(u)
<1>1. t \in Terminals(Glyphs) /\ Sound(t) /\ 0 \in 0..(Cols - 1) /\ Blank \in Glyphs
  BY GlyphsAre, Sizes DEF Tracking
<1>2. Placed(Glyphs, u, r, 0)
  BY <1>1, GotoArrives
<1> HIDE DEF u
<1>3. u \in Terminals(Glyphs) /\ u.row = r /\ u.col = 0 /\ ~ u.slid /\ u.trow = r /\ u.tcol = 0
  BY <1>2, AtRowStart DEF Placed
<1>4. Stands(Glyphs, u, v, u.row, u.col, FALSE, u.slid)
  BY <1>1, <1>3, DevClrEolIs
<1> HIDE DEF v
<1>5. v \in Terminals(Glyphs) /\ v.row = r /\ v.col = 0 /\ ~ v.wrap /\ ~ v.slid /\ v.trow = r /\ v.tcol = 0
  BY <1>3, <1>4 DEF Stands
<1>6. r \in Nat
  BY Sizes
<1>7. Sound(v)
  BY <1>5, <1>6 DEF Sound
<1>8. Placed(Glyphs, v, r, 0)
  BY <1>5, <1>7 DEF Placed
<1> QED BY <1>8 DEF u, v, ClrEol

(* The characters of a row fit.                                            *)
LEMMA RowCharsIs ==
    ASSUME NEW t \in Seq(Letters), NEW p \in Nat, p < Len(t)
    PROVE  RowChars(t, p) \in Seq(Glyphs) /\ Len(RowChars(t, p)) <= Cols
<1> DEFINE q == Min({Eol(t, p), p + Cols})
<1>0. Eol(t, p) \in 0..Len(t) /\ (p <= Len(t) => p <= Eol(t, p))
  BY LineEnds
<1>1. Eol(t, p) \in 0..Len(t) /\ p <= Eol(t, p) /\ Len(t) \in Nat /\ Cols \in Nat
  BY <1>0, Sizes
<1>2. q = IF Eol(t, p) <= p + Cols THEN Eol(t, p) ELSE p + Cols
  BY <1>1, OfTwo
<1>3. q \in Nat /\ q <= Len(t) /\ p <= q /\ q - p <= Cols
  BY <1>1, <1>2
<1> HIDE DEF q
<1>4. SubSeq(t, p + 1, q) \in Seq(Letters) /\ Len(SubSeq(t, p + 1, q)) = q - p
  BY <1>1, <1>3
<1>5. RowChars(t, p) = SubSeq(t, p + 1, q)
  BY DEF RowChars, q
<1> QED BY <1>3, <1>4, <1>5, GlyphsAre

(* draw_row_at.                                                            *)
LEMMA DrawRowIs ==
    ASSUME NEW tm \in Tracking, NEW t \in Seq(Letters), NEW row \in 0..(Rows - 1), NEW p \in Nat
    PROVE  DrawRow(tm, t, row, p) \in Tracking
<1> DEFINE u == ClrEol(Goto(tm, row, 0))
           s == IF p < Len(t) THEN RowChars(t, p) ELSE IF row > 0 THEN <<Mark>> ELSE << >>
<1>1. Placed(Glyphs, u, row, 0) /\ Blank \in Glyphs
  BY ClearedIs, GlyphsAre
<1>2. s \in Seq(Glyphs) /\ Len(s) <= Cols
  BY RowCharsIs, GlyphsAre
<1>3. DrawRow(tm, t, row, p) = Puts(u, s)
  BY DEF DrawRow
<1> HIDE DEF u, s
<1>4. Placed(Glyphs, Puts(u, s), row, Len(s))
  BY <1>1, <1>2, PutsIs
<1> QED BY <1>3, <1>4, PlacedIn

(* The status line.                                                        *)
LEMMA StatusIs ==
    ASSUME NEW tm \in Tracking, NEW s \in {<<Message>>, << >>}
    PROVE  Puts(ClrEol(Goto(tm, Rows - 1, 0)), s) \in Tracking
<1> DEFINE u == ClrEol(Goto(tm, Rows - 1, 0))
<1>1. Rows - 1 \in 0..(Rows - 1) /\ Blank \in Glyphs
  BY Sizes, GlyphsAre
<1>2. Placed(Glyphs, u, Rows - 1, 0)
  BY <1>1, ClearedIs
<1>3. s \in Seq(Glyphs) /\ Len(s) <= Cols
  BY GlyphsAre
<1> HIDE DEF u
<1>4. Placed(Glyphs, Puts(u, s), Rows - 1, Len(s))
  BY <1>1, <1>2, <1>3, PutsIs
<1> QED BY <1>4, PlacedIn DEF u

(* The terminal scrolls itself.                                            *)
LEMMA ScrolledIs ==
    ASSUME NEW t \in Tracking
    PROVE  ScrollUp(t) \in Tracking /\ ScrollDn(t) \in Tracking
<1>0. t \in Terminals(Glyphs) /\ Sound(t) /\ 0 \in 0..(Cols - 1) /\ Blank \in Glyphs
      /\ 0 \in 0..(Rows - 1) /\ Bottom \in 0..(Rows - 1)
  BY GlyphsAre, Sizes DEF Tracking
<1>1. ScrollUp(t) \in Tracking
  <2> DEFINE u == Goto(t, Bottom, 0)
             v == DevFeed(u)
  <2>1. Placed(Glyphs, u, Bottom, 0)
    BY <1>0, GotoArrives
  <2> HIDE DEF u
  <2>2. u \in Terminals(Glyphs) /\ u.row = Bottom /\ u.col = 0 /\ ~ u.slid
    BY <1>0, <2>1, AtRowStart DEF Placed
  <2>3. Stands(Glyphs, u, v, Bottom, u.col, FALSE, u.slid)
    BY <1>0, <2>2, DevFeedIs
  <2> HIDE DEF v
  <2>4. v \in Terminals(Glyphs) /\ v.row = Bottom /\ v.col = 0 /\ ~ v.wrap /\ ~ v.slid
    BY <2>2, <2>3 DEF Stands
  <2>5. Placed(Glyphs, Believed(v, Bottom, 0), Bottom, 0)
    BY <1>0, <2>4, BelievedSound
  <2> QED BY <2>5, PlacedIn DEF u, v, ScrollUp
<1>2. ScrollDn(t) \in Tracking
  <2> DEFINE u == Goto(t, 0, 0)
             v == DevReverse(u)
  <2>1. Placed(Glyphs, u, 0, 0)
    BY <1>0, GotoArrives
  <2> HIDE DEF u
  <2>2. u \in Terminals(Glyphs) /\ u.row = 0 /\ u.col = 0 /\ ~ u.slid
    BY <1>0, <2>1, AtRowStart DEF Placed
  <2>3. Stands(Glyphs, u, v, u.row, u.col, FALSE, u.slid)
    BY <1>0, <2>2, DevReverseIs
  <2> HIDE DEF v
  <2>4. v \in Terminals(Glyphs) /\ v.row = 0 /\ v.col = 0 /\ ~ v.wrap /\ ~ v.slid
    BY <2>2, <2>3 DEF Stands
  <2>5. Placed(Glyphs, Believed(v, 0, 0), 0, 0)
    BY <1>0, <2>4, BelievedSound
  <2> QED BY <2>5, PlacedIn DEF u, v, ScrollDn
<1> QED BY <1>1, <1>2

-----------------------------------------------------------------------------
(* Rows of the text.                                                       *)

(* The next row.                                                           *)
LEMMA NextVrowIn ==
    ASSUME NEW t \in Seq(Letters), NEW p \in Nat
    PROVE  NextVrow(t, p) \in Nat
<1>0. Eol(t, p) \in 0..Len(t)
  BY LineEnds
<1>1. Eol(t, p) \in 0..Len(t) /\ Len(t) \in Nat /\ Cols \in Nat
  BY <1>0, Sizes
<1>2. Eol(t, p) \in Nat /\ Eol(t, p) + 1 \in Int
  BY <1>1
<1>3. Min({Eol(t, p) + 1, Len(t)}) = IF Eol(t, p) + 1 <= Len(t) THEN Eol(t, p) + 1 ELSE Len(t)
  BY <1>1, <1>2, OfTwo
<1> QED BY <1>1, <1>2, <1>3 DEF NextVrow

(* A row further on.                                                       *)
LEMMA RowAtIn ==
    ASSUME NEW t \in Seq(Letters), NEW p \in Nat, NEW n \in Nat
    PROVE  RowAt(t, p, n) \in Nat
<1> DEFINE S == Nat
           g == [q \in S |-> NextVrow(t, q)]
           E(f, i) == IF i = 0 THEN p ELSE NextVrow(t, f[i - 1])
           h == CHOOSE f : f = [i \in 0..n |-> E(f, i)]
<1>1. RowAt(t, p, n) = h[n]
  BY DEF RowAt, Times
<1>2. p \in S /\ \A q \in S : NextVrow(t, q) \in S
  BY NextVrowIn
<1> HIDE DEF S
<1>3. \E f : f = [i \in 0..n |-> E(f, i)]
  <2>1. g \in [S -> S]
    BY <1>2
  <2> HIDE DEF g
  <2>2. PICK f : Follows(f, g, S, n, p)
    BY <2>1, <1>2, Repeats
  <2>3. ASSUME NEW i \in 0..n PROVE f[i] = E(f, i)
    <3>1. CASE i = 0
      BY <3>1, <2>2 DEF Follows
    <3>2. CASE i # 0
      <4>1. i \in 1..n /\ i - 1 \in 0..n
        BY <3>2
      <4>2. f[i - 1] \in S /\ f[i] = g[f[i - 1]]
        BY <4>1, <2>2 DEF Follows
      <4>3. f[i] = NextVrow(t, f[i - 1])
        BY <4>2 DEF g
      <4> QED BY <4>3, <3>2
    <3> QED BY <3>1, <3>2
  <2>4. f = [i \in 0..n |-> E(f, i)]
    <3>1. f = [i \in 0..n |-> f[i]]
      BY <2>2 DEF Follows
    <3> HIDE DEF E
    <3> QED BY <2>3, <3>1
  <2> HIDE DEF E
  <2> QED BY <2>4
<1>4. h = [i \in 0..n |-> E(h, i)]
  <2> HIDE DEF E
  <2> QED BY <1>3
<1> HIDE DEF h
<1>5. h[0] = p /\ \A i \in 1..n : h[i] = NextVrow(t, h[i - 1])
  <2>1. \A i \in 0..n : h[i] = E(h, i)
    <3> HIDE DEF E
    <3> QED BY <1>4
  <2>2. 0 \in 0..n /\ \A i \in 1..n : i \in 0..n /\ i # 0
    OBVIOUS
  <2> QED BY <2>1, <2>2
<1> HIDE DEF E, g
<1>6. h[0] \in S /\ \A i \in 1..n : h[i - 1] \in S => h[i] \in S
  BY <1>2, <1>5
<1>7. h[n] \in S
  BY <1>6, StaysIn
<1> QED BY <1>1, <1>7 DEF S

(* Where a row begins, and the cursor's row counted.                       *)
LEMMA VrowStartIn ==
    ASSUME NEW t \in Seq(Letters), NEW p \in Nat
    PROVE  /\ VrowStart(t, p) \in 0..Len(t)
           /\ p >= Len(t) => VrowStart(t, p) = Len(t)
           /\ p < Len(t) => VrowStart(t, p) \in Bol(t, p)..p
<1> DEFINE b == Bol(t, p)
           l == LastOn(t, b)
           m == Min({p, l})
           a == m - b
<1>0. b \in 0..p
  BY LineEnds
<1>1. Len(t) \in Nat /\ b \in 0..p /\ b \in Nat /\ Cols \in Nat /\ Cols > 0
  BY <1>0, Sizes
<1>2. CASE p >= Len(t)
  BY <1>1, <1>2 DEF VrowStart
<1>3. CASE p < Len(t)
  <2>1. b \in 0..Len(t)
    BY <1>1, <1>3
  <2> HIDE DEF b
  <2>2. l \in b..Len(t)
    BY <2>1, LastOnIn
  <2> HIDE DEF l
  <2>3. m = IF p <= l THEN p ELSE l
    BY <1>1, <2>2, OfTwo
  <2>4. a \in Nat /\ b + a <= p
    BY <1>1, <2>2, <2>3
  <2> HIDE DEF m
  <2>5. VrowStart(t, p) = b + (a \div Cols) * Cols
    BY <1>3, <1>1 DEF VrowStart, b, l, m
  <2> HIDE DEF a
  <2>6. (a \div Cols) * Cols \in 0..a
    <3> DEFINE c == Cols
    <3>1. c \in Nat /\ c > 0
      BY <1>1
    <3> HIDE DEF c
    <3>2. a \div c \in Nat
      BY <2>4, <3>1
    <3>3. (a \div c) * c <= a
      BY <2>4, <3>1
    <3>4. (a \div c) * c \in Nat
      BY <2>4, <3>1, <3>2
    <3> QED BY <2>4, <3>3, <3>4 DEF c
  <2> QED BY <1>1, <1>3, <2>4, <2>5, <2>6 DEF b
<1> QED BY <1>1, <1>2, <1>3

(* How many rows there are.                                                *)
LEMMA RowsInAre ==
    ASSUME NEW t, NEW p, NEW a \in Int, NEW b \in Int, NEW S, S \subseteq a..b
    PROVE  RowsIn(t, p, S) \in Nat
<1> DEFINE R == {q \in S : q >= p /\ IsRow(t, p, q)}
<1>1. IsFiniteSet(a..b)
  BY FS_Interval
<1>2. R \subseteq a..b
  OBVIOUS
<1>3. RowsIn(t, p, S) = Cardinality(R)
  BY DEF RowsIn
<1> HIDE DEF R
<1>4. IsFiniteSet(R)
  BY <1>1, <1>2, FS_Subset
<1> QED BY <1>3, <1>4, FS_CardinalityType

(* Steps over rows.                                                        *)
LEMMA StepsToAre ==
    ASSUME NEW t, NEW p \in Int, NEW q \in Int
    PROVE  StepsTo(t, p, q) \in Nat
<1>1. p \in Int /\ q - 1 \in Int
  OBVIOUS
<1> QED BY <1>1, RowsInAre DEF StepsTo

-----------------------------------------------------------------------------
(* What is drawn of an editor.                                             *)

\* Keys that commands are recorded by.
Keys == InsertCmds \cup Operators \cup OpMotions \cup {"r", "~", "J", None}

UndoRecords == [type : {None, "delete", "insert"}, pos : Nat, len : Nat, was_clean : BOOLEAN,
                text : Seq(Letters)]
YankRecords == [text : Seq(Letters), line : BOOLEAN]
DotRecords  == [cmd : Keys, motion : Keys, count : Nat, arg : Letters \cup {None}, text : Seq(Letters)]

\* Editors with one of these terminals.
Editors(T, P, S) ==
    [text : Seq(Letters), line_cnt : Int, cur_pos : Nat, mode : {"normal", "insert"}, ins : Keys,
     modified : BOOLEAN, cur_vrow : Int, undo : UndoRecords, yank : YankRecords, dot : DotRecords,
     top_pos : P, term : T, status : S]
Drawn == Editors(Tracking, Nat, BOOLEAN)

\* g is e with more or less of it drawn.
Shows(e, g) == g \in Drawn /\ g.text = e.text /\ g.cur_pos = e.cur_pos /\ g.mode = e.mode

\* The cursor is not taken to be in a column behind the editor's.
Settled(e) == Known(e.term) => e.term.tcol <= e.cur_pos - Bol(e.text, e.cur_pos)
Settles(e, g) == Shows(e, g) /\ Settled(g)

(* What an editor is made of.                                              *)
LEMMA DrawnHas ==
    ASSUME NEW e \in Drawn
    PROVE  /\ e.text \in Seq(Letters) /\ Len(e.text) \in Nat /\ e.cur_pos \in Nat
           /\ e.cur_vrow \in Int /\ e.top_pos \in Nat
           /\ e.term \in Tracking /\ e.status \in BOOLEAN /\ e.mode \in {"normal", "insert"}
<1>1. e.text \in Seq(Letters) /\ e.cur_pos \in Nat
           /\ e.cur_vrow \in Int /\ e.top_pos \in Nat
           /\ e.term \in Tracking /\ e.status \in BOOLEAN /\ e.mode \in {"normal", "insert"}
  BY DEF Drawn, Editors
<1> QED BY <1>1

(* One drawing after another.                                              *)
LEMMA ShowsThen ==
    ASSUME NEW e, NEW f, NEW g, Shows(e, f), Shows(f, g)
    PROVE  Shows(e, g)
BY DEF Shows

(* The last one settles the cursor.                                        *)
LEMMA SettlesThen ==
    ASSUME NEW e, NEW f, NEW g, Shows(e, f), Settles(f, g)
    PROVE  Settles(e, g)
BY ShowsThen DEF Settles

(* Another terminal.                                                       *)
LEMMA TermSet ==
    ASSUME NEW e \in Drawn, NEW x \in Tracking, NEW g, g = [e EXCEPT !.term = x]
    PROVE  Shows(e, g) /\ g.term = x /\ g.cur_vrow = e.cur_vrow /\ g.top_pos = e.top_pos
BY DEF Drawn, Editors, Shows

(* Another cached row.                                                     *)
LEMMA RowSet ==
    ASSUME NEW e \in Drawn, NEW v \in Int, NEW g, g = [e EXCEPT !.cur_vrow = v]
    PROVE  Shows(e, g) /\ g.term = e.term /\ g.cur_vrow = v /\ g.top_pos = e.top_pos
BY DEF Drawn, Editors, Shows

(* A message noted or forgotten.                                           *)
LEMMA StatusSet ==
    ASSUME NEW e \in Drawn, NEW b \in BOOLEAN, NEW g, g = [e EXCEPT !.status = b]
    PROVE  Shows(e, g) /\ g.term = e.term
BY DEF Drawn, Editors, Shows

(* The cursor's row.                                                       *)
LEMMA RowOfIn ==
    ASSUME NEW e \in Drawn
    PROVE  RowOf(e) \in Nat
<1>1. e.text \in Seq(Letters) /\ e.cur_pos \in Nat /\ e.cur_vrow \in Int /\ e.top_pos \in Int
  BY DrawnHas
<1> DEFINE q == VrowStart(e.text, e.cur_pos)
<1>2. q \in Int
  BY <1>1, VrowStartIn
<1> HIDE DEF q
<1>3. StepsTo(e.text, e.top_pos, q) \in Nat
  BY <1>1, <1>2, StepsToAre
<1> QED BY <1>1, <1>3 DEF RowOf, q

(* scr_update_cursor.                                                      *)
LEMMA UpdateCursorIs ==
    ASSUME NEW e \in Drawn
    PROVE  Settles(e, UpdateCursor(e))
<1> DEFINE t == e.text
           p == e.cur_pos
           n == Len(t)
           q == VrowStart(t, p)
           b == Bol(t, p)
           col == Min({p, n}) - q
           r == Min({RowOf(e), Bottom})
           c == Min({col, Cols - 1})
           x == Goto(e.term, r, c)
<1>1. t \in Seq(Letters) /\ n \in Nat /\ p \in Nat /\ e.term \in Terminals(Glyphs) /\ Sound(e.term)
  BY DrawnHas DEF Tracking
<1>2. RowOf(e) \in Nat /\ Bottom \in Nat /\ Bottom \in 0..(Rows - 1) /\ Rows \in Nat /\ Cols \in Nat /\ Cols >= 2
  BY RowOfIn, Sizes
<1>3. r \in 0..(Rows - 1)
  <2> DEFINE a == RowOf(e)
  <2> HIDE DEF a
  <2>1. Min({a, Bottom}) = IF a <= Bottom THEN a ELSE Bottom
    BY <1>2, OfTwo DEF a
  <2>2. Min({a, Bottom}) \in 0..(Rows - 1)
    BY <1>2, <2>1 DEF a
  <2> QED BY <2>2 DEF a
<1>4. b \in 0..p
  <2> HIDE DEF t, p
  <2> QED BY <1>1, LineEnds
<1>5. col \in 0..(p - b)
  <2>1. q \in 0..n /\ (p >= n => q = n) /\ (p < n => q \in b..p)
    <3> HIDE DEF t, p
    <3> QED BY <1>1, VrowStartIn
  <2> HIDE DEF t, p, n, q, b
  <2>2. Min({p, n}) = IF p <= n THEN p ELSE n
    BY <1>1, OfTwo
  <2> QED BY <1>1, <1>4, <2>1, <2>2
<1> HIDE DEF col
<1>6. c \in 0..(Cols - 1) /\ c <= p - b
  <2> HIDE DEF t, p, n, q, b
  <2>1. col \in Int /\ Cols - 1 \in Int /\ col <= p - b /\ col >= 0
    BY <1>2, <1>5, <1>4, <1>1
  <2>2. c = IF col <= Cols - 1 THEN col ELSE Cols - 1
    BY <2>1, OfTwo
  <2>3. p - b \in Nat
    BY <1>1, <1>4 DEF p
  <2> HIDE DEF c
  <2> QED BY <1>2, <2>1, <2>2, <2>3
<1> HIDE DEF r, c
<1>7. Placed(Glyphs, x, r, c)
  BY <1>1, <1>3, <1>6, GlyphsAre, GotoArrives
<1> HIDE DEF x
<1>8. x \in Tracking /\ x.tcol = c
  BY <1>7, PlacedIn DEF Placed
<1> DEFINE g == [e EXCEPT !.term = x]
<1>9. UpdateCursor(e) = g
  BY DEF UpdateCursor, x, c, r, col
<1> HIDE DEF g
<1>10. Shows(e, g) /\ g.term = x
  BY <1>8, TermSet DEF g
<1>11. Settled(g)
  BY <1>6, <1>8, <1>10 DEF Settled, Shows
<1> QED BY <1>9, <1>10, <1>11 DEF Settles

(* Rows drawn one below the other.                                         *)
LEMMA DrawRowsIs ==
    ASSUME NEW e \in Drawn, NEW row \in Nat, NEW p \in Nat, NEW m \in Int, row + m <= Rows
    PROVE  Shows(e, DrawRows(e, row, p, m))
<1> DEFINE n == Max({m, 0})
           tm0 == e.term
           t == e.text
<1>0. n \in Nat /\ (n > 0 => n = m)
  <2>1. m \in Int /\ 0 \in Int
    OBVIOUS
  <2>2. Max({m, 0}) = IF m <= 0 THEN 0 ELSE m
    BY <2>1, OfTwo
  <2> HIDE DEF n
  <2>3. n = IF m <= 0 THEN 0 ELSE m
    BY <2>2 DEF n
  <2> QED BY <2>1, <2>3
<1>a. t \in Seq(Letters) /\ tm0 \in Tracking
  BY DrawnHas
<1> HIDE DEF n, t
<1> DEFINE S == Tracking
           g == [i \in 1..n |-> [q \in S |-> DrawRow(q, e.text, row + i - 1, RowAt(e.text, p, i - 1))]]
           E(f, i) == IF i = 0 THEN e.term ELSE DrawRow(f[i - 1], e.text, row + i - 1, RowAt(e.text, p, i - 1))
           h == CHOOSE f : f = [i \in 0..n |-> E(f, i)]
<1>1. DrawRows(e, row, p, m) = [e EXCEPT !.term = h[n]]
  BY DEF DrawRows, n
<1>2. e.term \in S /\ \A i \in 1..n : \A q \in S : DrawRow(q, e.text, row + i - 1, RowAt(e.text, p, i - 1)) \in S
  <2>1. \A i \in 1..n : row + i - 1 \in 0..(Rows - 1) /\ i - 1 \in Nat
    BY <1>0, Sizes
  <2>2. \A i \in 1..n : RowAt(e.text, p, i - 1) \in Nat
    BY <1>a, <2>1, RowAtIn DEF t
  <2> QED BY <1>a, <2>1, <2>2, DrawRowIs DEF t
<1> HIDE DEF S
<1>3. \E f : f = [i \in 0..n |-> E(f, i)]
  <2>1. g \in [1..n -> [S -> S]]
    BY <1>2
  <2>2. \A i \in 1..n : \A q \in S : g[i][q] = DrawRow(q, e.text, row + i - 1, RowAt(e.text, p, i - 1))
    OBVIOUS
  <2> HIDE DEF g
  <2>3. PICK f : Stepwise(f, g, S, n, e.term)
    BY <1>0, <2>1, <1>2, Stages
  <2>4. ASSUME NEW i \in 0..n PROVE f[i] = E(f, i)
    <3>1. CASE i = 0
      BY <3>1, <2>3 DEF Stepwise
    <3>2. CASE i # 0
      <4>1. i \in 1..n /\ i - 1 \in 0..n
        BY <1>0, <3>2
      <4>2. f[i - 1] \in S /\ f[i] = g[i][f[i - 1]]
        BY <4>1, <2>3 DEF Stepwise
      <4>3. f[i] = DrawRow(f[i - 1], e.text, row + i - 1, RowAt(e.text, p, i - 1))
        BY <4>1, <4>2, <2>2
      <4> QED BY <4>3, <3>2
    <3> QED BY <3>1, <3>2
  <2>5. f = [i \in 0..n |-> E(f, i)]
    <3>1. f = [i \in 0..n |-> f[i]]
      BY <2>3 DEF Stepwise
    <3> HIDE DEF E
    <3> QED BY <2>4, <3>1
  <2> HIDE DEF E
  <2> QED BY <2>5
<1>4. h = [i \in 0..n |-> E(h, i)]
  <2> HIDE DEF E
  <2> QED BY <1>3
<1> HIDE DEF h
<1>5. h[0] = e.term /\ \A i \in 1..n : h[i] = DrawRow(h[i - 1], e.text, row + i - 1, RowAt(e.text, p, i - 1))
  <2>1. \A i \in 0..n : h[i] = E(h, i)
    <3> HIDE DEF E
    <3> QED BY <1>4
  <2>2. 0 \in 0..n /\ \A i \in 1..n : i \in 0..n /\ i # 0
    BY <1>0
  <2> QED BY <2>1, <2>2
<1> HIDE DEF E, g
<1>6. h[0] \in S /\ \A i \in 1..n : h[i - 1] \in S => h[i] \in S
  BY <1>2, <1>5
<1>7. h[n] \in Tracking
  <2>1. h[n] \in S
    BY <1>0, <1>6, StaysIn
  <2> QED BY <2>1 DEF S
<1> DEFINE x == h[n]
<1> HIDE DEF x
<1>8. Shows(e, [e EXCEPT !.term = x])
  BY <1>7, TermSet DEF x
<1> QED BY <1>1, <1>8 DEF x

-----------------------------------------------------------------------------
(* Drawing (screen.c).                                                     *)

(* scr_scroll_to_cursor.                                                   *)
LEMMA ScrollToCursorIs ==
    ASSUME NEW e \in Drawn
    PROVE  Shows(e, ScrollToCursor(e)) /\ ScrollToCursor(e).term = e.term
<1> DEFINE t == e.text
           rows == IF e.cur_vrow >= 0 THEN e.cur_vrow
                   ELSE RowsIn(t, e.top_pos, (e.top_pos + 1)..e.cur_pos)
           a == [e EXCEPT !.top_pos = VrowStart(t, e.cur_pos), !.cur_vrow = 0]
           b == [e EXCEPT !.cur_vrow = rows]
           c == [e EXCEPT !.top_pos = RowAt(t, e.top_pos, rows - TextRows + 1), !.cur_vrow = TextRows - 1]
<1>1. t \in Seq(Letters) /\ e.cur_pos \in Nat /\ e.cur_vrow \in Int /\ e.top_pos \in Nat
      /\ TextRows \in Nat
  BY DrawnHas, Sizes
<1>2. ScrollToCursor(e) = IF e.cur_pos < e.top_pos THEN a ELSE IF rows < TextRows THEN b ELSE c
  BY DEF ScrollToCursor
<1>3. rows \in Nat
  <2> DEFINE k == RowsIn(t, e.top_pos, (e.top_pos + 1)..e.cur_pos)
  <2>1. e.top_pos + 1 \in Int /\ e.cur_pos \in Int
    BY <1>1
  <2> HIDE DEF t
  <2>2. k \in Nat
    BY <2>1, RowsInAre
  <2> HIDE DEF k
  <2>3. rows = IF e.cur_vrow >= 0 THEN e.cur_vrow ELSE k
    BY DEF k, t
  <2> HIDE DEF rows
  <2> QED BY <1>1, <2>2, <2>3
<1> HIDE DEF rows
<1>4. Shows(e, a) /\ a.term = e.term
  <2> DEFINE q == VrowStart(t, e.cur_pos)
  <2>1. q \in Nat
    BY DrawnHas, VrowStartIn
  <2> HIDE DEF q
  <2>2. a = [e EXCEPT !.top_pos = q, !.cur_vrow = 0] /\ 0 \in Int
    BY DEF q
  <2> HIDE DEF a, t
  <2> QED BY <2>1, <2>2 DEF Drawn, Editors, Shows
<1>5. Shows(e, b) /\ b.term = e.term
  <2> HIDE DEF b
  <2>1. b = [e EXCEPT !.cur_vrow = rows] /\ rows \in Int
    BY <1>3 DEF b
  <2> QED BY <2>1, RowSet
<1>6. ~ (rows < TextRows) => Shows(e, c) /\ c.term = e.term
  <2> SUFFICES ASSUME ~ (rows < TextRows) PROVE Shows(e, c) /\ c.term = e.term
    OBVIOUS
  <2> DEFINE k == rows - TextRows + 1
             q == RowAt(t, e.top_pos, k)
  <2>1. k \in Nat /\ TextRows - 1 \in Int
    BY <1>1, <1>3
  <2> HIDE DEF k
  <2>2. q \in Nat
    BY <1>1, <2>1, RowAtIn
  <2> HIDE DEF q
  <2>3. c = [e EXCEPT !.top_pos = q, !.cur_vrow = TextRows - 1]
    BY DEF q, k
  <2> HIDE DEF c, k, t
  <2> QED BY <2>1, <2>2, <2>3 DEF Drawn, Editors, Shows
<1> HIDE DEF a, b, c
<1> QED BY <1>2, <1>4, <1>5, <1>6

(* The status line, and the cursor back.                                   *)
LEMMA StatusLineIs ==
    ASSUME NEW e \in Drawn, NEW s \in {<<Message>>, << >>}
    PROVE  Shows(e, StatusLine(e, s))
<1> DEFINE x == Puts(ClrEol(Goto(e.term, Rows - 1, 0)), s)
<1>1. x \in Tracking
  BY DrawnHas, StatusIs
<1>2. StatusLine(e, s) = [e EXCEPT !.term = x]
  BY DEF StatusLine
<1> HIDE DEF x
<1> QED BY <1>1, <1>2, TermSet

(* scr_show_status, and scr_clear_status.                                  *)
LEMMA ShowStatusIs ==
    ASSUME NEW e \in Drawn
    PROVE  Settles(e, ShowStatus(e)) /\ Settles(e, ClearStatus(e))
<1>1. Shows(e, StatusLine(e, <<Message>>)) /\ Shows(e, StatusLine(e, << >>))
  BY StatusLineIs
<1> DEFINE f == StatusLine(e, <<Message>>)
           g == StatusLine(e, << >>)
<1>2. ShowStatus(e) = UpdateCursor(f) /\ ClearStatus(e) = UpdateCursor(g)
  BY DEF ShowStatus, ClearStatus
<1> HIDE DEF f, g
<1>3. Shows(e, f) /\ Shows(e, g) /\ f \in Drawn /\ g \in Drawn
  BY <1>1 DEF f, g, Shows
<1>4. Settles(f, UpdateCursor(f)) /\ Settles(g, UpdateCursor(g))
  BY <1>3, UpdateCursorIs
<1> QED BY <1>2, <1>3, <1>4, SettlesThen

(* A message to be cleared.                                                *)
LEMMA ToldIs ==
    ASSUME NEW e \in Drawn
    PROVE  Settles(e, Told(e))
<1> DEFINE f == [e EXCEPT !.status = TRUE]
<1>1. Told(e) = ShowStatus(f)
  BY DEF Told
<1>2. TRUE \in BOOLEAN
  OBVIOUS
<1> HIDE DEF f
<1>3. Shows(e, f)
  BY <1>2, StatusSet DEF f
<1>4. Settles(f, ShowStatus(f))
  BY <1>3, ShowStatusIs DEF Shows
<1> QED BY <1>1, <1>3, <1>4, SettlesThen

(* scr_refresh.                                                            *)
LEMMA RefreshIs ==
    ASSUME NEW e \in Drawn
    PROVE  Settles(e, Refresh(e))
<1> DEFINE s == ScrollToCursor(e)
           f == DrawRows(s, 0, s.top_pos, TextRows)
<1>1. Shows(e, s)
  BY ScrollToCursorIs
<1>2. Refresh(e) = ShowStatus(f)
  BY DEF Refresh
<1> HIDE DEF s
<1>3. s \in Drawn /\ s.top_pos \in Nat /\ 0 \in Nat /\ TextRows \in Int /\ 0 + TextRows <= Rows
  BY <1>1, DrawnHas, Sizes DEF Shows, TextRows
<1>4. Shows(s, f)
  BY <1>3, DrawRowsIs
<1> HIDE DEF f
<1>5. Settles(f, ShowStatus(f))
  BY <1>4, ShowStatusIs DEF Shows
<1> QED BY <1>1, <1>2, <1>4, <1>5, ShowsThen, SettlesThen

(* The rows from the cursor's on, however many.                            *)
LEMMA RedrawnIs ==
    ASSUME NEW e \in Drawn, NEW m \in Int, RowOf(e) + m <= Rows
    PROVE  Settles(e, UpdateCursor([DrawRows(e, RowOf(e), VrowStart(e.text, e.cur_pos), m)
                                        EXCEPT !.cur_vrow = RowOf(e)]))
<1> DEFINE row == RowOf(e)
           start == VrowStart(e.text, e.cur_pos)
           f == DrawRows(e, row, start, m)
           g == [f EXCEPT !.cur_vrow = row]
<1>1. row \in Nat /\ row \in Int
  BY RowOfIn
<1>2. start \in Nat
  BY DrawnHas, VrowStartIn
<1> HIDE DEF start
<1>3. row + m <= Rows
  OBVIOUS
<1> HIDE DEF row
<1>4. Shows(e, f)
  BY <1>1, <1>2, <1>3, DrawRowsIs
<1> HIDE DEF f
<1>5. Shows(f, g)
  BY <1>1, <1>4, RowSet DEF Shows
<1> HIDE DEF g
<1>6. Settles(g, UpdateCursor(g))
  BY <1>5, UpdateCursorIs DEF Shows
<1>7. Settles(e, UpdateCursor(g))
  BY <1>4, <1>5, <1>6, ShowsThen, SettlesThen
<1> QED BY <1>7 DEF g, f, row, start

(* scr_redraw_cur_line.                                                    *)
LEMMA RedrawCurLineIs ==
    ASSUME NEW e \in Drawn
    PROVE  Settles(e, RedrawCurLine(e))
<1> DEFINE row == RowOf(e)
           start == VrowStart(e.text, e.cur_pos)
           rows == RowsIn(e.text, start, {start} \cup start..(Eol(e.text, start) - 1))
           m == Min({rows + 1, TextRows - row})
<1>1. row \in Nat /\ TextRows \in Nat /\ TextRows <= Rows /\ Rows \in Nat
  BY RowOfIn, Sizes DEF TextRows
<1>2. start \in 0..Len(e.text) /\ e.text \in Seq(Letters) /\ Len(e.text) \in Nat
  BY DrawnHas, VrowStartIn
<1> HIDE DEF start
<1>3. start \in Nat
  BY <1>2
<1>4. Eol(e.text, start) \in 0..Len(e.text)
  BY <1>2, <1>3, LineEnds
<1>5. rows \in Nat
  <2>1. {start} \cup start..(Eol(e.text, start) - 1) \subseteq 0..Len(e.text)
    BY <1>2, <1>3, <1>4
  <2> DEFINE S == {start} \cup start..(Eol(e.text, start) - 1)
  <2> HIDE DEF S
  <2>2. RowsIn(e.text, start, S) \in Nat
    BY <1>2, <2>1, RowsInAre DEF S
  <2> QED BY <2>2 DEF S
<1> HIDE DEF row, rows
<1>6. m \in Int /\ row + m <= Rows
  <2>1. rows + 1 \in Int /\ TextRows - row \in Int
    BY <1>1, <1>5
  <2>2. m = IF rows + 1 <= TextRows - row THEN rows + 1 ELSE TextRows - row
    BY <2>1, OfTwo
  <2> HIDE DEF m
  <2> QED BY <1>1, <1>5, <2>2
<1> HIDE DEF m
<1>7. RowOf(e) + m <= Rows
  BY <1>6 DEF row
<1>8. RedrawCurLine(e) = UpdateCursor([DrawRows(e, RowOf(e), VrowStart(e.text, e.cur_pos), m)
                                          EXCEPT !.cur_vrow = RowOf(e)])
  BY DEF RedrawCurLine, m, rows, row, start
<1> QED BY <1>6, <1>7, <1>8, RedrawnIs

(* scr_redraw_from_cur.                                                    *)
LEMMA RedrawFromCurIs ==
    ASSUME NEW e \in Drawn
    PROVE  Settles(e, RedrawFromCur(e))
<1> DEFINE m == TextRows - RowOf(e)
<1>1. RowOf(e) \in Nat /\ TextRows \in Nat /\ TextRows <= Rows /\ Rows \in Nat
  BY RowOfIn, Sizes DEF TextRows
<1>2. m \in Int /\ RowOf(e) + m <= Rows
  BY <1>1
<1>3. RedrawFromCur(e) = UpdateCursor([DrawRows(e, RowOf(e), VrowStart(e.text, e.cur_pos), m)
                                          EXCEPT !.cur_vrow = RowOf(e)])
  BY DEF RedrawFromCur
<1> HIDE DEF m
<1> QED BY <1>2, <1>3, RedrawnIs

(* scr_update_after_move.                                                  *)
LEMMA UpdateAfterMoveIs ==
    ASSUME NEW e \in Drawn, NEW old
    PROVE  Settles(e, UpdateAfterMove(e, old))
<1> DEFINE scrolled(tm, row, p) == UpdateCursor([e EXCEPT !.term = DrawRow(tm, e.text, row, p)])
           q == VrowStart(e.text, e.cur_pos)
<1>1. e.text \in Seq(Letters) /\ e.cur_pos \in Nat /\ e.top_pos \in Nat /\ e.term \in Tracking
  BY DrawnHas
<1>2. ASSUME NEW tm \in Tracking, NEW row \in 0..(Rows - 1), NEW p \in Nat
      PROVE  Settles(e, scrolled(tm, row, p))
  <2> DEFINE x == DrawRow(tm, e.text, row, p)
             f == [e EXCEPT !.term = x]
  <2>1. x \in Tracking
    BY <1>1, DrawRowIs
  <2> HIDE DEF x
  <2>2. Shows(e, f)
    BY <2>1, TermSet
  <2> HIDE DEF f
  <2>3. Settles(f, UpdateCursor(f))
    BY <2>2, UpdateCursorIs DEF Shows
  <2>4. Settles(e, UpdateCursor(f))
    BY <2>2, <2>3, SettlesThen
  <2> QED BY <2>4 DEF f, x
<1>3. q \in Nat
  BY DrawnHas, VrowStartIn
<1>4. Settles(e, scrolled(ScrollUp(e.term), Bottom, q)) /\ Settles(e, scrolled(ScrollDn(e.term), 0, e.top_pos))
  <2>1. ScrollUp(e.term) \in Tracking /\ ScrollDn(e.term) \in Tracking
    BY <1>1, ScrolledIs
  <2>2. Bottom \in 0..(Rows - 1) /\ 0 \in 0..(Rows - 1)
    BY Sizes
  <2> HIDE DEF q, scrolled
  <2> QED BY <1>1, <1>2, <1>3, <2>1, <2>2
<1>5. Settles(e, UpdateCursor(e)) /\ Settles(e, Refresh(e))
  BY UpdateCursorIs, RefreshIs
<1>6. UpdateAfterMove(e, old) \in {UpdateCursor(e), Refresh(e), scrolled(ScrollUp(e.term), Bottom, q),
                                   scrolled(ScrollDn(e.term), 0, e.top_pos)}
  BY DEF UpdateAfterMove
<1> HIDE DEF scrolled, q
<1> QED BY <1>4, <1>5, <1>6

(* adj and after_edit.                                                     *)
LEMMA AdjIs ==
    ASSUME NEW e \in Drawn
    PROVE  Settles(e, Adj(e)) /\ Settles(e, AfterEdit(e))
<1> DEFINE s == ScrollToCursor(e)
<1>1. Shows(e, s)
  BY ScrollToCursorIs
<1>2. Adj(e) = IF s.top_pos = e.top_pos THEN RedrawFromCur(s) ELSE Refresh(s)
  BY DEF Adj
<1> HIDE DEF s
<1>3. Settles(s, RedrawFromCur(s)) /\ Settles(s, Refresh(s))
  BY <1>1, RedrawFromCurIs, RefreshIs DEF Shows
<1>4. Settles(e, Adj(e))
  BY <1>1, <1>2, <1>3, SettlesThen
<1> DEFINE a == Adj(e)
<1>5. AfterEdit(e) = ShowStatus(a)
  BY DEF AfterEdit
<1> HIDE DEF a
<1>6. Shows(e, a) /\ a \in Drawn
  BY <1>4 DEF a, Settles, Shows
<1>7. Settles(a, ShowStatus(a))
  BY <1>6, ShowStatusIs
<1> QED BY <1>4, <1>5, <1>6, <1>7, SettlesThen

-----------------------------------------------------------------------------
(* What the commands leave as it is.                                       *)

\* The terminal, the mode and the yank buffer are e's.
Keeps(e, g) == g \in Drawn /\ g.term = e.term /\ g.mode = e.mode /\ g.yank = e.yank
\* So are the text and the cursor.
Same(e, g) == Keeps(e, g) /\ g.text = e.text /\ g.cur_pos = e.cur_pos

(* One after another.                                                      *)
LEMMA KeepsThen ==
    ASSUME NEW e, NEW f, NEW g
    PROVE  /\ Keeps(e, f) /\ Keeps(f, g) => Keeps(e, g)
           /\ Same(e, f) /\ Same(f, g) => Same(e, g)
           /\ Same(e, f) => Keeps(e, f)
BY DEF Keeps, Same

(* Doing nothing.                                                          *)
LEMMA SameSelf ==
    ASSUME NEW e \in Drawn
    PROVE  Same(e, e)
BY DEF Keeps, Same

(* What the commands share.                                                *)
LEMMA RecordsAre ==
    ASSUME NEW e \in Drawn
    PROVE  /\ e.line_cnt \in Int /\ e.ins \in Keys /\ e.modified \in BOOLEAN
           /\ e.undo \in UndoRecords /\ e.yank \in YankRecords /\ e.dot \in DotRecords
           /\ e.undo.type \in {None, "delete", "insert"} /\ e.undo.pos \in Nat /\ e.undo.len \in Nat
           /\ e.undo.text \in Seq(Letters) /\ e.undo.was_clean \in BOOLEAN
           /\ e.yank.text \in Seq(Letters) /\ e.yank.line \in BOOLEAN
           /\ e.dot.motion \in Keys
<1>1. /\ e.line_cnt \in Int /\ e.ins \in Keys /\ e.modified \in BOOLEAN
      /\ e.undo \in UndoRecords /\ e.yank \in YankRecords /\ e.dot \in DotRecords
  BY DEF Drawn, Editors
<1> QED BY <1>1 DEF UndoRecords, YankRecords, DotRecords

(* Another cursor.                                                         *)
LEMMA CursorSet ==
    ASSUME NEW e \in Drawn, NEW p \in Nat, NEW g, g = [e EXCEPT !.cur_pos = p]
    PROVE  Keeps(e, g) /\ g.text = e.text /\ g.cur_pos = p
BY DEF Drawn, Editors, Keeps

(* Another line count.                                                     *)
LEMMA CountSet ==
    ASSUME NEW e \in Drawn, NEW n \in Int, NEW g, g = [e EXCEPT !.line_cnt = n]
    PROVE  Same(e, g)
BY DEF Drawn, Editors, Keeps, Same

(* Another cached row.                                                     *)
LEMMA VrowSet ==
    ASSUME NEW e \in Drawn, NEW v \in Int, NEW g, g = [e EXCEPT !.cur_vrow = v]
    PROVE  Same(e, g)
BY DEF Drawn, Editors, Keeps, Same

(* Another flag.                                                           *)
LEMMA FlagSet ==
    ASSUME NEW e \in Drawn, NEW b \in BOOLEAN, NEW g, g = [e EXCEPT !.modified = b]
    PROVE  Same(e, g)
BY DEF Drawn, Editors, Keeps, Same

(* Another undo record.                                                    *)
LEMMA UndoSet ==
    ASSUME NEW e \in Drawn, NEW u \in UndoRecords, NEW g, g = [e EXCEPT !.undo = u]
    PROVE  Same(e, g) /\ g.undo = u
BY DEF Drawn, Editors, Keeps, Same

(* Another dot record.                                                     *)
LEMMA DotSet ==
    ASSUME NEW e \in Drawn, NEW d \in DotRecords, NEW g, g = [e EXCEPT !.dot = d]
    PROVE  Same(e, g) /\ g.dot = d
BY DEF Drawn, Editors, Keeps, Same

(* Another insert command.                                                 *)
LEMMA InsSet ==
    ASSUME NEW e \in Drawn, NEW c \in Keys, NEW g, g = [e EXCEPT !.ins = c]
    PROVE  Same(e, g)
BY DEF Drawn, Editors, Keeps, Same

(* A yank.                                                                 *)
LEMMA YankSet ==
    ASSUME NEW e \in Drawn, NEW y \in YankRecords, NEW g, g = [e EXCEPT !.yank = y]
    PROVE  /\ g \in Drawn /\ g.term = e.term /\ g.mode = e.mode /\ g.yank = y
           /\ g.text = e.text /\ g.cur_pos = e.cur_pos
BY DEF Drawn, Editors

(* Another mode.                                                           *)
LEMMA ModeSet ==
    ASSUME NEW e \in Drawn, NEW c \in Keys, NEW g, g = [e EXCEPT !.mode = "insert", !.ins = c]
    PROVE  g \in Drawn /\ g.yank = e.yank /\ g.term = e.term
BY DEF Drawn, Editors

(* The beginning of a text, however short.                                 *)
LEMMA ShortIs ==
    ASSUME NEW s \in Seq(Letters), NEW n \in Int
    PROVE  First(s, n) \in Seq(Letters)
<1>1. CASE n \in Nat
  BY <1>1, FirstIs
<1>2. CASE n \notin Nat
  <2>1. Len(s) \in Nat /\ n < 1
    BY <1>2
  <2>2. Min({n, Len(s)}) = n
    BY <2>1, OfTwo
  <2>3. SubSeq(s, 1, n) = << >>
    BY <2>1, SubSeqEmpty
  <2>4. First(s, n) = << >>
    BY <2>2, <2>3 DEF First
  <2> QED BY <2>4
<1> QED BY <1>1, <1>2

(* The count of lines, kept up.                                            *)
LEMMA AdjustedIn ==
    ASSUME NEW e \in Drawn, NEW n \in Int
    PROVE  Adjusted(e, n) \in Int
<1>1. e.line_cnt \in Int
  BY RecordsAre
<1> QED BY <1>1 DEF Adjusted

(* gb_insert.                                                              *)
LEMMA GbInsertIs ==
    ASSUME NEW e \in Drawn, NEW p \in Nat, NEW s \in Seq(Letters)
    PROVE  /\ Keeps(e, GbInsert(e, p, s)) /\ GbInsert(e, p, s).cur_pos = e.cur_pos
           /\ GbInsert(e, p, s).text =
                First(e.text, p) \o First(s, Capacity - Len(e.text)) \o From(e.text, p)
<1> DEFINE n == Adjusted(e, Newlines(s))
           v == RowAfter(e, p, s)
           r == First(s, Capacity - Len(e.text))
           t == First(e.text, p) \o r \o From(e.text, p)
           g == [e EXCEPT !.line_cnt = n, !.cur_vrow = v, !.text = t]
<1>1. e.text \in Seq(Letters) /\ Len(e.text) \in Nat /\ e.cur_vrow \in Int
  BY DrawnHas
<1>2. n \in Int
  <2>1. Newlines(s) \in Int
    BY NewlinesIs
  <2> QED BY <2>1, AdjustedIn
<1>3. v \in Int
  BY <1>1 DEF RowAfter
<1>4. t \in Seq(Letters)
  <2>1. Capacity - Len(e.text) \in Int
    BY <1>1, LimitsAssumption
  <2>2. r \in Seq(Letters)
    BY <2>1, ShortIs
  <2> HIDE DEF r
  <2> QED BY <1>1, <2>2, Spliced
<1>5. GbInsert(e, p, s) = g
  BY DEF GbInsert
<1> HIDE DEF n, v, t
<1>6. Keeps(e, g) /\ g.text = t /\ g.cur_pos = e.cur_pos
  BY <1>2, <1>3, <1>4 DEF Drawn, Editors, Keeps
<1> QED BY <1>5, <1>6 DEF t

(* gb_delete.                                                              *)
LEMMA GbDeleteIs ==
    ASSUME NEW e \in Drawn, NEW p \in Nat, NEW m \in Nat
    PROVE  Keeps(e, GbDelete(e, p, m)) /\ GbDelete(e, p, m).cur_pos = e.cur_pos
<1> DEFINE s == First(From(e.text, p), m)
           n == Adjusted(e, -Newlines(s))
           v == RowAfter(e, p, s)
           t == First(e.text, p) \o From(e.text, p + m)
           g == [e EXCEPT !.line_cnt = n, !.cur_vrow = v, !.text = t]
<1>1. e.text \in Seq(Letters) /\ e.cur_vrow \in Int /\ p + m \in Nat
  BY DrawnHas
<1>2. n \in Int
  <2>1. From(e.text, p) \in Seq(Letters)
    BY <1>1, FromIs
  <2>2. s \in Seq(Letters)
    BY <2>1, FirstIs
  <2> HIDE DEF s
  <2>3. -Newlines(s) \in Int
    BY <2>2, NewlinesIs
  <2> QED BY <2>3, AdjustedIn
<1>3. v \in Int
  BY <1>1 DEF RowAfter
<1>4. t \in Seq(Letters)
  <2>1. First(e.text, p) \in Seq(Letters) /\ From(e.text, p + m) \in Seq(Letters)
    BY <1>1, FirstIs, FromIs
  <2> QED BY <2>1, Concat
<1>5. GbDelete(e, p, m) = IF p >= Len(e.text) THEN e ELSE g
  BY DEF GbDelete
<1> HIDE DEF n, v, t
<1>6. Keeps(e, g) /\ g.cur_pos = e.cur_pos
  BY <1>2, <1>3, <1>4 DEF Drawn, Editors, Keeps
<1>7. Keeps(e, e)
  BY SameSelf DEF Same
<1> HIDE DEF g
<1> QED BY <1>5, <1>6, <1>7

(* scr_line_count.                                                         *)
LEMMA CountedIs ==
    ASSUME NEW e \in Drawn
    PROVE  Same(e, Counted(e))
<1> DEFINE n == LineCount(e.text)
           g == [e EXCEPT !.line_cnt = n]
<1>1. n \in Int
  BY DrawnHas, NewlinesIs
<1>2. Counted(e) = IF e.line_cnt > 0 THEN e ELSE g
  BY DEF Counted
<1> HIDE DEF n
<1>3. Same(e, g)
  BY <1>1, CountSet
<1> HIDE DEF g
<1> QED BY <1>2, <1>3, SameSelf

(* Marked as changed.                                                      *)
LEMMA ModifiedIs ==
    ASSUME NEW e \in Drawn
    PROVE  Same(e, Modified(e))
<1> DEFINE g == [e EXCEPT !.modified = TRUE]
<1>1. TRUE \in BOOLEAN
  OBVIOUS
<1>2. Same(e, g)
  BY <1>1, FlagSet
<1> QED BY <1>2 DEF Modified

(* The alphabet.                                                           *)
LEMMA LettersAre ==
    /\ NL \in Letters /\ SP \in Letters /\ Nul \in Letters /\ Absent \in Letters
    /\ \A c \in Letters \ {NL} : Toggled[c] \in Letters
BY ScreenAssumption DEF Letters

(* Copies of the text, up to a limit.                                      *)
LEMMA CopyIs ==
    ASSUME NEW t \in Seq(Letters), NEW p \in Nat, NEW n \in Nat, NEW m \in Nat, NEW c \in Letters
    PROVE  /\ Copied(t, p, Min({n, m}), c) \in Seq(Letters)
           /\ Len(Copied(t, p, Min({n, m}), c)) = IF n <= m THEN n ELSE m
<1> DEFINE k == Min({n, m})
<1>1. n \in Int /\ m \in Int
  OBVIOUS
<1>2. k = IF n <= m THEN n ELSE m
  BY <1>1, OfTwo
<1>3. k \in Nat
  BY <1>2
<1> HIDE DEF k
<1>4. Copied(t, p, k, c) \in Seq(Letters) /\ Len(Copied(t, p, k, c)) = k
  BY <1>3, CopiedIs
<1> QED BY <1>2, <1>4 DEF k

(* undo_save_delete and undo_save_insert.                                  *)
LEMMA UndoSaveIs ==
    ASSUME NEW e \in Drawn, NEW p \in Nat, NEW n \in Nat
    PROVE  Same(e, UndoSaveDelete(e, p, n)) /\ Same(e, UndoSaveInsert(e, p, n))
<1> DEFINE x == Copied(e.text, p, Min({n, UndoMax}), Nul)
           u == [type |-> "delete", pos |-> p, len |-> n, was_clean |-> ~e.modified, text |-> x]
           v == [type |-> "insert", pos |-> p, len |-> n, was_clean |-> ~e.modified, text |-> << >>]
<1>1. e.text \in Seq(Letters) /\ e.modified \in BOOLEAN /\ UndoMax \in Nat /\ Nul \in Letters
  BY DrawnHas, RecordsAre, LimitsAssumption, LettersAre
<1>2. x \in Seq(Letters)
  BY <1>1, CopyIs
<1>3. UndoSaveDelete(e, p, n) = [e EXCEPT !.undo = u] /\ UndoSaveInsert(e, p, n) = [e EXCEPT !.undo = v]
  BY DEF UndoSaveDelete, UndoSaveInsert
<1> HIDE DEF x
<1>4. (~e.modified) \in BOOLEAN
  BY <1>1
<1>5. u \in UndoRecords /\ v \in UndoRecords
  BY <1>2, <1>4 DEF UndoRecords
<1> HIDE DEF u, v
<1> QED BY <1>3, <1>5, UndoSet

(* The record that "." repeats.                                            *)
LEMMA DotIsIs ==
    ASSUME NEW e \in Drawn, NEW c \in Keys, NEW m \in Keys, NEW n \in Nat, NEW a \in Letters \cup {None}
    PROVE  Same(e, DotIs(e, c, m, n, a))
<1> DEFINE d == [e.dot EXCEPT !.cmd = c, !.motion = m, !.count = n, !.arg = a]
<1>1. e.dot \in DotRecords
  BY RecordsAre
<1>2. d \in DotRecords
  BY <1>1 DEF DotRecords
<1>3. DotIs(e, c, m, n, a) = [e EXCEPT !.dot = d]
  BY <1>1 DEF DotIs, DotRecords
<1> HIDE DEF d
<1> QED BY <1>2, <1>3, DotSet

(* One more step.                                                          *)
LEMMA OneMore ==
    ASSUME NEW e, NEW f, Keeps(e, f)
    PROVE  /\ Keeps(e, Counted(f)) /\ Keeps(e, Modified(f))
           /\ \A p \in Nat : Keeps(e, CursorAt(f, p))
           /\ \A p \in Nat, n \in Nat : /\ Keeps(e, UndoSaveDelete(f, p, n))
                                        /\ Keeps(e, UndoSaveInsert(f, p, n))
                                        /\ Keeps(e, GbDelete(f, p, n))
           /\ \A p \in Nat, s \in Seq(Letters) : Keeps(e, GbInsert(f, p, s))
<1>1. f \in Drawn
  BY DEF Keeps
<1>2. Keeps(e, Counted(f)) /\ Keeps(e, Modified(f))
  BY <1>1, CountedIs, ModifiedIs, KeepsThen
<1>3. ASSUME NEW p \in Nat PROVE Keeps(e, CursorAt(f, p))
  <2> DEFINE g == CursorAt(f, p)
  <2>1. g = [f EXCEPT !.cur_pos = p]
    BY DEF CursorAt
  <2> HIDE DEF g
  <2>2. Keeps(f, g)
    BY <1>1, <2>1, CursorSet
  <2> QED BY <2>2, KeepsThen DEF g
<1>4. ASSUME NEW p \in Nat, NEW n \in Nat
      PROVE Keeps(e, UndoSaveDelete(f, p, n)) /\ Keeps(e, UndoSaveInsert(f, p, n)) /\ Keeps(e, GbDelete(f, p, n))
  BY <1>1, UndoSaveIs, GbDeleteIs, KeepsThen
<1>5. ASSUME NEW p \in Nat, NEW s \in Seq(Letters) PROVE Keeps(e, GbInsert(f, p, s))
  BY <1>1, GbInsertIs, KeepsThen
<1> QED BY <1>2, <1>3, <1>4, <1>5

-----------------------------------------------------------------------------
(* Operators (edit.c).                                                     *)

\* r is e after an operator: something yanked, or the mode as it was.
Operates(e, r) == r \in Drawn /\ (r.mode = e.mode \/ r.yank.text # << >>)

(* op_apply.                                                               *)
LEMMA ApplyOpIs ==
    ASSUME NEW e \in Drawn, NEW op, NEW x \in Nat, NEW y \in Nat, NEW line \in BOOLEAN
    PROVE  Operates(e, ApplyOp(e, op, x, y, line))
<1> DEFINE from == Min({x, y})
           len == Max({x, y}) - from
           z == Copied(e.text, from, Min({len, YankMax - 1}), Nul)
           yanked == [e EXCEPT !.yank = [text |-> z, line |-> line]]
           gone == Modified(GbDelete(UndoSaveDelete(yanked, from, len), from, len))
           placed == Counted(CursorAt(gone, SteppedBack(gone.text, from)))
           opened == Inserting(UndoSaveInsert(placed, placed.cur_pos, 0), e.ins)
           only == [CursorAt(yanked, from) EXCEPT !.cur_vrow = -1]
<1>1. from \in Nat /\ len \in Nat
  <2>1. x \in Int /\ y \in Int
    OBVIOUS
  <2>2. Min({x, y}) = (IF x <= y THEN x ELSE y) /\ Max({x, y}) = (IF x <= y THEN y ELSE x)
    BY <2>1, OfTwo
  <2> QED BY <2>2
<1>2. ApplyOp(e, op, x, y, line) \in {e} \/ (len # 0 /\ ApplyOp(e, op, x, y, line) \in {only, placed, opened})
  BY DEF ApplyOp
<1> HIDE DEF from, len
<1>3. z \in Seq(Letters) /\ (len # 0 => z # << >>)
  <2>1. e.text \in Seq(Letters) /\ YankMax - 1 \in Nat /\ YankMax - 1 # 0 /\ Nul \in Letters
    BY DrawnHas, ScreenAssumption, LimitsAssumption, LettersAre
  <2> DEFINE k == YankMax - 1
  <2>2. k \in Nat /\ k # 0
    BY <2>1
  <2> HIDE DEF k
  <2>3. Copied(e.text, from, Min({len, k}), Nul) \in Seq(Letters)
        /\ Len(Copied(e.text, from, Min({len, k}), Nul)) = IF len <= k THEN len ELSE k
    BY <1>1, <2>1, <2>2, CopyIs
  <2> DEFINE w == Copied(e.text, from, Min({len, k}), Nul)
  <2>4. z = w
    BY DEF k
  <2> HIDE DEF w, z
  <2>5. w \in Seq(Letters) /\ Len(w) = IF len <= k THEN len ELSE k
    BY <2>3 DEF w
  <2>6. len # 0 => Len(w) # 0
    BY <2>5, <2>2
  <2>7. len # 0 => w # << >>
    BY <2>6
  <2> QED BY <2>4, <2>5, <2>7
<1> HIDE DEF z
<1>4. yanked \in Drawn /\ yanked.yank.text = z /\ yanked.text = e.text /\ yanked.cur_pos = e.cur_pos
  <2> DEFINE w == [text |-> z, line |-> line]
  <2>1. w \in YankRecords /\ w.text = z
    BY <1>3 DEF YankRecords
  <2> HIDE DEF w
  <2> DEFINE f == [e EXCEPT !.yank = w]
  <2>2. f \in Drawn /\ f.yank = w /\ f.text = e.text /\ f.cur_pos = e.cur_pos
    BY <2>1, YankSet
  <2> QED BY <2>1, <2>2 DEF w
<1> HIDE DEF yanked
<1>5. Keeps(yanked, yanked)
  BY <1>4, SameSelf DEF Same
<1>6. Keeps(yanked, only)
  <2> DEFINE f == CursorAt(yanked, from)
             g == [f EXCEPT !.cur_vrow = -1]
  <2>1. Keeps(yanked, f)
    BY <1>1, <1>5, OneMore
  <2> HIDE DEF f
  <2>2. f \in Drawn /\ -1 \in Int
    BY <2>1 DEF Keeps
  <2>3. Same(f, g)
    BY <2>2, VrowSet
  <2>4. Keeps(yanked, g)
    BY <2>1, <2>3, KeepsThen
  <2> QED BY <2>4 DEF f
<1>7. Keeps(yanked, placed)
  <2> DEFINE a == UndoSaveDelete(yanked, from, len)
             b == GbDelete(a, from, len)
  <2>1. Keeps(yanked, a)
    BY <1>1, <1>5, OneMore
  <2> HIDE DEF a
  <2>2. Keeps(yanked, b)
    BY <1>1, <2>1, OneMore
  <2> HIDE DEF b
  <2>3. Keeps(yanked, gone)
    <3>1. gone = Modified(b)
      BY DEF b, a
    <3> HIDE DEF gone
    <3> QED BY <2>2, <3>1, OneMore
  <2> HIDE DEF gone
  <2> DEFINE q == SteppedBack(gone.text, from)
             c == CursorAt(gone, q)
  <2>4. q \in Nat
    <3>1. gone.text \in Seq(Letters) /\ Len(gone.text) \in Nat
      BY <2>3, DrawnHas DEF Keeps
    <3>2. q \in 0..Len(gone.text)
      BY <1>1, <3>1, SteppedBackIn
    <3> HIDE DEF q
    <3> QED BY <3>1, <3>2
  <2> HIDE DEF q
  <2>5. Keeps(yanked, c)
    BY <2>3, <2>4, OneMore
  <2>6. placed = Counted(c)
    BY DEF c, q
  <2> HIDE DEF c, placed
  <2> QED BY <2>5, <2>6, OneMore
<1> HIDE DEF gone, placed, only
<1>8. opened \in Drawn /\ opened.yank = yanked.yank
  <2> DEFINE p == placed.cur_pos
             u == UndoSaveInsert(placed, p, 0)
             k == e.ins
             g == [u EXCEPT !.mode = "insert", !.ins = k]
  <2>1. p \in Nat /\ 0 \in Nat /\ k \in Keys
    BY <1>7, DrawnHas, RecordsAre DEF Keeps
  <2> HIDE DEF p, k
  <2>2. Keeps(yanked, u)
    BY <1>7, <2>1, OneMore
  <2>3. opened = g
    BY DEF Inserting, p, k
  <2> HIDE DEF u, opened
  <2>4. g \in Drawn /\ g.yank = u.yank
    BY <2>1, <2>2 DEF Drawn, Editors, Keeps
  <2> HIDE DEF g
  <2> QED BY <2>2, <2>3, <2>4 DEF Keeps
<1> HIDE DEF opened
<1>9. ASSUME len # 0, NEW r \in {only, placed, opened} PROVE Operates(e, r)
  <2>1. r \in Drawn /\ r.yank = yanked.yank
    BY <1>6, <1>7, <1>8, <1>9 DEF Keeps
  <2>2. r.yank.text # << >>
    BY <1>3, <1>4, <1>9, <2>1
  <2> QED BY <2>1, <2>2 DEF Operates
<1>10. Operates(e, e)
  BY DEF Operates
<1> QED BY <1>2, <1>9, <1>10

(* The dot record and the insert command of an operator.                   *)
LEMMA OperatorIs ==
    ASSUME NEW e \in Drawn, NEW op \in Operators, NEW m \in OpMotions \cup {op}, NEW n \in Nat
    PROVE  Same(e, OperatorIns(OperatorDot(e, op, m, n), op))
<1>1. op \in Keys /\ m \in Keys /\ None \in Letters \cup {None} /\ "c" \in Keys
  BY DEF Keys, Operators
<1> DEFINE a == DotIs(e, op, m, n, None)
           b == [a EXCEPT !.dot.text = << >>]
           f == OperatorDot(e, op, m, n)
           g == [f EXCEPT !.ins = "c"]
<1>2. Same(e, a)
  BY <1>1, DotIsIs
<1> HIDE DEF a
<1>3. Same(e, b)
  <2> DEFINE d == [a.dot EXCEPT !.text = << >>]
  <2>1. a \in Drawn /\ a.dot \in DotRecords
    BY <1>2, RecordsAre DEF Same, Keeps
  <2>2. d \in DotRecords
    <3> DEFINE x == << >>
    <3>1. x \in Seq(Letters)
      OBVIOUS
    <3>2. d = [a.dot EXCEPT !.text = x]
      OBVIOUS
    <3> HIDE DEF x, d
    <3> QED BY <2>1, <3>1, <3>2 DEF DotRecords
  <2>3. b = [a EXCEPT !.dot = d]
    BY <2>1 DEF DotRecords
  <2> HIDE DEF b, d
  <2>4. Same(a, b)
    BY <2>1, <2>2, <2>3, DotSet
  <2> QED BY <1>2, <2>4, KeepsThen
<1>4. f = IF op = "y" THEN e ELSE b
  BY DEF OperatorDot, a
<1> HIDE DEF b, f
<1>5. Same(e, f)
  BY <1>3, <1>4, SameSelf
<1>6. OperatorIns(f, op) = IF op = "c" THEN g ELSE f
  BY DEF OperatorIns
<1>7. Same(e, g)
  <2>1. f \in Drawn
    BY <1>5 DEF Same, Keeps
  <2>2. Same(f, g)
    BY <1>1, <2>1, InsSet
  <2> HIDE DEF g
  <2> QED BY <1>5, <2>2, KeepsThen
<1> HIDE DEF g
<1> QED BY <1>5, <1>6, <1>7 DEF f

(* Over a motion.                                                          *)
LEMMA OverMotionIs ==
    ASSUME NEW e \in Drawn, e.cur_pos \in 0..Len(e.text), NEW op, NEW m \in OpMotions, NEW n \in Nat
    PROVE  Operates(e, OverMotion(e, op, m, n))
<1> DEFINE c == IF m = "j" THEN Counted(e) ELSE e
           r == Span(c.text, c.cur_pos, m, n, c.line_cnt)
           f == CursorAt(c, r.from)
<1>1. Same(e, c)
  BY CountedIs, SameSelf
<1>2. OverMotion(e, op, m, n) = ApplyOp(f, op, r.from, r.to, r.linewise)
  BY DEF OverMotion
<1> HIDE DEF c
<1>3. c.text \in Seq(Letters) /\ c.cur_pos \in 0..Len(c.text) /\ Len(c.text) \in Nat
  BY <1>1, DrawnHas DEF Same, Keeps
<1>4. r.from \in Nat /\ r.to \in Nat /\ r.linewise \in BOOLEAN
  <2>1. InSpan(c.text, r)
    BY <1>3, SpanIn
  <2> HIDE DEF r
  <2> QED BY <1>3, <2>1 DEF InSpan
<1> HIDE DEF r
<1>5. Keeps(e, f)
  BY <1>1, <1>4, OneMore DEF Same
<1> HIDE DEF f
<1>6. Operates(f, ApplyOp(f, op, r.from, r.to, r.linewise))
  BY <1>4, <1>5, ApplyOpIs DEF Keeps
<1> QED BY <1>2, <1>5, <1>6 DEF Operates, Keeps

(* Over lines.                                                             *)
LEMMA LinesFromIs ==
    ASSUME NEW e \in Drawn, NEW op, NEW n
    PROVE  Operates(e, LinesFrom(e, op, n))
<1> DEFINE c == Counted(e)
           first == LineOf(c.text, c.cur_pos)
           end == Min({Wrap(first + n - 1), c.line_cnt - 1})
           x == LineStart(c.text, first)
           y == IF end + 1 < c.line_cnt THEN LineStart(c.text, end + 1) ELSE Len(c.text)
<1>1. Same(e, c)
  BY CountedIs
<1>2. LinesFrom(e, op, n) = ApplyOp(c, op, x, y, TRUE)
  BY DEF LinesFrom
<1> HIDE DEF c
<1>3. c \in Drawn /\ c.text \in Seq(Letters) /\ Len(c.text) \in Nat
  BY <1>1, DrawnHas DEF Same, Keeps
<1> HIDE DEF first, end
<1>4. x \in Nat /\ y \in Nat
  <2>1. x \in 0..Len(c.text) /\ LineStart(c.text, end + 1) \in 0..Len(c.text)
    BY <1>3, LineStartIn
  <2> QED BY <1>3, <2>1
<1> HIDE DEF x, y
<1>5. Operates(c, ApplyOp(c, op, x, y, TRUE))
  BY <1>3, <1>4, ApplyOpIs
<1> QED BY <1>1, <1>2, <1>5 DEF Operates, Same, Keeps

(* An operator as it is given.                                             *)
LEMMA OperateIs ==
    ASSUME NEW e \in Drawn, e.cur_pos \in 0..Len(e.text), NEW op \in Operators, NEW m \in OpMotions \cup {op}
    PROVE  Operates(e, IF m = op THEN Doubled(e, op, 1) ELSE WithMotion(e, op, m, 1))
<1>1. CASE m = op
  <2> DEFINE f == OperatorIns(OperatorDot(e, op, op, 1), op)
  <2>1. Same(e, f)
    BY OperatorIs
  <2>2. Doubled(e, op, 1) = LinesFrom(f, op, 1)
    BY DEF Doubled
  <2> HIDE DEF f
  <2>3. Operates(f, LinesFrom(f, op, 1))
    BY <2>1, LinesFromIs DEF Same, Keeps
  <2> QED BY <1>1, <2>1, <2>2, <2>3 DEF Operates, Same, Keeps
<1>2. CASE m # op
  <2> DEFINE f == OperatorIns(OperatorDot(e, op, m, 1), op)
  <2>1. Same(e, f) /\ m \in OpMotions
    BY <1>2, OperatorIs
  <2>2. WithMotion(e, op, m, 1) = OverMotion(f, op, m, 1)
    BY DEF WithMotion
  <2> HIDE DEF f
  <2>3. Operates(f, OverMotion(f, op, m, 1))
    BY <2>1, OverMotionIs DEF Same, Keeps
  <2> QED BY <1>2, <2>1, <2>2, <2>3 DEF Operates, Same, Keeps
<1> QED BY <1>1, <1>2

-----------------------------------------------------------------------------
(* Characters changed, lines joined, put and undo (edit.c).                *)

(* replace_char.                                                           *)
LEMMA ReplacedIs ==
    ASSUME NEW e \in Drawn, NEW c \in Letters
    PROVE  Keeps(e, Replaced(e, c))
<1> DEFINE p == e.cur_pos
           s == <<c>>
           u == UndoSaveDelete(e, p, 1)
           d == GbDelete(u, p, 1)
           g == GbInsert(d, p, s)
<1>1. p \in Nat /\ 1 \in Nat /\ s \in Seq(Letters)
  BY DrawnHas
<1>2. Replaced(e, c) = Modified(g)
  BY DEF Replaced
<1> HIDE DEF p, s
<1>3. Keeps(e, e)
  BY SameSelf DEF Same
<1>4. Keeps(e, u)
  BY <1>1, <1>3, OneMore
<1> HIDE DEF u
<1>5. Keeps(e, d)
  BY <1>1, <1>4, OneMore
<1> HIDE DEF d
<1>6. Keeps(e, g)
  BY <1>1, <1>5, OneMore
<1> HIDE DEF g
<1> QED BY <1>2, <1>6, OneMore

(* r.                                                                      *)
LEMMA ReplaceIs ==
    ASSUME NEW e \in Drawn, NEW c \in Letters
    PROVE  Keeps(e, Replace(e, c))
<1> DEFINE f == Replaced(e, c)
           g == DotIs(f, "r", None, 1, c)
<1>1. Keeps(e, f)
  BY ReplacedIs
<1>2. Replace(e, c) = IF e.cur_pos >= Len(e.text) THEN e ELSE g
  BY DEF Replace
<1> HIDE DEF f
<1>3. "r" \in Keys /\ None \in Keys /\ 1 \in Nat /\ c \in Letters \cup {None} /\ f \in Drawn
  BY <1>1 DEF Keys, Keeps
<1>4. Same(f, g)
  BY <1>3, DotIsIs
<1> HIDE DEF g
<1>5. Keeps(e, g) /\ Keeps(e, e)
  BY <1>1, <1>4, KeepsThen, SameSelf
<1> QED BY <1>2, <1>5

(* ~.                                                                      *)
LEMMA TildeIs ==
    ASSUME NEW e \in Drawn
    PROVE  Keeps(e, Tilde(e, 1))
<1> DEFINE d == DotIs(e, "~", None, 1, None)
           c == Toggled[At(e.text, e.cur_pos)]
           r == Replaced(d, c)
           p == Min({LastOn(r.text, r.cur_pos), r.cur_pos + 1})
<1>1. Tilde(e, 1) = IF OnCharacter(e) THEN CursorAt(r, p) ELSE d
  BY DEF Tilde
<1>2. Same(e, d)
  <2>1. "~" \in Keys /\ None \in Keys /\ 1 \in Nat /\ None \in Letters \cup {None}
    BY DEF Keys
  <2> QED BY <2>1, DotIsIs
<1> HIDE DEF d
<1>3. OnCharacter(e) => c \in Letters
  <2> SUFFICES ASSUME OnCharacter(e) PROVE c \in Letters
    OBVIOUS
  <2>1. e.text \in Seq(Letters) /\ e.cur_pos \in Nat /\ e.cur_pos < Len(e.text) /\ At(e.text, e.cur_pos) # NL
    BY DrawnHas DEF OnCharacter
  <2>2. At(e.text, e.cur_pos) \in Letters
    BY <2>1, CharIn
  <2> QED BY <2>1, <2>2, LettersAre
<1> HIDE DEF c
<1>4. OnCharacter(e) => Keeps(e, CursorAt(r, p))
  <2> SUFFICES ASSUME OnCharacter(e) PROVE Keeps(e, CursorAt(r, p))
    OBVIOUS
  <2>1. Keeps(d, r)
    BY <1>2, <1>3, ReplacedIs DEF Same, Keeps
  <2>2. Keeps(e, r)
    BY <1>2, <2>1, KeepsThen
  <2> HIDE DEF r
  <2>3. r.text \in Seq(Letters) /\ Len(r.text) \in Nat /\ r.cur_pos \in Nat
    BY <2>2, DrawnHas DEF Keeps
  <2>4. Eol(r.text, r.cur_pos) \in 0..Len(r.text)
    BY <2>3, LineEnds
  <2>5. LastOn(r.text, r.cur_pos) \in Nat
    BY <2>3, <2>4 DEF LastOn
  <2>6. LastOn(r.text, r.cur_pos) \in Int /\ r.cur_pos + 1 \in Int /\ r.cur_pos + 1 \in Nat
    BY <2>3, <2>5
  <2>7. p \in {LastOn(r.text, r.cur_pos), r.cur_pos + 1}
    BY <2>6, OfTwo
  <2>8. p \in Nat
    <3> HIDE DEF p
    <3> QED BY <2>5, <2>6, <2>7
  <2> HIDE DEF p
  <2> QED BY <2>2, <2>8, OneMore
<1> HIDE DEF r, p
<1> QED BY <1>1, <1>2, <1>4 DEF Same

(* One line joined.                                                        *)
LEMMA JoinOnceIs ==
    ASSUME NEW e \in Drawn
    PROVE  Keeps(e, JoinOnce(e))
<1> DEFINE eol == Eol(e.text, e.cur_pos)
           u == UndoSaveDelete(e, eol, 1)
           g == GbDelete(u, eol, 1)
           s == <<SP>>
           h == GbInsert(g, eol, s)
           put == eol < Len(g.text) /\ At(g.text, eol) # SP
           r == IF put THEN h ELSE g
<1>1. eol \in Nat /\ 1 \in Nat /\ s \in Seq(Letters)
  <2>1. e.text \in Seq(Letters) /\ e.cur_pos \in Nat /\ Len(e.text) \in Nat
    BY DrawnHas
  <2>2. eol \in 0..Len(e.text)
    BY <2>1, LineEnds
  <2>3. SP \in Letters
    BY LettersAre
  <2> HIDE DEF eol
  <2> QED BY <2>1, <2>2, <2>3
<1>2. JoinOnce(e) = IF eol >= Len(e.text) THEN e ELSE Modified(r)
  BY DEF JoinOnce
<1> HIDE DEF eol, s, put
<1>3. Keeps(e, e)
  BY SameSelf DEF Same
<1>4. Keeps(e, u)
  BY <1>1, <1>3, OneMore
<1> HIDE DEF u
<1>5. Keeps(e, g)
  BY <1>1, <1>4, OneMore
<1> HIDE DEF g
<1>6. Keeps(e, h)
  BY <1>1, <1>5, OneMore
<1> HIDE DEF h
<1>7. Keeps(e, r)
  BY <1>5, <1>6
<1> HIDE DEF r
<1>8. Keeps(e, Modified(r))
  BY <1>7, OneMore
<1> QED BY <1>2, <1>3, <1>8

(* Joining once, as it is called.                                          *)
LEMMA JoinedOnce ==
    ASSUME NEW e \in Drawn
    PROVE  Times(JoinOnce, 1, e) = JoinOnce(e)
<1> DEFINE S == Drawn
           g == [q \in S |-> JoinOnce(q)]
           E(f, i) == IF i = 0 THEN e ELSE JoinOnce(f[i - 1])
           h == CHOOSE f : f = [i \in 0..1 |-> E(f, i)]
<1>1. Times(JoinOnce, 1, e) = h[1]
  BY DEF Times
<1>2. e \in S /\ \A q \in S : JoinOnce(q) \in S
  BY JoinOnceIs DEF Keeps
<1> HIDE DEF S
<1>3. \E f : f = [i \in 0..1 |-> E(f, i)]
  <2>1. g \in [S -> S]
    BY <1>2
  <2> HIDE DEF g
  <2>2. PICK f : Follows(f, g, S, 1, e)
    BY <2>1, <1>2, Repeats
  <2>3. ASSUME NEW i \in 0..1 PROVE f[i] = E(f, i)
    <3>1. CASE i = 0
      BY <3>1, <2>2 DEF Follows
    <3>2. CASE i # 0
      <4>1. i \in 1..1 /\ i - 1 \in 0..1
        BY <3>2
      <4>2. f[i - 1] \in S /\ f[i] = g[f[i - 1]]
        BY <4>1, <2>2 DEF Follows
      <4>3. f[i] = JoinOnce(f[i - 1])
        BY <4>2 DEF g
      <4> QED BY <4>3, <3>2
    <3> QED BY <3>1, <3>2
  <2>4. f = [i \in 0..1 |-> E(f, i)]
    <3>1. f = [i \in 0..1 |-> f[i]]
      BY <2>2 DEF Follows
    <3> HIDE DEF E
    <3> QED BY <2>3, <3>1
  <2> HIDE DEF E
  <2> QED BY <2>4
<1>4. h = [i \in 0..1 |-> E(h, i)]
  <2> HIDE DEF E
  <2> QED BY <1>3
<1> HIDE DEF h
<1>5. h[0] = e /\ \A i \in 1..1 : h[i] = JoinOnce(h[i - 1])
  <2>1. \A i \in 0..1 : h[i] = E(h, i)
    <3> HIDE DEF E
    <3> QED BY <1>4
  <2>2. 0 \in 0..1 /\ \A i \in 1..1 : i \in 0..1 /\ i # 0
    OBVIOUS
  <2> QED BY <2>1, <2>2
<1> HIDE DEF E, g
<1>6. 1 \in 1..1 /\ 1 - 1 = 0
  OBVIOUS
<1>7. h[1] = JoinOnce(h[0])
  BY <1>5, <1>6
<1> QED BY <1>1, <1>5, <1>7

(* J.                                                                      *)
LEMMA JoinIs ==
    ASSUME NEW e \in Drawn
    PROVE  Keeps(e, Join(e, 1))
<1> DEFINE d == DotIs(e, "J", None, 1, None)
           r == Times(JoinOnce, 1, d)
<1>1. Same(e, d)
  <2>1. "J" \in Keys /\ None \in Keys /\ 1 \in Nat /\ None \in Letters \cup {None}
    BY DEF Keys
  <2> QED BY <2>1, DotIsIs
<1>2. Join(e, 1) = Counted(r)
  BY DEF Join, Joined
<1> HIDE DEF d
<1>3. r = JoinOnce(d)
  BY <1>1, JoinedOnce DEF Same, Keeps
<1> HIDE DEF r
<1>4. Keeps(d, JoinOnce(d))
  BY <1>1, JoinOnceIs DEF Same, Keeps
<1>5. Keeps(e, r)
  BY <1>1, <1>3, <1>4, KeepsThen
<1> QED BY <1>2, <1>5, OneMore

(* The yanked text put in.                                                 *)
LEMMA PutAtIs ==
    ASSUME NEW e \in Drawn, NEW p \in Nat
    PROVE  Keeps(e, PutAt(e, p))
<1> DEFINE s == e.yank.text
           n == Len(s)
           q == e.cur_pos
           u == UndoSaveInsert(e, q, n)
           g == GbInsert(u, p, s)
           x == <<NL>>
           h == GbInsert(g, p + n, x)
           ended == e.yank.line /\ Last(e.yank.text) # NL
           r == IF ended THEN h ELSE g
<1>1. s \in Seq(Letters) /\ q \in Nat /\ NL \in Letters
  BY DrawnHas, RecordsAre, LettersAre
<1>2. n \in Nat /\ p + n \in Nat /\ x \in Seq(Letters)
  BY <1>1
<1>3. PutAt(e, p) = Counted(Modified(r))
  BY DEF PutAt
<1> HIDE DEF s, n, q, x, ended
<1>4. Keeps(e, e)
  BY SameSelf DEF Same
<1>5. Keeps(e, u)
  BY <1>1, <1>2, <1>4, OneMore
<1> HIDE DEF u
<1>6. Keeps(e, g)
  BY <1>1, <1>5, OneMore
<1> HIDE DEF g
<1>7. Keeps(e, h)
  BY <1>2, <1>6, OneMore
<1> HIDE DEF h
<1>8. Keeps(e, r)
  BY <1>6, <1>7
<1> HIDE DEF r
<1> DEFINE m == Modified(r)
<1>9. Keeps(e, m)
  BY <1>8, OneMore
<1> HIDE DEF m
<1>10. Keeps(e, Counted(m))
  BY <1>9, OneMore
<1> QED BY <1>3, <1>10 DEF m

(* p and P.                                                                *)
LEMMA PutIs ==
    ASSUME NEW e \in Drawn
    PROVE  Keeps(e, PutAfter(e)) /\ Keeps(e, PutBefore(e))
<1> DEFINE eol == Eol(e.text, e.cur_pos)
           low == Min({eol + 1, Len(e.text)})
           p == IF e.yank.line THEN low
                ELSE IF OnCharacter(e) THEN e.cur_pos + 1 ELSE e.cur_pos
           q == IF e.yank.line THEN Bol(e.text, e.cur_pos) ELSE e.cur_pos
<1>1. e.text \in Seq(Letters) /\ e.cur_pos \in Nat /\ Len(e.text) \in Nat
  BY DrawnHas
<1>2. eol \in 0..Len(e.text) /\ Bol(e.text, e.cur_pos) \in 0..e.cur_pos
  BY <1>1, LineEnds
<1>3. PutAfter(e) = (IF e.yank.text = << >> THEN e ELSE CursorAt(PutAt(e, p), p))
      /\ PutBefore(e) = (IF e.yank.text = << >> THEN e ELSE CursorAt(PutAt(e, q), q))
  BY DEF PutAfter, PutBefore
<1> HIDE DEF eol
<1>4. eol + 1 \in Int /\ Len(e.text) \in Int
  BY <1>1, <1>2
<1>5. low = IF eol + 1 <= Len(e.text) THEN eol + 1 ELSE Len(e.text)
  BY <1>4, OfTwo
<1> HIDE DEF low
<1>6. p \in Nat /\ q \in Nat
  BY <1>1, <1>2, <1>5
<1> HIDE DEF p, q
<1>7. Keeps(e, e)
  BY SameSelf DEF Same
<1>8. ASSUME NEW k \in Nat PROVE Keeps(e, CursorAt(PutAt(e, k), k))
  BY PutAtIs, OneMore
<1> QED BY <1>3, <1>6, <1>7, <1>8

(* u.                                                                      *)
LEMMA UndoneIs ==
    ASSUME NEW e \in Drawn
    PROVE  Keeps(e, Undone(e))
<1> DEFINE u == e.undo
           g == IF u.type = "delete" THEN GbInsert(e, u.pos, u.text)
                ELSE GbDelete(e, u.pos, u.len)
           h == [g EXCEPT !.cur_pos = u.pos, !.modified = ~u.was_clean, !.undo.type = None]
<1>1. Undone(e) = IF u.type = None THEN e ELSE Counted(h)
  BY DEF Undone
<1>2. u.pos \in Nat /\ u.len \in Nat /\ u.text \in Seq(Letters) /\ u.was_clean \in BOOLEAN
  BY RecordsAre
<1> HIDE DEF u
<1>3. Keeps(e, e)
  BY SameSelf DEF Same
<1>4. Keeps(e, GbInsert(e, u.pos, u.text)) /\ Keeps(e, GbDelete(e, u.pos, u.len))
  BY <1>2, <1>3, OneMore
<1>5. Keeps(e, g)
  BY <1>4
<1> HIDE DEF g
<1>6. Keeps(e, h)
  <2> DEFINE w == [g.undo EXCEPT !.type = None]
  <2>1. g \in Drawn /\ g.undo \in UndoRecords
    BY <1>5, RecordsAre DEF Keeps
  <2>2. w \in UndoRecords
    BY <2>1 DEF UndoRecords
  <2>3. h = [g EXCEPT !.cur_pos = u.pos, !.modified = ~u.was_clean, !.undo = w]
    BY <2>1 DEF UndoRecords
  <2> DEFINE b == ~u.was_clean
             k == u.pos
  <2>4. b \in BOOLEAN /\ k \in Nat
    BY <1>2
  <2>5. h = [g EXCEPT !.cur_pos = k, !.modified = b, !.undo = w]
    BY <2>3
  <2> HIDE DEF w, h, b, k
  <2>6. Keeps(g, h)
    BY <2>1, <2>2, <2>4, <2>5 DEF Drawn, Editors, Keeps
  <2> QED BY <1>5, <2>6, KeepsThen
<1> HIDE DEF h
<1>7. Keeps(e, Counted(h))
  BY <1>6, OneMore
<1> QED BY <1>1, <1>3, <1>7

-----------------------------------------------------------------------------
(* Insert mode (edit.c).                                                   *)

(* Insert mode begun somewhere.                                            *)
LEMMA InsertingIs ==
    ASSUME NEW e \in Drawn, NEW c \in Keys
    PROVE  Inserting(e, c) \in Drawn
BY ModeSet DEF Inserting

(* Where the cursor is put.                                                *)
LEMMA BegunIs ==
    ASSUME NEW e \in Drawn, NEW p \in Nat, NEW c \in Keys
    PROVE  Inserting(UndoSaveInsert(CursorAt(e, p), p, 0), c) \in Drawn
<1> DEFINE a == CursorAt(e, p)
           b == UndoSaveInsert(a, p, 0)
<1>1. Keeps(e, e) /\ 0 \in Nat
  BY SameSelf DEF Same
<1>2. Keeps(e, a)
  BY <1>1, OneMore
<1> HIDE DEF a
<1>3. Keeps(e, b)
  BY <1>1, <1>2, OneMore
<1> HIDE DEF b
<1>4. Inserting(b, c) \in Drawn
  BY <1>3, InsertingIs DEF Keeps
<1> QED BY <1>4 DEF b, a

(* A line opened.                                                          *)
LEMMA OpenedIs ==
    ASSUME NEW f \in Drawn, NEW p \in Nat, NEW c \in Keys, NEW g,
           g = Inserting(Modified([GbInsert(UndoSaveInsert(f, p, 0), p, <<NL>>)
                                      EXCEPT !.undo.len = 1, !.cur_pos = p]), c)
    PROVE  g \in Drawn
<1> DEFINE s == <<NL>>
           a == UndoSaveInsert(f, p, 0)
           b == GbInsert(a, p, s)
           d == [b EXCEPT !.undo.len = 1, !.cur_pos = p]
           m == Modified(d)
<1>1. Keeps(f, f) /\ 0 \in Nat /\ s \in Seq(Letters)
  BY SameSelf, LettersAre DEF Same
<1>2. g = Inserting(m, c)
  OBVIOUS
<1> HIDE DEF s
<1>3. Keeps(f, a)
  BY <1>1, OneMore
<1> HIDE DEF a
<1>4. Keeps(f, b)
  BY <1>1, <1>3, OneMore
<1> HIDE DEF b
<1>5. d \in Drawn
  <2> DEFINE w == [b.undo EXCEPT !.len = 1]
  <2>1. b \in Drawn /\ b.undo \in UndoRecords /\ 1 \in Nat
    BY <1>4, RecordsAre DEF Keeps
  <2>2. w \in UndoRecords
    BY <2>1 DEF UndoRecords
  <2>3. d = [b EXCEPT !.undo = w, !.cur_pos = p]
    BY <2>1 DEF UndoRecords
  <2> HIDE DEF w, d
  <2> QED BY <2>1, <2>2, <2>3 DEF Drawn, Editors
<1> HIDE DEF d
<1>6. m \in Drawn
  BY <1>5, ModifiedIs DEF Same, Keeps
<1> HIDE DEF m
<1> QED BY <1>2, <1>6, InsertingIs

(* i a I A o O.                                                            *)
LEMMA EnterIs ==
    ASSUME NEW e \in Drawn, NEW c \in InsertCmds
    PROVE  Enter(e, c) \in Drawn
<1> DEFINE t == e.text
           k == e.cur_pos
           eol == Eol(t, k)
           next == Min({eol + 1, Len(t)})
           bare == next = Len(t) /\ t # << >> /\ Last(t) # NL
           s == <<NL>>
           n == Len(t)
           h == GbInsert(e, n, s)
           full == IF bare THEN h ELSE e
           after == IF t # << >> /\ At(t, k) # NL THEN k + 1 ELSE k
           low == IF bare THEN n + 1 ELSE next
           at(p) == Inserting(UndoSaveInsert(CursorAt(e, p), p, 0), c)
           opened(g, p) == Inserting(Modified([GbInsert(UndoSaveInsert(g, p, 0), p, <<NL>>)
                                                  EXCEPT !.undo.len = 1, !.cur_pos = p]), c)
<1>1. t \in Seq(Letters) /\ k \in Nat /\ n \in Nat /\ s \in Seq(Letters) /\ c \in Keys
  BY DrawnHas, LettersAre DEF Keys
<1>2. Enter(e, c) \in {at(k), at(after), at(FirstNonBlank(t, k)), at(eol),
                       opened(full, low), opened(e, Bol(t, k))}
  BY DEF Enter, InsertCmds
<1> HIDE DEF t, k
<1>3. eol \in 0..n /\ Bol(t, k) \in 0..k /\ FirstNonBlank(t, k) \in 0..n
  BY <1>1, LineEnds, FirstNonBlankIn
<1> HIDE DEF eol
<1>4. eol + 1 \in Int /\ Len(t) \in Int
  BY <1>1, <1>3
<1>5. next = IF eol + 1 <= Len(t) THEN eol + 1 ELSE Len(t)
  BY <1>4, OfTwo
<1> HIDE DEF next, n, bare, s
<1>6. after \in Nat /\ FirstNonBlank(t, k) \in Nat /\ eol \in Nat /\ low \in Nat /\ Bol(t, k) \in Nat
  BY <1>1, <1>3, <1>5 DEF n
<1> HIDE DEF after, low
<1>7. full \in Drawn
  <2>1. h \in Drawn
    BY <1>1, GbInsertIs DEF Keeps
  <2> HIDE DEF h
  <2> QED BY <2>1
<1> HIDE DEF full
<1>8. ASSUME NEW p \in Nat PROVE at(p) \in Drawn
  BY <1>1, BegunIs
<1>9. ASSUME NEW f \in Drawn, NEW p \in Nat PROVE opened(f, p) \in Drawn
  <2> DEFINE g == opened(f, p)
  <2>1. g \in Drawn
    BY <1>1, OpenedIs
  <2> QED BY <2>1
<1> HIDE DEF at, opened
<1> QED BY <1>1, <1>2, <1>6, <1>7, <1>8, <1>9

(* The record of an insertion grown or shrunk.                             *)
LEMMA GrownIs ==
    ASSUME NEW e \in Drawn, NEW n \in Int
    PROVE  Same(e, Grown(e, n))
<1> DEFINE m == Max({e.undo.len + n, 0})
           w == [e.undo EXCEPT !.len = m]
           g == [e EXCEPT !.undo = w]
<1>1. e.undo \in UndoRecords /\ e.undo.len \in Nat
  BY RecordsAre
<1>2. m \in Nat
  <2>1. e.undo.len + n \in Int /\ 0 \in Int
    BY <1>1
  <2>2. m = IF e.undo.len + n <= 0 THEN 0 ELSE e.undo.len + n
    BY <2>1, OfTwo
  <2> HIDE DEF m
  <2> QED BY <2>1, <2>2
<1>3. Grown(e, n) = IF e.undo.type = "insert" THEN g ELSE e
  BY <1>1 DEF Grown, UndoRecords
<1> HIDE DEF m
<1>4. w \in UndoRecords
  BY <1>1, <1>2 DEF UndoRecords
<1> HIDE DEF w
<1>5. Same(e, g)
  BY <1>4, UndoSet
<1> HIDE DEF g
<1> QED BY <1>3, <1>5, SameSelf

(* A character typed.                                                      *)
LEMMA TypeIs ==
    ASSUME NEW e \in Drawn, NEW c \in Letters
    PROVE  /\ Keeps(e, Type(e, c))
           /\ ~ Full(e) => /\ Type(e, c).cur_pos = e.cur_pos + 1
                           /\ Type(e, c).text = First(e.text, e.cur_pos) \o <<c>> \o From(e.text, e.cur_pos)
<1> DEFINE p == e.cur_pos
           s == <<c>>
           g == GbInsert(e, p, s)
           f == CursorAt(g, p + 1)
           m == Modified(f)
<1>1. p \in Nat /\ p + 1 \in Nat /\ s \in Seq(Letters) /\ Len(s) = 1 /\ Len(e.text) \in Nat
  BY DrawnHas
<1>2. Type(e, c) = IF Full(e) THEN g ELSE Grown(m, 1)
  BY DEF Type
<1>3. ~ Full(e) => First(s, Capacity - Len(e.text)) = s
  <2> SUFFICES ASSUME ~ Full(e) PROVE First(s, Capacity - Len(e.text)) = s
    OBVIOUS
  <2> DEFINE k == Capacity - Len(e.text)
  <2>1. k \in Nat /\ k >= 1
    BY <1>1, LimitsAssumption DEF Full
  <2> HIDE DEF k, s
  <2>2. k \in Int /\ Len(s) \in Int
    BY <1>1, <2>1
  <2>3. Min({k, Len(s)}) = 1
    BY <1>1, <2>1, <2>2, OfTwo
  <2>4. First(s, k) = SubSeq(s, 1, 1)
    BY <2>3 DEF First
  <2>5. SubSeq(s, 1, 1) = s
    <3>1. s \in Seq(Letters) /\ Len(s) = 1
      BY <1>1
    <3>2. SubSeq(s, 1, Len(s)) = s
      BY <3>1
    <3> QED BY <3>1, <3>2
  <2> QED BY <2>4, <2>5 DEF k
<1> HIDE DEF p, s
<1>4. Keeps(e, g) /\ g.text = First(e.text, p) \o First(s, Capacity - Len(e.text)) \o From(e.text, p)
  BY <1>1, GbInsertIs
<1> HIDE DEF g
<1>5. Keeps(g, f) /\ f.text = g.text /\ f.cur_pos = p + 1
  <2> DEFINE q == p + 1
             h == CursorAt(g, q)
  <2>1. h = [g EXCEPT !.cur_pos = q] /\ q \in Nat
    BY <1>1 DEF CursorAt
  <2> HIDE DEF q, h
  <2>2. Keeps(g, h) /\ h.text = g.text /\ h.cur_pos = q
    BY <1>4, <2>1, CursorSet DEF Keeps
  <2> QED BY <2>2 DEF h, q
<1> HIDE DEF f
<1>6. Same(f, m)
  BY <1>5, ModifiedIs DEF Keeps
<1> HIDE DEF m
<1>7. Same(m, Grown(m, 1))
  BY <1>6, GrownIs DEF Same, Keeps
<1>8. Keeps(e, Grown(m, 1)) /\ Grown(m, 1).text = g.text /\ Grown(m, 1).cur_pos = p + 1
  BY <1>4, <1>5, <1>6, <1>7, KeepsThen DEF Same
<1> QED BY <1>2, <1>3, <1>4, <1>8 DEF p, s

(* Everything from a position to the cursor erased.                        *)
LEMMA ErasedIs ==
    ASSUME NEW e \in Drawn, NEW p \in Nat, p <= e.cur_pos
    PROVE  Keeps(e, Erased(e, p))
<1> DEFINE n == e.cur_pos - p
           a == CursorAt(e, p)
           b == GbDelete(a, p, n)
           m == Modified(b)
           k == p - e.cur_pos
<1>1. n \in Nat /\ k \in Int
  BY DrawnHas
<1>2. Erased(e, p) = IF p = e.cur_pos THEN e ELSE Grown(m, k)
  BY DEF Erased
<1> HIDE DEF n, k
<1>3. Keeps(e, e)
  BY SameSelf DEF Same
<1>4. Keeps(e, a)
  BY <1>3, OneMore
<1> HIDE DEF a
<1>5. Keeps(e, b)
  BY <1>1, <1>4, OneMore
<1> HIDE DEF b
<1>6. Keeps(e, m)
  BY <1>5, OneMore
<1> HIDE DEF m
<1>7. Same(m, Grown(m, k))
  BY <1>1, <1>6, GrownIs DEF Keeps
<1> QED BY <1>2, <1>3, <1>6, <1>7, KeepsThen

(* The keys that erase.                                                    *)
LEMMA InsertKeyIs ==
    ASSUME NEW e \in Drawn, NEW k \in {"BS", "^W", "^U"}
    PROVE  Keeps(e, InsertKey(e, k))
<1> DEFINE p == e.cur_pos
           x == Max({p - 1, 0})
           y == WordStart(e.text, p)
           z == Bol(e.text, p)
           g == Erased(e, z)
           h == [g EXCEPT !.cur_vrow = -1]
<1>1. e.text \in Seq(Letters) /\ p \in Nat
  BY DrawnHas
<1>2. InsertKey(e, k) \in {Erased(e, x), Erased(e, y), e, h}
  BY DEF InsertKey, ErasedLine
<1>3. x \in Nat /\ x <= p
  <2>1. p - 1 \in Int /\ 0 \in Int
    BY <1>1
  <2>2. x = IF p - 1 <= 0 THEN 0 ELSE p - 1
    BY <2>1, OfTwo
  <2> HIDE DEF x
  <2> QED BY <1>1, <2>2
<1>4. y \in Nat /\ y <= p /\ z \in Nat /\ z <= p
  <2>1. y \in 0..p /\ z \in 0..p
    BY <1>1, WordStartIn, LineEnds
  <2> HIDE DEF y, z
  <2> QED BY <1>1, <2>1
<1> HIDE DEF x, y, z
<1>5. Keeps(e, Erased(e, x)) /\ Keeps(e, Erased(e, y)) /\ Keeps(e, g)
  BY <1>3, <1>4, ErasedIs
<1> HIDE DEF g
<1>6. Keeps(e, h)
  <2>1. -1 \in Int /\ g \in Drawn
    BY <1>5 DEF Keeps
  <2>2. Same(g, h)
    BY <2>1, VrowSet
  <2> QED BY <1>5, <2>2, KeepsThen
<1>7. Keeps(e, e)
  BY SameSelf DEF Same
<1> HIDE DEF h
<1> QED BY <1>2, <1>5, <1>6, <1>7

(* ESC.                                                                    *)
LEMMA EscapeIs ==
    ASSUME NEW e \in Drawn
    PROVE  Escape(e) \in Drawn
<1> DEFINE u == e.undo
           x == Copied(e.text, u.pos, Min({u.len, DotTextMax}), Absent)
           how == IF e.ins = "c" THEN e.dot.motion ELSE None
           r == [cmd |-> e.ins, count |-> 1, arg |-> None, motion |-> how, text |-> x]
           d == [e EXCEPT !.dot = r]
           f == IF e.ins # None /\ u.type = "insert" /\ u.len > 0 THEN d ELSE e
           p == IF f.cur_pos > 0 /\ At(f.text, f.cur_pos - 1) # NL THEN f.cur_pos - 1 ELSE f.cur_pos
           g == [f EXCEPT !.mode = "normal", !.ins = None, !.cur_pos = p]
<1>1. /\ e.text \in Seq(Letters) /\ u.pos \in Nat /\ u.len \in Nat /\ e.ins \in Keys
      /\ e.dot.motion \in Keys /\ DotTextMax \in Nat /\ Absent \in Letters /\ None \in Keys
      /\ e.dot \in DotRecords
  BY DrawnHas, RecordsAre, LettersAre, LimitsAssumption DEF Keys
<1>2. Escape(e) = Counted(g)
  <2>1. f.text = e.text
    BY DEF Drawn, Editors
  <2> QED BY <2>1 DEF Escape
<1>3. x \in Seq(Letters)
  BY <1>1, CopyIs
<1>4. how \in Keys
  BY <1>1
<1> HIDE DEF x, how
<1>5. r \in DotRecords
  BY <1>1, <1>3, <1>4 DEF DotRecords
<1> HIDE DEF r
<1>6. d \in Drawn
  BY <1>5, DotSet DEF Same, Keeps
<1> HIDE DEF d
<1>7. f \in Drawn
  BY <1>6
<1> HIDE DEF f
<1>8. p \in Nat
  <2>1. f.cur_pos \in Nat
    BY <1>7, DrawnHas
  <2> QED BY <2>1
<1> HIDE DEF p
<1>9. g \in Drawn
  BY <1>1, <1>7, <1>8 DEF Drawn, Editors
<1> HIDE DEF g
<1> QED BY <1>2, <1>9, CountedIs DEF Same, Keeps

-----------------------------------------------------------------------------
(* Motions (emove.c).                                                      *)

\* g is e with the cursor elsewhere in the text.
Moves(e, g) == Keeps(e, g) /\ g.text = e.text /\ g.cur_pos \in 0..Len(e.text)

(* A horizontal move.                                                      *)
LEMMA HMoveIs ==
    ASSUME NEW e \in Drawn, NEW q \in Nat
    PROVE  Keeps(e, HMove(e, q)) /\ HMove(e, q).text = e.text /\ HMove(e, q).cur_pos = q
<1> DEFINE v == IF VrowStart(e.text, q) = VrowStart(e.text, e.cur_pos) THEN e.cur_vrow ELSE -1
           g == [e EXCEPT !.cur_pos = q, !.cur_vrow = v]
<1>1. v \in Int
  BY DrawnHas
<1>2. HMove(e, q) = g
  BY DEF HMove
<1> HIDE DEF v
<1>3. Keeps(e, g) /\ g.text = e.text /\ g.cur_pos = q
  BY <1>1 DEF Drawn, Editors, Keeps
<1> HIDE DEF g
<1> QED BY <1>2, <1>3

(* One line up.                                                             *)
LEMMA UpOnceIs ==
    ASSUME NEW e \in Drawn, e.cur_pos \in 0..Len(e.text), NEW w \in Nat
    PROVE  Moves(e, UpOnce(e, w))
<1> DEFINE q == Up(e.text, e.cur_pos, w)
           k == StepsTo(e.text, VrowStart(e.text, q), VrowStart(e.text, e.cur_pos))
           v == IF e.cur_vrow < 0 THEN e.cur_vrow ELSE e.cur_vrow - k
           g == [e EXCEPT !.cur_pos = q, !.cur_vrow = v]
<1>1. e.text \in Seq(Letters) /\ e.cur_vrow \in Int /\ e.cur_pos \in Nat /\ Len(e.text) \in Nat
  BY DrawnHas
<1>2. q \in 0..Len(e.text)
  BY <1>1, UpDownIn
<1>3. UpOnce(e, w) = g
  BY DEF UpOnce
<1> HIDE DEF q
<1>4. q \in Nat
  BY <1>1, <1>2
<1>5. k \in Nat
  <2>1. VrowStart(e.text, q) \in 0..Len(e.text) /\ VrowStart(e.text, e.cur_pos) \in 0..Len(e.text)
    BY <1>1, <1>4, VrowStartIn
  <2>2. VrowStart(e.text, q) \in Int /\ VrowStart(e.text, e.cur_pos) \in Int
    BY <1>1, <2>1
  <2> QED BY <2>2, StepsToAre
<1> HIDE DEF k
<1>6. v \in Int
  BY <1>1, <1>5
<1> HIDE DEF v
<1>7. Keeps(e, g) /\ g.text = e.text /\ g.cur_pos = q
  BY <1>4, <1>6 DEF Drawn, Editors, Keeps
<1> HIDE DEF g
<1> QED BY <1>2, <1>3, <1>7 DEF Moves

(* Several lines up.                                                        *)
LEMMA MvUpIs ==
    ASSUME NEW e \in Drawn, e.cur_pos \in 0..Len(e.text), NEW n \in Nat, NEW w \in Nat
    PROVE  Moves(e, MvUp(e, n, w))
<1> DEFINE S == {x \in Drawn : Moves(e, x)}
           g == [q \in S |-> UpOnce(q, w)]
           E(f, i) == IF i = 0 THEN e ELSE UpOnce(f[i - 1], w)
           h == CHOOSE f : f = [i \in 0..n |-> E(f, i)]
<1>1. MvUp(e, n, w) = h[n]
  BY DEF MvUp, Times
<1>2. e \in S /\ \A q \in S : UpOnce(q, w) \in S
  <2>1. Moves(e, e)
    BY SameSelf DEF Moves, Same
  <2>2. ASSUME NEW x \in Drawn, Moves(e, x) PROVE UpOnce(x, w) \in Drawn /\ Moves(e, UpOnce(x, w))
    <3>1. x.text = e.text /\ x.cur_pos \in 0..Len(x.text)
      BY <2>2 DEF Moves
    <3> DEFINE y == UpOnce(x, w)
    <3>2. Moves(x, y)
      BY <3>1, UpOnceIs
    <3> HIDE DEF y
    <3>3. Keeps(e, y) /\ y.text = e.text /\ y.cur_pos \in 0..Len(e.text)
      BY <2>2, <3>1, <3>2, KeepsThen DEF Moves
    <3> QED BY <3>3 DEF Moves, Keeps, y
  <2> QED BY <2>1, <2>2
<1> HIDE DEF S
<1>3. \E f : f = [i \in 0..n |-> E(f, i)]
  <2>1. g \in [S -> S]
    BY <1>2
  <2> HIDE DEF g
  <2>2. PICK f : Follows(f, g, S, n, e)
    BY <2>1, <1>2, Repeats
  <2>3. ASSUME NEW i \in 0..n PROVE f[i] = E(f, i)
    <3>1. CASE i = 0
      BY <3>1, <2>2 DEF Follows
    <3>2. CASE i # 0
      <4>1. i \in 1..n /\ i - 1 \in 0..n
        BY <3>2
      <4>2. f[i - 1] \in S /\ f[i] = g[f[i - 1]]
        BY <4>1, <2>2 DEF Follows
      <4>3. f[i] = UpOnce(f[i - 1], w)
        BY <4>2 DEF g
      <4> QED BY <4>3, <3>2
    <3> QED BY <3>1, <3>2
  <2>4. f = [i \in 0..n |-> E(f, i)]
    <3>1. f = [i \in 0..n |-> f[i]]
      BY <2>2 DEF Follows
    <3> HIDE DEF E
    <3> QED BY <2>3, <3>1
  <2> HIDE DEF E
  <2> QED BY <2>4
<1>4. h = [i \in 0..n |-> E(h, i)]
  <2> HIDE DEF E
  <2> QED BY <1>3
<1> HIDE DEF h
<1>5. h[0] = e /\ \A i \in 1..n : h[i] = UpOnce(h[i - 1], w)
  <2>1. \A i \in 0..n : h[i] = E(h, i)
    <3> HIDE DEF E
    <3> QED BY <1>4
  <2>2. 0 \in 0..n /\ \A i \in 1..n : i \in 0..n /\ i # 0
    OBVIOUS
  <2> QED BY <2>1, <2>2
<1> HIDE DEF E, g
<1>6. h[0] \in S /\ \A i \in 1..n : h[i - 1] \in S => h[i] \in S
  BY <1>2, <1>5
<1>7. h[n] \in S
  BY <1>6, StaysIn
<1> QED BY <1>1, <1>7 DEF S

(* One line down.                                                           *)
LEMMA DownOnceIs ==
    ASSUME NEW e \in Drawn, e.cur_pos \in 0..Len(e.text), NEW w \in Nat
    PROVE  Moves(e, DownOnce(e, w))
<1> DEFINE q == Down(e.text, e.cur_pos, w)
           k == StepsTo(e.text, VrowStart(e.text, e.cur_pos), VrowStart(e.text, q))
           v == IF e.cur_vrow < 0 THEN e.cur_vrow ELSE e.cur_vrow + k
           g == [e EXCEPT !.cur_pos = q, !.cur_vrow = v]
<1>1. e.text \in Seq(Letters) /\ e.cur_vrow \in Int /\ e.cur_pos \in Nat /\ Len(e.text) \in Nat
  BY DrawnHas
<1>2. q \in 0..Len(e.text)
  BY <1>1, UpDownIn
<1>3. DownOnce(e, w) = g
  BY DEF DownOnce
<1> HIDE DEF q
<1>4. q \in Nat
  BY <1>1, <1>2
<1>5. k \in Nat
  <2>1. VrowStart(e.text, q) \in 0..Len(e.text) /\ VrowStart(e.text, e.cur_pos) \in 0..Len(e.text)
    BY <1>1, <1>4, VrowStartIn
  <2>2. VrowStart(e.text, q) \in Int /\ VrowStart(e.text, e.cur_pos) \in Int
    BY <1>1, <2>1
  <2> QED BY <2>2, StepsToAre
<1> HIDE DEF k
<1>6. v \in Int
  BY <1>1, <1>5
<1> HIDE DEF v
<1>7. Keeps(e, g) /\ g.text = e.text /\ g.cur_pos = q
  BY <1>4, <1>6 DEF Drawn, Editors, Keeps
<1> HIDE DEF g
<1> QED BY <1>2, <1>3, <1>7 DEF Moves

(* Several lines down.                                                      *)
LEMMA MvDownIs ==
    ASSUME NEW e \in Drawn, e.cur_pos \in 0..Len(e.text), NEW n \in Nat, NEW w \in Nat
    PROVE  Moves(e, MvDown(e, n, w))
<1> DEFINE S == {x \in Drawn : Moves(e, x)}
           g == [q \in S |-> DownOnce(q, w)]
           E(f, i) == IF i = 0 THEN e ELSE DownOnce(f[i - 1], w)
           h == CHOOSE f : f = [i \in 0..n |-> E(f, i)]
<1>1. MvDown(e, n, w) = h[n]
  BY DEF MvDown, Times
<1>2. e \in S /\ \A q \in S : DownOnce(q, w) \in S
  <2>1. Moves(e, e)
    BY SameSelf DEF Moves, Same
  <2>2. ASSUME NEW x \in Drawn, Moves(e, x) PROVE DownOnce(x, w) \in Drawn /\ Moves(e, DownOnce(x, w))
    <3>1. x.text = e.text /\ x.cur_pos \in 0..Len(x.text)
      BY <2>2 DEF Moves
    <3> DEFINE y == DownOnce(x, w)
    <3>2. Moves(x, y)
      BY <3>1, DownOnceIs
    <3> HIDE DEF y
    <3>3. Keeps(e, y) /\ y.text = e.text /\ y.cur_pos \in 0..Len(e.text)
      BY <2>2, <3>1, <3>2, KeepsThen DEF Moves
    <3> QED BY <3>3 DEF Moves, Keeps, y
  <2> QED BY <2>1, <2>2
<1> HIDE DEF S
<1>3. \E f : f = [i \in 0..n |-> E(f, i)]
  <2>1. g \in [S -> S]
    BY <1>2
  <2> HIDE DEF g
  <2>2. PICK f : Follows(f, g, S, n, e)
    BY <2>1, <1>2, Repeats
  <2>3. ASSUME NEW i \in 0..n PROVE f[i] = E(f, i)
    <3>1. CASE i = 0
      BY <3>1, <2>2 DEF Follows
    <3>2. CASE i # 0
      <4>1. i \in 1..n /\ i - 1 \in 0..n
        BY <3>2
      <4>2. f[i - 1] \in S /\ f[i] = g[f[i - 1]]
        BY <4>1, <2>2 DEF Follows
      <4>3. f[i] = DownOnce(f[i - 1], w)
        BY <4>2 DEF g
      <4> QED BY <4>3, <3>2
    <3> QED BY <3>1, <3>2
  <2>4. f = [i \in 0..n |-> E(f, i)]
    <3>1. f = [i \in 0..n |-> f[i]]
      BY <2>2 DEF Follows
    <3> HIDE DEF E
    <3> QED BY <2>3, <3>1
  <2> HIDE DEF E
  <2> QED BY <2>4
<1>4. h = [i \in 0..n |-> E(h, i)]
  <2> HIDE DEF E
  <2> QED BY <1>3
<1> HIDE DEF h
<1>5. h[0] = e /\ \A i \in 1..n : h[i] = DownOnce(h[i - 1], w)
  <2>1. \A i \in 0..n : h[i] = E(h, i)
    <3> HIDE DEF E
    <3> QED BY <1>4
  <2>2. 0 \in 0..n /\ \A i \in 1..n : i \in 0..n /\ i # 0
    OBVIOUS
  <2> QED BY <2>1, <2>2
<1> HIDE DEF E, g
<1>6. h[0] \in S /\ \A i \in 1..n : h[i - 1] \in S => h[i] \in S
  BY <1>2, <1>5
<1>7. h[n] \in S
  BY <1>6, StaysIn
<1> QED BY <1>1, <1>7 DEF S

(* The first character of the line that is not blank.                      *)
LEMMA BnbIs ==
    ASSUME NEW e \in Drawn
    PROVE  Moves(e, Bnb(e))
<1> DEFINE q == FirstNonBlank(e.text, e.cur_pos)
<1>1. e.text \in Seq(Letters) /\ e.cur_pos \in Nat /\ Len(e.text) \in Nat
  BY DrawnHas
<1>2. q \in 0..Len(e.text)
  BY <1>1, FirstNonBlankIn
<1>3. Bnb(e) = HMove(e, q)
  BY DEF Bnb
<1> HIDE DEF q
<1>4. q \in Nat
  BY <1>1, <1>2
<1>5. Keeps(e, HMove(e, q)) /\ HMove(e, q).text = e.text /\ HMove(e, q).cur_pos = q
  BY <1>4, HMoveIs
<1> QED BY <1>2, <1>3, <1>5 DEF Moves

(* The cached row forgotten.                                               *)
LEMMA UnknownIs ==
    ASSUME NEW e \in Drawn
    PROVE  Same(e, Unknown(e))
<1>1. -1 \in Int
  OBVIOUS
<1> QED BY <1>1, VrowSet DEF Unknown

(* The cursor put anywhere.                                                *)
LEMMA CursorAtIs ==
    ASSUME NEW e \in Drawn, NEW p \in Nat
    PROVE  Keeps(e, CursorAt(e, p)) /\ CursorAt(e, p).text = e.text /\ CursorAt(e, p).cur_pos = p
BY CursorSet DEF CursorAt

(* Where a key takes the cursor.                                           *)
LEMMA ToIs ==
    ASSUME NEW e \in Drawn, e.cur_pos \in 0..Len(e.text), NEW k \in Motions
    PROVE  To(e, k, 1) \in 0..Len(e.text) /\ To(e, k, 1) \in Nat
<1> DEFINE q == Target(e.text, e.cur_pos, k, 1, 0, LineCount(e.text))
<1>1. e.text \in Seq(Letters) /\ Len(e.text) \in Nat /\ 1 \in Nat /\ 0 \in Nat
  BY DrawnHas
<1>2. q \in 0..Len(e.text)
  BY <1>1, TargetIn
<1>3. To(e, k, 1) = q
  BY DEF To
<1> HIDE DEF q
<1> QED BY <1>1, <1>2, <1>3

\* What is known of an editor between commands.
Fine(e) == e \in Drawn /\ (e.mode = "insert" => Settled(e))

(* A cursor placed last is settled.                                        *)
LEMMA SettlesFine ==
    ASSUME NEW e, NEW g, Settles(e, g)
    PROVE  Fine(g)
BY DEF Settles, Shows, Fine

(* What is shown follows the cursor.                                       *)
LEMMA FollowIs ==
    ASSUME NEW e, NEW m \in Drawn
    PROVE  Settles(m, Follow(e, m))
<1> DEFINE s == ScrollToCursor(m)
           old == e.top_pos
<1>1. Shows(m, s)
  BY ScrollToCursorIs
<1>2. Follow(e, m) = UpdateAfterMove(s, old)
  BY DEF Follow
<1> HIDE DEF s, old
<1>3. Settles(s, UpdateAfterMove(s, old))
  BY <1>1, UpdateAfterMoveIs DEF Shows
<1> QED BY <1>1, <1>2, <1>3, SettlesThen

(* All drawn anew.                                                         *)
LEMMA ScrolledAnew ==
    ASSUME NEW e \in Drawn
    PROVE  Fine(Refresh(ScrollToCursor(e)))
<1> DEFINE s == ScrollToCursor(e)
<1>1. s \in Drawn
  BY ScrollToCursorIs DEF Shows
<1> HIDE DEF s
<1>2. Settles(s, Refresh(s))
  BY <1>1, RefreshIs
<1> QED BY <1>2, SettlesFine DEF s

(* The motion keys.                                                        *)
LEMMA WentIs ==
    ASSUME NEW e \in Drawn, e.cur_pos \in 0..Len(e.text), NEW w \in Nat,
           NEW k \in Sideways \cup Farther \cup Vertical
    PROVE  Fine(Went(e, k, w))
<1>1. CASE k \in Sideways
  <2> DEFINE q == To(e, k, 1)
             m == HMove(e, q)
  <2>1. q \in Nat
    <3>1. k \in Motions
      BY <1>1 DEF Sideways, Motions, OpMotions
    <3> QED BY <3>1, ToIs
  <2>2. Went(e, k, w) = UpdateCursor(m)
    BY <1>1 DEF Went, Sideways
  <2> HIDE DEF q
  <2>3. m \in Drawn
    BY <2>1, HMoveIs DEF Keeps
  <2> HIDE DEF m
  <2>4. Settles(m, UpdateCursor(m))
    BY <2>3, UpdateCursorIs
  <2> QED BY <2>2, <2>4, SettlesFine
<1>2. CASE k \in {"w", "b", "e"}
  <2> DEFINE q == To(e, k, 1)
             m == HMove(e, q)
  <2>1. q \in Nat
    <3>1. k \in Motions
      BY <1>2 DEF Motions, OpMotions
    <3> QED BY <3>1, ToIs
  <2>2. Went(e, k, w) = Follow(e, m)
    BY <1>2 DEF Went
  <2> HIDE DEF q
  <2>3. m \in Drawn
    BY <2>1, HMoveIs DEF Keeps
  <2> HIDE DEF m
  <2>4. Settles(m, Follow(e, m))
    BY <2>3, FollowIs
  <2> QED BY <2>2, <2>4, SettlesFine
<1>3. CASE k \in {"j", "k", "CR", "gg"}
  <2> DEFINE d == MvDown(e, 1, w)
             u == MvUp(e, 1, w)
             z == CursorAt(e, 0)
  <2>1. d \in Drawn /\ u \in Drawn /\ z \in Drawn
    <3>1. 1 \in Nat /\ 0 \in Nat
      OBVIOUS
    <3> QED BY <3>1, MvUpIs, MvDownIs, CursorAtIs DEF Moves, Keeps
  <2>2. Went(e, k, w) \in {Follow(e, d), Follow(e, u), Follow(e, Bnb(d)), Follow(e, Bnb(z))}
    BY <1>3 DEF Went
  <2> HIDE DEF d, u, z
  <2>3. Bnb(d) \in Drawn /\ Bnb(z) \in Drawn
    BY <2>1, BnbIs DEF Moves, Keeps
  <2>4. ASSUME NEW m \in Drawn PROVE Fine(Follow(e, m))
    BY FollowIs, SettlesFine
  <2> QED BY <2>1, <2>2, <2>3, <2>4
<1>4. CASE k \in {"G", "^D", "^U"}
  <2> DEFINE n == TextRows \div 2
             d == MvDown(e, n, w)
             u == MvUp(e, n, w)
             q == To(e, "G", 1)
             c == CursorAt(e, q)
             x == Unknown(c)
  <2>1. n \in Nat
    BY Sizes DEF TextRows
  <2>2. q \in Nat
    <3>1. "G" \in Motions
      BY DEF Motions, OpMotions
    <3> QED BY <3>1, ToIs
  <2>3. Went(e, k, w) \in {Refresh(ScrollToCursor(x)), Refresh(ScrollToCursor(d)), Refresh(ScrollToCursor(u))}
    BY <1>4 DEF Went
  <2> HIDE DEF n, q
  <2>4. d \in Drawn /\ u \in Drawn /\ c \in Drawn
    BY <2>1, <2>2, MvUpIs, MvDownIs, CursorAtIs DEF Moves, Keeps
  <2> HIDE DEF d, u, c
  <2>5. x \in Drawn
    BY <2>4, UnknownIs DEF Same, Keeps
  <2> HIDE DEF x
  <2> QED BY <2>3, <2>4, <2>5, ScrolledAnew
<1> QED BY <1>1, <1>2, <1>3, <1>4 DEF Farther, Vertical

(* A page of lines.                                                        *)
LEMMA PagedIs ==
    ASSUME NEW e \in Drawn, NEW top
    PROVE  Fine(Paged(e, top))
<1> DEFINE mid == Min({top + (TextRows - 1) \div 2, LineCount(e.text) - 1})
           p == LineStart(e.text, top)
           q == LineStart(e.text, mid)
           a == [e EXCEPT !.top_pos = p]
           b == CursorAt(a, q)
           c == Bnb(b)
           d == Unknown(c)
<1>1. e.text \in Seq(Letters) /\ Len(e.text) \in Nat
  BY DrawnHas
<1>2. Paged(e, top) = Refresh(d)
  BY DEF Paged, Top
<1> HIDE DEF mid
<1>3. p \in Nat /\ q \in Nat
  <2>1. p \in 0..Len(e.text) /\ q \in 0..Len(e.text)
    BY <1>1, LineStartIn
  <2> HIDE DEF p, q
  <2> QED BY <1>1, <2>1
<1> HIDE DEF p, q
<1>4. a \in Drawn
  BY <1>3 DEF Drawn, Editors
<1> HIDE DEF a
<1>5. b \in Drawn
  BY <1>3, <1>4, CursorAtIs DEF Keeps
<1> HIDE DEF b
<1>6. c \in Drawn
  BY <1>5, BnbIs DEF Moves, Keeps
<1> HIDE DEF c
<1>7. d \in Drawn
  BY <1>6, UnknownIs DEF Same, Keeps
<1> HIDE DEF d
<1>8. Settles(d, Refresh(d))
  BY <1>7, RefreshIs
<1> QED BY <1>2, <1>8, SettlesFine

(* ^F and ^B.                                                              *)
LEMMA PageIs ==
    ASSUME NEW e \in Drawn, e.mode = "normal"
    PROVE  Fine(PageForward(e)) /\ Fine(PageBack(e))
<1>1. Fine(e)
  BY DEF Fine
<1>2. PICK x : PageForward(e) \in {e, Paged(e, x)}
  BY DEF PageForward
<1>3. PICK y : PageBack(e) \in {e, Paged(e, y)}
  BY DEF PageBack
<1> QED BY <1>1, <1>2, <1>3, PagedIs

(* A pattern found.                                                        *)
LEMMA FoundIs ==
    ASSUME NEW e \in Drawn, NEW q \in Nat
    PROVE  Fine(Found(e, q)) /\ Fine(Told(Found(e, q)))
<1> DEFINE a == CursorAt(e, q)
           b == Unknown(a)
           c == Follow(e, b)
<1>1. Found(e, q) = c
  BY DEF Found
<1>2. a \in Drawn
  BY CursorAtIs DEF Keeps
<1> HIDE DEF a
<1>3. b \in Drawn
  BY <1>2, UnknownIs DEF Same, Keeps
<1> HIDE DEF b
<1>4. Settles(b, c)
  BY <1>3, FollowIs
<1> HIDE DEF c
<1>5. Settles(c, Told(c))
  BY <1>4, ToldIs DEF Settles, Shows
<1> QED BY <1>1, <1>4, <1>5, SettlesFine

(* :N.                                                                     *)
LEMMA LineIs ==
    ASSUME NEW e \in Drawn, NEW l
    PROVE  Fine(Line(e, l))
<1> DEFINE s == StatusLine(e, <<Message>>)
           p == LineStart(e.text, l)
           a == CursorAt(s, p)
           b == Unknown(a)
<1>1. e.text \in Seq(Letters) /\ Len(e.text) \in Nat
  BY DrawnHas
<1>2. Line(e, l) = Refresh(ScrollToCursor(b))
  BY DEF Line
<1>3. p \in Nat
  <2>1. p \in 0..Len(e.text)
    BY <1>1, LineStartIn
  <2> HIDE DEF p
  <2> QED BY <1>1, <2>1
<1>4. s \in Drawn
  BY StatusLineIs DEF Shows
<1> HIDE DEF s, p
<1>5. a \in Drawn
  BY <1>3, <1>4, CursorAtIs DEF Keeps
<1> HIDE DEF a
<1>6. b \in Drawn
  BY <1>5, UnknownIs DEF Same, Keeps
<1> HIDE DEF b
<1> QED BY <1>2, <1>6, ScrolledAnew

-----------------------------------------------------------------------------
(* The keys.                                                               *)

(* Told anything, the editor is fine.                                      *)
LEMMA EndsFine ==
    ASSUME NEW e \in Drawn
    PROVE  /\ Fine(Told(e)) /\ Fine(Refresh(e)) /\ Fine(ShowStatus(e)) /\ Fine(ClearStatus(e))
           /\ Fine(UpdateCursor(e)) /\ Fine(RedrawCurLine(e)) /\ Fine(RedrawFromCur(e))
           /\ Fine(Adj(e)) /\ Fine(AfterEdit(e))
           /\ Fine(ShowStatus(RedrawFromCur(e))) /\ Fine(ShowStatus(RedrawCurLine(e)))
           /\ Fine(ShowStatus(Adj(e))) /\ Fine(ShowStatus(AfterEdit(e)))
<1>1. ASSUME NEW f \in Drawn
      PROVE  /\ Fine(Told(f)) /\ Fine(Refresh(f)) /\ Fine(ShowStatus(f)) /\ Fine(ClearStatus(f))
             /\ Fine(UpdateCursor(f)) /\ Fine(RedrawCurLine(f)) /\ Fine(RedrawFromCur(f))
             /\ Fine(Adj(f)) /\ Fine(AfterEdit(f))
  BY ToldIs, RefreshIs, ShowStatusIs, UpdateCursorIs, RedrawCurLineIs, RedrawFromCurIs, AdjIs, SettlesFine
<1>2. /\ RedrawFromCur(e) \in Drawn /\ RedrawCurLine(e) \in Drawn
      /\ Adj(e) \in Drawn /\ AfterEdit(e) \in Drawn
  BY <1>1 DEF Fine
<1> QED BY <1>1, <1>2

(* An operator.                                                            *)
LEMMA OperatedFine ==
    ASSUME NEW e \in Drawn, e.cur_pos \in 0..Len(e.text), e.mode = "normal",
           NEW op \in Operators, NEW m \in OpMotions \cup {op}
    PROVE  Fine(Operated(e, op, m))
<1> DEFINE none == [text |-> << >>, line |-> FALSE]
           b == [e EXCEPT !.yank = none]
           r == IF m = op THEN Doubled(b, op, 1) ELSE WithMotion(b, op, m, 1)
           y == e.yank
           g == [r EXCEPT !.yank = y]
<1>1. Operated(e, op, m) \in {g} \/ (r.yank # none /\ Operated(e, op, m) \in
                                        {Told(r), ShowStatus(AfterEdit(r)), AfterEdit(r)})
      \/ (r.yank = none /\ Operated(e, op, m) = g)
  BY DEF Operated
<1>2. Operated(e, op, m) = IF r.yank = none THEN g
                           ELSE IF op = "y" THEN Told(r)
                           ELSE IF op = "c" THEN ShowStatus(AfterEdit(r)) ELSE AfterEdit(r)
  BY DEF Operated
<1>3. none \in YankRecords /\ none.text = << >>
  <2> DEFINE x == << >>
  <2>1. x \in Seq(Letters) /\ FALSE \in BOOLEAN
    OBVIOUS
  <2>2. none = [text |-> x, line |-> FALSE]
    OBVIOUS
  <2>3. none.text = << >>
    OBVIOUS
  <2>4. none \in YankRecords
    <3> HIDE DEF x, none
    <3> QED BY <2>1, <2>2 DEF YankRecords
  <2> QED BY <2>3, <2>4
<1> HIDE DEF none
<1>4. b \in Drawn /\ b.text = e.text /\ b.cur_pos = e.cur_pos /\ b.mode = e.mode
  BY <1>3, YankSet
<1> HIDE DEF b
<1>5. Operates(b, r)
  BY <1>4, OperateIs
<1> HIDE DEF r
<1>6. r \in Drawn
  BY <1>5 DEF Operates
<1>7. r.yank = none => Fine(g)
  <2> SUFFICES ASSUME r.yank = none PROVE Fine(g)
    OBVIOUS
  <2>1. r.mode = "normal"
    BY <1>3, <1>4, <1>5 DEF Operates
  <2>2. y \in YankRecords
    BY RecordsAre
  <2> HIDE DEF y
  <2>3. g \in Drawn /\ g.mode = r.mode
    BY <1>6, <2>2, YankSet
  <2> HIDE DEF g
  <2> QED BY <2>1, <2>3 DEF Fine
<1>8. Fine(Told(r)) /\ Fine(ShowStatus(AfterEdit(r))) /\ Fine(AfterEdit(r))
  BY <1>6, EndsFine
<1> QED BY <1>2, <1>7, <1>8

(* r.                                                                      *)
LEMMA ReplacingFine ==
    ASSUME NEW e \in Drawn, e.mode = "normal", NEW c \in Letters
    PROVE  Fine(Replacing(e, c))
<1> DEFINE r == Replace(e, c)
<1>1. r \in Drawn
  BY ReplaceIs DEF Keeps
<1>2. Replacing(e, c) \in {e, Refresh(r), RedrawCurLine(r)}
  BY DEF Replacing
<1> HIDE DEF r
<1>3. Fine(e)
  BY DEF Fine
<1> QED BY <1>1, <1>2, <1>3, EndsFine

(* J ~ p P u.                                                              *)
LEMMA ChangedFine ==
    ASSUME NEW e \in Drawn, e.mode = "normal", NEW k \in {"J", "~", "p", "P", "u"}
    PROVE  Fine(Changed(e, k))
<1>1. Fine(e)
  BY DEF Fine
<1>2. CASE k = "~"
  <2> DEFINE r == Tilde(e, 1)
             p == e.cur_pos
             q == r.cur_pos
             a == CursorAt(r, p)
             b == HMove(a, q)
  <2>1. Changed(e, k) = IF OnCharacter(e) THEN RedrawCurLine(b) ELSE r
    BY <1>2 DEF Changed, Toggling
  <2>2. Keeps(e, r)
    BY TildeIs
  <2> HIDE DEF r
  <2>3. p \in Nat /\ q \in Nat
    BY <2>2, DrawnHas DEF Keeps
  <2> HIDE DEF p, q
  <2>4. a \in Drawn
    BY <2>2, <2>3, CursorAtIs DEF Keeps
  <2> HIDE DEF a
  <2>5. b \in Drawn
    BY <2>3, <2>4, HMoveIs DEF Keeps
  <2> HIDE DEF b
  <2>6. Fine(r)
    BY <2>2 DEF Fine, Keeps
  <2> QED BY <2>1, <2>5, <2>6, EndsFine
<1>3. CASE k # "~"
  <2> DEFINE j == Join(e, 1)
             p == PutAfter(e)
             q == PutBefore(e)
             u == Undone(e)
  <2>1. j \in Drawn /\ p \in Drawn /\ q \in Drawn /\ u \in Drawn
    BY JoinIs, PutIs, UndoneIs DEF Keeps
  <2>2. Changed(e, k) \in {ShowStatus(RedrawFromCur(j)), e, AfterEdit(p), AfterEdit(q), Told(e), AfterEdit(u)}
    BY <1>3 DEF Changed
  <2> HIDE DEF j, p, q, u
  <2>3. /\ Fine(ShowStatus(RedrawFromCur(j))) /\ Fine(AfterEdit(p)) /\ Fine(AfterEdit(q))
        /\ Fine(Told(e)) /\ Fine(AfterEdit(u))
    BY <2>1, EndsFine
  <2> QED BY <1>1, <2>2, <2>3
<1> QED BY <1>2, <1>3

(* Insert mode entered.                                                    *)
LEMMA EnteredFine ==
    ASSUME NEW e \in Drawn, e.cur_pos \in 0..Len(e.text), NEW c \in InsertCmds
    PROVE  Fine(Entered(e, c))
<1> DEFINE r == Enter(e, c)
           p == r.cur_pos
           q == LastOn(e.text, e.cur_pos)
           x == HMove(e, p)
           y == HMove(e, q)
           over == CASE c = "I" -> x [] c = "A" -> y [] OTHER -> r
           v == over.cur_vrow
           g == [r EXCEPT !.cur_vrow = v]
<1>1. Entered(e, c) = IF c \in {"o", "O"} THEN ShowStatus(Adj(r)) ELSE ShowStatus(g)
  BY DEF Entered
<1>2. r \in Drawn
  BY EnterIs
<1> HIDE DEF r
<1>3. p \in Nat /\ q \in Nat
  <2>1. p \in Nat /\ e.text \in Seq(Letters) /\ Len(e.text) \in Nat
    BY <1>2, DrawnHas
  <2>2. q \in e.cur_pos..Len(e.text)
    BY <2>1, LastOnIn
  <2> HIDE DEF q
  <2>3. e.cur_pos \in Nat
    BY DrawnHas
  <2> QED BY <2>1, <2>2, <2>3
<1> HIDE DEF p, q
<1>4. x \in Drawn /\ y \in Drawn
  BY <1>3, HMoveIs DEF Keeps
<1> HIDE DEF x, y
<1>5. over \in Drawn
  BY <1>2, <1>4
<1> HIDE DEF over
<1>6. v \in Int
  BY <1>5, DrawnHas
<1> HIDE DEF v
<1>7. g \in Drawn
  BY <1>2, <1>6, VrowSet DEF Same, Keeps
<1> HIDE DEF g
<1> QED BY <1>1, <1>2, <1>7, EndsFine

(* Insert mode left.                                                       *)
LEMMA EscapedFine ==
    ASSUME NEW e \in Drawn
    PROVE  Fine([Escaped(e) EXCEPT !.status = FALSE])
<1> DEFINE r == Escape(e)
           s == ScrollToCursor(r)
           g == Escaped(e)
<1>1. g \in {Refresh(s), ShowStatus(RedrawCurLine(s))}
  BY DEF Escaped
<1>2. r \in Drawn
  BY EscapeIs
<1> HIDE DEF r
<1>3. s \in Drawn
  BY <1>2, ScrollToCursorIs DEF Shows
<1> HIDE DEF s, g
<1>4. Fine(g)
  BY <1>1, <1>3, EndsFine
<1> DEFINE h == [g EXCEPT !.status = FALSE]
<1>5. FALSE \in BOOLEAN /\ g \in Drawn
  BY <1>4 DEF Fine
<1>6. Shows(g, h) /\ h.term = g.term
  BY <1>5, StatusSet
<1> HIDE DEF h
<1>7. Fine(h)
  BY <1>4, <1>6 DEF Fine, Shows, Settled
<1> QED BY <1>7 DEF h, g

(* A backspace.                                                            *)
LEMMA BackspacedFine ==
    ASSUME NEW e \in Drawn, Fine(e)
    PROVE  Fine(Backspaced(e))
<1> DEFINE r == InsertKey(e, "BS")
           b == PutBack(r.term)
           x == IF AtLineEnd(r) THEN ClrEol(b) ELSE DelChar(b)
           g == [r EXCEPT !.term = x]
<1>1. Backspaced(e) \in {e, ShowStatus(Adj(r)), g}
  BY DEF Backspaced
<1>2. r \in Drawn
  BY InsertKeyIs DEF Keeps
<1> HIDE DEF r
<1>3. x \in Tracking /\ ~ Known(x)
  <2> DEFINE t == r.term
             d == DevBack(t)
  <2>1. t \in Terminals(Glyphs) /\ Blank \in Glyphs
    BY <1>2, DrawnHas, GlyphsAre DEF Tracking
  <2>2. b = Believed(d, -1, -1)
    BY DEF PutBack
  <2> HIDE DEF t
  <2>3. d \in Terminals(Glyphs) /\ ~ d.wrap
    BY <2>1, DevBackIs DEF Stands
  <2> HIDE DEF d, b
  <2>4. -1 \in -1..(Rows - 1) /\ -1 \in Int
    BY Sizes
  <2>5. b \in Terminals(Glyphs) /\ ~ b.wrap /\ b.trow = -1 /\ b.tcol = -1
    BY <2>2, <2>3, <2>4, BelievedIs
  <2>6. Stands(Glyphs, b, ClrEol(b), b.row, b.col, FALSE, b.slid)
    BY <2>1, <2>5, DevClrEolIs DEF ClrEol
  <2>7. Stands(Glyphs, b, DelChar(b), b.row, b.col, FALSE, b.slid)
    BY <2>1, <2>5, DevShiftIs DEF DelChar
  <2> DEFINE y == ClrEol(b)
             z == DelChar(b)
  <2> HIDE DEF y, z
  <2>8. x \in {y, z}
    BY DEF y, z
  <2>9. y \in Terminals(Glyphs) /\ ~ y.wrap /\ y.trow = -1 /\ y.tcol = -1
    BY <2>5, <2>6 DEF Stands, y
  <2>10. z \in Terminals(Glyphs) /\ ~ z.wrap /\ z.trow = -1 /\ z.tcol = -1
    BY <2>5, <2>7 DEF Stands, z
  <2> HIDE DEF x
  <2>11. x \in Terminals(Glyphs) /\ ~ x.wrap /\ x.trow = -1 /\ x.tcol = -1
    BY <2>8, <2>9, <2>10
  <2> QED BY <2>11 DEF Tracking, Sound, Known
<1> HIDE DEF x, b
<1>4. Shows(r, g) /\ g.term = x
  BY <1>2, <1>3, TermSet
<1> HIDE DEF g
<1>5. Fine(g)
  BY <1>3, <1>4 DEF Fine, Shows, Settled
<1> QED BY <1>1, <1>2, <1>5, EndsFine

(* ^W and ^U.                                                              *)
LEMMA ErasedFine ==
    ASSUME NEW e \in Drawn
    PROVE  Fine(WordErased(e)) /\ Fine(LineErased(e))
<1> DEFINE r == InsertKey(e, "^W")
           s == InsertKey(e, "^U")
<1>1. WordErased(e) \in {ShowStatus(e), ShowStatus(Adj(r)), ShowStatus(RedrawCurLine(r))}
  BY DEF WordErased
<1>2. LineErased(e) = RedrawCurLine(s)
  BY DEF LineErased
<1>3. r \in Drawn /\ s \in Drawn
  BY InsertKeyIs DEF Keeps
<1> HIDE DEF r, s
<1> QED BY <1>1, <1>2, <1>3, EndsFine

(* The arrow keys.                                                         *)
LEMMA GlidedFine ==
    ASSUME NEW e \in Drawn, e.cur_pos \in 0..Len(e.text), NEW k \in {"Left", "Right", "Up", "Down"},
           NEW w \in Nat
    PROVE  Fine(Glided(e, k, w))
<1> DEFINE p == To(e, "h", 1)
           q == To(e, "l", 1)
           a == HMove(e, p)
           b == HMove(e, q)
           c == MvUp(e, 1, w)
           d == MvDown(e, 1, w)
           s(x) == UpdateCursor(ScrollToCursor(x))
<1>1. Glided(e, k, w) \in {s(a), s(b), s(c), s(d)}
  BY DEF Glided
<1>2. p \in Nat /\ q \in Nat
  <2>1. "h" \in Motions /\ "l" \in Motions
    BY DEF Motions, OpMotions
  <2> QED BY <2>1, ToIs
<1> HIDE DEF p, q
<1>3. a \in Drawn /\ b \in Drawn /\ c \in Drawn /\ d \in Drawn
  <2>1. 1 \in Nat
    OBVIOUS
  <2> QED BY <1>2, <2>1, HMoveIs, MvUpIs, MvDownIs DEF Moves, Keeps
<1> HIDE DEF a, b, c, d
<1>4. ASSUME NEW x \in Drawn PROVE Fine(s(x))
  <2> DEFINE y == ScrollToCursor(x)
  <2>1. y \in Drawn
    BY ScrollToCursorIs DEF Shows
  <2> HIDE DEF y
  <2>2. Fine(UpdateCursor(y))
    BY <2>1, EndsFine
  <2> QED BY <2>2 DEF y
<1> HIDE DEF s
<1> QED BY <1>1, <1>3, <1>4

-----------------------------------------------------------------------------
(* Typing.                                                                 *)

(* A character sent where there is room, with the row opened or not.       *)
LEMMA ShiftedIs ==
    ASSUME NEW t \in Tracking, Known(t) => t.tcol <= Cols - 2, NEW ch \in Glyphs,
           NEW s \in {t, InsChar(t)}, NEW u, u = PutChar(s, ch)
    PROVE  u \in Tracking /\ u.trow = t.trow /\ u.tcol = IF t.tcol >= 0 THEN t.tcol + 1 ELSE t.tcol
<1>1. /\ t \in Terminals(Glyphs) /\ Sound(t) /\ Blank \in Glyphs
      /\ t.tcol \in Int /\ t.col \in 0..(Cols - 1) /\ t.trow \in -1..(Rows - 1) /\ Cols \in Nat
      /\ t.wrap \in BOOLEAN /\ t.slid \in BOOLEAN
  BY GlyphsAre, TerminalHas, Sizes DEF Tracking
<1>2. Known(t) => ~ t.wrap
  BY <1>1 DEF Sound
<1> DEFINE i == InsChar(t)
<1>3. Stands(Glyphs, t, i, t.row, t.col, FALSE, t.slid)
  BY <1>1, DevShiftIs DEF InsChar
<1> HIDE DEF i
<1>4. i \in Terminals(Glyphs) /\ i.trow = t.trow /\ i.tcol = t.tcol
  BY <1>3 DEF Stands
<1>5. Sound(i)
  <2>1. CASE Known(t)
    <3>1. i.wrap = FALSE /\ i.slid = t.slid /\ i.row = t.row /\ i.col = t.col
      BY <1>3 DEF Stands
    <3> QED BY <1>1, <1>2, <1>4, <2>1, <3>1 DEF Sound, Known
  <2>2. CASE ~ Known(t)
    <3>1. i.wrap = FALSE
      BY <1>3 DEF Stands
    <3> QED BY <1>1, <1>4, <2>2, <3>1 DEF Sound, Known
  <2> QED BY <2>1, <2>2
<1>6. s \in Terminals(Glyphs) /\ Sound(s) /\ s.trow = t.trow /\ s.tcol = t.tcol
  BY <1>1, <1>4, <1>5 DEF i
<1>7. Known(s) => s.tcol <= Cols - 1
  BY <1>1, <1>6 DEF Known
<1>8. u \in Terminals(Glyphs) /\ Sound(u) /\ u.trow = s.trow /\ u.tcol = IF s.tcol >= 0 THEN s.tcol + 1 ELSE s.tcol
  BY <1>1, <1>6, <1>7, PutCharIs
<1> QED BY <1>6, <1>8 DEF Tracking

\* The text with a character more.
With(t, p, c) == First(t, p) \o <<c>> \o From(t, p)

(* What is before the character stays.                                     *)
LEMMA TypedText ==
    ASSUME NEW t \in Seq(Letters), NEW p \in 0..Len(t), NEW c \in Letters
    PROVE  /\ Len(With(t, p, c)) = Len(t) + 1 /\ At(With(t, p, c), p) = c
           /\ \A q \in 0..(p - 1) : At(With(t, p, c), q) = At(t, q)
<1> DEFINE u == With(t, p, c)
           x == First(t, p)
           s == <<c>>
           y == From(t, p)
           a == x \o s
<1>1. Len(t) \in Nat /\ p \in Nat /\ p <= Len(t)
  OBVIOUS
<1>2. x \in Seq(Letters) /\ Len(x) = p /\ x = SubSeq(t, 1, p)
  BY <1>1, FirstIs
<1>3. y \in Seq(Letters) /\ Len(y) = Len(t) - p
  BY <1>1, FromIs
<1>4. s \in Seq(Letters) /\ Len(s) = 1 /\ s[1] = c
  OBVIOUS
<1>5. \A i \in 1..p : x[i] = t[i]
  BY <1>1, <1>2
<1>6. u = a \o y
  BY DEF With
<1> HIDE DEF x, s, y, u
<1>7. /\ a \in Seq(Letters) /\ Len(a) = p + 1
      /\ \A i \in 1..(p + 1) : a[i] = IF i <= p THEN x[i] ELSE s[i - p]
  <2>1. /\ x \o s \in Seq(Letters) /\ Len(x \o s) = Len(x) + Len(s)
        /\ \A i \in 1..(Len(x) + Len(s)) : (x \o s)[i] = IF i <= Len(x) THEN x[i] ELSE s[i - Len(x)]
    BY <1>2, <1>4, ConcatProperties
  <2>2. a = x \o s
    OBVIOUS
  <2> HIDE DEF a
  <2> QED BY <1>2, <1>4, <2>1, <2>2
<1> HIDE DEF a
<1>8. /\ Len(u) = Len(a) + Len(y)
      /\ \A i \in 1..(Len(a) + Len(y)) : u[i] = IF i <= Len(a) THEN a[i] ELSE y[i - Len(a)]
  <2>1. /\ Len(a \o y) = Len(a) + Len(y)
        /\ \A i \in 1..(Len(a) + Len(y)) : (a \o y)[i] = IF i <= Len(a) THEN a[i] ELSE y[i - Len(a)]
    BY <1>3, <1>7, ConcatProperties
  <2> QED BY <1>6, <2>1
<1>9. Len(u) = Len(t) + 1
  <2>1. Len(u) = Len(a) + Len(y) /\ Len(a) = p + 1 /\ Len(y) = Len(t) - p
    BY <1>3, <1>7, <1>8
  <2> QED BY <1>1, <2>1
<1>10. \A i \in 1..(p + 1) : u[i] = a[i]
  <2>1. \A i \in 1..(p + 1) : i \in 1..(Len(a) + Len(y)) /\ i <= Len(a)
    BY <1>1, <1>3, <1>7
  <2> QED BY <1>8, <2>1
<1>11. u[p + 1] = c
  <2>1. p + 1 \in 1..(p + 1) /\ ~ (p + 1 <= p) /\ (p + 1) - p = 1
    BY <1>1
  <2> QED BY <1>4, <1>7, <1>10, <2>1
<1>12. \A i \in 1..p : u[i] = t[i]
  <2>1. \A i \in 1..p : i \in 1..(p + 1) /\ i <= p
    BY <1>1
  <2> QED BY <1>5, <1>7, <1>10, <2>1
<1>13. At(u, p) = c
  BY <1>1, <1>9, <1>11 DEF At
<1>14. ASSUME NEW q \in 0..(p - 1) PROVE At(u, q) = At(t, q)
  <2>1. q + 1 \in 1..p /\ q \in 0..(Len(u) - 1) /\ q \in 0..(Len(t) - 1)
    BY <1>1, <1>9
  <2> QED BY <1>12, <2>1 DEF At
<1> QED BY <1>9, <1>13, <1>14 DEF u

(* Typed in a line, it leaves its beginning; if no line comes to fill its  *)
(* row, there was room for it.                                             *)
LEMMA TypedOn ==
    ASSUME NEW t \in Seq(Letters), NEW p \in 0..Len(t), NEW c \in Letters, c # NL
    PROVE  /\ Bol(With(t, p, c), p + 1) <= Bol(t, p)
           /\ ~ Wide(With(t, p, c)) => p - Bol(t, p) <= Cols - 2
<1> DEFINE u == With(t, p, c)
           B == {0} \cup {q \in 1..p : At(t, q - 1) = NL}
           D == {0} \cup {q \in 1..(p + 1) : At(u, q - 1) = NL}
           b == Bol(t, p)
           d == Bol(u, p + 1)
           m == Eol(u, b)
           E == {Len(u)} \cup {q \in b..(Len(u) - 1) : At(u, q) = NL}
<1>1. Len(t) \in Nat /\ p \in Nat /\ p <= Len(t) /\ p + 1 \in Nat /\ Cols \in Nat
  BY Sizes
<1>2. Len(u) = Len(t) + 1 /\ At(u, p) = c /\ \A q \in 0..(p - 1) : At(u, q) = At(t, q)
  BY TypedText
<1> HIDE DEF u
<1>3. b = Max(B) /\ d = Max(D) /\ m = Min(E)
  BY DEF Bol, Eol
<1>4. B \subseteq 0..p /\ B # {} /\ D \subseteq 0..(p + 1) /\ D # {}
  BY <1>1
<1>5. b \in B /\ \A k \in B : k <= b
  <2> HIDE DEF B, b
  <2> QED BY <1>1, <1>3, <1>4, MaxIs
<1>6. d \in D
  <2> HIDE DEF D, d
  <2> QED BY <1>1, <1>3, <1>4, MaxIs
<1>7. b \in 0..p
  BY <1>4, <1>5
<1> HIDE DEF b, d
<1>8. d <= b
  <2>1. CASE d = 0
    BY <1>7, <2>1
  <2>2. CASE d # 0
    <3>1. d \in 1..(p + 1) /\ At(u, d - 1) = NL
      BY <1>6, <2>2
    <3>2. d # p + 1
      <4>1. (p + 1) - 1 = p
        BY <1>1
      <4> QED BY <1>2, <3>1, <4>1
    <3>3. d \in 1..p /\ d - 1 \in 0..(p - 1)
      BY <1>1, <3>1, <3>2
    <3>4. d \in B
      BY <1>2, <3>1, <3>3
    <3> QED BY <1>5, <3>4
  <2> QED BY <2>1, <2>2
<1>9. E \subseteq Nat /\ E # {}
  BY <1>1, <1>2, <1>7
<1>10. m \in E
  <2> HIDE DEF E, m
  <2> QED BY <1>3, <1>9, MinIs
<1> HIDE DEF m
<1>11. m \in Nat /\ m >= p + 1
  <2>1. CASE m = Len(u)
    BY <1>1, <1>2, <2>1
  <2>2. CASE m # Len(u)
    <3>1. m \in b..(Len(u) - 1) /\ At(u, m) = NL
      BY <1>10, <2>2
    <3>2. m \in Nat /\ m # p
      BY <1>2, <1>7, <3>1
    <3>3. ASSUME m < p PROVE FALSE
      <4>1. m \in 0..(p - 1) /\ m + 1 \in 1..p /\ (m + 1) - 1 = m
        BY <1>1, <3>2, <3>3
      <4>2. m + 1 \in B
        BY <1>2, <3>1, <4>1
      <4>3. m + 1 <= b
        <5> HIDE DEF B
        <5> QED BY <1>5, <4>2
      <4>4. b <= m
        BY <1>7, <3>1
      <4> QED BY <1>7, <3>2, <4>3, <4>4
    <3> QED BY <1>1, <3>2, <3>3
  <2> QED BY <2>1, <2>2
<1>12. ASSUME ~ Wide(u) PROVE p - b <= Cols - 2
  <2>1. b \in 0..Len(u)
    BY <1>1, <1>2, <1>7
  <2>2. ~ (m - b >= Cols)
    BY <1>12, <2>1 DEF Wide, m
  <2> QED BY <1>1, <1>7, <1>11, <2>2
<1> QED BY <1>8, <1>12 DEF b, d, u

(* A character typed; the cursor is mistaken only when a line comes to     *)
(* fill its row.                                                           *)
LEMMA TypedFine ==
    ASSUME NEW e \in Drawn, Fine(e), e.mode = "insert", e.cur_pos \in 0..Len(e.text), NEW c \in Letters
    PROVE  Fine(Typed(e, c)) \/ (Typed(e, c).text # e.text /\ Wide(Typed(e, c).text))
<1> DEFINE r == Type(e, c)
           s == IF AtLineEnd(r) THEN r.term ELSE InsChar(r.term)
           x == PutChar(s, c)
           g == [r EXCEPT !.term = x]
           t == e.text
           p == e.cur_pos
           u == r.text
<1>1. \/ Typed(e, c) \in {Told(r), ShowStatus(Adj(r)), RedrawCurLine(r)}
      \/ ~ Full(e) /\ c # NL /\ Typed(e, c) = g
  BY DEF Typed
<1>2. Keeps(e, r)
  BY TypeIs
<1>3. ~ Full(e) => r.cur_pos = p + 1 /\ u = With(t, p, c)
  BY TypeIs DEF With
<1>4. t \in Seq(Letters) /\ p \in 0..Len(t) /\ e.term \in Tracking /\ Len(t) \in Nat
  BY DrawnHas
<1> HIDE DEF r
<1>5. r \in Drawn /\ r.term = e.term /\ r.mode = "insert" /\ u \in Seq(Letters)
  BY <1>2, DrawnHas DEF Keeps
<1>6. CASE Typed(e, c) \in {Told(r), ShowStatus(Adj(r)), RedrawCurLine(r)}
  BY <1>5, <1>6, EndsFine
<1>7. CASE ~ Full(e) /\ c # NL /\ Typed(e, c) = g
  <2>1. g.text = u
    BY <1>5 DEF Drawn, Editors
  <2>2. u # t
    <3> HIDE DEF u, t, p
    <3>1. Len(u) = Len(t) + 1
      BY <1>3, <1>4, <1>7, TypedText
    <3> QED BY <1>4, <3>1
  <2>3. ASSUME ~ Wide(u) PROVE Fine(g)
    <3>1. Bol(u, p + 1) <= Bol(t, p) /\ p - Bol(t, p) <= Cols - 2
      <4> HIDE DEF u, t, p
      <4> QED BY <1>3, <1>4, <1>5, <1>7, <2>3, TypedOn DEF u
    <3> DEFINE a == e.term
               b == Bol(t, p)
               d == Bol(u, p + 1)
    <3>2. b \in Int /\ d \in Int /\ p \in Nat /\ Cols \in Nat /\ a.tcol \in Int
      <4>1. p \in Nat /\ p + 1 \in Nat
        BY <1>4
      <4>2. b \in 0..p /\ d \in 0..(p + 1)
        <5> HIDE DEF u, t, p
        <5> QED BY <1>4, <1>5, <4>1, LineEnds DEF u
      <4>3. a.tcol \in Int
        BY <1>4, TerminalHas DEF Tracking
      <4> QED BY <4>1, <4>2, <4>3, Sizes
    <3>3. Known(a) => a.tcol <= p - b
      BY DEF Fine, Settled
    <3> HIDE DEF b, d
    <3>4. b >= d /\ p - b <= Cols - 2
      BY <3>1, <3>2 DEF b, d
    <3>5. Known(a) => a.tcol <= Cols - 2
      BY <3>2, <3>3, <3>4
    <3>6. c \in Glyphs /\ s \in {a, InsChar(a)} /\ a \in Tracking
      BY <1>4, <1>5, GlyphsAre
    <3> HIDE DEF a, s
    <3>7. x \in Tracking /\ x.trow = a.trow /\ x.tcol = IF a.tcol >= 0 THEN a.tcol + 1 ELSE a.tcol
      BY <3>5, <3>6, ShiftedIs
    <3> HIDE DEF x
    <3>8. Shows(r, g) /\ g.term = x
      BY <1>5, <3>7, TermSet
    <3>9. Known(x) => x.tcol <= (p + 1) - d
      BY <3>2, <3>3, <3>4, <3>7 DEF Known
    <3> HIDE DEF g
    <3>10. g \in Drawn /\ g.text = u /\ g.cur_pos = p + 1
      BY <1>3, <1>7, <3>8 DEF Shows
    <3>11. Settled(g)
      BY <3>8, <3>9, <3>10 DEF Settled, d
    <3> QED BY <3>10, <3>11 DEF Fine
  <2> HIDE DEF g
  <2> QED BY <1>7, <2>1, <2>2, <2>3
<1> QED BY <1>1, <1>6, <1>7

-----------------------------------------------------------------------------
(* The user.                                                               *)

(* A cleared screen: the program does not know where the cursor is.        *)
LEMMA ClearedIn ==
    Cleared \in Tracking
<1>1. EmptyRow \in [0..(Cols - 1) -> Glyphs]
  BY GlyphsAre DEF EmptyRow
<1>2. /\ 0 \in 0..(Rows - 1) /\ 0 \in 0..(Cols - 1) /\ -1 \in -1..(Rows - 1) /\ -1 \in Int
      /\ FALSE \in BOOLEAN
  BY Sizes
<1>3. Cleared \in Terminals(Glyphs)
  <2> DEFINE x == [r \in 0..(Rows - 1) |-> EmptyRow]
  <2>1. x \in [0..(Rows - 1) -> [0..(Cols - 1) -> Glyphs]]
    BY <1>1
  <2>2. Cleared = [cells |-> x, row |-> 0, col |-> 0, wrap |-> FALSE, slid |-> FALSE, trow |-> -1, tcol |-> -1]
    BY DEF Cleared
  <2> HIDE DEF x
  <2> QED BY <1>2, <2>1, <2>2 DEF Terminals
<1>4. ~ Cleared.wrap /\ Cleared.trow = -1 /\ Cleared.tcol = -1
  BY DEF Cleared
<1> QED BY <1>3, <1>4 DEF Tracking, Sound, Known

\* An editor, and one with a terminal.
Editor(t, n, p, m, i, b, v, u, y, d) ==
    [text |-> t, line_cnt |-> n, cur_pos |-> p, mode |-> m, ins |-> i, modified |-> b, cur_vrow |-> v,
     undo |-> u, yank |-> y, dot |-> d]
WithTerminal(e, p, tm, s) ==
    [k \in DOMAIN e \cup {"top_pos", "term", "status"} |->
        CASE k = "top_pos" -> p [] k = "term" -> tm [] k = "status" -> s [] OTHER -> e[k]]

(* Another line count.                                                     *)
LEMMA EditorCounted ==
    ASSUME NEW t, NEW n, NEW k, NEW p, NEW m, NEW i, NEW b, NEW v, NEW u, NEW y, NEW d
    PROVE  [Editor(t, n, p, m, i, b, v, u, y, d) EXCEPT !.line_cnt = k] = Editor(t, k, p, m, i, b, v, u, y, d)
BY DEF Editor

(* What it is made of with the terminal.                                   *)
LEMMA EditorShown ==
    ASSUME NEW t, NEW n, NEW p, NEW m, NEW i, NEW b, NEW v, NEW u, NEW y, NEW d,
           NEW q, NEW tm, NEW s
    PROVE  WithTerminal(Editor(t, n, p, m, i, b, v, u, y, d), q, tm, s) =
                [text |-> t, line_cnt |-> n, cur_pos |-> p, mode |-> m, ins |-> i, modified |-> b, cur_vrow |-> v,
                 undo |-> u, yank |-> y, dot |-> d, top_pos |-> q, term |-> tm, status |-> s]
BY DEF Editor, WithTerminal

(* A buffer opened and drawn.                                              *)
LEMMA OpenedFine ==
    ASSUME NEW t \in Seq(Letters)
    PROVE  Fine(Opened(t))
<1> DEFINE s == << >>
           undo == [type |-> None, pos |-> 0, len |-> 0, was_clean |-> FALSE, text |-> s]
           yank == [text |-> s, line |-> FALSE]
           dot == [cmd |-> None, motion |-> None, count |-> 0, arg |-> None, text |-> s]
           lines == LineCount(t)
           term == Cleared
           no == FALSE
           g == [text |-> t, line_cnt |-> lines, cur_pos |-> 0, mode |-> "normal", ins |-> None,
                 modified |-> no, cur_vrow |-> -1, undo |-> undo, yank |-> yank, dot |-> dot,
                 top_pos |-> 0, term |-> term, status |-> no]
           e == Start(t)
           i == Editor(t, 0, 0, "normal", None, no, -1, undo, yank, dot)
           j == Editor(t, lines, 0, "normal", None, no, -1, undo, yank, dot)
<1>1. Opened(t) = Refresh(WithTerminal(e, 0, term, no))
  BY DEF Opened, WithTerminal
<1>2. e = Counted(i)
  BY DEF Start, Editor
<1> HIDE DEF undo, yank, dot, lines, term, e, no
<1>3. Counted(i) = [i EXCEPT !.line_cnt = lines]
  <2>1. i.line_cnt = 0 /\ i.text = t
    BY DEF Editor
  <2> HIDE DEF i
  <2> QED BY <2>1 DEF Counted, lines
<1>4. e = j
  <2>1. [i EXCEPT !.line_cnt = lines] = j
    BY EditorCounted
  <2> HIDE DEF i, j
  <2> QED BY <1>2, <1>3, <2>1
<1>5. WithTerminal(j, 0, term, no) = g
  BY EditorShown
<1>6. g \in Drawn
  <2>1. s \in Seq(Letters)
    OBVIOUS
  <2> HIDE DEF s
  <2>2. None \in Keys /\ None \in Letters \cup {None} /\ None \in {None, "delete", "insert"}
    BY DEF Keys
  <2>3. undo \in UndoRecords /\ yank \in YankRecords /\ dot \in DotRecords
    BY <2>1, <2>2 DEF undo, yank, dot, UndoRecords, YankRecords, DotRecords
  <2>4. lines \in Int
    BY NewlinesIs DEF lines
  <2>5. term \in Tracking
    BY ClearedIn DEF term
  <2> QED BY <2>2, <2>3, <2>4, <2>5 DEF Drawn, Editors, no
<1> HIDE DEF g
<1> QED BY <1>1, <1>4, <1>5, <1>6, EndsFine

(* The message cleared.                                                    *)
LEMMA SeenFine ==
    ASSUME Fine(ed)
    PROVE  /\ Fine(Seen) /\ Seen \in Drawn
           /\ Seen.text = ed.text /\ Seen.cur_pos = ed.cur_pos /\ Seen.mode = ed.mode
<1>1. CASE ~ ed.status
  BY <1>1 DEF Seen, Fine
<1>2. CASE ed.status
  <2> DEFINE a == IF ed.mode = "normal" THEN ClearStatus(ed) ELSE ShowStatus(ed)
             g == [a EXCEPT !.status = FALSE]
  <2>1. Seen = g
    BY <1>2 DEF Seen
  <2>2. Settles(ed, a)
    BY ShowStatusIs DEF Fine
  <2> HIDE DEF a
  <2>3. a \in Drawn /\ Shows(ed, a) /\ FALSE \in BOOLEAN
    BY <2>2 DEF Settles, Shows
  <2>4. Shows(a, g) /\ g.term = a.term
    BY <2>3, StatusSet
  <2> HIDE DEF g
  <2>5. Shows(ed, g) /\ Settled(g)
    BY <2>2, <2>4 DEF Settles, Shows, Settled
  <2> QED BY <2>1, <2>5 DEF Shows, Fine
<1>3. ed.status \in BOOLEAN
  BY DrawnHas DEF Fine
<1> QED BY <1>1, <1>2, <1>3

\* What the program believes is sound, until a line that fills its row is
\* changed; and while typing the cursor is not taken to be too far right.
Believing == user \in DOMAIN Users /\ ("wide" \in missed \/ Fine(ed))

(* A step that leaves an editor fine, or a text with a line too wide,      *)
(* keeps the belief.                                                       *)
LEMMA StepKeeps ==
    ASSUME Believing, NEW e, Step(e),
           Fine(ed) => Fine(e) \/ (e.text # ed.text /\ Wide(e.text))
    PROVE  Believing'
<1>1. user' = user /\ ed' = e /\ missed' = missed \cup Misses(e)
  BY DEF Step
<1>2. ASSUME e.text # ed.text, Wide(e.text) PROVE "wide" \in Misses(e)
  BY <1>2 DEF Misses
<1>3. CASE "wide" \in missed
  BY <1>1, <1>3 DEF Believing
<1>4. CASE Fine(ed)
  <2>1. CASE Fine(e)
    <3>1. Fine(ed)'
      BY <1>1, <2>1
    <3> QED BY <1>1, <3>1 DEF Believing
  <2>2. CASE e.text # ed.text /\ Wide(e.text)
    BY <1>1, <1>2, <2>2 DEF Believing
  <2> QED BY <1>4, <2>1, <2>2
<1> QED BY <1>3, <1>4 DEF Believing

(* What the next key finds.                                                *)
LEMMA ReadyIs ==
    ASSUME Fine(ed), NEW e, Step(e)
    PROVE  /\ Seen \in Drawn /\ Fine(Seen) /\ Seen.cur_pos \in 0..Len(Seen.text) /\ Seen.mode = ed.mode
           /\ Seen.text = ed.text
<1>1. ed.cur_pos <= Len(ed.text) /\ ed.cur_pos \in Nat /\ Len(ed.text) \in Nat
  BY DrawnHas DEF Step, Fine
<1>2. Seen.cur_pos \in 0..Len(Seen.text)
  BY <1>1, SeenFine
<1> QED BY <1>2, SeenFine

(* Moving.                                                                 *)
LEMMA MovesKeep ==
    ASSUME Believing, Move \/ Page \/ Search \/ Find \/ GotoLine
    PROVE  Believing'
<1>1. CASE Move
  <2>1. PICK k \in Sideways \cup Farther \cup Vertical, w \in Nat : Step(Went(Seen, k, w))
    <3>1. 0 \in Nat /\ Columns \subseteq Nat
      BY ScreenAssumption
    <3> QED BY <1>1, <3>1 DEF Move
  <2>2. Fine(ed) => Fine(Went(Seen, k, w))
    BY <2>1, ReadyIs, WentIs
  <2> QED BY <2>1, <2>2, StepKeeps
<1>2. CASE Page
  <2>1. PICK e \in {PageForward(Seen), PageBack(Seen)} : Step(e) /\ ed.mode = "normal"
    BY <1>2 DEF Page, Gets
  <2>2. Fine(ed) => Fine(e)
    BY <2>1, ReadyIs, PageIs
  <2> QED BY <2>1, <2>2, StepKeeps
<1>3. CASE Search
  <2>1. CASE Step(Told(Seen))
    <3>1. Fine(ed) => Fine(Told(Seen))
      BY <2>1, ReadyIs, EndsFine
    <3> QED BY <2>1, <3>1, StepKeeps
  <2>2. CASE \E q \in 0..(Len(ed.text) - 1) : Step(Found(Seen, q)) \/ Step(Told(Found(Seen, q)))
    <3>1. PICK q \in 0..(Len(ed.text) - 1) : Step(Found(Seen, q)) \/ Step(Told(Found(Seen, q)))
      BY <2>2
    <3>2. PICK e \in {Found(Seen, q), Told(Found(Seen, q))} : Step(e)
      BY <3>1
    <3>3. ASSUME Fine(ed) PROVE Fine(e)
      <4>1. Len(ed.text) \in Nat
        BY <3>3, DrawnHas DEF Fine
      <4>2. q \in Nat
        BY <4>1
      <4> QED BY <3>2, <3>3, <4>2, ReadyIs, FoundIs
    <3> QED BY <3>2, <3>3, StepKeeps
  <2> QED BY <1>3, <2>1, <2>2 DEF Search
<1>4. CASE Find
  <2>1. PICK q \in Bol(ed.text, ed.cur_pos)..(Eol(ed.text, ed.cur_pos) - 1) : Step(Follow(Seen, HMove(Seen, q)))
    BY <1>4 DEF Find
  <2>2. ASSUME Fine(ed) PROVE Fine(Follow(Seen, HMove(Seen, q)))
    <3>1. Bol(ed.text, ed.cur_pos) \in Nat /\ Eol(ed.text, ed.cur_pos) \in Nat
      <4>1. ed.text \in Seq(Letters) /\ ed.cur_pos \in Nat /\ Len(ed.text) \in Nat
        BY <2>2, DrawnHas DEF Fine
      <4> DEFINE t == ed.text
                 p == ed.cur_pos
      <4> HIDE DEF t, p
      <4>2. Bol(t, p) \in 0..p /\ Eol(t, p) \in 0..Len(t) /\ p \in Nat /\ Len(t) \in Nat
        BY <4>1, LineEnds DEF t, p
      <4>3. Bol(t, p) \in Nat /\ Eol(t, p) \in Nat
        BY <4>2
      <4> QED BY <4>3 DEF t, p
    <3>2. q \in Nat
      BY <3>1
    <3>3. HMove(Seen, q) \in Drawn
      BY <2>1, <2>2, <3>2, ReadyIs, HMoveIs DEF Keeps
    <3> QED BY <3>3, FollowIs, SettlesFine
  <2> QED BY <2>1, <2>2, StepKeeps
<1>5. CASE GotoLine
  <2>1. PICK l : Step(Line(Seen, l))
    BY <1>5 DEF GotoLine
  <2>2. Fine(ed) => Fine(Line(Seen, l))
    BY <2>1, ReadyIs, LineIs
  <2> QED BY <2>1, <2>2, StepKeeps
<1> QED BY <1>1, <1>2, <1>3, <1>4, <1>5

(* Changing the text.                                                      *)
LEMMA ChangesKeep ==
    ASSUME Believing, Operate \/ ReplaceChar \/ Change \/ Redraw
    PROVE  Believing'
<1>1. CASE Operate
  <2>1. PICK op \in Operators :
            \E m \in OpMotions \cup {op} : ed.mode = "normal" /\ Step(Operated(Seen, op, m))
    BY <1>1 DEF Operate, Gets
  <2>2. PICK m \in OpMotions \cup {op} : ed.mode = "normal" /\ Step(Operated(Seen, op, m))
    BY <2>1
  <2>3. Fine(ed) => Fine(Operated(Seen, op, m))
    BY <2>2, ReadyIs, OperatedFine
  <2> QED BY <2>2, <2>3, StepKeeps
<1>2. CASE ReplaceChar
  <2>1. PICK c \in Users[user].typed : ed.mode = "normal" /\ Step(Replacing(Seen, c))
    BY <1>2 DEF ReplaceChar, Gets
  <2>2. c \in Letters
    BY ScreenAssumption DEF Believing
  <2>3. Fine(ed) => Fine(Replacing(Seen, c))
    BY <2>1, <2>2, ReadyIs, ReplacingFine
  <2> QED BY <2>1, <2>3, StepKeeps
<1>3. CASE Change
  <2>1. PICK k \in {"J", "~", "p", "P", "u"} : ed.mode = "normal" /\ Step(Changed(Seen, k))
    BY <1>3 DEF Change, Gets
  <2>2. Fine(ed) => Fine(Changed(Seen, k))
    BY <2>1, ReadyIs, ChangedFine
  <2> QED BY <2>1, <2>2, StepKeeps
<1>4. CASE Redraw
  <2> DEFINE s == Seen
             g == [s EXCEPT !.term = Cleared]
  <2>1. Step(Refresh(g))
    BY <1>4 DEF Redraw
  <2>2. ASSUME Fine(ed) PROVE Fine(Refresh(g))
    <3>1. s \in Drawn
      BY <2>1, <2>2, ReadyIs
    <3> HIDE DEF s
    <3>2. g \in Drawn
      BY <3>1, ClearedIn, TermSet DEF Shows
    <3> HIDE DEF g
    <3> QED BY <3>2, EndsFine
  <2> HIDE DEF g
  <2> QED BY <2>1, <2>2, StepKeeps
<1> QED BY <1>1, <1>2, <1>3, <1>4

(* Inserting.                                                              *)
LEMMA InsertsKeep ==
    ASSUME Believing, EnterInsert \/ TypeKey \/ Backspace \/ EraseWord \/ EraseLine \/ Glide \/ LeaveInsert
    PROVE  Believing'
<1>1. CASE EnterInsert
  <2>1. PICK c \in InsertCmds : Step(Entered(Seen, c))
    BY <1>1 DEF EnterInsert
  <2>2. Fine(ed) => Fine(Entered(Seen, c))
    BY <2>1, ReadyIs, EnteredFine
  <2> QED BY <2>1, <2>2, StepKeeps
<1>2. CASE TypeKey
  <2>1. PICK c \in Users[user].typed : ed.mode = "insert" /\ Step(Typed(Seen, c))
    BY <1>2 DEF TypeKey
  <2>2. c \in Letters
    BY ScreenAssumption DEF Believing
  <2>3. Fine(ed) => Fine(Typed(Seen, c)) \/ (Typed(Seen, c).text # ed.text /\ Wide(Typed(Seen, c).text))
    BY <2>1, <2>2, ReadyIs, TypedFine
  <2> QED BY <2>1, <2>3, StepKeeps
<1>3. CASE Backspace
  <2>1. Step(Backspaced(Seen))
    BY <1>3 DEF Backspace
  <2>2. Fine(ed) => Fine(Backspaced(Seen))
    BY <2>1, ReadyIs, BackspacedFine
  <2> QED BY <2>1, <2>2, StepKeeps
<1>4. CASE EraseWord \/ EraseLine
  <2>1. PICK e \in {WordErased(Seen), LineErased(Seen)} : Step(e)
    BY <1>4 DEF EraseWord, EraseLine
  <2>2. Fine(ed) => Fine(e)
    BY <2>1, ReadyIs, ErasedFine
  <2> QED BY <2>1, <2>2, StepKeeps
<1>5. CASE Glide
  <2>1. PICK k \in {"Left", "Right", "Up", "Down"}, w \in Columns : Step(Glided(Seen, k, w))
    BY <1>5 DEF Glide
  <2>2. w \in Nat
    BY ScreenAssumption
  <2>3. Fine(ed) => Fine(Glided(Seen, k, w))
    BY <2>1, <2>2, ReadyIs, GlidedFine
  <2> QED BY <2>1, <2>3, StepKeeps
<1>6. CASE LeaveInsert
  <2> DEFINE s == Seen
             a == [s EXCEPT !.status = FALSE]
             g == [Escaped(a) EXCEPT !.status = FALSE]
  <2>1. Step(g)
    BY <1>6 DEF LeaveInsert
  <2>2. ASSUME Fine(ed) PROVE Fine(g)
    <3>1. s \in Drawn /\ FALSE \in BOOLEAN
      BY <2>1, <2>2, ReadyIs
    <3> HIDE DEF s
    <3>2. a \in Drawn
      BY <3>1, StatusSet DEF Shows
    <3> HIDE DEF a
    <3> QED BY <3>2, EscapedFine
  <2> HIDE DEF g
  <2> QED BY <2>1, <2>2, StepKeeps
<1> QED BY <1>1, <1>2, <1>3, <1>4, <1>5, <1>6

(* As long as no line that fills its row has been changed, whatever the    *)
(* texts, the keys and the size of the screen, the terminal's cursor is    *)
(* where term.c takes it to be, except after a backspace sent from behind  *)
(* a full row (term.c:169-235).                                            *)
THEOREM TracksTheCursor == Spec => []TracksCursor
<1>1. Init => Believing
  <2> SUFFICES ASSUME Init PROVE Believing
    OBVIOUS
  <2>1. PICK t \in Users[user].texts : ed = Opened(t)
    BY DEF Init
  <2>2. user \in DOMAIN Users /\ t \in Seq(Letters)
    BY ScreenAssumption DEF Init
  <2>3. Fine(Opened(t))
    BY <2>2, OpenedFine
  <2> QED BY <2>1, <2>2, <2>3 DEF Believing
<1>2. Believing /\ [Next]_vars => Believing'
  <2> SUFFICES ASSUME Believing, [Next]_vars PROVE Believing'
    OBVIOUS
  <2>1. CASE UNCHANGED vars
    <3>1. ed' = ed /\ user' = user /\ missed' = missed
      BY <2>1 DEF vars
    <3>2. Fine(ed) => Fine(ed)'
      BY <3>1
    <3> QED BY <3>1, <3>2 DEF Believing
  <2>2. CASE Move \/ Page \/ Search \/ Find \/ GotoLine
    BY <2>2, MovesKeep
  <2>3. CASE Operate \/ ReplaceChar \/ Change \/ Redraw
    BY <2>3, ChangesKeep
  <2>4. CASE EnterInsert \/ TypeKey \/ Backspace \/ EraseWord \/ EraseLine \/ Glide \/ LeaveInsert
    BY <2>4, InsertsKeep
  <2> QED BY <2>1, <2>2, <2>3, <2>4 DEF Next
<1>3. Believing => TracksCursor
  <2> SUFFICES ASSUME Fine(ed), ~ ed.term.slid PROVE Tracked(ed.term)
    BY DEF Believing, TracksCursor
  <2>1. ed.term \in Terminals(Glyphs) /\ Sound(ed.term)
    BY DrawnHas DEF Fine, Tracking
  <2> QED BY <2>1, SoundTracks
<1> QED BY <1>1, <1>2, <1>3, PTL DEF Spec
=============================================================================
