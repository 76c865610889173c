------------------------------ MODULE Terminal ------------------------------
(***************************************************************************)
(* The terminal, and what term.c believes of it.                           *)
(*                                                                         *)
(* t holds the cells shown (cells[r][c], both from 0), the cursor, and     *)
(* wrap: a character in the last column leaves the cursor there, and the   *)
(* next one goes to the next line, as on a VT100.  slid tells, as history, *)
(* that a backspace was sent from there, which takes the cursor to one     *)
(* column less than the program counts.  trow and tcol are s_trow and      *)
(* s_tcol, where the program takes the cursor to be, -1 if it does not     *)
(* know.  Attributes do not move the cursor and are left out; the output   *)
(* buffer is emptied before every wait for a key and delays only.          *)
(***************************************************************************)
EXTENDS Integers, Sequences

CONSTANTS Rows, Cols,   \* scr_rows, scr_cols
          Blank         \* an empty cell

ASSUME TerminalAssumption == Rows \in Nat \ {0, 1} /\ Cols \in Nat \ {0, 1}

EmptyRow == [c \in 0..(Cols - 1) |-> Blank]
Bottom   == Rows - 2        \* last row of the text area and of the scroll region

\* F applied n times to t.
Repeat(F(_), n, t) == LET u[k \in 0..n] == IF k = 0 THEN t ELSE F(u[k - 1]) IN u[n]
-----------------------------------------------------------------------------
(* The device: what the bytes do that the program sends (ANSI X3.64).      *)

Moved(t, r, c)   == [t EXCEPT !.row = r, !.col = c, !.wrap = FALSE]
DevGoto(t, r, c) == [Moved(t, r, c) EXCEPT !.slid = FALSE]
DevReturn(t)     == [Moved(t, t.row, 0) EXCEPT !.slid = FALSE]
DevBack(t)       == [Moved(t, t.row, IF t.col > 0 THEN t.col - 1 ELSE 0)
                        EXCEPT !.slid = @ \/ t.wrap]
DevRight(t)      == Moved(t, t.row, IF t.col < Cols - 1 THEN t.col + 1 ELSE t.col)

\* ESC[K
DevClrEol(t) ==
    [t EXCEPT !.cells[t.row] = [c \in DOMAIN @ |-> IF c >= t.col THEN Blank ELSE @[c]],
              !.wrap = FALSE]

\* A line feed scrolls the region from its last row.
DevFeed(t) ==
    IF t.row = Bottom
    THEN [t EXCEPT !.cells = [r \in DOMAIN @ |-> IF r < Bottom THEN @[r + 1]
                                                 ELSE IF r = Bottom THEN EmptyRow ELSE @[r]],
                   !.wrap = FALSE]
    ELSE Moved(t, IF t.row < Rows - 1 THEN t.row + 1 ELSE t.row, t.col)

\* ESC M, from the first row
DevReverse(t) ==
    [t EXCEPT !.cells = [r \in DOMAIN @ |-> IF r = 0 THEN EmptyRow
                                            ELSE IF r <= Bottom THEN @[r - 1] ELSE @[r]],
              !.wrap = FALSE]

\* ESC[@ and ESC[P
DevInsert(t) ==
    [t EXCEPT !.cells[t.row] = [c \in DOMAIN @ |-> IF c < t.col THEN @[c]
                                                   ELSE IF c = t.col THEN Blank ELSE @[c - 1]],
              !.wrap = FALSE]
DevDelete(t) ==
    [t EXCEPT !.cells[t.row] = [c \in DOMAIN @ |-> IF c < t.col THEN @[c]
                                                   ELSE IF c = Cols - 1 THEN Blank ELSE @[c + 1]],
              !.wrap = FALSE]

DevPrint(t, ch) ==
    LET u == IF t.wrap THEN DevFeed(DevReturn(t)) ELSE t
    IN  [u EXCEPT !.cells[u.row][u.col] = ch,
                  !.col  = IF u.col < Cols - 1 THEN u.col + 1 ELSE u.col,
                  !.wrap = (u.col = Cols - 1)]
-----------------------------------------------------------------------------
(* term.c.                                                                 *)

Known(t) == t.trow >= 0 /\ t.tcol >= 0
Believed(t, r, c) == [t EXCEPT !.trow = r, !.tcol = c]

\* term_putch of a visible character, and of a backspace.
\* A slip: the backspace is not seen to move the cursor.
PutChar(t, ch) == [DevPrint(t, ch) EXCEPT !.tcol = IF @ >= 0 THEN @ + 1 ELSE @]
PutBackUnseen(t) == DevBack(t)
PutBack(t)     == Believed(DevBack(t), -1, -1)
Puts(t, s) ==
    LET u[k \in 0..Len(s)] == IF k = 0 THEN t ELSE PutChar(u[k - 1], s[k]) IN u[Len(s)]

\* term_goto
Feeds(t, n) == Repeat(DevFeed, n, IF t.tcol # 0 THEN DevReturn(t) ELSE t)
CheapDown(t, r, c)    == c = 0 /\ r - t.trow \in 1..5 /\ r <= Bottom

Goto(t, r, c) ==
    LET dc == c - t.tcol
        moved ==
            CASE Known(t) /\ r = t.trow /\ c = 0                  -> DevReturn(t)
              [] Known(t) /\ r = t.trow /\ c > 0 /\ -dc \in 1..6 -> Repeat(DevBack, -dc, t)
              [] Known(t) /\ r = t.trow /\ c > 0 /\ dc \in 1..2   -> Repeat(DevRight, dc, t)
              [] Known(t) /\ CheapDown(t, r, c)                   -> Feeds(t, r - t.trow)
              [] OTHER                                            -> DevGoto(t, r, c)
    IN  IF r = t.trow /\ c = t.tcol THEN t ELSE Believed(moved, r, c)

ClrEol(t)   == DevClrEol(t)
InsChar(t)  == DevInsert(t)
DelChar(t)  == DevDelete(t)
ScrollUp(t) == Believed(DevFeed(Goto(t, Bottom, 0)), Bottom, 0)
ScrollDn(t) == Believed(DevReverse(Goto(t, 0, 0)), 0, 0)

\* term_clear, and the scroll region set again: the cursor goes home, the
\* program no longer knows where it is.
Cleared == [cells |-> [r \in 0..(Rows - 1) |-> EmptyRow], row |-> 0, col |-> 0,
            wrap |-> FALSE, slid |-> FALSE, trow |-> -1, tcol |-> -1]
-----------------------------------------------------------------------------
\* The cursor is where the program takes it to be, if it takes it anywhere;
\* behind a character in the last column it counts one column more.
Tracked(t) ==
    Known(t) => t.row = t.trow /\ t.tcol = (IF t.wrap THEN Cols ELSE t.col)

=============================================================================
