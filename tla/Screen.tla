------------------------------- MODULE Screen -------------------------------
(***************************************************************************)
(* What the user sees: the viewport over the text (screen.c), kept up with *)
(* the commands (edit.c, emove.c) by drawing as little as possible on the  *)
(* terminal (term.c).                                                      *)
(*                                                                         *)
(* ed has the fields of Commands and further top_pos, the position of the  *)
(* first character shown; cur_vrow is the cursor's screen row, cached, -1  *)
(* if unknown; term is the terminal and status whether a message is to be  *)
(* cleared by the next key.  The status line shows one character whatever  *)
(* it says; a tab is one column wide.  Left out are the dot command and    *)
(* what loads or opens a file.                                             *)
(***************************************************************************)
EXTENDS Commands, Terminal

CONSTANTS Users,        \* users: the texts, keys, characters and, as a bound,
                        \* the number of keys of each
          Columns,      \* columns up and down may aim at
          Message,      \* what the status line shows
          Mark          \* the mark of a row behind the text

Letters == DOMAIN Toggled \cup {NL}

ASSUME ScreenAssumption ==
    /\ {Toggled[c] : c \in DOMAIN Toggled} \cup {SP, Nul, Absent} \subseteq DOMAIN Toggled
    /\ \A u \in DOMAIN Users : Users[u].texts \subseteq Seq(Letters) /\ Users[u].typed \subseteq Letters
    /\ Columns \subseteq Nat
    /\ YankMax > 1

VARIABLES ed,
          user,         \* who is at the keyboard, throughout
          missed,       \* history: the changes whose drawing leaves rows as
                        \* they were
          steps         \* history: keys

vars == <<ed, user, missed, steps>>

TextRows == Rows - 1
-----------------------------------------------------------------------------
(* Visual rows.                                                            *)

NextVrow(t, p) ==
    LET e == Eol(t, p) IN IF e - p > Cols THEN p + Cols ELSE Min({e + 1, Len(t)})

\* The k-th row from p on; behind the text the rows no longer go on.
RowAt(t, p, k) == Times(LAMBDA q : NextVrow(t, q), k, p)

\* q is reached going from p by rows.
IsRow(t, p, q) ==
    LET b == Max({p, Bol(t, q)})
    IN  q = b \/ q = Len(t) \/ ((q - b) % Cols = 0 /\ At(t, q) # NL)
RowsIn(t, p, S) == Cardinality({q \in S : q >= p /\ IsRow(t, p, q)})

VrowStart(t, p) ==
    LET b == Bol(t, p)
    IN  IF p >= Len(t) THEN Len(t) ELSE b + ((Min({p, LastOn(t, b)}) - b) \div Cols) * Cols

\* Rows to step over from p on to reach the row q.
StepsTo(t, p, q) == RowsIn(t, p, p..(q - 1))
-----------------------------------------------------------------------------
(* Placing the cursor and drawing (screen.c).                              *)

\* A slip: going up, the first row shown begins with the cursor.
ScrollToCursorHere(e) ==
    LET rows == IF e.cur_vrow >= 0 THEN e.cur_vrow
                ELSE RowsIn(e.text, e.top_pos, (e.top_pos + 1)..e.cur_pos)
    IN  IF e.cur_pos < e.top_pos THEN [e EXCEPT !.top_pos = e.cur_pos, !.cur_vrow = 0]
        ELSE IF rows < TextRows THEN [e EXCEPT !.cur_vrow = rows]
        ELSE [e EXCEPT !.top_pos = RowAt(e.text, @, rows - TextRows + 1),
                       !.cur_vrow = TextRows - 1]
ScrollToCursor(e) ==
    LET rows == IF e.cur_vrow >= 0 THEN e.cur_vrow
                ELSE RowsIn(e.text, e.top_pos, (e.top_pos + 1)..e.cur_pos)
    IN  IF e.cur_pos < e.top_pos
        THEN [e EXCEPT !.top_pos = VrowStart(e.text, e.cur_pos), !.cur_vrow = 0]
        ELSE IF rows < TextRows THEN [e EXCEPT !.cur_vrow = rows]
        ELSE [e EXCEPT !.top_pos = RowAt(e.text, @, rows - TextRows + 1),
                       !.cur_vrow = TextRows - 1]

RowOf(e) == IF e.cur_vrow >= 0 THEN e.cur_vrow
            ELSE StepsTo(e.text, e.top_pos, VrowStart(e.text, e.cur_pos))

\* A slip: the column behind a full row is not taken back.
UpdateCursorBehind(e) ==
    LET col == Min({e.cur_pos, Len(e.text)}) - VrowStart(e.text, e.cur_pos)
    IN  [e EXCEPT !.term = Goto(@, Min({RowOf(e), Bottom}), col)]
UpdateCursor(e) ==
    LET col == Min({e.cur_pos, Len(e.text)}) - VrowStart(e.text, e.cur_pos)
    IN  [e EXCEPT !.term = Goto(@, Min({RowOf(e), Bottom}), Min({col, Cols - 1}))]

\* The characters of the row that begins at p.
RowChars(t, p) == SubSeq(t, p + 1, Min({Eol(t, p), p + Cols}))

\* draw_row_at.  A slip: without clearing the row first.
DrawRowOver(tm, t, row, p) ==
    Puts(Goto(tm, row, 0),
         IF p < Len(t) THEN RowChars(t, p) ELSE IF row > 0 THEN <<Mark>> ELSE << >>)
DrawRow(tm, t, row, p) ==
    Puts(ClrEol(Goto(tm, row, 0)),
         IF p < Len(t) THEN RowChars(t, p) ELSE IF row > 0 THEN <<Mark>> ELSE << >>)

\* n rows from the screen row on, the first beginning at p.
DrawRows(e, row, p, n) ==
    LET tm[k \in 0..Max({n, 0})] ==
            IF k = 0 THEN e.term
            ELSE DrawRow(tm[k - 1], e.text, row + k - 1, RowAt(e.text, p, k - 1))
    IN  [e EXCEPT !.term = tm[Max({n, 0})]]

StatusLine(e, s) == [e EXCEPT !.term = Puts(ClrEol(Goto(@, Rows - 1, 0)), s)]
ShowStatus(e)  == UpdateCursor(StatusLine(e, <<Message>>))
ClearStatus(e) == UpdateCursor(StatusLine(e, << >>))

\* A message, to be cleared by the next key.
Told(e) == ShowStatus([e EXCEPT !.status = TRUE])

Refresh(e) == LET s == ScrollToCursor(e) IN ShowStatus(DrawRows(s, 0, s.top_pos, TextRows))

\* The rows of the cursor's line from its own on, and the one after.
RedrawCurLine(e) ==
    LET row   == RowOf(e)
        start == VrowStart(e.text, e.cur_pos)
        rows  == RowsIn(e.text, start, {start} \cup start..(Eol(e.text, start) - 1))
    IN  UpdateCursor([DrawRows(e, row, start, Min({rows + 1, TextRows - row})) EXCEPT !.cur_vrow = row])

RedrawFromCur(e) ==
    LET row == RowOf(e)
    IN  UpdateCursor([DrawRows(e, row, VrowStart(e.text, e.cur_pos), TextRows - row)
                        EXCEPT !.cur_vrow = row])

\* By one row the terminal scrolls itself.
UpdateAfterMove(e, old) ==
    LET scrolled(tm, row, p) == UpdateCursor([e EXCEPT !.term = DrawRow(tm, e.text, row, p)])
    IN  IF e.top_pos = old THEN UpdateCursor(e)
        ELSE IF e.top_pos > old /\ NextVrow(e.text, old) = e.top_pos
        THEN scrolled(ScrollUp(e.term), Bottom, VrowStart(e.text, e.cur_pos))
        ELSE IF e.top_pos < old /\ NextVrow(e.text, e.top_pos) = old
        THEN scrolled(ScrollDn(e.term), 0, e.top_pos)
        ELSE Refresh(e)

Adj(e) ==
    LET s == ScrollToCursor(e)
    IN  IF s.top_pos = e.top_pos THEN RedrawFromCur(s) ELSE Refresh(s)
AfterEdit(e) == ShowStatus(Adj(e))
-----------------------------------------------------------------------------
(* Motions, and the cached row (emove.c).                                  *)

\* begin_hmove and end_hmove: the cache survives within a row.
\* A slip: it always does.
HMoveAnywhere(e, q) == CursorAt(e, q)
HMove(e, q) ==
    [e EXCEPT !.cur_pos = q,
              !.cur_vrow = IF VrowStart(e.text, q) = VrowStart(e.text, e.cur_pos)
                           THEN @ ELSE -1]

\* mv_up and mv_down: the cache is shifted by the rows passed.
UpOnce(e, w) ==
    LET q == Up(e.text, e.cur_pos, w)
    IN  [e EXCEPT !.cur_pos = q,
                  !.cur_vrow = IF @ < 0 THEN @
                               ELSE @ - StepsTo(e.text, VrowStart(e.text, q),
                                                VrowStart(e.text, e.cur_pos))]
DownOnce(e, w) ==
    LET q == Down(e.text, e.cur_pos, w)
    IN  [e EXCEPT !.cur_pos = q,
                  !.cur_vrow = IF @ < 0 THEN @
                               ELSE @ + StepsTo(e.text, VrowStart(e.text, e.cur_pos),
                                                VrowStart(e.text, q))]
MvUp(e, n, w)   == Times(LAMBDA u : UpOnce(u, w), n, e)
MvDown(e, n, w) == Times(LAMBDA u : DownOnce(u, w), n, e)

To(e, m, n) == Target(e.text, e.cur_pos, m, n, 0, LineCount(e.text))
Bnb(e)      == HMove(e, FirstNonBlank(e.text, e.cur_pos))
Unknown(e)  == [e EXCEPT !.cur_vrow = -1]
Top(e, p)   == [e EXCEPT !.top_pos = p]

\* The cursor has moved to m; what is shown follows.
Follow(e, m) == UpdateAfterMove(ScrollToCursor(m), e.top_pos)

Went(e, k, w) ==
    CASE k \in {"h", "l", "0", "^", "$"} -> UpdateCursor(HMove(e, To(e, k, 1)))
      [] k \in {"w", "b", "e"} -> Follow(e, HMove(e, To(e, k, 1)))
      [] k = "j"  -> Follow(e, MvDown(e, 1, w))
      [] k = "k"  -> Follow(e, MvUp(e, 1, w))
      [] k = "CR" -> Follow(e, Bnb(MvDown(e, 1, w)))
      [] k = "gg" -> Follow(e, Bnb(CursorAt(e, 0)))
      [] k = "G"  -> Refresh(ScrollToCursor(Unknown(CursorAt(e, To(e, "G", 1)))))
      [] k = "^D" -> Refresh(ScrollToCursor(MvDown(e, TextRows \div 2, w)))
      [] k = "^U" -> Refresh(ScrollToCursor(MvUp(e, TextRows \div 2, w)))

\* ^F and ^B go by lines, not rows, and put the cursor in the middle.
Paged(e, top) ==
    LET mid == Min({top + (TextRows - 1) \div 2, LineCount(e.text) - 1})
    IN  Refresh(Unknown(Bnb(CursorAt(Top(e, LineStart(e.text, top)), LineStart(e.text, mid)))))
PageForward(e) ==
    LET line == LineOf(e.text, e.top_pos)
        top  == Min({line + TextRows - 2, LineCount(e.text) - 1})
    IN  IF top <= line THEN e ELSE Paged(e, top)
PageBack(e) ==
    IF e.top_pos = 0 THEN e
    ELSE Paged(e, Max({LineOf(e.text, e.top_pos) - (TextRows - 2), 0}))

\* The pattern is found, wherever it is; :N
Found(e, q)  == Follow(e, Unknown(CursorAt(e, q)))
Line(e, l)   == Refresh(ScrollToCursor(Unknown(CursorAt(StatusLine(e, <<Message>>), LineStart(e.text, l)))))
-----------------------------------------------------------------------------
(* Commands that change the text (edit.c), and what they draw.             *)

Operated(e, op, m) ==
    LET none == [text |-> << >>, line |-> FALSE]
        b    == [e EXCEPT !.yank = none]
        r    == IF m = op THEN Doubled(b, op, 1) ELSE WithMotion(b, op, m, 1)
    IN  IF r.yank = none THEN [r EXCEPT !.yank = e.yank]
        ELSE IF op = "y" THEN Told(r)
        ELSE IF op = "c" THEN ShowStatus(AfterEdit(r)) ELSE AfterEdit(r)

Replacing(e, c) ==
    IF e.cur_pos >= Len(e.text) THEN e
    ELSE IF c = NL THEN Refresh(Replace(e, c)) ELSE RedrawCurLine(Replace(e, c))

Toggling(e) ==
    LET r == Tilde(e, 1)
    IN  IF OnCharacter(e) THEN RedrawCurLine(HMove(CursorAt(r, e.cur_pos), r.cur_pos)) ELSE r

Changed(e, k) ==
    CASE k = "J" -> ShowStatus(RedrawFromCur(Join(e, 1)))
      [] k = "~" -> Toggling(e)
      [] k = "p" -> IF e.yank.text = << >> THEN e ELSE AfterEdit(PutAfter(e))
      [] k = "P" -> IF e.yank.text = << >> THEN e ELSE AfterEdit(PutBefore(e))
      [] k = "u" -> IF e.undo.type = None THEN Told(e)
                    ELSE AfterEdit(Undone(e))

Entered(e, c) ==
    LET r    == Enter(e, c)
        over == CASE c = "I" -> HMove(e, r.cur_pos) [] c = "A" -> HMove(e, LastOn(e.text, e.cur_pos))
                  [] OTHER -> r
    IN  IF c \in {"o", "O"} THEN ShowStatus(Adj(r))
        ELSE ShowStatus([r EXCEPT !.cur_vrow = over.cur_vrow])

Escaped(e) ==
    LET r == Escape(e)
        s == ScrollToCursor(r)
    IN  IF s.top_pos # e.top_pos THEN Refresh(s) ELSE ShowStatus(RedrawCurLine(s))

AtLineEnd(e) == e.cur_pos >= Len(e.text) \/ At(e.text, e.cur_pos) = NL

\* A character typed is sent as it is if the rest of the line can be shifted.
Typed(e, c) ==
    LET r == Type(e, c)
        col == Min({e.cur_pos, Len(e.text)}) - VrowStart(e.text, e.cur_pos)
    IN  IF Full(e) THEN Told(r)
        ELSE IF c = NL THEN ShowStatus(Adj(r))
        ELSE IF col + 1 > Cols THEN RedrawCurLine(r)
        ELSE [r EXCEPT !.term = PutChar(IF AtLineEnd(r) THEN @ ELSE InsChar(@), c)]

\* A slip: what follows on the line is not drawn up.
BackspacedAtEnd(e) ==
    LET r == InsertKey(e, "BS")
    IN  IF e.cur_pos = 0 THEN e ELSE [r EXCEPT !.term = ClrEol(PutBack(@))]
Backspaced(e) ==
    LET r == InsertKey(e, "BS")
    IN  IF e.cur_pos = 0 THEN e
        ELSE IF At(e.text, e.cur_pos - 1) = NL THEN ShowStatus(Adj(r))
        ELSE [r EXCEPT !.term = IF AtLineEnd(r) THEN ClrEol(PutBack(@)) ELSE DelChar(PutBack(@))]

\* ^W and ^U
WordErased(e) ==
    LET r    == InsertKey(e, "^W")
        gone == SubSeq(e.text, r.cur_pos + 1, e.cur_pos)
    IN  ShowStatus(IF gone = << >> THEN e ELSE IF Newlines(gone) > 0 THEN Adj(r) ELSE RedrawCurLine(r))
LineErased(e) == RedrawCurLine(InsertKey(e, "^U"))

\* The arrow keys in insert mode.
Glided(e, k, w) ==
    UpdateCursor(ScrollToCursor(
        CASE k = "Left" -> HMove(e, To(e, "h", 1)) [] k = "Right" -> HMove(e, To(e, "l", 1))
          [] k = "Up" -> MvUp(e, 1, w) [] k = "Down" -> MvDown(e, 1, w)))
-----------------------------------------------------------------------------
(* The user.                                                               *)

Wide(t) == \E p \in 0..Len(t) : Eol(t, p) - p >= Cols

Opened(t) ==
    LET e == Start(t)
    IN  Refresh([f \in DOMAIN e \cup {"top_pos", "term", "status"} |->
                    CASE f = "top_pos" -> 0 [] f = "term" -> Cleared [] f = "status" -> FALSE
                      [] OTHER -> e[f]])

Init ==
    /\ user \in DOMAIN Users
    /\ \E t \in Users[user].texts : ed = Opened(t)
    /\ missed = {}
    /\ steps = 0

Gets(k, mode) == ed.mode = mode /\ k \in Users[user].keys

\* A message is cleared before the next key is looked at.
Seen == IF ~ed.status THEN ed
        ELSE [(IF ed.mode = "normal" THEN ClearStatus(ed) ELSE ShowStatus(ed)) EXCEPT !.status = FALSE]

CursorRow(e) == StepsTo(e.text, e.top_pos, VrowStart(e.text, e.cur_pos))
InView(e) == e.cur_pos <= Len(e.text) /\ e.top_pos <= VrowStart(e.text, e.cur_pos) /\ CursorRow(e) <= Bottom
Unended(t) == t # << >> /\ Last(t) # NL

\* Changes in lines that fill their row or come to, a line split, a newline
\* replaced by another character, a text without its last newline, arrow
\* keys that scroll in insert mode.
Misses(e) ==
    LET changed == e.text # ed.text
        missing(why) ==
            CASE why = "wide"     -> changed /\ (Wide(e.text) \/ Wide(ed.text))
              [] why = "split"    -> changed /\ ed.mode = "insert" /\ At(ed.text, ed.cur_pos) # NL
                                     /\ Newlines(e.text) > Newlines(ed.text)
              [] why = "replaced" -> Len(e.text) = Len(ed.text) /\ Newlines(e.text) < Newlines(ed.text)
              [] why = "unended"  -> Unended(e.text) \/ Unended(ed.text)
              [] why = "away"     -> changed /\ ~InView(ed)
              [] why = "glided"   -> ~changed /\ ed.mode = "insert" /\ e.mode = "insert"
                                     /\ e.top_pos # ed.top_pos
    IN  {why \in {"wide", "split", "replaced", "unended", "away", "glided"} : missing(why)}

Step(e) ==
    /\ steps < Users[user].steps
    /\ steps' = steps + 1
    /\ ed.cur_pos <= Len(ed.text)
    /\ ed' = e
    /\ missed' = missed \cup Misses(e)
    /\ UNCHANGED user

Sideways == {"h", "l", "0", "^", "$"}
Vertical == {"j", "k", "CR", "^D", "^U"}
Farther  == {"w", "b", "e", "gg", "G"}

Move ==
    \/ \E k \in Sideways \cup Farther : Gets(k, "normal") /\ Step(Went(Seen, k, 0))
    \/ \E k \in Vertical, w \in Columns : Gets(k, "normal") /\ Step(Went(Seen, k, w))
Page ==
    \/ Gets("^F", "normal") /\ Step(PageForward(Seen))
    \/ Gets("^B", "normal") /\ Step(PageBack(Seen))
\* n, with a message when the pattern is missing or found beyond an end.
Search ==
    /\ Gets("n", "normal")
    /\ \/ Step(Told(Seen))
       \/ \E q \in 0..(Len(ed.text) - 1) : Step(Found(Seen, q)) \/ Step(Told(Found(Seen, q)))
\* f and F
Find   == Gets("f", "normal") /\ \E q \in Bol(ed.text, ed.cur_pos)..(Eol(ed.text, ed.cur_pos) - 1) :
                                    Step(Follow(Seen, HMove(Seen, q)))
GotoLine == Gets(":N", "normal") /\ \E l \in 0..(LineCount(ed.text) - 1) : Step(Line(Seen, l))

Operate ==
    \E op \in Operators : \E m \in OpMotions \cup {op} :
        Gets(op, "normal") /\ Gets(m, "normal") /\ Step(Operated(Seen, op, m))
ReplaceChar == Gets("r", "normal") /\ \E c \in Users[user].typed : Step(Replacing(Seen, c))
Change == \E k \in {"J", "~", "p", "P", "u"} : Gets(k, "normal") /\ Step(Changed(Seen, k))
Redraw == Gets("^L", "normal") /\ Step(Refresh([Seen EXCEPT !.term = Cleared]))

EnterInsert == \E c \in InsertCmds : Gets(c, "normal") /\ Step(Entered(Seen, c))
TypeKey     == ed.mode = "insert" /\ \E c \in Users[user].typed : Step(Typed(Seen, c))
Backspace == Gets("BS", "insert") /\ Step(Backspaced(Seen))
EraseWord == Gets("^W", "insert") /\ Step(WordErased(Seen))
EraseLine == Gets("^U", "insert") /\ Step(LineErased(Seen))
Glide == \E k \in {"Left", "Right", "Up", "Down"}, w \in Columns :
            Gets(k, "insert") /\ Step(Glided(Seen, k, w))
LeaveInsert == ed.mode = "insert" /\ Step([Escaped([Seen EXCEPT !.status = FALSE]) EXCEPT !.status = FALSE])

Next ==
    \/ Move \/ Page \/ Search \/ Find \/ GotoLine
    \/ Operate \/ ReplaceChar \/ Change \/ Redraw
    \/ EnterInsert \/ TypeKey \/ Backspace \/ EraseWord \/ EraseLine \/ Glide \/ LeaveInsert

Spec == Init /\ [][Next]_vars
-----------------------------------------------------------------------------
Uses(commands) == Users[user].keys \cap commands # {}

\* What belongs on screen row r.
Shown(e, r) ==
    LET p == RowAt(e.text, e.top_pos, r)
        s == IF p < Len(e.text) THEN RowChars(e.text, p) ELSE IF r > 0 THEN <<Mark>> ELSE << >>
    IN  [c \in 0..(Cols - 1) |-> IF c < Len(s) THEN s[c + 1] ELSE Blank]

(* The screen is one of the terminal's, the cursor and the first row shown  *)
(* are positions of the text (zvi.h:119-121) except after "a" behind the    *)
(* text, and the cached row is known to be none or one of the screen's.     *)
TypeOK ==
    /\ ed.term.cells \in [0..(Rows - 1) -> [0..(Cols - 1) ->
            DOMAIN Toggled \cup {Toggled[c] : c \in DOMAIN Toggled} \cup {Blank, Message, Mark}]]
    /\ ed.term.row \in 0..(Rows - 1) /\ ed.term.col \in 0..(Cols - 1)
    /\ ed.term.trow \in -1..(Rows - 1) /\ ed.term.tcol >= -1
    /\ ed.top_pos \in 0..Len(ed.text) /\ ed.cur_pos \in 0..(Len(ed.text) + 1)
    /\ missed \subseteq {"wide", "split", "replaced", "unended", "away", "glided"}
    /\ user \in DOMAIN Users /\ steps \in 0..Users[user].steps

(* Every text row shows what the text has there, although a command draws   *)
(* no more than the rows it takes to have changed (screen.c:399-490)        *)
(* or has the terminal shift the others (screen.c:508-552).                 *)
TextShown == missed = {} => \A r \in 0..Bottom : ed.term.cells[r] = Shown(ed, r)

(* The terminal's cursor stands on the character that the next command will *)
(* change, if its row is shown (scr_update_cursor, screen.c:279-314).       *)
CursorShown ==
    (missed = {} /\ ~ed.term.slid /\ ~Uses({"gg"}) /\ InView(ed)) =>
        /\ ed.term.row = CursorRow(ed)
        /\ ed.term.col = Min({ed.cur_pos - VrowStart(ed.text, ed.cur_pos), Cols - 1})

RowKept == ed.cur_vrow >= 0 /\ ed.cur_pos <= Len(ed.text) =>
               InView(ed) /\ ed.cur_vrow = CursorRow(ed)

(* The cached screen row is the one counting from the first row shown would *)
(* give (scr_scroll_to_cursor, screen.c:214-216): whatever moves the cursor *)
(* or changes the text before it has dropped or shifted the cache.          *)
RowCacheHonest == missed = {} /\ ~Uses({"gg"}) => RowKept

(* The screen begins where a row of the text begins, not within one         *)
(* (screen.c:11-14), after every edit above the first row shown.            *)
TopIsRowStart == missed = {} => ed.top_pos = VrowStart(ed.text, ed.top_pos)

(* The terminal's cursor is where term.c takes it to be when it decides     *)
(* which bytes are enough to move it (term.c:169-235).                      *)
TracksCursor == "wide" \notin missed /\ ~ed.term.slid => Tracked(ed.term)
-----------------------------------------------------------------------------
(* What the documents say and the code does not keep in every case.        *)

(* screen.c:214-216: code that changes cur_pos non-incrementally sets       *)
(* cur_vrow = -1.  gg does not.                                             *)
RowDropped == missed = {} => RowKept
=============================================================================
