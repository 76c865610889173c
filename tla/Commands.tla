------------------------------ MODULE Commands ------------------------------
(***************************************************************************)
(* What the editing commands of normal mode and the keys of insert mode do *)
(* to the editor's fields, and the records they share: the undo record,    *)
(* the yank buffer and the dot record (edit.c, emove.c, erepeat.c).        *)
(*                                                                         *)
(* e holds fields of the code's global ed: text is the gap buffer's        *)
(* content, ins is g_ins_cmd.  Lengths are those of the sequences except   *)
(* undo.len, which counts more than undo.text holds when a deletion was    *)
(* too long for it.  x, X, D, s, C, S, Y are the operator commands the     *)
(* code turns them into: dl, dh, d$, cl, c$, cc, yy.                       *)
(*                                                                         *)
(* A cursor outside the text (CursorInBuffer of EditCommands says when)    *)
(* would make gb_insert read beyond its array; what that does is not       *)
(* modelled.                                                               *)
(***************************************************************************)
EXTENDS Motions, Folds

CONSTANTS Capacity,                         \* characters the buffer holds
          UndoMax, YankMax, DotTextMax,
          Nul,                              \* the character '\0'
          Toggled                           \* a character in the other case

ASSUME LimitsAssumption ==
    /\ Capacity \in 0..MAXINT /\ UndoMax \in Nat \ {0}
    /\ YankMax \in Nat \ {0} /\ DotTextMax \in Nat \ {0}

None == "none"
Newlines(s) == Cardinality({i \in DOMAIN s : s[i] = NL})
First(s, n) == SubSeq(s, 1, Min({n, Len(s)}))
From(s, n) == SubSeq(s, n + 1, Len(s))
-----------------------------------------------------------------------------
(* The text and its cached line count.                                     *)

LineCount(t) == IF t = << >> THEN 1
                ELSE Newlines(t) + (IF Last(t) = NL THEN 0 ELSE 1)

\* scr_line_count, by a command or to show the status line.
Counted(e) == IF e.line_cnt > 0 THEN e ELSE [e EXCEPT !.line_cnt = LineCount(e.text)]

\* A slip: the cached count is left alone.
AdjustedNever(e, n) == e.line_cnt
Adjusted(e, n) == IF e.line_cnt > 0 THEN e.line_cnt + n ELSE e.line_cnt

\* The cached screen row survives a change at the cursor within a line.
RowAfter(e, p, s) == IF p # e.cur_pos \/ Newlines(s) > 0 THEN -1 ELSE e.cur_vrow

\* gb_insert, and whether it had to leave something out
GbInsert(e, p, s) ==
    [e EXCEPT !.line_cnt = Adjusted(e, Newlines(s)),
              !.cur_vrow = RowAfter(e, p, s),
              !.text = First(e.text, p) \o First(s, Capacity - Len(e.text))
                       \o From(e.text, p)]
Full(e) == Len(e.text) >= Capacity

\* gb_delete
GbDelete(e, p, n) ==
    IF p >= Len(e.text) THEN e
    ELSE [e EXCEPT !.line_cnt = Adjusted(e, -Newlines(First(From(e.text, p), n))),
                   !.cur_vrow = RowAfter(e, p, First(From(e.text, p), n)),
                   !.text = First(e.text, p) \o From(e.text, p + n)]

\* n characters from p on, with what stands for those beyond the text.
Copied(t, p, n, outside) ==
    [i \in 1..n |-> IF p + i <= Len(t) THEN t[p + i] ELSE outside]

\* A slip: every change is taken for the first one.
UndoSaveDeleteClean(e, p, n) ==
    [e EXCEPT !.undo = [type |-> "delete", pos |-> p, len |-> n, was_clean |-> TRUE,
                        text |-> Copied(e.text, p, Min({n, UndoMax}), Nul)]]
UndoSaveDelete(e, p, n) ==
    [e EXCEPT !.undo = [type |-> "delete", pos |-> p, len |-> n,
                        was_clean |-> ~e.modified,
                        text |-> Copied(e.text, p, Min({n, UndoMax}), Nul)]]

UndoSaveInsert(e, p, n) ==
    [e EXCEPT !.undo = [type |-> "insert", pos |-> p, len |-> n,
                        was_clean |-> ~e.modified, text |-> << >>]]

Modified(e)      == [e EXCEPT !.modified = TRUE]
CursorAt(e, p)   == [e EXCEPT !.cur_pos = p]
Inserting(e, c)  == [e EXCEPT !.mode = "insert", !.ins = c]
DotIs(e, c, m, n, a) ==
    [e EXCEPT !.dot.cmd = c, !.dot.motion = m, !.dot.count = n, !.dot.arg = a]
-----------------------------------------------------------------------------
(* Operators.                                                              *)

\* After a deletion the cursor steps back from the end of a line.
SteppedBack(t, p) ==
    LET q == IF p >= Len(t) THEN Max({Len(t) - 1, 0}) ELSE p
    IN  IF q > 0 /\ At(t, q) = NL /\ At(t, q - 1) # NL THEN q - 1 ELSE q

ApplyOp(e, op, x, y, linewise) ==
    LET from   == Min({x, y})
        len    == Max({x, y}) - from
        yanked == [e EXCEPT !.yank = [text |-> Copied(e.text, from, Min({len, YankMax - 1}), Nul),
                                      line |-> linewise]]
        gone   == Modified(GbDelete(UndoSaveDelete(yanked, from, len), from, len))
        placed == Counted(CursorAt(gone, SteppedBack(gone.text, from)))
    IN  IF len = 0 THEN e
        ELSE IF op = "y" THEN [CursorAt(yanked, from) EXCEPT !.cur_vrow = -1]
        ELSE IF op = "d" THEN placed
        ELSE Inserting(UndoSaveInsert(placed, placed.cur_pos, 0), e.ins)

\* The record that "." repeats; yanking leaves it alone.
OperatorDot(e, op, m, n) ==
    IF op = "y" THEN e ELSE [DotIs(e, op, m, n, None) EXCEPT !.dot.text = << >>]
OperatorIns(e, op) == IF op = "c" THEN [e EXCEPT !.ins = "c"] ELSE e

\* An operator over the range of a motion.
OverMotion(e, op, m, n) ==
    LET c == IF m = "j" THEN Counted(e) ELSE e
        r == Span(c.text, c.cur_pos, m, n, c.line_cnt)
    IN  ApplyOp(CursorAt(c, r.from), op, r.from, r.to, r.linewise)
WithMotion(e, op, m, n) == OverMotion(OperatorIns(OperatorDot(e, op, m, n), op), op, m, n)

\* dd, cc, yy.  The last line may be too large for an int, as in Span.
LinesFrom(e, op, n) ==
    LET c     == Counted(e)
        first == LineOf(c.text, c.cur_pos)
        end   == Min({Wrap(first + n - 1), c.line_cnt - 1})
    IN  ApplyOp(c, op, LineStart(c.text, first),
                IF end + 1 < c.line_cnt THEN LineStart(c.text, end + 1) ELSE Len(c.text),
                TRUE)
Doubled(e, op, n) == LinesFrom(OperatorIns(OperatorDot(e, op, op, n), op), op, n)
-----------------------------------------------------------------------------
(* Single-character changes and joining.                                   *)

\* The character under the cursor is replaced by c.
Replaced(e, c) ==
    LET u == UndoSaveDelete(e, e.cur_pos, 1)
    IN  Modified(GbInsert(GbDelete(u, e.cur_pos, 1), e.cur_pos, <<c>>))

Replace(e, c) == IF e.cur_pos >= Len(e.text) THEN e
                 ELSE DotIs(Replaced(e, c), "r", None, 1, c)

OnCharacter(e) == e.cur_pos < Len(e.text) /\ At(e.text, e.cur_pos) # NL
Tilde(e, n) ==
    LET d == DotIs(e, "~", None, n, None)
        r == Replaced(d, Toggled[At(e.text, e.cur_pos)])
    IN  IF OnCharacter(e)
        THEN CursorAt(r, Min({LastOn(r.text, r.cur_pos), r.cur_pos + 1})) ELSE d

JoinOnce(e) ==
    LET eol == Eol(e.text, e.cur_pos)
        g   == GbDelete(UndoSaveDelete(e, eol, 1), eol, 1)
    IN  IF eol >= Len(e.text) THEN e
        ELSE Modified(IF eol < Len(g.text) /\ At(g.text, eol) # SP
                      THEN GbInsert(g, eol, <<SP>>) ELSE g)
Joined(e, n) == Counted(Times(JoinOnce, IF n > 1 THEN n - 1 ELSE 1, e))
Join(e, n)   == Joined(DotIs(e, "J", None, n, None), n)
-----------------------------------------------------------------------------
(* Put and undo.                                                           *)

\* The yanked text at p, a newline after it if whole lines lack one.
PutAt(e, p) ==
    LET u == UndoSaveInsert(e, e.cur_pos, Len(e.yank.text))
        g == GbInsert(u, p, e.yank.text)
    IN  Counted(Modified(
            IF e.yank.line /\ Last(e.yank.text) # NL
            THEN GbInsert(g, p + Len(e.yank.text), <<NL>>) ELSE g))

\* A slip: whole lines go in before the newline instead of after it.
PutAfterAtEol(e) ==
    LET p == IF e.yank.line THEN Eol(e.text, e.cur_pos)
             ELSE IF OnCharacter(e) THEN e.cur_pos + 1 ELSE e.cur_pos
    IN  IF e.yank.text = << >> THEN e ELSE CursorAt(PutAt(e, p), p)
PutAfter(e) ==
    LET eol == Eol(e.text, e.cur_pos)
        p   == IF e.yank.line THEN Min({eol + 1, Len(e.text)})
               ELSE IF OnCharacter(e) THEN e.cur_pos + 1 ELSE e.cur_pos
    IN  IF e.yank.text = << >> THEN e ELSE CursorAt(PutAt(e, p), p)

PutBefore(e) ==
    LET p == IF e.yank.line THEN Bol(e.text, e.cur_pos) ELSE e.cur_pos
    IN  IF e.yank.text = << >> THEN e ELSE CursorAt(PutAt(e, p), p)

\* A slip: the cursor is put behind the text of the record.
UndoneBehind(e) ==
    LET u == e.undo
        g == IF u.type = "delete" THEN GbInsert(e, u.pos, u.text)
             ELSE GbDelete(e, u.pos, u.len)
    IN  IF u.type = None THEN e
        ELSE Counted([g EXCEPT !.cur_pos = u.pos + u.len, !.modified = ~u.was_clean,
                               !.undo.type = None])
Undone(e) ==
    LET u == e.undo
        g == IF u.type = "delete" THEN GbInsert(e, u.pos, u.text)
             ELSE GbDelete(e, u.pos, u.len)
    IN  IF u.type = None THEN e
        ELSE Counted([g EXCEPT !.cur_pos = u.pos, !.modified = ~u.was_clean,
                               !.undo.type = None])
-----------------------------------------------------------------------------
(* Insert mode.                                                            *)

Enter(e, c) ==
    LET t   == e.text
        at(p) == Inserting(UndoSaveInsert(CursorAt(e, p), p, 0), c)
        \* o on a last line without newline gives it one first
        next == Min({Eol(t, e.cur_pos) + 1, Len(t)})
        bare == next = Len(t) /\ t # << >> /\ Last(t) # NL
        full == IF bare THEN GbInsert(e, Len(t), <<NL>>) ELSE e
        opened(g, p) == LET u == GbInsert(UndoSaveInsert(g, p, 0), p, <<NL>>)
                        IN  Inserting(Modified([u EXCEPT !.undo.len = 1, !.cur_pos = p]), c)
    IN  CASE c = "i" -> at(e.cur_pos)
          [] c = "a" -> at(IF t # << >> /\ At(t, e.cur_pos) # NL THEN e.cur_pos + 1
                           ELSE e.cur_pos)
          [] c = "I" -> at(FirstNonBlank(t, e.cur_pos))
          [] c = "A" -> at(Eol(t, e.cur_pos))
          [] c = "o" -> opened(full, IF bare THEN Len(t) + 1 ELSE next)
          [] c = "O" -> opened(e, Bol(t, e.cur_pos))

\* The record of an insertion grows and shrinks with what is typed.
\* Slips: the length may become negative; it does not count at all.
GrownFreely(e, n) == IF e.undo.type = "insert" THEN [e EXCEPT !.undo.len = @ + n] ELSE e
GrownNever(e, n) == e
Grown(e, n) == IF e.undo.type = "insert"
               THEN [e EXCEPT !.undo.len = Max({e.undo.len + n, 0})] ELSE e

Type(e, c) ==
    LET g == GbInsert(e, e.cur_pos, <<c>>)
    IN  IF Full(e) THEN g ELSE Grown(Modified(CursorAt(g, e.cur_pos + 1)), 1)

\* Everything from p to the cursor is erased, the cursor going there first.
Erased(e, p) ==
    IF p = e.cur_pos THEN e
    ELSE Grown(Modified(GbDelete(CursorAt(e, p), p, e.cur_pos - p)), p - e.cur_pos)
\* ^U moves the cursor afterwards.
ErasedLine(e) ==
    LET p == Bol(e.text, e.cur_pos)
    IN  IF p = e.cur_pos THEN e ELSE [Erased(e, p) EXCEPT !.cur_vrow = -1]

WordStart(t, p) ==
    LET q == Max({0} \cup {r \in 1..p : Class(At(t, r - 1)) # 0})
    IN  Max({0} \cup {r \in 1..q : Class(At(t, r - 1)) = 0})

InsertKey(e, k) ==
    CASE k = "BS"    -> Erased(e, Max({e.cur_pos - 1, 0}))
      [] k = "^W"    -> Erased(e, WordStart(e.text, e.cur_pos))
      [] k = "^U"    -> ErasedLine(e)
      [] k = "Left"  -> CursorAt(e, Target(e.text, e.cur_pos, "h", 1, 0, 0))
      [] k = "Right" -> CursorAt(e, Target(e.text, e.cur_pos, "l", 1, 0, 0))
      [] OTHER       -> Type(e, k)

\* ESC takes what was inserted from the buffer into the dot record.
Escape(e) ==
    LET u == e.undo
        d == [e EXCEPT !.dot = [cmd |-> e.ins, count |-> 1, arg |-> None,
                                motion |-> IF e.ins = "c" THEN @.motion ELSE None,
                                text |-> Copied(e.text, u.pos, Min({u.len, DotTextMax}),
                                                Absent)]]
        f == IF e.ins # None /\ u.type = "insert" /\ u.len > 0 THEN d ELSE e
    IN  Counted([f EXCEPT !.mode = "normal", !.ins = None,
                          !.cur_pos = IF @ > 0 /\ At(e.text, @ - 1) # NL THEN @ - 1 ELSE @])
-----------------------------------------------------------------------------
(* The dot command.                                                        *)

\* Where the text goes that is inserted again.
\* A slip: o and O are repeated where the cursor is.
DotPositionInLine(e) ==
    CASE e.dot.cmd = "A" -> Eol(e.text, e.cur_pos)
      [] e.dot.cmd = "I" -> FirstNonBlank(e.text, e.cur_pos)
      [] OTHER -> e.cur_pos
DotPosition(e) ==
    CASE e.dot.cmd = "a" -> IF OnCharacter(e) THEN e.cur_pos + 1 ELSE e.cur_pos
      [] e.dot.cmd = "A" -> Eol(e.text, e.cur_pos)
      [] e.dot.cmd = "I" -> FirstNonBlank(e.text, e.cur_pos)
      [] e.dot.cmd = "o" -> Min({Eol(e.text, e.cur_pos) + 1, Len(e.text)})
      [] e.dot.cmd = "O" -> Bol(e.text, e.cur_pos)
      [] OTHER -> e.cur_pos

\* The recorded text is inserted at p; the cursor goes to its end.
Reinserted(e, p) ==
    LET n == Len(e.dot.text)
        g == GbInsert(UndoSaveInsert(e, p, n), p, e.dot.text)
    IN  CursorAt(g, IF At(g.text, p + n - 1) = NL THEN p + n ELSE p + n - 1)

\* dot_replay_c
ChangedAgain(e, n) ==
    LET c  == IF e.dot.motion = "j" THEN Counted(e) ELSE e
        b  == Bol(e.text, e.cur_pos)
        r  == IF e.dot.motion = "c" THEN [from |-> b, to |-> Eol(e.text, b)]
              ELSE Span(c.text, c.cur_pos, e.dot.motion, n, c.line_cnt)
        x  == Min({r.from, r.to})
        y  == Max({r.from, r.to})
        d  == IF x = y THEN IF e.dot.motion = "c" THEN c ELSE CursorAt(c, r.from)
              ELSE Modified(CursorAt(GbDelete(UndoSaveDelete(c, x, y - x), x, y - x), x))
    IN  Counted(IF e.dot.text = << >> THEN d ELSE Reinserted(d, x))

\* "~" toggles the characters from the cursor on, up to the line's end.
ToggleOnce(e) ==
    LET r == Replaced(e, Toggled[At(e.text, e.cur_pos)])
    IN  IF OnCharacter(e) THEN CursorAt(r, r.cur_pos + 1) ELSE e

DotReplay(e, given) ==
    LET d == e.dot
        n == IF given > 0 THEN given ELSE d.count
    IN  CASE d.cmd = None -> e
          [] d.cmd = "r" -> IF e.cur_pos < Len(e.text) THEN Replaced(e, d.arg) ELSE e
          [] d.cmd = "~" -> Times(ToggleOnce, n, e)
          [] d.cmd = "J" -> Joined(e, n)
          [] d.cmd = "d" -> IF d.motion = "d" THEN LinesFrom(e, "d", d.count)
                            ELSE OverMotion(e, "d", d.motion, d.count)
          [] d.cmd = "c" -> ChangedAgain(e, n)
          [] OTHER -> IF d.text = << >> THEN e
                      ELSE Counted(Modified(Reinserted(e, DotPosition(e))))

\* A buffer just loaded.
Start(t) ==
    Counted([text |-> t, line_cnt |-> 0, cur_pos |-> 0, mode |-> "normal", ins |-> None,
             modified |-> FALSE, cur_vrow |-> -1,
             undo |-> [type |-> None, pos |-> 0, len |-> 0, was_clean |-> FALSE,
                       text |-> << >>],
             yank |-> [text |-> << >>, line |-> FALSE],
             dot  |-> [cmd |-> None, motion |-> None, count |-> 0, arg |-> None,
                       text |-> << >>]])
-----------------------------------------------------------------------------
(* The keys.                                                               *)

Operators  == {"d", "c", "y"}
OpMotions  == {"h", "l", "w", "b", "e", "$", "0", "^", "j", "k", "G"}
Motions    == OpMotions \cup {"CR", "nG", "gg"}
InsertCmds == {"i", "a", "I", "A", "o", "O"}
InsertKeys == {"BS", "^W", "^U", "Left", "Right"}
=============================================================================
