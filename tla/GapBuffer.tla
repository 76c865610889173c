----------------------------- MODULE GapBuffer ------------------------------
(***************************************************************************)
(* The editor's text store (gap.c) and the two line-number caches of       *)
(* screen.c that gb_insert and gb_delete keep up to date.                  *)
(*                                                                         *)
(* gb is ed.gb: an array with a gap of unused bytes, [gstart, gend), that  *)
(* is moved to the place of every change.  The array is carved out of free *)
(* memory, so its initial bytes are arbitrary.  Positions count from 0 as  *)
(* in the code; the text is a TLA+ sequence, so character p is text[p+1].  *)
(* cur_vrow, which gb_insert and gb_delete also invalidate, is display     *)
(* state and no part of this module.                                       *)
(***************************************************************************)
EXTENDS Integers, Sequences, FiniteSets

CONSTANTS Size,         \* bytes in the array
          Char,         \* characters
          NL,           \* the newline character
          Texts,        \* the strings the commands insert
          MaxCuts       \* bound: insertions per buffer that may be cut short

ASSUME SizeAssumption  == Size \in Nat \ {0}
ASSUME CharAssumption  == NL \in Char
ASSUME TextsAssumption == Texts \subseteq Seq(Char)
ASSUME CutsAssumption  == MaxCuts \in Nat

VARIABLES gb,               \* the gap buffer: buf, gstart, gend
          cur_pos,          \* the cursor
          line_cnt_cached,  \* cached number of lines; 0 = invalid
          cur_line,         \* cached line number of cur_line_pos
          cur_line_pos,     \* the position cur_line was computed for; -1 = stale
          cuts              \* history: insertions that did not fit entirely

caches == <<line_cnt_cached, cur_line, cur_line_pos>>
vars   == <<gb, cur_pos, caches, cuts>>
-----------------------------------------------------------------------------
GapLen(g)     == g.gend - g.gstart
ContentLen(g) == Size - GapLen(g)

\* The text: the bytes before the gap and the bytes after it.
Content(g) ==
    [i \in 1..ContentLen(g) |->
        IF i <= g.gstart THEN g.buf[i - 1] ELSE g.buf[g.gend + (i - 1 - g.gstart)]]

\* b after n bytes were copied; the ranges may overlap.
Memmove(b, to, from, n) ==
    [k \in DOMAIN b |-> IF k \in to..(to + n - 1) THEN b[from + (k - to)] ELSE b[k]]

\* A slip: bytes are not copied when the gap moves right.
MoveGapLosingText(g, pos) ==
    [buf    |-> IF pos < g.gstart
                  THEN Memmove(g.buf, g.gend - (g.gstart - pos), pos, g.gstart - pos)
                  ELSE g.buf,
     gstart |-> pos,
     gend   |-> pos + GapLen(g)]

\* g with the gap moved to pos.
MoveGap(g, pos) ==
    [buf    |-> IF pos < g.gstart
                  THEN Memmove(g.buf, g.gend - (g.gstart - pos), pos, g.gstart - pos)
                  ELSE Memmove(g.buf, g.gstart, g.gend, pos - g.gstart),
     gstart |-> pos,
     gend   |-> pos + GapLen(g)]

\* g with the first n characters of s written at pos; the gap shrinks by n.
Fill(g, pos, s, n) ==
    LET m == MoveGap(g, pos)
    IN  [buf    |-> [k \in DOMAIN m.buf |->
                        IF k \in pos..(pos + n - 1) THEN s[k - pos + 1] ELSE m.buf[k]],
         gstart |-> pos + n,
         gend   |-> m.gend]

\* g with count characters at pos swallowed by the gap.
Expand(g, pos, count) ==
    LET m == MoveGap(g, pos) IN [m EXCEPT !.gend = m.gend + count]

Smaller(a, b) == IF a <= b THEN a ELSE b
\* A slip: the length is not clipped at the end of the text.
DeletableUnclipped(g, pos, count) == count
Deletable(g, pos, count) == Smaller(count, ContentLen(g) - pos)

text == Content(gb)

\* Newlines of t between two positions; gb_char_at finds none beyond the end.
Newlines(t, from, to) ==
    Cardinality({i \in (from + 1)..to : i <= Len(t) /\ t[i] = NL})
-----------------------------------------------------------------------------
(* The caches.  gb_insert and gb_delete adjust them by the text they were  *)
(* asked to insert or found to delete.                                     *)

\* A slip: the cached count is left as it is.
LineCountStuck(change) == line_cnt_cached
LineCountAfter(change) ==
    IF line_cnt_cached > 0 THEN line_cnt_cached + change ELSE line_cnt_cached

CachesAfterInsert(pos, s) ==
    LET nl_added == Newlines(s, 0, Len(s))
        shifts   == cur_line_pos >= 0 /\ pos <= cur_line_pos
    IN  /\ line_cnt_cached' = LineCountAfter(nl_added)
        /\ cur_line_pos' = IF shifts THEN cur_line_pos + Len(s) ELSE cur_line_pos
        /\ cur_line' = IF shifts THEN cur_line + nl_added ELSE cur_line

\* A slip: a deletion across the cached position leaves the cache alone.
CachesKeptAcross(pos, count) ==
    LET nl_del == Newlines(text, pos, pos + count)
        shifts == cur_line_pos >= 0 /\ pos + count <= cur_line_pos
    IN  /\ line_cnt_cached' = LineCountAfter(-nl_del)
        /\ cur_line_pos' = IF shifts THEN cur_line_pos - count ELSE cur_line_pos
        /\ cur_line' = IF shifts THEN cur_line - nl_del ELSE cur_line

CachesAfterDelete(pos, count) ==
    LET nl_del == Newlines(text, pos, pos + count)
        shifts == cur_line_pos >= 0 /\ pos + count <= cur_line_pos
    IN  /\ line_cnt_cached' = LineCountAfter(-nl_del)
        /\ cur_line_pos' = IF shifts THEN cur_line_pos - count
                           ELSE IF pos <= cur_line_pos THEN -1
                           ELSE cur_line_pos
        /\ cur_line' = IF shifts THEN cur_line - nl_del ELSE cur_line

\* What scr_line_count counts when its cache is invalid.
LineCount(t) ==
    IF t = << >> THEN 1
    ELSE Newlines(t, 0, Len(t)) + (IF t[Len(t)] = NL THEN 0 ELSE 1)

\* What scr_cur_line answers: a full scan, or the cached line corrected by
\* the newlines between the cached position and the cursor.
CurLine ==
    IF cur_line_pos < 0 \/ cur_line < 0 THEN Newlines(text, 0, cur_pos)
    ELSE IF cur_pos >= cur_line_pos
      THEN cur_line + Newlines(text, cur_line_pos, cur_pos)
    ELSE LET l == cur_line - Newlines(text, cur_pos, cur_line_pos)
         IN  IF l < 0 THEN 0 ELSE l
-----------------------------------------------------------------------------
Init ==
    /\ \E b \in [0..(Size - 1) -> Char] : gb = [buf |-> b, gstart |-> 0, gend |-> Size]
    /\ cur_pos = 0
    /\ line_cnt_cached = 0
    /\ cur_line = 0
    /\ cur_line_pos = -1
    /\ cuts = 0

\* The command that changed the text leaves the cursor somewhere in it.
PlaceCursor == cur_pos' \in 0..ContentLen(gb')

\* gb_insert: characters are stored one by one until the gap is used up.
Insert(pos, s) ==
    LET n == Smaller(Len(s), GapLen(gb))
    IN  /\ n < Len(s) => cuts < MaxCuts
        /\ gb' = IF n = 0 THEN gb ELSE Fill(gb, pos, s, n)
        /\ cuts' = IF n < Len(s) THEN cuts + 1 ELSE cuts
        /\ CachesAfterInsert(pos, s)
        /\ PlaceCursor

\* gb_delete: refuses a position outside the text, stops at its end.
Delete(pos, count) ==
    LET n == Deletable(gb, pos, count)
    IN  /\ pos < ContentLen(gb)
        /\ gb' = Expand(gb, pos, n)
        /\ CachesAfterDelete(pos, n)
        /\ PlaceCursor
        /\ UNCHANGED cuts

\* The buffer is emptied before a file, or another part of it, is read in.
Reset ==
    /\ gb' = [gb EXCEPT !.gstart = 0, !.gend = Size]
    /\ cur_pos' = 0
    /\ line_cnt_cached' = 0
    /\ cur_line_pos' = -1
    /\ cuts' = 0
    /\ UNCHANGED cur_line

Move ==
    /\ cur_pos' \in 0..ContentLen(gb)
    /\ UNCHANGED <<gb, caches, cuts>>

\* scr_line_count
AskLineCount ==
    /\ line_cnt_cached <= 0
    /\ line_cnt_cached' = LineCount(text)
    /\ UNCHANGED <<gb, cur_pos, cur_line, cur_line_pos, cuts>>

\* scr_cur_line
AskCurLine ==
    /\ cur_line_pos # cur_pos
    /\ cur_line' = CurLine
    /\ cur_line_pos' = cur_pos
    /\ UNCHANGED <<gb, cur_pos, line_cnt_cached, cuts>>

Next ==
    \/ \E pos \in 0..ContentLen(gb), s \in Texts : Insert(pos, s)
    \/ \E pos \in 0..ContentLen(gb), count \in 0..(Size + 1) : Delete(pos, count)
    \/ Reset
    \/ Move
    \/ AskLineCount
    \/ AskCurLine

Spec == Init /\ [][Next]_vars
-----------------------------------------------------------------------------
GapBufs == [buf : [0..(Size - 1) -> Char], gstart : 0..Size, gend : 0..Size]

(* The gap stays inside the array and the cursor inside the text, whatever *)
(* is inserted, deleted or reloaded (gb_insert, gb_delete, gb_move_gap).    *)
TypeOK ==
    /\ gb \in GapBufs
    /\ gb.gstart <= gb.gend
    /\ cur_pos \in 0..ContentLen(gb)
    /\ line_cnt_cached \in Int
    /\ cur_line \in Int
    /\ cur_line_pos \in Int
    /\ cur_line_pos >= -1
    /\ cuts \in 0..MaxCuts

CurLineCached ==
    cur_line_pos >= 0 =>
        /\ cur_line_pos <= Len(text)
        /\ cur_line = Newlines(text, 0, cur_line_pos)

(* As long as every insertion fitted, the incremental line number is what   *)
(* a full scan of the text would count, through any mix of edits before,    *)
(* across and after the cached position (gb_insert, gb_delete,              *)
(* scr_cur_line).                                                           *)
CurLineExact == cuts = 0 => CurLineCached

(* As long as every insertion fitted, the cached number of lines is the     *)
(* number of newlines or one more: the cache never drifts further, however  *)
(* long the editing goes on (gb_insert, gb_delete, scr_line_count).         *)
LineCountNear ==
    (cuts = 0 /\ line_cnt_cached > 0) =>
        line_cnt_cached - Newlines(text, 0, Len(text)) \in {0, 1}

(* The gap buffer implements the text it stands for: moving the gap, in     *)
(* either direction and over overlapping ranges, never changes, loses or    *)
(* reorders a character (gb_move_gap, gb_insert, gb_delete).                *)
Text == INSTANCE TextBuffer WITH Capacity <- Size
ImplementsText == Text!TextSpec
=============================================================================
