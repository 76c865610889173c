---------------------------- MODULE EditCommands ----------------------------
(***************************************************************************)
(* A user at the keyboard: one action is one command with its count and    *)
(* operands; in insert mode it is one key.                                 *)
(***************************************************************************)
EXTENDS Search

CONSTANTS Users,        \* users: the texts each begins with, the commands
                        \* each gives, the characters each types, the counts
                        \* each gives commands and "." (0 for none) and, as a
                        \* bound, how many commands and keys each gives;
                        \* the patterns each looks for
          Columns       \* columns up and down may aim at

\* The characters there are for a user.
Characters(u) == (UNION {Range(t) : t \in Users[u].texts \cup Users[u].patterns})
                 \cup Users[u].typed \cup {NL, SP, Nul, Absent} \cup Range(Toggled)

ASSUME UsersAssumption ==
    /\ \A u \in DOMAIN Users :
        /\ Users[u].counts \subseteq Nat \ {0} /\ Users[u].dot_counts \subseteq Nat
        /\ Users[u].steps \in Nat
        /\ \A t \in Users[u].texts : t \in Seq(Range(t)) /\ Len(t) <= Capacity
        /\ \A s \in Users[u].patterns : s \in Seq(Range(s)) /\ Nul \notin Range(s)
        /\ Characters(u) \ {NL} \subseteq DOMAIN Toggled
        /\ Users[u].typed \cap InsertKeys = {}
    /\ Columns \subseteq Nat

VARIABLES ed,
          seek,     \* what / n f and ; look for
          user,     \* who is at the keyboard, throughout
          saved,    \* history: the text of the file
          before,   \* history: the text before the change that undo is to undo
          typing,   \* history: the insertion under way, as typed
          last,     \* history: the last change, as typed
          asked,    \* history: the last search, as the user gave it
          steps     \* history: commands and keys

vars == <<ed, seek, user, saved, before, typing, last, asked, steps>>
-----------------------------------------------------------------------------
Unasked == [pattern |-> << >>, dir |-> Forward]
Nothing == [cmd |-> None, motion |-> None, count |-> 0, arg |-> None, keys |-> << >>]

Init ==
    /\ user \in DOMAIN Users
    /\ \E t \in Users[user].texts : ed = Start(t) /\ saved = t /\ before = t
    /\ seek = Unsought /\ asked = Unasked
    /\ typing = Nothing /\ last = Nothing
    /\ steps = 0

\* The status line counts the lines; a key that leaves it alone may still
\* bring it up by scrolling.
Takes(e) ==
    /\ steps < Users[user].steps
    /\ steps' = steps + 1
    /\ UNCHANGED user
    /\ ed.cur_pos <= Len(ed.text)
    /\ ed' \in {e, Counted(e)}
Step(e) == Takes(e) /\ UNCHANGED <<seek, asked>>

Gets(k) == ed.mode = "normal" /\ k \in Users[user].keys

\* A command that may change the text.
Does(e) ==
    /\ Step(e)
    /\ before' = IF e.text = ed.text /\ e.undo = ed.undo THEN before ELSE ed.text
    /\ UNCHANGED saved

AsTyped(c, m, n, a) == [cmd |-> c, motion |-> m, count |-> n, arg |-> a, keys |-> << >>]

Remembered(op, e, r) ==
    /\ typing' = r
    /\ last' = IF op = "y" \/ e.mode = "insert" THEN last ELSE r

Operate(op, m, n) ==
    /\ Gets(op) /\ Gets(m)
    /\ LET e == IF m = op THEN Doubled(ed, op, n) ELSE WithMotion(ed, op, m, n)
       IN  Does(e) /\ Remembered(op, e, AsTyped(op, m, n, None))

ReplaceChar(c) ==
    /\ Gets("r")
    /\ Does(Replace(ed, c))
    /\ last' = IF ed.cur_pos < Len(ed.text) THEN AsTyped("r", None, 1, c) ELSE last
    /\ UNCHANGED typing

ToggleCase(n) ==
    /\ Gets("~")
    /\ Does(Tilde(ed, n))
    /\ last' = AsTyped("~", None, n, None)
    /\ UNCHANGED typing

JoinLines(n) ==
    /\ Gets("J")
    /\ Does(Join(ed, n))
    /\ last' = AsTyped("J", None, n, None)
    /\ UNCHANGED typing

Put ==
    /\ \/ Gets("p") /\ Does(PutAfter(ed))
       \/ Gets("P") /\ Does(PutBefore(ed))
    /\ UNCHANGED <<typing, last>>

Undo ==
    /\ Gets("u")
    /\ Does(Undone(ed))
    /\ UNCHANGED <<typing, last>>

Dot(n) ==
    /\ Gets(".")
    /\ Does(DotReplay(ed, n))
    /\ UNCHANGED <<typing, last>>

EnterInsert(c) ==
    /\ Gets(c)
    /\ Does(Enter(ed, c))
    /\ typing' = AsTyped(c, None, 1, None)
    /\ UNCHANGED last

Press(k) ==
    /\ ed.mode = "insert"
    /\ k \in Users[user].typed \/ k \in Users[user].keys
    /\ Step(InsertKey(ed, k))
    /\ typing' = [typing EXCEPT !.keys = Append(@, k)]
    /\ UNCHANGED <<saved, before, last>>

\* The arrow keys up and down in insert mode.
Glide(k, w) ==
    /\ ed.mode = "insert"
    /\ k \in Users[user].keys
    /\ Step(CursorAt(ed, Target(ed.text, ed.cur_pos, IF k = "Up" THEN "k" ELSE "j", 1, w, 0)))
    /\ UNCHANGED <<saved, before, typing, last>>

\* ESC.  An insertion that left the text as it was is not a change.
LeaveInsert ==
    /\ ed.mode = "insert"
    /\ Step(Escape(ed))
    /\ last' = IF ed.text = before THEN last ELSE typing
    /\ UNCHANGED <<saved, before, typing>>

Move(m, n, w) ==
    /\ Gets(m)
    /\ LET c == IF m \in {"G", "nG", "gg"} THEN Counted(ed) ELSE ed
       IN  Step(CursorAt(c, Target(c.text, c.cur_pos, m, n, w, c.line_cnt)))
    /\ UNCHANGED <<saved, before, typing, last>>

Searches(e) == Takes(e) /\ UNCHANGED <<saved, before, typing, last>>

\* / and ?, of which n characters of s are left when RETURN is typed.  Without
\* a pattern there is nothing to look for.
SearchFor(c, s, n) ==
    /\ Gets(c) /\ n <= Len(s) /\ Len(s) < SearchMax
    /\ LET k == Spelled([seek EXCEPT !.dir = IF c = "/" THEN Forward ELSE Backward], s, n, TRUE)
       IN  /\ Searches(IF n > 0 THEN Found(ed, k) ELSE ed)
           /\ seek' = k
           /\ asked' = [pattern |-> First(s, n), dir |-> k.dir]

\* / and ? given up with ESC: the direction is changed, and the pattern written
\* over by what was typed.
AbandonSearch(c, s) ==
    /\ Gets(c) /\ Gets("ESC") /\ Len(s) < SearchMax
    /\ Searches(ed)
    /\ seek' = Spelled([seek EXCEPT !.dir = IF c = "/" THEN Forward ELSE Backward], s, 0, FALSE)
    /\ UNCHANGED asked

\* n and N; the direction N turns round is restored.
SearchAgain(c) ==
    /\ Gets(c)
    /\ Searches(Found(ed, IF c = "n" THEN seek ELSE [seek EXCEPT !.dir = -@]))
    /\ UNCHANGED <<seek, asked>>

\* f and F look for x; ; and , look again.
FindChar(c, x, n) ==
    /\ Gets(c)
    /\ seek' = CASE c = "f" -> [seek EXCEPT !.ch = x, !.way = Forward]
                 [] c = "F" -> [seek EXCEPT !.ch = x, !.way = Backward]
                 [] OTHER -> seek
    /\ LET way == IF c = "," THEN -seek'.way ELSE seek'.way
       IN  Searches(CursorAt(ed, FoundOnLine(ed.text, ed.cur_pos, seek'.ch, way, n)))
    /\ UNCHANGED asked

\* :w
Write ==
    /\ Gets(":w")
    /\ Step([ed EXCEPT !.modified = FALSE])
    /\ saved' = ed.text
    /\ UNCHANGED <<before, typing, last>>

Next ==
    \/ \E n \in Users[user].counts :
        \/ \E op \in Operators : \E m \in OpMotions \cup {op} : Operate(op, m, n)
        \/ ToggleCase(n) \/ JoinLines(n)
        \/ \E m \in Motions, w \in Columns : Move(m, n, w)
        \/ \E c \in {"f", "F", ";", ","}, x \in Users[user].typed : FindChar(c, x, n)
    \/ \E c \in Users[user].typed : ReplaceChar(c)
    \/ Put \/ Undo \/ Write
    \/ \E n \in Users[user].dot_counts : Dot(n)
    \/ \E c \in InsertCmds : EnterInsert(c)
    \/ \E k \in Users[user].typed \cup InsertKeys : Press(k)
    \/ \E k \in {"Up", "Down"}, w \in Columns : Glide(k, w)
    \/ LeaveInsert
    \/ \E c \in {"/", "?"}, s \in Users[user].patterns :
        AbandonSearch(c, s) \/ \E n \in 0..Len(s) : SearchFor(c, s, n)
    \/ \E c \in {"n", "N"} : SearchAgain(c)

Spec == Init /\ [][Next]_vars

-----------------------------------------------------------------------------
\* What the fields of the editor may be, over a set of characters.
Texts(chars, n) == {s \in Seq(chars) : Len(s) <= n}
UndoRecords(chars) ==
    [type : {None, "delete", "insert"}, pos : Nat, len : Nat, was_clean : BOOLEAN,
     text : Texts(chars, UndoMax)]
DotRecords(chars) ==
    [cmd : InsertCmds \cup {"d", "c", "r", "~", "J", None}, count : Nat,
     motion : OpMotions \cup {"d", "c", None}, arg : chars \cup {None},
     text : Texts(chars, DotTextMax)]
YankRecords(chars) == [text : Texts(chars, YankMax - 1), line : BOOLEAN]
Modes == {"normal", "insert"}
Editors(chars) ==
    [text : Texts(chars, Capacity), line_cnt : Int, cur_pos : Nat, cur_vrow : Int,
     mode : Modes, ins : InsertCmds \cup {"c", None}, modified : BOOLEAN,
     undo : UndoRecords(chars), yank : YankRecords(chars), dot : DotRecords(chars)]

\* What is looked for; a pattern ends within its array.
Seeks(chars) ==
    [pat : {s \in [1..SearchMax -> chars] : s[SearchMax] = Nul},
     dir : {Forward, Backward}, ch : chars \cup {None}, way : {Forward, Backward}]

(* The records have their fields, no text is longer than its array, and    *)
(* the mode is normal or insert (zvi.h:102-184).                           *)
TypeOK ==
    /\ ed \in Editors(Characters(user))
    /\ seek \in Seeks(Characters(user))
    /\ saved \in Seq(Characters(user)) /\ before \in Seq(Characters(user))
    /\ user \in DOMAIN Users /\ steps \in 0..Users[user].steps

\* The properties hold for users who do not give certain commands.
Uses(commands) == Users[user].keys \cap commands # {}

(* The cursor is a position of the buffer (zvi.h:120): every command leaves *)
(* it where gb_insert may be called.  Not so "a" behind a last line without *)
(* newline (edit.c:605), "u" after text before the insertion was erased     *)
(* (edit.c:116), and what a full buffer cut short (edit.c:643, erepeat.c:234).*)
CursorInBuffer ==
    ~Uses({"a"}) /\ ~(Uses({"u"}) /\ Uses({"BS", "^W", "^U"})) =>
        ed.cur_pos <= Len(ed.text) \/ Full(ed)

\* Commands that change more, or elsewhere, than they record.
RecordedInPart == {"p", "P", "r", "~", "J", "c", "e", "a", "BS", "^W", "^U",
                   "Left", "Right", "Up", "Down"}

Ended(t) == t = << >> \/ Last(t) = NL

(* Whenever u would do something it would bring back the text that the last *)
(* change began with (undo_save_delete, undo_save_insert, insert_key), for  *)
(* changes by the commands that record all they change, of no more than the *)
(* record holds (zvi.h:108) and the buffer can take; and of texts that end  *)
(* in a newline, which o may otherwise have added (edit.c:642).             *)
UndoWouldRestore ==
    ( /\ ~Uses(RecordedInPart)
      /\ ed.mode = "normal" /\ ed.undo.type # None
      /\ ed.undo.len <= UndoMax /\ ~Full(ed) /\ Ended(before) ) =>
        Undone(ed).text = before

\* A change of the file's text can be recorded, and made, in full.
FileIsSmall ==
    Len(saved) <= UndoMax /\ Len(saved) + DotTextMax <= Capacity /\ Ended(saved)

(* A buffer that does not count as modified is what the file holds          *)
(* (zvi.h:118): no command changes the text and leaves ":q" willing.  u     *)
(* restores the flag from before a save, or over text it does not restore;  *)
(* "." sets no flag for a change of nothing (erepeat.c:86).                 *)
ModifiedHonest ==
    ( /\ Uses({"u"}) => ~Uses(RecordedInPart \cup {":w"}) /\ FileIsSmall
      /\ ~(Uses({"c"}) /\ Uses({"."}))
      /\ ~ed.modified ) => ed.text = saved

\* The last change typed once more, with n as its count if there is one, and as
\* much of what was inserted as the dot record holds.
ByHand(n) ==
    LET l    == last
        k    == IF n > 0 THEN n ELSE l.count
        op   == IF l.motion = l.cmd THEN Doubled(ed, l.cmd, k)
                ELSE WithMotion(ed, l.cmd, l.motion, k)
        keys(e) == Escape(FoldLeft(InsertKey, e, First(l.keys, DotTextMax)))
    IN  CASE l.cmd = None -> ed
          [] l.cmd = "d"  -> op
          [] l.cmd = "c"  -> keys(op)
          [] l.cmd = "r"  -> Replace(ed, l.arg)
          [] l.cmd = "~"  -> Tilde(ed, k)
          [] l.cmd = "J"  -> Join(ed, k)
          [] OTHER        -> keys(Enter(ed, l.cmd))

\* A change whose record "." does not work from in full, or not rightly.
RecordedShort ==
    \/ last.cmd \in {"o", "O"} /\ Len(last.keys) >= DotTextMax
    \/ Uses(InsertKeys \cup {"Up", "Down"})

(* "." changes the text as typing the last change once more would, although *)
(* it works from a record of it and by other code (dot_replay, insert_key): *)
(* but of an insertion of more than DOT_TEXT_MAX characters it repeats the  *)
(* first so many (edit.c:79).  Left out are such insertions by o and O, for *)
(* it is their own newline, behind what is typed, that is cut off; users    *)
(* who erase or move while they insert, after which other text is recorded  *)
(* (edit.c:116, 106); and the count given to the "." of a deletion, which   *)
(* is ignored (erepeat.c:209).                                              *)
DotRepeats ==
    [][\A n \in Users[user].dot_counts :
        Dot(n) /\ (last.cmd = "d" => n = 0) /\ ~RecordedShort =>
            ed'.text = ByHand(n).text]_vars

\* The lines of t, without their newlines.
Rows(t) ==
    IF t = << >> THEN << >>
    ELSE [l \in 1..LineCount(t) |->
            LET b == LineStart(t, l - 1) IN SubSeq(t, b + 1, Eol(t, b))]

(* Putting whole lines adds them as lines, below the cursor's line or above *)
(* it, and leaves every other line alone ('p' and 'P' of normal_misc_cmd);  *)
(* not so below a last line without newline (edit.c:379-381), nor where the *)
(* buffer cannot take them (gap.c:177).                                     *)
PutKeepsLines ==
    [][( /\ Put /\ ed.yank.line /\ ed.yank.text # << >>
         /\ Ended(ed.text) /\ Len(ed.text) + Len(ed.yank.text) < Capacity ) =>
        \E k \in {LineOf(ed.text, ed.cur_pos), LineOf(ed.text, ed.cur_pos) + 1} :
            Rows(ed'.text) = First(Rows(ed.text), k) \o Rows(ed.yank.text)
                             \o From(Rows(ed.text), k)]_vars

DeletesLine ==
    Operate("d", "d", 1) =>
        ed'.text = First(ed.text, Bol(ed.text, ed.cur_pos))
                   \o From(ed.text, Eol(ed.text, ed.cur_pos) + 1)

(* dd deletes the cursor's line and nothing else, although it takes the     *)
(* number of lines from a cache (normal_cmd, scr_line_count): where the     *)
(* last line has its newline, for the cache is shifted by newlines only.    *)
DeletesOneLine == [][Ended(ed.text) => DeletesLine]_vars

Occurrences(t, s) ==
    {p \in 0..(Len(t) - Len(s)) : \A j \in 1..Len(s) : Same(At(t, p + j - 1), s[j])}

\* The occurrence a search meets first.
Nearest(t, p, s, dir) ==
    LET hits  == Occurrences(t, s)
        ahead == {q \in hits : IF dir = Forward THEN q > p ELSE q < p}
        these == IF ahead # {} THEN ahead ELSE hits
    IN  IF s = << >> \/ hits = {} THEN p
        ELSE IF dir = Forward THEN Min(these) ELSE Max(these)

(* A search goes to the nearest occurrence, in the direction and of the     *)
(* pattern the user last completed, and from the last one on to the first   *)
(* (do_search_from, read_pattern), whatever was searched for and changed    *)
(* before.  Not so from behind the last character, where it misses the      *)
(* first one (emove.c:575), in a text of more than half as many characters  *)
(* as an int can count, or when a search was given up since (emove.c:539).  *)
SearchFindsNext ==
    [][( /\ ed.cur_pos < Len(ed.text) /\ 2 * Len(ed.text) <= MAXINT
         /\ ~Uses({"ESC"}) ) =>
         /\ \A c \in {"/", "?"}, s \in Users[user].patterns, n \in 1..SearchMax :
                SearchFor(c, s, n) =>
                    ed'.cur_pos = Nearest(ed.text, ed.cur_pos, asked'.pattern, asked'.dir)
         /\ SearchAgain("n") => ed'.cur_pos = Nearest(ed.text, ed.cur_pos, asked.pattern, asked.dir)
         /\ SearchAgain("N") => ed'.cur_pos = Nearest(ed.text, ed.cur_pos, asked.pattern, -asked.dir)]_vars
-----------------------------------------------------------------------------
(* What the documents say and the code does not keep in every case.        *)

(* zvi.1:239: dd is "Delete the current line".                              *)
DeletesItsLine == [][DeletesLine]_vars
=============================================================================
