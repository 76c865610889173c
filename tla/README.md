# ZVI in TLA+

ZVI is a vi clone for CP/M on the Z80: one thread, 16-bit integers, some
20-30 KB for text. This directory holds TLA+ models of it, the TLC
configurations that check them and TLAPS proofs about them. Line numbers refer
to the C files of the repository.

## Inventory

| component | code | state | operations |
|---|---|---|---|
| text store | `gap.c` | `ed.gb`: array, gap bounds | `gb_insert`, `gb_delete`, `gb_move_gap`, `gb_char_at` |
| line-number caches | `screen.c`, `gap.c` | `line_cnt_cached`, `cur_line`, `cur_line_pos` | `scr_line_count`, `scr_cur_line`; adjusted by every insertion and deletion |
| file window | `gap.c` | `win_start`, `tail_offset`, `tail_file`, `win_line_offset`, the files, `ZVISWAP.TMP`, `ZVITMP.TMP` | `gb_load`, `gb_load_more`, `gb_discard_head`, `gb_reload_from`, `gb_save` |
| ex commands | `ex.c` | `filename`, `modified` | `:r :e :w :q :x :wq :N :$` |
| motions | `emove.c` | `cur_pos`, `want_col` | `mv_*`, `motion_endpoint` |
| editing commands | `edit.c`, `emove.c` | `undo`, `yank`, `modified`, `mode` | operators, `r ~ J p P u` |
| insert mode | `edit.c` | `g_ins_cmd`, `undo` | `i a I A o O`, keys, ESC |
| dot command | `erepeat.c` | `dot_*` | `dot_replay`, `dot_replay_c` |
| search, find | `emove.c`, `edit.c` | `search`, `search_dir`, `g_find_*` | `/ ? n N f F ; ,` |
| counts and dispatch | `edit.c` | `g_count`, `g_hcnt`, `g_op`, `g_g` | `normal_cmd` |
| viewport | `screen.c` | `top_pos`, `cur_vrow` | `scr_scroll_to_cursor`, the redraw tiers |
| terminal | `term.c` | `s_trow`, `s_tcol` | `term_goto`, scrolling |
| keyboard | `term.c` | - | `term_getch`, `term_getsize` |
| file access | `zio.c` | FCBs, 128-byte buffers, a pool of two | `z_fopen` ... `z_rename` |
| startup | `zvi.c`, `gap.c` | all of `ed` | `main`, `gb_init` |

**How they interact.** Everything is a call on the one global `ed`. A key goes
through `edit_run` to `insert_key` or `normal_cmd`; commands read the text by
`gb_char_at`, change it by `gb_insert` and `gb_delete`, keep the undo, yank and
dot records themselves, and ask `screen.c` to show the result. The text store
adjusts the display's caches. Paging keys, `G` and the ex commands move the
window over the file; the window's code saves to the swap file when it would
otherwise drop changes.

**What is hard.** Nothing runs concurrently; the difficulty is state that
several pieces of code must keep in step over long sequences of commands:

* caches that are shifted, never recomputed (line numbers, line count, screen
  row), and that may be used when they no longer fit the text;
* a document in three pieces - head, window, rest - with offsets into a file
  that itself changes at every save and swap;
* one undo record, written before the change it describes, kept while other
  things move, and also used to capture text for the dot command;
* a dot command that repeats changes by code of its own;
* a modified flag that undo turns back, and that together with the name of the
  swap file decides whether work may be thrown away;
* boundaries: empty text, no final newline, a full buffer, the cursor behind the
  last character, 16-bit sums;
* failures of the disk, and answers of the terminal that come late or never.

**What makes each component correct.** Text store: it is a sequence of
characters. Caches: they equal a fresh count. Window: it is one document,
paging does not change it, saving writes it, and it counts as clean only when
it is on the disk. Editing: undo restores, dot repeats, an unmodified buffer is
the file, whole-line commands treat whole lines. Viewport: the cached row is the
row a scan finds. Terminal: the remembered position is the real one. File
access: reading returns the bytes written. The list `hazards` in `PROJECT.json`
names the places where these can go wrong, with the properties that would catch
each one.

## Modules

| module | models | corresponds to |
|---|---|---|
| `TextBuffer` | abstract: a text with insertion, deletion, clearing | what callers of `gap.c` rely on |
| `GapBuffer` | the gap buffer and the line caches | one action per entry point: `Insert` is `gb_insert`, `Delete` is `gb_delete`, `Reset` the emptying before a load, `AskLineCount` and `AskCurLine` the two cached questions, `Move` a motion |
| `MemMove` | the copy loop under the gap buffer, a byte per step | `gb_memmove` |
| `CpmText` | CR LF in files, LF in memory | the loops of `gb_fill`, `gb_write_buf` |
| `Document` | abstract: one document, changed, saved, replaced, abandoned | what the user relies on |
| `FileWindow` | the sliding window, swap file and ex commands | `LoadMore` is `gb_load_more` with `gb_discard_head`, `Reload` is `gb_reload_from`, `Saved` is `gb_save` in one step; an action per command; `G` and `:$` take a step per chunk (`SeekOn`) |
| `ZFile` | CP/M files: records, FCB positions, the pool of two | an operator per function of `zio.c` |
| `SaveProtocol` | `gb_save` and the reading of `gb_load_more`, one disk operation after another | a step per iteration of `gb_write_head`, `gb_write_buf`, `gb_write_tail`; `CloseOut`, `RemoveOld`, `RenameTmp`, `Return` are the lines after them |
| `Motions` | lines, words, motions and operator ranges as operators | `emove.c`, `find_bol`, `find_eol`, `scr_line_start` |
| `Commands` | what each command does to text, cursor and records, as operators on the editor's state | `ApplyOp` is `apply_op`, `InsertKey` is `insert_key`, `Enter`, `Escape`, `Undone`, `Join`, `PutAfter`, `DotReplay`, ... |
| `Search` | patterns and finds | `SearchFrom` is `do_search_from`, `Spelled` is `read_pattern`, `FoundOnLine` is `mv_find` |
| `EditCommands` | a user giving these commands | an action per command, in insert mode per key |
| `Terminal` | the terminal, and `s_trow`, `s_tcol` that follow it | `Goto` is `term_goto`, `PutChar` is `term_putch`; `Dev...` is what the terminal does with the bytes |
| `Screen` | rows, viewport and redrawing, with the commands that choose how much to redraw | `ScrollToCursor`, `UpdateCursor`, `RedrawCurLine`, `RedrawFromCur`, `UpdateAfterMove`, `Refresh` are the functions of `screen.c`; an action per command or key |
| `Keyboard` | from bytes to commands: escape sequences, the size query, counts, prefixes, operands, command lines | `GetFirst`, `GetNext`, `PollKey` are `term_getch`; `PollReply`, `GetReply` are `term_getsize`; `Key` is `normal_cmd` and what it calls |
| `GapBufferProofs`, `FileWindowProofs`, `KeyboardProofs`, `CommandsProofs`, `EditCommandsProofs`, `ScreenProofs`, `CpmTextProofs`, `SaveProofs` | theorems | |
| `MC...` | constants for TLC | |

How they fit together:

* `GapBuffer` implements `TextBuffer` (`ImplementsText`), which justifies that
  all other modules use the text as a sequence.
* `FileWindow` implements `Document` (`ImplementsDocument`).
* `SaveProtocol` extends `ZFile`. It takes apart what is one step in
  `FileWindow` (`Saved`, the reading of `LoadMore`), and says what is on the
  disk between the parts.
* `EditCommands` extends `Search`, which extends `Commands` and `Motions`;
  `Screen` composes the same `Commands` with `Terminal`. The first asks what the
  commands do to text and records, the second what is left on the screen.
* `Keyboard` ends where `EditCommands` begins: with a command, its count and its
  operand.

**Abstractions.** Characters are members of a small set. Wording of messages and
layout are left out. A tab counts one column, and up and down get any of a set
of wanted columns. `x X D s C S Y` are the operator commands they are turned into.

* `FileWindow`: the cursor is anywhere in the window when a command is given:
  only motions place it, and they reach every position. A save is one step that
  either happens or, for the swap file and where a run says so, does not. Undo is
  followed only while its position lies in the window.
* `SaveProtocol`: the window does not slide; the bytes of a file being
  written are on the disk when BDOS puts its records into the directory, that
  is when an extent is full or the file is closed. A name is a value; that two
  spellings are one file is a matter of `FileWindow`. A document whose own name
  is `ZVITMP.TMP` is left out.
* `EditCommands`: a command that finds the cursor outside the text (see `a` under
  known departures) is not followed further. Where the code only draws, it
  counts lines, because the status line does and that fills a cache the
  commands read.
* `Screen`: the status line shows one character. What the dot command and loading
  draw is left out. `missed` remembers changes after which the code draws too
  little (next but one section); the properties speak of screens without them.
* `Keyboard`: of keys that the code treats alike, such as those of one motion
  each, a user has one or two. What a completed command does is not followed.

Definitions introduced by "A slip" are variants of the definition after them,
each with one plausible mistake; no specification uses them. They show that the
property named with them under `mutants` would notice.

## Runs that hold

| run | instance | shows |
|---|---|---|
| `gap_buffer` | 3 bytes, 2 characters, strings up to 3 | `TypeOK`, `CurLineExact`, `LineCountNear`, `ImplementsText` |
| `mem_move` | 5 bytes, 2 values, every call | `LoopInv`, `Moved`, `SourceIntact`, `Returns` |
| `window` | window 3 (+1), chunk 2. *Reader*: a CR LF file of 8 bytes and one of 1, `:r`, `:e`, one change. *Writer*: a file of 5 bytes, paging both ways, 2 changes. *Undoer*: one window, 4 changes with undo, opening files. A deletion of up to 4 characters, 3 by the undoer; undo 3 characters | `TypeOK`, `LinesAnchored`, `SeekReachesEnd`, `SeekReturns`, `ImplementsDocument` |
| `save` | records of 2 bytes, files of 2 to 3 records, every window of them of up to 4 characters; a disk with room and one that fills up; a directory that refuses a new file or not; 1 change, 2 saves | `TypeOK`, `DocumentIntact`, `SavedInFull`, `SurvivesCrash`, `SaveReturns` |
| `edit` | seven users: *everything* (all commands but `u` and `.`, and of the motions not `^ CR Up`, 4 steps), *undoer* (6), *repeater* (5), *lines* (5), *searcher* (4), *quitter* (4, finds and searches given up), *counter* (5, counts whose sum with a line does not fit); undo 5, yank 6, dot 2 characters, integers up to 31 | `TypeOK`, `CursorInBuffer`, `UndoWouldRestore`, `ModifiedHonest`, `DotRepeats`, `PutKeepsLines`, `DeletesOneLine`, `SearchFindsNext` |
| `screen` | three text rows of four columns. *Reader*: wrapped and empty lines, 7 keys of motion and paging. *Editor*: lines shorter than a row, which scroll, 4 keys of all that edits | `TypeOK`, `TextShown`, `CursorShown`, `RowCacheHonest`, `TracksCursor`, `TopIsRowStart` |
| `keyboard` | *starter*: four terminals with 2 keys while the size is asked for. *Hasty*: keys at any speed that stand for up to 4: arrows, F1 (ESC O P), PgUp (ESC [ 5 ~), ESC, letters. *Typist*: 5 keys of counts, operators, prefixes. *Searcher*: 7 keys on pattern and command lines; 2 polls, lines of 2 characters, integers up to 15 | `TypeOK`, `KeysInOrder`, `SizeHonest`, `CommandsAsSpelled`, `AllRead` |

**What they say.** Of the window: paging, jumping, swapping and undo never change
the document, `:w` writes all of it, and what `:q` throws away is on the disk.
Of a save: stop the machine after any disk operation and some file holds the
document as last saved or as being saved; two files in the pool are enough and
none stays open; offsets found by reading and by counting bytes agree. Of
editing: `u` would bring back what was there before the last change, `.` does
what the change did, with as much of an insertion as its record holds, whole
lines stay lines, `dd` trusts a cached number of lines
and is right, a search finds the nearest occurrence although the array it looks
in holds remains of earlier patterns. Of the screen: the code never draws all of
it after a change, but picks rows, has the terminal scroll, or shifts characters
within a row; what is seen is nevertheless the text, and the cursor is on the
character that the next command changes, though both its row and the terminal's
position are remembered and not computed. Of the keyboard: whenever bytes
arrive, no count or prefix survives into the next command, and no key is lost or
doubled by the size query; and the program does not hang, unless a terminal
stops half-way in its answer, or gives none and a key is pressed meanwhile.

**Why the bounds are enough.** Three bytes let the gap be empty, full, in the
middle and at both ends, with moves that overlap (the proofs cover every size).
A window of three characters over a file of about twice that size slides, swaps
and reloads in every order; the chunk is smaller than the window as in the code,
and a line end falls on either side of every boundary. Of two changes one can
come before a swap or a save and the other after it. Records of two bytes make
files that end with a record, within one and in a `^Z` of their own, and an
offset at each place of a record; two saves let the second read what the first
wrote. Two characters per line and two lines have a first, a last and an empty
line and words; five or six commands are enough for a change, a change of its
record and the use of the record. Four columns wrap a line of nine characters
into three rows, as many as the screen has. Two polls let a byte come before the
first, between, and too late. The bounds are the `steps`, `edits` and `presses`
of each of `Users`, and `MaxCuts`, `MaxEdits`, `MaxSaves`.

A run has several users because the code keeps its properties for some sets of
commands and not for all. A user's `keys` are as many as possible; a property
that some command breaks says so itself (`Uses`, `RecordedInPart`, `missed`,
`raced`, `failed`, `emptied`), or, in `FileWindow`, the user does not have that
command. The list of known departures says which and why.

**Fairness.** `FileWindow` assumes weak fairness of `Seeking`: the loop of `G`
and `:$`, once begun, runs. `MemMove` assumes it of its loop, `SaveProtocol` and
`Keyboard` of `Program`, which is what the code does without waiting for a key.
The program has one thread and calls nothing that does not return.
`Keyboard` also assumes that the line delivers what was sent (`Arrive`). Nothing
makes the user type. Deadlock checking is off where a run may end: an editor that
has quit, a copy that has returned, and the bounds on steps and changes.

## Runs that fail, and what they say

Each of these checks one sentence of the documentation or the comments, quoted
under `findings`, and TLC shows a sequence of commands that the code does not
keep it in.

| run | property | what happens |
|---|---|---|
| `other_spelling` | `SaveWritesDocument` | `:w foo.txt` while the window is over `FOO.TXT` truncates the file before its head and rest are read |
| `swap_fails` | `PagingKeepsDocument` | when the swap file cannot be made the window moves on without its changes |
| `last_line` | `DeletesItsLine` | after a join has taken the final newline the cached line count is one too small, and `dd` on the line before the last deletes both |
| `empty_window` | `SavesStayCorrect` | the first window of a larger file is emptied and saved: the rest now begins at offset 0, which means "no rest", and the next save writes none of it |
| `goto_top` | `RowDropped` | `gg` with the top line in view leaves the old row in the cache, and the cursor is shown there |

## Known departures

Seen while modelling, by the properties named. The models follow the code in
each case: giving the command to a user who lacks it, or dropping the exclusion
from the property, shows the sequence. Where no property is named, none states it.

Text, window and files:

| code | what the code does | left out of |
|---|---|---|
| `gap.c:164` | the cached line count is adjusted by newlines, not lines: off by one for a text without final newline (`LineCountNear` allows it) | `DeletesOneLine`: texts without final newline |
| `gap.c:166` | an insertion cut short by a full buffer has shifted the caches by all of it | `CurLineExact`, `LineCountNear` assume that it fitted |
| `gap.c:333` | dropping the head counts two bytes per newline although the file had a bare LF | `window`: files with bare LF |
| `edit.c:749` | `^B` may begin the window between CR and LF | `window`: `^B` of the reader, who has lines |
| `gap.c:346` | sliding the window leaves the undo record's position as it was | `window`: `u` but for the undoer, who stays in one window |
| `edit.c:454` | `u` restores the modified flag from before a save | `window`: `:w` of the undoer; `ModifiedHonest`: users of both |
| `ex.c:112` | `:r` leaves the undo record as it was: `u` then takes back something else, and may call the buffer clean | `window`: `:r` of the undoer |
| `ex.c:141` | `:e` of a new file keeps `win_line_offset` | `window`: `:e` of a new file but for the undoer |
| `ex.c:217` | after a swap of a document that then fits the window, `:w` leaves the swap file in charge and `:q` refuses | `Document` lets `:q` refuse more than it must |
| `gap.c:369` | with a buffer below `LOAD_CHUNK` and an almost empty window, `G` gives up early | `window`: the chunk is smaller than the window |
| `gap.c:548` | saving an emptied first window makes the offset of the rest 0, "no rest" | `SavedInFull`, `DocumentIntact`, `SurvivesCrash`: `emptied`; `window`: `dG` of reader and writer |
| `gap.c:493` | what `z_fputc` returns is not looked at: on a full disk a save reports success, and the original has been replaced by a part of the document | the same: `failed` |
| `gap.c:528` | a document that fits the buffer is saved over its own file, which is deleted first: a crash then leaves neither | `SurvivesCrash`: documents larger than the buffer |
| `edit.c:202`, `575` | `^Z` can be typed or put in by `r`; in a file it is the end, and what follows it is not read again | theorems about contents: `CtrlZ \notin Typed`; no user of a run types it |
| `zio.c:153` | after a record could not be written the index into the buffer runs on (`zio.h:22-25`) | `ZFile`: nothing reads that buffer again |

Editing:

| code | what the code does | left out of |
|---|---|---|
| `edit.c:605` | `a` at the end of a text without newline puts the cursor behind it | `CursorInBuffer`, `UndoWouldRestore`: users of `a` |
| `edit.c:643`, `erepeat.c:234` | what `o` and `.` put in is cut short by a full buffer, and the cursor goes to where it would have ended | `CursorInBuffer`, `UndoWouldRestore`: full buffers |
| `edit.c:451` | `u` of a deletion longer than the record (`emove.c:37`) puts only its beginning back, and still calls the buffer clean: `:q` then loses the rest unasked | `UndoWouldRestore`: such changes; `ModifiedHonest`: with `u`, files longer than `UNDO_MAX`; `window`, and `Ordinary` of the theorems about it: such deletions by users of `u` |
| `edit.c:79` | of an insertion longer than `DOT_TEXT_MAX` only the beginning is kept for `.`, as `REQUIREMENTS.md:177` says; that of `o` and `O` loses the newline of its own behind the typed text (`edit.c:642`), so the line that `.` puts in joins the next | `DotRepeats` says that `.` inserts as much as was kept; it leaves out `o` and `O` with more |
| `edit.c:829`, `emove.c:422` | the sum of a line and a large count is negative: the range is from the beginning of the text to the line of the cursor | no property says which lines a count means |
| `edit.c:106` | after an arrow key in insert mode the text goes elsewhere than recorded | `UndoWouldRestore`: users of these keys; `ModifiedHonest`: together with `u` |
| `edit.c:376` | `p` records the cursor, not the place it inserts at, for undo | `UndoWouldRestore`: users of `p P` |
| `edit.c:403` | a put cut short by a full buffer is recorded in full | the same; `PutKeepsLines`: texts that fill the buffer |
| `edit.c:514`, `574` | `~` and `r` record a deletion and keep the new character on undo | `UndoWouldRestore`: users of `r ~` |
| `edit.c:499` | `J` does not record the blank it inserts | `UndoWouldRestore`: users of `J` |
| `emove.c:511` | `c` overwrites the record of its deletion by that of the insertion | `UndoWouldRestore`: users of `c` |
| `emove.c:384` | `de` behind the last word records a character beyond the text | `UndoWouldRestore`: users of `e` |
| `edit.c:642` | `o` on a last line without newline adds one that undo leaves; `.` adds none (`erepeat.c:51`) | `UndoWouldRestore`, and with `u` `ModifiedHonest`: texts without final newline; `DotRepeats`: `edit` gives them to no user of `.` |
| `edit.c:116` | backspace over older text leaves `undo.pos`: ESC captures other text, and `u` may put the cursor behind the text and calls the buffer clean | `UndoWouldRestore`: users of `BS ^W ^U`; `ModifiedHonest`, `CursorInBuffer`: together with `u`; no `.` with them |
| `emove.c:465` | `C` on an empty line does nothing; in a line it starts one character early (`emove.c:504`); `cc` removes the newline too (`edit.c:833`) | `edit`: `c` with `.` |
| `erepeat.c:209` | `.` ignores its count for deletions | `DotRepeats` |
| `erepeat.c:174` | `.` applies the count of `~`, which `~` itself ignores (`edit.c:514`) | `edit`: `~` with `.` |
| `erepeat.c:86` | `.` of a change over an empty range inserts without setting `modified` | `ModifiedHonest`: users of `c` and `.` |
| `edit.c:379` | whole lines put below a last line without newline join it | `PutKeepsLines`: texts without final newline |
| `emove.c:575` | a forward search from behind the last character, where `w` can leave the cursor, never looks at position 0, though searches wrap around (`REQUIREMENTS.md:182`) | `SearchFindsNext`: cursors behind the text |
| `emove.c:574` | in a text of more than 16383 characters the wrapped position is negative and occurrences are missed | `SearchFindsNext`: texts of more than half of `MAXINT` |
| `emove.c:550`, `edit.c:422`, `428` | a search given up with ESC has changed the direction and written over the pattern that `n` looks for | `SearchFindsNext`: users of ESC; `CommandsAsSpelled` |
| `emove.c:295` | `f` on an empty line looks on the next line, though it is for the current one (`zvi.1:174`) | - |

Screen and keyboard:

| code | what the code does | left out of |
|---|---|---|
| `edit.c:873` | `gg` keeps the cached row | `CursorShown`, `RowCacheHonest`: users of `gg` |
| `screen.c:399` | a line that fills its row, or comes to, can change its number of rows without the rows below being drawn | properties of `Screen`: `missed` has "wide" |
| `edit.c:194` | Enter within a line leaves its old tail on the row above | "split" |
| `edit.c:583` | `r` over a newline draws as if the number of lines were the same | "replaced" |
| `screen.c:59` | behind a last line without newline the cursor has a row of its own, which is not drawn as one of the text | "unended" |
| `edit.c:605`, `454` | `a` that steps over the end of a row, and operators and `u` that move the cursor and change no text, keep the cached row | `screen`: the user who edits begins with lines shorter than a row |
| `screen.c:399` | a text that shrinks above the view, or an edit out of view, can leave `top_pos` at the end of the text, or beyond, until the next scrolling | `screen`: texts and keys of the editor |
| `edit.c:111` | an arrow key in insert mode scrolls the first row shown without drawing | "glided", and changes made when the cursor is not in view, "away" |
| `term.c:192` | a backspace sent from the last column takes the terminal one column less far than `s_tcol` | `slid` |
| `term.c:373` | bytes of one key that come apart, or of two keys that come together, are taken for other keys | properties of `Keyboard`: `raced` |
| `term.c:373`, `391` | "an unrecognised sequence returns KEY_ESC" (`term.c:361`), but only two bytes of it are read, or three after ESC [; the others come as keys: F1, ESC O P, is ESC and the command `P`, PgUp, ESC [ 5 ~, is ESC and `~` | nothing: `KeysInOrder` says that the editor is given just that (`StandsFor`) |
| `term.c:418`, `427` | a size report that comes late is typed into the text; one that stops half-way, or a key pressed at a silent terminal, keeps the program waiting | `raced`; the premise of `AllRead` |
| `edit.c:808` | the digits of a count that does not fit 16 bits wrap, and the count may come out as 0 or less | `CommandsAsSpelled`: such counts; `EditCommands`: counts of 0 or less |

## Proofs

* `GapBufferProofs`. `TypeCorrect`: `Spec => []TypeOK`, for every `Size`,
  character set and set of strings. `TypeOK` is inductive as it stands: it says
  that the gap is within the array and the cursor within the text.
  `GapBufferImplementsText`: `Spec => ImplementsText`. The lemmas follow the
  code: moving the gap leaves the content alone (`MoveGapKeepsContent`, left
  and right separately), filling the gap splices (`FillSplices`), widening it
  deletes (`ExpandSplices`); each action of `Next` then is one of `TextNext` or
  a stutter.
  The line caches: `LineNumberExact` (`CurLineExact`) and
  `LineCountNeverDrifts` (`LineCountNear`), for every size and set of strings.
  Their conjunction `CacheInv` is inductive once `TypeOK` is known: neither
  cache is ever recomputed from the other, but a load resets both. Everything
  rests on one fact about counting newlines (`SpliceNewlines`): replacing a
  piece of text changes the count up to a position behind it by those that came
  less those that went, and up to a position before it not at all.
  `CachesFollow` then is the case distinction of `gb_delete`: the cached
  position is before, behind or within what is deleted.
  Under all of this, `gb_memmove` is one step. That its loops do what is taken
  for one step here is `LoopIsMemmove`: `LoopInv` says which bytes have been
  copied and where the pointers stand, in terms of the arguments of the call;
  "the destination holds the source" alone is not inductive, since half-way it
  is false. From it follow `MoveCorrect` (`Moved`) and `SourceNeverClobbered`
  (`SourceIntact`).
* `KeyboardProofs`. `ArraysHold` (`TypeOK` of `Keyboard`), for every size of
  the arrays, every set of users and every number of polls. `TypeOK` alone is
  not inductive: it must also be known that the last place of the pattern array
  is never written to (`KbOK`), and that while a loop runs there is room for
  one byte more (`ListensOK`). `KeysAreInOrder` (`KeysInOrder`), for all
  sequences of the form `EscapesAssumption` and any haste. A key pressed stands
  for one or more that the editor is to be given (`StandsFor`): an arrow, or
  what `term_getch` makes of the first two or three bytes of a sequence, and
  each byte behind these. The bytes on the line carry the number of the one they
  belong to (`Numbered`), and the invariant `OrderOK` says what is unread, be it
  arrived or on its way. Between keys it is the rest of the terminal's answer
  and then the bytes of the keys owed, one after another; after ESC, and after
  ESC [, what that key still has to send comes first. That the numbers go up
  along the line is what tells a byte of the same key from one of the next:
  `raced` is set where the program gives up on a byte that is still to come, or
  takes one of another number, and by nothing else. `SizeIsHonest` (`SizeHonest`): while the answer is read, what
  is left of it is at the front of the line (`Left`), and a report that has
  begun in what was read is in the buffer (`HasHeard`), however much of other
  bytes, other ESCs included, came before it; so with its last byte the report
  is whole, and its two runs of digits are the size (`ReportedIs`). A query
  that ends before that leaves bytes of the terminal's own to come, which is
  what `SizeHonest` asks for (`HasOwn`).
* `EditCommandsProofs`. For all users, texts, patterns and counts, and every
  size of the buffer and of the undo, yank and dot records, over any number of
  commands and keys:
  - `EditCommandsTypes` (`TypeOK`) and `EditCommandsCursor`
    (`CursorInBuffer`). `TypeOK` is not inductive: what the dot record names
    must be a command, with a motion or a character of that command, since `.`
    hands it on unchecked (`DotFits`). Nor is `CursorInBuffer`: `u` puts the
    cursor where the record says, so the record's position must stay within a
    text that every other command changes (`Within`). With both, `IInv` is.
  - `EditCommandsUndo` (`UndoWouldRestore`) and `EditCommandsFlag`
    (`ModifiedHonest`). They speak of one record that is written before the
    change it describes and kept while other commands run, and of a flag that
    `u` sets back by a copy taken then. The invariant `IInvTold` adds three
    things. While an insertion is under way the cursor is within what the
    record covers (`Aligned`); otherwise a typed character would lengthen the
    record at one place and the text at another. In either mode, and not only
    between commands, undoing the record would give the text the change began
    with (`Undoable`). And a record that says the buffer was clean would give
    what the file holds (`Told`): the flag alone is true or false of the text
    as it is, and nothing about it tells what `u` will make of it.
  - `EditCommandsSearch` (`SearchFindsNext`). `FirstAround` is the heart: the
    positions looked at from the cursor on are each position of the text once,
    so the first that holds the pattern is the nearest ahead or, if there is
    none ahead, the first of the text. That the machine's sums come out right
    needs a text of at most half its integers (`CandidateAround`); that n and N
    look for what was asked needs that whatever the array held before, it now
    ends where the pattern does (`PatternSpelled`, `AsAsked`).
  - `EditCommandsLines` (`DeletesOneLine`). `dd` asks the cache how many lines
    there are, and shortens its span by the answer. That every step leaves the
    cache exact is not so (`gap.c:164`); that it is never less than the number
    of newlines is, and enough, so this is part of what an editor is
    (`Reckoned`, in `Editing`): a text cut short by a full buffer gets fewer
    newlines than were counted, and a deletion takes off what it removes
    (`NewlinesInserted`, `NewlinesCut`).
  - `EditCommandsRows` (`PutKeepsLines`). Texts are cut into rows, and the rows
    of two texts one after the other, the first ended by a newline, are those
    of the one and then those of the other (`RowsJoin`). So it comes down to
    where a put goes in: where a line begins (`PutPlace`). The newline that the
    code puts behind text yanked without one adds no row (`RowsEnded`).

  The lemmas go by command, not by action: what `ApplyOp`, `InsertKey`,
  `DotReplay`, a put or a find makes of the editor is stated once (`Operated`,
  `Reinsertion`, `Entered`, ...) and shown to keep the types, the cursor and the
  record. What the motions return lies in the text (`TargetIn` and the lemmas
  before it); what the code repeats n times keeps what each round keeps
  (`StaysIn`, `Repeats`). What speaks of lines, words and texts only is in
  `CommandsProofs`, which `ScreenProofs` uses as well.
* `ScreenProofs`. For every size of the screen, all texts, keys and characters,
  over any number of commands and keys, `TracksTheCursor` (`TracksCursor`).
  It is not inductive, for two reasons. What term.c believes is one off while
  the cursor is where a backspace from behind a full row took it, and it is
  right again later; so the invariant says of a slid cursor that it is exactly
  one column before the belief (`Sound`). And belief is broken by a character
  printed in a column that the program takes to be behind the last; in a row
  being drawn that cannot be (`PutsIs`), but a typed character is sent with
  nothing placed first. So while inserting the cursor must not be taken to be
  further right than the editor's is in its line (`Settled`): then a line that
  does not fill its row has room for one more (`TypedOn`), and one that does is
  what `TracksCursor` leaves out. The proof goes from the bytes (`DevPrintIs`,
  `DevBackIs`, ...) over `term_goto` (`GotoArrives`: whichever of its shortcuts
  it takes, the cursor arrives) and the drawing of rows to the functions of
  `screen.c`, each of which ends by placing the cursor (`EndsFine`), and so to
  every command (`OperatedFine`, `TypedFine`, ...); that no row drawn lies
  behind the last one is what keeps the bytes on the screen (`DrawRowsIs`).
* `FileWindowProofs`. For every set of files, names and users and every size of
  buffer, reserve and chunk:
  - `WindowTypes` (`TypeOK`) needs nothing else, and holds with a swap file
    that fails. It says that the window fits the buffer, and that offsets that
    say "there is more" come with a file to read it from.
  - `SeekReachesEndAlways` (`SeekReachesEnd`), where the buffer holds more than
    a chunk: at the last character of a window `gb_load_more` can always make
    room, so it reads nothing only where nothing is left. Without the condition
    it is false of the code (known departures, `gap.c:369`).
  - `WindowImplementsDocument` (`ImplementsDocument`), under `Ordinary`. The
    invariant `DocInv` sees `tail_file` as three texts h, m and r one after the
    other, written with CR LF (`At`): h before the window, m what the window
    was read from, r behind it. `win_start` and `tail_offset` are the lengths
    in bytes of h and of h with m, so offsets counted from characters in memory
    are right; m is the window where it was not modified. The document is h,
    the window and r. A slide moves characters between the three (`AtSlid`), a
    reload cuts the same file elsewhere (`ReloadAt`), a save replaces m
    (`SavedAt`, `SwappedOutAt`): none changes the document (`MovedDoc`), and no
    file but the swap file changes unless it is saved to. `DocInv` adds what
    `:q` and `u` rely on: a document that counts as clean is what its file
    holds (`CleanOK`), and what `u` would make of a record taken of a clean
    document is that document (`UndoOK`). Each action is then a step of
    `Document` or a stutter.
  - `NothingLostUnasked`, from that refinement and `Document` alone: whenever
    `:q` or `:e` would give the document up without "!", the file of its name
    holds all of it, what is outside the window included.
  - `LinesAnchoredAlways` (`LinesAnchored`), under `Ordinary` and
    `PagesOrOpensNew`: the same three texts, with the lines of h counted.

  `Ordinary` is what the code needs, user by user. Different names are
  different files (run `other_spelling`); the swap file can be written
  (`swap_fails`); files have CR LF and no other CR (`gap.c:333`), and no line
  ends at all for a user of `^B`, which goes to a byte offset (`edit.c:749`);
  who saves or pages does not empty the window with `dG` (`gap.c:548`, run
  `empty_window`) nor give `u`, nor does who gives `u` use `:r` (`gap.c:346`,
  `edit.c:454`, `ex.c:112`), and who gives `u` deletes no more at once than the
  undo record keeps (`edit.c:451`). `PagesOrOpensNew`: who opens new files does
  not page (`ex.c:141`). All users of the `window` run satisfy both: they are the
  conditions its users were made by.
* `CpmTextProofs`. `RoundTrip`: a text written and read again is the same text.
  With it what the other proofs need: reading and writing distribute over
  concatenation, and a sequence can be cut in two and regrouped. These go by
  induction over sequences; the library's induction theorem takes an operator,
  so `SeqInduction` states it for a set of sequences, and is proved from the
  well-foundedness of the natural numbers.
* `SaveProofs`, first of `ZFile`. Reading: the place in the buffer, the record
  number and the offset say the same place of the file (`ReadsWell`);
  `GetcReads` and `SeekReads` keep that, which is where an offset at the end of
  a record, or of the file, goes wrong if anything does. Writing: the records
  written and the bytes buffered are the stream of bytes put (`PutcWrites`), and
  `CloseCloses` leaves them on the disk, padding with `^Z`.

  Then of the save: `DocumentIntactAlways`, `SavedInFullAlways`,
  `SurvivesCrashAlways` and `TypesKept`, for every file, window, record size
  and buffer size, every pool of two files or more, any number of changes,
  saves and page-ins, and a disk that may fill up at any record. None of these
  properties is inductive: between two of the moments they speak of there are
  hundreds of disk operations. The inductive invariant has two halves:
  - `HandleInv`: which ZFILE is open, for what, on which file; that the file
    written is neither the one read nor, if it is the temporary, the target;
    that the temporary is there until it is renamed. It holds whatever fails
    (`HandlesKept`) and does not depend on the contents.
  - `ContentInv`, as long as nothing failed and no save forgot the rest: the
    head of the old file, the text and the rest of the file are the document
    (`WindowInv`); the next byte read is the one at the offset (`ReaderInv`);
    the bytes written are a beginning of head, encoded text and rest, as far as
    the program counter says (`WriterInv`); from the close on the new file
    holds the document and the new offsets fit it (`ClosedInv`); until then the
    old file holds what was saved last (`SafeInv`).

  TLC checked the conjunction on all states of the `save` run before it was
  proved. There is a lemma per step and half (`CopyHeadHandles`,
  `CopyHeadContents`, ...). The theorems about contents suppose `CtrlZ \notin
  Typed`: without it they are false of the code (known departures,
  `edit.c:202`).

Assumptions are the named `ASSUME`s on constants (`SizeAssumption`,
`SizesAssumption`, `BytesAssumption`, `NamesAssumption`, `InputAssumption`,
`CharAssumption`, `TextsAssumption`, `CutsAssumption`, `MemAssumption`,
`KeyboardAssumption`, `DigitsAssumption`, `EscapesAssumption`, `AnswersAssumption`,
`MotionsAssumption`, `LimitsAssumption`, `SearchAssumption`,
`UsersAssumption`, `RecordAssumption`, `PoolAssumption`, `ByteAssumption`, `NoFileAssumption`,
`SaveAssumption`, `DisksAssumption`, `TerminalAssumption`, `ScreenAssumption`).
`NamesAssumption` has names stand for files, none of them empty;
`InputAssumption` says what the users of `FileWindow` have on their disks and
type, and that none opens the swap file by its name. Of `SaveAssumption` the
proofs use that the temporary and the swap file have names of their own, that
no file has the empty name, and that there are two ZFILEs or more (`MAX_FILES`,
`zio.c:8`); of `DisksAssumption` that files are made of records.
`MotionsAssumption` keeps blanks apart from the characters of words, and
`LimitsAssumption` has the buffer hold no more characters than an int counts
(`BUF_MAX`, `zvi.h:22`);
`UsersAssumption` says that a user begins with a text that fits, counts from 1
(`edit.c:808`), types no key that insert mode takes for a command, looks for
patterns without the character 0 (`emove.c:549`), and that every character but
the newline has another case, perhaps itself.
`AnswersAssumption` says how a terminal tells its size: ESC [ rows ; cols R, in
numbers of 16 bits, comes last of what it answers (`Tells`); other answers do
not end with R. `DigitsAssumption` keeps digits apart from these characters.
`EscapesAssumption` is what terminals do: a key of several bytes sends ESC [ and
one byte or more, or ESC and one or more, and no ESC behind the two or three
that `term_getch` reads at once (`term.c:373-383`); an ESC there would begin a
sequence of its own.

`TerminalAssumption` is a screen of two rows and columns or more;
`ScreenAssumption` says that the users' texts and keys are of one alphabet,
which has the other case of each of its characters, and that the yank buffer
holds more than its terminating 0.

Only model-checked: what depends on a history of commands as typed
(`DotRepeats`, and `CommandsAsSpelled`, whose numbers are folds over digits);
what the screen shows (`TextShown`, `CursorShown`, `RowCacheHonest`,
`TopIsRowStart` and the types of `Screen`), which needs a theory of rows, where
they begin after a change and which of them stay, that the proofs do not have
yet; and all liveness (`SeekReturns`, `SaveReturns`, `AllRead`, `Returns`), for
which the prover has no fairness reasoning.

## Plan

Done: the modules above. What is left, in this order:

1. Proofs: the invariants of `Screen` that speak of the rows shown, beginning
   with the row cache (`RowCacheHonest`).
2. A reference module for `Motions`: the scanning loops step by step against the
   operators, over all small texts.
3. A cursor in `FileWindow`, so that `gg`, `:N` and the undo record can be
   related to lines of the file rather than of the window.
4. Tabs in `Screen` and `Motions`; what the dot command and loading draw.
5. `gb_init` and the command tail.

## Not modelled

* `gb_init` sizes the array by what the linker and BDOS leave free, and `main`
  cuts the command tail apart; both happen once, before there is state.
* `zfmt.c` formats numbers for messages.
* Extents of CP/M files beyond what `ZFile` needs: the program hands a record
  number to BDOS and never counts extents.
* `BDOS.ASM`, the operating system, which the models see through the calls the
  editor makes.
* `z88dk`, the vendored cross compiler. Nearly all of the repository's 1.2
  million lines of code are its; the editor has about 4500.
