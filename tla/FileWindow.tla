----------------------------- MODULE FileWindow -----------------------------
(***************************************************************************)
(* How ZVI edits a file larger than its buffer (gap.c, ex.c and the paging *)
(* keys of edit.c).  The buffer holds a window of the file.  What precedes *)
(* it is the first win_start bytes of tail_file, what follows it is        *)
(* tail_file from byte tail_offset on; a zero offset means there is no     *)
(* such part.  The window slides by reading a chunk behind it and dropping *)
(* characters before it; when it slides, or is reloaded, with unsaved      *)
(* changes, the whole document goes to the swap file, which then takes     *)
(* the place of tail_file.                                                 *)
(*                                                                         *)
(* A file is a sequence of bytes up to its ^Z, with lines ended by CR LF;  *)
(* in memory lines end in LF alone.  Offsets count from 0.  The screen is  *)
(* left out, and with it the cursor: motions reach any place of the        *)
(* window, so a command finds the cursor anywhere in it.                   *)
(***************************************************************************)
EXTENDS CpmText

CONSTANTS Char,             \* the characters; LF is one, CR is not
          Cap,              \* characters a window is filled up to (size - GAP_MIN)
          Reserve,          \* room for typing beyond that (GAP_MIN)
          Chunk,            \* characters read per page-in (LOAD_CHUNK)
          UndoMax,          \* characters of a deletion the undo record keeps (UNDO_MAX)
          Names,            \* what can be typed as a file name
          Files, FileOf,    \* the directory, and the entry a name stands for
          Swap,             \* the name "ZVISWAP.TMP"
          NoFile,           \* contents of a file that does not exist
          StartNames,       \* the names zvi may be started with
          Users,            \* users: the disk each finds, the commands and names
                            \* each gives, what each types, how many characters
                            \* one deletion takes at most and, as a bound, how
                            \* many changes each makes
          SwapMayFail       \* whether creating the swap file may fail

ASSUME BytesAssumption == LF \in Char /\ CR \notin Char
ASSUME SizesAssumption ==
    Cap \in Nat \ {0} /\ Reserve \in Nat /\ Chunk \in Nat \ {0} /\ UndoMax \in Nat
ASSUME NamesAssumption == FileOf \in [Names -> Files] /\ Swap \in Names /\ "" \notin Names
ASSUME NoFileAssumption == NoFile \notin Seq(Char \cup {CR})
ASSUME InputAssumption ==
    /\ StartNames \subseteq Names \ {Swap}
    /\ \A u \in DOMAIN Users :
        /\ Users[u].disk \in [Files -> {NoFile} \cup Seq(Char \cup {CR})]
        /\ Users[u].typed \subseteq Seq(Char)
        /\ Users[u].names \subseteq Names \ {Swap}
        /\ Users[u].edits \in Nat /\ Users[u].deletes \in Nat

VARIABLES
          disk,             \* the contents of every file
          text,             \* the window: the text of the gap buffer
          win_start,        \* where in tail_file the window begins
          tail_offset,      \* where in tail_file the unloaded rest begins
          tail_file,        \* the file of head and rest; "" if there is none
          win_line_offset,  \* lines before the window
          filename,
          modified,
          undo,             \* the single undo record
          pc,               \* "edit", "seek" or "land" (G, :$), "quit"
          user,             \* who is at the keyboard, throughout
          edits             \* history: changes made

window == <<text, win_start, tail_offset, tail_file, win_line_offset>>
vars   == <<disk, window, filename, modified, undo, pc, user, edits>>

-----------------------------------------------------------------------------
(* Bytes and characters.                                                   *)

BytesIn(d, n) == IF d[FileOf[n]] = NoFile THEN << >> ELSE d[FileOf[n]]

\* The offset after the n-th character of b that follows offset off.
After(b, off, n) ==
    CHOOSE j \in (off + 1)..Len(b) :
        b[j] # CR /\ Len(Decode(SubSeq(b, off + 1, j))) = n

\* gb_fill: what a window read from off on holds, and where it ends.
Filled(b, off) ==
    LET all == Decode(From(b, off))
        j   == After(b, off, Cap + 1)   \* after the first character too many
    IN  IF Len(all) <= Cap THEN [text |-> all, tail |-> 0]
        ELSE [text |-> First(all, Cap),
              tail |-> IF b[j] = LF /\ j - 1 > off /\ b[j - 1] = CR THEN j - 2 ELSE j - 1]
-----------------------------------------------------------------------------
(* Saving.                                                                 *)

HeadIn(d) == IF win_start > 0 /\ tail_file # "" THEN First(BytesIn(d, tail_file), win_start)
             ELSE << >>
TailIn(d) == IF tail_offset > 0 /\ tail_file # "" THEN From(BytesIn(d, tail_file), tail_offset)
             ELSE << >>

Windowed == tail_file # "" /\ (win_start > 0 \/ tail_offset > 0)

\* gb_save(n).  Head and rest are read from tail_file after n was truncated,
\* unless n is spelled like tail_file: then a temporary file is written and
\* renamed.  A windowed document has its head and rest in n from then on.
Saved(n) ==
    LET truncated == IF Windowed /\ n = tail_file THEN disk
                     ELSE [disk EXCEPT ![FileOf[n]] = << >>]
        image == HeadIn(truncated) \o Encode(text) \o TailIn(truncated)
    IN  [disk |-> [disk EXCEPT ![FileOf[n]] = image],
         file |-> IF Windowed THEN n ELSE tail_file,
         tail |-> IF Windowed THEN win_start + Len(Encode(text)) ELSE tail_offset]

Unsaved == [disk |-> disk, file |-> tail_file, tail |-> tail_offset]

\* Before a window is given up, changes go to the swap file.  Whether that
\* worked is not looked at.
\* A slip: changes are given up with the window.
SwappedOutNever(works) == Unsaved
SwappedOut(works) == IF modified /\ works THEN Saved(Swap) ELSE Unsaved

SwapWorks == IF SwapMayFail THEN BOOLEAN ELSE {TRUE}

Cursors == 0..Len(text)
-----------------------------------------------------------------------------
(* Sliding and reloading the window.                                       *)

\* How many characters gb_load_more drops from the head, with the cursor at
\* c; it gives up when it would have to and cannot.
Surplus == Len(text) - (Cap - Chunk)
Dropped(c) == IF Surplus > 0 THEN Smaller(Surplus, c) ELSE 0
Stuck(c)   == Surplus > 0 /\ Dropped(c) = 0

\* gb_discard_head
\* A slip: the line offset is forgotten.
DiscardHeadOnly(dropped) ==
    /\ win_start' = win_start + Len(Encode(dropped))
    /\ UNCHANGED win_line_offset
DiscardHead(dropped) ==
    /\ win_start' = win_start + Len(Encode(dropped))
    /\ win_line_offset' = win_line_offset + Lines(dropped)

\* The rest of gb_load_more(Chunk): after dropping, n characters are read.
LoadMore(c, works, n) ==
    \/ /\ Stuck(c)
       /\ n = 0
       /\ UNCHANGED <<disk, text, win_start, tail_offset, tail_file, win_line_offset,
                      modified>>
    \/ /\ ~Stuck(c)
       /\ \E s \in {IF Dropped(c) > 0 THEN SwappedOut(works) ELSE Unsaved} :
          \E b \in {BytesIn(s.disk, s.file)} :
          \E rest \in {Decode(From(b, s.tail))} :
          LET kept == From(text, Dropped(c))
              room == IF Len(kept) < Cap THEN Smaller(Chunk, Cap - Len(kept)) ELSE 0
          IN  /\ n = Smaller(room, Len(rest))
              /\ disk' = s.disk
              /\ tail_file' = s.file
              /\ tail_offset' = IF n < room THEN 0
                                ELSE IF n = 0 THEN s.tail ELSE After(b, s.tail, n)
              /\ text' = kept \o First(rest, n)
              /\ DiscardHead(First(text, Dropped(c)))
              /\ modified' = (modified /\ Dropped(c) = 0)

\* A slip: the loop ends after one chunk.
LoadsOnce(n) == TRUE
LoadsNothing(n) == n = 0

\* gb_reload_from(off)
Reload(off, works) ==
    LET s == SwappedOut(works)
        b == BytesIn(s.disk, s.file)
        w == Filled(b, off)
    IN  /\ disk' = s.disk
        /\ tail_file' = s.file
        /\ modified' = FALSE
        /\ win_line_offset' = Lines(First(b, off))
        /\ win_start' = off
        /\ text' = w.text
        /\ tail_offset' = w.tail
-----------------------------------------------------------------------------
(* The commands.                                                           *)

Gets(key) == pc = "edit" /\ key \in Users[user].keys

\* zvi name: the file, or as much of it as fits, is the first window.
Init ==
    /\ user \in DOMAIN Users
    /\ disk = Users[user].disk
    /\ filename \in StartNames
    /\ LET w == Filled(BytesIn(disk, filename), 0)
       IN  /\ text = w.text
           /\ tail_offset = w.tail
           /\ tail_file = IF w.tail > 0 THEN filename ELSE ""
    /\ win_start = 0 /\ win_line_offset = 0
    /\ modified = FALSE
    /\ undo = [type |-> "none", pos |-> 0, text |-> << >>, was_clean |-> FALSE]
    /\ pc = "edit"
    /\ edits = 0

\* The undo record; that of a user who never gives u is not followed.
Recorded(r) == undo' = IF "u" \in Users[user].keys THEN r ELSE undo

\* The d characters at p are replaced by s; modified becomes m.
Splice(p, d, s, m) ==
    /\ edits < Users[user].edits
    /\ edits' = edits + 1
    /\ text' = First(text, p) \o s \o From(text, p + d)
    /\ modified' = m
    /\ UNCHANGED <<disk, win_start, tail_offset, tail_file, win_line_offset, filename, pc,
                   user>>

\* A slip: the room is taken for that of an empty buffer.
RoomOfEmpty == Cap + Reserve
Room == Cap + Reserve - Len(text)

\* apply_op with 'd' and any motion: a part of the window is deleted, or,
\* with dG on its first line, all of it.  The undo record keeps the first
\* UndoMax characters of it (undo_save_delete).
DeleteRange ==
    \E p \in 0..(Len(text) - 1) : \E d \in 1..(Len(text) - p) :
        /\ d <= Users[user].deletes
        /\ Gets(IF d < Len(text) THEN "d" ELSE "dG")
        /\ Splice(p, d, << >>, TRUE)
        /\ Recorded([type |-> "delete", pos |-> p, was_clean |-> ~modified,
                     text |-> First(SubSeq(text, p + 1, p + d), UndoMax)])

\* i, typing, ESC.  A full buffer ignores what is typed.
InsertText ==
    /\ Gets("i")
    /\ \E c \in Cursors, s \in Users[user].typed :
        LET typed == First(s, Room)
        IN  /\ Splice(c, 0, typed, modified \/ typed # << >>)
            /\ Recorded([type |-> "insert", pos |-> c, text |-> typed,
                         was_clean |-> ~modified])

\* :r n - the file goes in behind the cursor line; the undo record stays.
LineEnd(t, p) == CHOOSE e \in p..Len(t) :
    /\ e = Len(t) \/ (e > p /\ t[e] = LF)
    /\ \A i \in (p + 1)..(e - 1) : t[i] # LF
ReadFile(n) ==
    /\ Gets(":r")
    /\ disk[FileOf[n]] # NoFile
    /\ \E c \in Cursors :
        Splice(LineEnd(text, c), 0, First(Decode(disk[FileOf[n]]), Room), TRUE)
    /\ UNCHANGED undo

\* A slip: undo always leaves the document clean.
UndoAlwaysClean ==
    /\ Gets("u")
    /\ undo.type # "none"
    /\ undo.pos <= Len(text)
    /\ IF undo.type = "delete"
       THEN Splice(undo.pos, 0, First(undo.text, Room), FALSE)
       ELSE Splice(undo.pos, Len(undo.text), << >>, FALSE)
    /\ undo' = [undo EXCEPT !.type = "none"]

\* u.  What is put back of a deletion is what the record kept of it, and still
\* makes the document as clean as it was.  What a position outside the window
\* would do is not modelled.
Undo ==
    /\ Gets("u")
    /\ undo.type # "none"
    /\ undo.pos <= Len(text)
    /\ IF undo.type = "delete"
       THEN Splice(undo.pos, 0, First(undo.text, Room), ~undo.was_clean)
       ELSE Splice(undo.pos, Len(undo.text), << >>, ~undo.was_clean)
    /\ undo' = [undo EXCEPT !.type = "none"]

\* ^F, ^D and j near the end of the window.
PageForward ==
    /\ Gets("^F")
    /\ tail_offset > 0
    /\ \E c \in Cursors, works \in SwapWorks, n \in 0..Chunk : LoadMore(c, works, n)
    /\ UNCHANGED <<filename, undo, pc, user, edits>>

\* ^B at the top of a window that does not begin the file.
PageBack ==
    /\ Gets("^B")
    /\ win_start > 0
    /\ \E works \in SwapWorks :
        Reload(IF win_start > Chunk THEN win_start - Chunk ELSE 0, works)
    /\ UNCHANGED <<filename, undo, pc, user, edits>>

\* nG: a line is counted from the beginning of the file.
GotoLine ==
    /\ Gets("nG")
    /\ win_start > 0
    /\ \E works \in SwapWorks : Reload(0, works)
    /\ UNCHANGED <<filename, undo, pc, user, edits>>

\* G and :$ read on until nothing is left to read.
SeekEnd ==
    /\ Gets("G")
    /\ pc' = "seek"
    /\ UNCHANGED <<disk, window, filename, modified, undo, user, edits>>

SeekOn ==
    /\ pc = "seek"
    /\ tail_offset > 0
    /\ LET c == IF text = << >> THEN 0 ELSE Len(text) - 1
       IN  \E works \in SwapWorks, n \in 0..Chunk :
            /\ LoadMore(c, works, n)
            /\ pc' = IF LoadsNothing(n) THEN "land" ELSE "seek"
    /\ UNCHANGED <<filename, undo, user, edits>>

\* A slip: a loop that does not look at the offset before it reads on.
SeekLandAfterLoad ==
    /\ pc = "land"
    /\ pc' = "edit"
    /\ UNCHANGED <<disk, window, filename, modified, undo, user, edits>>
SeekLand ==
    /\ pc = "land" \/ (pc = "seek" /\ tail_offset = 0)
    /\ pc' = "edit"
    /\ UNCHANGED <<disk, window, filename, modified, undo, user, edits>>

\* main removes the swap file when the editor ends.
WithoutSwap(d) == [d EXCEPT ![FileOf[Swap]] = NoFile]

\* :w n, :wq n and :x n
Write(n, quits) ==
    /\ Gets(":w")
    /\ disk' = IF quits THEN WithoutSwap(Saved(n).disk) ELSE Saved(n).disk
    /\ tail_file' = Saved(n).file
    /\ tail_offset' = Saved(n).tail
    /\ filename' = n
    /\ modified' = FALSE
    /\ pc' = IF quits THEN "quit" ELSE "edit"
    /\ UNCHANGED <<text, win_start, win_line_offset, undo, user, edits>>

\* A slip: the swap file is forgotten.
DirtyWindowOnly == modified
Dirty == modified \/ tail_file = Swap

\* :e n and :e! n, of a file that exists or of a new one
Edit(n, force) ==
    /\ Gets(IF disk[FileOf[n]] = NoFile THEN ":e new" ELSE ":e")
    /\ Dirty => force
    /\ filename' = n
    /\ win_start' = 0
    /\ modified' = FALSE
    /\ undo' = [undo EXCEPT !.type = "none"]
    /\ LET w == Filled(BytesIn(disk, n), 0)
       IN  /\ text' = w.text
           /\ tail_offset' = w.tail
           /\ tail_file' = IF w.tail > 0 THEN n ELSE ""
    /\ win_line_offset' = IF disk[FileOf[n]] = NoFile THEN win_line_offset ELSE 0
    /\ UNCHANGED <<disk, pc, user, edits>>

\* :q and :q!
Quit(force) ==
    /\ Gets(":q")
    /\ Dirty => force
    /\ pc' = "quit"
    /\ disk' = WithoutSwap(disk)
    /\ UNCHANGED <<window, filename, modified, undo, user, edits>>

Seeking == SeekOn \/ SeekLand

Next ==
    \/ DeleteRange \/ InsertText \/ Undo
    \/ PageForward \/ PageBack \/ GotoLine \/ SeekEnd \/ Seeking
    \/ \E n \in Users[user].names :
        \/ ReadFile(n)
        \/ \E b \in BOOLEAN : Write(n, b) \/ Edit(n, b)
    \/ \E b \in BOOLEAN : Quit(b)

Spec == Init /\ [][Next]_vars

\* One thread: a command, once given, runs to its end.  Nothing makes the
\* user give commands.
FairSpec == Spec /\ WF_vars(Seeking)
-----------------------------------------------------------------------------
(* The document: what is before the window, the window, what is behind it. *)

Before == Decode(HeadIn(disk))
Doc  == IF pc = "quit" THEN << >> ELSE Before \o text \o Decode(TailIn(disk))

UndoRecords == [type : {"none", "delete", "insert"}, pos : Nat, text : Seq(Char),
                was_clean : BOOLEAN]

(* Contents, offsets and names have their types and the window fits the    *)
(* buffer (gb_fill, gb_load_more, gb_insert).                              *)
TypeOK ==
    /\ disk \in [Files -> {NoFile} \cup Seq(Char \cup {CR})]
    /\ text \in Seq(Char) /\ Len(text) <= Cap + Reserve
    /\ win_start \in Nat /\ tail_offset \in Nat /\ win_line_offset \in Nat
    /\ tail_file \in Names \cup {""}
    /\ win_start > 0 \/ tail_offset > 0 => tail_file # ""
    /\ filename \in Names
    /\ modified \in BOOLEAN
    /\ undo \in UndoRecords
    /\ pc \in {"edit", "seek", "land", "quit"}
    /\ user \in DOMAIN Users /\ edits \in 0..Users[user].edits

(* The status line adds win_line_offset to line numbers within the window: *)
(* it is the number of lines of the document before the window, wherever   *)
(* paging has put it (gb_discard_head, gb_reload_from).                    *)
LinesAnchored == pc # "quit" => win_line_offset = Lines(Before)

(* G and :$ load the entire rest of the file before they go to the last    *)
(* line (ex.c:56, edit.c:703): when the loop ends nothing is left to load. *)
SeekReachesEnd == pc = "land" => tail_offset = 0

(* G and :$ come to an end (ex.c:59-63, edit.c:704-708).                   *)
SeekReturns == pc = "seek" ~> pc = "edit"

(* The whole machinery of windows, offsets, swap file and temporary file   *)
(* implements the document of Document: paging never changes it, :w writes *)
(* all of it, and a document that counts as clean is on the disk.          *)
Document == INSTANCE Document WITH
    doc    <- Doc,
    file   <- [f \in Files \ {FileOf[Swap]} |->
                 IF disk[f] = NoFile THEN NoFile ELSE Decode(disk[f])],
    Files  <- Files \ {FileOf[Swap]},
    Names  <- Names \ {Swap},
    FileOf <- [n \in Names \ {Swap} |-> FileOf[n]],
    name   <- filename,
    clean  <- ~Dirty,
    closed <- pc = "quit",
    edits  <- edits
ImplementsDocument == Document!DocSpec
-----------------------------------------------------------------------------
(* What the code says of itself and does not keep in every case.           *)

(* zvi.h:168-170: win_start and tail_offset are the offsets in tail_file    *)
(* "where buffer begins" and "where buffer ends"; README.md:249: changes    *)
(* are dumped to the swap file when the window moves.  Showing another part *)
(* of the document then never changes the document.                        *)
PagingKeepsDocument ==
    [][(PageForward \/ PageBack \/ GotoLine \/ SeekOn) => Doc' = Doc]_vars

(* gap.c:450-452: the parts of the file outside the window are written with *)
(* it, "so no data is lost even when editing files larger than BUF_MAX".   *)
SaveWritesDocument ==
    [][\A n \in Names \ {Swap}, b \in BOOLEAN :
        Write(n, b) => Decode(BytesIn(disk', n)) = Doc]_vars
=============================================================================
