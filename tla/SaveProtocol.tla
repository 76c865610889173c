---------------------------- MODULE SaveProtocol ----------------------------
(***************************************************************************)
(* A save, disk operation by disk operation (gb_save and its helpers), and *)
(* the reading of a further chunk (gb_load_more), over the files of zio.c. *)
(*                                                                         *)
(* The document is the first win_start bytes of tail_file, the text in     *)
(* memory, and tail_file from tail_offset on.  Each iteration of a copying *)
(* loop is a step; between any two of them the machine may stop, and what  *)
(* then is left is what disk shows.                                        *)
(*                                                                         *)
(* The window stays where it is in the file; FileWindow lets it slide.  A  *)
(* save to the swap file is the one gb_discard_head and gb_reload_from     *)
(* make, without the sliding.                                              *)
(***************************************************************************)
EXTENDS ZFile, CpmText

CONSTANTS Swap, Tmp,        \* "ZVISWAP.TMP", "ZVITMP.TMP"
          UserNames,        \* names the user saves under
          Typed,            \* characters the user types
          TextMax,          \* characters the buffer holds
          Chunk,            \* characters read per page-in (LOAD_CHUNK)
          Disks,            \* what the disk may hold first
          MaxEdits, MaxSaves    \* bounds: changes, and saves begun

ASSUME SaveAssumption ==
    /\ {Swap, Tmp} \cup UserNames \subseteq FileNames
    /\ Swap # Tmp /\ {Swap, Tmp} \cap UserNames = {}
    /\ "" \notin FileNames
    /\ MAX_FILES >= 2
    /\ Chunk \in Nat \ {0}
ASSUME CharAssumption ==
    /\ {CR, LF} \subseteq Byte /\ CR # LF /\ CtrlZ \notin {CR, LF}
    /\ Typed \subseteq Byte \ {CR}
ASSUME DisksAssumption == Disks \subseteq [FileNames -> Records \cup {NoFile}]

VARIABLES disk,             \* the directory: the records of every file
          zfiles,           \* the pool of ZFILEs
          text,             \* the text of the gap buffer
          win_start, tail_offset, tail_file, filename, modified,
          pc,               \* "edit", or what gb_save or gb_load_more does next
          job,              \* its local variables
          doc,              \* history: the document, in characters
          head,             \* history: how many of these precede the window
          safe,             \* history: the document at the last completed save
          failed,           \* history: whether a record could not be written
          emptied,          \* history: whether a save forgot the rest (Forgets)
          edits, saves      \* history: changes, saves begun

buffer   == <<text, win_start, tail_offset, tail_file, filename, modified>>
history  == <<doc, head, safe, emptied, edits, saves>>
vars     == <<disk, zfiles, buffer, pc, job, history, failed>>

Idle == [target |-> "", using_tmp |-> FALSE, out |-> 0, in |-> 0, at |-> 0]

Windowed == tail_file # "" /\ (win_start > 0 \/ tail_offset > 0)
-----------------------------------------------------------------------------
(* Editing.                                                                *)

\* A window of a file: what precedes w and follows t is not in memory.  The
\* end of the file may have been read up to, but not yet noticed.
WindowOf(b, w, t, at_end) ==
    /\ text = Decode(SubSeq(b, w + 1, t))
    /\ win_start = w
    /\ tail_offset = IF at_end THEN 0 ELSE t
    /\ doc = Decode(b)
    /\ head = Len(Decode(First(b, w)))

Init ==
    /\ disk \in Disks
    /\ filename \in {n \in UserNames : disk[n] # NoFile}
    /\ LET b == Contents(disk, filename)
           apart(i) == i > 0 => b[i] # CR
       IN  \E t \in 1..Len(b) : \E w \in 0..t :
            /\ apart(w) /\ apart(t)
            /\ t - w <= TextMax
            /\ \E at_end \in {FALSE, t = Len(b)} : WindowOf(b, w, t, at_end)
    /\ tail_file = IF win_start > 0 \/ tail_offset > 0 THEN filename ELSE ""
    /\ zfiles = [i \in 1..MAX_FILES |-> Unused]
    /\ modified = FALSE
    /\ pc = "edit" /\ job = Idle
    /\ safe = doc
    /\ failed = FALSE /\ emptied = FALSE
    /\ edits = 0 /\ saves = 0

\* d characters at p are replaced by s.
Change(p, d, s) ==
    /\ pc = "edit"
    /\ edits < MaxEdits
    /\ edits' = edits + 1
    /\ text' = First(text, p) \o s \o From(text, p + d)
    /\ doc'  = First(doc, head + p) \o s \o From(doc, head + p + d)
    /\ modified' = TRUE
    /\ UNCHANGED <<disk, zfiles, win_start, tail_offset, tail_file, filename, pc, job,
                   head, safe, emptied, saves, failed>>
Insert == \E p \in 0..Len(text), c \in Typed : Len(text) < TextMax /\ Change(p, 0, <<c>>)
Delete == \E p \in 0..(Len(text) - 1) : Change(p, 1, << >>)
-----------------------------------------------------------------------------
(* gb_save.                                                                *)

\* The disk and the pool become those of r, a result of zio.c.
Effect(r) ==
    /\ disk' = r.disk /\ zfiles' = r.zs
    /\ UNCHANGED buffer
Fails(r) == failed' = (failed \/ ~r.ok)
Succeeds == UNCHANGED failed

\* A slip: the file is always written in place.
UsesTmpNever(n) == FALSE
UsesTmp(n) == Windowed /\ n = tail_file

\* A full directory refuses a file that was not there before.  When that is
\* the swap file, FileWindow says what becomes of the changes.
Save(n, refused) ==
    /\ pc = "edit"
    /\ saves < MaxSaves
    /\ saves' = saves + 1
    /\ n = Swap => modified /\ tail_file # ""
    /\ LET name == IF UsesTmp(n) THEN Tmp ELSE n
           o    == OpenWrite(zfiles, disk, name, refused)
       IN  /\ refused => disk[name] = NoFile /\ n # Swap
           /\ Effect(o)
           /\ pc' = IF o.file = 0 THEN "edit" ELSE "head"
           /\ job' = IF o.file = 0 THEN Idle
                     ELSE [Idle EXCEPT !.target = n, !.using_tmp = UsesTmp(n), !.out = o.file]
    /\ Succeeds
    /\ UNCHANGED <<doc, head, safe, emptied, edits>>

\* gb_write_head and gb_write_tail begin by opening tail_file.
Opens(wanted, opened, otherwise, seeks) ==
    LET o == OpenRead(zfiles, disk, tail_file)
    IN  /\ IF wanted /\ tail_file # "" /\ o.file # 0
           THEN /\ Effect([o EXCEPT !.zs[o.file] = IF seeks THEN Seek(disk, @, tail_offset) ELSE @])
                /\ pc' = opened
                /\ job' = [job EXCEPT !.in = o.file, !.at = 0]
           ELSE /\ UNCHANGED <<disk, zfiles, buffer>>
                /\ pc' = otherwise
                /\ job' = [job EXCEPT !.at = 0]
        /\ Succeeds
        /\ UNCHANGED history

OpenHead == pc = "head" /\ Opens(win_start > 0, "copy head", "buffer", FALSE)
OpenTail == pc = "tail" /\ Opens(tail_offset > 0, "copy tail", "end", TRUE)

\* The byte g.c is read and written, n more of them; or the file read is
\* closed.
CopyByte(g, n) ==
    LET w == Putc([zfiles EXCEPT ![job.in] = g.z], disk, job.out, g.c)
    IN  /\ Effect(w) /\ Fails(w)
        /\ job' = [job EXCEPT !.at = @ + n]
        /\ UNCHANGED <<pc, history>>
\* A slip: the file stays open.
StopCopyingLeaky(next) ==
    /\ pc' = next
    /\ job' = [job EXCEPT !.in = 0, !.at = 0]
    /\ UNCHANGED <<disk, zfiles, buffer, history, failed>>
StopCopying(next) ==
    /\ Effect(Close(zfiles, disk, job.in))
    /\ pc' = next
    /\ job' = [job EXCEPT !.in = 0, !.at = 0]
    /\ Succeeds
    /\ UNCHANGED history

CopyHead ==
    /\ pc = "copy head"
    /\ LET g == Getc(disk, zfiles[job.in])
       IN  IF job.at < win_start /\ g.c \notin {EOF, CtrlZ} THEN CopyByte(g, 1)
           ELSE StopCopying("buffer")

\* gb_write_buf, a character
WriteBuffer ==
    /\ pc = "buffer"
    /\ IF job.at < Len(text)
       THEN LET c  == text[job.at + 1]
                cr == IF c = LF THEN Putc(zfiles, disk, job.out, CR)
                      ELSE [zs |-> zfiles, disk |-> disk, ok |-> TRUE]
                w  == Putc(cr.zs, cr.disk, job.out, c)
            IN  /\ Effect(w) /\ Fails([w EXCEPT !.ok = @ /\ cr.ok])
                /\ job' = [job EXCEPT !.at = @ + 1]
                /\ UNCHANGED pc
       ELSE /\ pc' = "tail"
            /\ UNCHANGED <<disk, zfiles, buffer, job, failed>>
    /\ UNCHANGED history

\* A slip: the end of a file without ^Z is not noticed.
EndsAtCtrlZ(c) == c = CtrlZ
Ends(c) == c \in {EOF, CtrlZ}
CopyTail ==
    /\ pc = "copy tail"
    /\ LET g == Getc(disk, zfiles[job.in])
       IN  IF Ends(g.c) THEN StopCopying("end") ELSE CopyByte(g, 0)

CloseOut ==
    /\ pc = "end"
    /\ LET z == Putc(zfiles, disk, job.out, CtrlZ)
           w == Close(z.zs, z.disk, job.out)
       IN  Effect(w) /\ Fails([w EXCEPT !.ok = @ /\ z.ok])
    /\ pc' = IF job.using_tmp THEN "remove" ELSE "return"
    /\ UNCHANGED <<job, history>>

Replace(d, next) ==
    /\ disk' = d
    /\ pc' = next
    /\ UNCHANGED <<zfiles, buffer, job, history, failed>>
RemoveOld == pc = "remove" /\ Replace(Removed(disk, job.target), "rename")
RenameTmp == pc = "rename" /\ Replace(Renamed(disk, Tmp, job.target), "return")

\* The end of gb_save, and what its callers set.
\* A slip: the offset of the rest is left as it was.
TailAfterStale == tail_offset
TailAfter == IF Windowed THEN win_start + Len(Encode(text)) ELSE tail_offset
\* A rest at offset 0 of the file written passes for no rest.
Forgets == tail_offset > 0 /\ TailAfter = 0
\* A slip: swapping out renames the document.
FilenameAfterAny == job.target
FilenameAfter == IF job.target = Swap THEN filename ELSE job.target
Return ==
    /\ pc = "return"
    /\ tail_file' = IF Windowed THEN job.target ELSE tail_file
    /\ tail_offset' = TailAfter
    /\ filename' = FilenameAfter
    /\ modified' = FALSE
    /\ pc' = "edit" /\ job' = Idle
    /\ safe' = doc
    /\ emptied' = (emptied \/ Forgets)
    /\ UNCHANGED <<disk, zfiles, text, win_start, doc, head, edits, saves, failed>>
-----------------------------------------------------------------------------
(* gb_load_more, as long as nothing must be dropped for it.                *)

PageIn ==
    /\ pc = "edit"
    /\ tail_offset > 0 /\ tail_file # ""
    /\ Len(text) + Chunk <= TextMax
    /\ LET o == OpenRead(zfiles, disk, tail_file)
       IN  /\ o.file # 0
           /\ Effect([o EXCEPT !.zs[o.file] = Seek(disk, @, tail_offset)])
           /\ job' = [Idle EXCEPT !.in = o.file]
    /\ pc' = "load"
    /\ UNCHANGED <<history, failed>>

LoadChar ==
    /\ pc = "load"
    /\ LET g    == Getc(disk, zfiles[job.in])
           read == [zfiles EXCEPT ![job.in] = g.z]
           done == job.at = Chunk \/ g.c \in {EOF, CtrlZ}
       IN  /\ disk' = disk
           /\ zfiles' = IF done THEN Close(zfiles, disk, job.in).zs ELSE read
           /\ text' = IF done \/ g.c = CR THEN text ELSE Append(text, g.c)
           /\ tail_offset' = IF ~done THEN tail_offset
                             ELSE IF job.at = Chunk THEN zfiles[job.in].offset ELSE 0
           /\ job' = IF done THEN Idle
                     ELSE [job EXCEPT !.at = IF g.c = CR THEN @ ELSE @ + 1]
           /\ pc' = IF done THEN "edit" ELSE "load"
    /\ UNCHANGED <<win_start, tail_file, filename, modified, history, failed>>
-----------------------------------------------------------------------------
Program ==
    \/ OpenHead \/ CopyHead \/ WriteBuffer \/ OpenTail \/ CopyTail \/ CloseOut
    \/ RemoveOld \/ RenameTmp \/ Return \/ LoadChar

Next ==
    \/ Insert \/ Delete \/ PageIn
    \/ \E n \in UserNames \cup {Swap}, refused \in BOOLEAN : Save(n, refused)
    \/ Program

Spec == Init /\ [][Next]_vars

\* One thread: what has been begun goes on.
FairSpec == Spec /\ WF_vars(Program)
-----------------------------------------------------------------------------
(* The pool, the offsets and the program counter have their types; a       *)
(* document without its rest in a file is not windowed (zio.c, zvi.h:168). *)
TypeOK ==
    /\ \A n \in FileNames : disk[n] # NoFile => \A i \in DOMAIN disk[n] : Len(disk[n][i]) = Rec
    /\ \A i \in 1..MAX_FILES : Len(zfiles[i].buf) <= Rec /\ zfiles[i].buf_pos <= Rec
    /\ win_start \in Nat /\ tail_offset \in Nat
    /\ tail_file \in FileNames \cup {""} /\ filename \in UserNames
    /\ pc \in {"edit", "head", "copy head", "buffer", "tail", "copy tail", "end", "remove",
               "rename", "return", "load"}
    /\ job.out \in 0..MAX_FILES /\ job.in \in 0..MAX_FILES
    /\ modified \in BOOLEAN /\ failed \in BOOLEAN

(* Whatever is saved where and paged in when, head, text and rest are the   *)
(* document: what z_fseek and z_fgetc read back is what z_fputc wrote,      *)
(* offsets and all (gb_save, gb_load_more), as long as the disk had room    *)
(* and no save forgot the rest.                                             *)
DocumentIntact ==
    pc = "edit" /\ ~failed /\ ~emptied =>
        LET b == Contents(disk, tail_file)
        IN  doc = (IF win_start > 0 THEN Decode(First(b, win_start)) ELSE << >>)
                  \o text \o (IF tail_offset > 0 THEN Decode(From(b, tail_offset)) ELSE << >>)

(* When gb_save returns 1 the document is under the name it was saved to,   *)
(* and "repeated saves remain correct" (gap.c:458-460): what the code says. *)
SavesStayCorrect ==
    pc = "return" /\ ~failed => Decode(Contents(disk, job.target)) = doc

(* The same, as long as no save was made with an empty text at the          *)
(* beginning of the document, the rest still to be read.                    *)
SavedInFull == ~emptied => SavesStayCorrect

(* Stop the machine between any two steps of a save of a document larger    *)
(* than the buffer: some file holds all of the document, as it was last     *)
(* saved - to its file or to the swap file - or as it is being saved        *)
(* (gap.c:454-456, zvi.1:485).                                              *)
SurvivesCrash ==
    Windowed /\ ~failed /\ ~emptied =>
        \E n \in FileNames : Decode(Contents(disk, n)) \in {safe, doc}

(* A save or a page-in, once begun, comes to its end, also when the disk is *)
(* full (the copying loops of gap.c:466-511).                               *)
SaveReturns == pc # "edit" ~> pc = "edit"
=============================================================================
