------------------------------ MODULE Document ------------------------------
(***************************************************************************)
(* What ZVI promises the person editing: there is one document, of any     *)
(* size; commands change it, show it, write it to a file or replace it by  *)
(* another file; and the editor only calls the document clean - and lets   *)
(* it be abandoned without a "!" - when the file of its name holds it.     *)
(* That only a part of the document is in memory at a time, and that       *)
(* changes may wait in a swap file, is the business of FileWindow.         *)
(***************************************************************************)
EXTENDS Integers, Sequences

CONSTANTS Char,         \* characters of a document
          Files,        \* the files on the disk
          Names,        \* what can be typed as a file name
          FileOf,       \* the file a name stands for
          NoFile        \* the contents of a file that does not exist

VARIABLES doc,          \* the document; empty once the editor has ended
          file,         \* file contents, as characters
          name,         \* the name of the document
          clean,        \* the document may be abandoned
          closed,       \* the editor has ended
          edits         \* how many changes were made

docVars == <<doc, file, name, clean, closed, edits>>

Contents(f) == IF file[f] = NoFile THEN << >> ELSE file[f]

OnDisk == doc = Contents(FileOf[name])

DocInit ==
    /\ file \in [Files -> {NoFile} \cup Seq(Char)]
    /\ name \in Names
    /\ doc = Contents(FileOf[name])
    /\ clean = TRUE
    /\ closed = FALSE
    /\ edits = 0

\* A change makes the document dirty, or brings back what the file holds.
Change ==
    /\ ~closed
    /\ doc' \in Seq(Char)
    /\ edits' = edits + 1
    /\ clean' \in BOOLEAN
    /\ clean' => doc' = Contents(FileOf[name])
    /\ UNCHANGED <<file, name, closed>>

\* The document is written; the editor may be cautious and still ask for "!".
Save(n) ==
    /\ ~closed
    /\ file' = [file EXCEPT ![FileOf[n]] = doc]
    /\ name' = n
    /\ clean' \in BOOLEAN
    /\ closed' \in BOOLEAN
    /\ doc' = IF closed' THEN << >> ELSE doc
    /\ UNCHANGED edits

\* Another file is edited; a dirty document is only given up by force.
Open(n, force) ==
    /\ ~closed
    /\ clean \/ force
    /\ doc' = Contents(FileOf[n])
    /\ name' = n
    /\ clean' = TRUE
    /\ UNCHANGED <<file, closed, edits>>

Close(force) ==
    /\ ~closed
    /\ clean \/ force
    /\ closed' = TRUE
    /\ doc' = << >>
    /\ UNCHANGED <<file, name, clean, edits>>

DocNext ==
    \/ Change
    \/ \E n \in Names : Save(n)
    \/ \E n \in Names, force \in BOOLEAN : Open(n, force) \/ Close(force)

DocSpec == DocInit /\ [][DocNext]_docVars
-----------------------------------------------------------------------------
DocTypeOK ==
    /\ doc \in Seq(Char)
    /\ file \in [Files -> {NoFile} \cup Seq(Char)]
    /\ name \in Names
    /\ clean \in BOOLEAN
    /\ closed \in BOOLEAN
    /\ edits \in Nat

(* A clean document - one that ":q" and ":e" give up without a "!" - is     *)
(* what the file of its name holds: nothing is ever lost without asking.    *)
CleanMeansSaved == (~closed /\ clean) => OnDisk
=============================================================================
