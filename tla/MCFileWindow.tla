---------------------------- MODULE MCFileWindow ----------------------------
(***************************************************************************)
(* Windows of three characters that slide by two, over files of about      *)
(* twice that size.  FOO.TXT is what CP/M makes of the name on the command *)
(* line; foo.txt is the same file as a user may type it after a colon.     *)
(***************************************************************************)
EXTENDS FileWindow

MCNames  == {"FOO.TXT", "BAR.TXT", "ZVISWAP.TMP"}
MCFileOf == [n \in MCNames |-> n]

\* The file can also be named in lower case.
MCNamesTyped  == MCNames \cup {"foo.txt"}
MCFileOfTyped == [n \in MCNamesTyped |-> IF n = "foo.txt" THEN "FOO.TXT" ELSE n]

Cr == "\r"
Lf == "\n"
MCChar == {"a", "b", "c", "d", "e", "x", Lf}

Dos     == <<"a", Cr, Lf, "b", "c", Cr, Lf, "d">>
OneLine == <<"a", "b", "c", "d", "e">>

DosDisk     == [f \in MCNames |-> CASE f = "FOO.TXT" -> Dos
                                    [] f = "BAR.TXT" -> <<"e">>
                                    [] OTHER         -> NoFile]
DosAlone    == [DosDisk EXCEPT !["BAR.TXT"] = NoFile]
OneLineDisk == [DosAlone EXCEPT !["FOO.TXT"] = OneLine]

Start    == {"FOO.TXT"}
TypeX    == {<<"x">>}
TypeLine == {<<"x", Lf>>}

Both == {"FOO.TXT", "BAR.TXT"}

\* Two files, without undo, emptying the window, or jumping back by a chunk.
Reader ==
    [keys  |-> {"d", "i", ":r", "^F", "nG", "G", ":w", ":e", ":q"},
     names |-> Both, typed |-> TypeLine, disk |-> DosDisk,
     deletes |-> 4, edits |-> 1]
\* One file, a change before and one after anything else, and jumping back.
Writer ==
    [keys  |-> {"d", "i", "^F", "^B", "nG", "G", ":w", ":q"},
     names |-> {"FOO.TXT"}, typed |-> TypeX, disk |-> OneLineDisk,
     deletes |-> 4, edits |-> 2]
\* Undo within one window, of deletions the record has room for, and opening
\* files.
Undoer ==
    [keys  |-> {"d", "dG", "i", "u", ":e", ":e new", ":q"},
     names |-> Both, typed |-> TypeX, disk |-> DosAlone,
     deletes |-> 3, edits |-> 4]
\* A reader who spells the file's name in lower case too.
Speller == [Reader EXCEPT !.names = @ \cup {"foo.txt"}]

AllUsers    == [reader |-> Reader, writer |-> Writer, undoer |-> Undoer]
OnlyReader  == [reader |-> Reader]
OnlySpeller == [speller |-> Speller]
=============================================================================
