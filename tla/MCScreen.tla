------------------------------ MODULE MCScreen ------------------------------
(***************************************************************************)
(* A terminal of three text rows of four columns and a status line.  One   *)
(* user reads a text of wrapped and empty lines, another edits short lines *)
(* that scroll.                                                            *)
(***************************************************************************)
EXTENDS Screen

Nl   == "\n"
Sp   == " "
MCWord == {"a", "b", "B"}
MCToggled == [c \in {"a", "b", "B", " ", "Nul", "Absent"} |->
                CASE c = "b" -> "B" [] c = "B" -> "b" [] OTHER -> c]

Wrapped == {<<"a", "b", Sp, "b", "a", "b", Nl, Nl, "a", "b", Nl,
              Sp, "b", "a", "b", "b", "a", "b", "b", "a", Nl, "b", Nl>>}
Short == {<<"a", "b", Nl, "b", Nl, "a", Nl, "b", "a", Nl, "b", Nl>>}

Reader ==
    [texts |-> Wrapped,
     keys |-> {"h", "l", "0", "^", "$", "j", "k", "CR", "^D", "^U", "w", "b", "e", "G",
               "^F", "^B", "n", "f", ":N", "^L"}, typed |-> {}, steps |-> 7]
Editor ==
    [texts |-> Short,
     keys |-> {"j", "k", "$", "G", "d", "l", "c", "J", "~", "p", "P", "u", "r", "o", "O", "i", "a", "A", "I", "BS", "^W", "^U", "^L",
              "Left", "Right", "Up", "Down", "h", "0", "y"},
     typed |-> {"a", Nl}, steps |-> 4]

\* Down, and back to the top.
Topper ==
    [texts |-> Short, keys |-> {"j", "gg"}, typed |-> {}, steps |-> 3]

AllUsers   == [reader |-> Reader, editor |-> Editor]
OnlyTopper == [topper |-> Topper]
=============================================================================
