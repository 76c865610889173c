--------------------------- MODULE MCEditCommands ---------------------------
(***************************************************************************)
(* Texts of two or three short lines, a letter and a newline to type, and  *)
(* the sets of commands the runs give.                                     *)
(***************************************************************************)
EXTENDS EditCommands

\* a and x stand for characters without a case.
Nl   == "\n"
Sp   == " "
MCWord == {"a", "b", "B", "x"}
MCToggled == [c \in {"a", "b", "B", "x", " ", "Nul", "Absent"} |->
                CASE c = "b" -> "B" [] c = "B" -> "b" [] OTHER -> c]

Lined  == {<<"a", "b", Nl, "b", Nl>>}
Spaced == {<<"a", Sp, "b", Nl, "b", Nl>>}

Across == {"h", "l", "0", "$", "^", "w", "b", "e"}
Lines  == {"j", "k", "G", "nG", "gg", "CR"}

AllKeys    == Across \cup Lines \cup Operators \cup InsertCmds \cup InsertKeys
              \cup {"Up", "Down", "r", "~", "J", "p", "P", "u", ".", ":w"}

Everything ==
    [texts |-> Spaced,
     keys |-> AllKeys \ {"u", ".", "^", "Up", "CR"}, typed |-> {"x"}, counts |-> {1}, patterns |-> {}, dot_counts |-> {0},
     steps |-> 4]
Undoer ==
    [texts |-> Lined,
     keys |-> {"l", "$", "0", "k", "gg", "d", "i", "I", "A", "o", "O", "u", "."},
     typed |-> {"x", Nl}, counts |-> {1}, patterns |-> {}, dot_counts |-> {0, 2}, steps |-> 6]
Repeater ==
    [texts |-> Lined,
     keys |-> {"l", "$", "0", "w", "d", "i", "I", "A", "o", "O", "r", "J", "."},
     typed |-> {"x"}, counts |-> {1, 2}, patterns |-> {}, dot_counts |-> {0}, steps |-> 5]
LineUser ==
    [texts |-> Lined,
     keys |-> {"k", "l", "G", "d", "y", "p", "P", "o"},
     typed |-> {"x"}, counts |-> {1, 2}, patterns |-> {}, dot_counts |-> {0}, steps |-> 5]
\* Counts whose sum with the line does not fit an int.
Counter ==
    [texts |-> Lined,
     keys |-> {"j", "k", "l", "d", "u", "."},
     typed |-> {}, counts |-> {1, 31}, patterns |-> {}, dot_counts |-> {0}, steps |-> 5]
\* Joining on the last line, then deleting lines.
Joiner ==
    [texts |-> Lined,
     keys |-> {"J", "G", "k", "d"},
     typed |-> {"x"}, counts |-> {1}, patterns |-> {}, dot_counts |-> {0}, steps |-> 6]
\* Searching, with deletions and insertions in between.
Searcher ==
    [texts |-> {<<"b", "x", Nl, "B", "a", Nl>>},
     keys |-> {"/", "?", "n", "N", "d", "l", "i"},
     typed |-> {"a"}, counts |-> {1},
     patterns |-> {<<"b">>, <<"a">>, <<"B", "a">>}, dot_counts |-> {0}, steps |-> 4]
\* Finding on the line, and giving searches up.
Quitter ==
    [texts |-> {<<"a", "x", "b", "x", Nl, Nl, "x">>},
     keys |-> {"/", "?", "n", "N", "f", "F", ";", ",", "j", "ESC"},
     typed |-> {"x"}, counts |-> {1, 2},
     patterns |-> {<<"a">>, <<"b", "x">>}, dot_counts |-> {0}, steps |-> 4]

AllUsers   == [everything |-> Everything, undoer |-> Undoer, repeater |-> Repeater,
               lines |-> LineUser, searcher |-> Searcher, quitter |-> Quitter,
               counter |-> Counter]
OnlyJoiner == [joiner |-> Joiner]

=============================================================================
