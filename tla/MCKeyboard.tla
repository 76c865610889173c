----------------------------- MODULE MCKeyboard -----------------------------
(***************************************************************************)
(* Four users: one at a terminal that tells its size, one who presses keys *)
(* of several bytes, some of them no arrows, and ESC in haste, two who     *)
(* give commands one key at a time.                                        *)
(***************************************************************************)
EXTENDS Keyboard

MCBytes == [Up |-> <<ESC, "[", "A">>, Down |-> <<ESC, "[", "B">>, F1 |-> <<ESC, "O", "P">>,
            PgUp |-> <<ESC, "[", "5", "~">>]
MCArrow == [A |-> "Up", B |-> "Down", C |-> "Right", D |-> "Left"]
MCDefault == <<24, 80>>
MCDigit == ("0" :> 0) @@ ("1" :> 1) @@ ("2" :> 2)

Silent == [bytes |-> << >>, size |-> Default]
Answers ==
    {Silent,
     [bytes |-> <<ESC, "[", "1", "2", ";", "2", "R">>, size |-> <<12, 2>>],
     [bytes |-> <<"2", ESC, ESC, "[", "1", ";", "2", "R">>, size |-> <<1, 2>>],
     [bytes |-> <<ESC, "[", "0", ";", "2", "R">>, size |-> Default]}

Starter  == [keys |-> {"j", ESC}, presses |-> 2, waits |-> FALSE, answers |-> Answers]
Hasty    == [keys |-> {"Up", "Down", "F1", "PgUp", ESC, "j", "["}, presses |-> 4, waits |-> FALSE,
             answers |-> {Silent}]
Typist   == [keys |-> {"1", "0", "d", "w", "g", "x", "r", "i", "Up", ESC}, presses |-> 5,
             waits |-> TRUE, answers |-> {Silent}]
Searcher == [keys |-> {"/", ":", "2", "n", "BS", "CR", ESC}, presses |-> 7,
             waits |-> TRUE, answers |-> {Silent}]

AllUsers == [starter |-> Starter, hasty |-> Hasty, typist |-> Typist, searcher |-> Searcher]
=============================================================================
