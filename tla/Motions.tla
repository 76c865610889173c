------------------------------ MODULE Motions -------------------------------
(***************************************************************************)
(* Lines, words and the motions between them, over a text t and a position *)
(* p that counts from 0 and may be the end of the text (emove.c, the line  *)
(* helpers of gap.c and screen.c).  Each scanning loop of the code is the  *)
(* position where it stops.                                                *)
(*                                                                         *)
(* A tab is one column wide here: only the column arithmetic of up and     *)
(* down would tell, and these are given every column they may aim at.      *)
(***************************************************************************)
EXTENDS Integers, Sequences, SequencesExt

CONSTANTS NL, SP,       \* newline and blank
          Word,         \* letters, digits and underscore
          Absent,       \* what gb_char_at answers outside the text
          MAXINT        \* 32767

ASSUME MotionsAssumption ==
    /\ NL # SP /\ {NL, SP, Absent} \cap Word = {}
    /\ MAXINT \in Nat \ {0}

\* An int of the machine.
Wrap(n) == ((n + MAXINT + 1) % (2 * (MAXINT + 1))) - (MAXINT + 1)

At(t, p) == IF p \in 0..(Len(t) - 1) THEN t[p + 1] ELSE Absent

\* Character classes: 0 white space, 1 word, 2 anything else.
Class(c) == IF c \in Word THEN 1 ELSE IF c \in {NL, SP} THEN 0 ELSE 2
-----------------------------------------------------------------------------
(* Lines.                                                                  *)

Bol(t, p) == Max({0} \cup {q \in 1..p : At(t, q - 1) = NL})
Eol(t, p) == Min({Len(t)} \cup {q \in p..(Len(t) - 1) : At(t, q) = NL})

LineOf(t, p)    == Cardinality({q \in 0..(p - 1) : At(t, q) = NL})
LineStart(t, l) == IF l <= 0 THEN 0
                   ELSE Min({Len(t)} \cup {q \in 1..Len(t) : LineOf(t, q) = l})

\* The last character of the line, or p when there is none from p on.
LastOn(t, p) == IF Eol(t, p) > p THEN Eol(t, p) - 1 ELSE p

\* The character of the line beginning at b that is nearest to column w.
PosAtCol(t, b, w) ==
    LET q == Min({b + w, Eol(t, b)}) IN IF q > b /\ q = Eol(t, b) THEN q - 1 ELSE q

\* The first position from p on whose character is not of a class in S.
Past(t, p, S) == Min({Len(t)} \cup {q \in p..(Len(t) - 1) : Class(At(t, q)) \notin S})
PastBlanks(t, p) == Min({Len(t)} \cup {q \in p..(Len(t) - 1) : At(t, q) # SP})
FirstNonBlank(t, p) == PastBlanks(t, Bol(t, p))
-----------------------------------------------------------------------------
(* Words.                                                                  *)

WordForward(t, p) == PastBlanks(t, Past(t, p, {Class(At(t, p))}))

WordBack(t, p) ==
    LET q == Max({0} \cup {r \in 1..(p - 1) : Class(At(t, r)) # 0})
    IN  Max({0} \cup {r \in 1..q : Class(At(t, r - 1)) # Class(At(t, q))})

\* White space to the end of the text is stepped over, beyond the last word.
WordEnd(t, p) ==
    LET q == Past(t, p + 1, {0})
    IN  IF p >= Len(t) - 1 THEN p
        ELSE IF q >= Len(t) - 1 THEN q
        ELSE Min({Len(t) - 1} \cup
                 {r \in q..(Len(t) - 2) : Class(At(t, r + 1)) # Class(At(t, q))})

Up(t, p, w)   == IF Bol(t, p) = 0 THEN p ELSE PosAtCol(t, Bol(t, Bol(t, p) - 1), w)
Down(t, p, w) == IF Eol(t, p) = Len(t) THEN p ELSE PosAtCol(t, Eol(t, p) + 1, w)

\* F applied n times from p.
Times(F(_), n, p) == LET f[i \in 0..n] == IF i = 0 THEN p ELSE F(f[i - 1]) IN f[n]
-----------------------------------------------------------------------------
\* Where a motion key takes the cursor: n is its count, w the wanted column,
\* lines the number of lines the editor believes there are.
Target(t, p, key, n, w, lines) ==
    CASE key = "h" -> Max({Bol(t, p), p - n})
      [] key = "l" -> Min({LastOn(t, p), p + n})
      [] key = "0" -> Bol(t, p)
      [] key = "^" -> FirstNonBlank(t, p)
      [] key = "$" -> LastOn(t, p)
      [] key = "w" -> Times(LAMBDA q : WordForward(t, q), n, p)
      [] key = "b" -> Times(LAMBDA q : WordBack(t, q), n, p)
      [] key = "e" -> Times(LAMBDA q : WordEnd(t, q), n, p)
      [] key = "k" -> Times(LAMBDA q : Up(t, q, w), n, p)
      [] key = "j" -> Times(LAMBDA q : Down(t, q, w), n, p)
      [] key = "CR" -> FirstNonBlank(t, Times(LAMBDA q : Down(t, q, w), n, p))
      [] key \in {"nG", "gg"} -> FirstNonBlank(t, LineStart(t, Min({n, lines}) - 1))
      [] key = "G" -> FirstNonBlank(t, LineStart(t, lines - 1))

\* The range an operator gets from a motion.  Its order is not settled yet;
\* "from" is where the cursor is left.  The line a count leads down to may be
\* too large for an int; then the range ends at the beginning of the text.
Span(t, p, key, n, lines) ==
    LET here == LineOf(t, p)
        chars(q) == [from |-> p, to |-> q, linewise |-> FALSE]
        rows(a, q) == [from |-> LineStart(t, a), to |-> q, linewise |-> TRUE]
    IN  CASE key = "l" -> chars(Min({Eol(t, p), p + n}))
          [] key \in {"h", "0", "^", "w", "b"} -> chars(Target(t, p, key, n, 0, lines))
          [] key = "$" -> chars(Eol(t, p))
          [] key = "e" -> chars(Target(t, p, key, n, 0, lines) + 1)
          [] key = "j" -> rows(here, LineStart(t, Min({Wrap(here + n), lines - 1}) + 1))
          [] key = "k" -> rows(Max({here - n, 0}), LineStart(t, here + 1))
          [] key = "G" -> rows(here, Len(t))
=============================================================================
