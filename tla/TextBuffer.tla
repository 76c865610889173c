----------------------------- MODULE TextBuffer -----------------------------
(***************************************************************************)
(* What the gap buffer of gap.c promises its callers: the text is a        *)
(* sequence of at most Capacity characters; an insertion puts as much of   *)
(* the new text as fits at a position, a deletion removes a run of         *)
(* characters, and nothing else about the text ever changes.  How the      *)
(* bytes are laid out around the gap is the business of GapBuffer.         *)
(***************************************************************************)
EXTENDS Naturals, Sequences

CONSTANTS Capacity,     \* the most characters the text can hold (gb.size)
          Char,         \* the characters
          Texts         \* the strings callers insert

VARIABLE text

Smaller(a, b) == IF a <= b THEN a ELSE b

\* t with the d characters that follow position p replaced by s.
Splice(t, p, d, s) ==
    [i \in 1..(Len(t) - d + Len(s)) |->
        IF i <= p THEN t[i]
        ELSE IF i <= p + Len(s) THEN s[i - p]
        ELSE t[i - Len(s) + d]]

\* The part of s an insertion into t stores: all of it, unless t gets full.
Fitting(t, s) == SubSeq(s, 1, Smaller(Len(s), Capacity - Len(t)))
-----------------------------------------------------------------------------
TextInit == text = << >>

InsertText(p, s) == text' = Splice(text, p, 0, Fitting(text, s))

DeleteText(p, d) ==
    /\ p < Len(text)
    /\ text' = Splice(text, p, Smaller(d, Len(text) - p), << >>)

ClearText == text' = << >>

TextNext ==
    \/ \E p \in 0..Len(text), s \in Texts : InsertText(p, s)
    \/ \E p \in 0..Len(text), d \in 0..(Capacity + 1) : DeleteText(p, d)
    \/ ClearText

TextSpec == TextInit /\ [][TextNext]_text
=============================================================================
