------------------------------ MODULE CpmText -------------------------------
(***************************************************************************)
(* Text in memory and in files: in memory a line ends with LF, in a file   *)
(* with CR LF.  Reading drops every CR.                                    *)
(***************************************************************************)
EXTENDS Integers, Sequences, FiniteSets

CONSTANTS CR, LF

\* The sequences of p, one after another.
Joined(p) ==
    LET f[n \in 0..Len(p)] == IF n = 0 THEN << >> ELSE f[n - 1] \o p[n]
    IN  f[Len(p)]

Decode(b) == Joined([i \in 1..Len(b) |-> IF b[i] = CR THEN << >> ELSE <<b[i]>>])
Encode(t) == Joined([i \in 1..Len(t) |-> IF t[i] = LF THEN <<CR, LF>> ELSE <<t[i]>>])

\* The number of line ends.
Lines(t) == Cardinality({i \in 1..Len(t) : t[i] = LF})

Smaller(x, y) == IF x <= y THEN x ELSE y
First(s, n) == SubSeq(s, 1, Smaller(n, Len(s)))
From(s, n)  == SubSeq(s, n + 1, Len(s))
=============================================================================
