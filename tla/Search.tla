------------------------------- MODULE Search -------------------------------
(***************************************************************************)
(* Looking for a pattern in the whole text (/ ? n N) and for a character   *)
(* on the cursor's line (f F ; ,), emove.c and edit.c.                     *)
(*                                                                         *)
(* k holds what is looked for: pat is ed.search as the array it is, with   *)
(* whatever earlier patterns left behind the Nul; dir is ed.search_dir; ch *)
(* and way are g_find_char and g_find_dir.                                 *)
(***************************************************************************)
EXTENDS Commands

CONSTANT SearchMax

ASSUME SearchAssumption == SearchMax \in Nat \ {0}

Forward  == 1
Backward == -1

Unsought == [pat |-> [i \in 1..SearchMax |-> Nul], dir |-> Forward, ch |-> None, way |-> Forward]

\* The pattern ends at the first Nul of the array.
Pattern(k) == First(k.pat, Min({i \in DOMAIN k.pat : k.pat[i] = Nul}) - 1)

Same(a, b) == a = b \/ (b \in DOMAIN Toggled /\ Toggled[b] = a)

\* Typing went as far as s; RETURN or ESC came when n of it were left.
Spelled(k, s, n, ended) ==
    [k EXCEPT !.pat = [i \in DOMAIN @ |-> IF ended /\ i = n + 1 THEN Nul
                                          ELSE IF i <= Len(s) THEN s[i] ELSE @[i]]]

\* The i-th position to be looked at.
\* A slip: behind the end the text is not taken up again.
CandidateUnwrapped(t, p, dir, i) == p + dir * i
Candidate(t, p, dir, i) ==
    LET q == Wrap(p + dir * i)
    IN  IF dir = Forward THEN IF q >= Len(t) THEN q - Len(t) ELSE q
        ELSE IF q < 0 THEN q + Len(t) ELSE q

Matches(t, q, s) ==
    \A j \in 1..Len(s) : q + j - 1 < Len(t) /\ Same(At(t, q + j - 1), s[j])

\* do_search_from: -1 when there is none.
SearchFrom(t, p, k) ==
    LET s    == Pattern(k)
        hits == {i \in 1..Len(t) : Matches(t, Candidate(t, p, k.dir, i), s)}
    IN  IF s = << >> \/ hits = {} THEN -1 ELSE Candidate(t, p, k.dir, Min(hits))

\* do_search_move
Found(e, k) ==
    LET q == SearchFrom(e.text, e.cur_pos, k)
    IN  IF q >= 0 THEN [e EXCEPT !.cur_pos = q, !.cur_vrow = -1] ELSE e

\* The next c on the line, or q if there is none.  From a newline on, the line
\* ahead is the next one.
FoundNext(t, q, c, way) ==
    LET ahead == {r \in (q + 1)..(Eol(t, q + 1) - 1) : At(t, r) = c}
        back  == {r \in Bol(t, q)..(q - 1) : At(t, r) = c}
    IN  CASE c = None -> q
          [] way = Forward /\ ahead # {} -> Min(ahead)
          [] way = Backward /\ back # {} -> Max(back)
          [] OTHER -> q

\* mv_find: n times, as far as there are any.
FoundOnLine(t, p, c, way, n) == Times(LAMBDA q : FoundNext(t, q, c, way), n, p)
=============================================================================
