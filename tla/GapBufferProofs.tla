-------------------------- MODULE GapBufferProofs ---------------------------
(***************************************************************************)
(* The gap buffer keeps its type, implements the text it stands for, and   *)
(* its line-number caches never drift: for every buffer size, character    *)
(* set and set of inserted strings, and however long the editing goes on.  *)
(*                                                                         *)
(* The caches rest on one fact about counting newlines: a change of the    *)
(* text adds those of what comes in and takes away those of what goes, for *)
(* every position behind it, and none for the positions before it.         *)
(***************************************************************************)
EXTENDS GapBuffer, MemMove, FiniteSetTheorems, TLAPS

WellFormed(g) == g \in GapBufs /\ g.gstart <= g.gend

(* Moving the gap keeps the text, character by character, and the size of  *)
(* the gap: the copy in gb_move_gap reads every byte where it was.         *)
LEMMA MoveGapKeepsContent ==
    ASSUME NEW g, WellFormed(g), NEW pos \in 0..ContentLen(g)
    PROVE  /\ WellFormed(MoveGap(g, pos))
           /\ MoveGap(g, pos).gstart = pos
           /\ MoveGap(g, pos).gend = pos + GapLen(g)
           /\ ContentLen(MoveGap(g, pos)) = ContentLen(g)
           /\ Content(MoveGap(g, pos)) = Content(g)
<1> DEFINE m == MoveGap(g, pos)
<1>1. g.gstart \in Nat /\ g.gend \in Nat /\ g.gstart <= g.gend /\ g.gend <= Size
  BY SizeAssumption DEF WellFormed, GapBufs
<1>2. m.gstart = pos /\ m.gend = pos + GapLen(g)
  BY DEF MoveGap
<1>3. m.gend <= Size /\ m.gstart <= m.gend /\ m.gstart \in Nat /\ m.gend \in Nat
  BY <1>1, <1>2, SizeAssumption DEF WellFormed, GapLen, ContentLen
<1>4. m.buf \in [0..(Size - 1) -> Char]
  <2>1. CASE pos < g.gstart
    BY <1>1, <2>1, SizeAssumption DEF MoveGap, Memmove, WellFormed, GapBufs, GapLen, ContentLen
  <2>2. CASE pos >= g.gstart
    BY <1>1, <2>2, SizeAssumption DEF MoveGap, Memmove, WellFormed, GapBufs, GapLen, ContentLen
  <2> QED BY <1>1, <2>1, <2>2
<1>5. ContentLen(m) = ContentLen(g)
  BY <1>1, <1>2, SizeAssumption DEF ContentLen, GapLen
<1>6. ASSUME NEW i \in 1..ContentLen(g)
      PROVE  Content(m)[i] = Content(g)[i]
  <2> DEFINE to == IF pos < g.gstart THEN g.gend - (g.gstart - pos) ELSE g.gstart
             from == IF pos < g.gstart THEN pos ELSE g.gend
             cnt == IF pos < g.gstart THEN g.gstart - pos ELSE pos - g.gstart
             at  == IF i <= pos THEN i - 1 ELSE pos + GapLen(g) + (i - 1 - pos)
             was == IF i <= g.gstart THEN i - 1 ELSE g.gend + (i - 1 - g.gstart)
  <2>1. Content(m)[i] = m.buf[at] /\ Content(g)[i] = g.buf[was]
    BY <1>2, <1>5 DEF Content
  <2>2. DOMAIN g.buf = 0..(Size - 1)
    BY DEF WellFormed, GapBufs
  <2>3. m.buf = [k \in 0..(Size - 1) |->
                   IF k \in to..(to + cnt - 1) THEN g.buf[from + (k - to)] ELSE g.buf[k]]
    BY <2>2 DEF MoveGap, Memmove
  <2>4. /\ at \in 0..(Size - 1)
        /\ IF at \in to..(to + cnt - 1) THEN was = from + (at - to) ELSE was = at
    <3>1. CASE pos < g.gstart
      BY <3>1, <1>1, SizeAssumption DEF GapLen, ContentLen
    <3>2. CASE pos >= g.gstart
      BY <3>2, <1>1, SizeAssumption DEF GapLen, ContentLen
    <3> QED BY <3>1, <3>2, <1>1
  <2> HIDE DEF at, was, to, from, cnt, m
  <2> QED BY <2>1, <2>3, <2>4
<1>7. Content(m) = Content(g)
  BY <1>5, <1>6 DEF Content
<1>8. WellFormed(m)
  BY <1>3, <1>4, SizeAssumption DEF WellFormed, GapBufs, MoveGap
<1> QED BY <1>2, <1>5, <1>7, <1>8

(* Writing n characters into a gap that has room for them inserts exactly  *)
(* those characters at pos.                                                *)
LEMMA FillSplices ==
    ASSUME NEW g, WellFormed(g), NEW pos \in 0..ContentLen(g),
           NEW s \in Seq(Char), NEW n \in 0..Len(s), n <= GapLen(g)
    PROVE  /\ WellFormed(Fill(g, pos, s, n))
           /\ ContentLen(Fill(g, pos, s, n)) = ContentLen(g) + n
           /\ Content(Fill(g, pos, s, n)) = Text!Splice(Content(g), pos, 0, SubSeq(s, 1, n))
<1> DEFINE m == MoveGap(g, pos)
           f == Fill(g, pos, s, n)
           t == Content(g)
           r == SubSeq(s, 1, n)
<1>1. /\ WellFormed(m) /\ m.gstart = pos /\ m.gend = pos + GapLen(g)
      /\ ContentLen(m) = ContentLen(g) /\ Content(m) = t
  BY MoveGapKeepsContent
<1>2. /\ GapLen(g) \in Nat /\ ContentLen(g) \in Nat /\ Size \in Nat
      /\ ContentLen(g) = Size - GapLen(g)
      /\ pos \in Nat /\ pos <= ContentLen(g)
      /\ n \in Nat /\ n <= Len(s) /\ n <= GapLen(g)
  BY SizeAssumption DEF WellFormed, GapBufs, GapLen, ContentLen
<1>3. /\ f.gstart = pos + n /\ f.gend = m.gend
      /\ f.buf = [k \in DOMAIN m.buf |->
                    IF k \in pos..(pos + n - 1) THEN s[k - pos + 1] ELSE m.buf[k]]
  BY DEF Fill
<1>4. m.buf \in [0..(Size - 1) -> Char] /\ DOMAIN m.buf = 0..(Size - 1)
  BY <1>1 DEF WellFormed, GapBufs
<1>5. f.buf \in [0..(Size - 1) -> Char]
  <2>1. ASSUME NEW k \in 0..(Size - 1), k \in pos..(pos + n - 1)
        PROVE  s[k - pos + 1] \in Char
    <3>1. k - pos + 1 \in 1..Len(s)
      BY <2>1, <1>2
    <3> QED BY <3>1
  <2> QED BY <2>1, <1>3, <1>4
<1>6. ContentLen(f) = ContentLen(g) + n
  BY <1>1, <1>2, <1>3, SizeAssumption DEF ContentLen, GapLen
<1>7. WellFormed(f)
  <2>1. f.gstart \in 0..Size /\ f.gend \in 0..Size /\ f.gstart <= f.gend
    BY <1>1, <1>2, <1>3, SizeAssumption DEF WellFormed, GapBufs, GapLen
  <2> QED BY <2>1, <1>5, SMTT(30) DEF WellFormed, GapBufs, Fill
<1>8. Len(r) = n /\ \A i \in 1..n : r[i] = s[i]
  BY <1>2
<1>9. Len(t) = ContentLen(g) /\ DOMAIN t = 1..ContentLen(g)
  BY <1>2 DEF Content
<1>10. Text!Splice(t, pos, 0, r) =
         [i \in 1..(ContentLen(g) + n) |->
            IF i <= pos THEN t[i] ELSE IF i <= pos + n THEN r[i - pos] ELSE t[i - n]]
  BY <1>2, <1>8, <1>9 DEF Text!Splice
<1>11. ASSUME NEW i \in 1..(ContentLen(g) + n)
       PROVE  Content(f)[i] =
                IF i <= pos THEN t[i] ELSE IF i <= pos + n THEN r[i - pos] ELSE t[i - n]
  <2> DEFINE at == IF i <= pos + n THEN i - 1 ELSE m.gend + (i - 1 - (pos + n))
  <2>1. Content(f)[i] = f.buf[at]
    BY <1>3, <1>6 DEF Content
  <2>2. \A j \in 1..ContentLen(g) :
          t[j] = m.buf[IF j <= pos THEN j - 1 ELSE m.gend + (j - 1 - pos)]
    BY <1>1 DEF Content
  <2>3. f.buf[at] = IF at \in pos..(pos + n - 1) THEN s[at - pos + 1] ELSE m.buf[at]
    <3>1. at \in 0..(Size - 1)
      BY <1>1, <1>2, SMTT(30)
    <3> HIDE DEF at, m, f
    <3> QED BY <3>1, <1>3, <1>4
  <2>4. CASE i <= pos
    <3>1. i \in 1..ContentLen(g) /\ at = i - 1 /\ at \notin pos..(pos + n - 1)
      BY <2>4, <1>2
    <3> QED BY <3>1, <2>1, <2>2, <2>3, <2>4
  <2>5. CASE ~(i <= pos) /\ i <= pos + n
    <3>1. at = i - 1 /\ at \in pos..(pos + n - 1) /\ at - pos + 1 = i - pos
          /\ i - pos \in 1..n
      BY <2>5, <1>2
    <3> HIDE DEF at, m, f, r, t
    <3> QED BY <3>1, <2>1, <2>3, <2>5, <1>8
  <2>6. CASE ~(i <= pos) /\ ~(i <= pos + n)
    <3>1. /\ i - n \in 1..ContentLen(g) /\ ~(i - n <= pos)
          /\ at = m.gend + ((i - n) - 1 - pos)
          /\ at \notin pos..(pos + n - 1)
      BY <2>6, <1>1, <1>2
    <3> HIDE DEF at, m, f, r, t
    <3> QED BY <3>1, <2>1, <2>2, <2>3, <2>6
  <2> QED BY <2>4, <2>5, <2>6
<1>12. Content(f) = Text!Splice(t, pos, 0, r)
  <2>1. Content(f) = [i \in 1..(ContentLen(g) + n) |-> Content(f)[i]]
    BY <1>6 DEF Content
  <2> QED BY <2>1, <1>10, <1>11
<1> QED BY <1>6, <1>7, <1>12

(* Letting the gap swallow n characters deletes exactly those.             *)
LEMMA ExpandSplices ==
    ASSUME NEW g, WellFormed(g), NEW pos \in 0..ContentLen(g),
           NEW n \in Nat, pos + n <= ContentLen(g)
    PROVE  /\ WellFormed(Expand(g, pos, n))
           /\ ContentLen(Expand(g, pos, n)) = ContentLen(g) - n
           /\ Content(Expand(g, pos, n)) = Text!Splice(Content(g), pos, n, << >>)
<1> DEFINE m == MoveGap(g, pos)
           e == Expand(g, pos, n)
           t == Content(g)
<1>1. /\ WellFormed(m) /\ m.gstart = pos /\ m.gend = pos + GapLen(g)
      /\ ContentLen(m) = ContentLen(g) /\ Content(m) = t
  BY MoveGapKeepsContent
<1>2. /\ GapLen(g) \in Nat /\ ContentLen(g) \in Nat /\ Size \in Nat
      /\ ContentLen(g) = Size - GapLen(g)
      /\ pos \in Nat /\ pos <= ContentLen(g)
  BY SizeAssumption DEF WellFormed, GapBufs, GapLen, ContentLen
<1>3. e = [buf |-> m.buf, gstart |-> pos, gend |-> pos + GapLen(g) + n]
  BY <1>1 DEF Expand, MoveGap
<1>4. WellFormed(e)
  BY <1>1, <1>2, <1>3 DEF WellFormed, GapBufs
<1>5. ContentLen(e) = ContentLen(g) - n
  BY <1>2, <1>3 DEF ContentLen, GapLen
<1>6. Len(t) = ContentLen(g)
  BY <1>2 DEF Content
<1>7. Text!Splice(t, pos, n, << >>) =
        [i \in 1..(ContentLen(g) - n) |-> IF i <= pos THEN t[i] ELSE t[i + n]]
  <2>1. Len(t) - n + Len(<< >>) = ContentLen(g) - n
    BY <1>2, <1>6
  <2>2. ASSUME NEW i \in 1..(ContentLen(g) - n)
        PROVE  (IF i <= pos THEN t[i] ELSE IF i <= pos + Len(<< >>) THEN << >>[i - pos]
                ELSE t[i - Len(<< >>) + n])
               = IF i <= pos THEN t[i] ELSE t[i + n]
    BY <1>2
  <2> HIDE DEF t
  <2> QED BY <2>1, <2>2 DEF Text!Splice
<1>8. ASSUME NEW i \in 1..(ContentLen(g) - n)
      PROVE  Content(e)[i] = IF i <= pos THEN t[i] ELSE t[i + n]
  <2>1. Content(e)[i] = m.buf[IF i <= pos THEN i - 1
                                ELSE pos + GapLen(g) + n + (i - 1 - pos)]
    BY <1>3, <1>5 DEF Content
  <2>2. \A j \in 1..ContentLen(g) :
          t[j] = m.buf[IF j <= pos THEN j - 1 ELSE pos + GapLen(g) + (j - 1 - pos)]
    BY <1>1 DEF Content
  <2> HIDE DEF e, m, t
  <2>3. CASE i <= pos
    <3>1. i \in 1..ContentLen(g)
      BY <1>2
    <3> QED BY <2>1, <2>2, <2>3, <3>1
  <2>4. CASE ~(i <= pos)
    <3>1. i + n \in 1..ContentLen(g) /\ ~(i + n <= pos)
          /\ pos + GapLen(g) + n + (i - 1 - pos) = pos + GapLen(g) + ((i + n) - 1 - pos)
      BY <1>2, <2>4
    <3> QED BY <2>1, <2>2, <2>4, <3>1
  <2> QED BY <2>3, <2>4
<1>9. Content(e) = Text!Splice(t, pos, n, << >>)
  <2>1. Content(e) = [i \in 1..(ContentLen(g) - n) |-> Content(e)[i]]
    BY <1>5 DEF Content
  <2> QED BY <2>1, <1>7, <1>8
<1> QED BY <1>4, <1>5, <1>9

(* Splicing nothing into a text leaves it as it is.                        *)
LEMMA SpliceNothing ==
    ASSUME NEW g, WellFormed(g), NEW pos \in 0..ContentLen(g), NEW s \in Seq(Char)
    PROVE  Text!Splice(Content(g), pos, 0, SubSeq(s, 1, 0)) = Content(g)
<1> DEFINE t == Content(g)
<1>1. ContentLen(g) \in Nat /\ pos \in Nat
  BY SizeAssumption DEF WellFormed, GapBufs, GapLen, ContentLen
<1>2. Len(t) = ContentLen(g) /\ t = [i \in 1..ContentLen(g) |-> t[i]]
  BY <1>1 DEF Content
<1>3. Len(SubSeq(s, 1, 0)) = 0
  OBVIOUS
<1> HIDE DEF t
<1>4. Text!Splice(t, pos, 0, SubSeq(s, 1, 0)) = [i \in 1..ContentLen(g) |-> t[i]]
  BY <1>1, <1>2, <1>3 DEF Text!Splice
<1> QED BY <1>2, <1>4 DEF t
-----------------------------------------------------------------------------
(* Counting newlines yields a natural number.                              *)
LEMMA NewlinesType ==
    ASSUME NEW t, NEW from \in Int, NEW to \in Int
    PROVE  Newlines(t, from, to) \in Nat
<1> DEFINE N == {i \in (from + 1)..to : i <= Len(t) /\ t[i] = NL}
<1>1. IsFiniteSet((from + 1)..to)
  BY FS_Interval
<1>2. IsFiniteSet(N)
  BY <1>1, FS_Subset
<1> QED BY <1>2, FS_CardinalityType DEF Newlines

(* A buffer just made is well-formed, with the gap over all of it (gb_init).*)
THEOREM TypeInitially == Init => TypeOK
<1> SUFFICES ASSUME Init PROVE TypeOK
  OBVIOUS
<1>1. gb \in GapBufs /\ gb.gstart = 0 /\ gb.gend = Size
  BY SizeAssumption DEF Init, GapBufs
<1> QED BY <1>1, SizeAssumption, CutsAssumption DEF Init, TypeOK, ContentLen, GapLen

(* What each change of the text does to the buffer, in one place for the   *)
(* type theorem and for the refinement.                                    *)
LEMMA InsertEffect ==
    ASSUME TypeOK, NEW pos \in 0..ContentLen(gb), NEW s \in Texts, Insert(pos, s)
    PROVE  /\ WellFormed(gb')
           /\ ContentLen(gb') \in Nat
           /\ Content(gb') = Text!Splice(Content(gb), pos, 0, Text!Fitting(Content(gb), s))
<1> DEFINE n == Smaller(Len(s), GapLen(gb))
<1>1. WellFormed(gb) /\ s \in Seq(Char) /\ Len(s) \in Nat
  BY TextsAssumption DEF TypeOK, WellFormed
<1>2. /\ GapLen(gb) \in Nat /\ ContentLen(gb) \in Nat /\ ContentLen(gb) = Size - GapLen(gb)
      /\ Size \in Nat
  BY <1>1, SizeAssumption DEF WellFormed, GapBufs, GapLen, ContentLen
<1>3. n \in 0..Len(s) /\ n <= GapLen(gb)
  BY <1>1, <1>2 DEF Smaller
<1>4. Len(Content(gb)) = ContentLen(gb)
  BY <1>2 DEF Content
<1>5. Text!Fitting(Content(gb), s) = SubSeq(s, 1, n)
  <2>1. Size - Len(Content(gb)) = GapLen(gb)
    BY <1>2, <1>4
  <2> QED BY <2>1 DEF Text!Fitting, Text!Smaller, Smaller
<1>6. CASE n = 0
  <2>1. gb' = gb
    BY <1>6 DEF Insert
  <2>2. Content(gb) = Text!Splice(Content(gb), pos, 0, SubSeq(s, 1, 0))
    BY <1>1, SpliceNothing
  <2> QED BY <2>1, <2>2, <1>1, <1>2, <1>5, <1>6
<1>7. CASE n # 0
  <2>1. gb' = Fill(gb, pos, s, n)
    BY <1>7 DEF Insert
  <2>2. /\ WellFormed(Fill(gb, pos, s, n))
        /\ ContentLen(Fill(gb, pos, s, n)) = ContentLen(gb) + n
        /\ Content(Fill(gb, pos, s, n)) = Text!Splice(Content(gb), pos, 0, SubSeq(s, 1, n))
    BY <1>1, <1>3, FillSplices
  <2> QED BY <2>1, <2>2, <1>2, <1>3, <1>5
<1> QED BY <1>6, <1>7

(* A deletion takes the characters at its place out, as many as there are  *)
(* (gb_delete).                                                            *)
LEMMA DeleteEffect ==
    ASSUME TypeOK, NEW pos \in 0..ContentLen(gb), NEW count \in 0..(Size + 1), Delete(pos, count)
    PROVE  /\ WellFormed(gb')
           /\ ContentLen(gb') \in Nat
           /\ pos < Len(Content(gb))
           /\ Content(gb') = Text!Splice(Content(gb), pos,
                                Text!Smaller(count, Len(Content(gb)) - pos), << >>)
<1> DEFINE n == Deletable(gb, pos, count)
<1>1. WellFormed(gb)
  BY DEF TypeOK, WellFormed
<1>2. ContentLen(gb) \in Nat /\ pos < ContentLen(gb)
  BY <1>1, SizeAssumption DEF WellFormed, GapBufs, GapLen, ContentLen, Delete
<1>3. n \in Nat /\ pos + n <= ContentLen(gb)
  BY <1>2, SizeAssumption DEF Deletable, Smaller
<1>4. Len(Content(gb)) = ContentLen(gb)
  BY <1>2 DEF Content
<1>5. n = Text!Smaller(count, Len(Content(gb)) - pos)
  BY <1>4 DEF Deletable, Smaller, Text!Smaller
<1>6. gb' = Expand(gb, pos, n)
  BY DEF Delete
<1>7. /\ WellFormed(Expand(gb, pos, n))
      /\ ContentLen(Expand(gb, pos, n)) = ContentLen(gb) - n
      /\ Content(Expand(gb, pos, n)) = Text!Splice(Content(gb), pos, n, << >>)
  BY <1>1, <1>3, ExpandSplices
<1>8. ContentLen(gb) - n \in Nat
  BY <1>2, <1>3
<1> QED BY <1>2, <1>4, <1>5, <1>6, <1>7, <1>8
---------------------------------------------------------------------------
-----------------------------------------------------------------------------
(* Every operation keeps the gap in the array and the cursor in the text.  *)
LEMMA TypePreserved == TypeOK /\ [Next]_vars => TypeOK'
<1> SUFFICES ASSUME TypeOK, [Next]_vars PROVE TypeOK'
  OBVIOUS
<1> USE SizeAssumption, CutsAssumption, TextsAssumption
<1>0. /\ WellFormed(gb) /\ ContentLen(gb) \in Nat
      /\ line_cnt_cached \in Int /\ cur_line \in Int /\ cur_line_pos \in Int
      /\ cur_line_pos >= -1 /\ cuts \in Nat /\ cuts <= MaxCuts /\ cur_pos \in Nat
  BY DEF TypeOK, WellFormed, GapBufs, ContentLen, GapLen
<1>1. ASSUME NEW pos \in 0..ContentLen(gb), NEW s \in Texts, Insert(pos, s)
      PROVE  TypeOK'
  <2>1. WellFormed(gb') /\ ContentLen(gb') \in Nat
    BY <1>1, InsertEffect
  <2>2. cur_pos' \in 0..ContentLen(gb')
    BY <1>1 DEF Insert, PlaceCursor
  <2>3. cuts' \in 0..MaxCuts
    BY <1>0, <1>1 DEF Insert
  <2>4. Len(s) \in Nat /\ Newlines(s, 0, Len(s)) \in Nat
    BY NewlinesType
  <2>5. line_cnt_cached' \in Int /\ cur_line' \in Int /\ cur_line_pos' \in Int
        /\ cur_line_pos' >= -1
    BY <1>0, <1>1, <2>4 DEF Insert, CachesAfterInsert, LineCountAfter
  <2> QED BY <2>1, <2>2, <2>3, <2>5 DEF TypeOK, WellFormed
<1>2. ASSUME NEW pos \in 0..ContentLen(gb), NEW count \in 0..(Size + 1), Delete(pos, count)
      PROVE  TypeOK'
  <2> DEFINE n == Deletable(gb, pos, count)
  <2>1. WellFormed(gb') /\ ContentLen(gb') \in Nat
    BY <1>2, DeleteEffect
  <2>2. cur_pos' \in 0..ContentLen(gb') /\ cuts' = cuts /\ CachesAfterDelete(pos, n)
    BY <1>2 DEF Delete, PlaceCursor
  <2>3. n \in Nat
    BY <1>0, <1>2 DEF Deletable, Smaller, Delete
  <2>4. Newlines(text, pos, pos + n) \in Nat
    BY <2>3, NewlinesType
  <2> HIDE DEF n
  <2>5. line_cnt_cached' \in Int /\ cur_line' \in Int /\ cur_line_pos' \in Int
        /\ cur_line_pos' >= -1
    BY <1>0, <2>2, <2>3, <2>4 DEF CachesAfterDelete, LineCountAfter
  <2> QED BY <1>0, <2>1, <2>2, <2>5 DEF TypeOK, WellFormed
<1>3. CASE Reset
  <2>1. gb \in GapBufs /\ 0 \in 0..Size /\ Size \in 0..Size
    BY <1>0 DEF WellFormed
  <2>2. gb' = [gb EXCEPT !.gstart = 0, !.gend = Size]
    BY <1>3 DEF Reset
  <2>3. gb' \in GapBufs /\ gb'.gstart = 0 /\ gb'.gend = Size
    BY <2>1, <2>2 DEF GapBufs
  <2> QED BY <1>0, <1>3, <2>3 DEF Reset, TypeOK, ContentLen, GapLen
<1>4. CASE Move
  BY <1>0, <1>4 DEF Move, TypeOK, caches
<1>5. CASE AskLineCount
  <2>1. Len(text) \in Nat
    BY <1>0 DEF text, Content
  <2>2. LineCount(text) \in Int
    BY <2>1, NewlinesType DEF LineCount
  <2> QED BY <1>5, <2>2 DEF AskLineCount, TypeOK
<1>6. CASE AskCurLine
  <2>1. /\ Newlines(text, 0, cur_pos) \in Nat
        /\ Newlines(text, cur_line_pos, cur_pos) \in Nat
        /\ Newlines(text, cur_pos, cur_line_pos) \in Nat
    BY <1>0, NewlinesType
  <2>2. CurLine \in Int
    BY <1>0, <2>1 DEF CurLine
  <2> QED BY <1>0, <1>6, <2>2 DEF AskCurLine, TypeOK
<1>7. CASE UNCHANGED vars
  BY <1>7 DEF vars, caches, TypeOK
<1> QED BY <1>1, <1>2, <1>3, <1>4, <1>5, <1>6, <1>7 DEF Next

(* The gap stays inside the array and the cursor inside the text, for      *)
(* every buffer size and every string inserted.                            *)
THEOREM TypeCorrect == Spec => []TypeOK
<1>1. Init => TypeOK
  BY TypeInitially
<1>2. TypeOK /\ [Next]_vars => TypeOK'
  BY TypePreserved
<1> QED BY <1>1, <1>2, PTL DEF Spec
-----------------------------------------------------------------------------
(* A buffer just made holds no text.                                       *)
LEMMA TextInitially == Init => Text!TextInit
<1> SUFFICES ASSUME Init PROVE text = << >>
  BY DEF Text!TextInit
<1>1. ContentLen(gb) = 0
  BY SizeAssumption DEF Init, ContentLen, GapLen
<1> QED BY <1>1 DEF text, Content

(* Every operation splices the text as the abstract one does, or leaves it.*)
LEMMA TextStep == TypeOK /\ [Next]_vars => [Text!TextNext]_text
<1> SUFFICES ASSUME TypeOK, [Next]_vars PROVE [Text!TextNext]_text
  OBVIOUS
<1>0. Len(text) = ContentLen(gb) /\ text = Content(gb) /\ text' = Content(gb')
  BY SizeAssumption DEF text, Content, TypeOK, GapBufs, ContentLen, GapLen
<1>1. ASSUME NEW pos \in 0..ContentLen(gb), NEW s \in Texts, Insert(pos, s)
      PROVE  Text!TextNext
  <2>1. text' = Text!Splice(text, pos, 0, Text!Fitting(text, s))
    BY <1>0, <1>1, InsertEffect
  <2> QED BY <1>0, <2>1 DEF Text!TextNext, Text!InsertText
<1>2. ASSUME NEW pos \in 0..ContentLen(gb), NEW count \in 0..(Size + 1), Delete(pos, count)
      PROVE  Text!TextNext
  <2>1. /\ pos < Len(text)
        /\ text' = Text!Splice(text, pos, Text!Smaller(count, Len(text) - pos), << >>)
    BY <1>0, <1>2, DeleteEffect
  <2>2. Text!DeleteText(pos, count)
    BY <2>1 DEF Text!DeleteText
  <2> QED BY <1>0, <2>2 DEF Text!TextNext
<1>3. CASE Reset
  <2>1. ContentLen(gb') = 0
    BY <1>3, SizeAssumption DEF Reset, ContentLen, GapLen, TypeOK, GapBufs
  <2>2. text' = << >>
    BY <1>0, <2>1 DEF Content
  <2> QED BY <2>2 DEF Text!TextNext, Text!ClearText
<1>4. CASE Move \/ AskLineCount \/ AskCurLine \/ UNCHANGED vars
  <2>1. gb' = gb
    BY <1>4 DEF Move, AskLineCount, AskCurLine, vars
  <2> QED BY <1>0, <2>1
<1> QED BY <1>1, <1>2, <1>3, <1>4 DEF Next

(* However the gap is moved, grown and filled, callers see the text of     *)
(* TextBuffer: every step of the gap buffer is a splice of that text, the  *)
(* emptying of it, or no change.                                           *)
THEOREM GapBufferImplementsText == Spec => ImplementsText
<1>1. Init => Text!TextInit
  BY TextInitially
<1>2. TypeOK /\ [Next]_vars => [Text!TextNext]_text
  BY TextStep
<1> QED BY <1>1, <1>2, TypeCorrect, PTL DEF Spec, ImplementsText, Text!TextSpec
-----------------------------------------------------------------------------
(* The line-number caches.                                                 *)

\* The places the newlines of Newlines(t, from, to) are at.
Places(t, from, to) == {i \in (from + 1)..to : i <= Len(t) /\ t[i] = NL}

(* The places of newlines in a piece are finitely many: they can be counted.*)
LEMMA PlacesFinite ==
    ASSUME NEW t, NEW from \in Int, NEW to \in Int
    PROVE  IsFiniteSet(Places(t, from, to)) /\ Newlines(t, from, to) = Cardinality(Places(t, from, to))
<1>1. IsFiniteSet((from + 1)..to)
  BY FS_Interval
<1>2. Places(t, from, to) \in SUBSET ((from + 1)..to)
  BY DEF Places
<1> QED BY <1>1, <1>2, FS_Subset DEF Newlines, Places

(* Newlines are counted piece by piece.                                    *)
LEMMA NewlinesAdd ==
    ASSUME NEW t, NEW a \in Int, NEW b \in Int, NEW c \in Int, a <= b, b <= c
    PROVE  Newlines(t, a, c) = Newlines(t, a, b) + Newlines(t, b, c)
<1>1. Places(t, a, c) = Places(t, a, b) \cup Places(t, b, c)
  BY DEF Places
<1>2. Places(t, a, b) \cap Places(t, b, c) = {}
  BY DEF Places
<1>3. Cardinality(Places(t, a, c)) =
        Cardinality(Places(t, a, b)) + Cardinality(Places(t, b, c)) - Cardinality({})
  BY <1>1, <1>2, PlacesFinite, FS_Union
<1>4. Newlines(t, a, b) \in Nat /\ Newlines(t, b, c) \in Nat
  BY NewlinesType
<1> QED BY <1>3, <1>4, PlacesFinite, FS_EmptySet

(* Nothing is counted in an empty piece.                                   *)
LEMMA NewlinesNone ==
    ASSUME NEW t, NEW a \in Int
    PROVE  Newlines(t, a, a) = 0
<1>1. Places(t, a, a) = {}
  BY DEF Places
<1> QED BY <1>1, PlacesFinite, FS_EmptySet

\* What follows position a in t, as far as b, follows position x in u.
SamePiece(t, u, a, b, x) ==
    \A i \in (a + 1)..b :
        (i <= Len(t) /\ t[i] = NL) <=> (i + (x - a) <= Len(u) /\ u[i + (x - a)] = NL)

(* A piece that is elsewhere in another text has as many newlines there.   *)
LEMMA NewlinesShift ==
    ASSUME NEW t \in Seq(Char), NEW u \in Seq(Char), NEW a \in Int, NEW b \in Int,
           NEW x \in Int, NEW y \in Int,
           y - b = x - a, SamePiece(t, u, a, b, x)
    PROVE  Newlines(t, a, b) = Newlines(u, x, y)
<1> DEFINE d == x - a
           S == Places(t, a, b)
           T == Places(u, x, y)
           f == [i \in S |-> i + d]
<1>1. \A i \in S : i \in Int /\ i + d \in T
  BY DEF Places, SamePiece
<1>2. \A j \in T : j - d \in S /\ (j - d) + d = j
  <2> SUFFICES ASSUME NEW j \in T PROVE j - d \in S /\ (j - d) + d = j
    OBVIOUS
  <2>1. j \in Int /\ j - d \in (a + 1)..b /\ (j - d) + (x - a) = j
    BY DEF Places
  <2>2. j <= Len(u) /\ u[j] = NL
    BY DEF Places
  <2>3. j - d <= Len(t) /\ t[j - d] = NL
    BY <2>1, <2>2 DEF SamePiece
  <2> QED BY <2>1, <2>3 DEF Places
<1>3. f \in Bijection(S, T)
  <2>1. f \in [S -> T]
    BY <1>1
  <2>2. \A i, j \in S : f[i] = f[j] => i = j
    BY <1>1
  <2>3. \A j \in T : \E i \in S : f[i] = j
    BY <1>2
  <2> QED BY <2>1, <2>2, <2>3 DEF Bijection, Injection, IsInjective, Surjection
<1>4. IsFiniteSet(S)
  BY PlacesFinite
<1>5. Cardinality(T) = Cardinality(S)
  <2>1. ExistsBijection(S, T)
    BY <1>3 DEF ExistsBijection
  <2> HIDE DEF S, T
  <2> QED BY <1>4, <2>1, FS_Bijection
<1> QED BY <1>5, PlacesFinite

(* What a change of the text does to the numbers of newlines: the d        *)
(* characters behind p are replaced by s.                                  *)
LEMMA SpliceNewlines ==
    ASSUME NEW t \in Seq(Char), NEW s \in Seq(Char), NEW p \in Nat, NEW d \in Nat,
           p + d <= Len(t), NEW u, u = Text!Splice(t, p, d, s)
    PROVE  /\ Len(u) = Len(t) - d + Len(s)
           /\ \A q \in 0..p : Newlines(u, 0, q) = Newlines(t, 0, q)
           /\ \A q \in (p + d)..Len(t) :
                Newlines(u, 0, q - d + Len(s)) =
                    Newlines(t, 0, q) - Newlines(t, p, p + d) + Newlines(s, 0, Len(s))
<1> SUFFICES ASSUME NEW n, n = Len(s)
             PROVE  /\ Len(u) = Len(t) - d + n
                    /\ \A q \in 0..p : Newlines(u, 0, q) = Newlines(t, 0, q)
                    /\ \A q \in (p + d)..Len(t) :
                         Newlines(u, 0, q - d + n) =
                            Newlines(t, 0, q) - Newlines(t, p, p + d) + Newlines(s, 0, n)
  OBVIOUS
<1>1. n \in Nat /\ Len(t) \in Nat
  OBVIOUS
<1>2. u = [i \in 1..(Len(t) - d + n) |->
             IF i <= p THEN t[i] ELSE IF i <= p + n THEN s[i - p] ELSE t[i - n + d]]
  BY DEF Text!Splice
<1>3. Len(u) = Len(t) - d + n /\ u \in Seq(Char)
  BY <1>1, <1>2
<1>4. /\ \A i \in 1..p : i <= Len(t) /\ i <= Len(u) /\ u[i] = t[i]
      /\ \A i \in 1..n : i + p <= Len(u) /\ u[i + p] = s[i]
      /\ \A i \in (p + d + 1)..Len(t) : i + (n - d) <= Len(u) /\ u[i + (n - d)] = t[i]
  BY <1>1, <1>2, <1>3, SMTT(30)
<1>5. \A q \in 0..p : Newlines(t, 0, q) = Newlines(u, 0, q)
  <2> SUFFICES ASSUME NEW q \in 0..p PROVE Newlines(t, 0, q) = Newlines(u, 0, q)
    OBVIOUS
  <2>1. SamePiece(t, u, 0, q, 0)
    BY <1>4 DEF SamePiece
  <2>2. 0 \in Int /\ q \in Int /\ q - q = 0 - 0
    OBVIOUS
  <2> QED BY <1>3, <2>1, <2>2, NewlinesShift
<1>6. Newlines(s, 0, n) = Newlines(u, p, p + n)
  <2>1. SamePiece(s, u, 0, n, p)
    BY <1>1, <1>4 DEF SamePiece
  <2>2. 0 \in Int /\ p \in Int /\ n \in Int /\ p + n \in Int /\ (p + n) - n = p - 0
    BY <1>1
  <2> QED BY <1>3, <2>1, <2>2, NewlinesShift
<1>7. ASSUME NEW q \in (p + d)..Len(t)
      PROVE  Newlines(u, 0, q - d + n) =
                Newlines(t, 0, q) - Newlines(t, p, p + d) + Newlines(s, 0, n)
  <2>0. 0 \in Int /\ p \in Int /\ q \in Int /\ p + n \in Int /\ q - d + n \in Int /\ n - d \in Int /\ p + d \in Int
        /\ 0 <= p /\ p <= p + n /\ p + n <= q - d + n /\ p <= p + d /\ p + d <= q
        /\ (q - d + n) - q = (p + n) - (p + d)
    BY <1>1, <1>7
  <2>1. SamePiece(t, u, p + d, q, p + n)
    <3>1. (p + n) - (p + d) = n - d
      BY <1>1
    <3>2. \A i \in ((p + d) + 1)..q : i + (n - d) <= Len(u) /\ u[i + (n - d)] = t[i] /\ i <= Len(t)
      BY <1>1, <1>4, <1>7
    <3> QED BY <3>1, <3>2 DEF SamePiece
  <2>2. Newlines(t, p + d, q) = Newlines(u, p + n, q - d + n)
    BY <1>3, <2>0, <2>1, NewlinesShift
  <2>3. Newlines(u, 0, q - d + n) = Newlines(u, 0, p) + Newlines(u, p, p + n) + Newlines(u, p + n, q - d + n)
    <3>1. Newlines(u, 0, q - d + n) = Newlines(u, 0, p) + Newlines(u, p, q - d + n)
      BY <2>0, NewlinesAdd
    <3>2. Newlines(u, p, q - d + n) = Newlines(u, p, p + n) + Newlines(u, p + n, q - d + n)
      BY <2>0, NewlinesAdd
    <3>3. Newlines(u, 0, p) \in Nat /\ Newlines(u, p, p + n) \in Nat /\ Newlines(u, p + n, q - d + n) \in Nat
      BY <2>0, NewlinesType
    <3> QED BY <3>1, <3>2, <3>3
  <2>4. Newlines(t, 0, q) = Newlines(t, 0, p) + Newlines(t, p, p + d) + Newlines(t, p + d, q)
    <3>1. Newlines(t, 0, q) = Newlines(t, 0, p) + Newlines(t, p, q)
      BY <2>0, NewlinesAdd
    <3>2. Newlines(t, p, q) = Newlines(t, p, p + d) + Newlines(t, p + d, q)
      BY <2>0, NewlinesAdd
    <3>3. Newlines(t, 0, p) \in Nat /\ Newlines(t, p, p + d) \in Nat /\ Newlines(t, p + d, q) \in Nat
      BY <2>0, NewlinesType
    <3> QED BY <3>1, <3>2, <3>3
  <2>5. Newlines(u, 0, p) = Newlines(t, 0, p)
    BY <1>5
  <2>6. /\ Newlines(t, 0, p) \in Nat /\ Newlines(t, p, p + d) \in Nat
        /\ Newlines(t, p + d, q) \in Nat /\ Newlines(s, 0, n) \in Nat
    BY <1>1, <2>0, NewlinesType
  <2> QED BY <1>6, <2>2, <2>3, <2>4, <2>5, <2>6
<1>8. \A q \in (p + d)..Len(t) :
        Newlines(u, 0, q - d + n) = Newlines(t, 0, q) - Newlines(t, p, p + d) + Newlines(s, 0, n)
  BY <1>7
<1> QED BY <1>3, <1>5, <1>8
-----------------------------------------------------------------------------
CacheInv == CurLineExact /\ LineCountNear

(* What lies on both sides of the gap is one sequence of characters.       *)
LEMMA TextIsSequence == TypeOK => /\ text \in Seq(Char) /\ Len(text) = ContentLen(gb)
                                  /\ ContentLen(gb) \in Nat
<1> SUFFICES ASSUME TypeOK
             PROVE  /\ text \in Seq(Char) /\ Len(text) = ContentLen(gb) /\ ContentLen(gb) \in Nat
  OBVIOUS
<1>1. /\ gb.gstart \in 0..Size /\ gb.gend \in 0..Size /\ gb.gstart <= gb.gend
      /\ gb.buf \in [0..(Size - 1) -> Char] /\ Size \in Nat /\ ContentLen(gb) \in Nat
  BY SizeAssumption DEF TypeOK, GapBufs, ContentLen, GapLen
<1>2. \A i \in 1..ContentLen(gb) :
        (IF i <= gb.gstart THEN gb.buf[i - 1] ELSE gb.buf[gb.gend + (i - 1 - gb.gstart)]) \in Char
  BY <1>1 DEF ContentLen, GapLen
<1> QED BY <1>1, <1>2 DEF text, Content

(* What a change does to both caches, seen from the text before and after  *)
(* it: d characters behind p became s.  Behind the change the cached line  *)
(* is shifted with its position, before it both stay, and across it the    *)
(* position is given up.                                                   *)
LEMMA CachesFollow ==
    ASSUME TypeOK, CurLineCached, NEW s \in Seq(Char), NEW p \in Nat, NEW d \in Nat,
           p + d <= Len(text), text' = Text!Splice(text, p, d, s),
           \/ /\ p + d <= cur_line_pos
              /\ cur_line_pos' = cur_line_pos - d + Len(s)
              /\ cur_line' = cur_line - Newlines(text, p, p + d) + Newlines(s, 0, Len(s))
           \/ cur_line_pos < p /\ cur_line_pos' = cur_line_pos /\ cur_line' = cur_line
           \/ cur_line_pos' = -1
    PROVE  CurLineCached'
<1>1. text \in Seq(Char) /\ Len(text) \in Nat /\ Len(s) \in Nat /\ cur_line_pos \in Int
  BY TextIsSequence DEF TypeOK
<1>2. Len(text') = Len(text) - d + Len(s)
  BY <1>1 DEF Text!Splice
<1>6. \A q \in 0..p : Newlines(text', 0, q) = Newlines(text, 0, q)
  BY <1>1, SpliceNewlines
<1>7. \A q \in (p + d)..Len(text) :
        Newlines(text', 0, q - d + Len(s)) =
            Newlines(text, 0, q) - Newlines(text, p, p + d) + Newlines(s, 0, Len(s))
  BY <1>1, SpliceNewlines
<1> SUFFICES ASSUME cur_line_pos' >= 0
             PROVE  cur_line_pos' <= Len(text') /\ cur_line' = Newlines(text', 0, cur_line_pos')
  BY DEF CurLineCached
<1>3. CASE /\ p + d <= cur_line_pos
           /\ cur_line_pos' = cur_line_pos - d + Len(s)
           /\ cur_line' = cur_line - Newlines(text, p, p + d) + Newlines(s, 0, Len(s))
  <2>1. cur_line_pos \in (p + d)..Len(text) /\ cur_line = Newlines(text, 0, cur_line_pos)
    BY <1>1, <1>3 DEF CurLineCached
  <2>2. Newlines(text', 0, cur_line_pos - d + Len(s)) =
            Newlines(text, 0, cur_line_pos) - Newlines(text, p, p + d) + Newlines(s, 0, Len(s))
    BY <1>7, <2>1
  <2> QED BY <1>1, <1>2, <1>3, <2>1, <2>2
<1>4. CASE cur_line_pos < p /\ cur_line_pos' = cur_line_pos /\ cur_line' = cur_line
  <2>1. cur_line_pos \in 0..p /\ cur_line = Newlines(text, 0, cur_line_pos)
    BY <1>1, <1>4 DEF CurLineCached
  <2>2. Newlines(text', 0, cur_line_pos) = Newlines(text, 0, cur_line_pos)
    BY <1>6, <2>1
  <2> QED BY <1>1, <1>2, <1>4, <2>1, <2>2
<1>5. CASE cur_line_pos' = -1
  BY <1>5
<1> QED BY <1>3, <1>4, <1>5

(* A splice that adds to the cached number of lines what the newlines gained*)
(* leaves it as near to the number of newlines as it was.                  *)
LEMMA LineCountFollows ==
    ASSUME TypeOK, NEW s \in Seq(Char), NEW p \in Nat, NEW d \in Nat,
           p + d <= Len(text), text' = Text!Splice(text, p, d, s),
           line_cnt_cached > 0 => line_cnt_cached - Newlines(text, 0, Len(text)) \in {0, 1},
           line_cnt_cached' = LineCountAfter(Newlines(s, 0, Len(s)) - Newlines(text, p, p + d))
    PROVE  line_cnt_cached' > 0 => line_cnt_cached' - Newlines(text', 0, Len(text')) \in {0, 1}
<1>1. text \in Seq(Char) /\ Len(text) \in Nat /\ Len(s) \in Nat /\ line_cnt_cached \in Int
  BY TextIsSequence DEF TypeOK
<1>2. Len(text') = Len(text) - d + Len(s)
  BY <1>1 DEF Text!Splice
<1>5. \A q \in (p + d)..Len(text) :
        Newlines(text', 0, q - d + Len(s)) =
            Newlines(text, 0, q) - Newlines(text, p, p + d) + Newlines(s, 0, Len(s))
  BY <1>1, SpliceNewlines
<1>3. Newlines(text', 0, Len(text')) =
        Newlines(text, 0, Len(text)) - Newlines(text, p, p + d) + Newlines(s, 0, Len(s))
  BY <1>1, <1>2, <1>5
<1>4. /\ Newlines(text, 0, Len(text)) \in Nat /\ Newlines(text, p, p + d) \in Nat
      /\ Newlines(s, 0, Len(s)) \in Nat
  BY <1>1, NewlinesType
<1> QED BY <1>1, <1>3, <1>4, SMTT(30) DEF LineCountAfter

(* An insertion that fitted, as a change of the text.                      *)
LEMMA InsertFitted ==
    ASSUME TypeOK, NEW p \in 0..ContentLen(gb), NEW s \in Texts, Insert(p, s), cuts' = 0
    PROVE  cuts = 0 /\ s \in Seq(Char) /\ text' = Text!Splice(text, p, 0, s)
<1>1. s \in Seq(Char) /\ Len(s) \in Nat /\ cuts \in Nat /\ GapLen(gb) \in Int
  BY TextsAssumption, CutsAssumption, SizeAssumption DEF TypeOK, GapLen, GapBufs
<1>2. Smaller(Len(s), GapLen(gb)) >= Len(s) /\ cuts = 0
  BY <1>1 DEF Insert, Smaller
<1>3. GapLen(gb) >= Len(s) /\ GapLen(gb) = Size - Len(text)
  <2>1. Len(text) = Size - GapLen(gb) /\ GapLen(gb) \in Int /\ Size \in Int
    BY TextIsSequence, SizeAssumption DEF ContentLen, GapLen, TypeOK, GapBufs
  <2> QED BY <1>1, <1>2, <2>1 DEF Smaller
<1>4. Text!Fitting(text, s) = s
  BY <1>1, <1>3 DEF Text!Fitting, Text!Smaller
<1>5. text' = Text!Splice(text, p, 0, Text!Fitting(text, s))
  BY InsertEffect DEF text
<1> QED BY <1>1, <1>2, <1>4, <1>5

(* Both caches are right of a buffer just made.                            *)
LEMMA CachesInitially == Init => CacheInv
BY DEF Init, CacheInv, CurLineExact, CurLineCached, LineCountNear

(* Every operation that loses no characters keeps both caches right.       *)
LEMMA CachesPreserved == TypeOK /\ CacheInv /\ [Next]_vars => CacheInv'
<1> SUFFICES ASSUME TypeOK, CacheInv, [Next]_vars, cuts' = 0
             PROVE  /\ CurLineCached'
                    /\ line_cnt_cached' > 0 =>
                            line_cnt_cached' - Newlines(text', 0, Len(text')) \in {0, 1}
  BY DEF CacheInv, CurLineExact, LineCountNear
<1>0. /\ text \in Seq(Char) /\ Len(text) \in Nat /\ Len(text) = ContentLen(gb)
      /\ cuts \in Nat /\ cur_pos \in 0..Len(text)
      /\ line_cnt_cached \in Int /\ cur_line \in Int /\ cur_line_pos \in Int /\ cur_line_pos >= -1
  BY TextIsSequence, CutsAssumption DEF TypeOK
<1>1. ASSUME NEW p \in 0..ContentLen(gb), NEW s \in Texts, Insert(p, s)
      PROVE  /\ CurLineCached'
             /\ line_cnt_cached' > 0 =>
                    line_cnt_cached' - Newlines(text', 0, Len(text')) \in {0, 1}
  <2>1. cuts = 0 /\ s \in Seq(Char) /\ text' = Text!Splice(text, p, 0, s)
    BY <1>1, InsertFitted
  <2>2. CurLineCached /\ (line_cnt_cached > 0 => line_cnt_cached - Newlines(text, 0, Len(text)) \in {0, 1})
    BY <2>1 DEF CacheInv, CurLineExact, LineCountNear
  <2>3. CachesAfterInsert(p, s) /\ p \in Nat /\ p + 0 = p /\ p + 0 <= Len(text) /\ Len(s) \in Nat
    BY <1>0, <1>1, <2>1 DEF Insert
  <2>4. Newlines(text, p, p + 0) = 0 /\ Newlines(s, 0, Len(s)) \in Nat
    BY <2>3, NewlinesNone, NewlinesType
  <2>5. \/ /\ p + 0 <= cur_line_pos
           /\ cur_line_pos' = cur_line_pos - 0 + Len(s)
           /\ cur_line' = cur_line - Newlines(text, p, p + 0) + Newlines(s, 0, Len(s))
        \/ cur_line_pos < p /\ cur_line_pos' = cur_line_pos /\ cur_line' = cur_line
    BY <1>0, <2>3, <2>4 DEF CachesAfterInsert
  <2>6. CurLineCached'
    BY <2>1, <2>2, <2>3, <2>5, CachesFollow
  <2>7. line_cnt_cached' = LineCountAfter(Newlines(s, 0, Len(s)) - Newlines(text, p, p + 0))
    BY <2>3, <2>4 DEF CachesAfterInsert, LineCountAfter
  <2> QED BY <2>1, <2>2, <2>3, <2>6, <2>7, LineCountFollows
<1>2. ASSUME NEW p \in 0..ContentLen(gb), NEW count \in 0..(Size + 1), Delete(p, count)
      PROVE  /\ CurLineCached'
             /\ line_cnt_cached' > 0 =>
                    line_cnt_cached' - Newlines(text', 0, Len(text')) \in {0, 1}
  <2> DEFINE d == Deletable(gb, p, count)
  <2>1. text' = Text!Splice(text, p, d, << >>)
    <3>1. text' = Text!Splice(text, p, Text!Smaller(count, Len(text) - p), << >>)
      BY <1>2, DeleteEffect DEF text
    <3> QED BY <1>0, <3>1 DEF Deletable, Smaller, Text!Smaller
  <2>2. cuts = 0 /\ CachesAfterDelete(p, d)
    BY <1>2 DEF Delete
  <2>3. CurLineCached /\ (line_cnt_cached > 0 => line_cnt_cached - Newlines(text, 0, Len(text)) \in {0, 1})
    BY <2>2 DEF CacheInv, CurLineExact, LineCountNear
  <2>4. p \in Nat /\ d \in Nat /\ p + d <= Len(text)
    BY <1>0, <1>2, SizeAssumption DEF Deletable, Smaller, Delete
  <2>5. << >> \in Seq(Char) /\ Len(<< >>) = 0
    OBVIOUS
  <2>6. Newlines(<< >>, 0, Len(<< >>)) = 0 /\ Newlines(text, p, p + d) \in Nat
    BY <2>4, <2>5, NewlinesNone, NewlinesType
  <2> HIDE DEF d
  <2>7. \/ /\ p + d <= cur_line_pos
           /\ cur_line_pos' = cur_line_pos - d + Len(<< >>)
           /\ cur_line' = cur_line - Newlines(text, p, p + d) + Newlines(<< >>, 0, Len(<< >>))
        \/ cur_line_pos < p /\ cur_line_pos' = cur_line_pos /\ cur_line' = cur_line
        \/ cur_line_pos' = -1
    BY <1>0, <2>2, <2>4, <2>5, <2>6 DEF CachesAfterDelete
  <2>8. CurLineCached'
    BY <2>1, <2>3, <2>4, <2>5, <2>7, CachesFollow
  <2>9. line_cnt_cached' = LineCountAfter(Newlines(<< >>, 0, Len(<< >>)) - Newlines(text, p, p + d))
    BY <1>0, <2>2, <2>6 DEF CachesAfterDelete, LineCountAfter
  <2> QED BY <2>1, <2>3, <2>4, <2>5, <2>8, <2>9, LineCountFollows
<1>3. CASE Reset
  BY <1>3 DEF Reset, CurLineCached
<1>4. CASE Move \/ UNCHANGED vars
  <2>1. text' = text /\ UNCHANGED <<caches, cuts>>
    BY <1>4 DEF Move, vars, text
  <2> QED BY <2>1 DEF CacheInv, CurLineExact, LineCountNear, CurLineCached, caches
<1>5. CASE AskLineCount
  <2>1. text' = text /\ UNCHANGED <<cur_line, cur_line_pos, cuts>> /\ line_cnt_cached' = LineCount(text)
    BY <1>5 DEF AskLineCount, text
  <2>2. CurLineCached'
    BY <2>1 DEF CacheInv, CurLineExact, CurLineCached
  <2>3. Newlines(text, 0, Len(text)) \in Nat /\ (text = << >> => Newlines(text, 0, Len(text)) = 0)
    BY <1>0, NewlinesType, NewlinesNone
  <2>4. LineCount(text) - Newlines(text, 0, Len(text)) \in {0, 1}
    BY <2>3 DEF LineCount
  <2> QED BY <2>1, <2>2, <2>4
<1>6. CASE AskCurLine
  <2>1. text' = text /\ cur_line' = CurLine /\ cur_line_pos' = cur_pos /\ cuts = 0 /\ line_cnt_cached' = line_cnt_cached
    BY <1>6 DEF AskCurLine, text
  <2>2. CurLine = Newlines(text, 0, cur_pos)
    <3>1. CASE cur_line_pos < 0 \/ cur_line < 0
      BY <3>1 DEF CurLine
    <3>2. CASE cur_line_pos >= 0 /\ cur_line >= 0 /\ cur_pos >= cur_line_pos
      <4>1. cur_line = Newlines(text, 0, cur_line_pos)
        BY <2>1, <3>2 DEF CacheInv, CurLineExact, CurLineCached
      <4>2. Newlines(text, 0, cur_pos) = Newlines(text, 0, cur_line_pos) + Newlines(text, cur_line_pos, cur_pos)
        BY <1>0, <3>2, NewlinesAdd
      <4> QED BY <1>0, <3>2, <4>1, <4>2 DEF CurLine
    <3>3. CASE cur_line_pos >= 0 /\ cur_line >= 0 /\ cur_pos < cur_line_pos
      <4>1. cur_line = Newlines(text, 0, cur_line_pos)
        BY <2>1, <3>3 DEF CacheInv, CurLineExact, CurLineCached
      <4>2. Newlines(text, 0, cur_line_pos) = Newlines(text, 0, cur_pos) + Newlines(text, cur_pos, cur_line_pos)
        BY <1>0, <3>3, NewlinesAdd
      <4>3. Newlines(text, 0, cur_pos) \in Nat /\ Newlines(text, cur_pos, cur_line_pos) \in Nat
        BY <1>0, NewlinesType
      <4> QED BY <1>0, <3>3, <4>1, <4>2, <4>3 DEF CurLine
    <3> QED BY <1>0, <3>1, <3>2, <3>3
  <2> QED BY <1>0, <2>1, <2>2 DEF CurLineCached, CacheInv, LineCountNear
<1> QED BY <1>1, <1>2, <1>3, <1>4, <1>5, <1>6 DEF Next

(* So they are at all times.                                               *)
LEMMA CachesCorrect == Spec => []CacheInv
<1>1. TypeOK /\ CacheInv /\ [Next]_vars => CacheInv'
  BY CachesPreserved
<1> QED BY <1>1, CachesInitially, TypeCorrect, PTL DEF Spec

(* As long as every insertion fits, the incremental line number is the one *)
(* a full scan would count, through any history of edits before, across    *)
(* and after the cached position (gb_insert, gb_delete, scr_cur_line).      *)
THEOREM LineNumberExact == Spec => []CurLineExact
<1>1. CacheInv => CurLineExact
  BY DEF CacheInv
<1> QED BY <1>1, CachesCorrect, PTL

(* As long as every insertion fits, the cached line count is the number of *)
(* newlines or one more, however long the editing goes on (gb_insert,      *)
(* gb_delete, scr_line_count).                                              *)
THEOREM LineCountNeverDrifts == Spec => []LineCountNear
<1>1. CacheInv => LineCountNear
  BY DEF CacheInv
<1> QED BY <1>1, CachesCorrect, PTL
-----------------------------------------------------------------------------
(* The loop that moves the bytes (gb_memmove).                             *)

(* The direction test is what keeps the source intact ahead of the loop.   *)
LEMMA SourceFollows == LoopInv => SourceIntact
<1> SUFFICES ASSUME LoopInv PROVE SourceIntact
  OBVIOUS
<1> USE MemAssumption DEF LoopInv, CopyTypeOK, Addr, CopiedUpTo
<1>1. ASSUME pc = "up", len > 0 PROVE mem[src] = mem0[src]
  BY <1>1
<1>2. ASSUME pc = "down", len > 0 PROVE mem[src - 1] = mem0[src - 1]
  BY <1>2
<1> QED BY <1>1, <1>2 DEF SourceIntact

(* Before a call there is nothing copied.                                  *)
LEMMA LoopInitially == CopyInit => LoopInv
BY MemAssumption DEF CopyInit, LoopInv, CopyTypeOK, Addr, CopiedUpTo

(* Each byte copied leaves the others of the claim as they are.            *)
LEMMA LoopStep == LoopInv /\ [CopyNext]_copyVars => LoopInv'
<1> SUFFICES ASSUME LoopInv, [CopyNext]_copyVars PROVE LoopInv'
  OBVIOUS
<1> USE MemAssumption DEF LoopInv, CopyTypeOK, Addr, CopiedUpTo, call
<1>1. CASE Start
  BY <1>1 DEF Start
<1>2. CASE CopyUp
  <2>1. mem[src] = mem0[src]
    BY <1>2, SourceFollows DEF SourceIntact, CopyUp
  <2>2. CopyTypeOK'
    BY <1>2 DEF CopyUp
  <2>3. dst0 < src0 /\ (dst = dst0 + (len0 - len) /\ src = src0 + (len0 - len))'
    BY <1>2 DEF CopyUp
  <2>4. CopiedUpTo(0..(len0 - len - 1))'
    BY <1>2, <2>1 DEF CopyUp
  <2> QED BY <1>2, <2>2, <2>3, <2>4 DEF CopyUp
<1>3. CASE CopyDown
  <2>1. mem[src - 1] = mem0[src - 1]
    BY <1>3, SourceFollows DEF SourceIntact, CopyDown
  <2>2. CopyTypeOK'
    BY <1>3 DEF CopyDown
  <2>3. dst0 > src0 /\ (dst = dst0 + len /\ src = src0 + len)'
    BY <1>3 DEF CopyDown
  <2>4. CopiedUpTo(len..(len0 - 1))'
    BY <1>3, <2>1 DEF CopyDown
  <2> QED BY <1>3, <2>2, <2>3, <2>4 DEF CopyDown
<1>4. CASE Finish
  BY <1>4 DEF Finish
<1>5. CASE UNCHANGED copyVars
  BY <1>5 DEF copyVars
<1> QED BY <1>1, <1>2, <1>3, <1>4, <1>5 DEF CopyNext

(* The loop invariant holds throughout every call.                         *)
THEOREM LoopCorrect == CopySpec => []LoopInv
<1>1. CopyInit => LoopInv
  BY LoopInitially
<1>2. LoopInv /\ [CopyNext]_copyVars => LoopInv'
  BY LoopStep
<1> QED BY <1>1, <1>2, PTL DEF CopySpec

(* Whatever the overlap, a finished call has moved exactly the bytes asked *)
(* for.                                                                    *)
THEOREM MoveCorrect == CopySpec => []Moved
<1>1. LoopInv => Moved
  BY DEF LoopInv, Moved
<1> QED BY <1>1, LoopCorrect, PTL

(* No step reads a byte that an earlier step has overwritten.              *)
THEOREM SourceNeverClobbered == CopySpec => []SourceIntact
BY SourceFollows, LoopCorrect, PTL

(* What Memmove of the gap buffer takes for one step is what the loop does *)
(* byte by byte, whatever it is given.                                     *)
THEOREM LoopIsMemmove == CopySpec => [](pc = "done" => mem = Memmove(mem0, dst0, src0, len0))
<1>1. LoopInv => (pc = "done" => mem = Memmove(mem0, dst0, src0, len0))
  <2> SUFFICES ASSUME LoopInv, pc = "done" PROVE mem = Memmove(mem0, dst0, src0, len0)
    OBVIOUS
  <2>1. mem \in [Addr -> Byte] /\ mem0 \in [Addr -> Byte] /\ len0 \in 0..MemSize
        /\ dst0 \in Nat /\ src0 \in Nat /\ CopiedUpTo(0..(len0 - 1))
    BY MemAssumption DEF LoopInv, CopyTypeOK
  <2>2. ASSUME NEW k \in Addr PROVE mem[k] = Memmove(mem0, dst0, src0, len0)[k]
    BY <2>1, MemAssumption DEF Memmove, CopiedUpTo, Addr
  <2> QED BY <2>1, <2>2 DEF Memmove
<1> QED BY <1>1, LoopCorrect, PTL
=============================================================================
