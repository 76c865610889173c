------------------------- MODULE EditCommandsProofs -------------------------
(***************************************************************************)
(* What the editing commands keep, for every set of users, every text and  *)
(* every size of buffer and records.                                       *)
(***************************************************************************)
EXTENDS EditCommands, CommandsProofs

-----------------------------------------------------------------------------
(* The fields of the editor.                                               *)

\* If lines are counted, then no fewer than there are newlines.
Reckoned(t, n) == n > 0 => n >= Newlines(t)
Editing(C) == {e \in Editors(C) : Reckoned(e.text, e.line_cnt)}

\* g is e with these fields; the mode and the dot record are e's.
Becomes(C, e, g, text, pos, undo, modified) ==
    /\ g \in Editing(C)
    /\ g.text = text /\ g.cur_pos = pos /\ g.undo = undo /\ g.modified = modified
    /\ g.mode = e.mode /\ g.ins = e.ins /\ g.dot = e.dot

(* What an editor is made of.                                              *)
LEMMA EditorHas ==
    ASSUME NEW C, NEW e \in Editing(C)
    PROVE  /\ e.text \in Texts(C, Capacity)
           /\ e.line_cnt \in Int /\ e.cur_pos \in Nat /\ e.cur_vrow \in Int
           /\ e.mode \in Modes /\ e.ins \in InsertCmds \cup {"c", None}
           /\ e.modified \in BOOLEAN
           /\ e.undo \in UndoRecords(C) /\ e.yank \in YankRecords(C)
           /\ e.dot \in DotRecords(C)
           /\ Reckoned(e.text, e.line_cnt)
BY DEF Editing, Editors

\* g is e with another text, which is t.
TextIs(C, e, g, t) == Becomes(C, e, g, t, e.cur_pos, e.undo, e.modified)

(* Changing the text and its caches.                                       *)
LEMMA TextChanged ==
    ASSUME NEW C, NEW e \in Editing(C), NEW n \in Int, NEW v \in Int, NEW t \in Texts(C, Capacity),
           Reckoned(t, n), NEW g, g = [e EXCEPT !.line_cnt = n, !.cur_vrow = v, !.text = t]
    PROVE  TextIs(C, e, g, t)
<1>1. g \in Editing(C)
  BY DEF Editing, Editors
<1>2. /\ g.text = t /\ g.cur_pos = e.cur_pos /\ g.undo = e.undo /\ g.modified = e.modified
      /\ g.mode = e.mode /\ g.ins = e.ins /\ g.dot = e.dot
  BY DEF Editing, Editors
<1> QED BY <1>1, <1>2 DEF TextIs, Becomes

\* The text with s put in at p, as far as there is room.
Room(t, s) == First(s, Capacity - Len(t))
Inserted(t, p, s) == First(t, p) \o Room(t, s) \o From(t, p)

(* It is a text, and longer by what was put in.                            *)
LEMMA InsertedIs ==
    ASSUME NEW C, NEW t \in Texts(C, Capacity), NEW p \in Nat, NEW s \in Seq(C)
    PROVE  /\ Inserted(t, p, s) \in Texts(C, Capacity)
           /\ Room(t, s) \in Seq(C)
           /\ Len(t) + Len(s) <= Capacity => Room(t, s) = s
           /\ Len(t) + Len(s) > Capacity => Len(t) + Len(Room(t, s)) = Capacity
           /\ Len(Inserted(t, p, s)) = Len(t) + Len(Room(t, s))
<1>1. t \in Seq(C) /\ Len(t) \in Nat /\ Len(t) <= Capacity /\ Capacity \in Nat /\ Len(s) \in Nat
  BY LimitsAssumption DEF Texts
<1>2. Capacity - Len(t) \in Nat
  BY <1>1
<1>3. /\ Room(t, s) \in Seq(C)
      /\ Room(t, s) = SubSeq(s, 1, IF Capacity - Len(t) <= Len(s) THEN Capacity - Len(t) ELSE Len(s))
      /\ Len(Room(t, s)) = IF Capacity - Len(t) <= Len(s) THEN Capacity - Len(t) ELSE Len(s)
  BY <1>2, FirstIs DEF Room
<1>4. /\ Len(t) + Len(s) <= Capacity => Room(t, s) = s
      /\ Len(t) + Len(s) > Capacity => Len(t) + Len(Room(t, s)) = Capacity
      /\ Len(t) + Len(Room(t, s)) <= Capacity
  BY <1>1, <1>2, <1>3
<1> HIDE DEF Room
<1>5. /\ Inserted(t, p, s) \in Seq(C)
      /\ Len(Inserted(t, p, s)) = Len(First(t, p)) + Len(Room(t, s)) + Len(From(t, p))
  <2>1. t \in Seq(C) /\ Room(t, s) \in Seq(C)
    BY <1>1, <1>3
  <2> DEFINE r == Room(t, s)
             x == First(t, p) \o r \o From(t, p)
  <2>2. r \in Seq(C)
    BY <2>1
  <2> HIDE DEF r
  <2>3. x \in Seq(C) /\ Len(x) = Len(First(t, p)) + Len(r) + Len(From(t, p))
    BY ZenonT(30), <2>1, <2>2, Spliced
  <2>4. Inserted(t, p, s) = x
    BY DEF Inserted, r
  <2> HIDE DEF x
  <2> QED BY <2>3, <2>4 DEF r
<1>6. Len(First(t, p)) = IF p <= Len(t) THEN p ELSE Len(t)
  BY <1>1, FirstIs
<1>7. Len(From(t, p)) = IF p <= Len(t) THEN Len(t) - p ELSE 0
  BY <1>1, FromIs
<1>8. Len(Room(t, s)) \in Nat
  BY <1>3
<1>9. Len(Inserted(t, p, s)) = Len(t) + Len(Room(t, s))
  BY <1>1, <1>5, <1>6, <1>7, <1>8
<1>10. Len(Inserted(t, p, s)) <= Capacity
  BY <1>4, <1>9
<1> QED BY <1>3, <1>4, <1>5, <1>9, <1>10 DEF Texts

\* The text without n characters from p on.
Cut(t, p, n) == First(t, p) \o From(t, p + n)

(* It is a text, and shorter by what there was of them.                    *)
LEMMA CutIs ==
    ASSUME NEW C, NEW m, NEW t \in Texts(C, m), NEW p \in Nat, NEW n \in Nat, m \in Nat
    PROVE  /\ Cut(t, p, n) \in Texts(C, m)
           /\ Len(Cut(t, p, n)) <= Len(t)
           /\ p <= Len(t) => p <= Len(Cut(t, p, n))
           /\ p + n <= Len(t) => Len(Cut(t, p, n)) = Len(t) - n
           /\ p >= Len(t) => Cut(t, p, n) = t
<1>1. t \in Seq(C) /\ Len(t) \in Nat /\ Len(t) <= m
  BY DEF Texts
<1>2. p + n \in Nat
  OBVIOUS
<1>3. Len(First(t, p)) = IF p <= Len(t) THEN p ELSE Len(t)
  BY <1>1, FirstIs
<1>4. Len(From(t, p + n)) = IF p + n <= Len(t) THEN Len(t) - (p + n) ELSE 0
  BY <1>1, <1>2, FromIs
<1>5. Cut(t, p, n) \in Seq(C) /\ Len(Cut(t, p, n)) = Len(First(t, p)) + Len(From(t, p + n))
  <2>1. First(t, p) \in Seq(C) /\ From(t, p + n) \in Seq(C)
    BY <1>1, FirstIs, FromIs, <1>2
  <2> QED BY <2>1, Concat DEF Cut
<1>6. /\ Len(Cut(t, p, n)) <= Len(t) /\ (p <= Len(t) => p <= Len(Cut(t, p, n)))
      /\ (p + n <= Len(t) => Len(Cut(t, p, n)) = Len(t) - n)
  <2>1. Len(t) \in Nat /\ Len(Cut(t, p, n)) = Len(First(t, p)) + Len(From(t, p + n))
    BY <1>1, <1>5
  <2>2. CASE p + n <= Len(t)
    <3>1. Len(First(t, p)) = p /\ Len(From(t, p + n)) = Len(t) - (p + n)
      BY <2>1, <2>2, <1>3, <1>4
    <3> QED BY <3>1, <2>1, <2>2
  <2>3. CASE p <= Len(t) /\ ~ (p + n <= Len(t))
    <3>1. Len(First(t, p)) = p /\ Len(From(t, p + n)) = 0
      BY <2>3, <1>3, <1>4
    <3> QED BY <3>1, <2>1, <2>3
  <2>4. CASE ~ (p <= Len(t))
    <3>1. ~ (p + n <= Len(t))
      BY <2>1, <2>4
    <3>2. Len(First(t, p)) = Len(t) /\ Len(From(t, p + n)) = 0
      BY <3>1, <2>4, <1>3, <1>4
    <3> QED BY <3>1, <3>2, <2>1, <2>4
  <2> QED BY <2>2, <2>3, <2>4
<1>7. ASSUME p >= Len(t) PROVE Cut(t, p, n) = t
  <2>1. First(t, p) = SubSeq(t, 1, Len(t))
    BY <1>7, <1>1, FirstIs
  <2>2. SubSeq(t, 1, Len(t)) = t
    BY <1>1
  <2>3. From(t, p + n) = << >>
    BY <1>7, <1>1 DEF From
  <2>4. t \o << >> = t
    BY <1>1
  <2> QED BY <2>1, <2>2, <2>3, <2>4 DEF Cut
<1>8. Cut(t, p, n) \in Texts(C, m)
  BY <1>1, <1>5, <1>6 DEF Texts
<1> QED BY <1>6, <1>7, <1>8

(* It has no more newlines than both.                                      *)
LEMMA NewlinesInserted ==
    ASSUME NEW C, NEW t \in Texts(C, Capacity), NEW p \in Nat, NEW s \in Seq(C)
    PROVE  /\ Newlines(Inserted(t, p, s)) <= Newlines(t) + Newlines(s)
           /\ Newlines(Inserted(t, p, s)) \in Nat /\ Newlines(t) \in Nat /\ Newlines(s) \in Nat
<1> DEFINE a == First(t, p)
           b == Room(t, s)
           c == From(t, p)
<1>1. t \in Seq(C) /\ Len(t) \in Nat /\ Capacity - Len(t) \in Nat
  BY LimitsAssumption DEF Texts
<1>2. a \in Seq(C) /\ b \in Seq(C) /\ c \in Seq(C)
  BY <1>1, InsertedIs, FirstIs, FromIs
<1>3. Newlines(a) + Newlines(c) = Newlines(t)
  BY <1>1, NewlinesSplit
<1>4. Newlines(b) <= Newlines(s)
  <2> DEFINE k == Capacity - Len(t)
  <2> HIDE DEF k
  <2>1. /\ Newlines(First(s, k)) + Newlines(From(s, k)) = Newlines(s)
        /\ Newlines(First(s, k)) \in Nat /\ Newlines(From(s, k)) \in Nat
    BY <1>1, NewlinesSplit DEF k
  <2>2. Newlines(First(s, k)) <= Newlines(s)
    BY <2>1
  <2> QED BY <2>2 DEF k, Room
<1>5. Inserted(t, p, s) = a \o b \o c
  BY DEF Inserted
<1> HIDE DEF a, b, c
<1>6. Newlines(a \o b) = Newlines(a) + Newlines(b) /\ a \o b \in Seq(C)
  BY <1>2, NewlinesJoin, Concat
<1>7. Newlines(a \o b \o c) = Newlines(a \o b) + Newlines(c)
  BY <1>2, <1>6, NewlinesJoin
<1>8. /\ Newlines(a) \in Nat /\ Newlines(b) \in Nat /\ Newlines(c) \in Nat
      /\ Newlines(t) \in Nat /\ Newlines(s) \in Nat
  BY <1>1, <1>2, NewlinesIs
<1> QED BY <1>3, <1>4, <1>5, <1>6, <1>7, <1>8

(* gb_insert.                                                              *)
LEMMA GbInsertIs ==
    ASSUME NEW C, NEW e \in Editing(C), NEW p \in Nat, NEW s \in Seq(C)
    PROVE  TextIs(C, e, GbInsert(e, p, s), Inserted(e.text, p, s))
<1> DEFINE n == Adjusted(e, Newlines(s))
           v == RowAfter(e, p, s)
<1>1. e.text \in Texts(C, Capacity) /\ e.line_cnt \in Int /\ e.cur_vrow \in Int
  BY EditorHas
<1>2. n \in Int /\ v \in Int
  <2>1. Newlines(s) \in Nat
    BY NewlinesIs
  <2> QED BY <2>1, <1>1 DEF Adjusted, RowAfter
<1>3. GbInsert(e, p, s) = [e EXCEPT !.line_cnt = n, !.cur_vrow = v, !.text = Inserted(e.text, p, s)]
  BY DEF GbInsert, Inserted, Room
<1>4. Inserted(e.text, p, s) \in Texts(C, Capacity)
  BY <1>1, InsertedIs
<1>5. Reckoned(Inserted(e.text, p, s), n)
  <2> DEFINE t == e.text
             l == e.line_cnt
             x == Inserted(t, p, s)
             a == Newlines(t)
             b == Newlines(x)
             c == Newlines(s)
  <2>1. t \in Texts(C, Capacity) /\ Reckoned(t, l) /\ l \in Int /\ n = IF l > 0 THEN l + c ELSE l
    BY <1>1, EditorHas DEF Adjusted
  <2> HIDE DEF t, l, n
  <2>2. b <= a + c /\ a \in Nat /\ b \in Nat /\ c \in Nat
    <3>1. t \in Seq(C)
      BY <2>1 DEF Texts
    <3> QED BY <2>1, <3>1, NewlinesInserted
  <2> HIDE DEF x
  <2>3. l > 0 => l >= a
    BY <2>1 DEF Reckoned
  <2> HIDE DEF a, b, c
  <2>4. n > 0 => n >= b
    BY <2>1, <2>2, <2>3
  <2>5. Reckoned(x, n)
    BY <2>4 DEF Reckoned, b
  <2> QED BY <2>5 DEF x, t
<1> HIDE DEF n, v
<1> QED BY <1>2, <1>3, <1>4, <1>5, TextChanged

(* Cutting takes those away that are in what is cut.                       *)
LEMMA NewlinesCut ==
    ASSUME NEW C, NEW t \in Seq(C), NEW p \in Nat, NEW n \in Nat
    PROVE  /\ Newlines(Cut(t, p, n)) = Newlines(t) - Newlines(First(From(t, p), n))
           /\ Newlines(Cut(t, p, n)) \in Nat /\ Newlines(First(From(t, p), n)) \in Nat
<1> DEFINE a == First(t, p)
           b == From(t, p)
           c == First(b, n)
           d == From(b, n)
<1>1. a \in Seq(C) /\ b \in Seq(C)
  BY FirstIs, FromIs
<1>2. Newlines(a) + Newlines(b) = Newlines(t) /\ Newlines(a) \in Nat /\ Newlines(b) \in Nat
  BY NewlinesSplit
<1>3. d = From(t, p + n)
  BY FromFrom
<1> HIDE DEF a, b
<1>4. Newlines(c) + Newlines(d) = Newlines(b) /\ Newlines(c) \in Nat /\ Newlines(d) \in Nat
  BY <1>1, NewlinesSplit
<1>5. d \in Seq(C)
  BY <1>1, FromIs
<1>6. Cut(t, p, n) = a \o d
  BY <1>3 DEF Cut, a
<1> HIDE DEF c, d
<1>7. Newlines(a \o d) = Newlines(a) + Newlines(d)
  BY <1>1, <1>5, NewlinesJoin
<1>8. Newlines(a \o d) = Newlines(t) - Newlines(c) /\ Newlines(a \o d) \in Nat
  BY <1>2, <1>4, <1>7
<1> QED BY <1>4, <1>6, <1>8 DEF c, b

(* gb_delete.                                                              *)
LEMMA GbDeleteIs ==
    ASSUME NEW C, NEW e \in Editing(C), NEW p \in Nat, NEW n \in Nat
    PROVE  TextIs(C, e, GbDelete(e, p, n), Cut(e.text, p, n))
<1> DEFINE gone == First(From(e.text, p), n)
           m == Adjusted(e, -Newlines(gone))
           v == RowAfter(e, p, gone)
<1>1. e.text \in Texts(C, Capacity) /\ e.line_cnt \in Int /\ e.cur_vrow \in Int
  BY EditorHas
<1>2. m \in Int /\ v \in Int
  <2>1. gone \in Seq(C)
    <3>1. e.text \in Seq(C)
      BY <1>1 DEF Texts
    <3> QED BY <3>1, FirstIs, FromIs
  <2> HIDE DEF gone
  <2>2. Newlines(gone) \in Nat
    BY <2>1, NewlinesIs
  <2>3. -Newlines(gone) \in Int
    BY <2>2
  <2> QED BY <2>3, <1>1 DEF Adjusted, RowAfter
<1>3. Cut(e.text, p, n) \in Texts(C, Capacity) /\ (p >= Len(e.text) => Cut(e.text, p, n) = e.text)
  BY <1>1, CutIs, LimitsAssumption
<1>4. CASE p >= Len(e.text)
  <2>1. GbDelete(e, p, n) = e
    BY <1>4 DEF GbDelete
  <2> QED BY <1>3, <1>4, <2>1 DEF TextIs, Becomes
<1>5. CASE ~ (p >= Len(e.text))
  <2>1. GbDelete(e, p, n) = [e EXCEPT !.line_cnt = m, !.cur_vrow = v, !.text = Cut(e.text, p, n)]
    BY <1>5 DEF GbDelete, Cut
  <2>2. Reckoned(Cut(e.text, p, n), m)
    <3> DEFINE t == e.text
               l == e.line_cnt
               x == Cut(t, p, n)
               a == Newlines(t)
               b == Newlines(x)
               c == Newlines(First(From(t, p), n))
    <3>1. t \in Seq(C) /\ Reckoned(t, l) /\ l \in Int /\ m = IF l > 0 THEN l + (-c) ELSE l
      BY <1>1, EditorHas DEF Adjusted, Texts
    <3> HIDE DEF t, l, m
    <3>2. b = a - c /\ a \in Nat /\ b \in Nat /\ c \in Nat
      BY <3>1, NewlinesCut, NewlinesIs
    <3> HIDE DEF x
    <3>3. l > 0 => l >= a
      BY <3>1 DEF Reckoned
    <3> HIDE DEF a, b, c
    <3>4. m > 0 => m >= b
      BY <3>1, <3>2, <3>3
    <3>5. Reckoned(x, m)
      BY <3>4 DEF Reckoned, b
    <3> QED BY <3>5 DEF x, t
  <2> HIDE DEF m, v
  <2> QED BY <2>1, <2>2, <1>2, <1>3, TextChanged
<1> QED BY <1>4, <1>5

(* The lines of a text are no fewer than its newlines.                     *)
LEMMA LinesReckoned ==
    ASSUME NEW C, NEW t \in Seq(C)
    PROVE  LineCount(t) >= Newlines(t)
<1> DEFINE k == Newlines(t)
<1>1. k \in Nat
  BY NewlinesIs
<1>2. t = << >> => k = 0
  <2> SUFFICES ASSUME t = << >> PROVE k = 0
    OBVIOUS
  <2>1. {i \in DOMAIN t : t[i] = NL} = {}
    OBVIOUS
  <2> QED BY <2>1, FS_EmptySet DEF Newlines
<1>3. t = << >> => LineCount(t) = 1
  BY DEF LineCount
<1>4. t # << >> => LineCount(t) = k + (IF Last(t) = NL THEN 0 ELSE 1)
  BY DEF LineCount
<1> HIDE DEF k
<1> QED BY <1>1, <1>2, <1>3, <1>4 DEF k

(* Counting the lines.                                                     *)
LEMMA CountedIs ==
    ASSUME NEW C, NEW e \in Editing(C)
    PROVE  TextIs(C, e, Counted(e), e.text)
<1>1. CASE e.line_cnt > 0
  BY <1>1 DEF Counted, TextIs, Becomes
<1>2. CASE ~ (e.line_cnt > 0)
  <2> DEFINE n == LineCount(e.text)
             g == [e EXCEPT !.line_cnt = n]
  <2>1. Counted(e) = g
    BY <1>2 DEF Counted
  <2>2. n \in Int
    <3>1. e.text \in Seq(C)
      BY EditorHas DEF Texts
    <3>2. n \in Nat
      BY <3>1, NewlinesIs
    <3> QED BY <3>2
  <2>5. Reckoned(e.text, n)
    <3>1. e.text \in Seq(C)
      BY EditorHas DEF Texts
    <3>2. n >= Newlines(e.text)
      BY <3>1, LinesReckoned
    <3> QED BY <3>2 DEF Reckoned
  <2> HIDE DEF n
  <2>3. g \in Editing(C)
    BY <2>2, <2>5 DEF Editing, Editors
  <2>4. /\ g.text = e.text /\ g.cur_pos = e.cur_pos /\ g.undo = e.undo
        /\ g.modified = e.modified /\ g.mode = e.mode /\ g.ins = e.ins /\ g.dot = e.dot
    BY DEF Editing, Editors
  <2> HIDE DEF g
  <2> QED BY <2>1, <2>3, <2>4 DEF TextIs, Becomes
<1> QED BY <1>1, <1>2

\* The flag of a changed buffer.
Changed == TRUE

(* Setting the flag, and the cursor.                                       *)
LEMMA ModifiedIs ==
    ASSUME NEW C, NEW e \in Editing(C)
    PROVE  Becomes(C, e, Modified(e), e.text, e.cur_pos, e.undo, Changed)
<1> DEFINE g == [e EXCEPT !.modified = TRUE]
<1>1. g \in Editing(C)
  BY DEF Editing, Editors
<1>2. /\ g.text = e.text /\ g.cur_pos = e.cur_pos /\ g.undo = e.undo /\ g.modified = Changed
      /\ g.mode = e.mode /\ g.ins = e.ins /\ g.dot = e.dot
  BY DEF Editing, Editors, Changed
<1> QED BY <1>1, <1>2 DEF Becomes, Modified

(* Moving the cursor.                                                      *)
LEMMA CursorAtIs ==
    ASSUME NEW C, NEW e \in Editing(C), NEW p \in Nat
    PROVE  Becomes(C, e, CursorAt(e, p), e.text, p, e.undo, e.modified)
<1> DEFINE g == [e EXCEPT !.cur_pos = p]
<1>1. g \in Editing(C)
  BY DEF Editing, Editors
<1>2. /\ g.text = e.text /\ g.cur_pos = p /\ g.undo = e.undo /\ g.modified = e.modified
      /\ g.mode = e.mode /\ g.ins = e.ins /\ g.dot = e.dot
  BY DEF Editing, Editors
<1> QED BY <1>1, <1>2 DEF Becomes, CursorAt

(* Forgetting the cached row.                                              *)
LEMMA RowIs ==
    ASSUME NEW C, NEW e \in Editing(C)
    PROVE  TextIs(C, e, [e EXCEPT !.cur_vrow = -1], e.text)
<1> DEFINE g == [e EXCEPT !.cur_vrow = -1]
<1>1. g \in Editing(C)
  <2>1. -1 \in Int
    OBVIOUS
  <2> QED BY <2>1 DEF Editing, Editors
<1>2. /\ g.text = e.text /\ g.cur_pos = e.cur_pos /\ g.undo = e.undo /\ g.modified = e.modified
      /\ g.mode = e.mode /\ g.ins = e.ins /\ g.dot = e.dot
  BY DEF Editing, Editors
<1> QED BY <1>1, <1>2 DEF TextIs, Becomes

(* Another undo record.                                                    *)
LEMMA UndoChanged ==
    ASSUME NEW C, NEW e \in Editing(C), NEW u \in UndoRecords(C), NEW g, g = [e EXCEPT !.undo = u]
    PROVE  Becomes(C, e, g, e.text, e.cur_pos, u, e.modified)
<1>1. g \in Editing(C)
  BY DEF Editing, Editors
<1>2. /\ g.text = e.text /\ g.cur_pos = e.cur_pos /\ g.undo = u /\ g.modified = e.modified
      /\ g.mode = e.mode /\ g.ins = e.ins /\ g.dot = e.dot
  BY DEF Editing, Editors
<1> QED BY <1>1, <1>2 DEF Becomes

\* The records that are made of a deletion and of an insertion.
Deletion(t, modified, p, n) ==
    [type |-> "delete", pos |-> p, len |-> n, was_clean |-> ~modified,
     text |-> Copied(t, p, Min({n, UndoMax}), Nul)]
Insertion(modified, p, n) ==
    [type |-> "insert", pos |-> p, len |-> n, was_clean |-> ~modified, text |-> << >>]

\* The characters are those of a user.
AlphabetOK(C) ==
    /\ NL \in C /\ SP \in C /\ Nul \in C /\ Absent \in C
    /\ \A c \in C : c # NL => Toggled[c] \in C

(* They are records.                                                       *)
LEMMA RecordTypes ==
    ASSUME NEW C, AlphabetOK(C), NEW t \in Seq(C), NEW m \in BOOLEAN, NEW p \in Nat, NEW n \in Nat
    PROVE  Deletion(t, m, p, n) \in UndoRecords(C) /\ Insertion(m, p, n) \in UndoRecords(C)
<1>1. Copied(t, p, Min({n, UndoMax}), Nul) \in Texts(C, UndoMax)
  <2>1. Min({n, UndoMax}) = IF n <= UndoMax THEN n ELSE UndoMax
    BY OfTwo, LimitsAssumption
  <2>2. Min({n, UndoMax}) \in Nat /\ Min({n, UndoMax}) <= UndoMax
    BY <2>1, LimitsAssumption
  <2>3. Nul \in C
    BY DEF AlphabetOK
  <2> DEFINE k == Min({n, UndoMax})
  <2> HIDE DEF k
  <2>4. k \in Nat => Copied(t, p, k, Nul) \in Seq(C) /\ Len(Copied(t, p, k, Nul)) = k
    BY <2>3, CopiedIs
  <2> QED BY <2>2, <2>4 DEF Texts, k
<1>2. << >> \in Texts(C, UndoMax)
  BY LimitsAssumption DEF Texts
<1> DEFINE x == Copied(t, p, Min({n, UndoMax}), Nul)
           T == Texts(C, UndoMax)
<1> HIDE DEF x, T
<1>3. [type |-> "delete", pos |-> p, len |-> n, was_clean |-> ~m, text |-> x]
        \in [type : {None, "delete", "insert"}, pos : Nat, len : Nat, was_clean : BOOLEAN, text : T]
  BY <1>1 DEF x, T
<1>4. [type |-> "insert", pos |-> p, len |-> n, was_clean |-> ~m, text |-> << >>]
        \in [type : {None, "delete", "insert"}, pos : Nat, len : Nat, was_clean : BOOLEAN, text : T]
  BY <1>2 DEF T
<1> QED BY <1>3, <1>4 DEF Deletion, Insertion, UndoRecords, x, T

(* undo_save_delete.                                                       *)
LEMMA UndoSaveDeleteIs ==
    ASSUME NEW C, AlphabetOK(C), NEW e \in Editing(C), NEW p \in Nat, NEW n \in Nat
    PROVE  Becomes(C, e, UndoSaveDelete(e, p, n), e.text, e.cur_pos,
                   Deletion(e.text, e.modified, p, n), e.modified)
<1> DEFINE u == Deletion(e.text, e.modified, p, n)
<1>1. u \in UndoRecords(C)
  <2>1. e.text \in Seq(C) /\ e.modified \in BOOLEAN
    BY EditorHas DEF Texts
  <2> QED BY <2>1, RecordTypes
<1>2. UndoSaveDelete(e, p, n) = [e EXCEPT !.undo = u]
  BY DEF UndoSaveDelete, Deletion
<1> HIDE DEF u
<1>3. Becomes(C, e, UndoSaveDelete(e, p, n), e.text, e.cur_pos, u, e.modified)
  BY <1>1, <1>2, UndoChanged
<1> QED BY <1>3 DEF u

(* undo_save_insert.                                                       *)
LEMMA UndoSaveInsertIs ==
    ASSUME NEW C, AlphabetOK(C), NEW e \in Editing(C), NEW p \in Nat, NEW n \in Nat
    PROVE  Becomes(C, e, UndoSaveInsert(e, p, n), e.text, e.cur_pos,
                   Insertion(e.modified, p, n), e.modified)
<1> DEFINE u == Insertion(e.modified, p, n)
<1>1. u \in UndoRecords(C)
  <2>1. << >> \in Seq(C) /\ e.modified \in BOOLEAN
    BY EditorHas
  <2> QED BY <2>1, RecordTypes
<1>2. UndoSaveInsert(e, p, n) = [e EXCEPT !.undo = u]
  BY DEF UndoSaveInsert, Insertion
<1> HIDE DEF u
<1>3. Becomes(C, e, UndoSaveInsert(e, p, n), e.text, e.cur_pos, u, e.modified)
  BY <1>1, <1>2, UndoChanged
<1> QED BY <1>3 DEF u

\* g is e beginning to insert, with these fields.
Opens(C, e, g, c, text, pos, undo, modified) ==
    /\ g \in Editing(C)
    /\ g.text = text /\ g.cur_pos = pos /\ g.undo = undo /\ g.modified = modified
    /\ g.mode = "insert" /\ g.ins = c /\ g.dot = e.dot

(* Beginning to insert.                                                    *)
LEMMA InsertingIs ==
    ASSUME NEW C, NEW e \in Editing(C), NEW c \in InsertCmds \cup {"c", None}
    PROVE  Opens(C, e, Inserting(e, c), c, e.text, e.cur_pos, e.undo, e.modified)
<1> DEFINE g == [e EXCEPT !.mode = "insert", !.ins = c]
<1>1. g \in Editing(C)
  <2>1. "insert" \in Modes
    BY DEF Modes
  <2> QED BY <2>1 DEF Editing, Editors
<1>2. /\ g.text = e.text /\ g.cur_pos = e.cur_pos /\ g.undo = e.undo /\ g.modified = e.modified
      /\ g.mode = "insert" /\ g.ins = c /\ g.dot = e.dot
  BY DEF Editing, Editors
<1> QED BY <1>1, <1>2 DEF Opens, Inserting

-----------------------------------------------------------------------------
(* Operators.                                                              *)

\* f is e but for the cursor, the yank buffer and the caches.
Like(C, e, f) ==
    /\ f \in Editing(C)
    /\ f.text = e.text /\ f.undo = e.undo /\ f.modified = e.modified
    /\ f.mode = e.mode /\ f.ins = e.ins /\ f.dot = e.dot

\* Only the cursor has moved, within the text.
Moved(C, e, g) ==
    \E p \in 0..Len(e.text) : Becomes(C, e, g, e.text, p, e.undo, e.modified)

\* n characters from p on are deleted, and recorded.  More than there are
\* only if "more" allows it.
Deleted(C, e, g, more) ==
    \E p \in 0..Len(e.text), n \in Nat \ {0}, q \in Nat :
        /\ more \/ p + n <= Len(e.text)
        /\ q <= Len(Cut(e.text, p, n))
        /\ Becomes(C, e, g, Cut(e.text, p, n), q, Deletion(e.text, e.modified, p, n), Changed)

\* They are deleted, and an insertion begins.
Emptied(C, e, g) ==
    \E p \in 0..Len(e.text), n \in Nat \ {0}, q \in Nat :
        /\ q <= Len(Cut(e.text, p, n))
        /\ Opens(C, e, g, e.ins, Cut(e.text, p, n), q, Insertion(Changed, q, 0), Changed)

(* What becomes of f becomes of e.                                         *)
LEMMA OfLike ==
    ASSUME NEW C, NEW e, NEW f, Like(C, e, f), NEW g, NEW more
    PROVE  /\ Moved(C, f, g) => Moved(C, e, g)
           /\ Deleted(C, f, g, more) => Deleted(C, e, g, more)
           /\ Emptied(C, f, g) => Emptied(C, e, g)
<1>1. /\ f.text = e.text /\ f.undo = e.undo /\ f.modified = e.modified
      /\ f.mode = e.mode /\ f.ins = e.ins /\ f.dot = e.dot
  BY DEF Like
<1>2. \A text, pos, undo, modified :
        Becomes(C, f, g, text, pos, undo, modified) => Becomes(C, e, g, text, pos, undo, modified)
  BY <1>1 DEF Becomes
<1>3. \A c, text, pos, undo, modified :
        Opens(C, f, g, c, text, pos, undo, modified) => Opens(C, e, g, c, text, pos, undo, modified)
  BY <1>1 DEF Opens
<1>4. Moved(C, f, g) => Moved(C, e, g)
  BY <1>1, <1>2 DEF Moved
<1>5. Deleted(C, f, g, more) => Deleted(C, e, g, more)
  BY <1>1, <1>2 DEF Deleted
<1>6. Emptied(C, f, g) => Emptied(C, e, g)
  BY <1>1, <1>3 DEF Emptied
<1> QED BY <1>4, <1>5, <1>6

(* What only moves the cursor makes a like editor.                         *)
LEMMA MovedIsLike ==
    ASSUME NEW C, NEW e, NEW g, NEW p
    PROVE  /\ Becomes(C, e, g, e.text, p, e.undo, e.modified) => Like(C, e, g)
           /\ Moved(C, e, g) => Like(C, e, g)
BY DEF Becomes, Moved, Like

(* Counting the lines, and moving the cursor, makes one.                   *)
LEMMA LikeIs ==
    ASSUME NEW C, NEW e \in Editing(C), NEW p \in Nat
    PROVE  Like(C, e, Counted(e)) /\ Like(C, e, CursorAt(e, p))
BY CountedIs, CursorAtIs, MovedIsLike DEF TextIs

(* Yanking.                                                                *)
LEMMA YankIs ==
    ASSUME NEW C, AlphabetOK(C), NEW e \in Editing(C), NEW from \in Nat, NEW len \in Nat,
           NEW line \in BOOLEAN, NEW g,
           g = [e EXCEPT !.yank = [text |-> Copied(e.text, from, Min({len, YankMax - 1}), Nul),
                                   line |-> line]]
    PROVE  Becomes(C, e, g, e.text, e.cur_pos, e.undo, e.modified)
<1> DEFINE k == Min({len, YankMax - 1})
           y == [text |-> Copied(e.text, from, k, Nul), line |-> line]
<1>1. k \in Nat /\ k <= YankMax - 1
  <2>1. YankMax - 1 \in Nat
    BY LimitsAssumption
  <2>2. Min({len, YankMax - 1}) = IF len <= YankMax - 1 THEN len ELSE YankMax - 1
    BY <2>1, OfTwo
  <2> QED BY <2>1, <2>2
<1> HIDE DEF k
<1>2. Copied(e.text, from, k, Nul) \in Texts(C, YankMax - 1)
  <2>1. e.text \in Seq(C) /\ Nul \in C
    BY EditorHas DEF Texts, AlphabetOK
  <2>2. Copied(e.text, from, k, Nul) \in Seq(C) /\ Len(Copied(e.text, from, k, Nul)) = k
    BY <2>1, <1>1, CopiedIs
  <2> QED BY <2>2, <1>1 DEF Texts
<1>3. y \in YankRecords(C)
  BY <1>2 DEF YankRecords
<1>4. g = [e EXCEPT !.yank = y]
  BY DEF k
<1> HIDE DEF y
<1>5. g \in Editing(C)
  BY <1>3, <1>4 DEF Editing, Editors
<1>6. /\ g.text = e.text /\ g.cur_pos = e.cur_pos /\ g.undo = e.undo /\ g.modified = e.modified
      /\ g.mode = e.mode /\ g.ins = e.ins /\ g.dot = e.dot
  BY <1>4 DEF Editing, Editors
<1> QED BY <1>5, <1>6 DEF Becomes

(* What the fields are after a change.                                     *)
LEMMA FieldsAre ==
    ASSUME NEW C, NEW e, NEW f, NEW t, NEW p, NEW u, NEW m, Becomes(C, e, f, t, p, u, m)
    PROVE  /\ f \in Editing(C)
           /\ f.text = t /\ f.cur_pos = p /\ f.undo = u /\ f.modified = m
           /\ f.mode = e.mode /\ f.ins = e.ins /\ f.dot = e.dot
BY DEF Becomes

(* One change after another.                                               *)
LEMMA AfterThat ==
    ASSUME NEW C, NEW e, NEW f, NEW t, NEW p, NEW u, NEW m, Becomes(C, e, f, t, p, u, m),
           NEW g, NEW text, NEW pos, NEW undo, NEW modified,
           Becomes(C, f, g, text, pos, undo, modified)
    PROVE  Becomes(C, e, g, text, pos, undo, modified)
BY DEF Becomes

(* An insertion that begins after a change.                                *)
LEMMA OpensAfter ==
    ASSUME NEW C, NEW e, NEW f, NEW t, NEW p, NEW u, NEW m, Becomes(C, e, f, t, p, u, m),
           NEW g, NEW c, NEW text, NEW pos, NEW undo, NEW modified,
           Opens(C, f, g, c, text, pos, undo, modified)
    PROVE  Opens(C, e, g, c, text, pos, undo, modified)
BY DEF Becomes, Opens

(* Deleting what is recorded first.                                        *)
LEMMA RecordedDeletion ==
    ASSUME NEW C, AlphabetOK(C), NEW e \in Editing(C), NEW p \in Nat, NEW n \in Nat
    PROVE  Becomes(C, e, GbDelete(UndoSaveDelete(e, p, n), p, n), Cut(e.text, p, n),
                   e.cur_pos, Deletion(e.text, e.modified, p, n), e.modified)
<1> DEFINE a == UndoSaveDelete(e, p, n)
           b == GbDelete(a, p, n)
           u == Deletion(e.text, e.modified, p, n)
<1>1. Becomes(C, e, a, e.text, e.cur_pos, u, e.modified)
  BY UndoSaveDeleteIs
<1> HIDE DEF a, u
<1>2. a \in Editing(C) /\ a.text = e.text /\ a.cur_pos = e.cur_pos /\ a.undo = u /\ a.modified = e.modified
  BY <1>1, FieldsAre
<1>3. Becomes(C, a, b, Cut(a.text, p, n), a.cur_pos, a.undo, a.modified)
  BY <1>2, GbDeleteIs DEF TextIs
<1> HIDE DEF b
<1>4. Becomes(C, a, b, Cut(e.text, p, n), e.cur_pos, u, e.modified)
  BY <1>2, <1>3
<1>5. Becomes(C, e, b, Cut(e.text, p, n), e.cur_pos, u, e.modified)
  BY <1>4, <1>1, AfterThat
<1> QED BY <1>5 DEF a, b, u

(* Setting the flag, and putting characters in, after that.                *)
LEMMA FlagAfter ==
    ASSUME NEW C, NEW e, NEW f, NEW t, NEW p, NEW u, NEW m, Becomes(C, e, f, t, p, u, m)
    PROVE  /\ Becomes(C, e, Modified(f), t, p, u, Changed)
           /\ \A q \in Nat, s \in Seq(C) : Becomes(C, e, GbInsert(f, q, s), Inserted(t, q, s), p, u, m)
<1>1. f \in Editing(C) /\ f.text = t /\ f.cur_pos = p /\ f.undo = u /\ f.modified = m
  BY FieldsAre
<1> DEFINE a == Modified(f)
<1>2. Becomes(C, e, a, t, p, u, Changed)
  <2>1. Becomes(C, f, a, f.text, f.cur_pos, f.undo, Changed)
    BY <1>1, ModifiedIs
  <2> HIDE DEF a
  <2>2. Becomes(C, f, a, t, p, u, Changed)
    BY <1>1, <2>1
  <2> QED BY <2>2, AfterThat
<1>3. ASSUME NEW q \in Nat, NEW s \in Seq(C)
      PROVE  Becomes(C, e, GbInsert(f, q, s), Inserted(t, q, s), p, u, m)
  <2> DEFINE b == GbInsert(f, q, s)
  <2>1. Becomes(C, f, b, Inserted(f.text, q, s), f.cur_pos, f.undo, f.modified)
    BY <1>1, GbInsertIs DEF TextIs
  <2> HIDE DEF b
  <2>2. Becomes(C, f, b, Inserted(t, q, s), p, u, m)
    BY <1>1, <2>1
  <2>3. Becomes(C, e, b, Inserted(t, q, s), p, u, m)
    BY <2>2, AfterThat
  <2> QED BY <2>3 DEF b
<1> QED BY <1>2, <1>3

(* Moving the cursor, and counting the lines, after that.                  *)
LEMMA PlacedIs ==
    ASSUME NEW C, NEW e, NEW f, NEW t, NEW p, NEW u, NEW m, Becomes(C, e, f, t, p, u, m),
           NEW q \in Nat
    PROVE  /\ Becomes(C, e, Counted(f), t, p, u, m)
           /\ Becomes(C, e, CursorAt(f, q), t, q, u, m)
           /\ Becomes(C, e, Counted(CursorAt(f, q)), t, q, u, m)
<1>1. f \in Editing(C) /\ f.text = t /\ f.cur_pos = p /\ f.undo = u /\ f.modified = m
  BY FieldsAre
<1> DEFINE a == Counted(f)
           b == CursorAt(f, q)
           c == Counted(b)
<1>2. Becomes(C, f, a, t, p, u, m)
  <2>1. Becomes(C, f, a, f.text, f.cur_pos, f.undo, f.modified)
    BY <1>1, CountedIs DEF TextIs
  <2> QED BY <2>1, <1>1
<1>3. Becomes(C, f, b, t, q, u, m)
  <2>1. Becomes(C, f, b, f.text, q, f.undo, f.modified)
    BY <1>1, CursorAtIs
  <2> QED BY <2>1, <1>1
<1> HIDE DEF a, b
<1>4. b \in Editing(C) /\ b.text = t /\ b.cur_pos = q /\ b.undo = u /\ b.modified = m
  BY <1>3, FieldsAre
<1>5. Becomes(C, b, c, t, q, u, m)
  <2>1. Becomes(C, b, c, b.text, b.cur_pos, b.undo, b.modified)
    BY <1>4, CountedIs DEF TextIs
  <2> QED BY <2>1, <1>4
<1> HIDE DEF c
<1>6. Becomes(C, f, c, t, q, u, m)
  BY <1>3, <1>5, AfterThat
<1>7. Becomes(C, e, a, t, p, u, m) /\ Becomes(C, e, b, t, q, u, m) /\ Becomes(C, e, c, t, q, u, m)
  BY <1>2, <1>3, <1>6, AfterThat
<1> QED BY <1>7 DEF a, b, c

(* The ends of a range, in order.                                          *)
LEMMA RangeIs ==
    ASSUME NEW n \in Nat, NEW x \in 0..n, NEW y \in 0..(n + 1)
    PROVE  /\ Min({x, y}) \in 0..n /\ Max({x, y}) - Min({x, y}) \in Nat
           /\ Min({x, y}) + (Max({x, y}) - Min({x, y})) = Max({x, y})
           /\ Max({x, y}) \in Nat
           /\ y <= n => Max({x, y}) <= n
           /\ Max({x, y}) - Min({x, y}) = 0 <=> x = y
<1>1. x \in Nat /\ y \in Nat /\ x <= n
  OBVIOUS
<1>2. /\ Min({x, y}) = IF x <= y THEN x ELSE y
      /\ Max({x, y}) = IF x <= y THEN y ELSE x
  BY <1>1, OfTwo
<1>3. CASE x <= y
  BY <1>1, <1>2, <1>3
<1>4. CASE ~ (x <= y)
  BY <1>1, <1>2, <1>4
<1> QED BY <1>3, <1>4

(* apply_op.                                                               *)
LEMMA ApplyOpIs ==
    ASSUME NEW C, AlphabetOK(C), NEW e \in Editing(C), NEW op \in Operators,
           NEW x \in 0..Len(e.text), NEW y \in 0..(Len(e.text) + 1), NEW line \in BOOLEAN
    PROVE  LET g == ApplyOp(e, op, x, y, line)
               more == ~ (y <= Len(e.text))
           IN  \/ g = e
               \/ op = "y" /\ Moved(C, e, g)
               \/ op = "d" /\ Deleted(C, e, g, more)
               \/ op = "c" /\ Emptied(C, e, g)
<1> DEFINE from == Min({x, y})
           len == Max({x, y}) - from
           t == e.text
           more == ~ (y <= Len(t))
           g == ApplyOp(e, op, x, y, line)
           a == [e EXCEPT !.yank = [text |-> Copied(e.text, from, Min({len, YankMax - 1}), Nul),
                                    line |-> line]]
           b == Modified(GbDelete(UndoSaveDelete(a, from, len), from, len))
           q == SteppedBack(b.text, from)
           c == Counted(CursorAt(b, q))
           u == Deletion(t, e.modified, from, len)
<1>1. /\ from \in Nat /\ from <= Len(t) /\ len \in Nat /\ (more \/ from + len <= Len(t))
      /\ from \in 0..Len(t)
  <2>1. Len(t) \in Nat /\ x \in 0..Len(t) /\ y \in 0..(Len(t) + 1)
    BY EditorHas DEF Texts
  <2> DEFINE n == Len(t)
  <2> HIDE DEF t, n
  <2>2. n \in Nat /\ x \in 0..n /\ y \in 0..(n + 1)
    BY <2>1 DEF n
  <2>3. Min({x, y}) \in 0..n /\ Max({x, y}) - Min({x, y}) \in Nat
        /\ Min({x, y}) + (Max({x, y}) - Min({x, y})) = Max({x, y})
        /\ (y <= n => Max({x, y}) <= n)
    BY <2>2, RangeIs
  <2>4. Min({x, y}) \in Nat /\ Min({x, y}) <= n
    BY <2>2, <2>3
  <2> QED BY <2>3, <2>4 DEF n
<1>2. t \in Texts(C, Capacity) /\ t \in Seq(C)
  BY EditorHas DEF Texts
<1>3. g = IF len = 0 THEN e
          ELSE IF op = "y" THEN [CursorAt(a, from) EXCEPT !.cur_vrow = -1]
          ELSE IF op = "d" THEN c
          ELSE Inserting(UndoSaveInsert(c, c.cur_pos, 0), e.ins)
  BY DEF ApplyOp
<1>4. Becomes(C, e, a, t, e.cur_pos, e.undo, e.modified)
  <2> HIDE DEF from, len
  <2> QED BY <1>1, YankIs
<1> HIDE DEF from, len, a, g
<1>5. a \in Editing(C) /\ a.text = t /\ a.undo = e.undo /\ a.modified = e.modified
  BY <1>4, FieldsAre
<1>6. Becomes(C, e, b, Cut(t, from, len), e.cur_pos, u, Changed)
  <2>1. Becomes(C, a, b, Cut(a.text, from, len), a.cur_pos, Deletion(a.text, a.modified, from, len), Changed)
    BY <1>1, <1>5, RecordedDeletion, FlagAfter
  <2> HIDE DEF b
  <2>2. Becomes(C, a, b, Cut(t, from, len), e.cur_pos, u, Changed)
    <3>1. a.cur_pos = e.cur_pos
      BY <1>4, FieldsAre
    <3> QED BY <2>1, <1>5, <3>1
  <2> HIDE DEF u, t
  <2> QED BY <2>2, <1>4, AfterThat
<1> HIDE DEF b
<1>7. b.text = Cut(t, from, len)
  <2> HIDE DEF u, t
  <2> QED BY <1>6, FieldsAre
<1> HIDE DEF u
<1>8. q \in Nat /\ q <= Len(Cut(t, from, len))
  <2> DEFINE d == Cut(t, from, len)
  <2>1. d \in Seq(C)
    <3>1. Cut(t, from, len) \in Texts(C, Capacity)
      BY <1>1, <1>2, CutIs, LimitsAssumption
    <3> QED BY <3>1 DEF Texts
  <2> HIDE DEF d
  <2>2. SteppedBack(d, from) \in 0..Len(d) /\ Len(d) \in Nat
    BY <1>1, <2>1, SteppedBackIn
  <2>3. SteppedBack(d, from) \in Nat /\ SteppedBack(d, from) <= Len(d)
    BY <2>2
  <2> QED BY <2>3, <1>7 DEF d
<1> HIDE DEF q
<1>9. Becomes(C, e, c, Cut(t, from, len), q, u, Changed)
  BY <1>6, <1>8, PlacedIs
<1> HIDE DEF c
<1>10. CASE len = 0
  BY <1>3, <1>10 DEF g
<1>11. CASE len # 0 /\ op = "y"
  <2> DEFINE f == CursorAt(a, from)
  <2>1. Becomes(C, e, f, t, from, e.undo, e.modified)
    BY <1>1, <1>4, PlacedIs
  <2> HIDE DEF f
  <2>2. f \in Editing(C) /\ f.text = t /\ f.cur_pos = from /\ f.undo = e.undo /\ f.modified = e.modified
    <3> HIDE DEF t
    <3> QED BY <2>1, FieldsAre
  <2>3. g = [f EXCEPT !.cur_vrow = -1]
    BY <1>3, <1>11 DEF f
  <2>4. Becomes(C, f, g, f.text, f.cur_pos, f.undo, f.modified)
    BY <2>2, <2>3, RowIs DEF TextIs
  <2>5. Becomes(C, f, g, t, from, e.undo, e.modified)
    BY <2>2, <2>4
  <2>6. Becomes(C, e, g, t, from, e.undo, e.modified)
    <3> HIDE DEF t
    <3> QED BY <2>1, <2>5, AfterThat
  <2>7. Moved(C, e, g)
    BY <1>1, <2>6 DEF Moved
  <2> QED BY <1>11, <2>7 DEF g
<1>12. CASE len # 0 /\ op = "d"
  <2>1. g = c
    BY <1>3, <1>12
  <2>2. Deleted(C, e, c, more)
    <3>1. len \in Nat \ {0}
      BY <1>1, <1>12
    <3> QED BY <1>1, <3>1, <1>8, <1>9 DEF Deleted, u
  <2> QED BY <1>12, <2>1, <2>2 DEF g
<1>13. CASE len # 0 /\ op = "c"
  <2> DEFINE f == UndoSaveInsert(c, c.cur_pos, 0)
             w == Insertion(Changed, q, 0)
  <2>1. c \in Editing(C) /\ c.text = Cut(t, from, len) /\ c.cur_pos = q /\ c.modified = Changed
        /\ c.ins = e.ins
    BY <1>9, FieldsAre
  <2>2. Becomes(C, c, f, c.text, c.cur_pos, Insertion(c.modified, c.cur_pos, 0), c.modified)
    <3>1. c.cur_pos \in Nat /\ 0 \in Nat
      BY <2>1, <1>8
    <3> QED BY <2>1, <3>1, UndoSaveInsertIs
  <2> HIDE DEF f
  <2>3. Becomes(C, c, f, Cut(t, from, len), q, w, Changed)
    BY <2>1, <2>2
  <2> HIDE DEF w
  <2>4. Becomes(C, e, f, Cut(t, from, len), q, w, Changed)
    BY <1>9, <2>3, AfterThat
  <2>5. f \in Editing(C) /\ f.text = Cut(t, from, len) /\ f.cur_pos = q /\ f.undo = w /\ f.modified = Changed
    BY <2>4, FieldsAre
  <2>6. g = Inserting(f, e.ins)
    BY <1>3, <1>13 DEF f
  <2>7. Opens(C, f, g, e.ins, f.text, f.cur_pos, f.undo, f.modified)
    BY <2>5, <2>6, InsertingIs, EditorHas
  <2>8. Opens(C, f, g, e.ins, Cut(t, from, len), q, w, Changed)
    BY <2>5, <2>7
  <2>9. Opens(C, e, g, e.ins, Cut(t, from, len), q, w, Changed)
    BY <2>4, <2>8, OpensAfter
  <2>10. Emptied(C, e, g)
    <3>1. len \in Nat \ {0}
      BY <1>1, <1>13
    <3> QED BY <1>1, <3>1, <1>8, <2>9 DEF Emptied, w
  <2> QED BY <1>13, <2>10 DEF g
<1>14. len = 0 \/ (len # 0 /\ op = "y") \/ (len # 0 /\ op = "d") \/ (len # 0 /\ op = "c")
  BY DEF Operators
<1> QED BY <1>10, <1>11, <1>12, <1>13, <1>14

\* What an operator may do to the editor.
Operated(C, e, g, op, more) ==
    \/ Moved(C, e, g)
    \/ op = "d" /\ Deleted(C, e, g, more)
    \/ op = "c" /\ Emptied(C, e, g)

(* An operator over a motion.                                              *)
LEMMA OverMotionIs ==
    ASSUME NEW C, AlphabetOK(C), NEW e \in Editing(C), NEW op \in Operators,
           e.cur_pos \in 0..Len(e.text), NEW m \in OpMotions, NEW n \in Nat
    PROVE  Operated(C, e, OverMotion(e, op, m, n), op, m = "e")
<1> DEFINE c == IF m = "j" THEN Counted(e) ELSE e
           r == Span(c.text, c.cur_pos, m, n, c.line_cnt)
           f == CursorAt(c, r.from)
           g == ApplyOp(f, op, r.from, r.to, r.linewise)
           more == ~ (r.to <= Len(f.text))
<1>1. Becomes(C, e, c, e.text, e.cur_pos, e.undo, e.modified)
  <2>1. Becomes(C, e, e, e.text, e.cur_pos, e.undo, e.modified)
    BY DEF Becomes
  <2>2. Becomes(C, e, Counted(e), e.text, e.cur_pos, e.undo, e.modified)
    BY CountedIs DEF TextIs
  <2> QED BY <2>1, <2>2
<1> HIDE DEF c
<1>2. c.text = e.text /\ c.cur_pos = e.cur_pos
  BY <1>1, FieldsAre
<1> DEFINE t == e.text
           p == e.cur_pos
           k == c.line_cnt
<1>3. t \in Seq(C) /\ p \in 0..Len(t)
  BY EditorHas DEF Texts
<1>4. r = Span(t, p, m, n, k)
  BY <1>2
<1> HIDE DEF r
<1>5. InSpan(t, r) /\ (m # "e" => r.to \in 0..Len(t))
  <2> HIDE DEF t, p, k
  <2> QED BY <1>3, <1>4, SpanIn
<1>6. r.from \in 0..Len(t) /\ r.to \in 0..(Len(t) + 1) /\ r.linewise \in BOOLEAN /\ r.from \in Nat
  <2>1. r.from \in 0..Len(t) /\ r.to \in 0..(Len(t) + 1) /\ r.linewise \in BOOLEAN
    BY <1>5 DEF InSpan
  <2> QED BY <2>1
<1>7. m # "e" => r.to <= Len(t)
  <2>1. r.to \in 0..Len(t) => r.to <= Len(t)
    OBVIOUS
  <2> QED BY <1>5, <2>1
<1>8. Becomes(C, e, f, t, r.from, e.undo, e.modified)
  <2> DEFINE q == r.from
  <2>1. q \in Nat
    BY <1>6
  <2> HIDE DEF q
  <2>2. Becomes(C, e, CursorAt(c, q), t, q, e.undo, e.modified)
    BY <2>1, <1>1, PlacedIs
  <2> QED BY <2>2 DEF q
<1>9. Moved(C, e, f) /\ Like(C, e, f)
  <2>1. Moved(C, e, f)
    BY <1>6, <1>8 DEF Moved
  <2> QED BY <2>1, MovedIsLike
<1> HIDE DEF f
<1>10. f \in Editing(C) /\ f.text = t
  <2> HIDE DEF t
  <2> QED BY <1>8, FieldsAre
<1>11. \/ g = f
       \/ op = "y" /\ Moved(C, f, g)
       \/ op = "d" /\ Deleted(C, f, g, more)
       \/ op = "c" /\ Emptied(C, f, g)
  <2> DEFINE x == r.from
             y == r.to
             l == r.linewise
  <2>1. x \in 0..Len(f.text) /\ y \in 0..(Len(f.text) + 1) /\ l \in BOOLEAN
    BY <1>6, <1>10
  <2>2. g = ApplyOp(f, op, x, y, l) /\ more = ~ (y <= Len(f.text))
    OBVIOUS
  <2> HIDE DEF x, y, l, g, more
  <2> QED BY <1>10, <2>1, <2>2, ApplyOpIs
<1>12. OverMotion(e, op, m, n) = g
  BY DEF OverMotion, c, r, f
<1> HIDE DEF g
<1>13. more => m = "e"
  BY <1>7, <1>10
<1> HIDE DEF more
<1>14. Deleted(C, e, g, more) => Deleted(C, e, g, m = "e")
  BY <1>13 DEF Deleted
<1>15. g = f => Moved(C, e, g)
  BY <1>9
<1>16. /\ Moved(C, f, g) => Moved(C, e, g)
       /\ Deleted(C, f, g, more) => Deleted(C, e, g, more)
       /\ Emptied(C, f, g) => Emptied(C, e, g)
  BY <1>9, OfLike
<1>17. Operated(C, e, g, op, m = "e")
  BY <1>11, <1>14, <1>15, <1>16 DEF Operated
<1> QED BY <1>12, <1>17

(* An operator over whole lines.                                           *)
LEMMA LinesFromIs ==
    ASSUME NEW C, AlphabetOK(C), NEW e \in Editing(C), NEW op \in Operators,
           e.cur_pos \in 0..Len(e.text), NEW n
    PROVE  Operated(C, e, LinesFrom(e, op, n), op, FALSE)
<1> DEFINE c == Counted(e)
           a == LineOf(c.text, c.cur_pos)
           z == Min({Wrap(a + n - 1), c.line_cnt - 1})
           x == LineStart(c.text, a)
           y == IF z + 1 < c.line_cnt THEN LineStart(c.text, z + 1) ELSE Len(c.text)
           g == ApplyOp(c, op, x, y, TRUE)
           more == ~ (y <= Len(c.text))
<1>1. Becomes(C, e, c, e.text, e.cur_pos, e.undo, e.modified)
  BY CountedIs DEF TextIs
<1>2. Moved(C, e, c) /\ Like(C, e, c)
  <2>1. Moved(C, e, c)
    BY <1>1 DEF Moved
  <2> QED BY <2>1, MovedIsLike
<1> HIDE DEF c
<1>3. c \in Editing(C) /\ c.text \in Seq(C)
  BY <1>1, FieldsAre, EditorHas DEF Texts
<1>4. x \in 0..Len(c.text)
  BY <1>3, LineStartIn
<1>5. y \in 0..Len(c.text) /\ y \in 0..(Len(c.text) + 1)
  <2> DEFINE t == c.text
             w == LineStart(t, z + 1)
  <2>1. t \in Seq(C)
    BY <1>3
  <2> HIDE DEF t
  <2>2. w \in 0..Len(t) /\ Len(t) \in Nat
    BY <2>1, LineStartIn
  <2>3. y = w \/ y = Len(t)
    BY DEF t
  <2> HIDE DEF w, y
  <2>4. y \in 0..Len(t) /\ y \in 0..(Len(t) + 1)
    BY <2>2, <2>3
  <2> QED BY <2>4 DEF t
<1> HIDE DEF x, y
<1>6. ~more
  BY <1>5
<1> HIDE DEF more
<1>7. \/ g = c
      \/ op = "y" /\ Moved(C, c, g)
      \/ op = "d" /\ Deleted(C, c, g, more)
      \/ op = "c" /\ Emptied(C, c, g)
  <2>1. TRUE \in BOOLEAN
    OBVIOUS
  <2> HIDE DEF g
  <2> QED BY <1>3, <1>4, <1>5, <2>1, ApplyOpIs DEF g, more
<1>8. LinesFrom(e, op, n) = g
  BY DEF LinesFrom, c, x, y
<1> HIDE DEF g
<1>9. Deleted(C, e, g, more) => Deleted(C, e, g, FALSE)
  BY <1>6 DEF Deleted
<1>10. g = c => Moved(C, e, g)
  BY <1>2
<1>11. /\ Moved(C, c, g) => Moved(C, e, g)
       /\ Deleted(C, c, g, more) => Deleted(C, e, g, more)
       /\ Emptied(C, c, g) => Emptied(C, e, g)
  BY <1>2, OfLike
<1>12. Operated(C, e, g, op, FALSE)
  BY <1>7, <1>9, <1>10, <1>11 DEF Operated
<1> QED BY <1>8, <1>12

\* h is e with another dot record.
Noted(C, e, h, c, m, a) ==
    /\ h \in Editing(C)
    /\ h.text = e.text /\ h.cur_pos = e.cur_pos /\ h.undo = e.undo /\ h.modified = e.modified
    /\ h.mode = e.mode
    /\ h.dot.cmd = c /\ h.dot.motion = m /\ h.dot.arg = a

DotCmds == InsertCmds \cup {"d", "c", "r", "~", "J", None}
DotMotions == OpMotions \cup {"d", "c", None}

(* Recording a command for the dot.                                        *)
LEMMA DotIsNoted ==
    ASSUME NEW C, NEW e \in Editing(C), NEW c \in DotCmds, NEW m \in DotMotions, NEW n \in Nat,
           NEW a \in C \cup {None}
    PROVE  Noted(C, e, DotIs(e, c, m, n, a), c, m, a) /\ DotIs(e, c, m, n, a).ins = e.ins
<1> DEFINE d == [e.dot EXCEPT !.cmd = c, !.motion = m, !.count = n, !.arg = a]
           g == [e EXCEPT !.dot = d]
<1>1. d \in DotRecords(C) /\ d.cmd = c /\ d.motion = m /\ d.arg = a
  BY EditorHas DEF DotRecords, DotCmds, DotMotions
<1>2. DotIs(e, c, m, n, a) = g
  BY EditorHas DEF DotIs, DotRecords
<1> HIDE DEF d
<1>3. g \in Editing(C)
  BY <1>1 DEF Editing, Editors
<1>4. /\ g.text = e.text /\ g.cur_pos = e.cur_pos /\ g.undo = e.undo /\ g.modified = e.modified
      /\ g.mode = e.mode /\ g.ins = e.ins /\ g.dot = d
  BY DEF Editing, Editors
<1> HIDE DEF g
<1> QED BY <1>1, <1>2, <1>3, <1>4 DEF Noted

-----------------------------------------------------------------------------
(* What every command keeps.                                               *)

\* A position in a text, or in a buffer that was too full; an undo record
\* whose position is in a text.
Placed(t, p) == p <= Len(t) \/ Len(t) >= Capacity
Within(u, t) == u.type # None => u.pos <= Len(t)

\* The cursor ends in the buffer; the undo record stays in it; and a buffer
\* that does not count as modified has its text.
Sound(e, g) ==
    /\ Placed(g.text, g.cur_pos)
    /\ Within(e.undo, e.text) /\ g.cur_pos <= Len(g.text) => Within(g.undo, g.text)
    /\ ~g.modified => ~e.modified /\ g.text = e.text

(* From the fields.                                                        *)
LEMMA SoundFields ==
    ASSUME NEW e, NEW g, NEW t, NEW p, NEW u, NEW m,
           g.text = t, g.cur_pos = p, g.undo = u, g.modified = m,
           Placed(t, p), Within(e.undo, e.text) /\ p <= Len(t) => Within(u, t),
           m = Changed \/ (m = e.modified /\ t = e.text)
    PROVE  Sound(e, g)
<1>1. Placed(g.text, g.cur_pos)
  OBVIOUS
<1>2. Within(e.undo, e.text) /\ g.cur_pos <= Len(g.text) => Within(g.undo, g.text)
  OBVIOUS
<1>3. ~g.modified => ~e.modified /\ g.text = e.text
  <2>1. CASE m = Changed
    BY <2>1 DEF Changed
  <2>2. CASE m = e.modified /\ t = e.text
    BY <2>2
  <2> QED BY <2>1, <2>2
<1> QED BY <1>1, <1>2, <1>3 DEF Sound

(* Of an editor with the same text, undo record and flag.                  *)
LEMMA SoundOf ==
    ASSUME NEW e, NEW f, NEW g, f.text = e.text, f.undo = e.undo, f.modified = e.modified,
           Sound(f, g)
    PROVE  Sound(e, g)
BY DEF Sound

(* The two together.                                                       *)
LEMMA SoundBecomes ==
    ASSUME NEW C, NEW e, NEW g, NEW t, NEW p, NEW u, NEW m,
           Becomes(C, e, g, t, p, u, m),
           Placed(t, p), Within(e.undo, e.text) /\ p <= Len(t) => Within(u, t),
           m = Changed \/ (m = e.modified /\ t = e.text)
    PROVE  Sound(e, g)
<1>1. g.text = t /\ g.cur_pos = p /\ g.undo = u /\ g.modified = m
  BY FieldsAre
<1> QED BY <1>1, SoundFields

(* And for what begins to insert.                                          *)
LEMMA SoundOpens ==
    ASSUME NEW C, NEW e, NEW g, NEW c, NEW t, NEW p, NEW u, NEW m,
           Opens(C, e, g, c, t, p, u, m),
           Placed(t, p), Within(e.undo, e.text) /\ p <= Len(t) => Within(u, t),
           m = Changed \/ (m = e.modified /\ t = e.text)
    PROVE  Sound(e, g)
<1>1. g.text = t /\ g.cur_pos = p /\ g.undo = u /\ g.modified = m
  BY DEF Opens
<1> QED BY <1>1, SoundFields

(* A position of a record made of a deletion or an insertion.              *)
LEMMA WithinIs ==
    ASSUME NEW t, NEW s, NEW m, NEW p, NEW n
    PROVE  p <= Len(t) => Within(Deletion(s, m, p, n), t) /\ Within(Insertion(m, p, n), t)
BY DEF Within, Deletion, Insertion

(* Moving the cursor, and operators, are sound.                            *)
LEMMA OperatedSound ==
    ASSUME NEW C, NEW e \in Editing(C), NEW g, NEW op, NEW more, Operated(C, e, g, op, more)
    PROVE  Sound(e, g) /\ g \in Editing(C)
<1>1. e.text \in Texts(C, Capacity) /\ e.text \in Seq(C) /\ Len(e.text) \in Nat
  BY EditorHas DEF Texts
<1> DEFINE t == e.text
<1>2. ASSUME NEW p \in 0..Len(t), NEW n \in Nat \ {0}
      PROVE  p <= Len(t) /\ p <= Len(Cut(t, p, n)) /\ Len(Cut(t, p, n)) \in Nat
  <2>1. p \in Nat /\ p <= Len(t) /\ n \in Nat
    BY <1>1
  <2>2. p <= Len(Cut(t, p, n)) /\ Cut(t, p, n) \in Texts(C, Capacity)
    BY <2>1, <1>1, CutIs, LimitsAssumption
  <2>3. Len(Cut(t, p, n)) \in Nat
    BY <2>2 DEF Texts
  <2> QED BY <2>1, <2>2, <2>3
<1>3. CASE Moved(C, e, g)
  <2>1. PICK p \in 0..Len(t) : Becomes(C, e, g, t, p, e.undo, e.modified)
    BY <1>3 DEF Moved
  <2>2. p <= Len(t)
    BY <1>1
  <2>3. Placed(t, p) /\ g \in Editing(C)
    BY <2>1, <2>2 DEF Placed, Becomes
  <2> QED BY <2>1, <2>3, SoundBecomes
<1>4. CASE Deleted(C, e, g, more)
  <2>1. PICK p \in 0..Len(t), n \in Nat \ {0}, q \in Nat :
          /\ q <= Len(Cut(t, p, n))
          /\ Becomes(C, e, g, Cut(t, p, n), q, Deletion(t, e.modified, p, n), Changed)
    BY <1>4 DEF Deleted
  <2> DEFINE x == Cut(t, p, n)
             u == Deletion(t, e.modified, p, n)
  <2>2. Placed(x, q) /\ Within(u, x) /\ g \in Editing(C)
    BY <2>1, <1>2, WithinIs DEF Placed, Becomes
  <2>3. Becomes(C, e, g, x, q, u, Changed)
    BY <2>1
  <2> HIDE DEF x, u
  <2> QED BY <2>2, <2>3, SoundBecomes
<1>5. CASE Emptied(C, e, g)
  <2>1. PICK p \in 0..Len(t), n \in Nat \ {0}, q \in Nat :
          /\ q <= Len(Cut(t, p, n))
          /\ Opens(C, e, g, e.ins, Cut(t, p, n), q, Insertion(Changed, q, 0), Changed)
    BY <1>5 DEF Emptied
  <2> DEFINE x == Cut(t, p, n)
             u == Insertion(Changed, q, 0)
  <2>2. Placed(x, q) /\ Within(u, x) /\ g \in Editing(C)
    BY <2>1, WithinIs DEF Placed, Opens
  <2>3. Opens(C, e, g, e.ins, x, q, u, Changed)
    BY <2>1
  <2> HIDE DEF x, u
  <2> QED BY <2>2, <2>3, SoundOpens
<1> QED BY <1>3, <1>4, <1>5 DEF Operated

(* A deletion, or a change, is recorded for the dot before it is made.      *)
LEMMA OperatorNoted ==
    ASSUME NEW C, NEW e \in Editing(C), NEW op \in Operators, op # "y",
           NEW m \in OpMotions \cup {op}, NEW n \in Nat,
           NEW g, g = OperatorIns(OperatorDot(e, op, m, n), op)
    PROVE  Noted(C, e, g, op, m, None) /\ g.ins = IF op = "c" THEN "c" ELSE e.ins
<1> DEFINE a == DotIs(e, op, m, n, None)
           d == OperatorDot(e, op, m, n)
           h == OperatorIns(d, op)
<1>1. Noted(C, e, a, op, m, None) /\ a.ins = e.ins
  <2>1. op \in DotCmds /\ m \in DotMotions /\ None \in C \cup {None}
    BY DEF Operators, DotCmds, DotMotions
  <2> QED BY <2>1, DotIsNoted
<1>2. d = [a EXCEPT !.dot.text = << >>]
  BY DEF OperatorDot
<1> HIDE DEF a, d
<1>3. Noted(C, e, d, op, m, None) /\ d.ins = e.ins
  <2> DEFINE r == [a.dot EXCEPT !.text = << >>]
  <2>1. a \in Editing(C) /\ a.dot \in DotRecords(C)
    BY <1>1, EditorHas DEF Noted
  <2>2. << >> \in Texts(C, DotTextMax)
    BY LimitsAssumption DEF Texts
  <2>3. r \in DotRecords(C) /\ r.cmd = a.dot.cmd /\ r.motion = a.dot.motion /\ r.arg = a.dot.arg
    BY <2>1, <2>2 DEF DotRecords
  <2>4. d = [a EXCEPT !.dot = r]
    BY <1>2
  <2> HIDE DEF r
  <2>5. d \in Editing(C)
    BY <2>1, <2>3, <2>4 DEF Editing, Editors
  <2>6. /\ d.text = a.text /\ d.cur_pos = a.cur_pos /\ d.undo = a.undo /\ d.modified = a.modified
        /\ d.mode = a.mode /\ d.ins = a.ins /\ d.dot = r
    BY <2>1, <2>4 DEF Editing, Editors
  <2> QED BY <1>1, <2>3, <2>5, <2>6 DEF Noted
<1>4. Noted(C, e, h, op, m, None) /\ h.ins = IF op = "c" THEN "c" ELSE e.ins
  <2>1. CASE op = "c"
    <3>1. h = [d EXCEPT !.ins = "c"]
      BY <2>1 DEF OperatorIns
    <3>2. d \in Editing(C)
      BY <1>3 DEF Noted
    <3>3. h \in Editing(C)
      BY <3>1, <3>2 DEF Editing, Editors
    <3>4. /\ h.text = d.text /\ h.cur_pos = d.cur_pos /\ h.undo = d.undo /\ h.modified = d.modified
          /\ h.mode = d.mode /\ h.ins = "c" /\ h.dot = d.dot
      BY <3>1, <3>2 DEF Editing, Editors
    <3> QED BY <1>3, <2>1, <3>3, <3>4 DEF Noted
  <2>2. CASE op # "c"
    BY <1>3, <2>2 DEF OperatorIns
  <2> QED BY <2>1, <2>2
<1> QED BY <1>4 DEF h, d

(* d, c and y with a motion, or doubled.                                   *)
LEMMA OperateIs ==
    ASSUME NEW C, AlphabetOK(C), NEW e \in Editing(C), NEW op \in Operators,
           e.cur_pos \in 0..Len(e.text), NEW m \in OpMotions \cup {op}, NEW n \in Nat,
           NEW g, g = IF m = op THEN Doubled(e, op, n) ELSE WithMotion(e, op, m, n)
    PROVE  \E h : /\ Operated(C, h, g, op, m = "e")
                  /\ \/ op = "y" /\ h = e
                     \/ op # "y" /\ Noted(C, e, h, op, m, None)
                  /\ h.ins = IF op = "c" THEN "c" ELSE e.ins
<1> DEFINE d == OperatorDot(e, op, m, n)
           h == OperatorIns(d, op)
<1>1. CASE op = "y"
  <2>1. h = e
    BY <1>1 DEF OperatorDot, OperatorIns
  <2>2. g = IF m = op THEN LinesFrom(e, op, n) ELSE OverMotion(e, op, m, n)
    BY <1>1, <2>1 DEF Doubled, WithMotion
  <2>3. CASE m = op
    <3>1. Operated(C, e, g, op, FALSE)
      BY <2>2, <2>3, LinesFromIs
    <3>2. Operated(C, e, g, op, m = "e")
      BY <3>1 DEF Operated, Deleted
    <3> QED BY <1>1, <3>2
  <2>4. CASE m # op
    <3>1. Operated(C, e, g, op, m = "e")
      BY <2>2, <2>4, OverMotionIs
    <3> QED BY <1>1, <3>1
  <2> QED BY <2>3, <2>4
<1>2. CASE op # "y"
  <2>4. Noted(C, e, h, op, m, None) /\ h.ins = IF op = "c" THEN "c" ELSE e.ins
    <3>1. e \in Editing(C) /\ op \in Operators /\ op # "y" /\ m \in OpMotions \cup {op} /\ n \in Nat
          /\ h = OperatorIns(OperatorDot(e, op, m, n), op)
      BY <1>2
    <3> HIDE DEF h, d
    <3> QED BY ONLY SMTT(30), <3>1, OperatorNoted
  <2>5. g = IF m = op THEN LinesFrom(h, op, n) ELSE OverMotion(h, op, m, n)
    BY DEF Doubled, WithMotion, d
  <2> HIDE DEF h
  <2>6. h \in Editing(C) /\ h.cur_pos \in 0..Len(h.text)
    BY <2>4 DEF Noted
  <2>7. CASE m = op
    <3>1. Operated(C, h, g, op, FALSE)
      BY <2>5, <2>6, <2>7, LinesFromIs
    <3>2. Operated(C, h, g, op, m = "e")
      BY <3>1 DEF Operated, Deleted
    <3> QED BY <1>2, <3>2, <2>4
  <2>8. CASE m # op
    <3>1. Operated(C, h, g, op, m = "e")
      BY <2>5, <2>6, <2>8, OverMotionIs
    <3> QED BY <1>2, <3>1, <2>4
  <2> QED BY <2>7, <2>8
<1> QED BY <1>1, <1>2

-----------------------------------------------------------------------------
(* Single-character changes and joining.                                   *)

\* What a command does that leaves the mode alone.
Result(C, e, g) == g \in Editing(C) /\ Sound(e, g) /\ g.mode = e.mode /\ g.ins = e.ins

(* From the fields.                                                        *)
LEMMA ResultIs ==
    ASSUME NEW C, NEW e, NEW g, NEW t, NEW p, NEW u, NEW m,
           Becomes(C, e, g, t, p, u, m),
           Placed(t, p), Within(e.undo, e.text) /\ p <= Len(t) => Within(u, t),
           m = Changed \/ (m = e.modified /\ t = e.text)
    PROVE  Result(C, e, g) /\ g.dot = e.dot
BY SoundBecomes, FieldsAre DEF Result

(* One sound step after another.                                           *)
LEMMA SoundThen ==
    ASSUME NEW e, NEW f, NEW g, Sound(e, f), f.cur_pos <= Len(f.text), Sound(f, g)
    PROVE  Sound(e, g)
BY DEF Sound

(* Doing nothing.                                                          *)
LEMMA SoundSame ==
    ASSUME NEW e, e.cur_pos <= Len(e.text)
    PROVE  Sound(e, e)
BY DEF Sound, Placed

(* A character replaced.                                                   *)
LEMMA ReplacedIs ==
    ASSUME NEW C, AlphabetOK(C), NEW e \in Editing(C), e.cur_pos < Len(e.text), NEW c \in C
    PROVE  \E t \in Texts(C, Capacity) :
              /\ Len(t) = Len(e.text)
              /\ Becomes(C, e, Replaced(e, c), t, e.cur_pos,
                         Deletion(e.text, e.modified, e.cur_pos, 1), Changed)
<1> DEFINE s == e.text
           p == e.cur_pos
           a == GbDelete(UndoSaveDelete(e, p, 1), p, 1)
           b == GbInsert(a, p, <<c>>)
           x == Cut(s, p, 1)
           t == Inserted(x, p, <<c>>)
           u == Deletion(s, e.modified, p, 1)
<1>1. s \in Texts(C, Capacity) /\ p \in Nat /\ p < Len(s) /\ Len(s) \in Nat /\ Len(s) <= Capacity
  BY EditorHas DEF Texts
<1>2. Becomes(C, e, a, x, p, u, e.modified)
  <2> 1 \in Nat
    OBVIOUS
  <2> QED BY <1>1, RecordedDeletion
<1>3. Replaced(e, c) = Modified(b)
  BY DEF Replaced
<1> HIDE DEF a
<1>4. <<c>> \in Seq(C) /\ Len(<<c>>) = 1
  OBVIOUS
<1>5. Becomes(C, e, b, t, p, u, e.modified)
  <2> DEFINE w == <<c>>
  <2> HIDE DEF x, u, w, s, p
  <2> QED BY <1>1, <1>2, <1>4, FlagAfter DEF w
<1> HIDE DEF b
<1>6. Becomes(C, e, Modified(b), t, p, u, Changed)
  <2> HIDE DEF t, u, p
  <2> QED BY <1>5, FlagAfter
<1>7. x \in Texts(C, Capacity) /\ Len(x) = Len(s) - 1
  <2>1. 1 \in Nat /\ p + 1 <= Len(s) /\ Capacity \in Nat
    BY <1>1, LimitsAssumption
  <2> HIDE DEF s, p
  <2> QED BY <1>1, <2>1, CutIs
<1> HIDE DEF x, s, p
<1>8. t \in Texts(C, Capacity) /\ Len(t) = Len(s)
  <2> DEFINE w == <<c>>
  <2>1. w \in Seq(C) /\ Len(w) = 1
    BY <1>4
  <2> HIDE DEF w
  <2>2. /\ Inserted(x, p, w) \in Texts(C, Capacity)
        /\ Len(x) + Len(w) <= Capacity => Room(x, w) = w
        /\ Len(Inserted(x, p, w)) = Len(x) + Len(Room(x, w))
    BY <2>1, <1>1, <1>7, InsertedIs
  <2>3. Len(x) + Len(w) <= Capacity
    BY <2>1, <1>1, <1>7, LimitsAssumption
  <2>4. Len(x) + Len(w) = Len(s)
    BY <2>1, <1>1, <1>7
  <2> QED BY <2>2, <2>3, <2>4 DEF w
<1> QED BY <1>3, <1>6, <1>8 DEF s, p

(* So that is a sound step.                                                *)
LEMMA ReplacedSound ==
    ASSUME NEW C, AlphabetOK(C), NEW e \in Editing(C), e.cur_pos < Len(e.text), NEW c \in C
    PROVE  LET g == Replaced(e, c)
           IN  /\ Result(C, e, g) /\ g.dot = e.dot
               /\ g.cur_pos = e.cur_pos /\ Len(g.text) = Len(e.text)
<1> DEFINE g == Replaced(e, c)
           p == e.cur_pos
           u == Deletion(e.text, e.modified, p, 1)
<1>1. PICK t \in Texts(C, Capacity) :
         Len(t) = Len(e.text) /\ Becomes(C, e, g, t, p, u, Changed)
  BY ReplacedIs
<1>2. p <= Len(t)
  <2>1. p \in Nat /\ Len(t) \in Nat /\ p < Len(t)
    BY <1>1, EditorHas DEF Texts
  <2> HIDE DEF p
  <2> QED BY <2>1
<1>3. Placed(t, p) /\ Within(u, t)
  BY <1>2, WithinIs DEF Placed
<1> HIDE DEF g, u, p
<1>4. Result(C, e, g) /\ g.dot = e.dot
  BY <1>1, <1>3, ResultIs
<1>5. g.cur_pos = p /\ g.text = t
  BY <1>1, FieldsAre
<1> QED BY <1>1, <1>4, <1>5 DEF g, p

(* The next position on the line.                                          *)
LEMMA NextOnLine ==
    ASSUME NEW C, NEW t \in Seq(C), NEW p \in Nat, p < Len(t)
    PROVE  Min({LastOn(t, p), p + 1}) \in 0..Len(t)
<1>1. p \in 0..Len(t) /\ Len(t) \in Nat
  OBVIOUS
<1>2. LastOn(t, p) \in p..Len(t)
  BY <1>1, LastOnIn
<1>3. LastOn(t, p) \in Int /\ p + 1 \in Int
  BY <1>1, <1>2
<1>4. Min({LastOn(t, p), p + 1}) = IF LastOn(t, p) <= p + 1 THEN LastOn(t, p) ELSE p + 1
  BY <1>3, OfTwo
<1> QED BY <1>1, <1>2, <1>4

(* A step that only moves the cursor, within the text, after a sound one.  *)
LEMMA PutCursor ==
    ASSUME NEW C, NEW e, NEW f, Result(C, e, f), NEW p \in 0..Len(f.text), f.cur_pos <= Len(f.text)
    PROVE  LET g == CursorAt(f, p)
           IN  Result(C, e, g) /\ g.dot = f.dot /\ g.text = f.text /\ g.cur_pos = p
<1> DEFINE g == CursorAt(f, p)
<1>1. f \in Editing(C)
  BY DEF Result
<1>2. p \in Nat /\ p <= Len(f.text)
  OBVIOUS
<1>3. Becomes(C, f, g, f.text, p, f.undo, f.modified)
  BY <1>1, <1>2, CursorAtIs
<1> HIDE DEF g
<1>4. Result(C, f, g) /\ g.dot = f.dot
  <2>1. Placed(f.text, p)
    BY <1>2 DEF Placed
  <2> QED BY <1>3, <2>1, ResultIs
<1>5. g.cur_pos = p /\ g.text = f.text
  BY <1>3, FieldsAre
<1>6. Sound(e, g)
  BY <1>4, SoundThen DEF Result
<1> QED BY <1>4, <1>5, <1>6 DEF Result, g

(* Counting the lines after a sound step.                                  *)
LEMMA CountAfter ==
    ASSUME NEW C, NEW e, NEW f, Result(C, e, f)
    PROVE  Result(C, e, Counted(f)) /\ Counted(f).dot = f.dot
<1> DEFINE g == Counted(f)
<1>1. Becomes(C, f, g, f.text, f.cur_pos, f.undo, f.modified)
  BY CountedIs DEF TextIs, Result
<1> HIDE DEF g
<1>2. /\ g \in Editing(C) /\ g.text = f.text /\ g.cur_pos = f.cur_pos /\ g.undo = f.undo
      /\ g.modified = f.modified /\ g.mode = f.mode /\ g.ins = f.ins /\ g.dot = f.dot
  BY <1>1, FieldsAre
<1>3. Sound(e, g)
  BY <1>2 DEF Result, Sound
<1> QED BY <1>2, <1>3 DEF Result, g

(* What is sound after the recording of a command is sound.                *)
LEMMA NotedThen ==
    ASSUME NEW C, NEW e, NEW h, NEW c, NEW m, NEW a, Noted(C, e, h, c, m, a), h.ins = e.ins,
           NEW g, Result(C, h, g)
    PROVE  Result(C, e, g)
<1>1. h.text = e.text /\ h.undo = e.undo /\ h.modified = e.modified /\ h.mode = e.mode
  BY DEF Noted
<1>2. Sound(e, g)
  BY <1>1, SoundOf DEF Result
<1> QED BY <1>1, <1>2 DEF Result

\* The dot record is of this command, or as it was.
DotIsOf(e, g, c, m, a) == g.dot.cmd = c /\ g.dot.motion = m /\ g.dot.arg = a

(* r.                                                                      *)
LEMMA ReplaceIs ==
    ASSUME NEW C, AlphabetOK(C), NEW e \in Editing(C), e.cur_pos \in 0..Len(e.text), NEW c \in C
    PROVE  LET g == Replace(e, c)
           IN  Result(C, e, g) /\ (g.dot = e.dot \/ DotIsOf(e, g, "r", None, c))
<1> DEFINE f == Replaced(e, c)
           g == DotIs(f, "r", None, 1, c)
<1>1. Len(e.text) \in Nat /\ e.cur_pos <= Len(e.text)
  BY EditorHas DEF Texts
<1>2. CASE e.cur_pos >= Len(e.text)
  <2>1. Replace(e, c) = e
    BY <1>2 DEF Replace
  <2> QED BY <1>1, <2>1, SoundSame DEF Result
<1>3. CASE ~ (e.cur_pos >= Len(e.text))
  <2>1. Replace(e, c) = g
    BY <1>3 DEF Replace
  <2>2. e.cur_pos < Len(e.text)
    BY <1>1, <1>3
  <2>3. Result(C, e, f)
    BY <2>2, ReplacedSound
  <2> HIDE DEF f
  <2>4. Noted(C, f, g, "r", None, c) /\ g.ins = f.ins
    <3>1. "r" \in DotCmds /\ None \in DotMotions /\ 1 \in Nat /\ c \in C \cup {None} /\ f \in Editing(C)
      BY <2>3 DEF DotCmds, DotMotions, Result
    <3> QED BY <3>1, DotIsNoted
  <2>5. Result(C, e, g) /\ DotIsOf(e, g, "r", None, c)
    <3> HIDE DEF g
    <3> QED BY <2>3, <2>4 DEF Result, Noted, Sound, DotIsOf
  <2> QED BY <2>1, <2>5
<1> QED BY <1>2, <1>3

(* The other case of a character of the text.                              *)
LEMMA ToggledIn ==
    ASSUME NEW C, AlphabetOK(C), NEW e \in Editing(C), OnCharacter(e)
    PROVE  e.cur_pos < Len(e.text) /\ Toggled[At(e.text, e.cur_pos)] \in C
<1>1. e.text \in Seq(C) /\ e.cur_pos \in Nat
  BY EditorHas DEF Texts
<1>2. e.cur_pos < Len(e.text) /\ At(e.text, e.cur_pos) # NL
  BY DEF OnCharacter
<1>3. At(e.text, e.cur_pos) \in C
  BY <1>1, <1>2, CharIn
<1> QED BY <1>2, <1>3 DEF AlphabetOK

(* ~.                                                                      *)
LEMMA TildeIs ==
    ASSUME NEW C, AlphabetOK(C), NEW e \in Editing(C), e.cur_pos \in 0..Len(e.text), NEW n \in Nat
    PROVE  LET g == Tilde(e, n)
           IN  Result(C, e, g) /\ DotIsOf(e, g, "~", None, None)
<1> DEFINE d == DotIs(e, "~", None, n, None)
           r == Replaced(d, Toggled[At(e.text, e.cur_pos)])
           q == Min({LastOn(r.text, r.cur_pos), r.cur_pos + 1})
           g == CursorAt(r, q)
<1>1. Noted(C, e, d, "~", None, None) /\ d.ins = e.ins
  <2>1. "~" \in DotCmds /\ None \in DotMotions /\ None \in C \cup {None}
    BY DEF DotCmds, DotMotions
  <2> QED BY <2>1, DotIsNoted
<1> HIDE DEF d
<1>2. d \in Editing(C) /\ d.text = e.text /\ d.cur_pos = e.cur_pos
  BY <1>1 DEF Noted
<1>3. CASE OnCharacter(e)
  <2>1. Tilde(e, n) = g
    BY <1>3 DEF Tilde, d
  <2>2. e.cur_pos < Len(e.text) /\ Toggled[At(e.text, e.cur_pos)] \in C
    BY <1>3, ToggledIn
  <2>3. Result(C, d, r) /\ r.dot = d.dot /\ r.cur_pos = d.cur_pos /\ Len(r.text) = Len(d.text)
    BY <1>2, <2>2, ReplacedSound
  <2> HIDE DEF r
  <2>4. q \in 0..Len(r.text) /\ r.cur_pos <= Len(r.text)
    <3> DEFINE t == r.text
               p == r.cur_pos
    <3>1. t \in Seq(C) /\ p \in Nat
      BY <2>3, EditorHas DEF Texts, Result
    <3>2. p < Len(t)
      BY <1>2, <2>2, <2>3
    <3> HIDE DEF t, p
    <3>3. Min({LastOn(t, p), p + 1}) \in 0..Len(t) /\ p <= Len(t)
      BY <3>1, <3>2, NextOnLine
    <3> QED BY <3>3 DEF t, p
  <2> HIDE DEF q
  <2>5. Result(C, d, g) /\ g.dot = r.dot
    BY <2>3, <2>4, PutCursor
  <2> HIDE DEF g
  <2>6. Result(C, e, g)
    BY <1>1, <2>5, NotedThen
  <2>7. DotIsOf(e, g, "~", None, None)
    BY <1>1, <2>3, <2>5 DEF Noted, DotIsOf
  <2> QED BY <2>1, <2>6, <2>7
<1>4. CASE ~OnCharacter(e)
  <2>1. Tilde(e, n) = d
    BY <1>4 DEF Tilde, d
  <2>2. d.cur_pos <= Len(d.text)
    BY <1>2
  <2>3. Result(C, d, d)
    BY <1>2, <2>2, SoundSame DEF Result
  <2>4. Result(C, e, d) /\ DotIsOf(e, d, "~", None, None)
    BY <1>1, <2>3, NotedThen DEF Noted, DotIsOf
  <2> QED BY <2>1, <2>4
<1> QED BY <1>3, <1>4

(* Taking a newline out, and putting a blank in.                           *)
LEMMA JoinOnceIs ==
    ASSUME NEW C, AlphabetOK(C), NEW e \in Editing(C), e.cur_pos \in 0..Len(e.text)
    PROVE  LET g == JoinOnce(e)
           IN  Result(C, e, g) /\ g.dot = e.dot /\ g.cur_pos \in 0..Len(g.text)
<1> DEFINE s == e.text
           p == e.cur_pos
           k == Eol(s, p)
           a == GbDelete(UndoSaveDelete(e, k, 1), k, 1)
           b == GbInsert(a, k, <<SP>>)
           x == Cut(s, k, 1)
           y == Inserted(x, k, <<SP>>)
           u == Deletion(s, e.modified, k, 1)
           g == JoinOnce(e)
<1>1. s \in Texts(C, Capacity) /\ s \in Seq(C) /\ p \in Nat /\ p <= Len(s) /\ Len(s) \in Nat
  BY EditorHas DEF Texts
<1>2. k \in Nat /\ p <= k /\ k <= Len(s)
  <2> HIDE DEF s, p
  <2>1. k \in 0..Len(s) /\ p <= k
    BY <1>1, LineEnds
  <2> QED BY <2>1
<1>3. CASE k >= Len(s)
  <2>1. g = e
    BY <1>3 DEF JoinOnce
  <2> QED BY <1>1, <2>1, SoundSame DEF Result
<1>4. CASE ~ (k >= Len(s))
  <2>1. Becomes(C, e, a, x, p, u, e.modified)
    <3> 1 \in Nat
      OBVIOUS
    <3> HIDE DEF k
    <3> QED BY <1>2, RecordedDeletion
  <2> HIDE DEF a
  <2>2. g = Modified(b) \/ g = Modified(a)
    BY <1>4 DEF JoinOnce, a
  <2>3. <<SP>> \in Seq(C)
    BY DEF AlphabetOK
  <2>4. Becomes(C, e, b, y, p, u, e.modified)
    <3> DEFINE w == <<SP>>
    <3> HIDE DEF x, u, w, k, p, s
    <3>1. Becomes(C, e, GbInsert(a, k, w), Inserted(x, k, w), p, u, e.modified)
      BY <1>2, <2>1, <2>3, FlagAfter DEF w
    <3> QED BY <3>1 DEF w
  <2> HIDE DEF b
  <2>5. Becomes(C, e, Modified(a), x, p, u, Changed) /\ Becomes(C, e, Modified(b), y, p, u, Changed)
    <3> HIDE DEF x, y, u, p
    <3> QED BY <2>1, <2>4, FlagAfter
  <2>6. x \in Texts(C, Capacity) /\ k <= Len(x)
    <3>1. 1 \in Nat /\ Capacity \in Nat
      BY LimitsAssumption
    <3> HIDE DEF s, k
    <3> QED BY <1>1, <1>2, <3>1, CutIs
  <2>7. y \in Texts(C, Capacity) /\ Len(x) <= Len(y)
    <3> DEFINE w == <<SP>>
    <3>1. w \in Seq(C)
      BY <2>3
    <3> HIDE DEF x, k, w, s
    <3>2. /\ Inserted(x, k, w) \in Texts(C, Capacity) /\ Room(x, w) \in Seq(C)
          /\ Len(Inserted(x, k, w)) = Len(x) + Len(Room(x, w))
      BY <1>2, <2>6, <3>1, InsertedIs
    <3>3. Len(x) \in Nat /\ Len(Room(x, w)) \in Nat
      BY <2>6, <3>2 DEF Texts
    <3> QED BY <3>2, <3>3 DEF w
  <2>8. /\ p \in 0..Len(x) /\ p \in 0..Len(y) /\ p <= Len(x) /\ p <= Len(y)
        /\ k <= Len(x) /\ k <= Len(y)
    <3> HIDE DEF s, p, k, x, y
    <3>1. Len(x) \in Nat /\ Len(y) \in Nat
      BY <2>6, <2>7 DEF Texts
    <3> QED BY <3>1, <1>1, <1>2, <2>6, <2>7
  <2>9. Placed(x, p) /\ Placed(y, p) /\ Within(u, x) /\ Within(u, y)
    <3> HIDE DEF x, y, p, k
    <3> QED BY <2>8, WithinIs DEF Placed
  <2> HIDE DEF x, y, u, p
  <2>10. \A z : z = Modified(a) \/ z = Modified(b) =>
            Result(C, e, z) /\ z.dot = e.dot /\ z.cur_pos \in 0..Len(z.text)
    <3>1. ASSUME NEW z, z = Modified(a)
          PROVE  Result(C, e, z) /\ z.dot = e.dot /\ z.cur_pos \in 0..Len(z.text)
      <4>1. Becomes(C, e, z, x, p, u, Changed)
        BY <2>5, <3>1
      <4>2. z.text = x /\ z.cur_pos = p
        BY <4>1, FieldsAre
      <4> QED BY <4>1, <4>2, <2>8, <2>9, ResultIs
    <3>2. ASSUME NEW z, z = Modified(b)
          PROVE  Result(C, e, z) /\ z.dot = e.dot /\ z.cur_pos \in 0..Len(z.text)
      <4>1. Becomes(C, e, z, y, p, u, Changed)
        BY <2>5, <3>2
      <4>2. z.text = y /\ z.cur_pos = p
        BY <4>1, FieldsAre
      <4> QED BY <4>1, <4>2, <2>8, <2>9, ResultIs
    <3> QED BY <3>1, <3>2
  <2> HIDE DEF g
  <2> QED BY <2>2, <2>10 DEF g
<1> QED BY <1>3, <1>4

\* Where joining may lead.
Unmoved(C, e) == {f \in Editing(C) : Result(C, e, f) /\ f.dot = e.dot /\ f.cur_pos \in 0..Len(f.text)}

(* Joining, and counting the lines, is a sound step.                       *)
LEMMA ResultThen ==
    ASSUME NEW C, NEW e, NEW f \in Unmoved(C, e), NEW g, Result(C, f, g), g.dot = f.dot
    PROVE  Result(C, e, g) /\ g.dot = e.dot
<1>1. Result(C, e, f) /\ f.dot = e.dot /\ f.cur_pos \in 0..Len(f.text)
  BY DEF Unmoved
<1>2. f.cur_pos <= Len(f.text)
  BY <1>1
<1> QED BY <1>1, <1>2, SoundThen DEF Result

(* So often.                                                               *)
LEMMA JoinsIn ==
    ASSUME NEW C, AlphabetOK(C), NEW e \in Editing(C), e.cur_pos \in 0..Len(e.text), NEW n \in Nat
    PROVE  Times(JoinOnce, n, e) \in Unmoved(C, e)
<1> DEFINE S == Unmoved(C, e)
           g == [q \in S |-> JoinOnce(q)]
           E(f, i) == IF i = 0 THEN e ELSE JoinOnce(f[i - 1])
           h == CHOOSE f : f = [i \in 0..n |-> E(f, i)]
<1>1. Times(JoinOnce, n, e) = h[n]
  BY DEF Times
<1>2. e \in S /\ \A q \in S : JoinOnce(q) \in S
  <2>1. e \in Unmoved(C, e)
    <3>1. e.cur_pos <= Len(e.text)
      OBVIOUS
    <3> QED BY <3>1, SoundSame DEF Unmoved, Result
  <2>2. ASSUME NEW q \in Unmoved(C, e) PROVE JoinOnce(q) \in Unmoved(C, e)
    <3>1. q \in Editing(C) /\ q.cur_pos \in 0..Len(q.text)
      BY DEF Unmoved
    <3> DEFINE f == JoinOnce(q)
    <3>2. Result(C, q, f) /\ f.dot = q.dot /\ f.cur_pos \in 0..Len(f.text)
      BY <3>1, JoinOnceIs
    <3> HIDE DEF f
    <3>3. Result(C, e, f) /\ f.dot = e.dot
      BY <3>2, ResultThen
    <3> QED BY <3>2, <3>3 DEF Unmoved, Result, f
  <2> QED BY <2>1, <2>2
<1> HIDE DEF S
<1>3. \E f : f = [i \in 0..n |-> E(f, i)]
  <2>1. g \in [S -> S]
    BY <1>2
  <2> HIDE DEF g
  <2>2. PICK f : Follows(f, g, S, n, e)
    BY <2>1, <1>2, Repeats
  <2>3. ASSUME NEW i \in 0..n PROVE f[i] = E(f, i)
    <3>1. CASE i = 0
      BY <3>1, <2>2 DEF Follows
    <3>2. CASE i # 0
      <4>1. i \in 1..n /\ i - 1 \in 0..n
        BY <3>2
      <4>2. f[i - 1] \in S /\ f[i] = g[f[i - 1]]
        BY <4>1, <2>2 DEF Follows
      <4>3. f[i] = JoinOnce(f[i - 1])
        BY <4>2 DEF g
      <4> QED BY <4>3, <3>2
    <3> QED BY <3>1, <3>2
  <2>4. f = [i \in 0..n |-> E(f, i)]
    <3>1. f = [i \in 0..n |-> f[i]]
      BY <2>2 DEF Follows
    <3> HIDE DEF E
    <3> QED BY <2>3, <3>1
  <2> HIDE DEF E
  <2> QED BY <2>4
<1>4. h = [i \in 0..n |-> E(h, i)]
  <2> HIDE DEF E
  <2> QED BY <1>3
<1> HIDE DEF h
<1>5. \A i \in 0..n : h[i] = E(h, i)
  <2> HIDE DEF E
  <2> QED BY <1>4
<1>6. h[0] \in S
  <2>1. 0 \in 0..n
    OBVIOUS
  <2> QED BY <2>1, <1>2, <1>5
<1>7. ASSUME NEW i \in 1..n, h[i - 1] \in S PROVE h[i] \in S
  <2>1. i \in 0..n /\ i # 0
    OBVIOUS
  <2>2. h[i] = E(h, i)
    BY <2>1, <1>5
  <2>3. h[i] = JoinOnce(h[i - 1])
    BY <2>1, <2>2
  <2> QED BY <2>3, <1>7, <1>2
<1>8. h[n] \in S
  BY <1>6, <1>7, StaysIn
<1> QED BY <1>1, <1>8 DEF S

(* J.                                                                      *)
LEMMA JoinedIs ==
    ASSUME NEW C, AlphabetOK(C), NEW e \in Editing(C), e.cur_pos \in 0..Len(e.text), NEW n \in Nat
    PROVE  Result(C, e, Joined(e, n)) /\ Joined(e, n).dot = e.dot
<1> DEFINE k == IF n > 1 THEN n - 1 ELSE 1
           f == Times(JoinOnce, k, e)
<1>1. k \in Nat
  OBVIOUS
<1> HIDE DEF k
<1>2. f \in Unmoved(C, e)
  BY <1>1, JoinsIn
<1>3. Joined(e, n) = Counted(f)
  BY DEF Joined, k
<1> HIDE DEF f
<1>4. Result(C, e, f) /\ f.dot = e.dot
  BY <1>2 DEF Unmoved
<1> QED BY <1>3, <1>4, CountAfter

(* J as a command.                                                         *)
LEMMA JoinIs ==
    ASSUME NEW C, AlphabetOK(C), NEW e \in Editing(C), e.cur_pos \in 0..Len(e.text), NEW n \in Nat
    PROVE  LET g == Join(e, n)
           IN  Result(C, e, g) /\ DotIsOf(e, g, "J", None, None)
<1> DEFINE d == DotIs(e, "J", None, n, None)
           g == Joined(d, n)
<1>1. Noted(C, e, d, "J", None, None) /\ d.ins = e.ins
  <2>1. "J" \in DotCmds /\ None \in DotMotions /\ None \in C \cup {None}
    BY DEF DotCmds, DotMotions
  <2> QED BY <2>1, DotIsNoted
<1>2. Join(e, n) = g
  BY DEF Join
<1> HIDE DEF d
<1>3. d \in Editing(C) /\ d.cur_pos \in 0..Len(d.text)
  BY <1>1 DEF Noted
<1>4. Result(C, d, g) /\ g.dot = d.dot
  BY <1>3, JoinedIs
<1> HIDE DEF g
<1>5. Result(C, e, g) /\ DotIsOf(e, g, "J", None, None)
  BY <1>1, <1>4, NotedThen DEF Noted, DotIsOf
<1> QED BY <1>2, <1>5

-----------------------------------------------------------------------------
(* Put and undo.                                                           *)

(* Recording an insertion after a change.                                  *)
LEMMA InsertionAfter ==
    ASSUME NEW C, AlphabetOK(C), NEW e, NEW f, NEW t, NEW p, NEW u, NEW m, Becomes(C, e, f, t, p, u, m),
           NEW q \in Nat, NEW n \in Nat
    PROVE  Becomes(C, e, UndoSaveInsert(f, q, n), t, p, Insertion(m, q, n), m)
<1> DEFINE g == UndoSaveInsert(f, q, n)
<1>1. f \in Editing(C) /\ f.text = t /\ f.cur_pos = p /\ f.undo = u /\ f.modified = m
  BY FieldsAre
<1>2. Becomes(C, f, g, f.text, f.cur_pos, Insertion(f.modified, q, n), f.modified)
  BY <1>1, UndoSaveInsertIs
<1> HIDE DEF g
<1>3. Becomes(C, f, g, t, p, Insertion(m, q, n), m)
  BY <1>1, <1>2
<1> DEFINE w == Insertion(m, q, n)
<1> HIDE DEF w
<1>4. Becomes(C, f, g, t, p, w, m)
  BY <1>3 DEF w
<1>5. Becomes(C, e, g, t, p, w, m)
  BY <1>4, AfterThat
<1> QED BY <1>5 DEF g, w

(* An editor becomes itself.                                               *)
LEMMA BecomesSame ==
    ASSUME NEW C, NEW e \in Editing(C)
    PROVE  Becomes(C, e, e, e.text, e.cur_pos, e.undo, e.modified)
BY DEF Becomes

(* A text is no shorter for what is put in.                                *)
LEMMA LongerText ==
    ASSUME NEW C, NEW t \in Texts(C, Capacity), NEW p \in Nat, NEW s \in Seq(C)
    PROVE  /\ Inserted(t, p, s) \in Texts(C, Capacity)
           /\ Len(t) <= Len(Inserted(t, p, s))
           /\ Len(t) \in Nat /\ Len(Inserted(t, p, s)) \in Nat
<1>1. /\ Inserted(t, p, s) \in Texts(C, Capacity) /\ Room(t, s) \in Seq(C)
      /\ Len(Inserted(t, p, s)) = Len(t) + Len(Room(t, s))
  BY InsertedIs
<1>2. Len(t) \in Nat /\ Len(Room(t, s)) \in Nat /\ Len(Inserted(t, p, s)) \in Nat
  BY <1>1 DEF Texts
<1> QED BY <1>1, <1>2

\* The text with what was yanked put in, and a newline after whole lines.
PutIn(e, p) ==
    LET y == e.yank.text
        x == Inserted(e.text, p, y)
    IN  IF e.yank.line /\ Last(y) # NL THEN Inserted(x, p + Len(y), <<NL>>) ELSE x

(* The yanked text put in.                                                 *)
LEMMA PutAtIs ==
    ASSUME NEW C, AlphabetOK(C), NEW e \in Editing(C), e.cur_pos \in 0..Len(e.text),
           NEW p \in 0..Len(e.text)
    PROVE  LET g == CursorAt(PutAt(e, p), p)
           IN  Result(C, e, g) /\ g.dot = e.dot /\ g.text = PutIn(e, p)
<1> DEFINE t == e.text
           y == e.yank.text
           n == Len(y)
           a == UndoSaveInsert(e, e.cur_pos, n)
           b == GbInsert(a, p, y)
           c == GbInsert(b, p + n, <<NL>>)
           u == Insertion(e.modified, e.cur_pos, n)
           tb == Inserted(t, p, y)
           tc == Inserted(tb, p + n, <<NL>>)
           d == IF e.yank.line /\ Last(y) # NL THEN c ELSE b
           td == IF e.yank.line /\ Last(y) # NL THEN tc ELSE tb
           f == Counted(Modified(d))
           g == CursorAt(f, p)
<1>1. t \in Texts(C, Capacity) /\ Len(t) \in Nat /\ e.cur_pos \in Nat /\ p \in Nat
  BY EditorHas DEF Texts
<1>2. y \in Seq(C) /\ n \in Nat
  <2>1. y \in Texts(C, YankMax - 1)
    BY EditorHas DEF YankRecords
  <2> QED BY <2>1 DEF Texts
<1>3. Becomes(C, e, a, t, e.cur_pos, u, e.modified)
  BY <1>2, <1>1, UndoSaveInsertIs
<1>4. CursorAt(PutAt(e, p), p) = g
  BY DEF PutAt
<1> HIDE DEF a, u
<1>5. Becomes(C, e, b, tb, e.cur_pos, u, e.modified)
  <2> HIDE DEF t, y
  <2> QED BY <1>1, <1>2, <1>3, FlagAfter
<1> HIDE DEF b
<1>6. <<NL>> \in Seq(C) /\ p + n \in Nat
  BY <1>1, <1>2 DEF AlphabetOK
<1>7. Becomes(C, e, c, tc, e.cur_pos, u, e.modified)
  <2> DEFINE w == <<NL>>
             k == p + n
  <2> HIDE DEF tb, w, k
  <2>1. Becomes(C, e, GbInsert(b, k, w), Inserted(tb, k, w), e.cur_pos, u, e.modified)
    BY <1>5, <1>6, FlagAfter DEF w, k
  <2> QED BY <2>1 DEF w, k
<1>8. /\ tb \in Texts(C, Capacity) /\ tc \in Texts(C, Capacity)
      /\ Len(t) <= Len(tb) /\ Len(tb) <= Len(tc) /\ Len(tb) \in Nat /\ Len(tc) \in Nat
  <2> DEFINE w == <<NL>>
             k == p + n
  <2>1. w \in Seq(C) /\ k \in Nat
    BY <1>6
  <2> HIDE DEF w, k, t, y
  <2>2. tb \in Texts(C, Capacity) /\ Len(t) <= Len(tb) /\ Len(tb) \in Nat
    BY <1>1, <1>2, LongerText
  <2> HIDE DEF tb
  <2>3. LET z == Inserted(tb, k, w)
        IN  z \in Texts(C, Capacity) /\ Len(tb) <= Len(z) /\ Len(z) \in Nat
    BY <2>1, <2>2, LongerText
  <2> QED BY <2>2, <2>3 DEF w, k
<1> HIDE DEF c, tb, tc
<1>9. /\ Becomes(C, e, d, td, e.cur_pos, u, e.modified)
      /\ td \in Texts(C, Capacity) /\ Len(t) <= Len(td) /\ Len(td) \in Nat
  <2>1. CASE e.yank.line /\ Last(y) # NL
    <3>1. d = c /\ td = tc
      BY <2>1
    <3>2. Len(t) <= Len(tc)
      BY <1>8, <1>1
    <3> QED BY <3>1, <3>2, <1>7, <1>8
  <2>2. CASE ~ (e.yank.line /\ Last(y) # NL)
    <3>1. d = b /\ td = tb
      BY <2>2
    <3> QED BY <3>1, <1>5, <1>8
  <2> QED BY <2>1, <2>2
<1>15. td = PutIn(e, p)
  BY DEF PutIn, td, tc, tb
<1> HIDE DEF d, td
<1>10. Becomes(C, e, Modified(d), td, e.cur_pos, u, Changed)
  BY <1>9, FlagAfter
<1>11. Becomes(C, e, f, td, e.cur_pos, u, Changed)
  BY <1>10, <1>1, PlacedIs
<1> HIDE DEF f
<1>12. Becomes(C, e, g, td, p, u, Changed)
  BY <1>11, <1>1, PlacedIs
<1> HIDE DEF g
<1>13. Placed(td, p) /\ Within(u, td)
  <2>1. p <= Len(td) /\ e.cur_pos <= Len(td)
    <3> DEFINE x == e.cur_pos
    <3>1. x \in 0..Len(t) /\ p \in 0..Len(t)
      OBVIOUS
    <3> HIDE DEF t, x
    <3>2. p <= Len(td) /\ x <= Len(td)
      BY <1>1, <1>9, <3>1
    <3> QED BY <3>2 DEF x
  <2> QED BY <2>1, WithinIs DEF Placed, u
<1>14. Result(C, e, g) /\ g.dot = e.dot
  BY <1>12, <1>13, ResultIs
<1>16. g.text = PutIn(e, p)
  BY <1>12, <1>15, FieldsAre
<1> QED BY <1>4, <1>14, <1>16

(* p and P.                                                                *)
LEMMA PutIs ==
    ASSUME NEW C, AlphabetOK(C), NEW e \in Editing(C), e.cur_pos \in 0..Len(e.text),
           NEW g, g = PutAfter(e) \/ g = PutBefore(e)
    PROVE  Result(C, e, g) /\ g.dot = e.dot
<1> DEFINE t == e.text
           k == e.cur_pos
           eol == Eol(t, k)
           next == Min({eol + 1, Len(t)})
<1>1. t \in Seq(C) /\ Len(t) \in Nat /\ k \in Nat /\ k <= Len(t)
  BY EditorHas DEF Texts
<1>2. next \in 0..Len(t) /\ Bol(t, k) \in 0..Len(t) /\ (OnCharacter(e) => k + 1 \in 0..Len(t))
  <2>1. OnCharacter(e) => k < Len(t)
    BY DEF OnCharacter
  <2> HIDE DEF t, k
  <2>2. eol \in 0..Len(t) /\ Bol(t, k) \in 0..k
    BY <1>1, LineEnds
  <2> HIDE DEF eol
  <2>3. next = IF eol + 1 <= Len(t) THEN eol + 1 ELSE Len(t)
    <3>1. eol + 1 \in Int /\ Len(t) \in Int
      BY <1>1, <2>2
    <3> QED BY <3>1, OfTwo
  <2>4. next \in 0..Len(t)
    BY <1>1, <2>2, <2>3
  <2>5. Bol(t, k) \in 0..Len(t)
    BY <1>1, <2>2
  <2>6. OnCharacter(e) => k + 1 \in 0..Len(t)
    BY <1>1, <2>1
  <2> QED BY <2>4, <2>5, <2>6
<1> HIDE DEF eol, next
<1>3. \/ g = e
      \/ g = CursorAt(PutAt(e, next), next)
      \/ OnCharacter(e) /\ g = CursorAt(PutAt(e, k + 1), k + 1)
      \/ g = CursorAt(PutAt(e, k), k)
      \/ g = CursorAt(PutAt(e, Bol(t, k)), Bol(t, k))
  BY DEF PutAfter, PutBefore, next, eol
<1>4. \A p \in 0..Len(t) : g = CursorAt(PutAt(e, p), p) => Result(C, e, g) /\ g.dot = e.dot
  BY PutAtIs
<1>5. g = e => Result(C, e, g) /\ g.dot = e.dot
  BY <1>1, SoundSame DEF Result
<1> QED BY <1>2, <1>3, <1>4, <1>5

\* What u does to a text.
TakenBack(u, t) == IF u.type = "delete" THEN Inserted(t, u.pos, u.text) ELSE Cut(t, u.pos, u.len)

(* u.                                                                      *)
LEMMA UndoneIs ==
    ASSUME NEW C, NEW e \in Editing(C), e.undo.type # None
    PROVE  \E u \in UndoRecords(C), m \in BOOLEAN :
              /\ u.type = None /\ m = ~e.undo.was_clean
              /\ Becomes(C, e, Undone(e), TakenBack(e.undo, e.text), e.undo.pos, u, m)
<1> DEFINE u == e.undo
           g == IF u.type = "delete" THEN GbInsert(e, u.pos, u.text) ELSE GbDelete(e, u.pos, u.len)
           t == TakenBack(u, e.text)
           v == [g.undo EXCEPT !.type = None]
           m == ~u.was_clean
           h == [g EXCEPT !.cur_pos = u.pos, !.modified = m, !.undo = v]
<1>1. /\ u \in UndoRecords(C) /\ u.pos \in Nat /\ u.len \in Nat /\ u.text \in Seq(C) /\ m \in BOOLEAN
      /\ u.pos \in Nat
  BY EditorHas DEF UndoRecords, Texts
<1>2. Becomes(C, e, g, t, e.cur_pos, u, e.modified)
  <2>1. CASE u.type = "delete"
    <3> DEFINE p == u.pos
               s == u.text
    <3>1. g = GbInsert(e, p, s) /\ t = Inserted(e.text, p, s) /\ p \in Nat /\ s \in Seq(C)
      BY <2>1, <1>1 DEF TakenBack
    <3> HIDE DEF p, s, g, t, u
    <3>2. TextIs(C, e, GbInsert(e, p, s), Inserted(e.text, p, s))
      BY <3>1, GbInsertIs
    <3> QED BY <3>1, <3>2 DEF TextIs, u
  <2>2. CASE u.type # "delete"
    <3> DEFINE p == u.pos
               n == u.len
    <3>1. g = GbDelete(e, p, n) /\ t = Cut(e.text, p, n) /\ p \in Nat /\ n \in Nat
      BY <2>2, <1>1 DEF TakenBack
    <3> HIDE DEF p, n, g, t, u
    <3>2. TextIs(C, e, GbDelete(e, p, n), Cut(e.text, p, n))
      BY <3>1, GbDeleteIs
    <3> QED BY <3>1, <3>2 DEF TextIs, u
  <2> QED BY <2>1, <2>2
<1>3. Undone(e) = Counted(h)
  <2>1. g \in Editing(C)
    <3> HIDE DEF g, t, u
    <3> QED BY <1>2, FieldsAre
  <2>2. h = [g EXCEPT !.cur_pos = u.pos, !.modified = ~u.was_clean, !.undo.type = None]
    <3> HIDE DEF g, u
    <3> QED BY <2>1 DEF Editing, Editors
  <2>3. Undone(e) = Counted([g EXCEPT !.cur_pos = u.pos, !.modified = ~u.was_clean, !.undo.type = None])
    BY DEF Undone
  <2> HIDE DEF g, u, h
  <2> QED BY <2>2, <2>3
<1> HIDE DEF g, t
<1>4. g \in Editing(C) /\ g.text = t /\ g.undo = u /\ g.mode = e.mode /\ g.ins = e.ins /\ g.dot = e.dot
  <2> HIDE DEF u
  <2> QED BY <1>2, FieldsAre
<1>5. v \in UndoRecords(C) /\ v.type = None
  <2>1. v = [u EXCEPT !.type = None]
    BY <1>4
  <2> QED BY <2>1, <1>1 DEF UndoRecords
<1> HIDE DEF v, u, m
<1>6. Becomes(C, e, h, t, u.pos, v, m)
  <2> DEFINE p == u.pos
  <2>1. p \in Nat
    BY <1>1
  <2>2. h = [g EXCEPT !.cur_pos = p, !.modified = m, !.undo = v]
    OBVIOUS
  <2> HIDE DEF h, p
  <2>3. h \in Editing(C)
    BY <2>1, <2>2, <1>1, <1>4, <1>5 DEF Editing, Editors
  <2>4. /\ h.text = g.text /\ h.cur_pos = p /\ h.undo = v /\ h.modified = m
        /\ h.mode = g.mode /\ h.ins = g.ins /\ h.dot = g.dot
    BY <2>2, <1>4 DEF Editing, Editors
  <2> QED BY <2>3, <2>4, <1>4 DEF Becomes, p
<1> HIDE DEF h
<1>7. Becomes(C, e, Counted(h), t, u.pos, v, m)
  <2> DEFINE p == u.pos
  <2>1. 0 \in Nat /\ Becomes(C, e, h, t, p, v, m)
    BY <1>6
  <2> HIDE DEF p
  <2>2. Becomes(C, e, Counted(h), t, p, v, m)
    BY <2>1, PlacedIs
  <2> QED BY <2>2 DEF p
<1> QED BY <1>1, <1>3, <1>5, <1>7 DEF t, u, m

-----------------------------------------------------------------------------
(* Insert mode.                                                            *)

(* Insert mode begun at a position.                                        *)
LEMMA InsertsAt ==
    ASSUME NEW C, AlphabetOK(C), NEW e \in Editing(C), NEW p \in Nat, NEW c \in InsertCmds
    PROVE  Opens(C, e, Inserting(UndoSaveInsert(CursorAt(e, p), p, 0), c), c,
                 e.text, p, Insertion(e.modified, p, 0), e.modified)
<1> DEFINE a == CursorAt(e, p)
           b == UndoSaveInsert(a, p, 0)
           g == Inserting(b, c)
           u == Insertion(e.modified, p, 0)
<1>1. Becomes(C, e, a, e.text, p, e.undo, e.modified)
  BY CursorAtIs
<1> HIDE DEF a
<1>2. Becomes(C, e, b, e.text, p, u, e.modified)
  BY <1>1, InsertionAfter
<1> HIDE DEF b, u
<1>3. b \in Editing(C) /\ b.text = e.text /\ b.cur_pos = p /\ b.undo = u /\ b.modified = e.modified
  BY <1>2, FieldsAre
<1>4. Opens(C, b, g, c, b.text, b.cur_pos, b.undo, b.modified)
  BY <1>3, InsertingIs
<1> HIDE DEF g
<1>5. Opens(C, b, g, c, e.text, p, u, e.modified)
  BY <1>3, <1>4
<1>6. Opens(C, e, g, c, e.text, p, u, e.modified)
  BY <1>2, <1>5, OpensAfter
<1> QED BY <1>6 DEF a, b, g, u

(* A line opened at a position.                                            *)
LEMMA LineOpened ==
    ASSUME NEW C, AlphabetOK(C), NEW e, NEW f, NEW t, NEW k, NEW v, NEW m,
           Becomes(C, e, f, t, k, v, m), NEW p \in Nat, NEW c \in InsertCmds,
           NEW g, g = Inserting(Modified([GbInsert(UndoSaveInsert(f, p, 0), p, <<NL>>)
                                             EXCEPT !.undo.len = 1, !.cur_pos = p]), c)
    PROVE  Opens(C, e, g, c, Inserted(t, p, <<NL>>), p, Insertion(m, p, 1), Changed)
<1> DEFINE a == UndoSaveInsert(f, p, 0)
           b == GbInsert(a, p, <<NL>>)
           u == Insertion(m, p, 0)
           w == Insertion(m, p, 1)
           s == Inserted(t, p, <<NL>>)
           d == [b EXCEPT !.undo.len = 1, !.cur_pos = p]
<1>1. Becomes(C, e, a, t, k, u, m)
  BY InsertionAfter
<1> HIDE DEF a
<1>2. Becomes(C, e, b, s, k, u, m)
  <2> DEFINE x == <<NL>>
  <2>1. x \in Seq(C)
    BY DEF AlphabetOK
  <2> HIDE DEF x, u
  <2>2. Becomes(C, e, GbInsert(a, p, x), Inserted(t, p, x), k, u, m)
    BY <1>1, <2>1, FlagAfter
  <2> QED BY <2>2 DEF x
<1> HIDE DEF b, s
<1>3. /\ b \in Editing(C) /\ b.text = s /\ b.undo = u /\ b.modified = m
      /\ b.mode = e.mode /\ b.ins = e.ins /\ b.dot = e.dot
  <2> HIDE DEF u
  <2> QED BY <1>2, FieldsAre
<1>4. w = [u EXCEPT !.len = 1] /\ u \in UndoRecords(C)
  BY <1>3, EditorHas DEF Insertion
<1>5. w \in UndoRecords(C)
  <2> HIDE DEF u
  <2>1. 1 \in Nat
    OBVIOUS
  <2> QED BY <1>4, <2>1 DEF UndoRecords
<1>6. d = [b EXCEPT !.undo = w, !.cur_pos = p]
  <2> HIDE DEF u, w
  <2> QED BY <1>3, <1>4 DEF Editing, Editors
<1> HIDE DEF d, u, w
<1>7. Becomes(C, e, d, s, p, w, m)
  <2>1. d \in Editing(C)
    BY <1>3, <1>5, <1>6 DEF Editing, Editors
  <2>2. /\ d.text = b.text /\ d.cur_pos = p /\ d.undo = w /\ d.modified = b.modified
        /\ d.mode = b.mode /\ d.ins = b.ins /\ d.dot = b.dot
    BY <1>3, <1>6 DEF Editing, Editors
  <2> QED BY <2>1, <2>2, <1>3 DEF Becomes
<1>8. Becomes(C, e, Modified(d), s, p, w, Changed)
  BY <1>7, FlagAfter
<1>9. g = Inserting(Modified(d), c)
  BY DEF d, b, a
<1> DEFINE h == Modified(d)
<1> HIDE DEF h
<1>10. h \in Editing(C) /\ h.text = s /\ h.cur_pos = p /\ h.undo = w /\ h.modified = Changed
  BY <1>8, FieldsAre DEF h
<1>11. Opens(C, h, g, c, h.text, h.cur_pos, h.undo, h.modified)
  BY <1>9, <1>10, InsertingIs DEF h
<1>12. Opens(C, h, g, c, s, p, w, Changed)
  BY <1>10, <1>11
<1>13. Opens(C, e, g, c, s, p, w, Changed)
  BY <1>8, <1>12, OpensAfter DEF h
<1> QED BY <1>13 DEF s, w

\* A last line without newline.
Bare(t) == t # << >> /\ Last(t) # NL

\* What i a I A o O begin.
Entered(C, e, g, c) ==
    \/ \E p \in Nat :
        /\ c \in {"i", "a", "I", "A"} /\ (c # "a" => p \in 0..Len(e.text))
        /\ Opens(C, e, g, c, e.text, p, Insertion(e.modified, p, 0), e.modified)
    \/ \E p \in 0..Len(e.text) :
        /\ c \in {"o", "O"}
        /\ Opens(C, e, g, c, Inserted(e.text, p, <<NL>>), p, Insertion(e.modified, p, 1), Changed)
    \/ /\ c = "o" /\ Bare(e.text)
       /\ LET s == Inserted(e.text, Len(e.text), <<NL>>)
              p == Len(e.text) + 1
          IN  Opens(C, e, g, c, Inserted(s, p, <<NL>>), p, Insertion(e.modified, p, 1), Changed)

(* So they do.                                                             *)
LEMMA EnterIs ==
    ASSUME NEW C, AlphabetOK(C), NEW e \in Editing(C), e.cur_pos \in 0..Len(e.text),
           NEW c \in InsertCmds
    PROVE  Entered(C, e, Enter(e, c), c)
<1> DEFINE t == e.text
           k == e.cur_pos
           at(p) == Inserting(UndoSaveInsert(CursorAt(e, p), p, 0), c)
           next == Min({Eol(t, k) + 1, Len(t)})
           bare == next = Len(t) /\ t # << >> /\ Last(t) # NL
           full == IF bare THEN GbInsert(e, Len(t), <<NL>>) ELSE e
           opened(g, p) == Inserting(Modified([GbInsert(UndoSaveInsert(g, p, 0), p, <<NL>>)
                                                  EXCEPT !.undo.len = 1, !.cur_pos = p]), c)
           g == Enter(e, c)
<1> SUFFICES Entered(C, e, g, c)
  OBVIOUS
<1>1. t \in Seq(C) /\ Len(t) \in Nat /\ k \in Nat /\ k \in 0..Len(t) /\ k <= Len(t)
  BY EditorHas DEF Texts
<1>2. /\ next \in 0..Len(t) /\ Bol(t, k) \in 0..Len(t) /\ Eol(t, k) \in 0..Len(t)
      /\ FirstNonBlank(t, k) \in 0..Len(t)
  <2> HIDE DEF t, k
  <2>1. Eol(t, k) \in 0..Len(t) /\ Bol(t, k) \in 0..k
    BY <1>1, LineEnds
  <2>2. next = IF Eol(t, k) + 1 <= Len(t) THEN Eol(t, k) + 1 ELSE Len(t)
    <3>1. Eol(t, k) + 1 \in Int /\ Len(t) \in Int
      BY <1>1, <2>1
    <3> QED BY <3>1, OfTwo
  <2>3. next \in 0..Len(t)
    BY <1>1, <2>1, <2>2
  <2>4. Bol(t, k) \in 0..Len(t)
    BY <1>1, <2>1
  <2> QED BY <2>1, <2>3, <2>4, <1>1, FirstNonBlankIn
<1>3. ASSUME NEW p \in Nat, c \in {"i", "a", "I", "A"}, c # "a" => p \in 0..Len(t), g = at(p)
      PROVE  Entered(C, e, g, c)
  <2>1. Opens(C, e, g, c, t, p, Insertion(e.modified, p, 0), e.modified)
    <3> HIDE DEF g
    <3> QED BY <1>3, InsertsAt
  <2> HIDE DEF g
  <2> QED BY <2>1, <1>3 DEF Entered
<1>4. ASSUME NEW p \in 0..Len(t), c \in {"o", "O"}, g = opened(e, p)
      PROVE  Entered(C, e, g, c)
  <2>1. Becomes(C, e, e, t, k, e.undo, e.modified) /\ p \in Nat
    BY BecomesSame
  <2> HIDE DEF g, t, k
  <2>2. Opens(C, e, g, c, Inserted(t, p, <<NL>>), p, Insertion(e.modified, p, 1), Changed)
    BY <1>4, <2>1, LineOpened
  <2> QED BY <2>2, <1>4 DEF Entered, t
<1>5. ASSUME c = "o", bare PROVE Entered(C, e, g, c)
  <2> DEFINE s == Inserted(t, Len(t), <<NL>>)
             p == Len(t) + 1
             w == <<NL>>
             n == Len(t)
             f == GbInsert(e, n, w)
  <2>1. g = opened(f, p)
    BY <1>5 DEF Enter
  <2>2. p \in Nat /\ n \in Nat /\ w \in Seq(C)
    BY <1>1 DEF AlphabetOK
  <2>3. Becomes(C, e, f, s, k, e.undo, e.modified)
    <3>1. n \in Nat /\ w \in Seq(C)
      BY <2>2
    <3> HIDE DEF n, w
    <3>2. TextIs(C, e, GbInsert(e, n, w), Inserted(e.text, n, w))
      BY <3>1, GbInsertIs
    <3> QED BY <3>2 DEF TextIs, n, w
  <2> HIDE DEF f, s, p, g, k, t
  <2>4. Opens(C, e, g, c, Inserted(s, p, <<NL>>), p, Insertion(e.modified, p, 1), Changed)
    BY <2>1, <2>2, <2>3, LineOpened
  <2> QED BY <2>4, <1>5 DEF Entered, s, p, Bare, t
<1>6. CASE c = "i"
  <2>1. g = at(k)
    BY <1>6 DEF Enter
  <2> HIDE DEF g, at
  <2> QED BY <2>1, <1>1, <1>3, <1>6 DEF at
<1>7. CASE c = "a"
  <2>1. g = at(k + 1) \/ g = at(k)
    BY <1>7 DEF Enter
  <2>2. k + 1 \in Nat
    BY <1>1
  <2> HIDE DEF g, at
  <2> QED BY <2>1, <2>2, <1>1, <1>3, <1>7 DEF at
<1>8. CASE c = "I"
  <2>1. g = at(FirstNonBlank(t, k))
    BY <1>8 DEF Enter
  <2>2. FirstNonBlank(t, k) \in Nat
    BY <1>2
  <2> HIDE DEF g, at
  <2> QED BY <2>1, <2>2, <1>2, <1>3, <1>8 DEF at
<1>9. CASE c = "A"
  <2>1. g = at(Eol(t, k))
    BY <1>9 DEF Enter
  <2>2. Eol(t, k) \in Nat
    BY <1>2
  <2> HIDE DEF g, at
  <2> QED BY <2>1, <2>2, <1>2, <1>3, <1>9 DEF at
<1>10. CASE c = "o" /\ ~bare
  <2>1. g = opened(e, next)
    BY <1>10 DEF Enter
  <2> HIDE DEF g, opened, next
  <2> QED BY <2>1, <1>2, <1>4, <1>10 DEF opened
<1>11. CASE c = "O"
  <2>1. g = opened(e, Bol(t, k))
    BY <1>11 DEF Enter
  <2> HIDE DEF g, opened
  <2> QED BY <2>1, <1>2, <1>4, <1>11 DEF opened
<1> HIDE DEF g, bare
<1> QED BY <1>5, <1>6, <1>7, <1>8, <1>9, <1>10, <1>11 DEF InsertCmds, g

(* But for a, beginning to insert is sound.                                *)
LEMMA EnteredSound ==
    ASSUME NEW C, AlphabetOK(C), NEW e \in Editing(C), NEW c \in InsertCmds, NEW g,
           Entered(C, e, g, c)
    PROVE  /\ g \in Editing(C) /\ g.mode = "insert" /\ g.ins = c /\ g.dot = e.dot
           /\ g.undo.type = "insert"
           /\ c # "a" => Sound(e, g)
           /\ ~g.modified => ~e.modified /\ g.text = e.text
<1> DEFINE t == e.text
           w == <<NL>>
           Good == /\ g \in Editing(C) /\ g.mode = "insert" /\ g.ins = c /\ g.dot = e.dot
                   /\ g.undo.type = "insert"
                   /\ c # "a" => Sound(e, g)
                   /\ ~g.modified => ~e.modified /\ g.text = e.text
<1>1. t \in Texts(C, Capacity) /\ Len(t) \in Nat /\ Len(t) <= Capacity /\ w \in Seq(C) /\ Len(w) = 1
  BY EditorHas DEF Texts, AlphabetOK
<1>2. ASSUME NEW s, NEW p, NEW m, NEW n, Opens(C, e, g, c, s, p, Insertion(e.modified, p, n), m),
             c # "a" => Placed(s, p), m = Changed \/ (m = e.modified /\ s = t)
      PROVE  Good
  <2> DEFINE u == Insertion(e.modified, p, n)
  <2>1. /\ g \in Editing(C) /\ g.mode = "insert" /\ g.ins = c /\ g.dot = e.dot
        /\ g.text = s /\ g.undo = u /\ g.modified = m
    BY <1>2 DEF Opens
  <2>2. u.type = "insert"
    BY DEF Insertion
  <2>3. p <= Len(s) => Within(u, s)
    BY WithinIs
  <2> HIDE DEF u
  <2>4. c # "a" => Sound(e, g)
    BY <1>2, <2>3, SoundOpens DEF u
  <2>5. ~g.modified => ~e.modified /\ g.text = e.text
    <3>1. CASE m = Changed
      BY <3>1, <2>1 DEF Changed
    <3>2. CASE m = e.modified /\ s = t
      BY <3>2, <2>1
    <3> QED BY <1>2, <3>1, <3>2
  <2> QED BY <2>1, <2>2, <2>4, <2>5
<1>3. ASSUME NEW p \in Nat, c # "a" => p \in 0..Len(t),
             Opens(C, e, g, c, t, p, Insertion(e.modified, p, 0), e.modified)
      PROVE  Good
  <2>1. c # "a" => Placed(t, p)
    <3>1. p \in 0..Len(t) => p <= Len(t)
      BY <1>1
    <3> QED BY <1>3, <3>1 DEF Placed
  <2> HIDE DEF Good
  <2> QED BY <1>2, <1>3, <2>1
<1>4. ASSUME NEW p \in 0..Len(t),
             Opens(C, e, g, c, Inserted(t, p, w), p, Insertion(e.modified, p, 1), Changed)
      PROVE  Good
  <2> HIDE DEF w, t, Good
  <2>1. Len(t) <= Len(Inserted(t, p, w)) /\ Len(Inserted(t, p, w)) \in Nat /\ p \in Nat /\ p <= Len(t)
    <3>1. p \in Nat /\ p <= Len(t)
      BY <1>1
    <3> QED BY <3>1, <1>1, LongerText
  <2>2. Placed(Inserted(t, p, w), p)
    BY <1>1, <2>1 DEF Placed
  <2> QED BY <1>2, <1>4, <2>2
<1>5. LET s == Inserted(t, Len(t), w)
          p == Len(t) + 1
      IN  Opens(C, e, g, c, Inserted(s, p, w), p, Insertion(e.modified, p, 1), Changed) => Good
  <2> DEFINE s == Inserted(t, Len(t), w)
             p == Len(t) + 1
             z == Inserted(s, p, w)
  <2>1. Placed(z, p)
    <3> HIDE DEF w, t
    <3>1. p \in Nat /\ Len(t) \in Nat
      BY <1>1
    <3>2. /\ s \in Texts(C, Capacity) /\ Room(t, w) \in Seq(C)
          /\ Len(t) + Len(w) <= Capacity => Room(t, w) = w
          /\ Len(t) + Len(w) > Capacity => Len(t) + Len(Room(t, w)) = Capacity
          /\ Len(s) = Len(t) + Len(Room(t, w))
      BY <1>1, InsertedIs
    <3>3. Len(s) = Len(t) + 1 \/ Len(s) = Capacity
      <4>1. CASE Len(t) + Len(w) <= Capacity
        <5>1. Len(Room(t, w)) = Len(w)
          BY <4>1, <3>2
        <5> QED BY <5>1, <3>2, <1>1
      <4>2. CASE Len(t) + Len(w) > Capacity
        BY <4>2, <3>2
      <4>3. Len(t) + Len(w) <= Capacity \/ Len(t) + Len(w) > Capacity
        BY <1>1, LimitsAssumption
      <4> QED BY <4>1, <4>2, <4>3
    <3> HIDE DEF s, p
    <3>4. Len(s) <= Len(z) /\ Len(s) \in Nat /\ Len(z) \in Nat
      BY <3>1, <3>2, <1>1, LongerText
    <3> HIDE DEF z
    <3> QED BY <3>3, <3>4, LimitsAssumption DEF Placed, p
  <2> HIDE DEF z, Good
  <2>2. ASSUME Opens(C, e, g, c, z, p, Insertion(e.modified, p, 1), Changed)
        PROVE  Good
    <3> HIDE DEF p
    <3> QED BY <2>1, <2>2, <1>2
  <2> QED BY <2>2 DEF z
<1> HIDE DEF Good
<1>6. Good
  BY <1>3, <1>4, <1>5 DEF Entered
<1> QED BY <1>6 DEF Good

(* A text is what comes before a place and what comes after it.            *)
LEMMA Whole ==
    ASSUME NEW C, NEW t \in Seq(C), NEW p \in 0..Len(t)
    PROVE  First(t, p) \o From(t, p) = t
<1>1. p \in Nat /\ p <= Len(t) /\ Len(t) \in Nat
  OBVIOUS
<1>2. First(t, p) = SubSeq(t, 1, p)
  BY <1>1, FirstIs
<1>3. SubSeq(t, 1, p) \o SubSeq(t, p + 1, Len(t)) = SubSeq(t, 1, Len(t))
  <2>1. 1 \in 1..(Len(t) + 1) /\ p \in (1 - 1)..Len(t) /\ Len(t) \in p..Len(t)
    BY <1>1
  <2> QED BY <2>1, ConcatAdjacentSubSeq
<1>4. SubSeq(t, 1, Len(t)) = t
  BY SubSeqFull
<1> QED BY <1>2, <1>3, <1>4 DEF From

(* Nothing put in changes nothing.                                         *)
LEMMA InsertedNothing ==
    ASSUME NEW C, NEW t \in Texts(C, Capacity), NEW p \in 0..Len(t), NEW s \in Seq(C),
           Len(t) >= Capacity
    PROVE  Inserted(t, p, s) = t
<1>1. t \in Seq(C) /\ Len(t) \in Nat /\ Len(t) = Capacity /\ p \in Nat
  BY LimitsAssumption DEF Texts
<1>2. Capacity - Len(t) = 0
  BY <1>1
<1>3. Room(t, s) = SubSeq(s, 1, 0)
  <2>1. First(s, 0) = SubSeq(s, 1, IF 0 <= Len(s) THEN 0 ELSE Len(s))
    BY FirstIs
  <2>2. 0 <= Len(s)
    OBVIOUS
  <2> QED BY <2>1, <2>2, <1>2 DEF Room
<1>4. Room(t, s) = << >>
  BY <1>3
<1>5. First(t, p) \in Seq(C)
  BY <1>1, FirstIs
<1>6. First(t, p) \o << >> = First(t, p)
  BY <1>5
<1>7. First(t, p) \o From(t, p) = t
  BY <1>1, Whole
<1> QED BY <1>4, <1>6, <1>7 DEF Inserted

\* An insertion's record, n characters longer.
Longer(u, n) == IF u.type = "insert" THEN [u EXCEPT !.len = Max({u.len + n, 0})] ELSE u

(* It is a record.                                                         *)
LEMMA LongerIs ==
    ASSUME NEW C, NEW u \in UndoRecords(C), NEW n \in Int
    PROVE  /\ Longer(u, n) \in UndoRecords(C)
           /\ Longer(u, n).type = u.type /\ Longer(u, n).pos = u.pos
           /\ Longer(u, n).was_clean = u.was_clean
           /\ u.type = "insert" => Longer(u, n).len = Max({u.len + n, 0})
<1> DEFINE k == Max({u.len + n, 0})
<1>1. u.len \in Nat
  BY DEF UndoRecords
<1>2. k \in Nat
  <2> DEFINE l == u.len
  <2>1. l \in Nat
    BY <1>1
  <2> HIDE DEF l
  <2>2. l + n \in Int /\ 0 \in Int
    BY <2>1
  <2>3. Max({l + n, 0}) = IF l + n <= 0 THEN 0 ELSE l + n
    BY <2>2, OfTwo
  <2>4. Max({l + n, 0}) \in Nat
    BY <2>2, <2>3
  <2> QED BY <2>4 DEF l
<1>3. Longer(u, n) = IF u.type = "insert" THEN [u EXCEPT !.len = k] ELSE u
  BY DEF Longer
<1> HIDE DEF k
<1>4. Longer(u, n) \in UndoRecords(C)
  BY <1>2, <1>3 DEF UndoRecords
<1>5. /\ Longer(u, n).type = u.type /\ Longer(u, n).pos = u.pos
      /\ Longer(u, n).was_clean = u.was_clean
      /\ u.type = "insert" => Longer(u, n).len = k
  BY <1>3 DEF UndoRecords
<1> QED BY <1>4, <1>5 DEF k

(* The record grows.                                                       *)
LEMMA GrownIs ==
    ASSUME NEW C, NEW e, NEW f, NEW t, NEW p, NEW u, NEW m, Becomes(C, e, f, t, p, u, m),
           NEW n \in Int
    PROVE  Becomes(C, e, Grown(f, n), t, p, Longer(u, n), m)
<1> DEFINE v == Longer(u, n)
           g == Grown(f, n)
<1>1. f \in Editing(C) /\ f.text = t /\ f.cur_pos = p /\ f.undo = u /\ f.modified = m
  BY FieldsAre
<1>2. u \in UndoRecords(C)
  BY <1>1, EditorHas
<1>3. v \in UndoRecords(C)
  BY <1>2, LongerIs
<1>4. g = [f EXCEPT !.undo = v]
  <2>1. CASE u.type = "insert"
    <3>1. v = [u EXCEPT !.len = Max({u.len + n, 0})]
      BY <2>1 DEF Longer
    <3>2. g = [f EXCEPT !.undo.len = Max({u.len + n, 0})]
      BY <2>1, <1>1 DEF Grown
    <3> HIDE DEF g, v
    <3> QED BY <3>1, <3>2, <1>1 DEF Editing, Editors
  <2>2. CASE u.type # "insert"
    <3>1. v = u /\ g = f
      BY <2>2, <1>1 DEF Grown, Longer
    <3> HIDE DEF g, v
    <3> QED BY <3>1, <1>1 DEF Editing, Editors
  <2> QED BY <2>1, <2>2
<1> HIDE DEF v, g
<1>5. Becomes(C, f, g, f.text, f.cur_pos, v, f.modified)
  BY <1>1, <1>3, <1>4, UndoChanged
<1>6. Becomes(C, f, g, t, p, v, m)
  BY <1>1, <1>5
<1>7. Becomes(C, e, g, t, p, v, m)
  BY <1>6, AfterThat
<1> QED BY <1>7 DEF g, v

(* A character typed.                                                      *)
LEMMA TypeIs ==
    ASSUME NEW C, NEW e \in Editing(C), e.cur_pos \in 0..Len(e.text), NEW c \in C
    PROVE  /\ Full(e) => Becomes(C, e, Type(e, c), e.text, e.cur_pos, e.undo, e.modified)
           /\ ~Full(e) => /\ Becomes(C, e, Type(e, c), Inserted(e.text, e.cur_pos, <<c>>),
                                     e.cur_pos + 1, Longer(e.undo, 1), Changed)
                          /\ Len(Inserted(e.text, e.cur_pos, <<c>>)) = Len(e.text) + 1
<1> DEFINE t == e.text
           p == e.cur_pos
           w == <<c>>
           a == GbInsert(e, p, w)
           s == Inserted(t, p, w)
           b == CursorAt(a, p + 1)
           d == Modified(b)
           g == Grown(d, 1)
<1>1. t \in Texts(C, Capacity) /\ Len(t) \in Nat /\ p \in Nat /\ p \in 0..Len(t) /\ w \in Seq(C) /\ Len(w) = 1
  BY EditorHas DEF Texts
<1>2. Type(e, c) = IF Full(e) THEN a ELSE g
  BY DEF Type
<1>3. Becomes(C, e, a, s, p, e.undo, e.modified)
  <2> HIDE DEF w, p
  <2>1. TextIs(C, e, a, Inserted(e.text, p, w))
    BY <1>1, GbInsertIs
  <2> QED BY <2>1 DEF TextIs, p
<1> HIDE DEF a, s
<1>4. CASE Full(e)
  <2>1. s = t
    <3>1. Len(t) >= Capacity
      BY <1>4 DEF Full
    <3> HIDE DEF t, p, w
    <3> QED BY <3>1, <1>1, InsertedNothing DEF s
  <2> QED BY <1>2, <1>3, <1>4, <2>1
<1>5. CASE ~Full(e)
  <2>1. Becomes(C, e, b, s, p + 1, e.undo, e.modified)
    <3> DEFINE q == p + 1
    <3>1. q \in Nat
      BY <1>1
    <3> HIDE DEF q, p
    <3>2. Becomes(C, e, CursorAt(a, q), s, q, e.undo, e.modified)
      BY <3>1, <1>3, PlacedIs
    <3> QED BY <3>2 DEF q
  <2> HIDE DEF b
  <2>2. Becomes(C, e, d, s, p + 1, e.undo, Changed)
    <3> DEFINE q == p + 1
    <3> HIDE DEF q
    <3>1. Becomes(C, e, b, s, q, e.undo, e.modified)
      BY <2>1 DEF q
    <3>2. Becomes(C, e, d, s, q, e.undo, Changed)
      BY <3>1, FlagAfter
    <3> QED BY <3>2 DEF q
  <2> HIDE DEF d
  <2>3. Becomes(C, e, g, s, p + 1, Longer(e.undo, 1), Changed)
    <3> DEFINE q == p + 1
    <3> HIDE DEF q
    <3>1. Becomes(C, e, d, s, q, e.undo, Changed) /\ 1 \in Int
      BY <2>2 DEF q
    <3>2. Becomes(C, e, g, s, q, Longer(e.undo, 1), Changed)
      BY <3>1, GrownIs
    <3> QED BY <3>2 DEF q
  <2>4. Len(s) = Len(t) + 1
    <3>1. ~ (Len(t) >= Capacity)
      BY <1>5 DEF Full
    <3> HIDE DEF t, p, w
    <3>2. /\ Len(t) + Len(w) <= Capacity => Room(t, w) = w
          /\ Len(s) = Len(t) + Len(Room(t, w))
      BY ZenonT(30), <1>1, InsertedIs DEF s
    <3>3. Len(t) + Len(w) <= Capacity
      BY <1>1, <3>1, LimitsAssumption
    <3>4. Len(s) = Len(t) + Len(w)
      BY <3>2, <3>3
    <3> QED BY <3>4, <1>1
  <2> HIDE DEF g, t, p
  <2> QED BY <1>2, <1>5, <2>3, <2>4 DEF s, w, t, p
<1> QED BY <1>4, <1>5

(* Characters erased.                                                      *)
LEMMA ErasedIs ==
    ASSUME NEW C, NEW e \in Editing(C), NEW q \in 0..e.cur_pos
    PROVE  /\ q = e.cur_pos => Erased(e, q) = e
           /\ q # e.cur_pos => Becomes(C, e, Erased(e, q), Cut(e.text, q, e.cur_pos - q), q,
                                       Longer(e.undo, q - e.cur_pos), Changed)
<1> DEFINE p == e.cur_pos
           n == p - q
           k == q - p
           a == CursorAt(e, q)
           b == GbDelete(a, q, n)
           d == Modified(b)
           g == Grown(d, k)
           x == Cut(e.text, q, n)
<1>1. p \in Nat /\ q \in Nat /\ n \in Nat /\ k \in Int
  <2>1. p \in Nat /\ q \in 0..p
    BY EditorHas
  <2> HIDE DEF p
  <2> QED BY <2>1
<1>2. Erased(e, q) = IF q = p THEN e ELSE g
  BY DEF Erased
<1> HIDE DEF n, k
<1>3. Becomes(C, e, a, e.text, q, e.undo, e.modified)
  BY <1>1, CursorAtIs
<1> HIDE DEF a
<1>4. a \in Editing(C) /\ a.text = e.text /\ a.cur_pos = q /\ a.undo = e.undo /\ a.modified = e.modified
  BY <1>3, FieldsAre
<1>5. Becomes(C, a, b, Cut(a.text, q, n), a.cur_pos, a.undo, a.modified)
  BY <1>1, <1>4, GbDeleteIs DEF TextIs
<1> HIDE DEF b
<1>6. Becomes(C, e, b, x, q, e.undo, e.modified)
  <2>1. Becomes(C, a, b, x, q, e.undo, e.modified)
    BY <1>4, <1>5
  <2> HIDE DEF x
  <2> QED BY <2>1, <1>3, AfterThat
<1> HIDE DEF x
<1>7. Becomes(C, e, d, x, q, e.undo, Changed)
  BY <1>6, FlagAfter
<1> HIDE DEF d
<1>8. Becomes(C, e, g, x, q, Longer(e.undo, k), Changed)
  BY <1>1, <1>7, GrownIs
<1> HIDE DEF g
<1> QED BY <1>2, <1>8 DEF x, n, k, p

Erasers == {"BS", "^W", "^U"}

\* What a key does in insert mode.
Keyed(C, e, g, k) ==
    \/ g = e
    \/ /\ k \in Erasers
       /\ \E q \in 0..e.cur_pos :
            /\ q # e.cur_pos
            /\ Becomes(C, e, g, Cut(e.text, q, e.cur_pos - q), q,
                       Longer(e.undo, q - e.cur_pos), Changed)
    \/ k \in {"Left", "Right"} /\ Moved(C, e, g)
    \/ /\ k \notin InsertKeys /\ Full(e)
       /\ Becomes(C, e, g, e.text, e.cur_pos, e.undo, e.modified)
    \/ /\ k \notin InsertKeys /\ ~Full(e)
       /\ Becomes(C, e, g, Inserted(e.text, e.cur_pos, <<k>>), e.cur_pos + 1,
                  Longer(e.undo, 1), Changed)
       /\ Len(Inserted(e.text, e.cur_pos, <<k>>)) = Len(e.text) + 1

(* So it does.                                                             *)
LEMMA InsertKeyIs ==
    ASSUME NEW C, NEW e \in Editing(C), e.cur_pos \in 0..Len(e.text),
           NEW k, k \in InsertKeys \/ (k \in C /\ k \notin InsertKeys)
    PROVE  Keyed(C, e, InsertKey(e, k), k)
<1> DEFINE g == InsertKey(e, k)
           t == e.text
           p == e.cur_pos
           Goal == Keyed(C, e, g, k)
<1> SUFFICES Goal
  OBVIOUS
<1>1. t \in Texts(C, Capacity) /\ t \in Seq(C) /\ Len(t) \in Nat /\ p \in Nat /\ p \in 0..Len(t)
  BY EditorHas DEF Texts
<1>2. ASSUME NEW q \in 0..p, k \in Erasers, g = Erased(e, q)
      PROVE  Goal
  <2>1. q = p => Erased(e, q) = e
    BY ErasedIs
  <2>2. q # p => Becomes(C, e, Erased(e, q), Cut(t, q, p - q), q, Longer(e.undo, q - p), Changed)
    BY ErasedIs
  <2> HIDE DEF g
  <2> QED BY <1>2, <2>1, <2>2 DEF Keyed
<1>3. CASE k = "BS"
  <2> DEFINE q == Max({p - 1, 0})
  <2>1. g = Erased(e, q)
    BY <1>3 DEF InsertKey
  <2>2. q \in 0..p
    <3> HIDE DEF p
    <3>1. p - 1 \in Int /\ 0 \in Int
      BY <1>1
    <3>2. q = IF p - 1 <= 0 THEN 0 ELSE p - 1
      BY <3>1, OfTwo
    <3> QED BY <3>2, <1>1
  <2> HIDE DEF g, q, Goal
  <2> QED BY <2>1, <2>2, <1>2, <1>3 DEF Erasers
<1>4. CASE k = "^W"
  <2> DEFINE q == WordStart(t, p)
  <2>1. g = Erased(e, q)
    BY <1>4 DEF InsertKey
  <2>2. q \in 0..p
    BY <1>1, WordStartIn
  <2> HIDE DEF g, q, Goal
  <2> QED BY <2>1, <2>2, <1>2, <1>4 DEF Erasers
<1>5. CASE k = "^U"
  <2> DEFINE q == Bol(t, p)
             f == Erased(e, q)
             n == p - q
             u == Longer(e.undo, q - p)
  <2>1. g = IF q = p THEN e ELSE [f EXCEPT !.cur_vrow = -1]
    BY <1>5 DEF InsertKey, ErasedLine
  <2>2. q \in 0..p
    BY <1>1, LineEnds
  <2> HIDE DEF q, g
  <2>3. q # p => Becomes(C, e, f, Cut(t, q, n), q, u, Changed)
    BY <2>2, ErasedIs
  <2> HIDE DEF f, n, u
  <2>4. CASE q # p
    <3> DEFINE x == Cut(t, q, n)
    <3> HIDE DEF x
    <3>1. Becomes(C, e, f, x, q, u, Changed)
      BY <2>3, <2>4 DEF x
    <3>2. f \in Editing(C) /\ f.text = x /\ f.cur_pos = q /\ f.undo = u /\ f.modified = Changed
      BY <3>1, FieldsAre
    <3>3. g = [f EXCEPT !.cur_vrow = -1]
      BY <2>1, <2>4
    <3>4. Becomes(C, f, g, f.text, f.cur_pos, f.undo, f.modified)
      BY <3>2, <3>3, RowIs DEF TextIs
    <3>5. Becomes(C, f, g, x, q, u, Changed)
      BY <3>2, <3>4
    <3>6. Becomes(C, e, g, x, q, u, Changed)
      BY <3>1, <3>5, AfterThat
    <3> QED BY <3>6, <2>2, <2>4, <1>5 DEF Keyed, x, n, u, Erasers
  <2>5. CASE q = p
    BY <2>1, <2>5 DEF Keyed
  <2> QED BY <2>4, <2>5
<1>6. CASE k \in {"Left", "Right"}
  <2>1. PICK m \in {"h", "l"} : g = CursorAt(e, Target(t, p, m, 1, 0, 0))
    BY <1>6 DEF InsertKey
  <2> DEFINE q == Target(t, p, m, 1, 0, 0)
  <2>2. q \in 0..Len(t)
    <3>1. m \in Motions /\ 1 \in Nat /\ 0 \in Nat
      BY DEF Motions, OpMotions
    <3> QED BY <3>1, <1>1, TargetIn
  <2>3. g = CursorAt(e, q)
    BY <2>1
  <2> HIDE DEF q, g
  <2>4. Becomes(C, e, g, t, q, e.undo, e.modified)
    <3>1. q \in Nat
      BY <2>2
    <3> QED BY <3>1, <2>3, CursorAtIs
  <2>5. Moved(C, e, g)
    BY <2>2, <2>4 DEF Moved
  <2> QED BY <2>5, <1>6 DEF Keyed
<1>7. CASE k \notin InsertKeys
  <2>1. g = Type(e, k)
    BY <1>7 DEF InsertKey, InsertKeys
  <2>2. k \in C
    BY <1>7
  <2>3. /\ Full(e) => Becomes(C, e, g, e.text, e.cur_pos, e.undo, e.modified)
        /\ ~Full(e) => /\ Becomes(C, e, g, Inserted(e.text, e.cur_pos, <<k>>),
                                  e.cur_pos + 1, Longer(e.undo, 1), Changed)
                       /\ Len(Inserted(e.text, e.cur_pos, <<k>>)) = Len(e.text) + 1
    BY <2>1, <2>2, TypeIs
  <2> HIDE DEF g
  <2> QED BY <2>3, <1>7 DEF Keyed
<1> HIDE DEF g
<1> QED BY <1>3, <1>4, <1>5, <1>6, <1>7 DEF InsertKeys, g

(* But for erasing, that is sound; and erasing leaves the cursor in the    *)
(* text.                                                                   *)
LEMMA KeyedSound ==
    ASSUME NEW C, NEW e \in Editing(C), e.cur_pos \in 0..Len(e.text), NEW k, NEW g,
           Keyed(C, e, g, k)
    PROVE  /\ g \in Editing(C) /\ g.mode = e.mode /\ g.ins = e.ins /\ g.dot = e.dot
           /\ g.undo.type = e.undo.type
           /\ Placed(g.text, g.cur_pos)
           /\ k \notin Erasers => Sound(e, g)
           /\ ~g.modified => ~e.modified /\ g.text = e.text
<1> DEFINE t == e.text
           p == e.cur_pos
           Good == /\ g \in Editing(C) /\ g.mode = e.mode /\ g.ins = e.ins /\ g.dot = e.dot
                   /\ g.undo.type = e.undo.type
                   /\ Placed(g.text, g.cur_pos)
                   /\ k \notin Erasers => Sound(e, g)
                   /\ ~g.modified => ~e.modified /\ g.text = e.text
<1> SUFFICES Good
  OBVIOUS
<1>1. /\ t \in Texts(C, Capacity) /\ Len(t) \in Nat /\ p \in Nat /\ p <= Len(t)
      /\ e.undo \in UndoRecords(C)
  BY EditorHas DEF Texts
<1>2. ASSUME NEW s, NEW q, NEW u, NEW m, Becomes(C, e, g, s, q, u, m),
             u.type = e.undo.type, Placed(s, q),
             k \notin Erasers => (Within(e.undo, t) /\ q <= Len(s) => Within(u, s)),
             m = Changed \/ (m = e.modified /\ s = t)
      PROVE  Good
  <2>1. /\ g \in Editing(C) /\ g.mode = e.mode /\ g.ins = e.ins /\ g.dot = e.dot
        /\ g.text = s /\ g.cur_pos = q /\ g.undo = u /\ g.modified = m
    BY <1>2, FieldsAre
  <2>2. k \notin Erasers => Sound(e, g)
    BY <1>2, SoundBecomes
  <2>3. ~g.modified => ~e.modified /\ g.text = e.text
    <3>1. CASE m = Changed
      BY <3>1, <2>1 DEF Changed
    <3>2. CASE m = e.modified /\ s = t
      BY <3>2, <2>1
    <3> QED BY <1>2, <3>1, <3>2
  <2> QED BY <1>2, <2>1, <2>2, <2>3
<1> HIDE DEF Good
<1>3. CASE g = e
  <2>1. Becomes(C, e, g, t, p, e.undo, e.modified)
    BY <1>3 DEF Becomes
  <2>2. Placed(t, p)
    BY <1>1 DEF Placed
  <2> QED BY <2>1, <2>2, <1>2
<1>4. CASE k \in Erasers /\ \E q \in 0..p :
             Becomes(C, e, g, Cut(t, q, p - q), q, Longer(e.undo, q - p), Changed)
  <2>1. PICK q \in 0..p : Becomes(C, e, g, Cut(t, q, p - q), q, Longer(e.undo, q - p), Changed)
    BY <1>4
  <2> DEFINE x == Cut(t, q, p - q)
             u == Longer(e.undo, q - p)
  <2>2. q \in Nat /\ p - q \in Nat /\ q - p \in Int /\ q <= Len(t)
    <3> HIDE DEF p, t
    <3> QED BY <1>1
  <2>3. u.type = e.undo.type
    <3> DEFINE n == q - p
    <3>1. n \in Int
      BY <2>2
    <3> HIDE DEF n
    <3>2. Longer(e.undo, n).type = e.undo.type
      BY <1>1, <3>1, LongerIs
    <3> QED BY <3>2 DEF n
  <2>4. Placed(x, q)
    <3> DEFINE n == p - q
    <3>1. n \in Nat /\ Capacity \in Nat
      BY <2>2, LimitsAssumption
    <3> HIDE DEF n, t
    <3>2. q <= Len(Cut(t, q, n))
      BY <1>1, <2>2, <3>1, CutIs
    <3> QED BY <3>2 DEF Placed, n
  <2> HIDE DEF x, u
  <2> QED BY <1>2, <1>4, <2>1, <2>3, <2>4 DEF x, u
<1>5. CASE Moved(C, e, g)
  <2>1. PICK q \in 0..Len(t) : Becomes(C, e, g, t, q, e.undo, e.modified)
    BY <1>5 DEF Moved
  <2>2. Placed(t, q)
    <3>1. q <= Len(t)
      BY <1>1
    <3> QED BY <3>1 DEF Placed
  <2> QED BY <2>1, <2>2, <1>2
<1>6. CASE Becomes(C, e, g, t, p, e.undo, e.modified)
  <2>1. Placed(t, p)
    BY <1>1 DEF Placed
  <2> QED BY <1>6, <2>1, <1>2
<1>7. CASE /\ Becomes(C, e, g, Inserted(t, p, <<k>>), p + 1, Longer(e.undo, 1), Changed)
           /\ Len(Inserted(t, p, <<k>>)) = Len(t) + 1
  <2> DEFINE x == Inserted(t, p, <<k>>)
             u == Longer(e.undo, 1)
             q == p + 1
  <2>1. q <= Len(x) /\ Len(t) <= Len(x) /\ Len(x) \in Nat
    <3>1. Len(x) = Len(t) + 1
      BY <1>7
    <3> HIDE DEF p, t, x
    <3> QED BY <3>1, <1>1
  <2>2. u.type = e.undo.type /\ u.pos = e.undo.pos /\ e.undo.pos \in Nat
    <3>1. 1 \in Int
      OBVIOUS
    <3>2. u.type = e.undo.type /\ u.pos = e.undo.pos
      BY <1>1, <3>1, LongerIs
    <3>3. e.undo.pos \in Nat
      BY <1>1 DEF UndoRecords
    <3> QED BY <3>2, <3>3
  <2>3. Within(e.undo, t) => Within(u, x)
    <3> DEFINE y == e.undo.pos
    <3>1. y <= Len(t) => y <= Len(x)
      <4>1. y \in Nat
        BY <2>2
      <4> HIDE DEF y, t, x
      <4> QED BY <4>1, <2>1, <1>1
    <3> QED BY <3>1, <2>2 DEF Within
  <2>4. Placed(x, q)
    BY <2>1 DEF Placed
  <2>5. Becomes(C, e, g, x, q, u, Changed)
    BY <1>7
  <2> HIDE DEF x, u, q
  <2> QED BY <1>2, <2>2, <2>3, <2>4, <2>5
<1> QED BY <1>3, <1>4, <1>5, <1>6, <1>7 DEF Keyed

(* ESC.                                                                    *)
LEMMA EscapeIs ==
    ASSUME NEW C, AlphabetOK(C), NEW e \in Editing(C), e.cur_pos \in 0..Len(e.text)
    PROVE  LET g == Escape(e)
               kept == ~ (e.ins # None /\ e.undo.type = "insert" /\ e.undo.len > 0)
           IN  /\ g \in Editing(C) /\ g.mode = "normal" /\ g.ins = None
               /\ g.text = e.text /\ g.undo = e.undo /\ g.modified = e.modified
               /\ Sound(e, g)
               /\ kept => g.dot = e.dot
               /\ ~kept => /\ g.dot.cmd = e.ins /\ g.dot.arg = None
                           /\ g.dot.motion = IF e.ins = "c" THEN e.dot.motion ELSE None
<1> DEFINE t == e.text
           p == e.cur_pos
           u == e.undo
           k == Min({u.len, DotTextMax})
           x == Copied(t, u.pos, k, Absent)
           r == [cmd |-> e.ins, count |-> 1, arg |-> None,
                 motion |-> IF e.ins = "c" THEN e.dot.motion ELSE None, text |-> x]
           kept == ~ (e.ins # None /\ u.type = "insert" /\ u.len > 0)
           d == [e EXCEPT !.dot = r]
           f == IF kept THEN e ELSE d
           q == IF p > 0 /\ At(t, p - 1) # NL THEN p - 1 ELSE p
           h == [f EXCEPT !.mode = "normal", !.ins = None, !.cur_pos = q]
           g == Counted(h)
<1>1. /\ t \in Seq(C) /\ Len(t) \in Nat /\ p \in Nat /\ p <= Len(t) /\ u \in UndoRecords(C)
      /\ u.len \in Nat /\ u.pos \in Nat
      /\ e.ins \in InsertCmds \cup {"c", None} /\ e.dot \in DotRecords(C)
      /\ e.dot.motion \in OpMotions \cup {"d", "c", None}
  BY EditorHas DEF Texts, UndoRecords, DotRecords
<1>2. k \in Nat /\ k <= DotTextMax
  <2> DEFINE l == u.len
  <2>1. l \in Nat /\ DotTextMax \in Nat
    BY <1>1, LimitsAssumption
  <2> HIDE DEF l
  <2>2. Min({l, DotTextMax}) = IF l <= DotTextMax THEN l ELSE DotTextMax
    BY <2>1, OfTwo
  <2>3. Min({l, DotTextMax}) \in Nat /\ Min({l, DotTextMax}) <= DotTextMax
    BY <2>1, <2>2
  <2> QED BY <2>3 DEF l
<1> HIDE DEF k
<1>3. x \in Texts(C, DotTextMax)
  <2>1. Absent \in C
    BY DEF AlphabetOK
  <2> DEFINE w == u.pos
  <2>3. w \in Nat
    BY <1>1
  <2> HIDE DEF w, t
  <2>4. t \in Seq(C) /\ k \in Nat
    BY <1>1, <1>2
  <2>5. Copied(t, w, k, Absent) \in Seq(C) /\ Len(Copied(t, w, k, Absent)) = k
    BY ONLY <2>1, <2>3, <2>4, CopiedIs
  <2>2. x \in Seq(C) /\ Len(x) = k
    BY <2>5 DEF w
  <2> QED BY <1>2, <2>2 DEF Texts
<1> HIDE DEF x
<1>4. r \in DotRecords(C)
  <2>1. 1 \in Nat /\ e.ins \in InsertCmds \cup {"d", "c", "r", "~", "J", None}
    BY <1>1
  <2>2. (IF e.ins = "c" THEN e.dot.motion ELSE None) \in OpMotions \cup {"d", "c", None}
    BY <1>1
  <2> DEFINE m == IF e.ins = "c" THEN e.dot.motion ELSE None
             c == e.ins
  <2> HIDE DEF m, c
  <2>3. [cmd |-> c, count |-> 1, arg |-> None, motion |-> m, text |-> x] \in DotRecords(C)
    BY <1>3, <2>1, <2>2 DEF DotRecords, m, c
  <2> QED BY <2>3 DEF m, c
<1>5. q \in Nat /\ q <= Len(t)
  <2> HIDE DEF p, t
  <2>1. q = p \/ (p > 0 /\ q = p - 1)
    OBVIOUS
  <2> QED BY <2>1, <1>1
<1> HIDE DEF q
<1>6. /\ f \in Editing(C) /\ f.text = t /\ f.undo = u /\ f.modified = e.modified
      /\ f.cur_pos = p
      /\ f.dot = IF kept THEN e.dot ELSE r
  <2> HIDE DEF r, kept
  <2>1. d \in Editing(C)
    BY <1>4 DEF Editing, Editors
  <2>2. d.text = t /\ d.undo = u /\ d.modified = e.modified /\ d.cur_pos = p /\ d.dot = r
    BY DEF Editing, Editors
  <2> HIDE DEF d
  <2> QED BY <2>1, <2>2
<1>7. Escape(e) = g
  <2>1. d = [e EXCEPT !.dot = [cmd |-> e.ins, count |-> 1, arg |-> None,
                                motion |-> IF e.ins = "c" THEN @.motion ELSE None,
                                text |-> Copied(e.text, u.pos, Min({u.len, DotTextMax}), Absent)]]
    BY DEF x, k
  <2>2. f = IF e.ins # None /\ u.type = "insert" /\ u.len > 0 THEN d ELSE e
    OBVIOUS
  <2>3. h = [f EXCEPT !.mode = "normal", !.ins = None,
                      !.cur_pos = IF @ > 0 /\ At(t, @ - 1) # NL THEN @ - 1 ELSE @]
    <3> HIDE DEF f
    <3> QED BY <1>6 DEF q, Editing, Editors
  <2>4. CASE kept
    <3>1. h = [e EXCEPT !.mode = "normal", !.ins = None,
                        !.cur_pos = IF @ > 0 /\ At(t, @ - 1) # NL THEN @ - 1 ELSE @]
      BY <2>3, <2>4
    <3> HIDE DEF h
    <3> QED BY <3>1, <2>4 DEF Escape
  <2>5. CASE ~kept
    <3>1. h = [d EXCEPT !.mode = "normal", !.ins = None,
                        !.cur_pos = IF @ > 0 /\ At(t, @ - 1) # NL THEN @ - 1 ELSE @]
      BY <2>3, <2>5
    <3> HIDE DEF h, d
    <3> QED BY <2>1, <3>1, <2>5 DEF Escape
  <2> QED BY <2>4, <2>5
<1> HIDE DEF f, r, kept
<1>8. /\ h \in Editing(C) /\ h.text = t /\ h.undo = u /\ h.modified = e.modified
      /\ h.cur_pos = q /\ h.mode = "normal" /\ h.ins = None /\ h.dot = f.dot
  <2>1. h \in Editing(C)
    <3>1. "normal" \in Modes
      BY DEF Modes
    <3> QED BY <3>1, <1>5, <1>6 DEF Editing, Editors
  <2>2. /\ h.text = f.text /\ h.undo = f.undo /\ h.modified = f.modified
        /\ h.cur_pos = q /\ h.mode = "normal" /\ h.ins = None /\ h.dot = f.dot
    BY <1>6 DEF Editing, Editors
  <2> QED BY <2>1, <2>2, <1>6
<1> HIDE DEF h
<1>9. Becomes(C, h, g, h.text, h.cur_pos, h.undo, h.modified)
  BY <1>8, CountedIs DEF TextIs
<1> HIDE DEF g
<1>10. /\ g \in Editing(C) /\ g.text = t /\ g.undo = u /\ g.modified = e.modified
       /\ g.cur_pos = q /\ g.mode = "normal" /\ g.ins = None /\ g.dot = f.dot
  BY <1>8, <1>9, FieldsAre
<1>11. Sound(e, g)
  <2>1. Placed(t, q)
    BY <1>5 DEF Placed
  <2> QED BY <2>1, <1>10, SoundFields
<1>12. kept => g.dot = e.dot
  BY <1>6, <1>10
<1>13. ~kept => /\ g.dot.cmd = e.ins /\ g.dot.arg = None
                /\ g.dot.motion = IF e.ins = "c" THEN e.dot.motion ELSE None
  BY <1>6, <1>10 DEF r
<1> QED BY <1>7, <1>10, <1>11, <1>12, <1>13 DEF kept

-----------------------------------------------------------------------------
(* The dot command.                                                        *)

(* Toggling the character under the cursor, and going on to the next one.  *)
LEMMA ToggleOnceIs ==
    ASSUME NEW C, AlphabetOK(C), NEW e \in Editing(C), e.cur_pos \in 0..Len(e.text)
    PROVE  LET g == ToggleOnce(e)
           IN  Result(C, e, g) /\ g.dot = e.dot /\ g.cur_pos \in 0..Len(g.text)
<1> DEFINE r == Replaced(e, Toggled[At(e.text, e.cur_pos)])
           q == r.cur_pos + 1
           g == CursorAt(r, q)
<1>1. e.cur_pos \in Nat /\ Len(e.text) \in Nat
  BY EditorHas DEF Texts
<1>2. CASE OnCharacter(e)
  <2>1. ToggleOnce(e) = g
    BY <1>2 DEF ToggleOnce
  <2>2. e.cur_pos < Len(e.text) /\ Toggled[At(e.text, e.cur_pos)] \in C
    BY <1>2, ToggledIn
  <2>3. Result(C, e, r) /\ r.dot = e.dot /\ r.cur_pos = e.cur_pos /\ Len(r.text) = Len(e.text)
    BY <2>2, ReplacedSound
  <2> HIDE DEF r
  <2>4. q \in 0..Len(r.text) /\ r.cur_pos <= Len(r.text)
    <3> DEFINE p == e.cur_pos
               l == Len(e.text)
    <3>1. p \in Nat /\ l \in Nat /\ p < l
      BY <1>1, <2>2
    <3> HIDE DEF p, l
    <3>2. p + 1 \in 0..l /\ p <= l
      BY <3>1
    <3> QED BY <3>2, <2>3 DEF p, l
  <2> HIDE DEF q
  <2>5. Result(C, e, g) /\ g.dot = r.dot /\ g.text = r.text /\ g.cur_pos = q
    BY <2>3, <2>4, PutCursor
  <2> HIDE DEF g
  <2> QED BY <2>1, <2>3, <2>4, <2>5
<1>3. CASE ~OnCharacter(e)
  <2>1. ToggleOnce(e) = e
    BY <1>3 DEF ToggleOnce
  <2>2. e.cur_pos <= Len(e.text)
    BY <1>1
  <2> QED BY <2>1, <2>2, SoundSame DEF Result
<1> QED BY <1>2, <1>3

(* So often.                                                               *)
LEMMA TogglesIn ==
    ASSUME NEW C, AlphabetOK(C), NEW e \in Editing(C), e.cur_pos \in 0..Len(e.text), NEW n \in Nat
    PROVE  Times(ToggleOnce, n, e) \in Unmoved(C, e)
<1> DEFINE S == Unmoved(C, e)
           g == [q \in S |-> ToggleOnce(q)]
           E(f, i) == IF i = 0 THEN e ELSE ToggleOnce(f[i - 1])
           h == CHOOSE f : f = [i \in 0..n |-> E(f, i)]
<1>1. Times(ToggleOnce, n, e) = h[n]
  BY DEF Times
<1>2. e \in S /\ \A q \in S : ToggleOnce(q) \in S
  <2>1. e \in Unmoved(C, e)
    <3>1. e.cur_pos <= Len(e.text)
      OBVIOUS
    <3> QED BY <3>1, SoundSame DEF Unmoved, Result
  <2>2. ASSUME NEW q \in Unmoved(C, e) PROVE ToggleOnce(q) \in Unmoved(C, e)
    <3>1. q \in Editing(C) /\ q.cur_pos \in 0..Len(q.text)
      BY DEF Unmoved
    <3> DEFINE f == ToggleOnce(q)
    <3>2. Result(C, q, f) /\ f.dot = q.dot /\ f.cur_pos \in 0..Len(f.text)
      BY <3>1, ToggleOnceIs
    <3> HIDE DEF f
    <3>3. Result(C, e, f) /\ f.dot = e.dot
      BY <3>2, ResultThen
    <3> QED BY <3>2, <3>3 DEF Unmoved, Result, f
  <2> QED BY <2>1, <2>2
<1> HIDE DEF S
<1>3. \E f : f = [i \in 0..n |-> E(f, i)]
  <2>1. g \in [S -> S]
    BY <1>2
  <2> HIDE DEF g
  <2>2. PICK f : Follows(f, g, S, n, e)
    BY <2>1, <1>2, Repeats
  <2>3. ASSUME NEW i \in 0..n PROVE f[i] = E(f, i)
    <3>1. CASE i = 0
      BY <3>1, <2>2 DEF Follows
    <3>2. CASE i # 0
      <4>1. i \in 1..n /\ i - 1 \in 0..n
        BY <3>2
      <4>2. f[i - 1] \in S /\ f[i] = g[f[i - 1]]
        BY <4>1, <2>2 DEF Follows
      <4>3. f[i] = ToggleOnce(f[i - 1])
        BY <4>2 DEF g
      <4> QED BY <4>3, <3>2
    <3> QED BY <3>1, <3>2
  <2>4. f = [i \in 0..n |-> E(f, i)]
    <3>1. f = [i \in 0..n |-> f[i]]
      BY <2>2 DEF Follows
    <3> HIDE DEF E
    <3> QED BY <2>3, <3>1
  <2> HIDE DEF E
  <2> QED BY <2>4
<1>4. h = [i \in 0..n |-> E(h, i)]
  <2> HIDE DEF E
  <2> QED BY <1>3
<1> HIDE DEF h
<1>5. \A i \in 0..n : h[i] = E(h, i)
  <2> HIDE DEF E
  <2> QED BY <1>4
<1>6. h[0] \in S
  <2>1. 0 \in 0..n
    OBVIOUS
  <2> QED BY <2>1, <1>2, <1>5
<1>7. ASSUME NEW i \in 1..n, h[i - 1] \in S PROVE h[i] \in S
  <2>1. i \in 0..n /\ i # 0
    OBVIOUS
  <2>2. h[i] = E(h, i)
    BY <2>1, <1>5
  <2>3. h[i] = ToggleOnce(h[i - 1])
    BY <2>1, <2>2
  <2> QED BY <2>3, <1>7, <1>2
<1>8. h[n] \in S
  BY <1>6, <1>7, StaysIn
<1> QED BY <1>1, <1>8 DEF S

\* Text put in at p, and recorded; the cursor at or behind its end.
Reinsertion(C, e, g, p, s, modified) ==
    \E q \in Nat :
        /\ Placed(Inserted(e.text, p, s), q)
        /\ Becomes(C, e, g, Inserted(e.text, p, s), q, Insertion(e.modified, p, Len(s)), modified)

(* The recorded text put in again.                                         *)
LEMMA ReinsertedIs ==
    ASSUME NEW C, AlphabetOK(C), NEW e \in Editing(C), NEW p \in 0..Len(e.text),
           e.dot.text # << >>
    PROVE  Reinsertion(C, e, Reinserted(e, p), p, e.dot.text, e.modified)
<1> DEFINE t == e.text
           s == e.dot.text
           n == Len(s)
           a == UndoSaveInsert(e, p, n)
           b == GbInsert(a, p, s)
           x == Inserted(t, p, s)
           u == Insertion(e.modified, p, n)
           q == IF At(b.text, p + n - 1) = NL THEN p + n ELSE p + n - 1
           g == CursorAt(b, q)
<1>1. /\ t \in Texts(C, Capacity) /\ Len(t) \in Nat /\ p \in Nat /\ p <= Len(t)
      /\ s \in Seq(C) /\ n \in Nat /\ n > 0
  <2>1. t \in Texts(C, Capacity) /\ s \in Texts(C, DotTextMax) /\ s # << >>
    BY EditorHas DEF DotRecords
  <2>2. t \in Seq(C) /\ s \in Seq(C)
    BY <2>1 DEF Texts
  <2>3. p \in 0..Len(t)
    OBVIOUS
  <2> HIDE DEF t, s
  <2>4. n \in Nat /\ n > 0
    BY <2>1, <2>2
  <2> QED BY <2>1, <2>2, <2>3, <2>4
<1>2. Becomes(C, e, a, t, e.cur_pos, u, e.modified)
  <2> HIDE DEF s, n
  <2> QED BY <1>1, UndoSaveInsertIs
<1>3. Reinserted(e, p) = g
  BY DEF Reinserted
<1> HIDE DEF a, u
<1>4. Becomes(C, e, b, x, e.cur_pos, u, e.modified)
  <2> HIDE DEF t, s
  <2> QED BY <1>1, <1>2, FlagAfter
<1> HIDE DEF b, n
<1>5. q \in Nat /\ q <= p + n
  <2>1. q = p + n \/ q = p + n - 1
    OBVIOUS
  <2> HIDE DEF q
  <2> QED BY <2>1, <1>1
<1> HIDE DEF q, x
<1>6. Becomes(C, e, g, x, q, u, e.modified)
  BY <1>4, <1>5, PlacedIs
<1>7. Placed(x, q)
  <2> HIDE DEF t, s
  <2>1. /\ Room(t, s) \in Seq(C)
        /\ Len(t) + Len(s) <= Capacity => Room(t, s) = s
        /\ Len(t) + Len(s) > Capacity => Len(t) + Len(Room(t, s)) = Capacity
        /\ Len(x) = Len(t) + Len(Room(t, s))
    BY <1>1, InsertedIs DEF x
  <2>2. CASE Len(t) + Len(s) <= Capacity
    <3>1. Len(x) = Len(t) + n
      BY <2>1, <2>2 DEF n
    <3>2. q <= Len(x)
      BY <3>1, <1>1, <1>5
    <3> QED BY <3>2 DEF Placed
  <2>3. CASE Len(t) + Len(s) > Capacity
    <3>1. Len(x) = Capacity
      BY <2>1, <2>3
    <3> QED BY <3>1, LimitsAssumption DEF Placed
  <2>4. Len(t) + Len(s) <= Capacity \/ Len(t) + Len(s) > Capacity
    BY <1>1, LimitsAssumption DEF n
  <2> QED BY <2>2, <2>3, <2>4
<1> QED BY <1>3, <1>5, <1>6, <1>7 DEF Reinsertion, x, u, n

(* It stays within the text, and so does its record.                       *)
LEMMA ReinsertionSound ==
    ASSUME NEW C, NEW e \in Editing(C), NEW g, NEW p \in 0..Len(e.text), NEW s \in Seq(C), NEW m,
           Reinsertion(C, e, g, p, s, m)
    PROVE  /\ g \in Editing(C) /\ Placed(g.text, g.cur_pos) /\ Within(g.undo, g.text)
           /\ g.mode = e.mode /\ g.ins = e.ins /\ g.dot = e.dot
           /\ m = Changed => Result(C, e, g)
<1> DEFINE x == Inserted(e.text, p, s)
           u == Insertion(e.modified, p, Len(s))
<1>1. PICK q \in Nat : Placed(x, q) /\ Becomes(C, e, g, x, q, u, m)
  BY DEF Reinsertion
<1>2. p <= Len(x)
  <2> DEFINE t == e.text
  <2>1. t \in Texts(C, Capacity) /\ p \in 0..Len(t) /\ p \in Nat
    BY EditorHas
  <2> HIDE DEF t
  <2>2. Len(t) <= Len(Inserted(t, p, s)) /\ Len(t) \in Nat /\ Len(Inserted(t, p, s)) \in Nat
    BY <2>1, LongerText
  <2>3. p <= Len(Inserted(t, p, s))
    BY <2>1, <2>2
  <2> QED BY <2>3 DEF t
<1>3. Within(u, x)
  BY <1>2, WithinIs
<1> HIDE DEF x, u
<1>4. /\ g \in Editing(C) /\ g.text = x /\ g.cur_pos = q /\ g.undo = u /\ g.modified = m
      /\ g.mode = e.mode /\ g.ins = e.ins /\ g.dot = e.dot
  BY <1>1, FieldsAre
<1>5. m = Changed => Result(C, e, g)
  BY <1>1, <1>3, ResultIs
<1> QED BY <1>1, <1>3, <1>4, <1>5

(* Where the text goes is in the text.                                     *)
LEMMA DotPositionIn ==
    ASSUME NEW C, NEW e \in Editing(C), e.cur_pos \in 0..Len(e.text)
    PROVE  DotPosition(e) \in 0..Len(e.text)
<1> DEFINE t == e.text
           k == e.cur_pos
           eol == Eol(t, k)
           next == Min({eol + 1, Len(t)})
<1>1. t \in Seq(C) /\ Len(t) \in Nat /\ k \in Nat /\ k <= Len(t) /\ k \in 0..Len(t)
  BY EditorHas DEF Texts
<1>2. \/ DotPosition(e) \in {k, eol, FirstNonBlank(t, k), Bol(t, k), next}
      \/ OnCharacter(e) /\ DotPosition(e) = k + 1
  BY DEF DotPosition
<1>3. OnCharacter(e) => k < Len(t)
  BY DEF OnCharacter
<1> HIDE DEF t, k
<1>4. eol \in 0..Len(t) /\ Bol(t, k) \in 0..k
  BY <1>1, LineEnds
<1>5. FirstNonBlank(t, k) \in 0..Len(t)
  BY <1>1, FirstNonBlankIn
<1> HIDE DEF eol
<1>6. next = IF eol + 1 <= Len(t) THEN eol + 1 ELSE Len(t)
  <2>1. eol + 1 \in Int /\ Len(t) \in Int
    BY <1>1, <1>4
  <2> QED BY <2>1, OfTwo
<1> HIDE DEF next
<1>7. Bol(t, k) \in 0..Len(t) /\ next \in 0..Len(t)
  BY <1>1, <1>4, <1>6
<1>8. OnCharacter(e) => k + 1 \in 0..Len(t)
  BY <1>1, <1>3
<1>9. DotPosition(e) \in 0..Len(t)
  BY <1>1, <1>2, <1>4, <1>5, <1>7, <1>8
<1> QED BY <1>9 DEF t

\* The text and the record may have changed, without a sign of it.
Kept(C, e, g) ==
    /\ g \in Editing(C) /\ Placed(g.text, g.cur_pos)
    /\ Within(e.undo, e.text) /\ g.cur_pos <= Len(g.text) => Within(g.undo, g.text)
    /\ g.mode = e.mode /\ g.ins = e.ins /\ g.dot = e.dot

(* A change that fits keeps them.                                          *)
LEMMA KeptIs ==
    ASSUME NEW C, NEW e, NEW g, NEW t, NEW p, NEW u, NEW m, Becomes(C, e, g, t, p, u, m),
           Placed(t, p), Within(e.undo, e.text) /\ p <= Len(t) => Within(u, t)
    PROVE  Kept(C, e, g)
<1>1. /\ g \in Editing(C) /\ g.text = t /\ g.cur_pos = p /\ g.undo = u
      /\ g.mode = e.mode /\ g.ins = e.ins /\ g.dot = e.dot
  BY FieldsAre
<1> QED BY <1>1 DEF Kept

(* Counting the lines keeps them.                                          *)
LEMMA KeptCounted ==
    ASSUME NEW C, NEW e, NEW f, Kept(C, e, f)
    PROVE  Kept(C, e, Counted(f))
<1> DEFINE g == Counted(f)
<1>1. Becomes(C, f, g, f.text, f.cur_pos, f.undo, f.modified)
  BY CountedIs DEF Kept, TextIs
<1> HIDE DEF g
<1>2. /\ g \in Editing(C) /\ g.text = f.text /\ g.cur_pos = f.cur_pos /\ g.undo = f.undo
      /\ g.mode = f.mode /\ g.ins = f.ins /\ g.dot = f.dot
  BY <1>1, FieldsAre
<1>3. Kept(C, e, g)
  BY <1>2 DEF Kept
<1> QED BY <1>3 DEF g

(* The part that is changed again.                                         *)
LEMMA RemovedAgain ==
    ASSUME NEW C, AlphabetOK(C), NEW e, NEW c, NEW t, NEW k, NEW v, NEW m,
           Becomes(C, e, c, t, k, v, m), NEW x \in Nat, x <= Len(t), NEW n \in Nat
    PROVE  LET d == Modified(CursorAt(GbDelete(UndoSaveDelete(c, x, n), x, n), x))
           IN  /\ Becomes(C, e, d, Cut(t, x, n), x, Deletion(t, m, x, n), Changed)
               /\ x <= Len(Cut(t, x, n))
<1> DEFINE b == GbDelete(UndoSaveDelete(c, x, n), x, n)
           d == Modified(CursorAt(b, x))
<1>1. c \in Editing(C) /\ c.text = t /\ c.cur_pos = k /\ c.modified = m
  BY FieldsAre
<1>2. Becomes(C, c, b, Cut(c.text, x, n), c.cur_pos, Deletion(c.text, c.modified, x, n), c.modified)
  BY <1>1, RecordedDeletion
<1> HIDE DEF b
<1>3. Becomes(C, c, b, Cut(t, x, n), k, Deletion(t, m, x, n), m)
  BY <1>1, <1>2
<1> DEFINE w == Cut(t, x, n)
           u == Deletion(t, m, x, n)
<1>4. x <= Len(w)
  <2>1. t \in Texts(C, Capacity) /\ Capacity \in Nat
    BY <1>1, EditorHas, LimitsAssumption
  <2> QED BY <2>1, CutIs
<1> HIDE DEF w, u
<1>5. Becomes(C, e, b, w, k, u, m)
  <2>1. Becomes(C, c, b, w, k, u, m)
    BY <1>3 DEF w, u
  <2> QED BY <2>1, AfterThat
<1>6. Becomes(C, e, CursorAt(b, x), w, x, u, m)
  BY <1>5, PlacedIs
<1>7. Becomes(C, e, d, w, x, u, Changed)
  BY <1>6, FlagAfter
<1> QED BY <1>4, <1>7 DEF w, u, b

(* The text that goes in its place.                                        *)
LEMMA FilledAgain ==
    ASSUME NEW C, AlphabetOK(C), NEW e, NEW d, NEW t, NEW p, NEW u, NEW m,
           Becomes(C, e, d, t, p, u, m), NEW x \in 0..Len(t), e.dot.text # << >>
    PROVE  Kept(C, e, Reinserted(d, x))
<1> DEFINE g == Reinserted(d, x)
           s == d.dot.text
<1>1. d \in Editing(C) /\ d.text = t /\ d.mode = e.mode /\ d.ins = e.ins /\ d.dot = e.dot
  BY FieldsAre
<1>2. Reinsertion(C, d, g, x, s, d.modified)
  BY <1>1, ReinsertedIs
<1>3. s \in Seq(C)
  <2>1. s \in Texts(C, DotTextMax)
    BY <1>1, EditorHas DEF DotRecords
  <2> QED BY <2>1 DEF Texts
<1> HIDE DEF g, s
<1> DEFINE n == d.modified
<1>4. x \in 0..Len(d.text) /\ Reinsertion(C, d, g, x, s, n)
  BY <1>1, <1>2
<1> HIDE DEF n
<1>5. /\ g \in Editing(C) /\ Placed(g.text, g.cur_pos) /\ Within(g.undo, g.text)
      /\ g.mode = d.mode /\ g.ins = d.ins /\ g.dot = d.dot
  BY <1>1, <1>3, <1>4, ReinsertionSound
<1>6. Kept(C, e, g)
  BY <1>1, <1>5 DEF Kept
<1> QED BY <1>6 DEF g

(* What c changed, changed again.                                          *)
LEMMA ChangedAgainIs ==
    ASSUME NEW C, AlphabetOK(C), NEW e \in Editing(C), e.cur_pos \in 0..Len(e.text),
           e.dot.motion \in OpMotions \cup {"c"}, NEW n \in Nat
    PROVE  Kept(C, e, ChangedAgain(e, n))
<1> DEFINE c == IF e.dot.motion = "j" THEN Counted(e) ELSE e
           b == Bol(e.text, e.cur_pos)
           r == IF e.dot.motion = "c" THEN [from |-> b, to |-> Eol(e.text, b)]
                ELSE Span(c.text, c.cur_pos, e.dot.motion, n, c.line_cnt)
           x == Min({r.from, r.to})
           y == Max({r.from, r.to})
           z == y - x
           f == Modified(CursorAt(GbDelete(UndoSaveDelete(c, x, z), x, z), x))
           d == IF x = y THEN IF e.dot.motion = "c" THEN c ELSE CursorAt(c, r.from) ELSE f
           g == Counted(IF e.dot.text = << >> THEN d ELSE Reinserted(d, x))
           t == e.text
           k == e.cur_pos
<1>1. ChangedAgain(e, n) = g
  BY DEF ChangedAgain
<1>2. Becomes(C, e, c, t, k, e.undo, e.modified)
  <2>1. Becomes(C, e, e, e.text, e.cur_pos, e.undo, e.modified)
    BY BecomesSame
  <2>2. Becomes(C, e, Counted(e), e.text, e.cur_pos, e.undo, e.modified)
    BY CountedIs DEF TextIs
  <2> QED BY <2>1, <2>2
<1> HIDE DEF c
<1>3. c.text = t /\ c.cur_pos = k /\ c \in Editing(C)
  <2> HIDE DEF t, k
  <2> QED BY <1>2, FieldsAre
<1>4. t \in Seq(C) /\ k \in 0..Len(t) /\ k \in Nat /\ Len(t) \in Nat /\ k <= Len(t)
  <2>1. t \in Seq(C) /\ k \in 0..Len(t)
    BY EditorHas DEF Texts
  <2> HIDE DEF t, k
  <2> QED BY <2>1
<1>5. r.from \in 0..Len(t) /\ r.to \in 0..(Len(t) + 1)
  <2>1. CASE e.dot.motion = "c"
    <3>1. r = [from |-> b, to |-> Eol(t, b)] /\ b = Bol(t, k)
      BY <2>1
    <3> HIDE DEF t, k, r, b
    <3>2. b \in 0..k
      BY <1>4, <3>1, LineEnds
    <3>3. b \in Nat /\ b \in 0..Len(t)
      BY <1>4, <3>2
    <3>4. Eol(t, b) \in 0..Len(t)
      BY <1>4, <3>3, LineEnds
    <3>5. Eol(t, b) \in 0..(Len(t) + 1)
      BY <1>4, <3>4
    <3> QED BY <3>1, <3>3, <3>5
  <2>2. CASE e.dot.motion # "c"
    <3> DEFINE i == c.line_cnt
               a == e.dot.motion
    <3>1. r = Span(t, k, a, n, i) /\ a \in OpMotions
      BY <1>3, <2>2
    <3> HIDE DEF t, k, r, i, a
    <3>2. InSpan(t, Span(t, k, a, n, i))
      BY <1>4, <3>1, SpanIn
    <3> QED BY <3>1, <3>2 DEF InSpan
  <2> QED BY <2>1, <2>2
<1> HIDE DEF r
<1>6. x \in 0..Len(t) /\ x \in Nat /\ x <= Len(t) /\ z \in Nat /\ r.from \in Nat /\ r.from <= Len(t)
  <2> DEFINE i == Len(t)
             a == r.from
             w == r.to
  <2>1. i \in Nat /\ a \in 0..i /\ w \in 0..(i + 1)
    BY <1>4, <1>5
  <2> HIDE DEF i, a, w
  <2>2. Min({a, w}) \in 0..i /\ Max({a, w}) - Min({a, w}) \in Nat
    BY <2>1, RangeIs
  <2>3. Min({a, w}) \in Nat /\ Min({a, w}) <= i /\ a \in Nat /\ a <= i
    BY <2>1, <2>2
  <2> QED BY <2>2, <2>3 DEF i, a, w
<1>7. Becomes(C, e, f, Cut(t, x, z), x, Deletion(t, e.modified, x, z), Changed)
      /\ x <= Len(Cut(t, x, z))
  <2> HIDE DEF x, z, t, k
  <2> QED BY <1>2, <1>6, RemovedAgain
<1>8. ASSUME NEW q \in Nat PROVE Becomes(C, e, CursorAt(c, q), t, q, e.undo, e.modified)
  <2> HIDE DEF t, k
  <2> QED BY <1>2, PlacedIs
<1> DEFINE from == r.from
<1>9. Becomes(C, e, CursorAt(c, from), t, from, e.undo, e.modified) /\ from <= Len(t)
  BY <1>6, <1>8
<1>10. d = c \/ d = CursorAt(c, from) \/ d = f
  OBVIOUS
<1> HIDE DEF f, d, z, y, x, from
<1>11. \E w, p, u, m : /\ Becomes(C, e, d, w, p, u, m) /\ p <= Len(w) /\ x \in 0..Len(w)
                       /\ Within(e.undo, e.text) => Within(u, w)
  <2>1. CASE d = c
    BY <1>2, <1>4, <1>6, <2>1
  <2>2. CASE d = CursorAt(c, from)
    BY <1>9, <1>6, <2>2
  <2>3. CASE d = f
    <3> DEFINE w == Cut(t, x, z)
    <3>1. Len(w) \in Nat
      <4>1. w \in Texts(C, Capacity)
        BY <1>6, EditorHas, CutIs, LimitsAssumption
      <4> HIDE DEF w
      <4> QED BY <4>1 DEF Texts
    <3>2. x <= Len(w)
      BY <1>7
    <3> HIDE DEF w
    <3>3. x \in 0..Len(w)
      BY <1>6, <3>1, <3>2
    <3>4. Within(Deletion(t, e.modified, x, z), w)
      BY <3>2, WithinIs
    <3> QED BY <1>7, <2>3, <3>2, <3>3, <3>4 DEF w
  <2> QED BY <1>10, <2>1, <2>2, <2>3
<1>12. PICK w, p, u, m : /\ Becomes(C, e, d, w, p, u, m) /\ p <= Len(w) /\ x \in 0..Len(w)
                         /\ Within(e.undo, e.text) => Within(u, w)
  BY <1>11
<1>13. Kept(C, e, d)
  BY <1>12, KeptIs DEF Placed
<1>14. e.dot.text # << >> => Kept(C, e, Reinserted(d, x))
  BY <1>12, FilledAgain
<1>15. Kept(C, e, g)
  BY <1>13, <1>14, KeptCounted
<1> QED BY <1>1, <1>15

\* What "." does.
Replayed(C, e, g) ==
    \/ g = e
    \/ e.dot.cmd \in {"r", "~", "J"} /\ Result(C, e, g) /\ g.dot = e.dot
    \/ e.dot.cmd = "d" /\ Operated(C, e, g, "d", e.dot.motion = "e")
    \/ e.dot.cmd = "c" /\ Kept(C, e, g)
    \/ /\ e.dot.cmd \in InsertCmds /\ DotPosition(e) \in 0..Len(e.text)
       /\ Reinsertion(C, e, g, DotPosition(e), e.dot.text, Changed)

\* What the dot record holds was a command, with a motion or character of its.
DotFits(C, e) ==
    /\ e.dot.cmd = "r" => e.dot.arg \in C
    /\ e.dot.cmd = "d" => e.dot.motion \in OpMotions \cup {"d"}
    /\ e.dot.cmd = "c" => e.dot.motion \in OpMotions \cup {"c"}
    /\ e.mode = "insert" /\ e.ins = "c" => e.dot.cmd = "c"

(* An insertion, with its flag.                                            *)
LEMMA ReinsertedAgain ==
    ASSUME NEW C, AlphabetOK(C), NEW e \in Editing(C), NEW p \in 0..Len(e.text),
           e.dot.text # << >>
    PROVE  Reinsertion(C, e, Counted(Modified(Reinserted(e, p))), p, e.dot.text, Changed)
<1> DEFINE f == Reinserted(e, p)
           s == e.dot.text
           m == e.modified
           x == Inserted(e.text, p, s)
           u == Insertion(m, p, Len(s))
           g == Modified(f)
<1>1. Reinsertion(C, e, f, p, s, m)
  BY ReinsertedIs
<1> HIDE DEF f
<1>2. PICK q \in Nat : Placed(x, q) /\ Becomes(C, e, f, x, q, u, m)
  BY <1>1 DEF Reinsertion
<1> HIDE DEF x, u
<1>3. Becomes(C, e, g, x, q, u, Changed)
  BY <1>2, FlagAfter
<1> HIDE DEF g
<1>4. Becomes(C, e, Counted(g), x, q, u, Changed)
  <2> HIDE DEF m
  <2> QED BY <1>3, PlacedIs
<1> QED BY <1>2, <1>4 DEF Reinsertion, x, u, f, g

(* So it does.                                                             *)
LEMMA DotReplayIs ==
    ASSUME NEW C, AlphabetOK(C), NEW e \in Editing(C), e.cur_pos \in 0..Len(e.text),
           DotFits(C, e), NEW given \in Nat
    PROVE  Replayed(C, e, DotReplay(e, given))
<1> DEFINE d == e.dot
           n == IF given > 0 THEN given ELSE d.count
           g == DotReplay(e, given)
           s == IF d.motion = "d" THEN LinesFrom(e, "d", d.count)
                ELSE OverMotion(e, "d", d.motion, d.count)
<1>1. d.count \in Nat /\ d.cmd \in InsertCmds \cup {"d", "c", "r", "~", "J", None}
  BY EditorHas DEF DotRecords
<1>2. g = CASE d.cmd = None -> e
            [] d.cmd = "r" -> IF e.cur_pos < Len(e.text) THEN Replaced(e, d.arg) ELSE e
            [] d.cmd = "~" -> Times(ToggleOnce, n, e)
            [] d.cmd = "J" -> Joined(e, n)
            [] d.cmd = "d" -> s
            [] d.cmd = "c" -> ChangedAgain(e, n)
            [] OTHER -> IF d.text = << >> THEN e
                        ELSE Counted(Modified(Reinserted(e, DotPosition(e))))
  BY DEF DotReplay
<1>3. n \in Nat
  BY <1>1
<1> HIDE DEF n, g, s
<1>4. CASE d.cmd = None
  <2>1. g = e
    BY <1>2, <1>4 DEF None
  <2> QED BY <2>1 DEF Replayed, g
<1>5. CASE d.cmd = "r"
  <2>1. d.cmd # None
    BY <1>5 DEF None
  <2>2. g = e \/ (e.cur_pos < Len(e.text) /\ g = Replaced(e, d.arg))
    BY <1>2, <1>5, <2>1
  <2>3. d.arg \in C
    BY <1>5 DEF DotFits
  <2>4. e.cur_pos < Len(e.text) => Result(C, e, Replaced(e, d.arg)) /\ Replaced(e, d.arg).dot = e.dot
    BY <2>3, ReplacedSound
  <2> QED BY <1>5, <2>2, <2>4 DEF Replayed, g
<1>6. CASE d.cmd = "~"
  <2>1. g = Times(ToggleOnce, n, e)
    BY <1>2, <1>6 DEF None
  <2>2. g \in Unmoved(C, e)
    BY <1>3, <2>1, TogglesIn
  <2>3. Result(C, e, g) /\ g.dot = e.dot
    BY <2>2 DEF Unmoved
  <2> QED BY <1>6, <2>3 DEF Replayed, g
<1>7. CASE d.cmd = "J"
  <2>1. g = Joined(e, n)
    BY <1>2, <1>7 DEF None
  <2>2. Result(C, e, g) /\ g.dot = e.dot
    BY <1>3, <2>1, JoinedIs
  <2> QED BY <1>7, <2>2 DEF Replayed, g
<1>8. CASE d.cmd = "d"
  <2>1. g = s
    BY <1>2, <1>8 DEF None
  <2>2. d.motion \in OpMotions \cup {"d"} /\ "d" \in Operators /\ "d" \notin OpMotions
    BY <1>8 DEF DotFits, Operators, OpMotions
  <2> DEFINE a == LinesFrom(e, "d", d.count)
             b == OverMotion(e, "d", d.motion, d.count)
  <2>3. CASE d.motion = "d"
    <3>1. g = a
      BY <2>1, <2>3 DEF s
    <3>2. Operated(C, e, a, "d", FALSE)
      BY <2>2, LinesFromIs
    <3> HIDE DEF a
    <3>3. Operated(C, e, g, "d", d.motion = "e")
      BY <3>1, <3>2 DEF Operated, Deleted
    <3> QED BY <1>8, <3>3 DEF Replayed, g
  <2>4. CASE d.motion # "d"
    <3>1. g = b
      BY <2>1, <2>4 DEF s
    <3>2. Operated(C, e, b, "d", d.motion = "e")
      <4> DEFINE j == d.motion
                 i == d.count
      <4>1. j \in OpMotions /\ i \in Nat /\ "d" \in Operators
        BY <1>1, <2>2, <2>4
      <4> HIDE DEF j, i
      <4>2. Operated(C, e, OverMotion(e, "d", j, i), "d", j = "e")
        BY <4>1, OverMotionIs
      <4> QED BY <4>2 DEF j, i
    <3> QED BY <1>8, <3>1, <3>2 DEF Replayed, g
  <2> QED BY <2>3, <2>4
<1>9. CASE d.cmd = "c"
  <2>1. g = ChangedAgain(e, n)
    BY <1>2, <1>9 DEF None
  <2>2. d.motion \in OpMotions \cup {"c"}
    BY <1>9 DEF DotFits
  <2>3. Kept(C, e, g)
    BY <1>3, <2>1, <2>2, ChangedAgainIs
  <2> QED BY <1>9, <2>3 DEF Replayed, g
<1>10. CASE d.cmd \notin {None, "r", "~", "J", "d", "c"}
  <2> DEFINE p == DotPosition(e)
  <2>1. g = IF d.text = << >> THEN e ELSE Counted(Modified(Reinserted(e, p)))
    BY <1>2, <1>10
  <2>2. d.cmd \in InsertCmds
    BY <1>1, <1>10
  <2>3. p \in 0..Len(e.text)
    BY DotPositionIn
  <2> HIDE DEF p
  <2>4. d.text # << >> => Reinsertion(C, e, g, p, d.text, Changed)
    BY <2>1, <2>3, ReinsertedAgain
  <2> QED BY <2>1, <2>2, <2>3, <2>4 DEF Replayed, g, p
<1> QED BY <1>4, <1>5, <1>6, <1>7, <1>8, <1>9, <1>10

(* It leaves the cursor in the buffer and, but for c, the flag honest.     *)
LEMMA ReplayedKept ==
    ASSUME NEW C, NEW e \in Editing(C), e.cur_pos <= Len(e.text), NEW g, Replayed(C, e, g)
    PROVE  /\ Kept(C, e, g)
           /\ e.dot.cmd # "c" => Sound(e, g)
<1>1. ASSUME g \in Editing(C), Sound(e, g), g.mode = e.mode, g.ins = e.ins, g.dot = e.dot
      PROVE  Kept(C, e, g)
  BY <1>1 DEF Kept, Sound
<1>2. CASE g = e
  BY <1>1, <1>2, SoundSame
<1>3. CASE e.dot.cmd \in {"r", "~", "J"} /\ Result(C, e, g) /\ g.dot = e.dot
  BY <1>1, <1>3 DEF Result
<1>4. CASE e.dot.cmd = "d" /\ Operated(C, e, g, "d", e.dot.motion = "e")
  <2>1. Sound(e, g) /\ g \in Editing(C)
    <3> DEFINE m == e.dot.motion = "e"
    <3>1. Operated(C, e, g, "d", m)
      BY <1>4
    <3> HIDE DEF m
    <3> QED BY <3>1, OperatedSound
  <2>2. g.mode = e.mode /\ g.ins = e.ins /\ g.dot = e.dot
    BY <1>4 DEF Operated, Moved, Deleted, Becomes
  <2> QED BY <1>1, <2>1, <2>2
<1>5. CASE e.dot.cmd = "c" /\ Kept(C, e, g)
  BY <1>5
<1>6. CASE /\ e.dot.cmd \in InsertCmds /\ DotPosition(e) \in 0..Len(e.text)
           /\ Reinsertion(C, e, g, DotPosition(e), e.dot.text, Changed)
  <2> DEFINE p == DotPosition(e)
             s == e.dot.text
  <2>1. p \in 0..Len(e.text) /\ Reinsertion(C, e, g, p, s, Changed)
    BY <1>6
  <2>2. s \in Seq(C)
    <3>1. s \in Texts(C, DotTextMax)
      BY EditorHas DEF DotRecords
    <3> QED BY <3>1 DEF Texts
  <2> HIDE DEF p, s
  <2>3. g.dot = e.dot /\ Result(C, e, g)
    BY <2>1, <2>2, ReinsertionSound
  <2> QED BY <1>1, <2>3 DEF Result
<1> QED BY <1>2, <1>3, <1>4, <1>5, <1>6 DEF Replayed

-----------------------------------------------------------------------------
(* Looking for characters and patterns.                                    *)

(* The next c on the line is in the text.                                  *)
LEMMA FoundNextIn ==
    ASSUME NEW C, NEW t \in Seq(C), NEW q \in 0..Len(t), NEW c, NEW way
    PROVE  FoundNext(t, q, c, way) \in 0..Len(t)
<1> DEFINE ahead == {r \in (q + 1)..(Eol(t, q + 1) - 1) : At(t, r) = c}
           back == {r \in Bol(t, q)..(q - 1) : At(t, r) = c}
           g == FoundNext(t, q, c, way)
<1>1. q \in Nat /\ q + 1 \in Nat /\ q <= Len(t) /\ Len(t) \in Nat
  OBVIOUS
<1>2. Bol(t, q) \in 0..q /\ Eol(t, q + 1) \in 0..Len(t)
  BY <1>1, LineEnds
<1>3. ahead \subseteq 0..Len(t) /\ back \subseteq 0..Len(t) /\ ahead \subseteq Nat
  BY <1>1, <1>2
<1>4. g = q \/ (ahead # {} /\ g = Min(ahead)) \/ (back # {} /\ g = Max(back))
  <2>1. g = CASE c = None -> q
              [] way = Forward /\ ahead # {} -> Min(ahead)
              [] way = Backward /\ back # {} -> Max(back)
              [] OTHER -> q
    BY DEF FoundNext
  <2> HIDE DEF ahead, back, g
  <2> QED BY <2>1
<1> HIDE DEF ahead, back, g
<1>5. ahead # {} => Min(ahead) \in 0..Len(t)
  BY <1>3, MinIs
<1>6. back # {} => Max(back) \in 0..Len(t)
  BY <1>1, <1>3, MaxIs
<1>7. g \in 0..Len(t)
  BY <1>4, <1>5, <1>6
<1> QED BY <1>7 DEF g

(* So is the n-th.                                                         *)
LEMMA FoundOnLineIn ==
    ASSUME NEW C, NEW t \in Seq(C), NEW p \in 0..Len(t), NEW n \in Nat,
           NEW c, NEW way
    PROVE  FoundOnLine(t, p, c, way, n) \in 0..Len(t)
<1> DEFINE S == 0..Len(t)
           g == [q \in S |-> FoundNext(t, q, c, way)]
           E(f, i) == IF i = 0 THEN p ELSE FoundNext(t, f[i - 1], c, way)
           h == CHOOSE f : f = [i \in 0..n |-> E(f, i)]
<1>1. FoundOnLine(t, p, c, way, n) = h[n]
  BY DEF FoundOnLine, Times
<1>2. p \in S /\ \A q \in S : FoundNext(t, q, c, way) \in S
  <2>1. p \in S /\ Len(t) \in Nat /\ \A q \in S : q \in Nat /\ q <= Len(t)
    OBVIOUS
  <2>2. ASSUME NEW q \in S PROVE FoundNext(t, q, c, way) \in S
    BY <2>1, FoundNextIn
  <2> QED BY <2>1, <2>2
<1> HIDE DEF S
<1>3. \E f : f = [i \in 0..n |-> E(f, i)]
  <2>1. g \in [S -> S]
    BY <1>2
  <2> HIDE DEF g
  <2>2. PICK f : Follows(f, g, S, n, p)
    BY <2>1, <1>2, Repeats
  <2>3. ASSUME NEW i \in 0..n PROVE f[i] = E(f, i)
    <3>1. CASE i = 0
      BY <3>1, <2>2 DEF Follows
    <3>2. CASE i # 0
      <4>1. i \in 1..n /\ i - 1 \in 0..n
        BY <3>2
      <4>2. f[i - 1] \in S /\ f[i] = g[f[i - 1]]
        BY <4>1, <2>2 DEF Follows
      <4>3. f[i] = FoundNext(t, f[i - 1], c, way)
        BY <4>2 DEF g
      <4> QED BY <4>3, <3>2
    <3> QED BY <3>1, <3>2
  <2>4. f = [i \in 0..n |-> E(f, i)]
    <3>1. f = [i \in 0..n |-> f[i]]
      BY <2>2 DEF Follows
    <3> HIDE DEF E
    <3> QED BY <2>3, <3>1
  <2> HIDE DEF E
  <2> QED BY <2>4
<1>4. h = [i \in 0..n |-> E(h, i)]
  <2> HIDE DEF E
  <2> QED BY <1>3
<1> HIDE DEF h
<1>5. \A i \in 0..n : h[i] = E(h, i)
  <2> HIDE DEF E
  <2> QED BY <1>4
<1>6. h[0] \in S
  <2>1. 0 \in 0..n
    OBVIOUS
  <2> QED BY <2>1, <1>2, <1>5
<1>7. ASSUME NEW i \in 1..n, h[i - 1] \in S PROVE h[i] \in S
  <2>1. i \in 0..n /\ i # 0
    OBVIOUS
  <2>2. h[i] = E(h, i)
    BY <2>1, <1>5
  <2>3. h[i] = FoundNext(t, h[i - 1], c, way)
    BY <2>1, <2>2
  <2> QED BY <2>3, <1>7, <1>2
<1>8. h[n] \in S
  BY <1>6, <1>7, StaysIn
<1> QED BY <1>1, <1>8 DEF S

(* The pattern that the array holds.                                       *)
LEMMA PatternIs ==
    ASSUME NEW C, NEW k \in Seeks(C)
    PROVE  Pattern(k) \in Seq(C)
<1> DEFINE t == k.pat
           N == {i \in DOMAIN t : t[i] = Nul}
           n == Min(N)
<1>1. t \in [1..SearchMax -> C] /\ t[SearchMax] = Nul
  BY DEF Seeks
<1>2. Pattern(k) = First(t, n - 1)
  BY DEF Pattern
<1> HIDE DEF t
<1>3. SearchMax \in Nat \ {0}
  BY SearchAssumption
<1>4. SearchMax \in N /\ N \subseteq 1..SearchMax
  BY <1>1, <1>3
<1>5. N # {} /\ N \subseteq Nat
  BY <1>3, <1>4
<1> HIDE DEF N
<1>6. n \in 1..SearchMax
  BY <1>4, <1>5, MinIs
<1> HIDE DEF n
<1>7. n - 1 \in Nat
  BY <1>3, <1>6
<1>8. t \in Seq(C)
  BY <1>1, <1>3, SeqDef
<1> QED BY <1>2, <1>7, <1>8, FirstIs

(* Machine integers are integers.                                          *)
LEMMA WrapIs ==
    ASSUME NEW n \in Int
    PROVE  Wrap(n) \in Int
<1> DEFINE m == 2 * (MAXINT + 1)
           k == n + MAXINT + 1
<1>1. MAXINT \in Nat
  BY MotionsAssumption
<1>2. m \in Nat /\ m > 0 /\ k \in Int
  BY <1>1
<1> HIDE DEF m, k
<1>3. k % m \in Int
  BY <1>2
<1>4. Wrap(n) = (k % m) - (MAXINT + 1)
  BY DEF Wrap, m, k
<1> QED BY <1>1, <1>3, <1>4

(* So is what is looked at.                                                *)
LEMMA CandidateIs ==
    ASSUME NEW C, NEW t \in Seq(C), NEW p \in Nat, NEW dir \in {Forward, Backward}, NEW i \in Nat
    PROVE  Candidate(t, p, dir, i) \in Int
<1> DEFINE n == p + dir * i
           q == Wrap(n)
<1>1. n \in Int
  <2>1. CASE dir = Forward
    BY <2>1 DEF Forward
  <2>2. CASE dir = Backward
    BY <2>2 DEF Backward
  <2> QED BY <2>1, <2>2
<1>2. Candidate(t, p, dir, i) = IF dir = Forward THEN IF q >= Len(t) THEN q - Len(t) ELSE q
                                ELSE IF q < 0 THEN q + Len(t) ELSE q
  BY DEF Candidate
<1> HIDE DEF n
<1>3. q \in Int /\ Len(t) \in Int
  BY <1>1, WrapIs
<1> HIDE DEF q
<1> QED BY <1>2, <1>3

(* What a search finds is in the text.                                     *)
LEMMA SearchFromIs ==
    ASSUME NEW C, NEW t \in Seq(C), NEW p \in Nat, NEW k \in Seeks(C), SearchFrom(t, p, k) >= 0
    PROVE  SearchFrom(t, p, k) \in 0..Len(t)
<1> DEFINE s == Pattern(k)
           dir == k.dir
           hits == {i \in 1..Len(t) : Matches(t, Candidate(t, p, dir, i), s)}
           i == Min(hits)
           q == Candidate(t, p, dir, i)
<1>1. dir \in {Forward, Backward} /\ s \in Seq(C)
  BY PatternIs DEF Seeks
<1>2. SearchFrom(t, p, k) = IF s = << >> \/ hits = {} THEN -1 ELSE q
  BY DEF SearchFrom
<1> HIDE DEF s, dir
<1>3. hits \subseteq Nat /\ hits \subseteq 1..Len(t) /\ \A j \in hits : Matches(t, Candidate(t, p, dir, j), s)
  OBVIOUS
<1> HIDE DEF hits
<1>4. s # << >> /\ hits # {} /\ SearchFrom(t, p, k) = q
  BY <1>2
<1>5. i \in Nat /\ Matches(t, q, s)
  <2>1. i \in hits
    BY <1>3, <1>4, MinIs
  <2> HIDE DEF i
  <2> QED BY <1>3, <2>1
<1> HIDE DEF i
<1>6. q \in Int
  BY <1>1, <1>5, CandidateIs
<1> HIDE DEF q
<1>7. 1 \in 1..Len(s)
  <2>1. Len(s) \in Nat /\ Len(s) # 0
    BY <1>1, <1>4, EmptySeq
  <2> QED BY <2>1
<1>8. q + 1 - 1 < Len(t)
  BY <1>5, <1>7 DEF Matches
<1>9. q \in 0..Len(t)
  BY <1>4, <1>6, <1>8
<1> QED BY <1>4, <1>9

(* A search moves the cursor within the text, or not at all.               *)
LEMMA FoundIs ==
    ASSUME NEW C, NEW e \in Editing(C), NEW k \in Seeks(C)
    PROVE  Found(e, k) = e \/ Moved(C, e, Found(e, k))
<1> DEFINE t == e.text
           p == e.cur_pos
           q == SearchFrom(t, p, k)
           f == CursorAt(e, q)
           g == [f EXCEPT !.cur_vrow = -1]
<1>1. t \in Seq(C) /\ p \in Nat
  BY EditorHas DEF Texts
<1>2. Found(e, k) = e \/ (q >= 0 /\ Found(e, k) = [e EXCEPT !.cur_pos = q, !.cur_vrow = -1])
  BY DEF Found
<1>3. [e EXCEPT !.cur_pos = q, !.cur_vrow = -1] = g
  BY DEF CursorAt, Editing, Editors
<1>4. q >= 0 => q \in 0..Len(t)
  <2> HIDE DEF t, p
  <2> QED BY <1>1, SearchFromIs
<1> HIDE DEF q
<1>5. ASSUME q >= 0 PROVE Moved(C, e, g)
  <2>1. q \in 0..Len(t) /\ q \in Nat
    BY <1>4, <1>5
  <2>2. Becomes(C, e, f, t, q, e.undo, e.modified)
    BY <2>1, CursorAtIs
  <2> HIDE DEF f
  <2>3. f \in Editing(C) /\ f.text = t /\ f.cur_pos = q /\ f.undo = e.undo /\ f.modified = e.modified
    <3> HIDE DEF t
    <3> QED BY <2>2, FieldsAre
  <2>4. Becomes(C, f, g, f.text, f.cur_pos, f.undo, f.modified)
    BY <2>3, RowIs DEF TextIs
  <2>5. Becomes(C, f, g, t, q, e.undo, e.modified)
    BY <2>3, <2>4
  <2> HIDE DEF g
  <2>6. Becomes(C, e, g, t, q, e.undo, e.modified)
    <3> HIDE DEF t
    <3> QED BY <2>2, <2>5, AfterThat
  <2> QED BY <2>1, <2>6 DEF Moved
<1> QED BY <1>2, <1>3, <1>5

(* Typing a pattern leaves the array one that ends in Nul.                 *)
LEMMA SpelledIs ==
    ASSUME NEW C, AlphabetOK(C), NEW k \in Seeks(C), NEW dir \in {Forward, Backward},
           NEW s \in Seq(C), Len(s) < SearchMax, NEW n \in Nat, n <= Len(s), NEW ended
    PROVE  /\ Spelled([k EXCEPT !.dir = dir], s, n, ended) \in Seeks(C)
           /\ [k EXCEPT !.dir = dir] \in Seeks(C)
<1> DEFINE h == [k EXCEPT !.dir = dir]
           pat == [i \in DOMAIN h.pat |-> IF ended /\ i = n + 1 THEN Nul
                                          ELSE IF i <= Len(s) THEN s[i] ELSE h.pat[i]]
<1>1. h \in Seeks(C)
  BY DEF Seeks
<1>2. Spelled(h, s, n, ended) = [h EXCEPT !.pat = pat]
  BY DEF Spelled
<1> HIDE DEF h
<1> DEFINE a == h.pat
<1>3. a \in [1..SearchMax -> C] /\ a[SearchMax] = Nul
  BY <1>1 DEF Seeks
<1>4. pat = [i \in 1..SearchMax |-> IF ended /\ i = n + 1 THEN Nul
                                    ELSE IF i <= Len(s) THEN s[i] ELSE a[i]]
  BY <1>3
<1> HIDE DEF a, pat
<1>5. SearchMax \in Nat \ {0} /\ Len(s) \in Nat
  BY SearchAssumption
<1>6. pat[SearchMax] = Nul
  <2>1. SearchMax \in 1..SearchMax /\ ~ (SearchMax <= Len(s))
    BY <1>5
  <2> QED BY <2>1, <1>3, <1>4
<1>7. ASSUME NEW i \in 1..SearchMax PROVE pat[i] \in C
  <2>1. CASE ended /\ i = n + 1
    BY <2>1, <1>4 DEF AlphabetOK
  <2>2. CASE ~ (ended /\ i = n + 1) /\ i <= Len(s)
    <3>1. i \in 1..Len(s)
      BY <1>5, <2>2
    <3>2. s[i] \in C
      BY <3>1
    <3> QED BY <2>2, <3>2, <1>4
  <2>3. CASE ~ (ended /\ i = n + 1) /\ ~ (i <= Len(s))
    BY <2>3, <1>3, <1>4
  <2> QED BY <2>1, <2>2, <2>3
<1>8. pat \in [1..SearchMax -> C]
  <2>1. pat = [i \in 1..SearchMax |-> pat[i]]
    BY <1>4
  <2> QED BY <2>1, <1>7
<1>9. [h EXCEPT !.pat = pat] \in Seeks(C)
  BY <1>1, <1>6, <1>8 DEF Seeks
<1> QED BY <1>1, <1>2, <1>9 DEF h

-----------------------------------------------------------------------------
(* What every command keeps.                                               *)

\* A user of commands K never takes the cursor out of the buffer.
Steady(K) == "a" \notin K /\ ~ ("u" \in K /\ K \cap Erasers # {})

\* The editor of such a user.
Fine(C, K, e) ==
    /\ e \in Editing(C) /\ DotFits(C, e)
    /\ Steady(K) => /\ Placed(e.text, e.cur_pos)
                    /\ "u" \in K /\ e.cur_pos <= Len(e.text) => Within(e.undo, e.text)

(* So it is at first.                                                      *)
LEMMA StartIs ==
    ASSUME NEW C, NEW t \in Texts(C, Capacity), NEW K
    PROVE  /\ Fine(C, K, Start(t))
           /\ Start(t).text = t /\ ~Start(t).modified /\ Start(t).mode = "normal"
           /\ Start(t).undo.type = None /\ Start(t).ins = None
           /\ Start(t).dot.cmd = None /\ Start(t).dot.motion = None
<1> DEFINE u == [type |-> None, pos |-> 0, len |-> 0, was_clean |-> FALSE, text |-> << >>]
           y == [text |-> << >>, line |-> FALSE]
           d == [cmd |-> None, motion |-> None, count |-> 0, arg |-> None, text |-> << >>]
           e == [text |-> t, line_cnt |-> 0, cur_pos |-> 0, mode |-> "normal", ins |-> None,
                 modified |-> FALSE, cur_vrow |-> -1, undo |-> u, yank |-> y, dot |-> d]
           g == Counted(e)
<1>1. Start(t) = g
  BY DEF Start
<1>2. u \in UndoRecords(C) /\ y \in YankRecords(C) /\ d \in DotRecords(C)
  <2>1. \A n \in Nat : << >> \in Texts(C, n)
    BY DEF Texts
  <2>2. UndoMax \in Nat /\ YankMax - 1 \in Nat /\ DotTextMax \in Nat
    BY LimitsAssumption
  <2>3. u \in UndoRecords(C)
    BY <2>1, <2>2 DEF UndoRecords
  <2>4. y \in YankRecords(C)
    BY <2>1, <2>2 DEF YankRecords
  <2>5. d \in DotRecords(C)
    BY <2>1, <2>2 DEF DotRecords
  <2> QED BY <2>3, <2>4, <2>5
<1>3. u.type = None /\ d.cmd = None /\ d.motion = None
  OBVIOUS
<1> HIDE DEF u, y, d
<1>4. e \in Editing(C)
  <2>1. e.text = t /\ e.line_cnt = 0
    OBVIOUS
  <2>2. Reckoned(e.text, e.line_cnt)
    BY <2>1 DEF Reckoned
  <2>3. e \in Editors(C)
    BY <1>2 DEF Editors, Modes
  <2> HIDE DEF e
  <2> QED BY <2>2, <2>3 DEF Editing
<1>5. /\ e.text = t /\ e.cur_pos = 0 /\ e.undo = u /\ e.modified = FALSE
      /\ e.mode = "normal" /\ e.ins = None /\ e.dot = d
  OBVIOUS
<1> HIDE DEF e
<1>6. Becomes(C, e, g, e.text, e.cur_pos, e.undo, e.modified)
  BY <1>4, CountedIs DEF TextIs
<1> HIDE DEF g
<1>7. /\ g \in Editing(C) /\ g.text = t /\ g.cur_pos = 0 /\ g.undo = u /\ ~g.modified
      /\ g.mode = "normal" /\ g.ins = None /\ g.dot = d
  BY <1>5, <1>6, FieldsAre
<1>8. DotFits(C, g)
  BY <1>3, <1>7 DEF DotFits, None
<1>9. Placed(g.text, g.cur_pos)
  <2>1. Len(t) \in Nat
    BY DEF Texts
  <2>2. 0 <= Len(t)
    BY <2>1
  <2> QED BY <2>2, <1>7 DEF Placed
<1>10. Within(g.undo, g.text)
  BY <1>3, <1>7 DEF Within
<1>11. Fine(C, K, g)
  BY <1>7, <1>8, <1>9, <1>10 DEF Fine
<1> QED BY <1>1, <1>3, <1>7, <1>11

(* What a command must show to leave it so.                                *)
LEMMA FineIs ==
    ASSUME NEW C, NEW K, NEW e, Fine(C, K, e), e.cur_pos <= Len(e.text),
           NEW g \in Editing(C), DotFits(C, g),
           Steady(K) => Placed(g.text, g.cur_pos),
           (Steady(K) /\ "u" \in K /\ Within(e.undo, e.text) /\ g.cur_pos <= Len(g.text))
               => Within(g.undo, g.text)
    PROVE  Fine(C, K, g)
BY DEF Fine

(* Sound commands do.                                                      *)
LEMMA FineSound ==
    ASSUME NEW C, NEW K, NEW e, Fine(C, K, e), e.cur_pos <= Len(e.text),
           NEW g \in Editing(C), DotFits(C, g), Sound(e, g)
    PROVE  Fine(C, K, g)
BY DEF Fine, Sound

(* The dot record of the same mode stays what it was.                      *)
LEMMA DotFitsSame ==
    ASSUME NEW C, NEW e, DotFits(C, e), NEW g, g.dot = e.dot,
           g.mode = "normal" \/ (g.mode = e.mode /\ g.ins = e.ins)
    PROVE  DotFits(C, g)
BY DEF DotFits

(* Results keep all.                                                       *)
LEMMA FineResult ==
    ASSUME NEW C, NEW K, NEW e, Fine(C, K, e), e.cur_pos <= Len(e.text),
           NEW g, Result(C, e, g), g.dot = e.dot
    PROVE  Fine(C, K, g)
<1>1. g \in Editing(C) /\ Sound(e, g) /\ g.mode = e.mode /\ g.ins = e.ins
  BY DEF Result
<1>2. DotFits(C, g)
  BY <1>1, DotFitsSame DEF Fine
<1> QED BY <1>1, <1>2, FineSound

(* Counting the lines keeps all.                                           *)
LEMMA FineCounted ==
    ASSUME NEW C, NEW K, NEW e, Fine(C, K, e)
    PROVE  /\ Fine(C, K, Counted(e)) /\ Counted(e).text = e.text /\ Counted(e).undo = e.undo
           /\ Counted(e).cur_pos = e.cur_pos /\ Counted(e).modified = e.modified
           /\ Counted(e).mode = e.mode /\ Counted(e).ins = e.ins /\ Counted(e).dot = e.dot
<1> DEFINE g == Counted(e)
<1>1. e \in Editing(C) /\ DotFits(C, e)
  BY DEF Fine
<1>2. Becomes(C, e, g, e.text, e.cur_pos, e.undo, e.modified)
  BY <1>1, CountedIs DEF TextIs
<1> HIDE DEF g
<1>3. /\ g \in Editing(C) /\ g.text = e.text /\ g.cur_pos = e.cur_pos /\ g.undo = e.undo
      /\ g.modified = e.modified /\ g.mode = e.mode /\ g.ins = e.ins /\ g.dot = e.dot
  BY <1>2, FieldsAre
<1>4. DotFits(C, g)
  BY <1>1, <1>3, DotFitsSame
<1>5. Fine(C, K, g)
  BY <1>3, <1>4 DEF Fine
<1> QED BY <1>3, <1>5 DEF g

(* Moving the cursor within the text keeps all.                            *)
LEMMA FineMoved ==
    ASSUME NEW C, NEW K, NEW e, Fine(C, K, e), e.cur_pos <= Len(e.text),
           NEW g, g = e \/ Moved(C, e, g)
    PROVE  Fine(C, K, g)
<1>1. CASE g = e
  BY <1>1
<1>2. CASE Moved(C, e, g)
  <2>1. Operated(C, e, g, "y", FALSE)
    BY <1>2 DEF Operated
  <2>2. e \in Editing(C) /\ DotFits(C, e)
    BY DEF Fine
  <2>3. Sound(e, g) /\ g \in Editing(C)
    <3> DEFINE more == FALSE
    <3>1. Operated(C, e, g, "y", more)
      BY <2>1
    <3> HIDE DEF more
    <3> QED BY <2>2, <3>1, OperatedSound
  <2>4. g.mode = e.mode /\ g.ins = e.ins /\ g.dot = e.dot
    BY <1>2 DEF Moved, Becomes
  <2>5. DotFits(C, g)
    BY <2>2, <2>4, DotFitsSame
  <2> QED BY <2>3, <2>5, FineSound
<1> QED BY <1>1, <1>2

(* CursorAt is such a move.                                                *)
LEMMA CursorMoves ==
    ASSUME NEW C, NEW e \in Editing(C), NEW p \in 0..Len(e.text)
    PROVE  Moved(C, e, CursorAt(e, p))
<1>1. p \in Nat
  OBVIOUS
<1> QED BY <1>1, CursorAtIs DEF Moved

(* Operators keep all.                                                     *)
LEMMA FineOperate ==
    ASSUME NEW C, AlphabetOK(C), NEW K, NEW e, Fine(C, K, e), e.cur_pos \in 0..Len(e.text),
           e.cur_pos <= Len(e.text), e.mode = "normal",
           NEW op \in Operators, NEW m \in OpMotions \cup {op}, NEW n \in Nat,
           NEW g, g = IF m = op THEN Doubled(e, op, n) ELSE WithMotion(e, op, m, n)
    PROVE  Fine(C, K, g)
<1>1. e \in Editing(C) /\ DotFits(C, e)
  BY DEF Fine
<1>2. PICK h : /\ Operated(C, h, g, op, m = "e")
               /\ \/ op = "y" /\ h = e
                  \/ op # "y" /\ Noted(C, e, h, op, m, None)
               /\ h.ins = IF op = "c" THEN "c" ELSE e.ins
  <2>1. AlphabetOK(C) /\ e \in Editing(C) /\ op \in Operators /\ e.cur_pos \in 0..Len(e.text)
        /\ m \in OpMotions \cup {op} /\ n \in Nat
        /\ g = IF m = op THEN Doubled(e, op, n) ELSE WithMotion(e, op, m, n)
    BY <1>1
  <2> QED BY ONLY SMTT(30), <2>1, OperateIs
<1>3. /\ h \in Editing(C) /\ h.text = e.text /\ h.undo = e.undo /\ h.modified = e.modified
      /\ h.mode = "normal"
  BY <1>1, <1>2 DEF Noted
<1>4. Sound(h, g) /\ g \in Editing(C)
  <2> DEFINE more == m = "e"
  <2>1. Operated(C, h, g, op, more)
    BY <1>2
  <2> HIDE DEF more
  <2> QED BY <1>3, <2>1, OperatedSound
<1>5. Sound(e, g)
  BY <1>3, <1>4, SoundOf
<1>6. /\ g.dot = h.dot
      /\ g.mode = "normal" \/ (op = "c" /\ g.ins = h.ins)
  BY <1>2, <1>3 DEF Operated, Moved, Deleted, Emptied, Becomes, Opens
<1>7. DotFits(C, g)
  <2>1. CASE op = "y"
    <3>1. g.dot = e.dot /\ g.mode = "normal"
      BY <1>2, <1>6, <2>1
    <3> QED BY <1>1, <3>1, DotFitsSame
  <2>2. CASE op # "y"
    <3>1. /\ g.dot.cmd = op /\ g.dot.motion = m
          /\ op \in {"d", "c"} /\ (m \in OpMotions \/ m = op)
      BY <1>2, <1>6, <2>2 DEF Noted, Operators
    <3>2. g.mode = "normal" \/ op = "c"
      BY <1>6
    <3> QED BY <3>1, <3>2 DEF DotFits
  <2> QED BY <2>1, <2>2
<1> QED BY <1>4, <1>5, <1>7, FineSound

(* So do r, ~ and J.                                                       *)
LEMMA FineNoted ==
    ASSUME NEW C, NEW K, NEW e, Fine(C, K, e), e.cur_pos <= Len(e.text), e.mode = "normal",
           NEW g, Result(C, e, g), NEW c, NEW a,
           c \in {"~", "J"} \/ (c = "r" /\ a \in C), DotIsOf(e, g, c, None, a)
    PROVE  Fine(C, K, g)
<1>1. g \in Editing(C) /\ Sound(e, g) /\ g.mode = "normal"
  BY DEF Result
<1>2. g.dot.cmd = c /\ g.dot.arg = a
  BY DEF DotIsOf
<1>3. DotFits(C, g)
  BY <1>1, <1>2 DEF DotFits
<1> QED BY <1>1, <1>3, FineSound

(* u puts the cursor where its record is.                                  *)
LEMMA FineUndone ==
    ASSUME NEW C, NEW K, "u" \in K, NEW e, Fine(C, K, e), e.cur_pos <= Len(e.text)
    PROVE  Fine(C, K, Undone(e))
<1> DEFINE g == Undone(e)
<1>1. e \in Editing(C) /\ DotFits(C, e)
  BY DEF Fine
<1>2. CASE e.undo.type = None
  BY <1>2 DEF Undone
<1>3. CASE e.undo.type # None
  <2>1. PICK u \in UndoRecords(C), m \in BOOLEAN :
            /\ u.type = None /\ m = ~e.undo.was_clean
            /\ Becomes(C, e, g, TakenBack(e.undo, e.text), e.undo.pos, u, m)
    BY <1>1, <1>3, UndoneIs
  <2> HIDE DEF g
  <2> DEFINE x == TakenBack(e.undo, e.text)
             p == e.undo.pos
  <2>2. /\ g \in Editing(C) /\ g.text = x /\ g.cur_pos = p /\ g.undo = u
        /\ g.mode = e.mode /\ g.ins = e.ins /\ g.dot = e.dot
    <3>1. Becomes(C, e, g, x, p, u, m)
      BY <2>1
    <3> HIDE DEF x, p
    <3> QED BY <3>1, FieldsAre
  <2>3. Within(g.undo, g.text)
    BY <2>1, <2>2 DEF Within
  <2>4. ASSUME Steady(K) PROVE Placed(g.text, g.cur_pos)
    <3>1. p <= Len(e.text)
      BY <1>3, <2>4 DEF Fine, Within
    <3> DEFINE t == e.text
               s == e.undo.text
               n == e.undo.len
    <3>2. t \in Texts(C, Capacity) /\ p \in Nat /\ n \in Nat /\ s \in Seq(C)
      <4>1. e.undo \in UndoRecords(C) /\ t \in Texts(C, Capacity)
        BY <1>1, EditorHas
      <4>2. s \in Texts(C, UndoMax) /\ p \in Nat /\ n \in Nat
        BY <4>1 DEF UndoRecords
      <4> QED BY <4>1, <4>2 DEF Texts
    <3>3. x = Inserted(t, p, s) \/ x = Cut(t, p, n)
      BY DEF TakenBack
    <3>4. p <= Len(t)
      BY <3>1
    <3> HIDE DEF x, p, t, s, n
    <3>5. Len(t) <= Len(Inserted(t, p, s)) /\ Len(t) \in Nat /\ Len(Inserted(t, p, s)) \in Nat
      BY <3>2, LongerText
    <3>6. p <= Len(Cut(t, p, n))
      BY <3>2, <3>4, CutIs, LimitsAssumption
    <3>7. p <= Len(Inserted(t, p, s))
      BY <3>2, <3>4, <3>5
    <3>8. p <= Len(x)
      BY <3>3, <3>6, <3>7
    <3> QED BY <2>2, <3>8 DEF Placed
  <2>5. DotFits(C, g)
    BY <1>1, <2>2, DotFitsSame
  <2>6. Fine(C, K, g)
    BY <2>2, <2>3, <2>4, <2>5, FineIs
  <2> QED BY <2>6 DEF g
<1> QED BY <1>2, <1>3

(* "." keeps all.                                                          *)
LEMMA FineReplayed ==
    ASSUME NEW C, AlphabetOK(C), NEW K, NEW e, Fine(C, K, e), e.cur_pos \in 0..Len(e.text),
           e.cur_pos <= Len(e.text), NEW n \in Nat
    PROVE  Fine(C, K, DotReplay(e, n))
<1> DEFINE g == DotReplay(e, n)
<1>1. e \in Editing(C) /\ DotFits(C, e)
  BY DEF Fine
<1>2. Replayed(C, e, g)
  BY <1>1, DotReplayIs
<1> HIDE DEF g
<1>3. Kept(C, e, g)
  BY <1>1, <1>2, ReplayedKept
<1>4. DotFits(C, g)
  BY <1>1, <1>3, DotFitsSame DEF Kept
<1>5. Fine(C, K, g)
  BY <1>3, <1>4, FineIs DEF Kept
<1> QED BY <1>5 DEF g

(* i I A o O keep all; a may leave the cursor behind the text.             *)
LEMMA FineEntered ==
    ASSUME NEW C, AlphabetOK(C), NEW K, NEW e, Fine(C, K, e), e.cur_pos \in 0..Len(e.text),
           e.cur_pos <= Len(e.text), NEW c \in InsertCmds, c \in K
    PROVE  Fine(C, K, Enter(e, c))
<1> DEFINE g == Enter(e, c)
<1>1. e \in Editing(C) /\ DotFits(C, e)
  BY DEF Fine
<1>2. Entered(C, e, g, c)
  BY <1>1, EnterIs
<1> HIDE DEF g
<1>3. g \in Editing(C) /\ g.mode = "insert" /\ g.ins = c /\ g.dot = e.dot /\ (c # "a" => Sound(e, g))
  BY <1>1, <1>2, EnteredSound
<1>4. DotFits(C, g)
  BY <1>1, <1>3 DEF DotFits, InsertCmds
<1>5. Steady(K) => Sound(e, g)
  BY <1>3 DEF Steady
<1>6. Fine(C, K, g)
  BY <1>1, <1>3, <1>4, <1>5 DEF Fine, Sound
<1> QED BY <1>6 DEF g

(* The keys of insert mode keep all.                                       *)
LEMMA FineKeyed ==
    ASSUME NEW C, NEW K, NEW e, Fine(C, K, e), e.cur_pos \in 0..Len(e.text),
           e.cur_pos <= Len(e.text),
           NEW k, (k \in InsertKeys /\ k \in K) \/ (k \in C /\ k \notin InsertKeys)
    PROVE  Fine(C, K, InsertKey(e, k))
<1> DEFINE g == InsertKey(e, k)
<1>1. e \in Editing(C) /\ DotFits(C, e)
  BY DEF Fine
<1>2. Keyed(C, e, g, k)
  BY <1>1, InsertKeyIs
<1> HIDE DEF g
<1>3. /\ g \in Editing(C) /\ g.mode = e.mode /\ g.ins = e.ins /\ g.dot = e.dot
      /\ Placed(g.text, g.cur_pos) /\ (k \notin Erasers => Sound(e, g))
  BY <1>1, <1>2, KeyedSound
<1>4. DotFits(C, g)
  BY <1>1, <1>3, DotFitsSame
<1>5. Steady(K) /\ "u" \in K => Sound(e, g)
  <2>1. k \in Erasers => k \in K
    BY DEF Erasers, InsertKeys
  <2>2. Steady(K) /\ "u" \in K => k \notin Erasers
    BY <2>1 DEF Steady
  <2> QED BY <2>2, <1>3
<1>6. Fine(C, K, g)
  BY <1>3, <1>4, <1>5, FineIs DEF Sound
<1> QED BY <1>6 DEF g

(* ESC keeps all.                                                          *)
LEMMA FineEscape ==
    ASSUME NEW C, AlphabetOK(C), NEW K, NEW e, Fine(C, K, e), e.cur_pos \in 0..Len(e.text),
           e.cur_pos <= Len(e.text), e.mode = "insert"
    PROVE  Fine(C, K, Escape(e))
<1> DEFINE g == Escape(e)
           kept == ~ (e.ins # None /\ e.undo.type = "insert" /\ e.undo.len > 0)
<1>1. e \in Editing(C) /\ DotFits(C, e)
  BY DEF Fine
<1>2. /\ g \in Editing(C) /\ g.mode = "normal" /\ g.ins = None /\ Sound(e, g)
      /\ kept => g.dot = e.dot
      /\ ~kept => /\ g.dot.cmd = e.ins /\ g.dot.arg = None
                  /\ g.dot.motion = IF e.ins = "c" THEN e.dot.motion ELSE None
  BY <1>1, EscapeIs
<1> HIDE DEF g, kept
<1>3. DotFits(C, g)
  <2>1. CASE kept
    BY <1>1, <1>2, <2>1, DotFitsSame
  <2>2. CASE ~kept
    <3>1. e.ins \in InsertCmds \cup {"c", None}
      BY <1>1, EditorHas
    <3>2. g.dot.cmd # "r" /\ g.dot.cmd # "d"
      BY <1>2, <2>2, <3>1 DEF InsertCmds, None
    <3>3. g.dot.cmd = "c" => g.dot.motion \in OpMotions \cup {"c"}
      BY <1>1, <1>2, <2>2 DEF DotFits
    <3> QED BY <1>2, <3>2, <3>3 DEF DotFits
  <2> QED BY <2>1, <2>2
<1>4. Fine(C, K, g)
  BY <1>2, <1>3, FineSound
<1> QED BY <1>4 DEF g

(* A motion takes the cursor to a place in the text.                       *)
LEMMA TargetMoves ==
    ASSUME NEW C, NEW e \in Editing(C), e.cur_pos \in 0..Len(e.text),
           e.cur_pos <= Len(e.text), NEW m \in Motions, NEW n \in Nat, NEW w \in Nat, NEW lines
    PROVE  Moved(C, e, CursorAt(e, Target(e.text, e.cur_pos, m, n, w, lines)))
<1> DEFINE t == e.text
           p == e.cur_pos
           q == Target(t, p, m, n, w, lines)
<1>2. t \in Seq(C) /\ p \in 0..Len(t)
  BY EditorHas DEF Texts
<1>3. q \in 0..Len(t)
  <2> HIDE DEF t, p
  <2> QED BY <1>2, TargetIn
<1> HIDE DEF q
<1>4. Moved(C, e, CursorAt(e, q))
  BY <1>3, CursorMoves
<1> QED BY <1>4 DEF q

(* Moves keep all: motions, and finding on the line.                       *)
LEMMA FineMove ==
    ASSUME NEW C, NEW K, NEW e, Fine(C, K, e), e.cur_pos \in 0..Len(e.text),
           e.cur_pos <= Len(e.text), NEW m \in Motions, NEW n \in Nat, NEW w \in Nat, NEW lines
    PROVE  Fine(C, K, CursorAt(e, Target(e.text, e.cur_pos, m, n, w, lines)))
<1>1. e \in Editing(C)
  BY DEF Fine
<1> DEFINE g == CursorAt(e, Target(e.text, e.cur_pos, m, n, w, lines))
<1>2. Moved(C, e, g)
  BY <1>1, TargetMoves
<1> HIDE DEF g
<1>3. Fine(C, K, g)
  BY <1>2, FineMoved
<1> QED BY <1>3 DEF g

(* Finding a character does the same.                                     *)
LEMMA CharMoves ==
    ASSUME NEW C, NEW e \in Editing(C), e.cur_pos \in 0..Len(e.text),
           e.cur_pos <= Len(e.text), NEW c, NEW way, NEW n \in Nat
    PROVE  Moved(C, e, CursorAt(e, FoundOnLine(e.text, e.cur_pos, c, way, n)))
<1> DEFINE t == e.text
           p == e.cur_pos
           q == FoundOnLine(t, p, c, way, n)
<1>2. t \in Seq(C) /\ p \in 0..Len(t)
  BY EditorHas DEF Texts
<1>3. q \in 0..Len(t)
  <2> HIDE DEF t, p
  <2> QED BY <1>2, FoundOnLineIn
<1> HIDE DEF q
<1>4. Moved(C, e, CursorAt(e, q))
  BY <1>3, CursorMoves
<1> QED BY <1>4 DEF q

(* The same of a character found.                                          *)
LEMMA FineFound ==
    ASSUME NEW C, NEW K, NEW e, Fine(C, K, e), e.cur_pos \in 0..Len(e.text),
           e.cur_pos <= Len(e.text), NEW c, NEW way, NEW n \in Nat
    PROVE  Fine(C, K, CursorAt(e, FoundOnLine(e.text, e.cur_pos, c, way, n)))
<1>1. e \in Editing(C)
  BY DEF Fine
<1> DEFINE g == CursorAt(e, FoundOnLine(e.text, e.cur_pos, c, way, n))
<1>2. Moved(C, e, g)
  BY <1>1, CharMoves
<1> HIDE DEF g
<1>3. Fine(C, K, g)
  BY <1>2, FineMoved
<1> QED BY <1>3 DEF g

(* Writing the file keeps all.                                             *)
LEMMA FineWritten ==
    ASSUME NEW C, NEW K, NEW e, Fine(C, K, e)
    PROVE  LET g == [e EXCEPT !.modified = FALSE]
           IN  Fine(C, K, g) /\ g.text = e.text /\ g.undo = e.undo /\ g.mode = e.mode
<1> DEFINE g == [e EXCEPT !.modified = FALSE]
<1>1. e \in Editing(C) /\ DotFits(C, e)
  BY DEF Fine
<1>2. g \in Editing(C)
  BY <1>1 DEF Editing, Editors
<1>3. /\ g.text = e.text /\ g.cur_pos = e.cur_pos /\ g.undo = e.undo
      /\ g.mode = e.mode /\ g.ins = e.ins /\ g.dot = e.dot
  BY <1>1 DEF Editing, Editors
<1> HIDE DEF g
<1>4. DotFits(C, g)
  BY <1>1, <1>3, DotFitsSame
<1>5. Fine(C, K, g)
  BY <1>2, <1>3, <1>4 DEF Fine
<1> QED BY <1>3, <1>5 DEF g

-----------------------------------------------------------------------------
(* The specification.                                                      *)

(* The characters of a user are an alphabet.                               *)
LEMMA UserAlphabet ==
    ASSUME NEW u \in DOMAIN Users
    PROVE  AlphabetOK(Characters(u))
<1> DEFINE C == Characters(u)
<1>1. NL \in C /\ SP \in C /\ Nul \in C /\ Absent \in C /\ Range(Toggled) \subseteq C
  BY DEF Characters
<1>2. C \ {NL} \subseteq DOMAIN Toggled
  BY UsersAssumption
<1> HIDE DEF C
<1>3. \A c \in DOMAIN Toggled : Toggled[c] \in Range(Toggled)
  BY DEF Range
<1>4. AlphabetOK(C)
  BY <1>1, <1>2, <1>3 DEF AlphabetOK
<1> QED BY <1>4 DEF C

(* The texts and patterns of a user are of them.                           *)
LEMMA UserTexts ==
    ASSUME NEW u \in DOMAIN Users, NEW t \in Users[u].texts \cup Users[u].patterns
    PROVE  t \in Seq(Characters(u))
<1>1. t \in Seq(Range(t))
  BY UsersAssumption
<1>2. Range(t) \subseteq Characters(u)
  BY DEF Characters
<1>3. PICK n \in Nat : t \in [1..n -> Range(t)]
  BY <1>1, SeqDef
<1>4. t \in [1..n -> Characters(u)]
  BY <1>2, <1>3
<1> QED BY <1>4, SeqDef

\* The inductive invariant of type and cursor.
IInv ==
    /\ user \in DOMAIN Users /\ steps \in 0..Users[user].steps
    /\ seek \in Seeks(Characters(user))
    /\ saved \in Seq(Characters(user)) /\ before \in Seq(Characters(user))
    /\ Fine(Characters(user), Users[user].keys, ed)

(* A step that leaves the editor fine and the rest typed keeps it.         *)
LEMMA TakesKeeps ==
    ASSUME IInv, NEW g, Takes(g), Fine(Characters(user), Users[user].keys, g),
           seek' \in Seeks(Characters(user)),
           saved' \in Seq(Characters(user)), before' \in Seq(Characters(user))
    PROVE  IInv'
<1> DEFINE C == Characters(user)
           K == Users[user].keys
<1>1. user' = user /\ ed' \in {g, Counted(g)} /\ steps' = steps + 1 /\ steps < Users[user].steps
  BY DEF Takes
<1>2. Fine(C, K, ed')
  <2> HIDE DEF C, K
  <2>1. Fine(C, K, g)
    BY DEF C, K
  <2> QED BY <1>1, <2>1, FineCounted
<1>3. steps' \in 0..Users[user].steps
  <2>1. steps \in 0..Users[user].steps /\ Users[user].steps \in Nat
    BY UsersAssumption DEF IInv
  <2> QED BY <1>1, <2>1
<1>4. user \in DOMAIN Users
  BY DEF IInv
<1>5. Characters(user)' = Characters(user)
  BY <1>1 DEF Characters
<1> QED BY <1>1, <1>2, <1>3, <1>4, <1>5 DEF IInv

(* So a step that only touches the editor.                                 *)
LEMMA StepKeeps ==
    ASSUME IInv, NEW g, Step(g), Fine(Characters(user), Users[user].keys, g),
           saved' \in Seq(Characters(user)), before' = before
    PROVE  IInv'
<1>1. Takes(g) /\ seek' = seek
  BY DEF Step
<1>2. seek' \in Seeks(Characters(user)) /\ before' \in Seq(Characters(user))
  BY <1>1 DEF IInv
<1> QED BY <1>1, <1>2, TakesKeeps

(* So a command that may change the text.                                  *)
LEMMA DoesKeeps ==
    ASSUME IInv, NEW g, Does(g), Fine(Characters(user), Users[user].keys, g)
    PROVE  IInv'
<1>1. Takes(g) /\ seek' = seek /\ saved' = saved /\ (before' = before \/ before' = ed.text)
  BY DEF Does, Step
<1>2. ed \in Editing(Characters(user))
  BY DEF IInv, Fine
<1>3. ed.text \in Seq(Characters(user))
  BY <1>2, EditorHas DEF Texts
<1>4. /\ seek' \in Seeks(Characters(user))
      /\ saved' \in Seq(Characters(user)) /\ before' \in Seq(Characters(user))
  BY <1>1, <1>3 DEF IInv
<1> QED BY <1>1, <1>4, TakesKeeps

(* So a search.                                                            *)
LEMMA SearchesKeeps ==
    ASSUME IInv, NEW g, Searches(g), Fine(Characters(user), Users[user].keys, g),
           seek' \in Seeks(Characters(user))
    PROVE  IInv'
<1>1. Takes(g) /\ saved' = saved /\ before' = before
  BY DEF Searches
<1>2. saved' \in Seq(Characters(user)) /\ before' \in Seq(Characters(user))
  BY <1>1 DEF IInv
<1> QED BY <1>1, <1>2, TakesKeeps

(* It holds at first.                                                      *)
LEMMA IInvInit ==
    ASSUME Init PROVE IInv
<1>1. PICK t \in Users[user].texts : ed = Start(t) /\ saved = t /\ before = t
  BY DEF Init
<1>2. user \in DOMAIN Users /\ seek = Unsought /\ steps = 0
  BY DEF Init
<1> DEFINE C == Characters(user)
           K == Users[user].keys
<1>3. t \in Texts(C, Capacity) /\ t \in Seq(C)
  <2>1. t \in Seq(C)
    BY <1>1, <1>2, UserTexts
  <2>2. Len(t) <= Capacity
    BY <1>1, <1>2, UsersAssumption
  <2> QED BY <2>1, <2>2 DEF Texts
<1>4. Fine(C, K, Start(t))
  <2> HIDE DEF C, K
  <2> QED BY <1>3, StartIs
<1>5. Unsought \in Seeks(C)
  <2>1. Nul \in C
    BY DEF Characters
  <2> HIDE DEF C
  <2>2. SearchMax \in 1..SearchMax
    BY SearchAssumption
  <2> DEFINE a == [i \in 1..SearchMax |-> Nul]
  <2>3. a \in [1..SearchMax -> C] /\ a[SearchMax] = Nul
    BY <2>1, <2>2
  <2>4. Unsought = [pat |-> a, dir |-> Forward, ch |-> None, way |-> Forward]
    BY DEF Unsought
  <2> HIDE DEF a
  <2> QED BY <2>3, <2>4 DEF Seeks
<1>6. steps \in 0..Users[user].steps
  BY <1>2, UsersAssumption
<1> QED BY <1>1, <1>2, <1>3, <1>4, <1>5, <1>6 DEF IInv

(* Every step keeps it.                                                    *)
LEMMA IInvNext ==
    ASSUME IInv, Next PROVE IInv'
<1> DEFINE C == Characters(user)
           K == Users[user].keys
           e == ed
<1>1. user \in DOMAIN Users /\ Fine(C, K, e) /\ e \in Editing(C) /\ seek \in Seeks(C)
      /\ saved \in Seq(C)
  BY DEF IInv, Fine
<1>2. AlphabetOK(C)
  BY <1>1, UserAlphabet
<1>3. /\ Users[user].counts \subseteq Nat \ {0} /\ Users[user].dot_counts \subseteq Nat
      /\ Columns \subseteq Nat /\ Users[user].typed \cap InsertKeys = {}
  BY <1>1, UsersAssumption
<1>4. Users[user].typed \subseteq C
  BY DEF Characters
<1>5. ASSUME NEW g, Takes(g) PROVE e.cur_pos <= Len(e.text) /\ e.cur_pos \in 0..Len(e.text)
  <2>1. e.cur_pos <= Len(e.text)
    BY <1>5 DEF Takes
  <2>2. e.cur_pos \in Nat /\ Len(e.text) \in Nat
    BY <1>1, EditorHas DEF Texts
  <2> DEFINE p == e.cur_pos
             n == Len(e.text)
  <2> HIDE DEF p, n
  <2>3. p <= n /\ p \in Nat /\ n \in Nat
    BY <2>1, <2>2 DEF p, n
  <2>4. p \in 0..n
    BY <2>3
  <2> QED BY <2>1, <2>4 DEF p, n
<1>6. ASSUME NEW n \in Users[user].counts, NEW op \in Operators, NEW m \in OpMotions \cup {op},
             Operate(op, m, n)
      PROVE  IInv'
  <2> DEFINE g == IF m = op THEN Doubled(ed, op, n) ELSE WithMotion(ed, op, m, n)
  <2>1. Does(g) /\ Takes(g) /\ e.mode = "normal"
    BY <1>6 DEF Operate, Does, Step, Gets
  <2>2. n \in Nat
    BY <1>3
  <2>3. Fine(C, K, g)
    <3>1. e.cur_pos <= Len(e.text) /\ e.cur_pos \in 0..Len(e.text)
      BY <2>1, <1>5
    <3> HIDE DEF C, K
    <3> QED BY <3>1, <2>1, <2>2, <1>1, <1>2, FineOperate
  <2> HIDE DEF g
  <2> QED BY <2>1, <2>3, DoesKeeps
<1>7. ASSUME NEW n \in Users[user].counts, ToggleCase(n) \/ JoinLines(n)
      PROVE  IInv'
  <2> DEFINE g == IF ToggleCase(n) THEN Tilde(ed, n) ELSE Join(ed, n)
  <2>1. Does(g) /\ Takes(g) /\ e.mode = "normal"
    BY <1>7 DEF ToggleCase, JoinLines, Does, Step, Gets
  <2>2. n \in Nat
    BY <1>3
  <2>3. e.cur_pos <= Len(e.text) /\ e.cur_pos \in 0..Len(e.text)
    BY <2>1, <1>5
  <2>4. Fine(C, K, Tilde(e, n))
    <3> HIDE DEF C, K
    <3>1. Result(C, e, Tilde(e, n)) /\ DotIsOf(e, Tilde(e, n), "~", None, None)
      BY <2>2, <2>3, <1>1, <1>2, TildeIs
    <3> QED BY <3>1, <2>1, <2>3, <1>1, FineNoted
  <2>5. Fine(C, K, Join(e, n))
    <3> HIDE DEF C, K
    <3>1. Result(C, e, Join(e, n)) /\ DotIsOf(e, Join(e, n), "J", None, None)
      BY <2>2, <2>3, <1>1, <1>2, JoinIs
    <3> QED BY <3>1, <2>1, <2>3, <1>1, FineNoted
  <2>6. Fine(C, K, g)
    BY <2>4, <2>5
  <2> HIDE DEF g
  <2> QED BY <2>1, <2>6, DoesKeeps
<1>8. ASSUME NEW n \in Users[user].counts, NEW m \in Motions, NEW w \in Columns, Move(m, n, w)
      PROVE  IInv'
  <2> DEFINE c == IF m \in {"G", "nG", "gg"} THEN Counted(ed) ELSE ed
             g == CursorAt(c, Target(c.text, c.cur_pos, m, n, w, c.line_cnt))
  <2>1. Step(g) /\ Takes(g) /\ saved' = saved /\ before' = before
    BY <1>8 DEF Move, Step
  <2>2. n \in Nat /\ w \in Nat
    BY <1>3
  <2>3. e.cur_pos <= Len(e.text) /\ e.cur_pos \in 0..Len(e.text)
    BY <2>1, <1>5
  <2>4. Fine(C, K, c) /\ c.text = e.text /\ c.cur_pos = e.cur_pos
    <3> HIDE DEF C, K
    <3> QED BY <1>1, FineCounted
  <2> HIDE DEF c
  <2>5. c.cur_pos <= Len(c.text) /\ c.cur_pos \in 0..Len(c.text)
    BY <2>3, <2>4
  <2>6. Fine(C, K, g)
    <3> DEFINE l == c.line_cnt
    <3> HIDE DEF C, K, l
    <3>1. Fine(C, K, CursorAt(c, Target(c.text, c.cur_pos, m, n, w, l)))
      BY <2>2, <2>4, <2>5, FineMove
    <3> QED BY <3>1 DEF l
  <2> HIDE DEF g
  <2>7. saved' \in Seq(C)
    BY <1>1, <2>1
  <2> QED BY <2>1, <2>6, <2>7, StepKeeps
<1>9. ASSUME NEW n \in Users[user].counts, NEW c \in {"f", "F", ";", ","},
             NEW x \in Users[user].typed, FindChar(c, x, n)
      PROVE  IInv'
  <2> DEFINE way == IF c = "," THEN -seek'.way ELSE seek'.way
             g == CursorAt(ed, FoundOnLine(ed.text, ed.cur_pos, seek'.ch, way, n))
  <2>1. Searches(g) /\ Takes(g)
    BY <1>9 DEF FindChar, Searches
  <2>2. n \in Nat
    BY <1>3
  <2>3. e.cur_pos <= Len(e.text) /\ e.cur_pos \in 0..Len(e.text)
    BY <2>1, <1>5
  <2>4. Fine(C, K, g)
    <3> DEFINE l == seek'.ch
    <3> HIDE DEF C, K, l, way
    <3>1. Fine(C, K, CursorAt(e, FoundOnLine(e.text, e.cur_pos, l, way, n)))
      BY <2>2, <2>3, <1>1, FineFound
    <3> QED BY <3>1 DEF l
  <2> HIDE DEF g
  <2>5. seek' \in Seeks(C)
    <3>1. seek' = CASE c = "f" -> [seek EXCEPT !.ch = x, !.way = Forward]
                    [] c = "F" -> [seek EXCEPT !.ch = x, !.way = Backward]
                    [] OTHER -> seek
      BY <1>9 DEF FindChar
    <3>2. x \in C
      BY <1>4
    <3> HIDE DEF C
    <3>3. /\ [seek EXCEPT !.ch = x, !.way = Forward] \in Seeks(C)
          /\ [seek EXCEPT !.ch = x, !.way = Backward] \in Seeks(C)
      BY <1>1, <3>2 DEF Seeks
    <3> QED BY <3>1, <3>3, <1>1
  <2> QED BY <2>1, <2>4, <2>5, SearchesKeeps
<1>10. ASSUME NEW c \in Users[user].typed, ReplaceChar(c)
       PROVE  IInv'
  <2> DEFINE g == Replace(ed, c)
  <2>1. Does(g) /\ Takes(g) /\ e.mode = "normal"
    BY <1>10 DEF ReplaceChar, Does, Step, Gets
  <2>2. e.cur_pos <= Len(e.text) /\ e.cur_pos \in 0..Len(e.text)
    BY <2>1, <1>5
  <2>3. c \in C
    BY <1>4
  <2>4. Fine(C, K, g)
    <3> HIDE DEF C, K
    <3>1. Result(C, e, g) /\ (g.dot = e.dot \/ DotIsOf(e, g, "r", None, c))
      BY <2>2, <2>3, <1>1, <1>2, ReplaceIs
    <3> HIDE DEF g
    <3>2. g.dot = e.dot => Fine(C, K, g)
      BY <3>1, <2>2, <1>1, FineResult
    <3>3. DotIsOf(e, g, "r", None, c) => Fine(C, K, g)
      BY <3>1, <2>1, <2>2, <2>3, <1>1, FineNoted
    <3> QED BY <3>1, <3>2, <3>3
  <2> HIDE DEF g
  <2> QED BY <2>1, <2>4, DoesKeeps
<1>11. ASSUME Put PROVE IInv'
  <2>1. PICK g : (g = PutAfter(ed) \/ g = PutBefore(ed)) /\ Does(g)
    BY <1>11 DEF Put
  <2>2. Takes(g)
    BY <2>1 DEF Does, Step
  <2>3. e.cur_pos <= Len(e.text) /\ e.cur_pos \in 0..Len(e.text)
    BY <2>2, <1>5
  <2>4. Fine(C, K, g)
    <3> HIDE DEF C, K
    <3>1. Result(C, e, g) /\ g.dot = e.dot
      BY <2>1, <2>3, <1>1, <1>2, PutIs
    <3> QED BY <3>1, <2>3, <1>1, FineResult
  <2> QED BY <2>1, <2>4, DoesKeeps
<1>12. ASSUME Undo PROVE IInv'
  <2> DEFINE g == Undone(ed)
  <2>1. Does(g) /\ Takes(g) /\ "u" \in K
    BY <1>12 DEF Undo, Does, Step, Gets
  <2>2. e.cur_pos <= Len(e.text)
    BY <2>1, <1>5
  <2>3. Fine(C, K, g)
    <3> HIDE DEF C, K
    <3> QED BY <2>1, <2>2, <1>1, FineUndone
  <2> HIDE DEF g
  <2> QED BY <2>1, <2>3, DoesKeeps
<1>13. ASSUME Write PROVE IInv'
  <2> DEFINE g == [ed EXCEPT !.modified = FALSE]
  <2>1. Step(g) /\ before' = before /\ saved' = ed.text
    BY <1>13 DEF Write
  <2>2. Fine(C, K, g)
    <3> HIDE DEF C, K
    <3> QED BY <1>1, FineWritten
  <2> HIDE DEF g
  <2>3. saved' \in Seq(C)
    BY <2>1, <1>1, EditorHas DEF Texts
  <2> QED BY <2>1, <2>2, <2>3, StepKeeps
<1>14. ASSUME NEW n \in Users[user].dot_counts, Dot(n) PROVE IInv'
  <2> DEFINE g == DotReplay(ed, n)
  <2>1. Does(g) /\ Takes(g)
    BY <1>14 DEF Dot, Does, Step
  <2>2. e.cur_pos <= Len(e.text) /\ e.cur_pos \in 0..Len(e.text)
    BY <2>1, <1>5
  <2>3. n \in Nat
    BY <1>3
  <2>4. Fine(C, K, g)
    <3> HIDE DEF C, K
    <3> QED BY <2>2, <2>3, <1>1, <1>2, FineReplayed
  <2> HIDE DEF g
  <2> QED BY <2>1, <2>4, DoesKeeps
<1>15. ASSUME NEW c \in InsertCmds, EnterInsert(c) PROVE IInv'
  <2> DEFINE g == Enter(ed, c)
  <2>1. Does(g) /\ Takes(g) /\ c \in K
    BY <1>15 DEF EnterInsert, Does, Step, Gets
  <2>2. e.cur_pos <= Len(e.text) /\ e.cur_pos \in 0..Len(e.text)
    BY <2>1, <1>5
  <2>3. Fine(C, K, g)
    <3> HIDE DEF C, K
    <3> QED BY <2>1, <2>2, <1>1, <1>2, FineEntered
  <2> HIDE DEF g
  <2> QED BY <2>1, <2>3, DoesKeeps
<1>16. ASSUME NEW k \in Users[user].typed \cup InsertKeys, Press(k) PROVE IInv'
  <2> DEFINE g == InsertKey(ed, k)
  <2>1. Step(g) /\ Takes(g) /\ saved' = saved /\ before' = before
        /\ (k \in Users[user].typed \/ k \in K)
    BY <1>16 DEF Press, Step
  <2>2. e.cur_pos <= Len(e.text) /\ e.cur_pos \in 0..Len(e.text)
    BY <2>1, <1>5
  <2>3. (k \in InsertKeys /\ k \in K) \/ (k \in C /\ k \notin InsertKeys)
    BY <2>1, <1>3, <1>4
  <2>4. Fine(C, K, g)
    <3> HIDE DEF C, K
    <3> QED BY <2>2, <2>3, <1>1, FineKeyed
  <2> HIDE DEF g
  <2>5. saved' \in Seq(C)
    BY <1>1, <2>1
  <2> QED BY <2>1, <2>4, <2>5, StepKeeps
<1>17. ASSUME NEW k \in {"Up", "Down"}, NEW w \in Columns, Glide(k, w) PROVE IInv'
  <2> DEFINE m == IF k = "Up" THEN "k" ELSE "j"
             g == CursorAt(ed, Target(ed.text, ed.cur_pos, m, 1, w, 0))
  <2>1. Step(g) /\ Takes(g) /\ saved' = saved /\ before' = before
    BY <1>17 DEF Glide, Step
  <2>2. e.cur_pos <= Len(e.text) /\ e.cur_pos \in 0..Len(e.text)
    BY <2>1, <1>5
  <2>3. m \in Motions /\ w \in Nat
    BY <1>3 DEF Motions, OpMotions
  <2>4. Fine(C, K, g)
    <3> HIDE DEF C, K, m
    <3> QED BY <2>2, <2>3, <1>1, FineMove
  <2> HIDE DEF g
  <2>5. saved' \in Seq(C)
    BY <1>1, <2>1
  <2> QED BY <2>1, <2>4, <2>5, StepKeeps
<1>18. ASSUME LeaveInsert PROVE IInv'
  <2> DEFINE g == Escape(ed)
  <2>1. Step(g) /\ Takes(g) /\ saved' = saved /\ before' = before /\ e.mode = "insert"
    BY <1>18 DEF LeaveInsert, Step
  <2>2. e.cur_pos <= Len(e.text) /\ e.cur_pos \in 0..Len(e.text)
    BY <2>1, <1>5
  <2>3. Fine(C, K, g)
    <3> HIDE DEF C, K
    <3> QED BY <2>1, <2>2, <1>1, <1>2, FineEscape
  <2> HIDE DEF g
  <2>4. saved' \in Seq(C)
    BY <1>1, <2>1
  <2> QED BY <2>1, <2>3, <2>4, StepKeeps
<1> DEFINE h(c) == IF c = "/" THEN Forward ELSE Backward
<1>19. ASSUME NEW c \in {"/", "?"}, NEW s \in Users[user].patterns, AbandonSearch(c, s)
       PROVE  IInv'
  <2>1. Searches(ed) /\ seek' = Spelled([seek EXCEPT !.dir = h(c)], s, 0, FALSE) /\ Len(s) < SearchMax
    BY <1>19 DEF AbandonSearch
  <2>2. h(c) \in {Forward, Backward} /\ s \in Seq(C)
    BY <1>1, UserTexts
  <2>3. seek' \in Seeks(C)
    <3> HIDE DEF C, h
    <3>1. Len(s) \in Nat
      BY <2>2
    <3>2. 0 \in Nat /\ 0 <= Len(s)
      BY <3>1
    <3> QED BY <2>1, <2>2, <3>2, <1>1, <1>2, SpelledIs
  <2> QED BY <2>1, <2>3, <1>1, SearchesKeeps
<1>20. ASSUME NEW c \in {"/", "?"}, NEW s \in Users[user].patterns, NEW n \in 0..Len(s),
              SearchFor(c, s, n)
       PROVE  IInv'
  <2> DEFINE k == Spelled([seek EXCEPT !.dir = h(c)], s, n, TRUE)
             g == IF n > 0 THEN Found(ed, k) ELSE ed
  <2>1. Searches(g) /\ Takes(g) /\ seek' = k /\ Len(s) < SearchMax
    BY <1>20 DEF SearchFor, Searches
  <2>2. h(c) \in {Forward, Backward} /\ s \in Seq(C)
    BY <1>1, UserTexts
  <2>3. k \in Seeks(C)
    <3> HIDE DEF C, h
    <3>1. n \in Nat /\ n <= Len(s)
      BY <2>2
    <3> QED BY <2>1, <2>2, <3>1, <1>1, <1>2, SpelledIs
  <2> HIDE DEF k
  <2>4. e.cur_pos <= Len(e.text)
    BY <2>1, <1>5
  <2>5. Fine(C, K, g)
    <3> HIDE DEF C, K
    <3>1. Found(e, k) = e \/ Moved(C, e, Found(e, k))
      BY <2>3, <1>1, FoundIs
    <3>2. Fine(C, K, Found(e, k))
      BY <3>1, <2>4, <1>1, FineMoved
    <3> QED BY <3>2, <1>1
  <2> HIDE DEF g
  <2> QED BY <2>1, <2>3, <2>5, SearchesKeeps
<1>21. ASSUME NEW c \in {"n", "N"}, SearchAgain(c) PROVE IInv'
  <2> DEFINE k == IF c = "n" THEN seek ELSE [seek EXCEPT !.dir = -@]
             g == Found(ed, k)
  <2>1. Searches(g) /\ Takes(g) /\ seek' = seek
    BY <1>21 DEF SearchAgain, Searches
  <2>2. k \in Seeks(C)
    <3> DEFINE d == -seek.dir
    <3> HIDE DEF C
    <3>1. d \in {Forward, Backward}
      BY <1>1 DEF Seeks, Forward, Backward
    <3> HIDE DEF d
    <3>2. [seek EXCEPT !.dir = d] \in Seeks(C)
      BY <3>1, <1>1 DEF Seeks
    <3> QED BY <3>2, <1>1 DEF d
  <2> HIDE DEF k
  <2>3. e.cur_pos <= Len(e.text)
    BY <2>1, <1>5
  <2>4. Fine(C, K, g)
    <3> HIDE DEF C, K
    <3>1. g = e \/ Moved(C, e, g)
      BY <2>2, <1>1, FoundIs
    <3> QED BY <3>1, <2>3, <1>1, FineMoved
  <2> HIDE DEF g
  <2>5. seek' \in Seeks(C)
    BY <1>1, <2>1
  <2> QED BY <2>1, <2>4, <2>5, SearchesKeeps
<1> HIDE DEF C, K, e, h
<1> QED BY <1>6, <1>7, <1>8, <1>9, <1>10, <1>11, <1>12, <1>13, <1>14, <1>15, <1>16, <1>17,
           <1>18, <1>19, <1>20, <1>21 DEF Next

(* Nothing but a step changes it.                                          *)
LEMMA IInvSame ==
    ASSUME IInv, UNCHANGED vars PROVE IInv'
<1>1. Characters(user)' = Characters(user)
  BY DEF vars, Characters
<1> QED BY <1>1 DEF IInv, vars

(* The editor, the texts and the search have their types, always: no text  *)
(* is longer than its array (zvi.h:102-184).                               *)
THEOREM EditCommandsTypes == Spec => []TypeOK
<1>1. Init => IInv
  BY IInvInit
<1>2. IInv /\ [Next]_vars => IInv'
  BY IInvNext, IInvSame
<1>3. IInv => TypeOK
  BY DEF IInv, Fine, TypeOK, Editing
<1> QED BY <1>1, <1>2, <1>3, PTL DEF Spec

(* The cursor is always a position of the buffer (zvi.h:120), but for the  *)
(* users and the full buffer that CursorInBuffer names.                    *)
THEOREM EditCommandsCursor == Spec => []CursorInBuffer
<1>1. Init => IInv
  BY IInvInit
<1>2. IInv /\ [Next]_vars => IInv'
  BY IInvNext, IInvSame
<1>3. IInv => CursorInBuffer
  <2> SUFFICES ASSUME IInv, ~Uses({"a"}), ~ (Uses({"u"}) /\ Uses(Erasers))
               PROVE  ed.cur_pos <= Len(ed.text) \/ Full(ed)
    BY DEF CursorInBuffer, Erasers
  <2> DEFINE K == Users[user].keys
  <2>1. Steady(K)
    <3>1. Users[user].keys \cap {"a"} = {} /\ (Users[user].keys \cap {"u"} = {} \/ Users[user].keys \cap Erasers = {})
      BY DEF Uses
    <3> QED BY <3>1 DEF Steady
  <2> HIDE DEF K
  <2>2. Placed(ed.text, ed.cur_pos)
    BY <2>1 DEF IInv, Fine, K
  <2> QED BY <2>2 DEF Placed, Full
<1> QED BY <1>1, <1>2, <1>3, PTL DEF Spec

-----------------------------------------------------------------------------
(* Taking a change back.                                                   *)

(* The characters of a text's beginning and rest.                          *)
LEMMA PartsAt ==
    ASSUME NEW C, NEW t \in Seq(C), NEW n \in 0..Len(t)
    PROVE  /\ First(t, n) \in Seq(C) /\ Len(First(t, n)) = n
           /\ \A i \in 1..n : First(t, n)[i] = t[i]
           /\ From(t, n) \in Seq(C) /\ Len(From(t, n)) = Len(t) - n
           /\ \A i \in 1..(Len(t) - n) : From(t, n)[i] = t[n + i]
<1>1. n \in Nat /\ n <= Len(t) /\ Len(t) \in Nat
  OBVIOUS
<1>2. First(t, n) = SubSeq(t, 1, n) /\ First(t, n) \in Seq(C) /\ Len(First(t, n)) = n
  BY <1>1, FirstIs
<1>3. From(t, n) = SubSeq(t, n + 1, Len(t)) /\ From(t, n) \in Seq(C) /\ Len(From(t, n)) = Len(t) - n
  BY <1>1, FromIs DEF From
<1>4. \A i \in 1..n : SubSeq(t, 1, n)[i] = t[i]
  BY <1>1
<1>5. \A i \in 1..(Len(t) - n) : SubSeq(t, n + 1, Len(t))[i] = t[n + i]
  <2> SUFFICES ASSUME NEW i \in 1..(Len(t) - n) PROVE SubSeq(t, n + 1, Len(t))[i] = t[n + i]
    OBVIOUS
  <2>1. n + i = n + 1 + i - 1
    BY <1>1
  <2> QED BY <1>1, <2>1
<1> QED BY <1>2, <1>3, <1>4, <1>5

(* The characters of a text between two others.                            *)
LEMMA BetweenAt ==
    ASSUME NEW C, NEW x \in Seq(C), NEW s \in Seq(C), NEW y \in Seq(C)
    PROVE  /\ x \o s \o y \in Seq(C)
           /\ Len(x \o s \o y) = Len(x) + Len(s) + Len(y)
           /\ \A i \in 1..Len(x) : (x \o s \o y)[i] = x[i]
           /\ \A i \in 1..Len(s) : (x \o s \o y)[Len(x) + i] = s[i]
           /\ \A i \in 1..Len(y) : (x \o s \o y)[Len(x) + Len(s) + i] = y[i]
<1> DEFINE a == x \o s
           n == Len(x)
           m == Len(s)
           k == Len(y)
<1>1. n \in Nat /\ m \in Nat /\ k \in Nat
  OBVIOUS
<1>2. a \in Seq(C) /\ Len(a) = n + m /\ \A i \in 1..(n + m) : a[i] = IF i <= n THEN x[i] ELSE s[i - n]
  BY ConcatProperties
<1> HIDE DEF a
<1>3. /\ a \o y \in Seq(C) /\ Len(a \o y) = (n + m) + k
      /\ \A i \in 1..((n + m) + k) : (a \o y)[i] = IF i <= n + m THEN a[i] ELSE y[i - (n + m)]
  <2>1. /\ a \o y \in Seq(C) /\ Len(a \o y) = Len(a) + Len(y)
        /\ \A i \in 1..(Len(a) + Len(y)) : (a \o y)[i] = IF i <= Len(a) THEN a[i] ELSE y[i - Len(a)]
    <3>1. a \in Seq(C) /\ y \in Seq(C)
      BY <1>2
    <3> HIDE DEF n, m, k
    <3> QED BY ONLY <3>1, ConcatProperties
  <2> DEFINE j == n + m
  <2> HIDE DEF k, j
  <2>2. Len(a) = j /\ Len(y) = k
    BY <1>2 DEF j, k
  <2>3. /\ a \o y \in Seq(C) /\ Len(a \o y) = j + k
        /\ \A i \in 1..(j + k) : (a \o y)[i] = IF i <= j THEN a[i] ELSE y[i - j]
    BY <2>1, <2>2
  <2> QED BY <2>3 DEF j
<1> HIDE DEF n, m, k
<1> DEFINE z == a \o y
<1> HIDE DEF z
<1>4. ASSUME NEW i \in 1..n PROVE z[i] = x[i]
  <2>1. i \in 1..((n + m) + k) /\ i <= n + m /\ i \in 1..(n + m) /\ i <= n
    BY <1>1
  <2> QED BY <2>1, <1>2, <1>3 DEF z
<1>5. ASSUME NEW i \in 1..m PROVE z[n + i] = s[i]
  <2>1. n + i \in 1..((n + m) + k) /\ n + i <= n + m /\ n + i \in 1..(n + m) /\ ~ (n + i <= n)
        /\ (n + i) - n = i
    BY <1>1
  <2> QED BY <2>1, <1>2, <1>3 DEF z
<1>6. ASSUME NEW i \in 1..k PROVE z[n + m + i] = y[i]
  <2>1. n + m + i \in 1..((n + m) + k) /\ ~ (n + m + i <= n + m) /\ (n + m + i) - (n + m) = i
    BY <1>1
  <2> QED BY <2>1, <1>3 DEF z
<1>7. Len(z) = n + m + k /\ z \in Seq(C)
  BY <1>3 DEF z
<1> QED BY <1>4, <1>5, <1>6, <1>7 DEF z, a, n, m, k

(* Beginning and rest of such a text.                                      *)
LEMMA PartsOfBetween ==
    ASSUME NEW C, NEW x \in Seq(C), NEW s \in Seq(C), NEW y \in Seq(C)
    PROVE  /\ First(x \o s \o y, Len(x)) = x
           /\ From(x \o s \o y, Len(x) + Len(s)) = y
<1> DEFINE z == x \o s \o y
           n == Len(x)
           m == Len(s)
           k == Len(y)
           f == First(z, n)
           r == From(z, n + m)
<1>1. n \in Nat /\ m \in Nat /\ k \in Nat
  OBVIOUS
<1>2. /\ z \in Seq(C) /\ Len(z) = n + m + k
      /\ \A i \in 1..n : z[i] = x[i]
      /\ \A i \in 1..k : z[n + m + i] = y[i]
  BY BetweenAt
<1> HIDE DEF z
<1>3. f \in Seq(C) /\ Len(f) = n /\ \A i \in 1..n : f[i] = z[i]
  <2> HIDE DEF n, m, k
  <2>1. n \in 0..Len(z)
    BY <1>1, <1>2
  <2> QED BY <1>2, <2>1, PartsAt
<1>4. r \in Seq(C) /\ Len(r) = k /\ \A i \in 1..k : r[i] = z[n + m + i]
  <2> HIDE DEF n, m, k
  <2> DEFINE j == n + m
  <2>1. j \in 0..Len(z) /\ Len(z) - j = k
    BY <1>1, <1>2
  <2> HIDE DEF j
  <2>2. From(z, j) \in Seq(C) /\ Len(From(z, j)) = Len(z) - j
        /\ \A i \in 1..(Len(z) - j) : From(z, j)[i] = z[j + i]
    BY <1>2, <2>1, PartsAt
  <2>3. From(z, j) \in Seq(C) /\ Len(From(z, j)) = k /\ \A i \in 1..k : From(z, j)[i] = z[j + i]
    BY <2>1, <2>2
  <2> QED BY <2>3 DEF j
<1> HIDE DEF f, r
<1>5. f = x
  <2>1. \A i \in 1..Len(f) : f[i] = x[i]
    BY <1>2, <1>3
  <2> QED BY <1>3, <2>1, SeqEqual
<1>6. r = y
  <2>1. \A i \in 1..Len(r) : r[i] = y[i]
    BY <1>2, <1>4
  <2> QED BY <1>4, <2>1, SeqEqual
<1> QED BY <1>5, <1>6 DEF f, r, z, n, m

(* What was put in at p is taken out of the text again.                    *)
LEMMA PutBack ==
    ASSUME NEW C, NEW t \in Seq(C), NEW p \in 0..Len(t), NEW s \in Seq(C),
           NEW x, x = First(t, p) \o s \o From(t, p)
    PROVE  First(x, p) \o From(x, p + Len(s)) = t
<1>1. First(t, p) \in Seq(C) /\ From(t, p) \in Seq(C) /\ Len(First(t, p)) = p
  BY PartsAt
<1> DEFINE a == First(t, p)
           b == From(t, p)
<1>2. a \o b = t
  BY Whole
<1> HIDE DEF a, b
<1>3. First(x, Len(a)) = a /\ From(x, Len(a) + Len(s)) = b
  <2>1. x = a \o s \o b
    BY DEF a, b
  <2>2. a \in Seq(C) /\ b \in Seq(C)
    BY <1>1 DEF a, b
  <2> QED BY <2>1, <2>2, PartsOfBetween
<1>4. Len(a) = p
  BY <1>1 DEF a
<1> QED BY <1>2, <1>3, <1>4

(* What was cut out is put back.                                           *)
LEMMA CutBack ==
    ASSUME NEW C, NEW t \in Seq(C), NEW p \in Nat, NEW n \in Nat, p + n <= Len(t),
           NEW c \in C, NEW x, x = Cut(t, p, n)
    PROVE  First(x, p) \o Copied(t, p, n, c) \o From(x, p) = t
<1> DEFINE l == Len(t)
           s == Copied(t, p, n, c)
           a == First(t, p)
           b == From(t, p + n)
<1>1. l \in Nat /\ p \in 0..l /\ p + n \in 0..l
  OBVIOUS
<1>2. a \in Seq(C) /\ Len(a) = p /\ \A i \in 1..p : a[i] = t[i]
  BY <1>1, PartsAt
<1>3. b \in Seq(C) /\ Len(b) = l - (p + n) /\ \A i \in 1..(l - (p + n)) : b[i] = t[(p + n) + i]
  <2> DEFINE j == p + n
  <2> HIDE DEF j
  <2>1. j \in 0..Len(t)
    BY <1>1 DEF j
  <2>2. From(t, j) \in Seq(C) /\ Len(From(t, j)) = Len(t) - j
        /\ \A i \in 1..(Len(t) - j) : From(t, j)[i] = t[j + i]
    BY <2>1, PartsAt
  <2> QED BY <2>2 DEF j
<1>4. s \in Seq(C) /\ Len(s) = n /\ \A i \in 1..n : s[i] = t[p + i]
  <2>1. s \in Seq(C) /\ Len(s) = n
    BY CopiedIs
  <2>2. ASSUME NEW i \in 1..n PROVE s[i] = t[p + i]
    <3>1. p + i <= l
      BY <1>1
    <3>2. s[i] = IF p + i <= Len(t) THEN t[p + i] ELSE c
      BY DEF Copied
    <3> QED BY <3>1, <3>2
  <2> QED BY <2>1, <2>2
<1>5. x = a \o b
  BY DEF Cut
<1> HIDE DEF s, a, b
<1>6. First(x, p) = a /\ From(x, p) = b
  <2> DEFINE v == << >>
  <2>1. v \in Seq(C) /\ Len(v) = 0
    OBVIOUS
  <2>2. a \o v = a
    BY <1>2, ConcatEmptySeq
  <2> HIDE DEF v
  <2>3. First(a \o v \o b, Len(a)) = a /\ From(a \o v \o b, Len(a) + Len(v)) = b
    <3>1. a \in Seq(C) /\ b \in Seq(C) /\ v \in Seq(C)
      BY <1>2, <1>3, <2>1
    <3> QED BY <3>1, PartsOfBetween
  <2>4. Len(a) = p /\ Len(a) + Len(v) = p
    BY <1>2, <2>1
  <2> QED BY <1>5, <2>2, <2>3, <2>4
<1> DEFINE z == a \o s \o b
<1>7. /\ z \in Seq(C) /\ Len(z) = p + n + (l - (p + n))
      /\ \A i \in 1..p : z[i] = a[i]
      /\ \A i \in 1..n : z[p + i] = s[i]
      /\ \A i \in 1..(l - (p + n)) : z[p + n + i] = b[i]
  <2>1. a \in Seq(C) /\ b \in Seq(C) /\ s \in Seq(C)
    BY <1>2, <1>3, <1>4
  <2>2. /\ z \in Seq(C) /\ Len(z) = Len(a) + Len(s) + Len(b)
        /\ \A i \in 1..Len(a) : z[i] = a[i]
        /\ \A i \in 1..Len(s) : z[Len(a) + i] = s[i]
        /\ \A i \in 1..Len(b) : z[Len(a) + Len(s) + i] = b[i]
    <3> HIDE DEF l
    <3> QED BY ONLY <2>1, BetweenAt
  <2> HIDE DEF z, l
  <2>3. Len(a) = p /\ Len(s) = n /\ Len(b) = l - (p + n)
    BY <1>2, <1>3, <1>4
  <2> QED BY <2>2, <2>3
<1> HIDE DEF z, l
<1>8. Len(z) = l
  BY <1>1, <1>7
<1>9. ASSUME NEW i \in 1..l PROVE z[i] = t[i]
  <2>1. CASE i <= p
    <3>1. i \in 1..p
      BY <2>1
    <3> QED BY <3>1, <1>2, <1>7
  <2>2. CASE i > p /\ i <= p + n
    <3>1. i - p \in 1..n /\ p + (i - p) = i
      BY <2>2
    <3> DEFINE j == i - p
    <3> HIDE DEF j
    <3>2. j \in 1..n /\ p + j = i
      BY <3>1 DEF j
    <3>3. z[p + j] = s[j] /\ s[j] = t[p + j]
      BY <3>2, <1>4, <1>7
    <3> QED BY <3>2, <3>3
  <2>3. CASE i > p + n
    <3>1. i - (p + n) \in 1..(l - (p + n)) /\ p + n + (i - (p + n)) = i
      BY <2>3, <1>1
    <3> DEFINE j == i - (p + n)
    <3> HIDE DEF j
    <3>2. j \in 1..(l - (p + n)) /\ p + n + j = i /\ (p + n) + j = i
      BY <3>1 DEF j
    <3>3. z[p + n + j] = b[j] /\ b[j] = t[(p + n) + j]
      BY <3>2, <1>3, <1>7
    <3> QED BY <3>2, <3>3
  <2> QED BY <2>1, <2>2, <2>3
<1>10. z = t
  <2>1. \A i \in 1..Len(z) : z[i] = t[i]
    BY <1>8, <1>9
  <2>2. Len(z) = Len(t) /\ z \in Seq(C)
    BY <1>7, <1>8 DEF l
  <2> QED BY <2>1, <2>2, SeqEqual
<1> QED BY <1>6, <1>10 DEF z, s

(* What was put in within an insertion is taken out with it.               *)
LEMMA PutWithin ==
    ASSUME NEW C, NEW t \in Seq(C), NEW p \in Nat, NEW n \in Nat, NEW c \in 0..Len(t),
           p <= c, c <= p + n, NEW s \in Seq(C),
           NEW x, x = First(t, c) \o s \o From(t, c)
    PROVE  /\ First(x, p) = First(t, p)
           /\ From(x, p + (n + Len(s))) = From(t, p + n)
<1> DEFINE l == Len(t)
           m == Len(s)
           a == First(t, c)
           b == From(t, c)
<1>1. l \in Nat /\ m \in Nat /\ c \in Nat /\ c <= l
  OBVIOUS
<1>2. /\ a \in Seq(C) /\ Len(a) = c /\ \A i \in 1..c : a[i] = t[i]
      /\ b \in Seq(C) /\ Len(b) = l - c /\ \A i \in 1..(l - c) : b[i] = t[c + i]
  BY PartsAt
<1> HIDE DEF a, b
<1>3. /\ x \in Seq(C) /\ Len(x) = c + m + (l - c)
      /\ \A i \in 1..c : x[i] = a[i]
      /\ \A i \in 1..(l - c) : x[c + m + i] = b[i]
  <2>1. x = a \o s \o b
    BY DEF a, b
  <2>2. a \in Seq(C) /\ b \in Seq(C)
    BY <1>2
  <2>3. /\ x \in Seq(C) /\ Len(x) = Len(a) + Len(s) + Len(b)
        /\ \A i \in 1..Len(a) : x[i] = a[i]
        /\ \A i \in 1..Len(b) : x[Len(a) + Len(s) + i] = b[i]
    BY <2>1, <2>2, BetweenAt
  <2> HIDE DEF l, m
  <2>4. Len(a) = c /\ Len(s) = m /\ Len(b) = l - c
    BY <1>2 DEF m
  <2> QED BY <2>3, <2>4
<1> HIDE DEF l, m
<1>4. Len(x) = l + m
  BY <1>1, <1>3
<1>5. First(x, p) = First(t, p)
  <2>1. p \in 0..Len(x) /\ p \in 0..Len(t)
    BY <1>1, <1>4 DEF l
  <2>2. /\ First(x, p) \in Seq(C) /\ Len(First(x, p)) = p /\ \A i \in 1..p : First(x, p)[i] = x[i]
        /\ First(t, p) \in Seq(C) /\ Len(First(t, p)) = p /\ \A i \in 1..p : First(t, p)[i] = t[i]
    BY <1>3, <2>1, PartsAt
  <2>3. \A i \in 1..p : x[i] = t[i]
    <3>1. \A i \in 1..p : i \in 1..c
      BY <1>1
    <3> QED BY <3>1, <1>2, <1>3
  <2> DEFINE f == First(x, p)
             g == First(t, p)
  <2> HIDE DEF f, g
  <2>4. f \in Seq(C) /\ g \in Seq(C) /\ Len(f) = Len(g) /\ \A i \in 1..Len(f) : f[i] = g[i]
    BY <2>2, <2>3 DEF f, g
  <2>5. f = g
    BY <2>4, SeqEqual
  <2> QED BY <2>5 DEF f, g
<1>6. CASE p + n <= l
  <2> DEFINE j == p + n
             k == p + (n + m)
             f == From(x, k)
             g == From(t, j)
  <2>1. /\ j \in 0..Len(t) /\ k \in 0..Len(x) /\ k = j + m /\ Len(x) - k = l - j /\ Len(t) - j = l - j
        /\ j \in Nat /\ j >= c /\ j <= l
    BY <1>1, <1>4, <1>6 DEF l
  <2> HIDE DEF j, k
  <2>2. /\ f \in Seq(C) /\ Len(f) = l - j /\ \A i \in 1..(l - j) : f[i] = x[k + i]
        /\ g \in Seq(C) /\ Len(g) = l - j /\ \A i \in 1..(l - j) : g[i] = t[j + i]
    <3>1. /\ f \in Seq(C) /\ Len(f) = Len(x) - k /\ \A i \in 1..(Len(x) - k) : f[i] = x[k + i]
          /\ g \in Seq(C) /\ Len(g) = Len(t) - j /\ \A i \in 1..(Len(t) - j) : g[i] = t[j + i]
      BY ZenonT(30), <1>3, <2>1, PartsAt
    <3> HIDE DEF f, g
    <3> QED BY <2>1, <3>1
  <2> HIDE DEF f, g
  <2>3. ASSUME NEW i \in 1..(l - j) PROVE x[k + i] = t[j + i]
    <3> DEFINE h == j - c + i
    <3>1. h \in 1..(l - c) /\ c + m + h = k + i /\ c + h = j + i
      BY <1>1, <2>1
    <3> HIDE DEF h
    <3>2. x[c + m + h] = b[h] /\ b[h] = t[c + h]
      BY <3>1, <1>2, <1>3
    <3> QED BY <3>1, <3>2
  <2>4. \A i \in 1..Len(f) : f[i] = g[i]
    BY <2>2, <2>3
  <2>5. f = g
    BY <2>2, <2>4, SeqEqual
  <2> QED BY <1>5, <2>5 DEF f, g, j, k, m
<1>7. CASE p + n > l
  <2> DEFINE k == p + (n + m)
             j == p + n
  <2>1. k > Len(x) /\ j > Len(t) /\ k \in Nat /\ j \in Nat
    BY <1>1, <1>4, <1>7 DEF l
  <2> HIDE DEF k, j
  <2>2. From(x, k) \in Seq(C) /\ Len(From(x, k)) = 0 /\ From(t, j) \in Seq(C) /\ Len(From(t, j)) = 0
    <3>1. ~ (k <= Len(x)) /\ ~ (j <= Len(t))
      <4>1. Len(x) \in Nat /\ Len(t) \in Nat
        BY <1>3
      <4> QED BY <2>1, <4>1
    <3> QED BY <2>1, <3>1, <1>3, FromIs
  <2>3. From(x, k) = << >> /\ From(t, j) = << >>
    BY <2>2, EmptySeq
  <2> QED BY <1>5, <2>3 DEF k, j, m
<1>8. p + n <= l \/ p + n > l
  BY <1>1
<1> QED BY <1>6, <1>7, <1>8

\* With the record u, undo makes t of the text x.
Restores(x, u, t) ==
    /\ u.type = "delete" => /\ First(x, u.pos) \o u.text \o From(x, u.pos) = t
                            /\ Len(t) <= Capacity
    /\ u.type = "insert" => First(x, u.pos) \o From(x, u.pos + u.len) = t

(* So it does.                                                             *)
LEMMA RestoredIs ==
    ASSUME NEW C, NEW x \in Texts(C, Capacity), NEW u \in UndoRecords(C), u.type # None,
           NEW t \in Seq(C), Restores(x, u, t)
    PROVE  TakenBack(u, x) = t
<1> DEFINE s == u.text
           p == u.pos
<1>1. u.type \in {"delete", "insert"} /\ p \in Nat /\ s \in Seq(C)
  BY DEF UndoRecords, Texts
<1>2. x \in Seq(C) /\ Len(x) \in Nat
  BY DEF Texts
<1>3. CASE u.type = "delete"
  <2>1. First(x, p) \o s \o From(x, p) = t /\ Len(t) <= Capacity
    BY <1>3 DEF Restores
  <2>2. TakenBack(u, x) = Inserted(x, p, s)
    BY <1>3 DEF TakenBack
  <2> HIDE DEF s, p
  <2>3. Len(x) + Len(s) <= Capacity
    <3>1. Len(First(x, p) \o s \o From(x, p)) = Len(First(x, p)) + Len(s) + Len(From(x, p))
      BY <1>1, <1>2, Spliced
    <3>2. Len(First(x, p)) = IF p <= Len(x) THEN p ELSE Len(x)
      BY <1>1, <1>2, FirstIs
    <3>3. Len(From(x, p)) = IF p <= Len(x) THEN Len(x) - p ELSE 0
      BY <1>1, <1>2, FromIs
    <3> DEFINE l == Len(x)
               m == Len(s)
               n == Len(t)
    <3>4. l \in Nat /\ m \in Nat /\ n \in Nat /\ Capacity \in Nat /\ n <= Capacity
      BY <1>1, <1>2, <2>1, LimitsAssumption
    <3> HIDE DEF l, m, n
    <3>5. n = (IF p <= l THEN p ELSE l) + m + (IF p <= l THEN l - p ELSE 0)
      BY <2>1, <3>1, <3>2, <3>3 DEF l, m, n
    <3>6. l + m <= Capacity
      BY <1>1, <3>4, <3>5
    <3> QED BY <3>6 DEF l, m
  <2>4. Room(x, s) = s
    BY <1>1, <2>3, InsertedIs
  <2> QED BY <2>1, <2>2, <2>4 DEF Inserted
<1>4. CASE u.type = "insert"
  BY <1>4 DEF Restores, TakenBack, Cut
<1> QED BY <1>1, <1>3, <1>4

\* g has recorded what it changed in e.
NewRecord(e, g) ==
    /\ g.undo.type # None
    /\ g.undo.was_clean = ~e.modified
    /\ g.undo.type = "delete" => g.undo.len <= Len(e.text)
    /\ ( /\ g.undo.type = "delete" => g.undo.len <= UndoMax
         /\ g.undo.type = "insert" =>
                Ended(e.text) /\ (~Full(g) \/ Len(e.text) + DotTextMax <= Capacity) )
       => Restores(g.text, g.undo, e.text)

(* A deletion has.                                                         *)
LEMMA DeletionRecorded ==
    ASSUME NEW C, AlphabetOK(C), NEW e \in Editing(C), NEW g, NEW more, ~more,
           Deleted(C, e, g, more)
    PROVE  NewRecord(e, g)
<1> DEFINE t == e.text
<1>1. PICK p \in 0..Len(t), n \in Nat \ {0}, q \in Nat :
        /\ p + n <= Len(t)
        /\ Becomes(C, e, g, Cut(t, p, n), q, Deletion(t, e.modified, p, n), Changed)
  BY DEF Deleted
<1> DEFINE x == Cut(t, p, n)
           u == Deletion(t, e.modified, p, n)
<1>2. g.text = x /\ g.undo = u
  <2> HIDE DEF x, u
  <2>1. Becomes(C, e, g, x, q, u, Changed)
    BY <1>1 DEF x, u
  <2> QED BY <2>1, FieldsAre
<1>3. /\ u.type = "delete" /\ u.pos = p /\ u.len = n /\ u.was_clean = ~e.modified
      /\ u.text = Copied(t, p, Min({n, UndoMax}), Nul)
  BY DEF Deletion
<1>4. t \in Seq(C) /\ Len(t) \in Nat /\ Len(t) <= Capacity /\ Nul \in C
  BY EditorHas DEF Texts, AlphabetOK
<1> HIDE DEF t, u
<1>5. n <= Len(t) /\ p \in Nat
  BY <1>1, <1>4
<1>6. n <= UndoMax => u.text = Copied(t, p, n, Nul)
  <2>1. n \in Int /\ UndoMax \in Int
    BY LimitsAssumption
  <2>2. Min({n, UndoMax}) = IF n <= UndoMax THEN n ELSE UndoMax
    BY <2>1, OfTwo
  <2> QED BY <1>3, <2>2
<1>7. First(x, p) \o Copied(t, p, n, Nul) \o From(x, p) = t
  BY SMTT(30), <1>1, <1>4, <1>5, CutBack
<1> HIDE DEF x
<1>8. n <= UndoMax => Restores(x, u, t)
  BY <1>3, <1>4, <1>6, <1>7 DEF Restores
<1>9. NewRecord(e, g)
  <2>1. u.type # None
    BY <1>3 DEF None
  <2>2. u.len <= Len(e.text) /\ (u.len <= UndoMax => Restores(x, u, e.text))
    BY <1>3, <1>5, <1>8 DEF t
  <2> QED BY <1>2, <1>3, <2>1, <2>2 DEF NewRecord
<1> QED BY <1>9

(* An insertion has.                                                       *)
LEMMA InsertionRecorded ==
    ASSUME NEW C, NEW e \in Editing(C), NEW g, NEW p \in 0..Len(e.text), NEW s \in Seq(C),
           Len(s) <= DotTextMax,
           g.text = Inserted(e.text, p, s), g.undo = Insertion(e.modified, p, Len(s))
    PROVE  NewRecord(e, g)
<1> DEFINE t == e.text
           u == Insertion(e.modified, p, Len(s))
           x == Inserted(t, p, s)
<1>1. /\ u.type = "insert" /\ u.pos = p /\ u.len = Len(s) /\ u.was_clean = ~e.modified
  BY DEF Insertion
<1>2. t \in Texts(C, Capacity) /\ t \in Seq(C)
  BY EditorHas DEF Texts
<1>3. g.text = x /\ g.undo = u
  OBVIOUS
<1> HIDE DEF t, u, x
<1>4. p \in 0..Len(t)
  BY DEF t
<1>5. ASSUME ~Full(g) \/ Len(t) + DotTextMax <= Capacity
      PROVE  Restores(x, u, t)
  <2>1. p \in Nat /\ Len(t) \in Nat /\ Len(s) \in Nat /\ DotTextMax \in Nat /\ Capacity \in Nat
    BY <1>2, <1>4, LimitsAssumption
  <2>2. /\ Room(t, s) \in Seq(C)
        /\ Len(t) + Len(s) <= Capacity => Room(t, s) = s
        /\ Len(t) + Len(s) > Capacity => Len(t) + Len(Room(t, s)) = Capacity
        /\ Len(Inserted(t, p, s)) = Len(t) + Len(Room(t, s))
    BY <1>2, <2>1, InsertedIs
  <2>3. ~Full(g) => Len(x) < Capacity
    <3>1. Len(x) \in Nat
      <4>1. Len(Room(t, s)) \in Nat
        BY <2>2
      <4> QED BY <2>1, <2>2, <4>1 DEF x
    <3> QED BY <1>3, <2>1, <3>1 DEF Full
  <2>4. Len(t) + Len(s) <= Capacity
    <3>1. CASE ~Full(g)
      <4>1. Len(t) + Len(Room(t, s)) < Capacity
        BY <2>2, <2>3, <3>1 DEF x
      <4>2. ~ (Len(t) + Len(s) > Capacity)
        BY <4>1, <2>1, <2>2
      <4> QED BY <4>2, <2>1
    <3>2. CASE Len(t) + DotTextMax <= Capacity
      BY <2>1, <3>2
    <3> QED BY <1>5, <3>1, <3>2
  <2>5. Room(t, s) = s
    BY <2>2, <2>4
  <2>6. x = First(t, p) \o s \o From(t, p)
    BY <2>5 DEF x, Inserted
  <2>7. First(x, p) \o From(x, p + Len(s)) = t
    BY <1>2, <1>4, <2>6, PutBack
  <2> QED BY <1>1, <2>7 DEF Restores
<1>6. u.type # None
  BY <1>1 DEF None
<1>7. (~Full(g) \/ Len(e.text) + DotTextMax <= Capacity) => Restores(x, u, e.text)
  BY <1>5 DEF t
<1> QED BY <1>1, <1>3, <1>6, <1>7 DEF NewRecord

(* Nothing put in is such an insertion.                                    *)
LEMMA PutNothing ==
    ASSUME NEW C, NEW t \in Texts(C, Capacity), NEW p \in 0..Len(t)
    PROVE  Inserted(t, p, << >>) = t
<1>1. t \in Seq(C) /\ Len(t) \in Nat /\ Len(t) <= Capacity /\ p \in Nat
  BY DEF Texts
<1> DEFINE v == << >>
<1>2. v \in Seq(C) /\ Len(v) = 0
  OBVIOUS
<1>3. First(t, p) \in Seq(C)
  BY <1>1, FirstIs
<1>4. First(t, p) \o v = First(t, p)
  BY <1>3, ConcatEmptySeq
<1> HIDE DEF v
<1>5. Len(t) + Len(v) <= Capacity
  BY <1>1, <1>2
<1>6. Room(t, v) = v
  BY <1>1, <1>2, <1>5, InsertedIs
<1>7. First(t, p) \o From(t, p) = t
  BY <1>1, Whole
<1>8. Inserted(t, p, v) = t
  BY <1>4, <1>6, <1>7 DEF Inserted
<1> QED BY <1>8 DEF v

\* The cursor is in the insertion under way.
Aligned(e) ==
    e.mode = "insert" => /\ e.undo.type = "insert"
                         /\ e.undo.pos <= e.cur_pos /\ e.cur_pos <= e.undo.pos + e.undo.len

(* Beginning one does both, except by a.                                   *)
LEMMA EnteredRecorded ==
    ASSUME NEW C, AlphabetOK(C), NEW e \in Editing(C), NEW c \in InsertCmds \ {"a"}, NEW g,
           Entered(C, e, g, c)
    PROVE  NewRecord(e, g) /\ Aligned(g)
<1> DEFINE t == e.text
<1>1. t \in Texts(C, Capacity) /\ NL \in C /\ Len(t) \in Nat
  BY EditorHas DEF Texts, AlphabetOK
<1>2. /\ << >> \in Seq(C) /\ Len(<< >>) = 0 /\ <<NL>> \in Seq(C) /\ Len(<<NL>>) = 1
      /\ 0 <= DotTextMax /\ 1 <= DotTextMax
  BY <1>1, LimitsAssumption
<1>3. ASSUME NEW x, NEW p \in Nat, NEW n \in Nat, NEW m, NEW f,
             Opens(C, e, g, c, x, p, Insertion(m, p, n), f)
      PROVE  g.text = x /\ g.undo = Insertion(m, p, n) /\ Aligned(g)
  <2> DEFINE u == Insertion(m, p, n)
  <2>1. u.type = "insert" /\ u.pos = p /\ u.len = n
    BY DEF Insertion
  <2> HIDE DEF u
  <2>2. g.text = x /\ g.undo = u /\ g.cur_pos = p
    BY <1>3 DEF Opens, u
  <2>3. p <= p /\ p <= p + n
    OBVIOUS
  <2>4. Aligned(g)
    BY <2>1, <2>2, <2>3 DEF Aligned
  <2> QED BY <2>2, <2>4 DEF u
<1>4. ASSUME NEW p \in Nat, c # "a" => p \in 0..Len(t),
             Opens(C, e, g, c, t, p, Insertion(e.modified, p, 0), e.modified)
      PROVE  NewRecord(e, g) /\ Aligned(g)
  <2> DEFINE v == << >>
             m == e.modified
  <2>1. p \in 0..Len(t)
    BY <1>4
  <2>2. Inserted(t, p, v) = t
    BY <1>1, <2>1, PutNothing
  <2>3. g.text = t /\ g.undo = Insertion(m, p, 0) /\ Aligned(g)
    <3> HIDE DEF t, m
    <3>1. Opens(C, e, g, c, t, p, Insertion(m, p, 0), m)
      BY <1>4 DEF m, t
    <3>2. 0 \in Nat
      OBVIOUS
    <3> QED BY <3>1, <3>2, <1>3
  <2>4. v \in Seq(C) /\ Len(v) = 0 /\ Len(v) <= DotTextMax
    BY <1>2
  <2> HIDE DEF v
  <2>5. g.text = Inserted(e.text, p, v) /\ g.undo = Insertion(e.modified, p, Len(v))
    BY <2>2, <2>3, <2>4
  <2>6. NewRecord(e, g)
    BY <2>1, <2>4, <2>5, InsertionRecorded
  <2> QED BY <2>3, <2>6
<1>5. ASSUME NEW p \in 0..Len(t),
             Opens(C, e, g, c, Inserted(t, p, <<NL>>), p, Insertion(e.modified, p, 1), Changed)
      PROVE  NewRecord(e, g) /\ Aligned(g)
  <2> DEFINE v == <<NL>>
             m == e.modified
             x == Inserted(t, p, v)
  <2>1. g.text = x /\ g.undo = Insertion(m, p, 1) /\ Aligned(g)
    <3>1. p \in Nat /\ 1 \in Nat
      OBVIOUS
    <3> HIDE DEF x, m
    <3>2. Opens(C, e, g, c, x, p, Insertion(m, p, 1), Changed)
      BY <1>5 DEF m, x
    <3> QED BY <3>1, <3>2, <1>3
  <2>2. v \in Seq(C) /\ Len(v) = 1 /\ Len(v) <= DotTextMax
    BY <1>2
  <2> HIDE DEF v
  <2>3. g.text = Inserted(e.text, p, v) /\ g.undo = Insertion(e.modified, p, Len(v))
    BY <2>1, <2>2
  <2>4. NewRecord(e, g)
    BY <2>2, <2>3, InsertionRecorded
  <2> QED BY <2>1, <2>4
<1>6. ASSUME Bare(t),
             LET s == Inserted(t, Len(t), <<NL>>)
                 p == Len(t) + 1
             IN  Opens(C, e, g, c, Inserted(s, p, <<NL>>), p, Insertion(e.modified, p, 1), Changed)
      PROVE  NewRecord(e, g) /\ Aligned(g)
  <2> DEFINE p == Len(t) + 1
             x == Inserted(Inserted(t, Len(t), <<NL>>), p, <<NL>>)
             m == e.modified
             u == Insertion(m, p, 1)
  <2>1. p \in Nat /\ 1 \in Nat
    BY <1>1
  <2>2. Opens(C, e, g, c, x, p, Insertion(m, p, 1), Changed)
    BY <1>6
  <2> HIDE DEF x, p, m
  <2>3. g.text = x /\ g.undo = u /\ Aligned(g)
    BY <2>1, <2>2, <1>3
  <2>4. u.type = "insert" /\ u.was_clean = ~m
    BY DEF Insertion
  <2>5. ~Ended(e.text)
    BY <1>6 DEF Bare, Ended
  <2>6. u.type # None
    BY <2>4 DEF None
  <2> HIDE DEF u
  <2>7. NewRecord(e, g)
    BY <2>3, <2>4, <2>5, <2>6 DEF NewRecord, m
  <2> QED BY <2>3, <2>7
<1> QED BY <1>4, <1>5, <1>6 DEF Entered

\* g has added to the insertion of e what it typed.
Grows(e, g) ==
    /\ ~Full(e)
    /\ g.undo.type = "insert" /\ e.undo.type = "insert" /\ g.undo.was_clean = e.undo.was_clean
    /\ \A t : Restores(e.text, e.undo, t) => Restores(g.text, g.undo, t)

(* Typing a character does.                                                *)
LEMMA TypedRecorded ==
    ASSUME NEW C, NEW e \in Editing(C), e.cur_pos \in 0..Len(e.text), e.mode = "insert",
           Aligned(e), ~Full(e), NEW k \in C, NEW g,
           Becomes(C, e, g, Inserted(e.text, e.cur_pos, <<k>>), e.cur_pos + 1,
                   Longer(e.undo, 1), Changed)
    PROVE  Grows(e, g) /\ Aligned(g)
<1> DEFINE t == e.text
           c == e.cur_pos
           u == e.undo
           p == u.pos
           n == u.len
           v == <<k>>
           x == Inserted(t, c, v)
           w == Longer(u, 1)
           q == c + 1
<1>1. /\ t \in Texts(C, Capacity) /\ t \in Seq(C) /\ Len(t) \in Nat /\ c \in Nat
      /\ u \in UndoRecords(C) /\ c \in 0..Len(t)
  BY EditorHas DEF Texts
<1>2. p \in Nat /\ n \in Nat
  BY <1>1 DEF UndoRecords
<1>3. u.type = "insert" /\ p <= c /\ c <= p + n
  BY DEF Aligned
<1>4. Becomes(C, e, g, x, q, w, Changed)
  OBVIOUS
<1>5. /\ w.type = u.type /\ w.pos = p /\ w.was_clean = u.was_clean
      /\ w.len = Max({n + 1, 0})
  <2>1. 1 \in Int
    OBVIOUS
  <2> QED BY <1>1, <1>3, <2>1, LongerIs
<1> HIDE DEF x, w, q
<1>6. g.text = x /\ g.undo = w /\ g.cur_pos = q
  BY <1>4, FieldsAre
<1>7. v \in Seq(C) /\ Len(v) = 1
  OBVIOUS
<1>8. Len(t) < Capacity
  BY <1>1, LimitsAssumption DEF Full
<1> HIDE DEF v, t, c, p, n
<1>9. w.len = n + Len(v)
  <2>1. n + 1 \in Int /\ 0 \in Int /\ n + 1 >= 0
    BY <1>2
  <2>2. Max({n + 1, 0}) = n + 1
    <3> DEFINE z == n + 1
    <3>1. z \in Int /\ 0 \in Int /\ (~ (z <= 0) \/ z = 0)
      BY <2>1
    <3> HIDE DEF z
    <3>2. Max({z, 0}) = z
      BY ONLY <2>1, <3>1, OfTwo DEF z
    <3> QED BY <3>2 DEF z
  <2> QED BY <1>5, <1>7, <2>2
<1>10. x = First(t, c) \o v \o From(t, c)
  <2>1. Len(t) + Len(v) <= Capacity
    BY <1>1, <1>7, <1>8, LimitsAssumption
  <2>2. Room(t, v) = v
    BY <1>1, <1>7, <2>1, InsertedIs
  <2> QED BY <2>2 DEF x, Inserted
<1>11. First(x, p) = First(t, p) /\ From(x, p + (n + Len(v))) = From(t, p + n)
  <2>1. t \in Seq(C) /\ p \in Nat /\ n \in Nat /\ c \in 0..Len(t) /\ p <= c /\ c <= p + n
    BY <1>1, <1>2, <1>3 DEF t, c, p, n
  <2>2. v \in Seq(C)
    BY <1>7
  <2>3. p \in Nat /\ n \in Nat /\ c \in 0..Len(t)
    BY <2>1
  <2>4. p <= c /\ c <= p + n /\ t \in Seq(C)
    BY <2>1
  <2>5. \A y : y = First(t, c) \o v \o From(t, c) =>
            First(y, p) = First(t, p) /\ From(y, p + (n + Len(v))) = From(t, p + n)
    BY ONLY <2>2, <2>3, <2>4, PutWithin, ZenonT(30)
  <2> QED BY <2>5, <1>10
<1>12. Restores(t, u, First(t, p) \o From(t, p + n))
       /\ Restores(x, w, First(t, p) \o From(t, p + n))
  BY <1>3, <1>5, <1>9, <1>11 DEF Restores, p, n
<1>13. \A s : Restores(t, u, s) => Restores(x, w, s)
  BY <1>3, <1>5, <1>9, <1>11 DEF Restores, p, n
<1>14. Grows(e, g)
  BY <1>3, <1>5, <1>6, <1>13 DEF Grows, t, u
<1>15. Aligned(g)
  <2>1. p <= q /\ q <= p + (n + Len(v))
    BY <1>1, <1>2, <1>3, <1>7 DEF q
  <2> QED BY <1>3, <1>5, <1>6, <1>9, <2>1 DEF Aligned
<1> QED BY <1>14, <1>15

\* The user gives only commands that record all they change.
PlainKeys(K) == K \cap RecordedInPart = {}

\* The editor only remembers commands that the user gives.
Given(K, e) == e.dot.cmd \in K \cup {None} /\ e.dot.motion \in K \cup {None} /\ e.ins \in K \cup {None}

\* Undo makes t, if it can.
Undoable(e, t) ==
    ( /\ e.undo.type # None /\ ~Full(e) /\ Ended(t)
      /\ e.undo.type = "delete" => e.undo.len <= UndoMax ) => Restores(e.text, e.undo, t)

\* What ModifiedHonest asks of a user and a file.
Trusting(K, s) ==
    /\ "u" \in K => /\ PlainKeys(K) /\ ":w" \notin K
                    /\ Len(s) <= UndoMax /\ Len(s) + DotTextMax <= Capacity /\ Ended(s)
    /\ ~ ("c" \in K /\ "." \in K)

\* The editor e of such a user remembers how the last change began, with the
\* text b, and how the file was left, with the text s.
Told(K, b, s, e) ==
    /\ Given(K, e)
    /\ PlainKeys(K) => Aligned(e) /\ Undoable(e, b)
    /\ Trusting(K, s) =>
        /\ ~e.modified => e.text = s
        /\ "u" \in K /\ e.undo.type # None /\ e.undo.was_clean => Restores(e.text, e.undo, s)

\* What a step from e to g records of a change that began with b, and then c.
Records(e, g, b, c) ==
    \/ g.text = e.text /\ g.undo = e.undo /\ c = b
    \/ g.undo.type = None
    \/ NewRecord(e, g) /\ c = e.text
    \/ Grows(e, g) /\ c = b

(* Such a step remembers it.                                               *)
LEMMA ToldStep ==
    ASSUME NEW C, NEW K, NEW b, NEW s \in Seq(C), NEW e, Told(K, b, s, e),
           NEW g \in Editing(C), NEW c, Given(K, g),
           PlainKeys(K) => Aligned(g) /\ Records(e, g, b, c),
           Trusting(K, s) => (~g.modified => g.text = s)
    PROVE  Told(K, c, s, g)
<1>1. ASSUME PlainKeys(K) PROVE Undoable(g, c)
  <2>1. Undoable(e, b) /\ Records(e, g, b, c)
    BY <1>1 DEF Told
  <2>2. CASE g.text = e.text /\ g.undo = e.undo /\ c = b
    BY <2>1, <2>2 DEF Undoable, Full
  <2>3. CASE g.undo.type = None
    BY <2>3 DEF Undoable
  <2>4. CASE NewRecord(e, g) /\ c = e.text
    BY <2>4 DEF Undoable, NewRecord
  <2>5. CASE Grows(e, g) /\ c = b
    <3>1. e.undo.type = "insert" /\ ~Full(e)
      BY <2>5 DEF Grows
    <3>2. e.undo.type # None /\ e.undo.type # "delete"
      BY <3>1 DEF None
    <3>3. Ended(b) => Restores(e.text, e.undo, b)
      BY <3>1, <3>2, <2>1 DEF Undoable
    <3> QED BY <2>5, <3>3 DEF Undoable, Grows
  <2> QED BY <2>1, <2>2, <2>3, <2>4, <2>5 DEF Records
<1>2. ASSUME Trusting(K, s), "u" \in K, g.undo.type # None, g.undo.was_clean
      PROVE  Restores(g.text, g.undo, s)
  <2>1. /\ PlainKeys(K) /\ Len(s) <= UndoMax /\ Len(s) + DotTextMax <= Capacity /\ Ended(s)
    BY <1>2 DEF Trusting
  <2>2. /\ ~e.modified => e.text = s
        /\ e.undo.type # None /\ e.undo.was_clean => Restores(e.text, e.undo, s)
    BY <1>2 DEF Told
  <2>3. CASE g.text = e.text /\ g.undo = e.undo
    BY <1>2, <2>2, <2>3
  <2>4. CASE NewRecord(e, g)
    <3>1. ~e.modified /\ e.text = s
      BY <1>2, <2>2, <2>4 DEF NewRecord
    <3>2. g.undo.type = "delete" => g.undo.len <= Len(s)
      BY <3>1, <2>4 DEF NewRecord
    <3>3. g.undo.type = "delete" => g.undo.len <= UndoMax
      <4> DEFINE n == g.undo.len
                 l == Len(s)
      <4>1. n \in Nat
        <5>1. g.undo \in UndoRecords(C)
          BY EditorHas
        <5> QED BY <5>1 DEF UndoRecords
      <4>2. l \in Nat /\ l <= UndoMax /\ UndoMax \in Nat
        BY <2>1, LimitsAssumption
      <4>3. g.undo.type = "delete" => n <= l
        BY <3>2
      <4> HIDE DEF n, l
      <4>4. n <= l => n <= UndoMax
        BY <4>1, <4>2
      <4>5. g.undo.type = "delete" => n <= UndoMax
        BY <4>3, <4>4
      <4> QED BY <4>5 DEF n
    <3> QED BY <3>1, <3>3, <2>1, <2>4 DEF NewRecord
  <2>5. CASE Grows(e, g)
    <3>1. e.undo.type = "insert" /\ e.undo.was_clean
      BY <1>2, <2>5 DEF Grows
    <3>2. e.undo.type # None
      BY <3>1 DEF None
    <3> QED BY <3>1, <3>2, <2>2, <2>5 DEF Grows
  <2> QED BY <1>2, <2>1, <2>3, <2>4, <2>5 DEF Records
<1> QED BY <1>1, <1>2 DEF Told

\* What "before" is after a command.
Began(b, e, g) == IF g.text = e.text /\ g.undo = e.undo THEN b ELSE e.text

(* A command does that records nothing, or what it changed; and that leaves *)
(* a buffer unmodified only if it was, and does not change the text.        *)
LEMMA ToldDone ==
    ASSUME NEW C, NEW K, NEW b, NEW s \in Seq(C), NEW e, Told(K, b, s, e),
           NEW g \in Editing(C), Given(K, g),
           PlainKeys(K) => /\ Aligned(g)
                           /\ \/ g.text = e.text /\ g.undo = e.undo
                              \/ g.undo.type = None
                              \/ NewRecord(e, g),
           Trusting(K, s) => (~g.modified => g.text = s)
    PROVE  Told(K, Began(b, e, g), s, g)
<1> DEFINE c == Began(b, e, g)
<1>1. g.text = e.text /\ g.undo = e.undo => c = b
  BY DEF Began
<1>2. ~ (g.text = e.text /\ g.undo = e.undo) => c = e.text
  BY DEF Began
<1> HIDE DEF c
<1>3. PlainKeys(K) => Aligned(g) /\ Records(e, g, b, c)
  BY <1>1, <1>2 DEF Records
<1>4. Told(K, c, s, g)
  BY <1>3, ToldStep
<1> QED BY <1>4 DEF c

\* g counts as unmodified only if e does, with the same text.
Flagged(e, g) == ~g.modified => ~e.modified /\ g.text = e.text

(* Then the flag is as good as before.                                     *)
LEMMA FlagKept ==
    ASSUME NEW K, NEW b, NEW s, NEW e, Told(K, b, s, e), NEW g, Flagged(e, g), Trusting(K, s)
    PROVE  ~g.modified => g.text = s
BY DEF Told, Flagged

(* A step that leaves text and record alone.                               *)
LEMMA ToldSame ==
    ASSUME NEW C, NEW K, NEW b, NEW s \in Seq(C), NEW e, Told(K, b, s, e),
           NEW g \in Editing(C), Given(K, g), g.text = e.text, g.undo = e.undo,
           g.modified = e.modified, PlainKeys(K) => Aligned(g)
    PROVE  Told(K, b, s, g)
<1>1. Flagged(e, g)
  BY DEF Flagged
<1>2. Trusting(K, s) => (~g.modified => g.text = s)
  BY <1>1, FlagKept
<1>3. PlainKeys(K) => Aligned(g) /\ Records(e, g, b, b)
  BY DEF Records
<1> QED BY <1>2, <1>3, ToldStep

(* Counting the lines is one.                                              *)
LEMMA ToldCounted ==
    ASSUME NEW C, NEW K, NEW b, NEW s \in Seq(C), NEW e \in Editing(C), Told(K, b, s, e)
    PROVE  Told(K, b, s, Counted(e))
<1> DEFINE g == Counted(e)
<1>1. TextIs(C, e, g, e.text)
  BY CountedIs
<1> HIDE DEF g
<1>2. /\ g \in Editing(C) /\ g.text = e.text /\ g.cur_pos = e.cur_pos /\ g.undo = e.undo
      /\ g.modified = e.modified /\ g.mode = e.mode /\ g.ins = e.ins /\ g.dot = e.dot
  BY <1>1 DEF TextIs, Becomes
<1>3. Given(K, g) /\ (PlainKeys(K) => Aligned(g))
  BY <1>2 DEF Told, Given, Aligned
<1>4. Told(K, b, s, g)
  BY <1>2, <1>3, ToldSame
<1> QED BY <1>4 DEF g

(* So is moving the cursor in normal mode, or by the arrows.               *)
LEMMA ToldMoved ==
    ASSUME NEW C, NEW K, NEW b, NEW s \in Seq(C), NEW e \in Editing(C), Told(K, b, s, e),
           e.mode = "normal" \/ ~PlainKeys(K), NEW g, g = e \/ Moved(C, e, g)
    PROVE  Told(K, b, s, g)
<1>1. CASE g = e
  BY <1>1
<1>2. CASE Moved(C, e, g)
  <2>1. /\ g \in Editing(C) /\ g.text = e.text /\ g.undo = e.undo
        /\ g.modified = e.modified /\ g.mode = e.mode /\ g.ins = e.ins /\ g.dot = e.dot
    BY <1>2 DEF Moved, Becomes
  <2>2. Given(K, g)
    BY <2>1 DEF Told, Given
  <2>3. PlainKeys(K) => Aligned(g)
    BY <2>1 DEF Aligned
  <2> QED BY <2>1, <2>2, <2>3, ToldSame
<1> QED BY <1>1, <1>2

(* A command that no plain user gives.                                     *)
LEMMA ToldPart ==
    ASSUME NEW C, NEW K, ~PlainKeys(K), NEW b, NEW s \in Seq(C), NEW e, Told(K, b, s, e),
           NEW g \in Editing(C), Sound(e, g), Given(K, g)
    PROVE  Told(K, Began(b, e, g), s, g)
<1>1. Flagged(e, g)
  BY DEF Sound, Flagged
<1>2. Trusting(K, s) => (~g.modified => g.text = s)
  BY <1>1, FlagKept
<1> QED BY <1>2, ToldDone

(* d and y over a motion, or doubled; c is for no plain user.              *)
LEMMA ToldOperate ==
    ASSUME NEW C, AlphabetOK(C), NEW K, NEW b, NEW s \in Seq(C), NEW e \in Editing(C), Told(K, b, s, e),
           e.cur_pos \in 0..Len(e.text), e.mode = "normal",
           NEW op \in Operators, NEW m \in OpMotions \cup {op}, NEW n \in Nat, op \in K, m \in K,
           NEW g, g = IF m = op THEN Doubled(e, op, n) ELSE WithMotion(e, op, m, n)
    PROVE  Told(K, Began(b, e, g), s, g)
<1>1. PICK h : /\ Operated(C, h, g, op, m = "e")
               /\ \/ op = "y" /\ h = e
                  \/ op # "y" /\ Noted(C, e, h, op, m, None)
               /\ h.ins = IF op = "c" THEN "c" ELSE e.ins
  <2>1. /\ AlphabetOK(C) /\ e \in Editing(C) /\ e.cur_pos \in 0..Len(e.text)
        /\ op \in Operators /\ m \in OpMotions \cup {op} /\ n \in Nat
        /\ g = IF m = op THEN Doubled(e, op, n) ELSE WithMotion(e, op, m, n)
    OBVIOUS
  <2> QED BY ONLY SMTT(30), <2>1, OperateIs
<1>2. /\ h \in Editing(C) /\ h.text = e.text /\ h.undo = e.undo /\ h.modified = e.modified
      /\ h.mode = "normal"
  BY <1>1 DEF Noted
<1> DEFINE more == m = "e"
<1>3. Operated(C, h, g, op, more)
  BY <1>1
<1>4. PlainKeys(K) => ~more /\ op # "c"
  BY DEF PlainKeys, RecordedInPart
<1> HIDE DEF more
<1>5. Sound(h, g) /\ g \in Editing(C)
  BY <1>2, <1>3, OperatedSound
<1>6. Sound(e, g)
  BY <1>2, <1>5, SoundOf
<1>7. /\ g.dot = h.dot /\ g.ins = h.ins
      /\ g.mode = "normal" \/ op = "c"
  BY <1>2, <1>3 DEF Operated, Moved, Deleted, Emptied, Becomes, Opens
<1>8. Given(K, g)
  <2>1. Given(K, e)
    BY DEF Told
  <2>2. g.ins \in K \cup {None}
    BY <1>1, <1>7, <2>1 DEF Given
  <2>3. op = "y" => g.dot = e.dot
    BY <1>1, <1>7
  <2>4. op # "y" => g.dot.cmd = op /\ g.dot.motion = m
    BY <1>1, <1>7 DEF Noted
  <2> QED BY <2>1, <2>2, <2>3, <2>4 DEF Given
<1>9. ASSUME PlainKeys(K)
      PROVE  Aligned(g) /\ ((g.text = e.text /\ g.undo = e.undo) \/ NewRecord(e, g))
  <2>1. ~more /\ op # "c"
    BY <1>4, <1>9
  <2>2. Aligned(g)
    BY <1>7, <2>1 DEF Aligned
  <2>3. CASE Moved(C, h, g)
    <3>1. g.text = h.text /\ g.undo = h.undo
      BY <2>3 DEF Moved, Becomes
    <3> QED BY <1>2, <2>2, <3>1
  <2>4. CASE Deleted(C, h, g, more)
    <3>1. NewRecord(h, g)
      BY <1>2, <2>1, <2>4, DeletionRecorded
    <3>2. NewRecord(e, g)
      BY <1>2, <3>1 DEF NewRecord
    <3> QED BY <2>2, <3>2
  <2> QED BY <1>3, <2>1, <2>3, <2>4 DEF Operated
<1>10. Flagged(e, g)
  BY <1>6 DEF Sound, Flagged
<1>11. Trusting(K, s) => (~g.modified => g.text = s)
  BY <1>10, FlagKept
<1> QED BY <1>5, <1>8, <1>9, <1>11, ToldDone

(* u: it leaves no record, and the flag as it was when the record was made. *)
LEMMA ToldUndone ==
    ASSUME NEW C, NEW K, "u" \in K, NEW b, NEW s \in Seq(C), NEW e \in Editing(C), Told(K, b, s, e),
           e.mode = "normal"
    PROVE  Told(K, Began(b, e, Undone(e)), s, Undone(e))
<1> DEFINE g == Undone(e)
<1>1. CASE e.undo.type = None
  <2>1. g = e
    BY <1>1 DEF Undone
  <2> HIDE DEF g
  <2>2. Began(b, e, g) = b
    BY <2>1 DEF Began
  <2>3. Told(K, Began(b, e, g), s, g)
    BY <2>1, <2>2
  <2> QED BY <2>3 DEF g
<1>2. CASE e.undo.type # None
  <2>1. PICK u \in UndoRecords(C), m \in BOOLEAN :
            /\ u.type = None /\ m = ~e.undo.was_clean
            /\ Becomes(C, e, g, TakenBack(e.undo, e.text), e.undo.pos, u, m)
    BY <1>2, UndoneIs
  <2> HIDE DEF g
  <2> DEFINE x == TakenBack(e.undo, e.text)
             p == e.undo.pos
  <2>2. /\ g \in Editing(C) /\ g.text = x /\ g.undo = u /\ g.modified = m
        /\ g.mode = e.mode /\ g.ins = e.ins /\ g.dot = e.dot
    <3>1. Becomes(C, e, g, x, p, u, m)
      BY <2>1
    <3> HIDE DEF x, p
    <3> QED BY <3>1, FieldsAre
  <2>3. Given(K, g)
    BY <2>2 DEF Told, Given
  <2>4. Aligned(g) /\ g.undo.type = None
    BY <2>1, <2>2 DEF Aligned
  <2>5. ASSUME Trusting(K, s), ~g.modified PROVE g.text = s
    <3>1. e.undo.was_clean
      BY <2>1, <2>2, <2>5
    <3>2. Restores(e.text, e.undo, s)
      BY <1>2, <2>5, <3>1 DEF Told
    <3>3. e.text \in Texts(C, Capacity) /\ e.undo \in UndoRecords(C)
      BY EditorHas
    <3>4. x = s
      BY <1>2, <3>2, <3>3, RestoredIs
    <3> QED BY <2>2, <3>4
  <2>6. Told(K, Began(b, e, g), s, g)
    BY <2>2, <2>3, <2>4, <2>5, ToldDone
  <2> QED BY <2>6 DEF g
<1> QED BY <1>1, <1>2

(* ".": what it repeats the user gave.                                     *)
LEMMA ToldReplayed ==
    ASSUME NEW C, AlphabetOK(C), NEW K, "." \in K, NEW b, NEW s \in Seq(C), NEW e \in Editing(C),
           Told(K, b, s, e), e.cur_pos \in 0..Len(e.text), e.cur_pos <= Len(e.text),
           e.mode = "normal", DotFits(C, e), NEW n \in Nat
    PROVE  Told(K, Began(b, e, DotReplay(e, n)), s, DotReplay(e, n))
<1> DEFINE g == DotReplay(e, n)
<1>1. Replayed(C, e, g)
  BY DotReplayIs
<1> HIDE DEF g
<1>2. Kept(C, e, g) /\ (e.dot.cmd # "c" => Sound(e, g))
  BY <1>1, ReplayedKept
<1>3. g \in Editing(C) /\ g.mode = "normal" /\ g.ins = e.ins /\ g.dot = e.dot
  BY <1>2 DEF Kept
<1>4. Given(K, e)
  BY DEF Told
<1>5. Given(K, g)
  BY <1>3, <1>4 DEF Given
<1>6. Trusting(K, s) => e.dot.cmd # "c"
  BY <1>4 DEF Trusting, Given, None
<1>7. e.dot.cmd # "c" => Flagged(e, g)
  BY <1>2 DEF Sound, Flagged
<1>8. Trusting(K, s) => (~g.modified => g.text = s)
  BY <1>6, <1>7, FlagKept
<1>9. ASSUME PlainKeys(K)
      PROVE  (g.text = e.text /\ g.undo = e.undo) \/ NewRecord(e, g)
  <2> DEFINE more == e.dot.motion = "e"
  <2>1. e.dot.cmd \notin {"r", "~", "J", "c"} /\ ~more
    BY <1>4, <1>9 DEF PlainKeys, RecordedInPart, Given, None
  <2>2. e.dot.cmd = "d" => g = e \/ Operated(C, e, g, "d", more)
    BY <1>1, <2>1 DEF Replayed, InsertCmds
  <2> HIDE DEF more
  <2>3. CASE g = e
    BY <2>3
  <2>4. CASE e.dot.cmd = "d"
    <3>1. g = e \/ Operated(C, e, g, "d", more)
      BY <2>2, <2>4
    <3>2. CASE Moved(C, e, g)
      BY <3>2 DEF Moved, Becomes
    <3>3. CASE Deleted(C, e, g, more)
      BY <2>1, <3>3, DeletionRecorded
    <3> QED BY <2>3, <3>1, <3>2, <3>3 DEF Operated
  <2>5. CASE DotPosition(e) \in 0..Len(e.text)
             /\ Reinsertion(C, e, g, DotPosition(e), e.dot.text, Changed)
    <3> DEFINE p == DotPosition(e)
               v == e.dot.text
    <3>1. v \in Seq(C) /\ Len(v) <= DotTextMax
      <4>1. e.dot \in DotRecords(C)
        BY EditorHas
      <4>2. v \in Texts(C, DotTextMax)
        BY <4>1 DEF DotRecords
      <4> HIDE DEF v
      <4> QED BY <4>2 DEF Texts
    <3>2. p \in 0..Len(e.text) /\ Reinsertion(C, e, g, p, v, Changed)
      BY <2>5
    <3> HIDE DEF p, v
    <3>3. PICK q \in Nat : Becomes(C, e, g, Inserted(e.text, p, v), q, Insertion(e.modified, p, Len(v)), Changed)
      BY <3>2 DEF Reinsertion
    <3>4. g.text = Inserted(e.text, p, v) /\ g.undo = Insertion(e.modified, p, Len(v))
      BY <3>3 DEF Becomes
    <3> QED BY <3>1, <3>2, <3>4, InsertionRecorded
  <2> QED BY <1>1, <2>1, <2>3, <2>4, <2>5 DEF Replayed
<1>10. PlainKeys(K) => Aligned(g)
  BY <1>3 DEF Aligned
<1>11. Told(K, Began(b, e, g), s, g)
  BY <1>3, <1>5, <1>8, <1>9, <1>10, ToldDone
<1> QED BY <1>11 DEF g

(* i I A o O; a is for no plain user.                                      *)
LEMMA ToldEntered ==
    ASSUME NEW C, AlphabetOK(C), NEW K, NEW b, NEW s \in Seq(C), NEW e \in Editing(C), Told(K, b, s, e),
           e.cur_pos \in 0..Len(e.text), NEW c \in InsertCmds, c \in K
    PROVE  Told(K, Began(b, e, Enter(e, c)), s, Enter(e, c))
<1> DEFINE g == Enter(e, c)
<1>1. Entered(C, e, g, c)
  BY EnterIs
<1> HIDE DEF g
<1>2. /\ g \in Editing(C) /\ g.ins = c /\ g.dot = e.dot
      /\ ~g.modified => ~e.modified /\ g.text = e.text
  BY <1>1, EnteredSound
<1>3. Given(K, g)
  BY <1>2 DEF Told, Given
<1>4. Flagged(e, g)
  BY <1>2 DEF Flagged
<1>5. Trusting(K, s) => (~g.modified => g.text = s)
  BY <1>4, FlagKept
<1>6. ASSUME PlainKeys(K) PROVE NewRecord(e, g) /\ Aligned(g)
  <2>1. c \in InsertCmds \ {"a"}
    BY <1>6 DEF PlainKeys, RecordedInPart
  <2> QED BY <1>1, <2>1, EnteredRecorded
<1>7. Told(K, Began(b, e, g), s, g)
  BY <1>2, <1>3, <1>5, <1>6, ToldDone
<1> QED BY <1>7 DEF g

(* A key in insert mode: a plain user has characters only.                 *)
LEMMA ToldKeyed ==
    ASSUME NEW C, NEW K, NEW b, NEW s \in Seq(C), NEW e \in Editing(C), Told(K, b, s, e),
           e.cur_pos \in 0..Len(e.text), e.mode = "insert",
           NEW k, (k \in InsertKeys /\ k \in K) \/ (k \in C /\ k \notin InsertKeys)
    PROVE  Told(K, b, s, InsertKey(e, k))
<1> DEFINE g == InsertKey(e, k)
<1>1. Keyed(C, e, g, k)
  BY InsertKeyIs
<1> HIDE DEF g
<1>2. /\ g \in Editing(C) /\ g.mode = e.mode /\ g.ins = e.ins /\ g.dot = e.dot
      /\ ~g.modified => ~e.modified /\ g.text = e.text
  BY <1>1, KeyedSound
<1>3. Given(K, g)
  BY <1>2 DEF Told, Given
<1>4. Flagged(e, g)
  BY <1>2 DEF Flagged
<1>5. Trusting(K, s) => (~g.modified => g.text = s)
  BY <1>4, FlagKept
<1>6. ASSUME PlainKeys(K) PROVE Aligned(g) /\ Records(e, g, b, b)
  <2>1. k \in C /\ k \notin InsertKeys
    BY <1>6 DEF PlainKeys, RecordedInPart, InsertKeys
  <2>2. k \notin Erasers /\ k \notin {"Left", "Right"}
    BY <2>1 DEF Erasers, InsertKeys
  <2>3. Aligned(e)
    BY <1>6 DEF Told
  <2>4. CASE g = e
    BY <2>3, <2>4 DEF Records
  <2>5. CASE Becomes(C, e, g, e.text, e.cur_pos, e.undo, e.modified)
    <3>1. g.text = e.text /\ g.cur_pos = e.cur_pos /\ g.undo = e.undo
      BY <2>5 DEF Becomes
    <3> QED BY <1>2, <2>3, <3>1 DEF Aligned, Records
  <2>6. CASE /\ ~Full(e)
             /\ Becomes(C, e, g, Inserted(e.text, e.cur_pos, <<k>>), e.cur_pos + 1,
                        Longer(e.undo, 1), Changed)
    <3>1. Grows(e, g) /\ Aligned(g)
      BY <2>1, <2>3, <2>6, TypedRecorded
    <3> QED BY <3>1 DEF Records
  <2> QED BY <1>1, <2>1, <2>2, <2>4, <2>5, <2>6 DEF Keyed
<1>7. Told(K, b, s, g)
  BY <1>2, <1>3, <1>5, <1>6, ToldStep
<1> QED BY <1>7 DEF g

(* ESC makes the insertion what "." repeats.                               *)
LEMMA ToldEscape ==
    ASSUME NEW C, AlphabetOK(C), NEW K, NEW b, NEW s \in Seq(C), NEW e \in Editing(C), Told(K, b, s, e),
           e.cur_pos \in 0..Len(e.text)
    PROVE  Told(K, b, s, Escape(e))
<1> DEFINE g == Escape(e)
           kept == ~ (e.ins # None /\ e.undo.type = "insert" /\ e.undo.len > 0)
<1>1. /\ g \in Editing(C) /\ g.mode = "normal" /\ g.ins = None
      /\ g.text = e.text /\ g.undo = e.undo /\ g.modified = e.modified
      /\ kept => g.dot = e.dot
      /\ ~kept => /\ g.dot.cmd = e.ins /\ g.dot.arg = None
                  /\ g.dot.motion = IF e.ins = "c" THEN e.dot.motion ELSE None
  BY EscapeIs
<1> HIDE DEF g, kept
<1>2. Given(K, e)
  BY DEF Told
<1>3. Given(K, g)
  BY <1>1, <1>2 DEF Given
<1>4. Aligned(g)
  BY <1>1 DEF Aligned
<1>5. Told(K, b, s, g)
  BY <1>1, <1>3, <1>4, ToldSame
<1> QED BY <1>5 DEF g

(* :w makes the text the file's.                                           *)
LEMMA ToldWritten ==
    ASSUME NEW C, NEW K, ":w" \in K, NEW b, NEW s, NEW e \in Editing(C), Told(K, b, s, e),
           NEW g, g = [e EXCEPT !.modified = FALSE]
    PROVE  Told(K, b, e.text, g)
<1>1. /\ g.text = e.text /\ g.undo = e.undo /\ g.cur_pos = e.cur_pos /\ g.mode = e.mode
      /\ g.dot = e.dot /\ g.ins = e.ins
  BY DEF Editing, Editors
<1>2. Given(K, g)
  BY <1>1 DEF Told, Given
<1>3. PlainKeys(K) => Aligned(g) /\ Undoable(g, b)
  BY <1>1 DEF Told, Aligned, Undoable, Full
<1>4. Trusting(K, e.text) => "u" \notin K
  BY DEF Trusting
<1> QED BY <1>1, <1>2, <1>3, <1>4 DEF Told

(* Replacing, toggling, joining and putting are for no plain user.         *)
LEMMA ToldResult ==
    ASSUME NEW C, NEW K, NEW k \in {"r", "~", "J", "p", "P"}, k \in K,
           NEW b, NEW s \in Seq(C), NEW e, Told(K, b, s, e),
           NEW g, Result(C, e, g), g.dot = e.dot \/ (\E a : DotIsOf(e, g, k, None, a))
    PROVE  Told(K, Began(b, e, g), s, g)
<1>1. ~PlainKeys(K)
  BY DEF PlainKeys, RecordedInPart
<1>2. g \in Editing(C) /\ Sound(e, g) /\ g.ins = e.ins
  BY DEF Result
<1>3. Given(K, g)
  <2>1. Given(K, e)
    BY DEF Told
  <2>2. CASE g.dot = e.dot
    BY <1>2, <2>1, <2>2 DEF Given
  <2>3. CASE \E a : DotIsOf(e, g, k, None, a)
    <3>1. g.dot.cmd = k /\ g.dot.motion = None
      BY <2>3 DEF DotIsOf
    <3> QED BY <1>2, <2>1, <3>1 DEF Given
  <2> QED BY <2>2, <2>3
<1> QED BY <1>1, <1>2, <1>3, ToldPart

-----------------------------------------------------------------------------
(* What the editor remembers of the texts before.                          *)

IInvTold ==
    /\ IInv
    /\ Told(Users[user].keys, before, saved, ed)

(* A step that keeps it told of the editor keeps it.                       *)
LEMMA TakesTold ==
    ASSUME IInvTold, NEW g \in Editing(Characters(user)), Takes(g),
           saved' \in Seq(Characters(user)),
           Told(Users[user].keys, before', saved', g)
    PROVE  Told(Users[user].keys, before, saved, ed)'
<1> DEFINE C == Characters(user)
           K == Users[user].keys
<1>1. user' = user /\ ed' \in {g, Counted(g)}
  BY DEF Takes
<1>2. Told(K, before', saved', ed')
  <2> HIDE DEF C, K
  <2>1. Told(K, before', saved', g) /\ g \in Editing(C) /\ saved' \in Seq(C)
    BY DEF C, K
  <2>2. Told(K, before', saved', Counted(g))
    BY <2>1, ToldCounted
  <2> QED BY <1>1, <2>1, <2>2
<1>3. Users[user]'.keys = K
  BY <1>1
<1> HIDE DEF K
<1> QED BY <1>2, <1>3

(* So one that leaves the texts before as they are.                        *)
LEMMA StepTold ==
    ASSUME IInvTold, NEW g \in Editing(Characters(user)), Takes(g),
           saved' = saved, before' = before,
           Told(Users[user].keys, before, saved, g)
    PROVE  Told(Users[user].keys, before, saved, ed)'
<1>1. saved' \in Seq(Characters(user))
  BY DEF IInvTold, IInv
<1>2. Told(Users[user].keys, before', saved', g)
  OBVIOUS
<1> QED BY <1>1, <1>2, TakesTold

(* So a command.                                                           *)
LEMMA DoesTold ==
    ASSUME IInvTold, NEW g \in Editing(Characters(user)), Does(g),
           Told(Users[user].keys, Began(before, ed, g), saved, g)
    PROVE  Told(Users[user].keys, before, saved, ed)'
<1>1. Takes(g) /\ saved' = saved /\ before' = Began(before, ed, g)
  BY DEF Does, Step, Began
<1>2. saved' \in Seq(Characters(user))
  BY <1>1 DEF IInvTold, IInv
<1>3. Told(Users[user].keys, before', saved', g)
  BY <1>1
<1> QED BY <1>1, <1>2, <1>3, TakesTold

(* A new buffer has nothing to remember.                                   *)
LEMMA ToldInit ==
    ASSUME Init PROVE IInvTold
<1> DEFINE C == Characters(user)
           K == Users[user].keys
<1>1. IInv
  BY IInvInit
<1>2. PICK t \in Users[user].texts : ed = Start(t) /\ saved = t /\ before = t
  BY DEF Init
<1>3. t \in Texts(C, Capacity)
  <2>1. t \in Seq(C)
    BY <1>1, <1>2 DEF IInv
  <2>2. Len(t) <= Capacity
    BY <1>2, UsersAssumption DEF Init
  <2> QED BY <2>1, <2>2 DEF Texts
<1>4. Told(K, t, t, Start(t))
  <2> DEFINE e == Start(t)
  <2> HIDE DEF C, K
  <2>1. /\ e.text = t /\ e.mode = "normal" /\ e.undo.type = None /\ e.ins = None
        /\ e.dot.cmd = None /\ e.dot.motion = None
    BY <1>3, StartIs
  <2> HIDE DEF e
  <2>2. Given(K, e)
    BY <2>1 DEF Given
  <2>3. Aligned(e) /\ Undoable(e, t)
    BY <2>1 DEF Aligned, Undoable
  <2>4. Told(K, t, t, e)
    BY <2>1, <2>2, <2>3 DEF Told
  <2> QED BY <2>4 DEF e
<1> HIDE DEF K
<1>5. Told(K, before, saved, ed)
  BY <1>2, <1>4
<1> QED BY <1>1, <1>5 DEF IInvTold, K

(* Every step keeps it told.                                               *)
LEMMA ToldNext ==
    ASSUME IInvTold, Next PROVE Told(Users[user].keys, before, saved, ed)'
<1> DEFINE C == Characters(user)
           K == Users[user].keys
           e == ed
           b == before
           s == saved
           Goal == Told(Users[user].keys, before, saved, ed)'
<1>1. /\ user \in DOMAIN Users /\ Fine(C, K, e) /\ e \in Editing(C) /\ DotFits(C, e)
      /\ seek \in Seeks(C) /\ s \in Seq(C) /\ Told(K, b, s, e)
  BY DEF IInvTold, IInv, Fine
<1>2. AlphabetOK(C)
  BY <1>1, UserAlphabet
<1>3. /\ Users[user].counts \subseteq Nat \ {0} /\ Users[user].dot_counts \subseteq Nat
      /\ Columns \subseteq Nat /\ Users[user].typed \cap InsertKeys = {}
  BY <1>1, UsersAssumption
<1>4. Users[user].typed \subseteq C
  BY DEF Characters
<1>5. ASSUME NEW g, Takes(g) PROVE e.cur_pos <= Len(e.text) /\ e.cur_pos \in 0..Len(e.text)
  <2>1. e.cur_pos <= Len(e.text)
    BY <1>5 DEF Takes
  <2>2. e.cur_pos \in Nat /\ Len(e.text) \in Nat
    BY <1>1, EditorHas DEF Texts
  <2> DEFINE p == e.cur_pos
             n == Len(e.text)
  <2> HIDE DEF p, n
  <2>3. p <= n /\ p \in Nat /\ n \in Nat
    BY <2>1, <2>2 DEF p, n
  <2>4. p \in 0..n
    BY <2>3
  <2> QED BY <2>1, <2>4 DEF p, n
<1>6. ASSUME NEW g, Does(g), g \in Editing(C), Told(K, Began(b, e, g), s, g) PROVE Goal
  BY <1>6, DoesTold
<1>7. ASSUME NEW g, Takes(g), saved' = saved, before' = before, e.mode = "normal" \/ ~PlainKeys(K),
             g = e \/ Moved(C, e, g)
      PROVE  Goal
  <2>1. g \in Editing(C)
    BY <1>1, <1>7 DEF Moved, Becomes
  <2>2. Told(K, b, s, g)
    <3> HIDE DEF C, K, b, s, e
    <3> QED BY <1>1, <1>7, ToldMoved
  <2> QED BY <2>1, <2>2, <1>7, StepTold
<1>8. ASSUME NEW g, NEW k \in {"r", "~", "J", "p", "P"}, Gets(k), Does(g), Result(C, e, g),
             g.dot = e.dot \/ (\E a : DotIsOf(e, g, k, None, a))
      PROVE  Goal
  <2>1. k \in K
    BY <1>8 DEF Gets
  <2>2. g \in Editing(C)
    BY <1>8 DEF Result
  <2>3. Told(K, Began(b, e, g), s, g)
    <3> HIDE DEF C, K, b, s, e
    <3> QED BY <1>1, <1>8, <2>1, ToldResult
  <2> QED BY <1>6, <1>8, <2>2, <2>3
<1>9. ASSUME NEW n \in Users[user].counts, NEW op \in Operators, NEW m \in OpMotions \cup {op},
             Operate(op, m, n)
      PROVE  Goal
  <2> DEFINE g == IF m = op THEN Doubled(ed, op, n) ELSE WithMotion(ed, op, m, n)
  <2>1. Does(g) /\ Takes(g) /\ e.mode = "normal" /\ op \in K /\ m \in K
    BY <1>9 DEF Operate, Does, Step, Gets
  <2>2. n \in Nat
    BY <1>3
  <2>3. e.cur_pos <= Len(e.text) /\ e.cur_pos \in 0..Len(e.text)
    BY <2>1, <1>5
  <2>4. g \in Editing(C)
    <3> HIDE DEF C, K
    <3>1. Fine(C, K, g)
      BY <2>1, <2>2, <2>3, <1>1, <1>2, FineOperate
    <3> QED BY <3>1 DEF Fine
  <2>5. Told(K, Began(b, e, g), s, g)
    <3> HIDE DEF C, K, b, s
    <3> QED BY <2>1, <2>2, <2>3, <1>1, <1>2, ToldOperate
  <2> HIDE DEF g
  <2> QED BY <1>6, <2>1, <2>4, <2>5
<1>10. ASSUME NEW n \in Users[user].counts, ToggleCase(n) PROVE Goal
  <2> DEFINE g == Tilde(ed, n)
  <2>1. Does(g) /\ Takes(g) /\ Gets("~") /\ n \in Nat
    BY <1>3, <1>10 DEF ToggleCase, Does, Step
  <2>2. e.cur_pos \in 0..Len(e.text)
    BY <2>1, <1>5
  <2>3. Result(C, e, g) /\ DotIsOf(e, g, "~", None, None)
    <3> HIDE DEF C
    <3> QED BY <2>1, <2>2, <1>1, <1>2, TildeIs
  <2> HIDE DEF g
  <2> QED BY <1>8, <2>1, <2>3
<1>11. ASSUME NEW n \in Users[user].counts, JoinLines(n) PROVE Goal
  <2> DEFINE g == Join(ed, n)
  <2>1. Does(g) /\ Takes(g) /\ Gets("J") /\ n \in Nat
    BY <1>3, <1>11 DEF JoinLines, Does, Step
  <2>2. e.cur_pos \in 0..Len(e.text)
    BY <2>1, <1>5
  <2>3. Result(C, e, g) /\ DotIsOf(e, g, "J", None, None)
    <3> HIDE DEF C
    <3> QED BY <2>1, <2>2, <1>1, <1>2, JoinIs
  <2> HIDE DEF g
  <2> QED BY <1>8, <2>1, <2>3
<1>12. ASSUME NEW c \in Users[user].typed, ReplaceChar(c) PROVE Goal
  <2> DEFINE g == Replace(ed, c)
  <2>1. Does(g) /\ Takes(g) /\ Gets("r") /\ c \in C
    BY <1>4, <1>12 DEF ReplaceChar, Does, Step
  <2>2. e.cur_pos \in 0..Len(e.text)
    BY <2>1, <1>5
  <2>3. Result(C, e, g) /\ (g.dot = e.dot \/ DotIsOf(e, g, "r", None, c))
    <3> HIDE DEF C
    <3> QED BY <2>1, <2>2, <1>1, <1>2, ReplaceIs
  <2> HIDE DEF g
  <2> QED BY <1>8, <2>1, <2>3
<1>13. ASSUME Put PROVE Goal
  <2> SUFFICES ASSUME NEW g, NEW k \in {"p", "P"},
                      g = PutAfter(ed) \/ g = PutBefore(ed), Does(g), Gets(k)
               PROVE  Goal
    BY <1>13 DEF Put
  <2>1. (g = PutAfter(ed) \/ g = PutBefore(ed)) /\ Does(g) /\ Gets(k)
    OBVIOUS
  <2>2. Takes(g)
    BY <2>1 DEF Does, Step
  <2>3. e.cur_pos \in 0..Len(e.text)
    BY <2>2, <1>5
  <2>4. Result(C, e, g) /\ g.dot = e.dot
    <3> HIDE DEF C
    <3> QED BY <2>1, <2>3, <1>1, <1>2, PutIs
  <2> QED BY <1>8, <2>1, <2>4
<1>14. ASSUME Undo PROVE Goal
  <2> DEFINE g == Undone(ed)
  <2>1. Does(g) /\ Takes(g) /\ "u" \in K /\ e.mode = "normal"
    BY <1>14 DEF Undo, Does, Step, Gets
  <2>2. e.cur_pos <= Len(e.text)
    BY <2>1, <1>5
  <2>3. g \in Editing(C)
    <3> HIDE DEF C, K
    <3>1. Fine(C, K, g)
      BY <2>1, <2>2, <1>1, FineUndone
    <3> QED BY <3>1 DEF Fine
  <2>4. Told(K, Began(b, e, g), s, g)
    <3> HIDE DEF C, K, b, s
    <3> QED BY <2>1, <1>1, ToldUndone
  <2> HIDE DEF g
  <2> QED BY <1>6, <2>1, <2>3, <2>4
<1>15. ASSUME Write PROVE Goal
  <2> DEFINE g == [ed EXCEPT !.modified = FALSE]
  <2>1. Takes(g) /\ before' = before /\ saved' = ed.text /\ ":w" \in K
    BY <1>15 DEF Write, Step, Gets
  <2>2. g \in Editing(C)
    <3> HIDE DEF C, K
    <3>1. Fine(C, K, g)
      BY <1>1, FineWritten
    <3> QED BY <3>1 DEF Fine
  <2> HIDE DEF g
  <2>3. Told(K, b, e.text, g)
    <3> HIDE DEF C, K, b, s
    <3> QED BY <2>1, <1>1, ToldWritten DEF g
  <2>4. saved' \in Seq(C)
    BY <2>1, <1>1, EditorHas DEF Texts
  <2>5. Told(Users[user].keys, before', saved', g)
    BY <2>1, <2>3
  <2> QED BY <2>1, <2>2, <2>4, <2>5, TakesTold
<1>16. ASSUME NEW n \in Users[user].dot_counts, Dot(n) PROVE Goal
  <2> DEFINE g == DotReplay(ed, n)
  <2>1. Does(g) /\ Takes(g) /\ "." \in K /\ e.mode = "normal"
    BY <1>16 DEF Dot, Does, Step, Gets
  <2>2. e.cur_pos <= Len(e.text) /\ e.cur_pos \in 0..Len(e.text)
    BY <2>1, <1>5
  <2>3. n \in Nat
    BY <1>3
  <2>4. g \in Editing(C)
    <3> HIDE DEF C, K
    <3>1. Fine(C, K, g)
      BY <2>2, <2>3, <1>1, <1>2, FineReplayed
    <3> QED BY <3>1 DEF Fine
  <2>5. Told(K, Began(b, e, g), s, g)
    <3> HIDE DEF C, K, b, s
    <3> QED BY <2>1, <2>2, <2>3, <1>1, <1>2, ToldReplayed
  <2> HIDE DEF g
  <2> QED BY <1>6, <2>1, <2>4, <2>5
<1>17. ASSUME NEW c \in InsertCmds, EnterInsert(c) PROVE Goal
  <2> DEFINE g == Enter(ed, c)
  <2>1. Does(g) /\ Takes(g) /\ c \in K
    BY <1>17 DEF EnterInsert, Does, Step, Gets
  <2>2. e.cur_pos <= Len(e.text) /\ e.cur_pos \in 0..Len(e.text)
    BY <2>1, <1>5
  <2>3. g \in Editing(C)
    <3> HIDE DEF C, K
    <3>1. Fine(C, K, g)
      BY <2>1, <2>2, <1>1, <1>2, FineEntered
    <3> QED BY <3>1 DEF Fine
  <2>4. Told(K, Began(b, e, g), s, g)
    <3> HIDE DEF C, K, b, s
    <3> QED BY <2>1, <2>2, <1>1, <1>2, ToldEntered
  <2> HIDE DEF g
  <2> QED BY <1>6, <2>1, <2>3, <2>4
<1>18. ASSUME NEW k \in Users[user].typed \cup InsertKeys, Press(k) PROVE Goal
  <2> DEFINE g == InsertKey(ed, k)
  <2>1. Takes(g) /\ saved' = saved /\ before' = before /\ e.mode = "insert"
        /\ (k \in Users[user].typed \/ k \in K)
    BY <1>18 DEF Press, Step
  <2>2. e.cur_pos <= Len(e.text) /\ e.cur_pos \in 0..Len(e.text)
    BY <2>1, <1>5
  <2>3. (k \in InsertKeys /\ k \in K) \/ (k \in C /\ k \notin InsertKeys)
    BY <2>1, <1>3, <1>4
  <2>4. g \in Editing(C)
    <3> HIDE DEF C, K
    <3>1. Fine(C, K, g)
      BY <2>2, <2>3, <1>1, FineKeyed
    <3> QED BY <3>1 DEF Fine
  <2>5. Told(K, b, s, g)
    <3> HIDE DEF C, K, b, s
    <3> QED BY <2>1, <2>2, <2>3, <1>1, ToldKeyed
  <2> HIDE DEF g
  <2> QED BY <2>1, <2>4, <2>5, StepTold
<1>19. ASSUME LeaveInsert PROVE Goal
  <2> DEFINE g == Escape(ed)
  <2>1. Takes(g) /\ saved' = saved /\ before' = before /\ e.mode = "insert"
    BY <1>19 DEF LeaveInsert, Step
  <2>2. e.cur_pos <= Len(e.text) /\ e.cur_pos \in 0..Len(e.text)
    BY <2>1, <1>5
  <2>3. g \in Editing(C)
    <3> HIDE DEF C, K
    <3>1. Fine(C, K, g)
      BY <2>1, <2>2, <1>1, <1>2, FineEscape
    <3> QED BY <3>1 DEF Fine
  <2>4. Told(K, b, s, g)
    <3> HIDE DEF C, K, b, s
    <3> QED BY <2>2, <1>1, <1>2, ToldEscape
  <2> HIDE DEF g
  <2> QED BY <2>1, <2>3, <2>4, StepTold
<1>20. ASSUME NEW k \in {"Up", "Down"}, NEW w \in Columns, Glide(k, w) PROVE Goal
  <2> DEFINE m == IF k = "Up" THEN "k" ELSE "j"
             g == CursorAt(ed, Target(ed.text, ed.cur_pos, m, 1, w, 0))
  <2>1. Takes(g) /\ saved' = saved /\ before' = before /\ k \in K
    BY <1>20 DEF Glide, Step
  <2>2. e.cur_pos <= Len(e.text) /\ e.cur_pos \in 0..Len(e.text)
    BY <2>1, <1>5
  <2>3. m \in Motions /\ w \in Nat
    BY <1>3 DEF Motions, OpMotions
  <2>4. Moved(C, e, g)
    <3> HIDE DEF C, m
    <3> QED BY <2>2, <2>3, <1>1, TargetMoves
  <2> HIDE DEF g
  <2>5. ~PlainKeys(K)
    <3> HIDE DEF K
    <3> QED BY <2>1 DEF PlainKeys, RecordedInPart
  <2> QED BY <1>7, <2>1, <2>4, <2>5
<1>21. ASSUME NEW n \in Users[user].counts, NEW m \in Motions, NEW w \in Columns, Move(m, n, w)
       PROVE  Goal
  <2> DEFINE c == IF m \in {"G", "nG", "gg"} THEN Counted(ed) ELSE ed
             g == CursorAt(c, Target(c.text, c.cur_pos, m, n, w, c.line_cnt))
  <2>1. Takes(g) /\ saved' = saved /\ before' = before /\ e.mode = "normal"
    BY <1>21 DEF Move, Step, Gets
  <2>2. n \in Nat /\ w \in Nat
    BY <1>3
  <2>3. e.cur_pos <= Len(e.text) /\ e.cur_pos \in 0..Len(e.text)
    BY <2>1, <1>5
  <2>4. c \in Editing(C) /\ c.text = e.text /\ c.cur_pos = e.cur_pos /\ Like(C, e, c)
    <3>1. Fine(C, K, Counted(e)) /\ Counted(e).text = e.text /\ Counted(e).cur_pos = e.cur_pos
      <4> HIDE DEF C, K
      <4> QED BY <1>1, FineCounted
    <3>2. Like(C, e, Counted(e)) /\ Like(C, e, e)
      <4>1. e.cur_pos \in Nat
        BY <1>1, EditorHas
      <4> HIDE DEF C
      <4> QED BY <1>1, <4>1, LikeIs DEF Like
    <3> QED BY <1>1, <3>1, <3>2 DEF Fine
  <2> HIDE DEF c
  <2>5. c.cur_pos <= Len(c.text) /\ c.cur_pos \in 0..Len(c.text)
    BY <2>3, <2>4
  <2>6. Moved(C, c, g)
    <3> DEFINE l == c.line_cnt
    <3> HIDE DEF C, l
    <3>1. Moved(C, c, CursorAt(c, Target(c.text, c.cur_pos, m, n, w, l)))
      BY <2>2, <2>4, <2>5, TargetMoves
    <3> QED BY <3>1 DEF l
  <2> HIDE DEF g
  <2>7. Moved(C, e, g)
    BY <2>4, <2>6 DEF Moved, Like, Becomes
  <2> QED BY <1>7, <2>1, <2>7
<1>22. ASSUME NEW n \in Users[user].counts, NEW c \in {"f", "F", ";", ","},
              NEW x \in Users[user].typed, FindChar(c, x, n)
       PROVE  Goal
  <2> DEFINE way == IF c = "," THEN -seek'.way ELSE seek'.way
             l == seek'.ch
             g == CursorAt(ed, FoundOnLine(ed.text, ed.cur_pos, l, way, n))
  <2>1. Takes(g) /\ saved' = saved /\ before' = before /\ e.mode = "normal" /\ n \in Nat
    BY <1>3, <1>22 DEF FindChar, Searches, Gets
  <2>2. e.cur_pos <= Len(e.text) /\ e.cur_pos \in 0..Len(e.text)
    BY <2>1, <1>5
  <2>3. Moved(C, e, g)
    <3> HIDE DEF C, l, way
    <3> QED BY <2>1, <2>2, <1>1, CharMoves
  <2> HIDE DEF g
  <2> QED BY <1>7, <2>1, <2>3
<1> DEFINE h(c) == IF c = "/" THEN Forward ELSE Backward
<1>23. ASSUME NEW c \in {"/", "?"}, NEW x \in Users[user].patterns, AbandonSearch(c, x)
       PROVE  Goal
  <2>1. Takes(ed) /\ saved' = saved /\ before' = before /\ e.mode = "normal"
    BY <1>23 DEF AbandonSearch, Searches, Gets
  <2> QED BY <1>7, <2>1
<1>24. ASSUME NEW c \in {"/", "?"}, NEW x \in Users[user].patterns, NEW n \in 0..Len(x),
              SearchFor(c, x, n)
       PROVE  Goal
  <2> DEFINE k == Spelled([seek EXCEPT !.dir = h(c)], x, n, TRUE)
             g == IF n > 0 THEN Found(ed, k) ELSE ed
  <2>1. Takes(g) /\ saved' = saved /\ before' = before /\ e.mode = "normal" /\ Len(x) < SearchMax
    BY <1>24 DEF SearchFor, Searches, Gets
  <2>2. h(c) \in {Forward, Backward} /\ x \in Seq(C)
    BY <1>1, UserTexts
  <2>3. k \in Seeks(C)
    <3> HIDE DEF C, h
    <3>1. n \in Nat /\ n <= Len(x)
      BY <2>2
    <3> QED BY <2>1, <2>2, <3>1, <1>1, <1>2, SpelledIs
  <2> HIDE DEF k
  <2>4. Found(e, k) = e \/ Moved(C, e, Found(e, k))
    <3> HIDE DEF C
    <3> QED BY <2>3, <1>1, FoundIs
  <2>5. g = e \/ Moved(C, e, g)
    BY <2>4
  <2> HIDE DEF g
  <2> QED BY <1>7, <2>1, <2>5
<1>25. ASSUME NEW c \in {"n", "N"}, SearchAgain(c) PROVE Goal
  <2> DEFINE k == IF c = "n" THEN seek ELSE [seek EXCEPT !.dir = -@]
             g == Found(ed, k)
  <2>1. Takes(g) /\ saved' = saved /\ before' = before /\ e.mode = "normal"
    BY <1>25 DEF SearchAgain, Searches, Gets
  <2>2. k \in Seeks(C)
    <3> DEFINE d == -seek.dir
    <3> HIDE DEF C
    <3>1. d \in {Forward, Backward}
      BY <1>1 DEF Seeks, Forward, Backward
    <3> HIDE DEF d
    <3>2. [seek EXCEPT !.dir = d] \in Seeks(C)
      BY <3>1, <1>1 DEF Seeks
    <3> QED BY <3>2, <1>1 DEF d
  <2> HIDE DEF k
  <2>3. g = e \/ Moved(C, e, g)
    <3> HIDE DEF C
    <3> QED BY <2>2, <1>1, FoundIs
  <2> HIDE DEF g
  <2> QED BY <1>7, <2>1, <2>3
<1> HIDE DEF C, K, e, b, s, h, Goal
<1>26. Goal
  BY <1>9, <1>10, <1>11, <1>12, <1>13, <1>14, <1>15, <1>16, <1>17, <1>18, <1>19, <1>20,
     <1>21, <1>22, <1>23, <1>24, <1>25 DEF Next
<1> QED BY <1>26 DEF Goal

(* Nothing but a step changes it.                                          *)
LEMMA ToldUnchanged ==
    ASSUME IInvTold, UNCHANGED vars PROVE IInvTold'
<1>1. IInv'
  BY IInvSame DEF IInvTold
<1>2. Told(Users[user].keys, before, saved, ed)'
  BY DEF IInvTold, vars
<1> QED BY <1>1, <1>2 DEF IInvTold

(* So it is an invariant.                                                  *)
LEMMA ToldAlways == Spec => []IInvTold
<1>1. Init => IInvTold
  BY ToldInit
<1>2. IInvTold /\ [Next]_vars => IInvTold'
  <2>1. ASSUME IInvTold, Next PROVE IInvTold'
    <3>1. IInv'
      BY <2>1, IInvNext DEF IInvTold
    <3>2. Told(Users[user].keys, before, saved, ed)'
      BY <2>1, ToldNext
    <3> QED BY <3>1, <3>2 DEF IInvTold
  <2> QED BY <2>1, ToldUnchanged
<1> QED BY <1>1, <1>2, PTL DEF Spec

(* Whenever u would do something it brings back the text that the last     *)
(* change began with, for the users, changes and texts that                *)
(* UndoWouldRestore names (undo_save_delete, undo_save_insert, insert_key). *)
THEOREM EditCommandsUndo == Spec => []UndoWouldRestore
<1>1. IInvTold => UndoWouldRestore
  <2> SUFFICES ASSUME IInvTold, ~Uses(RecordedInPart), ed.undo.type # None,
                      ed.undo.len <= UndoMax, ~Full(ed), Ended(before)
               PROVE  Undone(ed).text = before
    BY DEF UndoWouldRestore
  <2> DEFINE C == Characters(user)
  <2>1. ed \in Editing(C) /\ before \in Seq(C)
    BY DEF IInvTold, IInv, Fine
  <2>2. PlainKeys(Users[user].keys)
    BY DEF Uses, PlainKeys
  <2>3. Undoable(ed, before)
    BY <2>2 DEF IInvTold, Told
  <2> HIDE DEF C
  <2>4. Restores(ed.text, ed.undo, before)
    BY <2>3 DEF Undoable
  <2>5. ed.text \in Texts(C, Capacity) /\ ed.undo \in UndoRecords(C)
    BY <2>1, EditorHas
  <2>6. TakenBack(ed.undo, ed.text) = before
    BY <2>1, <2>4, <2>5, RestoredIs
  <2>7. Undone(ed).text = TakenBack(ed.undo, ed.text)
    BY <2>1, UndoneIs DEF Becomes
  <2> QED BY <2>6, <2>7
<1> QED BY <1>1, ToldAlways, PTL

(* A buffer that does not count as modified is what the file holds         *)
(* (zvi.h:118), for the users and files that ModifiedHonest names.         *)
THEOREM EditCommandsFlag == Spec => []ModifiedHonest
<1>1. IInvTold => ModifiedHonest
  <2> SUFFICES ASSUME IInvTold, Uses({"u"}) => ~Uses(RecordedInPart \cup {":w"}) /\ FileIsSmall,
                      ~ (Uses({"c"}) /\ Uses({"."})), ~ed.modified
               PROVE  ed.text = saved
    BY DEF ModifiedHonest
  <2> DEFINE K == Users[user].keys
  <2>1. Trusting(K, saved)
    <3>1. \A x : x \in K => Uses({x})
      BY DEF Uses
    <3>2. "u" \in K => PlainKeys(K) /\ ":w" \notin K /\ FileIsSmall
      BY <3>1 DEF Uses, PlainKeys
    <3>3. ~ ("c" \in K /\ "." \in K)
      BY <3>1
    <3> HIDE DEF K
    <3> QED BY <3>2, <3>3 DEF Trusting, FileIsSmall
  <2> QED BY <2>1 DEF IInvTold, Told
<1> QED BY <1>1, ToldAlways, PTL

-----------------------------------------------------------------------------
(* Searching.                                                              *)

(* An int that fits the machine is itself.                                 *)
LEMMA WrapFits ==
    ASSUME NEW n \in (-MAXINT)..MAXINT PROVE Wrap(n) = n
<1> DEFINE m == 2 * (MAXINT + 1)
           k == n + MAXINT + 1
<1>1. MAXINT \in Nat
  BY MotionsAssumption
<1>2. m \in Nat /\ m > 0 /\ k \in 0..(m - 1)
  BY <1>1
<1>3. Wrap(n) = (k % m) - (MAXINT + 1)
  BY DEF Wrap
<1>4. k % m = k
  <2> HIDE DEF m, k
  <2> QED BY <1>2
<1> QED BY <1>1, <1>3, <1>4

\* What the i-th position from p is, in a text of n characters.
Around(n, p, dir, i) ==
    IF dir = Forward THEN IF p + i >= n THEN p + i - n ELSE p + i
    ELSE IF p - i < 0 THEN p - i + n ELSE p - i

\* x comes after p in the direction, without going around.
Beyond(dir, x, p) == IF dir = Forward THEN x > p ELSE x < p

(* In a text of no more than half the machine's integers.                  *)
LEMMA CandidateAround ==
    ASSUME NEW C, NEW t \in Seq(C), NEW p \in Nat, p < Len(t), 2 * Len(t) <= MAXINT,
           NEW dir \in {Forward, Backward}, NEW i \in 1..Len(t)
    PROVE  Candidate(t, p, dir, i) = Around(Len(t), p, dir, i)
<1> DEFINE m == Len(t)
<1>1. MAXINT \in Nat /\ m \in Nat
  BY MotionsAssumption
<1>2. Candidate(t, p, dir, i) = IF dir = Forward
                                THEN IF Wrap(p + dir * i) >= m THEN Wrap(p + dir * i) - m ELSE Wrap(p + dir * i)
                                ELSE IF Wrap(p + dir * i) < 0 THEN Wrap(p + dir * i) + m ELSE Wrap(p + dir * i)
  BY DEF Candidate
<1> HIDE DEF m
<1>3. CASE dir = Forward
  <2>1. p + dir * i = p + i
    BY <1>3 DEF Forward
  <2>2. p + i \in (-MAXINT)..MAXINT
    BY <1>1 DEF m
  <2>3. Wrap(p + i) = p + i
    BY <2>2, WrapFits
  <2> QED BY <1>2, <1>3, <2>1, <2>3 DEF Around, m
<1>4. CASE dir = Backward
  <2>1. p + dir * i = p - i
    BY <1>4 DEF Backward
  <2>2. p - i \in (-MAXINT)..MAXINT
    BY <1>1 DEF m
  <2>3. Wrap(p - i) = p - i
    BY <2>2, WrapFits
  <2>4. dir # Forward
    BY <1>4 DEF Forward, Backward
  <2> QED BY <1>2, <2>4, <2>1, <2>3 DEF Around, m
<1> QED BY <1>3, <1>4

(* A pattern matches where it occurs.                                      *)
LEMMA MatchesIs ==
    ASSUME NEW C, NEW t \in Seq(C), NEW D, NEW s \in Seq(D), s # << >>, NEW q \in 0..(Len(t) - 1)
    PROVE  Matches(t, q, s) <=> q \in Occurrences(t, s)
<1> DEFINE m == Len(t)
           n == Len(s)
<1>1. m \in Nat /\ n \in Nat /\ n > 0
  BY EmptySeq
<1>2. Matches(t, q, s) <=> \A j \in 1..n : q + j - 1 < m /\ Same(At(t, q + j - 1), s[j])
  BY DEF Matches
<1>3. q \in Occurrences(t, s) <=> q \in 0..(m - n) /\ \A j \in 1..n : Same(At(t, q + j - 1), s[j])
  BY DEF Occurrences
<1> HIDE DEF m, n
<1>4. (\A j \in 1..n : q + j - 1 < m) <=> q + n - 1 < m
  <2>1. n \in 1..n
    BY <1>1
  <2>2. \A j \in 1..n : q + j - 1 <= q + n - 1
    BY <1>1
  <2> QED BY <2>1, <2>2, <1>1
<1>5. q + n - 1 < m <=> q \in 0..(m - n)
  BY <1>1
<1> QED BY <1>2, <1>3, <1>4, <1>5

\* Of n positions, T are sought; hits are the steps that meet them, ahead those
\* met before the end, and these the ones to choose from.
Sought(n, p, dir, T, hits, ahead, these) ==
    /\ n \in Nat /\ p \in 0..(n - 1) /\ dir \in {Forward, Backward}
    /\ T \subseteq 0..(n - 1) /\ T # {}
    /\ \A i : i \in hits <=> i \in 1..n /\ Around(n, p, dir, i) \in T
    /\ \A x : x \in ahead <=> x \in T /\ Beyond(dir, x, p)
    /\ these = IF ahead # {} THEN ahead ELSE T

(* The first position looked at that holds the pattern is the occurrence   *)
(* nearest in the direction, all of the text being looked at.              *)
LEMMA FirstAround ==
    ASSUME NEW n, NEW p, NEW dir, NEW T, NEW hits, NEW ahead, NEW these,
           Sought(n, p, dir, T, hits, ahead, these)
    PROVE  /\ hits # {} /\ hits \subseteq Nat
           /\ Around(n, p, dir, Min(hits)) = IF dir = Forward THEN Min(these) ELSE Max(these)
<1> USE DEF Sought
<1> DEFINE turn(x) == IF dir = Forward THEN IF x > p THEN x - p ELSE x - p + n
                      ELSE IF x < p THEN p - x ELSE p - x + n
           i == Min(hits)
           q == Around(n, p, dir, i)
<1>1. Forward = 1 /\ Backward = -1
  BY DEF Forward, Backward
<1>2. \A x \in 0..(n - 1) : turn(x) \in 1..n /\ Around(n, p, dir, turn(x)) = x
  BY DEF Around
<1>3. hits # {} /\ hits \subseteq Nat /\ hits \subseteq 1..n
  <2>1. PICK x \in T : TRUE
    OBVIOUS
  <2>2. turn(x) \in hits
    <3> HIDE DEF turn
    <3> QED BY <1>2, <2>1
  <2>3. hits \subseteq 1..n /\ 1..n \subseteq Nat
    OBVIOUS
  <2> QED BY <2>2, <2>3
<1>4. i \in hits /\ \A k \in hits : i <= k
  <2> QED BY <1>3, MinIs
<1>5. q \in T /\ i \in 1..n
  <2> HIDE DEF i
  <2> QED BY <1>4
<1>6. \A x \in T : turn(x) \in hits
  <2> HIDE DEF turn
  <2> QED BY <1>2
<1>7. \A x \in T : i <= turn(x)
  <2> HIDE DEF i, turn
  <2> QED BY <1>4, <1>6
<1> HIDE DEF i
<1>8. turn(q) = i
  <2>1. q = Around(n, p, dir, i)
    OBVIOUS
  <2> HIDE DEF q
  <2> QED BY <2>1, <1>5 DEF Around
<1>9. \A x \in T : turn(q) <= turn(x)
  BY <1>7, <1>8
<1> HIDE DEF q
<1>10. q \in 0..(n - 1) /\ \A x \in T : x \in 0..(n - 1)
  BY <1>5
<1>11. q \in these /\ \A x \in these : IF dir = Forward THEN q <= x ELSE x <= q
  <2>1. CASE ahead # {}
    <3>1. PICK a \in T : Beyond(dir, a, p)
      BY <2>1
    <3>2. IF dir = Forward THEN q > p ELSE q < p
      BY <3>1, <1>9, <1>10, <1>1 DEF Beyond
    <3>3. \A x \in T : (IF dir = Forward THEN x > p ELSE x < p) =>
              IF dir = Forward THEN q <= x ELSE x <= q
      BY <3>2, <1>9, <1>10, <1>1
    <3> QED BY <2>1, <3>2, <3>3, <1>5 DEF Beyond
  <2>2. CASE ahead = {}
    <3>1. \A x \in T : ~ (IF dir = Forward THEN x > p ELSE x < p)
      BY <2>2 DEF Beyond
    <3>2. \A x \in T : IF dir = Forward THEN q <= x ELSE x <= q
      BY <3>1, <1>5, <1>9, <1>10, <1>1
    <3> QED BY <2>2, <3>2, <1>5
  <2> QED BY <2>1, <2>2
<1>12. these \subseteq 0..n /\ these # {} /\ these \subseteq Nat
  <2>1. these \subseteq T
    OBVIOUS
  <2>2. these # {}
    BY <1>11
  <2>3. 0..(n - 1) \subseteq 0..n /\ 0..(n - 1) \subseteq Nat
    OBVIOUS
  <2> HIDE DEF turn
  <2> QED BY <2>1, <2>2, <2>3
<1> HIDE DEF turn
<1>13. dir = Forward => q = Min(these)
  <2>1. Min(these) \in these /\ \A x \in these : Min(these) <= x
    BY <1>12, MinIs
  <2> DEFINE m == Min(these)
  <2> SUFFICES ASSUME dir = Forward PROVE q = m
    OBVIOUS
  <2>2. q <= m
    BY <2>1, <1>11
  <2>3. m <= q
    BY <2>1, <1>11
  <2>4. m \in Nat /\ q \in Nat
    BY <2>1, <1>11, <1>12
  <2> HIDE DEF m
  <2> QED BY <2>2, <2>3, <2>4
<1>14. dir # Forward => q = Max(these)
  <2>1. Max(these) \in these /\ \A x \in these : x <= Max(these)
    BY <1>12, MaxIs
  <2> DEFINE m == Max(these)
  <2> SUFFICES ASSUME dir # Forward PROVE q = m
    OBVIOUS
  <2>2. m <= q
    BY <2>1, <1>11
  <2>3. q <= m
    BY <2>1, <1>11
  <2>4. m \in Nat /\ q \in Nat
    BY <2>1, <1>11, <1>12
  <2> HIDE DEF m
  <2> QED BY <2>2, <2>3, <2>4
<1> QED BY <1>3, <1>13, <1>14 DEF q, i

(* What a search finds is the nearest occurrence.                          *)
LEMMA FindsNearest ==
    ASSUME NEW C, NEW t \in Seq(C), NEW p \in Nat, p < Len(t), 2 * Len(t) <= MAXINT,
           NEW k \in Seeks(C)
    PROVE  Nearest(t, p, Pattern(k), k.dir) =
               IF SearchFrom(t, p, k) >= 0 THEN SearchFrom(t, p, k) ELSE p
<1> DEFINE s == Pattern(k)
           dir == k.dir
           n == Len(t)
           T == Occurrences(t, s)
           found == {i \in 1..n : Matches(t, Candidate(t, p, dir, i), s)}
           hits  == {i \in 1..n : Around(n, p, dir, i) \in T}
           ahead == {x \in T : Beyond(dir, x, p)}
           these == IF ahead # {} THEN ahead ELSE T
           least == Min(these)
           most  == Max(these)
<1>1. dir \in {Forward, Backward} /\ s \in Seq(C)
  BY PatternIs DEF Seeks
<1>2. n \in Nat /\ p \in 0..(n - 1)
  OBVIOUS
<1>3. SearchFrom(t, p, k) = IF s = << >> \/ found = {} THEN -1 ELSE Candidate(t, p, dir, Min(found))
  BY DEF SearchFrom
<1>4. Nearest(t, p, s, dir) = IF s = << >> \/ T = {} THEN p ELSE IF dir = Forward THEN least ELSE most
  BY DEF Nearest, Beyond
<1> HIDE DEF s, dir
<1>5. CASE s = << >>
  BY <1>2, <1>3, <1>4, <1>5 DEF s, dir
<1>6. ASSUME s # << >> PROVE found = hits
  <2>1. ASSUME NEW i \in 1..n
        PROVE  Matches(t, Candidate(t, p, dir, i), s) <=> Around(n, p, dir, i) \in T
    <3>1. Candidate(t, p, dir, i) = Around(n, p, dir, i)
      BY <1>1, CandidateAround
    <3>2. Around(n, p, dir, i) \in 0..(n - 1)
      <4> HIDE DEF n
      <4> QED BY <1>1, <1>2 DEF Around, Forward, Backward
    <3> QED BY <3>1, <3>2, <1>1, <1>6, MatchesIs
  <2> HIDE DEF T
  <2> QED BY <2>1
<1>7. T \subseteq 0..(n - 1) \/ s = << >>
  <2> SUFFICES ASSUME s # << >> PROVE T \subseteq 0..(n - 1)
    OBVIOUS
  <2>1. T \subseteq 0..(n - Len(s))
    BY DEF Occurrences
  <2>2. Len(s) \in Nat /\ Len(s) > 0
    BY <1>1, EmptySeq
  <2> HIDE DEF T, n
  <2> QED BY <2>1, <2>2, <1>2
<1>8. CASE s # << >> /\ T = {}
  <2>1. hits = {}
    BY <1>8
  <2>2. found = {}
    BY <2>1, <1>6, <1>8
  <2> HIDE DEF found, T
  <2> QED BY <2>2, <1>2, <1>3, <1>4, <1>8 DEF s, dir
<1>9. CASE s # << >> /\ T # {}
  <2> DEFINE c == Around(n, p, dir, Min(hits))
  <2>1. hits # {} /\ hits \subseteq Nat /\ c = IF dir = Forward THEN least ELSE most
    <3> HIDE DEF T, n
    <3>1. T \subseteq 0..(n - 1) /\ T # {}
      BY <1>7, <1>9
    <3>2. /\ \A i : i \in hits <=> i \in 1..n /\ Around(n, p, dir, i) \in T
          /\ \A x : x \in ahead <=> x \in T /\ Beyond(dir, x, p)
          /\ these = IF ahead # {} THEN ahead ELSE T
      OBVIOUS
    <3> HIDE DEF these, hits, ahead
    <3>5. Sought(n, p, dir, T, hits, ahead, these)
      BY <3>1, <3>2, <1>1, <1>2 DEF Sought
    <3> HIDE DEF hits, ahead, these
    <3>3. Around(n, p, dir, Min(hits)) = IF dir = Forward THEN Min(these) ELSE Max(these)
      BY <3>5, FirstAround
    <3>4. hits # {} /\ hits \subseteq Nat
      BY <3>5, FirstAround
    <3> QED BY <3>3, <3>4
  <2>2. Min(hits) \in hits
    <3> HIDE DEF hits
    <3> QED BY <2>1, MinIs
  <2>3. Min(hits) \in 1..n /\ c \in T
    BY <2>2
  <2>4. Candidate(t, p, dir, Min(hits)) = c
    BY <2>3, <1>1, CandidateAround
  <2>5. SearchFrom(t, p, k) = c
    <3> HIDE DEF hits, found, c, n
    <3> QED BY <2>1, <2>4, <1>3, <1>6, <1>9
  <2>6. c >= 0
    <3> HIDE DEF c, T, n
    <3> QED BY <2>3, <1>2, <1>7, <1>9
  <2>7. Nearest(t, p, s, dir) = c
    <3> HIDE DEF c, T, least, most
    <3> QED BY <2>1, <1>4, <1>9
  <2> HIDE DEF c
  <2> QED BY <2>5, <2>6, <2>7 DEF s, dir
<1> QED BY <1>5, <1>8, <1>9

(* So the cursor goes there.                                               *)
LEMMA FoundNearest ==
    ASSUME NEW C, NEW e \in Editing(C), NEW k \in Seeks(C), e.cur_pos < Len(e.text),
           2 * Len(e.text) <= MAXINT
    PROVE  Found(e, k).cur_pos = Nearest(e.text, e.cur_pos, Pattern(k), k.dir)
<1> DEFINE q == SearchFrom(e.text, e.cur_pos, k)
<1>1. e.text \in Seq(C) /\ e.cur_pos \in Nat
  BY EditorHas DEF Texts
<1>2. Nearest(e.text, e.cur_pos, Pattern(k), k.dir) = IF q >= 0 THEN q ELSE e.cur_pos
  BY <1>1, FindsNearest
<1>3. Found(e, k) = IF q >= 0 THEN [e EXCEPT !.cur_pos = q, !.cur_vrow = -1] ELSE e
  BY DEF Found
<1> HIDE DEF q
<1>4. [e EXCEPT !.cur_pos = q, !.cur_vrow = -1].cur_pos = q
  BY DEF Editing, Editors
<1> QED BY <1>2, <1>3, <1>4

(* The pattern that was typed is the one in the array, whatever was there. *)
LEMMA PatternSpelled ==
    ASSUME NEW C, NEW g \in Seeks(C), NEW s \in Seq(C), Len(s) < SearchMax,
           Nul \notin Range(s), NEW n \in 0..Len(s)
    PROVE  Pattern(Spelled(g, s, n, TRUE)) = First(s, n)
<1> DEFINE h == Spelled(g, s, n, TRUE)
           a == h.pat
           N == {i \in DOMAIN a : a[i] = Nul}
           b == g.pat
<1>1. b \in [1..SearchMax -> C]
  BY DEF Seeks
<1>2. h = [g EXCEPT !.pat = [i \in DOMAIN b |-> IF i = n + 1 THEN Nul ELSE IF i <= Len(s) THEN s[i] ELSE b[i]]]
  BY DEF Spelled
<1> HIDE DEF b, h
<1>3. a = [i \in 1..SearchMax |-> IF i = n + 1 THEN Nul ELSE IF i <= Len(s) THEN s[i] ELSE b[i]]
  BY <1>1, <1>2 DEF Seeks
<1>4. SearchMax \in Nat \ {0} /\ Len(s) \in Nat /\ n \in Nat /\ n <= Len(s)
  BY SearchAssumption
<1>5. Pattern(h) = First(a, Min(N) - 1)
  BY DEF Pattern
<1> HIDE DEF a
<1>6. n + 1 \in N /\ N \subseteq 1..SearchMax
  <2>1. n + 1 \in 1..SearchMax
    BY <1>4
  <2>2. a[n + 1] = Nul
    BY <1>3, <2>1
  <2> QED BY <2>1, <2>2, <1>3
<1>7. \A i \in 1..n : a[i] = s[i] /\ a[i] # Nul
  <2> TAKE i \in 1..n
  <2>1. i \in 1..SearchMax /\ i # n + 1 /\ i <= Len(s) /\ i \in DOMAIN s
    BY <1>4
  <2>2. a[i] = s[i]
    BY <2>1, <1>3
  <2>3. s[i] \in Range(s)
    BY <2>1 DEF Range
  <2> QED BY <2>2, <2>3
<1>8. \A i \in N : i \notin 1..n
  BY <1>7
<1> HIDE DEF N
<1>9. Min(N) = n + 1
  <2>1. N \subseteq Nat /\ N # {}
    BY <1>4, <1>6
  <2>2. Min(N) \in N /\ \A i \in N : Min(N) <= i
    BY <2>1, MinIs
  <2>3. Min(N) <= n + 1 /\ Min(N) \in 1..SearchMax /\ Min(N) \notin 1..n
    BY <2>2, <1>6, <1>8
  <2> QED BY <2>3, <1>4
<1>10. Min(N) - 1 = n
  BY <1>4, <1>9
<1>11. First(a, n) = First(s, n)
  <2>1. Len(a) = SearchMax /\ DOMAIN a = 1..SearchMax
    BY <1>3, <1>4
  <2>2. Min({n, Len(a)}) = n /\ Min({n, Len(s)}) = n
    BY <1>4, <2>1, OfTwo
  <2>3. First(a, n) = SubSeq(a, 1, n) /\ First(s, n) = SubSeq(s, 1, n)
    BY <2>2 DEF First
  <2>4. SubSeq(a, 1, n) = [i \in 1..n |-> a[i]] /\ SubSeq(s, 1, n) = [i \in 1..n |-> s[i]]
    BY <1>4
  <2> QED BY <2>3, <2>4, <1>7
<1> QED BY <1>5, <1>10, <1>11 DEF h

\* A search has not been given up: what the editor looks for is what was asked.
AsAsked == ~Uses({"ESC"}) => Pattern(seek) = asked.pattern /\ seek.dir = asked.dir

(* Finding a character has nothing to do with it.                          *)
LEMMA PatternKept ==
    ASSUME NEW C, NEW k \in Seeks(C), NEW x, NEW w
    PROVE  /\ Pattern([k EXCEPT !.ch = x, !.way = w]) = Pattern(k)
           /\ [k EXCEPT !.ch = x, !.way = w].dir = k.dir
<1> DEFINE h == [k EXCEPT !.ch = x, !.way = w]
<1>1. h.pat = k.pat /\ h.dir = k.dir
  BY DEF Seeks
<1> HIDE DEF h
<1>2. Pattern(h) = Pattern(k)
  BY <1>1 DEF Pattern
<1> QED BY <1>1, <1>2 DEF h

(* Nothing is looked for at first.                                         *)
LEMMA AskedInit ==
    ASSUME Init PROVE AsAsked
<1> DEFINE a == Unsought.pat
           N == {i \in DOMAIN a : a[i] = Nul}
<1>1. SearchMax \in Nat \ {0} /\ DOMAIN a = 1..SearchMax /\ \A i \in 1..SearchMax : a[i] = Nul
  BY SearchAssumption DEF Unsought
<1>2. Pattern(Unsought) = First(a, Min(N) - 1)
  BY DEF Pattern
<1> HIDE DEF a
<1>3. N = 1..SearchMax
  BY <1>1
<1> HIDE DEF N
<1>4. Min(N) = 1
  <2>1. N \subseteq Nat /\ 1 \in N
    BY <1>1, <1>3
  <2>2. Min(N) \in N /\ Min(N) <= 1
    BY <2>1, MinIs
  <2> QED BY <2>2, <1>1, <1>3
<1>5. Pattern(Unsought) = << >>
  <2>1. Min(N) - 1 = 0
    BY <1>4
  <2>2. a \in Seq({Nul})
    <3>1. a = [i \in 1..SearchMax |-> Nul]
      BY DEF a, Unsought
    <3> QED BY <3>1, <1>1, SeqDef
  <2>3. First(a, 0) = << >>
    <3>1. Len(a) \in Nat
      BY <2>2
    <3>2. Min({0, Len(a)}) = 0
      BY <3>1, OfTwo
    <3> QED BY <3>2, <2>2 DEF First
  <2> QED BY <1>2, <2>1, <2>3
<1>6. seek = Unsought /\ asked = Unasked
  BY DEF Init
<1> QED BY <1>5, <1>6 DEF AsAsked, Unsought, Unasked

(* A pattern completed is looked for from then on.                         *)
LEMMA AskedFor ==
    ASSUME IInv, NEW c \in {"/", "?"}, NEW s \in Users[user].patterns, NEW n \in 0..Len(s),
           SearchFor(c, s, n)
    PROVE  Pattern(seek') = asked'.pattern /\ seek'.dir = asked'.dir
<1> DEFINE C == Characters(user)
           d == IF c = "/" THEN Forward ELSE Backward
           k == Spelled([seek EXCEPT !.dir = d], s, n, TRUE)
<1>1. seek \in Seeks(C) /\ AlphabetOK(C) /\ s \in Seq(C) /\ Nul \notin Range(s)
  BY UserAlphabet, UserTexts, UsersAssumption DEF IInv
<1>2. Len(s) < SearchMax /\ seek' = k /\ asked' = [pattern |-> First(s, n), dir |-> k.dir]
  BY DEF SearchFor
<1>3. d \in {Forward, Backward}
  OBVIOUS
<1> HIDE DEF C, d
<1>4. Pattern(k) = First(s, n)
  <2> DEFINE g == [seek EXCEPT !.dir = d]
  <2>1. g \in Seeks(C)
    BY <1>1, <1>3 DEF Seeks
  <2> HIDE DEF g
  <2>2. Pattern(Spelled(g, s, n, TRUE)) = First(s, n)
    BY <1>1, <1>2, <2>1, PatternSpelled
  <2> QED BY <2>2 DEF g
<1> QED BY <1>2, <1>4

(* So it stays.                                                            *)
LEMMA AskedNext ==
    ASSUME IInv, AsAsked, Next PROVE AsAsked'
<1>1. user' = user
  <2>1. \A g : Takes(g) => user' = user
    BY DEF Takes
  <2>2. \A g : Step(g) \/ Does(g) \/ Searches(g) => user' = user
    BY <2>1 DEF Step, Does, Searches
  <2> QED BY <2>2 DEF Next, Operate, ToggleCase, JoinLines, Move, FindChar, ReplaceChar, Put,
                      Undo, Write, Dot, EnterInsert, Press, Glide, LeaveInsert,
                      AbandonSearch, SearchFor, SearchAgain
<1>2. CASE seek' = seek /\ asked' = asked
  BY <1>1, <1>2 DEF AsAsked, Uses
<1>3. ASSUME NEW n \in Users[user].counts, NEW c \in {"f", "F", ";", ","}, NEW x \in Users[user].typed,
             FindChar(c, x, n)
      PROVE  AsAsked'
  <2>1. seek \in Seeks(Characters(user))
    BY DEF IInv
  <2>2. asked' = asked /\ (seek' = seek \/ \E w : seek' = [seek EXCEPT !.ch = x, !.way = w])
    BY <1>3 DEF FindChar
  <2>3. Pattern(seek') = Pattern(seek) /\ seek'.dir = seek.dir
    <3>1. CASE seek' = seek
      BY <3>1
    <3>2. CASE seek' # seek
      <4>1. PICK w : seek' = [seek EXCEPT !.ch = x, !.way = w]
        BY <2>2, <3>2
      <4>2. /\ Pattern([seek EXCEPT !.ch = x, !.way = w]) = Pattern(seek)
            /\ [seek EXCEPT !.ch = x, !.way = w].dir = seek.dir
        BY <2>1, PatternKept
      <4> QED BY <4>1, <4>2
    <3> QED BY <3>1, <3>2
  <2> QED BY <1>1, <2>2, <2>3 DEF AsAsked, Uses
<1>4. ASSUME NEW c \in {"/", "?"}, NEW s \in Users[user].patterns, AbandonSearch(c, s)
      PROVE  AsAsked'
  <2>1. Uses({"ESC"})
    BY <1>4 DEF AbandonSearch, Gets, Uses
  <2> QED BY <1>1, <2>1 DEF AsAsked, Uses
<1>5. ASSUME NEW c \in {"/", "?"}, NEW s \in Users[user].patterns, NEW n \in 0..Len(s),
             SearchFor(c, s, n)
      PROVE  AsAsked'
  BY <1>5, AskedFor DEF AsAsked
<1>6. \/ seek' = seek /\ asked' = asked
      \/ \E n \in Users[user].counts, c \in {"f", "F", ";", ","}, x \in Users[user].typed : FindChar(c, x, n)
      \/ \E c \in {"/", "?"}, s \in Users[user].patterns :
            AbandonSearch(c, s) \/ \E n \in 0..Len(s) : SearchFor(c, s, n)
  BY DEF Next, Operate, ToggleCase, JoinLines, Move, ReplaceChar, Put, Undo, Write, Dot,
         EnterInsert, Press, Glide, LeaveInsert, SearchAgain, Does, Step
<1> QED BY <1>2, <1>3, <1>4, <1>5, <1>6

(* Where a search takes the cursor.                                        *)
LEMMA FoundThere ==
    ASSUME IInv, ed.cur_pos < Len(ed.text), 2 * Len(ed.text) <= MAXINT,
           NEW k \in Seeks(Characters(user)), Takes(Found(ed, k))
    PROVE  ed'.cur_pos = Nearest(ed.text, ed.cur_pos, Pattern(k), k.dir)
<1> DEFINE C == Characters(user)
           K == Users[user].keys
           g == Found(ed, k)
<1>1. Fine(C, K, ed) /\ ed \in Editing(C)
  BY DEF IInv, Fine
<1>2. g.cur_pos = Nearest(ed.text, ed.cur_pos, Pattern(k), k.dir)
  BY <1>1, FoundNearest
<1>3. ed.cur_pos <= Len(ed.text) /\ ed' \in {g, Counted(g)}
  BY DEF Takes
<1> HIDE DEF C, K
<1>4. g = ed \/ Moved(C, ed, g)
  BY <1>1, FoundIs DEF C
<1> HIDE DEF g
<1>5. Fine(C, K, g)
  BY <1>1, <1>3, <1>4, FineMoved
<1>6. Counted(g).cur_pos = g.cur_pos
  BY <1>5, FineCounted
<1> QED BY <1>2, <1>3, <1>6

(* A search goes to the nearest occurrence of what the user asked for last *)
(* (do_search_from, read_pattern), whatever was looked for, or changed,    *)
(* before; for the texts, cursors and users SearchFindsNext names.         *)
THEOREM EditCommandsSearch == Spec => SearchFindsNext
<1>1. Init => IInv /\ AsAsked
  BY IInvInit, AskedInit
<1>2. IInv /\ AsAsked /\ [Next]_vars => (IInv /\ AsAsked)'
  <2>1. IInv /\ AsAsked /\ UNCHANGED vars => AsAsked'
    BY DEF AsAsked, Uses, vars
  <2> QED BY <2>1, IInvNext, IInvSame, AskedNext
<1>3. ASSUME IInv, AsAsked, ed.cur_pos < Len(ed.text), 2 * Len(ed.text) <= MAXINT, ~Uses({"ESC"})
      PROVE  /\ \A c \in {"/", "?"}, s \in Users[user].patterns, n \in 1..SearchMax :
                    SearchFor(c, s, n) =>
                        ed'.cur_pos = Nearest(ed.text, ed.cur_pos, asked'.pattern, asked'.dir)
             /\ SearchAgain("n") =>
                    ed'.cur_pos = Nearest(ed.text, ed.cur_pos, asked.pattern, asked.dir)
             /\ SearchAgain("N") =>
                    ed'.cur_pos = Nearest(ed.text, ed.cur_pos, asked.pattern, -asked.dir)
  <2>1. seek \in Seeks(Characters(user)) /\ Pattern(seek) = asked.pattern /\ seek.dir = asked.dir
    BY <1>3 DEF IInv, AsAsked
  <2>2. ASSUME NEW c \in {"/", "?"}, NEW s \in Users[user].patterns, NEW n \in 1..SearchMax,
               SearchFor(c, s, n)
        PROVE  ed'.cur_pos = Nearest(ed.text, ed.cur_pos, asked'.pattern, asked'.dir)
    <3> DEFINE d == IF c = "/" THEN Forward ELSE Backward
               k == Spelled([seek EXCEPT !.dir = d], s, n, TRUE)
    <3>1. /\ Takes(IF n > 0 THEN Found(ed, k) ELSE ed) /\ seek' = k
          /\ n <= Len(s) /\ Len(s) < SearchMax
      BY <2>2 DEF SearchFor, Searches
    <3>2. n > 0 /\ n \in 0..Len(s)
      <4>1. s \in Seq(Characters(user))
        BY <1>3, UserTexts DEF IInv
      <4> QED BY <3>1, <4>1
    <3>3. Takes(Found(ed, k))
      BY <3>1, <3>2
    <3>4. Pattern(seek') = asked'.pattern /\ seek'.dir = asked'.dir
      BY <1>3, <2>2, <3>2, AskedFor
    <3>5. k \in Seeks(Characters(user))
      <4>1. s \in Seq(Characters(user)) /\ AlphabetOK(Characters(user)) /\ d \in {Forward, Backward}
        BY <1>3, UserTexts, UserAlphabet DEF IInv
      <4>2. n \in Nat /\ n <= Len(s)
        BY <3>1
      <4> HIDE DEF d
      <4> QED BY <2>1, <3>1, <4>1, <4>2, SpelledIs
    <3> HIDE DEF k
    <3> QED BY <1>3, <3>1, <3>3, <3>4, <3>5, FoundThere
  <2>3. ASSUME SearchAgain("n")
        PROVE  ed'.cur_pos = Nearest(ed.text, ed.cur_pos, asked.pattern, asked.dir)
    <3>1. Takes(Found(ed, seek))
      BY <2>3 DEF SearchAgain, Searches
    <3> QED BY <1>3, <2>1, <3>1, FoundThere
  <2>4. ASSUME SearchAgain("N")
        PROVE  ed'.cur_pos = Nearest(ed.text, ed.cur_pos, asked.pattern, -asked.dir)
    <3> DEFINE d == -seek.dir
               k == [seek EXCEPT !.dir = d]
    <3>1. Takes(Found(ed, k))
      BY <2>4 DEF SearchAgain, Searches
    <3>2. d \in {Forward, Backward}
      BY <2>1 DEF Seeks, Forward, Backward
    <3>3. d = -asked.dir
      BY <2>1
    <3> HIDE DEF d
    <3>4. k \in Seeks(Characters(user)) /\ k.dir = d /\ k.pat = seek.pat
      BY <2>1, <3>2 DEF Seeks
    <3> HIDE DEF k
    <3>5. Pattern(k) = asked.pattern
      BY <2>1, <3>4 DEF Pattern
    <3> QED BY <1>3, <3>1, <3>3, <3>4, <3>5, FoundThere
  <2> QED BY <2>2, <2>3, <2>4
<1>4. IInv /\ AsAsked /\ [Next]_vars =>
        [( /\ ed.cur_pos < Len(ed.text) /\ 2 * Len(ed.text) <= MAXINT
           /\ ~Uses({"ESC"}) ) =>
           /\ \A c \in {"/", "?"}, s \in Users[user].patterns, n \in 1..SearchMax :
                  SearchFor(c, s, n) =>
                      ed'.cur_pos = Nearest(ed.text, ed.cur_pos, asked'.pattern, asked'.dir)
           /\ SearchAgain("n") => ed'.cur_pos = Nearest(ed.text, ed.cur_pos, asked.pattern, asked.dir)
           /\ SearchAgain("N") => ed'.cur_pos = Nearest(ed.text, ed.cur_pos, asked.pattern, -asked.dir)]_vars
  BY <1>3
<1> QED BY <1>1, <1>2, <1>4, PTL DEF Spec, SearchFindsNext

-----------------------------------------------------------------------------
(* One line.                                                               *)

(* No newline stands from the beginning of the position's line to the      *)
(* position, nor from there to the end of the line.                        *)
LEMMA OnTheLine ==
    ASSUME NEW C, NEW t \in Seq(C), NEW p \in 0..Len(t)
    PROVE  /\ Bol(t, p) \in 0..p /\ \A q \in Bol(t, p)..(p - 1) : At(t, q) # NL
           /\ Bol(t, p) # 0 => At(t, Bol(t, p) - 1) = NL
           /\ Eol(t, p) \in p..Len(t) /\ \A q \in p..(Eol(t, p) - 1) : At(t, q) # NL
           /\ Eol(t, p) # Len(t) => At(t, Eol(t, p)) = NL
<1> DEFINE n == Len(t)
           B == {0} \cup {q \in 1..p : At(t, q - 1) = NL}
           E == {n} \cup {q \in p..(n - 1) : At(t, q) = NL}
           b == Max(B)
           e == Min(E)
<1>1. n \in Nat /\ p \in Nat /\ p <= n
  OBVIOUS
<1>2. b \in B /\ \A k \in B : k <= b
  <2>1. B \subseteq 0..p /\ B # {}
    OBVIOUS
  <2> HIDE DEF B
  <2> QED BY <1>1, <2>1, MaxIs
<1>3. e \in E /\ \A k \in E : e <= k
  <2>1. E \subseteq Nat /\ E # {}
    BY <1>1
  <2> HIDE DEF E
  <2> QED BY <2>1, MinIs
<1>4. Bol(t, p) = b /\ Eol(t, p) = e
  BY DEF Bol, Eol
<1> HIDE DEF b, e, n
<1>5. b \in 0..p /\ (b # 0 => At(t, b - 1) = NL)
  BY <1>1, <1>2
<1>6. e \in p..n /\ (e # n => At(t, e) = NL)
  BY <1>1, <1>3
<1>7. ASSUME NEW q \in b..(p - 1) PROVE At(t, q) # NL
  <2>1. q + 1 \in 1..p /\ (q + 1) - 1 = q /\ ~ (q + 1 <= b)
    BY <1>1, <1>5
  <2>2. q + 1 \notin B
    BY <1>2, <2>1
  <2> QED BY <2>1, <2>2
<1>8. ASSUME NEW q \in p..(e - 1) PROVE At(t, q) # NL
  <2>1. q \in p..(n - 1) /\ ~ (e <= q)
    BY <1>1, <1>6
  <2>2. q \notin E
    BY <1>3, <2>1
  <2> QED BY <2>1, <2>2
<1> QED BY <1>4, <1>5, <1>6, <1>7, <1>8 DEF n

(* Behind a newline begins the line with the number of that place.         *)
LEMMA StartsBehind ==
    ASSUME NEW C, NEW t \in Seq(C), NEW b \in 1..Len(t), At(t, b - 1) = NL
    PROVE  LineOf(t, b) # 0 /\ LineStart(t, LineOf(t, b)) = b
<1> DEFINE n == Len(t)
           l == LineOf(t, b)
           k == LineOf(t, b - 1)
           S == {n} \cup {q \in 1..n : LineOf(t, q) = l}
           m == Min(S)
<1>1. n \in Nat /\ b \in Nat /\ b - 1 \in Nat /\ (b - 1) + 1 = b /\ b <= n
  OBVIOUS
<1>2. k \in Nat /\ l = k + 1
  <2>1. k \in Nat
    BY <1>1, LineOfIs
  <2> DEFINE c == b - 1
  <2>2. c \in Nat /\ c + 1 = b /\ c <= c /\ At(t, c) = NL
    BY <1>1
  <2> HIDE DEF c
  <2>3. LineOf(t, c + 1) = LineOf(t, c) + 1
    BY <2>2, LineOfGrows
  <2> QED BY <2>1, <2>2, <2>3 DEF c
<1>3. ASSUME NEW q \in 1..(b - 1) PROVE LineOf(t, q) # l
  <2>1. q \in Nat /\ b - 1 \in Nat /\ q <= b - 1
    BY <1>1
  <2>2. LineOf(t, q) <= k
    BY <2>1, LineOfGrows
  <2>3. LineOf(t, q) \in Nat
    BY <2>1, LineOfIs
  <2> HIDE DEF k, l
  <2> QED BY <1>2, <2>2, <2>3
<1>4. b \in S
  BY <1>1
<1>5. S \subseteq Nat /\ \A q \in S : b <= q
  <2> HIDE DEF l
  <2> QED BY <1>1, <1>3
<1>6. m \in S /\ \A q \in S : m <= q
  <2> HIDE DEF S
  <2> QED BY <1>4, <1>5, MinIs
<1>7. m = b
  <2> HIDE DEF S, m
  <2> QED BY <1>1, <1>4, <1>5, <1>6
<1>8. ~ (l <= 0)
  <2> HIDE DEF l, k
  <2> QED BY <1>2
<1>9. LineStart(t, l) = m
  BY <1>8 DEF LineStart
<1> HIDE DEF m, l
<1>10. l # 0 /\ LineStart(t, l) = b
  BY <1>7, <1>8, <1>9
<1> QED BY <1>10 DEF l

(* A line there is not begins at the end.                                  *)
LEMMA StartsNowhere ==
    ASSUME NEW C, NEW t \in Seq(C), NEW l \in Nat, l > LineOf(t, Len(t))
    PROVE  LineStart(t, l) = Len(t)
<1> DEFINE n == Len(t)
           S == {n} \cup {q \in 1..n : LineOf(t, q) = l}
<1>1. n \in Nat
  OBVIOUS
<1>2. ASSUME NEW q \in 1..n PROVE LineOf(t, q) # l
  <2>1. q \in Nat /\ n \in Nat /\ q <= n
    BY <1>1
  <2>2. LineOf(t, q) <= LineOf(t, n) /\ LineOf(t, q) \in Nat /\ LineOf(t, n) \in Nat
    BY <2>1, LineOfGrows, LineOfIs
  <2> DEFINE a == LineOf(t, q)
             c == LineOf(t, n)
  <2>3. a <= c /\ a \in Nat /\ c \in Nat /\ l > c
    BY <2>2
  <2> HIDE DEF a, c
  <2>4. a # l
    BY <2>3
  <2> QED BY <2>4 DEF a
<1>3. S = {n}
  BY <1>2
<1>4. Min(S) = n
  <2>1. S \subseteq Nat /\ S # {}
    BY <1>1, <1>3
  <2> HIDE DEF S
  <2>2. Min(S) \in S
    BY <2>1, MinIs
  <2> QED BY <2>2, <1>3
<1>5. ~ (l <= 0)
  <2>1. LineOf(t, n) \in Nat
    BY <1>1, LineOfIs
  <2> DEFINE c == LineOf(t, n)
  <2>2. c \in Nat /\ l > c
    BY <2>1
  <2> HIDE DEF c
  <2> QED BY <2>2
<1> QED BY <1>4, <1>5 DEF LineStart

(* The line of a position begins where Bol says.                           *)
LEMMA LineStartHere ==
    ASSUME NEW C, NEW t \in Seq(C), NEW p \in 0..Len(t)
    PROVE  LineStart(t, LineOf(t, p)) = Bol(t, p)
<1> DEFINE b == Bol(t, p)
<1>1. /\ b \in 0..p /\ (\A q \in b..(p - 1) : At(t, q) # NL)
      /\ (b # 0 => At(t, b - 1) = NL) /\ p \in Nat /\ p <= Len(t) /\ Len(t) \in Nat
  BY OnTheLine
<1> HIDE DEF b
<1>2. LineOf(t, b) = LineOf(t, p)
  BY <1>1, LineOfGrows
<1>3. CASE b = 0
  <2>1. LineOf(t, 0) = 0
    <3>1. Breaks(t, 0, 0) = {}
      BY DEF Breaks
    <3>2. 0 \in Int
      OBVIOUS
    <3>3. LineOf(t, 0) = Cardinality(Breaks(t, 0, 0))
      BY ONLY <3>2, LineOfIs
    <3> QED BY <3>1, <3>3, FS_EmptySet
  <2> QED BY <1>2, <1>3, <2>1 DEF LineStart, b
<1>4. CASE b # 0
  <2>1. b \in 1..Len(t)
    BY <1>1, <1>4
  <2> QED BY <1>1, <1>2, <1>4, <2>1, StartsBehind DEF b
<1> QED BY <1>3, <1>4

(* The next line begins behind its end.                                    *)
LEMMA LineStartNext ==
    ASSUME NEW C, NEW t \in Seq(C), NEW p \in 0..Len(t)
    PROVE  /\ LineStart(t, LineOf(t, p) + 1) = IF Eol(t, p) < Len(t) THEN Eol(t, p) + 1 ELSE Len(t)
           /\ Eol(t, p) < Len(t) => LineOf(t, Eol(t, p) + 1) = LineOf(t, p) + 1
<1> DEFINE n == Len(t)
           e == Eol(t, p)
           l == LineOf(t, p)
<1>1. /\ e \in p..n /\ (\A q \in p..(e - 1) : At(t, q) # NL)
      /\ (e # n => At(t, e) = NL) /\ p \in Nat /\ n \in Nat
  BY OnTheLine
<1> HIDE DEF e, n
<1>2. e \in Nat /\ p <= e /\ e <= n
  BY <1>1
<1>3. LineOf(t, e) = l /\ l \in Nat
  BY <1>1, <1>2, LineOfGrows, LineOfIs
<1>4. CASE e < n
  <2> DEFINE b == e + 1
  <2>1. b \in Nat /\ b \in 1..n /\ b - 1 = e /\ At(t, e) = NL
    BY <1>1, <1>2, <1>4
  <2>2. LineOf(t, b) = l + 1
    BY <1>2, <1>3, <2>1, LineOfGrows
  <2> HIDE DEF b
  <2>3. LineStart(t, LineOf(t, b)) = b
    BY <2>1, StartsBehind DEF n
  <2> QED BY <1>4, <2>2, <2>3 DEF b, e, n
<1>5. CASE ~ (e < n)
  <2>1. e = n
    BY <1>1, <1>2, <1>5
  <2> HIDE DEF l
  <2>2. l + 1 \in Nat /\ l + 1 > LineOf(t, n)
    BY <1>3, <2>1
  <2> DEFINE k == l + 1
  <2> HIDE DEF k
  <2>3. LineStart(t, k) = n
    BY <2>2, StartsNowhere DEF n, k
  <2> QED BY <1>5, <2>3 DEF e, n, l, k
<1> QED BY <1>4, <1>5
(* One line more, but no line behind the last: what is left from there is  *)
(* what is left behind the line's newline.                                 *)
LEMMA BehindTheLine ==
    ASSUME NEW C, NEW t \in Seq(C), NEW p \in 0..Len(t), Ended(t),
           NEW c \in Int, c >= Newlines(t),
           NEW z, z = Min({LineOf(t, p) + 1 - 1, c - 1}),
           NEW y, y = IF z + 1 < c THEN LineStart(t, z + 1) ELSE Len(t)
    PROVE  y \in p..Len(t) /\ From(t, y) = From(t, Eol(t, p) + 1)
<1> DEFINE n == Len(t)
           e == Eol(t, p)
           l == LineOf(t, p)
           m == LineOf(t, n)
<1>1. n \in Nat /\ p \in Nat /\ p <= n /\ e \in p..n /\ l \in Nat /\ m \in Nat
  BY OnTheLine, LineOfIs
<1>2. LineStart(t, l + 1) = (IF e < n THEN e + 1 ELSE n) /\ (e < n => LineOf(t, e + 1) = l + 1)
  BY LineStartNext
<1>3. c >= m
  BY NewlinesAre
<1>4. z = IF l <= c - 1 THEN l ELSE c - 1
  <2> DEFINE v == l + 1 - 1
             w == c - 1
  <2>1. v \in Int /\ w \in Int /\ v = l
    BY <1>1
  <2>2. z = Min({v, w})
    OBVIOUS
  <2> HIDE DEF v, w
  <2>3. z = IF v <= w THEN v ELSE w
    BY <2>1, <2>2, OfTwo
  <2> QED BY <2>1, <2>3 DEF w
<1>5. n # 0 => At(t, n - 1) = NL
  <2> SUFFICES ASSUME n # 0 PROVE At(t, n - 1) = NL
    OBVIOUS
  <2>1. Last(t) = NL
    <3>1. t # << >>
      OBVIOUS
    <3> QED BY <3>1 DEF Ended
  <2>2. Last(t) = t[n]
    BY DEF Last
  <2>3. At(t, n - 1) = t[(n - 1) + 1] /\ (n - 1) + 1 = n
    BY <1>1 DEF At
  <2> QED BY <2>1, <2>2, <2>3
<1>6. CASE e < n
  <2>1. e + 1 \in Nat /\ e + 1 <= n /\ p <= e + 1 /\ e \in Nat
    BY <1>1, <1>6
  <2>2. l + 1 <= m
    <3>1. LineOf(t, e + 1) <= LineOf(t, n)
      BY <1>1, <2>1, LineOfGrows
    <3> QED BY <1>2, <1>6, <3>1
  <2>3. z = l
    <3> HIDE DEF l, m
    <3> QED BY <1>1, <1>3, <1>4, <2>2
  <2>4. CASE z + 1 < c
    <3>1. y = e + 1
      BY <1>2, <1>6, <2>3, <2>4
    <3>2. y \in p..n
      <4> HIDE DEF e, n
      <4> QED BY <1>1, <2>1, <3>1
    <3> QED BY <3>1, <3>2
  <2>5. CASE ~ (z + 1 < c)
    <3>1. y = n
      BY <2>5
    <3>2. m = l + 1
      <4> HIDE DEF l, m
      <4> QED BY <1>1, <1>3, <2>2, <2>3, <2>5
    <3>3. n # 0 /\ n - 1 \in Nat /\ (n - 1) + 1 = n
      <4> HIDE DEF n, e
      <4> QED BY <1>1, <2>1
    <3>4. m = LineOf(t, n - 1) + 1
      <4> DEFINE k == n - 1
      <4>1. k \in Nat /\ k + 1 = n /\ At(t, k) = NL /\ k <= k
        BY <3>3, <1>5
      <4> HIDE DEF k
      <4>2. LineOf(t, k + 1) = LineOf(t, k) + 1
        BY <4>1, LineOfGrows
      <4> QED BY <4>1, <4>2 DEF k
    <3>5. LineOf(t, n - 1) = l
      <4> DEFINE k == LineOf(t, n - 1)
      <4>1. k \in Nat
        BY <3>3, LineOfIs
      <4> HIDE DEF k, l, m
      <4>2. k = l
        BY <1>1, <3>2, <3>4, <4>1 DEF k
      <4> QED BY <4>2 DEF k
    <3>6. e + 1 = n
      <4> SUFFICES ASSUME e + 1 # n PROVE FALSE
        OBVIOUS
      <4>1. e + 1 <= n - 1
        <5> HIDE DEF e, n
        <5> QED BY <1>1, <2>1
      <4>2. LineOf(t, e + 1) <= LineOf(t, n - 1)
        <5> HIDE DEF e, n
        <5> QED BY <2>1, <3>3, <4>1, LineOfGrows
      <4>3. l + 1 <= l
        BY <1>2, <1>6, <3>5, <4>2
      <4> HIDE DEF l
      <4> QED BY <1>1, <4>3
    <3>7. y \in p..n
      <4> HIDE DEF n
      <4> QED BY <1>1, <3>1
    <3> QED BY <3>1, <3>6, <3>7
  <2> QED BY <2>4, <2>5
<1>7. CASE ~ (e < n)
  <2>1. e = n
    <3> HIDE DEF e, n
    <3> QED BY <1>1, <1>7
  <2>2. y = n
    <3>1. CASE z + 1 < c
      <4>1. z = l
        <5> HIDE DEF l
        <5> QED BY <1>1, <1>4, <3>1
      <4> QED BY <4>1, <1>2, <1>7, <3>1
    <3> QED BY <3>1
  <2>3. Len(From(t, n)) = 0 /\ From(t, n) \in Seq(C)
    <3> HIDE DEF n
    <3>1. Len(From(t, n)) = (IF n <= Len(t) THEN Len(t) - n ELSE 0) /\ From(t, n) \in Seq(C)
      BY <1>1, FromIs
    <3> QED BY <1>1, <3>1 DEF n
  <2>4. Len(From(t, n + 1)) = 0 /\ From(t, n + 1) \in Seq(C)
    <3> DEFINE k == n + 1
    <3>1. k \in Nat /\ ~ (k <= n)
      BY <1>1
    <3> HIDE DEF k
    <3>2. Len(From(t, k)) = (IF k <= Len(t) THEN Len(t) - k ELSE 0) /\ From(t, k) \in Seq(C)
      BY <3>1, FromIs
    <3> QED BY <3>1, <3>2 DEF k
  <2>5. From(t, n) = From(t, n + 1)
    <3> DEFINE a == From(t, n)
               b == From(t, n + 1)
    <3>1. a \in Seq(C) /\ b \in Seq(C) /\ Len(a) = 0 /\ Len(b) = 0
      BY <2>3, <2>4
    <3> HIDE DEF a, b
    <3>2. a = b
      BY <3>1
    <3> QED BY <3>2 DEF a, b
  <2>6. y \in p..n
    <3> HIDE DEF n
    <3> QED BY <1>1, <2>2
  <2> QED BY <2>1, <2>2, <2>5, <2>6
<1> QED BY <1>6, <1>7

(* d deletes from the one end of the span to the other.                    *)
LEMMA DeletesSpan ==
    ASSUME NEW C, AlphabetOK(C), NEW e \in Editing(C), NEW x \in 0..Len(e.text),
           NEW y \in x..Len(e.text), NEW line \in BOOLEAN
    PROVE  ApplyOp(e, "d", x, y, line).text = First(e.text, x) \o From(e.text, y)
<1> DEFINE from == Min({x, y})
           len == Max({x, y}) - from
           t == e.text
           g == ApplyOp(e, "d", x, y, line)
           a == [e EXCEPT !.yank = [text |-> Copied(e.text, from, Min({len, YankMax - 1}), Nul),
                                    line |-> line]]
           b == Modified(GbDelete(UndoSaveDelete(a, from, len), from, len))
           q == SteppedBack(b.text, from)
           c == Counted(CursorAt(b, q))
           u == Deletion(t, e.modified, from, len)
<1>1. t \in Texts(C, Capacity) /\ t \in Seq(C) /\ Len(t) \in Nat
  BY EditorHas DEF Texts
<1>2. from = x /\ len = y - x
  <2> DEFINE n == Len(t)
  <2>1. n \in Nat /\ x \in 0..n /\ y \in x..n
    BY <1>1
  <2> HIDE DEF n, t
  <2>2. x \in Int /\ y \in Int /\ x <= y
    BY <2>1
  <2>3. Min({x, y}) = x /\ Max({x, y}) = y
    BY <2>2, OfTwo
  <2> QED BY <2>3
<1>3. from \in Nat /\ len \in Nat /\ from + len = y
  <2> DEFINE n == Len(t)
  <2>1. n \in Nat /\ x \in 0..n /\ y \in x..n
    BY <1>1
  <2> HIDE DEF n, t, from, len
  <2> QED BY <1>2, <2>1
<1>4. g = IF len = 0 THEN e ELSE c
  BY DEF ApplyOp
<1>5. Becomes(C, e, a, t, e.cur_pos, e.undo, e.modified)
  <2> HIDE DEF from, len
  <2> QED BY <1>3, YankIs
<1> HIDE DEF from, len, a, g
<1>6. a \in Editing(C) /\ a.text = t /\ a.undo = e.undo /\ a.modified = e.modified
  BY <1>5, FieldsAre
<1>7. Becomes(C, a, b, Cut(a.text, from, len), a.cur_pos, Deletion(a.text, a.modified, from, len), Changed)
  BY <1>3, <1>6, RecordedDeletion, FlagAfter
<1> HIDE DEF b
<1>8. b \in Editing(C) /\ b.text = Cut(t, from, len)
  BY <1>6, <1>7, FieldsAre
<1>9. q \in Nat
  <2>1. b.text \in Seq(C)
    BY <1>8, EditorHas DEF Texts
  <2> DEFINE d == b.text
  <2>2. d \in Seq(C) /\ q = SteppedBack(d, from)
    BY <2>1
  <2> HIDE DEF d, q
  <2>3. SteppedBack(d, from) \in 0..Len(d) /\ Len(d) \in Nat
    BY <1>3, <2>2, SteppedBackIn
  <2> QED BY <2>2, <2>3
<1> HIDE DEF q
<1>10. c.text = b.text
  <2> DEFINE f == CursorAt(b, q)
  <2>1. Becomes(C, b, f, b.text, q, b.undo, b.modified)
    BY <1>8, <1>9, CursorAtIs
  <2> HIDE DEF f
  <2>2. f \in Editing(C) /\ f.text = b.text
    BY <2>1, FieldsAre
  <2>3. Counted(f).text = f.text
    BY <2>2, CountedIs, FieldsAre DEF TextIs
  <2> QED BY <2>2, <2>3 DEF f
<1> HIDE DEF c
<1>11. CASE len = 0
  <2>1. y = x /\ g = e
    <3> HIDE DEF t
    <3> QED BY <1>2, <1>3, <1>4, <1>11
  <2>2. x \in Nat
    BY <1>2, <1>3
  <2>3. First(t, x) \o From(t, x) = t
    <3> HIDE DEF t
    <3> QED BY <1>1, <2>2, TwoParts
  <2> QED BY <2>1, <2>3 DEF g
<1>12. CASE len # 0
  <2>1. g.text = Cut(t, from, len)
    BY <1>4, <1>8, <1>10, <1>12
  <2> QED BY <1>2, <1>3, <2>1 DEF Cut, g
<1> QED BY <1>11, <1>12

(* There are no more lines before a position than characters.              *)
LEMMA FewLines ==
    ASSUME NEW C, NEW t \in Seq(C), NEW p \in 0..Len(t)
    PROVE  LineOf(t, p) \in 0..p
<1> DEFINE S == Breaks(t, 0, p)
           I == 0..(p - 1)
<1>1. p \in Nat /\ p \in Int /\ Len(t) \in Nat
  OBVIOUS
<1>2. IsFiniteSet(I) /\ Cardinality(I) = p
  <2>1. 0 \in Int /\ p - 1 \in Int
    BY <1>1
  <2>2. IsFiniteSet(I) /\ Cardinality(I) = IF 0 > p - 1 THEN 0 ELSE (p - 1) - 0 + 1
    BY <2>1, FS_Interval
  <2> HIDE DEF I
  <2> QED BY <1>1, <2>2
<1>3. S \subseteq I
  BY DEF Breaks
<1>4. LineOf(t, p) = Cardinality(S) /\ LineOf(t, p) \in Nat
  BY <1>1, LineOfIs
<1> HIDE DEF S, I
<1>5. Cardinality(S) <= Cardinality(I)
  BY <1>2, <1>3, FS_Subset
<1> QED BY <1>1, <1>2, <1>4, <1>5

(* dd deletes the line of the cursor.                                      *)
LEMMA DeletesThisLine ==
    ASSUME NEW C, AlphabetOK(C), NEW e \in Editing(C), e.cur_pos \in 0..Len(e.text), Ended(e.text)
    PROVE  LinesFrom(e, "d", 1).text = First(e.text, Bol(e.text, e.cur_pos))
                                       \o From(e.text, Eol(e.text, e.cur_pos) + 1)
<1> DEFINE c == Counted(e)
           t == e.text
           p == e.cur_pos
           z == Min({LineOf(t, p) + 1 - 1, c.line_cnt - 1})
           x == LineStart(t, LineOf(t, p))
           y == IF z + 1 < c.line_cnt THEN LineStart(t, z + 1) ELSE Len(t)
<1>1. c \in Editing(C) /\ c.text = t /\ c.cur_pos = p
  BY CountedIs, FieldsAre DEF TextIs
<1>2. c.line_cnt \in Int /\ c.line_cnt >= Newlines(t)
  <2>1. Reckoned(c.text, c.line_cnt) /\ c.line_cnt \in Int
    BY <1>1, EditorHas
  <2>2. CASE e.line_cnt > 0
    <3>1. c.line_cnt > 0
      BY <2>2 DEF Counted
    <3> HIDE DEF c
    <3> QED BY <1>1, <2>1, <3>1 DEF Reckoned
  <2>3. CASE ~ (e.line_cnt > 0)
    <3>1. c.line_cnt = LineCount(t)
      BY <2>3 DEF Counted, Editing, Editors
    <3>2. t \in Seq(C)
      BY EditorHas DEF Texts
    <3> QED BY <2>1, <3>1, <3>2, LinesReckoned
  <2> QED BY <2>2, <2>3
<1>3. LinesFrom(e, "d", 1) = ApplyOp(c, "d", x, y, TRUE)
  <2> HIDE DEF c
  <2>1. c = Counted(e)
    BY DEF c
  <2>2. Wrap(LineOf(t, p) + 1 - 1) = LineOf(t, p) + 1 - 1
    <3>1. t \in Seq(C) /\ Len(t) <= Capacity /\ p \in 0..Len(t)
      BY EditorHas DEF Texts
    <3>2. LineOf(t, p) \in 0..p
      BY <3>1, FewLines
    <3> DEFINE l == LineOf(t, p)
    <3>3. l + 1 - 1 = l /\ l \in (-MAXINT)..MAXINT
      <4> HIDE DEF t, p
      <4>1. Len(t) \in Nat /\ p \in Nat /\ p <= Len(t)
        BY <3>1
      <4>2. l \in Nat /\ l <= p
        BY <3>2, <4>1
      <4> HIDE DEF l
      <4> QED BY <3>1, <4>1, <4>2, LimitsAssumption, MotionsAssumption
    <3> HIDE DEF l
    <3>4. Wrap(l) = l
      BY <3>3, WrapFits
    <3> QED BY <3>3, <3>4 DEF l
  <2> QED BY <1>1, <2>1, <2>2 DEF LinesFrom
<1> DEFINE n == c.line_cnt
<1> HIDE DEF c
<1>4. t \in Seq(C) /\ p \in 0..Len(t)
  BY EditorHas DEF Texts
<1>5. x = Bol(t, p) /\ x \in 0..p
  <2> HIDE DEF t, p
  <2> QED BY <1>4, LineStartHere, OnTheLine
<1>6. y \in p..Len(t) /\ From(t, y) = From(t, Eol(t, p) + 1)
  <2>1. n \in Int /\ n >= Newlines(t) /\ Ended(t)
    BY <1>2
  <2>2. z = Min({LineOf(t, p) + 1 - 1, n - 1}) /\ y = IF z + 1 < n THEN LineStart(t, z + 1) ELSE Len(t)
    OBVIOUS
  <2> HIDE DEF t, p, n, z, y
  <2> QED BY ONLY <1>4, <2>1, <2>2, BehindTheLine
<1> HIDE DEF x, y
<1>7. x \in 0..Len(t) /\ y \in x..Len(t)
  <2> DEFINE m == Len(t)
  <2>1. m \in Nat /\ p \in 0..m /\ x \in 0..p /\ y \in p..m
    BY <1>4, <1>5, <1>6
  <2> HIDE DEF m, p, t
  <2>2. x \in 0..m /\ y \in x..m
    BY <2>1
  <2> QED BY <2>2 DEF m
<1>8. ApplyOp(c, "d", x, y, TRUE).text = First(t, x) \o From(t, y)
  <2>1. x \in 0..Len(c.text) /\ y \in x..Len(c.text) /\ TRUE \in BOOLEAN
    BY <1>1, <1>7
  <2>2. ApplyOp(c, "d", x, y, TRUE).text = First(c.text, x) \o From(c.text, y)
    <3> HIDE DEF t
    <3> QED BY ONLY AlphabetOK(C), <1>1, <2>1, DeletesSpan
  <2> QED BY <1>1, <2>2
<1> QED BY <1>3, <1>5, <1>6, <1>8

(* dd deletes the cursor's line and nothing else, whatever the number of   *)
(* lines in the cache (normal_cmd, scr_line_count): in texts whose last    *)
(* line has its newline.                                                   *)
THEOREM EditCommandsLines == Spec => DeletesOneLine
<1>1. Init => IInv
  BY IInvInit
<1>2. IInv /\ [Next]_vars => IInv'
  BY IInvNext, IInvSame
<1>3. ASSUME IInv, Ended(ed.text), Operate("d", "d", 1)
      PROVE  ed'.text = First(ed.text, Bol(ed.text, ed.cur_pos))
                        \o From(ed.text, Eol(ed.text, ed.cur_pos) + 1)
  <2> DEFINE C == Characters(user)
             K == Users[user].keys
             t == ed.text
             p == ed.cur_pos
             d == OperatorIns(OperatorDot(ed, "d", "d", 1), "d")
             g == Doubled(ed, "d", 1)
  <2>1. Takes(g) /\ ed.mode = "normal"
    BY <1>3 DEF Operate, Does, Step, Gets
  <2>2. AlphabetOK(C) /\ Fine(C, K, ed) /\ ed \in Editing(C)
    BY <1>3, UserAlphabet DEF IInv, Fine
  <2>3. p \in 0..Len(t) /\ p <= Len(t)
    <3> HIDE DEF C, K
    <3>1. t \in Seq(C) /\ p \in Nat /\ Len(t) \in Nat
      BY <2>2, EditorHas DEF Texts
    <3>2. p <= Len(t)
      BY <2>1 DEF Takes
    <3> HIDE DEF t, p
    <3> QED BY <3>1, <3>2
  <2> HIDE DEF C, K
  <2>4. Fine(C, K, g)
    <3>1. "d" \in Operators /\ "d" \in OpMotions \cup {"d"} /\ 1 \in Nat
      BY DEF Operators
    <3>2. g = IF "d" = "d" THEN Doubled(ed, "d", 1) ELSE WithMotion(ed, "d", "d", 1)
      OBVIOUS
    <3> HIDE DEF g
    <3> QED BY <2>1, <2>2, <2>3, <3>1, <3>2, FineOperate
  <2>5. d \in Editing(C) /\ d.text = t /\ d.cur_pos = p
    <3>1. "d" \in Operators /\ "d" # "y" /\ "d" \in OpMotions \cup {"d"} /\ 1 \in Nat
      BY DEF Operators
    <3>2. d = OperatorIns(OperatorDot(ed, "d", "d", 1), "d")
      OBVIOUS
    <3> HIDE DEF d
    <3>3. Noted(C, ed, d, "d", "d", None)
      BY ONLY <2>2, <3>1, <3>2, OperatorNoted
    <3> QED BY <3>3 DEF Noted
  <2>6. g = LinesFrom(d, "d", 1)
    BY DEF Doubled
  <2> HIDE DEF d
  <2>7. g.text = First(t, Bol(t, p)) \o From(t, Eol(t, p) + 1)
    <3>1. d.cur_pos \in 0..Len(d.text) /\ Ended(d.text)
      BY <1>3, <2>3, <2>5
    <3>2. LinesFrom(d, "d", 1).text = First(d.text, Bol(d.text, d.cur_pos))
                                      \o From(d.text, Eol(d.text, d.cur_pos) + 1)
      BY <2>2, <2>5, <3>1, DeletesThisLine
    <3> QED BY <2>5, <2>6, <3>2
  <2> HIDE DEF g
  <2>8. Counted(g).text = g.text
    <3>1. g \in Editing(C)
      BY <2>4 DEF Fine
    <3> QED BY <3>1, CountedIs, FieldsAre DEF TextIs
  <2>9. ed'.text = g.text
    BY <2>1, <2>8 DEF Takes
  <2> QED BY <2>7, <2>9
<1>4. IInv /\ [Next]_vars => [Ended(ed.text) => DeletesLine]_vars
  BY <1>3 DEF DeletesLine
<1> QED BY <1>1, <1>2, <1>4, PTL DEF Spec, DeletesOneLine

-----------------------------------------------------------------------------
(* Rows.                                                                   *)

\* x has the characters of a, and then those of b.
Continues(x, a, b) ==
    /\ \A q \in 0..(Len(a) - 1) : At(x, q) = At(a, q)
    /\ \A q \in 0..(Len(b) - 1) : At(x, Len(a) + q) = At(b, q)

(* In two texts, one after the other, the characters of both.              *)
LEMMA JoinAt ==
    ASSUME NEW C, NEW a \in Seq(C), NEW b \in Seq(C), NEW x, x = a \o b
    PROVE  /\ x \in Seq(C) /\ Len(x) = Len(a) + Len(b)
           /\ Continues(x, a, b)
<1> DEFINE m == Len(a)
           n == Len(b)
<1>1. m \in Nat /\ n \in Nat /\ x \in Seq(C) /\ Len(x) = m + n
  BY Concat
<1>2. /\ \A i \in 1..m : x[i] = a[i]
      /\ \A i \in 1..n : x[i + m] = b[i]
  OBVIOUS
<1>3. ASSUME NEW q \in 0..(m - 1) PROVE At(x, q) = At(a, q)
  <2> HIDE DEF m, n
  <2>1. q + 1 \in 1..m /\ q \in 0..(Len(x) - 1)
    BY <1>1
  <2> QED BY <1>2, <2>1 DEF At, m
<1>4. ASSUME NEW q \in 0..(n - 1) PROVE At(x, m + q) = At(b, q)
  <2> HIDE DEF m, n
  <2>1. q + 1 \in 1..n /\ (q + 1) + m = (m + q) + 1 /\ m + q \in 0..(Len(x) - 1)
    BY <1>1
  <2> QED BY <1>2, <2>1 DEF At, n
<1> QED BY <1>1, <1>3, <1>4 DEF Continues

\* The lines of x are numbered as those of a, and then on through b.
CountsOn(x, a, b) ==
    /\ \A q \in 0..Len(a) : LineOf(x, q) = LineOf(a, q)
    /\ \A q \in 0..Len(b) : LineOf(x, Len(a) + q) = LineOf(a, Len(a)) + LineOf(b, q)

(* In the first of them lines have the numbers they had; in the second     *)
(* they count on.                                                          *)
LEMMA JoinLineOf ==
    ASSUME NEW C, NEW a \in Seq(C), NEW b \in Seq(C), NEW x, x = a \o b
    PROVE  CountsOn(x, a, b)
<1> DEFINE m == Len(a)
           n == Len(b)
<1>1. /\ m \in Nat /\ n \in Nat
      /\ \A q \in 0..(m - 1) : At(x, q) = At(a, q)
      /\ \A q \in 0..(n - 1) : At(x, m + q) = At(b, q)
  <2>1. Continues(x, a, b)
    BY JoinAt
  <2>2. m \in Nat /\ n \in Nat
    OBVIOUS
  <2> QED BY <2>1, <2>2 DEF Continues
<1> HIDE DEF m, n
<1>2. ASSUME NEW q \in 0..m PROVE LineOf(x, q) = LineOf(a, q)
  <2>1. SamePiece(a, x, 0, q, 0)
    <3>1. ASSUME NEW r \in 0..(q - 1) PROVE At(a, r) = At(x, r + 0)
      <4>1. r \in 0..(m - 1) /\ r + 0 = r
        BY <1>1
      <4> QED BY <1>1, <4>1
    <3> QED BY <3>1 DEF SamePiece
  <2>2. 0 + 0 = 0 /\ q + 0 = q /\ 0 \in Int /\ q \in Int
    BY <1>1
  <2>3. Cardinality(Breaks(a, 0, q)) = Cardinality(Breaks(x, 0 + 0, q + 0))
    BY ONLY <2>1, <2>2, BreaksShift
  <2> QED BY <2>2, <2>3, LineOfIs
<1>3. ASSUME NEW q \in 0..n PROVE LineOf(x, m + q) = LineOf(a, m) + LineOf(b, q)
  <2>1. SamePiece(b, x, 0, q, m)
    <3>1. ASSUME NEW r \in 0..(q - 1) PROVE At(b, r) = At(x, r + m)
      <4>1. r \in 0..(n - 1) /\ r + m = m + r
        BY <1>1
      <4> QED BY <1>1, <4>1
    <3> QED BY <3>1 DEF SamePiece
  <2>2. 0 + m = m /\ q + m = m + q /\ 0 \in Int /\ q \in Int /\ m \in Int
    BY <1>1
  <2>3. Cardinality(Breaks(b, 0, q)) = Cardinality(Breaks(x, 0 + m, q + m))
    BY ONLY <2>1, <2>2, BreaksShift
  <2> DEFINE k == m + q
  <2>4. k \in Int /\ 0 <= m /\ m <= k
    BY <1>1
  <2>5. Cardinality(Breaks(b, 0, q)) = Cardinality(Breaks(x, m, k))
    BY <2>2, <2>3
  <2> HIDE DEF k
  <2>6. Cardinality(Breaks(x, 0, k)) = Cardinality(Breaks(x, 0, m)) + Cardinality(Breaks(x, m, k))
    BY ONLY <2>2, <2>4, BreaksAdd
  <2>7. LineOf(x, k) = LineOf(x, m) + LineOf(b, q)
    BY <2>2, <2>4, <2>5, <2>6, LineOfIs
  <2>8. LineOf(x, m) = LineOf(a, m)
    <3>1. m \in 0..m
      BY <1>1
    <3> QED BY <1>2, <3>1
  <2> QED BY <2>7, <2>8 DEF k
<1> QED BY <1>2, <1>3 DEF m, n, CountsOn

(* Every line up to that of the end has a beginning.                       *)
LEMMA LineBegins ==
    ASSUME NEW C, NEW t \in Seq(C), NEW l \in 1..LineOf(t, Len(t))
    PROVE  /\ LineStart(t, l) \in 1..Len(t)
           /\ LineOf(t, LineStart(t, l)) = l
           /\ At(t, LineStart(t, l) - 1) = NL
<1> DEFINE n == Len(t)
           m == LineOf(t, n)
           S == {q \in 0..n : LineOf(t, q) >= l}
<1>1. n \in Nat /\ m \in Nat
  BY LineOfIs
<1>2. l \in Nat /\ l # 0 /\ m >= l
  <2>1. l \in 1..m
    OBVIOUS
  <2> HIDE DEF m
  <2> QED BY <1>1, <2>1
<1>3. S # {} /\ S \subseteq Nat
  <2>1. n \in 0..n
    BY <1>1
  <2> QED BY <1>2, <2>1
<1>4. PICK b \in S : \A q \in S : b <= q
  <2> HIDE DEF S
  <2> QED BY <1>3, LeastElement
<1>5. b # 0
  <2>1. LineOf(t, 0) = 0
    <3>1. Breaks(t, 0, 0) = {}
      BY DEF Breaks
    <3>2. 0 \in Int
      OBVIOUS
    <3>3. LineOf(t, 0) = Cardinality(Breaks(t, 0, 0))
      BY ONLY <3>2, LineOfIs
    <3> QED BY <3>1, <3>3, FS_EmptySet
  <2> QED BY <1>2, <1>4, <2>1
<1> DEFINE c == b - 1
<1>6. b \in 1..n /\ c \in 0..n /\ c \in Nat /\ c + 1 = b /\ ~ (b <= c)
  BY <1>1, <1>4, <1>5
<1>7. c \notin S
  BY <1>4, <1>6
<1> HIDE DEF c
<1>8. LineOf(t, b) = LineOf(t, c) + (IF At(t, c) = NL THEN 1 ELSE 0)
  <2>1. c <= c
    BY <1>6
  <2> QED BY <1>6, <2>1, LineOfGrows
<1>9. At(t, c) = NL /\ LineOf(t, b) = l
  <2> DEFINE u == LineOf(t, c)
             v == LineOf(t, b)
  <2>1. u \in Nat /\ v \in Nat
    BY <1>1, <1>6, LineOfIs
  <2>2. ~ (u >= l) /\ v >= l
    BY <1>4, <1>6, <1>7
  <2>3. v = u + (IF At(t, c) = NL THEN 1 ELSE 0)
    BY <1>8
  <2> HIDE DEF u, v
  <2>4. At(t, c) = NL /\ v = l
    BY <1>2, <2>1, <2>2, <2>3
  <2> QED BY <2>4 DEF v
<1>10. LineStart(t, LineOf(t, b)) = b
  BY <1>6, <1>9, StartsBehind DEF c
<1> QED BY <1>6, <1>9, <1>10 DEF c

(* What is at the end of a line, and has no newline before it, is Eol.     *)
LEMMA EolIs ==
    ASSUME NEW C, NEW t \in Seq(C), NEW p \in 0..Len(t), NEW e \in p..Len(t),
           \A q \in p..(e - 1) : At(t, q) # NL, e # Len(t) => At(t, e) = NL
    PROVE  Eol(t, p) = e
<1> DEFINE n == Len(t)
           k == Eol(t, p)
<1>1. /\ k \in p..n /\ (\A q \in p..(k - 1) : At(t, q) # NL) /\ (k # n => At(t, k) = NL)
      /\ n \in Nat /\ p \in 0..n /\ e \in p..n
  <2>1. /\ Eol(t, p) \in p..Len(t) /\ (\A q \in p..(Eol(t, p) - 1) : At(t, q) # NL)
        /\ (Eol(t, p) # Len(t) => At(t, Eol(t, p)) = NL)
    BY ONLY t \in Seq(C), p \in 0..Len(t), OnTheLine
  <2>2. n \in Nat
    OBVIOUS
  <2> QED BY <2>1, <2>2
<1> HIDE DEF n, k
<1>2. ~ (k < e)
  <2> SUFFICES ASSUME k < e PROVE FALSE
    OBVIOUS
  <2>1. k \in p..(e - 1) /\ k # n
    BY <1>1
  <2> QED BY <1>1, <2>1
<1>3. ~ (e < k)
  <2> SUFFICES ASSUME e < k PROVE FALSE
    OBVIOUS
  <2>1. e \in p..(k - 1) /\ e # n
    BY <1>1
  <2> QED BY <1>1, <2>1 DEF n
<1>4. k = e
  BY <1>1, <1>2, <1>3
<1> QED BY <1>4 DEF k

\* A line of a text, without its newline.
Row(t, l) == SubSeq(t, LineStart(t, l) + 1, Eol(t, LineStart(t, l)))

(* The rows are the lines.                                                 *)
LEMMA RowsAre ==
    ASSUME NEW C, NEW t \in Seq(C), t # << >>
    PROVE  /\ Rows(t) \in Seq(Seq(C)) /\ Len(Rows(t)) = LineCount(t)
           /\ \A l \in 1..LineCount(t) : Rows(t)[l] = Row(t, l - 1)
<1> DEFINE n == LineCount(t)
           r(l) == Row(t, l - 1)
<1>1. n \in Nat
  BY NewlinesIs
<1>2. Rows(t) = [l \in 1..n |-> r(l)]
  BY DEF Rows, Row
<1> HIDE DEF n
<1>3. ASSUME NEW l \in 1..n PROVE r(l) \in Seq(C)
  <2> DEFINE s == LineStart(t, l - 1)
             e == Eol(t, s)
  <2>1. s \in 0..Len(t) /\ Len(t) \in Nat
    BY LineStartIn
  <2>2. s \in Nat
    BY <2>1
  <2> HIDE DEF s
  <2>3. e \in 0..Len(t)
    BY <2>2, LineEnds
  <2> HIDE DEF e
  <2>4. s + 1 \in Nat \ {0} /\ e \in Nat /\ e <= Len(t)
    BY <2>1, <2>2, <2>3
  <2> DEFINE f == s + 1
  <2>5. (f \in 1..(Len(t) + 1) /\ e \in (f - 1)..Len(t)) \/ f > e
    BY <2>1, <2>2, <2>3
  <2>6. SubSeq(t, f, e) \in Seq(C)
    <3>1. \A i \in f..e : t[i] \in C
      <4>1. \A i \in f..e : i \in 1..Len(t)
        BY <2>1, <2>4
      <4> QED BY <4>1
    <3>2. f \in Int /\ e \in Int
      BY <2>4
    <3> HIDE DEF f
    <3> QED BY <3>1, <3>2
  <2> QED BY <2>6 DEF Row, s, e
<1> HIDE DEF r
<1>4. [l \in 1..n |-> r(l)] \in Seq(Seq(C)) /\ Len([l \in 1..n |-> r(l)]) = n
  BY <1>1, <1>3
<1>5. \A l \in 1..n : Rows(t)[l] = r(l)
  BY <1>2
<1> QED BY <1>2, <1>4, <1>5 DEF r, n

(* The same characters, d further on.                                      *)
LEMMA SamePart ==
    ASSUME NEW C, NEW x \in Seq(C), NEW y \in Seq(C), NEW f \in Nat, NEW e \in Nat, NEW d \in Nat,
           f <= e, e <= Len(y), d + e <= Len(x),
           SamePiece(y, x, f, e, d)
    PROVE  SubSeq(x, (d + f) + 1, d + e) = SubSeq(y, f + 1, e)
<1> DEFINE m == Len(x)
           n == Len(y)
           g == d + f
           h == d + e
           k == e - f
           u == SubSeq(x, g + 1, h)
           v == SubSeq(y, f + 1, e)
<1>1. m \in Nat /\ n \in Nat /\ g \in Nat /\ h \in Nat /\ k \in Nat /\ h - g = k /\ h <= m
  OBVIOUS
<1>2. v \in Seq(C) /\ Len(v) = k /\ \A i \in 1..k : v[i] = y[f + i]
  <2>1. f + 1 \in 1..(Len(y) + 1) /\ e \in ((f + 1) - 1)..Len(y) /\ e - (f + 1) + 1 = k
    BY <1>1
  <2> QED BY <2>1, SubSeqProperties
<1>3. u \in Seq(C) /\ Len(u) = k /\ \A i \in 1..k : u[i] = x[g + i]
  <2>1. g + 1 \in 1..(Len(x) + 1) /\ h \in ((g + 1) - 1)..Len(x) /\ h - (g + 1) + 1 = k
    BY <1>1
  <2> HIDE DEF g, h, k
  <2> QED BY <2>1, <1>1, SubSeqProperties
<1> HIDE DEF u, v
<1>4. ASSUME NEW i \in 1..k PROVE u[i] = v[i]
  <2> DEFINE q == f + i - 1
  <2>1. q \in f..(e - 1) /\ q \in 0..(n - 1) /\ d + q \in 0..(m - 1)
        /\ q + 1 = f + i /\ (d + q) + 1 = g + i /\ q + d = d + q
    BY <1>1
  <2> HIDE DEF q, g, h, k
  <2>2. At(x, d + q) = At(y, q)
    BY <2>1 DEF SamePiece
  <2>3. At(x, d + q) = x[(d + q) + 1] /\ At(y, q) = y[q + 1]
    BY <2>1 DEF At, m, n
  <2>4. u[i] = x[g + i] /\ v[i] = y[f + i]
    BY <1>2, <1>3
  <2> QED BY <2>1, <2>2, <2>3, <2>4
<1>5. u = v
  <2> HIDE DEF k
  <2>1. Len(u) = Len(v) /\ \A i \in 1..Len(u) : u[i] = v[i]
    BY <1>2, <1>3, <1>4
  <2> QED BY ONLY <1>2, <1>3, <2>1, SeqEqual
<1> QED BY <1>5 DEF u, v

(* A row of the first of two texts is a row of both, if a newline ends it. *)
LEMMA RowOfFirst ==
    ASSUME NEW C, NEW a \in Seq(C), NEW b \in Seq(C), NEW x, x = a \o b,
           NEW l \in 0..LineOf(a, Len(a)),
           Eol(a, LineStart(a, l)) = Len(a) => b # << >> /\ At(b, 0) = NL
    PROVE  Row(x, l) = Row(a, l)
<1> DEFINE m == Len(a)
           n == Len(b)
           s == LineStart(a, l)
           e == Eol(a, s)
<1>1. m \in Nat /\ n \in Nat /\ x \in Seq(C) /\ Len(x) = m + n
  BY JoinAt
<1>2. \A q \in 0..(m - 1) : At(x, q) = At(a, q)
  <2>1. Continues(x, a, b)
    BY JoinAt
  <2> QED BY <2>1 DEF Continues
<1>3. s \in 0..m /\ s \in Nat
  BY <1>1, LineStartIn
<1>4. /\ e \in s..m /\ (\A q \in s..(e - 1) : At(a, q) # NL)
      /\ (e # m => At(a, e) = NL)
  <2> HIDE DEF s
  <2> QED BY <1>3, OnTheLine
<1>5. e # Len(x) => At(x, e) = NL
  <2>1. CASE e = m
    <3>1. b # << >> /\ At(b, 0) = NL
      BY <2>1
    <3>2. 0 \in 0..(Len(b) - 1) /\ Len(a) + 0 = m
      BY <3>1, <1>1
    <3>3. Continues(x, a, b)
      BY JoinAt
    <3>4. At(x, Len(a) + 0) = At(b, 0)
      BY ONLY <3>2, <3>3 DEF Continues
    <3> QED BY <2>1, <3>1, <3>2, <3>4
  <2>2. CASE e # m
    <3> HIDE DEF m, s, e
    <3>1. e \in 0..(m - 1)
      BY <1>1, <1>3, <1>4, <2>2
    <3> QED BY <1>2, <1>4, <2>2, <3>1
  <2> QED BY <2>1, <2>2
<1>6. LineStart(x, l) = s
  <2>1. CASE l = 0
    BY <2>1 DEF LineStart
  <2>2. CASE l # 0
    <3>1. l \in 1..LineOf(a, Len(a))
      <4>1. LineOf(a, Len(a)) \in Nat
        BY <1>1, LineOfIs
      <4> DEFINE k == LineOf(a, Len(a))
      <4>2. k \in Nat /\ l \in 0..k
        BY <4>1
      <4> HIDE DEF k
      <4>3. l \in 1..k
        BY <2>2, <4>2
      <4> QED BY <4>3 DEF k
    <3>2. s \in 1..m /\ LineOf(a, s) = l /\ At(a, s - 1) = NL
      BY <3>1, LineBegins
    <3>3. \A q \in 0..m : LineOf(x, q) = LineOf(a, q)
      <4>1. CountsOn(x, a, b)
        BY JoinLineOf
      <4> QED BY <4>1 DEF CountsOn
    <3> HIDE DEF s, m
    <3>4. s \in 0..m /\ s - 1 \in 0..(m - 1) /\ s \in 1..Len(x)
      BY <1>1, <3>2
    <3>5. LineOf(x, s) = l /\ At(x, s - 1) = NL
      BY <1>2, <3>2, <3>3, <3>4
    <3>6. LineStart(x, LineOf(x, s)) = s
      BY ONLY <1>1, <3>4, <3>5, StartsBehind
    <3> QED BY <3>5, <3>6
  <2> QED BY <2>1, <2>2
<1> HIDE DEF s, e, m, n
<1>7. Eol(x, s) = e
  <2>1. s \in 0..Len(x) /\ e \in s..Len(x)
    BY <1>1, <1>3, <1>4
  <2>2. \A q \in s..(e - 1) : At(x, q) # NL
    <3>1. \A q \in s..(e - 1) : q \in 0..(m - 1)
      BY <1>1, <1>3, <1>4
    <3> QED BY <1>2, <1>4, <3>1
  <2> QED BY ONLY <1>1, <1>5, <2>1, <2>2, EolIs
<1>8. SubSeq(x, s + 1, e) = SubSeq(a, s + 1, e)
  <2>1. s \in Nat /\ e \in Nat /\ 0 \in Nat /\ s <= e /\ e <= Len(a) /\ 0 + e <= Len(x)
        /\ 0 + s = s /\ 0 + e = e
    BY <1>1, <1>3, <1>4 DEF m
  <2>2. SamePiece(a, x, s, e, 0)
    <3>1. \A q \in s..(e - 1) : q \in 0..(m - 1) /\ q + 0 = q
      BY <1>1, <1>3, <1>4
    <3> QED BY <1>2, <3>1 DEF SamePiece
  <2>3. SubSeq(x, (0 + s) + 1, 0 + e) = SubSeq(a, s + 1, e)
    BY ONLY a \in Seq(C), <1>1, <2>1, <2>2, SamePart
  <2> QED BY <2>1, <2>3
<1> QED BY <1>6, <1>7, <1>8 DEF Row, s, e

(* The last character.                                                     *)
LEMMA LastAt ==
    ASSUME NEW C, NEW t \in Seq(C), t # << >>
    PROVE  At(t, Len(t) - 1) = Last(t) /\ Len(t) \in Nat \ {0}
<1> DEFINE n == Len(t)
<1>1. n \in Nat /\ n # 0
  OBVIOUS
<1>2. Last(t) = t[n]
  BY DEF Last
<1> HIDE DEF n
<1>3. n - 1 \in 0..(n - 1) /\ (n - 1) + 1 = n
  BY <1>1
<1>4. At(t, n - 1) = t[n]
  BY <1>3 DEF At, n
<1> QED BY <1>1, <1>2, <1>4 DEF n

\* The line of b with this number is the same line of x, behind those of a.
RowBehind(x, a, b, l) == Row(x, LineOf(a, Len(a)) + l) = Row(b, l)

(* A row of the second is a row of both, if the first ends in a newline.   *)
LEMMA RowOfSecond ==
    ASSUME NEW C, NEW a \in Seq(C), NEW b \in Seq(C), NEW x, x = a \o b,
           a # << >>, Last(a) = NL, NEW l \in 0..LineOf(b, Len(b))
    PROVE  RowBehind(x, a, b, l)
<1> DEFINE m == Len(a)
           k == LineOf(a, m) + l
           n == Len(b)
           s == LineStart(b, l)
           e == Eol(b, s)
           f == m + s
           g == m + e
<1>1. m \in Nat /\ n \in Nat /\ m # 0 /\ x \in Seq(C) /\ Len(x) = m + n
  BY JoinAt
<1>2. Continues(x, a, b)
  BY JoinAt
<1>3. \A q \in 0..(n - 1) : At(x, m + q) = At(b, q)
  BY <1>2 DEF Continues
<1>4. \A q \in 0..n : LineOf(x, m + q) = LineOf(a, m) + LineOf(b, q)
  <2>1. CountsOn(x, a, b)
    BY JoinLineOf
  <2> QED BY <2>1 DEF CountsOn
<1>5. s \in 0..n /\ s \in Nat
  BY <1>1, LineStartIn
<1>6. /\ e \in s..n /\ (\A q \in s..(e - 1) : At(b, q) # NL)
      /\ (e # n => At(b, e) = NL)
  <2> HIDE DEF s
  <2> QED BY <1>5, OnTheLine
<1>7. LineOf(b, s) = l /\ At(x, f - 1) = NL
  <2>1. CASE l = 0
    <3>1. s = 0 /\ f = m
      BY <1>1, <2>1 DEF LineStart
    <3>2. LineOf(b, 0) = 0
      <4>1. Breaks(b, 0, 0) = {}
        BY DEF Breaks
      <4>2. 0 \in Int
        OBVIOUS
      <4>3. LineOf(b, 0) = Cardinality(Breaks(b, 0, 0))
        BY ONLY <4>2, LineOfIs
      <4> QED BY <4>1, <4>3, FS_EmptySet
    <3>4. At(a, m - 1) = NL
      BY LastAt
    <3>3. At(x, m - 1) = At(a, m - 1)
      <4> DEFINE q == m - 1
      <4>1. q \in 0..(Len(a) - 1)
        BY <1>1
      <4> HIDE DEF q
      <4>2. At(x, q) = At(a, q)
        BY ONLY <1>2, <4>1 DEF Continues
      <4> QED BY <4>2 DEF q
    <3> QED BY <2>1, <3>1, <3>2, <3>3, <3>4
  <2>2. CASE l # 0
    <3>1. l \in 1..LineOf(b, Len(b))
      <4>1. LineOf(b, Len(b)) \in Nat
        BY <1>1, LineOfIs
      <4> DEFINE c == LineOf(b, Len(b))
      <4>2. c \in Nat /\ l \in 0..c
        BY <4>1
      <4> HIDE DEF c
      <4>3. l \in 1..c
        BY <2>2, <4>2
      <4> QED BY <4>3 DEF c
    <3>2. s \in 1..n /\ LineOf(b, s) = l /\ At(b, s - 1) = NL
      BY <3>1, LineBegins
    <3>3. s - 1 \in 0..(n - 1) /\ m + (s - 1) = f - 1
      <4> HIDE DEF s, m, n
      <4> QED BY <1>1, <3>2
    <3>4. At(x, m + (s - 1)) = At(b, s - 1)
      <4> HIDE DEF s, m, n, f
      <4> QED BY <1>3, <3>3
    <3> QED BY <3>2, <3>3, <3>4
  <2> QED BY <2>1, <2>2
<1> HIDE DEF s, e
<1>8. LineStart(x, k) = f
  <2>1. LineOf(x, f) = k
    <3>1. LineOf(x, m + s) = LineOf(a, m) + LineOf(b, s)
      BY <1>4, <1>5
    <3> QED BY <1>7, <3>1
  <2>2. f \in 1..Len(x)
    <3> HIDE DEF m, n
    <3> QED BY <1>1, <1>5
  <2> HIDE DEF f
  <2>3. LineStart(x, LineOf(x, f)) = f
    BY ONLY <1>1, <1>7, <2>2, StartsBehind
  <2> QED BY <2>1, <2>3
<1> HIDE DEF m, n
<1>9. Eol(x, f) = g
  <2>1. f \in 0..Len(x) /\ g \in f..Len(x) /\ (g # Len(x) => e # n)
    BY <1>1, <1>5, <1>6
  <2>2. ASSUME NEW q \in f..(g - 1) PROVE At(x, q) # NL
    <3> DEFINE r == q - m
    <3>1. r \in s..(e - 1) /\ r \in 0..(n - 1) /\ m + r = q
      BY <1>1, <1>5, <1>6
    <3> HIDE DEF r
    <3>2. At(x, m + r) = At(b, r) /\ At(b, r) # NL
      BY <1>3, <1>6, <3>1
    <3> QED BY <3>1, <3>2
  <2>3. g # Len(x) => At(x, g) = NL
    <3> SUFFICES ASSUME g # Len(x) PROVE At(x, g) = NL
      OBVIOUS
    <3>1. e # n /\ e \in 0..(n - 1)
      BY <1>1, <1>5, <1>6, <2>1
    <3>2. At(x, m + e) = At(b, e)
      BY <1>3, <3>1
    <3> QED BY <1>6, <3>1, <3>2
  <2> HIDE DEF f, g
  <2> QED BY ONLY <1>1, <2>1, <2>2, <2>3, EolIs
<1>10. SubSeq(x, f + 1, g) = SubSeq(b, s + 1, e)
  <2>1. s \in Nat /\ e \in Nat /\ m \in Nat /\ s <= e /\ e <= Len(b) /\ m + e <= Len(x)
    BY <1>1, <1>5, <1>6 DEF n
  <2>2. SamePiece(b, x, s, e, m)
    <3>1. \A q \in s..(e - 1) : q \in 0..(n - 1) /\ q + m = m + q
      BY <1>1, <1>5, <1>6
    <3> QED BY <1>3, <3>1 DEF SamePiece
  <2>3. SubSeq(x, (m + s) + 1, m + e) = SubSeq(b, s + 1, e)
    <3>1. b \in Seq(C) /\ x \in Seq(C)
      BY <1>1
    <3> HIDE DEF f, g
    <3> QED BY ONLY <3>1, <2>1, <2>2, SamePart
  <2> QED BY <2>3
<1>11. Row(x, k) = Row(b, l)
  <2> HIDE DEF k
  <2> QED BY <1>8, <1>9, <1>10 DEF Row, s, e
<1> QED BY <1>11 DEF m, RowBehind

(* No newline is before the beginning.                                     *)
LEMMA LineOfZero ==
    ASSUME NEW t
    PROVE  LineOf(t, 0) = 0
<1>1. Breaks(t, 0, 0) = {}
  BY DEF Breaks
<1>2. 0 \in Int
  OBVIOUS
<1>3. LineOf(t, 0) = Cardinality(Breaks(t, 0, 0))
  BY ONLY <1>2, LineOfIs
<1> QED BY <1>1, <1>3, FS_EmptySet

(* There are as many lines as newlines, and one more without the last.     *)
LEMMA LineCountIs ==
    ASSUME NEW C, NEW t \in Seq(C), t # << >>
    PROVE  LineCount(t) = LineOf(t, Len(t)) + (IF Last(t) = NL THEN 0 ELSE 1)
BY NewlinesAre DEF LineCount

(* Lines that have another one behind them end in a newline.               *)
LEMMA RowEnds ==
    ASSUME NEW C, NEW a \in Seq(C), a # << >>, Last(a) = NL,
           NEW l \in 0..LineOf(a, Len(a)), l # LineOf(a, Len(a))
    PROVE  Eol(a, LineStart(a, l)) # Len(a)
<1> DEFINE m == Len(a)
           n == LineOf(a, m)
           s == LineStart(a, l)
           e == Eol(a, s)
<1>1. m \in Nat \ {0} /\ At(a, m - 1) = NL
  BY LastAt
<1>2. n \in Nat
  BY <1>1, LineOfIs
<1>3. s \in 0..m /\ LineOf(a, s) = l
  <2>1. CASE l = 0
    <3>1. s = 0
      BY <2>1 DEF LineStart
    <3> QED BY <1>1, <2>1, <3>1, LineOfZero
  <2>2. CASE l # 0
    <3>1. l \in 1..n
      <4> HIDE DEF n
      <4>1. l \in 0..n
        BY DEF n
      <4> QED BY <1>2, <2>2, <4>1
    <3>2. s \in 1..m /\ LineOf(a, s) = l
      BY <3>1, LineBegins
    <3> QED BY <1>1, <3>2
  <2> QED BY <2>1, <2>2
<1>4. s # m
  BY <1>3
<1> HIDE DEF s
<1>5. \A q \in s..(e - 1) : At(a, q) # NL
  BY <1>3, OnTheLine
<1> SUFFICES ASSUME e = m PROVE FALSE
  BY DEF s
<1> HIDE DEF e, m
<1>6. m - 1 \in s..(e - 1)
  BY <1>1, <1>3, <1>4
<1> QED BY <1>1, <1>5, <1>6

(* The rows of a text are texts.                                           *)
LEMMA RowsType ==
    ASSUME NEW C, NEW t \in Seq(C)
    PROVE  Rows(t) \in Seq(Seq(C))
<1>1. CASE t = << >>
  BY <1>1 DEF Rows
<1>2. CASE t # << >>
  BY <1>2, RowsAre
<1> QED BY <1>1, <1>2

(* If the first of two texts ends in a newline, their rows are the rows of *)
(* the one and then of the other.                                          *)
LEMMA RowsJoin ==
    ASSUME NEW C, NEW a \in Seq(C), NEW b \in Seq(C), Ended(a), NEW x, x = a \o b
    PROVE  Rows(x) = Rows(a) \o Rows(b) /\ Len(Rows(a)) = LineOf(a, Len(a))
<1> DEFINE m == Len(a)
           n == Len(b)
           k == LineOf(a, m)
           j == LineOf(b, n)
           S == Seq(C)
<1>1. m \in Nat /\ n \in Nat /\ k \in Nat /\ j \in Nat
  BY LineOfIs
<1>2. Rows(a) \in Seq(S) /\ Rows(b) \in Seq(S)
  BY RowsType
<1>3. CASE a = << >>
  <2>1. Rows(a) = << >> /\ m = 0
    BY <1>3 DEF Rows
  <2>2. k = 0
    BY <2>1, LineOfZero
  <2>3. x = b
    BY <1>3, ConcatEmptySeq
  <2>4. << >> \o Rows(b) = Rows(b)
    <3> HIDE DEF S
    <3> QED BY <1>2, ConcatEmptySeq
  <2> QED BY <2>1, <2>2, <2>3, <2>4
<1>4. CASE a # << >>
  <2>1. Last(a) = NL /\ At(a, Len(a) - 1) = NL
    <3>1. Last(a) = NL
      BY <1>4 DEF Ended
    <3> QED BY <1>4, <3>1, LastAt
  <2>2. LineCount(a) = k
    <3>1. LineCount(a) = k + 0
      BY <1>4, <2>1, LineCountIs
    <3> HIDE DEF k
    <3> QED BY <1>1, <3>1
  <2>3. Len(Rows(a)) = k /\ \A l \in 1..k : Rows(a)[l] = Row(a, l - 1)
    BY <1>4, <2>2, RowsAre
  <2>4. CASE b = << >>
    <3>1. x = a
      BY <2>4, ConcatEmptySeq
    <3>2. Rows(b) = << >>
      BY <2>4 DEF Rows
    <3>3. Rows(a) \o << >> = Rows(a)
      <4> HIDE DEF S
      <4> QED BY <1>2, ConcatEmptySeq
    <3> QED BY <2>3, <3>1, <3>2, <3>3
  <2>5. CASE b # << >>
    <3> DEFINE d == IF Last(b) = NL THEN 0 ELSE 1
               c == LineCount(b)
               r == Rows(a) \o Rows(b)
    <3>1. c = j + d
      BY <2>5, LineCountIs
    <3>2. Len(Rows(b)) = c /\ \A l \in 1..c : Rows(b)[l] = Row(b, l - 1)
      BY <2>5, RowsAre
    <3>3. x \in Seq(C) /\ Len(x) = m + n /\ x # << >>
      <4>1. x \in Seq(C) /\ Len(x) = Len(a) + Len(b)
        BY JoinAt
      <4>2. m # 0
        BY <1>4
      <4> HIDE DEF m, n
      <4>3. m + n # 0
        BY <1>1, <4>2
      <4> QED BY <4>1, <4>3 DEF m, n
    <3>4. LineOf(x, m + n) = k + j
      <4>1. CountsOn(x, a, b)
        BY JoinLineOf
      <4>2. n \in 0..n
        BY <1>1
      <4> QED BY <4>1, <4>2 DEF CountsOn
    <3>5. Last(x) = Last(b)
      <4>1. Continues(x, a, b)
        BY JoinAt
      <4>2. At(b, n - 1) = Last(b) /\ n \in Nat \ {0}
        BY <2>5, LastAt
      <4>3. At(x, Len(x) - 1) = Last(x)
        BY <3>3, LastAt
      <4> DEFINE q == n - 1
      <4>4. q \in 0..(n - 1) /\ (m + n) - 1 = m + q
        <5> HIDE DEF m, n
        <5> QED BY <1>1, <4>2
      <4> HIDE DEF q
      <4>5. At(x, m + q) = At(b, q)
        BY <4>1, <4>4 DEF Continues
      <4> QED BY <3>3, <4>2, <4>3, <4>4, <4>5 DEF q
    <3>6. LineCount(x) = k + c
      <4>1. LineCount(x) = (k + j) + d
        BY <3>3, <3>4, <3>5, LineCountIs
      <4>2. d \in Nat
        OBVIOUS
      <4> HIDE DEF k, j, d
      <4> QED BY <1>1, <3>1, <4>1, <4>2
    <3>7. Rows(x) \in Seq(S) /\ Len(Rows(x)) = k + c /\ \A l \in 1..(k + c) : Rows(x)[l] = Row(x, l - 1)
      BY <3>3, <3>6, RowsAre
    <3>8. c \in Nat /\ c <= j + 1
      <4>1. d \in {0, 1}
        OBVIOUS
      <4> HIDE DEF j, d, c
      <4> QED BY <1>1, <3>1, <4>1
    <3>9. r \in Seq(S) /\ Len(r) = k + c /\ (\A i \in 1..k : r[i] = Rows(a)[i])
          /\ (\A i \in 1..c : r[i + k] = Rows(b)[i])
      <4> DEFINE y == Rows(a)
                 z == Rows(b)
      <4>1. y \in Seq(S) /\ z \in Seq(S) /\ Len(y) = k /\ Len(z) = c
        BY <1>2, <2>3, <3>2
      <4> HIDE DEF y, z, S, k, c
      <4>2. Len(y \o z) = k + c /\ y \o z \in Seq(S)
        BY <4>1, Concat
      <4>3. (\A i \in 1..k : (y \o z)[i] = y[i]) /\ (\A i \in 1..c : (y \o z)[i + k] = z[i])
        BY <1>1, <3>8, <4>1
      <4> QED BY <4>2, <4>3 DEF y, z
    <3>10. ASSUME NEW i \in 1..(k + c) PROVE Rows(x)[i] = r[i]
      <4>1. Rows(x)[i] = Row(x, i - 1)
        BY <3>7
      <4>2. CASE i <= k
        <5> DEFINE l == i - 1
        <5>1. i \in 1..k /\ l \in 0..k /\ l # k
          <6> HIDE DEF k, c
          <6> QED BY <1>1, <3>8, <4>2
        <5> HIDE DEF l
        <5>2. Eol(a, LineStart(a, l)) # Len(a)
          BY <1>4, <2>1, <5>1, RowEnds
        <5>3. Row(x, l) = Row(a, l)
          BY <5>1, <5>2, RowOfFirst
        <5> QED BY <2>3, <3>9, <4>1, <5>1, <5>3 DEF l
      <4>3. CASE ~ (i <= k)
        <5> DEFINE l == (i - k) - 1
        <5>1. i - k \in 1..c /\ (i - k) + k = i /\ l \in 0..j /\ i - 1 = k + l
          <6> HIDE DEF k, c, j
          <6> QED BY <1>1, <3>8, <4>3
        <5>2. r[i] = Row(b, l)
          <6> HIDE DEF r, k, c, j
          <6> QED BY <3>2, <3>9, <5>1
        <5> HIDE DEF l
        <5>3. Row(x, i - 1) = Row(b, l)
          <6>1. l \in 0..LineOf(b, Len(b)) /\ i - 1 = LineOf(a, Len(a)) + l
            BY <5>1
          <6>2. Row(x, LineOf(a, Len(a)) + l) = Row(b, l)
            <7>1. RowBehind(x, a, b, l)
              BY <1>4, <2>1, <6>1, RowOfSecond
            <7> QED BY <7>1 DEF RowBehind
          <6> QED BY <6>1, <6>2
        <5> QED BY <4>1, <5>2, <5>3
      <4> QED BY <4>2, <4>3
    <3> HIDE DEF r, k, c, S
    <3>11. Len(Rows(x)) = Len(r) /\ \A i \in 1..Len(Rows(x)) : Rows(x)[i] = r[i]
      BY <3>7, <3>9, <3>10
    <3>12. Rows(x) = r
      BY ONLY <3>7, <3>9, <3>11, SeqEqual
    <3> QED BY <2>3, <3>12 DEF r, k
  <2> QED BY <2>4, <2>5
<1> QED BY <1>3, <1>4

(* A newline behind a text without one makes no other row of it.           *)
LEMMA RowsEnded ==
    ASSUME NEW C, NL \in C, NEW y \in Seq(C), y # << >>, Last(y) # NL,
           NEW z, z = y \o <<NL>>
    PROVE  z \in Seq(C) /\ Ended(z) /\ Rows(z) = Rows(y)
<1> DEFINE w == <<NL>>
           m == Len(y)
           k == LineOf(y, m)
           S == Seq(C)
<1>1. w \in Seq(C) /\ Len(w) = 1 /\ w # << >> /\ m \in Nat /\ k \in Nat
  BY LineOfIs
<1>2. At(w, 0) = NL
  BY DEF At
<1> HIDE DEF w
<1>3. z \in Seq(C) /\ Len(z) = m + 1 /\ z # << >>
  <2>1. z = y \o w
    BY DEF w
  <2>2. z \in Seq(C) /\ Len(z) = Len(y) + Len(w)
    BY <1>1, <2>1, JoinAt
  <2>3. m + 1 # 0
    <3> HIDE DEF m
    <3> QED BY <1>1
  <2> QED BY <1>1, <2>2, <2>3
<1>4. LineOf(z, m + 1) = k + 1
  <2>1. CountsOn(z, y, w)
    <3>1. z = y \o w
      BY DEF w
    <3> QED BY <1>1, <3>1, JoinLineOf
  <2>2. LineOf(w, 1) = 1
    <3>1. 0 \in Nat /\ 0 <= 0 /\ 0 + 1 = 1
      OBVIOUS
    <3>2. LineOf(w, 0 + 1) = LineOf(w, 0) + (IF At(w, 0) = NL THEN 1 ELSE 0)
      BY ONLY <3>1, LineOfGrows
    <3>3. LineOf(w, 0) = 0
      BY LineOfZero
    <3> QED BY <1>2, <3>1, <3>2, <3>3
  <2>3. 1 \in 0..Len(w)
    BY <1>1
  <2> QED BY <2>1, <2>2, <2>3 DEF CountsOn
<1>5. Last(z) = NL
  <2>1. Continues(z, y, w)
    <3>1. z = y \o w
      BY DEF w
    <3> QED BY <1>1, <3>1, JoinAt
  <2>2. At(z, m + 0) = At(w, 0)
    <3>1. 0 \in 0..(Len(w) - 1)
      BY <1>1
    <3> QED BY <2>1, <3>1 DEF Continues
  <2>3. At(z, Len(z) - 1) = Last(z)
    BY <1>3, LastAt
  <2>4. (m + 1) - 1 = m + 0
    <3> HIDE DEF m
    <3> QED BY <1>1
  <2> QED BY <1>2, <1>3, <2>2, <2>3, <2>4
<1>6. LineCount(z) = k + 1 /\ LineCount(y) = k + 1
  <2>1. LineCount(z) = (k + 1) + 0
    BY <1>3, <1>4, <1>5, LineCountIs
  <2>2. LineCount(y) = k + 1
    BY LineCountIs
  <2> HIDE DEF k
  <2> QED BY <1>1, <2>1, <2>2
<1>7. /\ Rows(z) \in Seq(S) /\ Len(Rows(z)) = k + 1
      /\ \A l \in 1..(k + 1) : Rows(z)[l] = Row(z, l - 1)
  BY <1>3, <1>6, RowsAre
<1>8. /\ Rows(y) \in Seq(S) /\ Len(Rows(y)) = k + 1
      /\ \A l \in 1..(k + 1) : Rows(y)[l] = Row(y, l - 1)
  BY <1>6, RowsAre
<1>9. ASSUME NEW i \in 1..(k + 1) PROVE Rows(z)[i] = Rows(y)[i]
  <2> DEFINE l == i - 1
  <2>1. l \in 0..k
    <3> HIDE DEF k
    <3> QED BY <1>1
  <2> HIDE DEF l
  <2>2. Row(z, l) = Row(y, l)
    <3>1. z = y \o w
      BY DEF w
    <3> QED BY <1>1, <1>2, <2>1, <3>1, RowOfFirst
  <2> QED BY <1>7, <1>8, <2>2 DEF l
<1> HIDE DEF S, k
<1>10. Len(Rows(z)) = Len(Rows(y)) /\ \A i \in 1..Len(Rows(z)) : Rows(z)[i] = Rows(y)[i]
  BY <1>7, <1>8, <1>9
<1>11. Rows(z) = Rows(y)
  BY ONLY <1>7, <1>8, <1>10, SeqEqual
<1> QED BY <1>3, <1>5, <1>11 DEF Ended

(* The beginning of a text up to behind a newline ends in it.              *)
LEMMA BeginningEnded ==
    ASSUME NEW C, NEW t \in Seq(C), NEW p \in 0..Len(t), p # 0 => At(t, p - 1) = NL
    PROVE  Ended(First(t, p))
<1> DEFINE a == First(t, p)
<1>1. a \in Seq(C) /\ Len(a) = p /\ \A i \in 1..p : a[i] = t[i]
  BY PartsAt
<1> HIDE DEF a
<1>2. CASE p = 0
  <2>1. a = << >>
    BY <1>1, <1>2
  <2> QED BY <2>1 DEF Ended, a
<1>3. CASE p # 0
  <2>1. a # << >>
    BY <1>1, <1>3
  <2>2. Last(a) = At(a, p - 1)
    BY <1>1, <2>1, LastAt
  <2> DEFINE q == p - 1
  <2>3. q \in 0..(Len(a) - 1) /\ q \in 0..(Len(t) - 1) /\ q + 1 \in 1..p
    <3>1. Len(t) \in Nat
      OBVIOUS
    <3> QED BY <1>1, <1>3, <3>1
  <2> HIDE DEF q
  <2>4. At(a, q) = a[q + 1] /\ At(t, q) = t[q + 1]
    BY <2>3 DEF At
  <2>5. Last(a) = NL
    BY <1>1, <1>3, <2>2, <2>3, <2>4 DEF q
  <2> QED BY <2>5 DEF Ended, a
<1> QED BY <1>2, <1>3

(* Where whole lines go in: a line begins there, that of the cursor or the *)
(* next.                                                                   *)
LEMMA PutPlace ==
    ASSUME NEW C, NEW t \in Seq(C), NEW c \in 0..Len(t), Ended(t),
           NEW p, p = Bol(t, c) \/ p = Min({Eol(t, c) + 1, Len(t)})
    PROVE  /\ p \in 0..Len(t) /\ Ended(First(t, p))
           /\ LineOf(t, p) \in {LineOf(t, c), LineOf(t, c) + 1}
<1> DEFINE n == Len(t)
           b == Bol(t, c)
           e == Eol(t, c)
<1>1. n \in Nat /\ c \in Nat /\ c <= n
  OBVIOUS
<1>2. /\ b \in 0..c /\ (\A q \in b..(c - 1) : At(t, q) # NL) /\ (b # 0 => At(t, b - 1) = NL)
  BY OnTheLine
<1>3. /\ e \in c..n /\ (\A q \in c..(e - 1) : At(t, q) # NL) /\ (e # n => At(t, e) = NL)
  BY OnTheLine
<1>4. CASE p = b
  <2> HIDE DEF b
  <2>1. p \in Nat /\ p <= c
    BY <1>1, <1>2, <1>4
  <2>2. LineOf(t, p) = LineOf(t, c)
    BY <1>1, <1>2, <1>4, <2>1, LineOfGrows
  <2>3. p \in 0..n
    <3> HIDE DEF n
    <3> QED BY <1>1, <2>1
  <2>4. Ended(First(t, p))
    BY <1>2, <1>4, <2>3, BeginningEnded
  <2> QED BY <2>2, <2>3, <2>4
<1>5. CASE p = Min({e + 1, n})
  <2>1. p = IF e + 1 <= n THEN e + 1 ELSE n
    <3> HIDE DEF e, n
    <3>1. e + 1 \in Int /\ n \in Int
      BY <1>1, <1>3
    <3> QED BY <1>5, <3>1, OfTwo
  <2>2. CASE e < n
    <3>1. p = e + 1 /\ p \in 0..n /\ p - 1 = e /\ e # n
      <4> HIDE DEF e, n
      <4> QED BY <1>1, <1>3, <2>1, <2>2
    <3>2. LineOf(t, e + 1) = LineOf(t, c) + 1
      BY <2>2, LineStartNext
    <3>3. Ended(First(t, p))
      BY <1>3, <3>1, BeginningEnded
    <3> QED BY <3>1, <3>2, <3>3
  <2>3. CASE ~ (e < n)
    <3>1. p = n /\ e = n /\ p \in 0..n
      <4> HIDE DEF e, n
      <4> QED BY <1>1, <1>3, <2>1, <2>3
    <3>2. LineOf(t, n) = LineOf(t, c)
      <4> HIDE DEF e, n
      <4> QED BY <1>1, <1>3, <3>1, LineOfGrows
    <3>3. p # 0 => At(t, p - 1) = NL
      <4> SUFFICES ASSUME p # 0 PROVE At(t, p - 1) = NL
        OBVIOUS
      <4>1. t # << >>
        BY <3>1
      <4>2. Last(t) = NL
        BY <4>1 DEF Ended
      <4> QED BY <3>1, <4>1, <4>2, LastAt
    <3>4. Ended(First(t, p))
      BY <3>1, <3>3, BeginningEnded
    <3> QED BY <3>1, <3>2, <3>4
  <2> QED BY <2>2, <2>3
<1> QED BY <1>4, <1>5

(* Two texts are told apart again.                                         *)
LEMMA PartsOfTwo ==
    ASSUME NEW C, NEW x \in Seq(C), NEW y \in Seq(C)
    PROVE  First(x \o y, Len(x)) = x /\ From(x \o y, Len(x)) = y
<1> DEFINE s == << >>
<1>1. s \in Seq(C) /\ Len(s) = 0
  OBVIOUS
<1>2. x \o s = x
  BY ConcatEmptySeq
<1> HIDE DEF s
<1>3. First(x \o s \o y, Len(x)) = x /\ From(x \o s \o y, Len(x) + Len(s)) = y
  <2>1. x \in Seq(C) /\ y \in Seq(C) /\ s \in Seq(C)
    BY <1>1
  <2> QED BY ONLY <2>1, PartsOfBetween
<1>4. Len(x) + Len(s) = Len(x)
  BY <1>1
<1> QED BY <1>2, <1>3, <1>4

\* Three sequences joined are the same whichever two are joined first.
Associates(f, g, h) == (f \o g) \o h = f \o (g \o h)

(* So it is for all sequences over a set.                                  *)
LEMMA Associative ==
    ASSUME NEW D, NEW f \in Seq(D), NEW g \in Seq(D), NEW h \in Seq(D)
    PROVE  g \o h \in Seq(D) /\ Associates(f, g, h)
BY ConcatAssociative DEF Associates

(* What is put in where a line begins is added to the rows.                *)
LEMMA RowsPut ==
    ASSUME NEW C, NL \in C, NEW t \in Seq(C), NEW p \in 0..Len(t), Ended(First(t, p)),
           NEW y \in Seq(C), y # << >>,
           NEW z, z = IF Last(y) # NL THEN y \o <<NL>> ELSE y,
           NEW x, x = First(t, p) \o z \o From(t, p)
    PROVE  Rows(x) = First(Rows(t), LineOf(t, p)) \o Rows(y) \o From(Rows(t), LineOf(t, p))
<1> DEFINE a == First(t, p)
           b == From(t, p)
           k == LineOf(t, p)
<1>1. a \in Seq(C) /\ b \in Seq(C) /\ Len(a) = p /\ t = a \o b
  BY PartsAt, Whole
<1>2. z \in Seq(C) /\ Ended(z) /\ Rows(z) = Rows(y)
  <2>1. CASE Last(y) # NL
    <3>1. z = y \o <<NL>>
      BY <2>1
    <3> QED BY <2>1, <3>1, RowsEnded
  <2>2. CASE Last(y) = NL
    BY <2>2 DEF Ended
  <2> QED BY <2>1, <2>2
<1>3. Ended(a)
  OBVIOUS
<1>4. x = a \o z \o b
  OBVIOUS
<1> HIDE DEF a, b
<1>5. z \o b \in Seq(C) /\ (a \o z) \o b = a \o (z \o b)
  <2>1. a \in Seq(C) /\ z \in Seq(C) /\ b \in Seq(C)
    BY <1>1, <1>2
  <2>2. z \o b \in Seq(C) /\ Associates(a, z, b)
    BY ONLY <2>1, Associative, Zenon
  <2> QED BY ONLY <2>2 DEF Associates
<1> DEFINE v == z \o b
<1>6. Rows(v) = Rows(z) \o Rows(b)
  BY <1>1, <1>2, RowsJoin
<1> HIDE DEF v
<1>7. Rows(x) = Rows(a) \o Rows(v)
  <2>1. v \in Seq(C) /\ (a \o z) \o b = a \o v
    BY ONLY <1>5 DEF v
  <2>2. x = a \o v
    BY ONLY <1>4, <2>1, Zenon
  <2> QED BY <1>1, <1>3, <2>1, <2>2, RowsJoin
<1>8. Rows(t) = Rows(a) \o Rows(b) /\ Len(Rows(a)) = k
  <2>1. Rows(t) = Rows(a) \o Rows(b) /\ Len(Rows(a)) = LineOf(a, Len(a))
    BY <1>1, <1>3, RowsJoin
  <2>2. LineOf(t, p) = LineOf(a, p)
    <3>1. CountsOn(t, a, b)
      BY <1>1, JoinLineOf
    <3>2. p \in 0..Len(a)
      BY <1>1
    <3> QED BY <3>1, <3>2 DEF CountsOn
  <2> QED BY <1>1, <2>1, <2>2
<1> DEFINE S == Seq(C)
           ra == Rows(a)
           rb == Rows(b)
           ry == Rows(y)
<1>9. ra \in Seq(S) /\ rb \in Seq(S) /\ ry \in Seq(S)
  BY <1>1, RowsType
<1>10. Rows(x) = ra \o (ry \o rb)
  BY <1>2, <1>6, <1>7
<1>11. Rows(t) = ra \o rb /\ Len(ra) = k
  BY <1>8
<1> HIDE DEF ra, rb, ry, k, S
<1>12. (ra \o ry) \o rb = ra \o (ry \o rb)
  BY <1>9, ConcatAssociative
<1>13. First(Rows(t), k) = ra /\ From(Rows(t), k) = rb
  BY <1>9, <1>11, PartsOfTwo
<1>14. Rows(x) = First(Rows(t), k) \o ry \o From(Rows(t), k)
  BY <1>10, <1>12, <1>13
<1> QED BY <1>14 DEF k, ry

(* What whole lines put in make of a text with room for them.              *)
LEMMA PutInIs ==
    ASSUME NEW C, NL \in C, NEW e \in Editing(C), NEW p \in 0..Len(e.text),
           e.yank.line, e.yank.text # << >>, Len(e.text) + Len(e.yank.text) < Capacity
    PROVE  /\ e.yank.text \in Seq(C)
           /\ PutIn(e, p) = First(e.text, p)
                            \o (IF Last(e.yank.text) # NL THEN e.yank.text \o <<NL>> ELSE e.yank.text)
                            \o From(e.text, p)
<1> DEFINE t == e.text
           y == e.yank.text
           n == Len(y)
           a == First(t, p)
           b == From(t, p)
           x == Inserted(t, p, y)
           w == <<NL>>
<1>1. t \in Texts(C, Capacity) /\ t \in Seq(C) /\ Len(t) \in Nat /\ p \in Nat /\ Capacity \in Nat
  BY EditorHas, LimitsAssumption DEF Texts
<1>2. y \in Seq(C) /\ n \in Nat
  <2>1. y \in Texts(C, YankMax - 1)
    BY EditorHas DEF YankRecords
  <2> QED BY <2>1 DEF Texts
<1>3. Len(t) + n <= Capacity /\ (Len(t) + n) + 1 <= Capacity
  <2> DEFINE m == Len(t)
  <2>1. m \in Nat /\ n \in Nat /\ m + n < Capacity
    BY <1>1, <1>2
  <2> HIDE DEF m, n
  <2>2. m + n <= Capacity /\ (m + n) + 1 <= Capacity
    BY <1>1, <2>1
  <2> QED BY <2>2 DEF m
<1>4. a \in Seq(C) /\ b \in Seq(C) /\ Len(a) = p
  <2> HIDE DEF t
  <2>1. p \in 0..Len(t)
    BY DEF t
  <2> QED BY <1>1, <2>1, PartsAt
<1>5. Room(t, y) = y /\ x \in Texts(C, Capacity) /\ Len(x) = Len(t) + Len(Room(t, y))
  <2> HIDE DEF t, y
  <2> QED BY <1>1, <1>2, <1>3, InsertedIs
<1>6. x = a \o y \o b
  BY <1>5 DEF Inserted
<1>7. PutIn(e, p) = IF Last(y) # NL THEN Inserted(x, p + n, w) ELSE x
  BY DEF PutIn
<1>8. w \in Seq(C) /\ Len(w) = 1
  OBVIOUS
<1> HIDE DEF w
<1>9. Inserted(x, p + n, w) = a \o (y \o w) \o b
  <2> DEFINE f == a \o y
             q == p + n
  <2> HIDE DEF t, y, x, a, b
  <2>1. f \in Seq(C) /\ Len(f) = q /\ q \in Nat
    <3>1. a \o y \in Seq(C) /\ Len(a \o y) = Len(a) + Len(y)
      <4>1. a \in Seq(C) /\ y \in Seq(C)
        BY <1>2, <1>4
      <4> QED BY ONLY <4>1, Concat
    <3> HIDE DEF n
    <3>2. q \in Nat
      BY <1>1, <1>2
    <3> QED BY <1>4, <3>1, <3>2 DEF n
  <2>2. Room(x, w) = w
    <3>1. Len(x) + Len(w) <= Capacity
      BY <1>3, <1>5, <1>8
    <3>2. x \in Texts(C, Capacity) /\ w \in Seq(C) /\ q \in Nat
      BY <1>5, <1>8, <2>1
    <3> HIDE DEF q
    <3> QED BY ONLY <3>1, <3>2, InsertedIs
  <2>3. x = f \o b
    BY <1>6
  <2> HIDE DEF f, q
  <2>4. First(x, q) = f /\ From(x, q) = b
    BY <1>4, <2>1, <2>3, PartsOfTwo
  <2>5. Inserted(x, q, w) = f \o w \o b
    BY <2>2, <2>4 DEF Inserted
  <2>6. (a \o y) \o w = a \o (y \o w)
    BY <1>2, <1>4, <1>8, ConcatAssociative
  <2> QED BY <2>5, <2>6 DEF f, q
<1> QED BY <1>2, <1>6, <1>7, <1>9 DEF w

(* p and P of whole lines add them as lines.                               *)
LEMMA PutKeeps ==
    ASSUME NEW C, AlphabetOK(C), NEW e \in Editing(C), e.cur_pos \in 0..Len(e.text), Ended(e.text),
           e.yank.line, e.yank.text # << >>, Len(e.text) + Len(e.yank.text) < Capacity,
           NEW g, g = PutAfter(e) \/ g = PutBefore(e)
    PROVE  /\ g \in Editing(C)
           /\ \E k \in {LineOf(e.text, e.cur_pos), LineOf(e.text, e.cur_pos) + 1} :
                 Rows(g.text) = First(Rows(e.text), k) \o Rows(e.yank.text) \o From(Rows(e.text), k)
<1> DEFINE t == e.text
           c == e.cur_pos
           y == e.yank.text
           z == IF Last(y) # NL THEN y \o <<NL>> ELSE y
<1>1. PICK p : /\ p = Bol(t, c) \/ p = Min({Eol(t, c) + 1, Len(t)})
               /\ g = CursorAt(PutAt(e, p), p)
  BY DEF PutAfter, PutBefore
<1>2. t \in Seq(C) /\ c \in 0..Len(t) /\ Ended(t)
  BY EditorHas DEF Texts
<1>3. p \in 0..Len(t) /\ Ended(First(t, p)) /\ LineOf(t, p) \in {LineOf(t, c), LineOf(t, c) + 1}
  <2> HIDE DEF t, c
  <2> QED BY <1>1, <1>2, PutPlace
<1>4. g \in Editing(C) /\ g.text = PutIn(e, p)
  BY <1>1, <1>3, PutAtIs DEF Result
<1>5. NL \in C
  BY DEF AlphabetOK
<1>6. y \in Seq(C) /\ PutIn(e, p) = First(t, p) \o z \o From(t, p)
  BY <1>3, <1>5, PutInIs
<1>7. y # << >>
  OBVIOUS
<1> DEFINE x == g.text
<1>8. x = First(t, p) \o z \o From(t, p)
  BY <1>4, <1>6
<1>9. z = IF Last(y) # NL THEN y \o <<NL>> ELSE y
  OBVIOUS
<1> HIDE DEF t, c, y, z, x
<1>10. Rows(x) = First(Rows(t), LineOf(t, p)) \o Rows(y) \o From(Rows(t), LineOf(t, p))
  BY ONLY <1>2, <1>3, <1>5, <1>6, <1>7, <1>8, <1>9, RowsPut
<1> QED BY <1>3, <1>4, <1>10 DEF t, c, y, x

(* p and P of whole lines add them as lines, and leave every other line as *)
(* it is (normal_misc_cmd): in texts whose last line has its newline, in   *)
(* buffers with room for them.                                             *)
THEOREM EditCommandsRows == Spec => PutKeepsLines
<1>1. Init => IInv
  BY IInvInit
<1>2. IInv /\ [Next]_vars => IInv'
  BY IInvNext, IInvSame
<1>3. ASSUME IInv, Put, ed.yank.line, ed.yank.text # << >>, Ended(ed.text),
             Len(ed.text) + Len(ed.yank.text) < Capacity
      PROVE  \E k \in {LineOf(ed.text, ed.cur_pos), LineOf(ed.text, ed.cur_pos) + 1} :
                 Rows(ed'.text) = First(Rows(ed.text), k) \o Rows(ed.yank.text)
                                  \o From(Rows(ed.text), k)
  <2> DEFINE C == Characters(user)
             t == ed.text
             p == ed.cur_pos
  <2>1. PICK g : (g = PutAfter(ed) \/ g = PutBefore(ed)) /\ Takes(g)
    BY <1>3 DEF Put, Does, Step
  <2>2. AlphabetOK(C) /\ ed \in Editing(C)
    BY <1>3, UserAlphabet DEF IInv, Fine
  <2> HIDE DEF C
  <2>3. p \in 0..Len(t)
    <3>1. t \in Seq(C) /\ p \in Nat /\ Len(t) \in Nat
      BY <2>2, EditorHas DEF Texts
    <3>2. p <= Len(t)
      BY <2>1 DEF Takes
    <3> HIDE DEF t, p
    <3> QED BY <3>1, <3>2
  <2>4. /\ g \in Editing(C)
        /\ \E k \in {LineOf(ed.text, ed.cur_pos), LineOf(ed.text, ed.cur_pos) + 1} :
              Rows(g.text) = First(Rows(ed.text), k) \o Rows(ed.yank.text) \o From(Rows(ed.text), k)
    BY <1>3, <2>1, <2>2, <2>3, PutKeeps
  <2>5. ed'.text = g.text
    <3>1. Counted(g).text = g.text
      BY <2>4, CountedIs, FieldsAre DEF TextIs
    <3> QED BY <2>1, <3>1 DEF Takes
  <2> QED BY <2>4, <2>5
<1>4. IInv /\ [Next]_vars =>
        [( /\ Put /\ ed.yank.line /\ ed.yank.text # << >>
           /\ Ended(ed.text) /\ Len(ed.text) + Len(ed.yank.text) < Capacity ) =>
          \E k \in {LineOf(ed.text, ed.cur_pos), LineOf(ed.text, ed.cur_pos) + 1} :
              Rows(ed'.text) = First(Rows(ed.text), k) \o Rows(ed.yank.text)
                               \o From(Rows(ed.text), k)]_vars
  BY <1>3
<1> QED BY <1>1, <1>2, <1>4, PTL DEF Spec, PutKeepsLines
=============================================================================
