-------------------------- MODULE FileWindowProofs --------------------------
(***************************************************************************)
(* What paging a file through the buffer keeps, for every set of names and *)
(* files, every user, and every size of the buffer and of a chunk:         *)
(*                                                                         *)
(*   WindowTypes                the types, with no further condition;      *)
(*   SeekReachesEndAlways       G reads on to the end of the file;         *)
(*   WindowImplementsDocument   the window, tail_file and the swap file    *)
(*                              together implement Document;               *)
(*   NothingLostUnasked         a document that counts as clean is in the  *)
(*                              file of its name;                          *)
(*   LinesAnchoredAlways        win_line_offset is the number of lines     *)
(*                              before the window.                         *)
(*                                                                         *)
(* The last three rest on one view of the state.  At says that tail_file is  *)
(* h, m and r one after the other, as they are written with CR LF: h is    *)
(* before the window, m is what the window was read from, r is behind it.  *)
(* The document is then h, the window's text and r.  A slide moves         *)
(* characters from one part to another (AtSlid), a reload cuts the same    *)
(* file elsewhere (ReloadAt), a save replaces m by the window (SavedAt).   *)
(* None of it changes h, window and r put together.  DocInv adds that      *)
(* a clean document is what its file holds, and that u, where the record   *)
(* was made of a clean document, would bring that document back.           *)
(***************************************************************************)
EXTENDS FileWindow, CpmTextProofs, FiniteSetTheorems

-----------------------------------------------------------------------------
(* Reading on from an offset.                                              *)

(* How many characters bytes off + 1 to j are.                             *)
ReadTo(b, off, j) == Len(Decode(SubSeq(b, off + 1, j)))

(* Byte j is the n-th character behind off.                                *)
Ends(b, off, n, j) == j \in (off + 1)..Len(b) /\ b[j] # CR /\ ReadTo(b, off, j) = n

(* A byte is a character more, unless it is a CR.                          *)
LEMMA ReadStep ==
    ASSUME NEW S, NEW b \in Seq(S), NEW off \in Nat, NEW j \in Nat, off <= j, j < Len(b)
    PROVE  /\ ReadTo(b, off, j) \in Nat
           /\ ReadTo(b, off, j + 1) = IF b[j + 1] = CR THEN ReadTo(b, off, j)
                                      ELSE ReadTo(b, off, j) + 1
<1> DEFINE a == SubSeq(b, off + 1, j)
           c == b[j + 1]
<1>1. c \in S /\ a \in Seq(S) /\ SubSeq(b, off + 1, j + 1) = Append(a, c)
  BY NextPart
<1> HIDE DEF a, c
<1>2. Decode(a) \in Seq(S \ {CR})
  BY <1>1, DecodeType
<1>3. Decode(Append(a, c)) = IF c = CR THEN Decode(a) ELSE Append(Decode(a), c)
  BY <1>1, DecodeAppend
<1>4. Len(Decode(a)) \in Nat
  BY <1>2
<1>5. c # CR => Len(Append(Decode(a), c)) = Len(Decode(a)) + 1
  <2>1. c # CR => c \in S \ {CR}
    BY <1>1
  <2> QED BY <1>2, <2>1, AppendProperties
<1>6. ReadTo(b, off, j) = Len(Decode(a)) /\ ReadTo(b, off, j + 1) = Len(Decode(Append(a, c)))
  BY <1>1 DEF ReadTo, a
<1> QED BY <1>3, <1>4, <1>5, <1>6 DEF c

(* At the offset nothing is read yet, at the end all.                      *)
LEMMA ReadBounds ==
    ASSUME NEW S, NEW b \in Seq(S), NEW off \in Nat
    PROVE  /\ ReadTo(b, off, off) = 0
           /\ ReadTo(b, off, Len(b)) = Len(Decode(From(b, off)))
<1>1. SubSeq(b, off + 1, off) = << >>
  OBVIOUS
<1>2. ReadTo(b, off, off) = Len(<< >>)
  BY <1>1, DecodeEmpty DEF ReadTo
<1> QED BY <1>2 DEF ReadTo, From

(* Further on no fewer are read.                                           *)
LEMMA ReadGrows ==
    ASSUME NEW S, NEW b \in Seq(S), NEW off \in Nat, NEW i \in Nat, NEW j \in Nat,
           off <= i, i <= j, j <= Len(b)
    PROVE  ReadTo(b, off, i) <= ReadTo(b, off, j) /\ ReadTo(b, off, j) \in Nat
<1> DEFINE R(k) == ReadTo(b, off, i + k)
           N == {k \in Nat : i + k <= Len(b) => R(k) \in Nat /\ ReadTo(b, off, i) <= R(k)}
<1>1. ReadTo(b, off, i) \in Nat
  <2>1. SubSeq(b, off + 1, i) \in Seq(S)
    <3>1. i \in 0..Len(b) /\ Len(b) \in Nat
      OBVIOUS
    <3> QED BY <3>1
  <2>2. Decode(SubSeq(b, off + 1, i)) \in Seq(S \ {CR})
    BY <2>1, DecodeType
  <2> QED BY <2>2 DEF ReadTo
<1>2. 0 \in N
  BY <1>1
<1>3. ASSUME NEW k \in Nat, k \in N PROVE k + 1 \in N
  <2> SUFFICES ASSUME i + (k + 1) <= Len(b)
               PROVE  R(k + 1) \in Nat /\ ReadTo(b, off, i) <= R(k + 1)
    OBVIOUS
  <2>1. /\ i + k \in Nat /\ off <= i + k /\ i + k < Len(b) /\ i + (k + 1) = (i + k) + 1
        /\ Len(b) \in Nat
    OBVIOUS
  <2>2. R(k) \in Nat /\ ReadTo(b, off, i) <= R(k)
    BY <1>3, <2>1
  <2>3. ReadTo(b, off, (i + k) + 1) = IF b[(i + k) + 1] = CR THEN R(k) ELSE R(k) + 1
    BY <2>1, ReadStep
  <2>4. R(k + 1) = IF b[(i + k) + 1] = CR THEN R(k) ELSE R(k) + 1
    BY <2>1, <2>3
  <2> HIDE DEF R
  <2> QED BY <1>1, <2>2, <2>4
<1>4. Nat \subseteq N
  <2> HIDE DEF N
  <2> QED BY <1>2, <1>3, Induction
<1>5. PICK k \in Nat : i + k = j
  <2>1. j - i \in Nat /\ i + (j - i) = j
    OBVIOUS
  <2> QED BY <2>1
<1>6. k \in N
  <2> HIDE DEF N
  <2> QED BY <1>4, <1>5
<1> QED BY <1>5, <1>6

(* There is one place where the n-th character ends.                       *)
LEMMA EndsOnce ==
    ASSUME NEW S, NEW b \in Seq(S), NEW off \in Nat, NEW n, NEW i, NEW j,
           Ends(b, off, n, i), Ends(b, off, n, j)
    PROVE  i = j
<1>1. ASSUME NEW k, NEW l, Ends(b, off, n, k), Ends(b, off, n, l), k < l PROVE FALSE
  <2>1. /\ k \in Nat /\ l \in Nat /\ l - 1 \in Nat /\ off <= k /\ k <= l - 1 /\ l - 1 <= Len(b)
        /\ off <= l - 1 /\ l - 1 < Len(b) /\ (l - 1) + 1 = l /\ b[l] # CR
    BY <1>1 DEF Ends
  <2>2. ReadTo(b, off, k) <= ReadTo(b, off, l - 1) /\ ReadTo(b, off, l - 1) \in Nat
    BY <2>1, ReadGrows
  <2>3. ReadTo(b, off, (l - 1) + 1) = ReadTo(b, off, l - 1) + 1
    BY <2>1, ReadStep
  <2>4. ReadTo(b, off, k) = n /\ ReadTo(b, off, l) = n
    BY <1>1 DEF Ends
  <2> QED BY <2>1, <2>2, <2>3, <2>4
<1>2. ~ i < j /\ ~ j < i
  BY <1>1
<1>3. i \in Int /\ j \in Int
  BY DEF Ends
<1> QED BY <1>2, <1>3

(* And there is one, if there are that many.                               *)
LEMMA EndsSomewhere ==
    ASSUME NEW S, NEW b \in Seq(S), NEW off \in Nat, NEW n \in Nat \ {0},
           n <= Len(Decode(From(b, off)))
    PROVE  \E j : Ends(b, off, n, j)
<1>1. Len(b) \in Nat
  OBVIOUS
<1>2. off <= Len(b)
  <2> SUFFICES ASSUME ~ off <= Len(b) PROVE FALSE
    OBVIOUS
  <2>1. From(b, off) = << >>
    BY <1>1 DEF From
  <2>2. Len(Decode(From(b, off))) = 0
    BY <2>1, DecodeEmpty
  <2> QED BY <2>2
<1> DEFINE T == {j \in Nat : off <= j /\ j <= Len(b) /\ ReadTo(b, off, j) >= n}
<1>3. Len(b) \in T
  BY <1>1, <1>2, ReadBounds
<1>4. PICK m \in T : \A k \in T : m <= k
  <2>1. T \subseteq Nat /\ T # {}
    BY <1>3
  <2> HIDE DEF T
  <2> QED BY <2>1, Least
<1>5. m # off /\ m \in Nat /\ off <= m /\ m <= Len(b) /\ ReadTo(b, off, m) >= n
  <2>1. ReadTo(b, off, off) = 0
    BY ReadBounds
  <2> QED BY <2>1
<1> DEFINE k == m - 1
<1>6. k \in Nat /\ off <= k /\ k < Len(b) /\ k + 1 = m
  BY <1>1, <1>5
<1>7. k \notin T
  <2>1. ~ m <= k
    BY <1>5
  <2> HIDE DEF T, k
  <2> QED BY <1>4, <2>1
<1>8. ~ ReadTo(b, off, k) >= n
  <2> HIDE DEF k
  <2> QED BY <1>1, <1>6, <1>7
<1>9. /\ ReadTo(b, off, k) \in Nat
      /\ ReadTo(b, off, k + 1) = IF b[k + 1] = CR THEN ReadTo(b, off, k)
                                 ELSE ReadTo(b, off, k) + 1
  <2> HIDE DEF k
  <2> QED BY <1>6, ReadStep
<1> HIDE DEF k, T
<1>10. b[m] # CR /\ ReadTo(b, off, m) = n
  BY <1>5, <1>6, <1>8, <1>9
<1>11. m \in (off + 1)..Len(b)
  BY <1>1, <1>5
<1>12. Ends(b, off, n, m)
  BY <1>10, <1>11 DEF Ends
<1> QED BY <1>12

(* After is that place.                                                    *)
LEMMA AfterEnds ==
    ASSUME NEW S, NEW b \in Seq(S), NEW off \in Nat, NEW n \in Nat \ {0},
           n <= Len(Decode(From(b, off)))
    PROVE  Ends(b, off, n, After(b, off, n)) /\ After(b, off, n) \in Nat
<1>1. PICK j : Ends(b, off, n, j)
  BY EndsSomewhere
<1>2. After(b, off, n) = CHOOSE i \in (off + 1)..Len(b) : b[i] # CR /\ ReadTo(b, off, i) = n
  BY DEF After, ReadTo
<1>3. \E i \in (off + 1)..Len(b) : b[i] # CR /\ ReadTo(b, off, i) = n
  BY <1>1 DEF Ends
<1>4. Ends(b, off, n, After(b, off, n))
  BY <1>2, <1>3 DEF Ends
<1>5. Len(b) \in Nat
  OBVIOUS
<1> QED BY <1>4, <1>5 DEF Ends
(* Texts written to files.                                                 *)

Byte == Char \cup {CR}

(* What is read is a text; a text written is bytes, and is read back.      *)
LEMMA Reads ==
    /\ \A b \in Seq(Byte) : Decode(b) \in Seq(Char)
    /\ \A t \in Seq(Char) : Encode(t) \in Seq(Byte) /\ Decode(Encode(t)) = t
<1>1. {CR, LF} \subseteq Byte /\ Byte \ {CR} = Char /\ CR # LF
  BY BytesAssumption DEF Byte
<1>2. ASSUME NEW b \in Seq(Byte) PROVE Decode(b) \in Seq(Char)
  BY <1>1, DecodeType
<1>3. ASSUME NEW t \in Seq(Char) PROVE Encode(t) \in Seq(Byte) /\ Decode(Encode(t)) = t
  <2>1. t \in Seq(Byte) /\ t \in Seq(Byte \ {CR})
    BY <1>1, SeqMonotonic
  <2> QED BY <1>1, <2>1, EncodeType, RoundTrip
<1> QED BY <1>2, <1>3

(* Two texts are written one after the other.                              *)
LEMMA EncodeBoth ==
    ASSUME NEW x \in Seq(Char), NEW y \in Seq(Char)
    PROVE  x \o y \in Seq(Char) /\ Encode(x \o y) = Encode(x) \o Encode(y)
<1>1. {CR, LF} \subseteq Byte /\ Char \subseteq Byte
  BY BytesAssumption DEF Byte
<1>2. x \in Seq(Byte) /\ y \in Seq(Byte)
  BY <1>1, SeqMonotonic
<1>3. x \o y \in Seq(Char)
  BY ConcatProperties
<1> QED BY <1>1, <1>2, <1>3, EncodeConcat

(* The last character written is the last byte, an LF with a CR before it. *)
LastByte(q, c, e) ==
    /\ Len(e) = Len(Encode(q)) + IF c = LF THEN 2 ELSE 1
    /\ e[Len(e)] = c
    /\ c = LF => e[Len(e) - 1] = CR

(* What writing a character more adds.                                     *)
LEMMA EncodeLast ==
    ASSUME NEW q \in Seq(Char), NEW c \in Char
    PROVE  /\ Encode(q) \in Seq(Byte) /\ Encode(Append(q, c)) \in Seq(Byte)
           /\ LastByte(q, c, Encode(Append(q, c)))
<1> DEFINE piece == IF c = LF THEN <<CR, LF>> ELSE <<c>>
           e == Encode(q)
<1>1. {CR, LF} \subseteq Byte /\ q \in Seq(Byte) /\ c \in Byte /\ Append(q, c) \in Seq(Char)
  BY BytesAssumption, SeqMonotonic, AppendProperties DEF Byte
<1>2. Encode(Append(q, c)) = e \o piece
  BY <1>1, EncodeAppend
<1>3. e \in Seq(Byte) /\ Encode(Append(q, c)) \in Seq(Byte)
  BY <1>1, Reads
<1> HIDE DEF e
<1>4. CASE c = LF
  <2>1. piece = <<CR, LF>> /\ piece \in Seq(Byte) /\ Len(piece) = 2 /\ piece[1] = CR /\ piece[2] = LF
    BY <1>1, <1>4
  <2> HIDE DEF piece
  <2>2. /\ Len(e) \in Nat /\ Len(e \o piece) = Len(e) + 2
        /\ (e \o piece)[Len(e) + 1] = CR /\ (e \o piece)[Len(e) + 2] = LF
    BY <1>3, <2>1, ConcatProperties
  <2>3. (Len(e) + 2) - 1 = Len(e) + 1
    BY <2>2
  <2> QED BY <1>2, <1>3, <1>4, <2>2, <2>3 DEF LastByte, e
<1>5. CASE c # LF
  <2>1. piece = <<c>> /\ piece \in Seq(Byte) /\ Len(piece) = 1 /\ piece[1] = c
    BY <1>1, <1>5
  <2> HIDE DEF piece
  <2>2. Len(e) \in Nat /\ Len(e \o piece) = Len(e) + 1 /\ (e \o piece)[Len(e) + 1] = c
    BY <1>3, <2>1, ConcatProperties
  <2> QED BY <1>2, <1>3, <1>5, <2>2 DEF LastByte, e
<1> QED BY <1>4, <1>5

(* Bytes p before a text t, taken apart behind the n-th character of it.   *)
CutAt(p, t, n, e, r) ==
    /\ e \in Seq(Byte) /\ r \in Seq(Byte) /\ Encode(t) = e \o r
    /\ e = Encode(First(t, n)) /\ First(t, n) \in Seq(Char) /\ Len(First(t, n)) = n
    /\ r = Encode(From(t, n)) /\ From(t, n) \in Seq(Char)
    /\ (p \o e) \o r = p \o Encode(t)

(* A text that is written can be cut behind each of its characters.        *)
LEMMA Cut ==
    ASSUME NEW p \in Seq(Byte), NEW t \in Seq(Char), NEW n \in 0..Len(t)
    PROVE  CutAt(p, t, n, Encode(First(t, n)), Encode(From(t, n)))
<1> DEFINE x == First(t, n)
           y == From(t, n)
<1>1. x \in Seq(Char) /\ y \in Seq(Char) /\ Len(x) = n /\ t = x \o y
  BY Parts
<1> HIDE DEF x, y
<1>2. Encode(x) \in Seq(Byte) /\ Encode(y) \in Seq(Byte)
  BY <1>1, Reads
<1>3. Encode(x \o y) = Encode(x) \o Encode(y)
  BY <1>1, EncodeBoth
<1>4. ThreeInARow(p, Encode(x), Encode(y))
  BY <1>2, Regroup
<1>5. (p \o Encode(x)) \o Encode(y) = p \o Encode(t)
  BY <1>1, <1>3, <1>4, Zenon DEF ThreeInARow
<1> QED BY <1>1, <1>2, <1>3, <1>5, Zenon DEF CutAt, x, y

(* Of three pieces in a row the second is where one expects it.            *)
LEMMA SecondOfThree ==
    ASSUME NEW S, NEW x, NEW y, NEW z, x \in Seq(S), y \in Seq(S), z \in Seq(S)
    PROVE  /\ SubSeq((x \o y) \o z, Len(x) + 1, Len(x) + Len(y)) = y
           /\ \A i \in 1..Len(y) : ((x \o y) \o z)[Len(x) + i] = y[i]
           /\ Len(x) \in Nat /\ Len(y) \in Nat /\ Len(z) \in Nat
           /\ Len((x \o y) \o z) = Len(x) + Len(y) + Len(z)
<1>1. Len(x) \in Nat /\ Len(y) \in Nat /\ Len(z) \in Nat
  OBVIOUS
<1>2. x \o y \in Seq(S) /\ (x \o y) \o z \in Seq(S)
  BY ConcatProperties
<1>3. Len((x \o y) \o z) = Len(x) + Len(y) + Len(z)
  BY <1>1, <1>2
<1>4. ASSUME NEW i \in 1..Len(y) PROVE ((x \o y) \o z)[Len(x) + i] = y[i]
  BY <1>1, <1>2
<1> DEFINE w == (x \o y) \o z
           v == SubSeq(w, Len(x) + 1, Len(x) + Len(y))
<1> HIDE DEF w
<1>5. v \in Seq(S) /\ Len(v) = Len(y) /\ \A i \in 1..Len(y) : v[i] = w[Len(x) + i]
  <2>1. w \in Seq(S) /\ Len(w) = Len(x) + Len(y) + Len(z)
    BY <1>2, <1>3 DEF w
  <2> QED BY <1>1, <2>1, SMTT(30)
<1>6. \A i \in 1..Len(y) : v[i] = y[i]
  BY <1>4, <1>5 DEF w
<1> HIDE DEF v
<1>7. v = y
  BY <1>5, <1>6, SeqEqual
<1> QED BY <1>1, <1>3, <1>4, <1>7 DEF v, w

(* In a file that holds p and then a text, the n-th character ends where   *)
(* one who writes the text would say.                                      *)
LEMMA AfterText ==
    ASSUME NEW p \in Seq(Byte), NEW t \in Seq(Char), NEW n \in 1..Len(t)
    PROVE  After(p \o Encode(t), Len(p), n) = Len(p) + Len(Encode(First(t, n)))
<1> DEFINE b == p \o Encode(t)
           e == Encode(First(t, n))
           r == Encode(From(t, n))
           j == Len(p) + Len(e)
<1>1. CutAt(p, t, n, e, r) /\ n \in Nat \ {0}
  BY Cut
<1> DEFINE k == n - 1
<1>2. /\ First(t, n) = Append(First(t, k), t[n]) /\ First(t, k) \in Seq(Char) /\ t[n] \in Char
  <2>1. k \in Nat /\ k < Len(t) /\ n = k + 1
    OBVIOUS
  <2> HIDE DEF k
  <2> QED BY <2>1, NextFirst
<1>3. LastByte(First(t, k), t[n], e) /\ Encode(First(t, k)) \in Seq(Byte)
  <2> HIDE DEF k
  <2> QED BY <1>2, EncodeLast
<1> HIDE DEF e, r
<1>4. e \in Seq(Byte) /\ r \in Seq(Byte) /\ b = (p \o e) \o r
  BY <1>1 DEF CutAt
<1>5. /\ SubSeq(b, Len(p) + 1, Len(p) + Len(e)) = e
      /\ \A i \in 1..Len(e) : b[Len(p) + i] = e[i]
      /\ Len(p) \in Nat /\ Len(e) \in Nat /\ Len(r) \in Nat
      /\ Len(b) = Len(p) + Len(e) + Len(r)
  <2> HIDE DEF b
  <2> QED BY <1>4, SecondOfThree
<1>6. Len(e) >= 1 /\ e[Len(e)] = t[n]
  <2>1. Len(Encode(First(t, k))) \in Nat
    BY <1>3
  <2> QED BY <1>3, <2>1 DEF LastByte
<1>7. b[j] # CR
  <2>1. b[Len(p) + Len(e)] = e[Len(e)]
    <3> HIDE DEF b
    <3> QED BY <1>5, <1>6
  <2> QED BY <1>2, <1>6, <2>1, BytesAssumption
<1>8. ReadTo(b, Len(p), j) = n
  <2>1. Decode(e) = First(t, n) /\ Len(First(t, n)) = n
    BY <1>1, Reads DEF CutAt
  <2> HIDE DEF b
  <2> QED BY <1>5, <2>1 DEF ReadTo
<1>9. j \in (Len(p) + 1)..Len(b)
  <2> HIDE DEF b
  <2> QED BY <1>5, <1>6
<1> HIDE DEF j
<1>10. Ends(b, Len(p), n, j)
  <2> HIDE DEF b
  <2> QED BY <1>7, <1>8, <1>9 DEF Ends
<1>11. b \in Seq(Byte) /\ From(b, Len(p)) = Encode(t) /\ Decode(Encode(t)) = t
  <2>1. Encode(t) \in Seq(Byte) /\ Decode(Encode(t)) = t
    BY Reads
  <2> QED BY <2>1, PartsOfConcat, ConcatProperties
<1> HIDE DEF b
<1>12. Ends(b, Len(p), n, After(b, Len(p), n))
  <2>1. Len(p) \in Nat /\ n <= Len(Decode(From(b, Len(p))))
    BY <1>11
  <2> QED BY <1>1, <1>11, <2>1, AfterEnds
<1>13. After(b, Len(p), n) = j
  <2>1. Len(p) \in Nat
    OBVIOUS
  <2> QED BY <1>10, <1>11, <1>12, <2>1, EndsOnce
<1> QED BY <1>13 DEF b, j, e

(* Of a text that is longer than n, the first n characters; else all.      *)
LEMMA FirstOrAll ==
    ASSUME NEW S, NEW t \in Seq(S), NEW n \in Nat
    PROVE  /\ First(t, n) \in Seq(S) /\ Len(First(t, n)) <= n /\ Len(First(t, n)) \in Nat
           /\ Len(t) <= n => First(t, n) = t
           /\ Len(t) > n => Len(First(t, n)) = n
<1>1. Len(t) \in Nat
  OBVIOUS
<1>2. CASE Len(t) <= n
  <2>1. First(t, n) = SubSeq(t, 1, Len(t))
    BY <1>1, <1>2 DEF First, Smaller
  <2>2. First(t, n) = t
    BY <2>1, SubSeqFull
  <2> QED BY <1>1, <1>2, <2>2
<1>3. CASE Len(t) > n
  <2>1. n \in 0..Len(t)
    BY <1>1, <1>3
  <2>2. First(t, n) \in Seq(S) /\ Len(First(t, n)) = n
    BY <2>1, Parts
  <2> QED BY <1>1, <1>3, <2>2
<1> QED BY <1>1, <1>2, <1>3

(* A window over a text that is read from behind p on has the first        *)
(* characters of the text, and ends where they end in the file.            *)
FilledWith(p, t, w) ==
    /\ w.text = First(t, Cap)
    /\ w.tail = IF Len(t) <= Cap THEN 0 ELSE Len(p) + Len(Encode(First(t, Cap)))

(* gb_fill of a file that holds a text after p takes the first Cap         *)
(* characters of it, and tells where the rest begins.                      *)
LEMMA FilledText ==
    ASSUME NEW p \in Seq(Byte), NEW t \in Seq(Char)
    PROVE  FilledWith(p, t, Filled(p \o Encode(t), Len(p)))
<1> DEFINE b == p \o Encode(t)
           off == Len(p)
           w == Filled(b, off)
<1>1. From(b, off) = Encode(t) /\ Decode(Encode(t)) = t /\ Encode(t) \in Seq(Byte)
  <2>1. Encode(t) \in Seq(Byte) /\ Decode(Encode(t)) = t
    BY Reads
  <2> QED BY <2>1, PartsOfConcat
<1>2. off \in Nat /\ Len(t) \in Nat /\ Cap \in Nat
  BY SizesAssumption
<1>3. CASE Len(t) <= Cap
  <2>1. First(t, Cap) = t
    BY <1>2, <1>3, FirstOrAll
  <2>2. w.text = t /\ w.tail = 0
    <3> HIDE DEF b, off
    <3> QED BY <1>1, <1>3 DEF Filled
  <2> HIDE DEF w
  <2> QED BY <1>3, <2>1, <2>2 DEF FilledWith, w
<1>4. CASE Len(t) > Cap
  <2> DEFINE n == Cap + 1
             e == Encode(First(t, n))
             q == First(t, Cap)
             c == t[n]
             r == Encode(From(t, n))
             j == off + Len(e)
  <2>1. n \in 1..Len(t) /\ n \in 0..Len(t) /\ Cap < Len(t)
    BY <1>2, <1>4
  <2>2. After(b, off, n) = j
    <3> HIDE DEF n
    <3> QED BY <2>1, AfterText
  <2>3. CutAt(p, t, n, e, r)
    <3> HIDE DEF n
    <3> QED BY <2>1, Cut
  <2>4. First(t, n) = Append(q, c) /\ q \in Seq(Char) /\ c \in Char
    BY <1>2, <2>1, NextFirst
  <2> HIDE DEF q, c
  <2>5. LastByte(q, c, e) /\ Encode(q) \in Seq(Byte)
    BY <2>4, EncodeLast
  <2>6. w.text = q /\ w.tail = IF b[j] = LF /\ j - 1 > off /\ b[j - 1] = CR THEN j - 2 ELSE j - 1
    <3> HIDE DEF b, off, j
    <3> QED BY <1>1, <1>2, <1>4, <2>2 DEF Filled, n, q
  <2> HIDE DEF n, e, r
  <2>7. e \in Seq(Byte) /\ r \in Seq(Byte) /\ b = (p \o e) \o r
    BY <2>3 DEF CutAt
  <2>8. /\ \A i \in 1..Len(e) : b[off + i] = e[i]
        /\ Len(e) \in Nat
    <3> HIDE DEF b
    <3> QED BY <2>7, SecondOfThree
  <2>9. Len(Encode(q)) \in Nat
    BY <2>5
  <2> HIDE DEF b, off, w
  <2>10. CASE c = LF
    <3>1. Len(e) = Len(Encode(q)) + 2 /\ e[Len(e)] = LF /\ e[Len(e) - 1] = CR
      BY <2>5, <2>10 DEF LastByte
    <3>2. Len(e) \in 1..Len(e) /\ Len(e) - 1 \in 1..Len(e) /\ off + (Len(e) - 1) = j - 1
      BY <1>2, <2>8, <2>9, <3>1
    <3>3. b[off + Len(e)] = LF /\ b[off + (Len(e) - 1)] = CR
      BY <2>8, <3>1, <3>2
    <3>4. b[j] = LF /\ b[j - 1] = CR
      BY <3>2, <3>3
    <3>5. j - 1 > off /\ j - 2 = off + Len(Encode(q))
      BY <1>2, <2>8, <2>9, <3>1
    <3>6. w.tail = off + Len(Encode(q))
      BY <2>6, <3>4, <3>5
    <3>7. w.tail = IF Len(t) <= Cap THEN 0 ELSE off + Len(Encode(q))
      BY <1>2, <1>4, <3>6
    <3> QED BY <2>6, <3>7 DEF FilledWith, q, off, w, b
  <2>11. CASE c # LF
    <3>1. Len(e) = Len(Encode(q)) + 1 /\ e[Len(e)] = c
      BY <2>5, <2>11 DEF LastByte
    <3>2. Len(e) \in 1..Len(e)
      BY <2>8, <2>9, <3>1
    <3>3. b[j] # LF
      BY <2>8, <2>11, <3>1, <3>2
    <3>4. j - 1 = off + Len(Encode(q))
      BY <1>2, <2>8, <2>9, <3>1
    <3>5. w.tail = off + Len(Encode(q))
      BY <2>6, <3>3, <3>4
    <3>6. w.tail = IF Len(t) <= Cap THEN 0 ELSE off + Len(Encode(q))
      BY <1>2, <1>4, <3>5
    <3> QED BY <2>6, <3>6 DEF FilledWith, q, off, w, b
  <2> QED BY <2>10, <2>11
<1>5. Len(t) <= Cap \/ Len(t) > Cap
  BY <1>2
<1> QED BY <1>3, <1>4, <1>5
-----------------------------------------------------------------------------
(* Types.                                                                  *)

Disks == [Files -> {NoFile} \cup Seq(Byte)]

(* The types of what a window consists of.                                 *)
WindowOK(d, x, ws, to, tf, wl) ==
    /\ d \in Disks
    /\ x \in Seq(Char) /\ Len(x) <= Cap + Reserve
    /\ ws \in Nat /\ to \in Nat /\ wl \in Nat
    /\ tf \in Names \cup {""}
    /\ ws > 0 \/ to > 0 => tf # ""

RestOK(f, m, r, p, u, e) ==
    /\ f \in Names /\ m \in BOOLEAN /\ r \in UndoRecords
    /\ p \in {"edit", "seek", "land", "quit"}
    /\ u \in DOMAIN Users /\ e \in 0..Users[u].edits

(* TypeOK has these two parts.                                             *)
LEMMA TypeParts ==
    TypeOK <=> /\ WindowOK(disk, text, win_start, tail_offset, tail_file, win_line_offset)
               /\ RestOK(filename, modified, undo, pc, user, edits)
BY DEF TypeOK, WindowOK, RestOK, Disks, Byte

(* So it has in the next state.                                            *)
LEMMA TypePartsNext ==
    /\ WindowOK(disk', text', win_start', tail_offset', tail_file', win_line_offset')
    /\ RestOK(filename', modified', undo', pc', user', edits')
    => TypeOK'
BY DEF TypeOK, WindowOK, RestOK, Disks, Byte

(* The number of line ends is a number.                                    *)
LEMMA LinesType == ASSUME NEW S, NEW t \in Seq(S) PROVE Lines(t) \in Nat
<1> DEFINE P == {i \in 1..Len(t) : t[i] = LF}
<1>1. 1 \in Int /\ Len(t) \in Int
  OBVIOUS
<1>2. IsFiniteSet(1..Len(t))
  BY <1>1, FS_Interval
<1>3. IsFiniteSet(P)
  BY <1>2, FS_Subset
<1> HIDE DEF P
<1>4. Cardinality(P) \in Nat
  BY <1>3, FS_CardinalityType
<1> QED BY <1>4 DEF Lines, P

(* What a file holds is bytes.                                             *)
LEMMA FileType ==
    ASSUME NEW d \in Disks, NEW n \in Names
    PROVE  /\ BytesIn(d, n) \in Seq(Byte) /\ FileOf[n] \in Files
           /\ d[FileOf[n]] # NoFile => d[FileOf[n]] \in Seq(Byte)
<1>1. FileOf[n] \in Files /\ d[FileOf[n]] \in {NoFile} \cup Seq(Byte)
  BY NamesAssumption DEF Disks
<1>2. << >> \in Seq(Byte)
  OBVIOUS
<1> QED BY <1>1, <1>2 DEF BytesIn

(* A window over any file is a text that fits, and ends within the file.   *)
FilledOK(w) ==
    w.text \in Seq(Char) /\ Len(w.text) <= Cap /\ Len(w.text) \in Nat /\ w.tail \in Nat

(* gb_fill yields such a window.                                           *)
LEMMA FilledType ==
    ASSUME NEW b \in Seq(Byte), NEW off \in Nat
    PROVE  FilledOK(Filled(b, off))
<1> DEFINE all == Decode(From(b, off))
           j == After(b, off, Cap + 1)
           w == Filled(b, off)
<1>1. From(b, off) \in Seq(Byte)
  BY DEF From
<1>2. all \in Seq(Char) /\ Cap \in Nat
  BY <1>1, Reads, SizesAssumption
<1>3. /\ w.text = IF Len(all) <= Cap THEN all ELSE First(all, Cap)
      /\ w.tail = IF Len(all) <= Cap THEN 0
                  ELSE IF b[j] = LF /\ j - 1 > off /\ b[j - 1] = CR THEN j - 2 ELSE j - 1
  <2> HIDE DEF all, j
  <2> QED BY DEF Filled, all, j
<1>4. CASE Len(all) <= Cap
  <2> HIDE DEF all, j, w
  <2> QED BY <1>2, <1>3, <1>4 DEF FilledOK, w
<1>5. CASE Len(all) > Cap
  <2>1. Ends(b, off, Cap + 1, j)
    <3>1. Cap + 1 \in Nat \ {0} /\ Cap + 1 <= Len(Decode(From(b, off)))
      BY <1>2, <1>5
    <3> QED BY <3>1, AfterEnds
  <2> HIDE DEF all, j, w
  <2>2. j \in (off + 1)..Len(b)
    BY <2>1 DEF Ends
  <2>3. w.text = First(all, Cap)
    BY <1>2, <1>3, <1>5
  <2>4. w.tail \in Nat
    BY <1>2, <1>3, <1>5, <2>2
  <2>5. First(all, Cap) \in Seq(Char) /\ Len(First(all, Cap)) = Cap
    BY <1>2, <1>5, FirstOrAll
  <2> QED BY <1>2, <2>3, <2>4, <2>5 DEF FilledOK, w
<1>6. Len(all) <= Cap \/ Len(all) > Cap
  <2> HIDE DEF all
  <2> QED BY <1>2
<1> QED BY <1>4, <1>5, <1>6

(* A part of a text from some place on.                                    *)
LEMMA FromType ==
    ASSUME NEW S, NEW x \in Seq(S), NEW n \in Nat
    PROVE  /\ From(x, n) \in Seq(S) /\ Len(From(x, n)) \in Nat /\ Len(From(x, n)) <= Len(x)
           /\ n <= Len(x) => Len(From(x, n)) = Len(x) - n
BY DEF From

(* A change leaves a text, longer at most by what it puts in.              *)
LEMMA SpliceType ==
    ASSUME NEW x \in Seq(Char), NEW p \in 0..Len(x), NEW d \in Nat, NEW s \in Seq(Char)
    PROVE  /\ First(x, p) \o s \o From(x, p + d) \in Seq(Char)
           /\ Len(First(x, p) \o s \o From(x, p + d)) <= Len(x) + Len(s)
<1> DEFINE a == First(x, p)
           f == From(x, p + d)
<1>1. a \in Seq(Char) /\ Len(a) = p
  BY Parts
<1>2. f \in Seq(Char) /\ Len(f) <= Len(x) - p /\ Len(f) \in Nat
  BY DEF From
<1> HIDE DEF a, f
<1>3. a \o s \in Seq(Char) /\ Len(a \o s) = p + Len(s)
  BY <1>1
<1>4. (a \o s) \o f \in Seq(Char) /\ Len((a \o s) \o f) = Len(a \o s) + Len(f)
  BY <1>2, <1>3, ConcatLength
<1>5. Len((a \o s) \o f) <= Len(x) + Len(s)
  BY <1>2, <1>3, <1>4
<1> QED BY <1>4, <1>5 DEF a, f

(* Head and rest are bytes.                                                *)
LEMMA EndsType ==
    ASSUME NEW d \in Disks,
           WindowOK(disk, text, win_start, tail_offset, tail_file, win_line_offset)
    PROVE  HeadIn(d) \in Seq(Byte) /\ TailIn(d) \in Seq(Byte)
<1>1. << >> \in Seq(Byte)
  OBVIOUS
<1>2. ASSUME tail_file # "" PROVE /\ First(BytesIn(d, tail_file), win_start) \in Seq(Byte)
                                  /\ From(BytesIn(d, tail_file), tail_offset) \in Seq(Byte)
  <2>1. tail_file \in Names /\ win_start \in Nat /\ tail_offset \in Nat
    BY <1>2 DEF WindowOK
  <2>2. BytesIn(d, tail_file) \in Seq(Byte)
    BY <2>1, FileType
  <2> HIDE DEF BytesIn
  <2> QED BY <2>1, <2>2, FirstOrAll, FromType
<1> QED BY <1>1, <1>2 DEF HeadIn, TailIn

(* What a save leaves has its types too.                                   *)
SavedOK(s) ==
    /\ s.disk \in Disks /\ s.file \in Names \cup {""} /\ s.tail \in Nat
    /\ win_start > 0 \/ s.tail > 0 => s.file # ""

(* save_file leaves disk, tail_file and tail_offset with their types.      *)
LEMMA SavedType ==
    ASSUME WindowOK(disk, text, win_start, tail_offset, tail_file, win_line_offset),
           NEW n \in Names
    PROVE  SavedOK(Saved(n)) /\ SavedOK(Unsaved)
<1> DEFINE truncated == IF Windowed /\ n = tail_file THEN disk
                        ELSE [disk EXCEPT ![FileOf[n]] = << >>]
           image == HeadIn(truncated) \o Encode(text) \o TailIn(truncated)
           new == [disk EXCEPT ![FileOf[n]] = image]
           file == IF Windowed THEN n ELSE tail_file
           tail == IF Windowed THEN win_start + Len(Encode(text)) ELSE tail_offset
<1>1. Saved(n) = [disk |-> new, file |-> file, tail |-> tail]
  BY DEF Saved
<1>2. /\ disk \in Disks /\ tail_file \in Names \cup {""} /\ FileOf[n] \in Files /\ n # ""
      /\ win_start \in Nat /\ tail_offset \in Nat /\ text \in Seq(Char)
      /\ win_start > 0 \/ tail_offset > 0 => tail_file # ""
  BY NamesAssumption DEF WindowOK
<1>3. truncated \in Disks
  <2>1. << >> \in Seq(Byte)
    OBVIOUS
  <2> QED BY <1>2, <2>1 DEF Disks
<1>4. Encode(text) \in Seq(Byte) /\ Len(Encode(text)) \in Nat
  <2>1. Encode(text) \in Seq(Byte)
    BY <1>2, Reads
  <2> QED BY <2>1, LenProperties
<1> HIDE DEF truncated
<1>5. HeadIn(truncated) \in Seq(Byte) /\ TailIn(truncated) \in Seq(Byte)
  BY <1>3, EndsType
<1>6. image \in Seq(Byte)
  <2>1. HeadIn(truncated) \o Encode(text) \in Seq(Byte)
    BY <1>4, <1>5, ConcatProperties
  <2> QED BY <1>5, <2>1, ConcatProperties
<1> HIDE DEF image
<1>7. new \in Disks
  BY <1>2, <1>6 DEF Disks
<1>8. file \in Names \cup {""} /\ (win_start > 0 \/ tail > 0 => file # "")
  BY <1>2 DEF Windowed
<1>9. tail \in Nat
  <2>1. win_start \in Nat
    BY <1>2
  <2>2. win_start + Len(Encode(text)) \in Nat
    BY <1>4, <2>1
  <2> QED BY <1>2, <2>2
<1> HIDE DEF new, file, tail
<1>10. SavedOK(Saved(n))
  <2> DEFINE s == Saved(n)
  <2>1. s.disk = new /\ s.file = file /\ s.tail = tail
    BY <1>1
  <2> HIDE DEF s
  <2>2. SavedOK(s)
    BY <1>7, <1>8, <1>9, <2>1 DEF SavedOK
  <2> QED BY <2>2 DEF s
<1>11. SavedOK(Unsaved)
  BY <1>2 DEF SavedOK, Unsaved
<1> QED BY <1>10, <1>11

(* So does writing the swap file before the window moves.                  *)
LEMMA SwappedOutType ==
    ASSUME WindowOK(disk, text, win_start, tail_offset, tail_file, win_line_offset), NEW works
    PROVE  SavedOK(SwappedOut(works)) /\ SavedOK(Unsaved)
BY SavedType, NamesAssumption DEF SwappedOut
-----------------------------------------------------------------------------
(* Counting line ends.                                                     *)

(* An empty text has no line end.                                          *)
LEMMA LinesEmpty == Lines(<< >>) = 0
<1>1. {i \in 1..Len(<< >>) : (<< >>)[i] = LF} = {}
  OBVIOUS
<1> QED BY <1>1, FS_EmptySet DEF Lines

(* A character more is a line end more if it is one.                       *)
LEMMA LinesAppend ==
    ASSUME NEW S, NEW t \in Seq(S), NEW c \in S
    PROVE  Lines(Append(t, c)) = Lines(t) + (IF c = LF THEN 1 ELSE 0)
<1> DEFINE n == Len(t)
           u == Append(t, c)
           A == {i \in 1..n : t[i] = LF}
           B == {i \in 1..Len(u) : u[i] = LF}
<1>1. n \in Nat /\ Len(u) = n + 1 /\ u[n + 1] = c /\ \A i \in 1..n : u[i] = t[i]
  OBVIOUS
<1> HIDE DEF n, u
<1>2. IsFiniteSet(A) /\ n + 1 \notin A
  <2>1. IsFiniteSet(1..n) /\ A \subseteq 1..n
    BY <1>1, FS_Interval
  <2>2. IsFiniteSet(A)
    BY <2>1, FS_Subset
  <2> QED BY <1>1, <2>2
<1>3. CASE c = LF
  <2>1. B = A \cup {n + 1}
    BY <1>1, <1>3
  <2> HIDE DEF A, B
  <2>2. Cardinality(B) = Cardinality(A) + 1
    BY <1>2, <2>1, FS_AddElement
  <2> QED BY <1>3, <2>2 DEF Lines, A, B, n, u
<1>4. CASE c # LF
  <2>1. B = A
    BY <1>1, <1>4
  <2>2. Cardinality(A) \in Nat
    BY <1>2, FS_CardinalityType
  <2>3. Lines(t) = Cardinality(A) /\ Lines(u) = Cardinality(B)
    BY DEF Lines, n
  <2> HIDE DEF A, B
  <2> QED BY <1>4, <2>1, <2>2, <2>3 DEF u
<1> QED BY <1>3, <1>4

\* One after the other, and in a file.
LEMMA LinesConcat ==
    ASSUME NEW S, NEW x \in Seq(S)
    PROVE  \A y \in Seq(S) : Lines(x \o y) = Lines(x) + Lines(y)
<1> DEFINE P == {y \in Seq(S) : Lines(x \o y) = Lines(x) + Lines(y)}
<1>1. << >> \in P
  <2>1. x \o << >> = x /\ << >> \in Seq(S)
    BY ConcatEmptySeq, EmptySeq
  <2>2. Lines(x) \in Nat
    BY LinesType
  <2> QED BY <2>1, <2>2, LinesEmpty
<1>2. ASSUME NEW y \in Seq(S), NEW c \in S, y \in P PROVE Append(y, c) \in P
  <2> DEFINE one == IF c = LF THEN 1 ELSE 0
  <2>1. /\ Append(y, c) \in Seq(S) /\ x \o y \in Seq(S)
        /\ x \o Append(y, c) = Append(x \o y, c)
    BY AppendProperties, ConcatProperties, ConcatAppend
  <2>2. Lines(Append(x \o y, c)) = Lines(x \o y) + one /\ Lines(Append(y, c)) = Lines(y) + one
    BY <2>1, LinesAppend
  <2>3. Lines(x) \in Nat /\ Lines(y) \in Nat /\ one \in Nat
    BY LinesType
  <2> HIDE DEF one
  <2>4. Lines(x \o Append(y, c)) = Lines(x) + Lines(Append(y, c))
    BY <1>2, <2>1, <2>2, <2>3
  <2> QED BY <2>1, <2>4
<1>3. Seq(S) \subseteq P
  <2> HIDE DEF P
  <2> QED BY <1>1, <1>2, SeqInduction
<1> QED BY <1>3

(* The CRs that are written do not count.                                  *)
LEMMA LinesEncode == \A t \in Seq(Char) : Lines(Encode(t)) = Lines(t)
<1> DEFINE P == {t \in Seq(Char) : Lines(Encode(t)) = Lines(t)}
<1>1. << >> \in P
  BY EncodeEmpty, EmptySeq
<1>2. ASSUME NEW t \in Seq(Char), NEW c \in Char, t \in P PROVE Append(t, c) \in P
  <2> DEFINE piece == IF c = LF THEN <<CR, LF>> ELSE <<c>>
             one == IF c = LF THEN 1 ELSE 0
  <2>1. t \in Seq(Byte) /\ c \in Byte /\ {CR, LF} \subseteq Byte /\ CR # LF
    BY SeqMonotonic, BytesAssumption DEF Byte
  <2>2. Encode(Append(t, c)) = Encode(t) \o piece /\ Encode(t) \in Seq(Byte)
    BY <2>1, EncodeAppend, Reads
  <2>3. piece \in Seq(Byte)
    BY <2>1
  <2>4. Lines(piece) = one
    <3>1. << >> \in Seq(Byte) /\ Append(<< >>, c) = <<c>> /\ Append(<< >>, CR) = <<CR>>
          /\ Append(<<CR>>, LF) = <<CR, LF>> /\ <<CR>> \in Seq(Byte)
      BY <2>1, OnePair
    <3>2. Lines(<<c>>) = 0 + (IF c = LF THEN 1 ELSE 0)
      BY <2>1, <3>1, LinesAppend, LinesEmpty
    <3>3. Lines(<<CR>>) = 0 + (IF CR = LF THEN 1 ELSE 0)
      BY <2>1, <3>1, LinesAppend, LinesEmpty
    <3>4. Lines(<<CR, LF>>) = Lines(<<CR>>) + 1
      BY <2>1, <3>1, LinesAppend
    <3> QED BY <2>1, <3>2, <3>3, <3>4
  <2>5. Lines(Append(t, c)) = Lines(t) + one
    BY LinesAppend
  <2> HIDE DEF piece, one
  <2>6. Lines(Encode(t) \o piece) = Lines(Encode(t)) + Lines(piece)
    BY <2>2, <2>3, LinesConcat
  <2>7. Append(t, c) \in Seq(Char)
    BY AppendProperties
  <2> QED BY <1>2, <2>2, <2>4, <2>5, <2>6, <2>7
<1>3. Seq(Char) \subseteq P
  <2> HIDE DEF P
  <2> QED BY <1>1, <1>2, SeqInduction
<1> QED BY <1>3
-----------------------------------------------------------------------------
(* What moving the window leaves of the types.                             *)

(* What is dropped is no more than what is before the cursor.              *)
LEMMA DroppedType ==
    ASSUME text \in Seq(Char), NEW c \in Cursors
    PROVE  Dropped(c) \in 0..Len(text)
<1>1. Len(text) \in Nat /\ c \in 0..Len(text) /\ Surplus \in Int
  BY SizesAssumption DEF Cursors, Surplus
<1> QED BY <1>1 DEF Dropped, Smaller

(* How much is read behind x.                                              *)
RoomBehind(x) == IF Len(x) < Cap THEN Smaller(Chunk, Cap - Len(x)) ELSE 0

(* A slide of the window: k characters are dropped, n are read from the    *)
(* rest, of a file that s tells.                                           *)
Slides(s, b, rest, k, n) ==
    /\ n = Smaller(RoomBehind(From(text, k)), Len(rest))
    /\ disk' = s.disk
    /\ tail_file' = s.file
    /\ tail_offset' = IF n < RoomBehind(From(text, k)) THEN 0
                      ELSE IF n = 0 THEN s.tail ELSE After(b, s.tail, n)
    /\ text' = From(text, k) \o First(rest, n)
    /\ win_start' = win_start + Len(Encode(First(text, k)))
    /\ win_line_offset' = win_line_offset + Lines(First(text, k))
    /\ modified' = (modified /\ k = 0)

(* LoadMore slides the window or does nothing.                             *)
LEMMA LoadMoreSlides ==
    ASSUME NEW c, NEW works, NEW n, LoadMore(c, works, n)
    PROVE  \/ UNCHANGED <<disk, text, win_start, tail_offset, tail_file, win_line_offset,
                          modified>>
           \/ \E s : /\ s = IF Dropped(c) > 0 THEN SwappedOut(works) ELSE Unsaved
                     /\ Slides(s, BytesIn(s.disk, s.file),
                               Decode(From(BytesIn(s.disk, s.file), s.tail)), Dropped(c), n)
<1>1. CASE Stuck(c)
  BY <1>1 DEF LoadMore
<1>2. CASE ~ Stuck(c)
  <2> DEFINE s == IF Dropped(c) > 0 THEN SwappedOut(works) ELSE Unsaved
             b == BytesIn(s.disk, s.file)
             rest == Decode(From(b, s.tail))
  <2>1. \E t \in {s} : \E d \in {BytesIn(t.disk, t.file)} : \E r \in {Decode(From(d, t.tail))} :
            Slides(t, d, r, Dropped(c), n)
    BY <1>2 DEF LoadMore, Slides, RoomBehind, DiscardHead
  <2> HIDE DEF s
  <2>2. Slides(s, b, rest, Dropped(c), n)
    BY <2>1
  <2> QED BY <2>2 DEF s
<1> QED BY <1>1, <1>2

(* A window that has slid has its types, whatever it has slid over.        *)
LEMMA SlideTypes ==
    ASSUME WindowOK(disk, text, win_start, tail_offset, tail_file, win_line_offset),
           NEW s, SavedOK(s), NEW k \in 0..Len(text), NEW n \in Nat,
           s.file \in Names,
           Slides(s, BytesIn(s.disk, s.file),
                  Decode(From(BytesIn(s.disk, s.file), s.tail)), k, n)
    PROVE  WindowOK(disk', text', win_start', tail_offset', tail_file', win_line_offset')
<1> DEFINE b == BytesIn(s.disk, s.file)
           rest == Decode(From(b, s.tail))
           a == First(text, k)
           kept == From(text, k)
           room == RoomBehind(kept)
<1>1. s.disk \in Disks /\ s.file \in Names /\ s.tail \in Nat
  BY DEF SavedOK
<1>2. b \in Seq(Byte)
  BY <1>1, FileType
<1> HIDE DEF b
<1>3. rest \in Seq(Char) /\ Len(rest) \in Nat
  <2>1. From(b, s.tail) \in Seq(Byte)
    BY <1>1, <1>2, FromType
  <2>2. Decode(From(b, s.tail)) \in Seq(Char)
    BY <2>1, Reads
  <2> QED BY <2>2
<1>4. text \in Seq(Char) /\ Len(text) <= Cap + Reserve /\ win_start \in Nat /\ win_line_offset \in Nat
  BY DEF WindowOK
<1>5. Cap \in Nat /\ Chunk \in Nat /\ Reserve \in Nat
  BY SizesAssumption
<1>6. /\ a \in Seq(Char) /\ Len(Encode(a)) \in Nat /\ Lines(a) \in Nat
      /\ kept \in Seq(Char) /\ Len(kept) \in Nat /\ Len(kept) <= Len(text)
  <2>1. a \in Seq(Char) /\ kept \in Seq(Char) /\ Len(kept) = Len(text) - k
    BY <1>4, Parts
  <2> HIDE DEF a, kept
  <2>2. Encode(a) \in Seq(Byte)
    BY <2>1, Reads
  <2>3. Len(kept) \in Nat /\ Len(kept) <= Len(text)
    BY <1>4, <2>1
  <2> QED BY <2>1, <2>2, <2>3, LinesType
<1>7. /\ n = Smaller(room, Len(rest)) /\ disk' = s.disk /\ tail_file' = s.file
      /\ tail_offset' = IF n < room THEN 0 ELSE IF n = 0 THEN s.tail ELSE After(b, s.tail, n)
      /\ text' = kept \o First(rest, n)
      /\ win_start' = win_start + Len(Encode(a))
      /\ win_line_offset' = win_line_offset + Lines(a)
  BY DEF Slides, b
<1> HIDE DEF kept, a
<1>8. room \in Nat /\ (room > 0 => room <= Cap - Len(kept))
  BY <1>5, <1>6 DEF RoomBehind, Smaller
<1> HIDE DEF room
<1>9. n <= Len(rest) /\ n <= room
  <2> HIDE DEF rest
  <2> QED BY <1>3, <1>7, <1>8 DEF Smaller
<1>10. tail_offset' \in Nat
  <2>1. CASE n = 0 \/ n < room
    BY <1>1, <1>7, <2>1
  <2>2. CASE n # 0 /\ ~ n < room
    <3>1. n \in Nat \ {0}
      BY <2>2
    <3>2. After(b, s.tail, n) \in Nat
      BY <1>1, <1>2, <1>9, <3>1, AfterEnds
    <3> QED BY <1>7, <2>2, <3>2
  <2> QED BY <2>1, <2>2
<1> HIDE DEF rest
<1>11. First(rest, n) \in Seq(Char) /\ Len(First(rest, n)) \in Nat /\ Len(First(rest, n)) <= n
  BY <1>3, FirstOrAll
<1>12. text' \in Seq(Char) /\ Len(text') = Len(kept) + Len(First(rest, n))
  BY <1>6, <1>7, <1>11, ConcatLength
<1>13. Len(text') <= Cap + Reserve
  BY <1>4, <1>5, <1>6, <1>8, <1>9, <1>11, <1>12
<1>14. win_start' \in Nat /\ win_line_offset' \in Nat
  BY <1>4, <1>6, <1>7
<1>15. disk' \in Disks /\ tail_file' \in Names /\ tail_file' # ""
  BY <1>1, <1>7, NamesAssumption, Zenon
<1>16. text' \in Seq(Char)
  BY <1>12
<1> QED BY <1>10, <1>13, <1>14, <1>15, <1>16 DEF WindowOK

(* gb_load_more keeps the types.                                           *)
LEMMA LoadMoreTypes ==
    ASSUME WindowOK(disk, text, win_start, tail_offset, tail_file, win_line_offset),
           modified \in BOOLEAN, tail_offset > 0,
           NEW c \in Cursors, NEW works, NEW n \in Nat, LoadMore(c, works, n)
    PROVE  /\ WindowOK(disk', text', win_start', tail_offset', tail_file', win_line_offset')
           /\ modified' \in BOOLEAN
<1>1. CASE UNCHANGED <<disk, text, win_start, tail_offset, tail_file, win_line_offset, modified>>
  BY <1>1
<1>2. ASSUME NEW s, s = IF Dropped(c) > 0 THEN SwappedOut(works) ELSE Unsaved,
             Slides(s, BytesIn(s.disk, s.file),
                    Decode(From(BytesIn(s.disk, s.file), s.tail)), Dropped(c), n)
      PROVE  /\ WindowOK(disk', text', win_start', tail_offset', tail_file', win_line_offset')
             /\ modified' \in BOOLEAN
  <2>1. SavedOK(s)
    BY <1>2, SwappedOutType
  <2>2. s.file \in Names
    <3>1. tail_file # "" /\ tail_file \in Names
      BY DEF WindowOK
    <3>2. Windowed /\ Swap # ""
      BY <3>1, NamesAssumption DEF Windowed
    <3>3. Saved(Swap).file = Swap /\ Unsaved.file = tail_file
      BY <3>2 DEF Saved, Unsaved
    <3> QED BY <1>2, <3>1, <3>2, <3>3, NamesAssumption DEF SwappedOut
  <2>3. Dropped(c) \in 0..Len(text)
    BY DroppedType DEF WindowOK
  <2>4. WindowOK(disk', text', win_start', tail_offset', tail_file', win_line_offset')
    BY <1>2, <2>1, <2>2, <2>3, SlideTypes
  <2>5. modified' \in BOOLEAN
    BY <1>2, Zenon DEF Slides
  <2> QED BY <2>4, <2>5
<1> QED BY <1>1, <1>2, LoadMoreSlides

(* gb_reload_from keeps the types.                                         *)
LEMMA ReloadTypes ==
    ASSUME WindowOK(disk, text, win_start, tail_offset, tail_file, win_line_offset),
           win_start > 0, NEW off \in Nat, NEW works, Reload(off, works)
    PROVE  /\ WindowOK(disk', text', win_start', tail_offset', tail_file', win_line_offset')
           /\ modified' \in BOOLEAN
<1> DEFINE s == SwappedOut(works)
           b == BytesIn(s.disk, s.file)
           w == Filled(b, off)
<1>1. /\ disk' = s.disk /\ tail_file' = s.file /\ modified' = FALSE
      /\ win_line_offset' = Lines(First(b, off)) /\ win_start' = off
      /\ text' = w.text /\ tail_offset' = w.tail
  BY DEF Reload
<1>2. SavedOK(s)
  BY SwappedOutType
<1>3. s.disk \in Disks /\ s.file \in Names
  BY <1>2 DEF SavedOK
<1>4. b \in Seq(Byte)
  BY <1>3, FileType
<1> HIDE DEF s, b
<1>5. FilledOK(w)
  BY <1>4, FilledType
<1>6. Lines(First(b, off)) \in Nat
  BY <1>4, FirstOrAll, LinesType
<1> HIDE DEF w
<1>7. text' \in Seq(Char) /\ tail_offset' \in Nat
  BY <1>1, <1>5 DEF FilledOK
<1>8. Len(text') <= Cap + Reserve
  BY <1>1, <1>5, SizesAssumption DEF FilledOK
<1>9. tail_file' # ""
  BY <1>1, <1>3, NamesAssumption
<1> QED BY <1>1, <1>3, <1>6, <1>7, <1>8, <1>9 DEF WindowOK

(* A line's end is at or behind the place one starts from.                 *)
LEMMA LineEndType ==
    ASSUME NEW t \in Seq(Char), NEW p \in 0..Len(t)
    PROVE  LineEnd(t, p) \in 0..Len(t)
<1> DEFINE T == {e \in p..Len(t) : e = Len(t) \/ (e > p /\ t[e] = LF)}
<1>1. Len(t) \in Nat /\ p \in Nat
  OBVIOUS
<1>2. T \subseteq Nat /\ Len(t) \in T
  BY <1>1
<1>3. PICK m \in T : \A k \in T : m <= k
  <2> HIDE DEF T
  <2> QED BY <1>2, Least
<1>4. m \in p..Len(t) /\ (m = Len(t) \/ (m > p /\ t[m] = LF))
  OBVIOUS
<1>5. ASSUME NEW i \in (p + 1)..(m - 1) PROVE t[i] # LF
  <2>1. i \notin T
    <3>1. ~ m <= i
      BY <1>1, <1>4
    <3> HIDE DEF T
    <3> QED BY <1>3, <3>1
  <2>2. i \in p..Len(t) /\ i > p
    BY <1>1, <1>4
  <2> QED BY <2>1, <2>2
<1> HIDE DEF T
<1>6. \E e \in p..Len(t) : (e = Len(t) \/ (e > p /\ t[e] = LF))
                           /\ \A i \in (p + 1)..(e - 1) : t[i] # LF
  BY <1>4, <1>5
<1>7. LineEnd(t, p) \in p..Len(t)
  BY <1>6, Zenon DEF LineEnd
<1> QED BY <1>1, <1>7
-----------------------------------------------------------------------------
(* The types, command by command.                                          *)

(* There is never less than no room.                                       *)
LEMMA RoomType == ASSUME TypeOK PROVE Room \in Nat /\ Len(text) \in Nat /\ text \in Seq(Char)
<1>1. text \in Seq(Char) /\ Len(text) <= Cap + Reserve
  BY DEF TypeOK
<1>2. Len(text) \in Nat
  BY <1>1
<1> QED BY <1>1, <1>2, SizesAssumption DEF Room

(* What u takes back has the types of a change.                            *)
LEMMA RecordType ==
    ASSUME NEW kind \in {"none", "delete", "insert"}, NEW p \in Nat, NEW x \in Seq(Char),
           NEW m \in BOOLEAN
    PROVE  [type |-> kind, pos |-> p, text |-> x, was_clean |-> ~ m] \in UndoRecords
<1>1. (~ m) \in BOOLEAN
  OBVIOUS
<1> QED BY <1>1, Zenon DEF UndoRecords

(* A change of a part of the window keeps the types.                       *)
LEMMA SpliceTypes ==
    ASSUME TypeOK, NEW p \in 0..Len(text), NEW d \in Nat, NEW s \in Seq(Char), Len(s) <= Room,
           NEW m \in BOOLEAN, Splice(p, d, s, m), undo' \in UndoRecords
    PROVE  TypeOK'
<1>1. /\ WindowOK(disk, text, win_start, tail_offset, tail_file, win_line_offset)
      /\ RestOK(filename, modified, undo, pc, user, edits)
  BY TypeParts
<1>2. /\ edits < Users[user].edits /\ edits' = edits + 1 /\ modified' = m
      /\ text' = First(text, p) \o s \o From(text, p + d)
      /\ UNCHANGED <<disk, win_start, tail_offset, tail_file, win_line_offset, filename, pc, user>>
  BY DEF Splice
<1>3. text' \in Seq(Char) /\ Len(text') <= Cap + Reserve
  <2>1. text \in Seq(Char) /\ Room \in Nat /\ Len(text) \in Nat
    BY RoomType
  <2>2. text' \in Seq(Char) /\ Len(text') <= Len(text) + Len(s)
    BY <1>2, <2>1, SpliceType
  <2>3. Len(text') \in Nat /\ Len(s) \in Nat
    BY <2>2
  <2> QED BY <2>1, <2>2, <2>3, SizesAssumption DEF Room
<1>4. edits' \in 0..Users[user].edits
  <2>1. edits \in 0..Users[user].edits /\ Users[user].edits \in Nat
    BY <1>1, InputAssumption DEF RestOK
  <2> QED BY <1>2, <2>1
<1>5. WindowOK(disk', text', win_start', tail_offset', tail_file', win_line_offset')
  BY <1>1, <1>2, <1>3 DEF WindowOK
<1>6. RestOK(filename', modified', undo', pc', user', edits')
  BY <1>1, <1>2, <1>4 DEF RestOK
<1> QED BY <1>5, <1>6, TypePartsNext

(* d: the text is shorter, and the record is what was taken out.           *)
LEMMA DeleteRangeTypes == ASSUME TypeOK, DeleteRange PROVE TypeOK'
<1>1. text \in Seq(Char) /\ Len(text) \in Nat /\ Room \in Nat /\ modified \in BOOLEAN
      /\ undo \in UndoRecords
  BY RoomType DEF TypeOK
<1>2. PICK p \in 0..(Len(text) - 1) : \E d \in 1..(Len(text) - p) :
          /\ Splice(p, d, << >>, TRUE)
          /\ Recorded([type |-> "delete", pos |-> p, was_clean |-> ~modified,
                       text |-> First(SubSeq(text, p + 1, p + d), UndoMax)])
  BY DEF DeleteRange
<1>3. PICK d \in 1..(Len(text) - p) :
          /\ Splice(p, d, << >>, TRUE)
          /\ Recorded([type |-> "delete", pos |-> p, was_clean |-> ~modified,
                       text |-> First(SubSeq(text, p + 1, p + d), UndoMax)])
  BY <1>2
<1>4. p \in 0..Len(text) /\ p \in Nat /\ d \in Nat
  BY <1>1
<1>5. First(SubSeq(text, p + 1, p + d), UndoMax) \in Seq(Char)
  <2>1. SubSeq(text, p + 1, p + d) \in Seq(Char)
    BY <1>1, <1>4
  <2> QED BY <2>1, FirstOrAll, SizesAssumption
<1> DEFINE x == First(SubSeq(text, p + 1, p + d), UndoMax)
           r == [type |-> "delete", pos |-> p, text |-> x, was_clean |-> ~modified]
<1>6. r \in UndoRecords
  <2> HIDE DEF x
  <2> QED BY <1>1, <1>4, <1>5, RecordType DEF x
<1>7. undo' \in UndoRecords
  BY <1>1, <1>3, <1>6 DEF Recorded
<1>8. << >> \in Seq(Char) /\ Len(<< >>) <= Room
  BY <1>1
<1> QED BY <1>3, <1>4, <1>7, <1>8, SpliceTypes

(* i: what goes in has room.                                               *)
LEMMA InsertTextTypes == ASSUME TypeOK, InsertText PROVE TypeOK'
<1>1. text \in Seq(Char) /\ Len(text) \in Nat /\ Room \in Nat /\ modified \in BOOLEAN
      /\ undo \in UndoRecords /\ user \in DOMAIN Users
  BY RoomType DEF TypeOK
<1>2. PICK c \in Cursors, s \in Users[user].typed :
          /\ Splice(c, 0, First(s, Room), modified \/ First(s, Room) # << >>)
          /\ Recorded([type |-> "insert", pos |-> c, text |-> First(s, Room),
                       was_clean |-> ~modified])
  BY DEF InsertText
<1> DEFINE x == First(s, Room)
           m == modified \/ x # << >>
           r == [type |-> "insert", pos |-> c, text |-> x, was_clean |-> ~modified]
<1>3. c \in 0..Len(text) /\ c \in Nat
  BY <1>1 DEF Cursors
<1>4. x \in Seq(Char) /\ Len(x) <= Room
  <2>1. s \in Seq(Char)
    BY <1>1, InputAssumption
  <2> QED BY <1>1, <2>1, FirstOrAll
<1> HIDE DEF x
<1>5. r \in UndoRecords
  BY <1>1, <1>3, <1>4, RecordType
<1>6. Splice(c, 0, x, m) /\ undo' \in UndoRecords
  BY <1>1, <1>2, <1>5 DEF Recorded, x
<1>7. m \in BOOLEAN
  BY <1>1
<1> HIDE DEF m
<1> QED BY <1>3, <1>4, <1>6, <1>7, SpliceTypes

(* :r: what goes in is the part of the file that has room.                 *)
LEMMA ReadFileTypes ==
    ASSUME TypeOK, NEW n \in Users[user].names, ReadFile(n) PROVE TypeOK'
<1>1. text \in Seq(Char) /\ Len(text) \in Nat /\ Room \in Nat /\ undo \in UndoRecords
      /\ user \in DOMAIN Users /\ disk \in Disks
  BY RoomType DEF TypeOK, Disks, Byte
<1> DEFINE x == First(Decode(disk[FileOf[n]]), Room)
<1>2. x \in Seq(Char) /\ Len(x) <= Room
  <2>1. n \in Names /\ disk[FileOf[n]] # NoFile
    BY <1>1, InputAssumption DEF ReadFile
  <2>2. disk[FileOf[n]] \in Seq(Byte)
    BY <1>1, <2>1, FileType
  <2>3. Decode(disk[FileOf[n]]) \in Seq(Char)
    BY <2>2, Reads
  <2> QED BY <1>1, <2>3, FirstOrAll
<1> HIDE DEF x
<1>3. PICK c \in Cursors : Splice(LineEnd(text, c), 0, x, TRUE)
  BY DEF ReadFile, x
<1>4. LineEnd(text, c) \in 0..Len(text)
  BY <1>1, LineEndType DEF Cursors
<1>5. undo' \in UndoRecords
  BY <1>1 DEF ReadFile
<1> QED BY <1>2, <1>3, <1>4, <1>5, SpliceTypes

\* The record once it is used or void.
LEMMA NoneType ==
    ASSUME undo \in UndoRecords PROVE [undo EXCEPT !.type = "none"] \in UndoRecords
BY DEF UndoRecords

(* u: what is put back has room, or is taken out.                          *)
LEMMA UndoTypes == ASSUME TypeOK, Undo PROVE TypeOK'
<1>1. text \in Seq(Char) /\ Len(text) \in Nat /\ Room \in Nat /\ undo \in UndoRecords
  BY RoomType DEF TypeOK
<1>2. undo.pos \in Nat /\ undo.text \in Seq(Char) /\ undo.was_clean \in BOOLEAN
  BY <1>1 DEF UndoRecords
<1>3. undo.pos <= Len(text) /\ undo' = [undo EXCEPT !.type = "none"]
  BY DEF Undo
<1>4. \/ Splice(undo.pos, 0, First(undo.text, Room), ~undo.was_clean)
      \/ Splice(undo.pos, Len(undo.text), << >>, ~undo.was_clean)
  BY DEF Undo
<1>5. undo' \in UndoRecords
  BY <1>1, <1>3, NoneType
<1> DEFINE p == undo.pos
           x == undo.text
           m == ~ undo.was_clean
<1>6. p \in 0..Len(text) /\ x \in Seq(Char) /\ m \in BOOLEAN /\ Len(x) \in Nat
  BY <1>1, <1>2, <1>3
<1> HIDE DEF p, x, m
<1>7. First(x, Room) \in Seq(Char) /\ Len(First(x, Room)) <= Room
  BY <1>1, <1>6, FirstOrAll
<1>8. << >> \in Seq(Char) /\ Len(<< >>) <= Room
  BY <1>1
<1>9. Splice(p, 0, First(x, Room), m) \/ Splice(p, Len(x), << >>, m)
  BY <1>4 DEF p, x, m
<1> QED BY <1>5, <1>6, <1>7, <1>8, <1>9, SpliceTypes

(* The paging commands leave the rest as it is.                            *)
LEMMA PagedTypes ==
    ASSUME TypeOK, modified' \in BOOLEAN, pc' \in {"edit", "seek", "land", "quit"},
           WindowOK(disk', text', win_start', tail_offset', tail_file', win_line_offset'),
           UNCHANGED <<filename, undo, user, edits>>
    PROVE  TypeOK'
<1>1. RestOK(filename, modified, undo, pc, user, edits)
  BY TypeParts
<1>2. RestOK(filename', modified', undo', pc', user', edits')
  BY <1>1 DEF RestOK
<1> QED BY <1>2, TypePartsNext

(* ^F, by LoadMore.                                                        *)
LEMMA PageForwardTypes == ASSUME TypeOK, PageForward PROVE TypeOK'
<1>1. /\ WindowOK(disk, text, win_start, tail_offset, tail_file, win_line_offset)
      /\ modified \in BOOLEAN /\ pc \in {"edit", "seek", "land", "quit"} /\ Chunk \in Nat
  BY TypeParts, SizesAssumption DEF RestOK
<1>2. tail_offset > 0 /\ UNCHANGED <<filename, undo, user, edits>> /\ pc' = pc
  BY DEF PageForward
<1>3. PICK c \in Cursors, works \in SwapWorks, n \in 0..Chunk : LoadMore(c, works, n)
  BY DEF PageForward
<1>4. n \in Nat
  BY <1>1
<1>5. /\ WindowOK(disk', text', win_start', tail_offset', tail_file', win_line_offset')
      /\ modified' \in BOOLEAN
  BY <1>1, <1>2, <1>3, <1>4, LoadMoreTypes
<1> QED BY <1>1, <1>2, <1>5, PagedTypes

(* G while it reads on, by LoadMore.                                       *)
LEMMA SeekOnTypes == ASSUME TypeOK, SeekOn PROVE TypeOK'
<1>1. /\ WindowOK(disk, text, win_start, tail_offset, tail_file, win_line_offset)
      /\ modified \in BOOLEAN /\ Chunk \in Nat
  BY TypeParts, SizesAssumption DEF RestOK
<1> DEFINE c == IF text = << >> THEN 0 ELSE Len(text) - 1
<1>2. tail_offset > 0 /\ UNCHANGED <<filename, undo, user, edits>>
  BY DEF SeekOn
<1>3. PICK works \in SwapWorks, n \in 0..Chunk :
          LoadMore(c, works, n) /\ pc' = IF LoadsNothing(n) THEN "land" ELSE "seek"
  BY DEF SeekOn
<1>4. n \in Nat /\ c \in Cursors
  <2>1. text \in Seq(Char)
    BY <1>1 DEF WindowOK
  <2> QED BY <1>1, <2>1 DEF Cursors
<1> HIDE DEF c
<1>5. /\ WindowOK(disk', text', win_start', tail_offset', tail_file', win_line_offset')
      /\ modified' \in BOOLEAN
  BY <1>1, <1>2, <1>3, <1>4, LoadMoreTypes
<1>6. pc' \in {"edit", "seek", "land", "quit"}
  BY <1>3
<1> QED BY <1>2, <1>5, <1>6, PagedTypes

(* ^B and nG, by Reload.                                                   *)
LEMMA ReloadedTypes == ASSUME TypeOK, PageBack \/ GotoLine PROVE TypeOK'
<1>1. /\ WindowOK(disk, text, win_start, tail_offset, tail_file, win_line_offset)
      /\ pc \in {"edit", "seek", "land", "quit"}
  BY TypeParts DEF RestOK
<1>2. win_start > 0 /\ UNCHANGED <<filename, undo, user, edits>> /\ pc' = pc
  BY DEF PageBack, GotoLine
<1>3. PICK off \in Nat, works \in SwapWorks : Reload(off, works)
  <2>1. CASE GotoLine
    BY <2>1 DEF GotoLine
  <2>2. CASE PageBack
    <3> DEFINE off == IF win_start > Chunk THEN win_start - Chunk ELSE 0
    <3>1. win_start \in Nat
      BY <1>1 DEF WindowOK
    <3>2. off \in Nat
      BY <3>1, SizesAssumption
    <3>3. \E works \in SwapWorks : Reload(off, works)
      BY <2>2 DEF PageBack
    <3> HIDE DEF off
    <3> QED BY <3>2, <3>3
  <2> QED BY <2>1, <2>2
<1>4. /\ WindowOK(disk', text', win_start', tail_offset', tail_file', win_line_offset')
      /\ modified' \in BOOLEAN
  BY <1>1, <1>2, <1>3, ReloadTypes
<1> QED BY <1>1, <1>2, <1>4, PagedTypes

(* :w, :wq and :x.                                                         *)
LEMMA WriteTypes ==
    ASSUME TypeOK, NEW n \in Names, NEW quits \in BOOLEAN, Write(n, quits) PROVE TypeOK'
<1>1. /\ WindowOK(disk, text, win_start, tail_offset, tail_file, win_line_offset)
      /\ RestOK(filename, modified, undo, pc, user, edits)
  BY TypeParts
<1> DEFINE s == Saved(n)
<1>2. SavedOK(s)
  BY <1>1, SavedType
<1>3. /\ disk' = IF quits THEN WithoutSwap(s.disk) ELSE s.disk
      /\ tail_file' = s.file /\ tail_offset' = s.tail /\ filename' = n /\ modified' = FALSE
      /\ pc' = IF quits THEN "quit" ELSE "edit"
      /\ UNCHANGED <<text, win_start, win_line_offset, undo, user, edits>>
  BY DEF Write
<1> HIDE DEF s
<1>4. WithoutSwap(s.disk) \in Disks
  BY <1>2, NamesAssumption DEF SavedOK, Disks, WithoutSwap
<1>5. disk' \in Disks
  BY <1>2, <1>3, <1>4 DEF SavedOK
<1>6. WindowOK(disk', text', win_start', tail_offset', tail_file', win_line_offset')
  BY <1>1, <1>2, <1>3, <1>5 DEF WindowOK, SavedOK
<1>7. RestOK(filename', modified', undo', pc', user', edits')
  BY <1>1, <1>3 DEF RestOK
<1> QED BY <1>6, <1>7, TypePartsNext

(* :e and :e!, of a file that exists or of a new one.                      *)
LEMMA EditTypes ==
    ASSUME TypeOK, NEW n \in Names, NEW force \in BOOLEAN, Edit(n, force) PROVE TypeOK'
<1>1. /\ WindowOK(disk, text, win_start, tail_offset, tail_file, win_line_offset)
      /\ RestOK(filename, modified, undo, pc, user, edits)
  BY TypeParts
<1> DEFINE w == Filled(BytesIn(disk, n), 0)
<1>2. /\ filename' = n /\ win_start' = 0 /\ modified' = FALSE
      /\ undo' = [undo EXCEPT !.type = "none"]
      /\ text' = w.text /\ tail_offset' = w.tail /\ tail_file' = IF w.tail > 0 THEN n ELSE ""
      /\ win_line_offset' = IF disk[FileOf[n]] = NoFile THEN win_line_offset ELSE 0
      /\ UNCHANGED <<disk, pc, user, edits>>
  BY DEF Edit
<1>3. disk \in Disks /\ win_line_offset \in Nat /\ undo \in UndoRecords
  BY <1>1 DEF WindowOK, RestOK
<1>4. FilledOK(w)
  <2>1. BytesIn(disk, n) \in Seq(Byte)
    BY <1>3, FileType
  <2> HIDE DEF BytesIn
  <2> QED BY <2>1, FilledType
<1> HIDE DEF w
<1>5. undo' \in UndoRecords
  BY <1>2, <1>3, NoneType
<1>6. text' \in Seq(Char) /\ Len(text') <= Cap + Reserve /\ tail_offset' \in Nat
  <2>1. text' = w.text /\ tail_offset' = w.tail
    BY <1>2
  <2>2. Len(w.text) <= Cap + Reserve
    BY <1>4, SizesAssumption DEF FilledOK
  <2> QED BY <1>4, <2>1, <2>2 DEF FilledOK
<1>7. /\ tail_file' \in Names \cup {""} /\ n # ""
      /\ win_start' > 0 \/ tail_offset' > 0 => tail_file' # ""
  <2>1. n # ""
    BY NamesAssumption
  <2>2. ~ win_start' > 0
    <3>1. win_start' = 0
      BY <1>2
    <3> QED BY <3>1
  <2>3. CASE w.tail > 0
    BY <1>2, <2>1, <2>3, Zenon
  <2>4. CASE ~ w.tail > 0
    BY <1>2, <2>1, <2>2, <2>4, Zenon
  <2> QED BY <2>3, <2>4
<1>8. win_start' \in Nat /\ win_line_offset' \in Nat
  <2>1. win_start' = 0 /\ win_line_offset' \in {win_line_offset, 0}
    BY <1>2, Zenon
  <2> QED BY <1>3, <2>1
<1>9. WindowOK(disk', text', win_start', tail_offset', tail_file', win_line_offset')
  BY <1>2, <1>3, <1>6, <1>7, <1>8 DEF WindowOK
<1>10. RestOK(filename', modified', undo', pc', user', edits')
  BY <1>1, <1>2, <1>5 DEF RestOK
<1> QED BY <1>9, <1>10, TypePartsNext

(* :q and :q!.                                                             *)
LEMMA QuitTypes == ASSUME TypeOK, NEW force \in BOOLEAN, Quit(force) PROVE TypeOK'
<1>1. /\ WindowOK(disk, text, win_start, tail_offset, tail_file, win_line_offset)
      /\ RestOK(filename, modified, undo, pc, user, edits)
  BY TypeParts
<1>2. pc' = "quit" /\ disk' = WithoutSwap(disk)
      /\ UNCHANGED <<window, filename, modified, undo, user, edits>>
  BY DEF Quit
<1>3. disk' \in Disks
  BY <1>1, <1>2, NamesAssumption DEF WindowOK, Disks, WithoutSwap
<1>4. WindowOK(disk', text', win_start', tail_offset', tail_file', win_line_offset')
  BY <1>1, <1>2, <1>3 DEF WindowOK, window
<1>5. RestOK(filename', modified', undo', pc', user', edits')
  BY <1>1, <1>2 DEF RestOK
<1> QED BY <1>4, <1>5, TypePartsNext

(* The steps of G that read nothing.                                       *)
LEMMA WaitingTypes == ASSUME TypeOK, SeekEnd \/ SeekLand \/ UNCHANGED vars PROVE TypeOK'
BY DEF TypeOK, SeekEnd, SeekLand, vars, window

(* The first window.                                                       *)
LEMMA InitTypes == ASSUME Init PROVE TypeOK
<1>1. user \in DOMAIN Users /\ disk = Users[user].disk /\ filename \in StartNames
      /\ win_start = 0 /\ win_line_offset = 0 /\ modified = FALSE /\ pc = "edit" /\ edits = 0
      /\ undo = [type |-> "none", pos |-> 0, text |-> << >>, was_clean |-> FALSE]
  BY DEF Init
<1> DEFINE w == Filled(BytesIn(disk, filename), 0)
<1>2. text = w.text /\ tail_offset = w.tail /\ tail_file = IF w.tail > 0 THEN filename ELSE ""
  BY DEF Init
<1>3. disk \in Disks /\ filename \in Names /\ Users[user].edits \in Nat
  BY <1>1, InputAssumption DEF Disks, Byte
<1>4. FilledOK(w)
  <2>1. BytesIn(disk, filename) \in Seq(Byte)
    BY <1>3, FileType
  <2> HIDE DEF BytesIn
  <2> QED BY <2>1, FilledType
<1> HIDE DEF w
<1>5. text \in Seq(Char) /\ Len(text) <= Cap + Reserve /\ tail_offset \in Nat
  <2>1. text = w.text /\ tail_offset = w.tail
    BY <1>2
  <2>2. Len(w.text) <= Cap + Reserve
    BY <1>4, SizesAssumption DEF FilledOK
  <2> QED BY <1>4, <2>1, <2>2 DEF FilledOK
<1>6. /\ tail_file \in Names \cup {""}
      /\ win_start > 0 \/ tail_offset > 0 => tail_file # ""
  <2>1. filename # ""
    BY <1>3, NamesAssumption
  <2>2. ~ win_start > 0
    <3>1. win_start = 0
      BY <1>1
    <3> QED BY <3>1
  <2>3. CASE w.tail > 0
    BY <1>2, <1>3, <2>1, <2>3, Zenon
  <2>4. CASE ~ w.tail > 0
    BY <1>2, <2>2, <2>4, Zenon
  <2> QED BY <2>3, <2>4
<1>7. win_start \in Nat /\ win_line_offset \in Nat
  <2>1. win_start = 0 /\ win_line_offset = 0
    BY <1>1
  <2> QED BY <2>1
<1>8. WindowOK(disk, text, win_start, tail_offset, tail_file, win_line_offset)
  BY <1>3, <1>5, <1>6, <1>7 DEF WindowOK
<1>9. undo \in UndoRecords
  <2>1. << >> \in Seq(Char)
    OBVIOUS
  <2> QED BY <1>1, <2>1 DEF UndoRecords
<1>10. edits \in 0..Users[user].edits
  BY <1>1, <1>3
<1>11. RestOK(filename, modified, undo, pc, user, edits)
  BY <1>1, <1>3, <1>9, <1>10 DEF RestOK
<1> QED BY <1>8, <1>11, TypeParts

(* Every step keeps the types.                                             *)
LEMMA NextTypes == ASSUME TypeOK, [Next]_vars PROVE TypeOK'
<1> USE DEF Next
<1>1. CASE DeleteRange
  BY <1>1, DeleteRangeTypes
<1>2. CASE InsertText
  BY <1>2, InsertTextTypes
<1>3. CASE Undo
  BY <1>3, UndoTypes
<1>4. CASE PageForward
  BY <1>4, PageForwardTypes
<1>5. CASE PageBack \/ GotoLine
  BY <1>5, ReloadedTypes
<1>6. CASE Seeking
  BY <1>6, SeekOnTypes, WaitingTypes DEF Seeking
<1>7. CASE SeekEnd \/ UNCHANGED vars
  BY <1>7, WaitingTypes
<1>8. ASSUME NEW n \in Users[user].names, ReadFile(n) PROVE TypeOK'
  BY <1>8, ReadFileTypes
<1>9. ASSUME NEW n \in Users[user].names, NEW b \in BOOLEAN, Write(n, b) \/ Edit(n, b)
      PROVE  TypeOK'
  <2>1. n \in Names
    BY InputAssumption DEF TypeOK
  <2> QED BY <1>9, <2>1, WriteTypes, EditTypes
<1>10. ASSUME NEW b \in BOOLEAN, Quit(b) PROVE TypeOK'
  BY <1>10, QuitTypes
<1> QED BY <1>1, <1>2, <1>3, <1>4, <1>5, <1>6, <1>7, <1>8, <1>9, <1>10

(* Offsets, names and contents keep their types, and the window never      *)
(* outgrows the buffer, whatever files, sizes and users there are: also    *)
(* with files whose lines end in LF alone, with an unusable swap file and  *)
(* with two spellings of a name.                                           *)
THEOREM WindowTypes == Spec => []TypeOK
<1>1. Init => TypeOK
  BY InitTypes
<1>2. TypeOK /\ [Next]_vars => TypeOK'
  BY NextTypes
<1> QED BY <1>1, <1>2, PTL DEF Spec
-----------------------------------------------------------------------------
(* Reading on to the end.                                                  *)

(* gb_load_more at the last character of a window reads nothing only where *)
(* nothing is left, if a chunk is less than a full window.                 *)
LEMMA NothingLeft ==
    ASSUME TypeOK, Chunk < Cap, NEW works, NEW c,
           c = IF text = << >> THEN 0 ELSE Len(text) - 1,
           LoadMore(c, works, 0)
    PROVE  tail_offset' = 0
<1>1. text \in Seq(Char) /\ Len(text) \in Nat /\ (text # << >> => Len(text) > 0)
  <2>1. text \in Seq(Char)
    BY DEF TypeOK
  <2> QED BY <2>1
<1>2. Cap \in Nat /\ Chunk \in Nat /\ Chunk > 0
  BY SizesAssumption
<1> DEFINE k == Dropped(c)
           kept == From(text, k)
           room == RoomBehind(kept)
<1>3. k \in 0..Len(text) /\ Len(text) - k <= Cap - Chunk
      /\ (Surplus > 0 => k > 0)
  <2>1. CASE text = << >>
    <3>1. Len(text) = 0
      BY <2>1
    <3> QED BY <1>2, <3>1 DEF Dropped, Surplus
  <2>2. CASE text # << >>
    <3>1. c = Len(text) - 1 /\ Len(text) > 0
      BY <1>1, <2>2
    <3> QED BY <1>1, <1>2, <3>1 DEF Dropped, Surplus, Smaller
  <2> QED BY <2>1, <2>2
<1>4. ~ Stuck(c)
  BY <1>1, <1>2, <1>3 DEF Stuck, Surplus
<1>5. room > 0
  <2>1. Len(kept) = Len(text) - k
    BY <1>1, <1>3, Parts
  <2> HIDE DEF kept, k
  <2> QED BY <1>1, <1>2, <1>3, <2>1 DEF RoomBehind, Smaller
<1>6. tail_offset' = 0
  <2>1. \E s : \E b : tail_offset' = IF 0 < RoomBehind(From(text, Dropped(c))) THEN 0
                                     ELSE IF 0 = 0 THEN s.tail ELSE After(b, s.tail, 0)
    BY <1>4 DEF LoadMore, RoomBehind
  <2> QED BY <1>5, <2>1
<1> QED BY <1>6

(* G ends only where gb_load_more found nothing.                           *)
LEMMA SeekSteps ==
    ASSUME TypeOK, Chunk < Cap, SeekReachesEnd, [Next]_vars
    PROVE  SeekReachesEnd'
<1> SUFFICES ASSUME pc' = "land" PROVE tail_offset' = 0
  BY DEF SeekReachesEnd
<1>1. CASE SeekOn
  <2> DEFINE c == IF text = << >> THEN 0 ELSE Len(text) - 1
  <2>1. PICK works \in SwapWorks, n \in 0..Chunk :
          LoadMore(c, works, n) /\ pc' = IF LoadsNothing(n) THEN "land" ELSE "seek"
    BY <1>1 DEF SeekOn
  <2>2. n = 0
    BY <2>1 DEF LoadsNothing
  <2>3. LoadMore(c, works, 0)
    BY <2>1, <2>2, Zenon
  <2> HIDE DEF c
  <2> QED BY <2>3, NothingLeft DEF c
<1>2. CASE UNCHANGED vars
  BY <1>2 DEF vars, window, SeekReachesEnd
<1>3. ASSUME DeleteRange \/ InsertText \/ Undo \/ PageForward \/ PageBack \/ GotoLine
      PROVE  FALSE
  BY <1>3 DEF DeleteRange, InsertText, Undo, PageForward, PageBack, GotoLine, Splice, Gets
<1>4. ASSUME SeekEnd \/ SeekLand PROVE FALSE
  BY <1>4 DEF SeekEnd, SeekLand
<1>5. ASSUME NEW n, NEW b \in BOOLEAN, ReadFile(n) \/ Write(n, b) \/ Edit(n, b) \/ Quit(b)
      PROVE  FALSE
  BY <1>5 DEF ReadFile, Write, Edit, Quit, Splice, Gets
<1> QED BY <1>1, <1>2, <1>3, <1>4, <1>5 DEF Next, Seeking

(* G and :$ load the rest of the file before they go to the last line.     *)
THEOREM SeekReachesEndAlways == Chunk < Cap => (Spec => []SeekReachesEnd)
<1> SUFFICES ASSUME Chunk < Cap PROVE Spec => []SeekReachesEnd
  OBVIOUS
<1>1. Init => SeekReachesEnd
  BY DEF Init, SeekReachesEnd
<1>2. TypeOK /\ SeekReachesEnd /\ [Next]_vars => SeekReachesEnd'
  BY SeekSteps
<1> QED BY <1>1, <1>2, WindowTypes, PTL DEF Spec
-----------------------------------------------------------------------------
(* What Document sees of the disk.                                         *)

Ordinaries == Files \ {FileOf[Swap]}
Shown(d) == [f \in Ordinaries |-> IF d[f] = NoFile THEN NoFile ELSE Decode(d[f])]

(* Its operators, in the terms of FileWindow.                              *)
LEMMA DocumentContents ==
    ASSUME disk \in Disks, NEW n \in Names \ {Swap}, FileOf[n] \in Ordinaries
    PROVE  Document!Contents(FileOf[n]) = Decode(BytesIn(disk, n))
<1>1. disk[FileOf[n]] # NoFile => Decode(disk[FileOf[n]]) # NoFile
  <2>1. n \in Names
    OBVIOUS
  <2>2. disk[FileOf[n]] # NoFile => disk[FileOf[n]] \in Seq(Byte)
    BY <2>1, FileType
  <2>3. \A t \in Seq(Char) : t \in Seq(Char \cup {CR})
    BY SeqMonotonic
  <2> QED BY <2>2, <2>3, Reads, NoFileAssumption
<1>2. Document!Contents(FileOf[n]) =
        IF Shown(disk)[FileOf[n]] = NoFile THEN << >> ELSE Shown(disk)[FileOf[n]]
  BY DEF Document!Contents, Shown, Ordinaries
<1>3. Shown(disk)[FileOf[n]] = IF disk[FileOf[n]] = NoFile THEN NoFile ELSE Decode(disk[FileOf[n]])
  BY DEF Shown
<1> QED BY <1>1, <1>2, <1>3, DecodeEmpty DEF BytesIn

(* When a step is a Change of Document.                                    *)
LEMMA DocumentChange ==
    ASSUME TypeOK, FileOf[filename] \in Ordinaries, filename \in Names \ {Swap},
           pc # "quit", pc' # "quit", Doc' \in Seq(Char), edits' = edits + 1,
           UNCHANGED <<disk, filename>>,
           ~ Dirty' => Doc' = Decode(BytesIn(disk, filename))
    PROVE  Document!Change
<1>1. Document!Contents(FileOf[filename]) = Decode(BytesIn(disk, filename))
  BY DocumentContents DEF TypeOK, Disks, Byte
<1>2. [n \in Names \ {Swap} |-> FileOf[n]][filename] = FileOf[filename]
  OBVIOUS
<1> HIDE DEF Doc, Dirty
<1> QED BY <1>1, <1>2 DEF Document!Change
-----------------------------------------------------------------------------
(* The three parts of the document.                                        *)

HeadOf(d, tf, ws) == IF ws > 0 /\ tf # "" THEN First(BytesIn(d, tf), ws) ELSE << >>
RestOf(d, tf, to) == IF to > 0 /\ tf # "" THEN From(BytesIn(d, tf), to) ELSE << >>

(* The window holds x, and tail_file what is before it (h), what the       *)
(* window was read from (m) and what is behind it (r), all written with    *)
(* CR LF; where nothing was changed, x is what was read.  Characters are   *)
(* those of T.                                                             *)
At(T, d, x, ws, to, tf, mod, h, m, r) ==
    /\ x \in Seq(T) /\ h \in Seq(T) /\ m \in Seq(T) /\ r \in Seq(T)
    /\ ws = Len(Encode(h))
    /\ to = 0 => r = << >>
    /\ to > 0 => to = ws + Len(Encode(m))
    /\ ws > 0 \/ to > 0 =>
        tf \in Names /\ BytesIn(d, tf) = (Encode(h) \o Encode(m)) \o Encode(r)
    /\ ~mod => m = x

(* A text's encoding, and when there is none.                              *)
LEMMA EncodeLength ==
    ASSUME NEW t \in Seq(Char)
    PROVE  /\ Encode(t) \in Seq(Byte) /\ Len(Encode(t)) \in Nat
           /\ Len(Encode(t)) = 0 => t = << >>
<1>1. Encode(t) \in Seq(Byte) /\ Decode(Encode(t)) = t
  BY Reads
<1>2. Len(Encode(t)) = 0 => Encode(t) = << >>
  BY <1>1, EmptySeq
<1>3. Len(Encode(t)) \in Nat
  BY <1>1
<1> QED BY <1>1, <1>2, <1>3, DecodeEmpty

(* Head and rest are what At says they are.                                *)
LEMMA AtEnds ==
    ASSUME NEW T, T \subseteq Char, NEW d, NEW x, NEW ws, NEW to \in Nat, NEW tf, NEW mod,
           NEW h, NEW m, NEW r, At(T, d, x, ws, to, tf, mod, h, m, r)
    PROVE  HeadOf(d, tf, ws) = Encode(h) /\ RestOf(d, tf, to) = Encode(r)
<1>1. h \in Seq(Char) /\ m \in Seq(Char) /\ r \in Seq(Char)
  BY SeqMonotonic DEF At
<1> DEFINE E == Encode(h)
           F == Encode(m)
           G == Encode(r)
<1>2. E \in Seq(Byte) /\ F \in Seq(Byte) /\ G \in Seq(Byte)
  BY <1>1, EncodeLength
<1>3. ws = Len(E) /\ ws \in Nat
  BY <1>2 DEF At
<1>4. Len(E) = 0 => E = << >>
  BY <1>2, EmptySeq
<1>5. to = 0 => G = << >>
  BY EncodeEmpty DEF At
<1>6. to > 0 => to = ws + Len(F)
  BY DEF At
<1>7. ws > 0 \/ to > 0 => tf # "" /\ BytesIn(d, tf) = (E \o F) \o G
  BY NamesAssumption DEF At
<1> HIDE DEF E, F, G
<1>8. E \o F \in Seq(Byte) /\ F \o G \in Seq(Byte) /\ Len(E \o F) = Len(E) + Len(F)
  BY <1>2, ConcatLength
<1>9. (E \o F) \o G = E \o (F \o G)
  <2>1. ThreeInARow(E, F, G)
    BY <1>2, Regroup
  <2> QED BY <2>1, Zenon DEF ThreeInARow
<1>10. First(E \o (F \o G), Len(E)) = E /\ From((E \o F) \o G, Len(E \o F)) = G
  BY <1>2, <1>8, PartsOfConcat
<1>11. HeadOf(d, tf, ws) = E
  <2>1. CASE ws > 0
    <3>1. BytesIn(d, tf) = E \o (F \o G) /\ tf # ""
      BY <1>7, <1>9, <2>1, Zenon
    <3> QED BY <1>3, <1>10, <2>1, <3>1, Zenon DEF HeadOf
  <2>2. CASE ~ ws > 0
    <3>1. ws = 0
      BY <1>3, <2>2
    <3> QED BY <1>3, <1>4, <2>2, <3>1, Zenon DEF HeadOf
  <2> QED BY <2>1, <2>2
<1>12. RestOf(d, tf, to) = G
  <2>1. CASE to > 0
    <3>1. BytesIn(d, tf) = (E \o F) \o G /\ tf # "" /\ to = Len(E \o F)
      BY <1>3, <1>6, <1>7, <1>8, <2>1, Zenon
    <3> QED BY <1>10, <2>1, <3>1, Zenon DEF RestOf
  <2>2. CASE ~ to > 0
    <3>1. to = 0
      BY <2>2
    <3> QED BY <1>5, <2>2, <3>1, Zenon DEF RestOf
  <2> QED BY <2>1, <2>2
<1> QED BY <1>11, <1>12 DEF E, G

(* And so is the document.                                                 *)
DocOf(d, x, ws, to, tf) == Decode(HeadOf(d, tf, ws)) \o x \o Decode(RestOf(d, tf, to))

ThreeParts(d, x, ws, to, tf, h, r) ==
    /\ DocOf(d, x, ws, to, tf) = (h \o x) \o r
    /\ Decode(HeadOf(d, tf, ws)) = h /\ Decode(RestOf(d, tf, to)) = r

(* A window at h, m, r shows the document that has h before the window and *)
(* r behind it.                                                            *)
LEMMA AtDoc ==
    ASSUME NEW T, T \subseteq Char, NEW d, NEW x, NEW ws, NEW to \in Nat, NEW tf, NEW mod,
           NEW h, NEW m, NEW r, At(T, d, x, ws, to, tf, mod, h, m, r)
    PROVE  ThreeParts(d, x, ws, to, tf, h, r)
<1>1. h \in Seq(Char) /\ r \in Seq(Char)
  BY SeqMonotonic DEF At
<1>2. Decode(Encode(h)) = h /\ Decode(Encode(r)) = r
  BY <1>1, Reads
<1>3. HeadOf(d, tf, ws) = Encode(h) /\ RestOf(d, tf, to) = Encode(r)
  BY AtEnds
<1> QED BY <1>2, <1>3 DEF DocOf, ThreeParts

(* Only tail_file matters.                                                 *)
LEMMA AtOther ==
    ASSUME NEW T, NEW d, NEW d2, NEW x, NEW ws, NEW to, NEW tf, NEW mod, NEW h, NEW m, NEW r,
           At(T, d, x, ws, to, tf, mod, h, m, r),
           ws > 0 \/ to > 0 => BytesIn(d2, tf) = BytesIn(d, tf)
    PROVE  At(T, d2, x, ws, to, tf, mod, h, m, r)
BY Zenon DEF At

(* Six pieces, of which the middle four are cut differently.               *)
SixInARow(h, a, q, s, r) == (h \o (a \o q)) \o (s \o r) = ((h \o a) \o (q \o s)) \o r

(* Concatenation is associative.                                           *)
LEMMA RegroupSix ==
    ASSUME NEW S, NEW h, NEW a, NEW q, NEW s, NEW r,
           h \in Seq(S), a \in Seq(S), q \in Seq(S), s \in Seq(S), r \in Seq(S)
    PROVE  SixInARow(h, a, q, s, r)
<1>1. \A x, y, z \in Seq(S) : ThreeInARow(x, y, z)
  BY Regroup
<1>2. a \o q \in Seq(S) /\ h \o a \in Seq(S) /\ s \o r \in Seq(S) /\ q \o s \in Seq(S)
  BY ConcatProperties
<1>3. /\ ThreeInARow(h, a, q) /\ ThreeInARow(h \o a, q, s \o r) /\ ThreeInARow(q, s, r)
      /\ ThreeInARow(h \o a, q \o s, r)
  BY <1>1, <1>2, ZenonT(30)
<1>4. (h \o (a \o q)) \o (s \o r) = (h \o a) \o (q \o (s \o r))
  BY <1>3, Zenon DEF ThreeInARow
<1>5. (h \o a) \o (q \o (s \o r)) = (h \o a) \o ((q \o s) \o r)
  BY <1>3, Zenon DEF ThreeInARow
<1>6. (h \o a) \o ((q \o s) \o r) = ((h \o a) \o (q \o s)) \o r
  BY <1>3, Zenon DEF ThreeInARow
<1> QED BY <1>4, <1>5, <1>6, Zenon DEF SixInARow

(* A window that slides: of a \o kept the first part is dropped, of s \o r *)
(* the first part is read.                                                 *)
LEMMA AtSlid ==
    ASSUME NEW T, T \subseteq Char, NEW d, NEW ws \in Nat, NEW to \in Nat, NEW tf, NEW mod,
           NEW h, NEW a, NEW kept, NEW q, NEW s, NEW r, NEW to2 \in Nat, NEW mod2,
           a \in Seq(T), kept \in Seq(T), q \in Seq(T), s \in Seq(T), r \in Seq(T),
           At(T, d, a \o kept, ws, to, tf, mod, h, a \o q, s \o r),
           to > 0,
           to2 = 0 => r = << >>,
           to2 > 0 => to2 = to + Len(Encode(s)),
           ~mod2 => q = kept
    PROVE  At(T, d, kept \o s, ws + Len(Encode(a)), to2, tf, mod2, h \o a, q \o s, r)
<1>1. /\ h \in Seq(T) /\ ws = Len(Encode(h)) /\ to = ws + Len(Encode(a \o q)) /\ tf \in Names
      /\ BytesIn(d, tf) = (Encode(h) \o Encode(a \o q)) \o Encode(s \o r)
  BY DEF At
<1>2. /\ h \in Seq(Char) /\ a \in Seq(Char) /\ kept \in Seq(Char) /\ q \in Seq(Char)
      /\ s \in Seq(Char) /\ r \in Seq(Char)
  BY <1>1, SeqMonotonic
<1> DEFINE H == Encode(h)
           A == Encode(a)
           Q == Encode(q)
           E == Encode(s)
           R == Encode(r)
<1>3. /\ H \in Seq(Byte) /\ A \in Seq(Byte) /\ Q \in Seq(Byte) /\ E \in Seq(Byte) /\ R \in Seq(Byte)
      /\ Len(H) \in Nat /\ Len(A) \in Nat /\ Len(Q) \in Nat /\ Len(E) \in Nat
  BY <1>2, EncodeLength
<1>4. /\ Encode(a \o q) = A \o Q /\ Encode(s \o r) = E \o R
      /\ Encode(h \o a) = H \o A /\ Encode(q \o s) = Q \o E
  BY <1>2, EncodeBoth
<1> HIDE DEF H, A, Q, E, R
<1>5. /\ Len(A \o Q) = Len(A) + Len(Q) /\ Len(H \o A) = Len(H) + Len(A)
      /\ Len(Q \o E) = Len(Q) + Len(E)
  BY <1>3, ConcatLength
<1>6. BytesIn(d, tf) = ((H \o A) \o (Q \o E)) \o R
  <2>1. SixInARow(H, A, Q, E, R)
    BY <1>3, RegroupSix
  <2>2. BytesIn(d, tf) = (H \o (A \o Q)) \o (E \o R)
    BY <1>1, <1>4, Zenon DEF H, R
  <2> QED BY <2>1, <2>2, Zenon DEF SixInARow
<1>7. ws + Len(A) = Len(Encode(h \o a))
  BY <1>1, <1>4, <1>5 DEF H
<1>8. to2 > 0 => to2 = (ws + Len(A)) + Len(Encode(q \o s))
  <2>1. to = Len(H) + (Len(A) + Len(Q)) /\ ws = Len(H)
    BY <1>1, <1>4, <1>5 DEF H
  <2>2. Len(Encode(q \o s)) = Len(Q) + Len(E)
    BY <1>4, <1>5
  <2>3. to2 > 0 => to2 = to + Len(E)
    BY DEF E
  <2> QED BY <1>3, <2>1, <2>2, <2>3
<1>9. kept \o s \in Seq(T) /\ h \o a \in Seq(T) /\ q \o s \in Seq(T)
  BY <1>1, ConcatProperties
<1>10. BytesIn(d, tf) = (Encode(h \o a) \o Encode(q \o s)) \o Encode(r)
  BY <1>4, <1>6, Zenon DEF R
<1>11. ~mod2 => q \o s = kept \o s
  BY Zenon
<1>12. ws + Len(Encode(a)) = Len(Encode(h \o a))
  BY <1>7 DEF A
<1>13. to2 > 0 => to2 = (ws + Len(Encode(a))) + Len(Encode(q \o s))
  BY <1>8 DEF A
<1> QED BY <1>1, <1>9, <1>10, <1>11, <1>12, <1>13, Zenon DEF At

(* A window read from behind h on in a file that holds h and then t.       *)
FilledAt(T, d, tf, h, t, w, mod) ==
    /\ At(T, d, w.text, Len(Encode(h)), w.tail, tf, mod, h, w.text, From(t, Cap))
    /\ w.tail \in Nat /\ t = w.text \o From(t, Cap)
    /\ w.tail > 0 => w.text # << >>

(* gb_fill behind h is a window at h.                                      *)
LEMMA AtFilled ==
    ASSUME NEW T, T \subseteq Char, NEW d, NEW tf \in Names, NEW h, NEW t, NEW w, NEW mod,
           h \in Seq(T), t \in Seq(T),
           BytesIn(d, tf) = Encode(h) \o Encode(t),
           w = Filled(BytesIn(d, tf), Len(Encode(h)))
    PROVE  FilledAt(T, d, tf, h, t, w, mod)
<1>1. h \in Seq(Char) /\ t \in Seq(Char) /\ Cap \in Nat /\ Cap > 0
  BY SeqMonotonic, SizesAssumption
<1> DEFINE H == Encode(h)
           x == First(t, Cap)
           r == From(t, Cap)
<1>2. H \in Seq(Byte) /\ Len(H) \in Nat
  BY <1>1, EncodeLength
<1>3. /\ w.text = x
      /\ w.tail = IF Len(t) <= Cap THEN 0 ELSE Len(H) + Len(Encode(x))
  <2>1. FilledWith(H, t, Filled(H \o Encode(t), Len(H)))
    BY <1>1, <1>2, FilledText
  <2>2. w = Filled(H \o Encode(t), Len(H))
    OBVIOUS
  <2> QED BY <2>1, <2>2 DEF FilledWith
<1>4. Len(t) \in Nat
  BY <1>1
<1>5. /\ x \in Seq(T) /\ r \in Seq(T) /\ t = x \o r
      /\ Len(t) <= Cap => r = << >>
      /\ Len(t) > Cap => x # << >>
  <2>1. CASE Len(t) <= Cap
    <3>1. x = t
      BY <1>1, <2>1, FirstOrAll
    <3>2. r = << >>
      BY <1>1, <1>4, <2>1 DEF From
    <3>3. t \o << >> = t
      BY ConcatEmptySeq
    <3> HIDE DEF x, r
    <3>4. << >> \in Seq(T) /\ ~ Len(t) > Cap
      BY <1>1, <1>4, <2>1
    <3> QED BY <3>1, <3>2, <3>3, <3>4
  <2>2. CASE Len(t) > Cap
    <3>1. Cap \in 0..Len(t)
      BY <1>1, <1>4, <2>2
    <3>2. x \in Seq(T) /\ Len(x) = Cap /\ r \in Seq(T) /\ t = x \o r
      BY <3>1, Parts
    <3> HIDE DEF x, r
    <3>3. x # << >> /\ ~ Len(t) <= Cap
      BY <1>1, <1>4, <2>2, <3>2
    <3> QED BY <3>2, <3>3
  <2> QED BY <1>1, <1>4, <2>1, <2>2
<1>6. x \in Seq(Char) /\ r \in Seq(Char)
  BY <1>5, SeqMonotonic
<1> HIDE DEF x, r
<1>7. Encode(x) \in Seq(Byte) /\ Encode(r) \in Seq(Byte) /\ Len(Encode(x)) \in Nat
      /\ (Len(Encode(x)) = 0 => x = << >>)
  BY <1>6, EncodeLength
<1>8. BytesIn(d, tf) = (H \o Encode(x)) \o Encode(r)
  <2>1. Encode(t) = Encode(x) \o Encode(r)
    BY <1>5, <1>6, EncodeBoth
  <2>2. ThreeInARow(H, Encode(x), Encode(r))
    BY <1>2, <1>7, Regroup
  <2> QED BY <2>1, <2>2, Zenon DEF ThreeInARow
<1> HIDE DEF H
<1>9. CASE Len(t) <= Cap
  <2>1. w.tail = 0 /\ r = << >> /\ ~ w.tail > 0
    BY <1>3, <1>5, <1>9
  <2>2. At(T, d, w.text, Len(H), w.tail, tf, mod, h, w.text, r)
    BY <1>3, <1>5, <1>8, <2>1, Zenon DEF At, H
  <2> QED BY <1>3, <1>5, <2>1, <2>2 DEF H, r, FilledAt
<1>10. CASE Len(t) > Cap
  <2>1. w.tail = Len(H) + Len(Encode(x))
    BY <1>1, <1>3, <1>4, <1>10
  <2>2. x # << >>
    BY <1>5, <1>10
  <2>3. w.tail \in Nat /\ w.tail > 0 /\ w.tail # 0
    BY <1>2, <1>7, <2>1, <2>2
  <2>4. At(T, d, w.text, Len(H), w.tail, tf, mod, h, w.text, r)
    BY <1>3, <1>5, <1>8, <2>1, <2>3, Zenon DEF At, H
  <2> QED BY <1>3, <1>5, <2>2, <2>3, <2>4 DEF H, r, FilledAt
<1> QED BY <1>1, <1>4, <1>9, <1>10
-----------------------------------------------------------------------------
(* What the refinement rests on.                                           *)

(* The conditions under which the code keeps the document.  Each is left   *)
(* out of the code's own description and each is needed: without it a step *)
(* loses or changes text.                                                  *)

\* Commands that save, or move the window.
Paging == {"^F", "^B", "nG", "G"}
Moving == Paging \cup {":w"}
Pages(u) == Users[u].keys \cap Paging # {}
Moves(u) == Users[u].keys \cap Moving # {}

\* ^B goes to a byte offset, so who gives it must have no line ends.
TextOf(u) == IF "^B" \in Users[u].keys THEN Char \ {LF} ELSE Char

\* A file as the editor writes it: lines end with CR LF, and no other CR.
WellFormed(T, b) == Decode(b) \in Seq(T) /\ b = Encode(Decode(b))

(* One name per file; the swap file can be written; files are well-formed; *)
(* who saves or moves the window does not empty it by dG, nor undo; who    *)
(* undoes deletes no more at once than the undo record keeps.              *)
Ordinary ==
    /\ \A m, n \in Names : FileOf[m] = FileOf[n] => m = n
    /\ ~ SwapMayFail
    /\ \A u \in DOMAIN Users :
        /\ \A f \in Files \ {FileOf[Swap]} :
            Users[u].disk[f] = NoFile \/ WellFormed(TextOf(u), Users[u].disk[f])
        /\ Users[u].typed \subseteq Seq(TextOf(u))
        /\ "dG" \in Users[u].keys => ~ Moves(u)
        /\ "u" \in Users[u].keys =>
            ~ Moves(u) /\ ":r" \notin Users[u].keys /\ Users[u].deletes <= UndoMax

(* What a user types is characters.                                        *)
LEMMA TextOfType == ASSUME NEW u PROVE TextOf(u) \subseteq Char
BY DEF TextOf

(* A save: the file holds head, window and rest, and the window is over    *)
(* it; other files are untouched.                                          *)
Image(h, m, r) == (Encode(h) \o Encode(m)) \o Encode(r)

SavedAs(T, s, n, h, r) ==
    /\ s.disk = [disk EXCEPT ![FileOf[n]] = Image(h, text, r)]
    /\ At(T, s.disk, text, win_start, s.tail, s.file, FALSE, h, text, r)
    /\ s.tail \in Nat
    /\ Windowed => s.file = n /\ s.tail = win_start + Len(Encode(text))
    /\ ~ Windowed => s.file = tail_file

(* Such an image is the encoding of the document, and is read as it.       *)
LEMMA ImageType ==
    ASSUME NEW h \in Seq(Char), NEW m \in Seq(Char), NEW r \in Seq(Char)
    PROVE  /\ Image(h, m, r) \in Seq(Byte) /\ Image(h, m, r) # NoFile
           /\ Image(h, m, r) = Encode((h \o m) \o r) /\ (h \o m) \o r \in Seq(Char)
           /\ Decode(Image(h, m, r)) = (h \o m) \o r
<1>1. h \o m \in Seq(Char) /\ Encode(h \o m) = Encode(h) \o Encode(m)
  BY EncodeBoth
<1>2. (h \o m) \o r \in Seq(Char) /\ Encode((h \o m) \o r) = Encode(h \o m) \o Encode(r)
  BY <1>1, EncodeBoth
<1>3. Image(h, m, r) = Encode((h \o m) \o r)
  BY <1>1, <1>2, Zenon DEF Image
<1>4. Image(h, m, r) \in Seq(Byte) /\ Decode(Image(h, m, r)) = (h \o m) \o r
  BY <1>2, <1>3, Reads
<1> QED BY <1>2, <1>3, <1>4, NoFileAssumption DEF Byte

(* save_file writes the document: what is before the window and behind it  *)
(* is copied from tail_file, before n takes its place.                     *)
LEMMA SavedAt ==
    ASSUME TypeOK, Ordinary, NEW T, T \subseteq Char, NEW n \in Names, NEW mod,
           NEW h, NEW m, NEW r,
           At(T, disk, text, win_start, tail_offset, tail_file, mod, h, m, r),
           win_start = 0 /\ tail_offset > 0 => text # << >>
    PROVE  SavedAs(T, Saved(n), n, h, r)
<1> DEFINE truncated == IF Windowed /\ n = tail_file THEN disk
                        ELSE [disk EXCEPT ![FileOf[n]] = << >>]
           image == HeadIn(truncated) \o Encode(text) \o TailIn(truncated)
           s == Saved(n)
<1>1. /\ s.disk = [disk EXCEPT ![FileOf[n]] = image]
      /\ s.file = IF Windowed THEN n ELSE tail_file
      /\ s.tail = IF Windowed THEN win_start + Len(Encode(text)) ELSE tail_offset
  BY DEF Saved
<1>2. /\ h \in Seq(T) /\ text \in Seq(T) /\ r \in Seq(T) /\ win_start = Len(Encode(h))
      /\ tail_offset = 0 => r = << >>
  BY DEF At
<1>3. h \in Seq(Char) /\ text \in Seq(Char) /\ r \in Seq(Char)
  BY <1>2, SeqMonotonic
<1>4. /\ disk \in Disks /\ tail_offset \in Nat /\ win_start \in Nat /\ tail_file \in Names \cup {""}
      /\ win_start > 0 \/ tail_offset > 0 => tail_file # ""
  BY DEF TypeOK, Disks, Byte
<1>5. tail_offset \in Nat /\ win_start \in Nat
  BY <1>4
<1>6. win_start > 0 \/ tail_offset > 0 => BytesIn(truncated, tail_file) = BytesIn(disk, tail_file)
  <2>1. CASE n = tail_file
    <3>1. win_start > 0 \/ tail_offset > 0 => truncated = disk
      BY <1>4, <2>1, Zenon DEF Windowed
    <3> HIDE DEF truncated
    <3> QED BY <3>1, Zenon
  <2>2. CASE n # tail_file
    <3> SUFFICES ASSUME win_start > 0 \/ tail_offset > 0
                 PROVE  BytesIn(truncated, tail_file) = BytesIn(disk, tail_file)
      OBVIOUS
    <3>1. tail_file \in Names
      BY <1>4, Zenon
    <3>2. FileOf[n] # FileOf[tail_file]
      BY <2>2, <3>1, Zenon DEF Ordinary
    <3>3. truncated = [disk EXCEPT ![FileOf[n]] = << >>]
      BY <2>2, Zenon
    <3>4. FileOf[tail_file] \in Files /\ DOMAIN disk = Files
      BY <1>4, <3>1, NamesAssumption DEF Disks
    <3> HIDE DEF truncated
    <3>5. truncated[FileOf[tail_file]] = disk[FileOf[tail_file]]
      BY <3>2, <3>3, <3>4
    <3> QED BY <3>5, Zenon DEF BytesIn
  <2> QED BY <2>1, <2>2
<1> HIDE DEF truncated, s
<1>7. At(T, truncated, text, win_start, tail_offset, tail_file, mod, h, m, r)
  BY <1>6, AtOther
<1>8. HeadOf(truncated, tail_file, win_start) = Encode(h)
      /\ RestOf(truncated, tail_file, tail_offset) = Encode(r)
  <2>1. tail_offset \in Nat
    BY <1>4
  <2> QED BY <1>7, <2>1, AtEnds
<1>9. image = Image(h, text, r)
  BY <1>8 DEF HeadOf, RestOf, HeadIn, TailIn, Image
<1> HIDE DEF image
<1>10. Image(h, text, r) # NoFile /\ Len(Encode(text)) \in Nat
       /\ (Len(Encode(text)) = 0 => text = << >>)
  BY <1>3, ImageType, EncodeLength
<1>11. BytesIn(s.disk, n) = Image(h, text, r)
  <2>1. FileOf[n] \in Files /\ DOMAIN disk = Files
    BY <1>4, NamesAssumption DEF Disks
  <2> QED BY <1>1, <1>9, <1>10, <2>1 DEF BytesIn
<1>12. CASE Windowed
  <2>1. s.file = n /\ s.tail = win_start + Len(Encode(text))
    BY <1>1, <1>12
  <2>2. s.tail \in Nat
    <3>1. s.tail = win_start + Len(Encode(text))
      BY <2>1
    <3> QED BY <1>10, <1>5, <3>1
  <2>3. s.tail = 0 => r = << >>
    <3> SUFFICES ASSUME s.tail = 0 PROVE r = << >>
      OBVIOUS
    <3>1. win_start = 0 /\ Len(Encode(text)) = 0
      <4>1. s.tail = win_start + Len(Encode(text))
        BY <2>1
      <4> QED BY <1>10, <1>5, <4>1
    <3>2. ~ tail_offset > 0
      BY <1>10, <3>1, Zenon
    <3>3. tail_offset = 0
      BY <1>5, <3>2
    <3> QED BY <1>2, <3>3, Zenon
  <2>4. At(T, s.disk, text, win_start, s.tail, s.file, FALSE, h, text, r)
    BY <1>2, <1>11, <2>1, <2>3, Zenon DEF At, Image
  <2> QED BY <1>1, <1>9, <1>12, <2>1, <2>2, <2>4, Zenon DEF SavedAs, s
<1>13. CASE ~ Windowed
  <2>1. s.file = tail_file /\ s.tail = tail_offset
    BY <1>1, <1>13
  <2>2. ~ win_start > 0 /\ ~ tail_offset > 0
    BY <1>4, <1>13, Zenon DEF Windowed
  <2>3. At(T, s.disk, text, win_start, s.tail, s.file, FALSE, h, text, r)
    BY <1>2, <1>4, <2>1, <2>2, Zenon DEF At
  <2> QED BY <1>1, <1>4, <1>9, <1>13, <2>1, <2>3, Zenon DEF SavedAs, s
<1> QED BY <1>12, <1>13

(* Before a window is given up, it is saved unless it is what was read.    *)
SwappedAs(T, s, h, r) ==
    /\ \/ s.disk = disk
       \/ \E b \in {NoFile} \cup Seq(Byte) : s.disk = [disk EXCEPT ![FileOf[Swap]] = b]
    /\ At(T, s.disk, text, win_start, s.tail, s.file, FALSE, h, text, r)
    /\ s.tail \in Nat /\ (tail_offset > 0 /\ text # << >> => s.tail > 0)
    /\ s.file = IF modified THEN Swap ELSE tail_file

(* So it is with the swap file; a window that was not modified stays.      *)
LEMMA SwappedOutAt ==
    ASSUME TypeOK, Ordinary, NEW T, T \subseteq Char, NEW h, NEW m, NEW r, Windowed,
           At(T, disk, text, win_start, tail_offset, tail_file, modified, h, m, r),
           win_start = 0 /\ tail_offset > 0 => text # << >>
    PROVE  SwappedAs(T, SwappedOut(TRUE), h, r)
<1> DEFINE s == SwappedOut(TRUE)
<1>1. CASE modified
  <2>1. s = Saved(Swap) /\ Swap \in Names
    BY <1>1, NamesAssumption DEF SwappedOut
  <2>2. SavedAs(T, Saved(Swap), Swap, h, r)
    BY <2>1, SavedAt
  <2>3. h \in Seq(Char) /\ text \in Seq(Char) /\ r \in Seq(Char)
    BY SeqMonotonic DEF At
  <2>4. Image(h, text, r) \in Seq(Byte)
    BY <2>3, ImageType
  <2>5. text # << >> => win_start + Len(Encode(text)) > 0
    <3>1. win_start \in Nat
      BY DEF TypeOK
    <3>2. Len(Encode(text)) \in Nat /\ (Len(Encode(text)) = 0 => text = << >>)
      BY <2>3, EncodeLength
    <3> QED BY <3>1, <3>2
  <2> HIDE DEF s
  <2> QED BY <1>1, <2>1, <2>2, <2>4, <2>5, Zenon DEF SavedAs, SwappedAs, s
<1>2. CASE ~ modified
  <2>1. s = Unsaved
    BY <1>2 DEF SwappedOut
  <2>2. s.disk = disk /\ s.tail = tail_offset /\ s.file = tail_file
    <3> HIDE DEF s
    <3> QED BY <2>1 DEF Unsaved
  <2>3. m = text
    BY <1>2 DEF At
  <2> HIDE DEF s
  <2>4. At(T, s.disk, text, win_start, s.tail, s.file, FALSE, h, text, r)
    BY <2>2, <2>3, Zenon DEF At
  <2>5. s.tail \in Nat
    BY <2>2 DEF TypeOK
  <2> QED BY <1>2, <2>2, <2>4, <2>5, Zenon DEF SwappedAs, s
<1> QED BY <1>1, <1>2
-----------------------------------------------------------------------------
(* Moving the window.                                                      *)

OnlySwapWritten ==
    \/ disk' = disk
    \/ \E b \in {NoFile} \cup Seq(Byte) : disk' = [disk EXCEPT ![FileOf[Swap]] = b]

(* Another window, the same document: h and r are what was around the old. *)
SameAround(T, h, r) ==
    \E h2, m2, r2 :
        /\ At(T, disk', text', win_start', tail_offset', tail_file', modified', h2, m2, r2)
        /\ (h2 \o text') \o r2 = (h \o text) \o r
        /\ win_line_offset = Lines(h) => win_line_offset' = Lines(h2)
Moved(T, h, r) ==
    /\ SameAround(T, h, r)
    /\ win_start' = 0 /\ tail_offset' > 0 => text' # << >>
    /\ OnlySwapWritten
    /\ Dirty' <=> Dirty

(* What is read when the window slides, and where the rest begins then.    *)
LEMMA ReadBehind ==
    ASSUME NEW T, T \subseteq Char, NEW d, NEW x, NEW ws, NEW to \in Nat, NEW tf, NEW mod,
           NEW h, NEW m, NEW r, At(T, d, x, ws, to, tf, mod, h, m, r), to > 0,
           NEW n \in 1..Len(r)
    PROVE  /\ After(BytesIn(d, tf), to, n) = to + Len(Encode(First(r, n)))
<1>1. /\ h \in Seq(Char) /\ m \in Seq(Char) /\ r \in Seq(Char)
      /\ ws = Len(Encode(h)) /\ to = ws + Len(Encode(m))
      /\ BytesIn(d, tf) = (Encode(h) \o Encode(m)) \o Encode(r)
  BY SeqMonotonic DEF At
<1> DEFINE p == Encode(h) \o Encode(m)
<1>2. p \in Seq(Byte) /\ Len(p) = to
  <2>1. Encode(h) \in Seq(Byte) /\ Encode(m) \in Seq(Byte)
    BY <1>1, EncodeLength
  <2> QED BY <1>1, <2>1, ConcatLength
<1> HIDE DEF p
<1>3. After(p \o Encode(r), Len(p), n) = Len(p) + Len(Encode(First(r, n)))
  BY <1>1, <1>2, AfterText
<1> QED BY <1>1, <1>2, <1>3, Zenon DEF p

(* A slide over a file whose parts are known.                              *)
LEMMA SlideAt ==
    ASSUME TypeOK, NEW T, T \subseteq Char, NEW s, NEW k \in 0..Len(text), NEW n \in Nat,
           NEW h, NEW m, NEW r,
           At(T, s.disk, text, win_start, s.tail, s.file, modified /\ k = 0, h, m, r),
           s.tail \in Nat, s.tail > 0,
           k > 0 => m = text,
           Slides(s, BytesIn(s.disk, s.file),
                  Decode(From(BytesIn(s.disk, s.file), s.tail)), k, n)
    PROVE  SameAround(T, h, r)
<1> DEFINE b == BytesIn(s.disk, s.file)
           rest == Decode(From(b, s.tail))
           a == First(text, k)
           kept == From(text, k)
           room == RoomBehind(kept)
           q == IF k = 0 THEN m ELSE kept
           r1 == First(r, n)
           r2 == From(r, n)
           mod == modified /\ k = 0
<1>1. /\ n = Smaller(room, Len(rest)) /\ disk' = s.disk /\ tail_file' = s.file
      /\ tail_offset' = IF n < room THEN 0 ELSE IF n = 0 THEN s.tail ELSE After(b, s.tail, n)
      /\ text' = kept \o First(rest, n)
      /\ win_start' = win_start + Len(Encode(a))
      /\ modified' = mod
  BY DEF Slides
<1>2. text \in Seq(T) /\ h \in Seq(T) /\ m \in Seq(T) /\ r \in Seq(T) /\ s.file \in Names
      /\ (~ mod => m = text)
  BY Zenon DEF At
<1>3. rest = r
  <2>1. Decode(RestOf(s.disk, s.file, s.tail)) = r
    <3>1. ThreeParts(s.disk, text, win_start, s.tail, s.file, h, r)
      BY AtDoc
    <3> QED BY <3>1 DEF ThreeParts
  <2>2. s.file # ""
    BY <1>2, NamesAssumption
  <2> QED BY <2>1, <2>2 DEF RestOf
<1>4. a \in Seq(T) /\ kept \in Seq(T) /\ text = a \o kept /\ Len(a) = k /\ Len(kept) \in Nat
  <2>1. text \in Seq(T)
    BY <1>2
  <2> HIDE DEF mod
  <2>2. a \in Seq(T) /\ kept \in Seq(T) /\ text = a \o kept /\ Len(a) = k
    BY <2>1, Parts
  <2> HIDE DEF kept
  <2> QED BY <2>2
<1>5. k = 0 => a = << >> /\ kept = text
  BY <1>2, PartsAtEnds
<1>6. room \in Nat
  <2> HIDE DEF kept
  <2> QED BY <1>4, SizesAssumption DEF RoomBehind, Smaller
<1> HIDE DEF room
<1>7. Len(r) \in Nat /\ n <= Len(r) /\ n <= room /\ (n < room => n = Len(r))
  <2>1. Len(r) \in Nat
    BY <1>2
  <2>2. n = Smaller(room, Len(r))
    BY <1>1, <1>3
  <2> QED BY <1>6, <2>1, <2>2 DEF Smaller
<1> HIDE DEF a, kept
<1>8. q \in Seq(T) /\ m = a \o q /\ (~ mod => q = kept)
  <2>1. CASE k = 0
    <3>1. << >> \o m = m
      BY <1>2, ConcatEmptySeq
    <3> QED BY <1>2, <1>5, <2>1, <3>1
  <2>2. CASE k # 0
    BY <1>4, <2>2
  <2> QED BY <2>1, <2>2
<1>9. r1 \in Seq(T) /\ r2 \in Seq(T) /\ r = r1 \o r2 /\ (n = Len(r) => r2 = << >>)
  <2>1. n \in 0..Len(r)
    BY <1>7
  <2> QED BY <1>2, <2>1, Parts, PartsAtEnds
<1>10. n # 0 => After(b, s.tail, n) = s.tail + Len(Encode(r1))
  <2>1. n # 0 => n \in 1..Len(r)
    BY <1>7
  <2> HIDE DEF mod
  <2> QED BY <2>1, ReadBehind
<1>11. Len(Encode(r1)) \in Nat /\ (n = 0 => Len(Encode(r1)) = 0)
  <2>1. r1 \in Seq(Char)
    BY <1>9, SeqMonotonic
  <2>2. n = 0 => r1 = << >>
    BY <1>2, PartsAtEnds
  <2>3. Len(Encode(<< >>)) = 0
    BY EncodeEmpty
  <2>4. Len(Encode(r1)) \in Nat
    BY <2>1, EncodeLength
  <2> HIDE DEF r1
  <2> QED BY <2>2, <2>3, <2>4
<1> HIDE DEF b, rest, q, r1, r2, mod
<1>12. /\ tail_offset' \in Nat /\ (tail_offset' = 0 => r2 = << >>)
       /\ tail_offset' > 0 => tail_offset' = s.tail + Len(Encode(r1))
  <2>1. CASE n < room
    BY <1>1, <1>7, <1>9, <2>1
  <2>2. CASE ~ n < room /\ n = 0
    BY <1>1, <1>11, <2>2
  <2>3. CASE ~ n < room /\ n # 0
    <3>1. tail_offset' = s.tail + Len(Encode(r1))
      BY <1>1, <1>10, <2>3
    <3> QED BY <1>11, <3>1
  <2> QED BY <2>1, <2>2, <2>3
<1>13. At(T, s.disk, a \o kept, win_start, s.tail, s.file, mod, h, a \o q, r1 \o r2)
  BY <1>4, <1>8, <1>9 DEF mod
<1>14. win_start \in Nat
  BY DEF TypeOK
<1>15. At(T, s.disk, kept \o r1, win_start + Len(Encode(a)), tail_offset', s.file, mod,
          h \o a, q \o r1, r2)
  BY <1>4, <1>8, <1>9, <1>12, <1>13, <1>14, AtSlid, ZenonT(30)
<1>16. text' = kept \o r1
  BY <1>1, <1>3 DEF r1
<1>17. At(T, disk', text', win_start', tail_offset', tail_file', modified', h \o a, q \o r1, r2)
  BY <1>1, <1>15, <1>16
<1>18. ((h \o a) \o text') \o r2 = (h \o text) \o r
  <2>1. (h \o (a \o kept)) \o (r1 \o r2) = ((h \o a) \o (kept \o r1)) \o r2
    <3>1. h \in Seq(T) /\ a \in Seq(T) /\ kept \in Seq(T) /\ r1 \in Seq(T) /\ r2 \in Seq(T)
      BY <1>2, <1>4, <1>9, Zenon
    <3>2. SixInARow(h, a, kept, r1, r2)
      BY <3>1, RegroupSix
    <3> QED BY <3>2, Zenon DEF SixInARow
  <2> QED BY <1>4, <1>9, <1>16, <2>1, Zenon
<1>19. win_line_offset = Lines(h) => win_line_offset' = Lines(h \o a)
  <2>1. win_line_offset' = win_line_offset + Lines(a)
    BY DEF Slides, a
  <2>2. Lines(h \o a) = Lines(h) + Lines(a)
    BY <1>2, <1>4, LinesConcat
  <2> QED BY <2>1, <2>2
<1> QED BY <1>17, <1>18, <1>19, Zenon DEF SameAround

(* gb_load_more keeps the document.                                        *)
LEMMA LoadMoreAt ==
    ASSUME TypeOK, Ordinary, NEW T, T \subseteq Char, NEW h, NEW m, NEW r,
           At(T, disk, text, win_start, tail_offset, tail_file, modified, h, m, r),
           tail_offset > 0,
           win_start = 0 /\ tail_offset > 0 => text # << >>,
           NEW c \in Cursors, NEW n \in Nat, LoadMore(c, TRUE, n)
    PROVE  Moved(T, h, r)
<1>1. CASE UNCHANGED <<disk, text, win_start, tail_offset, tail_file, win_line_offset, modified>>
  <2>1. /\ disk' = disk /\ text' = text /\ win_start' = win_start /\ tail_offset' = tail_offset
        /\ tail_file' = tail_file /\ modified' = modified /\ win_line_offset' = win_line_offset
    BY <1>1, Zenon
  <2>2. At(T, disk', text', win_start', tail_offset', tail_file', modified', h, m, r)
    BY <2>1, Zenon
  <2>3. (h \o text') \o r = (h \o text) \o r
    BY <2>1, Zenon
  <2>4. SameAround(T, h, r)
    BY <2>1, <2>2, <2>3, Zenon DEF SameAround
  <2>5. Dirty' <=> Dirty
    BY <2>1 DEF Dirty
  <2> QED BY <2>1, <2>4, <2>5, Zenon DEF Moved, OnlySwapWritten
<1>2. ASSUME NEW s, s = IF Dropped(c) > 0 THEN SwappedOut(TRUE) ELSE Unsaved,
             Slides(s, BytesIn(s.disk, s.file),
                    Decode(From(BytesIn(s.disk, s.file), s.tail)), Dropped(c), n)
      PROVE  Moved(T, h, r)
  <2> DEFINE k == Dropped(c)
  <2>1. text \in Seq(Char) /\ win_start \in Nat /\ tail_offset \in Nat /\ modified \in BOOLEAN
    BY DEF TypeOK
  <2>2. k \in 0..Len(text)
    BY <2>1, DroppedType
  <2>3. Slides(s, BytesIn(s.disk, s.file),
               Decode(From(BytesIn(s.disk, s.file), s.tail)), k, n)
        /\ s = IF k > 0 THEN SwappedOut(TRUE) ELSE Unsaved
    BY <1>2
  <2> HIDE DEF k
  <2>4. /\ disk' = s.disk /\ tail_file' = s.file /\ modified' = (modified /\ k = 0)
        /\ win_start' = win_start + Len(Encode(First(text, k)))
        /\ text' = From(text, k) \o First(Decode(From(BytesIn(s.disk, s.file), s.tail)), n)
    BY <2>3 DEF Slides
  <2>5. CASE k > 0
    <3>1. Windowed
      BY DEF Windowed, TypeOK
    <3>2. SwappedAs(T, s, h, r)
      BY <2>3, <2>5, <3>1, SwappedOutAt
    <3>3. ~ k = 0 /\ text # << >>
      BY <2>1, <2>2, <2>5
    <3>4. /\ At(T, s.disk, text, win_start, s.tail, s.file, modified /\ k = 0, h, text, r)
          /\ s.tail \in Nat /\ s.tail > 0
      BY <3>2, <3>3, Zenon DEF SwappedAs, At
    <3>5. SameAround(T, h, r)
      <4>1. k > 0 => text = text
        OBVIOUS
      <4> QED BY <2>2, <2>3, <3>4, <4>1, SlideAt
    <3>6. ~ win_start' = 0
      <4> DEFINE a == First(text, k)
      <4>1. a \in Seq(Char) /\ Len(a) = k
        BY <2>1, <2>2, Parts
      <4> HIDE DEF a
      <4>2. a # << >>
        BY <2>5, <4>1
      <4>3. Len(Encode(a)) \in Nat /\ Len(Encode(a)) # 0
        BY <4>1, <4>2, EncodeLength
      <4>4. win_start' = win_start + Len(Encode(a))
        BY <2>4 DEF a
      <4> QED BY <2>1, <4>3, <4>4
    <3>7. OnlySwapWritten
      BY <2>4, <3>2, Zenon DEF OnlySwapWritten, SwappedAs
    <3>8. Dirty' <=> Dirty
      <4>1. ~ modified'
        BY <2>4, <3>3, Zenon
      <4>2. tail_file' = IF modified THEN Swap ELSE tail_file
        BY <2>4, <3>2, Zenon DEF SwappedAs
      <4> QED BY <2>1, <4>1, <4>2 DEF Dirty
    <3> QED BY <3>5, <3>6, <3>7, <3>8, Zenon DEF Moved
  <2>6. CASE ~ k > 0
    <3>1. k = 0 /\ s = Unsaved
      BY <2>2, <2>3, <2>6
    <3>2. s.disk = disk /\ s.file = tail_file /\ s.tail = tail_offset
      BY <3>1 DEF Unsaved
    <3>3. At(T, s.disk, text, win_start, s.tail, s.file, modified /\ k = 0, h, m, r)
      BY <3>1, <3>2, Zenon DEF At
    <3>4. SameAround(T, h, r)
      <4>1. s.tail \in Nat /\ s.tail > 0
        BY <2>1, <3>2
      <4>2. k > 0 => m = text
        BY <2>6, Zenon
      <4> QED BY <2>2, <2>3, <3>3, <4>1, <4>2, SlideAt
    <3>5. win_start' = 0 /\ tail_offset' > 0 => text' # << >>
      <4>1. First(text, k) = << >> /\ From(text, k) = text /\ Len(Encode(<< >>)) = 0
        BY <2>1, <3>1, PartsAtEnds, EncodeEmpty
      <4>2. win_start' = win_start
        BY <2>1, <2>4, <4>1
      <4>3. win_start' = 0 => text # << >>
        BY <4>2
      <4> DEFINE y == First(Decode(From(BytesIn(s.disk, s.file), s.tail)), n)
      <4>4. y \in Seq(Char)
        <5>1. disk \in Disks /\ tail_file \in Names
          BY <2>1 DEF TypeOK, Disks, Byte
        <5>2. BytesIn(disk, tail_file) \in Seq(Byte)
          BY <5>1, FileType
        <5>3. From(BytesIn(s.disk, s.file), s.tail) \in Seq(Byte)
          BY <2>1, <3>2, <5>2, FromType
        <5> QED BY <5>3, Reads, FirstOrAll
      <4>5. text' = text \o y
        BY <2>4, <4>1
      <4> HIDE DEF y
      <4>6. text # << >> => text \o y # << >>
        BY <2>1, <4>4
      <4> QED BY <4>3, <4>5, <4>6
    <3>6. OnlySwapWritten
      BY <2>4, <3>2 DEF OnlySwapWritten
    <3>7. Dirty' <=> Dirty
      <4>1. modified' = modified /\ tail_file' = tail_file
        BY <2>1, <2>4, <3>1, <3>2
      <4> QED BY <4>1 DEF Dirty
    <3> QED BY <3>4, <3>5, <3>6, <3>7, Zenon DEF Moved
  <2> QED BY <2>5, <2>6
<1> QED BY <1>1, <1>2, LoadMoreSlides

(* Without line ends a text and what a file holds of it are the same.      *)
LEMMA EncodeSame ==
    ASSUME NEW S, S \subseteq Char \ {LF}
    PROVE  \A t \in Seq(S) : Encode(t) = t
<1> DEFINE P == {t \in Seq(S) : Encode(t) = t}
<1>1. << >> \in P
  BY EncodeEmpty, EmptySeq
<1>2. ASSUME NEW t \in Seq(S), NEW c \in S, t \in P PROVE Append(t, c) \in P
  <2>1. t \in Seq(Char) /\ c \in Char /\ c # LF /\ Append(t, c) \in Seq(S)
    BY SeqMonotonic
  <2>2. Encode(Append(t, c)) = Encode(t) \o (IF c = LF THEN <<CR, LF>> ELSE <<c>>)
    <3>1. t \in Seq(Byte) /\ c \in Byte /\ {CR, LF} \subseteq Byte
      BY <2>1, SeqMonotonic, BytesAssumption DEF Byte
    <3> QED BY <3>1, EncodeAppend
  <2>3. Encode(Append(t, c)) = t \o <<c>>
    BY <1>2, <2>1, <2>2
  <2>4. t \o <<c>> = Append(t, c)
    BY <2>1, AppendIsConcat
  <2> QED BY <2>1, <2>3, <2>4
<1>3. Seq(S) \subseteq P
  <2> HIDE DEF P
  <2> QED BY <1>1, <1>2, SeqInduction
<1> QED BY <1>3

(* gb_reload_from keeps the document: the file is cut where the new window *)
(* begins, which is where the text h2 ends.                                *)
LEMMA ReloadAt ==
    ASSUME TypeOK, Ordinary, NEW T, T \subseteq Char, NEW h, NEW m, NEW r, win_start > 0,
           At(T, disk, text, win_start, tail_offset, tail_file, modified, h, m, r),
           NEW h2, NEW t2, h2 \in Seq(T), t2 \in Seq(T), h2 \o t2 = (h \o text) \o r,
           Reload(Len(Encode(h2)), TRUE)
    PROVE  Moved(T, h, r)
<1> DEFINE s == SwappedOut(TRUE)
           b == BytesIn(s.disk, s.file)
           off == Len(Encode(h2))
           w == Filled(b, off)
           r2 == From(t2, Cap)
<1>1. /\ disk' = s.disk /\ tail_file' = s.file /\ modified' = FALSE /\ win_start' = off
      /\ text' = w.text /\ tail_offset' = w.tail
      /\ win_line_offset' = Lines(First(b, off))
  BY DEF Reload
<1>2. Windowed
  BY DEF Windowed, TypeOK
<1>3. win_start = 0 /\ tail_offset > 0 => text # << >>
  OBVIOUS
<1>4. SwappedAs(T, s, h, r)
  BY <1>2, <1>3, SwappedOutAt
<1> HIDE DEF s
<1>5. /\ h \in Seq(T) /\ text \in Seq(T) /\ r \in Seq(T)
      /\ s.file \in Names /\ b = Image(h, text, r)
  <2>1. At(T, s.disk, text, win_start, s.tail, s.file, FALSE, h, text, r)
    BY <1>4 DEF SwappedAs
  <2> QED BY <2>1, Zenon DEF At, Image
<1>6. b = Encode(h2) \o Encode(t2)
  <2>1. /\ h \in Seq(Char) /\ text \in Seq(Char) /\ r \in Seq(Char)
        /\ h2 \in Seq(Char) /\ t2 \in Seq(Char)
    BY <1>5, SeqMonotonic
  <2>2. Image(h, text, r) = Encode((h \o text) \o r)
    BY <2>1, ImageType
  <2>3. Encode(h2 \o t2) = Encode(h2) \o Encode(t2)
    BY <2>1, EncodeBoth
  <2> QED BY <1>5, <2>2, <2>3, Zenon
<1>7. /\ At(T, s.disk, w.text, off, w.tail, s.file, modified', h2, w.text, r2)
      /\ w.tail \in Nat /\ t2 = w.text \o r2
      /\ w.tail > 0 => w.text # << >>
  <2>1. /\ BytesIn(s.disk, s.file) = Encode(h2) \o Encode(t2)
        /\ w = Filled(BytesIn(s.disk, s.file), Len(Encode(h2)))
    BY <1>6
  <2>2. s.file \in Names
    BY <1>5
  <2> HIDE DEF w, b
  <2>3. FilledAt(T, s.disk, s.file, h2, t2, w, modified')
    BY <2>1, <2>2, AtFilled
  <2> QED BY <2>3, Zenon DEF FilledAt
<1>8. /\ At(T, disk', text', win_start', tail_offset', tail_file', modified', h2, text', r2)
      /\ t2 = text' \o r2 /\ (tail_offset' > 0 => text' # << >>)
  BY <1>1, <1>7, Zenon
<1>9. (h2 \o text') \o r2 = (h \o text) \o r
  <2>1. text' \in Seq(T) /\ r2 \in Seq(T)
    BY <1>8, Zenon DEF At
  <2> HIDE DEF r2
  <2>2. ThreeInARow(h2, text', r2)
    BY <2>1, Regroup
  <2> QED BY <1>8, <2>2, Zenon DEF ThreeInARow
<1>10. SameAround(T, h, r)
  <2>1. win_line_offset' = Lines(First(b, off))
    BY <1>1
  <2>2. First(b, off) = Encode(h2)
    <3>1. Encode(h2) \in Seq(Byte) /\ Encode(t2) \in Seq(Byte)
      <4>1. h2 \in Seq(Char) /\ t2 \in Seq(Char)
        BY SeqMonotonic
      <4> QED BY <4>1, EncodeLength
    <3>2. First(Encode(h2) \o Encode(t2), Len(Encode(h2))) = Encode(h2)
      BY <3>1, PartsOfConcat
    <3> HIDE DEF b
    <3> QED BY <1>6, <3>2, Zenon
  <2>3. Lines(Encode(h2)) = Lines(h2)
    <3>1. h2 \in Seq(Char)
      BY SeqMonotonic
    <3> QED BY <3>1, LinesEncode
  <2>4. win_line_offset' = Lines(h2)
    BY <2>1, <2>2, <2>3, Zenon
  <2> QED BY <1>8, <1>9, <2>4, Zenon DEF SameAround
<1>11. OnlySwapWritten
  BY <1>1, <1>4, Zenon DEF OnlySwapWritten, SwappedAs
<1>12. Dirty' <=> Dirty
  <2>1. ~ modified' /\ tail_file' = IF modified THEN Swap ELSE tail_file
    BY <1>1, <1>4, Zenon DEF SwappedAs
  <2>2. modified \in BOOLEAN
    BY DEF TypeOK
  <2> QED BY <2>1, <2>2 DEF Dirty
<1> QED BY <1>8, <1>10, <1>11, <1>12, Zenon DEF Moved

(* Where nG goes: the beginning.                                           *)
LEMMA FirstAt ==
    ASSUME TypeOK, Ordinary, NEW T, T \subseteq Char, NEW h, NEW m, NEW r, win_start > 0,
           At(T, disk, text, win_start, tail_offset, tail_file, modified, h, m, r),
           Reload(0, TRUE)
    PROVE  Moved(T, h, r)
<1>1. h \in Seq(T) /\ text \in Seq(T) /\ r \in Seq(T)
  BY DEF At
<1> DEFINE t == (h \o text) \o r
<1>2. t \in Seq(T) /\ << >> \in Seq(T) /\ << >> \o t = t
  <2>1. h \o text \in Seq(T)
    BY <1>1, ConcatProperties
  <2>2. t \in Seq(T)
    BY <1>1, <2>1, ConcatProperties
  <2> HIDE DEF t
  <2> QED BY <2>2, ConcatEmptySeq
<1>3. Len(Encode(<< >>)) = 0
  BY EncodeEmpty
<1>4. Reload(Len(Encode(<< >>)), TRUE)
  BY <1>3, Zenon
<1> HIDE DEF t
<1>5. << >> \o t = (h \o text) \o r
  BY <1>2 DEF t
<1> QED BY <1>2, <1>4, <1>5, ReloadAt

(* Where ^B goes: some bytes back, and without line ends as many           *)
(* characters.                                                             *)
LEMMA ChunkBackAt ==
    ASSUME TypeOK, Ordinary, NEW T, T \subseteq Char \ {LF}, NEW h, NEW m, NEW r, win_start > 0,
           At(T, disk, text, win_start, tail_offset, tail_file, modified, h, m, r),
           NEW off \in 0..win_start, Reload(off, TRUE)
    PROVE  Moved(T, h, r)
<1>1. h \in Seq(T) /\ text \in Seq(T) /\ r \in Seq(T) /\ win_start = Len(Encode(h))
  BY DEF At
<1>2. win_start = Len(h)
  BY <1>1, EncodeSame
<1>3. off \in 0..Len(h)
  BY <1>2
<1> DEFINE a == First(h, off)
           q == From(h, off)
           t == q \o (text \o r)
<1>4. a \in Seq(T) /\ q \in Seq(T) /\ h = a \o q /\ Len(a) = off
  BY <1>1, <1>3, Parts
<1> HIDE DEF a, q
<1>5. Len(Encode(a)) = off
  BY <1>4, EncodeSame
<1>6. text \o r \in Seq(T)
  BY <1>1, ConcatProperties
<1>7. t \in Seq(T)
  BY <1>4, <1>6, ConcatProperties
<1>8. a \o t = (h \o text) \o r
  <2>1. ThreeInARow(a, q, text \o r) /\ ThreeInARow(h, text, r)
    BY <1>1, <1>4, <1>6, Regroup
  <2> QED BY <1>4, <2>1, Zenon DEF ThreeInARow
<1> HIDE DEF t
<1>9. Reload(Len(Encode(a)), TRUE)
  BY <1>5, Zenon
<1>10. T \subseteq Char
  OBVIOUS
<1> QED BY <1>4, <1>7, <1>8, <1>9, <1>10, ReloadAt
-----------------------------------------------------------------------------
(* The invariant behind the refinement.                                    *)

\* What an undo record would make of the window.
Undone(x, u) == IF u.type = "delete" THEN (First(x, u.pos) \o u.text) \o From(x, u.pos)
                ELSE (First(x, u.pos) \o << >>) \o From(x, u.pos + Len(u.text))

Held == Decode(BytesIn(disk, filename))

ViewOK ==
    \E h, m, r : At(TextOf(user), disk, text, win_start, tail_offset, tail_file,
                    modified \/ ~ Moves(user), h, m, r)
NotEmptied == Moves(user) /\ win_start = 0 /\ tail_offset > 0 => text # << >>
CleanOK == ~ Dirty => DocOf(disk, text, win_start, tail_offset, tail_file) = Held
UndoOK ==
    "u" \in Users[user].keys /\ undo.type # "none" =>
        /\ undo.type = "delete" => Len(undo.text) <= Room
        /\ undo.was_clean /\ tail_file # Swap =>
            DocOf(disk, Undone(text, undo), win_start, tail_offset, tail_file) = Held
FilesOK == \A f \in Ordinaries : disk[f] = NoFile \/ WellFormed(TextOf(user), disk[f])
PlaceOK == /\ filename \in Names \ {Swap}
           /\ pc \in {"seek", "land"} => "G" \in Users[user].keys

DocInv ==
    /\ TypeOK /\ PlaceOK /\ FilesOK
    /\ pc # "quit" => ViewOK /\ NotEmptied /\ CleanOK /\ UndoOK

DocStep == Document!DocNext \/ UNCHANGED Document!docVars

(* Names other than the swap file's stand for files other than the swap    *)
(* file, and differ as their files do.                                     *)
LEMMA OrdinaryNames ==
    ASSUME Ordinary, NEW n \in Names \ {Swap}
    PROVE  /\ n \in Names /\ FileOf[n] \in Ordinaries /\ FileOf[n] # FileOf[Swap]
           /\ FileOf[n] \in Files
           /\ FileOf \in [Names -> Files] /\ Swap \in Names
<1>1. n \in Names /\ Swap \in Names /\ n # Swap
  BY NamesAssumption
<1>2. FileOf \in [Names -> Files] /\ FileOf[n] \in Files
  BY <1>1, NamesAssumption
<1>3. FileOf[n] # FileOf[Swap]
  BY <1>1, Zenon DEF Ordinary
<1> QED BY <1>1, <1>2, <1>3 DEF Ordinaries

(* What is written to the swap file is not seen.                           *)
LEMMA SwapUnseen ==
    ASSUME Ordinary, disk \in Disks, OnlySwapWritten
    PROVE  /\ \A f \in Ordinaries : disk'[f] = disk[f]
           /\ Shown(disk') = Shown(disk)
           /\ \A n \in Names \ {Swap} : BytesIn(disk', n) = BytesIn(disk, n)
<1>1. ASSUME NEW f \in Ordinaries PROVE disk'[f] = disk[f]
  <2>1. f \in Files /\ f # FileOf[Swap] /\ DOMAIN disk = Files
    BY DEF Ordinaries, Disks
  <2>2. CASE disk' = disk
    BY <2>2, Zenon
  <2>3. CASE \E b \in {NoFile} \cup Seq(Byte) : disk' = [disk EXCEPT ![FileOf[Swap]] = b]
    BY <2>1, <2>3
  <2> QED BY <2>2, <2>3, Zenon DEF OnlySwapWritten
<1>2. Shown(disk') = Shown(disk)
  BY <1>1 DEF Shown
<1>3. \A n \in Names \ {Swap} : BytesIn(disk', n) = BytesIn(disk, n)
  BY <1>1, OrdinaryNames, Zenon DEF BytesIn
<1> QED BY <1>1, <1>2, <1>3

(* The document, while the editor runs.                                    *)
LEMMA DocIs ==
    pc # "quit" => Doc = DocOf(disk, text, win_start, tail_offset, tail_file)
BY Zenon DEF Doc, DocOf, Before, HeadIn, TailIn, HeadOf, RestOf

(* So it is in the next state.                                             *)
LEMMA DocIsNext ==
    pc' # "quit" => Doc' = DocOf(disk', text', win_start', tail_offset', tail_file')
BY Zenon DEF Doc, DocOf, Before, HeadIn, TailIn, HeadOf, RestOf

(* A step that Document does not see.                                      *)
LEMMA DocumentStutters ==
    ASSUME Doc' = Doc, Shown(disk') = Shown(disk), Dirty' <=> Dirty,
           pc' = "quit" <=> pc = "quit", UNCHANGED <<filename, edits>>
    PROVE  DocStep
<1> HIDE DEF Doc, Dirty
<1> QED BY DEF DocStep, Document!docVars, Shown, Ordinaries
-----------------------------------------------------------------------------
(* Moving the window is no step of the document.                           *)

\* What follows from a step being one of the actions below.
StepKept == DocInv' /\ DocStep

(* A moved window shows the document that was shown before.                *)
LEMMA MovedDoc ==
    ASSUME TypeOK, TypeOK', NEW h, NEW m, NEW r,
           At(TextOf(user), disk, text, win_start, tail_offset, tail_file, modified, h, m, r),
           Moved(TextOf(user), h, r)
    PROVE  /\ DocOf(disk', text', win_start', tail_offset', tail_file')
                = DocOf(disk, text, win_start, tail_offset, tail_file)
           /\ \E h2, m2, r2 :
                At(TextOf(user), disk', text', win_start', tail_offset', tail_file', modified',
                   h2, m2, r2)
<1>1. PICK h2, m2, r2 :
        /\ At(TextOf(user), disk', text', win_start', tail_offset', tail_file', modified', h2, m2, r2)
        /\ (h2 \o text') \o r2 = (h \o text) \o r
  BY Zenon DEF Moved, SameAround
<1>2. TextOf(user) \subseteq Char /\ tail_offset \in Nat /\ tail_offset' \in Nat
  BY TextOfType DEF TypeOK
<1>3. DocOf(disk, text, win_start, tail_offset, tail_file) = (h \o text) \o r
  <2>1. TextOf(user) \subseteq Char /\ tail_offset \in Nat
    BY <1>2
  <2>2. ThreeParts(disk, text, win_start, tail_offset, tail_file, h, r)
    BY <2>1, AtDoc
  <2> QED BY <2>2, Zenon DEF ThreeParts
<1>4. DocOf(disk', text', win_start', tail_offset', tail_file') = (h2 \o text') \o r2
  <2>1. TextOf(user) \subseteq Char /\ tail_offset' \in Nat
    BY <1>2
  <2>2. At(TextOf(user), disk', text', win_start', tail_offset', tail_file', modified', h2, m2, r2)
    BY <1>1
  <2>3. ThreeParts(disk', text', win_start', tail_offset', tail_file', h2, r2)
    BY <2>1, <2>2, AtDoc
  <2> QED BY <2>3, Zenon DEF ThreeParts
<1> QED BY <1>1, <1>3, <1>4, Zenon

\* The window is moved, or what is shown in it.
PagedStep ==
    /\ Pages(user) /\ pc # "quit" /\ pc' # "quit"
    /\ UNCHANGED <<filename, undo, user, edits>>
    /\ pc' \in {"seek", "land"} => "G" \in Users[user].keys
    /\ \E h, m, r :
        /\ At(TextOf(user), disk, text, win_start, tail_offset, tail_file, modified, h, m, r)
        /\ Moved(TextOf(user), h, r)

(* Who pages moves the window.                                             *)
LEMMA PagersMove == ASSUME NEW u, Pages(u) PROVE Moves(u)
BY DEF Pages, Moves, Moving

(* Such a step keeps the invariant, and Document sees nothing of it.       *)
LEMMA PagingKept == ASSUME DocInv, Ordinary, TypeOK', PagedStep PROVE StepKept
<1> PICK h, m, r :
        /\ At(TextOf(user), disk, text, win_start, tail_offset, tail_file, modified, h, m, r)
        /\ Moved(TextOf(user), h, r)
  BY DEF PagedStep
<1>1. /\ Moves(user) /\ pc # "quit" /\ pc' # "quit"
      /\ user' = user /\ filename' = filename /\ edits' = edits /\ undo' = undo
      /\ (pc' \in {"seek", "land"} => "G" \in Users[user].keys)
  BY PagersMove DEF PagedStep
<1>2. /\ TypeOK /\ PlaceOK /\ FilesOK /\ ViewOK /\ NotEmptied /\ CleanOK /\ UndoOK
      /\ disk \in Disks /\ filename \in Names \ {Swap}
  BY <1>1 DEF DocInv, TypeOK, Disks, Byte, PlaceOK
<1>3. /\ DocOf(disk', text', win_start', tail_offset', tail_file')
           = DocOf(disk, text, win_start, tail_offset, tail_file)
      /\ \E h2, m2, r2 :
           At(TextOf(user), disk', text', win_start', tail_offset', tail_file', modified',
              h2, m2, r2)
  BY <1>2, MovedDoc
<1>4. OnlySwapWritten /\ (Dirty' <=> Dirty)
      /\ (win_start' = 0 /\ tail_offset' > 0 => text' # << >>)
  BY Zenon DEF Moved
<1>5. /\ \A f \in Ordinaries : disk'[f] = disk[f]
      /\ Shown(disk') = Shown(disk)
      /\ \A n \in Names \ {Swap} : BytesIn(disk', n) = BytesIn(disk, n)
  BY <1>2, <1>4, SwapUnseen
<1>6. user' = user /\ filename' = filename /\ edits' = edits /\ undo' = undo
  BY <1>1
<1>7. Doc' = Doc
  BY <1>1, <1>3, DocIs, DocIsNext, Zenon
<1>8. DocStep
  <2>1. pc' = "quit" <=> pc = "quit"
    BY <1>1
  <2> QED BY <1>4, <1>5, <1>6, <1>7, <2>1, DocumentStutters
<1>9. PlaceOK'
  BY <1>1, <1>2 DEF PlaceOK
<1>10. FilesOK'
  BY <1>2, <1>5, <1>6, Zenon DEF FilesOK
<1>11. ViewOK'
  <2>1. ASSUME NEW h2, NEW m2, NEW r2,
               At(TextOf(user), disk', text', win_start', tail_offset', tail_file', modified',
                  h2, m2, r2)
        PROVE  At(TextOf(user'), disk', text', win_start', tail_offset', tail_file',
                  modified' \/ ~ Moves(user'), h2, m2, r2)
    BY <1>6, <2>1, Zenon DEF At
  <2> QED BY <1>3, <2>1, Zenon DEF ViewOK
<1>12. NotEmptied'
  BY <1>4, Zenon DEF NotEmptied
<1>13. Held' = Held
  BY <1>2, <1>5, <1>6, Zenon DEF Held
<1>14. CleanOK'
  BY <1>2, <1>3, <1>4, <1>13, Zenon DEF CleanOK
<1>15. UndoOK'
  <2>1. user \in DOMAIN Users
    BY DEF DocInv, TypeOK
  <2> QED BY <1>1, <2>1, Zenon DEF UndoOK, Ordinary
<1> QED BY <1>8, <1>9, <1>10, <1>11, <1>12, <1>14, <1>15, Zenon DEF StepKept, DocInv

(* What a user who moves the window sees.                                  *)
LEMMA MoverView ==
    ASSUME DocInv, pc # "quit", Moves(user)
    PROVE  /\ \E h, m, r : At(TextOf(user), disk, text, win_start, tail_offset, tail_file,
                              modified, h, m, r)
           /\ win_start = 0 /\ tail_offset > 0 => text # << >>
<1>1. PICK h, m, r : At(TextOf(user), disk, text, win_start, tail_offset, tail_file,
                        modified \/ ~ Moves(user), h, m, r)
  BY Zenon DEF DocInv, ViewOK
<1>2. At(TextOf(user), disk, text, win_start, tail_offset, tail_file, modified, h, m, r)
  BY <1>1, Zenon DEF At
<1> QED BY <1>2, Zenon DEF DocInv, NotEmptied

(* Every write of the swap file succeeds.                                  *)
LEMMA OnlyTrue == ASSUME Ordinary PROVE SwapWorks = {TRUE}
BY DEF Ordinary, SwapWorks

(* ^F, and a turn of the loop of G and :$.                                 *)
LEMMA PageForwardMoves == ASSUME DocInv, Ordinary, PageForward PROVE PagedStep
<1>1. /\ pc = "edit" /\ pc' = pc /\ "^F" \in Users[user].keys /\ tail_offset > 0
      /\ UNCHANGED <<filename, undo, pc, user, edits>>
  BY DEF PageForward, Gets
<1>2. Pages(user) /\ Moves(user)
  BY <1>1, PagersMove DEF Pages, Paging
<1>3. PICK c \in Cursors, n \in 0..Chunk : LoadMore(c, TRUE, n)
  BY OnlyTrue DEF PageForward
<1>4. n \in Nat
  BY SizesAssumption
<1>5. pc # "quit" /\ pc' # "quit" /\ pc' \notin {"seek", "land"}
  BY <1>1
<1>6. PICK h, m, r : At(TextOf(user), disk, text, win_start, tail_offset, tail_file,
                        modified, h, m, r)
  BY <1>2, <1>5, MoverView
<1>7. win_start = 0 /\ tail_offset > 0 => text # << >>
  BY <1>2, <1>5, MoverView
<1>8. TypeOK /\ TextOf(user) \subseteq Char
  BY TextOfType DEF DocInv
<1>9. Moved(TextOf(user), h, r)
  BY <1>1, <1>3, <1>4, <1>6, <1>7, <1>8, LoadMoreAt
<1> QED BY <1>1, <1>2, <1>5, <1>6, <1>9, Zenon DEF PagedStep

(* G, while it reads on, moves the window.                                 *)
LEMMA SeekOnMoves == ASSUME DocInv, Ordinary, SeekOn PROVE PagedStep
<1>1. /\ pc = "seek" /\ pc' \in {"seek", "land"} /\ tail_offset > 0
      /\ UNCHANGED <<filename, undo, user, edits>>
  BY DEF SeekOn
<1>2. "G" \in Users[user].keys
  BY <1>1 DEF DocInv, PlaceOK
<1>3. Pages(user) /\ Moves(user)
  BY <1>2, PagersMove DEF Pages, Paging
<1> DEFINE c == IF text = << >> THEN 0 ELSE Len(text) - 1
<1>4. PICK n \in 0..Chunk : LoadMore(c, TRUE, n)
  BY OnlyTrue DEF SeekOn
<1>5. n \in Nat
  BY SizesAssumption
<1>6. TypeOK /\ TextOf(user) \subseteq Char
  BY TextOfType DEF DocInv
<1>7. c \in Cursors
  <2>1. text \in Seq(Char)
    BY <1>6 DEF TypeOK
  <2> QED BY <2>1 DEF Cursors
<1>8. pc # "quit" /\ pc' # "quit"
  BY <1>1
<1>9. PICK h, m, r : At(TextOf(user), disk, text, win_start, tail_offset, tail_file,
                        modified, h, m, r)
  BY <1>3, <1>8, MoverView
<1>10. win_start = 0 /\ tail_offset > 0 => text # << >>
  BY <1>3, <1>8, MoverView
<1> HIDE DEF c
<1>11. Moved(TextOf(user), h, r)
  BY <1>1, <1>4, <1>5, <1>6, <1>7, <1>9, <1>10, LoadMoreAt
<1> QED BY <1>1, <1>2, <1>3, <1>8, <1>9, <1>11, Zenon DEF PagedStep

(* nG and ^B.                                                              *)
LEMMA GotoLineMoves == ASSUME DocInv, Ordinary, GotoLine PROVE PagedStep
<1>1. /\ pc = "edit" /\ pc' = pc /\ "nG" \in Users[user].keys /\ win_start > 0
      /\ UNCHANGED <<filename, undo, pc, user, edits>> /\ Reload(0, TRUE)
  BY OnlyTrue DEF GotoLine, Gets
<1>2. Pages(user) /\ Moves(user)
  BY <1>1, PagersMove DEF Pages, Paging
<1>3. pc # "quit" /\ pc' # "quit" /\ pc' \notin {"seek", "land"}
  BY <1>1
<1>4. PICK h, m, r : At(TextOf(user), disk, text, win_start, tail_offset, tail_file,
                        modified, h, m, r)
  BY <1>2, <1>3, MoverView
<1>5. TypeOK /\ TextOf(user) \subseteq Char
  BY TextOfType DEF DocInv
<1>6. Moved(TextOf(user), h, r)
  BY <1>1, <1>4, <1>5, FirstAt
<1> QED BY <1>1, <1>2, <1>3, <1>4, <1>6, Zenon DEF PagedStep

(* ^B moves the window.                                                    *)
LEMMA PageBackMoves == ASSUME DocInv, Ordinary, PageBack PROVE PagedStep
<1> DEFINE off == IF win_start > Chunk THEN win_start - Chunk ELSE 0
<1>1. /\ pc = "edit" /\ pc' = pc /\ "^B" \in Users[user].keys /\ win_start > 0
      /\ UNCHANGED <<filename, undo, pc, user, edits>> /\ Reload(off, TRUE)
  BY OnlyTrue DEF PageBack, Gets
<1>2. Pages(user) /\ Moves(user) /\ TextOf(user) \subseteq Char \ {LF}
  BY <1>1, PagersMove DEF Pages, Paging, TextOf
<1>3. pc # "quit" /\ pc' # "quit" /\ pc' \notin {"seek", "land"}
  BY <1>1
<1>4. PICK h, m, r : At(TextOf(user), disk, text, win_start, tail_offset, tail_file,
                        modified, h, m, r)
  BY <1>2, <1>3, MoverView
<1>5. TypeOK
  BY DEF DocInv
<1>6. off \in 0..win_start
  <2>1. win_start \in Nat
    BY <1>5 DEF TypeOK
  <2> QED BY <2>1, SizesAssumption
<1> HIDE DEF off
<1>7. Moved(TextOf(user), h, r)
  BY <1>1, <1>2, <1>4, <1>5, <1>6, ChunkBackAt
<1> QED BY <1>1, <1>2, <1>3, <1>4, <1>7, Zenon DEF PagedStep
-----------------------------------------------------------------------------
(* Saving is the document's Save.                                          *)

(* When a step is a Save of Document, or one with which it ends.           *)
LEMMA DocumentSave ==
    ASSUME Ordinary, disk \in Disks, NEW n \in Names \ {Swap}, pc # "quit",
           \A f \in Ordinaries : f # FileOf[n] => disk'[f] = disk[f],
           disk'[FileOf[n]] # NoFile, Decode(disk'[FileOf[n]]) = Doc,
           filename' = n, edits' = edits, pc' # "quit" => Doc' = Doc,
           pc' = "quit" => Doc' = << >>
    PROVE  DocStep
<1>1. FileOf[n] \in Ordinaries
  BY OrdinaryNames
<1>2. Shown(disk') = [Shown(disk) EXCEPT ![FileOf[n]] = Doc]
  <2> DEFINE new == Shown(disk')
             old == Shown(disk)
  <2>1. new = [f \in Ordinaries |-> new[f]] /\ old = [f \in Ordinaries |-> old[f]]
    BY DEF Shown
  <2>2. \A f \in Ordinaries : f # FileOf[n] => new[f] = old[f]
    BY DEF Shown
  <2>3. new[FileOf[n]] = Doc
    BY <1>1 DEF Shown
  <2> HIDE DEF new, old, Doc
  <2>4. new = [old EXCEPT ![FileOf[n]] = Doc]
    BY <1>1, <2>1, <2>2, <2>3
  <2> QED BY <2>4 DEF new, old
<1>3. [m \in Names \ {Swap} |-> FileOf[m]][n] = FileOf[n]
  OBVIOUS
<1> HIDE DEF Doc, Dirty
<1>4. Document!Save(n)
  BY <1>2, <1>3 DEF Document!Save, Shown, Ordinaries
<1> QED BY <1>4 DEF DocStep, Document!DocNext

(* A well-formed file.                                                     *)
LEMMA ImageWellFormed ==
    ASSUME NEW T, T \subseteq Char, NEW h, NEW x, NEW r,
           h \in Seq(T), x \in Seq(T), r \in Seq(T)
    PROVE  /\ WellFormed(T, Image(h, x, r)) /\ Image(h, x, r) # NoFile
           /\ Decode(Image(h, x, r)) = (h \o x) \o r
<1>1. h \in Seq(Char) /\ x \in Seq(Char) /\ r \in Seq(Char)
  BY SeqMonotonic
<1>2. /\ Image(h, x, r) # NoFile /\ Image(h, x, r) = Encode((h \o x) \o r)
      /\ Decode(Image(h, x, r)) = (h \o x) \o r
  BY <1>1, ImageType
<1>3. h \o x \in Seq(T)
  BY ConcatProperties
<1>4. (h \o x) \o r \in Seq(T)
  BY <1>3, ConcatProperties
<1> QED BY <1>2, <1>4, Zenon DEF WellFormed

\* What Saved leaves.
SavedFile(T, s, n, h, r) ==
    /\ \A f \in Ordinaries : f # FileOf[n] => s.disk[f] = disk[f]
    /\ s.disk[FileOf[n]] = Image(h, text, r)
    /\ WellFormed(T, Image(h, text, r)) /\ Image(h, text, r) # NoFile
    /\ Decode(Image(h, text, r)) = DocOf(disk, text, win_start, tail_offset, tail_file)
    /\ DocOf(s.disk, text, win_start, s.tail, s.file)
         = DocOf(disk, text, win_start, tail_offset, tail_file)
    /\ win_start = 0 /\ s.tail > 0 => text # << >>

(* After save_file the file has the document, and no other ordinary file   *)
(* has changed.                                                            *)
LEMMA SavedContents ==
    ASSUME TypeOK, Ordinary, NEW T, T \subseteq Char, NEW s, NEW n \in Names \ {Swap},
           NEW h, NEW m, NEW r,
           At(T, disk, text, win_start, tail_offset, tail_file, modified, h, m, r),
           SavedAs(T, s, n, h, r)
    PROVE  SavedFile(T, s, n, h, r)
<1>1. /\ s.disk = [disk EXCEPT ![FileOf[n]] = Image(h, text, r)]
      /\ At(T, s.disk, text, win_start, s.tail, s.file, FALSE, h, text, r)
      /\ s.tail \in Nat
  BY DEF SavedAs
<1>2. disk \in Disks /\ tail_offset \in Nat /\ DOMAIN disk = Files
  BY DEF TypeOK, Disks, Byte
<1>3. FileOf[n] \in Files
  BY OrdinaryNames
<1>4. \A f \in Ordinaries : f # FileOf[n] => s.disk[f] = disk[f]
  BY <1>1, <1>2 DEF Ordinaries
<1>5. s.disk[FileOf[n]] = Image(h, text, r)
  BY <1>1, <1>2, <1>3
<1>6. h \in Seq(T) /\ text \in Seq(T) /\ r \in Seq(T)
  BY DEF At
<1>7. /\ WellFormed(T, Image(h, text, r)) /\ Image(h, text, r) # NoFile
      /\ Decode(Image(h, text, r)) = (h \o text) \o r
  BY <1>6, ImageWellFormed
<1>8. DocOf(disk, text, win_start, tail_offset, tail_file) = (h \o text) \o r
  <2>1. ThreeParts(disk, text, win_start, tail_offset, tail_file, h, r)
    BY <1>2, AtDoc
  <2> QED BY <2>1 DEF ThreeParts
<1>9. DocOf(s.disk, text, win_start, s.tail, s.file) = (h \o text) \o r
  <2>1. ThreeParts(s.disk, text, win_start, s.tail, s.file, h, r)
    BY <1>1, AtDoc
  <2> QED BY <2>1 DEF ThreeParts
<1>10. win_start = 0 /\ s.tail > 0 => text # << >>
  <2> SUFFICES ASSUME win_start = 0, s.tail > 0, text = << >> PROVE FALSE
    OBVIOUS
  <2>1. s.tail = win_start + Len(Encode(text))
    BY <1>1 DEF At
  <2>2. Len(Encode(text)) = 0
    BY EncodeEmpty
  <2> QED BY <2>1, <2>2
<1> QED BY <1>4, <1>5, <1>7, <1>8, <1>9, <1>10, Zenon DEF SavedFile

\* The disk as the editor leaves it, or as it was saved.
LEMMA SwapRemoved ==
    ASSUME NEW d \in Disks, NEW f \in Ordinaries
    PROVE  WithoutSwap(d)[f] = d[f]
BY DEF WithoutSwap, Disks, Ordinaries

(* :w, :wq and :x save the document.                                       *)
LEMMA WriteKept ==
    ASSUME DocInv, Ordinary, TypeOK', NEW n \in Users[user].names, NEW quits \in BOOLEAN,
           Write(n, quits)
    PROVE  StepKept
<1> DEFINE s == Saved(n)
           T == TextOf(user)
<1>1. /\ disk' = IF quits THEN WithoutSwap(s.disk) ELSE s.disk
      /\ tail_file' = s.file /\ tail_offset' = s.tail /\ filename' = n /\ modified' = FALSE
      /\ pc' = IF quits THEN "quit" ELSE "edit"
      /\ text' = text /\ win_start' = win_start /\ undo' = undo /\ user' = user
      /\ edits' = edits /\ pc = "edit" /\ ":w" \in Users[user].keys
  BY DEF Write, Gets
<1>2. /\ TypeOK /\ PlaceOK /\ FilesOK /\ disk \in Disks
      /\ pc # "quit" /\ (pc' = "quit" <=> quits) /\ pc' \notin {"seek", "land"}
      /\ user \in DOMAIN Users
  BY <1>1 DEF DocInv, TypeOK, Disks, Byte
<1>3. Moves(user)
  BY <1>1 DEF Moves, Moving, Paging
<1>4. n \in Names \ {Swap}
  BY <1>2, InputAssumption
<1>5. PICK h, m, r : At(T, disk, text, win_start, tail_offset, tail_file, modified, h, m, r)
  BY <1>2, <1>3, MoverView
<1>6. T \subseteq Char /\ (win_start = 0 /\ tail_offset > 0 => text # << >>)
  BY <1>2, <1>3, TextOfType, MoverView
<1> HIDE DEF s, T
<1>7. SavedAs(T, s, n, h, r)
  <2>1. n \in Names
    BY <1>4
  <2> QED BY <1>2, <1>5, <1>6, <2>1, SavedAt DEF s
<1>8. SavedFile(T, s, n, h, r)
  BY <1>2, <1>4, <1>5, <1>6, <1>7, SavedContents
<1>9. s.disk \in Disks /\ FileOf[n] \in Ordinaries
  <2>1. SavedOK(s)
    <3>1. WindowOK(disk, text, win_start, tail_offset, tail_file, win_line_offset)
      BY <1>2, TypeParts
    <3>2. n \in Names
      BY <1>4
    <3> QED BY <3>1, <3>2, SavedType DEF s
  <2> QED BY <1>4, <2>1, OrdinaryNames DEF SavedOK
<1>10. \A f \in Ordinaries : disk'[f] = s.disk[f]
  BY <1>1, <1>9, SwapRemoved
<1>11. pc' # "quit" => disk' = s.disk
  BY <1>1, <1>2
<1>12. pc' # "quit" => Doc' = Doc
  <2> SUFFICES ASSUME pc' # "quit" PROVE Doc' = Doc
    OBVIOUS
  <2>1. DocOf(disk', text', win_start', tail_offset', tail_file')
          = DocOf(disk, text, win_start, tail_offset, tail_file)
    BY <1>1, <1>8, <1>11, Zenon DEF SavedFile
  <2> QED BY <1>2, <2>1, DocIs, DocIsNext, Zenon
<1>13. DocStep
  <2>1. \A f \in Ordinaries : f # FileOf[n] => disk'[f] = disk[f]
    BY <1>8, <1>10, Zenon DEF SavedFile
  <2>2. disk'[FileOf[n]] # NoFile /\ Decode(disk'[FileOf[n]]) = Doc
    BY <1>2, <1>8, <1>9, <1>10, DocIs, Zenon DEF SavedFile
  <2>3. pc' = "quit" => Doc' = << >>
    BY DEF Doc
  <2> HIDE DEF Doc
  <2> QED BY <1>1, <1>2, <1>4, <1>12, <2>1, <2>2, <2>3, DocumentSave
<1>14. PlaceOK'
  BY <1>1, <1>2, <1>4, Zenon DEF PlaceOK
<1>15. FilesOK'
  <2> SUFFICES ASSUME NEW f \in Ordinaries
               PROVE  disk'[f] = NoFile \/ WellFormed(T, disk'[f])
    BY <1>1, Zenon DEF FilesOK, T
  <2>1. CASE f = FileOf[n]
    BY <1>8, <1>10, <2>1, Zenon DEF SavedFile
  <2>2. CASE f # FileOf[n]
    <3>1. disk'[f] = disk[f]
      BY <1>8, <1>10, <2>2, Zenon DEF SavedFile
    <3> QED BY <1>2, <3>1, Zenon DEF FilesOK, T
  <2> QED BY <2>1, <2>2
<1>16. ASSUME pc' # "quit" PROVE ViewOK' /\ NotEmptied' /\ CleanOK' /\ UndoOK'
  <2>1. disk' = s.disk
    BY <1>11, <1>16
  <2>2. ViewOK'
    <3>1. At(T, disk', text', win_start', tail_offset', tail_file', FALSE, h, text, r)
      BY <1>1, <1>7, <2>1, Zenon DEF SavedAs
    <3>2. At(TextOf(user'), disk', text', win_start', tail_offset', tail_file',
             modified' \/ ~ Moves(user'), h, text, r)
      BY <1>1, <3>1, Zenon DEF At, T
    <3> QED BY <3>2, Zenon DEF ViewOK
  <2>3. NotEmptied'
    BY <1>1, <1>8, Zenon DEF NotEmptied, SavedFile
  <2>4. CleanOK'
    <3>1. DocOf(disk', text', win_start', tail_offset', tail_file') = Decode(Image(h, text, r))
      BY <1>1, <1>8, <2>1, Zenon DEF SavedFile
    <3>2. BytesIn(disk', n) = Image(h, text, r)
      BY <1>8, <2>1, Zenon DEF SavedFile, BytesIn
    <3> QED BY <1>1, <3>1, <3>2, Zenon DEF CleanOK, Held
  <2>5. UndoOK'
    BY <1>1, <1>2, <1>3, Zenon DEF UndoOK, Ordinary
  <2> QED BY <2>2, <2>3, <2>4, <2>5
<1> QED BY <1>13, <1>14, <1>15, <1>16, Zenon DEF StepKept, DocInv
-----------------------------------------------------------------------------
(* Opening a file is the document's Open, ending the editor its Close.     *)

\* What a window at the beginning of file n shows.
Opened(T, d, n, w, tf) ==
    /\ \E r : At(T, d, w.text, 0, w.tail, tf, FALSE, << >>, w.text, r)
    /\ DocOf(d, w.text, 0, w.tail, tf) = Decode(BytesIn(d, n))
    /\ w.tail > 0 => w.text # << >>

(* gb_fill at the beginning of file n shows it.                            *)
LEMMA OpenedAt ==
    ASSUME NEW T, T \subseteq Char, NEW d, NEW n \in Names, NEW w, NEW tf,
           d[FileOf[n]] = NoFile \/ WellFormed(T, d[FileOf[n]]),
           w = Filled(BytesIn(d, n), 0), w.tail > 0 => tf = n
    PROVE  Opened(T, d, n, w, tf)
<1> DEFINE b == BytesIn(d, n)
           t == Decode(b)
           r == From(t, Cap)
<1>1. t \in Seq(T) /\ b = Encode(t)
  <2>1. CASE d[FileOf[n]] = NoFile
    <3>1. b = << >>
      BY <2>1 DEF BytesIn
    <3> HIDE DEF b
    <3>2. t = << >>
      BY <3>1, DecodeEmpty
    <3>3. << >> \in Seq(T)
      OBVIOUS
    <3> HIDE DEF t
    <3> QED BY <3>1, <3>2, <3>3, EncodeEmpty
  <2>2. CASE d[FileOf[n]] # NoFile
    <3>1. b = d[FileOf[n]] /\ WellFormed(T, d[FileOf[n]])
      BY <2>2 DEF BytesIn
    <3> HIDE DEF b
    <3> QED BY <3>1 DEF WellFormed
  <2> QED BY <2>1, <2>2
<1> HIDE DEF t
<1>2. b = Encode(<< >>) \o Encode(t) /\ Len(Encode(<< >>)) = 0 /\ << >> \in Seq(T)
  <2>1. Encode(t) \in Seq(Byte)
    <3>1. t \in Seq(Char)
      BY <1>1, SeqMonotonic
    <3> QED BY <3>1, EncodeLength
  <2>2. << >> \o Encode(t) = Encode(t)
    BY <2>1, ConcatEmptySeq
  <2>3. << >> \in Seq(T)
    OBVIOUS
  <2>4. b = << >> \o Encode(t)
    BY <1>1, <2>2, Zenon
  <2>5. Encode(<< >>) = << >> /\ Len(<< >>) = 0
    BY EncodeEmpty
  <2> HIDE DEF b
  <2> QED BY <2>3, <2>4, <2>5, Zenon
<1>3. PICK mod : mod = FALSE
  OBVIOUS
<1>4. FilledAt(T, d, n, << >>, t, w, mod)
  <2>1. BytesIn(d, n) = Encode(<< >>) \o Encode(t)
        /\ w = Filled(BytesIn(d, n), Len(Encode(<< >>)))
    BY <1>2, Zenon DEF b
  <2> QED BY <1>1, <1>2, <2>1, AtFilled
<1>5. /\ At(T, d, w.text, 0, w.tail, n, mod, << >>, w.text, r)
      /\ w.tail \in Nat /\ t = w.text \o r /\ (w.tail > 0 => w.text # << >>)
  BY <1>2, <1>4, Zenon DEF FilledAt
<1>6. At(T, d, w.text, 0, w.tail, tf, FALSE, << >>, w.text, r)
  <2>1. ~ 0 > 0
    OBVIOUS
  <2>2. w.tail > 0 => tf = n
    BY Zenon
  <2> QED BY <1>5, <2>1, <2>2, Zenon DEF At
<1> HIDE DEF r
<1>7. DocOf(d, w.text, 0, w.tail, tf) = t
  <2>1. ThreeParts(d, w.text, 0, w.tail, tf, << >>, r)
    <3>1. At(T, d, w.text, 0, w.tail, tf, mod, << >>, w.text, r)
      BY <1>3, <1>6, Zenon DEF At
    <3> QED BY <1>5, <3>1, AtDoc
  <2>2. << >> \o w.text = w.text
    <3>1. w.text \in Seq(T)
      BY <1>6 DEF At
    <3> QED BY <3>1, ConcatEmptySeq
  <2> QED BY <1>5, <2>1, <2>2, Zenon DEF ThreeParts
<1> QED BY <1>5, <1>6, <1>7, Zenon DEF Opened, t, b

(* Every file is missing or well-formed.                                   *)
LEMMA FileKnown ==
    ASSUME FilesOK, Ordinary, NEW n \in Names \ {Swap}
    PROVE  disk[FileOf[n]] = NoFile \/ WellFormed(TextOf(user), disk[FileOf[n]])
BY OrdinaryNames DEF FilesOK

\* A window that is not written back to the swap file is clean.
LEMMA NoSwapName == ASSUME NEW n \in Names \ {Swap}, NEW tf, tf = n \/ tf = "" PROVE tf # Swap
BY NamesAssumption

(* :e and :e! open a file; without "!" only of a clean document.           *)
LEMMA EditKept ==
    ASSUME DocInv, Ordinary, TypeOK', NEW n \in Users[user].names, NEW force \in BOOLEAN,
           Edit(n, force)
    PROVE  StepKept
<1> DEFINE w == Filled(BytesIn(disk, n), 0)
           T == TextOf(user)
<1>1. /\ filename' = n /\ win_start' = 0 /\ modified' = FALSE
      /\ text' = w.text /\ tail_offset' = w.tail /\ tail_file' = IF w.tail > 0 THEN n ELSE ""
      /\ disk' = disk /\ pc' = pc /\ user' = user /\ edits' = edits
      /\ pc = "edit" /\ (Dirty => force)
  BY DEF Edit, Gets
<1>2. undo' = [undo EXCEPT !.type = "none"]
  BY DEF Edit
<1>3. /\ TypeOK /\ PlaceOK /\ FilesOK /\ disk \in Disks
      /\ pc # "quit" /\ pc' # "quit" /\ pc' \notin {"seek", "land"}
      /\ user \in DOMAIN Users
  BY <1>1 DEF DocInv, TypeOK, Disks, Byte
<1>4. n \in Names \ {Swap} /\ n \in Names
  BY <1>3, InputAssumption
<1>5. disk[FileOf[n]] = NoFile \/ WellFormed(T, disk[FileOf[n]])
  BY <1>3, <1>4, FileKnown
<1>6. T \subseteq Char
  BY TextOfType
<1> HIDE DEF w, T
<1>7. Opened(T, disk, n, w, tail_file')
  <2>1. w.tail > 0 => tail_file' = n
    BY <1>1, Zenon
  <2> QED BY <1>4, <1>5, <1>6, <2>1, OpenedAt DEF w
<1>8. tail_file' # Swap
  <2>1. tail_file' = n \/ tail_file' = ""
    BY <1>1, Zenon
  <2> QED BY <1>4, <2>1, NoSwapName
<1>9. ~ Dirty'
  BY <1>1, <1>8 DEF Dirty
<1>10. DocOf(disk', text', win_start', tail_offset', tail_file') = Decode(BytesIn(disk, n))
  BY <1>1, <1>7, Zenon DEF Opened
<1>11. Doc' = Decode(BytesIn(disk, n))
  BY <1>3, <1>10, DocIsNext, Zenon
<1>12. DocStep
  <2>1. FileOf[n] \in Ordinaries
    BY <1>4, OrdinaryNames
  <2>2. Document!Contents(FileOf[n]) = Decode(BytesIn(disk, n))
    BY <1>3, <1>4, <2>1, DocumentContents
  <2>3. [m \in Names \ {Swap} |-> FileOf[m]][n] = FileOf[n]
    BY <1>4
  <2> HIDE DEF Doc, Dirty
  <2>4. Document!Open(n, force)
    BY <1>1, <1>3, <1>9, <1>11, <2>2, <2>3 DEF Document!Open
  <2> QED BY <1>4, <2>4 DEF DocStep, Document!DocNext
<1>13. PlaceOK'
  BY <1>1, <1>3, <1>4, Zenon DEF PlaceOK
<1>14. FilesOK'
  BY <1>1, <1>3, Zenon DEF FilesOK
<1>15. ViewOK'
  <2>1. PICK r : At(T, disk, w.text, 0, w.tail, tail_file', FALSE, << >>, w.text, r)
    BY <1>7 DEF Opened
  <2>2. At(TextOf(user'), disk', text', win_start', tail_offset', tail_file',
           modified' \/ ~ Moves(user'), << >>, w.text, r)
    BY <1>1, <2>1, Zenon DEF At, T
  <2> QED BY <2>2, Zenon DEF ViewOK
<1>16. NotEmptied'
  BY <1>1, <1>7, Zenon DEF NotEmptied, Opened
<1>17. CleanOK'
  BY <1>1, <1>10, Zenon DEF CleanOK, Held
<1>18. UndoOK'
  <2>1. undo'.type = "none"
    BY <1>2, <1>3 DEF TypeOK, UndoRecords
  <2> QED BY <2>1, Zenon DEF UndoOK
<1> QED BY <1>12, <1>13, <1>14, <1>15, <1>16, <1>17, <1>18, Zenon DEF StepKept, DocInv

(* :q and :q! close the document; without "!" only a clean one.            *)
LEMMA QuitKept ==
    ASSUME DocInv, Ordinary, TypeOK', NEW force \in BOOLEAN, Quit(force) PROVE StepKept
<1>1. /\ pc = "edit" /\ (Dirty => force) /\ pc' = "quit" /\ disk' = WithoutSwap(disk)
      /\ tail_file' = tail_file /\ filename' = filename /\ modified' = modified
      /\ user' = user /\ edits' = edits
  BY DEF Quit, Gets, window
<1>2. TypeOK /\ PlaceOK /\ FilesOK /\ disk \in Disks
  BY DEF DocInv, TypeOK, Disks, Byte
<1>3. OnlySwapWritten
  BY <1>1 DEF OnlySwapWritten, WithoutSwap
<1>4. /\ \A f \in Ordinaries : disk'[f] = disk[f]
      /\ Shown(disk') = Shown(disk)
  BY <1>2, <1>3, SwapUnseen
<1>5. Doc' = << >> /\ (Dirty' <=> Dirty)
  BY <1>1 DEF Doc, Dirty
<1>6. DocStep
  <2> HIDE DEF Doc, Dirty
  <2>1. Document!Close(force)
    BY <1>1, <1>4, <1>5 DEF Document!Close, Shown, Ordinaries
  <2>2. filename \in Names \ {Swap}
    BY <1>2 DEF PlaceOK
  <2> QED BY <2>1, <2>2 DEF DocStep, Document!DocNext
<1>7. PlaceOK'
  BY <1>1, <1>2 DEF PlaceOK
<1>8. FilesOK'
  BY <1>1, <1>2, <1>4, Zenon DEF FilesOK
<1> QED BY <1>1, <1>6, <1>7, <1>8, Zenon DEF StepKept, DocInv

(* G and :$ begin and end their loop.                                      *)
LEMMA WaitingKept ==
    ASSUME DocInv, Ordinary, TypeOK', SeekEnd \/ SeekLand \/ UNCHANGED vars PROVE StepKept
<1>1. /\ disk' = disk /\ text' = text /\ win_start' = win_start
      /\ tail_offset' = tail_offset /\ tail_file' = tail_file /\ filename' = filename
      /\ modified' = modified /\ undo' = undo /\ user' = user /\ edits' = edits
  BY DEF SeekEnd, SeekLand, vars, window
<1>2. (pc' = "quit" <=> pc = "quit") /\ (pc' \in {"seek", "land"} => "G" \in Users[user].keys)
  BY DEF SeekEnd, SeekLand, vars, Gets, DocInv, PlaceOK
<1>3. Doc' = Doc /\ (Dirty' <=> Dirty) /\ Shown(disk') = Shown(disk)
  <2>1. Doc' = Doc
    BY <1>1, <1>2, Zenon DEF Doc, Before, HeadIn, TailIn
  <2>2. Dirty' <=> Dirty
    BY <1>1 DEF Dirty
  <2> QED BY <1>1, <2>1, <2>2, Zenon
<1>4. DocStep
  BY <1>1, <1>2, <1>3, DocumentStutters
<1>5. PlaceOK' /\ FilesOK'
  BY <1>1, <1>2, Zenon DEF DocInv, PlaceOK, FilesOK
<1>6. pc' # "quit" => ViewOK' /\ NotEmptied' /\ CleanOK' /\ UndoOK'
  <2> SUFFICES ASSUME pc' # "quit" PROVE ViewOK' /\ NotEmptied' /\ CleanOK' /\ UndoOK'
    OBVIOUS
  <2>1. ViewOK /\ NotEmptied /\ CleanOK /\ UndoOK
    BY <1>2, Zenon DEF DocInv
  <2>2. ViewOK'
    BY <1>1, <2>1, Zenon DEF ViewOK
  <2>3. NotEmptied'
    BY <1>1, <2>1, Zenon DEF NotEmptied
  <2>4. CleanOK'
    BY <1>1, <1>3, <2>1, Zenon DEF CleanOK, Held
  <2>5. UndoOK'
    BY <1>1, <2>1, Zenon DEF UndoOK, Room, Held
  <2> QED BY <2>2, <2>3, <2>4, <2>5
<1> QED BY <1>4, <1>5, <1>6, Zenon DEF StepKept, DocInv

(* The first window shows the file.                                        *)
LEMMA InitKept == ASSUME Init, Ordinary PROVE DocInv /\ Document!DocInit
<1> DEFINE w == Filled(BytesIn(disk, filename), 0)
           T == TextOf(user)
<1>1. /\ user \in DOMAIN Users /\ disk = Users[user].disk /\ filename \in StartNames
      /\ text = w.text /\ tail_offset = w.tail
      /\ tail_file = IF w.tail > 0 THEN filename ELSE ""
      /\ win_start = 0 /\ modified = FALSE /\ pc = "edit" /\ edits = 0
  BY DEF Init
<1>2. undo.type = "none"
  BY DEF Init
<1>3. TypeOK /\ disk \in Disks
  BY InitTypes DEF TypeOK, Disks, Byte
<1>4. filename \in Names \ {Swap} /\ filename \in Names
  BY <1>1, InputAssumption
<1>5. FilesOK
  BY <1>1, Zenon DEF FilesOK, Ordinary, Ordinaries
<1>6. disk[FileOf[filename]] = NoFile \/ WellFormed(T, disk[FileOf[filename]])
  BY <1>4, <1>5, FileKnown
<1>7. T \subseteq Char
  BY TextOfType
<1> HIDE DEF w, T
<1>8. Opened(T, disk, filename, w, tail_file)
  <2>1. w.tail > 0 => tail_file = filename
    BY <1>1, Zenon
  <2> QED BY <1>4, <1>6, <1>7, <2>1, OpenedAt DEF w
<1>9. tail_file # Swap
  <2>1. tail_file = filename \/ tail_file = ""
    BY <1>1, Zenon
  <2> QED BY <1>4, <2>1, NoSwapName
<1>10. ~ Dirty
  BY <1>1, <1>9 DEF Dirty
<1>11. DocOf(disk, text, win_start, tail_offset, tail_file) = Held
  BY <1>1, <1>8, Zenon DEF Opened, Held
<1>12. pc # "quit" /\ pc \notin {"seek", "land"}
  BY <1>1
<1>13. Doc = Held
  BY <1>11, <1>12, DocIs, Zenon
<1>14. Document!DocInit
  <2>1. FileOf[filename] \in Ordinaries
    BY <1>4, OrdinaryNames
  <2>2. Document!Contents(FileOf[filename]) = Held
    BY <1>3, <1>4, <2>1, DocumentContents DEF Held
  <2>3. [m \in Names \ {Swap} |-> FileOf[m]][filename] = FileOf[filename]
    BY <1>4
  <2>4. Shown(disk) \in [Ordinaries -> {NoFile} \cup Seq(Char)]
    <3>1. ASSUME NEW f \in Ordinaries, disk[f] # NoFile PROVE Decode(disk[f]) \in Seq(Char)
      <4>1. disk[f] \in Seq(Byte)
        BY <1>3, <3>1 DEF Disks, Ordinaries
      <4> QED BY <4>1, Reads
    <3> QED BY <3>1 DEF Shown
  <2> HIDE DEF Doc, Dirty
  <2> QED BY <1>1, <1>4, <1>10, <1>12, <1>13, <2>2, <2>3, <2>4
       DEF Document!DocInit, Shown, Ordinaries
<1>15. PlaceOK
  BY <1>4, <1>12 DEF PlaceOK
<1>16. ViewOK
  <2>1. PICK r : At(T, disk, w.text, 0, w.tail, tail_file, FALSE, << >>, w.text, r)
    BY <1>8 DEF Opened
  <2>2. At(T, disk, text, win_start, tail_offset, tail_file, modified \/ ~ Moves(user),
           << >>, w.text, r)
    BY <1>1, <2>1, Zenon DEF At
  <2> QED BY <2>2, Zenon DEF ViewOK, T
<1>17. NotEmptied
  BY <1>1, <1>8, Zenon DEF NotEmptied, Opened
<1>18. CleanOK /\ UndoOK
  BY <1>2, <1>11, Zenon DEF CleanOK, UndoOK
<1> QED BY <1>3, <1>5, <1>14, <1>15, <1>16, <1>17, <1>18, Zenon DEF DocInv
-----------------------------------------------------------------------------
(* Changes and taking them back.                                           *)

Spliced(x, p, d, s) == First(x, p) \o s \o From(x, p + d)

(* What a change leaves of the text, and how long that is.                 *)
SplicedParts(S, x, p, d, s, y) ==
    /\ y \in Seq(S) /\ Len(y) = (Len(x) - d) + Len(s)
    /\ First(y, p) = First(x, p) /\ From(y, p + Len(s)) = From(x, p + d)

(* What is around the change stays, and what goes in is in its place.      *)
LEMMA SpliceParts ==
    ASSUME NEW S, NEW x \in Seq(S), NEW p \in Nat, NEW d \in Nat, p + d <= Len(x), NEW s \in Seq(S)
    PROVE  SplicedParts(S, x, p, d, s, Spliced(x, p, d, s))
<1> DEFINE a == First(x, p)
           f == From(x, p + d)
           y == (a \o s) \o f
           q == p + d
<1>1. Len(x) \in Nat /\ Len(s) \in Nat /\ p \in 0..Len(x) /\ q \in 0..Len(x)
  BY LenProperties
<1>2. a \in Seq(S) /\ Len(a) = p
  BY <1>1, Parts
<1>3. f \in Seq(S) /\ Len(f) = Len(x) - q
  BY <1>1, Parts
<1> HIDE DEF a, f
<1>4. /\ a \o s \in Seq(S) /\ Len(a \o s) = p + Len(s)
      /\ s \o f \in Seq(S)
  BY <1>2, <1>3, ConcatLength
<1>5. y \in Seq(S) /\ Len(y) = Len(a \o s) + Len(f)
  BY <1>3, <1>4, ConcatLength
<1>6. From(y, p + Len(s)) = f
  <2>1. From((a \o s) \o f, Len(a \o s)) = f
    BY <1>3, <1>4, PartsOfConcat
  <2> QED BY <1>4, <2>1, Zenon
<1>7. First(y, p) = a
  <2>1. First(a \o (s \o f), Len(a)) = a
    BY <1>2, <1>4, PartsOfConcat
  <2>2. ThreeInARow(a, s, f)
    BY <1>2, <1>3, Regroup
  <2> QED BY <1>2, <2>1, <2>2, Zenon DEF ThreeInARow
<1>8. Len(y) = (Len(x) - d) + Len(s)
  BY <1>1, <1>3, <1>4, <1>5
<1> QED BY <1>5, <1>6, <1>7, <1>8, Zenon DEF SplicedParts, Spliced, a, f

(* The parts, put together again.                                          *)
LEMMA PutBack ==
    ASSUME NEW S, NEW x \in Seq(S), NEW p \in Nat, NEW d \in Nat, p + d <= Len(x)
    PROVE  /\ Spliced(x, p, d, SubSeq(x, p + 1, p + d)) = x
           /\ SubSeq(x, p + 1, p + d) \in Seq(S) /\ Len(SubSeq(x, p + 1, p + d)) = d
<1> DEFINE q == p + d
           a == First(x, p)
           c == SubSeq(x, p + 1, q)
           f == From(x, q)
<1>1. Len(x) \in Nat /\ p \in 0..Len(x) /\ q \in 0..Len(x) /\ p \in 0..q
  BY LenProperties
<1>2. a \in Seq(S) /\ x = a \o From(x, p)
  BY <1>1, Parts
<1>3. f \in Seq(S)
  BY <1>1, Parts
<1>4. c \in Seq(S) /\ From(x, p) = c \o f
  BY <1>1, Middle
<1>5. Len(c) = d
  BY <1>1
<1> HIDE DEF a, c, f
<1>6. ThreeInARow(a, c, f)
  BY <1>2, <1>3, <1>4, Regroup
<1>7. (a \o c) \o f = x
  BY <1>2, <1>4, <1>6, Zenon DEF ThreeInARow
<1> QED BY <1>4, <1>5, <1>7, Zenon DEF Spliced, a, c, f

(* The record of a deletion, and of an insertion, brings the text back.    *)
LEMMA DeleteUndone ==
    ASSUME NEW S, NEW x \in Seq(S), NEW p \in Nat, NEW d \in Nat, p + d <= Len(x),
           NEW u, u.type = "delete", u.pos = p, u.text = SubSeq(x, p + 1, p + d)
    PROVE  Undone(Spliced(x, p, d, << >>), u) = x
<1> DEFINE y == Spliced(x, p, d, << >>)
           c == SubSeq(x, p + 1, p + d)
<1>1. << >> \in Seq(S) /\ Len(<< >>) = 0 /\ p + 0 = p
  BY EmptySeq
<1>2. SplicedParts(S, x, p, d, << >>, y)
  BY <1>1, SpliceParts
<1>3. First(y, p) = First(x, p) /\ From(y, p) = From(x, p + d)
  BY <1>1, <1>2, Zenon DEF SplicedParts
<1>4. Spliced(x, p, d, c) = x
  BY PutBack
<1> HIDE DEF y, c
<1>5. (First(y, p) \o c) \o From(y, p) = x
  BY <1>3, <1>4, Zenon DEF Spliced
<1> QED BY <1>5, Zenon DEF Undone, y, c

(* What was put in and is taken out again leaves the text as it was.       *)
LEMMA InsertUndone ==
    ASSUME NEW S, NEW x \in Seq(S), NEW p \in 0..Len(x), NEW s \in Seq(S),
           NEW u, u.type = "insert", u.pos = p, u.text = s
    PROVE  Undone(Spliced(x, p, 0, s), u) = x /\ Spliced(x, p, 0, << >>) = x
<1> DEFINE y == Spliced(x, p, 0, s)
<1>1. p \in Nat /\ 0 \in Nat /\ p + 0 <= Len(x) /\ p + 0 = p /\ Len(x) \in Nat
  BY LenProperties
<1>2. SplicedParts(S, x, p, 0, s, y)
  BY <1>1, SpliceParts
<1>3. First(y, p) = First(x, p) /\ From(y, p + Len(s)) = From(x, p + 0)
  BY <1>2, Zenon DEF SplicedParts
<1>4. Spliced(x, p, 0, << >>) = x
  <2>1. First(x, p) \in Seq(S) /\ From(x, p) \in Seq(S) /\ x = First(x, p) \o From(x, p)
    BY Parts
  <2>2. First(x, p) \o << >> = First(x, p)
    BY <2>1, ConcatEmptySeq
  <2> QED BY <1>1, <2>1, <2>2, Zenon DEF Spliced
<1> HIDE DEF y
<1>5. (First(y, p) \o << >>) \o From(y, p + Len(s)) = x
  BY <1>3, <1>4, Zenon DEF Spliced
<1>6. u.type # "delete"
  OBVIOUS
<1> QED BY <1>4, <1>5, <1>6, Zenon DEF Undone, y
-----------------------------------------------------------------------------
(* Changes of the window are changes of the document.                      *)

(* A change of the window is a Change of Document, if the text, the flag   *)
(* and the undo record after it are as they should.                        *)
LEMMA SpliceKept ==
    ASSUME DocInv, Ordinary, TypeOK', pc = "edit", NEW p, NEW d, NEW s, NEW c, Splice(p, d, s, c),
           text' \in Seq(TextOf(user)),
           modified' \/ ~ Moves(user) \/ (text' = text /\ (modified' <=> modified)),
           NotEmptied', CleanOK', UndoOK'
    PROVE  StepKept
<1>1. /\ disk' = disk /\ win_start' = win_start /\ tail_offset' = tail_offset
      /\ tail_file' = tail_file /\ filename' = filename /\ pc' = pc /\ user' = user
      /\ edits' = edits + 1
  BY DEF Splice
<1>2. TypeOK /\ PlaceOK /\ FilesOK /\ ViewOK /\ pc # "quit" /\ pc' # "quit"
  BY <1>1 DEF DocInv
<1>3. filename \in Names \ {Swap} /\ FileOf[filename] \in Ordinaries
  BY <1>2, OrdinaryNames DEF PlaceOK
<1>4. PICK h, m, r : At(TextOf(user), disk, text, win_start, tail_offset, tail_file,
                        modified \/ ~ Moves(user), h, m, r)
  BY <1>2, Zenon DEF ViewOK
<1>5. At(TextOf(user'), disk', text', win_start', tail_offset', tail_file',
         modified' \/ ~ Moves(user'), h, m, r)
  BY <1>1, <1>4, Zenon DEF At
<1>6. ViewOK'
  BY <1>5, Zenon DEF ViewOK
<1>7. Doc' \in Seq(Char)
  <2>1. TextOf(user) \subseteq Char /\ tail_offset' \in Nat
    BY TextOfType DEF TypeOK
  <2>2. PICK mod : mod = (modified' \/ ~ Moves(user'))
    OBVIOUS
  <2>3. At(TextOf(user), disk', text', win_start', tail_offset', tail_file', mod, h, m, r)
    BY <1>1, <1>5, <2>2, Zenon DEF At
  <2>4. ThreeParts(disk', text', win_start', tail_offset', tail_file', h, r)
    BY <2>1, <2>3, AtDoc
  <2>5. Doc' = (h \o text') \o r
    BY <1>2, <2>4, DocIsNext, Zenon DEF ThreeParts
  <2>6. h \in Seq(Char) /\ text' \in Seq(Char) /\ r \in Seq(Char)
    BY <2>1, <2>3, SeqMonotonic DEF At
  <2>7. h \o text' \in Seq(Char)
    BY <2>6, ConcatProperties
  <2>8. (h \o text') \o r \in Seq(Char)
    BY <2>6, <2>7, ConcatProperties
  <2> QED BY <2>5, <2>8, Zenon
<1>8. ~ Dirty' => Doc' = Decode(BytesIn(disk, filename))
  BY <1>1, <1>2, DocIsNext, Zenon DEF CleanOK, Held
<1>9. DocStep
  <2>1. Document!Change
    BY <1>1, <1>2, <1>3, <1>7, <1>8, DocumentChange
  <2> QED BY <2>1 DEF DocStep, Document!DocNext
<1>10. PlaceOK' /\ FilesOK'
  BY <1>1, <1>2, Zenon DEF PlaceOK, FilesOK
<1> QED BY <1>6, <1>9, <1>10, Zenon DEF StepKept, DocInv

(* What is known of the window before a change.                            *)
LEMMA WindowText ==
    ASSUME DocInv, pc # "quit"
    PROVE  /\ text \in Seq(TextOf(user)) /\ Len(text) \in Nat /\ Room \in Nat
           /\ TextOf(user) \subseteq Char
<1>1. text \in Seq(TextOf(user))
  BY Zenon DEF DocInv, ViewOK, At
<1> QED BY <1>1, RoomType, TextOfType DEF DocInv

(* d and dG change the document.                                           *)
LEMMA DeleteRangeKept == ASSUME DocInv, Ordinary, TypeOK', DeleteRange PROVE StepKept
<1> DEFINE T == TextOf(user)
<1>1. pc = "edit" /\ pc # "quit"
  BY DEF DeleteRange, Gets
<1>2. text \in Seq(T) /\ Len(text) \in Nat /\ Room \in Nat
  BY <1>1, WindowText
<1> HIDE DEF T
<1>3. PICK p \in 0..(Len(text) - 1) : \E d \in 1..(Len(text) - p) :
        /\ d <= Users[user].deletes
        /\ Gets(IF d < Len(text) THEN "d" ELSE "dG")
        /\ Splice(p, d, << >>, TRUE)
        /\ Recorded([type |-> "delete", pos |-> p, was_clean |-> ~modified,
                     text |-> First(SubSeq(text, p + 1, p + d), UndoMax)])
  BY DEF DeleteRange
<1>4. PICK d \in 1..(Len(text) - p) :
        /\ d <= Users[user].deletes
        /\ Gets(IF d < Len(text) THEN "d" ELSE "dG")
        /\ Splice(p, d, << >>, TRUE)
        /\ Recorded([type |-> "delete", pos |-> p, was_clean |-> ~modified,
                     text |-> First(SubSeq(text, p + 1, p + d), UndoMax)])
  BY <1>3
<1>5. p \in Nat /\ d \in Nat /\ d > 0 /\ p + d <= Len(text)
  BY <1>2
<1> DEFINE c == SubSeq(text, p + 1, p + d)
           u == [type |-> "delete", pos |-> p, was_clean |-> ~modified, text |-> c]
           y == Spliced(text, p, d, << >>)
<1>6. /\ text' = y /\ modified' = TRUE /\ disk' = disk /\ win_start' = win_start
      /\ tail_offset' = tail_offset /\ tail_file' = tail_file /\ filename' = filename
      /\ user' = user
  BY <1>4 DEF Splice, Spliced
<1>7. "u" \in Users[user].keys => undo' = u
  <2> SUFFICES ASSUME "u" \in Users[user].keys PROVE undo' = u
    OBVIOUS
  <2>1. undo' = [type |-> "delete", pos |-> p, was_clean |-> ~modified,
                 text |-> First(c, UndoMax)]
    BY <1>4 DEF Recorded
  <2>2. Users[user].deletes <= UndoMax /\ Users[user].deletes \in Nat
    <3>1. user \in DOMAIN Users
      BY DEF DocInv, TypeOK
    <3> QED BY <3>1, InputAssumption DEF Ordinary
  <2>3. d <= Users[user].deletes
    BY <1>4
  <2>4. c \in Seq(T) /\ Len(c) = d
    BY <1>2, <1>5
  <2>5. Len(c) <= UndoMax
    BY <1>5, <2>2, <2>3, <2>4, SizesAssumption
  <2>6. First(c, UndoMax) = c
    BY <2>4, <2>5, FirstOrAll, SizesAssumption
  <2> QED BY <2>1, <2>6
<1>8. "dG" \in Users[user].keys \/ d < Len(text)
  BY <1>4 DEF Gets
<1>9. u.type = "delete" /\ u.pos = p /\ u.text = c /\ (u.was_clean <=> ~ modified)
  OBVIOUS
<1> HIDE DEF u
<1>10. << >> \in Seq(T) /\ Len(<< >>) = 0
  OBVIOUS
<1>11. SplicedParts(T, text, p, d, << >>, y)
  BY <1>2, <1>5, <1>10, SpliceParts
<1>12. Undone(y, u) = text
  BY <1>2, <1>5, <1>9, DeleteUndone
<1>13. Len(c) = d
  BY <1>2, <1>5, PutBack
<1> HIDE DEF c, y
<1>14. y \in Seq(T) /\ Len(y) = Len(text) - d
  <2>1. y \in Seq(T) /\ Len(y) = (Len(text) - d) + Len(<< >>)
    BY <1>11, Zenon DEF SplicedParts
  <2> QED BY <1>2, <1>5, <1>10, <2>1
<1>15. CleanOK'
  BY <1>6, Zenon DEF CleanOK, Dirty
<1>16. NotEmptied'
  <2> SUFFICES ASSUME Moves(user) PROVE text' # << >>
    BY <1>6, Zenon DEF NotEmptied
  <2>1. user \in DOMAIN Users
    BY DEF DocInv, TypeOK
  <2>2. d < Len(text)
    BY <1>8, <2>1, Zenon DEF Ordinary
  <2>3. Len(y) > 0
    BY <1>2, <1>5, <1>14, <2>2
  <2>4. y # << >>
    BY <1>14, <2>3
  <2> QED BY <1>6, <2>4, Zenon
<1>17. UndoOK'
  <2> SUFFICES ASSUME "u" \in Users[user].keys
               PROVE  /\ Len(undo'.text) <= Room'
                      /\ undo'.was_clean /\ tail_file' # Swap =>
                           DocOf(disk', Undone(text', undo'), win_start', tail_offset', tail_file')
                             = Held'
    BY <1>6, Zenon DEF UndoOK
  <2>1. undo' = u
    BY <1>7, Zenon
  <2>2. undo'.text = c
    BY <1>9, <2>1, Zenon
  <2>3. Room' = Room + d
    <3>1. Len(text') = Len(text) - d
      BY <1>6, <1>14, Zenon
    <3> QED BY <1>2, <1>5, <3>1, SizesAssumption DEF Room
  <2>4. Len(undo'.text) <= Room'
    BY <1>2, <1>5, <1>13, <2>2, <2>3
  <2>5. undo'.was_clean /\ tail_file' # Swap =>
          DocOf(disk', Undone(text', undo'), win_start', tail_offset', tail_file') = Held'
    <3>1. undo'.was_clean /\ tail_file' # Swap => ~ Dirty
      BY <1>6, <1>9, <2>1, Zenon DEF Dirty
    <3>2. CleanOK
      BY <1>1, Zenon DEF DocInv
    <3>3. Held' = Held
      BY <1>6, Zenon DEF Held
    <3> QED BY <1>6, <1>12, <2>1, <3>1, <3>2, <3>3, Zenon DEF CleanOK
  <2> QED BY <2>4, <2>5
<1>18. text' \in Seq(TextOf(user))
  BY <1>6, <1>14, Zenon DEF T
<1>19. Splice(p, d, << >>, TRUE)
  BY <1>4
<1>20. modified'
  BY <1>6
<1> QED BY <1>1, <1>15, <1>16, <1>17, <1>18, <1>19, <1>20, SpliceKept

(* Text that is put in does not leave the window empty.                    *)
LEMMA StillNotEmptied ==
    ASSUME DocInv, pc # "quit", NEW p \in 0..Len(text), NEW s \in Seq(TextOf(user)),
           text' = Spliced(text, p, 0, s), UNCHANGED <<win_start, tail_offset, user>>
    PROVE  NotEmptied' /\ text' \in Seq(TextOf(user))
<1> DEFINE T == TextOf(user)
<1>1. text \in Seq(T) /\ Len(text) \in Nat
  BY WindowText
<1> HIDE DEF T
<1>2. s \in Seq(T) /\ Len(s) \in Nat
  <2>1. s \in Seq(T)
    BY DEF T
  <2> QED BY <2>1
<1>3. p \in Nat /\ 0 \in Nat /\ p + 0 <= Len(text)
  BY <1>1
<1>4. SplicedParts(T, text, p, 0, s, text')
  BY <1>1, <1>2, <1>3, SpliceParts
<1>5. text' \in Seq(T) /\ Len(text') = (Len(text) - 0) + Len(s)
  BY <1>4, Zenon DEF SplicedParts
<1>6. text # << >> => text' # << >>
  <2> SUFFICES ASSUME text # << >>, text' = << >> PROVE FALSE
    OBVIOUS
  <2>1. Len(text') = 0
    OBVIOUS
  <2>2. Len(text) = 0
    BY <1>1, <1>2, <1>5, <2>1
  <2> QED BY <1>1, <2>2, EmptySeq
<1>7. NotEmptied
  BY Zenon DEF DocInv
<1> QED BY <1>5, <1>6, <1>7, Zenon DEF NotEmptied, T

(* i, typing and ESC change the document, or nothing was typed.            *)
LEMMA InsertTextKept == ASSUME DocInv, Ordinary, TypeOK', InsertText PROVE StepKept
<1> DEFINE T == TextOf(user)
<1>1. pc = "edit" /\ pc # "quit"
  BY DEF InsertText, Gets
<1>2. text \in Seq(T) /\ Len(text) \in Nat /\ Room \in Nat /\ user \in DOMAIN Users
  BY <1>1, WindowText DEF DocInv, TypeOK
<1> HIDE DEF T
<1>3. PICK c \in Cursors, typed \in Users[user].typed :
        /\ Splice(c, 0, First(typed, Room), modified \/ First(typed, Room) # << >>)
        /\ Recorded([type |-> "insert", pos |-> c, text |-> First(typed, Room),
                     was_clean |-> ~modified])
  BY DEF InsertText
<1> DEFINE s == First(typed, Room)
           u == [type |-> "insert", pos |-> c, text |-> s, was_clean |-> ~modified]
           y == Spliced(text, c, 0, s)
<1>4. c \in 0..Len(text)
  BY <1>2 DEF Cursors
<1>5. s \in Seq(T)
  <2>1. typed \in Seq(T)
    BY <1>2, Zenon DEF Ordinary, T
  <2> QED BY <1>2, <2>1, FirstOrAll
<1>6. /\ Splice(c, 0, s, modified \/ s # << >>)
      /\ undo' = IF "u" \in Users[user].keys THEN u ELSE undo
  BY <1>3 DEF Recorded
<1> HIDE DEF s
<1>7. /\ text' = y /\ (modified' <=> modified \/ s # << >>) /\ disk' = disk
      /\ win_start' = win_start /\ tail_offset' = tail_offset /\ tail_file' = tail_file
      /\ filename' = filename /\ user' = user
  BY <1>6 DEF Splice, Spliced
<1>8. u.type = "insert" /\ u.pos = c /\ u.text = s /\ (u.was_clean <=> ~ modified)
  OBVIOUS
<1> HIDE DEF u
<1>9. Undone(y, u) = text /\ Spliced(text, c, 0, << >>) = text
  BY <1>2, <1>4, <1>5, <1>8, InsertUndone
<1> HIDE DEF y
<1>10. NotEmptied' /\ text' \in Seq(TextOf(user))
  <2>1. text' = Spliced(text, c, 0, s) /\ s \in Seq(TextOf(user))
    BY <1>5, <1>7, Zenon DEF y, T
  <2>2. UNCHANGED <<win_start, tail_offset, user>>
    BY <1>7
  <2> QED BY <1>1, <1>4, <2>1, <2>2, StillNotEmptied
<1>11. s = << >> => text' = text
  BY <1>7, <1>9, Zenon DEF y
<1>12. CleanOK /\ Held' = Held
  BY <1>1, <1>7, Zenon DEF DocInv, Held
<1>13. CleanOK'
  BY <1>7, <1>11, <1>12, Zenon DEF CleanOK, Dirty
<1>14. UndoOK'
  <2> SUFFICES ASSUME "u" \in Users[user].keys
               PROVE  /\ undo'.type # "delete"
                      /\ undo'.was_clean /\ tail_file' # Swap =>
                           DocOf(disk', Undone(text', undo'), win_start', tail_offset', tail_file')
                             = Held'
    BY <1>7, Zenon DEF UndoOK
  <2>1. undo' = u
    BY <1>6, Zenon
  <2>2. undo'.type # "delete"
    <3>1. undo'.type = "insert"
      BY <1>8, <2>1, Zenon
    <3> QED BY <3>1
  <2>3. undo'.was_clean /\ tail_file' # Swap => ~ Dirty
    BY <1>7, <1>8, <2>1, Zenon DEF Dirty
  <2> QED BY <1>7, <1>9, <1>12, <2>1, <2>2, <2>3, Zenon DEF CleanOK
<1>15. modified' \/ ~ Moves(user) \/ (text' = text /\ (modified' <=> modified))
  BY <1>7, <1>11, Zenon
<1>16. PICK m : m = (modified \/ s # << >>)
  OBVIOUS
<1>17. Splice(c, 0, s, m)
  BY <1>6, <1>16
<1> QED BY <1>1, <1>10, <1>13, <1>14, <1>15, <1>17, SpliceKept

(* :r changes the document.                                                *)
LEMMA ReadFileKept ==
    ASSUME DocInv, Ordinary, TypeOK', NEW n \in Users[user].names, ReadFile(n) PROVE StepKept
<1> DEFINE s == First(Decode(disk[FileOf[n]]), Room)
           T == TextOf(user)
<1>1. pc = "edit" /\ pc # "quit" /\ ":r" \in Users[user].keys /\ disk[FileOf[n]] # NoFile
      /\ undo' = undo
  BY DEF ReadFile, Gets
<1>2. text \in Seq(T) /\ Len(text) \in Nat /\ Room \in Nat /\ user \in DOMAIN Users
      /\ text \in Seq(Char)
  BY <1>1, WindowText, RoomType DEF DocInv, TypeOK
<1> HIDE DEF T
<1>3. s \in Seq(T)
  <2>1. n \in Names \ {Swap}
    BY <1>2, InputAssumption
  <2>2. WellFormed(T, disk[FileOf[n]])
    <3>1. FilesOK
      BY DEF DocInv
    <3> QED BY <1>1, <2>1, <3>1, FileKnown DEF T
  <2>3. Decode(disk[FileOf[n]]) \in Seq(T)
    BY <2>2 DEF WellFormed
  <2> QED BY <1>2, <2>3, FirstOrAll
<1> HIDE DEF s
<1>4. PICK c \in Cursors : Splice(LineEnd(text, c), 0, s, TRUE)
  BY DEF ReadFile, s
<1> DEFINE p == LineEnd(text, c)
<1>5. p \in 0..Len(text)
  BY <1>2, LineEndType DEF Cursors
<1> HIDE DEF p
<1>6. Splice(p, 0, s, TRUE)
  BY <1>4 DEF p
<1>7. /\ text' = Spliced(text, p, 0, s) /\ modified' /\ UNCHANGED <<win_start, tail_offset, user>>
      /\ user' = user
  BY <1>6 DEF Splice, Spliced
<1>8. NotEmptied' /\ text' \in Seq(TextOf(user))
  <2>1. s \in Seq(TextOf(user))
    BY <1>3 DEF T
  <2> QED BY <1>1, <1>5, <1>7, <2>1, StillNotEmptied
<1>9. CleanOK'
  BY <1>7, Zenon DEF CleanOK, Dirty
<1>10. UndoOK'
  BY <1>1, <1>2, <1>7, Zenon DEF UndoOK, Ordinary
<1> QED BY <1>1, <1>6, <1>7, <1>8, <1>9, <1>10, SpliceKept

(* u makes of the window what the record says.                             *)
LEMMA UndoneKept ==
    ASSUME DocInv, Ordinary, TypeOK', pc = "edit", "u" \in Users[user].keys,
           undo.type # "none", undo' = [undo EXCEPT !.type = "none"],
           NEW p, NEW d, NEW s, Splice(p, d, s, ~ undo.was_clean),
           text' = Undone(text, undo)
    PROVE  StepKept
<1>1. user \in DOMAIN Users /\ undo \in UndoRecords /\ UndoOK
  BY DEF DocInv, TypeOK
<1>2. ~ Moves(user)
  BY <1>1, Zenon DEF Ordinary
<1>3. /\ disk' = disk /\ win_start' = win_start /\ tail_offset' = tail_offset
      /\ tail_file' = tail_file /\ filename' = filename /\ user' = user
      /\ modified' = ~ undo.was_clean
  BY DEF Splice
<1>4. text' \in Seq(TextOf(user))
  <2>1. TextOf(user) = Char
    BY <1>2 DEF Moves, Moving, Paging, TextOf
  <2> QED BY <2>1 DEF TypeOK
<1>5. NotEmptied'
  BY <1>2, <1>3, Zenon DEF NotEmptied
<1>6. CleanOK'
  <2>1. ~ Dirty' => undo.was_clean /\ tail_file # Swap
    BY <1>3, Zenon DEF Dirty
  <2>2. undo.was_clean /\ tail_file # Swap =>
          DocOf(disk, Undone(text, undo), win_start, tail_offset, tail_file) = Held
    BY <1>1, Zenon DEF UndoOK
  <2>3. Held' = Held
    BY <1>3, Zenon DEF Held
  <2> QED BY <1>3, <2>1, <2>2, <2>3, Zenon DEF CleanOK
<1>7. UndoOK'
  <2>1. undo'.type = "none"
    BY <1>1 DEF UndoRecords
  <2> QED BY <2>1, Zenon DEF UndoOK
<1>8. PICK m : m = (~ undo.was_clean)
  OBVIOUS
<1>9. Splice(p, d, s, m)
  BY <1>8
<1> QED BY <1>2, <1>4, <1>5, <1>6, <1>7, <1>9, SpliceKept

(* u changes the document; where the record was made of a clean one, the   *)
(* document is what the file has.                                          *)
LEMMA UndoKept == ASSUME DocInv, Ordinary, TypeOK', Undo PROVE StepKept
<1> DEFINE x == undo.text
           p == undo.pos
<1>1. /\ pc = "edit" /\ pc # "quit" /\ "u" \in Users[user].keys /\ undo.type # "none"
      /\ undo' = [undo EXCEPT !.type = "none"]
  BY DEF Undo, Gets
<1>2. undo \in UndoRecords /\ UndoOK /\ TypeOK
  BY <1>1 DEF DocInv, TypeOK
<1>3. text \in Seq(Char) /\ Len(text) \in Nat /\ Room \in Nat
  BY <1>2, RoomType
<1>4. x \in Seq(Char) /\ p \in Nat
  BY <1>2 DEF UndoRecords
<1>5. CASE undo.type = "delete"
  <2>1. Splice(p, 0, First(x, Room), ~ undo.was_clean) /\ p <= Len(text)
    BY <1>5 DEF Undo
  <2>2. Len(x) <= Room
    BY <1>1, <1>2, <1>5, Zenon DEF UndoOK
  <2> HIDE DEF x, p
  <2>3. First(x, Room) = x
    BY <1>3, <1>4, <2>2, FirstOrAll
  <2>4. Splice(p, 0, x, ~ undo.was_clean)
    BY <2>1, <2>3, Zenon
  <2>5. p + 0 = p
    BY <1>4
  <2>6. text' = Undone(text, undo)
    <3>1. text' = (First(text, p) \o x) \o From(text, p + 0)
      BY <2>4 DEF Splice
    <3> QED BY <1>5, <2>5, <3>1, Zenon DEF Undone, x, p
  <2> QED BY <1>1, <2>4, <2>6, UndoneKept
<1>6. CASE undo.type # "delete"
  <2>1. Splice(p, Len(x), << >>, ~ undo.was_clean)
    BY <1>6 DEF Undo
  <2>2. text' = Undone(text, undo)
    BY <1>6, <2>1, Zenon DEF Splice, Undone
  <2> QED BY <1>1, <2>1, <2>2, UndoneKept
<1> QED BY <1>5, <1>6

(* Every step keeps the invariant and is a step of the document.           *)
LEMMA NextKept == ASSUME DocInv, Ordinary, [Next]_vars PROVE StepKept
<1>1. TypeOK'
  BY NextTypes DEF DocInv
<1>2. CASE DeleteRange
  BY <1>1, <1>2, DeleteRangeKept
<1>3. CASE InsertText
  BY <1>1, <1>3, InsertTextKept
<1>4. CASE Undo
  BY <1>1, <1>4, UndoKept
<1>5. CASE PageForward
  BY <1>1, <1>5, PageForwardMoves, PagingKept
<1>6. CASE PageBack
  BY <1>1, <1>6, PageBackMoves, PagingKept
<1>7. CASE GotoLine
  BY <1>1, <1>7, GotoLineMoves, PagingKept
<1>8. CASE SeekOn
  BY <1>1, <1>8, SeekOnMoves, PagingKept
<1>9. CASE SeekEnd \/ SeekLand \/ UNCHANGED vars
  BY <1>1, <1>9, WaitingKept
<1>10. ASSUME NEW n \in Users[user].names, ReadFile(n) PROVE StepKept
  BY <1>1, <1>10, ReadFileKept
<1>11. ASSUME NEW n \in Users[user].names, NEW b \in BOOLEAN, Write(n, b) PROVE StepKept
  BY <1>1, <1>11, WriteKept
<1>12. ASSUME NEW n \in Users[user].names, NEW b \in BOOLEAN, Edit(n, b) PROVE StepKept
  BY <1>1, <1>12, EditKept
<1>13. ASSUME NEW b \in BOOLEAN, Quit(b) PROVE StepKept
  BY <1>1, <1>13, QuitKept
<1> QED BY <1>2, <1>3, <1>4, <1>5, <1>6, <1>7, <1>8, <1>9, <1>10, <1>11, <1>12, <1>13
     DEF Next, Seeking

(* The whole machinery of windows, offsets and swap file implements the    *)
(* one document of Document, for a user of whom Ordinary is true.          *)
THEOREM WindowImplementsDocument == Ordinary => (Spec => ImplementsDocument)
<1> SUFFICES ASSUME Ordinary PROVE Spec => ImplementsDocument
  OBVIOUS
<1>1. Init => DocInv /\ Document!DocInit
  BY InitKept
<1>2. DocInv /\ [Next]_vars => DocInv' /\ [Document!DocNext]_(Document!docVars)
  BY NextKept DEF StepKept, DocStep
<1> QED BY <1>1, <1>2, PTL DEF Spec, ImplementsDocument, Document!DocSpec

(* Nothing is lost unasked: whenever ":q" or ":e" would give the document   *)
(* up without a "!", the file of its name holds all of it, the parts        *)
(* outside the window included (ex.c:138-142, ex.c:195-199).                *)
THEOREM NothingLostUnasked == Ordinary => (Spec => []Document!CleanMeansSaved)
<1> SUFFICES ASSUME Ordinary PROVE Spec => []Document!CleanMeansSaved
  OBVIOUS
<1>1. Init => DocInv
  BY InitKept
<1>2. DocInv /\ [Next]_vars => DocInv'
  BY NextKept DEF StepKept
<1>3. DocInv => Document!CleanMeansSaved
  <2> SUFFICES ASSUME DocInv, pc # "quit", ~ Dirty
               PROVE  Doc = Document!Contents([n \in Names \ {Swap} |-> FileOf[n]][filename])
    <3> HIDE DEF Doc, Dirty
    <3> QED BY DEF Document!CleanMeansSaved, Document!OnDisk
  <2>1. filename \in Names \ {Swap} /\ disk \in Disks
    BY Zenon DEF DocInv, PlaceOK, TypeOK, Disks, Byte
  <2>2. FileOf[filename] \in Ordinaries
    BY <2>1, OrdinaryNames
  <2>3. Document!Contents(FileOf[filename]) = Held
    BY <2>1, <2>2, DocumentContents DEF Held
  <2>4. Doc = Held
    BY DocIs, Zenon DEF DocInv, CleanOK
  <2> QED BY <2>1, <2>3, <2>4
<1> QED BY <1>1, <1>2, <1>3, PTL DEF Spec
-----------------------------------------------------------------------------
(* Line numbers.                                                           *)

\* Who opens new files does not page: :e of a new file leaves the number of
\* lines before the window as it was.
PagesOrOpensNew == \A u \in DOMAIN Users : ":e new" \in Users[u].keys => ~ Pages(u)

LineInv ==
    /\ DocInv
    /\ pc # "quit" => win_line_offset = Lines(Decode(HeadOf(disk, tail_file, win_start)))
    /\ ~ Pages(user) => win_start = 0

\* What is to be shown of a step.
LinesKept ==
    /\ pc' # "quit" => win_line_offset' = Lines(Decode(HeadOf(disk', tail_file', win_start')))
    /\ ~ Pages(user') => win_start' = 0

(* What is before the window.                                              *)
LEMMA BeforeIs == Before = Decode(HeadOf(disk, tail_file, win_start))
BY Zenon DEF Before, HeadIn, HeadOf

\* Nothing is before a window that begins the file.
LEMMA NoHead == ASSUME NEW d, NEW tf PROVE Lines(Decode(HeadOf(d, tf, 0))) = 0
<1>1. HeadOf(d, tf, 0) = << >>
  BY DEF HeadOf
<1> QED BY <1>1, DecodeEmpty, LinesEmpty

(* Moving the window adds to the count the line ends it drops.             *)
LEMMA PagingLines == ASSUME LineInv, TypeOK', PagedStep PROVE LinesKept
<1>1. PICK h, m, r :
        /\ At(TextOf(user), disk, text, win_start, tail_offset, tail_file, modified, h, m, r)
        /\ Moved(TextOf(user), h, r)
  BY DEF PagedStep
<1>2. pc # "quit" /\ Pages(user) /\ user' = user /\ TypeOK
  BY DEF PagedStep, LineInv, DocInv
<1>3. PICK h2, m2, r2 :
        /\ At(TextOf(user), disk', text', win_start', tail_offset', tail_file', modified', h2, m2, r2)
        /\ win_line_offset = Lines(h) => win_line_offset' = Lines(h2)
  BY <1>1, Zenon DEF Moved, SameAround
<1>4. TextOf(user) \subseteq Char /\ tail_offset \in Nat /\ tail_offset' \in Nat
  BY <1>2, TextOfType DEF TypeOK
<1>5. ThreeParts(disk, text, win_start, tail_offset, tail_file, h, r)
  BY <1>1, <1>4, AtDoc
<1>6. ThreeParts(disk', text', win_start', tail_offset', tail_file', h2, r2)
  BY <1>3, <1>4, AtDoc
<1> QED BY <1>2, <1>3, <1>5, <1>6, Zenon DEF LineInv, ThreeParts, LinesKept

(* A window that stays has the same lines before it.                       *)
LEMMA UnmovedLines ==
    ASSUME LineInv, UNCHANGED <<disk, win_start, tail_file, win_line_offset, pc, user>>
    PROVE  LinesKept
BY Zenon DEF LineInv, LinesKept

(* The steps of G that read nothing leave the window where it is.          *)
LEMMA WaitingLines ==
    ASSUME LineInv, SeekEnd \/ SeekLand
    PROVE  LinesKept
<1>1. pc # "quit" /\ UNCHANGED <<disk, win_start, tail_file, win_line_offset, user>>
  BY DEF SeekEnd, SeekLand, Gets, window
<1> QED BY <1>1, Zenon DEF LineInv, LinesKept

(* save_file does not change what is before the window.                    *)
LEMMA WriteLines ==
    ASSUME LineInv, Ordinary, NEW n \in Users[user].names, NEW quits \in BOOLEAN,
           Write(n, quits)
    PROVE  LinesKept
<1> DEFINE s == Saved(n)
           T == TextOf(user)
<1>1. /\ disk' = IF quits THEN WithoutSwap(s.disk) ELSE s.disk
      /\ tail_file' = s.file /\ pc' = IF quits THEN "quit" ELSE "edit"
      /\ win_start' = win_start /\ user' = user /\ win_line_offset' = win_line_offset
      /\ pc = "edit" /\ ":w" \in Users[user].keys
  BY DEF Write, Gets
<1>2. DocInv /\ TypeOK /\ user \in DOMAIN Users /\ pc # "quit" /\ (pc' # "quit" => ~ quits)
  BY <1>1 DEF LineInv, DocInv, TypeOK
<1>3. Moves(user)
  BY <1>1 DEF Moves, Moving, Paging
<1>4. n \in Names
  BY <1>2, InputAssumption
<1>5. PICK h, m, r : At(T, disk, text, win_start, tail_offset, tail_file, modified, h, m, r)
  BY <1>2, <1>3, MoverView
<1>6. T \subseteq Char /\ (win_start = 0 /\ tail_offset > 0 => text # << >>)
      /\ tail_offset \in Nat
  BY <1>2, <1>3, TextOfType, MoverView DEF TypeOK
<1> HIDE DEF s, T
<1>7. SavedAs(T, s, n, h, r)
  BY <1>2, <1>4, <1>5, <1>6, SavedAt DEF s
<1>8. ThreeParts(disk, text, win_start, tail_offset, tail_file, h, r)
  BY <1>5, <1>6, AtDoc
<1>9. ThreeParts(s.disk, text, win_start, s.tail, s.file, h, r)
  <2>1. At(T, s.disk, text, win_start, s.tail, s.file, FALSE, h, text, r) /\ s.tail \in Nat
    BY <1>7 DEF SavedAs
  <2> QED BY <1>6, <2>1, AtDoc
<1>10. pc' # "quit" => win_line_offset' = Lines(Decode(HeadOf(disk', tail_file', win_start')))
  BY <1>1, <1>2, <1>8, <1>9, Zenon DEF LineInv, ThreeParts
<1> QED BY <1>1, <1>10, Zenon DEF LineInv, LinesKept

(* A file that is opened is shown from its beginning.                      *)
LEMMA EditLines ==
    ASSUME LineInv, PagesOrOpensNew, NEW n \in Users[user].names, NEW force \in BOOLEAN,
           Edit(n, force)
    PROVE  LinesKept
<1>1. /\ win_start' = 0 /\ user' = user /\ pc = "edit"
      /\ win_line_offset' = IF disk[FileOf[n]] = NoFile THEN win_line_offset ELSE 0
      /\ disk[FileOf[n]] = NoFile => ":e new" \in Users[user].keys
  BY DEF Edit, Gets
<1>2. user \in DOMAIN Users /\ pc # "quit"
  BY <1>1 DEF LineInv, DocInv, TypeOK
<1>3. Lines(Decode(HeadOf(disk', tail_file', win_start'))) = 0
  <2>1. Lines(Decode(HeadOf(disk', tail_file', 0))) = 0
    BY NoHead
  <2> QED BY <1>1, <2>1, Zenon
<1>4. win_line_offset' = 0
  <2>1. CASE disk[FileOf[n]] = NoFile
    <3>1. win_start = 0
      BY <1>1, <1>2, <2>1, Zenon DEF PagesOrOpensNew, LineInv
    <3>2. Lines(Decode(HeadOf(disk, tail_file, 0))) = 0
      BY NoHead
    <3> QED BY <1>1, <1>2, <2>1, <3>1, <3>2, Zenon DEF LineInv
  <2>2. CASE disk[FileOf[n]] # NoFile
    BY <1>1, <2>2, Zenon
  <2> QED BY <2>1, <2>2
<1> QED BY <1>1, <1>3, <1>4, Zenon DEF LinesKept

(* A change of the text leaves the window where it is.                     *)
LEMMA SpliceLines ==
    ASSUME LineInv, DeleteRange \/ InsertText \/ Undo \/ \E n \in Users[user].names : ReadFile(n)
    PROVE  UNCHANGED <<disk, win_start, tail_file, win_line_offset, pc, user>>
BY DEF DeleteRange, InsertText, Undo, ReadFile, Splice

(* Every step keeps the count.                                             *)
LEMMA NextLines == ASSUME LineInv, Ordinary, PagesOrOpensNew, [Next]_vars PROVE LineInv'
<1>1. DocInv' /\ TypeOK'
  BY NextKept DEF LineInv, StepKept, DocInv
<1> SUFFICES LinesKept
  BY <1>1, Zenon DEF LineInv, LinesKept
<1>2. CASE DeleteRange \/ InsertText \/ Undo \/ \E n \in Users[user].names : ReadFile(n)
  BY <1>2, SpliceLines, UnmovedLines
<1>3. CASE PageForward \/ PageBack \/ GotoLine \/ SeekOn
  <2>1. PagedStep
    BY <1>3, PageForwardMoves, PageBackMoves, GotoLineMoves, SeekOnMoves DEF LineInv
  <2> QED BY <1>1, <2>1, PagingLines
<1>4. CASE SeekEnd \/ SeekLand
  BY <1>4, WaitingLines
<1>5. CASE UNCHANGED vars
  BY <1>5, UnmovedLines DEF vars, window
<1>6. ASSUME NEW n \in Users[user].names, NEW b \in BOOLEAN, Write(n, b) PROVE LinesKept
  BY <1>6, WriteLines
<1>7. ASSUME NEW n \in Users[user].names, NEW b \in BOOLEAN, Edit(n, b) PROVE LinesKept
  BY <1>7, EditLines
<1>8. ASSUME NEW b \in BOOLEAN, Quit(b) PROVE LinesKept
  BY <1>8, Zenon DEF Quit, window, LineInv, LinesKept
<1> QED BY <1>2, <1>3, <1>4, <1>5, <1>6, <1>7, <1>8 DEF Next, Seeking

(* The first window begins the file.                                       *)
LEMMA InitLines == ASSUME Init, Ordinary PROVE LineInv
<1>1. win_start = 0 /\ win_line_offset = 0
  BY DEF Init
<1>2. Lines(Decode(HeadOf(disk, tail_file, 0))) = 0
  BY NoHead
<1>3. DocInv
  BY InitKept
<1> QED BY <1>1, <1>2, <1>3, Zenon DEF LineInv

(* The status line's numbers are those of the document.                    *)
THEOREM LinesAnchoredAlways == Ordinary /\ PagesOrOpensNew => (Spec => []LinesAnchored)
<1> SUFFICES ASSUME Ordinary, PagesOrOpensNew PROVE Spec => []LinesAnchored
  OBVIOUS
<1>1. Init => LineInv
  BY InitLines
<1>2. LineInv /\ [Next]_vars => LineInv'
  BY NextLines
<1>3. LineInv => LinesAnchored
  BY BeforeIs, Zenon DEF LineInv, LinesAnchored
<1> QED BY <1>1, <1>2, <1>3, PTL DEF Spec
=============================================================================
