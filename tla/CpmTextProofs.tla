--------------------------- MODULE CpmTextProofs ----------------------------
(***************************************************************************)
(* What reading and writing do to a text, for every text.  Both are        *)
(* recursive, so the facts go by induction on sequences; the induction     *)
(* principles are stated for a set, which is what the provers can be       *)
(* given, and follow from the well-foundedness of < on Nat.                *)
(***************************************************************************)
EXTENDS CpmText, SequenceTheorems, WellFoundedInduction, TLAPS

(* A set of naturals that is not empty has a least element.                *)
LEMMA Least ==
    ASSUME NEW T, T \subseteq Nat, T # {}
    PROVE  \E m \in T : \A k \in T : m <= k
<1>1. IsWellFoundedOn(OpToRel(<, Nat), Nat)
  BY NatLessThanWellFounded
<1>2. \E x \in T : \A y \in T : ~ (<<y, x>> \in OpToRel(<, Nat))
  BY <1>1, WFMin
<1>3. \A x \in Nat, y \in Nat : y < x => <<y, x>> \in OpToRel(<, Nat)
  BY DEF OpToRel
<1>4. \E x \in T : \A y \in T : ~ (y < x)
  BY <1>2, <1>3
<1>5. \A x, y \in T : ~ (y < x) => x <= y
  OBVIOUS
<1> QED BY <1>4, <1>5

(* Induction: a set that has 0, and with n also n + 1, has every natural.  *)
LEMMA Induction ==
    ASSUME NEW S, 0 \in S, \A n \in Nat : n \in S => n + 1 \in S
    PROVE  Nat \subseteq S
<1> SUFFICES ASSUME ~ Nat \subseteq S PROVE FALSE
  OBVIOUS
<1> DEFINE T == Nat \ S
<1>1. PICK m \in T : \A k \in T : m <= k
  <2>1. T \subseteq Nat /\ T # {}
    OBVIOUS
  <2> HIDE DEF T
  <2> QED BY <2>1, Least
<1>2. m # 0 /\ m \in Nat
  OBVIOUS
<1>3. m - 1 \in S
  BY <1>1, <1>2
<1> QED BY <1>1, <1>2, <1>3

(* Induction on sequences: a set that has << >>, and with a sequence also  *)
(* what one element more makes of it, has every sequence.                  *)
LEMMA SeqInduction ==
    ASSUME NEW S, NEW P, << >> \in P,
           \A s \in Seq(S), c \in S : s \in P => Append(s, c) \in P
    PROVE  Seq(S) \subseteq P
<1> DEFINE N == {n \in Nat : \A s \in Seq(S) : Len(s) = n => s \in P}
<1>1. 0 \in N
  <2>1. \A s \in Seq(S) : Len(s) = 0 => s = << >>
    BY EmptySeq
  <2> QED BY <2>1
<1>2. ASSUME NEW n \in Nat, n \in N PROVE n + 1 \in N
  <2> SUFFICES ASSUME NEW s \in Seq(S), Len(s) = n + 1 PROVE s \in P
    OBVIOUS
  <2>1. s # << >>
    BY <1>2
  <2>2. PICK r \in Seq(S), c \in S : s = Append(r, c)
    BY <2>1, SequenceEmptyOrAppend
  <2>3. Len(r) = n
    BY <2>2, LenProperties
  <2>4. r \in P
    BY <2>3, <1>2
  <2> QED BY <2>2, <2>4
<1>3. Nat \subseteq N
  <2> HIDE DEF N
  <2> QED BY <1>1, <1>2, Induction
<1> QED BY <1>3, LenProperties

(* What is appended to the second of two sequences is appended to both.    *)
LEMMA ConcatAppend ==
    ASSUME NEW S, NEW a \in Seq(S), NEW b \in Seq(S), NEW c \in S
    PROVE  a \o Append(b, c) = Append(a \o b, c)
<1>1. <<c>> \in Seq(S)
  OBVIOUS
<1>2. Append(b, c) = b \o <<c>>
  BY AppendIsConcat
<1>3. Append(a \o b, c) = (a \o b) \o <<c>>
  BY ConcatProperties, AppendIsConcat
<1> QED BY <1>1, <1>2, <1>3, ConcatAssociative

(* Three sequences, one after another.                                     *)
ThreeInARow(a, b, c) == a \o (b \o c) = (a \o b) \o c

(* Three sequences in a row.                                               *)
LEMMA Regroup ==
    ASSUME NEW S, NEW a \in Seq(S), NEW b \in Seq(S), NEW c \in Seq(S)
    PROVE  ThreeInARow(a, b, c)
<1>1. (a \o b) \o c = a \o (b \o c)
  BY ConcatAssociative, SMTT(30)
<1> QED BY <1>1, Zenon DEF ThreeInARow

(* Joined's recursion, over the first k sequences of p.                    *)
Joining(p, k, f) == f = [n \in 0..k |-> IF n = 0 THEN << >> ELSE f[n - 1] \o p[n]]

(* There is such a function.                                               *)
LEMMA JoiningExists ==
    ASSUME NEW p, NEW m \in Nat
    PROVE  \E f : Joining(p, m, f)
<1> DEFINE N == {k \in Nat : \E f : Joining(p, k, f)}
<1>1. 0 \in N
  <2>1. Joining(p, 0, [n \in 0..0 |-> << >>])
    BY DEF Joining
  <2> QED BY <2>1
<1>2. ASSUME NEW k \in Nat, k \in N PROVE k + 1 \in N
  <2>1. PICK f : Joining(p, k, f)
    BY <1>2
  <2> DEFINE g == [n \in 0..(k + 1) |-> IF n = k + 1 THEN f[k] \o p[k + 1] ELSE f[n]]
  <2>2. g[k + 1] = f[k] \o p[k + 1] /\ \A n \in 0..k : g[n] = f[n]
    OBVIOUS
  <2>3. ASSUME NEW n \in 0..(k + 1)
        PROVE  g[n] = IF n = 0 THEN << >> ELSE g[n - 1] \o p[n]
    <3>1. CASE n = k + 1
      BY <3>1, <2>2
    <3>2. CASE n \in 0..k
      <4>1. f[n] = IF n = 0 THEN << >> ELSE f[n - 1] \o p[n]
        BY <3>2, <2>1 DEF Joining
      <4>2. g[n] = f[n] /\ (n # 0 => g[n - 1] = f[n - 1])
        BY <3>2, <2>2
      <4> QED BY <4>1, <4>2
    <3> QED BY <3>1, <3>2
  <2>4. Joining(p, k + 1, g)
    BY <2>3 DEF Joining
  <2>5. \E h : Joining(p, k + 1, h)
    <3> HIDE DEF g
    <3> QED BY <2>4
  <2> QED BY <2>5
<1>3. Nat \subseteq N
  <2> HIDE DEF N
  <2> QED BY <1>1, <1>2, Induction
<1> QED BY <1>3

(* Its values, one after another.                                          *)
JoinsOn(p, k, f) == f[0] = << >> /\ \A n \in Nat : n < k => f[n + 1] = f[n] \o p[n + 1]

(* Such a function starts with nothing and adds a sequence at a time.      *)
LEMMA JoiningStep ==
    ASSUME NEW p, NEW k \in Nat, NEW f, Joining(p, k, f)
    PROVE  JoinsOn(p, k, f)
<1> DEFINE E(n) == IF n = 0 THEN << >> ELSE f[n - 1] \o p[n]
<1>1. \A n \in 0..k : f[n] = E(n)
  <2>1. f = [n \in 0..k |-> E(n)]
    BY DEF Joining
  <2> HIDE DEF E
  <2> QED BY <2>1
<1>2. f[0] = E(0)
  BY <1>1
<1>3. ASSUME NEW n \in Nat, n < k PROVE f[n + 1] = f[n] \o p[n + 1]
  <2>1. f[n + 1] = E(n + 1)
    <3> HIDE DEF E
    <3> QED BY <1>1, <1>3
  <2>2. n + 1 # 0 /\ (n + 1) - 1 = n
    OBVIOUS
  <2> QED BY <2>1, <2>2
<1> QED BY <1>2, <1>3 DEF JoinsOn

(* Two such functions agree as far as their sequences do.                  *)
LEMMA JoiningsAgree ==
    ASSUME NEW p, NEW q, NEW f, NEW g, NEW k \in Nat, NEW l \in Nat, NEW m \in Nat,
           Joining(p, k, f), Joining(q, l, g),
           m <= k, m <= l, \A i \in 1..m : p[i] = q[i]
    PROVE  f[m] = g[m]
<1>1. JoinsOn(p, k, f) /\ JoinsOn(q, l, g)
  BY JoiningStep
<1> DEFINE N == {n \in Nat : n <= m => f[n] = g[n]}
<1>2. 0 \in N
  BY <1>1 DEF JoinsOn
<1>3. ASSUME NEW n \in Nat, n \in N PROVE n + 1 \in N
  <2> SUFFICES ASSUME n + 1 <= m PROVE f[n + 1] = g[n + 1]
    OBVIOUS
  <2>1. n < k /\ n < l
    OBVIOUS
  <2>2. f[n] = g[n] /\ p[n + 1] = q[n + 1]
    BY <1>3
  <2>3. f[n + 1] = f[n] \o p[n + 1]
    BY <1>1, <2>1 DEF JoinsOn
  <2>4. g[n + 1] = g[n] \o q[n + 1]
    BY <1>1, <2>1 DEF JoinsOn
  <2> QED BY <2>2, <2>3, <2>4
<1>4. Nat \subseteq N
  <2> HIDE DEF N
  <2> QED BY <1>2, <1>3, Induction
<1> QED BY <1>4

(* What Joined gives is such a function's last value.                      *)
LEMMA JoinedIs ==
    ASSUME NEW S, NEW p \in Seq(S)
    PROVE  \E f : Joining(p, Len(p), f) /\ Joined(p) = f[Len(p)]
<1> DEFINE F == CHOOSE f : Joining(p, Len(p), f)
<1>1. Joined(p) = F[Len(p)]
  BY DEF Joined, Joining
<1>2. Joining(p, Len(p), F)
  <2>1. \E f : Joining(p, Len(p), f)
    BY JoiningExists, LenProperties
  <2> QED BY <2>1
<1> QED
  <2> HIDE DEF F
  <2> QED BY <1>1, <1>2

(* Nothing joined is nothing; one sequence more is joined at the end.      *)
LEMMA JoinedEmpty == Joined(<< >>) = << >>
<1>1. << >> \in Seq({}) /\ Len(<< >>) = 0
  BY EmptySeq
<1>2. PICK f : Joining(<< >>, 0, f) /\ Joined(<< >>) = f[0]
  BY <1>1, JoinedIs
<1> QED BY <1>2, JoiningStep DEF JoinsOn

(* A sequence more is joined at the end.                                   *)
LEMMA JoinedAppend ==
    ASSUME NEW S, NEW p \in Seq(S), NEW s \in S
    PROVE  Joined(Append(p, s)) = Joined(p) \o s
<1> DEFINE a == Append(p, s)
           m == Len(p)
<1>1. /\ a \in Seq(S) /\ Len(a) = m + 1 /\ m \in Nat
      /\ a[m + 1] = s /\ \A i \in 1..m : p[i] = a[i]
  BY AppendProperties, LenProperties
<1> HIDE DEF a
<1>2. PICK f : Joining(p, m, f) /\ Joined(p) = f[m]
  BY JoinedIs
<1>3. PICK g : Joining(a, m + 1, g) /\ Joined(a) = g[m + 1]
  BY <1>1, JoinedIs
<1> HIDE DEF m
<1>4. f[m] = g[m]
  <2>1. m + 1 \in Nat /\ m <= m + 1 /\ m <= m
    BY <1>1
  <2> QED BY <1>1, <1>2, <1>3, <2>1, JoiningsAgree
<1>5. g[m + 1] = g[m] \o a[m + 1]
  <2>1. m + 1 \in Nat /\ m < m + 1
    BY <1>1
  <2>2. JoinsOn(a, m + 1, g)
    BY <1>1, <1>3, <2>1, JoiningStep
  <2> QED BY <1>1, <2>1, <2>2 DEF JoinsOn
<1> QED BY <1>1, <1>2, <1>3, <1>4, <1>5 DEF a

(* What is joined has the elements of its pieces, and two lists of pieces  *)
(* are joined one after the other.                                         *)
LEMMA JoinedType ==
    ASSUME NEW S, NEW p \in Seq(Seq(S))
    PROVE  Joined(p) \in Seq(S)
<1> DEFINE P == {q \in Seq(Seq(S)) : Joined(q) \in Seq(S)}
<1>1. << >> \in P
  BY JoinedEmpty, EmptySeq
<1>2. ASSUME NEW q \in Seq(Seq(S)), NEW s \in Seq(S), q \in P PROVE Append(q, s) \in P
  <2>1. Append(q, s) \in Seq(Seq(S)) /\ Joined(Append(q, s)) = Joined(q) \o s
    BY AppendProperties, JoinedAppend
  <2> QED BY <1>2, <2>1, ConcatProperties
<1>3. Seq(Seq(S)) \subseteq P
  <2> HIDE DEF P
  <2> QED BY <1>1, <1>2, SeqInduction
<1> QED BY <1>3

(* Two sequences of sequences are joined one after the other.              *)
LEMMA JoinedConcat ==
    ASSUME NEW S, NEW p \in Seq(Seq(S)), NEW q \in Seq(Seq(S))
    PROVE  Joined(p \o q) = Joined(p) \o Joined(q)
<1>1. \A a, b, c \in Seq(S) : a \o (b \o c) = (a \o b) \o c
  BY Regroup DEF ThreeInARow
<1> DEFINE P == {r \in Seq(Seq(S)) : Joined(p \o r) = Joined(p) \o Joined(r)}
<1>2. << >> \in P
  BY JoinedType, JoinedEmpty, EmptySeq, ConcatEmptySeq
<1>3. ASSUME NEW r \in Seq(Seq(S)), NEW s \in Seq(S), r \in P PROVE Append(r, s) \in P
  <2>1. /\ Append(r, s) \in Seq(Seq(S)) /\ p \o r \in Seq(Seq(S))
        /\ p \o Append(r, s) = Append(p \o r, s)
    BY AppendProperties, ConcatProperties, ConcatAppend, SMTT(30)
  <2>2. Joined(p) \in Seq(S) /\ Joined(r) \in Seq(S)
    BY JoinedType
  <2>3. Joined(p) \o (Joined(r) \o s) = (Joined(p) \o Joined(r)) \o s
    BY <2>2, <1>1
  <2>4. Joined(Append(p \o r, s)) = Joined(p \o r) \o s
    BY <2>1, JoinedAppend
  <2>5. Joined(Append(r, s)) = Joined(r) \o s
    BY JoinedAppend
  <2> QED BY <1>3, <2>1, <2>3, <2>4, <2>5
<1>4. Seq(Seq(S)) \subseteq P
  <2> HIDE DEF P
  <2> QED BY <1>2, <1>3, SeqInduction
<1> QED BY <1>4
-----------------------------------------------------------------------------
(* What a byte of a file, and a character of a text, contributes.          *)
Read(b) == [i \in 1..Len(b) |-> IF b[i] = CR THEN << >> ELSE <<b[i]>>]
Written(t) == [i \in 1..Len(t) |-> IF t[i] = LF THEN <<CR, LF>> ELSE <<t[i]>>]

(* Of each byte read there is a sequence of characters, none a CR.         *)
LEMMA ReadType ==
    ASSUME NEW S, NEW b \in Seq(S)
    PROVE  Read(b) \in Seq(Seq(S \ {CR})) /\ Decode(b) = Joined(Read(b))
<1>1. ASSUME NEW i \in 1..Len(b)
      PROVE  (IF b[i] = CR THEN << >> ELSE <<b[i]>>) \in Seq(S \ {CR})
  <2>1. b[i] \in S
    OBVIOUS
  <2>2. << >> \in Seq(S \ {CR})
    OBVIOUS
  <2>3. b[i] # CR => <<b[i]>> \in Seq(S \ {CR})
    BY <2>1
  <2> QED BY <2>2, <2>3
<1>2. Read(b) \in Seq(Seq(S \ {CR}))
  BY <1>1 DEF Read
<1> QED BY <1>2 DEF Read, Decode

(* Two pieces of a file are read byte by byte as the whole is.             *)
LEMMA ReadConcat ==
    ASSUME NEW S, NEW a \in Seq(S), NEW b \in Seq(S)
    PROVE  Read(a \o b) = Read(a) \o Read(b)
<1>1. Len(Read(a)) = Len(a) /\ Len(Read(b)) = Len(b)
  BY DEF Read
<1> QED BY <1>1, ReadType, ConcatProperties DEF Read

(* What is read has no CR and otherwise only what was there.               *)
LEMMA DecodeType ==
    ASSUME NEW S, NEW b \in Seq(S)
    PROVE  Decode(b) \in Seq(S \ {CR})
BY ReadType, JoinedType

(* The pieces of a file are read as the whole is.                          *)
LEMMA DecodeConcat ==
    ASSUME NEW S, NEW a \in Seq(S), NEW b \in Seq(S)
    PROVE  Decode(a \o b) = Decode(a) \o Decode(b)
<1>1. a \o b \in Seq(S)
  BY ConcatProperties
<1>2. /\ Decode(a) = Joined(Read(a)) /\ Decode(b) = Joined(Read(b))
      /\ Decode(a \o b) = Joined(Read(a \o b))
      /\ Read(a) \in Seq(Seq(S \ {CR})) /\ Read(b) \in Seq(Seq(S \ {CR}))
  BY <1>1, ReadType
<1>3. Read(a \o b) = Read(a) \o Read(b)
  BY ReadConcat
<1>4. Joined(Read(a) \o Read(b)) = Joined(Read(a)) \o Joined(Read(b))
  BY <1>2, JoinedConcat, Zenon
<1> QED BY <1>2, <1>3, <1>4, Zenon

(* One piece joined is that piece.                                         *)
LEMMA JoinedOne ==
    ASSUME NEW S, NEW s \in Seq(S)
    PROVE  Joined(<<s>>) = s
<1>1. << >> \in Seq(Seq(S)) /\ Append(<< >>, s) = <<s>>
  OBVIOUS
<1>2. Joined(Append(<< >>, s)) = Joined(<< >>) \o s
  BY <1>1, JoinedAppend
<1>3. Joined(<< >>) \o s = s
  BY JoinedEmpty, ConcatEmptySeq
<1> QED BY <1>1, <1>2, <1>3, Zenon

(* Reading nothing gives nothing, and reading on drops a CR and keeps any  *)
(* other byte.                                                             *)
LEMMA DecodeEmpty == Decode(<< >>) = << >>
<1>1. Read(<< >>) = << >>
  BY DEF Read
<1> QED BY <1>1, ReadType, EmptySeq, JoinedEmpty

(* A single byte is read as itself, unless it is a CR.                     *)
LEMMA DecodeOne ==
    ASSUME NEW c
    PROVE  Decode(<<c>>) = IF c = CR THEN << >> ELSE <<c>>
<1> DEFINE piece == IF c = CR THEN << >> ELSE <<c>>
<1>1. Read(<<c>>) = <<piece>>
  BY DEF Read
<1>2. Decode(<<c>>) = Joined(Read(<<c>>))
  <2>1. <<c>> \in Seq({c})
    OBVIOUS
  <2> QED BY <2>1, ReadType
<1>3. piece \in Seq({c})
  <2>1. << >> \in Seq({c}) /\ <<c>> \in Seq({c})
    OBVIOUS
  <2> QED BY <2>1
<1> HIDE DEF piece
<1>4. Joined(<<piece>>) = piece
  BY <1>3, JoinedOne
<1> QED BY <1>1, <1>2, <1>4 DEF piece

(* A byte more is read as a character more, unless it is a CR.             *)
LEMMA DecodeAppend ==
    ASSUME NEW S, NEW b \in Seq(S), NEW c \in S
    PROVE  Decode(Append(b, c)) = IF c = CR THEN Decode(b) ELSE Append(Decode(b), c)
<1>1. <<c>> \in Seq(S) /\ Append(b, c) = b \o <<c>>
  BY AppendIsConcat
<1>2. Decode(Append(b, c)) = Decode(b) \o Decode(<<c>>)
  BY <1>1, DecodeConcat
<1>3. Decode(b) \in Seq(S \ {CR})
  BY DecodeType
<1>4. CASE c = CR
  BY <1>2, <1>3, <1>4, DecodeOne, ConcatEmptySeq
<1>5. CASE c # CR
  <2>1. Decode(<<c>>) = <<c>>
    BY <1>5, DecodeOne
  <2>2. Append(Decode(b), c) = Decode(b) \o <<c>>
    BY <1>3, <1>5, AppendIsConcat
  <2> QED BY <1>2, <1>5, <2>1, <2>2
<1> QED BY <1>4, <1>5

(* What is written of a character, of a text and of two texts.             *)
LEMMA WrittenType ==
    ASSUME NEW S, NEW t \in Seq(S), {CR, LF} \subseteq S
    PROVE  Written(t) \in Seq(Seq(S)) /\ Encode(t) = Joined(Written(t))
<1>1. ASSUME NEW i \in 1..Len(t)
      PROVE  (IF t[i] = LF THEN <<CR, LF>> ELSE <<t[i]>>) \in Seq(S)
  <2>1. t[i] \in S
    OBVIOUS
  <2>2. <<CR, LF>> \in Seq(S) /\ <<t[i]>> \in Seq(S)
    BY <2>1
  <2> QED BY <2>2
<1>2. Written(t) \in Seq(Seq(S))
  BY <1>1 DEF Written
<1> QED BY <1>2 DEF Written, Encode

(* What is written of a text are its characters, CR and LF.                *)
LEMMA EncodeType ==
    ASSUME NEW S, NEW t \in Seq(S), {CR, LF} \subseteq S
    PROVE  Encode(t) \in Seq(S)
BY WrittenType, JoinedType

(* Two texts are written character by character as the whole is.           *)
LEMMA WrittenConcat ==
    ASSUME NEW S, NEW a \in Seq(S), NEW b \in Seq(S)
    PROVE  Written(a \o b) = Written(a) \o Written(b)
<1> DEFINE U == S \cup {CR, LF}
<1>1. a \in Seq(U) /\ b \in Seq(U) /\ {CR, LF} \subseteq U
  BY SeqMonotonic
<1>2. Len(Written(a)) = Len(a) /\ Len(Written(b)) = Len(b)
  BY DEF Written
<1>3. Written(a) \in Seq(Seq(U)) /\ Written(b) \in Seq(Seq(U))
  <2> HIDE DEF U
  <2> QED BY <1>1, WrittenType
<1> QED BY <1>2, <1>3, ConcatProperties DEF Written

(* The pieces of a text are written as the whole is.                       *)
LEMMA EncodeConcat ==
    ASSUME NEW S, NEW a \in Seq(S), NEW b \in Seq(S), {CR, LF} \subseteq S
    PROVE  Encode(a \o b) = Encode(a) \o Encode(b)
<1>1. a \o b \in Seq(S)
  BY ConcatProperties
<1>2. /\ Encode(a) = Joined(Written(a)) /\ Encode(b) = Joined(Written(b))
      /\ Encode(a \o b) = Joined(Written(a \o b))
      /\ Written(a) \in Seq(Seq(S)) /\ Written(b) \in Seq(Seq(S))
  BY <1>1, WrittenType
<1>3. Written(a \o b) = Written(a) \o Written(b)
  BY WrittenConcat
<1>4. Joined(Written(a) \o Written(b)) = Joined(Written(a)) \o Joined(Written(b))
  BY <1>2, JoinedConcat, Zenon
<1> QED BY <1>2, <1>3, <1>4, Zenon

(* Of an empty text nothing is written.                                    *)
LEMMA EncodeEmpty == Encode(<< >>) = << >>
<1>1. Written(<< >>) = << >>
  BY DEF Written
<1>2. << >> \in Seq({CR, LF})
  OBVIOUS
<1> QED BY <1>1, <1>2, WrittenType, JoinedEmpty

(* A character more is written as itself, LF after a CR.                   *)
LEMMA EncodeAppend ==
    ASSUME NEW S, NEW t \in Seq(S), NEW c \in S, {CR, LF} \subseteq S
    PROVE  Encode(Append(t, c)) = Encode(t) \o (IF c = LF THEN <<CR, LF>> ELSE <<c>>)
<1> DEFINE piece == IF c = LF THEN <<CR, LF>> ELSE <<c>>
<1>1. <<c>> \in Seq(S) /\ Append(t, c) = t \o <<c>>
  BY AppendIsConcat
<1>2. Encode(Append(t, c)) = Encode(t) \o Encode(<<c>>)
  BY <1>1, EncodeConcat
<1>3. Written(<<c>>) = <<piece>> /\ piece \in Seq(S)
  BY DEF Written
<1>4. Encode(<<c>>) = Joined(Written(<<c>>))
  BY <1>1, WrittenType
<1> HIDE DEF piece
<1>5. Joined(<<piece>>) = piece
  BY <1>3, JoinedOne
<1> QED BY <1>2, <1>3, <1>4, <1>5 DEF piece

(* Appending, element by element.                                          *)
LEMMA OnePair == ASSUME NEW x, NEW y PROVE Append(<<x>>, y) = <<x, y>> /\ Append(<< >>, y) = <<y>>
<1>1. /\ <<x>> \in Seq({x, y}) /\ << >> \in Seq({x, y}) /\ <<y>> \in Seq({x, y})
      /\ <<x, y>> \in Seq({x, y})
  OBVIOUS
<1>2. /\ Append(<<x>>, y) \in Seq({x, y}) /\ Append(<< >>, y) \in Seq({x, y})
      /\ Len(Append(<<x>>, y)) = 2 /\ Len(Append(<< >>, y)) = 1
      /\ Append(<<x>>, y)[1] = x /\ Append(<<x>>, y)[2] = y /\ Append(<< >>, y)[1] = y
  BY <1>1, AppendProperties
<1>3. Append(<< >>, y) = <<y>>
  BY <1>1, <1>2, SeqEqual
<1>4. \A i \in 1..2 : Append(<<x>>, y)[i] = <<x, y>>[i]
  BY <1>2
<1> QED BY <1>1, <1>2, <1>3, <1>4, SeqEqual

(* A text that is written and read again is that text, as long as it has   *)
(* no CR of its own.                                                       *)
THEOREM RoundTrip ==
    ASSUME NEW S, {CR, LF} \subseteq S, CR # LF, NEW t \in Seq(S \ {CR})
    PROVE  Decode(Encode(t)) = t
<1> DEFINE P == {s \in Seq(S \ {CR}) : Decode(Encode(s)) = s}
<1>1. << >> \in P
  BY EncodeEmpty, DecodeEmpty, EmptySeq
<1>2. ASSUME NEW s \in Seq(S \ {CR}), NEW c \in S \ {CR}, s \in P PROVE Append(s, c) \in P
  <2> DEFINE piece == IF c = LF THEN <<CR, LF>> ELSE <<c>>
  <2>1. s \in Seq(S) /\ c \in S /\ Append(s, c) \in Seq(S \ {CR})
    BY SeqMonotonic, AppendProperties
  <2>2. Encode(Append(s, c)) = Encode(s) \o piece
    BY <2>1, EncodeAppend
  <2>3. Encode(s) \in Seq(S) /\ piece \in Seq(S)
    BY <2>1, EncodeType
  <2>4. Decode(Encode(s) \o piece) = s \o Decode(piece)
    BY <1>2, <2>3, DecodeConcat
  <2>5. Decode(piece) = <<c>>
    <3>1. CASE c = LF
      <4>1. Decode(Append(<<CR>>, LF)) = Append(Decode(<<CR>>), LF)
        <5>1. <<CR>> \in Seq(S)
          OBVIOUS
        <5> QED BY <5>1, DecodeAppend
      <4>2. Append(<<CR>>, LF) = <<CR, LF>> /\ Append(<< >>, LF) = <<LF>>
        BY OnePair
      <4> QED BY <3>1, <4>1, <4>2, DecodeOne
    <3>2. CASE c # LF
      BY <3>2, DecodeOne
    <3> QED BY <3>1, <3>2
  <2> QED BY <2>1, <2>2, <2>4, <2>5, AppendIsConcat
<1>3. Seq(S \ {CR}) \subseteq P
  <2> HIDE DEF P
  <2> QED BY <1>1, <1>2, SeqInduction
<1> QED BY <1>3

(* A sequence in two parts.                                                *)
LEMMA Parts ==
    ASSUME NEW S, NEW b \in Seq(S), NEW n \in 0..Len(b)
    PROVE  /\ First(b, n) \in Seq(S) /\ Len(First(b, n)) = n
           /\ First(b, n) = SubSeq(b, 1, n)
           /\ From(b, n) \in Seq(S) /\ Len(From(b, n)) = Len(b) - n
           /\ b = First(b, n) \o From(b, n)
<1>1. First(b, n) = SubSeq(b, 1, n) /\ Len(b) \in Nat
  BY DEF First, Smaller
<1>2. SubSeq(b, 1, n) \in Seq(S) /\ Len(SubSeq(b, 1, n)) = n
  BY <1>1
<1>3. From(b, n) \in Seq(S) /\ Len(From(b, n)) = Len(b) - n
  BY <1>1 DEF From
<1>4. b = SubSeq(b, 1, n) \o SubSeq(b, n + 1, Len(b))
  <2>1. SubSeq(b, 1, Len(b)) = b
    BY SubSeqFull
  <2>2. SubSeq(b, 1, n) \o SubSeq(b, n + 1, Len(b)) = SubSeq(b, 1, Len(b))
    <3>1. /\ 1 \in 1..(Len(b) + 1) /\ n \in (1 - 1)..Len(b) /\ Len(b) \in n..Len(b)
      BY <1>1
    <3> QED BY <3>1, ConcatAdjacentSubSeq
  <2> QED BY <2>1, <2>2
<1> QED BY <1>1, <1>2, <1>3, <1>4 DEF From

(* What follows a place is what is between it and a later one, and what    *)
(* follows that.                                                           *)
LEMMA Middle ==
    ASSUME NEW S, NEW b \in Seq(S), NEW t \in 0..Len(b), NEW w \in 0..t
    PROVE  /\ SubSeq(b, w + 1, t) \in Seq(S)
           /\ From(b, w) = SubSeq(b, w + 1, t) \o From(b, t)
<1>1. Len(b) \in Nat /\ t \in Nat /\ w \in Nat /\ w <= t /\ t <= Len(b)
  BY LenProperties
<1>2. SubSeq(b, w + 1, t) \in Seq(S)
  BY <1>1
<1>3. /\ w + 1 \in 1..(Len(b) + 1) /\ t \in ((w + 1) - 1)..Len(b) /\ Len(b) \in t..Len(b)
  BY <1>1
<1>4. SubSeq(b, w + 1, t) \o SubSeq(b, t + 1, Len(b)) = SubSeq(b, w + 1, Len(b))
  BY <1>3, ConcatAdjacentSubSeq
<1> QED BY <1>2, <1>4 DEF From

(* Two sequences in a row, taken apart where the first ends.               *)
LEMMA PartsOfConcat ==
    ASSUME NEW S, NEW a \in Seq(S), NEW b \in Seq(S)
    PROVE  First(a \o b, Len(a)) = a /\ From(a \o b, Len(a)) = b
<1>1. /\ a \o b \in Seq(S) /\ Len(a) \in Nat /\ Len(b) \in Nat
      /\ Len(a \o b) = Len(a) + Len(b)
  OBVIOUS
<1>2. First(a \o b, Len(a)) = SubSeq(a \o b, 1, Len(a))
  BY <1>1 DEF First, Smaller
<1> QED BY <1>1, <1>2 DEF From

(* A sequence in two parts, of which one is empty.                         *)
LEMMA PartsAtEnds ==
    ASSUME NEW S, NEW b \in Seq(S)
    PROVE  /\ First(b, 0) = << >> /\ From(b, 0) = b
           /\ First(b, Len(b)) = b /\ From(b, Len(b)) = << >>
<1>1. Len(b) \in Nat
  OBVIOUS
<1>2. First(b, 0) = SubSeq(b, 1, 0) /\ First(b, Len(b)) = SubSeq(b, 1, Len(b))
  BY <1>1 DEF First, Smaller
<1> QED BY <1>1, <1>2 DEF From

(* One element further.                                                    *)
LEMMA NextPart ==
    ASSUME NEW S, NEW b \in Seq(S), NEW m \in Nat, NEW n \in Nat, m <= n, n < Len(b)
    PROVE  /\ b[n + 1] \in S
           /\ SubSeq(b, m + 1, n) \in Seq(S)
           /\ SubSeq(b, m + 1, n + 1) = Append(SubSeq(b, m + 1, n), b[n + 1])
           /\ First(b, n + 1) = Append(First(b, n), b[n + 1])
           /\ From(b, n + 1) \in Seq(S)
           /\ From(b, n) = <<b[n + 1]>> \o From(b, n + 1)
<1>1. Len(b) \in Nat /\ n + 1 \in 1..Len(b) /\ b[n + 1] \in S
  OBVIOUS
<1>2. SubSeq(b, m + 1, n) \in Seq(S) /\ From(b, n + 1) \in Seq(S)
  BY <1>1 DEF From
<1>3. ASSUME NEW k \in Nat, k <= n
      PROVE  SubSeq(b, k + 1, n + 1) = Append(SubSeq(b, k + 1, n), b[n + 1])
  BY <1>1, <1>3
<1>4. First(b, n) = SubSeq(b, 1, n) /\ First(b, n + 1) = SubSeq(b, 1, n + 1)
  BY <1>1 DEF First, Smaller
<1>5. First(b, n + 1) = Append(First(b, n), b[n + 1])
  BY <1>3, <1>4
<1>6. From(b, n) = <<b[n + 1]>> \o From(b, n + 1)
  BY <1>1 DEF From
<1> QED BY <1>1, <1>2, <1>3, <1>5, <1>6

(* The first elements, and one more.                                       *)
LEMMA NextFirst ==
    ASSUME NEW S, NEW b \in Seq(S), NEW n \in Nat, n < Len(b)
    PROVE  First(b, n) \in Seq(S) /\ b[n + 1] \in S /\ First(b, n + 1) = Append(First(b, n), b[n + 1])
<1>1. n \in 0..Len(b) /\ 0 <= n /\ 0 \in Nat
  OBVIOUS
<1>2. First(b, n) \in Seq(S)
  BY <1>1, Parts
<1> QED BY <1>1, <1>2, NextPart

(* Four and five sequences, one after another.                             *)
FourInARow(x, y, z, u) == (x \o (y \o z)) \o u = (x \o y) \o (z \o u)
FiveInARow(x, y, z, u, v) == ((x \o y) \o z) \o (u \o v) = (x \o ((y \o z) \o u)) \o v

(* Four sequences in a row.                                                *)
LEMMA RegroupFour ==
    ASSUME NEW S, NEW x \in Seq(S), NEW y \in Seq(S), NEW z \in Seq(S), NEW u \in Seq(S)
    PROVE  FourInARow(x, y, z, u)
<1>1. \A a, b, c \in Seq(S) : ThreeInARow(a, b, c)
  BY Regroup
<1>2. x \o y \in Seq(S)
  BY ConcatProperties
<1>3. ThreeInARow(x, y, z) /\ ThreeInARow(x \o y, z, u)
  BY <1>1, <1>2, ZenonT(30)
<1> QED BY <1>3, Zenon DEF ThreeInARow, FourInARow

(* Five sequences in a row.                                                *)
LEMMA RegroupFive ==
    ASSUME NEW S, NEW x \in Seq(S), NEW y \in Seq(S), NEW z \in Seq(S), NEW u \in Seq(S),
           NEW v \in Seq(S)
    PROVE  FiveInARow(x, y, z, u, v)
<1>1. \A a, b, c \in Seq(S) : ThreeInARow(a, b, c)
  BY Regroup
<1>2. y \o z \in Seq(S) /\ u \o v \in Seq(S)
  BY ConcatProperties
<1>3. (y \o z) \o u \in Seq(S)
  BY <1>2, ConcatProperties
<1>4. /\ ThreeInARow(x, y, z) /\ ThreeInARow(x, y \o z, u \o v)
      /\ ThreeInARow(y \o z, u, v) /\ ThreeInARow(x, (y \o z) \o u, v)
  BY <1>1, <1>2, <1>3, ZenonT(30)
<1>5. ((x \o y) \o z) \o (u \o v) = x \o ((y \o z) \o (u \o v))
  BY <1>4, Zenon DEF ThreeInARow
<1>6. (y \o z) \o (u \o v) = ((y \o z) \o u) \o v
  BY <1>4, Zenon DEF ThreeInARow
<1>7. x \o (((y \o z) \o u) \o v) = (x \o ((y \o z) \o u)) \o v
  BY <1>4, Zenon DEF ThreeInARow
<1> QED BY <1>5, <1>6, <1>7, Zenon DEF FiveInARow

(* Two sequences in a row have the length of both.                         *)
LEMMA ConcatLength ==
    ASSUME NEW S, NEW x \in Seq(S), NEW y \in Seq(S)
    PROVE  x \o y \in Seq(S) /\ Len(x \o y) = Len(x) + Len(y)
BY ConcatProperties

(* A change within the middle of three parts.                              *)
Changed(h, t, r, s, p, d) ==
    LET doc == (h \o t) \o r
    IN  First(doc, Len(h) + p) \o s \o From(doc, Len(h) + p + d)
          = (h \o (First(t, p) \o s \o From(t, p + d))) \o r

(* A change within the middle of three texts is that change of all three,  *)
(* further on by the length of the first.                                  *)
LEMMA ChangeWithin ==
    ASSUME NEW S, NEW h, NEW t, NEW r, NEW s, NEW p \in Nat, NEW d \in Nat,
           h \in Seq(S), t \in Seq(S), r \in Seq(S), s \in Seq(S), p + d <= Len(t)
    PROVE  Changed(h, t, r, s, p, d)
<1> DEFINE doc == (h \o t) \o r
           q == p + d
           a == First(t, p)
           f == From(t, p)
           g == First(t, q)
           b == From(t, q)
<1>1. /\ Len(h) \in Nat /\ p \in 0..Len(t) /\ q \in 0..Len(t)
      /\ (Len(h) + p) + d = Len(h) + q
  BY LenProperties
<1>2. /\ a \in Seq(S) /\ Len(a) = p /\ f \in Seq(S) /\ t = a \o f
      /\ b \in Seq(S) /\ g \in Seq(S) /\ Len(g) = q /\ t = g \o b
  <2> HIDE DEF q
  <2>1. a \in Seq(S) /\ Len(a) = p /\ f \in Seq(S) /\ t = a \o f
    BY <1>1, Parts, ZenonT(30)
  <2>2. b \in Seq(S) /\ g \in Seq(S) /\ Len(g) = q /\ t = g \o b
    BY <1>1, Parts
  <2> QED BY <2>1, <2>2
<1> HIDE DEF a, f, g, b, q
<1>3. doc = (h \o a) \o (f \o r) /\ doc = (h \o g) \o (b \o r)
  <2>1. FourInARow(h, a, f, r) /\ FourInARow(h, g, b, r)
    BY <1>2, RegroupFour
  <2> QED BY <1>2, <2>1, Zenon DEF FourInARow
<1> HIDE DEF doc
<1>4. First(doc, Len(h) + p) = h \o a
  <2> DEFINE x == h \o a
             y == f \o r
  <2>1. x \in Seq(S) /\ Len(x) = Len(h) + p /\ y \in Seq(S) /\ doc = x \o y
    <3>1. x \in Seq(S) /\ Len(x) = Len(h) + Len(a) /\ y \in Seq(S)
      BY <1>2, ConcatLength, Zenon
    <3> QED BY <1>2, <1>3, <3>1, Zenon
  <2> HIDE DEF x, y
  <2>2. First(x \o y, Len(x)) = x
    BY <2>1, PartsOfConcat
  <2> QED BY <2>1, <2>2 DEF x
<1>5. From(doc, Len(h) + q) = b \o r
  <2> DEFINE x == h \o g
             y == b \o r
  <2>1. x \in Seq(S) /\ Len(x) = Len(h) + q /\ y \in Seq(S) /\ doc = x \o y
    <3>1. x \in Seq(S) /\ Len(x) = Len(h) + Len(g) /\ y \in Seq(S)
      BY <1>2, ConcatLength, Zenon
    <3> QED BY <1>2, <1>3, <3>1, Zenon
  <2> HIDE DEF x, y
  <2>2. From(x \o y, Len(x)) = y
    BY <2>1, PartsOfConcat
  <2> QED BY <2>1, <2>2 DEF y
<1>6. ((h \o a) \o s) \o (b \o r) = (h \o ((a \o s) \o b)) \o r
  <2>1. FiveInARow(h, a, s, b, r)
    BY <1>2, RegroupFive
  <2> QED BY <2>1, Zenon DEF FiveInARow
<1>7. First(doc, Len(h) + p) \o s \o From(doc, Len(h) + p + d)
        = (h \o (a \o s \o b)) \o r
  BY <1>1, <1>4, <1>5, <1>6
<1> QED BY <1>7 DEF Changed, doc, a, b, q
=============================================================================
