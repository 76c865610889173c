--------------------------- MODULE CommandsProofs ---------------------------
(***************************************************************************)
(* Facts about texts, lines and motions, for every text: where Bol, Eol    *)
(* and the motions lead, what putting in and taking out leave as it was,   *)
(* and how newlines are counted.  The proofs about EditCommands and Screen *)
(* rest on them.                                                           *)
(***************************************************************************)
EXTENDS Commands, FiniteSetTheorems, SequenceTheorems, WellFoundedInduction, TLAPS

-----------------------------------------------------------------------------
(* Least and greatest elements, and induction.                             *)

(* A set of naturals that is not empty has a least element.                *)
LEMMA LeastElement ==
    ASSUME NEW T, T \subseteq Nat, T # {}
    PROVE  \E m \in T : \A k \in T : m <= k
<1>1. IsWellFoundedOn(OpToRel(<, Nat), Nat)
  BY NatLessThanWellFounded
<1>2. \E x \in T : \A y \in T : ~ (<<y, x>> \in OpToRel(<, Nat))
  BY <1>1, WFMin
<1>3. \A x \in Nat, y \in Nat : y < x => <<y, x>> \in OpToRel(<, Nat)
  BY DEF OpToRel
<1>4. \E x \in T : \A y \in T : ~ (y < x)
  BY <1>2, <1>3
<1>5. \A x, y \in T : ~ (y < x) => x <= y
  OBVIOUS
<1> QED BY <1>4, <1>5

(* Min picks it.                                                           *)
LEMMA MinIs ==
    ASSUME NEW T, T \subseteq Nat, T # {}
    PROVE  Min(T) \in T /\ \A k \in T : Min(T) <= k
BY LeastElement DEF Min

(* A set of naturals that is not empty and has a bound has a greatest      *)
(* element, which Max picks.                                               *)
LEMMA MaxIs ==
    ASSUME NEW T, NEW n \in Nat, T \subseteq 0..n, T # {}
    PROVE  Max(T) \in T /\ \A k \in T : k <= Max(T)
<1> DEFINE D == {n - k : k \in T}
<1>1. D \subseteq Nat /\ D # {}
  <2>1. \A k \in T : k \in Int /\ k <= n
    OBVIOUS
  <2>2. \A k \in T : n - k \in Nat
    BY <2>1
  <2> QED BY <2>2
<1>2. PICK d \in D : \A k \in D : d <= k
  <2> HIDE DEF D
  <2> QED BY <1>1, LeastElement
<1>3. PICK m \in T : d = n - m
  BY <1>2
<1>4. \A k \in T : n - m <= n - k
  BY <1>2, <1>3
<1>5. \A k \in T : m >= k
  BY <1>4
<1>6. \E x \in T : \A y \in T : x >= y
  BY <1>5
<1>7. Max(T) \in T /\ \A k \in T : Max(T) >= k
  BY <1>6 DEF Max
<1> QED BY <1>7

(* The smaller and the greater of two.                                     *)
LEMMA OfTwo ==
    ASSUME NEW a \in Int, NEW b \in Int
    PROVE  /\ Min({a, b}) = IF a <= b THEN a ELSE b
           /\ Max({a, b}) = IF a <= b THEN b ELSE a
BY DEF Min, Max

(* Induction: a set that has 0, and with n also n + 1, has every natural.  *)
LEMMA Natural ==
    ASSUME NEW S, 0 \in S, \A n \in Nat : n \in S => n + 1 \in S
    PROVE  Nat \subseteq S
<1> SUFFICES ASSUME ~ Nat \subseteq S PROVE FALSE
  OBVIOUS
<1> DEFINE T == Nat \ S
<1>1. PICK m \in T : \A k \in T : m <= k
  <2>1. T \subseteq Nat /\ T # {}
    OBVIOUS
  <2> HIDE DEF T
  <2> QED BY <2>1, LeastElement
<1>2. m # 0 /\ m \in Nat
  OBVIOUS
<1>3. m - 1 \in S
  BY <1>1, <1>2
<1> QED BY <1>1, <1>2, <1>3

-----------------------------------------------------------------------------
(* Doing something n times.                                                *)

\* f is what comes of p, each time g is applied.
Follows(f, g, S, m, p) ==
    f \in [0..m -> S] /\ f[0] = p /\ \A i \in 1..m : f[i] = g[f[i - 1]]

(* There is such a function.                                               *)
LEMMA Repeats ==
    ASSUME NEW S, NEW g, NEW p \in S, NEW m \in Nat, g \in [S -> S]
    PROVE  \E f : Follows(f, g, S, m, p)
<1> DEFINE Q(k, f) == f[0] = p /\ \A i \in 1..k : f[i] = g[f[i - 1]]
           N == {k \in Nat : \E f \in [0..k -> S] : Q(k, f)}
<1>1. 0 \in N
  <2> DEFINE f == [i \in 0..0 |-> p]
  <2>1. f \in [0..0 -> S] /\ Q(0, f)
    OBVIOUS
  <2> HIDE DEF f, Q
  <2> QED BY <2>1
<1>2. ASSUME NEW k \in Nat, k \in N PROVE k + 1 \in N
  <2>1. PICK f \in [0..k -> S] : Q(k, f)
    BY <1>2
  <2> DEFINE h == [i \in 0..(k + 1) |-> IF i = k + 1 THEN g[f[k]] ELSE f[i]]
  <2>2. f[k] \in S /\ g[f[k]] \in S
    OBVIOUS
  <2>3. h \in [0..(k + 1) -> S]
    BY <2>2
  <2>4. h[k + 1] = g[f[k]] /\ \A i \in 0..k : h[i] = f[i]
    OBVIOUS
  <2> HIDE DEF h
  <2>5. ASSUME NEW i \in 1..(k + 1) PROVE h[i] = g[h[i - 1]]
    <3>1. CASE i = k + 1
      <4>1. h[i] = g[f[k]] /\ h[i - 1] = f[k]
        BY <3>1, <2>4
      <4> QED BY <4>1
    <3>2. CASE i \in 1..k
      <4>1. h[i] = f[i] /\ h[i - 1] = f[i - 1] /\ f[i] = g[f[i - 1]]
        BY <3>2, <2>4, <2>1
      <4> QED BY <4>1
    <3> QED BY <3>1, <3>2
  <2>6. h[0] = p
    BY <2>4, <2>1
  <2>7. Q(k + 1, h)
    BY <2>5, <2>6
  <2> HIDE DEF Q
  <2> QED BY <2>3, <2>7
<1>3. Nat \subseteq N
  <2> HIDE DEF N
  <2> QED BY <1>1, <1>2, Natural
<1> QED BY <1>3 DEF Follows

(* What begins in a set and never leaves it is in it at the end.           *)
LEMMA StaysIn ==
    ASSUME NEW S, NEW n \in Nat, NEW f, f[0] \in S,
           \A i \in 1..n : f[i - 1] \in S => f[i] \in S
    PROVE  f[n] \in S
<1> DEFINE N == {k \in Nat : k <= n => f[k] \in S}
<1>1. 0 \in N
  OBVIOUS
<1>2. ASSUME NEW k \in Nat, k \in N PROVE k + 1 \in N
  <2> SUFFICES ASSUME k + 1 <= n PROVE f[k + 1] \in S
    OBVIOUS
  <2>1. k + 1 \in 1..n /\ (k + 1) - 1 = k
    OBVIOUS
  <2>2. f[k] \in S
    BY <1>2
  <2> QED BY <2>1, <2>2
<1>3. Nat \subseteq N
  <2> HIDE DEF N
  <2> QED BY <1>1, <1>2, Natural
<1> QED BY <1>3

-----------------------------------------------------------------------------
(* Lines.                                                                  *)

(* Bol is at the position or before it, Eol at it or behind, and neither   *)
(* is outside the text.                                                    *)
LEMMA LineEnds ==
    ASSUME NEW C, NEW t \in Seq(C), NEW p \in Nat
    PROVE  /\ Bol(t, p) \in 0..p
           /\ Eol(t, p) \in 0..Len(t)
           /\ p <= Len(t) => p <= Eol(t, p)
<1> DEFINE B == {0} \cup {q \in 1..p : At(t, q - 1) = NL}
           E == {Len(t)} \cup {q \in p..(Len(t) - 1) : At(t, q) = NL}
<1>1. B \subseteq 0..p /\ B # {}
  OBVIOUS
<1>2. Len(t) \in Nat
  OBVIOUS
<1>3. E \subseteq Nat /\ E # {} /\ \A q \in E : q <= Len(t) /\ (p <= Len(t) => p <= q)
  BY <1>2
<1>4. Bol(t, p) = Max(B) /\ Eol(t, p) = Min(E)
  BY DEF Bol, Eol
<1> HIDE DEF B, E
<1>5. Max(B) \in B
  BY <1>1, MaxIs
<1>6. Min(E) \in E
  BY <1>3, MinIs
<1>7. Bol(t, p) \in 0..p
  BY <1>1, <1>4, <1>5
<1>8. Eol(t, p) \in Nat /\ Eol(t, p) <= Len(t) /\ (p <= Len(t) => p <= Eol(t, p))
  BY <1>3, <1>4, <1>6
<1> QED BY <1>2, <1>7, <1>8

(* The position a line begins at is in the text.                           *)
LEMMA LineStartIn ==
    ASSUME NEW C, NEW t \in Seq(C), NEW l
    PROVE  LineStart(t, l) \in 0..Len(t)
<1> DEFINE T == {Len(t)} \cup {q \in 1..Len(t) : LineOf(t, q) = l}
<1>1. Len(t) \in Nat
  OBVIOUS
<1>2. T \subseteq 0..Len(t) /\ T # {}
  BY <1>1
<1>3. LineStart(t, l) = 0 \/ LineStart(t, l) = Min(T)
  BY DEF LineStart
<1> HIDE DEF T
<1>4. T \subseteq Nat
  BY <1>1, <1>2
<1>5. Min(T) \in T
  BY <1>2, <1>4, MinIs
<1>6. Min(T) \in 0..Len(t)
  BY <1>2, <1>5
<1>7. 0 \in 0..Len(t)
  BY <1>1
<1> QED BY <1>3, <1>6, <1>7

(* So are the last character of a line and the first one of a kind.        *)
LEMMA LastOnIn ==
    ASSUME NEW C, NEW t \in Seq(C), NEW p \in 0..Len(t)
    PROVE  LastOn(t, p) \in p..Len(t)
<1>1. p \in Nat /\ p <= Len(t) /\ Len(t) \in Nat
  OBVIOUS
<1>2. Eol(t, p) \in 0..Len(t)
  BY <1>1, LineEnds
<1> QED BY <1>1, <1>2 DEF LastOn

(* The position for a column of the line beginning at b.                   *)
LEMMA PosAtColIn ==
    ASSUME NEW C, NEW t \in Seq(C), NEW b \in 0..Len(t), NEW w \in Nat
    PROVE  PosAtCol(t, b, w) \in 0..Len(t)
<1>1. b \in Nat /\ b <= Len(t) /\ Len(t) \in Nat
  OBVIOUS
<1>2. Eol(t, b) \in 0..Len(t) /\ b <= Eol(t, b)
  BY <1>1, LineEnds
<1>3. Min({b + w, Eol(t, b)}) = IF b + w <= Eol(t, b) THEN b + w ELSE Eol(t, b)
  BY <1>1, <1>2, OfTwo
<1> QED BY <1>1, <1>2, <1>3 DEF PosAtCol

(* Where a run of characters ends.                                         *)
LEMMA PastIn ==
    ASSUME NEW C, NEW t \in Seq(C), NEW p \in Nat, NEW S
    PROVE  Past(t, p, S) \in 0..Len(t) /\ PastBlanks(t, p) \in 0..Len(t)
<1> DEFINE A == {Len(t)} \cup {q \in p..(Len(t) - 1) : Class(At(t, q)) \notin S}
           B == {Len(t)} \cup {q \in p..(Len(t) - 1) : At(t, q) # SP}
<1>1. Len(t) \in Nat
  OBVIOUS
<1>2. A \subseteq 0..Len(t) /\ A # {} /\ B \subseteq 0..Len(t) /\ B # {}
  BY <1>1
<1>3. Past(t, p, S) = Min(A) /\ PastBlanks(t, p) = Min(B)
  BY DEF Past, PastBlanks
<1> HIDE DEF A, B
<1>4. A \subseteq Nat /\ B \subseteq Nat
  BY <1>1, <1>2
<1>5. Min(A) \in A /\ Min(B) \in B
  BY <1>2, <1>4, MinIs
<1> QED BY <1>2, <1>3, <1>5

(* The first character of a line that is no blank.                         *)
LEMMA FirstNonBlankIn ==
    ASSUME NEW C, NEW t \in Seq(C), NEW p \in Nat
    PROVE  FirstNonBlank(t, p) \in 0..Len(t)
<1>1. Bol(t, p) \in 0..p
  BY LineEnds
<1>2. Bol(t, p) \in Nat
  BY <1>1
<1> QED BY <1>2, PastIn DEF FirstNonBlank
-----------------------------------------------------------------------------
(* Words.                                                                  *)

(* A word forward, and to the end of one.                                  *)
LEMMA WordForwardIn ==
    ASSUME NEW C, NEW t \in Seq(C), NEW p \in Nat
    PROVE  WordForward(t, p) \in 0..Len(t)
<1> DEFINE q == Past(t, p, {Class(At(t, p))})
<1>1. q \in Nat
  BY PastIn
<1>2. WordForward(t, p) = PastBlanks(t, q)
  BY DEF WordForward
<1> HIDE DEF q
<1> QED BY <1>1, <1>2, PastIn

(* A word back.                                                            *)
LEMMA WordBackIn ==
    ASSUME NEW C, NEW t \in Seq(C), NEW p \in Nat
    PROVE  WordBack(t, p) \in 0..p
<1> DEFINE A == {0} \cup {r \in 1..(p - 1) : Class(At(t, r)) # 0}
           q == Max(A)
           B == {0} \cup {r \in 1..q : Class(At(t, r - 1)) # Class(At(t, q))}
<1>1. A \subseteq 0..p /\ A # {}
  OBVIOUS
<1>2. q \in 0..p
  <2> HIDE DEF A
  <2>1. Max(A) \in A
    BY <1>1, MaxIs
  <2> QED BY <1>1, <2>1
<1>3. WordBack(t, p) = Max(B)
  BY DEF WordBack
<1> HIDE DEF q
<1>4. B \subseteq 0..p /\ B # {}
  BY <1>2
<1> HIDE DEF B
<1>5. Max(B) \in B
  BY <1>4, MaxIs
<1> QED BY <1>3, <1>4, <1>5

(* The end of a word.                                                      *)
LEMMA WordEndIn ==
    ASSUME NEW C, NEW t \in Seq(C), NEW p \in 0..Len(t)
    PROVE  WordEnd(t, p) \in 0..Len(t)
<1> DEFINE q == Past(t, p + 1, {0})
           A == {Len(t) - 1} \cup
                 {r \in q..(Len(t) - 2) : Class(At(t, r + 1)) # Class(At(t, q))}
<1>1. Len(t) \in Nat /\ p \in Nat /\ p + 1 \in Nat
  OBVIOUS
<1>2. q \in 0..Len(t)
  BY <1>1, PastIn
<1>3. WordEnd(t, p) = IF p >= Len(t) - 1 THEN p ELSE IF q >= Len(t) - 1 THEN q ELSE Min(A)
  BY DEF WordEnd
<1> HIDE DEF q
<1>4. p < Len(t) - 1 => A \subseteq 0..Len(t) /\ A # {}
  BY <1>1, <1>2
<1> HIDE DEF A
<1>5. p < Len(t) - 1 => Min(A) \in 0..Len(t)
  <2> SUFFICES ASSUME p < Len(t) - 1 PROVE Min(A) \in 0..Len(t)
    OBVIOUS
  <2>1. A \subseteq Nat
    BY <1>1, <1>4
  <2>2. Min(A) \in A
    BY <1>4, <2>1, MinIs
  <2> QED BY <1>4, <2>2
<1> QED BY <1>1, <1>2, <1>3, <1>5

(* A line up and a line down.                                              *)
LEMMA UpDownIn ==
    ASSUME NEW C, NEW t \in Seq(C), NEW p \in 0..Len(t), NEW w \in Nat
    PROVE  Up(t, p, w) \in 0..Len(t) /\ Down(t, p, w) \in 0..Len(t)
<1>1. p \in Nat /\ p <= Len(t) /\ Len(t) \in Nat
  OBVIOUS
<1>2. Bol(t, p) \in 0..p /\ Eol(t, p) \in 0..Len(t)
  BY <1>1, LineEnds
<1>3. Up(t, p, w) \in 0..Len(t)
  <2>1. CASE Bol(t, p) = 0
    BY <2>1, <1>1 DEF Up
  <2>2. CASE Bol(t, p) # 0
    <3> DEFINE r == Bol(t, p) - 1
               b == Bol(t, r)
    <3>1. r \in Nat /\ r <= Len(t)
      BY <2>2, <1>1, <1>2
    <3>2. Up(t, p, w) = PosAtCol(t, b, w)
      BY <2>2 DEF Up
    <3> HIDE DEF r
    <3>3. b \in 0..r
      BY <3>1, LineEnds
    <3> HIDE DEF b
    <3>4. b \in 0..Len(t)
      BY <3>1, <3>3, <1>1
    <3> QED BY <3>2, <3>4, PosAtColIn
  <2> QED BY <2>1, <2>2
<1>4. Down(t, p, w) \in 0..Len(t)
  <2>1. CASE Eol(t, p) = Len(t)
    BY <2>1, <1>1 DEF Down
  <2>2. CASE Eol(t, p) # Len(t)
    <3> DEFINE b == Eol(t, p) + 1
    <3>1. b \in 0..Len(t)
      BY <2>2, <1>1, <1>2
    <3>2. Down(t, p, w) = PosAtCol(t, b, w)
      BY <2>2 DEF Down
    <3> HIDE DEF b
    <3> QED BY <3>1, <3>2, PosAtColIn
  <2> QED BY <2>1, <2>2
<1> QED BY <1>3, <1>4

(* Words forward, n times.                                                 *)
LEMMA WordsForwardIn ==
    ASSUME NEW C, NEW t \in Seq(C), NEW p \in 0..Len(t), NEW n \in Nat
    PROVE  Times(LAMBDA q : WordForward(t, q), n, p) \in 0..Len(t)
<1> DEFINE S == 0..Len(t)
           g == [q \in S |-> WordForward(t, q)]
           E(f, i) == IF i = 0 THEN p ELSE WordForward(t, f[i - 1])
           h == CHOOSE f : f = [i \in 0..n |-> E(f, i)]
<1>1. Times(LAMBDA q : WordForward(t, q), n, p) = h[n]
  BY DEF Times
<1>2. p \in S /\ \A q \in S : WordForward(t, q) \in S
  <2>1. p \in S /\ Len(t) \in Nat /\ \A q \in S : q \in Nat /\ q <= Len(t)
    OBVIOUS
  <2>2. ASSUME NEW q \in S PROVE WordForward(t, q) \in S
    BY <2>1, WordForwardIn
  <2> QED BY <2>1, <2>2
<1> HIDE DEF S
<1>3. \E f : f = [i \in 0..n |-> E(f, i)]
  <2>1. g \in [S -> S]
    BY <1>2
  <2> HIDE DEF g
  <2>2. PICK f : Follows(f, g, S, n, p)
    BY <2>1, <1>2, Repeats
  <2>3. ASSUME NEW i \in 0..n PROVE f[i] = E(f, i)
    <3>1. CASE i = 0
      BY <3>1, <2>2 DEF Follows
    <3>2. CASE i # 0
      <4>1. i \in 1..n /\ i - 1 \in 0..n
        BY <3>2
      <4>2. f[i - 1] \in S /\ f[i] = g[f[i - 1]]
        BY <4>1, <2>2 DEF Follows
      <4>3. f[i] = WordForward(t, f[i - 1])
        BY <4>2 DEF g
      <4> QED BY <4>3, <3>2
    <3> QED BY <3>1, <3>2
  <2>4. f = [i \in 0..n |-> E(f, i)]
    <3>1. f = [i \in 0..n |-> f[i]]
      BY <2>2 DEF Follows
    <3> HIDE DEF E
    <3> QED BY <2>3, <3>1
  <2> HIDE DEF E
  <2> QED BY <2>4
<1>4. h = [i \in 0..n |-> E(h, i)]
  <2> HIDE DEF E
  <2> QED BY <1>3
<1> HIDE DEF h
<1>5. \A i \in 0..n : h[i] = E(h, i)
  <2> HIDE DEF E
  <2> QED BY <1>4
<1>6. h[0] \in S
  <2>1. 0 \in 0..n
    OBVIOUS
  <2> QED BY <2>1, <1>2, <1>5
<1>7. ASSUME NEW i \in 1..n, h[i - 1] \in S PROVE h[i] \in S
  <2>1. i \in 0..n /\ i # 0
    OBVIOUS
  <2>2. h[i] = E(h, i)
    BY <2>1, <1>5
  <2>3. h[i] = WordForward(t, h[i - 1])
    BY <2>1, <2>2
  <2> QED BY <2>3, <1>7, <1>2
<1>8. h[n] \in S
  BY <1>6, <1>7, StaysIn
<1> QED BY <1>1, <1>8 DEF S

(* Words back.                                                             *)
LEMMA WordsBackIn ==
    ASSUME NEW C, NEW t \in Seq(C), NEW p \in 0..Len(t), NEW n \in Nat
    PROVE  Times(LAMBDA q : WordBack(t, q), n, p) \in 0..Len(t)
<1> DEFINE S == 0..Len(t)
           g == [q \in S |-> WordBack(t, q)]
           E(f, i) == IF i = 0 THEN p ELSE WordBack(t, f[i - 1])
           h == CHOOSE f : f = [i \in 0..n |-> E(f, i)]
<1>1. Times(LAMBDA q : WordBack(t, q), n, p) = h[n]
  BY DEF Times
<1>2. p \in S /\ \A q \in S : WordBack(t, q) \in S
  <2>1. p \in S /\ Len(t) \in Nat /\ \A q \in S : q \in Nat /\ q <= Len(t)
    OBVIOUS
  <2>2. ASSUME NEW q \in S PROVE WordBack(t, q) \in S
    <3>1. WordBack(t, q) \in 0..q
      BY <2>1, WordBackIn
    <3> QED BY <2>1, <3>1
  <2> QED BY <2>1, <2>2
<1> HIDE DEF S
<1>3. \E f : f = [i \in 0..n |-> E(f, i)]
  <2>1. g \in [S -> S]
    BY <1>2
  <2> HIDE DEF g
  <2>2. PICK f : Follows(f, g, S, n, p)
    BY <2>1, <1>2, Repeats
  <2>3. ASSUME NEW i \in 0..n PROVE f[i] = E(f, i)
    <3>1. CASE i = 0
      BY <3>1, <2>2 DEF Follows
    <3>2. CASE i # 0
      <4>1. i \in 1..n /\ i - 1 \in 0..n
        BY <3>2
      <4>2. f[i - 1] \in S /\ f[i] = g[f[i - 1]]
        BY <4>1, <2>2 DEF Follows
      <4>3. f[i] = WordBack(t, f[i - 1])
        BY <4>2 DEF g
      <4> QED BY <4>3, <3>2
    <3> QED BY <3>1, <3>2
  <2>4. f = [i \in 0..n |-> E(f, i)]
    <3>1. f = [i \in 0..n |-> f[i]]
      BY <2>2 DEF Follows
    <3> HIDE DEF E
    <3> QED BY <2>3, <3>1
  <2> HIDE DEF E
  <2> QED BY <2>4
<1>4. h = [i \in 0..n |-> E(h, i)]
  <2> HIDE DEF E
  <2> QED BY <1>3
<1> HIDE DEF h
<1>5. \A i \in 0..n : h[i] = E(h, i)
  <2> HIDE DEF E
  <2> QED BY <1>4
<1>6. h[0] \in S
  <2>1. 0 \in 0..n
    OBVIOUS
  <2> QED BY <2>1, <1>2, <1>5
<1>7. ASSUME NEW i \in 1..n, h[i - 1] \in S PROVE h[i] \in S
  <2>1. i \in 0..n /\ i # 0
    OBVIOUS
  <2>2. h[i] = E(h, i)
    BY <2>1, <1>5
  <2>3. h[i] = WordBack(t, h[i - 1])
    BY <2>1, <2>2
  <2> QED BY <2>3, <1>7, <1>2
<1>8. h[n] \in S
  BY <1>6, <1>7, StaysIn
<1> QED BY <1>1, <1>8 DEF S

(* Ends of words.                                                          *)
LEMMA WordsEndIn ==
    ASSUME NEW C, NEW t \in Seq(C), NEW p \in 0..Len(t), NEW n \in Nat
    PROVE  Times(LAMBDA q : WordEnd(t, q), n, p) \in 0..Len(t)
<1> DEFINE S == 0..Len(t)
           g == [q \in S |-> WordEnd(t, q)]
           E(f, i) == IF i = 0 THEN p ELSE WordEnd(t, f[i - 1])
           h == CHOOSE f : f = [i \in 0..n |-> E(f, i)]
<1>1. Times(LAMBDA q : WordEnd(t, q), n, p) = h[n]
  BY DEF Times
<1>2. p \in S /\ \A q \in S : WordEnd(t, q) \in S
  <2>1. p \in S /\ Len(t) \in Nat /\ \A q \in S : q \in Nat /\ q <= Len(t)
    OBVIOUS
  <2>2. ASSUME NEW q \in S PROVE WordEnd(t, q) \in S
    BY <2>1, WordEndIn
  <2> QED BY <2>1, <2>2
<1> HIDE DEF S
<1>3. \E f : f = [i \in 0..n |-> E(f, i)]
  <2>1. g \in [S -> S]
    BY <1>2
  <2> HIDE DEF g
  <2>2. PICK f : Follows(f, g, S, n, p)
    BY <2>1, <1>2, Repeats
  <2>3. ASSUME NEW i \in 0..n PROVE f[i] = E(f, i)
    <3>1. CASE i = 0
      BY <3>1, <2>2 DEF Follows
    <3>2. CASE i # 0
      <4>1. i \in 1..n /\ i - 1 \in 0..n
        BY <3>2
      <4>2. f[i - 1] \in S /\ f[i] = g[f[i - 1]]
        BY <4>1, <2>2 DEF Follows
      <4>3. f[i] = WordEnd(t, f[i - 1])
        BY <4>2 DEF g
      <4> QED BY <4>3, <3>2
    <3> QED BY <3>1, <3>2
  <2>4. f = [i \in 0..n |-> E(f, i)]
    <3>1. f = [i \in 0..n |-> f[i]]
      BY <2>2 DEF Follows
    <3> HIDE DEF E
    <3> QED BY <2>3, <3>1
  <2> HIDE DEF E
  <2> QED BY <2>4
<1>4. h = [i \in 0..n |-> E(h, i)]
  <2> HIDE DEF E
  <2> QED BY <1>3
<1> HIDE DEF h
<1>5. \A i \in 0..n : h[i] = E(h, i)
  <2> HIDE DEF E
  <2> QED BY <1>4
<1>6. h[0] \in S
  <2>1. 0 \in 0..n
    OBVIOUS
  <2> QED BY <2>1, <1>2, <1>5
<1>7. ASSUME NEW i \in 1..n, h[i - 1] \in S PROVE h[i] \in S
  <2>1. i \in 0..n /\ i # 0
    OBVIOUS
  <2>2. h[i] = E(h, i)
    BY <2>1, <1>5
  <2>3. h[i] = WordEnd(t, h[i - 1])
    BY <2>1, <2>2
  <2> QED BY <2>3, <1>7, <1>2
<1>8. h[n] \in S
  BY <1>6, <1>7, StaysIn
<1> QED BY <1>1, <1>8 DEF S

(* Lines up.                                                               *)
LEMMA LinesUpIn ==
    ASSUME NEW C, NEW t \in Seq(C), NEW p \in 0..Len(t), NEW n \in Nat, NEW w \in Nat
    PROVE  Times(LAMBDA q : Up(t, q, w), n, p) \in 0..Len(t)
<1> DEFINE S == 0..Len(t)
           g == [q \in S |-> Up(t, q, w)]
           E(f, i) == IF i = 0 THEN p ELSE Up(t, f[i - 1], w)
           h == CHOOSE f : f = [i \in 0..n |-> E(f, i)]
<1>1. Times(LAMBDA q : Up(t, q, w), n, p) = h[n]
  BY DEF Times
<1>2. p \in S /\ \A q \in S : Up(t, q, w) \in S
  <2>1. p \in S /\ Len(t) \in Nat /\ \A q \in S : q \in Nat /\ q <= Len(t)
    OBVIOUS
  <2>2. ASSUME NEW q \in S PROVE Up(t, q, w) \in S
    BY <2>1, UpDownIn
  <2> QED BY <2>1, <2>2
<1> HIDE DEF S
<1>3. \E f : f = [i \in 0..n |-> E(f, i)]
  <2>1. g \in [S -> S]
    BY <1>2
  <2> HIDE DEF g
  <2>2. PICK f : Follows(f, g, S, n, p)
    BY <2>1, <1>2, Repeats
  <2>3. ASSUME NEW i \in 0..n PROVE f[i] = E(f, i)
    <3>1. CASE i = 0
      BY <3>1, <2>2 DEF Follows
    <3>2. CASE i # 0
      <4>1. i \in 1..n /\ i - 1 \in 0..n
        BY <3>2
      <4>2. f[i - 1] \in S /\ f[i] = g[f[i - 1]]
        BY <4>1, <2>2 DEF Follows
      <4>3. f[i] = Up(t, f[i - 1], w)
        BY <4>2 DEF g
      <4> QED BY <4>3, <3>2
    <3> QED BY <3>1, <3>2
  <2>4. f = [i \in 0..n |-> E(f, i)]
    <3>1. f = [i \in 0..n |-> f[i]]
      BY <2>2 DEF Follows
    <3> HIDE DEF E
    <3> QED BY <2>3, <3>1
  <2> HIDE DEF E
  <2> QED BY <2>4
<1>4. h = [i \in 0..n |-> E(h, i)]
  <2> HIDE DEF E
  <2> QED BY <1>3
<1> HIDE DEF h
<1>5. \A i \in 0..n : h[i] = E(h, i)
  <2> HIDE DEF E
  <2> QED BY <1>4
<1>6. h[0] \in S
  <2>1. 0 \in 0..n
    OBVIOUS
  <2> QED BY <2>1, <1>2, <1>5
<1>7. ASSUME NEW i \in 1..n, h[i - 1] \in S PROVE h[i] \in S
  <2>1. i \in 0..n /\ i # 0
    OBVIOUS
  <2>2. h[i] = E(h, i)
    BY <2>1, <1>5
  <2>3. h[i] = Up(t, h[i - 1], w)
    BY <2>1, <2>2
  <2> QED BY <2>3, <1>7, <1>2
<1>8. h[n] \in S
  BY <1>6, <1>7, StaysIn
<1> QED BY <1>1, <1>8 DEF S

(* Lines down.                                                             *)
LEMMA LinesDownIn ==
    ASSUME NEW C, NEW t \in Seq(C), NEW p \in 0..Len(t), NEW n \in Nat, NEW w \in Nat
    PROVE  Times(LAMBDA q : Down(t, q, w), n, p) \in 0..Len(t)
<1> DEFINE S == 0..Len(t)
           g == [q \in S |-> Down(t, q, w)]
           E(f, i) == IF i = 0 THEN p ELSE Down(t, f[i - 1], w)
           h == CHOOSE f : f = [i \in 0..n |-> E(f, i)]
<1>1. Times(LAMBDA q : Down(t, q, w), n, p) = h[n]
  BY DEF Times
<1>2. p \in S /\ \A q \in S : Down(t, q, w) \in S
  <2>1. p \in S /\ Len(t) \in Nat /\ \A q \in S : q \in Nat /\ q <= Len(t)
    OBVIOUS
  <2>2. ASSUME NEW q \in S PROVE Down(t, q, w) \in S
    BY <2>1, UpDownIn
  <2> QED BY <2>1, <2>2
<1> HIDE DEF S
<1>3. \E f : f = [i \in 0..n |-> E(f, i)]
  <2>1. g \in [S -> S]
    BY <1>2
  <2> HIDE DEF g
  <2>2. PICK f : Follows(f, g, S, n, p)
    BY <2>1, <1>2, Repeats
  <2>3. ASSUME NEW i \in 0..n PROVE f[i] = E(f, i)
    <3>1. CASE i = 0
      BY <3>1, <2>2 DEF Follows
    <3>2. CASE i # 0
      <4>1. i \in 1..n /\ i - 1 \in 0..n
        BY <3>2
      <4>2. f[i - 1] \in S /\ f[i] = g[f[i - 1]]
        BY <4>1, <2>2 DEF Follows
      <4>3. f[i] = Down(t, f[i - 1], w)
        BY <4>2 DEF g
      <4> QED BY <4>3, <3>2
    <3> QED BY <3>1, <3>2
  <2>4. f = [i \in 0..n |-> E(f, i)]
    <3>1. f = [i \in 0..n |-> f[i]]
      BY <2>2 DEF Follows
    <3> HIDE DEF E
    <3> QED BY <2>3, <3>1
  <2> HIDE DEF E
  <2> QED BY <2>4
<1>4. h = [i \in 0..n |-> E(h, i)]
  <2> HIDE DEF E
  <2> QED BY <1>3
<1> HIDE DEF h
<1>5. \A i \in 0..n : h[i] = E(h, i)
  <2> HIDE DEF E
  <2> QED BY <1>4
<1>6. h[0] \in S
  <2>1. 0 \in 0..n
    OBVIOUS
  <2> QED BY <2>1, <1>2, <1>5
<1>7. ASSUME NEW i \in 1..n, h[i - 1] \in S PROVE h[i] \in S
  <2>1. i \in 0..n /\ i # 0
    OBVIOUS
  <2>2. h[i] = E(h, i)
    BY <2>1, <1>5
  <2>3. h[i] = Down(t, h[i - 1], w)
    BY <2>1, <2>2
  <2> QED BY <2>3, <1>7, <1>2
<1>8. h[n] \in S
  BY <1>6, <1>7, StaysIn
<1> QED BY <1>1, <1>8 DEF S

-----------------------------------------------------------------------------
(* Motions.                                                                *)

(* A motion stays in the text, whatever its count and the number of lines  *)
(* the editor believes there are.                                          *)
LEMMA TargetIn ==
    ASSUME NEW C, NEW t \in Seq(C), NEW p \in 0..Len(t), NEW n \in Nat, NEW w \in Nat,
           NEW lines, NEW key \in Motions
    PROVE  Target(t, p, key, n, w, lines) \in 0..Len(t)
<1> DEFINE r == Target(t, p, key, n, w, lines)
           d == Times(LAMBDA q : Down(t, q, w), n, p)
<1>1. p \in Nat /\ p <= Len(t) /\ Len(t) \in Nat
  OBVIOUS
<1>2. Bol(t, p) \in 0..p /\ LastOn(t, p) \in p..Len(t)
  BY <1>1, LineEnds, LastOnIn
<1>3. CASE key = "h"
  <2>1. r = Max({Bol(t, p), p - n})
    BY <1>3 DEF Target
  <2>2. Bol(t, p) \in Int /\ p - n \in Int
    BY <1>1, <1>2
  <2>3. Max({Bol(t, p), p - n}) = IF Bol(t, p) <= p - n THEN p - n ELSE Bol(t, p)
    BY <2>2, OfTwo
  <2>4. Max({Bol(t, p), p - n}) \in 0..Len(t)
    BY <2>3, <1>1, <1>2
  <2> QED BY <2>1, <2>4
<1>4. CASE key = "l"
  <2>1. r = Min({LastOn(t, p), p + n})
    BY <1>4 DEF Target
  <2>2. Min({LastOn(t, p), p + n}) = IF LastOn(t, p) <= p + n THEN LastOn(t, p) ELSE p + n
    BY <1>1, <1>2, OfTwo
  <2>3. Min({LastOn(t, p), p + n}) \in 0..Len(t)
    BY <2>2, <1>1, <1>2
  <2> QED BY <2>1, <2>3
<1>5. CASE key = "0"
  <2>1. r = Bol(t, p)
    BY <1>5 DEF Target
  <2>2. Bol(t, p) \in 0..Len(t)
    BY <1>1, <1>2
  <2> QED BY <2>1, <2>2
<1>6. CASE key = "^"
  <2>1. r = FirstNonBlank(t, p)
    BY <1>6 DEF Target
  <2>2. FirstNonBlank(t, p) \in 0..Len(t)
    BY <1>1, FirstNonBlankIn
  <2> QED BY <2>1, <2>2
<1>7. CASE key = "$"
  <2>1. r = LastOn(t, p)
    BY <1>7 DEF Target
  <2>2. LastOn(t, p) \in 0..Len(t)
    BY <1>1, <1>2
  <2> QED BY <2>1, <2>2
<1>8. CASE key = "w"
  <2>1. r = Times(LAMBDA q : WordForward(t, q), n, p)
    BY <1>8 DEF Target
  <2>2. Times(LAMBDA q : WordForward(t, q), n, p) \in 0..Len(t)
    BY WordsForwardIn
  <2> QED BY <2>1, <2>2
<1>9. CASE key = "b"
  <2>1. r = Times(LAMBDA q : WordBack(t, q), n, p)
    BY <1>9 DEF Target
  <2>2. Times(LAMBDA q : WordBack(t, q), n, p) \in 0..Len(t)
    BY WordsBackIn
  <2> QED BY <2>1, <2>2
<1>10. CASE key = "e"
  <2>1. r = Times(LAMBDA q : WordEnd(t, q), n, p)
    BY <1>10 DEF Target
  <2>2. Times(LAMBDA q : WordEnd(t, q), n, p) \in 0..Len(t)
    BY WordsEndIn
  <2> QED BY <2>1, <2>2
<1>11. CASE key = "k"
  <2>1. r = Times(LAMBDA q : Up(t, q, w), n, p)
    BY <1>11 DEF Target
  <2>2. Times(LAMBDA q : Up(t, q, w), n, p) \in 0..Len(t)
    BY LinesUpIn
  <2> QED BY <2>1, <2>2
<1>12. CASE key = "j"
  <2>1. r = Times(LAMBDA q : Down(t, q, w), n, p)
    BY <1>12 DEF Target
  <2>2. Times(LAMBDA q : Down(t, q, w), n, p) \in 0..Len(t)
    BY LinesDownIn
  <2> QED BY <2>1, <2>2
<1>13. CASE key = "CR"
  <2>1. r = FirstNonBlank(t, d)
    BY <1>13 DEF Target
  <2>2. d \in 0..Len(t)
    BY LinesDownIn
  <2> HIDE DEF d
  <2>3. d \in Nat
    BY <2>2
  <2> QED BY <2>1, <2>3, FirstNonBlankIn
<1>14. CASE key \in {"nG", "gg", "G"}
  <2>1. PICK l : r = FirstNonBlank(t, LineStart(t, l))
    BY <1>14 DEF Target
  <2>2. LineStart(t, l) \in 0..Len(t)
    BY LineStartIn
  <2>3. LineStart(t, l) \in Nat
    BY <2>2
  <2> QED BY <2>1, <2>3, FirstNonBlankIn
<1> HIDE DEF r
<1>15. \/ key = "h" \/ key = "l" \/ key = "0" \/ key = "^" \/ key = "$" \/ key = "w"
       \/ key = "b" \/ key = "e" \/ key = "k" \/ key = "j" \/ key = "CR"
       \/ key \in {"nG", "gg", "G"}
  BY DEF Motions, OpMotions
<1> QED BY <1>3, <1>4, <1>5, <1>6, <1>7, <1>8, <1>9, <1>10, <1>11, <1>12, <1>13, <1>14, <1>15 DEF r

\* The range of a motion is in the text, or one character more for "e".
InSpan(t, r) ==
    /\ r.from \in 0..Len(t) /\ r.to \in 0..(Len(t) + 1)
    /\ r.linewise \in BOOLEAN

(* So it is.                                                               *)
LEMMA SpanIn ==
    ASSUME NEW C, NEW t \in Seq(C), NEW p \in 0..Len(t), NEW n \in Nat, NEW lines,
           NEW key \in OpMotions
    PROVE  /\ InSpan(t, Span(t, p, key, n, lines))
           /\ key # "e" => Span(t, p, key, n, lines).to \in 0..Len(t)
<1> DEFINE r == Span(t, p, key, n, lines)
           chars(q) == [from |-> p, to |-> q, linewise |-> FALSE]
           rows(a, q) == [from |-> LineStart(t, a), to |-> q, linewise |-> TRUE]
<1>1. p \in Nat /\ p <= Len(t) /\ Len(t) \in Nat
  OBVIOUS
<1>2. ASSUME NEW q \in 0..Len(t)
      PROVE  InSpan(t, chars(q)) /\ chars(q).to \in 0..Len(t)
  <2>1. q \in 0..(Len(t) + 1)
    BY <1>1
  <2> QED BY <2>1 DEF InSpan
<1>3. ASSUME NEW a, NEW q \in 0..Len(t)
      PROVE  InSpan(t, rows(a, q)) /\ rows(a, q).to \in 0..Len(t)
  <2>1. q \in 0..(Len(t) + 1)
    BY <1>1
  <2>2. LineStart(t, a) \in 0..Len(t)
    BY LineStartIn
  <2> QED BY <2>1, <2>2 DEF InSpan
<1>4. Eol(t, p) \in 0..Len(t)
  BY <1>1, LineEnds
<1>5. CASE key = "l"
  <2>1. r = chars(Min({Eol(t, p), p + n}))
    BY <1>5 DEF Span
  <2>2. Min({Eol(t, p), p + n}) = IF Eol(t, p) <= p + n THEN Eol(t, p) ELSE p + n
    BY <1>1, <1>4, OfTwo
  <2>3. Min({Eol(t, p), p + n}) \in 0..Len(t)
    BY <2>2, <1>1, <1>4
  <2> HIDE DEF r, chars
  <2> QED BY <2>1, <2>3, <1>2 DEF r
<1>6. CASE key \in {"h", "0", "^", "w", "b"}
  <2>1. r = chars(Target(t, p, key, n, 0, lines))
    BY <1>6 DEF Span
  <2>2. key \in Motions
    BY <1>6 DEF Motions, OpMotions
  <2>3. Target(t, p, key, n, 0, lines) \in 0..Len(t)
    BY <2>2, TargetIn
  <2> HIDE DEF r, chars
  <2> QED BY <2>1, <2>3, <1>2 DEF r
<1>7. CASE key = "$"
  <2>1. r = chars(Eol(t, p))
    BY <1>7 DEF Span
  <2> HIDE DEF r, chars
  <2> QED BY <2>1, <1>4, <1>2 DEF r
<1>8. CASE key = "e"
  <2> DEFINE q == Target(t, p, "e", n, 0, lines)
  <2>1. r = chars(q + 1)
    BY <1>8 DEF Span
  <2>2. "e" \in Motions
    BY DEF Motions, OpMotions
  <2>3. q \in 0..Len(t)
    BY <2>2, TargetIn
  <2> HIDE DEF q
  <2>4. q + 1 \in 0..(Len(t) + 1)
    BY <2>3, <1>1
  <2>5. InSpan(t, chars(q + 1))
    BY <2>4 DEF InSpan
  <2> HIDE DEF r, chars
  <2> QED BY <2>1, <2>5, <1>8 DEF r
<1>9. CASE key \in {"j", "k", "G"}
  <2>1. PICK a, q : r = rows(a, q) /\ (q = Len(t) \/ \E l : q = LineStart(t, l))
    <3>1. CASE key = "j"
      BY <3>1 DEF Span
    <3>2. CASE key = "k"
      BY <3>2 DEF Span
    <3>3. CASE key = "G"
      BY <3>3 DEF Span
    <3> QED BY <1>9, <3>1, <3>2, <3>3
  <2>2. q \in 0..Len(t)
    <3>1. Len(t) \in 0..Len(t)
      BY <1>1
    <3>2. \A l : LineStart(t, l) \in 0..Len(t)
      BY LineStartIn
    <3> QED BY <2>1, <3>1, <3>2
  <2> HIDE DEF r, rows
  <2> QED BY <2>1, <2>2, <1>3 DEF r
<1>10. \/ key = "l" \/ key \in {"h", "0", "^", "w", "b"} \/ key = "$" \/ key = "e"
       \/ key \in {"j", "k", "G"}
  BY DEF OpMotions
<1> HIDE DEF r
<1> QED BY <1>5, <1>6, <1>7, <1>8, <1>9, <1>10 DEF r

-----------------------------------------------------------------------------
(* Pieces of text.                                                         *)

(* The first characters of a text, and those from a place on.              *)
LEMMA FirstIs ==
    ASSUME NEW C, NEW t \in Seq(C), NEW n \in Nat
    PROVE  /\ First(t, n) \in Seq(C)
           /\ First(t, n) = SubSeq(t, 1, IF n <= Len(t) THEN n ELSE Len(t))
           /\ Len(First(t, n)) = IF n <= Len(t) THEN n ELSE Len(t)
<1>1. Len(t) \in Nat /\ n \in Int
  OBVIOUS
<1>2. Min({n, Len(t)}) = IF n <= Len(t) THEN n ELSE Len(t)
  BY <1>1, OfTwo
<1> DEFINE k == IF n <= Len(t) THEN n ELSE Len(t)
<1>3. First(t, n) = SubSeq(t, 1, k)
  BY <1>2 DEF First
<1>4. k \in 0..Len(t)
  BY <1>1
<1> HIDE DEF k
<1>5. SubSeq(t, 1, k) \in Seq(C) /\ Len(SubSeq(t, 1, k)) = k
  BY <1>1, <1>4
<1> QED BY <1>3, <1>5 DEF k

(* What comes from a place on.                                             *)
LEMMA FromIs ==
    ASSUME NEW C, NEW t \in Seq(C), NEW n \in Nat
    PROVE  /\ From(t, n) \in Seq(C)
           /\ Len(From(t, n)) = IF n <= Len(t) THEN Len(t) - n ELSE 0
<1>1. Len(t) \in Nat
  OBVIOUS
<1> QED BY <1>1 DEF From

(* Characters copied from a text and from beyond it.                       *)
LEMMA CopiedIs ==
    ASSUME NEW C, NEW t \in Seq(C), NEW p \in Nat, NEW n \in Nat, NEW c \in C
    PROVE  Copied(t, p, n, c) \in Seq(C) /\ Len(Copied(t, p, n, c)) = n
<1> DEFINE x(i) == IF p + i <= Len(t) THEN t[p + i] ELSE c
<1>1. ASSUME NEW i \in 1..n PROVE x(i) \in C
  <2>1. Len(t) \in Nat /\ p + i \in Nat /\ p + i >= 1
    OBVIOUS
  <2>2. p + i <= Len(t) => t[p + i] \in C
    BY <2>1
  <2> QED BY <2>2
<1>2. Copied(t, p, n, c) = [i \in 1..n |-> x(i)]
  BY DEF Copied
<1> HIDE DEF x
<1>3. [i \in 1..n |-> x(i)] \in Seq(C) /\ Len([i \in 1..n |-> x(i)]) = n
  BY <1>1
<1> QED BY <1>2, <1>3

(* The number of newlines, and of lines.                                   *)
LEMMA NewlinesIs ==
    ASSUME NEW C, NEW t \in Seq(C)
    PROVE  Newlines(t) \in Nat /\ LineCount(t) \in Nat
<1> DEFINE S == {i \in DOMAIN t : t[i] = NL}
<1>1. DOMAIN t = 1..Len(t) /\ Len(t) \in Nat
  OBVIOUS
<1>2. IsFiniteSet(1..Len(t))
  BY <1>1, FS_Interval
<1>3. IsFiniteSet(S)
  <2>1. S \subseteq 1..Len(t)
    BY <1>1
  <2> HIDE DEF S
  <2> QED BY <2>1, <1>2, FS_Subset
<1>4. Cardinality(S) \in Nat
  <2> HIDE DEF S
  <2> QED BY <1>3, FS_CardinalityType
<1>5. Newlines(t) \in Nat
  BY <1>4 DEF Newlines
<1> QED BY <1>5 DEF LineCount

(* Two texts, one after the other.                                         *)
LEMMA Concat ==
    ASSUME NEW C, NEW x \in Seq(C), NEW y \in Seq(C)
    PROVE  x \o y \in Seq(C) /\ Len(x \o y) = Len(x) + Len(y)
BY ConcatProperties

(* A text without a part of it, and with another one instead.              *)
LEMMA Spliced ==
    ASSUME NEW C, NEW t \in Seq(C), NEW s \in Seq(C), NEW p \in Nat, NEW q \in Nat
    PROVE  /\ First(t, p) \o s \o From(t, q) \in Seq(C)
           /\ Len(First(t, p) \o s \o From(t, q)) =
                Len(First(t, p)) + Len(s) + Len(From(t, q))
<1>1. First(t, p) \in Seq(C) /\ From(t, q) \in Seq(C)
  BY FirstIs, FromIs
<1> QED BY <1>1
-----------------------------------------------------------------------------
(* Counting newlines.                                                      *)

\* The newlines from position a to before b.
Breaks(t, a, b) == {q \in a..(b - 1) : At(t, q) = NL}

(* They are finitely many.                                                 *)
LEMMA BreaksFinite ==
    ASSUME NEW t, NEW a \in Int, NEW b \in Int
    PROVE  IsFiniteSet(Breaks(t, a, b)) /\ Cardinality(Breaks(t, a, b)) \in Nat
<1>1. IsFiniteSet(a..(b - 1))
  BY FS_Interval
<1>2. Breaks(t, a, b) \subseteq a..(b - 1)
  BY DEF Breaks
<1>3. IsFiniteSet(Breaks(t, a, b))
  BY <1>1, <1>2, FS_Subset
<1> QED BY <1>3, FS_CardinalityType

(* They are counted piece by piece.                                        *)
LEMMA BreaksAdd ==
    ASSUME NEW t, NEW a \in Int, NEW b \in Int, NEW c \in Int, a <= b, b <= c
    PROVE  Cardinality(Breaks(t, a, c)) = Cardinality(Breaks(t, a, b)) + Cardinality(Breaks(t, b, c))
<1> DEFINE S == Breaks(t, a, b)
           T == Breaks(t, b, c)
<1>1. Breaks(t, a, c) = S \cup T /\ S \cap T = {}
  BY DEF Breaks
<1>2. IsFiniteSet(S) /\ IsFiniteSet(T) /\ Cardinality(S) \in Nat /\ Cardinality(T) \in Nat
  BY BreaksFinite
<1> HIDE DEF S, T
<1>3. Cardinality(S \cup T) = Cardinality(S) + Cardinality(T) - Cardinality(S \cap T)
  BY <1>2, FS_Union
<1>4. Cardinality(S \cap T) = 0
  BY <1>1, FS_EmptySet
<1> QED BY <1>1, <1>2, <1>3, <1>4 DEF S, T

\* The piece of t from a to before b is in u too, d further on.
SamePiece(t, u, a, b, d) == \A q \in a..(b - 1) : At(t, q) = At(u, q + d)

(* A piece that is elsewhere in another text has as many there.            *)
LEMMA BreaksShift ==
    ASSUME NEW t, NEW u, NEW a \in Int, NEW b \in Int, NEW d \in Int,
           SamePiece(t, u, a, b, d)
    PROVE  Cardinality(Breaks(t, a, b)) = Cardinality(Breaks(u, a + d, b + d))
<1> DEFINE S == Breaks(t, a, b)
           T == Breaks(u, a + d, b + d)
           f == [q \in S |-> q + d]
<1>1. \A q \in S : q \in Int /\ q + d \in T
  BY DEF Breaks, SamePiece
<1>2. \A r \in T : r - d \in S /\ (r - d) + d = r
  BY DEF Breaks, SamePiece
<1>3. f \in Bijection(S, T)
  <2> HIDE DEF S, T
  <2>1. f \in [S -> T]
    BY <1>1
  <2>2. ASSUME NEW q \in S, NEW r \in S, f[q] = f[r] PROVE q = r
    <3>1. q + d = r + d
      BY <2>2
    <3>2. q \in Int /\ r \in Int
      BY <1>1
    <3> QED BY <3>1, <3>2
  <2>3. \A r \in T : \E q \in S : f[q] = r
    BY <1>2
  <2> QED BY <2>1, <2>2, <2>3 DEF Bijection, Injection, IsInjective, Surjection
<1>4. IsFiniteSet(S)
  BY BreaksFinite
<1>5. ExistsBijection(S, T)
  BY <1>3 DEF ExistsBijection
<1> HIDE DEF S, T
<1>6. Cardinality(T) = Cardinality(S)
  BY <1>4, <1>5, FS_Bijection
<1> QED BY <1>6 DEF S, T

(* One character is one newline or none.                                   *)
LEMMA BreaksOne ==
    ASSUME NEW t, NEW q \in Int
    PROVE  Cardinality(Breaks(t, q, q + 1)) = IF At(t, q) = NL THEN 1 ELSE 0
<1>1. q..((q + 1) - 1) = {q}
  OBVIOUS
<1>2. Breaks(t, q, q + 1) = IF At(t, q) = NL THEN {q} ELSE {}
  BY <1>1 DEF Breaks
<1> QED BY <1>2, FS_Singleton, FS_EmptySet

(* The number of a line is that of the newlines before it.                 *)
LEMMA LineOfIs ==
    ASSUME NEW t, NEW p \in Int
    PROVE  LineOf(t, p) = Cardinality(Breaks(t, 0, p)) /\ LineOf(t, p) \in Nat
<1>1. LineOf(t, p) = Cardinality(Breaks(t, 0, p))
  BY DEF LineOf, Breaks
<1> QED BY <1>1, BreaksFinite

(* As they go, the numbers stay or go up by one.                           *)
LEMMA LineOfGrows ==
    ASSUME NEW t, NEW p \in Nat, NEW q \in Nat, p <= q
    PROVE  /\ LineOf(t, p) <= LineOf(t, q)
           /\ LineOf(t, q + 1) = LineOf(t, q) + (IF At(t, q) = NL THEN 1 ELSE 0)
           /\ (\A r \in p..(q - 1) : At(t, r) # NL) => LineOf(t, p) = LineOf(t, q)
<1>1. LineOf(t, q) = LineOf(t, p) + Cardinality(Breaks(t, p, q))
  BY LineOfIs, BreaksAdd
<1>2. Cardinality(Breaks(t, p, q)) \in Nat
  BY BreaksFinite
<1>3. LineOf(t, p) \in Nat /\ LineOf(t, q) \in Nat
  BY LineOfIs
<1>4. LineOf(t, q + 1) = LineOf(t, q) + (IF At(t, q) = NL THEN 1 ELSE 0)
  <2>1. q + 1 \in Int /\ 0 <= q /\ q <= q + 1
    OBVIOUS
  <2>2. LineOf(t, q + 1) = LineOf(t, q) + Cardinality(Breaks(t, q, q + 1))
    BY <2>1, LineOfIs, BreaksAdd
  <2> QED BY <2>2, BreaksOne
<1>5. (\A r \in p..(q - 1) : At(t, r) # NL) => Breaks(t, p, q) = {}
  BY DEF Breaks
<1>6. (\A r \in p..(q - 1) : At(t, r) # NL) => LineOf(t, p) = LineOf(t, q)
  BY <1>1, <1>3, <1>5, FS_EmptySet
<1>7. LineOf(t, p) <= LineOf(t, q)
  <2> DEFINE x == LineOf(t, p)
             y == LineOf(t, q)
             z == Cardinality(Breaks(t, p, q))
  <2>1. y = x + z /\ x \in Nat /\ y \in Nat /\ z \in Nat
    BY <1>1, <1>2, <1>3
  <2> HIDE DEF x, y, z
  <2>2. x <= y
    BY <2>1
  <2> QED BY <2>2 DEF x, y
<1> QED BY <1>4, <1>6, <1>7

(* The newlines of a text are those before its end.                        *)
LEMMA NewlinesAre ==
    ASSUME NEW C, NEW t \in Seq(C)
    PROVE  Newlines(t) = LineOf(t, Len(t))
<1> DEFINE n == Len(t)
           S == {i \in DOMAIN t : t[i] = NL}
           T == Breaks(t, 0, n)
           f == [q \in T |-> q + 1]
<1>1. n \in Nat /\ DOMAIN t = 1..n
  OBVIOUS
<1>2. \A q \in T : q \in Int /\ q + 1 \in S
  BY <1>1 DEF Breaks, At
<1>3. \A i \in S : i - 1 \in T /\ (i - 1) + 1 = i
  BY <1>1 DEF Breaks, At
<1>4. f \in Bijection(T, S)
  <2>1. f \in [T -> S]
    BY <1>2
  <2>2. \A q, r \in T : f[q] = f[r] => q = r
    BY <1>2
  <2>3. \A i \in S : \E q \in T : f[q] = i
    BY <1>3
  <2> QED BY <2>1, <2>2, <2>3 DEF Bijection, Injection, IsInjective, Surjection
<1>5. IsFiniteSet(T)
  BY <1>1, BreaksFinite
<1>6. ExistsBijection(T, S)
  BY <1>4 DEF ExistsBijection
<1>7. Cardinality(S) = Cardinality(T)
  <2> HIDE DEF S, T
  <2> QED BY <1>5, <1>6, FS_Bijection
<1> QED BY <1>1, <1>7, LineOfIs DEF Newlines

(* Of two texts, one after the other, the newlines are those of both.      *)
LEMMA NewlinesJoin ==
    ASSUME NEW C, NEW x \in Seq(C), NEW y \in Seq(C)
    PROVE  Newlines(x \o y) = Newlines(x) + Newlines(y)
<1> DEFINE t == x \o y
           m == Len(x)
           n == Len(y)
<1>1. m \in Nat /\ n \in Nat /\ t \in Seq(C) /\ Len(t) = m + n
  BY Concat
<1>2. SamePiece(x, t, 0, m, 0) /\ SamePiece(y, t, 0, n, m)
  <2>1. /\ \A i \in 1..m : t[i] = x[i]
        /\ \A i \in 1..n : t[i + m] = y[i]
    OBVIOUS
  <2> HIDE DEF t, m, n
  <2>2. ASSUME NEW q \in 0..(m - 1) PROVE At(x, q) = At(t, q + 0)
    <3>1. q + 1 \in 1..m /\ q + 0 = q /\ q \in 0..(Len(t) - 1) /\ q \in 0..(Len(x) - 1)
      BY <1>1 DEF m
    <3> QED BY <2>1, <3>1 DEF At
  <2>3. ASSUME NEW q \in 0..(n - 1) PROVE At(y, q) = At(t, q + m)
    <3>1. q + 1 \in 1..n /\ (q + 1) + m = (q + m) + 1 /\ q + m \in 0..(Len(t) - 1)
          /\ q \in 0..(Len(y) - 1)
      BY <1>1 DEF n
    <3> QED BY <2>1, <3>1 DEF At
  <2> QED BY <2>2, <2>3 DEF SamePiece
<1> HIDE DEF t
<1>3. Cardinality(Breaks(x, 0, m)) = Cardinality(Breaks(t, 0, m))
  <2> HIDE DEF m
  <2>1. 0 + 0 = 0 /\ m + 0 = m /\ 0 \in Int /\ m \in Int
    BY <1>1
  <2>2. Cardinality(Breaks(x, 0, m)) = Cardinality(Breaks(t, 0 + 0, m + 0))
    BY ONLY <1>2, <2>1, BreaksShift
  <2> QED BY <2>1, <2>2
<1>4. Cardinality(Breaks(y, 0, n)) = Cardinality(Breaks(t, m, m + n))
  <2> HIDE DEF m, n
  <2>1. 0 + m = m /\ n + m = m + n /\ 0 \in Int /\ m \in Int /\ n \in Int
    BY <1>1
  <2>2. Cardinality(Breaks(y, 0, n)) = Cardinality(Breaks(t, 0 + m, n + m))
    BY ONLY <1>2, <2>1, BreaksShift
  <2> QED BY <2>1, <2>2
<1>5. Cardinality(Breaks(t, 0, m + n)) = Cardinality(Breaks(t, 0, m)) + Cardinality(Breaks(t, m, m + n))
  <2> HIDE DEF m, n
  <2> QED BY <1>1, BreaksAdd
<1>6. /\ Newlines(x) = Cardinality(Breaks(x, 0, m)) /\ Newlines(y) = Cardinality(Breaks(y, 0, n))
      /\ Newlines(t) = Cardinality(Breaks(t, 0, m + n))
  BY <1>1, NewlinesAre, LineOfIs
<1> QED BY <1>3, <1>4, <1>5, <1>6 DEF t

(* A text is its beginning and the rest.                                   *)
LEMMA TwoParts ==
    ASSUME NEW C, NEW t \in Seq(C), NEW p \in Nat
    PROVE  First(t, p) \o From(t, p) = t
<1> DEFINE n == Len(t)
           k == IF p <= n THEN p ELSE n
           x == First(t, p)
           y == From(t, p)
<1>1. n \in Nat /\ k \in 0..n
  OBVIOUS
<1>2. x = SubSeq(t, 1, k) /\ x \in Seq(C) /\ Len(x) = k
  BY FirstIs
<1>3. y \in Seq(C) /\ Len(y) = n - k
  <2>1. y \in Seq(C) /\ Len(y) = IF p <= n THEN n - p ELSE 0
    BY FromIs
  <2> HIDE DEF y
  <2> QED BY <1>1, <2>1
<1>4. \A i \in 1..k : x[i] = t[i]
  <2> HIDE DEF x, k
  <2> QED BY <1>1, <1>2
<1>5. \A i \in 1..(n - k) : y[i] = t[k + i]
  <2>1. CASE p <= n
    BY <2>1 DEF From
  <2>2. CASE ~ (p <= n)
    <3>1. n - k = 0
      BY <2>2, <1>1
    <3> QED BY <3>1
  <2> QED BY <2>1, <2>2
<1> HIDE DEF x, y, k
<1> DEFINE z == x \o y
<1>6. z \in Seq(C) /\ Len(z) = n
  BY <1>1, <1>2, <1>3, Concat
<1>7. ASSUME NEW i \in 1..n PROVE z[i] = t[i]
  <2>1. CASE i <= k
    BY <2>1, <1>1, <1>2, <1>3, <1>4
  <2>2. CASE ~ (i <= k)
    <3>1. i - k \in 1..(n - k) /\ k + (i - k) = i
      BY <2>2, <1>1
    <3>2. z[i] = y[i - k]
      BY <2>2, <1>1, <1>2, <1>3
    <3> QED BY <3>1, <3>2, <1>5
  <2> QED BY <2>1, <2>2, <1>1
<1> HIDE DEF z
<1>8. z = t
  <2>1. Len(z) = Len(t) /\ z \in Seq(C) /\ t \in Seq(C)
    BY <1>6
  <2>2. \A i \in 1..Len(z) : z[i] = t[i]
    BY <1>6, <1>7
  <2> QED BY ONLY <2>1, <2>2, SeqEqual
<1> QED BY <1>8 DEF z, x, y

(* So its newlines are those of both.                                      *)
LEMMA NewlinesSplit ==
    ASSUME NEW C, NEW t \in Seq(C), NEW p \in Nat
    PROVE  /\ Newlines(First(t, p)) + Newlines(From(t, p)) = Newlines(t)
           /\ Newlines(First(t, p)) \in Nat /\ Newlines(From(t, p)) \in Nat
<1>1. First(t, p) \in Seq(C) /\ From(t, p) \in Seq(C)
  BY FirstIs, FromIs
<1> QED BY <1>1, TwoParts, NewlinesJoin, NewlinesIs

(* From a place on, and then from another on.                              *)
LEMMA FromFrom ==
    ASSUME NEW C, NEW t \in Seq(C), NEW p \in Nat, NEW n \in Nat
    PROVE  From(From(t, p), n) = From(t, p + n)
<1> DEFINE m == Len(t)
           y == From(t, p)
           x == From(y, n)
           z == From(t, p + n)
<1>1. m \in Nat /\ p + n \in Nat
  OBVIOUS
<1>2. y \in Seq(C) /\ Len(y) = IF p <= m THEN m - p ELSE 0
  BY FromIs
<1>3. x \in Seq(C) /\ Len(x) = IF n <= Len(y) THEN Len(y) - n ELSE 0
  <2> HIDE DEF y
  <2> QED BY <1>2, FromIs
<1>4. z \in Seq(C) /\ Len(z) = IF p + n <= m THEN m - (p + n) ELSE 0
  <2> DEFINE k == p + n
  <2>1. k \in Nat
    BY <1>1
  <2> HIDE DEF k
  <2>2. From(t, k) \in Seq(C) /\ Len(From(t, k)) = IF k <= Len(t) THEN Len(t) - k ELSE 0
    BY <2>1, FromIs
  <2> QED BY <2>2 DEF k
<1>5. Len(x) = Len(z)
  <2> HIDE DEF x, y, z, m
  <2> QED BY <1>1, <1>2, <1>3, <1>4
<1>6. \A i \in 1..Len(z) : z[i] = t[p + n + i]
  BY <1>1, <1>4 DEF From
<1>7. \A i \in 1..Len(y) : y[i] = t[p + i]
  BY <1>1, <1>2 DEF From
<1>8. \A i \in 1..Len(x) : x[i] = y[n + i]
  <2> HIDE DEF y
  <2> QED BY <1>2, <1>3 DEF From
<1>9. \A i \in 1..Len(x) : x[i] = z[i]
  <2> HIDE DEF x, y, z, m
  <2> TAKE i \in 1..Len(x)
  <2>1. i \in 1..Len(z) /\ n + i \in 1..Len(y) /\ p + (n + i) = p + n + i
    BY <1>1, <1>2, <1>3, <1>4, <1>5
  <2> QED BY <2>1, <1>6, <1>7, <1>8
<1> HIDE DEF x, z
<1>10. x = z
  BY ONLY <1>3, <1>4, <1>5, <1>9, SeqEqual
<1> QED BY <1>10 DEF x, z

(* Where the cursor steps back to is in the text.                          *)
LEMMA SteppedBackIn ==
    ASSUME NEW C, NEW t \in Seq(C), NEW p \in Nat
    PROVE  SteppedBack(t, p) \in 0..Len(t) /\ (p <= Len(t) => SteppedBack(t, p) <= p)
<1> DEFINE q == IF p >= Len(t) THEN Max({Len(t) - 1, 0}) ELSE p
<1>1. Len(t) \in Nat /\ p \in Nat
  OBVIOUS
<1>2. Max({Len(t) - 1, 0}) = IF Len(t) - 1 <= 0 THEN 0 ELSE Len(t) - 1
  <2>1. Len(t) - 1 \in Int /\ 0 \in Int
    BY <1>1
  <2> QED BY <2>1, OfTwo
<1>3. q \in Nat /\ q <= Len(t) /\ (p <= Len(t) => q <= p)
  BY <1>1, <1>2
<1>4. SteppedBack(t, p) = IF q > 0 /\ At(t, q) = NL /\ At(t, q - 1) # NL THEN q - 1 ELSE q
  BY DEF SteppedBack
<1> HIDE DEF q
<1>5. SteppedBack(t, p) = q \/ (q > 0 /\ SteppedBack(t, p) = q - 1)
  BY <1>4
<1> QED BY <1>1, <1>3, <1>5

(* A character of the text.                                                *)
LEMMA CharIn ==
    ASSUME NEW C, NEW t \in Seq(C), NEW p \in Nat, p < Len(t)
    PROVE  At(t, p) \in C
<1>1. p \in 0..(Len(t) - 1) /\ p + 1 \in 1..Len(t)
  OBVIOUS
<1> QED BY <1>1 DEF At

(* Where erasing a word goes.                                              *)
LEMMA WordStartIn ==
    ASSUME NEW t, NEW p \in Nat
    PROVE  WordStart(t, p) \in 0..p
<1> DEFINE R == {0} \cup {r \in 1..p : Class(At(t, r - 1)) # 0}
           q == Max(R)
           W == {0} \cup {r \in 1..q : Class(At(t, r - 1)) = 0}
<1>1. R \subseteq 0..p /\ R # {}
  OBVIOUS
<1>2. WordStart(t, p) = Max(W)
  BY DEF WordStart
<1> HIDE DEF R
<1>3. q \in 0..p
  BY <1>1, MaxIs
<1> HIDE DEF q
<1>4. W \subseteq 0..p /\ W # {}
  BY <1>3
<1> HIDE DEF W
<1>5. Max(W) \in W
  BY <1>4, MaxIs
<1> QED BY <1>2, <1>4, <1>5
=============================================================================
