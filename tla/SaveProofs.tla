----------------------------- MODULE SaveProofs -----------------------------
(***************************************************************************)
(* What the file layer (ZFile) does, for every file, place and record      *)
(* size: a ZFILE opened for reading gives the bytes of its file, one after *)
(* another and from wherever z_fseek puts it; one opened for writing       *)
(* leaves, once closed, a file whose contents are what was written; and a  *)
(* full disk fails it, never silently.                                     *)
(*                                                                         *)
(* And that a save and a page-in, which work by it, keep the document      *)
(* (SaveProtocol): the invariant that is inductive, and its theorems.      *)
(*                                                                         *)
(* The invariant has two halves.  HandleInv, about the ZFILEs and the      *)
(* names of the files, holds whatever happens.  ContentInv, about what is  *)
(* in the files, holds until the disk is full or a save forgets the rest.  *)
(***************************************************************************)
EXTENDS SaveProtocol, CpmTextProofs

-----------------------------------------------------------------------------
(* The file layer.                                                         *)

(* A number divided by the record size, and the place within a record.     *)
LEMMA RecordOf ==
    ASSUME NEW k \in Nat, NEW j \in 0..(Rec - 1)
    PROVE  (k * Rec + j) \div Rec = k /\ (k * Rec + j) % Rec = j
BY RecordAssumption

(* A place of a file is a number of records and a place within a record.   *)
LEMMA PlaceOf ==
    ASSUME NEW n \in Nat
    PROVE  /\ n \div Rec \in Nat /\ n % Rec \in 0..(Rec - 1)
           /\ n = (n \div Rec) * Rec + (n % Rec)
BY RecordAssumption

(* A place is within m records when its record is one of them.             *)
LEMMA PlaceWithin ==
    ASSUME NEW n \in Nat, NEW m \in Nat
    PROVE  n < m * Rec <=> n \div Rec < m
BY RecordAssumption

Record == [1..Rec -> Byte]

(* The bytes of a file: their number, each of them, one record more.       *)
LEMMA RecordIsSequence ==
    ASSUME NEW r \in Record
    PROVE  r \in Seq(Byte) /\ Len(r) = Rec
BY RecordAssumption DEF Record

(* The bytes of a file are those of its records, one record after another. *)
LEMMA BytesType ==
    ASSUME NEW recs \in Records
    PROVE  /\ Bytes(recs) \in Seq(Byte) /\ Len(recs) \in Nat
           /\ Len(Bytes(recs)) = Len(recs) * Rec /\ Len(recs) * Rec \in Nat
           /\ \A i \in 1..(Len(recs) * Rec) :
                Bytes(recs)[i] = recs[((i - 1) \div Rec) + 1][((i - 1) % Rec) + 1]
<1>1. Len(recs) \in Nat /\ Len(recs) * Rec \in Nat
  BY RecordAssumption DEF Records
<1>2. ASSUME NEW i \in 1..(Len(recs) * Rec)
      PROVE  recs[((i - 1) \div Rec) + 1][((i - 1) % Rec) + 1] \in Byte
  <2>1. i - 1 \in Nat
    BY <1>1
  <2>2. (i - 1) \div Rec \in Nat /\ (i - 1) % Rec \in 0..(Rec - 1)
    BY <2>1, PlaceOf
  <2>3. (i - 1) \div Rec < Len(recs)
    BY <1>1, PlaceWithin
  <2>4. ((i - 1) \div Rec) + 1 \in 1..Len(recs)
    BY <1>1, <2>2, <2>3
  <2>5. recs[((i - 1) \div Rec) + 1] \in [1..Rec -> Byte]
    BY <2>4 DEF Records
  <2>6. ((i - 1) % Rec) + 1 \in 1..Rec
    BY <2>2, RecordAssumption
  <2> QED BY <2>5, <2>6
<1> QED BY <1>1, <1>2 DEF Bytes

(* The byte at a place of a record.                                        *)
LEMMA ByteAt ==
    ASSUME NEW recs \in Records, NEW k \in 0..(Len(recs) - 1), NEW j \in 0..(Rec - 1)
    PROVE  /\ k * Rec + j \in Nat /\ k * Rec + j < Len(Bytes(recs))
           /\ Bytes(recs)[k * Rec + j + 1] = recs[k + 1][j + 1]
<1> DEFINE i == k * Rec + j + 1
<1>1. Len(recs) \in Nat
  BY BytesType
<1>2. (i - 1) \div Rec = k /\ (i - 1) % Rec = j /\ i - 1 \in Nat /\ i - 1 = k * Rec + j
  <2>1. (k * Rec + j) \div Rec = k /\ (k * Rec + j) % Rec = j
    BY <1>1, RecordOf
  <2>2. k * Rec + j \in Nat /\ (k * Rec + j + 1) - 1 = k * Rec + j
    BY <1>1, RecordAssumption
  <2> QED BY <2>1, <2>2
<1>3. i - 1 < Len(recs) * Rec
  BY <1>1, <1>2, PlaceWithin
<1>4. i \in 1..(Len(recs) * Rec)
  BY <1>1, <1>2, <1>3, BytesType
<1> HIDE DEF i
<1>5. Bytes(recs)[i] = recs[k + 1][j + 1]
  BY <1>2, <1>4, BytesType
<1> QED BY <1>2, <1>3, <1>5, BytesType DEF i

(* A record more is Rec bytes more.                                        *)
LEMMA BytesAppend ==
    ASSUME NEW recs \in Records, NEW r \in Record
    PROVE  Append(recs, r) \in Records /\ Bytes(Append(recs, r)) = Bytes(recs) \o r
<1> DEFINE more == Append(recs, r)
           n == Len(recs)
<1>1. /\ more \in Records /\ Len(more) = n + 1 /\ n \in Nat
      /\ more[n + 1] = r /\ \A i \in 1..n : more[i] = recs[i]
  BY AppendProperties, LenProperties DEF Records, Record
<1>2. /\ Bytes(recs) \in Seq(Byte) /\ Len(Bytes(recs)) = n * Rec
      /\ Bytes(more) \in Seq(Byte) /\ Len(Bytes(more)) = (n + 1) * Rec
      /\ r \in Seq(Byte) /\ Len(r) = Rec
  BY <1>1, BytesType, RecordIsSequence
<1>3. (n + 1) * Rec = n * Rec + Rec /\ n * Rec \in Nat
  BY <1>1, RecordAssumption
<1>4. /\ Bytes(recs) \o r \in Seq(Byte) /\ Len(Bytes(recs) \o r) = Len(Bytes(more))
      /\ \A i \in 1..Len(Bytes(more)) : (Bytes(recs) \o r)[i] =
            IF i <= n * Rec THEN Bytes(recs)[i] ELSE r[i - n * Rec]
  <2> DEFINE b == Bytes(recs)
             l == n * Rec
  <2>1. /\ b \in Seq(Byte) /\ Len(b) = l /\ r \in Seq(Byte) /\ Len(r) = Rec
        /\ Len(Bytes(more)) = l + Rec
    BY <1>2, <1>3
  <2> HIDE DEF b, l, n, more
  <2>2. /\ b \o r \in Seq(Byte) /\ Len(b \o r) = l + Rec
        /\ \A i \in 1..(l + Rec) : (b \o r)[i] = IF i <= l THEN b[i] ELSE r[i - l]
    BY <2>1, ConcatProperties
  <2> QED BY <2>1, <2>2 DEF b, l
<1>5. ASSUME NEW i \in 1..Len(Bytes(more))
      PROVE  Bytes(more)[i] = IF i <= n * Rec THEN Bytes(recs)[i] ELSE r[i - n * Rec]
  <2> DEFINE k == (i - 1) \div Rec
             j == (i - 1) % Rec
  <2>1. i - 1 \in Nat /\ i - 1 < (n + 1) * Rec
    BY <1>1, <1>2, <1>3
  <2>2. k \in Nat /\ j \in 0..(Rec - 1) /\ i - 1 = k * Rec + j
    BY <2>1, PlaceOf
  <2>3. k < n + 1
    BY <1>1, <2>1, PlaceWithin
  <2>4. Bytes(more)[i] = more[k + 1][j + 1]
    BY <1>1, <1>2, BytesType
  <2>5. CASE i <= n * Rec
    <3>1. i - 1 < n * Rec /\ i \in 1..(n * Rec)
      BY <1>2, <1>3, <2>1, <2>5
    <3>2. k < n
      BY <1>1, <2>1, <3>1, PlaceWithin
    <3>3. more[k + 1] = recs[k + 1]
      BY <1>1, <2>2, <3>2
    <3>4. Bytes(recs)[i] = recs[k + 1][j + 1]
      BY <3>1, BytesType
    <3> QED BY <2>4, <2>5, <3>3, <3>4
  <2>6. CASE i > n * Rec
    <3>1. ~ (i - 1 < n * Rec)
      BY <1>2, <1>3, <2>1, <2>6
    <3>2. k = n
      BY <1>1, <2>1, <2>2, <2>3, <3>1, PlaceWithin
    <3>3. i - n * Rec = j + 1
      <4> HIDE DEF k, j
      <4> QED BY <1>2, <1>3, <2>2, <3>2, RecordAssumption
    <3> QED BY <1>1, <1>3, <2>4, <2>6, <3>2, <3>3
  <2> QED BY <1>3, <2>1, <2>5, <2>6
<1>6. Bytes(more) = Bytes(recs) \o r
  BY <1>2, <1>4, <1>5, SeqEqual
<1> QED BY <1>1, <1>6

(* The bytes before the first ^Z.                                          *)
Plain == Byte \ {CtrlZ}

(* What counts of a sequence of bytes is all of it before the first ^Z.    *)
LEMMA BeforeCtrlZ ==
    ASSUME NEW b \in Seq(Byte)
    PROVE  \E m \in 0..Len(b) :
            /\ UpToCtrlZ(b) = SubSeq(b, 1, m)
            /\ \A i \in 1..m : b[i] # CtrlZ
            /\ m < Len(b) => b[m + 1] = CtrlZ
<1> DEFINE T == {Len(b)} \cup {i - 1 : i \in {j \in DOMAIN b : b[j] = CtrlZ}}
           m == Min(T)
<1>1. Len(b) \in Nat /\ DOMAIN b = 1..Len(b)
  BY LenProperties
<1>2. T \subseteq Nat /\ T # {}
  BY <1>1
<1>3. m \in T /\ \A k \in T : m <= k
  <2>1. \E x \in T : \A k \in T : x <= k
    <3> HIDE DEF T
    <3> QED BY <1>2, Least
  <2> HIDE DEF T
  <2> QED BY <2>1 DEF Min
<1>4. UpToCtrlZ(b) = SubSeq(b, 1, m)
  BY DEF UpToCtrlZ
<1> HIDE DEF m
<1>5. m \in 0..Len(b)
  BY <1>1, <1>2, <1>3
<1>6. ASSUME NEW i \in 1..m, b[i] = CtrlZ PROVE FALSE
  <2>1. i \in DOMAIN b /\ i \in Nat
    BY <1>1, <1>5
  <2>2. i - 1 \in T
    BY <1>6, <2>1
  <2> QED BY <1>3, <1>5, <2>1, <2>2
<1>7. ASSUME m < Len(b) PROVE b[m + 1] = CtrlZ
  <2>1. m # Len(b)
    <3>1. \A x, y \in Nat : x < y => x # y
      OBVIOUS
    <3>2. m \in Nat /\ Len(b) \in Nat
      BY <1>1, <1>5
    <3> QED BY <1>7, <3>1, <3>2, Zenon
  <2>2. PICK i \in DOMAIN b : b[i] = CtrlZ /\ m = i - 1
    BY <1>3, <2>1
  <2>3. i = m + 1
    BY <1>1, <2>2
  <2> QED BY <2>2, <2>3
<1> QED BY <1>4, <1>5, <1>6, <1>7

(* There is no ^Z in it.                                                   *)
LEMMA UpToType ==
    ASSUME NEW b \in Seq(Byte)
    PROVE  UpToCtrlZ(b) \in Seq(Plain)
<1>1. PICK m \in 0..Len(b) : UpToCtrlZ(b) = SubSeq(b, 1, m) /\ \A i \in 1..m : b[i] # CtrlZ
  BY BeforeCtrlZ
<1>2. \A i \in 1..m : b[i] \in Plain
  BY <1>1, LenProperties DEF Plain
<1> QED BY <1>1, <1>2

(* What is written before a ^Z is what is read back.                       *)
LEMMA UpToEnd ==
    ASSUME NEW w \in Seq(Plain), NEW p \in Seq(Byte), p # << >> => p[1] = CtrlZ
    PROVE  UpToCtrlZ(w \o p) = w
<1> DEFINE b == w \o p
<1>1. w \in Seq(Byte)
  BY SeqMonotonic DEF Plain
<1>2. /\ b \in Seq(Byte) /\ Len(b) = Len(w) + Len(p) /\ Len(w) \in Nat /\ Len(p) \in Nat
      /\ \A i \in 1..Len(w) : b[i] = w[i]
      /\ p # << >> => b[Len(w) + 1] = p[1]
  BY <1>1, ConcatProperties, LenProperties
<1>3. \A i \in 1..Len(w) : b[i] # CtrlZ
  BY <1>2 DEF Plain
<1>4. p # << >> => Len(p) > 0
  BY EmptySeq
<1>5. p = << >> => Len(p) = 0
  OBVIOUS
<1> HIDE DEF b
<1>6. PICK m \in 0..Len(b) :
        /\ UpToCtrlZ(b) = SubSeq(b, 1, m)
        /\ \A i \in 1..m : b[i] # CtrlZ
        /\ m < Len(b) => b[m + 1] = CtrlZ
  BY <1>2, BeforeCtrlZ
<1>7. m = Len(w)
  <2>1. CASE m < Len(w)
    <3>1. m + 1 \in 1..Len(w) /\ m < Len(b)
      BY <1>2, <2>1
    <3> QED BY <1>3, <1>6, <3>1
  <2>2. CASE m > Len(w)
    <3>1. Len(w) + 1 \in 1..m /\ p # << >>
      BY <1>2, <1>5, <2>2
    <3> QED BY <1>2, <1>6, <3>1
  <2> QED BY <1>2, <2>1, <2>2
<1>8. SubSeq(b, 1, m) = w
  BY <1>1, <1>2, <1>7
<1> QED BY <1>6, <1>8 DEF b

(* The contents of a file are bytes that are no ^Z.                        *)
LEMMA ContentsType ==
    ASSUME NEW d \in [FileNames -> Records \cup {NoFile}], NEW n \in FileNames
    PROVE  Contents(d, n) \in Seq(Plain)
<1>1. CASE d[n] = NoFile
  BY <1>1, EmptySeq DEF Contents
<1>2. CASE d[n] # NoFile
  <2>1. d[n] \in Records
    BY <1>2
  <2> QED BY <1>2, <2>1, BytesType, UpToType DEF Contents
<1> QED BY <1>1, <1>2

(* Of the bytes of a file, the contents are the first, and what comes next *)
(* is a ^Z or nothing.                                                     *)
LEMMA ContentsOf ==
    ASSUME NEW d \in [FileNames -> Records \cup {NoFile}], NEW n \in FileNames,
           d[n] \in Records
    PROVE  /\ Len(Contents(d, n)) <= Len(Bytes(d[n])) /\ Len(Contents(d, n)) \in Nat
           /\ \A i \in 1..Len(Contents(d, n)) : Contents(d, n)[i] = Bytes(d[n])[i]
           /\ Len(Contents(d, n)) < Len(Bytes(d[n])) =>
                Bytes(d[n])[Len(Contents(d, n)) + 1] = CtrlZ
<1> DEFINE b == Bytes(d[n])
<1>1. d[n] # NoFile /\ b \in Seq(Byte)
  BY BytesType, NoFileAssumption
<1>2. Contents(d, n) = UpToCtrlZ(b)
  BY <1>1 DEF Contents
<1> HIDE DEF b
<1>3. PICK m \in 0..Len(b) :
        UpToCtrlZ(b) = SubSeq(b, 1, m) /\ (m < Len(b) => b[m + 1] = CtrlZ)
  BY <1>1, BeforeCtrlZ
<1>4. /\ Len(SubSeq(b, 1, m)) = m /\ Len(b) \in Nat
      /\ \A i \in 1..m : SubSeq(b, 1, m)[i] = b[i]
  BY <1>1, LenProperties
<1> QED BY <1>2, <1>3, <1>4 DEF b

-----------------------------------------------------------------------------
(* Handles.                                                                *)
ZFILE == [used : BOOLEAN, name : FileNames \cup {""}, is_write : BOOLEAN, recs : Records,
          cr : Nat, buf : Seq(Byte), buf_pos : Nat, offset : Nat]
ZFILEOK(z) == z \in ZFILE /\ Len(z.buf) <= Rec /\ z.buf_pos <= Rec
PoolOK(zs) == DOMAIN zs = 1..MAX_FILES /\ \A i \in 1..MAX_FILES : ZFILEOK(zs[i])
DiskOK(d)  == d \in [FileNames -> Records \cup {NoFile}]

(* The fields of a ZFILE that is well formed.                              *)
LEMMA FieldsOK ==
    ASSUME NEW z, ZFILEOK(z)
    PROVE  /\ z.name \in FileNames \cup {""} /\ z.recs \in Records
           /\ z.buf \in Seq(Byte) /\ Len(z.buf) \in 0..Rec
           /\ z.buf_pos \in 0..Rec /\ z.cr \in Nat /\ z.offset \in Nat
<1>1. z \in ZFILE /\ Len(z.buf) <= Rec /\ z.buf_pos <= Rec
  BY DEF ZFILEOK
<1>2. /\ z.name \in FileNames \cup {""} /\ z.recs \in Records /\ z.buf \in Seq(Byte)
      /\ z.buf_pos \in Nat /\ z.cr \in Nat /\ z.offset \in Nat
  BY <1>1 DEF ZFILE
<1>3. Len(z.buf) \in Nat
  BY <1>2, LenProperties
<1>4. Len(z.buf) \in 0..Rec /\ z.buf_pos \in 0..Rec
  <2>1. \A n \in Nat : n <= Rec => n \in 0..Rec
    BY RecordAssumption
  <2> QED BY <1>1, <1>2, <1>3, <2>1, Zenon
<1> QED BY <1>2, <1>4

(* Moving on within the record, and to another record.                     *)
Moved(z, p, o) == [z EXCEPT !.buf_pos = p, !.offset = o]
Reloaded(z, r, p, k, o) == [z EXCEPT !.buf = r, !.buf_pos = p, !.cr = k, !.offset = o]

(* Moving on within a record changes the place alone.                      *)
LEMMA MovedFields ==
    ASSUME NEW z, NEW p, NEW o, ZFILEOK(z)
    PROVE  LET y == Moved(z, p, o)
           IN  /\ y.used = z.used /\ y.name = z.name /\ y.is_write = z.is_write
               /\ y.recs = z.recs /\ y.cr = z.cr /\ y.buf = z.buf
               /\ y.buf_pos = p /\ y.offset = o
BY DEF ZFILEOK, ZFILE, Moved

(* Reading a record changes the buffer and the place alone.                *)
LEMMA ReloadedFields ==
    ASSUME NEW z, NEW r, NEW p, NEW k, NEW o, ZFILEOK(z)
    PROVE  LET y == Reloaded(z, r, p, k, o)
           IN  /\ y.used = z.used /\ y.name = z.name /\ y.is_write = z.is_write
               /\ y.recs = z.recs /\ y.cr = k /\ y.buf = r /\ y.buf_pos = p /\ y.offset = o
BY DEF ZFILEOK, ZFILE, Reloaded

(* A ZFILE moved on within its record is well formed.                      *)
LEMMA MovedOK ==
    ASSUME NEW z, NEW p \in 0..Rec, NEW o \in Nat, ZFILEOK(z)
    PROVE  ZFILEOK(Moved(z, p, o))
<1> DEFINE y == Moved(z, p, o)
<1>1. z \in ZFILE /\ p \in Nat /\ p <= Rec /\ Len(z.buf) <= Rec
  BY RecordAssumption DEF ZFILEOK
<1>2. y \in ZFILE
  BY <1>1 DEF ZFILE, Moved
<1>3. y.buf = z.buf /\ y.buf_pos = p
  BY MovedFields
<1> HIDE DEF y
<1>4. ZFILEOK(y)
  BY <1>1, <1>2, <1>3 DEF ZFILEOK
<1> QED BY <1>4 DEF y

(* A ZFILE with a record read is well formed.                              *)
LEMMA ReloadedOK ==
    ASSUME NEW z, NEW r \in Seq(Byte), NEW p \in 0..Rec, NEW k \in Nat, NEW o \in Nat,
           ZFILEOK(z), Len(r) <= Rec
    PROVE  ZFILEOK(Reloaded(z, r, p, k, o))
<1> DEFINE y == Reloaded(z, r, p, k, o)
<1>1. z \in ZFILE /\ p \in Nat /\ p <= Rec
  BY RecordAssumption DEF ZFILEOK
<1>2. y \in ZFILE
  BY <1>1 DEF ZFILE, Reloaded
<1>3. y.buf = r /\ y.buf_pos = p
  BY ReloadedFields
<1> HIDE DEF y
<1>4. ZFILEOK(y)
  BY <1>1, <1>2, <1>3 DEF ZFILEOK
<1> QED BY <1>4 DEF y

(* A ZFILE not in use is well formed.                                      *)
LEMMA UnusedOK == ZFILEOK(Unused)
BY RecordAssumption, EmptySeq DEF ZFILEOK, ZFILE, Unused, Records

(* Reading on.  z stands at its offset in recs.                            *)
ReadsWell(z, recs) ==
    /\ z.cr \in 0..Len(recs)
    /\ IF z.buf = << >> THEN z.buf_pos = 0 /\ z.offset = z.cr * Rec
       ELSE z.cr > 0 /\ z.buf = recs[z.cr] /\ z.offset = (z.cr - 1) * Rec + z.buf_pos

(* z_fgetc gives a byte or EOF and leaves the ZFILE the same file's.       *)
LEMMA GetcType ==
    ASSUME NEW d, NEW z, DiskOK(d), ZFILEOK(z), z.name \in FileNames
    PROVE  /\ ZFILEOK(Getc(d, z).z) /\ Getc(d, z).c \in Byte \cup {EOF}
           /\ Getc(d, z).z.used = z.used /\ Getc(d, z).z.name = z.name
           /\ Getc(d, z).z.is_write = z.is_write
<1>1. /\ z \in ZFILE /\ z.buf \in Seq(Byte) /\ Len(z.buf) \in 0..Rec /\ z.buf_pos \in 0..Rec
      /\ z.cr \in Nat /\ z.offset \in Nat
  BY FieldsOK DEF ZFILEOK
<1>2. CASE z.buf_pos < Len(z.buf)
  <2>1. z.buf_pos + 1 \in 1..Len(z.buf) /\ z.buf_pos + 1 \in 0..Rec /\ z.offset + 1 \in Nat
    BY <1>1, <1>2, RecordAssumption
  <2>2. z.buf[z.buf_pos + 1] \in Byte
    <3> DEFINE q == z.buf
               i == z.buf_pos + 1
    <3>1. q \in Seq(Byte) /\ i \in 1..Len(q)
      BY <1>1, <2>1
    <3> HIDE DEF q, i
    <3>2. q[i] \in Byte
      BY <3>1
    <3> QED BY <3>2 DEF q, i
  <2>3. /\ Getc(d, z).z = Moved(z, z.buf_pos + 1, z.offset + 1)
        /\ Getc(d, z).c = z.buf[z.buf_pos + 1]
    BY <1>2 DEF Getc, Moved, Reloaded
  <2> DEFINE y == Moved(z, z.buf_pos + 1, z.offset + 1)
  <2>4. ZFILEOK(y) /\ y.used = z.used /\ y.name = z.name /\ y.is_write = z.is_write
    BY <2>1, MovedOK, MovedFields, SMTT(30)
  <2>5. Getc(d, z).z = y
    BY <2>3
  <2> HIDE DEF y
  <2> QED BY <2>2, <2>3, <2>4, <2>5
<1>3. CASE ~ (z.buf_pos < Len(z.buf)) /\ HasRecord(d, z, z.cr)
  <2> DEFINE r == d[z.name][z.cr + 1]
  <2>1. d[z.name] \in Records
    BY <1>3 DEF HasRecord, DiskOK
  <2>2. z.cr + 1 \in 1..Len(d[z.name])
    BY <1>1, <1>3, <2>1 DEF HasRecord, Records
  <2>3. r \in Record
    BY <2>1, <2>2 DEF Records, Record
  <2>4. r[1] \in Byte /\ r \in Seq(Byte) /\ Len(r) = Rec /\ 1 \in 0..Rec
    BY <2>3, RecordIsSequence, RecordAssumption DEF Record
  <2>5. /\ Getc(d, z).z = Reloaded(z, r, 1, z.cr + 1, z.offset + 1)
        /\ Getc(d, z).c = r[1]
    BY <1>3 DEF Getc, Moved, Reloaded
  <2> HIDE DEF r
  <2>6. Len(r) <= Rec
    BY <2>4, RecordAssumption
  <2>7. \A k, o \in Nat : ZFILEOK(Reloaded(z, r, 1, k, o))
    BY <2>4, <2>6, ReloadedOK
  <2>8. z.cr + 1 \in Nat /\ z.offset + 1 \in Nat
    BY <1>1
  <2> QED BY <2>4, <2>5, <2>7, <2>8, ReloadedFields
<1>4. CASE ~ (z.buf_pos < Len(z.buf)) /\ ~ HasRecord(d, z, z.cr)
  BY <1>4 DEF Getc, Moved, Reloaded
<1> QED BY <1>2, <1>3, <1>4

(* z_fgetc gives the next byte of the file, or EOF at its end.             *)
THEOREM GetcReads ==
    ASSUME NEW d, NEW z, DiskOK(d), ZFILEOK(z), z.name \in FileNames,
           d[z.name] \in Records, ReadsWell(z, d[z.name])
    PROVE  /\ z.offset <= Len(Bytes(d[z.name]))
           /\ IF z.offset < Len(Bytes(d[z.name]))
              THEN /\ Getc(d, z).c = Bytes(d[z.name])[z.offset + 1]
                   /\ Getc(d, z).z.offset = z.offset + 1
                   /\ ReadsWell(Getc(d, z).z, d[z.name])
              ELSE Getc(d, z).c = EOF /\ Getc(d, z).z = z
<1> DEFINE recs == d[z.name]
           b == Bytes(recs)
<1>1. /\ z \in ZFILE /\ z.buf \in Seq(Byte) /\ Len(z.buf) \in 0..Rec /\ z.buf_pos \in 0..Rec
      /\ z.cr \in Nat /\ z.offset \in Nat
  BY FieldsOK DEF ZFILEOK
<1>2. /\ Len(recs) \in Nat /\ Len(b) = Len(recs) * Rec /\ z.cr \in 0..Len(recs)
      /\ Len(z.buf) \in Nat
  BY <1>1, BytesType DEF ReadsWell
<1>3. z.buf # << >> => Len(z.buf) = Rec
  <2> SUFFICES ASSUME z.buf # << >> PROVE Len(z.buf) = Rec
    OBVIOUS
  <2>1. z.cr \in 1..Len(recs) /\ z.buf = recs[z.cr]
    BY <1>2 DEF ReadsWell
  <2>2. z.buf \in Record
    BY <2>1 DEF Records, Record
  <2> QED BY <2>2, RecordIsSequence
<1>4. CASE z.buf_pos < Len(z.buf)
  <2>1. z.buf # << >>
    BY <1>1, <1>4
  <2>2. /\ z.cr - 1 \in 0..(Len(recs) - 1) /\ z.buf_pos \in 0..(Rec - 1)
        /\ z.buf = recs[(z.cr - 1) + 1] /\ z.offset = (z.cr - 1) * Rec + z.buf_pos
    <3>1. z.cr > 0 /\ z.buf = recs[z.cr] /\ z.offset = (z.cr - 1) * Rec + z.buf_pos
      BY <2>1 DEF ReadsWell
    <3>2. (z.cr - 1) + 1 = z.cr /\ z.cr - 1 \in 0..(Len(recs) - 1)
      BY <1>2, <3>1
    <3>3. z.buf_pos \in 0..(Rec - 1)
      BY <1>1, <1>3, <1>4, <2>1, RecordAssumption
    <3> QED BY <3>1, <3>2, <3>3
  <2>3. z.offset < Len(b) /\ b[z.offset + 1] = z.buf[z.buf_pos + 1]
    <3> DEFINE k == z.cr - 1
               j == z.buf_pos
    <3>1. k \in 0..(Len(recs) - 1) /\ j \in 0..(Rec - 1) /\ recs \in Records
      BY <2>2 DEF DiskOK
    <3> HIDE DEF k, j
    <3>2. k * Rec + j < Len(b) /\ b[k * Rec + j + 1] = recs[k + 1][j + 1]
      BY <3>1, ByteAt
    <3>3. z.offset = k * Rec + j /\ z.buf = recs[k + 1]
      BY <2>2 DEF k, j
    <3> QED BY <3>2, <3>3 DEF j
  <2>4. /\ Getc(d, z).z = Moved(z, z.buf_pos + 1, z.offset + 1)
        /\ Getc(d, z).c = z.buf[z.buf_pos + 1]
    BY <1>4 DEF Getc, Moved, Reloaded
  <2>5. (z.cr - 1) * Rec + (z.buf_pos + 1) = z.offset + 1
    <3>1. (z.cr - 1) * Rec \in Nat
      BY <2>2, RecordAssumption
    <3> QED BY <2>2, <3>1
  <2>6. /\ Getc(d, z).z.cr = z.cr /\ Getc(d, z).z.buf = z.buf
        /\ Getc(d, z).z.buf_pos = z.buf_pos + 1 /\ Getc(d, z).z.offset = z.offset + 1
    <3> DEFINE y == Moved(z, z.buf_pos + 1, z.offset + 1)
    <3>1. /\ y.cr = z.cr /\ y.buf = z.buf /\ y.buf_pos = z.buf_pos + 1
          /\ y.offset = z.offset + 1
      BY MovedFields
    <3> HIDE DEF y
    <3> QED BY <2>4, <3>1, Zenon DEF y
  <2>7. ReadsWell(Getc(d, z).z, recs)
    BY <1>2, <2>1, <2>2, <2>5, <2>6 DEF ReadsWell
  <2> HIDE DEF b
  <2>8. z.offset <= Len(b)
    BY <1>1, <1>2, <2>3
  <2> QED BY <2>3, <2>4, <2>6, <2>7, <2>8 DEF b
<1>5. CASE ~ (z.buf_pos < Len(z.buf))
  <2>1. z.offset = z.cr * Rec
    <3>1. CASE z.buf = << >>
      BY <3>1 DEF ReadsWell
    <3>2. CASE z.buf # << >>
      <4>1. z.buf_pos = Rec /\ z.offset = (z.cr - 1) * Rec + z.buf_pos
        BY <1>1, <1>3, <1>5, <3>2, RecordAssumption DEF ReadsWell
      <4> QED BY <1>2, <4>1, RecordAssumption
    <3> QED BY <3>1, <3>2
  <2>2. CASE z.cr < Len(recs)
    <3> DEFINE r == recs[z.cr + 1]
    <3>1. r \in Record /\ r \in Seq(Byte) /\ Len(r) = Rec /\ r # << >>
      <4>1. z.cr + 1 \in 1..Len(recs)
        BY <1>2, <2>2
      <4>2. r \in Record
        BY <4>1 DEF Records, Record
      <4> QED BY <4>2, RecordIsSequence, RecordAssumption
    <3>2. HasRecord(d, z, z.cr)
      BY <2>2, NoFileAssumption DEF HasRecord
    <3>3. /\ Getc(d, z).z = Reloaded(z, r, 1, z.cr + 1, z.offset + 1)
          /\ Getc(d, z).c = r[1]
      BY <1>5, <3>2 DEF Getc, Moved, Reloaded
    <3>3a. LET y == Reloaded(z, r, 1, z.cr + 1, z.offset + 1)
           IN  y.cr = z.cr + 1 /\ y.buf = r /\ y.buf_pos = 1 /\ y.offset = z.offset + 1
      <4> HIDE DEF r
      <4> QED BY ReloadedFields
    <3>4. z.cr * Rec + 0 < Len(b) /\ b[z.cr * Rec + 0 + 1] = recs[z.cr + 1][0 + 1]
      <4>1. z.cr \in 0..(Len(recs) - 1) /\ 0 \in 0..(Rec - 1)
        BY <1>2, <2>2, RecordAssumption
      <4> QED BY <4>1, ByteAt
    <3>5. z.offset < Len(b) /\ b[z.offset + 1] = r[1]
      <4>1. z.offset \in Nat
        BY <1>1
      <4>2. z.cr * Rec + 0 = z.offset
        BY <2>1, <4>1
      <4> QED BY <3>4, <4>1, <4>2
    <3>6. ReadsWell(Getc(d, z).z, recs)
      <4>1. (z.cr + 1) - 1 = z.cr /\ z.cr + 1 \in 0..Len(recs) /\ z.cr + 1 > 0
        BY <1>2, <2>2
      <4> HIDE DEF r
      <4>2. /\ Getc(d, z).z.cr = z.cr + 1 /\ Getc(d, z).z.buf = r
            /\ Getc(d, z).z.buf_pos = 1 /\ Getc(d, z).z.offset = z.offset + 1
        BY <3>3, <3>3a, Zenon
      <4> QED BY <2>1, <3>1, <4>1, <4>2 DEF ReadsWell, r
    <3>7. Getc(d, z).z.offset = z.offset + 1
      <4> HIDE DEF r
      <4> QED BY <3>3, <3>3a, Zenon
    <3>8. z.offset <= Len(b)
      BY <1>1, <1>2, <3>5
    <3> HIDE DEF r, b
    <3> QED BY <3>3, <3>5, <3>6, <3>7, <3>8 DEF b
  <2>3. CASE z.cr = Len(recs)
    <3>1. ~ HasRecord(d, z, z.cr)
      BY <1>2, <2>3 DEF HasRecord
    <3>2. z.offset = Len(b)
      BY <1>2, <2>1, <2>3
    <3>3. Getc(d, z).c = EOF /\ Getc(d, z).z = z
      BY <1>5, <3>1 DEF Getc, Moved, Reloaded
    <3>4. z.offset <= Len(b) /\ ~ (z.offset < Len(b))
      BY <1>1, <3>2
    <3> HIDE DEF b
    <3> QED BY <3>3, <3>4 DEF b
  <2> QED BY <1>2, <2>2, <2>3
<1> QED BY <1>4, <1>5

(* z_fseek to a place in the file reads on from there.                     *)
LEMMA SeekType ==
    ASSUME NEW d, NEW z, NEW off \in Nat, DiskOK(d), ZFILEOK(z), z.name \in FileNames
    PROVE  /\ ZFILEOK(Seek(d, z, off))
           /\ Seek(d, z, off).used = z.used /\ Seek(d, z, off).name = z.name
           /\ Seek(d, z, off).is_write = z.is_write
<1> DEFINE k == off \div Rec
           j == off % Rec
<1>1. k \in Nat /\ k + 1 \in Nat /\ j \in 0..Rec /\ k * Rec \in Nat
  BY PlaceOf, RecordAssumption
<1>2. CASE HasRecord(d, z, k)
  <2> DEFINE r == d[z.name][k + 1]
  <2>1. d[z.name] \in Records
    BY <1>2 DEF HasRecord, DiskOK
  <2>2. k + 1 \in 1..Len(d[z.name])
    BY <1>1, <1>2, <2>1 DEF HasRecord, Records
  <2>3. r \in Record
    BY <2>1, <2>2 DEF Records, Record
  <2>4. r \in Seq(Byte) /\ Len(r) <= Rec
    BY <2>3, RecordIsSequence, RecordAssumption
  <2>5. Seek(d, z, off) = Reloaded(z, r, j, k + 1, off)
    BY <1>2 DEF Seek, Reloaded
  <2> HIDE DEF r, k, j
  <2>6. ZFILEOK(Reloaded(z, r, j, k + 1, off))
    BY <1>1, <2>4, ReloadedOK
  <2> QED BY <2>5, <2>6, ReloadedFields
<1>3. CASE ~ HasRecord(d, z, k)
  <2>1. Seek(d, z, off) = Reloaded(z, << >>, 0, k, k * Rec)
    BY <1>3 DEF Seek, Reloaded
  <2>2. << >> \in Seq(Byte) /\ Len(<< >>) <= Rec /\ 0 \in 0..Rec
    BY EmptySeq, RecordAssumption
  <2> HIDE DEF k, j
  <2>3. ZFILEOK(Reloaded(z, << >>, 0, k, k * Rec))
    BY <1>1, <2>2, ReloadedOK
  <2> QED BY <2>1, <2>3, ReloadedFields
<1> QED BY <1>2, <1>3

(* A seek within the file puts it in a state z_fgetc reads on from there.  *)
THEOREM SeekReads ==
    ASSUME NEW d, NEW z, NEW off \in Nat, DiskOK(d), ZFILEOK(z), z.name \in FileNames,
           d[z.name] \in Records, off <= Len(Bytes(d[z.name]))
    PROVE  ReadsWell(Seek(d, z, off), d[z.name]) /\ Seek(d, z, off).offset = off
<1> DEFINE recs == d[z.name]
           k == off \div Rec
           j == off % Rec
<1>1. Len(recs) \in Nat /\ Len(Bytes(recs)) = Len(recs) * Rec
  BY BytesType
<1>2. k \in Nat /\ j \in 0..(Rec - 1) /\ off = k * Rec + j
  BY PlaceOf
<1>3. CASE k < Len(recs)
  <2> DEFINE r == recs[k + 1]
  <2>1. HasRecord(d, z, k)
    BY <1>3, NoFileAssumption DEF HasRecord
  <2>2. r # << >>
    <3>1. k + 1 \in 1..Len(recs)
      BY <1>1, <1>2, <1>3
    <3>2. r \in Record
      BY <3>1 DEF Records, Record
    <3> QED BY <3>2, RecordIsSequence, RecordAssumption
  <2>3. Seek(d, z, off) = Reloaded(z, r, j, k + 1, off)
    BY <2>1 DEF Seek, Reloaded
  <2>4. k + 1 \in 0..Len(recs) /\ k + 1 > 0 /\ (k + 1) - 1 = k
    BY SMTT(30), <1>1, <1>2, <1>3
  <2> HIDE DEF k, j
  <2>5. LET y == Seek(d, z, off)
        IN  y.cr = k + 1 /\ y.buf = r /\ y.buf_pos = j /\ y.offset = off
    <3> HIDE DEF r
    <3> QED BY <2>3, ReloadedFields
  <2> QED BY <1>2, <2>2, <2>4, <2>5 DEF ReadsWell
<1>4. CASE ~ (k < Len(recs))
  <2>1. ~ HasRecord(d, z, k)
    BY <1>4 DEF HasRecord
  <2>2. ~ (off < Len(recs) * Rec)
    BY <1>1, <1>4, PlaceWithin
  <2>3. off = Len(recs) * Rec
    BY <1>1, <2>2, RecordAssumption
  <2>4. k = Len(recs) /\ k * Rec = off
    <3>1. Len(recs) * Rec + 0 = Len(recs) * Rec /\ 0 \in 0..(Rec - 1)
      BY <1>1, RecordAssumption
    <3>2. (Len(recs) * Rec + 0) \div Rec = Len(recs)
      BY <1>1, <3>1, RecordOf
    <3> QED BY <2>3, <3>1, <3>2
  <2>5. Seek(d, z, off) = Reloaded(z, << >>, 0, k, k * Rec)
    BY <2>1 DEF Seek, Reloaded
  <2> HIDE DEF k, j
  <2>6. LET y == Seek(d, z, off)
        IN  y.cr = k /\ y.buf = << >> /\ y.buf_pos = 0 /\ y.offset = k * Rec
    BY <2>5, ReloadedFields
  <2> QED BY <1>1, <2>4, <2>6 DEF ReadsWell
<1> QED BY <1>3, <1>4
-----------------------------------------------------------------------------
(* Writing.  The bytes written so far are those of the records and those   *)
(* of the one being filled.                                                *)
Stream(z) == Bytes(z.recs) \o z.buf

(* Of the ZFILEs one changed, the others are as they were.                 *)
LEMMA PoolUpdate ==
    ASSUME NEW zs, NEW i \in 1..MAX_FILES, NEW z, PoolOK(zs), ZFILEOK(z)
    PROVE  /\ PoolOK([zs EXCEPT ![i] = z])
           /\ [zs EXCEPT ![i] = z][i] = z
           /\ \A j \in 1..MAX_FILES : j # i => [zs EXCEPT ![i] = z][j] = zs[j]
BY DEF PoolOK

Longer(z, r) == [z EXCEPT !.recs = r]
Filled(z, b, o) == [z EXCEPT !.buf = b, !.offset = o]
Emptied(z) == [z EXCEPT !.buf = << >>]

(* A record more written changes the records alone.                        *)
LEMMA LongerOK ==
    ASSUME NEW z, NEW r \in Records, ZFILEOK(z)
    PROVE  /\ ZFILEOK(Longer(z, r))
           /\ Longer(z, r).used = z.used /\ Longer(z, r).name = z.name
           /\ Longer(z, r).is_write = z.is_write /\ Longer(z, r).buf = z.buf
           /\ Longer(z, r).recs = r
<1> DEFINE y == Longer(z, r)
<1>1. z \in ZFILE /\ Len(z.buf) <= Rec /\ z.buf_pos <= Rec
  BY DEF ZFILEOK
<1>2. y \in ZFILE
  BY <1>1 DEF ZFILE, Longer
<1>3. /\ y.used = z.used /\ y.name = z.name /\ y.is_write = z.is_write
      /\ y.buf = z.buf /\ y.buf_pos = z.buf_pos /\ y.recs = r
  BY <1>1 DEF ZFILE, Longer
<1> HIDE DEF y
<1>4. ZFILEOK(y)
  BY <1>1, <1>2, <1>3 DEF ZFILEOK
<1> QED BY <1>3, <1>4 DEF y

(* A byte more buffered changes the buffer and the offset alone.           *)
LEMMA FilledOK ==
    ASSUME NEW z, NEW b \in Seq(Byte), NEW o \in Nat, ZFILEOK(z), Len(b) <= Rec
    PROVE  /\ ZFILEOK(Filled(z, b, o))
           /\ Filled(z, b, o).used = z.used /\ Filled(z, b, o).name = z.name
           /\ Filled(z, b, o).is_write = z.is_write /\ Filled(z, b, o).buf = b
           /\ Filled(z, b, o).recs = z.recs
<1> DEFINE y == Filled(z, b, o)
<1>1. z \in ZFILE /\ Len(z.buf) <= Rec /\ z.buf_pos <= Rec
  BY DEF ZFILEOK
<1>2. y \in ZFILE
  BY <1>1 DEF ZFILE, Filled
<1>3. /\ y.used = z.used /\ y.name = z.name /\ y.is_write = z.is_write
      /\ y.buf = b /\ y.buf_pos = z.buf_pos /\ y.recs = z.recs
  BY <1>1 DEF ZFILE, Filled
<1> HIDE DEF y
<1>4. ZFILEOK(y)
  BY <1>1, <1>2, <1>3 DEF ZFILEOK
<1> QED BY <1>3, <1>4 DEF y

(* A buffer flushed changes the buffer alone.                              *)
LEMMA EmptiedOK ==
    ASSUME NEW z, ZFILEOK(z)
    PROVE  /\ ZFILEOK(Emptied(z))
           /\ Emptied(z).used = z.used /\ Emptied(z).name = z.name
           /\ Emptied(z).is_write = z.is_write /\ Emptied(z).buf = << >>
           /\ Emptied(z).recs = z.recs
<1> DEFINE y == Emptied(z)
<1>1. z \in ZFILE /\ z.buf_pos <= Rec /\ << >> \in Seq(Byte) /\ Len(<< >>) <= Rec
  BY RecordAssumption, EmptySeq DEF ZFILEOK
<1>2. y \in ZFILE
  BY <1>1 DEF ZFILE, Emptied
<1>3. /\ y.used = z.used /\ y.name = z.name /\ y.is_write = z.is_write
      /\ y.buf = << >> /\ y.buf_pos = z.buf_pos /\ y.recs = z.recs
  BY <1>1 DEF ZFILE, Emptied
<1> HIDE DEF y
<1>4. ZFILEOK(y)
  BY <1>1, <1>2, <1>3 DEF ZFILEOK
<1> QED BY <1>3, <1>4 DEF y

(* An operation on handle i, of a file n, leaves the others alone.         *)
Confined(w, zs, d, i, n) ==
    /\ PoolOK(w.zs) /\ DiskOK(w.disk)
    /\ \A j \in 1..MAX_FILES : j # i => w.zs[j] = zs[j]
    /\ \A m \in FileNames : m # n => w.disk[m] = d[m]
SameFile(z, y) == z.used = y.used /\ z.name = y.name /\ z.is_write = y.is_write

(* A record is written whole or not at all.                                *)
LEMMA WriteSequentialWrites ==
    ASSUME NEW zs, NEW d, NEW i \in 1..MAX_FILES, NEW r \in Record,
           PoolOK(zs), DiskOK(d), zs[i].name \in FileNames
    PROVE  LET w == WriteSequential(zs, d, i, r)
           IN  /\ Confined(w, zs, d, i, zs[i].name)
               /\ SameFile(w.zs[i], zs[i]) /\ w.zs[i].buf = zs[i].buf
               /\ w.ok \in BOOLEAN
               /\ w.ok => w.zs[i].recs = Append(zs[i].recs, r)
<1> DEFINE w == WriteSequential(zs, d, i, r)
           recs == Append(zs[i].recs, r)
           y == Longer(zs[i], recs)
<1>1. ZFILEOK(zs[i])
  BY DEF PoolOK
<1>2. recs \in Records
  BY <1>1, FieldsOK, BytesAppend
<1>3. CASE DiskFull(zs, d)
  <2>1. w = [zs |-> zs, disk |-> d, ok |-> FALSE]
    BY <1>3 DEF WriteSequential
  <2> HIDE DEF w
  <2>2. w.zs = zs /\ w.disk = d /\ w.ok = FALSE
    BY <2>1
  <2>3. Confined(w, zs, d, i, zs[i].name) /\ SameFile(w.zs[i], zs[i])
    BY <2>2 DEF Confined, SameFile
  <2> QED BY <2>2, <2>3 DEF w
<1>4. CASE ~ DiskFull(zs, d)
  <2> DEFINE e == IF Len(recs) % Extent = 0 THEN [d EXCEPT ![zs[i].name] = recs] ELSE d
             ys == [zs EXCEPT ![i] = y]
  <2>1. w = [zs |-> ys, disk |-> e, ok |-> TRUE]
    BY <1>4 DEF WriteSequential, Longer
  <2>2. DiskOK(e) /\ \A m \in FileNames : m # zs[i].name => e[m] = d[m]
    <3> HIDE DEF recs
    <3> QED BY <1>2 DEF DiskOK
  <2>3. /\ ZFILEOK(y) /\ y.used = zs[i].used /\ y.name = zs[i].name
        /\ y.is_write = zs[i].is_write /\ y.buf = zs[i].buf /\ y.recs = recs
    <3> HIDE DEF recs
    <3> QED BY <1>1, <1>2, LongerOK
  <2> HIDE DEF y
  <2>4. PoolOK(ys) /\ ys[i] = y /\ \A j \in 1..MAX_FILES : j # i => ys[j] = zs[j]
    BY <2>3, PoolUpdate
  <2> HIDE DEF w, e, ys
  <2>5. w.zs = ys /\ w.disk = e /\ w.ok = TRUE
    BY <2>1
  <2>6. Confined(w, zs, d, i, zs[i].name) /\ SameFile(w.zs[i], zs[i])
    BY <2>2, <2>3, <2>4, <2>5 DEF Confined, SameFile
  <2> QED BY <2>3, <2>4, <2>5, <2>6 DEF w
<1> QED BY <1>3, <1>4

(* z_fputc adds a byte to those written, and fills no record further than  *)
(* it goes.                                                                *)
LEMMA PutcWrites ==
    ASSUME NEW zs, NEW d, NEW i \in 1..MAX_FILES, NEW c \in Byte,
           PoolOK(zs), DiskOK(d), zs[i].name \in FileNames
    PROVE  LET w == Putc(zs, d, i, c)
           IN  /\ Confined(w, zs, d, i, zs[i].name)
               /\ SameFile(w.zs[i], zs[i])
               /\ w.ok \in BOOLEAN
               /\ w.ok => Stream(w.zs[i]) = Append(Stream(zs[i]), c) /\ Len(w.zs[i].buf) < Rec
<1> DEFINE w == Putc(zs, d, i, c)
           buf == Append(zs[i].buf, c)
           y == Filled(zs[i], buf, zs[i].offset + 1)
           ys == [zs EXCEPT ![i] = y]
           s == WriteSequential(ys, d, i, buf)
<1>1. ZFILEOK(zs[i])
  BY DEF PoolOK
<1>2. /\ zs[i].buf \in Seq(Byte) /\ Len(zs[i].buf) \in 0..Rec /\ zs[i].recs \in Records
      /\ zs[i].offset + 1 \in Nat
  <2>1. /\ zs[i].buf \in Seq(Byte) /\ Len(zs[i].buf) \in 0..Rec /\ zs[i].recs \in Records
        /\ zs[i].offset \in Nat
    BY <1>1, FieldsOK
  <2>2. \A o \in Nat : o + 1 \in Nat
    OBVIOUS
  <2> QED BY <2>1, <2>2, Zenon
<1>3. buf \in Seq(Byte) /\ Len(buf) = Len(zs[i].buf) + 1
  BY <1>2, AppendProperties
<1>4. CASE Len(zs[i].buf) >= Rec
  <2>1. w = [zs |-> zs, disk |-> d, ok |-> FALSE]
    BY <1>4 DEF Putc
  <2> HIDE DEF w
  <2>2. w.zs = zs /\ w.disk = d /\ w.ok = FALSE
    BY <2>1
  <2>3. Confined(w, zs, d, i, zs[i].name) /\ SameFile(w.zs[i], zs[i])
    BY <2>2 DEF Confined, SameFile
  <2> QED BY <2>2, <2>3 DEF w
<1>5. CASE Len(zs[i].buf) < Rec
  <2>1. ~ (Len(zs[i].buf) >= Rec) /\ Len(buf) <= Rec
    BY <1>2, <1>3, <1>5, RecordAssumption
  <2>2. /\ ZFILEOK(y) /\ y.used = zs[i].used /\ y.name = zs[i].name
        /\ y.is_write = zs[i].is_write /\ y.buf = buf /\ y.recs = zs[i].recs
    <3> DEFINE z == zs[i]
               o == z.offset + 1
    <3>1. o \in Nat /\ buf \in Seq(Byte) /\ Len(buf) <= Rec /\ ZFILEOK(z)
      BY <1>1, <1>2, <1>3, <2>1
    <3> HIDE DEF buf, o, z
    <3>2. /\ ZFILEOK(Filled(z, buf, o))
          /\ Filled(z, buf, o).used = z.used /\ Filled(z, buf, o).name = z.name
          /\ Filled(z, buf, o).is_write = z.is_write
          /\ Filled(z, buf, o).buf = buf /\ Filled(z, buf, o).recs = z.recs
      BY SMTT(30), <3>1, FilledOK
    <3> QED BY <3>2, Zenon DEF o, z
  <2>3. ys = [zs EXCEPT ![i].buf = buf, ![i].offset = @ + 1]
    <3> DEFINE o == zs[i].offset + 1
               y1 == [zs[i] EXCEPT !.buf = buf]
               z1 == [zs EXCEPT ![i] = y1]
    <3> HIDE DEF buf
    <3>1. i \in DOMAIN zs /\ zs[i] \in ZFILE
      BY <1>1 DEF PoolOK, ZFILEOK
    <3>2. z1[i] = y1 /\ y1.offset = zs[i].offset
      BY <3>1 DEF ZFILE
    <3>3. [z1 EXCEPT ![i] = [y1 EXCEPT !.offset = o]] = [zs EXCEPT ![i] = [y1 EXCEPT !.offset = o]]
      BY <3>1
    <3>4. y = [y1 EXCEPT !.offset = o]
      BY DEF Filled
    <3>5. [zs EXCEPT ![i].buf = buf, ![i].offset = @ + 1] = [z1 EXCEPT ![i] = [y1 EXCEPT !.offset = o]]
      BY <3>1, <3>2
    <3> QED BY <3>3, <3>4, <3>5
  <2>4. w = IF Len(buf) < Rec THEN [zs |-> ys, disk |-> d, ok |-> TRUE]
            ELSE IF ~s.ok THEN s
            ELSE [s EXCEPT !.zs[i].buf = << >>]
    <3> HIDE DEF ys
    <3> QED BY SMTT(30), <2>1, <2>3 DEF Putc
  <2> HIDE DEF y
  <2>5. PoolOK(ys) /\ ys[i] = y /\ \A j \in 1..MAX_FILES : j # i => ys[j] = zs[j]
    BY <2>2, PoolUpdate
  <2>6. Bytes(zs[i].recs) \in Seq(Byte)
    BY <1>2, BytesType
  <2>7. Bytes(zs[i].recs) \o buf = Append(Stream(zs[i]), c)
    <3> DEFINE b == Bytes(zs[i].recs)
               e == zs[i].buf
    <3>1. b \in Seq(Byte) /\ e \in Seq(Byte) /\ Stream(zs[i]) = b \o e
      BY <1>2, <2>6 DEF Stream
    <3> HIDE DEF b, e
    <3>2. b \o Append(e, c) = Append(b \o e, c)
      BY <3>1
    <3> QED BY <3>1, <3>2 DEF b, e
  <2>8. CASE Len(buf) < Rec
    <3>1. w = [zs |-> ys, disk |-> d, ok |-> TRUE]
      BY <2>4, <2>8
    <3> HIDE DEF w, ys, buf
    <3>2. w.zs = ys /\ w.disk = d /\ w.ok = TRUE
      BY <3>1
    <3>3. Confined(w, zs, d, i, zs[i].name) /\ SameFile(w.zs[i], zs[i])
      BY <2>2, <2>5, <3>2 DEF Confined, SameFile
    <3>4. Stream(w.zs[i]) = Append(Stream(zs[i]), c) /\ Len(w.zs[i].buf) < Rec
      BY <2>2, <2>5, <2>7, <2>8, <3>2 DEF Stream
    <3> QED BY <3>2, <3>3, <3>4 DEF w
  <2>9. CASE ~ (Len(buf) < Rec)
    <3>1. buf \in Record
      <4>1. Len(buf) = Rec
        BY <1>3, <2>1, <2>9, RecordAssumption
      <4> HIDE DEF buf
      <4> QED BY <1>3, <4>1 DEF Record
    <3>2. ys[i].name = zs[i].name /\ ys[i].name \in FileNames
      BY <2>2, <2>5
    <3> HIDE DEF w, ys, buf
    <3>3. /\ Confined(s, ys, d, i, ys[i].name)
          /\ SameFile(s.zs[i], ys[i]) /\ s.zs[i].buf = ys[i].buf
          /\ s.ok \in BOOLEAN
          /\ s.ok => s.zs[i].recs = Append(ys[i].recs, buf)
      BY <2>5, <3>1, <3>2, WriteSequentialWrites
    <3>4. s = [zs |-> s.zs, disk |-> s.disk, ok |-> s.ok]
      BY DEF WriteSequential
    <3> HIDE DEF s
    <3>5. CASE ~ s.ok
      <4>1. w = s
        BY <2>4, <2>9, <3>5
      <4>2. Confined(w, zs, d, i, zs[i].name) /\ SameFile(w.zs[i], zs[i])
        BY <2>2, <2>5, <3>2, <3>3, <4>1 DEF Confined, SameFile
      <4> QED BY <3>3, <3>5, <4>1, <4>2 DEF w
    <3>6. CASE s.ok
      <4> DEFINE x == Emptied(s.zs[i])
                 xs == [s.zs EXCEPT ![i] = x]
      <4>1. PoolOK(s.zs) /\ DiskOK(s.disk) /\ ZFILEOK(s.zs[i])
        BY <3>3 DEF Confined, PoolOK
      <4>2. w = [zs |-> xs, disk |-> s.disk, ok |-> TRUE]
        <5>1. w = [s EXCEPT !.zs[i].buf = << >>]
          BY <2>4, <2>9, <3>6
        <5>2. w = [s EXCEPT !.zs = xs]
          BY <3>4, <4>1, <5>1 DEF Emptied, PoolOK
        <5> HIDE DEF xs
        <5>3. s.ok = TRUE
          BY <3>3, <3>6
        <5> QED BY <3>4, <5>2, <5>3
      <4>3. /\ ZFILEOK(x) /\ x.used = s.zs[i].used /\ x.name = s.zs[i].name
            /\ x.is_write = s.zs[i].is_write /\ x.buf = << >> /\ x.recs = s.zs[i].recs
        BY <4>1, EmptiedOK
      <4> HIDE DEF x
      <4>4. PoolOK(xs) /\ xs[i] = x /\ \A j \in 1..MAX_FILES : j # i => xs[j] = s.zs[j]
        BY <4>1, <4>3, PoolUpdate
      <4> HIDE DEF xs
      <4>5. w.zs = xs /\ w.disk = s.disk /\ w.ok = TRUE
        BY <4>2
      <4>6. Confined(w, zs, d, i, zs[i].name)
        BY <2>5, <3>2, <3>3, <4>1, <4>4, <4>5 DEF Confined
      <4>7. SameFile(w.zs[i], zs[i])
        BY <2>2, <2>5, <3>3, <4>3, <4>4, <4>5 DEF SameFile
      <4>8. Stream(w.zs[i]) = Append(Stream(zs[i]), c)
        <5>1. w.zs[i].buf = << >> /\ w.zs[i].recs = Append(zs[i].recs, buf)
          BY <2>2, <2>5, <3>3, <3>6, <4>3, <4>4, <4>5
        <5>2. Bytes(Append(zs[i].recs, buf)) = Bytes(zs[i].recs) \o buf
          BY <1>2, <3>1, BytesAppend
        <5>3. Bytes(zs[i].recs) \o buf \in Seq(Byte)
          BY <1>3, <2>6
        <5>4. Stream(w.zs[i]) = (Bytes(zs[i].recs) \o buf) \o << >>
          BY <5>1, <5>2 DEF Stream
        <5> QED BY <2>7, <5>3, <5>4
      <4>9. Len(w.zs[i].buf) < Rec
        <5>1. w.zs[i].buf = << >>
          BY <4>3, <4>4, <4>5
        <5> QED BY <5>1, RecordAssumption
      <4> QED BY <4>5, <4>6, <4>7, <4>8, <4>9 DEF w
    <3> QED BY <3>5, <3>6
  <2> QED BY <2>8, <2>9
<1> QED BY <1>2, <1>4, <1>5, RecordAssumption

(* The last record is filled up with ^Z.                                   *)
LEMMA PaddedRecord ==
    ASSUME NEW b \in Seq(Byte), Len(b) <= Rec
    PROVE  /\ Padded(b) \in Record
           /\ \E p \in Seq(Byte) : Padded(b) = b \o p /\ (p # << >> => p[1] = CtrlZ)
<1> DEFINE n == Rec - Len(b)
           p == [j \in 1..n |-> CtrlZ]
<1>1. Len(b) \in Nat /\ n \in Nat /\ Len(b) + n = Rec
  BY LenProperties, RecordAssumption
<1>2. p \in Seq(Byte) /\ Len(p) = n
  <2> HIDE DEF n
  <2> QED BY <1>1, ByteAssumption
<1>3. p # << >> => p[1] = CtrlZ
  <2> HIDE DEF n
  <2> QED BY <1>1
<1>4. Padded(b) = b \o p
  BY DEF Padded
<1> HIDE DEF p
<1>5. b \o p \in Seq(Byte) /\ Len(b \o p) = Rec
  BY <1>1, <1>2, ConcatProperties
<1>6. b \o p \in Record
  <2> DEFINE q == b \o p
  <2>1. q \in Seq(Byte) /\ Len(q) = Rec
    BY <1>5
  <2> HIDE DEF q
  <2>2. q \in Record
    BY <2>1 DEF Record
  <2> QED BY <2>2 DEF q
<1> QED BY <1>2, <1>3, <1>4, <1>6

(* z_fclose frees the handle, and what was written is in the directory up  *)
(* to its end or a ^Z.                                                     *)
THEOREM CloseCloses ==
    ASSUME NEW zs, NEW d, NEW i \in 1..MAX_FILES,
           PoolOK(zs), DiskOK(d), zs[i].name \in FileNames
    PROVE  LET w == Close(zs, d, i)
           IN  /\ Confined(w, zs, d, i, zs[i].name)
               /\ w.zs[i] = Unused
               /\ w.ok \in BOOLEAN
               /\ ~zs[i].is_write => w.disk = d /\ w.ok
               /\ zs[i].is_write => w.disk[zs[i].name] \in Records
               /\ zs[i].is_write /\ w.ok =>
                    \E p \in Seq(Byte) :
                        /\ Bytes(w.disk[zs[i].name]) = Stream(zs[i]) \o p
                        /\ p # << >> => p[1] = CtrlZ
<1> DEFINE w == Close(zs, d, i)
           z == zs[i]
           n == zs[i].name
           s == IF z.is_write /\ z.buf # << >> THEN WriteSequential(zs, d, i, Padded(z.buf))
                ELSE [zs |-> zs, disk |-> d, ok |-> TRUE]
           e == IF z.is_write THEN [s.disk EXCEPT ![n] = s.zs[i].recs] ELSE s.disk
           us == [s.zs EXCEPT ![i] = Unused]
<1>1. ZFILEOK(z) /\ z.buf \in Seq(Byte) /\ Len(z.buf) <= Rec /\ z.recs \in Records
  BY FieldsOK DEF PoolOK, ZFILEOK
<1>2. w = [zs |-> us, disk |-> e, ok |-> s.ok]
  BY DEF Close
<1>3. /\ Confined(s, zs, d, i, n) /\ s.ok \in BOOLEAN
      /\ ~z.is_write => s.disk = d /\ s.ok
      /\ z.is_write /\ s.ok =>
            \E p \in Seq(Byte) : Bytes(s.zs[i].recs) = Stream(z) \o p /\ (p # << >> => p[1] = CtrlZ)
  <2>1. CASE z.is_write /\ z.buf # << >>
    <3> DEFINE r == Padded(z.buf)
    <3>1. r \in Record /\ \E p \in Seq(Byte) : r = z.buf \o p /\ (p # << >> => p[1] = CtrlZ)
      BY <1>1, PaddedRecord
    <3> HIDE DEF r
    <3>2. /\ Confined(WriteSequential(zs, d, i, r), zs, d, i, n)
          /\ WriteSequential(zs, d, i, r).ok \in BOOLEAN
          /\ WriteSequential(zs, d, i, r).ok =>
                WriteSequential(zs, d, i, r).zs[i].recs = Append(z.recs, r)
      BY <3>1, WriteSequentialWrites
    <3>3. s = WriteSequential(zs, d, i, r)
      BY <2>1 DEF r
    <3>4. Bytes(Append(z.recs, r)) = Bytes(z.recs) \o r
      BY <1>1, <3>1, BytesAppend
    <3>5. PICK p \in Seq(Byte) : r = z.buf \o p /\ (p # << >> => p[1] = CtrlZ)
      BY <3>1
    <3>6. Bytes(z.recs) \o r = Stream(z) \o p
      <4> DEFINE b == Bytes(z.recs)
      <4>1. b \in Seq(Byte) /\ Stream(z) = b \o z.buf
        BY <1>1, BytesType DEF Stream
      <4> HIDE DEF b, z
      <4>2. b \o (z.buf \o p) = (b \o z.buf) \o p
        <5>1. \A x, y, q \in Seq(Byte) : x \o (y \o q) = (x \o y) \o q
          OBVIOUS
        <5> QED BY <1>1, <4>1, <3>5, <5>1, Zenon
      <4> QED BY <3>5, <4>1, <4>2 DEF b
    <3> HIDE DEF s
    <3> QED BY <2>1, <3>2, <3>3, <3>4, <3>5, <3>6
  <2>2. CASE ~ (z.is_write /\ z.buf # << >>)
    <3>1. s = [zs |-> zs, disk |-> d, ok |-> TRUE]
      BY <2>2
    <3> HIDE DEF s
    <3>2. s.zs = zs /\ s.disk = d /\ s.ok = TRUE
      BY <3>1
    <3>3. Confined(s, zs, d, i, n)
      BY <3>2 DEF Confined
    <3>4. ASSUME z.is_write
          PROVE  Bytes(z.recs) = Stream(z) \o << >>
      <4> DEFINE b == Bytes(z.recs)
      <4>1. b \in Seq(Byte) /\ Stream(z) = b \o << >>
        BY <1>1, <2>2, <3>4, BytesType DEF Stream
      <4> HIDE DEF b
      <4>2. b = (b \o << >>) \o << >>
        BY <4>1
      <4> QED BY <4>1, <4>2 DEF b
    <3>5. << >> \in Seq(Byte)
      BY EmptySeq
    <3> QED BY <3>2, <3>3, <3>4, <3>5
  <2> QED BY <2>1, <2>2
<1> HIDE DEF w, s
<1>4. PoolOK(s.zs) /\ DiskOK(s.disk) /\ s.zs[i].recs \in Records
  <2>1. PoolOK(s.zs) /\ DiskOK(s.disk)
    BY <1>3 DEF Confined
  <2>2. ZFILEOK(s.zs[i])
    BY <2>1 DEF PoolOK
  <2> QED BY <2>1, <2>2, FieldsOK
<1>5. PoolOK(us) /\ us[i] = Unused /\ \A j \in 1..MAX_FILES : j # i => us[j] = s.zs[j]
  BY <1>4, UnusedOK, PoolUpdate
<1>6. /\ DiskOK(e) /\ \A m \in FileNames : m # n => e[m] = s.disk[m]
      /\ z.is_write => e[n] = s.zs[i].recs
      /\ ~z.is_write => e = s.disk
  BY <1>4 DEF DiskOK
<1> HIDE DEF e, us
<1>7. w.zs = us /\ w.disk = e /\ w.ok = s.ok
  BY <1>2
<1>8. Confined(w, zs, d, i, n)
  BY <1>3, <1>5, <1>6, <1>7 DEF Confined
<1>9. z.is_write => w.disk[n] \in Records
  BY <1>4, <1>6, <1>7
<1> QED BY <1>3, <1>5, <1>6, <1>7, <1>8, <1>9 DEF w

(* z_fopen takes a handle not in use, if there is one.                     *)
LEMMA FreeHandle ==
    ASSUME NEW zs, PoolOK(zs), Free(zs) # {}
    PROVE  Min(Free(zs)) \in 1..MAX_FILES /\ ~zs[Min(Free(zs))].used
<1>1. Free(zs) \subseteq 1..MAX_FILES /\ \A j \in Free(zs) : ~zs[j].used
  BY DEF Free, PoolOK
<1>2. \E x \in Free(zs) : \A k \in Free(zs) : x <= k
  <2>1. Free(zs) \subseteq Nat
    BY <1>1
  <2> QED BY <2>1, Least
<1>3. Min(Free(zs)) \in Free(zs)
  BY <1>2 DEF Min
<1> QED BY <1>1, <1>3

Opened(n, writing) == [Unused EXCEPT !.used = TRUE, !.name = n, !.is_write = writing]

(* A ZFILE just opened is well formed, at the start of its file.           *)
LEMMA OpenedOK ==
    ASSUME NEW n \in FileNames, NEW writing \in BOOLEAN
    PROVE  /\ ZFILEOK(Opened(n, writing))
           /\ Opened(n, writing).used /\ Opened(n, writing).name = n
           /\ Opened(n, writing).is_write = writing
           /\ Opened(n, writing).recs = << >> /\ Opened(n, writing).buf = << >>
           /\ Opened(n, writing).buf_pos = 0 /\ Opened(n, writing).cr = 0
           /\ Opened(n, writing).offset = 0
<1> DEFINE y == Opened(n, writing)
<1>1. Unused \in ZFILE /\ n \in FileNames \cup {""}
  BY UnusedOK DEF ZFILEOK
<1>2. /\ y.used = TRUE /\ y.name = n /\ y.is_write = writing /\ y.recs = << >>
      /\ y.buf = << >> /\ y.buf_pos = 0 /\ y.cr = 0 /\ y.offset = 0
  <2>1. /\ Unused.recs = << >> /\ Unused.buf = << >> /\ Unused.buf_pos = 0
        /\ Unused.cr = 0 /\ Unused.offset = 0
    BY DEF Unused
  <2>2. /\ y.used = TRUE /\ y.name = n /\ y.is_write = writing /\ y.recs = Unused.recs
        /\ y.buf = Unused.buf /\ y.buf_pos = Unused.buf_pos /\ y.cr = Unused.cr
        /\ y.offset = Unused.offset
    BY <1>1 DEF Opened, ZFILE
  <2> QED BY <2>1, <2>2
<1>3. y \in ZFILE
  BY <1>1 DEF ZFILE, Opened
<1> HIDE DEF y
<1>4. ZFILEOK(y)
  BY <1>2, <1>3, RecordAssumption, EmptySeq DEF ZFILEOK
<1> QED BY <1>2, <1>4 DEF y

OpensForReading(zs, d, n, o) ==
    /\ o.disk = d /\ o.file \in 0..MAX_FILES
    /\ o.file = 0 => o.zs = zs
    /\ o.file # 0 =>
         /\ o.file \in 1..MAX_FILES /\ ~zs[o.file].used /\ d[n] \in Records
         /\ o.zs = [zs EXCEPT ![o.file] = Opened(n, FALSE)]
    /\ Free(zs) # {} /\ d[n] # NoFile => o.file # 0

(* z_fopen for reading takes a free handle and leaves the files alone, or  *)
(* gives none.                                                             *)
LEMMA OpenReadOpens ==
    ASSUME NEW zs, NEW d, NEW n \in FileNames, PoolOK(zs), DiskOK(d)
    PROVE  OpensForReading(zs, d, n, OpenRead(zs, d, n))
<1> DEFINE o == OpenRead(zs, d, n)
           i == Min(Free(zs))
<1>1. CASE Free(zs) = {} \/ d[n] = NoFile
  <2>1. o = [zs |-> zs, disk |-> d, file |-> 0]
    BY <1>1 DEF OpenRead, FailedOpen
  <2> HIDE DEF o
  <2>2. o.zs = zs /\ o.disk = d /\ o.file = 0
    BY <2>1
  <2>3. OpensForReading(zs, d, n, o)
    BY <1>1, <2>2, PoolAssumption DEF OpensForReading
  <2> QED BY <2>3 DEF o
<1>2. CASE ~ (Free(zs) = {} \/ d[n] = NoFile)
  <2>1. i \in 1..MAX_FILES /\ ~zs[i].used /\ d[n] \in Records
    BY <1>2, FreeHandle DEF DiskOK
  <2>2. Opened(n, FALSE) = [Unused EXCEPT !.used = TRUE, !.name = n]
    <3> DEFINE u == [Unused EXCEPT !.used = TRUE, !.name = n]
    <3>1. Unused \in ZFILE /\ Unused.is_write = FALSE
      BY UnusedOK DEF ZFILEOK, Unused
    <3>2. u \in ZFILE /\ u.is_write = FALSE
      BY <3>1 DEF ZFILE
    <3>3. Opened(n, FALSE) = [u EXCEPT !.is_write = FALSE]
      BY DEF Opened
    <3> HIDE DEF u
    <3>4. [u EXCEPT !.is_write = FALSE] = u
      BY <3>2 DEF ZFILE
    <3> QED BY <3>3, <3>4 DEF u
  <2>3. o = [zs |-> [zs EXCEPT ![i] = Opened(n, FALSE)], disk |-> d, file |-> i]
    BY <1>2, <2>2 DEF OpenRead
  <2> HIDE DEF o, i
  <2>4. o.zs = [zs EXCEPT ![i] = Opened(n, FALSE)] /\ o.disk = d /\ o.file = i
    BY <2>3
  <2>5. i # 0 /\ i \in 0..MAX_FILES
    BY <2>1, PoolAssumption
  <2>6. OpensForReading(zs, d, n, o)
    BY <2>1, <2>4, <2>5 DEF OpensForReading
  <2> QED BY <2>6 DEF o
<1> QED BY <1>1, <1>2

(* The handle just opened can be moved at once.                            *)
OpensAt(zs, d, i, z, r) == r.disk = d /\ r.zs = [zs EXCEPT ![i] = z]

(* A file opened for reading and moved to another place is one handle      *)
(* changed.                                                                *)
LEMMA OpenReadThen ==
    ASSUME NEW zs, NEW d, NEW n \in FileNames, NEW z, PoolOK(zs), DiskOK(d),
           OpenRead(zs, d, n).file # 0
    PROVE  LET o == OpenRead(zs, d, n)
           IN  /\ OpensAt(zs, d, o.file, z, [o EXCEPT !.zs[o.file] = z])
               /\ o.zs[o.file] = Opened(n, FALSE)
<1> DEFINE o == OpenRead(zs, d, n)
           i == o.file
           y == Opened(n, FALSE)
<1>1. OpensForReading(zs, d, n, o)
  BY OpenReadOpens
<1>2. o = [zs |-> o.zs, disk |-> o.disk, file |-> o.file]
  BY DEF OpenRead, FailedOpen
<1> HIDE DEF o
<1>3. i \in 1..MAX_FILES /\ o.zs = [zs EXCEPT ![i] = y] /\ o.disk = d /\ DOMAIN zs = 1..MAX_FILES
  BY <1>1 DEF OpensForReading, PoolOK, o
<1> HIDE DEF y, i
<1>4. [o.zs EXCEPT ![i] = z] = [zs EXCEPT ![i] = z] /\ o.zs[i] = y
  BY <1>3
<1>5. ([o EXCEPT !.zs[i] = z]).zs = [o.zs EXCEPT ![i] = z] /\ ([o EXCEPT !.zs[i] = z]).disk = o.disk
  BY <1>2
<1>6. OpensAt(zs, d, i, z, [o EXCEPT !.zs[i] = z])
  BY <1>3, <1>4, <1>5 DEF OpensAt
<1> QED BY <1>4, <1>6 DEF o, i, y

OpensForWriting(zs, d, n, refused, o) ==
    /\ o.file \in 0..MAX_FILES /\ DiskOK(o.disk)
    /\ \A m \in FileNames : m # n => o.disk[m] = d[m]
    /\ o.file = 0 =>
         /\ o.zs = zs
         /\ Free(zs) # {} => refused
         /\ d[n] = NoFile \/ ~refused => o.disk = d
    /\ o.file # 0 =>
         /\ o.file \in 1..MAX_FILES /\ ~zs[o.file].used
         /\ o.zs = [zs EXCEPT ![o.file] = Opened(n, TRUE)]
         /\ o.disk[n] = << >>

(* z_fopen for writing takes a free handle and makes the file empty, or    *)
(* gives none and leaves the rest alone.                                   *)
LEMMA OpenWriteOpens ==
    ASSUME NEW zs, NEW d, NEW n \in FileNames, NEW refused, PoolOK(zs), DiskOK(d)
    PROVE  OpensForWriting(zs, d, n, refused, OpenWrite(zs, d, n, refused))
<1> DEFINE o == OpenWrite(zs, d, n, refused)
           i == Min(Free(zs))
<1>1. << >> \in Records /\ 0 \in 0..MAX_FILES
  BY EmptySeq, PoolAssumption DEF Records
<1>2. CASE Free(zs) = {}
  <2>1. o = [zs |-> zs, disk |-> d, file |-> 0]
    BY <1>2 DEF OpenWrite, FailedOpen
  <2> HIDE DEF o
  <2>2. o.zs = zs /\ o.disk = d /\ o.file = 0
    BY <2>1
  <2>3. OpensForWriting(zs, d, n, refused, o)
    BY <1>1, <1>2, <2>2 DEF OpensForWriting
  <2> QED BY <2>3 DEF o
<1>3. CASE Free(zs) # {} /\ refused
  <2> DEFINE e == [d EXCEPT ![n] = NoFile]
  <2>1. o = [zs |-> zs, disk |-> e, file |-> 0]
    BY <1>3 DEF OpenWrite, FailedOpen
  <2>2. /\ DiskOK(e) /\ \A m \in FileNames : m # n => e[m] = d[m]
        /\ d[n] = NoFile => e = d
    BY DEF DiskOK
  <2> HIDE DEF o, e
  <2>3. o.zs = zs /\ o.disk = e /\ o.file = 0
    BY <2>1
  <2>4. OpensForWriting(zs, d, n, refused, o)
    BY <1>1, <1>3, <2>2, <2>3 DEF OpensForWriting
  <2> QED BY <2>4 DEF o
<1>4. CASE Free(zs) # {} /\ ~refused
  <2> DEFINE e == [d EXCEPT ![n] = << >>]
  <2>1. i \in 1..MAX_FILES /\ ~zs[i].used
    BY <1>4, FreeHandle
  <2>2. DiskOK(e) /\ e[n] = << >> /\ \A m \in FileNames : m # n => e[m] = d[m]
    BY <1>1 DEF DiskOK
  <2>3. o = [zs |-> [zs EXCEPT ![i] = Opened(n, TRUE)], disk |-> e, file |-> i]
    BY <1>4 DEF OpenWrite, Opened
  <2> HIDE DEF o, i, e
  <2>4. o.zs = [zs EXCEPT ![i] = Opened(n, TRUE)] /\ o.disk = e /\ o.file = i
    BY <2>3
  <2>5. i # 0 /\ i \in 0..MAX_FILES
    BY <2>1, PoolAssumption
  <2>6. OpensForWriting(zs, d, n, refused, o)
    BY <2>1, <2>2, <2>4, <2>5 DEF OpensForWriting
  <2> QED BY <2>6 DEF o
<1> QED BY <1>2, <1>3, <1>4

-----------------------------------------------------------------------------
(* A save and a page-in.                                                   *)

Saving  == {"head", "copy head", "buffer", "tail", "copy tail", "end"}
Reading == {"copy head", "copy tail", "load"}
Copying == {"copy head", "copy tail"}
Closed  == {"remove", "rename", "return"}
Targets == UserNames \cup {Swap}
OutName == IF job.using_tmp THEN Tmp ELSE job.target
In      == zfiles[job.in]
Out     == zfiles[job.out]

JOB == [target : Targets \cup {""}, using_tmp : BOOLEAN, out : 0..MAX_FILES,
        in : 0..MAX_FILES, at : Nat]

TypeInv ==
    /\ DiskOK(disk)
    /\ PoolOK(zfiles)
    /\ text \in Seq(Byte \ {CR})
    /\ win_start \in Nat /\ tail_offset \in Nat
    /\ tail_file \in Targets \cup {""} /\ filename \in UserNames
    /\ pc \in Saving \cup Reading \cup Closed \cup {"edit"}
    /\ job \in JOB
    /\ modified \in BOOLEAN /\ failed \in BOOLEAN

(* The ZFILEs in use are those the step in progress has opened.            *)
NoLeak == \A i \in 1..MAX_FILES :
    zfiles[i].used => \/ pc \in Saving /\ i = job.out
                      \/ pc \in Reading /\ i = job.in
OutOpen ==
    pc \in Saving =>
        job.out \in 1..MAX_FILES /\ Out.used /\ Out.is_write /\ Out.name = OutName
InOpen ==
    pc \in Reading =>
        /\ job.in \in 1..MAX_FILES /\ In.used /\ ~In.is_write /\ In.name = tail_file
        /\ IF pc = "copy head" THEN win_start > 0 ELSE tail_offset > 0
NeedsFile == win_start > 0 \/ tail_offset > 0 => tail_file # ""
TargetInv ==
    pc \in Saving \cup Closed =>
        job.target \in Targets /\ (job.using_tmp <=> UsesTmp(job.target))
TmpInv == pc \in {"remove", "rename"} => job.using_tmp /\ disk[Tmp] \in Records

HandleInv == TypeInv /\ NoLeak /\ OutOpen /\ InOpen /\ NeedsFile /\ TargetInv /\ TmpInv
-----------------------------------------------------------------------------
(* The names.                                                              *)
LEMMA NamesOK ==
    /\ Targets \subseteq FileNames /\ Swap \in Targets /\ Tmp \in FileNames
    /\ Tmp \notin Targets /\ "" \notin FileNames /\ UserNames \subseteq Targets
    /\ "" \notin Targets
BY SaveAssumption DEF Targets

(* The file written is neither the one that holds the rest nor, when it is *)
(* the temporary, the target.                                              *)
LEMMA OutNameOK ==
    ASSUME HandleInv, pc \in Saving \cup Closed
    PROVE  /\ OutName \in FileNames /\ job.target \in FileNames /\ job.target # Tmp
           /\ Windowed => OutName # tail_file
           /\ job.using_tmp => OutName = Tmp /\ Windowed /\ job.target = tail_file
           /\ ~job.using_tmp => OutName = job.target
<1>1. job.target \in Targets /\ (job.using_tmp <=> UsesTmp(job.target))
  BY DEF HandleInv, TargetInv
<1>2. tail_file \in Targets \cup {""} /\ tail_file # Tmp
  BY NamesOK DEF HandleInv, TypeInv
<1> QED BY <1>1, <1>2, NamesOK DEF OutName, UsesTmp

(* In such a state the text is windowed just when an offset is set, and    *)
(* the rest is in a file that can be one.                                  *)
LEMMA WindowedFile ==
    ASSUME HandleInv
    PROVE  /\ Windowed <=> win_start > 0 \/ tail_offset > 0
           /\ Windowed => tail_file \in FileNames /\ tail_file \in Targets
BY NamesOK DEF HandleInv, TypeInv, NeedsFile, Windowed

(* What the local variables can be set to.                                 *)
At(j, n) == [j EXCEPT !.at = n]
Opening(j, i) == [j EXCEPT !.in = i, !.at = 0]

(* Moving the place of a copy (job.at) changes no other local variable.    *)
LEMMA AtOK ==
    ASSUME NEW j \in JOB, NEW n \in Nat
    PROVE  /\ At(j, n) \in JOB /\ At(j, n).at = n /\ At(j, n).target = j.target
           /\ At(j, n).using_tmp = j.using_tmp /\ At(j, n).out = j.out /\ At(j, n).in = j.in
<1>1. At(j, n) \in JOB
  BY DEF JOB, At
<1>2. /\ At(j, n).at = n /\ At(j, n).target = j.target
      /\ At(j, n).using_tmp = j.using_tmp /\ At(j, n).out = j.out /\ At(j, n).in = j.in
  BY DEF JOB, At
<1> QED BY <1>1, <1>2

(* Noting the handle opened for reading changes no other local variable.   *)
LEMMA OpeningOK ==
    ASSUME NEW j \in JOB, NEW i \in 0..MAX_FILES
    PROVE  /\ Opening(j, i) \in JOB /\ Opening(j, i).at = 0 /\ Opening(j, i).in = i
           /\ Opening(j, i).target = j.target /\ Opening(j, i).using_tmp = j.using_tmp
           /\ Opening(j, i).out = j.out
<1>1. Opening(j, i) \in JOB
  BY DEF JOB, Opening
<1>2. /\ Opening(j, i).at = 0 /\ Opening(j, i).in = i
      /\ Opening(j, i).target = j.target /\ Opening(j, i).using_tmp = j.using_tmp
      /\ Opening(j, i).out = j.out
  BY DEF JOB, Opening
<1> QED BY <1>1, <1>2

(* Between operations no place and no handle is noted.                     *)
LEMMA IdleOK == Idle \in JOB /\ Idle.at = 0 /\ Idle.in = 0
BY PoolAssumption DEF Idle, JOB

Begun(n, tmp, i) == [Idle EXCEPT !.target = n, !.using_tmp = tmp, !.out = i]
(* The local variables gb_save starts with: its target, whether it writes  *)
(* the temporary, its handle.                                              *)
LEMMA BegunOK ==
    ASSUME NEW n \in Targets, NEW tmp \in BOOLEAN, NEW i \in 0..MAX_FILES
    PROVE  /\ Begun(n, tmp, i) \in JOB /\ Begun(n, tmp, i).target = n
           /\ Begun(n, tmp, i).using_tmp = tmp /\ Begun(n, tmp, i).out = i
           /\ Begun(n, tmp, i).at = 0
<1>1. Begun(n, tmp, i) \in JOB
  BY IdleOK DEF Begun, JOB
<1>2. /\ Begun(n, tmp, i).target = n
      /\ Begun(n, tmp, i).using_tmp = tmp /\ Begun(n, tmp, i).out = i
      /\ Begun(n, tmp, i).at = Idle.at
  BY IdleOK DEF Begun, JOB
<1> QED BY <1>1, <1>2, IdleOK

(* The handle read from and the one written to.                            *)
LEMMA HandlesOK ==
    ASSUME HandleInv
    PROVE  /\ PoolOK(zfiles) /\ DiskOK(disk) /\ job \in JOB
           /\ pc \in Saving => job.out \in 1..MAX_FILES /\ Out.name \in FileNames
           /\ pc \in Reading =>
                /\ job.in \in 1..MAX_FILES /\ In.name \in FileNames /\ In.name = tail_file
                /\ ZFILEOK(In) /\ Windowed
           /\ pc \in Saving /\ pc \in Reading => job.in # job.out
<1>1. PoolOK(zfiles) /\ DiskOK(disk) /\ job \in JOB
  BY DEF HandleInv, TypeInv
<1>2. ASSUME pc \in Saving
      PROVE  job.out \in 1..MAX_FILES /\ Out.name \in FileNames /\ Out.is_write
  BY <1>2, OutNameOK DEF HandleInv, OutOpen
<1>3. ASSUME pc \in Reading
      PROVE  /\ job.in \in 1..MAX_FILES /\ In.name = tail_file /\ ~In.is_write
             /\ win_start > 0 \/ tail_offset > 0
  BY <1>3 DEF HandleInv, InOpen
<1>4. ASSUME pc \in Reading
      PROVE  Windowed /\ In.name \in FileNames /\ ZFILEOK(In)
  BY <1>1, <1>3, <1>4, WindowedFile DEF PoolOK, In
<1> QED BY <1>1, <1>2, <1>3, <1>4 DEF In, Out

(* z_fputc says whether it succeeded.                                      *)
LEMMA PutcResult ==
    ASSUME NEW zs, NEW d, NEW i, NEW c
    PROVE  "ok" \in DOMAIN Putc(zs, d, i, c)
<1> DEFINE buf == Append(zs[i].buf, c)
           put == [zs EXCEPT ![i].buf = buf, ![i].offset = @ + 1]
           w   == WriteSequential(put, d, i, buf)
<1>1. Putc(zs, d, i, c) =
        IF Len(zs[i].buf) >= Rec THEN [zs |-> zs, disk |-> d, ok |-> FALSE]
        ELSE IF Len(buf) < Rec THEN [zs |-> put, disk |-> d, ok |-> TRUE]
        ELSE IF ~w.ok THEN w
        ELSE [w EXCEPT !.zs[i].buf = << >>]
  BY DEF Putc
<1>2. "ok" \in DOMAIN w
  BY DEF WriteSequential
<1> HIDE DEF w, put, buf
<1> QED BY <1>1, <1>2

(* The pool after a byte is read.                                          *)
LEMMA ReadingOn ==
    ASSUME NEW zs, NEW d, NEW i \in 1..MAX_FILES, PoolOK(zs), DiskOK(d), zs[i].name \in FileNames
    PROVE  LET z == Getc(d, zs[i]).z
               ys == [zs EXCEPT ![i] = z]
           IN  /\ PoolOK(ys) /\ ys[i] = z /\ SameFile(z, zs[i])
               /\ \A j \in 1..MAX_FILES : j # i => ys[j] = zs[j]
<1> DEFINE z == Getc(d, zs[i]).z
<1>1. ZFILEOK(zs[i])
  BY DEF PoolOK
<1>2. ZFILEOK(z) /\ SameFile(z, zs[i])
  BY <1>1, GetcType DEF SameFile
<1> HIDE DEF z
<1>3. LET ys == [zs EXCEPT ![i] = z]
      IN  PoolOK(ys) /\ ys[i] = z /\ \A j \in 1..MAX_FILES : j # i => ys[j] = zs[j]
  BY <1>2, PoolUpdate
<1> QED BY <1>2, <1>3 DEF z

(* What copying a byte, writing a character, closing the file read and     *)
(* closing the file written do to the files.                               *)
LEMMA CopyByteDoes ==
    ASSUME HandleInv, pc \in Copying,
           NEW g, g = Getc(disk, In), g.c \in Byte, NEW n, CopyByte(g, n)
    PROVE  /\ PoolOK(zfiles') /\ DiskOK(disk') /\ failed' \in BOOLEAN
           /\ \A i \in 1..MAX_FILES : SameFile(zfiles'[i], zfiles[i])
           /\ zfiles'[job.in] = g.z
           /\ \A m \in FileNames : m # OutName => disk'[m] = disk[m]
           /\ ~failed' =>
                /\ ~failed /\ Stream(zfiles'[job.out]) = Append(Stream(Out), g.c)
                /\ Len(zfiles'[job.out].buf) < Rec
<1> DEFINE zs == [zfiles EXCEPT ![job.in] = g.z]
           w  == Putc(zs, disk, job.out, g.c)
<1>1. /\ PoolOK(zfiles) /\ DiskOK(disk) /\ pc \in Saving /\ pc \in Reading
      /\ job.in \in 1..MAX_FILES /\ job.out \in 1..MAX_FILES /\ job.in # job.out
      /\ ZFILEOK(In) /\ In.name \in FileNames /\ Out.name = OutName /\ Out.name \in FileNames
  BY HandlesOK DEF Copying, Saving, Reading, HandleInv, OutOpen
<1>2. ZFILEOK(g.z) /\ SameFile(g.z, In)
  <2>1. /\ ZFILEOK(Getc(disk, In).z) /\ Getc(disk, In).z.used = In.used
        /\ Getc(disk, In).z.name = In.name /\ Getc(disk, In).z.is_write = In.is_write
    BY <1>1, GetcType
  <2> QED BY <2>1 DEF SameFile
<1>3. PoolOK(zs) /\ zs[job.in] = g.z /\ \A i \in 1..MAX_FILES : i # job.in => zs[i] = zfiles[i]
  <2>1. zfiles[job.in].name \in FileNames /\ g.z = Getc(disk, zfiles[job.in]).z
    BY <1>1 DEF In
  <2>2. LET z == Getc(disk, zfiles[job.in]).z
            ys == [zfiles EXCEPT ![job.in] = z]
        IN  /\ PoolOK(ys) /\ ys[job.in] = z
            /\ \A j \in 1..MAX_FILES : j # job.in => ys[j] = zfiles[j]
    BY <1>1, <2>1, ReadingOn
  <2> QED BY <2>1, <2>2
<1>4. zs[job.out] = Out
  BY <1>1, <1>3 DEF Out
<1>5. disk' = w.disk /\ zfiles' = w.zs /\ failed' = (failed \/ ~w.ok) /\ failed \in BOOLEAN
  BY DEF CopyByte, Effect, Fails, HandleInv, TypeInv
<1> HIDE DEF zs
<1>6. /\ Confined(w, zs, disk, job.out, Out.name) /\ SameFile(w.zs[job.out], Out)
      /\ w.ok \in BOOLEAN
      /\ w.ok => Stream(w.zs[job.out]) = Append(Stream(Out), g.c) /\ Len(w.zs[job.out].buf) < Rec
  BY <1>1, <1>3, <1>4, PutcWrites
<1> HIDE DEF w
<1>7. /\ PoolOK(zfiles') /\ DiskOK(disk')
      /\ \A i \in 1..MAX_FILES : i # job.out => zfiles'[i] = zs[i]
      /\ \A m \in FileNames : m # OutName => disk'[m] = disk[m]
  BY <1>1, <1>5, <1>6 DEF Confined
<1>8. \A i \in 1..MAX_FILES : SameFile(zfiles'[i], zfiles[i])
  BY <1>1, <1>2, <1>3, <1>5, <1>6, <1>7 DEF SameFile, In, Out
<1> QED BY <1>1, <1>3, <1>5, <1>6, <1>7, <1>8

(* Writing a character of the buffer appends its encoding to what the file *)
(* written will hold, or fails; no other file changes.                     *)
LEMMA WriteBufferDoes ==
    ASSUME HandleInv, WriteBuffer, job.at < Len(text)
    PROVE  /\ text[job.at + 1] \in Byte
           /\ PoolOK(zfiles') /\ DiskOK(disk') /\ failed' \in BOOLEAN
           /\ \A i \in 1..MAX_FILES : SameFile(zfiles'[i], zfiles[i])
           /\ \A m \in FileNames : m # OutName => disk'[m] = disk[m]
           /\ ~failed' =>
                /\ ~failed
                /\ Stream(zfiles'[job.out]) =
                     Stream(Out) \o (IF text[job.at + 1] = LF THEN <<CR, LF>>
                                     ELSE <<text[job.at + 1]>>)
                /\ Len(zfiles'[job.out].buf) < Rec
<1> DEFINE c  == text[job.at + 1]
           cr == IF c = LF THEN Putc(zfiles, disk, job.out, CR)
                 ELSE [zs |-> zfiles, disk |-> disk, ok |-> TRUE]
           w  == Putc(cr.zs, cr.disk, job.out, c)
<1>1. /\ PoolOK(zfiles) /\ DiskOK(disk) /\ pc = "buffer" /\ job.at \in Nat
      /\ job.out \in 1..MAX_FILES /\ Out.name = OutName /\ Out.name \in FileNames
      /\ text \in Seq(Byte \ {CR}) /\ ZFILEOK(Out)
  BY HandlesOK DEF Saving, HandleInv, OutOpen, TypeInv, JOB, WriteBuffer, PoolOK, Out
<1>2. c \in Byte /\ CR \in Byte
  <2>1. job.at + 1 \in 1..Len(text)
    BY <1>1
  <2> QED BY <1>1, <2>1, CharAssumption
<1>3. /\ disk' = w.disk /\ zfiles' = w.zs /\ failed \in BOOLEAN
      /\ failed' = (failed \/ ~([w EXCEPT !.ok = @ /\ cr.ok]).ok)
  BY DEF WriteBuffer, Effect, Fails, HandleInv, TypeInv
<1>4. /\ Confined(cr, zfiles, disk, job.out, Out.name) /\ SameFile(cr.zs[job.out], Out)
      /\ cr.ok \in BOOLEAN
      /\ cr.ok => Stream(cr.zs[job.out]) = IF c = LF THEN Append(Stream(Out), CR) ELSE Stream(Out)
  <2> HIDE DEF c
  <2>1. CASE c = LF
    <3>1. cr = Putc(zfiles, disk, job.out, CR)
      BY <2>1
    <3> HIDE DEF cr
    <3> QED BY <1>1, <1>2, <2>1, <3>1, PutcWrites DEF Out
  <2>2. CASE c # LF
    <3>1. cr = [zs |-> zfiles, disk |-> disk, ok |-> TRUE]
      BY <2>2
    <3> HIDE DEF cr
    <3>2. cr.zs = zfiles /\ cr.disk = disk /\ cr.ok = TRUE
      BY <3>1
    <3> QED BY <1>1, <2>2, <3>2 DEF Confined, SameFile, Out
  <2> QED BY <2>1, <2>2
<1> HIDE DEF cr, c
<1>5. PoolOK(cr.zs) /\ DiskOK(cr.disk) /\ cr.zs[job.out].name = Out.name
  BY <1>4 DEF Confined, SameFile
<1>6. /\ Confined(w, cr.zs, cr.disk, job.out, Out.name) /\ SameFile(w.zs[job.out], cr.zs[job.out])
      /\ w.ok \in BOOLEAN
      /\ w.ok => /\ Stream(w.zs[job.out]) = Append(Stream(cr.zs[job.out]), c)
                 /\ Len(w.zs[job.out].buf) < Rec
  BY <1>1, <1>2, <1>5, PutcWrites
<1>7. "ok" \in DOMAIN w
  BY PutcResult
<1> HIDE DEF w
<1>8. ([w EXCEPT !.ok = @ /\ cr.ok]).ok = (w.ok /\ cr.ok)
  BY <1>7
<1>9. failed' \in BOOLEAN /\ (~failed' => ~failed /\ w.ok /\ cr.ok)
  BY <1>3, <1>4, <1>6, <1>8
<1>10. \A i \in 1..MAX_FILES : SameFile(zfiles'[i], zfiles[i])
  BY <1>3, <1>4, <1>6 DEF Confined, SameFile, Out
<1>11. /\ PoolOK(zfiles') /\ DiskOK(disk')
       /\ \A m \in FileNames : m # OutName => disk'[m] = disk[m]
  BY <1>1, <1>3, <1>4, <1>6 DEF Confined
<1>12. ASSUME ~failed'
       PROVE  Stream(zfiles'[job.out]) = Stream(Out) \o (IF c = LF THEN <<CR, LF>> ELSE <<c>>)
  <2> DEFINE s == Stream(Out)
  <2>1. s \in Seq(Byte)
    <3>1. Out.recs \in Records /\ Out.buf \in Seq(Byte)
      BY <1>1, FieldsOK
    <3> QED BY <3>1, BytesType, ConcatProperties DEF Stream
  <2>2. Stream(zfiles'[job.out]) = Append(IF c = LF THEN Append(s, CR) ELSE s, c)
    BY <1>3, <1>4, <1>6, <1>9, <1>12
  <2> HIDE DEF s
  <2>3. Append(Append(s, CR), LF) = s \o <<CR, LF>> /\ Append(s, c) = s \o <<c>>
    BY <1>2, <2>1, CharAssumption
  <2> QED BY <2>2, <2>3 DEF s
<1> QED BY <1>2, <1>3, <1>6, <1>9, <1>10, <1>11, <1>12 DEF c

(* At the end of a copy the handle read from is free again and nothing     *)
(* else changes.                                                           *)
LEMMA StopCopyingDoes ==
    ASSUME HandleInv, pc \in Copying, NEW next, StopCopying(next)
    PROVE  /\ PoolOK(zfiles') /\ disk' = disk
           /\ zfiles'[job.in] = Unused
           /\ \A i \in 1..MAX_FILES : i # job.in => zfiles'[i] = zfiles[i]
<1>1. /\ PoolOK(zfiles) /\ DiskOK(disk) /\ pc \in Reading
      /\ job.in \in 1..MAX_FILES /\ In.name \in FileNames /\ ~In.is_write
  BY HandlesOK DEF Copying, Reading, HandleInv, InOpen
<1> DEFINE w == Close(zfiles, disk, job.in)
<1>2. disk' = w.disk /\ zfiles' = w.zs
  BY DEF StopCopying, Effect
<1>3. Confined(w, zfiles, disk, job.in, In.name) /\ w.zs[job.in] = Unused /\ w.disk = disk
  BY <1>1, CloseCloses DEF In
<1> HIDE DEF w
<1> QED BY <1>2, <1>3 DEF Confined

(* Closing the file written frees its handle; unless the disk is full its  *)
(* contents are all that was written, and no other file changes.           *)
LEMMA CloseOutDoes ==
    ASSUME HandleInv, CloseOut
    PROVE  /\ PoolOK(zfiles') /\ DiskOK(disk') /\ failed' \in BOOLEAN
           /\ zfiles'[job.out] = Unused
           /\ \A i \in 1..MAX_FILES : i # job.out => zfiles'[i] = zfiles[i]
           /\ \A m \in FileNames : m # OutName => disk'[m] = disk[m]
           /\ disk'[OutName] \in Records
           /\ ~failed' =>
                /\ ~failed
                /\ \E p \in Seq(Byte) : Bytes(disk'[OutName]) = Append(Stream(Out), CtrlZ) \o p
<1> DEFINE z == Putc(zfiles, disk, job.out, CtrlZ)
           w == Close(z.zs, z.disk, job.out)
<1>1. /\ PoolOK(zfiles) /\ DiskOK(disk) /\ job.out \in 1..MAX_FILES /\ Out.is_write
      /\ Out.name = OutName /\ Out.name \in FileNames /\ CtrlZ \in Byte
  BY HandlesOK, ByteAssumption DEF Saving, HandleInv, OutOpen, CloseOut
<1>2. /\ Confined(z, zfiles, disk, job.out, Out.name) /\ SameFile(z.zs[job.out], Out)
      /\ z.ok \in BOOLEAN
      /\ z.ok => Stream(z.zs[job.out]) = Append(Stream(Out), CtrlZ)
  BY <1>1, PutcWrites DEF Out
<1>3. /\ disk' = w.disk /\ zfiles' = w.zs /\ failed \in BOOLEAN
      /\ failed' = (failed \/ ~([w EXCEPT !.ok = @ /\ z.ok]).ok)
  BY DEF CloseOut, Effect, Fails, HandleInv, TypeInv
<1> HIDE DEF z
<1>4. /\ PoolOK(z.zs) /\ DiskOK(z.disk) /\ z.zs[job.out].name = Out.name
      /\ z.zs[job.out].is_write
  BY <1>1, <1>2 DEF Confined, SameFile
<1>5. /\ Confined(w, z.zs, z.disk, job.out, Out.name) /\ w.zs[job.out] = Unused
      /\ w.ok \in BOOLEAN /\ w.disk[Out.name] \in Records
      /\ w.ok => \E p \in Seq(Byte) : Bytes(w.disk[Out.name]) = Stream(z.zs[job.out]) \o p
  <2> DEFINE ys == z.zs
             d == z.disk
             n == Out.name
             s == Stream(ys[job.out])
  <2>1. /\ PoolOK(ys) /\ DiskOK(d) /\ ys[job.out].name = n /\ ys[job.out].is_write
        /\ n \in FileNames /\ job.out \in 1..MAX_FILES
    BY <1>1, <1>4
  <2>2. w = Close(ys, d, job.out)
    OBVIOUS
  <2> HIDE DEF w, ys, d, n
  <2>3. /\ Confined(w, ys, d, job.out, n) /\ w.zs[job.out] = Unused
        /\ w.ok \in BOOLEAN /\ w.disk[n] \in Records
        /\ w.ok => \E p \in Seq(Byte) : Bytes(w.disk[n]) = s \o p /\ (p # << >> => p[1] = CtrlZ)
    BY <2>1, <2>2, CloseCloses
  <2>4. w.ok => \E p \in Seq(Byte) : Bytes(w.disk[n]) = s \o p
    <3> HIDE DEF s
    <3> QED BY <2>3
  <2> QED BY <2>3, <2>4 DEF ys, d, n
<1>6. w = [zs |-> w.zs, disk |-> w.disk, ok |-> w.ok]
  BY DEF Close
<1> HIDE DEF w
<1>7. ([w EXCEPT !.ok = @ /\ z.ok]).ok = (w.ok /\ z.ok)
  BY <1>6
<1>8. failed' \in BOOLEAN /\ (~failed' => ~failed /\ w.ok /\ z.ok)
  BY <1>2, <1>3, <1>5, <1>7
<1>9. /\ PoolOK(zfiles') /\ DiskOK(disk')
      /\ \A i \in 1..MAX_FILES : i # job.out => zfiles'[i] = zfiles[i]
      /\ \A m \in FileNames : m # OutName => disk'[m] = disk[m]
  BY <1>1, <1>2, <1>3, <1>5 DEF Confined
<1> QED BY <1>1, <1>2, <1>3, <1>5, <1>8, <1>9

(* As long as no handle is opened or closed, all stays as it is.           *)
LEMMA SameHandles ==
    ASSUME HandleInv, PoolOK(zfiles'), DiskOK(disk'), failed' \in BOOLEAN,
           UNCHANGED <<buffer, pc>>, pc \in Saving,
           \A i \in 1..MAX_FILES : SameFile(zfiles'[i], zfiles[i]),
           NEW n \in Nat, job' = At(job, n)
    PROVE  HandleInv'
<1>1. /\ job' \in JOB /\ job'.target = job.target /\ job'.using_tmp = job.using_tmp
      /\ job'.out = job.out /\ job'.in = job.in
  BY AtOK DEF HandleInv, TypeInv
<1>2. TypeInv'
  BY <1>1 DEF HandleInv, TypeInv, buffer
<1>3. NoLeak'
  BY <1>1 DEF HandleInv, NoLeak, SameFile
<1>4. OutOpen'
  BY <1>1 DEF HandleInv, OutOpen, SameFile, Out, OutName
<1>5. InOpen'
  BY <1>1 DEF HandleInv, InOpen, SameFile, In, buffer
<1>6. NeedsFile' /\ TargetInv'
  BY <1>1 DEF HandleInv, NeedsFile, TargetInv, UsesTmp, Windowed, buffer
<1>7. TmpInv'
  BY DEF TmpInv, Saving
<1> QED BY <1>2, <1>3, <1>4, <1>5, <1>6, <1>7 DEF HandleInv

(* A change within the text gives a text without CR.                       *)
LEMMA ChangeType ==
    ASSUME TypeInv, NEW p \in 0..Len(text), NEW d \in Nat, p + d <= Len(text),
           NEW s \in Seq(Byte \ {CR}), Change(p, d, s)
    PROVE  text' \in Seq(Byte \ {CR})
<1> DEFINE a == First(text, p)
           b == From(text, p + d)
<1>1. text \in Seq(Byte \ {CR}) /\ p + d \in 0..Len(text)
  <2>1. text \in Seq(Byte \ {CR}) /\ Len(text) \in Nat
    BY LenProperties DEF TypeInv
  <2>2. \A l \in Nat : \A m \in 0..l : m + d <= l => m + d \in 0..l
    OBVIOUS
  <2> QED BY <2>1, <2>2
<1>2. a \in Seq(Byte \ {CR}) /\ b \in Seq(Byte \ {CR})
  BY <1>1, Parts
<1>3. text' = a \o s \o b
  BY DEF Change
<1> HIDE DEF a, b
<1> QED BY <1>2, <1>3, ConcatProperties

(* A change of the text touches no file and no ZFILE.                      *)
LEMMA ChangeHandles ==
    ASSUME HandleInv, NEW p \in 0..Len(text), NEW d \in Nat, p + d <= Len(text),
           NEW s \in Seq(Byte \ {CR}), Change(p, d, s)
    PROVE  HandleInv'
<1>1. text' \in Seq(Byte \ {CR})
  BY ChangeType DEF HandleInv
<1>2. /\ modified' = TRUE
      /\ UNCHANGED <<disk, zfiles, win_start, tail_offset, tail_file, filename, pc, job, failed>>
  BY DEF Change
<1>3. TypeInv'
  BY <1>1, <1>2 DEF HandleInv, TypeInv
<1>4. NoLeak' /\ OutOpen' /\ InOpen' /\ NeedsFile'
  BY <1>2 DEF HandleInv, NoLeak, OutOpen, InOpen, NeedsFile, In, Out, OutName
<1>5. TargetInv' /\ TmpInv'
  BY <1>2 DEF HandleInv, TargetInv, TmpInv, UsesTmp, Windowed
<1> QED BY <1>3, <1>4, <1>5 DEF HandleInv

(* What is typed or deleted is such a change.                              *)
LEMMA InsertIsChange ==
    ASSUME TypeInv, Insert
    PROVE  \E p \in 0..Len(text), c \in Typed : <<c>> \in Seq(Byte \ {CR}) /\ Change(p, 0, <<c>>)
<1>1. \A c \in Typed : <<c>> \in Seq(Byte \ {CR})
  BY CharAssumption
<1> QED BY <1>1 DEF Insert

(* Deleting is a change that removes one character of the text.            *)
LEMMA DeleteIsChange ==
    ASSUME TypeInv, Delete
    PROVE  \E p \in 0..Len(text) : p + 1 <= Len(text) /\ Change(p, 1, << >>)
<1>1. Len(text) \in Nat
  BY LenProperties DEF TypeInv
<1>2. PICK p \in 0..(Len(text) - 1) : Change(p, 1, << >>)
  BY DEF Delete
<1>3. p \in 0..Len(text) /\ p + 1 <= Len(text)
  BY <1>1
<1> QED BY <1>2, <1>3

(* Typing and deleting keep HandleInv.                                     *)
LEMMA EditHandles ==
    ASSUME HandleInv, Insert \/ Delete
    PROVE  HandleInv'
<1>1. Len(text) \in Nat /\ << >> \in Seq(Byte \ {CR}) /\ TypeInv
  BY LenProperties, EmptySeq DEF HandleInv, TypeInv
<1>2. CASE Insert
  <2>1. PICK p \in 0..Len(text), c \in Typed : <<c>> \in Seq(Byte \ {CR}) /\ Change(p, 0, <<c>>)
    BY <1>1, <1>2, InsertIsChange
  <2>2. p + 0 <= Len(text) /\ 0 \in Nat
    BY <1>1
  <2> DEFINE s == <<c>>
  <2>3. s \in Seq(Byte \ {CR}) /\ Change(p, 0, s)
    BY <2>1
  <2> HIDE DEF s
  <2> QED BY <2>2, <2>3, ChangeHandles
<1>3. CASE Delete
  <2>1. PICK p \in 0..Len(text) : p + 1 <= Len(text) /\ Change(p, 1, << >>)
    BY <1>1, <1>3, DeleteIsChange
  <2> QED BY <1>1, <2>1, ChangeHandles
<1> QED BY <1>2, <1>3

(* Beginning a save: what it opens.                                        *)
LEMMA SaveDoes ==
    ASSUME HandleInv, NEW n \in Targets, NEW refused, Save(n, refused)
    PROVE  LET name == IF UsesTmp(n) THEN Tmp ELSE n
           IN  /\ name \in FileNames /\ (Windowed => name # tail_file) /\ DiskOK(disk')
               /\ \A m \in FileNames : m # name => disk'[m] = disk[m]
               /\ \/ pc' = "edit" /\ job' = Idle /\ zfiles' = zfiles
                  \/ \E i \in 1..MAX_FILES :
                        /\ pc' = "head" /\ job' = Begun(n, UsesTmp(n), i)
                        /\ ~zfiles[i].used
                        /\ zfiles' = [zfiles EXCEPT ![i] = Opened(name, TRUE)]
<1> DEFINE name == IF UsesTmp(n) THEN Tmp ELSE n
           o == OpenWrite(zfiles, disk, name, refused)
<1>1. PoolOK(zfiles) /\ DiskOK(disk) /\ tail_file \in Targets \cup {""}
  BY DEF HandleInv, TypeInv
<1>2. name \in FileNames /\ (Windowed => name # tail_file)
  BY <1>1, NamesOK DEF UsesTmp
<1>3. /\ disk' = o.disk /\ zfiles' = o.zs
      /\ pc' = IF o.file = 0 THEN "edit" ELSE "head"
      /\ job' = IF o.file = 0 THEN Idle ELSE Begun(n, UsesTmp(n), o.file)
  BY DEF Save, Effect, Begun
<1> HIDE DEF name
<1>4. /\ DiskOK(o.disk) /\ \A m \in FileNames : m # name => o.disk[m] = disk[m]
      /\ o.file = 0 => o.zs = zfiles
      /\ o.file # 0 => /\ o.file \in 1..MAX_FILES /\ ~zfiles[o.file].used
                       /\ o.zs = [zfiles EXCEPT ![o.file] = Opened(name, TRUE)]
  <2>1. PoolOK(zfiles) /\ DiskOK(disk) /\ name \in FileNames
    BY <1>1, <1>2
  <2> HIDE DEF o
  <2>2. OpensForWriting(zfiles, disk, name, refused, o)
    BY <2>1, OpenWriteOpens DEF o
  <2> QED BY <2>2 DEF OpensForWriting
<1> HIDE DEF o
<1>5. CASE o.file = 0
  BY <1>2, <1>3, <1>4, <1>5 DEF name
<1>6. CASE o.file # 0
  BY <1>2, <1>3, <1>4, <1>6 DEF name
<1> QED BY <1>5, <1>6

(* gb_save, as far as it opens its file, keeps HandleInv: refused, it      *)
(* leaves everything alone; else the one ZFILE in use is the new file's.   *)
LEMMA SaveHandles ==
    ASSUME HandleInv, NEW n \in Targets, NEW refused, Save(n, refused)
    PROVE  HandleInv'
<1> DEFINE name == IF UsesTmp(n) THEN Tmp ELSE n
<1>1. /\ PoolOK(zfiles) /\ pc = "edit" /\ UNCHANGED <<buffer, failed>>
      /\ \A i \in 1..MAX_FILES : ~zfiles[i].used
  BY DEF Save, Effect, Succeeds, HandleInv, TypeInv, NoLeak, Saving, Reading
<1>2. DiskOK(disk') /\ name \in FileNames
  BY SaveDoes
<1>3. CASE pc' = "edit" /\ job' = Idle /\ zfiles' = zfiles
  <2>1. TypeInv'
    BY <1>1, <1>2, <1>3, IdleOK DEF HandleInv, TypeInv, buffer
  <2>2. NoLeak'
    BY <1>1, <1>3 DEF NoLeak
  <2>3. OutOpen' /\ InOpen' /\ TargetInv' /\ TmpInv'
    BY <1>3 DEF OutOpen, InOpen, TargetInv, TmpInv, Saving, Reading, Closed
  <2>4. NeedsFile'
    BY <1>1 DEF HandleInv, NeedsFile, buffer
  <2> QED BY <2>1, <2>2, <2>3, <2>4 DEF HandleInv
<1>4. CASE \E i \in 1..MAX_FILES :
                /\ pc' = "head" /\ job' = Begun(n, UsesTmp(n), i)
                /\ ~zfiles[i].used
                /\ zfiles' = [zfiles EXCEPT ![i] = Opened(name, TRUE)]
  <2>1. PICK i \in 1..MAX_FILES :
            /\ pc' = "head" /\ job' = Begun(n, UsesTmp(n), i)
            /\ zfiles' = [zfiles EXCEPT ![i] = Opened(name, TRUE)]
    BY <1>4
  <2> DEFINE z == Opened(name, TRUE)
             tmp == UsesTmp(n)
  <2>2. ZFILEOK(z) /\ z.used /\ z.name = name /\ z.is_write = TRUE
    BY <1>2, OpenedOK
  <2>3. tmp \in BOOLEAN /\ i \in 0..MAX_FILES
    BY PoolAssumption DEF UsesTmp
  <2> HIDE DEF z, tmp
  <2>4. /\ job' \in JOB /\ job'.target = n /\ job'.using_tmp = tmp /\ job'.out = i
    BY <2>1, <2>3, BegunOK DEF tmp
  <2>5. PoolOK(zfiles') /\ zfiles'[i] = z /\ \A j \in 1..MAX_FILES : j # i => zfiles'[j] = zfiles[j]
    <3>1. zfiles' = [zfiles EXCEPT ![i] = z]
      BY <2>1 DEF z
    <3>2. PoolOK(zfiles) /\ ZFILEOK(z)
      BY <1>1, <2>2
    <3>3. /\ PoolOK([zfiles EXCEPT ![i] = z]) /\ [zfiles EXCEPT ![i] = z][i] = z
          /\ \A j \in 1..MAX_FILES : j # i => [zfiles EXCEPT ![i] = z][j] = zfiles[j]
      BY <3>2, PoolUpdate
    <3> QED BY <3>1, <3>3
  <2>6. TypeInv'
    BY <1>1, <1>2, <2>1, <2>4, <2>5 DEF HandleInv, TypeInv, buffer, Saving
  <2>7. NoLeak'
    <3>1. \A j \in 1..MAX_FILES : zfiles'[j].used => j = i
      BY <1>1, <2>5
    <3>2. pc' \in Saving /\ job'.out = i
      BY <2>1, <2>4 DEF Saving
    <3> QED BY <3>1, <3>2 DEF NoLeak
  <2>8. OutOpen'
    BY <2>2, <2>4, <2>5 DEF OutOpen, Out, OutName, tmp
  <2>9. InOpen' /\ TmpInv'
    BY <2>1 DEF InOpen, TmpInv, Reading
  <2>10. NeedsFile' /\ TargetInv'
    BY <1>1, <2>4 DEF HandleInv, NeedsFile, TargetInv, UsesTmp, Windowed, buffer, tmp
  <2> QED BY <2>6, <2>7, <2>8, <2>9, <2>10 DEF HandleInv
<1> QED BY <1>3, <1>4, SaveDoes

(* There is a handle left for reading: of MAX_FILES >= 2, a save uses one. *)
LEMMA HandleLeft ==
    ASSUME HandleInv, pc \notin Reading
    PROVE  Free(zfiles) # {}
<1>1. PoolOK(zfiles) /\ NoLeak
  BY DEF HandleInv, TypeInv
<1>2. DOMAIN zfiles = 1..MAX_FILES
  BY <1>1 DEF PoolOK
<1>3. 1 \in 1..MAX_FILES /\ 2 \in 1..MAX_FILES
  <2>1. MAX_FILES >= 2 /\ MAX_FILES \in Nat
    BY SaveAssumption, PoolAssumption
  <2> QED BY <2>1
<1>4. \A i \in 1..MAX_FILES : zfiles[i].used => i = job.out
  BY <1>1 DEF NoLeak
<1>5. ~zfiles[1].used \/ ~zfiles[2].used
  BY <1>3, <1>4
<1> QED BY <1>2, <1>3, <1>5 DEF Free

(* What opening the old file for its beginning or its end does.            *)
OpensReader(opened, i, z) ==
    /\ i \in 1..MAX_FILES /\ ~zfiles[i].used
    /\ pc' = opened /\ job' = Opening(job, i) /\ disk' = disk
    /\ disk[tail_file] \in Records
    /\ zfiles' = [zfiles EXCEPT ![i] = z]
PassesBy(next) == pc' = next /\ job' = At(job, 0) /\ disk' = disk /\ zfiles' = zfiles

(* Beginning the copy of the part before the window: the old file is       *)
(* opened at its start, or there is nothing to copy.                       *)
LEMMA OpenHeadDoes ==
    ASSUME HandleInv, OpenHead
    PROVE  \/ win_start > 0 /\ \E i : OpensReader("copy head", i, Opened(tail_file, FALSE))
           \/ (win_start > 0 => disk[tail_file] = NoFile) /\ PassesBy("buffer")
<1> DEFINE o == OpenRead(zfiles, disk, tail_file)
           z == o.zs[o.file]
           r == [o EXCEPT !.zs[o.file] = z]
<1>1. /\ PoolOK(zfiles) /\ DiskOK(disk) /\ Free(zfiles) # {}
      /\ win_start > 0 => tail_file \in FileNames /\ tail_file # ""
  <2>1. pc \notin Reading
    BY DEF OpenHead, Reading
  <2> QED BY <2>1, HandleLeft, WindowedFile, NamesOK DEF HandleInv, TypeInv
<1>2. \/ /\ win_start > 0 /\ tail_file # "" /\ o.file # 0
         /\ disk' = r.disk /\ zfiles' = r.zs
         /\ pc' = "copy head" /\ job' = Opening(job, o.file)
      \/ /\ ~ (win_start > 0 /\ tail_file # "" /\ o.file # 0)
         /\ PassesBy("buffer")
  BY DEF OpenHead, Opens, Effect, Opening, PassesBy, At
<1>3. ASSUME win_start > 0 PROVE OpensForReading(zfiles, disk, tail_file, o)
  BY <1>1, <1>3, OpenReadOpens
<1>4. ASSUME win_start > 0, o.file # 0
      PROVE  OpensAt(zfiles, disk, o.file, z, r) /\ z = Opened(tail_file, FALSE)
  BY <1>1, <1>4, OpenReadThen
<1> HIDE DEF r, z, o
<1>5. CASE win_start > 0 /\ o.file # 0
  <2>1. OpensReader("copy head", o.file, Opened(tail_file, FALSE))
    BY <1>1, <1>2, <1>3, <1>4, <1>5 DEF OpensForReading, OpensAt, OpensReader
  <2> QED BY <1>5, <2>1
<1>6. CASE ~ (win_start > 0 /\ o.file # 0)
  <2>1. PassesBy("buffer")
    BY <1>1, <1>2, <1>6
  <2>2. win_start > 0 => disk[tail_file] = NoFile
    BY <1>1, <1>3, <1>6 DEF OpensForReading
  <2> QED BY <2>1, <2>2
<1> QED BY <1>5, <1>6

(* Beginning the copy of the part beyond the window: the old file is       *)
(* opened at tail_offset, or there is nothing to copy.                     *)
LEMMA OpenTailDoes ==
    ASSUME HandleInv, OpenTail
    PROVE  \/ /\ tail_offset > 0
              /\ \E i : OpensReader("copy tail", i,
                                    Seek(disk, Opened(tail_file, FALSE), tail_offset))
           \/ (tail_offset > 0 => disk[tail_file] = NoFile) /\ PassesBy("end")
<1> DEFINE o == OpenRead(zfiles, disk, tail_file)
           z == Seek(disk, o.zs[o.file], tail_offset)
           r == [o EXCEPT !.zs[o.file] = z]
<1>1. /\ PoolOK(zfiles) /\ DiskOK(disk) /\ Free(zfiles) # {}
      /\ tail_offset > 0 => tail_file \in FileNames /\ tail_file # ""
  <2>1. pc \notin Reading
    BY DEF OpenTail, Reading
  <2> QED BY <2>1, HandleLeft, WindowedFile, NamesOK DEF HandleInv, TypeInv
<1>2. \/ /\ tail_offset > 0 /\ tail_file # "" /\ o.file # 0
         /\ disk' = r.disk /\ zfiles' = r.zs
         /\ pc' = "copy tail" /\ job' = Opening(job, o.file)
      \/ /\ ~ (tail_offset > 0 /\ tail_file # "" /\ o.file # 0)
         /\ PassesBy("end")
  BY DEF OpenTail, Opens, Effect, Opening, PassesBy, At
<1>3. ASSUME tail_offset > 0 PROVE OpensForReading(zfiles, disk, tail_file, o)
  BY <1>1, <1>3, OpenReadOpens
<1>4. ASSUME tail_offset > 0, o.file # 0
      PROVE  /\ OpensAt(zfiles, disk, o.file, z, r)
             /\ z = Seek(disk, Opened(tail_file, FALSE), tail_offset)
  BY <1>1, <1>4, OpenReadThen
<1> HIDE DEF r, z, o
<1>5. CASE tail_offset > 0 /\ o.file # 0
  <2>1. OpensReader("copy tail", o.file, Seek(disk, Opened(tail_file, FALSE), tail_offset))
    BY <1>1, <1>2, <1>3, <1>4, <1>5 DEF OpensForReading, OpensAt, OpensReader
  <2> QED BY <1>5, <2>1
<1>6. CASE ~ (tail_offset > 0 /\ o.file # 0)
  <2>1. PassesBy("end")
    BY <1>1, <1>2, <1>6
  <2>2. tail_offset > 0 => disk[tail_file] = NoFile
    BY <1>1, <1>3, <1>6 DEF OpensForReading
  <2> QED BY <2>1, <2>2
<1> QED BY <1>5, <1>6

(* gb_load_more opens the file at tail_offset with a handle not in use.    *)
LEMMA PageInDoes ==
    ASSUME HandleInv, PageIn
    PROVE  /\ tail_offset > 0
           /\ \E i \in 1..MAX_FILES :
                /\ ~zfiles[i].used
                /\ pc' = "load" /\ job' = Opening(Idle, i) /\ disk' = disk
                /\ disk[tail_file] \in Records
                /\ zfiles' = [zfiles EXCEPT ![i] =
                                Seek(disk, Opened(tail_file, FALSE), tail_offset)]
<1> DEFINE o == OpenRead(zfiles, disk, tail_file)
           z == Seek(disk, o.zs[o.file], tail_offset)
           r == [o EXCEPT !.zs[o.file] = z]
<1>1. /\ PoolOK(zfiles) /\ DiskOK(disk) /\ tail_file \in FileNames
      /\ tail_offset > 0 /\ o.file # 0
  BY WindowedFile, NamesOK DEF PageIn, HandleInv, TypeInv
<1>2. /\ disk' = r.disk /\ zfiles' = r.zs /\ pc' = "load"
      /\ job' = [Idle EXCEPT !.in = o.file]
  BY DEF PageIn, Effect
<1>3. OpensForReading(zfiles, disk, tail_file, o)
  BY <1>1, OpenReadOpens
<1>4. /\ OpensAt(zfiles, disk, o.file, z, r)
      /\ z = Seek(disk, Opened(tail_file, FALSE), tail_offset)
  BY <1>1, OpenReadThen
<1>5. ASSUME NEW i PROVE [Idle EXCEPT !.in = i] = Opening(Idle, i)
  BY IdleOK DEF Opening, JOB
<1> HIDE DEF r, z, o
<1>6. job' = Opening(Idle, o.file)
  BY <1>2, <1>5
<1> QED BY <1>1, <1>2, <1>3, <1>4, <1>6 DEF OpensForReading, OpensAt

(* One more handle in use.                                                 *)
Put(i, z) == zfiles' = [zfiles EXCEPT ![i] = z]

(* One ZFILE changed, the others are as they were.                         *)
LEMMA OneMore ==
    ASSUME HandleInv, NEW i, i \in 1..MAX_FILES, NEW z, ZFILEOK(z), Put(i, z)
    PROVE  /\ PoolOK(zfiles') /\ zfiles'[i] = z
           /\ \A j \in 1..MAX_FILES : j # i => zfiles'[j] = zfiles[j]
<1> DEFINE ys == [zfiles EXCEPT ![i] = z]
<1>1. PoolOK(zfiles)
  BY DEF HandleInv, TypeInv
<1>2. PoolOK(ys) /\ ys[i] = z /\ \A j \in 1..MAX_FILES : j # i => ys[j] = zfiles[j]
  BY <1>1, PoolUpdate
<1>3. zfiles' = ys
  BY DEF Put
<1> HIDE DEF ys
<1> QED BY <1>2, <1>3

(* A file opened for reading, at a place of it.                            *)
LEMMA ReaderOK ==
    ASSUME HandleInv, tail_file \in FileNames, NEW z,
           z = Opened(tail_file, FALSE) \/ z = Seek(disk, Opened(tail_file, FALSE), tail_offset)
    PROVE  ZFILEOK(z) /\ z.used /\ ~z.is_write /\ z.name = tail_file
<1> DEFINE y == Opened(tail_file, FALSE)
           x == Seek(disk, y, tail_offset)
<1>1. ZFILEOK(y) /\ y.used /\ y.name = tail_file /\ y.is_write = FALSE
  BY OpenedOK
<1>2. DiskOK(disk) /\ tail_offset \in Nat
  BY DEF HandleInv, TypeInv
<1> HIDE DEF y
<1>3. ZFILEOK(x) /\ x.used = y.used /\ x.name = y.name /\ x.is_write = y.is_write
  BY ZenonT(30), <1>1, <1>2, SeekType
<1> HIDE DEF x
<1>4. z = y \/ z = x
  BY DEF x, y
<1> QED BY <1>1, <1>3, <1>4

Wanted(p) == IF p = "copy head" THEN win_start > 0 ELSE tail_offset > 0

(* Opening the old file for reading during a save keeps HandleInv: the     *)
(* handle is another than the one written to.                              *)
LEMMA OpensHandles ==
    ASSUME HandleInv, pc \in Saving, pc \notin Reading, UNCHANGED <<buffer, failed>>,
           NEW opened \in Copying, Wanted(opened),
           NEW i, NEW z, OpensReader(opened, i, z),
           z = Opened(tail_file, FALSE) \/ z = Seek(disk, Opened(tail_file, FALSE), tail_offset)
    PROVE  HandleInv'
<1>1. Windowed /\ tail_file \in FileNames
  BY WindowedFile DEF Wanted
<1>2. ZFILEOK(z) /\ z.used /\ ~z.is_write /\ z.name = tail_file
  BY <1>1, ReaderOK
<1>3. /\ i \in 1..MAX_FILES /\ ~zfiles[i].used /\ disk' = disk /\ pc' = opened
      /\ job' = Opening(job, i)
  BY DEF OpensReader
<1>4. /\ PoolOK(zfiles') /\ zfiles'[i] = z
      /\ \A j \in 1..MAX_FILES : j # i => zfiles'[j] = zfiles[j]
  <2>1. Put(i, z)
    BY DEF OpensReader, Put
  <2> QED BY <1>2, <1>3, <2>1, OneMore
<1>5. /\ job' \in JOB /\ job'.in = i /\ job'.target = job.target
      /\ job'.using_tmp = job.using_tmp /\ job'.out = job.out
  <2>1. i \in 0..MAX_FILES
    BY <1>3, PoolAssumption
  <2>2. job \in JOB
    BY DEF HandleInv, TypeInv
  <2> QED BY <1>3, <2>1, <2>2, OpeningOK
<1>6. pc' \in Saving /\ pc' \in Reading
  BY <1>3 DEF Copying, Saving, Reading
<1>7. TypeInv'
  BY <1>3, <1>4, <1>5, <1>6 DEF HandleInv, TypeInv, buffer
<1>8. NoLeak'
  <2>1. \A j \in 1..MAX_FILES : zfiles[j].used => j = job.out
    BY DEF HandleInv, NoLeak
  <2>2. \A j \in 1..MAX_FILES : zfiles'[j].used => j = job.out \/ j = i
    BY <1>4, <2>1
  <2> QED BY <1>5, <1>6, <2>2 DEF NoLeak
<1>9. OutOpen'
  <2>1. job.out \in 1..MAX_FILES /\ Out.used /\ Out.is_write /\ Out.name = OutName
    BY DEF HandleInv, OutOpen
  <2>2. job.out # i
    BY <1>3, <2>1 DEF Out
  <2>3. Out' = Out /\ OutName' = OutName
    BY <1>4, <1>5, <2>1, <2>2 DEF Out, OutName
  <2> QED BY <1>5, <2>1, <2>3 DEF OutOpen
<1>10. InOpen'
  <2>1. In' = z /\ UNCHANGED <<win_start, tail_offset, tail_file>>
    BY <1>4, <1>5 DEF In, buffer
  <2>2. IF pc' = "copy head" THEN win_start > 0 ELSE tail_offset > 0
    BY <1>3 DEF Wanted
  <2> QED BY <1>2, <1>3, <1>5, <2>1, <2>2 DEF InOpen
<1>11. NeedsFile' /\ TargetInv'
  BY <1>5 DEF HandleInv, NeedsFile, TargetInv, UsesTmp, Windowed, buffer
<1>12. TmpInv'
  BY <1>6 DEF TmpInv, Saving
<1> QED BY <1>7, <1>8, <1>9, <1>10, <1>11, <1>12 DEF HandleInv

(* Nothing is opened.                                                      *)
LEMMA PassesByHandles ==
    ASSUME HandleInv, pc \in Saving, pc \notin Reading, UNCHANGED <<buffer, failed>>,
           NEW next \in Saving, next \notin Reading, PassesBy(next)
    PROVE  HandleInv'
<1>1. /\ pc' = next /\ disk' = disk /\ zfiles' = zfiles
      /\ job' \in JOB /\ job'.target = job.target /\ job'.using_tmp = job.using_tmp
      /\ job'.out = job.out /\ job'.in = job.in
  BY AtOK DEF HandleInv, TypeInv, PassesBy
<1>2. TypeInv'
  BY <1>1 DEF HandleInv, TypeInv, buffer
<1>3. NoLeak' /\ OutOpen' /\ InOpen'
  BY <1>1 DEF HandleInv, NoLeak, OutOpen, InOpen, Out, OutName
<1>4. NeedsFile' /\ TargetInv'
  BY <1>1 DEF HandleInv, NeedsFile, TargetInv, UsesTmp, Windowed, buffer
<1>5. TmpInv'
  BY <1>1 DEF TmpInv, Saving
<1> QED BY <1>2, <1>3, <1>4, <1>5 DEF HandleInv

(* The step that begins the copy of the head keeps HandleInv.              *)
LEMMA OpenHeadHandles == ASSUME HandleInv, OpenHead PROVE HandleInv'
<1>1. pc \in Saving /\ pc \notin Reading
  BY DEF OpenHead, Saving, Reading
<1>2. UNCHANGED <<buffer, failed>>
  BY DEF OpenHead, Opens, Effect, Succeeds
<1>3. "copy head" \in Copying /\ "buffer" \in Saving /\ "buffer" \notin Reading
  BY DEF Copying, Saving, Reading
<1>4. win_start > 0 => Wanted("copy head")
  BY DEF Wanted
<1> QED BY <1>1, <1>2, <1>3, <1>4, OpenHeadDoes, OpensHandles, PassesByHandles

(* The step that begins the copy of the tail keeps HandleInv.              *)
LEMMA OpenTailHandles == ASSUME HandleInv, OpenTail PROVE HandleInv'
<1>1. pc \in Saving /\ pc \notin Reading
  BY DEF OpenTail, Saving, Reading
<1>2. UNCHANGED <<buffer, failed>>
  BY DEF OpenTail, Opens, Effect, Succeeds
<1>3. "copy tail" \in Copying /\ "end" \in Saving /\ "end" \notin Reading
  BY DEF Copying, Saving, Reading
<1>4. tail_offset > 0 => Wanted("copy tail")
  BY DEF Wanted
<1> QED BY <1>1, <1>2, <1>3, <1>4, OpenTailDoes, OpensHandles, PassesByHandles

(* The place of a copy is a number.                                        *)
LEMMA AtIsNat == ASSUME HandleInv PROVE job.at \in Nat
<1>1. job \in JOB
  BY DEF HandleInv, TypeInv
<1> QED BY <1>1 DEF JOB

(* Beginning to load more of the file keeps HandleInv.                     *)
LEMMA PageInHandles == ASSUME HandleInv, PageIn PROVE HandleInv'
<1>1. PICK i \in 1..MAX_FILES :
        /\ ~zfiles[i].used /\ pc' = "load" /\ job' = Opening(Idle, i) /\ disk' = disk
        /\ Put(i, Seek(disk, Opened(tail_file, FALSE), tail_offset))
  BY PageInDoes DEF Put
<1>2. tail_offset > 0 /\ tail_file \in FileNames
  BY WindowedFile, PageInDoes
<1>3. UNCHANGED <<buffer, failed>> /\ pc \notin Saving /\ pc \notin Reading
  BY DEF PageIn, Effect, Saving, Reading
<1> DEFINE z == Seek(disk, Opened(tail_file, FALSE), tail_offset)
<1>4. ZFILEOK(z) /\ z.used /\ ~z.is_write /\ z.name = tail_file
  BY <1>2, ReaderOK
<1> HIDE DEF z
<1>5. /\ PoolOK(zfiles') /\ zfiles'[i] = z
      /\ \A j \in 1..MAX_FILES : j # i => zfiles'[j] = zfiles[j]
  BY <1>1, <1>4, OneMore DEF z
<1>6. job' \in JOB /\ job'.in = i
  <2>1. i \in 0..MAX_FILES
    BY PoolAssumption
  <2> QED BY <1>1, <2>1, IdleOK, OpeningOK
<1>7. pc' \in Reading /\ pc' \notin Saving /\ pc' \notin Closed /\ pc' # "copy head"
  BY <1>1 DEF Reading, Saving, Closed
<1>8. TypeInv'
  BY <1>1, <1>3, <1>5, <1>6, <1>7 DEF HandleInv, TypeInv, buffer
<1>9. NoLeak'
  <2>1. \A j \in 1..MAX_FILES : ~zfiles[j].used
    BY <1>3 DEF HandleInv, NoLeak
  <2>2. \A j \in 1..MAX_FILES : zfiles'[j].used => j = i
    BY <1>5, <2>1
  <2> QED BY <1>6, <1>7, <2>2 DEF NoLeak
<1>10. InOpen'
  <2>1. In' = z /\ UNCHANGED <<win_start, tail_offset, tail_file>>
    BY <1>3, <1>5, <1>6 DEF In, buffer
  <2> QED BY <1>2, <1>4, <1>6, <1>7, <2>1 DEF InOpen
<1>11. OutOpen' /\ TargetInv'
  BY <1>7 DEF OutOpen, TargetInv
<1>12. NeedsFile' /\ TmpInv'
  BY <1>1, <1>3 DEF HandleInv, NeedsFile, TmpInv, buffer
<1> QED BY <1>8, <1>9, <1>10, <1>11, <1>12 DEF HandleInv

(* Copying a byte keeps HandleInv.                                         *)
LEMMA CopyByteHandles ==
    ASSUME HandleInv, pc \in Copying, NEW n \in Nat, NEW g, g = Getc(disk, In),
           g.c # EOF, CopyByte(g, n)
    PROVE  HandleInv'
<1>1. g.c \in Byte
  <2>1. DiskOK(disk) /\ ZFILEOK(In) /\ In.name \in FileNames
    BY HandlesOK DEF Copying, Reading
  <2>2. Getc(disk, In).c \in Byte \cup {EOF}
    BY <2>1, GetcType
  <2> QED BY <2>2
<1>2. /\ PoolOK(zfiles') /\ DiskOK(disk') /\ failed' \in BOOLEAN
      /\ \A i \in 1..MAX_FILES : SameFile(zfiles'[i], zfiles[i])
  BY <1>1, CopyByteDoes
<1>3. UNCHANGED <<buffer, pc>> /\ job' = At(job, job.at + n) /\ pc \in Saving
  BY DEF CopyByte, Effect, At, Copying, Saving
<1>4. job.at + n \in Nat
  BY AtIsNat
<1> QED BY <1>2, <1>3, <1>4, SameHandles

(* Ending a copy keeps HandleInv: its handle is closed and no longer       *)
(* counted.                                                                *)
LEMMA StopCopyingHandles ==
    ASSUME HandleInv, pc \in Copying, NEW next, next \in {"buffer", "end"}, StopCopying(next)
    PROVE  HandleInv'
<1>1. /\ PoolOK(zfiles') /\ disk' = disk
      /\ zfiles'[job.in] = Unused
      /\ \A i \in 1..MAX_FILES : i # job.in => zfiles'[i] = zfiles[i]
  BY StopCopyingDoes
<1>2. UNCHANGED <<buffer, failed>> /\ pc' = next /\ job' = Opening(job, 0)
  BY DEF StopCopying, Effect, Succeeds, Opening
<1>3. /\ job' \in JOB /\ job'.in = 0 /\ job'.target = job.target
      /\ job'.using_tmp = job.using_tmp /\ job'.out = job.out
  <2>1. 0 \in 0..MAX_FILES
    BY PoolAssumption
  <2>2. job \in JOB
    BY DEF HandleInv, TypeInv
  <2> QED BY <1>2, <2>1, <2>2, OpeningOK
<1>4. next \in Saving /\ next \notin Reading /\ pc \in Saving /\ pc \in Reading
  BY DEF Saving, Reading, Copying
<1>5. TypeInv'
  BY <1>1, <1>2, <1>3, <1>4 DEF HandleInv, TypeInv, buffer
<1>6. NoLeak'
  <2>1. \A i \in 1..MAX_FILES : zfiles[i].used => i = job.out \/ i = job.in
    BY DEF HandleInv, NoLeak
  <2>2. ~Unused.used
    BY DEF Unused
  <2>3. \A i \in 1..MAX_FILES : zfiles'[i].used => i = job.out
    BY <1>1, <2>1, <2>2
  <2> QED BY <1>2, <1>3, <1>4, <2>3 DEF NoLeak
<1>7. OutOpen'
  <2>1. job.out \in 1..MAX_FILES /\ Out.used /\ Out.is_write /\ Out.name = OutName
    BY <1>4 DEF HandleInv, OutOpen
  <2>2. job.out # job.in
    BY <1>4, HandlesOK
  <2>3. Out' = Out /\ OutName' = OutName
    BY <1>1, <1>3, <2>1, <2>2 DEF Out, OutName
  <2> QED BY <1>3, <2>1, <2>3 DEF OutOpen
<1>8. InOpen' /\ TmpInv'
  BY <1>2, <1>4 DEF InOpen, TmpInv, Saving
<1>9. NeedsFile' /\ TargetInv'
  BY <1>2, <1>3, <1>4 DEF HandleInv, NeedsFile, TargetInv, UsesTmp, Windowed, buffer
<1> QED BY <1>5, <1>6, <1>7, <1>8, <1>9 DEF HandleInv

(* Copying the head, to its end, keeps HandleInv.                          *)
LEMMA CopyHeadHandles == ASSUME HandleInv, CopyHead PROVE HandleInv'
<1> DEFINE g == Getc(disk, In)
<1>1. pc \in Copying
  BY DEF CopyHead, Copying
<1>2. \/ g.c # EOF /\ CopyByte(g, 1)
      \/ StopCopying("buffer")
  BY DEF CopyHead, In
<1>3. g = Getc(disk, In) /\ 1 \in Nat /\ "buffer" \in {"buffer", "end"}
  OBVIOUS
<1> HIDE DEF g
<1>4. CASE g.c # EOF /\ CopyByte(g, 1)
  BY <1>1, <1>3, <1>4, CopyByteHandles
<1>5. CASE StopCopying("buffer")
  BY <1>1, <1>3, <1>5, StopCopyingHandles
<1> QED BY <1>2, <1>4, <1>5

(* Copying the tail, to its end, keeps HandleInv.                          *)
LEMMA CopyTailHandles == ASSUME HandleInv, CopyTail PROVE HandleInv'
<1> DEFINE g == Getc(disk, In)
<1>1. pc \in Copying
  BY DEF CopyTail, Copying
<1>2. \/ g.c # EOF /\ CopyByte(g, 0)
      \/ StopCopying("end")
  BY DEF CopyTail, Ends, In
<1>3. g = Getc(disk, In) /\ 0 \in Nat /\ "end" \in {"buffer", "end"}
  OBVIOUS
<1> HIDE DEF g
<1>4. CASE g.c # EOF /\ CopyByte(g, 0)
  BY <1>1, <1>3, <1>4, CopyByteHandles
<1>5. CASE StopCopying("end")
  BY <1>1, <1>3, <1>5, StopCopyingHandles
<1> QED BY <1>2, <1>4, <1>5

(* What changes nothing but the program counter and what it is about.      *)
LEMMA WriteBufferHandles == ASSUME HandleInv, WriteBuffer PROVE HandleInv'
<1>1. pc \in Saving
  BY DEF WriteBuffer, Saving
<1>2. pc \in Saving /\ job.at + 1 \in Nat
  BY <1>1, AtIsNat
<1>3. CASE job.at < Len(text)
  <2>1. UNCHANGED <<buffer, pc>> /\ job' = At(job, job.at + 1)
    BY <1>3 DEF WriteBuffer, Effect, At
  <2>2. /\ PoolOK(zfiles') /\ DiskOK(disk') /\ failed' \in BOOLEAN
        /\ \A i \in 1..MAX_FILES : SameFile(zfiles'[i], zfiles[i])
    BY <1>3, WriteBufferDoes
  <2> QED BY <1>2, <2>1, <2>2, SameHandles
<1>4. CASE ~ (job.at < Len(text))
  <2>1. UNCHANGED <<disk, zfiles, buffer, job, failed>> /\ pc' = "tail" /\ pc = "buffer"
    BY <1>4 DEF WriteBuffer
  <2>2. TypeInv'
    BY <2>1 DEF HandleInv, TypeInv, buffer, Saving
  <2>3. NoLeak' /\ OutOpen' /\ InOpen'
    BY <2>1 DEF HandleInv, NoLeak, OutOpen, InOpen, Out, OutName, Saving, Reading
  <2>4. NeedsFile'
    BY <2>1 DEF HandleInv, NeedsFile, buffer
  <2>5. TargetInv' /\ TmpInv'
    BY <2>1 DEF HandleInv, TargetInv, TmpInv, UsesTmp, Windowed, buffer, Saving
  <2> QED BY <2>2, <2>3, <2>4, <2>5 DEF HandleInv
<1> QED BY <1>3, <1>4

(* Closing the file written keeps HandleInv, full disk or not.             *)
LEMMA CloseOutHandles == ASSUME HandleInv, CloseOut PROVE HandleInv'
<1>1. /\ PoolOK(zfiles') /\ DiskOK(disk') /\ failed' \in BOOLEAN
      /\ zfiles'[job.out] = Unused
      /\ \A i \in 1..MAX_FILES : i # job.out => zfiles'[i] = zfiles[i]
      /\ disk'[OutName] \in Records
  BY CloseOutDoes
<1>2. /\ UNCHANGED <<buffer, job>> /\ pc = "end"
      /\ pc' = IF job.using_tmp THEN "remove" ELSE "return"
  BY DEF CloseOut, Effect
<1>3. pc \in Saving /\ pc \notin Reading /\ pc' \in Closed /\ pc' \notin Saving /\ pc' \notin Reading
  BY <1>2 DEF Saving, Reading, Closed
<1>4. TypeInv'
  BY <1>1, <1>2, <1>3 DEF HandleInv, TypeInv, buffer
<1>5. NoLeak'
  <2>1. \A i \in 1..MAX_FILES : zfiles[i].used => i = job.out
    BY <1>3 DEF HandleInv, NoLeak
  <2>2. ~Unused.used
    BY DEF Unused
  <2> QED BY <1>1, <2>1, <2>2 DEF NoLeak
<1>6. OutOpen' /\ InOpen'
  BY <1>3 DEF OutOpen, InOpen
<1>7. NeedsFile' /\ TargetInv'
  BY <1>2, <1>3 DEF HandleInv, NeedsFile, TargetInv, UsesTmp, Windowed, buffer
<1>8. TmpInv'
  BY <1>1, <1>2 DEF TmpInv, OutName
<1> QED BY <1>4, <1>5, <1>6, <1>7, <1>8 DEF HandleInv

(* Removing a file removes that file only.                                 *)
LEMMA RemovedOK ==
    ASSUME NEW d, NEW n \in FileNames, DiskOK(d)
    PROVE  /\ DiskOK(Removed(d, n)) /\ Removed(d, n)[n] = NoFile
           /\ \A m \in FileNames : m # n => Removed(d, n)[m] = d[m]
BY DEF DiskOK, Removed

(* Renaming a file moves its records to the new name and touches no third  *)
(* file.                                                                   *)
LEMMA RenamedOK ==
    ASSUME NEW d, NEW n \in FileNames, NEW m \in FileNames, n # m, DiskOK(d), d[n] \in Records
    PROVE  /\ DiskOK(Renamed(d, n, m)) /\ Renamed(d, n, m)[m] = d[n]
           /\ \A l \in FileNames : l # n /\ l # m => Renamed(d, n, m)[l] = d[l]
<1>1. d[n] # NoFile
  BY NoFileAssumption
<1>2. Renamed(d, n, m) = [d EXCEPT ![m] = d[n], ![n] = NoFile]
  BY <1>1 DEF Renamed
<1> DEFINE e == [d EXCEPT ![m] = d[n], ![n] = NoFile]
<1>3. DiskOK(e) /\ e[m] = d[n] /\ \A l \in FileNames : l # n /\ l # m => e[l] = d[l]
  BY DEF DiskOK
<1> HIDE DEF e
<1> QED BY <1>2, <1>3 DEF e

(* A step of replacing the old file that leaves the temporary there until  *)
(* the rename keeps HandleInv.                                             *)
LEMMA ReplaceHandles ==
    ASSUME HandleInv, pc \in Closed, NEW d, NEW next \in Closed, Replace(d, next), DiskOK(d),
           next \in {"remove", "rename"} => job.using_tmp /\ d[Tmp] \in Records
    PROVE  HandleInv'
<1>1. disk' = d /\ pc' = next /\ UNCHANGED <<zfiles, buffer, job, failed>>
  BY DEF Replace
<1>2. next \notin Saving /\ next \notin Reading /\ pc \notin Saving /\ pc \notin Reading
  BY DEF Saving, Reading, Closed
<1>3. TypeInv'
  BY <1>1, <1>2 DEF HandleInv, TypeInv, buffer
<1>4. NoLeak' /\ OutOpen' /\ InOpen'
  BY <1>1, <1>2 DEF HandleInv, NoLeak, OutOpen, InOpen
<1>5. NeedsFile' /\ TargetInv'
  BY <1>1, <1>2 DEF HandleInv, NeedsFile, TargetInv, UsesTmp, Windowed, buffer
<1>6. TmpInv'
  BY <1>1 DEF TmpInv
<1> QED BY <1>3, <1>4, <1>5, <1>6 DEF HandleInv

(* Removing the old file keeps HandleInv: the temporary is another file.   *)
LEMMA RemoveOldHandles == ASSUME HandleInv, RemoveOld PROVE HandleInv'
<1>1. pc \in Closed /\ "rename" \in Closed /\ Replace(Removed(disk, job.target), "rename")
  BY DEF RemoveOld, Closed
<1>2. /\ job.target \in FileNames /\ job.target # Tmp /\ Tmp \in FileNames
      /\ DiskOK(disk) /\ job.using_tmp /\ disk[Tmp] \in Records
  BY <1>1, OutNameOK, NamesOK DEF RemoveOld, HandleInv, TypeInv, TmpInv
<1> DEFINE d == Removed(disk, job.target)
<1>3. DiskOK(d) /\ d[Tmp] = disk[Tmp]
  BY <1>2, RemovedOK
<1> HIDE DEF d
<1> QED BY <1>1, <1>2, <1>3, ReplaceHandles DEF d

(* Renaming the temporary keeps HandleInv.                                 *)
LEMMA RenameTmpHandles == ASSUME HandleInv, RenameTmp PROVE HandleInv'
<1>1. /\ pc \in Closed /\ "return" \in Closed /\ Replace(Renamed(disk, Tmp, job.target), "return")
      /\ "return" \notin {"remove", "rename"}
  BY DEF RenameTmp, Closed
<1>2. /\ job.target \in FileNames /\ job.target # Tmp /\ Tmp \in FileNames
      /\ DiskOK(disk) /\ disk[Tmp] \in Records
  BY <1>1, OutNameOK, NamesOK DEF RenameTmp, HandleInv, TypeInv, TmpInv
<1> DEFINE d == Renamed(disk, Tmp, job.target)
<1>3. DiskOK(d)
  BY <1>2, RenamedOK
<1> HIDE DEF d
<1> QED BY <1>1, <1>3, ReplaceHandles DEF d

(* What is written of the text is bytes.                                   *)
LEMMA EncodedIs ==
    ASSUME HandleInv
    PROVE  /\ text \in Seq(Byte) /\ Encode(text) \in Seq(Byte) /\ Len(Encode(text)) \in Nat
<1>1. text \in Seq(Byte \ {CR}) /\ {CR, LF} \subseteq Byte
  BY CharAssumption DEF HandleInv, TypeInv
<1>2. text \in Seq(Byte)
  BY <1>1
<1> QED BY <1>1, <1>2, EncodeType, LenProperties

(* A text kept in memory alone has no offsets.                             *)
LEMMA NotWindowed ==
    ASSUME HandleInv, ~Windowed
    PROVE  win_start = 0 /\ tail_offset = 0
<1>1. ~ (win_start > 0) /\ ~ (tail_offset > 0)
  BY WindowedFile
<1>2. win_start \in Nat /\ tail_offset \in Nat
  BY DEF HandleInv, TypeInv
<1> QED BY <1>1, <1>2

(* What gb_save does last, setting the offsets anew, keeps HandleInv.      *)
LEMMA ReturnHandles == ASSUME HandleInv, Return PROVE HandleInv'
<1>1. /\ pc \in Closed /\ pc \notin Saving /\ pc \notin Reading /\ pc' = "edit"
      /\ UNCHANGED <<disk, zfiles, text, win_start, failed>> /\ modified' = FALSE
      /\ job' = Idle
      /\ tail_file' = IF Windowed THEN job.target ELSE tail_file
      /\ tail_offset' = TailAfter /\ filename' = FilenameAfter
  BY DEF Return, Closed, Saving, Reading
<1>2. TailAfter \in Nat
  <2>1. win_start \in Nat /\ tail_offset \in Nat
    BY DEF HandleInv, TypeInv
  <2> QED BY <2>1, EncodedIs DEF TailAfter
<1>3. job.target \in Targets
  BY <1>1 DEF HandleInv, TargetInv
<1>4. filename' \in UserNames /\ tail_file' \in Targets \cup {""}
  BY <1>1, <1>3 DEF FilenameAfter, Targets, HandleInv, TypeInv
<1>5. TypeInv'
  BY <1>1, <1>2, <1>4, IdleOK DEF HandleInv, TypeInv
<1>6. NoLeak'
  BY <1>1 DEF HandleInv, NoLeak
<1>7. pc' \notin Saving /\ pc' \notin Reading /\ pc' \notin Closed
  BY <1>1 DEF Saving, Reading, Closed
<1>8. OutOpen' /\ InOpen' /\ TargetInv'
  BY <1>7 DEF OutOpen, InOpen, TargetInv
<1>9. TmpInv'
  BY <1>1 DEF TmpInv
<1>10. NeedsFile'
  <2>1. CASE Windowed
    <3>1. tail_file' # ""
      BY <1>1, <1>3, <2>1, NamesOK
    <3> QED BY <3>1 DEF NeedsFile
  <2>2. CASE ~Windowed
    BY <1>1, <2>2 DEF HandleInv, NeedsFile, TailAfter
  <2> QED BY <2>1, <2>2
<1> QED BY <1>5, <1>6, <1>8, <1>9, <1>10 DEF HandleInv

(* A step of a page-in: a byte, or the end of it.                          *)
LoadsByte(g) ==
    /\ g.c \notin {EOF, CtrlZ} /\ g.c \in Byte /\ job.at # Chunk
    /\ PoolOK(zfiles') /\ zfiles'[job.in] = g.z /\ SameFile(g.z, In)
    /\ \A i \in 1..MAX_FILES : i # job.in => zfiles'[i] = zfiles[i]
    /\ text' = IF g.c = CR THEN text ELSE Append(text, g.c)
    /\ job' = At(job, IF g.c = CR THEN job.at ELSE job.at + 1)
    /\ UNCHANGED <<disk, tail_offset, pc>>
LoadsNoMore(g) ==
    /\ job.at = Chunk \/ g.c \in {EOF, CtrlZ}
    /\ PoolOK(zfiles') /\ zfiles'[job.in] = Unused
    /\ \A i \in 1..MAX_FILES : i # job.in => zfiles'[i] = zfiles[i]
    /\ tail_offset' = IF job.at = Chunk THEN In.offset ELSE 0
    /\ job' = Idle /\ pc' = "edit"
    /\ UNCHANGED <<disk, text>>

(* gb_load_more takes a byte of the file, or ends at the buffer's limit or *)
(* the file's end.                                                         *)
LEMMA LoadCharDoes ==
    ASSUME HandleInv, LoadChar, NEW g, g = Getc(disk, In)
    PROVE  LoadsByte(g) \/ LoadsNoMore(g)
<1> DEFINE zs == [zfiles EXCEPT ![job.in] = g.z]
           ys == Close(zfiles, disk, job.in).zs
           done == job.at = Chunk \/ g.c \in {EOF, CtrlZ}
<1>1. /\ PoolOK(zfiles) /\ DiskOK(disk) /\ pc \in Reading
      /\ job.in \in 1..MAX_FILES /\ In.name \in FileNames /\ ZFILEOK(In)
      /\ zfiles[job.in].name \in FileNames /\ g = Getc(disk, zfiles[job.in])
  <2>1. pc \in Reading
    BY DEF LoadChar, Reading
  <2> QED BY <2>1, HandlesOK DEF In
<1>2. /\ disk' = disk
      /\ zfiles' = IF done THEN ys ELSE zs
      /\ text' = IF done \/ g.c = CR THEN text ELSE Append(text, g.c)
      /\ tail_offset' = IF ~done THEN tail_offset
                        ELSE IF job.at = Chunk THEN In.offset ELSE 0
      /\ job' = IF done THEN Idle ELSE [job EXCEPT !.at = IF g.c = CR THEN @ ELSE @ + 1]
      /\ pc' = IF done THEN "edit" ELSE "load"
      /\ pc = "load"
  BY DEF LoadChar, In
<1>3. PoolOK(ys) /\ ys[job.in] = Unused /\ \A i \in 1..MAX_FILES : i # job.in => ys[i] = zfiles[i]
  BY <1>1, CloseCloses DEF Confined
<1>4. /\ PoolOK(zs) /\ zs[job.in] = g.z /\ SameFile(g.z, In)
      /\ \A i \in 1..MAX_FILES : i # job.in => zs[i] = zfiles[i]
  <2>1. LET z == Getc(disk, zfiles[job.in]).z
            xs == [zfiles EXCEPT ![job.in] = z]
        IN  /\ PoolOK(xs) /\ xs[job.in] = z /\ SameFile(z, zfiles[job.in])
            /\ \A j \in 1..MAX_FILES : j # job.in => xs[j] = zfiles[j]
    BY <1>1, ReadingOn
  <2> QED BY <1>1, <2>1 DEF In
<1>5. g.c \in Byte \cup {EOF}
  <2>1. \A z : ZFILEOK(z) /\ z.name \in FileNames => Getc(disk, z).c \in Byte \cup {EOF}
    BY <1>1, GetcType
  <2> QED BY <1>1, <2>1
<1> HIDE DEF zs, ys
<1>6. CASE done
  BY <1>2, <1>3, <1>6 DEF LoadsNoMore
<1>7. CASE ~done
  <2>1. [job EXCEPT !.at = IF g.c = CR THEN @ ELSE @ + 1]
           = At(job, IF g.c = CR THEN job.at ELSE job.at + 1)
    BY DEF At
  <2> QED BY <1>2, <1>4, <1>5, <1>7, <2>1 DEF LoadsByte
<1> QED BY <1>6, <1>7

(* Taking a byte into the buffer, or ending, keeps HandleInv.              *)
LEMMA LoadCharHandles == ASSUME HandleInv, LoadChar PROVE HandleInv'
<1>1. PICK g : g = Getc(disk, In)
  OBVIOUS
<1>2. /\ pc \in Reading /\ pc = "load" /\ pc \notin Saving /\ "edit" \notin Closed
      /\ "edit" \notin Saving /\ "edit" \notin Reading /\ pc \notin Closed
  BY DEF LoadChar, Reading, Saving, Closed
<1>3. UNCHANGED <<win_start, tail_file, filename, modified, failed>>
  BY DEF LoadChar
<1>4. CASE LoadsByte(g)
  <2> DEFINE n == IF g.c = CR THEN job.at ELSE job.at + 1
  <2>1. n \in Nat
    BY AtIsNat
  <2> HIDE DEF n
  <2>2. job' \in JOB /\ job'.in = job.in
    BY <1>4, <2>1, AtOK DEF HandleInv, TypeInv, LoadsByte, n
  <2>3. text' \in Seq(Byte \ {CR})
    BY <1>4, AppendProperties DEF HandleInv, TypeInv, LoadsByte
  <2>4. TypeInv'
    BY <1>2, <1>3, <1>4, <2>2, <2>3 DEF HandleInv, TypeInv, LoadsByte
  <2>5. NoLeak'
    BY <1>2, <1>4, <2>2 DEF HandleInv, NoLeak, LoadsByte, SameFile, In
  <2>6. InOpen'
    BY <1>2, <1>3, <1>4, <2>2 DEF HandleInv, InOpen, LoadsByte, SameFile, In
  <2>7. OutOpen' /\ TargetInv'
    BY <1>2, <1>4 DEF OutOpen, TargetInv, LoadsByte
  <2>8. NeedsFile'
    BY <1>3, <1>4 DEF HandleInv, NeedsFile, LoadsByte
  <2>9. TmpInv'
    BY <1>2, <1>4 DEF TmpInv, LoadsByte
  <2> QED BY <2>4, <2>5, <2>6, <2>7, <2>8, <2>9 DEF HandleInv
<1>5. CASE LoadsNoMore(g)
  <2>1. In.offset \in Nat /\ tail_offset > 0
    BY <1>2, HandlesOK, FieldsOK DEF HandleInv, InOpen
  <2>2. TypeInv'
    BY <1>3, <1>5, <2>1, IdleOK DEF HandleInv, TypeInv, LoadsNoMore
  <2>3. NoLeak'
    <3>1. \A i \in 1..MAX_FILES : zfiles[i].used => i = job.in
      BY <1>2 DEF HandleInv, NoLeak
    <3>2. ~Unused.used
      BY DEF Unused
    <3> QED BY <1>5, <3>1, <3>2 DEF NoLeak, LoadsNoMore
  <2>4. OutOpen' /\ InOpen' /\ TargetInv'
    BY <1>2, <1>5 DEF OutOpen, InOpen, TargetInv, LoadsNoMore
  <2>5. NeedsFile'
    BY <1>3, <2>1 DEF HandleInv, NeedsFile
  <2>6. TmpInv'
    BY <1>5 DEF TmpInv, LoadsNoMore
  <2> QED BY <2>2, <2>3, <2>4, <2>5, <2>6 DEF HandleInv
<1> QED BY <1>1, <1>4, <1>5, LoadCharDoes

(* How it all begins.                                                      *)
LEMMA InitIs ==
    ASSUME Init
    PROVE  /\ DiskOK(disk) /\ filename \in UserNames /\ filename \in FileNames
           /\ disk[filename] \in Records
           /\ \E b : \E t \in 1..Len(b) : \E w \in 0..t : \E at_end \in BOOLEAN :
                /\ b = Contents(disk, filename) /\ b \in Seq(Plain)
                /\ at_end => t = Len(b)
                /\ WindowOf(b, w, t, at_end)
<1>1. DiskOK(disk) /\ filename \in UserNames /\ filename \in FileNames
  BY DisksAssumption, NamesOK DEF Init, DiskOK
<1>2. disk[filename] # NoFile
  BY DEF Init
<1>3. disk[filename] \in Records
  BY <1>1, <1>2 DEF DiskOK
<1> DEFINE b == Contents(disk, filename)
<1>4. b \in Seq(Plain)
  BY <1>1, ContentsType DEF DiskOK
<1>5. \E t \in 1..Len(b) : \E w \in 0..t : \E at_end \in {FALSE, t = Len(b)} :
        WindowOf(b, w, t, at_end)
  BY DEF Init
<1> HIDE DEF b
<1>6. PICK t \in 1..Len(b) : \E w \in 0..t : \E at_end \in {FALSE, t = Len(b)} :
        WindowOf(b, w, t, at_end)
  BY <1>5
<1>7. PICK w \in 0..t : \E at_end \in {FALSE, t = Len(b)} : WindowOf(b, w, t, at_end)
  BY <1>6
<1>8. \E at_end \in BOOLEAN : (at_end => t = Len(b)) /\ WindowOf(b, w, t, at_end)
  <2>1. PICK at_end \in {FALSE, t = Len(b)} : WindowOf(b, w, t, at_end)
    BY <1>7
  <2>2. at_end \in BOOLEAN /\ (at_end => t = Len(b))
    BY Zenon
  <2> QED BY <2>1, <2>2
<1>9. \E t2 \in 1..Len(b) : \E w2 \in 0..t2 : \E at_end \in BOOLEAN :
       (at_end => t2 = Len(b)) /\ WindowOf(b, w2, t2, at_end)
  BY <1>8
<1> QED BY <1>1, <1>3, <1>4, <1>9 DEF b

(* HandleInv holds of a document just opened.                              *)
LEMMA InitHandles == ASSUME Init PROVE HandleInv
<1>1. PICK b : \E t \in 1..Len(b) : \E w \in 0..t : \E at_end \in BOOLEAN :
        b \in Seq(Plain) /\ WindowOf(b, w, t, at_end)
  BY InitIs
<1>2. PICK t \in 1..Len(b) : \E w \in 0..t : \E at_end \in BOOLEAN : WindowOf(b, w, t, at_end)
  BY <1>1
<1>3. PICK w \in 0..t : \E at_end \in BOOLEAN : WindowOf(b, w, t, at_end)
  BY <1>2
<1>4. PICK at_end \in BOOLEAN : WindowOf(b, w, t, at_end)
  BY <1>3
<1>5. b \in Seq(Plain) /\ Len(b) \in Nat /\ w \in Nat /\ t \in Nat /\ t \in 0..Len(b)
  BY <1>1, LenProperties
<1>6. text \in Seq(Byte \ {CR})
  <2> DEFINE m == SubSeq(b, w + 1, t)
  <2>1. m \in Seq(Plain)
    BY <1>5, Middle
  <2>2. m \in Seq(Byte)
    BY <2>1 DEF Plain
  <2>3. text = Decode(m)
    BY <1>4 DEF WindowOf
  <2> HIDE DEF m
  <2> QED BY <2>2, <2>3, DecodeType
<1>7. win_start \in Nat /\ tail_offset \in Nat
  BY <1>4, <1>5 DEF WindowOf
<1>8. /\ DiskOK(disk) /\ filename \in UserNames
      /\ tail_file = IF win_start > 0 \/ tail_offset > 0 THEN filename ELSE ""
      /\ pc = "edit" /\ job = Idle /\ modified = FALSE /\ failed = FALSE
      /\ zfiles = [i \in 1..MAX_FILES |-> Unused]
  BY InitIs DEF Init
<1>9. tail_file \in Targets \cup {""}
  BY <1>8, NamesOK
<1>10. PoolOK(zfiles) /\ \A i \in 1..MAX_FILES : zfiles[i] = Unused
  BY <1>8, UnusedOK DEF PoolOK
<1>11. pc \notin Saving /\ pc \notin Reading /\ pc \notin Closed
  BY <1>8 DEF Saving, Reading, Closed
<1>12. TypeInv
  BY <1>6, <1>7, <1>8, <1>9, <1>10, IdleOK DEF TypeInv
<1>13. NoLeak
  <2>1. ~Unused.used
    BY DEF Unused
  <2> QED BY <1>10, <2>1 DEF NoLeak
<1>14. OutOpen /\ InOpen /\ TargetInv
  BY <1>11 DEF OutOpen, InOpen, TargetInv
<1>15. NeedsFile
  <2>1. filename # ""
    BY <1>8, NamesOK
  <2> QED BY <1>8, <2>1 DEF NeedsFile
<1>16. TmpInv
  BY <1>8 DEF TmpInv
<1> QED BY <1>12, <1>13, <1>14, <1>15, <1>16 DEF HandleInv

(* A stutter keeps HandleInv.                                              *)
LEMMA StutterHandles == ASSUME HandleInv, UNCHANGED vars PROVE HandleInv'
<1>1. UNCHANGED <<disk, zfiles, text, win_start, tail_offset, tail_file, filename, modified,
                  pc, job, failed>>
  BY DEF vars, buffer
<1>2. TypeInv' /\ NoLeak' /\ OutOpen' /\ InOpen' /\ NeedsFile'
  BY <1>1 DEF HandleInv, TypeInv, NoLeak, OutOpen, InOpen, NeedsFile, In, Out, OutName
<1>3. TargetInv' /\ TmpInv'
  BY <1>1 DEF HandleInv, TargetInv, TmpInv, UsesTmp, Windowed
<1> QED BY <1>2, <1>3 DEF HandleInv

(* Every step keeps HandleInv, so it is inductive by itself.               *)
LEMMA StepHandles == ASSUME HandleInv, [Next]_vars PROVE HandleInv'
<1>1. CASE Insert \/ Delete
  BY <1>1, EditHandles
<1>2. CASE PageIn
  BY <1>2, PageInHandles
<1>3. CASE \E n \in UserNames \cup {Swap}, refused \in BOOLEAN : Save(n, refused)
  BY <1>3, SaveHandles DEF Targets
<1>4. CASE Program
  BY <1>4, OpenHeadHandles, CopyHeadHandles, WriteBufferHandles, OpenTailHandles,
     CopyTailHandles, CloseOutHandles, RemoveOldHandles, RenameTmpHandles, ReturnHandles,
     LoadCharHandles DEF Program
<1>5. CASE UNCHANGED vars
  BY <1>5, StutterHandles
<1> QED BY <1>1, <1>2, <1>3, <1>4, <1>5 DEF Next

(* At every step of a save and of a page-in the names, the types and the   *)
(* handles are as HandleInv says, whatever the disk has room for.          *)
THEOREM HandlesKept == Spec => []HandleInv
<1>1. Init => HandleInv
  BY InitHandles
<1>2. HandleInv /\ [Next]_vars => HandleInv'
  BY StepHandles
<1> QED BY <1>1, <1>2, PTL DEF Spec

(* HandleInv implies the type invariant.                                   *)
LEMMA TypesOK == ASSUME HandleInv PROVE TypeOK
<1>1. ASSUME NEW n \in FileNames, disk[n] # NoFile, NEW i \in DOMAIN disk[n]
      PROVE  Len(disk[n][i]) = Rec
  <2>1. disk[n] \in Records
    BY <1>1 DEF HandleInv, TypeInv, DiskOK
  <2>2. disk[n][i] \in Record
    BY <2>1 DEF Records, Record
  <2> QED BY <2>2, RecordIsSequence
<1>2. ASSUME NEW i \in 1..MAX_FILES
      PROVE  Len(zfiles[i].buf) <= Rec /\ zfiles[i].buf_pos <= Rec
  BY DEF HandleInv, TypeInv, PoolOK, ZFILEOK
<1>3. win_start \in Nat /\ tail_offset \in Nat /\ modified \in BOOLEAN /\ failed \in BOOLEAN
  BY DEF HandleInv, TypeInv
<1>4. tail_file \in FileNames \cup {""} /\ filename \in UserNames
  BY NamesOK DEF HandleInv, TypeInv
<1>5. pc \in {"edit", "head", "copy head", "buffer", "tail", "copy tail", "end", "remove",
              "rename", "return", "load"}
  BY DEF HandleInv, TypeInv, Saving, Reading, Closed
<1>6. job.out \in 0..MAX_FILES /\ job.in \in 0..MAX_FILES
  <2>1. job \in JOB
    BY DEF HandleInv, TypeInv
  <2> QED BY <2>1 DEF JOB
<1> QED BY <1>1, <1>2, <1>3, <1>4, <1>5, <1>6 DEF TypeOK

(* The pool, the offsets and the program counter have their types, and a   *)
(* document without its rest in a file is not windowed.                    *)
THEOREM TypesKept == Spec => []TypeOK
BY HandlesKept, TypesOK, PTL

(* What tail_file holds of the document below the window and beyond it.    *)
Char      == Plain \ {CR}
Below     == Contents(disk, tail_file)
HeadBytes == IF win_start > 0 THEN First(Below, win_start) ELSE << >>
TailBytes == IF tail_offset > 0 THEN From(Below, tail_offset) ELSE << >>

(* The text in memory, with r beyond it, is the document.                  *)
DocIs(r) ==
    /\ head = Len(Decode(HeadBytes))
    /\ doc = (Decode(HeadBytes) \o text) \o Decode(r)
Within == Windowed => win_start <= Len(Below) /\ tail_offset <= Len(Below)
WindowInv ==
    pc \notin Closed =>
        Within /\ DocIs(IF pc = "load" THEN From(Below, In.offset) ELSE TailBytes)

(* What is read next, and what has been written so far.                    *)
ReadsBelow == ReadsWell(In, disk[tail_file]) /\ In.offset <= Len(Below)
ReaderInv ==
    /\ pc \in Reading => ReadsBelow
    /\ pc = "copy head" => In.offset = job.at /\ job.at <= win_start
    /\ pc \in {"copy tail", "load"} => In.offset >= tail_offset
OutHas(s) == Len(Out.buf) < Rec /\ Stream(Out) = s
WriterInv ==
    /\ pc = "head" => OutHas(<< >>)
    /\ pc = "copy head" => OutHas(SubSeq(Below, 1, In.offset))
    /\ pc = "buffer" => /\ OutHas(HeadBytes \o Encode(First(text, job.at)))
                        /\ job.at <= Len(text)
    /\ pc = "tail" => OutHas(HeadBytes \o Encode(text))
    /\ pc = "copy tail" =>
        OutHas((HeadBytes \o Encode(text)) \o SubSeq(Below, tail_offset + 1, In.offset))
    /\ pc = "end" => OutHas((HeadBytes \o Encode(text)) \o TailBytes)

(* The new file holds the document, and the window is a window of it.      *)
Holds(c) ==
    LET n == win_start + Len(Encode(text))
    IN  /\ Decode(c) = doc
        /\ n <= Len(c)
        /\ head = Len(Decode(First(c, win_start)))
        /\ doc = (Decode(First(c, win_start)) \o text) \o Decode(From(c, n))
        /\ ~Windowed => doc = text
ClosedInv ==
    pc \in Closed => Holds(Contents(disk, IF pc = "return" THEN job.target ELSE Tmp))

(* Until it is replaced the old file holds the document last saved.        *)
SafeInv == Windowed /\ pc \notin {"rename", "return"} => Decode(Below) = safe

Good == ~failed /\ ~emptied
ContentInv ==
    Good => /\ text \in Seq(Char)
            /\ WindowInv /\ ReaderInv /\ WriterInv /\ ClosedInv /\ SafeInv

Inv == HandleInv /\ ContentInv

(* CR and LF may be in a file, and a character of a text is a byte.        *)
LEMMA CharsOK ==
    /\ {CR, LF} \subseteq Plain /\ Char \subseteq Byte \ {CR} /\ Char \subseteq Plain
    /\ Plain \subseteq Byte /\ CR # LF
BY CharAssumption DEF Plain, Char

(* A text is a sequence of bytes that are no ^Z.                           *)
LEMMA AsPlain == ASSUME NEW t \in Seq(Char) PROVE t \in Seq(Plain)
BY CharsOK

(* Such bytes are bytes.                                                   *)
LEMMA AsByte == ASSUME NEW t \in Seq(Plain) PROVE t \in Seq(Byte)
BY CharsOK

(* Reading and writing text.                                               *)
LEMMA Decoded == ASSUME NEW b \in Seq(Plain) PROVE Decode(b) \in Seq(Char) /\ Len(Decode(b)) \in Nat
BY DecodeType, LenProperties DEF Char

(* A text written and read is the same text.                               *)
LEMMA Encoded ==
    ASSUME NEW t \in Seq(Char)
    PROVE  Encode(t) \in Seq(Plain) /\ Len(Encode(t)) \in Nat /\ Decode(Encode(t)) = t
<1>1. t \in Seq(Plain \ {CR})
  BY DEF Char
<1>2. t \in Seq(Plain)
  BY AsPlain
<1> QED BY <1>1, <1>2, CharsOK, EncodeType, RoundTrip, LenProperties

(* The parts of the document that are not in memory.                       *)
LEMMA BelowOK ==
    ASSUME HandleInv, Windowed
    PROVE  /\ Below \in Seq(Plain) /\ Len(Below) \in Nat
           /\ disk[tail_file] # NoFile => disk[tail_file] \in Records
           /\ disk[tail_file] = NoFile => Below = << >> /\ Len(Below) = 0
<1>1. DiskOK(disk) /\ tail_file \in FileNames
  BY WindowedFile DEF HandleInv, TypeInv
<1>2. Below \in Seq(Plain)
  BY <1>1, ContentsType DEF Below, DiskOK
<1>3. disk[tail_file] # NoFile => disk[tail_file] \in Records
  BY <1>1 DEF DiskOK
<1>4. disk[tail_file] = NoFile => Below = << >>
  BY DEF Below, Contents
<1> QED BY <1>2, <1>3, <1>4, LenProperties, EmptySeq

(* The two parts of the document that are not in memory are bytes of the   *)
(* file, the first as many as win_start says.                              *)
LEMMA BytesOK ==
    ASSUME HandleInv, Within
    PROVE  /\ win_start \in Nat /\ tail_offset \in Nat
           /\ HeadBytes \in Seq(Plain) /\ Len(HeadBytes) = win_start
           /\ TailBytes \in Seq(Plain)
           /\ win_start > 0 => HeadBytes = SubSeq(Below, 1, win_start)
<1>1. win_start \in Nat /\ tail_offset \in Nat
  BY DEF HandleInv, TypeInv
<1>2. << >> \in Seq(Plain) /\ Len(<< >>) = 0
  BY EmptySeq
<1>3. CASE Windowed
  <2>1. win_start \in 0..Len(Below) /\ tail_offset \in 0..Len(Below) /\ Below \in Seq(Plain)
    BY <1>1, <1>3, BelowOK DEF Within
  <2>2. /\ First(Below, win_start) \in Seq(Plain) /\ Len(First(Below, win_start)) = win_start
        /\ First(Below, win_start) = SubSeq(Below, 1, win_start)
        /\ From(Below, tail_offset) \in Seq(Plain)
    BY <2>1, Parts
  <2> QED BY <1>1, <1>2, <2>2 DEF HeadBytes, TailBytes
<1>4. CASE ~Windowed
  <2>1. win_start = 0 /\ tail_offset = 0
    BY <1>4, NotWindowed
  <2> QED BY <1>2, <2>1 DEF HeadBytes, TailBytes
<1> QED BY <1>3, <1>4

(* As long as the old file is left alone.                                  *)
LEMMA WindowKept ==
    ASSUME HandleInv, UNCHANGED buffer, Windowed => disk'[tail_file] = disk[tail_file]
    PROVE  /\ (Windowed <=> Windowed') /\ (Windowed => Below' = Below)
           /\ HeadBytes' = HeadBytes /\ TailBytes' = TailBytes
<1>1. UNCHANGED <<text, win_start, tail_offset, tail_file>>
  BY DEF buffer
<1>2. Windowed <=> Windowed'
  BY <1>1 DEF Windowed
<1>3. ASSUME Windowed
      PROVE  Below' = Below
  BY <1>1, <1>3 DEF Below, Contents
<1>4. CASE Windowed
  BY <1>1, <1>2, <1>3, <1>4 DEF HeadBytes, TailBytes
<1>5. CASE ~Windowed
  <2>1. win_start = 0 /\ tail_offset = 0
    BY <1>5, NotWindowed
  <2> QED BY <1>1, <1>2, <1>5, <2>1 DEF HeadBytes, TailBytes
<1> QED BY <1>2, <1>3, <1>4, <1>5

(* A step that changes neither the text nor the file with the rest keeps   *)
(* WindowInv.                                                              *)
LEMMA WindowInvKept ==
    ASSUME HandleInv, WindowInv, UNCHANGED <<buffer, doc, head>>,
           Windowed => disk'[tail_file] = disk[tail_file],
           pc \notin Closed, pc # "load", pc' # "load"
    PROVE  WindowInv'
<1>1. /\ (Windowed <=> Windowed') /\ (Windowed => Below' = Below)
      /\ HeadBytes' = HeadBytes /\ TailBytes' = TailBytes
  BY WindowKept
<1>2. UNCHANGED <<text, win_start, tail_offset, doc, head>>
  BY DEF buffer
<1>3. Within /\ DocIs(TailBytes)
  BY DEF WindowInv
<1>4. Within'
  BY <1>1, <1>2, <1>3 DEF Within
<1>5. DocIs(TailBytes)'
  BY <1>1, <1>2, <1>3 DEF DocIs
<1> QED BY <1>4, <1>5 DEF WindowInv

(* A step that leaves the old file alone keeps the document last saved.    *)
LEMMA SafeInvKept ==
    ASSUME HandleInv, SafeInv, UNCHANGED <<buffer, safe>>,
           Windowed => disk'[tail_file] = disk[tail_file],
           pc \notin {"rename", "return"}
    PROVE  SafeInv'
<1>1. (Windowed <=> Windowed') /\ (Windowed => Below' = Below)
  BY WindowKept
<1> QED BY <1>1 DEF SafeInv

(* A save writes another file than the one that holds the rest.            *)
LEMMA RestLeftAlone ==
    ASSUME HandleInv, pc \in Saving \cup Closed,
           \A m \in FileNames : m # OutName => disk'[m] = disk[m]
    PROVE  Windowed => disk'[tail_file] = disk[tail_file]
BY OutNameOK, WindowedFile

(* Between operations nothing is claimed of what is read or written.       *)
LEMMA EditStays ==
    ASSUME pc' = "edit"
    PROVE  ReaderInv' /\ WriterInv' /\ ClosedInv' /\ pc' \notin Closed /\ pc' # "load"
<1>1. pc' \notin Reading /\ pc' \notin Closed
  BY DEF Reading, Closed
<1> QED BY <1>1 DEF ReaderInv, WriterInv, ClosedInv

(* A change of the text keeps ContentInv: the document changes by the same *)
(* characters at the same place.                                           *)
LEMMA ChangeContents ==
    ASSUME HandleInv, ContentInv, NEW p \in 0..Len(text), NEW d \in Nat, p + d <= Len(text),
           NEW s, s \in Seq(Char), Change(p, d, s), Good'
    PROVE  ContentInv'
<1>1. /\ pc = "edit" /\ pc' = "edit"
      /\ text' = First(text, p) \o s \o From(text, p + d)
      /\ doc'  = First(doc, head + p) \o s \o From(doc, head + p + d)
      /\ UNCHANGED <<disk, win_start, tail_offset, tail_file, head, safe, failed, emptied>>
  BY DEF Change
<1>2. /\ Good /\ text \in Seq(Char) /\ WindowInv /\ SafeInv /\ pc \notin Closed /\ pc # "load"
  BY <1>1 DEF Good, ContentInv, Closed
<1>3. Within /\ DocIs(TailBytes)
  BY <1>2 DEF WindowInv
<1>4. UNCHANGED <<HeadBytes, TailBytes, Below>> /\ (Windowed <=> Windowed') /\ Within'
  BY <1>1, <1>3 DEF HeadBytes, TailBytes, Below, Contents, Windowed, Within
<1> DEFINE h == Decode(HeadBytes)
           r == Decode(TailBytes)
<1>5. h \in Seq(Char) /\ r \in Seq(Char)
  BY <1>3, BytesOK, Decoded
<1>6. p \in Nat /\ Len(text) \in Nat /\ p + d \in 0..Len(text)
  <2>1. Len(text) \in Nat
    BY <1>2, LenProperties
  <2>2. \A l \in Nat : \A m \in 0..l : m + d <= l => m \in Nat /\ m + d \in 0..l
    OBVIOUS
  <2> QED BY <2>1, <2>2
<1>7. First(text, p) \in Seq(Char) /\ From(text, p + d) \in Seq(Char)
  BY <1>2, <1>6, Parts
<1>8. text' \in Seq(Char)
  <2> DEFINE a == First(text, p)
             b == From(text, p + d)
  <2>1. a \in Seq(Char) /\ b \in Seq(Char) /\ text' = a \o s \o b
    BY <1>1, <1>7
  <2> HIDE DEF a, b
  <2> QED BY <2>1, ConcatProperties
<1>9. DocIs(TailBytes)'
  <2>1. doc = (h \o text) \o r /\ head = Len(h)
    BY <1>3 DEF DocIs
  <2> HIDE DEF h, r
  <2>2. Changed(h, text, r, s, p, d)
    BY <1>2, <1>5, <1>6, ChangeWithin
  <2>3. doc' = (h \o text') \o r /\ head' = Len(h)
    BY <1>1, <2>1, <2>2 DEF Changed
  <2> QED BY <1>4, <2>3 DEF DocIs, h, r
<1>10. ReaderInv' /\ WriterInv' /\ ClosedInv' /\ pc' \notin Closed /\ pc' # "load"
  BY <1>1, EditStays
<1>11. WindowInv'
  BY <1>4, <1>9, <1>10 DEF WindowInv
<1>12. SafeInv'
  BY <1>1, <1>2, <1>4 DEF SafeInv
<1> QED BY <1>8, <1>10, <1>11, <1>12 DEF ContentInv

(* Typing and deleting keep ContentInv, as long as no ^Z is typed.         *)
LEMMA EditContents ==
    ASSUME CtrlZ \notin Typed, HandleInv, ContentInv, Insert \/ Delete, Good'
    PROVE  ContentInv'
<1>1. /\ TypeInv /\ << >> \in Seq(Char)
      /\ \A p \in 0..Len(text) : p + 0 <= Len(text)
  <2>1. Len(text) \in Nat
    BY LenProperties DEF HandleInv, TypeInv
  <2> QED BY <2>1, EmptySeq DEF HandleInv
<1>2. CASE Insert
  <2>1. PICK p \in 0..Len(text), c \in Typed : Change(p, 0, <<c>>)
    BY <1>2 DEF Insert
  <2> DEFINE s == <<c>>
  <2>2. c \in Char
    BY CharAssumption DEF Char, Plain
  <2>3. s \in Seq(Char) /\ Change(p, 0, s)
    BY <2>1, <2>2
  <2> HIDE DEF s
  <2>4. 0 \in Nat
    OBVIOUS
  <2> QED BY <1>1, <2>3, <2>4, ChangeContents
<1>3. CASE Delete
  <2>1. PICK p \in 0..Len(text) : p + 1 <= Len(text) /\ Change(p, 1, << >>)
    BY <1>1, <1>3, DeleteIsChange
  <2>2. 1 \in Nat
    OBVIOUS
  <2> QED BY <1>1, <2>1, <2>2, ChangeContents
<1> QED BY <1>2, <1>3

(* A file just made or just opened.                                        *)
LEMMA NothingYet ==
    ASSUME NEW n \in FileNames, NEW writing \in BOOLEAN
    PROVE  /\ Len(Opened(n, writing).buf) < Rec /\ Stream(Opened(n, writing)) = << >>
           /\ \A recs \in Records : ReadsWell(Opened(n, writing), recs)
<1> DEFINE z == Opened(n, writing)
<1>1. /\ z.recs = << >> /\ z.buf = << >> /\ z.buf_pos = 0 /\ z.cr = 0 /\ z.offset = 0
  BY OpenedOK
<1> HIDE DEF z
<1>2. Len(z.buf) < Rec
  BY <1>1, RecordAssumption
<1>3. << >> \in Records /\ Len(<< >>) = 0
  BY EmptySeq DEF Records
<1>4. Bytes(<< >>) \in Seq(Byte) /\ Len(Bytes(<< >>)) = 0 * Rec
  BY <1>3, BytesType
<1>5. Bytes(<< >>) = << >>
  <2>1. 0 * Rec = 0
    BY RecordAssumption
  <2> QED BY <1>4, <2>1, EmptySeq
<1>6. Stream(z) = << >>
  BY <1>1, <1>5 DEF Stream
<1>7. ASSUME NEW recs \in Records PROVE ReadsWell(z, recs)
  <2>1. Len(recs) \in Nat /\ 0 * Rec = 0
    BY BytesType, RecordAssumption
  <2> QED BY <1>1, <2>1 DEF ReadsWell
<1> QED BY <1>2, <1>6, <1>7 DEF z

(* gb_save, as far as it opens its file, keeps ContentInv: the file that   *)
(* is made is not the one with the rest.                                   *)
LEMMA SaveContents ==
    ASSUME HandleInv, ContentInv, NEW n \in Targets, NEW refused, Save(n, refused), Good'
    PROVE  ContentInv'
<1> DEFINE name == IF UsesTmp(n) THEN Tmp ELSE n
<1>1. /\ pc = "edit" /\ UNCHANGED <<buffer, doc, head, safe, failed, emptied>>
      /\ pc \notin Closed
  BY DEF Save, Effect, Succeeds, Closed
<1>2. Good /\ text \in Seq(Char) /\ WindowInv /\ SafeInv
  BY <1>1 DEF Good, ContentInv
<1>3. name \in FileNames /\ (Windowed => disk'[tail_file] = disk[tail_file])
  BY SaveDoes, WindowedFile
<1>4. pc' = "edit" \/ pc' = "head"
  BY SaveDoes
<1>5. WindowInv'
  BY <1>1, <1>2, <1>3, <1>4, WindowInvKept
<1>6. SafeInv'
  BY <1>1, <1>2, <1>3, SafeInvKept
<1>7. text' \in Seq(Char)
  BY <1>1, <1>2 DEF buffer
<1>8. CASE pc' = "edit"
  BY <1>5, <1>6, <1>7, <1>8, EditStays DEF ContentInv
<1>9. CASE pc' = "head"
  <2>1. PICK i \in 1..MAX_FILES :
          /\ job' = Begun(n, UsesTmp(n), i)
          /\ zfiles' = [zfiles EXCEPT ![i] = Opened(name, TRUE)]
    BY <1>9, SaveDoes
  <2> DEFINE z == Opened(name, TRUE)
  <2>2. ZFILEOK(z) /\ Len(z.buf) < Rec /\ Stream(z) = << >>
    BY <1>3, OpenedOK, NothingYet
  <2>3. Put(i, z)
    BY <2>1 DEF Put
  <2> HIDE DEF z
  <2>4. zfiles'[i] = z
    BY <2>2, <2>3, OneMore
  <2>5. job'.out = i
    <3>1. i \in 0..MAX_FILES /\ UsesTmp(n) \in BOOLEAN
      BY PoolAssumption DEF UsesTmp
    <3> QED BY <2>1, <3>1, BegunOK
  <2>6. OutHas(<< >>)'
    BY <2>2, <2>4, <2>5 DEF OutHas, Out
  <2>7. WriterInv'
    BY <1>9, <2>6 DEF WriterInv
  <2>8. ReaderInv' /\ ClosedInv'
    BY <1>9 DEF ReaderInv, ClosedInv, Reading, Closed
  <2> QED BY <1>5, <1>6, <1>7, <2>7, <2>8 DEF ContentInv
<1> QED BY <1>4, <1>8, <1>9

(* What ContentInv says during a save.                                     *)
LEMMA SavingParts ==
    ASSUME HandleInv, ContentInv, Good, pc \in Saving
    PROVE  /\ text \in Seq(Char) /\ Within /\ DocIs(TailBytes) /\ SafeInv /\ WindowInv
           /\ ReaderInv /\ WriterInv /\ pc \notin Closed /\ pc # "load"
           /\ Windowed => Decode(Below) = safe
<1>1. pc \notin Closed /\ pc # "load" /\ pc \notin {"rename", "return"}
  BY DEF Saving, Closed
<1>2. /\ text \in Seq(Char) /\ SafeInv /\ WindowInv /\ ReaderInv /\ WriterInv
  BY DEF ContentInv
<1> QED BY <1>1, <1>2 DEF WindowInv, SafeInv

(* What a step of a save leaves as it was.                                 *)
LEMMA SavingKeeps ==
    ASSUME HandleInv, ContentInv, Good, pc \in Saving, pc' \in Saving,
           UNCHANGED <<buffer, history>>,
           \A m \in FileNames : m # OutName => disk'[m] = disk[m]
    PROVE  /\ text' \in Seq(Char) /\ WindowInv' /\ SafeInv' /\ ClosedInv'
           /\ UNCHANGED <<text, win_start, tail_offset, tail_file, HeadBytes, TailBytes>>
           /\ Windowed => Below' = Below /\ disk'[tail_file] = disk[tail_file]
<1>1. /\ text \in Seq(Char) /\ Within /\ SafeInv /\ WindowInv /\ pc \notin Closed /\ pc # "load"
      /\ pc \notin {"rename", "return"} /\ pc' # "load" /\ pc' \notin Closed
  BY SavingParts DEF Saving, Closed
<1>2. Windowed => disk'[tail_file] = disk[tail_file]
  BY RestLeftAlone
<1>3. UNCHANGED <<text, win_start, tail_offset, tail_file, doc, head, safe>>
  BY DEF buffer, history
<1>4. /\ (Windowed => Below' = Below) /\ HeadBytes' = HeadBytes /\ TailBytes' = TailBytes
  BY <1>2, WindowKept
<1>5. WindowInv'
  BY <1>1, <1>2, <1>3, WindowInvKept
<1>6. SafeInv'
  BY <1>1, <1>2, <1>3, SafeInvKept
<1>7. ClosedInv'
  BY <1>1 DEF ClosedInv
<1> QED BY <1>1, <1>2, <1>3, <1>4, <1>5, <1>6, <1>7

(* What the next byte is.                                                  *)
LEMMA ReadsOn ==
    ASSUME HandleInv, Within, ReadsBelow, pc \in Reading, NEW g, g = Getc(disk, In)
    PROVE  /\ Windowed /\ Below \in Seq(Plain) /\ In.offset \in Nat /\ Len(Below) \in Nat
           /\ disk[tail_file] \in Records /\ In.offset <= Len(Below)
           /\ In.offset < Len(Below) =>
                /\ g.c = Below[In.offset + 1] /\ g.c \in Plain /\ g.c # EOF /\ g.c # CtrlZ
                /\ g.z.offset = In.offset + 1
                /\ ReadsWell(g.z, disk[tail_file])
           /\ ~ (In.offset < Len(Below)) => g.c \in {EOF, CtrlZ} /\ In.offset = Len(Below)
<1> DEFINE all == Bytes(disk[tail_file])
           o   == In.offset
<1>1. /\ Windowed /\ tail_file \in FileNames /\ ZFILEOK(In) /\ In.name = tail_file
      /\ DiskOK(disk) /\ In.offset <= Len(Below) /\ ReadsWell(In, disk[tail_file])
  BY HandlesOK, WindowedFile DEF ReadsBelow
<1>2. Below \in Seq(Plain) /\ Len(Below) \in Nat /\ o \in Nat
  BY <1>1, BelowOK, FieldsOK
<1>3. disk[tail_file] \in Records
  <2>1. win_start > 0 \/ tail_offset > 0
    BY <1>1, WindowedFile
  <2>2. win_start <= Len(Below) /\ tail_offset <= Len(Below)
    BY <1>1 DEF Within
  <2>3. win_start \in Nat /\ tail_offset \in Nat
    BY DEF HandleInv, TypeInv
  <2>4. Len(Below) # 0
    BY <1>2, <2>1, <2>2, <2>3
  <2> QED BY <1>1, <2>4, BelowOK
<1>4. /\ Len(Below) <= Len(all)
      /\ \A i \in 1..Len(Below) : Below[i] = all[i]
      /\ Len(Below) < Len(all) => all[Len(Below) + 1] = CtrlZ
  BY <1>1, <1>3, ContentsOf DEF Below, DiskOK
<1>5. /\ o <= Len(all)
      /\ IF o < Len(all) THEN /\ g.c = all[o + 1] /\ g.z.offset = o + 1
                              /\ ReadsWell(g.z, disk[tail_file])
         ELSE g.c = EOF
  <2>1. LET z == In IN
        /\ z.offset <= Len(Bytes(disk[z.name]))
        /\ IF z.offset < Len(Bytes(disk[z.name]))
           THEN /\ Getc(disk, z).c = Bytes(disk[z.name])[z.offset + 1]
                /\ Getc(disk, z).z.offset = z.offset + 1
                /\ ReadsWell(Getc(disk, z).z, disk[z.name])
           ELSE Getc(disk, z).c = EOF /\ Getc(disk, z).z = z
    BY <1>1, <1>3, GetcReads
  <2> QED BY <1>1, <2>1
<1>6. Len(all) \in Nat
  BY <1>3, BytesType
<1> HIDE DEF all, o
<1>7. CASE o < Len(Below)
  <2>1. o + 1 \in 1..Len(Below) /\ o < Len(all)
    BY <1>2, <1>4, <1>6, <1>7
  <2>2. Below[o + 1] \in Plain
    BY <1>2, <2>1
  <2>3. Below[o + 1] # EOF /\ Below[o + 1] # CtrlZ
    BY <2>2, ByteAssumption DEF Plain
  <2> QED BY <1>1, <1>2, <1>3, <1>4, <1>5, <1>7, <2>1, <2>2, <2>3 DEF o
<1>8. CASE ~ (o < Len(Below))
  <2>1. o = Len(Below)
    BY <1>1, <1>2, <1>8 DEF o
  <2>2. o < Len(all) \/ o = Len(all)
    BY <1>2, <1>5, <1>6
  <2> QED BY <1>1, <1>2, <1>3, <1>4, <1>5, <1>8, <2>1, <2>2 DEF o
<1> QED BY <1>7, <1>8

(* Beginning the copy of the head keeps ContentInv.                        *)
LEMMA OpenHeadContents == ASSUME HandleInv, ContentInv, OpenHead, Good' PROVE ContentInv'
<1>1. /\ pc = "head" /\ pc \in Saving /\ UNCHANGED <<buffer, history, failed>>
  BY DEF OpenHead, Opens, Effect, Succeeds, Saving
<1>2. Good
  BY <1>1 DEF Good, history
<1>3. OutHas(<< >>) /\ Within /\ text \in Seq(Char)
  BY <1>1, <1>2, SavingParts DEF WriterInv
<1>4. job \in JOB /\ job.out \in 1..MAX_FILES /\ Out.used
  BY <1>1, HandlesOK DEF HandleInv, OutOpen
<1>5. CASE win_start > 0 /\ \E i : OpensReader("copy head", i, Opened(tail_file, FALSE))
  <2>1. PICK i : OpensReader("copy head", i, Opened(tail_file, FALSE))
    BY <1>5
  <2> DEFINE z == Opened(tail_file, FALSE)
  <2>2. /\ i \in 1..MAX_FILES /\ i # job.out /\ disk' = disk
        /\ job' = Opening(job, i) /\ disk[tail_file] \in Records /\ Put(i, z)
    BY <1>4, <2>1 DEF OpensReader, Put, Out
  <2>3. pc' = "copy head"
    BY <2>1 DEF OpensReader
  <2>4. Windowed /\ tail_file \in FileNames /\ win_start \in Nat
    BY <1>5, WindowedFile DEF HandleInv, TypeInv
  <2>5. ZFILEOK(z) /\ z.offset = 0 /\ ReadsWell(z, disk[tail_file])
    BY <2>2, <2>4, OpenedOK, NothingYet
  <2> HIDE DEF z
  <2>6. zfiles'[i] = z /\ zfiles'[job.out] = Out
    BY <1>4, <2>2, <2>5, OneMore DEF Out
  <2>7. job'.in = i /\ job'.at = 0 /\ job'.out = job.out
    <3>1. i \in 0..MAX_FILES
      BY <2>2, PoolAssumption
    <3> QED BY <1>4, <2>2, <3>1, OpeningOK
  <2>8. In' = z /\ Out' = Out
    BY <2>6, <2>7 DEF In, Out
  <2>9. pc' \in Saving /\ \A m \in FileNames : m # OutName => disk'[m] = disk[m]
    BY <2>2, <2>3 DEF Saving
  <2>10. /\ text' \in Seq(Char) /\ WindowInv' /\ SafeInv' /\ ClosedInv'
         /\ Below' = Below /\ win_start' = win_start /\ tail_file' = tail_file
    BY <1>1, <1>2, <2>4, <2>9, SavingKeeps
  <2>11. Below \in Seq(Plain) /\ Len(Below) \in Nat
    BY <2>4, BelowOK
  <2>12. ReadsBelow'
    BY <2>2, <2>5, <2>8, <2>10, <2>11 DEF ReadsBelow
  <2>13. In'.offset = job'.at /\ job'.at <= win_start'
    BY <2>4, <2>5, <2>7, <2>8, <2>10
  <2>14. ReaderInv'
    BY <2>12, <2>13, <2>3 DEF ReaderInv
  <2>15. SubSeq(Below, 1, 0) = << >>
    BY <2>11
  <2>16. OutHas(SubSeq(Below, 1, In.offset))'
    BY <1>3, <2>5, <2>8, <2>10, <2>15 DEF OutHas
  <2>17. WriterInv'
    BY <2>16, <2>3 DEF WriterInv
  <2> QED BY <2>10, <2>14, <2>17 DEF ContentInv
<1>6. CASE (win_start > 0 => disk[tail_file] = NoFile) /\ PassesBy("buffer")
  <2>1. pc' = "buffer" /\ job' = At(job, 0) /\ disk' = disk /\ zfiles' = zfiles
    BY <1>6 DEF PassesBy
  <2>2. job'.at = 0 /\ job'.out = job.out
    BY <1>4, <2>1, AtOK
  <2>3. win_start = 0
    <3>1. win_start \in Nat
      BY DEF HandleInv, TypeInv
    <3>2. ASSUME win_start > 0 PROVE FALSE
      <4>1. Windowed /\ disk[tail_file] = NoFile
        BY <1>6, <3>2, WindowedFile
      <4>2. Len(Below) = 0 /\ win_start <= Len(Below)
        BY <1>3, <4>1, BelowOK DEF Within
      <4> QED BY <3>2, <3>1, <4>2
    <3> QED BY <3>2, <3>1
  <2>4. pc' \in Saving /\ \A m \in FileNames : m # OutName => disk'[m] = disk[m]
    BY <2>1 DEF Saving
  <2>5. /\ text' \in Seq(Char) /\ WindowInv' /\ SafeInv' /\ ClosedInv'
        /\ HeadBytes' = HeadBytes /\ text' = text
    BY <1>1, <1>2, <2>4, SavingKeeps
  <2>6. HeadBytes \o Encode(First(text, 0)) = << >>
    <3>1. First(text, 0) = << >> /\ HeadBytes = << >>
      BY <1>3, <2>3, PartsAtEnds DEF HeadBytes
    <3>2. << >> \o << >> = << >>
      BY EmptySeq
    <3> QED BY <3>1, <3>2, EncodeEmpty
  <2>7. OutHas(HeadBytes \o Encode(First(text, job.at)))' /\ job'.at <= Len(text')
    <3>1. Out' = Out
      BY <2>1, <2>2 DEF Out
    <3>2. Len(text) \in Nat
      BY <1>3, LenProperties
    <3> QED BY <1>3, <2>2, <2>5, <2>6, <3>1, <3>2 DEF OutHas
  <2>8. ReaderInv' /\ WriterInv'
    BY <2>1, <2>7 DEF ReaderInv, WriterInv, Reading
  <2> QED BY <2>5, <2>8 DEF ContentInv
<1> QED BY <1>5, <1>6, OpenHeadDoes

(* What has failed has failed.                                             *)
LEMMA FailsForGood == ASSUME HandleInv, NEW r, Fails(r), ~failed' PROVE ~failed
<1>1. failed \in BOOLEAN /\ failed' = (failed \/ ~r.ok)
  BY DEF Fails, HandleInv, TypeInv
<1> QED BY <1>1

(* A copy that has not failed had not failed before.                       *)
LEMMA CopyByteGood == ASSUME HandleInv, NEW g, NEW n, CopyByte(g, n), Good' PROVE Good
<1>1. \E r : Fails(r)
  BY DEF CopyByte
<1>2. ~failed' /\ ~emptied' /\ emptied' = emptied
  BY DEF CopyByte, Good, history
<1> QED BY <1>1, <1>2, FailsForGood DEF Good

(* A byte of the old file copied into the new one.                         *)
Copied(n) ==
    /\ Good /\ text' \in Seq(Char) /\ WindowInv' /\ SafeInv' /\ ClosedInv' /\ ReadsBelow'
    /\ UNCHANGED <<text, win_start, tail_offset, HeadBytes, Below>>
    /\ In'.offset = In.offset + 1 /\ job'.at = job.at + n
    /\ Stream(Out') = Append(Stream(Out), Below[In.offset + 1]) /\ Len(Out'.buf) < Rec

(* Copying a byte takes the next byte of the old file to the end of the    *)
(* new one.                                                                *)
LEMMA CopyByteCopies ==
    ASSUME HandleInv, ContentInv, Good', pc \in Copying, NEW g, g = Getc(disk, In),
           In.offset < Len(Below), NEW n \in Nat, CopyByte(g, n)
    PROVE  Copied(n)
<1>1. pc \in Saving /\ pc \in Reading /\ pc' = pc
  BY DEF Copying, Saving, Reading, CopyByte
<1>2. UNCHANGED <<buffer, history>> /\ job' = At(job, job.at + n)
  BY DEF CopyByte, Effect, At
<1>3. Good
  BY CopyByteGood
<1>4. Within /\ ReadsBelow
  BY <1>1, <1>3, SavingParts DEF ReaderInv
<1>5. /\ Windowed /\ Below \in Seq(Plain) /\ In.offset \in Nat /\ Len(Below) \in Nat
      /\ g.c = Below[In.offset + 1] /\ g.c \in Plain
      /\ g.z.offset = In.offset + 1 /\ ReadsWell(g.z, disk[tail_file])
  BY <1>1, <1>4, ReadsOn
<1>6. g.c \in Byte
  BY <1>5 DEF Plain
<1>7. /\ zfiles'[job.in] = g.z
      /\ \A m \in FileNames : m # OutName => disk'[m] = disk[m]
      /\ ~failed' => /\ Stream(zfiles'[job.out]) = Append(Stream(Out), g.c)
                     /\ Len(zfiles'[job.out].buf) < Rec
  BY <1>6, CopyByteDoes
<1>8. job'.in = job.in /\ job'.out = job.out /\ job'.at = job.at + n
  <2>1. job \in JOB /\ job.at + n \in Nat
    BY AtIsNat, HandlesOK
  <2> QED BY <1>2, <2>1, AtOK
<1>9. In' = g.z /\ Out' = zfiles'[job.out]
  BY <1>7, <1>8 DEF In, Out
<1>10. /\ text' \in Seq(Char) /\ WindowInv' /\ SafeInv' /\ ClosedInv'
       /\ UNCHANGED <<text, win_start, tail_offset, tail_file, HeadBytes>>
       /\ Below' = Below /\ disk'[tail_file] = disk[tail_file]
  BY <1>1, <1>2, <1>3, <1>5, <1>7, SavingKeeps
<1>11. ReadsBelow'
  <2>1. In'.offset <= Len(Below)
    BY <1>5, <1>9
  <2> QED BY <1>5, <1>9, <1>10, <2>1 DEF ReadsBelow
<1>12. ~failed'
  BY DEF Good
<1>13. Stream(Out') = Append(Stream(Out), Below[In.offset + 1]) /\ Len(Out'.buf) < Rec
  BY <1>5, <1>7, <1>9, <1>12
<1> QED BY <1>3, <1>5, <1>8, <1>9, <1>10, <1>11, <1>13 DEF Copied

(* The end of it.                                                          *)
LEMMA StopCopyingKeeps ==
    ASSUME HandleInv, ContentInv, Good', pc \in Copying,
           NEW next, next \in {"buffer", "end"}, StopCopying(next)
    PROVE  /\ Good /\ text' \in Seq(Char) /\ WindowInv' /\ SafeInv' /\ ClosedInv' /\ ReaderInv'
           /\ UNCHANGED <<text, HeadBytes, TailBytes, Out>> /\ job'.at = 0 /\ pc' = next
<1>1. pc \in Saving /\ pc \in Reading /\ pc' = next /\ pc' \in Saving /\ pc' \notin Reading
  BY DEF Copying, Saving, Reading, StopCopying
<1>2. UNCHANGED <<buffer, history, failed>> /\ job' = Opening(job, 0)
  BY DEF StopCopying, Effect, Succeeds, Opening
<1>3. Good
  BY <1>2 DEF Good, history
<1>4. disk' = disk /\ \A i \in 1..MAX_FILES : i # job.in => zfiles'[i] = zfiles[i]
  BY StopCopyingDoes
<1>5. job'.at = 0 /\ job'.out = job.out
  <2>1. 0 \in 0..MAX_FILES
    BY PoolAssumption
  <2>2. job \in JOB
    BY DEF HandleInv, TypeInv
  <2> QED BY <1>2, <2>1, <2>2, OpeningOK
<1>6. Out' = Out
  BY <1>1, <1>4, <1>5, HandlesOK DEF Out
<1>7. \A m \in FileNames : m # OutName => disk'[m] = disk[m]
  BY <1>4
<1>8. /\ text' \in Seq(Char) /\ WindowInv' /\ SafeInv' /\ ClosedInv'
      /\ UNCHANGED <<text, HeadBytes, TailBytes>>
  BY <1>1, <1>2, <1>3, <1>7, SavingKeeps
<1>9. ReaderInv'
  BY <1>1 DEF ReaderInv, Reading
<1> QED BY <1>1, <1>3, <1>5, <1>6, <1>8, <1>9

(* Copying the head keeps ContentInv; at its end the new file has the      *)
(* head.                                                                   *)
LEMMA CopyHeadContents == ASSUME HandleInv, ContentInv, CopyHead, Good' PROVE ContentInv'
<1> DEFINE g == Getc(disk, In)
           o == In.offset
<1>1. pc = "copy head" /\ pc \in Copying /\ pc \in Saving /\ pc \in Reading
  BY DEF CopyHead, Copying, Saving, Reading
<1>2. \/ job.at < win_start /\ g.c \notin {EOF, CtrlZ} /\ CopyByte(g, 1)
      \/ ~ (job.at < win_start /\ g.c \notin {EOF, CtrlZ}) /\ StopCopying("buffer")
  BY DEF CopyHead, In
<1>3. Good
  <2>1. CASE CopyByte(g, 1)
    BY <2>1, CopyByteGood
  <2>2. CASE StopCopying("buffer")
    BY <2>2 DEF StopCopying, Succeeds, Good, history
  <2> QED BY <1>2, <2>1, <2>2
<1>4. Within /\ ReadsBelow /\ OutHas(SubSeq(Below, 1, o)) /\ o = job.at /\ job.at <= win_start
  BY <1>1, <1>3, SavingParts DEF ReaderInv, WriterInv
<1>5. g = Getc(disk, In)
  OBVIOUS
<1> HIDE DEF g
<1>6. /\ Windowed /\ Below \in Seq(Plain) /\ o \in Nat /\ Len(Below) \in Nat
      /\ o < Len(Below) => g.c # EOF /\ g.c # CtrlZ
  BY <1>1, <1>4, <1>5, ReadsOn
<1>7. win_start \in Nat /\ win_start <= Len(Below)
  BY <1>4, <1>6 DEF Within, HandleInv, TypeInv
<1>8. CASE job.at < win_start /\ g.c \notin {EOF, CtrlZ} /\ CopyByte(g, 1)
  <2>1. o < Len(Below) /\ 1 \in Nat
    BY <1>4, <1>6, <1>7, <1>8
  <2>2. Copied(1)
    BY <1>1, <1>5, <1>8, <2>1, CopyByteCopies
  <2>3. pc' = "copy head"
    BY <1>1, <1>8 DEF CopyByte
  <2>4. SubSeq(Below, 1, o + 1) = Append(SubSeq(Below, 1, o), Below[o + 1])
    <3>1. 0 \in Nat /\ 0 <= o /\ 0 + 1 = 1
      BY <1>6
    <3> QED BY <1>6, <2>1, <3>1, NextPart
  <2>5. OutHas(SubSeq(Below, 1, In.offset))'
    BY <1>4, <2>2, <2>4 DEF Copied, OutHas
  <2>6. In'.offset = job'.at /\ job'.at <= win_start'
    BY <1>4, <1>6, <1>7, <1>8, <2>2 DEF Copied
  <2>7. WriterInv' /\ ReaderInv'
    BY <2>2, <2>3, <2>5, <2>6 DEF WriterInv, ReaderInv, Copied
  <2> QED BY <2>2, <2>7 DEF ContentInv, Copied
<1>9. CASE ~ (job.at < win_start /\ g.c \notin {EOF, CtrlZ}) /\ StopCopying("buffer")
  <2>1. o = win_start
    BY <1>4, <1>6, <1>7, <1>9
  <2>2. /\ text' \in Seq(Char) /\ WindowInv' /\ SafeInv' /\ ClosedInv' /\ ReaderInv'
        /\ UNCHANGED <<text, HeadBytes, Out>> /\ job'.at = 0
    BY <1>1, <1>9, StopCopyingKeeps
  <2>3. text \in Seq(Char) /\ Len(text) \in Nat
    BY <2>2, LenProperties
  <2>4. Stream(Out) = HeadBytes
    <3>1. win_start > 0
      BY <1>1 DEF HandleInv, InOpen
    <3>2. HeadBytes = SubSeq(Below, 1, win_start)
      BY <1>4, <3>1, BytesOK
    <3> QED BY <1>4, <2>1, <3>2 DEF OutHas
  <2>5. HeadBytes \o Encode(First(text, 0)) = HeadBytes
    <3>1. First(text, 0) = << >>
      BY <2>3, PartsAtEnds
    <3>2. HeadBytes \o << >> = HeadBytes
      BY <1>4, BytesOK, ConcatEmptySeq
    <3> QED BY <3>1, <3>2, EncodeEmpty
  <2>6. OutHas(HeadBytes \o Encode(First(text, job.at)))' /\ job'.at <= Len(text')
    <3>1. 0 <= Len(text)
      BY <2>3
    <3>2. Len(Out'.buf) < Rec /\ Stream(Out') = HeadBytes
      BY <1>4, <2>2, <2>4 DEF OutHas
    <3> QED BY <2>2, <2>5, <3>1, <3>2 DEF OutHas
  <2>7. WriterInv'
    BY <1>9, <2>6 DEF WriterInv, StopCopying
  <2> QED BY <2>2, <2>7 DEF ContentInv
<1> QED BY <1>2, <1>8, <1>9

(* One character more encoded.                                             *)
LEMMA EncodeNext ==
    ASSUME NEW h \in Seq(Plain), NEW t \in Seq(Char), NEW n \in Nat, n < Len(t)
    PROVE  h \o Encode(First(t, n + 1)) =
             (h \o Encode(First(t, n))) \o (IF t[n + 1] = LF THEN <<CR, LF>> ELSE <<t[n + 1]>>)
<1>1. Len(t) \in Nat /\ n \in 0..Len(t) /\ 0 <= n /\ 0 \in Nat
  BY LenProperties
<1> DEFINE f == First(t, n)
           c == t[n + 1]
           e == IF c = LF THEN <<CR, LF>> ELSE <<c>>
<1>2. f \in Seq(Char) /\ c \in Char /\ First(t, n + 1) = Append(f, c)
  BY NextFirst
<1> HIDE DEF f, c
<1>3. f \in Seq(Plain) /\ c \in Plain
  BY <1>2, CharsOK
<1>4. Encode(Append(f, c)) = Encode(f) \o e
  BY <1>3, CharsOK, EncodeAppend
<1>5. Encode(f) \in Seq(Plain) /\ e \in Seq(Plain)
  <2>1. CR \in Plain /\ LF \in Plain
    BY CharsOK
  <2> QED BY <1>2, <1>3, <2>1, Encoded
<1> HIDE DEF e
<1>6. h \o (Encode(f) \o e) = (h \o Encode(f)) \o e
  BY <1>5, ConcatAssociative
<1> QED BY <1>2, <1>4, <1>6 DEF f, e, c

(* Writing the buffer keeps ContentInv; at its end the new file has the    *)
(* head and the text.                                                      *)
LEMMA WriteBufferContents == ASSUME HandleInv, ContentInv, WriteBuffer, Good' PROVE ContentInv'
<1>1. pc = "buffer" /\ pc \in Saving /\ UNCHANGED <<buffer, history>>
  BY DEF WriteBuffer, Effect, Saving
<1>2. CASE job.at < Len(text)
  <2>1. /\ \A m \in FileNames : m # OutName => disk'[m] = disk[m]
        /\ ~failed' =>
            /\ ~failed
            /\ Stream(zfiles'[job.out]) =
                 Stream(Out) \o (IF text[job.at + 1] = LF THEN <<CR, LF>>
                                 ELSE <<text[job.at + 1]>>)
            /\ Len(zfiles'[job.out].buf) < Rec
    BY <1>2, WriteBufferDoes
  <2>2. Good /\ ~failed'
    BY <1>1, <2>1 DEF Good, history
  <2>3. job' = At(job, job.at + 1) /\ pc' = "buffer" /\ pc' \in Saving
    BY <1>1, <1>2 DEF WriteBuffer, At, Saving
  <2>4. job'.at = job.at + 1 /\ job'.out = job.out /\ job.at \in Nat
    <3>1. job \in JOB /\ job.at \in Nat /\ job.at + 1 \in Nat
      BY AtIsNat, HandlesOK
    <3> QED BY <2>3, <3>1, AtOK
  <2>5. /\ text \in Seq(Char) /\ Within
        /\ OutHas(HeadBytes \o Encode(First(text, job.at)))
    BY <1>1, <2>2, SavingParts DEF WriterInv
  <2>6. /\ text' \in Seq(Char) /\ WindowInv' /\ SafeInv' /\ ClosedInv'
        /\ UNCHANGED <<text, HeadBytes>>
    BY <1>1, <2>1, <2>2, <2>3, SavingKeeps
  <2> DEFINE e == IF text[job.at + 1] = LF THEN <<CR, LF>> ELSE <<text[job.at + 1]>>
  <2>7. Stream(Out') = Stream(Out) \o e /\ Len(Out'.buf) < Rec
    BY <2>1, <2>2, <2>4 DEF Out
  <2>8. HeadBytes \o Encode(First(text, job.at + 1))
          = (HeadBytes \o Encode(First(text, job.at))) \o e
    BY <1>2, <2>4, <2>5, BytesOK, EncodeNext
  <2>9. OutHas(HeadBytes \o Encode(First(text, job.at)))'
    <3> HIDE DEF e
    <3> QED BY <2>4, <2>5, <2>6, <2>7, <2>8 DEF OutHas
  <2>10. job'.at <= Len(text')
    <3>1. Len(text) \in Nat
      BY <2>5, LenProperties
    <3> QED BY <1>2, <2>4, <2>6, <3>1
  <2>11. WriterInv' /\ ReaderInv'
    BY <2>3, <2>9, <2>10 DEF WriterInv, ReaderInv, Reading
  <2> QED BY <2>6, <2>11 DEF ContentInv
<1>3. CASE ~ (job.at < Len(text))
  <2>1. pc' = "tail" /\ pc' \in Saving /\ UNCHANGED <<disk, zfiles, job, failed>>
    BY <1>3 DEF WriteBuffer, Saving
  <2>2. Good
    BY <1>1, <2>1 DEF Good, history
  <2>3. /\ text \in Seq(Char) /\ job.at <= Len(text)
        /\ OutHas(HeadBytes \o Encode(First(text, job.at)))
    BY <1>1, <2>2, SavingParts DEF WriterInv
  <2>4. /\ text' \in Seq(Char) /\ WindowInv' /\ SafeInv' /\ ClosedInv'
        /\ UNCHANGED <<text, HeadBytes>>
    BY <1>1, <2>1, <2>2, SavingKeeps
  <2>5. First(text, job.at) = text
    <3>1. job.at = Len(text)
      BY <1>3, <2>3, AtIsNat, LenProperties
    <3> QED BY <2>3, <3>1, PartsAtEnds
  <2>6. OutHas(HeadBytes \o Encode(text))'
    BY <2>1, <2>3, <2>4, <2>5 DEF OutHas, Out
  <2>7. WriterInv' /\ ReaderInv'
    BY <2>1, <2>6 DEF WriterInv, ReaderInv, Reading
  <2> QED BY <2>4, <2>7 DEF ContentInv
<1> QED BY <1>2, <1>3

(* Beginning the copy of the tail keeps ContentInv.                        *)
LEMMA OpenTailContents == ASSUME HandleInv, ContentInv, OpenTail, Good' PROVE ContentInv'
<1>1. /\ pc = "tail" /\ pc \in Saving /\ UNCHANGED <<buffer, history, failed>>
  BY DEF OpenTail, Opens, Effect, Succeeds, Saving
<1>2. Good
  BY <1>1 DEF Good, history
<1>3. OutHas(HeadBytes \o Encode(text)) /\ Within /\ text \in Seq(Char)
  BY <1>1, <1>2, SavingParts DEF WriterInv
<1>4. job \in JOB /\ job.out \in 1..MAX_FILES /\ Out.used
  BY <1>1, HandlesOK DEF HandleInv, OutOpen
<1>5. HeadBytes \o Encode(text) \in Seq(Plain)
  BY <1>3, BytesOK, Encoded, ConcatProperties
<1>6. (HeadBytes \o Encode(text)) \o << >> = HeadBytes \o Encode(text)
  BY <1>5, ConcatEmptySeq
<1>7. tail_offset \in Nat
  BY DEF HandleInv, TypeInv
<1>8. CASE /\ tail_offset > 0
           /\ \E i : OpensReader("copy tail", i, Seek(disk, Opened(tail_file, FALSE), tail_offset))
  <2>1. PICK i : OpensReader("copy tail", i, Seek(disk, Opened(tail_file, FALSE), tail_offset))
    BY <1>8
  <2> DEFINE y == Opened(tail_file, FALSE)
             z == Seek(disk, y, tail_offset)
  <2>2. /\ i \in 1..MAX_FILES /\ i # job.out /\ disk' = disk
        /\ job' = Opening(job, i) /\ disk[tail_file] \in Records /\ Put(i, z)
    BY <1>4, <2>1 DEF OpensReader, Put, Out
  <2>3. pc' = "copy tail" /\ pc' \in Saving
    BY <2>1 DEF OpensReader, Saving
  <2>4. /\ Windowed /\ tail_file \in FileNames /\ DiskOK(disk)
        /\ Below \in Seq(Plain) /\ Len(Below) \in Nat /\ tail_offset <= Len(Below)
    BY <1>3, <1>8, WindowedFile, BelowOK DEF HandleInv, TypeInv, Within
  <2>5. tail_offset <= Len(Bytes(disk[tail_file]))
    <3>1. Len(Below) <= Len(Bytes(disk[tail_file]))
      BY <2>2, <2>4, ContentsOf DEF Below, DiskOK
    <3>2. Len(Bytes(disk[tail_file])) \in Nat
      BY <2>2, BytesType
    <3> QED BY <1>7, <2>4, <3>1, <3>2
  <2>6. ZFILEOK(y) /\ y.name = tail_file
    BY <2>4, OpenedOK
  <2> HIDE DEF y
  <2>7. ZFILEOK(z) /\ z.offset = tail_offset /\ ReadsWell(z, disk[tail_file])
    BY <1>7, <2>2, <2>4, <2>5, <2>6, SeekType, SeekReads
  <2> HIDE DEF z
  <2>8. zfiles'[i] = z /\ zfiles'[job.out] = Out
    BY <1>4, <2>2, <2>7, OneMore DEF Out
  <2>9. job'.in = i /\ job'.out = job.out
    <3>1. i \in 0..MAX_FILES
      BY <2>2, PoolAssumption
    <3> QED BY <1>4, <2>2, <3>1, OpeningOK
  <2>10. In' = z /\ Out' = Out
    BY <2>8, <2>9 DEF In, Out
  <2>11. \A m \in FileNames : m # OutName => disk'[m] = disk[m]
    BY <2>2
  <2>12. /\ text' \in Seq(Char) /\ WindowInv' /\ SafeInv' /\ ClosedInv'
         /\ Below' = Below /\ UNCHANGED <<text, HeadBytes, tail_file, tail_offset>>
    BY <1>1, <1>2, <2>3, <2>4, <2>11, SavingKeeps
  <2>13. ReadsBelow'
    BY <2>2, <2>4, <2>7, <2>10, <2>12 DEF ReadsBelow
  <2>14. In'.offset >= tail_offset'
    BY <1>7, <2>7, <2>10, <2>12
  <2>15. ReaderInv'
    BY <2>3, <2>13, <2>14 DEF ReaderInv
  <2>16. SubSeq(Below, tail_offset + 1, tail_offset) = << >>
    BY <1>7, <2>4
  <2>17. OutHas((HeadBytes \o Encode(text)) \o SubSeq(Below, tail_offset + 1, In.offset))'
    BY <1>3, <1>6, <2>7, <2>10, <2>12, <2>16 DEF OutHas
  <2>18. WriterInv'
    BY <2>3, <2>17 DEF WriterInv
  <2> QED BY <2>12, <2>15, <2>18 DEF ContentInv
<1>9. CASE (tail_offset > 0 => disk[tail_file] = NoFile) /\ PassesBy("end")
  <2>1. pc' = "end" /\ pc' \in Saving /\ job' = At(job, 0) /\ disk' = disk /\ zfiles' = zfiles
    BY <1>9 DEF PassesBy, Saving
  <2>2. job'.out = job.out
    BY <1>4, <2>1, AtOK
  <2>3. ~ (tail_offset > 0)
    <3>1. ASSUME tail_offset > 0 PROVE FALSE
      <4>1. Windowed /\ disk[tail_file] = NoFile
        BY <1>9, <3>1, WindowedFile
      <4>2. Len(Below) = 0 /\ tail_offset <= Len(Below)
        BY <1>3, <4>1, BelowOK DEF Within
      <4> QED BY <1>7, <3>1, <4>2
    <3> QED BY <3>1
  <2>4. \A m \in FileNames : m # OutName => disk'[m] = disk[m]
    BY <2>1
  <2>5. /\ text' \in Seq(Char) /\ WindowInv' /\ SafeInv' /\ ClosedInv'
        /\ UNCHANGED <<text, HeadBytes, TailBytes>>
    BY <1>1, <1>2, <2>1, <2>4, SavingKeeps
  <2>6. TailBytes = << >>
    BY <2>3 DEF TailBytes
  <2>7. OutHas((HeadBytes \o Encode(text)) \o TailBytes)'
    <3>1. Out' = Out
      BY <2>1, <2>2 DEF Out
    <3> QED BY <1>3, <1>6, <2>5, <2>6, <3>1 DEF OutHas
  <2>8. WriterInv' /\ ReaderInv'
    BY <2>1, <2>7 DEF WriterInv, ReaderInv, Reading
  <2> QED BY <2>5, <2>8 DEF ContentInv
<1> QED BY <1>8, <1>9, OpenTailDoes

(* Copying the tail keeps ContentInv; at its end the new file has all of   *)
(* the document.                                                           *)
LEMMA CopyTailContents == ASSUME HandleInv, ContentInv, CopyTail, Good' PROVE ContentInv'
<1> DEFINE g == Getc(disk, In)
           o == In.offset
           h == HeadBytes \o Encode(text)
<1>1. pc = "copy tail" /\ pc \in Copying /\ pc \in Saving /\ pc \in Reading
  BY DEF CopyTail, Copying, Saving, Reading
<1>2. \/ g.c \notin {EOF, CtrlZ} /\ CopyByte(g, 0)
      \/ g.c \in {EOF, CtrlZ} /\ StopCopying("end")
  BY DEF CopyTail, Ends, In
<1>3. Good
  <2>1. CASE CopyByte(g, 0)
    BY <2>1, CopyByteGood
  <2>2. CASE StopCopying("end")
    BY <2>2 DEF StopCopying, Succeeds, Good, history
  <2> QED BY <1>2, <2>1, <2>2
<1>4. /\ Within /\ ReadsBelow /\ o >= tail_offset /\ text \in Seq(Char)
      /\ OutHas(h \o SubSeq(Below, tail_offset + 1, o))
  BY <1>1, <1>3, SavingParts DEF ReaderInv, WriterInv
<1>5. g = Getc(disk, In)
  OBVIOUS
<1> HIDE DEF g
<1>6. /\ Windowed /\ Below \in Seq(Plain) /\ o \in Nat /\ Len(Below) \in Nat
      /\ o < Len(Below) => g.c # EOF /\ g.c # CtrlZ
      /\ ~ (o < Len(Below)) => g.c \in {EOF, CtrlZ} /\ o = Len(Below)
  BY <1>1, <1>4, <1>5, ReadsOn
<1>7. h \in Seq(Plain) /\ tail_offset \in Nat
  BY <1>4, BytesOK, Encoded, ConcatProperties
<1>8. CASE g.c \notin {EOF, CtrlZ} /\ CopyByte(g, 0)
  <2>1. o < Len(Below) /\ 0 \in Nat
    BY <1>6, <1>8
  <2>2. Copied(0)
    BY <1>1, <1>5, <1>8, <2>1, CopyByteCopies
  <2>3. pc' = "copy tail"
    BY <1>1, <1>8 DEF CopyByte
  <2> DEFINE s == SubSeq(Below, tail_offset + 1, o)
             c == Below[o + 1]
  <2>4. s \in Seq(Plain) /\ c \in Plain /\ SubSeq(Below, tail_offset + 1, o + 1) = Append(s, c)
    <3>1. tail_offset \in Nat /\ o \in Nat /\ tail_offset <= o /\ Below \in Seq(Plain)
      BY <1>4, <1>6, <1>7
    <3> QED BY <2>1, <3>1, NextPart
  <2>5. h' = h
    BY <2>2 DEF Copied
  <2>6. Len(Out'.buf) < Rec /\ Stream(Out') = Append(h \o s, c)
    BY <1>4, <2>2 DEF Copied, OutHas
  <2> HIDE DEF s, c, h
  <2>7. Append(h \o s, c) = h \o Append(s, c)
    <3>1. h \in Seq(Plain) /\ s \in Seq(Plain) /\ c \in Plain
      BY <1>7, <2>4
    <3>2. h \o Append(s, c) = Append(h \o s, c)
      BY <3>1, ConcatAppend
    <3> QED BY <3>2
  <2>8. Below' = Below /\ tail_offset' = tail_offset /\ In'.offset = o + 1
    BY <2>2 DEF Copied
  <2>9. OutHas(h \o SubSeq(Below, tail_offset + 1, In.offset))'
    BY <2>4, <2>5, <2>6, <2>7, <2>8 DEF OutHas
  <2>10. In'.offset >= tail_offset'
    BY <1>4, <1>6, <1>7, <2>8
  <2>11. WriterInv' /\ ReaderInv'
    BY <2>2, <2>3, <2>9, <2>10 DEF WriterInv, ReaderInv, Copied, h
  <2> QED BY <2>2, <2>11 DEF ContentInv, Copied
<1>9. CASE g.c \in {EOF, CtrlZ} /\ StopCopying("end")
  <2>1. o = Len(Below)
    BY <1>6, <1>9
  <2>2. /\ text' \in Seq(Char) /\ WindowInv' /\ SafeInv' /\ ClosedInv' /\ ReaderInv'
        /\ UNCHANGED <<text, HeadBytes, TailBytes, Out>>
    BY <1>1, <1>9, StopCopyingKeeps
  <2>3. TailBytes = SubSeq(Below, tail_offset + 1, o)
    <3>1. tail_offset > 0
      BY <1>1 DEF HandleInv, InOpen
    <3> QED BY <2>1, <3>1 DEF TailBytes, From
  <2>4. OutHas(h \o TailBytes)'
    BY <1>4, <2>2, <2>3 DEF OutHas
  <2>5. WriterInv'
    BY <1>9, <2>4 DEF WriterInv, StopCopying
  <2> QED BY <2>2, <2>5 DEF ContentInv
<1> QED BY <1>2, <1>8, <1>9

(* What the file written holds when it is closed.                          *)
LEMMA ClosedFileHolds ==
    ASSUME HandleInv, Within, text \in Seq(Char), DocIs(TailBytes),
           NEW c, c = (HeadBytes \o Encode(text)) \o TailBytes
    PROVE  Holds(c)
<1> DEFINE e == Encode(text)
           n == win_start + Len(e)
           x == HeadBytes \o e
           y == e \o TailBytes
<1>1. /\ HeadBytes \in Seq(Plain) /\ Len(HeadBytes) = win_start /\ TailBytes \in Seq(Plain)
      /\ e \in Seq(Plain) /\ Len(e) \in Nat /\ win_start \in Nat /\ Decode(e) = text
  BY BytesOK, Encoded
<1> HIDE DEF e
<1>2. x \in Seq(Plain) /\ Len(x) = n /\ y \in Seq(Plain)
  BY <1>1, ConcatProperties
<1>3. c = HeadBytes \o y /\ c = x \o TailBytes
  <2>1. c = (HeadBytes \o e) \o TailBytes
    BY DEF e
  <2>2. HeadBytes \o (e \o TailBytes) = (HeadBytes \o e) \o TailBytes
    BY <1>1, Regroup, SMTT(30) DEF ThreeInARow
  <2> QED BY <2>1, <2>2
<1> HIDE DEF x, y
<1>4. First(c, win_start) = HeadBytes
  BY <1>1, <1>2, <1>3, PartsOfConcat
<1>5. From(c, n) = TailBytes
  <2>1. From(x \o TailBytes, Len(x)) = TailBytes
    BY <1>1, <1>2, PartsOfConcat
  <2> QED BY <1>2, <1>3, <2>1
<1>6. n <= Len(c)
  <2>1. Len(c) = Len(x) + Len(TailBytes) /\ Len(TailBytes) \in Nat
    BY <1>1, <1>2, <1>3, ConcatLength, LenProperties
  <2> QED BY <1>1, <1>2, <2>1
<1>7. Decode(c) = (Decode(HeadBytes) \o text) \o Decode(TailBytes)
  <2>1. Decode(x) = Decode(HeadBytes) \o Decode(e)
    BY <1>1, DecodeConcat DEF x
  <2>2. Decode(x \o TailBytes) = Decode(x) \o Decode(TailBytes)
    BY <1>1, <1>2, DecodeConcat
  <2> QED BY <1>1, <1>3, <2>1, <2>2
<1>8. ASSUME ~Windowed PROVE doc = text
  <2>1. HeadBytes = << >> /\ TailBytes = << >>
    BY <1>8, NotWindowed DEF HeadBytes, TailBytes
  <2>2. doc = (<< >> \o text) \o << >>
    BY <2>1, DecodeEmpty DEF DocIs
  <2> HIDE DEF Char
  <2>3. << >> \o text = text /\ text \o << >> = text
    BY ConcatEmptySeq
  <2> QED BY <2>2, <2>3
<1> QED BY <1>4, <1>5, <1>6, <1>7, <1>8 DEF Holds, DocIs, n, e

(* Its bytes up to its ^Z.                                                 *)
LEMMA ClosedContents ==
    ASSUME NEW d, NEW n \in FileNames, DiskOK(d), d[n] \in Records,
           NEW w \in Seq(Plain), NEW p \in Seq(Byte), Bytes(d[n]) = Append(w, CtrlZ) \o p
    PROVE  Contents(d, n) = w
<1> DEFINE q == <<CtrlZ>> \o p
<1>1. w \in Seq(Byte) /\ CtrlZ \in Byte /\ <<CtrlZ>> \in Seq(Byte)
  BY AsByte, ByteAssumption
<1>2. q \in Seq(Byte) /\ q # << >> /\ q[1] = CtrlZ
  BY <1>1
<1>3. Bytes(d[n]) = w \o q
  <2>1. Append(w, CtrlZ) = w \o <<CtrlZ>>
    BY <1>1, AppendIsConcat
  <2>2. w \o (<<CtrlZ>> \o p) = (w \o <<CtrlZ>>) \o p
    BY <1>1, ConcatAssociative
  <2> QED BY <2>1, <2>2
<1> HIDE DEF q
<1>4. UpToCtrlZ(w \o q) = w
  BY <1>2, UpToEnd
<1>5. d[n] # NoFile
  BY NoFileAssumption
<1> QED BY <1>3, <1>4, <1>5 DEF Contents

(* Closing the new file keeps ContentInv: what it holds is the document.   *)
LEMMA CloseOutContents == ASSUME HandleInv, ContentInv, CloseOut, Good' PROVE ContentInv'
<1>1. /\ pc = "end" /\ pc \in Saving /\ UNCHANGED <<buffer, job, history>>
      /\ pc' = IF job.using_tmp THEN "remove" ELSE "return"
  BY DEF CloseOut, Effect, Saving
<1>2. pc' \in Closed /\ pc' \notin Saving /\ pc' \notin Reading /\ pc \in Saving \cup Closed
  BY <1>1 DEF Saving, Reading, Closed
<1>3. /\ DiskOK(disk') /\ disk'[OutName] \in Records
      /\ \A m \in FileNames : m # OutName => disk'[m] = disk[m]
      /\ ~failed' =>
            /\ ~failed
            /\ \E p \in Seq(Byte) : Bytes(disk'[OutName]) = Append(Stream(Out), CtrlZ) \o p
  BY CloseOutDoes
<1>4. Good /\ ~failed'
  BY <1>1, <1>3 DEF Good, history
<1> DEFINE w == (HeadBytes \o Encode(text)) \o TailBytes
<1>5. /\ text \in Seq(Char) /\ Within /\ DocIs(TailBytes) /\ OutHas(w) /\ SafeInv
  BY <1>1, <1>4, SavingParts DEF WriterInv
<1>6. w \in Seq(Plain)
  <2>1. HeadBytes \in Seq(Plain) /\ Encode(text) \in Seq(Plain) /\ TailBytes \in Seq(Plain)
    BY <1>5, BytesOK, Encoded
  <2> QED BY <2>1, ConcatProperties
<1>7. Holds(w)
  BY <1>5, ClosedFileHolds
<1> HIDE DEF w
<1>8. OutName \in FileNames /\ Stream(Out) = w
  BY <1>2, <1>5, OutNameOK DEF OutHas
<1>9. Contents(disk', OutName) = w
  BY <1>3, <1>4, <1>6, <1>8, ClosedContents
<1>10. UNCHANGED <<text, win_start, tail_offset, tail_file, doc, head, safe>>
  BY <1>1 DEF buffer, history
<1>11. ClosedInv'
  <2>1. PICK n : n = (IF pc' = "return" THEN job'.target ELSE Tmp)
    OBVIOUS
  <2>2. n = OutName
    BY <1>1, <1>2, <2>1, OutNameOK
  <2>3. Holds(Contents(disk, n))'
    BY <1>7, <1>9, <1>10, <2>2 DEF Holds, Windowed
  <2> QED BY <2>1, <2>3 DEF ClosedInv, Holds
<1>12. SafeInv'
  <2>1. Windowed => disk'[tail_file] = disk[tail_file]
    BY <1>2, <1>3, RestLeftAlone
  <2> QED BY <1>1, <1>5, <2>1, SafeInvKept DEF history
<1>13. WindowInv' /\ ReaderInv' /\ WriterInv'
  BY <1>1, <1>2 DEF WindowInv, ReaderInv, WriterInv
<1> QED BY <1>5, <1>10, <1>11, <1>12, <1>13 DEF ContentInv

(* Replacing the old file leaves what the new one holds.                   *)
LEMMA ReplaceContents ==
    ASSUME HandleInv, ContentInv, Good', NEW d, NEW next, Replace(d, next),
           pc \in {"remove", "rename"}, next \in {"rename", "return"},
           d[IF next = "return" THEN job.target ELSE Tmp] = disk[Tmp]
    PROVE  ContentInv'
<1>1. UNCHANGED <<buffer, job, history, failed>> /\ disk' = d /\ pc' = next
  BY DEF Replace
<1>2. UNCHANGED <<text, win_start, tail_offset, tail_file, doc, head, safe, emptied>>
  BY <1>1 DEF buffer, history
<1>3. pc \in Closed /\ pc # "return" /\ pc' \in Closed /\ pc' \notin Saving /\ pc' \notin Reading
  BY <1>1 DEF Closed, Saving, Reading
<1>4. Good /\ text \in Seq(Char) /\ Holds(Contents(disk, Tmp))
  BY <1>1, <1>2, <1>3 DEF Good, ContentInv, ClosedInv
<1>5. PICK n : n = (IF next = "return" THEN job.target ELSE Tmp)
  OBVIOUS
<1>6. Contents(disk', n) = Contents(disk, Tmp)
  BY <1>1, <1>5 DEF Contents
<1>7. Holds(Contents(disk, n))'
  BY <1>2, <1>4, <1>6 DEF Holds, Windowed
<1>8. n = (IF pc' = "return" THEN job'.target ELSE Tmp)
  BY <1>1, <1>5
<1>9. ClosedInv'
  BY <1>7, <1>8 DEF ClosedInv, Holds
<1>10. WindowInv' /\ SafeInv' /\ ReaderInv' /\ WriterInv'
  BY <1>1, <1>3 DEF WindowInv, SafeInv, ReaderInv, WriterInv
<1> QED BY <1>2, <1>4, <1>9, <1>10 DEF ContentInv

(* Removing the old file keeps ContentInv: the new one holds the document. *)
LEMMA RemoveOldContents == ASSUME HandleInv, ContentInv, RemoveOld, Good' PROVE ContentInv'
<1>1. Replace(Removed(disk, job.target), "rename") /\ pc = "remove" /\ pc \in Closed
  BY DEF RemoveOld, Closed
<1>2. job.target \in FileNames /\ job.target # Tmp /\ Tmp \in FileNames /\ DiskOK(disk)
  BY <1>1, OutNameOK, NamesOK DEF HandleInv, TypeInv
<1>3. Removed(disk, job.target)[Tmp] = disk[Tmp]
  BY <1>2, RemovedOK
<1>4. (IF "rename" = "return" THEN job.target ELSE Tmp) = Tmp
  OBVIOUS
<1> QED BY <1>1, <1>3, <1>4, ReplaceContents

(* Renaming the temporary keeps ContentInv: its contents are found under   *)
(* the target's name.                                                      *)
LEMMA RenameTmpContents == ASSUME HandleInv, ContentInv, RenameTmp, Good' PROVE ContentInv'
<1>1. Replace(Renamed(disk, Tmp, job.target), "return") /\ pc = "rename" /\ pc \in Closed
  BY DEF RenameTmp, Closed
<1>2. /\ job.target \in FileNames /\ job.target # Tmp /\ Tmp \in FileNames /\ DiskOK(disk)
      /\ disk[Tmp] \in Records
  BY <1>1, OutNameOK, NamesOK DEF HandleInv, TypeInv, TmpInv
<1>3. Renamed(disk, Tmp, job.target)[job.target] = disk[Tmp]
  BY <1>2, RenamedOK
<1>4. (IF "return" = "return" THEN job.target ELSE Tmp) = job.target
  OBVIOUS
<1> QED BY <1>1, <1>3, <1>4, ReplaceContents

(* Setting the offsets anew keeps ContentInv: the window is a window of    *)
(* the new file.                                                           *)
LEMMA ReturnContents == ASSUME HandleInv, ContentInv, Return, Good' PROVE ContentInv'
<1>1. /\ pc = "return" /\ pc \in Closed /\ pc' = "edit" /\ pc' \notin Closed /\ pc' # "load"
      /\ pc' \notin {"rename", "return"}
  BY DEF Return, Closed
<1>2. /\ UNCHANGED <<disk, text, win_start, doc, head, failed>>
      /\ tail_file' = IF Windowed THEN job.target ELSE tail_file
      /\ tail_offset' = TailAfter /\ safe' = doc
  BY DEF Return
<1>3. Good /\ ~Forgets
  BY DEF Return, Good
<1> DEFINE c == Contents(disk, job.target)
           n == win_start + Len(Encode(text))
<1>4. text \in Seq(Char) /\ Holds(c)
  BY <1>1, <1>3 DEF ContentInv, ClosedInv
<1>5. /\ Decode(c) = doc /\ n <= Len(c) /\ head = Len(Decode(First(c, win_start)))
      /\ doc = (Decode(First(c, win_start)) \o text) \o Decode(From(c, n))
      /\ ~Windowed => doc = text
  BY <1>4 DEF Holds
<1>6. c \in Seq(Plain) /\ Len(c) \in Nat
  <2>1. job.target \in FileNames /\ DiskOK(disk)
    BY <1>1, OutNameOK DEF HandleInv, TypeInv
  <2> QED BY <2>1, ContentsType, LenProperties DEF DiskOK
<1>7. win_start \in Nat /\ tail_offset \in Nat /\ n \in Nat /\ Len(Encode(text)) \in Nat
  <2>1. win_start \in Nat /\ tail_offset \in Nat
    BY DEF HandleInv, TypeInv
  <2>2. Len(Encode(text)) \in Nat
    BY <1>4, Encoded
  <2> QED BY <2>1, <2>2
<1>8. job.target # ""
  <2>1. job.target \in Targets
    BY <1>1 DEF HandleInv, TargetInv
  <2> QED BY <2>1, NamesOK
<1>9. ReaderInv' /\ WriterInv' /\ ClosedInv'
  BY <1>1, EditStays
<1>10. CASE Windowed
  <2>1. /\ tail_offset' = n /\ tail_file' = job.target /\ Below' = c
    BY <1>2, <1>10 DEF TailAfter, Below, Contents
  <2> HIDE DEF c
  <2>2. n > 0
    <3>1. win_start > 0 \/ tail_offset > 0
      BY <1>10, WindowedFile
    <3>2. ~ (tail_offset > 0 /\ n = 0)
      BY <1>2, <1>3, <2>1 DEF Forgets
    <3> QED BY <1>7, <3>1, <3>2
  <2>3. TailBytes' = From(c, n)
    BY <2>1, <2>2 DEF TailBytes
  <2>4. HeadBytes' = First(c, win_start)
    <3>1. First(c, 0) = << >>
      BY <1>6, PartsAtEnds
    <3> QED BY <1>2, <1>7, <2>1, <3>1 DEF HeadBytes
  <2>5. Within'
    <3>1. win_start <= Len(c)
      BY <1>5, <1>6, <1>7
    <3> QED BY <1>2, <1>5, <2>1, <3>1 DEF Within
  <2>6. DocIs(TailBytes)'
    BY <1>2, <1>5, <2>3, <2>4 DEF DocIs
  <2>7. WindowInv'
    BY <1>1, <2>5, <2>6 DEF WindowInv
  <2>8. SafeInv'
    BY <1>2, <1>5, <2>1 DEF SafeInv
  <2> QED BY <1>2, <1>4, <1>9, <2>7, <2>8 DEF ContentInv
<1>11. CASE ~Windowed
  <2>1. win_start = 0 /\ tail_offset = 0
    BY <1>11, NotWindowed
  <2>2. win_start' = 0 /\ tail_offset' = 0
    BY <1>2, <1>11, <2>1 DEF TailAfter
  <2>3. HeadBytes' = << >> /\ TailBytes' = << >> /\ ~Windowed'
    BY <2>2 DEF HeadBytes, TailBytes, Windowed
  <2>4. head' = Len(Decode(<< >>))
    <3>1. First(c, win_start) = << >>
      BY <1>6, <2>1, PartsAtEnds
    <3> QED BY <1>2, <1>5, <3>1
  <2>5. doc' = (Decode(<< >>) \o text') \o Decode(<< >>)
    <3>1. (<< >> \o text) \o << >> = text
      BY <1>4, ConcatEmptySeq
    <3> QED BY <1>2, <1>5, <1>11, <3>1, DecodeEmpty
  <2>6. DocIs(TailBytes)'
    BY <2>3, <2>4, <2>5 DEF DocIs
  <2>7. WindowInv' /\ SafeInv'
    BY <1>1, <2>3, <2>6 DEF WindowInv, Within, SafeInv
  <2> QED BY <1>2, <1>4, <1>9, <2>7 DEF ContentInv
<1> QED BY <1>10, <1>11

(* Beginning to load more keeps ContentInv: what is read is what follows   *)
(* the window.                                                             *)
LEMMA PageInContents == ASSUME HandleInv, ContentInv, PageIn, Good' PROVE ContentInv'
<1>1. /\ pc = "edit" /\ pc' = "load" /\ pc \notin Closed /\ pc' \notin Closed /\ pc' \notin Saving
      /\ pc' \in Reading /\ pc # "load"
      /\ pc \notin {"rename", "return"}
  BY DEF PageIn, Closed, Saving, Reading
<1>2. UNCHANGED <<buffer, history, failed>>
  BY DEF PageIn, Effect
<1>3. /\ Good /\ text \in Seq(Char) /\ Within /\ DocIs(TailBytes) /\ SafeInv
  BY <1>1, <1>2 DEF Good, history, ContentInv, WindowInv
<1>4. tail_offset > 0
  BY PageInDoes
<1>5. PICK i \in 1..MAX_FILES :
        /\ job' = Opening(Idle, i) /\ disk' = disk /\ disk[tail_file] \in Records
        /\ Put(i, Seek(disk, Opened(tail_file, FALSE), tail_offset))
  BY PageInDoes DEF Put
<1> DEFINE y == Opened(tail_file, FALSE)
           z == Seek(disk, y, tail_offset)
<1>6. /\ Windowed /\ tail_file \in FileNames /\ DiskOK(disk) /\ tail_offset \in Nat
      /\ Below \in Seq(Plain) /\ Len(Below) \in Nat /\ tail_offset <= Len(Below)
  BY <1>3, <1>4, WindowedFile, BelowOK DEF HandleInv, TypeInv, Within
<1>7. tail_offset <= Len(Bytes(disk[tail_file]))
  <2>1. Len(Below) <= Len(Bytes(disk[tail_file]))
    BY <1>5, <1>6, ContentsOf DEF Below, DiskOK
  <2>2. Len(Bytes(disk[tail_file])) \in Nat
    BY <1>5, BytesType
  <2> QED BY <1>6, <2>1, <2>2
<1>8. ZFILEOK(y) /\ y.name = tail_file
  BY <1>6, OpenedOK
<1>9. Put(i, z)
  BY <1>5
<1> HIDE DEF y
<1>10. ZFILEOK(z) /\ z.offset = tail_offset /\ ReadsWell(z, disk[tail_file])
  BY <1>5, <1>6, <1>7, <1>8, SeekType, SeekReads
<1> HIDE DEF z
<1>11. In' = z
  <2>1. zfiles'[i] = z
    BY <1>9, <1>10, OneMore
  <2>2. i \in 0..MAX_FILES
    BY PoolAssumption
  <2>3. job'.in = i
    BY <1>5, <2>2, IdleOK, OpeningOK
  <2> QED BY <2>1, <2>3 DEF In
<1>12. UNCHANGED <<text, win_start, tail_offset, tail_file, doc, head, safe>>
  BY <1>2 DEF buffer, history
<1>13. Below' = Below /\ HeadBytes' = HeadBytes /\ (Windowed <=> Windowed')
  BY <1>2, <1>5, <1>6, WindowKept
<1>14. ReadsBelow' /\ In'.offset >= tail_offset'
  <2>1. In'.offset <= Len(Below) /\ In'.offset >= tail_offset
    BY <1>6, <1>10, <1>11
  <2> QED BY <1>5, <1>10, <1>11, <1>12, <1>13, <2>1 DEF ReadsBelow
<1>15. ReaderInv'
  BY <1>1, <1>14 DEF ReaderInv
<1>16. From(Below', In'.offset) = TailBytes
  BY <1>4, <1>10, <1>11, <1>13 DEF TailBytes
<1>17. DocIs(From(Below, In.offset))'
  BY <1>3, <1>12, <1>13, <1>16 DEF DocIs
<1>18. Within'
  BY <1>3, <1>12, <1>13 DEF Within
<1>19. WindowInv'
  BY <1>1, <1>17, <1>18 DEF WindowInv
<1>20. SafeInv'
  BY <1>1, <1>2, <1>3, <1>5, SafeInvKept DEF history
<1>21. WriterInv' /\ ClosedInv'
  BY <1>1 DEF WriterInv, ClosedInv
<1> QED BY <1>3, <1>12, <1>15, <1>19, <1>20, <1>21 DEF ContentInv

(* Taking a byte into the buffer keeps ContentInv: what the text gains,    *)
(* the rest loses.                                                         *)
LEMMA LoadCharContents == ASSUME HandleInv, ContentInv, LoadChar, Good' PROVE ContentInv'
<1>1. PICK g : g = Getc(disk, In)
  OBVIOUS
<1>2. pc = "load" /\ pc \in Reading /\ pc \notin Closed /\ pc \notin {"rename", "return"}
  BY DEF LoadChar, Reading, Closed
<1>3. UNCHANGED <<win_start, tail_file, doc, head, safe, failed, emptied>>
  BY DEF LoadChar, history
<1> DEFINE o == In.offset
           h == Decode(HeadBytes)
<1>4. /\ Good /\ text \in Seq(Char) /\ Within /\ DocIs(From(Below, o)) /\ SafeInv
      /\ ReadsBelow /\ o >= tail_offset
  BY <1>2, <1>3 DEF Good, ContentInv, WindowInv, ReaderInv
<1>5. /\ Windowed /\ Below \in Seq(Plain) /\ o \in Nat /\ Len(Below) \in Nat
      /\ o <= Len(Below)
      /\ o < Len(Below) =>
            /\ g.c = Below[o + 1] /\ g.c \in Plain
            /\ g.z.offset = o + 1
            /\ ReadsWell(g.z, disk[tail_file])
      /\ g.c \notin {EOF, CtrlZ} => o < Len(Below)
      /\ g.c \in {EOF, CtrlZ} => o = Len(Below)
  <2>1. /\ Windowed /\ Below \in Seq(Plain) /\ o \in Nat /\ Len(Below) \in Nat
        /\ o <= Len(Below)
        /\ o < Len(Below) =>
              /\ g.c = Below[o + 1] /\ g.c \in Plain /\ g.c # EOF /\ g.c # CtrlZ
              /\ g.z.offset = o + 1
              /\ ReadsWell(g.z, disk[tail_file])
        /\ ~ (o < Len(Below)) => g.c \in {EOF, CtrlZ} /\ o = Len(Below)
    BY <1>1, <1>2, <1>4, ReadsOn
  <2> QED BY <2>1
<1>6. HeadBytes \in Seq(Plain) /\ h \in Seq(Char) /\ tail_offset \in Nat
  BY <1>4, BytesOK, Decoded
<1>7. doc = (h \o text) \o Decode(From(Below, o)) /\ head = Len(h)
  BY <1>4 DEF DocIs
<1>8. ASSUME disk' = disk PROVE Below' = Below /\ HeadBytes' = HeadBytes
  BY <1>3, <1>8 DEF Below, HeadBytes, Contents
<1>9. CASE LoadsByte(g)
  <2> DEFINE x == Decode(<<g.c>>)
             r == Decode(From(Below, o + 1))
  <2>1. /\ g.c \notin {EOF, CtrlZ} /\ zfiles'[job.in] = g.z
        /\ text' = IF g.c = CR THEN text ELSE Append(text, g.c)
        /\ UNCHANGED <<disk, tail_offset>>
    BY <1>9 DEF LoadsByte
  <2>2. pc' = "load" /\ pc' \in Reading /\ pc' \notin Closed
    BY <1>2, <1>9 DEF LoadsByte
  <2>3. In' = g.z
    <3> DEFINE m == IF g.c = CR THEN job.at ELSE job.at + 1
    <3>1. m \in Nat
      BY AtIsNat
    <3>2. job' = At(job, m)
      BY <1>9 DEF LoadsByte
    <3> HIDE DEF m
    <3>3. job \in JOB
      BY DEF HandleInv, TypeInv
    <3>4. job'.in = job.in
      BY <3>1, <3>2, <3>3, AtOK
    <3> QED BY <2>1, <3>4 DEF In
  <2>4. o < Len(Below) /\ g.c = Below[o + 1] /\ g.c \in Plain /\ In'.offset = o + 1
    BY <1>5, <2>1, <2>3
  <2>5. From(Below, o + 1) \in Seq(Plain) /\ From(Below, o) = <<g.c>> \o From(Below, o + 1)
    <3>1. 0 \in Nat /\ o \in Nat /\ 0 <= o /\ o < Len(Below) /\ Below \in Seq(Plain)
      BY <1>5, <2>4
    <3>2. /\ From(Below, o + 1) \in Seq(Plain)
          /\ From(Below, o) = <<Below[o + 1]>> \o From(Below, o + 1)
      BY <3>1, NextPart
    <3> QED BY <2>4, <3>2
  <2>6. <<g.c>> \in Seq(Plain)
    BY <2>4
  <2>7. Decode(From(Below, o)) = x \o r /\ x \in Seq(Char) /\ r \in Seq(Char)
    BY <2>5, <2>6, DecodeConcat, Decoded
  <2>8. text' = text \o x /\ text' \in Seq(Char)
    <3>1. CASE g.c = CR
      <4>1. x = << >>
        BY <3>1, DecodeOne
      <4> QED BY <1>4, <2>1, <3>1, <4>1, ConcatEmptySeq
    <3>2. CASE g.c # CR
      <4>1. x = <<g.c>> /\ g.c \in Char
        BY <2>4, <3>2, DecodeOne DEF Char
      <4>2. Append(text, g.c) = text \o <<g.c>> /\ Append(text, g.c) \in Seq(Char)
        BY <1>4, <4>1, AppendIsConcat, AppendProperties
      <4> QED BY <2>1, <3>2, <4>1, <4>2
    <3> QED BY <3>1, <3>2
  <2> HIDE DEF x, r, h
  <2>9. (h \o text) \o (x \o r) = (h \o (text \o x)) \o r
    <3>1. FourInARow(h, text, x, r)
      BY <1>4, <1>6, <2>7, RegroupFour
    <3> QED BY <3>1, Zenon DEF FourInARow
  <2>10. doc' = (h \o text') \o r
    BY <1>3, <1>7, <2>7, <2>8, <2>9
  <2>11. DocIs(From(Below, In.offset))'
    BY <1>3, <1>7, <1>8, <2>1, <2>4, <2>10 DEF DocIs, h, r
  <2>12. Within'
    BY <1>3, <1>4, <1>8, <2>1 DEF Within, Windowed
  <2>13. WindowInv'
    BY <2>2, <2>11, <2>12 DEF WindowInv
  <2>14. ReadsBelow'
    <3>1. In'.offset <= Len(Below)
      BY <1>5, <2>4
    <3> QED BY <1>3, <1>5, <1>8, <2>1, <2>3, <2>4, <3>1 DEF ReadsBelow
  <2>15. In'.offset >= tail_offset'
    BY <1>4, <1>5, <1>6, <2>1, <2>4
  <2>16. ReaderInv'
    BY <2>2, <2>14, <2>15 DEF ReaderInv
  <2>17. SafeInv'
    BY <1>2, <1>3, <1>4, <1>5, <1>8, <2>1 DEF SafeInv
  <2>18. WriterInv' /\ ClosedInv'
    BY <2>2 DEF WriterInv, ClosedInv
  <2> QED BY <2>8, <2>13, <2>16, <2>17, <2>18 DEF ContentInv
<1>10. CASE LoadsNoMore(g)
  <2>1. /\ job.at = Chunk \/ g.c \in {EOF, CtrlZ}
        /\ tail_offset' = IF job.at = Chunk THEN o ELSE 0
        /\ UNCHANGED <<disk, text>>
    BY <1>10 DEF LoadsNoMore
  <2>2. pc' = "edit"
    BY <1>10 DEF LoadsNoMore
  <2>3. ReaderInv' /\ WriterInv' /\ ClosedInv' /\ pc' \notin Closed /\ pc' # "load"
    BY <2>2, EditStays
  <2>4. tail_offset > 0
    BY <1>2 DEF HandleInv, InOpen
  <2>5. Decode(TailBytes') = Decode(From(Below, o)) /\ tail_offset' <= Len(Below)
    <3>1. CASE job.at = Chunk
      <4>1. tail_offset' = o /\ o > 0
        BY <1>4, <1>5, <1>6, <2>1, <2>4, <3>1
      <4>2. TailBytes' = From(Below, o)
        BY <1>8, <2>1, <4>1 DEF TailBytes
      <4> QED BY <1>5, <4>1, <4>2
    <3>2. CASE job.at # Chunk
      <4>1. o = Len(Below) /\ tail_offset' = 0
        BY <1>5, <2>1, <3>2
      <4>2. From(Below, o) = << >>
        BY <1>5, <4>1, PartsAtEnds
      <4>3. TailBytes' = << >>
        BY <4>1 DEF TailBytes
      <4> QED BY <1>5, <4>1, <4>2, <4>3
    <3> QED BY <3>1, <3>2
  <2>6. DocIs(TailBytes)'
    BY <1>3, <1>7, <1>8, <2>1, <2>5 DEF DocIs
  <2>7. Within'
    BY <1>3, <1>4, <1>5, <1>8, <2>1, <2>5 DEF Within
  <2>8. WindowInv'
    BY <2>3, <2>6, <2>7 DEF WindowInv
  <2>9. SafeInv'
    BY <1>2, <1>3, <1>4, <1>5, <1>8, <2>1 DEF SafeInv
  <2>10. text' \in Seq(Char)
    BY <1>4, <2>1
  <2> QED BY <2>3, <2>8, <2>9, <2>10 DEF ContentInv
<1> QED BY <1>1, <1>9, <1>10, LoadCharDoes

(* ContentInv holds of a document just opened.                             *)
LEMMA InitContents == ASSUME Init PROVE ContentInv
<1>1. PICK b : \E t \in 1..Len(b) : \E w \in 0..t : \E at_end \in BOOLEAN :
        /\ b = Contents(disk, filename) /\ b \in Seq(Plain)
        /\ at_end => t = Len(b)
        /\ WindowOf(b, w, t, at_end)
  BY InitIs
<1>2. PICK t \in 1..Len(b) : \E w \in 0..t : \E at_end \in BOOLEAN :
        (at_end => t = Len(b)) /\ WindowOf(b, w, t, at_end)
  BY <1>1
<1>3. PICK w \in 0..t : \E at_end \in BOOLEAN :
        (at_end => t = Len(b)) /\ WindowOf(b, w, t, at_end)
  BY <1>2
<1>4. PICK at_end \in BOOLEAN : (at_end => t = Len(b)) /\ WindowOf(b, w, t, at_end)
  BY <1>3
<1>5. /\ b \in Seq(Plain) /\ b = Contents(disk, filename) /\ Len(b) \in Nat
      /\ t \in 0..Len(b) /\ t > 0 /\ w \in 0..Len(b) /\ w \in Nat /\ t \in Nat
  BY <1>1, LenProperties
<1> DEFINE m == SubSeq(b, w + 1, t)
<1>6. /\ text = Decode(m) /\ win_start = w /\ tail_offset = (IF at_end THEN 0 ELSE t)
      /\ doc = Decode(b) /\ head = Len(Decode(First(b, w)))
  BY <1>4 DEF WindowOf
<1>7. /\ tail_file = IF win_start > 0 \/ tail_offset > 0 THEN filename ELSE ""
      /\ pc = "edit" /\ safe = doc
  BY DEF Init
<1>8. /\ First(b, w) \in Seq(Plain) /\ From(b, t) \in Seq(Plain) /\ m \in Seq(Plain)
      /\ b = First(b, w) \o (m \o From(b, t))
  <2>1. b \in Seq(Plain) /\ w \in 0..Len(b)
    BY <1>5
  <2>2. First(b, w) \in Seq(Plain) /\ First(b, w) \o From(b, w) = b
    BY <2>1, Parts
  <2>3. From(b, t) \in Seq(Plain)
    BY <1>5, Parts
  <2>4. m \in Seq(Plain) /\ From(b, w) = m \o From(b, t)
    BY <1>5, Middle
  <2> QED BY <2>2, <2>3, <2>4
<1> HIDE DEF m
<1>9. doc = (Decode(First(b, w)) \o text) \o Decode(From(b, t)) /\ text \in Seq(Char)
  <2> DEFINE f == First(b, w)
             r == From(b, t)
             y == m \o r
  <2>1. f \in Seq(Plain) /\ r \in Seq(Plain) /\ y \in Seq(Plain) /\ b = f \o y
    BY <1>8, ConcatProperties
  <2> HIDE DEF f, y, r
  <2>2. Decode(b) = Decode(f) \o Decode(y)
    BY <2>1, DecodeConcat
  <2>3. Decode(y) = Decode(m) \o Decode(r)
    BY <1>8, <2>1, DecodeConcat DEF y
  <2>4. Decode(f) \in Seq(Char) /\ Decode(m) \in Seq(Char) /\ Decode(r) \in Seq(Char)
    BY <1>8, <2>1, Decoded
  <2>5. Decode(f) \o (Decode(m) \o Decode(r)) = (Decode(f) \o Decode(m)) \o Decode(r)
    BY <2>4, Regroup, SMTT(30) DEF ThreeInARow
  <2> QED BY <1>6, <2>2, <2>3, <2>4, <2>5 DEF f, r
<1>10. Windowed => Below = b
  BY <1>5, <1>7 DEF Windowed, Below
<1>11. Windowed <=> win_start > 0 \/ tail_offset > 0
  BY InitHandles, WindowedFile
<1>12. HeadBytes = First(b, w)
  <2>1. First(b, 0) = << >>
    BY <1>5, PartsAtEnds
  <2> QED BY <1>5, <1>6, <1>10, <1>11, <2>1 DEF HeadBytes
<1>13. TailBytes = From(b, t)
  <2>1. CASE at_end
    <3>1. From(b, t) = << >>
      BY <1>4, <1>5, <2>1, PartsAtEnds
    <3> QED BY <1>6, <2>1, <3>1 DEF TailBytes
  <2>2. CASE ~at_end
    BY <1>5, <1>6, <1>10, <1>11, <2>2 DEF TailBytes
  <2> QED BY <2>1, <2>2
<1>14. DocIs(TailBytes)
  BY <1>6, <1>9, <1>12, <1>13 DEF DocIs
<1>15. Within
  <2>1. w <= Len(b) /\ t <= Len(b) /\ 0 <= Len(b)
    BY <1>5
  <2> QED BY <1>6, <1>10, <2>1 DEF Within
<1>16. /\ pc # "load" /\ pc \notin Closed /\ pc \notin Reading
       /\ ReaderInv /\ WriterInv /\ ClosedInv
  BY <1>7 DEF Closed, Reading, ReaderInv, WriterInv, ClosedInv
<1>17. WindowInv
  BY <1>14, <1>15, <1>16 DEF WindowInv
<1>18. SafeInv
  BY <1>6, <1>7, <1>10 DEF SafeInv
<1> QED BY <1>9, <1>16, <1>17, <1>18 DEF ContentInv

(* A stutter keeps ContentInv.                                             *)
LEMMA StutterContents == ASSUME ContentInv, UNCHANGED vars PROVE ContentInv'
<1>1. UNCHANGED <<disk, zfiles, text, win_start, tail_offset, tail_file, filename, modified,
                  pc, job, doc, head, safe, failed, emptied>>
  BY DEF vars, buffer, history
<1>2. UNCHANGED <<Good, Below, HeadBytes, TailBytes, In, Out>> /\ (Windowed <=> Windowed')
  BY <1>1 DEF Good, Below, HeadBytes, TailBytes, In, Out, Windowed, Contents
<1>3. CASE Good
  <2>1. text \in Seq(Char) /\ WindowInv /\ ReaderInv /\ WriterInv /\ ClosedInv /\ SafeInv
    BY <1>3 DEF ContentInv
  <2>2. WindowInv' /\ SafeInv'
    BY <1>1, <1>2, <2>1 DEF WindowInv, SafeInv, Within, DocIs
  <2>3. ReaderInv' /\ WriterInv'
    BY <1>1, <1>2, <2>1 DEF ReaderInv, WriterInv, ReadsBelow, OutHas
  <2>4. ClosedInv'
    BY <1>1, <1>2, <2>1 DEF ClosedInv, Holds, Contents
  <2> QED BY <1>1, <2>1, <2>2, <2>3, <2>4 DEF ContentInv
<1>4. CASE ~Good
  BY <1>2, <1>4 DEF ContentInv
<1> QED BY <1>3, <1>4

(* Every step keeps ContentInv, as long as no ^Z is typed.                 *)
LEMMA StepContents ==
    ASSUME CtrlZ \notin Typed, HandleInv, ContentInv, [Next]_vars
    PROVE  ContentInv'
<1>1. CASE ~Good'
  BY <1>1 DEF ContentInv
<1>2. CASE Good'
  <2>1. CASE Insert \/ Delete
    BY <1>2, <2>1, EditContents
  <2>2. CASE PageIn
    BY <1>2, <2>2, PageInContents
  <2>3. CASE \E n \in UserNames \cup {Swap}, refused \in BOOLEAN : Save(n, refused)
    BY <1>2, <2>3, SaveContents DEF Targets
  <2>4. CASE Program
    BY <1>2, <2>4, OpenHeadContents, CopyHeadContents, WriteBufferContents, OpenTailContents,
       CopyTailContents, CloseOutContents, RemoveOldContents, RenameTmpContents, ReturnContents,
       LoadCharContents DEF Program
  <2>5. CASE UNCHANGED vars
    BY <2>5, StutterContents
  <2> QED BY <2>1, <2>2, <2>3, <2>4, <2>5 DEF Next
<1> QED BY <1>1, <1>2

(* As long as no ^Z is typed, what is in memory and what has been written  *)
(* and read agree at every step of a save and of a page-in, until the disk *)
(* is full or a save forgets the rest.                                     *)
THEOREM ContentsKept == CtrlZ \notin Typed /\ Spec => [](HandleInv /\ ContentInv)
<1> SUFFICES ASSUME CtrlZ \notin Typed PROVE Spec => [](HandleInv /\ ContentInv)
  OBVIOUS
<1>1. Init => HandleInv /\ ContentInv
  BY InitHandles, InitContents
<1>2. (HandleInv /\ ContentInv) /\ [Next]_vars => (HandleInv /\ ContentInv)'
  BY StepHandles, StepContents
<1> QED BY <1>1, <1>2, PTL DEF Spec

(* ContentInv implies that the document is intact.                         *)
LEMMA IntactOK == ASSUME HandleInv, ContentInv PROVE DocumentIntact
<1> SUFFICES ASSUME pc = "edit", ~failed, ~emptied
             PROVE  doc = (IF win_start > 0 THEN Decode(First(Below, win_start)) ELSE << >>)
                          \o text
                          \o (IF tail_offset > 0 THEN Decode(From(Below, tail_offset)) ELSE << >>)
  BY DEF DocumentIntact, Below
<1>1. DocIs(TailBytes)
  BY DEF ContentInv, Good, WindowInv, Closed
<1>2. /\ Decode(HeadBytes) = IF win_start > 0 THEN Decode(First(Below, win_start)) ELSE << >>
      /\ Decode(TailBytes) = IF tail_offset > 0 THEN Decode(From(Below, tail_offset)) ELSE << >>
  BY DecodeEmpty DEF HeadBytes, TailBytes
<1> QED BY <1>1, <1>2 DEF DocIs

(* ContentInv implies that a save that returns has saved all of it.        *)
LEMMA SavedOK == ASSUME HandleInv, ContentInv PROVE SavedInFull
<1> SUFFICES ASSUME ~emptied, pc = "return", ~failed
             PROVE  Decode(Contents(disk, job.target)) = doc
  BY DEF SavedInFull, SavesStayCorrect
<1>1. Holds(Contents(disk, job.target))
  BY DEF ContentInv, Good, ClosedInv, Closed
<1> QED BY <1>1 DEF Holds

(* ContentInv implies that a crash loses no more than what was not saved.  *)
LEMMA SafeOK == ASSUME HandleInv, ContentInv PROVE SurvivesCrash
<1> SUFFICES ASSUME Windowed, ~failed, ~emptied
             PROVE  \E n \in FileNames : Decode(Contents(disk, n)) \in {safe, doc}
  BY DEF SurvivesCrash
<1>1. SafeInv /\ ClosedInv
  BY DEF ContentInv, Good
<1>2. CASE pc \in {"rename", "return"}
  <2>1. pc \in Closed
    BY <1>2 DEF Closed
  <2>2. PICK n : n = (IF pc = "return" THEN job.target ELSE Tmp)
    OBVIOUS
  <2>3. n \in FileNames
    BY <2>1, <2>2, OutNameOK, NamesOK
  <2>4. Decode(Contents(disk, n)) = doc
    BY <1>1, <2>1, <2>2 DEF ClosedInv, Holds
  <2> QED BY <2>3, <2>4
<1>3. CASE pc \notin {"rename", "return"}
  <2>1. Decode(Contents(disk, tail_file)) = safe /\ tail_file \in FileNames
    BY <1>1, <1>3, WindowedFile DEF SafeInv, Below
  <2> QED BY <2>1
<1> QED BY <1>2, <1>3

(* Between two saves, the part of the document below the window, the text  *)
(* in memory and the part beyond it are the document: what gb_save and     *)
(* gb_load_more keep, whatever is saved where.                             *)
THEOREM DocumentIntactAlways == CtrlZ \notin Typed /\ Spec => []DocumentIntact
BY ContentsKept, IntactOK, PTL

(* When gb_save returns, the document is in the file it was saved to.      *)
THEOREM SavedInFullAlways == CtrlZ \notin Typed /\ Spec => []SavedInFull
BY ContentsKept, SavedOK, PTL

(* Wherever the machine stops, some file holds the document as last saved  *)
(* or as being saved, when it is larger than the buffer.                   *)
THEOREM SurvivesCrashAlways == CtrlZ \notin Typed /\ Spec => []SurvivesCrash
BY ContentsKept, SafeOK, PTL
=============================================================================
