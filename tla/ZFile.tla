------------------------------- MODULE ZFile --------------------------------
(***************************************************************************)
(* Byte-wise file access over CP/M's records (zio.c, zio.h).               *)
(*                                                                         *)
(* A file on the disk d is a sequence of records of Rec bytes, NoFile if   *)
(* there is none; what follows a ^Z is padding.  A ZFILE holds one record  *)
(* and the file control block, whose cr is the next record that reading on *)
(* will fetch.  Of a file being written, recs are the records written so   *)
(* far: BDOS puts them into the directory when the file is closed or when  *)
(* an extent is full, and only then does d show them.                      *)
(***************************************************************************)
EXTENDS Integers, Sequences, FiniteSets, FiniteSetsExt

CONSTANTS Byte,         \* what a byte can be
          Rec,          \* bytes in a record (128)
          Extent,       \* records a directory entry has room for (128)
          DiskSize,     \* records the disk has room for
          MAX_FILES,    \* ZFILEs in the pool
          FileNames,    \* names in the directory
          NoFile,       \* contents of a file that does not exist
          CtrlZ, EOF    \* the byte 0x1A; what z_fgetc returns at the end

ASSUME RecordAssumption == Rec \in Nat \ {0} /\ Extent \in Nat \ {0} /\ DiskSize \in Nat
ASSUME ByteAssumption == CtrlZ \in Byte /\ EOF \notin Byte
ASSUME PoolAssumption == MAX_FILES \in Nat \ {0}

Records == Seq([1..Rec -> Byte])
ASSUME NoFileAssumption == NoFile \notin Records

\* The bytes of a file, and those before its ^Z.
Bytes(recs) == [i \in 1..(Len(recs) * Rec) |-> recs[((i - 1) \div Rec) + 1][((i - 1) % Rec) + 1]]
UpToCtrlZ(b) ==
    SubSeq(b, 1, Min({Len(b)} \cup {i - 1 : i \in {j \in DOMAIN b : b[j] = CtrlZ}}))
Contents(d, n) == IF d[n] = NoFile THEN << >> ELSE UpToCtrlZ(Bytes(d[n]))

Unused == [used |-> FALSE, name |-> "", is_write |-> FALSE, recs |-> << >>, cr |-> 0,
           buf |-> << >>, buf_pos |-> 0, offset |-> 0]
-----------------------------------------------------------------------------
(* BDOS.                                                                   *)

\* Records in use: of a file being written those written count.
WrittenTo(zs, n) == {i \in DOMAIN zs : zs[i].used /\ zs[i].is_write /\ zs[i].name = n}
Occupied(zs, d) ==
    MapThenSumSet(LAMBDA n : IF WrittenTo(zs, n) # {} THEN Len(zs[Min(WrittenTo(zs, n))].recs)
                             ELSE IF d[n] = NoFile THEN 0 ELSE Len(d[n]), FileNames)
DiskFull(zs, d) == Occupied(zs, d) >= DiskSize

\* Write Sequential (21) of a whole record: the handle and the directory.
WriteSequential(zs, d, i, record) ==
    LET recs == Append(zs[i].recs, record)
    IN  IF DiskFull(zs, d) THEN [zs |-> zs, disk |-> d, ok |-> FALSE]
        ELSE [zs   |-> [zs EXCEPT ![i].recs = recs],
              disk |-> IF Len(recs) % Extent = 0 THEN [d EXCEPT ![zs[i].name] = recs] ELSE d,
              ok   |-> TRUE]

HasRecord(d, z, k) == d[z.name] # NoFile /\ k < Len(d[z.name])
-----------------------------------------------------------------------------
(* zio.c.                                                                  *)

\* z_fopen: a free ZFILE is taken, for writing after the file is deleted
\* and made anew (which a full directory may refuse).  0 is failure.
Free(zs) == {i \in DOMAIN zs : ~zs[i].used}
FailedOpen(zs, d) == [zs |-> zs, disk |-> d, file |-> 0]

OpenRead(zs, d, n) ==
    IF Free(zs) = {} \/ d[n] = NoFile THEN FailedOpen(zs, d)
    ELSE LET i == Min(Free(zs))
         IN  [zs |-> [zs EXCEPT ![i] = [Unused EXCEPT !.used = TRUE, !.name = n]],
              disk |-> d, file |-> i]

OpenWrite(zs, d, n, refused) ==
    IF Free(zs) = {} THEN FailedOpen(zs, d)
    ELSE IF refused THEN FailedOpen(zs, [d EXCEPT ![n] = NoFile])
    ELSE LET i == Min(Free(zs))
         IN  [zs |-> [zs EXCEPT ![i] = [Unused EXCEPT !.used = TRUE, !.name = n,
                                                      !.is_write = TRUE]],
              disk |-> [d EXCEPT ![n] = << >>], file |-> i]

\* z_fgetc: the ZFILE after it, and the byte or EOF.
Getc(d, z) ==
    IF z.buf_pos < Len(z.buf)
    THEN [z |-> [z EXCEPT !.buf_pos = @ + 1, !.offset = @ + 1], c |-> z.buf[z.buf_pos + 1]]
    ELSE IF HasRecord(d, z, z.cr)
    THEN LET r == d[z.name][z.cr + 1]
         IN  [z |-> [z EXCEPT !.buf = r, !.buf_pos = 1, !.cr = @ + 1, !.offset = @ + 1],
              c |-> r[1]]
    ELSE [z |-> z, c |-> EOF]

\* z_fputc.  When a record cannot be written the byte index runs on and is
\* overwritten by later bytes (zio.h:22-25); the disk stays full, so no later attempt
\* writes a record either, and the buffer is not looked at again.
Putc(zs, d, i, c) ==
    LET buf == Append(zs[i].buf, c)
        put == [zs EXCEPT ![i].buf = buf, ![i].offset = @ + 1]
        w   == WriteSequential(put, d, i, buf)
    IN  IF Len(zs[i].buf) >= Rec THEN [zs |-> zs, disk |-> d, ok |-> FALSE]
        ELSE IF Len(buf) < Rec THEN [zs |-> put, disk |-> d, ok |-> TRUE]
        ELSE IF ~w.ok THEN w
        ELSE [w EXCEPT !.zs[i].buf = << >>]

\* z_fseek: Read Random, and Read Sequential to step over the record read.
\* A slip: without the second read.
SeekStaying(d, z, off) ==
    LET k == off \div Rec
    IN  IF HasRecord(d, z, k)
        THEN [z EXCEPT !.buf = d[z.name][k + 1], !.buf_pos = off % Rec, !.cr = k,
                       !.offset = off]
        ELSE [z EXCEPT !.buf = << >>, !.buf_pos = 0, !.cr = k, !.offset = k * Rec]
Seek(d, z, off) ==
    LET k == off \div Rec
    IN  IF HasRecord(d, z, k)
        THEN [z EXCEPT !.buf = d[z.name][k + 1], !.buf_pos = off % Rec, !.cr = k + 1,
                       !.offset = off]
        ELSE [z EXCEPT !.buf = << >>, !.buf_pos = 0, !.cr = k, !.offset = k * Rec]

\* z_fclose: the last record is padded and written, the directory updated.  It
\* returns no more than 0: ok is for a history, of the disk being full.
Padded(b) == b \o [j \in 1..(Rec - Len(b)) |-> CtrlZ]
Close(zs, d, i) ==
    LET z == zs[i]
        w == IF z.is_write /\ z.buf # << >> THEN WriteSequential(zs, d, i, Padded(z.buf))
             ELSE [zs |-> zs, disk |-> d, ok |-> TRUE]
    IN  [zs   |-> [w.zs EXCEPT ![i] = Unused],
         disk |-> IF z.is_write THEN [w.disk EXCEPT ![z.name] = w.zs[i].recs] ELSE w.disk,
         ok   |-> w.ok]

\* z_remove, z_rename
Removed(d, n) == [d EXCEPT ![n] = NoFile]
\* BDOS's Rename does nothing when there is no such file.
Renamed(d, n, m) == IF d[n] = NoFile THEN d ELSE [d EXCEPT ![m] = d[n], ![n] = NoFile]

=============================================================================
