--------------------------- MODULE MCSaveProtocol ---------------------------
(***************************************************************************)
(* Records of two bytes, so that every file has a few; BIG.DAT is there to *)
(* fill the disk.                                                          *)
(***************************************************************************)
EXTENDS SaveProtocol

Cr == "\r"
Lf == "\n"
Z  == "^Z"

MCByte  == {"a", "b", "c", "x", "z", Cr, Lf, Z}
MCNames == {"FOO.TXT", "BAR.TXT", "ZVISWAP.TMP", "ZVITMP.TMP", "BIG.DAT"}

\* b in records, the last one padded.
Laid(b) == [k \in 1..((Len(b) + Rec - 1) \div Rec) |->
              [j \in 1..Rec |-> IF (k - 1) * Rec + j <= Len(b) THEN b[(k - 1) * Rec + j] ELSE Z]]

\* Files that end with a record, in a record, and with a ^Z of their own.
Originals == {<<"a", Cr, Lf, "b">>, <<"a", "b", "c", Cr, Lf>>, <<"a", Cr, Lf, "b", Z, Z>>}
Leftover  == <<"z">>

\* The disk has room for what is saved, or has not; temporaries are left over
\* from a crash, or are not.
MCDisks ==
    {[n \in MCNames |-> CASE n = "FOO.TXT" -> Laid(b)
                          [] n = "BIG.DAT" -> Laid([i \in 1..(IF full THEN 9 * Rec ELSE Rec) |-> "z"])
                          [] n = "BAR.TXT" -> NoFile
                          [] OTHER -> IF full THEN NoFile ELSE Laid(Leftover)] :
        b \in Originals, full \in BOOLEAN}
=============================================================================
