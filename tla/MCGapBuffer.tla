---------------------------- MODULE MCGapBuffer -----------------------------
(* A small gap buffer for TLC.  The longest string inserted fills it, so   *)
(* insertions are cut short and gap moves overlap.                         *)
EXTENDS GapBuffer

CONSTANTS a, nl

MCChar  == {a, nl}
MCTexts == {<<a>>, <<a, nl>>, <<nl, a>>, <<nl, a, nl>>}
=============================================================================
