----------------------------- MODULE MCMemMove ------------------------------
(* Every copy inside a memory of a few bytes.                              *)
EXTENDS MemMove

CONSTANTS b0, b1
=============================================================================
