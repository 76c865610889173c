------------------------------ MODULE MemMove -------------------------------
(***************************************************************************)
(* gb_memmove of gap.c, one byte per step.  The editor brings its own copy *)
(* loop because its C library has none; moving the gap depends on it being *)
(* right when source and destination overlap.  mem0, dst0, src0 and len0   *)
(* remember the call.                                                      *)
(***************************************************************************)
EXTENDS Integers

CONSTANTS MemSize,      \* bytes of memory the copy may touch
          Byte          \* byte values

ASSUME MemAssumption == MemSize \in Nat \ {0}

VARIABLES mem, dst, src, len, pc, mem0, dst0, src0, len0

call == <<mem0, dst0, src0, len0>>
copyVars == <<mem, dst, src, len, pc, call>>

Addr == 0..(MemSize - 1)

CopyInit ==
    /\ mem0 \in [Addr -> Byte]
    /\ len0 \in 0..MemSize
    /\ dst0 \in 0..(MemSize - len0)
    /\ src0 \in 0..(MemSize - len0)
    /\ mem = mem0 /\ dst = dst0 /\ src = src0 /\ len = len0
    /\ pc = "start"

\* A slip: copying upwards whatever the overlap.
StartUpwards ==
    /\ pc = "start"
    /\ pc' = IF dst # src THEN "up" ELSE "done"
    /\ UNCHANGED <<mem, dst, src, len, call>>

\* Which way to copy; backwards starts at the far ends.
Start ==
    /\ pc = "start"
    /\ pc' = IF dst < src THEN "up" ELSE IF dst > src THEN "down" ELSE "done"
    /\ dst' = IF dst > src THEN dst + len ELSE dst
    /\ src' = IF dst > src THEN src + len ELSE src
    /\ UNCHANGED <<mem, len, call>>

\* *dst++ = *src++
CopyUp ==
    /\ pc = "up" /\ len > 0
    /\ mem' = [mem EXCEPT ![dst] = mem[src]]
    /\ dst' = dst + 1
    /\ src' = src + 1
    /\ len' = len - 1
    /\ UNCHANGED <<pc, call>>

\* *--dst = *--src
CopyDown ==
    /\ pc = "down" /\ len > 0
    /\ mem' = [mem EXCEPT ![dst - 1] = mem[src - 1]]
    /\ dst' = dst - 1
    /\ src' = src - 1
    /\ len' = len - 1
    /\ UNCHANGED <<pc, call>>

\* A slip: the loop tests for a length it never reaches.
FinishLate ==
    /\ pc \in {"up", "down"} /\ len < 0
    /\ pc' = "done"
    /\ UNCHANGED <<mem, dst, src, len, call>>

Finish ==
    /\ pc \in {"up", "down"} /\ len = 0
    /\ pc' = "done"
    /\ UNCHANGED <<mem, dst, src, len, call>>

CopyNext == Start \/ CopyUp \/ CopyDown \/ Finish

CopySpec == CopyInit /\ [][CopyNext]_copyVars

\* One thread, no blocking: the loop takes its steps.
FairCopySpec == CopySpec /\ WF_copyVars(CopyNext)
-----------------------------------------------------------------------------
CopyTypeOK ==
    /\ mem \in [Addr -> Byte] /\ mem0 \in [Addr -> Byte]
    /\ len0 \in 0..MemSize
    /\ dst0 \in 0..(MemSize - len0) /\ src0 \in 0..(MemSize - len0)
    /\ len \in 0..len0
    /\ dst \in 0..MemSize /\ src \in 0..MemSize
    /\ pc \in {"start", "up", "down", "done"}

\* Memory once the bytes at src0 + i, for the i in Done, have been copied.
CopiedUpTo(Done) ==
    \A k \in Addr : mem[k] = IF k - dst0 \in Done THEN mem0[src0 + (k - dst0)] ELSE mem0[k]

(* When gb_memmove returns, the destination holds what the source held when *)
(* it was called, however the two overlap, and no other byte has changed.   *)
Moved == pc = "done" => CopiedUpTo(0..(len0 - 1))

(* The copy loop never reads a byte it has already overwritten: the source  *)
(* byte of the next step is still the one of the call.                      *)
SourceIntact ==
    /\ (pc = "up" /\ len > 0)   => mem[src] = mem0[src]
    /\ (pc = "down" /\ len > 0) => mem[src - 1] = mem0[src - 1]

(* Each loop state in terms of the call: what is copied and where it stands.*)
LoopInv ==
    /\ CopyTypeOK
    /\ pc = "start" => len = len0 /\ dst = dst0 /\ src = src0 /\ CopiedUpTo({})
    /\ pc = "up"    => /\ dst0 < src0
                       /\ dst = dst0 + (len0 - len) /\ src = src0 + (len0 - len)
                       /\ CopiedUpTo(0..(len0 - len - 1))
    /\ pc = "down"  => /\ dst0 > src0
                       /\ dst = dst0 + len /\ src = src0 + len
                       /\ CopiedUpTo(len..(len0 - 1))
    /\ pc = "done"  => CopiedUpTo(0..(len0 - 1))

(* The call returns (the loops count len down to zero).                     *)
Returns == <>(pc = "done")
=============================================================================
