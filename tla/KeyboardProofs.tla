-------------------------- MODULE KeyboardProofs ----------------------------
(***************************************************************************)
(* The arrays of the key reader are never overrun and its counts stay      *)
(* within 16 bits, whatever is typed and whatever the terminal answers,    *)
(* for every size of the arrays and every user; keys are read in the order *)
(* they were pressed in unless their bytes come too late or too soon; and  *)
(* so is the size that the terminal tells.                                 *)
(***************************************************************************)
EXTENDS Keyboard, FiniteSetTheorems, SequenceTheorems, TLAPS

Sequence(q) == \E S : q \in Seq(S)
Count16 == (-MAXINT - 1)..MAXINT

Fields == {"mode", "g_op", "g_count", "g_hcnt", "g_g", "g_g_count", "waits", "prompt", "line", "pat"}

\* What every key keeps of the state of edit.c.  The pattern's last place is
\* never written to, which is why it ends.
KbOK(s) ==
    /\ DOMAIN s = Fields
    /\ s.g_count \in Count16 /\ s.g_g_count \in Count16
    /\ s.g_op \in Operators \cup {None} /\ s.mode \in {"normal", "insert"}
    /\ Sequence(s.line) /\ Len(s.line) <= LineMax
    /\ Sequence(s.pat) /\ Len(s.pat) = LineMax + 1 /\ s.pat[LineMax + 1] = Nul

\* And what every step keeps: the loops still have something to count down,
\* and the answer's buffer room for one byte more.
ListensOK ==
    /\ pc \in {"ask", "reply", "key", "esc", "bracket"}
    /\ polls \in 0..Polls
    /\ pc \in {"ask", "esc", "bracket"} => polls > 0
    /\ DOMAIN reply = {"total", "state", "buf"}
    /\ reply.total \in 0..ReplyMax /\ Sequence(reply.buf) /\ Len(reply.buf) <= BufMax
    /\ pc \in {"ask", "reply"} => reply.total < ReplyMax /\ Len(reply.buf) < BufMax

IInv == KbOK(kb) /\ ListensOK

(* What every step keeps has what TypeOK says.                             *)
LEMMA ImpliesType == IInv => TypeOK
<1> SUFFICES ASSUME IInv PROVE TypeOK
  OBVIOUS
<1>1. LineMax + 1 \in DOMAIN kb.pat
  BY KeyboardAssumption DEF IInv, KbOK, Sequence
<1>2. Nul \in {kb.pat[i] : i \in DOMAIN kb.pat}
  BY <1>1 DEF IInv, KbOK
<1> QED BY <1>2 DEF IInv, KbOK, ListensOK, TypeOK, Count16

(* What 16 bits make of a number are 16 bits.                              *)
LEMMA WrapType == ASSUME NEW n \in Int PROVE Wrap(n) \in Count16
<1> DEFINE m == 2 * (MAXINT + 1)
           r == (n + MAXINT + 1) % m
<1>1. m \in Nat /\ m > 0 /\ n + MAXINT + 1 \in Int
  BY KeyboardAssumption
<1>2. r \in 0..(m - 1)
  <2> HIDE DEF m
  <2> QED BY <1>1
<1> HIDE DEF r
<1>3. r - (MAXINT + 1) \in Count16
  BY <1>2, KeyboardAssumption DEF Count16
<1> QED BY <1>3 DEF Wrap, r

(* A count is taken, and is one of 16 bits.                                *)
LEMMA CountType == ASSUME NEW s, KbOK(s) PROVE CountOf(s) \in Count16 /\ KbOK(GetCount(s))
<1>1. 0 \in Count16 /\ 1 \in Count16
  BY KeyboardAssumption DEF Count16
<1>2. CountOf(s) \in Count16
  BY <1>1 DEF CountOf, KbOK
<1> QED BY <1>1, <1>2 DEF GetCount, KbOK, Fields
-----------------------------------------------------------------------------
(* Sequences, whatever they are of.                                        *)
LEMMA AppendType ==
    ASSUME NEW q, Sequence(q), NEW c
    PROVE  Sequence(Append(q, c)) /\ Len(Append(q, c)) = Len(q) + 1 /\ Len(q) \in Nat
<1>1. PICK S : q \in Seq(S)
  BY DEF Sequence
<1>2. q \in Seq(S \cup {c})
  BY <1>1
<1>3. Append(q, c) \in Seq(S \cup {c}) /\ Len(Append(q, c)) = Len(q) + 1
  BY <1>2
<1> QED BY <1>1, <1>3 DEF Sequence

(* And with its last member left out.                                      *)
LEMMA FrontType ==
    ASSUME NEW q, Sequence(q), q # << >>
    PROVE  Sequence(Front(q)) /\ Len(Front(q)) = Len(q) - 1 /\ Len(q) \in Nat
<1>1. PICK S : q \in Seq(S)
  BY DEF Sequence
<1>2. PICK m \in Nat : Len(q) = m + 1
  <2>1. Len(q) \in Nat /\ Len(q) > 0
    BY <1>1
  <2>2. Len(q) - 1 \in Nat /\ Len(q) = (Len(q) - 1) + 1
    BY <2>1
  <2> QED BY <2>2
<1>3. \A j \in 1..m : q[j] \in S
  BY <1>1, <1>2
<1>4. SubSeq(q, 1, m) \in Seq(S) /\ Len(SubSeq(q, 1, m)) = IF 1 <= m THEN m - 1 + 1 ELSE 0
  BY <1>3, SubSeqProperties
<1>5. Front(q) = SubSeq(q, 1, m)
  BY <1>2 DEF Front
<1> QED BY <1>2, <1>4, <1>5 DEF Sequence

\* The sequence q with x put into it.
Put(q, i, x) == [q EXCEPT ![i] = x]

(* One member is another, not the last one.                                *)
LEMMA PutType ==
    ASSUME NEW q, Sequence(q), NEW m \in Nat, Len(q) = m, NEW i \in 1..m, NEW x,
           i < m \/ x = q[m]
    PROVE  Sequence(Put(q, i, x)) /\ Len(Put(q, i, x)) = m /\ Put(q, i, x)[m] = q[m]
<1> SUFFICES ASSUME NEW r, r = Put(q, i, x)
             PROVE  Sequence(r) /\ Len(r) = m /\ r[m] = q[m]
  OBVIOUS
<1>1. r = [q EXCEPT ![i] = x]
  BY DEF Put
<1>2. PICK S : q \in Seq(S)
  BY DEF Sequence
<1>3. q \in [1..m -> S]
  BY <1>2
<1>4. r \in [1..m -> S \cup {x}]
  BY <1>1, <1>3
<1>5. r \in Seq(S \cup {x}) /\ Len(r) = m
  <2>1. \A f \in [1..m -> S \cup {x}] : f \in Seq(S \cup {x}) /\ Len(f) = m
    BY ONLY m \in Nat
  <2> QED BY ONLY <1>4, <2>1
<1>6. r[m] = q[m]
  <2>1. m \in 1..m /\ (m # i \/ x = q[m])
    OBVIOUS
  <2> QED BY <1>1, <1>3, <2>1
<1> QED BY <1>5, <1>6 DEF Sequence

(* Nothing is one too.                                                     *)
LEMMA NoneIsSequence == Sequence(<< >>) /\ Len(<< >>) = 0
BY DEF Sequence
-----------------------------------------------------------------------------
(* Every handler of a key keeps the state of edit.c in order.              *)
LEMMA CountsKeep ==
    ASSUME NEW s, KbOK(s), NEW c, IsDigit(s, c)
    PROVE  KbOK(Counts(s, c).kb)
<1> DEFINE n == (IF s.g_hcnt THEN s.g_count * 10 ELSE 0) + Digit[c]
<1>1. Digit[c] \in Int /\ s.g_count \in Int
  <2>1. c \in DOMAIN Digit
    BY DigitsAssumption DEF Values, IsDigit
  <2>2. Digit[c] \in 0..9
    BY <2>1, DigitsAssumption DEF Values
  <2>3. s.g_count \in Int
    BY KeyboardAssumption DEF KbOK, Count16
  <2> QED BY <2>2, <2>3
<1>2. n \in Int
  BY <1>1
<1>3. Wrap(n) \in Count16
  BY <1>2, WrapType
<1>4. Counts(s, c).kb = [s EXCEPT !.g_count = Wrap(n), !.g_hcnt = TRUE]
  BY DEF Counts, Awaits, KbOK, Fields
<1> HIDE DEF n
<1> QED BY <1>3, <1>4 DEF KbOK, Fields

(* The key after an operator.                                              *)
LEMMA OperandKeeps == ASSUME NEW s, KbOK(s), NEW c PROVE KbOK(Operand(s, c).kb)
<1>1. KbOK([GetCount(s) EXCEPT !.g_op = None])
  BY CountType DEF KbOK, Fields
<1>2. Operand(s, c).kb = [GetCount(s) EXCEPT !.g_op = None]
  BY DEF Operand, Gives, Drops
<1> QED BY <1>1, <1>2

(* The key after g.                                                        *)
LEMMA AfterGKeeps == ASSUME NEW s, KbOK(s), NEW c PROVE KbOK(AfterG(s, c).kb)
<1>1. KbOK([GetCount(s) EXCEPT !.g_g = FALSE])
  BY CountType DEF KbOK, Fields
<1>2. AfterG(s, c).kb = [GetCount(s) EXCEPT !.g_g = FALSE]
  BY DEF AfterG, Gives, Drops
<1> QED BY <1>1, <1>2

(* A command's first key.                                                  *)
LEMMA PlainKeeps == ASSUME NEW s, KbOK(s), NEW c PROVE KbOK(Plain(s, c).kb)
<1> DEFINE r == GetCount(s)
           n == CountOf(s)
<1>1. KbOK(r) /\ n \in Count16 /\ 0 \in Count16
  BY CountType, KeyboardAssumption DEF Count16
<1>2. \/ Plain(s, c).kb = r
      \/ c \in Operators /\ Plain(s, c).kb = [r EXCEPT !.g_op = c, !.g_count = n, !.g_hcnt = TRUE]
      \/ Plain(s, c).kb = [r EXCEPT !.g_g = TRUE, !.g_g_count = IF s.g_hcnt THEN n ELSE 0]
      \/ Plain(s, c).kb = [r EXCEPT !.waits = [cmd |-> c, count |-> n, given |-> s.g_hcnt]]
      \/ Plain(s, c).kb = [r EXCEPT !.prompt = c, !.line = << >>]
      \/ Plain(s, c).kb = [r EXCEPT !.mode = "insert"]
  BY DEF Plain, Awaits, Gives
<1> HIDE DEF r, n
<1>3. c \in Operators => KbOK([r EXCEPT !.g_op = c, !.g_count = n, !.g_hcnt = TRUE])
  BY <1>1 DEF KbOK, Fields
<1>4. KbOK([r EXCEPT !.g_g = TRUE, !.g_g_count = IF s.g_hcnt THEN n ELSE 0])
  BY <1>1 DEF KbOK, Fields
<1>5. KbOK([r EXCEPT !.waits = [cmd |-> c, count |-> n, given |-> s.g_hcnt]])
  BY <1>1 DEF KbOK, Fields
<1>6. KbOK([r EXCEPT !.prompt = c, !.line = << >>])
  BY <1>1, NoneIsSequence, KeyboardAssumption DEF KbOK, Fields
<1>7. KbOK([r EXCEPT !.mode = "insert"])
  BY <1>1 DEF KbOK, Fields
<1> QED BY <1>1, <1>2, <1>3, <1>4, <1>5, <1>6, <1>7

(* A key in normal mode.                                                   *)
LEMMA NormalCmdKeeps == ASSUME NEW s, KbOK(s), NEW c PROVE KbOK(NormalCmd(s, c).kb)
BY CountsKeep, OperandKeeps, AfterGKeeps, PlainKeeps DEF NormalCmd

(* The operand of r, f and F.                                              *)
LEMMA ArgumentKeeps == ASSUME NEW s, KbOK(s), NEW c PROVE KbOK(Argument(s, c).kb)
<1>1. Argument(s, c).kb = [s EXCEPT !.waits = None]
  BY DEF Argument, Gives, Drops
<1> QED BY <1>1 DEF KbOK, Fields

(* A key in insert mode.                                                   *)
LEMMA InsertKeyKeeps == ASSUME NEW s, KbOK(s), NEW c PROVE KbOK(InsertKey(s, c).kb)
<1>1. InsertKey(s, c).kb = IF c = ESC THEN [s EXCEPT !.mode = "normal"] ELSE s
  BY DEF InsertKey, Gives
<1> QED BY <1>1 DEF KbOK, Fields

\* The state of edit.c with x put into its pattern.
PutPattern(s, i, x) == [s EXCEPT !.pat[i] = x]

(* A character of a pattern, or its end.                                   *)
LEMMA PutPatternKeeps ==
    ASSUME NEW s, KbOK(s), NEW i \in 1..(LineMax + 1), NEW x, i <= LineMax \/ x = Nul
    PROVE  KbOK(PutPattern(s, i, x))
<1> SUFFICES ASSUME NEW q, q = s.pat, NEW m, m = LineMax + 1, NEW r, r = Put(q, i, x)
             PROVE  KbOK(PutPattern(s, i, x))
  OBVIOUS
<1>1. m \in Nat /\ Sequence(q) /\ Len(q) = m /\ q[m] = Nul /\ i \in 1..m
  BY KeyboardAssumption DEF KbOK
<1>2. i < m \/ x = q[m]
  BY <1>1, KeyboardAssumption
<1>3. Sequence(r) /\ Len(r) = m /\ r[m] = Nul
  BY <1>2, <1>1, PutType
<1>4. PutPattern(s, i, x) = [s EXCEPT !.pat = r]
  BY DEF PutPattern, Put
<1> QED BY <1>1, <1>3, <1>4 DEF KbOK, Fields

(* A key of a command line or of a pattern.                                *)
LEMMA LineKeyKeeps == ASSUME NEW s, KbOK(s), NEW c PROVE KbOK(LineKey(s, c).kb)
<1> DEFINE out  == [s EXCEPT !.prompt = None, !.line = << >>]
           more == [s EXCEPT !.line = Append(s.line, c)]
           less == [s EXCEPT !.line = Front(s.line)]
           i    == Len(s.line) + 1
<1>1. /\ Sequence(s.line) /\ Len(s.line) \in Nat /\ Len(s.line) <= LineMax /\ LineMax \in Nat
      /\ i \in 1..(LineMax + 1)
  BY AppendType, KeyboardAssumption DEF KbOK
<1>2. \/ LineKey(s, c).kb \in {s, out, PutPattern(out, i, Nul)}
      \/ s.line # << >> /\ LineKey(s, c).kb = less
      \/ ~LineFull(s) /\ LineKey(s, c).kb \in {more, PutPattern(more, i, c)}
  BY DEF LineKey, Awaits, Gives, Drops, PutPattern
<1> HIDE DEF i
<1>3. KbOK(out)
  BY NoneIsSequence, KeyboardAssumption DEF KbOK, Fields
<1> HIDE DEF out
<1>4. KbOK(PutPattern(out, i, Nul))
  BY <1>1, <1>3, PutPatternKeeps
<1>5. s.line # << >> => KbOK(less)
  <2> SUFFICES ASSUME s.line # << >> PROVE KbOK(less)
    OBVIOUS
  <2>1. Sequence(Front(s.line)) /\ Len(Front(s.line)) <= LineMax
    BY <1>1, FrontType
  <2> QED BY <2>1 DEF KbOK, Fields
<1>6. ~LineFull(s) => KbOK(more) /\ KbOK(PutPattern(more, i, c))
  <2> SUFFICES ASSUME ~LineFull(s) PROVE KbOK(more) /\ KbOK(PutPattern(more, i, c))
    OBVIOUS
  <2>1. Sequence(Append(s.line, c)) /\ Len(Append(s.line, c)) <= LineMax /\ i <= LineMax
    BY <1>1, AppendType DEF LineFull, i
  <2>2. KbOK(more)
    BY <2>1 DEF KbOK, Fields
  <2> HIDE DEF more
  <2> QED BY <1>1, <2>1, <2>2, PutPatternKeeps
<1> QED BY <1>2, <1>3, <1>4, <1>5, <1>6

(* A key, whatever is waiting for it.                                      *)
LEMMA KeyKeeps == ASSUME NEW s, KbOK(s), NEW c PROVE KbOK(Key(s, c).kb)
BY ArgumentKeeps, LineKeyKeeps, InsertKeyKeeps, NormalCmdKeeps DEF Key
-----------------------------------------------------------------------------
(* It holds at first.                                                      *)
LEMMA Initially == Init => IInv
<1> SUFFICES ASSUME Init PROVE IInv
  OBVIOUS
<1>1. ListensOK
  BY NoneIsSequence, KeyboardAssumption DEF Init, ListensOK
<1>2. Sequence(kb.pat) /\ Len(kb.pat) = LineMax + 1 /\ kb.pat[LineMax + 1] = Nul
  <2>1. kb.pat = [i \in 1..(LineMax + 1) |-> Nul]
    BY DEF Init
  <2>2. kb.pat \in Seq({Nul})
    BY <2>1, KeyboardAssumption
  <2>3. Sequence(kb.pat)
    BY <2>2 DEF Sequence
  <2>4. Len(kb.pat) = LineMax + 1
    BY <2>1, KeyboardAssumption
  <2>5. kb.pat[LineMax + 1] = Nul
    BY <2>1, KeyboardAssumption
  <2> QED BY <2>3, <2>4, <2>5
<1>3. KbOK(kb)
  BY <1>2, NoneIsSequence, KeyboardAssumption DEF Init, KbOK, Fields, Count16
<1> QED BY <1>1, <1>3 DEF IInv

(* A key handed to the editor keeps it.                                    *)
LEMMA ReadsKeep == ASSUME IInv, NEW c, Reads(c) PROVE IInv'
<1>1. KbOK(kb')
  BY KeyKeeps DEF Reads, IInv
<1>2. pc' = "key" /\ polls' = 0 /\ reply' = reply
  BY DEF Reads
<1>3. ListensOK'
  BY <1>2, KeyboardAssumption DEF IInv, ListensOK
<1> QED BY <1>1, <1>3 DEF IInv

\* A step that only waits, or has nothing more to wait for.
LEMMA WaitsKeep ==
    ASSUME IInv, kb' = kb, reply' = reply, polls' \in 0..Polls,
           pc' = "key" \/ (pc' \in {"esc", "bracket"} /\ polls' > 0)
           \/ (pc' = "ask" /\ pc = "ask" /\ polls' > 0)
    PROVE  IInv'
BY DEF IInv, KbOK, ListensOK

(* A byte of the answer makes the buffer one longer at most.               *)
LEMMA HearsType ==
    ASSUME NEW state, NEW buf, Sequence(buf), NEW c
    PROVE  /\ Sequence(Hears(state, buf, c).buf)
           /\ Len(Hears(state, buf, c).buf) \in 0..(Len(buf) + 1)
<1>1. Hears(state, buf, c).buf \in {<<ESC>>, Append(buf, c), << >>}
  BY DEF Hears
<1>2. Sequence(<<ESC>>) /\ Len(<<ESC>>) = 1
  <2>1. <<ESC>> \in Seq({ESC})
    OBVIOUS
  <2> QED BY <2>1 DEF Sequence
<1>3. Sequence(Append(buf, c)) /\ Len(Append(buf, c)) = Len(buf) + 1 /\ Len(buf) \in Nat
  BY AppendType
<1>4. /\ Len(<<ESC>>) \in 0..(Len(buf) + 1) /\ Len(Append(buf, c)) \in 0..(Len(buf) + 1)
      /\ Len(<< >>) \in 0..(Len(buf) + 1)
  BY <1>2, <1>3, NoneIsSequence
<1> DEFINE b == Hears(state, buf, c).buf
<1>5. CASE b = <<ESC>>
  BY <1>2, <1>4, <1>5
<1>6. CASE b = Append(buf, c)
  BY <1>3, <1>4, <1>6
<1>7. CASE b = << >>
  BY <1>4, <1>7, NoneIsSequence
<1> QED BY <1>1, <1>5, <1>6, <1>7

(* A byte of the answer is read.                                           *)
LEMMA GetReplyKeeps == ASSUME IInv, GetReply PROVE IInv'
<1>1. PICK c : /\ reply' = [total |-> reply.total + 1,
                            state |-> Hears(reply.state, reply.buf, c).state,
                            buf   |-> Hears(reply.state, reply.buf, c).buf]
               /\ pc' = IF \/ Hears(reply.state, reply.buf, c).state = "whole"
                           \/ reply.total + 1 >= ReplyMax
                           \/ Len(Hears(reply.state, reply.buf, c).buf) >= BufMax
                        THEN "key" ELSE "reply"
  BY DEF GetReply
<1>2. polls' = 0 /\ kb' = kb /\ pc \in {"ask", "reply"}
  BY DEF GetReply
<1> DEFINE b == Hears(reply.state, reply.buf, c).buf
<1>3. /\ reply.total \in Nat /\ reply.total < ReplyMax
      /\ Sequence(reply.buf) /\ Len(reply.buf) < BufMax
  BY <1>2, KeyboardAssumption DEF IInv, ListensOK
<1>4. Len(reply.buf) \in Nat
  BY <1>3, AppendType
<1>5. Sequence(b) /\ Len(b) \in 0..(Len(reply.buf) + 1)
  BY <1>3, HearsType
<1> HIDE DEF b
<1>6. Sequence(b) /\ Len(b) \in Nat /\ Len(b) <= BufMax
  BY <1>3, <1>4, <1>5, KeyboardAssumption
<1>7. reply'.total = reply.total + 1 /\ reply'.buf = b /\ DOMAIN reply' = {"total", "state", "buf"}
  BY <1>1 DEF b
<1>8. pc' = "key" \/ (pc' = "reply" /\ reply.total + 1 < ReplyMax /\ Len(b) < BufMax)
  BY <1>1, <1>3, <1>6, KeyboardAssumption DEF b
<1>9. ListensOK'
  BY <1>2, <1>3, <1>6, <1>7, <1>8, KeyboardAssumption DEF ListensOK
<1> QED BY <1>2, <1>9 DEF IInv

(* Every step keeps it.                                                    *)
LEMMA StepKeeps == IInv /\ [Next]_vars => IInv'
<1> SUFFICES ASSUME IInv, [Next]_vars PROVE IInv'
  OBVIOUS
<1>1. polls \in 0..Polls /\ Polls \in Nat /\ Polls > 0
  BY KeyboardAssumption DEF IInv, ListensOK
<1>2. CASE GetFirst
  <2>1. \/ \E c : Reads(c)
        \/ pc' = "esc" /\ polls' = Polls /\ kb' = kb /\ reply' = reply
    BY <1>2 DEF GetFirst, Quiet
  <2> QED BY <1>1, <2>1, ReadsKeep, WaitsKeep
<1>3. CASE GetNext
  <2>1. \/ \E c : Reads(c)
        \/ pc' = "bracket" /\ polls' = Polls /\ kb' = kb /\ reply' = reply
    BY <1>3 DEF GetNext, Letter, Quiet
  <2> QED BY <1>1, <2>1, ReadsKeep, WaitsKeep
<1>4. CASE PollKey
  <2>1. \/ Reads(ESC)
        \/ /\ pc' \in {"esc", "bracket"} /\ polls > 1 /\ polls' = polls - 1
           /\ kb' = kb /\ reply' = reply
    BY <1>1, <1>4 DEF PollKey, Spent, Fewer, Quiet
  <2> QED BY <1>1, <2>1, ReadsKeep, WaitsKeep
<1>5. CASE PollReply
  <2>1. /\ pc = "ask" /\ polls > 0 /\ polls' = polls - 1 /\ kb' = kb /\ reply' = reply
        /\ pc' = "key" \/ (pc' = "ask" /\ polls > 1)
    BY <1>1, <1>5 DEF PollReply, Spent, Fewer, Quiet, IInv, ListensOK
  <2> QED BY <1>1, <2>1, WaitsKeep
<1>6. CASE GetReply
  BY <1>6, GetReplyKeeps
<1>7. CASE Press \/ Arrive \/ UNCHANGED vars
  <2>1. UNCHANGED <<pc, polls, reply, kb>>
    BY <1>7 DEF Press, Arrive, vars, program
  <2> QED BY <2>1 DEF IInv, KbOK, ListensOK
<1> QED BY <1>2, <1>3, <1>4, <1>5, <1>6, <1>7 DEF Next, Program

(* Neither a command line or a pattern, nor the terminal's answer overruns *)
(* its array, the pattern in ed.search always ends, and counts are those   *)
(* of 16 bits: for any keys in any order (read_pattern, cmdline_mode,      *)
(* term_getsize, get_count).                                                *)
THEOREM ArraysHold == Spec => []TypeOK
<1>1. IInv /\ [Next]_vars => IInv'
  BY StepKeeps
<1> QED BY <1>1, Initially, ImpliesType, PTL DEF Spec
-----------------------------------------------------------------------------
(* The keys in order: their bytes, those of one after another.             *)

\* The bytes there may be on the line.
Keys == UNION {Users[u].keys : u \in DOMAIN Users}
Of(s) == {s[i] : i \in DOMAIN s}
AllAnswers == UNION {Users[u].answers : u \in DOMAIN Users}
AnswerValues == UNION {Of(a.bytes) : a \in AllAnswers}
KeyValues == UNION {Of(Bytes[key]) : key \in DOMAIN Bytes}
ByteValues == Keys \cup KeyValues \cup AnswerValues
Wire == Seq([b : ByteValues, k : Nat])

\* The bytes that stand for one key of the editor, on the line as its nth, and
\* the keys that q stand for.
Pieces == {p \in Seq(ByteValues) : /\ Len(p) >= 1 /\ Len(p) = Begins(p)
                                   /\ Len(p) > 1 => p[1] = ESC}
Sent(p, n) == Tagged(p, n)
Means(q) == [i \in 1..Len(q) |-> Returned(q[i])]

\* R has the bytes of q from each of them on, the first being for key n + 1.
Chain(R, q, n) ==
    /\ q \in Seq(Pieces) /\ n \in Nat
    /\ R \in [0..Len(q) -> Wire]
    /\ R[Len(q)] = << >>
    /\ \A i \in 1..Len(q) : R[i - 1] = Sent(q[i], n + i) \o R[i]

\* u is the bytes of q.
BytesAre(u, q, n) == \E R : Chain(R, q, n) /\ u = R[0]

\* What is unread when the program waits for a key, after ESC, and after ESC [:
\* what is left of the terminal's answer and of the first key, and the others.
Own(a) == \A i \in 1..Len(a) : a[i].k = 0
AtRest(u, q, n) == \E a, v : a \in Wire /\ Own(a) /\ BytesAre(v, q, n) /\ u = a \o v
Escaped(u, q, n) ==
    /\ q \in Seq(Pieces) /\ q # << >> /\ Head(q)[1] = ESC
    /\ \E v : BytesAre(v, Tail(q), n + 1) /\ u = Tail(Sent(Head(q), n + 1)) \o v
Bracketed(u, q, n) ==
    /\ q \in Seq(Pieces) /\ q # << >> /\ Len(Head(q)) = 3 /\ Head(q)[2] = "["
    /\ \E v : BytesAre(v, Tail(q), n + 1) /\ u = Tail(Tail(Sent(Head(q), n + 1))) \o v

Unread(p, u, q, n, c) ==
    \/ p \in {"ask", "reply", "key"} /\ AtRest(u, q, n)
    \/ p = "esc" /\ c = n + 1 /\ Escaped(u, q, n)
    \/ p = "bracket" /\ c = n + 1 /\ Bracketed(u, q, n)

\* What is unread stands for the keys d, of which the first is key n + 1.
InOrder(p, u, d, n, c) == \E q \in Seq(Pieces) : d = Means(q) /\ Unread(p, u, q, n, c)

\* The keys the editor may be given.
Given == {Returned(p) : p \in Pieces}

LineOK ==
    /\ user \in DOMAIN Users /\ pressed \in Nat
    /\ arrived \in Wire /\ coming \in Wire
    /\ owed \in Seq(Given) /\ Len(owed) <= pressed
OrderOK ==
    ~raced => ~wrong /\ InOrder(pc, arrived \o coming, owed, pressed - Len(owed), current)
OrderInv == LineOK /\ OrderOK
-----------------------------------------------------------------------------
(* The first member of two sequences in a row.                             *)
LEMMA HeadOfConcat ==
    ASSUME NEW S, NEW a \in Seq(S), NEW b \in Seq(S), a # << >>
    PROVE  a \o b # << >> /\ Head(a \o b) = Head(a)
<1>1. Len(a) \in Nat /\ Len(a) > 0 /\ Len(b) \in Nat
  OBVIOUS
<1>2. Len(a \o b) = Len(a) + Len(b) /\ a \o b \in Seq(S) /\ (a \o b)[1] = a[1]
  BY <1>1, ConcatProperties
<1>3. a \o b # << >>
  BY <1>1, <1>2
<1> QED BY <1>2, <1>3

(* What follows it.                                                        *)
LEMMA TailOfConcat ==
    ASSUME NEW S, NEW a \in Seq(S), NEW b \in Seq(S), a # << >>
    PROVE  Tail(a) \in Seq(S) /\ Tail(a \o b) = Tail(a) \o b
<1> DEFINE w == a \o b
           t == Tail(a)
           v == Tail(w)
           z == t \o b
           m == Len(a) - 1
           n == Len(b)
<1>1. m \in Nat /\ n \in Nat /\ Len(a) = m + 1
  OBVIOUS
<1>2. /\ w \in Seq(S) /\ Len(w) = m + 1 + n
      /\ \A i \in 1..(m + 1 + n) : w[i] = IF i <= m + 1 THEN a[i] ELSE b[i - (m + 1)]
  <2>1. /\ w \in Seq(S) /\ Len(w) = Len(a) + Len(b)
        /\ \A i \in 1..(Len(a) + Len(b)) : w[i] = IF i <= Len(a) THEN a[i] ELSE b[i - Len(a)]
    BY ConcatProperties
  <2> HIDE DEF w
  <2> QED BY <1>1, <2>1
<1>3. t \in Seq(S) /\ Len(t) = m /\ \A i \in 1..m : t[i] = a[i + 1]
  BY HeadTailProperties
<1> HIDE DEF w, t, m, n
<1>4. w # << >>
  BY <1>1, <1>2
<1>5. v \in Seq(S) /\ Len(v) = m + n /\ \A i \in 1..(m + n) : v[i] = w[i + 1]
  BY <1>1, <1>2, <1>4, HeadTailProperties
<1>6. /\ z \in Seq(S) /\ Len(z) = m + n
      /\ \A i \in 1..(m + n) : z[i] = IF i <= m THEN t[i] ELSE b[i - m]
  BY <1>1, <1>3, ConcatProperties DEF n
<1> HIDE DEF v, z
<1>7. ASSUME NEW i \in 1..(m + n) PROVE v[i] = z[i]
  <2>1. i + 1 \in 1..(m + 1 + n) /\ v[i] = w[i + 1]
    BY <1>1, <1>5
  <2>2. CASE i <= m
    BY <1>1, <1>2, <1>3, <1>6, <2>1, <2>2
  <2>3. CASE i > m
    <3>1. PICK j \in 1..(m + 1 + n) : j = i + 1
      BY <2>1
    <3>2. ~(j <= m + 1) /\ j - (m + 1) = i - m /\ ~(i <= m)
      BY <1>1, <2>3, <3>1
    <3>3. w[j] = b[j - (m + 1)]
      BY <1>2, <3>2
    <3>4. z[i] = b[i - m]
      BY <1>6, <3>2
    <3> QED BY <2>1, <3>1, <3>2, <3>3, <3>4
  <2> QED BY <1>1, <2>2, <2>3
<1>8. v = z
  <2>1. v \in Seq(S) /\ z \in Seq(S) /\ Len(v) = Len(z) /\ \A i \in 1..Len(v) : v[i] = z[i]
    BY <1>5, <1>6, <1>7
  <2> QED BY <2>1, SeqEqual
<1> QED BY <1>3, <1>8 DEF v, z, w, t
(* A sequence is its first member and the others.                          *)
LEMMA HeadTailConcat ==
    ASSUME NEW S, NEW b \in Seq(S), b # << >>
    PROVE  <<Head(b)>> \o Tail(b) = b
<1> DEFINE x == Head(b)
           f == <<x>>
           t == Tail(b)
           w == f \o t
<1>1. PICK m \in Nat : Len(b) = m + 1
  <2>1. Len(b) \in Nat /\ Len(b) > 0
    OBVIOUS
  <2>2. Len(b) - 1 \in Nat /\ Len(b) = (Len(b) - 1) + 1
    BY <2>1
  <2> QED BY <2>2
<1>2. x = b[1] /\ x \in S
  BY HeadTailProperties
<1>3. t \in Seq(S) /\ Len(t) = m /\ \A i \in 1..m : t[i] = b[i + 1]
  BY <1>1, HeadTailProperties
<1> HIDE DEF x, t
<1>4. f \in Seq(S) /\ Len(f) = 1 /\ f[1] = x
  BY <1>2
<1> HIDE DEF f
<1>5. /\ w \in Seq(S) /\ Len(w) = 1 + m
      /\ \A i \in 1..(1 + m) : w[i] = IF i <= 1 THEN f[i] ELSE t[i - 1]
  <2>1. /\ w \in Seq(S) /\ Len(w) = Len(f) + Len(t)
        /\ \A i \in 1..(Len(f) + Len(t)) : w[i] = IF i <= Len(f) THEN f[i] ELSE t[i - Len(f)]
    <3>1. f \in Seq(S) /\ t \in Seq(S)
      BY <1>3, <1>4
    <3> QED BY <3>1, ConcatProperties
  <2> HIDE DEF w
  <2> QED BY <1>3, <1>4, <2>1
<1> HIDE DEF w
<1>6. ASSUME NEW i \in 1..(1 + m) PROVE w[i] = b[i]
  <2>1. CASE i = 1
    BY <1>1, <1>2, <1>4, <1>5, <2>1
  <2>2. CASE i # 1
    <3>1. PICK j \in 1..m : i = j + 1
      BY <1>1, <2>2
    <3>2. ~(i <= 1) /\ i - 1 = j
      BY <1>1, <3>1
    <3>3. w[i] = t[j]
      BY <1>5, <3>2
    <3> QED BY <1>3, <3>1, <3>3
  <2> QED BY <2>1, <2>2
<1>7. Len(w) = Len(b) /\ \A i \in 1..Len(w) : w[i] = b[i]
  BY <1>1, <1>5, <1>6
<1>8. w = b
  BY <1>5, <1>7, SeqEqual
<1> QED BY <1>8 DEF w, f, x, t

(* A member moved from the front of one sequence to the end of another.    *)
LEMMA MoveOne ==
    ASSUME NEW S, NEW a \in Seq(S), NEW b \in Seq(S), b # << >>
    PROVE  /\ Append(a, Head(b)) \in Seq(S) /\ Tail(b) \in Seq(S)
           /\ Append(a, Head(b)) \o Tail(b) = a \o b
<1> DEFINE x == Head(b)
           t == Tail(b)
<1>1. x \in S /\ t \in Seq(S) /\ <<x>> \in Seq(S)
  BY HeadTailProperties
<1>2. Append(a, x) = a \o <<x>> /\ Append(a, x) \in Seq(S)
  BY <1>1, AppendIsConcat, AppendProperties
<1>3. <<x>> \o t = b
  BY HeadTailConcat
<1> HIDE DEF x, t
<1>4. (a \o <<x>>) \o t = a \o (<<x>> \o t)
  BY <1>1, ConcatAssociative
<1> QED BY <1>1, <1>2, <1>3, <1>4 DEF x, t

-----------------------------------------------------------------------------
(* Bytes of keys.                                                          *)
Octet == [b : ByteValues, k : Nat]

(* The answer is a sequence of bytes, and tells a size.                    *)
LEMMA AnswerIs ==
    ASSUME NEW u \in DOMAIN Users, NEW a \in Users[u].answers
    PROVE  a.bytes \in Seq(ByteValues) /\ Len(a.bytes) \in Nat /\ Tells(a.bytes, a.size)
<1> DEFINE s == a.bytes
<1>1. Lists(s) /\ Tells(s, a.size)
  BY AnswersAssumption DEF TellSizes
<1>2. \A i \in DOMAIN s : s[i] \in ByteValues
  <2>1. a \in AllAnswers
    BY Zenon DEF AllAnswers
  <2>2. Of(s) \subseteq AnswerValues
    BY <2>1, Zenon DEF AnswerValues
  <2>3. \A i \in DOMAIN s : s[i] \in Of(s)
    BY Zenon DEF Of
  <2>4. AnswerValues \subseteq ByteValues
    BY DEF ByteValues
  <2> HIDE DEF s
  <2> QED BY <2>2, <2>3, <2>4
<1> HIDE DEF s
<1>3. Len(s) \in Nat /\ s = [i \in 1..Len(s) |-> s[i]]
  BY <1>1 DEF Lists
<1>4. s \in Seq(ByteValues)
  BY <1>2, <1>3
<1> QED BY <1>1, <1>3, <1>4 DEF s

\* The bytes a user's terminal may answer are its own.
LEMMA AnswerBytes ==
    ASSUME NEW u \in DOMAIN Users, NEW a \in Users[u].answers
    PROVE  Tagged(a.bytes, 0) \in Wire /\ Own(Tagged(a.bytes, 0))
<1> DEFINE s == a.bytes
           t == Tagged(s, 0)
<1>1. s \in Seq(ByteValues)
  BY AnswerIs
<1> HIDE DEF s
<1>2. \A i \in DOMAIN s : s[i] \in ByteValues
  BY <1>1
<1>3. DOMAIN s = 1..Len(s) /\ Len(s) \in Nat
  BY <1>1
<1>4. t = [i \in 1..Len(s) |-> [b |-> s[i], k |-> 0]]
  BY <1>3 DEF Tagged
<1>5. \A i \in 1..Len(s) : [b |-> s[i], k |-> 0] \in Octet
  BY <1>2, <1>3 DEF Octet
<1>6. t \in Seq(Octet) /\ Len(t) = Len(s) /\ \A i \in 1..Len(s) : t[i] = [b |-> s[i], k |-> 0]
  BY <1>3, <1>4, <1>5
<1> HIDE DEF t
<1>7. Own(t)
  <2>1. ASSUME NEW i \in 1..Len(s) PROVE t[i].k = 0
    <3>1. t[i] = [b |-> s[i], k |-> 0]
      BY <1>6
    <3> QED BY <3>1
  <2> QED BY <1>6, <2>1 DEF Own
<1>8. t \in Wire
  BY <1>6 DEF Wire, Octet
<1> QED BY <1>7, <1>8 DEF t, s

(* A key of the editor has one to three bytes.                             *)
LEMMA PieceType ==
    ASSUME NEW p \in Pieces
    PROVE  /\ p \in Seq(ByteValues) /\ Len(p) \in Nat /\ Len(p) >= 1
           /\ Len(p) = 1 \/ Len(p) = 2 \/ Len(p) = 3
           /\ Len(p) = 1 \/ Len(p) > 1
           /\ Len(p) = Begins(p) /\ Returned(p) \in Given
           /\ \A i \in 1..Len(p) : p[i] \in ByteValues
<1>1. p \in Seq(ByteValues) /\ Len(p) = Begins(p)
  BY DEF Pieces
<1>2. Begins(p) = 1 \/ Begins(p) = 2 \/ Begins(p) = 3
  BY Zenon DEF Begins
<1>3. Len(p) \in Nat /\ Len(p) >= 1 /\ \A i \in 1..Len(p) : p[i] \in ByteValues
  BY <1>1 DEF Pieces
<1>4. Returned(p) \in Given
  BY Zenon DEF Given
<1>5. Len(p) = 1 \/ Len(p) = 2 \/ Len(p) = 3
  BY <1>1, <1>2, Zenon
<1>6. Len(p) = 1 \/ Len(p) > 1
  <2>1. 2 > 1 /\ 3 > 1
    OBVIOUS
  <2> QED BY <1>5, <2>1, Zenon
<1> QED BY <1>1, <1>3, <1>4, <1>5, <1>6, Zenon

(* What they stand for is what the first does and what the others do.      *)
LEMMA MeansTail ==
    ASSUME NEW q \in Seq(Pieces)
    PROVE  /\ Means(q) \in Seq(Given) /\ Len(Means(q)) = Len(q)
           /\ q # << >> => /\ Means(q) # << >> /\ Head(Means(q)) = Returned(Head(q))
                           /\ Tail(Means(q)) = Means(Tail(q)) /\ Tail(q) \in Seq(Pieces)
<1> DEFINE d == Means(q)
           r == Tail(q)
           e == Means(r)
<1>1. \A i \in 1..Len(q) : Returned(q[i]) \in Given
  BY PieceType
<1>2. d \in Seq(Given) /\ Len(d) = Len(q) /\ \A i \in 1..Len(q) : d[i] = Returned(q[i])
  BY <1>1 DEF Means
<1>3. ASSUME q # << >>
      PROVE  d # << >> /\ Head(d) = Returned(Head(q)) /\ Tail(d) = e /\ r \in Seq(Pieces)
  <2>1. Len(q) \in Nat /\ Len(q) > 0 /\ Head(q) = q[1]
    BY <1>3
  <2>2. r \in Seq(Pieces) /\ Len(r) = Len(q) - 1 /\ \A i \in 1..Len(r) : r[i] = q[i + 1]
    BY <1>3, HeadTailProperties
  <2>3. e = [i \in 1..Len(r) |-> Returned(r[i])]
    BY DEF Means
  <2> HIDE DEF d, r, e
  <2>4. d # << >> /\ Head(d) = d[1] /\ d[1] = Returned(q[1])
    BY <1>2, <2>1
  <2>5. /\ Tail(d) \in Seq(Given) /\ Len(Tail(d)) = Len(d) - 1
        /\ \A i \in 1..Len(Tail(d)) : Tail(d)[i] = d[i + 1]
    BY <1>2, <2>4, HeadTailProperties
  <2>6. ASSUME NEW i \in 1..Len(r) PROVE Tail(d)[i] = Returned(r[i])
    <3>1. i + 1 \in 1..Len(q) /\ i \in 1..Len(Tail(d))
      BY <1>2, <2>1, <2>2, <2>5
    <3> QED BY <1>2, <2>2, <2>5, <3>1
  <2>7. Tail(d) = [i \in 1..Len(r) |-> Returned(r[i])]
    <3>1. Len(Tail(d)) = Len(r)
      BY <1>2, <2>2, <2>5, Zenon
    <3> DEFINE t == Tail(d)
    <3>2. t \in Seq(Given)
      BY <2>5
    <3>3. t = [i \in 1..Len(t) |-> t[i]]
      <4> HIDE DEF t
      <4> QED BY <3>2
    <3> QED BY <2>6, <3>1, <3>3
  <2> QED BY <2>1, <2>2, <2>3, <2>4, <2>7
<1> QED BY <1>2, <1>3 DEF d, e, r

(* They bear its number on the line.                                       *)
LEMMA SentType ==
    ASSUME NEW p \in Pieces, NEW n \in Nat
    PROVE  /\ Sent(p, n) \in Wire /\ Sent(p, n) # << >>
           /\ Len(Sent(p, n)) = Len(p)
           /\ \A i \in 1..Len(p) : Sent(p, n)[i] = [b |-> p[i], k |-> n]
<1> DEFINE t == Sent(p, n)
<1>1. /\ Len(p) \in Nat /\ Len(p) >= 1 /\ p \in Seq(ByteValues)
      /\ \A i \in 1..Len(p) : p[i] \in ByteValues
  BY PieceType
<1>2. t = [i \in DOMAIN p |-> [b |-> p[i], k |-> n]]
  BY DEF Sent, Tagged
<1>3. DOMAIN p = 1..Len(p)
  BY <1>1
<1>4. t = [i \in 1..Len(p) |-> [b |-> p[i], k |-> n]]
  BY <1>2, <1>3
<1>5. \A i \in 1..Len(p) : [b |-> p[i], k |-> n] \in Octet
  BY <1>1 DEF Octet
<1>6. t \in Seq(Octet) /\ Len(t) = Len(p) /\ \A i \in 1..Len(p) : t[i] = [b |-> p[i], k |-> n]
  BY <1>1, <1>4, <1>5
<1> HIDE DEF t
<1>7. t # << >>
  BY <1>1, <1>6
<1> QED BY <1>6, <1>7 DEF Wire, Octet, t
-----------------------------------------------------------------------------
(* The bytes of one key after another.                                     *)
LEMMA BytesType ==
    ASSUME NEW u, NEW q, NEW n, BytesAre(u, q, n)
    PROVE  /\ q \in Seq(Pieces) /\ n \in Nat /\ u \in Wire
           /\ q = << >> => u = << >>
<1>1. PICK R : Chain(R, q, n) /\ u = R[0]
  BY DEF BytesAre
<1>2. q \in Seq(Pieces) /\ n \in Nat /\ R \in [0..Len(q) -> Wire] /\ R[Len(q)] = << >>
  BY <1>1 DEF Chain
<1>3. Len(q) \in Nat
  BY <1>2
<1>4. q = << >> => Len(q) = 0
  OBVIOUS
<1>5. 0 \in 0..Len(q)
  BY <1>3
<1> QED BY <1>1, <1>2, <1>4, <1>5

(* No bytes are those of no keys.                                          *)
LEMMA NoBytes == ASSUME NEW n \in Nat PROVE BytesAre(<< >>, << >>, n)
<1> DEFINE q == << >>
           R == [i \in 0..0 |-> << >>]
<1>1. q \in Seq(Pieces) /\ Len(q) = 0
  OBVIOUS
<1>2. << >> \in Wire
  BY DEF Wire
<1>3. R \in [0..0 -> Wire] /\ R[0] = << >>
  BY <1>2
<1> HIDE DEF R, q
<1>4. Chain(R, q, n)
  BY <1>1, <1>3 DEF Chain
<1>5. BytesAre(<< >>, q, n)
  BY <1>3, <1>4 DEF BytesAre
<1> QED BY <1>5 DEF q

(* The bytes of keys are those of the first and then of the others.        *)
LEMMA FirstBytes ==
    ASSUME NEW u, NEW q, NEW n, BytesAre(u, q, n), q # << >>
    PROVE  \E v : BytesAre(v, Tail(q), n + 1) /\ u = Sent(Head(q), n + 1) \o v
<1>1. PICK R : Chain(R, q, n) /\ u = R[0]
  BY DEF BytesAre
<1> DEFINE r == Tail(q)
           T == [i \in 0..Len(r) |-> R[i + 1]]
<1>2. /\ q \in Seq(Pieces) /\ n \in Nat /\ R \in [0..Len(q) -> Wire] /\ R[Len(q)] = << >>
      /\ \A i \in 1..Len(q) : R[i - 1] = Sent(q[i], n + i) \o R[i]
  BY <1>1 DEF Chain
<1>3. PICK m \in Nat : Len(q) = m + 1
  <2>1. Len(q) \in Nat /\ Len(q) > 0
    BY <1>2
  <2>2. Len(q) - 1 \in Nat /\ Len(q) = (Len(q) - 1) + 1
    BY <2>1
  <2> QED BY <2>2
<1>4. r \in Seq(Pieces) /\ Len(r) = m /\ (\A i \in 1..m : r[i] = q[i + 1]) /\ Head(q) = q[1]
  BY <1>2, <1>3, HeadTailProperties
<1> HIDE DEF r
<1>5. R \in [0..(m + 1) -> Wire]
  BY <1>2, <1>3
<1>6. \A i \in 0..m : T[i] = R[i + 1] /\ R[i + 1] \in Wire
  BY <1>4, <1>5
<1>7. T \in [0..Len(r) -> Wire]
  BY <1>3, <1>4, <1>6
<1> HIDE DEF T
<1>8. T[Len(r)] = << >>
  BY <1>2, <1>3, <1>4, <1>6
<1>9. ASSUME NEW i \in 1..m PROVE T[i - 1] = Sent(r[i], (n + 1) + i) \o T[i]
  <2>1. PICK j \in 1..(m + 1) : j = i + 1
    BY <1>3
  <2>2. R[j - 1] = Sent(q[j], n + j) \o R[j]
    BY <1>2, <1>3
  <2>3. j - 1 = i /\ n + j = (n + 1) + i /\ i - 1 \in 0..m /\ i \in 0..m /\ (i - 1) + 1 = i
    BY <1>2, <1>3, <2>1
  <2>4. T[i - 1] = R[i] /\ T[i] = R[j]
    BY <1>6, <2>1, <2>3
  <2>5. r[i] = q[j]
    BY <1>4, <2>1
  <2> QED BY <2>2, <2>3, <2>4, <2>5
<1>10. n + 1 \in Nat
  BY <1>2
<1>11. Chain(T, r, n + 1)
  BY <1>4, <1>7, <1>8, <1>9, <1>10 DEF Chain
<1>12. T[0] = R[1] /\ R[0] = Sent(q[1], n + 1) \o R[1]
  <2>1. 0 \in 0..m /\ 1 \in 1..Len(q)
    BY <1>3
  <2>2. T[0] = R[0 + 1]
    BY <1>6, <2>1
  <2>3. R[1 - 1] = Sent(q[1], n + 1) \o R[1]
    BY <1>2, <2>1
  <2>4. 0 + 1 = 1 /\ 1 - 1 = 0
    OBVIOUS
  <2> QED BY <2>2, <2>3, <2>4
<1>13. BytesAre(T[0], r, n + 1)
  BY <1>11 DEF BytesAre
<1>14. u = Sent(Head(q), n + 1) \o T[0]
  BY <1>1, <1>4, <1>12
<1> QED BY <1>13, <1>14 DEF r

(* A sequence of bytes and those of a key are bytes, and so on.            *)
LEMMA WireConcat ==
    ASSUME NEW a \in Wire, NEW b \in Wire
    PROVE  a \o b \in Wire
BY ConcatProperties DEF Wire

(* Three in a row.                                                         *)
LEMMA WireAssociative ==
    ASSUME NEW a \in Wire, NEW b \in Wire, NEW c \in Wire
    PROVE  (a \o b) \o c = a \o (b \o c)
<1>1. a \in Seq(Octet) /\ b \in Seq(Octet) /\ c \in Seq(Octet)
  BY DEF Wire, Octet
<1> QED BY <1>1, ConcatAssociative

(* None before or after.                                                   *)
LEMMA WireEmpty == ASSUME NEW a \in Wire PROVE << >> \in Wire /\ a \o << >> = a /\ << >> \o a = a
<1>1. a \in Seq(Octet) /\ Wire = Seq(Octet)
  BY DEF Wire, Octet
<1> QED BY <1>1, ConcatEmptySeq

(* The first taken of two in a row.                                        *)
LEMMA WireTake ==
    ASSUME NEW a \in Wire, NEW b \in Wire, a # << >>
    PROVE  /\ a \o b # << >> /\ Head(a \o b) = Head(a)
           /\ Tail(a) \in Wire /\ Tail(a \o b) = Tail(a) \o b
<1>1. a \in Seq(Octet) /\ b \in Seq(Octet) /\ Wire = Seq(Octet)
  BY DEF Wire, Octet
<1> QED BY <1>1, HeadOfConcat, TailOfConcat

(* What else is sent comes after all that is unread.                       *)
LEMMA MoreBytes ==
    ASSUME NEW u, NEW q, NEW n, BytesAre(u, q, n), NEW s, NEW more, BytesAre(s, more, n + Len(q))
    PROVE  BytesAre(u \o s, q \o more, n)
<1>1. PICK R : Chain(R, q, n) /\ u = R[0]
  BY DEF BytesAre
<1>2. PICK Q : Chain(Q, more, n + Len(q)) /\ s = Q[0]
  BY DEF BytesAre
<1>3. PICK m \in Nat : Len(q) = m
  BY <1>1 DEF Chain
<1>4. PICK l \in Nat : Len(more) = l
  BY <1>2 DEF Chain
<1> DEFINE r == q \o more
           T == [i \in 0..(m + l) |-> IF i <= m THEN R[i] \o s ELSE Q[i - m]]
<1>5. /\ q \in Seq(Pieces) /\ n \in Nat /\ R \in [0..m -> Wire] /\ R[m] = << >>
      /\ \A i \in 1..m : R[i - 1] = Sent(q[i], n + i) \o R[i]
  BY <1>1, <1>3 DEF Chain
<1>6. /\ more \in Seq(Pieces) /\ Q \in [0..l -> Wire] /\ Q[l] = << >>
      /\ \A i \in 1..l : Q[i - 1] = Sent(more[i], (n + m) + i) \o Q[i]
  BY <1>2, <1>3, <1>4 DEF Chain
<1>7. /\ r \in Seq(Pieces) /\ Len(r) = m + l
      /\ \A i \in 1..(m + l) : r[i] = IF i <= m THEN q[i] ELSE more[i - m]
  BY <1>3, <1>4, <1>5, <1>6, ConcatProperties
<1> HIDE DEF r
<1>8. s \in Wire /\ s = Q[0]
  BY <1>2, <1>6
<1>9. ASSUME NEW i \in 0..m PROVE T[i] = R[i] \o s /\ R[i] \in Wire /\ R[i] \o s \in Wire
  <2>1. R[i] \in Wire
    BY <1>5
  <2>2. T[i] = R[i] \o s
    OBVIOUS
  <2> HIDE DEF T
  <2> QED BY <1>8, <2>1, <2>2, WireConcat
<1>10. \A i \in 0..l : T[m + i] = Q[i] /\ Q[i] \in Wire
  <2>1. T[m] = Q[0]
    <3>1. << >> \o s = s
      BY <1>8, WireEmpty
    <3>2. T[m] = R[m] \o s
      BY <1>9
    <3> QED BY <1>5, <1>8, <3>1, <3>2
  <2>2. ASSUME NEW i \in 0..l PROVE T[m + i] = Q[i] /\ Q[i] \in Wire
    <3>1. Q[i] \in Wire
      BY <1>6
    <3>2. CASE i = 0
      BY <2>1, <3>1, <3>2
    <3>3. CASE i # 0
      <4>1. m + i \in 0..(m + l) /\ ~(m + i <= m) /\ (m + i) - m = i
        BY <3>3
      <4> QED BY <3>1, <4>1
    <3> QED BY <3>2, <3>3
  <2> QED BY <2>2
<1>11. T \in [0..(m + l) -> Wire]
  <2>1. ASSUME NEW i \in 0..(m + l) PROVE (IF i <= m THEN R[i] \o s ELSE Q[i - m]) \in Wire
    <3>1. i <= m => i \in 0..m
      OBVIOUS
    <3>2. ~(i <= m) => i - m \in 0..l
      OBVIOUS
    <3> HIDE DEF T
    <3> QED BY <1>6, <1>9, <3>1, <3>2
  <2> QED BY <2>1
<1> HIDE DEF T
<1>12. ASSUME NEW i \in 1..(m + l) PROVE T[i - 1] = Sent(r[i], n + i) \o T[i]
  <2>1. CASE ~(i <= m)
    <3>1. PICK j \in 1..l : i = m + j
      <4>1. i - m \in 1..l /\ i = m + (i - m)
        BY <2>1
      <4> QED BY <4>1
    <3>2. j - 1 \in 0..l /\ j \in 0..l /\ i - 1 = m + (j - 1) /\ n + i = (n + m) + j /\ i - m = j
      BY <1>5, <3>1
    <3>3. T[i - 1] = Q[j - 1] /\ T[i] = Q[j]
      BY <1>10, <3>1, <3>2
    <3>4. r[i] = more[j]
      BY <1>7, <2>1, <3>2
    <3> QED BY <1>6, <3>1, <3>2, <3>3, <3>4
  <2>2. CASE i <= m
    <3>1. i \in 1..m /\ i - 1 \in 0..m /\ i \in 0..m /\ n + i \in Nat
      BY <1>5, <2>2
    <3>2. R[i - 1] = Sent(q[i], n + i) \o R[i]
      BY <1>5, <3>1
    <3>3. q[i] \in Pieces
      BY <1>3, <1>5, <3>1
    <3>4. Sent(q[i], n + i) \in Wire
      BY <3>1, <3>3, SentType
    <3>5. T[i - 1] = R[i - 1] \o s /\ T[i] = R[i] \o s /\ R[i] \in Wire
      BY <1>9, <3>1
    <3>6. (Sent(q[i], n + i) \o R[i]) \o s = Sent(q[i], n + i) \o (R[i] \o s)
      BY <1>8, <3>4, <3>5, WireAssociative
    <3>7. r[i] = q[i]
      BY <1>7, <2>2
    <3> QED BY <3>2, <3>5, <3>6, <3>7
  <2> QED BY <2>1, <2>2
<1>13. T[Len(r)] = << >>
  BY <1>6, <1>7, <1>10
<1>14. Chain(T, r, n)
  BY <1>5, <1>7, <1>11, <1>12, <1>13 DEF Chain
<1>15. T[0] = u \o s
  BY <1>1, <1>9
<1>16. BytesAre(u \o s, r, n)
  BY <1>14, <1>15 DEF BytesAre
<1> QED BY <1>16 DEF r

\* u is the bytes of q, v those of all but the first.
FirstOf(u, q, n, v) ==
    /\ BytesAre(v, Tail(q), n + 1) /\ u = Sent(Head(q), n + 1) \o v /\ u # << >>
    /\ Head(u).k = n + 1 /\ Head(u).b = Head(q)[1]
    /\ Tail(u) = Tail(Sent(Head(q), n + 1)) \o v

(* The first byte of some keys is that of the first.                       *)
LEMMA FirstByte ==
    ASSUME NEW u, NEW q, NEW n, BytesAre(u, q, n), q # << >>
    PROVE  \E v : FirstOf(u, q, n, v)
<1>1. q \in Seq(Pieces) /\ n \in Nat
  BY BytesType
<1>2. PICK w : BytesAre(w, Tail(q), n + 1) /\ u = Sent(Head(q), n + 1) \o w
  BY FirstBytes
<1> DEFINE p == Head(q)
           s == Sent(p, n + 1)
<1>3. p \in Pieces /\ n + 1 \in Nat
  BY <1>1, HeadTailProperties
<1>4. w \in Wire
  BY <1>2, BytesType
<1> HIDE DEF p
<1>5. s \in Wire /\ s # << >>
  BY <1>3, SentType
<1>6. s[1] = [b |-> p[1], k |-> n + 1]
  <2>1. Len(p) \in Nat /\ Len(p) >= 1
    BY <1>3, PieceType
  <2>2. 1 \in 1..Len(p)
    BY <2>1
  <2> QED BY <1>3, <2>2, SentType
<1> HIDE DEF s
<1>7. s \o w # << >> /\ Head(s \o w) = Head(s) /\ Tail(s \o w) = Tail(s) \o w
  BY <1>4, <1>5, WireTake
<1>8. Head(s) = s[1]
  BY <1>5 DEF Wire
<1>9. Head(s).k = n + 1 /\ Head(s).b = p[1]
  BY <1>6, <1>8
<1>10. u = s \o w
  BY <1>2 DEF s, p
<1>11. u # << >> /\ Head(u).k = n + 1 /\ Head(u).b = p[1] /\ Tail(u) = Tail(s) \o w
  BY <1>7, <1>9, <1>10
<1>12. FirstOf(u, q, n, w)
  BY <1>10, <1>11, <1>2 DEF FirstOf, s, p
<1> QED BY <1>12

(* The rest of the terminal's answer is its own too.                       *)
LEMMA OwnTail ==
    ASSUME NEW a \in Wire, Own(a), a # << >>
    PROVE  Head(a).k = 0 /\ Own(Tail(a))
<1> DEFINE t == Tail(a)
<1>1. a \in Seq(Octet)
  BY DEF Wire, Octet
<1>2. /\ Len(a) \in Nat /\ Len(a) > 0 /\ Head(a) = a[1] /\ Len(t) = Len(a) - 1
      /\ \A i \in 1..Len(t) : t[i] = a[i + 1]
  BY <1>1, HeadTailProperties
<1>3. \A i \in 1..Len(a) : a[i].k = 0
  BY DEF Own
<1> HIDE DEF t
<1>4. ASSUME NEW i \in 1..Len(t) PROVE t[i].k = 0
  <2>1. i + 1 \in 1..Len(a) /\ t[i] = a[i + 1]
    BY <1>2
  <2> QED BY <1>3, <2>1
<1>5. Head(a).k = 0
  <2>1. 1 \in 1..Len(a)
    BY <1>2
  <2> QED BY <1>2, <1>3, <2>1
<1> QED BY <1>4, <1>5 DEF Own, t

\* What follows the first byte of a key, and the second.
TailOfKey(p, n) ==
    LET s == Sent(p, n)
        m == Len(p)
    IN  /\ m = 1 => Tail(s) = << >>
        /\ m > 1 => /\ Tail(s) \in Wire /\ Tail(s) # << >>
                    /\ Head(Tail(s)).k = n /\ Head(Tail(s)).b = p[2]
        /\ m > 2 => /\ Tail(Tail(s)) \in Wire /\ Tail(Tail(s)) # << >>
                    /\ Head(Tail(Tail(s))).k = n /\ Head(Tail(Tail(s))).b = p[3]
        /\ m = 3 => Tail(Tail(Tail(s))) = << >>

(* The bytes of a key one after another.                                   *)
LEMMA TailSent == ASSUME NEW p \in Pieces, NEW n \in Nat PROVE TailOfKey(p, n)
<1> DEFINE s == Sent(p, n)
           m == Len(p)
           t == Tail(s)
           z == Tail(t)
<1>1. s \in Seq(Octet) /\ s # << >> /\ Len(s) = m /\ m \in Nat /\ m >= 1
  BY PieceType, SentType DEF Wire, Octet
<1>2. \A i \in 1..m : s[i].k = n /\ s[i].b = p[i]
  <2>1. ASSUME NEW i \in 1..m PROVE s[i].k = n /\ s[i].b = p[i]
    <3>1. s[i] = [b |-> p[i], k |-> n]
      BY SentType
    <3> HIDE DEF s
    <3> QED BY <3>1
  <2> QED BY <2>1
<1> HIDE DEF s, m
<1>3. t \in Seq(Octet) /\ Len(t) = m - 1 /\ \A i \in 1..(m - 1) : t[i] = s[i + 1]
  BY <1>1, HeadTailProperties
<1> HIDE DEF t
<1>4. ASSUME m > 1
      PROVE  /\ t # << >> /\ Head(t).k = n /\ Head(t).b = p[2]
             /\ z \in Seq(Octet) /\ Len(z) = m - 2 /\ \A i \in 1..(m - 2) : z[i] = t[i + 1]
  <2>1. t # << >> /\ Head(t) = t[1]
    BY <1>1, <1>3, <1>4
  <2>2. t[1] = s[2]
    BY <1>1, <1>3, <1>4
  <2>3. s[2].k = n /\ s[2].b = p[2]
    BY <1>1, <1>2, <1>4
  <2>4. z \in Seq(Octet) /\ Len(z) = Len(t) - 1 /\ \A i \in 1..Len(z) : z[i] = t[i + 1]
    BY <1>3, <2>1, HeadTailProperties
  <2>5. Len(z) = m - 2
    BY <1>1, <1>3, <2>4
  <2> QED BY <2>1, <2>2, <2>3, <2>4, <2>5
<1> HIDE DEF z
<1>5. ASSUME m > 2
      PROVE  z # << >> /\ Head(z).k = n /\ Head(z).b = p[3] /\ Len(Tail(z)) = m - 3
             /\ Tail(z) \in Seq(Octet)
  <2>1. m > 1
    BY <1>1, <1>5
  <2>2. z \in Seq(Octet) /\ Len(z) = m - 2 /\ \A i \in 1..(m - 2) : z[i] = t[i + 1]
    BY <1>4, <2>1
  <2>3. z # << >> /\ Head(z) = z[1]
    BY <1>1, <1>5, <2>2
  <2>4. z[1] = t[2] /\ t[2] = s[3]
    BY <1>1, <1>3, <1>5, <2>2
  <2>5. s[3].k = n /\ s[3].b = p[3]
    BY <1>1, <1>2, <1>5
  <2>6. Tail(z) \in Seq(Octet) /\ Len(Tail(z)) = Len(z) - 1
    BY <2>2, <2>3, HeadTailProperties
  <2>7. Len(Tail(z)) = m - 3
    BY <1>1, <2>2, <2>6
  <2> QED BY <2>3, <2>4, <2>5, <2>6, <2>7
<1>6. m = 1 => t = << >>
  BY <1>3
<1>7. m = 3 => Tail(z) = << >>
  <2> DEFINE y == Tail(z)
  <2>1. m = 3 => y \in Seq(Octet) /\ Len(y) = 0
    BY <1>5
  <2> HIDE DEF y
  <2>2. m = 3 => y = << >>
    BY <2>1
  <2> QED BY <2>2 DEF y
<1>8. Wire = Seq(Octet)
  BY DEF Wire, Octet
<1>9. m > 1 => t \in Wire /\ t # << >> /\ Head(t).k = n /\ Head(t).b = p[2]
  BY <1>3, <1>4, <1>8
<1>10. m > 2 => z \in Wire /\ z # << >> /\ Head(z).k = n /\ Head(z).b = p[3]
  <2>1. m > 2 => z \in Seq(Octet)
    BY <1>1, <1>4
  <2> QED BY <1>5, <1>8, <2>1
<1> QED BY <1>6, <1>7, <1>9, <1>10 DEF TailOfKey, z, t, s, m

(* Nothing follows the second of two.                                      *)
LEMMA TailSecond ==
    ASSUME NEW p \in Pieces, NEW n \in Nat, Len(p) = 2
    PROVE  Tail(Tail(Sent(p, n))) = << >>
<1> DEFINE s == Sent(p, n)
           t == Tail(s)
           z == Tail(t)
<1>1. s \in Seq(Octet) /\ Len(s) = 2 /\ s # << >>
  BY SentType DEF Wire, Octet
<1> HIDE DEF s
<1>2. t \in Seq(Octet) /\ Len(t) = 1
  BY <1>1, HeadTailProperties
<1> HIDE DEF t
<1>3. z \in Seq(Octet) /\ Len(z) = 0
  BY <1>2, HeadTailProperties
<1> HIDE DEF z
<1>4. z = << >>
  BY <1>3
<1> QED BY <1>4 DEF z, t, s

\* Nothing is left of a key of one byte.
LEMMA OneByte ==
    ASSUME NEW u, NEW q, NEW n, NEW v, FirstOf(u, q, n, v), q # << >>, BytesAre(u, q, n),
           Len(Head(q)) = 1
    PROVE  BytesAre(v, Tail(q), n + 1) /\ Tail(u) = v
<1> DEFINE s == Sent(Head(q), n + 1)
<1>1. q \in Seq(Pieces) /\ n \in Nat
  BY BytesType
<1>2. Head(q) \in Pieces /\ n + 1 \in Nat
  BY <1>1, HeadTailProperties
<1>3. s \in Wire /\ Len(s) = 1
  BY <1>2, SentType
<1>4. BytesAre(v, Tail(q), n + 1) /\ Tail(u) = Tail(s) \o v
  BY DEF FirstOf
<1> HIDE DEF s
<1>5. Tail(s) = << >>
  BY <1>2, TailSent DEF TailOfKey, s
<1>6. v \in Wire
  BY <1>4, BytesType
<1>7. << >> \o v = v
  BY <1>6, WireEmpty
<1> QED BY <1>4, <1>5, <1>7

\* Pieces and nothing else.
LEMMA OnlyKeys == ASSUME NEW u, NEW q, NEW n, BytesAre(u, q, n) PROVE AtRest(u, q, n)
<1>1. u \in Wire
  BY BytesType
<1>2. << >> \in Wire /\ << >> \o u = u
  BY <1>1, WireEmpty
<1>3. Own(<< >>)
  BY DEF Own
<1> QED BY <1>2, <1>3 DEF AtRest

-----------------------------------------------------------------------------
(* What is read, and what is left then.                                    *)

\* A byte that is not a key's is the terminal's own.
LEMMA TakeOwn ==
    ASSUME NEW u, NEW q, NEW n, AtRest(u, q, n), u # << >>, Head(u).k = 0
    PROVE  AtRest(Tail(u), q, n)
<1>1. PICK a, v : a \in Wire /\ Own(a) /\ BytesAre(v, q, n) /\ u = a \o v
  BY DEF AtRest
<1>2. v \in Wire /\ n \in Nat /\ q \in Seq(Pieces)
  BY <1>1, BytesType
<1>3. a # << >>
  <2> SUFFICES ASSUME a = << >> PROVE FALSE
    OBVIOUS
  <2>1. u = v
    BY <1>1, <1>2, WireEmpty
  <2>2. q # << >>
    BY <1>1, <2>1, BytesType
  <2>3. PICK w : FirstOf(u, q, n, w)
    BY <1>1, <2>1, <2>2, FirstByte
  <2> QED BY <1>2, <2>3 DEF FirstOf
<1>4. Tail(a) \in Wire /\ Tail(u) = Tail(a) \o v
  BY <1>1, <1>2, <1>3, WireTake
<1>5. Own(Tail(a))
  BY <1>1, <1>3, OwnTail
<1> QED BY <1>1, <1>4, <1>5 DEF AtRest

\* A byte that is a key of its own.
LEMMA AtRestFirst ==
    ASSUME NEW u, NEW q, NEW n, AtRest(u, q, n), u # << >>, Head(u).k # 0
    PROVE  BytesAre(u, q, n) /\ q # << >>
<1>1. PICK a, v : a \in Wire /\ Own(a) /\ BytesAre(v, q, n) /\ u = a \o v
  BY DEF AtRest
<1>2. v \in Wire /\ (q = << >> => v = << >>)
  BY <1>1, BytesType
<1>3. a = << >>
  <2> SUFFICES ASSUME a # << >> PROVE FALSE
    OBVIOUS
  <2>1. Head(u) = Head(a)
    BY <1>1, <1>2, WireTake
  <2>2. Head(a).k = 0
    BY <1>1, OwnTail
  <2> QED BY <2>1, <2>2
<1>4. u = v
  BY <1>1, <1>2, <1>3, WireEmpty
<1> QED BY <1>1, <1>2, <1>4

\* Such a key is the next one, and read with that byte.
LEMMA TakeByte ==
    ASSUME NEW u, NEW q, NEW n, AtRest(u, q, n), u # << >>, Head(u).k # 0, Head(u).b # ESC
    PROVE  q # << >> /\ Returned(Head(q)) = Head(u).b /\ AtRest(Tail(u), Tail(q), n + 1)
<1>1. BytesAre(u, q, n) /\ q # << >>
  BY AtRestFirst
<1>2. PICK v : FirstOf(u, q, n, v)
  BY <1>1, FirstByte
<1> DEFINE p == Head(q)
<1>3. p[1] = Head(u).b
  BY <1>2 DEF FirstOf
<1>4. p \in Pieces
  <2>1. q \in Seq(Pieces)
    BY <1>1, BytesType
  <2> QED BY <1>1, <2>1, HeadTailProperties
<1>5. Len(p) = 1
  <2> HIDE DEF p
  <2> QED BY <1>3, <1>4, PieceType DEF Pieces
<1>6. Returned(p) = Head(u).b
  BY <1>3, <1>5, Zenon DEF Returned
<1>7. BytesAre(v, Tail(q), n + 1) /\ Tail(u) = v
  BY <1>1, <1>2, <1>5, OneByte
<1>8. AtRest(v, Tail(q), n + 1)
  BY <1>7, OnlyKeys
<1> QED BY <1>1, <1>6, <1>7, <1>8

\* The ESC of a key of several bytes, or of the key ESC.
LEMMA TakeEsc ==
    ASSUME NEW u, NEW q, NEW n, AtRest(u, q, n), u # << >>, Head(u).k # 0, Head(u).b = ESC
    PROVE  Head(u).k = n + 1 /\ Escaped(Tail(u), q, n)
<1>1. BytesAre(u, q, n) /\ q # << >>
  BY AtRestFirst
<1>2. PICK v : FirstOf(u, q, n, v)
  BY <1>1, FirstByte
<1>3. q \in Seq(Pieces)
  BY <1>1, BytesType
<1> QED BY <1>1, <1>2, <1>3 DEF FirstOf, Escaped

(* ESC for which nothing comes is the key ESC.                             *)
LEMMA EscAlone ==
    ASSUME NEW u, NEW q, NEW n, Escaped(u, q, n), \A i \in DOMAIN u : u[i].k # n + 1
    PROVE  q # << >> /\ Returned(Head(q)) = ESC /\ AtRest(u, Tail(q), n + 1)
<1>1. /\ q \in Seq(Pieces) /\ q # << >> /\ Head(q)[1] = ESC
      /\ \E v : BytesAre(v, Tail(q), n + 1) /\ u = Tail(Sent(Head(q), n + 1)) \o v
  BY DEF Escaped
<1>2. PICK v : BytesAre(v, Tail(q), n + 1) /\ u = Tail(Sent(Head(q), n + 1)) \o v
  BY <1>1
<1> DEFINE p == Head(q)
           s == Sent(p, n + 1)
           t == Tail(s)
<1>3. p \in Pieces /\ n + 1 \in Nat /\ v \in Wire
  BY <1>1, <1>2, HeadTailProperties, BytesType
<1> HIDE DEF p
<1>4. Len(p) = 1 \/ Len(p) > 1
  BY <1>3, PieceType, Zenon
<1>5. TailOfKey(p, n + 1)
  BY <1>3, TailSent
<1>6. Len(p) = 1
  <2> SUFFICES ASSUME Len(p) # 1 PROVE FALSE
    OBVIOUS
  <2>1. Len(p) > 1
    BY <1>4
  <2>2. t \in Wire /\ t # << >> /\ Head(t).k = n + 1
    BY <1>5, <2>1 DEF TailOfKey
  <2> HIDE DEF t
  <2>3. t \o v # << >> /\ Head(t \o v) = Head(t) /\ t \o v \in Wire
    BY <1>3, <2>2, WireTake, WireConcat
  <2>4. u = t \o v
    BY <1>2 DEF t, s, p
  <2>5. u # << >> /\ Head(u).k = n + 1 /\ u \in Wire
    BY <2>2, <2>3, <2>4
  <2>6. 1 \in DOMAIN u /\ Head(u) = u[1]
    BY <2>5 DEF Wire
  <2> QED BY <2>5, <2>6
<1>7. t = << >>
  BY <1>5, <1>6 DEF TailOfKey
<1>8. << >> \o v = v
  BY <1>3, WireEmpty
<1>9. u = v
  BY <1>2, <1>7, <1>8 DEF t, s, p
<1>10. p[1] = ESC
  BY <1>1 DEF p
<1>11. Returned(p) = ESC
  BY <1>6, <1>10, Zenon DEF Returned
<1>12. AtRest(v, Tail(q), n + 1)
  BY <1>2, OnlyKeys
<1> QED BY <1>1, <1>9, <1>11, <1>12 DEF p

(* A byte of the key that ESC began, if it is '[', is followed by more.    *)
LEMMA EscBracket ==
    ASSUME NEW u, NEW q, NEW n, Escaped(u, q, n), u # << >>, Head(u).k = n + 1,
           Head(u).b = "["
    PROVE  Bracketed(Tail(u), q, n)
<1>1. /\ q \in Seq(Pieces) /\ q # << >> /\ Head(q)[1] = ESC
      /\ \E v : BytesAre(v, Tail(q), n + 1) /\ u = Tail(Sent(Head(q), n + 1)) \o v
  BY DEF Escaped
<1>2. PICK v : BytesAre(v, Tail(q), n + 1) /\ u = Tail(Sent(Head(q), n + 1)) \o v
  BY <1>1
<1> DEFINE p == Head(q)
           s == Sent(p, n + 1)
           t == Tail(s)
<1>3. p \in Pieces /\ n + 1 \in Nat /\ v \in Wire
  BY <1>1, <1>2, HeadTailProperties, BytesType
<1>4. u = t \o v
  BY <1>2
<1> HIDE DEF p
<1>5. TailOfKey(p, n + 1)
  BY <1>3, TailSent
<1>6. Len(p) \in Nat /\ Len(p) >= 1
  BY <1>3, PieceType
<1>7. Len(p) > 1
  <2> SUFFICES ASSUME Len(p) = 1 PROVE FALSE
    BY <1>3, PieceType, Zenon
  <2>1. t = << >>
    BY <1>5 DEF TailOfKey
  <2>2. u = v
    BY <1>3, <1>4, <2>1, WireEmpty
  <2>3. BytesAre(v, Tail(q), n + 1) /\ Tail(q) # << >>
    BY <1>2, <2>2, BytesType
  <2>4. PICK w : FirstOf(v, Tail(q), n + 1, w)
    BY <2>3, FirstByte
  <2>5. Head(v).k = (n + 1) + 1
    BY <2>4 DEF FirstOf
  <2> QED BY <1>3, <2>2, <2>5
<1>8. t \in Wire /\ t # << >> /\ Head(t).b = p[2]
  BY <1>5, <1>6, <1>7 DEF TailOfKey
<1> HIDE DEF t
<1>9. Head(u) = Head(t) /\ Tail(u) = Tail(t) \o v
  BY <1>3, <1>4, <1>8, WireTake
<1>10. p[2] = "["
  BY <1>8, <1>9
<1>11. Len(p) = 3
  BY <1>3, <1>7, <1>10, PieceType DEF Begins
<1> QED BY <1>1, <1>2, <1>9, <1>10, <1>11 DEF Bracketed, t, s, p

(* If it is another it is the last, and they stand for ESC.                *)
LEMMA EscOther ==
    ASSUME NEW u, NEW q, NEW n, Escaped(u, q, n), u # << >>, Head(u).k = n + 1,
           Head(u).b # "["
    PROVE  q # << >> /\ Returned(Head(q)) = ESC /\ AtRest(Tail(u), Tail(q), n + 1)
<1>1. /\ q \in Seq(Pieces) /\ q # << >> /\ Head(q)[1] = ESC
      /\ \E v : BytesAre(v, Tail(q), n + 1) /\ u = Tail(Sent(Head(q), n + 1)) \o v
  BY DEF Escaped
<1>2. PICK v : BytesAre(v, Tail(q), n + 1) /\ u = Tail(Sent(Head(q), n + 1)) \o v
  BY <1>1
<1> DEFINE p == Head(q)
           s == Sent(p, n + 1)
           t == Tail(s)
<1>3. p \in Pieces /\ n + 1 \in Nat /\ v \in Wire
  BY <1>1, <1>2, HeadTailProperties, BytesType
<1>4. u = t \o v
  BY <1>2
<1> HIDE DEF p
<1>5. TailOfKey(p, n + 1)
  BY <1>3, TailSent
<1>6. Len(p) \in Nat /\ Len(p) >= 1
  BY <1>3, PieceType
<1>7. Len(p) > 1
  <2> SUFFICES ASSUME Len(p) = 1 PROVE FALSE
    BY <1>3, PieceType, Zenon
  <2>1. t = << >>
    BY <1>5 DEF TailOfKey
  <2>2. u = v
    BY <1>3, <1>4, <2>1, WireEmpty
  <2>3. BytesAre(v, Tail(q), n + 1) /\ Tail(q) # << >>
    BY <1>2, <2>2, BytesType
  <2>4. PICK w : FirstOf(v, Tail(q), n + 1, w)
    BY <2>3, FirstByte
  <2>5. Head(v).k = (n + 1) + 1
    BY <2>4 DEF FirstOf
  <2> QED BY <1>3, <2>2, <2>5
<1>8. t \in Wire /\ t # << >> /\ Head(t).b = p[2]
  BY <1>5, <1>6, <1>7 DEF TailOfKey
<1>9. Head(u) = Head(t) /\ Tail(u) = Tail(t) \o v
  <2> HIDE DEF t
  <2> QED BY <1>3, <1>4, <1>8, WireTake
<1>10. p[2] # "["
  BY <1>8, <1>9
<1>11. Len(p) = 2
  BY <1>3, <1>7, <1>10, PieceType DEF Begins
<1>12. Returned(p) = ESC
  <2>1. Len(p) # 1 /\ Begins(p) # 3
    BY <1>3, <1>11, PieceType
  <2> QED BY <2>1 DEF Returned
<1>13. Tail(t) = << >>
  BY <1>3, <1>11, TailSecond
<1>14. Tail(u) = v
  BY <1>3, <1>9, <1>13, WireEmpty
<1>15. AtRest(v, Tail(q), n + 1)
  BY <1>2, OnlyKeys
<1> QED BY <1>1, <1>12, <1>14, <1>15 DEF p

(* After ESC [ another byte of the same key is to come, its last.          *)
LEMMA BracketMore ==
    ASSUME NEW u, NEW q, NEW n, Bracketed(u, q, n)
    PROVE  /\ u # << >> /\ Head(u).k = n + 1 /\ 1 \in DOMAIN u /\ u[1].k = n + 1
           /\ q # << >> /\ AtRest(Tail(u), Tail(q), n + 1)
           /\ Returned(Head(q)) = IF Head(u).b \in DOMAIN Arrow THEN Arrow[Head(u).b] ELSE ESC
<1>1. /\ q \in Seq(Pieces) /\ q # << >> /\ Len(Head(q)) = 3 /\ Head(q)[2] = "["
      /\ \E v : BytesAre(v, Tail(q), n + 1) /\ u = Tail(Tail(Sent(Head(q), n + 1))) \o v
  BY DEF Bracketed
<1>2. PICK v : BytesAre(v, Tail(q), n + 1) /\ u = Tail(Tail(Sent(Head(q), n + 1))) \o v
  BY <1>1
<1> DEFINE p == Head(q)
           t == Tail(Tail(Sent(p, n + 1)))
<1>3. p \in Pieces /\ n + 1 \in Nat /\ v \in Wire
  BY <1>1, <1>2, HeadTailProperties, BytesType
<1>4. u = t \o v
  BY <1>2
<1> HIDE DEF p
<1>5. TailOfKey(p, n + 1)
  BY <1>3, TailSent
<1>6. Len(p) = 3 /\ p[2] = "["
  BY <1>1 DEF p
<1>7. t \in Wire /\ t # << >> /\ Head(t).k = n + 1 /\ Head(t).b = p[3]
  BY <1>5, <1>6 DEF TailOfKey
<1> HIDE DEF t
<1>8. t \o v # << >> /\ Head(t \o v) = Head(t) /\ Tail(t \o v) = Tail(t) \o v /\ t \o v \in Wire
  BY <1>3, <1>7, WireTake, WireConcat
<1>9. u # << >> /\ Head(u).k = n + 1 /\ Head(u).b = p[3] /\ u \in Wire
  BY <1>4, <1>7, <1>8
<1>10. 1 \in DOMAIN u /\ u[1] = Head(u)
  BY <1>9 DEF Wire
<1>11. AtRest(Tail(u), Tail(q), n + 1)
  <2>1. Tail(t) = << >>
    BY <1>5, <1>6 DEF TailOfKey, t
  <2>2. Tail(u) = v
    BY <1>3, <1>4, <1>8, <2>1, WireEmpty
  <2>3. AtRest(v, Tail(q), n + 1)
    BY <1>2, OnlyKeys
  <2> QED BY <2>2, <2>3
<1>12. Returned(p) = IF Head(u).b \in DOMAIN Arrow THEN Arrow[Head(u).b] ELSE ESC
  <2>1. Begins(p) = 3
    BY <1>3, <1>6, PieceType
  <2>2. p[3] = Head(u).b
    BY <1>9
  <2>3. Len(p) # 1
    <3>1. 3 # 1
      OBVIOUS
    <3> QED BY <1>6, <3>1, Zenon
  <2> QED BY <1>6, <2>1, <2>2, <2>3, Zenon DEF Returned
<1> QED BY <1>1, <1>9, <1>10, <1>11, <1>12 DEF p
-----------------------------------------------------------------------------
(* A key pressed, whatever the program waits for: s is its bytes, more what *)
(* they stand for.                                                         *)
LEMMA PressAtRest ==
    ASSUME NEW u, NEW q, NEW n, AtRest(u, q, n), NEW s, NEW more, BytesAre(s, more, n + Len(q))
    PROVE  AtRest(u \o s, q \o more, n)
<1>1. PICK a, v : a \in Wire /\ Own(a) /\ BytesAre(v, q, n) /\ u = a \o v
  BY DEF AtRest
<1>2. v \in Wire /\ s \in Wire
  BY <1>1, BytesType
<1>3. BytesAre(v \o s, q \o more, n)
  BY <1>1, MoreBytes
<1>4. (a \o v) \o s = a \o (v \o s)
  BY <1>1, <1>2, WireAssociative
<1> QED BY <1>1, <1>3, <1>4 DEF AtRest

\* The bytes that follow a key's first ones, after one more key.
Grows(q, more, n, t, v, s) ==
    /\ q \o more \in Seq(Pieces) /\ q \o more # << >>
    /\ Head(q \o more) = Head(q)
    /\ \E w : BytesAre(w, Tail(q \o more), n + 1) /\ (t \o v) \o s = t \o w

(* What was begun goes on as before, and ends with the new key.            *)
LEMMA PressBegun ==
    ASSUME NEW q \in Seq(Pieces), NEW n \in Nat, NEW t \in Wire, NEW v, NEW s, NEW more,
           q # << >>, BytesAre(v, Tail(q), n + 1), BytesAre(s, more, n + Len(q))
    PROVE  Grows(q, more, n, t, v, s)
<1> DEFINE r == q \o more
<1>1. more \in Seq(Pieces) /\ s \in Wire /\ v \in Wire
  BY BytesType
<1>2. r \in Seq(Pieces) /\ r # << >> /\ Head(r) = Head(q) /\ Tail(r) = Tail(q) \o more
  BY <1>1, ConcatProperties, HeadOfConcat, TailOfConcat
<1>3. Len(Tail(q)) = Len(q) - 1 /\ Len(q) \in Nat
  BY HeadTailProperties
<1>4. (n + 1) + Len(Tail(q)) = n + Len(q)
  BY <1>3
<1>5. BytesAre(v \o s, Tail(q) \o more, n + 1)
  BY <1>4, MoreBytes
<1> HIDE DEF r
<1>6. (t \o v) \o s = t \o (v \o s)
  BY <1>1, WireAssociative
<1>7. BytesAre(v \o s, Tail(r), n + 1)
  BY <1>2, <1>5
<1> QED BY <1>2, <1>6, <1>7 DEF Grows, r

(* A key pressed after ESC was read.                                       *)
LEMMA PressEscaped ==
    ASSUME NEW u, NEW q, NEW n, n \in Nat, Escaped(u, q, n), NEW s, NEW more,
           BytesAre(s, more, n + Len(q))
    PROVE  Escaped(u \o s, q \o more, n)
<1>1. /\ q \in Seq(Pieces) /\ q # << >> /\ Head(q)[1] = ESC
      /\ \E v : BytesAre(v, Tail(q), n + 1) /\ u = Tail(Sent(Head(q), n + 1)) \o v
  BY DEF Escaped
<1>2. PICK v : BytesAre(v, Tail(q), n + 1) /\ u = Tail(Sent(Head(q), n + 1)) \o v
  BY <1>1
<1> DEFINE t == Tail(Sent(Head(q), n + 1))
<1>3. t \in Wire
  <2>1. Head(q) \in Pieces /\ n + 1 \in Nat
    BY <1>1, HeadTailProperties
  <2>2. Sent(Head(q), n + 1) \in Wire /\ Sent(Head(q), n + 1) # << >>
    BY <2>1, SentType
  <2> QED BY <2>2, WireTake, WireEmpty
<1> HIDE DEF t
<1>4. u = t \o v
  BY <1>2 DEF t
<1>5. Grows(q, more, n, t, v, s)
  BY <1>1, <1>2, <1>3, PressBegun
<1>6. PICK w : BytesAre(w, Tail(q \o more), n + 1) /\ (t \o v) \o s = t \o w
  BY <1>5 DEF Grows
<1> DEFINE r == q \o more
           x == u \o s
<1>7. r \in Seq(Pieces) /\ r # << >> /\ Head(r) = Head(q) /\ BytesAre(w, Tail(r), n + 1)
  BY <1>5, <1>6 DEF Grows
<1>8. x = t \o w
  BY <1>4, <1>6
<1> HIDE DEF r, x
<1>9. t = Tail(Sent(Head(r), n + 1)) /\ Head(r)[1] = ESC
  BY <1>1, <1>7 DEF t
<1>10. Escaped(x, r, n)
  BY <1>7, <1>8, <1>9 DEF Escaped
<1> QED BY <1>10 DEF r, x

(* And after ESC [.                                                        *)
LEMMA PressBracketed ==
    ASSUME NEW u, NEW q, NEW n, n \in Nat, Bracketed(u, q, n), NEW s, NEW more,
           BytesAre(s, more, n + Len(q))
    PROVE  Bracketed(u \o s, q \o more, n)
<1>1. /\ q \in Seq(Pieces) /\ q # << >> /\ Len(Head(q)) = 3 /\ Head(q)[2] = "["
      /\ \E v : BytesAre(v, Tail(q), n + 1) /\ u = Tail(Tail(Sent(Head(q), n + 1))) \o v
  BY DEF Bracketed
<1>2. PICK v : BytesAre(v, Tail(q), n + 1) /\ u = Tail(Tail(Sent(Head(q), n + 1))) \o v
  BY <1>1
<1> DEFINE t == Tail(Tail(Sent(Head(q), n + 1)))
           x == Head(q)
<1>3. t \in Wire
  <2>1. x \in Pieces /\ n + 1 \in Nat
    BY <1>1, HeadTailProperties
  <2>2. TailOfKey(x, n + 1)
    BY <2>1, TailSent
  <2>3. Len(x) > 2
    <3>1. 3 > 2 /\ Len(x) = 3
      BY <1>1
    <3> QED BY <3>1, Zenon
  <2> HIDE DEF x
  <2> QED BY <2>2, <2>3 DEF TailOfKey, x
<1> HIDE DEF t
<1>4. u = t \o v
  BY <1>2 DEF t
<1>5. Grows(q, more, n, t, v, s)
  BY <1>1, <1>2, <1>3, PressBegun
<1>6. PICK w : BytesAre(w, Tail(q \o more), n + 1) /\ (t \o v) \o s = t \o w
  BY <1>5 DEF Grows
<1> DEFINE r == q \o more
           line == u \o s
<1>7. r \in Seq(Pieces) /\ r # << >> /\ Head(r) = Head(q) /\ BytesAre(w, Tail(r), n + 1)
  BY <1>5, <1>6 DEF Grows
<1>8. line = t \o w
  BY <1>4, <1>6
<1> HIDE DEF r, line
<1>9. t = Tail(Tail(Sent(Head(r), n + 1))) /\ Len(Head(r)) = 3 /\ Head(r)[2] = "["
  BY <1>1, <1>7 DEF t
<1>10. Bracketed(line, r, n)
  BY <1>7, <1>8, <1>9 DEF Bracketed
<1> QED BY <1>10 DEF r, line

(* What a key of one byte, or of several, sends.                           *)
LEMMA SendsType ==
    ASSUME NEW key \in Keys
    PROVE  LET b == Sends(key)
           IN  /\ b \in Seq(ByteValues) /\ Begins(b) \in {1, 2, 3} /\ Begins(b) <= Len(b)
               /\ Len(b) = 1 => Begins(b) = 1
               /\ Len(b) > 1 => b[1] = ESC /\ Begins(b) > 1
               /\ \A i \in (Begins(b) + 1)..Len(b) : b[i] # ESC
<1> DEFINE b == Sends(key)
<1>1. CASE key \in DOMAIN Bytes
  <2>1. b = Bytes[key]
    BY <1>1 DEF Sends
  <2>2. Lists(b) /\ Len(b) >= 2 /\ b[1] = ESC /\ Len(b) >= Begins(b)
        /\ \A i \in (Begins(b) + 1)..Len(b) : b[i] # ESC
    BY <1>1, <2>1, EscapesAssumption DEF KeysEscape, Escapes, ESC
  <2>3. \A i \in DOMAIN b : b[i] \in ByteValues
    <3>1. Of(Bytes[key]) \subseteq KeyValues
      BY <1>1, Zenon DEF KeyValues
    <3>2. \A i \in DOMAIN b : b[i] \in Of(b)
      BY Zenon DEF Of
    <3> QED BY <2>1, <3>1, <3>2, Zenon DEF ByteValues
  <2> HIDE DEF b
  <2>4. b = [i \in 1..Len(b) |-> b[i]] /\ Len(b) \in Nat
    BY <2>2 DEF Lists
  <2>5. b \in Seq(ByteValues)
    BY <2>3, <2>4
  <2>6. Begins(b) \in {2, 3}
    BY <2>2, <2>4 DEF Begins
  <2> QED BY <2>2, <2>5, <2>6 DEF b
<1>2. CASE key \notin DOMAIN Bytes
  <2>1. b = <<key>>
    BY <1>2 DEF Sends
  <2>2. key \in ByteValues
    BY DEF ByteValues
  <2> HIDE DEF b
  <2>3. b \in Seq(ByteValues) /\ Len(b) = 1
    BY <2>1, <2>2
  <2>4. Begins(b) = 1
    BY <2>3 DEF Begins
  <2> QED BY <2>3, <2>4 DEF b
<1> QED BY <1>1, <1>2

\* The bytes of a key and what they stand for, one after another.
Parts(b) == [j \in 1..(Len(b) - Begins(b) + 1) |->
                IF j = 1 THEN SubSeq(b, 1, Begins(b)) ELSE <<b[Begins(b) + j - 1]>>]

(* Each of them stands for one key.                                        *)
LEMMA PartsType ==
    ASSUME NEW key \in Keys
    PROVE  LET b == Sends(key)
           IN  /\ Parts(b) \in Seq(Pieces) /\ Len(Parts(b)) = Len(b) - Begins(b) + 1
               /\ StandsFor(b) = Means(Parts(b))
<1> DEFINE b == Sends(key)
           P == Parts(b)
           d == StandsFor(b)
           rest == SubSeq(b, Begins(b) + 1, Len(b))
<1>1. PICK h \in 1..3 : h = Begins(b)
  BY SendsType
<1>2. PICK m \in Nat : Len(b) = h + m
  <2>1. Len(b) \in Nat /\ h <= Len(b)
    BY <1>1, SendsType
  <2>2. Len(b) - h \in Nat /\ Len(b) = h + (Len(b) - h)
    BY <2>1
  <2> QED BY <2>2
<1>3. /\ b \in Seq(ByteValues) /\ (Len(b) = 1 => h = 1) /\ (Len(b) > 1 => b[1] = ESC /\ h > 1)
      /\ \A i \in (h + 1)..Len(b) : b[i] # ESC
  BY <1>1, SendsType
<1> HIDE DEF b
<1> DEFINE first == SubSeq(b, 1, h)
<1>4. first \in Seq(ByteValues) /\ Len(first) = h /\ \A i \in 1..h : first[i] = b[i]
  BY <1>2, <1>3
<1>5. rest \in Seq(ByteValues) /\ Len(rest) = m /\ \A i \in 1..m : rest[i] = b[h + i]
  BY <1>1, <1>2, <1>3
<1>6. Len(b) - h + 1 = m + 1
  BY <1>2
<1>7. P = [j \in 1..(m + 1) |-> IF j = 1 THEN first ELSE <<b[h + j - 1]>>]
  BY <1>1, <1>6 DEF Parts
<1>8. d = <<Returned(b)>> \o rest
  BY DEF StandsFor
<1> HIDE DEF first, rest
<1>9. Begins(first) = h /\ Returned(first) = Returned(b)
  <2>1. CASE h = 1
    <3>1. Len(b) = 1
      BY <1>2, <1>3, <2>1
    <3>2. Begins(first) = 1 /\ first[1] = b[1]
      BY <1>4, <2>1 DEF Begins
    <3> QED BY <1>4, <2>1, <3>1, <3>2 DEF Returned
  <2>2. CASE h # 1
    <3>1. Len(b) # 1 /\ Len(first) # 1 /\ first[2] = b[2]
      BY <1>2, <1>4, <2>2
    <3>2. Begins(first) = Begins(b)
      BY <3>1 DEF Begins
    <3>3. h = 3 => first[3] = b[3]
      BY <1>4
    <3> QED BY <1>1, <3>1, <3>2, <3>3 DEF Returned
  <2> QED BY <2>1, <2>2
<1>10. first \in Pieces
  <2>1. Len(first) > 1 => first[1] = ESC
    BY <1>2, <1>3, <1>4
  <2> QED BY <1>4, <1>9, <2>1 DEF Pieces
<1>11. ASSUME NEW j \in 1..(m + 1), j # 1
       PROVE  /\ P[j] = <<b[h + j - 1]>> /\ P[j] \in Pieces /\ Returned(P[j]) = b[h + j - 1]
              /\ rest[j - 1] = b[h + j - 1]
  <2> DEFINE x == b[h + j - 1]
             p == <<x>>
  <2>1. h + j - 1 \in 1..Len(b) /\ j - 1 \in 1..m /\ h + (j - 1) = h + j - 1
    BY <1>2, <1>11
  <2>2. x \in ByteValues
    BY <1>3, <2>1
  <2>3. rest[j - 1] = x
    BY <1>5, <2>1
  <2>4. P[j] = p
    BY <1>7, <1>11
  <2> HIDE DEF x, P
  <2>5. p \in Seq(ByteValues) /\ Len(p) = 1 /\ p[1] = x
    BY <2>2
  <2> HIDE DEF p
  <2>6. Begins(p) = 1 /\ Returned(p) = x
    BY <2>5 DEF Begins, Returned
  <2>7. p \in Pieces
    <3>1. 1 >= 1 /\ ~(1 > 1)
      OBVIOUS
    <3>2. Len(p) >= 1 /\ Len(p) = Begins(p) /\ ~(Len(p) > 1)
      BY <2>5, <2>6, <3>1, Zenon
    <3> QED BY <2>5, <3>2, Zenon DEF Pieces
  <2> QED BY <2>3, <2>4, <2>6, <2>7 DEF x, p
<1>12. P[1] = first
  BY <1>7
<1>13. P \in Seq(Pieces) /\ Len(P) = m + 1
  <2>1. \A j \in 1..(m + 1) : (IF j = 1 THEN first ELSE <<b[h + j - 1]>>) \in Pieces
    <3>1. ASSUME NEW j \in 1..(m + 1) PROVE (IF j = 1 THEN first ELSE <<b[h + j - 1]>>) \in Pieces
      <4>1. CASE j = 1
        BY <1>10, <4>1, Zenon
      <4>2. CASE j # 1
        <5>1. P[j] = <<b[h + j - 1]>> /\ P[j] \in Pieces
          BY <1>11, <4>2
        <5> HIDE DEF P
        <5> QED BY <4>2, <5>1, Zenon
      <4> QED BY <4>1, <4>2
    <3> QED BY <3>1
  <2> DEFINE f(j) == IF j = 1 THEN first ELSE <<b[h + j - 1]>>
  <2>2. P = [j \in 1..(m + 1) |-> f(j)] /\ \A j \in 1..(m + 1) : f(j) \in Pieces
    BY <1>7, <2>1
  <2> HIDE DEF f, P
  <2> QED BY <2>2
<1> HIDE DEF P
<1>14. d = Means(P)
  <2> DEFINE one == <<Returned(b)>>
             S == {Returned(b)} \cup ByteValues
  <2>1. one \in Seq(S) /\ Len(one) = 1 /\ one[1] = Returned(b)
    OBVIOUS
  <2>2. rest \in Seq(S)
    BY <1>5
  <2> HIDE DEF one, S
  <2> DEFINE w == one \o rest
  <2>3. /\ w \in Seq(S) /\ Len(w) = 1 + m
        /\ \A j \in 1..(1 + m) : w[j] = IF j <= 1 THEN one[j] ELSE rest[j - 1]
    <3>1. /\ w \in Seq(S) /\ Len(w) = Len(one) + Len(rest)
          /\ \A j \in 1..(Len(one) + Len(rest)) :
                w[j] = IF j <= Len(one) THEN one[j] ELSE rest[j - Len(one)]
      BY <2>1, <2>2, ConcatProperties
    <3>2. Len(one) = 1 /\ Len(rest) = m
      BY <1>5, <2>1
    <3> HIDE DEF w
    <3> QED BY <3>1, <3>2, Zenon
  <2>4. d = w
    BY <1>8 DEF one
  <2> HIDE DEF d, w
  <2>5. d \in Seq(S) /\ Len(d) = m + 1
    BY <2>3, <2>4
  <2>6. ASSUME NEW j \in 1..(m + 1) PROVE d[j] = Returned(P[j])
    <3>1. d[j] = IF j <= 1 THEN one[j] ELSE rest[j - 1]
      BY <2>3, <2>4
    <3>2. CASE j = 1
      BY <1>9, <1>12, <2>1, <3>1, <3>2
    <3>3. CASE j # 1
      <4>1. d[j] = rest[j - 1]
        BY <3>1, <3>3
      <4> QED BY <1>11, <3>3, <4>1
    <3> QED BY <3>2, <3>3
  <2>7. d = [j \in 1..(m + 1) |-> Returned(P[j])]
    <3>1. d = [j \in 1..(m + 1) |-> d[j]]
      BY <2>5
    <3> QED BY <2>6, <3>1
  <2> QED BY <1>13, <2>7 DEF Means
<1>15. Len(P) = Len(b) - Begins(b) + 1
  BY <1>1, <1>6, <1>13
<1> QED BY <1>13, <1>14, <1>15 DEF P, d, b

\* The part y of t behind g falls into s, of l members, and z, of k.
Joins(S, y, s, z, t, g, l, k) ==
    /\ y \in Seq(S) /\ s \in Seq(S) /\ z \in Seq(S) /\ g \in Nat /\ l \in Nat /\ k \in Nat
    /\ Len(s) = l /\ Len(z) = k /\ Len(y) = l + k
    /\ \A i \in 1..l : s[i] = t[g + i]
    /\ \A i \in 1..k : z[i] = t[(g + l) + i]
    /\ \A i \in 1..(l + k) : y[i] = t[g + i]

(* It is one after the other then.                                         *)
LEMMA InTwo ==
    ASSUME NEW S, NEW y, NEW s, NEW z, NEW t, NEW g, NEW l, NEW k, Joins(S, y, s, z, t, g, l, k)
    PROVE  y = s \o z
<1>0. /\ y \in Seq(S) /\ s \in Seq(S) /\ z \in Seq(S) /\ g \in Nat /\ l \in Nat /\ k \in Nat
      /\ Len(s) = l /\ Len(z) = k /\ Len(y) = l + k
      /\ \A i \in 1..l : s[i] = t[g + i]
      /\ \A i \in 1..k : z[i] = t[(g + l) + i]
      /\ \A i \in 1..(l + k) : y[i] = t[g + i]
  BY DEF Joins
<1> DEFINE w == s \o z
<1>1. /\ w \in Seq(S) /\ Len(w) = l + k
      /\ \A i \in 1..(l + k) : w[i] = IF i <= l THEN s[i] ELSE z[i - l]
  BY <1>0, ConcatProperties
<1> HIDE DEF w
<1>2. ASSUME NEW i \in 1..(l + k) PROVE y[i] = w[i]
  <2>1. CASE i <= l
    <3>1. w[i] = s[i] /\ i \in 1..l
      BY <1>0, <1>1, <2>1
    <3> QED BY <1>0, <3>1, Zenon
  <2>2. CASE ~(i <= l)
    <3>1. i - l \in 1..k /\ (g + l) + (i - l) = g + i
      BY <1>0, <2>2
    <3>2. z[i - l] = t[g + i]
      BY <1>0, <3>1
    <3> QED BY <1>0, <1>1, <2>2, <3>2
  <2> QED BY <2>1, <2>2
<1>3. y = w
  BY <1>0, <1>1, <1>2, SeqEqual
<1> QED BY <1>3 DEF w

(* The bytes of a key are those of its parts.                              *)
LEMMA PartsBytes ==
    ASSUME NEW key \in Keys, NEW n \in Nat
    PROVE  BytesAre(Numbered(Sends(key), n), Parts(Sends(key)), n)
<1> DEFINE b == Sends(key)
           P == Parts(b)
           t == Numbered(b, n)
<1>1. PICK h \in 1..3 : h = Begins(b)
  BY SendsType
<1>2. PICK m \in Nat : Len(b) = h + m
  <2>1. Len(b) \in Nat /\ h <= Len(b)
    BY <1>1, SendsType
  <2>2. Len(b) - h \in Nat /\ Len(b) = h + (Len(b) - h)
    BY <2>1
  <2> QED BY <2>2
<1>3. b \in Seq(ByteValues) /\ \A i \in 1..(h + m) : b[i] \in ByteValues
  BY <1>2, SendsType
<1>4. P \in Seq(Pieces) /\ Len(P) = m + 1
  <2>1. P \in Seq(Pieces) /\ Len(P) = Len(b) - Begins(b) + 1
    BY PartsType
  <2>2. Len(b) - Begins(b) + 1 = m + 1
    BY <1>1, <1>2
  <2> QED BY <2>1, <2>2
<1> HIDE DEF b
<1>5. P[1] = SubSeq(b, 1, h) /\ \A j \in 2..(m + 1) : P[j] = <<b[h + j - 1]>>
  <2>1. Len(b) - h + 1 = m + 1
    BY <1>2
  <2>2. P = [j \in 1..(m + 1) |-> IF j = 1 THEN SubSeq(b, 1, h) ELSE <<b[h + j - 1]>>]
    BY <1>1, <2>1 DEF Parts
  <2> HIDE DEF P
  <2> QED BY <2>2
<1>6. /\ t \in Seq(Octet) /\ Len(t) = h + m
      /\ \A i \in 1..(h + m) :
            t[i] = [b |-> b[i], k |-> n + (IF i <= h THEN 1 ELSE i - h + 1)]
  <2>1. t = [i \in 1..(h + m) |-> [b |-> b[i], k |-> n + (IF i <= h THEN 1 ELSE i - h + 1)]]
    BY <1>1, <1>2, <1>3 DEF Numbered
  <2>2. ASSUME NEW i \in 1..(h + m)
        PROVE  [b |-> b[i], k |-> n + (IF i <= h THEN 1 ELSE i - h + 1)] \in Octet
    <3>1. n + (IF i <= h THEN 1 ELSE i - h + 1) \in Nat
      OBVIOUS
    <3> QED BY <1>3, <3>1 DEF Octet
  <2> HIDE DEF t
  <2> QED BY <2>1, <2>2
<1> HIDE DEF P, t
<1> DEFINE from(j) == IF j = 0 THEN 0 ELSE h + j - 1
           R == [j \in 0..(m + 1) |-> SubSeq(t, from(j) + 1, h + m)]
<1>7. ASSUME NEW j \in 0..(m + 1)
      PROVE  /\ from(j) \in 0..(h + m) /\ R[j] \in Seq(Octet) /\ Len(R[j]) = h + m - from(j)
             /\ \A i \in 1..(h + m - from(j)) : R[j][i] = t[from(j) + i]
  <2>1. PICK f \in 0..(h + m) : f = from(j)
    OBVIOUS
  <2>2. R[j] = SubSeq(t, f + 1, h + m)
    BY <2>1
  <2> HIDE DEF from, R
  <2>3. SubSeq(t, f + 1, h + m) \in Seq(Octet) /\ Len(SubSeq(t, f + 1, h + m)) = h + m - f
        /\ \A i \in 1..(h + m - f) : SubSeq(t, f + 1, h + m)[i] = t[f + i]
    BY <1>6
  <2> QED BY <2>1, <2>2, <2>3
<1>8. from(0) = 0 /\ \A j \in 1..(m + 1) : from(j) = h + j - 1
  OBVIOUS
<1>9. Wire = Seq(Octet)
  BY DEF Wire, Octet
<1>10. R \in [0..(m + 1) -> Wire]
  <2>1. \A j \in 0..(m + 1) : R[j] \in Wire
    BY <1>7, <1>9
  <2>2. R = [j \in 0..(m + 1) |-> R[j]]
    OBVIOUS
  <2> HIDE DEF R
  <2> QED BY <2>1, <2>2
<1> HIDE DEF R, from
<1>11. R[0] = t
  <2>1. R[0] \in Seq(Octet) /\ Len(R[0]) = h + m /\ \A i \in 1..(h + m) : R[0][i] = t[i]
    BY <1>7, <1>8
  <2> QED BY <1>6, <2>1, SeqEqual
<1>12. R[m + 1] = << >>
  <2> DEFINE e == R[m + 1]
  <2>1. m + 1 \in 0..(m + 1) /\ from(m + 1) = h + (m + 1) - 1
    BY <1>8
  <2>2. h + m - (h + (m + 1) - 1) = 0
    OBVIOUS
  <2>3. e \in Seq(Octet) /\ Len(e) = h + m - from(m + 1)
    BY <1>7, <2>1
  <2> HIDE DEF e
  <2>4. e \in Seq(Octet) /\ Len(e) = 0
    BY <2>1, <2>2, <2>3, Zenon
  <2>5. e = << >>
    BY <2>4
  <2> QED BY <2>5 DEF e
<1>13. ASSUME NEW j \in 1..(m + 1) PROVE R[j - 1] = Sent(P[j], n + j) \o R[j]
  <2> DEFINE s == Sent(P[j], n + j)
    <2>1. P[j] \in Pieces /\ n + j \in Nat
    BY <1>4
  <2>2. s \in Seq(Octet) /\ Len(s) = Len(P[j]) /\ \A i \in 1..Len(P[j]) : s[i] = [b |-> P[j][i], k |-> n + j]
    BY <1>9, <2>1, SentType
  <2> HIDE DEF s
  <2> DEFINE i0 == j - 1
  <2>11. i0 \in 0..(m + 1) /\ j \in 0..(m + 1)
    OBVIOUS
  <2>12. from(i0) \in 0..(h + m)
    BY <1>7, <2>11, Zenon
  <2>3. PICK g \in 0..(h + m) : g = from(j - 1)
    BY <2>12
  <2>4. PICK l \in 1..3 : l = Len(P[j]) /\ from(j) = g + l
                          /\ \A i \in 1..l : s[i] = t[g + i]
    <3>1. CASE j = 1
      <4>1. g = 0 /\ from(j) = h
        BY <1>8, <2>3, <3>1
      <4>2. P[j] = SubSeq(b, 1, h)
        BY <1>5, <3>1
      <4>3. Len(P[j]) = h /\ \A i \in 1..h : P[j][i] = b[i]
        BY <1>2, <1>3, <4>2
      <4>4. ASSUME NEW i \in 1..h PROVE s[i] = t[g + i]
        <5>1. s[i] = [b |-> b[i], k |-> n + 1]
          BY <2>2, <3>1, <4>3
        <5>2. t[i] = [b |-> b[i], k |-> n + 1]
          BY <1>6
        <5> QED BY <4>1, <5>1, <5>2
      <4> QED BY <4>1, <4>3, <4>4
    <3>2. CASE j # 1
      <4>1. g = h + j - 2 /\ from(j) = h + j - 1
        <5>1. j - 1 \in 1..(m + 1)
          BY <3>2
        <5>2. from(j - 1) = h + (j - 1) - 1
          BY <1>8, <5>1
        <5> QED BY <1>8, <2>3, <5>2
      <4>2. P[j] = <<b[h + j - 1]>>
        BY <1>5, <3>2
      <4>3. Len(P[j]) = 1 /\ P[j][1] = b[h + j - 1]
        BY <4>2
      <4>4. s[1] = [b |-> b[h + j - 1], k |-> n + j]
        BY <2>2, <4>3
      <4>5. t[h + j - 1] = [b |-> b[h + j - 1], k |-> n + j]
        <5>1. PICK i \in 1..(h + m) : i = h + j - 1
          BY <3>2
        <5>2. ~(i <= h) /\ n + (i - h + 1) = n + j
          BY <3>2, <5>1
        <5>3. t[i] = [b |-> b[i], k |-> n + j]
          BY <1>6, <5>2
        <5> QED BY <5>1, <5>3
      <4>6. g + 1 = h + j - 1 /\ from(j) = g + 1
        BY <4>1
      <4> QED BY <4>3, <4>4, <4>5, <4>6
    <3> QED BY <3>1, <3>2
  <2>5. PICK k \in Nat : h + m = g + l + k
    <3>1. from(j) \in 0..(h + m) /\ from(j) = g + l
      BY <1>7, <2>4, <2>11, Zenon
    <3>2. PICK f \in 0..(h + m) : f = g + l
      BY <3>1, Zenon
    <3>3. h + m - f \in Nat /\ h + m = f + (h + m - f)
      OBVIOUS
    <3>4. h + m - f \in Nat /\ h + m = g + l + (h + m - f)
      BY <3>2, <3>3, Zenon
    <3> QED BY <3>4, Zenon
  <2> DEFINE y == R[j - 1]
             z == R[j]
  <2>6. /\ y \in Seq(Octet) /\ Len(y) = l + k
        /\ \A i \in 1..(l + k) : y[i] = t[g + i]
    <3>1. /\ y \in Seq(Octet) /\ Len(y) = h + m - from(i0)
          /\ \A i \in 1..(h + m - from(i0)) : y[i] = t[from(i0) + i]
      BY <1>7, <2>11
    <3>2. h + m - from(i0) = l + k /\ from(i0) = g
      <4>1. h + m - g = l + k
        BY <2>5
      <4> QED BY <2>3, <4>1, Zenon
    <3> HIDE DEF y, i0
    <3> QED BY <3>1, <3>2, Zenon
  <2>7. /\ z \in Seq(Octet) /\ Len(z) = k
        /\ \A i \in 1..k : z[i] = t[(g + l) + i]
    <3>1. /\ z \in Seq(Octet) /\ Len(z) = h + m - from(j)
          /\ \A i \in 1..(h + m - from(j)) : z[i] = t[from(j) + i]
      BY <1>7, <2>11
    <3>2. h + m - from(j) = k /\ from(j) = g + l
      <4>1. h + m - (g + l) = k
        BY <2>5
      <4> QED BY <2>4, <4>1, Zenon
    <3> HIDE DEF z
    <3> QED BY <3>1, <3>2, Zenon
  <2>8. s \in Seq(Octet) /\ Len(s) = l /\ \A i \in 1..l : s[i] = t[g + i]
    BY <2>2, <2>4
  <2>9. g \in Nat /\ l \in Nat
    OBVIOUS
  <2> HIDE DEF y, z
  <2>10. Joins(Octet, y, s, z, t, g, l, k)
    BY ONLY <2>5, <2>6, <2>7, <2>8, <2>9, Zenon DEF Joins
  <2>13. y = s \o z
    BY <2>10, InTwo
  <2> QED BY <2>13 DEF y, z, s
<1>14. Chain(R, P, n)
  BY <1>4, <1>10, <1>12, <1>13 DEF Chain
<1>15. BytesAre(t, P, n)
  BY <1>11, <1>14 DEF BytesAre
<1> QED BY <1>15 DEF t, P, b

(* What two sequences stand for, one after the other.                      *)
LEMMA MeansConcat ==
    ASSUME NEW q \in Seq(Pieces), NEW more \in Seq(Pieces)
    PROVE  Means(q \o more) = Means(q) \o Means(more) /\ q \o more \in Seq(Pieces)
<1> DEFINE r == q \o more
           d == Means(q)
           e == Means(more)
           f == Means(r)
           g == d \o e
<1>1. PICK m \in Nat, l \in Nat : Len(q) = m /\ Len(more) = l
  OBVIOUS
<1>2. /\ r \in Seq(Pieces) /\ Len(r) = m + l
      /\ \A i \in 1..(m + l) : r[i] = IF i <= m THEN q[i] ELSE more[i - m]
  BY <1>1, ConcatProperties
<1>3. d \in Seq(Given) /\ Len(d) = m /\ \A i \in 1..m : d[i] = Returned(q[i])
  <2>1. d \in Seq(Given) /\ Len(d) = m
    BY <1>1, MeansTail
  <2> QED BY <1>1, <2>1 DEF Means
<1>4. e \in Seq(Given) /\ Len(e) = l /\ \A i \in 1..l : e[i] = Returned(more[i])
  <2>1. e \in Seq(Given) /\ Len(e) = l
    BY <1>1, MeansTail
  <2> QED BY <1>1, <2>1 DEF Means
<1> HIDE DEF r
<1>5. f \in Seq(Given) /\ Len(f) = m + l /\ \A i \in 1..(m + l) : f[i] = Returned(r[i])
  <2>1. f \in Seq(Given) /\ Len(f) = m + l
    BY <1>2, MeansTail
  <2> QED BY <1>2, <2>1 DEF Means
<1> HIDE DEF d, e, f
<1>6. /\ g \in Seq(Given) /\ Len(g) = m + l
      /\ \A i \in 1..(m + l) : g[i] = IF i <= m THEN d[i] ELSE e[i - m]
  BY <1>3, <1>4, ConcatProperties
<1> HIDE DEF g
<1>7. ASSUME NEW i \in 1..(m + l) PROVE f[i] = g[i]
  <2>1. CASE i <= m
    BY <1>2, <1>3, <1>5, <1>6, <2>1
  <2>2. CASE i > m
    <3>1. i - m \in 1..l /\ ~(i <= m)
      BY <2>2
    <3> QED BY <1>2, <1>4, <1>5, <1>6, <3>1
  <2> QED BY <2>1, <2>2
<1>8. f = g
  BY <1>5, <1>6, <1>7, SeqEqual
<1> QED BY <1>2, <1>8 DEF f, g, d, e, r
-----------------------------------------------------------------------------
(* The invariant.                                                          *)
LEMMA LineTypes ==
    ASSUME LineOK
    PROVE  /\ owed \in Seq(Given) /\ Len(owed) \in Nat /\ pressed \in Nat
           /\ pressed - Len(owed) \in Nat /\ arrived \o coming \in Wire
BY WireConcat DEF LineOK

\* Of the first byte in waiting.
LEMMA Taken ==
    ASSUME LineOK, arrived # << >>
    PROVE  /\ arrived \o coming # << >> /\ Head(arrived \o coming) = Head(arrived)
           /\ Tail(arrived) \in Wire /\ Tail(arrived) \o coming = Tail(arrived \o coming)
BY WireTake DEF LineOK

\* What is unread stands for the key c and what follows it in d.
Leaves(c, u, d, n) ==
    \E q \in Seq(Pieces) :
        d = Means(q) /\ q # << >> /\ Returned(Head(q)) = c /\ AtRest(u, Tail(q), n + 1)

(* The program waits for the next key then.                                *)
LEMMA LeavesRest ==
    ASSUME NEW c, NEW u, NEW d, NEW n, Leaves(c, u, d, n)
    PROVE  d # << >> /\ Head(d) = c /\ InOrder("key", u, Tail(d), n + 1, current')
<1>1. PICK q \in Seq(Pieces) :
        d = Means(q) /\ q # << >> /\ Returned(Head(q)) = c /\ AtRest(u, Tail(q), n + 1)
  BY DEF Leaves
<1>2. d # << >> /\ Head(d) = c /\ Tail(d) = Means(Tail(q)) /\ Tail(q) \in Seq(Pieces)
  BY <1>1, MeansTail
<1>3. Unread("key", u, Tail(q), n + 1, current')
  BY <1>1 DEF Unread
<1> QED BY <1>2, <1>3 DEF InOrder

(* At first there is only the terminal's answer.                           *)
LEMMA OrderInit == Init => OrderInv
<1> SUFFICES ASSUME Init PROVE OrderInv
  OBVIOUS
<1>1. user \in DOMAIN Users /\ answer \in Users[user].answers
  BY DEF Init
<1>2. Tagged(answer.bytes, 0) \in Wire /\ Own(Tagged(answer.bytes, 0))
  BY <1>1, AnswerBytes
<1>3. /\ coming = Tagged(answer.bytes, 0) /\ arrived = << >> /\ pressed = 0 /\ owed = << >>
      /\ wrong = FALSE /\ pc = "ask"
  BY DEF Init
<1>4. coming \in Wire /\ Own(coming) /\ arrived \in Wire /\ arrived \o coming = coming
  <2>1. coming \in Wire /\ Own(coming)
    BY <1>2, <1>3
  <2>2. << >> \in Wire /\ << >> \o coming = coming
    BY <2>1, WireEmpty
  <2> QED BY <1>3, <2>1, <2>2, Zenon
<1>5. Len(owed) = 0 /\ owed \in Seq(Given) /\ pressed - Len(owed) = 0
  <2>1. owed = << >> /\ pressed = 0
    BY <1>3
  <2>2. Len(owed) = 0 /\ owed \in Seq(Given)
    BY <2>1
  <2>3. 0 - 0 = 0
    OBVIOUS
  <2> QED BY <2>1, <2>2, <2>3, Zenon
<1>6. LineOK
  BY <1>1, <1>3, <1>4, <1>5 DEF LineOK
<1>7. AtRest(coming, << >>, 0)
  <2>1. BytesAre(<< >>, << >>, 0)
    BY NoBytes
  <2>2. coming = coming \o << >>
    BY <1>4, WireEmpty
  <2> QED BY <1>4, <2>1, <2>2 DEF AtRest
<1>8. Unread(pc, arrived \o coming, << >>, pressed - Len(owed), current)
  BY <1>3, <1>4, <1>5, <1>7 DEF Unread
<1>9. owed = Means(<< >>) /\ << >> \in Seq(Pieces)
  BY <1>3 DEF Means
<1>10. InOrder(pc, arrived \o coming, owed, pressed - Len(owed), current)
  BY <1>8, <1>9 DEF InOrder
<1> QED BY <1>3, <1>6, <1>10 DEF OrderInv, OrderOK

\* A key read that is the next one leaves the others.
LEMMA ReadsInOrder ==
    ASSUME LineOK, NEW c, Reads(c), UNCHANGED <<user, pressed>>, arrived' \in Wire, coming' \in Wire,
           ~raced' => ~wrong /\ Leaves(c, arrived' \o coming', owed, pressed - Len(owed))
    PROVE  OrderInv'
<1>1. /\ owed' = (IF owed = << >> THEN owed ELSE Tail(owed))
      /\ wrong' = (wrong \/ owed = << >> \/ Head(owed) # c) /\ pc' = "key"
  BY DEF Reads
<1>2. owed \in Seq(Given) /\ Len(owed) \in Nat /\ pressed \in Nat /\ Len(owed) <= pressed
  BY LineTypes DEF LineOK
<1>3. owed # << >> => /\ Tail(owed) \in Seq(Given) /\ Len(Tail(owed)) = Len(owed) - 1
                      /\ Len(owed) >= 1
  BY <1>2, HeadTailProperties
<1>4. owed' \in Seq(Given) /\ Len(owed') <= pressed
  <2>1. CASE owed = << >>
    BY <1>1, <1>2, <2>1
  <2>2. CASE owed # << >>
    <3>1. owed' = Tail(owed)
      BY <1>1, <2>2
    <3> QED BY <1>2, <1>3, <2>2, <3>1
  <2> QED BY <2>1, <2>2
<1>5. LineOK'
  BY <1>2, <1>4 DEF LineOK
<1>6. ASSUME ~raced' PROVE ~wrong' /\ InOrder(pc', arrived' \o coming', owed', pressed' - Len(owed'), current')
  <2>1. owed # << >> /\ Head(owed) = c /\ ~wrong
        /\ InOrder("key", arrived' \o coming', Tail(owed), (pressed - Len(owed)) + 1, current')
    BY <1>6, LeavesRest
  <2>2. owed' = Tail(owed) /\ ~wrong'
    BY <1>1, <2>1
  <2>3. pressed' - Len(owed') = (pressed - Len(owed)) + 1
    <3>1. Len(owed') = Len(owed) - 1 /\ pressed' = pressed
      BY <1>3, <2>1, <2>2
    <3> QED BY <1>2, <3>1
  <2> QED BY <1>1, <2>1, <2>2, <2>3
<1> QED BY <1>5, <1>6 DEF OrderInv, OrderOK

\* A step that reads no key leaves all of them.
LEMMA QuietInOrder ==
    ASSUME LineOK, UNCHANGED <<owed, wrong, user, pressed>>, arrived' \in Wire, coming' \in Wire,
           ~raced' => ~wrong /\ InOrder(pc', arrived' \o coming', owed, pressed - Len(owed), current')
    PROVE  OrderInv'
BY DEF OrderInv, OrderOK, LineOK

(* The first byte of a key is read (term_getch).                           *)
LEMMA GetFirstOrder == ASSUME OrderInv, GetFirst PROVE OrderInv'
<1> DEFINE n == pressed - Len(owed)
           u == arrived \o coming
           c == Head(arrived).b
<1>1. /\ pc = "key" /\ arrived # << >> /\ arrived' = Tail(arrived)
      /\ current' = Mine /\ raced' = (raced \/ Mine = 0)
      /\ IF c = ESC THEN pc' = "esc" /\ polls' = Polls /\ Quiet ELSE Reads(c)
      /\ UNCHANGED <<coming, user, pressed>>
  BY DEF GetFirst, Takes
<1>2. LineOK
  BY DEF OrderInv
<1>3. /\ u # << >> /\ Head(u) = Head(arrived)
      /\ arrived' \in Wire /\ coming' \in Wire /\ arrived' \o coming' = Tail(u)
  BY <1>1, <1>2, Taken DEF LineOK
<1>4. ASSUME ~raced'
      PROVE  /\ ~wrong /\ Head(u).k # 0 /\ Head(u).k = current'
             /\ \E q \in Seq(Pieces) : owed = Means(q) /\ AtRest(u, q, n)
  <2>1. ~raced => ~wrong /\ InOrder(pc, u, owed, n, current)
    BY DEF OrderInv, OrderOK
  <2>2. ~wrong /\ InOrder(pc, u, owed, n, current)
    BY <1>1, <1>4, <2>1
  <2>3. PICK q \in Seq(Pieces) : owed = Means(q) /\ Unread(pc, u, q, n, current)
    BY <2>2 DEF InOrder
  <2>4. AtRest(u, q, n)
    BY <1>1, <2>3 DEF Unread
  <2>5. Head(u).k # 0 /\ Head(u).k = current'
    BY <1>1, <1>3, <1>4 DEF Mine
  <2> QED BY <2>2, <2>3, <2>4, <2>5
<1> HIDE DEF u, n
<1>5. CASE c = ESC
  <2>1. ASSUME ~raced' PROVE ~wrong /\ InOrder(pc', arrived' \o coming', owed, n, current')
    <3>1. PICK q \in Seq(Pieces) : owed = Means(q) /\ AtRest(u, q, n)
      BY <1>4, <2>1
    <3>2. current' = n + 1 /\ Escaped(Tail(u), q, n)
      BY <1>3, <1>4, <1>5, <2>1, <3>1, TakeEsc
    <3>3. Unread(pc', arrived' \o coming', q, n, current')
      BY <1>1, <1>3, <1>5, <3>2 DEF Unread
    <3> QED BY <1>4, <2>1, <3>1, <3>3 DEF InOrder
  <2>2. UNCHANGED <<owed, wrong, user, pressed>>
    BY <1>1, <1>5 DEF Quiet
  <2> QED BY <1>2, <1>3, <2>1, <2>2, QuietInOrder DEF n
<1>6. CASE c # ESC
  <2>1. ASSUME ~raced' PROVE ~wrong /\ Leaves(c, arrived' \o coming', owed, n)
    <3>1. PICK q \in Seq(Pieces) : owed = Means(q) /\ AtRest(u, q, n)
      BY <1>4, <2>1
    <3>2. q # << >> /\ Returned(Head(q)) = c /\ AtRest(Tail(u), Tail(q), n + 1)
      BY <1>3, <1>4, <1>6, <2>1, <3>1, TakeByte
    <3> QED BY <1>3, <1>4, <2>1, <3>1, <3>2 DEF Leaves
  <2>2. Reads(c) /\ UNCHANGED <<user, pressed>>
    BY <1>1, <1>6
  <2> HIDE DEF c
  <2> QED BY <1>2, <1>3, <2>1, <2>2, ReadsInOrder DEF n
<1> QED BY <1>5, <1>6

(* The next byte of a key is read, in time.                                *)
LEMMA GetNextOrder == ASSUME OrderInv, GetNext PROVE OrderInv'
<1> DEFINE n == pressed - Len(owed)
           u == arrived \o coming
           c == Head(arrived).b
<1>1. /\ pc \in {"esc", "bracket"} /\ arrived # << >> /\ arrived' = Tail(arrived)
      /\ raced' = (raced \/ Mine # current)
      /\ IF pc = "bracket" THEN Letter(c)
         ELSE IF c = "[" THEN pc' = "bracket" /\ polls' = Polls /\ Quiet
         ELSE Reads(ESC)
      /\ UNCHANGED <<coming, user, pressed, current>>
  BY DEF GetNext, Takes
<1>2. LineOK
  BY DEF OrderInv
<1>3. /\ u # << >> /\ Head(u) = Head(arrived)
      /\ arrived' \in Wire /\ coming' \in Wire /\ arrived' \o coming' = Tail(u)
  BY <1>1, <1>2, Taken DEF LineOK
<1>4. ~raced' => ~wrong /\ Head(u).k = current /\ InOrder(pc, u, owed, n, current)
  <2>1. ~raced => ~wrong /\ InOrder(pc, u, owed, n, current)
    BY DEF OrderInv, OrderOK
  <2> QED BY <1>1, <1>3, <2>1 DEF Mine
<1> HIDE DEF u, n
<1>5. CASE pc = "bracket"
  <2>1. PICK d : Reads(d) /\ d = IF c \in DOMAIN Arrow THEN Arrow[c] ELSE ESC
    BY <1>1, <1>5 DEF Letter
  <2>2. ASSUME ~raced' PROVE ~wrong /\ Leaves(d, arrived' \o coming', owed, n)
    <3>1. PICK q \in Seq(Pieces) : owed = Means(q) /\ Unread(pc, u, q, n, current)
      BY <1>4, <2>2 DEF InOrder
    <3>2. Bracketed(u, q, n)
      BY <1>5, <3>1 DEF Unread
    <3>3. /\ q # << >> /\ AtRest(Tail(u), Tail(q), n + 1)
          /\ Returned(Head(q)) = IF Head(u).b \in DOMAIN Arrow THEN Arrow[Head(u).b] ELSE ESC
      BY <3>2, BracketMore
    <3>4. Returned(Head(q)) = d
      BY <1>3, <2>1, <3>3
    <3> QED BY <1>3, <1>4, <2>2, <3>1, <3>3, <3>4 DEF Leaves
  <2>3. UNCHANGED <<user, pressed>>
    BY <1>1
  <2> QED BY <1>2, <1>3, <2>1, <2>2, <2>3, ReadsInOrder DEF n
<1>6. CASE pc = "esc" /\ c = "["
  <2>1. pc' = "bracket" /\ current' = current /\ UNCHANGED <<owed, wrong, user, pressed>>
    BY <1>1, <1>6 DEF Quiet
  <2>2. ASSUME ~raced' PROVE ~wrong /\ InOrder(pc', arrived' \o coming', owed, n, current')
    <3>1. PICK q \in Seq(Pieces) : owed = Means(q) /\ Unread(pc, u, q, n, current)
      BY <1>4, <2>2 DEF InOrder
    <3>2. current = n + 1 /\ Escaped(u, q, n)
      BY <1>6, <3>1 DEF Unread
    <3>3. Bracketed(Tail(u), q, n)
      BY <1>3, <1>4, <1>6, <2>2, <3>2, EscBracket
    <3>4. Unread(pc', arrived' \o coming', q, n, current')
      BY <1>3, <2>1, <3>2, <3>3 DEF Unread
    <3> QED BY <1>4, <2>2, <3>1, <3>4 DEF InOrder
  <2> QED BY <1>2, <1>3, <2>1, <2>2, QuietInOrder DEF n
<1>7. CASE pc = "esc" /\ c # "["
  <2>1. Reads(ESC) /\ UNCHANGED <<user, pressed>>
    BY <1>1, <1>7
  <2>2. ASSUME ~raced' PROVE ~wrong /\ Leaves(ESC, arrived' \o coming', owed, n)
    <3>1. PICK q \in Seq(Pieces) : owed = Means(q) /\ Unread(pc, u, q, n, current)
      BY <1>4, <2>2 DEF InOrder
    <3>2. current = n + 1 /\ Escaped(u, q, n)
      BY <1>7, <3>1 DEF Unread
    <3>3. q # << >> /\ Returned(Head(q)) = ESC /\ AtRest(Tail(u), Tail(q), n + 1)
      BY <1>3, <1>4, <1>7, <2>2, <3>2, EscOther
    <3> QED BY <1>3, <1>4, <2>2, <3>1, <3>3 DEF Leaves
  <2> QED BY <1>2, <1>3, <2>1, <2>2, ReadsInOrder DEF n
<1> QED BY <1>1, <1>5, <1>6, <1>7

(* It is waited for in vain.                                               *)
LEMMA PollKeyOrder == ASSUME OrderInv, PollKey PROVE OrderInv'
<1> DEFINE n == pressed - Len(owed)
           u == arrived \o coming
<1>1. /\ pc \in {"esc", "bracket"} /\ arrived = << >>
      /\ \/ pc' = pc /\ raced' = raced /\ Quiet
         \/ Reads(ESC) /\ raced' = (raced \/ \E i \in DOMAIN coming : coming[i].k = current)
      /\ UNCHANGED <<coming, arrived, user, pressed, current>>
  BY DEF PollKey
<1>2. LineOK
  BY DEF OrderInv
<1>3. /\ arrived' \in Wire /\ coming' \in Wire /\ arrived' \o coming' = u /\ u = coming
  BY <1>1, <1>2, WireEmpty DEF LineOK
<1>4. ~raced => ~wrong /\ InOrder(pc, u, owed, n, current)
  BY DEF OrderInv, OrderOK
<1> HIDE DEF u, n
<1>5. CASE pc' = pc /\ raced' = raced /\ Quiet
  <2>1. UNCHANGED <<owed, wrong, user, pressed>> /\ current' = current
    BY <1>1, <1>5 DEF Quiet
  <2>2. ~raced' => ~wrong /\ InOrder(pc', arrived' \o coming', owed, n, current')
    BY <1>3, <1>4, <1>5, <2>1
  <2> QED BY <1>2, <1>3, <2>1, <2>2, QuietInOrder DEF n
<1>6. CASE Reads(ESC) /\ raced' = (raced \/ \E i \in DOMAIN coming : coming[i].k = current)
  <2>1. ASSUME ~raced' PROVE ~wrong /\ Leaves(ESC, arrived' \o coming', owed, n)
    <3>1. ~wrong /\ InOrder(pc, u, owed, n, current) /\ \A i \in DOMAIN u : u[i].k # current
      BY <1>3, <1>4, <1>6, <2>1
    <3>2. PICK q \in Seq(Pieces) : owed = Means(q) /\ Unread(pc, u, q, n, current)
      BY <3>1 DEF InOrder
    <3>3. CASE pc = "esc"
      <4>1. current = n + 1 /\ Escaped(u, q, n)
        BY <3>2, <3>3 DEF Unread
      <4>2. \A i \in DOMAIN u : u[i].k # n + 1
        BY <3>1, <4>1
      <4>3. q # << >> /\ Returned(Head(q)) = ESC /\ AtRest(u, Tail(q), n + 1)
        BY <4>1, <4>2, EscAlone
      <4> QED BY <1>3, <3>1, <3>2, <4>3 DEF Leaves
    <3>4. CASE pc = "bracket"
      <4>1. current = n + 1 /\ Bracketed(u, q, n)
        BY <3>2, <3>4 DEF Unread
      <4>2. 1 \in DOMAIN u /\ u[1].k = n + 1
        BY <4>1, BracketMore
      <4> QED BY <3>1, <4>1, <4>2
    <3> QED BY <1>1, <3>3, <3>4
  <2>2. UNCHANGED <<user, pressed>>
    BY <1>1
  <2> QED BY <1>2, <1>3, <1>6, <2>1, <2>2, ReadsInOrder DEF n
<1> QED BY <1>1, <1>5, <1>6

(* A byte is read as one of the answer (term_getsize).                     *)
LEMMA GetReplyOrder == ASSUME OrderInv, GetReply PROVE OrderInv'
<1> DEFINE n == pressed - Len(owed)
           u == arrived \o coming
<1>1. /\ pc \in {"ask", "reply"} /\ pc' \in {"key", "reply"}
      /\ arrived # << >> /\ arrived' = Tail(arrived)
      /\ raced' = (raced \/ Mine # 0)
      /\ owed' = IF Mine # 0 /\ owed # << >> THEN Tail(owed) ELSE owed
      /\ UNCHANGED <<coming, user, pressed, current, wrong>>
  BY DEF GetReply, Takes
<1>2. LineOK
  BY DEF OrderInv
<1>3. /\ u # << >> /\ Head(u) = Head(arrived)
      /\ arrived' \in Wire /\ coming' \in Wire /\ arrived' \o coming' = Tail(u)
  BY <1>1, <1>2, Taken DEF LineOK
<1>4. ~raced => ~wrong /\ InOrder(pc, u, owed, n, current)
  BY DEF OrderInv, OrderOK
<1> HIDE DEF u, n
<1>5. CASE Mine = 0
  <2>1. owed' = owed
    BY <1>1, <1>5
  <2>4. ASSUME ~raced' PROVE ~wrong /\ InOrder(pc', arrived' \o coming', owed, n, current')
    <3>1. ~wrong /\ InOrder(pc, u, owed, n, current)
      BY <1>1, <1>4, <2>4
    <3>2. PICK q \in Seq(Pieces) : owed = Means(q) /\ Unread(pc, u, q, n, current)
      BY <3>1 DEF InOrder
    <3>3. AtRest(u, q, n)
      BY <1>1, <3>2 DEF Unread
    <3>4. AtRest(Tail(u), q, n)
      BY <1>3, <1>5, <3>3, TakeOwn DEF Mine
    <3>5. Unread(pc', arrived' \o coming', q, n, current')
      BY <1>1, <1>3, <3>4 DEF Unread
    <3> QED BY <3>1, <3>2, <3>5 DEF InOrder
  <2> QED BY <1>1, <1>2, <1>3, <2>1, <2>4, QuietInOrder DEF n
<1>6. CASE Mine # 0
  <2>1. owed \in Seq(Given) /\ Len(owed) \in Nat /\ pressed \in Nat /\ Len(owed) <= pressed
    BY <1>2, LineTypes DEF LineOK
  <2>2. owed # << >> => Tail(owed) \in Seq(Given) /\ Len(Tail(owed)) = Len(owed) - 1
    BY <2>1, HeadTailProperties
  <2>3. owed' \in Seq(Given) /\ Len(owed') <= pressed
    <3>1. CASE owed = << >>
      BY <1>1, <2>1, <3>1
    <3>2. CASE owed # << >>
      <4>1. owed' = Tail(owed)
        BY <1>1, <1>6, <3>2
      <4> QED BY <2>1, <2>2, <3>2, <4>1
    <3> QED BY <3>1, <3>2
  <2>4. LineOK' /\ raced'
    BY <1>1, <1>2, <1>3, <1>6, <2>3 DEF LineOK
  <2> QED BY <2>4 DEF OrderInv, OrderOK
<1> QED BY <1>5, <1>6

(* A key is pressed.                                                       *)
LEMMA PressOrder == ASSUME OrderInv, Press PROVE OrderInv'
<1> DEFINE n == pressed - Len(owed)
           u == arrived \o coming
<1>1. PICK key \in Users[user].keys :
        /\ coming' = coming \o Numbered(Sends(key), pressed)
        /\ owed' = owed \o StandsFor(Sends(key))
        /\ pressed' = pressed + Len(StandsFor(Sends(key)))
  BY DEF Press
<1>2. UNCHANGED <<arrived, pc, user, current, raced, wrong>>
  BY DEF Press, program, told
<1>3. LineOK
  BY DEF OrderInv
<1>4. key \in Keys
  BY <1>3, Zenon DEF LineOK, Keys
<1>5. /\ owed \in Seq(Given) /\ Len(owed) \in Nat /\ pressed \in Nat /\ n \in Nat /\ u \in Wire
      /\ Len(owed) <= pressed
  BY <1>3, LineTypes DEF LineOK
<1> DEFINE s == Numbered(Sends(key), pressed)
           more == Parts(Sends(key))
           d == StandsFor(Sends(key))
<1>6. more \in Seq(Pieces) /\ d = Means(more)
  BY <1>4, PartsType
<1>7. BytesAre(s, more, pressed)
  BY <1>4, <1>5, PartsBytes
<1>8. s \in Wire
  BY <1>7, BytesType
<1>9. coming' = coming \o s /\ owed' = owed \o d /\ pressed' = pressed + Len(d)
  BY <1>1
<1> HIDE DEF s, more, d
<1>10. d \in Seq(Given) /\ Len(d) \in Nat
  BY <1>6, MeansTail
<1>11. Len(owed') = Len(owed) + Len(d) /\ owed' \in Seq(Given)
  BY <1>5, <1>9, <1>10, ConcatProperties
<1>12. Len(owed') <= pressed' /\ pressed' - Len(owed') = n /\ pressed' \in Nat
  BY <1>5, <1>9, <1>10, <1>11
<1>13. pressed = n + Len(owed)
  BY <1>5
<1>14. coming' \in Wire /\ arrived' \o coming' = u \o s
  <2>1. coming \in Wire /\ arrived \in Wire
    BY <1>3 DEF LineOK
  <2>2. coming \o s \in Wire /\ (arrived \o coming) \o s = arrived \o (coming \o s)
    BY <1>8, <2>1, WireConcat, WireAssociative
  <2> QED BY <1>2, <1>9, <2>2
<1>15. ~raced => ~wrong /\ InOrder(pc, u, owed, n, current)
  BY DEF OrderInv, OrderOK
<1> HIDE DEF u, n
<1>16. LineOK'
  BY <1>2, <1>3, <1>11, <1>12, <1>14 DEF LineOK
<1>17. ASSUME ~raced' PROVE ~wrong' /\ InOrder(pc', arrived' \o coming', owed', pressed' - Len(owed'), current')
  <2>1. ~wrong' /\ InOrder(pc, u, owed, n, current)
    BY <1>2, <1>15, <1>17
  <2>2. PICK q \in Seq(Pieces) : owed = Means(q) /\ Unread(pc, u, q, n, current)
    BY <2>1 DEF InOrder
  <2>3. Len(owed) = Len(q)
    BY <2>2, MeansTail
  <2>4. BytesAre(s, more, n + Len(q))
    BY <1>7, <1>13, <2>3
  <2>5. AtRest(u, q, n) => AtRest(u \o s, q \o more, n)
    BY <2>4, PressAtRest
  <2>6. Escaped(u, q, n) => Escaped(u \o s, q \o more, n)
    BY <1>5, <2>4, PressEscaped
  <2>7. Bracketed(u, q, n) => Bracketed(u \o s, q \o more, n)
    BY <1>5, <2>4, PressBracketed
  <2>8. Unread(pc, u \o s, q \o more, n, current)
    BY <2>2, <2>5, <2>6, <2>7 DEF Unread
  <2>9. owed' = Means(q \o more) /\ q \o more \in Seq(Pieces)
    BY <1>6, <1>9, <2>2, MeansConcat
  <2> QED BY <1>2, <1>12, <1>14, <2>1, <2>8, <2>9 DEF InOrder
<1> QED BY <1>16, <1>17 DEF OrderInv, OrderOK

(* A byte arrives.                                                         *)
LEMMA ArriveOrder == ASSUME OrderInv, Arrive PROVE OrderInv'
<1>1. /\ coming # << >> /\ arrived' = Append(arrived, Head(coming)) /\ coming' = Tail(coming)
      /\ UNCHANGED <<pc, user, pressed, owed, current, raced, wrong>>
  BY DEF Arrive, program, told
<1>2. LineOK
  BY DEF OrderInv
<1>3. arrived \in Seq(Octet) /\ coming \in Seq(Octet) /\ Wire = Seq(Octet)
  BY <1>2 DEF LineOK, Wire, Octet
<1>4. arrived' \in Wire /\ coming' \in Wire /\ arrived' \o coming' = arrived \o coming
  BY <1>1, <1>3, MoveOne
<1>5. ~raced => ~wrong /\ InOrder(pc, arrived \o coming, owed, pressed - Len(owed), current)
  BY DEF OrderInv, OrderOK
<1>6. ~raced' => ~wrong /\ InOrder(pc', arrived' \o coming', owed, pressed - Len(owed), current')
  BY <1>1, <1>4, <1>5
<1> QED BY <1>1, <1>2, <1>4, <1>6, QuietInOrder

(* Every step keeps the keys in order.                                     *)
LEMMA OrderStep == OrderInv /\ [Next]_vars => OrderInv'
<1> SUFFICES ASSUME OrderInv, [Next]_vars PROVE OrderInv'
  OBVIOUS
<1>1. CASE PollReply
  <2>1. UNCHANGED <<arrived, coming, owed, wrong, user, pressed, current, raced>>
        /\ pc = "ask" /\ pc' \in {"ask", "key"}
    BY <1>1 DEF PollReply, Quiet
  <2>2. LineOK /\ (~raced => ~wrong /\ InOrder(pc, arrived \o coming, owed, pressed - Len(owed), current))
    BY DEF OrderInv, OrderOK
  <2>3. InOrder(pc, arrived \o coming, owed, pressed - Len(owed), current) =>
          InOrder(pc', arrived \o coming, owed, pressed - Len(owed), current)
    BY <2>1 DEF InOrder, Unread
  <2>4. arrived' \in Wire /\ coming' \in Wire
    BY <2>1, <2>2 DEF LineOK
  <2>5. ~raced' => ~wrong /\ InOrder(pc', arrived' \o coming', owed, pressed - Len(owed), current')
    BY <2>1, <2>2, <2>3
  <2> QED BY <2>1, <2>2, <2>4, <2>5, QuietInOrder
<1>2. CASE UNCHANGED vars
  BY <1>2 DEF vars, program, told, OrderInv, OrderOK, LineOK
<1> QED
  BY <1>1, <1>2, GetFirstOrder, GetNextOrder, PollKeyOrder, GetReplyOrder, PressOrder, ArriveOrder
     DEF Next, Program

(* Unless bytes come too late or are taken for those of another key or of   *)
(* the answer, the editor is given what the keys pressed stand for, each    *)
(* once and in order (term_getch), and the size query takes none of them:   *)
(* an arrow for an arrow key, and for any other sequence ESC and the bytes  *)
(* that term_getch leaves behind it.                                        *)
THEOREM KeysAreInOrder == Spec => []KeysInOrder
<1>1. OrderInv => KeysInOrder
  BY DEF OrderInv, OrderOK, KeysInOrder
<1>2. OrderInv /\ [Next]_vars => OrderInv'
  BY OrderStep
<1> QED BY <1>1, <1>2, OrderInit, PTL DEF Spec
-----------------------------------------------------------------------------
(* The size the terminal tells.                                            *)

(* A size of 16 bits is read as it is.                                     *)
LEMMA WrapIs == ASSUME NEW n \in 0..MAXINT PROVE Wrap(n) = n
<1> DEFINE m == 2 * (MAXINT + 1)
           k == n + MAXINT + 1
<1>1. MAXINT \in Nat
  BY KeyboardAssumption
<1>2. m \in Nat /\ m > 0 /\ k \in 0..(m - 1)
  BY <1>1
<1>3. Wrap(n) = (k % m) - (MAXINT + 1)
  BY DEF Wrap
<1>4. k % m = k
  <2> HIDE DEF m, k
  <2> QED BY <1>2
<1> QED BY <1>1, <1>3, <1>4

(* A least member is the one that Min picks.                               *)
LEMMA MinOf ==
    ASSUME NEW T, T \subseteq Int, NEW a \in T, \A x \in T : a <= x
    PROVE  Min(T) = a
<1>1. \E x \in T : \A y \in T : x <= y
  OBVIOUS
<1>2. Min(T) \in T /\ \A y \in T : Min(T) <= y
  BY <1>1 DEF Min
<1>3. Min(T) <= a /\ a <= Min(T) /\ Min(T) \in Int /\ a \in Int
  BY <1>2
<1> QED BY <1>3

\* The digits of b that stand from x to y, and nothing but digits do.
Run(b, x, y) == \A i \in x..y : b[i] \in DOMAIN Digit

\* The places from x to n that D does not follow.
Ends(D, n, x) == {j \in x..n : j + 1 \notin D}

(* The digits from a place on end where the first other byte is.           *)
LEMMA RunEnds ==
    ASSUME NEW n \in Nat, NEW x \in Nat, NEW y \in Nat, x <= y, y < n, NEW D,
           D \subseteq 1..n, \A i \in x..y : i \in D, y + 1 \notin D
    PROVE  Min(Ends(D, n, x)) = y
<1> DEFINE T == {j \in x..n : j + 1 \notin D}
<1>1. T \subseteq Int /\ y \in T
  OBVIOUS
<1>2. ASSUME NEW j \in T PROVE y <= j
  <2>1. j \in x..n /\ j + 1 \notin D
    OBVIOUS
  <2>2. CASE j < y
    <3>1. j + 1 \in x..y
      BY <2>1, <2>2
    <3> QED BY <2>1, <3>1
  <2> QED BY <2>1, <2>2
<1> HIDE DEF T
<1>3. Min(T) = y
  BY <1>1, <1>2, MinOf
<1> QED BY <1>3 DEF T, Ends

(* Rows and columns are what is read of a report (term_getsize).           *)
LEMMA ReportedIs ==
    ASSUME NEW S, NEW b \in Seq(S), NEW m \in 4..(Len(b) - 2),
           b[1] \notin DOMAIN Digit, b[2] \notin DOMAIN Digit, b[m] \notin DOMAIN Digit,
           b[Len(b)] \notin DOMAIN Digit, Run(b, 3, m - 1), Run(b, m + 1, Len(b) - 1)
    PROVE  Reported(b) = <<Wrap(NumberOf(SubSeq(b, 3, m - 1))),
                           Wrap(NumberOf(SubSeq(b, m + 1, Len(b) - 1)))>>
<1> DEFINE n == Len(b)
           D == {i \in 1..n : b[i] \in DOMAIN Digit}
           digits(i) == i \in DOMAIN b /\ b[i] \in DOMAIN Digit
           starts == {i \in DOMAIN b : digits(i) /\ ~digits(i - 1)}
           second == starts \ {Min(starts)}
<1>1. n \in Nat /\ m \in Nat /\ 4 <= m /\ m <= n - 2 /\ DOMAIN b = 1..n
  OBVIOUS
<1> HIDE DEF n
<1>2. D = (3..(m - 1)) \cup ((m + 1)..(n - 1))
  <2>1. /\ \A i \in 3..(m - 1) : b[i] \in DOMAIN Digit
        /\ \A i \in (m + 1)..(n - 1) : b[i] \in DOMAIN Digit
        /\ b[1] \notin DOMAIN Digit /\ b[2] \notin DOMAIN Digit
        /\ b[m] \notin DOMAIN Digit /\ b[n] \notin DOMAIN Digit
    BY DEF Run, n
  <2>2. ASSUME NEW i \in 1..n
        PROVE  b[i] \in DOMAIN Digit <=> i \in (3..(m - 1)) \cup ((m + 1)..(n - 1))
    <3>1. i \in 3..(m - 1) \/ i \in (m + 1)..(n - 1) \/ i = 1 \/ i = 2 \/ i = m \/ i = n
      BY <1>1
    <3> QED BY <1>1, <2>1, <3>1
  <2>3. (3..(m - 1)) \cup ((m + 1)..(n - 1)) \subseteq 1..n
    BY <1>1
  <2> QED BY <2>2, <2>3
<1>3. \A i : digits(i) <=> i \in D
  BY <1>1
<1> HIDE DEF D, digits
<1>4. starts = {3, m + 1}
  <2>1. starts = {i \in 1..n : i \in D /\ i - 1 \notin D}
    BY <1>1, <1>3
  <2> QED BY <1>1, <1>2, <2>1
<1> HIDE DEF starts, second
<1>5. Min(starts) = 3
  <2>1. starts \subseteq Int /\ 3 \in starts /\ \A x \in starts : 3 <= x
    BY <1>1, <1>4
  <2> QED BY <2>1, MinOf
<1>6. second = {m + 1}
  BY <1>1, <1>4, <1>5 DEF second
<1>7. Min(second) = m + 1
  <2>1. second \subseteq Int /\ m + 1 \in second /\ \A x \in second : m + 1 <= x
    BY <1>1, <1>6
  <2> QED BY <2>1, MinOf
<1>8. Cardinality(starts) = 2
  <2>1. 3 # m + 1 /\ starts = {3} \cup {m + 1}
    BY <1>1, <1>4
  <2>2. IsFiniteSet({3}) /\ Cardinality({3}) = 1
    BY FS_Singleton
  <2>3. m + 1 \notin {3}
    BY <2>1
  <2>4. Cardinality({3} \cup {m + 1}) = 1 + 1
    BY <2>2, <2>3, FS_AddElement
  <2> QED BY <2>1, <2>4
<1>9. Min(Ends(D, n, 3)) = m - 1 /\ Min(Ends(D, n, m + 1)) = n - 1
  <2>1. D \subseteq 1..n /\ m \notin D /\ n \notin D
    BY <1>1, <1>2
  <2>2. Min(Ends(D, n, 3)) = m - 1
    <3>1. /\ 3 \in Nat /\ m - 1 \in Nat /\ 3 <= m - 1 /\ m - 1 < n
          /\ (\A i \in 3..(m - 1) : i \in D) /\ (m - 1) + 1 \notin D
      BY <1>1, <1>2, <2>1
    <3> QED BY ONLY <1>1, <2>1, <3>1, RunEnds
  <2>3. Min(Ends(D, n, m + 1)) = n - 1
    <3>1. /\ m + 1 \in Nat /\ n - 1 \in Nat /\ m + 1 <= n - 1 /\ n - 1 < n
          /\ (\A i \in (m + 1)..(n - 1) : i \in D) /\ (n - 1) + 1 \notin D
      BY <1>1, <1>2, <2>1
    <3> QED BY ONLY <1>1, <2>1, <3>1, RunEnds
  <2> QED BY <2>2, <2>3
<1>10. \A i : {j \in i..Len(b) : ~digits(j + 1)} = Ends(D, n, i)
  BY <1>3 DEF n, Ends
<1> DEFINE run(i) == SubSeq(b, i, Min({j \in i..Len(b) : ~digits(j + 1)}))
<1>11. run(3) = SubSeq(b, 3, m - 1) /\ run(m + 1) = SubSeq(b, m + 1, n - 1)
  BY <1>9, <1>10, Zenon
<1> HIDE DEF run
<1>12. Reported(b) = IF Cardinality(starts) < 2 THEN <<0, 0>>
                     ELSE <<Wrap(NumberOf(run(Min(starts)))), Wrap(NumberOf(run(Min(second))))>>
  BY Zenon DEF Reported, run, digits, starts, second
<1>13. ~(Cardinality(starts) < 2)
  BY <1>8
<1> QED BY <1>5, <1>7, <1>11, <1>12, <1>13 DEF n

\* What stands between ESC [ and R.
Numeric == DOMAIN Digit \cup {";"}

\* The bytes of B from i to k are the beginning of a report.
Begun(B, i, k) ==
    /\ i \in 1..k /\ B[i] = ESC
    /\ i < k => B[i + 1] = "["
    /\ \A j \in (i + 2)..k : B[j] \in Numeric

\* After the first k bytes of B a report that has begun is in the buffer.
HasHeard(state, buf, B, k) ==
    \A i \in 1..k : Begun(B, i, k) =>
        buf = SubSeq(B, i, k) /\ state = IF i = k THEN "esc" ELSE "report"

(* A piece made one longer.                                                *)
LEMMA PieceGrows ==
    ASSUME NEW S, NEW B \in Seq(S), NEW k \in Nat, k + 1 <= Len(B), NEW i \in 1..k
    PROVE  Append(SubSeq(B, i, k), B[k + 1]) = SubSeq(B, i, k + 1)
<1> DEFINE p == SubSeq(B, i, k)
           q == SubSeq(B, i, k + 1)
           z == Append(p, B[k + 1])
           n == k - i + 1
<1>1. i \in Nat /\ 1 <= i /\ i <= k /\ n \in Nat /\ Len(B) \in Nat
  OBVIOUS
<1>2. \A j \in 1..Len(B) : B[j] \in S
  OBVIOUS
<1>3. p \in Seq(S) /\ Len(p) = n /\ \A j \in 1..n : p[j] = B[i + j - 1]
  BY <1>1, <1>2, SubSeqProperties
<1>4. q \in Seq(S) /\ Len(q) = n + 1 /\ \A j \in 1..(n + 1) : q[j] = B[i + j - 1]
  BY <1>1, <1>2, SubSeqProperties
<1> HIDE DEF p, q, n
<1>5. B[k + 1] \in S
  BY <1>1, <1>2
<1>6. z \in Seq(S) /\ Len(z) = n + 1 /\ z[n + 1] = B[k + 1] /\ \A j \in 1..n : z[j] = p[j]
  BY <1>3, <1>5, AppendProperties
<1> HIDE DEF z
<1>7. ASSUME NEW j \in 1..(n + 1) PROVE z[j] = q[j]
  <2>1. j \in 1..n \/ (j = n + 1 /\ i + j - 1 = k + 1)
    BY <1>1 DEF n
  <2> QED BY <1>3, <1>4, <1>6, <2>1
<1>8. z = q
  BY ONLY <1>4, <1>6, <1>7, SeqEqual
<1> QED BY <1>8 DEF z, p, q

(* A byte of a report that has begun is added to it.                       *)
LEMMA HearsMore ==
    ASSUME NEW S, NEW B \in Seq(S), NEW k \in Nat, k + 1 <= Len(B), NEW state, NEW buf,
           HasHeard(state, buf, B, k), NEW h, h = Hears(state, buf, B[k + 1])
    PROVE  HasHeard(h.state, h.buf, B, k + 1)
<1> DEFINE c == B[k + 1]
<1>1. ASSUME NEW i \in 1..(k + 1), Begun(B, i, k + 1)
      PROVE  h.buf = SubSeq(B, i, k + 1) /\ h.state = IF i = k + 1 THEN "esc" ELSE "report"
  <2>1. CASE i = k + 1
    <3>1. c = ESC
      BY <1>1, <2>1 DEF Begun
    <3>2. h = [state |-> "esc", buf |-> <<ESC>>]
      BY <3>1, DigitsAssumption DEF Hears, ESC, Values
    <3>3. SubSeq(B, k + 1, k + 1) = <<c>>
      <4> DEFINE x == k + 1
                 p == SubSeq(B, x, x)
      <4>1. x \in Int /\ x <= x /\ x - x + 1 = 1 /\ x + 1 - 1 = x /\ \A j \in x..x : B[j] \in S
        OBVIOUS
      <4> HIDE DEF x
      <4>2. p \in Seq(S) /\ Len(p) = 1 /\ p[1] = B[x]
        BY <4>1, SubSeqProperties
      <4> HIDE DEF p
      <4>3. p = <<B[x]>>
        BY <4>2
      <4> QED BY <4>3 DEF p, x
    <3> QED BY <2>1, <3>1, <3>2, <3>3
  <2>2. CASE i \in 1..k
    <3>1. Begun(B, i, k) /\ B[i] = ESC
      BY <1>1, <2>2 DEF Begun
    <3>2. buf = SubSeq(B, i, k) /\ state = IF i = k THEN "esc" ELSE "report"
      BY <2>2, <3>1 DEF HasHeard
    <3>3. h = [state |-> "report", buf |-> Append(buf, c)]
      <4>1. CASE i = k
        <5>1. c = "[" /\ state = "esc"
          BY <1>1, <2>2, <3>2, <4>1 DEF Begun
        <5> QED BY <5>1 DEF Hears, ESC
      <4>2. CASE i # k
        <5>1. k + 1 \in (i + 2)..(k + 1)
          BY <2>2, <4>2
        <5>2. c \in Numeric /\ state = "report"
          BY <1>1, <3>2, <4>2, <5>1 DEF Begun
        <5>3. c # "ESC" /\ c # "R" /\ c # "["
          BY <5>2, DigitsAssumption DEF Numeric, Values
        <5> QED BY <5>2, <5>3 DEF Hears, ESC, Numeric
      <4> QED BY <4>1, <4>2
    <3>4. Append(buf, c) = SubSeq(B, i, k + 1)
      BY <2>2, <3>2, PieceGrows
    <3>5. i # k + 1
      BY <2>2
    <3> QED BY <3>3, <3>4, <3>5
  <2> QED BY <2>1, <2>2
<1> QED BY <1>1 DEF HasHeard

(* Only R makes a report whole, and it does.                               *)
LEMMA HearsWhole ==
    ASSUME NEW state, NEW buf, NEW c, NEW h, h = Hears(state, buf, c)
    PROVE  /\ h.state = "whole" => c = "R"
           /\ state = "report" /\ c = "R" => h = [state |-> "whole", buf |-> Append(buf, c)]
BY DigitsAssumption DEF Hears, ESC, Values

(* A piece with nothing but digits in it.                                  *)
LEMMA DigitsRun ==
    ASSUME NEW S, NEW b \in Seq(S), NEW x \in Nat, NEW y \in Nat, 1 <= x, x <= y, y <= Len(b),
           ToSet(SubSeq(b, x, y)) \subseteq DOMAIN Digit
    PROVE  Run(b, x, y)
<1> DEFINE p == SubSeq(b, x, y)
           n == y - x + 1
<1>1. \A j \in x..y : b[j] \in S
  OBVIOUS
<1>2. p \in Seq(S) /\ Len(p) = n /\ \A j \in 1..n : p[j] = b[x + j - 1]
  BY <1>1, SubSeqProperties
<1>3. ToSet(p) \subseteq DOMAIN Digit
  OBVIOUS
<1> HIDE DEF p
<1>4. ASSUME NEW j \in x..y PROVE b[j] \in DOMAIN Digit
  <2> DEFINE q == j - x + 1
  <2>1. q \in 1..n /\ x + q - 1 = j
    OBVIOUS
  <2> HIDE DEF q, n
  <2>2. q \in DOMAIN p /\ p[q] = b[j]
    BY <1>2, <2>1
  <2> QED BY <1>3, <2>2 DEF ToSet
<1> QED BY <1>4 DEF Run

\* The place g of a sequence is a place of the piece of length d from f on, and
\* there not one of the first two nor the last.
InPiece(f, d, g) == \E x \in 3..(d - 1) : f + x - 1 = g

(* So are all but the first two and the last.                              *)
LEMMA PlaceInPiece ==
    ASSUME NEW f \in Nat, NEW e \in Nat, NEW d \in Nat, d = e - f + 1, NEW g \in (f + 2)..(e - 1)
    PROVE  InPiece(f, d, g)
<1>1. \E x \in 3..(d - 1) : f + x - 1 = g
  <2> WITNESS g - f + 1 \in 3..(d - 1)
  <2> QED OBVIOUS
<1> QED BY <1>1 DEF InPiece

\* s is the size read of a report, or the default for one with a 0.
ReadsAs(b, s) ==
    \E r, c \in 0..MAXINT :
        Reported(b) = <<r, c>> /\ s = IF r > 0 /\ c > 0 THEN <<r, c>> ELSE Default

(* What a report is before its last byte, and what is read of it.          *)
LEMMA ReportHeard ==
    ASSUME NEW S, NEW B \in Seq(S), NEW i \in DOMAIN B,
           NEW b, b = SubSeq(B, i, Len(B)), NEW m \in 4..(Len(b) - 2), NEW s, Reports(b, m, s)
    PROVE  /\ i < Len(B) - 1 /\ Begun(B, i, Len(B) - 1) /\ B[Len(B)] = "R"
           /\ ReadsAs(b, s)
<1> DEFINE n == Len(b)
           rows == SubSeq(b, 3, m - 1)
           cols == SubSeq(b, m + 1, n - 1)
<1>1. i \in Nat /\ 1 <= i /\ i <= Len(B) /\ Len(B) \in Nat /\ \A j \in 1..Len(B) : B[j] \in S
  OBVIOUS
<1>2. b \in Seq(S) /\ n = Len(B) - i + 1 /\ \A j \in 1..n : b[j] = B[i + j - 1]
  BY <1>1, SubSeqProperties
<1>3. n \in Nat /\ m \in Nat /\ 4 <= m /\ m <= n - 2
  BY <1>2
<1>4. /\ b[1] = ESC /\ b[2] = "[" /\ b[m] = ";" /\ b[n] = "R"
      /\ ToSet(rows) \cup ToSet(cols) \subseteq DOMAIN Digit
      /\ NumberOf(rows) \in 0..MAXINT /\ NumberOf(cols) \in 0..MAXINT
      /\ s = IF 0 \in {NumberOf(rows), NumberOf(cols)} THEN Default
             ELSE <<NumberOf(rows), NumberOf(cols)>>
  BY DEF Reports
<1>5. Run(b, 3, m - 1)
  <2>1. m - 1 \in Nat /\ 3 \in Nat /\ 1 <= 3 /\ 3 <= m - 1 /\ m - 1 <= Len(b)
    BY <1>3
  <2>2. ToSet(rows) \subseteq DOMAIN Digit
    BY <1>4
  <2> QED BY ONLY <1>2, <2>1, <2>2, DigitsRun
<1>6. Run(b, m + 1, n - 1)
  <2>1. m + 1 \in Nat /\ n - 1 \in Nat /\ 1 <= m + 1 /\ m + 1 <= n - 1 /\ n - 1 <= Len(b)
    <3>1. n = Len(b)
      OBVIOUS
    <3> HIDE DEF n
    <3>2. m + 1 \in Nat /\ n - 1 \in Nat /\ 1 <= m + 1 /\ m + 1 <= n - 1 /\ n - 1 <= n
      BY <1>3
    <3> QED BY <3>1, <3>2, Zenon
  <2>2. ToSet(cols) \subseteq DOMAIN Digit
    BY <1>4
  <2> QED BY ONLY <1>2, <2>1, <2>2, DigitsRun
<1> HIDE DEF rows, cols
<1>7. /\ b[1] \notin DOMAIN Digit /\ b[2] \notin DOMAIN Digit /\ b[m] \notin DOMAIN Digit
      /\ b[n] \notin DOMAIN Digit
  BY <1>4, DigitsAssumption DEF ESC, Values
<1>8. Reported(b) = <<Wrap(NumberOf(rows)), Wrap(NumberOf(cols))>>
  BY <1>2, <1>5, <1>6, <1>7, ReportedIs DEF rows, cols
<1>9. Reported(b) = <<NumberOf(rows), NumberOf(cols)>>
  BY <1>4, <1>8, WrapIs
<1>10. s = IF NumberOf(rows) > 0 /\ NumberOf(cols) > 0 THEN <<NumberOf(rows), NumberOf(cols)>> ELSE Default
  <2> DEFINE r == NumberOf(rows)
             c == NumberOf(cols)
  <2>1. r \in 0..MAXINT /\ c \in 0..MAXINT /\ MAXINT \in Nat
        /\ s = IF 0 \in {r, c} THEN Default ELSE <<r, c>>
    BY <1>4, KeyboardAssumption
  <2> HIDE DEF r, c
  <2>2. 0 \in {r, c} <=> ~(r > 0 /\ c > 0)
    BY <2>1
  <2>3. s = IF r > 0 /\ c > 0 THEN <<r, c>> ELSE Default
    BY <2>1, <2>2
  <2> QED BY <2>3 DEF r, c
<1> DEFINE L == Len(B)
<1> HIDE DEF n, L
<1>11. i \in Nat /\ 1 <= i /\ L \in Nat /\ n \in Nat /\ n = L - i + 1 /\ m \in Nat /\ 4 <= m /\ m <= n - 2
  BY <1>1, <1>2, <1>3 DEF L
<1>12. i < Len(B) - 1 /\ B[Len(B)] = "R"
  <2>1. i < L - 1 /\ i + n - 1 = L /\ n \in 1..n
    BY ONLY <1>11
  <2>2. b[n] = B[i + n - 1]
    BY <1>2, <2>1
  <2> QED BY <1>4, <2>1, <2>2, Zenon DEF L
<1>13. Begun(B, i, Len(B) - 1)
  <2> DEFINE k == L - 1
  <2>1. i \in 1..k /\ 1 \in 1..n /\ 2 \in 1..n /\ i + 1 - 1 = i /\ i + 2 - 1 = i + 1
    BY <1>12, <1>11 DEF L
  <2>2. B[i] = ESC /\ B[i + 1] = "["
    BY <1>2, <1>4, <2>1
  <2>3. ASSUME NEW j \in (i + 2)..k PROVE B[j] \in Numeric
    <3>1. PICK x \in 3..(n - 1) : i + x - 1 = j
      <4>1. j \in (i + 2)..(L - 1)
        OBVIOUS
      <4>2. i \in Nat /\ L \in Nat /\ n \in Nat /\ n = L - i + 1
        BY ONLY <1>11
      <4>3. InPiece(i, n, j)
        BY ONLY <4>1, <4>2, PlaceInPiece
      <4> QED BY ONLY <4>3 DEF InPiece
    <3>2. x \in 3..(m - 1) \/ x = m \/ x \in (m + 1)..(n - 1)
      BY ONLY <1>11, <3>1
    <3>3. x \in 1..n
      BY ONLY <1>11, <3>1
    <3>4. b[x] \in Numeric
      BY <1>4, <1>5, <1>6, <3>2 DEF Run, Numeric
    <3> QED BY <1>2, <3>1, <3>3, <3>4
  <2> HIDE DEF k
  <2>4. Begun(B, i, k)
    BY <2>1, <2>2, <2>3 DEF Begun
  <2> QED BY <2>4 DEF k, L
<1>14. ReadsAs(b, s)
  BY <1>4, <1>9, <1>10 DEF ReadsAs
<1> QED BY <1>12, <1>13, <1>14

(* With the last byte of an answer the size it tells is read of it.        *)
LEMMA AnswerEnds ==
    ASSUME NEW S, NEW B \in Seq(S), NEW k \in Nat, k + 1 = Len(B), NEW s, Tells(B, s),
           NEW state, NEW buf, HasHeard(state, buf, B, k), NEW h, h = Hears(state, buf, B[k + 1]),
           NEW r, r = Reported(h.buf)
    PROVE  s = IF h.state = "whole" /\ r[1] > 0 /\ r[2] > 0 THEN r ELSE Default
<1>1. CASE (B = << >> \/ Last(B) # "R") /\ s = Default
  <2>1. B # << >> /\ Last(B) = B[k + 1]
    BY DEF Last
  <2>2. h.state # "whole"
    BY <1>1, <2>1, HearsWhole
  <2> QED BY <1>1, <2>2
<1>2. CASE \E i \in DOMAIN B : LET b == SubSeq(B, i, Len(B)) IN \E m \in 4..(Len(b) - 2) : Reports(b, m, s)
  <2>1. PICK i \in DOMAIN B : \E m \in 4..(Len(SubSeq(B, i, Len(B))) - 2) : Reports(SubSeq(B, i, Len(B)), m, s)
    BY <1>2, Zenon
  <2> DEFINE b == SubSeq(B, i, Len(B))
  <2>2. PICK m \in 4..(Len(b) - 2) : Reports(b, m, s)
    BY <2>1
  <2>3. i < Len(B) - 1 /\ Begun(B, i, Len(B) - 1) /\ B[Len(B)] = "R" /\ ReadsAs(b, s)
    <3>1. b = SubSeq(B, i, Len(B)) /\ m \in 4..(Len(b) - 2) /\ Reports(b, m, s)
      BY <2>2
    <3> HIDE DEF b
    <3> QED BY <3>1, ReportHeard
  <2>4. PICK x \in 0..MAXINT, y \in 0..MAXINT :
            Reported(b) = <<x, y>> /\ s = IF x > 0 /\ y > 0 THEN <<x, y>> ELSE Default
    <3> HIDE DEF b
    <3> QED BY <2>3 DEF ReadsAs
  <2>5. i \in 1..k /\ i # k /\ k + 1 <= Len(B) /\ Begun(B, i, k) /\ B[k + 1] = "R"
    <3>1. Len(B) - 1 = k /\ i \in Nat /\ 1 <= i
      OBVIOUS
    <3>2. i < k /\ Begun(B, i, k) /\ B[k + 1] = "R"
      BY <2>3, <3>1
    <3> QED BY <3>1, <3>2
  <2>6. buf = SubSeq(B, i, k) /\ state = "report"
    BY <2>5 DEF HasHeard
  <2>7. h = [state |-> "whole", buf |-> Append(buf, B[k + 1])]
    BY <2>5, <2>6, HearsWhole
  <2>8. Append(buf, B[k + 1]) = b
    BY <2>5, <2>6, PieceGrows
  <2> HIDE DEF b
  <2>9. h.state = "whole" /\ r = <<x, y>>
    BY <2>4, <2>7, <2>8
  <2> QED BY <2>4, <2>9
<1> QED BY <1>1, <1>2 DEF Tells

-----------------------------------------------------------------------------
(* The answer on the line.                                                 *)

\* When n bytes of the answer B were read, the others are at the front of the
\* line u, and of the terminal's own bytes there are no more.
Left(u, B, n) ==
    /\ n \in 0..Len(B) /\ Len(B) - n <= Len(u)
    /\ \A i \in 1..Len(u) : IF i <= Len(B) - n THEN u[i] = [b |-> B[n + i], k |-> 0] ELSE u[i].k # 0

\* There are bytes of the terminal's own on the line.
HasOwn(u) == \E i \in 1..Len(u) : u[i].k = 0

(* One of them is read.                                                    *)
LEMMA LeftTail ==
    ASSUME NEW S, NEW B \in Seq(S), NEW n, NEW u \in Wire, u # << >>, Left(u, B, n), Head(u).k = 0
    PROVE  n + 1 \in 0..Len(B) /\ Head(u).b = B[n + 1] /\ Left(Tail(u), B, n + 1)
<1> DEFINE L == Len(B)
           t == Tail(u)
           p == Len(u) - 1
<1>1. u \in Seq(Octet) /\ p \in Nat /\ Len(u) = p + 1 /\ Head(u) = u[1] /\ L \in Nat
  BY DEF Wire, Octet
<1>2. Len(t) = p /\ \A i \in 1..p : t[i] = u[i + 1]
  BY <1>1, HeadTailProperties
<1>3. /\ n \in 0..L /\ L - n <= p + 1
      /\ \A i \in 1..(p + 1) : IF i <= L - n THEN u[i] = [b |-> B[n + i], k |-> 0] ELSE u[i].k # 0
  BY <1>1 DEF Left
<1> HIDE DEF L, t, p
<1>4. 1 <= L - n
  BY <1>1, <1>3
<1>5. n + 1 \in 0..L /\ Head(u).b = B[n + 1]
  BY <1>1, <1>3, <1>4
<1>6. ASSUME NEW i \in 1..p
      PROVE  IF i <= L - (n + 1) THEN t[i] = [b |-> B[(n + 1) + i], k |-> 0] ELSE t[i].k # 0
  <2>1. i + 1 \in 1..(p + 1) /\ (i <= L - (n + 1) <=> i + 1 <= L - n) /\ n + (i + 1) = (n + 1) + i
    BY <1>1, <1>3
  <2> QED BY <1>2, <1>3, <2>1
<1>7. L - (n + 1) <= p
  BY <1>1, <1>3
<1> QED BY <1>2, <1>5, <1>6, <1>7 DEF Left, L, t

(* A key is pressed.                                                       *)
LEMMA LeftMore ==
    ASSUME NEW S, NEW B \in Seq(S), NEW n, NEW u \in Wire, NEW s \in Wire,
           \A i \in 1..Len(s) : s[i].k # 0
    PROVE  (Left(u, B, n) => Left(u \o s, B, n)) /\ (HasOwn(u) => HasOwn(u \o s))
<1> DEFINE L == Len(B)
           v == u \o s
           p == Len(u)
           q == Len(s)
<1>1. u \in Seq(Octet) /\ s \in Seq(Octet) /\ p \in Nat /\ q \in Nat /\ L \in Nat
  BY DEF Wire, Octet
<1>2. Len(v) = p + q /\ \A i \in 1..(p + q) : v[i] = IF i <= p THEN u[i] ELSE s[i - p]
  BY <1>1, ConcatProperties
<1>3. \A i \in 1..q : s[i].k # 0
  OBVIOUS
<1> HIDE DEF L, v, p, q
<1>4. ASSUME Left(u, B, n) PROVE Left(v, B, n)
  <2>1. /\ n \in 0..L /\ L - n <= p
        /\ \A i \in 1..p : IF i <= L - n THEN u[i] = [b |-> B[n + i], k |-> 0] ELSE u[i].k # 0
    BY <1>4 DEF Left, L, p
  <2>2. ASSUME NEW i \in 1..(p + q)
        PROVE  IF i <= L - n THEN v[i] = [b |-> B[n + i], k |-> 0] ELSE v[i].k # 0
    <3>1. CASE i <= p
      <4>1. i \in 1..p
        BY <1>1, <3>1
      <4> QED BY <1>2, <2>1, <3>1, <4>1
    <3>2. CASE ~(i <= p)
      <4>1. i - p \in 1..q /\ ~(i <= L - n)
        BY <1>1, <2>1, <3>2
      <4> QED BY <1>2, <1>3, <3>2, <4>1
    <3> QED BY <3>1, <3>2
  <2>3. L - n <= p + q
    BY <1>1, <2>1
  <2> QED BY <1>2, <2>1, <2>2, <2>3 DEF Left, L
<1>5. ASSUME HasOwn(u) PROVE HasOwn(v)
  <2>1. PICK i \in 1..p : u[i].k = 0
    BY <1>5 DEF HasOwn, p
  <2>2. i \in 1..(p + q) /\ i <= p
    BY <1>1
  <2>3. v[i].k = 0
    BY <1>2, <2>1, <2>2
  <2> QED BY <1>2, <2>2, <2>3 DEF HasOwn
<1> QED BY <1>4, <1>5 DEF v

(* Another byte is read.                                                   *)
LEMMA OwnStays ==
    ASSUME NEW u \in Wire, u # << >>, HasOwn(u), Head(u).k # 0
    PROVE  HasOwn(Tail(u))
<1> DEFINE t == Tail(u)
           p == Len(u) - 1
<1>1. u \in Seq(Octet) /\ p \in Nat /\ Len(u) = p + 1 /\ Head(u) = u[1]
  BY DEF Wire, Octet
<1>2. Len(t) = p /\ \A i \in 1..p : t[i] = u[i + 1]
  BY <1>1, HeadTailProperties
<1>3. PICK i \in 1..(p + 1) : u[i].k = 0
  BY <1>1 DEF HasOwn
<1> HIDE DEF t, p
<1>4. i # 1
  BY <1>1, <1>3
<1>5. i - 1 \in 1..p /\ (i - 1) + 1 = i
  BY <1>1, <1>4
<1>6. t[i - 1].k = 0
  BY <1>2, <1>3, <1>5
<1> QED BY <1>2, <1>5, <1>6 DEF HasOwn, t

(* As long as not all of the answer was read, some of it is on the line.   *)
LEMMA LeftOwn ==
    ASSUME NEW S, NEW B \in Seq(S), NEW n, NEW u, Left(u, B, n), n # Len(B), Len(u) \in Nat
    PROVE  HasOwn(u)
<1> DEFINE L == Len(B)
           p == Len(u)
<1>1. L \in Nat /\ p \in Nat
  OBVIOUS
<1>2. /\ n \in 0..L /\ L - n <= p /\ n # L
      /\ \A i \in 1..p : IF i <= L - n THEN u[i] = [b |-> B[n + i], k |-> 0] ELSE u[i].k # 0
  BY DEF Left
<1> HIDE DEF L, p
<1>3. 1 \in 1..p /\ 1 <= L - n
  BY <1>1, <1>2
<1>4. u[1] = [b |-> B[n + 1], k |-> 0]
  BY <1>2, <1>3
<1>5. u[1].k = 0
  BY <1>4
<1> QED BY <1>3, <1>5 DEF HasOwn, p

-----------------------------------------------------------------------------
(* The invariant of the size.                                              *)

\* While the terminal's answer is read, what is left of it comes first, and the
\* beginning of a report is kept; from then on the size is the one told, or the
\* query was given up and some of the answer is still to come.
Querying == pc \in {"ask", "reply"}
Hearing ==
    /\ size = Default /\ reply.total \in Nat /\ (pc = "ask" => reply.total = 0)
    /\ Left(arrived \o coming, answer.bytes, reply.total)
    /\ HasHeard(reply.state, reply.buf, answer.bytes, reply.total)
Settled ==
    /\ size = answer.size \/ HasOwn(arrived \o coming)
    /\ pc \in {"esc", "bracket"} => current # 0
SizeOK ==
    /\ answer \in Users[user].answers
    /\ ~raced => IF Querying THEN Hearing ELSE Settled
SizeInv == OrderInv /\ SizeOK

(* At first none of the answer was read.                                   *)
LEMMA SizeInit == Init => SizeInv
<1> SUFFICES ASSUME Init PROVE SizeInv
  OBVIOUS
<1> DEFINE B == answer.bytes
<1>1. /\ user \in DOMAIN Users /\ answer \in Users[user].answers
      /\ coming = Tagged(B, 0) /\ arrived = << >> /\ pc = "ask" /\ size = Default
      /\ reply = [total |-> 0, state |-> "text", buf |-> << >>]
  BY DEF Init
<1>2. B \in Seq(ByteValues) /\ Len(B) \in Nat
  BY <1>1, AnswerIs
<1>3. OrderInv
  BY OrderInit
<1>4. arrived \o coming = Tagged(B, 0)
  <2>1. coming \in Wire
    BY <1>3 DEF OrderInv, LineOK
  <2>2. << >> \o coming = coming
    BY <2>1, WireEmpty
  <2> QED BY <1>1, <2>2
<1> HIDE DEF B
<1>5. Left(Tagged(B, 0), B, 0)
  <2> DEFINE t == Tagged(B, 0)
             n == Len(B)
  <2>1. n \in Nat /\ DOMAIN B = 1..n /\ t = [i \in 1..n |-> [b |-> B[i], k |-> 0]]
    BY <1>2 DEF Tagged
  <2>2. Len(t) = n /\ \A i \in 1..n : t[i] = [b |-> B[i], k |-> 0]
    BY <2>1
  <2> HIDE DEF t, n
  <2>3. \A i \in 1..n : i <= n - 0 /\ 0 + i = i
    BY <2>1
  <2>4. 0 \in 0..n /\ n - 0 <= n
    BY <2>1
  <2> QED BY <2>2, <2>3, <2>4 DEF Left, t, n
<1>6. HasHeard("text", << >>, B, 0)
  BY DEF HasHeard
<1>7. reply.total = 0 /\ reply.state = "text" /\ reply.buf = << >>
  BY <1>1
<1>8. Hearing
  BY <1>1, <1>4, <1>5, <1>6, <1>7 DEF Hearing, B
<1> QED BY <1>1, <1>3, <1>8 DEF SizeInv, SizeOK, Querying

\* A step after the query, and what it must keep.
LEMMA SettledStays ==
    ASSUME SizeOK, ~Querying, ~Querying', UNCHANGED <<size, answer, user>>, raced => raced',
           ~raced' /\ HasOwn(arrived \o coming) => HasOwn(arrived' \o coming'),
           ~raced' /\ ~raced /\ Settled /\ pc' \in {"esc", "bracket"} => current' # 0
    PROVE  SizeOK'
BY DEF SizeOK, Settled

(* The first byte of a key is read (term_getch).                           *)
LEMMA GetFirstSize == ASSUME SizeInv, GetFirst PROVE SizeOK'
<1> DEFINE u == arrived \o coming
           c == Head(arrived).b
<1>1. /\ pc = "key" /\ arrived # << >> /\ arrived' = Tail(arrived)
      /\ current' = Mine /\ raced' = (raced \/ Mine = 0)
      /\ IF c = ESC THEN pc' = "esc" /\ polls' = Polls /\ Quiet ELSE Reads(c)
      /\ UNCHANGED <<coming, user, pressed, answer>>
  BY DEF GetFirst, Takes
<1>2. pc' \in {"esc", "key"} /\ size' = size
  BY <1>1 DEF Quiet, Reads
<1>3. u \in Wire /\ u # << >> /\ Head(u) = Head(arrived) /\ arrived' \o coming' = Tail(u)
  BY <1>1, Taken, LineTypes DEF SizeInv, OrderInv
<1> HIDE DEF u
<1>4. ~raced' => Mine # 0 /\ Head(u).k # 0
  BY <1>1, <1>3 DEF Mine
<1>5. ~raced' /\ HasOwn(u) => HasOwn(arrived' \o coming')
  BY <1>3, <1>4, OwnStays
<1> QED BY <1>1, <1>2, <1>4, <1>5, SettledStays DEF SizeInv, Querying, u

(* The next byte of a key is read.                                         *)
LEMMA GetNextSize == ASSUME SizeInv, GetNext PROVE SizeOK'
<1> DEFINE u == arrived \o coming
<1>1. /\ pc \in {"esc", "bracket"} /\ arrived # << >> /\ arrived' = Tail(arrived)
      /\ (raced => raced') /\ (~raced' => Mine = current)
      /\ UNCHANGED <<coming, user, pressed, answer, current>>
      /\ pc' \in {"bracket", "key"} /\ size' = size
  <2>1. PICK c : /\ Takes(c)
                 /\ raced' = (raced \/ Mine # current)
                 /\ IF pc = "bracket" THEN Letter(c)
                    ELSE IF c = "[" THEN pc' = "bracket" /\ polls' = Polls /\ Quiet
                    ELSE Reads(ESC)
    BY DEF GetNext
  <2> QED BY <2>1 DEF GetNext, Takes, Letter, Reads, Quiet
<1>2. u \in Wire /\ u # << >> /\ Head(u) = Head(arrived) /\ arrived' \o coming' = Tail(u)
  BY <1>1, Taken, LineTypes DEF SizeInv, OrderInv
<1> HIDE DEF u
<1>3. ~raced /\ Settled => current # 0
  BY <1>1 DEF Settled
<1>4. SizeOK /\ ~Querying /\ ~Querying'
  BY <1>1 DEF SizeInv, Querying
<1>5. ~raced' => Head(u).k # 0
  BY <1>1, <1>2, <1>3, <1>4 DEF Mine, SizeOK
<1>6. ~raced' /\ HasOwn(u) => HasOwn(arrived' \o coming')
  BY <1>2, <1>5, OwnStays
<1> QED BY <1>1, <1>3, <1>4, <1>6, SettledStays DEF u

(* It is waited for.                                                       *)
LEMMA PollKeySize == ASSUME SizeInv, PollKey PROVE SizeOK'
<1>1. /\ pc \in {"esc", "bracket"} /\ pc' \in {"esc", "bracket", "key"} /\ size' = size
      /\ raced => raced'
      /\ UNCHANGED <<coming, arrived, user, answer, current>>
  BY DEF PollKey, Quiet, Reads
<1>2. ~raced /\ Settled => current # 0
  BY <1>1 DEF Settled
<1> QED BY <1>1, <1>2, SettledStays DEF SizeInv, Querying

(* The terminal is asked in vain (term_getsize).                           *)
LEMMA PollReplySize == ASSUME SizeInv, PollReply PROVE SizeOK'
<1> DEFINE u == arrived \o coming
           B == answer.bytes
<1>1. /\ pc = "ask" /\ pc' \in {"ask", "key"}
      /\ UNCHANGED <<coming, arrived, user, answer, current, raced, size, reply>>
  BY DEF PollReply, Quiet
<1>2. answer \in Users[user].answers /\ user \in DOMAIN Users /\ u \in Wire
  BY LineTypes DEF SizeInv, SizeOK, OrderInv, LineOK
<1>3. B \in Seq(ByteValues) /\ Len(B) \in Nat /\ Tells(B, answer.size) /\ Len(u) \in Nat
  BY <1>2, AnswerIs DEF Wire
<1>4. ~raced => Hearing
  BY <1>1 DEF SizeInv, SizeOK, Querying
<1> HIDE DEF u, B
<1>5. CASE pc' = "ask"
  BY <1>1, <1>2, <1>4, <1>5 DEF SizeOK, Hearing, Querying
<1>6. CASE pc' = "key"
  <2>1. ASSUME ~raced PROVE size = answer.size \/ HasOwn(u)
    <3>1. size = Default /\ Left(u, B, 0)
      BY <1>1, <1>4, <2>1 DEF Hearing, u, B
    <3>2. CASE Len(B) = 0
      <4>1. B = << >>
        BY <1>3, <3>2
      <4>2. DOMAIN B = {}
        BY <4>1
      <4>3. answer.size = Default
        BY <1>3, <4>2 DEF Tells
      <4> QED BY <3>1, <4>3
    <3>3. CASE 0 # Len(B)
      BY <1>3, <3>1, <3>3, LeftOwn
    <3> QED BY <3>2, <3>3
  <2> QED BY <1>1, <1>2, <1>6, <2>1 DEF SizeOK, Settled, Querying, u
<1> QED BY <1>1, <1>5, <1>6

(* A byte of the answer is read.                                           *)
LEMMA GetReplySize == ASSUME SizeInv, GetReply PROVE SizeOK'
<1> DEFINE u == arrived \o coming
           B == answer.bytes
           c == Head(arrived).b
           h == Hears(reply.state, reply.buf, c)
           r == Reported(h.buf)
           n == reply.total
<1>1. /\ pc \in {"ask", "reply"} /\ arrived # << >> /\ arrived' = Tail(arrived)
      /\ raced' = (raced \/ Mine # 0)
      /\ UNCHANGED <<coming, user, answer, current>>
      /\ reply' = [total |-> n + 1, state |-> h.state, buf |-> h.buf]
      /\ \/ pc' = "key"
         \/ pc' = "reply" /\ h.state # "whole"
      /\ size' = IF h.state = "whole" /\ r[1] > 0 /\ r[2] > 0 THEN r ELSE size
  BY DEF GetReply, Takes
<1>2. answer \in Users[user].answers /\ user \in DOMAIN Users /\ u \in Wire
  BY LineTypes DEF SizeInv, SizeOK, OrderInv, LineOK
<1>3. B \in Seq(ByteValues) /\ Len(B) \in Nat /\ Tells(B, answer.size)
  BY <1>2, AnswerIs
<1>4. u # << >> /\ Head(u) = Head(arrived) /\ arrived' \o coming' = Tail(u)
  BY <1>1, Taken DEF SizeInv, OrderInv
<1>5. ASSUME ~raced' PROVE IF Querying' THEN Hearing' ELSE Settled'
  <2>1. ~raced /\ Hearing /\ Mine = 0
    BY <1>1, <1>5 DEF SizeInv, SizeOK, Querying
  <2>2. /\ size = Default /\ n \in Nat /\ Left(u, B, n) /\ HasHeard(reply.state, reply.buf, B, n)
        /\ Head(u).k = 0
    BY <1>4, <2>1 DEF Hearing, Mine
  <2>3. reply'.total = n + 1 /\ reply'.state = h.state /\ reply'.buf = h.buf
    BY <1>1
  <2> HIDE DEF u, B, h, r, n
  <2>4. n + 1 \in 0..Len(B) /\ Head(u).b = B[n + 1] /\ Left(Tail(u), B, n + 1)
    BY <1>2, <1>3, <1>4, <2>2, LeftTail
  <2>5. h = Hears(reply.state, reply.buf, B[n + 1])
    BY <1>4, <2>4 DEF h
  <2>6. n + 1 <= Len(B) /\ n + 1 \in Nat
    BY <1>3, <2>2, <2>4
  <2>7. HasHeard(h.state, h.buf, B, n + 1)
    BY <1>3, <2>2, <2>5, <2>6, HearsMore
  <2>8. CASE pc' = "reply" /\ h.state # "whole"
    <3>1. size' = Default
      BY <1>1, <2>2, <2>8
    <3>2. Hearing'
      BY <1>1, <1>4, <2>3, <2>4, <2>6, <2>7, <2>8, <3>1 DEF Hearing, B
    <3> QED BY <2>8, <3>2 DEF Querying
  <2>9. CASE pc' = "key"
    <3>1. CASE n + 1 = Len(B)
      <4>1. answer.size = IF h.state = "whole" /\ r[1] > 0 /\ r[2] > 0 THEN r ELSE Default
        BY <1>3, <2>2, <2>5, <3>1, AnswerEnds DEF r
      <4>2. size' = answer.size
        BY <1>1, <2>2, <4>1
      <4> QED BY <1>1, <2>9, <4>2 DEF Settled, Querying
    <3>2. CASE n + 1 # Len(B)
      <4>1. Len(Tail(u)) \in Nat
        BY <1>2, <1>4, HeadTailProperties DEF Wire
      <4>2. HasOwn(Tail(u))
        BY <1>3, <2>4, <3>2, <4>1, LeftOwn
      <4> QED BY <1>4, <2>9, <4>2 DEF Settled, Querying
    <3> QED BY <3>1, <3>2
  <2> QED BY <1>1, <2>8, <2>9
<1> QED BY <1>1, <1>2, <1>5 DEF SizeOK

(* A key is pressed.                                                       *)
LEMMA PressSize == ASSUME SizeInv, Press PROVE SizeOK'
<1> DEFINE u == arrived \o coming
<1>1. PICK key \in Users[user].keys : coming' = coming \o Numbered(Sends(key), pressed)
  BY DEF Press
<1>2. UNCHANGED <<arrived, pc, polls, reply, size, user, current, answer, raced>>
  BY DEF Press, program, told
<1>3. user \in DOMAIN Users /\ pressed \in Nat /\ u \in Wire /\ arrived \in Wire /\ coming \in Wire
  BY LineTypes DEF SizeInv, OrderInv, LineOK
<1> DEFINE b == Sends(key)
           s == Numbered(b, pressed)
<1>4. key \in Keys
  BY <1>3, Zenon DEF Keys
<1>5. b \in Seq(ByteValues) /\ Begins(b) \in {1, 2, 3}
  BY <1>4, SendsType
<1>6. s \in Wire
  BY <1>3, <1>4, PartsBytes, BytesType
<1>7. \A i \in 1..Len(s) : s[i].k # 0
  <2>1. DOMAIN s = 1..Len(s)
    BY <1>6 DEF Wire
  <2> HIDE DEF b
  <2>2. \A i \in DOMAIN b :
          s[i] = [b |-> b[i], k |-> pressed + (IF i <= Begins(b) THEN 1 ELSE i - Begins(b) + 1)]
    BY DEF Numbered
  <2>3. ASSUME NEW i \in DOMAIN b PROVE s[i].k # 0
    <3> DEFINE f == pressed + (IF i <= Begins(b) THEN 1 ELSE i - Begins(b) + 1)
    <3>1. i \in Nat
      BY <1>5
    <3>2. f # 0
      BY <1>3, <1>5, <3>1
    <3>3. s[i] = [b |-> b[i], k |-> f]
      BY <2>2
    <3> HIDE DEF s, f
    <3>4. s[i].k = f
      BY <3>3
    <3> QED BY <3>2, <3>4
  <2>4. DOMAIN s = DOMAIN b
    BY DEF Numbered
  <2> HIDE DEF s
  <2> QED BY <2>1, <2>3, <2>4
<1> HIDE DEF s
<1>8. arrived' \o coming' = u \o s
  <2>1. arrived' \o coming' = arrived \o (coming \o s)
    BY <1>1, <1>2 DEF s
  <2> QED BY <1>3, <1>6, <2>1, WireAssociative
<1>9. answer \in Users[user].answers
  BY DEF SizeInv, SizeOK
<1>10. answer.bytes \in Seq(ByteValues)
  BY <1>3, <1>9, AnswerIs
<1> HIDE DEF u
<1>11. /\ Left(u, answer.bytes, reply.total) => Left(u \o s, answer.bytes, reply.total)
       /\ HasOwn(u) => HasOwn(u \o s)
  BY <1>3, <1>6, <1>7, <1>10, LeftMore
<1>12. Hearing => Hearing'
  BY <1>2, <1>8, <1>11 DEF Hearing, u
<1>13. Settled => Settled'
  BY <1>2, <1>8, <1>11 DEF Settled, u
<1> QED BY <1>2, <1>12, <1>13 DEF SizeInv, SizeOK, Querying

(* A byte arrives.                                                         *)
LEMMA ArriveSize == ASSUME SizeInv, Arrive PROVE SizeOK'
<1>1. /\ coming # << >> /\ arrived' = Append(arrived, Head(coming)) /\ coming' = Tail(coming)
      /\ UNCHANGED <<pc, reply, size, user, current, answer, raced>>
  BY DEF Arrive, program, told
<1>2. arrived \in Seq(Octet) /\ coming \in Seq(Octet)
  BY DEF SizeInv, OrderInv, LineOK, Wire, Octet
<1>3. arrived' \o coming' = arrived \o coming
  BY <1>1, <1>2, MoveOne
<1> QED BY <1>1, <1>3 DEF SizeInv, SizeOK, Hearing, Settled, Querying

(* Every step keeps what is known of the size.                             *)
LEMMA SizeStep == SizeInv /\ [Next]_vars => SizeInv'
<1> SUFFICES ASSUME SizeInv, [Next]_vars PROVE SizeInv'
  OBVIOUS
<1>1. OrderInv'
  BY OrderStep DEF SizeInv
<1>2. CASE UNCHANGED vars
  <2>1. UNCHANGED <<coming, arrived, pc, reply, size, user, current, answer, raced>>
    BY <1>2 DEF vars, program, told
  <2>2. SizeOK'
    BY <2>1 DEF SizeInv, SizeOK, Hearing, Settled, Querying
  <2> QED BY <1>1, <2>2 DEF SizeInv
<1>3. CASE Next
  <2>1. SizeOK'
    BY <1>3, GetFirstSize, GetNextSize, PollKeySize, PollReplySize, GetReplySize, PressSize, ArriveSize
       DEF Next, Program
  <2> QED BY <1>1, <2>1 DEF SizeInv
<1> QED BY <1>2, <1>3

(* The terminal's own bytes on the line are some of those to be read.      *)
LEMMA OwnIsSeen ==
    ASSUME NEW a \in Wire, NEW v \in Wire, HasOwn(a \o v)
    PROVE  \E x \in ToSet(v \o a) : x.k = 0
<1> DEFINE p == Len(a)
           q == Len(v)
           w == a \o v
           z == v \o a
<1>1. p \in Nat /\ q \in Nat /\ a \in Seq(Octet) /\ v \in Seq(Octet)
  BY DEF Wire, Octet
<1>2. Len(w) = p + q /\ \A i \in 1..(p + q) : w[i] = IF i <= p THEN a[i] ELSE v[i - p]
  BY <1>1, ConcatProperties
<1>3. z \in Seq(Octet) /\ Len(z) = q + p /\ \A i \in 1..(q + p) : z[i] = IF i <= q THEN v[i] ELSE a[i - q]
  BY <1>1, ConcatProperties
<1> HIDE DEF p, q, w, z
<1>4. PICK i \in 1..(p + q) : w[i].k = 0
  BY <1>2 DEF HasOwn, w
<1>5. \E j \in 1..(q + p) : z[j] = w[i]
  <2>1. CASE i <= p
    <3>1. q + i \in 1..(q + p) /\ ~(q + i <= q) /\ (q + i) - q = i
      BY <1>1, <2>1
    <3>2. z[q + i] = w[i]
      BY <1>2, <1>3, <2>1, <3>1
    <3> QED BY <3>1, <3>2
  <2>2. CASE ~(i <= p)
    <3>1. i - p \in 1..(q + p) /\ i - p <= q
      BY <1>1, <2>2
    <3>2. z[i - p] = w[i]
      BY <1>2, <1>3, <2>2, <3>1
    <3> QED BY <3>1, <3>2
  <2> QED BY <2>1, <2>2
<1>6. PICK j \in 1..(q + p) : z[j] = w[i]
  BY <1>5
<1>7. z[j] \in ToSet(z)
  BY <1>3 DEF ToSet
<1> QED BY <1>4, <1>6, <1>7 DEF z

(* The editor starts with the size the terminal tells, or the default if   *)
(* it tells none (term_getsize): for any answers with the size at their    *)
(* end, whatever comes before it, any keys pressed meanwhile and any time  *)
(* the bytes take, unless a key is taken for the answer or it for a key.   *)
THEOREM SizeIsHonest == Spec => []SizeHonest
<1>1. SizeInv => SizeHonest
  <2> SUFFICES ASSUME SizeInv, ~Querying, ~raced, \A b \in ToSet(coming \o arrived) : b.k # 0
               PROVE  size = answer.size
    BY DEF SizeHonest, Querying
  <2>1. arrived \in Wire /\ coming \in Wire
    BY DEF SizeInv, OrderInv, LineOK
  <2>2. ~HasOwn(arrived \o coming)
    BY <2>1, OwnIsSeen
  <2> QED BY <2>2 DEF SizeInv, SizeOK, Settled
<1>2. SizeInv /\ [Next]_vars => SizeInv'
  BY SizeStep
<1> QED BY <1>1, <1>2, SizeInit, PTL DEF Spec
=============================================================================
