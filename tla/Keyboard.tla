------------------------------ MODULE Keyboard ------------------------------
(***************************************************************************)
(* From the bytes the terminal sends to the commands they stand for: the   *)
(* size query and term_getch of term.c, the prefixes and operands that     *)
(* normal_cmd and its parts (edit.c) gather, and the lines that are read   *)
(* at the bottom of the screen (cmdline_mode, read_pattern).               *)
(*                                                                         *)
(* A byte is [b, k]: k numbers the key that the editor is to be given for  *)
(* it, 0 the terminal's own answer.  Bytes are on their way (coming), then wait to be read          *)
(* (arrived); the program asks whether one does and gives up after so many *)
(* times.  What a command then does is the subject of Commands.            *)
(***************************************************************************)
EXTENDS Integers, Sequences, FiniteSets, SequencesExt

CONSTANTS Users,        \* users: the keys each presses and for how many, whether
                        \* each waits until a key has been read, and what the
                        \* terminal of each may answer and the size it tells
          Bytes,        \* the bytes of each key that is not a byte itself
          Arrow,        \* the keys of the letters after ESC [
          Digit,        \* the values of the digits
          Polls,        \* 8000, and 30000 for the query
          ReplyMax,     \* bytes read of an answer
          BufMax,       \* bytes kept of it
          LineMax,      \* characters of a command line or a pattern
          MAXINT,       \* 32767
          Default,      \* the size assumed
          None, Nul

ASSUME KeyboardAssumption ==
    /\ Polls \in Nat \ {0} /\ ReplyMax \in Nat \ {0} /\ BufMax \in Nat \ {0}
    /\ LineMax \in Nat \ {0} /\ MAXINT \in Nat \ {0}

\* Digits have their values, and are not what ESC and the report begin or end with.
Values ==
    /\ "0" \in DOMAIN Digit /\ \A c \in DOMAIN Digit : Digit[c] \in 0..9
    /\ {"ESC", "[", ";", "R"} \cap DOMAIN Digit = {}

ASSUME DigitsAssumption == Values

Lists(s) == Len(s) \in Nat /\ s = [i \in 1..Len(s) |-> s[i]]

\* What a key sends, and how much of it term_getch takes at once: ESC and one
\* byte, or one more after ESC [.
Sends(key) == IF key \in DOMAIN Bytes THEN Bytes[key] ELSE <<key>>
Begins(b)  == IF Len(b) = 1 THEN 1 ELSE IF b[2] = "[" THEN 3 ELSE 2

\* ESC first, then ESC [ and a byte or more, or ESC and a byte or more; no ESC
\* comes after these.
Escapes(b) ==
    /\ Lists(b) /\ Len(b) >= 2 /\ b[1] = "ESC" /\ Len(b) >= Begins(b)
    /\ \A i \in (Begins(b) + 1)..Len(b) : b[i] # "ESC"

\* Every key of several bytes sends such ones.
KeysEscape == \A key \in DOMAIN Bytes : Escapes(Bytes[key])

ASSUME EscapesAssumption == KeysEscape

VARIABLES coming, arrived,
          pc,       \* where the program is: "ask", "reply", "key", "esc", "bracket"
          polls,    \* how often it will still ask
          reply,    \* what it has of the answer: bytes read, state and buf
          size,     \* scr_rows and scr_cols
          kb,       \* the static state of edit.c, and where keys go
          user,
          pressed,  \* how many keys those pressed stand for
          owed,     \* history: those of them that are not read yet
          current,  \* history: the key whose first byte was read
          answer,   \* history: what the terminal answers
          raced,    \* history: whether bytes came too late to be taken for those
                    \* of their key, or were taken for those of another
          wrong,    \* history: whether a key was read that was not the next one
          spelled,  \* history: the keys of the command being given
          did,      \* history: the last command, and its keys
          sought    \* history: the last pattern searched for, if nothing was
                    \* typed over it

program == <<pc, polls, reply, size, kb>>
told    == <<raced, wrong, spelled, did, sought>>
vars    == <<coming, arrived, program, user, pressed, owed, current, answer, told>>

ESC == "ESC"
Operators == {"d", "c", "y"}
OpMotions == {"h", "l", "w", "b", "e", "$", "0", "^", "j", "k", "G"}
Prompts   == {":", "/", "?"}
\* Operator commands that stand for two keys.
Alias == [D |-> <<"d", "$">>, C |-> <<"c", "$">>, x |-> <<"d", "l">>, X |-> <<"d", "h">>,
          s |-> <<"c", "l">>, S |-> <<"c", "c">>, Y |-> <<"y", "y">>]
Vertical  == [Up |-> "k", Down |-> "j", Left |-> "h", Right |-> "l"]

\* 16-bit arithmetic.
Wrap(n) == ((n + MAXINT + 1) % (2 * (MAXINT + 1))) - (MAXINT + 1)
NumberOf(ds) == FoldLeft(LAMBDA n, d : n * 10 + Digit[d], 0, ds)

\* How a terminal tells its size: whatever it sends first, ESC [ rows ; cols R
\* comes last.  Other answers tell none, nor does one with a 0.
Reports(b, m, s) ==
    LET rows == SubSeq(b, 3, m - 1)
        cols == SubSeq(b, m + 1, Len(b) - 1)
    IN  /\ b[1] = ESC /\ b[2] = "[" /\ b[m] = ";" /\ b[Len(b)] = "R"
        /\ ToSet(rows) \cup ToSet(cols) \subseteq DOMAIN Digit
        /\ NumberOf(rows) \in 0..MAXINT /\ NumberOf(cols) \in 0..MAXINT
        /\ s = IF 0 \in {NumberOf(rows), NumberOf(cols)} THEN Default
                  ELSE <<NumberOf(rows), NumberOf(cols)>>
Tells(bs, s) ==
    \/ (bs = << >> \/ Last(bs) # "R") /\ s = Default
    \/ \E i \in DOMAIN bs :
          LET b == SubSeq(bs, i, Len(bs)) IN \E m \in 4..(Len(b) - 2) : Reports(b, m, s)

TellSizes ==
    \A u \in DOMAIN Users : \A a \in Users[u].answers : Lists(a.bytes) /\ Tells(a.bytes, a.size)

ASSUME AnswersAssumption == TellSizes
-----------------------------------------------------------------------------
(* Counts, operators and operands (edit.c).                                *)

\* get_count.  A slip: the count stays.
GetCountKept(s) == s
GetCount(s) == [s EXCEPT !.g_count = 0, !.g_hcnt = FALSE]
CountOf(s)  == IF s.g_hcnt THEN s.g_count ELSE 1

Command(op, c, n, given, arg) == [op |-> op, cmd |-> c, count |-> n, given |-> given, arg |-> arg]

\* What becomes of a key: the new state, and the command it completes if any.
Gives(s, c)  == [kb |-> s, does |-> c, over |-> TRUE]
Drops(s)     == [kb |-> s, does |-> None, over |-> TRUE]
Awaits(s)    == [kb |-> s, does |-> None, over |-> FALSE]

IsDigit(s, c) ==
    \/ c \in DOMAIN Digit /\ c # "0" /\ s.g_op = None
    \/ c = "0" /\ s.g_hcnt /\ s.g_op = None
Counts(s, c) ==
    Awaits([s EXCEPT !.g_count = Wrap((IF s.g_hcnt THEN @ * 10 ELSE 0) + Digit[c]), !.g_hcnt = TRUE])

\* The key after an operator.
Operand(s, c) ==
    LET r == [GetCount(s) EXCEPT !.g_op = None]
    IN  IF c \in OpMotions \cup {s.g_op}
        THEN Gives(r, Command(s.g_op, c, CountOf(s), FALSE, None))
        ELSE Drops(r)

AfterG(s, c) ==
    LET r == [GetCount(s) EXCEPT !.g_g = FALSE]
    IN  IF c = "g" THEN Gives(r, Command(None, "gg", IF s.g_g_count > 0 THEN s.g_g_count ELSE 1,
                                         s.g_g_count > 0, None))
        ELSE Drops(r)

\* The pattern in ed.search ends at the first Nul.
Pattern(s) == SubSeq(s.pat, 1, SelectInSeq(s.pat, LAMBDA c : c = Nul) - 1)

\* normal_cmd and its parts.
Plain(s, c) ==
    LET r == GetCount(s)
        n == CountOf(s)
        done(k) == Gives(r, Command(None, k, n, s.g_hcnt, None))
    IN  CASE c \in Operators -> Awaits([r EXCEPT !.g_op = c, !.g_count = n, !.g_hcnt = TRUE])
          [] c \in DOMAIN Alias -> Gives(r, Command(Alias[c][1], Alias[c][2], n, FALSE, None))
          [] c = "g" -> Awaits([r EXCEPT !.g_g = TRUE, !.g_g_count = IF s.g_hcnt THEN n ELSE 0])
          [] c \in {"r", "f", "F"} -> Awaits([r EXCEPT !.waits = [cmd |-> c, count |-> n,
                                                                  given |-> s.g_hcnt]])
          [] c \in Prompts -> Awaits([r EXCEPT !.prompt = c, !.line = << >>])
          [] c = "i" -> Gives([r EXCEPT !.mode = "insert"], Command(None, "i", n, s.g_hcnt, None))
          [] c \in DOMAIN Vertical -> done(Vertical[c])
          [] c \in {"n", "N"} -> Gives(r, Command(None, c, n, s.g_hcnt, Pattern(s)))
          [] OTHER -> done(c)

NormalCmd(s, c) ==
    IF IsDigit(s, c) THEN Counts(s, c)
    ELSE IF s.g_op # None THEN Operand(s, c)
    ELSE IF s.g_g THEN AfterG(s, c)
    ELSE Plain(s, c)

\* The operand of r, f and F.
Argument(s, c) ==
    LET r == [s EXCEPT !.waits = None]
    IN  IF c = ESC THEN Drops(r)
        ELSE Gives(r, Command(None, s.waits.cmd, s.waits.count, s.waits.given, c))

\* A slip: one character too many.
LineFullLate(s) == Len(s.line) > LineMax
LineFull(s) == Len(s.line) >= LineMax

\* One key of a command line or of a pattern, which is written over the last
\* one as it is typed.
LineKey(s, c) ==
    LET out  == [s EXCEPT !.prompt = None, !.line = << >>]
        put(t, x) == IF s.prompt = ":" THEN t ELSE [t EXCEPT !.pat[Len(s.line) + 1] = x]
    IN  CASE c = ESC -> Drops(out)
          [] c = "CR" /\ s.line = << >> -> Drops(put(out, Nul))
          [] c = "CR" -> Gives(put(out, Nul), Command(None, s.prompt, 1, FALSE, s.line))
          [] c = "BS" /\ s.line # << >> -> Awaits([s EXCEPT !.line = Front(@)])
          [] c \in DOMAIN Vertical \cup {"BS"} \/ LineFull(s) -> Awaits(s)
          [] OTHER -> Awaits(put([s EXCEPT !.line = Append(@, c)], c))

InsertKey(s, c) ==
    Gives(IF c = ESC THEN [s EXCEPT !.mode = "normal"] ELSE s,
          Command(None, "insert", 1, FALSE, c))

Key(s, c) ==
    IF s.waits # None THEN Argument(s, c)
    ELSE IF s.prompt # None THEN LineKey(s, c)
    ELSE IF s.mode = "insert" THEN InsertKey(s, c)
    ELSE NormalCmd(s, c)
-----------------------------------------------------------------------------
(* Reading keys (term_getch).                                              *)

Nothing == [does |-> None, keys |-> << >>]
Unknown == <<Nul>>

\* The key c is handed to the editor.
Reads(c) ==
    LET r == Key(kb, c)
    IN  /\ kb' = r.kb
        /\ owed' = IF owed = << >> THEN owed ELSE Tail(owed)
        /\ wrong' = (wrong \/ owed = << >> \/ Head(owed) # c)
        /\ spelled' = IF r.over THEN << >> ELSE Append(spelled, c)
        /\ did' = IF r.over THEN [does |-> r.does, keys |-> Append(spelled, c)] ELSE Nothing
        /\ sought' = IF kb.prompt \notin {"/", "?"} \/ ~r.over \/ (Len(spelled) = 1 /\ c = ESC) THEN sought
                     ELSE IF r.does = None THEN Unknown ELSE r.does.arg
        /\ pc' = "key" /\ polls' = 0
        /\ UNCHANGED <<reply, size>>

Quiet == UNCHANGED <<kb, owed, wrong, spelled, did, sought, reply, size>>

\* The first byte in waiting, taken.
Takes(c) == arrived # << >> /\ c = Head(arrived).b /\ arrived' = Tail(arrived)
Mine     == Head(arrived).k

GetFirst ==
    /\ pc = "key"
    /\ \E c \in {arrived[i].b : i \in DOMAIN arrived} :
        /\ Takes(c)
        /\ current' = Mine
        /\ raced' = (raced \/ Mine = 0)
        /\ IF c = ESC THEN pc' = "esc" /\ polls' = Polls /\ Quiet ELSE Reads(c)
    /\ UNCHANGED <<coming, user, pressed, answer>>

\* The next byte comes in time: '[' after ESC, and a letter after that.
\* A slip: no other letter is expected.
LetterSure(c)  == Reads(Arrow["A"])
Letter(c) == Reads(IF c \in DOMAIN Arrow THEN Arrow[c] ELSE ESC)

GetNext ==
    /\ pc \in {"esc", "bracket"}
    /\ \E c \in {arrived[i].b : i \in DOMAIN arrived} :
        /\ Takes(c)
        /\ raced' = (raced \/ Mine # current)
        /\ IF pc = "bracket" THEN Letter(c)
           ELSE IF c = "[" THEN pc' = "bracket" /\ polls' = Polls /\ Quiet
           ELSE Reads(ESC)
    /\ UNCHANGED <<coming, user, pressed, current, answer>>

Spent == polls <= 1
\* A slip: the count starts anew every time.
FewerNever == Polls
Fewer == polls - 1

\* It is asked for in vain.
PollKey ==
    /\ pc \in {"esc", "bracket"} /\ arrived = << >>
    /\ IF ~Spent THEN pc' = pc /\ polls' = Fewer /\ raced' = raced /\ Quiet
       ELSE Reads(ESC) /\ raced' = (raced \/ \E i \in DOMAIN coming : coming[i].k = current)
    /\ UNCHANGED <<coming, arrived, user, pressed, current, answer>>
-----------------------------------------------------------------------------
(* The size query (term_getsize).                                          *)

PollReply ==
    /\ pc = "ask" /\ arrived = << >>
    /\ pc' = IF Spent THEN "key" ELSE "ask"
    /\ polls' = Fewer
    /\ raced' = raced
    /\ Quiet
    /\ UNCHANGED <<coming, arrived, user, pressed, current, answer>>

\* The state and the buffer after one more byte.
\* A slip: what came before ESC, and anything else, stays in the buffer.
HearsAll(state, buf, c) ==
    [state |-> CASE c = ESC -> "esc"
                 [] state = "esc" /\ c = "["    -> "report"
                 [] state = "report" /\ c = "R" -> "whole"
                 [] OTHER                       -> state,
     buf |-> Append(buf, c)]
Hears(state, buf, c) ==
    LET at(s, b) == [state |-> s, buf |-> b]
    IN  CASE c = ESC                          -> at("esc", <<ESC>>)
          [] state = "esc" /\ c = "["         -> at("report", Append(buf, c))
          [] state = "report" /\ c = "R"      -> at("whole", Append(buf, c))
          [] state = "report" /\ c \in DOMAIN Digit \cup {";"} -> at("report", Append(buf, c))
          [] OTHER                            -> at("text", << >>)

\* The first two runs of digits, 0 where there is none.
Reported(buf) ==
    LET digits(i) == i \in DOMAIN buf /\ buf[i] \in DOMAIN Digit
        starts == {i \in DOMAIN buf : digits(i) /\ ~digits(i - 1)}
        run(i) == SubSeq(buf, i, Min({j \in i..Len(buf) : ~digits(j + 1)}))
        second == starts \ {Min(starts)}
    IN  IF Cardinality(starts) < 2 THEN <<0, 0>>
        ELSE <<Wrap(NumberOf(run(Min(starts)))), Wrap(NumberOf(run(Min(second))))>>

GetReply ==
    /\ pc \in {"ask", "reply"}
    /\ \E c \in {arrived[i].b : i \in DOMAIN arrived} :
        /\ Takes(c)
        /\ raced' = (raced \/ Mine # 0)
        /\ owed' = IF Mine # 0 /\ owed # << >> THEN Tail(owed) ELSE owed
        /\ LET h     == Hears(reply.state, reply.buf, c)
               heard == [total |-> reply.total + 1, state |-> h.state, buf |-> h.buf]
               r     == Reported(h.buf)
               over  == h.state = "whole" \/ heard.total >= ReplyMax \/ Len(h.buf) >= BufMax
           IN  /\ reply' = heard
               /\ pc' = IF over THEN "key" ELSE "reply"
               /\ size' = IF h.state = "whole" /\ r[1] > 0 /\ r[2] > 0 THEN r ELSE size
    /\ polls' = 0
    /\ UNCHANGED <<coming, kb, user, pressed, current, answer, wrong, spelled, did, sought>>
-----------------------------------------------------------------------------
(* The terminal and the user.                                              *)

Tagged(bs, k) == [i \in DOMAIN bs |-> [b |-> bs[i], k |-> k]]

\* What term_getch returns for the first bytes of a key: an arrow, or ESC if it
\* does not recognise them (term.c:359-362).
Returned(b) ==
    IF Len(b) = 1 THEN b[1]
    ELSE IF Begins(b) = 3 /\ b[3] \in DOMAIN Arrow THEN Arrow[b[3]] ELSE ESC

\* What the editor is to be given for a key, each further byte being a key of
\* its own, and the bytes, numbered from n + 1 after the keys they stand for.
StandsFor(b)   == <<Returned(b)>> \o SubSeq(b, Begins(b) + 1, Len(b))
Numbered(b, n) ==
    [i \in DOMAIN b |-> [b |-> b[i], k |-> n + (IF i <= Begins(b) THEN 1 ELSE i - Begins(b) + 1)]]

Press ==
    /\ Users[user].waits => owed = << >>
    /\ \E key \in Users[user].keys :
        LET given == StandsFor(Sends(key))
        IN  /\ pressed + Len(given) <= Users[user].presses
            /\ coming' = coming \o Numbered(Sends(key), pressed)
            /\ owed' = owed \o given
            /\ pressed' = pressed + Len(given)
    /\ UNCHANGED <<arrived, program, user, current, answer, told>>

Arrive ==
    /\ coming # << >>
    /\ arrived' = Append(arrived, Head(coming))
    /\ coming' = Tail(coming)
    /\ UNCHANGED <<program, user, pressed, owed, current, answer, told>>

Init ==
    /\ user \in DOMAIN Users
    /\ answer \in Users[user].answers
    /\ coming = Tagged(answer.bytes, 0) /\ arrived = << >>
    /\ pc = "ask" /\ polls = Polls
    /\ reply = [total |-> 0, state |-> "text", buf |-> << >>]
    /\ size = Default
    /\ kb = [mode |-> "normal", g_op |-> None, g_count |-> 0, g_hcnt |-> FALSE,
             g_g |-> FALSE, g_g_count |-> 1, waits |-> None, prompt |-> None, line |-> << >>,
             pat |-> [i \in 1..(LineMax + 1) |-> Nul]]
    /\ pressed = 0 /\ owed = << >> /\ current = 0
    /\ raced = FALSE /\ wrong = FALSE
    /\ spelled = << >> /\ did = Nothing /\ sought = << >>

Program == GetFirst \/ GetNext \/ PollKey \/ PollReply \/ GetReply
Next    == Program \/ Press \/ Arrive

Spec     == Init /\ [][Next]_vars
FairSpec == Spec /\ WF_vars(Program) /\ WF_vars(Arrive)
-----------------------------------------------------------------------------
(* What the program keeps is within its arrays, and its counts within 16    *)
(* bits.                                                                    *)
TypeOK ==
    /\ pc \in {"ask", "reply", "key", "esc", "bracket"} /\ polls \in 0..Polls
    /\ reply.total <= ReplyMax /\ Len(reply.buf) <= BufMax
    /\ kb.g_count \in (-MAXINT - 1)..MAXINT /\ kb.g_g_count \in (-MAXINT - 1)..MAXINT
    /\ kb.g_op \in Operators \cup {None} /\ kb.mode \in {"normal", "insert"}
    /\ Len(kb.line) <= LineMax /\ Len(kb.pat) = LineMax + 1 /\ Nul \in {kb.pat[i] : i \in DOMAIN kb.pat}

(* Unless bytes come too late, or are taken for those of another key or of  *)
(* the terminal's answer, the editor is given what the keys pressed stand   *)
(* for, each once and in order (term.c:359-393), the size query having left *)
(* none of them out: an arrow for an arrow key; for any other sequence ESC, *)
(* and its bytes behind the first two or three as keys of their own, for    *)
(* term_getch reads no further.                                             *)
KeysInOrder == ~raced => ~wrong

(* The editor starts with the size the terminal tells, or the default if it *)
(* tells none (term_getsize), whatever else comes before the report.        *)
SizeHonest ==
    pc \notin {"ask", "reply"} /\ ~raced /\ (\A b \in ToSet(coming \o arrived) : b.k # 0) =>
        size = answer.size

\* The digits a command begins with, and what follows them.
Digits(ks) ==
    LET n == CHOOSE n \in 0..Len(ks) :
                /\ \A i \in 1..n : ks[i] \in DOMAIN Digit /\ ks[1] # "0"
                /\ n < Len(ks) => ks[n + 1] \notin DOMAIN Digit \/ ks[1] = "0"
    IN  SubSeq(ks, 1, n)

\* What is on a line after keys were typed.
Typed(ks) ==
    FoldLeft(LAMBDA l, c : IF c = "BS" THEN IF l = << >> THEN l ELSE Front(l)
                           ELSE IF c \in DOMAIN Vertical \/ Len(l) >= LineMax THEN l ELSE Append(l, c),
             << >>, ks)

\* What keys mean by the grammar of zvi.1:97-330: a count, an operator and
\* its motion, a command and its operand; None if they do not mean anything.
Reading(ks) ==
    LET digits == Digits(ks)
        body   == SubSeq(ks, Len(digits) + 1, Len(ks))
        n      == IF digits = << >> THEN 1 ELSE NumberOf(digits)
        given  == digits # << >>
        last   == Last(ks)
        head   == body[1]
        means(c, m, a) == Command(None, c, m, given, a)
    IN  CASE head \in Operators ->
                IF last \in OpMotions \cup {head} THEN Command(head, last, n, FALSE, None) ELSE None
          [] head \in DOMAIN Alias -> Command(Alias[head][1], Alias[head][2], n, FALSE, None)
          [] head = "g" -> IF last = "g" THEN means("gg", n, None) ELSE None
          [] head \in {"r", "f", "F"} -> IF last = ESC THEN None ELSE means(head, n, last)
          [] head \in Prompts ->
                IF last = ESC \/ Typed(Tail(Front(body))) = << >> THEN None
                ELSE Command(None, head, 1, FALSE, Typed(Tail(Front(body))))
          [] head \in DOMAIN Vertical -> means(Vertical[head], n, None)
          [] head \in {"n", "N"} -> means(head, n, sought)
          [] OTHER -> means(head, n, None)

(* What is done is what was spelled: no count, operator or prefix of an     *)
(* earlier command is left over, and a search looks for the last pattern    *)
(* (get_count, normal_cmd, read_pattern); for counts of 16 bits.            *)
CommandsAsSpelled ==
    did.keys # << >> =>
        LET ks == did.keys
        IN  \/ did.does = Command(None, "insert", 1, FALSE, ks[1])
            \/ NumberOf(Digits(ks)) > MAXINT
            \/ sought = Unknown
            \/ did.does = Reading(ks)

(* The query ends and every key is read at last: the terminal answers in    *)
(* full, or not at all and no key is pressed meanwhile, for once a byte is  *)
(* there the rest of an answer is waited for without limit (term.c:427).    *)
AllRead ==
    (answer.bytes = << >> => [](reply.total = 0)) =>
        <>[](pc = "key" /\ coming = << >> /\ arrived = << >>)
=============================================================================
