----------------------------- MODULE CommandText -----------------------------
(***************************************************************************)
(* How wing_surface_console finds the texts of the commands scribble,      *)
(* scribble_cfg and csctext in the line that was typed: strtok takes the   *)
(* command and its arguments, and the texts are looked for behind the last *)
(* argument, in place, in a buffer that main fills anew for every line and *)
(* that keeps what it does not overwrite.                                  *)
(*                                                                         *)
(* A cell of the buffer holds a character; the command and a number are    *)
(* one character each.                                                     *)
(***************************************************************************)
EXTENDS Integers, SequencesExt

CONSTANTS Tails,        \* what may be typed behind the last argument
          Size,         \* INPUT_LEN
          Received      \* bytes the read buffer of main may hold

Space == " "
Quote == "'"
Nul == "0"
Number == "1"

(* Commands that end in texts, and the number of their arguments.           *)
Arguments == [scribble |-> 1, scribble_cfg |-> 4, csctext |-> 1]
Commands == DOMAIN Arguments \cup {"led"}

VARIABLES line,         \* the buffer, uninitialized between two lines
          typed,        \* the last line: [command, tail]
          sent          \* the texts sent for it, if any

vars == <<line, typed, sent>>

NoText == <<Nul>>       \* text2 == NULL
Nothing == [text1 |-> NoText, text2 |-> NoText]

-----------------------------------------------------------------------------
First(b, i, stop) == CHOOSE j \in i .. Size : b[j] \in stop /\ \A k \in i .. j - 1 : b[k] \notin stop
PastSpaces(b, i) == CHOOSE j \in i .. Size : b[j] # Space /\ \A k \in i .. j - 1 : b[k] = Space

CString(b, i) == SubSeq(b, i, First(b, i, {Nul}) - 1)

(* strtok: the token is cut off where it ends.                              *)
Token(scan) ==
    LET start == PastSpaces(scan.b, scan.at)
        end   == First(scan.b, start, {Space, Nul})
    IN  [b |-> [scan.b EXCEPT ![end] = Nul],
         at |-> IF scan.b[end] = Space THEN end + 1 ELSE end,
         end |-> end,
         token |-> SubSeq(scan.b, start, end - 1)]

Cut(b, end) == [b EXCEPT ![end] = Nul]

(* A text in quotes ends at the next quote, another at a space.             *)
Text(b, i) ==
    LET start == IF b[i] = Quote THEN i + 1 ELSE i
        end   == First(b, start, {Nul, IF b[i] = Quote THEN Quote ELSE Space})
    IN  [b |-> Cut(b, end), start |-> start,
         next |-> IF b[end] = Nul THEN end ELSE end + 1]

(* Both texts; what the first is is read when it is sent.                   *)
Texts(b, i) ==
    LET one   == Text(b, PastSpaces(b, i))
        i2    == PastSpaces(one.b, one.next)
        two   == Text(one.b, i2)
        has2  == one.b[i2] # Nul
        final == IF has2 THEN two.b ELSE one.b
    IN  [b |-> final,
         text1 |-> CString(final, one.start),
         text2 |-> IF has2 THEN CString(final, two.start) ELSE NoText]

(* handle_command: nothing is sent without a first text; csctext sends an   *)
(* empty second one.                                                        *)
Handle(b, command) ==
    LET n    == Arguments[command]
        Step(acc, k) == [scan |-> Token(acc.scan),
                         ok |-> acc.ok /\ (k = 0 \/ Token(acc.scan).token = <<Number>>)]
        args == FoldLeft(Step, [scan |-> [b |-> b, at |-> 1, end |-> 0, token |-> << >>],
                                ok |-> TRUE], [k \in 1 .. n + 1 |-> k - 1])
        texts == Texts(args.scan.b, args.scan.end + 1)
    IN  IF ~args.ok THEN [b |-> args.scan.b, sent |-> Nothing]
        ELSE [b |-> texts.b,
              sent |-> IF texts.text1 = << >> THEN Nothing
                       ELSE [text1 |-> texts.text1,
                             text2 |-> IF command = "csctext" /\ texts.text2 = NoText
                                       THEN << >> ELSE texts.text2]]

TypedLine(command, tail) ==
    <<command>> \o FlattenSeq([k \in 1 .. IF command = "led" THEN 0 ELSE Arguments[command] |->
                                   <<Space, Number>>]) \o tail

(* snprintf: the line and its end, over what was there.                     *)
Filled(cells) == cells \o <<Nul>> \o SubSeq(line, Len(cells) + 2, Size)

-----------------------------------------------------------------------------
Init == /\ line = [i \in 1 .. Size |-> Nul]
        /\ typed = [command |-> "led", tail |-> << >>]
        /\ sent = Nothing

(* Enter, with what handle_command does to the line.                        *)
Enter(command, tail) ==
    LET b == Filled(TypedLine(command, tail))
        done == IF command = "led"
                THEN [b |-> Token([b |-> b, at |-> 1, end |-> 0, token |-> << >>]).b,
                      sent |-> Nothing]
                ELSE Handle(b, command)
    IN  /\ line' = done.b /\ sent' = done.sent
        /\ typed' = [command |-> command, tail |-> tail]

(* The read buffer, of the same size and in another block of main, may be   *)
(* given the same place on the stack.                                       *)
Read(bytes) ==
    /\ line' = bytes \o SubSeq(line, Len(bytes) + 1, Size)
    /\ typed' = [command |-> "led", tail |-> << >>] /\ sent' = Nothing

Next == \/ \E command \in Commands, tail \in Tails : Enter(command, tail)
        \/ \E bytes \in Received : Read(bytes)

Spec == Init /\ [][Next]_vars

-----------------------------------------------------------------------------
Chars == Commands \cup {Space, Quote, Nul, Number, "a", "b"}

TypeOK == /\ line \in [1 .. Size -> Chars] /\ line[Size] = Nul
          /\ typed.command \in Commands /\ typed.tail \in Tails
          /\ Nul \notin Range(sent.text1) \/ sent = Nothing

(* text is what was typed at i, with or without quotes; the rest is at next.*)
StandsAt(tail, text, i, next) ==
    LET quoted == tail[i] = Quote
        start  == IF quoted THEN i + 1 ELSE i
        end    == start + Len(text)
        stop   == IF quoted THEN Quote ELSE Space
    IN  /\ end <= Len(tail) + 1
        /\ text = SubSeq(tail, start, end - 1) /\ stop \notin Range(text)
        /\ end = Len(tail) + 1 \/ tail[end] = stop
        /\ next = IF end = Len(tail) + 1 THEN end ELSE end + 1

OnlySpaces(tail, i, j) == \A k \in i .. j : tail[k] = Space

(* If anything was typed behind the arguments, what is sent is what was     *)
(* typed there: the first text, and the second or, if there is none, none   *)
(* (handle_command, scribble, scribble_cfg and csctext).                    *)
TextsAsTyped ==
    sent # Nothing /\ typed.tail # << >> =>
        \E i \in DOMAIN typed.tail, n, m \in 1 .. Len(typed.tail) + 1 :
            /\ OnlySpaces(typed.tail, 1, i - 1) /\ typed.tail[i] # Space
            /\ StandsAt(typed.tail, sent.text1, i, n)
            /\ n <= m /\ OnlySpaces(typed.tail, n, m - 1)
            /\ IF m > Len(typed.tail)
               THEN sent.text2 = IF typed.command = "csctext" THEN << >> ELSE NoText
               ELSE /\ typed.tail[m] # Space
                    /\ \E l \in 1 .. Len(typed.tail) + 1 : StandsAt(typed.tail, sent.text2, m, l)

(* Nothing is sent when no text was typed: the usage of the commands is     *)
(* "scribble <0-15> <text1> [text2]" (wing_surface_console.c:736).          *)
TextIsTyped == sent # Nothing => typed.tail # << >>
=============================================================================
