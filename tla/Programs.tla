-------------------------------- MODULE Programs --------------------------------
(***************************************************************************)
(* The programs cat, wc and filter, as what they print for the keys they   *)
(* are typed.  Each call of read returns one character: 0 for Enter, 4 for *)
(* Ctrl-D.  Lines are taken to fit into the buffer, which is not checked.  *)
(***************************************************************************)
EXTENDS Terminal

CONSTANTS
  BUFF_MAX,
  MaxTyped    \* bounds the keys typed to a program

NUL == "nul"
ENTER == "enter"
EOT == "Ctrl-D"

ASSUME BufferAssumption ==
  /\ MaxTyped \in Nat /\ BUFF_MAX \in Nat /\ BUFF_MAX > MaxTyped
  /\ BUFF_MAX >= MAX_TERMINAL_CHARS /\ {NUL, ENTER, EOT} \cap Letters = {}

TypedKey == {"a", "x", BLANK, ENTER, EOT}

-----------------------------------------------------------------------------
(* What the programs share.                                                *)

\* The buffer with what malloc left in it, and what has been printed.
Fresh(garbage) == [buff |-> [k \in 0 .. BUFF_MAX - 1 |-> garbage], i |-> 0, out |-> <<>>]

String(buff) ==
  LET length == CHOOSE k \in DOMAIN buff : buff[k] = NUL /\ \A j \in 0 .. k - 1 : buff[j] # NUL
  IN  [k \in 1 .. length |-> buff[k - 1]]

Echoed(s, c) == [s EXCEPT !.out = Append(@, c), !.buff[s.i] = c, !.i = @ + 1]

\* A faulty variant: the next line goes behind the one before.
TerminatedOnly(s) == [s EXCEPT !.buff[s.i] = NUL]

\* The line is a string, and the next one begins where it did.
LineEnded(s) == [s EXCEPT !.buff[s.i] = NUL, !.i = 0]

-----------------------------------------------------------------------------
(* The programs.                                                           *)

\* cat repeats every line, until Ctrl-D.
CatTurn(s, c) ==
  IF c = ENTER
  THEN [LineEnded(s) EXCEPT !.out = @ \o <<NEWLINE>> \o String(LineEnded(s).buff) \o <<NEWLINE>>]
  ELSE Echoed(s, c)

cat(keys) == FoldLeft(CatTurn, Fresh("garbage"), Before(keys, {EOT})).out

\* What wc has in its buffer after Ctrl-D: an unfinished line is not terminated.
WcTurn(s, c) == IF c = ENTER THEN LineEnded(s) ELSE Echoed(s, c)

WcBuffer(keys) == String(FoldLeft(WcTurn, Fresh(NUL), Before(keys, {EOT})).buff)

\* Its three counts.  The third is for lines that end with a 0, and there is no 0 in
\* a string; but of an empty one the byte in front of the buffer is looked at,
\* which belongs to the allocator or to another block and may be 0 or not.
Count(s, c) ==
  [char |-> s.char + 1,
   word |-> IF c # BLANK /\ ~ s.inWord THEN s.word + 1 ELSE s.word,
   inWord |-> c # BLANK]

InFront == {NUL, "garbage"}

wc(keys, front) ==
  LET total == FoldLeft(Count, [char |-> 0, word |-> 0, inWord |-> FALSE], WcBuffer(keys))
      last == IF total.char = 0 THEN front ELSE WcBuffer(keys)[total.char]
  IN  <<total.char, total.word, IF last = NUL THEN 1 ELSE 0>>

\* filter reads one line and keeps the vowels, in the buffer they are in.
isVowel(c) == c \in {"a", "e", "i", "o", "u", "A", "E", "I", "O", "U"}

Keep(s, k) ==
  IF isVowel(s.buff[k]) THEN [buff |-> [s.buff EXCEPT ![s.j] = s.buff[k]], j |-> s.j + 1] ELSE s

filter(keys) ==
  LET read == FoldLeft(Echoed, Fresh("garbage"), Before(keys, {ENTER, EOT}))
      typed == [read.buff EXCEPT ![read.i] = NUL]
      kept == FoldLeft(Keep, [buff |-> typed, j |-> 0], [k \in 1 .. read.i |-> k - 1])
  IN  read.out \o <<NEWLINE>> \o String([kept.buff EXCEPT ![kept.j] = NUL]) \o <<NEWLINE>>

-----------------------------------------------------------------------------
(* Properties.                                                             *)

\* The lines among the keys before Ctrl-D: the last one is unfinished, and empty
\* when there is nothing after the last Enter.
WithKey(lines, c) ==
  IF c = ENTER THEN Append(lines, <<>>) ELSE [lines EXCEPT ![Len(lines)] = Append(@, c)]

LinesOf(keys) == FoldLeft(WithKey, << <<>> >>, Before(keys, {EOT}))

Words(line0) == {k \in DOMAIN line0 : line0[k] # BLANK /\ (k = 1 \/ line0[k - 1] = BLANK)}

WithVowel(vowels, c) == IF isVowel(c) THEN Append(vowels, c) ELSE vowels

\* cat says every finished line twice; filter the vowels of the first line, in
\* order; wc counts the characters and words of the line when there is one, and of
\* the last one when that is finished.  What it says of lines is CountsLines.
Answers(keys) ==
  LET lines == LinesOf(keys)
      Twice(k) == IF k = Len(lines) THEN lines[k] ELSE lines[k] \o <<NEWLINE>> \o lines[k] \o <<NEWLINE>>
      counted == IF Len(lines) = 1 THEN lines[1] ELSE lines[Len(lines) - 1]
  IN  /\ cat(keys) = FlattenSeq([k \in DOMAIN lines |-> Twice(k)])
      /\ filter(keys) = lines[1] \o <<NEWLINE>> \o FoldLeft(WithVowel, <<>>, lines[1]) \o <<NEWLINE>>
      /\ Len(lines) = 1 \/ lines[Len(lines)] = <<>> =>
           \A front \in InFront : LET counts == wc(keys, front)
                                IN  counts[1] = Len(counted) /\ counts[2] = Cardinality(Words(counted))

AllAnswered == \A keys \in UNION {[1 .. n -> TypedKey] : n \in 0 .. MaxTyped} : Answers(keys)

\* Whatever keys are typed to cat, wc and filter, and the line on the screen for
\* one, they print what they are there for, though every line is written over the
\* one before and the buffer starts with what was left in it.
ProgramsAnswer == AllAnswered /\ Answers(line \o <<ENTER, EOT>>)

\* What the help of the shell says of wc (shell.c:78), "Prints the number of lines of
\* the input": when the line on the screen is all that is typed to it, it counts one.
\* It does not: it counts none, as the only 0 of a line is the one that ends the string.
CountsLines ==
  line # <<>> => \A front \in InFront : wc(line \o <<ENTER, EOT>>, front)[3] = 1
=================================================================================
