-------------------------------- MODULE Terminal --------------------------------
(***************************************************************************)
(* The text on the screen: the video driver's printString, the shell's     *)
(* bufferRead, which edits a line on it, and what printf makes of numbers. *)
(*                                                                         *)
(* Text goes into cells of font characters, so that only the columns and   *)
(* rows of the present font matter: the screen is cleared when it changes. *)
(* printStringAt of programs that draw is left out.                        *)
(***************************************************************************)
EXTENDS Integers, FiniteSets, Sequences, SequencesExt

CONSTANTS
  WIDTH, HEIGHT,           \* of the screen, in pixels
  FONT_WIDTH, LINE_HEIGHT, \* of a character; LINE_HEIGHT is FONT_HEIGHT / 2
  MAX_FONTSIZE,
  COMMAND_CHAR,            \* the prompt
  MAX_TERMINAL_CHARS,
  Letters,                 \* the characters that are typed and shown
  Outputs,                 \* what commands print, a set of sequences
  INT_MAX,
  Numbers                  \* the numbers among it

NEWLINE == "newline"
BACKSPACE == "backspace"
CURSOR == "|"
BLANK == " "
SMEAR == "smear"

ASSUME ScreenAssumption ==
  /\ FONT_WIDTH \in Nat \ {0} /\ FONT_WIDTH % 2 = 0 /\ LINE_HEIGHT \in Nat \ {0}
  /\ MAX_FONTSIZE \in Nat \ {0}
  /\ WIDTH \in Nat /\ WIDTH >= FONT_WIDTH * MAX_FONTSIZE
  /\ HEIGHT \in Nat /\ HEIGHT >= LINE_HEIGHT * MAX_FONTSIZE
ASSUME LineAssumption ==
  /\ MAX_TERMINAL_CHARS \in Nat \ {0}
  /\ Letters \subseteq STRING /\ {NEWLINE, BACKSPACE, CURSOR, SMEAR} \cap Letters = {}
  /\ COMMAND_CHAR \in Seq(STRING \ {NEWLINE, BACKSPACE}) /\ COMMAND_CHAR # <<>>
  /\ Outputs \subseteq Seq(STRING)
ASSUME NumbersAssumption == INT_MAX \in Nat /\ Numbers \subseteq 0 .. INT_MAX

VARIABLES
  con,      \* the driver: fontSize, column (posX in characters), y_char and the cells
  place,    \* where the shell is: ready for a line, reading it or running it
  line,     \* what bufferRead has read
  text,     \* the text since the screen was cleared, its last lines (history)
  spilled   \* a line was read that may not have fitted into its row, or a program
            \* has moved the cursor back (history)

screenVars == <<con, place, line, text, spilled>>

-----------------------------------------------------------------------------
(* The video driver.                                                       *)

Row == 0 .. HEIGHT \div LINE_HEIGHT - 1
Column == 0 .. WIDTH \div FONT_WIDTH

Cleared(font) == [fontSize |-> font, column |-> 0, y_char |-> 0,
                  cell |-> [p \in Row \X Column |-> BLANK]]

\* No room for half a character; left of the screen posX is a large number.
AtEdge(c) ==
  \/ c.column < 0
  \/ c.fontSize * (c.column * FONT_WIDTH + FONT_WIDTH \div 2) > WIDTH

AtBottom(c) == (c.y_char + 2) * LINE_HEIGHT * c.fontSize >= HEIGHT

\* The rows move up.  With a larger font the copy goes on past the end of the
\* screen, into memory that is taken to be blank.
NextLine(c) ==
  IF AtBottom(c)
  THEN [c EXCEPT !.column = 0,
                 !.cell = [p \in Row \X Column |->
                             IF p[1] + 1 \in Row THEN c.cell[<<p[1] + 1, p[2]>>] ELSE BLANK]]
  ELSE [c EXCEPT !.column = 0, !.y_char = @ + 1]

\* A faulty variant: nothing is wiped.
WipesNothing(y, x) == {}

\* fillrect takes width and height and is given the lower right corner: it wipes
\* what is right of the character and below it, too.  In the first column the
\* width comes to one pixel.
Wiped(y, x) == (y .. 2 * y) \X (x .. 2 * x - 1)

Erased(c) ==
  LET x == c.column - 1
  IN  [c EXCEPT !.column = x,
                !.cell = [p \in Row \X Column |-> IF p \in Wiped(c.y_char, x) THEN BLANK ELSE @[p]]]

\* Only the pixels of the character are drawn, over what is there.
Drawn(c, char) ==
  [c EXCEPT !.column = @ + 1,
            !.cell[<<c.y_char, c.column>>] =
               IF char = BLANK THEN @ ELSE IF @ = BLANK THEN char ELSE SMEAR]

PutChar(c, char) ==
  LET d == IF AtEdge(c) \/ char = NEWLINE THEN NextLine(c) ELSE c
  IN  CASE char = BACKSPACE -> Erased(d)
        [] char = NEWLINE -> d
        [] OTHER -> Drawn(d, char)

PrintString(c, string) == FoldLeft(PutChar, c, string)

-----------------------------------------------------------------------------
(* Conversions.                                                            *)

DIGITS == <<"0", "1", "2", "3", "4", "5", "6", "7", "8", "9", "A", "B", "C", "D", "E", "F">>

DECIMAL == {DIGITS[i] : i \in 1 .. 10}

\* numToBase, uintToBase: the digits come out last first and are reversed.
numToBase(n, base) ==
  LET digits[k \in 0 .. n] ==
        IF k < base THEN <<DIGITS[k + 1]>> ELSE Append(digits[k \div base], DIGITS[(k % base) + 1])
  IN  digits[n]

ultoa(n) == numToBase(n, 10)

\* A faulty variant: a single digit is not filled up.
ItoaUnfilled(n) == ultoa(n)

\* itoa puts a 0 before a single digit.
itoa(n) == IF n < 10 THEN <<"0">> \o ultoa(n) ELSE ultoa(n)

\* What stands before the first of ends.
Before(string, ends) ==
  LET stops == {i \in 1 .. Len(string) + 1 : i > Len(string) \/ string[i] \in ends}
  IN  SubSeq(string, 1, (CHOOSE i \in stops : \A j \in stops : i <= j) - 1)

Value(digit) == (CHOOSE i \in 1 .. 10 : DIGITS[i] = digit) - 1

Valued(result, digit) == result * 10 + Value(digit)

\* atoul stops at the first character that is no digit.  Its result is an int:
\* beyond INT_MAX this is not what it returns.
atoul(string) == FoldLeft(Valued, 0, Before(string, ToSet(string) \ DECIMAL))

\* printf: %d, %o, %x and %ld, the d of which is text.
Formatted(format, n) ==
  CASE format = "d" -> numToBase(n, 10)
    [] format = "o" -> numToBase(n, 8)
    [] format = "x" -> <<"0", "x">> \o numToBase(n, 8)
    [] format = "ld" -> numToBase(n, 8) \o <<"d">>

\* Three numbers are written one behind the other, each with the 0 that ends it, and
\* then what comes after it over that 0.
Parts(a, b, c, separator) ==
  LET Put(buffer, at, s) ==
        [i \in 1 .. 9 |-> IF i - at + 1 \in DOMAIN s THEN s[i - at + 1]
                          ELSE IF i = at + Len(s) THEN "end" ELSE buffer[i]]
      one == [Put([i \in 1 .. 9 |-> "end"], 1, itoa(a)) EXCEPT ![3] = separator]
      two == [Put(one, 4, itoa(b)) EXCEPT ![6] = separator]
  IN  [Put(two, 7, itoa(c)) EXCEPT ![9] = "end"]

\* The hour of the real-time clock is put back by three, and then what came out as
\* 0, 1 or 2 once more, by a day; up to 3 it is not put back at first.
LocalHour(hours) ==
  LET back == IF hours > 3 THEN hours - 3 ELSE hours
  IN  IF back \in 0 .. 2 THEN back + 21 ELSE back

getTimeFormat(hours, minutes, seconds) == Parts(LocalHour(hours), minutes, seconds, ":")

getDateFormat(day, month, year) == Parts(day, month, year, "/")

-----------------------------------------------------------------------------
(* The text that was printed, whatever the screen is like (history).       *)

Columns(font) == Cardinality({x \in Column : ~ AtEdge([Cleared(font) EXCEPT !.column = x])})
Lines(font) == Cardinality({y \in Row : y = 0 \/ ~ AtBottom([Cleared(font) EXCEPT !.y_char = y - 1])})

Written(lines, char) ==
  LET last == lines[Len(lines)]
  IN  IF char = NEWLINE THEN Append(lines, <<>>)
      ELSE IF char = BACKSPACE THEN [lines EXCEPT ![Len(lines)] = IF @ = <<>> THEN @ ELSE Front(@)]
      ELSE IF Len(last) >= Columns(con.fontSize) THEN Append(lines, <<char>>)
      ELSE [lines EXCEPT ![Len(lines)] = Append(@, char)]

TextWith(string) ==
  LET all == FoldLeft(Written, text, string)
      kept == Lines(con.fontSize)
  IN  IF Len(all) <= kept THEN all ELSE SubSeq(all, Len(all) - kept + 1, Len(all))

Output(string) == con' = PrintString(con, string) /\ text' = TextWith(string)

-----------------------------------------------------------------------------

Clear(font) == con' = Cleared(font) /\ text' = << <<>> >> /\ spilled' = FALSE

ScreenInit ==
  /\ con = Cleared(1)
  /\ place = "ready" /\ line = <<>>
  /\ text = << <<>> >> /\ spilled = FALSE

Prompt ==
  /\ place = "ready"
  /\ Output(COMMAND_CHAR \o <<CURSOR>>)
  /\ line' = <<>>
  /\ place' = "reading"
  /\ spilled' = (spilled \/ con.column + Len(COMMAND_CHAR) + MAX_TERMINAL_CHARS >= Columns(con.fontSize))

ErasesBoth == <<BACKSPACE, BACKSPACE, CURSOR>>

Reading == place = "reading" /\ Len(line) < MAX_TERMINAL_CHARS - 1

Type ==
  /\ Reading
  /\ \E char \in Letters :
       /\ line' = Append(line, char)
       /\ Output(<<BACKSPACE, char, CURSOR>>)
  /\ UNCHANGED <<place, spilled>>

Erase ==
  /\ Reading
  /\ IF line # <<>>
     THEN line' = Front(line) /\ Output(ErasesBoth)
     ELSE UNCHANGED <<line, con, text>>
  /\ UNCHANGED <<place, spilled>>

\* The line ends with Enter, or when it is full.
EndLine ==
  /\ place = "reading"
  /\ Output(<<BACKSPACE, NEWLINE>>)
  /\ place' = "running"
  /\ UNCHANGED <<line, spilled>>

\* What a command does to the screen before the next line is read.  A program
\* that echoes a backspace may go back further than to what it printed.
PrintSome ==
  /\ place = "running"
  /\ \E string \in Outputs :
       /\ Output(string)
       /\ spilled' = (spilled \/ Contains(string, BACKSPACE))
  /\ place' = "ready"
  /\ UNCHANGED line

ClearScreen ==
  /\ place = "running"
  /\ Clear(con.fontSize)
  /\ place' = "ready"
  /\ UNCHANGED line

\* A size that is too large or too small leaves everything as it is.
changeFontSize ==
  /\ place = "running"
  /\ \E dif \in {-1, 1} :
       IF con.fontSize + dif \in 1 .. MAX_FONTSIZE
       THEN Clear(con.fontSize + dif)
       ELSE UNCHANGED <<con, text, spilled>>
  /\ place' = "ready"
  /\ UNCHANGED line

ScreenNext == \/ Prompt \/ Type \/ Erase \/ EndLine
              \/ PrintSome \/ ClearScreen \/ changeFontSize

ScreenSpec == ScreenInit /\ [][ScreenNext]_screenVars

-----------------------------------------------------------------------------
(* Properties.                                                             *)

\* The cursor stays on rows that can be seen, in every font and however often it
\* is moved back: a character is never drawn below the screen.
ScreenTypeOK ==
  /\ con.fontSize \in 1 .. MAX_FONTSIZE
  /\ con.column \in -1 .. Columns(con.fontSize)
  /\ con.y_char \in 0 .. Lines(con.fontSize) - 1
  /\ (con.y_char + 1) * LINE_HEIGHT * con.fontSize <= HEIGHT
  /\ place \in {"ready", "reading", "running"}
  /\ Len(line) < MAX_TERMINAL_CHARS
  /\ spilled \in BOOLEAN

Shown(p) ==
  IF p[1] < Len(text) /\ p[2] < Len(text[p[1] + 1]) THEN text[p[1] + 1][p[2] + 1] ELSE BLANK

\* What stands after the prompt while a line is edited is what will be executed.
EchoIsLine ==
  place = "reading" => IsSuffix(COMMAND_CHAR \o line \o <<CURSOR>>, text[Len(text)])

\* The screen shows the last lines of what was printed and nothing else, though a
\* backspace wipes more than a character and rows are moved: as long as lines
\* that are edited fit into their rows, and only they move the cursor back.  The
\* cursor stays on the screen always.
ScreenShowsText ==
  /\ ScreenTypeOK
  /\ ~ spilled => EchoIsLine /\ \A p \in Row \X Column : con.cell[p] = Shown(p)

\* Eight characters without an end between them, and each number where it should be.
PartsReadBack(parts, a, b, c) ==
  /\ \A i \in 1 .. 8 : parts[i] # "end"
  /\ atoul(SubSeq(parts, 1, 8)) = a
  /\ atoul(SubSeq(parts, 4, 8)) = b
  /\ atoul(SubSeq(parts, 7, 8)) = c

\* The hour three before; but 3, 4 and 5 o'clock are shown as 3, 22 and 23.
HourShown(hours) == IF hours \in (0 .. 23) \ (3 .. 5) THEN (hours + 21) % 24 ELSE LocalHour(hours)

ShownReadBack ==
  /\ \A n \in Numbers :
       /\ atoul(Formatted("d", n)) = n /\ atoul(ultoa(n)) = n /\ atoul(itoa(n)) = n
       /\ Len(ultoa(n)) > 1 => Head(ultoa(n)) # "0"
  /\ \A a, b, c \in {n \in Numbers : n < 100} :
       /\ PartsReadBack(getTimeFormat(a, b, c), HourShown(a), b, c)
       /\ PartsReadBack(getDateFormat(a, b, c), a, b, c)

\* Numbers that are shown in decimals read back as what they are, and a number
\* that is typed, a pid after kill for instance, would be shown as it was typed,
\* unless it is too large for an int.  A time or a date has two digits for each part,
\* and they read back as the date, the minutes and the seconds and, unless it is 3, 4
\* or 5 o'clock, as the hour three before that of the clock, round midnight.
NumbersReadBack ==
  /\ ShownReadBack
  /\ line # <<>> /\ Head(line) # "0" /\ ToSet(line) \subseteq DECIMAL /\ atoul(line) <= INT_MAX =>
       ultoa(atoul(line)) = line
===============================================================================
