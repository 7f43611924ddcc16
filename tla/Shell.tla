---------------------------------- MODULE Shell ----------------------------------
(***************************************************************************)
(* The shell's loop: a line is split at the first '|', each part into      *)
(* words, and its command run in the background, or in the foreground with *)
(* the shell in waitpid.  Programs end, and Ctrl-C is typed, at any time.  *)
(*                                                                         *)
(* pipe.c works on copies of its pipes, so none is ever initialized: every *)
(* program reads the keyboard, and what the left one writes is dropped.    *)
(***************************************************************************)
EXTENDS Integers, FiniteSets, Sequences, SequencesExt

CONSTANTS
  Child,         \* the processes that live at a time
  MAX_TERMINAL_CHARS, MAX_WORDS, MAX_WORD_LENGTH,
  NULL,
  MaxChildren    \* bounds the count of children

\* The names of a program and of a command that ends the shell; any other is
\* carried out by the shell itself, or not found.
PROGRAM == <<"p">>
EXIT == <<"x">>
AMPERSAND == <<"&">>
DELIMITER == "|"
BLANK == " "
Character == {"p", "x", "&", DELIMITER, BLANK}

ASSUME LineAssumption == MAX_TERMINAL_CHARS \in Nat \ {0}
\* A line of MAX_TERMINAL_CHARS (124) has fewer words than there is room for (80).
ASSUME WordAssumption ==
  /\ MAX_WORDS \in Nat \ {0} /\ MAX_WORD_LENGTH \in Nat \ {0}
  /\ MAX_TERMINAL_CHARS < 2 * MAX_WORDS
ASSUME ChildAssumption == IsFiniteSet(Child) /\ NULL \notin Child /\ MaxChildren \in Nat

VARIABLES
  pc,          \* ready, split, run, yield, asked, blocked, back or gone
  part,        \* what is carried out: whole, left or right
  line,        \* what bufferRead returned
  block,       \* the memory that pipeCmd holds, by part
  child,       \* the processes that live
  children,    \* the count of them
  foreground,  \* the one that Ctrl-C kills, or NULL when that is the shell
  opened,      \* the semaphores opened by pipes
  early        \* the program ended before the shell waited for it (history)

memory == <<line, block, opened>>
processes == <<child, children, foreground, early>>
vars == <<pc, part, memory, processes>>

-----------------------------------------------------------------------------
(* Words.                                                                  *)

\* A faulty variant: a word may be one character longer.
ExtendByOneMore(word, char) == IF Len(word) <= MAX_WORD_LENGTH THEN Append(word, char) ELSE word

\* What exceeds the length of a word is left out.
Extend(word, char) == IF Len(word) < MAX_WORD_LENGTH THEN Append(word, char) ELSE word

\* One character; inside is whether a word has begun.
Parsed(parsed, char) ==
  IF char = BLANK THEN [parsed EXCEPT !.inside = FALSE]
  ELSE IF parsed.inside
       THEN [parsed EXCEPT !.words[Len(parsed.words)] = Extend(@, char)]
       ELSE [words |-> Append(parsed.words, <<char>>), inside |-> TRUE]

parseString(str) == FoldLeft(Parsed, [words |-> <<>>, inside |-> FALSE], str).words

Text == IF part = "whole" THEN line ELSE block[part].text
Words == parseString(Text)

\* Whether the command goes to the background: with no argument what is before
\* argv is looked at, and it may be anything.
Ampersand == IF Len(Words) > 1 THEN {Last(Words) = AMPERSAND} ELSE BOOLEAN

-----------------------------------------------------------------------------
(* Pipes.                                                                  *)

Pipe == [fd |-> 0, in_use |-> FALSE, initialized |-> FALSE, name |-> ""]

\* findPipe finds no pipe of this name and nextAvailPipe the first; of what
\* becomes of its copy only the semaphore stays.
pipeOpen(name) == ~ Pipe.in_use /\ opened' = opened \cup {name}

\* The pipe has not been initialized.
pipeClose == ~ Pipe.initialized /\ UNCHANGED opened

-----------------------------------------------------------------------------

Init ==
  /\ pc = "ready" /\ part = "whole"
  /\ line = <<>> /\ block = <<>> /\ opened = {}
  /\ child = {} /\ children = 0 /\ foreground = NULL
  /\ early = FALSE

ReadLine ==
  /\ pc = "ready"
  /\ line' \in BoundedSeq(Character, MAX_TERMINAL_CHARS - 1)
  /\ pc' = "split"
  /\ UNCHANGED <<part, block, opened, processes>>

delimiterPos == SelectInSeq(line, LAMBDA char : char = DELIMITER)

Left == [size |-> delimiterPos, text |-> SubSeq(line, 1, delimiterPos - 1)]
Right == [size |-> Len(line) - delimiterPos + 1, text |-> SubSeq(line, delimiterPos + 1, Len(line))]

\* A line with no '|', or with no memory for its left part.
NotSplit ==
  /\ pc = "split"
  /\ pc' = "run" /\ part' = "whole"
  /\ UNCHANGED <<memory, processes>>

\* A faulty variant: the left part is kept when there is no memory for the right one.
KeepsLeft == [left |-> Left]

FreesLeft == <<>>

NoMemoryForRight ==
  /\ pc = "split" /\ delimiterPos # 0
  /\ block' = FreesLeft
  /\ pc' = "run" /\ part' = "whole"
  /\ UNCHANGED <<line, opened, processes>>

Split ==
  /\ pc = "split" /\ delimiterPos # 0
  /\ block' = [left |-> Left, right |-> Right]
  /\ pipeOpen("pipes")
  /\ pc' = "run" /\ part' = "left"
  /\ UNCHANGED <<line, processes>>

\* A faulty variant: what the right command returns is returned.
AfterRightAsIs(result) == IF result = 0 THEN "gone" ELSE "ready"

AfterRight(result) == "ready"

\* readBuffer returns.  exec never returns -1, so that nothing else is done.
Returned(result) ==
  \/ /\ part = "whole"
     /\ pc' = IF result = 0 THEN "gone" ELSE "ready"
     /\ line' = <<>> /\ UNCHANGED <<part, block>>
  \/ /\ part = "left"
     /\ pc' = "yield"
     /\ UNCHANGED <<part, line, block>>
  \/ /\ part = "right"
     /\ pc' = AfterRight(result)
     /\ line' = <<>> /\ block' = <<>> /\ part' = "whole"

\* readBuffer up to the return of exec.  A program of a left part, or with an
\* ampersand, does not take the foreground.
Run ==
  /\ pc = "run"
  /\ \E background \in Ampersand :
       /\ IF background THEN pipeOpen("&") ELSE UNCHANGED opened
       /\ IF Words # <<>> /\ Head(Words) = PROGRAM
          THEN /\ children < MaxChildren
               /\ \E c \in Child \ child :
                    /\ child' = child \cup {c} /\ children' = children + 1
                    /\ IF part = "left" \/ background
                       THEN Returned(1) /\ UNCHANGED <<foreground, early>>
                       ELSE /\ pc' = "asked" /\ foreground' = c
                            /\ UNCHANGED <<part, line, block, early>>
          ELSE /\ Returned(IF Words # <<>> /\ Head(Words) = EXIT THEN 0 ELSE 1)
               /\ UNCHANGED <<child, children, foreground, early>>

Yield ==
  /\ pc = "yield"
  /\ pc' = "run" /\ part' = "right"
  /\ UNCHANGED <<memory, processes>>

\* askWait, when the command was not sent to the background.
WaitPid ==
  /\ pc = "asked"
  /\ IF children > 0
     THEN pc' = "blocked" /\ UNCHANGED <<part, memory, early>>
     ELSE Returned(1) /\ early' = FALSE /\ UNCHANGED opened
  /\ UNCHANGED <<child, children, foreground>>

Awake ==
  /\ pc = "back"
  /\ Returned(1) /\ early' = FALSE
  /\ UNCHANGED <<opened, child, children, foreground>>

-----------------------------------------------------------------------------
(* What the scheduler does to the shell when a program ends.               *)

\* A faulty variant: the shell is only woken by its last child.
WakesLast(c, left) == left = 0

\* killFgroundProcess readies the shell; so does removeNode, for the last child.
Wakes(c, left) == c = foreground \/ left = 0

Ended(c, left) ==
  /\ child' = child \ {c} /\ children' = left
  /\ foreground' = IF c = foreground THEN NULL ELSE foreground
  /\ early' = (early \/ (c = foreground /\ pc = "asked"))
  /\ pc' = IF pc = "blocked" /\ Wakes(c, left) THEN "back" ELSE pc
  /\ UNCHANGED <<part, memory>>

ProgramEnds(c) ==
  /\ c \in child
  /\ Ended(c, children - 1)

\* The foreground process is killed.  It is taken off the parent of the process
\* that was interrupted, which need not be the shell.
CtrlC ==
  /\ foreground # NULL
  /\ \E left \in {children - 1, children} : Ended(foreground, left)

\* With no process in the background, the parent of the one that was interrupted
\* is made ready.
CtrlCAlone ==
  /\ foreground = NULL /\ child # {}
  /\ pc = "blocked" /\ pc' = "back"
  /\ UNCHANGED <<part, memory, processes>>

Next == \/ ReadLine \/ NotSplit \/ NoMemoryForRight \/ Split
        \/ Run \/ Yield \/ WaitPid \/ Awake
        \/ \E c \in Child : ProgramEnds(c)
        \/ CtrlC \/ CtrlCAlone

Spec == Init /\ [][Next]_vars

-----------------------------------------------------------------------------
(* Properties.                                                             *)

TypeOK ==
  /\ pc \in {"ready", "split", "run", "yield", "asked", "blocked", "back", "gone"}
  /\ part \in {"whole", "left", "right"}
  /\ line \in BoundedSeq(Character, MAX_TERMINAL_CHARS - 1)
  /\ opened \subseteq {"pipes", "&"}
  /\ child \subseteq Child /\ children \in Cardinality(child) .. MaxChildren
  /\ foreground \in child \cup {NULL}

\* The words of a text are its longest parts without blanks, each cut at
\* MAX_WORD_LENGTH, and the array has room for one more, which parseString writes.
WordsAreSplit ==
  pc = "run" =>
    LET n == Len(Text)
        In(i) == i \in 1 .. n /\ Text[i] # BLANK
        starts == {i \in 1 .. n : In(i) /\ ~ In(i - 1)}
        Start(k) == CHOOSE i \in starts : Cardinality({j \in starts : j <= i}) = k
        End(i) == CHOOSE j \in i .. n : ~ In(j + 1) /\ \A k \in i .. j : In(k)
        Cut(i) == IF End(i) < i + MAX_WORD_LENGTH THEN End(i) ELSE i + MAX_WORD_LENGTH - 1
    IN  /\ Words = [k \in 1 .. Cardinality(starts) |-> SubSeq(Text, Start(k), Cut(Start(k)))]
        /\ Len(Words) < MAX_WORDS

\* Memory for the parts of a line is there while they are carried out, long enough
\* for them and the 0 that is put after them, and at the prompt all of it has been
\* freed, however the line went.
PartsInMemory ==
  /\ TypeOK
  /\ DOMAIN block = IF part = "whole" THEN {} ELSE {"left", "right"}
  /\ \A p \in DOMAIN block : block[p].size > Len(block[p].text)
  /\ pc = "ready" => part = "whole"

\* The shell ends only by a line whose first word is the command to end it, whatever
\* follows, and that is carried out as a whole (as a piped one is whose parts get no
\* memory): never by a command that is part of a piped one.
EndsOnlyOnExit ==
  [][pc # "gone" /\ pc' = "gone" => part = "whole" /\ Head(Words) = EXIT /\ pc = "run"]_vars

\* A shell that is blocked waits for the program it started last, and not for those
\* it left in the background.  If that program ended first, it waits for another
\* to end, and there is one unless they have been miscounted.
WaitsForItsProgram ==
  pc = "blocked" =>
    \/ foreground # NULL
    \/ early /\ (child # {} \/ children > Cardinality(child))
==================================================================================
