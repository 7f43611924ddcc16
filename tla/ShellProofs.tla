------------------------------- MODULE ShellProofs -------------------------------
(***************************************************************************)
(* Theorems of Shell, for any number of processes and any lengths of lines *)
(* and words.                                                              *)
(*                                                                         *)
(* First the loop of the shell: memory for parts goes with where it is,    *)
(* and when it waits, the program it started is there or ended early.      *)
(*                                                                         *)
(* Then words: FoldLeft is followed character by character (Followed), and *)
(* after each of them the words are those begun so far (SplitUpTo).        *)
(***************************************************************************)
EXTENDS Shell, FiniteSetTheorems, TLAPS

Sequence == INSTANCE SequenceTheorems

-----------------------------------------------------------------------------
(* Least and greatest elements.                                            *)

\* Every nonempty set of naturals has a least element.
LEMMA Smallest ==
  ASSUME NEW S \in SUBSET Nat, S # {}
  PROVE  \E n \in S : \A m \in S : n <= m
<1> DEFINE R == OpToRel(<, Nat)
<1>1. IsWellFoundedOn(R, Nat)
  BY NatLessThanWellFounded
<1>3. \A x, y \in Nat : x < y => <<x, y>> \in R
  BY DEF OpToRel
<1> HIDE DEF R
<1>2. PICK x \in S : \A y \in S : ~ (<<y, x>> \in R)
  BY <1>1, WFMin
<1>4. ASSUME NEW m \in S PROVE x <= m
  <2>1. m \in Nat /\ x \in Nat /\ <<m, x>> \notin R
    BY <1>2
  <2>2. ~(m < x)
    BY <1>3, <2>1
  <2> QED BY <2>1, <2>2
<1> QED BY <1>4

\* What holds of 0, and of n + 1 with n, holds of every natural.
LEMMA Induct ==
  ASSUME NEW S, 0 \in S, \A n \in Nat : n \in S => n + 1 \in S
  PROVE  Nat \subseteq S
<1> SUFFICES ASSUME Nat \ S # {} PROVE FALSE
  OBVIOUS
<1>1. PICK n \in Nat \ S : \A m \in Nat \ S : n <= m
  BY Smallest
<1>2. n # 0 /\ n - 1 \in Nat
  BY <1>1
<1>3. n - 1 \in S
  BY <1>1, <1>2
<1> QED BY <1>1, <1>2, <1>3

\* And when they are bounded a greatest one.
LEMMA Greatest ==
  ASSUME NEW S, S \subseteq Nat, S # {}, NEW n \in Nat, \A x \in S : x <= n
  PROVE  \E m \in S : \A x \in S : x <= m
<1> DEFINE T == {n - x : x \in S}
<1>6. \A x \in S : n - x \in Nat
  OBVIOUS
<1>1. T \subseteq Nat /\ T # {}
  BY <1>6
<1> HIDE DEF T
<1>2. PICK t \in T : \A y \in T : t <= y
  BY <1>1, Smallest
<1>3. PICK m \in S : t = n - m
  BY <1>2 DEF T
<1>4. \A x \in S : n - m <= n - x
  BY <1>2, <1>3 DEF T
<1>5. \A x \in S : x \in Nat /\ m \in Nat
  OBVIOUS
<1> QED BY <1>4, <1>5

-----------------------------------------------------------------------------
(* The loop of the shell.                                                  *)

\* A text that fits into a line.
Fits(s) == s \in Seq(Character) /\ Len(s) < MAX_TERMINAL_CHARS

\* Those are what is read.
LEMMA LinesFit == \A s : s \in BoundedSeq(Character, MAX_TERMINAL_CHARS - 1) <=> Fits(s)
<1>1. MAX_TERMINAL_CHARS - 1 \in Nat /\ MAX_TERMINAL_CHARS \in Nat
  BY LineAssumption
<1>2. ASSUME NEW n \in Nat
      PROVE  \A s : s \in BoundedSeq(Character, n) <=> s \in Seq(Character) /\ Len(s) <= n
  BY DEF BoundedSeq, SeqOf
<1>3. \A s : s \in BoundedSeq(Character, MAX_TERMINAL_CHARS - 1)
               <=> s \in Seq(Character) /\ Len(s) <= MAX_TERMINAL_CHARS - 1
  BY <1>1, <1>2
<1>4. \A s \in Seq(Character) : Len(s) <= MAX_TERMINAL_CHARS - 1 <=> Len(s) < MAX_TERMINAL_CHARS
  BY <1>1
<1> QED BY <1>3, <1>4 DEF Fits

\* A piece of a text that fits, and its length.
LEMMA PieceFits ==
  ASSUME NEW s, Fits(s), NEW i \in 1 .. Len(s) + 1, NEW j \in i - 1 .. Len(s)
  PROVE  Fits(SubSeq(s, i, j)) /\ Len(SubSeq(s, i, j)) = j - i + 1
<1>1. s \in Seq(Character) /\ Len(s) \in Nat /\ Len(s) < MAX_TERMINAL_CHARS
  BY DEF Fits
<1>2. SubSeq(s, i, j) \in Seq(Character) /\ Len(SubSeq(s, i, j)) = IF i <= j THEN j - i + 1 ELSE 0
  BY <1>1, Sequence!SubSeqProperties
<1> DEFINE t == SubSeq(s, i, j)
<1> HIDE DEF t
<1>3. t \in Seq(Character) /\ Len(t) = j - i + 1
  BY <1>1, <1>2 DEF t
<1>4. Len(t) < MAX_TERMINAL_CHARS
  BY <1>1, <1>3, LineAssumption
<1> QED BY <1>3, <1>4 DEF t, Fits

\* The two parts of a line, and the memory for them.
LEMMA PartsFit ==
  ASSUME Fits(line), delimiterPos # 0
  PROVE  /\ Fits(Left.text) /\ Left.size > Len(Left.text)
         /\ Fits(Right.text) /\ Right.size > Len(Right.text)
<1> DEFINE d == delimiterPos
           n == Len(line)
           marks == {i \in 1 .. n : line[i] = DELIMITER}
           left == SubSeq(line, 1, d - 1)
           right == SubSeq(line, d + 1, n)
<1>1. n \in Nat
  BY DEF Fits
<1>2. d \in 1 .. n
  <2>1. d = IF marks # {} THEN Min(marks) ELSE 0
    BY Zenon DEF delimiterPos, SelectInSeq
  <2>2. marks # {} /\ marks \in SUBSET Nat /\ marks \subseteq 1 .. n
    BY <2>1
  <2> HIDE DEF marks
  <2>3. \E i \in marks : \A j \in marks : i <= j
    BY <2>2, Smallest
  <2>4. Min(marks) \in marks
    BY <2>3 DEF Min
  <2> QED BY <2>1, <2>2, <2>4
<1>3. Left = [size |-> d, text |-> left] /\ Right = [size |-> n - d + 1, text |-> right]
  BY Zenon DEF Left, Right
<1> HIDE DEF d, n
<1>4. Fits(left) /\ Len(left) = d - 1
  <2>1. 1 \in 1 .. n + 1 /\ d - 1 \in 1 - 1 .. n /\ (d - 1) - 1 + 1 = d - 1
    BY <1>1, <1>2
  <2> QED BY <2>1, PieceFits DEF n
<1>5. Fits(right) /\ Len(right) = n - d
  <2>1. d + 1 \in 1 .. n + 1 /\ n \in (d + 1) - 1 .. n /\ n - (d + 1) + 1 = n - d
    BY <1>1, <1>2
  <2> QED BY <2>1, PieceFits DEF n
<1> HIDE DEF left, right
<1>6. d > Len(left) /\ n - d + 1 > Len(right)
  BY <1>1, <1>2, <1>4, <1>5
<1> QED BY <1>3, <1>4, <1>5, <1>6

\* Memory for the parts of a line is there while they are carried out, and what
\* is in it fits.
PartsHeld ==
  /\ DOMAIN block = IF part = "whole" THEN {} ELSE {"left", "right"}
  /\ \A p \in DOMAIN block : Fits(block[p].text) /\ block[p].size > Len(block[p].text)
  /\ pc \in {"ready", "split"} => part = "whole"
  /\ pc = "yield" => part = "left"

\* When the shell is about to wait, or does, its program is there or ended early;
\* when it does, a child is counted.
Waits ==
  /\ pc \in {"asked", "blocked"} => foreground # NULL \/ early
  /\ pc = "blocked" => children > 0

LoopInv == TypeOK /\ early \in BOOLEAN /\ PartsHeld /\ Waits

\* One more process, and one less.
LEMMA ChildCounts ==
  ASSUME child \subseteq Child
  PROVE  /\ Cardinality(child) \in Nat
         /\ \A c \in Child \ child : Cardinality(child \cup {c}) = Cardinality(child) + 1
         /\ \A c \in child : Cardinality(child \ {c}) = Cardinality(child) - 1
         /\ child = {} => Cardinality(child) = 0
<1>1. IsFiniteSet(child)
  BY ChildAssumption, FS_Subset
<1> QED BY <1>1, FS_CardinalityType, FS_AddElement, FS_RemoveElement, FS_EmptySet

\* The empty line, and no memory.
LEMMA Nothing == Fits(<<>>) /\ <<>> \in BoundedSeq(Character, MAX_TERMINAL_CHARS - 1) /\ DOMAIN <<>> = {}
<1>1. Fits(<<>>)
  BY LineAssumption DEF Fits
<1> QED BY <1>1, LinesFit

\* What readBuffer's return leaves.
LEMMA ReturnKeeps ==
  ASSUME LoopInv, NEW result, Returned(result)
  PROVE  /\ pc' \in {"ready", "yield", "gone"} /\ part' \in {"whole", "left", "right"}
         /\ line' \in BoundedSeq(Character, MAX_TERMINAL_CHARS - 1)
         /\ PartsHeld'
         /\ pc' = "gone" => result = 0 /\ part = "whole"
<1>1. CASE part = "whole" /\ pc' = (IF result = 0 THEN "gone" ELSE "ready") /\ line' = <<>> /\ UNCHANGED <<part, block>>
  BY <1>1, Nothing DEF LoopInv, TypeOK, PartsHeld
<1>2. CASE part = "left" /\ pc' = "yield" /\ UNCHANGED <<part, line, block>>
  BY <1>2 DEF LoopInv, TypeOK, PartsHeld
<1>3. CASE part = "right" /\ pc' = AfterRight(result) /\ line' = <<>> /\ block' = <<>> /\ part' = "whole"
  BY <1>3, Nothing DEF LoopInv, TypeOK, PartsHeld, AfterRight
<1> QED BY <1>1, <1>2, <1>3 DEF Returned

\* A process ends, and the count of children is as large as it should be.
LEMMA EndKeeps ==
  ASSUME LoopInv, NEW c \in child, NEW left \in {children - 1, children},
         pc = "blocked" => c = foreground \/ left = children - 1, Ended(c, left)
  PROVE  LoopInv'
<1>1. /\ child \subseteq Child /\ foreground \in child \cup {NULL}
      /\ MaxChildren \in Nat /\ NULL \notin Child
  BY ChildAssumption DEF LoopInv, TypeOK
<1>2. children \in Cardinality(child) .. MaxChildren /\ Cardinality(child) \in Nat
  BY <1>1, ChildCounts DEF LoopInv, TypeOK
<1>3. Cardinality(child \ {c}) = Cardinality(child) - 1
  BY <1>1, ChildCounts
<1>4. child' \subseteq Child /\ children' \in Cardinality(child') .. MaxChildren
  <2> DEFINE less == Cardinality(child \ {c})
  <2>1. Cardinality(child') = less /\ children' = left
    BY DEF Ended
  <2> HIDE DEF less
  <2>2. left \in less .. MaxChildren
    <3>1. less = Cardinality(child) - 1
      BY <1>3 DEF less
    <3> DEFINE n == Cardinality(child)
    <3>2. n \in Nat /\ less = n - 1 /\ children \in n .. MaxChildren
      BY <1>2, <3>1
    <3> HIDE DEF n
    <3> QED BY <1>1, <3>2
  <2> QED BY <1>1, <2>1, <2>2 DEF Ended
<1>5. foreground' \in child' \cup {NULL}
  BY <1>1 DEF Ended
<1>6. pc' = pc \/ pc' = "back"
  BY DEF Ended
<1>7. UNCHANGED <<part, line, block, opened>>
  BY DEF Ended, memory
<1>8. TypeOK' /\ early' \in BOOLEAN
  BY <1>4, <1>5, <1>6, <1>7 DEF LoopInv, TypeOK, Ended
<1>9. PartsHeld'
  BY <1>6, <1>7 DEF LoopInv, PartsHeld
<1>10. Waits'
  <2>1. CASE pc = "blocked" /\ pc' = "blocked"
    <3>1. ~ Wakes(c, left)
      BY <2>1 DEF Ended
    <3>2. c # foreground /\ left # 0 /\ left = children - 1
      BY <2>1, <3>1 DEF Wakes
    <3>3. children' > 0
      BY <1>2, <2>1, <3>2 DEF Ended, LoopInv, Waits
    <3> QED BY <2>1, <3>2, <3>3 DEF Ended, LoopInv, Waits
  <2>2. CASE pc = "asked" /\ pc' = "asked"
    BY <2>2 DEF Ended, LoopInv, Waits
  <2>3. CASE pc' \notin {"asked", "blocked"}
    BY <2>3 DEF Waits
  <2> QED BY <1>6, <2>1, <2>2, <2>3
<1> QED BY <1>8, <1>9, <1>10 DEF LoopInv

\* A command is carried out.
LEMMA RunKeeps ==
  ASSUME LoopInv, Run
  PROVE  LoopInv' /\ (pc' = "gone" => part = "whole" /\ Head(Words) = EXIT)
<1> DEFINE program == Words # <<>> /\ Head(Words) = PROGRAM
           exit == Words # <<>> /\ Head(Words) = EXIT
<1>1. PICK background \in Ampersand :
        /\ IF background THEN pipeOpen("&") ELSE UNCHANGED opened
        /\ IF program
           THEN /\ children < MaxChildren
                /\ \E c \in Child \ child :
                     /\ child' = child \cup {c} /\ children' = children + 1
                     /\ IF part = "left" \/ background
                        THEN Returned(1) /\ UNCHANGED <<foreground, early>>
                        ELSE /\ pc' = "asked" /\ foreground' = c
                             /\ UNCHANGED <<part, line, block, early>>
           ELSE /\ Returned(IF exit THEN 0 ELSE 1)
                /\ UNCHANGED <<child, children, foreground, early>>
  BY Zenon DEF Run
<1> HIDE DEF program
<1>2. opened' \subseteq {"pipes", "&"}
  BY <1>1 DEF pipeOpen, LoopInv, TypeOK
<1>3. /\ child \subseteq Child /\ children \in Cardinality(child) .. MaxChildren
      /\ foreground \in child \cup {NULL} /\ early \in BOOLEAN
      /\ Cardinality(child) \in Nat /\ NULL \notin Child /\ MaxChildren \in Nat
  BY ChildAssumption, ChildCounts DEF LoopInv, TypeOK
<1>4. CASE program
  <2>1. PICK c \in Child \ child :
          /\ child' = child \cup {c} /\ children' = children + 1
          /\ IF part = "left" \/ background
             THEN Returned(1) /\ UNCHANGED <<foreground, early>>
             ELSE /\ pc' = "asked" /\ foreground' = c
                  /\ UNCHANGED <<part, line, block, early>>
    BY <1>1, <1>4
  <2>2. child' \subseteq Child /\ children' \in Cardinality(child') .. MaxChildren
    <3> DEFINE n == Cardinality(child)
               more == Cardinality(child')
    <3>1. n \in Nat /\ children \in n .. MaxChildren /\ more = n + 1 /\ children < MaxChildren
      BY <1>1, <1>3, <1>4, <2>1, ChildCounts
    <3> HIDE DEF n, more
    <3>2. children + 1 \in more .. MaxChildren
      BY <1>3, <3>1
    <3> QED BY <1>3, <2>1, <3>2 DEF more
  <2>3. CASE part = "left" \/ background
    <3>1. Returned(1) /\ UNCHANGED <<foreground, early>>
      BY <2>1, <2>3
    <3>2. /\ pc' \in {"ready", "yield"} /\ part' \in {"whole", "left", "right"}
          /\ line' \in BoundedSeq(Character, MAX_TERMINAL_CHARS - 1) /\ PartsHeld'
      BY <3>1, ReturnKeeps
    <3>3. TypeOK' /\ early' \in BOOLEAN
      BY <1>2, <1>3, <2>1, <2>2, <3>1, <3>2 DEF TypeOK
    <3> QED BY <3>2, <3>3 DEF LoopInv, Waits
  <2>4. CASE ~(part = "left" \/ background)
    <3>1. pc' = "asked" /\ foreground' = c /\ UNCHANGED <<part, line, block, early>>
      BY <2>1, <2>4
    <3>2. TypeOK' /\ early' \in BOOLEAN
      BY <1>2, <1>3, <2>1, <2>2, <3>1 DEF TypeOK, LoopInv
    <3>3. PartsHeld' /\ Waits'
      BY <1>3, <3>1 DEF LoopInv, PartsHeld, Waits
    <3> QED BY <3>1, <3>2, <3>3 DEF LoopInv
  <2> QED BY <2>3, <2>4
<1>5. CASE ~ program
  <2>1. Returned(IF exit THEN 0 ELSE 1) /\ UNCHANGED <<child, children, foreground, early>>
    BY <1>1, <1>5
  <2> DEFINE result == IF exit THEN 0 ELSE 1
  <2> HIDE DEF result
  <2>2. /\ pc' \in {"ready", "yield", "gone"} /\ part' \in {"whole", "left", "right"}
        /\ line' \in BoundedSeq(Character, MAX_TERMINAL_CHARS - 1) /\ PartsHeld'
        /\ pc' = "gone" => result = 0 /\ part = "whole"
    BY <2>1, ReturnKeeps DEF result
  <2>3. TypeOK' /\ early' \in BOOLEAN
    <3>1. child' = child /\ children' = children /\ foreground' = foreground /\ early' = early
      BY <2>1
    <3>2. child' \subseteq Child /\ children' \in Cardinality(child') .. MaxChildren
      BY <1>3, <3>1
    <3> QED BY <1>2, <1>3, <2>2, <3>1, <3>2 DEF TypeOK
  <2>4. result = 0 => exit
    <3> HIDE DEF exit
    <3> QED BY DEF result
  <2> QED BY <2>2, <2>3, <2>4 DEF LoopInv, Waits
<1> QED BY <1>4, <1>5

\* At the start.
LEMMA LoopInit == Init => LoopInv
<1> SUFFICES ASSUME Init PROVE LoopInv
  OBVIOUS
<1>1. Cardinality({}) = 0 /\ MaxChildren \in Nat
  BY FS_EmptySet, ChildAssumption
<1>2. TypeOK
  BY <1>1, Nothing DEF Init, TypeOK
<1> QED BY <1>2, Nothing DEF Init, LoopInv, PartsHeld, Waits

\* What each step keeps.
LEMMA LoopNext ==
  ASSUME LoopInv, [Next]_vars
  PROVE  LoopInv' /\ (pc # "gone" /\ pc' = "gone" => part = "whole" /\ Head(Words) = EXIT /\ pc = "run")
<1>1. CASE ReadLine
  BY <1>1 DEF ReadLine, processes, LoopInv, TypeOK, PartsHeld, Waits
<1>2. CASE NotSplit
  BY <1>2 DEF NotSplit, memory, processes, LoopInv, TypeOK, PartsHeld, Waits
<1>3. CASE NoMemoryForRight
  BY <1>3, Nothing DEF NoMemoryForRight, FreesLeft, processes, LoopInv, TypeOK, PartsHeld, Waits
<1>4. CASE Split
  <2>1. Fits(line) /\ delimiterPos # 0
    BY <1>4, LinesFit DEF Split, LoopInv, TypeOK
  <2>2. /\ pc' = "run" /\ part' = "left" /\ UNCHANGED line /\ opened' = opened \cup {"pipes"}
        /\ UNCHANGED <<child, children, foreground, early>>
    BY <1>4 DEF Split, processes, pipeOpen
  <2>3. TypeOK'
    BY <2>2 DEF LoopInv, TypeOK
  <2> DEFINE l == Left
             r == Right
  <2>4. block' = [left |-> l, right |-> r]
    BY <1>4 DEF Split
  <2>5. Fits(l.text) /\ l.size > Len(l.text) /\ Fits(r.text) /\ r.size > Len(r.text)
    BY <2>1, PartsFit
  <2> HIDE DEF l, r
  <2>6. PartsHeld'
    BY <2>2, <2>4, <2>5 DEF PartsHeld
  <2> QED BY <2>2, <2>3, <2>6 DEF LoopInv, Waits
<1>5. CASE Run
  BY <1>5, RunKeeps DEF Run
<1>6. CASE Yield
  BY <1>6 DEF Yield, memory, processes, LoopInv, TypeOK, PartsHeld, Waits
<1>7. CASE WaitPid
  <2>1. UNCHANGED <<child, children, foreground, opened>>
    BY <1>7 DEF WaitPid, memory
  <2>2. CASE children > 0
    BY <1>7, <2>1, <2>2 DEF WaitPid, memory, LoopInv, TypeOK, PartsHeld, Waits
  <2>3. CASE ~(children > 0)
    <3>1. Returned(1) /\ early' = FALSE
      BY <1>7, <2>3 DEF WaitPid
    <3>2. /\ pc' \in {"ready", "yield"} /\ part' \in {"whole", "left", "right"}
          /\ line' \in BoundedSeq(Character, MAX_TERMINAL_CHARS - 1) /\ PartsHeld'
      BY <3>1, ReturnKeeps
    <3> QED BY <2>1, <3>1, <3>2 DEF LoopInv, TypeOK, Waits
  <2> QED BY <2>2, <2>3
<1>8. CASE Awake
  <2>1. UNCHANGED <<child, children, foreground, opened>> /\ Returned(1) /\ early' = FALSE
    BY <1>8 DEF Awake
  <2>2. /\ pc' \in {"ready", "yield"} /\ part' \in {"whole", "left", "right"}
        /\ line' \in BoundedSeq(Character, MAX_TERMINAL_CHARS - 1) /\ PartsHeld'
    BY <2>1, ReturnKeeps
  <2> QED BY <2>1, <2>2 DEF LoopInv, TypeOK, Waits
<1>9. CASE \E c \in Child : ProgramEnds(c)
  <2>1. PICK c \in Child : c \in child /\ Ended(c, children - 1)
    BY <1>9 DEF ProgramEnds
  <2>2. LoopInv'
    BY <2>1, EndKeeps
  <2> QED BY <2>1, <2>2 DEF Ended
<1>10. CASE CtrlC
  <2>1. PICK left \in {children - 1, children} : foreground # NULL /\ Ended(foreground, left)
    BY <1>10 DEF CtrlC
  <2>2. foreground \in child
    BY <2>1 DEF LoopInv, TypeOK
  <2>3. LoopInv'
    BY <2>1, <2>2, EndKeeps
  <2> QED BY <2>1, <2>3 DEF Ended
<1>11. CASE CtrlCAlone
  BY <1>11 DEF CtrlCAlone, memory, processes, LoopInv, TypeOK, PartsHeld, Waits
<1>12. CASE UNCHANGED vars
  BY <1>12 DEF vars, memory, processes, LoopInv, TypeOK, PartsHeld, Waits
<1> QED BY <1>1, <1>2, <1>3, <1>4, <1>5, <1>6, <1>7, <1>8, <1>9, <1>10, <1>11, <1>12 DEF Next

\* Memory goes with parts, and a shell that waits has its program or none.
THEOREM LoopInvariant == Spec => []LoopInv
<1>1. LoopInv /\ [Next]_vars => LoopInv'
  BY LoopNext
<1> QED BY <1>1, LoopInit, PTL DEF Spec

\* Memory for the parts of a line is there while they are carried out, long enough
\* for them, and at the prompt all of it has been freed (shell.c, pipeCmd).
THEOREM PartsStayInMemory == Spec => []PartsInMemory
<1>1. LoopInv => PartsInMemory
  BY DEF LoopInv, PartsHeld, PartsInMemory
<1> QED BY <1>1, LoopInvariant, PTL

\* A blocked shell waits for the program it started last; when that one ended first,
\* for one that lives or was miscounted (shell.c, readBuffer).
THEOREM WaitsForItsOwn == Spec => []WaitsForItsProgram
<1>1. ASSUME LoopInv PROVE WaitsForItsProgram
  <2>1. child \subseteq Child /\ children \in Cardinality(child) .. MaxChildren /\ MaxChildren \in Nat
    BY <1>1, ChildAssumption DEF LoopInv, TypeOK
  <2>2. child = {} => Cardinality(child) = 0
    BY FS_EmptySet
  <2>3. pc = "blocked" => children > 0 /\ (foreground # NULL \/ early)
    BY <1>1 DEF LoopInv, Waits
  <2> QED BY <2>1, <2>2, <2>3 DEF WaitsForItsProgram
<1> QED BY <1>1, LoopInvariant, PTL

\* The shell ends only by a line without parts whose first word is a command to end
\* it (shell.c, readBuffer and its callers).
THEOREM EndsByItsLine == Spec => EndsOnlyOnExit
<1>1. LoopInv /\ [Next]_vars
        => [pc # "gone" /\ pc' = "gone" => part = "whole" /\ Head(Words) = EXIT /\ pc = "run"]_vars
  BY LoopNext
<1> QED BY <1>1, LoopInvariant, PTL DEF Spec, EndsOnlyOnExit

-----------------------------------------------------------------------------
(* Words.                                                                  *)

NoWords == [words |-> <<>>, inside |-> FALSE]

\* The greatest of the numbers up to n is n.
LEMMA GreatestOfAll ==
  ASSUME NEW n \in Nat, NEW s, s \subseteq 1 .. n, n \in s
  PROVE  Max(s) = n
<1>1. n \in s /\ \A y \in s : n >= y
  OBVIOUS
<1>2. ASSUME NEW x \in s, \A y \in s : x >= y PROVE x = n
  <2>1. x \in 1 .. n /\ x >= n
    BY <1>2
  <2> QED BY <2>1
<1>3. Max(s) = CHOOSE x \in s : \A y \in s : x >= y
  BY Zenon DEF Max
<1> QED BY <1>1, <1>2, <1>3, Zenon

\* And some number of a set of them is.
LEMMA GreatestOfSome ==
  ASSUME NEW n \in Nat, NEW s, s \subseteq 1 .. n, s # {}
  PROVE  Max(s) \in s
<1>1. s \subseteq Nat /\ \A x \in s : x <= n
  OBVIOUS
<1>2. \E m \in s : \A x \in s : x <= m
  BY <1>1, Greatest
<1>3. \E m \in s : \A x \in s : m >= x
  BY <1>1, <1>2
<1> QED BY <1>3, Zenon DEF Max

\* A function that FoldLeft follows on the sets of the first n positions.
Follows(f, str, n) ==
  f = [s \in SUBSET (1 .. n) |->
         IF s = {} THEN NoWords ELSE Parsed(f[s \ {Max(s)}], str[Max(s)])]

\* There is one.
LEMMA FollowsOne ==
  ASSUME NEW str, NEW N \in Nat
  PROVE  \E f : Follows(f, str, N)
<1> DEFINE some == {n \in Nat : \E f : Follows(f, str, n)}
<1>1. 0 \in some
  <2> DEFINE f == [s \in SUBSET (1 .. 0) |-> NoWords]
  <2>1. \A s \in SUBSET (1 .. 0) : s = {}
    OBVIOUS
  <2>2. Follows(f, str, 0)
    BY <2>1, Zenon DEF Follows
  <2> QED BY <2>2
<1>2. ASSUME NEW n \in Nat, n \in some PROVE n + 1 \in some
  <2>1. PICK f : Follows(f, str, n)
    BY <1>2
  <2> DEFINE m == n + 1
             g == [s \in SUBSET (1 .. m) |->
                     IF m \in s THEN Parsed(f[s \ {m}], str[m]) ELSE f[s]]
             h == [s \in SUBSET (1 .. m) |->
                     IF s = {} THEN NoWords ELSE Parsed(g[s \ {Max(s)}], str[Max(s)])]
  <2>2. m \in Nat /\ 1 .. m = (1 .. n) \cup {m} /\ m \notin 1 .. n
    OBVIOUS
  <2> HIDE DEF m
  <2>3. ASSUME NEW s \in SUBSET (1 .. m) PROVE g[s] = h[s]
    <3>1. CASE s = {}
      <4>1. g[s] = f[s] /\ h[s] = NoWords
        BY <3>1
      <4>2. s \in SUBSET (1 .. n)
        BY <3>1
      <4>3. f[s] = NoWords
        BY <2>1, <3>1, <4>2, Zenon DEF Follows
      <4> QED BY <4>1, <4>3
    <3>2. CASE m \in s
      <4>1. Max(s) = m
        BY <2>2, <3>2, GreatestOfAll
      <4>2. g[s] = Parsed(f[s \ {m}], str[m])
        BY <3>2, Zenon
      <4>3. h[s] = Parsed(g[s \ {m}], str[m])
        BY <3>2, <4>1, Zenon
      <4>4. g[s \ {m}] = f[s \ {m}]
        <5>1. s \ {m} \in SUBSET (1 .. m) /\ m \notin s \ {m}
          OBVIOUS
        <5> QED BY <5>1, Zenon
      <4> QED BY <4>2, <4>3, <4>4, Zenon
    <3>3. CASE s # {} /\ m \notin s
      <4>1. s \in SUBSET (1 .. n)
        BY <2>2, <3>3
      <4>2. Max(s) \in s
        BY <3>3, <4>1, GreatestOfSome
      <4>3. g[s] = f[s]
        BY <3>3, Zenon
      <4>4. f[s] = Parsed(f[s \ {Max(s)}], str[Max(s)])
        BY <2>1, <3>3, <4>1, Zenon DEF Follows
      <4>5. h[s] = Parsed(g[s \ {Max(s)}], str[Max(s)])
        BY <3>3, Zenon
      <4>6. g[s \ {Max(s)}] = f[s \ {Max(s)}]
        <5>1. s \ {Max(s)} \in SUBSET (1 .. m) /\ m \notin s \ {Max(s)}
          BY <3>3
        <5> QED BY <5>1, Zenon
      <4> QED BY <4>3, <4>4, <4>5, <4>6, Zenon
    <3> QED BY <3>1, <3>2, <3>3
  <2>4. g = h
    BY <2>3, Zenon
  <2>5. Follows(g, str, m)
    BY <2>4, Zenon DEF Follows
  <2> QED BY <2>2, <2>5 DEF m
<1> HIDE DEF some
<1>3. Nat \subseteq some
  BY <1>1, <1>2, Induct
<1> QED BY <1>3 DEF some

\* So what parseString returns is reached one character at a time.
LEMMA Followed ==
  ASSUME NEW str \in Seq(Character)
  PROVE  \E q : /\ q[0] = NoWords
                /\ \A k \in 0 .. Len(str) - 1 : q[k + 1] = Parsed(q[k], str[k + 1])
                /\ parseString(str) = q[Len(str)].words
<1> DEFINE n == Len(str)
<1>1. n \in Nat /\ DOMAIN str = 1 .. n
  OBVIOUS
<1> HIDE DEF n
<1> DEFINE f == CHOOSE f : Follows(f, str, n)
<1>2. Follows(f, str, n)
  BY <1>1, FollowsOne, Zenon
<1>3. parseString(str) = f[1 .. n].words
  <2>1. parseString(str) =
          (CHOOSE g : g = [s \in SUBSET DOMAIN str |->
                             IF s = {} THEN [words |-> <<>>, inside |-> FALSE]
                             ELSE Parsed(g[s \ {Max(s)}], str[Max(s)])])[DOMAIN str].words
    BY Zenon DEF parseString, FoldLeft, MapThenFoldSet
  <2> QED BY <1>1, <2>1, Zenon DEF Follows, NoWords
<1> HIDE DEF f
<1> DEFINE q == [k \in 0 .. n |-> f[1 .. k]]
<1>4. q[0] = NoWords
  <2>1. 1 .. 0 = {} /\ {} \in SUBSET (1 .. n) /\ 0 \in 0 .. n
    BY <1>1
  <2>2. f[{}] = NoWords
    BY <1>2, <2>1, Zenon DEF Follows
  <2> QED BY <2>1, <2>2, Zenon
<1>5. ASSUME NEW k \in 0 .. n - 1 PROVE q[k + 1] = Parsed(q[k], str[k + 1])
  <2> DEFINE m == k + 1
  <2>1. /\ m \in Nat /\ 1 .. m # {} /\ (1 .. m) \ {m} = 1 .. k /\ m \in 1 .. m
        /\ 1 .. m \in SUBSET (1 .. n) /\ k \in 0 .. n /\ m \in 0 .. n
    <3>1. k \in Nat /\ k \in 0 .. n /\ m \in 0 .. n /\ m \in Nat /\ m \in 1 .. m
      BY <1>1
    <3>2. (1 .. m) \ {m} = 1 .. k
      BY <3>1
    <3>3. 1 .. m \in SUBSET (1 .. n)
      BY <1>1, <3>1
    <3> QED BY <3>1, <3>2, <3>3, Zenon
  <2> HIDE DEF m
  <2>2. Max(1 .. m) = m
    BY <2>1, GreatestOfAll
  <2>3. f[1 .. m] = Parsed(f[(1 .. m) \ {Max(1 .. m)}], str[Max(1 .. m)])
    BY <1>2, <2>1, Zenon DEF Follows
  <2>4. f[1 .. m] = Parsed(f[1 .. k], str[m])
    BY <2>1, <2>2, <2>3, Zenon
  <2>5. q[m] = Parsed(q[k], str[m])
    BY <2>1, <2>4, Zenon
  <2> QED BY <2>5 DEF m
<1>6. parseString(str) = q[n].words
  <2>1. n \in 0 .. n
    BY <1>1
  <2> QED BY <1>3, <2>1, Zenon
<1> HIDE DEF q
<1> QED BY <1>4, <1>5, <1>6 DEF n

\* Where a word is, where one starts, and where it is cut.
InWord(t, i) == i \in 1 .. Len(t) /\ t[i] # BLANK
StartsAt(t, i) == InWord(t, i) /\ ~ InWord(t, i - 1)
Cut(i, j) == IF j < i + MAX_WORD_LENGTH THEN j ELSE i + MAX_WORD_LENGTH - 1

\* The words w are those that start in the first k characters, from first[a] to
\* last[a] as far as they have been read, and one character apart at least.
SplitUpTo(t, k, w, first, last) ==
  /\ w \in Seq(Seq(Character))
  /\ first \in [1 .. Len(w) -> 1 .. k] /\ last \in [1 .. Len(w) -> 1 .. k]
  /\ \A a \in 1 .. Len(w) :
       /\ first[a] <= last[a] /\ \A x \in first[a] .. last[a] : InWord(t, x)
       /\ ~ InWord(t, first[a] - 1)
       /\ w[a] = SubSeq(t, first[a], Cut(first[a], last[a]))
       /\ ~ InWord(t, last[a] + 1) \/ (a = Len(w) /\ InWord(t, k))
  /\ \A a, b \in 1 .. Len(w) : a < b => first[a] < first[b]
  /\ \A i \in 1 .. k : StartsAt(t, i) => \E a \in 1 .. Len(w) : i = first[a]
  /\ InWord(t, k) => Len(w) > 0 /\ last[Len(w)] = k
  /\ 2 * Len(w) <= k + (IF InWord(t, k) THEN 1 ELSE 0)

\* A blank ends the word that was being read.
LEMMA BlankSplits ==
  ASSUME NEW t \in Seq(Character), NEW k \in 0 .. Len(t) - 1,
         NEW w, NEW first, NEW last, SplitUpTo(t, k, w, first, last), ~ InWord(t, k + 1)
  PROVE  SplitUpTo(t, k + 1, w, first, last)
<1> DEFINE m == k + 1
           n == Len(w)
<1>1. k \in Nat /\ m = k + 1 /\ n \in Nat
  BY DEF SplitUpTo
<1>2. /\ w \in Seq(Seq(Character))
      /\ first \in [1 .. n -> 1 .. k] /\ last \in [1 .. n -> 1 .. k]
      /\ \A a \in 1 .. n :
           /\ first[a] <= last[a] /\ \A x \in first[a] .. last[a] : InWord(t, x)
           /\ ~ InWord(t, first[a] - 1)
           /\ w[a] = SubSeq(t, first[a], Cut(first[a], last[a]))
           /\ ~ InWord(t, last[a] + 1) \/ (a = n /\ InWord(t, k))
      /\ \A a, b \in 1 .. n : a < b => first[a] < first[b]
      /\ \A i \in 1 .. k : StartsAt(t, i) => \E a \in 1 .. n : i = first[a]
      /\ InWord(t, k) => n > 0 /\ last[n] = k
      /\ 2 * n <= k + (IF InWord(t, k) THEN 1 ELSE 0)
      /\ ~ InWord(t, m)
  BY Zenon DEF SplitUpTo
<1> HIDE DEF m, n
<1>3. first \in [1 .. n -> 1 .. m] /\ last \in [1 .. n -> 1 .. m]
  BY <1>1, <1>2
<1>4. \A a \in 1 .. n : ~ InWord(t, last[a] + 1)
  <2> SUFFICES ASSUME NEW a \in 1 .. n PROVE ~ InWord(t, last[a] + 1)
    OBVIOUS
  <2>1. CASE ~ InWord(t, last[a] + 1)
    BY <2>1
  <2>2. CASE a = n /\ InWord(t, k)
    <3>1. last[a] + 1 = m
      BY <1>1, <1>2, <2>2
    <3> QED BY <1>2, <3>1, Zenon
  <2> QED BY <1>2, <2>1, <2>2, Zenon
<1>5. \A i \in 1 .. m : StartsAt(t, i) => \E a \in 1 .. n : i = first[a]
  <2>1. \A i \in 1 .. m : i \in 1 .. k \/ i = m
    BY <1>1
  <2> QED BY <1>2, <2>1, Zenon DEF StartsAt
<1>6. 2 * n <= m + (IF InWord(t, m) THEN 1 ELSE 0)
  BY <1>1, <1>2
<1>7. SplitUpTo(t, m, w, first, last)
  BY <1>2, <1>3, <1>4, <1>5, <1>6, Zenon DEF SplitUpTo, n
<1> QED BY <1>7 DEF m

\* Another character goes to the word that is being read, if there is room in it.
LEMMA CharacterSplits ==
  ASSUME NEW t \in Seq(Character), NEW k \in 0 .. Len(t) - 1,
         NEW w, NEW first, NEW last, SplitUpTo(t, k, w, first, last),
         InWord(t, k), InWord(t, k + 1)
  PROVE  SplitUpTo(t, k + 1, [w EXCEPT ![Len(w)] = Extend(@, t[k + 1])],
                   first, [last EXCEPT ![Len(w)] = k + 1])
<1> DEFINE m == k + 1
           n == Len(w)
           word == Extend(w[n], t[m])
           v == [w EXCEPT ![n] = word]
           end == [last EXCEPT ![n] = m]
<1>1. k \in Nat /\ m = k + 1 /\ n \in Nat
  BY DEF SplitUpTo
<1>2. /\ w \in Seq(Seq(Character))
      /\ first \in [1 .. n -> 1 .. k] /\ last \in [1 .. n -> 1 .. k]
      /\ \A a \in 1 .. n :
           /\ first[a] <= last[a] /\ \A x \in first[a] .. last[a] : InWord(t, x)
           /\ ~ InWord(t, first[a] - 1)
           /\ w[a] = SubSeq(t, first[a], Cut(first[a], last[a]))
           /\ ~ InWord(t, last[a] + 1) \/ (a = n /\ InWord(t, k))
      /\ \A a, b \in 1 .. n : a < b => first[a] < first[b]
      /\ \A i \in 1 .. k : StartsAt(t, i) => \E a \in 1 .. n : i = first[a]
      /\ n > 0 /\ last[n] = k
      /\ 2 * n <= k + 1
      /\ InWord(t, m) /\ InWord(t, k)
  BY Zenon DEF SplitUpTo
<1>3. n \in 1 .. n /\ Len(t) \in Nat /\ m \in 1 .. Len(t)
  BY <1>1, <1>2
<1> DEFINE s == first[n]
<1>4. s \in 1 .. k /\ w[n] = SubSeq(t, s, Cut(s, k))
  BY <1>2, <1>3, Zenon
<1> HIDE DEF m, n
<1>5. word = SubSeq(t, s, Cut(s, m)) /\ word \in Seq(Character)
  <2> HIDE DEF word, s
  <2> DEFINE L == MAX_WORD_LENGTH
             c == Cut(s, k)
             old == SubSeq(t, s, c)
  <2>1. L \in Nat \ {0}
    BY WordAssumption
  <2>2. c = (IF k < s + L THEN k ELSE s + L - 1) /\ c \in s .. k
    <3>1. c = IF k < s + L THEN k ELSE s + L - 1
      BY Zenon DEF Cut
    <3> QED BY <1>1, <1>4, <2>1, <3>1
  <2>3. Cut(s, m) = IF m < s + L THEN m ELSE s + L - 1
    BY Zenon DEF Cut
  <2> HIDE DEF L, c
  <2>4. s \in 1 .. Len(t) + 1 /\ c \in s - 1 .. Len(t) /\ s <= c /\ m \in s - 1 .. Len(t)
    BY <1>1, <1>3, <1>4, <2>2
  <2>5. old \in Seq(Character) /\ Len(old) = c - s + 1
    <3>1. /\ SubSeq(t, s, c) \in Seq(Character)
          /\ Len(SubSeq(t, s, c)) = IF s <= c THEN c - s + 1 ELSE 0
      BY <2>4, Sequence!SubSeqProperties
    <3> QED BY <2>4, <3>1
  <2> HIDE DEF old
  <2>6. word = IF Len(old) < L THEN Append(old, t[m]) ELSE old
    BY <1>4, Zenon DEF word, Extend, old, c, L
  <2>7. CASE Len(old) < L
    <3>1. c = k /\ Cut(s, m) = m
      BY <1>1, <1>4, <2>1, <2>2, <2>3, <2>5, <2>7
    <3>2. t[m] \in Character
      BY <1>3
    <3>3. Append(old, t[m]) = SubSeq(t, s, m)
      <4> DEFINE new == SubSeq(t, s, m)
                 both == Append(old, t[m])
      <4>1. /\ new \in Seq(Character) /\ Len(new) = m - s + 1
            /\ \A i \in 1 .. m - s + 1 : new[i] = t[s + i - 1]
        <5>1. /\ SubSeq(t, s, m) \in Seq(Character)
              /\ Len(SubSeq(t, s, m)) = IF s <= m THEN m - s + 1 ELSE 0
              /\ \A i \in 1 .. m - s + 1 : SubSeq(t, s, m)[i] = t[s + i - 1]
          BY <2>4, Sequence!SubSeqProperties, SMTT(30)
        <5>2. s <= m
          BY <1>1, <1>4
        <5> QED BY <5>1, <5>2
      <4>2. \A i \in 1 .. k - s + 1 : old[i] = t[s + i - 1]
        BY <2>4, <3>1, Sequence!SubSeqProperties DEF old
      <4>3. /\ both \in Seq(Character) /\ Len(both) = Len(old) + 1
            /\ \A i \in 1 .. Len(old) : both[i] = old[i]
            /\ both[Len(old) + 1] = t[m]
        BY <2>5, <3>2, Sequence!AppendProperties
      <4> HIDE DEF new, both
      <4>4. Len(both) = Len(new)
        BY <1>1, <1>4, <2>5, <3>1, <4>1, <4>3
      <4>5. ASSUME NEW i \in 1 .. Len(new) PROVE both[i] = new[i]
        <5>1. i \in 1 .. k - s + 1 \/ i = k - s + 2
          BY <1>1, <1>4, <4>1
        <5>2. CASE i \in 1 .. k - s + 1
          <6>1. i \in 1 .. Len(old) /\ i \in 1 .. m - s + 1
            BY <1>1, <1>4, <2>5, <3>1, <5>2
          <6> QED BY <4>1, <4>2, <4>3, <5>2, <6>1, Zenon
        <5>3. CASE i = k - s + 2
          <6>1. i = Len(old) + 1 /\ i \in 1 .. m - s + 1 /\ s + i - 1 = m
            BY <1>1, <1>4, <2>5, <3>1, <5>3
          <6> QED BY <4>1, <4>3, <6>1, Zenon
        <5> QED BY <5>1, <5>2, <5>3
      <4>6. both = new
        BY <4>1, <4>3, <4>4, <4>5, Sequence!SeqEqual
      <4> QED BY <4>6 DEF both, new
    <3>4. Append(old, t[m]) \in Seq(Character)
      BY <2>5, <3>2, Sequence!AppendProperties
    <3> QED BY <2>6, <2>7, <3>1, <3>3, <3>4, Zenon
  <2>8. CASE ~(Len(old) < L)
    <3>1. Cut(s, m) = c
      BY <1>1, <1>4, <2>1, <2>2, <2>3, <2>5, <2>8
    <3> QED BY <2>5, <2>6, <2>8, <3>1, Zenon DEF old
  <2> QED BY <2>7, <2>8
<1> HIDE DEF word
<1>6. v \in Seq(Seq(Character)) /\ Len(v) = n
  <2>1. n \in 1 .. Len(w)
    BY <1>3 DEF n
  <2> QED BY <1>2, <1>5, <2>1, Sequence!ExceptSeq DEF n
<1>7. v[n] = word /\ \A a \in 1 .. n : a # n => v[a] = w[a]
  <2>1. DOMAIN w = 1 .. n
    BY <1>2 DEF n
  <2> QED BY <1>3, <2>1, Zenon
<1>8. end[n] = m /\ \A a \in 1 .. n : a # n => end[a] = last[a]
  <2>1. DOMAIN last = 1 .. n
    BY <1>2
  <2> QED BY <1>3, <2>1, Zenon
<1>9. first \in [1 .. n -> 1 .. m] /\ end \in [1 .. n -> 1 .. m]
  BY <1>1, <1>2
<1> HIDE DEF v, end
<1>10. ASSUME NEW a \in 1 .. n
       PROVE  /\ first[a] <= end[a] /\ \A x \in first[a] .. end[a] : InWord(t, x)
              /\ ~ InWord(t, first[a] - 1)
              /\ v[a] = SubSeq(t, first[a], Cut(first[a], end[a]))
              /\ ~ InWord(t, end[a] + 1) \/ (a = n /\ InWord(t, m))
  <2>1. CASE a # n
    BY <1>2, <1>7, <1>8, <2>1, Zenon
  <2>2. CASE a = n
    <3>1. s <= k /\ \A x \in s .. k : InWord(t, x)
      BY <1>2, <1>3, Zenon
    <3>2. s <= m /\ \A x \in s .. m : x \in s .. k \/ x = m
      BY <1>1, <1>4
    <3>3. v[a] = SubSeq(t, s, Cut(s, m))
      BY <1>5, <1>7, <2>2, Zenon
    <3> QED BY <1>2, <1>3, <1>8, <2>2, <3>1, <3>2, <3>3, Zenon
  <2> QED BY <2>1, <2>2
<1>11. \A i \in 1 .. m : StartsAt(t, i) => \E a \in 1 .. n : i = first[a]
  <2>1. \A i \in 1 .. m : i \in 1 .. k \/ i = m
    BY <1>1
  <2>2. m - 1 = k
    BY <1>1
  <2> QED BY <1>2, <2>1, <2>2, Zenon DEF StartsAt
<1>12. 2 * n <= m + (IF InWord(t, m) THEN 1 ELSE 0)
  BY <1>1, <1>2
<1>13. SplitUpTo(t, m, v, first, end)
  BY <1>2, <1>6, <1>8, <1>9, <1>10, <1>11, <1>12, Zenon DEF SplitUpTo
<1> QED BY <1>13, Zenon DEF m, n, v, end, word

\* And the first character of a word to a new one.
LEMMA FirstSplits ==
  ASSUME NEW t \in Seq(Character), NEW k \in 0 .. Len(t) - 1,
         NEW w, NEW first, NEW last, SplitUpTo(t, k, w, first, last),
         ~ InWord(t, k), InWord(t, k + 1)
  PROVE  \E f, l : SplitUpTo(t, k + 1, Append(w, <<t[k + 1]>>), f, l)
<1> DEFINE m == k + 1
           n == Len(w)
           p == n + 1
           word == <<t[m]>>
           v == Append(w, word)
           f == [a \in 1 .. p |-> IF a = p THEN m ELSE first[a]]
           l == [a \in 1 .. p |-> IF a = p THEN m ELSE last[a]]
<1>1. k \in Nat /\ m = k + 1 /\ n \in Nat /\ p = n + 1
  BY DEF SplitUpTo
<1>2. /\ w \in Seq(Seq(Character))
      /\ first \in [1 .. n -> 1 .. k] /\ last \in [1 .. n -> 1 .. k]
      /\ \A a \in 1 .. n :
           /\ first[a] <= last[a] /\ \A x \in first[a] .. last[a] : InWord(t, x)
           /\ ~ InWord(t, first[a] - 1)
           /\ w[a] = SubSeq(t, first[a], Cut(first[a], last[a]))
           /\ ~ InWord(t, last[a] + 1) \/ (a = n /\ InWord(t, k))
      /\ \A a, b \in 1 .. n : a < b => first[a] < first[b]
      /\ \A i \in 1 .. k : StartsAt(t, i) => \E a \in 1 .. n : i = first[a]
      /\ 2 * n <= k + (IF InWord(t, k) THEN 1 ELSE 0)
      /\ InWord(t, m) /\ ~ InWord(t, k)
  BY Zenon DEF SplitUpTo
<1>3. Len(t) \in Nat /\ m \in 1 .. Len(t) /\ p \in 1 .. p
  BY <1>1, <1>2
<1>4. t[m] \in Character
  BY <1>3
<1> HIDE DEF m, n
<1>5. word \in Seq(Character) /\ word = SubSeq(t, m, Cut(m, m))
  <2>1. Cut(m, m) = m
    <3>1. MAX_WORD_LENGTH \in Nat \ {0}
      BY WordAssumption
    <3>2. Cut(m, m) = IF m < m + MAX_WORD_LENGTH THEN m ELSE m + MAX_WORD_LENGTH - 1
      BY Zenon DEF Cut
    <3>3. m < m + MAX_WORD_LENGTH
      BY <1>1, <3>1
    <3> QED BY <3>2, <3>3, Zenon
  <2> DEFINE one == SubSeq(t, m, m)
  <2>2. one \in Seq(Character) /\ Len(one) = 1 /\ one[1] = t[m]
    <3>1. m \in 1 .. Len(t) + 1 /\ m \in m - 1 .. Len(t) /\ m <= m /\ m - m + 1 = 1 /\ m + 1 - 1 = m
      BY <1>1, <1>3
    <3>2. /\ SubSeq(t, m, m) \in Seq(Character)
          /\ Len(SubSeq(t, m, m)) = IF m <= m THEN m - m + 1 ELSE 0
          /\ \A i \in 1 .. m - m + 1 : SubSeq(t, m, m)[i] = t[m + i - 1]
      BY <3>1, Sequence!SubSeqProperties
    <3> QED BY <3>1, <3>2
  <2> HIDE DEF one
  <2>3. word \in Seq(Character) /\ Len(word) = 1 /\ word[1] = t[m]
    BY <1>4
  <2> HIDE DEF word
  <2>4. word = one
    <3>1. \A i \in 1 .. Len(word) : word[i] = one[i]
      BY <2>2, <2>3
    <3> QED BY <2>2, <2>3, <3>1, Sequence!SeqEqual
  <2> QED BY <2>1, <2>3, <2>4, Zenon DEF one
<1> HIDE DEF word
<1>6. /\ v \in Seq(Seq(Character)) /\ Len(v) = p
      /\ \A a \in 1 .. n : v[a] = w[a]
      /\ v[p] = word
  BY <1>2, <1>5, Sequence!AppendProperties, SMTT(30) DEF n
<1> HIDE DEF v
<1>7. p \in Nat /\ p \notin 1 .. n /\ \A a \in 1 .. p : a \in 1 .. n \/ a = p
  BY <1>1
<1>8. \A a \in 1 .. n : a \in 1 .. p
  BY <1>1
<1> HIDE DEF p
<1>9. /\ f[p] = m /\ l[p] = m
      /\ \A a \in 1 .. n : f[a] = first[a] /\ l[a] = last[a]
  BY <1>3, <1>7, <1>8, Zenon
<1>10. f \in [1 .. p -> 1 .. m] /\ l \in [1 .. p -> 1 .. m]
  <2>1. \A x \in 1 .. k : x \in 1 .. m
    BY <1>1
  <2>2. m \in 1 .. m
    BY <1>1
  <2>3. \A a \in 1 .. p : f[a] \in 1 .. m /\ l[a] \in 1 .. m
    BY <1>2, <1>7, <1>9, <2>1, <2>2, Zenon
  <2> QED BY <2>3, Zenon
<1> HIDE DEF f, l
<1>11. ASSUME NEW a \in 1 .. p
       PROVE  /\ f[a] <= l[a] /\ \A x \in f[a] .. l[a] : InWord(t, x)
              /\ ~ InWord(t, f[a] - 1)
              /\ v[a] = SubSeq(t, f[a], Cut(f[a], l[a]))
              /\ ~ InWord(t, l[a] + 1) \/ (a = p /\ InWord(t, m))
  <2>1. CASE a \in 1 .. n
    BY <1>2, <1>6, <1>9, <2>1, Zenon
  <2>2. CASE a = p
    <3>1. m <= m /\ m - 1 = k /\ \A x \in m .. m : x = m
      BY <1>1
    <3>2. v[a] = SubSeq(t, m, Cut(m, m))
      BY <1>5, <1>6, <2>2, Zenon
    <3> QED BY <1>2, <1>9, <2>2, <3>1, <3>2, Zenon
  <2> QED BY <1>7, <2>1, <2>2
<1>12. \A a, b \in 1 .. p : a < b => f[a] < f[b]
  <2> SUFFICES ASSUME NEW a \in 1 .. p, NEW b \in 1 .. p, a < b PROVE f[a] < f[b]
    OBVIOUS
  <2>1. a \in 1 .. n
    BY <1>1 DEF p
  <2>2. CASE b \in 1 .. n
    BY <1>2, <1>9, <2>1, <2>2, Zenon
  <2>3. CASE b = p
    <3>1. first[a] \in 1 .. k
      BY <1>2, <2>1
    <3>2. first[a] < m
      BY <1>1, <3>1
    <3> QED BY <1>9, <2>1, <2>3, <3>2, Zenon
  <2> QED BY <1>7, <2>2, <2>3
<1>13. \A i \in 1 .. m : StartsAt(t, i) => \E a \in 1 .. p : i = f[a]
  <2>1. \A i \in 1 .. m : i \in 1 .. k \/ i = m
    BY <1>1
  <2>2. \A i \in 1 .. k : StartsAt(t, i) => \E a \in 1 .. p : i = f[a]
    BY <1>2, <1>8, <1>9, SMTT(30)
  <2>3. m = f[p]
    BY <1>9
  <2> QED BY <1>3, <2>1, <2>2, <2>3, Zenon
<1>14. 2 * p <= m + (IF InWord(t, m) THEN 1 ELSE 0)
  BY <1>1, <1>2 DEF p
<1>15. p > 0
  BY <1>1 DEF p
<1>16. SplitUpTo(t, m, v, f, l)
  BY <1>2, <1>6, <1>9, <1>10, <1>11, <1>12, <1>13, <1>14, <1>15, Zenon DEF SplitUpTo
<1> QED BY <1>16, Zenon DEF m, v, word

\* What changes one field of what is parsed.
LEMMA Changes ==
  ASSUME NEW w, NEW b, NEW n, NEW char, NEW now, now = [words |-> w, inside |-> b]
  PROVE  /\ [now EXCEPT !.inside = FALSE] = [words |-> w, inside |-> FALSE]
         /\ [now EXCEPT !.words[n] = Extend(@, char)]
              = [words |-> [w EXCEPT ![n] = Extend(@, char)], inside |-> b]
<1>1. now.words = w /\ now.inside = b
  OBVIOUS
<1>2. [now EXCEPT !.inside = FALSE] = [words |-> w, inside |-> FALSE]
  <2>1. ASSUME NEW f PROVE [now EXCEPT !.inside = f] = [words |-> w, inside |-> f]
    OBVIOUS
  <2> QED BY <2>1, Zenon
<1> DEFINE v == [w EXCEPT ![n] = Extend(@, char)]
<1>3. [now EXCEPT !.words = v] = [words |-> v, inside |-> b]
  <2> HIDE DEF v
  <2> QED OBVIOUS
<1>4. [now EXCEPT !.words[n] = Extend(@, char)] = [now EXCEPT !.words = v]
  BY <1>1, Zenon
<1> QED BY <1>2, <1>3, <1>4, Zenon

\* After every character the words are those that start before it.
LEMMA SplitsAll ==
  ASSUME NEW t \in Seq(Character)
  PROVE  \E first, last : SplitUpTo(t, Len(t), parseString(t), first, last)
<1>1. PICK q : /\ q[0] = NoWords
               /\ \A k \in 0 .. Len(t) - 1 : q[k + 1] = Parsed(q[k], t[k + 1])
               /\ parseString(t) = q[Len(t)].words
  BY Followed
<1> DEFINE Good(k) == \E w, first, last :
                        /\ q[k] = [words |-> w, inside |-> InWord(t, k)]
                        /\ SplitUpTo(t, k, w, first, last)
           split == {k \in Nat : k <= Len(t) => Good(k)}
<1>2. Len(t) \in Nat
  OBVIOUS
<1>3. Good(0)
  <2> DEFINE none == [a \in 1 .. 0 |-> 1]
  <2>1. ~ InWord(t, 0)
    BY DEF InWord
  <2>2. SplitUpTo(t, 0, <<>>, none, none)
    BY <2>1 DEF SplitUpTo
  <2>3. q[0] = [words |-> <<>>, inside |-> InWord(t, 0)]
    <3>1. InWord(t, 0) = FALSE
      BY <2>1 DEF InWord
    <3> QED BY <1>1, <3>1, Zenon DEF NoWords
  <2> QED BY <2>2, <2>3, Zenon
<1>4. ASSUME NEW k \in 0 .. Len(t) - 1, Good(k) PROVE Good(k + 1)
  <2>1. PICK w, first, last : /\ q[k] = [words |-> w, inside |-> InWord(t, k)]
                              /\ SplitUpTo(t, k, w, first, last)
    BY <1>4, Zenon
  <2> DEFINE m == k + 1
             char == t[m]
             now == q[k]
  <2>2. q[m] = Parsed(now, char)
    BY <1>1
  <2>3. InWord(t, m) = (char # BLANK)
    BY DEF InWord
  <2>4. w \in Seq(Seq(Character))
    BY <2>1 DEF SplitUpTo
  <2> HIDE DEF m, char
  <2>5. /\ now = [words |-> w, inside |-> InWord(t, k)]
        /\ now.words = w /\ now.inside = InWord(t, k)
    <3>1. now = [words |-> w, inside |-> InWord(t, k)]
      BY <2>1, Zenon
    <3>2. now.words = w /\ now.inside = InWord(t, k)
      BY <2>1
    <3> QED BY <3>1, <3>2, Zenon
  <2> HIDE DEF now
  <2>6. CASE char = BLANK
    <3>1. q[m] = [now EXCEPT !.inside = FALSE]
      BY <2>2, <2>6, Zenon DEF Parsed
    <3>2. InWord(t, m) = FALSE
      BY <2>3, <2>6
    <3>3. q[m] = [words |-> w, inside |-> InWord(t, m)]
      <4>1. [now EXCEPT !.inside = FALSE] = [words |-> w, inside |-> FALSE]
        BY <2>5, Changes, ZenonT(60)
      <4> QED BY <3>1, <3>2, <4>1, Zenon
    <3>4. SplitUpTo(t, m, w, first, last)
      BY <2>1, <3>2, BlankSplits DEF m
    <3> QED BY <3>3, <3>4, Zenon DEF m
  <2>7. CASE char # BLANK /\ InWord(t, k)
    <3> DEFINE n == Len(w)
               v == [w EXCEPT ![n] = Extend(@, char)]
    <3>1. q[m] = [now EXCEPT !.words[Len(now.words)] = Extend(@, char)]
      BY <2>2, <2>5, <2>7, Zenon DEF Parsed
    <3>2. InWord(t, m) = TRUE
      BY <2>3, <2>7
    <3>3. q[m] = [words |-> v, inside |-> InWord(t, m)]
      <4>1. q[m] = [words |-> v, inside |-> InWord(t, k)]
        <5>1. now = [words |-> w, inside |-> InWord(t, k)] /\ Len(now.words) = n
          BY <2>5, Zenon
        <5>2. [now EXCEPT !.words[n] = Extend(@, char)] = [words |-> v, inside |-> InWord(t, k)]
          BY <5>1, Changes
        <5> QED BY <3>1, <5>1, <5>2, Zenon
      <4>2. InWord(t, k) = TRUE
        BY <2>7 DEF InWord
      <4> QED BY <3>2, <4>1, <4>2, Zenon
    <3>4. SplitUpTo(t, m, v, first, [last EXCEPT ![n] = m])
      BY <2>1, <2>7, <3>2, CharacterSplits DEF m, char
    <3> HIDE DEF v
    <3> QED BY <3>3, <3>4, Zenon DEF m
  <2>8. CASE char # BLANK /\ ~ InWord(t, k)
    <3> DEFINE v == Append(w, <<char>>)
    <3>1. q[m] = [words |-> Append(now.words, <<char>>), inside |-> TRUE]
      BY <2>2, <2>5, <2>8, Zenon DEF Parsed
    <3>2. InWord(t, m) = TRUE
      BY <2>3, <2>8
    <3>3. q[m] = [words |-> v, inside |-> InWord(t, m)]
      BY <2>5, <3>1, <3>2, Zenon
    <3>4. \E f, l : SplitUpTo(t, m, v, f, l)
      BY <2>1, <2>8, <3>2, FirstSplits DEF m, char
    <3> HIDE DEF v
    <3> QED BY <3>3, <3>4, Zenon DEF m
  <2> QED BY <2>6, <2>7, <2>8
<1> HIDE DEF Good
<1>5. \A k \in Nat : k \in split => k + 1 \in split
  <2> SUFFICES ASSUME NEW k \in Nat, k <= Len(t) => Good(k), k + 1 <= Len(t) PROVE Good(k + 1)
    OBVIOUS
  <2>1. k \in 0 .. Len(t) - 1 /\ Good(k)
    BY <1>2
  <2> QED BY <1>4, <2>1
<1>6. Nat \subseteq split
  <2>1. 0 \in split
    BY <1>3
  <2> HIDE DEF split
  <2> QED BY <1>5, <2>1, Induct
<1>7. Good(Len(t))
  BY <1>2, <1>6
<1>8. PICK w, first, last : /\ q[Len(t)] = [words |-> w, inside |-> InWord(t, Len(t))]
                            /\ SplitUpTo(t, Len(t), w, first, last)
  BY <1>7, Zenon DEF Good
<1>9. parseString(t) = w
  BY <1>1, <1>8
<1> QED BY <1>8, <1>9, Zenon

\* The first a of increasing numbers are as many.
LEMMA FirstOf ==
  ASSUME NEW n \in Nat, NEW m \in Nat, NEW first \in [1 .. n -> 1 .. m],
         \A a, b \in 1 .. n : a < b => first[a] < first[b],
         NEW a \in 0 .. n
  PROVE  Cardinality({first[b] : b \in 1 .. a}) = a
<1> DEFINE S == {first[b] : b \in 1 .. a}
           g == [b \in 1 .. a |-> first[b]]
<1>1. \A b, c \in 1 .. a : first[b] = first[c] => b = c
  <2> SUFFICES ASSUME NEW b \in 1 .. a, NEW c \in 1 .. a, first[b] = first[c] PROVE b = c
    OBVIOUS
  <2>1. b \in 1 .. n /\ c \in 1 .. n
    OBVIOUS
  <2>2. first[b] \in 1 .. m /\ first[c] \in 1 .. m
    BY <2>1
  <2>3. ~(b < c) /\ ~(c < b)
    BY <2>1, <2>2
  <2> QED BY <2>1, <2>3
<1>2. g \in Bijection(1 .. a, S)
  <2>1. g \in [1 .. a -> S] /\ \A b \in 1 .. a : g[b] = first[b]
    OBVIOUS
  <2>2. \A s \in S : \E b \in 1 .. a : g[b] = s
    OBVIOUS
  <2> HIDE DEF g, S
  <2>3. IsInjective(g)
    <3>1. DOMAIN g = 1 .. a
      BY <2>1
    <3> QED BY <1>1, <2>1, <3>1 DEF IsInjective
  <2> QED BY <2>1, <2>2, <2>3 DEF Bijection, Injection, Surjection
<1> HIDE DEF g, S
<1>3. a \in Nat /\ IsFiniteSet(1 .. a) /\ Cardinality(1 .. a) = a
  <2>1. 1 \in Int /\ a \in Int /\ a \in Nat
    OBVIOUS
  <2>2. IsFiniteSet(1 .. a) /\ Cardinality(1 .. a) = IF 1 > a THEN 0 ELSE a - 1 + 1
    BY <2>1, FS_Interval
  <2> QED BY <2>1, <2>2
<1>4. Cardinality(1 .. a) = Cardinality(S)
  BY <1>2, <1>3, FS_Bijection DEF ExistsBijection
<1> QED BY <1>3, <1>4 DEF S

\* The words of a text that fits, and how many they can be.
LEMMA WordsSplit ==
  ASSUME NEW t, Fits(t)
  PROVE  LET n == Len(t)
             In(i) == i \in 1 .. n /\ t[i] # BLANK
             starts == {i \in 1 .. n : In(i) /\ ~ In(i - 1)}
             Start(k) == CHOOSE i \in starts : Cardinality({j \in starts : j <= i}) = k
             End(i) == CHOOSE j \in i .. n : ~ In(j + 1) /\ \A k \in i .. j : In(k)
             CutAt(i) == IF End(i) < i + MAX_WORD_LENGTH THEN End(i) ELSE i + MAX_WORD_LENGTH - 1
         IN  /\ parseString(t) = [k \in 1 .. Cardinality(starts) |-> SubSeq(t, Start(k), CutAt(Start(k)))]
             /\ Len(parseString(t)) < MAX_WORDS
<1> DEFINE n == Len(t)
           In(i) == i \in 1 .. n /\ t[i] # BLANK
           starts == {i \in 1 .. n : In(i) /\ ~ In(i - 1)}
           Start(k) == CHOOSE i \in starts : Cardinality({j \in starts : j <= i}) = k
           End(i) == CHOOSE j \in i .. n : ~ In(j + 1) /\ \A k \in i .. j : In(k)
           CutAt(i) == IF End(i) < i + MAX_WORD_LENGTH THEN End(i) ELSE i + MAX_WORD_LENGTH - 1
           w == parseString(t)
           m == Len(w)
<1>1. t \in Seq(Character) /\ n \in Nat /\ n < MAX_TERMINAL_CHARS
  BY DEF Fits
<1>2. PICK first, last : SplitUpTo(t, n, w, first, last)
  BY <1>1, SplitsAll
<1>3. /\ w \in Seq(Seq(Character))
      /\ first \in [1 .. m -> 1 .. n] /\ last \in [1 .. m -> 1 .. n]
      /\ \A a \in 1 .. m :
           /\ first[a] <= last[a] /\ \A x \in first[a] .. last[a] : InWord(t, x)
           /\ ~ InWord(t, first[a] - 1)
           /\ w[a] = SubSeq(t, first[a], Cut(first[a], last[a]))
           /\ ~ InWord(t, last[a] + 1) \/ (a = m /\ InWord(t, n))
      /\ \A a, b \in 1 .. m : a < b => first[a] < first[b]
      /\ \A i \in 1 .. n : StartsAt(t, i) => \E a \in 1 .. m : i = first[a]
      /\ InWord(t, n) => m > 0 /\ last[m] = n
      /\ 2 * m <= n + (IF InWord(t, n) THEN 1 ELSE 0)
  BY <1>2, Zenon DEF SplitUpTo
<1>4. \A i : In(i) = InWord(t, i)
  BY Zenon DEF InWord
<1>5. \A i : i \in starts <=> i \in 1 .. n /\ StartsAt(t, i)
  BY Zenon DEF StartsAt, InWord
<1> HIDE DEF In, starts, w
<1>6. m \in Nat
  BY <1>3
<1> HIDE DEF m, n
<1>7. \A a \in 1 .. m : first[a] \in starts
  <2> SUFFICES ASSUME NEW a \in 1 .. m PROVE first[a] \in starts
    OBVIOUS
  <2>1. first[a] \in 1 .. n /\ last[a] \in 1 .. n /\ first[a] <= last[a]
    BY <1>3
  <2>2. first[a] \in first[a] .. last[a]
    BY <2>1
  <2> QED BY <1>3, <1>5, <2>1, <2>2, Zenon DEF StartsAt
<1>8. \A i \in starts : \E a \in 1 .. m : i = first[a]
  BY <1>3, <1>5, Zenon
<1>9. \A a \in 1 .. m : ~ InWord(t, last[a] + 1)
  <2> SUFFICES ASSUME NEW a \in 1 .. m PROVE ~ InWord(t, last[a] + 1)
    OBVIOUS
  <2>1. CASE a = m /\ InWord(t, n)
    <3>1. last[a] + 1 \notin 1 .. n
      BY <1>1, <1>3, <2>1
    <3> QED BY <3>1 DEF InWord, n
  <2> QED BY <1>3, <2>1
<1>10. \A a \in 0 .. m : Cardinality({first[b] : b \in 1 .. a}) = a
  <2>1. /\ n \in Nat /\ m \in Nat /\ first \in [1 .. m -> 1 .. n]
        /\ \A a, b \in 1 .. m : a < b => first[a] < first[b]
    BY <1>1, <1>3, <1>6 DEF n
  <2> QED BY <2>1, FirstOf
<1>11. Cardinality(starts) = m
  <2>1. starts = {first[b] : b \in 1 .. m}
    BY <1>7, <1>8
  <2>2. m \in 0 .. m
    BY <1>6
  <2> QED BY <1>10, <2>1, <2>2, Zenon
<1>12. ASSUME NEW a \in 1 .. m PROVE Cardinality({j \in starts : j <= first[a]}) = a
  <2>1. {j \in starts : j <= first[a]} = {first[b] : b \in 1 .. a}
    <3>1. ASSUME NEW b \in 1 .. m PROVE first[b] <= first[a] <=> b \in 1 .. a
      <4>1. first[a] \in 1 .. n /\ first[b] \in 1 .. n
        BY <1>3
      <4>2. (a < b => first[a] < first[b]) /\ (b < a => first[b] < first[a])
        BY <1>3
      <4> QED BY <1>6, <4>1, <4>2
    <3>2. \A b \in 1 .. a : b \in 1 .. m
      BY <1>6
    <3> QED BY <1>7, <1>8, <3>1, <3>2
  <2>2. a \in 0 .. m
    BY <1>6
  <2> QED BY <1>10, <2>1, <2>2, Zenon
<1>13. ASSUME NEW a \in 1 .. m PROVE Start(a) = first[a]
  <2>1. first[a] \in starts /\ Cardinality({j \in starts : j <= first[a]}) = a
    BY <1>7, <1>12
  <2>2. ASSUME NEW i \in starts, Cardinality({j \in starts : j <= i}) = a PROVE i = first[a]
    <3>1. PICK b \in 1 .. m : i = first[b]
      BY <1>8
    <3>2. Cardinality({j \in starts : j <= first[b]}) = b
      BY <1>12
    <3> QED BY <2>2, <3>1, <3>2, Zenon
  <2> QED BY <2>1, <2>2, Zenon
<1>14. ASSUME NEW a \in 1 .. m PROVE End(first[a]) = last[a]
  <2> DEFINE i == first[a]
             e == last[a]
  <2>1. i \in 1 .. n /\ e \in 1 .. n /\ i <= e
    BY <1>3
  <2>2. ~ In(e + 1) /\ \A k \in i .. e : In(k)
    BY <1>3, <1>4, <1>9, Zenon
  <2> HIDE DEF i, e
  <2>3. e \in i .. n
    BY <1>1, <2>1 DEF n
  <2>4. ASSUME NEW j \in i .. n, ~ In(j + 1), \A k \in i .. j : In(k) PROVE j = e
    <3>1. CASE j < e
      <4>1. j + 1 \in i .. e
        BY <1>1, <2>1, <3>1
      <4> QED BY <2>2, <2>4, <4>1
    <3>2. CASE e < j
      <4>1. e + 1 \in i .. j
        BY <1>1, <2>1, <3>2
      <4> QED BY <2>2, <2>4, <4>1
    <3> QED BY <1>1, <2>1, <3>1, <3>2
  <2>5. End(i) = e
    BY <2>2, <2>3, <2>4, Zenon
  <2> QED BY <2>5 DEF i, e
<1>15. ASSUME NEW a \in 1 .. m PROVE w[a] = SubSeq(t, Start(a), CutAt(Start(a)))
  <2>1. CutAt(first[a]) = Cut(first[a], last[a])
    BY <1>14, Zenon DEF Cut
  <2>2. w[a] = SubSeq(t, first[a], Cut(first[a], last[a]))
    BY <1>3
  <2> HIDE DEF CutAt, Start
  <2> QED BY <1>13, <2>1, <2>2, Zenon
<1> HIDE DEF Start, CutAt
<1>16. w = [k \in 1 .. m |-> SubSeq(t, Start(k), CutAt(Start(k)))]
  <2>1. w = [k \in 1 .. m |-> w[k]]
    BY <1>3 DEF m
  <2> QED BY <1>15, <2>1, Zenon
<1>17. m < MAX_WORDS
  <2>1. 2 * m <= n + 1
    BY <1>1, <1>3, <1>6
  <2>2. MAX_TERMINAL_CHARS \in Nat /\ MAX_WORDS \in Nat /\ MAX_TERMINAL_CHARS < 2 * MAX_WORDS
    BY LineAssumption, WordAssumption
  <2> QED BY <1>1, <1>6, <2>1, <2>2 DEF n
<1> QED BY <1>11, <1>16, <1>17, Zenon DEF m, n, w, In, starts, Start, CutAt

\* What readBuffer and pipeCmd carry out fits.
LEMMA TextFits == LoopInv => Fits(Text)
<1> SUFFICES ASSUME LoopInv PROVE Fits(Text)
  OBVIOUS
<1>1. CASE part = "whole"
  BY <1>1, LinesFit DEF Text, LoopInv, TypeOK
<1>2. CASE part # "whole"
  BY <1>2 DEF Text, LoopInv, TypeOK, PartsHeld
<1> QED BY <1>1, <1>2

\* The words of what is carried out are its longest parts without blanks, each cut
\* at the length of a word, and there is room for one more (shell.c, parseString).
THEOREM WordsStaySplit == Spec => []WordsAreSplit
<1>1. LoopInv => WordsAreSplit
  <2> SUFFICES ASSUME LoopInv PROVE WordsAreSplit
    OBVIOUS
  <2>1. Fits(Text)
    BY TextFits
  <2> QED BY <2>1, WordsSplit, Zenon DEF WordsAreSplit, Words
<1> QED BY <1>1, LoopInvariant, PTL
=================================================================================
