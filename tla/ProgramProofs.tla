------------------------------ MODULE ProgramProofs ------------------------------
(***************************************************************************)
(* Theorems of the programs of the user module and the screen they write   *)
(* on, for screens, fonts, lines and boards of every size.                 *)
(*                                                                         *)
(* First the screen: Shows relates the cells to the text that was printed, *)
(* one character at a time.  Then the conversions, digit by digit, and the *)
(* programs that read lines: what is in their buffer and what they print.  *)
(*                                                                         *)
(* Last the game of tron.                                                  *)
(***************************************************************************)
EXTENDS Tron, Programs, FiniteSetTheorems, TLAPS

Sequence == INSTANCE SequenceTheorems

\* Every nonempty set of naturals has a least element.
LEMMA Smallest ==
  ASSUME NEW S \in SUBSET Nat, S # {}
  PROVE  \E n \in S : \A m \in S : n <= m
<1> DEFINE R == OpToRel(<, Nat)
<1>1. IsWellFoundedOn(R, Nat)
  BY NatLessThanWellFounded
<1>3. \A x, y \in Nat : x < y => <<x, y>> \in R
  BY DEF OpToRel
<1> HIDE DEF R
<1>2. PICK x \in S : \A y \in S : ~ (<<y, x>> \in R)
  BY <1>1, WFMin
<1>4. ASSUME NEW m \in S PROVE x <= m
  <2>1. m \in Nat /\ x \in Nat /\ <<m, x>> \notin R
    BY <1>2
  <2>2. ~(m < x)
    BY <1>3, <2>1
  <2> QED BY <2>1, <2>2
<1> QED BY <1>4

\* What holds of 0, and of n + 1 with n, holds of every natural.
LEMMA Induct ==
  ASSUME NEW S, 0 \in S, \A n \in Nat : n \in S => n + 1 \in S
  PROVE  Nat \subseteq S
<1> SUFFICES ASSUME Nat \ S # {} PROVE FALSE
  OBVIOUS
<1>1. PICK n \in Nat \ S : \A m \in Nat \ S : n <= m
  BY Smallest
<1>2. n # 0 /\ n - 1 \in Nat
  BY <1>1
<1>3. n - 1 \in S
  BY <1>1, <1>2
<1> QED BY <1>1, <1>2, <1>3

\* And when they are bounded a greatest one.
LEMMA Greatest ==
  ASSUME NEW S, S \subseteq Nat, S # {}, NEW n \in Nat, \A x \in S : x <= n
  PROVE  \E m \in S : \A x \in S : x <= m
<1> DEFINE T == {n - x : x \in S}
<1>6. \A x \in S : n - x \in Nat
  OBVIOUS
<1>1. T \subseteq Nat /\ T # {}
  BY <1>6
<1> HIDE DEF T
<1>2. PICK t \in T : \A y \in T : t <= y
  BY <1>1, Smallest
<1>3. PICK m \in S : t = n - m
  BY <1>2 DEF T
<1>4. \A x \in S : n - m <= n - x
  BY <1>2, <1>3 DEF T
<1>5. \A x \in S : x \in Nat /\ m \in Nat
  OBVIOUS
<1> QED BY <1>4, <1>5


-----------------------------------------------------------------------------
(* Folds.                                                                  *)

\* What the folds do with a character, by name.
CharStep(kind, state, char) ==
  CASE kind = "put" -> PutChar(state, char)
    [] kind = "written" -> Written(state, char)
    [] kind = "value" -> Valued(state, char)
    [] kind = "echo" -> Echoed(state, char)
    [] kind = "cat" -> CatTurn(state, char)
    [] kind = "wc" -> WcTurn(state, char)
    [] kind = "count" -> Count(state, char)
    [] kind = "keep" -> Keep(state, char)
    [] kind = "line" -> WithKey(state, char)
    [] kind = "vowel" -> WithVowel(state, char)
    [] kind = "join" -> state \o char

\* The greatest of the numbers up to n is n.
LEMMA GreatestOfAll ==
  ASSUME NEW n \in Nat, NEW s, s \subseteq 1 .. n, n \in s
  PROVE  Max(s) = n
<1>1. n \in s /\ \A y \in s : n >= y
  OBVIOUS
<1>2. ASSUME NEW x \in s, \A y \in s : x >= y PROVE x = n
  <2>1. x \in 1 .. n /\ x >= n
    BY <1>2
  <2> QED BY <2>1
<1>3. Max(s) = CHOOSE x \in s : \A y \in s : x >= y
  BY Zenon DEF Max
<1> QED BY <1>1, <1>2, <1>3, Zenon

\* And some number of a set of them is.
LEMMA GreatestOfSome ==
  ASSUME NEW n \in Nat, NEW s, s \subseteq 1 .. n, s # {}
  PROVE  Max(s) \in s
<1>1. s \subseteq Nat /\ \A x \in s : x <= n
  OBVIOUS
<1>2. \E m \in s : \A x \in s : x <= m
  BY <1>1, Greatest
<1>3. \E m \in s : \A x \in s : m >= x
  BY <1>1, <1>2
<1> QED BY <1>3, Zenon DEF Max

\* A function that FoldLeft follows on the sets of the first n positions.
Follows(kind, base, f, str, n) ==
  f = [s \in SUBSET (1 .. n) |->
         IF s = {} THEN base ELSE CharStep(kind, f[s \ {Max(s)}], str[Max(s)])]

\* There is one.
LEMMA FollowsOne ==
  ASSUME NEW kind, NEW base, NEW str, NEW N \in Nat
  PROVE  \E f : Follows(kind, base, f, str, N)
<1> DEFINE some == {n \in Nat : \E f : Follows(kind, base, f, str, n)}
<1>1. 0 \in some
  <2> DEFINE f == [s \in SUBSET (1 .. 0) |-> base]
  <2>1. \A s \in SUBSET (1 .. 0) : s = {}
    OBVIOUS
  <2>2. Follows(kind, base, f, str, 0)
    BY <2>1, Zenon DEF Follows
  <2> QED BY <2>2
<1>2. ASSUME NEW n \in Nat, n \in some PROVE n + 1 \in some
  <2>1. PICK f : Follows(kind, base, f, str, n)
    BY <1>2
  <2> DEFINE m == n + 1
             g == [s \in SUBSET (1 .. m) |->
                     IF m \in s THEN CharStep(kind, f[s \ {m}], str[m]) ELSE f[s]]
             h == [s \in SUBSET (1 .. m) |->
                     IF s = {} THEN base ELSE CharStep(kind, g[s \ {Max(s)}], str[Max(s)])]
  <2>2. m \in Nat /\ 1 .. m = (1 .. n) \cup {m} /\ m \notin 1 .. n
    OBVIOUS
  <2> HIDE DEF m
  <2>3. ASSUME NEW s \in SUBSET (1 .. m) PROVE g[s] = h[s]
    <3>1. CASE s = {}
      <4>1. g[s] = f[s] /\ h[s] = base
        BY <3>1
      <4>2. s \in SUBSET (1 .. n)
        BY <3>1
      <4>3. f[s] = base
        BY <2>1, <3>1, <4>2, Zenon DEF Follows
      <4> QED BY <4>1, <4>3
    <3>2. CASE m \in s
      <4>1. Max(s) = m
        BY <2>2, <3>2, GreatestOfAll
      <4>2. g[s] = CharStep(kind, f[s \ {m}], str[m])
        BY <3>2, Zenon
      <4>3. h[s] = CharStep(kind, g[s \ {m}], str[m])
        BY <3>2, <4>1, Zenon
      <4>4. g[s \ {m}] = f[s \ {m}]
        <5>1. s \ {m} \in SUBSET (1 .. m) /\ m \notin s \ {m}
          OBVIOUS
        <5> QED BY <5>1, Zenon
      <4> QED BY <4>2, <4>3, <4>4, Zenon
    <3>3. CASE s # {} /\ m \notin s
      <4>1. s \in SUBSET (1 .. n)
        BY <2>2, <3>3
      <4>2. Max(s) \in s
        BY <3>3, <4>1, GreatestOfSome
      <4>3. g[s] = f[s]
        BY <3>3, Zenon
      <4>4. f[s] = CharStep(kind, f[s \ {Max(s)}], str[Max(s)])
        BY <2>1, <3>3, <4>1, Zenon DEF Follows
      <4>5. h[s] = CharStep(kind, g[s \ {Max(s)}], str[Max(s)])
        BY <3>3, Zenon
      <4>6. g[s \ {Max(s)}] = f[s \ {Max(s)}]
        <5>1. s \ {Max(s)} \in SUBSET (1 .. m) /\ m \notin s \ {Max(s)}
          BY <3>3
        <5> QED BY <5>1, Zenon
      <4> QED BY <4>3, <4>4, <4>5, <4>6, Zenon
    <3> QED BY <3>1, <3>2, <3>3
  <2>4. g = h
    BY <2>3, Zenon
  <2>5. Follows(kind, base, g, str, m)
    BY <2>4, Zenon DEF Follows
  <2> QED BY <2>2, <2>5 DEF m
<1> HIDE DEF some
<1>3. Nat \subseteq some
  BY <1>1, <1>2, Induct
<1> QED BY <1>3 DEF some

\* One character at a time.
Reaches(kind, base, str, n, reached) ==
  \E q : /\ q[0] = base
         /\ \A k \in 0 .. n - 1 : q[k + 1] = CharStep(kind, q[k], str[k + 1])
         /\ reached = q[n]

\* So it goes one character at a time.
LEMMA Reached ==
  ASSUME NEW kind, NEW base, NEW f, NEW str, NEW n \in Nat, Follows(kind, base, f, str, n)
  PROVE  Reaches(kind, base, str, n, f[1 .. n])
<1> DEFINE q == [k \in 0 .. n |-> f[1 .. k]]
<1>1. q[0] = base
  <2>1. 1 .. 0 = {} /\ {} \in SUBSET (1 .. n) /\ 0 \in 0 .. n
    OBVIOUS
  <2>2. f[{}] = base
    BY <2>1, Zenon DEF Follows
  <2> QED BY <2>1, <2>2, Zenon
<1>2. ASSUME NEW k \in 0 .. n - 1 PROVE q[k + 1] = CharStep(kind, q[k], str[k + 1])
  <2> DEFINE m == k + 1
  <2>1. /\ m \in Nat /\ 1 .. m # {} /\ (1 .. m) \ {m} = 1 .. k /\ m \in 1 .. m
        /\ 1 .. m \in SUBSET (1 .. n) /\ k \in 0 .. n /\ m \in 0 .. n
    <3>1. k \in Nat /\ k \in 0 .. n /\ m \in 0 .. n /\ m \in Nat /\ m \in 1 .. m
      OBVIOUS
    <3>2. (1 .. m) \ {m} = 1 .. k
      BY <3>1
    <3>3. 1 .. m \in SUBSET (1 .. n)
      BY <3>1
    <3> QED BY <3>1, <3>2, <3>3, Zenon
  <2> HIDE DEF m
  <2>2. Max(1 .. m) = m
    BY <2>1, GreatestOfAll
  <2>3. f[1 .. m] = CharStep(kind, f[(1 .. m) \ {Max(1 .. m)}], str[Max(1 .. m)])
    BY <2>1, Zenon DEF Follows
  <2>4. f[1 .. m] = CharStep(kind, f[1 .. k], str[m])
    BY <2>1, <2>2, <2>3, Zenon
  <2>5. q[m] = CharStep(kind, q[k], str[m])
    BY <2>1, <2>4, Zenon
  <2> QED BY <2>5 DEF m
<1>3. n \in 0 .. n
  OBVIOUS
<1>4. f[1 .. n] = q[n]
  BY <1>3, Zenon
<1> HIDE DEF q
<1> QED BY <1>1, <1>2, <1>4 DEF Reaches

\* What printString does.
LEMMA PutReached ==
  ASSUME NEW c, NEW s, NEW n \in Nat, DOMAIN s = 1 .. n
  PROVE  Reaches("put", c, s, n, PrintString(c, s))
<1> DEFINE Is(f) == f = [t \in SUBSET (1 .. n) |->
                           IF t = {} THEN c ELSE PutChar(f[t \ {Max(t)}], s[Max(t)])]
           g == CHOOSE f : Is(f)
<1>1. \A a, b : CharStep("put", a, b) = PutChar(a, b)
  BY DEF CharStep
<1>2. \A f : Is(f) <=> Follows("put", c, f, s, n)
  BY <1>1, Zenon DEF Follows
<1>3. Is(g)
  <2> HIDE DEF Is
  <2> QED BY <1>2, FollowsOne
<1>4. Follows("put", c, g, s, n)
  <2> HIDE DEF Is, g
  <2> QED BY <1>2, <1>3
<1>5. PrintString(c, s) = g[1 .. n]
  BY Zenon DEF PrintString, FoldLeft, MapThenFoldSet
<1> HIDE DEF g
<1> QED BY <1>4, <1>5, Reached

\* And what it adds to the text.
LEMMA WrittenReached ==
  ASSUME NEW c, NEW s, NEW n \in Nat, DOMAIN s = 1 .. n
  PROVE  Reaches("written", c, s, n, FoldLeft(Written, c, s))
<1> DEFINE Is(f) == f = [t \in SUBSET (1 .. n) |->
                           IF t = {} THEN c ELSE Written(f[t \ {Max(t)}], s[Max(t)])]
           g == CHOOSE f : Is(f)
<1>1. \A a, b : CharStep("written", a, b) = Written(a, b)
  BY DEF CharStep
<1>2. \A f : Is(f) <=> Follows("written", c, f, s, n)
  BY <1>1, Zenon DEF Follows
<1>3. Is(g)
  <2> HIDE DEF Is
  <2> QED BY <1>2, FollowsOne
<1>4. Follows("written", c, g, s, n)
  <2> HIDE DEF Is, g
  <2> QED BY <1>2, <1>3
<1>5. FoldLeft(Written, c, s) = g[1 .. n]
  BY Zenon DEF FoldLeft, MapThenFoldSet
<1> HIDE DEF g
<1> QED BY <1>4, <1>5, Reached


\* What atoul makes of its digits.
LEMMA ValuedReached ==
  ASSUME NEW c, NEW s, NEW n \in Nat, DOMAIN s = 1 .. n
  PROVE  Reaches("value", c, s, n, FoldLeft(Valued, c, s))
<1> DEFINE Is(f) == f = [t \in SUBSET (1 .. n) |->
                           IF t = {} THEN c ELSE Valued(f[t \ {Max(t)}], s[Max(t)])]
           g == CHOOSE f : Is(f)
<1>1. \A a, b : CharStep("value", a, b) = Valued(a, b)
  BY DEF CharStep
<1>2. \A f : Is(f) <=> Follows("value", c, f, s, n)
  BY <1>1, Zenon DEF Follows
<1>3. Is(g)
  <2> HIDE DEF Is
  <2> QED BY <1>2, FollowsOne
<1>4. Follows("value", c, g, s, n)
  <2> HIDE DEF Is, g
  <2> QED BY <1>2, <1>3
<1>5. FoldLeft(Valued, c, s) = g[1 .. n]
  BY Zenon DEF FoldLeft, MapThenFoldSet
<1> HIDE DEF g
<1> QED BY <1>4, <1>5, Reached

\* What filter reads.
LEMMA EchoedReached ==
  ASSUME NEW c, NEW s, NEW n \in Nat, DOMAIN s = 1 .. n
  PROVE  Reaches("echo", c, s, n, FoldLeft(Echoed, c, s))
<1> DEFINE Is(f) == f = [t \in SUBSET (1 .. n) |->
                           IF t = {} THEN c ELSE Echoed(f[t \ {Max(t)}], s[Max(t)])]
           g == CHOOSE f : Is(f)
<1>1. \A a, b : CharStep("echo", a, b) = Echoed(a, b)
  BY DEF CharStep
<1>2. \A f : Is(f) <=> Follows("echo", c, f, s, n)
  BY <1>1, Zenon DEF Follows
<1>3. Is(g)
  <2> HIDE DEF Is
  <2> QED BY <1>2, FollowsOne
<1>4. Follows("echo", c, g, s, n)
  <2> HIDE DEF Is, g
  <2> QED BY <1>2, <1>3
<1>5. FoldLeft(Echoed, c, s) = g[1 .. n]
  BY Zenon DEF FoldLeft, MapThenFoldSet
<1> HIDE DEF g
<1> QED BY <1>4, <1>5, Reached

\* What cat does.
LEMMA CatTurnReached ==
  ASSUME NEW c, NEW s, NEW n \in Nat, DOMAIN s = 1 .. n
  PROVE  Reaches("cat", c, s, n, FoldLeft(CatTurn, c, s))
<1> DEFINE Is(f) == f = [t \in SUBSET (1 .. n) |->
                           IF t = {} THEN c ELSE CatTurn(f[t \ {Max(t)}], s[Max(t)])]
           g == CHOOSE f : Is(f)
<1>1. \A a, b : CharStep("cat", a, b) = CatTurn(a, b)
  BY DEF CharStep
<1>2. \A f : Is(f) <=> Follows("cat", c, f, s, n)
  BY <1>1, Zenon DEF Follows
<1>3. Is(g)
  <2> HIDE DEF Is
  <2> QED BY <1>2, FollowsOne
<1>4. Follows("cat", c, g, s, n)
  <2> HIDE DEF Is, g
  <2> QED BY <1>2, <1>3
<1>5. FoldLeft(CatTurn, c, s) = g[1 .. n]
  BY Zenon DEF FoldLeft, MapThenFoldSet
<1> HIDE DEF g
<1> QED BY <1>4, <1>5, Reached

\* What wc reads.
LEMMA WcTurnReached ==
  ASSUME NEW c, NEW s, NEW n \in Nat, DOMAIN s = 1 .. n
  PROVE  Reaches("wc", c, s, n, FoldLeft(WcTurn, c, s))
<1> DEFINE Is(f) == f = [t \in SUBSET (1 .. n) |->
                           IF t = {} THEN c ELSE WcTurn(f[t \ {Max(t)}], s[Max(t)])]
           g == CHOOSE f : Is(f)
<1>1. \A a, b : CharStep("wc", a, b) = WcTurn(a, b)
  BY DEF CharStep
<1>2. \A f : Is(f) <=> Follows("wc", c, f, s, n)
  BY <1>1, Zenon DEF Follows
<1>3. Is(g)
  <2> HIDE DEF Is
  <2> QED BY <1>2, FollowsOne
<1>4. Follows("wc", c, g, s, n)
  <2> HIDE DEF Is, g
  <2> QED BY <1>2, <1>3
<1>5. FoldLeft(WcTurn, c, s) = g[1 .. n]
  BY Zenon DEF FoldLeft, MapThenFoldSet
<1> HIDE DEF g
<1> QED BY <1>4, <1>5, Reached

\* What it counts.
LEMMA CountReached ==
  ASSUME NEW c, NEW s, NEW n \in Nat, DOMAIN s = 1 .. n
  PROVE  Reaches("count", c, s, n, FoldLeft(Count, c, s))
<1> DEFINE Is(f) == f = [t \in SUBSET (1 .. n) |->
                           IF t = {} THEN c ELSE Count(f[t \ {Max(t)}], s[Max(t)])]
           g == CHOOSE f : Is(f)
<1>1. \A a, b : CharStep("count", a, b) = Count(a, b)
  BY DEF CharStep
<1>2. \A f : Is(f) <=> Follows("count", c, f, s, n)
  BY <1>1, Zenon DEF Follows
<1>3. Is(g)
  <2> HIDE DEF Is
  <2> QED BY <1>2, FollowsOne
<1>4. Follows("count", c, g, s, n)
  <2> HIDE DEF Is, g
  <2> QED BY <1>2, <1>3
<1>5. FoldLeft(Count, c, s) = g[1 .. n]
  BY Zenon DEF FoldLeft, MapThenFoldSet
<1> HIDE DEF g
<1> QED BY <1>4, <1>5, Reached

\* What filter keeps of its buffer.
LEMMA KeepReached ==
  ASSUME NEW c, NEW s, NEW n \in Nat, DOMAIN s = 1 .. n
  PROVE  Reaches("keep", c, s, n, FoldLeft(Keep, c, s))
<1> DEFINE Is(f) == f = [t \in SUBSET (1 .. n) |->
                           IF t = {} THEN c ELSE Keep(f[t \ {Max(t)}], s[Max(t)])]
           g == CHOOSE f : Is(f)
<1>1. \A a, b : CharStep("keep", a, b) = Keep(a, b)
  BY DEF CharStep
<1>2. \A f : Is(f) <=> Follows("keep", c, f, s, n)
  BY <1>1, Zenon DEF Follows
<1>3. Is(g)
  <2> HIDE DEF Is
  <2> QED BY <1>2, FollowsOne
<1>4. Follows("keep", c, g, s, n)
  <2> HIDE DEF Is, g
  <2> QED BY <1>2, <1>3
<1>5. FoldLeft(Keep, c, s) = g[1 .. n]
  BY Zenon DEF FoldLeft, MapThenFoldSet
<1> HIDE DEF g
<1> QED BY <1>4, <1>5, Reached

\* The lines of the keys.
LEMMA WithKeyReached ==
  ASSUME NEW c, NEW s, NEW n \in Nat, DOMAIN s = 1 .. n
  PROVE  Reaches("line", c, s, n, FoldLeft(WithKey, c, s))
<1> DEFINE Is(f) == f = [t \in SUBSET (1 .. n) |->
                           IF t = {} THEN c ELSE WithKey(f[t \ {Max(t)}], s[Max(t)])]
           g == CHOOSE f : Is(f)
<1>1. \A a, b : CharStep("line", a, b) = WithKey(a, b)
  BY DEF CharStep
<1>2. \A f : Is(f) <=> Follows("line", c, f, s, n)
  BY <1>1, Zenon DEF Follows
<1>3. Is(g)
  <2> HIDE DEF Is
  <2> QED BY <1>2, FollowsOne
<1>4. Follows("line", c, g, s, n)
  <2> HIDE DEF Is, g
  <2> QED BY <1>2, <1>3
<1>5. FoldLeft(WithKey, c, s) = g[1 .. n]
  BY Zenon DEF FoldLeft, MapThenFoldSet
<1> HIDE DEF g
<1> QED BY <1>4, <1>5, Reached

\* And the vowels of one.
LEMMA WithVowelReached ==
  ASSUME NEW c, NEW s, NEW n \in Nat, DOMAIN s = 1 .. n
  PROVE  Reaches("vowel", c, s, n, FoldLeft(WithVowel, c, s))
<1> DEFINE Is(f) == f = [t \in SUBSET (1 .. n) |->
                           IF t = {} THEN c ELSE WithVowel(f[t \ {Max(t)}], s[Max(t)])]
           g == CHOOSE f : Is(f)
<1>1. \A a, b : CharStep("vowel", a, b) = WithVowel(a, b)
  BY DEF CharStep
<1>2. \A f : Is(f) <=> Follows("vowel", c, f, s, n)
  BY <1>1, Zenon DEF Follows
<1>3. Is(g)
  <2> HIDE DEF Is
  <2> QED BY <1>2, FollowsOne
<1>4. Follows("vowel", c, g, s, n)
  <2> HIDE DEF Is, g
  <2> QED BY <1>2, <1>3
<1>5. FoldLeft(WithVowel, c, s) = g[1 .. n]
  BY Zenon DEF FoldLeft, MapThenFoldSet
<1> HIDE DEF g
<1> QED BY <1>4, <1>5, Reached

-----------------------------------------------------------------------------
(* Rows and columns.                                                       *)

\* A bounded set of naturals with all that is less than any of it.
LEMMA Segment ==
  ASSUME NEW S \in SUBSET Nat, NEW n \in Nat, \A x \in S : x <= n,
         \A x \in S : \A y \in Nat : y < x => y \in S
  PROVE  Cardinality(S) \in Nat /\ \A x \in Nat : x \in S <=> x < Cardinality(S)
<1>1. CASE S = {}
  <2>1. Cardinality(S) = 0
    BY <1>1, FS_EmptySet
  <2> QED BY <1>1, <2>1
<1>2. CASE S # {}
  <2>1. PICK m \in S : \A x \in S : x <= m
    BY <1>2, Greatest
  <2>2. m \in Nat /\ S = 0 .. m
    <3>1. m \in Nat /\ \A x \in S : x \in 0 .. m
      BY <2>1
    <3>2. \A x \in 0 .. m : x \in Nat /\ (x = m \/ x < m)
      BY <3>1
    <3>3. \A x \in 0 .. m : x \in S
      BY <2>1, <3>2
    <3> QED BY <3>1, <3>3, Zenon
  <2>3. Cardinality(0 .. m) = m + 1
    <3>1. 0 \in Int /\ m \in Int /\ ~(0 > m) /\ m - 0 + 1 = m + 1
      BY <2>2
    <3>2. Cardinality(0 .. m) = IF 0 > m THEN 0 ELSE m - 0 + 1
      BY <3>1, FS_Interval
    <3> QED BY <3>1, <3>2
  <2> QED BY <2>2, <2>3
<1> QED BY <1>1, <1>2

\* Products grow with their factors.
LEMMA Products ==
  ASSUME NEW a \in Nat, NEW x \in Nat, NEW y \in Nat, x <= y
  PROVE  a * x <= a * y /\ x * a <= y * a
<1>1. PICK d \in Nat : y = x + d
  <2>1. y - x \in Nat /\ y = x + (y - x)
    OBVIOUS
  <2> QED BY <2>1
<1>2. a * y = a * x + a * d /\ y * a = x * a + d * a /\ a * d \in Nat /\ d * a \in Nat /\ a * x \in Nat /\ x * a \in Nat
  BY <1>1, SMTT(30)
<1> QED BY <1>2

\* What fits into a length fits in whole pieces.
LEMMA Quotient ==
  ASSUME NEW a \in Nat \ {0}, NEW n \in Nat, NEW x \in Nat
  PROVE  n \div a \in Nat /\ (x * a <= n <=> x <= n \div a)
<1> DEFINE q == n \div a
           r == n % a
<1>1. q \in Nat /\ r \in 0 .. a - 1 /\ n = q * a + r
  BY SMTT(30)
<1> HIDE DEF q, r
<1>2. x <= q => x * a <= n
  <2> SUFFICES ASSUME x <= q PROVE x * a <= n
    OBVIOUS
  <2>1. x * a <= q * a
    BY <1>1, Products
  <2>2. x * a \in Nat /\ q * a \in Nat
    BY <1>1
  <2> QED BY <1>1, <2>1, <2>2
<1>3. x * a <= n => x <= q
  <2> SUFFICES ASSUME ~(x <= q) PROVE ~(x * a <= n)
    OBVIOUS
  <2>1. q + 1 <= x /\ q + 1 \in Nat
    BY <1>1
  <2>2. (q + 1) * a <= x * a
    BY <2>1, Products
  <2>3. (q + 1) * a = q * a + a
    BY <1>1, SMTT(30)
  <2>4. x * a \in Nat /\ q * a \in Nat
    BY <1>1
  <2> QED BY <1>1, <2>2, <2>3, <2>4
<1> QED BY <1>1, <1>2, <1>3 DEF q

Font == 1 .. MAX_FONTSIZE

\* What the constants say of the screen.
LEMMA ScreenSizes ==
  /\ FONT_WIDTH \in Nat \ {0} /\ FONT_WIDTH \div 2 \in Nat /\ 0 < FONT_WIDTH \div 2 /\ FONT_WIDTH \div 2 <= FONT_WIDTH
  /\ LINE_HEIGHT \in Nat \ {0} /\ MAX_FONTSIZE \in Nat \ {0} /\ WIDTH \in Nat /\ HEIGHT \in Nat
  /\ WIDTH \div FONT_WIDTH \in Nat /\ HEIGHT \div LINE_HEIGHT \in Nat
  /\ \A font \in Font : FONT_WIDTH * font <= WIDTH /\ LINE_HEIGHT * font <= HEIGHT
<1>1. /\ FONT_WIDTH \in Nat \ {0} /\ FONT_WIDTH % 2 = 0
      /\ LINE_HEIGHT \in Nat \ {0} /\ MAX_FONTSIZE \in Nat \ {0}
      /\ WIDTH \in Nat /\ WIDTH >= FONT_WIDTH * MAX_FONTSIZE
      /\ HEIGHT \in Nat /\ HEIGHT >= LINE_HEIGHT * MAX_FONTSIZE
  BY ScreenAssumption
<1>2. FONT_WIDTH \div 2 \in Nat /\ 0 < FONT_WIDTH \div 2 /\ FONT_WIDTH \div 2 <= FONT_WIDTH
  BY <1>1
<1>3. WIDTH \div FONT_WIDTH \in Nat /\ HEIGHT \div LINE_HEIGHT \in Nat
  BY <1>1, Quotient
<1>4. ASSUME NEW font \in Font PROVE FONT_WIDTH * font <= WIDTH /\ LINE_HEIGHT * font <= HEIGHT
  <2>1. font \in Nat /\ font <= MAX_FONTSIZE
    BY <1>1 DEF Font
  <2>2. FONT_WIDTH * font <= FONT_WIDTH * MAX_FONTSIZE /\ LINE_HEIGHT * font <= LINE_HEIGHT * MAX_FONTSIZE
    BY <1>1, <2>1, Products
  <2> DEFINE a == FONT_WIDTH * font
             b == FONT_WIDTH * MAX_FONTSIZE
             d == LINE_HEIGHT * font
             e == LINE_HEIGHT * MAX_FONTSIZE
  <2>3. a \in Nat /\ b \in Nat /\ d \in Nat /\ e \in Nat
    BY <1>1, <2>1
  <2>4. a <= b /\ d <= e /\ WIDTH >= b /\ HEIGHT >= e
    BY <1>1, <2>2
  <2> HIDE DEF a, b, d, e
  <2>5. a <= WIDTH /\ d <= HEIGHT
    BY <1>1, <2>3, <2>4
  <2> QED BY <2>5 DEF a, d
<1> QED BY <1>1, <1>2, <1>3, <1>4

\* Characters fit next to each other up to the number of columns.
LEMMA ColumnsAre ==
  ASSUME NEW font \in Font
  PROVE  /\ Columns(font) \in Nat \ {0}
         /\ \A x \in Nat : x < Columns(font) => x \in Column
         /\ \A c : c.fontSize = font /\ c.column \in Nat => (AtEdge(c) <=> Columns(font) <= c.column)
<1> DEFINE h == FONT_WIDTH \div 2
           far(x) == font * (x * FONT_WIDTH + h)
           S == {x \in Column : ~ AtEdge([Cleared(font) EXCEPT !.column = x])}
           C == Columns(font)
           N == WIDTH \div FONT_WIDTH
<1>1. /\ FONT_WIDTH \in Nat \ {0} /\ h \in Nat /\ 0 < h /\ h <= FONT_WIDTH /\ WIDTH \in Nat /\ N \in Nat
      /\ font \in Nat /\ 1 <= font /\ FONT_WIDTH * font <= WIDTH
  BY ScreenSizes DEF Font
<1>2. \A c : c.fontSize = font /\ c.column \in Nat => (AtEdge(c) <=> ~(far(c.column) <= WIDTH))
  <2> SUFFICES ASSUME NEW c, c.fontSize = font, c.column \in Nat
               PROVE  AtEdge(c) <=> ~(far(c.column) <= WIDTH)
    OBVIOUS
  <2>1. AtEdge(c) <=> (c.column < 0 \/ far(c.column) > WIDTH)
    BY Zenon DEF AtEdge
  <2>2. far(c.column) \in Nat /\ ~(c.column < 0)
    BY <1>1
  <2> HIDE DEF far
  <2> QED BY <1>1, <2>1, <2>2
<1> HIDE DEF h, N
<1>3. ASSUME NEW x \in Nat, NEW y \in Nat, y <= x PROVE far(x) \in Nat /\ far(y) <= far(x)
  <2>1. y * FONT_WIDTH <= x * FONT_WIDTH /\ y * FONT_WIDTH \in Nat /\ x * FONT_WIDTH \in Nat
    BY <1>1, <1>3, Products
  <2> DEFINE a == y * FONT_WIDTH + h
             b == x * FONT_WIDTH + h
  <2>2. a \in Nat /\ b \in Nat /\ a <= b
    BY <1>1, <2>1
  <2> HIDE DEF a, b
  <2>3. font * a <= font * b /\ font * b \in Nat
    BY <1>1, <2>2, Products
  <2> QED BY <2>3 DEF a, b
<1>4. \A x \in Nat : far(x) <= WIDTH => x \in Column
  <2> SUFFICES ASSUME NEW x \in Nat, far(x) <= WIDTH PROVE x \in Column
    OBVIOUS
  <2> DEFINE w == x * FONT_WIDTH
             a == w + h
  <2>1. w \in Nat /\ a \in Nat /\ w <= a
    BY <1>1
  <2>2. far(x) = font * a
    OBVIOUS
  <2> HIDE DEF w, a, far
  <2>3. 1 * a <= font * a /\ font * a \in Nat /\ 1 * a = a
    BY <1>1, <2>1, Products
  <2>4. w <= WIDTH
    BY <1>1, <2>1, <2>2, <2>3
  <2>5. x <= N
    BY <1>1, <2>4, Quotient DEF w, N
  <2> QED BY <1>1, <2>5 DEF Column, N
<1>5. \A x \in Nat : x \in S <=> far(x) <= WIDTH
  <2> SUFFICES ASSUME NEW x \in Nat PROVE x \in S <=> far(x) <= WIDTH
    OBVIOUS
  <2> DEFINE c == [Cleared(font) EXCEPT !.column = x]
  <2>1. c.fontSize = font /\ c.column = x
    BY DEF Cleared
  <2> HIDE DEF c, far
  <2>2. ~ AtEdge(c) <=> far(x) <= WIDTH
    BY <1>2, <2>1
  <2> QED BY <1>4, <2>2 DEF c
<1>6. far(0) <= WIDTH
  <2>1. 0 * FONT_WIDTH + h = h
    BY <1>1
  <2>2. font * h <= font * FONT_WIDTH /\ font * h \in Nat /\ font * FONT_WIDTH = FONT_WIDTH * font
    BY <1>1, Products
  <2> DEFINE a == font * h
             b == font * FONT_WIDTH
  <2>3. a \in Nat /\ b \in Nat
    BY <1>1
  <2> HIDE DEF a, b
  <2>4. a <= WIDTH
    BY <1>1, <2>2, <2>3 DEF b, a
  <2> QED BY <2>1, <2>4 DEF a
<1> HIDE DEF far
<1>7. S \in SUBSET Nat /\ \A x \in S : x <= N
  BY <1>1 DEF Column, N
<1>8. \A x \in S : \A y \in Nat : y < x => y \in S
  <2> SUFFICES ASSUME NEW x \in S, NEW y \in Nat, y < x PROVE y \in S
    OBVIOUS
  <2>1. x \in Nat /\ far(x) <= WIDTH
    BY <1>5, <1>7
  <2>2. far(y) <= far(x) /\ far(x) \in Nat /\ far(y) \in Nat
    BY <1>3, <2>1
  <2> QED BY <1>1, <1>5, <2>1, <2>2
<1>9. C = Cardinality(S)
  BY Zenon DEF Columns
<1> HIDE DEF S, C
<1>10. C \in Nat /\ \A x \in Nat : x \in S <=> x < C
  BY <1>1, <1>7, <1>8, <1>9, Segment
<1>11. C # 0
  BY <1>5, <1>6, <1>10
<1>12. \A x \in Nat : x < C => x \in Column
  BY <1>4, <1>5, <1>10
<1>13. ASSUME NEW c, c.fontSize = font, c.column \in Nat PROVE AtEdge(c) <=> C <= c.column
  BY <1>2, <1>5, <1>10, <1>13
<1> QED BY <1>10, <1>11, <1>12, <1>13 DEF C

\* And lines above each other up to the number of lines.
LEMMA LinesAre ==
  ASSUME NEW font \in Font
  PROVE  /\ Lines(font) \in Nat \ {0}
         /\ \A y \in Nat : y < Lines(font) => y \in Row /\ (y + 1) * LINE_HEIGHT * font <= HEIGHT
         /\ \A c : c.fontSize = font /\ c.y_char \in Nat => (AtBottom(c) <=> Lines(font) <= c.y_char + 1)
<1> DEFINE low(y) == (y + 2) * LINE_HEIGHT * font
           S == {y \in Row : y = 0 \/ ~ AtBottom([Cleared(font) EXCEPT !.y_char = y - 1])}
           L == Lines(font)
           N == HEIGHT \div LINE_HEIGHT
<1>1. /\ LINE_HEIGHT \in Nat \ {0} /\ HEIGHT \in Nat /\ N \in Nat
      /\ font \in Nat /\ 1 <= font /\ LINE_HEIGHT * font <= HEIGHT
  BY ScreenSizes DEF Font
<1>2. \A c : c.fontSize = font => (AtBottom(c) <=> low(c.y_char) >= HEIGHT)
  BY Zenon DEF AtBottom
<1>3. ASSUME NEW x \in Nat, NEW y \in Nat, y <= x
      PROVE  (x * LINE_HEIGHT) * font \in Nat /\ (y * LINE_HEIGHT) * font <= (x * LINE_HEIGHT) * font
  <2> DEFINE a == y * LINE_HEIGHT
             b == x * LINE_HEIGHT
  <2>1. a <= b /\ a \in Nat /\ b \in Nat
    BY <1>1, <1>3, Products
  <2> HIDE DEF a, b
  <2>2. a * font <= b * font /\ b * font \in Nat
    BY <1>1, <2>1, Products
  <2> QED BY <2>2 DEF a, b
<1> HIDE DEF N
<1>4. \A y \in Nat : ((y + 1) * LINE_HEIGHT) * font <= HEIGHT => y \in Row
  <2> SUFFICES ASSUME NEW y \in Nat, ((y + 1) * LINE_HEIGHT) * font <= HEIGHT PROVE y \in Row
    OBVIOUS
  <2> DEFINE a == (y + 1) * LINE_HEIGHT
  <2>1. a \in Nat
    BY <1>1
  <2>2. a * font <= HEIGHT
    OBVIOUS
  <2> HIDE DEF a
  <2>3. a * 1 <= a * font /\ a * font \in Nat /\ a * 1 = a
    BY <1>1, <2>1, Products
  <2>4. a <= HEIGHT
    BY <1>1, <2>1, <2>2, <2>3
  <2>5. y + 1 \in Nat /\ (y + 1) * LINE_HEIGHT <= HEIGHT
    BY <2>4 DEF a
  <2>6. y + 1 <= N
    BY <1>1, <2>5, Quotient DEF N
  <2> QED BY <1>1, <2>6 DEF Row, N
<1>5. 0 \in Row
  <2>1. 0 + 1 = 1 /\ 1 * LINE_HEIGHT = LINE_HEIGHT
    BY <1>1
  <2>2. ((0 + 1) * LINE_HEIGHT) * font <= HEIGHT
    BY <1>1, <2>1
  <2> QED BY <1>4, <2>2
<1>6. \A y \in Nat : y \in S <=> y = 0 \/ ((y + 1) * LINE_HEIGHT) * font < HEIGHT
  <2> SUFFICES ASSUME NEW y \in Nat PROVE y \in S <=> y = 0 \/ ((y + 1) * LINE_HEIGHT) * font < HEIGHT
    OBVIOUS
  <2> DEFINE c == [Cleared(font) EXCEPT !.y_char = y - 1]
             a == ((y + 1) * LINE_HEIGHT) * font
  <2>1. c.fontSize = font /\ c.y_char = y - 1
    BY DEF Cleared
  <2> HIDE DEF c
  <2>2. (y - 1) + 2 = y + 1
    OBVIOUS
  <2>3. low(y - 1) = a
    BY <2>2, Zenon
  <2>4. a \in Nat
    BY <1>1, <1>3
  <2>5. a <= HEIGHT => y \in Row
    BY <1>4
  <2> HIDE DEF a, low
  <2>6. ~ AtBottom(c) <=> a < HEIGHT
    BY <1>1, <1>2, <2>1, <2>3, <2>4
  <2>7. y \in S <=> y \in Row /\ (y = 0 \/ a < HEIGHT)
    BY <2>6 DEF c
  <2>8. y \in S <=> y = 0 \/ a < HEIGHT
    BY <1>1, <1>5, <2>4, <2>5, <2>7
  <2> QED BY <2>8 DEF a
<1>7. S \in SUBSET Nat /\ \A y \in S : y <= N
  BY <1>1 DEF Row, N
<1>8. \A x \in S : \A y \in Nat : y < x => y \in S
  <2> SUFFICES ASSUME NEW x \in S, NEW y \in Nat, y < x PROVE y \in S
    OBVIOUS
  <2> DEFINE a == ((x + 1) * LINE_HEIGHT) * font
             b == ((y + 1) * LINE_HEIGHT) * font
  <2>1. x \in Nat /\ x # 0 /\ y + 1 \in Nat /\ x + 1 \in Nat /\ y + 1 <= x + 1
    BY <1>7
  <2>2. a < HEIGHT
    BY <1>6, <2>1
  <2>3. b <= a /\ a \in Nat /\ b \in Nat
    BY <1>3, <2>1
  <2> HIDE DEF a, b
  <2>4. b < HEIGHT
    BY <1>1, <2>2, <2>3
  <2> QED BY <1>6, <2>4 DEF b
<1>9. L = Cardinality(S)
  BY Zenon DEF Lines
<1> HIDE DEF S, L
<1>10. L \in Nat /\ \A y \in Nat : y \in S <=> y < L
  BY <1>1, <1>7, <1>8, <1>9, Segment
<1>11. L # 0
  BY <1>6, <1>10
<1>12. ASSUME NEW y \in Nat, y < L PROVE y \in Row /\ (y + 1) * LINE_HEIGHT * font <= HEIGHT
  <2> DEFINE a == ((y + 1) * LINE_HEIGHT) * font
  <2>1. a \in Nat
    BY <1>3, <1>12
  <2>2. CASE y = 0
    <3>1. a = LINE_HEIGHT * font
      <4>1. (0 + 1) * LINE_HEIGHT = LINE_HEIGHT
        BY <1>1
      <4> QED BY <2>2, <4>1
    <3> QED BY <1>1, <1>5, <2>2, <3>1
  <2>3. CASE y # 0
    <3>1. a < HEIGHT
      BY <1>6, <1>10, <1>12, <2>3
    <3> HIDE DEF a
    <3>2. a <= HEIGHT
      BY <1>1, <2>1, <3>1
    <3> QED BY <1>4, <3>2 DEF a
  <2> QED BY <2>2, <2>3
<1>13. ASSUME NEW c, c.fontSize = font, c.y_char \in Nat PROVE AtBottom(c) <=> L <= c.y_char + 1
  <2> DEFINE y == c.y_char + 1
             a == ((y + 1) * LINE_HEIGHT) * font
  <2>1. y \in Nat /\ y # 0 /\ c.y_char + 2 = y + 1
    BY <1>13
  <2>2. low(c.y_char) = a
    BY <2>1, Zenon
  <2>3. a \in Nat
    BY <1>3, <2>1
  <2>4. a < HEIGHT <=> y < L
    BY <1>6, <1>10, <2>1
  <2>5. AtBottom(c) <=> a >= HEIGHT
    BY <1>2, <1>13, <2>2, Zenon
  <2> HIDE DEF y, a, low
  <2>6. AtBottom(c) <=> L <= y
    BY <1>1, <1>10, <2>1, <2>3, <2>4, <2>5
  <2> QED BY <2>6 DEF y
<1> QED BY <1>10, <1>11, <1>12, <1>13 DEF L

-----------------------------------------------------------------------------
(* The cells of the screen.                                                *)

\* What a cell shows.
Glyph == STRING \cup {BLANK, SMEAR, CURSOR, NEWLINE, BACKSPACE}

\* They differ.
LEMMA BackOrNext == NEWLINE # BACKSPACE
  BY DEF NEWLINE, BACKSPACE

\* These show something.
LEMMA Glyphs == BLANK \in Glyph /\ SMEAR \in Glyph
  BY DEF Glyph

Cells == [Row \X Column -> Glyph]
Driver(cells) == [fontSize : {con.fontSize}, column : Int, y_char : Nat, cell : cells]
Console == Driver(Cells)

\* At another column, with other cells.
WithCells(c, x, g) == [c EXCEPT !.column = x, !.cell = g]

\* Nothing else changes.
LEMMA CellsChanged ==
  ASSUME NEW cells, NEW c \in Driver(cells), NEW x \in Int, NEW g \in cells
  PROVE  LET d == WithCells(c, x, g)
         IN  d \in Driver(cells) /\ d.column = x /\ d.y_char = c.y_char /\ d.cell = g
  BY DEF Driver, WithCells

\* At another column and line.
WithLine(c, x, y) == [c EXCEPT !.column = x, !.y_char = y]

\* Nor here.
LEMMA LineChanged ==
  ASSUME NEW cells, NEW c \in Driver(cells), NEW x \in Int, NEW y \in Nat
  PROVE  LET d == WithLine(c, x, y)
         IN  d \in Driver(cells) /\ d.column = x /\ d.y_char = y /\ d.cell = c.cell
  BY DEF Driver, WithLine

\* What a driver has.
LEMMA ConsoleHas ==
  ASSUME NEW c \in Console
  PROVE  c.fontSize = con.fontSize /\ c.column \in Int /\ c.y_char \in Nat /\ c.cell \in [Row \X Column -> Glyph]
  BY DEF Console, Driver, Cells

W == Columns(con.fontSize)
H == Lines(con.fontSize)

\* What ColumnsAre and LinesAre say of the present font.
LEMMA SizesNow ==
  ASSUME con.fontSize \in Font
  PROVE  /\ W \in Nat \ {0} /\ \A x \in Nat : x < W => x \in Column
         /\ H \in Nat \ {0} /\ \A y \in Nat : y < H => y \in Row
         /\ Row \subseteq Nat /\ Column \subseteq Nat
         /\ \A c \in Console : c.column \in Nat => (AtEdge(c) <=> W <= c.column)
         /\ \A c \in Console : AtBottom(c) <=> H <= c.y_char + 1
<1>1. Row \subseteq Nat /\ Column \subseteq Nat
  BY ScreenSizes DEF Row, Column
<1>2. \A c \in Console : c.fontSize = con.fontSize /\ c.y_char \in Nat
  BY ConsoleHas
<1> QED BY <1>1, <1>2, ColumnsAre, LinesAre DEF W, H

\* The next line.
LEMMA NextLineIs ==
  ASSUME con.fontSize \in Font, NEW c \in Console
  PROVE  LET d == NextLine(c)
         IN  /\ d \in Console /\ d.column = 0
             /\ H <= c.y_char + 1 =>
                  /\ d.y_char = c.y_char
                  /\ \A y \in Row, x \in Column :
                       d.cell[<<y, x>>] = IF y + 1 \in Row THEN c.cell[<<y + 1, x>>] ELSE BLANK
             /\ ~(H <= c.y_char + 1) =>
                  /\ d.y_char = c.y_char + 1
                  /\ \A y \in Row, x \in Column : d.cell[<<y, x>>] = c.cell[<<y, x>>]
<1> DEFINE d == NextLine(c)
           moved == [p \in Row \X Column |->
                       IF p[1] + 1 \in Row THEN c.cell[<<p[1] + 1, p[2]>>] ELSE BLANK]
<1>1. c.fontSize = con.fontSize /\ c.column \in Int /\ c.y_char \in Nat /\ c.cell \in [Row \X Column -> Glyph]
  BY ConsoleHas
<1>2. AtBottom(c) <=> H <= c.y_char + 1
  BY SizesNow
<1>3. moved \in [Row \X Column -> Glyph]
  <2>1. ASSUME NEW y \in Row, NEW x \in Column, y + 1 \in Row PROVE c.cell[<<y + 1, x>>] \in Glyph
    BY <1>1, <2>1
  <2>2. BLANK \in Glyph
    BY Glyphs
  <2> QED BY <2>1, <2>2
<1>4. \A y \in Row, x \in Column : moved[<<y, x>>] = IF y + 1 \in Row THEN c.cell[<<y + 1, x>>] ELSE BLANK
  OBVIOUS
<1> HIDE DEF moved
<1>5. CASE AtBottom(c)
  <2>1. d = WithCells(c, 0, moved)
    BY <1>5, Zenon DEF NextLine, WithCells, moved
  <2>2. d.column = 0 /\ d.y_char = c.y_char /\ d.cell = moved /\ d \in Console
    <3>1. c \in Driver(Cells) /\ 0 \in Int /\ moved \in Cells
      BY <1>3 DEF Console, Cells
    <3> HIDE DEF d
    <3> QED BY <2>1, <3>1, CellsChanged DEF Console
  <2> QED BY <1>2, <1>4, <1>5, <2>2
<1>6. CASE ~ AtBottom(c)
  <2>1. d = WithLine(c, 0, c.y_char + 1)
    BY <1>6, Zenon DEF NextLine, WithLine
  <2>2. d.column = 0 /\ d.y_char = c.y_char + 1 /\ d.cell = c.cell /\ d \in Console
    <3>1. c \in Driver(Cells) /\ 0 \in Int /\ c.y_char + 1 \in Nat
      BY <1>1 DEF Console
    <3> HIDE DEF d
    <3> QED BY <2>1, <3>1, LineChanged DEF Console
  <2> QED BY <1>2, <1>6, <2>2
<1> QED BY <1>5, <1>6

\* A character that is drawn.
LEMMA DrawnIs ==
  ASSUME con.fontSize \in Font, NEW c \in Console, c.column \in Column, c.y_char \in Row, NEW char \in Glyph
  PROVE  LET d == Drawn(c, char)
             old == c.cell[<<c.y_char, c.column>>]
         IN  /\ d \in Console /\ d.column = c.column + 1 /\ d.y_char = c.y_char
             /\ d.cell[<<c.y_char, c.column>>] =
                  IF char = BLANK THEN old ELSE IF old = BLANK THEN char ELSE SMEAR
             /\ \A y \in Row, x \in Column :
                  ~(y = c.y_char /\ x = c.column) => d.cell[<<y, x>>] = c.cell[<<y, x>>]
<1> DEFINE d == Drawn(c, char)
           at == <<c.y_char, c.column>>
           old == c.cell[at]
           new == IF char = BLANK THEN old ELSE IF old = BLANK THEN char ELSE SMEAR
           all == [c.cell EXCEPT ![at] = new]
<1>1. c.fontSize = con.fontSize /\ c.column \in Int /\ c.y_char \in Nat /\ c.cell \in [Row \X Column -> Glyph]
  BY ConsoleHas
<1>2. at \in Row \X Column /\ old \in Glyph
  BY <1>1
<1>3. new \in Glyph
  BY <1>2, Glyphs
<1>4. d = WithCells(c, c.column + 1, all)
  BY Zenon DEF Drawn, WithCells
<1>5. \A y \in Row, x \in Column : ~(y = c.y_char /\ x = c.column) => <<y, x>> # at
  OBVIOUS
<1> HIDE DEF new, at
<1>6. all \in [Row \X Column -> Glyph] /\ all[at] = new /\ \A p \in Row \X Column : p # at => all[p] = c.cell[p]
  BY <1>1, <1>2, <1>3
<1> HIDE DEF all
<1>7. d \in Console /\ d.column = c.column + 1 /\ d.y_char = c.y_char /\ d.cell = all
  <2>1. c \in Driver(Cells) /\ c.column + 1 \in Int /\ all \in Cells
    BY <1>1, <1>6 DEF Console, Cells
  <2> HIDE DEF d
  <2> QED BY <1>4, <2>1, CellsChanged DEF Console
<1> QED BY <1>5, <1>6, <1>7 DEF new, at

\* A character that is wiped.
LEMMA ErasedIs ==
  ASSUME con.fontSize \in Font, NEW c \in Console
  PROVE  LET d == Erased(c)
             X == c.column - 1
             Y == c.y_char
         IN  /\ d \in Console /\ d.column = X /\ d.y_char = Y
             /\ \A y \in Row, x \in Column :
                  d.cell[<<y, x>>] =
                    IF Y <= y /\ y <= 2 * Y /\ X <= x /\ x <= 2 * X - 1 THEN BLANK ELSE c.cell[<<y, x>>]
<1> DEFINE d == Erased(c)
           X == c.column - 1
           Y == c.y_char
           all == [p \in Row \X Column |-> IF p \in Wiped(Y, X) THEN BLANK ELSE c.cell[p]]
<1>1. X \in Int /\ Y \in Nat /\ c.cell \in [Row \X Column -> Glyph]
  <2>1. c.column \in Int /\ Y \in Nat /\ c.cell \in [Row \X Column -> Glyph]
    BY ConsoleHas
  <2> QED BY <2>1
<1>2. d = WithCells(c, X, all)
  BY Zenon DEF Erased, WithCells
<1>3. all \in [Row \X Column -> Glyph]
  BY <1>1, Glyphs
<1>4. \A y \in Row, x \in Column : all[<<y, x>>] = IF <<y, x>> \in Wiped(Y, X) THEN BLANK ELSE c.cell[<<y, x>>]
  OBVIOUS
<1> HIDE DEF all
<1>5. d \in Console /\ d.column = X /\ d.y_char = Y /\ d.cell = all
  <2>1. c \in Driver(Cells) /\ X \in Int /\ all \in Cells
    BY <1>1, <1>3 DEF Console, Cells
  <2> HIDE DEF d, X
  <2> QED BY <1>2, <2>1, CellsChanged DEF Console
<1> HIDE DEF X, Y
<1>6. \A y \in Row, x \in Column :
        <<y, x>> \in Wiped(Y, X) <=> Y <= y /\ y <= 2 * Y /\ X <= x /\ x <= 2 * X - 1
  <2>1. Row \subseteq Nat /\ Column \subseteq Nat
    BY SizesNow
  <2> QED BY <1>1, <2>1 DEF Wiped
<1> HIDE DEF d
<1>7. \A y \in Row, x \in Column :
        d.cell[<<y, x>>] =
          IF Y <= y /\ y <= 2 * Y /\ X <= x /\ x <= 2 * X - 1 THEN BLANK ELSE c.cell[<<y, x>>]
  BY <1>4, <1>5, <1>6, Zenon
<1> QED BY <1>5, <1>7 DEF d, X, Y

\* The cursor stays on the screen or just beside it, and on a line of it.
Placed(c) == c \in Console /\ c.column \in -1 .. W /\ c.y_char \in 0 .. H - 1

\* A character leaves it there.
LEMMA PutPlaced ==
  ASSUME con.fontSize \in Font, NEW c, Placed(c), NEW char \in Glyph
  PROVE  Placed(PutChar(c, char))
<1> DEFINE d == IF AtEdge(c) \/ char = NEWLINE THEN NextLine(c) ELSE c
<1>1. c \in Console /\ c.column \in -1 .. W /\ c.y_char \in 0 .. H - 1 /\ W \in Nat \ {0} /\ H \in Nat \ {0}
  BY SizesNow DEF Placed
<1>2. Placed(NextLine(c)) /\ NextLine(c).column = 0
  <2> DEFINE e == NextLine(c)
  <2>1. /\ e \in Console /\ e.column = 0
        /\ H <= c.y_char + 1 => e.y_char = c.y_char
        /\ ~(H <= c.y_char + 1) => e.y_char = c.y_char + 1
    BY <1>1, NextLineIs
  <2> HIDE DEF e
  <2>2. e.y_char \in 0 .. H - 1 /\ e.column \in -1 .. W
    BY <1>1, <2>1
  <2> QED BY <2>1, <2>2 DEF e, Placed
<1>3. Placed(d) /\ d.column \in 0 .. W - 1 \cup {W} /\ (d.column \in 0 .. W - 1 \/ char = NEWLINE)
  <2>1. CASE AtEdge(c) \/ char = NEWLINE
    <3>1. d = NextLine(c)
      BY <2>1, Zenon
    <3>2. 0 \in 0 .. W - 1
      BY <1>1
    <3> QED BY <1>2, <3>1, <3>2, Zenon
  <2>2. CASE ~ AtEdge(c) /\ char # NEWLINE
    <3>1. d = c
      BY <2>2, Zenon
    <3>2. ~(c.column < 0)
      BY <2>2, Zenon DEF AtEdge
    <3>3. c.column \in Nat
      BY <1>1, <3>2
    <3>4. ~(W <= c.column)
      BY <1>1, <2>2, <3>3, SizesNow
    <3>5. c.column \in 0 .. W - 1
      BY <1>1, <3>3, <3>4
    <3> QED BY <3>1, <3>5, Zenon
  <2> QED BY <2>1, <2>2
<1> HIDE DEF d
<1>4. CASE char = BACKSPACE
  <2>1. PutChar(c, char) = Erased(d)
    BY <1>4, BackOrNext DEF PutChar, d
  <2> DEFINE e == Erased(d)
  <2>2. e \in Console /\ e.column = d.column - 1 /\ e.y_char = d.y_char
    BY <1>3, ErasedIs DEF Placed
  <2> HIDE DEF e
  <2>3. d.column - 1 \in -1 .. W
    BY <1>1, <1>3
  <2>4. Placed(e)
    BY <1>3, <2>2, <2>3 DEF Placed
  <2> QED BY <2>1, <2>4 DEF e
<1>5. CASE char = NEWLINE
  <2>1. PutChar(c, char) = d
    BY <1>5, BackOrNext, Zenon DEF PutChar, d
  <2> QED BY <1>3, <2>1
<1>6. CASE char # BACKSPACE /\ char # NEWLINE
  <2>1. PutChar(c, char) = Drawn(d, char)
    BY <1>6, Zenon DEF PutChar, d
  <2>2. d.column \in 0 .. W - 1 /\ d \in Console /\ d.y_char \in 0 .. H - 1
    BY <1>3, <1>6 DEF Placed
  <2>3. d.column \in Column /\ d.y_char \in Row
    BY <1>1, <2>2, SizesNow
  <2> DEFINE e == Drawn(d, char)
  <2>4. e \in Console /\ e.column = d.column + 1 /\ e.y_char = d.y_char
    BY <2>2, <2>3, DrawnIs
  <2> HIDE DEF e
  <2>5. d.column + 1 \in -1 .. W
    BY <1>1, <2>2
  <2>6. Placed(e)
    BY <2>2, <2>4, <2>5 DEF Placed
  <2> QED BY <2>1, <2>6 DEF e
<1> QED BY <1>4, <1>5, <1>6

\* However much is printed.
LEMMA PrintPlaced ==
  ASSUME con.fontSize \in Font, NEW c, Placed(c), NEW s \in Seq(Glyph)
  PROVE  Placed(PrintString(c, s))
<1> DEFINE n == Len(s)
<1>1. n \in Nat /\ DOMAIN s = 1 .. n /\ \A i \in 1 .. n : s[i] \in Glyph
  OBVIOUS
<1> HIDE DEF n
<1>2. Reaches("put", c, s, n, PrintString(c, s))
  BY <1>1, PutReached
<1>3. PICK q : /\ q[0] = c
               /\ \A k \in 0 .. n - 1 : q[k + 1] = CharStep("put", q[k], s[k + 1])
               /\ PrintString(c, s) = q[n]
  BY <1>2, Zenon DEF Reaches
<1> DEFINE good == {k \in Nat : k <= n => Placed(q[k])}
<1>4. 0 \in good
  BY <1>3
<1>5. ASSUME NEW k \in Nat, k \in good PROVE k + 1 \in good
  <2> SUFFICES ASSUME k + 1 <= n PROVE Placed(q[k + 1])
    OBVIOUS
  <2>1. k \in 0 .. n - 1 /\ k <= n /\ k + 1 \in 1 .. n
    BY <1>1
  <2>2. q[k + 1] = PutChar(q[k], s[k + 1])
    BY <1>3, <2>1 DEF CharStep
  <2> QED BY <1>1, <1>5, <2>1, <2>2, PutPlaced
<1> HIDE DEF good
<1>6. Nat \subseteq good
  BY <1>4, <1>5, Induct
<1> QED BY <1>1, <1>3, <1>6 DEF good

-----------------------------------------------------------------------------
(* What the cells show.                                                    *)

Texts == Seq(Seq(Glyph)) \ {<<>>}

\* What a line has in a column.
At(lines, i, x) == IF x < Len(lines[i]) THEN lines[i][x + 1] ELSE BLANK

\* The rows down to that of the cursor are the last lines that were written,
\* the cursor stands after the last of them, and the rest is blank.  Lines that
\* were moved out of the screen are still among them.
Shows(c, lines) ==
  /\ Placed(c) /\ lines \in Texts
  /\ \A i \in 1 .. Len(lines) : Len(lines[i]) <= W
  /\ c.column = Len(lines[Len(lines)])
  /\ c.y_char = IF Len(lines) <= H THEN Len(lines) - 1 ELSE H - 1
  /\ \A y \in Row, x \in Column :
       c.cell[<<y, x>>] = IF y <= c.y_char THEN At(lines, Len(lines) - c.y_char + y, x) ELSE BLANK

\* The lines of a text, and where it ends.
LEMMA TextsAre ==
  ASSUME NEW lines \in Texts
  PROVE  /\ Len(lines) \in Nat \ {0} /\ DOMAIN lines = 1 .. Len(lines) /\ lines \in Seq(Seq(Glyph))
         /\ \A i \in 1 .. Len(lines) : lines[i] \in Seq(Glyph) /\ Len(lines[i]) \in Nat
<1>1. lines \in Seq(Seq(Glyph)) /\ lines # <<>>
  BY DEF Texts
<1>2. Len(lines) \in Nat \ {0}
  BY <1>1, Sequence!EmptySeq
<1>3. \A i \in 1 .. Len(lines) : lines[i] \in Seq(Glyph)
  BY <1>1, Sequence!ElementOfSeq
<1>4. \A s \in Seq(Glyph) : Len(s) \in Nat
  BY Sequence!LenProperties
<1> QED BY <1>1, <1>2, <1>3, <1>4, Sequence!LenProperties

\* A line is added.
LEMMA LineAdded ==
  ASSUME NEW lines \in Texts, NEW s \in Seq(Glyph)
  PROVE  LET ls == Append(lines, s)
             n == Len(lines)
         IN  /\ ls \in Texts /\ Len(ls) = n + 1 /\ ls[n + 1] = s
             /\ \A i \in 1 .. n : ls[i] = lines[i]
<1>1. lines \in Seq(Seq(Glyph)) /\ Len(lines) \in Nat \ {0}
  BY TextsAre, SMTT(30)
<1> QED BY <1>1, Sequence!AppendProperties DEF Texts

\* The last line changes.
LEMMA LineEdited ==
  ASSUME NEW lines \in Texts, NEW s \in Seq(Glyph)
  PROVE  LET ls == [lines EXCEPT ![Len(lines)] = s]
             n == Len(lines)
         IN  /\ ls \in Texts /\ Len(ls) = n /\ ls[n] = s
             /\ \A i \in 1 .. n - 1 : ls[i] = lines[i]
<1> DEFINE ls == [lines EXCEPT ![Len(lines)] = s]
           n == Len(lines)
<1>1. lines \in Seq(Seq(Glyph)) /\ n \in Nat \ {0} /\ n \in 1 .. n
  BY TextsAre
<1>2. ls \in Seq(Seq(Glyph)) /\ Len(ls) = n /\ \A i \in 1 .. n : ls[i] = IF i = n THEN s ELSE lines[i]
  <2> HIDE DEF n
  <2>1. lines \in Seq(Seq(Glyph)) /\ n \in 1 .. Len(lines) /\ s \in Seq(Glyph) /\ Len(lines) = n
    BY <1>1 DEF n
  <2>2. ls = [lines EXCEPT ![n] = s]
    BY DEF n
  <2> HIDE DEF ls
  <2>3. \A j \in 1 .. n : [lines EXCEPT ![n] = s][j] = IF j = n THEN s ELSE lines[j]
    BY <2>1, Sequence!ExceptSeq
  <2>4. [lines EXCEPT ![n] = s] \in Seq(Seq(Glyph)) /\ Len([lines EXCEPT ![n] = s]) = n
    BY <2>1, Sequence!ExceptSeq
  <2> QED BY <2>2, <2>3, <2>4, Zenon
<1> HIDE DEF ls, n
<1>3. ls # <<>>
  BY <1>1, <1>2, Sequence!EmptySeq
<1>4. \A i \in 1 .. n - 1 : i \in 1 .. n /\ i # n
  BY <1>1
<1>5. ls[n] = s /\ \A i \in 1 .. n - 1 : ls[i] = lines[i]
  BY <1>1, <1>2, <1>4
<1>6. ls \in Texts
  BY <1>2, <1>3 DEF Texts
<1> QED BY <1>2, <1>5, <1>6 DEF ls, n

\* The next line.
LEMMA NewlineShows ==
  ASSUME con.fontSize \in Font, NEW c, NEW lines, Shows(c, lines)
  PROVE  Shows(NextLine(c), Append(lines, <<>>))
<1> DEFINE d == NextLine(c)
           ls == Append(lines, <<>>)
           n == Len(lines)
           Y == c.y_char
<1>1. /\ Placed(c) /\ lines \in Texts /\ \A i \in 1 .. n : Len(lines[i]) <= W
      /\ Y = IF n <= H THEN n - 1 ELSE H - 1
      /\ \A y \in Row, x \in Column :
           c.cell[<<y, x>>] = IF y <= Y THEN At(lines, n - Y + y, x) ELSE BLANK
  BY DEF Shows
<1>2. c \in Console /\ W \in Nat \ {0} /\ H \in Nat \ {0} /\ n \in Nat \ {0}
  BY <1>1, TextsAre, SizesNow DEF Placed
<1>3. /\ d \in Console /\ d.column = 0
      /\ H <= Y + 1 =>
           /\ d.y_char = Y
           /\ \A y \in Row, x \in Column :
                d.cell[<<y, x>>] = IF y + 1 \in Row THEN c.cell[<<y + 1, x>>] ELSE BLANK
      /\ ~(H <= Y + 1) =>
           /\ d.y_char = Y + 1
           /\ \A y \in Row, x \in Column : d.cell[<<y, x>>] = c.cell[<<y, x>>]
  BY <1>2, NextLineIs
<1>4. ls \in Texts /\ Len(ls) = n + 1 /\ ls[n + 1] = <<>> /\ \A i \in 1 .. n : ls[i] = lines[i]
  <2>1. <<>> \in Seq(Glyph)
    BY Sequence!EmptySeq
  <2> QED BY <1>1, <2>1, LineAdded
<1>5. \A i \in 1 .. n : \A x \in Column : At(ls, i, x) = At(lines, i, x)
  BY <1>4, Zenon DEF At
<1>6. \A x \in Column : At(ls, n + 1, x) = BLANK
  <2>1. \A x \in Column : ~(x < Len(<<>>))
    BY SizesNow
  <2> QED BY <1>4, <2>1, Zenon DEF At
<1>7. Len(ls[n + 1]) = 0 /\ \A i \in 1 .. n + 1 : Len(ls[i]) <= W
  <2>1. Len(<<>>) = 0 /\ \A i \in 1 .. n + 1 : i = n + 1 \/ i \in 1 .. n
    BY <1>2
  <2> QED BY <1>1, <1>2, <1>4, <2>1
<1>8. /\ Row \subseteq Nat
      /\ \A y \in Nat : y < H => y \in Row
      /\ \A y \in Row : y + 1 \notin Row => \A z \in Row : z <= y
  BY SizesNow, ScreenSizes DEF Row
<1> HIDE DEF d, ls, n, Y
<1>9. CASE H <= Y + 1
  <2>1. Y = H - 1 /\ d.y_char = H - 1 /\ H <= n /\ H - 1 \in Nat /\ H - 1 \in Row
    BY <1>1, <1>2, <1>3, <1>8, <1>9
  <2>2. ASSUME NEW y \in Row, NEW x \in Column
        PROVE  d.cell[<<y, x>>] = IF y <= H - 1 THEN At(ls, (n + 1) - (H - 1) + y, x) ELSE BLANK
    <3>1. d.cell[<<y, x>>] = IF y + 1 \in Row THEN c.cell[<<y + 1, x>>] ELSE BLANK
      BY <1>3, <1>9
    <3>2. y \in Nat
      BY <1>8
    <3>3. CASE y + 1 <= H - 1
      <4>1. y + 1 \in Row /\ y <= H - 1 /\ n - (H - 1) + (y + 1) \in 1 .. n
            /\ (n + 1) - (H - 1) + y = n - (H - 1) + (y + 1)
        BY <1>2, <1>8, <2>1, <3>2, <3>3
      <4>2. c.cell[<<y + 1, x>>] = At(lines, n - (H - 1) + (y + 1), x)
        BY <1>1, <2>1, <3>3, <4>1
      <4> QED BY <1>5, <3>1, <4>1, <4>2
    <3>4. CASE y = H - 1
      <4>1. (n + 1) - (H - 1) + y = n + 1 /\ y <= H - 1 /\ ~(y + 1 <= H - 1)
        BY <1>2, <2>1, <3>2, <3>4
      <4>2. y + 1 \in Row => c.cell[<<y + 1, x>>] = BLANK
        BY <1>1, <2>1, <4>1
      <4> QED BY <1>6, <3>1, <4>1, <4>2
    <3>5. CASE H - 1 < y
      <4>1. ~(y + 1 <= H - 1) /\ ~(y <= H - 1)
        BY <1>2, <2>1, <3>2, <3>5
      <4>2. y + 1 \in Row => c.cell[<<y + 1, x>>] = BLANK
        BY <1>1, <2>1, <4>1
      <4> QED BY <3>1, <4>1, <4>2
    <3> QED BY <1>2, <2>1, <3>2, <3>3, <3>4, <3>5
  <2>3. ~(n + 1 <= H)
    BY <1>2, <2>1
  <2>4. d.y_char \in 0 .. H - 1 /\ 0 \in -1 .. W
    BY <1>2, <2>1
  <2>5. Placed(d)
    BY <1>3, <2>4 DEF Placed
  <2> HIDE DEF Shows
  <2>6. Shows(d, ls)
    BY <1>3, <1>4, <1>7, <2>1, <2>2, <2>3, <2>5 DEF Shows
  <2> QED BY <2>6 DEF d, ls
<1>10. CASE ~(H <= Y + 1)
  <2>1. Y = n - 1 /\ d.y_char = n /\ n + 1 <= H /\ n \in Row /\ (n + 1) - n = 1 /\ n - (n - 1) = 1 /\ (n + 1) - 1 = n
    BY <1>1, <1>2, <1>3, <1>8, <1>10
  <2>2. ASSUME NEW y \in Row, NEW x \in Column
        PROVE  d.cell[<<y, x>>] = IF y <= n THEN At(ls, 1 + y, x) ELSE BLANK
    <3>1. d.cell[<<y, x>>] = IF y <= n - 1 THEN At(lines, 1 + y, x) ELSE BLANK
      BY <1>1, <1>3, <1>10, <2>1
    <3>2. y \in Nat
      BY <1>8
    <3>3. CASE y <= n - 1
      <4>1. y <= n /\ 1 + y \in 1 .. n
        BY <1>2, <3>2, <3>3
      <4> QED BY <1>5, <3>1, <3>3, <4>1
    <3>4. CASE y = n
      <4>1. y <= n /\ ~(y <= n - 1) /\ 1 + y = n + 1
        BY <1>2, <3>2, <3>4
      <4> QED BY <1>6, <3>1, <4>1
    <3>5. CASE n < y
      <4>1. ~(y <= n) /\ ~(y <= n - 1)
        BY <1>2, <3>2, <3>5
      <4> QED BY <3>1, <4>1
    <3> QED BY <1>2, <3>2, <3>3, <3>4, <3>5
  <2>4. d.y_char \in 0 .. H - 1 /\ 0 \in -1 .. W
    BY <1>2, <2>1
  <2>5. Placed(d)
    BY <1>3, <2>4 DEF Placed
  <2>6. Shows(d, ls)
    BY <1>3, <1>4, <1>7, <2>1, <2>2, <2>5 DEF Shows
  <2> QED BY <2>6 DEF d, ls
<1> QED BY <1>9, <1>10

\* A character goes after the last line when there is room for it.
LEMMA DrawShows ==
  ASSUME con.fontSize \in Font, NEW c, NEW lines, Shows(c, lines), c.column < W, NEW char \in Glyph
  PROVE  Shows(Drawn(c, char), [lines EXCEPT ![Len(lines)] = Append(@, char)])
<1> DEFINE d == Drawn(c, char)
           n == Len(lines)
           last == lines[n]
           ls == [lines EXCEPT ![n] = Append(last, char)]
           Y == c.y_char
           X == c.column
<1>1. /\ Placed(c) /\ lines \in Texts /\ \A i \in 1 .. n : Len(lines[i]) <= W
      /\ X = Len(last)
      /\ Y = IF n <= H THEN n - 1 ELSE H - 1
      /\ \A y \in Row, x \in Column :
           c.cell[<<y, x>>] = IF y <= Y THEN At(lines, n - Y + y, x) ELSE BLANK
  BY DEF Shows
<1>2. /\ c \in Console /\ Y \in 0 .. H - 1 /\ W \in Nat \ {0} /\ H \in Nat \ {0} /\ n \in Nat \ {0}
      /\ X \in Nat /\ X < W
  BY <1>1, TextsAre, SizesNow DEF Placed
<1>3. X \in Column /\ Y \in Row /\ Row \subseteq Nat /\ Column \subseteq Nat
  BY <1>2, SizesNow
<1>4. /\ d \in Console /\ d.column = X + 1 /\ d.y_char = Y
      /\ d.cell[<<Y, X>>] = IF char = BLANK THEN c.cell[<<Y, X>>] ELSE IF c.cell[<<Y, X>>] = BLANK THEN char ELSE SMEAR
      /\ \A y \in Row, x \in Column : ~(y = Y /\ x = X) => d.cell[<<y, x>>] = c.cell[<<y, x>>]
  BY <1>2, <1>3, DrawnIs
<1>5. last \in Seq(Glyph) /\ n \in 1 .. n
  BY <1>1, <1>2, TextsAre
<1>6. Append(last, char) \in Seq(Glyph) /\ Len(Append(last, char)) = X + 1 /\ Append(last, char)[X + 1] = char
      /\ \A i \in 1 .. X : Append(last, char)[i] = last[i]
  <2> HIDE DEF last
  <2> QED BY <1>1, <1>5, Sequence!AppendProperties, SMTT(30)
<1>7. ls \in Texts /\ Len(ls) = n /\ ls[n] = Append(last, char) /\ \A i \in 1 .. n - 1 : ls[i] = lines[i]
  <2> DEFINE s == Append(last, char)
  <2>1. s \in Seq(Glyph)
    BY <1>6
  <2> HIDE DEF s
  <2>2. LET l == [lines EXCEPT ![Len(lines)] = s]
        IN  l \in Texts /\ Len(l) = n /\ l[n] = s /\ \A i \in 1 .. n - 1 : l[i] = lines[i]
    BY <1>1, <2>1, LineEdited
  <2> QED BY <2>2 DEF s
<1>8. \A i \in 1 .. n - 1 : \A x \in Column : At(ls, i, x) = At(lines, i, x)
  <2> HIDE DEF ls, last, n
  <2> QED BY <1>7, Zenon DEF At
<1>9. At(lines, n, X) = BLANK
  <2>1. ~(X < Len(last))
    BY <1>1, <1>2
  <2> QED BY <2>1, Zenon DEF At
<1>10. \A x \in Column : At(ls, n, x) = IF x = X THEN char ELSE At(lines, n, x)
  <2> SUFFICES ASSUME NEW x \in Column PROVE At(ls, n, x) = IF x = X THEN char ELSE At(lines, n, x)
    OBVIOUS
  <2>1. At(ls, n, x) = IF x < X + 1 THEN Append(last, char)[x + 1] ELSE BLANK
    <3> HIDE DEF ls, last, n, X
    <3> QED BY <1>6, <1>7, Zenon DEF At
  <2>2. At(lines, n, x) = IF x < X THEN last[x + 1] ELSE BLANK
    BY <1>1, Zenon DEF At
  <2>3. x \in Nat
    BY <1>3
  <2> HIDE DEF X, last, ls, n
  <2>4. CASE x < X
    <3>1. x < X + 1 /\ x + 1 \in 1 .. X /\ x # X
      BY <1>2, <2>3, <2>4
    <3> QED BY <1>6, <2>1, <2>2, <2>4, <3>1
  <2>5. CASE x = X
    <3>1. x < X + 1
      BY <1>2, <2>5
    <3> QED BY <1>6, <2>1, <2>5, <3>1
  <2>6. CASE X < x
    <3>1. ~(x < X + 1) /\ ~(x < X) /\ x # X
      BY <1>2, <2>3, <2>6, SMTT(30)
    <3> QED BY <2>1, <2>2, <3>1
  <2> QED BY <1>2, <2>3, <2>4, <2>5, <2>6
<1>11. \A i \in 1 .. n : Len(ls[i]) <= W
  <2>1. \A i \in 1 .. n : i = n \/ i \in 1 .. n - 1
    BY <1>2
  <2>2. X + 1 <= W
    BY <1>2
  <2> QED BY <1>1, <1>6, <1>7, <2>1, <2>2
<1>12. Len(ls[n]) = X + 1
  BY <1>6, <1>7
<1> HIDE DEF last
<1>13. ls = [lines EXCEPT ![Len(lines)] = Append(@, char)]
  BY DEF last
<1> HIDE DEF d, ls, n, Y, X
<1>14. n - Y + Y = n /\ c.cell[<<Y, X>>] = At(lines, n, X)
  <2>1. n - Y + Y = n /\ Y <= Y
    BY <1>2
  <2> QED BY <1>1, <1>3, <2>1
<1>15. ASSUME NEW y \in Row, NEW x \in Column
       PROVE  d.cell[<<y, x>>] = IF y <= Y THEN At(ls, n - Y + y, x) ELSE BLANK
  <2>1. y \in Nat /\ Y \in Nat
    BY <1>2, <1>3
  <2>2. CASE y < Y
    <3>1. y <= Y /\ n - Y + y \in 1 .. n - 1 /\ y # Y
      BY <1>1, <1>2, <2>1, <2>2
    <3> QED BY <1>1, <1>4, <1>8, <3>1
  <2>3. CASE y = Y /\ x = X
    <3>1. d.cell[<<Y, X>>] = char
      BY <1>4, <1>9, <1>14
    <3>2. y <= Y
      BY <2>1, <2>3
    <3> QED BY <1>10, <1>14, <2>3, <3>1, <3>2
  <2>4. CASE y = Y /\ x # X
    <3>1. y <= Y
      BY <2>1, <2>4
    <3>2. d.cell[<<y, x>>] = At(lines, n, x)
      BY <1>1, <1>4, <1>14, <2>4, <3>1
    <3> QED BY <1>10, <1>14, <2>4, <3>1, <3>2
  <2>5. CASE Y < y
    <3>1. ~(y <= Y) /\ y # Y
      BY <2>1, <2>5
    <3> QED BY <1>1, <1>4, <3>1
  <2> QED BY <2>1, <2>2, <2>3, <2>4, <2>5
<1>16. Placed(d)
  <2>1. X + 1 \in -1 .. W
    BY <1>2
  <2> QED BY <1>2, <1>4, <2>1 DEF Placed
<1>17. Shows(d, ls)
  BY <1>1, <1>4, <1>7, <1>11, <1>12, <1>15, <1>16 DEF Shows
<1> QED BY <1>13, <1>17 DEF d

\* What Front leaves.
LEMMA FrontIs ==
  ASSUME NEW S, NEW s \in Seq(S), s # <<>>
  PROVE  /\ Front(s) \in Seq(S) /\ Len(Front(s)) = Len(s) - 1 /\ Len(s) \in Nat \ {0}
         /\ \A i \in 1 .. Len(s) - 1 : Front(s)[i] = s[i]
<1>1. Len(s) \in Nat \ {0} /\ \A i \in 1 .. Len(s) : s[i] \in S
  BY Sequence!EmptySeq, Sequence!ElementOfSeq
<1> DEFINE m == Len(s)
           n == m - 1
<1>2. n \in Nat /\ \A i \in 1 .. n : s[i] \in S
  <2>1. m \in Nat \ {0} /\ \A i \in 1 .. m : s[i] \in S
    BY <1>1
  <2> HIDE DEF m
  <2>2. n \in Nat /\ \A i \in 1 .. n : i \in 1 .. m
    BY <2>1
  <2> HIDE DEF n
  <2> QED BY <2>1, <2>2
<1> HIDE DEF n
<1>3. /\ SubSeq(s, 1, n) \in Seq(S) /\ Len(SubSeq(s, 1, n)) = n
      /\ \A i \in 1 .. n : SubSeq(s, 1, n)[i] = s[i]
  BY <1>2
<1> QED BY <1>1, <1>3 DEF Front, n, m

\* A character is taken away when it is not in the first column.
LEMMA EraseShows ==
  ASSUME con.fontSize \in Font, NEW c, NEW lines, Shows(c, lines), 2 <= c.column
  PROVE  Shows(Erased(c), [lines EXCEPT ![Len(lines)] = Front(@)])
<1> DEFINE d == Erased(c)
           n == Len(lines)
           last == lines[n]
           ls == [lines EXCEPT ![n] = Front(last)]
           Y == c.y_char
           X == c.column - 1
<1>1. /\ Placed(c) /\ lines \in Texts /\ \A i \in 1 .. n : Len(lines[i]) <= W
      /\ c.column = Len(last)
      /\ Y = IF n <= H THEN n - 1 ELSE H - 1
      /\ \A y \in Row, x \in Column :
           c.cell[<<y, x>>] = IF y <= Y THEN At(lines, n - Y + y, x) ELSE BLANK
  BY DEF Shows
<1>2. /\ c \in Console /\ Y \in 0 .. H - 1 /\ W \in Nat \ {0} /\ H \in Nat \ {0} /\ n \in Nat \ {0}
      /\ c.column \in Nat /\ c.column <= W
  BY <1>1, TextsAre, SizesNow DEF Placed
<1>3. X \in Nat /\ 1 <= X /\ X + 1 <= W /\ Len(last) = X + 1 /\ Row \subseteq Nat /\ Column \subseteq Nat
  BY <1>1, <1>2, SizesNow
<1>4. /\ d \in Console /\ d.column = X /\ d.y_char = Y
      /\ \A y \in Row, x \in Column :
           d.cell[<<y, x>>] =
             IF Y <= y /\ y <= 2 * Y /\ X <= x /\ x <= 2 * X - 1 THEN BLANK ELSE c.cell[<<y, x>>]
  BY <1>2, ErasedIs, Zenon
<1>5. last \in Seq(Glyph) /\ last # <<>>
  <2>1. last \in Seq(Glyph)
    BY <1>1, <1>2, TextsAre
  <2>2. Len(<<>>) = 0 /\ Len(last) # 0
    BY <1>3
  <2> QED BY <2>1, <2>2, Zenon
<1>6. Front(last) \in Seq(Glyph) /\ Len(Front(last)) = X /\ \A i \in 1 .. X : Front(last)[i] = last[i]
  <2>1. Front(last) \in Seq(Glyph) /\ Len(Front(last)) = Len(last) - 1 /\ \A i \in 1 .. Len(last) - 1 : Front(last)[i] = last[i]
    BY <1>5, FrontIs
  <2>2. Len(last) - 1 = X
    BY <1>3
  <2> QED BY <2>1, <2>2, Zenon
<1>7. ls \in Texts /\ Len(ls) = n /\ ls[n] = Front(last) /\ \A i \in 1 .. n - 1 : ls[i] = lines[i]
  <2> DEFINE s == Front(last)
  <2>1. s \in Seq(Glyph)
    BY <1>6
  <2> HIDE DEF s
  <2>2. LET l == [lines EXCEPT ![Len(lines)] = s]
        IN  l \in Texts /\ Len(l) = n /\ l[n] = s /\ \A i \in 1 .. n - 1 : l[i] = lines[i]
    BY <1>1, <2>1, LineEdited
  <2> QED BY <2>2 DEF s
<1>8. \A i \in 1 .. n - 1 : \A x \in Column : At(ls, i, x) = At(lines, i, x)
  <2> HIDE DEF ls, last, n
  <2> QED BY <1>7, Zenon DEF At
<1>9. /\ \A x \in Column : x < X => At(ls, n, x) = At(lines, n, x)
      /\ \A x \in Column : X <= x => At(ls, n, x) = BLANK
      /\ \A x \in Column : X < x => At(lines, n, x) = BLANK
  <2> SUFFICES ASSUME NEW x \in Column
               PROVE  /\ x < X => At(ls, n, x) = At(lines, n, x)
                      /\ X <= x => At(ls, n, x) = BLANK
                      /\ X < x => At(lines, n, x) = BLANK
    OBVIOUS
  <2>1. At(ls, n, x) = IF x < X THEN Front(last)[x + 1] ELSE BLANK
    <3> HIDE DEF ls, last, n, X
    <3> QED BY <1>6, <1>7, Zenon DEF At
  <2>2. At(lines, n, x) = IF x < X + 1 THEN last[x + 1] ELSE BLANK
    BY <1>3, Zenon DEF At
  <2>3. x \in Nat
    BY <1>3
  <2> HIDE DEF X, last, ls, n
  <2>4. CASE x < X
    <3>1. x < X + 1 /\ x + 1 \in 1 .. X /\ ~(X <= x) /\ ~(X < x)
      BY <1>3, <2>3, <2>4
    <3> QED BY <1>6, <2>1, <2>2, <2>4, <3>1
  <2>5. CASE X <= x
    <3>1. ~(x < X) /\ (X < x => ~(x < X + 1))
      BY <1>3, <2>3, <2>5
    <3> QED BY <2>1, <2>2, <3>1
  <2> QED BY <1>3, <2>3, <2>4, <2>5
<1>11. \A i \in 1 .. n : Len(ls[i]) <= W
  <2>1. \A i \in 1 .. n : i = n \/ i \in 1 .. n - 1
    BY <1>2
  <2>2. X <= W
    BY <1>2, <1>3, SMTT(30)
  <2> QED BY <1>1, <1>6, <1>7, <2>1, <2>2
<1>12. Len(ls[n]) = X
  BY <1>6, <1>7
<1> HIDE DEF last
<1>13. ls = [lines EXCEPT ![Len(lines)] = Front(@)]
  BY DEF last
<1> HIDE DEF d, ls, n, Y, X
<1>14. n - Y + Y = n
  BY <1>2
<1>15. ASSUME NEW y \in Row, NEW x \in Column
       PROVE  d.cell[<<y, x>>] = IF y <= Y THEN At(ls, n - Y + y, x) ELSE BLANK
  <2>1. y \in Nat /\ Y \in Nat /\ x \in Nat
    BY <1>2, <1>3
  <2>2. CASE y < Y
    <3>1. y <= Y /\ n - Y + y \in 1 .. n - 1 /\ ~(Y <= y)
      BY <1>1, <1>2, <2>1, <2>2
    <3> QED BY <1>1, <1>4, <1>8, <3>1
  <2>3. CASE y = Y
    <3>1. y <= Y /\ Y <= y /\ y <= 2 * Y
      BY <2>1, <2>3
    <3>2. c.cell[<<y, x>>] = At(lines, n, x)
      BY <1>1, <1>14, <2>3, <3>1
    <3>3. d.cell[<<y, x>>] = IF X <= x /\ x <= 2 * X - 1 THEN BLANK ELSE At(lines, n, x)
      BY <1>4, <3>1, <3>2
    <3>4. x < X => ~(X <= x)
      BY <1>3, <2>1
    <3>5. X <= x /\ ~(x <= 2 * X - 1) => X < x
      BY <1>3, <2>1
    <3>6. d.cell[<<y, x>>] = At(ls, n, x)
      <4>1. CASE x < X
        BY <1>9, <3>3, <3>4, <4>1
      <4>2. CASE X <= x
        BY <1>9, <3>3, <3>5, <4>2
      <4> QED BY <1>3, <2>1, <4>1, <4>2
    <3> QED BY <1>14, <2>3, <3>1, <3>6
  <2>5. CASE Y < y
    <3>1. ~(y <= Y)
      BY <2>1, <2>5
    <3> QED BY <1>1, <1>4, <3>1
  <2> QED BY <2>1, <2>2, <2>3, <2>5
<1>16. Placed(d)
  <2>1. X \in -1 .. W
    BY <1>2, <1>3
  <2> QED BY <1>2, <1>4, <2>1 DEF Placed
<1>17. Shows(d, ls)
  BY <1>1, <1>4, <1>7, <1>11, <1>12, <1>15, <1>16 DEF Shows
<1> QED BY <1>13, <1>17 DEF d

-----------------------------------------------------------------------------
(* Sequences.                                                              *)

\* What is appended to a part of a text is appended to the text.
LEMMA AppendToPart ==
  ASSUME NEW S, NEW a \in Seq(S), NEW b \in Seq(S), NEW x \in S
  PROVE  /\ Append(a \o b, x) = a \o Append(b, x) /\ Append(b, x) = b \o <<x>>
         /\ Append(b, x) \in Seq(S) /\ a \o b \in Seq(S)
<1>1. <<x>> \in Seq(S)
  OBVIOUS
<1>2. a \o b \in Seq(S) /\ Append(b, x) \in Seq(S) /\ (a \o b) \o <<x>> = a \o (b \o <<x>>)
  BY <1>1, Sequence!ConcatProperties, Sequence!AppendProperties, Sequence!ConcatAssociative
<1>3. Append(b, x) = b \o <<x>>
  BY Sequence!AppendIsConcat
<1>4. Append(a \o b, x) = (a \o b) \o <<x>>
  BY <1>2, Sequence!AppendIsConcat
<1> QED BY <1>2, <1>3, <1>4

\* Front takes away what was appended.
LEMMA FrontOfAppend ==
  ASSUME NEW S, NEW a \in Seq(S), NEW x \in S
  PROVE  Front(Append(a, x)) = a
<1> DEFINE s == Append(a, x)
<1>1. s \in Seq(S) /\ s # <<>> /\ Len(s) = Len(a) + 1 /\ (\A i \in 1 .. Len(a) : s[i] = a[i]) /\ Len(a) \in Nat
  BY Sequence!AppendProperties, Sequence!LenProperties
<1> HIDE DEF s
<1>2. Front(s) \in Seq(S) /\ Len(Front(s)) = Len(s) - 1 /\ \A i \in 1 .. Len(s) - 1 : Front(s)[i] = s[i]
  BY <1>1, FrontIs
<1>3. Len(s) - 1 = Len(a)
  BY <1>1
<1>4. Len(Front(s)) = Len(a) /\ \A i \in 1 .. Len(Front(s)) : Front(s)[i] = a[i]
  BY <1>1, <1>2, <1>3
<1>5. Front(s) = a
  BY <1>2, <1>4, Sequence!SeqEqual
<1> QED BY <1>5 DEF s

\* And appending puts it back.
LEMMA AppendToFront ==
  ASSUME NEW S, NEW s \in Seq(S), s # <<>>
  PROVE  s[Len(s)] \in S /\ Front(s) \in Seq(S) /\ s = Append(Front(s), s[Len(s)])
<1>1. /\ Front(s) \in Seq(S) /\ Len(Front(s)) = Len(s) - 1 /\ Len(s) \in Nat \ {0}
      /\ \A i \in 1 .. Len(s) - 1 : Front(s)[i] = s[i]
  BY FrontIs
<1>2. s[Len(s)] \in S
  BY <1>1, Sequence!ElementOfSeq
<1> DEFINE t == Append(Front(s), s[Len(s)])
           n == Len(s)
<1>3. /\ t \in Seq(S) /\ Len(t) = Len(Front(s)) + 1 /\ t[Len(Front(s)) + 1] = s[n]
      /\ \A i \in 1 .. Len(Front(s)) : t[i] = Front(s)[i]
  BY <1>1, <1>2, Sequence!AppendProperties
<1> HIDE DEF t
<1>4. Len(t) = n /\ t[n] = s[n] /\ \A i \in 1 .. n - 1 : t[i] = s[i]
  <2>1. Len(Front(s)) = n - 1 /\ n - 1 + 1 = n
    BY <1>1
  <2> HIDE DEF n
  <2> QED BY <1>1, <1>3, <2>1 DEF n
<1>5. \A i \in 1 .. n : i = n \/ i \in 1 .. n - 1
  BY <1>1
<1>6. Len(s) = Len(t) /\ \A i \in 1 .. Len(s) : s[i] = t[i]
  BY <1>4, <1>5
<1>7. s = t
  BY <1>3, <1>6, Sequence!SeqEqual
<1> QED BY <1>1, <1>2, <1>7 DEF t

\* One more of a sequence.
LEMMA OneMore ==
  ASSUME NEW S, NEW s \in Seq(S), NEW k \in Nat, k + 1 <= Len(s)
  PROVE  /\ Append(SubSeq(s, 1, k), s[k + 1]) = SubSeq(s, 1, k + 1)
         /\ SubSeq(s, 1, k) \in Seq(S) /\ Len(SubSeq(s, 1, k)) = k /\ s[k + 1] \in S
<1>1. Len(s) \in Nat /\ \A i \in 1 .. Len(s) : s[i] \in S
  BY Sequence!LenProperties, Sequence!ElementOfSeq
<1>2. k + 1 \in 1 .. Len(s) /\ s[k + 1] \in S /\ (\A i \in 1 .. k : s[i] \in S) /\ \A i \in 1 .. k + 1 : s[i] \in S
  BY <1>1
<1>3. SubSeq(s, 1, k) \in Seq(S) /\ Len(SubSeq(s, 1, k)) = k /\ \A i \in 1 .. k : SubSeq(s, 1, k)[i] = s[i]
  BY <1>2
<1> DEFINE a == SubSeq(s, 1, k)
           m == k + 1
           b == SubSeq(s, 1, m)
           t == Append(a, s[m])
<1>4. m \in Nat /\ \A i \in 1 .. m : s[i] \in S
  BY <1>2
<1>5. b \in Seq(S) /\ Len(b) = m /\ \A i \in 1 .. m : b[i] = s[i]
  <2> HIDE DEF m
  <2> QED BY <1>4
<1>6. t \in Seq(S) /\ Len(t) = m /\ t[m] = s[m] /\ \A i \in 1 .. k : t[i] = s[i]
  <2> HIDE DEF a
  <2>1. a \in Seq(S) /\ Len(a) = k /\ s[m] \in S /\ \A i \in 1 .. k : a[i] = s[i]
    BY <1>2, <1>3 DEF a
  <2> QED BY <2>1, Sequence!AppendProperties
<1>7. \A i \in 1 .. m : i = m \/ i \in 1 .. k
  OBVIOUS
<1> HIDE DEF b, t, a, m
<1>8. Len(t) = Len(b) /\ \A i \in 1 .. Len(t) : t[i] = b[i]
  BY <1>5, <1>6, <1>7
<1>9. t = b
  BY <1>5, <1>6, <1>8, Sequence!SeqEqual
<1> QED BY <1>2, <1>3, <1>9 DEF t, b, a, m

\* A text ends with its last part.
LEMMA EndsWith ==
  ASSUME NEW S, NEW p \in Seq(S), NEW s \in Seq(S)
  PROVE  IsSuffix(s, p \o s)
<1> DEFINE t == p \o s
           a == Reverse(s)
           b == Reverse(t)
           n == Len(s)
<1>1. n \in Nat /\ Len(p) \in Nat
  BY Sequence!LenProperties
<1>2. t \in Seq(S) /\ Len(t) = Len(p) + n /\ \A i \in 1 .. n : t[Len(p) + i] = s[i]
  BY <1>1, Sequence!ConcatProperties
<1> HIDE DEF t, n
<1>3. Len(a) = n /\ \A i \in 1 .. n : a[i] = s[n - i + 1]
  BY <1>1 DEF Reverse, n
<1>4. Len(b) = Len(p) + n /\ \A i \in 1 .. Len(p) + n : b[i] = t[Len(p) + n - i + 1]
  BY <1>1, <1>2 DEF Reverse
<1> HIDE DEF a, b
<1>5. n <= Len(p) + n /\ \A i \in 1 .. n : i \in 1 .. Len(p) + n /\ n - i + 1 \in 1 .. n
                                         /\ Len(p) + n - i + 1 = Len(p) + (n - i + 1)
  <2> DEFINE m == Len(p)
  <2>1. m \in Nat /\ n \in Nat
    BY <1>1
  <2> HIDE DEF m
  <2>2. n <= m + n /\ \A i \in 1 .. n : i \in 1 .. m + n /\ n - i + 1 \in 1 .. n
    BY <2>1
  <2>3. \A i \in 1 .. n : m + n - i + 1 = m + (n - i + 1)
    BY <2>1
  <2> QED BY <2>2, <2>3 DEF m
<1>6. ASSUME NEW i \in 1 .. n PROVE b[i] = a[i]
  <2>1. b[i] = t[Len(p) + n - i + 1] /\ a[i] = s[n - i + 1]
    BY <1>3, <1>4, <1>5
  <2>2. t[Len(p) + n - i + 1] = t[Len(p) + (n - i + 1)]
    BY <1>5, Zenon
  <2>3. t[Len(p) + (n - i + 1)] = s[n - i + 1]
    BY <1>2, <1>5, Zenon
  <2> QED BY <2>1, <2>2, <2>3
<1>7. SubSeq(a, 1, n) = [i \in 1 .. n |-> a[i]] /\ SubSeq(b, 1, n) = [i \in 1 .. n |-> b[i]]
  <2>1. \A q : SubSeq(q, 1, n) = [i \in 1 .. n |-> q[i]]
    BY <1>1
  <2> QED BY <2>1
<1>8. SubSeq(a, 1, n) = SubSeq(b, 1, n)
  BY <1>6, <1>7, Zenon
<1> QED BY <1>3, <1>4, <1>5, <1>8 DEF IsSuffix, IsPrefix, a, b, t, n

-----------------------------------------------------------------------------
(* One character, and any number.                                          *)

\* AppendToPart, by name.
PartAppended(u, v, w) == Append(u \o v, w) = u \o Append(v, w)

\* It holds of all that is shown.
LEMMA PartsAppended ==
  \A u, v \in Seq(Glyph) : \A w \in Glyph : PartAppended(u, v, w)
<1> SUFFICES ASSUME NEW u \in Seq(Glyph), NEW v \in Seq(Glyph), NEW w \in Glyph PROVE PartAppended(u, v, w)
  OBVIOUS
<1> QED BY AppendToPart DEF PartAppended

\* What is on the screen after a character that is shown.
LEMMA PutShows ==
  ASSUME con.fontSize \in Font, NEW c, NEW lines, Shows(c, lines), NEW char \in Glyph, char # BACKSPACE
  PROVE  LET d == PutChar(c, char)
             ls == Written(lines, char)
             n == Len(lines)
         IN  /\ Shows(d, ls)
             /\ char # NEWLINE /\ Len(lines[n]) < W =>
                  Len(ls) = n /\ ls[n] = Append(lines[n], char)
<1> DEFINE d == PutChar(c, char)
           ls == Written(lines, char)
           n == Len(lines)
<1>1. /\ lines \in Texts /\ c \in Console /\ n \in Nat \ {0} /\ lines[n] \in Seq(Glyph)
      /\ Len(lines[n]) \in Nat /\ c.column = Len(lines[n]) /\ W \in Nat \ {0}
  <2>1. n \in Nat \ {0} => n \in 1 .. n
    OBVIOUS
  <2> QED BY <2>1, TextsAre, SizesNow DEF Shows, Placed
<1>2. AtEdge(c) <=> W <= Len(lines[n])
  BY <1>1, SizesNow
<1>3. CASE char = NEWLINE
  <2>1. d = NextLine(c) /\ ls = Append(lines, <<>>)
    BY <1>3, BackOrNext DEF PutChar, Written
  <2> QED BY <1>3, <2>1, NewlineShows
<1>4. CASE char # NEWLINE /\ ~(W <= Len(lines[n]))
  <2>1. d = Drawn(c, char)
    BY <1>2, <1>4, Zenon DEF PutChar
  <2>2. ls = [lines EXCEPT ![Len(lines)] = Append(@, char)]
    <3>1. ~(Len(lines[n]) >= Columns(con.fontSize))
      BY <1>1, <1>4 DEF W
    <3> QED BY <1>4, <3>1, Zenon DEF Written
  <2>3. c.column < W
    BY <1>1, <1>4
  <2>4. Shows(d, ls)
    <3> HIDE DEF d, ls
    <3> QED BY <1>1, <2>1, <2>2, <2>3, DrawShows, Zenon
  <2>5. Len(ls) = n /\ ls[n] = Append(lines[n], char)
    <3> DEFINE s == Append(lines[n], char)
    <3>1. s \in Seq(Glyph)
      BY <1>1, Sequence!AppendProperties
    <3>2. ls = [lines EXCEPT ![Len(lines)] = s]
      BY <2>2, Zenon
    <3> HIDE DEF s, ls
    <3>3. Len(ls) = n /\ ls[n] = s
      BY <1>1, <3>1, <3>2, LineEdited
    <3> QED BY <3>3 DEF s
  <2> QED BY <2>4, <2>5
<1>5. CASE char # NEWLINE /\ W <= Len(lines[n])
  <2> DEFINE e == NextLine(c)
             ms == Append(lines, <<>>)
             one == <<char>>
  <2>1. d = Drawn(e, char)
    BY <1>2, <1>5, Zenon DEF PutChar
  <2>2. ls = Append(lines, one)
    <3>1. Len(lines[n]) >= Columns(con.fontSize)
      BY <1>1, <1>5 DEF W
    <3> QED BY <1>5, <3>1, Zenon DEF Written
  <2>3. Shows(e, ms)
    BY NewlineShows
  <2>4. e.column = 0
    BY <1>1, NextLineIs
  <2>5. e.column < W
    BY <1>1, <2>4
  <2> HIDE DEF e
  <2>6. Shows(d, [ms EXCEPT ![Len(ms)] = Append(@, char)])
    BY <2>1, <2>3, <2>5, DrawShows
  <2>7. [ms EXCEPT ![Len(ms)] = Append(@, char)] = ls
    <3>1. <<>> \in Seq(Glyph) /\ one \in Seq(Glyph) /\ Append(<<>>, char) = one
      OBVIOUS
    <3>2. ms \in Texts /\ Len(ms) = n + 1 /\ ms[n + 1] = <<>> /\ \A i \in 1 .. n : ms[i] = lines[i]
      BY <1>1, <3>1, LineAdded
    <3> HIDE DEF one
    <3>3. Append(lines, one) \in Texts /\ Len(Append(lines, one)) = n + 1 /\ Append(lines, one)[n + 1] = one
          /\ \A i \in 1 .. n : Append(lines, one)[i] = lines[i]
      BY <1>1, <3>1, LineAdded
    <3> DEFINE ns == [ms EXCEPT ![Len(ms)] = one]
               as == Append(lines, one)
    <3> HIDE DEF ms, n
    <3>4. ns \in Texts /\ Len(ns) = Len(ms) /\ ns[Len(ms)] = one /\ \A i \in 1 .. Len(ms) - 1 : ns[i] = ms[i]
      BY <3>1, <3>2, LineEdited, ZenonT(60)
    <3>5. n + 1 - 1 = n /\ \A i \in 1 .. n + 1 : i = n + 1 \/ i \in 1 .. n
      BY <1>1
    <3> HIDE DEF ns, as
    <3>6. Len(ns) = Len(as) /\ \A i \in 1 .. Len(ns) : ns[i] = as[i]
      BY <3>2, <3>3, <3>4, <3>5 DEF as
    <3>7. ns \in Seq(Seq(Glyph)) /\ as \in Seq(Seq(Glyph))
      BY <3>3, <3>4 DEF Texts, as
    <3>8. ns = as
      BY <3>6, <3>7, Sequence!SeqEqual
    <3>9. [ms EXCEPT ![Len(ms)] = Append(@, char)] = ns
      BY <3>1, <3>2, Zenon DEF ns
    <3> QED BY <2>2, <3>8, <3>9 DEF as
  <2>8. ~(Len(lines[n]) < W)
    BY <1>1, <1>5
  <2> QED BY <2>6, <2>7, <2>8
<1> QED BY <1>3, <1>4, <1>5

\* And after one that is taken back, where there is something before it.
LEMMA PutErases ==
  ASSUME con.fontSize \in Font, NEW c, NEW lines, Shows(c, lines),
         2 <= Len(lines[Len(lines)]), Len(lines[Len(lines)]) < W
  PROVE  LET d == PutChar(c, BACKSPACE)
             ls == Written(lines, BACKSPACE)
             n == Len(lines)
         IN  Shows(d, ls) /\ Len(ls) = n /\ ls[n] = Front(lines[n])
<1> DEFINE d == PutChar(c, BACKSPACE)
           ls == Written(lines, BACKSPACE)
           n == Len(lines)
<1>1. /\ lines \in Texts /\ c \in Console /\ n \in Nat \ {0} /\ lines[n] \in Seq(Glyph)
      /\ Len(lines[n]) \in Nat /\ c.column = Len(lines[n]) /\ W \in Nat \ {0}
  <2>1. n \in Nat \ {0} => n \in 1 .. n
    OBVIOUS
  <2> QED BY <2>1, TextsAre, SizesNow DEF Shows, Placed
<1>2. ~ AtEdge(c)
  <2>1. AtEdge(c) <=> W <= Len(lines[n])
    BY <1>1, SizesNow
  <2> QED BY <1>1, <2>1
<1>3. d = Erased(c)
  BY <1>2, BackOrNext DEF PutChar
<1>4. lines[n] # <<>>
  <2>1. Len(<<>>) = 0 /\ Len(lines[n]) # 0
    BY <1>1
  <2> QED BY <2>1, Zenon
<1>5. ls = [lines EXCEPT ![Len(lines)] = Front(@)]
  BY <1>4, BackOrNext, Zenon DEF Written
<1>6. Shows(d, ls)
  <2>1. 2 <= c.column
    BY <1>1
  <2> HIDE DEF d, ls
  <2> QED BY <1>3, <1>5, <2>1, EraseShows, Zenon
<1>7. Len(ls) = n /\ ls[n] = Front(lines[n])
  <2> DEFINE s == Front(lines[n])
  <2>1. s \in Seq(Glyph)
    BY <1>1, <1>4, FrontIs
  <2>2. ls = [lines EXCEPT ![Len(lines)] = s]
    BY <1>5, Zenon
  <2> HIDE DEF s, ls
  <2>3. Len(ls) = n /\ ls[n] = s
    BY <1>1, <2>1, <2>2, LineEdited
  <2> QED BY <2>3 DEF s
<1> QED BY <1>6, <1>7

\* However much is shown.
LEMMA PrintShows ==
  ASSUME con.fontSize \in Font, NEW c, NEW lines, Shows(c, lines), NEW s \in Seq(Glyph \ {BACKSPACE})
  PROVE  Shows(PrintString(c, s), FoldLeft(Written, lines, s))
<1> DEFINE n == Len(s)
<1>1. n \in Nat /\ DOMAIN s = 1 .. n /\ \A i \in 1 .. n : s[i] \in Glyph /\ s[i] # BACKSPACE
  <2>1. n \in Nat /\ DOMAIN s = 1 .. n /\ \A i \in 1 .. n : s[i] \in Glyph \ {BACKSPACE}
    BY Sequence!LenProperties, Sequence!ElementOfSeq
  <2> QED BY <2>1
<1> HIDE DEF n
<1>2. Reaches("put", c, s, n, PrintString(c, s)) /\ Reaches("written", lines, s, n, FoldLeft(Written, lines, s))
  BY <1>1, PutReached, WrittenReached
<1>3. PICK q : /\ q[0] = c
               /\ \A k \in 0 .. n - 1 : q[k + 1] = CharStep("put", q[k], s[k + 1])
               /\ PrintString(c, s) = q[n]
  BY <1>2, Zenon DEF Reaches
<1>4. PICK r : /\ r[0] = lines
               /\ \A k \in 0 .. n - 1 : r[k + 1] = CharStep("written", r[k], s[k + 1])
               /\ FoldLeft(Written, lines, s) = r[n]
  BY <1>2, Zenon DEF Reaches
<1> DEFINE good == {k \in Nat : k <= n => Shows(q[k], r[k])}
<1>5. 0 \in good
  BY <1>3, <1>4
<1>6. ASSUME NEW k \in Nat, k \in good PROVE k + 1 \in good
  <2> SUFFICES ASSUME k + 1 <= n PROVE Shows(q[k + 1], r[k + 1])
    OBVIOUS
  <2>1. k \in 0 .. n - 1 /\ k <= n /\ k + 1 \in 1 .. n
    BY <1>1
  <2>2. q[k + 1] = PutChar(q[k], s[k + 1]) /\ r[k + 1] = Written(r[k], s[k + 1])
    BY <1>3, <1>4, <2>1 DEF CharStep
  <2> QED BY <1>1, <1>6, <2>1, <2>2, PutShows
<1> HIDE DEF good
<1>7. Nat \subseteq good
  BY <1>5, <1>6, Induct
<1> QED BY <1>1, <1>3, <1>4, <1>7 DEF good

\* What fits into the last line goes there.
LEMMA StaysInLine ==
  ASSUME con.fontSize \in Font, NEW c, NEW lines, Shows(c, lines),
         NEW s \in Seq(Glyph \ {BACKSPACE, NEWLINE}), Len(lines[Len(lines)]) + Len(s) <= W
  PROVE  LET ls == FoldLeft(Written, lines, s)
         IN  /\ Shows(PrintString(c, s), ls) /\ Len(ls) = Len(lines)
             /\ ls[Len(lines)] = lines[Len(lines)] \o s
<1> DEFINE n == Len(s)
           N == Len(lines)
           last == lines[N]
           put(k) == last \o SubSeq(s, 1, k)
<1>1. n \in Nat /\ DOMAIN s = 1 .. n /\ \A i \in 1 .. n : s[i] \in Glyph /\ s[i] # BACKSPACE /\ s[i] # NEWLINE
  <2>1. n \in Nat /\ DOMAIN s = 1 .. n /\ \A i \in 1 .. n : s[i] \in Glyph \ {BACKSPACE, NEWLINE}
    BY Sequence!LenProperties, Sequence!ElementOfSeq
  <2> QED BY <2>1
<1>2. s \in Seq(Glyph)
  <2>1. Glyph \ {BACKSPACE, NEWLINE} \subseteq Glyph
    OBVIOUS
  <2> QED BY <2>1, Sequence!SeqMonotonic
<1>3. last \in Seq(Glyph) /\ Len(last) \in Nat /\ N \in Nat \ {0} /\ W \in Nat \ {0} /\ Len(last) + n <= W
  <2>1. lines \in Texts /\ N \in Nat \ {0}
    BY TextsAre DEF Shows
  <2>2. N \in 1 .. N
    BY <2>1
  <2> QED BY <2>1, <2>2, TextsAre, SizesNow
<1>4. ASSUME NEW k \in Nat, k <= n
      PROVE  /\ put(k) \in Seq(Glyph) /\ Len(put(k)) = Len(last) + k
             /\ k + 1 <= n => Append(put(k), s[k + 1]) = put(k + 1)
  <2> DEFINE a == SubSeq(s, 1, k)
  <2>1. a \in Seq(Glyph) /\ Len(a) = k
    <3>1. \A i \in 1 .. k : i \in 1 .. n
      BY <1>1, <1>4
    <3>2. \A i \in 1 .. k : s[i] \in Glyph
      BY <1>1, <3>1
    <3> QED BY <3>2
  <2>2. k + 1 <= n => Append(a, s[k + 1]) = SubSeq(s, 1, k + 1) /\ s[k + 1] \in Glyph
    BY <1>2, OneMore
  <2> HIDE DEF a, last, n
  <2>3. last \o a \in Seq(Glyph) /\ Len(last \o a) = Len(last) + k
    BY <1>3, <2>1, Sequence!ConcatProperties
  <2>4. k + 1 <= n => Append(last \o a, s[k + 1]) = last \o Append(a, s[k + 1])
    <3> DEFINE z == s[k + 1]
    <3>1. k + 1 <= n => z \in Glyph
      BY <2>2
    <3> HIDE DEF z
    <3>2. z \in Glyph => Append(last \o a, z) = last \o Append(a, z)
      <4> SUFFICES ASSUME z \in Glyph PROVE Append(last \o a, z) = last \o Append(a, z)
        OBVIOUS
      <4>1. last \in Seq(Glyph) /\ a \in Seq(Glyph) /\ z \in Glyph
        BY <1>3, <2>1
      <4>2. PartAppended(last, a, z)
        BY <4>1, PartsAppended
      <4> QED BY <4>2 DEF PartAppended
    <3>3. k + 1 <= n => Append(last \o a, z) = last \o Append(a, z)
      BY <3>1, <3>2, Zenon
    <3> QED BY <3>3 DEF z
  <2>5. k + 1 <= n => Append(last \o a, s[k + 1]) = last \o SubSeq(s, 1, k + 1)
    BY <2>2, <2>4, Zenon
  <2> QED BY <2>3, <2>5, Zenon DEF a
<1>5. put(0) = last /\ put(n) = last \o s
  <2>1. SubSeq(s, 1, 0) = <<>> /\ SubSeq(s, 1, n) = s
    BY <1>1, <1>2, Sequence!SubSeqEmpty, Sequence!SubSeqFull
  <2>2. last \o <<>> = last
    BY <1>3, Sequence!ConcatEmptySeq
  <2> QED BY <2>1, <2>2, Zenon
<1> HIDE DEF n, put, last
<1>6. Reaches("put", c, s, n, PrintString(c, s)) /\ Reaches("written", lines, s, n, FoldLeft(Written, lines, s))
  BY <1>1, PutReached, WrittenReached
<1>7. PICK q : /\ q[0] = c
               /\ \A k \in 0 .. n - 1 : q[k + 1] = CharStep("put", q[k], s[k + 1])
               /\ PrintString(c, s) = q[n]
  BY <1>6, Zenon DEF Reaches
<1>8. PICK r : /\ r[0] = lines
               /\ \A k \in 0 .. n - 1 : r[k + 1] = CharStep("written", r[k], s[k + 1])
               /\ FoldLeft(Written, lines, s) = r[n]
  BY <1>6, Zenon DEF Reaches
<1> DEFINE good == {k \in Nat : k <= n => Shows(q[k], r[k]) /\ Len(r[k]) = N /\ r[k][N] = put(k)}
<1>9. 0 \in good
  <2>1. lines[N] = last
    BY DEF last
  <2> QED BY <1>5, <1>7, <1>8, <2>1
<1>10. ASSUME NEW k \in Nat, k \in good PROVE k + 1 \in good
  <2> SUFFICES ASSUME k + 1 <= n PROVE Shows(q[k + 1], r[k + 1]) /\ Len(r[k + 1]) = N /\ r[k + 1][N] = put(k + 1)
    OBVIOUS
  <2>1. k \in 0 .. n - 1 /\ k <= n /\ k + 1 \in 1 .. n
    BY <1>1
  <2>2. q[k + 1] = PutChar(q[k], s[k + 1]) /\ r[k + 1] = Written(r[k], s[k + 1])
    BY <1>7, <1>8, <2>1 DEF CharStep
  <2>3. Shows(q[k], r[k]) /\ Len(r[k]) = N /\ r[k][N] = put(k)
    BY <1>10, <2>1
  <2>4. Append(put(k), s[k + 1]) = put(k + 1) /\ Len(put(k)) < W
    BY <1>1, <1>3, <1>4, <2>1
  <2>5. s[k + 1] \in Glyph /\ s[k + 1] # BACKSPACE /\ s[k + 1] # NEWLINE
    BY <1>1, <2>1
  <2> DEFINE b == q[k]
             ms == r[k]
             x == s[k + 1]
             last2 == ms[Len(ms)]
  <2>6. Shows(b, ms) /\ x \in Glyph /\ x # BACKSPACE /\ x # NEWLINE
    BY <2>3, <2>5
  <2>7. last2 = put(k) /\ Len(last2) < W
    BY <2>3, <2>4
  <2> HIDE DEF b, ms, x
  <2>8. /\ Shows(PutChar(b, x), Written(ms, x))
        /\ Len(Written(ms, x)) = Len(ms) /\ Written(ms, x)[Len(ms)] = Append(ms[Len(ms)], x)
    BY <2>6, <2>7, PutShows
  <2>9. Len(ms) = N
    BY <2>3 DEF ms
  <2>10. Append(ms[Len(ms)], x) = put(k + 1)
    BY <2>4, <2>7, Zenon DEF x
  <2> QED BY <2>2, <2>8, <2>9, <2>10, Zenon DEF b, ms, x
<1> HIDE DEF good
<1>11. Nat \subseteq good
  BY <1>9, <1>10, Induct
<1>12. n \in Nat /\ n <= n
  BY <1>1
<1>13. Shows(q[n], r[n]) /\ Len(r[n]) = N /\ r[n][N] = put(n)
  BY <1>11, <1>12 DEF good
<1> QED BY <1>5, <1>7, <1>8, <1>13, Zenon DEF last

\* Two and three characters.
PutTwo(c, lines, x, y) ==
  /\ PrintString(c, <<x, y>>) = PutChar(PutChar(c, x), y)
  /\ FoldLeft(Written, lines, <<x, y>>) = Written(Written(lines, x), y)
PutThree(c, lines, x, y, z) ==
  /\ PrintString(c, <<x, y, z>>) = PutChar(PutChar(PutChar(c, x), y), z)
  /\ FoldLeft(Written, lines, <<x, y, z>>) = Written(Written(Written(lines, x), y), z)

\* They are put one after the other.
LEMMA FewPut ==
  ASSUME NEW c, NEW lines, NEW x, NEW y, NEW z
  PROVE  PutTwo(c, lines, x, y) /\ PutThree(c, lines, x, y, z)
<1>1. ASSUME NEW kind, NEW base, NEW reached, Reaches(kind, base, <<x, y>>, 2, reached)
      PROVE  reached = CharStep(kind, CharStep(kind, base, x), y)
  <2>1. PICK q : /\ q[0] = base
                 /\ \A k \in 0 .. 2 - 1 : q[k + 1] = CharStep(kind, q[k], <<x, y>>[k + 1])
                 /\ reached = q[2]
    BY <1>1, Zenon DEF Reaches
  <2>2. 0 \in 0 .. 2 - 1 /\ 1 \in 0 .. 2 - 1 /\ 0 + 1 = 1 /\ 1 + 1 = 2 /\ <<x, y>>[1] = x /\ <<x, y>>[2] = y
    OBVIOUS
  <2>3. q[1] = CharStep(kind, base, x) /\ q[2] = CharStep(kind, q[1], y)
    BY <2>1, <2>2
  <2> QED BY <2>1, <2>3
<1>2. ASSUME NEW kind, NEW base, NEW reached, Reaches(kind, base, <<x, y, z>>, 3, reached)
      PROVE  reached = CharStep(kind, CharStep(kind, CharStep(kind, base, x), y), z)
  <2>1. PICK q : /\ q[0] = base
                 /\ \A k \in 0 .. 3 - 1 : q[k + 1] = CharStep(kind, q[k], <<x, y, z>>[k + 1])
                 /\ reached = q[3]
    BY <1>2, Zenon DEF Reaches
  <2>2. /\ 0 \in 0 .. 3 - 1 /\ 1 \in 0 .. 3 - 1 /\ 2 \in 0 .. 3 - 1 /\ 0 + 1 = 1 /\ 1 + 1 = 2 /\ 2 + 1 = 3
        /\ <<x, y, z>>[1] = x /\ <<x, y, z>>[2] = y /\ <<x, y, z>>[3] = z
    OBVIOUS
  <2>3. q[1] = CharStep(kind, base, x) /\ q[2] = CharStep(kind, q[1], y) /\ q[3] = CharStep(kind, q[2], z)
    BY <2>1, <2>2
  <2> QED BY <2>1, <2>3
<1>3. 2 \in Nat /\ 3 \in Nat /\ DOMAIN <<x, y>> = 1 .. 2 /\ DOMAIN <<x, y, z>> = 1 .. 3
  OBVIOUS
<1>4. /\ Reaches("put", c, <<x, y>>, 2, PrintString(c, <<x, y>>))
      /\ Reaches("written", lines, <<x, y>>, 2, FoldLeft(Written, lines, <<x, y>>))
      /\ Reaches("put", c, <<x, y, z>>, 3, PrintString(c, <<x, y, z>>))
      /\ Reaches("written", lines, <<x, y, z>>, 3, FoldLeft(Written, lines, <<x, y, z>>))
  BY <1>3, PutReached, WrittenReached, Zenon
<1>5. /\ \A a, b : CharStep("put", a, b) = PutChar(a, b)
      /\ \A a, b : CharStep("written", a, b) = Written(a, b)
  BY DEF CharStep
<1>6. /\ PrintString(c, <<x, y>>) = CharStep("put", CharStep("put", c, x), y)
      /\ FoldLeft(Written, lines, <<x, y>>) = CharStep("written", CharStep("written", lines, x), y)
  BY <1>1, <1>4
<1>7. /\ PrintString(c, <<x, y, z>>) = CharStep("put", CharStep("put", CharStep("put", c, x), y), z)
      /\ FoldLeft(Written, lines, <<x, y, z>>) = CharStep("written", CharStep("written", CharStep("written", lines, x), y), z)
  BY <1>2, <1>4
<1>8. /\ PrintString(c, <<x, y>>) = PutChar(PutChar(c, x), y)
      /\ PrintString(c, <<x, y, z>>) = PutChar(PutChar(PutChar(c, x), y), z)
  BY <1>5, <1>6, <1>7
<1>9. /\ FoldLeft(Written, lines, <<x, y>>) = Written(Written(lines, x), y)
      /\ FoldLeft(Written, lines, <<x, y, z>>) = Written(Written(Written(lines, x), y), z)
  BY <1>5, <1>6, <1>7
<1> QED BY <1>8, <1>9, Zenon DEF PutTwo, PutThree

\* Lines that were moved out of the screen are left out.
LEMMA Trimmed ==
  ASSUME con.fontSize \in Font, NEW c, NEW lines, Shows(c, lines)
  PROVE  LET ls == IF Len(lines) <= H THEN lines ELSE SubSeq(lines, Len(lines) - H + 1, Len(lines))
         IN  Shows(c, ls) /\ Len(ls) <= H /\ ls[Len(ls)] = lines[Len(lines)]
<1> DEFINE n == Len(lines)
           ls == SubSeq(lines, n - H + 1, n)
<1>1. CASE n <= H
  BY <1>1
<1>2. CASE ~(n <= H)
  <2>1. /\ Placed(c) /\ lines \in Texts /\ \A i \in 1 .. n : Len(lines[i]) <= W
        /\ c.column = Len(lines[n]) /\ c.y_char = H - 1
        /\ \A y \in Row, x \in Column :
             c.cell[<<y, x>>] = IF y <= H - 1 THEN At(lines, n - (H - 1) + y, x) ELSE BLANK
    BY <1>2 DEF Shows
  <2>2. n \in Nat \ {0} /\ H \in Nat \ {0} /\ Row \subseteq Nat /\ lines \in Seq(Seq(Glyph)) /\ \A i \in 1 .. n : lines[i] \in Seq(Glyph)
    BY <2>1, TextsAre, SizesNow
  <2> HIDE DEF n
  <2> DEFINE m == n - H + 1
  <2>3. m \in 1 .. n /\ n - m + 1 = H /\ m <= n /\ \A i \in 1 .. H : i + m - 1 \in 1 .. n
    BY <1>2, <2>2
  <2>4. m \in Int /\ n \in Int /\ \A i \in m .. n : lines[i] \in Seq(Glyph)
    <3>1. \A i \in m .. n : i \in 1 .. n
      BY <2>2, <2>3
    <3> QED BY <2>2, <2>3, <3>1
  <2> HIDE DEF m
  <2>5. /\ SubSeq(lines, m, n) \in Seq(Seq(Glyph))
        /\ Len(SubSeq(lines, m, n)) = IF m <= n THEN n - m + 1 ELSE 0
        /\ \A i \in 1 .. n - m + 1 : SubSeq(lines, m, n)[i] = lines[m + i - 1]
    BY <2>4, Sequence!SubSeqProperties
  <2>6. ls = SubSeq(lines, m, n)
    BY DEF m
  <2> HIDE DEF ls
  <2>7. /\ ls \in Seq(Seq(Glyph)) /\ Len(ls) = H
        /\ \A i \in 1 .. H : ls[i] = lines[i + m - 1]
    <3>1. \A i \in 1 .. H : m + i - 1 = i + m - 1
      BY <2>2, <2>3
    <3> QED BY <2>3, <2>5, <2>6, <3>1
  <2>8. ls \in Texts
    BY <2>2, <2>7, Sequence!EmptySeq DEF Texts
  <2>9. H \in 1 .. H /\ H + m - 1 = n
    BY <2>2 DEF m
  <2>10. ls[H] = lines[n]
    BY <2>7, <2>9
  <2>11. ASSUME NEW y \in Row, NEW x \in Column
         PROVE  c.cell[<<y, x>>] = IF y <= H - 1 THEN At(ls, H - (H - 1) + y, x) ELSE BLANK
    <3>1. y <= H - 1 => H - (H - 1) + y \in 1 .. H /\ H - (H - 1) + y + m - 1 = n - (H - 1) + y
      BY <2>2 DEF m
    <3>2. y <= H - 1 => ls[H - (H - 1) + y] = lines[n - (H - 1) + y]
      <4> SUFFICES ASSUME y <= H - 1 PROVE ls[H - (H - 1) + y] = lines[n - (H - 1) + y]
        OBVIOUS
      <4>1. ls[H - (H - 1) + y] = lines[H - (H - 1) + y + m - 1]
        BY <2>7, <3>1
      <4> QED BY <3>1, <4>1, Zenon
    <3>3. y <= H - 1 => At(ls, H - (H - 1) + y, x) = At(lines, n - (H - 1) + y, x)
      BY <3>2, Zenon DEF At
    <3> QED BY <2>1, <3>3
  <2>12. \A i \in 1 .. H : Len(ls[i]) <= W
    BY <2>1, <2>3, <2>7
  <2>13. H <= H
    BY <2>2
  <2>14. Shows(c, ls)
    BY <2>1, <2>7, <2>8, <2>10, <2>11, <2>12, <2>13 DEF Shows
  <2> QED BY <1>2, <2>7, <2>10, <2>13, <2>14 DEF ls, n
<1> QED BY <1>1, <1>2

-----------------------------------------------------------------------------
(* The screen shows the text.                                              *)

\* While a line is edited it stands at the end of the text, where it has room.
Editing ==
  \E pre \in Seq(Glyph) :
    /\ text[Len(text)] = pre \o (COMMAND_CHAR \o line \o <<CURSOR>>)
    /\ Len(pre) + Len(COMMAND_CHAR) + MAX_TERMINAL_CHARS < W

\* Where the cursor is and what is read hold whatever is shown; the text is shown
\* while no line was too long.
ScreenInv ==
  /\ con.fontSize \in Font /\ Placed(con)
  /\ place \in {"ready", "reading", "running"}
  /\ line \in Seq(Letters) /\ Len(line) < MAX_TERMINAL_CHARS
  /\ spilled \in BOOLEAN
  /\ ~ spilled => Shows(con, text) /\ Len(text) <= H /\ (place = "reading" => Editing)

\* A screen that was cleared.
Blanked == con.fontSize \in Font /\ con = Cleared(con.fontSize)

\* It shows the empty text.
LEMMA BlankedShows ==
  Blanked => Placed(con) /\ (text = << <<>> >> => Shows(con, text) /\ Len(text) <= H)
<1> SUFFICES ASSUME Blanked PROVE Placed(con) /\ (text = << <<>> >> => Shows(con, text) /\ Len(text) <= H)
  OBVIOUS
<1>1. con.fontSize \in Font /\ con = Cleared(con.fontSize)
  BY DEF Blanked
<1> DEFINE font == con.fontSize
<1>2. /\ con.column = 0 /\ con.y_char = 0 /\ con.cell = [p \in Row \X Column |-> BLANK]
      /\ con \in Driver(Cells)
  <2>1. [p \in Row \X Column |-> BLANK] \in Cells
    BY Glyphs DEF Cells
  <2>2. con = [fontSize |-> font, column |-> 0, y_char |-> 0, cell |-> [p \in Row \X Column |-> BLANK]]
    BY <1>1, Zenon DEF Cleared
  <2> DEFINE blank == [p \in Row \X Column |-> BLANK]
             r == [fontSize |-> font, column |-> 0, y_char |-> 0, cell |-> blank]
  <2>3. blank \in Cells
    BY <2>1
  <2> HIDE DEF blank, font
  <2>4. r.column = 0 /\ r.y_char = 0 /\ r.cell = blank
    OBVIOUS
  <2>5. r \in [fontSize : {font}, column : Int, y_char : Nat, cell : Cells]
    BY <2>3
  <2>6. con = r
    BY <2>2 DEF blank
  <2>7. con \in Driver(Cells)
    BY <2>5, <2>6 DEF Driver, font
  <2> HIDE DEF r
  <2>8. con.column = 0 /\ con.y_char = 0 /\ con.cell = blank
    BY <2>4, <2>6, Zenon
  <2> QED BY <2>7, <2>8 DEF blank
<1>3. W \in Nat \ {0} /\ H \in Nat \ {0} /\ Row \subseteq Nat /\ Column \subseteq Nat
  BY <1>1, SizesNow
<1>4. Placed(con)
  <2>1. 0 \in -1 .. W /\ 0 \in 0 .. H - 1
    BY <1>3
  <2> QED BY <1>2, <2>1 DEF Placed, Console
<1>5. ASSUME text = << <<>> >> PROVE Shows(con, text) /\ Len(text) <= H
  <2> DEFINE empty == <<>>
             one == <<empty>>
  <2>1. empty \in Seq(Glyph) /\ Len(empty) = 0
    OBVIOUS
  <2> HIDE DEF empty
  <2>2. one \in Seq(Seq(Glyph)) /\ Len(one) = 1 /\ one[1] = empty
    BY <2>1
  <2>3. one \in Texts
    BY <2>2, Sequence!EmptySeq DEF Texts
  <2>4. text = one
    BY <1>5 DEF empty
  <2> HIDE DEF one
  <2>5. ASSUME NEW y \in Row, NEW x \in Column
        PROVE  con.cell[<<y, x>>] = IF y <= 0 THEN At(text, 1 - 0 + y, x) ELSE BLANK
    <3>1. con.cell[<<y, x>>] = BLANK
      BY <1>2
    <3>2. y <= 0 => 1 - 0 + y = 1
      BY <1>3
    <3>3. At(text, 1, x) = BLANK
      <4>1. ~(x < Len(empty))
        BY <1>3, <2>1
      <4> QED BY <2>2, <2>4, <4>1, Zenon DEF At
    <3> QED BY <3>1, <3>2, <3>3
  <2>6. Len(text) = 1 /\ text[Len(text)] = empty /\ 1 <= H /\ \A i \in 1 .. Len(text) : Len(text[i]) <= W
    <3>1. \A i \in 1 .. 1 : i = 1
      OBVIOUS
    <3>2. 0 <= W /\ 1 <= H
      BY <1>3
    <3> QED BY <2>1, <2>2, <2>4, <3>1, <3>2
  <2>7. Shows(con, text)
    <3>1. 0 = 1 - 1
      OBVIOUS
    <3> QED BY <1>2, <1>4, <2>1, <2>3, <2>4, <2>5, <2>6, <3>1 DEF Shows
  <2> QED BY <2>6, <2>7
<1> QED BY <1>4, <1>5

\* The same of the next state.
LEMMA BlankedShowsThen ==
  Blanked' => Placed(con)' /\ ((text = << <<>> >>)' => Shows(con, text)' /\ (Len(text) <= H)')
  BY BlankedShows, PTL

\* What the characters are.
LEMMA CharactersAre ==
  /\ Letters \subseteq Glyph \ {BACKSPACE, NEWLINE} /\ CURSOR \in Glyph \ {BACKSPACE, NEWLINE}
  /\ BACKSPACE \in Glyph /\ NEWLINE \in Glyph
  /\ COMMAND_CHAR \in Seq(Glyph \ {BACKSPACE, NEWLINE}) /\ COMMAND_CHAR \in Seq(Glyph)
  /\ Len(COMMAND_CHAR) \in Nat \ {0}
  /\ Outputs \subseteq Seq(Glyph)
  /\ MAX_TERMINAL_CHARS \in Nat \ {0}
<1>1. CURSOR # BACKSPACE /\ CURSOR # NEWLINE
  BY DEF CURSOR, BACKSPACE, NEWLINE
<1>2. STRING \ {NEWLINE, BACKSPACE} \subseteq Glyph \ {BACKSPACE, NEWLINE} /\ STRING \ {BACKSPACE} \subseteq Glyph \ {BACKSPACE}
      /\ STRING \ {BACKSPACE} \subseteq Glyph
      /\ STRING \ {NEWLINE, BACKSPACE} \subseteq Glyph
      /\ CURSOR \in Glyph /\ BACKSPACE \in Glyph /\ NEWLINE \in Glyph /\ STRING \subseteq Glyph
  BY Zenon DEF Glyph
<1>3. /\ MAX_TERMINAL_CHARS \in Nat \ {0} /\ Letters \subseteq STRING /\ {NEWLINE, BACKSPACE, CURSOR, SMEAR} \cap Letters = {}
      /\ COMMAND_CHAR \in Seq(STRING \ {NEWLINE, BACKSPACE}) /\ COMMAND_CHAR # <<>>
      /\ Outputs \subseteq Seq(STRING)
  BY LineAssumption, Zenon
<1>4. COMMAND_CHAR \in Seq(Glyph \ {BACKSPACE, NEWLINE}) /\ COMMAND_CHAR \in Seq(Glyph) /\ Len(COMMAND_CHAR) \in Nat \ {0}
  <2> DEFINE A == STRING \ {NEWLINE, BACKSPACE}
             B == Glyph \ {BACKSPACE, NEWLINE}
  <2>1. A \subseteq B /\ A \subseteq Glyph /\ COMMAND_CHAR \in Seq(A)
    BY <1>2, <1>3, Zenon
  <2> HIDE DEF A, B
  <2>2. COMMAND_CHAR \in Seq(B) /\ COMMAND_CHAR \in Seq(Glyph)
    BY <2>1, Sequence!SeqMonotonic
  <2>3. Len(COMMAND_CHAR) \in Nat \ {0}
    BY <1>3, <2>1, Sequence!EmptySeq
  <2> QED BY <2>2, <2>3 DEF B
<1>5. Outputs \subseteq Seq(Glyph)
  <2>1. \A s \in Seq(STRING) : s \in Seq(Glyph)
    BY <1>2, Sequence!SeqMonotonic
  <2> QED BY <1>3, <2>1
<1>6. Letters \subseteq Glyph \ {BACKSPACE, NEWLINE}
  BY <1>2, <1>3, Zenon
<1> QED BY <1>1, <1>2, <1>3, <1>4, <1>5, <1>6, Zenon

\* Printing leaves the font and the cursor on the screen.
LEMMA OutputPlaced ==
  ASSUME con.fontSize \in Font, Placed(con), NEW string \in Seq(Glyph), Output(string)
  PROVE  con'.fontSize = con.fontSize /\ Placed(con') /\ W' = W /\ H' = H /\ Console' = Console /\ Placed(con)'
<1>1. con' = PrintString(con, string)
  BY DEF Output
<1>2. Placed(con')
  BY <1>1, PrintPlaced
<1>3. con' \in Console
  BY <1>2 DEF Placed
<1>4. con'.fontSize = con.fontSize
  BY <1>3, ConsoleHas
<1>5. W' = W /\ H' = H /\ Console' = Console
  BY <1>4, Zenon DEF W, H, Console, Driver
<1>6. Placed(con)'
  BY <1>2, <1>5 DEF Placed
<1> QED BY <1>2, <1>4, <1>5, <1>6

\* When what is printed is shown, the text is, without what was moved out.
LEMMA OutputShows ==
  ASSUME con.fontSize \in Font, Placed(con), NEW string \in Seq(Glyph), Output(string),
         Shows(PrintString(con, string), FoldLeft(Written, text, string))
  PROVE  LET all == FoldLeft(Written, text, string)
         IN  /\ Shows(con, text)' /\ (Len(text) <= H)'
             /\ text'[Len(text')] = all[Len(all)]
<1> DEFINE all == FoldLeft(Written, text, string)
           ls == IF Len(all) <= H THEN all ELSE SubSeq(all, Len(all) - H + 1, Len(all))
<1>1. con' = PrintString(con, string)
  BY DEF Output
<1>2. text' = ls
  BY Zenon DEF Output, TextWith, H
<1>3. Shows(con', all)
  BY <1>1
<1> HIDE DEF all
<1>4. Shows(con', ls) /\ Len(ls) <= H /\ ls[Len(ls)] = all[Len(all)]
  BY <1>3, Trimmed
<1>5. W' = W /\ H' = H /\ Console' = Console
  BY OutputPlaced
<1> HIDE DEF ls
<1>6. Shows(con', text')
  BY <1>2, <1>4
<1>7. Shows(con, text)'
  BY <1>5, <1>6 DEF Shows, Placed
<1>8. (Len(text) <= H)' /\ text'[Len(text')] = all[Len(all)]
  BY <1>2, <1>4, <1>5
<1> QED BY <1>7, <1>8 DEF all

\* A part of a text with the cursor after it.
Ending(pre, e) == pre \o (e \o <<CURSOR>>)

\* The cursor is what a backspace takes away.
LEMMA EndingIs ==
  ASSUME NEW pre \in Seq(Glyph), NEW e \in Seq(Glyph)
  PROVE  /\ pre \o e \in Seq(Glyph) /\ Len(pre \o e) = Len(pre) + Len(e) /\ Len(pre) \in Nat /\ Len(e) \in Nat
         /\ Ending(pre, e) = Append(pre \o e, CURSOR) /\ Front(Ending(pre, e)) = pre \o e
         /\ Len(Ending(pre, e)) = Len(pre) + Len(e) + 1
<1>1. CURSOR \in Glyph
  BY CharactersAre
<1>2. pre \o e \in Seq(Glyph) /\ Len(pre \o e) = Len(pre) + Len(e) /\ Len(pre) \in Nat /\ Len(e) \in Nat
  BY Sequence!ConcatProperties, Sequence!LenProperties
<1>3. Append(pre \o e, CURSOR) = pre \o Append(e, CURSOR) /\ Append(e, CURSOR) = e \o <<CURSOR>>
  <2>1. PartAppended(pre, e, CURSOR)
    BY <1>1, PartsAppended
  <2>2. Append(e, CURSOR) = e \o <<CURSOR>>
    BY <1>1, Sequence!AppendIsConcat
  <2> QED BY <2>1, <2>2, Zenon DEF PartAppended
<1>4. Ending(pre, e) = Append(pre \o e, CURSOR)
  BY <1>3, Zenon DEF Ending
<1> DEFINE a == pre \o e
<1> HIDE DEF a
<1>5. a \in Seq(Glyph)
  BY <1>2 DEF a
<1>6. Front(Append(a, CURSOR)) = a
  BY <1>1, <1>5, FrontOfAppend
<1>7. Len(Append(a, CURSOR)) = Len(a) + 1
  BY <1>1, <1>5
<1> QED BY <1>2, <1>4, <1>6, <1>7 DEF a

\* Types of what is read.
LEMMA LineIs ==
  ASSUME NEW l \in Seq(Letters)
  PROVE  l \in Seq(Glyph) /\ Len(l) \in Nat
<1>1. Letters \subseteq Glyph
  BY CharactersAre
<1> QED BY <1>1, Sequence!SeqMonotonic, Sequence!LenProperties

\* A prompt.
LEMMA PromptKeeps ==
  ASSUME ScreenInv, Prompt
  PROVE  ScreenInv'
<1> DEFINE s == COMMAND_CHAR \o <<CURSOR>>
           n == Len(text)
           pre == text[n]
           all == FoldLeft(Written, text, s)
<1>1. /\ con.fontSize \in Font /\ Placed(con) /\ Output(s) /\ line' = <<>> /\ place' = "reading"
      /\ spilled \in BOOLEAN
      /\ spilled' = (spilled \/ con.column + Len(COMMAND_CHAR) + MAX_TERMINAL_CHARS >= W)
      /\ ~ spilled => Shows(con, text) /\ Len(text) <= H
  BY DEF ScreenInv, Prompt, W
<1>2. /\ s \in Seq(Glyph \ {BACKSPACE, NEWLINE}) /\ s \in Seq(Glyph) /\ Len(s) = Len(COMMAND_CHAR) + 1
      /\ Len(COMMAND_CHAR) \in Nat \ {0} /\ MAX_TERMINAL_CHARS \in Nat \ {0}
  <2> DEFINE A == Glyph \ {BACKSPACE, NEWLINE}
             c == <<CURSOR>>
  <2>1. COMMAND_CHAR \in Seq(A) /\ CURSOR \in A /\ A \subseteq Glyph
    BY CharactersAre
  <2> HIDE DEF A
  <2>2. c \in Seq(A) /\ Len(c) = 1
    BY <2>1
  <2> HIDE DEF c
  <2>3. COMMAND_CHAR \o c \in Seq(A) /\ Len(COMMAND_CHAR \o c) = Len(COMMAND_CHAR) + Len(c)
    BY <2>1, <2>2, Sequence!ConcatProperties
  <2>4. s \in Seq(A) /\ Len(s) = Len(COMMAND_CHAR) + 1
    BY <2>2, <2>3 DEF c
  <2> HIDE DEF s
  <2>5. s \in Seq(Glyph)
    BY <2>1, <2>4, Sequence!SeqMonotonic
  <2> QED BY <2>4, <2>5, CharactersAre DEF A
<1>3. con'.fontSize = con.fontSize /\ Placed(con)' /\ W' = W
  BY <1>1, <1>2, OutputPlaced
<1>4. line' \in Seq(Letters) /\ Len(line') < MAX_TERMINAL_CHARS
  <2>1. <<>> \in Seq(Letters) /\ Len(<<>>) = 0
    OBVIOUS
  <2> QED BY <1>1, <1>2, <2>1
<1>5. spilled' \in BOOLEAN
  <2> DEFINE b == con.column + Len(COMMAND_CHAR) + MAX_TERMINAL_CHARS >= W
  <2> HIDE DEF b
  <2>1. spilled' = (spilled \/ b)
    BY <1>1 DEF b
  <2> QED BY <2>1
<1>6. ASSUME ~ spilled' PROVE Shows(con, text)' /\ (Len(text) <= H)' /\ Editing'
  <2> DEFINE b == con.column + Len(COMMAND_CHAR) + MAX_TERMINAL_CHARS >= W
  <2>1. ~ spilled /\ ~ b
    <3> HIDE DEF b
    <3>1. spilled' = (spilled \/ b)
      BY <1>1 DEF b
    <3> QED BY <1>6, <3>1, Zenon
  <2>2. Shows(con, text)
    BY <1>1, <2>1
  <2>3. text \in Texts /\ con.column = Len(pre)
    BY <2>2 DEF Shows
  <2>4. pre \in Seq(Glyph) /\ Len(pre) \in Nat /\ W \in Nat
    <3>1. n \in Nat \ {0} => n \in 1 .. n
      OBVIOUS
    <3> QED BY <1>1, <2>3, <3>1, TextsAre, SizesNow
  <2>5. Len(pre) + Len(COMMAND_CHAR) + MAX_TERMINAL_CHARS < W
    BY <1>2, <2>1, <2>3, <2>4
  <2>6. Len(pre) + Len(s) <= W
    <3> HIDE DEF s, pre
    <3> QED BY <1>2, <2>4, <2>5
  <2> HIDE DEF b, s
  <2>7. Shows(PrintString(con, s), all) /\ Len(all) = n /\ all[n] = pre \o s
    BY <1>1, <1>2, <2>2, <2>6, StaysInLine
  <2>8. Shows(con, text)' /\ (Len(text) <= H)' /\ text'[Len(text')] = all[Len(all)]
    BY <1>1, <1>2, <2>7, OutputShows
  <2> HIDE DEF all, pre, n
  <2>9. text'[Len(text')] = pre \o s
    BY <2>7, <2>8
  <2>10. COMMAND_CHAR \o line' = COMMAND_CHAR
    BY <1>1, CharactersAre, Sequence!ConcatEmptySeq
  <2>11. text'[Len(text')] = pre \o (COMMAND_CHAR \o line' \o <<CURSOR>>)
    BY <2>9, <2>10, Zenon DEF s
  <2>12. Editing'
    BY <1>3, <2>4, <2>5, <2>11, Zenon DEF Editing
  <2> QED BY <2>8, <2>12
<1>7. place' \in {"ready", "reading", "running"} /\ con'.fontSize \in Font
  BY <1>1, <1>3
<1> HIDE DEF s, all, pre, n
<1> QED BY <1>3, <1>4, <1>5, <1>6, <1>7, Zenon DEF ScreenInv

\* What a line that is edited ends with, and that there is room for it.
LEMMA EditingIs ==
  ASSUME ScreenInv, place = "reading", ~ spilled
  PROVE  \E pre \in Seq(Glyph) :
           LET e == COMMAND_CHAR \o line
               last == text[Len(text)]
           IN  /\ e \in Seq(Glyph) /\ line \in Seq(Glyph) /\ COMMAND_CHAR \in Seq(Glyph)
               /\ last = Ending(pre, e) /\ Len(last) = Len(pre) + Len(e) + 1
               /\ Len(pre) \in Nat /\ Len(COMMAND_CHAR) \in Nat \ {0} /\ Len(line) \in Nat /\ W \in Nat
               /\ Len(e) = Len(COMMAND_CHAR) + Len(line) /\ Len(line) < MAX_TERMINAL_CHARS
               /\ Len(pre) + Len(COMMAND_CHAR) + MAX_TERMINAL_CHARS < W
               /\ MAX_TERMINAL_CHARS \in Nat \ {0}
               /\ 2 <= Len(last) /\ Len(last) < W
<1>1. PICK pre \in Seq(Glyph) :
        /\ text[Len(text)] = pre \o (COMMAND_CHAR \o line \o <<CURSOR>>)
        /\ Len(pre) + Len(COMMAND_CHAR) + MAX_TERMINAL_CHARS < W
  BY Zenon DEF ScreenInv, Editing
<1>2. line \in Seq(Letters) /\ con.fontSize \in Font /\ Len(line) < MAX_TERMINAL_CHARS
  BY DEF ScreenInv
<1>3. line \in Seq(Glyph) /\ Len(line) \in Nat /\ COMMAND_CHAR \in Seq(Glyph) /\ Len(COMMAND_CHAR) \in Nat \ {0}
      /\ MAX_TERMINAL_CHARS \in Nat \ {0} /\ W \in Nat
  BY <1>2, LineIs, CharactersAre, SizesNow
<1> DEFINE e == COMMAND_CHAR \o line
           last == text[Len(text)]
<1>4. e \in Seq(Glyph) /\ Len(e) = Len(COMMAND_CHAR) + Len(line)
  BY <1>3, Sequence!ConcatProperties
<1>5. last = Ending(pre, e)
  BY <1>1, Zenon DEF Ending
<1> HIDE DEF e, last
<1>6. Len(last) = Len(pre) + Len(e) + 1 /\ Len(pre) \in Nat
  BY <1>4, <1>5, EndingIs
<1>7. 2 <= Len(last) /\ Len(last) < W
  BY <1>1, <1>2, <1>3, <1>4, <1>6
<1> QED BY <1>1, <1>2, <1>3, <1>4, <1>5, <1>6, <1>7, Zenon DEF e, last

\* One character more on the line.
LEMMA TypeKeeps ==
  ASSUME ScreenInv, Type
  PROVE  ScreenInv'
<1>1. PICK char \in Letters : line' = Append(line, char) /\ Output(<<BACKSPACE, char, CURSOR>>)
  BY DEF Type
<1> DEFINE s == <<BACKSPACE, char, CURSOR>>
<1>2. place = "reading" /\ Len(line) < MAX_TERMINAL_CHARS - 1 /\ place' = place /\ spilled' = spilled
  BY DEF Type, Reading
<1>3. /\ con.fontSize \in Font /\ Placed(con) /\ spilled \in BOOLEAN /\ line \in Seq(Letters)
      /\ ~ spilled => Shows(con, text)
  BY DEF ScreenInv
<1>4. char \in Glyph /\ char # BACKSPACE /\ char # NEWLINE /\ CURSOR \in Glyph /\ CURSOR # BACKSPACE /\ CURSOR # NEWLINE /\ BACKSPACE \in Glyph
  BY CharactersAre
<1>5. s \in Seq(Glyph)
  BY <1>4
<1>6. line' \in Seq(Letters) /\ Len(line') = Len(line) + 1 /\ Len(line') < MAX_TERMINAL_CHARS
  <2>1. line' \in Seq(Letters) /\ Len(line') = Len(line) + 1 /\ Len(line) \in Nat
    BY <1>1, <1>3, LineIs, Sequence!AppendProperties
  <2> QED BY <1>2, <2>1, CharactersAre
<1>7. con'.fontSize = con.fontSize /\ Placed(con)' /\ W' = W
  BY <1>1, <1>3, <1>5, OutputPlaced
<1>8. ASSUME ~ spilled PROVE Shows(con, text)' /\ (Len(text) <= H)' /\ Editing'
  <2> DEFINE e == COMMAND_CHAR \o line
             last == text[Len(text)]
             all == FoldLeft(Written, text, s)
             n == Len(text)
  <2>1. PICK pre \in Seq(Glyph) :
          /\ e \in Seq(Glyph) /\ line \in Seq(Glyph) /\ COMMAND_CHAR \in Seq(Glyph)
          /\ last = Ending(pre, e) /\ Len(last) = Len(pre) + Len(e) + 1
          /\ Len(pre) \in Nat /\ Len(COMMAND_CHAR) \in Nat \ {0} /\ Len(line) \in Nat /\ W \in Nat
          /\ Len(e) = Len(COMMAND_CHAR) + Len(line) /\ Len(line) < MAX_TERMINAL_CHARS
          /\ Len(pre) + Len(COMMAND_CHAR) + MAX_TERMINAL_CHARS < W
          /\ MAX_TERMINAL_CHARS \in Nat \ {0}
          /\ 2 <= Len(last) /\ Len(last) < W
    BY <1>2, <1>8, EditingIs
  <2> HIDE DEF e
  <2>2. pre \o e \in Seq(Glyph) /\ Len(pre \o e) = Len(pre) + Len(e) /\ Front(last) = pre \o e
    BY <2>1, EndingIs
  <2> DEFINE f == Append(e, char)
  <2>3. Append(pre \o e, char) = pre \o f /\ f \in Seq(Glyph) /\ Len(f) = Len(e) + 1 /\ f = COMMAND_CHAR \o Append(line, char)
    <3>1. Append(pre \o e, char) = pre \o f /\ f \in Seq(Glyph) /\ Len(f) = Len(e) + 1
      <4>1. PartAppended(pre, e, char)
        BY <1>4, <2>1, PartsAppended
      <4>2. Append(e, char) \in Seq(Glyph) /\ Len(Append(e, char)) = Len(e) + 1
        BY <1>4, <2>1, Sequence!AppendProperties
      <4> QED BY <4>1, <4>2, Zenon DEF PartAppended
    <3>2. PartAppended(COMMAND_CHAR, line, char)
      BY <1>4, <2>1, PartsAppended
    <3> QED BY <3>1, <3>2, Zenon DEF e, PartAppended
  <2> HIDE DEF f, last, n
  <2>4. pre \o f \in Seq(Glyph) /\ Len(pre \o f) = Len(pre) + Len(f) /\ Ending(pre, f) = Append(pre \o f, CURSOR)
    BY <2>1, <2>3, EndingIs
  <2> DEFINE a == PutChar(con, BACKSPACE)
             la == Written(text, BACKSPACE)
             b == PutChar(a, char)
             lb == Written(la, char)
  <2>5. Shows(a, la) /\ Len(la) = n /\ la[n] = pre \o e
    <3>1. Shows(con, text) /\ last = text[Len(text)] /\ n = Len(text)
      BY <1>3, <1>8 DEF last, n
    <3> QED BY <1>3, <2>1, <2>2, <3>1, PutErases
  <2>6. Len(pre \o e) < W
    BY <2>1, <2>2
  <2> HIDE DEF a, la
  <2>7. Shows(b, lb) /\ Len(lb) = n /\ lb[n] = pre \o f
    <3>1. Shows(b, lb) /\ Len(lb) = Len(la) /\ lb[Len(la)] = Append(la[Len(la)], char)
      BY <1>3, <1>4, <2>5, <2>6, PutShows
    <3> QED BY <2>3, <2>5, <3>1
  <2>8. Len(pre \o f) < W
    BY <1>2, <2>1, <2>3, <2>4
  <2> DEFINE d == PutChar(b, CURSOR)
             ld == Written(lb, CURSOR)
  <2>9. d = PrintString(con, s) /\ ld = all
    <3>1. PutThree(con, text, BACKSPACE, char, CURSOR)
      BY FewPut
    <3> QED BY <3>1, Zenon DEF a, la, PutThree
  <2> HIDE DEF b, lb, all, s
  <2>10. Shows(d, ld) /\ Len(ld) = n /\ ld[n] = Ending(pre, f)
    <3>1. Shows(d, ld) /\ Len(ld) = Len(lb) /\ ld[Len(lb)] = Append(lb[Len(lb)], CURSOR)
      BY <1>3, <1>4, <2>7, <2>8, PutShows
    <3> QED BY <2>4, <2>7, <3>1
  <2> HIDE DEF d, ld
  <2>11. Shows(PrintString(con, s), FoldLeft(Written, text, s)) /\ all[Len(all)] = Ending(pre, f)
    BY <2>9, <2>10 DEF all
  <2>12. Output(s)
    BY <1>1 DEF s
  <2>13. Shows(con, text)' /\ (Len(text) <= H)' /\ text'[Len(text')] = all[Len(all)]
    BY <1>3, <1>5, <2>11, <2>12, OutputShows DEF all
  <2>14. text'[Len(text')] = pre \o (COMMAND_CHAR \o line' \o <<CURSOR>>)
    <3>1. f = COMMAND_CHAR \o line'
      BY <1>1, <2>3, Zenon
    <3> QED BY <2>11, <2>13, <3>1, Zenon DEF Ending
  <2>15. Editing'
    BY <1>7, <2>1, <2>14, Zenon DEF Editing
  <2> QED BY <2>13, <2>15
<1>9. place' \in {"ready", "reading", "running"} /\ con'.fontSize \in Font
  BY <1>2, <1>3, <1>7
<1> QED BY <1>2, <1>3, <1>6, <1>7, <1>8, <1>9, Zenon DEF ScreenInv

\* One less, when there is one.
LEMMA EraseKeeps ==
  ASSUME ScreenInv, Erase
  PROVE  ScreenInv'
<1> DEFINE s == <<BACKSPACE, BACKSPACE, CURSOR>>
<1>1. CASE line = <<>>
  <2>1. UNCHANGED screenVars
    BY <1>1, Zenon DEF Erase, screenVars
  <2> QED BY <2>1 DEF ScreenInv, screenVars, Placed, Shows, Editing, W, H, Console, Driver
<1>2. CASE line # <<>>
  <2>1. line' = Front(line) /\ Output(s) /\ place = "reading" /\ place' = place /\ spilled' = spilled
    BY <1>2, Zenon DEF Erase, ErasesBoth, Reading
  <2>2. /\ con.fontSize \in Font /\ Placed(con) /\ spilled \in BOOLEAN /\ line \in Seq(Letters)
        /\ Len(line) < MAX_TERMINAL_CHARS
        /\ ~ spilled => Shows(con, text)
    BY DEF ScreenInv
  <2>3. CURSOR \in Glyph /\ CURSOR # BACKSPACE /\ CURSOR # NEWLINE /\ BACKSPACE \in Glyph
    BY CharactersAre
  <2>4. s \in Seq(Glyph)
    BY <2>3
  <2> DEFINE z == line[Len(line)]
             f == Front(line)
  <2>5. z \in Letters /\ f \in Seq(Letters) /\ line = Append(f, z) /\ Len(f) = Len(line) - 1
    BY <1>2, <2>2, AppendToFront, FrontIs
  <2>6. line' \in Seq(Letters) /\ Len(line') < MAX_TERMINAL_CHARS
    <3>1. Len(line) \in Nat
      BY <2>2, LineIs
    <3> QED BY <2>1, <2>2, <2>5, <3>1, CharactersAre
  <2>7. con'.fontSize = con.fontSize /\ Placed(con)' /\ W' = W
    BY <2>1, <2>2, <2>4, OutputPlaced
  <2>8. ASSUME ~ spilled PROVE Shows(con, text)' /\ (Len(text) <= H)' /\ Editing'
    <3> DEFINE e == COMMAND_CHAR \o line
               g == COMMAND_CHAR \o f
               last == text[Len(text)]
               all == FoldLeft(Written, text, s)
               n == Len(text)
    <3>1. PICK pre \in Seq(Glyph) :
            /\ e \in Seq(Glyph) /\ line \in Seq(Glyph) /\ COMMAND_CHAR \in Seq(Glyph)
            /\ last = Ending(pre, e) /\ Len(last) = Len(pre) + Len(e) + 1
            /\ Len(pre) \in Nat /\ Len(COMMAND_CHAR) \in Nat \ {0} /\ Len(line) \in Nat /\ W \in Nat
            /\ Len(e) = Len(COMMAND_CHAR) + Len(line) /\ Len(line) < MAX_TERMINAL_CHARS
            /\ Len(pre) + Len(COMMAND_CHAR) + MAX_TERMINAL_CHARS < W
            /\ MAX_TERMINAL_CHARS \in Nat \ {0}
            /\ 2 <= Len(last) /\ Len(last) < W
      BY <2>1, <2>8, EditingIs
    <3> HIDE DEF f, z
    <3>2. f \in Seq(Glyph) /\ z \in Glyph /\ Len(f) \in Nat
      BY <2>5, LineIs, CharactersAre
    <3>3. g \in Seq(Glyph) /\ Len(g) = Len(COMMAND_CHAR) + Len(f) /\ e = Append(g, z)
      <4>1. g \in Seq(Glyph) /\ Len(g) = Len(COMMAND_CHAR) + Len(f)
        BY <3>1, <3>2, Sequence!ConcatProperties
      <4>2. PartAppended(COMMAND_CHAR, f, z)
        BY <3>1, <3>2, PartsAppended
      <4>3. Append(COMMAND_CHAR \o f, z) = COMMAND_CHAR \o Append(f, z) /\ line = Append(f, z)
        BY <2>5, <4>2, Zenon DEF PartAppended, f, z
      <4> QED BY <4>1, <4>3, Zenon
    <3> HIDE DEF e, g
    <3>4. pre \o e \in Seq(Glyph) /\ Len(pre \o e) = Len(pre) + Len(e) /\ Front(last) = pre \o e
      BY <3>1, EndingIs
    <3>5. pre \o g \in Seq(Glyph) /\ Len(pre \o g) = Len(pre) + Len(g) /\ Ending(pre, g) = Append(pre \o g, CURSOR)
      BY <3>1, <3>3, EndingIs
    <3>6. Front(pre \o e) = pre \o g
      <4>1. pre \o e = Append(pre \o g, z)
        <5>1. PartAppended(pre, g, z)
          BY <3>2, <3>3, PartsAppended
        <5> QED BY <3>3, <5>1, Zenon DEF PartAppended
      <4>2. Front(Append(pre \o g, z)) = pre \o g
        <5> DEFINE h == pre \o g
        <5>1. h \in Seq(Glyph)
          BY <3>5
        <5> HIDE DEF h
        <5>2. Front(Append(h, z)) = h
          BY <3>2, <5>1, FrontOfAppend
        <5> QED BY <5>2 DEF h
      <4> QED BY <4>1, <4>2, Zenon
    <3> HIDE DEF last, n
    <3> DEFINE a == PutChar(con, BACKSPACE)
               la == Written(text, BACKSPACE)
               b == PutChar(a, BACKSPACE)
               lb == Written(la, BACKSPACE)
    <3>7. Shows(a, la) /\ Len(la) = n /\ la[n] = pre \o e
      <4>1. Shows(con, text) /\ last = text[Len(text)] /\ n = Len(text)
        BY <2>2, <2>8 DEF last, n
      <4> QED BY <2>2, <3>1, <3>4, <4>1, PutErases
    <3>8. 2 <= Len(pre \o e) /\ Len(pre \o e) < W /\ Len(pre \o g) < W
      <4>1. Len(line) # 0 /\ Len(f) = Len(line) - 1
        BY <2>5, <3>1, <3>2 DEF f
      <4> QED BY <3>1, <3>2, <3>3, <3>4, <3>5, <4>1, SMTT(30)
    <3> HIDE DEF a, la
    <3>9. Shows(b, lb) /\ Len(lb) = n /\ lb[n] = pre \o g
      <4>1. Shows(b, lb) /\ Len(lb) = Len(la) /\ lb[Len(la)] = Front(la[Len(la)])
        BY <2>2, <3>7, <3>8, PutErases
      <4> QED BY <3>6, <3>7, <4>1
    <3> DEFINE d == PutChar(b, CURSOR)
               ld == Written(lb, CURSOR)
    <3>10. d = PrintString(con, s) /\ ld = all
      <4>1. PutThree(con, text, BACKSPACE, BACKSPACE, CURSOR)
        BY FewPut
      <4> QED BY <4>1, Zenon DEF a, la, PutThree
    <3> HIDE DEF b, lb, all, s
    <3>11. Shows(d, ld) /\ Len(ld) = n /\ ld[n] = Ending(pre, g)
      <4>1. Shows(d, ld) /\ Len(ld) = Len(lb) /\ ld[Len(lb)] = Append(lb[Len(lb)], CURSOR)
        BY <2>2, <2>3, <3>8, <3>9, PutShows
      <4> QED BY <3>5, <3>9, <4>1
    <3> HIDE DEF d, ld
    <3>12. Shows(PrintString(con, s), FoldLeft(Written, text, s)) /\ all[Len(all)] = Ending(pre, g)
      BY <3>10, <3>11 DEF all
    <3>13. Shows(con, text)' /\ (Len(text) <= H)' /\ text'[Len(text')] = all[Len(all)]
      BY <2>1, <2>2, <2>4, <3>12, OutputShows DEF all
    <3>14. text'[Len(text')] = pre \o (COMMAND_CHAR \o line' \o <<CURSOR>>)
      <4>1. g = COMMAND_CHAR \o line'
        BY <2>1, Zenon DEF f, g
      <4> QED BY <3>12, <3>13, <4>1, Zenon DEF Ending
    <3>15. Editing'
      BY <2>7, <3>1, <3>14, Zenon DEF Editing
    <3> QED BY <3>13, <3>15
  <2>9. place' \in {"ready", "reading", "running"} /\ con'.fontSize \in Font
    BY <2>1, <2>2, <2>7
  <2> HIDE DEF s
  <2> QED BY <2>1, <2>2, <2>6, <2>7, <2>8, <2>9, Zenon DEF ScreenInv
<1> QED BY <1>1, <1>2

\* The end of the line.
LEMMA EndLineKeeps ==
  ASSUME ScreenInv, EndLine
  PROVE  ScreenInv'
<1> DEFINE s == <<BACKSPACE, NEWLINE>>
<1>1. place = "reading" /\ Output(s) /\ place' = "running" /\ line' = line /\ spilled' = spilled
  BY Zenon DEF EndLine
<1>2. /\ con.fontSize \in Font /\ Placed(con) /\ spilled \in BOOLEAN /\ line \in Seq(Letters)
      /\ Len(line) < MAX_TERMINAL_CHARS
      /\ ~ spilled => Shows(con, text)
  BY DEF ScreenInv
<1>3. NEWLINE \in Glyph /\ NEWLINE # BACKSPACE /\ BACKSPACE \in Glyph
  BY CharactersAre, BackOrNext
<1>4. s \in Seq(Glyph)
  BY <1>3
<1>5. con'.fontSize = con.fontSize /\ Placed(con)'
  BY <1>1, <1>2, <1>4, OutputPlaced
<1>6. ASSUME ~ spilled PROVE Shows(con, text)' /\ (Len(text) <= H)'
  <2> DEFINE a == PutChar(con, BACKSPACE)
             la == Written(text, BACKSPACE)
             b == PutChar(a, NEWLINE)
             lb == Written(la, NEWLINE)
             last == text[Len(text)]
  <2>1. 2 <= Len(last) /\ Len(last) < W
    BY <1>1, <1>6, EditingIs
  <2>2. Shows(a, la)
    BY <1>2, <1>6, <2>1, PutErases
  <2> HIDE DEF a, la
  <2>3. Shows(b, lb)
    BY <1>2, <1>3, <2>2, PutShows
  <2> HIDE DEF b, lb, s
  <2>4. PrintString(con, s) = b /\ FoldLeft(Written, text, s) = lb
    <3>1. PutTwo(con, text, BACKSPACE, NEWLINE)
      BY FewPut
    <3> QED BY <3>1, Zenon DEF a, la, b, lb, s, PutTwo
  <2>5. Shows(PrintString(con, s), FoldLeft(Written, text, s))
    BY <2>3, <2>4
  <2> QED BY <1>1, <1>2, <1>4, <2>5, OutputShows
<1>7. place' \in {"ready", "reading", "running"} /\ place' # "reading" /\ con'.fontSize \in Font
  BY <1>1, <1>2, <1>5
<1> HIDE DEF s
<1> QED BY <1>1, <1>2, <1>5, <1>6, <1>7, Zenon DEF ScreenInv

\* What a command prints.
LEMMA PrintSomeKeeps ==
  ASSUME ScreenInv, PrintSome
  PROVE  ScreenInv'
<1>1. PICK s \in Outputs : Output(s) /\ spilled' = (spilled \/ Contains(s, BACKSPACE))
  BY Zenon DEF PrintSome
<1>2. place' = "ready" /\ line' = line
  BY Zenon DEF PrintSome
<1>3. /\ con.fontSize \in Font /\ Placed(con) /\ spilled \in BOOLEAN /\ line \in Seq(Letters)
      /\ Len(line) < MAX_TERMINAL_CHARS
      /\ ~ spilled => Shows(con, text)
  BY DEF ScreenInv
<1>4. s \in Seq(Glyph)
  BY CharactersAre
<1>5. con'.fontSize = con.fontSize /\ Placed(con)'
  BY <1>1, <1>3, <1>4, OutputPlaced
<1>6. spilled' \in BOOLEAN
  BY <1>1, Zenon
<1>7. ASSUME ~ spilled' PROVE Shows(con, text)' /\ (Len(text) <= H)'
  <2>1. ~ spilled /\ ~ Contains(s, BACKSPACE)
    BY <1>1, <1>7, Zenon
  <2>2. Len(s) \in Nat /\ DOMAIN s = 1 .. Len(s) /\ \A i \in 1 .. Len(s) : s[i] \in Glyph
    BY <1>4, Sequence!LenProperties, Sequence!ElementOfSeq
  <2>3. \A i \in 1 .. Len(s) : s[i] \in Glyph \ {BACKSPACE}
    BY <2>1, <2>2 DEF Contains
  <2>4. s \in Seq(Glyph \ {BACKSPACE})
    <3> DEFINE A == Glyph \ {BACKSPACE}
               n == Len(s)
    <3>1. n \in Nat /\ s = [i \in 1 .. n |-> s[i]] /\ \A i \in 1 .. n : s[i] \in A
      <4>1. s \in [1 .. Len(s) -> Glyph]
        BY <1>4, Sequence!LenProperties
      <4> QED BY <2>2, <2>3, <4>1
    <3> HIDE DEF A, n
    <3>2. [i \in 1 .. n |-> s[i]] \in Seq(A)
      BY <3>1
    <3> QED BY <3>1, <3>2, Zenon DEF A
  <2>5. Shows(PrintString(con, s), FoldLeft(Written, text, s))
    BY <1>3, <2>1, <2>4, PrintShows
  <2> QED BY <1>1, <1>3, <1>4, <2>5, OutputShows
<1>8. place' \in {"ready", "reading", "running"} /\ place' # "reading" /\ con'.fontSize \in Font
  BY <1>2, <1>3, <1>5
<1> QED BY <1>2, <1>3, <1>5, <1>6, <1>7, <1>8, Zenon DEF ScreenInv

\* A screen that is cleared.
LEMMA ClearKeeps ==
  ASSUME ScreenInv, NEW font \in Font, Clear(font), place' = "ready", line' = line
  PROVE  ScreenInv'
<1>1. con' = Cleared(font) /\ text' = << <<>> >> /\ spilled' = FALSE
  BY Zenon DEF Clear
<1>2. con'.fontSize = font
  BY <1>1 DEF Cleared
<1>3. Blanked'
  BY <1>1, <1>2, Zenon DEF Blanked
<1>4. Placed(con)' /\ Shows(con, text)' /\ (Len(text) <= H)'
  BY <1>1, <1>3, BlankedShowsThen
<1>5. line' \in Seq(Letters) /\ Len(line') < MAX_TERMINAL_CHARS
  BY Zenon DEF ScreenInv
<1>6. place' \in {"ready", "reading", "running"} /\ place' # "reading" /\ con'.fontSize \in Font /\ spilled' \in BOOLEAN
  BY <1>1, <1>2
<1> QED BY <1>4, <1>5, <1>6, Zenon DEF ScreenInv

\* And with another size of its font, which may be refused.
LEMMA ClearScreenKeeps ==
  ASSUME ScreenInv, ClearScreen \/ changeFontSize
  PROVE  ScreenInv'
<1>1. con.fontSize \in Font
  BY DEF ScreenInv
<1>2. CASE ClearScreen
  <2>1. Clear(con.fontSize) /\ place' = "ready" /\ line' = line
    BY <1>2, Zenon DEF ClearScreen
  <2> QED BY <1>1, <2>1, ClearKeeps
<1>3. CASE changeFontSize
  <2>1. PICK dif \in {-1, 1} :
          IF con.fontSize + dif \in 1 .. MAX_FONTSIZE THEN Clear(con.fontSize + dif) ELSE UNCHANGED <<con, text, spilled>>
    BY <1>3 DEF changeFontSize
  <2>2. place' = "ready" /\ line' = line
    BY <1>3, Zenon DEF changeFontSize
  <2>3. CASE con.fontSize + dif \in Font
    <3>1. Clear(con.fontSize + dif)
      BY <2>1, <2>3 DEF Font
    <3> DEFINE font == con.fontSize + dif
    <3>2. font \in Font /\ Clear(font)
      BY <2>3, <3>1
    <3> HIDE DEF font
    <3> QED BY <2>2, <3>2, ClearKeeps
  <2>4. CASE con.fontSize + dif \notin Font
    <3>1. con' = con /\ text' = text /\ spilled' = spilled
      BY <2>1, <2>4 DEF Font
    <3>2. /\ con.fontSize \in Font /\ Placed(con) /\ spilled \in BOOLEAN /\ line \in Seq(Letters)
          /\ Len(line) < MAX_TERMINAL_CHARS
          /\ ~ spilled => Shows(con, text) /\ Len(text) <= H
      BY DEF ScreenInv
    <3>3. Placed(con)' /\ (~ spilled => Shows(con, text)' /\ (Len(text) <= H)')
      BY <3>1, <3>2 DEF Placed, Shows, W, H, Console, Driver
    <3>4. place' \in {"ready", "reading", "running"} /\ place' # "reading"
      BY <2>2
    <3> QED BY <2>2, <3>1, <3>2, <3>3, <3>4, Zenon DEF ScreenInv
  <2> QED BY <2>3, <2>4
<1> QED BY <1>2, <1>3

\* The text on the screen, the cursor and the line.
THEOREM ScreenInvariant == ScreenSpec => []ScreenInv
<1>1. ScreenInit => ScreenInv
  <2> SUFFICES ASSUME ScreenInit PROVE ScreenInv
    OBVIOUS
  <2>1. con = Cleared(1) /\ place = "ready" /\ line = <<>> /\ text = << <<>> >> /\ spilled = FALSE
    BY DEF ScreenInit
  <2>2. 1 \in Font
    BY ScreenSizes DEF Font
  <2>3. con.fontSize = 1
    BY <2>1 DEF Cleared
  <2>4. Blanked
    BY <2>1, <2>2, <2>3, Zenon DEF Blanked
  <2>5. Placed(con) /\ Shows(con, text) /\ Len(text) <= H
    BY <2>1, <2>4, BlankedShows
  <2>6. line \in Seq(Letters) /\ Len(line) < MAX_TERMINAL_CHARS
    <3>1. <<>> \in Seq(Letters) /\ Len(<<>>) = 0
      OBVIOUS
    <3> QED BY <2>1, <3>1, CharactersAre
  <2>7. place \in {"ready", "reading", "running"} /\ place # "reading" /\ spilled \in BOOLEAN /\ con.fontSize \in Font
    BY <2>1, <2>2, <2>3
  <2> QED BY <2>5, <2>6, <2>7, Zenon DEF ScreenInv
<1>2. ScreenInv /\ [ScreenNext]_screenVars => ScreenInv'
  <2> SUFFICES ASSUME ScreenInv, [ScreenNext]_screenVars PROVE ScreenInv'
    OBVIOUS
  <2>1. CASE ScreenNext
    BY <2>1, PromptKeeps, TypeKeeps, EraseKeeps, EndLineKeeps, PrintSomeKeeps, ClearScreenKeeps DEF ScreenNext
  <2>2. CASE UNCHANGED screenVars
    BY <2>2 DEF ScreenInv, screenVars, Placed, Shows, Editing, W, H, Console, Driver
  <2> QED BY <2>1, <2>2
<1> QED BY <1>1, <1>2, PTL DEF ScreenSpec

\* The cells are the text.
LEMMA CellsAreText ==
  ASSUME Shows(con, text), Len(text) <= H, con.fontSize \in Font, NEW p \in Row \X Column
  PROVE  con.cell[p] = Shown(p)
<1> DEFINE n == Len(text)
           y == p[1]
           x == p[2]
<1>1. /\ text \in Texts /\ con.y_char = n - 1
      /\ \A v \in Row, u \in Column : con.cell[<<v, u>>] = IF v <= n - 1 THEN At(text, n - (n - 1) + v, u) ELSE BLANK
  BY DEF Shows
<1>2. n \in Nat \ {0} /\ y \in Row /\ x \in Column /\ p = <<y, x>> /\ y \in Nat
  BY <1>1, TextsAre, SizesNow
<1>3. Shown(p) = IF y < n THEN At(text, y + 1, x) ELSE BLANK
  BY Zenon DEF Shown, At
<1> HIDE DEF n, y, x
<1>4. n - (n - 1) + y = y + 1 /\ (y <= n - 1 <=> y < n)
  BY <1>2
<1>5. con.cell[<<y, x>>] = IF y < n THEN At(text, y + 1, x) ELSE BLANK
  BY <1>1, <1>2, <1>4
<1> QED BY <1>2, <1>3, <1>5

\* The screen shows the last lines of what was printed and nothing else, and the
\* line that is edited is what will be executed, on a screen of any size, in every
\* font, whatever is printed and typed, as long as the lines fit into their rows
\* and no program takes back what it printed; and the cursor stays on the screen
\* always.
THEOREM TextIsShown == ScreenSpec => []ScreenShowsText
<1>1. ScreenInv => ScreenShowsText
  <2> SUFFICES ASSUME ScreenInv PROVE ScreenShowsText
    OBVIOUS
  <2>1. /\ con.fontSize \in Font /\ Placed(con) /\ place \in {"ready", "reading", "running"}
        /\ line \in Seq(Letters) /\ Len(line) < MAX_TERMINAL_CHARS /\ spilled \in BOOLEAN
        /\ ~ spilled => Shows(con, text) /\ Len(text) <= H
    BY DEF ScreenInv
  <2>2. ScreenTypeOK
    <3>1. con.column \in -1 .. Columns(con.fontSize) /\ con.y_char \in 0 .. Lines(con.fontSize) - 1
      BY <2>1 DEF Placed, W, H
    <3>2. (con.y_char + 1) * LINE_HEIGHT * con.fontSize <= HEIGHT
      <4> DEFINE h == Lines(con.fontSize)
                 y == con.y_char
      <4>1. h \in Nat \ {0} /\ \A z \in Nat : z < h => (z + 1) * LINE_HEIGHT * con.fontSize <= HEIGHT
        BY <2>1, LinesAre
      <4>2. y \in 0 .. h - 1
        BY <3>1
      <4> HIDE DEF h, y
      <4>3. y \in Nat /\ y < h
        BY <4>1, <4>2
      <4>4. (y + 1) * LINE_HEIGHT * con.fontSize <= HEIGHT
        BY <4>1, <4>3
      <4> QED BY <4>4 DEF y
    <3> QED BY <2>1, <3>1, <3>2, Zenon DEF ScreenTypeOK, Font
  <2>3. ASSUME ~ spilled PROVE EchoIsLine /\ \A p \in Row \X Column : con.cell[p] = Shown(p)
    <3>1. \A p \in Row \X Column : con.cell[p] = Shown(p)
      BY <2>1, <2>3, CellsAreText
    <3>2. ASSUME place = "reading" PROVE IsSuffix(COMMAND_CHAR \o line \o <<CURSOR>>, text[Len(text)])
      <4> DEFINE e == COMMAND_CHAR \o line
                 s == e \o <<CURSOR>>
      <4>1. PICK pre \in Seq(Glyph) : e \in Seq(Glyph) /\ text[Len(text)] = Ending(pre, e)
        BY <2>3, <3>2, EditingIs, Zenon
      <4>2. s \in Seq(Glyph)
        <5> HIDE DEF e
        <5>1. <<CURSOR>> \in Seq(Glyph)
          BY CharactersAre
        <5> QED BY <4>1, <5>1, Sequence!ConcatProperties
      <4>3. text[Len(text)] = pre \o s
        BY <4>1, Zenon DEF Ending
      <4> HIDE DEF s
      <4>4. IsSuffix(s, pre \o s)
        BY <4>2, EndsWith
      <4> QED BY <4>3, <4>4, Zenon DEF s
    <3> QED BY <3>1, <3>2, Zenon DEF EchoIsLine
  <2> QED BY <2>2, <2>3, Zenon DEF ScreenShowsText
<1> QED BY <1>1, ScreenInvariant, PTL

\* A fold over a longer sequence is one step more.
LEMMA ReachesAppend ==
  ASSUME NEW kind, NEW base, NEW D, NEW s \in Seq(D), NEW d, NEW v, Reaches(kind, base, s, Len(s), v)
  PROVE  Reaches(kind, base, Append(s, d), Len(s) + 1, CharStep(kind, v, d))
<1> DEFINE n == Len(s)
           t == Append(s, d)
<1>1. PICK q : /\ q[0] = base
               /\ \A k \in 0 .. n - 1 : q[k + 1] = CharStep(kind, q[k], s[k + 1])
               /\ v = q[n]
  BY DEF Reaches
<1>2. n \in Nat /\ t[n + 1] = d /\ \A k \in 1 .. n : t[k] = s[k]
  <2>1. s \in Seq(D \cup {d})
    BY Sequence!SeqMonotonic
  <2> QED BY <2>1, Sequence!AppendProperties
<1> HIDE DEF n, t
<1> DEFINE r == [k \in 0 .. n + 1 |-> IF k = n + 1 THEN CharStep(kind, v, d) ELSE q[k]]
<1>3. r[0] = base /\ r[n + 1] = CharStep(kind, v, d) /\ \A k \in 0 .. n : r[k] = q[k]
  BY <1>1, <1>2
<1> HIDE DEF r
<1>4. ASSUME NEW k \in 0 .. n PROVE r[k + 1] = CharStep(kind, r[k], t[k + 1])
  <2>1. CASE k = n
    BY <1>1, <1>2, <1>3, <2>1, Zenon
  <2>2. CASE k # n
    <3>1. k \in 0 .. n - 1 /\ k + 1 \in 0 .. n /\ k + 1 \in 1 .. n
      BY <1>2, <2>2
    <3> QED BY <1>1, <1>2, <1>3, <3>1, Zenon
  <2> QED BY <2>1, <2>2
<1>5. 0 .. n = 0 .. (n + 1) - 1
  BY <1>2
<1>6. Reaches(kind, base, t, n + 1, CharStep(kind, v, d))
  <2>1. \A k \in 0 .. (n + 1) - 1 : r[k + 1] = CharStep(kind, r[k], t[k + 1])
    BY <1>4, <1>5, Zenon
  <2> QED BY <1>3, <2>1, Zenon DEF Reaches
<1> QED BY <1>6 DEF n, t

\* A fold depends on nothing but what is folded.
LEMMA ReachesOne ==
  ASSUME NEW kind, NEW base, NEW n \in Nat, NEW s, NEW t, \A k \in 1 .. n : s[k] = t[k], NEW a, NEW b,
         Reaches(kind, base, s, n, a), Reaches(kind, base, t, n, b)
  PROVE  a = b
<1>1. PICK q : q[0] = base /\ (\A k \in 0 .. n - 1 : q[k + 1] = CharStep(kind, q[k], s[k + 1])) /\ a = q[n]
  BY DEF Reaches
<1>2. PICK r : r[0] = base /\ (\A k \in 0 .. n - 1 : r[k + 1] = CharStep(kind, r[k], t[k + 1])) /\ b = r[n]
  BY DEF Reaches
<1> DEFINE S == {k \in Nat : k <= n => q[k] = r[k]}
<1>3. 0 \in S
  BY <1>1, <1>2
<1>4. ASSUME NEW k \in Nat, k \in S PROVE k + 1 \in S
  <2> SUFFICES ASSUME k + 1 <= n PROVE q[k + 1] = r[k + 1]
    OBVIOUS
  <2>1. k \in 0 .. n - 1 /\ k + 1 \in 1 .. n /\ q[k] = r[k]
    BY <1>4
  <2> QED BY <1>1, <1>2, <2>1, Zenon
<1>5. n \in S
  <2> HIDE DEF S
  <2> QED BY <1>3, <1>4, Induct
<1> QED BY <1>1, <1>2, <1>5

\* Nor on what comes after it.
LEMMA ReachesSame ==
  ASSUME NEW kind, NEW base, NEW n \in Nat, NEW s, NEW t, \A k \in 1 .. n : s[k] = t[k], NEW a,
         Reaches(kind, base, s, n, a)
  PROVE  Reaches(kind, base, t, n, a)
<1>1. PICK q : q[0] = base /\ (\A k \in 0 .. n - 1 : q[k + 1] = CharStep(kind, q[k], s[k + 1])) /\ a = q[n]
  BY DEF Reaches
<1>2. \A k \in 0 .. n - 1 : k + 1 \in 1 .. n
  OBVIOUS
<1>3. \A k \in 0 .. n - 1 : q[k + 1] = CharStep(kind, q[k], t[k + 1])
  BY <1>1, <1>2
<1> QED BY <1>1, <1>3, Zenon DEF Reaches

-----------------------------------------------------------------------------
(* Conversions.                                                            *)

\* What stands before the first of some characters is the longest part that has
\* none of them.
LEMMA BeforeIs ==
  ASSUME NEW D, NEW s \in Seq(D), NEW ends
  PROVE  \E m \in 0 .. Len(s) : /\ Before(s, ends) = SubSeq(s, 1, m)
                                /\ \A i \in 1 .. m : s[i] \notin ends
                                /\ m < Len(s) => s[m + 1] \in ends
<1> DEFINE n == Len(s)
           stops == {i \in 1 .. n + 1 : i > n \/ s[i] \in ends}
           end == CHOOSE i \in stops : \A j \in stops : i <= j
<1>1. n \in Nat /\ n + 1 \in stops /\ stops \in SUBSET Nat /\ \A i \in stops : i \in 1 .. n + 1
  OBVIOUS
<1>2. \E i \in stops : \A j \in stops : i <= j
  <2> HIDE DEF stops
  <2> QED BY <1>1, Smallest
<1>3. end \in stops /\ \A j \in stops : end <= j
  <2> HIDE DEF stops
  <2> QED BY <1>2, Zenon
<1>4. Before(s, ends) = SubSeq(s, 1, end - 1)
  BY DEF Before
<1> HIDE DEF end
<1>5. end - 1 \in 0 .. n /\ (end - 1 < n => s[end] \in ends) /\ end \in Int
  BY <1>1, <1>3
<1>6. ASSUME NEW i \in 1 .. end - 1 PROVE s[i] \notin ends
  <2>1. i \in 1 .. n + 1 /\ ~(end <= i)
    BY <1>1, <1>5
  <2> QED BY <1>3, <2>1
<1>7. (end - 1) + 1 = end
  BY <1>5
<1> QED BY <1>4, <1>5, <1>6, <1>7

\* The digits are ten different characters.
LEMMA TenDigits ==
  /\ \A k \in 0 .. 9 : DIGITS[k + 1] \in DECIMAL /\ Value(DIGITS[k + 1]) = k
  /\ \A d \in DECIMAL : Value(d) \in 0 .. 9 /\ DIGITS[Value(d) + 1] = d
  /\ DIGITS[1] = "0" /\ {":", "/"} \cap DECIMAL = {}
<1>1. \A i, j \in 1 .. 10 : DIGITS[i] = DIGITS[j] => i = j
  BY DEF DIGITS
<1>2. DIGITS[1] = "0"
  BY DEF DIGITS
<1>7. \A i \in 1 .. 10 : DIGITS[i] # ":" /\ DIGITS[i] # "/"
  BY DEF DIGITS
<1>8. {":", "/"} \cap DECIMAL = {}
  BY <1>7 DEF DECIMAL
<1>3. ASSUME NEW i \in 1 .. 10 PROVE DIGITS[i] \in DECIMAL /\ Value(DIGITS[i]) = i - 1
  <2>1. (CHOOSE j \in 1 .. 10 : DIGITS[j] = DIGITS[i]) = i
    BY <1>1
  <2> QED BY <2>1 DEF Value, DECIMAL
<1>4. \A k \in 0 .. 9 : k + 1 \in 1 .. 10 /\ (k + 1) - 1 = k
  OBVIOUS
<1>5. \A k \in 0 .. 9 : DIGITS[k + 1] \in DECIMAL /\ Value(DIGITS[k + 1]) = k
  BY <1>3, <1>4
<1>6. ASSUME NEW d \in DECIMAL PROVE Value(d) \in 0 .. 9 /\ DIGITS[Value(d) + 1] = d
  <2>1. PICK i \in 1 .. 10 : d = DIGITS[i]
    BY DEF DECIMAL
  <2>2. Value(d) = i - 1
    BY <1>3, <2>1
  <2>3. i - 1 \in 0 .. 9 /\ (i - 1) + 1 = i
    OBVIOUS
  <2> QED BY <2>1, <2>2, <2>3
<1> QED BY <1>2, <1>5, <1>6, <1>8

\* atoul is the value of the digits at the beginning, and of all there are.
LEMMA AtoulIs ==
  ASSUME NEW D, NEW s \in Seq(D), NEW m \in 0 .. Len(s),
         \A i \in 1 .. m : s[i] \in DECIMAL, m < Len(s) => s[m + 1] \notin DECIMAL
  PROVE  Reaches("value", 0, s, m, atoul(s))
<1>1. PICK k \in 0 .. Len(s) : /\ Before(s, ToSet(s) \ DECIMAL) = SubSeq(s, 1, k)
                               /\ \A i \in 1 .. k : s[i] \notin ToSet(s) \ DECIMAL
                               /\ k < Len(s) => s[k + 1] \in ToSet(s) \ DECIMAL
  BY BeforeIs
<1>2. \A i \in 1 .. Len(s) : s[i] \in ToSet(s)
  BY DEF ToSet
<1>3. k = m
  <2>1. ~(k < m)
    <3>1. k < m => k + 1 \in 1 .. m
      OBVIOUS
    <3> QED BY <1>1, <3>1
  <2>2. ~(m < k)
    <3>1. m < k => m + 1 \in 1 .. k /\ m + 1 \in 1 .. Len(s) /\ m < Len(s)
      OBVIOUS
    <3> QED BY <1>1, <1>2, <3>1
  <2> QED BY <2>1, <2>2
<1> DEFINE t == SubSeq(s, 1, m)
<1>4. DOMAIN t = 1 .. m /\ m \in Nat /\ \A i \in 1 .. m : t[i] = s[i]
  OBVIOUS
<1>5. atoul(s) = FoldLeft(Valued, 0, t)
  BY <1>1, <1>3, Zenon DEF atoul
<1> HIDE DEF t
<1>6. Reaches("value", 0, t, m, atoul(s))
  BY <1>4, <1>5, ValuedReached
<1> QED BY <1>4, <1>6, ReachesSame

\* The digits of every number up to n.
Tens(f, n) ==
  f = [k \in 0 .. n |-> IF k < 10 THEN <<DIGITS[k + 1]>> ELSE Append(f[k \div 10], DIGITS[(k % 10) + 1])]

\* A number is ten times its tenth and a digit.
LEMMA TensAre ==
  ASSUME NEW k \in Nat
  PROVE  /\ k \div 10 \in Nat /\ k % 10 \in 0 .. 9 /\ k = (k \div 10) * 10 + (k % 10)
         /\ k >= 10 => k \div 10 < k /\ k \div 10 > 0
<1>1. k \div 10 \in Nat /\ k % 10 \in 0 .. 9 /\ k = (k \div 10) * 10 + (k % 10)
  BY SMTT(30)
<1>2. \A q \in Nat, r \in 0 .. 9 : k = q * 10 + r /\ k >= 10 => q < k /\ q > 0
  OBVIOUS
<1> QED BY <1>1, <1>2, Zenon

\* There are such digits.
LEMMA TensExist ==
  ASSUME NEW n \in Nat
  PROVE  \E f : Tens(f, n)
<1> DEFINE S == {m \in Nat : \E f : Tens(f, m)}
           Body(f, k) == IF k < 10 THEN <<DIGITS[k + 1]>> ELSE Append(f[k \div 10], DIGITS[(k % 10) + 1])
<1>1. 0 \in S
  <2> DEFINE g == [k \in 0 .. 0 |-> <<DIGITS[k + 1]>>]
             h == [k \in 0 .. 0 |-> Body(g, k)]
  <2>1. \A k \in 0 .. 0 : k < 10
    OBVIOUS
  <2>2. g = h
    BY <2>1, Zenon
  <2>3. Tens(g, 0)
    BY <2>2, Zenon DEF Tens
  <2> QED BY <2>3
<1>2. ASSUME NEW m \in Nat, m \in S PROVE m + 1 \in S
  <2>1. PICK f : Tens(f, m)
    BY <1>2
  <2> DEFINE g == [k \in 0 .. m + 1 |-> IF k = m + 1 THEN Body(f, k) ELSE f[k]]
             h == [k \in 0 .. m + 1 |-> Body(g, k)]
  <2>2. ASSUME NEW k \in 0 .. m + 1 PROVE g[k] = h[k]
    <3>1. k >= 10 => k \div 10 \in 0 .. m + 1 /\ k \div 10 # m + 1
      BY TensAre
    <3>2. k < 10 \/ k >= 10
      OBVIOUS
    <3>3. Body(f, k) = Body(g, k)
      BY <3>1, <3>2, Zenon
    <3>4. k # m + 1 => k \in 0 .. m
      OBVIOUS
    <3>5. k # m + 1 => f[k] = Body(f, k)
      BY <2>1, <3>4, Zenon DEF Tens
    <3> QED BY <3>3, <3>5, Zenon
  <2>3. g = h
    BY <2>2, Zenon
  <2>4. Tens(g, m + 1)
    BY <2>3, Zenon DEF Tens
  <2> QED BY <2>4
<1>3. n \in S
  <2> HIDE DEF S
  <2> QED BY <1>1, <1>2, Induct
<1> QED BY <1>3

\* ultoa takes the last of them.
LEMMA UltoaIs ==
  ASSUME NEW n \in Nat
  PROVE  \E f : Tens(f, n) /\ ultoa(n) = f[n]
<1> DEFINE g == CHOOSE f : Tens(f, n)
<1>1. Tens(g, n)
  BY TensExist
<1>2. ultoa(n) = g[n]
  BY Zenon DEF ultoa, numToBase, Tens
<1> QED BY <1>1, <1>2, Zenon

\* One digit, or those of a tenth and one more.
LEMMA TensSteps ==
  ASSUME NEW n \in Nat, NEW f, Tens(f, n), NEW k \in 0 .. n
  PROVE  /\ k < 10 => f[k] = <<DIGITS[k + 1]>>
         /\ k >= 10 => k \div 10 \in 0 .. n /\ f[k] = Append(f[k \div 10], DIGITS[(k % 10) + 1])
<1>1. f[k] = IF k < 10 THEN <<DIGITS[k + 1]>> ELSE Append(f[k \div 10], DIGITS[(k % 10) + 1])
  BY Zenon DEF Tens
<1>2. k >= 10 => ~(k < 10) /\ k \div 10 \in 0 .. n
  BY TensAre
<1> QED BY <1>1, <1>2, Zenon

\* The digits of a number have its value, and none of them is a 0 in front.
Digits(s, k) ==
  /\ s \in Seq(DECIMAL) /\ Len(s) \in Nat \ {0} /\ Reaches("value", 0, s, Len(s), k)
  /\ Len(s) > 1 => s[1] # "0"
  /\ k > 0 => s[1] # "0"

\* One digit has.
LEMMA OneDigit ==
  ASSUME NEW k \in 0 .. 9
  PROVE  Digits(<<DIGITS[k + 1]>>, k)
<1> DEFINE d == DIGITS[k + 1]
           q == [j \in 0 .. 1 |-> IF j = 0 THEN 0 ELSE k]
<1>1. d \in DECIMAL /\ Value(d) = k
  BY TenDigits
<1>2. k > 0 => d # "0"
  <2>1. Value(DIGITS[0 + 1]) = 0
    BY TenDigits
  <2>2. DIGITS[0 + 1] = "0"
    BY TenDigits
  <2> QED BY <1>1, <2>1, <2>2
<1> HIDE DEF d
<1>3. <<d>> \in Seq(DECIMAL) /\ Len(<<d>>) = 1 /\ <<d>>[1] = d
  BY <1>1
<1>4. CharStep("value", 0, d) = k
  <2>1. CharStep("value", 0, d) = Valued(0, d)
    BY DEF CharStep
  <2>2. Valued(0, d) = k
    BY <1>1 DEF Valued
  <2> QED BY <2>1, <2>2
<1>5. q[0] = 0 /\ q[1] = k
  OBVIOUS
<1> HIDE DEF q
<1>6. Reaches("value", 0, <<d>>, 1, k)
  <2>1. \A j \in 0 .. 1 - 1 : j = 0 /\ j + 1 = 1
    OBVIOUS
  <2>2. \A j \in 0 .. 1 - 1 : q[j + 1] = CharStep("value", q[j], <<d>>[j + 1])
    BY <1>3, <1>4, <1>5, <2>1, Zenon
  <2> QED BY <1>5, <2>2, Zenon DEF Reaches
<1>7. Digits(<<d>>, k)
  <2>1. Len(<<d>>) \in Nat \ {0} /\ ~(Len(<<d>>) > 1)
    BY <1>3
  <2> QED BY <1>2, <1>3, <1>6, <2>1, Zenon DEF Digits
<1> QED BY <1>7 DEF d

\* So have those of a tenth and one more.
LEMMA OneDigitMore ==
  ASSUME NEW k \in Nat, k >= 10, NEW s, Digits(s, k \div 10)
  PROVE  Digits(Append(s, DIGITS[(k % 10) + 1]), k)
<1> DEFINE m == k \div 10
           r == k % 10
           d == DIGITS[r + 1]
<1>1. m \in Nat /\ m > 0 /\ r \in 0 .. 9 /\ k = m * 10 + r
  BY TensAre
<1>2. d \in DECIMAL /\ Value(d) = r
  BY <1>1, TenDigits
<1>3. Digits(s, m)
  OBVIOUS
<1> HIDE DEF d, m, r
<1>4. s \in Seq(DECIMAL) /\ Len(s) \in Nat \ {0} /\ Reaches("value", 0, s, Len(s), m) /\ s[1] # "0"
  BY <1>1, <1>3 DEF Digits
<1> DEFINE t == Append(s, d)
<1>5. t \in Seq(DECIMAL) /\ Len(t) = Len(s) + 1 /\ t[1] = s[1]
  BY <1>2, <1>4, Sequence!AppendProperties
<1>6. Reaches("value", 0, t, Len(s) + 1, CharStep("value", m, d))
  BY <1>4, ReachesAppend
<1>7. CharStep("value", m, d) = k
  <2>1. CharStep("value", m, d) = Valued(m, d)
    BY DEF CharStep
  <2>2. Valued(m, d) = k
    BY <1>1, <1>2 DEF Valued
  <2> QED BY <2>1, <2>2
<1> HIDE DEF t
<1>8. Digits(t, k)
  <2>1. Len(t) \in Nat \ {0}
    BY <1>4, <1>5
  <2> QED BY <1>4, <1>5, <1>6, <1>7, <2>1, Zenon DEF Digits
<1> QED BY <1>8 DEF t, d, r

\* So have all.
LEMMA TensRead ==
  ASSUME NEW n \in Nat, NEW f, Tens(f, n)
  PROVE  \A k \in 0 .. n : Digits(f[k], k)
<1> SUFFICES ASSUME {k \in 0 .. n : ~ Digits(f[k], k)} # {} PROVE FALSE
  OBVIOUS
<1> DEFINE S == {k \in 0 .. n : ~ Digits(f[k], k)}
<1>1. S \in SUBSET Nat /\ S # {}
  OBVIOUS
<1>2. PICK k \in S : \A j \in S : k <= j
  <2> HIDE DEF S
  <2> QED BY <1>1, Smallest
<1>3. k \in 0 .. n /\ k \in Nat /\ ~ Digits(f[k], k)
  OBVIOUS
<1>4. CASE k < 10
  <2>1. k \in 0 .. 9 /\ f[k] = <<DIGITS[k + 1]>>
    BY <1>3, <1>4, TensSteps
  <2> QED BY <1>3, <2>1, OneDigit
<1>5. CASE k >= 10
  <2>1. k \div 10 \in 0 .. n /\ f[k] = Append(f[k \div 10], DIGITS[(k % 10) + 1])
    BY <1>3, <1>5, TensSteps
  <2>2. k \div 10 < k /\ k \div 10 \in Nat
    BY <1>3, <1>5, TensAre
  <2>3. k \div 10 \notin S
    BY <1>2, <1>3, <2>2
  <2>4. Digits(f[k \div 10], k \div 10)
    BY <2>1, <2>3
  <2>5. Digits(f[k], k)
    BY <1>3, <1>5, <2>1, <2>4, OneDigitMore
  <2> QED BY <1>3, <2>5
<1> QED BY <1>3, <1>4, <1>5

\* What has its value reads back as it.
LEMMA DigitsReadBack ==
  ASSUME NEW D, NEW s \in Seq(D), NEW k, NEW m \in 0 .. Len(s), \A i \in 1 .. m : s[i] \in DECIMAL,
         m < Len(s) => s[m + 1] \notin DECIMAL, Reaches("value", 0, s, m, k)
  PROVE  atoul(s) = k
<1>1. Reaches("value", 0, s, m, atoul(s)) /\ m \in Nat
  BY AtoulIs
<1>2. \A i \in 1 .. m : s[i] = s[i]
  OBVIOUS
<1> QED BY <1>1, <1>2, ReachesOne

\* A number shown in decimals reads back.
LEMMA UltoaReadBack ==
  ASSUME NEW n \in Nat
  PROVE  atoul(ultoa(n)) = n /\ (Len(ultoa(n)) > 1 => Head(ultoa(n)) # "0") /\ atoul(Formatted("d", n)) = n
<1>1. PICK f : Tens(f, n) /\ ultoa(n) = f[n]
  BY UltoaIs
<1>2. Digits(ultoa(n), n)
  BY <1>1, TensRead
<1> DEFINE s == ultoa(n)
<1>3. s \in Seq(DECIMAL) /\ Len(s) \in Nat \ {0} /\ Reaches("value", 0, s, Len(s), n) /\ (Len(s) > 1 => s[1] # "0")
  BY <1>2, Zenon DEF Digits
<1>4. Formatted("d", n) = s
  BY DEF Formatted, ultoa
<1> HIDE DEF s
<1>5. Len(s) \in 0 .. Len(s) /\ ~(Len(s) < Len(s)) /\ \A i \in 1 .. Len(s) : s[i] \in DECIMAL
  BY <1>3
<1>6. atoul(s) = n
  BY <1>3, <1>5, DigitsReadBack
<1>7. Head(s) = s[1]
  BY <1>3
<1> QED BY <1>3, <1>4, <1>6, <1>7 DEF s

\* Two digits.
TwoDigits(s, n) ==
  /\ s \in Seq(DECIMAL) /\ Len(s) = 2 /\ DOMAIN s = 1 .. 2
  /\ Reaches("value", 0, s, 2, n)

\* A 0 in front of a digit changes nothing.
LEMMA ItoaIs ==
  ASSUME NEW n \in Nat
  PROVE  atoul(itoa(n)) = n /\ (n < 100 => TwoDigits(itoa(n), n))
<1> DEFINE s == itoa(n)
<1>1. PICK f : Tens(f, n) /\ ultoa(n) = f[n]
  BY UltoaIs
<1>2. CASE n < 10
  <2> DEFINE d == DIGITS[n + 1]
  <2>1. ultoa(n) = <<d>> /\ n \in 0 .. 9
    BY <1>1, <1>2, TensSteps
  <2>2. d \in DECIMAL /\ Value(d) = n /\ DIGITS[0 + 1] = "0" /\ 0 \in 0 .. 9
    BY <2>1, TenDigits
  <2>8. "0" \in DECIMAL
    BY <2>2, TenDigits
  <2> HIDE DEF d
  <2>3. s = Append(<<"0">>, d)
    BY <1>2, <2>1 DEF itoa
  <2>4. Digits(<<"0">>, 0)
    <3>1. Digits(<<DIGITS[0 + 1]>>, 0)
      BY <2>2, OneDigit, Zenon
    <3> QED BY <2>2, <3>1, Zenon
  <2>5. <<"0">> \in Seq(DECIMAL) /\ Len(<<"0">>) = 1 /\ Reaches("value", 0, <<"0">>, Len(<<"0">>), 0)
    BY <2>4 DEF Digits
  <2>6. Reaches("value", 0, s, Len(<<"0">>) + 1, CharStep("value", 0, d))
    BY <2>3, <2>5, ReachesAppend
  <2>7. CharStep("value", 0, d) = n
    <3>1. CharStep("value", 0, d) = Valued(0, d)
      BY DEF CharStep
    <3>2. Valued(0, d) = n
      BY <2>2 DEF Valued
    <3> QED BY <3>1, <3>2
  <2>9. s \in Seq(DECIMAL) /\ Len(s) = 2 /\ DOMAIN s = 1 .. 2
    BY <2>2, <2>3, <2>8
  <2>10. Len(<<"0">>) + 1 = 2
    BY <2>5
  <2> HIDE DEF s
  <2>11. TwoDigits(s, n)
    BY <2>6, <2>7, <2>9, <2>10, Zenon DEF TwoDigits
  <2>12. atoul(s) = n
    <3>1. 2 \in 0 .. Len(s) /\ ~(2 < Len(s)) /\ \A i \in 1 .. 2 : s[i] \in DECIMAL
      BY <2>9
    <3>2. Reaches("value", 0, s, 2, n)
      BY <2>11, Zenon DEF TwoDigits
    <3> QED BY <2>9, <3>1, <3>2, DigitsReadBack
  <2> QED BY <2>11, <2>12 DEF s
<1>3. CASE n >= 10
  <2>1. s = ultoa(n)
    BY <1>3 DEF itoa
  <2>2. atoul(s) = n
    BY <2>1, UltoaReadBack
  <2>3. ASSUME n < 100 PROVE TwoDigits(s, n)
    <3> DEFINE m == n \div 10
    <3>1. m \in 0 .. n /\ s = Append(f[m], DIGITS[(n % 10) + 1])
      BY <1>1, <1>3, <2>1, TensSteps
    <3>2. m < 10
      BY <2>3, TensAre
    <3>3. f[m] = <<DIGITS[m + 1]>>
      BY <1>1, <3>1, <3>2, TensSteps
    <3>4. Digits(s, n)
      BY <1>1, <2>1, TensRead
    <3>5. Len(s) = 2 /\ DOMAIN s = 1 .. 2
      BY <3>1, <3>3
    <3>6. s \in Seq(DECIMAL) /\ Reaches("value", 0, s, Len(s), n)
      BY <3>4 DEF Digits
    <3> QED BY <3>5, <3>6, Zenon DEF TwoDigits
  <2> QED BY <2>2, <2>3
<1> QED BY <1>2, <1>3

\* A time or a date: six digits in pairs, and what is between them.
LEMMA PartsAre ==
  ASSUME NEW a \in Nat, a < 100, NEW b \in Nat, b < 100, NEW c \in Nat, c < 100,
         NEW separator \in {":", "/"}
  PROVE  PartsReadBack(Parts(a, b, c, separator), a, b, c)
<1> DEFINE x == itoa(a)
           y == itoa(b)
           z == itoa(c)
           Put(buffer, at, s) ==
             [i \in 1 .. 9 |-> IF i - at + 1 \in DOMAIN s THEN s[i - at + 1]
                               ELSE IF i = at + Len(s) THEN "end" ELSE buffer[i]]
           one == [Put([i \in 1 .. 9 |-> "end"], 1, x) EXCEPT ![3] = separator]
           two == [Put(one, 4, y) EXCEPT ![6] = separator]
           all == [Put(two, 7, z) EXCEPT ![9] = "end"]
           t == <<x[1], x[2], separator, y[1], y[2], separator, z[1], z[2], "end">>
           D == DECIMAL \cup {separator, "end"}
<1>1. Parts(a, b, c, separator) = all
  BY Zenon DEF Parts
<1>2. TwoDigits(x, a) /\ TwoDigits(y, b) /\ TwoDigits(z, c)
  BY ItoaIs
<1> HIDE DEF x, y, z
<1>3. /\ DOMAIN x = 1 .. 2 /\ Len(x) = 2 /\ DOMAIN y = 1 .. 2 /\ Len(y) = 2 /\ DOMAIN z = 1 .. 2 /\ Len(z) = 2
      /\ x[1] \in DECIMAL /\ x[2] \in DECIMAL /\ y[1] \in DECIMAL /\ y[2] \in DECIMAL /\ z[1] \in DECIMAL /\ z[2] \in DECIMAL
  BY <1>2 DEF TwoDigits
<1>4. \A s, at, buffer : \A i \in 1 .. 9 : at \in 1 .. 9 /\ DOMAIN s = 1 .. 2 /\ Len(s) = 2 =>
         Put(buffer, at, s)[i] = IF i = at THEN s[1] ELSE IF i = at + 1 THEN s[2]
                                 ELSE IF i = at + 2 THEN "end" ELSE buffer[i]
  <2> SUFFICES ASSUME NEW s, NEW at \in 1 .. 9, NEW buffer, NEW i \in 1 .. 9, DOMAIN s = 1 .. 2, Len(s) = 2
               PROVE  Put(buffer, at, s)[i] = IF i = at THEN s[1] ELSE IF i = at + 1 THEN s[2]
                                 ELSE IF i = at + 2 THEN "end" ELSE buffer[i]
    BY SMTT(30)
  <2>1. Put(buffer, at, s)[i] = IF i - at + 1 \in 1 .. 2 THEN s[i - at + 1]
                                ELSE IF i = at + 2 THEN "end" ELSE buffer[i]
    BY Zenon
  <2> HIDE DEF Put
  <2> QED BY <2>1
<1>5. \A s, at, buffer : DOMAIN Put(buffer, at, s) = 1 .. 9
  BY Zenon
<1> HIDE DEF Put
<1>6. DOMAIN one = 1 .. 9 /\ one[1] = x[1] /\ one[2] = x[2] /\ one[3] = separator
  BY <1>3, <1>4, <1>5
<1> HIDE DEF one
<1>7. /\ DOMAIN two = 1 .. 9 /\ two[1] = x[1] /\ two[2] = x[2] /\ two[3] = separator
      /\ two[4] = y[1] /\ two[5] = y[2] /\ two[6] = separator
  BY <1>3, <1>4, <1>5, <1>6
<1> HIDE DEF two
<1>8. /\ DOMAIN all = 1 .. 9 /\ all[1] = x[1] /\ all[2] = x[2] /\ all[3] = separator
      /\ all[4] = y[1] /\ all[5] = y[2] /\ all[6] = separator /\ all[7] = z[1] /\ all[8] = z[2] /\ all[9] = "end"
  BY <1>3, <1>4, <1>5, <1>7
<1>9. all = [i \in DOMAIN all |-> all[i]]
  OBVIOUS
<1> HIDE DEF all
<1>10. \A i \in 1 .. 9 : i \in {1, 2, 3, 4, 5, 6, 7, 8, 9}
  OBVIOUS
<1>11. \A i \in 1 .. 9 : all[i] \in D
  BY <1>3, <1>8, <1>10
<1>12. all \in Seq(D) /\ Len(all) = 9
  <2>1. all \in [1 .. 9 -> D]
    BY <1>8, <1>9, <1>11
  <2>2. 9 \in Nat /\ \A n \in Nat : 1 .. n = 1 .. 9 => n = 9
    OBVIOUS
  <2>3. all \in Seq(D)
    BY <2>1, <2>2, Sequence!SeqDef
  <2>4. Len(all) \in Nat /\ DOMAIN all = 1 .. Len(all)
    BY <2>3, Sequence!LenProperties
  <2> QED BY <1>8, <2>2, <2>3, <2>4
<1>13. \A i \in 1 .. 8 : all[i] # "end"
  <2>1. "end" \notin DECIMAL /\ separator # "end"
    BY DEF DECIMAL, DIGITS
  <2>2. \A i \in 1 .. 8 : i \in {1, 2, 3, 4, 5, 6, 7, 8}
    OBVIOUS
  <2> QED BY <1>3, <1>8, <2>1, <2>2
<1>14. ASSUME NEW at \in {1, 4, 7}, NEW s, NEW n, TwoDigits(s, n), all[at] = s[1], all[at + 1] = s[2],
              at = 7 \/ all[at + 2] = separator
       PROVE  atoul(SubSeq(all, at, 8)) = n
  <2> DEFINE r == SubSeq(all, at, 8)
  <2>1. r \in Seq(D) /\ Len(r) = 9 - at /\ \A i \in 1 .. 9 - at : r[i] = all[at + i - 1]
    <3>1. at \in Int /\ 8 \in Int /\ at <= 8 /\ 8 - at + 1 = 9 - at /\ \A i \in at .. 8 : i \in 1 .. 9
      OBVIOUS
    <3>2. \A i \in at .. 8 : all[i] \in D
      BY <1>11, <3>1
    <3> HIDE DEF D
    <3>3. /\ SubSeq(all, at, 8) \in Seq(D)
          /\ Len(SubSeq(all, at, 8)) = IF at <= 8 THEN 8 - at + 1 ELSE 0
          /\ \A i \in 1 .. 8 - at + 1 : SubSeq(all, at, 8)[i] = all[at + i - 1]
      BY <3>1, <3>2, Sequence!SubSeqProperties
    <3> QED BY <3>1, <3>3, Zenon
  <2>2. s \in Seq(DECIMAL) /\ Len(s) = 2 /\ Reaches("value", 0, s, 2, n)
    BY <1>14 DEF TwoDigits
  <2>3. r[1] = s[1] /\ r[2] = s[2] /\ 2 \in 0 .. Len(r) /\ (2 < Len(r) => r[3] = separator)
    <3>1. 1 \in 1 .. 9 - at /\ 2 \in 1 .. 9 - at /\ at + 1 - 1 = at /\ at + 2 - 1 = at + 1 /\ at + 3 - 1 = at + 2
      OBVIOUS
    <3>2. r[1] = s[1] /\ r[2] = s[2]
      BY <1>14, <2>1, <3>1, Zenon
    <3>3. 2 \in 0 .. Len(r) /\ (2 < Len(r) => at # 7 /\ 3 \in 1 .. 9 - at)
      BY <2>1
    <3>4. 3 \in 1 .. 9 - at => r[3] = all[at + 2]
      BY <2>1, <3>1, Zenon
    <3> QED BY <1>14, <3>2, <3>3, <3>4
  <2> HIDE DEF r
  <2>4. \A i \in 1 .. 2 : i = 1 \/ i = 2
    OBVIOUS
  <2>5. \A i \in 1 .. 2 : s[i] = r[i] /\ r[i] \in DECIMAL
    <3>1. s[1] \in DECIMAL /\ s[2] \in DECIMAL
      BY <2>2
    <3> QED BY <2>3, <2>4, <3>1, Zenon
  <2>6. Reaches("value", 0, r, 2, n)
    <3>1. 2 \in Nat /\ \A i \in 1 .. 2 : s[i] = r[i]
      BY <2>5
    <3> QED BY <2>2, <3>1, ReachesSame
  <2>7. 2 < Len(r) => r[2 + 1] \notin DECIMAL
    BY <2>3, TenDigits, SMTT(30)
  <2>8. atoul(r) = n
    BY <2>1, <2>3, <2>5, <2>6, <2>7, DigitsReadBack
  <2> QED BY <2>8 DEF r
<1>15. 1 + 1 = 2 /\ 1 + 2 = 3 /\ 4 + 1 = 5 /\ 4 + 2 = 6 /\ 7 + 1 = 8
  OBVIOUS
<1>16. atoul(SubSeq(all, 1, 8)) = a /\ atoul(SubSeq(all, 4, 8)) = b /\ atoul(SubSeq(all, 7, 8)) = c
  BY <1>2, <1>8, <1>14, <1>15
<1> QED BY <1>1, <1>13, <1>16, Zenon DEF PartsReadBack

\* The hour that is shown has two digits.
LEMMA HourIs ==
  ASSUME NEW h \in Nat, h < 100
  PROVE  LocalHour(h) \in Nat /\ LocalHour(h) < 100 /\ LocalHour(h) = HourShown(h)
<1>1. h > 3 => h - 3 \in Nat
  OBVIOUS
<1>2. h \in (0 .. 23) \ (3 .. 5) => (h + 21) % 24 = IF h < 3 THEN h + 21 ELSE h - 3
  <2>1. CASE h < 3
    <3>1. h \in {0, 1, 2}
      BY <2>1
    <3> QED BY <3>1
  <2>2. CASE h \in 6 .. 23
    <3>1. h - 3 \in 0 .. 23 /\ h + 21 = 24 * 1 + (h - 3)
      BY <2>2
    <3> QED BY <2>2, <3>1
  <2> QED BY <2>1, <2>2
<1> QED BY <1>1, <1>2 DEF LocalHour, HourShown

\* What is typed in digits, none of them a 0 in front, is shown as it was.
LEMMA TypedReadBack ==
  ASSUME NEW s \in Seq(DECIMAL), s # <<>>, Head(s) # "0"
  PROVE  ultoa(atoul(s)) = s
<1> DEFINE n == Len(s)
           v == atoul(s)
<1>1. n \in Nat \ {0} /\ s[1] # "0" /\ \A i \in 1 .. n : s[i] \in DECIMAL
  OBVIOUS
<1>2. Reaches("value", 0, s, n, v)
  <2>1. n \in 0 .. Len(s) /\ ~(n < Len(s))
    BY <1>1
  <2> QED BY <1>1, <2>1, AtoulIs
<1> HIDE DEF v
<1>3. PICK q : /\ q[0] = 0
               /\ \A k \in 0 .. n - 1 : q[k + 1] = CharStep("value", q[k], s[k + 1])
               /\ v = q[n]
  BY <1>2 DEF Reaches
<1>4. \A k \in 0 .. n - 1 : q[k + 1] = q[k] * 10 + Value(s[k + 1]) /\ Value(s[k + 1]) \in 0 .. 9
  <2> SUFFICES ASSUME NEW k \in 0 .. n - 1
               PROVE  q[k + 1] = q[k] * 10 + Value(s[k + 1]) /\ Value(s[k + 1]) \in 0 .. 9
    OBVIOUS
  <2>1. s[k + 1] \in DECIMAL
    BY <1>1
  <2>2. Value(s[k + 1]) \in 0 .. 9
    BY <2>1, TenDigits
  <2>3. CharStep("value", q[k], s[k + 1]) = Valued(q[k], s[k + 1])
    BY DEF CharStep
  <2> QED BY <1>3, <2>2, <2>3 DEF Valued
<1>5. Value(s[1]) \in 1 .. 9
  <2>1. Value(s[1]) \in 0 .. 9 /\ DIGITS[Value(s[1]) + 1] = s[1] /\ DIGITS[1] = "0"
    BY <1>1, TenDigits
  <2>2. Value(s[1]) = 0 => DIGITS[Value(s[1]) + 1] = DIGITS[1]
    BY <2>1
  <2> QED BY <1>1, <2>1, <2>2
<1> DEFINE Grows == {k \in Nat : k < n => q[k + 1] \in Nat \ {0} /\ (k > 0 => q[k + 1] >= 10 /\ q[k] \in Nat /\ q[k] <= q[k + 1])}
<1>6. 0 \in Grows
  <2>1. 0 \in 0 .. n - 1
    BY <1>1
  <2>2. q[0 + 1] = 0 * 10 + Value(s[0 + 1]) /\ 0 + 1 = 1
    BY <1>3, <1>4, <2>1
  <2> QED BY <1>5, <2>2
<1>7. ASSUME NEW k \in Nat, k \in Grows PROVE k + 1 \in Grows
  <2> SUFFICES ASSUME k + 1 < n
               PROVE  q[(k + 1) + 1] \in Nat \ {0} /\ q[(k + 1) + 1] >= 10 /\ q[k + 1] \in Nat /\ q[k + 1] <= q[(k + 1) + 1]
    OBVIOUS
  <2>1. k + 1 \in 0 .. n - 1 /\ k < n
    BY <1>1
  <2>2. q[k + 1] \in Nat \ {0}
    BY <1>7, <2>1
  <2>3. q[(k + 1) + 1] = q[k + 1] * 10 + Value(s[(k + 1) + 1]) /\ Value(s[(k + 1) + 1]) \in 0 .. 9
    BY <1>4, <2>1
  <2>4. \A x \in Nat \ {0}, d \in 0 .. 9 : x * 10 + d \in Nat \ {0} /\ x * 10 + d >= 10 /\ x <= x * 10 + d
    OBVIOUS
  <2> QED BY <2>2, <2>3, <2>4
<1>8. Nat \subseteq Grows
  <2> HIDE DEF Grows
  <2> QED BY <1>6, <1>7, Induct
<1>9. \A k \in Nat : k < n => q[k + 1] \in Nat \ {0} /\ (k > 0 => q[k + 1] >= 10 /\ q[k] \in Nat /\ q[k] <= q[k + 1])
  BY <1>8
<1> DEFINE Below == {k \in Nat : k < n => q[n - k] \in Nat /\ q[n - k] <= v}
<1>10. 0 \in Below
  <2>1. n - 1 \in Nat /\ n - 1 < n /\ (n - 1) + 1 = n /\ n - 0 = n
    BY <1>1
  <2>2. q[n] \in Nat
    BY <1>9, <2>1
  <2> QED BY <1>3, <2>1, <2>2
<1>11. ASSUME NEW k \in Nat, k \in Below PROVE k + 1 \in Below
  <2> SUFFICES ASSUME k + 1 < n PROVE q[n - (k + 1)] \in Nat /\ q[n - (k + 1)] <= v
    OBVIOUS
  <2>1. n - (k + 1) \in Nat /\ n - (k + 1) < n /\ n - (k + 1) > 0 /\ (n - (k + 1)) + 1 = n - k /\ k < n
    BY <1>1
  <2>2. q[n - k] \in Nat /\ q[n - k] <= v
    BY <1>11, <2>1
  <2>3. q[n - (k + 1)] \in Nat /\ q[n - (k + 1)] <= q[n - k]
    BY <1>9, <2>1
  <2>4. v \in Nat
    <3>1. n - 1 \in Nat /\ n - 1 < n /\ (n - 1) + 1 = n
      BY <1>1
    <3> QED BY <1>3, <1>9, <3>1
  <2> QED BY <2>2, <2>3, <2>4
<1>12. Nat \subseteq Below
  <2> HIDE DEF Below
  <2> QED BY <1>10, <1>11, Induct
<1>13. v \in Nat /\ \A k \in 1 .. n : q[k] \in 0 .. v
  <2>1. n - 0 = n /\ 0 < n
    BY <1>1
  <2>2. v \in Nat
    BY <1>3, <1>12, <2>1
  <2>3. ASSUME NEW k \in 1 .. n PROVE q[k] \in 0 .. v
    <3>1. n - k \in Nat /\ n - k < n /\ n - (n - k) = k
      BY <1>1
    <3>2. q[k] \in Nat /\ q[k] <= v
      BY <1>12, <3>1
    <3> QED BY <2>2, <3>2
  <2> QED BY <2>2, <2>3
<1>14. PICK f : Tens(f, v) /\ ultoa(v) = f[v]
  BY <1>13, UltoaIs
<1> DEFINE Same == {k \in Nat : k < n => f[q[k + 1]] = SubSeq(s, 1, k + 1)}
<1>15. 0 \in Same
  <2>1. 0 \in 0 .. n - 1 /\ 1 \in 1 .. n
    BY <1>1
  <2>2. q[0 + 1] = Value(s[1])
    <3>1. q[0 + 1] = 0 * 10 + Value(s[0 + 1]) /\ 0 + 1 = 1
      BY <1>3, <1>4, <2>1
    <3> QED BY <1>5, <3>1
  <2>3. q[1] \in 0 .. v /\ q[1] = Value(s[1]) /\ q[1] < 10
    BY <1>5, <1>13, <2>1, <2>2
  <2>4. f[q[1]] = <<DIGITS[q[1] + 1]>>
    BY <1>13, <1>14, <2>3, TensSteps
  <2>5. DIGITS[q[1] + 1] = s[1]
    BY <1>1, <2>1, <2>3, TenDigits
  <2>6. SubSeq(s, 1, 1) = <<s[1]>>
    <3>1. SubSeq(s, 1, 1) = SubSeq(s, 1, 1 - 1) \o <<s[1]>>
      BY <2>1, Sequence!SubSeqRecursiveSecond
    <3>2. SubSeq(s, 1, 1 - 1) = <<>>
      BY Sequence!SubSeqEmpty
    <3>3. <<>> \o <<s[1]>> = <<s[1]>>
      <4>1. <<s[1]>> \in Seq(DECIMAL)
        BY <1>1, <2>1
      <4> QED BY <4>1, Sequence!ConcatEmptySeq
    <3> QED BY <3>1, <3>2, <3>3, Zenon
  <2> QED BY <2>4, <2>5, <2>6
<1>16. ASSUME NEW k \in Nat, k \in Same PROVE k + 1 \in Same
  <2> DEFINE m == k + 1
  <2> SUFFICES ASSUME m < n PROVE f[q[m + 1]] = SubSeq(s, 1, m + 1)
    OBVIOUS
  <2>1. m \in Nat /\ m > 0 /\ m \in 0 .. n - 1 /\ m + 1 \in 1 .. n /\ k < n /\ m \in 1 .. n
    BY <1>1
  <2>2. f[q[m]] = SubSeq(s, 1, m)
    BY <1>16, <2>1
  <2> HIDE DEF m
  <2> DEFINE d == Value(s[m + 1])
             w == q[m]
             u == q[m + 1]
  <2>3. u = w * 10 + d /\ d \in 0 .. 9 /\ u >= 10 /\ w \in Nat /\ u \in 0 .. v
    BY <1>4, <1>9, <1>13, <2>1
  <2>4. DIGITS[d + 1] = s[m + 1]
    BY <1>1, <2>1, TenDigits
  <2> HIDE DEF d, w, u
  <2>5. u \div 10 = w /\ u % 10 = d
    <3>1. u \div 10 \in Nat /\ u % 10 \in 0 .. 9 /\ u = (u \div 10) * 10 + (u % 10)
      BY <1>13, <2>3, TensAre, SMTT(30)
    <3>2. \A a, b \in Nat, x, y \in 0 .. 9 : a * 10 + x = b * 10 + y => a = b /\ x = y
      OBVIOUS
    <3> QED BY <2>3, <3>1, <3>2
  <2>6. f[u] = Append(f[u \div 10], DIGITS[(u % 10) + 1])
    BY <1>13, <1>14, <2>3, TensSteps, ZenonT(60)
  <2>7. f[u] = Append(f[w], DIGITS[d + 1])
    BY <2>5, <2>6, Zenon
  <2>8. f[u] = Append(SubSeq(s, 1, m), s[m + 1])
    BY <2>2, <2>4, <2>7, Zenon DEF w
  <2>9. SubSeq(s, 1, m + 1) = Append(SubSeq(s, 1, m), s[m + 1])
    BY <1>1, <2>1, Sequence!SubSeqRecursiveSecond
  <2> QED BY <2>8, <2>9 DEF u
<1>17. Nat \subseteq Same
  <2> HIDE DEF Same
  <2> QED BY <1>15, <1>16, Induct
<1>18. f[v] = s
  <2>1. n - 1 \in Nat /\ n - 1 < n /\ (n - 1) + 1 = n
    BY <1>1
  <2>2. f[q[n]] = SubSeq(s, 1, n)
    BY <1>17, <2>1
  <2>3. SubSeq(s, 1, n) = s
    BY <1>1
  <2> QED BY <1>3, <2>2, <2>3
<1> QED BY <1>14, <1>18 DEF v

\* All that is shown reads back, whatever was typed.
LEMMA AllReadBack ==
  ASSUME NEW D, line \in Seq(D)
  PROVE  NumbersReadBack
<1>1. \A n \in Numbers : n \in Nat
  BY NumbersAssumption
<1>2. ASSUME NEW n \in Numbers
      PROVE  /\ atoul(Formatted("d", n)) = n /\ atoul(ultoa(n)) = n /\ atoul(itoa(n)) = n
             /\ Len(ultoa(n)) > 1 => Head(ultoa(n)) # "0"
  BY <1>1, UltoaReadBack, ItoaIs
<1>3. ASSUME NEW a \in {n \in Numbers : n < 100}, NEW b \in {n \in Numbers : n < 100}, NEW c \in {n \in Numbers : n < 100}
      PROVE  /\ PartsReadBack(getTimeFormat(a, b, c), HourShown(a), b, c)
             /\ PartsReadBack(getDateFormat(a, b, c), a, b, c)
  <2>1. a \in Nat /\ b \in Nat /\ c \in Nat /\ a < 100 /\ b < 100 /\ c < 100
    BY <1>1
  <2>2. LocalHour(a) \in Nat /\ LocalHour(a) < 100 /\ LocalHour(a) = HourShown(a)
    BY <2>1, HourIs
  <2>3. PartsReadBack(Parts(LocalHour(a), b, c, ":"), LocalHour(a), b, c)
    BY <2>1, <2>2, PartsAre
  <2>4. PartsReadBack(Parts(a, b, c, "/"), a, b, c)
    BY <2>1, PartsAre
  <2> QED BY <2>2, <2>3, <2>4, Zenon DEF getTimeFormat, getDateFormat
<1>4. ShownReadBack
  BY <1>2, <1>3, Zenon DEF ShownReadBack
<1>5. ASSUME line # <<>>, Head(line) # "0", ToSet(line) \subseteq DECIMAL PROVE ultoa(atoul(line)) = line
  <2>1. \A i \in 1 .. Len(line) : line[i] \in DECIMAL
    BY <1>5 DEF ToSet
  <2>2. line \in Seq(DECIMAL)
    BY <2>1
  <2> QED BY <1>5, <2>2, TypedReadBack
<1> QED BY <1>4, <1>5, Zenon DEF NumbersReadBack

-----------------------------------------------------------------------------
(* The programs that read from the keyboard.                               *)

\* The parts of a sequence of sequences, one after the other.
Flat(f, ss) == f = [i \in 1 .. Len(ss) |-> IF i = 1 THEN ss[i] ELSE f[i - 1] \o ss[i]]

\* There is such a function.
LEMMA FlatExists ==
  ASSUME NEW ss, Len(ss) \in Nat
  PROVE  \E f : Flat(f, ss)
<1> DEFINE Upto(f, n) == f = [i \in 1 .. n |-> IF i = 1 THEN ss[i] ELSE f[i - 1] \o ss[i]]
           S == {m \in Nat : \E f : Upto(f, m)}
<1>1. 0 \in S
  <2> DEFINE g == [i \in 1 .. 0 |-> ss[i]]
             h == [i \in 1 .. 0 |-> IF i = 1 THEN ss[i] ELSE g[i - 1] \o ss[i]]
  <2>1. \A i \in 1 .. 0 : FALSE
    OBVIOUS
  <2>2. g = h
    BY <2>1, Zenon
  <2>3. Upto(g, 0)
    BY <2>2, Zenon
  <2> QED BY <2>3
<1>2. ASSUME NEW m \in Nat, m \in S PROVE m + 1 \in S
  <2>1. PICK f : Upto(f, m)
    BY <1>2
  <2> DEFINE g == [i \in 1 .. m + 1 |-> IF i = m + 1 THEN (IF i = 1 THEN ss[i] ELSE f[i - 1] \o ss[i]) ELSE f[i]]
             h == [i \in 1 .. m + 1 |-> IF i = 1 THEN ss[i] ELSE g[i - 1] \o ss[i]]
  <2>2. ASSUME NEW i \in 1 .. m + 1 PROVE g[i] = h[i]
    <3>1. i # 1 => i - 1 \in 1 .. m + 1 /\ i - 1 # m + 1
      OBVIOUS
    <3>2. i # m + 1 => i \in 1 .. m
      OBVIOUS
    <3>3. i # m + 1 => f[i] = IF i = 1 THEN ss[i] ELSE f[i - 1] \o ss[i]
      BY <2>1, <3>2, Zenon
    <3>4. i # 1 => g[i - 1] = f[i - 1]
      BY <3>1, Zenon
    <3> QED BY <3>3, <3>4, Zenon
  <2>3. g = h
    BY <2>2, Zenon
  <2>4. Upto(g, m + 1)
    BY <2>3, Zenon
  <2>5. \E x : Upto(x, m + 1)
    BY <2>4, Zenon
  <2>6. m + 1 \in Nat
    OBVIOUS
  <2> HIDE DEF Upto
  <2> QED BY <2>5, <2>6
<1>3. Len(ss) \in S
  <2> HIDE DEF S
  <2> QED BY <1>1, <1>2, Induct
<1>4. PICK f : Upto(f, Len(ss))
  BY <1>3
<1> QED BY <1>4, Zenon DEF Flat

\* They are joined one at a time.
LEMMA FlattenReached ==
  ASSUME NEW V, NEW ss \in Seq(Seq(V)), ss # <<>>
  PROVE  Reaches("join", <<>>, ss, Len(ss), FlattenSeq(ss))
<1> DEFINE n == Len(ss)
           g == CHOOSE f : Flat(f, ss)
           q == [i \in 0 .. n |-> IF i = 0 THEN <<>> ELSE g[i]]
<1>1. n \in Nat \ {0} /\ ss[1] \in Seq(V)
  OBVIOUS
<1>2. Flat(g, ss)
  BY <1>1, FlatExists
<1>3. FlattenSeq(ss) = g[n]
  <2>1. n # 0
    BY <1>1
  <2> QED BY <2>1, Zenon DEF FlattenSeq, Flat
<1> HIDE DEF g
<1>4. \A i \in 1 .. n : g[i] = IF i = 1 THEN ss[i] ELSE g[i - 1] \o ss[i]
  BY <1>2, Zenon DEF Flat
<1>5. \A a, b : CharStep("join", a, b) = a \o b
  BY DEF CharStep
<1>6. q[0] = <<>> /\ \A i \in 1 .. n : q[i] = g[i]
  BY <1>1
<1> HIDE DEF q, n
<1>7. ASSUME NEW k \in 0 .. n - 1 PROVE q[k + 1] = CharStep("join", q[k], ss[k + 1])
  <2>1. CASE k = 0
    <3>1. k + 1 = 1 /\ 1 \in 1 .. n
      BY <1>1, <2>1
    <3>2. q[1] = ss[1]
      BY <1>4, <1>6, <3>1, Zenon
    <3>3. <<>> \o ss[1] = ss[1]
      BY <1>1, Sequence!ConcatEmptySeq
    <3> QED BY <1>5, <1>6, <2>1, <3>1, <3>2, <3>3, Zenon
  <2>2. CASE k # 0
    <3>1. k + 1 \in 1 .. n /\ k \in 1 .. n /\ k + 1 # 1 /\ (k + 1) - 1 = k
      BY <1>1, <2>2
    <3>2. g[k + 1] = g[k] \o ss[k + 1]
      BY <1>4, <3>1, Zenon
    <3> QED BY <1>5, <1>6, <3>1, <3>2, Zenon
  <2> QED BY <2>1, <2>2
<1>8. FlattenSeq(ss) = q[n]
  <2>1. n \in 1 .. n
    BY <1>1
  <2> QED BY <1>3, <1>6, <2>1
<1> QED BY <1>6, <1>7, <1>8, Zenon DEF Reaches, n

\* What is joined from sequences is one.
LEMMA JoinedType ==
  ASSUME NEW V, NEW ss \in Seq(Seq(V)), NEW n \in 0 .. Len(ss), NEW u, Reaches("join", <<>>, ss, n, u)
  PROVE  u \in Seq(V)
<1>1. PICK q : q[0] = <<>> /\ (\A k \in 0 .. n - 1 : q[k + 1] = CharStep("join", q[k], ss[k + 1])) /\ u = q[n]
  BY DEF Reaches
<1>2. \A a, b : CharStep("join", a, b) = a \o b
  BY DEF CharStep
<1> DEFINE S == {k \in Nat : k <= n => q[k] \in Seq(V)}
<1>6. n \in Nat /\ Len(ss) \in Nat
  OBVIOUS
<1>3. 0 \in S
  <2>1. <<>> \in Seq(V)
    OBVIOUS
  <2> QED BY <1>1, <2>1
<1>4. ASSUME NEW k \in Nat, k \in S PROVE k + 1 \in S
  <2> SUFFICES ASSUME k + 1 <= n PROVE q[k + 1] \in Seq(V)
    OBVIOUS
  <2>1. k \in 0 .. n - 1 /\ q[k] \in Seq(V) /\ ss[k + 1] \in Seq(V)
    BY <1>4
  <2>2. q[k + 1] = q[k] \o ss[k + 1]
    BY <1>1, <1>2, <2>1
  <2> QED BY <2>1, <2>2
<1>5. n \in S
  <2> HIDE DEF S
  <2> QED BY <1>3, <1>4, <1>6, Induct
<1> QED BY <1>1, <1>5

\* What cat says of lines, with what was typed in between.
Twice(line0) == line0 \o <<NEWLINE>> \o line0 \o <<NEWLINE>>

Twiced(lines) == [k \in DOMAIN lines |-> IF k = Len(lines) THEN lines[k] ELSE Twice(lines[k])]

Said(lines) == FlattenSeq(Twiced(lines))

\* All but the last line twice, and the last once.
LEMMA SaidIs ==
  ASSUME NEW V, NEWLINE \in V, NEW lines \in Seq(Seq(V)), lines # <<>>
  PROVE  /\ Twiced(lines) \in Seq(Seq(V)) /\ Len(Twiced(lines)) = Len(lines)
         /\ \A k \in 1 .. Len(lines) - 1 : Twiced(lines)[k] = Twice(lines[k])
         /\ \E u \in Seq(V) : /\ Reaches("join", <<>>, Twiced(lines), Len(lines) - 1, u)
                              /\ Said(lines) = u \o lines[Len(lines)]
<1> DEFINE n == Len(lines)
           ss == Twiced(lines)
<1>1. n \in Nat \ {0} /\ DOMAIN lines = 1 .. n /\ \A k \in 1 .. n : lines[k] \in Seq(V)
  OBVIOUS
<1>2. \A x \in Seq(V) : Twice(x) \in Seq(V)
  BY DEF Twice
<1>3. ss = [k \in 1 .. n |-> IF k = n THEN lines[k] ELSE Twice(lines[k])]
  BY <1>1, Zenon DEF Twiced
<1> HIDE DEF n, ss
<1>13. DOMAIN ss = 1 .. n /\ \A k \in 1 .. n : ss[k] = IF k = n THEN lines[k] ELSE Twice(lines[k])
  BY <1>3, Zenon
<1>14. \A k \in 1 .. n : ss[k] \in Seq(V)
  BY <1>1, <1>2, <1>13, Zenon
<1>4. ss \in Seq(Seq(V)) /\ Len(ss) = n
  <2>1. ss = [k \in 1 .. n |-> ss[k]]
    BY <1>3, Zenon
  <2>2. ss \in [1 .. n -> Seq(V)]
    BY <1>14, <2>1, Zenon
  <2>3. ss \in Seq(Seq(V))
    BY <1>1, <2>2, Sequence!SeqDef
  <2>4. Len(ss) \in Nat /\ DOMAIN ss = 1 .. Len(ss)
    BY <2>3, Sequence!LenProperties
  <2> QED BY <1>1, <1>13, <2>3, <2>4
<1>5. \A k \in 1 .. n - 1 : ss[k] = Twice(lines[k])
  BY <1>1, <1>13
<1>6. ss[n] = lines[n]
  BY <1>1, <1>13
<1>7. Reaches("join", <<>>, ss, n, Said(lines))
  <2>1. ss # <<>>
    BY <1>1, <1>4
  <2>2. Said(lines) = FlattenSeq(ss)
    BY DEF Said, ss
  <2> QED BY <1>4, <2>1, <2>2, FlattenReached
<1>8. PICK q : q[0] = <<>> /\ (\A k \in 0 .. n - 1 : q[k + 1] = CharStep("join", q[k], ss[k + 1])) /\ Said(lines) = q[n]
  BY <1>7 DEF Reaches
<1>9. Reaches("join", <<>>, ss, n - 1, q[n - 1])
  <2>1. \A k \in 0 .. (n - 1) - 1 : k \in 0 .. n - 1
    BY <1>1
  <2>2. \A k \in 0 .. (n - 1) - 1 : q[k + 1] = CharStep("join", q[k], ss[k + 1])
    BY <1>8, <2>1
  <2> QED BY <1>8, <2>2, Zenon DEF Reaches
<1>10. q[n - 1] \in Seq(V)
  <2>1. n - 1 \in 0 .. Len(ss)
    BY <1>1, <1>4
  <2> QED BY <1>4, <1>9, <2>1, JoinedType
<1>11. Said(lines) = q[n - 1] \o lines[n]
  <2>1. n - 1 \in 0 .. n - 1 /\ (n - 1) + 1 = n
    BY <1>1
  <2>2. q[n] = CharStep("join", q[n - 1], ss[n])
    BY <1>8, <2>1
  <2>3. CharStep("join", q[n - 1], ss[n]) = q[n - 1] \o ss[n]
    BY DEF CharStep
  <2> QED BY <1>6, <1>8, <2>2, <2>3, Zenon
<1>12. /\ ss \in Seq(Seq(V)) /\ Len(ss) = n /\ (\A k \in 1 .. n - 1 : ss[k] = Twice(lines[k]))
       /\ \E u \in Seq(V) : Reaches("join", <<>>, ss, n - 1, u) /\ Said(lines) = u \o lines[n]
  BY <1>4, <1>5, <1>9, <1>10, <1>11, Zenon
<1> QED BY <1>12, Zenon DEF ss, n

\* A fold goes on.
LEMMA ReachesStep ==
  ASSUME NEW kind, NEW base, NEW s, NEW n \in Nat, NEW v, Reaches(kind, base, s, n, v)
  PROVE  Reaches(kind, base, s, n + 1, CharStep(kind, v, s[n + 1]))
<1>1. PICK q : q[0] = base /\ (\A k \in 0 .. n - 1 : q[k + 1] = CharStep(kind, q[k], s[k + 1])) /\ v = q[n]
  BY DEF Reaches
<1> DEFINE r == [k \in 0 .. n + 1 |-> IF k = n + 1 THEN CharStep(kind, v, s[n + 1]) ELSE q[k]]
<1>2. r[0] = base /\ r[n + 1] = CharStep(kind, v, s[n + 1]) /\ \A k \in 0 .. n : r[k] = q[k]
  BY <1>1
<1> HIDE DEF r
<1>3. ASSUME NEW k \in 0 .. (n + 1) - 1 PROVE r[k + 1] = CharStep(kind, r[k], s[k + 1])
  <2>1. CASE k = n
    <3>1. n \in 0 .. n
      OBVIOUS
    <3>2. r[n] = v
      BY <1>1, <1>2, <3>1, Zenon
    <3> QED BY <1>2, <2>1, <3>2, Zenon
  <2>2. CASE k # n
    <3>1. k \in 0 .. n - 1 /\ k + 1 \in 0 .. n /\ k \in 0 .. n
      BY <2>2
    <3> QED BY <1>1, <1>2, <3>1, Zenon
  <2> QED BY <2>1, <2>2
<1> QED BY <1>2, <1>3, Zenon DEF Reaches

\* A character more of the last line.
LEMMA SaidKey ==
  ASSUME NEW V, NEWLINE \in V, NEW lines \in Seq(Seq(V)), lines # <<>>, NEW c \in V, c # ENTER
  PROVE  /\ WithKey(lines, c) \in Seq(Seq(V)) /\ Len(WithKey(lines, c)) = Len(lines)
         /\ \A k \in 1 .. Len(lines) - 1 : WithKey(lines, c)[k] = lines[k]
         /\ WithKey(lines, c)[Len(lines)] = Append(lines[Len(lines)], c)
         /\ Said(WithKey(lines, c)) = Append(Said(lines), c)
<1> DEFINE n == Len(lines)
           new == WithKey(lines, c)
           last == Append(lines[n], c)
<1>1. n \in Nat \ {0} /\ n \in 1 .. n /\ lines[n] \in Seq(V)
  OBVIOUS
<1>2. new = [lines EXCEPT ![n] = last]
  BY DEF WithKey
<1>3. last \in Seq(V)
  BY <1>1
<1> HIDE DEF last, new
<1>4. /\ new \in Seq(Seq(V)) /\ Len(new) = n /\ new # <<>> /\ new[n] = last
      /\ \A k \in 1 .. n - 1 : new[k] = lines[k]
  BY <1>1, <1>2, <1>3
<1>5. /\ \A k \in 1 .. n - 1 : Twiced(lines)[k] = Twice(lines[k])
      /\ \E u \in Seq(V) : Reaches("join", <<>>, Twiced(lines), n - 1, u) /\ Said(lines) = u \o lines[n]
  BY SaidIs
<1>6. /\ \A k \in 1 .. n - 1 : Twiced(new)[k] = Twice(new[k])
      /\ \E u \in Seq(V) : Reaches("join", <<>>, Twiced(new), n - 1, u) /\ Said(new) = u \o new[n]
  BY <1>4, SaidIs, ZenonT(60)
<1>7. PICK u \in Seq(V) : Reaches("join", <<>>, Twiced(lines), n - 1, u) /\ Said(lines) = u \o lines[n]
  BY <1>5
<1>8. PICK w \in Seq(V) : Reaches("join", <<>>, Twiced(new), n - 1, w) /\ Said(new) = w \o new[n]
  BY <1>6
<1>9. u = w
  <2>1. n - 1 \in Nat /\ \A k \in 1 .. n - 1 : Twiced(lines)[k] = Twiced(new)[k]
    BY <1>1, <1>4, <1>5, <1>6
  <2> HIDE DEF n
  <2> QED BY <1>7, <1>8, <2>1, ReachesOne
<1>10. u \o last = Append(u \o lines[n], c)
  <2>1. last = lines[n] \o <<c>> /\ <<c>> \in Seq(V) /\ u \o lines[n] \in Seq(V)
    BY <1>1 DEF last
  <2>2. u \o (lines[n] \o <<c>>) = (u \o lines[n]) \o <<c>>
    <3>1. \A x, y, z \in Seq(V) : (x \o y) \o z = x \o (y \o z)
      BY SMTT(30)
    <3> QED BY <1>1, <2>1, <3>1, Zenon
  <2>3. Append(u \o lines[n], c) = (u \o lines[n]) \o <<c>>
    BY <2>1, Sequence!AppendIsConcat
  <2> QED BY <2>1, <2>2, <2>3, Zenon
<1>11. Said(new) = Append(Said(lines), c)
  BY <1>4, <1>7, <1>8, <1>9, <1>10, Zenon
<1>12. /\ new \in Seq(Seq(V)) /\ Len(new) = n /\ (\A k \in 1 .. n - 1 : new[k] = lines[k])
       /\ new[n] = last /\ Said(new) = Append(Said(lines), c)
  BY <1>4, <1>11, Zenon
<1> QED BY <1>12, Zenon DEF new, last, n

\* Three texts are put together in either order.
LEMMA Associative ==
  ASSUME NEW V
  PROVE  \A x, y, z \in Seq(V) : x \o (y \o z) = (x \o y) \o z
OBVIOUS

\* What a line adds that is said once more, piece by piece.
LEMMA SaidTwice ==
  ASSUME NEW V, NEW n \in Seq(V), NEW u \in Seq(V), NEW line0 \in Seq(V)
  PROVE  u \o (((line0 \o n) \o line0) \o n) = (((u \o line0) \o n) \o line0) \o n
<1>1. line0 \o n \in Seq(V) /\ (line0 \o n) \o line0 \in Seq(V)
  OBVIOUS
<1>2. \A m \in Seq(V) : u \o (m \o n) = (u \o m) \o n
  BY Associative, SMTT(30)
<1>3. \A m \in Seq(V) : u \o (m \o line0) = (u \o m) \o line0
  BY Associative, SMTT(30)
<1>4. u \o (((line0 \o n) \o line0) \o n) = (u \o ((line0 \o n) \o line0)) \o n
  BY <1>1, <1>2, Zenon
<1>5. u \o ((line0 \o n) \o line0) = (u \o (line0 \o n)) \o line0
  BY <1>1, <1>3, Zenon
<1>6. u \o (line0 \o n) = (u \o line0) \o n
  BY <1>2, Zenon
<1> QED BY <1>4, <1>5, <1>6, Zenon

\* The end of the last line: it is said once more.
LEMMA SaidEnter ==
  ASSUME NEW V, NEWLINE \in V, NEW lines \in Seq(Seq(V)), lines # <<>>
  PROVE  /\ WithKey(lines, ENTER) \in Seq(Seq(V)) /\ Len(WithKey(lines, ENTER)) = Len(lines) + 1
         /\ \A k \in 1 .. Len(lines) : WithKey(lines, ENTER)[k] = lines[k]
         /\ WithKey(lines, ENTER)[Len(lines) + 1] = <<>>
         /\ Said(WithKey(lines, ENTER)) = Said(lines) \o <<NEWLINE>> \o lines[Len(lines)] \o <<NEWLINE>>
<1> DEFINE n == Len(lines)
           new == WithKey(lines, ENTER)
           last == lines[n]
<1>1. n \in Nat \ {0} /\ n \in 1 .. n /\ last \in Seq(V)
  OBVIOUS
<1>2. new = Append(lines, <<>>)
  BY DEF WithKey
<1> HIDE DEF new
<1>4. /\ new \in Seq(Seq(V)) /\ Len(new) = n + 1 /\ new # <<>> /\ new[n + 1] = <<>>
      /\ \A k \in 1 .. n : new[k] = lines[k]
  <2>1. <<>> \in Seq(V)
    OBVIOUS
  <2> QED BY <1>2, <2>1, Sequence!AppendProperties
<1>5. /\ \A k \in 1 .. n - 1 : Twiced(lines)[k] = Twice(lines[k])
      /\ \E u \in Seq(V) : Reaches("join", <<>>, Twiced(lines), n - 1, u) /\ Said(lines) = u \o last
  BY SaidIs
<1>6. /\ \A k \in 1 .. (n + 1) - 1 : Twiced(new)[k] = Twice(new[k])
      /\ \E u \in Seq(V) : Reaches("join", <<>>, Twiced(new), (n + 1) - 1, u) /\ Said(new) = u \o new[n + 1]
  BY <1>4, SaidIs
<1>7. PICK u \in Seq(V) : Reaches("join", <<>>, Twiced(lines), n - 1, u) /\ Said(lines) = u \o last
  BY <1>5
<1>8. PICK w \in Seq(V) : Reaches("join", <<>>, Twiced(new), (n + 1) - 1, w) /\ Said(new) = w \o new[n + 1]
  BY <1>6
<1> HIDE DEF n
<1>13. (n + 1) - 1 = n /\ (n - 1) + 1 = n /\ n - 1 \in Nat /\ n \in Nat /\ \A k \in 1 .. n - 1 : k \in 1 .. n
  BY <1>1
<1>9. w = u \o Twice(last)
  <2>1. \A k \in 1 .. n - 1 : Twiced(lines)[k] = Twiced(new)[k]
    BY <1>4, <1>5, <1>6, <1>13
  <2>2. Reaches("join", <<>>, Twiced(new), n - 1, u)
    BY <1>7, <1>13, <2>1, ReachesSame
  <2>3. Reaches("join", <<>>, Twiced(new), (n - 1) + 1, CharStep("join", u, Twiced(new)[(n - 1) + 1]))
    BY <1>13, <2>2, ReachesStep
  <2>4. Reaches("join", <<>>, Twiced(new), n, CharStep("join", u, Twiced(new)[n]))
    BY <1>13, <2>3
  <2>5. Reaches("join", <<>>, Twiced(new), n, w)
    BY <1>8, <1>13
  <2>6. w = CharStep("join", u, Twiced(new)[n])
    <3>1. \A k \in 1 .. n : Twiced(new)[k] = Twiced(new)[k]
      OBVIOUS
    <3> QED BY <1>13, <2>4, <2>5, <3>1, ReachesOne
  <2>7. Twiced(new)[n] = Twice(last)
    BY <1>1, <1>4, <1>6, <1>13
  <2>8. \A x : CharStep("join", u, x) = u \o x
    BY DEF CharStep
  <2> QED BY <2>6, <2>7, <2>8, Zenon
<1> HIDE DEF last
<1>10. u \o Twice(last) = (u \o last) \o <<NEWLINE>> \o last \o <<NEWLINE>>
  <2>1. <<NEWLINE>> \in Seq(V) /\ last \in Seq(V) /\ u \in Seq(V)
    BY <1>1
  <2>2. Twice(last) = ((last \o <<NEWLINE>>) \o last) \o <<NEWLINE>>
    BY Zenon DEF Twice
  <2>3. u \o (((last \o <<NEWLINE>>) \o last) \o <<NEWLINE>>) = (((u \o last) \o <<NEWLINE>>) \o last) \o <<NEWLINE>>
    BY <2>1, SaidTwice
  <2> QED BY <2>2, <2>3, Zenon
<1>11. Said(new) = w
  <2>1. w \o <<>> = w
    BY <1>8, Sequence!ConcatEmptySeq
  <2> QED BY <1>4, <1>8, <2>1, Zenon
<1>14. Said(new) = Said(lines) \o <<NEWLINE>> \o last \o <<NEWLINE>>
  BY <1>7, <1>9, <1>10, <1>11, Zenon
<1>12. /\ new \in Seq(Seq(V)) /\ Len(new) = n + 1 /\ (\A k \in 1 .. n : new[k] = lines[k])
       /\ new[n + 1] = <<>> /\ Said(new) = Said(lines) \o <<NEWLINE>> \o last \o <<NEWLINE>>
  BY <1>4, <1>14, Zenon
<1> QED BY <1>12, Zenon DEF new, last, n

\* What the programs keep: a buffer of what was typed or was there before, and
\* what they have printed.
Stored(C) == C \cup {NUL, "garbage"}

States(C) == [buff : [0 .. BUFF_MAX - 1 -> Stored(C)], i : Nat, out : Seq(C)]

\* A line is in the buffer, up to where the next character goes.
Holds(s, line0) == s.i = Len(line0) /\ \A k \in 1 .. Len(line0) : s.buff[k - 1] = line0[k]

\* Nothing is in it at first.
LEMMA FreshIs ==
  ASSUME NEW C, NEW g \in {NUL, "garbage"}
  PROVE  /\ Fresh(g) \in States(C) /\ Holds(Fresh(g), <<>>) /\ Fresh(g).out = <<>>
         /\ \A j \in 0 .. BUFF_MAX - 1 : Fresh(g).buff[j] = g
<1> DEFINE b == [k \in 0 .. BUFF_MAX - 1 |-> g]
<1>1. b \in [0 .. BUFF_MAX - 1 -> Stored(C)] /\ \A j \in 0 .. BUFF_MAX - 1 : b[j] = g
  BY DEF Stored
<1>2. Fresh(g) = [buff |-> b, i |-> 0, out |-> <<>>]
  BY DEF Fresh
<1> HIDE DEF b
<1>3. Fresh(g).buff = b /\ Fresh(g).i = 0 /\ Fresh(g).out = <<>>
  BY <1>2
<1>4. Fresh(g) \in States(C)
  BY <1>1, <1>2 DEF States
<1>5. Len(<<>>) = 0 /\ \A k \in 1 .. 0 : FALSE
  OBVIOUS
<1>6. Holds(Fresh(g), <<>>)
  BY <1>3, <1>5, Zenon DEF Holds
<1> QED BY <1>1, <1>3, <1>4, <1>6, Zenon

\* A character goes behind it.
LEMMA EchoedIs ==
  ASSUME NEW C, NEW s \in States(C), NEW c \in C, s.i < BUFF_MAX
  PROVE  /\ Echoed(s, c) \in States(C) /\ Echoed(s, c).out = Append(s.out, c) /\ Echoed(s, c).i = s.i + 1
         /\ \A j \in 0 .. BUFF_MAX - 1 : Echoed(s, c).buff[j] = IF j = s.i THEN c ELSE s.buff[j]
<1> DEFINE t == Echoed(s, c)
           b == [s.buff EXCEPT ![s.i] = c]
           o == Append(s.out, c)
           n == s.i + 1
<1>1. BUFF_MAX \in Nat /\ s \in [buff : [0 .. BUFF_MAX - 1 -> Stored(C)], i : Nat, out : Seq(C)]
  BY BufferAssumption DEF States
<1>2. /\ s.i \in 0 .. BUFF_MAX - 1 /\ c \in Stored(C) /\ n \in Nat /\ o \in Seq(C)
      /\ s.buff \in [0 .. BUFF_MAX - 1 -> Stored(C)]
  BY <1>1 DEF Stored
<1>3. b \in [0 .. BUFF_MAX - 1 -> Stored(C)] /\ \A j \in 0 .. BUFF_MAX - 1 : b[j] = IF j = s.i THEN c ELSE s.buff[j]
  BY <1>2
<1>4. t = [s EXCEPT !.out = o, !.buff = b, !.i = n]
  BY Zenon DEF Echoed
<1> HIDE DEF t, b, o, n
<1>5. t.buff = b /\ t.i = n /\ t.out = o
  BY <1>1, <1>4
<1>6. t \in States(C)
  BY <1>1, <1>2, <1>3, <1>4 DEF States
<1> QED BY <1>3, <1>5, <1>6, Zenon DEF t, o, n

\* It is part of the line.
LEMMA EchoHolds ==
  ASSUME NEW C, NEW s \in States(C), NEW c \in C, NEW l \in Seq(C), Holds(s, l), Len(l) < BUFF_MAX
  PROVE  Holds(Echoed(s, c), Append(l, c))
<1> DEFINE t == Echoed(s, c)
           m == Append(l, c)
<1>1. s.i = Len(l) /\ (\A k \in 1 .. Len(l) : s.buff[k - 1] = l[k]) /\ Len(l) \in Nat /\ BUFF_MAX \in Nat
  BY BufferAssumption DEF Holds
<1>6. s.i < BUFF_MAX
  BY <1>1
<1>2. t.i = s.i + 1 /\ \A j \in 0 .. BUFF_MAX - 1 : t.buff[j] = IF j = s.i THEN c ELSE s.buff[j]
  BY <1>6, EchoedIs
<1>3. Len(m) = Len(l) + 1 /\ m[Len(l) + 1] = c /\ \A k \in 1 .. Len(l) : m[k] = l[k]
  BY Sequence!AppendProperties
<1> HIDE DEF t, m
<1>4. ASSUME NEW k \in 1 .. Len(m) PROVE t.buff[k - 1] = m[k]
  <2>1. k - 1 \in 0 .. BUFF_MAX - 1 /\ (k = Len(l) + 1 <=> k - 1 = Len(l)) /\ (k # Len(l) + 1 => k \in 1 .. Len(l))
    BY <1>1, <1>3
  <2> QED BY <1>1, <1>2, <1>3, <2>1, Zenon
<1>5. Holds(t, m)
  BY <1>1, <1>2, <1>3, <1>4 DEF Holds
<1> QED BY <1>5 DEF t, m

\* The first NUL ends a string.
LEMMA StringIs ==
  ASSUME NEW C, NUL \notin C, NEW b \in [0 .. BUFF_MAX - 1 -> Stored(C)], NEW l \in Seq(C), Len(l) < BUFF_MAX,
         \A k \in 1 .. Len(l) : b[k - 1] = l[k], b[Len(l)] = NUL
  PROVE  String(b) = l
<1> DEFINE n == Len(l)
           First(k) == b[k] = NUL /\ \A j \in 0 .. k - 1 : b[j] # NUL
           length == CHOOSE k \in DOMAIN b : First(k)
<1>1. n \in Nat /\ DOMAIN b = 0 .. BUFF_MAX - 1 /\ n \in 0 .. BUFF_MAX - 1
  BY BufferAssumption
<1>2. \A j \in 0 .. n - 1 : b[j] # NUL
  <2> SUFFICES ASSUME NEW j \in 0 .. n - 1 PROVE b[j] # NUL
    OBVIOUS
  <2>1. j + 1 \in 1 .. n /\ (j + 1) - 1 = j
    BY <1>1
  <2>2. b[j] = l[j + 1] /\ l[j + 1] \in C
    BY <2>1
  <2> QED BY <2>2
<1>3. First(n)
  BY <1>2
<1>4. ASSUME NEW k \in 0 .. BUFF_MAX - 1, First(k) PROVE k = n
  <2>1. ~(k < n)
    <3>1. k < n => k \in 0 .. n - 1
      BY <1>1
    <3> QED BY <1>2, <1>4, <3>1
  <2>2. ~(n < k)
    <3>1. n < k => n \in 0 .. k - 1
      BY <1>1
    <3> QED BY <1>4, <3>1
  <2> QED BY <1>1, <2>1, <2>2
<1>5. length = n
  <2> HIDE DEF First
  <2> QED BY <1>1, <1>3, <1>4
<1>6. String(b) = [k \in 1 .. length |-> b[k - 1]]
  BY Zenon DEF String
<1> HIDE DEF length
<1>7. String(b) = [k \in 1 .. n |-> l[k]]
  BY <1>5, <1>6
<1> QED BY <1>7

\* The end of the line makes it a string, and goes back.
LEMMA EndedIs ==
  ASSUME NEW C, NEW s \in States(C), s.i < BUFF_MAX
  PROVE  /\ LineEnded(s) \in States(C) /\ LineEnded(s).out = s.out /\ LineEnded(s).i = 0
         /\ \A j \in 0 .. BUFF_MAX - 1 : LineEnded(s).buff[j] = IF j = s.i THEN NUL ELSE s.buff[j]
<1> DEFINE t == LineEnded(s)
           b == [s.buff EXCEPT ![s.i] = NUL]
<1>1. BUFF_MAX \in Nat /\ s \in [buff : [0 .. BUFF_MAX - 1 -> Stored(C)], i : Nat, out : Seq(C)]
  BY BufferAssumption DEF States
<1>2. /\ s.i \in 0 .. BUFF_MAX - 1 /\ NUL \in Stored(C) /\ s.buff \in [0 .. BUFF_MAX - 1 -> Stored(C)]
  BY <1>1 DEF Stored
<1>3. b \in [0 .. BUFF_MAX - 1 -> Stored(C)] /\ \A j \in 0 .. BUFF_MAX - 1 : b[j] = IF j = s.i THEN NUL ELSE s.buff[j]
  BY <1>2
<1>4. t = [s EXCEPT !.buff = b, !.i = 0]
  BY Zenon DEF LineEnded
<1> HIDE DEF t, b
<1>5. t.buff = b /\ t.i = 0 /\ t.out = s.out
  BY <1>1, <1>4
<1>6. t \in States(C)
  BY <1>1, <1>3, <1>4 DEF States
<1> QED BY <1>3, <1>5, <1>6, Zenon DEF t

\* The string is the line.
LEMMA EndedString ==
  ASSUME NEW C, NUL \notin C, NEW s \in States(C), NEW l \in Seq(C), Holds(s, l), Len(l) < BUFF_MAX
  PROVE  /\ String(LineEnded(s).buff) = l
         /\ LineEnded(s).buff[Len(l)] = NUL
         /\ \A k \in 1 .. Len(l) : LineEnded(s).buff[k - 1] = l[k]
         /\ Holds(LineEnded(s), <<>>)
<1> DEFINE t == LineEnded(s)
<1>1. s.i = Len(l) /\ (\A k \in 1 .. Len(l) : s.buff[k - 1] = l[k]) /\ Len(l) \in Nat /\ BUFF_MAX \in Nat
  BY BufferAssumption DEF Holds
<1>2. t \in States(C) /\ t.i = 0 /\ \A j \in 0 .. BUFF_MAX - 1 : t.buff[j] = IF j = s.i THEN NUL ELSE s.buff[j]
  BY <1>1, EndedIs
<1> HIDE DEF t
<1>3. t.buff \in [0 .. BUFF_MAX - 1 -> Stored(C)] /\ Len(l) \in 0 .. BUFF_MAX - 1
  BY <1>1, <1>2 DEF States
<1>4. t.buff[Len(l)] = NUL
  BY <1>1, <1>2, <1>3, Zenon
<1>5. ASSUME NEW k \in 1 .. Len(l) PROVE t.buff[k - 1] = l[k]
  <2>1. k - 1 \in 0 .. BUFF_MAX - 1 /\ k - 1 # s.i
    BY <1>1
  <2> QED BY <1>1, <1>2, <2>1, Zenon
<1>6. String(t.buff) = l
  BY <1>3, <1>4, <1>5, StringIs
<1>7. Holds(t, <<>>)
  <2>1. Len(<<>>) = 0 /\ \A k \in 1 .. 0 : FALSE
    OBVIOUS
  <2> QED BY <1>2, <2>1, Zenon DEF Holds
<1> QED BY <1>4, <1>5, <1>6, <1>7 DEF t

\* The lines as they grow, a key at a time.
Typed(q, s) == q[0] = << <<>> >> /\ \A k \in 0 .. Len(s) - 1 : q[k + 1] = WithKey(q[k], s[k + 1])

\* Every line has room in the buffer, and for its NUL.
Fits(lines) == \A k \in 1 .. Len(lines) : Len(lines[k]) < BUFF_MAX

\* What was typed fits when it still does with another key.
LEMMA FitsBefore ==
  ASSUME NEW V, NEWLINE \in V, NEW lines \in Seq(Seq(V)), lines # <<>>, NEW c \in V, Fits(WithKey(lines, c))
  PROVE  Fits(lines)
<1> DEFINE n == Len(lines)
           new == WithKey(lines, c)
<1>1. n \in Nat \ {0} /\ BUFF_MAX \in Nat /\ \A k \in 1 .. n : Len(lines[k]) \in Nat /\ lines[k] \in Seq(V)
  BY BufferAssumption
<1>2. CASE c = ENTER
  <2>1. Len(new) = n + 1 /\ \A k \in 1 .. n : new[k] = lines[k]
    BY <1>2, SaidEnter
  <2>2. \A k \in 1 .. n : Len(new[k]) < BUFF_MAX
    BY <1>1, <2>1 DEF Fits
  <2> QED BY <2>1, <2>2 DEF Fits
<1>3. CASE c # ENTER
  <2>1. Len(new) = n /\ (\A k \in 1 .. n - 1 : new[k] = lines[k]) /\ new[n] = Append(lines[n], c)
    BY <1>3, SaidKey
  <2>2. \A k \in 1 .. n : Len(new[k]) < BUFF_MAX
    BY <2>1 DEF Fits
  <2> HIDE DEF new
  <2>3. Len(new[n]) = Len(lines[n]) + 1
    BY <1>1, <2>1, Sequence!AppendProperties
  <2>4. ASSUME NEW k \in 1 .. n PROVE Len(lines[k]) < BUFF_MAX
    <3>1. CASE k = n
      BY <1>1, <2>2, <2>3, <3>1
    <3>2. CASE k # n
      <4>1. k \in 1 .. n - 1
        BY <1>1, <3>2
      <4> QED BY <2>1, <2>2, <4>1
    <3> QED BY <3>1, <3>2
  <2> QED BY <2>4 DEF Fits
<1> QED BY <1>2, <1>3

\* The lines are sequences, no longer than what was typed.
LEMMA TypedLines ==
  ASSUME NEW V, NEWLINE \in V, NEW s \in Seq(V), NEW q, Typed(q, s)
  PROVE  \A k \in 0 .. Len(s) : /\ q[k] \in Seq(Seq(V)) /\ q[k] # <<>>
                                /\ \A i \in 1 .. Len(q[k]) : Len(q[k][i]) <= k
<1> DEFINE Good(k) == /\ q[k] \in Seq(Seq(V)) /\ q[k] # <<>>
                      /\ \A i \in 1 .. Len(q[k]) : Len(q[k][i]) <= k
           S == {k \in Nat : k <= Len(s) => Good(k)}
<1>1. 0 \in S
  <2>1. <<>> \in Seq(V) /\ Len(<< <<>> >>) = 1 /\ Len(<<>>) = 0
    OBVIOUS
  <2>2. << <<>> >> \in Seq(Seq(V)) /\ << <<>> >> # <<>> /\ << <<>> >>[1] = <<>>
    BY <2>1
  <2>3. \A i \in 1 .. 1 : i = 1
    OBVIOUS
  <2>4. q[0] = << <<>> >>
    BY DEF Typed
  <2>5. \A i \in 1 .. Len(q[0]) : Len(q[0][i]) <= 0
    BY <2>1, <2>2, <2>3, <2>4
  <2> QED BY <2>2, <2>4, <2>5
<1>2. ASSUME NEW k \in Nat, k \in S PROVE k + 1 \in S
  <2> SUFFICES ASSUME k + 1 <= Len(s) PROVE Good(k + 1)
    OBVIOUS
  <2>1. k \in 0 .. Len(s) - 1 /\ Good(k) /\ s[k + 1] \in V
    BY <1>2
  <2>2. q[k + 1] = WithKey(q[k], s[k + 1])
    BY <2>1 DEF Typed
  <2> DEFINE ls == q[k]
             new == WithKey(ls, s[k + 1])
             n == Len(ls)
  <2>3. ls \in Seq(Seq(V)) /\ ls # <<>> /\ n \in Nat \ {0} /\ \A i \in 1 .. n : Len(ls[i]) <= k /\ ls[i] \in Seq(V) /\ Len(ls[i]) \in Nat
    BY <2>1
  <2>4. CASE s[k + 1] = ENTER
    <3> HIDE DEF ls
    <3>1. new \in Seq(Seq(V)) /\ Len(new) = n + 1 /\ (\A i \in 1 .. n : new[i] = ls[i]) /\ new[n + 1] = <<>>
      BY <2>3, <2>4, SaidEnter
    <3>2. ASSUME NEW i \in 1 .. n + 1 PROVE Len(new[i]) <= k + 1
      <4>1. CASE i \in 1 .. n
        <5>1. new[i] = ls[i] /\ Len(ls[i]) <= k /\ Len(ls[i]) \in Nat
          BY <2>3, <3>1, <4>1
        <5>2. Len(new[i]) = Len(ls[i])
          BY <5>1, Zenon
        <5> HIDE DEF new
        <5> QED BY <5>1, <5>2
      <4>2. CASE i = n + 1
        BY <3>1, <4>2
      <4> QED BY <2>3, <4>1, <4>2
    <3>3. new # <<>>
      BY <2>3, <3>1
    <3> QED BY <2>2, <3>1, <3>2, <3>3 DEF ls
  <2>5. CASE s[k + 1] # ENTER
    <3> HIDE DEF ls
    <3>1. /\ new \in Seq(Seq(V)) /\ Len(new) = n /\ (\A i \in 1 .. n - 1 : new[i] = ls[i])
          /\ new[n] = Append(ls[n], s[k + 1])
      BY <2>1, <2>3, <2>5, SaidKey, ZenonT(60)
    <3> HIDE DEF new
    <3>4. Len(new[n]) = Len(ls[n]) + 1
      BY <2>1, <2>3, <3>1, Sequence!AppendProperties
    <3>2. ASSUME NEW i \in 1 .. n PROVE Len(new[i]) <= k + 1
      <4>1. CASE i \in 1 .. n - 1
        <5>1. i \in 1 .. n
          BY <2>3, <4>1
        <5>2. new[i] = ls[i] /\ Len(ls[i]) <= k /\ Len(ls[i]) \in Nat
          BY <2>3, <3>1, <4>1, <5>1
        <5>3. Len(new[i]) = Len(ls[i])
          BY <5>2, Zenon
        <5> QED BY <5>2, <5>3
      <4>2. CASE i = n
        BY <2>3, <3>4, <4>2
      <4> QED BY <2>3, <4>1, <4>2
    <3>3. new # <<>>
      BY <2>3, <3>1
    <3> QED BY <2>2, <3>1, <3>2, <3>3 DEF ls, new
  <2> QED BY <2>4, <2>5
<1>3. Nat \subseteq S
  <2> HIDE DEF S
  <2> QED BY <1>1, <1>2, Induct
<1>4. ASSUME NEW k \in 0 .. Len(s) PROVE Good(k)
  <2>1. k \in Nat /\ k <= Len(s)
    OBVIOUS
  <2> QED BY <1>3, <2>1
<1> QED BY <1>4

\* All of them fit when they do in the end.
LEMMA TypedFits ==
  ASSUME NEW V, NEWLINE \in V, NEW s \in Seq(V), NEW q, Typed(q, s), Fits(q[Len(s)])
  PROVE  \A k \in 0 .. Len(s) : Fits(q[k])
<1> DEFINE n == Len(s)
           S == {k \in Nat : k <= n => Fits(q[n - k])}
<1>1. n \in Nat
  OBVIOUS
<1>2. 0 \in S
  <2>1. n - 0 = n
    BY <1>1
  <2> QED BY <2>1
<1>3. ASSUME NEW k \in Nat, k \in S PROVE k + 1 \in S
  <2> SUFFICES ASSUME k + 1 <= n PROVE Fits(q[n - (k + 1)])
    OBVIOUS
  <2> DEFINE m == n - (k + 1)
  <2>1. m \in 0 .. n - 1 /\ m \in 0 .. n /\ m + 1 = n - k /\ k <= n /\ s[m + 1] \in V
    BY <1>1
  <2>2. Fits(q[m + 1])
    BY <1>3, <2>1
  <2> HIDE DEF m
  <2>3. q[m + 1] = WithKey(q[m], s[m + 1])
    BY <2>1 DEF Typed
  <2>4. q[m] \in Seq(Seq(V)) /\ q[m] # <<>>
    BY <2>1, TypedLines
  <2>5. Fits(q[m])
    BY <2>1, <2>2, <2>3, <2>4, FitsBefore
  <2> QED BY <2>5 DEF m
<1>4. Nat \subseteq S
  <2> HIDE DEF S
  <2> QED BY <1>2, <1>3, Induct
<1>5. ASSUME NEW k \in 0 .. n PROVE Fits(q[k])
  <2>1. n - k \in Nat /\ n - k <= n /\ n - (n - k) = k
    BY <1>1
  <2> QED BY <1>4, <2>1
<1> QED BY <1>5

\* The keys before Ctrl-D.
LEMMA BeforeEnd ==
  ASSUME NEW V, NEW keys \in Seq(V), NEW ends
  PROVE  LET s == Before(keys, ends)
         IN  /\ s \in Seq(V) /\ Len(s) \in Nat /\ DOMAIN s = 1 .. Len(s) /\ Len(s) <= Len(keys)
             /\ \A i \in 1 .. Len(s) : s[i] = keys[i] /\ s[i] \notin ends
<1>1. PICK m \in 0 .. Len(keys) : Before(keys, ends) = SubSeq(keys, 1, m) /\ \A i \in 1 .. m : keys[i] \notin ends
  BY BeforeIs
<1>2. /\ SubSeq(keys, 1, m) \in Seq(V) /\ Len(SubSeq(keys, 1, m)) = m
      /\ \A i \in 1 .. m : SubSeq(keys, 1, m)[i] = keys[i]
  OBVIOUS
<1> DEFINE s == Before(keys, ends)
<1>3. s \in Seq(V) /\ Len(s) = m /\ \A i \in 1 .. m : s[i] = keys[i] /\ s[i] \notin ends
  BY <1>1, <1>2
<1> HIDE DEF s
<1>4. Len(s) \in Nat /\ DOMAIN s = 1 .. Len(s) /\ Len(s) <= Len(keys)
  BY <1>3
<1> QED BY <1>3, <1>4 DEF s

\* The lines grow with them.
LEMMA LinesTyped ==
  ASSUME NEW V, NEW keys \in Seq(V)
  PROVE  \E q : Typed(q, Before(keys, {EOT})) /\ LinesOf(keys) = q[Len(Before(keys, {EOT}))]
<1> DEFINE s == Before(keys, {EOT})
<1>1. s \in Seq(V) /\ Len(s) \in Nat /\ DOMAIN s = 1 .. Len(s)
  BY BeforeEnd, Zenon
<1>2. LinesOf(keys) = FoldLeft(WithKey, << <<>> >>, s)
  BY Zenon DEF LinesOf
<1> HIDE DEF s
<1>3. Reaches("line", << <<>> >>, s, Len(s), LinesOf(keys))
  BY <1>1, <1>2, WithKeyReached
<1>4. \A a, b : CharStep("line", a, b) = WithKey(a, b)
  BY DEF CharStep
<1>5. \E q : Typed(q, s) /\ LinesOf(keys) = q[Len(s)]
  BY <1>3, <1>4, Zenon DEF Reaches, Typed
<1> QED BY <1>5 DEF s

\* At the end of a line cat says it again.
LEMMA CatEnter ==
  ASSUME NEW C, NEWLINE \in C, NUL \notin C, NEW s \in States(C), NEW l \in Seq(C), Holds(s, l), Len(l) < BUFF_MAX
  PROVE  /\ CatTurn(s, ENTER) \in States(C) /\ Holds(CatTurn(s, ENTER), <<>>)
         /\ CatTurn(s, ENTER).out = s.out \o <<NEWLINE>> \o l \o <<NEWLINE>>
<1> DEFINE e == LineEnded(s)
           t == CatTurn(s, ENTER)
           o == s.out \o <<NEWLINE>> \o l \o <<NEWLINE>>
<1>1. s.i < BUFF_MAX /\ s.out \in Seq(C)
  BY DEF Holds, States
<1>2. e \in States(C) /\ e.out = s.out
  BY <1>1, EndedIs
<1>3. String(e.buff) = l /\ Holds(e, <<>>)
  BY EndedString
<1>4. t = [e EXCEPT !.out = e.out \o <<NEWLINE>> \o String(e.buff) \o <<NEWLINE>>]
  BY Zenon DEF CatTurn
<1>5. t = [e EXCEPT !.out = o]
  BY <1>2, <1>3, <1>4, Zenon
<1>6. o \in Seq(C)
  BY <1>1
<1> HIDE DEF e, t, o
<1>7. t \in States(C) /\ t.out = o /\ t.i = e.i /\ t.buff = e.buff
  BY <1>2, <1>5, <1>6 DEF States
<1>8. Holds(t, <<>>)
  BY <1>3, <1>7, Zenon DEF Holds
<1> QED BY <1>7, <1>8, Zenon DEF t, o

\* cat says every finished line twice.
LEMMA CatSays ==
  ASSUME NEW C, NEWLINE \in C, NUL \notin C, NEW keys \in Seq(C), Fits(LinesOf(keys))
  PROVE  cat(keys) = Said(LinesOf(keys))
<1> DEFINE s == Before(keys, {EOT})
           n == Len(s)
<1>1. s \in Seq(C) /\ n \in Nat /\ DOMAIN s = 1 .. n
  BY BeforeEnd, Zenon
<1>2. PICK q : Typed(q, s) /\ LinesOf(keys) = q[n]
  BY LinesTyped
<1>3. cat(keys) = FoldLeft(CatTurn, Fresh("garbage"), s).out
  BY Zenon DEF cat
<1> HIDE DEF s
<1>4. \A k \in 0 .. n : q[k] \in Seq(Seq(C)) /\ q[k] # <<>> /\ Fits(q[k])
  BY <1>1, <1>2, TypedLines, TypedFits
<1>5. Reaches("cat", Fresh("garbage"), s, n, FoldLeft(CatTurn, Fresh("garbage"), s))
  BY <1>1, CatTurnReached
<1>6. \A a, b : CharStep("cat", a, b) = CatTurn(a, b)
  BY DEF CharStep
<1>7. PICK r : /\ r[0] = Fresh("garbage") /\ (\A k \in 0 .. n - 1 : r[k + 1] = CatTurn(r[k], s[k + 1]))
               /\ FoldLeft(CatTurn, Fresh("garbage"), s) = r[n]
  BY <1>5, <1>6, Zenon DEF Reaches
<1> DEFINE Good(k) == r[k] \in States(C) /\ Holds(r[k], q[k][Len(q[k])]) /\ r[k].out = Said(q[k])
           S == {k \in Nat : k <= n => Good(k)}
<1>8. 0 \in S
  <2>1. q[0] = << <<>> >> /\ Len(q[0]) = 1 /\ q[0][1] = <<>>
    BY <1>2 DEF Typed
  <2>2. r[0] \in States(C) /\ Holds(r[0], <<>>) /\ r[0].out = <<>>
    BY <1>7, FreshIs
  <2>3. Said(q[0]) = <<>>
    <3>1. 0 \in 0 .. n
      BY <1>1
    <3>2. \E u \in Seq(C) : Reaches("join", <<>>, Twiced(q[0]), Len(q[0]) - 1, u) /\ Said(q[0]) = u \o q[0][Len(q[0])]
      BY <1>4, <3>1, SaidIs
    <3>3. PICK u \in Seq(C) : Reaches("join", <<>>, Twiced(q[0]), 0, u) /\ Said(q[0]) = u \o <<>>
      BY <2>1, <3>2
    <3>4. u = <<>>
      BY <3>3 DEF Reaches
    <3> QED BY <3>3, <3>4
  <2> QED BY <2>1, <2>2, <2>3
<1>9. ASSUME NEW k \in Nat, k \in S PROVE k + 1 \in S
  <2> SUFFICES ASSUME k + 1 <= n PROVE Good(k + 1)
    OBVIOUS
  <2> DEFINE ls == q[k]
             c == s[k + 1]
             l == ls[Len(ls)]
  <2>1. k \in 0 .. n - 1 /\ k \in 0 .. n /\ Good(k) /\ c \in C
    BY <1>1, <1>9
  <2>2. q[k + 1] = WithKey(ls, c) /\ r[k + 1] = CatTurn(r[k], c)
    BY <1>2, <1>7, <2>1 DEF Typed
  <2>3. ls \in Seq(Seq(C)) /\ ls # <<>> /\ Fits(ls)
    BY <1>4, <2>1
  <2>4. Len(ls) \in Nat \ {0} /\ l \in Seq(C) /\ Len(l) < BUFF_MAX /\ Len(l) \in Nat /\ BUFF_MAX \in Nat
    <3>1. Len(ls) \in Nat \ {0} /\ l \in Seq(C)
      BY <2>3
    <3>2. Len(l) < BUFF_MAX
      BY <2>3, <3>1 DEF Fits
    <3> QED BY <3>1, <3>2, BufferAssumption
  <2>5. r[k] \in States(C) /\ Holds(r[k], l) /\ r[k].out = Said(ls)
    BY <2>1
  <2> HIDE DEF ls, c, l
  <2>6. CASE c = ENTER
    <3>1. /\ Len(WithKey(ls, c)) = Len(ls) + 1 /\ WithKey(ls, c)[Len(ls) + 1] = <<>>
          /\ Said(WithKey(ls, c)) = Said(ls) \o <<NEWLINE>> \o ls[Len(ls)] \o <<NEWLINE>>
      BY <2>3, <2>6, SaidEnter
    <3>2. /\ CatTurn(r[k], c) \in States(C) /\ Holds(CatTurn(r[k], c), <<>>)
          /\ CatTurn(r[k], c).out = r[k].out \o <<NEWLINE>> \o l \o <<NEWLINE>>
      BY <2>4, <2>5, <2>6, CatEnter
    <3>3. CatTurn(r[k], c).out = Said(WithKey(ls, c))
      BY <2>5, <3>1, <3>2, Zenon DEF l
    <3> QED BY <2>2, <3>1, <3>2, <3>3, Zenon
  <2>7. CASE c # ENTER
    <3>1. /\ Len(WithKey(ls, c)) = Len(ls) /\ WithKey(ls, c)[Len(ls)] = Append(l, c)
          /\ Said(WithKey(ls, c)) = Append(Said(ls), c)
      BY <2>1, <2>3, <2>7, SaidKey, ZenonT(60) DEF l
    <3>2. CatTurn(r[k], c) = Echoed(r[k], c)
      BY <2>7, Zenon DEF CatTurn
    <3>3. r[k].i < BUFF_MAX
      BY <2>4, <2>5 DEF Holds
    <3>4. Echoed(r[k], c) \in States(C) /\ Echoed(r[k], c).out = Append(r[k].out, c)
      BY <2>1, <2>5, <3>3, EchoedIs
    <3>5. Holds(Echoed(r[k], c), Append(l, c))
      BY <2>1, <2>4, <2>5, EchoHolds
    <3> QED BY <2>2, <2>5, <3>1, <3>2, <3>4, <3>5, Zenon
  <2> QED BY <2>6, <2>7
<1>10. Nat \subseteq S
  <2> HIDE DEF S
  <2> QED BY <1>8, <1>9, Induct
<1>11. Good(n)
  <2>1. n \in Nat /\ n <= n
    BY <1>1
  <2> QED BY <1>10, <2>1
<1> QED BY <1>2, <1>3, <1>7, <1>11, Zenon

\* The first line is what was typed before Enter or Ctrl-D.
LEMMA FirstLine ==
  ASSUME NEW V, NEWLINE \in V, NEW keys \in Seq(V)
  PROVE  LinesOf(keys)[1] = Before(keys, {ENTER, EOT})
<1> DEFINE s == Before(keys, {EOT})
           f == Before(keys, {ENTER, EOT})
<1>1. PICK p \in 0 .. Len(keys) : s = SubSeq(keys, 1, p) /\ \A i \in 1 .. p : keys[i] \notin {EOT}
  BY BeforeIs
<1>2. PICK m \in 0 .. Len(keys) : /\ f = SubSeq(keys, 1, m) /\ \A i \in 1 .. m : keys[i] \notin {ENTER, EOT}
                                  /\ m < Len(keys) => keys[m + 1] \in {ENTER, EOT}
  BY BeforeIs
<1>3. PICK q : Typed(q, s) /\ LinesOf(keys) = q[Len(s)]
  BY LinesTyped
<1>4. m <= p
  <2>1. PICK r \in 0 .. Len(keys) : s = SubSeq(keys, 1, r) /\ (r < Len(keys) => keys[r + 1] \in {EOT})
    BY BeforeIs
  <2>2. Len(SubSeq(keys, 1, p)) = p /\ Len(SubSeq(keys, 1, r)) = r
    OBVIOUS
  <2>3. r = p
    BY <1>1, <2>1, <2>2
  <2>4. p < m => p + 1 \in 1 .. m /\ p < Len(keys)
    OBVIOUS
  <2> QED BY <1>2, <2>1, <2>3, <2>4
<1>5. m < p => keys[m + 1] = ENTER
  <2>1. m < p => m < Len(keys) /\ m + 1 \in 1 .. p
    OBVIOUS
  <2> QED BY <1>1, <1>2, <2>1
<1>6. s \in Seq(V) /\ Len(s) = p /\ \A i \in 1 .. p : s[i] = keys[i]
  <2>1. /\ SubSeq(keys, 1, p) \in Seq(V) /\ Len(SubSeq(keys, 1, p)) = p
        /\ \A i \in 1 .. p : SubSeq(keys, 1, p)[i] = keys[i]
    OBVIOUS
  <2> QED BY <1>1, <2>1, Zenon
<1> HIDE DEF s, f
<1>7. \A k \in 0 .. p : q[k] \in Seq(Seq(V)) /\ q[k] # <<>>
  BY <1>3, <1>6, TypedLines
<1> DEFINE Good(k) == /\ k <= m => Len(q[k]) = 1 /\ q[k][1] = SubSeq(keys, 1, k)
                      /\ k > m => Len(q[k]) > 1 /\ q[k][1] = f
           S == {k \in Nat : k <= p => Good(k)}
<1>8. 0 \in S
  <2>1. q[0] = << <<>> >> /\ Len(q[0]) = 1 /\ q[0][1] = <<>> /\ SubSeq(keys, 1, 0) = <<>>
    BY <1>3 DEF Typed
  <2>2. ~(0 > m)
    OBVIOUS
  <2>3. Good(0)
    BY <2>1, <2>2, Zenon
  <2> HIDE DEF Good
  <2> QED BY <2>3
<1>9. ASSUME NEW k \in Nat, k \in S PROVE k + 1 \in S
  <2> SUFFICES ASSUME k + 1 <= p PROVE Good(k + 1)
    OBVIOUS
  <2> DEFINE ls == q[k]
             c == s[k + 1]
             new == WithKey(ls, c)
  <2>1. k \in 0 .. p - 1 /\ k \in 0 .. p /\ Good(k) /\ c \in V /\ c = keys[k + 1]
    BY <1>6, <1>9
  <2>2. q[k + 1] = new
    BY <1>3, <1>6, <2>1 DEF Typed
  <2>3. ls \in Seq(Seq(V)) /\ ls # <<>> /\ Len(ls) \in Nat \ {0}
    BY <1>7, <2>1
  <2>4. /\ k <= m => Len(ls) = 1 /\ ls[1] = SubSeq(keys, 1, k)
        /\ k > m => Len(ls) > 1 /\ ls[1] = f
    BY <2>1
  <2> HIDE DEF ls, c
  <2>5. c = ENTER => Len(new) = Len(ls) + 1 /\ \A i \in 1 .. Len(ls) : new[i] = ls[i]
    BY <2>3, SaidEnter
  <2>6. ASSUME c # ENTER
        PROVE  /\ Len(new) = Len(ls) /\ new[Len(ls)] = Append(ls[Len(ls)], c)
               /\ \A i \in 1 .. Len(ls) - 1 : new[i] = ls[i]
    <3>1. ls \in Seq(Seq(V)) /\ ls # <<>> /\ c \in V /\ c # ENTER
      BY <2>1, <2>3, <2>6
    <3>2. /\ Len(WithKey(ls, c)) = Len(ls) /\ WithKey(ls, c)[Len(ls)] = Append(ls[Len(ls)], c)
          /\ \A i \in 1 .. Len(ls) - 1 : WithKey(ls, c)[i] = ls[i]
      BY <3>1, SaidKey
    <3> QED BY <3>2
  <2> HIDE DEF new
  <2>7. CASE k < m
    <3>1. k + 1 \in 1 .. m /\ k + 1 <= m /\ k <= m
      BY <2>7
    <3>2. c # ENTER
      BY <1>2, <2>1, <3>1
    <3>3. Len(new) = 1 /\ new[1] = Append(SubSeq(keys, 1, k), keys[k + 1])
      BY <2>1, <2>4, <2>6, <3>1, <3>2
    <3>4. SubSeq(keys, 1, k + 1) = Append(SubSeq(keys, 1, k), keys[k + 1])
      <4>1. k + 1 \in 1 .. Len(keys) /\ (k + 1) - 1 = k
        BY <3>1
      <4>2. SubSeq(keys, 1, k + 1) = Append(SubSeq(keys, 1, (k + 1) - 1), keys[k + 1])
        BY <4>1, Sequence!SubSeqRecursiveSecond
      <4> QED BY <4>1, <4>2
    <3> QED BY <2>2, <3>1, <3>3, <3>4
  <2>8. CASE k = m
    <3>1. m < p /\ c = ENTER
      BY <1>5, <2>1, <2>8
    <3>2. Len(ls) = 1 /\ ls[1] = f
      BY <1>2, <2>4, <2>8
    <3>3. Len(new) = 2 /\ new[1] = f
      BY <2>5, <3>1, <3>2
    <3> QED BY <2>2, <2>8, <3>3
  <2>9. CASE k > m
    <3>1. Len(ls) > 1 /\ ls[1] = f /\ 1 \in 1 .. Len(ls) /\ 1 \in 1 .. Len(ls) - 1
      BY <2>3, <2>4, <2>9
    <3>2. Len(new) > 1 /\ new[1] = f
      BY <2>3, <2>5, <2>6, <3>1
    <3> QED BY <2>2, <2>9, <3>2
  <2> QED BY <2>7, <2>8, <2>9
<1>10. Nat \subseteq S
  <2> HIDE DEF S
  <2> QED BY <1>8, <1>9, Induct
<1>11. Good(p)
  <2>1. p \in Nat /\ p <= p
    OBVIOUS
  <2> QED BY <1>10, <2>1
<1>12. q[p][1] = f
  <2>1. p <= m => p = m
    BY <1>4
  <2> QED BY <1>2, <1>11, <2>1
<1>13. LinesOf(keys)[1] = f
  BY <1>3, <1>6, <1>12
<1> QED BY <1>13 DEF f

\* What filter reads is on the screen and in its buffer.
LEMMA FilterReads ==
  ASSUME NEW C, NEW f \in Seq(C), Len(f) < BUFF_MAX
  PROVE  LET read == FoldLeft(Echoed, Fresh("garbage"), f)
         IN  read \in States(C) /\ Holds(read, f) /\ read.out = f
<1> DEFINE n == Len(f)
           P(k) == SubSeq(f, 1, k)
<1>1. n \in Nat /\ DOMAIN f = 1 .. n /\ BUFF_MAX \in Nat
  BY BufferAssumption
<1>2. Reaches("echo", Fresh("garbage"), f, n, FoldLeft(Echoed, Fresh("garbage"), f))
  BY <1>1, EchoedReached
<1>3. \A a, b : CharStep("echo", a, b) = Echoed(a, b)
  BY DEF CharStep
<1>4. PICK r : /\ r[0] = Fresh("garbage") /\ (\A k \in 0 .. n - 1 : r[k + 1] = Echoed(r[k], f[k + 1]))
               /\ FoldLeft(Echoed, Fresh("garbage"), f) = r[n]
  BY <1>2, <1>3, Zenon DEF Reaches
<1> DEFINE Good(k) == r[k] \in States(C) /\ Holds(r[k], P(k)) /\ r[k].out = P(k)
           S == {k \in Nat : k <= n => Good(k)}
<1>5. 0 \in S
  <2>1. P(0) = <<>>
    OBVIOUS
  <2>2. r[0] \in States(C) /\ Holds(r[0], <<>>) /\ r[0].out = <<>>
    BY <1>4, FreshIs
  <2> QED BY <2>1, <2>2
<1>6. ASSUME NEW k \in Nat, k \in S PROVE k + 1 \in S
  <2> SUFFICES ASSUME k + 1 <= n PROVE Good(k + 1)
    OBVIOUS
  <2>1. k \in 0 .. n - 1 /\ Good(k) /\ f[k + 1] \in C /\ k + 1 \in 1 .. n /\ (k + 1) - 1 = k
    BY <1>6
  <2>2. r[k + 1] = Echoed(r[k], f[k + 1])
    BY <1>4, <2>1
  <2>3. P(k + 1) = Append(P(k), f[k + 1])
    <3>1. SubSeq(f, 1, k + 1) = Append(SubSeq(f, 1, (k + 1) - 1), f[k + 1])
      BY <2>1, Sequence!SubSeqRecursiveSecond
    <3> QED BY <2>1, <3>1
  <2>4. P(k) \in Seq(C) /\ Len(P(k)) = k /\ k < BUFF_MAX
    BY <1>1, <2>1
  <2>5. r[k] \in States(C) /\ Holds(r[k], P(k)) /\ r[k].out = P(k)
    BY <2>1
  <2> HIDE DEF P
  <2>6. r[k].i < BUFF_MAX
    BY <2>4, <2>5 DEF Holds
  <2>7. Echoed(r[k], f[k + 1]) \in States(C) /\ Echoed(r[k], f[k + 1]).out = Append(r[k].out, f[k + 1])
    BY <2>1, <2>5, <2>6, EchoedIs
  <2>8. Holds(Echoed(r[k], f[k + 1]), Append(P(k), f[k + 1]))
    BY <2>1, <2>4, <2>5, EchoHolds
  <2> QED BY <2>2, <2>3, <2>5, <2>7, <2>8, Zenon
<1>7. Nat \subseteq S
  <2> HIDE DEF S
  <2> QED BY <1>5, <1>6, Induct
<1>8. Good(n) /\ P(n) = f
  <2>1. n \in Nat /\ n <= n /\ SubSeq(f, 1, n) = f
    BY <1>1
  <2>2. Good(n)
    <3> HIDE DEF Good
    <3> QED BY <1>7, <2>1
  <2> QED BY <2>1, <2>2
<1> HIDE DEF P
<1> QED BY <1>4, <1>8, Zenon

\* Of the first k characters the vowels are at the front of the buffer; the others
\* are where they were.
Kept(C, s, v, f, k) ==
  /\ s.buff \in [0 .. BUFF_MAX - 1 -> Stored(C)] /\ s.j = Len(v) /\ Len(v) <= k
  /\ \A l \in 1 .. Len(v) : s.buff[l - 1] = v[l]
  /\ \A l \in k .. Len(f) - 1 : s.buff[l] = f[l + 1]

\* A character more.
LEMMA KeepStep ==
  ASSUME NEW C, NEW f \in Seq(C), Len(f) < BUFF_MAX, NEW k \in 0 .. Len(f) - 1, NEW v \in Seq(C), NEW s,
         Kept(C, s, v, f, k)
  PROVE  WithVowel(v, f[k + 1]) \in Seq(C) /\ Kept(C, Keep(s, k), WithVowel(v, f[k + 1]), f, k + 1)
<1> DEFINE c == f[k + 1]
           n == Len(f)
           b == s.buff
           j == s.j
<1>1. /\ n \in Nat /\ k \in Nat /\ k \in k .. n - 1 /\ c \in C /\ BUFF_MAX \in Nat
      /\ \A l \in (k + 1) .. n - 1 : l \in k .. n - 1 /\ l \in 0 .. BUFF_MAX - 1 /\ l > k
  BY BufferAssumption
<1>2. /\ b \in [0 .. BUFF_MAX - 1 -> Stored(C)] /\ j = Len(v) /\ Len(v) <= k /\ Len(v) \in Nat
      /\ (\A l \in 1 .. Len(v) : b[l - 1] = v[l]) /\ (\A l \in k .. n - 1 : b[l] = f[l + 1])
  BY DEF Kept
<1>3. b[k] = c
  BY <1>1, <1>2
<1> HIDE DEF b, j, c, n
<1>4. CASE isVowel(c)
  <2> DEFINE w == Append(v, c)
             d == [b EXCEPT ![j] = c]
  <2>1. WithVowel(v, c) = w /\ w \in Seq(C)
    BY <1>1, <1>4 DEF WithVowel
  <2>2. Keep(s, k) = [buff |-> d, j |-> j + 1]
    BY <1>3, <1>4, Zenon DEF Keep, b, j
  <2>3. Len(w) = Len(v) + 1 /\ w[Len(v) + 1] = c /\ \A l \in 1 .. Len(v) : w[l] = v[l]
    BY <1>1, Sequence!AppendProperties
  <2>4. j \in 0 .. BUFF_MAX - 1 /\ c \in Stored(C)
    BY <1>1, <1>2 DEF Stored, n
  <2>5. d \in [0 .. BUFF_MAX - 1 -> Stored(C)] /\ \A l \in 0 .. BUFF_MAX - 1 : d[l] = IF l = j THEN c ELSE b[l]
    BY <1>2, <2>4
  <2> HIDE DEF w, d
  <2>6. Keep(s, k).buff = d /\ Keep(s, k).j = j + 1
    BY <2>2
  <2>7. ASSUME NEW l \in 1 .. Len(w) PROVE d[l - 1] = w[l]
    <3>1. l - 1 \in 0 .. BUFF_MAX - 1 /\ (l - 1 = j <=> l = Len(v) + 1) /\ (l # Len(v) + 1 => l \in 1 .. Len(v))
      BY <1>1, <1>2, <2>3 DEF n
    <3> QED BY <1>2, <2>3, <2>5, <3>1, Zenon
  <2>8. ASSUME NEW l \in (k + 1) .. n - 1 PROVE d[l] = f[l + 1]
    <3>1. l \in 0 .. BUFF_MAX - 1 /\ l \in k .. n - 1
      BY <1>1
    <3>2. l # j
      BY <1>1, <1>2
    <3> QED BY <1>2, <2>5, <3>1, <3>2, Zenon
  <2>9. j + 1 = Len(w) /\ Len(w) <= k + 1
    BY <1>1, <1>2, <2>3
  <2>10. Kept(C, Keep(s, k), w, f, k + 1)
    BY <2>5, <2>6, <2>7, <2>8, <2>9, Zenon DEF Kept, n
  <2> QED BY <2>1, <2>10, Zenon DEF c
<1>5. CASE ~ isVowel(c)
  <2>1. WithVowel(v, c) = v /\ Keep(s, k) = s
    BY <1>3, <1>5, Zenon DEF WithVowel, Keep, b
  <2>2. Len(v) <= k + 1
    BY <1>1, <1>2
  <2>3. Kept(C, s, v, f, k + 1)
    BY <1>1, <1>2, <2>2, Zenon DEF Kept, n, b, j
  <2> QED BY <2>1, <2>3, Zenon DEF c
<1> QED BY <1>4, <1>5

\* filter shows the line and then its vowels.
LEMMA FilterSays ==
  ASSUME NEW C, NUL \notin C, NEW keys \in Seq(C), Len(Before(keys, {ENTER, EOT})) < BUFF_MAX
  PROVE  LET f == Before(keys, {ENTER, EOT})
         IN  filter(keys) = f \o <<NEWLINE>> \o FoldLeft(WithVowel, <<>>, f) \o <<NEWLINE>>
<1> DEFINE f == Before(keys, {ENTER, EOT})
           read == FoldLeft(Echoed, Fresh("garbage"), f)
           typed == [read.buff EXCEPT ![read.i] = NUL]
           start == [buff |-> typed, j |-> 0]
           ix == [k \in 1 .. read.i |-> k - 1]
           kept == FoldLeft(Keep, start, ix)
           v == FoldLeft(WithVowel, <<>>, f)
           n == Len(f)
<1>1. f \in Seq(C) /\ n \in Nat /\ DOMAIN f = 1 .. n
  BY BeforeEnd, Zenon
<1>2. n < BUFF_MAX /\ BUFF_MAX \in Nat
  BY BufferAssumption
<1>3. filter(keys) = read.out \o <<NEWLINE>> \o String([kept.buff EXCEPT ![kept.j] = NUL]) \o <<NEWLINE>>
  BY Zenon DEF filter
<1> HIDE DEF f
<1>4. read \in States(C) /\ Holds(read, f) /\ read.out = f
  BY <1>1, <1>2, FilterReads, Zenon
<1> HIDE DEF read
<1>5. read.i = n /\ (\A k \in 1 .. n : read.buff[k - 1] = f[k]) /\ read.buff \in [0 .. BUFF_MAX - 1 -> Stored(C)]
  BY <1>4 DEF Holds, States
<1> HIDE DEF n
<1>6. /\ typed \in [0 .. BUFF_MAX - 1 -> Stored(C)]
      /\ \A l \in 0 .. n - 1 : typed[l] = f[l + 1]
  <2>1. NUL \in Stored(C) /\ n \in 0 .. BUFF_MAX - 1
    BY <1>1, <1>2 DEF Stored
  <2>2. typed \in [0 .. BUFF_MAX - 1 -> Stored(C)] /\ \A l \in 0 .. BUFF_MAX - 1 : l # n => typed[l] = read.buff[l]
    BY <1>5, <2>1
  <2>3. ASSUME NEW l \in 0 .. n - 1 PROVE typed[l] = f[l + 1]
    <3>1. l \in 0 .. BUFF_MAX - 1 /\ l # n /\ l + 1 \in 1 .. n /\ (l + 1) - 1 = l
      BY <1>1, <1>2
    <3> QED BY <1>5, <2>2, <3>1
  <2> QED BY <2>2, <2>3
<1> HIDE DEF typed
<1>7. ix = [k \in 1 .. n |-> k - 1]
  BY <1>5, Zenon
<1>8. DOMAIN ix = 1 .. n /\ \A k \in 0 .. n - 1 : ix[k + 1] = k
  <2>1. \A k \in 0 .. n - 1 : k + 1 \in 1 .. n /\ (k + 1) - 1 = k
    BY <1>1
  <2> QED BY <1>7, <2>1
<1> HIDE DEF ix
<1>9. Reaches("keep", start, ix, n, kept)
  BY <1>1, <1>8, KeepReached
<1>10. Reaches("vowel", <<>>, f, n, v)
  BY <1>1, WithVowelReached
<1> HIDE DEF kept, v
<1>11. \A a, b : CharStep("keep", a, b) = Keep(a, b) /\ CharStep("vowel", a, b) = WithVowel(a, b)
  BY DEF CharStep
<1>12. PICK r : r[0] = start /\ (\A k \in 0 .. n - 1 : r[k + 1] = Keep(r[k], ix[k + 1])) /\ kept = r[n]
  BY <1>9, <1>11, Zenon DEF Reaches
<1>13. PICK q : q[0] = <<>> /\ (\A k \in 0 .. n - 1 : q[k + 1] = WithVowel(q[k], f[k + 1])) /\ v = q[n]
  BY <1>10, <1>11, Zenon DEF Reaches
<1> DEFINE Good(k) == q[k] \in Seq(C) /\ Kept(C, r[k], q[k], f, k)
           S == {k \in Nat : k <= n => Good(k)}
<1>14. 0 \in S
  <2>1. start.buff = typed /\ start.j = 0 /\ Len(<<>>) = 0 /\ <<>> \in Seq(C) /\ 0 <= 0 /\ \A l \in 1 .. 0 : FALSE
    OBVIOUS
  <2> HIDE DEF start
  <2>2. Kept(C, start, <<>>, f, 0)
    BY <1>6, <2>1, Zenon DEF Kept, n
  <2> QED BY <1>12, <1>13, <2>1, <2>2
<1>15. ASSUME NEW k \in Nat, k \in S PROVE k + 1 \in S
  <2> SUFFICES ASSUME k + 1 <= n PROVE Good(k + 1)
    OBVIOUS
  <2>1. k \in 0 .. n - 1 /\ Good(k)
    BY <1>1, <1>15
  <2>2. r[k + 1] = Keep(r[k], k) /\ q[k + 1] = WithVowel(q[k], f[k + 1])
    BY <1>8, <1>12, <1>13, <2>1
  <2>3. WithVowel(q[k], f[k + 1]) \in Seq(C) /\ Kept(C, Keep(r[k], k), WithVowel(q[k], f[k + 1]), f, k + 1)
    BY <1>1, <1>2, <2>1, KeepStep DEF n
  <2> QED BY <2>2, <2>3
<1>16. Nat \subseteq S
  <2> HIDE DEF S
  <2> QED BY <1>14, <1>15, Induct
<1>17. v \in Seq(C) /\ Kept(C, kept, v, f, n)
  <2>1. n \in Nat /\ n <= n
    BY <1>1
  <2>2. Good(n)
    <3> HIDE DEF Good
    <3> QED BY <1>16, <2>1
  <2> QED BY <1>12, <1>13, <2>2
<1>18. /\ kept.buff \in [0 .. BUFF_MAX - 1 -> Stored(C)] /\ kept.j = Len(v) /\ Len(v) <= n /\ Len(v) \in Nat
       /\ \A l \in 1 .. Len(v) : kept.buff[l - 1] = v[l]
  BY <1>17 DEF Kept
<1> DEFINE b == [kept.buff EXCEPT ![kept.j] = NUL]
<1>19. b \in [0 .. BUFF_MAX - 1 -> Stored(C)] /\ b[Len(v)] = NUL /\ \A l \in 1 .. Len(v) : b[l - 1] = v[l]
  <2>1. NUL \in Stored(C) /\ Len(v) \in 0 .. BUFF_MAX - 1
    BY <1>1, <1>2, <1>18 DEF Stored
  <2>2. /\ b \in [0 .. BUFF_MAX - 1 -> Stored(C)] /\ b[Len(v)] = NUL
        /\ \A l \in 0 .. BUFF_MAX - 1 : l # Len(v) => b[l] = kept.buff[l]
    BY <1>18, <2>1
  <2> HIDE DEF b
  <2>3. ASSUME NEW l \in 1 .. Len(v) PROVE b[l - 1] = v[l]
    <3>1. l - 1 \in 0 .. BUFF_MAX - 1 /\ l - 1 # Len(v)
      BY <1>2, <2>1
    <3> QED BY <1>18, <2>2, <3>1
  <2> QED BY <2>2, <2>3
<1> HIDE DEF b
<1>20. String(b) = v
  <2>1. Len(v) < BUFF_MAX
    BY <1>1, <1>2, <1>18
  <2> QED BY <1>17, <1>19, <2>1, StringIs
<1> QED BY <1>3, <1>4, <1>20, Zenon DEF b, f, v

\* The line wc counts: the one there is, or the one before the last.
CountedLine(lines) == IF Len(lines) = 1 THEN lines[1] ELSE lines[Len(lines) - 1]

\* What wc has in its buffer after some keys.  While there is one line nothing is
\* behind it; after an Enter the line before is a string.
WcKeeps(C, s, lines) ==
  /\ s \in States(C) /\ Holds(s, lines[Len(lines)])
  /\ Len(lines) = 1 => \A j \in 0 .. BUFF_MAX - 1 : j >= s.i => s.buff[j] = NUL
  /\ Len(lines) > 1 /\ lines[Len(lines)] = <<>> =>
       LET before == lines[Len(lines) - 1]
       IN  s.buff[Len(before)] = NUL /\ \A k \in 1 .. Len(before) : s.buff[k - 1] = before[k]

\* After Enter.
LEMMA WcEnter ==
  ASSUME NEW C, NEWLINE \in C, NUL \notin C, NEW s, NEW lines \in Seq(Seq(C)), lines # <<>>, Fits(lines),
         WcKeeps(C, s, lines)
  PROVE  WcKeeps(C, WcTurn(s, ENTER), WithKey(lines, ENTER))
<1> DEFINE t == WcTurn(s, ENTER)
           new == WithKey(lines, ENTER)
           n == Len(lines)
           l == lines[n]
<1>1. n \in Nat \ {0} /\ l \in Seq(C) /\ Len(l) < BUFF_MAX
  <2>1. n \in Nat \ {0} /\ l \in Seq(C) /\ n \in 1 .. n
    OBVIOUS
  <2> QED BY <2>1 DEF Fits
<1>2. Len(new) = n + 1 /\ new[n] = l /\ new[n + 1] = <<>>
  <2>1. n \in 1 .. n
    BY <1>1
  <2> QED BY <2>1, SaidEnter
<1>3. s \in States(C) /\ Holds(s, l)
  BY DEF WcKeeps
<1>4. t = LineEnded(s)
  BY Zenon DEF WcTurn
<1> HIDE DEF t, new, l
<1>5. /\ t.buff[Len(l)] = NUL /\ (\A k \in 1 .. Len(l) : t.buff[k - 1] = l[k]) /\ Holds(t, <<>>)
  BY <1>1, <1>3, <1>4, EndedString
<1>6. t \in States(C)
  <2>1. s.i < BUFF_MAX
    BY <1>1, <1>3 DEF Holds
  <2> QED BY <1>3, <1>4, <2>1, EndedIs
<1> HIDE DEF n
<1>7. Len(new) # 1 /\ (n + 1) - 1 = n
  BY <1>1, <1>2
<1>8. WcKeeps(C, t, new)
  BY <1>2, <1>5, <1>6, <1>7, ZenonT(60) DEF WcKeeps
<1> QED BY <1>8 DEF t, new

\* After another key.
LEMMA WcKey ==
  ASSUME NEW C, NEWLINE \in C, NUL \notin C, NEW s, NEW lines \in Seq(Seq(C)), lines # <<>>, Fits(lines),
         NEW c \in C, c # ENTER, WcKeeps(C, s, lines)
  PROVE  WcKeeps(C, WcTurn(s, c), WithKey(lines, c))
<1> DEFINE t == WcTurn(s, c)
           new == WithKey(lines, c)
           n == Len(lines)
           l == lines[n]
           m == Append(l, c)
<1>1. n \in Nat \ {0} /\ l \in Seq(C) /\ Len(l) < BUFF_MAX /\ Len(l) \in Nat
  <2>1. n \in Nat \ {0} /\ l \in Seq(C) /\ n \in 1 .. n /\ Len(l) \in Nat
    OBVIOUS
  <2> QED BY <2>1 DEF Fits
<1>2. Len(new) = n /\ new[n] = m
  BY SaidKey
<1>3. /\ s \in States(C) /\ Holds(s, l)
      /\ n = 1 => \A j \in 0 .. BUFF_MAX - 1 : j >= s.i => s.buff[j] = NUL
  BY DEF WcKeeps
<1>4. t = Echoed(s, c)
  BY Zenon DEF WcTurn
<1>5. m # <<>>
  <2>1. Len(m) = Len(l) + 1 /\ Len(<<>>) = 0
    BY <1>1, Sequence!AppendProperties
  <2> HIDE DEF m
  <2> QED BY <1>1, <2>1
<1>6. Holds(t, m)
  BY <1>1, <1>3, <1>4, EchoHolds
<1> HIDE DEF t, new, m, l
<1>7. s.i < BUFF_MAX /\ s.i \in Nat
  BY <1>1, <1>3 DEF Holds
<1>8. t \in States(C) /\ t.i = s.i + 1 /\ \A j \in 0 .. BUFF_MAX - 1 : t.buff[j] = IF j = s.i THEN c ELSE s.buff[j]
  BY <1>3, <1>4, <1>7, EchoedIs
<1>9. ASSUME n = 1, NEW j \in 0 .. BUFF_MAX - 1, j >= t.i PROVE t.buff[j] = NUL
  <2>1. j # s.i /\ j >= s.i
    BY <1>7, <1>8, <1>9
  <2> QED BY <1>3, <1>8, <1>9, <2>1, Zenon
<1>10. WcKeeps(C, t, new)
  BY <1>2, <1>5, <1>6, <1>8, <1>9, Zenon DEF WcKeeps
<1> QED BY <1>10 DEF t, new

\* What wc counts is the only line, or the one before an empty last one.
LEMMA WcReads ==
  ASSUME NEW C, NEWLINE \in C, NUL \notin C, NEW keys \in Seq(C), Fits(LinesOf(keys)),
         Len(LinesOf(keys)) = 1 \/ LinesOf(keys)[Len(LinesOf(keys))] = <<>>
  PROVE  WcBuffer(keys) = CountedLine(LinesOf(keys)) /\ CountedLine(LinesOf(keys)) \in Seq(C)
<1> DEFINE s == Before(keys, {EOT})
           n == Len(s)
           read == FoldLeft(WcTurn, Fresh(NUL), s)
<1>1. s \in Seq(C) /\ n \in Nat /\ DOMAIN s = 1 .. n
  BY BeforeEnd, Zenon
<1>2. PICK q : Typed(q, s) /\ LinesOf(keys) = q[n]
  BY LinesTyped
<1>3. WcBuffer(keys) = String(read.buff)
  BY Zenon DEF WcBuffer
<1> HIDE DEF s
<1>4. \A k \in 0 .. n : q[k] \in Seq(Seq(C)) /\ q[k] # <<>> /\ Fits(q[k])
  BY <1>1, <1>2, TypedLines, TypedFits
<1>5. Reaches("wc", Fresh(NUL), s, n, read)
  BY <1>1, WcTurnReached
<1>6. \A a, b : CharStep("wc", a, b) = WcTurn(a, b)
  BY DEF CharStep
<1> HIDE DEF read
<1>7. PICK r : r[0] = Fresh(NUL) /\ (\A k \in 0 .. n - 1 : r[k + 1] = WcTurn(r[k], s[k + 1])) /\ read = r[n]
  BY <1>5, <1>6, Zenon DEF Reaches
<1> DEFINE S == {k \in Nat : k <= n => WcKeeps(C, r[k], q[k])}
<1>8. 0 \in S
  <2>1. q[0] = << <<>> >> /\ Len(q[0]) = 1 /\ q[0][1] = <<>>
    BY <1>2 DEF Typed
  <2>2. r[0] \in States(C) /\ Holds(r[0], <<>>) /\ \A j \in 0 .. BUFF_MAX - 1 : r[0].buff[j] = NUL
    BY <1>7, FreshIs
  <2>3. ~(1 > 1)
    OBVIOUS
  <2>4. WcKeeps(C, r[0], q[0])
    BY <2>1, <2>2, <2>3, Zenon DEF WcKeeps
  <2> QED BY <2>4
<1>9. ASSUME NEW k \in Nat, k \in S PROVE k + 1 \in S
  <2> SUFFICES ASSUME k + 1 <= n PROVE WcKeeps(C, r[k + 1], q[k + 1])
    OBVIOUS
  <2>1. k \in 0 .. n - 1 /\ k \in 0 .. n /\ WcKeeps(C, r[k], q[k]) /\ s[k + 1] \in C
    BY <1>1, <1>9
  <2>2. q[k + 1] = WithKey(q[k], s[k + 1]) /\ r[k + 1] = WcTurn(r[k], s[k + 1])
    BY <1>2, <1>7, <2>1 DEF Typed
  <2>3. q[k] \in Seq(Seq(C)) /\ q[k] # <<>> /\ Fits(q[k])
    BY <1>4, <2>1
  <2>4. CASE s[k + 1] = ENTER
    BY <2>1, <2>2, <2>3, <2>4, WcEnter
  <2>5. CASE s[k + 1] # ENTER
    BY <2>1, <2>2, <2>3, <2>5, WcKey
  <2> QED BY <2>4, <2>5
<1>10. Nat \subseteq S
  <2> HIDE DEF S
  <2> QED BY <1>8, <1>9, Induct
<1> DEFINE ls == q[n]
           l == CountedLine(ls)
<1>11. WcKeeps(C, read, ls)
  <2>1. n \in Nat /\ n <= n
    BY <1>1
  <2> QED BY <1>7, <1>10, <2>1
<1>12. /\ ls \in Seq(Seq(C)) /\ ls # <<>> /\ Fits(ls) /\ Len(ls) \in Nat \ {0}
       /\ Len(ls) = 1 \/ ls[Len(ls)] = <<>>
  <2>1. n \in 0 .. n
    BY <1>1
  <2>2. ls \in Seq(Seq(C)) /\ ls # <<>> /\ Fits(ls)
    BY <1>4, <2>1
  <2>3. Len(ls) \in Nat \ {0}
    BY <2>2
  <2> QED BY <1>2, <2>2, <2>3
<1>13. read.buff \in [0 .. BUFF_MAX - 1 -> Stored(C)] /\ BUFF_MAX \in Nat
  BY <1>11, BufferAssumption DEF WcKeeps, States
<1> HIDE DEF ls
<1>14. CASE Len(ls) = 1
  <2>1. l = ls[1] /\ l \in Seq(C) /\ Len(l) \in Nat /\ Len(l) < BUFF_MAX
    <3>1. l = ls[1] /\ 1 \in 1 .. Len(ls)
      BY <1>14 DEF CountedLine
    <3>2. ls[1] \in Seq(C) /\ Len(ls[1]) < BUFF_MAX
      BY <1>12, <3>1 DEF Fits
    <3> QED BY <3>1, <3>2
  <2>2. Holds(read, l) /\ \A j \in 0 .. BUFF_MAX - 1 : j >= read.i => read.buff[j] = NUL
    BY <1>11, <1>14, <2>1, Zenon DEF WcKeeps
  <2> HIDE DEF l
  <2>3. read.i = Len(l) /\ \A k \in 1 .. Len(l) : read.buff[k - 1] = l[k]
    BY <2>2 DEF Holds
  <2>4. Len(l) \in 0 .. BUFF_MAX - 1 /\ Len(l) >= Len(l)
    BY <1>13, <2>1
  <2>5. read.buff[Len(l)] = NUL
    BY <2>2, <2>3, <2>4, Zenon
  <2>6. String(read.buff) = l
    BY <1>13, <2>1, <2>3, <2>5, StringIs
  <2> QED BY <1>2, <1>3, <2>1, <2>6, Zenon DEF l, ls
<1>15. CASE Len(ls) # 1
  <2>1. l = ls[Len(ls) - 1] /\ l \in Seq(C) /\ Len(l) < BUFF_MAX /\ Len(ls) > 1 /\ ls[Len(ls)] = <<>>
    <3>4. Len(ls) \in Nat \ {0} /\ Len(ls) # 1
      BY <1>12, <1>15, Zenon
    <3>5. \A m \in Nat \ {0} : m # 1 => m - 1 \in 1 .. m /\ m > 1
      OBVIOUS
    <3>1. Len(ls) - 1 \in 1 .. Len(ls) /\ Len(ls) > 1
      BY <3>4, <3>5, Zenon
    <3>3. l = ls[Len(ls) - 1]
      BY <1>15, Zenon DEF CountedLine
    <3>2. ls[Len(ls) - 1] \in Seq(C) /\ Len(ls[Len(ls) - 1]) < BUFF_MAX
      BY <1>12, <3>1 DEF Fits
    <3> QED BY <1>12, <1>15, <3>1, <3>2, <3>3
  <2>2. read.buff[Len(l)] = NUL /\ \A k \in 1 .. Len(l) : read.buff[k - 1] = l[k]
    BY <1>11, <2>1, Zenon DEF WcKeeps
  <2> HIDE DEF l
  <2>3. String(read.buff) = l
    BY <1>13, <2>1, <2>2, StringIs
  <2> QED BY <1>2, <1>3, <2>1, <2>3, Zenon DEF l, ls
<1> QED BY <1>14, <1>15

\* The words that begin among the first k characters.
WordsUpto(l, k) == {i \in 1 .. k : l[i] # BLANK /\ (i = 1 \/ l[i - 1] = BLANK)}

Counted(s, l, k) ==
  s.char = k /\ s.word = Cardinality(WordsUpto(l, k)) /\ (s.inWord <=> k > 0 /\ l[k] # BLANK)

\* A character more.
LEMMA CountStep ==
  ASSUME NEW C, NEW l \in Seq(C), NEW k \in 0 .. Len(l) - 1, NEW s, Counted(s, l, k)
  PROVE  Counted(Count(s, l[k + 1]), l, k + 1)
<1> DEFINE c == l[k + 1]
           Begun(i) == WordsUpto(l, i)
           begins == c # BLANK /\ ~ s.inWord
           t == Count(s, c)
<1>1. k \in Nat /\ k + 1 \in 1 .. k + 1 /\ (k + 1) - 1 = k /\ k + 1 > 0
  OBVIOUS
<1>2. s.char = k /\ s.word = Cardinality(Begun(k)) /\ (s.inWord <=> k > 0 /\ l[k] # BLANK)
  BY Zenon DEF Counted
<1>4. t.char = s.char + 1 /\ t.word = (IF begins THEN s.word + 1 ELSE s.word)
  BY Zenon DEF Count
<1>5. t.inWord = (c # BLANK)
  BY Zenon DEF Count
<1>6. begins <=> c # BLANK /\ (k + 1 = 1 \/ l[k] = BLANK)
  <2>1. ~(k > 0) <=> k + 1 = 1
    BY <1>1
  <2> QED BY <1>2, <2>1, Zenon
<1>7. 1 .. k + 1 = (1 .. k) \cup {k + 1} /\ k + 1 \notin 1 .. k
  BY <1>1
<1>8. IsFiniteSet(Begun(k)) /\ k + 1 \notin Begun(k) /\ Cardinality(Begun(k)) \in Nat
  <2>1. Begun(k) \in SUBSET (1 .. k)
    BY DEF WordsUpto
  <2>2. IsFiniteSet(1 .. k)
    BY <1>1, FS_Interval
  <2>3. IsFiniteSet(Begun(k))
    BY <2>1, <2>2, FS_Subset
  <2>4. Cardinality(Begun(k)) \in Nat
    BY <2>3, FS_CardinalityType
  <2> QED BY <1>7, <2>1, <2>3, <2>4
<1>9. begins => Begun(k + 1) = Begun(k) \cup {k + 1}
  BY <1>1, <1>6, <1>7, Zenon DEF WordsUpto
<1>10. ~ begins => Begun(k + 1) = Begun(k)
  BY <1>1, <1>6, <1>7, Zenon DEF WordsUpto
<1> HIDE DEF t, begins, Begun
<1>11. begins => Cardinality(Begun(k + 1)) = Cardinality(Begun(k)) + 1
  BY <1>8, <1>9, FS_AddElement, Zenon
<1>12. t.word = Cardinality(Begun(k + 1))
  BY <1>2, <1>4, <1>10, <1>11, Zenon
<1>13. Counted(t, l, k + 1)
  <2>1. t.char = k + 1
    BY <1>2, <1>4, Zenon
  <2>2. t.inWord <=> k + 1 > 0 /\ l[k + 1] # BLANK
    BY <1>1, <1>5, Zenon
  <2> QED BY <1>12, <2>1, <2>2, Zenon DEF Counted, Begun
<1> QED BY <1>13 DEF t

\* wc counts the characters and the words of its line.
LEMMA WcSays ==
  ASSUME NEW C, NEWLINE \in C, NUL \notin C, NEW keys \in Seq(C), Fits(LinesOf(keys)),
         Len(LinesOf(keys)) = 1 \/ LinesOf(keys)[Len(LinesOf(keys))] = <<>>
  PROVE  LET counted == CountedLine(LinesOf(keys))
         IN  \A front \in InFront : LET counts == wc(keys, front)
                                  IN  counts[1] = Len(counted) /\ counts[2] = Cardinality(Words(counted))
<1> DEFINE l == CountedLine(LinesOf(keys))
           n == Len(l)
           start == [char |-> 0, word |-> 0, inWord |-> FALSE]
           total == FoldLeft(Count, start, l)
<1>1. WcBuffer(keys) = l /\ l \in Seq(C)
  BY WcReads
<1>2. ASSUME NEW front \in InFront PROVE wc(keys, front)[1] = total.char /\ wc(keys, front)[2] = total.word
  <2> DEFINE third == IF (IF total.char = 0 THEN front ELSE l[total.char]) = NUL THEN 1 ELSE 0
  <2>1. wc(keys, front) = <<total.char, total.word, third>>
    BY <1>1, Zenon DEF wc
  <2> HIDE DEF third, total
  <2> QED BY <2>1
<1> HIDE DEF l
<1>3. n \in Nat /\ DOMAIN l = 1 .. n
  BY <1>1
<1>4. Reaches("count", start, l, n, total)
  BY <1>3, CountReached
<1>5. \A a, b : CharStep("count", a, b) = Count(a, b)
  BY DEF CharStep
<1> HIDE DEF total
<1>6. PICK q : q[0] = start /\ (\A k \in 0 .. n - 1 : q[k + 1] = Count(q[k], l[k + 1])) /\ total = q[n]
  BY <1>4, <1>5, Zenon DEF Reaches
<1> DEFINE S == {k \in Nat : k <= n => Counted(q[k], l, k)}
<1>7. 0 \in S
  <2>1. start.char = 0 /\ start.word = 0
    BY Zenon
  <2>2. start.inWord = FALSE
    BY Zenon
  <2> HIDE DEF start
  <2>3. WordsUpto(l, 0) = {} /\ Cardinality({}) = 0 /\ ~(0 > 0)
    BY FS_EmptySet DEF WordsUpto
  <2>4. Counted(q[0], l, 0)
    BY <1>6, <2>1, <2>2, <2>3, Zenon DEF Counted
  <2> QED BY <2>4
<1>8. ASSUME NEW k \in Nat, k \in S PROVE k + 1 \in S
  <2> SUFFICES ASSUME k + 1 <= n PROVE Counted(q[k + 1], l, k + 1)
    OBVIOUS
  <2>1. k \in 0 .. n - 1 /\ Counted(q[k], l, k)
    BY <1>3, <1>8
  <2>2. Counted(Count(q[k], l[k + 1]), l, k + 1)
    BY <1>1, <2>1, CountStep
  <2> QED BY <1>6, <2>1, <2>2
<1>9. Nat \subseteq S
  <2> HIDE DEF S
  <2> QED BY <1>7, <1>8, Induct
<1>10. Counted(total, l, n)
  <2>1. n \in Nat /\ n <= n
    BY <1>3
  <2> QED BY <1>6, <1>9, <2>1
<1>11. WordsUpto(l, n) = Words(l)
  BY <1>3, Zenon DEF WordsUpto, Words
<1>12. total.char = n /\ total.word = Cardinality(Words(l))
  BY <1>10, <1>11, Zenon DEF Counted
<1> QED BY <1>2, <1>12, Zenon DEF l

\* For all keys whose lines fit into the buffer the programs print what they are
\* there for: cat every finished line twice, filter the vowels of the first line,
\* wc the characters and words of its line, whatever was in the buffer before.
THEOREM EveryLineAnswered ==
  ASSUME NEW Keys, NUL \notin Keys, NEW keys \in Seq(Keys), Fits(LinesOf(keys))
  PROVE  Answers(keys)
<1> DEFINE C == Keys \cup {NEWLINE}
           lines == LinesOf(keys)
<1>1. NEWLINE \in C /\ NUL \notin C
  BY DEF NEWLINE, NUL
<1>2. keys \in Seq(C)
  BY Sequence!SeqMonotonic
<1> HIDE DEF C
<1>3. PICK q : Typed(q, Before(keys, {EOT})) /\ lines = q[Len(Before(keys, {EOT}))]
  BY <1>2, LinesTyped
<1>4. lines \in Seq(Seq(C)) /\ lines # <<>>
  <2>1. Before(keys, {EOT}) \in Seq(C) /\ Len(Before(keys, {EOT})) \in Nat
    BY <1>2, BeforeEnd, Zenon
  <2>2. Len(Before(keys, {EOT})) \in 0 .. Len(Before(keys, {EOT}))
    BY <2>1
  <2> QED BY <1>1, <1>3, <2>1, <2>2, TypedLines
<1>5. cat(keys) = Said(lines)
  BY <1>1, <1>2, CatSays
<1>6. lines[1] = Before(keys, {ENTER, EOT})
  BY <1>1, <1>2, FirstLine
<1>7. filter(keys) = lines[1] \o <<NEWLINE>> \o FoldLeft(WithVowel, <<>>, lines[1]) \o <<NEWLINE>>
  <2>1. 1 \in 1 .. Len(lines)
    BY <1>4
  <2>2. Len(lines[1]) < BUFF_MAX
    BY <2>1 DEF Fits
  <2>3. Len(Before(keys, {ENTER, EOT})) < BUFF_MAX
    BY <1>6, <2>2
  <2> HIDE DEF lines
  <2>4. LET f == Before(keys, {ENTER, EOT})
        IN  filter(keys) = f \o <<NEWLINE>> \o FoldLeft(WithVowel, <<>>, f) \o <<NEWLINE>>
    BY <1>1, <1>2, <2>3, FilterSays
  <2> QED BY <1>6, <2>4, Zenon
<1>8. Len(lines) = 1 \/ lines[Len(lines)] = <<>> =>
        \A front \in InFront : LET counts == wc(keys, front)
                              IN  /\ counts[1] = Len(CountedLine(lines))
                                  /\ counts[2] = Cardinality(Words(CountedLine(lines)))
  <2> SUFFICES ASSUME Len(lines) = 1 \/ lines[Len(lines)] = <<>>
               PROVE  \A front \in InFront :
                        LET counts == wc(keys, front)
                        IN  /\ counts[1] = Len(CountedLine(lines))
                            /\ counts[2] = Cardinality(Words(CountedLine(lines)))
    OBVIOUS
  <2> QED BY <1>1, <1>2, WcSays, Zenon
<1>9. cat(keys) = FlattenSeq([k \in DOMAIN lines |-> IF k = Len(lines) THEN lines[k]
                                ELSE lines[k] \o <<NEWLINE>> \o lines[k] \o <<NEWLINE>>])
  BY <1>5, Zenon DEF Said, Twiced, Twice
<1> QED BY <1>7, <1>8, <1>9, Zenon DEF Answers, CountedLine

\* Lines that are no longer than what was typed fit when that does.
LEMMA ShortFits ==
  ASSUME NEW Keys, NEW keys \in Seq(Keys), Len(keys) < BUFF_MAX
  PROVE  Fits(LinesOf(keys))
<1> DEFINE C == Keys \cup {NEWLINE}
           s == Before(keys, {EOT})
<1>1. NEWLINE \in C /\ keys \in Seq(C)
  BY Sequence!SeqMonotonic
<1> HIDE DEF C
<1>2. PICK q : Typed(q, s) /\ LinesOf(keys) = q[Len(s)]
  BY <1>1, LinesTyped
<1>3. s \in Seq(C) /\ Len(s) \in Nat /\ Len(s) <= Len(keys) /\ Len(keys) \in Nat /\ BUFF_MAX \in Nat
  <2>1. s \in Seq(C) /\ Len(s) \in Nat /\ Len(s) <= Len(keys)
    BY <1>1, BeforeEnd, Zenon
  <2> QED BY <2>1, BufferAssumption
<1> HIDE DEF s
<1> DEFINE n == Len(s)
           ls == q[n]
<1>4. ls \in Seq(Seq(C)) /\ \A i \in 1 .. Len(ls) : Len(ls[i]) <= n
  <2>1. n \in 0 .. n
    BY <1>3
  <2> QED BY <1>1, <1>2, <1>3, <2>1, TypedLines
<1> HIDE DEF ls
<1>5. ASSUME NEW i \in 1 .. Len(ls) PROVE Len(ls[i]) < BUFF_MAX
  <2>1. ls[i] \in Seq(C)
    BY <1>4
  <2>2. Len(ls[i]) <= n /\ Len(ls[i]) \in Nat
    BY <1>4, <2>1
  <2> QED BY <1>3, <2>2
<1>6. Fits(ls)
  BY <1>5 DEF Fits
<1> QED BY <1>2, <1>6 DEF ls

\* A line of the screen with its Enter is that line and an empty one.
LEMMA ShownFits ==
  ASSUME NEW l \in Seq(Letters), Len(l) < MAX_TERMINAL_CHARS
  PROVE  Fits(LinesOf(l \o <<ENTER, EOT>>))
<1> DEFINE keys == l \o <<ENTER, EOT>>
           K == Letters \cup {ENTER, EOT}
           V == K \cup {NEWLINE}
           s == Before(keys, {EOT})
           n == Len(l)
<1>1. n \in Nat /\ n < BUFF_MAX /\ BUFF_MAX \in Nat /\ ENTER \notin Letters /\ EOT \notin Letters
  <2>1. n \in Nat
    OBVIOUS
  <2>2. MAX_TERMINAL_CHARS \in Nat
    BY LineAssumption
  <2> QED BY <2>1, <2>2, BufferAssumption
<1>2. /\ keys \in Seq(K) /\ Len(keys) = n + 2 /\ keys[n + 1] = ENTER /\ keys[n + 2] = EOT
      /\ \A i \in 1 .. n : keys[i] = l[i] /\ keys[i] \in Letters
  <2>1. l \in Seq(K) /\ <<ENTER, EOT>> \in Seq(K) /\ Len(<<ENTER, EOT>>) = 2 /\ \A i \in 1 .. n : l[i] \in Letters
    BY Sequence!SeqMonotonic
  <2>2. keys \in Seq(K) /\ Len(keys) = n + 2 /\ \A i \in 1 .. n + 2 : keys[i] = IF i <= n THEN l[i] ELSE <<ENTER, EOT>>[i - n]
    BY <2>1, Sequence!ConcatProperties
  <2> HIDE DEF keys
  <2>3. n + 1 \in 1 .. n + 2 /\ n + 2 \in 1 .. n + 2 /\ ~(n + 1 <= n) /\ ~(n + 2 <= n) /\ (n + 1) - n = 1 /\ (n + 2) - n = 2
    BY <1>1
  <2>4. \A i \in 1 .. n : i \in 1 .. n + 2 /\ i <= n
    BY <1>1
  <2>5. <<ENTER, EOT>>[1] = ENTER /\ <<ENTER, EOT>>[2] = EOT
    OBVIOUS
  <2> QED BY <2>1, <2>2, <2>3, <2>4, <2>5, Zenon
<1> HIDE DEF keys
<1>3. PICK m \in 0 .. Len(keys) : /\ s = SubSeq(keys, 1, m) /\ \A i \in 1 .. m : keys[i] \notin {EOT}
                                  /\ m < Len(keys) => keys[m + 1] \in {EOT}
  BY <1>2, BeforeIs
<1>4. m = n + 1
  <2>1. ENTER # EOT
    BY DEF ENTER, EOT
  <2>2. ~(m > n + 1)
    <3>1. m > n + 1 => n + 2 \in 1 .. m
      BY <1>1
    <3> QED BY <1>2, <1>3, <3>1
  <2>3. ~(m < n)
    <3>1. m < n => m + 1 \in 1 .. n /\ m < Len(keys)
      BY <1>1, <1>2
    <3> QED BY <1>1, <1>2, <1>3, <3>1
  <2>4. m # n
    <3>1. m = n => m < Len(keys)
      BY <1>1, <1>2
    <3> QED BY <1>2, <1>3, <2>1, <3>1
  <2> QED BY <1>1, <1>2, <2>2, <2>3, <2>4
<1>5. /\ s \in Seq(V) /\ Len(s) = n + 1 /\ s[n + 1] = ENTER /\ (\A i \in 1 .. n : s[i] # ENTER)
      /\ NEWLINE \in V
  <2>1. /\ SubSeq(keys, 1, n + 1) \in Seq(K) /\ Len(SubSeq(keys, 1, n + 1)) = n + 1
        /\ \A i \in 1 .. n + 1 : SubSeq(keys, 1, n + 1)[i] = keys[i]
    BY <1>1, <1>2
  <2>2. s \in Seq(K) /\ Len(s) = n + 1 /\ \A i \in 1 .. n + 1 : s[i] = keys[i]
    BY <1>3, <1>4, <2>1, Zenon
  <2> HIDE DEF s
  <2>3. s \in Seq(V)
    BY <2>2, Sequence!SeqMonotonic
  <2>4. n + 1 \in 1 .. n + 1 /\ \A i \in 1 .. n : i \in 1 .. n + 1
    BY <1>1
  <2> QED BY <1>1, <1>2, <2>2, <2>3, <2>4
<1>6. PICK q : Typed(q, s) /\ LinesOf(keys) = q[Len(s)]
  <2>1. \E q : Typed(q, Before(keys, {EOT})) /\ LinesOf(keys) = q[Len(Before(keys, {EOT}))]
    BY <1>2, LinesTyped
  <2> QED BY <2>1
<1> HIDE DEF s
<1>7. \A k \in 0 .. n + 1 : /\ q[k] \in Seq(Seq(V)) /\ q[k] # <<>>
                            /\ \A i \in 1 .. Len(q[k]) : Len(q[k][i]) <= k
  BY <1>5, <1>6, TypedLines
<1> DEFINE ls == q[n]
           new == WithKey(ls, ENTER)
<1>8. ls \in Seq(Seq(V)) /\ ls # <<>> /\ \A i \in 1 .. Len(ls) : Len(ls[i]) <= n
  <2>1. n \in 0 .. n + 1
    BY <1>1
  <2> QED BY <1>7, <2>1
<1>9. LinesOf(keys) = new
  <2>1. n \in 0 .. Len(s) - 1
    BY <1>1, <1>5
  <2> QED BY <1>5, <1>6, <2>1 DEF Typed
<1> HIDE DEF ls
<1>10. Len(new) = Len(ls) + 1 /\ (\A i \in 1 .. Len(ls) : new[i] = ls[i]) /\ new[Len(ls) + 1] = <<>> /\ Len(ls) \in Nat
  <2>1. NEWLINE \in V /\ ls \in Seq(Seq(V)) /\ ls # <<>>
    BY <1>5, <1>8
  <2>2. Len(ls) \in Nat
    BY <2>1
  <2> HIDE DEF V
  <2>3. Len(new) = Len(ls) + 1 /\ (\A i \in 1 .. Len(ls) : new[i] = ls[i]) /\ new[Len(ls) + 1] = <<>>
    BY <2>1, SaidEnter
  <2> QED BY <2>2, <2>3
<1> HIDE DEF new
<1>11. ASSUME NEW i \in 1 .. Len(new) PROVE Len(new[i]) < BUFF_MAX
  <2>1. CASE i \in 1 .. Len(ls)
    <3>1. ls[i] \in Seq(V)
      BY <1>8, <2>1
    <3>2. Len(ls[i]) <= n /\ Len(ls[i]) \in Nat /\ new[i] = ls[i]
      BY <1>8, <1>10, <2>1, <3>1
    <3>3. Len(new[i]) = Len(ls[i])
      BY <3>2, Zenon
    <3> QED BY <1>1, <3>2, <3>3
  <2>2. CASE i = Len(ls) + 1
    <3>1. Len(new[i]) = 0
      BY <1>10, <2>2
    <3> QED BY <1>1, <3>1
  <2> QED BY <1>10, <2>1, <2>2
<1>12. Fits(new)
  BY <1>11 DEF Fits
<1> QED BY <1>9, <1>12 DEF keys

\* Every line on the screen is answered, and whatever else is typed.
LEMMA AllAreAnswered ==
  ASSUME line \in Seq(Letters), Len(line) < MAX_TERMINAL_CHARS
  PROVE  ProgramsAnswer
<1>1. ASSUME NEW keys \in UNION {[1 .. n -> TypedKey] : n \in 0 .. MaxTyped} PROVE Answers(keys)
  <2>1. PICK n \in 0 .. MaxTyped : keys \in [1 .. n -> TypedKey]
    OBVIOUS
  <2>2. n \in Nat /\ n < BUFF_MAX
    BY BufferAssumption
  <2>3. keys \in Seq(TypedKey) /\ Len(keys) = n
    BY <2>1, <2>2, Sequence!SeqDef, Sequence!LenProperties
  <2>4. NUL \notin TypedKey
    BY DEF NUL, TypedKey, BLANK, ENTER, EOT
  <2>5. Fits(LinesOf(keys))
    BY <2>2, <2>3, ShortFits
  <2> QED BY <2>3, <2>4, <2>5, EveryLineAnswered
<1>2. Answers(line \o <<ENTER, EOT>>)
  <2> DEFINE K == Letters \cup {ENTER, EOT}
  <2>1. NUL \notin K
    BY BufferAssumption DEF NUL, ENTER, EOT
  <2>2. line \in Seq(K) /\ <<ENTER, EOT>> \in Seq(K)
    BY Sequence!SeqMonotonic
  <2>3. line \o <<ENTER, EOT>> \in Seq(K)
    BY <2>2
  <2>4. Fits(LinesOf(line \o <<ENTER, EOT>>))
    BY ShownFits
  <2> HIDE DEF K
  <2> QED BY <2>1, <2>3, <2>4, EveryLineAnswered
<1> QED BY <1>1, <1>2, Zenon DEF ProgramsAnswer, AllAnswered

\* Once a line is being typed and while commands run, whatever was printed, typed
\* or wiped: a number that is shown reads back, and so does what was typed for one.
THEOREM NumbersStayReadable == ScreenSpec => []NumbersReadBack
<1>1. ScreenInv => NumbersReadBack
  BY AllReadBack DEF ScreenInv
<1> QED BY <1>1, ScreenInvariant, PTL

\* cat, wc and filter answer any few keys, and every line that is ever on the screen.
THEOREM LinesStayAnswered == ScreenSpec => []ProgramsAnswer
<1>1. ScreenInv => ProgramsAnswer
  BY AllAreAnswered DEF ScreenInv
<1> QED BY <1>1, ScreenInvariant, PTL

-----------------------------------------------------------------------------
(* The game of tron: its verdicts, for boards of every size and any number *)
(* of games.                                                               *)

Area == (0 .. canvas.width - 1) \X (0 .. canvas.height - 1)

\* While a game is played both players are on their trails, and nothing is decided.
OnTrail ==
  phase \in {"playing", "paused"} =>
    Cell(p1) \in board /\ Cell(p2) \in board /\ result = NONE

IInv == TypeOK /\ OnTrail /\ DrawIsMutual

USE DEF UP, DOWN, LEFT, RIGHT, Vertical, Horizontal, NO_KEY, UNSET,
        DRAW, PLAYER1_WON, PLAYER2_WON, NONE

-----------------------------------------------------------------------------
(* One move.                                                               *)

\* Both start on the board, on cells of their own.
LEMMA StartsOnBoard ==
  ASSUME canvas \in Canvases
  PROVE  /\ Start1 \in Player /\ Start2 \in Player
         /\ Cell(Start1) \in Area /\ Cell(Start2) \in Area
         /\ Cell(Start1) # Cell(Start2)
<1>1. canvas \in [width : Nat, height : Nat \ {0}] /\ canvas.width \div 5 # (4 * canvas.width) \div 5
  BY CanvasAssumption
<1>2. PICK w \in Nat, h \in Nat \ {0} : canvas.width = w /\ canvas.height = h
  BY <1>1
<1>3. w > 0 /\ (4 * w) \div 5 \in 0 .. w - 1 /\ w \div 5 \in 0 .. w - 1 /\ h \div 2 \in 0 .. h - 1
  BY <1>1, <1>2
<1> QED BY <1>1, <1>2, <1>3 DEF Start1, Start2, Player, Cell, Area

\* A player who turns stays where it is.
LEMMA TurnedInPlace ==
  ASSUME NEW p \in Player, NEW key,
         NEW keys, \A k \in DOMAIN keys : keys[k] \in Vertical \cup Horizontal
  PROVE  Turned(p, keys, key) \in Player /\ Cell(Turned(p, keys, key)) = Cell(p)
BY DEF Turned, Player, Cell

\* Every key of a player stands for a direction.
LEMMA KeysAreDirections ==
  /\ \A k \in DOMAIN Keys1 : Keys1[k] \in Vertical \cup Horizontal
  /\ \A k \in DOMAIN Keys2 : Keys2[k] \in Vertical \cup Horizontal
BY DEF Keys1, Keys2

\* A move is a step to the next cell.
LEMMA TickMoves ==
  ASSUME NEW p \in Player
  PROVE  /\ tick(p) \in Player /\ tick(p).dir = p.dir
         /\ p.dir = UP => tick(p).x = p.x /\ tick(p).y = p.y - 1
         /\ p.dir = DOWN => tick(p).x = p.x /\ tick(p).y = p.y + 1
         /\ p.dir = LEFT => tick(p).x = p.x - 1 /\ tick(p).y = p.y
         /\ p.dir = RIGHT => tick(p).x = p.x + 1 /\ tick(p).y = p.y
BY DEF tick, Player

\* To have lost is to be harmed.
LEMMA LostIsHarmed ==
  ASSUME NEW p \in Player
  PROVE  Lost(p) <=> ~ Unharmed(p)
BY DEF Lost, Unharmed, isValidPoint, Cell, Player

\* Two on one line who went one down and one up by 1, and who are at most 1 apart.
LEMMA Crossing ==
  ASSUME NEW p \in Int, NEW q \in Int, NEW a \in Int, NEW b \in Int,
         p = a + 1, q = b - 1, p - q \in {-1, 0, 1}
  PROVE  q = p \/ (q - 1 = p /\ p + 1 = q) \/ (q = a /\ p = b)
OBVIOUS

\* Two players who are taken for head-on have met, are about to, have passed each
\* other, or are misjudged.
LEMMA HeadOnMeans ==
  ASSUME NEW a \in Player, NEW b \in Player, HeadOn(tick(a), tick(b))
  PROVE  \/ Cell(tick(a)) = Cell(tick(b))
         \/ Cell(tick(tick(a))) = Cell(tick(b)) /\ Cell(tick(tick(b))) = Cell(tick(a))
         \/ Cell(tick(a)) = Cell(b) /\ Cell(tick(b)) = Cell(a)
         \/ /\ a.dir = DOWN /\ b.dir = LEFT
            /\ tick(a).x = tick(b).x /\ Near(tick(a).y, tick(b).y)
<1> DEFINE p == tick(a)
           q == tick(b)
<1>1. p \in Player /\ q \in Player /\ p.dir = a.dir /\ q.dir = b.dir
  BY TickMoves
<1>2. a.dir \in {0, 1, 2, 3} /\ b.dir \in {0, 1, 2, 3}
  BY DEF Player
<1>3. /\ a.x \in Int /\ a.y \in Int /\ b.x \in Int /\ b.y \in Int
      /\ p.x \in Int /\ p.y \in Int /\ q.x \in Int /\ q.y \in Int
  BY <1>1 DEF Player
<1>4. CASE a.dir = UP /\ b.dir = DOWN
  <2>1. p.y - q.y \in {-1, 0, 1} /\ p.x = q.x
    BY <1>1, <1>4 DEF HeadOn, Near
  <2>2. /\ p.x = a.x /\ p.y = a.y - 1 /\ tick(p).x = p.x /\ tick(p).y = p.y - 1
        /\ q.x = b.x /\ q.y = b.y + 1 /\ tick(q).x = q.x /\ tick(q).y = q.y + 1
    BY <1>1, <1>4, TickMoves
  <2> HIDE DEF p, q
  <2>3. p.y = q.y \/ (tick(p).y = q.y /\ tick(q).y = p.y) \/ (p.y = b.y /\ q.y = a.y)
    BY <1>3, <2>1, <2>2
  <2>4. Cell(p) = Cell(q) \/ (Cell(tick(p)) = Cell(q) /\ Cell(tick(q)) = Cell(p))
        \/ (Cell(p) = Cell(b) /\ Cell(q) = Cell(a))
    BY <2>1, <2>2, <2>3 DEF Cell
  <2> QED BY <2>4 DEF p, q
<1>5. CASE a.dir = DOWN /\ b.dir = UP
  <2>1. p.y - q.y \in {-1, 0, 1} /\ p.x = q.x
    BY <1>1, <1>5 DEF HeadOn, Near
  <2>2. /\ p.x = a.x /\ p.y = a.y + 1 /\ tick(p).x = p.x /\ tick(p).y = p.y + 1
        /\ q.x = b.x /\ q.y = b.y - 1 /\ tick(q).x = q.x /\ tick(q).y = q.y - 1
    BY <1>1, <1>5, TickMoves
  <2> HIDE DEF p, q
  <2>3. p.y = q.y \/ (tick(p).y = q.y /\ tick(q).y = p.y) \/ (p.y = b.y /\ q.y = a.y)
    <3>1. p.y - q.y \in {-1, 0, 1}
      BY <2>1
    <3>2. q.y = p.y \/ (q.y - 1 = p.y /\ p.y + 1 = q.y) \/ (q.y = a.y /\ p.y = b.y)
      BY <1>3, <2>2, <3>1, Crossing
    <3> QED BY <2>2, <3>2
  <2>4. Cell(p) = Cell(q) \/ (Cell(tick(p)) = Cell(q) /\ Cell(tick(q)) = Cell(p))
        \/ (Cell(p) = Cell(b) /\ Cell(q) = Cell(a))
    BY <2>1, <2>2, <2>3 DEF Cell
  <2> QED BY <2>4 DEF p, q
<1>6. CASE a.dir = LEFT /\ b.dir = RIGHT
  <2>1. p.x - q.x \in {-1, 0, 1} /\ p.y = q.y
    BY <1>1, <1>6 DEF HeadOn, Near
  <2>2. /\ p.y = a.y /\ p.x = a.x - 1 /\ tick(p).y = p.y /\ tick(p).x = p.x - 1
        /\ q.y = b.y /\ q.x = b.x + 1 /\ tick(q).y = q.y /\ tick(q).x = q.x + 1
    BY <1>1, <1>6, TickMoves
  <2> HIDE DEF p, q
  <2>3. p.x = q.x \/ (tick(p).x = q.x /\ tick(q).x = p.x) \/ (p.x = b.x /\ q.x = a.x)
    BY <1>3, <2>1, <2>2
  <2>4. Cell(p) = Cell(q) \/ (Cell(tick(p)) = Cell(q) /\ Cell(tick(q)) = Cell(p))
        \/ (Cell(p) = Cell(b) /\ Cell(q) = Cell(a))
    BY <2>1, <2>2, <2>3 DEF Cell
  <2> QED BY <2>4 DEF p, q
<1>7. CASE a.dir = RIGHT /\ b.dir = LEFT
  <2>1. p.x - q.x \in {-1, 0, 1} /\ p.y = q.y
    BY <1>1, <1>7 DEF HeadOn, Near
  <2>2. /\ p.y = a.y /\ p.x = a.x + 1 /\ tick(p).y = p.y /\ tick(p).x = p.x + 1
        /\ q.y = b.y /\ q.x = b.x - 1 /\ tick(q).y = q.y /\ tick(q).x = q.x - 1
    BY <1>1, <1>7, TickMoves
  <2> HIDE DEF p, q
  <2>3. p.x = q.x \/ (tick(p).x = q.x /\ tick(q).x = p.x) \/ (p.x = b.x /\ q.x = a.x)
    <3>1. p.x - q.x \in {-1, 0, 1}
      BY <2>1
    <3>2. q.x = p.x \/ (q.x - 1 = p.x /\ p.x + 1 = q.x) \/ (q.x = a.x /\ p.x = b.x)
      BY <1>3, <2>2, <3>1, Crossing
    <3> QED BY <2>2, <3>2
  <2>4. Cell(p) = Cell(q) \/ (Cell(tick(p)) = Cell(q) /\ Cell(tick(q)) = Cell(p))
        \/ (Cell(p) = Cell(b) /\ Cell(q) = Cell(a))
    BY <2>1, <2>2, <2>3 DEF Cell
  <2> QED BY <2>4 DEF p, q
<1>8. CASE a.dir = DOWN /\ b.dir = LEFT
  BY <1>1, <1>8 DEF HeadOn
<1> QED BY <1>1, <1>2, <1>4, <1>5, <1>6, <1>7, <1>8 DEF HeadOn, Opposed

\* What a verdict says of the positions it is about.
LEMMA VerdictMeans ==
  ASSUME NEW p \in Player, NEW q \in Player
  PROVE  /\ validPositions(p, q) \in {DRAW, PLAYER1_WON, PLAYER2_WON, NONE}
         /\ validPositions(p, q) = DRAW =>
              HeadOn(p, q) \/ Cell(p) = Cell(q) \/ (~ Unharmed(p) /\ ~ Unharmed(q))
         /\ validPositions(p, q) = PLAYER1_WON => Unharmed(p) /\ ~ Unharmed(q)
         /\ validPositions(p, q) = PLAYER2_WON => Unharmed(q) /\ ~ Unharmed(p)
         /\ validPositions(p, q) = NONE => Unharmed(p) /\ Unharmed(q) /\ Cell(p) # Cell(q)
BY LostIsHarmed DEF validPositions

-----------------------------------------------------------------------------
(* Steps.                                                                  *)

\* A game that begins.
LEMMA StartGameKeeps ==
  ASSUME canvas \in Canvases, StartGame, canvas' = canvas,
         player1Score' \in Nat /\ player2Score' \in Nat
  PROVE  IInv'
<1>1. canvas' \in Canvases /\ Start1' = Start1 /\ Start2' = Start2
  BY DEF Start1, Start2
<1>2. p1' \in Player /\ p2' \in Player /\ board' \subseteq Area
  BY StartsOnBoard DEF StartGame
<1>3. TypeOK'
  BY <1>1, <1>2 DEF StartGame, TypeOK, Area
<1>4. OnTrail'
  BY DEF StartGame, OnTrail
<1>5. DrawIsMutual'
  BY <1>3 DEF StartGame, DrawIsMutual
<1> QED BY <1>3, <1>4, <1>5 DEF IInv

\* Where a move leads from a state of the invariant.
LEMMA MoveMeans ==
  ASSUME IInv, NEW key, Move(key), canvas' = canvas, phase \in {"playing", "paused"}
  PROVE  \E a \in Player, b \in Player :
           /\ Cell(a) \in board /\ Cell(b) \in board
           /\ p1' = tick(a) /\ p2' = tick(b)
           /\ p1' \in Player /\ p2' \in Player
           /\ result' = validPositions(p1', p2')
<1> DEFINE Heading(p, keys) == IF key = oldKey THEN p ELSE Turned(p, keys, key)
           a == Heading(p1, Keys1)
           b == Heading(p2, Keys2)
<1>1. p1 \in Player /\ p2 \in Player /\ Cell(p1) \in board /\ Cell(p2) \in board
  BY DEF IInv, TypeOK, OnTrail
<1>2. a \in Player /\ Cell(a) = Cell(p1)
  BY <1>1, TurnedInPlace, KeysAreDirections
<1>3. b \in Player /\ Cell(b) = Cell(p2)
  BY <1>1, TurnedInPlace, KeysAreDirections
<1>4. p1' = tick(a) /\ p2' = tick(b) /\ result' = validPositions(tick(a), tick(b))
  BY DEF Move
<1> HIDE DEF a, b
<1>5. tick(a) \in Player /\ tick(b) \in Player
  BY <1>2, <1>3, TickMoves
<1> QED BY <1>1, <1>2, <1>3, <1>4, <1>5

\* A cell of the board without a trail.
LEMMA UnharmedIsFree ==
  ASSUME NEW p
  PROVE  Unharmed(p) <=> Cell(p) \in Area /\ Cell(p) \notin board
BY DEF Unharmed, Area

\* A verdict gives at most one point.
LEMMA PointsGiven ==
  ASSUME NEW key, Move(key), player1Score \in Nat, player2Score \in Nat
  PROVE  /\ player1Score' \in {player1Score, player1Score + 1}
         /\ player2Score' \in {player2Score, player2Score + 1}
         /\ player1Score' # player1Score => result' = PLAYER1_WON
         /\ player2Score' # player2Score => result' = PLAYER2_WON
<1> DEFINE first == IF result' = PLAYER1_WON THEN 1 ELSE 0
           second == IF result' = PLAYER2_WON THEN 1 ELSE 0
<1>1. player1Score' = player1Score + first /\ player2Score' = player2Score + second
  BY DEF Move
<1>2. first \in {0, 1} /\ second \in {0, 1}
      /\ (first # 0 => result' = PLAYER1_WON) /\ (second # 0 => result' = PLAYER2_WON)
  OBVIOUS
<1> HIDE DEF first, second
<1>3. player1Score + 0 = player1Score /\ player2Score + 0 = player2Score
  OBVIOUS
<1> QED BY <1>1, <1>2, <1>3

\* A move keeps the invariant.  The cell a player comes from has a trail: two who
\* pass each other, which head-on does not tell from meeting, are both harmed.
LEMMA MoveKeeps ==
  ASSUME IInv, NEW key \in Key, Move(key), canvas' = canvas, phase \in {"playing", "paused"}
  PROVE  IInv'
<1>1. PICK a \in Player, b \in Player :
        /\ Cell(a) \in board /\ Cell(b) \in board
        /\ p1' = tick(a) /\ p2' = tick(b)
        /\ p1' \in Player /\ p2' \in Player
        /\ result' = validPositions(p1', p2')
  BY MoveMeans
<1>2. TypeOK
  BY DEF IInv
<1>3. /\ phase' = (IF result' = NONE THEN "playing" ELSE "over")
      /\ board' = (IF result' = NONE THEN Marked(p1', p2') ELSE board)
      /\ oldKey' = key
  BY DEF Move
<1>10. player1Score' \in Nat /\ player2Score' \in Nat
  <2>1. player1Score \in Nat /\ player2Score \in Nat
    BY <1>2 DEF TypeOK
  <2>2. player1Score' \in {player1Score, player1Score + 1} /\ player2Score' \in {player2Score, player2Score + 1}
    BY <2>1, PointsGiven
  <2> QED BY <2>1, <2>2
<1>4. result' = NONE => Cell(p1') \in Area /\ Cell(p2') \in Area
  BY <1>1, VerdictMeans, UnharmedIsFree
<1>5. result' \in {DRAW, PLAYER1_WON, PLAYER2_WON, NONE}
  BY <1>1, VerdictMeans
<1>6. board' \subseteq Area
  BY <1>2, <1>3, <1>4 DEF Marked, TypeOK, Area
<1>7. TypeOK'
  BY <1>1, <1>2, <1>3, <1>5, <1>6, <1>10 DEF TypeOK, Area
<1>8. OnTrail'
  BY <1>3 DEF OnTrail, Marked, Cell
<1>9. ASSUME result' = DRAW
      PROVE  \/ ~ Unharmed(p1') /\ ~ Unharmed(p2')
             \/ Cell(p1') = Cell(p2')
             \/ Cell(tick(p1')) = Cell(p2') /\ Cell(tick(p2')) = Cell(p1')
             \/ p1'.dir = DOWN /\ p2'.dir = LEFT /\ p1'.x = p2'.x /\ Near(p1'.y, p2'.y)
  <2>1. HeadOn(p1', p2') \/ Cell(p1') = Cell(p2') \/ (~ Unharmed(p1') /\ ~ Unharmed(p2'))
    BY <1>1, <1>9, VerdictMeans
  <2>2. CASE HeadOn(p1', p2')
    <3>1. \/ Cell(tick(a)) = Cell(tick(b))
          \/ Cell(tick(tick(a))) = Cell(tick(b)) /\ Cell(tick(tick(b))) = Cell(tick(a))
          \/ Cell(tick(a)) = Cell(b) /\ Cell(tick(b)) = Cell(a)
          \/ /\ a.dir = DOWN /\ b.dir = LEFT
             /\ tick(a).x = tick(b).x /\ Near(tick(a).y, tick(b).y)
      BY <1>1, <2>2, HeadOnMeans
    <3>2. Cell(tick(a)) = Cell(b) /\ Cell(tick(b)) = Cell(a) => ~ Unharmed(p1') /\ ~ Unharmed(p2')
      BY <1>1, UnharmedIsFree
    <3>3. p1'.dir = a.dir /\ p2'.dir = b.dir
      BY <1>1, TickMoves
    <3> QED BY <1>1, <3>1, <3>2, <3>3
  <2> QED BY <2>1, <2>2
<1>11. DrawIsMutual'
  <2>1. ASSUME phase' = "over" /\ result' = DRAW
        PROVE  (\/ ~ Unharmed(p1) /\ ~ Unharmed(p2)
                \/ Cell(p1) = Cell(p2)
                \/ FaceToFace
                \/ Misjudged)'
    <3>1. board' = board
      BY <1>3, <2>1
    <3>2. Unharmed(p1') <=> (Unharmed(p1))'
      BY <3>1 DEF Unharmed, Cell
    <3>3. Unharmed(p2') <=> (Unharmed(p2))'
      BY <3>1 DEF Unharmed, Cell
    <3>4. /\ Cell(tick(p1')) = Cell(p2') /\ Cell(tick(p2')) = Cell(p1') => FaceToFace'
          /\ Cell(p1') = Cell(p2') => (Cell(p1) = Cell(p2))'
          /\ p1'.dir = DOWN /\ p2'.dir = LEFT /\ p1'.x = p2'.x /\ Near(p1'.y, p2'.y) => Misjudged'
      BY DEF FaceToFace, Misjudged, tick, Cell, Near
    <3> QED BY <1>9, <2>1, <3>2, <3>3, <3>4
  <2> QED BY <1>7, <2>1 DEF DrawIsMutual
<1> QED BY <1>7, <1>8, <1>11 DEF IInv

\* Leaving a game, for a pause or for good, leaves everything where it was.
LEMMA LeaveKeeps ==
  ASSUME IInv, canvas' = canvas, UNCHANGED <<game, result, scores>>,
         \/ phase = "playing" /\ phase' \in {"paused", "over"}
         \/ phase' = "quit"
         \/ phase' = phase
  PROVE  IInv'
<1>1. TypeOK'
  BY DEF IInv, TypeOK, game, scores, Player
<1>2. OnTrail'
  BY DEF IInv, OnTrail, game, Cell
<1>3. phase' = "over" => result # DRAW \/ phase = "over"
  BY DEF IInv, OnTrail
<1>4. DrawIsMutual'
  BY <1>1, <1>3 DEF IInv, DrawIsMutual, game, Unharmed, FaceToFace, Misjudged, Cell, tick, Near
<1> QED BY <1>1, <1>2, <1>4 DEF IInv

\* A game starts with both players on the board and on cells of their own.
THEOREM InvInit == Init => IInv
<1> SUFFICES ASSUME Init
             PROVE  IInv
  OBVIOUS
<1>1. canvas \in Canvases
  BY DEF Init
<1>2. TypeOK
  BY <1>1, StartsOnBoard DEF Init, TypeOK, Area
<1>3. OnTrail
  BY DEF Init, OnTrail
<1> QED BY <1>2, <1>3 DEF Init, IInv, DrawIsMutual

\* Every turn, pause, restart and end keeps the players on their trails and the
\* verdict mutual.
THEOREM InvNext == IInv /\ [Next]_vars => IInv'
<1> SUFFICES ASSUME IInv, [Next]_vars
             PROVE  IInv'
  OBVIOUS
<1>1. TypeOK /\ canvas \in Canvases /\ player1Score \in Nat /\ player2Score \in Nat
  BY DEF IInv, TypeOK
<1>2. CASE Turn /\ UNCHANGED canvas
  BY <1>2, MoveKeeps DEF Turn
<1>3. CASE Resume /\ UNCHANGED canvas
  BY <1>3, MoveKeeps DEF Resume, Key
<1>4. CASE (Restart \/ Pause \/ Quit \/ Killed) /\ UNCHANGED canvas
  BY <1>4, LeaveKeeps DEF Restart, Pause, Quit, Killed
<1>5. CASE (ResetScore \/ PlayAgain \/ Launch) /\ UNCHANGED canvas
  BY <1>1, <1>5, StartGameKeeps DEF ResetScore, PlayAgain, Launch, scores
<1>6. CASE UNCHANGED vars
  BY <1>6, LeaveKeeps DEF vars
<1> QED BY <1>2, <1>3, <1>4, <1>5, <1>6 DEF Next

\* So it is in every state of every game.
THEOREM Invariant == Spec => []IInv
BY InvInit, InvNext, PTL DEF Spec

\* Nobody wins when neither can go on, when the two meet, or when they are about to.
THEOREM DrawMutual == Spec => []DrawIsMutual
<1>1. IInv => DrawIsMutual
  BY DEF IInv
<1> QED BY <1>1, Invariant, PTL

-----------------------------------------------------------------------------
(* What a step may do.                                                     *)

\* A game that begins is no move, and gives nobody a point.
LEMMA OnlyMovesScore ==
  ASSUME IInv, Next, player1Score' > player1Score \/ player2Score' > player2Score
  PROVE  \E key \in Key : Move(key) /\ phase \in {"playing", "paused"} /\ canvas' = canvas
<1>1. player1Score \in Nat /\ player2Score \in Nat
  BY DEF IInv, TypeOK
<1>2. ~ ResetScore
  BY <1>1 DEF ResetScore
<1>3. ~ (Restart \/ Pause \/ PlayAgain \/ Quit \/ Killed \/ Launch)
  BY <1>1 DEF Restart, Pause, PlayAgain, Quit, Killed, Launch, scores
<1> QED BY <1>2, <1>3 DEF Next, Turn, Resume, Key

\* A game that goes on has made a move.
LEMMA OnlyMovesPlayOn ==
  ASSUME IInv, Next, phase' = "playing", phase \in {"playing", "paused"}
  PROVE  \E key \in Key : Move(key) /\ canvas' = canvas
BY DEF Next, Turn, Resume, Restart, Pause, Quit, Killed, PlayAgain, Launch, ResetScore, Key

\* No cell of the board is driven over twice, whatever is typed.
THEOREM TrailsMeet == Spec => TrailsNeverMeet
<1> DEFINE Step == phase' = "playing" /\ phase \in {"playing", "paused"} =>
                     /\ Cell(p1') # Cell(p2')
                     /\ {Cell(p1'), Cell(p2')} \cap board = {}
                     /\ board' = board \cup {Cell(p1'), Cell(p2')}
                     /\ board' \subseteq (0 .. canvas.width - 1) \X (0 .. canvas.height - 1)
<1>1. ASSUME IInv, [Next]_vars
      PROVE  [Step]_vars
  <2> SUFFICES ASSUME Next, phase' = "playing", phase \in {"playing", "paused"}
               PROVE  Step
    BY <1>1
  <2>1. PICK key \in Key : Move(key) /\ canvas' = canvas
    BY <1>1, OnlyMovesPlayOn
  <2>2. p1' \in Player /\ p2' \in Player /\ result' = validPositions(p1', p2')
    BY <1>1, <2>1, MoveMeans
  <2>3. result' = NONE /\ board' = board \cup {Cell(p1'), Cell(p2')}
    BY <2>1 DEF Move, Marked
  <2>4. Unharmed(p1') /\ Unharmed(p2') /\ Cell(p1') # Cell(p2')
    BY <2>2, <2>3, VerdictMeans
  <2>5. board \subseteq Area
    BY <1>1 DEF IInv, TypeOK, Area
  <2> QED BY <2>3, <2>4, <2>5, UnharmedIsFree DEF Area
<1> QED BY <1>1, Invariant, PTL DEF Spec, TrailsNeverMeet

\* A point is only given to a player who could go on, against one who could not.
THEOREM WinnerUnharmed == Spec => WinnerIsUnharmed
<1> DEFINE Step ==
      /\ player1Score' > player1Score => Unharmed(p1)' /\ ~ Unharmed(p2)' /\ player2Score' = player2Score
      /\ player2Score' > player2Score => Unharmed(p2)' /\ ~ Unharmed(p1)' /\ player1Score' = player1Score
<1>1. ASSUME IInv, [Next]_vars
      PROVE  [Step]_vars
  <2> SUFFICES ASSUME Next, player1Score' > player1Score \/ player2Score' > player2Score
               PROVE  Step
    BY <1>1
  <2>1. PICK key \in Key : Move(key) /\ phase \in {"playing", "paused"} /\ canvas' = canvas
    BY <1>1, OnlyMovesScore
  <2>2. p1' \in Player /\ p2' \in Player /\ result' = validPositions(p1', p2')
    BY <1>1, <2>1, MoveMeans
  <2>3. /\ player1Score' # player1Score => result' = PLAYER1_WON
        /\ player2Score' # player2Score => result' = PLAYER2_WON
    <3>1. player1Score \in Nat /\ player2Score \in Nat
      BY <1>1 DEF IInv, TypeOK
    <3> QED BY <2>1, <3>1, PointsGiven
  <2>4. result' # NONE => board' = board
    BY <2>1 DEF Move
  <2>5. /\ result' = PLAYER1_WON => Unharmed(p1') /\ ~ Unharmed(p2')
        /\ result' = PLAYER2_WON => Unharmed(p2') /\ ~ Unharmed(p1')
    BY <2>2, VerdictMeans
  <2>6. result' # NONE => (Unharmed(p1') <=> Unharmed(p1)') /\ (Unharmed(p2') <=> Unharmed(p2)')
    BY <2>1, <2>4 DEF Unharmed, Cell
  <2>7. player1Score \in Nat /\ player2Score \in Nat
    BY <1>1 DEF IInv, TypeOK
  <2>8. /\ player1Score' > player1Score => player1Score' # player1Score
        /\ player2Score' > player2Score => player2Score' # player2Score
    BY <2>7
  <2>9. ~ (player1Score' # player1Score /\ player2Score' # player2Score)
    <3>1. PLAYER1_WON # PLAYER2_WON
      OBVIOUS
    <3> QED BY <2>3, <3>1
  <2> QED BY <2>3, <2>5, <2>6, <2>8, <2>9 DEF Step
<1> QED BY <1>1, Invariant, PTL DEF Spec, WinnerIsUnharmed

\* A board has finitely many cells, and two cells of their own leave two fewer.
LEMMA TwoFewer ==
  ASSUME canvas \in Canvases, NEW c \in Area \ board, NEW d \in Area \ board, c # d
  PROVE  /\ Cardinality(Area \ board) \in Nat
         /\ Cardinality(Area \ (board \cup {c, d})) = Cardinality(Area \ board) - 2
<1>1. canvas.width - 1 \in Int /\ canvas.height - 1 \in Int
  <2>1. canvas.width \in Nat /\ canvas.height \in Nat
    BY CanvasAssumption
  <2> QED BY <2>1
<1>2. IsFiniteSet(0 .. canvas.width - 1) /\ IsFiniteSet(0 .. canvas.height - 1)
  BY <1>1, FS_Interval
<1>3. IsFiniteSet(Area)
  BY <1>2, FS_Product DEF Area
<1> DEFINE Free == Area \ board
<1>4. IsFiniteSet(Free)
  BY <1>3, FS_Difference
<1>5. Area \ (board \cup {c, d}) = (Free \ {c}) \ {d}
  OBVIOUS
<1>6. c \in Free /\ d \in Free \ {c}
  OBVIOUS
<1> HIDE DEF Free
<1>7. IsFiniteSet(Free \ {c}) /\ Cardinality(Free \ {c}) = Cardinality(Free) - 1
  BY <1>4, <1>6, FS_RemoveElement
<1>8. Cardinality((Free \ {c}) \ {d}) = Cardinality(Free \ {c}) - 1
  BY <1>6, <1>7, FS_RemoveElement
<1>9. Cardinality(Free) \in Nat
  BY <1>4, FS_CardinalityType
<1>10. Cardinality((Free \ {c}) \ {d}) = Cardinality(Free) - 2
  BY <1>7, <1>8, <1>9
<1> QED BY <1>5, <1>9, <1>10 DEF Free

\* A turn after which a game goes on leaves two cells fewer without a trail, and what
\* interrupts a game leaves as many: a game has at most half as many turns as the
\* board has cells, however often it is paused.
TurnsUseUpTheBoard ==
  [][/\ phase' = "playing" /\ phase \in {"playing", "paused"} =>
          /\ Cardinality(Area \ board) \in Nat
          /\ Cardinality(Area' \ board') = Cardinality(Area \ board) - 2
     /\ phase' = "paused" => Area' \ board' = Area \ board]_vars

\* Every game, on a board of any size, runs out of cells: what there is of GameEnds
\* without the fairness of turns.
THEOREM BoardRunsOut == Spec => TurnsUseUpTheBoard
<1> DEFINE Step ==
      /\ phase' = "playing" /\ phase \in {"playing", "paused"} =>
           /\ Cardinality(Area \ board) \in Nat
           /\ Cardinality(Area' \ board') = Cardinality(Area \ board) - 2
      /\ phase' = "paused" => Area' \ board' = Area \ board
<1>1. ASSUME IInv, [Next]_vars
      PROVE  [Step]_vars
  <2> SUFFICES ASSUME Next
               PROVE  Step
    BY <1>1
  <2>1. canvas' = canvas /\ Area' = Area
    BY DEF Next, Area
  <2>2. ASSUME phase' = "playing", phase \in {"playing", "paused"}
        PROVE  /\ Cardinality(Area \ board) \in Nat
               /\ Cardinality(Area' \ board') = Cardinality(Area \ board) - 2
    <3>1. PICK key \in Key : Move(key)
      BY <1>1, <2>2, OnlyMovesPlayOn
    <3>2. p1' \in Player /\ p2' \in Player /\ result' = validPositions(p1', p2')
      BY <1>1, <2>1, <2>2, <3>1, MoveMeans
    <3>3. result' = NONE /\ board' = board \cup {Cell(p1'), Cell(p2')}
      BY <2>2, <3>1 DEF Move, Marked
    <3>4. Unharmed(p1') /\ Unharmed(p2') /\ Cell(p1') # Cell(p2')
      BY <3>2, <3>3, VerdictMeans
    <3>5. Cell(p1') \in Area \ board /\ Cell(p2') \in Area \ board
      BY <3>4, UnharmedIsFree
    <3>6. canvas \in Canvases
      BY <1>1 DEF IInv, TypeOK
    <3> QED BY <2>1, <3>3, <3>4, <3>5, <3>6, TwoFewer
  <2>3. ASSUME phase' = "paused"
        PROVE  Area' \ board' = Area \ board
    <3>1. Pause
      BY <1>1, <2>3 DEF Next, Turn, Move, Restart, Pause, Resume, ResetScore, PlayAgain,
                        Quit, Killed, Launch, StartGame
    <3> QED BY <2>1, <3>1 DEF Pause, game
  <2> QED BY <2>2, <2>3 DEF Step
<1> QED BY <1>1, Invariant, PTL DEF Spec, TurnsUseUpTheBoard
===============================================================================
