------------------------------ MODULE KernelProofs ------------------------------
(***************************************************************************)
(* Theorems of KernelStart, for every size of the heap, of the pool, of    *)
(* the headers and of requests.                                            *)
(*                                                                         *)
(* First HeapList, which KernelStart extends: after any order of malloc    *)
(* and free the blocks fill the heap, the lists share them out, the free   *)
(* ones are in order and joined, the counters keep their sum, and malloc   *)
(* and free keep their promises.                                           *)
(*                                                                         *)
(* Then Buddy, of which Pool is an instance.  The rows are doubly linked   *)
(* lists: Linked says what addBlock and removeBlock keep of them, without  *)
(* a word about their order.  Tiled says that blocks lie at multiples of   *)
(* their lengths, apart, and fill the pool; it knows nothing of the rows.  *)
(* The invariant joins both by one set, the free blocks.  splitBlock is    *)
(* called in a loop and mergeBuddy calls itself: what they leave is a      *)
(* recursive function, which is shown to exist by Recursion and followed   *)
(* by Induct, both from the least element of a set of naturals.            *)
(*                                                                         *)
(* Then the kernel: the steps of either allocator are the only ones that   *)
(* change its variables, so what is proved of both holds in every state of *)
(* the kernel.                                                             *)
(*                                                                         *)
(* Last the start of the kernel: what is packed comes to its place.        *)
(***************************************************************************)
EXTENDS KernelStart, FiniteSetTheorems, WellFoundedInduction, TLAPS

Sequence == INSTANCE SequenceTheorems

-----------------------------------------------------------------------------
(* Least elements, and recursion.                                          *)

\* Every nonempty set of naturals has a least element.
LEMMA Smallest ==
  ASSUME NEW S \in SUBSET Nat, S # {}
  PROVE  \E n \in S : \A m \in S : n <= m
<1> DEFINE R == OpToRel(<, Nat)
<1>1. IsWellFoundedOn(R, Nat)
  BY NatLessThanWellFounded
<1>3. \A x, y \in Nat : x < y => <<x, y>> \in R
  BY DEF OpToRel
<1> HIDE DEF R
<1>2. PICK x \in S : \A y \in S : ~ (<<y, x>> \in R)
  BY <1>1, WFMin
<1>4. ASSUME NEW m \in S PROVE x <= m
  <2>1. m \in Nat /\ x \in Nat /\ <<m, x>> \notin R
    BY <1>2
  <2>2. ~(m < x)
    BY <1>3, <2>1
  <2> QED BY <2>1, <2>2
<1> QED BY <1>4

\* What holds of 0, and of n + 1 with n, holds of every natural.
LEMMA Induct ==
  ASSUME NEW S, 0 \in S, \A n \in Nat : n \in S => n + 1 \in S
  PROVE  Nat \subseteq S
<1> SUFFICES ASSUME Nat \ S # {} PROVE FALSE
  OBVIOUS
<1>1. PICK n \in Nat \ S : \A m \in Nat \ S : n <= m
  BY Smallest
<1>2. n # 0 /\ n - 1 \in Nat
  BY <1>1
<1>3. n - 1 \in S
  BY <1>1, <1>2
<1> QED BY <1>1, <1>2, <1>3

\* When every value can be followed by another, a function on the naturals
\* gives each its successor: what a recursive definition needs to exist.
LEMMA Recursion ==
  ASSUME NEW D, NEW T, NEW d \in D,
         \A n \in Nat : \A x \in D : \E y \in D : <<n, x, y>> \in T
  PROVE  \E f \in [Nat -> D] : f[0] = d /\ \A n \in Nat : <<n, f[n], f[n + 1]>> \in T
<1> DEFINE After(n, x) == CHOOSE y \in D : <<n, x, y>> \in T
           Good(n, f) == /\ f \in [0 .. n -> D] /\ f[0] = d
                         /\ \A k \in 0 .. n : k # n => f[k + 1] = After(k, f[k])
           Has == {n \in Nat : \E f : Good(n, f)}
<1>0. \A n \in Nat : \A x \in D : After(n, x) \in D /\ <<n, x, After(n, x)>> \in T
  OBVIOUS
<1> HIDE DEF After
<1>1. 0 \in Has
  <2>1. Good(0, [k \in 0 .. 0 |-> d])
    OBVIOUS
  <2> HIDE DEF Good
  <2> QED BY <2>1
<1>2. ASSUME NEW n \in Nat, n \in Has PROVE n + 1 \in Has
  <2>1. PICK f : Good(n, f)
    BY <1>2
  <2> DEFINE g == [k \in 0 .. n + 1 |-> IF k = n + 1 THEN After(n, f[n]) ELSE f[k]]
  <2>4. f[n] \in D
    BY <2>1
  <2>0. f[n] \in D /\ After(n, f[n]) \in D
    BY ONLY <2>4, <1>0, n \in Nat
  <2>2. g \in [0 .. n + 1 -> D] /\ g[0] = d
    BY <2>1, <2>0
  <2>3. ASSUME NEW k \in 0 .. n + 1, k # n + 1 PROVE g[k + 1] = After(k, g[k])
    <3>1. CASE k = n
      BY <3>1
    <3>2. CASE k # n
      BY <3>2, <2>1, <2>3
    <3> QED BY <3>1, <3>2
  <2>5. Good(n + 1, g)
    BY <2>2, <2>3
  <2> HIDE DEF Good, g
  <2> QED BY <2>5
<1>3. Nat \subseteq Has
  <2> HIDE DEF Has
  <2> QED BY <1>1, <1>2, Induct
<1>4. ASSUME NEW n \in Nat, NEW m \in Nat, NEW f, NEW g, Good(n, f), Good(m, g)
      PROVE  \A k \in Nat : k <= n /\ k <= m => f[k] = g[k]
  <2> DEFINE Agree == {k \in Nat : k <= n /\ k <= m => f[k] = g[k]}
  <2>1. 0 \in Agree
    BY <1>4
  <2>2. ASSUME NEW k \in Nat, k \in Agree PROVE k + 1 \in Agree
    <3> SUFFICES ASSUME k + 1 <= n, k + 1 <= m PROVE f[k + 1] = g[k + 1]
      OBVIOUS
    <3>1. k \in 0 .. n /\ k # n /\ k \in 0 .. m /\ k # m /\ f[k] = g[k]
      BY <2>2
    <3> QED BY <3>1, <1>4
  <2>3. Nat \subseteq Agree
    <3> HIDE DEF Agree
    <3> QED BY <2>1, <2>2, Induct
  <2> QED BY <2>3
<1> DEFINE upto == [n \in Nat |-> CHOOSE f : Good(n, f)]
           all == [n \in Nat |-> upto[n][n]]
<1>5. ASSUME NEW n \in Nat PROVE Good(n, upto[n])
  <2>1. \E f : Good(n, f)
    BY <1>3
  <2>2. upto[n] = CHOOSE f : Good(n, f)
    OBVIOUS
  <2> HIDE DEF Good, upto
  <2> QED BY <2>1, <2>2
<1> HIDE DEF upto
<1>6. all \in [Nat -> D] /\ all[0] = d
  <2>1. \A n \in Nat : upto[n] \in [0 .. n -> D] /\ n \in 0 .. n
    BY <1>5
  <2>2. upto[0][0] = d
    BY <1>5
  <2> QED BY <2>1, <2>2
<1>7. ASSUME NEW n \in Nat PROVE all[n + 1] = After(n, all[n])
  <2>1. Good(n, upto[n]) /\ Good(n + 1, upto[n + 1])
    BY <1>5
  <2>2. upto[n][n] = upto[n + 1][n]
    <3>1. n <= n + 1
      OBVIOUS
    <3> HIDE DEF Good
    <3> QED BY <2>1, <3>1, <1>4
  <2>3. n \in 0 .. n + 1 /\ n # n + 1
    OBVIOUS
  <2>4. upto[n + 1][n + 1] = After(n, upto[n + 1][n])
    BY <2>1, <2>3
  <2> QED BY <2>2, <2>4
<1> HIDE DEF all
<1> QED BY <1>6, <1>7, <1>0

-----------------------------------------------------------------------------
(* Least and greatest elements.                                            *)

\* A set of addresses has a least one.
LEMMA Least ==
  ASSUME NEW S, S \subseteq Nat, S # {}
  PROVE  \E m \in S : \A x \in S : m <= x
<1>1. S \in SUBSET Nat
  OBVIOUS
<1> QED BY <1>1, Smallest

\* And, when they are bounded, a greatest one.
LEMMA Greatest ==
  ASSUME NEW S, S \subseteq Nat, S # {}, NEW n \in Nat, \A x \in S : x <= n
  PROVE  \E m \in S : \A x \in S : x <= m
<1> DEFINE T == {n - x : x \in S}
<1>6. \A x \in S : n - x \in Nat
  OBVIOUS
<1>1. T \subseteq Nat /\ T # {}
  BY <1>6
<1> HIDE DEF T
<1>2. PICK t \in T : \A y \in T : t <= y
  BY <1>1, Least
<1>3. PICK m \in S : t = n - m
  BY <1>2 DEF T
<1>4. \A x \in S : n - m <= n - x
  BY <1>2, <1>3 DEF T
<1>5. \A x \in S : x \in Nat /\ m \in Nat
  OBVIOUS
<1> QED BY <1>4, <1>5

-----------------------------------------------------------------------------
(* Walks.                                                                  *)

\* A set that has the head, is closed under the links, and is part of every other
\* such set of its blocks is what the walk meets.
LEMMA ListedIs ==
  ASSUME NEW links, NEW head, NEW S, S \subseteq DOMAIN links,
         head \in S \cup {NULL}, Closed(links, S),
         \A part \in SUBSET S : head \in part \cup {NULL} /\ Closed(links, part) => S \subseteq part
  PROVE  Listed(links, head) = S
<1>1. ASSUME NEW part \in SUBSET DOMAIN links, head \in part \cup {NULL}, Closed(links, part)
      PROVE  S \subseteq part
  <2>1. head \in (part \cap S) \cup {NULL}
    BY <1>1
  <2>2. Closed(links, part \cap S)
    BY <1>1 DEF Closed
  <2> QED BY <2>1, <2>2
<1> QED BY <1>1 DEF Listed

\* A chain: each block of S is met once on the walk from the head.
Chain(links, head, S) ==
  /\ S \subseteq DOMAIN links
  /\ head \in S \cup {NULL}
  /\ Closed(links, S)
  /\ \A part \in SUBSET S : head \in part \cup {NULL} /\ Closed(links, part) => S \subseteq part
  /\ \A x \in S : links[x] # NULL => links[x] # head
  /\ \A x, y \in S : links[x] = links[y] /\ links[x] # NULL => x = y
  /\ NULL \notin S

\* The walk over a chain meets its blocks and no others.
LEMMA ChainListed ==
  ASSUME NEW links, NEW head, NEW S, Chain(links, head, S)
  PROVE  Listed(links, head) = S
BY ListedIs DEF Chain

\* Nothing but the links of its own blocks makes a chain.
LEMMA ChainKept ==
  ASSUME NEW links, NEW new, NEW head, NEW S, Chain(links, head, S),
         S \subseteq DOMAIN new, \A x \in S : new[x] = links[x]
  PROVE  Chain(new, head, S)
<1>1. Closed(new, S)
  BY DEF Chain, Closed
<1>2. \A part \in SUBSET S : Closed(new, part) <=> Closed(links, part)
  BY DEF Closed
<1> QED BY <1>1, <1>2 DEF Chain

\* A block in front of a chain.
LEMMA ChainPush ==
  ASSUME NEW links, NEW new, NEW head, NEW S, NEW b, Chain(links, head, S),
         b \notin S, b # NULL, S \cup {b} \subseteq DOMAIN new,
         \A x \in S : new[x] = links[x], new[b] = head
  PROVE  Chain(new, b, S \cup {b})
<1>1. Closed(new, S \cup {b})
  BY DEF Chain, Closed
<1>2. ASSUME NEW part \in SUBSET (S \cup {b}), b \in part \cup {NULL}, Closed(new, part)
      PROVE  S \cup {b} \subseteq part
  <2>1. b \in part /\ head \in (part \cap S) \cup {NULL}
    BY <1>2 DEF Closed, Chain
  <2>2. Closed(links, part \cap S)
    BY <1>2 DEF Closed, Chain
  <2> QED BY <2>1, <2>2 DEF Chain
<1>3. \A x \in S \cup {b} : new[x] # NULL => new[x] # b
  BY DEF Chain, Closed
<1>4. \A x, y \in S \cup {b} : new[x] = new[y] /\ new[x] # NULL => x = y
  BY DEF Chain
<1> QED BY <1>1, <1>2, <1>3, <1>4 DEF Chain

\* Who comes before b in a chain: nobody before the head, and otherwise the one
\* whose link is b.
LEMMA ChainBefore ==
  ASSUME NEW links, NEW head, NEW S, NEW b \in S, Chain(links, head, S)
  PROVE  /\ links[b] # b
         /\ b = head => Before(links, head, b) = NULL
         /\ b # head => Before(links, head, b) \in S /\ links[Before(links, head, b)] = b
         /\ \A x \in S : x # Before(links, head, b) => links[x] # b
<1>1. Listed(links, head) = S /\ b # NULL
  BY ChainListed DEF Chain
<1>2. ASSUME b # head
      PROVE  \E x \in S \ {b} : links[x] = b
  <2> SUFFICES ASSUME \A x \in S \ {b} : links[x] # b
               PROVE  FALSE
    OBVIOUS
  <2>1. Closed(links, S \ {b}) /\ head \in (S \ {b}) \cup {NULL}
    BY <1>2 DEF Chain, Closed
  <2> QED BY <2>1 DEF Chain
<1>3. links[b] # b
  BY <1>1, <1>2 DEF Chain
<1> DEFINE previous == {x \in S : links[x] = b}
<1>4. Before(links, head, b) = IF previous = {} THEN NULL ELSE CHOOSE x \in previous : TRUE
  BY <1>1 DEF Before
<1>5. b = head => previous = {}
  BY <1>1 DEF Chain
<1>6. b # head => previous # {}
  BY <1>2
<1>7. \A x, y \in previous : x = y
  BY <1>1 DEF Chain
<1>8. previous \subseteq S /\ (\A x \in previous : links[x] = b) /\ (\A x \in S \ previous : links[x] # b)
  OBVIOUS
<1>9. previous # {} => (CHOOSE x \in previous : TRUE) \in previous
  OBVIOUS
<1> HIDE DEF previous
<1> QED BY <1>3, <1>4, <1>5, <1>6, <1>7, <1>8, <1>9

\* A block is taken out of a chain.
LEMMA ChainRemove ==
  ASSUME NEW links, NEW new, NEW head, NEW S, NEW b \in S, Chain(links, head, S),
         S \ {b} \subseteq DOMAIN new,
         \A x \in S \ {b} : new[x] = IF x = Before(links, head, b) THEN links[b] ELSE links[x]
  PROVE  Chain(new, IF Before(links, head, b) = NULL THEN links[b] ELSE head, S \ {b})
<1> DEFINE p == Before(links, head, b)
           h == IF p = NULL THEN links[b] ELSE head
<1>1. /\ links[b] # b
      /\ b = head => p = NULL
      /\ b # head => p \in S /\ links[p] = b
      /\ \A x \in S : x # p => links[x] # b
  BY ChainBefore
<1>2. NULL \notin S /\ b # NULL
  BY DEF Chain
<1>3. \A x \in S \ {b} : new[x] = IF x = p THEN links[b] ELSE links[x]
  OBVIOUS
<1> HIDE DEF p
<1>4. links[b] \in (S \ {b}) \cup {NULL}
  BY <1>1 DEF Chain, Closed
<1>5. Closed(new, S \ {b})
  BY <1>1, <1>3, <1>4 DEF Chain, Closed
<1>6. h \in (S \ {b}) \cup {NULL}
  BY <1>1, <1>2, <1>4 DEF Chain
<1>7. ASSUME NEW part \in SUBSET (S \ {b}), h \in part \cup {NULL}, Closed(new, part)
      PROVE  S \ {b} \subseteq part
  <2>1. CASE p = NULL
    <3>1. b = head /\ links[b] \in part \cup {NULL}
      BY <1>1, <1>2, <1>7, <2>1
    <3>2. \A x \in part : new[x] = links[x]
      BY <1>2, <1>3, <2>1
    <3>3. Closed(links, part \cup {b})
      BY <1>7, <3>1, <3>2 DEF Closed
    <3>4. S \subseteq part \cup {b}
      BY <3>1, <3>3 DEF Chain
    <3> QED BY <3>4
  <2>2. CASE p # NULL /\ p \in part
    <3>1. b # head /\ links[p] = b /\ head \in part \cup {b} \cup {NULL}
      BY <1>1, <1>7, <2>2
    <3>2. links[b] \in part \cup {NULL}
      BY <1>3, <1>7, <2>2 DEF Closed
    <3>3. Closed(links, part \cup {b})
      BY <1>3, <1>7, <3>1, <3>2 DEF Closed
    <3>4. S \subseteq part \cup {b}
      BY <3>1, <3>3 DEF Chain
    <3> QED BY <3>4
  <2>3. CASE p # NULL /\ p \notin part
    <3>1. Closed(links, part)
      BY <1>3, <1>7, <2>3 DEF Closed
    <3> QED BY <1>7, <2>3, <3>1 DEF Chain
  <2> QED BY <2>1, <2>2, <2>3
<1>8. \A x \in S \ {b} : new[x] # NULL => new[x] # h
  BY <1>1, <1>2, <1>3 DEF Chain
<1>9. \A x, y \in S \ {b} : new[x] = new[y] /\ new[x] # NULL => x = y
  BY <1>1, <1>3 DEF Chain
<1> QED BY <1>2, <1>5, <1>6, <1>7, <1>8, <1>9 DEF Chain, p

-----------------------------------------------------------------------------
(* Lists in the order of addresses.                                        *)

\* Every link leads to the next block of S above, and the head is the least of S.
Ordered(links, head, S) ==
  /\ S \subseteq Nat /\ S \subseteq DOMAIN links
  /\ \E n \in Nat : \A x \in S : x <= n
  /\ head \in S \cup {NULL}
  /\ S # {} => head # NULL
  /\ \A x \in S : head <= x
  /\ \A x \in S : /\ links[x] \in S \cup {NULL}
                  /\ links[x] # NULL => x < links[x]
                  /\ \A y \in S : x < y => links[x] # NULL /\ links[x] <= y

\* The walk over an ordered list meets its blocks and no others.
LEMMA OrderedListed ==
  ASSUME NEW links, NEW head, NEW S, Ordered(links, head, S)
  PROVE  Listed(links, head) = S
<1>1. S \subseteq Nat /\ S \subseteq DOMAIN links /\ head \in S \cup {NULL} /\ Closed(links, S)
  BY DEF Ordered, Closed
<1>2. ASSUME NEW part \in SUBSET S, head \in part \cup {NULL}, Closed(links, part), S \ part # {}
      PROVE  FALSE
  <2>1. PICK m \in S \ part : \A x \in S \ part : m <= x
    BY <1>1, <1>2, Least
  <2>2. head # NULL /\ head \in part /\ head < m
    BY <1>1, <1>2, <2>1 DEF Ordered
  <2> DEFINE low == {x \in part : x < m}
  <2>8. m \in Nat /\ part \subseteq Nat /\ head \in low
    BY <1>1, <1>2, <2>1, <2>2
  <2>9. \A x \in low : x \in Nat /\ x < m
    BY <2>8
  <2>3. low \subseteq Nat /\ low # {} /\ (\A x \in low : x <= m) /\ m \in Nat
    <3> HIDE DEF low
    <3> QED BY <2>8, <2>9
  <2> HIDE DEF low
  <2>4. PICK p \in low : \A x \in low : x <= p
    BY <2>3, Greatest
  <2>5. p \in part /\ p \in S /\ p < m
    BY <1>2, <2>4 DEF low
  <2>6. links[p] \in part /\ links[p] \in Nat /\ p < links[p] /\ links[p] <= m
    BY <1>1, <1>2, <2>1, <2>5 DEF Ordered, Closed
  <2>7. links[p] \notin low
    BY <1>1, <2>4, <2>5, <2>6
  <2> QED BY <2>1, <2>3, <2>6, <2>7 DEF low
<1>3. \A part \in SUBSET S : head \in part \cup {NULL} /\ Closed(links, part) => S \subseteq part
  BY <1>2
<1> QED BY <1>1, <1>3, ListedIs

\* What the walk meets from a block on.
LEMMA OrderedRest ==
  ASSUME NEW links, NEW head, NEW S, Ordered(links, head, S), NEW b \in S
  PROVE  Listed(links, b) = {x \in S : b <= x}
<1> DEFINE rest == {x \in S : b <= x}
<1>1. S \subseteq Nat /\ rest \subseteq S /\ b \in rest /\ \A x \in rest : b <= x
  BY DEF Ordered
<1>2. ASSUME NEW x \in rest, links[x] # NULL
      PROVE  links[x] \in rest
  <2>1. links[x] \in S /\ x < links[x]
    BY <1>1, <1>2 DEF Ordered
  <2>2. b \in Nat /\ x \in Nat /\ links[x] \in Nat /\ b <= x
    BY <1>1, <2>1
  <2>3. b <= links[x]
    BY <2>1, <2>2
  <2> QED BY <2>1, <2>3
<1>4. b # NULL
  BY <1>1, NullAssumption
<1> HIDE DEF rest
<1>5. \A x \in rest : /\ links[x] \in rest \cup {NULL}
                      /\ links[x] # NULL => x < links[x]
                      /\ \A y \in rest : x < y => links[x] # NULL /\ links[x] <= y
  BY <1>1, <1>2 DEF Ordered
<1>6. rest \subseteq DOMAIN links /\ \E n \in Nat : \A x \in rest : x <= n
  BY <1>1 DEF Ordered
<1>3. Ordered(links, b, rest)
  BY <1>1, <1>4, <1>5, <1>6 DEF Ordered
<1> QED BY <1>3, OrderedListed DEF rest

\* The first block met that is not below b is the least such one.
LEMMA OrderedFirst ==
  ASSUME NEW links, NEW head, NEW S, Ordered(links, head, S), NEW wanted
  PROVE  LET first == First(links, head, wanted)
         IN  /\ S \cap wanted = {} => first = NULL
             /\ S \cap wanted # {} => first \in S \cap wanted /\ \A x \in S \cap wanted : first <= x
<1> DEFINE met == S \cap wanted
           first == {b \in met : met \subseteq Listed(links, b)}
<1>6. Listed(links, head) = S
  BY OrderedListed
<1>1. First(links, head, wanted) = IF first = {} THEN NULL ELSE CHOOSE b \in first : TRUE
  BY <1>6 DEF First
<1>2. \A b \in met : b \in first <=> \A x \in met : b <= x
  BY OrderedRest
<1>3. met \subseteq Nat
  BY DEF Ordered
<1>4. met # {} => first # {}
  BY <1>2, <1>3, Least
<1>5. first \subseteq met
  OBVIOUS
<1> HIDE DEF first
<1> QED BY <1>1, <1>2, <1>4, <1>5

\* Who comes before a block of the list, or before its end: the greatest below.
LEMMA OrderedBefore ==
  ASSUME NEW links, NEW head, NEW S, Ordered(links, head, S),
         NEW b \in S \cup {NULL}, NEW low, low \subseteq S,
         b # NULL => low = {x \in S : x < b}, b = NULL => low = S
  PROVE  LET p == Before(links, head, b)
         IN  /\ low = {} => p = NULL
             /\ low # {} => p \in low /\ links[p] = b /\ \A x \in low : x <= p
             /\ \A x \in S : x # p => links[x] # b
<1> DEFINE previous == {x \in S : links[x] = b}
<1>7. Listed(links, head) = S
  BY OrderedListed
<1>1. Before(links, head, b) = IF previous = {} THEN NULL ELSE CHOOSE x \in previous : TRUE
  BY <1>7 DEF Before
<1>8. S \subseteq Nat
  BY DEF Ordered
<1>9. NULL \notin Nat
  BY NullAssumption
<1>2. S \subseteq Nat /\ NULL \notin Nat /\ NULL \notin S
  BY <1>8, <1>9
<1>3. \A x \in previous : x \in low /\ \A y \in low : y <= x
  BY <1>2 DEF Ordered
<1>4. \A x, y \in previous : x = y
  BY <1>2, <1>3
<1>5. ASSUME low # {}
      PROVE  previous # {}
  <2>1. PICK n \in Nat : \A x \in S : x <= n
    BY DEF Ordered
  <2>2. low \subseteq Nat /\ \A x \in low : x <= n
    BY <1>2, <2>1
  <2>3. PICK p \in low : \A x \in low : x <= p
    BY <1>5, <2>1, <2>2, Greatest
  <2>4. p \in S /\ p \in Nat /\ links[p] \in S \cup {NULL} /\ (links[p] # NULL => p < links[p])
    BY <1>2, <2>3 DEF Ordered
  <2>5. links[p] \notin low
    <3> SUFFICES ASSUME links[p] \in low
                 PROVE  FALSE
      OBVIOUS
    <3>1. links[p] <= p /\ links[p] \in Nat /\ links[p] # NULL
      BY <1>2, <2>2, <2>3
    <3> QED BY <2>4, <3>1
  <2>6. links[p] = b
    <3>1. CASE b = NULL
      BY <2>4, <2>5, <3>1
    <3>2. CASE b # NULL
      <4>1. p < b /\ b \in S /\ b \in Nat
        BY <1>2, <2>3, <3>2
      <4>2. links[p] # NULL /\ links[p] <= b
        BY <2>4, <4>1 DEF Ordered
      <4>3. links[p] \in S /\ links[p] \in Nat /\ ~ (links[p] < b)
        BY <1>2, <2>4, <2>5, <3>2, <4>2
      <4> QED BY <4>1, <4>2, <4>3
    <3> QED BY <3>1, <3>2
  <2> QED BY <2>4, <2>6
<1>6. (\A x \in previous : links[x] = b) /\ (\A x \in S \ previous : links[x] # b)
  OBVIOUS
<1> HIDE DEF previous
<1> QED BY <1>1, <1>3, <1>4, <1>5, <1>6

-----------------------------------------------------------------------------
(* Whole words and counters that wrap.                                     *)

\* Quotient and remainder of an integer.
LEMMA Division ==
  ASSUME NEW m \in Nat \ {0}, NEW n \in Int
  PROVE  \E q \in Int : n = q * m + (n % m) /\ n % m \in 0 .. m - 1
<1>1. n \div m \in Int /\ n % m \in 0 .. m - 1 /\ n = (n \div m) * m + (n % m)
  OBVIOUS
<1> QED BY <1>1

\* The remainder is the only one.
LEMMA Remainder ==
  ASSUME NEW m \in Nat \ {0}, NEW q \in Int, NEW r \in 0 .. m - 1
  PROVE  (q * m + r) % m = r
BY SMTT(30)

\* What is left of a sum, and of the sum of what is left of its parts, is the same.
LEMMA RemainderOfSum ==
  ASSUME NEW m \in Nat \ {0}, NEW a \in Int, NEW b \in Int
  PROVE  ((a % m) + (b % m)) % m = (a + b) % m
<1>1. PICK p \in Int : a = p * m + (a % m) /\ a % m \in 0 .. m - 1
  BY Division
<1>2. PICK q \in Int : b = q * m + (b % m) /\ b % m \in 0 .. m - 1
  BY Division
<1> DEFINE r == a % m
           t == b % m
<1>3. r \in Int /\ t \in Int /\ a = p * m + r /\ b = q * m + t
  BY <1>1, <1>2
<1> HIDE DEF r, t
<1> DEFINE s == r + t
<1>8. s \in Int
  BY <1>3
<1> HIDE DEF s
<1>4. PICK u \in Int : s = u * m + (s % m) /\ s % m \in 0 .. m - 1
  BY <1>8, Division
<1> DEFINE v == s % m
           w == p + q + u
<1>5. v \in 0 .. m - 1 /\ r + t = u * m + v /\ w \in Int
  BY <1>4 DEF s
<1> HIDE DEF v
<1>6. a + b = w * m + v
  BY <1>3, <1>5, SMTT(30)
<1> HIDE DEF w
<1>7. (a + b) % m = v
  BY <1>5, <1>6, Remainder
<1> QED BY <1>7 DEF r, s, t, v

\* Sums and differences of whole words are whole words.
LEMMA WholeWords ==
  ASSUME NEW a \in Int, NEW b \in Int, a % WORD = 0, b % WORD = 0
  PROVE  (a + b) % WORD = 0 /\ (a - b) % WORD = 0
<1>1. WORD \in Nat \ {0}
  BY SizesAssumption
<1>2. PICK p \in Int : a = p * WORD + (a % WORD)
  BY <1>1, Division
<1>3. PICK q \in Int : b = q * WORD + (b % WORD)
  BY <1>1, Division
<1>4. a + b = (p + q) * WORD + 0 /\ a - b = (p - q) * WORD + 0
  BY <1>1, <1>2, <1>3, SMTT(30)
<1>5. ((p + q) * WORD + 0) % WORD = 0 /\ ((p - q) * WORD + 0) % WORD = 0
  BY <1>1, Remainder
<1> QED BY <1>4, <1>5

\* The size that is looked for is enough, and in whole words.
LEMMA AlignedEnough ==
  ASSUME NEW request \in Nat, request <= SizeMod - WORD
  PROVE  Aligned(request) \in Nat /\ Aligned(request) >= request /\ Aligned(request) % WORD = 0
<1>1. WORD \in Nat \ {0} /\ request \in Int /\ SizeMod \in Nat \ {0}
  BY SizesAssumption
<1>2. PICK q \in Int : request = q * WORD + (request % WORD) /\ request % WORD \in 0 .. WORD - 1
  BY <1>1, Division
<1>3. CASE request % WORD = 0
  BY <1>3 DEF Aligned
<1>4. CASE request % WORD # 0
  <2> DEFINE r == request % WORD
  <2>1. r \in 1 .. WORD - 1 /\ request = q * WORD + r
    BY <1>1, <1>2, <1>4
  <2>4. Aligned(request) = (request + WORD - r) % SizeMod
    BY <1>4 DEF Aligned
  <2> HIDE DEF r
  <2>5. request + WORD - r \in 0 .. SizeMod - 1
    BY <1>1, <2>1
  <2>6. (request + WORD - r) % SizeMod = request + WORD - r
    BY <1>1, <2>5
  <2>2. request + WORD - r = (q + 1) * WORD + 0
    BY <1>1, <2>1, SMTT(30)
  <2>3. ((q + 1) * WORD + 0) % WORD = 0
    BY <1>1, Remainder
  <2> QED BY <1>1, <2>1, <2>2, <2>3, <2>4, <2>6
<1> QED BY <1>3, <1>4

\* What infoMem may hold.
Counters == [allocated : 0 .. SizeMod - 1, free : 0 .. SizeMod - 1, total : 0 .. SizeMod - 1]

\* Bytes that move from one counter to the other leave their sum.
LEMMA AccountKeeps ==
  ASSUME NEW info \in Counters, NEW n \in Int,
         (info.allocated + info.free) % SizeMod = info.total
  PROVE  LET after == Account(info, n)
         IN  after \in Counters /\ (after.allocated + after.free) % SizeMod = after.total
<1> DEFINE a == info.allocated
           f == info.free
           after == Account(info, n)
<1>1. SizeMod \in Nat \ {0} /\ a \in Int /\ f \in Int
  BY SizesAssumption DEF Counters
<1>2. /\ after = [allocated |-> after.allocated, free |-> after.free, total |-> after.total]
      /\ after.allocated = (a + n) % SizeMod /\ after.free = (f - n) % SizeMod /\ after.total = info.total
  <2>1. info = [allocated |-> a, free |-> f, total |-> info.total]
    BY DEF Counters
  <2> HIDE DEF a, f
  <2>2. after = [[info EXCEPT !.allocated = (a + n) % SizeMod] EXCEPT !.free = (f - n) % SizeMod]
    BY DEF Account, a, f
  <2> DEFINE u == (a + n) % SizeMod
             v == (f - n) % SizeMod
             t == info.total
  <2> HIDE DEF u, v, t
  <2>3. [info EXCEPT !.allocated = u] = [allocated |-> u, free |-> f, total |-> t]
    BY <2>1 DEF t
  <2>4. [[allocated |-> u, free |-> f, total |-> t] EXCEPT !.free = v] = [allocated |-> u, free |-> v, total |-> t]
    OBVIOUS
  <2>5. after = [allocated |-> u, free |-> v, total |-> t]
    BY <2>2, <2>3, <2>4 DEF u, v
  <2> HIDE DEF after
  <2> QED BY <2>5 DEF u, v, t
<1>3. (a + n) % SizeMod \in 0 .. SizeMod - 1 /\ (f - n) % SizeMod \in 0 .. SizeMod - 1
  BY <1>1
<1>4. after \in Counters
  BY <1>2, <1>3 DEF Counters
<1> DEFINE an == a + n
           fn == f - n
<1>5. an \in Int /\ fn \in Int /\ an + fn = a + f
  BY <1>1
<1> HIDE DEF an, fn
<1>6. ((an % SizeMod) + (fn % SizeMod)) % SizeMod = (an + fn) % SizeMod
  BY <1>1, <1>5, RemainderOfSum
<1> QED BY <1>2, <1>4, <1>5, <1>6 DEF an, fn

-----------------------------------------------------------------------------
(* Blocks that fill the heap.                                              *)

\* Of the sizes of all blocks.
Tiles(sz) ==
  /\ DOMAIN sz \subseteq Nat /\ sz \in [DOMAIN sz -> Nat]
  /\ MANAGER \in DOMAIN sz
  /\ \A b \in DOMAIN sz : /\ b >= MANAGER
                          /\ b + HEADER + sz[b] \in DOMAIN sz \cup {HIGH}
                          /\ b + HEADER + sz[b] <= HIGH
                          /\ b % WORD = 0 /\ sz[b] % WORD = 0
  /\ \A b, c \in DOMAIN sz : b < c => b + HEADER + sz[b] <= c

\* What the assumptions say of the sizes.
LEMMA Sizes ==
  /\ WORD \in Nat \ {0} /\ HEADER \in Nat \ {0} /\ MANAGER \in Nat /\ HEADER % WORD = 0
  /\ MIN_BLOCK_SIZE \in Nat /\ MIN_BLOCK_SIZE >= HEADER
  /\ HIGH \in Nat /\ NULL \notin Int
BY SizesAssumption, NullAssumption DEF HIGH

\* What is left of block b when n bytes of it are taken.
SplitSize(sz, b, n) ==
  [x \in DOMAIN sz \cup {b + HEADER + n} |->
     IF x = b + HEADER + n THEN sz[b] - n - HEADER ELSE IF x = b THEN n ELSE sz[x]]

\* A block cut in two still fills its place.
LEMMA SplitTiles ==
  ASSUME NEW sz, Tiles(sz), NEW b \in DOMAIN sz, NEW n \in Nat, n % WORD = 0, sz[b] >= n + HEADER
  PROVE  Tiles(SplitSize(sz, b, n)) /\ b + HEADER + n \notin DOMAIN sz
<1> DEFINE new == b + HEADER + n
           sp == SplitSize(sz, b, n)
<1>1. b \in Nat /\ sz[b] \in Nat /\ HEADER \in Nat /\ HEADER > 0 /\ HIGH \in Nat /\ MANAGER \in Nat
  BY Sizes DEF Tiles
<1>2. new \in Nat /\ b < new /\ new < b + HEADER + sz[b] /\ sz[b] - n - HEADER \in Nat
      /\ new + HEADER + (sz[b] - n - HEADER) = b + HEADER + sz[b]
  BY <1>1
<1>3. new \notin DOMAIN sz
  <2> SUFFICES ASSUME new \in DOMAIN sz
               PROVE  FALSE
    OBVIOUS
  <2>1. b + HEADER + sz[b] <= new
    BY <1>2 DEF Tiles
  <2> QED BY <1>1, <1>2, <2>1
<1>4. DOMAIN sp = DOMAIN sz \cup {new} /\ sp[new] = sz[b] - n - HEADER /\ sp[b] = n
      /\ \A x \in DOMAIN sz \ {b} : sp[x] = sz[x]
  BY <1>2, <1>3 DEF SplitSize
<1>5. sz[b] % WORD = 0 /\ b % WORD = 0 /\ HEADER % WORD = 0
  BY Sizes DEF Tiles
<1> DEFINE left == sz[b] - n
           from == b + HEADER
<1>12. sz[b] \in Int /\ n \in Int /\ b \in Int /\ HEADER \in Int /\ left \in Int /\ from \in Int
  BY <1>1
<1>6. left % WORD = 0 /\ from % WORD = 0
  BY <1>5, <1>12, WholeWords
<1>7. new % WORD = 0 /\ (sz[b] - n - HEADER) % WORD = 0
  <2> HIDE DEF left, from
  <2>1. (from + n) % WORD = 0 /\ (left - HEADER) % WORD = 0
    BY <1>5, <1>6, <1>12, WholeWords
  <2> QED BY <2>1 DEF left, from
<1> HIDE DEF new
<1>8. sp \in [DOMAIN sp -> Nat]
  <2>1. \A x \in DOMAIN sp : sp[x] \in Nat
    BY <1>2, <1>4 DEF Tiles
  <2>2. sp = [x \in DOMAIN sp |-> sp[x]]
    BY DEF SplitSize
  <2> QED BY <2>1, <2>2
<1>9. ASSUME NEW x \in DOMAIN sp
      PROVE  /\ x >= MANAGER
             /\ x + HEADER + sp[x] \in DOMAIN sp \cup {HIGH}
             /\ x + HEADER + sp[x] <= HIGH
             /\ x % WORD = 0 /\ sp[x] % WORD = 0
  <2>1. CASE x = new
    BY <1>1, <1>2, <1>4, <1>7, <2>1 DEF Tiles
  <2>2. CASE x = b
    BY <1>1, <1>2, <1>4, <1>5, <2>2 DEF Tiles, new
  <2>3. CASE x \in DOMAIN sz \ {b}
    BY <1>4, <2>3 DEF Tiles
  <2> QED BY <1>4, <2>1, <2>2, <2>3
<1>10. ASSUME NEW x \in DOMAIN sp, NEW y \in DOMAIN sp, x < y
       PROVE  x + HEADER + sp[x] <= y
  <2>1. CASE x = new /\ y \in DOMAIN sz
    <3>1. b < y
      BY <1>1, <1>2, <1>10, <2>1 DEF Tiles
    <3> QED BY <1>2, <1>4, <2>1, <3>1 DEF Tiles
  <2>2. CASE x = b /\ y = new
    BY <1>4, <2>2 DEF new
  <2>3. CASE x = b /\ y \in DOMAIN sz
    <3>1. x + HEADER + sz[x] <= y /\ y \in Nat
      BY <1>10, <2>3 DEF Tiles
    <3> QED BY <1>1, <1>2, <1>4, <2>3, <3>1
  <2>4. CASE x \in DOMAIN sz \ {b} /\ y = new
    <3>1. x < b
      <4>1. x \in Nat /\ (x = b \/ x < b \/ b < x)
        BY <1>1, <2>4 DEF Tiles
      <4>2. ~ (b < x)
        BY <1>1, <1>2, <1>10, <2>4, <4>1 DEF Tiles
      <4> QED BY <2>4, <4>1, <4>2
    <3>2. x + HEADER + sz[x] <= b /\ x \in Nat /\ sz[x] \in Nat
      BY <2>4, <3>1 DEF Tiles
    <3> QED BY <1>1, <1>2, <1>4, <2>4, <3>2
  <2>5. CASE x \in DOMAIN sz \ {b} /\ y \in DOMAIN sz
    BY <1>4, <1>10, <2>5 DEF Tiles
  <2>6. CASE x = new /\ y = new
    BY <1>2, <1>10, <2>6
  <2> QED BY <1>4, <2>1, <2>2, <2>3, <2>4, <2>5, <2>6
<1>11. DOMAIN sp \subseteq Nat /\ MANAGER \in DOMAIN sp
  BY <1>2, <1>4 DEF Tiles
<1> QED BY <1>3, <1>8, <1>9, <1>10, <1>11 DEF Tiles, new

\* What is left of the sizes when block x grows over the next one, y.
JoinedSize(sz, x, y) ==
  [z \in DOMAIN sz \ {y} |-> IF z = x THEN y + sz[y] - x ELSE sz[z]]

\* Two contiguous blocks made one still fill their place.
LEMMA JoinTiles ==
  ASSUME NEW sz, Tiles(sz), NEW x \in DOMAIN sz, NEW y \in DOMAIN sz, y = x + HEADER + sz[x]
  PROVE  Tiles(JoinedSize(sz, x, y))
<1> DEFINE sp == JoinedSize(sz, x, y)
           grown == y + sz[y] - x
<1>1. x \in Nat /\ sz[x] \in Nat /\ y \in Nat /\ sz[y] \in Nat /\ HEADER \in Nat /\ HEADER > 0
      /\ MANAGER \in Nat /\ HIGH \in Nat
  BY Sizes DEF Tiles
<1>2. x < y /\ grown \in Nat /\ x + HEADER + grown = y + HEADER + sz[y]
  BY <1>1
<1>3. DOMAIN sp = DOMAIN sz \ {y} /\ sp[x] = grown /\ \A z \in DOMAIN sz \ {x, y} : sp[z] = sz[z]
  <2>1. x # y
    BY <1>1, <1>2
  <2> QED BY <2>1 DEF JoinedSize
<1>4. grown % WORD = 0
  <2> DEFINE own == y + sz[y]
  <2>1. y % WORD = 0 /\ sz[y] % WORD = 0 /\ x % WORD = 0
    BY DEF Tiles
  <2>2. y \in Int /\ sz[y] \in Int /\ x \in Int /\ own \in Int
    BY <1>1
  <2>3. own % WORD = 0
    BY <2>1, <2>2, WholeWords
  <2> HIDE DEF own
  <2>4. (own - x) % WORD = 0
    BY <2>1, <2>2, <2>3, WholeWords
  <2>5. grown = own - x
    BY <1>1 DEF own
  <2> QED BY <2>4, <2>5
<1> HIDE DEF grown
<1>5. sp \in [DOMAIN sp -> Nat]
  <2>1. \A z \in DOMAIN sp : sp[z] \in Nat
    BY <1>2, <1>3 DEF Tiles
  <2>2. sp = [z \in DOMAIN sp |-> sp[z]]
    BY DEF JoinedSize
  <2> QED BY <2>1, <2>2
<1>6. x # y /\ x \in DOMAIN sp
  BY <1>2, <1>1, <1>3
<1>7. ASSUME NEW z \in DOMAIN sz \ {x}, z + HEADER + sz[z] = y
      PROVE  FALSE
  <2>1. z \in Nat /\ sz[z] \in Nat /\ (z < x \/ x < z)
    BY <1>1 DEF Tiles
  <2>2. (z < x => z + HEADER + sz[z] <= x) /\ (x < z => y <= z)
    BY DEF Tiles
  <2> QED BY <1>1, <1>2, <1>7, <2>1, <2>2
<1>8. ASSUME NEW z \in DOMAIN sp
      PROVE  /\ z >= MANAGER
             /\ z + HEADER + sp[z] \in DOMAIN sp \cup {HIGH}
             /\ z + HEADER + sp[z] <= HIGH
             /\ z % WORD = 0 /\ sp[z] % WORD = 0
  <2>1. CASE z = x
    <3>1. y + HEADER + sz[y] # y
      BY <1>1
    <3> QED BY <1>2, <1>3, <1>4, <2>1, <3>1 DEF Tiles
  <2>2. CASE z # x
    <3>1. z \in DOMAIN sz \ {x, y} /\ sp[z] = sz[z]
      BY <1>3, <2>2
    <3>2. z + HEADER + sz[z] # y
      BY <1>7, <3>1
    <3> QED BY <1>3, <3>1, <3>2 DEF Tiles
  <2> QED BY <2>1, <2>2
<1>9. ASSUME NEW z \in DOMAIN sp, NEW w \in DOMAIN sp, z < w
      PROVE  z + HEADER + sp[z] <= w
  <2>1. z \in DOMAIN sz \ {y} /\ w \in DOMAIN sz \ {y}
    BY <1>3
  <2>2. CASE z = x
    <3>1. y <= w /\ w \in Nat
      BY <1>9, <2>1, <2>2 DEF Tiles
    <3>2. y < w
      BY <1>1, <2>1, <3>1
    <3>3. y + HEADER + sz[y] <= w
      BY <2>1, <3>2 DEF Tiles
    <3> QED BY <1>2, <1>3, <2>2, <3>3
  <2>3. CASE z # x
    BY <1>3, <1>9, <2>1, <2>3 DEF Tiles
  <2> QED BY <2>2, <2>3
<1>10. DOMAIN sp \subseteq Nat /\ MANAGER \in DOMAIN sp
  <2>1. x >= MANAGER
    BY DEF Tiles
  <2>2. y # MANAGER
    BY <1>1, <1>2, <2>1
  <2> QED BY <1>3, <2>2 DEF Tiles
<1> QED BY <1>5, <1>8, <1>9, <1>10 DEF Tiles

-----------------------------------------------------------------------------
(* The free list.                                                          *)

\* p is the greatest of S below b, or NULL when there is none.
Precedes(p, S, b) ==
  \/ p = NULL /\ \A x \in S : ~ (x < b)
  \/ p \in S /\ p < b /\ \A x \in S : x < b => x <= p

\* A block is taken out of the list.
LEMMA OrderedRemove ==
  ASSUME NEW links, NEW new, NEW head, NEW S, NEW b \in S, NEW p,
         Ordered(links, head, S), Precedes(p, S, b), S \ {b} \subseteq DOMAIN new,
         \A x \in S \ {b} : new[x] = IF x = p THEN links[b] ELSE links[x]
  PROVE  Ordered(new, IF p = NULL THEN links[b] ELSE head, S \ {b})
<1> DEFINE h == IF p = NULL THEN links[b] ELSE head
<1>1. S \subseteq Nat /\ NULL \notin Nat /\ b \in Nat
  <2>1. NULL \notin Nat
    BY NullAssumption
  <2> QED BY <2>1 DEF Ordered
<1>2. /\ links[b] \in (S \ {b}) \cup {NULL}
      /\ links[b] # NULL => b < links[b]
      /\ \A y \in S : b < y => links[b] # NULL /\ links[b] <= y
  BY <1>1 DEF Ordered
<1>3. ASSUME NEW x \in S \ {b}, x # p
      PROVE  links[x] # b
  <2> SUFFICES ASSUME links[x] = b
               PROVE  FALSE
    OBVIOUS
  <2>1. x \in Nat /\ x < b
    BY <1>1 DEF Ordered
  <2>2. p \in S /\ p \in Nat /\ p < b /\ x <= p
    BY <1>1, <2>1 DEF Precedes
  <2>3. x < p
    BY <1>3, <2>1, <2>2
  <2>4. b <= p
    BY <2>2, <2>3 DEF Ordered
  <2> QED BY <1>1, <2>2, <2>4
<1>4. ASSUME NEW x \in S \ {b}
      PROVE  /\ new[x] \in (S \ {b}) \cup {NULL}
             /\ new[x] # NULL => x < new[x]
             /\ \A y \in S \ {b} : x < y => new[x] # NULL /\ new[x] <= y
  <2>1. CASE x = p
    <3>1. new[x] = links[b] /\ x < b /\ x \in Nat
      BY <1>1, <2>1 DEF Precedes
    <3>2. ASSUME NEW y \in S \ {b}, x < y
          PROVE  b < y
      <4>1. y \in Nat /\ y \in S /\ p \in Nat /\ ~ (y <= p)
        BY <1>1, <2>1, <3>1, <3>2
      <4>2. ~ (y < b)
        BY <1>1, <2>1, <3>1, <4>1 DEF Precedes
      <4> QED BY <1>1, <3>2, <4>1, <4>2
    <3>3. ASSUME links[b] # NULL
          PROVE  links[b] \in Nat /\ x < links[b]
      <4>1. links[b] \in Nat /\ b < links[b]
        BY <1>1, <1>2, <3>3
      <4> QED BY <1>1, <3>1, <4>1
    <3> QED BY <1>2, <3>1, <3>2, <3>3
  <2>2. CASE x # p
    BY <1>3, <2>2 DEF Ordered
  <2> QED BY <2>1, <2>2
<1>5. /\ h \in (S \ {b}) \cup {NULL}
      /\ S \ {b} # {} => h # NULL
      /\ \A x \in S \ {b} : h <= x
  <2>1. CASE p = NULL
    <3>1. ASSUME NEW x \in S \ {b}
          PROVE  b < x
      <4>1. x \in Nat /\ ~ (x < b)
        BY <1>1, <2>1 DEF Precedes
      <4> QED BY <1>1, <4>1
    <3> QED BY <1>2, <2>1, <3>1
  <2>2. CASE p # NULL
    <3>1. p \in S /\ p \in Nat /\ p < b /\ head <= p /\ head \in S \cup {NULL} /\ head # NULL
      BY <1>1, <2>2 DEF Precedes, Ordered
    <3>2. head \in Nat /\ head # b
      BY <1>1, <3>1
    <3> QED BY <2>2, <3>1, <3>2 DEF Ordered
  <2> QED BY <2>1, <2>2
<1>6. \E n \in Nat : \A x \in S \ {b} : x <= n
  BY DEF Ordered
<1> QED BY <1>1, <1>4, <1>5, <1>6 DEF Ordered

\* A block is put into the list.
LEMMA OrderedInsert ==
  ASSUME NEW links, NEW new, NEW head, NEW S, NEW b \in Nat, b \notin S, NEW p,
         Ordered(links, head, S), Precedes(p, S, b), S \cup {b} \subseteq DOMAIN new,
         \A x \in S : new[x] = IF x = p THEN b ELSE links[x],
         p = NULL => new[b] = head, p # NULL => new[b] = links[p],
         NEW h, p = NULL => h = b, p # NULL => h = head,
         NEW T, T = S \cup {b}
  PROVE  Ordered(new, h, T)
<1>1. S \subseteq Nat /\ NULL \notin Nat /\ (\A x \in S : x < b \/ b < x)
  <2>1. NULL \notin Nat
    BY NullAssumption
  <2>2. S \subseteq Nat
    BY DEF Ordered
  <2> QED BY <2>1, <2>2
<1>2. /\ new[b] \in S \cup {NULL}
      /\ new[b] # NULL => b < new[b]
      /\ \A y \in S : b < y => new[b] # NULL /\ new[b] <= y
  <2>1. CASE p = NULL
    <3>1. \A x \in S : b < x
      BY <1>1, <2>1 DEF Precedes
    <3> QED BY <2>1, <3>1 DEF Ordered
  <2>2. CASE p # NULL
    <3>1. p \in S /\ p \in Nat /\ p < b /\ new[b] = links[p]
      BY <1>1, <2>2 DEF Precedes
    <3>2. links[p] \in S \cup {NULL} /\ (links[p] # NULL => p < links[p])
      BY <3>1 DEF Ordered
    <3>3. links[p] # NULL => b < links[p]
      <4>1. ASSUME links[p] # NULL
            PROVE  links[p] \in S /\ links[p] \in Nat /\ p < links[p] /\ ~ (links[p] <= p)
        <5>1. links[p] \in S /\ links[p] \in Nat /\ p < links[p]
          BY <1>1, <3>2, <4>1
        <5> QED BY <3>1, <5>1
      <4> QED BY <1>1, <2>2, <4>1 DEF Precedes
    <3>4. ASSUME NEW y \in S, b < y
          PROVE  links[p] # NULL /\ links[p] <= y
      <4>1. p < y
        BY <1>1, <3>1, <3>4
      <4> QED BY <3>1, <4>1 DEF Ordered
    <3> QED BY <3>1, <3>2, <3>3, <3>4
  <2> QED BY <2>1, <2>2
<1>3. ASSUME NEW x \in S
      PROVE  /\ new[x] \in T \cup {NULL}
             /\ new[x] # NULL => x < new[x]
             /\ \A y \in T : x < y => new[x] # NULL /\ new[x] <= y
  <2>1. CASE x = p
    <3>1. new[x] = b /\ x < b /\ b # NULL
      BY <1>1, <2>1 DEF Precedes
    <3>2. \A y \in T : x < y => b <= y
      BY <1>1, <2>1, <3>1 DEF Precedes
    <3> QED BY <3>1, <3>2
  <2>2. CASE x # p
    <3>1. /\ new[x] = links[x] /\ links[x] \in S \cup {NULL} /\ x \in Nat
          /\ links[x] # NULL => x < links[x]
          /\ \A y \in S : x < y => links[x] # NULL /\ links[x] <= y
      BY <1>1, <2>2 DEF Ordered
    <3>2. ASSUME x < b
          PROVE  links[x] # NULL /\ links[x] <= b
      <4>1. p \in S /\ p \in Nat /\ p < b /\ x <= p
        BY <1>1, <3>2 DEF Precedes
      <4>2. x < p
        BY <2>2, <3>1, <4>1
      <4>3. links[x] # NULL /\ links[x] <= p /\ links[x] \in Nat
        BY <1>1, <3>1, <4>1, <4>2
      <4> QED BY <4>1, <4>3
    <3> QED BY <3>1, <3>2
  <2> QED BY <2>1, <2>2
<1>4. /\ h \in T \cup {NULL}
      /\ h # NULL
      /\ \A x \in T : h <= x
  <2>1. CASE p = NULL
    <3>1. h = b /\ b # NULL /\ b <= b
      BY <1>1, <2>1
    <3>2. ASSUME NEW x \in S
          PROVE  b <= x
      <4>1. ~ (x < b) /\ b < x
        BY <1>1, <2>1 DEF Precedes
      <4>2. x \in Nat
        BY <1>1
      <4> QED BY <4>1, <4>2
    <3> QED BY <3>1, <3>2
  <2>2. CASE p # NULL
    <3>1. p \in S /\ p \in Nat /\ p < b /\ head <= p /\ head \in S \cup {NULL} /\ head # NULL
      BY <1>1, <2>2 DEF Precedes, Ordered
    <3>2. head \in Nat /\ head <= b
      BY <1>1, <3>1
    <3> QED BY <2>2, <3>1, <3>2 DEF Ordered
  <2> QED BY <2>1, <2>2
<1>5. \E n \in Nat : \A x \in T : x <= n
  <2>1. PICK n \in Nat : \A x \in S : x <= n
    BY DEF Ordered
  <2>2. n + b \in Nat /\ b <= n + b /\ \A x \in S : x <= n + b
    BY <1>1, <2>1
  <2> QED BY <2>2
<1>6. \A x \in T : /\ new[x] \in T \cup {NULL}
                   /\ new[x] # NULL => x < new[x]
                   /\ \A y \in T : x < y => new[x] # NULL /\ new[x] <= y
  <2>1. ~ (b < b)
    OBVIOUS
  <2> QED BY <1>2, <1>3, <2>1
<1>7. T \subseteq Nat
  BY <1>1
<1> QED BY <1>4, <1>5, <1>6, <1>7 DEF Ordered

\* A block takes the place of another in the list.
LEMMA OrderedReplace ==
  ASSUME NEW links, NEW new, NEW head, NEW S, NEW b \in S, NEW p, NEW c \in Nat,
         Ordered(links, head, S), S \subseteq DOMAIN links, Precedes(p, S, b),
         c \notin S \ {b}, Precedes(p, S \ {b}, c), (S \ {b}) \cup {c} \subseteq DOMAIN new,
         \A x \in S \ {b} : new[x] = IF x = p THEN c ELSE links[x],
         new[c] = links[b],
         NEW h, p = NULL => h = c, p # NULL => h = head,
         NEW T, T = (S \ {b}) \cup {c}
  PROVE  Ordered(new, h, T)
<1> DEFINE mid == [x \in DOMAIN links |-> IF x = p THEN links[b] ELSE links[x]]
           midhead == IF p = NULL THEN links[b] ELSE head
           R == S \ {b}
<1>1. R \subseteq DOMAIN mid /\ \A x \in R : mid[x] = IF x = p THEN links[b] ELSE links[x]
  OBVIOUS
<1>2. p # NULL => p \in R /\ mid[p] = links[b]
  BY DEF Precedes
<1>3. p = NULL => midhead = links[b]
  OBVIOUS
<1>4. \A x \in R : new[x] = IF x = p THEN c ELSE mid[x]
  OBVIOUS
<1> HIDE DEF mid
<1>5. Ordered(mid, midhead, R)
  BY <1>1, OrderedRemove
<1>6. Precedes(p, R, c) /\ c \notin R /\ R \cup {c} \subseteq DOMAIN new
  OBVIOUS
<1>7. p # NULL => midhead = head
  OBVIOUS
<1>8. (p = NULL => new[c] = midhead) /\ (p # NULL => new[c] = mid[p])
  BY <1>2, <1>3
<1>9. (p = NULL => h = c) /\ (p # NULL => h = midhead)
  BY <1>7
<1>10. T = R \cup {c}
  OBVIOUS
<1> HIDE DEF midhead, R
<1>11. Ordered(new, h, T)
  BY <1>4, <1>5, <1>6, <1>8, <1>9, <1>10, OrderedInsert
<1> QED BY <1>11

\* Who comes before a block of the list precedes it, and nobody else has its link.
LEMMA BeforePrecedes ==
  ASSUME NEW links, NEW head, NEW S, NEW b \in S, Ordered(links, head, S)
  PROVE  Precedes(Before(links, head, b), S, b)
<1> DEFINE low == {x \in S : x < b}
           p == Before(links, head, b)
<1>1. b # NULL
  BY NullAssumption DEF Ordered
<1>2. low \subseteq S /\ (\A x \in S : x < b <=> x \in low)
  OBVIOUS
<1>3. b # NULL => low = {x \in S : x < b}
  OBVIOUS
<1> HIDE DEF low
<1>4. (low = {} => p = NULL) /\ (low # {} => p \in low /\ \A x \in low : x <= p)
  BY <1>1, <1>2, <1>3, OrderedBefore
<1> HIDE DEF p
<1>5. Precedes(p, S, b)
  BY <1>2, <1>4 DEF Precedes
<1> QED BY <1>5 DEF p

\* Links elsewhere do not matter.
LEMMA OrderedKept ==
  ASSUME NEW links, NEW new, NEW head, NEW S, Ordered(links, head, S),
         S \subseteq DOMAIN new, \A x \in S : new[x] = links[x]
  PROVE  Ordered(new, head, S)
BY DEF Ordered

-----------------------------------------------------------------------------
(* The invariant.                                                          *)

\* The blocks, the links and both heads; U are the blocks in use.
Shape(sz, links, free, alloc, U) ==
  /\ Tiles(sz)
  /\ DOMAIN links = DOMAIN sz
  /\ U \subseteq DOMAIN sz
  /\ Chain(links, alloc, U)
  /\ Ordered(links, free, DOMAIN sz \ U)

\* No free block ends where the next one begins.
Separate(sz, links, U) ==
  \A x \in DOMAIN sz \ U : links[x] # x + HEADER + sz[x]

\* The blocks in use, by what programs hold.
Used == {a - HEADER : a \in DOMAIN held}

\* What programs hold fits into the blocks it is in.
HeldFits ==
  /\ held \in [DOMAIN held -> Nat]
  /\ DOMAIN held \subseteq Nat
  /\ \A a \in DOMAIN held : held[a] <= size[a - HEADER]

\* The inductive invariant.
IInv ==
  /\ Shape(size, next, free_mem, alloc_mem, Used)
  /\ Separate(size, next, Used)
  /\ next = [x \in DOMAIN next |-> next[x]]
  /\ HeldFits
  /\ infoMem \in Counters /\ TotalKept

\* Addresses, sizes and links are of their kinds.
LEMMA ShapeFacts ==
  ASSUME NEW sz, NEW links, NEW free, NEW alloc, NEW U, Shape(sz, links, free, alloc, U)
  PROVE  /\ DOMAIN sz \subseteq Nat /\ NULL \notin DOMAIN sz /\ DOMAIN links = DOMAIN sz
         /\ \A x \in DOMAIN sz : x \in Nat /\ sz[x] \in Nat
         /\ \A x \in DOMAIN sz : links[x] \in DOMAIN sz \cup {NULL}
<1>1. DOMAIN sz \subseteq Nat /\ NULL \notin DOMAIN sz
  BY Sizes DEF Shape, Tiles
<1>2. \A x \in U : links[x] \in U \cup {NULL}
  BY DEF Shape, Chain, Closed
<1>3. \A x \in DOMAIN sz \ U : links[x] \in (DOMAIN sz \ U) \cup {NULL}
  BY DEF Shape, Ordered
<1>4. \A x \in DOMAIN sz : sz[x] \in Nat
  BY DEF Shape, Tiles
<1>5. DOMAIN links = DOMAIN sz
  BY DEF Shape
<1> QED BY <1>1, <1>2, <1>3, <1>4, <1>5 DEF Shape

\* Only what the links are matters.
LEMMA ShapeKept ==
  ASSUME NEW sz, NEW links, NEW free, NEW alloc, NEW U, Shape(sz, links, free, alloc, U),
         NEW new, DOMAIN new = DOMAIN sz, \A x \in DOMAIN sz : new[x] = links[x]
  PROVE  Shape(sz, new, free, alloc, U)
<1>1. Ordered(new, free, DOMAIN sz \ U)
  BY OrderedKept DEF Shape
<1>2. Chain(new, alloc, U)
  BY ChainKept DEF Shape
<1> QED BY <1>1, <1>2 DEF Shape

-----------------------------------------------------------------------------
(* malloc.                                                                 *)

\* A block is handed out as it is.
LEMMA TakeWhole ==
  ASSUME NEW sz, NEW links, NEW free, NEW alloc, NEW U, Shape(sz, links, free, alloc, U),
         Separate(sz, links, U), NEW b \in DOMAIN sz \ U, NEW p, p = Before(links, free, b),
         NEW new,
         new = [x \in DOMAIN sz |-> IF x = b THEN alloc ELSE IF x = p THEN links[b] ELSE links[x]]
  PROVE  /\ Shape(sz, new, IF p = NULL THEN links[b] ELSE free, b, U \cup {b})
         /\ Separate(sz, new, U \cup {b})
<1> DEFINE S == DOMAIN sz \ U
<1>1. /\ DOMAIN sz \subseteq Nat /\ NULL \notin DOMAIN sz
      /\ \A x \in DOMAIN sz : x \in Nat /\ sz[x] \in Nat
  BY ShapeFacts
<1>2. Ordered(links, free, S) /\ Chain(links, alloc, U) /\ U \subseteq DOMAIN sz
  BY DEF Shape
<1>3. DOMAIN new = DOMAIN sz
  OBVIOUS
<1>4. S \ {b} = DOMAIN sz \ (U \cup {b}) /\ b \in S /\ b # NULL /\ b \notin U /\ S \cap U = {}
      /\ S \subseteq DOMAIN sz
  BY <1>1
<1> HIDE DEF S
<1>5. Precedes(p, S, b)
  BY <1>2, <1>4, BeforePrecedes
<1>6. Ordered(new, IF p = NULL THEN links[b] ELSE free, S \ {b})
  <2>1. \A x \in S \ {b} : new[x] = IF x = p THEN links[b] ELSE links[x]
    BY <1>4
  <2> QED BY <1>2, <1>3, <1>4, <1>5, <2>1, OrderedRemove
<1>7. Chain(new, b, U \cup {b})
  <2>1. p \notin U
    BY <1>1, <1>2, <1>4, <1>5 DEF Precedes
  <2>2. \A x \in U : new[x] = links[x]
    BY <1>2, <1>4, <2>1
  <2>3. new[b] = alloc /\ U \cup {b} \subseteq DOMAIN new
    BY <1>2, <1>3, <1>4
  <2> QED BY <1>2, <1>4, <2>2, <2>3, ChainPush
<1>8. ASSUME NEW x \in S \ {b}
      PROVE  new[x] # x + HEADER + sz[x]
  <2>1. CASE x = p
    <3>1. x < b /\ x + HEADER + sz[x] <= b /\ x + HEADER + sz[x] \in Nat /\ new[x] = links[b] /\ b \in Nat
      BY <1>1, <1>4, <1>5, <2>1, Sizes DEF Precedes, Shape, Tiles
    <3>2. links[b] = NULL \/ (links[b] \in Nat /\ b < links[b])
      BY <1>1, <1>2, <1>4 DEF Ordered
    <3> QED BY <3>1, <3>2, Sizes
  <2>2. CASE x # p
    BY <1>4, <2>2 DEF Separate
  <2> QED BY <2>1, <2>2
<1>9. U \cup {b} \subseteq DOMAIN sz
  BY <1>2
<1> QED BY <1>3, <1>4, <1>6, <1>7, <1>8, <1>9 DEF Shape, Separate

\* Block b is long enough to be cut after n bytes.
CanSplit(sz, b, n) == n \in Nat /\ n % WORD = 0 /\ sz[b] >= n + HEADER

\* A block is handed out without what is not needed of it.
LEMMA TakeSplit ==
  ASSUME NEW sz, NEW links, NEW free, NEW alloc, NEW U, Shape(sz, links, free, alloc, U),
         Separate(sz, links, U), NEW b \in DOMAIN sz \ U, NEW p, p = Before(links, free, b),
         NEW n, CanSplit(sz, b, n),
         NEW rest, rest = NewBlock(b, n),
         NEW new, DOMAIN new = DOMAIN sz \cup {rest},
         new[rest] = links[b], new[b] = alloc,
         \A x \in DOMAIN sz \ {b} : new[x] = IF x = p THEN rest ELSE links[x],
         NEW h, p = NULL => h = rest, p # NULL => h = free,
         NEW sp, sp = SplitSize(sz, b, n), NEW V, V = U \cup {b}
  PROVE  Shape(sp, new, h, b, V) /\ Separate(sp, new, V)
<1> DEFINE S == DOMAIN sz \ U
<1>1. /\ DOMAIN sz \subseteq Nat /\ NULL \notin DOMAIN sz
      /\ \A x \in DOMAIN sz : x \in Nat /\ sz[x] \in Nat
  BY ShapeFacts
<1>2. Ordered(links, free, S) /\ Chain(links, alloc, U) /\ U \subseteq DOMAIN sz /\ Tiles(sz)
  BY DEF Shape
<1>3. n \in Nat /\ n % WORD = 0 /\ sz[b] >= n + HEADER
  BY DEF CanSplit
<1>4. Tiles(sp) /\ rest \notin DOMAIN sz
  BY <1>2, <1>3, SplitTiles DEF NewBlock
<1>5. DOMAIN sp = DOMAIN sz \cup {rest} /\ sp[rest] = sz[b] - n - HEADER /\ sp[b] = n
      /\ \A x \in DOMAIN sz \ {b} : sp[x] = sz[x]
  BY <1>4 DEF SplitSize, NewBlock
<1>6. b \in Nat /\ rest \in Nat /\ b < rest /\ rest < b + HEADER + sz[b] /\ rest # NULL
      /\ rest + HEADER + sp[rest] = b + HEADER + sz[b]
  <2>1. b \in Nat /\ sz[b] \in Nat /\ HEADER \in Nat /\ HEADER > 0 /\ NULL \notin Int
    BY <1>1, Sizes
  <2> QED BY <1>5, <1>3, <2>1 DEF NewBlock
<1>7. DOMAIN new = DOMAIN sp
  BY <1>5
<1>8. (S \ {b}) \cup {rest} = DOMAIN sp \ (U \cup {b}) /\ b \in S /\ b # NULL /\ b \notin U
      /\ S \cap U = {} /\ rest \notin S /\ S \subseteq DOMAIN sz
  BY <1>1, <1>2, <1>4, <1>5, <1>6
<1> HIDE DEF S
<1>9. Precedes(p, S, b)
  BY <1>2, <1>8, BeforePrecedes
<1>10. Precedes(p, S \ {b}, rest)
  <2>1. ASSUME NEW x \in S \ {b}, x < rest
        PROVE  x < b
    <3>1. x \in Nat /\ (b < x => b + HEADER + sz[b] <= x) /\ (x < b \/ b < x)
      BY <1>1, <1>2, <1>6, <1>8 DEF Tiles
    <3> DEFINE end == b + HEADER + sz[b]
    <3>2. end \in Nat /\ rest < end /\ rest \in Nat /\ x < rest
      BY <1>1, <1>6, <1>8, <2>1, Sizes
    <3>3. b < x => end <= x
      BY <3>1
    <3> HIDE DEF end
    <3> QED BY <3>1, <3>2, <3>3
  <2>2. CASE p = NULL
    <3>1. \A x \in S : ~ (x < b)
      BY <1>1, <1>8, <1>9, <2>2 DEF Precedes
    <3> QED BY <2>1, <2>2, <3>1 DEF Precedes
  <2>3. CASE p # NULL
    <3>1. p \in S /\ p < b /\ \A x \in S : x < b => x <= p
      BY <1>9, <2>3 DEF Precedes
    <3>2. p \in Nat /\ p # b /\ p < rest
      BY <1>1, <1>6, <1>8, <3>1
    <3> QED BY <2>1, <3>1, <3>2 DEF Precedes
  <2> QED BY <2>2, <2>3
<1>11. Ordered(new, h, (S \ {b}) \cup {rest})
  <2>1. \A x \in S \ {b} : new[x] = IF x = p THEN rest ELSE links[x]
    BY <1>8
  <2>2. (S \ {b}) \cup {rest} \subseteq DOMAIN new /\ rest \notin S \ {b} /\ S \subseteq DOMAIN links
    BY <1>2, <1>5, <1>7, <1>8 DEF Ordered
  <2> DEFINE T == (S \ {b}) \cup {rest}
  <2>3. T = (S \ {b}) \cup {rest}
    OBVIOUS
  <2> HIDE DEF T
  <2>4. Ordered(new, h, T)
    <3>1. Ordered(links, free, S) /\ S \subseteq DOMAIN links /\ Precedes(p, S, b) /\ b \in S /\ rest \in Nat
      BY <1>2, <1>6, <1>8, <1>9, <2>2
    <3>2. rest \notin S \ {b} /\ Precedes(p, S \ {b}, rest) /\ (S \ {b}) \cup {rest} \subseteq DOMAIN new
      BY <1>10, <2>2
    <3>3. (p = NULL => h = rest) /\ (p # NULL => h = free) /\ new[rest] = links[b]
      OBVIOUS
    <3> QED BY <2>1, <2>3, <3>1, <3>2, <3>3, OrderedReplace
  <2> QED BY <2>3, <2>4
<1>12. Chain(new, b, U \cup {b})
  <2>1. p \notin U
    BY <1>1, <1>2, <1>8, <1>9 DEF Precedes
  <2>2. \A x \in U : new[x] = links[x]
    BY <1>2, <1>4, <1>8, <2>1
  <2>3. new[b] = alloc /\ U \cup {b} \subseteq DOMAIN new
    BY <1>2, <1>5, <1>6, <1>7, <1>8
  <2> QED BY <1>2, <1>8, <2>2, <2>3, ChainPush
<1>13. ASSUME NEW x \in (S \ {b}) \cup {rest}
       PROVE  new[x] # x + HEADER + sp[x]
  <2>1. CASE x = rest
    <3>1. new[x] = links[b] /\ x + HEADER + sp[x] = b + HEADER + sz[b]
      BY <1>6, <2>1
    <3> QED BY <1>8, <3>1 DEF Separate, S
  <2>2. CASE x = p /\ x # rest
    <3>1. x \in DOMAIN sz \ {b} /\ x < b
      <4>1. x \in S \ {b}
        BY <1>13, <2>2
      <4>2. x # NULL
        BY <1>1, <1>8, <4>1
      <4> QED BY <1>8, <1>9, <2>2, <4>1, <4>2 DEF Precedes
    <3>2. x + HEADER + sz[x] <= b /\ x + HEADER + sz[x] \in Nat /\ new[x] = rest
      BY <1>1, <1>2, <1>8, <2>2, <3>1, Sizes DEF Tiles
    <3> QED BY <1>5, <1>6, <3>1, <3>2
  <2>3. CASE x # p /\ x # rest
    <3>1. x \in DOMAIN sz \ {b} /\ x \in DOMAIN sz \ U /\ new[x] = links[x]
      BY <1>8, <2>3 DEF S
    <3> QED BY <1>5, <3>1 DEF Separate
  <2> QED BY <2>1, <2>2, <2>3
<1>14. U \cup {b} \subseteq DOMAIN sp
  BY <1>2, <1>5
<1>15. Shape(sp, new, h, b, U \cup {b})
  BY <1>4, <1>7, <1>8, <1>11, <1>12, <1>14 DEF Shape
<1>16. Separate(sp, new, U \cup {b})
  BY <1>8, <1>13 DEF Separate
<1> QED BY <1>15, <1>16

\* malloc moves block b from the free list to the allocated one.
LEMMA TakeKeeps ==
  ASSUME Shape(size, next, free_mem, alloc_mem, Used), Separate(size, next, Used),
         infoMem \in Counters, TotalKept,
         NEW b \in Blocks \ Used, NEW n \in Nat, n % WORD = 0, size[b] >= n, Take(b, n)
  PROVE  /\ Shape(size', next', free_mem', alloc_mem', Used \cup {b})
         /\ Separate(size', next', Used \cup {b})
         /\ infoMem' \in Counters /\ TotalKept'
         /\ size'[b] >= n /\ (\A x \in Used : size'[x] = size[x])
         /\ next' = [x \in DOMAIN next' |-> next'[x]]
<1> DEFINE U == Used
           p == Before(next, free_mem, b)
           rest == NewBlock(b, n)
           whole == [x \in Blocks |-> IF x = b THEN alloc_mem ELSE IF x = p THEN next[b] ELSE next[x]]
<1>1. /\ \A x \in DOMAIN size : x \in Nat /\ size[x] \in Nat
      /\ U \subseteq DOMAIN size /\ Tiles(size)
  <2>1. \A x \in DOMAIN size : x \in Nat /\ size[x] \in Nat
    BY ShapeFacts
  <2> QED BY <2>1 DEF Shape
<1>2. b \in DOMAIN size \ U /\ b \notin U
  BY DEF Blocks
<1> HIDE DEF U
<1>3. next' = [x \in DOMAIN next' |-> next'[x]]
  BY DEF Take
<1>4. CASE ~ Splits(b, n)
  <2>1. /\ size' = [x \in Blocks |-> IF x = b THEN size[b] ELSE size[x]]
        /\ next' = whole
        /\ free_mem' = IF p = NULL THEN next[b] ELSE free_mem
        /\ alloc_mem' = b
        /\ infoMem' = Account(infoMem, size[b])
    BY <1>4 DEF Take
  <2>2. size' = size
    <3>1. size = [x \in DOMAIN size |-> size[x]]
      BY <1>1 DEF Tiles
    <3> QED BY <2>1, <3>1 DEF Blocks
  <2> HIDE DEF p
  <2>3. /\ Shape(size, whole, IF p = NULL THEN next[b] ELSE free_mem, b, U \cup {b})
        /\ Separate(size, whole, U \cup {b})
    BY <1>2, TakeWhole DEF Blocks, U, p
  <2>4. infoMem' \in Counters /\ TotalKept'
    BY <1>1, <1>2, <2>1, AccountKeeps DEF TotalKept
  <2> HIDE DEF whole
  <2>5. /\ Shape(size', next', free_mem', alloc_mem', U \cup {b})
        /\ Separate(size', next', U \cup {b})
    BY <2>1, <2>2, <2>3
  <2> QED BY <1>3, <2>2, <2>4, <2>5 DEF U
<1>5. CASE Splits(b, n)
  <2>1. /\ size' = [x \in Blocks \cup {rest} |->
                     IF x \in {rest} THEN size[b] - n - HEADER ELSE IF x = b THEN n ELSE size[x]]
        /\ next' = [x \in Blocks \cup {rest} |->
                     IF x \in {rest} THEN next[b] ELSE IF x = b THEN alloc_mem
                     ELSE IF x = p THEN rest ELSE next[x]]
        /\ free_mem' = IF p = NULL THEN rest ELSE free_mem
        /\ alloc_mem' = b
        /\ infoMem' = Account(infoMem, n + HEADER)
    BY <1>5 DEF Take
  <2>2. rest = NewBlock(b, n)
    OBVIOUS
  <2> HIDE DEF p, rest
  <2>3. size' = SplitSize(size, b, n)
    BY <2>1, <2>2 DEF SplitSize, Blocks, NewBlock
  <2>4. size[b] >= n + HEADER /\ n + HEADER \in Int
    BY <1>1, <1>2, <1>5, Sizes DEF Splits
  <2> DEFINE new == next'
             h == free_mem'
  <2>5. /\ DOMAIN new = DOMAIN size \cup {rest}
        /\ new[rest] = next[b]
        /\ \A x \in DOMAIN size \ {rest} :
             new[x] = IF x = b THEN alloc_mem ELSE IF x = p THEN rest ELSE next[x]
        /\ (p = NULL => h = rest) /\ (p # NULL => h = free_mem)
    BY <2>1 DEF Blocks
  <2>8. rest \notin DOMAIN size
    BY <1>1, <1>2, <2>2, <2>4, SplitTiles DEF NewBlock
  <2> HIDE DEF new, h
  <2>11. new[b] = alloc_mem /\ \A x \in DOMAIN size \ {b} : new[x] = IF x = p THEN rest ELSE next[x]
    BY <1>2, <2>5, <2>8
  <2> DEFINE V == U \cup {b}
  <2>12. size' = SplitSize(size, b, n) /\ V = U \cup {b}
    BY <2>3
  <2> HIDE DEF V
  <2>6. Shape(size', new, h, b, V) /\ Separate(size', new, V)
    <3>1. /\ Shape(size, next, free_mem, alloc_mem, U) /\ Separate(size, next, U)
          /\ p = Before(next, free_mem, b)
      BY DEF U, p
    <3>2. b \in DOMAIN size \ U /\ CanSplit(size, b, n)
      BY <1>2, <2>4 DEF CanSplit
    <3>3. DOMAIN new = DOMAIN size \cup {rest} /\ new[rest] = next[b] /\ new[b] = alloc_mem
      BY <2>5, <2>11
    <3>4. \A x \in DOMAIN size \ {b} : new[x] = IF x = p THEN rest ELSE next[x]
      BY <2>11
    <3>5. (p = NULL => h = rest) /\ (p # NULL => h = free_mem)
      BY <2>5
    <3> QED BY <2>2, <2>12, <3>1, <3>2, <3>3, <3>4, <3>5, TakeSplit
  <2>7. infoMem' \in Counters /\ TotalKept'
    BY <2>1, <2>4, AccountKeeps DEF TotalKept
  <2>9. size'[b] >= n /\ \A x \in U : size'[x] = size[x]
    BY <1>1, <1>2, <2>1, <2>8 DEF Blocks
  <2>10. /\ Shape(size', next', free_mem', alloc_mem', U \cup {b})
         /\ Separate(size', next', U \cup {b})
    BY <2>1, <2>6, <2>12 DEF new, h
  <2> QED BY <1>3, <2>7, <2>9, <2>10 DEF U
<1> QED BY <1>4, <1>5, <1>3

\* The block that malloc finds, and what it does with it.
MallocIs(request, n, b) ==
  /\ request \in Nat /\ request > 0 /\ n \in Nat /\ n >= request /\ n % WORD = 0
  /\ b \in Blocks \ Used /\ size[b] >= n
  /\ Take(b, n)
  /\ held' = [a \in DOMAIN held \cup {b + HEADER} |-> IF a = b + HEADER THEN request ELSE held[a]]

\* malloc takes a free block that is long enough.
LEMMA MallocFinds ==
  ASSUME IInv, Malloc
  PROVE  \E request \in Requests, n, b \in Nat : MallocIs(request, n, b)
<1>1. PICK request \in Requests \ {0} :
        LET n == Aligned(request)
            b == First(next, free_mem, {x \in Blocks : size[x] >= n})
        IN  /\ b # NULL
            /\ Take(b, n)
            /\ held' = [a \in DOMAIN held \cup {b + HEADER} |->
                          IF a = b + HEADER THEN request ELSE held[a]]
  BY DEF Malloc
<1> DEFINE n == Aligned(request)
           wanted == {x \in Blocks : size[x] >= n}
           b == First(next, free_mem, wanted)
           S == DOMAIN size \ Used
<1>2. request \in Nat /\ request > 0 /\ n \in Nat /\ n >= request /\ n % WORD = 0
  <2>1. request \in Nat /\ request # 0 /\ request <= SizeMod - WORD
    BY RequestsAssumption
  <2> QED BY <2>1, AlignedEnough
<1>3. b \in S \cap wanted
  <2> HIDE DEF wanted, S
  <2>1. Ordered(next, free_mem, S)
    BY DEF IInv, Shape, S
  <2>2. b # NULL
    BY <1>1 DEF wanted
  <2> QED BY <2>1, <2>2, OrderedFirst
<1>4. b \in Nat /\ b \in Blocks \ Used /\ size[b] >= n
  <2>1. DOMAIN size \subseteq Nat
    BY DEF IInv, Shape, Tiles
  <2> QED BY <1>3, <2>1 DEF Blocks
<1>5. MallocIs(request, n, b)
  BY <1>1, <1>2, <1>4 DEF MallocIs
<1> QED BY <1>2, <1>4, <1>5

\* malloc keeps the invariant.
LEMMA MallocKeeps ==
  ASSUME IInv, Malloc
  PROVE  IInv'
<1>1. PICK request \in Requests, n, b \in Nat : MallocIs(request, n, b)
  BY MallocFinds
<1>2. /\ Shape(size', next', free_mem', alloc_mem', Used \cup {b})
      /\ Separate(size', next', Used \cup {b})
      /\ infoMem' \in Counters /\ TotalKept'
      /\ size'[b] >= n /\ (\A x \in Used : size'[x] = size[x])
      /\ next' = [x \in DOMAIN next' |-> next'[x]]
  BY <1>1, TakeKeeps DEF IInv, MallocIs
<1>3. HEADER \in Nat
  BY Sizes
<1>4. DOMAIN held' = DOMAIN held \cup {b + HEADER} /\ held'[b + HEADER] = request
      /\ held' = [a \in DOMAIN held' |-> held'[a]]
      /\ \A a \in DOMAIN held : a # b + HEADER => held'[a] = held[a]
  BY <1>1 DEF MallocIs
<1>5. Used' = Used \cup {b}
  <2>1. (b + HEADER) - HEADER = b
    BY <1>3
  <2>2. ASSUME NEW x \in Used'
        PROVE  x \in Used \cup {b}
    <3>1. PICK a \in DOMAIN held' : x = a - HEADER
      BY DEF Used
    <3> QED BY <1>4, <2>1, <3>1 DEF Used
  <2>3. Used \subseteq Used'
    BY <1>4 DEF Used
  <2>4. b \in Used'
    BY <1>4, <2>1 DEF Used
  <2> QED BY <2>2, <2>3, <2>4
<1>6. HeldFits'
  <2>1. ASSUME NEW a \in DOMAIN held'
        PROVE  a \in Nat /\ held'[a] \in Nat /\ held'[a] <= size'[a - HEADER]
    <3>1. CASE a = b + HEADER
      <4>1. a - HEADER = b /\ a \in Nat
        BY <1>3, <3>1
      <4>2. size'[b] \in Nat
        BY <1>2 DEF Shape, Tiles
      <4> QED BY <1>1, <1>2, <1>4, <3>1, <4>1, <4>2 DEF MallocIs
    <3>2. CASE a # b + HEADER
      <4>1. a \in DOMAIN held /\ held'[a] = held[a] /\ a - HEADER \in Used
        BY <1>4, <3>2 DEF Used
      <4> QED BY <1>2, <4>1 DEF IInv, HeldFits
    <3> QED BY <3>1, <3>2
  <2> QED BY <1>4, <2>1 DEF HeldFits
<1> QED BY <1>2, <1>5, <1>6 DEF IInv

-----------------------------------------------------------------------------
(* free.                                                                   *)

\* The walk over the joins stops at a block that is not joined to the next ...
LEMMA WalkEnd ==
  ASSUME NEW joins, NEW x \in DOMAIN joins, x # NULL, joins[x] = NULL
  PROVE  Before(joins, x, NULL) = x
<1> DEFINE S == {x}
           previous == {z \in Listed(joins, x) : joins[z] = NULL}
<1>1. Listed(joins, x) = S
  <2>1. S \subseteq DOMAIN joins /\ x \in S \cup {NULL} /\ Closed(joins, S)
    BY DEF Closed
  <2>2. \A part \in SUBSET S : x \in part \cup {NULL} /\ Closed(joins, part) => S \subseteq part
    OBVIOUS
  <2> HIDE DEF S
  <2> QED BY <2>1, <2>2, ListedIs
<1>2. previous = {x}
  BY <1>1
<1>3. Before(joins, x, NULL) = IF previous = {} THEN NULL ELSE CHOOSE z \in previous : TRUE
  BY DEF Before
<1> HIDE DEF previous
<1> QED BY <1>2, <1>3

\* ... and goes on from one that is.
LEMMA WalkStep ==
  ASSUME NEW joins, NEW x \in DOMAIN joins, x # NULL, NEW y \in DOMAIN joins, y # NULL, joins[x] = y
  PROVE  Before(joins, x, NULL) = Before(joins, y, NULL)
<1> DEFINE from(h) == {part \in SUBSET DOMAIN joins : h \in part \cup {NULL} /\ Closed(joins, part)}
           previous(h) == {z \in Listed(joins, h) : joins[z] = NULL}
<1>1. \A h : Listed(joins, h) = {z \in DOMAIN joins : \A part \in from(h) : z \in part}
  BY DEF Listed
<1>2. ASSUME NEW z \in Listed(joins, x), z # x
      PROVE  z \in Listed(joins, y)
  <2>1. ASSUME NEW part \in from(y)
        PROVE  z \in part
    <3>1. y \in part /\ part \in SUBSET DOMAIN joins /\ Closed(joins, part)
      OBVIOUS
    <3>2. part \cup {x} \in from(x)
      BY <3>1 DEF Closed
    <3> QED BY <1>1, <1>2, <3>2
  <2> QED BY <1>1, <2>1
<1>3. ASSUME NEW z \in Listed(joins, y)
      PROVE  z \in Listed(joins, x)
  <2>1. ASSUME NEW part \in from(x)
        PROVE  z \in part
    <3>1. part \in from(y)
      BY DEF Closed
    <3> QED BY <1>1, <3>1
  <2> QED BY <1>1, <2>1
<1>4. previous(x) = previous(y)
  BY <1>2, <1>3
<1>5. \A h : Before(joins, h, NULL) = IF previous(h) = {} THEN NULL ELSE CHOOSE z \in previous(h) : TRUE
  BY DEF Before
<1> HIDE DEF previous
<1> QED BY <1>4, <1>5

\* Only the free blocks of X may end where the next one begins.
Loose(sz, links, U, X) ==
  \A x \in (DOMAIN sz \ U) \ X : links[x] # x + HEADER + sz[x]

\* What is left of the links when block x grows over the next one, y.
JoinedLinks(links, x, y) ==
  [z \in DOMAIN links \ {y} |-> IF z = x THEN links[y] ELSE links[z]]

\* One turn of the joining loop: x grows over y, and may end where the next begins only if y did.
LEMMA JoinKeeps ==
  ASSUME NEW sz, NEW links, NEW free, NEW alloc, NEW U, Shape(sz, links, free, alloc, U),
         NEW X, Loose(sz, links, U, X),
         NEW x \in DOMAIN sz \ U, NEW y \in DOMAIN sz, links[x] = y, y = x + HEADER + sz[x], y \notin X,
         NEW sp, sp = JoinedSize(sz, x, y), NEW new, new = JoinedLinks(links, x, y)
  PROVE  Shape(sp, new, free, alloc, U) /\ Loose(sp, new, U, X \ {x})
<1> DEFINE S == DOMAIN sz \ U
<1>1. /\ DOMAIN sz \subseteq Nat /\ NULL \notin DOMAIN sz /\ DOMAIN links = DOMAIN sz
      /\ \A z \in DOMAIN sz : z \in Nat /\ sz[z] \in Nat
  BY ShapeFacts
<1>2. Ordered(links, free, S) /\ Chain(links, alloc, U) /\ U \subseteq DOMAIN sz /\ Tiles(sz)
  BY DEF Shape
<1>3. x < y /\ x # y /\ x # NULL
  BY <1>1, Sizes
<1>4. y \in S
  BY <1>1, <1>2 DEF Ordered
<1>5. Precedes(x, S, y)
  <2>1. ASSUME NEW z \in S, z < y
        PROVE  z <= x
    <3>1. z \in Nat /\ x \in Nat /\ y \in Nat
      BY <1>1
    <3>2. x < z => y <= z
      BY <1>2 DEF Ordered
    <3> QED BY <2>1, <3>1, <3>2
  <2> QED BY <1>3, <2>1 DEF Precedes
<1>6. DOMAIN sp = DOMAIN sz \ {y} /\ DOMAIN new = DOMAIN sz \ {y} /\ new[x] = links[y]
      /\ \A z \in DOMAIN sz \ {x, y} : sp[z] = sz[z] /\ new[z] = links[z]
  BY <1>1, <1>3 DEF JoinedSize, JoinedLinks
<1>7. S \ {y} = DOMAIN sp \ U /\ U \subseteq DOMAIN sp /\ y \notin U /\ x \notin U
  BY <1>2, <1>4, <1>6
<1>8. Tiles(sp)
  BY <1>2, JoinTiles
<1>9. Ordered(new, free, S \ {y})
  <2> HIDE DEF S
  <2>1. S \ {y} \subseteq DOMAIN new
    BY <1>6, <1>7
  <2>2. \A z \in S \ {y} : new[z] = IF z = x THEN links[y] ELSE links[z]
    BY <1>6, <1>7
  <2> QED BY <1>2, <1>3, <1>4, <1>5, <2>1, <2>2, OrderedRemove
<1>10. Chain(new, alloc, U)
  <2>1. U \subseteq DOMAIN new /\ \A z \in U : new[z] = links[z]
    BY <1>2, <1>6, <1>7
  <2> QED BY <1>2, <2>1, ChainKept
<1>11. Shape(sp, new, free, alloc, U)
  BY <1>6, <1>7, <1>8, <1>9, <1>10 DEF Shape
<1>12. ASSUME NEW z \in (DOMAIN sp \ U) \ (X \ {x})
       PROVE  new[z] # z + HEADER + sp[z]
  <2>1. CASE z = x
    <3>1. links[y] # y + HEADER + sz[y]
      BY <1>4 DEF Loose
    <3>2. sp[x] = y + sz[y] - x
      BY <1>3 DEF JoinedSize
    <3>3. x + HEADER + sp[x] = y + HEADER + sz[y]
      BY <1>1, <3>2, Sizes
    <3> QED BY <1>6, <2>1, <3>1, <3>3
  <2>2. CASE z # x
    <3>1. z \in (DOMAIN sz \ U) \ X /\ z \in DOMAIN sz \ {x, y}
      BY <1>6, <2>2
    <3> QED BY <1>6, <3>1 DEF Loose
  <2> QED BY <2>1, <2>2
<1> QED BY <1>11, <1>12 DEF Loose

\* The loop joins the freed block to the next one, and the one before it to that.
LEMMA CoalesceKeeps ==
  ASSUME NEW lk, NEW head, NEW alloc, NEW U, Shape(size, lk, head, alloc, U),
         NEW F, F = Blocks \ U, NEW b \in F, NEW p,
         p = NULL \/ (p \in F /\ p # b /\ lk[p] = b), Loose(size, lk, U, {b, p}),
         Coalesce(lk, F)
  PROVE  /\ Shape(size', next', head, alloc, U) /\ Separate(size', next', U)
         /\ next' = [x \in DOMAIN next' |-> next'[x]]
         /\ U \subseteq DOMAIN size /\ \A x \in U : size'[x] = size[x]
<1> DEFINE joins == Joins(lk, F)
           Fit(x) == lk[x] = x + HEADER + size[x]
           kept == {z \in Blocks : \A x \in Blocks : joins[x] # z}
           Final(x) == Before(joins, x, NULL)
<1>1. /\ DOMAIN size \subseteq Nat /\ NULL \notin DOMAIN size /\ DOMAIN lk = DOMAIN size
      /\ \A x \in DOMAIN size : x \in Nat /\ size[x] \in Nat
      /\ U \subseteq DOMAIN size /\ Blocks = DOMAIN size /\ b \in DOMAIN size /\ b # NULL
  <2>1. /\ DOMAIN size \subseteq Nat /\ NULL \notin DOMAIN size /\ DOMAIN lk = DOMAIN size
        /\ \A x \in DOMAIN size : x \in Nat /\ size[x] \in Nat
    BY ShapeFacts
  <2> QED BY <2>1 DEF Shape, Blocks
<1>2. \A x \in DOMAIN size : lk[x] \in DOMAIN size \cup {NULL}
  BY ShapeFacts
<1>3. DOMAIN joins = DOMAIN size
      /\ \A x \in DOMAIN size : joins[x] = IF x \in F /\ Fit(x) THEN lk[x] ELSE NULL
  BY <1>1 DEF Joins, End
<1>4. /\ size' = [x \in kept |-> End(Final(x)) - x - HEADER]
      /\ next' = [x \in kept |-> lk[Final(x)]]
  BY DEF Coalesce
<1>5. \A x \in DOMAIN size : x # b /\ x # p => joins[x] = NULL
  <2>1. \A x \in F : x # b /\ x # p => ~ Fit(x)
    BY <1>1 DEF Loose
  <2> QED BY <1>3, <2>1
<1>6. HEADER \in Nat /\ \A x \in DOMAIN size : End(x) - x - HEADER = size[x]
  <2>1. HEADER \in Nat
    BY Sizes
  <2> QED BY <1>1, <2>1 DEF End
<1>7. \A x \in DOMAIN size : joins[x] = NULL => Final(x) = x
  BY <1>1, <1>3, WalkEnd
<1>8. \A x, y \in DOMAIN size : joins[x] = y => Final(x) = Final(y)
  BY <1>1, <1>3, WalkStep
<1>9. \A x \in DOMAIN size : Fit(x) => x < lk[x] /\ lk[x] # NULL /\ lk[x] \in DOMAIN size
  BY <1>1, <1>2, Sizes
<1>10. next' = [x \in DOMAIN next' |-> next'[x]]
  BY <1>4
<1>11. kept \subseteq DOMAIN size
  BY <1>1
<1> HIDE DEF joins, Final
<1>12. CASE ~ Fit(b) /\ (p # NULL => ~ Fit(p))
  <2>1. \A x \in DOMAIN size : joins[x] = NULL
    BY <1>3, <1>5, <1>1, <1>12
  <2>2. kept = DOMAIN size
    BY <1>1, <2>1
  <2>3. size' = size
    <3>1. size' = [x \in DOMAIN size |-> size[x]]
      BY <1>4, <1>6, <1>7, <2>1, <2>2
    <3>2. size = [x \in DOMAIN size |-> size[x]]
      BY DEF Shape, Tiles
    <3> QED BY <3>1, <3>2
  <2>4. DOMAIN next' = DOMAIN size /\ \A x \in DOMAIN size : next'[x] = lk[x]
    BY <1>4, <1>7, <2>1, <2>2
  <2>5. Separate(size, lk, U)
    BY <1>1, <1>12 DEF Loose, Separate
  <2>6. Shape(size', next', head, alloc, U) /\ Separate(size', next', U)
    BY <1>1, <2>3, <2>4, <2>5, ShapeKept DEF Separate
  <2> QED BY <1>1, <1>10, <2>3, <2>6
<1>13. p # NULL => p \in DOMAIN size /\ p < b /\ p \notin U
  <2>1. Ordered(lk, head, F)
    BY <1>1 DEF Shape
  <2>2. p # NULL => p < b
    BY <1>1, <2>1 DEF Ordered
  <2> QED BY <1>1, <2>2
<1>14. ASSUME NEW sz, NEW new, size' = sz, DOMAIN next' = DOMAIN new, \A z \in DOMAIN next' : next'[z] = new[z],
              Shape(sz, new, head, alloc, U), NEW X, Loose(sz, new, U, X), X = {}
       PROVE  Shape(size', next', head, alloc, U) /\ Separate(size', next', U)
  <2>1. DOMAIN new = DOMAIN sz
    BY <1>14 DEF Shape
  <2>2. Separate(sz, next', U)
    BY <1>14, <2>1 DEF Loose, Separate
  <2>3. Shape(sz, next', head, alloc, U)
    BY <1>14, <2>1, ShapeKept
  <2> QED BY <1>14, <2>2, <2>3
<1>15. ASSUME NEW x \in F, NEW y \in DOMAIN size, lk[x] = y, y = x + HEADER + size[x], x # y,
              joins[x] = y, \A z \in DOMAIN size \ {x} : joins[z] = NULL
       PROVE  /\ size' = JoinedSize(size, x, y)
              /\ DOMAIN next' = DOMAIN JoinedLinks(lk, x, y)
              /\ \A z \in DOMAIN next' : next'[z] = JoinedLinks(lk, x, y)[z]
  <2>1. kept = DOMAIN size \ {y}
    BY <1>1, <1>15
  <2>2. Final(y) = y /\ Final(x) = y /\ \A z \in DOMAIN size \ {x} : Final(z) = z
    BY <1>1, <1>7, <1>8, <1>15
  <2>3. End(y) - x - HEADER = y + size[y] - x
    BY <1>1, <1>6, <1>15 DEF End
  <2>4. DOMAIN size' = DOMAIN size \ {y} /\ size'[x] = y + size[y] - x
        /\ \A z \in DOMAIN size \ {x, y} : size'[z] = size[z]
    BY <1>1, <1>4, <1>6, <1>15, <2>1, <2>2, <2>3
  <2>5. size' = [z \in DOMAIN size \ {y} |-> IF z = x THEN y + size[y] - x ELSE size[z]]
    <3>1. size' = [z \in DOMAIN size \ {y} |-> size'[z]]
      BY <1>4, <2>1
    <3> QED BY <2>4, <3>1
  <2>6. DOMAIN next' = DOMAIN size \ {y} /\ \A z \in DOMAIN size \ {y} : next'[z] = IF z = x THEN lk[y] ELSE lk[z]
    BY <1>4, <2>1, <2>2
  <2> QED BY <1>1, <2>5, <2>6 DEF JoinedSize, JoinedLinks
<1>16. ASSUME NEW x \in F, NEW y \in DOMAIN size, lk[x] = y, y = x + HEADER + size[x], x # y,
              joins[x] = y, \A z \in DOMAIN size \ {x} : joins[z] = NULL, Loose(size, lk, U, {x})
       PROVE  /\ Shape(size', next', head, alloc, U) /\ Separate(size', next', U)
              /\ \A z \in U : size'[z] = size[z]
  <2> DEFINE sz == JoinedSize(size, x, y)
             new == JoinedLinks(lk, x, y)
  <2>1. size' = sz /\ DOMAIN next' = DOMAIN new /\ \A z \in DOMAIN next' : next'[z] = new[z]
    BY <1>15, <1>16
  <2>2. x \in DOMAIN size \ U /\ sz = JoinedSize(size, x, y) /\ new = JoinedLinks(lk, x, y)
    BY <1>1
  <2>3. \A z \in U : sz[z] = size[z]
    <3>1. y \notin U
      BY <1>1, <1>16 DEF Shape, Ordered
    <3> QED BY <1>1, <2>2, <3>1 DEF JoinedSize
  <2> DEFINE X == {x}
  <2>4. Loose(size, lk, U, X) /\ y \notin X /\ X \ {x} = {}
    BY <1>16
  <2> HIDE DEF sz, new, X
  <2>5. Shape(sz, new, head, alloc, U) /\ Loose(sz, new, U, X \ {x})
    BY <1>16, <2>2, <2>4, JoinKeeps
  <2>6. Shape(size', next', head, alloc, U) /\ Separate(size', next', U)
    BY <1>14, <2>1, <2>4, <2>5
  <2> QED BY <2>1, <2>3, <2>6
<1>17. CASE Fit(b) /\ (p # NULL => ~ Fit(p))
  <2> DEFINE c == lk[b]
  <2>1. /\ c \in DOMAIN size /\ b # c /\ c = b + HEADER + size[b]
        /\ joins[b] = c /\ \A x \in DOMAIN size \ {b} : joins[x] = NULL
    BY <1>1, <1>3, <1>5, <1>9, <1>17
  <2>2. Loose(size, lk, U, {b})
    BY <1>1, <1>17 DEF Loose
  <2> QED BY <1>1, <1>10, <1>16, <2>1, <2>2
<1>18. CASE ~ Fit(b) /\ p # NULL /\ Fit(p)
  <2>1. /\ p \in F /\ lk[p] = b /\ b # p /\ b = p + HEADER + size[p]
        /\ joins[p] = b /\ \A x \in DOMAIN size \ {p} : joins[x] = NULL
    BY <1>1, <1>3, <1>5, <1>18
  <2>2. Loose(size, lk, U, {p})
    BY <1>1, <1>18 DEF Loose
  <2> QED BY <1>1, <1>10, <1>16, <2>1, <2>2
<1>19. CASE Fit(b) /\ p # NULL /\ Fit(p)
  <2> DEFINE c == lk[b]
             sz == JoinedSize(size, b, c)
             new == JoinedLinks(lk, b, c)
             sp == JoinedSize(sz, p, b)
             np == JoinedLinks(new, p, b)
             X == {b, p}
             Y == {p}
  <2>1. /\ c \in DOMAIN size /\ b < c /\ c = b + HEADER + size[b] /\ lk[b] = c /\ joins[b] = c
        /\ lk[p] = b /\ b = p + HEADER + size[p] /\ joins[p] = b /\ p \in F /\ p < b /\ p \notin U /\ c # NULL
        /\ \A x \in DOMAIN size \ {b, p} : joins[x] = NULL
    BY <1>1, <1>3, <1>5, <1>9, <1>13, <1>19
  <2> HIDE DEF c
  <2>2. p # c /\ b # c /\ p # b /\ c \notin U /\ p \in DOMAIN size
    <3>1. c \notin U
      BY <1>1, <2>1 DEF Shape, Ordered
    <3>2. p \in Nat /\ b \in Nat /\ c \in Nat /\ p \in DOMAIN size
      BY <1>1, <2>1
    <3> QED BY <2>1, <3>1, <3>2
  <2>3. sz = JoinedSize(size, b, c) /\ new = JoinedLinks(lk, b, c)
        /\ sp = JoinedSize(sz, p, b) /\ np = JoinedLinks(new, p, b)
    OBVIOUS
  <2>4. b \in DOMAIN size \ U /\ c \notin X /\ Loose(size, lk, U, X) /\ X \ {b} = Y
    BY <1>1, <2>2
  <2>5. DOMAIN sz = DOMAIN size \ {c} /\ sz[b] = c + size[c] - b
        /\ \A z \in DOMAIN size \ {b, c} : sz[z] = size[z]
    BY <2>2, <1>1 DEF JoinedSize
  <2>6. DOMAIN new = DOMAIN size \ {c} /\ new[b] = lk[c] /\ \A z \in DOMAIN size \ {b, c} : new[z] = lk[z]
    BY <2>2, <1>1 DEF JoinedLinks
  <2>7. DOMAIN sp = DOMAIN size \ {b, c} /\ sp[p] = b + sz[b] - p
        /\ \A z \in DOMAIN size \ {p, b, c} : sp[z] = size[z]
    <3> HIDE DEF sz
    <3> QED BY <2>2, <2>5 DEF JoinedSize
  <2>8. DOMAIN np = DOMAIN size \ {b, c} /\ np[p] = lk[c] /\ \A z \in DOMAIN size \ {p, b, c} : np[z] = lk[z]
    <3> HIDE DEF new
    <3> QED BY <2>2, <2>6 DEF JoinedLinks
  <2>9. b + sz[b] - p = c + size[c] - p
    BY <1>1, <2>1, <2>2, <2>5
  <2>10. sp = [z \in DOMAIN sp |-> sp[z]]
    BY DEF JoinedSize
  <2> HIDE DEF sz, new, sp, np, X
  <2>11. Shape(sz, new, head, alloc, U) /\ Loose(sz, new, U, Y)
    BY <2>1, <2>3, <2>4, JoinKeeps
  <2>12. p \in DOMAIN sz \ U /\ b \in DOMAIN sz /\ new[p] = b /\ b = p + HEADER + sz[p] /\ b \notin Y
    BY <1>1, <2>1, <2>2, <2>5, <2>6
  <2>13. Y \ {p} = {}
    OBVIOUS
  <2> HIDE DEF Y
  <2>14. Shape(sp, np, head, alloc, U) /\ Loose(sp, np, U, Y \ {p})
    BY <2>3, <2>11, <2>12, JoinKeeps
  <2>15. kept = DOMAIN size \ {b, c}
    BY <1>1, <2>1, <2>2
  <2>16. Final(c) = c /\ Final(b) = c /\ Final(p) = c /\ \A z \in DOMAIN size \ {b, p} : Final(z) = z
    BY <1>1, <1>7, <1>8, <2>1, <2>2
  <2>17. size' = sp
    <3>1. End(c) - p - HEADER = c + size[c] - p
      BY <1>1, <1>6, <2>1, <2>2 DEF End
    <3>2. DOMAIN size' = DOMAIN sp /\ \A z \in DOMAIN sp : size'[z] = sp[z]
      BY <1>1, <1>4, <1>6, <2>2, <2>7, <2>9, <2>15, <2>16, <3>1
    <3>3. size' = [z \in DOMAIN size' |-> size'[z]]
      BY <1>4
    <3> QED BY <2>10, <3>2, <3>3
  <2>18. DOMAIN next' = DOMAIN np /\ \A z \in DOMAIN next' : next'[z] = np[z]
    BY <1>4, <2>2, <2>8, <2>15, <2>16
  <2>19. Shape(size', next', head, alloc, U) /\ Separate(size', next', U)
    BY <1>14, <2>13, <2>14, <2>17, <2>18
  <2>20. \A z \in U : size'[z] = size[z]
    BY <1>1, <2>1, <2>2, <2>7, <2>17
  <2> QED BY <1>1, <1>10, <2>19, <2>20
<1> QED BY <1>12, <1>17, <1>18, <1>19

\* The place the code finds for a block is after the last one below it.
LEMMA PlacePrecedes ==
  ASSUME NEW links, NEW S, NEW b \in Nat, b \notin S, S \subseteq Blocks, Ordered(links, free_mem, S)
  PROVE  Precedes(PlaceFor(links, b), S, b)
<1> DEFINE above == {x \in Blocks : x >= b}
           c == First(links, free_mem, above)
           low == {x \in S : x < b}
           p == PlaceFor(links, b)
<1>1. S \subseteq Nat /\ NULL \notin Nat
  BY Sizes DEF Ordered
<1>2. \A x \in S : x \in above <=> ~ (x < b)
  BY <1>1
<1>3. p = Before(links, free_mem, c)
  BY DEF PlaceFor
<1> HIDE DEF above
<1>4. (S \cap above = {} => c = NULL)
      /\ (S \cap above # {} => c \in S \cap above /\ \A x \in S \cap above : c <= x)
  BY OrderedFirst
<1> HIDE DEF c, p
<1>5. c \in S \cup {NULL} /\ low \subseteq S
  BY <1>4
<1>6. c # NULL => low = {x \in S : x < c}
  <2>1. ASSUME c # NULL, NEW x \in S
        PROVE  x < b <=> x < c
    <3>1. c \in S /\ c \in above /\ ~ (c < b) /\ c \in Nat /\ x \in Nat
      BY <1>1, <1>2, <1>4, <2>1
    <3>2. x < b \/ c <= x
      BY <1>2, <1>4, <2>1
    <3> QED BY <3>1, <3>2
  <2> QED BY <2>1
<1>7. c = NULL => low = S
  BY <1>1, <1>2, <1>4
<1> HIDE DEF low
<1>8. (low = {} => p = NULL) /\ (low # {} => p \in low /\ \A x \in low : x <= p)
  BY <1>3, <1>5, <1>6, <1>7, OrderedBefore
<1>9. Precedes(p, S, b)
  BY <1>8 DEF Precedes, low
<1> QED BY <1>9 DEF p

\* free moves block b from the allocated list to its place in the free one.
LEMMA ReleaseKeeps ==
  ASSUME Shape(size, next, free_mem, alloc_mem, Used), Separate(size, next, Used),
         infoMem \in Counters, TotalKept, NEW b \in Used, Release(b)
  PROVE  /\ Shape(size', next', free_mem', alloc_mem', Used \ {b})
         /\ Separate(size', next', Used \ {b})
         /\ infoMem' \in Counters /\ TotalKept'
         /\ next' = [x \in DOMAIN next' |-> next'[x]]
         /\ \A x \in Used \ {b} : size'[x] = size[x]
<1> DEFINE q == Before(next, alloc_mem, b)
           mid == Unlinked(b)
           p == PlaceFor(mid, b)
           lk == Inserted(mid, b)
           head == free_mem'
           alloc == alloc_mem'
           S == DOMAIN size \ Used
           F == S \cup {b}
           U == Used \ {b}
<1>1. /\ DOMAIN size \subseteq Nat /\ NULL \notin DOMAIN size /\ DOMAIN next = DOMAIN size
      /\ \A x \in DOMAIN size : x \in Nat /\ size[x] \in Nat
      /\ Used \subseteq DOMAIN size /\ Blocks = DOMAIN size
      /\ Ordered(next, free_mem, S) /\ Chain(next, alloc_mem, Used)
  <2>1. /\ DOMAIN size \subseteq Nat /\ NULL \notin DOMAIN size /\ DOMAIN next = DOMAIN size
        /\ \A x \in DOMAIN size : x \in Nat /\ size[x] \in Nat
    BY ShapeFacts
  <2> QED BY <2>1 DEF Shape, Blocks
<1>2. b \in DOMAIN size /\ b \in Nat /\ b \notin S /\ b # NULL /\ F = DOMAIN size \ U /\ U \subseteq DOMAIN size
  BY <1>1
<1>3. /\ DOMAIN mid = DOMAIN size
      /\ \A x \in DOMAIN size : mid[x] = IF x = q THEN next[b] ELSE next[x]
  BY <1>1 DEF Unlinked
<1>4. /\ DOMAIN lk = DOMAIN size
      /\ p = NULL => lk[b] = free_mem
      /\ p # NULL => lk[b] = mid[p]
      /\ \A x \in DOMAIN size \ {b} : lk[x] = IF x = p THEN b ELSE mid[x]
  BY <1>1, <1>2 DEF Inserted
<1>5. /\ p = NULL => head = b
      /\ p # NULL => head = free_mem
      /\ alloc = IF q = NULL THEN next[b] ELSE alloc_mem
      /\ infoMem' = Account(infoMem, - (size[b] + HEADER))
      /\ Coalesce(lk, Listed(lk, head))
  BY DEF Release
<1> HIDE DEF mid, p, lk, head, alloc
<1>6. Chain(mid, alloc, U)
  <2>1. U \subseteq DOMAIN mid /\ \A x \in U : mid[x] = IF x = q THEN next[b] ELSE next[x]
    BY <1>1, <1>3
  <2> QED BY <1>1, <1>5, <2>1, ChainRemove
<1>7. q = NULL \/ q \in Used
  BY <1>1, ChainBefore
<1> HIDE DEF q
<1>8. \A x \in S : mid[x] = next[x]
  BY <1>1, <1>3, <1>7
<1> HIDE DEF S, U
<1>9. Ordered(mid, free_mem, S)
  <2>1. S \subseteq DOMAIN mid
    BY <1>3 DEF S
  <2> QED BY <1>1, <1>8, <2>1, OrderedKept
<1>10. Precedes(p, S, b)
  <2>1. S \subseteq Blocks
    BY <1>1 DEF S
  <2> QED BY <1>2, <1>9, <2>1, PlacePrecedes DEF p
<1>11. p = NULL \/ (p \in S /\ p # b)
  BY <1>2, <1>10 DEF Precedes
<1>12. Ordered(lk, head, F)
  <2>1. S \cup {b} \subseteq DOMAIN lk /\ F = S \cup {b}
    BY <1>2, <1>4 DEF S
  <2>2. \A x \in S : lk[x] = IF x = p THEN b ELSE mid[x]
    BY <1>2, <1>4 DEF S
  <2> HIDE DEF F
  <2> QED BY <1>2, <1>4, <1>5, <1>9, <1>10, <2>1, <2>2, OrderedInsert
<1>13. Chain(lk, alloc, U)
  <2>1. p \notin U
    BY <1>1, <1>2, <1>11 DEF S, U
  <2>2. U \subseteq DOMAIN lk /\ \A x \in U : lk[x] = mid[x]
    BY <1>2, <1>4, <2>1 DEF U
  <2> QED BY <1>6, <2>2, ChainKept
<1>14. Shape(size, lk, head, alloc, U)
  BY <1>2, <1>4, <1>12, <1>13 DEF Shape
<1>15. Loose(size, lk, U, {b, p})
  <2>1. ASSUME NEW x \in (DOMAIN size \ U) \ {b, p}
        PROVE  lk[x] = next[x] /\ x \in DOMAIN size \ Used
    BY <1>2, <1>4, <1>8 DEF S
  <2> QED BY <2>1 DEF Loose, Separate
<1>16. Listed(lk, head) = F
  BY <1>12, OrderedListed
<1>17. p = NULL \/ (p \in F /\ p # b /\ lk[p] = b)
  BY <1>2, <1>4, <1>11 DEF S
<1>18. F = Blocks \ U /\ b \in F
  BY <1>1, <1>2
<1>19. Coalesce(lk, F)
  BY <1>5, <1>16
<1> HIDE DEF F
<1>20. /\ Shape(size', next', head, alloc, U) /\ Separate(size', next', U)
       /\ next' = [x \in DOMAIN next' |-> next'[x]]
       /\ \A x \in U : size'[x] = size[x]
  BY <1>14, <1>15, <1>17, <1>18, <1>19, CoalesceKeeps
<1>21. infoMem' \in Counters /\ TotalKept'
  <2> DEFINE n == - (size[b] + HEADER)
  <2>1. n \in Int
    BY <1>1, <1>2, Sizes
  <2>2. infoMem' = Account(infoMem, n)
    BY <1>5
  <2> HIDE DEF n
  <2> QED BY <2>1, <2>2, AccountKeeps DEF TotalKept
<1> QED BY <1>20, <1>21 DEF U, head, alloc

\* free keeps the invariant.
LEMMA FreeKeeps ==
  ASSUME IInv, Free
  PROVE  IInv'
<1>1. PICK ptr \in DOMAIN held :
        /\ Release(ptr - HEADER)
        /\ held' = [a \in DOMAIN held \ {ptr} |-> held[a]]
  BY DEF Free
<1> DEFINE b == ptr - HEADER
<1>2. b \in Used
  BY DEF Used
<1>3. HEADER \in Nat /\ DOMAIN held \subseteq Nat
  BY Sizes DEF IInv, HeldFits
<1>4. Used' = Used \ {b}
  <2>1. \A a \in DOMAIN held : a - HEADER = b <=> a = ptr
    BY <1>3
  <2>2. DOMAIN held' = DOMAIN held \ {ptr}
    BY <1>1
  <2> HIDE DEF b
  <2> QED BY <2>1, <2>2 DEF Used
<1> HIDE DEF b
<1>5. /\ Shape(size', next', free_mem', alloc_mem', Used \ {b})
      /\ Separate(size', next', Used \ {b})
      /\ infoMem' \in Counters /\ TotalKept'
      /\ next' = [x \in DOMAIN next' |-> next'[x]]
      /\ \A x \in Used \ {b} : size'[x] = size[x]
  BY <1>1, <1>2, ReleaseKeeps DEF IInv, b
<1>6. HeldFits'
  <2>1. ASSUME NEW a \in DOMAIN held'
        PROVE  a \in Nat /\ held'[a] \in Nat /\ held'[a] <= size'[a - HEADER]
    <3>1. a \in DOMAIN held /\ held'[a] = held[a]
      BY <1>1
    <3>2. a - HEADER \in Used \ {b}
      BY <1>4 DEF Used
    <3> QED BY <1>5, <3>1, <3>2 DEF IInv, HeldFits
  <2>2. held' = [a \in DOMAIN held' |-> held'[a]]
    BY <1>1
  <2> QED BY <2>1, <2>2 DEF HeldFits
<1> QED BY <1>4, <1>5, <1>6 DEF IInv

-----------------------------------------------------------------------------
(* The theorems.                                                           *)

\* The heap starts as one free block.
LEMMA InvInit ==
  ASSUME Init
  PROVE  IInv
<1> DEFINE left == HEAP_SIZE - HEADER
<1>1. /\ HEADER \in Nat \ {0} /\ MANAGER \in Nat /\ WORD \in Nat \ {0} /\ NULL \notin Int /\ HIGH \in Nat
      /\ HEAP_SIZE \in Nat /\ SizeMod \in Nat \ {0} /\ HEAP_SIZE < SizeMod
      /\ HEAP_SIZE >= HEADER + WORD /\ HEAP_SIZE >= MANAGER
  BY Sizes, SizesAssumption
<1>2. left \in Nat /\ left % WORD = 0 /\ MANAGER % WORD = 0 /\ MANAGER + HEADER + left = HIGH
  <2>1. HEAP_SIZE % WORD = 0 /\ HEADER % WORD = 0 /\ MANAGER % WORD = 0
    BY SizesAssumption
  <2>2. left % WORD = 0
    <3>1. HEAP_SIZE \in Int /\ HEADER \in Int
      BY <1>1
    <3> QED BY <2>1, <3>1, WholeWords
  <2> QED BY <1>1, <2>1, <2>2 DEF HIGH
<1> HIDE DEF left
<1>3. DOMAIN size = {MANAGER} /\ size[MANAGER] = left /\ size \in [{MANAGER} -> Nat]
      /\ DOMAIN next = {MANAGER} /\ next[MANAGER] = NULL
      /\ next = [x \in DOMAIN next |-> next[x]]
      /\ free_mem = MANAGER /\ alloc_mem = NULL /\ DOMAIN held = {} /\ Used = {}
  BY <1>2 DEF Init, Used, left
<1>4. Tiles(size)
  BY <1>1, <1>2, <1>3 DEF Tiles
<1>5. Chain(next, alloc_mem, Used)
  BY <1>3 DEF Chain, Closed
<1>6. Ordered(next, free_mem, DOMAIN size \ Used)
  BY <1>1, <1>3 DEF Ordered
<1>7. Shape(size, next, free_mem, alloc_mem, Used)
  BY <1>3, <1>4, <1>5, <1>6 DEF Shape
<1>8. Separate(size, next, Used)
  BY <1>1, <1>2, <1>3 DEF Separate
<1>9. HeldFits
  BY <1>3 DEF HeldFits
<1>10. infoMem \in Counters /\ TotalKept
  <2> DEFINE rest == HEAP_SIZE - HEADER - MANAGER
             total == HEAP_SIZE - MANAGER
  <2>1. infoMem = [allocated |-> HEADER, free |-> rest % SizeMod, total |-> total]
    BY DEF Init
  <2>2. rest \in Int /\ HEADER \in Int /\ HEADER + rest = total
        /\ total \in 0 .. SizeMod - 1 /\ HEADER \in 0 .. SizeMod - 1
    BY <1>1
  <2> HIDE DEF rest, total
  <2>3. HEADER % SizeMod = HEADER /\ total % SizeMod = total
    BY <1>1, <2>2
  <2>4. rest % SizeMod \in 0 .. SizeMod - 1
    BY <1>1, <2>2
  <2>5. (HEADER + (rest % SizeMod)) % SizeMod = total
    <3>1. ((HEADER % SizeMod) + (rest % SizeMod)) % SizeMod = (HEADER + rest) % SizeMod
      BY <1>1, <2>2, RemainderOfSum
    <3> QED BY <2>2, <2>3, <3>1
  <2> QED BY <2>1, <2>2, <2>4, <2>5 DEF Counters, TotalKept
<1> QED BY <1>3, <1>7, <1>8, <1>9, <1>10 DEF IInv

\* Every step keeps the invariant.
LEMMA InvNext ==
  ASSUME IInv, [Next]_vars
  PROVE  IInv'
<1>1. CASE Malloc
  BY <1>1, MallocKeeps
<1>2. CASE Free
  BY <1>2, FreeKeeps
<1>3. CASE UNCHANGED vars
  BY <1>3 DEF IInv, vars, Used, HeldFits, TotalKept
<1>4. CASE MallocFails
  BY <1>3, <1>4 DEF MallocFails
<1>5. CASE FreeFails
  BY <1>3, <1>5 DEF FreeFails
<1> QED BY <1>1, <1>2, <1>3, <1>4, <1>5 DEF Next

\* The invariant of the proofs holds in every state.
THEOREM Invariant == Spec => []IInv
BY InvInit, InvNext, PTL DEF Spec

\* The invariant is stronger than the property.
LEMMA InvImplies ==
  ASSUME IInv
  PROVE  HeapWellFormed
<1>1. /\ DOMAIN size \subseteq Nat /\ NULL \notin DOMAIN size /\ DOMAIN next = DOMAIN size
      /\ \A x \in DOMAIN size : x \in Nat /\ size[x] \in Nat
      /\ \A x \in DOMAIN size : next[x] \in DOMAIN size \cup {NULL}
      /\ Used \subseteq DOMAIN size /\ Tiles(size)
  <2>1. /\ DOMAIN size \subseteq Nat /\ NULL \notin DOMAIN size /\ DOMAIN next = DOMAIN size
        /\ \A x \in DOMAIN size : x \in Nat /\ size[x] \in Nat
        /\ \A x \in DOMAIN size : next[x] \in DOMAIN size \cup {NULL}
    BY ShapeFacts DEF IInv
  <2> QED BY <2>1 DEF IInv, Shape
<1>2. Listed(next, alloc_mem) = Used /\ Listed(next, free_mem) = DOMAIN size \ Used
  <2>1. Chain(next, alloc_mem, Used) /\ Ordered(next, free_mem, DOMAIN size \ Used)
    BY DEF IInv, Shape
  <2> QED BY <2>1, ChainListed, OrderedListed
<1>3. TypeOK
  <2>1. free_mem \in DOMAIN size \cup {NULL} /\ alloc_mem \in DOMAIN size \cup {NULL}
    BY <1>1 DEF IInv, Shape, Chain, Ordered
  <2>2. size \in [DOMAIN size -> Nat]
    BY <1>1 DEF Tiles
  <2>3. next \in [DOMAIN size -> DOMAIN size \cup {NULL}]
    <3>1. next = [x \in DOMAIN size |-> next[x]]
      BY <1>1 DEF IInv
    <3> QED BY <1>1, <3>1
  <2> QED BY <2>1, <2>2, <2>3 DEF TypeOK, IInv, HeldFits, Counters, Blocks
<1>4. BlocksTile
  BY <1>1 DEF BlocksTile, Tiles, Blocks, End
<1>5. EachOnOneList
  BY <1>1, <1>2 DEF EachOnOneList, Used, Blocks
<1>6. FreeSorted
  <2>1. ASSUME NEW x \in DOMAIN size \ Used, next[x] # NULL
        PROVE  End(x) < next[x]
    <3>1. next[x] \in DOMAIN size /\ x < next[x]
      BY <1>1, <2>1 DEF IInv, Shape, Ordered
    <3>2. x + HEADER + size[x] <= next[x] /\ next[x] # x + HEADER + size[x]
      BY <1>1, <3>1 DEF Tiles, IInv, Separate
    <3>3. x \in Nat /\ size[x] \in Nat /\ HEADER \in Nat /\ next[x] \in Nat
      BY <1>1, <3>1, Sizes
    <3> QED BY <3>2, <3>3 DEF End
  <2> QED BY <1>2, <2>1 DEF FreeSorted
<1> QED BY <1>3, <1>4, <1>5, <1>6 DEF HeapWellFormed, IInv

\* Whatever the order and the sizes of malloc and free, the blocks fill the heap,
\* the lists share them out, the free ones are in order and joined, and the
\* counters keep their sum.
THEOREM WellFormed == Spec => []HeapWellFormed
BY Invariant, InvImplies, PTL

\* A step of malloc hands out memory of its own; every other step keeps the promise.
LEMMA StepRefines ==
  ASSUME IInv, IInv', [Next]_vars
  PROVE  [Promise!Next]_held
<1>1. CASE Malloc
  <2>1. PICK request \in Requests, n, b \in Nat : MallocIs(request, n, b)
    BY <1>1, MallocFinds
  <2> DEFINE a == b + HEADER
  <2>2. /\ HEADER \in Nat \ {0} /\ HIGH \in Nat /\ a \in Nat /\ a - HEADER = b
        /\ request \in Nat
    BY <2>1, Sizes DEF MallocIs
  <2>3. held' = [x \in DOMAIN held \cup {a} |-> IF x = a THEN request ELSE held[x]]
    BY <2>1 DEF MallocIs
  <2> HIDE DEF a
  <2>4. a \notin DOMAIN held
    BY <2>1, <2>2 DEF MallocIs, Used
  <2>5. /\ DOMAIN size' \subseteq Nat /\ \A x \in DOMAIN size' : size'[x] \in Nat
        /\ \A x \in DOMAIN held' : x - HEADER \in DOMAIN size' /\ x \in Nat /\ held'[x] \in Nat
                                   /\ held'[x] <= size'[x - HEADER]
        /\ Tiles(size')
    BY DEF IInv, Shape, Tiles, HeldFits, Used
  <2>6. a \in DOMAIN held' /\ held'[a] = request /\ \A x \in DOMAIN held : x \in DOMAIN held' /\ held'[x] = held[x]
    BY <2>3, <2>4
  <2>7. b \in DOMAIN size' /\ request <= size'[b] /\ b \in Nat /\ size'[b] \in Nat
    BY <2>2, <2>5, <2>6
  <2>8. a \in Addresses
    <3>1. b >= MANAGER /\ b + HEADER + size'[b] <= HIGH /\ b % WORD = 0
      BY <2>5, <2>7 DEF Tiles
    <3>2. a % WORD = 0
      <4>1. b \in Int /\ HEADER \in Int /\ HEADER % WORD = 0
        BY <2>7, Sizes
      <4>2. (b + HEADER) % WORD = 0
        BY <3>1, <4>1, WholeWords
      <4> QED BY <4>2 DEF a
    <3>3. a \in MANAGER .. HIGH
      BY <2>2, <2>7, <3>1, Sizes DEF a
    <3> QED BY <3>2, <3>3 DEF Addresses
  <2>9. a + request <= HIGH
    <3>1. b + HEADER + size'[b] <= HIGH
      BY <2>5, <2>7 DEF Tiles
    <3> QED BY <2>2, <2>7, <3>1 DEF a
  <2>10. ASSUME NEW x \in DOMAIN held
         PROVE  a + request <= x \/ x + held[x] <= a
    <3> DEFINE c == x - HEADER
    <3>1. c \in DOMAIN size' /\ x \in Nat /\ held[x] \in Nat /\ held[x] <= size'[c] /\ x # a
      BY <2>4, <2>5, <2>6
    <3>2. c \in Nat /\ size'[c] \in Nat /\ c # b /\ x = c + HEADER
      BY <2>2, <2>5, <3>1 DEF a
    <3> HIDE DEF c
    <3>3. CASE b < c
      <4>1. b + HEADER + size'[b] <= c
        BY <2>5, <2>7, <3>1, <3>3 DEF Tiles
      <4> QED BY <2>2, <2>7, <3>2, <4>1 DEF a
    <3>4. CASE c < b
      <4>1. c + HEADER + size'[c] <= b
        BY <2>5, <2>7, <3>1, <3>4 DEF Tiles
      <4> QED BY <2>2, <2>7, <3>1, <3>2, <4>1 DEF a
    <3> QED BY <2>7, <3>2, <3>3, <3>4
  <2>11. Promise!Malloc
    BY <2>3, <2>4, <2>8, <2>9, <2>10 DEF Promise!Malloc, Promise!Apart
  <2> QED BY <2>11 DEF Promise!Next
<1>2. CASE Free
  BY <1>2 DEF Free, Promise!Next, Promise!Free
<1>3. CASE UNCHANGED vars
  BY <1>3 DEF vars
<1>4. CASE MallocFails
  BY <1>3, <1>4 DEF MallocFails
<1>5. CASE FreeFails
  BY <1>3, <1>5 DEF FreeFails
<1> QED BY <1>1, <1>2, <1>3, <1>4, <1>5 DEF Next

\* The list allocator keeps the promises of malloc and free: memory it hands out
\* lies in the heap, begins at a whole word and overlaps none handed out before.
THEOREM Refines == Spec => KeepsPromise
<1>1. Init => Promise!Init
  BY DEF Init, Promise!Init
<1>2. IInv /\ IInv' /\ [Next]_vars => [Promise!Next]_held
  BY StepRefines
<1> QED BY <1>1, <1>2, Invariant, PTL DEF Spec, KeepsPromise, Promise!Spec
-----------------------------------------------------------------------------
(* Buddy.  The powers of two.                                              *)

\* The powers of two.
LEMMA PowerDef ==
  /\ Pool!Power \in [Nat -> Nat] /\ Pool!Power[0] = 1
  /\ \A k \in Nat : Pool!Power[k + 1] = 2 * Pool!Power[k] /\ Pool!Power[k] >= 1
<1> DEFINE T == {t \in Nat \X Nat \X Nat : t[3] = 2 * t[2]}
           Is(f) == f = [k \in Nat |-> IF k = 0 THEN 1 ELSE 2 * f[k - 1]]
<1>1. \A n \in Nat : \A x \in Nat : \E y \in Nat : <<n, x, y>> \in T
  <2> TAKE n \in Nat, x \in Nat
  <2>1. 2 * x \in Nat /\ <<n, x, 2 * x>> \in T
    OBVIOUS
  <2> QED BY <2>1
<1>2. PICK f \in [Nat -> Nat] : f[0] = 1 /\ \A n \in Nat : f[n + 1] = 2 * f[n]
  <2>1. PICK f \in [Nat -> Nat] : f[0] = 1 /\ \A n \in Nat : <<n, f[n], f[n + 1]>> \in T
    <3> HIDE DEF T
    <3> QED BY <1>1, Recursion
  <2> QED BY <2>1
<1>3. Is(f)
  <2>1. ASSUME NEW k \in Nat PROVE f[k] = IF k = 0 THEN 1 ELSE 2 * f[k - 1]
    <3>1. CASE k = 0
      BY <3>1, <1>2
    <3>2. CASE k # 0
      <4>1. k - 1 \in Nat /\ k = (k - 1) + 1
        BY <3>2
      <4>2. f[(k - 1) + 1] = 2 * f[k - 1]
        BY <4>1, <1>2
      <4> QED BY <4>1, <4>2, <3>2
    <3> QED BY <3>1, <3>2
  <2> QED BY <2>1, <1>2
<1>4. Is(Pool!Power)
  <2>1. Pool!Power = CHOOSE g : Is(g)
    BY DEF Pool!Power
  <2> HIDE DEF Is
  <2> QED BY <2>1, <1>3
<1>5. Pool!Power[0] = 1
  BY <1>4
<1>6. \A k \in Nat : Pool!Power[k + 1] = 2 * Pool!Power[k]
  <2> TAKE k \in Nat
  <2>1. k + 1 \in Nat /\ k + 1 # 0 /\ (k + 1) - 1 = k
    OBVIOUS
  <2> QED BY <1>4, <2>1
<1> DEFINE S == {k \in Nat : Pool!Power[k] \in Nat /\ Pool!Power[k] >= 1}
<1>7. Nat \subseteq S
  <2>1. 0 \in S
    BY <1>5
  <2>2. \A n \in Nat : n \in S => n + 1 \in S
    BY <1>6
  <2> HIDE DEF S
  <2> QED BY <2>1, <2>2, Induct
<1>8. Pool!Power \in [Nat -> Nat]
  <2>1. DOMAIN Pool!Power = Nat /\ Pool!Power = [k \in Nat |-> Pool!Power[k]]
    BY <1>4
  <2> QED BY <1>7, <2>1
<1> QED BY <1>5, <1>6, <1>7, <1>8

\* There is a power above every number.
LEMMA PowerGrows ==
  \A k \in Nat : k < Pool!Power[k]
<1> DEFINE S == {k \in Nat : k < Pool!Power[k]}
<1>1. 0 \in S
  BY PowerDef
<1>2. ASSUME NEW k \in Nat, k \in S PROVE k + 1 \in S
  <2>1. Pool!Power[k + 1] = 2 * Pool!Power[k] /\ Pool!Power[k] \in Nat /\ Pool!Power[k] >= 1 /\ k < Pool!Power[k]
    BY PowerDef, <1>2
  <2> QED BY <2>1
<1>3. Nat \subseteq S
  <2> HIDE DEF S
  <2> QED BY <1>1, <1>2, Induct
<1> QED BY <1>3

\* log2 is the place of the highest bit.
LEMMA Log2Def ==
  ASSUME NEW n \in Nat
  PROVE  Pool!log2(n) \in Nat /\ n < Pool!Power[Pool!log2(n) + 1]
<1>1. CASE n = 0
  <2>1. Pool!log2(n) = 0
    BY <1>1 DEF Pool!log2
  <2> QED BY <2>1, <1>1, PowerDef
<1>2. CASE n # 0
  <2> DEFINE P(k) == Pool!Power[k] <= n /\ n < Pool!Power[k + 1]
             S == {k \in Nat : n < Pool!Power[k + 1]}
  <2>1. n \in S
    <3>1. n + 1 \in Nat /\ n + 1 < Pool!Power[n + 1] /\ Pool!Power[n + 1] \in Nat
      BY PowerGrows, PowerDef
    <3> QED BY <3>1
  <2>2. PICK k \in S : \A j \in S : k <= j
    <3> HIDE DEF S
    <3>1. S \in SUBSET Nat
      BY DEF S
    <3> QED BY <2>1, <3>1, Smallest
  <2>3. Pool!Power[k] <= n
    <3>1. CASE k = 0
      BY <3>1, <1>2, PowerDef
    <3>2. CASE k # 0
      <4>1. k - 1 \in Nat /\ k - 1 \notin S /\ (k - 1) + 1 = k
        BY <2>2, <3>2
      <4> QED BY <4>1, PowerDef
    <3> QED BY <3>1, <3>2
  <2>4. k \in 0 .. n /\ P(k)
    <3>1. k \in Nat /\ k <= n /\ n < Pool!Power[k + 1]
      BY <2>1, <2>2
    <3> QED BY <3>1, <2>3
  <2>5. Pool!log2(n) = CHOOSE j \in 0 .. n : P(j)
    BY <1>2 DEF Pool!log2
  <2> HIDE DEF P
  <2>6. Pool!log2(n) \in 0 .. n /\ P(Pool!log2(n))
    BY <2>4, <2>5
  <2> QED BY <2>6 DEF P
<1> QED BY <1>1, <1>2

-----------------------------------------------------------------------------
(* The rows.                                                               *)

\* The blocks of free are linked into the rows of their levels: every block
\* knows its neighbours, and whoever goes back along a row leaves every set.
Linked(m, free) ==
  /\ free \in SUBSET Pool!Block
  /\ \A k \in Pool!Level :
       m.freeRow[k] # NULL => m.freeRow[k] \in free /\ m.level[m.freeRow[k]] = k
  /\ \A b \in free :
       /\ m.size[b] = 0
       /\ m.prev[b] = NULL <=> m.freeRow[m.level[b]] = b
       /\ m.prev[b] # NULL =>
            m.prev[b] \in free /\ m.level[m.prev[b]] = m.level[b] /\ m.next[m.prev[b]] = b
       /\ m.next[b] # NULL =>
            m.next[b] \in free /\ m.level[m.next[b]] = m.level[b] /\ m.prev[m.next[b]] = b
  /\ \A part \in SUBSET free : part # {} => \E b \in part : m.prev[b] \notin part

\* SIZE of a level is a natural number.
LEMMA SizeType ==
  ASSUME Pool!SizesAssumption, NEW k \in Nat
  PROVE  Pool!SIZE(k) \in Nat /\ Pool!SIZE(k) >= 1
<1>1. Pool!Power[k] \in Nat /\ Pool!Power[k] >= 1 /\ BLOCK_SIZE \in Nat /\ BLOCK_SIZE >= 1
  BY PowerDef DEF Pool!SizesAssumption
<1>2. \A x, y \in Nat : x >= 1 /\ y >= 1 => x * y \in Nat /\ x * y >= 1
  OBVIOUS
<1> QED BY <1>1, <1>2 DEF Pool!SIZE

\* What addBlock does to each field.
LEMMA AddFields ==
  ASSUME Pool!NullAssumption, Pool!SizesAssumption, NEW m \in Pool!BuddyInfo, NEW b \in Pool!Block
  PROVE  LET a == Pool!addBlock(m, b)
             k == m.level[b]
         IN  /\ a \in Pool!BuddyInfo
             /\ k \in Pool!Level
             /\ a.level = m.level
             /\ \A x \in Pool!Block :
                  /\ a.size[x] = IF x = b THEN 0 ELSE m.size[x]
                  /\ a.next[x] = IF x = b THEN m.freeRow[k] ELSE m.next[x]
                  /\ a.prev[x] = IF x = m.freeRow[k] THEN b ELSE IF x = b THEN NULL ELSE m.prev[x]
             /\ \A j \in Pool!Level : a.freeRow[j] = IF j = k THEN b ELSE m.freeRow[j]
             /\ a.allocated = (m.allocated - Pool!SIZE(k)) % SizeMod
             /\ a.free = (m.free + Pool!SIZE(k)) % SizeMod
<1> DEFINE a == Pool!addBlock(m, b)
           k == m.level[b]
<1>1. /\ m.size \in [Pool!Block -> {0} \cup {Pool!SIZE(j) : j \in Pool!Level}]
      /\ m.level \in [Pool!Block -> Pool!Level]
      /\ m.next \in [Pool!Block -> Pool!Block \cup {NULL}]
      /\ m.prev \in [Pool!Block -> Pool!Block \cup {NULL}]
      /\ m.freeRow \in [Pool!Level -> Pool!Block \cup {NULL}]
      /\ m.allocated \in 0 .. SizeMod - 1 /\ m.free \in 0 .. SizeMod - 1
  BY DEF Pool!BuddyInfo
<1>2. k \in Pool!Level /\ k \in Nat /\ Pool!SIZE(k) \in Nat /\ SizeMod \in Nat
  <2>1. k \in Pool!Level /\ TOP \in Nat /\ SizeMod \in Nat
    BY <1>1 DEF Pool!SizesAssumption
  <2>2. k \in Nat
    BY <2>1 DEF Pool!Level
  <2> QED BY <2>1, <2>2, SizeType
<1>3. (m.allocated - Pool!SIZE(k)) % SizeMod \in 0 .. SizeMod - 1
      /\ (m.free + Pool!SIZE(k)) % SizeMod \in 0 .. SizeMod - 1
  <2>1. SizeMod > 0
    BY <1>1, <1>2
  <2>2. \A i \in Int : i % SizeMod \in 0 .. SizeMod - 1
    BY <2>1, <1>2
  <2>3. m.allocated - Pool!SIZE(k) \in Int /\ m.free + Pool!SIZE(k) \in Int
    BY <1>1, <1>2
  <2> QED BY ONLY <2>2, <2>3
<1>4. /\ a.size = [m.size EXCEPT ![b] = 0]
      /\ a.level = m.level
      /\ a.next = [m.next EXCEPT ![b] = m.freeRow[k]]
      /\ a.prev = [x \in Pool!Block |-> IF x = m.freeRow[k] THEN b ELSE IF x = b THEN NULL ELSE m.prev[x]]
      /\ a.freeRow = [m.freeRow EXCEPT ![k] = b]
      /\ a.allocated = (m.allocated - Pool!SIZE(k)) % SizeMod
      /\ a.free = (m.free + Pool!SIZE(k)) % SizeMod
  <2>1. a.size = [m.size EXCEPT ![b] = 0]
    BY DEF Pool!addBlock, Pool!BuddyInfo
  <2>2. a.level = m.level
    BY DEF Pool!addBlock, Pool!BuddyInfo
  <2>3. a.next = [m.next EXCEPT ![b] = m.freeRow[k]]
    BY DEF Pool!addBlock, Pool!BuddyInfo
  <2>4. a.prev = [x \in Pool!Block |-> IF x = m.freeRow[k] THEN b ELSE IF x = b THEN NULL ELSE m.prev[x]]
    BY DEF Pool!addBlock, Pool!BuddyInfo
  <2>5. a.freeRow = [m.freeRow EXCEPT ![k] = b]
    BY DEF Pool!addBlock, Pool!BuddyInfo
  <2>6. a.allocated = (m.allocated - Pool!SIZE(k)) % SizeMod
    BY DEF Pool!addBlock, Pool!BuddyInfo
  <2>7. a.free = (m.free + Pool!SIZE(k)) % SizeMod
    BY DEF Pool!addBlock, Pool!BuddyInfo
  <2> QED BY <2>1, <2>2, <2>3, <2>4, <2>5, <2>6, <2>7
<1> HIDE DEF a
<1>5. /\ a.size \in [Pool!Block -> {0} \cup {Pool!SIZE(j) : j \in Pool!Level}]
      /\ a.next \in [Pool!Block -> Pool!Block \cup {NULL}]
      /\ a.prev \in [Pool!Block -> Pool!Block \cup {NULL}]
      /\ a.freeRow \in [Pool!Level -> Pool!Block \cup {NULL}]
  <2>1. a.size = [m.size EXCEPT ![b] = 0] /\ a.next = [m.next EXCEPT ![b] = m.freeRow[k]]
        /\ a.freeRow = [m.freeRow EXCEPT ![k] = b]
        /\ a.prev = [x \in Pool!Block |-> IF x = m.freeRow[k] THEN b ELSE IF x = b THEN NULL ELSE m.prev[x]]
    BY <1>4
  <2> QED BY <2>1, <1>1, <1>2
<1>6. a \in Pool!BuddyInfo
  <2> DEFINE a1 == [m EXCEPT !.next = a.next]
             a2 == [a1 EXCEPT !.prev = a.prev]
             a3 == [a2 EXCEPT !.freeRow = a.freeRow]
             a4 == [a3 EXCEPT !.size = a.size]
             a5 == [a4 EXCEPT !.allocated = a.allocated]
             a6 == [a5 EXCEPT !.free = a.free]
  <2>1. a = a6
    BY <1>4 DEF Pool!addBlock, a
  <2>2. a1 \in Pool!BuddyInfo
    BY <1>5 DEF Pool!BuddyInfo
  <2> HIDE DEF a1
  <2>3. a2 \in Pool!BuddyInfo
    BY <2>2, <1>5 DEF Pool!BuddyInfo
  <2> HIDE DEF a2
  <2>4. a3 \in Pool!BuddyInfo
    BY <2>3, <1>5 DEF Pool!BuddyInfo
  <2> HIDE DEF a3
  <2>5. a4 \in Pool!BuddyInfo
    BY <2>4, <1>5 DEF Pool!BuddyInfo
  <2> HIDE DEF a4
  <2>6. a5 \in Pool!BuddyInfo
    BY <2>5, <1>3, <1>4 DEF Pool!BuddyInfo
  <2> HIDE DEF a5
  <2>7. a6 \in Pool!BuddyInfo
    BY <2>6, <1>3, <1>4 DEF Pool!BuddyInfo
  <2> QED BY <2>1, <2>7
<1>7. \A x \in Pool!Block :
        /\ a.size[x] = IF x = b THEN 0 ELSE m.size[x]
        /\ a.next[x] = IF x = b THEN m.freeRow[k] ELSE m.next[x]
        /\ a.prev[x] = IF x = m.freeRow[k] THEN b ELSE IF x = b THEN NULL ELSE m.prev[x]
  BY <1>1, <1>4
<1>8. \A j \in Pool!Level : a.freeRow[j] = IF j = k THEN b ELSE m.freeRow[j]
  BY <1>1, <1>4
<1>9. a.level = m.level /\ a.allocated = (m.allocated - Pool!SIZE(k)) % SizeMod
      /\ a.free = (m.free + Pool!SIZE(k)) % SizeMod
  BY <1>4
<1> QED BY <1>2, <1>6, <1>7, <1>8, <1>9 DEF a

\* What removeBlock does to each field.
LEMMA RemoveFields ==
  ASSUME Pool!NullAssumption, Pool!SizesAssumption, NEW m \in Pool!BuddyInfo, NEW b \in Pool!Block
  PROVE  LET a == Pool!removeBlock(m, b)
             k == m.level[b]
         IN  /\ a \in Pool!BuddyInfo
             /\ k \in Pool!Level
             /\ a.level = m.level
             /\ \A x \in Pool!Block :
                  /\ a.size[x] = IF x = b THEN Pool!SIZE(k) ELSE m.size[x]
                  /\ a.next[x] = IF x = b THEN NULL ELSE IF x = m.prev[b] THEN m.next[b] ELSE m.next[x]
                  /\ a.prev[x] = IF x = b THEN NULL ELSE IF x = m.next[b] THEN m.prev[b] ELSE m.prev[x]
             /\ \A j \in Pool!Level :
                  a.freeRow[j] = IF j = k /\ m.prev[b] = NULL THEN m.next[b] ELSE m.freeRow[j]
             /\ a.allocated = (m.allocated + Pool!SIZE(k)) % SizeMod
             /\ a.free = (m.free - Pool!SIZE(k)) % SizeMod
<1> DEFINE a == Pool!removeBlock(m, b)
           k == m.level[b]
<1>1. /\ m.size \in [Pool!Block -> {0} \cup {Pool!SIZE(j) : j \in Pool!Level}]
      /\ m.level \in [Pool!Block -> Pool!Level]
      /\ m.next \in [Pool!Block -> Pool!Block \cup {NULL}]
      /\ m.prev \in [Pool!Block -> Pool!Block \cup {NULL}]
      /\ m.freeRow \in [Pool!Level -> Pool!Block \cup {NULL}]
      /\ m.allocated \in 0 .. SizeMod - 1 /\ m.free \in 0 .. SizeMod - 1
  BY DEF Pool!BuddyInfo
<1>2. k \in Pool!Level /\ k \in Nat /\ Pool!SIZE(k) \in Nat /\ SizeMod \in Nat
  <2>1. k \in Pool!Level /\ TOP \in Nat /\ SizeMod \in Nat
    BY <1>1 DEF Pool!SizesAssumption
  <2>2. k \in Nat
    BY <2>1 DEF Pool!Level
  <2> QED BY <2>1, <2>2, SizeType
<1>3. (m.allocated + Pool!SIZE(k)) % SizeMod \in 0 .. SizeMod - 1
      /\ (m.free - Pool!SIZE(k)) % SizeMod \in 0 .. SizeMod - 1
  <2>1. SizeMod > 0
    BY <1>1, <1>2
  <2>2. \A i \in Int : i % SizeMod \in 0 .. SizeMod - 1
    BY <2>1, <1>2
  <2>3. m.allocated + Pool!SIZE(k) \in Int /\ m.free - Pool!SIZE(k) \in Int
    BY <1>1, <1>2
  <2> QED BY ONLY <2>2, <2>3
<1>4. /\ a.size = [m.size EXCEPT ![b] = Pool!SIZE(k)]
      /\ a.level = m.level
      /\ a.next = [x \in Pool!Block |->
                       IF x = b THEN NULL ELSE IF x = m.prev[b] THEN m.next[b] ELSE m.next[x]]
      /\ a.prev = [x \in Pool!Block |->
                       IF x = b THEN NULL ELSE IF x = m.next[b] THEN m.prev[b] ELSE m.prev[x]]
      /\ a.freeRow = [m.freeRow EXCEPT ![k] = IF m.prev[b] = NULL THEN m.next[b] ELSE @]
      /\ a.allocated = (m.allocated + Pool!SIZE(k)) % SizeMod
      /\ a.free = (m.free - Pool!SIZE(k)) % SizeMod
  <2>1. a.size = [m.size EXCEPT ![b] = Pool!SIZE(k)]
    BY DEF Pool!removeBlock, Pool!BuddyInfo
  <2>2. a.level = m.level
    BY DEF Pool!removeBlock, Pool!BuddyInfo
  <2>3. a.next = [x \in Pool!Block |->
                         IF x = b THEN NULL ELSE IF x = m.prev[b] THEN m.next[b] ELSE m.next[x]]
    BY DEF Pool!removeBlock, Pool!BuddyInfo
  <2>4. a.prev = [x \in Pool!Block |->
                         IF x = b THEN NULL ELSE IF x = m.next[b] THEN m.prev[b] ELSE m.prev[x]]
    BY DEF Pool!removeBlock, Pool!BuddyInfo
  <2>5. a.freeRow = [m.freeRow EXCEPT ![k] = IF m.prev[b] = NULL THEN m.next[b] ELSE @]
    BY DEF Pool!removeBlock, Pool!BuddyInfo
  <2>6. a.allocated = (m.allocated + Pool!SIZE(k)) % SizeMod
    BY DEF Pool!removeBlock, Pool!BuddyInfo
  <2>7. a.free = (m.free - Pool!SIZE(k)) % SizeMod
    BY DEF Pool!removeBlock, Pool!BuddyInfo
  <2> QED BY <2>1, <2>2, <2>3, <2>4, <2>5, <2>6, <2>7
<1> HIDE DEF a
<1>5. /\ a.size \in [Pool!Block -> {0} \cup {Pool!SIZE(j) : j \in Pool!Level}]
      /\ a.next \in [Pool!Block -> Pool!Block \cup {NULL}]
      /\ a.prev \in [Pool!Block -> Pool!Block \cup {NULL}]
      /\ a.freeRow \in [Pool!Level -> Pool!Block \cup {NULL}]
  <2>1. a.size = [m.size EXCEPT ![b] = Pool!SIZE(k)]
        /\ a.freeRow = [m.freeRow EXCEPT ![k] = IF m.prev[b] = NULL THEN m.next[b] ELSE @]
    BY <1>4
  <2>2. a.next = [x \in Pool!Block |->
                    IF x = b THEN NULL ELSE IF x = m.prev[b] THEN m.next[b] ELSE m.next[x]]
        /\ a.prev = [x \in Pool!Block |->
                       IF x = b THEN NULL ELSE IF x = m.next[b] THEN m.prev[b] ELSE m.prev[x]]
    BY <1>4
  <2>3. m.next[b] \in Pool!Block \cup {NULL} /\ m.prev[b] \in Pool!Block \cup {NULL}
    BY <1>1
  <2>4. a.size \in [Pool!Block -> {0} \cup {Pool!SIZE(j) : j \in Pool!Level}]
    BY <2>1, <1>1, <1>2
  <2>5. a.next \in [Pool!Block -> Pool!Block \cup {NULL}] /\ a.prev \in [Pool!Block -> Pool!Block \cup {NULL}]
    BY <2>2, <2>3, <1>1
  <2>6. a.freeRow \in [Pool!Level -> Pool!Block \cup {NULL}]
    BY <2>1, <2>3, <1>1, <1>2
  <2> QED BY <2>4, <2>5, <2>6
<1>6. a \in Pool!BuddyInfo
  <2> DEFINE a1 == [m EXCEPT !.next = a.next]
             a2 == [a1 EXCEPT !.prev = a.prev]
             a3 == [a2 EXCEPT !.freeRow = a.freeRow]
             a4 == [a3 EXCEPT !.size = a.size]
             a5 == [a4 EXCEPT !.allocated = a.allocated]
             a6 == [a5 EXCEPT !.free = a.free]
  <2>1. a = a6
    BY <1>4 DEF Pool!removeBlock, a
  <2>2. a1 \in Pool!BuddyInfo
    BY <1>5 DEF Pool!BuddyInfo
  <2> HIDE DEF a1
  <2>3. a2 \in Pool!BuddyInfo
    BY <2>2, <1>5 DEF Pool!BuddyInfo
  <2> HIDE DEF a2
  <2>4. a3 \in Pool!BuddyInfo
    BY <2>3, <1>5 DEF Pool!BuddyInfo
  <2> HIDE DEF a3
  <2>5. a4 \in Pool!BuddyInfo
    BY <2>4, <1>5 DEF Pool!BuddyInfo
  <2> HIDE DEF a4
  <2>6. a5 \in Pool!BuddyInfo
    BY <2>5, <1>3, <1>4 DEF Pool!BuddyInfo
  <2> HIDE DEF a5
  <2>7. a6 \in Pool!BuddyInfo
    BY <2>6, <1>3, <1>4 DEF Pool!BuddyInfo
  <2> QED BY <2>1, <2>7
<1>7. \A x \in Pool!Block :
        /\ a.size[x] = IF x = b THEN Pool!SIZE(k) ELSE m.size[x]
        /\ a.next[x] = IF x = b THEN NULL ELSE IF x = m.prev[b] THEN m.next[b] ELSE m.next[x]
        /\ a.prev[x] = IF x = b THEN NULL ELSE IF x = m.next[b] THEN m.prev[b] ELSE m.prev[x]
  BY <1>1, <1>4
<1>8. \A j \in Pool!Level : a.freeRow[j] = IF j = k /\ m.prev[b] = NULL THEN m.next[b] ELSE m.freeRow[j]
  BY <1>1, <1>4
<1>9. a.level = m.level /\ a.allocated = (m.allocated + Pool!SIZE(k)) % SizeMod
      /\ a.free = (m.free - Pool!SIZE(k)) % SizeMod
  BY <1>4
<1> QED BY <1>2, <1>6, <1>7, <1>8, <1>9 DEF a

\* A block that is not linked yet is linked by addBlock.
LEMMA AddLinked ==
  ASSUME Pool!NullAssumption, Pool!SizesAssumption, NEW m \in Pool!BuddyInfo, NEW free, Linked(m, free),
         NEW b \in Pool!Block \ free
  PROVE  Linked(Pool!addBlock(m, b), free \cup {b})
<1> DEFINE a == Pool!addBlock(m, b)
           k == m.level[b]
           all == free \cup {b}
           head == m.freeRow[k]
<1>1. /\ k \in Pool!Level
      /\ a.level = m.level
      /\ \A x \in Pool!Block :
           /\ a.size[x] = IF x = b THEN 0 ELSE m.size[x]
           /\ a.next[x] = IF x = b THEN head ELSE m.next[x]
           /\ a.prev[x] = IF x = head THEN b ELSE IF x = b THEN NULL ELSE m.prev[x]
      /\ \A j \in Pool!Level : a.freeRow[j] = IF j = k THEN b ELSE m.freeRow[j]
  BY AddFields
<1> HIDE DEF a
<1>2. /\ m.level \in [Pool!Block -> Pool!Level]
      /\ m.freeRow \in [Pool!Level -> Pool!Block \cup {NULL}]
      /\ NULL \notin Pool!Block
  BY DEF Pool!BuddyInfo, Pool!NullAssumption, Pool!Block
<1>3. free \in SUBSET Pool!Block /\ head # b
  BY <1>1, <1>2 DEF Linked
<1>4. \A j \in Pool!Level : a.freeRow[j] # NULL => a.freeRow[j] \in all /\ a.level[a.freeRow[j]] = j
  BY <1>1 DEF Linked
<1>5. ASSUME NEW x \in all
      PROVE  /\ a.size[x] = 0
             /\ a.prev[x] = NULL <=> a.freeRow[a.level[x]] = x
             /\ a.prev[x] # NULL =>
                  a.prev[x] \in all /\ a.level[a.prev[x]] = a.level[x] /\ a.next[a.prev[x]] = x
             /\ a.next[x] # NULL =>
                  a.next[x] \in all /\ a.level[a.next[x]] = a.level[x] /\ a.prev[a.next[x]] = x
  <2>1. CASE x = b
    <3>1. a.size[x] = 0 /\ a.prev[x] = NULL /\ a.freeRow[a.level[x]] = x /\ a.next[x] = head
      BY <2>1, <1>1, <1>3
    <3>2. head # NULL => head \in free /\ m.level[head] = k /\ a.prev[head] = b
      BY <1>1 DEF Linked
    <3> QED BY <3>1, <3>2, <2>1, <1>1
  <2>2. CASE x # b /\ x = head
    <3>1. x \in free /\ m.level[x] = k /\ x \in Pool!Block
      BY <2>2, <1>1, <1>3 DEF Linked
    <3>2. a.prev[x] = b /\ a.freeRow[a.level[x]] # x /\ b # NULL /\ a.next[b] = x
      BY <2>2, <3>1, <1>1, <1>2
    <3>3. m.next[x] # b /\ a.next[x] = m.next[x]
          /\ (m.next[x] # NULL => m.next[x] \in free /\ m.level[m.next[x]] = m.level[x]
                                  /\ m.prev[m.next[x]] = x /\ m.next[x] # head)
      <4>1. m.next[x] # NULL => m.next[x] \in free /\ m.level[m.next[x]] = m.level[x]
                                  /\ m.prev[m.next[x]] = x
        BY <3>1 DEF Linked
      <4>2. m.prev[head] = NULL /\ x # NULL
        BY <2>2, <3>1, <1>2 DEF Linked
      <4>3. a.next[x] = m.next[x]
        BY <2>2, <3>1, <1>1
      <4>4. b \notin free /\ b # NULL
        BY <1>2
      <4> QED BY <4>1, <4>2, <4>3, <4>4
    <3>4. a.size[x] = 0 /\ a.level[x] = k
      BY <2>2, <3>1, <1>1 DEF Linked
    <3>5. a.level[b] = k
      BY <1>1
    <3>6. m.next[x] # NULL => a.prev[m.next[x]] = x /\ a.level[m.next[x]] = k
      BY <3>1, <3>3, <1>1, <1>3
    <3> QED BY <3>1, <3>2, <3>3, <3>4, <3>5, <3>6
  <2>3. CASE x # b /\ x # head
    <3>1. x \in free /\ x \in Pool!Block /\ m.level[x] \in Pool!Level
      BY <2>3, <1>2, <1>3
    <3>2. a.size[x] = m.size[x] /\ a.next[x] = m.next[x] /\ a.prev[x] = m.prev[x] /\ a.level[x] = m.level[x]
          /\ (a.freeRow[a.level[x]] = x <=> m.freeRow[m.level[x]] = x)
      BY <2>3, <3>1, <1>1
    <3>3. m.next[x] # NULL => m.next[x] \in free /\ m.next[x] # head /\ m.next[x] # b
      <4>1. head # NULL /\ head \in free => m.prev[head] = NULL
        BY <1>1 DEF Linked
      <4>2. m.next[x] # NULL => m.next[x] \in free /\ m.prev[m.next[x]] = x
        BY <3>1 DEF Linked
      <4> QED BY <4>1, <4>2, <3>1, <1>2
    <3>4. /\ m.size[x] = 0
          /\ m.prev[x] = NULL <=> m.freeRow[m.level[x]] = x
          /\ m.prev[x] # NULL =>
               m.prev[x] \in free /\ m.level[m.prev[x]] = m.level[x] /\ m.next[m.prev[x]] = x
          /\ m.next[x] # NULL =>
               m.next[x] \in free /\ m.level[m.next[x]] = m.level[x] /\ m.prev[m.next[x]] = x
      BY <3>1 DEF Linked
    <3>5. m.prev[x] # NULL => m.prev[x] # b /\ a.next[m.prev[x]] = x /\ a.level[m.prev[x]] = m.level[x]
      BY <3>4, <1>1, <1>3
    <3>6. m.next[x] # NULL => a.prev[m.next[x]] = x /\ a.level[m.next[x]] = m.level[x]
      BY <3>3, <3>4, <1>1, <1>3
    <3> QED BY <3>2, <3>3, <3>4, <3>5, <3>6
  <2> QED BY <2>1, <2>2, <2>3
<1>6. ASSUME NEW part \in SUBSET all, part # {} PROVE \E x \in part : a.prev[x] \notin part
  <2>1. CASE b \in part
    BY <2>1, <1>1, <1>2, <1>3
  <2>2. CASE b \notin part
    <3>1. part \in SUBSET free
      BY <2>2
    <3>2. PICK x \in part : m.prev[x] \notin part
      BY <3>1, <1>6 DEF Linked
    <3>3. a.prev[x] = IF x = head THEN b ELSE m.prev[x]
      BY <3>1, <2>2, <1>1, <1>3
    <3> QED BY <2>2, <3>2, <3>3
  <2> QED BY <2>1, <2>2
<1>7. all \in SUBSET Pool!Block
  BY <1>3
<1> QED BY <1>4, <1>5, <1>6, <1>7 DEF Linked, a

\* A linked block is taken out by removeBlock.
LEMMA RemoveLinked ==
  ASSUME Pool!NullAssumption, Pool!SizesAssumption, NEW m \in Pool!BuddyInfo, NEW free, Linked(m, free),
         NEW b \in free
  PROVE  Linked(Pool!removeBlock(m, b), free \ {b})
<1> DEFINE a == Pool!removeBlock(m, b)
           k == m.level[b]
           rest == free \ {b}
           before == m.prev[b]
           after == m.next[b]
<1>0. b \in Pool!Block /\ free \in SUBSET Pool!Block /\ NULL \notin Pool!Block
  BY DEF Linked, Pool!NullAssumption, Pool!Block
<1>1. /\ k \in Pool!Level
      /\ a.level = m.level
      /\ \A x \in Pool!Block :
           /\ a.size[x] = IF x = b THEN Pool!SIZE(k) ELSE m.size[x]
           /\ a.next[x] = IF x = b THEN NULL ELSE IF x = before THEN after ELSE m.next[x]
           /\ a.prev[x] = IF x = b THEN NULL ELSE IF x = after THEN before ELSE m.prev[x]
      /\ \A j \in Pool!Level :
           a.freeRow[j] = IF j = k /\ before = NULL THEN after ELSE m.freeRow[j]
  BY RemoveFields, <1>0
<1> HIDE DEF a
<1>2. /\ m.level \in [Pool!Block -> Pool!Level]
      /\ m.freeRow \in [Pool!Level -> Pool!Block \cup {NULL}]
  BY DEF Pool!BuddyInfo
<1>3. /\ before = NULL <=> m.freeRow[k] = b
      /\ before # NULL => before \in free /\ m.level[before] = k /\ m.next[before] = b
      /\ after # NULL => after \in free /\ m.level[after] = k /\ m.prev[after] = b
  BY DEF Linked
<1>4. before # b /\ after # b
  <2>1. {b} \in SUBSET free /\ {b} # {}
    OBVIOUS
  <2>2. \E x \in {b} : m.prev[x] \notin {b}
    BY <2>1 DEF Linked
  <2> QED BY <2>2, <1>3, <1>0
<1>5. \A j \in Pool!Level : a.freeRow[j] # NULL => a.freeRow[j] \in rest /\ a.level[a.freeRow[j]] = j
  <2> TAKE j \in Pool!Level
  <2> HAVE a.freeRow[j] # NULL
  <2>1. CASE j = k /\ before = NULL
    BY <2>1, <1>1, <1>3, <1>4
  <2>2. CASE ~ (j = k /\ before = NULL)
    <3>1. a.freeRow[j] = m.freeRow[j] /\ m.freeRow[j] \in free /\ m.level[m.freeRow[j]] = j
      BY <2>2, <1>1 DEF Linked
    <3>2. m.freeRow[j] # b
      BY <2>2, <3>1, <1>3
    <3> QED BY <3>1, <3>2, <1>1
  <2> QED BY <2>1, <2>2
<1>6. ASSUME NEW x \in rest
      PROVE  /\ a.size[x] = 0
             /\ a.prev[x] = NULL <=> a.freeRow[a.level[x]] = x
             /\ a.prev[x] # NULL =>
                  a.prev[x] \in rest /\ a.level[a.prev[x]] = a.level[x] /\ a.next[a.prev[x]] = x
             /\ a.next[x] # NULL =>
                  a.next[x] \in rest /\ a.level[a.next[x]] = a.level[x] /\ a.prev[a.next[x]] = x
  <2>1. x \in Pool!Block /\ x # b /\ x # NULL /\ m.level[x] \in Pool!Level
    BY <1>0, <1>2
  <2>2. /\ m.size[x] = 0
        /\ m.prev[x] = NULL <=> m.freeRow[m.level[x]] = x
        /\ m.prev[x] # NULL =>
             m.prev[x] \in free /\ m.level[m.prev[x]] = m.level[x] /\ m.next[m.prev[x]] = x
        /\ m.next[x] # NULL =>
             m.next[x] \in free /\ m.level[m.next[x]] = m.level[x] /\ m.prev[m.next[x]] = x
    BY DEF Linked
  <2>3. a.size[x] = 0 /\ a.level[x] = m.level[x]
    BY <2>1, <2>2, <1>1
  <2>4. /\ a.prev[x] = IF x = after THEN before ELSE m.prev[x]
        /\ a.next[x] = IF x = before THEN after ELSE m.next[x]
        /\ a.freeRow[m.level[x]] =
             IF m.level[x] = k /\ before = NULL THEN after ELSE m.freeRow[m.level[x]]
    BY <2>1, <1>1
  <2>5. a.prev[x] = NULL <=> a.freeRow[m.level[x]] = x
    <3>1. CASE x = after
      BY <3>1, <2>1, <2>2, <2>4, <1>3, <1>0
    <3>2. CASE x # after
      BY <3>2, <2>1, <2>2, <2>4, <1>3
    <3> QED BY <3>1, <3>2
  <2>6. a.prev[x] # NULL => a.prev[x] \in rest /\ a.level[a.prev[x]] = a.level[x] /\ a.next[a.prev[x]] = x
    <3> HAVE a.prev[x] # NULL
    <3>1. CASE x = after
      <4>1. a.prev[x] = before /\ before \in free /\ before # b /\ before \in Pool!Block
        BY <3>1, <2>1, <2>4, <1>3, <1>4, <1>0
      <4>2. a.next[before] = x /\ a.level[before] = k /\ m.level[x] = k
        BY <4>1, <3>1, <2>1, <1>1, <1>3
      <4> QED BY <4>1, <4>2, <2>3
    <3>2. CASE x # after
      <4>1. a.prev[x] = m.prev[x] /\ m.prev[x] # b /\ m.prev[x] # before
        BY <3>2, <2>1, <2>2, <2>4, <1>3, <1>0
      <4> QED BY <4>1, <2>2, <2>3, <1>1, <1>0
    <3> QED BY <3>1, <3>2
  <2>7. a.next[x] # NULL => a.next[x] \in rest /\ a.level[a.next[x]] = a.level[x] /\ a.prev[a.next[x]] = x
    <3> HAVE a.next[x] # NULL
    <3>1. CASE x = before
      <4>1. a.next[x] = after /\ after \in free /\ after # b /\ after \in Pool!Block
        BY <3>1, <2>1, <2>4, <1>3, <1>4, <1>0
      <4>2. a.prev[after] = x /\ a.level[after] = k /\ m.level[x] = k
        BY <4>1, <3>1, <2>1, <1>1, <1>3
      <4> QED BY <4>1, <4>2, <2>3
    <3>2. CASE x # before
      <4>1. a.next[x] = m.next[x] /\ m.next[x] # b /\ m.next[x] # after
        BY <3>2, <2>1, <2>2, <2>4, <1>3, <1>0
      <4> QED BY <4>1, <2>2, <2>3, <1>1, <1>0
    <3> QED BY <3>1, <3>2
  <2> QED BY <2>3, <2>5, <2>6, <2>7
<1>7. ASSUME NEW part \in SUBSET rest, part # {} PROVE \E x \in part : a.prev[x] \notin part
  <2>1. CASE after \in part
    <3>1. part \cup {b} \in SUBSET free
      OBVIOUS
    <3>2. PICK x \in part \cup {b} : m.prev[x] \notin part \cup {b}
      BY <3>1 DEF Linked
    <3>3. x # after
      BY <3>2, <2>1, <1>3, <1>0
    <3>4. CASE x = b
      <4>1. a.prev[after] = before /\ before \notin part
        BY <3>2, <3>4, <2>1, <1>0, <1>1
      <4> QED BY <4>1, <2>1
    <3>5. CASE x # b
      <4>1. x \in part /\ x \in Pool!Block /\ a.prev[x] = m.prev[x]
        BY <3>3, <3>5, <1>0, <1>1
      <4> QED BY <4>1, <3>2
    <3> QED BY <3>4, <3>5
  <2>2. CASE after \notin part
    <3>1. PICK x \in part : m.prev[x] \notin part
      BY <1>7 DEF Linked
    <3>2. a.prev[x] = m.prev[x]
      BY <3>1, <2>2, <1>0, <1>1
    <3> QED BY <3>1, <3>2
  <2> QED BY <2>1, <2>2
<1>8. rest \in SUBSET Pool!Block
  BY <1>0
<1> QED BY <1>5, <1>6, <1>7, <1>8 DEF Linked, a

\* The level of a block that is not linked may change.
LEMMA RelabelLinked ==
  ASSUME Pool!NullAssumption, NEW m \in Pool!BuddyInfo, NEW free, Linked(m, free),
         NEW b \in Pool!Block \ free, NEW k \in Pool!Level
  PROVE  [m EXCEPT !.level[b] = k] \in Pool!BuddyInfo /\ Linked([m EXCEPT !.level[b] = k], free)
<1> DEFINE a == [m EXCEPT !.level[b] = k]
<1>1. /\ a.size = m.size /\ a.next = m.next /\ a.prev = m.prev /\ a.freeRow = m.freeRow
      /\ a.level = [m.level EXCEPT ![b] = k]
      /\ m.level \in [Pool!Block -> Pool!Level]
      /\ a \in Pool!BuddyInfo
  <2>1. m.level \in [Pool!Block -> Pool!Level] /\ [m.level EXCEPT ![b] = k] \in [Pool!Block -> Pool!Level]
    BY DEF Pool!BuddyInfo
  <2> QED BY <2>1 DEF Pool!BuddyInfo
<1> HIDE DEF a
<1>2. free \in SUBSET Pool!Block /\ NULL \notin Pool!Block
  BY DEF Linked, Pool!NullAssumption, Pool!Block
<1>3. \A x \in free : a.level[x] = m.level[x] /\ m.level[x] \in Pool!Level
  BY <1>1, <1>2
<1> QED BY <1>1, <1>2, <1>3 DEF Linked, a

-----------------------------------------------------------------------------
(* The blocks of the pool.                                                 *)

\* How many entries a block spans.
Length(m, b) == Pool!Power[m.level[b]]

\* The blocks of all lie at multiples of their lengths, apart, and fill the pool.
Tiled(m, all) ==
  /\ all \in SUBSET Pool!Block
  /\ \A b \in all : \E q \in Nat : b = q * Length(m, b)
  /\ \A b \in all : b + Length(m, b) <= Pool!Power[TOP]
  /\ \A b, c \in all : b # c => b + Length(m, b) <= c \/ c + Length(m, c) <= b
  /\ \A x \in Pool!Block : \E b \in all : b <= x /\ x < b + Length(m, b)

\* What splitBlock makes of one block.
Half(m, row) == [Pool!removeBlock(m, m.freeRow[row]) EXCEPT !.level[m.freeRow[row]] = row - 1]

\* The first half of a block of an even multiple has its buddy behind it.
LEMMA BuddyBehind ==
  ASSUME NEW q \in Nat, NEW p \in Nat, p >= 1
  PROVE  (((q * (2 * p)) \div p) % 2) = 0
<1>1. q * (2 * p) = (2 * q) * p
  OBVIOUS
<1>2. ((2 * q) * p) \div p = 2 * q
  OBVIOUS
<1>3. (2 * q) % 2 = 0
  OBVIOUS
<1> QED BY <1>1, <1>2, <1>3

\* A counter that wraps may wrap at every step or once at the end.
LEMMA Wraps ==
  ASSUME NEW n \in Nat \ {0}, NEW u \in Int, NEW v \in Int
  PROVE  ((u % n) + v) % n = (u + v) % n
<1>1. \A w \in Int : \E q \in Int : w = q * n + (w % n) /\ w % n \in 0 .. n - 1
  <2> TAKE w \in Int
  <2>1. w \div n \in Int /\ w % n \in 0 .. n - 1 /\ w = (w \div n) * n + (w % n)
    OBVIOUS
  <2> QED BY <2>1
<1>2. \A q \in Int, r \in 0 .. n - 1 : (q * n + r) % n = r
  BY SMTT(30)
<1>3. PICK p \in Int : u = p * n + (u % n) /\ u % n \in 0 .. n - 1
  BY <1>1
<1> DEFINE r == u % n
<1>4. u = p * n + r /\ r \in Int
  BY <1>3
<1> HIDE DEF r
<1> DEFINE s == r + v
<1>5. s \in Int
  BY <1>4
<1>6. PICK q \in Int : s = q * n + (s % n) /\ s % n \in 0 .. n - 1
  BY ONLY <1>1, <1>5
<1> DEFINE t == s % n
<1>7. s = q * n + t /\ t \in 0 .. n - 1
  BY <1>6
<1> HIDE DEF t
<1>8. u + v = (p + q) * n + t /\ p + q \in Int
  BY <1>4, <1>7
<1>9. (u + v) % n = t
  BY <1>2, <1>7, <1>8
<1> QED BY <1>9 DEF t, s, r

\* splitBlock puts two blocks of half the length in the place of the first one of
\* the row, and counts what it counted before.
LEMMA PoolSplits ==
  ASSUME Pool!NullAssumption, Pool!SizesAssumption, NEW m \in Pool!BuddyInfo, NEW free, NEW used,
         Linked(m, free), Tiled(m, free \cup used),
         used = {b \in Pool!Block : m.size[b] # 0},
         NEW row \in Pool!Level, row # 0, m.freeRow[row] # NULL
  PROVE  LET a == Pool!splitBlock(m, row)
         IN  /\ a \in Pool!BuddyInfo
             /\ a.size = m.size
             /\ a.allocated = m.allocated /\ a.free = m.free
             /\ \A x \in Pool!Block : x \in used => a.level[x] = m.level[x]
             /\ a.freeRow[row - 1] # NULL
             /\ \E more : Linked(a, more) /\ Tiled(a, more \cup used)
<1> DEFINE b == m.freeRow[row]
           p == Pool!Power[row - 1]
           c == b + p
           out == Pool!removeBlock(m, b)
           half == [out EXCEPT !.level[b] = row - 1]
           halves == [half EXCEPT !.level[c] = row - 1]
           once == Pool!addBlock(halves, c)
           a == Pool!addBlock(once, b)
           rest == free \ {b}
           more == (rest \cup {c}) \cup {b}
<1>1. TOP \in Nat /\ row - 1 \in Pool!Level /\ row \in Nat /\ row - 1 \in Nat /\ row = (row - 1) + 1
  BY DEF Pool!SizesAssumption, Pool!Level
<1>2. p \in Nat /\ p >= 1 /\ Pool!Power[row] = 2 * p /\ Pool!Power[TOP] \in Nat
  BY <1>1, PowerDef
<1>3. b \in free /\ m.level[b] = row /\ b \in Pool!Block /\ m.size[b] = 0 /\ NULL \notin Pool!Block
  <2>1. b \in free /\ m.level[b] = row /\ free \in SUBSET Pool!Block
    BY DEF Linked
  <2>2. m.size[b] = 0
    BY <2>1 DEF Linked
  <2>3. NULL \notin Pool!Block
    BY <1>2 DEF Pool!NullAssumption, Pool!Block
  <2> QED BY <2>1, <2>2, <2>3
<1>4. Length(m, b) = 2 * p /\ b + 2 * p <= Pool!Power[TOP] /\ b \in Nat
      /\ \E q \in Nat : b = q * (2 * p)
  <2>1. Length(m, b) = 2 * p
    BY <1>2, <1>3 DEF Length
  <2>2. b \in Nat
    BY <1>2, <1>3 DEF Pool!Block
  <2>3. b + Length(m, b) <= Pool!Power[TOP] /\ \E q \in Nat : b = q * Length(m, b)
    BY <1>3 DEF Tiled
  <2> QED BY <2>1, <2>2, <2>3
<1>5. c \in Pool!Block /\ c # b
  BY <1>2, <1>4 DEF Pool!Block
<1>6. c \notin free \cup used
  <2> SUFFICES ASSUME c \in free \cup used PROVE FALSE
    OBVIOUS
  <2>1. b + Length(m, b) <= c \/ c + Length(m, c) <= b
    BY <1>3, <1>5 DEF Tiled
  <2>2. m.level[c] \in Nat
    BY <1>1, <1>5 DEF Pool!BuddyInfo, Pool!Level
  <2>3. Length(m, c) \in Nat /\ Length(m, c) >= 1
    BY <2>2, PowerDef DEF Length
  <2> QED BY <2>1, <2>3, <1>2, <1>4
<1>7. /\ out \in Pool!BuddyInfo /\ Linked(out, rest) /\ out.level = m.level
      /\ \A x \in Pool!Block : out.size[x] = IF x = b THEN Pool!SIZE(row) ELSE m.size[x]
      /\ out.allocated = (m.allocated + Pool!SIZE(row)) % SizeMod
      /\ out.free = (m.free - Pool!SIZE(row)) % SizeMod
  BY <1>3, RemoveFields, RemoveLinked
<1> HIDE DEF out
<1>8. /\ half \in Pool!BuddyInfo /\ Linked(half, rest)
      /\ half.level = [m.level EXCEPT ![b] = row - 1]
      /\ half.size = out.size /\ half.allocated = out.allocated /\ half.free = out.free
  <2>1. b \in Pool!Block \ rest
    BY <1>3
  <2>2. half \in Pool!BuddyInfo /\ Linked(half, rest)
    BY <2>1, <1>1, <1>7, RelabelLinked
  <2>3. /\ half.level = [m.level EXCEPT ![b] = row - 1]
        /\ half.size = out.size /\ half.allocated = out.allocated /\ half.free = out.free
    BY <1>7 DEF Pool!BuddyInfo
  <2> QED BY <2>2, <2>3
<1>9. half.level[b] = row - 1
  BY <1>3, <1>8 DEF Pool!BuddyInfo
<1> HIDE DEF half
<1>10. Pool!getBuddy(half, b) = c
  <2>1. (b \div p) % 2 = 0
    BY <1>2, <1>4, BuddyBehind
  <2> QED BY <2>1, <1>9 DEF Pool!getBuddy
<1>11. /\ halves \in Pool!BuddyInfo /\ Linked(halves, rest)
       /\ halves.level = [half.level EXCEPT ![c] = row - 1]
       /\ halves.size = out.size /\ halves.allocated = out.allocated /\ halves.free = out.free
  <2>1. c \in Pool!Block \ rest
    BY <1>5, <1>6
  <2>2. halves \in Pool!BuddyInfo /\ Linked(halves, rest)
    BY <2>1, <1>1, <1>8, RelabelLinked
  <2>3. /\ halves.level = [half.level EXCEPT ![c] = row - 1]
        /\ halves.size = half.size /\ halves.allocated = half.allocated /\ halves.free = half.free
    BY <1>8 DEF Pool!BuddyInfo
  <2> QED BY <2>2, <2>3, <1>8
<1> HIDE DEF halves
<1>12. /\ \A x \in Pool!Block : halves.level[x] = IF x = b \/ x = c THEN row - 1 ELSE m.level[x]
  BY <1>3, <1>5, <1>8, <1>11 DEF Pool!BuddyInfo
<1> HIDE DEF once
<1>13. /\ once \in Pool!BuddyInfo /\ Linked(once, rest \cup {c})
       /\ once.level = halves.level
       /\ \A x \in Pool!Block : once.size[x] = IF x = c THEN 0 ELSE out.size[x]
       /\ once.allocated = (out.allocated - Pool!SIZE(row - 1)) % SizeMod
       /\ once.free = (out.free + Pool!SIZE(row - 1)) % SizeMod
  <2>1. c \in Pool!Block \ rest /\ halves.level[c] = row - 1
    BY <1>5, <1>6, <1>12
  <2>2. Linked(once, rest \cup {c})
    BY <2>1, <1>11, AddLinked DEF once
  <2>3. /\ once \in Pool!BuddyInfo
        /\ once.level = halves.level
        /\ \A x \in Pool!Block : once.size[x] = IF x = c THEN 0 ELSE halves.size[x]
        /\ once.allocated = (halves.allocated - Pool!SIZE(row - 1)) % SizeMod
        /\ once.free = (halves.free + Pool!SIZE(row - 1)) % SizeMod
    <3>1. halves \in Pool!BuddyInfo /\ c \in Pool!Block /\ halves.level[c] = row - 1
      BY <2>1, <1>11
    <3> HIDE DEF c
    <3> QED BY <3>1, AddFields DEF once
  <2> QED BY <2>2, <2>3, <1>11
<1>14. /\ a \in Pool!BuddyInfo /\ Linked(a, more)
       /\ a.level = halves.level
       /\ \A x \in Pool!Block : a.size[x] = IF x = b THEN 0 ELSE once.size[x]
       /\ a.freeRow[row - 1] = b
       /\ a.allocated = (once.allocated - Pool!SIZE(row - 1)) % SizeMod
       /\ a.free = (once.free + Pool!SIZE(row - 1)) % SizeMod
  <2>1. b \in Pool!Block \ (rest \cup {c}) /\ once.level[b] = row - 1
    BY <1>3, <1>5, <1>12, <1>13
  <2> QED BY <2>1, <1>1, <1>13, AddFields, AddLinked
<1> HIDE DEF a
<1>15. a.size = m.size
  <2>1. \A x \in Pool!Block : a.size[x] = m.size[x]
    BY <1>3, <1>5, <1>6, <1>7, <1>13, <1>14
  <2>2. a.size = [x \in Pool!Block |-> a.size[x]] /\ m.size = [x \in Pool!Block |-> m.size[x]]
    BY <1>14 DEF Pool!BuddyInfo
  <2> QED BY <2>1, <2>2
<1>16. a.allocated = m.allocated /\ a.free = m.free
  <2> DEFINE s == Pool!SIZE(row - 1)
  <2>1. Pool!SIZE(row) = 2 * s /\ s \in Nat
    <3>1. \A x, y \in Nat : (2 * x) * y = 2 * (x * y)
      OBVIOUS
    <3>2. BLOCK_SIZE \in Nat
      BY DEF Pool!SizesAssumption
    <3> QED BY <3>1, <3>2, <1>1, <1>2, SizeType DEF Pool!SIZE
  <2>2. m.allocated \in 0 .. SizeMod - 1 /\ m.free \in 0 .. SizeMod - 1 /\ SizeMod \in Nat
    BY DEF Pool!BuddyInfo, Pool!SizesAssumption
  <2> HIDE DEF s
  <2>3. a.allocated = (((((m.allocated + 2 * s) % SizeMod) - s) % SizeMod) - s) % SizeMod
        /\ a.free = (((((m.free - 2 * s) % SizeMod) + s) % SizeMod) + s) % SizeMod
    BY <2>1, <1>7, <1>11, <1>13, <1>14 DEF s
  <2>4. ASSUME NEW n \in Nat, n > 0, NEW x \in 0 .. n - 1, NEW y \in Nat
        PROVE  /\ (((((x + 2 * y) % n) - y) % n) - y) % n = x
               /\ (((((x - 2 * y) % n) + y) % n) + y) % n = x
    <3>0. n \in Nat \ {0}
      BY <2>4
    <3>1. \A u, v \in Int : ((u % n) + v) % n = (u + v) % n
      BY <3>0, Wraps
    <3> DEFINE A == (x + 2 * y) % n
               B == (x - 2 * y) % n
    <3>2. (A + (- y)) % n = ((x + 2 * y) + (- y)) % n /\ (B + y) % n = ((x - 2 * y) + y) % n
      BY <3>1
    <3>3. A \in Int /\ B \in Int /\ (x + y) % n \in Int /\ (x - y) % n \in Int
      BY <2>4
    <3> HIDE DEF A, B
    <3>4. (A - y) % n = (x + y) % n /\ (B + y) % n = (x - y) % n
      BY <3>2, <3>3
    <3>5. (((x + y) % n) + (- y)) % n = ((x + y) + (- y)) % n /\ (((x - y) % n) + y) % n = ((x - y) + y) % n
      BY <3>1
    <3>6. x % n = x
      BY <2>4
    <3> QED BY <3>3, <3>4, <3>5, <3>6 DEF A, B
  <2>5. SizeMod > 0
    BY <2>2
  <2> QED BY <2>2, <2>3, <2>4, <2>5, <2>1
<1>17. \A x \in used : x \in Pool!Block /\ x # b /\ x # c /\ a.level[x] = m.level[x]
  BY <1>3, <1>6, <1>12, <1>14
<1>18. Tiled(a, more \cup used)
  <2> DEFINE all == free \cup used
             new == more \cup used
  <2>1. new = all \cup {c} /\ b \in all /\ c \notin all /\ all \in SUBSET Pool!Block
    BY <1>3, <1>6 DEF Tiled
  <2>2. \A x \in all : x # b => x # c /\ Length(a, x) = Length(m, x)
    BY <2>1, <1>12, <1>14 DEF Length
  <2>3. Length(a, b) = p /\ Length(a, c) = p
    BY <1>3, <1>5, <1>12, <1>14 DEF Length
  <2>4. \A x \in all : x \in Nat /\ Length(m, x) \in Nat
    <3> TAKE x \in all
    <3>1. x \in Pool!Block /\ m.level[x] \in Pool!Level
      BY <2>1 DEF Pool!BuddyInfo
    <3> QED BY <3>1, <1>1, <1>2, PowerDef DEF Pool!Block, Pool!Level, Length
  <2>5. \A x \in new : \E q \in Nat : x = q * Length(a, x)
    <3>1. PICK q \in Nat : b = q * (2 * p)
      BY <1>4
    <3>2. b = (2 * q) * p /\ c = (2 * q + 1) * p /\ 2 * q \in Nat /\ 2 * q + 1 \in Nat
      BY <3>1, <1>2
    <3>3. \A x \in all : x # b => \E r \in Nat : x = r * Length(a, x)
      BY <2>2 DEF Tiled
    <3> QED BY <3>2, <3>3, <2>1, <2>3
  <2>6. \A x \in new : x + Length(a, x) <= Pool!Power[TOP]
    <3>1. \A x \in all : x # b => x + Length(a, x) <= Pool!Power[TOP]
      BY <2>2 DEF Tiled
    <3> QED BY <3>1, <2>1, <2>3, <1>2, <1>4
  <2>7. \A x, y \in new : x # y => x + Length(a, x) <= y \/ y + Length(a, y) <= x
    <3>1. \A x, y \in all : x # b /\ y # b /\ x # y => x + Length(a, x) <= y \/ y + Length(a, y) <= x
      BY <2>2 DEF Tiled
    <3>2. \A x \in all : x # b => x + Length(a, x) <= b \/ b + 2 * p <= x
      BY <2>1, <2>2, <1>4 DEF Tiled
    <3>3. \A x \in all : x # b => (x + Length(a, x) <= b \/ b + p <= x) /\ (x + Length(a, x) <= c \/ c + p <= x)
      BY <3>2, <2>2, <2>4, <1>2, <1>4
    <3>4. b + p <= c
      BY <1>2, <1>4
    <3> QED BY <3>1, <3>3, <3>4, <2>1, <2>3
  <2>8. \A x \in Pool!Block : \E y \in new : y <= x /\ x < y + Length(a, y)
    <3> TAKE x \in Pool!Block
    <3>1. PICK y \in all : y <= x /\ x < y + Length(m, y)
      BY DEF Tiled
    <3>2. CASE y # b
      BY <3>1, <3>2, <2>1, <2>2
    <3>3. CASE y = b
      <4>1. x \in Nat
        BY <1>2 DEF Pool!Block
      <4>2. (b <= x /\ x < b + p) \/ (c <= x /\ x < c + p)
        BY <3>1, <3>3, <4>1, <1>2, <1>4
      <4> QED BY <4>2, <2>1, <2>3
    <3> QED BY <3>2, <3>3
  <2>9. new \in SUBSET Pool!Block
    BY <2>1, <1>5
  <2> QED BY <2>5, <2>6, <2>7, <2>8, <2>9 DEF Tiled
<1>19. Pool!splitBlock(m, row) = a
  BY <1>10 DEF Pool!splitBlock, a, once, halves, half, out
<1>20. a.freeRow[row - 1] # NULL
  BY <1>14, <1>3
<1> HIDE DEF more
<1>21. \E f : Linked(a, f) /\ Tiled(a, f \cup used)
  BY <1>14, <1>18 
<1> QED BY <1>14, <1>15, <1>16, <1>17, <1>19, <1>20, <1>21

-----------------------------------------------------------------------------
(* What splitting and merging come to.                                     *)

\* What malloc may make of the rows before it takes a block: the same blocks in
\* use, the same counters, and the rest linked and tiled some other way.
SameUse(m) ==
  /\ m \in Pool!BuddyInfo
  /\ m.size = buddy.size
  /\ m.allocated = buddy.allocated /\ m.free = buddy.free
  /\ \A b \in Pool!InUse : m.level[b] = buddy.level[b]
  /\ \E free : Linked(m, free) /\ Tiled(m, free \cup Pool!InUse)

\* splitBlock does.
LEMMA SplitSameUse ==
  ASSUME Pool!NullAssumption, Pool!SizesAssumption, NEW m, SameUse(m), NEW row \in Pool!Level
  PROVE  SameUse(Pool!splitBlock(m, row)) /\
         (row # 0 /\ m.freeRow[row] # NULL => Pool!splitBlock(m, row).freeRow[row - 1] # NULL)
<1>1. CASE row = 0 \/ m.freeRow[row] = NULL
  <2>1. Pool!splitBlock(m, row) = m
    BY <1>1 DEF Pool!splitBlock
  <2> QED BY <2>1, <1>1
<1>2. CASE row # 0 /\ m.freeRow[row] # NULL
  <2>1. PICK free : Linked(m, free) /\ Tiled(m, free \cup Pool!InUse)
    BY DEF SameUse
  <2>2. Pool!InUse = {b \in Pool!Block : m.size[b] # 0} /\ m \in Pool!BuddyInfo
    BY DEF SameUse, Pool!InUse
  <2> DEFINE a == Pool!splitBlock(m, row)
  <2> HIDE DEF a
  <2>5. \A used : used = {x \in Pool!Block : m.size[x] # 0} /\ Tiled(m, free \cup used) =>
          /\ a \in Pool!BuddyInfo /\ a.size = m.size
          /\ a.allocated = m.allocated /\ a.free = m.free
          /\ \A x \in Pool!Block : x \in used => a.level[x] = m.level[x]
          /\ a.freeRow[row - 1] # NULL
          /\ \E more : Linked(a, more) /\ Tiled(a, more \cup used)
    BY <1>2, <2>1, <2>2, PoolSplits DEF a
  <2>3. /\ a \in Pool!BuddyInfo /\ a.size = m.size
        /\ a.allocated = m.allocated /\ a.free = m.free
        /\ \A x \in Pool!Block : x \in Pool!InUse => a.level[x] = m.level[x]
        /\ a.freeRow[row - 1] # NULL
        /\ \E more : Linked(a, more) /\ Tiled(a, more \cup Pool!InUse)
    BY <2>1, <2>2, <2>5
  <2> HIDE DEF a
  <2>4. SameUse(a)
    <3>1. Pool!InUse \in SUBSET Pool!Block
      BY DEF Pool!InUse
    <3> QED BY <2>3, <3>1 DEF SameUse
  <2> QED BY <2>3, <2>4 DEF a
<1> QED BY <1>1, <1>2

\* Splitting goes down from the lowest row with a block to the one that is asked
\* for, and leaves a block there.
LEMMA SplitDownKeeps ==
  ASSUME Pool!NullAssumption, Pool!SizesAssumption, SameUse(buddy),
         NEW level \in Pool!Level, Pool!Usable(level) # {}
  PROVE  SameUse(Pool!SplitDown(level)) /\ Pool!SplitDown(level).freeRow[level] # NULL
<1> DEFINE lowest == CHOOSE k \in Pool!Usable(level) : \A j \in Pool!Usable(level) : k <= j
           Is(f) == f = [k \in level .. lowest |->
                           IF k = lowest THEN buddy ELSE Pool!splitBlock(f[k + 1], k + 1)]
           after == CHOOSE f : Is(f)
           D == {m \in Pool!BuddyInfo : SameUse(m)}
           T == {t \in Nat \X D \X D :
                   lowest - t[1] >= 1 => t[3] = Pool!splitBlock(t[2], lowest - t[1])}
<1>1. TOP \in Nat /\ level \in Nat /\ level <= TOP /\ Pool!Usable(level) \in SUBSET Nat
  BY DEF Pool!SizesAssumption, Pool!Level, Pool!Usable
<1>2. lowest \in Pool!Usable(level)
  <2>1. \E k \in Pool!Usable(level) : \A j \in Pool!Usable(level) : k <= j
    BY <1>1, Smallest
  <2> QED BY <2>1
<1>3. lowest \in Nat /\ level <= lowest /\ lowest <= TOP /\ buddy.freeRow[lowest] # NULL
  BY <1>1, <1>2 DEF Pool!Usable
<1> HIDE DEF lowest
<1>4. \A k \in level .. lowest : k \in Pool!Level
  BY <1>1, <1>3 DEF Pool!Level
<1>5. \A m \in D, k \in Pool!Level : Pool!splitBlock(m, k) \in D
  <2> TAKE m \in D, k \in Pool!Level
  <2>1. SameUse(Pool!splitBlock(m, k))
    BY SplitSameUse
  <2> QED BY <2>1 DEF SameUse
<1>6. buddy \in D
  BY DEF SameUse
<1>7. \A n \in Nat : \A x \in D : \E y \in D : <<n, x, y>> \in T
  <2> TAKE n \in Nat
  <2> TAKE x \in D
  <2> HIDE DEF D
  <2>1. CASE lowest - n >= 1
    <3>1. lowest - n \in Pool!Level
      BY <2>1, <1>1, <1>3 DEF Pool!Level
    <3>2. Pool!splitBlock(x, lowest - n) \in D
      BY <3>1, <1>5
    <3>3. <<n, x, Pool!splitBlock(x, lowest - n)>> \in T
      BY <3>2
    <3> HIDE DEF T
    <3> QED BY <3>2, <3>3
  <2>2. CASE ~ (lowest - n >= 1)
    <3>1. <<n, x, x>> \in T
      BY <2>2
    <3> HIDE DEF T
    <3> QED BY <3>1
  <2> QED BY <2>1, <2>2
<1>8. PICK f \in [Nat -> D] : f[0] = buddy /\ \A n \in Nat : <<n, f[n], f[n + 1]>> \in T
  <2> HIDE DEF D, T
  <2> QED BY <1>6, <1>7, Recursion
<1> HIDE DEF D
<1> DEFINE g == [k \in level .. lowest |-> f[lowest - k]]
<1>9. Is(g)
  <2>1. ASSUME NEW k \in level .. lowest
        PROVE  g[k] = IF k = lowest THEN buddy ELSE Pool!splitBlock(g[k + 1], k + 1)
    <3>1. CASE k = lowest
      BY <3>1, <1>3, <1>8
    <3>2. CASE k # lowest
      <4> DEFINE n == lowest - (k + 1)
      <4>1. k \in Nat /\ n \in Nat /\ n + 1 = lowest - k /\ lowest - n = k + 1
            /\ k + 1 \in level .. lowest
        BY <3>2, <1>1, <1>3
      <4>2. <<n, f[n], f[n + 1]>> \in T
        BY <4>1, <1>8
      <4> HIDE DEF n
      <4>3. f[n + 1] = Pool!splitBlock(f[n], k + 1)
        BY <4>1, <4>2
      <4>4. g[k] = f[n + 1] /\ g[k + 1] = f[n]
        BY <4>1 DEF n
      <4> QED BY <4>3, <4>4, <3>2
    <3> QED BY <3>1, <3>2
  <2> HIDE DEF T
  <2>2. DOMAIN g = level .. lowest
    OBVIOUS
  <2>3. g = [k \in level .. lowest |-> g[k]]
    OBVIOUS
  <2> HIDE DEF g
  <2> QED BY <2>1, <2>3
<1>10. Is(after)
  <2> HIDE DEF Is
  <2> QED BY <1>9
<1>11. Pool!SplitDown(level) = after[level]
  BY DEF Pool!SplitDown, after, lowest
<1> HIDE DEF after
<1> DEFINE S == {n \in Nat : n <= lowest - level =>
                   SameUse(after[lowest - n]) /\ after[lowest - n].freeRow[lowest - n] # NULL}
<1>12. 0 \in S
  <2>1. lowest - 0 = lowest /\ lowest \in level .. lowest
    BY <1>1, <1>3
  <2>2. after[lowest] = buddy
    BY <2>1, <1>10
  <2> QED BY <2>1, <2>2, <1>3
<1>13. ASSUME NEW n \in Nat, n \in S PROVE n + 1 \in S
  <2> SUFFICES ASSUME n + 1 <= lowest - level
               PROVE  SameUse(after[lowest - (n + 1)])
                      /\ after[lowest - (n + 1)].freeRow[lowest - (n + 1)] # NULL
    OBVIOUS
  <2> DEFINE k == lowest - n
  <2>1. k \in Nat /\ k - 1 \in level .. lowest /\ k - 1 # lowest /\ (k - 1) + 1 = k
        /\ k \in level .. lowest /\ k # 0 /\ lowest - (n + 1) = k - 1 /\ n <= lowest - level
    BY <1>1, <1>3
  <2>2. SameUse(after[k]) /\ after[k].freeRow[k] # NULL
    BY <1>13, <2>1
  <2> HIDE DEF k
  <2>3. after[k - 1] = Pool!splitBlock(after[k], k)
    BY <1>10, <2>1
  <2>4. k \in Pool!Level
    BY <2>1, <1>4
  <2>5. SameUse(after[k - 1]) /\ after[k - 1].freeRow[k - 1] # NULL
    BY <2>1, <2>2, <2>3, <2>4, SplitSameUse
  <2> QED BY <2>1, <2>5
<1>14. Nat \subseteq S
  <2> HIDE DEF S
  <2> QED BY <1>12, <1>13, Induct
<1>15. lowest - level \in S /\ lowest - level \in Nat /\ lowest - (lowest - level) = level
  BY <1>14, <1>1, <1>3
<1>16. SameUse(after[level]) /\ after[level].freeRow[level] # NULL
  BY <1>15
<1> QED BY <1>11, <1>16

\* free puts the block into its row and stops there: addBlock marks it as free
\* before mergeBuddy asks whether it is in use.
LEMMA NothingMerged ==
  ASSUME Pool!SizesAssumption, NEW m, NEW b, m.size[b] = 0
  PROVE  Pool!mergeBuddy(m, b) = m
<1> DEFINE Is(f) == f = [k \in Pool!Level |->
                           IF k = 0 THEN <<m, b>> ELSE Pool!mergeOnce(f[k - 1][1], f[k - 1][2])]
           merged == CHOOSE f : Is(f)
<1>1. TOP \in Nat
  BY DEF Pool!SizesAssumption
<1>2. Pool!mergeOnce(m, b) = <<m, b>>
  BY DEF Pool!mergeOnce
<1>3. \A k \in Pool!Level : k # 0 => k - 1 \in Pool!Level
  BY <1>1 DEF Pool!Level
<1>4. Is([k \in Pool!Level |-> <<m, b>>])
  BY <1>2, <1>3
<1>5. Is(merged)
  <2> HIDE DEF Is
  <2> QED BY <1>4
<1>6. Pool!mergeBuddy(m, b) = merged[TOP][1]
  BY DEF Pool!mergeBuddy, merged
<1> HIDE DEF merged
<1> DEFINE S == {n \in Nat : n \in Pool!Level => merged[n] = <<m, b>>}
<1>7. 0 \in S
  BY <1>5
<1>8. ASSUME NEW n \in Nat, n \in S PROVE n + 1 \in S
  <2> SUFFICES ASSUME n + 1 \in Pool!Level PROVE merged[n + 1] = <<m, b>>
    OBVIOUS
  <2>1. n \in Pool!Level /\ (n + 1) - 1 = n /\ n + 1 # 0
    BY <1>1 DEF Pool!Level
  <2>2. merged[n] = <<m, b>>
    BY <1>8, <2>1
  <2>3. merged[n + 1] = Pool!mergeOnce(merged[n][1], merged[n][2])
    BY <1>5, <2>1
  <2> QED BY <2>2, <2>3, <1>2
<1>9. Nat \subseteq S
  <2> HIDE DEF S
  <2> QED BY <1>7, <1>8, Induct
<1>10. merged[TOP] = <<m, b>>
  BY <1>1, <1>9 DEF Pool!Level
<1> QED BY <1>6, <1>10

\* A row is what is linked into it.
LEMMA RowIsLinked ==
  ASSUME Pool!NullAssumption, Pool!TypeOK, NEW free, Linked(buddy, free), NEW k \in Pool!Level
  PROVE  Pool!Row(k) = {b \in free : buddy.level[b] = k}
<1> DEFINE own == {b \in free : buddy.level[b] = k}
<1>1. free \in SUBSET Pool!Block /\ NULL \notin Pool!Block
  BY DEF Linked, Pool!NullAssumption, Pool!Block
<1>2. own \in SUBSET Pool!Block /\ Pool!Closed(own, k)
  <2>1. buddy.freeRow[k] \in own \cup {NULL}
    BY DEF Linked
  <2>2. \A b \in own : buddy.next[b] \in own \cup {NULL}
    BY DEF Linked
  <2> QED BY <1>1, <2>1, <2>2 DEF Pool!Closed
<1>3. Pool!Row(k) \subseteq own
  <2> HIDE DEF own
  <2> QED BY <1>2 DEF Pool!Row
<1>4. ASSUME NEW b \in own, NEW part \in SUBSET Pool!Block, Pool!Closed(part, k) PROVE b \in part
  <2> SUFFICES ASSUME own \ part # {} PROVE FALSE
    OBVIOUS
  <2>1. PICK c \in own \ part : buddy.prev[c] \notin own \ part
    <3>1. own \ part \in SUBSET free
      OBVIOUS
    <3> HIDE DEF own
    <3> QED BY <3>1 DEF Linked
  <2>2. c \in free /\ buddy.level[c] = k /\ c # NULL
    BY <1>1
  <2>3. CASE buddy.prev[c] = NULL
    <3>1. buddy.freeRow[k] = c
      BY <2>2, <2>3 DEF Linked
    <3> QED BY <3>1, <2>1, <2>2, <1>4 DEF Pool!Closed
  <2>4. CASE buddy.prev[c] # NULL
    <3>1. buddy.prev[c] \in free /\ buddy.level[buddy.prev[c]] = k /\ buddy.next[buddy.prev[c]] = c
      BY <2>2, <2>4 DEF Linked
    <3>2. buddy.prev[c] \in part
      BY <3>1, <2>1
    <3> QED BY <3>1, <3>2, <2>1, <2>2, <1>4 DEF Pool!Closed
  <2> QED BY <2>3, <2>4
<1>5. own \subseteq Pool!Row(k)
  <2>1. \A b \in own : b \in Pool!Block /\ \A part \in SUBSET Pool!Block : Pool!Closed(part, k) => b \in part
    BY <1>1, <1>4
  <2> HIDE DEF own
  <2> QED BY <2>1 DEF Pool!Row
<1> QED BY <1>3, <1>5

\* The rows together are what is linked.
LEMMA RowsAreLinked ==
  ASSUME Pool!NullAssumption, Pool!TypeOK, NEW free, Linked(buddy, free)
  PROVE  Pool!Rows = free
<1>1. \A k \in Pool!Level : Pool!Row(k) = {b \in free : buddy.level[b] = k}
  BY RowIsLinked
<1>2. \A b \in free : buddy.level[b] \in Pool!Level
  BY DEF Linked, Pool!TypeOK, Pool!BuddyInfo
<1> QED BY <1>1, <1>2 DEF Pool!Rows

-----------------------------------------------------------------------------
(* Entries, bytes and levels.                                              *)

\* The entries of the blocks of a set.
Entries(m, all) == UNION {b .. b + Length(m, b) - 1 : b \in all}

\* A block more is as many entries more as it is long.
LEMMA EntriesGrow ==
  ASSUME Pool!NullAssumption, Pool!SizesAssumption, NEW m \in Pool!BuddyInfo, NEW all, Tiled(m, all),
         NEW some \in SUBSET all, NEW b \in all \ some
  PROVE  /\ Cardinality(Entries(m, some)) \in Nat
         /\ Cardinality(Entries(m, some \cup {b})) = Cardinality(Entries(m, some)) + Length(m, b)
         /\ Cardinality(Entries(m, some \cup {b})) <= Pool!Power[TOP]
<1> DEFINE own == b .. b + Length(m, b) - 1
           rest == Entries(m, some)
<1>1. TOP \in Nat /\ Pool!Power[TOP] \in Nat
  BY PowerDef DEF Pool!SizesAssumption
<1>2. \A x \in all : x \in Nat /\ Length(m, x) \in Nat /\ Length(m, x) >= 1
  <2> TAKE x \in all
  <2>1. x \in Pool!Block /\ m.level[x] \in Pool!Level
    BY DEF Pool!BuddyInfo, Tiled
  <2>2. x \in Nat /\ m.level[x] \in Nat
    BY <2>1, <1>1 DEF Pool!Block, Pool!Level
  <2> QED BY <2>2, PowerDef DEF Length
<1>3. own \in SUBSET Pool!Block /\ rest \in SUBSET Pool!Block
  <2>1. \A x \in all : x .. x + Length(m, x) - 1 \in SUBSET Pool!Block
    <3> TAKE x \in all
    <3>1. x + Length(m, x) <= Pool!Power[TOP]
      BY DEF Tiled
    <3> QED BY <3>1, <1>1, <1>2 DEF Pool!Block
  <2> QED BY <2>1 DEF Entries
<1>4. IsFiniteSet(Pool!Block) /\ Cardinality(Pool!Block) = Pool!Power[TOP]
  <2> DEFINE e == Pool!Power[TOP] - 1
  <2>1. 0 \in Int /\ e \in Int /\ 0 <= e /\ e - 0 + 1 = Pool!Power[TOP]
    BY <1>1, PowerDef DEF Pool!SizesAssumption
  <2>2. Pool!Block = 0 .. e
    BY DEF Pool!Block
  <2> HIDE DEF e
  <2>3. IsFiniteSet(0 .. e) /\ Cardinality(0 .. e) = IF 0 > e THEN 0 ELSE e - 0 + 1
    BY ONLY <2>1, FS_Interval
  <2> QED BY <2>1, <2>2, <2>3
<1>5. IsFiniteSet(own) /\ IsFiniteSet(rest)
  BY <1>3, <1>4, FS_Subset
<1>6. Cardinality(own) = Length(m, b)
  <2> DEFINE e == b + Length(m, b) - 1
  <2>1. b \in Int /\ e \in Int /\ b <= e /\ e - b + 1 = Length(m, b)
    BY <1>2
  <2> HIDE DEF e
  <2>2. Cardinality(b .. e) = IF b > e THEN 0 ELSE e - b + 1
    BY <2>1, FS_Interval
  <2> QED BY <2>1, <2>2 DEF e
<1>7. own \cap rest = {}
  <2> SUFFICES ASSUME NEW c \in some, NEW x \in own, x \in c .. c + Length(m, c) - 1 PROVE FALSE
    BY DEF Entries
  <2>1. b + Length(m, b) <= c \/ c + Length(m, c) <= b
    BY DEF Tiled
  <2> QED BY <2>1, <1>2
<1>8. Entries(m, some \cup {b}) = rest \cup own
  BY DEF Entries
<1> HIDE DEF own, rest
<1>9. Cardinality(rest \cup own) = Cardinality(rest) + Cardinality(own) - Cardinality(rest \cap own)
      /\ Cardinality(rest) \in Nat /\ Cardinality(rest \cap own) = 0
  <2>1. rest \cap own = {} /\ Cardinality({}) = 0
    BY <1>7, FS_EmptySet
  <2> QED BY <2>1, <1>5, FS_Union, FS_CardinalityType
<1>10. Cardinality(rest \cup own) <= Pool!Power[TOP]
  BY <1>3, <1>4, FS_Subset
<1>11. Length(m, b) \in Nat
  BY <1>2
<1>12. Cardinality(rest \cup own) = Cardinality(rest) + Length(m, b)
  BY <1>6, <1>9, <1>11
<1> QED BY <1>8, <1>9, <1>10, <1>12 DEF rest

-----------------------------------------------------------------------------
(* The inductive invariant.                                                *)

\* Programs hold the first bytes of the blocks in use, and asked for no more
\* than a block has.
Held ==
  /\ DOMAIN poolHeld = {b * BLOCK_SIZE : b \in Pool!InUse}
  /\ \A b \in Pool!InUse : poolHeld[b * BLOCK_SIZE] <= Pool!SIZE(buddy.level[b])

\* The free blocks are linked, and tile the pool with those in use.
Pooled == \E free : Linked(buddy, free) /\ Tiled(buddy, free \cup Pool!InUse)

\* The counters are those of the entries in use.
Counted ==
  /\ buddy.allocated = Cardinality(Entries(buddy, Pool!InUse)) * BLOCK_SIZE
  /\ (buddy.allocated + buddy.free) % SizeMod = Pool!total

PoolInv == Pool!TypeOK /\ Pooled /\ Held /\ Counted

\* Blocks lie apart, and so do the bytes of blocks.
LEMMA BytesApart ==
  ASSUME Pool!SizesAssumption, NEW a \in Nat, NEW b \in Nat
  PROVE  /\ a * BLOCK_SIZE \in Nat
         /\ a <= b => a * BLOCK_SIZE <= b * BLOCK_SIZE
         /\ a * BLOCK_SIZE = b * BLOCK_SIZE => a = b
         /\ (a + b) * BLOCK_SIZE = a * BLOCK_SIZE + b * BLOCK_SIZE
         /\ (a * BLOCK_SIZE) \div BLOCK_SIZE = a
         /\ (a * BLOCK_SIZE) % BLOCK_SIZE = 0
<1> DEFINE s == BLOCK_SIZE
<1>1. s \in Nat /\ s >= 1
  BY DEF Pool!SizesAssumption
<1> HIDE DEF s
<1>2. a * s \in Nat /\ (a + b) * s = a * s + b * s
  BY <1>1
<1>3. a <= b => a * s <= b * s
  BY <1>1
<1>4. (a * s) \div s = a /\ (a * s) % s = 0
  BY <1>1
<1>5. (b * s) \div s = b
  BY <1>1
<1>6. a * s = b * s => a = b
  BY <1>4, <1>5
<1> QED BY <1>2, <1>3, <1>4, <1>6 DEF s

\* Where what is handed out of a block begins, it is found again.
LEMMA OffsetIs ==
  ASSUME Pool!SizesAssumption, NEW offset \in 0 .. Pool!SIZE(TOP) - 1, offset % BLOCK_SIZE = 0
  PROVE  offset \div BLOCK_SIZE \in Pool!Block /\ offset = (offset \div BLOCK_SIZE) * BLOCK_SIZE
<1> DEFINE s == BLOCK_SIZE
           b == offset \div s
<1>1. s \in Nat /\ s >= 1 /\ TOP \in Nat
  BY DEF Pool!SizesAssumption
<1>2. Pool!Power[TOP] \in Nat /\ Pool!SIZE(TOP) \in Nat
  BY <1>1, PowerDef, SizeType
<1>3. offset \in Nat /\ offset < Pool!Power[TOP] * s
  BY <1>2 DEF Pool!SIZE
<1>4. b \in Nat /\ offset = b * s + (offset % s)
  BY <1>1, <1>3
<1>5. offset = b * s
  BY <1>4, <1>1
<1> HIDE DEF b
<1>6. b < Pool!Power[TOP]
  <2> SUFFICES ASSUME Pool!Power[TOP] <= b PROVE FALSE
    BY <1>2, <1>4
  <2>1. Pool!Power[TOP] * s <= b * s
    BY <1>1, <1>2, <1>4, BytesApart
  <2>2. Pool!Power[TOP] * s \in Nat /\ b * s \in Nat
    BY <1>2, <1>4, BytesApart
  <2> QED BY <2>1, <2>2, <1>3, <1>5
<1>7. b \in Pool!Block
  BY <1>2, <1>4, <1>6 DEF Pool!Block
<1> QED BY <1>5, <1>7 DEF b

\* The row that malloc looks for has blocks that are long enough.
LEMMA LevelEnough ==
  ASSUME Pool!SizesAssumption, NEW n \in Nat
  PROVE  Pool!LevelFor(n) \in Nat /\ n <= Pool!SIZE(Pool!LevelFor(n))
<1> DEFINE s == BLOCK_SIZE
           q == n \div s
           k == Pool!log2(q)
<1>1. s \in Nat /\ s >= 1
  BY DEF Pool!SizesAssumption
<1>2. q \in Nat /\ n < (q + 1) * s
  <2>1. q \in Nat /\ n = q * s + (n % s) /\ n % s \in 0 .. s - 1
    BY <1>1
  <2>2. (q + 1) * s = q * s + s /\ q * s \in Nat
    BY <1>1, <2>1
  <2> QED BY <2>1, <2>2, <1>1
<1> HIDE DEF q
<1>3. k \in Nat /\ q < Pool!Power[k + 1]
  BY <1>2, Log2Def
<1> HIDE DEF k
<1>4. k + 1 \in Nat /\ Pool!Power[k + 1] \in Nat /\ Pool!SIZE(k) \in Nat /\ Pool!SIZE(k + 1) \in Nat
  BY <1>3, PowerDef, SizeType
<1>5. (q + 1) * s <= Pool!Power[k + 1] * s
  <2>1. q + 1 \in Nat /\ q + 1 <= Pool!Power[k + 1]
    BY <1>2, <1>3, <1>4
  <2> QED BY ONLY <2>1, <1>4, BytesApart, Pool!SizesAssumption
<1>6. n <= Pool!SIZE(k + 1)
  <2>1. (q + 1) * s \in Nat
    BY <1>1, <1>2
  <2> QED BY <2>1, <1>2, <1>4, <1>5 DEF Pool!SIZE
<1>7. Pool!LevelFor(n) = IF Pool!SIZE(k) < n THEN k + 1 ELSE k
  BY DEF Pool!LevelFor, k, q
<1> QED BY <1>3, <1>4, <1>6, <1>7

-----------------------------------------------------------------------------
(* malloc keeps the invariant.                                             *)

\* What goes from one counter to the other leaves their sum as it is.
LEMMA SumKept ==
  ASSUME NEW n \in Nat \ {0}, NEW a \in Int, NEW f \in Int, NEW s \in Int
  PROVE  /\ (((a + s) % n) + ((f - s) % n)) % n = (a + f) % n
         /\ (((a - s) % n) + ((f + s) % n)) % n = (a + f) % n
<1>1. ASSUME NEW u \in Int, NEW v \in Int PROVE ((u % n) + (v % n)) % n = (u + v) % n
  <2>1. u % n \in Int /\ v % n \in Int
    OBVIOUS
  <2>2. ((u % n) + (v % n)) % n = (u + (v % n)) % n
    BY ONLY <2>1, Wraps, n \in Nat \ {0}, u \in Int
  <2>3. ((v % n) + u) % n = (v + u) % n
    BY Wraps
  <2> DEFINE w == v % n
  <2>4. u + w = w + u /\ v + u = u + v
    BY <2>1
  <2> HIDE DEF w
  <2> QED BY <2>2, <2>3, <2>4 DEF w
<1>2. /\ a + s \in Int /\ f - s \in Int /\ (a + s) + (f - s) = a + f
      /\ a - s \in Int /\ f + s \in Int /\ (a - s) + (f + s) = a + f
  OBVIOUS
<1>3. \A u, v \in Int : ((u % n) + (v % n)) % n = (u + v) % n
  BY <1>1
<1>4. ASSUME NEW p \in Int, NEW q \in Int, p + q = a + f
      PROVE  ((p % n) + (q % n)) % n = (a + f) % n
  <2>1. ((p % n) + (q % n)) % n = (p + q) % n
    BY <1>3
  <2> QED BY <2>1, <1>4, Zenon
<1>5. (((a + s) % n) + ((f - s) % n)) % n = (a + f) % n
  BY ONLY <1>2, <1>4, Zenon
<1>6. (((a - s) % n) + ((f + s) % n)) % n = (a + f) % n
  BY ONLY <1>2, <1>4, Zenon
<1> QED BY <1>5, <1>6

\* In a system without memory handed out the pool is one block.
LEMMA PoolInvInit ==
  ASSUME Pool!NullAssumption, Pool!SizesAssumption, Pool!Init
  PROVE  PoolInv
<1>1. TOP \in Nat /\ TOP # 0 /\ TOP \in Pool!Level /\ 0 \in Pool!Level /\ SizeMod \in Nat
  BY DEF Pool!SizesAssumption, Pool!Level
<1>2. Pool!Power[TOP] \in Nat /\ Pool!Power[TOP] >= 1
  BY <1>1, PowerDef
<1>3. 0 \in Pool!Block /\ NULL \notin Pool!Block
  BY <1>2 DEF Pool!Block, Pool!NullAssumption
<1>4. /\ buddy.size = [b \in Pool!Block |-> 0]
      /\ buddy.level = [b \in Pool!Block |-> IF b = 0 THEN TOP ELSE 0]
      /\ buddy.next = [b \in Pool!Block |-> NULL]
      /\ buddy.prev = [b \in Pool!Block |-> NULL]
      /\ buddy.freeRow = [k \in Pool!Level |-> IF k = TOP THEN 0 ELSE NULL]
      /\ buddy.allocated = 0 /\ buddy.free = Pool!total
      /\ poolHeld = [a \in {} |-> 0] /\ lost = FALSE
  BY DEF Pool!Init
<1>5. Pool!total \in 0 .. SizeMod - 1
  <2>1. Pool!SIZE(TOP) - INFO \in Int /\ SizeMod > 0
    <3>1. BLOCK_SIZE * Pool!Power[TOP] \in Nat /\ BLOCK_SIZE * Pool!Power[TOP] < SizeMod
      BY <1>2 DEF Pool!SizesAssumption
    <3> QED BY <3>1, <1>1, SizeType DEF Pool!SizesAssumption
  <2>2. \A i \in Int : i % SizeMod \in 0 .. SizeMod - 1
    BY <2>1, <1>1
  <2> QED BY <2>1, <2>2 DEF Pool!total
<1>6. Pool!TypeOK
  <2>1. 0 \in 0 .. SizeMod - 1
    BY <1>5, <1>1
  <2>2. buddy \in Pool!BuddyInfo
    BY <1>1, <1>3, <1>4, <1>5, <2>1 DEF Pool!BuddyInfo, Pool!Init
  <2>3. poolHeld \in [DOMAIN poolHeld -> PoolRequests]
    BY <1>4
  <2> QED BY <2>2, <2>3, <1>4 DEF Pool!TypeOK
<1>7. Pool!InUse = {}
  <2>1. \A b \in Pool!Block : buddy.size[b] = 0
    BY <1>4
  <2> QED BY <2>1, Zenon DEF Pool!InUse
<1>8. Linked(buddy, {0})
  <2>1. /\ buddy.size[0] = 0 /\ buddy.level[0] = TOP /\ buddy.freeRow[TOP] = 0
        /\ buddy.prev[0] = NULL /\ buddy.next[0] = NULL
    BY <1>1, <1>3, <1>4
  <2>2. \A k \in Pool!Level : buddy.freeRow[k] # NULL => buddy.freeRow[k] = 0 /\ k = TOP
    BY <1>4
  <2>3. \A part \in SUBSET {0} : part # {} => \E b \in part : buddy.prev[b] \notin part
    BY <2>1, <1>3
  <2>4. {0} \in SUBSET Pool!Block
    BY <1>3
  <2> QED BY <2>1, <2>2, <2>3, <2>4 DEF Linked
<1>9. Tiled(buddy, {0})
  <2>1. Length(buddy, 0) = Pool!Power[TOP]
    BY <1>3, <1>4 DEF Length
  <2>2. 0 = 0 * Pool!Power[TOP]
    BY <1>2
  <2>3. \A x \in Pool!Block : 0 <= x /\ x < 0 + Pool!Power[TOP]
    BY <1>2 DEF Pool!Block
  <2> QED BY <2>1, <2>2, <2>3, <1>2, <1>3 DEF Tiled
<1>10. Pooled
  <2>1. {0} \cup Pool!InUse = {0}
    BY <1>7
  <2> QED BY <2>1, <1>8, <1>9 DEF Pooled
<1>11. Held
  BY <1>4, <1>7 DEF Held
<1>12. Counted
  <2>1. Entries(buddy, Pool!InUse) = {} /\ Cardinality({}) = 0
    BY <1>7, FS_EmptySet DEF Entries
  <2>2. 0 * BLOCK_SIZE = 0
    BY DEF Pool!SizesAssumption
  <2>3. (0 + Pool!total) % SizeMod = Pool!total
    BY <1>1, <1>5
  <2> QED BY <2>1, <2>2, <2>3, <1>4 DEF Counted
<1> QED BY <1>6, <1>10, <1>11, <1>12 DEF PoolInv

\* malloc takes one of the blocks that splitting leaves, long enough for what is
\* asked for.
Takes(m, all, b, request) ==
  /\ SameUse(m)
  /\ Linked(m, all \ Pool!InUse) /\ Tiled(m, all) /\ Pool!InUse \subseteq all
  /\ b \in all \ Pool!InUse /\ b \in Pool!Block
  /\ request \in PoolRequests /\ request \in Nat /\ request <= Pool!SIZE(m.level[b])
  /\ buddy' = Pool!removeBlock(m, b)
  /\ poolHeld' = [a \in DOMAIN poolHeld \cup {b * BLOCK_SIZE} |->
                IF a = b * BLOCK_SIZE THEN request ELSE poolHeld[a]]
  /\ lost' = lost

\* malloc does so, from whatever row it starts.
LEMMA MallocTakes ==
  ASSUME Pool!NullAssumption, Pool!SizesAssumption, Pool!RequestsAssumption, PoolInv, Pool!Malloc
  PROVE  \E m, all, b, request : Takes(m, all, b, request)
<1>1. SameUse(buddy)
  BY DEF PoolInv, Pool!TypeOK, Pooled, SameUse
<1>2. PICK request \in PoolRequests :
        LET level == Pool!LevelFor(request)
            m == Pool!SplitDown(level)
            b == m.freeRow[level]
        IN  /\ level <= TOP /\ Pool!Usable(level) # {}
            /\ buddy' = Pool!removeBlock(m, b)
            /\ poolHeld' = [a \in DOMAIN poolHeld \cup {b * BLOCK_SIZE} |->
                          IF a = b * BLOCK_SIZE THEN request ELSE poolHeld[a]]
            /\ UNCHANGED lost
  BY DEF Pool!Malloc
<1> DEFINE level == Pool!LevelFor(request)
           m == Pool!SplitDown(level)
           b == m.freeRow[level]
<1>3. request \in Nat /\ level \in Nat /\ request <= Pool!SIZE(level)
  BY LevelEnough DEF Pool!RequestsAssumption
<1>4. level \in Pool!Level
  BY <1>2, <1>3 DEF Pool!Level, Pool!SizesAssumption
<1>5. SameUse(m) /\ b # NULL
  BY <1>1, <1>2, <1>4, SplitDownKeeps
<1>6. /\ buddy' = Pool!removeBlock(m, b)
      /\ poolHeld' = [a \in DOMAIN poolHeld \cup {b * BLOCK_SIZE} |->
                    IF a = b * BLOCK_SIZE THEN request ELSE poolHeld[a]]
      /\ lost' = lost
  BY <1>2
<1> HIDE DEF m
<1>7. PICK free : Linked(m, free) /\ Tiled(m, free \cup Pool!InUse)
  BY <1>5 DEF SameUse
<1>8. b \in free /\ m.level[b] = level /\ b \in Pool!Block
  BY <1>4, <1>5, <1>7 DEF Linked
<1>9. free \cap Pool!InUse = {}
  BY <1>5, <1>7 DEF Linked, SameUse, Pool!InUse
<1>10. (free \cup Pool!InUse) \ Pool!InUse = free
  BY <1>9
<1>11. Takes(m, free \cup Pool!InUse, b, request)
  BY <1>3, <1>5, <1>6, <1>7, <1>8, <1>9, <1>10 DEF Takes
<1> QED BY <1>11

\* The bytes of a block begin nowhere else.
LEMMA BytesDiffer ==
  ASSUME Pool!SizesAssumption, NEW b \in Pool!Block, NEW c \in Pool!Block, b * BLOCK_SIZE = c * BLOCK_SIZE
  PROVE  b = c
<1>1. TOP \in Nat
  BY DEF Pool!SizesAssumption
<1>2. b \in Nat /\ c \in Nat
  BY <1>1, PowerDef DEF Pool!Block
<1> QED BY <1>2, BytesApart

\* The block leaves the free ones for those in use: pool, held and counters
\* are as the invariant says.
LEMMA PoolMallocKeeps ==
  ASSUME Pool!NullAssumption, Pool!SizesAssumption, Pool!RequestsAssumption, PoolInv,
         NEW m, NEW all, NEW b, NEW request, Takes(m, all, b, request)
  PROVE  PoolInv'
<1> DEFINE k == m.level[b]
           s == Pool!SIZE(k)
<1>1. /\ m \in Pool!BuddyInfo /\ m.size = buddy.size /\ m.allocated = buddy.allocated
      /\ m.free = buddy.free /\ \A x \in Pool!InUse : m.level[x] = buddy.level[x]
  BY DEF Takes, SameUse
<1>2. /\ b \in Pool!Block /\ b \in all /\ b \notin Pool!InUse
      /\ Pool!InUse \subseteq all /\ Pool!InUse \in SUBSET Pool!Block
  BY DEF Takes, Pool!InUse
<1>3. /\ buddy' \in Pool!BuddyInfo /\ k \in Pool!Level /\ buddy'.level = m.level
      /\ \A x \in Pool!Block : buddy'.size[x] = IF x = b THEN s ELSE buddy.size[x]
      /\ buddy'.allocated = (buddy.allocated + s) % SizeMod
      /\ buddy'.free = (buddy.free - s) % SizeMod
  <2>1. buddy' = Pool!removeBlock(m, b)
    BY DEF Takes
  <2> QED BY <2>1, <1>1, <1>2, RemoveFields
<1>4. TOP \in Nat /\ k \in Nat /\ s \in Nat /\ s >= 1 /\ SizeMod \in Nat
      /\ BLOCK_SIZE \in Nat /\ BLOCK_SIZE >= 1
  <2>1. TOP \in Nat /\ SizeMod \in Nat /\ BLOCK_SIZE \in Nat /\ BLOCK_SIZE >= 1
    BY DEF Pool!SizesAssumption
  <2>2. k \in Nat
    BY <2>1, <1>3 DEF Pool!Level
  <2> QED BY <2>1, <2>2, SizeType
<1>5. Pool!InUse' = Pool!InUse \cup {b}
  BY <1>2, <1>3, <1>4 DEF Pool!InUse
<1>6. Pooled'
  <2>1. Linked(buddy', (all \ Pool!InUse) \ {b})
    BY <1>1, <1>2, RemoveLinked DEF Takes
  <2>2. Tiled(buddy', all)
    BY <1>3 DEF Takes, Tiled, Length
  <2>3. ((all \ Pool!InUse) \ {b}) \cup Pool!InUse' = all
    BY <1>2, <1>5
  <2> QED BY <2>1, <2>2, <2>3 DEF Pooled
<1>7. poolHeld' = [a \in DOMAIN poolHeld \cup {b * BLOCK_SIZE} |->
                 IF a = b * BLOCK_SIZE THEN request ELSE poolHeld[a]]
      /\ lost' = lost /\ request \in PoolRequests
  BY DEF Takes
<1>8. Pool!TypeOK'
  BY <1>3, <1>7 DEF Pool!TypeOK, PoolInv
<1>9. Held'
  <2>1. DOMAIN poolHeld' = {x * BLOCK_SIZE : x \in Pool!InUse'}
    BY <1>5, <1>7 DEF PoolInv, Held
  <2>2. ASSUME NEW x \in Pool!InUse' PROVE poolHeld'[x * BLOCK_SIZE] <= Pool!SIZE(buddy'.level[x])
    <3>1. CASE x = b
      BY <3>1, <1>3, <1>7 DEF Takes
    <3>2. CASE x # b
      <4>1. x \in Pool!InUse /\ x \in Pool!Block
        BY <3>2, <1>2, <1>5
      <4>2. x * BLOCK_SIZE # b * BLOCK_SIZE
        BY <4>1, <3>2, <1>2, BytesDiffer
      <4>3. x * BLOCK_SIZE \in DOMAIN poolHeld /\ poolHeld[x * BLOCK_SIZE] <= Pool!SIZE(buddy.level[x])
        BY <4>1 DEF PoolInv, Held
      <4> QED BY <4>1, <4>2, <4>3, <1>1, <1>3, <1>7
    <3> QED BY <3>1, <3>2
  <2> QED BY <2>1, <2>2 DEF Held
<1>10. Counted'
  <2> DEFINE n == Cardinality(Entries(buddy, Pool!InUse))
  <2>1. /\ buddy.allocated = n * BLOCK_SIZE
        /\ (buddy.allocated + buddy.free) % SizeMod = Pool!total
    BY DEF PoolInv, Counted
  <2>2. Entries(m, Pool!InUse) = Entries(buddy, Pool!InUse)
    BY <1>1 DEF Entries, Length
  <2>3. Entries(buddy', Pool!InUse') = Entries(m, Pool!InUse \cup {b})
    BY <1>3, <1>5 DEF Entries, Length
  <2>4. n \in Nat /\ Cardinality(Entries(m, Pool!InUse \cup {b})) = n + Length(m, b)
        /\ n + Length(m, b) <= Pool!Power[TOP]
    <3>1. Pool!InUse \in SUBSET all /\ b \in all \ Pool!InUse /\ Tiled(m, all)
      BY <1>2 DEF Takes
    <3> QED BY <3>1, <2>2, <1>1, EntriesGrow
  <2> HIDE DEF n
  <2>5. Length(m, b) \in Nat /\ s = Length(m, b) * BLOCK_SIZE
    BY <1>4, PowerDef DEF Length, Pool!SIZE
  <2>6. buddy.allocated + s = (n + Length(m, b)) * BLOCK_SIZE
    BY <2>1, <2>4, <2>5, BytesApart
  <2>7. buddy.allocated + s \in 0 .. SizeMod - 1
    <3>1. Pool!Power[TOP] \in Nat /\ n + Length(m, b) \in Nat
      BY <2>4, <2>5, <1>4, PowerDef
    <3>2. (n + Length(m, b)) * BLOCK_SIZE <= Pool!Power[TOP] * BLOCK_SIZE
          /\ (n + Length(m, b)) * BLOCK_SIZE \in Nat /\ Pool!Power[TOP] * BLOCK_SIZE \in Nat
      BY <3>1, <2>4, BytesApart
    <3>3. Pool!Power[TOP] * BLOCK_SIZE < SizeMod
      BY <3>1, <1>4 DEF Pool!SizesAssumption
    <3> QED BY <3>2, <3>3, <2>6, <1>4
  <2>8. buddy'.allocated = buddy.allocated + s
    BY <2>7, <1>3, <1>4
  <2>9. buddy.allocated \in Int /\ buddy.free \in Int /\ SizeMod \in Nat \ {0}
    BY <2>7, <1>4 DEF PoolInv, Pool!TypeOK, Pool!BuddyInfo
  <2>10. (buddy'.allocated + buddy'.free) % SizeMod = Pool!total
    <3>1. s \in Int
      BY <1>4
    <3> HIDE DEF s
    <3>2. (((buddy.allocated + s) % SizeMod) + ((buddy.free - s) % SizeMod)) % SizeMod
            = (buddy.allocated + buddy.free) % SizeMod
      BY <3>1, <2>9, SumKept
    <3> DEFINE u == (buddy.allocated + s) % SizeMod
               v == (buddy.free - s) % SizeMod
    <3>3. buddy'.allocated = u /\ buddy'.free = v
      BY <1>3
    <3>4. (u + v) % SizeMod = Pool!total
      BY <3>2, <2>1, Zenon
    <3> HIDE DEF u, v
    <3> QED BY <3>3, <3>4
  <2>11. buddy'.allocated = Cardinality(Entries(buddy', Pool!InUse')) * BLOCK_SIZE
    BY <2>3, <2>4, <2>6, <2>8
  <2>12. Pool!total' = Pool!total
    BY DEF Pool!total, Pool!SIZE
  <2> QED BY <2>10, <2>11, <2>12 DEF Counted
<1> QED BY <1>6, <1>8, <1>9, <1>10 DEF PoolInv

-----------------------------------------------------------------------------
(* free keeps it, and what follows from it.                                *)

\* What free gives back is one of the blocks in use.
LEMMA FreeGives ==
  ASSUME Pool!NullAssumption, Pool!SizesAssumption, PoolInv, Pool!Free
  PROVE  \E b \in Pool!InUse :
           /\ buddy' = Pool!addBlock(buddy, b)
           /\ poolHeld' = [a \in DOMAIN poolHeld \ {b * BLOCK_SIZE} |-> poolHeld[a]]
           /\ lost' = lost
<1>1. PICK offset \in 0 .. Pool!SIZE(TOP) - 1 :
        LET b == offset \div BLOCK_SIZE
        IN  /\ Pool!Freeable(offset)
            /\ buddy' = Pool!mergeBuddy(Pool!addBlock(buddy, b), b)
            /\ poolHeld' = [a \in DOMAIN poolHeld \ {offset} |-> poolHeld[a]]
            /\ UNCHANGED lost
  BY DEF Pool!Free
<1> DEFINE b == offset \div BLOCK_SIZE
<1>2. b \in Pool!Block /\ offset = b * BLOCK_SIZE /\ buddy.size[b] # 0
  BY <1>1, OffsetIs DEF Pool!Freeable
<1>3. /\ buddy' = Pool!mergeBuddy(Pool!addBlock(buddy, b), b)
      /\ poolHeld' = [a \in DOMAIN poolHeld \ {offset} |-> poolHeld[a]]
      /\ lost' = lost
  BY <1>1
<1> HIDE DEF b
<1>4. b \in Pool!InUse
  BY <1>2 DEF Pool!InUse
<1>5. Pool!addBlock(buddy, b).size[b] = 0
  BY <1>2, AddFields DEF PoolInv, Pool!TypeOK
<1>6. buddy' = Pool!addBlock(buddy, b)
  BY <1>3, <1>5, NothingMerged
<1> QED BY <1>2, <1>3, <1>4, <1>6

\* The block goes back to the free ones, and the counters with it.
LEMMA PoolFreeKeeps ==
  ASSUME Pool!NullAssumption, Pool!SizesAssumption, PoolInv,
         NEW b \in Pool!InUse, buddy' = Pool!addBlock(buddy, b),
         poolHeld' = [a \in DOMAIN poolHeld \ {b * BLOCK_SIZE} |-> poolHeld[a]], lost' = lost
  PROVE  PoolInv'
<1> DEFINE k == buddy.level[b]
           s == Pool!SIZE(k)
<1>1. buddy \in Pool!BuddyInfo /\ b \in Pool!Block /\ Pool!InUse \in SUBSET Pool!Block
  BY DEF PoolInv, Pool!TypeOK, Pool!InUse
<1>2. /\ buddy' \in Pool!BuddyInfo /\ k \in Pool!Level /\ buddy'.level = buddy.level
      /\ \A x \in Pool!Block : buddy'.size[x] = IF x = b THEN 0 ELSE buddy.size[x]
      /\ buddy'.allocated = (buddy.allocated - s) % SizeMod
      /\ buddy'.free = (buddy.free + s) % SizeMod
  BY <1>1, AddFields
<1>3. TOP \in Nat /\ k \in Nat /\ s \in Nat /\ SizeMod \in Nat
      /\ BLOCK_SIZE \in Nat /\ BLOCK_SIZE >= 1
  <2>1. TOP \in Nat /\ SizeMod \in Nat /\ BLOCK_SIZE \in Nat /\ BLOCK_SIZE >= 1
    BY DEF Pool!SizesAssumption
  <2>2. k \in Nat
    BY <2>1, <1>2 DEF Pool!Level
  <2> QED BY <2>1, <2>2, SizeType
<1>4. Pool!InUse' = Pool!InUse \ {b}
  BY <1>1, <1>2 DEF Pool!InUse
<1>5. PICK free : Linked(buddy, free) /\ Tiled(buddy, free \cup Pool!InUse)
  BY DEF PoolInv, Pooled
<1>6. b \notin free
  BY <1>5 DEF Pool!InUse, Linked
<1>7. Pooled'
  <2>1. Linked(buddy', free \cup {b})
    BY <1>1, <1>5, <1>6, AddLinked
  <2>2. Tiled(buddy', free \cup Pool!InUse)
    BY <1>2, <1>5 DEF Tiled, Length
  <2>3. (free \cup {b}) \cup Pool!InUse' = free \cup Pool!InUse
    BY <1>4
  <2> QED BY <2>1, <2>2, <2>3 DEF Pooled
<1>8. Pool!TypeOK'
  BY <1>2 DEF Pool!TypeOK, PoolInv
<1>9. Held'
  <2>1. DOMAIN poolHeld' = {x * BLOCK_SIZE : x \in Pool!InUse'}
    <3>1. \A x \in Pool!InUse : x # b => x * BLOCK_SIZE # b * BLOCK_SIZE
      BY <1>1, BytesDiffer
    <3>2. DOMAIN poolHeld' = DOMAIN poolHeld \ {b * BLOCK_SIZE} /\ DOMAIN poolHeld = {x * BLOCK_SIZE : x \in Pool!InUse}
      BY DEF PoolInv, Held
    <3> QED BY <3>1, <3>2, <1>4
  <2>2. ASSUME NEW x \in Pool!InUse' PROVE poolHeld'[x * BLOCK_SIZE] <= Pool!SIZE(buddy'.level[x])
    <3>1. x \in Pool!InUse /\ x * BLOCK_SIZE \in DOMAIN poolHeld'
      BY <2>1, <1>4
    <3>2. poolHeld[x * BLOCK_SIZE] <= Pool!SIZE(buddy.level[x])
      BY <3>1 DEF PoolInv, Held
    <3> QED BY <3>1, <3>2, <1>2
  <2> QED BY <2>1, <2>2 DEF Held
<1>10. Counted'
  <2> DEFINE rest == Pool!InUse \ {b}
             n == Cardinality(Entries(buddy, rest))
             c == Cardinality(Entries(buddy, Pool!InUse))
  <2>1. /\ buddy.allocated = c * BLOCK_SIZE
        /\ (buddy.allocated + buddy.free) % SizeMod = Pool!total
    BY DEF PoolInv, Counted
  <2>2. Entries(buddy', Pool!InUse') = Entries(buddy, rest)
    BY <1>2, <1>4 DEF Entries, Length
  <2>3. n \in Nat /\ c = n + Length(buddy, b)
    <3>1. rest \in SUBSET (free \cup Pool!InUse) /\ b \in (free \cup Pool!InUse) \ rest /\ rest \cup {b} = Pool!InUse
      OBVIOUS
    <3> HIDE DEF rest
    <3> QED BY <3>1, <1>1, <1>5, EntriesGrow
  <2> HIDE DEF n, c
  <2>4. Length(buddy, b) \in Nat /\ s = Length(buddy, b) * BLOCK_SIZE
    BY <1>3, PowerDef DEF Length, Pool!SIZE
  <2>5. buddy.allocated = n * BLOCK_SIZE + s /\ n * BLOCK_SIZE \in Nat
    BY <2>1, <2>3, <2>4, BytesApart
  <2>6. buddy.allocated \in 0 .. SizeMod - 1 /\ buddy.free \in 0 .. SizeMod - 1
    BY <1>1 DEF Pool!BuddyInfo
  <2>7. buddy'.allocated = n * BLOCK_SIZE
    <3>1. n * BLOCK_SIZE \in 0 .. SizeMod - 1 /\ buddy.allocated - s = n * BLOCK_SIZE
      BY <2>5, <2>6, <1>3
    <3> QED BY <3>1, <1>2, <1>3
  <2>8. (buddy'.allocated + buddy'.free) % SizeMod = Pool!total
    <3>1. s \in Int /\ SizeMod \in Nat \ {0} /\ buddy.allocated \in Int /\ buddy.free \in Int
      BY <2>6, <1>3
    <3> HIDE DEF s
    <3>2. (((buddy.allocated - s) % SizeMod) + ((buddy.free + s) % SizeMod)) % SizeMod
            = (buddy.allocated + buddy.free) % SizeMod
      BY <3>1, SumKept
    <3> QED BY <3>2, <2>1, <1>2
  <2>9. Pool!total' = Pool!total
    BY DEF Pool!total, Pool!SIZE
  <2>10. n = Cardinality(Entries(buddy', Pool!InUse'))
    BY <2>2 DEF n
  <2> QED BY <2>7, <2>8, <2>9, <2>10 DEF Counted
<1> QED BY <1>7, <1>8, <1>9, <1>10 DEF PoolInv

\* Every step keeps the invariant.
LEMMA PoolInvNext ==
  ASSUME Pool!NullAssumption, Pool!SizesAssumption, Pool!RequestsAssumption, PoolInv, [Pool!Next]_(Pool!vars)
  PROVE  PoolInv'
<1> DEFINE Same == buddy' = buddy /\ poolHeld' = poolHeld
<1>1. CASE Pool!Malloc
  BY <1>1, MallocTakes, PoolMallocKeeps
<1>2. CASE Pool!Free
  BY <1>2, FreeGives, PoolFreeKeeps
<1>3. CASE Same /\ lost' \in BOOLEAN
  <2>1. /\ Pool!InUse' = Pool!InUse /\ Pool!total' = Pool!total
        /\ Entries(buddy', Pool!InUse') = Entries(buddy, Pool!InUse)
    BY <1>3 DEF Pool!InUse, Pool!total, Pool!SIZE
  <2>2. Pool!TypeOK'
    BY <1>3 DEF PoolInv, Pool!TypeOK
  <2>3. Pooled'
    BY <1>3, <2>1 DEF PoolInv, Pooled
  <2>4. Held'
    BY <1>3, <2>1 DEF PoolInv, Held
  <2>5. Counted'
    BY <1>3, <2>1 DEF PoolInv, Counted
  <2> QED BY <2>2, <2>3, <2>4, <2>5 DEF PoolInv
<1>4. Pool!MallocFails \/ Pool!MallocTooLong \/ Pool!FreeFails \/ UNCHANGED Pool!vars => Same /\ lost' \in BOOLEAN
  BY DEF Pool!MallocFails, Pool!MallocTooLong, Pool!FreeFails, Pool!vars, PoolInv, Pool!TypeOK
<1> QED BY <1>1, <1>2, <1>3, <1>4 DEF Pool!Next

\* Whatever is asked for and freed, and however often.
THEOREM PoolInvariant == Pool!Spec => []PoolInv
<1>1. Pool!Init => PoolInv
  BY PoolInvInit, PoolAssumption
<1>2. PoolInv /\ [Pool!Next]_(Pool!vars) => PoolInv'
  BY PoolInvNext, PoolAssumption
<1> QED BY <1>1, <1>2, PTL DEF Pool!Spec

\* The invariant says all that PoolIsTiled does: walking the rows finds the
\* blocks that are linked.
LEMMA InvTiles ==
  ASSUME Pool!NullAssumption, Pool!SizesAssumption, PoolInv
  PROVE  Pool!PoolIsTiled
<1>1. PICK free : Linked(buddy, free) /\ Tiled(buddy, free \cup Pool!InUse)
  BY DEF PoolInv, Pooled
<1>2. Pool!TypeOK /\ buddy \in Pool!BuddyInfo
  BY DEF PoolInv, Pool!TypeOK
<1>3. Pool!Rows = free /\ \A k \in Pool!Level : Pool!Row(k) = {b \in free : buddy.level[b] = k}
  BY <1>1, <1>2, RowIsLinked, RowsAreLinked
<1>4. Pool!RowsLinked
  <2>1. ASSUME NEW k \in Pool!Level, NEW b \in Pool!Row(k)
        PROVE  /\ buddy.level[b] = k
               /\ IF buddy.prev[b] = NULL THEN buddy.freeRow[k] = b ELSE buddy.next[buddy.prev[b]] = b
               /\ buddy.next[b] # NULL => buddy.prev[buddy.next[b]] = b
    <3>1. b \in free /\ buddy.level[b] = k
      BY <1>3, <2>1
    <3> QED BY <3>1, <1>1 DEF Linked
  <2> QED BY <2>1, <1>2 DEF Pool!RowsLinked
<1> DEFINE all == free \cup Pool!InUse
<1>5. TOP \in Nat /\ Pool!Power[TOP] \in Nat
  BY PowerDef DEF Pool!SizesAssumption
<1>6. \A b \in all : b \in Pool!Block /\ b \in Nat /\ Length(buddy, b) \in Nat /\ Length(buddy, b) >= 1
  <2> TAKE b \in all
  <2>1. b \in Pool!Block /\ buddy.level[b] \in Pool!Level
    BY <1>1, <1>2 DEF Pool!BuddyInfo, Tiled
  <2>2. b \in Nat /\ buddy.level[b] \in Nat
    BY <2>1, <1>5 DEF Pool!Block, Pool!Level
  <2> QED BY <2>1, <2>2, PowerDef DEF Length
<1>7. \A b : Pool!Span(b) = b .. b + Length(buddy, b) - 1
  BY DEF Pool!Span, Length
<1>8. \A b \in all : b % Pool!Power[buddy.level[b]] = 0
  <2> TAKE b \in all
  <2>1. PICK q \in Nat : b = q * Length(buddy, b)
    BY <1>1 DEF Tiled
  <2>2. \A d \in Nat : d >= 1 => (q * d) % d = 0
    OBVIOUS
  <2> QED BY <2>1, <2>2, <1>6 DEF Length
<1>9. \A b, c \in all : b # c => Pool!Span(b) \cap Pool!Span(c) = {}
  <2> TAKE b, c \in all
  <2> HAVE b # c
  <2>1. b + Length(buddy, b) <= c \/ c + Length(buddy, c) <= b
    BY <1>1 DEF Tiled
  <2> QED BY <2>1, <1>6, <1>7
<1>10. UNION {Pool!Span(b) : b \in all} = Pool!Block
  <2>1. \A b \in all : Pool!Span(b) \subseteq Pool!Block
    <3> TAKE b \in all
    <3>1. b + Length(buddy, b) <= Pool!Power[TOP]
      BY <1>1 DEF Tiled
    <3> QED BY <3>1, <1>5, <1>6, <1>7 DEF Pool!Block
  <2>2. \A x \in Pool!Block : \E b \in all : x \in Pool!Span(b)
    <3> TAKE x \in Pool!Block
    <3>1. PICK b \in all : b <= x /\ x < b + Length(buddy, b)
      BY <1>1 DEF Tiled
    <3>2. x \in Nat
      BY <1>5 DEF Pool!Block
    <3>3. x \in Pool!Span(b)
      BY <3>1, <3>2, <1>6, <1>7
    <3> QED BY <3>3
  <2> HIDE DEF all
  <2> QED BY <2>1, <2>2
<1>11. Pool!InUse = {a \div BLOCK_SIZE : a \in DOMAIN poolHeld}
  <2>1. DOMAIN poolHeld = {b * BLOCK_SIZE : b \in Pool!InUse}
    BY DEF PoolInv, Held
  <2>2. \A b \in Pool!InUse : (b * BLOCK_SIZE) \div BLOCK_SIZE = b
    BY <1>6, BytesApart
  <2> QED BY <2>1, <2>2
<1>12. Pool!Rows \cup Pool!InUse = all
  BY <1>3
<1> QED BY <1>4, <1>8, <1>9, <1>10, <1>11, <1>12 DEF Pool!PoolIsTiled

\* Buddy counts a set as FiniteSets does.
LEMMA PoolCounts == \A part : Pool!Cardinality(part) = Cardinality(part)
BY Zenon DEF Pool!Cardinality, Cardinality

\* And all that StatusIsExact does.
LEMMA InvStatus ==
  ASSUME PoolInv
  PROVE  Pool!StatusIsExact
<1>1. \A b : Pool!Span(b) = b .. b + Length(buddy, b) - 1
  BY DEF Pool!Span, Length
<1>2. UNION {Pool!Span(b) : b \in Pool!InUse} = Entries(buddy, Pool!InUse)
  BY <1>1 DEF Entries
<1>3. Pool!Cardinality(UNION {Pool!Span(b) : b \in Pool!InUse}) = Cardinality(Entries(buddy, Pool!InUse))
  BY <1>2, PoolCounts
<1>4. /\ buddy.allocated = Cardinality(Entries(buddy, Pool!InUse)) * BLOCK_SIZE
      /\ (buddy.allocated + buddy.free) % SizeMod = Pool!total
  BY Zenon DEF PoolInv, Counted
<1> QED BY <1>3, <1>4, Zenon DEF Pool!StatusIsExact

-----------------------------------------------------------------------------

\* At first nothing is held.
LEMMA InitRefines ==
  ASSUME Pool!Init
  PROVE  Pool!Promise!Init
BY DEF Pool!Init, Pool!Promise!Init

\* What malloc takes is free: it begins at a block, ends in the pool and lies
\* apart from everything held.
LEMMA MallocRefines ==
  ASSUME Pool!NullAssumption, Pool!SizesAssumption, Pool!RequestsAssumption, PoolInv,
         NEW m, NEW all, NEW b, NEW request, Takes(m, all, b, request)
  PROVE  Pool!Promise!Malloc
<1> DEFINE a == b * BLOCK_SIZE
           k == m.level[b]
<1>1. /\ b \in Pool!Block /\ b \in all /\ b \notin Pool!InUse /\ Pool!InUse \subseteq all /\ Tiled(m, all)
      /\ request \in PoolRequests /\ request \in Nat /\ request <= Pool!SIZE(k)
      /\ m \in Pool!BuddyInfo /\ Pool!InUse \in SUBSET Pool!Block
      /\ \A x \in Pool!InUse : m.level[x] = buddy.level[x]
  BY DEF Takes, SameUse, Pool!InUse
<1>2. TOP \in Nat /\ Pool!Power[TOP] \in Nat
  BY PowerDef DEF Pool!SizesAssumption
<1>3. \A x \in all : x \in Nat /\ m.level[x] \in Nat /\ Length(m, x) \in Nat
                     /\ Pool!SIZE(m.level[x]) \in Nat /\ Pool!SIZE(m.level[x]) = Length(m, x) * BLOCK_SIZE
  <2> TAKE x \in all
  <2>1. x \in Pool!Block /\ m.level[x] \in Pool!Level
    BY <1>1 DEF Pool!BuddyInfo, Tiled
  <2>2. x \in Nat /\ m.level[x] \in Nat
    BY <2>1, <1>2 DEF Pool!Block, Pool!Level
  <2>3. Length(m, x) \in Nat /\ Pool!SIZE(m.level[x]) = Length(m, x) * BLOCK_SIZE
    BY <2>2, PowerDef DEF Length, Pool!SIZE
  <2> QED BY <2>2, <2>3, SizeType
<1>4. \A x \in all : /\ x * BLOCK_SIZE \in Nat
                     /\ (x + Length(m, x)) * BLOCK_SIZE = x * BLOCK_SIZE + Pool!SIZE(m.level[x])
  BY <1>3, BytesApart
<1>5. a \in Pool!Addresses
  BY <1>1 DEF Pool!Addresses
<1>6. a \notin DOMAIN poolHeld
  <2>1. DOMAIN poolHeld = {x * BLOCK_SIZE : x \in Pool!InUse}
    BY DEF PoolInv, Held
  <2> QED BY <2>1, <1>1, BytesDiffer
<1>7. a + request <= Pool!HIGH
  <2>1. b + Length(m, b) <= Pool!Power[TOP] /\ b + Length(m, b) \in Nat
    BY <1>1, <1>3 DEF Tiled
  <2>2. (b + Length(m, b)) * BLOCK_SIZE <= Pool!Power[TOP] * BLOCK_SIZE
    BY <2>1, <1>2, BytesApart
  <2>3. a + Pool!SIZE(k) <= Pool!SIZE(TOP) /\ a \in Nat /\ Pool!SIZE(k) \in Nat /\ Pool!SIZE(TOP) \in Nat
    BY <2>2, <1>1, <1>2, <1>3, <1>4, SizeType DEF Pool!SIZE
  <2> QED BY <2>3, <1>1 DEF Pool!HIGH
<1>8. ASSUME NEW d \in DOMAIN poolHeld PROVE Pool!Promise!Apart(a, request, d, poolHeld[d])
  <2>1. PICK c \in Pool!InUse : d = c * BLOCK_SIZE /\ poolHeld[d] <= Pool!SIZE(buddy.level[c])
    BY DEF PoolInv, Held
  <2>2. c \in all /\ c # b /\ Pool!SIZE(buddy.level[c]) = Pool!SIZE(m.level[c])
    BY <2>1, <1>1
  <2>3. b + Length(m, b) <= c \/ c + Length(m, c) <= b
    BY <2>2, <1>1 DEF Tiled
  <2>4. a + Pool!SIZE(k) <= d \/ d + Pool!SIZE(m.level[c]) <= a
    <3>0. b \in Nat /\ c \in Nat /\ b + Length(m, b) \in Nat /\ c + Length(m, c) \in Nat
      BY <2>2, <1>1, <1>3
    <3>1. b + Length(m, b) <= c => (b + Length(m, b)) * BLOCK_SIZE <= c * BLOCK_SIZE
      BY <3>0, BytesApart
    <3>2. c + Length(m, c) <= b => (c + Length(m, c)) * BLOCK_SIZE <= b * BLOCK_SIZE
      BY <3>0, BytesApart
    <3>3. /\ (b + Length(m, b)) * BLOCK_SIZE = a + Pool!SIZE(k)
          /\ (c + Length(m, c)) * BLOCK_SIZE = d + Pool!SIZE(m.level[c])
      BY <2>1, <2>2, <1>1, <1>4
    <3> QED BY <3>1, <3>2, <3>3, <2>1, <2>3, Zenon
  <2>5. poolHeld[d] \in Nat
    BY DEF PoolInv, Pool!TypeOK, Pool!RequestsAssumption
  <2>6. a \in Nat /\ d \in Nat /\ Pool!SIZE(k) \in Nat /\ Pool!SIZE(m.level[c]) \in Nat
    BY <2>1, <2>2, <1>1, <1>3, <1>4
  <2> QED BY <2>1, <2>2, <2>4, <2>5, <2>6, <1>1 DEF Pool!Promise!Apart
<1>9. poolHeld' = [x \in DOMAIN poolHeld \cup {a} |-> IF x = a THEN request ELSE poolHeld[x]]
  BY DEF Takes
<1> HIDE DEF a
<1> QED BY <1>1, <1>5, <1>6, <1>7, <1>8, <1>9 DEF Pool!Promise!Malloc

\* What malloc and free of the pool do is what malloc and free promise, and
\* nothing else touches what is held.
LEMMA PoolStepRefines ==
  ASSUME Pool!NullAssumption, Pool!SizesAssumption, Pool!RequestsAssumption, PoolInv, [Pool!Next]_(Pool!vars)
  PROVE  [Pool!Promise!Next]_poolHeld
<1>1. CASE Pool!Malloc
  BY <1>1, MallocTakes, MallocRefines DEF Pool!Promise!Next
<1>2. CASE Pool!Free
  <2>1. PICK b \in Pool!InUse : poolHeld' = [a \in DOMAIN poolHeld \ {b * BLOCK_SIZE} |-> poolHeld[a]]
    BY <1>2, FreeGives
  <2>2. b * BLOCK_SIZE \in DOMAIN poolHeld
    BY DEF PoolInv, Held
  <2>3. Pool!Promise!Free
    BY <2>1, <2>2 DEF Pool!Promise!Free
  <2> QED BY <2>3 DEF Pool!Promise!Next
<1>3. Pool!MallocFails \/ Pool!MallocTooLong \/ Pool!FreeFails \/ UNCHANGED Pool!vars => poolHeld' = poolHeld
  BY DEF Pool!MallocFails, Pool!MallocTooLong, Pool!FreeFails, Pool!vars
<1> QED BY <1>1, <1>2, <1>3 DEF Pool!Next

\* The buddy allocator keeps the promises of malloc and free.
THEOREM PoolRefines == Pool!Spec => Pool!KeepsPromise
<1>1. Pool!Init => Pool!Promise!Init
  BY InitRefines
<1>2. PoolInv /\ [Pool!Next]_(Pool!vars) => [Pool!Promise!Next]_poolHeld
  BY PoolStepRefines, PoolAssumption
<1> QED BY <1>1, <1>2, PoolInvariant, PTL DEF Pool!Spec, Pool!KeepsPromise, Pool!Promise!Spec

-----------------------------------------------------------------------------
(* The kernel: one of the allocators is built in, the other one stands     *)
(* still.  The theorems about either are theorems about the kernel.        *)

\* Only the list allocator touches the heap.
LEMMA KernelIsHeap == KernelSpec => Spec
<1>1. KernelInit => Init
  BY DEF KernelInit
<1>2. [KernelNext]_<<build, start, heap, pool>> => [Next]_vars
  BY DEF KernelNext, Boot, Start, Run, ListStep, BuddyStep, heap, vars
<1> QED BY <1>1, <1>2, PTL DEF KernelSpec, Spec

\* Only the buddy allocator touches the pool.
LEMMA KernelIsPool == KernelSpec => Pool!Spec
<1>1. KernelInit => Pool!Init
  BY DEF KernelInit
<1>2. [KernelNext]_<<build, start, heap, pool>> => [Pool!Next]_(Pool!vars)
  BY DEF KernelNext, Boot, Start, Run, ListStep, BuddyStep, pool, Pool!vars
<1> QED BY <1>1, <1>2, PTL DEF KernelSpec, Pool!Spec

\* In the kernel the heap stays well formed, whatever happens before and beside it.
THEOREM HeapStaysWellFormed == KernelSpec => []HeapWellFormed
BY KernelIsHeap, WellFormed, PTL

\* In the kernel free blocks and blocks in use always fill the pool, each at a
\* multiple of its length and none over another, and the rows hold the free ones.
THEOREM PoolStaysTiled == KernelSpec => []PoolIsTiled
<1>1. PoolInv => PoolIsTiled
  BY InvTiles, PoolAssumption DEF PoolIsTiled
<1> QED BY <1>1, KernelIsPool, PoolInvariant, PTL

\* However often blocks are split and freed, the counters of the status are those
\* of the blocks in use.
THEOREM StatusStaysExact == KernelSpec => []StatusIsExact
<1>1. PoolInv => StatusIsExact
  BY InvStatus, PoolAssumption DEF StatusIsExact
<1> QED BY <1>1, KernelIsPool, PoolInvariant, PTL

\* Whichever allocator is built in, malloc and free keep their promises.
THEOREM BothKeepPromise == KernelSpec => MallocKeepsPromise
BY KernelIsPool, PoolRefines, KernelIsHeap, Refines, PTL DEF MallocKeepsPromise

-----------------------------------------------------------------------------
(* The start of the kernel: the image, what is loaded from it, and what is *)
(* cleared.                                                                *)

\* A file is what its pieces are, whatever the length of a piece.
LEMMA WrittenWhole ==
  ASSUME NEW B, NEW file \in Seq(B)
  PROVE  write_file(file) = file
<1> DEFINE n == Len(file)
           b == BUFFER_SIZE
           count == n \div b + 1
           upto(i) == IF i * b < n THEN i * b ELSE n
           pieces == [i \in 1 .. count |-> SubSeq(file, (i - 1) * b + 1, upto(i))]
           Is(f) == f = [i \in 1 .. Len(pieces) |-> IF i = 1 THEN pieces[i] ELSE f[i - 1] \o pieces[i]]
           g == [i \in 1 .. count |-> SubSeq(file, 1, upto(i))]
<1>1. b \in Nat /\ b # 0 /\ n \in Nat /\ n \div b \in Nat /\ (n \div b) * b <= n /\ n < (n \div b + 1) * b
  <2>1. b \in Nat /\ b # 0 /\ n \in Nat
    BY AddressAssumption
  <2> HIDE DEF n, b
  <2>2. n \div b \in Nat /\ n % b \in 0 .. b - 1 /\ n = b * (n \div b) + (n % b)
    BY <2>1
  <2> QED BY <2>1, <2>2
<1> HIDE DEF n, b
<1>2. Len(pieces) = count
  BY <1>1
<1>3. ASSUME NEW i \in 1 .. count, i # 1
      PROVE  (i - 1) * b <= n /\ upto(i - 1) = (i - 1) * b /\ upto(i) \in (i - 1) * b .. n
  <2>1. i - 1 <= n \div b /\ i - 1 \in Nat
    BY <1>1
  <2>2. (i - 1) * b <= (n \div b) * b
    BY <2>1, <1>1
  <2>3. (i - 1) * b <= i * b /\ (i - 1) * b \in Nat /\ i * b \in Nat
    BY <2>1, <1>1
  <2> QED BY <1>1, <2>2, <2>3
<1>4. Is(g)
  <2>1. ASSUME NEW i \in 1 .. count
        PROVE  g[i] = IF i = 1 THEN pieces[i] ELSE g[i - 1] \o pieces[i]
    <3>1. CASE i = 1
      <4>1. (1 - 1) * b + 1 = 1
        BY <1>1
      <4> QED BY <3>1, <4>1
    <3>2. CASE i # 1
      <4>1. /\ i - 1 \in 1 .. count
            /\ (i - 1) * b \in 0 .. Len(file) /\ upto(i) \in (i - 1) * b .. Len(file)
        BY <1>3, <3>2, <1>1 DEF n
      <4>2. SubSeq(file, 1, (i - 1) * b) \o SubSeq(file, (i - 1) * b + 1, upto(i)) = SubSeq(file, 1, upto(i))
        <5> HIDE DEF upto
        <5>1. 1 \in 1 .. Len(file) + 1
          OBVIOUS
        <5>2. (i - 1) * b \in 1 - 1 .. Len(file)
          BY <4>1
        <5> QED BY <4>1, <5>1, <5>2, Sequence!ConcatAdjacentSubSeq
      <4>3. g[i - 1] = SubSeq(file, 1, (i - 1) * b)
        BY <4>1, <1>3, <3>2
      <4> QED BY <4>2, <4>3, <3>2
    <3> QED BY <3>1, <3>2
  <2> QED BY <2>1, <1>2
<1> DEFINE f == CHOOSE h : Is(h)
<1>5. Is(f)
  <2> HIDE DEF Is, g
  <2> QED BY <1>4, SMTT(30)
<1>6. write_file(file) = f[count]
  <2>1. Len(pieces) # 0
    BY <1>1, <1>2
  <2> QED BY <2>1, <1>2 DEF write_file, FlattenSeq, n, b
<1> HIDE DEF f
<1> DEFINE Agree == {k \in Nat : k + 1 <= count => f[k + 1] = g[k + 1]}
<1>7. Nat \subseteq Agree
  <2>1. 0 \in Agree
    BY <1>4, <1>5, <1>2, <1>1
  <2>2. ASSUME NEW k \in Nat, k \in Agree PROVE k + 1 \in Agree
    <3> SUFFICES ASSUME k + 1 + 1 <= count PROVE f[k + 1 + 1] = g[k + 1 + 1]
      OBVIOUS
    <3>1. k + 1 + 1 \in 1 .. count /\ k + 1 + 1 # 1 /\ (k + 1 + 1) - 1 = k + 1 /\ k + 1 \in 1 .. count
      BY <1>1
    <3>2. f[k + 1] = g[k + 1]
      BY <3>1, <2>2
    <3>3. f[k + 1 + 1] = f[k + 1] \o pieces[k + 1 + 1] /\ g[k + 1 + 1] = g[k + 1] \o pieces[k + 1 + 1]
      <4> HIDE DEF pieces, g
      <4> QED BY <3>1, <1>4, <1>5, <1>2
    <3> QED BY <3>2, <3>3
  <2> HIDE DEF Agree
  <2> QED BY <2>1, <2>2, Induct
<1>8. f[count] = g[count]
  <2>1. n \div b \in Agree
    BY <1>1, <1>7
  <2> QED BY <2>1, <1>1
<1>9. g[count] = SubSeq(file, 1, Len(file))
  BY <1>1 DEF n
<1> QED BY <1>6, <1>8, <1>9, Sequence!SubSeqFull

\* Two sequences are put behind each other.
LEMMA FlattenTwo ==
  ASSUME NEW B, NEW s \in [1 .. 2 -> Seq(B)]
  PROVE  FlattenSeq(s) = s[1] \o s[2]
<1> DEFINE Is(f) == f = [i \in 1 .. Len(s) |-> IF i = 1 THEN s[i] ELSE f[i - 1] \o s[i]]
           g == [i \in 1 .. 2 |-> IF i = 1 THEN s[1] ELSE s[1] \o s[2]]
           f == CHOOSE h : Is(h)
<1>1. Len(s) = 2
  OBVIOUS
<1>2. Is(g)
  <2>1. ASSUME NEW i \in 1 .. 2 PROVE g[i] = IF i = 1 THEN s[i] ELSE g[i - 1] \o s[i]
    <3>1. i = 1 \/ i = 2
      OBVIOUS
    <3>2. g[1] = s[1] /\ g[2] = s[1] \o s[2] /\ 2 - 1 = 1
      OBVIOUS
    <3> HIDE DEF g
    <3> QED BY <3>1, <3>2
  <2> QED BY <2>1, <1>1
<1>3. Is(f)
  <2> HIDE DEF Is, g
  <2> QED BY <1>2
<1>4. FlattenSeq(s) = f[2]
  BY <1>1 DEF FlattenSeq
<1> HIDE DEF f
<1>5. f[1] = s[1] /\ f[2] = f[2 - 1] \o s[2] /\ 2 - 1 = 1
  BY <1>1, <1>3
<1>6. f[2] = s[1] \o s[2]
  BY <1>5, Zenon
<1> QED BY <1>4, <1>6, Zenon

\* What is put behind each other stays as it is.
LEMMA Joined ==
  ASSUME NEW B, NEW s \in Seq(B), NEW t \in Seq(B)
  PROVE  /\ s \o t \in Seq(B) /\ Len(s \o t) = Len(s) + Len(t)
         /\ \A i \in 1 .. Len(s) : (s \o t)[i] = s[i]
         /\ \A i \in 1 .. Len(t) : (s \o t)[Len(s) + i] = t[i]
<1>1. /\ s \o t \in Seq(B) /\ Len(s \o t) = Len(s) + Len(t)
      /\ \A i \in 1 .. Len(s) + Len(t) : (s \o t)[i] = IF i <= Len(s) THEN s[i] ELSE t[i - Len(s)]
  BY Sequence!ConcatProperties
<1> DEFINE w == s \o t
<1>2. /\ w \in Seq(B) /\ Len(w) = Len(s) + Len(t) /\ Len(s) \in Nat /\ Len(t) \in Nat
      /\ \A i \in 1 .. Len(s) + Len(t) : w[i] = IF i <= Len(s) THEN s[i] ELSE t[i - Len(s)]
  BY <1>1
<1> HIDE DEF w
<1>3. ASSUME NEW i \in 1 .. Len(t) PROVE w[Len(s) + i] = t[i]
  <2>1. Len(s) + i \in 1 .. Len(s) + Len(t) /\ ~ (Len(s) + i <= Len(s)) /\ (Len(s) + i) - Len(s) = i
    BY <1>2
  <2>2. w[Len(s) + i] = t[(Len(s) + i) - Len(s)]
    BY <1>2, <2>1
  <2> QED BY <2>1, <2>2
<1>4. \A i \in 1 .. Len(s) : w[i] = s[i]
  BY <1>2
<1> QED BY <1>2, <1>3, <1>4 DEF w

\* What a file is made of.
Byte == 0 .. 255

\* A length is four bytes in memory.
LEMMA Uint32IsSeq ==
  ASSUME NEW n \in Nat
  PROVE  Uint32(n) \in Seq(Byte) /\ Len(Uint32(n)) = 4
BY DEF Uint32, Byte

\* A length that is written is read back.
LEMMA ReadBack ==
  ASSUME NEW mem, NEW a \in Nat, NEW n \in Nat,
         ((n \div 256) \div 256) \div 256 < 256,
         \A j \in 1 .. 4 : mem[a + j - 1] = Uint32(n)[j]
  PROVE  readUint32(mem, a) = n
<1> DEFINE second == n \div 256
           third == second \div 256
           fourth == third \div 256
<1>1. second \in Nat /\ third \in Nat /\ fourth \in Nat /\ fourth < 256
  OBVIOUS
<1>2. n = (n % 256) + 256 * second /\ second = (second % 256) + 256 * third /\ third = (third % 256) + 256 * fourth
  <2>1. \A x \in Nat : x = (x % 256) + 256 * (x \div 256)
    OBVIOUS
  <2> QED BY <2>1, <1>1
<1>3. fourth % 256 = fourth
  BY <1>1
<1>4. /\ mem[a] = n % 256 /\ mem[a + 1] = second % 256
      /\ mem[a + 2] = third % 256 /\ mem[a + 3] = fourth % 256
  <2>1. Uint32(n) = <<n % 256, second % 256, third % 256, fourth % 256>>
    BY DEF Uint32
  <2> HIDE DEF second, third, fourth
  <2>2. /\ mem[a + 1 - 1] = Uint32(n)[1] /\ mem[a + 2 - 1] = Uint32(n)[2]
        /\ mem[a + 3 - 1] = Uint32(n)[3] /\ mem[a + 4 - 1] = Uint32(n)[4]
    <3>1. 1 \in 1 .. 4 /\ 2 \in 1 .. 4 /\ 3 \in 1 .. 4 /\ 4 \in 1 .. 4
      OBVIOUS
    <3> QED BY <3>1
  <2>3. a + 1 - 1 = a /\ a + 2 - 1 = a + 1 /\ a + 3 - 1 = a + 2 /\ a + 4 - 1 = a + 3
    OBVIOUS
  <2> QED BY <2>1, <2>2, <2>3
<1>5. readUint32(mem, a) = (n % 256) + 256 * ((second % 256) + 256 * ((third % 256) + 256 * (fourth % 256)))
  BY <1>4 DEF readUint32
<1> HIDE DEF second, third, fourth
<1> QED BY <1>2, <1>3, <1>5

\* The image: the kernel, the number of modules, and each of them behind its length.
LEMMA ImageIs ==
  ASSUME NEW files \in Packages
  PROVE  LET k == files.kernel
             one == files.modules[1]
             two == files.modules[2]
             p == Len(k)
             q == p + 8 + Len(one)
             image == buildImage(files)
         IN  /\ k \in Seq(Byte) /\ one \in Seq(Byte) /\ two \in Seq(Byte)
             /\ Len(image) = q + 4 + Len(two)
             /\ \A i \in 1 .. p : image[i] = k[i]
             /\ \A j \in 1 .. 4 : /\ image[p + j] = Uint32(2)[j]
                                  /\ image[p + 4 + j] = Uint32(Len(one))[j]
                                  /\ image[q + j] = Uint32(Len(two))[j]
             /\ \A i \in 1 .. Len(one) : image[p + 8 + i] = one[i]
             /\ \A i \in 1 .. Len(two) : image[q + 4 + i] = two[i]
<1> DEFINE k == files.kernel
           one == files.modules[1]
           two == files.modules[2]
           p == Len(k)
           q == p + 8 + Len(one)
           first == Uint32(Len(one)) \o one
           second == Uint32(Len(two)) \o two
           image == buildImage(files)
<1>1. k \in Seq(Byte) /\ files.modules \in Seq(Seq(Byte)) /\ Len(files.modules) = 2
  BY FitsAssumption DEF moduleAddresses, Byte
<1>2. one \in Seq(Byte) /\ two \in Seq(Byte) /\ DOMAIN files.modules = 1 .. 2
  BY <1>1
<1> HIDE DEF k, one, two
<1>3. Len(one) \in Nat /\ Len(two) \in Nat /\ p \in Nat
  BY <1>1, <1>2
<1>4. first \in Seq(Byte) /\ second \in Seq(Byte)
  BY <1>2, <1>3, Uint32IsSeq
<1>5. image = (k \o Uint32(2)) \o (first \o second)
  <2> DEFINE s == [i \in DOMAIN files.modules |-> Uint32(Len(files.modules[i])) \o write_file(files.modules[i])]
  <2>1. s = [i \in 1 .. 2 |-> IF i = 1 THEN first ELSE second]
    <3>1. write_file(one) = one /\ write_file(two) = two
      BY <1>2, WrittenWhole
    <3>2. \A i \in 1 .. 2 : i = 1 \/ i = 2
      OBVIOUS
    <3> QED BY <1>2, <3>1, <3>2 DEF one, two
  <2> HIDE DEF s, first, second
  <2>2. s \in [1 .. 2 -> Seq(Byte)] /\ s[1] = first /\ s[2] = second
    BY <2>1, <1>4
  <2>3. FlattenSeq(s) = first \o second
    BY <2>2, FlattenTwo
  <2>4. write_file(k) = k
    BY <1>1, WrittenWhole
  <2> QED BY <2>3, <2>4, <1>1 DEF buildImage, s, k
<1>6. /\ Len(first) = 4 + Len(one)
      /\ \A j \in 1 .. 4 : first[j] = Uint32(Len(one))[j]
      /\ \A i \in 1 .. Len(one) : first[4 + i] = one[i]
  <2> DEFINE u == Uint32(Len(one))
  <2>1. u \in Seq(Byte) /\ Len(u) = 4
    BY <1>3, Uint32IsSeq
  <2> HIDE DEF u
  <2>2. /\ first \in Seq(Byte) /\ Len(first) = Len(u) + Len(one)
        /\ \A i \in 1 .. Len(u) : first[i] = u[i]
        /\ \A i \in 1 .. Len(one) : first[Len(u) + i] = one[i]
    <3>1. u \in Seq(Byte) /\ one \in Seq(Byte)
      BY <2>1, <1>2
    <3> QED BY <3>1, Joined DEF u
  <2> HIDE DEF first
  <2>3. /\ Len(first) = 4 + Len(one)
        /\ \A j \in 1 .. 4 : first[j] = u[j]
        /\ \A i \in 1 .. Len(one) : first[4 + i] = one[i]
    BY <2>1, <2>2
  <2> QED BY <2>3 DEF u
<1>7. /\ Len(second) = 4 + Len(two)
      /\ \A j \in 1 .. 4 : second[j] = Uint32(Len(two))[j]
      /\ \A i \in 1 .. Len(two) : second[4 + i] = two[i]
  <2> DEFINE u == Uint32(Len(two))
  <2>1. u \in Seq(Byte) /\ Len(u) = 4
    BY <1>3, Uint32IsSeq
  <2> HIDE DEF u
  <2>2. /\ second \in Seq(Byte) /\ Len(second) = Len(u) + Len(two)
        /\ \A i \in 1 .. Len(u) : second[i] = u[i]
        /\ \A i \in 1 .. Len(two) : second[Len(u) + i] = two[i]
    <3>1. u \in Seq(Byte) /\ two \in Seq(Byte)
      BY <2>1, <1>2
    <3> QED BY <3>1, Joined DEF u
  <2> HIDE DEF second
  <2>3. /\ Len(second) = 4 + Len(two)
        /\ \A j \in 1 .. 4 : second[j] = u[j]
        /\ \A i \in 1 .. Len(two) : second[4 + i] = two[i]
    BY <2>1, <2>2
  <2> QED BY <2>3 DEF u
<1> HIDE DEF first, second
<1> DEFINE left == k \o Uint32(2)
           right == first \o second
<1>8. /\ left \in Seq(Byte) /\ Len(left) = p + 4
      /\ \A i \in 1 .. p : left[i] = k[i]
      /\ \A j \in 1 .. 4 : left[p + j] = Uint32(2)[j]
  <2> DEFINE u == Uint32(2)
  <2>1. u \in Seq(Byte) /\ Len(u) = 4
    BY Uint32IsSeq
  <2> HIDE DEF u
  <2>2. /\ left \in Seq(Byte) /\ Len(left) = Len(k) + Len(u)
        /\ \A i \in 1 .. Len(k) : left[i] = k[i]
        /\ \A i \in 1 .. Len(u) : left[Len(k) + i] = u[i]
    BY <2>1, <1>1, Joined DEF u
  <2> HIDE DEF left
  <2>3. /\ left \in Seq(Byte) /\ Len(left) = p + 4
        /\ \A i \in 1 .. p : left[i] = k[i]
        /\ \A j \in 1 .. 4 : left[p + j] = u[j]
    BY <2>1, <2>2
  <2> QED BY <2>3 DEF u
<1>9. /\ right \in Seq(Byte) /\ Len(right) = (4 + Len(one)) + (4 + Len(two))
      /\ \A i \in 1 .. 4 + Len(one) : right[i] = first[i]
      /\ \A i \in 1 .. 4 + Len(two) : right[4 + Len(one) + i] = second[i]
  <2>2. /\ right \in Seq(Byte) /\ Len(right) = Len(first) + Len(second)
        /\ \A i \in 1 .. Len(first) : right[i] = first[i]
        /\ \A i \in 1 .. Len(second) : right[Len(first) + i] = second[i]
    BY <1>4, Joined
  <2> HIDE DEF right
  <2> QED BY <2>2, <1>6, <1>7
<1>15. image = left \o right
  BY <1>5
<1> HIDE DEF left, right
<1>10. /\ Len(image) = q + 4 + Len(two)
       /\ \A i \in 1 .. p + 4 : image[i] = left[i]
       /\ \A i \in 1 .. 8 + Len(one) + Len(two) : image[p + 4 + i] = right[i]
  <2> HIDE DEF image
  <2>1. /\ Len(image) = (p + 4) + ((4 + Len(one)) + (4 + Len(two)))
        /\ \A i \in 1 .. p + 4 : image[i] = left[i]
        /\ \A i \in 1 .. (4 + Len(one)) + (4 + Len(two)) : image[p + 4 + i] = right[i]
    <3>0. left \in Seq(Byte) /\ right \in Seq(Byte)
      BY <1>8, <1>9
    <3>1. /\ Len(left \o right) = Len(left) + Len(right)
          /\ \A i \in 1 .. Len(left) : (left \o right)[i] = left[i]
          /\ \A i \in 1 .. Len(right) : (left \o right)[Len(left) + i] = right[i]
      BY <3>0, Joined
    <3>2. /\ Len(image) = Len(left) + Len(right)
          /\ \A i \in 1 .. Len(left) : image[i] = left[i]
          /\ \A i \in 1 .. Len(right) : image[Len(left) + i] = right[i]
      BY <3>1, <1>15, Zenon
    <3> QED BY <3>2, <1>8, <1>9
  <2> QED BY <2>1, <1>3
<1> HIDE DEF image
<1>11. \A i \in 1 .. p : image[i] = k[i]
  BY <1>10, <1>8, <1>3
<1>12. ASSUME NEW j \in 1 .. 4
       PROVE  /\ image[p + j] = Uint32(2)[j]
              /\ image[p + 4 + j] = Uint32(Len(one))[j]
              /\ image[q + j] = Uint32(Len(two))[j]
  <2>1. image[p + j] = Uint32(2)[j]
    BY <1>10, <1>8, <1>3
  <2>2. image[p + 4 + j] = Uint32(Len(one))[j]
    BY <1>10, <1>9, <1>6, <1>3
  <2>3. p + 4 + (4 + Len(one) + j) = q + j /\ 4 + Len(one) + j \in 1 .. 8 + Len(one) + Len(two)
    BY <1>3
  <2>4. image[q + j] = right[4 + Len(one) + j]
    BY <1>10, <2>3
  <2>5. j \in 1 .. 4 + Len(two)
    BY <1>3
  <2>6. right[4 + Len(one) + j] = second[j]
    BY <2>5, <1>9
  <2>7. image[q + j] = Uint32(Len(two))[j]
    BY <2>4, <2>6, <1>7, Zenon
  <2> QED BY <2>1, <2>2, <2>7, Zenon
<1>13. ASSUME NEW i \in 1 .. Len(one) PROVE image[p + 8 + i] = one[i]
  <2>1. p + 4 + (4 + i) = p + 8 + i /\ 4 + i \in 1 .. 8 + Len(one) + Len(two)
    BY <1>3
  <2> QED BY <1>10, <2>1, <1>9, <1>6, <1>3
<1>14. ASSUME NEW i \in 1 .. Len(two) PROVE image[q + 4 + i] = two[i]
  <2>1. p + 4 + (4 + Len(one) + (4 + i)) = q + 4 + i /\ 4 + Len(one) + (4 + i) \in 1 .. 8 + Len(one) + Len(two)
    BY <1>3
  <2>2. image[q + 4 + i] = right[4 + Len(one) + (4 + i)]
    BY <1>10, <2>1
  <2>3. 4 + i \in 1 .. 4 + Len(two)
    BY <1>3
  <2>4. right[4 + Len(one) + (4 + i)] = second[4 + i]
    BY <2>3, <1>9
  <2> QED BY <2>2, <2>4, <1>7
<1> QED BY <1>1, <1>2, <1>10, <1>11, <1>12, <1>13, <1>14 DEF k, one, two, image
\* Two modules are loaded one after the other.
LEMMA LoadsTwo ==
  ASSUME NEW mem, NEW payload, readUint32(mem, payload) = 2
  PROVE  loadModules(mem, payload) =
           loadModule(loadModule([mem |-> mem, module |-> payload + 4, end |-> 0], uCodeModuleAddress),
                      uDataModuleAddress)
<1> DEFINE x == uCodeModuleAddress
           y == uDataModuleAddress
           base == [mem |-> mem, module |-> payload + 4, end |-> 0]
           seq == SubSeq(moduleAddresses, 1, readUint32(mem, payload))
           Is(f) == f = [s \in SUBSET DOMAIN seq |->
                           IF s = {} THEN base ELSE loadModule(f[s \ {Max(s)}], seq[Max(s)])]
           g == [s \in SUBSET {1, 2} |->
                   IF s = {} THEN base
                   ELSE IF s = {1} THEN loadModule(base, x)
                   ELSE IF s = {2} THEN loadModule(base, y)
                   ELSE loadModule(loadModule(base, x), y)]
           f == CHOOSE h : Is(h)
<1>1. loadModules(mem, payload) = f[DOMAIN seq]
  BY DEF loadModules, FoldLeft, MapThenFoldSet
<1> HIDE DEF x, y, base
<1>2. Max({1}) = 1 /\ Max({2}) = 2 /\ Max({1, 2}) = 2
  BY DEF Max
<1>3. DOMAIN seq = {1, 2} /\ seq[1] = x /\ seq[2] = y
  <2>1. moduleAddresses = <<x, y>>
    BY DEF moduleAddresses, x, y
  <2>2. <<x, y>> \in Seq({x, y}) /\ Len(<<x, y>>) = 2
    OBVIOUS
  <2>3. SubSeq(<<x, y>>, 1, Len(<<x, y>>)) = <<x, y>>
    BY <2>2, Sequence!SubSeqFull
  <2>4. seq = <<x, y>>
    BY <2>1, <2>2, <2>3
  <2> HIDE DEF seq
  <2> QED BY <2>4
<1>4. Is(g)
  <2>1. ASSUME NEW s \in SUBSET {1, 2}
        PROVE  g[s] = IF s = {} THEN base ELSE loadModule(g[s \ {Max(s)}], seq[Max(s)])
    <3>1. s = {} \/ s = {1} \/ s = {2} \/ s = {1, 2}
      OBVIOUS
    <3>2. /\ g[{}] = base /\ g[{1}] = loadModule(base, x) /\ g[{2}] = loadModule(base, y)
          /\ g[{1, 2}] = loadModule(loadModule(base, x), y)
      <4>1. /\ {} \in SUBSET {1, 2} /\ {1} \in SUBSET {1, 2} /\ {2} \in SUBSET {1, 2} /\ {1, 2} \in SUBSET {1, 2}
            /\ {1} # {} /\ {2} # {} /\ {2} # {1} /\ {1, 2} # {} /\ {1, 2} # {1} /\ {1, 2} # {2}
        OBVIOUS
      <4> QED BY <4>1, Zenon
    <3>3. {1} \ {1} = {} /\ {2} \ {2} = {} /\ {1, 2} \ {2} = {1} /\ {1} # {} /\ {2} # {} /\ {1, 2} # {}
      OBVIOUS
    <3> HIDE DEF g, seq
    <3>4. CASE s = {}
      BY <3>4, <3>2
    <3>5. CASE s = {1}
      BY <3>5, <3>2, <3>3, <1>2, <1>3, Zenon
    <3>6. CASE s = {2}
      BY <3>6, <3>2, <3>3, <1>2, <1>3, Zenon
    <3>7. CASE s = {1, 2}
      BY <3>7, <3>2, <3>3, <1>2, <1>3, Zenon
    <3> QED BY <3>1, <3>4, <3>5, <3>6, <3>7
  <2> HIDE DEF seq
  <2> QED BY <2>1, <1>3, Zenon
<1>5. Is(f)
  <2> HIDE DEF Is, g
  <2> QED BY <1>4
<1> HIDE DEF f, seq
<1>6. /\ f[{}] = base
      /\ f[{1}] = loadModule(f[{1} \ {1}], x)
      /\ f[{1, 2}] = loadModule(f[{1, 2} \ {2}], y)
  <2>1. \A s \in SUBSET {1, 2} : f[s] = IF s = {} THEN base ELSE loadModule(f[s \ {Max(s)}], seq[Max(s)])
    BY <1>3, <1>5, Zenon
  <2>2. {} \in SUBSET {1, 2} /\ {1} \in SUBSET {1, 2} /\ {1, 2} \in SUBSET {1, 2} /\ {1} # {} /\ {1, 2} # {}
    OBVIOUS
  <2> QED BY <2>1, <2>2, <1>2, <1>3, Zenon
<1>7. {1} \ {1} = {} /\ {1, 2} \ {2} = {1}
  OBVIOUS
<1>8. f[{1, 2}] = loadModule(loadModule(base, x), y)
  BY <1>6, <1>7, Zenon
<1> QED BY <1>1, <1>3, <1>8, Zenon DEF x, y, base

\* A page boundary at or behind an address, and one behind it.
LEMMA Pages ==
  ASSUME NEW a \in Nat
  PROVE  /\ ALIGN(a) \in Nat /\ a <= ALIGN(a)
         /\ a + PageSize - (a % PageSize) > a /\ a + PageSize - (a % PageSize) \in Nat
         /\ (a + PageSize - (a % PageSize)) % PageSize = 0
<1> DEFINE r == a % PageSize
           d == a \div PageSize
<1>0. PageSize \in Nat /\ PageSize # 0
  BY AddressAssumption
<1>1. r \in 0 .. PageSize - 1 /\ d \in Nat /\ a = PageSize * d + r
  BY <1>0
<1> HIDE DEF r, d
<1>2. ALIGN(a) \in Nat /\ a <= ALIGN(a)
  <2>1. ALIGN(a) = a + ((PageSize - r) % PageSize)
    BY DEF ALIGN, r
  <2>2. PageSize - r \in Nat
    BY <1>0, <1>1
  <2>3. (PageSize - r) % PageSize \in Nat
    BY <2>2, <1>0
  <2> QED BY <2>1, <2>3
<1>3. a + PageSize - r = PageSize * (d + 1)
  BY <1>0, <1>1
<1>4. (PageSize * (d + 1)) % PageSize = 0
  BY <1>0, <1>1
<1>5. a + PageSize - r \in Nat /\ a + PageSize - r > a
  BY <1>0, <1>1
<1>6. (a + PageSize - r) % PageSize = 0
  BY <1>3, <1>4
<1> QED BY <1>2, <1>5, <1>6 DEF r

\* The memory the boot loader leaves.
Packed(files) ==
  LET image == buildImage(files)
  IN  [a \in 0 .. MEMORY - 1 |->
         IF a \in KERNEL .. KERNEL + Len(image) - 1 THEN image[a - KERNEL + 1] ELSE GARBAGE]

\* Where everything goes.
LEMMA Layout ==
  ASSUME NEW files \in Packages
  PROVE  LET one == files.modules[1]
             two == files.modules[2]
             p == Len(files.kernel)
         IN  /\ p \in Nat /\ Len(one) \in Nat /\ Len(two) \in Nat
             /\ KERNEL + (p + 8 + Len(one) + 4 + Len(two)) <= uCodeModuleAddress
             /\ endOfKernelBinary(files) = KERNEL + p
             /\ KERNEL + p <= bss(files) /\ bss(files) <= endOfKernel(files)
             /\ bss(files) \in Nat /\ endOfKernel(files) \in Nat
             /\ endOfKernel(files) < uCodeModuleAddress
             /\ getStackBase(files) \in Int /\ getStackBase(files) + WORD <= uCodeModuleAddress
             /\ uCodeModuleAddress + Len(one) <= userBss(files)
             /\ userBss(files) \in Nat /\ userBss(files) <= endOfBinary(files)
             /\ endOfBinary(files) \in Nat /\ endOfBinary(files) <= uDataModuleAddress
             /\ uDataModuleAddress + Len(two) + PageSize < MEMORY
<1> DEFINE one == files.modules[1]
           two == files.modules[2]
           p == Len(files.kernel)
<1>1. p \in Nat /\ Len(one) \in Nat /\ Len(two) \in Nat /\ files.bss \in Nat /\ files.userBss \in Nat
  <2>1. files.kernel \in Seq(Byte) /\ one \in Seq(Byte) /\ two \in Seq(Byte)
    BY ImageIs, Zenon
  <2>2. files.bss \in Nat /\ files.userBss \in Nat
    BY FitsAssumption, Zenon
  <2> HIDE DEF one, two
  <2> QED BY <2>1, <2>2
<1>2. KERNEL + (p + 8 + Len(one) + 4 + Len(two)) <= uCodeModuleAddress
  BY ImageIs, FitsAssumption
<1> HIDE DEF one, two, p
<1>3. {KERNEL, uCodeModuleAddress, uDataModuleAddress, MEMORY, PageSize} \subseteq Nat /\ PageSize # 0
  BY AddressAssumption
<1>9. WORD \in Nat \ {0}
  BY SizesAssumption
<1>4. endOfKernelBinary(files) = KERNEL + p
  BY DEF endOfKernelBinary, p
<1>5. bss(files) \in Nat /\ KERNEL + p <= bss(files)
  <2>1. KERNEL + p \in Nat
    BY <1>1, <1>3
  <2>2. ALIGN(KERNEL + p) \in Nat /\ KERNEL + p <= ALIGN(KERNEL + p)
    BY <2>1, Pages
  <2>3. bss(files) = ALIGN(KERNEL + p)
    BY <1>4, Zenon DEF bss
  <2> QED BY <2>2, <2>3, Zenon
<1>6. endOfKernel(files) \in Nat /\ bss(files) <= endOfKernel(files)
  <2>1. bss(files) + files.bss \in Nat
    BY <1>5, <1>1
  <2>2. bss(files) + files.bss <= ALIGN(bss(files) + files.bss) /\ ALIGN(bss(files) + files.bss) \in Nat
    BY <2>1, Pages
  <2>3. bss(files) <= bss(files) + files.bss
    BY <1>1, <1>5
  <2> DEFINE e == ALIGN(bss(files) + files.bss)
  <2> HIDE DEF e
  <2>4. e \in Nat /\ bss(files) <= e
    BY <2>2, <2>3, <1>1, <1>5 DEF e
  <2> QED BY <2>4 DEF endOfKernel, e
<1>7. /\ getStackBase(files) = endOfKernel(files) + PageSize * 8 - WORD
      /\ getStackBase(files) + WORD <= uCodeModuleAddress
  BY FitsAssumption DEF getStackBase
<1>8. userBss(files) \in Nat /\ uCodeModuleAddress + Len(one) <= userBss(files)
  <2>1. uCodeModuleAddress + Len(one) \in Nat
    BY <1>1, <1>3
  <2> QED BY <2>1, Pages DEF userBss, one
<1>10. endOfBinary(files) = userBss(files) + files.userBss /\ endOfBinary(files) <= uDataModuleAddress
  BY FitsAssumption DEF endOfBinary
<1>11. uDataModuleAddress + Len(two) + PageSize < MEMORY
  BY FitsAssumption DEF two
<1>12. endOfKernel(files) < uCodeModuleAddress /\ getStackBase(files) \in Int
  BY <1>3, <1>6, <1>7, <1>9
<1>13. userBss(files) <= endOfBinary(files) /\ endOfBinary(files) \in Nat
  BY <1>1, <1>8, <1>10
<1> QED BY <1>1, <1>2, <1>4, <1>5, <1>6, <1>7, <1>8, <1>10, <1>11, <1>12, <1>13 DEF one, two, p

\* bytes are in mem from address a on.
Stored(mem, a, bytes) == \A i \in DOMAIN bytes : mem[a + i - 1] = bytes[i]

\* What is where when the modules have been loaded and .bss was cleared.
Ready(mem, files) ==
  /\ DOMAIN mem = 0 .. MEMORY - 1
  /\ Stored(mem, KERNEL, files.kernel)
  /\ \A a \in bss(files) .. endOfKernel(files) - 1 : mem[a] = 0
  /\ Stored(mem, uCodeModuleAddress, files.modules[1])
  /\ Stored(mem, uDataModuleAddress, files.modules[2])

\* Loading takes both modules to their places before they are cleared.
LEMMA LoadedInPlace ==
  ASSUME NEW files \in Packages
  PROVE  LET s == Loaded(Packed(files), files)
         IN  Ready(s.mem, files) /\ s.end = uDataModuleAddress + Len(files.modules[2])
<1> DEFINE k == files.kernel
           one == files.modules[1]
           two == files.modules[2]
           p == Len(k)
           q == p + 8 + Len(one)
           image == buildImage(files)
           mem0 == Packed(files)
           s0 == [mem |-> mem0, module |-> KERNEL + p + 4, end |-> 0]
           mem1 == memcpy(mem0, uCodeModuleAddress, KERNEL + p + 4 + 4, Len(one))
           s1 == [mem |-> mem1, module |-> KERNEL + p + 4 + 4 + Len(one), end |-> uCodeModuleAddress + Len(one)]
           mem2 == memcpy(mem1, uDataModuleAddress, KERNEL + p + 4 + 4 + Len(one) + 4, Len(two))
           s2 == [mem |-> mem2, module |-> KERNEL + p + 4 + 4 + Len(one) + 4 + Len(two),
                  end |-> uDataModuleAddress + Len(two)]
           mem3 == clearBSS(mem2, files)
<1>1. /\ k \in Seq(Byte) /\ one \in Seq(Byte) /\ two \in Seq(Byte)
      /\ Len(image) = q + 4 + Len(two)
      /\ \A i \in 1 .. p : image[i] = k[i]
      /\ \A j \in 1 .. 4 : /\ image[p + j] = Uint32(2)[j]
                           /\ image[p + 4 + j] = Uint32(Len(one))[j]
                           /\ image[q + j] = Uint32(Len(two))[j]
      /\ \A i \in 1 .. Len(one) : image[p + 8 + i] = one[i]
      /\ \A i \in 1 .. Len(two) : image[q + 4 + i] = two[i]
  BY ImageIs, Zenon
<1>2. /\ p \in Nat /\ Len(one) \in Nat /\ Len(two) \in Nat
      /\ KERNEL + (p + 8 + Len(one) + 4 + Len(two)) <= uCodeModuleAddress
      /\ endOfKernelBinary(files) = KERNEL + p
      /\ KERNEL + p <= bss(files) /\ bss(files) <= endOfKernel(files)
      /\ bss(files) \in Nat /\ endOfKernel(files) \in Nat
      /\ endOfKernel(files) < uCodeModuleAddress
      /\ uCodeModuleAddress + Len(one) <= uDataModuleAddress
      /\ uDataModuleAddress + Len(two) + PageSize < MEMORY
  <2>1. /\ uCodeModuleAddress + Len(one) <= userBss(files) /\ userBss(files) <= endOfBinary(files)
        /\ endOfBinary(files) <= uDataModuleAddress /\ userBss(files) \in Nat /\ endOfBinary(files) \in Nat
    BY Layout
  <2>2. uCodeModuleAddress \in Nat /\ uDataModuleAddress \in Nat /\ Len(one) \in Nat
    BY Layout, AddressAssumption
  <2>3. uCodeModuleAddress + Len(one) <= uDataModuleAddress
    <3> HIDE DEF one
    <3> QED BY <2>1, <2>2
  <2> QED BY <2>3, Layout
<1>3. KERNEL \in Nat /\ uCodeModuleAddress \in Nat /\ uDataModuleAddress \in Nat /\ MEMORY \in Nat /\ PageSize \in Nat
  BY AddressAssumption
<1>4. /\ DOMAIN mem0 = 0 .. MEMORY - 1
      /\ \A i \in 1 .. q + 4 + Len(two) : mem0[KERNEL + i - 1] = image[i]
  <2> HIDE DEF k, one, two, image
  <2>1. mem0 = [a \in 0 .. MEMORY - 1 |->
                  IF a \in KERNEL .. KERNEL + Len(image) - 1 THEN image[a - KERNEL + 1] ELSE GARBAGE]
    BY DEF Packed, image
  <2> HIDE DEF mem0
  <2>2. DOMAIN mem0 = 0 .. MEMORY - 1
    BY <2>1
  <2>3. ASSUME NEW i \in 1 .. q + 4 + Len(two) PROVE mem0[KERNEL + i - 1] = image[i]
    <3>1. /\ KERNEL + i - 1 \in KERNEL .. KERNEL + Len(image) - 1
          /\ KERNEL + i - 1 \in 0 .. MEMORY - 1
          /\ (KERNEL + i - 1) - KERNEL + 1 = i
      BY <1>1, <1>2, <1>3
    <3> QED BY <2>1, <3>1
  <2> QED BY <2>2, <2>3
<1> HIDE DEF mem0, k, one, two, image
<1>5. \A n \in Nat : n < MEMORY => ((n \div 256) \div 256) \div 256 < 256
  <2>1. \A x, y \in Nat : x <= y => x \div 256 <= y \div 256 /\ x \div 256 \in Nat /\ y \div 256 \in Nat
    OBVIOUS
  <2>2. \A n \in Nat : n < MEMORY => ((n \div 256) \div 256) \div 256 <= ((MEMORY \div 256) \div 256) \div 256
    BY <2>1, <1>3
  <2>3. ((MEMORY \div 256) \div 256) \div 256 < 256
    BY AddressAssumption
  <2>4. \A n \in Nat : ((n \div 256) \div 256) \div 256 \in Nat
    OBVIOUS
  <2> QED BY <2>2, <2>3, <2>4, <1>3
<1>6. readUint32(mem0, KERNEL + p) = 2
  <2>1. \A j \in 1 .. 4 : mem0[(KERNEL + p) + j - 1] = Uint32(2)[j]
    <3> TAKE j \in 1 .. 4
    <3>1. p + j \in 1 .. q + 4 + Len(two) /\ KERNEL + (p + j) - 1 = (KERNEL + p) + j - 1
      BY <1>2, <1>3
    <3> QED BY <3>1, <1>1, <1>4
  <2>2. KERNEL + p \in Nat /\ 2 \in Nat /\ ((2 \div 256) \div 256) \div 256 < 256
    BY <1>2, <1>3
  <2> QED BY <2>1, <2>2, ReadBack
<1>7. readUint32(mem0, KERNEL + p + 4) = Len(one)
  <2>1. \A j \in 1 .. 4 : mem0[(KERNEL + p + 4) + j - 1] = Uint32(Len(one))[j]
    <3> TAKE j \in 1 .. 4
    <3>1. p + 4 + j \in 1 .. q + 4 + Len(two) /\ KERNEL + (p + 4 + j) - 1 = (KERNEL + p + 4) + j - 1
      BY <1>2, <1>3
    <3> QED BY <3>1, <1>1, <1>4
  <2>2. KERNEL + p + 4 \in Nat /\ Len(one) < MEMORY
    BY <1>2, <1>3
  <2>3. ((Len(one) \div 256) \div 256) \div 256 < 256 /\ Len(one) \in Nat
    BY <2>2, <1>2, <1>5
  <2> DEFINE at == KERNEL + p + 4
  <2> HIDE DEF at
  <2>4. at \in Nat /\ \A j \in 1 .. 4 : mem0[at + j - 1] = Uint32(Len(one))[j]
    BY <2>1, <2>2 DEF at
  <2>5. readUint32(mem0, at) = Len(one)
    BY <2>3, <2>4, ReadBack
  <2> QED BY <2>5 DEF at
\* The first module goes behind the image, which stays as it is.
<1>8. /\ DOMAIN mem1 = 0 .. MEMORY - 1
      /\ \A a \in 0 .. uCodeModuleAddress - 1 : mem1[a] = mem0[a]
      /\ \A i \in 1 .. Len(one) : mem1[uCodeModuleAddress + i - 1] = one[i]
  <2>1. mem1 = [a \in 0 .. MEMORY - 1 |->
                  IF a \in uCodeModuleAddress .. uCodeModuleAddress + Len(one) - 1
                  THEN mem0[KERNEL + p + 4 + 4 + a - uCodeModuleAddress] ELSE mem0[a]]
    BY <1>4 DEF memcpy
  <2> HIDE DEF mem1
  <2>2. ASSUME NEW a \in 0 .. uCodeModuleAddress - 1 PROVE mem1[a] = mem0[a]
    <3>1. /\ a \in 0 .. MEMORY - 1
          /\ ~ (a \in uCodeModuleAddress .. uCodeModuleAddress + Len(one) - 1)
      BY <1>2, <1>3
    <3> QED BY <2>1, <3>1
  <2>3. ASSUME NEW i \in 1 .. Len(one) PROVE mem1[uCodeModuleAddress + i - 1] = one[i]
    <3>1. /\ uCodeModuleAddress + i - 1 \in uCodeModuleAddress .. uCodeModuleAddress + Len(one) - 1
          /\ uCodeModuleAddress + i - 1 \in 0 .. MEMORY - 1
          /\ KERNEL + p + 4 + 4 + (uCodeModuleAddress + i - 1) - uCodeModuleAddress = KERNEL + (p + 8 + i) - 1
          /\ p + 8 + i \in 1 .. q + 4 + Len(two)
      BY <1>2, <1>3
    <3>2. mem1[uCodeModuleAddress + i - 1] = mem0[KERNEL + (p + 8 + i) - 1]
      BY <2>1, <3>1
    <3> QED BY <3>1, <3>2, <1>1, <1>4
  <2> QED BY <2>1, <2>2, <2>3
<1> HIDE DEF mem1
<1>9. readUint32(mem1, KERNEL + p + 4 + 4 + Len(one)) = Len(two)
  <2>1. \A j \in 1 .. 4 : mem1[(KERNEL + p + 4 + 4 + Len(one)) + j - 1] = Uint32(Len(two))[j]
    <3> TAKE j \in 1 .. 4
    <3>1. /\ q + j \in 1 .. q + 4 + Len(two) /\ KERNEL + (q + j) - 1 = (KERNEL + p + 4 + 4 + Len(one)) + j - 1
          /\ KERNEL + (q + j) - 1 \in 0 .. uCodeModuleAddress - 1
      BY <1>2, <1>3
    <3>2. mem0[KERNEL + (q + j) - 1] = image[q + j]
      BY <3>1, <1>4
    <3> QED BY <3>1, <3>2, <1>1, <1>8
  <2>2. KERNEL + p + 4 + 4 + Len(one) \in Nat /\ Len(two) < MEMORY
    BY <1>2, <1>3
  <2>3. ((Len(two) \div 256) \div 256) \div 256 < 256 /\ Len(two) \in Nat
    BY <2>2, <1>2, <1>5
  <2> DEFINE at == KERNEL + p + 4 + 4 + Len(one)
  <2> HIDE DEF at
  <2>4. at \in Nat /\ \A j \in 1 .. 4 : mem1[at + j - 1] = Uint32(Len(two))[j]
    BY <2>1, <2>2 DEF at
  <2>5. readUint32(mem1, at) = Len(two)
    BY <2>3, <2>4, ReadBack
  <2> QED BY <2>5 DEF at
\* The second one goes behind the first.
<1>10. /\ DOMAIN mem2 = 0 .. MEMORY - 1
       /\ \A a \in 0 .. uDataModuleAddress - 1 : mem2[a] = mem1[a]
       /\ \A i \in 1 .. Len(two) : mem2[uDataModuleAddress + i - 1] = two[i]
  <2>1. mem2 = [a \in 0 .. MEMORY - 1 |->
                  IF a \in uDataModuleAddress .. uDataModuleAddress + Len(two) - 1
                  THEN mem1[KERNEL + p + 4 + 4 + Len(one) + 4 + a - uDataModuleAddress] ELSE mem1[a]]
    BY <1>8 DEF memcpy
  <2> HIDE DEF mem2
  <2>2. ASSUME NEW a \in 0 .. uDataModuleAddress - 1 PROVE mem2[a] = mem1[a]
    <3>1. /\ a \in 0 .. MEMORY - 1
          /\ ~ (a \in uDataModuleAddress .. uDataModuleAddress + Len(two) - 1)
      BY <1>2, <1>3
    <3> QED BY <2>1, <3>1
  <2>3. ASSUME NEW i \in 1 .. Len(two) PROVE mem2[uDataModuleAddress + i - 1] = two[i]
    <3>1. /\ uDataModuleAddress + i - 1 \in uDataModuleAddress .. uDataModuleAddress + Len(two) - 1
          /\ uDataModuleAddress + i - 1 \in 0 .. MEMORY - 1
          /\ KERNEL + p + 4 + 4 + Len(one) + 4 + (uDataModuleAddress + i - 1) - uDataModuleAddress
               = KERNEL + (q + 4 + i) - 1
          /\ q + 4 + i \in 1 .. q + 4 + Len(two)
          /\ KERNEL + (q + 4 + i) - 1 \in 0 .. uCodeModuleAddress - 1
      BY <1>2, <1>3
    <3>2. mem2[uDataModuleAddress + i - 1] = mem1[KERNEL + (q + 4 + i) - 1]
      BY <2>1, <3>1
    <3>3. mem1[KERNEL + (q + 4 + i) - 1] = image[q + 4 + i]
      BY <3>1, <1>4, <1>8
    <3> QED BY <3>1, <3>2, <3>3, <1>1
  <2> QED BY <2>1, <2>2, <2>3
<1> HIDE DEF mem2
<1>11. loadModules(mem0, KERNEL + p) = s2
  <2>1. loadModule(s0, uCodeModuleAddress) = s1
    BY <1>7 DEF loadModule, mem1
  <2>2. loadModule(s1, uDataModuleAddress) = s2
    BY <1>9 DEF loadModule, mem2
  <2>3. loadModules(mem0, KERNEL + p) = loadModule(loadModule(s0, uCodeModuleAddress), uDataModuleAddress)
    BY <1>6, LoadsTwo
  <2> HIDE DEF s0, s1, s2
  <2> QED BY <2>1, <2>2, <2>3, Zenon
\* What is cleared lies between the kernel and the first module.
<1>12. /\ DOMAIN mem3 = 0 .. MEMORY - 1
       /\ \A a \in bss(files) .. endOfKernel(files) - 1 : mem3[a] = 0
       /\ \A a \in 0 .. MEMORY - 1 : a < bss(files) \/ a >= endOfKernel(files) => mem3[a] = mem2[a]
  <2>0. bss(files) + (endOfKernel(files) - bss(files)) - 1 = endOfKernel(files) - 1
    BY <1>2
  <2>1. mem3 = [a \in 0 .. MEMORY - 1 |-> IF a \in bss(files) .. endOfKernel(files) - 1 THEN 0 ELSE mem2[a]]
    BY <1>10, <2>0, Zenon DEF clearBSS, memset
  <2> HIDE DEF mem3
  <2>2. \A a \in bss(files) .. endOfKernel(files) - 1 : mem3[a] = 0
    <3> TAKE a \in bss(files) .. endOfKernel(files) - 1
    <3>1. a \in 0 .. MEMORY - 1 /\ a \in bss(files) .. endOfKernel(files) - 1
      BY <1>2, <1>3
    <3> QED BY <2>1, <3>1
  <2>3. \A a \in 0 .. MEMORY - 1 : a < bss(files) \/ a >= endOfKernel(files) => mem3[a] = mem2[a]
    <3> TAKE a \in 0 .. MEMORY - 1
    <3> HAVE a < bss(files) \/ a >= endOfKernel(files)
    <3>1. ~ (a \in bss(files) .. endOfKernel(files) - 1)
      BY <1>2, <1>3
    <3> QED BY <2>1, <3>1
  <2> QED BY <2>1, <2>2, <2>3
<1> HIDE DEF mem3
<1>13. Loaded(mem0, files) = [s2 EXCEPT !.mem = mem3]
  BY <1>2, <1>11 DEF Loaded, mem3
<1>14. Stored(mem3, KERNEL, k)
  <2>1. ASSUME NEW i \in 1 .. p PROVE mem3[KERNEL + i - 1] = k[i]
    <3>1. /\ i \in 1 .. q + 4 + Len(two) /\ KERNEL + i - 1 \in 0 .. MEMORY - 1 /\ KERNEL + i - 1 < bss(files)
          /\ KERNEL + i - 1 \in 0 .. uCodeModuleAddress - 1 /\ KERNEL + i - 1 \in 0 .. uDataModuleAddress - 1
      BY <1>2, <1>3
    <3>2. mem3[KERNEL + i - 1] = mem0[KERNEL + i - 1]
      BY <3>1, <1>8, <1>10, <1>12
    <3> QED BY <3>1, <3>2, <1>1, <1>4
  <2>2. DOMAIN k = 1 .. p
    BY <1>1
  <2> QED BY <2>1, <2>2 DEF Stored
<1>15. Stored(mem3, uCodeModuleAddress, one)
  <2>1. ASSUME NEW i \in 1 .. Len(one) PROVE mem3[uCodeModuleAddress + i - 1] = one[i]
    <3>1. /\ uCodeModuleAddress + i - 1 \in 0 .. MEMORY - 1 /\ uCodeModuleAddress + i - 1 >= endOfKernel(files)
          /\ uCodeModuleAddress + i - 1 \in 0 .. uDataModuleAddress - 1
      BY <1>2, <1>3
    <3> QED BY <3>1, <1>8, <1>10, <1>12
  <2>2. DOMAIN one = 1 .. Len(one)
    BY <1>1
  <2> QED BY <2>1, <2>2 DEF Stored
<1>16. Stored(mem3, uDataModuleAddress, two)
  <2>1. ASSUME NEW i \in 1 .. Len(two) PROVE mem3[uDataModuleAddress + i - 1] = two[i]
    <3>1. /\ uDataModuleAddress + i - 1 \in 0 .. MEMORY - 1 /\ uDataModuleAddress + i - 1 >= endOfKernel(files)
      BY <1>2, <1>3
    <3> QED BY <3>1, <1>10, <1>12
  <2>2. DOMAIN two = 1 .. Len(two)
    BY <1>1
  <2> QED BY <2>1, <2>2 DEF Stored
<1>17. Loaded(mem0, files).mem = mem3 /\ Loaded(mem0, files).end = uDataModuleAddress + Len(two)
  BY <1>13
<1> QED BY <1>12, <1>14, <1>15, <1>16, <1>17 DEF Ready, mem0, k, one, two

\* What is known of memory before the first program runs.
PlaceInv ==
  /\ phase \in {"packed", "booted", "started", "running"}
  /\ phase # "running" => package \in Packages
  /\ phase = "packed" => memory = Packed(package)
  /\ phase \in {"booted", "started"} =>
       LET end == uDataModuleAddress + Len(package.modules[2])
       IN  Ready(memory, package) /\ startOfMem = end + PageSize - (end % PageSize)
  /\ phase = "started" => \A a \in userBss(package) .. endOfBinary(package) - 1 : memory[a] = 0

\* Every step of the kernel keeps it.
LEMMA PlaceKept == PlaceInv /\ [KernelNext]_<<build, start, heap, pool>> => PlaceInv'
<1> SUFFICES ASSUME PlaceInv, [KernelNext]_<<build, start, heap, pool>> PROVE PlaceInv'
  OBVIOUS
<1>1. CASE UNCHANGED <<phase, package, memory, startOfMem>>
  BY <1>1 DEF PlaceInv
<1>2. CASE Boot
  <2>1. /\ phase' = "booted" /\ package' = package /\ package \in Packages
        /\ memory' = Loaded(Packed(package), package).mem
        /\ startOfMem' = Loaded(Packed(package), package).end + PageSize
                           - (Loaded(Packed(package), package).end % PageSize)
    BY <1>2 DEF Boot, PlaceInv
  <2>2. /\ Ready(memory', package)
        /\ Loaded(Packed(package), package).end = uDataModuleAddress + Len(package.modules[2])
    BY <2>1, LoadedInPlace
  <2> QED BY <2>1, <2>2 DEF PlaceInv
<1>3. CASE Start
  <2>1. /\ phase = "booted" /\ phase' = "started" /\ package' = package /\ package \in Packages
        /\ startOfMem' = startOfMem /\ Ready(memory, package)
        /\ memory' = memset(memory, userBss(package), 0, endOfBinary(package) - userBss(package))
        /\ LET end == uDataModuleAddress + Len(package.modules[2])
           IN  startOfMem = end + PageSize - (end % PageSize)
    BY <1>3 DEF Start, PlaceInv
  <2> DEFINE one == package.modules[1]
             two == package.modules[2]
             p == Len(package.kernel)
  <2>2. /\ p \in Nat /\ Len(one) \in Nat /\ Len(two) \in Nat
        /\ KERNEL + p <= bss(package) /\ bss(package) <= endOfKernel(package)
        /\ bss(package) \in Nat /\ endOfKernel(package) \in Nat
        /\ endOfKernel(package) < uCodeModuleAddress
        /\ uCodeModuleAddress + Len(one) <= userBss(package)
        /\ userBss(package) \in Nat /\ userBss(package) <= endOfBinary(package)
        /\ endOfBinary(package) \in Nat /\ endOfBinary(package) <= uDataModuleAddress
        /\ uDataModuleAddress + Len(two) + PageSize < MEMORY
    BY <2>1, Layout, Zenon
  <2>3. KERNEL \in Nat /\ uCodeModuleAddress \in Nat /\ uDataModuleAddress \in Nat /\ MEMORY \in Nat /\ PageSize \in Nat
    BY AddressAssumption
  <2>4. DOMAIN package.kernel = 1 .. p /\ DOMAIN one = 1 .. Len(one) /\ DOMAIN two = 1 .. Len(two)
    <3>1. package.kernel \in Seq(Byte) /\ one \in Seq(Byte) /\ two \in Seq(Byte)
      BY <2>1, ImageIs, Zenon
    <3> QED BY <3>1
  <2> HIDE DEF one, two, p
  <2>5. /\ DOMAIN memory' = 0 .. MEMORY - 1
        /\ \A a \in userBss(package) .. endOfBinary(package) - 1 : memory'[a] = 0
        /\ \A a \in 0 .. MEMORY - 1 : a < userBss(package) \/ a >= endOfBinary(package) => memory'[a] = memory[a]
    <3>0. userBss(package) + (endOfBinary(package) - userBss(package)) - 1 = endOfBinary(package) - 1
      BY <2>2
    <3>1. memory' = [a \in 0 .. MEMORY - 1 |->
                       IF a \in userBss(package) .. endOfBinary(package) - 1 THEN 0 ELSE memory[a]]
      BY <2>1, <3>0, Zenon DEF memset, Ready
    <3>2. \A a \in userBss(package) .. endOfBinary(package) - 1 : memory'[a] = 0
      <4> TAKE a \in userBss(package) .. endOfBinary(package) - 1
      <4>1. /\ a \in 0 .. MEMORY - 1
            /\ a \in userBss(package) .. endOfBinary(package) - 1
        BY <2>2, <2>3
      <4> QED BY <3>1, <4>1
    <3>3. \A a \in 0 .. MEMORY - 1 : a < userBss(package) \/ a >= endOfBinary(package) => memory'[a] = memory[a]
      <4> TAKE a \in 0 .. MEMORY - 1
      <4> HAVE a < userBss(package) \/ a >= endOfBinary(package)
      <4>1. ~ (a \in userBss(package) .. endOfBinary(package) - 1)
        BY <2>2, <2>3
      <4> QED BY <3>1, <4>1
    <3> QED BY <3>1, <3>2, <3>3
  <2>6. Ready(memory', package)
    <3>1. /\ \A i \in 1 .. p : memory[KERNEL + i - 1] = package.kernel[i]
          /\ \A a \in bss(package) .. endOfKernel(package) - 1 : memory[a] = 0
          /\ \A i \in 1 .. Len(one) : memory[uCodeModuleAddress + i - 1] = one[i]
          /\ \A i \in 1 .. Len(two) : memory[uDataModuleAddress + i - 1] = two[i]
      BY <2>1, <2>4 DEF Ready, Stored, one, two
    <3>2. ASSUME NEW i \in 1 .. p PROVE memory'[KERNEL + i - 1] = package.kernel[i]
      <4>1. KERNEL + i - 1 \in 0 .. MEMORY - 1 /\ KERNEL + i - 1 < userBss(package)
        BY <2>2, <2>3
      <4> QED BY <4>1, <3>1, <2>5
    <3>3. ASSUME NEW a \in bss(package) .. endOfKernel(package) - 1 PROVE memory'[a] = 0
      <4>1. a \in 0 .. MEMORY - 1 /\ a < userBss(package)
        BY <2>2, <2>3
      <4> QED BY <4>1, <3>1, <2>5
    <3>4. ASSUME NEW i \in 1 .. Len(one) PROVE memory'[uCodeModuleAddress + i - 1] = one[i]
      <4>1. uCodeModuleAddress + i - 1 \in 0 .. MEMORY - 1 /\ uCodeModuleAddress + i - 1 < userBss(package)
        BY <2>2, <2>3
      <4> QED BY <4>1, <3>1, <2>5
    <3>5. ASSUME NEW i \in 1 .. Len(two) PROVE memory'[uDataModuleAddress + i - 1] = two[i]
      <4>1. uDataModuleAddress + i - 1 \in 0 .. MEMORY - 1 /\ uDataModuleAddress + i - 1 >= endOfBinary(package)
        BY <2>2, <2>3
      <4> QED BY <4>1, <3>1, <2>5
    <3> QED BY <2>4, <2>5, <3>2, <3>3, <3>4, <3>5 DEF Ready, Stored, one, two
  <2> QED BY <2>1, <2>5, <2>6 DEF PlaceInv
<1>4. CASE Run
  BY <1>4 DEF Run, PlaceInv
<1>5. CASE ListStep \/ BuddyStep
  BY <1>1, <1>5 DEF ListStep, BuddyStep, start
<1>6. CASE UNCHANGED <<build, start, heap, pool>>
  BY <1>1, <1>6 DEF start
<1> QED BY <1>2, <1>3, <1>4, <1>5, <1>6 DEF KernelNext

\* When the first program starts, everything is in its place.
THEOREM PlacesKept == KernelSpec => []StartsInPlace
<1>1. KernelInit => PlaceInv
  BY DEF KernelInit, PlaceInv, Packed
<1>2. PlaceInv => StartsInPlace
  <2> SUFFICES ASSUME PlaceInv, phase = "started" PROVE StartsInPlace
    BY DEF PlaceInv, StartsInPlace
  <2> DEFINE one == package.modules[1]
             two == package.modules[2]
             end == uDataModuleAddress + Len(two)
  <2>1. /\ package \in Packages /\ Ready(memory, package)
        /\ startOfMem = end + PageSize - (end % PageSize)
        /\ \A a \in userBss(package) .. endOfBinary(package) - 1 : memory[a] = 0
    BY DEF PlaceInv
  <2>2. /\ Len(one) \in Nat /\ Len(two) \in Nat
        /\ getStackBase(package) \in Int /\ getStackBase(package) + WORD <= uCodeModuleAddress
        /\ uCodeModuleAddress + Len(one) <= userBss(package)
        /\ userBss(package) \in Nat /\ userBss(package) <= endOfBinary(package)
        /\ endOfBinary(package) \in Nat /\ endOfBinary(package) <= uDataModuleAddress
    BY <2>1, Layout, Zenon
  <2>3. uCodeModuleAddress \in Nat /\ uDataModuleAddress \in Nat /\ WORD \in Nat
    BY AddressAssumption, SizesAssumption
  <2>4. startOfMem > end /\ startOfMem \in Nat /\ startOfMem % PageSize = 0 /\ end \in Nat
    <3>1. end \in Nat
      BY <2>2, <2>3
    <3> HIDE DEF end
    <3> QED BY <3>1, <2>1, Pages
  <2>5. DOMAIN moduleAddresses = {1, 2} /\ moduleAddresses[1] = uCodeModuleAddress /\ moduleAddresses[2] = uDataModuleAddress
    BY DEF moduleAddresses
  <2>6. \A i \in DOMAIN moduleAddresses : Holds(moduleAddresses[i], package.modules[i])
    BY <2>1, <2>5 DEF Holds, Ready, Stored
  <2>7. \A i \in DOMAIN moduleAddresses : startOfMem >= moduleAddresses[i] + Len(package.modules[i])
    <3>1. startOfMem >= uCodeModuleAddress + Len(one) /\ startOfMem >= uDataModuleAddress + Len(two)
      <4> HIDE DEF one, two
      <4> QED BY <2>2, <2>3, <2>4
    <3> QED BY <3>1, <2>5
  <2>8. startOfMem > getStackBase(package) + WORD /\ startOfMem >= endOfBinary(package)
    <3> HIDE DEF one, two
    <3> QED BY <2>2, <2>3, <2>4
  <2>9. Holds(KERNEL, package.kernel) /\ Zero(bss(package), endOfKernel(package))
        /\ Zero(userBss(package), endOfBinary(package))
    BY <2>1 DEF Holds, Zero, Ready, Stored
  <2> QED BY <2>4, <2>6, <2>7, <2>8, <2>9 DEF StartsInPlace
<1> QED BY <1>1, <1>2, PlaceKept, PTL DEF KernelSpec
================================================================================
