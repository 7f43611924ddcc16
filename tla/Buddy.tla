--------------------------------- MODULE Buddy ---------------------------------
(***************************************************************************)
(* The allocator of Kernel/MemoryManager.c in the build with -DBUDDY: a    *)
(* pool of 2^top blocks, one entry of the array blocks for each, and a     *)
(* list of free blocks for each level; a block of level k spans 2^k        *)
(* entries.  Blocks are named by their index in the array.  malloc and     *)
(* free run with interrupts off, so each is one step.                      *)
(***************************************************************************)
EXTENDS Integers, FiniteSets

CONSTANTS
  NULL,
  TOP,         \* the level of the whole pool
  BLOCK_SIZE,
  INFO,        \* sizeof(BuddyInfo)
  SizeMod,     \* size_t is unsigned modulo this (2^64)
  Requests     \* the sizes programs ask for

\* 1 << k.
Power[k \in Nat] == IF k = 0 THEN 1 ELSE 2 * Power[k - 1]

NullAssumption == NULL \notin Int
SizesAssumption ==
  /\ TOP \in Nat \ {0} /\ BLOCK_SIZE \in Nat \ {0} /\ INFO \in Nat
  /\ SizeMod \in Nat /\ BLOCK_SIZE * Power[TOP] < SizeMod
RequestsAssumption == Requests \subseteq Nat

VARIABLES
  buddy,  \* blocks (size, level, next, prev), freeRow, and the counters of infoMem
  held,   \* what programs hold: the pointers returned, from buddy->start, and the sizes asked for
  lost    \* malloc went through a NULL pointer

vars == <<buddy, held, lost>>

Block == 0 .. Power[TOP] - 1
Level == 0 .. TOP

SIZE(level) == Power[level] * BLOCK_SIZE

log2(n) == IF n = 0 THEN 0 ELSE CHOOSE k \in 0 .. n : Power[k] <= n /\ n < Power[k + 1]

total == (SIZE(TOP) - INFO) % SizeMod

Init ==
  /\ buddy = [size    |-> [b \in Block |-> 0],
              level   |-> [b \in Block |-> IF b = 0 THEN TOP ELSE 0],
              next    |-> [b \in Block |-> NULL],
              prev    |-> [b \in Block |-> NULL],
              freeRow |-> [k \in Level |-> IF k = TOP THEN 0 ELSE NULL],
              allocated |-> 0,
              free      |-> total]
  /\ held = [a \in {} |-> 0]
  /\ lost = FALSE

-----------------------------------------------------------------------------
(* The functions on the rows; m is a state of buddy.                       *)

\* A faulty variant: the block stays marked as in use.
AddBlockInUse(m, b) ==
  [m EXCEPT !.next[b] = m.freeRow[m.level[b]], !.prev[b] = NULL, !.freeRow[m.level[b]] = b]

addBlock(m, b) ==
  LET row == m.level[b]
      head == m.freeRow[row]
  IN  [m EXCEPT !.next[b] = head,
                !.prev = [x \in Block |-> IF x = head THEN b ELSE IF x = b THEN NULL ELSE @[x]],
                !.freeRow[row] = b,
                !.size[b] = 0,
                !.allocated = (@ - SIZE(row)) % SizeMod,
                !.free = (@ + SIZE(row)) % SizeMod]

removeBlock(m, b) ==
  LET row == m.level[b]
      before == m.prev[b]
      after == m.next[b]
  IN  [m EXCEPT !.next = [x \in Block |-> IF x = b THEN NULL ELSE IF x = before THEN after ELSE @[x]],
                !.prev = [x \in Block |-> IF x = b THEN NULL ELSE IF x = after THEN before ELSE @[x]],
                !.freeRow[row] = IF before = NULL THEN after ELSE @,
                !.size[b] = SIZE(row),
                !.allocated = (@ + SIZE(row)) % SizeMod,
                !.free = (@ - SIZE(row)) % SizeMod]

getBuddy(m, b) ==
  IF (b \div Power[m.level[b]]) % 2 = 1 THEN b - Power[m.level[b]] ELSE b + Power[m.level[b]]

\* A faulty variant: the second half keeps the level it had.
SplitKeepingLevel(m, row) ==
  LET b == m.freeRow[row]
      halves == [removeBlock(m, b) EXCEPT !.level[b] = row - 1]
  IN  IF row = 0 \/ b = NULL THEN m
      ELSE addBlock(addBlock(halves, getBuddy(halves, b)), b)

\* The first block of the row becomes two of the row below.
splitBlock(m, row) ==
  LET b == m.freeRow[row]
      half == [removeBlock(m, b) EXCEPT !.level[b] = row - 1]
      halves == [half EXCEPT !.level[getBuddy(half, b)] = row - 1]
  IN  IF row = 0 \/ b = NULL THEN m
      ELSE addBlock(addBlock(halves, getBuddy(half, b)), b)

\* One turn of mergeBuddy, with the block it goes on with.
mergeOnce(m, b) ==
  LET other == getBuddy(m, b)
      first == IF b > other THEN other ELSE b
      apart == removeBlock(removeBlock(m, b), other)
      joined == addBlock([apart EXCEPT !.level[first] = @ + 1], first)
  IN  IF \/ m.level[b] = TOP
         \/ m.level[b] # m.level[other]
         \/ m.size[b] = 0
         \/ m.size[other] = 0
      THEN <<m, b>>
      ELSE <<joined, first>>

\* It goes on until it stops, at the top level at the latest.
mergeBuddy(m, b) ==
  LET merged[k \in Level] ==
        IF k = 0 THEN <<m, b>> ELSE mergeOnce(merged[k - 1][1], merged[k - 1][2])
  IN  merged[TOP][1]

-----------------------------------------------------------------------------

\* A faulty variant: what is left over of the division is forgotten.
LevelRoundedDown(n) == log2(n \div BLOCK_SIZE)

\* The row whose blocks are long enough for n bytes.
LevelFor(n) ==
  LET level == log2(n \div BLOCK_SIZE)
  IN  IF SIZE(level) < n THEN level + 1 ELSE level

\* The rows from that one up that have a block.
Usable(level) == {k \in level .. TOP : buddy.freeRow[k] # NULL}

\* malloc splits the first block of the lowest usable row down to its own row.
SplitDown(level) ==
  LET lowest == CHOOSE k \in Usable(level) : \A j \in Usable(level) : k <= j
      after[k \in level .. lowest] ==
        IF k = lowest THEN buddy ELSE splitBlock(after[k + 1], k + 1)
  IN  after[level]

Malloc ==
  \E request \in Requests :
    LET level == LevelFor(request)
        m == SplitDown(level)
        b == m.freeRow[level]
    IN  /\ level <= TOP /\ Usable(level) # {}
        /\ buddy' = removeBlock(m, b)
        /\ held' = [a \in DOMAIN held \cup {b * BLOCK_SIZE} |->
                      IF a = b * BLOCK_SIZE THEN request ELSE held[a]]
        /\ UNCHANGED lost

MallocFails ==
  /\ \E request \in Requests : LevelFor(request) <= TOP /\ Usable(LevelFor(request)) = {}
  /\ UNCHANGED vars

\* Above the last row the test for a row with a block passes without one, the
\* rows are split in vain and removeBlock is called with NULL.
MallocTooLong ==
  /\ \E request \in Requests : LevelFor(request) > TOP
  /\ lost' = TRUE
  /\ UNCHANGED <<buddy, held>>

\* What free accepts, as an offset from buddy->start.
Freeable(offset) == offset % BLOCK_SIZE = 0 /\ buddy.size[offset \div BLOCK_SIZE] # 0

Free ==
  \E offset \in 0 .. SIZE(TOP) - 1 :
    LET b == offset \div BLOCK_SIZE
    IN  /\ Freeable(offset)
        /\ buddy' = mergeBuddy(addBlock(buddy, b), b)
        /\ held' = [a \in DOMAIN held \ {offset} |-> held[a]]
        /\ UNCHANGED lost

FreeFails ==
  /\ \E offset \in 0 .. SIZE(TOP) - 1 : ~ Freeable(offset)
  /\ UNCHANGED vars

Next ==
  \/ /\ ~ lost
     /\ Malloc \/ MallocFails \/ MallocTooLong \/ Free \/ FreeFails
  \/ lost /\ UNCHANGED vars

Spec == Init /\ [][Next]_vars

-----------------------------------------------------------------------------
(* Properties.                                                             *)

\* What the fields of BuddyInfo and infoMem hold.
BuddyInfo ==
  [size : [Block -> {0} \cup {SIZE(k) : k \in Level}],
   level : [Block -> Level],
   next : [Block -> Block \cup {NULL}],
   prev : [Block -> Block \cup {NULL}],
   freeRow : [Level -> Block \cup {NULL}],
   allocated : 0 .. SizeMod - 1,
   free : 0 .. SizeMod - 1]

TypeOK ==
  /\ buddy \in BuddyInfo
  /\ held \in [DOMAIN held -> Requests]
  /\ lost \in BOOLEAN

\* The blocks met when row k is walked: the least set with its first block that
\* is closed under the links.
Closed(part, k) ==
  /\ buddy.freeRow[k] \in part \cup {NULL}
  /\ \A b \in part : buddy.next[b] \in part \cup {NULL}

Row(k) == {b \in Block : \A part \in SUBSET Block : Closed(part, k) => b \in part}

Rows == UNION {Row(k) : k \in Level}
InUse == {b \in Block : buddy.size[b] # 0}
Span(b) == b .. b + Power[buddy.level[b]] - 1

\* Every row is linked the same way in both directions, and holds the blocks of
\* its level only: removeBlock may take any of them out.
RowsLinked ==
  TypeOK /\ \A k \in Level : \A b \in Row(k) :
    /\ buddy.level[b] = k
    /\ IF buddy.prev[b] = NULL THEN buddy.freeRow[k] = b ELSE buddy.next[buddy.prev[b]] = b
    /\ buddy.next[b] # NULL => buddy.prev[buddy.next[b]] = b

\* The blocks that are free and the ones that programs hold fill the pool, each
\* at a multiple of its length and none over another, and the rows hold the free ones.
PoolIsTiled ==
  /\ RowsLinked
  /\ InUse = {a \div BLOCK_SIZE : a \in DOMAIN held}
  /\ UNION {Span(b) : b \in Rows \cup InUse} = Block
  /\ \A b \in Rows \cup InUse :
       /\ b % Power[buddy.level[b]] = 0
       /\ \A c \in (Rows \cup InUse) \ {b} : Span(b) \cap Span(c) = {}

\* allocated is what is handed out in whole blocks, however often blocks were
\* split and freed, and free is the rest, modulo the width of size_t.
StatusIsExact ==
  /\ buddy.allocated = Cardinality(UNION {Span(b) : b \in InUse}) * BLOCK_SIZE
  /\ (buddy.allocated + buddy.free) % SizeMod = total

\* The buddy allocator keeps the promises of malloc and free in a pool that
\* begins at buddy->start.
Addresses == {b * BLOCK_SIZE : b \in Block}
HIGH == SIZE(TOP)
Promise == INSTANCE Allocator WITH Requests <- Requests, Addresses <- Addresses, HIGH <- HIGH, held <- held
KeepsPromise == Promise!Spec
===============================================================================
