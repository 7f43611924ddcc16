-------------------------------- MODULE HeapList --------------------------------
(***************************************************************************)
(* The allocator of Kernel/MemoryManager.c in the default build: two       *)
(* linked lists of blocks, the free one kept in the order of addresses.    *)
(* Addresses are bytes from initialAddress, sizes are in bytes.  malloc    *)
(* and free run with interrupts off, so each is one step.                  *)
(*                                                                         *)
(* alloc_mem is not initialised by the code: it is taken to start as NULL, *)
(* as it does in memory that is zero when the machine starts.              *)
(***************************************************************************)
EXTENDS Integers, FiniteSets

CONSTANTS
  NULL,
  HEAP_SIZE,            \* of the memory given to initalizeMemoryManager
  WORD,            \* sizeof(size_t)
  HEADER,          \* sizeof(MemBlock)
  MANAGER,         \* sizeof(MemoryManager)
  MIN_BLOCK_SIZE,
  SizeMod,         \* size_t is unsigned modulo this (2^64)
  Requests         \* the sizes programs ask for

ASSUME NullAssumption == NULL \notin Int
ASSUME SizesAssumption ==
  /\ WORD \in Nat \ {0} /\ HEADER \in Nat \ {0} /\ MANAGER \in Nat
  /\ MIN_BLOCK_SIZE \in Nat /\ MIN_BLOCK_SIZE >= HEADER
  /\ HEAP_SIZE \in Nat /\ HEAP_SIZE >= HEADER + WORD /\ HEAP_SIZE >= MANAGER
  /\ SizeMod \in Nat \ {0} /\ HEAP_SIZE < SizeMod
  /\ HEADER % WORD = 0 /\ MANAGER % WORD = 0 /\ HEAP_SIZE % WORD = 0
\* What is rounded up beyond the largest size_t comes out as 0, and a block of any
\* length would do for it: nobody asks for that much.
ASSUME RequestsAssumption == WORD <= SizeMod /\ Requests \subseteq 0 .. SizeMod - WORD

VARIABLES
  size, next,  \* the fields of the block headers, by address
  free_mem, alloc_mem,
  infoMem,
  held         \* what programs hold: the pointers returned and the sizes asked for

vars == <<size, next, free_mem, alloc_mem, infoMem, held>>

Blocks == DOMAIN size

\* Where block b ends.
End(b) == b + HEADER + size[b]

-----------------------------------------------------------------------------
(* Walking a list, given by its links and its head.                        *)

\* The blocks met on the walk: the least set with the head that is closed
\* under the links.
Closed(links, part) == \A x \in part : links[x] \in part \cup {NULL}

Listed(links, head) ==
  LET parts == {part \in SUBSET DOMAIN links :
                  head \in part \cup {NULL} /\ Closed(links, part)}
  IN  {b \in DOMAIN links : \A part \in parts : b \in part}

\* The first of the wanted blocks met on the walk, or NULL.
First(links, head, wanted) ==
  LET met == Listed(links, head) \cap wanted
      first == {b \in met : met \subseteq Listed(links, b)}
  IN  IF first = {} THEN NULL ELSE CHOOSE b \in first : TRUE

\* The block the walk meets before b (before its end, when b is NULL).
Before(links, head, b) ==
  LET previous == {x \in Listed(links, head) : links[x] = b}
  IN  IF previous = {} THEN NULL ELSE CHOOSE x \in previous : TRUE

-----------------------------------------------------------------------------

Init ==
  /\ size = [b \in {MANAGER} |-> HEAP_SIZE - HEADER]
  /\ next = [b \in {MANAGER} |-> NULL]
  /\ free_mem = MANAGER
  /\ alloc_mem = NULL
  /\ infoMem = [allocated |-> HEADER, free |-> (HEAP_SIZE - HEADER - MANAGER) % SizeMod,
                total |-> HEAP_SIZE - MANAGER]
  /\ held = [a \in {} |-> 0]

\* A faulty variant: not rounded.
AsAsked(n) == n

\* The size asked for, rounded up to whole words.
Aligned(n) == IF n % WORD = 0 THEN n ELSE (n + WORD - (n % WORD)) % SizeMod

\* Bytes that go from free to allocated, in whole or but for the header.
Account(info, n) ==
  [info EXCEPT !.allocated = (@ + n) % SizeMod, !.free = (@ - n) % SizeMod]

\* The new block starts after the n bytes of b.
NewBlock(b, n) == b + HEADER + n

Splits(b, n) == size[b] >= n + MIN_BLOCK_SIZE

\* malloc takes block b off the free list, without what it does not need, and
\* puts it at the head of the allocated list.
Take(b, n) ==
  LET new == IF Splits(b, n) THEN {NewBlock(b, n)} ELSE {}
      rest == IF Splits(b, n) THEN NewBlock(b, n) ELSE next[b]
      previous == Before(next, free_mem, b)
      taken == IF Splits(b, n) THEN n ELSE size[b]
  IN  /\ size' = [x \in Blocks \cup new |->
                    IF x \in new THEN size[b] - n - HEADER
                    ELSE IF x = b THEN taken ELSE size[x]]
      /\ next' = [x \in Blocks \cup new |->
                    IF x \in new THEN next[b]
                    ELSE IF x = b THEN alloc_mem
                    ELSE IF x = previous THEN rest ELSE next[x]]
      /\ free_mem' = IF previous = NULL THEN rest ELSE free_mem
      /\ alloc_mem' = b
      /\ infoMem' = Account(infoMem, IF Splits(b, n) THEN taken + HEADER ELSE taken)

Malloc ==
  \E request \in Requests \ {0} :
    LET n == Aligned(request)
        b == First(next, free_mem, {x \in Blocks : size[x] >= n})
    IN  /\ b # NULL
        /\ Take(b, n)
        /\ held' = [a \in DOMAIN held \cup {b + HEADER} |->
                      IF a = b + HEADER THEN request ELSE held[a]]

\* malloc returns NULL for no bytes and when no block is long enough.
MallocFails ==
  /\ \E request \in Requests :
       request = 0 \/ First(next, free_mem, {x \in Blocks : size[x] >= Aligned(request)}) = NULL
  /\ UNCHANGED vars

\* The links after b has been taken off the allocated list ...
Unlinked(b) ==
  LET previous == Before(next, alloc_mem, b)
  IN  [x \in Blocks |-> IF x = previous THEN next[b] ELSE next[x]]

\* A faulty variant: it is put at the head, whatever its address.
PlaceAtHead(links, b) == NULL

\* ... and put into the free list before the first block that is not below it.
PlaceFor(links, b) ==
  Before(links, free_mem, First(links, free_mem, {x \in Blocks : x >= b}))

Inserted(links, b) ==
  LET previous == PlaceFor(links, b)
  IN  [x \in Blocks |->
         IF x = b THEN IF previous = NULL THEN free_mem ELSE links[previous]
         ELSE IF x = previous THEN b ELSE links[x]]

\* The loop that joins contiguous free blocks.  Block x is joined to the next
\* when that is where x ends; a block grows to the end of the last of the
\* joined ones that start with it.
Joins(links, free) ==
  [x \in Blocks |-> IF x \in free /\ links[x] = End(x) THEN links[x] ELSE NULL]

Coalesce(links, free) ==
  LET joins == Joins(links, free)
      kept == {b \in Blocks : \A x \in Blocks : joins[x] # b}
      Last(b) == Before(joins, b, NULL)
  IN  /\ size' = [b \in kept |-> End(Last(b)) - b - HEADER]
      /\ next' = [b \in kept |-> links[Last(b)]]

Release(b) ==
  LET links == Inserted(Unlinked(b), b)
      head == IF PlaceFor(Unlinked(b), b) = NULL THEN b ELSE free_mem
  IN  /\ free_mem' = head
      /\ alloc_mem' = IF Before(next, alloc_mem, b) = NULL THEN next[b] ELSE alloc_mem
      /\ infoMem' = Account(infoMem, - (size[b] + HEADER))
      /\ Coalesce(links, Listed(links, head))

\* free(ptr) of a pointer that malloc returned and nobody freed yet.
Free ==
  \E ptr \in DOMAIN held :
    /\ ptr - HEADER \in Listed(next, alloc_mem)
    /\ Release(ptr - HEADER)
    /\ held' = [a \in DOMAIN held \ {ptr} |-> held[a]]

\* free(ptr) of any other pointer does nothing.
FreeFails ==
  /\ (MANAGER .. MANAGER + HEAP_SIZE) \ {b + HEADER : b \in Listed(next, alloc_mem)} # {}
  /\ UNCHANGED vars

Next == Malloc \/ MallocFails \/ Free \/ FreeFails

Spec == Init /\ [][Next]_vars

-----------------------------------------------------------------------------
(* Properties.                                                             *)

TypeOK ==
  /\ size \in [Blocks -> Nat]
  /\ next \in [Blocks -> Blocks \cup {NULL}]
  /\ free_mem \in Blocks \cup {NULL}
  /\ alloc_mem \in Blocks \cup {NULL}
  /\ infoMem \in [allocated : 0 .. SizeMod - 1, free : 0 .. SizeMod - 1,
                  total : 0 .. SizeMod - 1]
  /\ held \in [DOMAIN held -> Nat]

\* Where the first block is long enough to end.
HIGH == HEAP_SIZE + MANAGER

\* The blocks, headers included, fill the heap without gap or overlap.
BlocksTile ==
  /\ MANAGER \in Blocks
  /\ \A b \in Blocks : b >= MANAGER /\ End(b) \in Blocks \cup {HIGH}
  /\ \A b, c \in Blocks : b < c => End(b) <= c

\* Both lists share the field next: every block is on one of them and none on
\* both; those in use are the ones programs hold.
EachOnOneList ==
  /\ Listed(next, alloc_mem) = {a - HEADER : a \in DOMAIN held}
  /\ Listed(next, free_mem) = Blocks \ Listed(next, alloc_mem)

\* The free list is in the order of addresses and nowhere holds two blocks
\* that could be one.
FreeSorted ==
  \A b \in Listed(next, free_mem) : next[b] # NULL => End(b) < next[b]

\* What the status of the heap calls free and allocated adds up to the total,
\* though allocated drifts and wraps.
TotalKept == (infoMem.allocated + infoMem.free) % SizeMod = infoMem.total

\* Whatever the order of malloc and free, the blocks fill the heap, the lists
\* share them out, and the free ones are in order and joined.  Hence the heap is
\* one block again when everything has been freed.  The counters keep their sum.
HeapWellFormed == TypeOK /\ BlocksTile /\ EachOnOneList /\ FreeSorted /\ TotalKept

\* The list allocator keeps the promises of malloc and free, in the region of
\* its first block and at addresses that are whole words.
Addresses == {a \in MANAGER .. HIGH : a % WORD = 0}
Promise == INSTANCE Allocator WITH Requests <- Requests, Addresses <- Addresses, HIGH <- HIGH, held <- held
KeepsPromise == Promise!Spec
===============================================================================
