---------------------------- MODULE SemaphoreTable ----------------------------
(***************************************************************************)
(* The array semaphores of Kernel/semaphore.c and the functions that read  *)
(* or rebuild it.  A table is a function from the slots 0 .. MAX_SEMS - 1  *)
(* to records with the fields of sem_ts that behaviour depends on; used    *)
(* stands for an odd sem_id.                                               *)
(*                                                                         *)
(* This module has no variables; Semaphore.tla is the machine that uses it.*)
(***************************************************************************)
EXTENDS Naturals

CONSTANTS
  Proc,         \* the processes that use semaphores, by pid
  Names,        \* the names they give to semaphores
  NULL,         \* no name, no slot, no process
  KERNEL,       \* the name of every semaphore of the kernel itself
  MAX_SEMS,     \* slots
  KERNEL_SEMS,  \* slots taken by init_scheduler
  MAX_PROC,     \* entries of blocked_processes
  CountMod      \* value and open_count are unsigned modulo this (2^64)

ASSUME NamesAssumption == NULL \notin Names /\ KERNEL \notin Names /\ NULL # KERNEL
ASSUME ProcAssumption == NULL \notin Proc
ASSUME SlotsAssumption ==
  /\ MAX_SEMS \in Nat /\ KERNEL_SEMS \in 1 .. MAX_SEMS
  /\ NULL \notin 0 .. MAX_SEMS - 1
ASSUME WidthAssumption ==
  MAX_PROC \in Nat \ {0} /\ CountMod \in Nat \ {0, 1}

Slots == 0 .. MAX_SEMS - 1
Counter == 0 .. CountMod - 1

Sem == [used : BOOLEAN, name : Names \cup {NULL, KERNEL}, value : Counter,
        open_count : Counter, lock : {0, 1}, blocked_first : Nat,
        blocked_last : Nat, blocked_processes : [0 .. MAX_PROC - 1 -> Proc \cup {NULL}]]

\* Unsigned arithmetic.
Up(n) == IF n = CountMod - 1 THEN 0 ELSE n + 1
Down(n) == IF n = 0 THEN CountMod - 1 ELSE n - 1

Lowest(slots) ==
  IF slots = {} THEN NULL ELSE CHOOSE i \in slots : \A j \in slots : i <= j

GetName(t, name) == Lowest({i \in Slots : t[i].used /\ t[i].name = name})
FindSem(t) == Lowest({i \in Slots : ~t[i].used})

\* semInit.
NewSem(name, value) ==
  [used |-> TRUE, name |-> name, value |-> value, open_count |-> 0, lock |-> 0,
   blocked_first |-> 0, blocked_last |-> 0,
   blocked_processes |-> [i \in 0 .. MAX_PROC - 1 |-> NULL]]

CountUp(t, i) == [t EXCEPT ![i].open_count = Up(@)]

\* Faulty variants: a semaphore already there is initialised again; it is not
\* looked for.
SemOpenAnew(t, name, value) ==
  LET i == GetName(t, name)
      new == IF i # NULL THEN i ELSE FindSem(t)
  IN  CountUp([t EXCEPT ![new] = NewSem(name, value)], IF i # NULL THEN i ELSE 0)

SemOpenTwice(t, name, value) ==
  IF FindSem(t) = NULL THEN CountUp(t, GetName(t, name))
  ELSE CountUp([t EXCEPT ![FindSem(t)] = NewSem(name, value)], 0)

\* sem_open, which fails when there is neither a semaphore of this name nor a
\* free slot.  After creating one it counts the opening on slot 0, because
\* semInit returns 0 and not the slot.
CanOpen(t, name) == GetName(t, name) # NULL \/ FindSem(t) # NULL

SemOpen(t, name, value) ==
  LET i == GetName(t, name)
  IN  IF i # NULL THEN CountUp(t, i)
      ELSE CountUp([t EXCEPT ![FindSem(t)] = NewSem(name, value)], 0)

\* checkSem, with nothing in between its two steps: the lock is taken
\* whatever the answer, and a failure does not give it back.
CheckSem(sem) == sem.lock = 0 /\ sem.value > 0
Locked(sem) == [sem EXCEPT !.lock = 1]

\* A faulty variant: the value is not taken down.
AcquiredForFree(sem) == [sem EXCEPT !.lock = 0]

\* The end of sem_wait.
Acquired(sem) ==
  [sem EXCEPT !.value = Down(@), !.lock = 0]

\* The caller puts its pid at the end of the queue.
Enqueue(sem, pid) ==
  [sem EXCEPT !.blocked_processes[sem.blocked_last % MAX_PROC] = pid,
              !.blocked_last = @ + 1]

\* ... and, having been lucky, takes it back, leaving the entry in place.
Unqueue(sem) ==
  IF sem.blocked_last = sem.blocked_first THEN sem
  ELSE [sem EXCEPT !.blocked_last = @ - 1]

\* A faulty variant: the entry taken is not the head's but the one after it.
UpdateProcSkips(sem) ==
  IF sem.blocked_last = sem.blocked_first THEN sem
  ELSE [sem EXCEPT !.blocked_first = @ + 2]

\* updateProc: the head of the queue is taken off unless its entry was wiped.
\* processReady has no effect to show here, where every process is runnable.
UpdateProc(sem) ==
  LET cell == sem.blocked_first % MAX_PROC
  IN  IF sem.blocked_last = sem.blocked_first \/ sem.blocked_processes[cell] = NULL
        THEN sem
        ELSE [sem EXCEPT !.blocked_first = @ + 1, !.blocked_processes[cell] = NULL]

\* A faulty variant: posting also gives the lock back.
PostedUnlocked(sem) ==
  UpdateProc([sem EXCEPT !.value = Up(@), !.lock = 0])

\* sem_post, which leaves the lock as it is.
Posted(sem) == UpdateProc([sem EXCEPT !.value = Up(@)])

\* sem_close.  (int)count < 1 holds for zero and for a count that wrapped.
NoneLeft(count) == count = 0 \/ 2 * count >= CountMod

\* A faulty variant: the count is signed.
ClosedSigned(sem) ==
  LET count == sem.open_count - 1
  IN  IF count < 1 THEN [sem EXCEPT !.open_count = count, !.used = FALSE, !.name = NULL]
      ELSE [sem EXCEPT !.open_count = count]

Closed(sem) ==
  LET count == Down(sem.open_count)
  IN  IF NoneLeft(count)
        THEN [sem EXCEPT !.open_count = count, !.used = FALSE, !.name = NULL]
        ELSE [sem EXCEPT !.open_count = count]
===============================================================================
