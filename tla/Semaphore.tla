------------------------------- MODULE Semaphore -------------------------------
(***************************************************************************)
(* The semaphores of Kernel/semaphore.c, used the way my_process_inc of    *)
(* tests/test_sync.c does: a process opens a semaphore of value 1, waits   *)
(* and posts around its critical section as often as it likes, ignoring    *)
(* what the calls return, and closes it.                                   *)
(*                                                                         *)
(* A system call runs with interrupts off, so each is one step, up to the  *)
(* forced switch of a sem_wait that failed.  The sti after that switch     *)
(* leaves interrupts on: from there on sem_wait goes round its loop with   *)
(* the timer able to interrupt between any two instructions, and each      *)
(* access to the semaphore is a step of its own.  Only while the scheduler *)
(* is disabled do they stay together.  Which process runs next is left     *)
(* open, so the behaviours include those of any scheduler.                 *)
(***************************************************************************)
EXTENDS SemaphoreTable, FiniteSets

CONSTANTS
  MaxQueued,   \* how far blocked_last may grow while a slot is in use
  MaxCreated   \* how many semaphores may be created, one after the other

VARIABLES
  sem,     \* the table
  client,  \* where the program of a process is: idle, opened, inside
  named,   \* the semaphore it has open
  pc,      \* where the process is in the retries of sem_wait
  slot,    \* the pointer sem of sem_wait, kept through the retries
  seen,    \* the value loaded by sem->value--
  early    \* history: a slot was freed that another process had open

vars == <<sem, client, named, pc, slot, seen, early>>

Retrying == {"check", "value", "load", "store", "unlock", "again"}

\* Process p is the next to step and is at this point.  Behaviours are
\* followed until some process is lost.
At(p, point) == pc[p] = point /\ \A q \in Proc : pc[q] # "lost"

Opened(p, name) == client[p] # "idle" /\ named[p] = name
Inside(p, name) == client[p] = "inside" /\ named[p] = name

-----------------------------------------------------------------------------

\* init_scheduler opens the semaphores of the kernel, and nothing else runs.
Init ==
  /\ sem = [i \in Slots |->
       [NewSem(IF i < KERNEL_SEMS THEN KERNEL ELSE NULL, 1 % CountMod) EXCEPT
          !.used = i < KERNEL_SEMS,
          !.open_count = IF i = 0 THEN KERNEL_SEMS % CountMod ELSE 0]]
  /\ client = [p \in Proc |-> "idle"]
  /\ named = [p \in Proc |-> NULL]
  /\ pc = [p \in Proc |-> "user"]
  /\ slot = [p \in Proc |-> NULL]
  /\ seen = [p \in Proc |-> 0]
  /\ early = FALSE

Open(p) ==
  /\ At(p, "user") /\ client[p] = "idle"
  /\ \E name \in Names :
       /\ CanOpen(sem, name)
       /\ GetName(sem, name) # NULL \/ sem[0].open_count < KERNEL_SEMS + MaxCreated
       /\ sem' = SemOpen(sem, name, 1)
       /\ named' = [named EXCEPT ![p] = name]
  /\ client' = [client EXCEPT ![p] = "opened"]
  /\ UNCHANGED <<pc, slot, seen, early>>

\* sem_wait in one go: the semaphore is not there, or is free.
Wait(p) ==
  /\ At(p, "user") /\ client[p] = "opened"
  /\ LET i == GetName(sem, named[p])
     IN  \/ i = NULL /\ sem' = sem
         \/ i # NULL /\ CheckSem(sem[i]) /\ sem' = [sem EXCEPT ![i] = Acquired(@)]
  /\ client' = [client EXCEPT ![p] = "inside"]
  /\ UNCHANGED <<named, pc, slot, seen, early>>

\* sem_wait up to its first forced switch.  The second checkSem of the round
\* cannot succeed: the first one has set the lock.
WaitFails(p) ==
  /\ At(p, "user") /\ client[p] = "opened"
  /\ LET i == GetName(sem, named[p])
     IN  /\ i # NULL /\ ~CheckSem(sem[i]) /\ sem[i].blocked_last < MaxQueued
         /\ sem' = [sem EXCEPT ![i] = Locked(Enqueue(@, p))]
         /\ slot' = [slot EXCEPT ![p] = i]
  /\ pc' = [pc EXCEPT ![p] = "check"]
  /\ UNCHANGED <<client, named, seen, early>>

\* The retry: xchg on the lock ...
Check(p) ==
  /\ At(p, "check")
  /\ pc' = [pc EXCEPT ![p] = IF sem[slot[p]].lock = 0 THEN "value" ELSE "again"]
  /\ sem' = [sem EXCEPT ![slot[p]] = Locked(@)]
  /\ UNCHANGED <<client, named, slot, seen, early>>

\* ... the test of the value ...
TestValue(p) ==
  /\ At(p, "value")
  /\ pc' = [pc EXCEPT ![p] = IF sem[slot[p]].value > 0 THEN "load" ELSE "again"]
  /\ UNCHANGED <<sem, client, named, slot, seen, early>>

\* ... and, with the scheduler disabled, one more place in the queue and one
\* more checkSem.
Again(p) ==
  /\ At(p, "again")
  /\ LET s == sem[slot[p]]
     IN  /\ s.blocked_last < MaxQueued
         /\ \/ /\ CheckSem(s)
               /\ sem' = [sem EXCEPT ![slot[p]] = Locked(Unqueue(Enqueue(@, p)))]
               /\ pc' = [pc EXCEPT ![p] = "load"]
            \/ /\ ~CheckSem(s)
               /\ sem' = [sem EXCEPT ![slot[p]] = Locked(Enqueue(@, p))]
               /\ pc' = [pc EXCEPT ![p] = "check"]
  /\ UNCHANGED <<client, named, slot, seen, early>>

\* A tick while the scheduler is disabled: schedule returns the stack pointer
\* it saved when the process was last switched out, not that of the process
\* it interrupts.  What runs from there is undefined.
TickWhileDisabled(p) ==
  /\ At(p, "again")
  /\ pc' = [pc EXCEPT ![p] = "lost"]
  /\ UNCHANGED <<sem, client, named, slot, seen, early>>

\* sem->value-- and sem->lock = 0.
Load(p) ==
  /\ At(p, "load")
  /\ seen' = [seen EXCEPT ![p] = sem[slot[p]].value]
  /\ pc' = [pc EXCEPT ![p] = "store"]
  /\ UNCHANGED <<sem, client, named, slot, early>>

Store(p) ==
  /\ At(p, "store")
  /\ sem' = [sem EXCEPT ![slot[p]].value = Down(seen[p])]
  /\ seen' = [seen EXCEPT ![p] = 0]
  /\ pc' = [pc EXCEPT ![p] = "unlock"]
  /\ UNCHANGED <<client, named, slot, early>>

Unlock(p) ==
  /\ At(p, "unlock")
  /\ sem' = [sem EXCEPT ![slot[p]].lock = 0]
  /\ pc' = [pc EXCEPT ![p] = "user"]
  /\ slot' = [slot EXCEPT ![p] = NULL]
  /\ client' = [client EXCEPT ![p] = "inside"]
  /\ UNCHANGED <<named, seen, early>>

Post(p) ==
  /\ At(p, "user") /\ client[p] = "inside"
  /\ LET i == GetName(sem, named[p])
     IN  sem' = IF i = NULL THEN sem ELSE [sem EXCEPT ![i] = Posted(@)]
  /\ client' = [client EXCEPT ![p] = "opened"]
  /\ UNCHANGED <<named, pc, slot, seen, early>>

Close(p) ==
  /\ At(p, "user") /\ client[p] = "opened"
  /\ LET i == GetName(sem, named[p])
     IN  \/ i = NULL /\ UNCHANGED <<sem, early>>
         \/ /\ i # NULL
            /\ sem' = [sem EXCEPT ![i] = Closed(@)]
            /\ early' = (early \/ (~sem'[i].used /\ \E q \in Proc \ {p} : Opened(q, named[p])))
  /\ client' = [client EXCEPT ![p] = "idle"]
  /\ named' = [named EXCEPT ![p] = NULL]
  /\ UNCHANGED <<pc, slot, seen>>

\* Another process kills this one, at any point with interrupts on.  Nothing
\* of what it had opened, taken or queued is given back.
Kill(p) ==
  /\ \E point \in Retrying \cup {"user"} : At(p, point)
  /\ pc' = [pc EXCEPT ![p] = "killed"]
  /\ UNCHANGED <<sem, client, named, slot, seen, early>>

Next ==
  \E p \in Proc :
    \/ Open(p) \/ Wait(p) \/ WaitFails(p) \/ Check(p) \/ TestValue(p)
    \/ Again(p) \/ TickWhileDisabled(p) \/ Load(p) \/ Store(p) \/ Unlock(p)
    \/ Post(p) \/ Close(p) \/ Kill(p)

Spec == Init /\ [][Next]_vars

-----------------------------------------------------------------------------
(* Properties.                                                             *)

TypeOK ==
  /\ sem \in [Slots -> Sem]
  /\ client \in [Proc -> {"idle", "opened", "inside"}]
  /\ named \in [Proc -> Names \cup {NULL}]
  /\ pc \in [Proc -> Retrying \cup {"user", "killed", "lost"}]
  /\ slot \in [Proc -> Slots \cup {NULL}]
  /\ seen \in [Proc -> Counter]
  /\ early \in BOOLEAN

\* At no time do two slots answer to the name of one semaphore.
OneSlotPerName ==
  \A i, j \in Slots : sem[i].used /\ sem[j].used /\ sem[i].name = sem[j].name
                        /\ sem[i].name \in Names => i = j

\* The queue is never taken from further than it was filled, through wrapped
\* entries, places given back and slots reused under a waiting process.
QueueOrdered == \A i \in Slots : sem[i].blocked_first <= sem[i].blocked_last

\* As long as no semaphore was freed under somebody who had it open, two
\* processes are never both between sem_wait and sem_post of one name.
MutualExclusion ==
  ~early => \A p, q \in Proc, name \in Names :
              Inside(p, name) /\ Inside(q, name) => p = q

\* Until then no post or wait is lost either: the value is one exactly when
\* nobody is inside.
ValueConserved ==
  ~early => \A i \in Slots : sem[i].used /\ sem[i].name \in Names =>
    sem[i].value = IF \E p \in Proc : Inside(p, sem[i].name) THEN 0 ELSE 1

Openers(name) == {p \in Proc : Opened(p, name)}

\* What syscalls.h:25 says of open_count, "Counter of pending 'close' signals": as
\* long as no semaphore was freed under somebody, it is the number of processes
\* that have the semaphore open.  It is not: the one who creates it is counted on
\* slot 0, so the semaphore is freed when all but one have closed it.
CountsPendingCloses ==
  ~early => \A i \in Slots : sem[i].used /\ sem[i].name \in Names =>
              sem[i].open_count = Cardinality(Openers(sem[i].name))

\* Somebody has failed to get semaphore i since it was created.
Contended(i) == sem[i].used /\ sem[i].blocked_last > 0

\* Once somebody has failed to get a semaphore nobody gets it any more: the
\* failure leaves the lock set and sem_post never clears it.
ContentionIsFinal ==
  [][\A i \in Slots, p \in Proc :
       ~early /\ Contended(i) /\ named[p] = sem[i].name
         => (client'[p] = "inside" => client[p] = "inside")]_vars
===============================================================================
