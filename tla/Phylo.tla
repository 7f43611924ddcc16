---------------------------------- MODULE Phylo ----------------------------------
(***************************************************************************)
(* The philosophers of Userland/uCodeModule/phylo.c: a process per         *)
(* philosopher and the program phylo, which lets others join and leave.    *)
(*                                                                         *)
(* Of a semaphore only the value is kept, and whether a sem_wait has ever  *)
(* failed on it: from then on none gets it any more (ContentionIsFinal of  *)
(* Semaphore.tla), and the one that failed stands still.                   *)
(*                                                                         *)
(* Shared data are read and written by whoever has the mutex, so what is   *)
(* done under it, up to the post, is one step.                             *)
(***************************************************************************)
EXTENDS Integers, Sequences

CONSTANTS
  MAX, MIN, INITIAL,
  Keys,     \* the keys that are pressed
  MaxSeated \* bounds how many philosophers ever join

ASSUME SeatsAssumption ==
  /\ MIN \in Nat \ {0} /\ INITIAL \in Nat /\ MIN <= INITIAL
  /\ MAX \in Nat /\ INITIAL <= MAX /\ MaxSeated \in Nat

State == {"THINKING", "HUNGRY", "EATING", "LEAVING"}

\* What the states, which nobody initialises, may hold at first: a number that is none
\* of a state, or LEAVING, is like THINKING until the one who sits there writes it.
Garbage == {"THINKING", "HUNGRY", "EATING"}

VARIABLES
  count, state,          \* of shared_data
  mutex, hungry_lock, think_unlock,
  philosopher,           \* the processes, in the order they were created: seat and pc
  main,                  \* where phylo is
  someLeft,              \* a philosopher was removed (history)
  unasked                \* forks were granted to one that had not asked (history)

history == <<someLeft, unasked>>
vars == <<count, state, mutex, hungry_lock, think_unlock, philosopher, main, history>>

Seat == 0 .. MAX - 1

LEFT(id) == (id + count - 1) % count
RIGHT(id) == (id + 1) % count

-----------------------------------------------------------------------------
(* Semaphores.                                                             *)

Opened(value) == [value |-> value, contended |-> FALSE]
Posted(s) == [s EXCEPT !.value = @ + 1]
Free(s) == s.value > 0 /\ ~ s.contended

Waited(s) == IF Free(s) THEN [s EXCEPT !.value = @ - 1] ELSE [s EXCEPT !.contended = TRUE]

\* Where sem_wait leaves a process that goes on at the given place.
After(s, place) == IF Free(s) THEN place ELSE "stuck"

-----------------------------------------------------------------------------

\* A faulty variant: the mutex is open before phylo posts it.
MutexOpen == 1

MutexValue == 0

\* The states of those who join later are written before anybody reads them.
Init ==
  /\ count = INITIAL
  /\ state \in {s \in [Seat -> Garbage] : \A id \in INITIAL .. MAX - 1 : s[id] = "THINKING"}
  /\ mutex = Opened(MutexValue)
  /\ hungry_lock = [id \in Seat |-> Opened(0)]
  /\ think_unlock = [id \in Seat |-> Opened(0)]
  /\ philosopher = <<>>
  /\ main = "start"
  /\ someLeft = FALSE /\ unasked = FALSE

-----------------------------------------------------------------------------
(* A philosopher.  test may let others eat: it yields the states and the   *)
(* locks after it.                                                         *)

\* A faulty variant: only the left neighbour is asked.
EatsBesideRight(st, id) == st[id] = "HUNGRY" /\ st[LEFT(id)] # "EATING"

MayEat(st, id) == st[id] = "HUNGRY" /\ st[LEFT(id)] # "EATING" /\ st[RIGHT(id)] # "EATING"

test(shared, id) ==
  IF MayEat(shared.state, id)
  THEN [state |-> [shared.state EXCEPT ![id] = "EATING"],
        lock  |-> [shared.lock EXCEPT ![id] = Posted(@)]]
  ELSE shared

Marked(id, s) == [state |-> [state EXCEPT ![id] = s], lock |-> hungry_lock]

\* The neighbours are those of id; LEFT and RIGHT do not change meanwhile.
TakeForks(id) == test(Marked(id, "HUNGRY"), id)
PutForks(id) == test(test(Marked(id, "THINKING"), LEFT(id)), RIGHT(id))

Goes(p, place) == philosopher' = [philosopher EXCEPT ![p].pc = place]

\* sem_wait(MUTEX), in the three places where a philosopher calls it.
WaitMutex(p, from, to) ==
  /\ philosopher[p].pc = from
  /\ Goes(p, After(mutex, to))
  /\ mutex' = Waited(mutex)
  /\ UNCHANGED <<count, state, hungry_lock, think_unlock, main, history>>

\* Somebody at the seat has called take_fork.
Asked(phil, id) == \E q \in DOMAIN phil : phil[q].id = id /\ phil[q].pc \notin {"hungry", "taking"}

\* ... and what is done until it is posted.
Update(p, from, shared, to) ==
  /\ philosopher[p].pc = from
  /\ state' = shared.state /\ hungry_lock' = shared.lock
  /\ mutex' = Posted(mutex)
  /\ Goes(p, to)
  /\ unasked' = (unasked \/ \E id \in Seat : /\ shared.lock[id].value > hungry_lock[id].value
                                           /\ ~ Asked(philosopher', id))
  /\ UNCHANGED <<count, think_unlock, main, someLeft>>

WaitHungry(p) ==
  /\ philosopher[p].pc = "granted"
  /\ LET id == philosopher[p].id
     IN  /\ Goes(p, After(hungry_lock[id], "eating"))
         /\ hungry_lock' = [hungry_lock EXCEPT ![id] = Waited(@)]
  /\ UNCHANGED <<count, state, mutex, think_unlock, main, history>>

PostThink(p) ==
  /\ philosopher[p].pc = "fed"
  /\ think_unlock' = [think_unlock EXCEPT ![philosopher[p].id] = Posted(@)]
  /\ Goes(p, "thinking")
  /\ UNCHANGED <<count, state, mutex, hungry_lock, main, history>>

WaitThink(p) ==
  /\ philosopher[p].pc = "thinking"
  /\ LET id == philosopher[p].id
     IN  /\ Goes(p, After(think_unlock[id], "staying"))
         /\ think_unlock' = [think_unlock EXCEPT ![id] = Waited(@)]
  /\ UNCHANGED <<count, state, mutex, hungry_lock, main, history>>

Unchanged == [state |-> state, lock |-> hungry_lock]

phylo_proc(p) ==
  LET id == philosopher[p].id
  IN  \/ WaitMutex(p, "hungry", "taking")
      \/ Update(p, "taking", TakeForks(id), "granted")
      \/ WaitHungry(p)
      \/ WaitMutex(p, "eating", "putting")
      \/ Update(p, "putting", PutForks(id), "fed")
      \/ PostThink(p)
      \/ WaitThink(p)
      \/ WaitMutex(p, "staying", "asking")
      \/ Update(p, "asking", Unchanged, IF state[id] = "LEAVING" THEN "gone" ELSE "hungry")

-----------------------------------------------------------------------------
(* phylo.                                                                  *)

Exec(id) == philosopher' = Append(philosopher, [id |-> id, pc |-> "hungry"])

Start ==
  /\ main = "start"
  /\ IF Len(philosopher) < count
     THEN Exec(Len(philosopher)) /\ UNCHANGED <<mutex, main>>
     ELSE mutex' = Posted(mutex) /\ main' = "loop" /\ UNCHANGED philosopher
  /\ UNCHANGED <<count, state, hungry_lock, think_unlock, history>>

\* getTimedChar.
Key ==
  /\ main = "loop"
  /\ \E c \in Keys \cup {"none"} :
       main' = CASE c = "a" /\ count < MAX /\ Len(philosopher) < MaxSeated -> "add"
                 [] c = "r" /\ count > MIN -> "remove"
                 [] OTHER -> "show"
  /\ UNCHANGED <<count, state, mutex, hungry_lock, think_unlock, philosopher, history>>

MainWaitMutex(from, to) ==
  /\ main = from
  /\ main' = After(mutex, to)
  /\ mutex' = Waited(mutex)
  /\ UNCHANGED <<count, state, hungry_lock, think_unlock, philosopher, history>>

addPhylo ==
  /\ main = "adding"
  /\ state' = [state EXCEPT ![count] = "THINKING"]
  /\ count' = count + 1
  /\ Exec(count)
  /\ mutex' = Posted(mutex)
  /\ main' = "show"
  /\ UNCHANGED <<hungry_lock, think_unlock, history>>

\* A faulty variant: whoever has the last seat is removed at any time.
RemoveAtOnce == main' = "removing" /\ UNCHANGED think_unlock

\* sem_wait on the think_unlock of the last seat.
WaitUntilFed ==
  /\ main' = After(think_unlock[count - 1], "removing")
  /\ think_unlock' = [think_unlock EXCEPT ![count - 1] = Waited(@)]

WaitToRemove ==
  /\ main = "remove"
  /\ WaitUntilFed
  /\ UNCHANGED <<count, state, mutex, hungry_lock, philosopher, history>>

removePhylo ==
  /\ main = "removed"
  /\ state' = [state EXCEPT ![count - 1] = "LEAVING"]
  /\ count' = count - 1
  /\ mutex' = Posted(mutex)
  /\ main' = "release"
  /\ someLeft' = TRUE
  /\ UNCHANGED <<hungry_lock, think_unlock, philosopher, unasked>>

\* The seat that was removed is the one after the last now.
ReleaseRemoved ==
  /\ main = "release"
  /\ think_unlock' = [think_unlock EXCEPT ![count] = Posted(@)]
  /\ main' = "show"
  /\ UNCHANGED <<count, state, mutex, hungry_lock, philosopher, history>>

Show ==
  /\ main = "shown"
  /\ mutex' = Posted(mutex)
  /\ main' = "loop"
  /\ UNCHANGED <<count, state, hungry_lock, think_unlock, philosopher, history>>

phylo ==
  \/ Start
  \/ Key
  \/ MainWaitMutex("add", "adding") \/ addPhylo
  \/ WaitToRemove \/ MainWaitMutex("removing", "removed") \/ removePhylo \/ ReleaseRemoved
  \/ MainWaitMutex("show", "shown") \/ Show

Next == phylo \/ \E p \in DOMAIN philosopher : phylo_proc(p)

Spec == Init /\ [][Next]_vars

-----------------------------------------------------------------------------
(* Properties.                                                             *)

Philosophers == 1 .. Len(philosopher)

Semaphore == [value : Nat, contended : BOOLEAN]

TypeOK ==
  /\ count \in MIN .. MAX
  /\ state \in [Seat -> State]
  /\ mutex \in Semaphore
  /\ hungry_lock \in [Seat -> Semaphore] /\ think_unlock \in [Seat -> Semaphore]
  /\ philosopher \in Seq([id : Seat,
       pc : {"hungry", "taking", "granted", "eating", "putting", "fed", "thinking", "staying",
             "asking", "stuck", "gone"}])
  /\ main \in {"start", "loop", "add", "adding", "remove", "removing", "removed", "release",
                "show", "shown", "stuck"}
  /\ someLeft \in BOOLEAN /\ unasked \in BOOLEAN

\* At most one process is between sem_wait and sem_post of the mutex, though it
\* is opened with no value and the children may try it before phylo posts it.
MutexExclusion ==
  LET holders == {p \in Philosophers : philosopher[p].pc \in {"taking", "putting", "asking"}}
  IN  /\ TypeOK
      /\ mutex.value + (IF main \in {"adding", "removed", "shown"} THEN 1 ELSE 0) <= 1
      /\ holders # {} => /\ mutex.value = 0 /\ main \notin {"adding", "removed", "shown"}
                         /\ \A p, q \in holders : p = q

\* Where one has both forks.
Eats(p) == philosopher[p].pc \in {"eating", "putting"}

Neighbours(id, other) == other \in {LEFT(id), RIGHT(id)}

\* No two philosophers that sit beside each other eat at a time.
NoNeighboursEat ==
  \A p, q \in Philosophers :
    p # q /\ Eats(p) /\ Eats(q) => ~ Neighbours(philosopher[p].id, philosopher[q].id)

\* Forks that were granted wait for the one they were granted to: a lock is never
\* posted twice, nor for one that does not go on to wait for it.
GrantIsPending ==
  \A id \in Seat : hungry_lock[id].value > 0 =>
    /\ hungry_lock[id].value = 1
    /\ state[id] = "EATING"
    /\ \E p \in Philosophers : philosopher[p].id = id /\ philosopher[p].pc \in {"granted", "stuck"}

\* Whoever joins, neighbours do not eat at a time and forks are granted once, to one
\* that goes on to wait for them, until one of two things has happened: somebody left,
\* or put_fork took what is in a state that nobody has written for HUNGRY and granted
\* forks to a philosopher that has not asked.  It then asks, yields to a neighbour that
\* eats, and eats beside it with the forks it was granted before.
NeighboursEatApart == ~ someLeft /\ ~ unasked => NoNeighboursEat /\ GrantIsPending

\* Nobody is made to leave with forks or while waiting for them, as long as no
\* seat has been taken again.
LeavesFed ==
  (\A p, q \in Philosophers : p # q => philosopher[p].id # philosopher[q].id) =>
    \A p \in Philosophers :
      state[philosopher[p].id] = "LEAVING" =>
        philosopher[p].pc \in {"thinking", "staying", "asking", "gone", "stuck"}
==================================================================================
