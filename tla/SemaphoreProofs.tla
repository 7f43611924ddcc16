---------------------------- MODULE SemaphoreProofs ----------------------------
(* Proofs about Semaphore, for any number of processes, names and slots.    *)
EXTENDS Semaphore, WellFoundedInduction, FiniteSetTheorems, TLAPS

-----------------------------------------------------------------------------
(* What the functions on one semaphore return.                              *)

\* A new semaphore is well typed, unlocked, with an empty queue and its first value.
LEMMA NewSemFacts ==
  ASSUME NEW name \in Names \cup {NULL, KERNEL}, NEW value \in Counter
  PROVE  /\ NewSem(name, value) \in Sem
         /\ NewSem(name, value).used /\ NewSem(name, value).name = name
         /\ NewSem(name, value).value = value /\ NewSem(name, value).blocked_last = 0
         /\ NewSem(name, value).blocked_first = 0
BY WidthAssumption DEF NewSem, Sem, Counter

\* Taking the lock changes nothing else.
LEMMA LockedFacts ==
  ASSUME NEW s \in Sem
  PROVE  /\ Locked(s) \in Sem /\ Locked(s).lock = 1
         /\ Locked(s).used = s.used /\ Locked(s).name = s.name
         /\ Locked(s).value = s.value
         /\ Locked(s).blocked_first = s.blocked_first
         /\ Locked(s).blocked_last = s.blocked_last
BY DEF Locked, Sem

\* The end of sem_wait takes one off the value and gives the lock back.
LEMMA AcquiredFacts ==
  ASSUME NEW s \in Sem
  PROVE  /\ Acquired(s) \in Sem
         /\ Acquired(s).used = s.used /\ Acquired(s).name = s.name
         /\ s.value = 1 => Acquired(s).value = 0
         /\ Acquired(s).blocked_first = s.blocked_first
         /\ Acquired(s).blocked_last = s.blocked_last
<1> DEFINE value == Down(s.value)
<1>1. value \in Counter /\ (s.value = 1 => value = 0)
  BY WidthAssumption DEF Sem, Counter, Up, Down
<1>2. Acquired(s) = [s EXCEPT !.value = value, !.lock = 0]
  BY DEF Acquired, Sem
<1> HIDE DEF value
<1> QED BY <1>1, <1>2 DEF Sem

\* A place taken at the end of the queue only moves blocked_last, up.
LEMMA EnqueueFacts ==
  ASSUME NEW s \in Sem, NEW p \in Proc
  PROVE  /\ Enqueue(s, p) \in Sem
         /\ Enqueue(s, p).used = s.used /\ Enqueue(s, p).name = s.name
         /\ Enqueue(s, p).value = s.value /\ Enqueue(s, p).lock = s.lock
         /\ Enqueue(s, p).blocked_first = s.blocked_first
         /\ Enqueue(s, p).blocked_last = s.blocked_last + 1
<1> DEFINE cells == [s.blocked_processes EXCEPT ![s.blocked_last % MAX_PROC] = p]
<1>1. cells \in [0 .. MAX_PROC - 1 -> Proc \cup {NULL}]
  BY DEF Sem
<1> DEFINE last == s.blocked_last + 1
<1>2. last \in Nat
  BY DEF Sem
<1>3. Enqueue(s, p) = [s EXCEPT !.blocked_processes = cells, !.blocked_last = last]
  BY DEF Enqueue, Sem
<1> HIDE DEF cells
<1>4. last = s.blocked_last + 1
  OBVIOUS
<1> HIDE DEF last
<1> QED BY <1>1, <1>2, <1>3, <1>4 DEF Sem

\* A place given back never moves blocked_last below blocked_first.
LEMMA UnqueueFacts ==
  ASSUME NEW s \in Sem, s.blocked_first <= s.blocked_last
  PROVE  /\ Unqueue(s) \in Sem
         /\ Unqueue(s).used = s.used /\ Unqueue(s).name = s.name
         /\ Unqueue(s).value = s.value
         /\ Unqueue(s).blocked_first <= Unqueue(s).blocked_last
BY DEF Unqueue, Sem

\* updateProc only moves blocked_first, never past blocked_last.
LEMMA UpdateProcFacts ==
  ASSUME NEW s \in Sem
  PROVE  /\ UpdateProc(s) \in Sem
         /\ UpdateProc(s).used = s.used /\ UpdateProc(s).name = s.name
         /\ UpdateProc(s).value = s.value /\ UpdateProc(s).lock = s.lock
         /\ UpdateProc(s).blocked_last = s.blocked_last
         /\ s.blocked_first <= s.blocked_last =>
              UpdateProc(s).blocked_first <= UpdateProc(s).blocked_last
<1> DEFINE cell == s.blocked_first % MAX_PROC
           cells == [s.blocked_processes EXCEPT ![cell] = NULL]
<1>1. CASE s.blocked_last = s.blocked_first \/ s.blocked_processes[cell] = NULL
  BY <1>1 DEF UpdateProc
<1>2. CASE ~(s.blocked_last = s.blocked_first \/ s.blocked_processes[cell] = NULL)
  <2>1. cells \in [0 .. MAX_PROC - 1 -> Proc \cup {NULL}]
    BY DEF Sem
  <2> DEFINE first == s.blocked_first + 1
  <2>2. UpdateProc(s) = [s EXCEPT !.blocked_first = first, !.blocked_processes = cells]
    BY <1>2 DEF UpdateProc, Sem
  <2>3. first \in Nat /\ (s.blocked_first <= s.blocked_last => first <= s.blocked_last)
    BY <1>2 DEF Sem
  <2> HIDE DEF cells, first
  <2> QED BY <2>1, <2>2, <2>3 DEF Sem
<1> QED BY <1>1, <1>2

\* sem_post adds one to the value and leaves the lock and blocked_last alone.
LEMMA PostedFacts ==
  ASSUME NEW s \in Sem
  PROVE  /\ Posted(s) \in Sem
         /\ Posted(s).used = s.used /\ Posted(s).name = s.name
         /\ s.value = 0 => Posted(s).value = 1
         /\ Posted(s).lock = s.lock
         /\ Posted(s).blocked_last = s.blocked_last
         /\ s.blocked_first <= s.blocked_last =>
              Posted(s).blocked_first <= Posted(s).blocked_last
<1> DEFINE value == Up(s.value)
           u == [s EXCEPT !.value = value]
<1>1. value \in Counter /\ (s.value = 0 => value = 1)
  BY WidthAssumption DEF Sem, Counter, Up, Down
<1>2. Posted(s) = UpdateProc(u)
  BY DEF Posted, Sem
<1> HIDE DEF value
<1>3. /\ u \in Sem /\ u.used = s.used /\ u.name = s.name /\ u.value = value
      /\ u.lock = s.lock /\ u.blocked_first = s.blocked_first
      /\ u.blocked_last = s.blocked_last
  BY <1>1 DEF Sem
<1> HIDE DEF u
<1> QED BY <1>1, <1>2, <1>3, UpdateProcFacts

\* sem_close changes the count and, for the last one, frees the slot.
LEMMA ClosedFacts ==
  ASSUME NEW s \in Sem
  PROVE  /\ Closed(s) \in Sem
         /\ Closed(s).used => s.used
         /\ Closed(s).used => Closed(s).name = s.name
         /\ Closed(s).value = s.value /\ Closed(s).lock = s.lock
         /\ Closed(s).blocked_first = s.blocked_first
         /\ Closed(s).blocked_last = s.blocked_last
<1> DEFINE count == Down(s.open_count)
<1>1. count \in Counter
  BY WidthAssumption DEF Sem, Counter, Up, Down
<1>2. Closed(s) = IF NoneLeft(count)
                    THEN [s EXCEPT !.open_count = count, !.used = FALSE, !.name = NULL]
                    ELSE [s EXCEPT !.open_count = count]
  BY DEF Closed
<1> HIDE DEF count
<1>3. CASE NoneLeft(count)
  BY <1>1, <1>2, <1>3 DEF Sem
<1>4. CASE ~NoneLeft(count)
  BY <1>1, <1>2, <1>4 DEF Sem
<1> QED BY <1>3, <1>4

\* Counting an opening up changes nothing but one open_count.
LEMMA CountUpFacts ==
  ASSUME NEW t \in [Slots -> Sem], NEW i \in Slots
  PROVE  /\ CountUp(t, i) \in [Slots -> Sem]
         /\ \A j \in Slots :
              /\ CountUp(t, i)[j].used = t[j].used /\ CountUp(t, i)[j].name = t[j].name
              /\ CountUp(t, i)[j].value = t[j].value /\ CountUp(t, i)[j].lock = t[j].lock
              /\ CountUp(t, i)[j].blocked_first = t[j].blocked_first
              /\ CountUp(t, i)[j].blocked_last = t[j].blocked_last
<1> DEFINE count == Up(t[i].open_count)
           s == [t[i] EXCEPT !.open_count = count]
<1>1. count \in Counter
  BY WidthAssumption DEF Sem, Counter, Up, Down
<1>2. CountUp(t, i) = [t EXCEPT ![i] = s]
  BY DEF CountUp
<1> HIDE DEF count
<1>3. /\ s \in Sem /\ s.used = t[i].used /\ s.name = t[i].name /\ s.value = t[i].value
      /\ s.lock = t[i].lock /\ s.blocked_first = t[i].blocked_first
      /\ s.blocked_last = t[i].blocked_last
  BY <1>1 DEF Sem
<1> HIDE DEF s
<1> QED BY <1>2, <1>3

-----------------------------------------------------------------------------
(* Looking for a slot.                                                      *)

\* A nonempty set of slots has a smallest element.
LEMMA SmallestExists ==
  ASSUME NEW S \in SUBSET Nat, S # {}
  PROVE  \E i \in S : \A j \in S : i <= j
<1> DEFINE less == OpToRel(<, Nat)
<1>1. IsWellFoundedOn(less, Nat)
  BY NatLessThanWellFounded
<1>2. \A x, y \in Nat : <<x, y>> \in less <=> x < y
  BY DEF OpToRel
<1> HIDE DEF less
<1>3. PICK i \in S : \A j \in S : ~(<<j, i>> \in less)
  BY <1>1, WFMin
<1>4. \A j \in S : ~(j < i)
  BY <1>2, <1>3
<1>5. \A j \in S : i <= j
  BY <1>4
<1> QED BY <1>5

\* The lowest of some slots is one of them; of none there is none.
LEMMA LowestSlot ==
  ASSUME NEW S \in SUBSET Slots
  PROVE  /\ S = {} => Lowest(S) = NULL
         /\ S # {} => Lowest(S) \in S /\ Lowest(S) # NULL
<1>1. CASE S = {}
  BY <1>1 DEF Lowest
<1>2. CASE S # {}
  <2>1. \E i \in S : \A j \in S : i <= j
    BY <1>2, SmallestExists DEF Slots
  <2>2. (CHOOSE i \in S : \A j \in S : i <= j) \in S
    BY <2>1
  <2> QED BY <1>2, <2>2, SlotsAssumption DEF Lowest, Slots
<1> QED BY <1>1, <1>2

\* getName returns a slot in use with that name, or there is none.
LEMMA GetNameFacts ==
  ASSUME NEW t, NEW name
  PROVE  /\ GetName(t, name) # NULL =>
              /\ GetName(t, name) \in Slots
              /\ t[GetName(t, name)].used /\ t[GetName(t, name)].name = name
         /\ GetName(t, name) = NULL =>
              \A i \in Slots : ~(t[i].used /\ t[i].name = name)
<1> DEFINE S == {i \in Slots : t[i].used /\ t[i].name = name}
<1>1. S \in SUBSET Slots /\ GetName(t, name) = Lowest(S)
  BY DEF GetName
<1> QED BY <1>1, LowestSlot

\* findSem returns a slot not in use, or there is none.
LEMMA FindSemFacts ==
  ASSUME NEW t, FindSem(t) # NULL
  PROVE  FindSem(t) \in Slots /\ ~t[FindSem(t)].used
<1> DEFINE S == {i \in Slots : ~t[i].used}
<1>1. S \in SUBSET Slots /\ FindSem(t) = Lowest(S)
  BY DEF FindSem
<1> QED BY <1>1, LowestSlot

-----------------------------------------------------------------------------
(* The invariant.                                                           *)

\* A process with a semaphore open knows its name; only such a one retries.
ClientsOK ==
  \A p \in Proc :
    /\ client[p] # "idle" => named[p] \in Names
    /\ pc[p] \in Retrying => client[p] = "opened" /\ slot[p] \in Slots

\* What holds until a semaphore is freed under somebody.
OpenIsThere ==
  \A p \in Proc : client[p] # "idle" =>
    \E i \in Slots : sem[i].used /\ sem[i].name = named[p]

RetriesInVain ==
  \A p \in Proc : pc[p] \in Retrying =>
    /\ pc[p] \in {"check", "again"}
    /\ sem[slot[p]].used /\ sem[slot[p]].name = named[p]
    /\ sem[slot[p]].blocked_last > 0

ContendedLocked ==
  \A i \in Slots : Contended(i) /\ sem[i].name \in Names => sem[i].lock = 1

AtMostOneInside ==
  \A p, q \in Proc, name \in Names :
    Inside(p, name) /\ Inside(q, name) => p = q

ValueTells ==
  \A i \in Slots : sem[i].used /\ sem[i].name \in Names =>
    sem[i].value = IF \E p \in Proc : Inside(p, sem[i].name) THEN 0 ELSE 1

Calm ==
  OpenIsThere /\ RetriesInVain /\ ContendedLocked /\ AtMostOneInside /\ ValueTells

IInv ==
  /\ TypeOK /\ OneSlotPerName /\ QueueOrdered /\ ClientsOK
  /\ ~early => Calm

\* Replacing one semaphore in use, keeping its name or freeing it.
LEMMA Replaced ==
  ASSUME IInv, NEW i \in Slots, NEW s \in Sem, sem' = [sem EXCEPT ![i] = s],
         s.used => sem[i].used /\ s.name = sem[i].name,
         s.blocked_first <= s.blocked_last
  PROVE  /\ sem' \in [Slots -> Sem] /\ OneSlotPerName' /\ QueueOrdered'
         /\ sem'[i] = s /\ \A j \in Slots \ {i} : sem'[j] = sem[j]
<1>1. sem \in [Slots -> Sem]
  BY DEF IInv, TypeOK
<1>2. /\ sem' \in [Slots -> Sem]
      /\ sem'[i] = s /\ \A j \in Slots \ {i} : sem'[j] = sem[j]
  BY <1>1
<1>3. OneSlotPerName'
  BY <1>2 DEF IInv, OneSlotPerName
<1>4. QueueOrdered'
  BY <1>2 DEF IInv, QueueOrdered
<1> QED BY <1>2, <1>3, <1>4

\* The invariant holds when init_scheduler is done.
LEMMA InitSafe == Init => IInv
<1> SUFFICES ASSUME Init PROVE IInv
  OBVIOUS
<1>1. \A i \in Slots :
        /\ sem[i] \in Sem /\ sem[i].name \notin Names
        /\ sem[i].blocked_first = 0 /\ sem[i].blocked_last = 0
  <2> SUFFICES ASSUME NEW i \in Slots
               PROVE  /\ sem[i] \in Sem /\ sem[i].name \notin Names
                      /\ sem[i].blocked_first = 0 /\ sem[i].blocked_last = 0
    OBVIOUS
  <2> DEFINE name == IF i < KERNEL_SEMS THEN KERNEL ELSE NULL
             s == NewSem(name, 1 % CountMod)
             used == i < KERNEL_SEMS
             count == IF i = 0 THEN KERNEL_SEMS % CountMod ELSE 0
  <2>1. count \in Counter /\ 1 % CountMod \in Counter
    BY WidthAssumption, SlotsAssumption DEF Counter
  <2>2. s \in Sem /\ s.name = name /\ s.blocked_first = 0 /\ s.blocked_last = 0
    BY <2>1, NewSemFacts
  <2>3. sem[i] = [s EXCEPT !.used = used, !.open_count = count]
    BY DEF Init
  <2>4. name \notin Names /\ used \in BOOLEAN
    BY NamesAssumption
  <2> HIDE DEF s, used, count, name
  <2> QED BY <2>1, <2>2, <2>3, <2>4 DEF Sem
<1>2. TypeOK
  <2>1. sem \in [Slots -> Sem]
    BY <1>1 DEF Init
  <2>2. 0 \in Counter
    BY WidthAssumption DEF Counter
  <2> QED BY <2>1, <2>2 DEF Init, TypeOK
<1>3. OneSlotPerName /\ QueueOrdered
  BY <1>1 DEF OneSlotPerName, QueueOrdered
<1>4. ClientsOK
  BY DEF Init, ClientsOK, Retrying
<1>5. Calm
  BY <1>1 DEF Init, Calm, OpenIsThere, RetriesInVain, ContendedLocked, Contended,
     AtMostOneInside, ValueTells, Inside, Retrying
<1> QED BY <1>2, <1>3, <1>4, <1>5 DEF IInv

-----------------------------------------------------------------------------
(* One lemma per action, and the theorems.                                  *)

\* sem_open preserves the invariant: a new name gets one slot and nobody is inside.
LEMMA OpenSafe ==
  ASSUME IInv, NEW p \in Proc, Open(p)
  PROVE  IInv'
<1>1. PICK name \in Names : /\ CanOpen(sem, name) /\ sem' = SemOpen(sem, name, 1)
                            /\ named' = [named EXCEPT ![p] = name]
  BY DEF Open
<1>2. /\ pc[p] = "user" /\ client[p] = "idle"
      /\ client' = [client EXCEPT ![p] = "opened"]
      /\ UNCHANGED <<pc, slot, seen, early>>
  BY DEF Open, At
<1>3. TypeOK /\ OneSlotPerName /\ QueueOrdered /\ ClientsOK
  BY DEF IInv
<1> DEFINE i == GetName(sem, name)
           k == FindSem(sem)
<1>4. 0 \in Slots /\ 1 \in Counter
  BY SlotsAssumption, WidthAssumption DEF Slots, Counter
<1>5. \E j \in Slots, t \in [Slots -> Sem] :
        /\ t[j].used /\ t[j].name = name /\ \A m \in Slots \ {j} : t[m] = sem[m]
        /\ \/ t[j] = sem[j]
           \/ /\ ~sem[j].used /\ t[j].value = 1 /\ t[j].blocked_last = 0
              /\ t[j].blocked_first = 0
              /\ \A m \in Slots : ~(sem[m].used /\ sem[m].name = name)
        /\ \E m \in Slots : sem' = CountUp(t, m)
  <2>1. CASE i # NULL
    <3>1. i \in Slots /\ sem[i].used /\ sem[i].name = name
      BY <2>1, GetNameFacts
    <3>2. sem' = CountUp(sem, i)
      BY <1>1, <2>1 DEF SemOpen
    <3> HIDE DEF i
    <3> QED BY <1>3, <3>1, <3>2 DEF TypeOK
  <2>2. CASE i = NULL
    <3>1. k # NULL
      BY <1>1, <2>2 DEF CanOpen
    <3>2. k \in Slots /\ ~sem[k].used
      BY <3>1, FindSemFacts
    <3>3. \A m \in Slots : ~(sem[m].used /\ sem[m].name = name)
      BY <2>2, GetNameFacts
    <3> DEFINE s == NewSem(name, 1)
               t == [sem EXCEPT ![k] = s]
    <3>4. /\ s \in Sem /\ s.used /\ s.name = name /\ s.value = 1
          /\ s.blocked_last = 0 /\ s.blocked_first = 0
      BY <1>4, NewSemFacts
    <3>5. sem' = CountUp(t, 0)
      BY <1>1, <2>2 DEF SemOpen
    <3> HIDE DEF s, k
    <3>6. t \in [Slots -> Sem] /\ t[k] = s /\ \A m \in Slots \ {k} : t[m] = sem[m]
      BY <1>3, <3>2, <3>4 DEF TypeOK
    <3> HIDE DEF t
    <3> QED BY <1>4, <3>2, <3>3, <3>4, <3>5, <3>6
  <2> QED BY <2>1, <2>2
<1>6. PICK j \in Slots, t \in [Slots -> Sem], m \in Slots :
        /\ t[j].used /\ t[j].name = name /\ \A x \in Slots \ {j} : t[x] = sem[x]
        /\ \/ t[j] = sem[j]
           \/ /\ ~sem[j].used /\ t[j].value = 1 /\ t[j].blocked_last = 0
              /\ t[j].blocked_first = 0
              /\ \A x \in Slots : ~(sem[x].used /\ sem[x].name = name)
        /\ sem' = CountUp(t, m)
  BY <1>5
<1>7. /\ sem' \in [Slots -> Sem]
      /\ \A x \in Slots :
           /\ sem'[x].used = t[x].used /\ sem'[x].name = t[x].name
           /\ sem'[x].value = t[x].value /\ sem'[x].lock = t[x].lock
           /\ sem'[x].blocked_first = t[x].blocked_first
           /\ sem'[x].blocked_last = t[x].blocked_last
  BY <1>6, CountUpFacts
<1>8. OneSlotPerName' /\ QueueOrdered'
  BY <1>3, <1>6, <1>7 DEF OneSlotPerName, QueueOrdered
<1>9. TypeOK' /\ ClientsOK'
  BY <1>1, <1>2, <1>3, <1>7 DEF TypeOK, ClientsOK, Retrying
<1>10. ASSUME ~early PROVE Calm'
  <2>1. Calm
    BY <1>10 DEF IInv
  <2>2. \A q \in Proc : pc[q] \in Retrying => q # p
    BY <1>2 DEF Retrying
  <2>3. \A q \in Proc \ {p} : client'[q] = client[q] /\ named'[q] = named[q]
    BY <1>1, <1>2, <1>3 DEF TypeOK
  <2>4. client'[p] = "opened" /\ named'[p] = name
    BY <1>1, <1>2, <1>3 DEF TypeOK
  <2>5. \A x \in Slots : sem[x].used => x # j \/ t[j] = sem[j]
    BY <1>6
  <2>6. \A x \in Slots : sem[x].used =>
          /\ sem'[x].used /\ sem'[x].name = sem[x].name /\ sem'[x].value = sem[x].value
          /\ sem'[x].lock = sem[x].lock /\ sem'[x].blocked_last = sem[x].blocked_last
    BY <1>6, <1>7, <2>5
  <2>7. \A x \in Slots : sem'[x].used =>
          \/ sem[x].used
          \/ /\ x = j /\ sem'[x].value = 1 /\ sem'[x].blocked_last = 0
             /\ sem'[x].name = name
             /\ \A y \in Slots : ~(sem[y].used /\ sem[y].name = name)
    BY <1>6, <1>7
  <2>8. OpenIsThere'
    BY <1>6, <1>7, <2>1, <2>3, <2>4, <2>6 DEF Calm, OpenIsThere
  <2>9. RetriesInVain'
    BY <1>2, <1>3, <2>1, <2>2, <2>3, <2>6 DEF Calm, RetriesInVain, ClientsOK
  <2>10. ContendedLocked'
    BY <1>7, <2>1, <2>6, <2>7 DEF Calm, ContendedLocked, Contended
  <2>11. \A q \in Proc : /\ client'[q] = "inside" <=> client[q] = "inside"
                         /\ client[q] = "inside" => named'[q] = named[q]
    BY <1>2, <2>3, <2>4
  <2>12. AtMostOneInside'
    BY <2>1, <2>11 DEF Calm, AtMostOneInside, Inside
  <2>13. ValueTells'
    <3> SUFFICES ASSUME NEW x \in Slots, sem'[x].used, sem'[x].name \in Names
                 PROVE  (sem[x].value = IF \E q \in Proc : Inside(q, sem[x].name) THEN 0 ELSE 1)'
      BY DEF ValueTells
    <3>1. CASE sem[x].used
      BY <2>1, <2>6, <2>11, <3>1 DEF Calm, ValueTells, Inside
    <3>2. CASE ~sem[x].used
      <4>1. \A q \in Proc : ~(client[q] = "inside" /\ named[q] = name)
        BY <2>1, <2>7, <3>2 DEF Calm, OpenIsThere
      <4> QED BY <2>7, <2>11, <3>2, <4>1 DEF Inside
    <3> QED BY <3>1, <3>2
  <2> QED BY <2>8, <2>9, <2>10, <2>12, <2>13 DEF Calm
<1> QED BY <1>2, <1>8, <1>9, <1>10 DEF IInv

\* A sem_wait that succeeds at once lets one process in where nobody was.
LEMMA WaitSafe ==
  ASSUME IInv, NEW p \in Proc, Wait(p)
  PROVE  IInv'
<1> DEFINE i == GetName(sem, named[p])
<1>1. /\ pc[p] = "user" /\ client[p] = "opened"
      /\ client' = [client EXCEPT ![p] = "inside"]
      /\ UNCHANGED <<named, pc, slot, seen, early>>
      /\ \/ i = NULL /\ sem' = sem
         \/ i # NULL /\ CheckSem(sem[i]) /\ sem' = [sem EXCEPT ![i] = Acquired(sem[i])]
  BY DEF Wait, At
<1>2. TypeOK /\ OneSlotPerName /\ QueueOrdered /\ ClientsOK /\ named[p] \in Names
  BY <1>1 DEF IInv, ClientsOK
<1>3. CASE i = NULL
  <2>1. \A j \in Slots : ~(sem[j].used /\ sem[j].name = named[p])
    BY <1>3, GetNameFacts
  <2>2. early
    BY <1>1, <2>1 DEF IInv, Calm, OpenIsThere
  <2> HIDE DEF i
  <2> QED BY <1>1, <1>2, <1>3, <2>2 DEF IInv, TypeOK, OneSlotPerName, QueueOrdered,
       ClientsOK, Retrying
<1>4. CASE i # NULL
  <2>1. i \in Slots /\ sem[i].used /\ sem[i].name = named[p]
    BY <1>4, GetNameFacts
  <2> HIDE DEF i
  <2> DEFINE s == Acquired(sem[i])
  <2>2. sem[i] \in Sem /\ sem[i].lock = 0 /\ sem[i].value > 0
    BY <1>1, <1>2, <1>4, <2>1 DEF TypeOK, CheckSem
  <2>3. /\ s \in Sem /\ s.used = sem[i].used /\ s.name = sem[i].name
        /\ sem[i].value = 1 => s.value = 0
        /\ s.blocked_first = sem[i].blocked_first /\ s.blocked_last = sem[i].blocked_last
    BY <2>2, AcquiredFacts
  <2>4. sem' = [sem EXCEPT ![i] = s]
    BY <1>1, <1>4
  <2> HIDE DEF s
  <2>5. /\ sem' \in [Slots -> Sem] /\ OneSlotPerName' /\ QueueOrdered'
        /\ sem'[i] = s /\ \A j \in Slots \ {i} : sem'[j] = sem[j]
    BY <1>2, <2>1, <2>3, <2>4, Replaced DEF QueueOrdered
  <2>6. TypeOK' /\ ClientsOK'
    BY <1>1, <1>2, <2>5 DEF TypeOK, ClientsOK, Retrying
  <2>7. ASSUME ~early PROVE Calm'
    <3>1. Calm
      BY <2>7 DEF IInv
    <3>2. /\ \A q \in Proc \ {p} : client'[q] = client[q]
          /\ client'[p] = "inside" /\ named' = named
      BY <1>1, <1>2 DEF TypeOK
    <3>3. sem[i].blocked_last = 0
      BY <1>2, <2>1, <2>2, <3>1 DEF Calm, ContendedLocked, Contended, Sem
    <3>4. /\ sem[i].value = 1
          /\ \A q \in Proc : ~(client[q] = "inside" /\ named[q] = named[p])
      <4>1. sem[i].value # 0
        BY <2>2
      <4>2. sem[i].value = IF \E q \in Proc : Inside(q, named[p]) THEN 0 ELSE 1
        BY <1>2, <2>1, <3>1 DEF Calm, ValueTells
      <4>3. ~(\E q \in Proc : Inside(q, named[p]))
        BY <4>1, <4>2
      <4>4. sem[i].value = 1
        BY <4>2, <4>3
      <4> QED BY <4>3, <4>4 DEF Inside
    <3>5. OpenIsThere'
      <4>1. \A q \in Proc : client'[q] # "idle" => client[q] # "idle"
        BY <1>1, <3>2
      <4>2. \A j \in Slots : sem'[j].used = sem[j].used /\ sem'[j].name = sem[j].name
        BY <2>3, <2>5
      <4> QED BY <3>1, <3>2, <4>1, <4>2 DEF Calm, OpenIsThere
    <3>6. RetriesInVain'
      BY <1>1, <1>2, <2>3, <2>5, <3>1 DEF Calm, RetriesInVain, ClientsOK, Retrying
    <3>7. ContendedLocked'
      BY <2>3, <2>5, <3>1, <3>3 DEF Calm, ContendedLocked, Contended
    <3>8. AtMostOneInside'
      BY <3>1, <3>2, <3>4 DEF Calm, AtMostOneInside, Inside
    <3>9. ValueTells'
      <4> SUFFICES ASSUME NEW x \in Slots, sem'[x].used, sem'[x].name \in Names
                   PROVE  (sem[x].value = IF \E q \in Proc : Inside(q, sem[x].name) THEN 0 ELSE 1)'
        BY DEF ValueTells
      <4>1. CASE x = i
        BY <2>1, <2>3, <2>5, <3>2, <3>4, <4>1 DEF Inside
      <4>2. CASE x # i
        <5>1. sem'[x] = sem[x] /\ sem[x].name # named[p]
          BY <1>2, <2>1, <2>5, <4>2 DEF OneSlotPerName
        <5>2. \A q \in Proc : Inside(q, sem[x].name) <=> Inside(q, sem[x].name)'
          BY <3>2, <5>1 DEF Inside
        <5> QED BY <3>1, <5>1, <5>2 DEF Calm, ValueTells
      <4> QED BY <4>1, <4>2
    <3> QED BY <3>5, <3>6, <3>7, <3>8, <3>9 DEF Calm
  <2> QED BY <1>1, <2>5, <2>6, <2>7 DEF IInv
<1> QED BY <1>3, <1>4

\* Setting the lock of a semaphore, and possibly taking a place in its queue,
\* while nobody gets in or out.
LEMMA FailSafe ==
  ASSUME IInv, NEW p \in Proc, NEW i \in Slots, NEW s \in Sem,
         sem' = [sem EXCEPT ![i] = s], s.used = sem[i].used, s.name = sem[i].name,
         s.value = sem[i].value, s.lock = 1, s.blocked_first <= s.blocked_last,
         s.blocked_last >= sem[i].blocked_last,
         UNCHANGED <<client, named, seen, early>>,
         NEW point \in Retrying, pc' = [pc EXCEPT ![p] = point],
         client[p] = "opened", slot' = [slot EXCEPT ![p] = i],
         ~early => /\ point \in {"check", "again"} /\ sem[i].used
                   /\ sem[i].name = named[p] /\ s.blocked_last > 0
  PROVE  IInv'
<1>1. TypeOK /\ OneSlotPerName /\ QueueOrdered /\ ClientsOK
  BY DEF IInv
<1>2. /\ sem' \in [Slots -> Sem] /\ OneSlotPerName' /\ QueueOrdered'
      /\ sem'[i] = s /\ \A j \in Slots \ {i} : sem'[j] = sem[j]
  BY Replaced
<1>3. TypeOK' /\ ClientsOK'
  BY <1>1, <1>2 DEF TypeOK, ClientsOK, Retrying
<1>4. ASSUME ~early PROVE Calm'
  <2>1. Calm
    BY <1>4 DEF IInv
  <2>2. \A j \in Slots : /\ sem'[j].used = sem[j].used /\ sem'[j].name = sem[j].name
                         /\ sem'[j].value = sem[j].value
    BY <1>2
  <2>3. OpenIsThere'
    BY <2>1, <2>2 DEF Calm, OpenIsThere
  <2>4. RetriesInVain'
    <3> SUFFICES ASSUME NEW q \in Proc, pc'[q] \in Retrying
                 PROVE  /\ pc'[q] \in {"check", "again"}
                        /\ sem'[slot'[q]].used /\ sem'[slot'[q]].name = named'[q]
                        /\ sem'[slot'[q]].blocked_last > 0
      BY DEF RetriesInVain
    <3>1. CASE q = p
      BY <1>1, <1>2, <1>4, <3>1 DEF TypeOK
    <3>2. CASE q # p
      <4>1. /\ slot'[q] = slot[q] /\ slot[q] \in Slots /\ pc'[q] = pc[q]
            /\ named'[q] = named[q]
        BY <1>1, <3>2 DEF TypeOK, ClientsOK
      <4>2. /\ pc[q] \in {"check", "again"} /\ sem[slot[q]].used
            /\ sem[slot[q]].name = named[q] /\ sem[slot[q]].blocked_last > 0
        BY <2>1, <4>1 DEF Calm, RetriesInVain
      <4>3. sem'[slot[q]].blocked_last > 0
        <5>1. CASE slot[q] = i
          BY <1>1, <1>2, <4>2, <5>1 DEF TypeOK, Sem
        <5>2. CASE slot[q] # i
          BY <1>2, <4>1, <4>2, <5>2
        <5> QED BY <5>1, <5>2
      <4> QED BY <2>2, <4>1, <4>2, <4>3
    <3> QED BY <3>1, <3>2
  <2>5. ContendedLocked'
    BY <1>2, <2>1, <2>2 DEF Calm, ContendedLocked, Contended
  <2>6. AtMostOneInside'
    BY <2>1 DEF Calm, AtMostOneInside, Inside
  <2>7. ValueTells'
    BY <2>1, <2>2 DEF Calm, ValueTells, Inside
  <2> QED BY <2>3, <2>4, <2>5, <2>6, <2>7 DEF Calm
<1> QED BY <1>2, <1>3, <1>4 DEF IInv

\* A sem_wait that fails preserves the invariant.
LEMMA WaitFailsSafe ==
  ASSUME IInv, NEW p \in Proc, WaitFails(p)
  PROVE  IInv'
<1> DEFINE i == GetName(sem, named[p])
           s == Enqueue(sem[i], p)
<1>1. /\ client[p] = "opened" /\ i # NULL
      /\ sem' = [sem EXCEPT ![i] = Locked(s)]
      /\ slot' = [slot EXCEPT ![p] = i] /\ pc' = [pc EXCEPT ![p] = "check"]
      /\ UNCHANGED <<client, named, seen, early>>
  BY DEF WaitFails, At
<1>2. i \in Slots /\ sem[i].used /\ sem[i].name = named[p]
  BY <1>1, GetNameFacts
<1> HIDE DEF i
<1>3. sem[i] \in Sem /\ sem[i].blocked_first <= sem[i].blocked_last
  BY <1>2 DEF IInv, TypeOK, QueueOrdered
<1>4. /\ s \in Sem /\ s.used = sem[i].used /\ s.name = sem[i].name
      /\ s.value = sem[i].value /\ s.blocked_first = sem[i].blocked_first
      /\ s.blocked_last = sem[i].blocked_last + 1
  BY <1>3, EnqueueFacts
<1> HIDE DEF s
<1> DEFINE u == Locked(s)
<1>5. /\ u \in Sem /\ u.lock = 1 /\ u.used = s.used /\ u.name = s.name
      /\ u.value = s.value /\ u.blocked_first = s.blocked_first
      /\ u.blocked_last = s.blocked_last
  BY <1>4, LockedFacts
<1>6. sem' = [sem EXCEPT ![i] = u]
  BY <1>1
<1> HIDE DEF u
<1>7. /\ u.blocked_first <= u.blocked_last /\ u.blocked_last >= sem[i].blocked_last
      /\ u.blocked_last > 0 /\ u.used = sem[i].used /\ u.name = sem[i].name
      /\ u.value = sem[i].value
  BY <1>3, <1>4, <1>5 DEF Sem
<1>8. "check" \in Retrying
  BY DEF Retrying
<1> QED BY <1>1, <1>2, <1>5, <1>6, <1>7, <1>8, FailSafe

\* So does the xchg of a retry.
LEMMA CheckSafe ==
  ASSUME IInv, NEW p \in Proc, Check(p)
  PROVE  IInv'
<1> DEFINE i == slot[p]
           s == Locked(sem[i])
           point == IF sem[i].lock = 0 THEN "value" ELSE "again"
<1>1. /\ pc[p] = "check" /\ pc' = [pc EXCEPT ![p] = point]
      /\ sem' = [sem EXCEPT ![i] = s]
      /\ UNCHANGED <<client, named, slot, seen, early>>
  BY DEF Check, At
<1>2. client[p] = "opened" /\ i \in Slots
  BY <1>1 DEF IInv, ClientsOK, Retrying
<1>3. /\ sem[i] \in Sem /\ sem[i].blocked_first <= sem[i].blocked_last
      /\ slot' = [slot EXCEPT ![p] = i]
  BY <1>1, <1>2 DEF IInv, TypeOK, QueueOrdered
<1>4. /\ s \in Sem /\ s.lock = 1 /\ s.used = sem[i].used /\ s.name = sem[i].name
      /\ s.value = sem[i].value /\ s.blocked_first = sem[i].blocked_first
      /\ s.blocked_last = sem[i].blocked_last
  BY <1>3, LockedFacts
<1>5. s.blocked_first <= s.blocked_last /\ s.blocked_last >= sem[i].blocked_last
  BY <1>3, <1>4 DEF Sem
<1>6. ~early => /\ point \in {"check", "again"} /\ sem[i].used
                /\ sem[i].name = named[p] /\ s.blocked_last > 0
  <2> SUFFICES ASSUME ~early
               PROVE  /\ point \in {"check", "again"} /\ sem[i].used
                      /\ sem[i].name = named[p] /\ s.blocked_last > 0
    OBVIOUS
  <2>1. sem[i].used /\ sem[i].name = named[p] /\ sem[i].blocked_last > 0
    BY <1>1 DEF IInv, Calm, RetriesInVain, Retrying
  <2>2. named[p] \in Names
    BY <1>2 DEF IInv, ClientsOK
  <2>3. sem[i].lock = 1
    BY <1>2, <2>1, <2>2 DEF IInv, Calm, ContendedLocked, Contended
  <2> QED BY <1>4, <2>1, <2>3
<1>7. point \in Retrying
  BY DEF Retrying
<1> HIDE DEF s, point, i
<1> QED BY <1>1, <1>2, <1>3, <1>4, <1>5, <1>6, <1>7, FailSafe

\* So does the round with the scheduler disabled.
LEMMA AgainSafe ==
  ASSUME IInv, NEW p \in Proc, Again(p)
  PROVE  IInv'
<1> DEFINE i == slot[p]
           e == Enqueue(sem[i], p)
<1>1. /\ pc[p] = "again" /\ UNCHANGED <<client, named, slot, seen, early>>
      /\ \/ /\ CheckSem(sem[i])
            /\ sem' = [sem EXCEPT ![i] = Locked(Unqueue(e))]
            /\ pc' = [pc EXCEPT ![p] = "load"]
         \/ /\ ~CheckSem(sem[i])
            /\ sem' = [sem EXCEPT ![i] = Locked(e)]
            /\ pc' = [pc EXCEPT ![p] = "check"]
  BY DEF Again, At
<1>2. client[p] = "opened" /\ i \in Slots
  BY <1>1 DEF IInv, ClientsOK, Retrying
<1>3. /\ sem[i] \in Sem /\ sem[i].blocked_first <= sem[i].blocked_last
      /\ slot' = [slot EXCEPT ![p] = i]
  BY <1>1, <1>2 DEF IInv, TypeOK, QueueOrdered
<1>4. /\ e \in Sem /\ e.used = sem[i].used /\ e.name = sem[i].name
      /\ e.value = sem[i].value /\ e.blocked_first = sem[i].blocked_first
      /\ e.blocked_last = sem[i].blocked_last + 1
  BY <1>3, EnqueueFacts
<1>5. ~early => /\ sem[i].used /\ sem[i].name = named[p]
                /\ sem[i].blocked_last > 0 /\ sem[i].lock = 1
  <2> SUFFICES ASSUME ~early
               PROVE  /\ sem[i].used /\ sem[i].name = named[p]
                      /\ sem[i].blocked_last > 0 /\ sem[i].lock = 1
    OBVIOUS
  <2>1. sem[i].used /\ sem[i].name = named[p] /\ sem[i].blocked_last > 0
    BY <1>1 DEF IInv, Calm, RetriesInVain, Retrying
  <2>2. named[p] \in Names
    BY <1>2 DEF IInv, ClientsOK
  <2> QED BY <1>2, <2>1, <2>2 DEF IInv, Calm, ContendedLocked, Contended
<1> HIDE DEF e, i
<1>6. e.blocked_first <= e.blocked_last /\ e.blocked_last # e.blocked_first
  BY <1>3, <1>4 DEF Sem
<1>7. CASE CheckSem(sem[i])
  <2> DEFINE u == Unqueue(e)
             s == Locked(u)
  <2>1. /\ u \in Sem /\ u.used = e.used /\ u.name = e.name /\ u.value = e.value
        /\ u.blocked_first <= u.blocked_last
    BY <1>4, <1>6, UnqueueFacts
  <2>2. u.blocked_last = sem[i].blocked_last
    BY <1>3, <1>4, <1>6 DEF Unqueue, Sem
  <2> HIDE DEF u
  <2>3. /\ s \in Sem /\ s.lock = 1 /\ s.used = u.used /\ s.name = u.name
        /\ s.value = u.value /\ s.blocked_first = u.blocked_first
        /\ s.blocked_last = u.blocked_last
    BY <2>1, LockedFacts
  <2>4. /\ sem' = [sem EXCEPT ![i] = s] /\ pc' = [pc EXCEPT ![p] = "load"]
        /\ early /\ "load" \in Retrying
    BY <1>1, <1>5, <1>7 DEF u, CheckSem, Retrying
  <2>5. /\ s.blocked_last >= sem[i].blocked_last /\ s.blocked_first <= s.blocked_last
        /\ s.used = sem[i].used /\ s.name = sem[i].name /\ s.value = sem[i].value
    BY <1>3, <1>4, <2>1, <2>2, <2>3 DEF Sem
  <2> HIDE DEF s
  <2> QED BY <1>1, <1>2, <1>3, <2>3, <2>4, <2>5, FailSafe
<1>8. CASE ~CheckSem(sem[i])
  <2> DEFINE s == Locked(e)
  <2>1. /\ s \in Sem /\ s.lock = 1 /\ s.used = e.used /\ s.name = e.name
        /\ s.value = e.value /\ s.blocked_first = e.blocked_first
        /\ s.blocked_last = e.blocked_last
    BY <1>4, LockedFacts
  <2>2. /\ sem' = [sem EXCEPT ![i] = s] /\ pc' = [pc EXCEPT ![p] = "check"]
        /\ "check" \in Retrying
    BY <1>1, <1>8 DEF Retrying
  <2>3. /\ s.blocked_last >= sem[i].blocked_last /\ s.blocked_last > 0
        /\ s.blocked_first <= s.blocked_last
        /\ s.used = sem[i].used /\ s.name = sem[i].name /\ s.value = sem[i].value
    BY <1>3, <1>4, <1>6, <2>1 DEF Sem
  <2> HIDE DEF s
  <2> QED BY <1>1, <1>2, <1>3, <1>5, <2>1, <2>2, <2>3, FailSafe
<1> QED BY <1>7, <1>8

\* Going on through the retry without touching any semaphore.
LEMMA StepSafe ==
  ASSUME IInv, NEW p \in Proc, NEW point \in Retrying \cup {"killed", "lost"},
         client[p] = "opened" \/ point \notin Retrying,
         slot[p] \in Slots \/ point \notin Retrying,
         early \/ point \notin Retrying,
         pc' = [pc EXCEPT ![p] = point], UNCHANGED <<sem, client, named, slot, early>>,
         seen' \in [Proc -> Counter]
  PROVE  IInv'
<1>1. TypeOK' /\ OneSlotPerName' /\ QueueOrdered'
  BY DEF IInv, TypeOK, OneSlotPerName, QueueOrdered
<1>2. ClientsOK'
  BY DEF IInv, TypeOK, ClientsOK
<1>3. ~early => Calm'
  <2> SUFFICES ASSUME ~early PROVE Calm'
    OBVIOUS
  <2>1. Calm /\ \A q \in Proc : pc'[q] \in Retrying => pc'[q] = pc[q]
    BY DEF IInv, TypeOK
  <2>2. RetriesInVain'
    BY <2>1 DEF Calm, RetriesInVain
  <2> QED BY <2>1, <2>2 DEF Calm, OpenIsThere, ContendedLocked, Contended,
       AtMostOneInside, ValueTells, Inside
<1> QED BY <1>1, <1>2, <1>3 DEF IInv

\* A process gets as far as load, store or unlock only on a semaphore that
\* was freed under it.
LEMMA LateOnly ==
  ASSUME IInv, NEW p \in Proc, pc[p] \in {"value", "load", "store", "unlock"}
  PROVE  early /\ client[p] = "opened" /\ slot[p] \in Slots
BY DEF IInv, ClientsOK, Calm, RetriesInVain, Retrying

\* The end of a retry that got through preserves what is left of the invariant.
LEMMA LateSafe ==
  ASSUME IInv, NEW p \in Proc, TestValue(p) \/ Load(p) \/ Store(p) \/ Unlock(p)
  PROVE  IInv'
<1>1. /\ pc[p] \in {"value", "load", "store", "unlock"}
      /\ UNCHANGED <<named, early>>
  BY DEF TestValue, Load, Store, Unlock, At
<1>2. early /\ client[p] = "opened" /\ slot[p] \in Slots
  BY <1>1, LateOnly
<1>3. TypeOK /\ OneSlotPerName /\ QueueOrdered /\ ClientsOK /\ sem[slot[p]] \in Sem
  BY <1>2 DEF IInv, TypeOK
<1>4. CASE TestValue(p)
  <2> DEFINE point == IF sem[slot[p]].value > 0 THEN "load" ELSE "again"
  <2>1. /\ pc' = [pc EXCEPT ![p] = point]
        /\ UNCHANGED <<sem, client, named, slot, seen, early>>
    BY <1>4 DEF TestValue
  <2>2. point \in Retrying
    BY DEF Retrying
  <2> HIDE DEF point
  <2> QED BY <1>2, <1>3, <2>1, <2>2, StepSafe DEF TypeOK
<1>5. CASE Load(p)
  <2>1. /\ pc' = [pc EXCEPT ![p] = "store"] /\ UNCHANGED <<sem, client, named, slot, early>>
        /\ seen' = [seen EXCEPT ![p] = sem[slot[p]].value]
    BY <1>5 DEF Load
  <2>2. seen' \in [Proc -> Counter] /\ "store" \in Retrying
    BY <1>3, <2>1 DEF TypeOK, Sem, Retrying
  <2> QED BY <1>2, <2>1, <2>2, StepSafe
<1>6. CASE Store(p)
  <2> DEFINE value == Down(seen[p])
             s == [sem[slot[p]] EXCEPT !.value = value]
  <2>1. value \in Counter /\ 0 \in Counter
    BY <1>3, WidthAssumption DEF TypeOK, Counter, Down
  <2>2. /\ sem' = [sem EXCEPT ![slot[p]] = s]
        /\ seen' = [seen EXCEPT ![p] = 0] /\ pc' = [pc EXCEPT ![p] = "unlock"]
        /\ UNCHANGED <<client, named, slot, early>>
    BY <1>6 DEF Store
  <2> HIDE DEF value
  <2>3. /\ s \in Sem /\ s.used = sem[slot[p]].used /\ s.name = sem[slot[p]].name
        /\ s.blocked_first <= s.blocked_last
    BY <1>2, <1>3, <2>1 DEF Sem, QueueOrdered
  <2> HIDE DEF s
  <2>4. sem' \in [Slots -> Sem] /\ OneSlotPerName' /\ QueueOrdered'
    BY <1>2, <2>2, <2>3, Replaced
  <2>5. TypeOK' /\ ClientsOK'
    BY <1>2, <1>3, <2>1, <2>2, <2>4 DEF TypeOK, ClientsOK, Retrying
  <2> QED BY <1>2, <2>2, <2>4, <2>5 DEF IInv
<1>7. CASE Unlock(p)
  <2> DEFINE s == [sem[slot[p]] EXCEPT !.lock = 0]
  <2>1. /\ sem' = [sem EXCEPT ![slot[p]] = s]
        /\ pc' = [pc EXCEPT ![p] = "user"] /\ slot' = [slot EXCEPT ![p] = NULL]
        /\ client' = [client EXCEPT ![p] = "inside"] /\ UNCHANGED <<named, seen, early>>
    BY <1>7 DEF Unlock
  <2>2. /\ s \in Sem /\ s.used = sem[slot[p]].used /\ s.name = sem[slot[p]].name
        /\ s.blocked_first <= s.blocked_last
    BY <1>2, <1>3 DEF Sem, QueueOrdered
  <2> HIDE DEF s
  <2>3. sem' \in [Slots -> Sem] /\ OneSlotPerName' /\ QueueOrdered'
    BY <1>2, <2>1, <2>2, Replaced
  <2>4. TypeOK' /\ ClientsOK'
    BY <1>2, <1>3, <2>1, <2>3 DEF TypeOK, ClientsOK, Retrying
  <2> QED BY <1>2, <2>1, <2>3, <2>4 DEF IInv
<1> QED BY <1>4, <1>5, <1>6, <1>7

\* A kill preserves the invariant: what the process held stays held.
LEMMA KillSafe ==
  ASSUME IInv, NEW p \in Proc, Kill(p) \/ TickWhileDisabled(p)
  PROVE  IInv'
<1>1. PICK point \in {"killed", "lost"} :
        /\ pc' = [pc EXCEPT ![p] = point]
        /\ UNCHANGED <<sem, client, named, slot, seen, early>>
  BY DEF Kill, TickWhileDisabled
<1>2. point \notin Retrying /\ seen' \in [Proc -> Counter]
  BY <1>1 DEF Retrying, IInv, TypeOK
<1> QED BY <1>1, <1>2, StepSafe

\* sem_post preserves the invariant: the one who was inside leaves.
LEMMA PostSafe ==
  ASSUME IInv, NEW p \in Proc, Post(p)
  PROVE  IInv'
<1> DEFINE i == GetName(sem, named[p])
           s == Posted(sem[i])
<1>1. /\ pc[p] = "user" /\ client[p] = "inside"
      /\ client' = [client EXCEPT ![p] = "opened"]
      /\ UNCHANGED <<named, pc, slot, seen, early>>
      /\ sem' = IF i = NULL THEN sem ELSE [sem EXCEPT ![i] = s]
  BY DEF Post, At
<1>2. TypeOK /\ OneSlotPerName /\ QueueOrdered /\ ClientsOK /\ named[p] \in Names
  BY <1>1 DEF IInv, ClientsOK
<1>3. CASE i = NULL
  <2>1. \A j \in Slots : ~(sem[j].used /\ sem[j].name = named[p])
    BY <1>3, GetNameFacts
  <2>2. early
    BY <1>1, <2>1 DEF IInv, Calm, OpenIsThere
  <2> HIDE DEF i
  <2> QED BY <1>1, <1>2, <1>3, <2>2 DEF IInv, TypeOK, OneSlotPerName, QueueOrdered,
       ClientsOK, Retrying
<1>4. CASE i # NULL
  <2>1. i \in Slots /\ sem[i].used /\ sem[i].name = named[p]
    BY <1>4, GetNameFacts
  <2> HIDE DEF i
  <2>2. sem[i] \in Sem /\ sem[i].blocked_first <= sem[i].blocked_last
    BY <1>2, <2>1 DEF TypeOK, QueueOrdered
  <2>3. /\ s \in Sem /\ s.used = sem[i].used /\ s.name = sem[i].name
        /\ sem[i].value = 0 => s.value = 1
        /\ s.lock = sem[i].lock /\ s.blocked_last = sem[i].blocked_last
        /\ s.blocked_first <= s.blocked_last
    BY <2>2, PostedFacts
  <2>4. sem' = [sem EXCEPT ![i] = s]
    BY <1>1, <1>4
  <2> HIDE DEF s
  <2>5. /\ sem' \in [Slots -> Sem] /\ OneSlotPerName' /\ QueueOrdered'
        /\ sem'[i] = s /\ \A j \in Slots \ {i} : sem'[j] = sem[j]
    BY <2>1, <2>3, <2>4, Replaced
  <2>6. TypeOK' /\ ClientsOK'
    BY <1>1, <1>2, <2>5 DEF TypeOK, ClientsOK, Retrying
  <2>7. ASSUME ~early PROVE Calm'
    <3>1. Calm
      BY <2>7 DEF IInv
    <3>2. /\ \A q \in Proc \ {p} : client'[q] = client[q]
          /\ client'[p] = "opened" /\ named' = named
      BY <1>1, <1>2 DEF TypeOK
    <3>3. sem[i].value = 0
      <4>1. Inside(p, named[p])
        BY <1>1 DEF Inside
      <4> QED BY <1>2, <2>1, <3>1, <4>1 DEF Calm, ValueTells
    <3>4. \A q \in Proc : client'[q] = "inside" => named[q] # named[p]
      <4> SUFFICES ASSUME NEW q \in Proc, client'[q] = "inside", named[q] = named[p]
                   PROVE  FALSE
        OBVIOUS
      <4>1. q # p /\ client[q] = "inside"
        BY <3>2
      <4>2. client[p] = "inside"
        BY <1>1
      <4> QED BY <1>2, <3>1, <4>1, <4>2 DEF Calm, AtMostOneInside, Inside
    <3>5. OpenIsThere'
      <4>1. \A q \in Proc : client'[q] # "idle" => client[q] # "idle"
        BY <1>1, <3>2
      <4>2. \A j \in Slots : sem'[j].used = sem[j].used /\ sem'[j].name = sem[j].name
        BY <2>3, <2>5
      <4> QED BY <3>1, <3>2, <4>1, <4>2 DEF Calm, OpenIsThere
    <3>6. RetriesInVain'
      BY <1>1, <1>2, <2>3, <2>5, <3>1 DEF Calm, RetriesInVain, ClientsOK, Retrying
    <3>7. ContendedLocked'
      BY <2>3, <2>5, <3>1 DEF Calm, ContendedLocked, Contended
    <3>8. AtMostOneInside'
      BY <3>1, <3>2 DEF Calm, AtMostOneInside, Inside
    <3>9. ValueTells'
      <4> SUFFICES ASSUME NEW x \in Slots, sem'[x].used, sem'[x].name \in Names
                   PROVE  (sem[x].value = IF \E q \in Proc : Inside(q, sem[x].name) THEN 0 ELSE 1)'
        BY DEF ValueTells
      <4>1. CASE x = i
        BY <2>1, <2>3, <2>5, <3>2, <3>3, <3>4, <4>1 DEF Inside
      <4>2. CASE x # i
        <5>1. sem'[x] = sem[x] /\ sem[x].name # named[p]
          BY <1>2, <2>1, <2>5, <4>2 DEF OneSlotPerName
        <5>2. \A q \in Proc : Inside(q, sem[x].name) <=> Inside(q, sem[x].name)'
          BY <3>2, <5>1 DEF Inside
        <5> QED BY <3>1, <5>1, <5>2 DEF Calm, ValueTells
      <4> QED BY <4>1, <4>2
    <3> QED BY <3>5, <3>6, <3>7, <3>8, <3>9 DEF Calm
  <2> QED BY <1>1, <2>5, <2>6, <2>7 DEF IInv
<1> QED BY <1>3, <1>4

\* sem_close preserves the invariant, until it frees a slot under somebody.
LEMMA CloseSafe ==
  ASSUME IInv, NEW p \in Proc, Close(p)
  PROVE  IInv'
<1> DEFINE i == GetName(sem, named[p])
           s == Closed(sem[i])
<1>1. /\ pc[p] = "user" /\ client[p] = "opened"
      /\ client' = [client EXCEPT ![p] = "idle"]
      /\ named' = [named EXCEPT ![p] = NULL]
      /\ UNCHANGED <<pc, slot, seen>>
      /\ \/ i = NULL /\ UNCHANGED <<sem, early>>
         \/ /\ i # NULL /\ sem' = [sem EXCEPT ![i] = s]
            /\ early' = (early \/ (~sem'[i].used /\ \E q \in Proc \ {p} : Opened(q, named[p])))
  BY DEF Close, At
<1>2. TypeOK /\ OneSlotPerName /\ QueueOrdered /\ ClientsOK /\ named[p] \in Names
  BY <1>1 DEF IInv, ClientsOK
<1>3. CASE i = NULL
  <2>1. \A j \in Slots : ~(sem[j].used /\ sem[j].name = named[p])
    BY <1>3, GetNameFacts
  <2>2. early
    BY <1>1, <2>1 DEF IInv, Calm, OpenIsThere
  <2> HIDE DEF i
  <2> QED BY <1>1, <1>2, <1>3, <2>2 DEF IInv, TypeOK, OneSlotPerName, QueueOrdered,
       ClientsOK, Retrying
<1>4. CASE i # NULL
  <2>1. i \in Slots /\ sem[i].used /\ sem[i].name = named[p]
    BY <1>4, GetNameFacts
  <2> HIDE DEF i
  <2>2. sem[i] \in Sem /\ sem[i].blocked_first <= sem[i].blocked_last
    BY <1>2, <2>1 DEF TypeOK, QueueOrdered
  <2>3. /\ s \in Sem
        /\ s.used => s.name = sem[i].name
        /\ s.value = sem[i].value /\ s.lock = sem[i].lock
        /\ s.blocked_last = sem[i].blocked_last /\ s.blocked_first <= s.blocked_last
    BY <2>2, ClosedFacts
  <2>4. /\ sem' = [sem EXCEPT ![i] = s]
        /\ early' = (early \/ (~sem'[i].used /\ \E q \in Proc \ {p} : Opened(q, named[p])))
    BY <1>1, <1>4
  <2> HIDE DEF s
  <2>5. /\ sem' \in [Slots -> Sem] /\ OneSlotPerName' /\ QueueOrdered'
        /\ sem'[i] = s /\ \A j \in Slots \ {i} : sem'[j] = sem[j]
    BY <2>1, <2>3, <2>4, Replaced
  <2>6. early' \in BOOLEAN
    BY <1>2, <2>4, <2>5, <2>3 DEF TypeOK, Sem
  <2>7. TypeOK' /\ ClientsOK'
    BY <1>1, <1>2, <2>5, <2>6 DEF TypeOK, ClientsOK, Retrying
  <2>8. ASSUME ~early' PROVE Calm'
    <3>1. Calm /\ (s.used \/ \A q \in Proc \ {p} : ~Opened(q, named[p]))
      BY <2>4, <2>5, <2>8 DEF IInv
    <3>2. /\ \A q \in Proc \ {p} : client'[q] = client[q] /\ named'[q] = named[q]
          /\ client'[p] = "idle"
      BY <1>1, <1>2 DEF TypeOK
    <3>3. OpenIsThere'
      <4> SUFFICES ASSUME NEW q \in Proc, client'[q] # "idle"
                   PROVE  \E j \in Slots : sem'[j].used /\ sem'[j].name = named'[q]
        BY DEF OpenIsThere
      <4>1. q # p /\ client[q] # "idle" /\ named'[q] = named[q]
        BY <3>2
      <4>2. PICK j \in Slots : sem[j].used /\ sem[j].name = named[q]
        BY <3>1, <4>1 DEF Calm, OpenIsThere
      <4>3. j = i => s.used
        BY <2>1, <3>1, <4>1, <4>2 DEF Opened
      <4> QED BY <2>3, <2>5, <4>1, <4>2, <4>3
    <3>4. RetriesInVain'
      <4> SUFFICES ASSUME NEW q \in Proc, pc[q] \in Retrying
                   PROVE  /\ pc[q] \in {"check", "again"}
                          /\ sem'[slot[q]].used /\ sem'[slot[q]].name = named'[q]
                          /\ sem'[slot[q]].blocked_last > 0
        BY <1>1 DEF RetriesInVain
      <4>1. q # p /\ client[q] = "opened" /\ slot[q] \in Slots /\ named'[q] = named[q]
        BY <1>1, <1>2, <3>2 DEF ClientsOK, Retrying
      <4>2. /\ pc[q] \in {"check", "again"} /\ sem[slot[q]].used
            /\ sem[slot[q]].name = named[q] /\ sem[slot[q]].blocked_last > 0
        BY <3>1 DEF Calm, RetriesInVain
      <4>3. slot[q] = i => s.used
        BY <2>1, <3>1, <4>1, <4>2 DEF Opened
      <4> QED BY <2>3, <2>5, <4>1, <4>2, <4>3
    <3>5. \A x \in Slots : sem'[x].used =>
            /\ sem[x].used /\ sem'[x].name = sem[x].name /\ sem'[x].value = sem[x].value
            /\ sem'[x].lock = sem[x].lock /\ sem'[x].blocked_last = sem[x].blocked_last
      BY <2>1, <2>3, <2>5
    <3>6. ContendedLocked'
      BY <3>1, <3>5 DEF Calm, ContendedLocked, Contended
    <3>7. \A q \in Proc : /\ client'[q] = "inside" <=> client[q] = "inside"
                          /\ client[q] = "inside" => named'[q] = named[q]
      BY <1>1, <3>2
    <3>8. AtMostOneInside'
      BY <3>1, <3>7 DEF Calm, AtMostOneInside, Inside
    <3>9. ValueTells'
      BY <3>1, <3>5, <3>7 DEF Calm, ValueTells, Inside
    <3> QED BY <3>3, <3>4, <3>6, <3>8, <3>9 DEF Calm
  <2> QED BY <2>5, <2>7, <2>8 DEF IInv
<1> QED BY <1>3, <1>4

\* Every step preserves the invariant.
LEMMA NextSafe == IInv /\ [Next]_vars => IInv'
<1> SUFFICES ASSUME IInv, [Next]_vars PROVE IInv'
  OBVIOUS
<1>1. CASE Next
  BY <1>1, OpenSafe, WaitSafe, WaitFailsSafe, CheckSafe, AgainSafe, LateSafe,
     KillSafe, PostSafe, CloseSafe DEF Next
<1>2. CASE UNCHANGED vars
  BY <1>2 DEF vars, IInv, TypeOK, OneSlotPerName, QueueOrdered, ClientsOK, Calm,
     OpenIsThere, RetriesInVain, ContendedLocked, Contended, AtMostOneInside,
     ValueTells, Inside
<1> QED BY <1>1, <1>2

\* The invariant holds in every reachable state.
THEOREM Invariance == Spec => []IInv
<1> QED BY InitSafe, NextSafe, PTL DEF Spec

\* Every variable keeps its type, whatever is freed, reused, killed or lost.
THEOREM TypeCorrect == Spec => []TypeOK
<1>1. IInv => TypeOK
  BY DEF IInv
<1> QED BY <1>1, Invariance, PTL

\* sem_open never gives one name two slots.
THEOREM NamesStayApart == Spec => []OneSlotPerName
<1>1. IInv => OneSlotPerName
  BY DEF IInv
<1> QED BY <1>1, Invariance, PTL

\* blocked_first never overtakes blocked_last.
THEOREM QueueStaysOrdered == Spec => []QueueOrdered
<1>1. IInv => QueueOrdered
  BY DEF IInv
<1> QED BY <1>1, Invariance, PTL

\* Until a semaphore is freed under a process, at most one process is between
\* sem_wait and sem_post of each name.
THEOREM Mutex == Spec => []MutualExclusion
<1>1. IInv => MutualExclusion
  BY DEF IInv, Calm, AtMostOneInside, MutualExclusion
<1> QED BY <1>1, Invariance, PTL

\* Until then the value of a semaphore tells whether somebody is inside.
THEOREM NoPostLost == Spec => []ValueConserved
<1>1. IInv => ValueConserved
  BY DEF IInv, Calm, ValueTells, ValueConserved
<1> QED BY <1>1, Invariance, PTL

\* A semaphore that somebody has once failed to get is never granted again.
THEOREM ContentionAlwaysFinal == Spec => ContentionIsFinal
<1> DEFINE Final == \A i \in Slots, p \in Proc :
                      ~early /\ Contended(i) /\ named[p] = sem[i].name
                        => (client'[p] = "inside" => client[p] = "inside")
<1>1. IInv /\ [Next]_vars => [Final]_vars
  <2> SUFFICES ASSUME IInv, Next, NEW i \in Slots, NEW p \in Proc, ~early,
                      Contended(i), named[p] = sem[i].name,
                      client'[p] = "inside", client[p] # "inside"
               PROVE  FALSE
    BY DEF Final
  <2>1. Wait(p) \/ Unlock(p)
    BY DEF Next, Open, Wait, WaitFails, Check, TestValue, Again, TickWhileDisabled,
       Load, Store, Unlock, Post, Close, Kill, IInv, TypeOK
  <2>2. CASE Unlock(p)
    BY <2>2, LateOnly DEF Unlock, At
  <2>3. CASE Wait(p)
    <3> DEFINE j == GetName(sem, named[p])
    <3>1. named[p] \in Names
      BY <2>3 DEF Wait, IInv, ClientsOK
    <3>2. sem[i].used /\ sem[i].lock = 1
      BY <3>1 DEF IInv, Calm, ContendedLocked, Contended
    <3>3. j # NULL
      BY <3>2, GetNameFacts
    <3>4. j \in Slots /\ sem[j].used /\ sem[j].name = named[p]
      BY <3>3, GetNameFacts
    <3>5. j = i
      BY <3>1, <3>2, <3>4 DEF IInv, OneSlotPerName
    <3>6. sem[j].lock = 0
      BY <2>3, <3>3 DEF Wait, CheckSem
    <3> QED BY <3>2, <3>5, <3>6
  <2> QED BY <2>1, <2>2, <2>3
<1> QED BY <1>1, Invariance, PTL DEF Spec, ContentionIsFinal

-----------------------------------------------------------------------------
(* How many processes have a semaphore open.                                *)

\* There are no more processes than open_count can tell apart.
FewProcesses == IsFiniteSet(Proc) /\ Cardinality(Proc) <= CountMod

Users(clients, names, name) == {p \in Proc : clients[p] # "idle" /\ names[p] = name}

CountsUsers(t, clients, names) ==
  \A i \in Slots : t[i].used /\ t[i].name \in Names =>
    t[i].open_count = Cardinality(Users(clients, names, t[i].name)) - 1

\* Slot 0, on which every creation is counted, remains the kernel's.
KernelStays == sem[0].used /\ sem[0].name = KERNEL

CInv == KernelStays /\ (~early => CountsUsers(sem, client, named))

SameCount(s, u) == u.used = s.used /\ u.name = s.name /\ u.open_count = s.open_count

\* Nothing but opening and closing touches what is counted.
LEMMA SameCounts ==
  ASSUME NEW s \in Sem
  PROVE  /\ SameCount(s, Locked(s)) /\ SameCount(s, Acquired(s)) /\ SameCount(s, Unqueue(s))
         /\ SameCount(s, Posted(s)) /\ \A p \in Proc : SameCount(s, Enqueue(s, p))
<1>1. SameCount(s, Locked(s))
  BY DEF SameCount, Locked, Sem
<1>2. SameCount(s, Acquired(s))
  BY DEF SameCount, Acquired, Sem
<1>3. SameCount(s, Unqueue(s))
  BY DEF SameCount, Unqueue, Sem
<1>4. SameCount(s, Posted(s))
  <2> DEFINE value == Up(s.value)
             u == [s EXCEPT !.value = value]
  <2>1. SameCount(s, u) /\ Posted(s) = UpdateProc(u) /\ u \in [used : BOOLEAN, name : Names \cup {NULL, KERNEL},
          value : {value}, open_count : Counter, lock : {0, 1}, blocked_first : Nat, blocked_last : Nat,
          blocked_processes : [0 .. MAX_PROC - 1 -> Proc \cup {NULL}]]
    BY DEF SameCount, Posted, Sem
  <2> HIDE DEF value, u
  <2>2. SameCount(u, UpdateProc(u))
    BY <2>1 DEF SameCount, UpdateProc
  <2> QED BY <2>1, <2>2 DEF SameCount
<1>5. ASSUME NEW p \in Proc PROVE SameCount(s, Enqueue(s, p))
  BY DEF SameCount, Enqueue, Sem
<1> QED BY <1>1, <1>2, <1>3, <1>4, <1>5

\* A step that neither opens nor closes leaves every count where it was.
LEMMA CountSame ==
  ASSUME CInv, \A j \in Slots : SameCount(sem[j], sem'[j]), UNCHANGED <<named, early>>,
         \A q \in Proc : client'[q] # "idle" <=> client[q] # "idle"
  PROVE  CInv'
<1>1. 0 \in Slots
  BY SlotsAssumption DEF Slots
<1>2. KernelStays'
  BY <1>1 DEF CInv, KernelStays, SameCount
<1>3. \A name : Users(client', named', name) = Users(client, named, name)
  BY DEF Users
<1>4. ~early => CountsUsers(sem', client', named')
  BY <1>3 DEF CInv, CountsUsers, SameCount
<1> QED BY <1>2, <1>4 DEF CInv

\* A step on one semaphore, of a process that has it open before and after.
LEMMA CountSameAt ==
  ASSUME IInv, CInv, NEW i \in Slots, NEW s, SameCount(sem[i], s), sem' = [sem EXCEPT ![i] = s],
         NEW p \in Proc, client[p] # "idle", NEW place, place # "idle",
         client' = client \/ client' = [client EXCEPT ![p] = place],
         UNCHANGED <<named, early>>
  PROVE  CInv'
<1>1. sem \in [Slots -> Sem] /\ client \in [Proc -> {"idle", "opened", "inside"}]
  BY DEF IInv, TypeOK
<1>2. \A j \in Slots : SameCount(sem[j], sem'[j])
  BY <1>1 DEF SameCount
<1>3. \A q \in Proc : client'[q] # "idle" <=> client[q] # "idle"
  BY <1>1
<1> QED BY <1>2, <1>3, CountSame

\* Waiting, at once or after a failure, and posting count nobody in or out.
LEMMA WaitCounts ==
  ASSUME IInv, CInv, NEW p \in Proc, Wait(p) \/ WaitFails(p) \/ Post(p)
  PROVE  CInv'
<1>1. /\ client[p] # "idle" /\ UNCHANGED <<named, early>>
      /\ \/ client' = client
         \/ client' = [client EXCEPT ![p] = "inside"]
         \/ client' = [client EXCEPT ![p] = "opened"]
  BY DEF Wait, WaitFails, Post
<1>2. sem \in [Slots -> Sem]
  BY DEF IInv, TypeOK
<1>3. CASE sem' = sem
  <2>1. \A j \in Slots : SameCount(sem[j], sem'[j])
    BY <1>3 DEF SameCount
  <2>2. \A q \in Proc : client'[q] # "idle" <=> client[q] # "idle"
    BY <1>1 DEF IInv, TypeOK
  <2> QED BY <1>1, <2>1, <2>2, CountSame
<1>4. CASE sem' # sem
  <2> DEFINE i == GetName(sem, named[p])
  <2>1. /\ i # NULL
        /\ \/ sem' = [sem EXCEPT ![i] = Acquired(sem[i])]
           \/ sem' = [sem EXCEPT ![i] = Locked(Enqueue(sem[i], p))]
           \/ sem' = [sem EXCEPT ![i] = Posted(sem[i])]
    BY <1>4 DEF Wait, WaitFails, Post
  <2>2. i \in Slots
    BY <2>1, GetNameFacts
  <2> HIDE DEF i
  <2>3. PICK s : /\ SameCount(sem[i], s) /\ sem' = [sem EXCEPT ![i] = s]
    <3>1. SameCount(sem[i], Acquired(sem[i])) /\ SameCount(sem[i], Posted(sem[i]))
      BY <1>2, <2>2, SameCounts
    <3>2. SameCount(sem[i], Locked(Enqueue(sem[i], p)))
      <4>1. Enqueue(sem[i], p) \in Sem /\ SameCount(sem[i], Enqueue(sem[i], p))
        BY <1>2, <2>2, SameCounts, EnqueueFacts
      <4>2. SameCount(Enqueue(sem[i], p), Locked(Enqueue(sem[i], p)))
        BY <4>1, SameCounts
      <4> QED BY <4>1, <4>2 DEF SameCount
    <3> QED BY <2>1, <3>1, <3>2
  <2>4. PICK place : place # "idle" /\ (client' = client \/ client' = [client EXCEPT ![p] = place])
    BY <1>1
  <2>5. client[p] # "idle" /\ UNCHANGED <<named, early>>
    BY <1>1
  <2> QED BY <2>2, <2>3, <2>4, <2>5, CountSameAt
<1> QED BY <1>3, <1>4

\* Nor do its retries.
LEMMA RetryCounts ==
  ASSUME IInv, CInv, NEW p \in Proc,
         \/ Check(p) \/ TestValue(p) \/ Again(p) \/ Load(p) \/ Store(p) \/ Unlock(p)
  PROVE  CInv'
<1>1. /\ pc[p] \in Retrying /\ UNCHANGED <<named, early>>
      /\ client' = client \/ client' = [client EXCEPT ![p] = "inside"]
  BY DEF Check, TestValue, Again, Load, Store, Unlock, At, Retrying
<1>2. client[p] # "idle" /\ slot[p] \in Slots
  BY <1>1 DEF IInv, ClientsOK
<1>3. sem \in [Slots -> Sem]
  BY DEF IInv, TypeOK
<1> DEFINE s == sem[slot[p]]
           e == Enqueue(s, p)
           u == Unqueue(e)
<1>4. s \in Sem /\ s.blocked_first <= s.blocked_last
  BY <1>2, <1>3 DEF IInv, QueueOrdered
<1>5. PICK r : SameCount(s, r) /\ sem' = [sem EXCEPT ![slot[p]] = r]
  <2>1. CASE Check(p)
    BY <1>4, <2>1, SameCounts DEF Check
  <2>2. CASE TestValue(p) \/ Load(p)
    <3>1. sem' = [sem EXCEPT ![slot[p]] = s] /\ SameCount(s, s)
      BY <1>2, <1>3, <2>2 DEF TestValue, Load, SameCount
    <3> QED BY <3>1
  <2>3. CASE Again(p)
    <3>1. sem' = [sem EXCEPT ![slot[p]] = Locked(u)] \/ sem' = [sem EXCEPT ![slot[p]] = Locked(e)]
      BY <2>3 DEF Again
    <3>2. e \in Sem /\ SameCount(s, e) /\ e.blocked_first <= e.blocked_last
      BY <1>4, SameCounts, EnqueueFacts DEF Sem
    <3> HIDE DEF s, e
    <3>3. u \in Sem /\ SameCount(e, u) /\ SameCount(e, Locked(e))
      BY <3>2, SameCounts, UnqueueFacts
    <3> HIDE DEF u
    <3>4. SameCount(u, Locked(u))
      BY <3>3, SameCounts
    <3> QED BY <3>1, <3>2, <3>3, <3>4 DEF SameCount
  <2>4. CASE Store(p)
    <3> DEFINE value == Down(seen[p])
    <3>1. sem' = [sem EXCEPT ![slot[p]] = [s EXCEPT !.value = value]]
      BY <2>4 DEF Store
    <3> HIDE DEF value
    <3>2. SameCount(s, [s EXCEPT !.value = value])
      BY <1>4 DEF SameCount, Sem
    <3> QED BY <3>1, <3>2
  <2>5. CASE Unlock(p)
    <3>1. sem' = [sem EXCEPT ![slot[p]] = [s EXCEPT !.lock = 0]]
      BY <2>5 DEF Unlock
    <3>2. SameCount(s, [s EXCEPT !.lock = 0])
      BY <1>4 DEF SameCount, Sem
    <3> QED BY <3>1, <3>2
  <2> QED BY <2>1, <2>2, <2>3, <2>4, <2>5
<1> QED BY <1>1, <1>2, <1>5, CountSameAt

\* A process killed or lost still counts.
LEMMA KillCounts ==
  ASSUME IInv, CInv, NEW p \in Proc, Kill(p) \/ TickWhileDisabled(p)
  PROVE  CInv'
<1>1. UNCHANGED <<sem, client, named, early>>
  BY DEF Kill, TickWhileDisabled
<1> QED BY <1>1, CountSame DEF SameCount

\* Users are finitely many; with one more the number goes up by one.
LEMMA UsersNumber ==
  ASSUME FewProcesses, NEW clients, NEW names, NEW name
  PROVE  /\ IsFiniteSet(Users(clients, names, name))
         /\ Cardinality(Users(clients, names, name)) \in Nat
         /\ \A p \in Proc \ Users(clients, names, name) :
              Cardinality(Users(clients, names, name)) + 1 <= CountMod
<1> DEFINE U == Users(clients, names, name)
<1>1. U \subseteq Proc
  BY DEF Users
<1> HIDE DEF U
<1>2. IsFiniteSet(U) /\ Cardinality(U) \in Nat
  BY <1>1, FS_Subset, FS_CardinalityType DEF FewProcesses
<1>3. ASSUME NEW p \in Proc \ U
      PROVE  Cardinality(U) + 1 <= CountMod
  <2>1. Cardinality(U \cup {p}) = Cardinality(U) + 1
    BY <1>2, <1>3, FS_AddElement
  <2>2. Cardinality(U \cup {p}) <= Cardinality(Proc) /\ Cardinality(Proc) \in Nat
    BY <1>1, <1>3, FS_Subset, FS_CardinalityType DEF FewProcesses
  <2> QED BY <1>2, <2>1, <2>2, WidthAssumption DEF FewProcesses
<1> QED BY <1>2, <1>3 DEF U

\* Opening one that is there counts up, one that is not starts at none.
LEMMA OpenCounts ==
  ASSUME FewProcesses, IInv, IInv', CInv, NEW p \in Proc, Open(p)
  PROVE  CInv'
<1>1. PICK name \in Names : /\ CanOpen(sem, name) /\ sem' = SemOpen(sem, name, 1)
                            /\ named' = [named EXCEPT ![p] = name]
  BY DEF Open
<1>2. client[p] = "idle" /\ client' = [client EXCEPT ![p] = "opened"] /\ early' = early
  BY DEF Open
<1>3. /\ sem \in [Slots -> Sem] /\ client \in [Proc -> {"idle", "opened", "inside"}]
      /\ named \in [Proc -> Names \cup {NULL}] /\ OneSlotPerName
  BY DEF IInv, TypeOK
<1>4. 0 \in Slots /\ 1 \in Counter /\ 0 \in Counter
  BY SlotsAssumption, WidthAssumption DEF Slots, Counter
<1>5. /\ Users(client', named', name) = Users(client, named, name) \cup {p}
      /\ p \notin Users(client, named, name)
      /\ \A other \in Names \ {name} : Users(client', named', other) = Users(client, named, other)
  BY <1>1, <1>2, <1>3 DEF Users
<1>6. Cardinality(Users(client', named', name)) = Cardinality(Users(client, named, name)) + 1
  BY <1>5, UsersNumber, FS_AddElement
<1>7. CASE GetName(sem, name) # NULL
  <2>1. PICK i \in Slots : /\ i = GetName(sem, name) /\ sem[i].used /\ sem[i].name = name
    BY <1>7, GetNameFacts
  <2>2. sem' = [sem EXCEPT ![i] = [sem[i] EXCEPT !.open_count = Up(sem[i].open_count)]]
    BY <1>1, <1>7, <2>1 DEF SemOpen, CountUp
  <2>3. i # 0
    BY <1>1, <2>1, NamesAssumption DEF CInv, KernelStays
  <2>4. /\ \A j \in Slots \ {i} : sem'[j] = sem[j]
        /\ sem'[i].used = sem[i].used /\ sem'[i].name = name
        /\ sem'[i].open_count = Up(sem[i].open_count)
    BY <1>3, <2>1, <2>2 DEF Sem
  <2>5. KernelStays'
    BY <1>4, <2>3, <2>4 DEF CInv, KernelStays
  <2>6. ASSUME ~early PROVE CountsUsers(sem', client', named')
    <3>1. sem[i].open_count = Cardinality(Users(client, named, name)) - 1
      BY <1>1, <2>1, <2>6 DEF CInv, CountsUsers
    <3>2. sem'[i].open_count = Cardinality(Users(client', named', name)) - 1
      <4>1. /\ Cardinality(Users(client, named, name)) \in Nat
            /\ Cardinality(Users(client, named, name)) + 1 <= CountMod
        BY <1>5, UsersNumber
      <4> QED BY <1>6, <2>4, <3>1, <4>1, WidthAssumption DEF Up
    <3>3. \A j \in Slots \ {i} : sem[j].used => sem[j].name # name
      BY <1>1, <1>3, <2>1 DEF OneSlotPerName
    <3> QED BY <1>5, <2>4, <2>6, <3>2, <3>3 DEF CInv, CountsUsers
  <2> QED BY <1>2, <2>5, <2>6 DEF CInv
<1>8. CASE GetName(sem, name) = NULL
  <2>1. PICK k \in Slots : k = FindSem(sem) /\ ~sem[k].used
    BY <1>1, <1>8, FindSemFacts DEF CanOpen
  <2>2. k # 0
    BY <2>1 DEF CInv, KernelStays
  <2> DEFINE s == NewSem(name, 1)
             t == [sem EXCEPT ![k] = s]
  <2>3. s.used /\ s.name = name /\ s.open_count = 0 /\ s \in Sem
    BY <1>4, NewSemFacts DEF NewSem
  <2>4. sem' = CountUp(t, 0)
    BY <1>1, <1>8, <2>1 DEF SemOpen
  <2> HIDE DEF s
  <2>5. t \in [Slots -> Sem] /\ t[k] = s /\ \A j \in Slots \ {k} : t[j] = sem[j]
    BY <1>3, <2>3
  <2> HIDE DEF t
  <2>6. /\ \A j \in Slots : sem'[j].used = t[j].used /\ sem'[j].name = t[j].name
        /\ \A j \in Slots \ {0} : sem'[j] = t[j]
    BY <1>4, <2>4, <2>5, CountUpFacts DEF CountUp
  <2>7. KernelStays'
    BY <1>4, <2>2, <2>5, <2>6 DEF CInv, KernelStays
  <2>8. ASSUME ~early PROVE CountsUsers(sem', client', named')
    <3>1. \A j \in Slots : ~(sem[j].used /\ sem[j].name = name)
      BY <1>8, GetNameFacts
    <3>2. Users(client, named, name) = {}
      BY <2>8, <3>1 DEF IInv, Calm, OpenIsThere, Users
    <3>3. Cardinality(Users(client', named', name)) = 1
      BY <1>6, <3>2, FS_EmptySet
    <3>4. ASSUME NEW j \in Slots, sem'[j].used, sem'[j].name \in Names
          PROVE  j # 0 /\ (j = k \/ (sem[j].used /\ sem'[j] = sem[j] /\ sem[j].name # name))
      <4>1. sem'[0].name = KERNEL
        BY <2>7 DEF KernelStays
      <4>2. j # 0
        BY <3>4, <4>1, NamesAssumption
      <4>3. CASE j # k
        <5>1. sem'[j] = sem[j]
          BY <2>5, <2>6, <4>2, <4>3
        <5>2. sem[j].used
          BY <3>4, <5>1
        <5> QED BY <3>1, <4>2, <5>1, <5>2
      <4> QED BY <4>2, <4>3
    <3>5. sem'[k].open_count = 0 /\ sem'[k].name = name
      BY <2>2, <2>3, <2>5, <2>6
    <3> SUFFICES ASSUME NEW j \in Slots, sem'[j].used, sem'[j].name \in Names
                 PROVE  sem'[j].open_count = Cardinality(Users(client', named', sem'[j].name)) - 1
      BY DEF CountsUsers
    <3>6. CASE j = k
      BY <3>3, <3>5, <3>6
    <3>7. CASE j # k
      <4>1. sem[j].used /\ sem'[j] = sem[j] /\ sem[j].name # name
        BY <3>4, <3>7
      <4>2. sem[j].open_count = Cardinality(Users(client, named, sem[j].name)) - 1
        BY <2>8, <4>1 DEF CInv, CountsUsers
      <4>3. Users(client', named', sem[j].name) = Users(client, named, sem[j].name)
        BY <1>5, <4>1
      <4> QED BY <4>1, <4>2, <4>3
    <3> QED BY <3>6, <3>7
  <2> QED BY <1>2, <2>7, <2>8 DEF CInv
<1> QED BY <1>7, <1>8

\* Closing counts down, or frees the semaphore; when others had it open that ends what is claimed.
LEMMA CloseCounts ==
  ASSUME FewProcesses, IInv, IInv', CInv, NEW p \in Proc, Close(p)
  PROVE  CInv'
<1>1. /\ client[p] = "opened" /\ client' = [client EXCEPT ![p] = "idle"]
      /\ named' = [named EXCEPT ![p] = NULL]
  BY DEF Close
<1>2. /\ sem \in [Slots -> Sem] /\ client \in [Proc -> {"idle", "opened", "inside"}]
      /\ named \in [Proc -> Names \cup {NULL}] /\ OneSlotPerName /\ named[p] \in Names
  BY <1>1 DEF IInv, TypeOK, ClientsOK
<1>3. PICK name \in Names : name = named[p]
  BY <1>2
<1>4. /\ Users(client', named', name) = Users(client, named, name) \ {p}
      /\ p \in Users(client, named, name)
      /\ \A other \in Names \ {name} : Users(client', named', other) = Users(client, named, other)
  BY <1>1, <1>2, <1>3, NamesAssumption DEF Users
<1>5. Cardinality(Users(client', named', name)) = Cardinality(Users(client, named, name)) - 1
  BY <1>4, UsersNumber, FS_RemoveElement, ZenonT(60)
<1>6. CASE GetName(sem, name) = NULL
  <2>1. sem' = sem /\ early' = early
    BY <1>3, <1>6 DEF Close
  <2>2. \A j \in Slots : ~(sem[j].used /\ sem[j].name = name)
    BY <1>6, GetNameFacts
  <2>3. early
    BY <1>1, <1>3, <2>2 DEF IInv, Calm, OpenIsThere
  <2> QED BY <2>1, <2>3 DEF CInv, KernelStays
<1>7. CASE GetName(sem, name) # NULL
  <2>1. PICK i \in Slots : i = GetName(sem, name) /\ sem[i].used /\ sem[i].name = name
    BY <1>7, GetNameFacts
  <2>2. sem' = [sem EXCEPT ![i] = Closed(sem[i])] /\ (~early' => ~early)
    BY <1>3, <1>7, <2>1 DEF Close
  <2>3. i # 0
    BY <2>1, NamesAssumption DEF CInv, KernelStays
  <2>4. /\ \A j \in Slots \ {i} : sem'[j] = sem[j]
        /\ sem'[i] = Closed(sem[i])
    BY <1>2, <2>1, <2>2
  <2>5. KernelStays'
    BY <2>3, <2>4, SlotsAssumption DEF CInv, KernelStays, Slots
  <2>6. ASSUME ~early PROVE CountsUsers(sem', client', named')
    <3>1. sem[i].open_count = Cardinality(Users(client, named, name)) - 1
      BY <2>1, <2>6 DEF CInv, CountsUsers
    <3>2. Closed(sem[i]).used => /\ Closed(sem[i]).name = name
                                 /\ Closed(sem[i]).open_count = Cardinality(Users(client', named', name)) - 1
      <4> DEFINE count == Down(sem[i].open_count)
      <4>1. sem[i] \in Sem /\ sem[i].open_count \in Counter
        BY <1>2, <2>1 DEF Sem
      <4>2. Closed(sem[i]).used => /\ ~NoneLeft(count) /\ Closed(sem[i]).open_count = count
                                   /\ Closed(sem[i]).name = name
        BY <2>1, <4>1 DEF Closed, Sem
      <4>3. ~NoneLeft(count) => count = sem[i].open_count - 1
        BY <4>1, WidthAssumption DEF NoneLeft, Down, Counter
      <4> HIDE DEF count
      <4>4. Cardinality(Users(client, named, name)) \in Nat
        BY UsersNumber
      <4> QED BY <1>5, <3>1, <4>2, <4>3, <4>4
    <3>3. \A j \in Slots \ {i} : sem[j].used => sem[j].name # name
      BY <1>2, <2>1 DEF OneSlotPerName
    <3> QED BY <1>4, <2>4, <2>6, <3>2, <3>3 DEF CInv, CountsUsers
  <2> QED BY <2>2, <2>5, <2>6 DEF CInv
<1> QED BY <1>6, <1>7

\* Every step keeps the counts, and at first nobody has anything open.
LEMMA CountsKept ==
  ASSUME FewProcesses, IInv, IInv', CInv, [Next]_vars
  PROVE  CInv'
<1>1. CASE UNCHANGED vars
  BY <1>1, CountSame DEF vars, SameCount
<1>2. CASE Next
  BY <1>2, OpenCounts, CloseCounts, WaitCounts, RetryCounts, KillCounts DEF Next
<1> QED BY <1>1, <1>2

\* At first only the kernel's semaphores are there, slot 0 among them.
LEMMA CountsAtFirst ==
  ASSUME Init
  PROVE  CInv
<1>1. \A i \in Slots : sem[i].used => i < KERNEL_SEMS
  BY DEF Init, NewSem
<1>2. \A i \in Slots : i < KERNEL_SEMS => sem[i].used /\ sem[i].name = KERNEL
  BY DEF Init, NewSem
<1>3. 0 \in Slots /\ 0 < KERNEL_SEMS
  BY SlotsAssumption DEF Slots
<1> QED BY <1>1, <1>2, <1>3, NamesAssumption DEF CInv, KernelStays, CountsUsers

\* What open_count counts in place of what CountsPendingCloses asks for.
OneLessThanOpeners ==
  ~early => \A i \in Slots : sem[i].used /\ sem[i].name \in Names =>
              sem[i].open_count = Cardinality(Openers(sem[i].name)) - 1

\* Against the comment in syscalls.h:25, until a semaphore is freed under somebody its open_count
\* is one less than the number of processes that have it open, and not their number.
THEOREM CountsOneLess ==
  ASSUME FewProcesses
  PROVE  Spec => []OneLessThanOpeners
<1>1. Init => CInv
  BY CountsAtFirst
<1>2. IInv /\ IInv' /\ CInv /\ [Next]_vars => CInv'
  BY CountsKept
<1>3. CInv => OneLessThanOpeners
  BY DEF CInv, CountsUsers, OneLessThanOpeners, Openers, Opened, Users
<1> QED BY <1>1, <1>2, <1>3, Invariance, PTL DEF Spec

=============================================================================
