----------------------------- MODULE PhyloProofs -----------------------------
(* Proofs about Phylo, for any number of seats and of philosophers.         *)
EXTENDS Phylo, SequenceTheorems, TLAPS

Place == {"hungry", "taking", "granted", "eating", "putting", "fed", "thinking", "staying",
          "asking", "stuck", "gone"}

MainPlace == {"start", "loop", "add", "adding", "remove", "removing", "removed", "release",
              "show", "shown", "stuck"}

Phil == [id : Seat, pc : Place]

-----------------------------------------------------------------------------
(* What the steps are made of.                                              *)

\* A philosopher that goes on keeps its seat, and nobody else moves.
LEMMA GoesMeans ==
  ASSUME philosopher \in Seq(Phil), NEW p \in Philosophers, NEW place \in Place,
         Goes(p, place)
  PROVE  /\ philosopher' \in Seq(Phil) /\ Len(philosopher') = Len(philosopher)
         /\ \A q \in Philosophers : philosopher'[q].id = philosopher[q].id
         /\ philosopher'[p].pc = place
         /\ \A q \in Philosophers : q # p => philosopher'[q] = philosopher[q]
<1> DEFINE phil == [philosopher[p] EXCEPT !.pc = place]
<1>1. philosopher[p] \in Phil
  BY DEF Philosophers
<1>2. phil \in Phil /\ phil.id = philosopher[p].id /\ phil.pc = place
  BY <1>1 DEF Phil
<1>3. philosopher' = [philosopher EXCEPT ![p] = phil]
  BY DEF Goes
<1> HIDE DEF phil
<1>4. /\ philosopher' \in Seq(Phil) /\ Len(philosopher') = Len(philosopher)
      /\ \A q \in 1 .. Len(philosopher) :
           philosopher'[q] = IF q = p THEN phil ELSE philosopher[q]
  BY <1>2, <1>3, ExceptSeq DEF Philosophers
<1> QED BY <1>2, <1>4 DEF Philosophers

\* A philosopher that joins comes last and starts hungry.
LEMMA ExecMeans ==
  ASSUME philosopher \in Seq(Phil), NEW id \in Seat, Exec(id)
  PROVE  /\ philosopher' \in Seq(Phil) /\ Len(philosopher') = Len(philosopher) + 1
         /\ \A q \in Philosophers : philosopher'[q] = philosopher[q]
         /\ philosopher'[Len(philosopher) + 1].id = id
         /\ philosopher'[Len(philosopher) + 1].pc = "hungry"
<1> DEFINE phil == [id |-> id, pc |-> "hungry"]
<1>1. phil \in Phil /\ phil.id = id /\ phil.pc = "hungry"
  BY DEF Phil, Place
<1>2. philosopher' = Append(philosopher, phil)
  BY DEF Exec
<1> HIDE DEF phil
<1>3. /\ philosopher' \in Seq(Phil) /\ Len(philosopher') = Len(philosopher) + 1
      /\ \A q \in 1 .. Len(philosopher) : philosopher'[q] = philosopher[q]
      /\ philosopher'[Len(philosopher) + 1] = phil
  BY <1>1, <1>2, AppendProperties
<1> QED BY <1>1, <1>3 DEF Philosophers

\* Waiting and posting keep a semaphore's type; who passes has taken its value.
LEMMA SemaphoreMeans ==
  ASSUME NEW s \in Semaphore
  PROVE  /\ Posted(s) \in Semaphore /\ Posted(s).value = s.value + 1
         /\ Waited(s) \in Semaphore
         /\ Free(s) => s.value > 0 /\ Waited(s).value = s.value - 1
         /\ ~ Free(s) => Waited(s).value = s.value
         /\ Waited(s).value <= s.value
<1>1. s.value \in Nat /\ s.contended \in BOOLEAN
  BY DEF Semaphore
<1>2. Posted(s) \in Semaphore /\ Posted(s).value = s.value + 1
  BY DEF Semaphore, Posted
<1>3. CASE Free(s)
  <2>1. Waited(s) = [s EXCEPT !.value = @ - 1] /\ s.value > 0
    BY <1>3 DEF Waited, Free
  <2> QED BY <1>1, <1>2, <1>3, <2>1 DEF Semaphore
<1>4. CASE ~ Free(s)
  <2>1. Waited(s) = [s EXCEPT !.contended = TRUE]
    BY <1>4 DEF Waited
  <2>2. Waited(s) = [value |-> s.value, contended |-> TRUE]
    BY <2>1 DEF Semaphore
  <2>3. Waited(s) \in Semaphore
    BY <1>1, <2>2 DEF Semaphore
  <2>4. Waited(s).value = s.value
    BY <2>2
  <2> QED BY <1>1, <1>2, <1>4, <2>3, <2>4
<1> QED BY <1>3, <1>4

\* Where a process is after waiting.
LEMMA AfterMeans ==
  ASSUME NEW s \in Semaphore, NEW place
  PROVE  /\ Free(s) => After(s, place) = place
         /\ ~ Free(s) => After(s, place) = "stuck"
BY DEF After

-----------------------------------------------------------------------------
(* Types and the bounds that the steps of phylo rely on.                    *)

\* What phylo knows of count where it stands.
Phases ==
  /\ main \in {"add", "adding"} => count < MAX
  /\ main \in {"remove", "removing", "removed"} => count > MIN
  /\ main = "release" => count < MAX
  /\ main = "start" => Len(philosopher) <= count

TInv == TypeOK /\ Phases

\* The neighbours of a seat are those before and after it, round the table.
LEMMA NeighbourSeats ==
  ASSUME count \in MIN .. MAX, NEW id \in Seat
  PROVE  /\ LEFT(id) \in 0 .. count - 1 /\ RIGHT(id) \in 0 .. count - 1
         /\ LEFT(id) \in Seat /\ RIGHT(id) \in Seat
         /\ id < count => /\ LEFT(id) = IF id = 0 THEN count - 1 ELSE id - 1
                          /\ RIGHT(id) = IF id = count - 1 THEN 0 ELSE id + 1
<1>1. count \in Nat /\ count > 0 /\ count <= MAX /\ id \in Nat
  BY SeatsAssumption DEF Seat
<1>2. \A a \in Nat : a % count \in 0 .. count - 1
  BY <1>1
<1>3. \A a \in Nat : a < count => a % count = a /\ (a + count) % count = a
  BY <1>1
<1>4. LEFT(id) \in 0 .. count - 1 /\ RIGHT(id) \in 0 .. count - 1
  BY <1>1, <1>2 DEF LEFT, RIGHT
<1>5. ASSUME id < count
      PROVE  LEFT(id) = IF id = 0 THEN count - 1 ELSE id - 1
  <2>1. CASE id = 0
    BY <1>1, <1>3, <2>1 DEF LEFT
  <2>2. CASE id # 0
    <3>1. id - 1 \in Nat /\ id - 1 < count /\ id + (count - 1) = (id - 1) + count
      BY <1>1, <1>5, <2>2
    <3> QED BY <1>3, <2>2, <3>1 DEF LEFT
  <2> QED BY <2>1, <2>2
<1>6. ASSUME id < count
      PROVE  RIGHT(id) = IF id = count - 1 THEN 0 ELSE id + 1
  <2>1. CASE id = count - 1
    <3>1. 0 \in Nat /\ 0 < count /\ id + 1 = 0 + count
      BY <1>1, <2>1
    <3>2. (0 + count) % count = 0
      BY <1>3, <3>1
    <3> QED BY <2>1, <3>1, <3>2 DEF RIGHT
  <2>2. CASE id # count - 1
    <3>1. id + 1 \in Nat /\ id + 1 < count
      BY <1>1, <1>6, <2>2
    <3> QED BY <1>3, <2>2, <3>1 DEF RIGHT
  <2> QED BY <2>1, <2>2
<1>7. LEFT(id) \in Seat /\ RIGHT(id) \in Seat
  <2> DEFINE l == LEFT(id)
             r == RIGHT(id)
  <2>1. l \in 0 .. count - 1 /\ r \in 0 .. count - 1
    BY <1>4
  <2> HIDE DEF l, r
  <2>2. l \in 0 .. MAX - 1 /\ r \in 0 .. MAX - 1
    BY <1>1, <2>1, SeatsAssumption
  <2> QED BY <2>2 DEF Seat, l, r
<1> QED BY <1>4, <1>5, <1>6, <1>7

\* test lets one seat eat, which is told so by its lock, or changes nothing.
LEMMA TestMeans ==
  ASSUME NEW shared, shared.state \in [Seat -> State], shared.lock \in [Seat -> Semaphore],
         NEW id \in Seat
  PROVE  /\ test(shared, id).state \in [Seat -> State]
         /\ test(shared, id).lock \in [Seat -> Semaphore]
         /\ ~ MayEat(shared.state, id) => test(shared, id) = shared
         /\ MayEat(shared.state, id) =>
              /\ test(shared, id).state = [shared.state EXCEPT ![id] = "EATING"]
              /\ test(shared, id).lock = [shared.lock EXCEPT ![id] = Posted(@)]
<1>1. Posted(shared.lock[id]) \in Semaphore
  BY SemaphoreMeans
<1>2. CASE MayEat(shared.state, id)
  <2>1. test(shared, id) = [state |-> [shared.state EXCEPT ![id] = "EATING"],
                            lock  |-> [shared.lock EXCEPT ![id] = Posted(@)]]
    BY <1>2 DEF test
  <2>2. /\ test(shared, id).state = [shared.state EXCEPT ![id] = "EATING"]
        /\ test(shared, id).lock = [shared.lock EXCEPT ![id] = Posted(@)]
    BY <2>1
  <2> QED BY <1>1, <1>2, <2>2 DEF State
<1>3. CASE ~ MayEat(shared.state, id)
  BY <1>3 DEF test
<1> QED BY <1>2, <1>3

\* So do what a philosopher does to the states and the locks.
LEMMA ForksTyped ==
  ASSUME TypeOK, NEW id \in Seat
  PROVE  /\ TakeForks(id).state \in [Seat -> State]
         /\ TakeForks(id).lock \in [Seat -> Semaphore]
         /\ PutForks(id).state \in [Seat -> State]
         /\ PutForks(id).lock \in [Seat -> Semaphore]
<1>1. ASSUME NEW s \in State
      PROVE  /\ Marked(id, s).state \in [Seat -> State]
             /\ Marked(id, s).lock \in [Seat -> Semaphore]
  BY DEF Marked, TypeOK
<1>2. "HUNGRY" \in State /\ "THINKING" \in State
  BY DEF State
<1>3. LEFT(id) \in Seat /\ RIGHT(id) \in Seat
  BY NeighbourSeats DEF TypeOK
<1>4. /\ TakeForks(id).state \in [Seat -> State]
      /\ TakeForks(id).lock \in [Seat -> Semaphore]
  <2> DEFINE marked == Marked(id, "HUNGRY")
  <2>1. marked.state \in [Seat -> State] /\ marked.lock \in [Seat -> Semaphore]
    BY <1>1, <1>2
  <2> HIDE DEF marked
  <2>2. test(marked, id).state \in [Seat -> State] /\ test(marked, id).lock \in [Seat -> Semaphore]
    BY <2>1, TestMeans
  <2> QED BY <2>2 DEF TakeForks, marked
<1>5. /\ PutForks(id).state \in [Seat -> State]
      /\ PutForks(id).lock \in [Seat -> Semaphore]
  <2> DEFINE marked == Marked(id, "THINKING")
             once == test(marked, LEFT(id))
  <2>1. marked.state \in [Seat -> State] /\ marked.lock \in [Seat -> Semaphore]
    BY <1>1, <1>2
  <2> HIDE DEF marked
  <2>2. once.state \in [Seat -> State] /\ once.lock \in [Seat -> Semaphore]
    BY <1>3, <2>1, TestMeans
  <2> HIDE DEF once
  <2>3. /\ test(once, RIGHT(id)).state \in [Seat -> State]
        /\ test(once, RIGHT(id)).lock \in [Seat -> Semaphore]
    BY <1>3, <2>2, TestMeans
  <2> QED BY <2>3 DEF PutForks, once, marked
<1> QED BY <1>4, <1>5

\* Types are kept when a philosopher goes on and what it changes is well typed.
LEMMA PhilosopherTyped ==
  ASSUME TInv, NEW p \in Philosophers, NEW place \in Place, Goes(p, place),
         UNCHANGED <<count, main, someLeft>>, unasked' \in BOOLEAN,
         state' \in [Seat -> State], mutex' \in Semaphore,
         hungry_lock' \in [Seat -> Semaphore], think_unlock' \in [Seat -> Semaphore]
  PROVE  TInv'
<1>1. philosopher \in Seq(Phil)
  BY DEF TInv, TypeOK, Phil, Place
<1>2. philosopher' \in Seq(Phil) /\ Len(philosopher') = Len(philosopher)
  BY <1>1, GoesMeans
<1>3. TypeOK'
  BY <1>2 DEF TInv, TypeOK, Phil, Place
<1>4. Phases'
  BY <1>2 DEF TInv, Phases
<1> QED BY <1>3, <1>4 DEF TInv

\* Every step of a philosopher keeps the types.
LEMMA ProcTyped ==
  ASSUME TInv, NEW p \in Philosophers, phylo_proc(p)
  PROVE  TInv'
<1> DEFINE id == philosopher[p].id
<1>1. /\ philosopher \in Seq(Phil) /\ state \in [Seat -> State] /\ mutex \in Semaphore
      /\ hungry_lock \in [Seat -> Semaphore] /\ think_unlock \in [Seat -> Semaphore]
      /\ unasked \in BOOLEAN
  BY DEF TInv, TypeOK, Phil, Place
<1>2. id \in Seat
  <2>1. philosopher[p] \in Phil
    BY <1>1 DEF Philosophers
  <2> QED BY <2>1 DEF Phil
<1> HIDE DEF id
<1>3. ASSUME NEW from, NEW to \in Place, WaitMutex(p, from, to)
      PROVE  TInv'
  <2>1. After(mutex, to) \in Place /\ Waited(mutex) \in Semaphore
    BY <1>1, AfterMeans, SemaphoreMeans DEF Place
  <2> QED BY <1>1, <1>3, <2>1, PhilosopherTyped DEF WaitMutex, history
<1>4. ASSUME NEW from, NEW shared, NEW to \in Place, Update(p, from, shared, to),
             shared.state \in [Seat -> State], shared.lock \in [Seat -> Semaphore]
      PROVE  TInv'
  <2>1. Posted(mutex) \in Semaphore
    BY <1>1, SemaphoreMeans
  <2> QED BY <1>1, <1>4, <2>1, PhilosopherTyped DEF Update
<1>5. CASE WaitMutex(p, "hungry", "taking") \/ WaitMutex(p, "eating", "putting")
           \/ WaitMutex(p, "staying", "asking")
  BY <1>3, <1>5 DEF Place
<1>6. CASE Update(p, "taking", TakeForks(id), "granted")
  BY <1>2, <1>4, <1>6, ForksTyped DEF Place, TInv
<1>7. CASE Update(p, "putting", PutForks(id), "fed")
  BY <1>2, <1>4, <1>7, ForksTyped DEF Place, TInv
<1>8. CASE Update(p, "asking", Unchanged, IF state[id] = "LEAVING" THEN "gone" ELSE "hungry")
  <2>1. Unchanged.state = state /\ Unchanged.lock = hungry_lock
    BY DEF Unchanged
  <2>2. (IF state[id] = "LEAVING" THEN "gone" ELSE "hungry") \in Place
    BY DEF Place
  <2> QED BY <1>1, <1>4, <1>8, <2>1, <2>2
<1>9. CASE WaitHungry(p)
  <2>1. /\ After(hungry_lock[id], "eating") \in Place
        /\ Waited(hungry_lock[id]) \in Semaphore
    BY <1>1, <1>2, AfterMeans, SemaphoreMeans DEF Place
  <2>2. /\ Goes(p, After(hungry_lock[id], "eating"))
        /\ hungry_lock' = [hungry_lock EXCEPT ![id] = Waited(@)]
        /\ UNCHANGED <<count, state, mutex, think_unlock, main, history>>
    BY <1>9 DEF WaitHungry, id
  <2>3. hungry_lock' \in [Seat -> Semaphore]
    BY <1>1, <1>2, <2>1, <2>2
  <2> QED BY <1>1, <2>1, <2>2, <2>3, PhilosopherTyped DEF history
<1>10. CASE PostThink(p)
  <2>1. Posted(think_unlock[id]) \in Semaphore
    BY <1>1, <1>2, SemaphoreMeans
  <2>2. /\ Goes(p, "thinking")
        /\ think_unlock' = [think_unlock EXCEPT ![id] = Posted(@)]
        /\ UNCHANGED <<count, state, mutex, hungry_lock, main, history>>
    BY <1>10 DEF PostThink, id
  <2>3. think_unlock' \in [Seat -> Semaphore]
    BY <1>1, <1>2, <2>1, <2>2
  <2> QED BY <1>1, <2>2, <2>3, PhilosopherTyped DEF Place, history
<1>11. CASE WaitThink(p)
  <2>1. /\ After(think_unlock[id], "staying") \in Place
        /\ Waited(think_unlock[id]) \in Semaphore
    BY <1>1, <1>2, AfterMeans, SemaphoreMeans DEF Place
  <2>2. /\ Goes(p, After(think_unlock[id], "staying"))
        /\ think_unlock' = [think_unlock EXCEPT ![id] = Waited(@)]
        /\ UNCHANGED <<count, state, mutex, hungry_lock, main, history>>
    BY <1>11 DEF WaitThink, id
  <2>3. think_unlock' \in [Seat -> Semaphore]
    BY <1>1, <1>2, <2>1, <2>2
  <2> QED BY <1>1, <2>1, <2>2, <2>3, PhilosopherTyped DEF history
<1> QED BY <1>5, <1>6, <1>7, <1>8, <1>9, <1>10, <1>11 DEF phylo_proc, id

\* Every step of phylo keeps the types, and what it knows of count.
LEMMA MainTyped ==
  ASSUME TInv, phylo
  PROVE  TInv'
<1>1. /\ philosopher \in Seq(Phil) /\ state \in [Seat -> State] /\ mutex \in Semaphore
      /\ hungry_lock \in [Seat -> Semaphore] /\ think_unlock \in [Seat -> Semaphore]
      /\ count \in MIN .. MAX /\ main \in MainPlace
      /\ someLeft \in BOOLEAN /\ unasked \in BOOLEAN
  BY DEF TInv, TypeOK, Phil, Place, MainPlace
<1>2. count \in Nat /\ MIN \in Nat /\ MAX \in Nat /\ MIN > 0
  BY <1>1, SeatsAssumption
<1>3. Posted(mutex) \in Semaphore /\ Waited(mutex) \in Semaphore
  BY <1>1, SemaphoreMeans
<1>4. Len(philosopher) \in Nat
  BY <1>1
<1>5. ASSUME philosopher' \in Seq(Phil), state' \in [Seat -> State], mutex' \in Semaphore,
             hungry_lock' \in [Seat -> Semaphore], think_unlock' \in [Seat -> Semaphore],
             count' \in MIN .. MAX, main' \in MainPlace,
             someLeft' \in BOOLEAN, unasked' \in BOOLEAN
      PROVE  TypeOK'
  BY <1>5 DEF TypeOK, Phil, Place, MainPlace
<1>6. CASE Start
  <2>1. CASE Len(philosopher) < count
    <3>1. Len(philosopher) \in Seat
      BY <1>1, <1>2, <1>4, <2>1 DEF Seat
    <3>2. Exec(Len(philosopher)) /\ main = "start"
          /\ UNCHANGED <<mutex, main, count, state, hungry_lock, think_unlock, history>>
      BY <1>6, <2>1 DEF Start
    <3>3. philosopher' \in Seq(Phil) /\ Len(philosopher') = Len(philosopher) + 1
      BY <1>1, <3>1, <3>2, ExecMeans
    <3>4. TypeOK'
      BY <1>1, <1>5, <3>2, <3>3 DEF history
    <3>5. Phases'
      BY <1>2, <1>4, <2>1, <3>2, <3>3 DEF Phases
    <3> QED BY <3>4, <3>5 DEF TInv
  <2>2. CASE ~ Len(philosopher) < count
    BY <1>1, <1>3, <1>5, <1>6, <2>2 DEF Start, TInv, Phases, MainPlace, history
  <2> QED BY <2>1, <2>2
<1>7. CASE Key
  <2>1. /\ main = "loop"
        /\ \/ main' = "add" /\ count < MAX
           \/ main' = "remove" /\ count > MIN
           \/ main' = "show"
        /\ UNCHANGED <<count, state, mutex, hungry_lock, think_unlock, philosopher, history>>
    BY <1>7 DEF Key
  <2>2. TypeOK'
    BY <1>1, <1>5, <2>1 DEF MainPlace, history
  <2> QED BY <2>1, <2>2 DEF TInv, Phases
<1>8. ASSUME NEW from, NEW to,
             <<from, to>> \in {<<"add", "adding">>, <<"removing", "removed">>, <<"show", "shown">>},
             MainWaitMutex(from, to)
      PROVE  TInv'
  <2>1. main' = "stuck" \/ main' = to
    BY <1>8, <1>1, AfterMeans DEF MainWaitMutex
  <2>2. main = from /\ mutex' = Waited(mutex)
        /\ UNCHANGED <<count, state, hungry_lock, think_unlock, philosopher, history>>
    BY <1>8 DEF MainWaitMutex
  <2>3. TypeOK'
    BY <1>1, <1>3, <1>5, <1>8, <2>1, <2>2 DEF MainPlace, history
  <2>4. Phases'
    BY <1>8, <2>1, <2>2 DEF TInv, Phases
  <2> QED BY <2>3, <2>4 DEF TInv
<1>9. CASE addPhylo
  <2>1. count < MAX /\ count \in Seat
    BY <1>2, <1>9 DEF addPhylo, TInv, Phases, Seat
  <2>2. philosopher' \in Seq(Phil)
    BY <1>1, <1>9, <2>1, ExecMeans DEF addPhylo
  <2>3. state' \in [Seat -> State]
    BY <1>1, <1>9 DEF addPhylo, State
  <2>4. count' \in MIN .. MAX /\ main' = "show"
    BY <1>1, <1>2, <1>9, <2>1 DEF addPhylo
  <2>5. TypeOK'
    BY <1>1, <1>3, <1>5, <1>9, <2>2, <2>3, <2>4 DEF addPhylo, MainPlace, history
  <2> QED BY <2>4, <2>5 DEF TInv, Phases
<1>10. CASE WaitToRemove
  <2>1. count > MIN /\ count - 1 \in Seat
    BY <1>1, <1>2, <1>10 DEF WaitToRemove, TInv, Phases, Seat
  <2>2. Waited(think_unlock[count - 1]) \in Semaphore
    BY <1>1, <2>1, SemaphoreMeans
  <2>3. think_unlock' \in [Seat -> Semaphore]
    BY <1>1, <1>10, <2>1, <2>2 DEF WaitToRemove, WaitUntilFed
  <2>4. main' = "stuck" \/ main' = "removing"
    BY <1>1, <1>10, <2>1, AfterMeans DEF WaitToRemove, WaitUntilFed
  <2>5. TypeOK'
    BY <1>1, <1>5, <1>10, <2>3, <2>4 DEF WaitToRemove, MainPlace, history
  <2>6. Phases'
    BY <1>10, <2>1, <2>4 DEF WaitToRemove, TInv, Phases
  <2> QED BY <2>5, <2>6 DEF TInv
<1>11. CASE removePhylo
  <2>1. count > MIN
    BY <1>11 DEF removePhylo, TInv, Phases
  <2>2. count' \in MIN .. MAX /\ count' < MAX /\ main' = "release"
    BY <1>1, <1>2, <1>11, <2>1 DEF removePhylo
  <2>3. state' \in [Seat -> State]
    BY <1>1, <1>11 DEF removePhylo, State
  <2>4. TypeOK'
    BY <1>1, <1>3, <1>5, <1>11, <2>2, <2>3 DEF removePhylo, MainPlace
  <2> QED BY <2>2, <2>4 DEF TInv, Phases
<1>12. CASE ReleaseRemoved
  <2>1. count \in Seat
    BY <1>2, <1>12 DEF ReleaseRemoved, TInv, Phases, Seat
  <2>2. Posted(think_unlock[count]) \in Semaphore
    BY <1>1, <2>1, SemaphoreMeans
  <2>3. think_unlock' \in [Seat -> Semaphore]
    BY <1>1, <1>12, <2>1, <2>2 DEF ReleaseRemoved
  <2>4. TypeOK'
    BY <1>1, <1>5, <1>12, <2>3 DEF ReleaseRemoved, MainPlace, history
  <2> QED BY <1>12, <2>4 DEF ReleaseRemoved, TInv, Phases
<1>13. CASE Show
  <2>1. TypeOK'
    BY <1>1, <1>3, <1>5, <1>13 DEF Show, MainPlace, history
  <2> QED BY <1>13, <2>1 DEF Show, TInv, Phases
<1> QED BY <1>6, <1>7, <1>8, <1>9, <1>10, <1>11, <1>12, <1>13 DEF phylo

\* Types and bounds are kept by every step.
LEMMA TypesKept ==
  ASSUME TInv, [Next]_vars
  PROVE  TInv'
<1>1. CASE Next
  BY <1>1, ProcTyped, MainTyped DEF Next, Philosophers
<1>2. CASE UNCHANGED vars
  BY <1>2 DEF vars, TInv, TypeOK, Phases, history
<1> QED BY <1>1, <1>2

\* They hold at first.
LEMMA TypesAtFirst ==
  ASSUME Init
  PROVE  TInv
<1>1. INITIAL \in MIN .. MAX
  BY SeatsAssumption
<1>2. <<>> \in Seq(Phil) /\ Len(<<>>) = 0
  OBVIOUS
<1>3. Opened(MutexValue) \in Semaphore /\ Opened(0) \in Semaphore
  BY DEF Opened, MutexValue, Semaphore
<1>4. state \in [Seat -> State]
  BY DEF Init, Garbage, State
<1>5. TypeOK
  BY <1>1, <1>2, <1>3, <1>4 DEF Init, TypeOK, Phil, Place
<1>6. Phases
  BY <1>2, SeatsAssumption DEF Init, Phases
<1> QED BY <1>5, <1>6 DEF TInv

-----------------------------------------------------------------------------
(* The mutex.                                                               *)

Holds(p) == philosopher[p].pc \in {"taking", "putting", "asking"}
MainHolds == main \in {"adding", "removed", "shown"}

\* One holds the mutex, or its value says that it is free; nobody gets it before
\* phylo posts it for the first time.
Exclusive ==
  /\ mutex.value <= 1
  /\ MainHolds => mutex.value = 0
  /\ \A p \in Philosophers : Holds(p) =>
       mutex.value = 0 /\ ~ MainHolds /\ main # "start"
  /\ \A p, q \in Philosophers : Holds(p) /\ Holds(q) => p = q
  /\ main = "start" => mutex.value = 0

\* That is what MutexExclusion says.
LEMMA ExclusiveSuffices ==
  ASSUME TypeOK, Exclusive
  PROVE  MutexExclusion
<1>1. mutex.value \in Nat
  BY DEF TypeOK, Semaphore
<1>2. mutex.value + (IF MainHolds THEN 1 ELSE 0) <= 1
  BY <1>1 DEF Exclusive
<1> QED BY <1>2 DEF MutexExclusion, Exclusive, Holds, MainHolds

\* Who goes on changes nobody else's hold.
LEMMA HoldsAfter ==
  ASSUME TInv, NEW p \in Philosophers, NEW place \in Place, Goes(p, place)
  PROVE  /\ Philosophers' = Philosophers
         /\ \A q \in Philosophers : q # p => (Holds(q)' <=> Holds(q))
         /\ Holds(p)' <=> place \in {"taking", "putting", "asking"}
<1>1. philosopher \in Seq(Phil)
  BY DEF TInv, TypeOK, Phil, Place
<1> QED BY <1>1, GoesMeans DEF Holds, Philosophers

\* A philosopher gets the mutex only when nobody has it, and gives it back.
LEMMA ExclusiveProc ==
  ASSUME TInv, Exclusive, NEW p \in Philosophers, phylo_proc(p)
  PROVE  Exclusive'
<1>1. mutex \in Semaphore /\ mutex.value \in Nat
  BY DEF TInv, TypeOK, Semaphore
<1>2. ASSUME NEW from, NEW to \in Place, WaitMutex(p, from, to),
             from \notin {"taking", "putting", "asking"}
      PROVE  Exclusive'
  <2>1. ~ Holds(p) /\ main' = main /\ mutex' = Waited(mutex) /\ Goes(p, After(mutex, to))
    BY <1>2 DEF WaitMutex, Holds
  <2>2. MainHolds' <=> MainHolds
    BY <2>1 DEF MainHolds
  <2>3. CASE Free(mutex)
    <3>1. mutex.value = 1 /\ mutex'.value = 0
      BY <1>1, <2>1, <2>3, SemaphoreMeans DEF Exclusive
    <3>2. /\ Philosophers' = Philosophers
          /\ \A q \in Philosophers : q # p => (Holds(q)' <=> Holds(q))
      BY <1>1, <1>2, <2>1, <2>3, AfterMeans, HoldsAfter
    <3>3. \A q \in Philosophers : ~ Holds(q)
      BY <3>1 DEF Exclusive
    <3>4. ~ MainHolds /\ main # "start"
      BY <3>1 DEF Exclusive
    <3> QED BY <2>1, <2>2, <3>1, <3>2, <3>3, <3>4 DEF Exclusive
  <2>4. CASE ~ Free(mutex)
    <3>1. After(mutex, to) = "stuck" /\ mutex'.value = mutex.value /\ "stuck" \in Place
      BY <1>1, <2>1, <2>4, AfterMeans, SemaphoreMeans DEF Place
    <3>2. /\ Philosophers' = Philosophers
          /\ \A q \in Philosophers : q # p => (Holds(q)' <=> Holds(q))
          /\ ~ Holds(p)'
      BY <2>1, <3>1, HoldsAfter
    <3> QED BY <2>1, <2>2, <3>1, <3>2 DEF Exclusive
  <2> QED BY <2>3, <2>4
<1>3. ASSUME NEW from, NEW shared, NEW to \in Place, Update(p, from, shared, to),
             from \in {"taking", "putting", "asking"}, to \notin {"taking", "putting", "asking"}
      PROVE  Exclusive'
  <2>1. Holds(p) /\ main' = main /\ mutex' = Posted(mutex) /\ Goes(p, to)
    BY <1>3 DEF Update, Holds
  <2>2. MainHolds' <=> MainHolds
    BY <2>1 DEF MainHolds
  <2>3. mutex.value = 0 /\ ~ MainHolds /\ main # "start"
    BY <2>1 DEF Exclusive
  <2>4. mutex'.value = 1
    BY <1>1, <2>1, <2>3, SemaphoreMeans
  <2>5. Philosophers' = Philosophers /\ \A q \in Philosophers : ~ Holds(q)'
    BY <1>3, <2>1, HoldsAfter DEF Exclusive
  <2> QED BY <2>1, <2>2, <2>3, <2>4, <2>5 DEF Exclusive
<1>4. ASSUME NEW place \in Place, Goes(p, place), ~ Holds(p), UNCHANGED <<mutex, main>>,
             place \notin {"taking", "putting", "asking"}
      PROVE  Exclusive'
  <2>1. MainHolds' <=> MainHolds
    BY <1>4 DEF MainHolds
  <2>2. Philosophers' = Philosophers /\ \A q \in Philosophers : Holds(q)' <=> Holds(q)
    BY <1>4, HoldsAfter
  <2> QED BY <1>4, <2>1, <2>2 DEF Exclusive
<1>5. CASE WaitMutex(p, "hungry", "taking") \/ WaitMutex(p, "eating", "putting")
           \/ WaitMutex(p, "staying", "asking")
  BY <1>2, <1>5 DEF Place
<1>6. CASE \/ Update(p, "taking", TakeForks(philosopher[p].id), "granted")
           \/ Update(p, "putting", PutForks(philosopher[p].id), "fed")
  BY <1>3, <1>6 DEF Place
<1>7. CASE Update(p, "asking", Unchanged,
                  IF state[philosopher[p].id] = "LEAVING" THEN "gone" ELSE "hungry")
  BY <1>3, <1>7 DEF Place
<1>8. CASE WaitHungry(p) \/ PostThink(p) \/ WaitThink(p)
  <2>1. ~ Holds(p) /\ UNCHANGED <<mutex, main>>
    BY <1>8 DEF WaitHungry, PostThink, WaitThink, Holds
  <2>2. PICK place \in {"eating", "staying", "thinking", "stuck"} : Goes(p, place)
    BY <1>8 DEF WaitHungry, PostThink, WaitThink, After
  <2> QED BY <1>4, <2>1, <2>2 DEF Place
<1> QED BY <1>5, <1>6, <1>7, <1>8 DEF phylo_proc

\* So does phylo, whose first post makes it free.
LEMMA ExclusiveMain ==
  ASSUME TInv, Exclusive, phylo
  PROVE  Exclusive'
<1>1. mutex \in Semaphore /\ mutex.value \in Nat /\ philosopher \in Seq(Phil)
  BY DEF TInv, TypeOK, Semaphore, Phil, Place
<1>2. ASSUME UNCHANGED <<mutex, philosopher>>, main' \notin {"adding", "removed", "shown", "start"}
      PROVE  Exclusive'
  <2>1. Philosophers' = Philosophers /\ \A q \in Philosophers : Holds(q)' <=> Holds(q)
    BY <1>2 DEF Philosophers, Holds
  <2> QED BY <1>2, <2>1 DEF Exclusive, MainHolds
\* phylo gives the mutex back.
<1>3. ASSUME MainHolds \/ main = "start",
             mutex' = Posted(mutex), main' \notin {"adding", "removed", "shown", "start"},
             \A q \in Philosophers' : Holds(q)' => q \in Philosophers /\ Holds(q)
      PROVE  Exclusive'
  <2>1. mutex.value = 0 /\ \A q \in Philosophers : ~ Holds(q)
    BY <1>3 DEF Exclusive
  <2>2. mutex'.value = 1 /\ ~ MainHolds'
    BY <1>1, <1>3, <2>1, SemaphoreMeans DEF MainHolds
  <2> QED BY <1>3, <2>1, <2>2 DEF Exclusive
<1>4. ASSUME NEW id \in Seat, Exec(id)
      PROVE  \A q \in Philosophers' : Holds(q)' => q \in Philosophers /\ Holds(q)
  <2>1. /\ Len(philosopher') = Len(philosopher) + 1
        /\ \A q \in Philosophers : philosopher'[q] = philosopher[q]
        /\ philosopher'[Len(philosopher) + 1].pc = "hungry"
    BY <1>1, <1>4, ExecMeans
  <2>2. Len(philosopher) \in Nat
    BY <1>1
  <2>3. \A q \in Philosophers' : q \in Philosophers \/ q = Len(philosopher) + 1
    BY <2>1, <2>2 DEF Philosophers
  <2> QED BY <2>1, <2>3 DEF Holds
<1>5. ASSUME philosopher' = philosopher
      PROVE  \A q \in Philosophers' : Holds(q)' => q \in Philosophers /\ Holds(q)
  BY <1>5 DEF Philosophers, Holds
<1>6. CASE Start
  <2>1. CASE Len(philosopher) < count
    <3>1. Len(philosopher) \in Seat
      <4>1. count \in MIN .. MAX /\ Len(philosopher) \in Nat
        BY <1>1 DEF TInv, TypeOK
      <4> QED BY <2>1, <4>1, SeatsAssumption DEF Seat
    <3>2. Exec(Len(philosopher)) /\ main = "start" /\ main' = main /\ mutex' = mutex
      BY <1>6, <2>1 DEF Start
    <3>3. \A q \in Philosophers' : ~ Holds(q)'
      BY <1>4, <3>1, <3>2 DEF Exclusive
    <3> QED BY <3>2, <3>3 DEF Exclusive, MainHolds
  <2>2. CASE ~ Len(philosopher) < count
    BY <1>3, <1>5, <1>6, <2>2 DEF Start
  <2> QED BY <2>1, <2>2
<1>7. CASE Key
  BY <1>2, <1>7 DEF Key
<1>8. ASSUME NEW from, NEW to, MainWaitMutex(from, to),
             from \notin {"adding", "removed", "shown", "start"}, to # "start"
      PROVE  Exclusive'
  <2>1. /\ main = from /\ ~ MainHolds /\ main' = After(mutex, to) /\ mutex' = Waited(mutex)
        /\ Philosophers' = Philosophers /\ \A q \in Philosophers : Holds(q)' <=> Holds(q)
    BY <1>8 DEF MainWaitMutex, MainHolds, Philosophers, Holds
  <2>2. CASE Free(mutex)
    <3>1. mutex.value = 1 /\ mutex'.value = 0
      BY <1>1, <2>1, <2>2, SemaphoreMeans DEF Exclusive
    <3>2. \A q \in Philosophers : ~ Holds(q)
      BY <3>1 DEF Exclusive
    <3> QED BY <2>1, <3>1, <3>2 DEF Exclusive
  <2>3. CASE ~ Free(mutex)
    <3>1. main' = "stuck" /\ mutex'.value = mutex.value
      BY <1>1, <2>1, <2>3, AfterMeans, SemaphoreMeans
    <3> QED BY <2>1, <3>1 DEF Exclusive, MainHolds
  <2> QED BY <2>2, <2>3
<1>9. CASE MainWaitMutex("add", "adding") \/ MainWaitMutex("removing", "removed")
           \/ MainWaitMutex("show", "shown")
  BY <1>8, <1>9
<1>10. CASE addPhylo
  <2>1. count \in Seat
    BY <1>10, SeatsAssumption DEF addPhylo, TInv, TypeOK, Phases, Seat
  <2>2. \A q \in Philosophers' : Holds(q)' => q \in Philosophers /\ Holds(q)
    BY <1>4, <1>10, <2>1 DEF addPhylo
  <2> QED BY <1>3, <1>10, <2>2 DEF addPhylo, MainHolds
<1>11. CASE removePhylo \/ Show
  BY <1>3, <1>5, <1>11 DEF removePhylo, Show, MainHolds
<1>12. CASE WaitToRemove \/ ReleaseRemoved
  <2>1. main' \in {"stuck", "removing", "show"} /\ UNCHANGED <<mutex, philosopher>>
    BY <1>12 DEF WaitToRemove, WaitUntilFed, ReleaseRemoved, After
  <2> QED BY <1>2, <2>1
<1> QED BY <1>6, <1>7, <1>9, <1>10, <1>11, <1>12 DEF phylo

MInv == TInv /\ Exclusive

\* Every step keeps the mutex exclusive.
LEMMA MutexKept ==
  ASSUME MInv, [Next]_vars
  PROVE  MInv'
<1>1. CASE Next
  BY <1>1, TypesKept, ExclusiveProc, ExclusiveMain DEF MInv, Next, Philosophers
<1>2. CASE UNCHANGED vars
  BY <1>2, TypesKept DEF MInv, vars, Exclusive, Philosophers, Holds, MainHolds
<1> QED BY <1>1, <1>2

\* The semaphore phylo/main, though it is opened with no value and the children are
\* running before phylo posts it, is held by one process at a time, whoever joins or leaves.
THEOREM Mutex == Spec => []MutexExclusion
<1>1. Init => MInv
  <2>1. ASSUME Init
        PROVE  Exclusive
    <3>1. mutex.value = 0 /\ main = "start" /\ Philosophers = {}
      BY <2>1 DEF Init, Opened, MutexValue, Philosophers
    <3> QED BY <3>1 DEF Exclusive, MainHolds
  <2> QED BY <2>1, TypesAtFirst DEF MInv
<1>2. MInv /\ [Next]_vars => MInv'
  BY MutexKept
<1>3. MInv => MutexExclusion
  BY ExclusiveSuffices DEF MInv, TInv
<1> QED BY <1>1, <1>2, <1>3, PTL DEF Spec

-----------------------------------------------------------------------------
(* The forks, until they are granted unasked or somebody leaves.            *)

\* Philosophers sit in the order in which they were created.
Seated ==
  ~ someLeft =>
    /\ \A p \in Philosophers : philosopher[p].id = p - 1
    /\ Len(philosopher) <= count
    /\ main # "start" => Len(philosopher) = count

\* What the philosopher on a seat, phil being all of them, does.
Waits(phil, id) == id + 1 \in 1 .. Len(phil) /\ phil[id + 1].pc \in {"granted", "stuck"}
Dines(phil, id) == id + 1 \in 1 .. Len(phil) /\ phil[id + 1].pc \in {"eating", "putting"}

\* If there is one, it has not asked for forks yet or waits for them.
Hungers(phil, id) ==
  id + 1 \in 1 .. Len(phil) => phil[id + 1].pc \in {"hungry", "taking", "granted", "stuck"}

HasForks(lock, phil, id) == Dines(phil, id) \/ lock[id].value > 0

\* Two of n seats are next to each other.
Beside(n, i, j) ==
  \/ j = i + 1
  \/ i = j + 1
  \/ i = 0 /\ j = n - 1
  \/ j = 0 /\ i = n - 1

\* Who is shown to be hungry has not asked yet or waits for its lock; forks that were granted are shown by the state until
\* they are put back, and neighbours never have theirs at a time.
Forks(st, lock, phil, n) ==
  /\ \A id \in Seat : st[id] = "HUNGRY" => Hungers(phil, id)
  /\ \A id \in Seat : lock[id].value > 0 =>
       lock[id].value = 1 /\ st[id] = "EATING" /\ Waits(phil, id)
  /\ \A id \in Seat : Dines(phil, id) => st[id] = "EATING"
  /\ \A i, j \in Seat :
       i < n /\ j < n /\ i # j /\ HasForks(lock, phil, i) /\ HasForks(lock, phil, j)
         => ~ Beside(n, i, j)

\* LEFT and RIGHT are the seats beside one.
LEMMA BesideIsNeighbour ==
  ASSUME count \in MIN .. MAX, NEW i \in Seat, NEW j \in Seat, i < count, j < count
  PROVE  Beside(count, i, j) <=> j \in {LEFT(i), RIGHT(i)}
<1>1. /\ LEFT(i) = IF i = 0 THEN count - 1 ELSE i - 1
      /\ RIGHT(i) = IF i = count - 1 THEN 0 ELSE i + 1
  BY NeighbourSeats
<1>2. count \in Nat /\ i \in Nat /\ j \in Nat
  BY SeatsAssumption DEF Seat
<1> DEFINE l == LEFT(i)
           r == RIGHT(i)
<1> HIDE DEF l, r
<1>3. /\ l = IF i = 0 THEN count - 1 ELSE i - 1
      /\ r = IF i = count - 1 THEN 0 ELSE i + 1
  BY <1>1 DEF l, r
<1>4. Beside(count, i, j) <=> j \in {l, r}
  BY <1>2, <1>3 DEF Beside
<1> QED BY <1>4 DEF l, r

\* Nothing is lost when nobody starts to eat and nobody stops waiting.
LEMMA ForksQuiet ==
  ASSUME NEW st, NEW lock, NEW phil, NEW n, Forks(st, lock, phil, n), NEW phil2,
         \A id \in Seat : Dines(phil2, id) => Dines(phil, id),
         \A id \in Seat : Waits(phil, id) => Waits(phil2, id),
         \A id \in Seat : Hungers(phil, id) => Hungers(phil2, id)
  PROVE  Forks(st, lock, phil2, n)
BY DEF Forks, HasForks

\* test takes from no lock, and puts something into one of whom it lets eat.
LEMMA TestGrants ==
  ASSUME NEW shared, shared.state \in [Seat -> State], shared.lock \in [Seat -> Semaphore],
         NEW id \in Seat
  PROVE  /\ \A i \in Seat : test(shared, id).lock[i].value >= shared.lock[i].value
         /\ MayEat(shared.state, id) => test(shared, id).lock[id].value > shared.lock[id].value
<1>1. \A i \in Seat : shared.lock[i].value \in Nat
  BY DEF Semaphore
<1>2. CASE ~ MayEat(shared.state, id)
  <2>1. test(shared, id) = shared
    BY <1>2, TestMeans
  <2> QED BY <1>1, <1>2, <2>1
<1>3. CASE MayEat(shared.state, id)
  <2>1. test(shared, id).lock = [shared.lock EXCEPT ![id] = Posted(@)]
    BY <1>3, TestMeans
  <2>2. Posted(shared.lock[id]).value = shared.lock[id].value + 1
    BY SemaphoreMeans
  <2> QED BY <1>1, <2>1, <2>2
<1> QED BY <1>2, <1>3

\* A seat where somebody may be hungry and nobody waits is one where nobody has asked.
LEMMA NobodyAsked ==
  ASSUME NEW phil, DOMAIN phil = 1 .. Len(phil), Len(phil) \in Nat,
         \A q \in 1 .. Len(phil) : phil[q].id = q - 1,
         NEW id \in Seat, Hungers(phil, id), ~ Waits(phil, id)
  PROVE  ~ Asked(phil, id)
<1> SUFFICES ASSUME NEW q \in 1 .. Len(phil), phil[q].id = id,
                    phil[q].pc \notin {"hungry", "taking"}
             PROVE  FALSE
  BY DEF Asked
<1>1. q = id + 1
  BY DEF Seat
<1> QED BY <1>1 DEF Hungers, Waits

\* test grants forks to one that waits and whose neighbours have none.
LEMMA TestKeepsForks ==
  ASSUME count \in MIN .. MAX, NEW shared, NEW phil,
         shared.state \in [Seat -> State], shared.lock \in [Seat -> Semaphore],
         Forks(shared.state, shared.lock, phil, count), NEW id \in Seat, id < count,
         MayEat(shared.state, id) => Waits(phil, id)
  PROVE  Forks(test(shared, id).state, test(shared, id).lock, phil, count)
<1>1. CASE ~ MayEat(shared.state, id)
  BY <1>1, TestMeans
<1>2. CASE MayEat(shared.state, id)
  <2> DEFINE st == test(shared, id).state
             lock == test(shared, id).lock
  <2>1. /\ st = [shared.state EXCEPT ![id] = "EATING"]
        /\ lock = [shared.lock EXCEPT ![id] = Posted(@)]
    BY <1>2, TestMeans
  <2> HIDE DEF st, lock
  <2>2. /\ shared.state[id] = "HUNGRY"
        /\ shared.state[LEFT(id)] # "EATING" /\ shared.state[RIGHT(id)] # "EATING"
    BY <1>2 DEF MayEat
  <2>3. Waits(phil, id) /\ ~ Dines(phil, id) /\ shared.lock[id].value = 0
    <3>1. shared.lock[id].value \in Nat
      BY DEF Semaphore
    <3>2. Waits(phil, id)
      BY <1>2
    <3>3. ~ Dines(phil, id) /\ ~ shared.lock[id].value > 0
      BY <2>2 DEF Forks
    <3> QED BY <3>1, <3>2, <3>3
  <2>4. /\ st[id] = "EATING" /\ lock[id].value = 1
        /\ \A i \in Seat : i # id => st[i] = shared.state[i] /\ lock[i] = shared.lock[i]
    <3>1. Posted(shared.lock[id]).value = 1
      BY <2>3, SemaphoreMeans
    <3> QED BY <2>1, <3>1
  <2>5. \A j \in Seat : j < count /\ Beside(count, id, j) => ~ HasForks(shared.lock, phil, j)
    <3>1. ASSUME NEW j \in Seat, j < count, Beside(count, id, j)
          PROVE  shared.state[j] # "EATING"
      BY <2>2, <3>1, BesideIsNeighbour
    <3> QED BY <3>1 DEF Forks, HasForks
  <2>6. \A j \in Seat : Beside(count, j, id) <=> Beside(count, id, j)
    BY DEF Beside
  <2>7. \A i \in Seat : st[i] = "HUNGRY" => Hungers(phil, i)
    BY <2>4 DEF Forks
  <2>8. \A i \in Seat : lock[i].value > 0 =>
          lock[i].value = 1 /\ st[i] = "EATING" /\ Waits(phil, i)
    BY <2>3, <2>4 DEF Forks
  <2>9. \A i \in Seat : Dines(phil, i) => st[i] = "EATING"
    BY <2>4 DEF Forks
  <2>10. ASSUME NEW i \in Seat, NEW j \in Seat, i < count, j < count, i # j,
                HasForks(lock, phil, i), HasForks(lock, phil, j)
         PROVE  ~ Beside(count, i, j)
    <3>1. CASE i = id
      <4>1. HasForks(shared.lock, phil, j)
        BY <2>4, <2>10, <3>1 DEF HasForks
      <4> QED BY <2>5, <2>10, <3>1, <4>1
    <3>2. CASE j = id
      <4>1. HasForks(shared.lock, phil, i)
        BY <2>4, <2>10, <3>2 DEF HasForks
      <4> QED BY <2>5, <2>6, <2>10, <3>2, <4>1
    <3>3. CASE i # id /\ j # id
      BY <2>4, <2>10, <3>3 DEF HasForks, Forks
    <3> QED BY <3>1, <3>2, <3>3
  <2>11. Forks(st, lock, phil, count)
    BY <2>7, <2>8, <2>9, <2>10 DEF Forks
  <2> QED BY <2>11 DEF st, lock
<1> QED BY <1>1, <1>2

FInv == ~ someLeft /\ ~ unasked => Forks(state, hungry_lock, philosopher, count)

\* Who goes on changes what the philosopher of its own seat does.
LEMMA GoesAtTable ==
  ASSUME TInv, NEW p \in Philosophers, NEW place \in Place, Goes(p, place)
  PROVE  /\ \A id \in Seat : id # p - 1 =>
              /\ Waits(philosopher', id) <=> Waits(philosopher, id)
              /\ Dines(philosopher', id) <=> Dines(philosopher, id)
              /\ Hungers(philosopher', id) <=> Hungers(philosopher, id)
         /\ Waits(philosopher', p - 1) <=> place \in {"granted", "stuck"}
         /\ Dines(philosopher', p - 1) <=> place \in {"eating", "putting"}
         /\ Hungers(philosopher', p - 1) <=> place \in {"hungry", "taking", "granted", "stuck"}
         /\ Waits(philosopher, p - 1) <=> philosopher[p].pc \in {"granted", "stuck"}
         /\ Dines(philosopher, p - 1) <=> philosopher[p].pc \in {"eating", "putting"}
         /\ Hungers(philosopher, p - 1) <=>
              philosopher[p].pc \in {"hungry", "taking", "granted", "stuck"}
<1>1. philosopher \in Seq(Phil) /\ p \in Nat /\ (p - 1) + 1 = p
  BY DEF TInv, TypeOK, Phil, Place, Philosophers
<1>2. /\ Len(philosopher') = Len(philosopher) /\ philosopher'[p].pc = place
      /\ \A q \in Philosophers : q # p => philosopher'[q] = philosopher[q]
  BY <1>1, GoesMeans
<1>3. \A id \in Seat : id # p - 1 => id + 1 # p
  BY <1>1 DEF Seat
<1>4. ASSUME NEW id \in Seat, id # p - 1
      PROVE  /\ Waits(philosopher', id) <=> Waits(philosopher, id)
             /\ Dines(philosopher', id) <=> Dines(philosopher, id)
             /\ Hungers(philosopher', id) <=> Hungers(philosopher, id)
  <2>1. id + 1 \in Philosophers => philosopher'[id + 1] = philosopher[id + 1]
    BY <1>2, <1>3, <1>4
  <2> QED BY <1>2, <2>1 DEF Waits, Dines, Hungers, Philosophers
<1>5. p \in 1 .. Len(philosopher)
  BY DEF Philosophers
<1> QED BY <1>1, <1>2, <1>4, <1>5 DEF Waits, Dines, Hungers

\* Philosophers keep their seats.
LEMMA SeatedProc ==
  ASSUME TInv, Seated, NEW p \in Philosophers, phylo_proc(p)
  PROVE  Seated'
<1>1. philosopher \in Seq(Phil)
  BY DEF TInv, TypeOK, Phil, Place
<1>2. PICK place \in Place : Goes(p, place)
  BY DEF phylo_proc, WaitMutex, Update, WaitHungry, PostThink, WaitThink, After, Place
<1>3. UNCHANGED <<count, main, someLeft>>
  BY DEF phylo_proc, WaitMutex, Update, WaitHungry, PostThink, WaitThink, history
<1>4. /\ Len(philosopher') = Len(philosopher)
      /\ \A q \in Philosophers : philosopher'[q].id = philosopher[q].id
  BY <1>1, <1>2, GoesMeans
<1> QED BY <1>3, <1>4 DEF Seated, Philosophers

\* A philosopher's steps keep the forks right, for both its neighbours too.
LEMMA ForksProc ==
  ASSUME TInv, Seated, FInv, NEW p \in Philosophers, phylo_proc(p)
  PROVE  FInv'
<1> DEFINE id == philosopher[p].id
<1>1. /\ philosopher \in Seq(Phil) /\ state \in [Seat -> State] /\ mutex \in Semaphore
      /\ hungry_lock \in [Seat -> Semaphore] /\ count \in MIN .. MAX
  BY DEF TInv, TypeOK, Phil, Place
<1>2. UNCHANGED <<count, main, someLeft>>
  BY DEF phylo_proc, WaitMutex, Update, WaitHungry, PostThink, WaitThink, history
<1> SUFFICES ASSUME ~ someLeft, ~ unasked'
             PROVE  Forks(state', hungry_lock', philosopher', count)
  BY <1>2 DEF FInv
<1>3. Forks(state, hungry_lock, philosopher, count)
  <2>1. ~ unasked
    BY DEF phylo_proc, WaitMutex, Update, WaitHungry, PostThink, WaitThink, history
  <2> QED BY <2>1 DEF FInv
<1>4. id = p - 1 /\ id < count /\ id \in Seat
  <2>1. philosopher[p] \in Phil
    BY <1>1 DEF Philosophers
  <2>2. p \in Nat /\ p <= Len(philosopher) /\ Len(philosopher) \in Nat /\ Len(philosopher) <= count
    BY <1>1 DEF Philosophers, Seated
  <2>3. count \in Nat
    BY <1>1, SeatsAssumption
  <2> QED BY <2>1, <2>2, <2>3 DEF Seated, Phil
<1> HIDE DEF id
\* The places where nobody starts to eat or stops waiting.
<1>5. ASSUME UNCHANGED <<state, hungry_lock>>, NEW place \in Place, Goes(p, place),
             philosopher[p].pc \in {"granted", "stuck"} => place \in {"granted", "stuck"},
             place \in {"eating", "putting"} => philosopher[p].pc \in {"eating", "putting"},
             philosopher[p].pc \in {"hungry", "taking", "granted", "stuck"} =>
               place \in {"hungry", "taking", "granted", "stuck"}
      PROVE  Forks(state', hungry_lock', philosopher', count)
  <2>1. /\ \A i \in Seat : Dines(philosopher', i) => Dines(philosopher, i)
        /\ \A i \in Seat : Waits(philosopher, i) => Waits(philosopher', i)
        /\ \A i \in Seat : Hungers(philosopher, i) => Hungers(philosopher', i)
    BY <1>4, <1>5, GoesAtTable
  <2>2. Forks(state, hungry_lock, philosopher', count)
    BY <1>3, <2>1, ForksQuiet
  <2> QED BY <1>5, <2>2
<1>6. ASSUME NEW from, NEW to \in Place, WaitMutex(p, from, to),
             from \notin {"granted", "stuck"},
             to \in {"eating", "putting"} => from \in {"eating", "putting"},
             from \in {"hungry", "taking"} => to = "taking"
      PROVE  Forks(state', hungry_lock', philosopher', count)
  <2>1. After(mutex, to) \in {to, "stuck"}
    BY DEF After
  <2>2. After(mutex, to) \in Place
    BY <2>1 DEF Place
  <2> QED BY <1>5, <1>6, <2>1, <2>2 DEF WaitMutex
<1>7. CASE WaitMutex(p, "hungry", "taking") \/ WaitMutex(p, "eating", "putting")
           \/ WaitMutex(p, "staying", "asking")
  BY <1>6, <1>7 DEF Place
<1>8. CASE Update(p, "asking", Unchanged, IF state[id] = "LEAVING" THEN "gone" ELSE "hungry")
  <2>1. PICK place \in {"gone", "hungry"} : Goes(p, place)
    BY <1>8 DEF Update
  <2>2. philosopher[p].pc = "asking" /\ UNCHANGED <<state, hungry_lock>>
    BY <1>8 DEF Update, Unchanged
  <2> QED BY <1>5, <2>1, <2>2 DEF Place
<1>9. CASE PostThink(p) \/ WaitThink(p)
  <2>1. PICK place \in {"thinking", "staying", "stuck"} : Goes(p, place)
    BY <1>9 DEF PostThink, WaitThink, After
  <2>2. philosopher[p].pc \in {"fed", "thinking"} /\ UNCHANGED <<state, hungry_lock>>
    BY <1>9 DEF PostThink, WaitThink
  <2> QED BY <1>5, <2>1, <2>2 DEF Place
<1>10. CASE WaitHungry(p)
  <2>1. /\ philosopher[p].pc = "granted" /\ state' = state
        /\ Goes(p, After(hungry_lock[id], "eating"))
        /\ hungry_lock' = [hungry_lock EXCEPT ![id] = Waited(@)]
    BY <1>10 DEF WaitHungry, id
  <2>2. CASE ~ Free(hungry_lock[id])
    <3>1. Goes(p, "stuck") /\ "stuck" \in Place
      BY <1>1, <1>4, <2>1, <2>2, AfterMeans DEF Place
    <3>2. /\ \A i \in Seat : hungry_lock'[i].value = hungry_lock[i].value
      <4>1. Waited(hungry_lock[id]).value = hungry_lock[id].value
        BY <1>1, <1>4, <2>2, SemaphoreMeans
      <4> QED BY <1>1, <1>4, <2>1, <4>1
    <3>3. /\ \A i \in Seat : Dines(philosopher', i) => Dines(philosopher, i)
          /\ \A i \in Seat : Waits(philosopher, i) => Waits(philosopher', i)
          /\ \A i \in Seat : Hungers(philosopher, i) => Hungers(philosopher', i)
      BY <1>4, <2>1, <3>1, GoesAtTable
    <3>4. Forks(state, hungry_lock, philosopher', count)
      BY <1>3, <3>3, ForksQuiet
    <3> QED BY <2>1, <3>2, <3>4 DEF Forks, HasForks
  <2>3. CASE Free(hungry_lock[id])
    <3>1. Goes(p, "eating") /\ "eating" \in Place
      BY <1>1, <1>4, <2>1, <2>3, AfterMeans DEF Place
    <3>2. hungry_lock[id].value > 0 /\ Waited(hungry_lock[id]).value = hungry_lock[id].value - 1
      BY <1>1, <1>4, <2>3, SemaphoreMeans
    <3>3. hungry_lock[id].value = 1 /\ state[id] = "EATING"
      BY <1>3, <1>4, <3>2 DEF Forks
    <3>4. /\ hungry_lock'[id].value = 0
          /\ \A i \in Seat : i # id => hungry_lock'[i] = hungry_lock[i]
      BY <1>1, <1>4, <2>1, <3>2, <3>3
    <3>5. /\ \A i \in Seat : i # id =>
               /\ Waits(philosopher', i) <=> Waits(philosopher, i)
               /\ Dines(philosopher', i) <=> Dines(philosopher, i)
               /\ Hungers(philosopher', i) <=> Hungers(philosopher, i)
          /\ Dines(philosopher', id)
      BY <1>4, <3>1, GoesAtTable
    <3>6. \A i \in Seat : HasForks(hungry_lock', philosopher', i) => HasForks(hungry_lock, philosopher, i)
      BY <3>2, <3>4, <3>5 DEF HasForks
    <3>7. \A i \in Seat : state[i] = "HUNGRY" => Hungers(philosopher', i)
      BY <1>3, <3>3, <3>5 DEF Forks
    <3>8. \A i \in Seat : hungry_lock'[i].value > 0 =>
            hungry_lock'[i].value = 1 /\ state[i] = "EATING" /\ Waits(philosopher', i)
      BY <1>3, <3>4, <3>5 DEF Forks
    <3>9. \A i \in Seat : Dines(philosopher', i) => state[i] = "EATING"
      BY <1>3, <3>3, <3>5 DEF Forks
    <3>10. Forks(state, hungry_lock', philosopher', count)
      BY <1>3, <3>6, <3>7, <3>8, <3>9 DEF Forks
    <3> QED BY <2>1, <3>10
  <2> QED BY <2>2, <2>3
\* Who does not wait for its lock finds it empty.
<1>11. ASSUME philosopher[p].pc \in {"taking", "putting"}, NEW place \in Place, Goes(p, place),
              NEW s \in State, s # "EATING", s = "HUNGRY" => place = "granted",
              place \notin {"eating", "putting"}
       PROVE  Forks(Marked(id, s).state, Marked(id, s).lock, philosopher', count)
  <2> DEFINE st == [state EXCEPT ![id] = s]
  <2>1. Marked(id, s).state = st /\ Marked(id, s).lock = hungry_lock
    BY DEF Marked
  <2>2. st[id] = s /\ \A i \in Seat : i # id => st[i] = state[i]
    BY <1>1, <1>4
  <2> HIDE DEF st
  <2>3. ~ Waits(philosopher, id) /\ Dines(philosopher', id) = FALSE
        /\ (s = "HUNGRY" => Hungers(philosopher', id))
    BY <1>4, <1>11, GoesAtTable
  <2>4. ~ hungry_lock[id].value > 0
    BY <1>3, <1>4, <2>3 DEF Forks
  <2>5. \A i \in Seat : i # id =>
          /\ Waits(philosopher', i) <=> Waits(philosopher, i)
          /\ Dines(philosopher', i) <=> Dines(philosopher, i)
          /\ Hungers(philosopher', i) <=> Hungers(philosopher, i)
    BY <1>4, <1>11, GoesAtTable
  <2>6. \A i \in Seat : HasForks(hungry_lock, philosopher', i) => HasForks(hungry_lock, philosopher, i)
    BY <2>3, <2>4, <2>5 DEF HasForks
  <2>7. \A i \in Seat : st[i] = "HUNGRY" => Hungers(philosopher', i)
    BY <1>3, <2>2, <2>3, <2>5 DEF Forks
  <2>8. \A i \in Seat : hungry_lock[i].value > 0 =>
          hungry_lock[i].value = 1 /\ st[i] = "EATING" /\ Waits(philosopher', i)
    BY <1>3, <2>2, <2>4, <2>5 DEF Forks
  <2>9. \A i \in Seat : Dines(philosopher', i) => st[i] = "EATING"
    BY <1>3, <2>2, <2>3, <2>5 DEF Forks
  <2>10. Forks(st, hungry_lock, philosopher', count)
    BY <1>3, <2>6, <2>7, <2>8, <2>9 DEF Forks
  <2> QED BY <2>1, <2>10
<1>12. ASSUME NEW s \in State
       PROVE  /\ Marked(id, s).state \in [Seat -> State]
              /\ Marked(id, s).lock \in [Seat -> Semaphore]
  BY <1>1 DEF Marked
<1>13. CASE Update(p, "taking", TakeForks(id), "granted")
  <2> DEFINE marked == Marked(id, "HUNGRY")
  <2>1. /\ philosopher[p].pc = "taking" /\ Goes(p, "granted")
        /\ state' = TakeForks(id).state /\ hungry_lock' = TakeForks(id).lock
    BY <1>13 DEF Update
  <2>2. Forks(marked.state, marked.lock, philosopher', count)
    BY <1>11, <2>1 DEF Place, State
  <2>3. marked.state \in [Seat -> State] /\ marked.lock \in [Seat -> Semaphore]
    BY <1>12 DEF State
  <2>4. TakeForks(id) = test(marked, id)
    BY DEF TakeForks
  <2> HIDE DEF marked
  <2>5. Forks(test(marked, id).state, test(marked, id).lock, philosopher', count)
    <3>1. Waits(philosopher', id)
      BY <1>4, <2>1, GoesAtTable DEF Place
    <3> QED BY <1>1, <1>4, <2>2, <2>3, <3>1, TestKeepsForks
  <2> QED BY <2>1, <2>4, <2>5
<1>14. CASE Update(p, "putting", PutForks(id), "fed")
  <2> DEFINE marked == Marked(id, "THINKING")
             left == LEFT(id)
             right == RIGHT(id)
             once == test(marked, left)
  <2>1. /\ philosopher[p].pc = "putting" /\ Goes(p, "fed")
        /\ state' = PutForks(id).state /\ hungry_lock' = PutForks(id).lock
    BY <1>14 DEF Update
  <2>2. Forks(marked.state, marked.lock, philosopher', count)
    BY <1>11, <2>1 DEF Place, State
  <2>3. marked.state \in [Seat -> State] /\ marked.lock \in [Seat -> Semaphore]
    BY <1>12 DEF State
  <2>4. PutForks(id) = test(once, right)
    BY DEF PutForks
  <2>5. /\ left \in Seat /\ right \in Seat
        /\ left \in 0 .. count - 1 /\ right \in 0 .. count - 1
    BY <1>1, <1>4, NeighbourSeats
  <2> HIDE DEF marked, left, right
  <2>6. count \in Nat
    BY <1>1, SeatsAssumption
  <2>7. left < count /\ right < count
    BY <2>5, <2>6
\* A grant to one who does not wait would be one to somebody that has not asked.
  <2>8. ASSUME NEW i \in Seat, hungry_lock'[i].value > hungry_lock[i].value,
               Hungers(philosopher', i)
        PROVE  Waits(philosopher', i)
    <3>1. Asked(philosopher', i)
      BY <1>14, <2>1, <2>8 DEF Update
    <3>2. /\ DOMAIN philosopher' = 1 .. Len(philosopher') /\ Len(philosopher') \in Nat
          /\ \A q \in 1 .. Len(philosopher') : philosopher'[q].id = q - 1
      <4>1. philosopher' \in Seq(Phil)
        BY <1>1, <2>1, GoesMeans DEF Place
      <4>2. Seated'
        BY SeatedProc
      <4> QED BY <1>2, <4>1, <4>2 DEF Seated, Philosophers
    <3> QED BY <2>8, <3>1, <3>2, NobodyAsked
  <2>9. \A i \in Seat : marked.lock[i].value = hungry_lock[i].value /\ hungry_lock[i].value \in Nat
    BY <1>1 DEF marked, Marked, Semaphore
  <2>10. once.state \in [Seat -> State] /\ once.lock \in [Seat -> Semaphore]
    BY <2>3, <2>5, TestMeans
  <2>11. /\ \A i \in Seat : once.lock[i].value >= marked.lock[i].value /\ once.lock[i].value \in Nat
         /\ MayEat(marked.state, left) => once.lock[left].value > marked.lock[left].value
    <3>1. \A i \in Seat : once.lock[i].value \in Nat
      BY <2>10 DEF Semaphore
    <3> QED BY <2>3, <2>5, <3>1, TestGrants
  <2> HIDE DEF once
  <2>12. /\ \A i \in Seat : hungry_lock'[i].value >= once.lock[i].value /\ hungry_lock'[i].value \in Nat
         /\ MayEat(once.state, right) => hungry_lock'[right].value > once.lock[right].value
    <3>1. \A i \in Seat : test(once, right).lock[i].value \in Nat
      <4>1. test(once, right).lock \in [Seat -> Semaphore]
        BY <2>5, <2>10, TestMeans
      <4> QED BY <4>1 DEF Semaphore
    <3> QED BY <2>1, <2>4, <2>5, <2>10, <3>1, TestGrants
  <2>13. MayEat(marked.state, left) => Waits(philosopher', left)
    <3> SUFFICES ASSUME MayEat(marked.state, left)
                 PROVE  Waits(philosopher', left)
      OBVIOUS
    <3>1. hungry_lock'[left].value > hungry_lock[left].value
      BY <2>5, <2>9, <2>11, <2>12
    <3>2. Hungers(philosopher', left)
      BY <2>2, <2>5 DEF MayEat, Forks
    <3> QED BY <2>5, <2>8, <3>1, <3>2
  <2>14. Forks(once.state, once.lock, philosopher', count)
    BY <1>1, <2>2, <2>3, <2>5, <2>7, <2>13, TestKeepsForks DEF once
  <2>15. MayEat(once.state, right) => Waits(philosopher', right)
    <3> SUFFICES ASSUME MayEat(once.state, right)
                 PROVE  Waits(philosopher', right)
      OBVIOUS
    <3>1. hungry_lock'[right].value > hungry_lock[right].value
      BY <2>5, <2>9, <2>11, <2>12
    <3>2. Hungers(philosopher', right)
      BY <2>5, <2>14 DEF MayEat, Forks
    <3> QED BY <2>5, <2>8, <3>1, <3>2
  <2>16. Forks(test(once, right).state, test(once, right).lock, philosopher', count)
    BY <1>1, <2>5, <2>7, <2>10, <2>14, <2>15, TestKeepsForks
  <2> QED BY <2>1, <2>4, <2>16
<1> QED BY <1>7, <1>8, <1>9, <1>10, <1>13, <1>14 DEF phylo_proc, id

\* A philosopher that joins neither waits nor eats, and has not asked yet.
LEMMA ExecAtTable ==
  ASSUME philosopher \in Seq(Phil), NEW id \in Seat, Exec(id)
  PROVE  \A i \in Seat :
           /\ Waits(philosopher', i) <=> Waits(philosopher, i)
           /\ Dines(philosopher', i) <=> Dines(philosopher, i)
           /\ Hungers(philosopher, i) => Hungers(philosopher', i)
<1>1. /\ Len(philosopher') = Len(philosopher) + 1
      /\ \A q \in Philosophers : philosopher'[q] = philosopher[q]
      /\ philosopher'[Len(philosopher) + 1].pc = "hungry"
  BY ExecMeans
<1>2. Len(philosopher) \in Nat
  OBVIOUS
<1> TAKE i \in Seat
<1> DEFINE q == i + 1
<1>3. q \in Nat /\ q > 0
  BY DEF Seat
<1> HIDE DEF q
<1>4. CASE q <= Len(philosopher)
  <2>1. q \in 1 .. Len(philosopher) /\ q \in 1 .. Len(philosopher) + 1
    BY <1>2, <1>3, <1>4
  <2> QED BY <1>1, <2>1 DEF Waits, Dines, Hungers, Philosophers, q
<1>5. CASE ~ q <= Len(philosopher)
  <2>1. q \notin 1 .. Len(philosopher)
    BY <1>2, <1>3, <1>5
  <2>2. q \in 1 .. Len(philosopher') => q = Len(philosopher) + 1
    BY <1>1, <1>2, <1>3, <1>5
  <2> QED BY <1>1, <2>1, <2>2 DEF Waits, Dines, Hungers, q
<1> QED BY <1>4, <1>5

\* A seat more at the table, the one that was just taken.
LEMMA SeatAdded ==
  ASSUME TInv, Seated, ~ someLeft, main # "start", count < MAX,
         Forks(state, hungry_lock, philosopher, count), Exec(count)
  PROVE  Forks([state EXCEPT ![count] = "THINKING"], hungry_lock, philosopher', count + 1)
<1>1. /\ philosopher \in Seq(Phil) /\ state \in [Seat -> State]
      /\ hungry_lock \in [Seat -> Semaphore]
  BY DEF TInv, TypeOK, Phil, Place
<1>2. count \in Nat /\ count \in Seat /\ count > 0
  BY SeatsAssumption DEF TInv, TypeOK, Seat
<1>3. \A i \in Seat :
        /\ Waits(philosopher', i) <=> Waits(philosopher, i)
        /\ Dines(philosopher', i) <=> Dines(philosopher, i)
        /\ Hungers(philosopher, i) => Hungers(philosopher', i)
  BY <1>1, <1>2, ExecAtTable
<1>4. ~ Waits(philosopher, count) /\ ~ Dines(philosopher, count)
  <2>1. Len(philosopher) = count
    BY DEF Seated
  <2> QED BY <1>2, <2>1 DEF Waits, Dines
<1>5. ~ hungry_lock[count].value > 0
  BY <1>2, <1>4 DEF Forks
<1> DEFINE st == [state EXCEPT ![count] = "THINKING"]
<1>6. st[count] = "THINKING" /\ \A i \in Seat : i # count => st[i] = state[i]
  BY <1>1, <1>2
<1> HIDE DEF st
<1>7. \A i \in Seat : HasForks(hungry_lock, philosopher', i) =>
                      i # count /\ HasForks(hungry_lock, philosopher, i)
  BY <1>3, <1>4, <1>5 DEF HasForks
<1>8. \A i, j \in Seat :
        /\ i < count + 1 /\ i # count => i < count
        /\ i < count /\ j < count /\ Beside(count + 1, i, j) => Beside(count, i, j)
  BY <1>2 DEF Seat, Beside
<1>9. \A i \in Seat : st[i] = "HUNGRY" => Hungers(philosopher', i)
  BY <1>3, <1>6 DEF Forks
<1>10. \A i \in Seat : hungry_lock[i].value > 0 =>
         hungry_lock[i].value = 1 /\ st[i] = "EATING" /\ Waits(philosopher', i)
  BY <1>3, <1>5, <1>6 DEF Forks
<1>11. \A i \in Seat : Dines(philosopher', i) => st[i] = "EATING"
  BY <1>3, <1>4, <1>6 DEF Forks
<1>12. ASSUME NEW i \in Seat, NEW j \in Seat, i < count + 1, j < count + 1, i # j,
              HasForks(hungry_lock, philosopher', i), HasForks(hungry_lock, philosopher', j)
       PROVE  ~ Beside(count + 1, i, j)
  <2>1. i < count /\ j < count
    BY <1>7, <1>8, <1>12
  <2>2. ~ Beside(count, i, j)
    BY <1>7, <1>12, <2>1 DEF Forks
  <2> QED BY <1>8, <2>1, <2>2
<1>13. Forks(st, hungry_lock, philosopher', count + 1)
  BY <1>9, <1>10, <1>11, <1>12 DEF Forks
<1> QED BY <1>13 DEF st

\* So do those of phylo, until it removes somebody.
LEMMA TableMain ==
  ASSUME TInv, Seated, FInv, phylo
  PROVE  Seated' /\ FInv'
<1>1. /\ philosopher \in Seq(Phil) /\ count \in MIN .. MAX /\ Len(philosopher) \in Nat
      /\ someLeft \in BOOLEAN
  BY DEF TInv, TypeOK, Phil, Place
<1>2. count \in Nat
  BY <1>1, SeatsAssumption
<1>3. ASSUME UNCHANGED <<count, state, hungry_lock, philosopher, history>>, main # "start"
      PROVE  Seated' /\ FInv'
  BY <1>3 DEF Seated, FInv, Philosophers, history
<1>4. CASE Start
  <2>1. CASE Len(philosopher) < count
    <3>1. Len(philosopher) \in Seat
      BY <1>1, <2>1, SeatsAssumption DEF Seat
    <3>2. /\ Exec(Len(philosopher)) /\ main = "start" /\ main' = main
          /\ UNCHANGED <<count, state, hungry_lock, history>>
      BY <1>4, <2>1 DEF Start
    <3>3. /\ Len(philosopher') = Len(philosopher) + 1
          /\ \A q \in Philosophers : philosopher'[q] = philosopher[q]
          /\ philosopher'[Len(philosopher) + 1].id = Len(philosopher)
      BY <1>1, <3>1, <3>2, ExecMeans
    <3>4. \A q \in Philosophers' : q \in Philosophers \/ q = Len(philosopher) + 1
      BY <1>1, <3>3 DEF Philosophers
    <3>5. Seated'
      <4>1. ASSUME ~ someLeft
            PROVE  \A q \in Philosophers' : philosopher'[q].id = q - 1
        <5>1. (Len(philosopher) + 1) - 1 = Len(philosopher)
          BY <1>1
        <5> QED BY <3>3, <3>4, <4>1, <5>1 DEF Seated
      <4>2. Len(philosopher') <= count'
        BY <1>1, <1>2, <2>1, <3>2, <3>3
      <4> QED BY <3>2, <4>1, <4>2 DEF Seated, history
    <3>6. FInv'
      <4>1. ASSUME ~ someLeft, ~ unasked
            PROVE  Forks(state, hungry_lock, philosopher', count)
        BY <1>1, <3>1, <3>2, <4>1, ExecAtTable, ForksQuiet DEF FInv
      <4> QED BY <3>2, <4>1 DEF FInv, history
    <3> QED BY <3>5, <3>6
  <2>2. CASE ~ Len(philosopher) < count
    <3>1. UNCHANGED <<count, state, hungry_lock, philosopher, history>> /\ main = "start"
      BY <1>4, <2>2 DEF Start
    <3>2. ~ someLeft => Len(philosopher) = count
      BY <1>1, <1>2, <2>2 DEF Seated
    <3> QED BY <3>1, <3>2 DEF Seated, FInv, Philosophers, history
  <2> QED BY <2>1, <2>2
<1>5. CASE Key \/ WaitToRemove \/ ReleaseRemoved \/ Show
  <2>1. main # "start" /\ UNCHANGED <<count, state, hungry_lock, philosopher, history>>
    BY <1>5 DEF Key, WaitToRemove, ReleaseRemoved, Show
  <2> QED BY <1>3, <2>1
<1>6. CASE MainWaitMutex("add", "adding") \/ MainWaitMutex("removing", "removed")
           \/ MainWaitMutex("show", "shown")
  <2>1. main # "start" /\ UNCHANGED <<count, state, hungry_lock, philosopher, history>>
    BY <1>6 DEF MainWaitMutex
  <2> QED BY <1>3, <2>1
<1>7. CASE addPhylo
  <2>1. /\ main = "adding" /\ Exec(count) /\ count' = count + 1
        /\ state' = [state EXCEPT ![count] = "THINKING"]
        /\ UNCHANGED <<hungry_lock, history>>
    BY <1>7 DEF addPhylo
  <2>2. count < MAX /\ count \in Seat
    BY <1>2, <2>1, SeatsAssumption DEF TInv, Phases, Seat
  <2>3. /\ Len(philosopher') = Len(philosopher) + 1
        /\ \A q \in Philosophers : philosopher'[q] = philosopher[q]
        /\ philosopher'[Len(philosopher) + 1].id = count
    BY <1>1, <2>1, <2>2, ExecMeans
  <2>4. \A q \in Philosophers' : q \in Philosophers \/ q = Len(philosopher) + 1
    BY <1>1, <2>3 DEF Philosophers
  <2>5. Seated'
    <3>1. ASSUME ~ someLeft
          PROVE  /\ \A q \in Philosophers' : philosopher'[q].id = q - 1
                 /\ Len(philosopher') = count'
      <4>1. Len(philosopher) = count
        BY <2>1, <3>1 DEF Seated
      <4>2. (Len(philosopher) + 1) - 1 = count
        BY <1>1, <4>1
      <4> QED BY <2>1, <2>3, <2>4, <3>1, <4>1, <4>2 DEF Seated
    <3>2. count' <= count'
      BY <1>2, <2>1
    <3> QED BY <2>1, <3>1, <3>2 DEF Seated, history
  <2>6. FInv'
    BY <2>1, <2>2, SeatAdded DEF FInv, history
  <2> QED BY <2>5, <2>6
<1>8. CASE removePhylo
  BY <1>8 DEF removePhylo, Seated, FInv
<1> QED BY <1>4, <1>5, <1>6, <1>7, <1>8 DEF phylo

TableInv == TInv /\ Seated /\ FInv

\* Every step keeps the table right.
LEMMA TableKept ==
  ASSUME TableInv, [Next]_vars
  PROVE  TableInv'
<1>1. CASE Next
  BY <1>1, TypesKept, SeatedProc, ForksProc, TableMain DEF TableInv, Next, Philosophers
<1>2. CASE UNCHANGED vars
  BY <1>2, TypesKept DEF TableInv, vars, Seated, FInv, Philosophers, history
<1> QED BY <1>1, <1>2

\* At first nobody is there who might have asked.
LEMMA TableAtFirst ==
  ASSUME Init
  PROVE  TableInv
<1>1. Philosophers = {} /\ Len(philosopher) = 0 /\ main = "start"
  BY DEF Init, Philosophers
<1>2. \A id \in Seat : hungry_lock[id].value = 0
  BY DEF Init, Opened
<1>3. \A id \in Seat : /\ ~ Waits(philosopher, id) /\ ~ Dines(philosopher, id)
                        /\ Hungers(philosopher, id)
  BY <1>1 DEF Waits, Dines, Hungers
<1>4. Forks(state, hungry_lock, philosopher, count)
  BY <1>2, <1>3 DEF Forks, HasForks
<1>5. Seated
  BY <1>1, SeatsAssumption DEF Init, Seated
<1> QED BY <1>4, <1>5, TypesAtFirst DEF TableInv, FInv

\* That is what NeighboursEatApart says.
LEMMA TableSuffices ==
  ASSUME TableInv
  PROVE  NeighboursEatApart
<1>1. /\ philosopher \in Seq(Phil) /\ count \in MIN .. MAX
      /\ \A id \in Seat : hungry_lock[id].value \in Nat
  BY DEF TableInv, TInv, TypeOK, Phil, Place, Semaphore
<1> SUFFICES ASSUME ~ someLeft, ~ unasked
             PROVE  NoNeighboursEat /\ GrantIsPending
  BY DEF NeighboursEatApart
<1>2. Forks(state, hungry_lock, philosopher, count)
  BY DEF TableInv, FInv
<1>3. ASSUME NEW p \in Philosophers
      PROVE  /\ philosopher[p].id = p - 1 /\ p - 1 \in Seat /\ p - 1 < count
             /\ Eats(p) => Dines(philosopher, p - 1)
  <2>1. Len(philosopher) <= count /\ philosopher[p].id = p - 1
    BY DEF TableInv, Seated
  <2>2. p \in Nat /\ p > 0 /\ p <= Len(philosopher) /\ Len(philosopher) \in Nat
        /\ (p - 1) + 1 = p /\ p \in 1 .. Len(philosopher)
    BY <1>1 DEF Philosophers
  <2>3. count \in Nat /\ count <= MAX
    BY <1>1, SeatsAssumption
  <2>4. p - 1 \in Seat /\ p - 1 < count
    BY <2>1, <2>2, <2>3, SeatsAssumption DEF Seat
  <2> QED BY <2>1, <2>2, <2>4 DEF Eats, Dines
<1>4. NoNeighboursEat
  <2> SUFFICES ASSUME NEW p \in Philosophers, NEW q \in Philosophers, p # q, Eats(p), Eats(q)
               PROVE  ~ Neighbours(philosopher[p].id, philosopher[q].id)
    BY DEF NoNeighboursEat
  <2>1. p - 1 # q - 1
    BY DEF Philosophers
  <2>2. ~ Beside(count, p - 1, q - 1)
    BY <1>2, <1>3, <2>1 DEF Forks, HasForks
  <2> QED BY <1>1, <1>3, <2>2, BesideIsNeighbour DEF Neighbours
<1>5. GrantIsPending
  <2> SUFFICES ASSUME NEW id \in Seat, hungry_lock[id].value > 0
               PROVE  /\ hungry_lock[id].value = 1 /\ state[id] = "EATING"
                      /\ \E p \in Philosophers :
                           philosopher[p].id = id /\ philosopher[p].pc \in {"granted", "stuck"}
    BY DEF GrantIsPending
  <2>1. hungry_lock[id].value = 1 /\ state[id] = "EATING" /\ Waits(philosopher, id)
    BY <1>2 DEF Forks
  <2>2. id + 1 \in Philosophers /\ (id + 1) - 1 = id
    BY <2>1 DEF Waits, Philosophers, Seat
  <2> QED BY <1>3, <2>1, <2>2 DEF Waits
<1> QED BY <1>4, <1>5

\* Whatever the states hold at first, until forks are granted to a philosopher that has
\* not asked, or somebody leaves, neighbours never eat at a time, and forks are granted
\* once and to one who asked, with any number of seats and however many join.
THEOREM EatApart == Spec => []NeighboursEatApart
<1>1. Init => TableInv
  BY TableAtFirst
<1>2. TableInv /\ [Next]_vars => TableInv'
  BY TableKept
<1>3. TableInv => NeighboursEatApart
  BY TableSuffices
<1> QED BY <1>1, <1>2, <1>3, PTL DEF Spec

-----------------------------------------------------------------------------
(* Who leaves.                                                              *)

Distinct == \A p, q \in Philosophers : p # q => philosopher[p].id # philosopher[q].id

Leaves == {"thinking", "staying", "asking", "gone", "stuck"}

\* The philosopher of a seat is about to wait for its think_unlock, or stands still.
Pauses(id) ==
  \E p \in Philosophers : philosopher[p].id = id /\ philosopher[p].pc \in {"thinking", "stuck"}

\* A think_unlock has a value while the philosopher it belongs to pauses; phylo, once
\* it has taken it, holds the philosopher there.
Fed ==
  /\ \A id \in Seat : think_unlock[id].value > 0 => think_unlock[id].value = 1 /\ Pauses(id)
  /\ main \in {"removing", "removed"} => think_unlock[count - 1].value = 0 /\ Pauses(count - 1)
  /\ main = "release" => think_unlock[count].value = 0 /\ Pauses(count)
  /\ \A p \in Philosophers :
       state[philosopher[p].id] = "LEAVING" => philosopher[p].pc \in Leaves

LInv ==
  /\ ~ someLeft => \A id \in Seat : state[id] # "LEAVING"
  /\ main = "start" => ~ someLeft
  /\ Distinct => Fed

\* Nobody but phylo tells a philosopher to leave.
LEMMA ForksTellNobody ==
  ASSUME TypeOK, NEW id \in Seat
  PROVE  \A i \in Seat :
           /\ TakeForks(id).state[i] = "LEAVING" => state[i] = "LEAVING"
           /\ PutForks(id).state[i] = "LEAVING" => state[i] = "LEAVING"
<1>1. ASSUME NEW s \in State, s # "LEAVING"
      PROVE  /\ Marked(id, s).state \in [Seat -> State]
             /\ Marked(id, s).lock \in [Seat -> Semaphore]
             /\ \A i \in Seat : Marked(id, s).state[i] = "LEAVING" => state[i] = "LEAVING"
  BY <1>1 DEF Marked, TypeOK
<1>2. ASSUME NEW shared, shared.state \in [Seat -> State], shared.lock \in [Seat -> Semaphore],
             NEW j \in Seat
      PROVE  \A i \in Seat : test(shared, j).state[i] = "LEAVING" => shared.state[i] = "LEAVING"
  <2>1. CASE MayEat(shared.state, j)
    <3> DEFINE st == test(shared, j).state
    <3>1. st = [shared.state EXCEPT ![j] = "EATING"]
      BY <1>2, <2>1, TestMeans
    <3> HIDE DEF st
    <3>2. \A i \in Seat : st[i] = "LEAVING" => shared.state[i] = "LEAVING"
      BY <1>2, <3>1
    <3> QED BY <3>2 DEF st
  <2>2. CASE ~ MayEat(shared.state, j)
    <3>1. test(shared, j) = shared
      BY <1>2, <2>2, TestMeans
    <3> QED BY <3>1
  <2> QED BY <2>1, <2>2
<1>3. LEFT(id) \in Seat /\ RIGHT(id) \in Seat
  BY NeighbourSeats DEF TypeOK
<1>4. \A i \in Seat : TakeForks(id).state[i] = "LEAVING" => state[i] = "LEAVING"
  <2> DEFINE marked == Marked(id, "HUNGRY")
  <2>1. /\ marked.state \in [Seat -> State] /\ marked.lock \in [Seat -> Semaphore]
        /\ \A i \in Seat : marked.state[i] = "LEAVING" => state[i] = "LEAVING"
    BY <1>1 DEF State
  <2> HIDE DEF marked
  <2>2. \A i \in Seat : test(marked, id).state[i] = "LEAVING" => marked.state[i] = "LEAVING"
    BY <1>2, <2>1
  <2> QED BY <2>1, <2>2 DEF TakeForks, marked
<1>5. \A i \in Seat : PutForks(id).state[i] = "LEAVING" => state[i] = "LEAVING"
  <2> DEFINE marked == Marked(id, "THINKING")
             left == LEFT(id)
             right == RIGHT(id)
             once == test(marked, left)
  <2>1. /\ marked.state \in [Seat -> State] /\ marked.lock \in [Seat -> Semaphore]
        /\ \A i \in Seat : marked.state[i] = "LEAVING" => state[i] = "LEAVING"
    BY <1>1 DEF State
  <2>2. left \in Seat /\ right \in Seat
    BY <1>3
  <2> HIDE DEF marked, left, right
  <2>3. /\ once.state \in [Seat -> State] /\ once.lock \in [Seat -> Semaphore]
    BY <2>1, <2>2, TestMeans
  <2>4. \A i \in Seat : once.state[i] = "LEAVING" => marked.state[i] = "LEAVING"
    BY <1>2, <2>1, <2>2
  <2> HIDE DEF once
  <2>5. \A i \in Seat : test(once, right).state[i] = "LEAVING" => once.state[i] = "LEAVING"
    BY <1>2, <2>2, <2>3
  <2>6. PutForks(id) = test(once, right)
    BY DEF PutForks, once, marked, left, right
  <2> QED BY <2>1, <2>4, <2>5, <2>6
<1> QED BY <1>4, <1>5

\* A philosopher takes back what it has posted or stays where it is.
LEMMA FedProc ==
  ASSUME TInv, LInv, NEW p \in Philosophers, phylo_proc(p)
  PROVE  LInv'
<1>1. /\ philosopher \in Seq(Phil) /\ state \in [Seat -> State] /\ mutex \in Semaphore
      /\ think_unlock \in [Seat -> Semaphore] /\ TypeOK /\ count \in Nat
  BY SeatsAssumption DEF TInv, TypeOK, Phil, Place
<1>2. \A q \in Philosophers : philosopher[q].id \in Seat
  <2>1. \A q \in Philosophers : philosopher[q] \in Phil
    BY <1>1 DEF Philosophers
  <2> QED BY <2>1 DEF Phil
<1>3. main \in {"removing", "removed"} => count - 1 \in Seat
  BY <1>1, SeatsAssumption DEF TInv, TypeOK, Phases, Seat
<1>4. main = "release" => count \in Seat
  BY <1>1, SeatsAssumption DEF TInv, Phases, Seat
<1>5. PICK id \in Seat : id = philosopher[p].id
  BY <1>2
<1>6. UNCHANGED <<count, main, someLeft>>
  BY DEF phylo_proc, WaitMutex, Update, WaitHungry, PostThink, WaitThink, history
<1>7. \A i \in Seat : state'[i] = "LEAVING" => state[i] = "LEAVING"
  BY <1>1, <1>2, ForksTellNobody
     DEF phylo_proc, WaitMutex, Update, WaitHungry, PostThink, WaitThink, Unchanged
<1>8. PICK place \in Place : Goes(p, place)
  BY DEF phylo_proc, WaitMutex, Update, WaitHungry, PostThink, WaitThink, After, Place
<1>9. /\ Philosophers' = Philosophers /\ philosopher'[p].pc = place /\ Distinct' = Distinct
      /\ \A q \in Philosophers : philosopher'[q].id = philosopher[q].id
      /\ \A q \in Philosophers : q # p => philosopher'[q] = philosopher[q]
  BY <1>1, <1>8, GoesMeans DEF Philosophers, Distinct
<1> SUFFICES ASSUME Distinct
             PROVE  Fed'
  BY <1>6, <1>7, <1>9 DEF LInv
<1>10. Fed
  BY DEF LInv
<1>11. \A i \in Seat : i # id /\ Pauses(i) => Pauses(i)'
  BY <1>9, <1>5 DEF Pauses
<1>12. ~ (philosopher[p].pc \in {"thinking", "stuck"}) => ~ Pauses(id)
  BY <1>5 DEF Pauses, Distinct
<1>13. place \in {"thinking", "stuck"} => Pauses(id)'
  BY <1>9, <1>5 DEF Pauses
\* The places that have nothing to do with think_unlock.
<1>14. ASSUME think_unlock' = think_unlock,
              philosopher[p].pc \in {"thinking", "stuck"} => place \in {"thinking", "stuck"},
              philosopher[p].pc \in Leaves /\ state'[id] = "LEAVING" => place \in Leaves
       PROVE  Fed'
  <2>1. \A i \in Seat : Pauses(i) => Pauses(i)'
    BY <1>11, <1>12, <1>13, <1>14
  <2>2. main \in {"removing", "removed"} => count - 1 \in Seat
    BY <1>3, <1>4
  <2>3. main = "release" => count \in Seat
    BY <1>3, <1>4
  <2>4. \A q \in Philosophers' : state'[philosopher'[q].id] = "LEAVING" => philosopher'[q].pc \in Leaves
    BY <1>2, <1>7, <1>9, <1>10, <1>14, <1>5 DEF Fed
  <2>5. \A i \in Seat : think_unlock'[i].value > 0 => think_unlock'[i].value = 1 /\ Pauses(i)'
    BY <1>10, <1>14, <2>1 DEF Fed
  <2> QED BY <1>6, <1>10, <1>14, <2>1, <2>2, <2>3, <2>4, <2>5 DEF Fed
<1>15. CASE PostThink(p)
  <2>1. /\ philosopher[p].pc = "fed" /\ Goes(p, "thinking") /\ state' = state
        /\ think_unlock' = [think_unlock EXCEPT ![id] = Posted(@)]
    BY <1>15, <1>5 DEF PostThink
  <2>2. philosopher'[p].pc = "thinking"
    BY <1>1, <2>1, GoesMeans DEF Place
  <2>3. ~ Pauses(id) /\ Pauses(id)'
    BY <1>9, <1>12, <1>13, <2>1, <2>2
  <2>4. think_unlock[id].value = 0
    <3>1. think_unlock[id].value \in Nat
      BY <1>1, <1>2 DEF Semaphore
    <3> QED BY <1>2, <1>10, <2>3, <3>1 DEF Fed
  <2>5. think_unlock'[id].value = 1 /\ \A i \in Seat : i # id => think_unlock'[i] = think_unlock[i]
    <3>1. Posted(think_unlock[id]).value = 1
      BY <1>1, <1>2, <2>4, SemaphoreMeans
    <3> QED BY <1>1, <1>2, <2>1, <3>1
  <2>6. main \in {"removing", "removed"} => count - 1 \in Seat /\ count - 1 # id
    BY <1>10, <1>3, <1>4, <2>3 DEF Fed
  <2>7. main = "release" => count \in Seat /\ count # id
    BY <1>10, <1>3, <1>4, <2>3 DEF Fed
  <2>8. \A q \in Philosophers' : state'[philosopher'[q].id] = "LEAVING" => philosopher'[q].pc \in Leaves
    BY <1>9, <1>10, <2>1, <2>2 DEF Fed, Leaves
  <2>9. \A i \in Seat : think_unlock'[i].value > 0 => think_unlock'[i].value = 1 /\ Pauses(i)'
    BY <1>10, <1>11, <2>3, <2>5 DEF Fed
  <2> QED BY <1>6, <1>10, <1>11, <2>5, <2>6, <2>7, <2>8, <2>9 DEF Fed
<1>16. CASE WaitThink(p)
  <2>1. /\ philosopher[p].pc = "thinking" /\ Goes(p, After(think_unlock[id], "staying"))
        /\ state' = state
        /\ think_unlock' = [think_unlock EXCEPT ![id] = Waited(@)]
    BY <1>16, <1>5 DEF WaitThink
  <2>2. \A q \in Philosophers' : state'[philosopher'[q].id] = "LEAVING" => philosopher'[q].pc \in Leaves
    <3>1. philosopher'[p].pc \in Leaves
      <4>1. After(think_unlock[id], "staying") \in {"staying", "stuck"}
        BY DEF After
      <4>2. After(think_unlock[id], "staying") \in Place
        BY <4>1 DEF Place
      <4>3. philosopher'[p].pc = After(think_unlock[id], "staying")
        BY <1>1, <2>1, <4>2, GoesMeans
      <4> QED BY <4>1, <4>3 DEF Leaves
    <3> QED BY <1>9, <1>10, <2>1, <3>1 DEF Fed
  <2>3. CASE Free(think_unlock[id])
    <3>1. think_unlock[id].value = 1
      <4>1. think_unlock[id].value > 0
        BY <1>1, <1>2, <2>3, SemaphoreMeans
      <4> QED BY <1>2, <1>10, <4>1 DEF Fed
    <3>2. think_unlock'[id].value = 0 /\ \A i \in Seat : i # id => think_unlock'[i] = think_unlock[i]
      <4>1. Waited(think_unlock[id]).value = 0
        BY <1>1, <1>2, <2>3, <3>1, SemaphoreMeans
      <4> QED BY <1>1, <1>2, <2>1, <4>1
    <3>3. main \in {"removing", "removed"} => count - 1 \in Seat /\ count - 1 # id
      BY <1>10, <1>3, <1>4, <3>1 DEF Fed
    <3>4. main = "release" => count \in Seat /\ count # id
      BY <1>10, <1>3, <1>4, <3>1 DEF Fed
    <3>5. \A i \in Seat : think_unlock'[i].value > 0 => think_unlock'[i].value = 1 /\ Pauses(i)'
      BY <1>10, <1>11, <3>2 DEF Fed
    <3> QED BY <1>6, <1>10, <1>11, <2>2, <3>2, <3>3, <3>4, <3>5 DEF Fed
  <2>4. CASE ~ Free(think_unlock[id])
    <3>1. philosopher'[p].pc = "stuck"
      <4>1. After(think_unlock[id], "staying") = "stuck" /\ "stuck" \in Place
        BY <1>1, <1>2, <2>4, AfterMeans DEF Place
      <4> QED BY <1>1, <2>1, <4>1, GoesMeans
    <3>2. \A i \in Seat : Pauses(i) => Pauses(i)'
      BY <1>9, <1>11, <1>13, <3>1
    <3>3. \A i \in Seat : think_unlock'[i].value = think_unlock[i].value
      <4>1. Waited(think_unlock[id]).value = think_unlock[id].value
        BY <1>1, <1>2, <2>4, SemaphoreMeans
      <4> QED BY <1>1, <1>2, <2>1, <4>1
    <3>4. main \in {"removing", "removed"} => count - 1 \in Seat
      BY <1>3, <1>4
    <3>5. main = "release" => count \in Seat
      BY <1>3, <1>4
    <3>6. \A i \in Seat : think_unlock'[i].value > 0 => think_unlock'[i].value = 1 /\ Pauses(i)'
      BY <1>10, <3>2, <3>3 DEF Fed
    <3> QED BY <1>6, <1>10, <2>2, <3>2, <3>3, <3>4, <3>5, <3>6 DEF Fed
  <2> QED BY <2>3, <2>4
<1>17. CASE \/ WaitMutex(p, "hungry", "taking") \/ WaitMutex(p, "eating", "putting")
            \/ Update(p, "taking", TakeForks(id), "granted")
            \/ Update(p, "putting", PutForks(id), "fed")
            \/ WaitHungry(p)
  <2>1. /\ philosopher[p].pc \in {"hungry", "eating", "taking", "putting", "granted"}
        /\ think_unlock' = think_unlock
    BY <1>17 DEF WaitMutex, Update, WaitHungry
  <2> QED BY <1>14, <2>1 DEF Leaves
<1>18. CASE WaitMutex(p, "staying", "asking")
  <2>1. /\ philosopher[p].pc = "staying" /\ think_unlock' = think_unlock
        /\ Goes(p, After(mutex, "asking"))
    BY <1>18 DEF WaitMutex
  <2>2. After(mutex, "asking") \in {"asking", "stuck"}
    BY DEF After
  <2>3. place \in {"asking", "stuck"}
    BY <1>1, <1>9, <2>1, <2>2, GoesMeans DEF Place
  <2> QED BY <1>14, <2>1, <2>3 DEF Leaves
<1>19. CASE Update(p, "asking", Unchanged, IF state[id] = "LEAVING" THEN "gone" ELSE "hungry")
  <2>1. /\ philosopher[p].pc = "asking" /\ think_unlock' = think_unlock /\ state' = state
        /\ Goes(p, IF state[id] = "LEAVING" THEN "gone" ELSE "hungry")
    BY <1>19 DEF Update, Unchanged
  <2>2. state'[id] = "LEAVING" => place = "gone"
    BY <1>1, <1>9, <2>1, GoesMeans DEF Place
  <2> QED BY <1>14, <2>1, <2>2 DEF Leaves
<1> QED BY <1>15, <1>16, <1>17, <1>18, <1>19, <1>5 DEF phylo_proc

\* Who joins takes no seat from anybody as long as seats are distinct.
LEMMA ExecPauses ==
  ASSUME philosopher \in Seq(Phil), NEW id \in Seat, Exec(id)
  PROVE  /\ Distinct' => Distinct
         /\ \A i \in Seat : Pauses(i) => Pauses(i)'
         /\ \A q \in Philosophers' :
              \/ q \in Philosophers /\ philosopher'[q] = philosopher[q]
              \/ philosopher'[q].id = id
<1>1. /\ Len(philosopher') = Len(philosopher) + 1
      /\ \A q \in Philosophers : philosopher'[q] = philosopher[q]
      /\ philosopher'[Len(philosopher) + 1].id = id
  BY ExecMeans
<1>2. Len(philosopher) \in Nat
  OBVIOUS
<1>3. /\ \A q \in Philosophers : q \in Philosophers'
      /\ \A q \in Philosophers' : q \in Philosophers \/ q = Len(philosopher) + 1
  BY <1>1, <1>2 DEF Philosophers
<1>4. Distinct' => Distinct
  BY <1>1, <1>3 DEF Distinct
<1>5. \A i \in Seat : Pauses(i) => Pauses(i)'
  BY <1>1, <1>3 DEF Pauses
<1>6. \A q \in Philosophers' :
        \/ q \in Philosophers /\ philosopher'[q] = philosopher[q]
        \/ philosopher'[q].id = id
  BY <1>1, <1>3
<1> QED BY <1>4, <1>5, <1>6

\* phylo tells a philosopher to leave while it pauses.
LEMMA FedMain ==
  ASSUME TInv, LInv, phylo
  PROVE  LInv'
<1>1. /\ philosopher \in Seq(Phil) /\ state \in [Seat -> State]
      /\ think_unlock \in [Seat -> Semaphore] /\ count \in MIN .. MAX /\ count \in Nat
      /\ Len(philosopher) \in Nat
  BY SeatsAssumption DEF TInv, TypeOK, Phil, Place
<1>2. main \in {"remove", "removing", "removed"} => count - 1 \in Seat
  BY <1>1, SeatsAssumption DEF TInv, Phases, Seat
<1>3. main \in {"adding", "release"} => count \in Seat
  BY <1>1, SeatsAssumption DEF TInv, Phases, Seat
\* Steps that leave the philosophers and what they read alone.
<1>4. ASSUME UNCHANGED <<count, state, think_unlock, philosopher, history>>, main # "start",
             main' \notin {"start", "removing", "release"}, main' = "removed" => main = "removing"
      PROVE  LInv'
  <2>1. Philosophers' = Philosophers /\ Distinct' = Distinct /\ \A i \in Seat : Pauses(i)' = Pauses(i)
    BY <1>4 DEF Philosophers, Distinct, Pauses
  <2>2. Distinct => Fed
    BY DEF LInv
  <2>3. Distinct' => Fed'
    BY <1>2, <1>4, <2>1, <2>2 DEF Fed
  <2> QED BY <1>4, <2>3 DEF LInv, history
<1>5. CASE Start
  <2>1. CASE Len(philosopher) < count
    <3>1. Len(philosopher) \in Seat
      BY <1>1, <2>1, SeatsAssumption DEF Seat
    <3>2. /\ Exec(Len(philosopher)) /\ main = "start" /\ main' = main
          /\ UNCHANGED <<count, state, think_unlock, history>>
      BY <1>5, <2>1 DEF Start
    <3>3. \A i \in Seat : state[i] # "LEAVING"
      BY <3>2 DEF LInv
    <3>4. ASSUME Distinct'
          PROVE  Fed'
      <4>1. Fed
        BY <1>1, <3>1, <3>2, <3>4, ExecPauses DEF LInv
      <4>2. \A q \in Philosophers' : state'[philosopher'[q].id] # "LEAVING"
        <5>1. philosopher' \in Seq(Phil)
          BY <1>1, <3>1, <3>2, ExecMeans
        <5>2. \A q \in Philosophers' : philosopher'[q] \in Phil
          BY <5>1 DEF Philosophers
        <5> QED BY <3>2, <3>3, <5>2 DEF Phil
      <4> QED BY <1>1, <3>1, <3>2, <4>1, <4>2, ExecPauses DEF Fed
    <3> QED BY <3>2, <3>4 DEF LInv, history
  <2>2. CASE ~ Len(philosopher) < count
    <3>1. /\ main = "start" /\ main' = "loop"
          /\ UNCHANGED <<count, state, think_unlock, philosopher, history>>
      BY <1>5, <2>2 DEF Start
    <3>2. Philosophers' = Philosophers /\ Distinct' = Distinct /\ \A i \in Seat : Pauses(i)' = Pauses(i)
      BY <3>1 DEF Philosophers, Distinct, Pauses
    <3> QED BY <3>1, <3>2 DEF LInv, Fed
  <2> QED BY <2>1, <2>2
<1>6. CASE Key
  <2>1. main = "loop" /\ main' \in {"add", "remove", "show"}
        /\ UNCHANGED <<count, state, think_unlock, philosopher, history>>
    BY <1>6 DEF Key
  <2> QED BY <1>4, <2>1
<1>7. CASE MainWaitMutex("add", "adding") \/ MainWaitMutex("removing", "removed")
           \/ MainWaitMutex("show", "shown")
  <2>1. /\ main \in {"add", "removing", "show"} /\ main' \in {"adding", "removed", "shown", "stuck"}
        /\ main' = "removed" => main = "removing"
        /\ UNCHANGED <<count, state, think_unlock, philosopher, history>>
    BY <1>7 DEF MainWaitMutex, After
  <2> QED BY <1>4, <2>1
<1>8. CASE Show
  <2>1. main = "shown" /\ main' = "loop" /\ UNCHANGED <<count, state, think_unlock, philosopher, history>>
    BY <1>8 DEF Show
  <2> QED BY <1>4, <2>1
<1>9. CASE addPhylo
  <2>1. /\ main = "adding" /\ main' = "show" /\ Exec(count) /\ count \in Seat
        /\ state' = [state EXCEPT ![count] = "THINKING"]
        /\ UNCHANGED <<think_unlock, history>>
    BY <1>3, <1>9 DEF addPhylo
  <2>2. \A i \in Seat : state'[i] = "LEAVING" => i # count /\ state[i] = "LEAVING"
    BY <1>1, <2>1
  <2>3. ASSUME Distinct'
        PROVE  Fed'
    <3>1. Fed
      BY <1>1, <2>1, <2>3, ExecPauses DEF LInv
    <3>2. ASSUME NEW q \in Philosophers', state'[philosopher'[q].id] = "LEAVING"
          PROVE  philosopher'[q].pc \in Leaves
      <4>1. philosopher' \in Seq(Phil)
        BY <1>1, <2>1, ExecMeans
      <4>2. philosopher'[q].id \in Seat
        <5>1. philosopher'[q] \in Phil
          BY <4>1 DEF Philosophers
        <5> QED BY <5>1 DEF Phil
      <4>3. philosopher'[q].id # count /\ state[philosopher'[q].id] = "LEAVING"
        BY <2>2, <3>2, <4>2
      <4>4. q \in Philosophers /\ philosopher'[q] = philosopher[q]
        BY <1>1, <2>1, <4>3, ExecPauses
      <4> QED BY <3>1, <4>3, <4>4 DEF Fed
    <3>3. \A i \in Seat : Pauses(i) => Pauses(i)'
      BY <1>1, <2>1, ExecPauses
    <3>4. \A i \in Seat : think_unlock'[i].value > 0 => think_unlock'[i].value = 1 /\ Pauses(i)'
      BY <2>1, <3>1, <3>3 DEF Fed
    <3> QED BY <2>1, <3>2, <3>4 DEF Fed
  <2> QED BY <2>1, <2>2, <2>3 DEF LInv, history
<1>10. CASE WaitToRemove
  <2> DEFINE id == count - 1
  <2>1. /\ main = "remove" /\ main' = After(think_unlock[id], "removing")
        /\ think_unlock' = [think_unlock EXCEPT ![id] = Waited(@)]
        /\ UNCHANGED <<count, state, philosopher, history>>
    BY <1>10 DEF WaitToRemove, WaitUntilFed
  <2>2. id \in Seat
    BY <1>2, <2>1
  <2>3. Philosophers' = Philosophers /\ Distinct' = Distinct
    BY <2>1 DEF Philosophers, Distinct
  <2>4. \A i \in Seat : Pauses(i)' = Pauses(i)
    BY <2>1 DEF Philosophers, Pauses
  <2>5. main' \in {"removing", "stuck"}
    BY <2>1 DEF After
  <2>6. ASSUME Distinct
        PROVE  Fed'
    <3>1. Fed
      BY <2>6 DEF LInv
    <3>2. count' - 1 = id
      BY <2>1
    <3> HIDE DEF id
    <3>3. CASE Free(think_unlock[id])
      <4>1. think_unlock[id].value = 1 /\ Pauses(id)
        <5>1. think_unlock[id].value > 0
          BY <1>1, <2>2, <3>3, SemaphoreMeans
        <5> QED BY <2>2, <3>1, <5>1 DEF Fed
      <4>2. /\ think_unlock'[id].value = 0
            /\ \A i \in Seat : i # id => think_unlock'[i] = think_unlock[i]
        <5>1. Waited(think_unlock[id]).value = 0
          BY <1>1, <2>2, <3>3, <4>1, SemaphoreMeans
        <5> QED BY <1>1, <2>1, <2>2, <5>1
      <4>3. \A i \in Seat : think_unlock'[i].value > 0 => think_unlock'[i].value = 1 /\ Pauses(i)'
        BY <2>4, <3>1, <4>2 DEF Fed
      <4>4. PICK i \in Seat : i = id
        BY <2>2
      <4>5. Pauses(i)' /\ think_unlock'[i].value = 0 /\ count' - 1 = i
        BY <2>4, <3>2, <4>1, <4>2, <4>4
      <4>6. Pauses(count - 1)'
        BY <4>5 DEF Pauses
      <4> QED BY <2>1, <2>3, <2>5, <3>1, <4>3, <4>5, <4>6 DEF Fed
    <3>4. CASE ~ Free(think_unlock[id])
      <4>1. main' = "stuck"
        BY <1>1, <2>1, <2>2, <3>4, AfterMeans
      <4>2. \A i \in Seat : think_unlock'[i].value = think_unlock[i].value
        <5>1. Waited(think_unlock[id]).value = think_unlock[id].value
          BY <1>1, <2>2, <3>4, SemaphoreMeans
        <5> QED BY <1>1, <2>1, <2>2, <5>1
      <4>3. \A i \in Seat : think_unlock'[i].value > 0 => think_unlock'[i].value = 1 /\ Pauses(i)'
        BY <2>4, <3>1, <4>2 DEF Fed
      <4> QED BY <2>1, <2>3, <3>1, <4>1, <4>3 DEF Fed
    <3> QED BY <3>3, <3>4
  <2> QED BY <2>1, <2>3, <2>5, <2>6 DEF LInv, history
<1>11. CASE removePhylo
  <2> DEFINE id == count - 1
  <2>1. /\ main = "removed" /\ main' = "release" /\ count' = id /\ someLeft' = TRUE
        /\ state' = [state EXCEPT ![id] = "LEAVING"]
        /\ UNCHANGED <<philosopher, think_unlock>>
    BY <1>11 DEF removePhylo
  <2>2. id \in Seat
    BY <1>2, <2>1
  <2>3. Philosophers' = Philosophers /\ Distinct' = Distinct /\ \A i \in Seat : Pauses(i)' = Pauses(i)
    BY <2>1 DEF Philosophers, Distinct, Pauses
  <2>4. ASSUME Distinct
        PROVE  Fed'
    <3>1. Fed
      BY <2>4 DEF LInv
    <3>2. Pauses(id) /\ think_unlock[id].value = 0
      BY <2>1, <3>1 DEF Fed
    <3> HIDE DEF id
    <3>3. PICK i \in Seat : i = id
      BY <2>2
    <3>4. Pauses(i)' /\ think_unlock'[i].value = 0 /\ count' = i
      BY <2>1, <2>3, <3>2, <3>3
    <3>5. Pauses(count)'
      BY <3>4 DEF Pauses
    <3>6. ASSUME NEW q \in Philosophers, state'[philosopher[q].id] = "LEAVING"
          PROVE  philosopher[q].pc \in Leaves
      <4>1. CASE philosopher[q].id = id
        <5>1. PICK p \in Philosophers :
                philosopher[p].id = id /\ philosopher[p].pc \in {"thinking", "stuck"}
          BY <3>2 DEF Pauses
        <5>2. p = q
          BY <2>4, <4>1, <5>1 DEF Distinct
        <5> QED BY <5>1, <5>2 DEF Leaves
      <4>2. CASE philosopher[q].id # id
        <5>1. philosopher[q].id \in Seat
          <6>1. philosopher[q] \in Phil
            BY <1>1 DEF Philosophers
          <6> QED BY <6>1 DEF Phil
        <5>2. state[philosopher[q].id] = "LEAVING"
          BY <1>1, <2>1, <2>2, <3>6, <4>2, <5>1
        <5> QED BY <3>1, <5>2 DEF Fed
      <4> QED BY <4>1, <4>2
    <3>7. \A j \in Seat : think_unlock'[j].value > 0 => think_unlock'[j].value = 1 /\ Pauses(j)'
      BY <2>1, <2>3, <3>1 DEF Fed
    <3> QED BY <2>1, <2>3, <3>4, <3>5, <3>6, <3>7 DEF Fed
  <2> QED BY <2>1, <2>3, <2>4 DEF LInv
<1>12. CASE ReleaseRemoved
  <2>1. /\ main = "release" /\ main' = "show"
        /\ think_unlock' = [think_unlock EXCEPT ![count] = Posted(@)]
        /\ UNCHANGED <<count, state, philosopher, history>>
    BY <1>12 DEF ReleaseRemoved
  <2>2. Philosophers' = Philosophers /\ Distinct' = Distinct /\ \A i \in Seat : Pauses(i)' = Pauses(i)
    BY <2>1 DEF Philosophers, Distinct, Pauses
  <2>3. ASSUME Distinct
        PROVE  Fed'
    <3>1. Fed
      BY <2>3 DEF LInv
    <3>2. count \in Seat /\ Pauses(count) /\ think_unlock[count].value = 0
      BY <1>3, <2>1, <3>1 DEF Fed
    <3>3. /\ think_unlock'[count].value = 1
          /\ \A i \in Seat : i # count => think_unlock'[i] = think_unlock[i]
      <4>1. Posted(think_unlock[count]).value = 1
        BY <1>1, <3>2, SemaphoreMeans
      <4> QED BY <1>1, <2>1, <3>2, <4>1
    <3>4. \A i \in Seat : think_unlock'[i].value > 0 => think_unlock'[i].value = 1 /\ Pauses(i)'
      BY <2>2, <3>1, <3>2, <3>3 DEF Fed
    <3> QED BY <2>1, <2>2, <3>1, <3>4 DEF Fed
  <2> QED BY <2>1, <2>2, <2>3 DEF LInv, history
<1> QED BY <1>5, <1>6, <1>7, <1>8, <1>9, <1>10, <1>11, <1>12 DEF phylo

LeaveInv == TInv /\ LInv

\* Every step keeps who leaves fed.
LEMMA LeaveKept ==
  ASSUME LeaveInv, [Next]_vars
  PROVE  LeaveInv'
<1>1. CASE Next
  BY <1>1, TypesKept, FedProc, FedMain DEF LeaveInv, Next, Philosophers
<1>2. CASE UNCHANGED vars
  <2>1. /\ Philosophers' = Philosophers /\ Distinct' = Distinct
        /\ Pauses(count - 1)' = Pauses(count - 1) /\ Pauses(count)' = Pauses(count)
        /\ \A i \in Seat : Pauses(i)' = Pauses(i)
    BY <1>2 DEF vars, Philosophers, Distinct, Pauses
  <2> QED BY <1>2, <2>1, TypesKept DEF LeaveInv, vars, LInv, Fed, history
<1> QED BY <1>1, <1>2

\* As long as no seat has been taken again a philosopher is told to leave only after its
\* meal, and goes on to find that out: it holds no forks and does not wait for any.
THEOREM Leave == Spec => []LeavesFed
<1>1. Init => LeaveInv
  <2>1. ASSUME Init
        PROVE  LInv
    <3>1. Philosophers = {} /\ main = "start" /\ someLeft = FALSE
      BY <2>1 DEF Init, Philosophers
    <3>2. \A id \in Seat : state[id] # "LEAVING" /\ think_unlock[id].value = 0
      BY <2>1 DEF Init, Opened, Garbage
    <3> QED BY <3>1, <3>2 DEF LInv, Fed
  <2> QED BY <2>1, TypesAtFirst DEF LeaveInv
<1>2. LeaveInv /\ [Next]_vars => LeaveInv'
  BY LeaveKept
<1>3. LeaveInv => LeavesFed
  BY DEF LeaveInv, LInv, Distinct, Fed, Leaves, LeavesFed
<1> QED BY <1>1, <1>2, <1>3, PTL DEF Spec
===============================================================================
