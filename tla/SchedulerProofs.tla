--------------------------- MODULE SchedulerProofs ---------------------------
(* Proofs about Scheduler, for every number of processes, quantum, set of   *)
(* priorities and choice of system calls.                                   *)
EXTENDS Scheduler, FiniteSetTheorems, TLAPS

WellFormed(t) == TableType(t) /\ OneCycle(t) /\ OneNodeEach(t) /\ Counted(t)

-----------------------------------------------------------------------------
(* Reading the table.                                                       *)

\* A walk returns one of the nodes it looks for, or NULL.
LEMMA NearestIsTarget ==
  ASSUME NEW t, NEW from, NEW targets
  PROVE  Nearest(t, from, targets) \in targets \cup {NULL}
<1> DEFINE found == Met(t, from, targets) \cap targets
<1>1. found # {} => (CHOOSE m \in found : TRUE) \in targets
  OBVIOUS
<1> QED BY <1>1 DEF Nearest

\* findNode returns a node of the ring or NULL.
LEMMA FindNodeType ==
  ASSUME NEW t, NEW pid
  PROVE  FindNode(t, pid) \in Nodes(t) \cup {NULL}
BY NearestIsTarget DEF FindNode, Holders

\* findNext returns a node of the ring or, hanging, NULL.
LEMMA FindNextType ==
  ASSUME NEW t, NEW from
  PROVE  FindNext(t, from) \in Nodes(t) \cup {NULL}
BY NearestIsTarget DEF FindNext, Runnable

-----------------------------------------------------------------------------
(* Changes to the control blocks leave the ring alone.                      *)

\* u is t with other contents in the control blocks.
SameRing(t, u) ==
  /\ Nodes(u) = Nodes(t) /\ Procs(u) = Procs(t)
  /\ u.p = t.p /\ u.next = t.next /\ u.root = t.root
  /\ u.nodeCount = t.nodeCount /\ u.current_pid = t.current_pid

\* Replacing the control blocks by others of the right type keeps a table well formed.
LEMMA NewBlocks ==
  ASSUME NEW t, WellFormed(t), NEW proc \in [Procs(t) -> PCB]
  PROVE  LET u == [t EXCEPT !.proc = proc]
         IN  WellFormed(u) /\ SameRing(t, u) /\ u.proc = proc
<1> DEFINE u == [t EXCEPT !.proc = proc]
<1>1. SameRing(t, u) /\ u.proc = proc
  BY DEF WellFormed, TableType, Nodes, Procs, SameRing
<1>2. TableType(u)
  BY <1>1 DEF WellFormed, TableType, Nodes, Procs, SameRing
<1>3. OneCycle(u) /\ OneNodeEach(u) /\ Counted(u)
  BY <1>1 DEF WellFormed, OneCycle, OneNodeEach, Counted, SameRing
<1> QED BY <1>1, <1>2, <1>3 DEF WellFormed

\* So does giving a process another state.
LEMMA SetStateWellFormed ==
  ASSUME NEW t, WellFormed(t), NEW q \in Procs(t), NEW s \in ProcState
  PROVE  /\ WellFormed(SetState(t, q, s))
         /\ SameRing(t, SetState(t, q, s))
         /\ SetState(t, q, s).proc = [t.proc EXCEPT ![q].state = s]
<1> DEFINE proc == [t.proc EXCEPT ![q].state = s]
<1>1. proc \in [Procs(t) -> PCB]
  BY DEF WellFormed, TableType, PCB, Procs
<1>2. SetState(t, q, s) = [t EXCEPT !.proc = proc]
  BY DEF SetState, WellFormed, TableType
<1> HIDE DEF proc
<1>3. /\ WellFormed(SetState(t, q, s)) /\ SameRing(t, SetState(t, q, s))
      /\ SetState(t, q, s).proc = proc
  BY <1>1, <1>2, NewBlocks
<1> QED BY <1>3 DEF proc

\* Whether a process is about to wait does not show in its state.
LEMMA AskWaitType ==
  ASSUME NEW t, WellFormed(t), NEW q \in Procs(t), NEW waits \in BOOLEAN
  PROVE  LET proc == [t.proc EXCEPT ![q].askWait = waits]
         IN  /\ proc \in [Procs(t) -> PCB]
             /\ \A x \in Procs(t) : proc[x].state = t.proc[x].state
BY DEF WellFormed, TableType, PCB

\* The process of a node of the ring has a control block.
LEMMA BlockOfNode ==
  ASSUME NEW t, WellFormed(t), NEW n \in Nodes(t)
  PROVE  /\ t.p[n] \in Procs(t) /\ t.next[n] \in Nodes(t)
         /\ t.proc[t.p[n]] \in PCB
BY DEF WellFormed, TableType

\* processReady keeps the table well formed and marks nobody RUNNING.
LEMMA ProcessReadyWellFormed ==
  ASSUME NEW t, WellFormed(t), NEW pid
  PROVE  LET u == ProcessReady(t, pid)
         IN  /\ WellFormed(u) /\ SameRing(t, u)
             /\ \A q \in Procs(t) : u.proc[q].state \in {t.proc[q].state, "READY"}
<1> DEFINE aux == FindNode(t, pid)
<1>1. CASE aux = NULL
  BY <1>1 DEF ProcessReady, SameRing
<1>2. CASE aux # NULL
  <2>1. aux \in Nodes(t)
    BY <1>2, FindNodeType
  <2>2. t.p[aux] \in Procs(t) /\ "READY" \in ProcState
    BY <2>1, BlockOfNode DEF ProcState
  <2>3. ProcessReady(t, pid) = SetState(t, t.p[aux], "READY")
    BY <1>2 DEF ProcessReady
  <2>4. /\ WellFormed(ProcessReady(t, pid)) /\ SameRing(t, ProcessReady(t, pid))
        /\ ProcessReady(t, pid).proc = [t.proc EXCEPT ![t.p[aux]].state = "READY"]
    BY <2>2, <2>3, SetStateWellFormed
  <2>5. \A q \in Procs(t) :
          [t.proc EXCEPT ![t.p[aux]].state = "READY"][q].state \in {t.proc[q].state, "READY"}
    BY <2>2 DEF WellFormed, TableType, PCB
  <2> QED BY <2>4, <2>5
<1> QED BY <1>1, <1>2

\* changePriority keeps the table well formed and every state as it was.
LEMMA ChangePriorityWellFormed ==
  ASSUME NEW t, WellFormed(t), NEW pid, NEW priority \in Nat
  PROVE  LET u == ChangePriority(t, pid, priority)
         IN  /\ WellFormed(u) /\ SameRing(t, u)
             /\ \A q \in Procs(t) : u.proc[q].state = t.proc[q].state
<1> DEFINE aux == FindNode(t, pid)
           proc == [t.proc EXCEPT ![t.p[aux]].priority = priority]
<1>1. CASE aux = NULL
  BY <1>1 DEF ChangePriority, SameRing
<1>2. CASE aux # NULL
  <2>1. aux \in Nodes(t)
    BY <1>2, FindNodeType
  <2>2. t.p[aux] \in Procs(t)
    BY <2>1, BlockOfNode
  <2>3. /\ proc \in [Procs(t) -> PCB]
        /\ \A q \in Procs(t) : proc[q].state = t.proc[q].state
    BY <2>2, SMTT(30) DEF WellFormed, TableType, PCB
  <2>4. ChangePriority(t, pid, priority) = [t EXCEPT !.proc = proc]
    BY <1>2 DEF ChangePriority, WellFormed, TableType
  <2> HIDE DEF proc
  <2>5. /\ WellFormed(ChangePriority(t, pid, priority))
        /\ SameRing(t, ChangePriority(t, pid, priority))
        /\ ChangePriority(t, pid, priority).proc = proc
    BY <2>3, <2>4, NewBlocks
  <2> QED BY <2>3, <2>5
<1> QED BY <1>1, <1>2

\* Taking a child off a parent yields blocks of the right type and marks nobody RUNNING.
LEMMA LoseChildType ==
  ASSUME NEW t, WellFormed(t), NEW parent \in Nodes(t)
  PROVE  /\ LoseChild(t, parent) \in [Procs(t) -> PCB]
         /\ \A q \in Procs(t) : LoseChild(t, parent)[q].state \in {t.proc[q].state, "READY"}
<1> DEFINE left == (t.proc[t.p[parent]].children + ChildrenMod - 1) % ChildrenMod
<1>1. /\ t.p[parent] \in Procs(t) /\ t.proc[t.p[parent]] \in PCB
      /\ t.proc \in [Procs(t) -> PCB]
  BY BlockOfNode DEF WellFormed, TableType
<1>2. left \in 0 .. ChildrenMod - 1
  <2>1. t.proc[t.p[parent]].children \in 0 .. ChildrenMod - 1
    BY <1>1 DEF PCB
  <2> QED BY <2>1, ChildrenModAssumption
<1>3. LoseChild(t, parent) = [t.proc EXCEPT ![t.p[parent]].children = left,
                                ![t.p[parent]].state = IF left = 0 THEN "READY" ELSE @]
  BY DEF LoseChild
<1> HIDE DEF left
<1> QED BY <1>1, <1>2, <1>3 DEF PCB, ProcState

-----------------------------------------------------------------------------
(* Taking a node out of the ring and putting one in.                        *)

\* What a table is once the definitions of its four parts are unfolded.
LEMMA Parts ==
  ASSUME NEW t, WellFormed(t)
  PROVE  /\ t.next \in [Nodes(t) -> Nodes(t)] /\ t.p \in [Nodes(t) -> Procs(t)]
         /\ t.proc \in [Procs(t) -> PCB] /\ t.root \in Node
         /\ t.nodeCount \in Nat /\ t.current_pid \in Nat
         /\ Nodes(t) \subseteq Node /\ Procs(t) \subseteq Proc
         /\ IsFiniteSet(Nodes(t))
BY FS_Subset, NodeAssumption, SMTT(30) DEF WellFormed, TableType

\* Unlinking n leaves one cycle, through all nodes but the one after n.
LEMMA UnlinkWellFormed ==
  ASSUME NEW t, WellFormed(t), NEW n \in Nodes(t), NEW proc \in [Procs(t) -> PCB]
  PROVE  LET u == Unlink(t, n, proc)
         IN  /\ WellFormed(u)
             /\ Nodes(u) = Nodes(t) \ {t.next[n]} /\ Procs(u) = Procs(t) \ {t.p[n]}
             /\ \A m \in Nodes(u) \ {n} : u.p[m] = t.p[m]
             /\ \A q \in Procs(u) : u.proc[q] = proc[q]
<1> DEFINE after == t.next[n]
           kept == Nodes(t) \ {after}
           blocks == Procs(t) \ {t.p[n]}
           p == [m \in kept |-> IF m = n THEN t.p[after] ELSE t.p[m]]
           next == [m \in kept |-> IF m = n THEN t.next[after] ELSE t.next[m]]
           left == [x \in blocks |-> proc[x]]
           u == Unlink(t, n, proc)
<1>1. /\ u.p = p /\ u.next = next /\ u.proc = left
      /\ u.root = RootAfter(t, n) /\ u.nodeCount = t.nodeCount - 1
      /\ u.current_pid = t.current_pid - 1
      /\ u = [p |-> p, next |-> next, proc |-> left, root |-> RootAfter(t, n),
              nodeCount |-> t.nodeCount - 1, current_pid |-> t.current_pid - 1]
  BY DEF Unlink, ToFree, PidAfter
<1>2. Nodes(u) = kept /\ Procs(u) = blocks
  BY <1>1 DEF Nodes, Procs
<1>3. /\ after \in Nodes(t) /\ t.next \in [Nodes(t) -> Nodes(t)]
      /\ t.p \in [Nodes(t) -> Procs(t)] /\ t.root \in Node
      /\ Nodes(t) \subseteq Node /\ Procs(t) \subseteq Proc
  BY Parts
<1>4. /\ \A k, m \in Nodes(t) : t.next[k] = t.next[m] => k = m
      /\ \A k, m \in Nodes(t) : t.p[k] = t.p[m] => k = m
      /\ \A q \in Procs(t) : \E m \in Nodes(t) : t.p[m] = q
  BY DEF WellFormed, OneCycle, OneNodeEach
<1>5. next \in [kept -> kept]
  <2> SUFFICES ASSUME NEW m \in kept PROVE next[m] \in kept
    OBVIOUS
  <2>1. CASE m = n
    BY <2>1, <1>3, <1>4
  <2>2. CASE m # n
    BY <2>2, <1>3, <1>4
  <2> QED BY <2>1, <2>2
<1>6. p \in [kept -> blocks]
  <2> SUFFICES ASSUME NEW m \in kept PROVE p[m] \in blocks
    OBVIOUS
  <2>1. CASE m = n
    BY <2>1, <1>3, <1>4
  <2>2. CASE m # n
    BY <2>2, <1>3, <1>4
  <2> QED BY <2>1, <2>2
<1>7. t.nodeCount = Cardinality(Nodes(t)) /\ t.current_pid = t.nodeCount
  BY DEF WellFormed, Counted
<1>8. /\ Cardinality(kept) = t.nodeCount - 1
      /\ t.nodeCount - 1 \in Nat
  <2>1. IsFiniteSet(Nodes(t))
    BY Parts
  <2>2. /\ IsFiniteSet(kept)
        /\ Cardinality(kept) = Cardinality(Nodes(t)) - 1
    BY <2>1, <1>3, FS_RemoveElement
  <2>3. Cardinality(kept) \in Nat
    BY <2>2, FS_CardinalityType
  <2> QED BY <2>2, <2>3, <1>7
<1>9. TableType(u)
  <2>1. left \in [blocks -> PCB]
    OBVIOUS
  <2>2. RootAfter(t, n) \in Node
    BY <1>3 DEF RootAfter
  <2> HIDE DEF p, next, left
  <2> QED BY <2>1, <2>2, <1>1, <1>2, <1>3, <1>5, <1>6, <1>7, <1>8 DEF TableType
<1>10. OneCycle(u)
  <2>1. ASSUME NEW k \in kept, NEW m \in kept, next[k] = next[m] PROVE k = m
    BY <2>1, <1>3, <1>4
  <2>2. ASSUME NEW part \in SUBSET kept, part # {}, \A m \in part : next[m] \in part
        PROVE  part = kept
    <3> DEFINE whole == IF n \in part THEN part \cup {after} ELSE part
    <3>1. whole \in SUBSET Nodes(t) /\ whole # {}
      BY <2>2, <1>3
    <3>2. ASSUME NEW m \in whole PROVE t.next[m] \in whole
      <4>1. CASE m = n
        BY <4>1, <3>2, <2>2
      <4>2. CASE m # n /\ m \in part
        BY <4>2, <2>2
      <4>3. CASE m = after /\ n \in part
        <5>1. next[n] = t.next[after]
          BY <4>3
        <5> QED BY <5>1, <4>3, <2>2
      <4> QED BY <4>1, <4>2, <4>3, <3>2
    <3>3. whole = Nodes(t)
      BY <3>1, <3>2 DEF WellFormed, OneCycle
    <3> QED BY <3>3, <2>2
  <2> QED BY <2>1, <2>2, <1>1, <1>2 DEF OneCycle
<1>11. OneNodeEach(u)
  <2>1. ASSUME NEW k \in kept, NEW m \in kept, p[k] = p[m] PROVE k = m
    BY <2>1, <1>3, <1>4
  <2>2. ASSUME NEW q \in blocks PROVE \E m \in kept : p[m] = q
    <3>1. PICK m \in Nodes(t) : t.p[m] = q
      BY <1>4
    <3>2. m # n
      BY <3>1
    <3>3. CASE m = after
      <4>1. n \in kept /\ p[n] = q
        BY <3>1, <3>2, <3>3
      <4> QED BY <4>1
    <3>4. CASE m # after
      <4>1. m \in kept /\ p[m] = q
        BY <3>1, <3>2, <3>4
      <4> QED BY <4>1
    <3> QED BY <3>3, <3>4
  <2> QED BY <2>1, <2>2, <1>1, <1>2, ZenonT(60) DEF OneNodeEach
<1>12. Counted(u)
  BY <1>1, <1>2, <1>7, <1>8 DEF Counted
<1> QED BY <1>1, <1>2, <1>9, <1>10, <1>11, <1>12 DEF WellFormed

\* removeNode keeps the table well formed; a process that survives it is in
\* the state it was in, or has been made ready.  cur is needed for its parent.
LEMMA RemoveNodeWellFormed ==
  ASSUME NEW t, WellFormed(t), NEW n \in Nodes(t), NEW cur
  PROVE  LET u == RemoveNode(t, n, cur)
         IN  /\ WellFormed(u)
             /\ Nodes(u) \subseteq Nodes(t) /\ Procs(u) \subseteq Procs(t)
             /\ \A m \in Nodes(u) \ {n} : u.p[m] = t.p[m]
             /\ \A q \in Procs(u) : u.proc[q].state \in {t.proc[q].state, "READY"}
<1> DEFINE parent == FindNode(t, t.proc[t.p[cur]].parent_pid)
<1>1. CASE parent = NULL
  BY <1>1 DEF RemoveNode
<1>2. CASE parent # NULL
  <2>1. parent \in Nodes(t)
    BY <1>2, FindNodeType
  <2> DEFINE lost == LoseChild(t, parent)
  <2>2. /\ lost \in [Procs(t) -> PCB]
        /\ \A q \in Procs(t) : lost[q].state \in {t.proc[q].state, "READY"}
    BY <2>1, LoseChildType
  <2>3. RemoveNode(t, n, cur) = Unlink(t, n, lost)
    BY <1>2 DEF RemoveNode
  <2> HIDE DEF lost
  <2> QED BY <2>2, <2>3, UnlinkWellFormed
<1> QED BY <1>1, <1>2

\* The same for killProcess of another process, whose node may be any one that
\* holds the pid, but not the current node: no survivor starts to run.
LEMMA KillOtherWellFormed ==
  ASSUME NEW t, WellFormed(t), NEW pid, NEW cur \in Nodes(t),
         t.proc[t.p[cur]].pid # pid
  PROVE  LET u == KillOther(t, pid, cur)
         IN  /\ WellFormed(u)
             /\ Nodes(u) \subseteq Nodes(t) /\ Procs(u) \subseteq Procs(t)
             /\ cur \in Nodes(u) => u.p[cur] = t.p[cur]
             /\ \A q \in Procs(u) :
                  u.proc[q].state \in {t.proc[q].state, "READY", "KILLED"}
<1> DEFINE aux == FindNode(t, pid)
<1>1. CASE aux = NULL
  BY <1>1 DEF KillOther
<1>2. CASE aux # NULL
  <2>1. aux \in Nodes(t) /\ t.proc[t.p[aux]].pid = pid
    BY <1>2, NearestIsTarget DEF FindNode, Holders
  <2>2. aux # cur
    BY <2>1
  <2> DEFINE killed == SetState(t, t.p[aux], "KILLED")
  <2>3. /\ WellFormed(killed) /\ SameRing(t, killed)
        /\ killed.proc = [t.proc EXCEPT ![t.p[aux]].state = "KILLED"]
    BY <2>1, BlockOfNode, SetStateWellFormed DEF ProcState
  <2>4. \A q \in Procs(t) : killed.proc[q].state \in {t.proc[q].state, "KILLED"}
    BY <2>1, <2>3, Parts DEF PCB
  <2>5. KillOther(t, pid, cur) = RemoveNode(killed, aux, cur)
    BY <1>2 DEF KillOther
  <2>6. aux \in Nodes(killed)
    BY <2>1, <2>3 DEF SameRing
  <2>a. WellFormed(killed)
    BY <2>3
  <2> HIDE DEF killed, aux
  <2>7. /\ WellFormed(RemoveNode(killed, aux, cur))
        /\ Nodes(RemoveNode(killed, aux, cur)) \subseteq Nodes(killed)
        /\ Procs(RemoveNode(killed, aux, cur)) \subseteq Procs(killed)
        /\ \A m \in Nodes(RemoveNode(killed, aux, cur)) \ {aux} :
             RemoveNode(killed, aux, cur).p[m] = killed.p[m]
        /\ \A q \in Procs(RemoveNode(killed, aux, cur)) :
             RemoveNode(killed, aux, cur).proc[q].state \in {killed.proc[q].state, "READY"}
    BY <2>a, <2>6, RemoveNodeWellFormed
  <2>8. /\ Nodes(killed) = Nodes(t) /\ Procs(killed) = Procs(t) /\ killed.p = t.p
    BY <2>3 DEF SameRing
  <2> QED BY <2>2, <2>4, <2>5, <2>7, <2>8, SMTT(30)
<1> QED BY <1>1, <1>2

\* addProcess puts a fresh node after the current one: still one cycle.
LEMMA AddNodeWellFormed ==
  ASSUME NEW t, WellFormed(t), NEW cur \in Nodes(t),
         NEW n \in Node \ Nodes(t), NEW q \in Proc \ Procs(t),
         NEW name \in {"IDLE", "shell", "user"}, NEW priority \in Nat
  PROVE  LET u == AddNode(t, cur, n, q, name, priority)
         IN  /\ WellFormed(u)
             /\ Nodes(u) = Nodes(t) \cup {n} /\ Procs(u) = Procs(t) \cup {q}
             /\ u.p[cur] = t.p[cur]
             /\ u.root = t.root
             /\ \A x \in Procs(t) : u.proc[x].state = t.proc[x].state
             /\ u.proc[q].state = "NEW"
<1> DEFINE nodes == Nodes(t) \cup {n}
           blocks == Procs(t) \cup {q}
           creator == t.p[cur]
           block == [name |-> name, state |-> "NEW", pid |-> t.current_pid,
                     parent_pid |-> t.proc[creator].pid, children |-> 0,
                     priority |-> priority, askWait |-> FALSE]
           p == [m \in nodes |-> IF m = n THEN q ELSE t.p[m]]
           next == [m \in nodes |->
                     IF m = n THEN t.next[cur] ELSE IF m = cur THEN n ELSE t.next[m]]
           proc == [x \in blocks |->
                     IF x = q THEN block
                     ELSE IF x = creator
                          THEN [t.proc[x] EXCEPT !.children = (@ + 1) % ChildrenMod]
                          ELSE t.proc[x]]
           u == AddNode(t, cur, n, q, name, priority)
<1>1. /\ u.p = p /\ u.next = next /\ u.proc = proc /\ u.root = t.root
      /\ u.nodeCount = t.nodeCount + 1 /\ u.current_pid = t.current_pid + 1
      /\ u = [p |-> p, next |-> next, proc |-> proc, root |-> t.root,
              nodeCount |-> t.nodeCount + 1, current_pid |-> t.current_pid + 1]
  BY DEF AddNode, InsertNode, CreateProcess, NewBlock
<1>2. Nodes(u) = nodes /\ Procs(u) = blocks
  BY <1>1 DEF Nodes, Procs
<1>3. /\ t.next \in [Nodes(t) -> Nodes(t)] /\ t.p \in [Nodes(t) -> Procs(t)]
      /\ t.proc \in [Procs(t) -> PCB] /\ t.root \in Node
      /\ t.nodeCount \in Nat /\ t.current_pid \in Nat
      /\ Nodes(t) \subseteq Node /\ Procs(t) \subseteq Proc /\ IsFiniteSet(Nodes(t))
  BY Parts
<1>4. /\ \A k, m \in Nodes(t) : t.next[k] = t.next[m] => k = m
      /\ \A k, m \in Nodes(t) : t.p[k] = t.p[m] => k = m
      /\ \A x \in Procs(t) : \E m \in Nodes(t) : t.p[m] = x
  BY DEF WellFormed, OneCycle, OneNodeEach
<1>5. creator \in Procs(t) /\ t.proc[creator] \in PCB
  BY <1>3
<1>6. proc \in [blocks -> PCB]
  <2>1. block \in PCB
    BY <1>3, <1>5, ChildrenModAssumption DEF PCB, ProcState
  <2>2. [t.proc[creator] EXCEPT !.children = (@ + 1) % ChildrenMod] \in PCB
    <3>1. (t.proc[creator].children + 1) % ChildrenMod \in 0 .. ChildrenMod - 1
      BY <1>5, ChildrenModAssumption DEF PCB
    <3> QED BY <3>1, <1>5 DEF PCB
  <2> HIDE DEF block
  <2> QED BY <2>1, <2>2, <1>3
<1>7. /\ proc[q].state = "NEW"
      /\ \A x \in Procs(t) : proc[x].state = t.proc[x].state
  <2>1. [t.proc[creator] EXCEPT !.children = (@ + 1) % ChildrenMod].state
          = t.proc[creator].state
    BY <1>5 DEF PCB
  <2> QED BY <2>1
<1> HIDE DEF proc
<1>8. next \in [nodes -> nodes] /\ p \in [nodes -> blocks]
  BY <1>3
<1>9. TableType(u)
  <2> HIDE DEF p, next
  <2> QED BY <1>1, <1>2, <1>3, <1>6, <1>8 DEF TableType
<1>10. OneCycle(u)
  <2>1. ASSUME NEW k \in nodes, NEW m \in nodes, next[k] = next[m] PROVE k = m
    BY <2>1, <1>3, <1>4
  <2>2. ASSUME NEW part \in SUBSET nodes, part # {}, \A m \in part : next[m] \in part
        PROVE  part = nodes
    <3> DEFINE old == part \ {n}
    <3>1. old \in SUBSET Nodes(t)
      OBVIOUS
    <3>2. old # {}
      <4>1. n \in part => t.next[cur] \in part
        BY <2>2
      <4> QED BY <4>1, <2>2, <1>3
    <3>3. ASSUME NEW m \in old PROVE t.next[m] \in old
      <4>1. CASE m = cur
        <5>1. next[cur] = n /\ next[n] = t.next[cur]
          OBVIOUS
        <5> QED BY <5>1, <4>1, <3>3, <2>2, <1>3
      <4>2. CASE m # cur
        <5>1. next[m] = t.next[m] /\ m \in Nodes(t)
          BY <4>2, <3>3
        <5> QED BY <5>1, <3>3, <2>2, <1>3
      <4> QED BY <4>1, <4>2
    <3>4. old = Nodes(t)
      BY <3>1, <3>2, <3>3 DEF WellFormed, OneCycle
    <3>5. n \in part
      <4>1. next[cur] = n
        OBVIOUS
      <4> QED BY <4>1, <3>4, <2>2
    <3> QED BY <3>4, <3>5
  <2> QED BY <2>1, <2>2, <1>1, <1>2 DEF OneCycle
<1>11. OneNodeEach(u)
  <2>1. ASSUME NEW k \in nodes, NEW m \in nodes, p[k] = p[m] PROVE k = m
    BY <2>1, <1>3, <1>4
  <2>2. ASSUME NEW x \in blocks PROVE \E m \in nodes : p[m] = x
    BY <1>3, <1>4
  <2> QED BY <2>1, <2>2, <1>1, <1>2 DEF OneNodeEach
<1>12. Counted(u)
  <2>1. Cardinality(nodes) = Cardinality(Nodes(t)) + 1
    BY <1>3, FS_AddElement
  <2> QED BY <2>1, <1>1, <1>2 DEF Counted, WellFormed
<1> QED BY <1>1, <1>2, <1>7, <1>9, <1>10, <1>11, <1>12 DEF WellFormed

-----------------------------------------------------------------------------
(* The invariant.                                                           *)

RunsOnly(t, n) ==
  n \in Nodes(t) => \A q \in Procs(t) : t.proc[q].state = "RUNNING" => q = t.p[n]

GlobalsType ==
  /\ currentNode \in Node \cup {NULL}
  /\ foreground \in Node \cup {NULL}
  /\ background \in Node \cup {NULL}
  /\ forceNext \in BOOLEAN
  /\ quantums \in Nat
  /\ booted \in BOOLEAN
  /\ reused \in BOOLEAN

IInv == GlobalsType /\ WellFormed(table) /\ RunsOnly(table, currentNode)

\* The part of the invariant that schedule takes part in.
SwitchInv ==
  /\ currentNode \in Node \cup {NULL}
  /\ quantums \in Nat
  /\ WellFormed(table)
  /\ RunsOnly(table, currentNode)

\* runNext, called when nobody is marked RUNNING, leaves only its choice so.
LEMMA RunNextSafe ==
  ASSUME NEW t, WellFormed(t), NEW from, quantums \in Nat, RunNext(t, from),
         \A q \in Procs(t) : t.proc[q].state # "RUNNING"
  PROVE  SwitchInv'
<1> DEFINE n == FindNext(t, from)
<1>1. currentNode' = n
  BY DEF RunNext
<1>2. CASE n = NULL
  <2>1. table' = t /\ quantums' = quantums
    BY <1>2 DEF RunNext
  <2> QED BY <1>1, <1>2, <2>1 DEF SwitchInv, RunsOnly
<1>3. CASE n # NULL
  <2>1. n \in Nodes(t) /\ n \in Node
    BY <1>3, FindNextType, Parts
  <2>2. /\ table' = SetState(t, t.p[n], "RUNNING")
        /\ quantums' = t.proc[t.p[n]].priority
    BY <1>3 DEF RunNext
  <2>3. /\ WellFormed(table') /\ SameRing(t, table')
        /\ table'.proc = [t.proc EXCEPT ![t.p[n]].state = "RUNNING"]
    BY <2>1, <2>2, BlockOfNode, SetStateWellFormed DEF ProcState
  <2>4. quantums' \in Nat
    BY <2>1, <2>2, BlockOfNode DEF PCB
  <2>5. RunsOnly(table', currentNode')
    <3>1. \A q \in Procs(t) : q # t.p[n] => table'.proc[q] = t.proc[q]
      BY <2>3, Parts
    <3> QED BY <3>1, <2>3, <1>1 DEF RunsOnly, SameRing
  <2> QED BY <1>1, <2>1, <2>3, <2>4, <2>5 DEF SwitchInv
<1> QED BY <1>2, <1>3

\* The branch of schedule that reaps a killed current process.
LEMMA ReapCurrentSafe ==
  ASSUME NEW t, WellFormed(t), GlobalsType, currentNode \in Nodes(t),
         background \in Nodes(t) \cup {NULL},
         RunsOnly(t, currentNode), t.proc[t.p[currentNode]].state = "KILLED",
         ReapCurrent(t)
  PROVE  SwitchInv' /\ {foreground', background'} \subseteq Node \cup {NULL}
<1>1. \A q \in Procs(t) : t.proc[q].state # "RUNNING"
  BY DEF RunsOnly
<1>2. CASE currentNode = foreground /\ background = NULL
  BY <1>1, <1>2, RunNextSafe DEF ReapCurrent, GlobalsType
<1>3. CASE currentNode = foreground /\ background # NULL
  <2> DEFINE woken == IF t.proc[t.p[background]].state = "BLOCKED"
                        THEN SetState(t, t.p[background], "READY") ELSE t
             u == RemoveNode(woken, currentNode, currentNode)
  <2>1. /\ RunNext(u, currentNode)
        /\ foreground' = background /\ background' = NULL
    BY <1>3 DEF ReapCurrent
  <2>2. /\ WellFormed(woken) /\ currentNode \in Nodes(woken)
        /\ \A q \in Procs(woken) : woken.proc[q].state # "RUNNING"
    <3>1. CASE t.proc[t.p[background]].state = "BLOCKED"
      <4>1. t.p[background] \in Procs(t)
        BY <1>3, BlockOfNode
      <4>2. /\ WellFormed(woken) /\ SameRing(t, woken)
            /\ woken.proc = [t.proc EXCEPT ![t.p[background]].state = "READY"]
        BY <3>1, <4>1, SetStateWellFormed DEF ProcState
      <4>3. \A q \in Procs(t) : woken.proc[q].state \in {t.proc[q].state, "READY"}
        BY <4>1, <4>2, Parts DEF PCB
      <4> HIDE DEF woken
      <4> QED BY <1>1, <4>2, <4>3 DEF SameRing
    <3>2. CASE t.proc[t.p[background]].state # "BLOCKED"
      BY <1>1, <3>2
    <3> QED BY <3>1, <3>2
  <2> HIDE DEF woken
  <2>3. WellFormed(u) /\ \A q \in Procs(u) : u.proc[q].state # "RUNNING"
    BY <2>2, RemoveNodeWellFormed
  <2> HIDE DEF u
  <2>4. SwitchInv'
    BY <2>1, <2>3, RunNextSafe DEF GlobalsType
  <2> QED BY <2>1, <2>4 DEF GlobalsType
<1>4. CASE currentNode # foreground
  <2> DEFINE u == RemoveNode(t, currentNode, currentNode)
  <2>1. RunNext(u, currentNode) /\ UNCHANGED <<foreground, background>>
    BY <1>4 DEF ReapCurrent
  <2>2. WellFormed(u) /\ \A q \in Procs(u) : u.proc[q].state # "RUNNING"
    BY <1>1, RemoveNodeWellFormed
  <2> HIDE DEF u
  <2> QED BY <2>1, <2>2, RunNextSafe DEF GlobalsType
<1> QED BY <1>2, <1>3, <1>4

\* schedule, entered with a table the rest of the handler has left.
LEMMA ScheduleSafe ==
  ASSUME NEW t, WellFormed(t), GlobalsType, currentNode \in Nodes(t),
         background \in Nodes(t) \cup {NULL},
         RunsOnly(t, currentNode), NEW force \in BOOLEAN, Schedule(t, force)
  PROVE  /\ SwitchInv' /\ {foreground', background'} \subseteq Node \cup {NULL}
         /\ forceNext' \in BOOLEAN
<1> DEFINE state == t.proc[t.p[currentNode]].state
           charged == IF state = "RUNNING" THEN quantums + 1 ELSE quantums
<1>1. CASE /\ table' = t /\ forceNext' = force
           /\ UNCHANGED <<currentNode, quantums, foreground, background>>
  BY <1>1 DEF SwitchInv, GlobalsType, RunsOnly
<1>2. CASE state = "KILLED" /\ ReapCurrent(t) /\ forceNext' = force
  BY <1>2, ReapCurrentSafe
<1>3. CASE /\ state = "BLOCKED"
           /\ RunNext(t, t.next[currentNode]) /\ forceNext' = force
           /\ UNCHANGED <<foreground, background>>
  <2>1. \A q \in Procs(t) : t.proc[q].state # "RUNNING"
    BY <1>3 DEF RunsOnly
  <2> QED BY <1>3, <2>1, RunNextSafe DEF GlobalsType
<1>4. CASE /\ Preempt(t) /\ forceNext' = FALSE
           /\ UNCHANGED <<foreground, background>>
  <2> DEFINE q0 == t.p[currentNode]
             u == SetState(t, q0, "READY")
  <2>1. /\ WellFormed(u) /\ SameRing(t, u)
        /\ u.proc = [t.proc EXCEPT ![q0].state = "READY"]
    BY BlockOfNode, SetStateWellFormed DEF ProcState
  <2>2. \A q \in Procs(u) : u.proc[q].state # "RUNNING"
    <3>1. q0 \in Procs(t)
      BY BlockOfNode
    <3>2. u.proc[q0].state = "READY" /\ \A q \in Procs(t) \ {q0} : u.proc[q] = t.proc[q]
      BY <2>1, <3>1, Parts DEF PCB
    <3> QED BY <2>1, <3>2 DEF RunsOnly, SameRing
  <2>3. RunNext(u, t.next[currentNode])
    BY <1>4 DEF Preempt
  <2> HIDE DEF u
  <2> QED BY <1>4, <2>1, <2>2, <2>3, RunNextSafe DEF GlobalsType
<1>5. CASE /\ table' = t /\ quantums' = charged /\ forceNext' = force
           /\ UNCHANGED <<currentNode, foreground, background>>
  <2>1. charged \in Nat
    BY DEF GlobalsType
  <2> HIDE DEF charged
  <2> QED BY <1>5, <2>1 DEF SwitchInv, GlobalsType, RunsOnly
<1> QED BY <1>1, <1>2, <1>3, <1>4, <1>5 DEF Schedule

\* Marking a process KILLED or BLOCKED, and entering schedule.
LEMMA ScheduleMarkedSafe ==
  ASSUME IInv, Intact, NEW t, WellFormed(t), SameRing(table, t),
         \A x \in Procs(table) : t.proc[x].state = table.proc[x].state,
         NEW q \in Procs(table), NEW s \in {"KILLED", "BLOCKED"},
         Schedule(SetState(t, q, s), forceNext)
  PROVE  /\ SwitchInv' /\ {foreground', background'} \subseteq Node \cup {NULL}
         /\ forceNext' \in BOOLEAN
<1> DEFINE u == SetState(t, q, s)
<1>1. q \in Procs(t) /\ s \in ProcState
  BY DEF SameRing, ProcState
<1>2. /\ WellFormed(u) /\ SameRing(t, u)
      /\ u.proc = [t.proc EXCEPT ![q].state = s]
  BY <1>1, SetStateWellFormed
<1>3. \A x \in Procs(t) : u.proc[x].state \in {t.proc[x].state, s}
  BY <1>1, <1>2, Parts DEF PCB
<1>6. Schedule(u, forceNext)
  OBVIOUS
<1> HIDE DEF u
<1>4. RunsOnly(u, currentNode)
  BY <1>2, <1>3 DEF RunsOnly, SameRing, IInv
<1>5. currentNode \in Nodes(u) /\ background \in Nodes(u) \cup {NULL}
  BY <1>2 DEF SameRing, Intact
<1> QED BY <1>2, <1>4, <1>5, <1>6, ScheduleSafe DEF IInv, GlobalsType

\* addProcess.
LEMMA AddProcessSafe ==
  ASSUME IInv, Intact, NEW name \in {"IDLE", "shell", "user"},
         NEW priority \in Nat, NEW fg \in BOOLEAN, AddProcess(name, priority, fg)
  PROVE  /\ SwitchInv' /\ {foreground', background'} \subseteq Node \cup {NULL}
         /\ forceNext' \in BOOLEAN /\ reused' \in BOOLEAN
<1>1. PICK n \in Node \ Nodes(table), q \in Proc \ Procs(table) :
        LET t == AddNode(table, currentNode, n, q, name, priority)
        IN  /\ table' = [t EXCEPT !.proc[Current].askWait = fg /\ name # "shell"]
            /\ foreground' = IF fg THEN n ELSE foreground
            /\ background' = IF fg /\ background = NULL THEN foreground ELSE background
            /\ reused' = (reused \/ PidInUse(table.current_pid))
            /\ UNCHANGED <<currentNode, forceNext, quantums>>
  BY DEF AddProcess
<1> DEFINE t == AddNode(table, currentNode, n, q, name, priority)
           proc == [t.proc EXCEPT ![Current].askWait = fg /\ name # "shell"]
<1>2. currentNode \in Nodes(table) /\ Current \in Procs(table)
  BY BlockOfNode DEF Intact, Current, IInv
<1>3. /\ WellFormed(t)
      /\ Nodes(t) = Nodes(table) \cup {n} /\ Procs(t) = Procs(table) \cup {q}
      /\ t.p[currentNode] = Current
      /\ \A x \in Procs(table) : t.proc[x].state = table.proc[x].state
      /\ t.proc[q].state = "NEW"
  BY <1>2, AddNodeWellFormed DEF IInv, Current
<1>4. table' = [t EXCEPT !.proc[Current].askWait = fg /\ name # "shell"]
  BY <1>1
<1> HIDE DEF t
<1>5. table' = [t EXCEPT !.proc = proc]
  BY <1>3, <1>4 DEF WellFormed, TableType
<1>6. /\ proc \in [Procs(t) -> PCB]
      /\ \A x \in Procs(t) : proc[x].state = t.proc[x].state
  <2> DEFINE waits == fg /\ name # "shell"
  <2>1. waits \in BOOLEAN
    OBVIOUS
  <2> HIDE DEF waits
  <2>2. Current \in Procs(t)
    BY <1>2, <1>3
  <2>3. /\ [t.proc EXCEPT ![Current].askWait = waits] \in [Procs(t) -> PCB]
        /\ \A x \in Procs(t) :
             [t.proc EXCEPT ![Current].askWait = waits][x].state = t.proc[x].state
    BY <1>3, <2>1, <2>2, AskWaitType
  <2> QED BY <2>3 DEF waits
<1> HIDE DEF proc
<1>7. WellFormed(table') /\ SameRing(t, table') /\ table'.proc = proc
  BY <1>3, <1>5, <1>6, NewBlocks
<1>8. RunsOnly(table', currentNode')
  <2>1. ASSUME NEW x \in Procs(table'), table'.proc[x].state = "RUNNING"
        PROVE  x = table'.p[currentNode']
    <3>1. x \in Procs(t) /\ t.proc[x].state = "RUNNING"
      BY <2>1, <1>6, <1>7 DEF SameRing
    <3>2. x \in Procs(table) /\ table.proc[x].state = "RUNNING"
      BY <3>1, <1>3
    <3>3. x = Current
      BY <3>2, <1>2 DEF IInv, RunsOnly, Current
    <3>4. table'.p = t.p /\ currentNode' = currentNode
      BY <1>1, <1>7 DEF SameRing
    <3> QED BY <3>3, <3>4, <1>3
  <2> QED BY <2>1 DEF RunsOnly
<1>9. /\ {foreground', background'} \subseteq Node \cup {NULL}
      /\ currentNode' \in Node \cup {NULL} /\ quantums' \in Nat
      /\ forceNext' \in BOOLEAN
  BY <1>1 DEF IInv, GlobalsType
<1>10. reused' \in BOOLEAN
  BY <1>1 DEF IInv, GlobalsType, PidInUse
<1> QED BY <1>7, <1>8, <1>9, <1>10 DEF SwitchInv

\* Ctrl-C: the branch in which the process interrupted is the one killed.
LEMMA CtrlCKillsCurrent ==
  ASSUME IInv, Intact, NEW t, WellFormed(t), SameRing(table, t), RunsOnly(t, currentNode),
         LET killed == SetState(t, Current, "KILLED")
         IN  RunNext(IF currentNode = background THEN killed
                     ELSE RemoveNode(killed, currentNode, currentNode), currentNode)
  PROVE  SwitchInv'
<1> DEFINE killed == SetState(t, Current, "KILLED")
           u == IF currentNode = background THEN killed
                ELSE RemoveNode(killed, currentNode, currentNode)
<1>1. RunNext(u, currentNode)
  OBVIOUS
<1>2. Current \in Procs(t) /\ currentNode \in Nodes(t) /\ Current = t.p[currentNode]
  BY BlockOfNode DEF Intact, Current, IInv, SameRing
<1>3. /\ WellFormed(killed) /\ SameRing(t, killed)
      /\ killed.proc = [t.proc EXCEPT ![Current].state = "KILLED"]
  BY <1>2, SetStateWellFormed, ZenonT(60) DEF ProcState
<1>4. \A q \in Procs(t) : killed.proc[q].state # "RUNNING"
  <2>1. killed.proc[Current].state = "KILLED" /\ \A q \in Procs(t) \ {Current} : killed.proc[q] = t.proc[q]
    BY <1>2, <1>3, Parts DEF PCB
  <2> QED BY <1>2, <2>1 DEF RunsOnly
<1> HIDE DEF killed
<1>5. /\ WellFormed(killed) /\ currentNode \in Nodes(killed)
      /\ \A q \in Procs(killed) : killed.proc[q].state # "RUNNING"
  BY <1>2, <1>3, <1>4 DEF SameRing
<1>6. WellFormed(u) /\ \A q \in Procs(u) : u.proc[q].state # "RUNNING"
  BY <1>5, RemoveNodeWellFormed
<1> HIDE DEF u
<1> QED BY <1>1, <1>6, RunNextSafe DEF IInv, GlobalsType

\* Ctrl-C: the branch in which another process is killed.
LEMMA CtrlCKillsOther ==
  ASSUME IInv, Intact, NEW t, WellFormed(t), SameRing(table, t), RunsOnly(t, currentNode),
         NEW victim, t.proc[t.p[currentNode]].pid # victim, NEW pid,
         table' = ProcessReady(KillOther(t, victim, currentNode), pid),
         UNCHANGED <<currentNode, quantums>>
  PROVE  SwitchInv'
<1> DEFINE k == KillOther(t, victim, currentNode)
<1>1. currentNode \in Nodes(t)
  BY DEF Intact, SameRing
<1>2. /\ WellFormed(k) /\ Procs(k) \subseteq Procs(t) /\ Nodes(k) \subseteq Nodes(t)
      /\ currentNode \in Nodes(k) => k.p[currentNode] = t.p[currentNode]
      /\ \A q \in Procs(k) : k.proc[q].state \in {t.proc[q].state, "READY", "KILLED"}
  BY <1>1, KillOtherWellFormed
<1> HIDE DEF k
<1>3. /\ WellFormed(table') /\ SameRing(k, table')
      /\ \A q \in Procs(k) : table'.proc[q].state \in {k.proc[q].state, "READY"}
  <2>1. table' = ProcessReady(k, pid)
    BY DEF k
  <2> QED BY <1>2, <2>1, ProcessReadyWellFormed
<1>4. RunsOnly(table', currentNode')
  BY <1>2, <1>3 DEF RunsOnly, SameRing
<1> QED BY <1>3, <1>4 DEF SwitchInv, IInv, GlobalsType

\* Ctrl-C, whichever of its branches.
LEMMA CtrlCSafe ==
  ASSUME IInv, CtrlC
  PROVE  /\ SwitchInv' /\ {foreground', background'} \subseteq Node \cup {NULL}
         /\ forceNext' \in BOOLEAN /\ booted' \in BOOLEAN /\ reused' \in BOOLEAN
<1>1. /\ Intact /\ GlobalsType /\ WellFormed(table) /\ RunsOnly(table, currentNode)
      /\ UNCHANGED <<forceNext, booted, reused>>
  BY DEF CtrlC, IInv
<1>2. CASE /\ background = NULL
           /\ table' = ProcessReady(table, CurrentBlock.parent_pid)
           /\ UNCHANGED <<currentNode, foreground, background, quantums>>
  <2>1. /\ WellFormed(table') /\ SameRing(table, table')
        /\ \A q \in Procs(table) : table'.proc[q].state \in {table.proc[q].state, "READY"}
    BY <1>1, <1>2, ProcessReadyWellFormed
  <2>2. RunsOnly(table', currentNode')
    BY <1>1, <1>2, <2>1 DEF RunsOnly, SameRing
  <2> QED BY <1>1, <1>2, <2>1, <2>2 DEF SwitchInv, GlobalsType
<1>3. CASE background # NULL
  <2> DEFINE bg == table.p[background]
             t == IF table.proc[bg].state = "BLOCKED"
                    THEN SetState(table, bg, "READY") ELSE table
             victim == table.proc[table.p[foreground]].pid
  <2>1. foreground' = background /\ background' = NULL
    BY <1>3 DEF CtrlC
  <2>2. {foreground', background'} \subseteq Node \cup {NULL}
    BY <1>1, <2>1 DEF GlobalsType
  <2>3. IF victim = CurrentBlock.pid
        THEN LET killed == SetState(t, Current, "KILLED")
             IN  RunNext(IF currentNode = background THEN killed
                         ELSE RemoveNode(killed, currentNode, currentNode), currentNode)
        ELSE /\ table' = ProcessReady(KillOther(t, victim, currentNode),
                                      CurrentBlock.parent_pid)
             /\ UNCHANGED <<currentNode, quantums>>
    BY <1>3 DEF CtrlC
  <2>4. /\ WellFormed(t) /\ SameRing(table, t)
        /\ \A q \in Procs(table) : /\ t.proc[q].state \in {table.proc[q].state, "READY"}
                                   /\ t.proc[q].pid = table.proc[q].pid
    <3>1. CASE table.proc[bg].state = "BLOCKED"
      <4>1. bg \in Procs(table)
        BY <1>1, <1>3, BlockOfNode DEF Intact
      <4>2. /\ WellFormed(t) /\ SameRing(table, t)
            /\ t.proc = [table.proc EXCEPT ![bg].state = "READY"]
        BY <1>1, <3>1, <4>1, SetStateWellFormed DEF ProcState
      <4> HIDE DEF t
      <4> QED BY <1>1, <4>1, <4>2, Parts DEF PCB
    <3>2. CASE table.proc[bg].state # "BLOCKED"
      BY <1>1, <3>2 DEF SameRing
    <3> QED BY <3>1, <3>2
  <2> HIDE DEF t
  <2>5. RunsOnly(t, currentNode)
    BY <1>1, <2>4 DEF RunsOnly, SameRing
  <2>6. CASE victim = CurrentBlock.pid
    BY <1>1, <2>2, <2>3, <2>4, <2>5, <2>6, CtrlCKillsCurrent DEF GlobalsType
  <2>7. CASE victim # CurrentBlock.pid
    <3>1. t.proc[t.p[currentNode]].pid # victim
      <4>1. Current \in Procs(table) /\ t.p[currentNode] = Current
        BY <1>1, <2>4, BlockOfNode DEF Intact, Current, SameRing
      <4> QED BY <4>1, <2>4, <2>7 DEF CurrentBlock
    <3> HIDE DEF victim
    <3> QED BY <1>1, <2>2, <2>3, <2>4, <2>5, <2>7, <3>1, CtrlCKillsOther DEF GlobalsType
  <2> QED BY <2>6, <2>7
<1> QED BY <1>2, <1>3 DEF CtrlC

-----------------------------------------------------------------------------
(* The theorems.                                                            *)

\* The invariant holds when init_scheduler is done.
LEMMA InitSafe == Init => IInv
<1> SUFFICES ASSUME Init PROVE IInv
  OBVIOUS
<1>1. PICK n \in Node, q \in Proc :
        /\ table = [p |-> [m \in {n} |-> q], next |-> [m \in {n} |-> n],
                    proc |-> [x \in {q} |->
                      [name |-> "IDLE", state |-> "RUNNING", pid |-> 0,
                       parent_pid |-> 0, children |-> 0,
                       priority |-> QUANTUM_MAX, askWait |-> FALSE]],
                    root |-> n, nodeCount |-> 1, current_pid |-> 1]
        /\ currentNode = n
  BY DEF Init
<1>2. Nodes(table) = {n} /\ Procs(table) = {q}
  BY <1>1 DEF Nodes, Procs
<1>3. GlobalsType
  BY <1>1, QuantumAssumption DEF Init, GlobalsType
<1>4. TableType(table)
  <2>1. [name |-> "IDLE", state |-> "RUNNING", pid |-> 0, parent_pid |-> 0,
         children |-> 0, priority |-> QUANTUM_MAX, askWait |-> FALSE] \in PCB
    BY QuantumAssumption, ChildrenModAssumption DEF PCB, ProcState
  <2> QED BY <1>1, <1>2, <2>1 DEF TableType
<1>5. OneCycle(table) /\ OneNodeEach(table)
  BY <1>1, <1>2 DEF OneCycle, OneNodeEach
<1>6. Counted(table)
  BY <1>1, <1>2, FS_Singleton DEF Counted
<1>7. RunsOnly(table, currentNode)
  BY <1>1, <1>2 DEF RunsOnly
<1> QED BY <1>3, <1>4, <1>5, <1>6, <1>7 DEF IInv, WellFormed

\* Every step preserves the invariant.
LEMMA NextSafe == IInv /\ [Next]_vars => IInv'
<1> SUFFICES ASSUME IInv, [Next]_vars PROVE IInv'
  OBVIOUS
<1> DEFINE Rest == /\ {foreground', background'} \subseteq Node \cup {NULL}
                   /\ forceNext' \in BOOLEAN /\ booted' \in BOOLEAN
                   /\ reused' \in BOOLEAN
<1>a. SwitchInv' /\ Rest => IInv'
  BY DEF SwitchInv, IInv, GlobalsType
<1>b. SwitchInv /\ GlobalsType /\ WellFormed(table) /\ SameRing(table, table)
  BY DEF SwitchInv, IInv, GlobalsType, SameRing
<1>c. Intact => Current \in Procs(table)
  BY BlockOfNode DEF Intact, Current, IInv
<1> USE DEF GlobalsType
<1>1. CASE Boot
  <2>1. AddProcess("shell", 0, TRUE) /\ Intact /\ booted' = TRUE
    BY <1>1 DEF Boot
  <2> QED BY <2>1, <1>a, AddProcessSafe
<1>2. CASE Exec
  <2>1. PICK priority \in Priorities : AddProcess("user", priority, FALSE)
    BY <1>2 DEF Exec
  <2>2. priority \in Nat /\ Intact /\ booted' = booted
    BY <1>2, PrioritiesAssumption DEF Exec, Calling
  <2> QED BY <2>1, <2>2, <1>a, <1>b, AddProcessSafe
<1>3. CASE ExecForeground
  <2>1. PICK priority \in Priorities : AddProcess("user", priority, TRUE)
    BY <1>3 DEF ExecForeground
  <2>2. priority \in Nat /\ Intact /\ booted' = booted
    BY <1>3, PrioritiesAssumption DEF ExecForeground, Calling
  <2> QED BY <2>1, <2>2, <1>a, <1>b, AddProcessSafe
<1>4. CASE Tick
  <2>1. Intact /\ Schedule(table, forceNext) /\ UNCHANGED <<booted, reused>>
    BY <1>4 DEF Tick
  <2> QED BY <2>1, <1>a, <1>b, ScheduleSafe DEF Intact, IInv
<1>5. CASE Yield
  <2>1. Intact /\ Schedule(table, TRUE) /\ UNCHANGED <<booted, reused>>
    BY <1>5 DEF Yield, Calling
  <2> QED BY <2>1, <1>a, <1>b, ScheduleSafe DEF Intact, IInv
<1>6. CASE Exit
  <2>1. /\ Intact /\ Schedule(SetState(table, Current, "KILLED"), forceNext)
        /\ UNCHANGED <<booted, reused>>
    BY <1>6 DEF Exit, Calling
  <2> QED BY <2>1, <1>a, <1>b, <1>c, ScheduleMarkedSafe
<1>7. CASE WaitPid
  <2> DEFINE proc == [table.proc EXCEPT ![Current].askWait = FALSE]
             t == [table EXCEPT !.proc = proc]
  <2>1. Intact /\ currentNode \in Nodes(table) /\ Current \in Procs(table)
    BY <1>7, BlockOfNode DEF WaitPid, Calling, Intact, Current, IInv
  <2>2. /\ proc \in [Procs(table) -> PCB]
        /\ \A q \in Procs(table) : proc[q].state = table.proc[q].state
    BY <2>1, <1>b, AskWaitType
  <2>3. t = [table EXCEPT !.proc[Current].askWait = FALSE]
    BY <1>b DEF WellFormed, TableType
  <2> HIDE DEF proc
  <2>4. WellFormed(t) /\ SameRing(table, t) /\ t.proc = proc
    BY <2>2, <1>b, NewBlocks
  <2> HIDE DEF t
  <2>5. CASE CurrentBlock.children > 0
    <3>1. Schedule(SetState(t, Current, "BLOCKED"), forceNext) /\ UNCHANGED <<booted, reused>>
      BY <1>7, <2>3, <2>5 DEF WaitPid
    <3> QED BY <3>1, <2>1, <2>2, <2>4, <1>a, <1>b, ScheduleMarkedSafe
  <2>6. CASE ~(CurrentBlock.children > 0)
    <3>1. /\ table' = t
          /\ UNCHANGED <<currentNode, foreground, background, forceNext, quantums, booted, reused>>
      BY <1>7, <2>3, <2>6 DEF WaitPid
    <3>2. RunsOnly(table', currentNode')
      BY <3>1, <2>2, <2>4 DEF RunsOnly, SameRing, IInv
    <3> QED BY <3>1, <3>2, <2>4 DEF IInv
  <2> QED BY <2>5, <2>6
<1>8. CASE KillProcess
  <2>1. Intact /\ UNCHANGED <<booted, reused>>
    BY <1>8 DEF KillProcess, Calling
  <2>2. PICK pid \in Pids :
          IF pid = CurrentBlock.pid
          THEN Schedule(SetState(table, Current, "KILLED"), forceNext)
          ELSE /\ table' = KillOther(table, pid, currentNode)
               /\ UNCHANGED <<currentNode, foreground, background, forceNext, quantums>>
    BY <1>8 DEF KillProcess
  <2>3. CASE pid = CurrentBlock.pid
    BY <2>1, <2>2, <2>3, <1>a, <1>b, <1>c, ScheduleMarkedSafe
  <2>4. CASE pid # CurrentBlock.pid
    <3>1. /\ WellFormed(table') /\ Nodes(table') \subseteq Nodes(table)
          /\ Procs(table') \subseteq Procs(table)
          /\ currentNode \in Nodes(table') => table'.p[currentNode] = table.p[currentNode]
          /\ \A q \in Procs(table') :
               table'.proc[q].state \in {table.proc[q].state, "READY", "KILLED"}
      BY <2>1, <2>2, <2>4, <1>b, KillOtherWellFormed DEF Intact, CurrentBlock, Current
    <3>2. UNCHANGED <<currentNode, foreground, background, forceNext, quantums>>
      BY <2>2, <2>4
    <3>3. RunsOnly(table', currentNode')
      BY <3>1, <3>2 DEF RunsOnly, IInv
    <3> QED BY <2>1, <3>1, <3>2, <3>3 DEF IInv
  <2> QED BY <2>3, <2>4
<1>9. CASE BlockProcess
  <2>1. Intact /\ UNCHANGED <<booted, reused>>
    BY <1>9 DEF BlockProcess, Calling
  <2>2. PICK aux : /\ aux \in Nodes(table)
                   /\ Schedule(SetState(table, table.p[aux], "BLOCKED"), forceNext)
    BY <1>9, FindNodeType DEF BlockProcess
  <2>3. table.p[aux] \in Procs(table)
    BY <2>2, <1>b, BlockOfNode
  <2> QED BY <2>1, <2>2, <2>3, <1>a, <1>b, ScheduleMarkedSafe
<1>10. CASE ReadyProcess
  <2>1. PICK pid : table' = ProcessReady(table, pid)
    BY <1>10 DEF ReadyProcess
  <2>2. UNCHANGED <<currentNode, foreground, background, forceNext, quantums, booted, reused>>
    BY <1>10 DEF ReadyProcess
  <2>3. /\ WellFormed(table') /\ SameRing(table, table')
        /\ \A q \in Procs(table) : table'.proc[q].state \in {table.proc[q].state, "READY"}
    BY <2>1, <1>b, ProcessReadyWellFormed
  <2>4. RunsOnly(table', currentNode')
    BY <2>2, <2>3 DEF RunsOnly, SameRing, IInv
  <2> QED BY <2>2, <2>3, <2>4 DEF IInv
<1>11. CASE Nice
  <2>1. PICK pid \in Pids, priority \in Priorities : table' = ChangePriority(table, pid, priority)
    BY <1>11 DEF Nice
  <2>2. UNCHANGED <<currentNode, foreground, background, forceNext, quantums, booted, reused>>
    BY <1>11 DEF Nice
  <2>3. /\ WellFormed(table') /\ SameRing(table, table')
        /\ \A q \in Procs(table) : table'.proc[q].state = table.proc[q].state
    BY <2>1, <1>b, PrioritiesAssumption, ChangePriorityWellFormed
  <2>4. RunsOnly(table', currentNode')
    BY <2>2, <2>3 DEF RunsOnly, SameRing, IInv
  <2> QED BY <2>2, <2>3, <2>4 DEF IInv
<1>12. CASE CtrlC
  BY <1>12, <1>a, CtrlCSafe
<1>13. CASE Undefined \/ UNCHANGED vars
  <2>1. UNCHANGED vars
    BY <1>13 DEF Undefined
  <2> QED BY <2>1 DEF vars, IInv, RunsOnly, WellFormed
<1> QED BY <1>1, <1>2, <1>3, <1>4, <1>5, <1>6, <1>7, <1>8, <1>9, <1>10, <1>11,
           <1>12, <1>13 DEF Next

\* Whatever the programs call and however often Ctrl-C is typed, the invariant
\* is preserved by every step.
THEOREM Invariance == Spec => []IInv
<1> QED BY InitSafe, NextSafe, PTL DEF Spec

\* Every variable keeps its type: in particular no link, root or process
\* pointer inside the ring ever refers to freed memory, and neither nodeCount
\* nor current_pid goes below zero.
THEOREM TypeCorrect == Spec => []TypeOK
<1>1. IInv => TypeOK
  BY DEF IInv, GlobalsType, WellFormed, TypeOK
<1> QED BY <1>1, Invariance, PTL

\* insertNode and removeNode keep the ring one cycle holding every process once.
THEOREM RingAlwaysOneCycle == Spec => []RingIsOneCycle
<1>1. IInv => RingIsOneCycle
  BY DEF IInv, WellFormed, RingIsOneCycle
<1> QED BY <1>1, Invariance, PTL

\* nodeCount and current_pid always count the processes in the ring.
THEOREM CountersAlwaysAgree == Spec => []CountersAgree
<1>1. IInv => CountersAgree
  BY DEF IInv, WellFormed, CountersAgree
<1> QED BY <1>1, Invariance, PTL

\* Only the process of currentNode is ever RUNNING.
THEOREM OnlyCurrentAlwaysRuns == Spec => []OnlyCurrentRuns
<1>1. IInv => OnlyCurrentRuns
  BY DEF IInv, RunsOnly, OnlyCurrentRuns, Intact, Current
<1> QED BY <1>1, Invariance, PTL
-----------------------------------------------------------------------------
(* The order of the ring.                                                   *)

\* Nobody is new in u, and who is left follows whom it did, or, if that one is gone, who came after it.
Spared(t, u) ==
  \A q \in Procs(u) :
    /\ q \in Procs(t)
    /\ Following(u, q) = IF Following(t, q) \in Procs(u) THEN Following(t, q)
                         ELSE Following(t, Following(t, q))

\* The one that follows the process of a node is that of the next node.
LEMMA FollowingNode ==
  ASSUME NEW t, WellFormed(t), NEW m \in Nodes(t)
  PROVE  Following(t, t.p[m]) = t.p[t.next[m]]
<1> DEFINE k == CHOOSE x \in Nodes(t) : t.p[x] = t.p[m]
<1>1. k \in Nodes(t) /\ t.p[k] = t.p[m]
  OBVIOUS
<1>2. k = m
  BY <1>1 DEF WellFormed, OneNodeEach
<1> QED BY <1>2 DEF Following

\* Every process has a node, and somebody to follow it.
LEMMA NodeOfBlock ==
  ASSUME NEW t, WellFormed(t), NEW q \in Procs(t)
  PROVE  /\ \E m \in Nodes(t) : t.p[m] = q /\ Following(t, q) = t.p[t.next[m]]
         /\ Following(t, q) \in Procs(t)
<1>1. PICK m \in Nodes(t) : t.p[m] = q
  BY DEF WellFormed, OneNodeEach
<1>2. Following(t, q) = t.p[t.next[m]]
  BY <1>1, FollowingNode
<1> QED BY <1>1, <1>2, Parts

\* Changes to the control blocks move nobody.
LEMMA SameRingSpares ==
  ASSUME NEW t, WellFormed(t), NEW u, SameRing(t, u)
  PROVE  Spared(t, u)
<1>1. \A q \in Procs(t) : Following(u, q) = Following(t, q)
  BY DEF SameRing, Following
<1> QED BY <1>1, NodeOfBlock DEF SameRing, Spared

\* Nor do they before or after a removal.
LEMMA SparedAround ==
  ASSUME NEW t, NEW u, NEW v, NEW w, SameRing(t, u), Spared(u, v), SameRing(v, w)
  PROVE  Spared(t, w)
<1>1. \A q : Following(u, q) = Following(t, q) /\ Following(w, q) = Following(v, q)
  BY DEF SameRing, Following
<1> QED BY <1>1 DEF SameRing, Spared

\* Unlinking a node lets the one before it be followed by the one after it.
LEMMA UnlinkSpares ==
  ASSUME NEW t, WellFormed(t), NEW n \in Nodes(t), NEW proc \in [Procs(t) -> PCB]
  PROVE  Spared(t, Unlink(t, n, proc))
<1> DEFINE u == Unlink(t, n, proc)
           after == t.next[n]
<1>1. /\ WellFormed(u) /\ Nodes(u) = Nodes(t) \ {after} /\ Procs(u) = Procs(t) \ {t.p[n]}
  BY UnlinkWellFormed
<1>2. /\ u.p = [m \in Nodes(t) \ {after} |-> IF m = n THEN t.p[after] ELSE t.p[m]]
      /\ u.next = [m \in Nodes(t) \ {after} |-> IF m = n THEN t.next[after] ELSE t.next[m]]
  BY DEF Unlink, ToFree
<1> HIDE DEF u
<1>3. /\ after \in Nodes(t)
      /\ \A k, m \in Nodes(t) : t.next[k] = t.next[m] => k = m
      /\ \A k, m \in Nodes(t) : t.p[k] = t.p[m] => k = m
  BY Parts DEF WellFormed, OneCycle, OneNodeEach
<1> SUFFICES ASSUME NEW q \in Procs(u)
             PROVE  /\ q \in Procs(t)
                    /\ Following(u, q) = IF Following(t, q) \in Procs(u) THEN Following(t, q)
                                         ELSE Following(t, Following(t, q))
  BY DEF Spared, u
<1>4. PICK k \in Nodes(t) : t.p[k] = q /\ Following(t, q) = t.p[t.next[k]]
  BY <1>1, NodeOfBlock
<1>5. k # n /\ t.next[k] \in Nodes(t) /\ t.next[k] # after
  BY <1>1, <1>3, <1>4, Parts
<1> DEFINE m == IF k = after THEN n ELSE k
<1>6. m \in Nodes(u) /\ u.p[m] = q /\ u.next[m] = t.next[k]
  <2>1. CASE k = after
    BY <2>1, <1>1, <1>2, <1>4, <1>5
  <2>2. CASE k # after
    BY <2>2, <1>1, <1>2, <1>4, <1>5
  <2> QED BY <2>1, <2>2
<1>7. Following(u, q) = u.p[t.next[k]]
  BY <1>1, <1>6, FollowingNode
<1>8. CASE t.next[k] = n
  <2>1. Following(u, q) = t.p[after]
    BY <1>2, <1>5, <1>7, <1>8
  <2>2. Following(t, q) = t.p[n] /\ Following(t, t.p[n]) = t.p[after]
    BY <1>4, <1>8, FollowingNode
  <2> QED BY <2>1, <2>2, <1>1
<1>9. CASE t.next[k] # n
  <2>1. Following(u, q) = t.p[t.next[k]]
    BY <1>2, <1>5, <1>7, <1>9
  <2>2. t.p[t.next[k]] \in Procs(u)
    BY <1>1, <1>3, <1>5, <1>9, Parts
  <2> QED BY <2>1, <2>2, <1>1, <1>4
<1> QED BY <1>8, <1>9

\* removeNode, which may do nothing.
LEMMA RemoveNodeSpares ==
  ASSUME NEW t, WellFormed(t), NEW n \in Nodes(t), NEW cur
  PROVE  Spared(t, RemoveNode(t, n, cur))
<1> DEFINE parent == FindNode(t, t.proc[t.p[cur]].parent_pid)
<1>1. CASE parent = NULL
  BY <1>1, SameRingSpares DEF RemoveNode, SameRing
<1>2. CASE parent # NULL
  <2>1. LoseChild(t, parent) \in [Procs(t) -> PCB]
    BY <1>2, FindNodeType, LoseChildType
  <2>2. RemoveNode(t, n, cur) = Unlink(t, n, LoseChild(t, parent))
    BY <1>2 DEF RemoveNode
  <2> QED BY <2>1, <2>2, UnlinkSpares
<1> QED BY <1>1, <1>2

\* killProcess of another process.
LEMMA KillOtherSpares ==
  ASSUME NEW t, WellFormed(t), NEW pid, NEW cur
  PROVE  WellFormed(KillOther(t, pid, cur)) /\ Spared(t, KillOther(t, pid, cur))
<1> DEFINE aux == FindNode(t, pid)
           killed == SetState(t, t.p[aux], "KILLED")
<1>1. CASE aux = NULL
  BY <1>1, SameRingSpares DEF KillOther, SameRing
<1>2. CASE aux # NULL
  <2>1. aux \in Nodes(t)
    BY <1>2, FindNodeType
  <2>2. WellFormed(killed) /\ SameRing(t, killed)
    BY <2>1, BlockOfNode, SetStateWellFormed DEF ProcState
  <2>3. KillOther(t, pid, cur) = RemoveNode(killed, aux, cur)
    BY <1>2 DEF KillOther
  <2>4. aux \in Nodes(killed)
    BY <2>1, <2>2 DEF SameRing
  <2> HIDE DEF killed, aux
  <2>5. WellFormed(RemoveNode(killed, aux, cur)) /\ Spared(killed, RemoveNode(killed, aux, cur))
    BY <2>2, <2>4, RemoveNodeWellFormed, RemoveNodeSpares
  <2>6. SameRing(RemoveNode(killed, aux, cur), RemoveNode(killed, aux, cur))
    BY DEF SameRing
  <2> QED BY <2>2, <2>3, <2>5, <2>6, SparedAround
<1> QED BY <1>1, <1>2

\* runNext only marks its choice.
LEMMA RunNextRing ==
  ASSUME NEW t, WellFormed(t), NEW from, RunNext(t, from)
  PROVE  SameRing(t, table')
<1> DEFINE n == FindNext(t, from)
<1>1. CASE n = NULL
  BY <1>1 DEF RunNext, SameRing
<1>2. CASE n # NULL
  <2>1. t.p[n] \in Procs(t)
    BY <1>2, FindNextType, BlockOfNode
  <2> QED BY <1>2, <2>1, SetStateWellFormed DEF RunNext, ProcState
<1> QED BY <1>1, <1>2

\* Making the parked process ready.
LEMMA ReadiedRing ==
  ASSUME NEW t, WellFormed(t), NEW n \in Nodes(t)
  PROVE  LET u == IF t.proc[t.p[n]].state = "BLOCKED" THEN SetState(t, t.p[n], "READY") ELSE t
         IN  WellFormed(u) /\ SameRing(t, u)
<1>1. t.p[n] \in Procs(t) /\ "READY" \in ProcState
  BY BlockOfNode DEF ProcState
<1>2. /\ WellFormed(SetState(t, t.p[n], "READY"))
      /\ SameRing(t, SetState(t, t.p[n], "READY"))
  BY <1>1, SetStateWellFormed
<1>3. WellFormed(t) /\ SameRing(t, t)
  BY DEF SameRing
<1> QED BY <1>2, <1>3

\* schedule removes the current process at most.
LEMMA ScheduleSpares ==
  ASSUME NEW t, WellFormed(t), currentNode \in Nodes(t), background \in Nodes(t) \cup {NULL},
         NEW force, Schedule(t, force)
  PROVE  Spared(t, table')
<1>0. \A u : SameRing(u, u)
  BY DEF SameRing
<1>1. CASE table' = t
  BY <1>0, <1>1, SameRingSpares
<1>2. CASE \E from : RunNext(t, from)
  BY <1>2, RunNextRing, SameRingSpares
<1>3. CASE Preempt(t)
  <2> DEFINE u == SetState(t, t.p[currentNode], "READY")
  <2>1. WellFormed(u) /\ SameRing(t, u)
    BY BlockOfNode, SetStateWellFormed DEF ProcState
  <2>2. RunNext(u, t.next[currentNode])
    BY <1>3 DEF Preempt
  <2> HIDE DEF u
  <2>3. SameRing(u, table')
    BY <2>1, <2>2, RunNextRing
  <2> QED BY <1>0, <2>1, <2>3, SameRingSpares, SparedAround
<1>4. CASE ReapCurrent(t)
  <2>1. CASE currentNode = foreground /\ background = NULL
    BY <2>1, <1>2, <1>4 DEF ReapCurrent
  <2>2. ASSUME NEW u, WellFormed(u), SameRing(t, u),
               RunNext(RemoveNode(u, currentNode, currentNode), currentNode)
        PROVE  Spared(t, table')
    <3> DEFINE v == RemoveNode(u, currentNode, currentNode)
    <3>1. currentNode \in Nodes(u)
      BY <2>2 DEF SameRing
    <3>2. WellFormed(v) /\ Spared(u, v)
      BY <2>2, <3>1, RemoveNodeWellFormed, RemoveNodeSpares
    <3>3. SameRing(v, table')
      BY <2>2, <3>2, RunNextRing
    <3> HIDE DEF v
    <3> QED BY <2>2, <3>2, <3>3, SparedAround
  <2>3. CASE currentNode = foreground /\ background # NULL
    <3> DEFINE u == IF t.proc[t.p[background]].state = "BLOCKED"
                      THEN SetState(t, t.p[background], "READY") ELSE t
    <3>1. WellFormed(u) /\ SameRing(t, u)
      BY <2>3, ReadiedRing
    <3>2. RunNext(RemoveNode(u, currentNode, currentNode), currentNode)
      BY <2>3, <1>4 DEF ReapCurrent
    <3> QED BY <2>2, <3>1, <3>2
  <2>4. CASE currentNode # foreground
    BY <1>0, <1>4, <2>2, <2>4 DEF ReapCurrent
  <2> QED BY <2>1, <2>3, <2>4
<1> QED BY <1>1, <1>2, <1>3, <1>4 DEF Schedule

\* addProcess puts the new process right behind the one that called it.
LEMMA AddProcessTurns ==
  ASSUME IInv, Intact, NEW name \in {"IDLE", "shell", "user"},
         NEW priority \in Nat, NEW fg \in BOOLEAN, AddProcess(name, priority, fg),
         NEW x \in Procs(table)
  PROVE  /\ Procs(table) \subseteq Procs(table')
         /\ \/ Following(table', x) = Following(table, x)
            \/ x = Current /\ Following(table', x) \in Procs(table') \ Procs(table)
<1>1. PICK n \in Node \ Nodes(table), q \in Proc \ Procs(table) :
        LET t == AddNode(table, currentNode, n, q, name, priority)
        IN  table' = [t EXCEPT !.proc[Current].askWait = fg /\ name # "shell"]
  BY DEF AddProcess
<1> DEFINE t == AddNode(table, currentNode, n, q, name, priority)
<1>2. currentNode \in Nodes(table) /\ WellFormed(table)
  BY DEF Intact, IInv
<1>3. WellFormed(t) /\ Nodes(t) = Nodes(table) \cup {n} /\ Procs(t) = Procs(table) \cup {q}
  BY <1>2, AddNodeWellFormed
<1>4. /\ t.p = [m \in Nodes(table) \cup {n} |-> IF m = n THEN q ELSE table.p[m]]
      /\ t.next = [m \in Nodes(table) \cup {n} |->
                     IF m = n THEN table.next[currentNode]
                     ELSE IF m = currentNode THEN n ELSE table.next[m]]
  BY DEF AddNode, InsertNode
<1>5. table' = [t EXCEPT !.proc[Current].askWait = fg /\ name # "shell"]
  BY <1>1
<1> HIDE DEF t
<1>6. table'.p = t.p /\ table'.next = t.next /\ Procs(table') = Procs(t)
  BY <1>3, <1>5 DEF WellFormed, TableType, Procs
<1>7. Following(table', x) = Following(t, x)
  BY <1>6 DEF Following, Nodes
<1>8. PICK k \in Nodes(table) : table.p[k] = x /\ Following(table, x) = table.p[table.next[k]]
  BY <1>2, NodeOfBlock
<1>9. k \in Nodes(t) /\ t.p[k] = x /\ Following(t, x) = t.p[t.next[k]]
  <2>1. k \in Nodes(t) /\ t.p[k] = x
    BY <1>3, <1>4, <1>8
  <2> QED BY <2>1, <1>3, FollowingNode
<1>10. CASE k = currentNode
  <2>1. Following(t, x) = q /\ x = Current
    BY <1>4, <1>8, <1>9, <1>10 DEF Current
  <2> QED BY <2>1, <1>3, <1>6, <1>7
<1>11. CASE k # currentNode
  <2>1. table.next[k] \in Nodes(table) /\ table.next[k] # n
    BY <1>2, Parts
  <2> QED BY <2>1, <1>3, <1>4, <1>6, <1>7, <1>8, <1>9, <1>11
<1> QED BY <1>10, <1>11

\* Ctrl-C kills one process at most.
LEMMA CtrlCSpares ==
  ASSUME IInv, CtrlC
  PROVE  Spared(table, table')
<1>0. \A u : SameRing(u, u)
  BY DEF SameRing
<1>1. Intact /\ WellFormed(table) /\ currentNode \in Nodes(table)
  BY DEF CtrlC, IInv, Intact
<1>2. CASE table' = ProcessReady(table, CurrentBlock.parent_pid)
  BY <1>1, <1>2, ProcessReadyWellFormed, SameRingSpares
<1>3. CASE background # NULL
  <2> DEFINE bg == table.p[background]
             t == IF table.proc[bg].state = "BLOCKED"
                    THEN SetState(table, bg, "READY") ELSE table
             victim == table.proc[table.p[foreground]].pid
             killed == SetState(t, Current, "KILLED")
             u == IF currentNode = background THEN killed
                  ELSE RemoveNode(killed, currentNode, currentNode)
  <2>1. IF victim = CurrentBlock.pid THEN RunNext(u, currentNode)
        ELSE table' = ProcessReady(KillOther(t, victim, currentNode), CurrentBlock.parent_pid)
    BY <1>3 DEF CtrlC
  <2>2. WellFormed(t) /\ SameRing(table, t)
    BY <1>1, <1>3, ReadiedRing DEF Intact
  <2> HIDE DEF t, victim
  <2>3. CASE victim = CurrentBlock.pid
    <3>1. Current \in Procs(t)
      BY <1>1, <2>2, BlockOfNode DEF Current, SameRing
    <3>2. WellFormed(killed) /\ SameRing(t, killed)
      BY <2>2, <3>1, SetStateWellFormed DEF ProcState
    <3>3. currentNode \in Nodes(killed) /\ SameRing(table, killed)
      BY <1>1, <2>2, <3>2 DEF SameRing
    <3> HIDE DEF killed
    <3>4. WellFormed(u) /\ Spared(killed, u)
      BY <1>0, <3>2, <3>3, RemoveNodeWellFormed, RemoveNodeSpares, SameRingSpares
    <3> HIDE DEF u
    <3>5. SameRing(u, table')
      BY <2>1, <2>3, <3>4, RunNextRing
    <3> QED BY <3>3, <3>4, <3>5, SparedAround
  <2>4. CASE victim # CurrentBlock.pid
    <3> DEFINE k == KillOther(t, victim, currentNode)
    <3>1. WellFormed(k) /\ Spared(t, k)
      BY <2>2, KillOtherSpares
    <3>2. table' = ProcessReady(k, CurrentBlock.parent_pid)
      BY <2>1, <2>4
    <3> HIDE DEF k
    <3>3. SameRing(k, table')
      BY <3>1, <3>2, ProcessReadyWellFormed
    <3> QED BY <2>2, <3>1, <3>3, SparedAround
  <2> QED BY <2>3, <2>4
<1> QED BY <1>2, <1>3 DEF CtrlC

\* A handler that marks a process and enters schedule.
LEMMA MarkedSpares ==
  ASSUME IInv, Intact, NEW t, WellFormed(t), SameRing(table, t),
         NEW q \in Procs(table), NEW s \in {"KILLED", "BLOCKED"},
         Schedule(SetState(t, q, s), forceNext)
  PROVE  Spared(table, table')
<1> DEFINE u == SetState(t, q, s)
<1>1. q \in Procs(t) /\ s \in ProcState
  BY DEF SameRing, ProcState
<1>2. WellFormed(u) /\ SameRing(t, u)
  BY <1>1, SetStateWellFormed
<1>3. Schedule(u, forceNext)
  OBVIOUS
<1> HIDE DEF u
<1>4. /\ SameRing(table, u) /\ SameRing(table', table')
      /\ currentNode \in Nodes(u) /\ background \in Nodes(u) \cup {NULL}
  BY <1>2 DEF SameRing, Intact
<1>5. Spared(u, table')
  BY <1>2, <1>3, <1>4, ScheduleSpares
<1> QED BY <1>4, <1>5, SparedAround

\* Every step that creates no process spares the others.
LEMMA StepSpares ==
  ASSUME IInv, [Next]_vars, ~Creates
  PROVE  Spared(table, table')
<1>1. WellFormed(table) /\ SameRing(table, table)
  BY DEF IInv, SameRing
<1>2. Intact => /\ currentNode \in Nodes(table) /\ background \in Nodes(table) \cup {NULL}
                /\ Current \in Procs(table)
  BY <1>1, BlockOfNode DEF Intact, Current
<1>3. ASSUME SameRing(table, table') PROVE Spared(table, table')
  BY <1>1, <1>3, SameRingSpares
<1>4. CASE Tick \/ Yield
  BY <1>1, <1>2, <1>4, ScheduleSpares DEF Tick, Yield, Calling
<1>5. CASE Exit
  BY <1>1, <1>2, <1>5, MarkedSpares DEF Exit, Calling
<1>6. CASE WaitPid
  <2> DEFINE proc == [table.proc EXCEPT ![Current].askWait = FALSE]
             t == [table EXCEPT !.proc = proc]
  <2>1. Intact
    BY <1>6 DEF WaitPid, Calling
  <2>2. proc \in [Procs(table) -> PCB]
    BY <2>1, <1>1, <1>2, AskWaitType
  <2>3. t = [table EXCEPT !.proc[Current].askWait = FALSE]
    BY <1>1 DEF WellFormed, TableType
  <2> HIDE DEF proc
  <2>4. WellFormed(t) /\ SameRing(table, t)
    BY <2>2, <1>1, NewBlocks
  <2> HIDE DEF t
  <2>5. Schedule(SetState(t, Current, "BLOCKED"), forceNext) \/ table' = t
    BY <1>6, <2>3 DEF WaitPid
  <2> QED BY <2>1, <2>4, <2>5, <1>2, <1>3, MarkedSpares
<1>7. CASE KillProcess
  <2>1. Intact
    BY <1>7 DEF KillProcess, Calling
  <2>2. \/ Schedule(SetState(table, Current, "KILLED"), forceNext)
        \/ \E pid : table' = KillOther(table, pid, currentNode)
    BY <1>7 DEF KillProcess
  <2> QED BY <2>1, <2>2, <1>1, <1>2, MarkedSpares, KillOtherSpares
<1>8. CASE BlockProcess
  <2>1. Intact
    BY <1>8 DEF BlockProcess, Calling
  <2>2. PICK aux : /\ aux \in Nodes(table)
                   /\ Schedule(SetState(table, table.p[aux], "BLOCKED"), forceNext)
    BY <1>8, FindNodeType DEF BlockProcess
  <2>3. table.p[aux] \in Procs(table)
    BY <2>2, <1>1, BlockOfNode
  <2> QED BY <2>1, <2>2, <2>3, <1>1, MarkedSpares
<1>9. CASE ReadyProcess
  BY <1>1, <1>3, <1>9, ProcessReadyWellFormed DEF ReadyProcess
<1>10. CASE Nice
  <2>1. PICK pid \in Pids, priority \in Priorities : table' = ChangePriority(table, pid, priority)
    BY <1>10 DEF Nice
  <2> QED BY <2>1, <1>1, <1>3, PrioritiesAssumption, ChangePriorityWellFormed
<1>11. CASE CtrlC
  BY <1>11, CtrlCSpares
<1>12. CASE UNCHANGED vars
  BY <1>1, <1>3, <1>12 DEF vars
<1> QED BY <1>4, <1>5, <1>6, <1>7, <1>8, <1>9, <1>10, <1>11, <1>12 DEF Next, Creates, Undefined

\* Whatever is called, a step puts at most one process into the ring, behind its creator, and
\* closes the gap of one that it removes: the others keep their order.
THEOREM TurnsKept == Spec => KeepsTurns
<1> DEFINE Kept == Intact => \A q \in Procs(table) \cap Procs(table') :
                     LET after == Following(table, q)
                     IN  Following(table', q) \in
                           IF after \notin Procs(table') THEN {Following(table, after)}
                           ELSE {after} \cup IF q = Current THEN Procs(table') \ Procs(table) ELSE {}
<1>1. IInv /\ [Next]_vars => [Kept]_vars
  <2> SUFFICES ASSUME IInv, [Next]_vars, Intact, NEW q \in Procs(table) \cap Procs(table')
               PROVE  LET after == Following(table, q)
                      IN  Following(table', q) \in
                            IF after \notin Procs(table') THEN {Following(table, after)}
                            ELSE {after} \cup IF q = Current THEN Procs(table') \ Procs(table) ELSE {}
    OBVIOUS
  <2>1. CASE ~Creates
    BY <2>1, StepSpares DEF Spared
  <2>2. CASE Creates
    <3>1. \E name \in {"IDLE", "shell", "user"}, priority \in Nat, fg \in BOOLEAN :
            AddProcess(name, priority, fg)
      BY <2>2, PrioritiesAssumption DEF Creates, Boot, Exec, ExecForeground
    <3>2. /\ Procs(table) \subseteq Procs(table')
          /\ \/ Following(table', q) = Following(table, q)
             \/ q = Current /\ Following(table', q) \in Procs(table') \ Procs(table)
      BY <3>1, AddProcessTurns
    <3>3. Following(table, q) \in Procs(table)
      BY NodeOfBlock DEF IInv
    <3> QED BY <3>2, <3>3
  <2> QED BY <2>1, <2>2
<1> QED BY <1>1, Invariance, PTL DEF Spec, KeepsTurns
-----------------------------------------------------------------------------
(* Parents, children and the global pointers, for programs that create,      *)
(* wait, yield, change priorities and end.                                   *)

\* Nobody kills, blocks or readies another process, the first program makes no calls, the shell never
\* ends and is the only one to run programs in the foreground; and children cannot wrap.
ForkJoin ==
  /\ Calls["IDLE"] = {}
  /\ Calls["shell"] \subseteq {"exec", "execfg", "waitpid", "yield", "nice"}
  /\ Calls["user"] \subseteq {"exec", "waitpid", "yield", "nice", "exit"}
  /\ ~Interrupts
  /\ Cardinality(Node) <= ChildrenMod

-----------------------------------------------------------------------------
(* The invariant: who is whose child, where IDLE and the shell are in the    *)
(* ring, and what the global pointers refer to.                              *)

\* node.p, followed.
Block(t, m) == t.proc[t.p[m]]

\* The children of q, of which IDLE, its own parent, is none.
Offspring(t, q) == {x \in Procs(t) \ {q} : t.proc[x].parent_pid = t.proc[q].pid}

\* Pids are unique, nobody but IDLE is its own parent, children is right, and who waits has a child.
Kin(t) ==
  /\ \A x, y \in Procs(t) : t.proc[x].pid = t.proc[y].pid => x = y
  /\ \A x \in Procs(t) : t.proc[x].parent_pid = t.proc[x].pid => t.proc[x].name = "IDLE"
  /\ \A x \in Procs(t) : t.proc[x].children = Cardinality(Offspring(t, x))
  /\ \A x \in Procs(t) : t.proc[x].state = "BLOCKED" => t.proc[x].children # 0

\* IDLE is at the root, and the shell behind it.
Home(t, started) ==
  /\ t.root \in Nodes(t)
  /\ Block(t, t.root).name = "IDLE" /\ Block(t, t.root).pid = 0
  /\ Block(t, t.root).state \notin {"BLOCKED", "KILLED"}
  /\ \A m \in Nodes(t) : /\ Block(t, m).name = "IDLE" => m = t.root
                         /\ Block(t, m).name = "shell" => m = t.next[t.root]
  /\ IF started
       THEN /\ Block(t, t.next[t.root]).name = "shell"
            /\ Block(t, t.next[t.root]).state # "KILLED"
       ELSE Nodes(t) = {t.root}

\* The shell is in the foreground, or behind it is the program it waits for.
Front(t, started, fg, bg) ==
  LET s == t.next[t.root]
      f == t.next[s]
  IN  \/ ~started /\ fg = NULL /\ bg = NULL
      \/ started /\ fg = s /\ bg = NULL
      \/ /\ started /\ fg = f /\ bg = s
         /\ Block(t, f).name = "user" /\ Block(t, f).parent_pid = Block(t, s).pid
         /\ Block(t, s).state = "BLOCKED" \/ Block(t, s).askWait

\* All of it, with the current process marked RUNNING.
Family(t, cur, started, fg, bg) ==
  /\ cur \in Nodes(t) /\ Block(t, cur).state = "RUNNING"
  /\ Kin(t) /\ Home(t, started) /\ Front(t, started, fg, bg)

\* It is claimed until a pid that is in use is given out.
FamilyInv == ~reused => Family(table, currentNode, booted, foreground, background)

-----------------------------------------------------------------------------
(* Finding.                                                                  *)

\* A walk around the ring meets a target if there is one.
LEMMA NearestFinds ==
  ASSUME NEW t, WellFormed(t), NEW from \in Nodes(t), NEW targets \in SUBSET Nodes(t), targets # {}
  PROVE  Nearest(t, from, targets) \in targets
<1> DEFINE met == Met(t, from, targets)
<1>1. met \cap targets # {}
  <2> SUFFICES ASSUME met \cap targets = {} PROVE FALSE
    OBVIOUS
  <2>1. met \in SUBSET Nodes(t) /\ from \in met
    BY DEF Met
  <2>2. ASSUME NEW m \in met PROVE t.next[m] \in met
    <3>1. t.next[m] \in Nodes(t)
      BY <2>1, Parts
    <3>2. ASSUME NEW part \in SUBSET Nodes(t), from \in part,
                 \A x \in part \ targets : t.next[x] \in part
          PROVE  t.next[m] \in part
      BY <3>2 DEF Met
    <3> QED BY <3>1, <3>2 DEF Met
  <2>3. met = Nodes(t)
    BY <2>1, <2>2 DEF WellFormed, OneCycle
  <2> QED BY <2>3
<1> QED BY <1>1 DEF Nearest

\* findNode finds the one process with a pid, if there is one.
LEMMA FindNodeFinds ==
  ASSUME NEW t, WellFormed(t), t.root \in Nodes(t), NEW pid
  PROVE  /\ FindNode(t, pid) # NULL => /\ FindNode(t, pid) \in Nodes(t)
                                       /\ Block(t, FindNode(t, pid)).pid = pid
         /\ FindNode(t, pid) = NULL => \A m \in Nodes(t) : Block(t, m).pid # pid
<1>1. Holders(t, pid) \in SUBSET Nodes(t) /\ NULL \notin Nodes(t)
  BY Parts, NodeAssumption DEF Holders
<1>2. FindNode(t, pid) # NULL => FindNode(t, pid) \in Holders(t, pid)
  BY NearestIsTarget DEF FindNode
<1>3. Holders(t, pid) # {} => FindNode(t, pid) \in Nodes(t)
  BY <1>1, NearestFinds DEF FindNode
<1> QED BY <1>1, <1>2, <1>3 DEF Holders, Block

-----------------------------------------------------------------------------
(* Steps that change what processes do and not who they are.                 *)

\* The same ring with the same processes, whatever they do.
Alike(t, u) ==
  /\ SameRing(t, u)
  /\ \A x \in Procs(t) : /\ u.proc[x].pid = t.proc[x].pid
                         /\ u.proc[x].parent_pid = t.proc[x].parent_pid
                         /\ u.proc[x].name = t.proc[x].name
                         /\ u.proc[x].children = t.proc[x].children

\* Families stay what they are if nobody starts to wait without a child.
LEMMA KinAlike ==
  ASSUME NEW t, NEW u, Kin(t), Alike(t, u),
         \A x \in Procs(t) : u.proc[x].state = "BLOCKED" =>
           t.proc[x].state = "BLOCKED" \/ t.proc[x].children # 0
  PROVE  Kin(u)
<1>1. Procs(u) = Procs(t)
  BY DEF Alike, SameRing
<1>2. \A x \in Procs(t) : Offspring(u, x) = Offspring(t, x)
  BY <1>1 DEF Offspring, Alike
<1> QED BY <1>1, <1>2 DEF Kin, Alike

\* IDLE and the shell stay where they are if IDLE does not block or end, nor the shell end.
LEMMA HomeAlike ==
  ASSUME NEW t, NEW u, WellFormed(t), NEW started, Home(t, started), Alike(t, u),
         \A x \in Procs(t) :
           /\ u.proc[x].state = "BLOCKED" => t.proc[x].state = "BLOCKED" \/ t.proc[x].name # "IDLE"
           /\ u.proc[x].state = "KILLED" => t.proc[x].state = "KILLED" \/ t.proc[x].name = "user"
  PROVE  Home(u, started)
<1>1. /\ Nodes(u) = Nodes(t) /\ u.p = t.p /\ u.next = t.next /\ u.root = t.root
  BY DEF Alike, SameRing
<1>2. \A m \in Nodes(t) : t.p[m] \in Procs(t) /\ t.next[m] \in Nodes(t)
  BY Parts
<1>3. t.root \in Nodes(t) /\ t.next[t.root] \in Nodes(t)
  BY <1>2 DEF Home
<1>4. \A m \in Nodes(t) : /\ Block(u, m).pid = Block(t, m).pid
                          /\ Block(u, m).name = Block(t, m).name
                          /\ Block(u, m).state = "BLOCKED" => Block(t, m).state = "BLOCKED" \/ Block(t, m).name # "IDLE"
                          /\ Block(u, m).state = "KILLED" => Block(t, m).state = "KILLED" \/ Block(t, m).name = "user"
  BY <1>1, <1>2 DEF Alike, Block
<1> QED BY <1>1, <1>3, <1>4 DEF Home

\* The pointers stay right if a shell that waits, or is about to, goes on doing so.
LEMMA FrontAlike ==
  ASSUME NEW t, NEW u, WellFormed(t), NEW started, NEW fg, NEW bg,
         Home(t, started), Front(t, started, fg, bg), Alike(t, u),
         bg = NULL \/ \A x \in Procs(t) :
           (t.proc[x].state = "BLOCKED" \/ t.proc[x].askWait) /\ t.proc[x].name = "shell" =>
           u.proc[x].state = "BLOCKED" \/ u.proc[x].askWait
  PROVE  Front(u, started, fg, bg)
<1>1. u.p = t.p /\ u.next = t.next /\ u.root = t.root
  BY DEF Alike, SameRing
<1>2. \A m \in Nodes(t) : t.p[m] \in Procs(t) /\ t.next[m] \in Nodes(t)
  BY Parts
<1>3. t.root \in Nodes(t) /\ t.next[t.root] \in Nodes(t) /\ t.next[t.next[t.root]] \in Nodes(t)
  BY <1>2 DEF Home
<1>4. \A m \in Nodes(t) : /\ Block(u, m).pid = Block(t, m).pid
                          /\ Block(u, m).parent_pid = Block(t, m).parent_pid
                          /\ Block(u, m).name = Block(t, m).name
  BY <1>1, <1>2 DEF Alike, Block
<1>5. CASE bg = NULL
  <2>1. bg # t.next[t.root]
    BY <1>3, <1>5, Parts, NodeAssumption
  <2> QED BY <1>1, <1>5, <2>1 DEF Front
<1>6. CASE bg # NULL
  <2>1. \A m \in Nodes(t) :
          (Block(t, m).state = "BLOCKED" \/ Block(t, m).askWait) /\ Block(t, m).name = "shell" =>
          Block(u, m).state = "BLOCKED" \/ Block(u, m).askWait
    BY <1>1, <1>2, <1>6 DEF Block
  <2>2. started => Block(t, t.next[t.root]).name = "shell"
    BY DEF Home
  <2> QED BY <1>1, <1>3, <1>4, <1>6, <2>1, <2>2 DEF Front
<1> QED BY <1>5, <1>6

\* Giving a process another state tells nobody apart.
LEMMA SetStateAlike ==
  ASSUME NEW t, WellFormed(t), NEW q \in Procs(t), NEW s \in ProcState
  PROVE  /\ Alike(t, SetState(t, q, s)) /\ WellFormed(SetState(t, q, s))
         /\ SetState(t, q, s).proc[q].state = s
         /\ \A x \in Procs(t) \ {q} : SetState(t, q, s).proc[x] = t.proc[x]
         /\ \A x \in Procs(t) : SetState(t, q, s).proc[x].askWait = t.proc[x].askWait
<1> DEFINE u == SetState(t, q, s)
<1>1. WellFormed(u) /\ SameRing(t, u) /\ u.proc = [t.proc EXCEPT ![q].state = s]
  BY SetStateWellFormed
<1> HIDE DEF u
<1>2. t.proc \in [Procs(t) -> PCB]
  BY Parts
<1>3. /\ u.proc[q].state = s /\ u.proc[q].pid = t.proc[q].pid /\ u.proc[q].name = t.proc[q].name
      /\ u.proc[q].parent_pid = t.proc[q].parent_pid /\ u.proc[q].children = t.proc[q].children
      /\ u.proc[q].askWait = t.proc[q].askWait
  BY <1>1, <1>2 DEF PCB
<1>4. \A x \in Procs(t) \ {q} : u.proc[x] = t.proc[x]
  BY <1>1, <1>2
<1> QED BY <1>1, <1>3, <1>4 DEF Alike, u

\* A process that can run is there as long as IDLE is not the one running.
LEMMA SomebodyRunnable ==
  ASSUME NEW t, WellFormed(t), NEW started, Home(t, started), NEW from \in Nodes(t),
         \A x \in Procs(t) : t.proc[x].state # "RUNNING"
  PROVE  /\ FindNext(t, from) \in Nodes(t)
         /\ Block(t, FindNext(t, from)).state \in {"READY", "NEW"}
<1>1. t.root \in Nodes(t) /\ t.p[t.root] \in Procs(t) /\ Block(t, t.root) \in PCB
  BY BlockOfNode, SMTT(30) DEF Home, Block
<1>2. Block(t, t.root).state \in {"READY", "NEW"}
  BY <1>1 DEF Home, Block, PCB, ProcState
<1>3. t.root \in Runnable(t)
  BY <1>1, <1>2 DEF Runnable, Block
<1>4. Runnable(t) \in SUBSET Nodes(t)
  BY DEF Runnable
<1>5. FindNext(t, from) \in Runnable(t)
  BY <1>3, <1>4, NearestFinds DEF FindNext
<1> QED BY <1>5 DEF Runnable, Block

\* runNext finds somebody, and nothing else changes.
LEMMA RunNextFamily ==
  ASSUME NEW t, WellFormed(t), NEW started, NEW fg, NEW bg, NEW from \in Nodes(t),
         Kin(t), Home(t, started), Front(t, started, fg, bg),
         \A x \in Procs(t) : t.proc[x].state # "RUNNING", RunNext(t, from)
  PROVE  Family(table', currentNode', started, fg, bg)
<1>1. PICK n \in Nodes(t) : /\ n = FindNext(t, from)
                            /\ Block(t, n).state \in {"READY", "NEW"}
  BY SomebodyRunnable
<1>2. n # NULL
  BY Parts, NodeAssumption
<1>3. PICK q \in Procs(t) : q = t.p[n]
  BY Parts
<1> DEFINE u == SetState(t, q, "RUNNING")
<1>4. table' = u /\ currentNode' = n
  BY <1>1, <1>2, <1>3 DEF RunNext
<1>5. /\ Alike(t, u) /\ u.proc[q].state = "RUNNING"
      /\ \A x \in Procs(t) \ {q} : u.proc[x] = t.proc[x]
      /\ \A x \in Procs(t) : u.proc[x].askWait = t.proc[x].askWait
  BY SetStateAlike DEF ProcState
<1>6. t.proc[q].state \in {"READY", "NEW"}
  BY <1>1, <1>3 DEF Block
<1> HIDE DEF u
<1>7. Kin(u)
  BY <1>5, KinAlike
<1>8. Home(u, started)
  BY <1>5, HomeAlike
<1>9. Front(u, started, fg, bg)
  BY <1>5, <1>6, FrontAlike
<1>10. n \in Nodes(u) /\ Block(u, n).state = "RUNNING"
  BY <1>3, <1>5 DEF Alike, SameRing, Block
<1> QED BY <1>4, <1>7, <1>8, <1>9, <1>10 DEF Family

-----------------------------------------------------------------------------
(* Taking a process out.                                                     *)

\* There are no more control blocks than nodes.
LEMMA FiniteProcs ==
  ASSUME NEW t, WellFormed(t)
  PROVE  /\ IsFiniteSet(Procs(t)) /\ Cardinality(Procs(t)) <= Cardinality(Nodes(t))
         /\ Cardinality(Procs(t)) \in Nat /\ Cardinality(Nodes(t)) \in Nat
<1>1. t.p \in [Nodes(t) -> Procs(t)] /\ IsFiniteSet(Nodes(t))
  BY Parts
<1>2. \A q \in Procs(t) : \E m \in Nodes(t) : t.p[m] = q
  BY DEF WellFormed, OneNodeEach
<1>3. t.p \in Surjection(Nodes(t), Procs(t))
  BY <1>1, <1>2 DEF Surjection
<1> QED BY <1>1, <1>3, FS_Surjection, FS_CardinalityType

\* The children of a process are finitely many.
LEMMA FiniteOffspring ==
  ASSUME NEW t, WellFormed(t), NEW q \in Procs(t)
  PROVE  /\ IsFiniteSet(Offspring(t, q)) /\ Cardinality(Offspring(t, q)) \in Nat
         /\ Cardinality(Offspring(t, q)) <= Cardinality(Nodes(t)) - 1
<1>1. /\ IsFiniteSet(Procs(t) \ {q}) /\ Cardinality(Procs(t) \ {q}) = Cardinality(Procs(t)) - 1
  BY FiniteProcs, FS_RemoveElement
<1>2. Offspring(t, q) \subseteq Procs(t) \ {q}
  BY DEF Offspring
<1>3. /\ IsFiniteSet(Offspring(t, q)) /\ Cardinality(Offspring(t, q)) <= Cardinality(Procs(t) \ {q})
  BY <1>1, <1>2, FS_Subset
<1> QED BY <1>1, <1>3, FiniteProcs, FS_CardinalityType

\* A child taken out and off the count of its parent leaves every other family as it was.
LEMMA KinWithout ==
  ASSUME NEW t, NEW u, WellFormed(t), Kin(t), NEW gone \in Procs(t), NEW parent \in Procs(t),
         gone # parent, t.proc[gone].parent_pid = t.proc[parent].pid,
         Procs(u) = Procs(t) \ {gone},
         \A x \in Procs(u) :
           /\ u.proc[x].pid = t.proc[x].pid /\ u.proc[x].parent_pid = t.proc[x].parent_pid
           /\ u.proc[x].name = t.proc[x].name
           /\ u.proc[x].children = IF x = parent THEN t.proc[x].children - 1 ELSE t.proc[x].children
           /\ u.proc[x].state = "BLOCKED" => t.proc[x].state = "BLOCKED" /\ u.proc[x].children # 0
  PROVE  Kin(u)
<1>1. ASSUME NEW x \in Procs(u)
      PROVE  u.proc[x].children = Cardinality(Offspring(u, x))
  <2>1. x \in Procs(t) /\ t.proc[x].children = Cardinality(Offspring(t, x))
    BY DEF Kin
  <2>2. Offspring(u, x) = Offspring(t, x) \ {gone}
    BY <2>1 DEF Offspring
  <2>3. CASE x = parent
    <3>1. gone \in Offspring(t, x)
      BY <2>3 DEF Offspring
    <3>2. Cardinality(Offspring(t, x) \ {gone}) = Cardinality(Offspring(t, x)) - 1
      BY <2>1, <3>1, FiniteOffspring, FS_RemoveElement
    <3> QED BY <2>1, <2>2, <2>3, <3>2
  <2>4. CASE x # parent
    <3>1. gone \notin Offspring(t, x)
      BY <2>1, <2>4 DEF Offspring, Kin
    <3> QED BY <2>1, <2>2, <2>4, <3>1
  <2> QED BY <2>3, <2>4
<1> QED BY <1>1 DEF Kin

\* Unlinking a program leaves IDLE, the shell and what is behind it in their places.
LEMMA HomeWithout ==
  ASSUME NEW t, WellFormed(t), Kin(t), NEW started, Home(t, started), NEW n \in Nodes(t), Block(t, n).name = "user",
         NEW proc \in [Procs(t) -> PCB],
         \A x \in Procs(t) : /\ proc[x].pid = t.proc[x].pid /\ proc[x].name = t.proc[x].name
                             /\ proc[x].state \in {t.proc[x].state, "READY"}
  PROVE  LET u == Unlink(t, n, proc)
             s == t.next[t.root]
             f == t.next[s]
         IN  /\ Home(u, started) /\ n \in Nodes(u) /\ started
             /\ s \in Nodes(u) /\ u.next[u.root] = s /\ u.p[s] = t.p[s]
             /\ f # n => f \in Nodes(u) /\ u.next[s] = f /\ u.p[f] = t.p[f]
<1> DEFINE u == Unlink(t, n, proc)
           s == t.next[t.root]
           f == t.next[s]
           a == t.next[n]
<1>1. /\ t.next \in [Nodes(t) -> Nodes(t)] /\ t.p \in [Nodes(t) -> Procs(t)]
      /\ t.root \in Nodes(t) /\ n # t.root
  BY Parts DEF Home
<1>2. /\ \A k, m \in Nodes(t) : t.next[k] = t.next[m] => k = m
      /\ \A k, m \in Nodes(t) : t.p[k] = t.p[m] => k = m
  BY DEF WellFormed, OneCycle, OneNodeEach
<1>3. /\ Nodes(u) = Nodes(t) \ {a} /\ u.next = [m \in Nodes(t) \ {a} |-> IF m = n THEN t.next[a] ELSE t.next[m]]
      /\ u.p = [m \in Nodes(t) \ {a} |-> IF m = n THEN t.p[a] ELSE t.p[m]]
      /\ u.proc = [x \in Procs(t) \ {t.p[n]} |-> proc[x]]
      /\ u.root = IF t.proc[t.p[a]].pid = 0 THEN n ELSE t.root
  BY DEF Unlink, ToFree, Nodes, RootAfter
<1> HIDE DEF u
<1>4. started /\ Block(t, s).name = "shell" /\ Block(t, s).state # "KILLED"
  BY <1>1 DEF Home
<1>5. n # a
  <2> SUFFICES ASSUME n = a PROVE FALSE
    OBVIOUS
  <2>1. {n} \in SUBSET Nodes(t) /\ {n} # {} /\ \A m \in {n} : t.next[m] \in {n}
    OBVIOUS
  <2>2. {n} = Nodes(t)
    BY <2>1 DEF WellFormed, OneCycle
  <2> QED BY <1>1, <2>2
<1>6. s \in Nodes(t) /\ f \in Nodes(t) /\ a \in Nodes(t) /\ s # n /\ s # t.root
  BY <1>1, <1>4 DEF Home
<1>7. s # a /\ f # a
  <2>1. s # a
    BY <1>1, <1>2
  <2>2. f # a
    BY <1>2, <1>6
  <2> QED BY <2>1, <2>2
<1>8. t.proc[t.p[a]].pid = 0 <=> a = t.root
  <2>1. t.p[a] \in Procs(t) /\ t.p[t.root] \in Procs(t) /\ t.proc[t.p[t.root]].pid = 0
    BY <1>1, <1>6 DEF Home, Block
  <2>2. t.proc[t.p[a]].pid = 0 => t.p[a] = t.p[t.root]
    BY <2>1 DEF Kin
  <2> QED BY <1>1, <1>2, <1>6, <2>1, <2>2
<1> HIDE DEF a, s, f
<1>9. u.root \in Nodes(u) /\ u.p[u.root] = t.p[t.root] /\ u.next[u.root] = s
  <2>1. s = t.next[t.root]
    BY DEF s
  <2>2. CASE a = t.root
    BY <1>1, <1>3, <1>5, <1>8, <2>1, <2>2
  <2>3. CASE a # t.root
    BY <1>1, <1>3, <1>8, <2>1, <2>3
  <2> QED BY <2>2, <2>3
<1>10. u.p[s] = t.p[s] /\ s \in Nodes(u) /\ n \in Nodes(u)
  BY <1>3, <1>5, <1>6, <1>7
<1>11. f # n => f \in Nodes(u) /\ u.next[s] = f /\ u.p[f] = t.p[f]
  <2>1. f = t.next[s]
    BY DEF f
  <2> QED BY <1>3, <1>6, <1>7, <2>1
<1>12. ASSUME NEW m \in Nodes(t), m # n
       PROVE  u.proc[t.p[m]] = proc[t.p[m]]
  <2>1. t.p[m] \in Procs(t) \ {t.p[n]}
    BY <1>1, <1>2, <1>12
  <2> QED BY <1>3, <2>1
<1>13. ASSUME NEW m \in Nodes(u)
       PROVE  \E k \in Nodes(t) \ {n} : u.p[m] = t.p[k] /\ m = IF k = a THEN n ELSE k
  <2>1. CASE m = n
    BY <1>3, <1>5, <1>6, <2>1
  <2>2. CASE m # n
    BY <1>3, <2>2
  <2> QED BY <2>1, <2>2
<1>14. ASSUME NEW m \in Nodes(u)
       PROVE  /\ Block(u, m).name = "IDLE" => m = u.root
              /\ Block(u, m).name = "shell" => m = s
  <2>1. PICK k \in Nodes(t) \ {n} : u.p[m] = t.p[k] /\ m = IF k = a THEN n ELSE k
    BY <1>13
  <2>2. Block(u, m) = proc[t.p[k]] /\ t.p[k] \in Procs(t)
    BY <1>1, <1>12, <2>1 DEF Block
  <2>3. /\ Block(u, m).name = "IDLE" => k = t.root
        /\ Block(u, m).name = "shell" => k = s
    BY <2>2 DEF Home, Block, s
  <2> QED BY <1>3, <1>7, <1>8, <2>1, <2>3
<1>15. /\ Block(u, u.root) = proc[t.p[t.root]] /\ t.p[t.root] \in Procs(t)
       /\ Block(u, s) = proc[t.p[s]] /\ t.p[s] \in Procs(t)
  BY <1>1, <1>6, <1>9, <1>10, <1>12 DEF Block
<1>16. /\ Block(u, u.root).name = "IDLE" /\ Block(u, u.root).pid = 0
       /\ Block(u, u.root).state \notin {"BLOCKED", "KILLED"}
  BY <1>15 DEF Home, Block
<1>17. Block(u, s).name = "shell" /\ Block(u, s).state # "KILLED"
  BY <1>4, <1>15 DEF Block
<1>18. Home(u, started)
  BY <1>4, <1>9, <1>14, <1>16, <1>17 DEF Home
<1> QED BY <1>4, <1>9, <1>10, <1>11, <1>18 DEF a, s, f, u

\* Taking a child off its parent changes one count, and wakes nobody else.
LEMMA LoseChildFacts ==
  ASSUME NEW t, WellFormed(t), NEW parent \in Nodes(t), Block(t, parent).children # 0
  PROVE  LET proc == LoseChild(t, parent)
         IN  /\ proc \in [Procs(t) -> PCB]
             /\ \A x \in Procs(t) :
                  /\ proc[x].pid = t.proc[x].pid /\ proc[x].parent_pid = t.proc[x].parent_pid
                  /\ proc[x].name = t.proc[x].name /\ proc[x].askWait = t.proc[x].askWait
                  /\ proc[x].children = IF x = t.p[parent] THEN t.proc[x].children - 1 ELSE t.proc[x].children
                  /\ \/ proc[x].state = t.proc[x].state /\ (x = t.p[parent] => proc[x].children # 0)
                     \/ proc[x].state = "READY" /\ proc[x].children = 0
<1> DEFINE h == t.p[parent]
           proc == LoseChild(t, parent)
           left == t.proc[h].children - 1
<1>1. h \in Procs(t) /\ t.proc \in [Procs(t) -> PCB] /\ proc \in [Procs(t) -> PCB]
  BY Parts, LoseChildType
<1>2. t.proc[h].children \in 0 .. ChildrenMod - 1 /\ t.proc[h].children # 0
  BY <1>1 DEF PCB, Block
<1>3. (t.proc[h].children + ChildrenMod - 1) % ChildrenMod = left
  <2>1. \A c \in 1 .. ChildrenMod - 1 : (c + ChildrenMod - 1) % ChildrenMod = c - 1
    BY ChildrenModAssumption, SMTT(30)
  <2> QED BY <1>2, <2>1, ChildrenModAssumption
<1>4. proc = [t.proc EXCEPT ![h].children = left, ![h].state = IF left = 0 THEN "READY" ELSE @]
  BY <1>3 DEF LoseChild
<1> HIDE DEF proc, left, h
<1>5. \A x \in Procs(t) \ {h} : proc[x] = t.proc[x]
  BY <1>1, <1>4
<1>6. /\ proc[h].pid = t.proc[h].pid /\ proc[h].parent_pid = t.proc[h].parent_pid
      /\ proc[h].name = t.proc[h].name /\ proc[h].askWait = t.proc[h].askWait
      /\ proc[h].children = left /\ proc[h].state = IF left = 0 THEN "READY" ELSE t.proc[h].state
  BY <1>1, <1>4 DEF PCB
<1> QED BY <1>1, <1>5, <1>6 DEF proc, left, h

\* removeNode of the current process, when it is a program: its family, IDLE, the shell and the
\* pointers, none of which is to it, survive.
LEMMA RemoveFamily ==
  ASSUME NEW t, WellFormed(t), Kin(t), NEW started, Home(t, started), NEW n \in Nodes(t),
         Block(t, n).name = "user", NEW fg, NEW bg, Front(t, started, fg, bg), n # fg,
         \A x \in Procs(t) : t.proc[x].state # "RUNNING"
  PROVE  LET u == RemoveNode(t, n, n)
         IN  /\ WellFormed(u) /\ Kin(u) /\ Home(u, started) /\ Front(u, started, fg, bg)
             /\ n \in Nodes(u) /\ \A x \in Procs(u) : u.proc[x].state # "RUNNING"
<1> DEFINE u == RemoveNode(t, n, n)
           q == t.p[n]
           parent == FindNode(t, t.proc[q].parent_pid)
<1>1. CASE parent = NULL
  <2>1. u = t
    BY <1>1 DEF RemoveNode
  <2> QED BY <2>1
<1>2. CASE parent # NULL
  <2> DEFINE proc == LoseChild(t, parent)
             h == t.p[parent]
  <2>1. q \in Procs(t) /\ t.proc[q].name = "user" /\ t.root \in Nodes(t)
    BY BlockOfNode DEF Block, Home
  <2>2. parent \in Nodes(t) /\ t.proc[h].pid = t.proc[q].parent_pid /\ h \in Procs(t)
    BY <1>2, <2>1, FindNodeFinds, BlockOfNode DEF Block
  <2>3. h # q
    BY <2>1, <2>2, SMTT(30) DEF Kin
  <2>4. t.proc[h].children # 0
    <3>1. q \in Offspring(t, h)
      BY <2>1, <2>2, <2>3 DEF Offspring
    <3>2. IsFiniteSet(Offspring(t, h)) /\ t.proc[h].children = Cardinality(Offspring(t, h))
      BY <2>2, FiniteOffspring, SMTT(30) DEF Kin
    <3> QED BY <3>1, <3>2, FS_EmptySet
  <2>5. /\ proc \in [Procs(t) -> PCB]
        /\ \A x \in Procs(t) :
             /\ proc[x].pid = t.proc[x].pid /\ proc[x].parent_pid = t.proc[x].parent_pid
             /\ proc[x].name = t.proc[x].name /\ proc[x].askWait = t.proc[x].askWait
             /\ proc[x].children = IF x = h THEN t.proc[x].children - 1 ELSE t.proc[x].children
             /\ \/ proc[x].state = t.proc[x].state /\ (x = h => proc[x].children # 0)
                \/ proc[x].state = "READY" /\ proc[x].children = 0
    BY <2>2, <2>4, LoseChildFacts, ZenonT(60) DEF Block
  <2>6. u = Unlink(t, n, proc)
    BY <1>2 DEF RemoveNode
  <2> HIDE DEF proc, h, parent, q
  <2>7. /\ WellFormed(u) /\ Procs(u) = Procs(t) \ {q} /\ \A x \in Procs(u) : u.proc[x] = proc[x]
    BY <2>5, <2>6, UnlinkWellFormed DEF q
  <2> DEFINE s == t.next[t.root]
             f == t.next[s]
  <2>8. /\ Home(u, started) /\ n \in Nodes(u) /\ started
        /\ s \in Nodes(u) /\ u.next[u.root] = s /\ u.p[s] = t.p[s]
        /\ f # n => f \in Nodes(u) /\ u.next[s] = f /\ u.p[f] = t.p[f]
    BY <2>5, <2>6, HomeWithout
  <2> HIDE DEF s, f, u
  <2>9. Kin(u)
    <3>1. \A x \in Procs(u) : u.proc[x].state = "BLOCKED" => t.proc[x].state = "BLOCKED" /\ u.proc[x].children # 0
      BY <2>5, <2>7 DEF Kin
    <3>2. \A x \in Procs(u) :
           /\ u.proc[x].pid = t.proc[x].pid /\ u.proc[x].parent_pid = t.proc[x].parent_pid
           /\ u.proc[x].name = t.proc[x].name
           /\ u.proc[x].children = IF x = h THEN t.proc[x].children - 1 ELSE t.proc[x].children
      BY <2>5, <2>7
    <3> QED BY <2>1, <2>2, <2>3, <2>7, <3>1, <3>2, KinWithout
  <2>10. \A x \in Procs(u) : u.proc[x].state # "RUNNING"
    BY <2>5, <2>7
  <2>11. Front(u, started, fg, bg)
    <3>1. CASE fg = s /\ bg = NULL
      BY <2>8, <3>1 DEF Front
    <3>2. CASE /\ fg = f /\ bg = s /\ Block(t, f).name = "user" /\ Block(t, f).parent_pid = Block(t, s).pid
               /\ Block(t, s).state = "BLOCKED" \/ Block(t, s).askWait
      <4>1. f # n /\ f \in Nodes(u) /\ u.next[s] = f /\ u.p[f] = t.p[f]
        BY <2>8, <3>2
      <4>2. PICK x \in Procs(u) : x = u.p[s] /\ x = t.p[s]
        BY <2>7, <2>8, BlockOfNode
      <4>3. PICK y \in Procs(u) : y = u.p[f] /\ y = t.p[f]
        BY <2>7, <4>1, BlockOfNode
      <4>4. /\ u.proc[y].name = "user" /\ u.proc[y].parent_pid = u.proc[x].pid
            /\ u.proc[x].askWait = t.proc[x].askWait
            /\ u.proc[x].state = t.proc[x].state \/ u.proc[x].children = 0
        BY <2>5, <2>7, <3>2, <4>2, <4>3, SMTT(30) DEF Block
      <4>5. u.proc[x].name = "shell"
        BY <2>8, <4>2 DEF Home, Block
      <4>6. u.proc[x].children # 0
        <5>1. y \in Offspring(u, x)
          BY <4>4, <4>5 DEF Offspring
        <5>2. IsFiniteSet(Offspring(u, x)) /\ u.proc[x].children = Cardinality(Offspring(u, x))
          BY <2>7, <2>9, FiniteOffspring DEF Kin
        <5> QED BY <5>1, <5>2, FS_EmptySet
      <4>7. u.proc[x].state = "BLOCKED" \/ u.proc[x].askWait
        BY <3>2, <4>2, <4>4, <4>6 DEF Block
      <4> QED BY <2>8, <3>2, <4>1, <4>2, <4>3, <4>4, <4>7 DEF Front, Block
    <3> QED BY <2>8, <3>1, <3>2 DEF Front, s, f
  <2> QED BY <2>7, <2>8, <2>9, <2>10, <2>11 DEF u
<1> QED BY <1>1, <1>2

-----------------------------------------------------------------------------
(* schedule.                                                                 *)

\* A program that ended is reaped; if it was in the foreground the shell is there again.
LEMMA ReapFamily ==
  ASSUME NEW t, WellFormed(t), Kin(t), Home(t, booted), Front(t, booted, foreground, background),
         currentNode \in Nodes(t), Block(t, currentNode).name = "user",
         \A x \in Procs(t) : t.proc[x].state # "RUNNING", ReapCurrent(t)
  PROVE  Family(table', currentNode', booted, foreground', background')
<1> DEFINE n == currentNode
           s == t.next[t.root]
           f == t.next[s]
<1>1. /\ s \in Nodes(t) /\ f \in Nodes(t) /\ t.root \in Nodes(t)
      /\ NULL \notin Nodes(t)
  BY Parts, NodeAssumption DEF Home
<1>2. booted /\ Block(t, s).name = "shell" /\ n # s
  BY DEF Home
<1>3. CASE n = foreground
  <2>1. /\ foreground = f /\ background = s /\ background # NULL
    BY <1>1, <1>2, <1>3 DEF Front
  <2>2. PICK q \in Procs(t) : q = t.p[s]
    BY <1>1, Parts, SMTT(30)
  <2> DEFINE woken == IF t.proc[q].state = "BLOCKED" THEN SetState(t, q, "READY") ELSE t
  <2>3. /\ RunNext(RemoveNode(woken, n, n), n)
        /\ foreground' = s /\ background' = NULL
    BY <1>3, <2>1, <2>2 DEF ReapCurrent
  <2>4. /\ WellFormed(woken) /\ Alike(t, woken)
        /\ \A x \in Procs(t) : woken.proc[x].state \in {t.proc[x].state, "READY"}
    <3>1. CASE t.proc[q].state = "BLOCKED"
      <4>1. woken = SetState(t, q, "READY")
        BY <3>1
      <4> QED BY <4>1, SetStateAlike DEF ProcState
    <3>2. CASE t.proc[q].state # "BLOCKED"
      BY <3>2 DEF Alike, SameRing
    <3> QED BY <3>1, <3>2
  <2> HIDE DEF woken
  <2>5. Kin(woken) /\ Home(woken, booted) /\ \A x \in Procs(woken) : woken.proc[x].state # "RUNNING"
    <3>1. Kin(woken)
      BY <2>4, KinAlike
    <3>2. Home(woken, booted)
      BY <2>4, HomeAlike
    <3> QED BY <2>4, <3>1, <3>2 DEF Alike, SameRing
  <2>6. /\ n \in Nodes(woken) /\ woken.next = t.next /\ woken.root = t.root
        /\ Block(woken, n).name = "user"
    BY <2>4, BlockOfNode DEF Alike, SameRing, Block
  <2>7. Front(woken, booted, s, NULL)
    BY <1>2, <2>6 DEF Front
  <2> DEFINE u == RemoveNode(woken, n, n)
  <2>8. /\ WellFormed(u) /\ Kin(u) /\ Home(u, booted) /\ Front(u, booted, s, NULL)
        /\ n \in Nodes(u) /\ \A x \in Procs(u) : u.proc[x].state # "RUNNING"
    BY <1>2, <2>4, <2>5, <2>6, <2>7, RemoveFamily
  <2> HIDE DEF u
  <2>9. RunNext(u, n)
    BY <2>3 DEF u
  <2> QED BY <2>3, <2>8, <2>9, RunNextFamily
<1>4. CASE n # foreground
  <2> DEFINE u == RemoveNode(t, n, n)
  <2>1. RunNext(u, n) /\ foreground' = foreground /\ background' = background
    BY <1>4 DEF ReapCurrent
  <2>2. /\ WellFormed(u) /\ Kin(u) /\ Home(u, booted) /\ Front(u, booted, foreground, background)
        /\ n \in Nodes(u) /\ \A x \in Procs(u) : u.proc[x].state # "RUNNING"
    BY <1>4, RemoveFamily
  <2> HIDE DEF u
  <2> QED BY <2>1, <2>2, RunNextFamily
<1> QED BY <1>3, <1>4

\* schedule, entered by a process that runs, has ended or waits for a child.
LEMMA ScheduleFamily ==
  ASSUME NEW t, WellFormed(t), Kin(t), Home(t, booted), Front(t, booted, foreground, background),
         currentNode \in Nodes(t), RunsOnly(t, currentNode),
         Block(t, currentNode).state \in {"RUNNING", "KILLED", "BLOCKED"},
         Block(t, currentNode).state = "KILLED" => Block(t, currentNode).name = "user",
         NEW force, Schedule(t, force)
  PROVE  Family(table', currentNode', booted, foreground', background')
<1> DEFINE state == t.proc[t.p[currentNode]].state
<1>1. t.p[currentNode] \in Procs(t) /\ t.next[currentNode] \in Nodes(t)
  BY Parts
<1>2. state # "RUNNING" => \A x \in Procs(t) : t.proc[x].state # "RUNNING"
  BY DEF RunsOnly
<1>3. CASE /\ t.nodeCount = 1 /\ table' = t
           /\ UNCHANGED <<currentNode, foreground, background>>
  <2>1. Cardinality(Nodes(t)) = 1 /\ IsFiniteSet(Nodes(t))
    BY <1>3, Parts DEF WellFormed, Counted
  <2>2. currentNode = t.root
    BY <2>1, FS_Singleton DEF Home
  <2>3. state = "RUNNING"
    BY <2>2 DEF Home, Block
  <2> QED BY <1>3, <2>3 DEF Family, Block
<1>4. CASE state = "KILLED" /\ ReapCurrent(t)
  BY <1>2, <1>4, ReapFamily DEF Block
<1>5. CASE /\ state = "BLOCKED" /\ RunNext(t, t.next[currentNode])
           /\ UNCHANGED <<foreground, background>>
  BY <1>1, <1>2, <1>5, RunNextFamily
<1>6. CASE /\ state \notin {"KILLED", "BLOCKED"} /\ Preempt(t)
           /\ UNCHANGED <<foreground, background>>
  <2> DEFINE q == t.p[currentNode]
             u == SetState(t, q, "READY")
  <2>1. /\ Alike(t, u) /\ WellFormed(u) /\ u.proc[q].state = "READY"
        /\ \A x \in Procs(t) \ {q} : u.proc[x] = t.proc[x]
        /\ \A x \in Procs(t) : u.proc[x].askWait = t.proc[x].askWait
    BY <1>1, SetStateAlike DEF ProcState
  <2>2. RunNext(u, t.next[currentNode])
    BY <1>6 DEF Preempt
  <2>3. t.proc[q].state = "RUNNING"
    BY <1>6 DEF Block
  <2> HIDE DEF u, q
  <2>4. Procs(u) = Procs(t) /\ Nodes(u) = Nodes(t)
    BY <2>1 DEF Alike, SameRing
  <2>5. \A x \in Procs(u) : u.proc[x].state # "RUNNING"
    BY <2>1, <2>4 DEF RunsOnly, q
  <2>6. Kin(u)
    BY <2>1, KinAlike
  <2>7. Home(u, booted)
    BY <2>1, HomeAlike
  <2>8. Front(u, booted, foreground, background)
    BY <2>1, <2>3, FrontAlike
  <2> QED BY <1>1, <1>6, <2>1, <2>2, <2>4, <2>5, <2>6, <2>7, <2>8, RunNextFamily
<1>7. CASE /\ state \notin {"KILLED", "BLOCKED"} /\ table' = t
           /\ UNCHANGED <<currentNode, foreground, background>>
  BY <1>7 DEF Family, Block
<1> QED BY <1>3, <1>4, <1>5, <1>6, <1>7 DEF Schedule

-----------------------------------------------------------------------------
(* Creating a process.                                                       *)

\* u is t with a process more, created by the one of node cur and behind it.
Grown(t, u, cur, n, q, name, waits) ==
  /\ Nodes(u) = Nodes(t) \cup {n} /\ Procs(u) = Procs(t) \cup {q}
  /\ u.root = t.root /\ u.p[n] = q /\ \A m \in Nodes(t) : u.p[m] = t.p[m]
  /\ u.next[n] = t.next[cur] /\ u.next[cur] = n
  /\ \A m \in Nodes(t) \ {cur} : u.next[m] = t.next[m]
  /\ u.proc[q].pid = t.current_pid /\ u.proc[q].parent_pid = Block(t, cur).pid
  /\ u.proc[q].name = name /\ u.proc[q].state = "NEW" /\ u.proc[q].children = 0
  /\ \A x \in Procs(t) : /\ u.proc[x].pid = t.proc[x].pid
                         /\ u.proc[x].parent_pid = t.proc[x].parent_pid
                         /\ u.proc[x].name = t.proc[x].name
                         /\ u.proc[x].state = t.proc[x].state
  /\ \A x \in Procs(t) \ {t.p[cur]} : /\ u.proc[x].children = t.proc[x].children
                                      /\ u.proc[x].askWait = t.proc[x].askWait
  /\ Block(u, cur).children = (Block(t, cur).children + 1) % ChildrenMod
  /\ Block(u, cur).askWait = waits

\* addProcess, as it shows in the table.
LEMMA AddProcessGrows ==
  ASSUME WellFormed(table), currentNode \in Nodes(table), NEW name, NEW priority, NEW fg \in BOOLEAN,
         AddProcess(name, priority, fg)
  PROVE  \E n \in Node \ Nodes(table), q \in Proc \ Procs(table) :
           /\ Grown(table, table', currentNode, n, q, name, fg /\ name # "shell")
           /\ foreground' = IF fg THEN n ELSE foreground
           /\ background' = IF fg /\ background = NULL THEN foreground ELSE background
           /\ currentNode' = currentNode
           /\ reused' = (reused \/ PidInUse(table.current_pid))
<1> DEFINE t == table
           cur == currentNode
           c == t.p[cur]
           waits == fg /\ name # "shell"
<1>1. PICK n \in Node \ Nodes(t), q \in Proc \ Procs(t) :
        LET u == AddNode(t, cur, n, q, name, priority)
        IN  /\ t' = [u EXCEPT !.proc[Current].askWait = waits]
            /\ foreground' = IF fg THEN n ELSE foreground
            /\ background' = IF fg /\ background = NULL THEN foreground ELSE background
            /\ reused' = (reused \/ PidInUse(t.current_pid))
            /\ UNCHANGED <<currentNode, forceNext, quantums>>
  BY DEF AddProcess
<1> DEFINE u == AddNode(t, cur, n, q, name, priority)
           block == [name |-> name, state |-> "NEW", pid |-> t.current_pid,
                     parent_pid |-> t.proc[c].pid, children |-> 0,
                     priority |-> priority, askWait |-> FALSE]
           proc == [x \in Procs(t) \cup {q} |->
                     IF x = q THEN block
                     ELSE IF x = c
                          THEN [t.proc[x] EXCEPT !.children = (@ + 1) % ChildrenMod]
                          ELSE t.proc[x]]
           next == [m \in Nodes(t) \cup {n} |->
                     IF m = n THEN t.next[cur] ELSE IF m = cur THEN n ELSE t.next[m]]
           p == [m \in Nodes(t) \cup {n} |-> IF m = n THEN q ELSE t.p[m]]
           last == [proc EXCEPT ![c].askWait = waits]
<1>2. u = [p |-> p, next |-> next, proc |-> proc, root |-> t.root,
           nodeCount |-> t.nodeCount + 1, current_pid |-> t.current_pid + 1]
  BY DEF AddNode, InsertNode, CreateProcess, NewBlock
<1>3. t' = [u EXCEPT !.proc[c].askWait = waits]
  BY <1>1 DEF Current
<1>4. c \in Procs(t) /\ t.proc \in [Procs(t) -> PCB] /\ c # q /\ n # cur
  BY Parts
<1> HIDE DEF p, next, u
<1>5. t'.p = p /\ t'.next = next /\ t'.root = t.root /\ t'.proc = last
  <2> HIDE DEF proc
  <2> QED BY <1>2, <1>3, SMTT(30)
<1>6. Nodes(t') = Nodes(t) \cup {n} /\ Procs(t') = Procs(t) \cup {q}
  BY <1>5 DEF Nodes, Procs, next
<1>7. last[q] = block /\ \A x \in Procs(t) \ {c} : last[x] = t.proc[x]
  BY <1>4
<1>8. /\ last[c].pid = t.proc[c].pid /\ last[c].parent_pid = t.proc[c].parent_pid
      /\ last[c].name = t.proc[c].name /\ last[c].state = t.proc[c].state
      /\ last[c].children = (t.proc[c].children + 1) % ChildrenMod /\ last[c].askWait = waits
  <2> DEFINE count == (t.proc[c].children + 1) % ChildrenMod
  <2>1. last[c] = [[t.proc[c] EXCEPT !.children = count] EXCEPT !.askWait = waits]
    BY <1>4
  <2> HIDE DEF count, waits, last
  <2> QED BY <1>4, <2>1, SMTT(30) DEF PCB, count
<1> HIDE DEF last, proc
<1>9. t'.p[n] = q /\ \A m \in Nodes(t) : t'.p[m] = t.p[m]
  BY <1>5 DEF p
<1>10. /\ t'.next[n] = t.next[cur] /\ t'.next[cur] = n
       /\ \A m \in Nodes(t) \ {cur} : t'.next[m] = t.next[m]
  BY <1>4, <1>5 DEF next
<1>11. Grown(t, t', cur, n, q, name, waits)
  <2>1. /\ Block(t', cur) = last[c] /\ Block(t, cur) = t.proc[c]
    BY <1>5, <1>9 DEF Block
  <2>2. /\ t'.proc[q].pid = t.current_pid /\ t'.proc[q].parent_pid = Block(t, cur).pid
        /\ t'.proc[q].name = name /\ t'.proc[q].state = "NEW" /\ t'.proc[q].children = 0
    BY <1>5, <1>7, <2>1
  <2>3. \A x \in Procs(t) : /\ t'.proc[x].pid = t.proc[x].pid
                            /\ t'.proc[x].parent_pid = t.proc[x].parent_pid
                            /\ t'.proc[x].name = t.proc[x].name
                            /\ t'.proc[x].state = t.proc[x].state
    BY <1>5, <1>7, <1>8
  <2>4. \A x \in Procs(t) \ {c} : /\ t'.proc[x].children = t.proc[x].children
                                  /\ t'.proc[x].askWait = t.proc[x].askWait
    BY <1>5, <1>7
  <2>5. /\ Block(t', cur).children = (Block(t, cur).children + 1) % ChildrenMod
        /\ Block(t', cur).askWait = waits
    BY <1>8, <2>1
  <2> HIDE DEF waits, block
  <2> QED BY <1>5, <1>6, <1>9, <1>10, <2>2, <2>3, <2>4, <2>5 DEF Grown
<1> QED BY <1>1, <1>11

\* A family with a child more, when there is room for the count and its pid is new.
LEMMA KinGrown ==
  ASSUME NEW t, NEW u, WellFormed(t), Kin(t), NEW cur \in Nodes(t), Block(t, cur).state = "RUNNING",
         NEW n \in Node \ Nodes(t), NEW q \in Proc \ Procs(t), NEW name, NEW waits,
         Grown(t, u, cur, n, q, name, waits), Cardinality(Node) <= ChildrenMod,
         \A x \in Procs(t) : t.current_pid # t.proc[x].pid /\ t.current_pid # t.proc[x].parent_pid
  PROVE  Kin(u)
<1> DEFINE c == t.p[cur]
<1>1. c \in Procs(t) /\ c # q /\ t.proc[c] \in PCB
  BY BlockOfNode
<1>2. Procs(u) = Procs(t) \cup {q} /\ u.p[cur] = c
  BY DEF Grown
<1>3. /\ u.proc[q].pid = t.current_pid /\ u.proc[q].parent_pid = t.proc[c].pid
      /\ u.proc[q].state = "NEW" /\ u.proc[q].children = 0
  BY DEF Grown, Block
<1>4. /\ \A x \in Procs(t) : /\ u.proc[x].pid = t.proc[x].pid
                             /\ u.proc[x].parent_pid = t.proc[x].parent_pid
                             /\ u.proc[x].name = t.proc[x].name
                             /\ u.proc[x].state = t.proc[x].state
      /\ \A x \in Procs(t) \ {c} : u.proc[x].children = t.proc[x].children
  BY DEF Grown
<1>5. u.proc[c].children = (t.proc[c].children + 1) % ChildrenMod
  BY <1>2 DEF Grown, Block
<1>6. /\ t.proc[c].children = Cardinality(Offspring(t, c)) /\ t.proc[c].children \in Nat
      /\ t.proc[c].children + 1 < ChildrenMod
  <2>1. Nodes(t) \cup {n} \subseteq Node /\ IsFiniteSet(Nodes(t)) /\ IsFiniteSet(Node)
    BY Parts, NodeAssumption
  <2>2. Cardinality(Nodes(t)) + 1 <= Cardinality(Node)
    <3>1. Cardinality(Nodes(t) \cup {n}) = Cardinality(Nodes(t)) + 1
      BY <2>1, FS_AddElement
    <3>2. Cardinality(Nodes(t) \cup {n}) <= Cardinality(Node)
      BY <2>1, FS_Subset
    <3> QED BY <3>1, <3>2
  <2>3. t.proc[c].children = Cardinality(Offspring(t, c))
    BY <1>1 DEF Kin
  <2>4. Cardinality(Offspring(t, c)) <= Cardinality(Nodes(t)) - 1 /\ Cardinality(Offspring(t, c)) \in Nat
    BY <1>1, FiniteOffspring
  <2> QED BY <2>1, <2>2, <2>3, <2>4, FiniteProcs, FS_CardinalityType, ChildrenModAssumption
<1>7. u.proc[c].children = t.proc[c].children + 1
  BY <1>5, <1>6, ChildrenModAssumption
<1> HIDE DEF c
<1>8. \A x, y \in Procs(u) : u.proc[x].pid = u.proc[y].pid => x = y
  BY <1>2, <1>3, <1>4 DEF Kin
<1>9. \A x \in Procs(u) : u.proc[x].parent_pid = u.proc[x].pid => u.proc[x].name = "IDLE"
  BY <1>1, <1>2, <1>3, <1>4 DEF Kin
<1>10. ASSUME NEW x \in Procs(u)
       PROVE  u.proc[x].children = Cardinality(Offspring(u, x))
  <2>1. CASE x = q
    <3>1. Offspring(u, x) = {}
      BY <1>2, <1>3, <1>4, <2>1 DEF Offspring
    <3> QED BY <1>3, <2>1, <3>1, FS_EmptySet
  <2>2. CASE x = c
    <3>1. Offspring(u, x) = Offspring(t, x) \cup {q} /\ q \notin Offspring(t, x)
      BY <1>1, <1>2, <1>3, <1>4, <2>2 DEF Offspring
    <3>2. Cardinality(Offspring(u, x)) = Cardinality(Offspring(t, x)) + 1
      BY <1>1, <2>2, <3>1, FiniteOffspring, FS_AddElement
    <3> QED BY <1>6, <1>7, <2>2, <3>2
  <2>3. CASE x # q /\ x # c
    <3>1. x \in Procs(t) /\ t.proc[x].pid # t.proc[c].pid
      BY <1>1, <1>2, <2>3 DEF Kin
    <3>2. Offspring(u, x) = Offspring(t, x)
      BY <1>2, <1>3, <1>4, <2>3, <3>1 DEF Offspring
    <3> QED BY <1>4, <2>3, <3>1, <3>2 DEF Kin
  <2> QED BY <2>1, <2>2, <2>3
<1>11. \A x \in Procs(u) : u.proc[x].state = "BLOCKED" => u.proc[x].children # 0
  BY <1>1, <1>2, <1>3, <1>4, <1>6, <1>7 DEF Kin
<1> QED BY <1>8, <1>9, <1>10, <1>11 DEF Kin

\* A new process takes neither the place of IDLE nor that of a shell that is there.
LEMMA HomeGrown ==
  ASSUME NEW t, NEW u, WellFormed(t), NEW started, Home(t, started), NEW cur \in Nodes(t),
         NEW n \in Node \ Nodes(t), NEW q \in Proc \ Procs(t), NEW name, NEW waits,
         Grown(t, u, cur, n, q, name, waits),
         IF started THEN name = "user" /\ cur # t.root ELSE name = "shell"
  PROVE  Home(u, TRUE)
<1>1. /\ t.root \in Nodes(t) /\ u.root = t.root /\ Nodes(u) = Nodes(t) \cup {n}
  BY DEF Home, Grown
<1>2. \A m \in Nodes(t) : t.p[m] \in Procs(t) /\ t.next[m] \in Nodes(t)
  BY Parts
<1>3. /\ Block(u, n).name = name /\ Block(u, n).state = "NEW"
      /\ \A m \in Nodes(t) : /\ Block(u, m).name = Block(t, m).name
                             /\ Block(u, m).state = Block(t, m).state
                             /\ Block(u, m).pid = Block(t, m).pid
  BY <1>2 DEF Grown, Block
<1>4. CASE started
  <2>1. u.next[u.root] = t.next[t.root] /\ t.next[t.root] \in Nodes(t)
    BY <1>1, <1>2, <1>4 DEF Grown
  <2> QED BY <1>1, <1>3, <1>4, <2>1 DEF Home
<1>5. CASE ~started
  <2>1. Nodes(t) = {t.root} /\ cur = t.root
    BY <1>5 DEF Home
  <2>2. u.next[u.root] = n
    BY <1>1, <2>1 DEF Grown
  <2>3. Block(t, t.root).name = "IDLE"
    BY DEF Home
  <2> QED BY <1>1, <1>3, <1>5, <2>1, <2>2, <2>3 DEF Home
<1> QED BY <1>4, <1>5

\* A new process that is not to be waited for leaves the pointers right.
LEMMA FrontGrown ==
  ASSUME NEW t, NEW u, WellFormed(t), Home(t, TRUE), NEW cur \in Nodes(t),
         NEW n \in Node \ Nodes(t), NEW q \in Proc \ Procs(t), NEW name, NEW waits,
         Grown(t, u, cur, n, q, name, waits), cur # t.root, NEW fg, NEW bg, Front(t, TRUE, fg, bg),
         cur = t.next[t.root] => fg = cur /\ bg = NULL
  PROVE  Front(u, TRUE, fg, bg)
<1> DEFINE s == t.next[t.root]
           f == t.next[s]
<1>1. t.root \in Nodes(t) /\ s \in Nodes(t) /\ f \in Nodes(t)
  BY Parts DEF Home
<1>2. u.next[u.root] = s
  BY <1>1 DEF Grown
<1>3. CASE fg = s /\ bg = NULL
  BY <1>2, <1>3 DEF Front
<1>4. CASE ~(fg = s /\ bg = NULL)
  <2>1. /\ fg = f /\ bg = s /\ Block(t, f).name = "user" /\ Block(t, f).parent_pid = Block(t, s).pid
        /\ Block(t, s).state = "BLOCKED" \/ Block(t, s).askWait
    BY <1>4 DEF Front
  <2>2. cur # s
    BY <1>4
  <2>3. u.next[s] = f /\ u.p[s] = t.p[s] /\ u.p[f] = t.p[f]
    BY <1>1, <2>2 DEF Grown
  <2>4. t.p[s] \in Procs(t) /\ t.p[f] \in Procs(t) /\ t.p[s] # t.p[cur]
    BY <1>1, <2>2, Parts DEF WellFormed, OneNodeEach
  <2> HIDE DEF s, f
  <2>5. /\ Block(u, f).name = Block(t, f).name /\ Block(u, f).parent_pid = Block(t, f).parent_pid
        /\ Block(u, s).pid = Block(t, s).pid /\ Block(u, s).state = Block(t, s).state
    BY <2>3, <2>4 DEF Grown, Block
  <2>6. Block(u, s).askWait = Block(t, s).askWait
    <3>1. u.proc[t.p[s]].askWait = t.proc[t.p[s]].askWait
      BY <2>4 DEF Grown
    <3> QED BY <2>3, <3>1 DEF Block
  <2> QED BY <1>2, <2>1, <2>3, <2>5, <2>6 DEF Front
<1> QED BY <1>3, <1>4

\* Who calls addProcess, and with what.
Creation(name, fg, started) ==
  LET block == Block(table, currentNode)
  IN  \/ ~booted /\ name = "shell" /\ fg /\ started
      \/ booted /\ started /\ name = "user" /\ ~fg /\ block.name = "user"
      \/ booted /\ started /\ name = "user" /\ block.name = "shell" /\ ~block.askWait

\* addProcess, called by IDLE once, by a program, or by a shell that is not about to wait.
LEMMA AddFamily ==
  ASSUME WellFormed(table), Family(table, currentNode, booted, foreground, background),
         Cardinality(Node) <= ChildrenMod,
         NEW name, NEW priority, NEW fg \in BOOLEAN, AddProcess(name, priority, fg),
         ~reused', Creation(name, fg, booted')
  PROVE  Family(table', currentNode', booted', foreground', background')
<1> DEFINE t == table
           cur == currentNode
           s == t.next[t.root]
<1>1. /\ cur \in Nodes(t) /\ Block(t, cur).state = "RUNNING" /\ Kin(t) /\ Home(t, booted)
      /\ Front(t, booted, foreground, background)
  BY DEF Family
<1>2. PICK n \in Node \ Nodes(t), q \in Proc \ Procs(t) :
        /\ Grown(t, t', cur, n, q, name, fg /\ name # "shell")
        /\ foreground' = IF fg THEN n ELSE foreground
        /\ background' = IF fg /\ background = NULL THEN foreground ELSE background
        /\ currentNode' = currentNode
        /\ reused' = (reused \/ PidInUse(t.current_pid))
  BY <1>1, AddProcessGrows
<1>3. PICK u : u = t'
  OBVIOUS
<1> DEFINE waits == fg /\ name # "shell"
<1>4. Grown(t, u, cur, n, q, name, waits)
  BY <1>2, <1>3
<1> HIDE DEF waits
<1>5. \A x \in Procs(t) : t.current_pid # t.proc[x].pid /\ t.current_pid # t.proc[x].parent_pid
  BY <1>2 DEF PidInUse
<1>6. Kin(u)
  BY <1>1, <1>4, <1>5, KinGrown
<1>7. cur \in Nodes(u) /\ Block(u, cur).state = "RUNNING"
  BY <1>1, <1>4, Parts DEF Grown, Block
<1>8. CASE ~booted /\ name = "shell" /\ fg /\ booted'
  <2>1. Home(u, TRUE)
    <3>1. Home(t, FALSE)
      BY <1>1, <1>8 DEF Home
    <3> QED BY <1>1, <1>4, <1>8, <3>1, HomeGrown
  <2>2. foreground' = n /\ background' = NULL
    BY <1>1, <1>2, <1>8 DEF Front
  <2>3. u.next[u.root] = n
    BY <1>1, <1>4, <1>8 DEF Home, Grown
  <2>4. Front(u, TRUE, n, NULL)
    BY <2>3 DEF Front
  <2>5. booted' = TRUE
    BY <1>8
  <2> QED BY <1>2, <1>3, <1>6, <1>7, <2>1, <2>2, <2>4, <2>5 DEF Family
<1>9. CASE /\ booted /\ booted' /\ name = "user"
           /\ \/ Block(t, cur).name = "user" /\ ~fg
              \/ Block(t, cur).name = "shell" /\ ~Block(t, cur).askWait
  <2>1. cur # t.root /\ Home(t, TRUE) /\ Front(t, TRUE, foreground, background)
    BY <1>1, <1>9 DEF Home, Front
  <2>2. Home(u, TRUE)
    BY <1>1, <1>4, <1>9, <2>1, HomeGrown
  <2>3. cur = s => foreground = cur /\ background = NULL
    BY <1>1, <1>9 DEF Home, Front
  <2>4. CASE ~fg
    <3>1. Front(u, TRUE, foreground, background)
      BY <1>1, <1>4, <2>1, <2>3, FrontGrown
    <3> QED BY <1>2, <1>3, <1>6, <1>7, <1>9, <2>2, <2>4, <3>1 DEF Family
  <2>5. CASE fg
    <3>1. cur = s /\ s \in Nodes(t) /\ t.root \in Nodes(t) /\ s # NULL
      BY <1>1, <1>9, <2>1, <2>5, Parts, NodeAssumption DEF Home
    <3>2. foreground' = n /\ background' = s
      BY <1>2, <2>3, <2>5, <3>1
    <3>3. u.next[u.root] = s /\ u.next[s] = n
      BY <1>4, <2>1, <3>1 DEF Grown
    <3>4. /\ Block(u, n).name = "user" /\ Block(u, n).parent_pid = Block(t, s).pid
          /\ Block(u, s).pid = Block(t, s).pid
      <4>1. t.p[s] \in Procs(t) /\ u.p[s] = t.p[s] /\ u.p[n] = q
        BY <1>4, <3>1, Parts DEF Grown
      <4>2. /\ u.proc[q].name = "user" /\ u.proc[q].parent_pid = Block(t, cur).pid
            /\ u.proc[t.p[s]].pid = t.proc[t.p[s]].pid
        BY <1>4, <1>9, <4>1 DEF Grown
      <4> QED BY <3>1, <4>1, <4>2 DEF Block
    <3>a. Block(u, s).askWait
      <4>1. Block(u, cur).askWait = waits /\ waits
        BY <1>4, <1>9, <2>5 DEF Grown, waits
      <4> QED BY <3>1, <4>1
    <3>5. Front(u, TRUE, n, s)
      BY <3>3, <3>4, <3>a DEF Front
    <3>6. Home(u, booted') /\ Front(u, booted', n, s)
      BY <1>9, <2>2, <3>5 DEF Home, Front
    <3> QED BY <1>2, <1>3, <1>6, <1>7, <3>2, <3>6 DEF Family
  <2> QED BY <2>4, <2>5
<1> QED BY <1>8, <1>9 DEF Creation

-----------------------------------------------------------------------------
(* Every step.                                                               *)

\* The program the shell waits for is one of its children.
LEMMA ShellHasChild ==
  ASSUME NEW t, WellFormed(t), Kin(t), NEW started, NEW fg, NEW bg, Home(t, started), Front(t, started, fg, bg),
         NEW q \in Procs(t), t.proc[q].name = "shell", t.proc[q].children = 0
  PROVE  bg = NULL
<1> DEFINE s == t.next[t.root]
           f == t.next[s]
<1>1. s \in Nodes(t) /\ f \in Nodes(t) /\ t.p[s] \in Procs(t) /\ t.p[f] \in Procs(t)
  BY Parts DEF Home
<1>2. PICK m \in Nodes(t) : t.p[m] = q
  BY DEF WellFormed, OneNodeEach
<1>3. q = t.p[s]
  BY <1>2, SMTT(30) DEF Home, Block
<1>4. Block(t, f).name = "user" /\ Block(t, f).parent_pid = Block(t, s).pid => t.p[f] \in Offspring(t, q)
  BY <1>1, <1>3 DEF Offspring, Block
<1>5. Offspring(t, q) = {}
  <2>1. Cardinality(Offspring(t, q)) = 0 /\ IsFiniteSet(Offspring(t, q))
    BY FiniteOffspring DEF Kin
  <2> QED BY <2>1, FS_EmptySet
<1> QED BY <1>4, <1>5 DEF Front

\* Whoever makes a call is the shell or a program, and has been started.
LEMMA CallerFacts ==
  ASSUME ForkJoin, WellFormed(table), Family(table, currentNode, booted, foreground, background),
         NEW call, Calling(call)
  PROVE  /\ Current \in Procs(table) /\ Current = table.p[currentNode] /\ booted
         /\ CurrentBlock = Block(table, currentNode) /\ CurrentBlock.state = "RUNNING"
         /\ \/ CurrentBlock.name = "shell" /\ call \in {"exec", "execfg", "waitpid", "yield", "nice"}
            \/ CurrentBlock.name = "user" /\ call \in {"exec", "waitpid", "yield", "nice", "exit"}
         /\ call # "waitpid" => ~CurrentBlock.askWait
<1>1. /\ currentNode \in Nodes(table) /\ Block(table, currentNode).state = "RUNNING"
      /\ Home(table, booted)
  BY DEF Family
<1>2. /\ Current \in Procs(table) /\ Current = table.p[currentNode]
      /\ CurrentBlock = Block(table, currentNode) /\ CurrentBlock \in PCB
  BY <1>1, BlockOfNode DEF Current, CurrentBlock, Block
<1>3. CurrentBlock.name \in {"shell", "user"}
  BY <1>2 DEF PCB, Calling, ForkJoin
<1>4. booted
  BY <1>1, <1>2, <1>3 DEF Home
<1> QED BY <1>1, <1>2, <1>3, <1>4 DEF Calling, ForkJoin

\* waitpid: the process forgets that it was about to wait, and waits if it has a child.
LEMMA WaitFamily ==
  ASSUME ForkJoin, IInv, Family(table, currentNode, booted, foreground, background), WaitPid
  PROVE  Family(table', currentNode', booted', foreground', background')
<1> DEFINE q == Current
           proc == [table.proc EXCEPT ![q].askWait = FALSE]
           t == [table EXCEPT !.proc = proc]
<1>1. /\ q \in Procs(table) /\ q = table.p[currentNode] /\ booted
      /\ CurrentBlock = table.proc[q] /\ table.proc[q].state = "RUNNING"
      /\ table.proc[q].name \in {"shell", "user"} /\ booted' = booted
  BY CallerFacts DEF WaitPid, IInv, Block
<1>2. WellFormed(table) /\ RunsOnly(table, currentNode) /\ table.proc \in [Procs(table) -> PCB]
  BY Parts DEF IInv
<1>3. /\ currentNode \in Nodes(table) /\ Kin(table) /\ Home(table, booted)
      /\ Front(table, booted, foreground, background)
  BY DEF Family
<1>4. [table EXCEPT !.proc[Current].askWait = FALSE] = t
  BY <1>2 DEF WellFormed, TableType
<1>5. proc \in [Procs(table) -> PCB]
  BY <1>1, <1>2, ZenonT(60) DEF PCB
<1>6. \A x \in Procs(table) \ {q} : proc[x] = table.proc[x]
  BY <1>1, <1>2
<1>7. /\ proc[q].pid = table.proc[q].pid /\ proc[q].parent_pid = table.proc[q].parent_pid
      /\ proc[q].name = table.proc[q].name /\ proc[q].children = table.proc[q].children
      /\ proc[q].state = "RUNNING"
  BY <1>1, <1>2 DEF PCB
<1> HIDE DEF proc
<1>8. WellFormed(t) /\ SameRing(table, t) /\ t.proc = proc
  BY <1>2, <1>5, NewBlocks
<1> HIDE DEF t, q
<1>9. Alike(table, t)
  BY <1>6, <1>7, <1>8 DEF Alike
<1>10. Kin(t)
  BY <1>1, <1>3, <1>6, <1>7, <1>8, <1>9, KinAlike
<1>11. Home(t, booted)
  BY <1>1, <1>2, <1>3, <1>6, <1>7, <1>8, <1>9, HomeAlike
<1>12. q \in Procs(t) /\ currentNode \in Nodes(t) /\ t.p[currentNode] = q /\ t.p = table.p
  BY <1>1, <1>3, <1>8 DEF SameRing
<1>13. CASE CurrentBlock.children > 0
  <2> DEFINE u == SetState(t, q, "BLOCKED")
  <2>1. /\ Alike(t, u) /\ WellFormed(u) /\ u.proc[q].state = "BLOCKED"
        /\ \A x \in Procs(t) \ {q} : u.proc[x] = t.proc[x]
    BY <1>8, <1>12, SetStateAlike DEF ProcState
  <2>2. Schedule(u, forceNext)
    BY <1>1, <1>4, <1>13 DEF WaitPid, q
  <2> HIDE DEF u
  <2>3. Kin(u)
    BY <1>1, <1>7, <1>8, <1>10, <1>13, <2>1, KinAlike
  <2>4. Home(u, booted)
    BY <1>1, <1>7, <1>8, <1>11, <2>1, HomeAlike, ZenonT(60)
  <2>5. Front(u, booted, foreground, background)
    <3>1. Alike(table, u)
      BY <1>9, <2>1 DEF Alike, SameRing
    <3>2. \A x \in Procs(table) \ {q} : u.proc[x] = table.proc[x]
      BY <1>6, <1>8, <2>1 DEF SameRing
    <3> QED BY <1>2, <1>3, <2>1, <3>1, <3>2, FrontAlike
  <2>6. currentNode \in Nodes(u) /\ u.p[currentNode] = q /\ Procs(u) = Procs(t)
    BY <1>12, <2>1 DEF Alike, SameRing
  <2>7. RunsOnly(u, currentNode)
    BY <1>2, <1>3, <1>6, <1>8, <1>12, <2>1, <2>6 DEF RunsOnly, SameRing
  <2>8. Block(u, currentNode).state = "BLOCKED"
    BY <2>1, <2>6 DEF Block
  <2> QED BY <1>1, <2>1, <2>2, <2>3, <2>4, <2>5, <2>6, <2>7, <2>8, ScheduleFamily
<1>14. CASE ~(CurrentBlock.children > 0)
  <2>1. table' = t /\ UNCHANGED <<currentNode, foreground, background>>
    BY <1>4, <1>14 DEF WaitPid
  <2>2. table.proc[q].children = 0
    BY <1>1, <1>2, <1>14 DEF PCB
  <2>3. ASSUME table.proc[q].name = "shell" PROVE background = NULL
    <3>1. q \in Procs(table) /\ WellFormed(table) /\ Kin(table)
      BY <1>1, <1>2, <1>3
    <3>2. Home(table, booted) /\ Front(table, booted, foreground, background)
      BY <1>3
    <3> QED BY <2>2, <2>3, <3>1, <3>2, ShellHasChild
  <2>4. Front(t, booted, foreground, background)
    BY <1>2, <1>3, <1>6, <1>8, <1>9, <2>3, FrontAlike
  <2> QED BY <1>1, <1>7, <1>8, <1>10, <1>11, <1>12, <2>1, <2>4 DEF Family, Block
<1> QED BY <1>13, <1>14

\* changePriority changes nothing else.
LEMMA NiceFamily ==
  ASSUME WellFormed(table), Family(table, currentNode, booted, foreground, background),
         NEW pid, NEW priority \in Nat, table' = ChangePriority(table, pid, priority),
         UNCHANGED <<currentNode, foreground, background, booted>>
  PROVE  Family(table', currentNode', booted', foreground', background')
<1> DEFINE aux == FindNode(table, pid)
<1>1. /\ currentNode \in Nodes(table) /\ Block(table, currentNode).state = "RUNNING"
      /\ Kin(table) /\ Home(table, booted) /\ Front(table, booted, foreground, background)
  BY DEF Family
<1>2. CASE aux = NULL
  BY <1>2 DEF ChangePriority
<1>3. CASE aux # NULL
  <2>1. PICK q \in Procs(table) : q = table.p[aux]
    BY <1>3, FindNodeType, BlockOfNode
  <2> DEFINE proc == [table.proc EXCEPT ![q].priority = priority]
  <2>2. table' = [table EXCEPT !.proc = proc] /\ table.proc \in [Procs(table) -> PCB]
    BY <1>3, <2>1, Parts DEF ChangePriority, WellFormed, TableType
  <2>3. /\ proc \in [Procs(table) -> PCB]
        /\ \A x \in Procs(table) :
             /\ proc[x].pid = table.proc[x].pid /\ proc[x].parent_pid = table.proc[x].parent_pid
             /\ proc[x].name = table.proc[x].name /\ proc[x].children = table.proc[x].children
             /\ proc[x].state = table.proc[x].state /\ proc[x].askWait = table.proc[x].askWait
    BY <2>1, <2>2 DEF PCB
  <2> HIDE DEF proc
  <2>4. SameRing(table, table') /\ table'.proc = proc
    BY <2>2, <2>3, NewBlocks
  <2>5. Alike(table, table')
    BY <2>3, <2>4 DEF Alike
  <2>6. Kin(table')
    BY <1>1, <2>3, <2>4, <2>5, KinAlike
  <2>7. Home(table', booted)
    BY <1>1, <2>3, <2>4, <2>5, HomeAlike
  <2>8. Front(table', booted, foreground, background)
    BY <1>1, <2>3, <2>4, <2>5, FrontAlike
  <2>9. currentNode \in Nodes(table') /\ Block(table', currentNode).state = "RUNNING"
    BY <1>1, <2>3, <2>4, Parts DEF SameRing, Block
  <2> QED BY <2>6, <2>7, <2>8, <2>9 DEF Family
<1> QED BY <1>2, <1>3

\* A program that returns is killed and reaped.
LEMMA ExitFamily ==
  ASSUME ForkJoin, IInv, Family(table, currentNode, booted, foreground, background), Exit
  PROVE  Family(table', currentNode', booted', foreground', background')
<1> DEFINE q == Current
           u == SetState(table, q, "KILLED")
<1>1. /\ q \in Procs(table) /\ q = table.p[currentNode] /\ table.proc[q].name = "user"
      /\ table.proc[q].state = "RUNNING"
  BY CallerFacts DEF Exit, IInv, Block
<1>2. /\ currentNode \in Nodes(table) /\ Kin(table) /\ Home(table, booted)
      /\ Front(table, booted, foreground, background)
  BY DEF Family
<1>3. WellFormed(table) /\ RunsOnly(table, currentNode)
  BY DEF IInv
<1>4. Schedule(u, forceNext) /\ booted' = booted
  BY DEF Exit
<1> HIDE DEF q
<1>5. /\ Alike(table, u) /\ WellFormed(u) /\ u.proc[q].state = "KILLED"
      /\ \A x \in Procs(table) \ {q} : u.proc[x] = table.proc[x]
      /\ \A x \in Procs(table) : u.proc[x].askWait = table.proc[x].askWait
  BY <1>1, <1>3, SetStateAlike DEF ProcState
<1> HIDE DEF u
<1>6. Kin(u)
  BY <1>2, <1>5, KinAlike
<1>7. Home(u, booted)
  BY <1>1, <1>2, <1>3, <1>5, HomeAlike
<1>8. Front(u, booted, foreground, background)
  BY <1>1, <1>2, <1>3, <1>5, FrontAlike
<1>9. currentNode \in Nodes(u) /\ u.p[currentNode] = q /\ Procs(u) = Procs(table)
  BY <1>1, <1>2, <1>5 DEF Alike, SameRing
<1>10. RunsOnly(u, currentNode)
  BY <1>1, <1>2, <1>3, <1>5, <1>9 DEF RunsOnly
<1>11. Block(u, currentNode).state = "KILLED" /\ Block(u, currentNode).name = "user"
  BY <1>1, <1>5, <1>9 DEF Block, Alike
<1> QED BY <1>4, <1>5, <1>6, <1>7, <1>8, <1>9, <1>10, <1>11, ScheduleFamily

\* Every step, up to the one that gives out a pid in use.
LEMMA FamilyKept ==
  ASSUME ForkJoin, IInv, FamilyInv, [Next]_vars
  PROVE  FamilyInv'
<1> SUFFICES ASSUME ~reused'
             PROVE  Family(table', currentNode', booted', foreground', background')
  BY DEF FamilyInv
<1>1. WellFormed(table) /\ RunsOnly(table, currentNode)
  BY DEF IInv
<1>2. ~reused
  BY DEF Next, vars, Boot, Exec, ExecForeground, AddProcess, Tick, Yield, Exit, WaitPid, KillProcess,
     BlockProcess, ReadyProcess, Nice, CtrlC, Undefined
<1>3. /\ Family(table, currentNode, booted, foreground, background)
      /\ currentNode \in Nodes(table) /\ Kin(table) /\ Home(table, booted)
      /\ Front(table, booted, foreground, background) /\ Block(table, currentNode).state = "RUNNING"
  BY <1>2 DEF FamilyInv, Family
<1>4. Cardinality(Node) <= ChildrenMod
  BY DEF ForkJoin
<1>5. CASE Boot
  <2>1. AddProcess("shell", 0, TRUE) /\ ~booted /\ booted' = TRUE
    BY <1>5 DEF Boot
  <2>2. Creation("shell", TRUE, booted')
    BY <2>1 DEF Creation
  <2> QED BY <1>1, <1>3, <1>4, <2>1, <2>2, AddFamily
<1>6. CASE Exec
  <2>1. PICK priority \in Priorities : AddProcess("user", priority, FALSE)
    BY <1>6 DEF Exec
  <2>2. Creation("user", FALSE, booted')
    <3>1. Calling("exec") /\ booted' = booted
      BY <1>6 DEF Exec
    <3> QED BY <1>1, <1>3, <3>1, CallerFacts DEF Creation
  <2> QED BY <1>1, <1>3, <1>4, <2>1, <2>2, AddFamily
<1>7. CASE ExecForeground
  <2>1. PICK priority \in Priorities : AddProcess("user", priority, TRUE)
    BY <1>7 DEF ExecForeground
  <2>2. Creation("user", TRUE, booted')
    <3>1. Calling("execfg") /\ booted' = booted
      BY <1>7 DEF ExecForeground
    <3> QED BY <1>1, <1>3, <3>1, CallerFacts DEF Creation
  <2> QED BY <1>1, <1>3, <1>4, <2>1, <2>2, AddFamily
<1>8. CASE Tick \/ Yield
  <2>1. PICK force : Schedule(table, force)
    BY <1>8 DEF Tick, Yield
  <2>2. booted' = booted
    BY <1>8 DEF Tick, Yield
  <2> QED BY <1>1, <1>3, <2>1, <2>2, ScheduleFamily
<1>9. CASE Exit
  BY <1>3, <1>9, ExitFamily
<1>10. CASE WaitPid
  BY <1>3, <1>10, WaitFamily
<1>11. CASE Nice
  <2>1. PICK pid \in Pids, priority \in Priorities : table' = ChangePriority(table, pid, priority)
    BY <1>11 DEF Nice
  <2>2. UNCHANGED <<currentNode, foreground, background, booted>> /\ priority \in Nat
    BY <1>11, PrioritiesAssumption DEF Nice
  <2> QED BY <1>1, <1>3, <2>1, <2>2, NiceFamily
<1>12. CASE KillProcess \/ BlockProcess \/ ReadyProcess
  <2>1. PICK call \in {"kill", "block", "ready"} : Calling(call)
    BY <1>12 DEF KillProcess, BlockProcess, ReadyProcess
  <2> QED BY <1>1, <1>3, <2>1, CallerFacts
<1>13. CASE CtrlC
  BY <1>13 DEF CtrlC, ForkJoin
<1>14. CASE Undefined \/ UNCHANGED vars
  BY <1>3, <1>14 DEF Undefined, vars
<1> QED BY <1>5, <1>6, <1>7, <1>8, <1>9, <1>10, <1>11, <1>12, <1>13, <1>14 DEF Next

\* IDLE alone is a family.
LEMMA FamilyAtFirst ==
  ASSUME Init
  PROVE  FamilyInv
<1>1. PICK n \in Node, q \in Proc :
        /\ table = [p |-> [m \in {n} |-> q], next |-> [m \in {n} |-> n],
                    proc |-> [x \in {q} |->
                      [name |-> "IDLE", state |-> "RUNNING", pid |-> 0,
                       parent_pid |-> 0, children |-> 0,
                       priority |-> QUANTUM_MAX, askWait |-> FALSE]],
                    root |-> n, nodeCount |-> 1, current_pid |-> 1]
        /\ currentNode = n
  BY DEF Init
<1>2. Nodes(table) = {n} /\ Procs(table) = {q} /\ table.root = n
  BY <1>1 DEF Nodes, Procs
<1>3. /\ Block(table, n).name = "IDLE" /\ Block(table, n).pid = 0 /\ Block(table, n).state = "RUNNING"
      /\ table.proc[q].name = "IDLE" /\ table.proc[q].state = "RUNNING" /\ table.proc[q].children = 0
  BY <1>1 DEF Block
<1>4. Offspring(table, q) = {}
  BY <1>2 DEF Offspring
<1>5. Kin(table)
  BY <1>2, <1>3, <1>4, FS_EmptySet DEF Kin
<1>6. ~booted /\ foreground = NULL /\ background = NULL
  BY DEF Init
<1>7. Home(table, booted) /\ Front(table, booted, foreground, background)
  BY <1>2, <1>3, <1>6 DEF Home, Front
<1> QED BY <1>1, <1>2, <1>3, <1>5, <1>7 DEF FamilyInv, Family

-----------------------------------------------------------------------------
(* The theorems.                                                             *)

\* The invariant holds in every reachable state.
LEMMA FamilyAlways ==
  ASSUME ForkJoin
  PROVE  Spec => []FamilyInv
<1>1. Init => FamilyInv
  BY FamilyAtFirst
<1>2. IInv /\ FamilyInv /\ [Next]_vars => FamilyInv'
  BY FamilyKept
<1> QED BY <1>1, <1>2, Invariance, PTL DEF Spec

\* Until a pid in use is given out, no removal frees a node that a global pointer refers to, and
\* schedule always finds somebody to run, however many programs come, wait and go.
THEOREM NothingDangles ==
  ASSUME ForkJoin
  PROVE  Spec => []NoDangling
<1>1. IInv /\ FamilyInv => NoDangling
  <2> SUFFICES ASSUME IInv, Family(table, currentNode, booted, foreground, background)
               PROVE  Intact
    BY DEF FamilyInv, NoDangling
  <2>1. \A m \in Nodes(table) : table.next[m] \in Nodes(table)
    BY Parts DEF IInv
  <2> QED BY <2>1 DEF Family, Home, Front, Intact
<1> QED BY <1>1, FamilyAlways, Invariance, PTL

\* Until then children counts the children of every process, and one that waits has a child to wake it.
THEOREM FamiliesStay ==
  ASSUME ForkJoin
  PROVE  Spec => []ChildrenKept
<1>1. IInv /\ FamilyInv => ChildrenKept
  <2> SUFFICES ASSUME WellFormed(table), Kin(table), NEW q \in Procs(table)
               PROVE  /\ table.proc[q].children = Cardinality(Children(q))
                      /\ table.proc[q].state = "BLOCKED" => Children(q) # {}
    BY DEF FamilyInv, Family, ChildrenKept, IInv
  <2>1. Children(q) = Offspring(table, q)
    BY DEF Children, Offspring
  <2> QED BY <2>1, FS_EmptySet DEF Kin
<1> QED BY <1>1, FamilyAlways, Invariance, PTL
=============================================================================
