---------------------------- MODULE ProcessTable ----------------------------
(***************************************************************************)
(* The data structure the scheduler of Kernel/scheduler.c works on: a      *)
(* circular singly linked list of nodes, each pointing to the control      *)
(* block of one process, and the counters kept beside it.  A table is a    *)
(* record                                                                  *)
(*                                                                         *)
(*   p          [nodes -> control blocks]   node.p                         *)
(*   next       [nodes -> nodes]            node.next                      *)
(*   proc       [control blocks -> PCB]     the struct process itself      *)
(*   root       a node                      root                           *)
(*   nodeCount, current_pid                 the two global counters        *)
(*                                                                         *)
(* The domains of p and next are the allocated nodes and the domain of     *)
(* proc the allocated control blocks, so a pointer to memory that was      *)
(* freed is a pointer outside the domain.                                  *)
(*                                                                         *)
(* This module has no variables: it holds the functions of scheduler.c     *)
(* that only read or rebuild the table.  Scheduler.tla is the machine      *)
(* that uses them.                                                         *)
(***************************************************************************)
EXTENDS Naturals, FiniteSets

CONSTANTS
  Node,         \* memory cells for nodes; bounds the number of processes
  Proc,         \* memory cells for control blocks
  NULL,         \* the null pointer
  ChildrenMod   \* children is an unsigned integer modulo this (2^64)

ASSUME NodeAssumption == IsFiniteSet(Node) /\ NULL \notin Node
ASSUME ChildrenModAssumption == ChildrenMod \in Nat \ {0, 1}

ProcState == {"READY", "RUNNING", "BLOCKED", "NEW", "KILLED"}

\* What the properties tell apart of struct process.  askWait is not a field
\* of it: it records that the program of the process is between a foreground
\* exec and the waitpid that the shell always makes after it.
PCB == [name : {"IDLE", "shell", "user"}, state : ProcState, pid : Nat,
        parent_pid : Nat, children : 0 .. ChildrenMod - 1, priority : Nat,
        askWait : BOOLEAN]

Nodes(t) == DOMAIN t.next
Procs(t) == DOMAIN t.proc

-----------------------------------------------------------------------------
(* Walking the ring.                                                       *)

\* The nodes met on the walk from -> next -> next -> ... that ends at the
\* first of targets, or where it began.
Met(t, from, targets) ==
  {m \in Nodes(t) : \A part \in SUBSET Nodes(t) :
     from \in part /\ (\A x \in part \ targets : t.next[x] \in part) => m \in part}

\* The one of targets at which that walk ends, or NULL when it meets none.
Nearest(t, from, targets) ==
  LET found == Met(t, from, targets) \cap targets
  IN  IF found = {} THEN NULL ELSE CHOOSE m \in found : TRUE

\* The nodes whose process answers to this pid.  Nothing in the code makes
\* pids unique, so there may be more than one.
Holders(t, pid) == {m \in Nodes(t) : t.proc[t.p[m]].pid = pid}

FindNode(t, pid) == Nearest(t, t.root, Holders(t, pid))

\* The nodes findNext accepts.
Runnable(t) == {m \in Nodes(t) : t.proc[t.p[m]].state \in {"READY", "NEW"}}

FindNext(t, candidate) == Nearest(t, candidate, Runnable(t))

-----------------------------------------------------------------------------
(* Rebuilding the table.                                                   *)

SetState(t, q, state) == [t EXCEPT !.proc[q].state = state]

ProcessReady(t, pid) ==
  LET aux == FindNode(t, pid)
  IN  IF aux = NULL THEN t ELSE SetState(t, t.p[aux], "READY")

ChangePriority(t, pid, priority) ==
  LET aux == FindNode(t, pid)
  IN  IF aux = NULL THEN t ELSE [t EXCEPT !.proc[t.p[aux]].priority = priority]

\* Faulty variants of insertNode: the two links written in the other order,
\* and the new node put after the root.
InsertNodeLoop(t, cur, n) ==
  [m \in Nodes(t) \cup {n} |-> IF m \in {n, cur} THEN n ELSE t.next[m]]

InsertNodeAtRoot(t, cur, n) ==
  [m \in Nodes(t) \cup {n} |->
     IF m = n THEN t.next[t.root] ELSE IF m = t.root THEN n ELSE t.next[m]]

\* The links after insertNode: n goes between cur and what followed cur.
InsertNode(t, cur, n) ==
  [m \in Nodes(t) \cup {n} |->
     IF m = n THEN t.next[cur] ELSE IF m = cur THEN n ELSE t.next[m]]

NewBlock(t, creator, name, priority) ==
  [name |-> name, state |-> "NEW", pid |-> t.current_pid,
   parent_pid |-> t.proc[creator].pid, children |-> 0,
   priority |-> priority, askWait |-> FALSE]

\* The control blocks after createProcess, with one more child counted on the
\* creator.
CreateProcess(t, creator, q, block) ==
  [x \in Procs(t) \cup {q} |->
     IF x = q THEN block
     ELSE IF x = creator THEN [t.proc[x] EXCEPT !.children = (@ + 1) % ChildrenMod]
     ELSE t.proc[x]]

\* addProcess, as far as the table goes: control block q and node n are the
\* memory malloc returned.
AddNode(t, cur, n, q, name, priority) ==
  [p |-> [m \in Nodes(t) \cup {n} |-> IF m = n THEN q ELSE t.p[m]],
   next |-> InsertNode(t, cur, n),
   proc |-> CreateProcess(t, t.p[cur], q, NewBlock(t, t.p[cur], name, priority)),
   root |-> t.root,
   nodeCount |-> t.nodeCount + 1,
   current_pid |-> t.current_pid + 1]

\* A faulty variant: the last child does not wake its parent.
LoseChildSilently(t, parent) ==
  [t.proc EXCEPT ![t.p[parent]].children = (@ + ChildrenMod - 1) % ChildrenMod]

\* The control blocks after the parent, at node parent, has lost a child: it
\* is made ready, whatever its state, when that was the last one.
LoseChild(t, parent) ==
  LET left == (t.proc[t.p[parent]].children + ChildrenMod - 1) % ChildrenMod
  IN  [t.proc EXCEPT ![t.p[parent]].children = left,
                     ![t.p[parent]].state = IF left = 0 THEN "READY" ELSE @]

\* Faulty variants: it is n itself that is freed, the root is not moved with
\* the process of pid 0, and the pid counter is left alone.
ToFreeItself(t, n) == n
RootUnmoved(t, n) == t.root
PidKept(t) == t.current_pid

\* The pieces of an unlinking: removeNode frees the node after n, which hands
\* its process and its link over to n; the root follows the process of pid 0;
\* freeProcess takes one pid back, whichever it was.
ToFree(t, n) == t.next[n]
RootAfter(t, n) == IF t.proc[t.p[t.next[n]]].pid = 0 THEN n ELSE t.root
PidAfter(t) == t.current_pid - 1

Unlink(t, n, proc) ==
  LET kept == Nodes(t) \ {ToFree(t, n)}
      after == t.next[n]
  IN  [p |-> [m \in kept |-> IF m = n THEN t.p[after] ELSE t.p[m]],
       next |-> [m \in kept |-> IF m = n THEN t.next[after] ELSE t.next[m]],
       proc |-> [x \in Procs(t) \ {t.p[n]} |-> proc[x]],
       root |-> RootAfter(t, n),
       nodeCount |-> t.nodeCount - 1,
       current_pid |-> PidAfter(t)]

\* removeNode(n).  The parent looked for is the parent of the current process
\* whoever n is; when no process answers to that pid nothing at all happens
\* and the process of n stays in the ring.
RemoveNode(t, n, cur) ==
  LET parent == FindNode(t, t.proc[t.p[cur]].parent_pid)
  IN  IF parent = NULL THEN t ELSE Unlink(t, n, LoseChild(t, parent))

\* killProcess(pid) when pid is not the pid of the current process.
KillOther(t, pid, cur) ==
  LET aux == FindNode(t, pid)
  IN  IF aux = NULL THEN t
      ELSE RemoveNode(SetState(t, t.p[aux], "KILLED"), aux, cur)

-----------------------------------------------------------------------------
(* What makes a table well formed.                                         *)

TableType(t) ==
  /\ t \in [p : [Nodes(t) -> Procs(t)], next : [Nodes(t) -> Nodes(t)],
            proc : [Procs(t) -> PCB], root : Node,
            nodeCount : Nat, current_pid : Nat]
  /\ Nodes(t) \subseteq Node
  /\ Procs(t) \subseteq Proc

\* The links form one cycle through every node: no two nodes have the same
\* successor and no proper part of the ring is closed under next.
OneCycle(t) ==
  /\ \A m, n \in Nodes(t) : t.next[m] = t.next[n] => m = n
  /\ \A part \in SUBSET Nodes(t) :
       part # {} /\ (\A m \in part : t.next[m] \in part) => part = Nodes(t)

\* Every control block belongs to exactly one node.
OneNodeEach(t) ==
  /\ \A m, n \in Nodes(t) : t.p[m] = t.p[n] => m = n
  /\ \A q \in Procs(t) : \E m \in Nodes(t) : t.p[m] = q

\* Both counters count the nodes.
Counted(t) ==
  t.nodeCount = Cardinality(Nodes(t)) /\ t.current_pid = t.nodeCount
=============================================================================
