------------------------------ MODULE Scheduler ------------------------------
(***************************************************************************)
(* The round robin scheduler of Kernel/scheduler.c and the process calls   *)
(* built on it.  There is one CPU; system calls, the timer interrupt and   *)
(* the keyboard interrupt run with interrupts off, so each of them is one  *)
(* step, up to and including the switch to the next process made by        *)
(* schedule.  What interleaves are the processes, at their system calls    *)
(* and at every tick of the timer.                                         *)
(*                                                                         *)
(* The semaphores and disableScheduler calls inside addProcess and         *)
(* removeNode are taken and released within one step; Semaphore.tla has    *)
(* the steps that run with interrupts on.  Allocation succeeds as long as  *)
(* Node and Proc have a free cell.                                         *)
(*                                                                         *)
(* The model follows the system up to the first step that leaves a global  *)
(* pointer dangling, or in which findNext finds nobody and recurses for    *)
(* ever: what the code does from there on is undefined.                    *)
(***************************************************************************)
EXTENDS ProcessTable

CONSTANTS
  QUANTUM_MAX,
  Priorities,  \* priorities programs ask for; the smaller the longer the slice
  Calls,       \* Calls[name]: the system calls made by the programs so named
  Interrupts   \* whether Ctrl-C is typed

ASSUME QuantumAssumption == QUANTUM_MAX \in Nat
ASSUME PrioritiesAssumption == Priorities \subseteq Nat
ASSUME InterruptsAssumption == Interrupts \in BOOLEAN

VARIABLES
  table,        \* the ring of processes
  currentNode,  \* the node being run; NULL once findNext found nobody
  foreground,
  background,
  forceNext,    \* a switch was asked for
  quantums,     \* ticks charged to the current node (node.quantums)
  booted,       \* the first program has started the shell
  reused        \* history: a pid was handed out that still meant another process

vars == <<table, currentNode, foreground, background, forceNext, quantums,
          booted, reused>>

Current == table.p[currentNode]
CurrentBlock == table.proc[Current]

\* No global pointer refers to a freed node, and somebody is running.
Intact ==
  /\ {currentNode, table.root} \subseteq Nodes(table)
  /\ {foreground, background} \subseteq Nodes(table) \cup {NULL}

-----------------------------------------------------------------------------
(* schedule and the functions it calls, on the table t the rest of the     *)
(* handler has left.                                                       *)

\* runNext(from); with nobody to run, findNext does not return.
RunNext(t, from) ==
  LET n == FindNext(t, from)
  IN  /\ currentNode' = n
      /\ IF n = NULL
           THEN table' = t /\ quantums' = quantums
           ELSE /\ table' = SetState(t, t.p[n], "RUNNING")
                /\ quantums' = t.proc[t.p[n]].priority

\* The branch of schedule for a current process that was killed.  When it is
\* the foreground one killFgroundProcess hands the foreground back; its call
\* of killProcess finds that the victim is the current process and enters
\* schedule again, which now removes it.
ReapCurrent(t) ==
  IF currentNode = foreground /\ background = NULL
  THEN /\ RunNext(t, currentNode)
       /\ UNCHANGED <<foreground, background>>
  ELSE IF currentNode = foreground
  THEN LET woken == IF t.proc[t.p[background]].state = "BLOCKED"
                      THEN SetState(t, t.p[background], "READY") ELSE t
       IN  /\ RunNext(RemoveNode(woken, currentNode, currentNode), currentNode)
           /\ foreground' = background
           /\ background' = NULL
  ELSE /\ RunNext(RemoveNode(t, currentNode, currentNode), currentNode)
       /\ UNCHANGED <<foreground, background>>

\* Faulty variants: the preempted process is not marked READY, and the search
\* for the next one starts at the one just preempted.
PreemptUnmarked(t) == RunNext(t, t.next[currentNode])
PreemptInPlace(t) == RunNext(SetState(t, t.p[currentNode], "READY"), currentNode)

\* The branch of schedule for a slice that is over.
Preempt(t) == RunNext(SetState(t, t.p[currentNode], "READY"), t.next[currentNode])

Schedule(t, force) ==
  LET state == t.proc[t.p[currentNode]].state
      charged == IF state = "RUNNING" THEN quantums + 1 ELSE quantums
  IN  \/ /\ t.nodeCount = 1
         /\ table' = t /\ forceNext' = force
         /\ UNCHANGED <<currentNode, quantums, foreground, background>>
      \/ /\ t.nodeCount # 1 /\ state = "KILLED"
         /\ ReapCurrent(t) /\ forceNext' = force
      \/ /\ t.nodeCount # 1 /\ state = "BLOCKED"
         /\ RunNext(t, t.next[currentNode]) /\ forceNext' = force
         /\ UNCHANGED <<foreground, background>>
      \/ /\ t.nodeCount # 1 /\ state \notin {"KILLED", "BLOCKED"}
         /\ charged > QUANTUM_MAX \/ force
         /\ Preempt(t) /\ forceNext' = FALSE
         /\ UNCHANGED <<foreground, background>>
      \/ /\ t.nodeCount # 1 /\ state \notin {"KILLED", "BLOCKED"}
         /\ ~(charged > QUANTUM_MAX \/ force)
         /\ table' = t /\ quantums' = charged /\ forceNext' = force
         /\ UNCHANGED <<currentNode, foreground, background>>

-----------------------------------------------------------------------------
(* The interrupts and system calls.                                        *)

\* init_scheduler: IDLE is the only node, and runs.
Init ==
  /\ \E n \in Node, q \in Proc :
       /\ table = [p |-> [m \in {n} |-> q], next |-> [m \in {n} |-> n],
                   proc |-> [x \in {q} |->
                     [name |-> "IDLE", state |-> "RUNNING", pid |-> 0,
                      parent_pid |-> 0, children |-> 0,
                      priority |-> QUANTUM_MAX, askWait |-> FALSE]],
                   root |-> n, nodeCount |-> 1, current_pid |-> 1]
       /\ currentNode = n
  /\ foreground = NULL /\ background = NULL
  /\ forceNext = FALSE
  /\ quantums = QUANTUM_MAX
  /\ booted = FALSE
  /\ reused = FALSE

Calling(call) ==
  /\ Intact
  /\ call \in Calls[CurrentBlock.name]
  /\ CurrentBlock.askWait => call = "waitpid"

\* Some process has this pid, or had a parent with it.
PidInUse(pid) ==
  \E q \in Procs(table) : pid \in {table.proc[q].pid, table.proc[q].parent_pid}

\* addProcess: the new node goes right after the current one; a foreground
\* process takes the foreground, and the first one to do so parks the old.
AddProcess(name, priority, fg) ==
  \E n \in Node \ Nodes(table), q \in Proc \ Procs(table) :
    LET t == AddNode(table, currentNode, n, q, name, priority)
    IN  /\ table' = [t EXCEPT !.proc[Current].askWait = fg /\ name # "shell"]
        /\ foreground' = IF fg THEN n ELSE foreground
        /\ background' = IF fg /\ background = NULL THEN foreground ELSE background
        /\ reused' = (reused \/ PidInUse(table.current_pid))
        /\ UNCHANGED <<currentNode, forceNext, quantums>>

\* main of uCodeModule.c, which runs as IDLE, starts the shell and from then
\* on only sleeps.
Boot ==
  /\ Intact /\ CurrentBlock.name = "IDLE" /\ ~booted
  /\ AddProcess("shell", 0, TRUE)
  /\ booted' = TRUE

Exec ==
  /\ Calling("exec")
  /\ \E priority \in Priorities : AddProcess("user", priority, FALSE)
  /\ UNCHANGED booted

\* The shell runs a command in the foreground; askWait makes waitpid its
\* next call.
ExecForeground ==
  /\ Calling("execfg")
  /\ \E priority \in Priorities : AddProcess("user", priority, TRUE)
  /\ UNCHANGED booted

\* The timer interrupt.
Tick ==
  /\ Intact
  /\ Schedule(table, forceNext)
  /\ UNCHANGED <<booted, reused>>

Yield ==
  /\ Calling("yield")
  /\ Schedule(table, TRUE)
  /\ UNCHANGED <<booted, reused>>

\* killCurrentProcess, where the main function of every process returns to.
Exit ==
  /\ Calling("exit")
  /\ Schedule(SetState(table, Current, "KILLED"), forceNext)
  /\ UNCHANGED <<booted, reused>>

WaitPid ==
  /\ Calling("waitpid")
  /\ LET t == [table EXCEPT !.proc[Current].askWait = FALSE]
     IN  IF CurrentBlock.children > 0
         THEN Schedule(SetState(t, Current, "BLOCKED"), forceNext)
         ELSE /\ table' = t
              /\ UNCHANGED <<currentNode, foreground, background, forceNext, quantums>>
  /\ UNCHANGED <<booted, reused>>

Pids == {table.proc[q].pid : q \in Procs(table)}

KillProcess ==
  /\ Calling("kill")
  /\ \E pid \in Pids :
       IF pid = CurrentBlock.pid
       THEN Schedule(SetState(table, Current, "KILLED"), forceNext)
       ELSE /\ table' = KillOther(table, pid, currentNode)
            /\ UNCHANGED <<currentNode, foreground, background, forceNext, quantums>>
  /\ UNCHANGED <<booted, reused>>

BlockProcess ==
  /\ Calling("block")
  /\ \E pid \in Pids :
       LET aux == FindNode(table, pid)
       IN  /\ aux # NULL
           /\ Schedule(SetState(table, table.p[aux], "BLOCKED"), forceNext)
  /\ UNCHANGED <<booted, reused>>

ReadyProcess ==
  /\ Calling("ready")
  /\ \E pid \in Pids : table' = ProcessReady(table, pid)
  /\ UNCHANGED <<currentNode, foreground, background, forceNext, quantums, booted, reused>>

Nice ==
  /\ Calling("nice")
  /\ \E pid \in Pids, priority \in Priorities :
       table' = ChangePriority(table, pid, priority)
  /\ UNCHANGED <<currentNode, foreground, background, forceNext, quantums, booted, reused>>

\* Ctrl-C, in the keyboard interrupt.  With nothing in the background it only
\* readies the parent of whoever was interrupted.  Otherwise the foreground
\* process is killed: if it (or one with its pid) is the one interrupted the
\* handler never comes back, else that parent is readied as well.
CtrlC ==
  /\ Interrupts /\ Intact
  /\ \/ /\ background = NULL
        /\ table' = ProcessReady(table, CurrentBlock.parent_pid)
        /\ UNCHANGED <<currentNode, foreground, background, quantums>>
     \/ /\ background # NULL
        /\ foreground' = background /\ background' = NULL
        /\ LET bg == table.p[background]
               t == IF table.proc[bg].state = "BLOCKED"
                      THEN SetState(table, bg, "READY") ELSE table
               victim == table.proc[table.p[foreground]].pid
               killed == SetState(t, Current, "KILLED")
           IN  IF victim = CurrentBlock.pid
               THEN RunNext(IF currentNode = background THEN killed
                            ELSE RemoveNode(killed, currentNode, currentNode),
                            currentNode)
               ELSE /\ table' = ProcessReady(KillOther(t, victim, currentNode),
                                             CurrentBlock.parent_pid)
                    /\ UNCHANGED <<currentNode, quantums>>
  /\ UNCHANGED <<forceNext, booted, reused>>

\* Past the first dangling pointer, or with the CPU lost in findNext, the
\* model stands still.
Undefined == ~Intact /\ UNCHANGED vars

Next ==
  \/ Boot \/ Exec \/ ExecForeground \/ Tick \/ Yield \/ Exit \/ WaitPid
  \/ KillProcess \/ BlockProcess \/ ReadyProcess \/ Nice \/ CtrlC
  \/ Undefined

Spec == Init /\ [][Next]_vars

\* The timer never stops.  Nothing obliges a program to make a system call.
FairSpec == Spec /\ WF_vars(Tick) /\ WF_vars(Boot)

-----------------------------------------------------------------------------
(* Properties.                                                             *)

TypeOK ==
  /\ TableType(table)
  /\ currentNode \in Node \cup {NULL}
  /\ foreground \in Node \cup {NULL}
  /\ background \in Node \cup {NULL}
  /\ forceNext \in BOOLEAN
  /\ quantums \in Nat
  /\ booted \in BOOLEAN
  /\ reused \in BOOLEAN

\* Whatever is created, killed or unlinked, the nodes form a single ring in
\* which every control block appears exactly once (insertNode, removeNode):
\* no walk of findNode or findNext leaves the ring or misses a process.
RingIsOneCycle == OneCycle(table) /\ OneNodeEach(table)

\* nodeCount and current_pid are kept by different functions (addProcess and
\* removeNode, createProcess and freeProcess) and still always agree: the
\* next pid handed out is the number of processes.
CountersAgree == Counted(table)

\* Only the process of currentNode is ever marked RUNNING, through forced
\* switches, nested calls of schedule and kills alike.
OnlyCurrentRuns ==
  Intact => \A q \in Procs(table) : table.proc[q].state = "RUNNING" => q = Current

\* As long as pids have been unique, nobody frees a node some global pointer
\* refers to and there is always a process to switch to.
NoDangling == ~reused => Intact

Children(q) == {x \in Procs(table) \ {q} : table.proc[x].parent_pid = table.proc[q].pid}

\* As long as pids have been unique, the field children, kept by addProcess and
\* removeNode, is the number of processes in the ring with that parent, and no
\* wakeup is lost: a process blocked in waitpid still has a child to wake it.
ChildrenKept ==
  ~reused =>
    \A q \in Procs(table) :
      /\ table.proc[q].children = Cardinality(Children(q))
      /\ table.proc[q].state = "BLOCKED" => Children(q) # {}

\* The processes in the order of the ring, starting anywhere.
Following(t, q) == t.p[t.next[CHOOSE n \in Nodes(t) : t.p[n] = q]]

\* A step inserts at most one process, right after the one that created it,
\* and removes at most one: the others keep their place in the round.
KeepsTurns ==
  [][Intact => \A q \in Procs(table) \cap Procs(table') :
       LET after == Following(table, q)
       IN  Following(table', q) \in
             IF after \notin Procs(table') THEN {Following(table, after)}
             ELSE {after} \cup IF q = Current THEN Procs(table') \ Procs(table) ELSE {}
    ]_vars

Waits(q) == q \in Procs(table) /\ table.proc[q].state \in {"READY", "NEW"}
Creates == Boot \/ Exec \/ ExecForeground

\* Round robin: once no more processes are created, nobody who could run
\* waits for ever, whatever priorities the others have.
StarvationFree ==
  <>[][~Creates]_vars => \A q \in Proc : Waits(q) ~> ~Waits(q)
=============================================================================
