----------------------------- MODULE MCScheduler -----------------------------
(* Small instances of Scheduler: which programs make which calls, and a     *)
(* view that forgets which memory cells were used.                          *)
EXTENDS Scheduler

\* Programs that only create, wait, yield and end; the shell lives for ever.
ForkJoinCalls ==
  [IDLE |-> {}, shell |-> {"exec", "execfg", "yield", "waitpid"},
   user |-> {"exec", "yield", "waitpid", "exit"}]

\* What the shell and the programs of the repository do call: the commands
\* kill, block and nice, and the tests that do the same to their children.
ControlCalls ==
  [IDLE |-> {}, shell |-> {"exec", "execfg", "waitpid", "kill", "block"},
   user |-> {"exec", "exit", "kill", "block", "ready"}]

\* A fixed population that changes its priorities, yields and ends.
TurnCalls ==
  [IDLE |-> {}, shell |-> {"exec", "yield"}, user |-> {"exit", "nice"}]

\* Two states are the same when the rings, read from the root, hold the same
\* control blocks and the pointers point to the same places of them.  Cells
\* are interchangeable: nothing in the code compares or orders addresses.
RingOrder ==
  LET hops == 0 .. Cardinality(Nodes(table)) - 1
      start == IF table.root \in Nodes(table) THEN table.root
               ELSE CHOOSE n \in Nodes(table) : TRUE
      walk[k \in hops] == IF k = 0 THEN start ELSE table.next[walk[k - 1]]
  IN  walk

Place(n) == {k \in DOMAIN RingOrder : RingOrder[k] = n}

RingView ==
  <<[k \in DOMAIN RingOrder |-> table.proc[table.p[RingOrder[k]]]],
    table.nodeCount, table.current_pid, Place(table.root), Place(currentNode),
    Place(foreground), Place(background), foreground = NULL, background = NULL,
    forceNext, quantums, booted, reused>>

\* Liveness cannot use a view.  There malloc returns a fixed free cell: since
\* cells are interchangeable every behaviour is one of these, renamed.
FirstFit ==
  /\ \A n \in Nodes(table') \ Nodes(table) : n = CHOOSE m \in Node \ Nodes(table) : TRUE
  /\ \A q \in Procs(table') \ Procs(table) : q = CHOOSE x \in Proc \ Procs(table) : TRUE
=============================================================================
