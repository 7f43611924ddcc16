----------------------------- MODULE ProcessMemory -----------------------------
(***************************************************************************)
(* The memory of a process: what addProcess asks malloc for when one is    *)
(* created and what freeProcess gives back when it ends, with malloc       *)
(* failing at any call.  Each of the two runs with interrupts off.         *)
(*                                                                         *)
(* A block is named by the process it was asked for, by number in the      *)
(* order of creation, and by its use: that blocks are apart is what        *)
(* Allocator promises.  Which of the nodes of the ring is freed is the     *)
(* matter of ProcessTable, here they are counted.                          *)
(***************************************************************************)
EXTENDS Integers, Sequences, FiniteSets

CONSTANTS
  MaxArgs,     \* the most arguments a program is given
  MaxCreated   \* bounds how many processes are asked for

ASSUME BoundsAssumption == MaxArgs \in Nat /\ MaxCreated \in Nat

VARIABLES
  owned,       \* the blocks malloc gave and free did not take back
  procs,       \* the processes asked for: argc, whether argv was copied, where they are,
               \*   and whose pid the caller was told
  nodes,       \* in the ring, but for IDLE's
  nodeCount,   \* what the scheduler takes for it
  undefined    \* memory was used that is nobody's (from there on)

processes == <<owned, procs, nodes, nodeCount, undefined>>

Block(n, use) == <<n, use, 0>>
Args(n, positions) == {<<n, "arg", i>> : i \in positions}

Copied(n, argc) == {Block(n, "argv")} \cup Args(n, 0 .. argc - 1)

-----------------------------------------------------------------------------

ProcessInit ==
  /\ owned = {} /\ procs = <<>>
  /\ nodes = 0 /\ nodeCount = 0
  /\ undefined = FALSE

\* What addProcess returns, p->pid, for a process that could not be made: what lies
\* where NULL points.  There is memory there, so the caller goes on with a number.
Told(where) == IF where = "never" THEN "stray" ELSE "own"

\* The process of number n is asked for; addProcess counts it whatever happened.
Asked(n, argc, argv, where) ==
  /\ ~ undefined /\ n = Len(procs) + 1 /\ n <= MaxCreated
  /\ procs' = Append(procs, [argc |-> argc, argv |-> argv, where |-> where, pid |-> Told(where)])
  /\ nodes' = nodes + (IF where = "ring" THEN 1 ELSE 0)
  /\ nodeCount' = nodeCount + 1

\* A faulty variant: what has been given is kept.
NothingBack(n, given) == owned \cup given

\* createProcess gives back the block of the process when there is none for the stack.
GivenBack(n, given) == (owned \cup given) \ {Block(n, "process")}

\* createProcess returns NULL.  addProcess goes on: when there is memory for a
\* node, insertNode puts one for no process into the ring, and the scheduler will
\* write its state where NULL points.
NoProcess(n, argc) ==
  /\ Asked(n, argc, "none", "never")
  /\ \E given \in {{}, {Block(n, "process")}} : owned' = GivenBack(n, given)
  /\ undefined' \in BOOLEAN

\* copy_args returns NULL, and the process goes without argv.
NoArgv(n, argc) ==
  /\ \E where \in {"ring", "nowhere"} : Asked(n, argc, "none", where)
  /\ owned' = owned \cup {Block(n, "process"), Block(n, "stack")}
  /\ UNCHANGED undefined

\* copy_args frees what it has and goes on to copy the argument to where there is none.
NoArgument(n, argc) ==
  /\ argc > 0
  /\ Asked(n, argc, "none", "nowhere")
  /\ owned' = owned \cup {Block(n, "process"), Block(n, "stack")}
  /\ undefined' = TRUE

\* Everything has been given but perhaps the node: then nobody will ever find the process.
Added(n, argc) ==
  /\ \E where \in {"ring", "nowhere"} : Asked(n, argc, "copied", where)
  /\ owned' = owned \cup {Block(n, "process"), Block(n, "stack")} \cup Copied(n, argc)
  /\ UNCHANGED undefined

addProcess ==
  \E n \in 1 .. MaxCreated, argc \in 0 .. MaxArgs :
    NoProcess(n, argc) \/ NoArgv(n, argc) \/ NoArgument(n, argc) \/ Added(n, argc)

\* The index of freeProcess goes up twice a turn.
Walked(argc) == {i \in 0 .. argc : i % 2 = 0}

\* The walk meets the NULL at the end of argv, or goes past it.
Ends(n) == procs[n].argv = "copied" /\ procs[n].argc \in Walked(procs[n].argc)

\* removeNode, for one that ended or was killed and has a parent.
removeNode ==
  \E n \in DOMAIN procs :
    /\ ~ undefined /\ procs[n].where = "ring"
    /\ procs' = [procs EXCEPT ![n].where = "ended"]
    /\ nodes' = nodes - 1 /\ nodeCount' = nodeCount - 1
    /\ IF Ends(n)
       THEN /\ owned' = owned \ ({Block(n, use) : use \in {"process", "stack", "argv"}}
                                 \cup Args(n, Walked(procs[n].argc)))
            /\ UNCHANGED undefined
       ELSE undefined' = TRUE /\ UNCHANGED owned

ProcessNext == addProcess \/ removeNode

ProcessSpec == ProcessInit /\ [][ProcessNext]_processes

-----------------------------------------------------------------------------
(* Properties.                                                             *)

ProcessTypeOK ==
  /\ procs \in Seq([argc : 0 .. MaxArgs, argv : {"copied", "none"},
                    where : {"ring", "nowhere", "never", "ended"}, pid : {"own", "stray"}])
  /\ owned \subseteq {Block(n, use) : n \in DOMAIN procs, use \in {"process", "stack", "argv"}}
                      \cup UNION {Args(n, 0 .. MaxArgs - 1) : n \in DOMAIN procs}
  /\ nodes \in Nat /\ nodeCount \in Nat /\ undefined \in BOOLEAN

\* What belongs to a process, and what is left of it when it has ended: its
\* arguments at odd positions.
Left(n) ==
  LET p == procs[n]
  IN  CASE p.where = "never" -> {}
        [] p.where = "ended" -> Args(n, {i \in 0 .. p.argc - 1 : i % 2 = 1})
        [] OTHER -> {Block(n, "process"), Block(n, "stack")}
                      \cup (IF p.argv = "copied" THEN Copied(n, p.argc) ELSE {})

In(where) == {n \in DOMAIN procs : procs[n].where \in where}

\* Processes give back what they were given, but for every other argument, at
\* whatever call malloc failed; the scheduler counts the nodes, and one more for
\* each process that could not be created or got no node, and the pid its creator
\* was told is its own unless it could not be created.  Said up to the first
\* write or walk into memory that is nobody's, which a program with an odd number
\* of arguments comes to when it ends.
ProcessesGiveBack ==
  /\ ProcessTypeOK
  /\ ~ undefined =>
       /\ owned = UNION {Left(n) : n \in DOMAIN procs}
       /\ nodes = Cardinality(In({"ring"}))
       /\ nodeCount = nodes + Cardinality(In({"never", "nowhere"}))
       /\ {n \in DOMAIN procs : procs[n].pid = "stray"} = In({"never"})
================================================================================
