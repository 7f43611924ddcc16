# S-O: specifications and proofs

S-O is a 64-bit single-CPU operating system written in C on top of x64BareBones.
The kernel (`Kernel/`) has a round robin scheduler, named semaphores, pipes, two
memory allocators, a keyboard and a video driver; the user module
(`Userland/uCodeModule/`) has a shell, some programs and the tests. This directory
holds TLA+ models of its core, the TLC configurations that check them on small
instances and machine-checked proofs about them.

## 1. Inventory

| Component | State | Operations | Talks to |
|---|---|---|---|
| Scheduler (`scheduler.c`, `process.c`) | circular list of nodes, `root`, `currentNode`, `foreground`, `background`, `forceNext`, `pendingDisables`, `nodeCount`, `current_pid`, a control block per process | `schedule` (timer, `int 20h`), `addProcess`, `killProcess`, `blockProcess`, `processReady`, `changePriority`, `wait_pid`, `killFgroundProcess` | allocator, semaphores (around two counters), keyboard (Ctrl-C) |
| Semaphores (`semaphore.c`) | `semaphores[MAX_SEMS]`: id, name, value, open_count, lock, ring of waiting pids | `sem_open`, `sem_wait`, `sem_post`, `sem_close`, `get_sem_info`, `get_sem_count` | scheduler (disable, enable, force a switch, make ready) |
| List allocator (`MemoryManager.c`, default build) | free list sorted by address, allocated list, `infoMem` | `malloc`, `free`, `getInfoMem` | called by everybody, with interrupts off |
| Buddy allocator (`MemoryManager.c`, `make buddy`) | a block per 512 bytes, a free row per level, `infoMem` | the same | the same |
| Keyboard (`keyboardDriver.c`, `sys_read`, `sys_timedRead`) | 55 keys and a count, `shift`, `ctrl` | `saveKey` in the interrupt, `readBuf`, the read loops | scheduler (Ctrl-C), readers woken by any interrupt |
| Pipes (`pipe.c`) | `pipes[MAX_PIPES]`, of which every operation takes a copy | `pipeOpen`, `pipeRead`, `pipeWrite`, `pipeClose` | semaphores, scheduler |
| Philosophers (`phylo.c`) | shared count and states, a mutex, two semaphores for each | take, put, add, remove | semaphores, scheduler |
| Shell (`shell.c`) | a line and its words | one command per line, `a \| b` | all system calls |
| Video driver (`videoDriver.c`) | position of the cursor, font size, pixels | `printString`, `clearScreen`, `changeFontSize` | written to by everybody |
| User library (`lib.c`, `timer.c` of the user module) | none | `printf` and its conversions, `atoul`, the formats of time and date | shell, programs |
| Start of the kernel (`kernel.c`, `moduleLoader.c`) and module packer (`Toolchain/ModulePacker`) | memory as the image leaves it, `startOfMem` | `buildImage`, `loadModules`, `clearBSS`, `initalizeMemoryManager` | allocators, first program |
| Memory of a process (`process.c`, `addProcess`) | block, stack and arguments of each process, `nodeCount` | `createProcess`, `copy_args`, `insertNode`, `freeProcess` | allocators, scheduler |
| tron (`tron.c`) | players, board, scores | a turn, pause, restart, the end of a game | keyboard (timed read), video driver |
| cat, wc, filter | a buffer | one line after another until Ctrl-D | keyboard, video driver |
| Timer, exceptions, IDT, other programs | see `PROJECT.json` | | |
| Boot loader, disk image | third-party code | | |

How they interact. Every gate of the IDT is an interrupt gate, so a system call, the
timer and the keyboard run with interrupts off. They come back on in three places
only: the `sti` of `_forceScheduler`, `_hlt`, and the end of `readBuf`. A system call
that does none of these is atomic. The scheduler is entered from the timer interrupt
and from `int 20h` inside a system call; a process that is switched out resumes at
the point where it entered it.

What is hard here:

* the ring is rebuilt by insertions next to the current node and by removals that
  free *the node after* the one removed, while four global pointers refer to nodes;
* `schedule` is entered from inside `schedule` when the foreground process is killed;
* a parent in `waitpid` is woken only by the last of its children, and the bookkeeping
  looks for the parent of the *current* process whoever is being removed;
* pids are taken back when any process exits, so they do not stay unique;
* `sem_wait` goes on with interrupts enabled after the first switch, with a pointer
  to a slot that may be freed and created again in the meantime, and disables the
  scheduler in a way that is not meant to be interrupted;
* counters are unsigned and some of them are decremented below zero;
* the kernel clears its variables in memory that holds the modules it is about to start;
* `malloc` may fail at each of the calls that make a process, and what was given has to
  go back at each of the ways out;
* two players share one keyboard and move at once, and who loses is decided by two of them.

`PROJECT.json` lists each of them under `hazards`, with its line and the properties
that cover it.

## 2. Modules

| Module | What it is |
|---|---|
| `ProcessTable` | the ring and the control blocks as a record, and the functions of `scheduler.c` and `process.c` that read or rebuild it: `FindNode`, `FindNext`, `InsertNode`, `AddNode`, `RemoveNode`, `KillOther`... |
| `Scheduler` | the machine: one action per interrupt and per process system call, each with the whole handler up to the switch made by `schedule` |
| `MCScheduler` | small instances: which programs make which calls, and a view of states up to the renaming of memory cells |
| `SchedulerProofs` | type correctness, the shape of the ring, the counters, the RUNNING mark and the order of turns, for all values of the constants; then the global pointers, and parents and their children, for any number of processes that create, wait and end |
| `SemaphoreTable` | the array `semaphores` and what the functions of `semaphore.c` do to it |
| `Semaphore` | processes that run `my_process_inc` of `test_sync.c` on it, instruction by instruction where interrupts are on |
| `MCSemaphore` | its symmetry |
| `Allocator` | what `malloc` and `free` promise, whichever allocator is built in |
| `HeapList` | the list allocator; implements `Allocator` |
| `Buddy` | the buddy allocator; implements `Allocator` |
| `KernelStart`, `MCKernelStart` | from the files that are packed, over the start of the kernel, to either allocator at work; composes `HeapList` and `Buddy`, and for the runs `ProcessMemory`; small files and addresses |
| `KernelProofs` | for heaps, pools, files and addresses of any size: both allocators, what either does in the kernel, and that the first program finds everything in its place |
| `ProcessMemory` | what a process is given and gives back, with `malloc` failing anywhere |
| `ProcessMemoryProofs` | that it is given back, for any number of processes and arguments |
| `Keyboard` | the keyboard driver, the interrupt that fills its buffer, and the two system calls that read |
| `KeyboardProofs` | the order of keys, their age and the room of the callers, for any number of readers |
| `Phylo` | the philosophers, with the program that lets them join and leave, on what `Semaphore` shows of a semaphore |
| `PhyloProofs` | its mutex, its forks and who may leave, for any number of seats |
| `Terminal`, `MCTerminal` | the text on the screen: the video driver, the line that the shell edits on it, and what `printf` makes of numbers; a small screen |
| `Programs` | `cat`, `wc` and `filter` as what they print for what is typed; extends `Terminal`, whose lines are typed to them as well |
| `Shell`, `MCShell` | the shell's loop: pipes, words, programs in the foreground and background; its symmetry |
| `ShellProofs` | the words of a line, the memory of its parts, what the shell waits for and how it ends, for lines and words of any length |
| `Tron`, `MCTron` | the game: moves, crashes, scores, pause and restart; two boards |
| `ProgramProofs` | the text on the screen, for screens, fonts and lines of any size; the conversions and the programs; the rules of the game, for a board of any size |
| `SemaphoreProofs` | type correctness, one slot per name, the order of the queue, mutual exclusion, conservation of the value, finality of contention, the count of the openings |

### Scheduler

`table` is the ring: `table.p` is `node.p`, `table.next` is `node.next`, and their domain
is the set of allocated nodes; `table.proc` gives the control blocks and its domain is
the set of allocated ones. Freed memory leaves the domain, so a dangling pointer is a
pointer outside it. `currentNode`, `foreground`, `background` and `forceNext` are the
globals. Only the count of ticks of the current node is kept (`quantums`), because
`runNext` sets `node.quantums` anew whenever a node becomes the current one.

| Action | Code |
|---|---|
| `Boot` | `main` of `uCodeModule.c` runs as IDLE and starts the shell |
| `Exec`, `ExecForeground` | `sys_exec` → `addProcess` → `createProcess`, `insertNode` |
| `Tick` | `_irq00Handler` → `schedule` |
| `Yield` | `sys_yield` → `forceNextSwitch` → `schedule` |
| `Exit` | a process returns into `killCurrentProcess` → `schedule` → `removeNode` or `killFgroundProcess` |
| `WaitPid` | `wait_pid` → `blockCurrentProcess` → `schedule` |
| `KillProcess`, `BlockProcess`, `ReadyProcess`, `Nice` | the system calls of those names |
| `CtrlC` | the branch of `saveKey` for Ctrl-C: `killFgroundProcess`, `processReady` |
| `Undefined` | past the first dangling pointer, or once `findNext` recurses for ever, the model stands still |

Abstractions: a priority counts from a small set; the argument vectors, stacks and file
descriptors are left out; `malloc` succeeds while there is a free cell (the code
dereferences NULL otherwise). `Calls` says which system calls the programs of a name
make; the proofs hold for every choice of it. The semaphores and the disabling of the
scheduler inside `addProcess` and `removeNode` begin and end within one step with
interrupts off, so they are not visible here.

`reused` is a history variable: a pid was handed out that some process still has, or has
as its parent. The properties about parents, children and dangling pointers are stated
up to there, because past it `findNode` finds whichever process comes first; how it
happens is in section 5.

### Semaphore

`sem` is the array. A system call is one step up to the forced switch of a `sem_wait` that
failed; from there on `pc` says where the process is in its retry: the `xchg` on the
lock (`check`), the test of the value (`value`), the round with the scheduler disabled
(`again`), the load and the store of `sem->value--`, and the release of the lock
(`unlock`). `slot` is the pointer kept across all of that. Which process runs next is
left open, which includes the real scheduler.

`TickWhileDisabled` is the one way out of the model: a tick in the middle of `again`
resumes the process somewhere else, and what happens then is undefined (`lost`).
`Kill` can hit a process wherever interrupts are on.

`early` is a history variable: a slot was freed while another process had the semaphore
open. That happens as soon as the last but one closes it, since the opening that
creates a semaphore is counted on slot 0 (`CountsPendingCloses` fails). Mutual exclusion and the
conservation of the value are claimed up to there and fail after it; the type, the
uniqueness of names and the order of the queue are claimed always, stale pointers
included.

### HeapList

Addresses are bytes from the start of the memory. `size` and `next` are the headers of the
blocks, by address; their common domain is the set of blocks. `free_mem` and `alloc_mem` are
the two heads. The loops that walk a list are `Listed`, `First` and `Before`, which say what
is met and in which order; they are written without recursion so that they can be proved
about. `held` is what programs hold: the pointers returned, with the sizes asked for.

| Action | Code |
|---|---|
| `Malloc` (`Take`) | `malloc`: first fit, the split, the move to the head of the allocated list, `infoMem` |
| `MallocFails` | its two returns of NULL |
| `Free` (`Release`) | `free`: off the allocated list, into the free list by address, and the loop that joins neighbours |
| `FreeFails` | a pointer that is on no allocated block |

`alloc_mem` is a field nobody initialises; it is taken to be NULL at first.

### Buddy

`buddy` is the state behind `infoMem`, `freeRow` and `blocks`; a block is its index. The
loops of `malloc` and `mergeBuddy` are recursive functions over levels (`SplitDown`,
`mergeBuddy`). `Malloc`, `MallocFails`, `Free` and `FreeFails` are the branches of the two
calls. `MallocTooLong` is a request above the pool, on which `removeBlock` is called with
NULL: nothing is claimed after it. `free` is tried with every offset of the pool, not only
with those handed out.

`Allocator` says what both promise: memory handed out lies in the region, and overlaps none
that is held. The region is the one the code works with, though it ends late (section 5).

### KernelStart

`memory` is bytes up to the point where the first program starts. `buildImage` is the packer, pieces of
`write_file` included; the image lies where the boot loader puts it, and everything else is
`GARBAGE`. `Boot` is `initializeKernelBinary` (`loadModules` with the lengths read from the
image, then `clearBSS`), `Start` the first instructions of the first program, which clear its own
variables. From `Run` on addresses do not matter, and one of the two allocators, by
the `build`, makes the steps of its own module. Where things are linked is a constant;
`FitsAssumption` is that they have room there.

### ProcessMemory

A block is named by the process and its use, since `Allocator` keeps blocks apart. `addProcess` is
`createProcess`, `copy_args` and `insertNode` with one action for each outcome of their calls of
`malloc`: `NoProcess`, `NoArgv`, `NoArgument`, `Added`, the last two with or without a node.
`removeNode` is `freeProcess`, whose index goes up twice a turn (`Walked`). A process that could not be made
is used all the same: `addProcess` writes its state and reads its pid where NULL points, where there is memory, so
its creator is told some number (`stray`). The model ends (`undefined`)
at the first use of memory that is nobody's, since nothing can be said of what comes after. `MCKernelStart` follows processes in place of an
allocator when the `build` is `either`, since they rely on what both promise.

### Keyboard

A key has a number, in the order of typing, and a mark whether it ends a line. `KeyPressed` is
`_irq01Handler` with `saveKey`, one step with interrupts off. The release of Ctrl goes
through the macro that takes the snapshot of the registers, which ends in `sti`: what
`saveKey` then does to the buffer is the steps `LoadCount`, `StoreCount` and `StoreKey`, between
which anything else but another key may happen. A reader is at its `_hlt` (`halted`), about
to call `readBuf` (`take`) or behind it (`clear`); `Read`, `Poll`, `Take` and `Clear` are the pieces of
`sys_read` and `sys_timedRead` between the points where interrupts are on.

Nothing asks whether the buffer is full. `count` comes right behind the keys, so the key after the last one is stored
in `count`, after `count` has been raised for it: from then on `count` is the number of a character (`StoreAt`, one of `Bytes`),
readers copy that many keys, those behind the last included (`Copied`), and the next key is stored that far away. The model goes on after the
first (`buf.hit = "count"`) and ends where something behind `count` is written (`lost`).

### Phylo

One process per philosopher in the order of creation and `main`, the program. What is done
between `sem_wait` and `sem_post` of the mutex is one step, and so is each call outside. A
semaphore is its value and a mark, `contended`, that some `sem_wait` has failed on it: from
then on it lets nobody in, which is `ContentionIsFinal` of `Semaphore`, and the process that
failed is `stuck`. The array of states is on the stack and nobody initialises it: each seat starts with any of
`Garbage`, that is `THINKING`, `HUNGRY` or `EATING`; what else may stand there is taken for `THINKING` by all that reads it.
`someLeft` and `unasked` are history variables: somebody left; somebody was granted forks without having asked, because
a neighbour that put down its own found the seat `HUNGRY` by chance.

### Terminal

The screen is cells of one character in the present font; every change of the font clears it.
`con` is the driver's state, `PutChar` one turn of the loop of `printStringAt`, with `NextLine` for the
scrolling and `Erased` for a backspace, which wipes the rectangle that `fillrect` makes of the
arguments it is given. `Prompt`, `Type`, `Erase` and `EndLine` are `bufferRead`; `PrintSome`, `ClearScreen` and
`changeFontSize` stand for commands. `text` is a history variable, the text as it was printed, broken
into the lines a screen that wide would show; `spilled` says that a line was begun that might not fit
into the rest of its row, or that a program printed a backspace, as `cat`, `wc` and `filter` do when one is typed to
them (`cat.c:20`): it may take back more than
the program printed, and from the beginning of a row it moves the cursor left of the screen, not to the row above. `numToBase`, `ultoa`, `itoa`, `atoul` and `Formatted` are the conversions, for numbers
that are not negative; `getTimeFormat` and `getDateFormat` put three of them into one string (`Parts`), the time after its
hour was converted (`LocalHour`: three less when it is over 3, and then 21 more if that is 0, 1 or 2); the digits are a recursive function, as the loops divide, and `atoul`, whose result is an `int`, a fold
over the characters before the first that is no digit. `NumbersReadBack` asks for numbers up to `INT_MAX`.

### Programs

`cat`, `wc` and `filter` are functions from the keys typed to what is printed, folds over the keys before
the one that ends the loop, with its state (`buff`, `i`) and one turn of it as an operator: `CatTurn`, `WcTurn`, `Count`, `Keep`.
`wc` also depends on the byte in front of its buffer, which it looks at when the buffer holds an empty string: zero or
not (`InFront`), since it belongs to the allocator or to another block.
Lines are taken to fit into the buffer, which the programs do not check. A line that was edited in `Terminal` is typed to them too.

### Tron

One step is a turn: a key or none (`NO_KEY`), both moves, and the verdict of `validPositions`.
`Turned` is what `input` makes of a key; `HeadOn` keeps the tests of the differences of direction
numbers as they are in the code. `Pause` and `Resume`, `Restart`, `ResetScore`, `PlayAgain` and `Quit` are the keys
outside of the game; `Killed` is Ctrl-C and `Launch` the next start of the program, which finds the scores of the last.
`board` has the cells with a trail; what is drawn, and the time a turn takes, are left out.

### Shell

A line is any sequence of a program, `exit`, `&`, `|` and blanks; longer words are commands that the
shell carries out itself or does not find, which comes to the same. `pc` is where `shell`, `pipeCmd` and
`readBuffer` are, `part` the string `readBuffer` was called with. `NotSplit`, `NoMemoryForRight` and `Split` are
`pipeCmd` up to its first `readBuffer`, for each outcome of the two mallocs; `Run` is `readBuffer` up to `exec`, `WaitPid` and `Awake` its
`askWait`. `ProgramEnds`, `CtrlC` and `CtrlCAlone` are what `Scheduler` does to the shell: the count `children` may stay too
high, since the killed process is taken off the parent of the one that was interrupted. With one word only, the
word before `argv` is compared with `&`: the model tries both outcomes. All pipes have the
descriptor 0, so each program reads the keyboard, and what the left one writes is dropped.

## 3. Runs

| Run | Instance | Shows |
|---|---|---|
| `sched_fork_join` | 5 processes, calls exec, execfg, yield, waitpid, exit | `NoDangling`, `ChildrenKept` |
| `sched_control` | 4 processes, also kill, block, ready, Ctrl-C | `TypeOK`, `RingIsOneCycle`, `CountersAgree`, `OnlyCurrentRuns`, `KeepsTurns` |
| `sched_turns` | 4 processes, priorities 0 and 1, liveness | `StarvationFree` |
| `sem_mutex` | 3 processes, 2 names, 3 slots, a ring of 2 waiting entries | `TypeOK`, `OneSlotPerName`, `QueueOrdered`, `MutualExclusion`, `ValueConserved`, `ContentionIsFinal` |
| `sem_closes` | 2 processes, one name | a violation of `CountsPendingCloses`, what `syscalls.h:25` says of `open_count`: it is 0 with one process to close it |
| `kernel_memory` | kernels of 7 to 9 bytes, modules of 0 to 9, pages of 8; a heap of 320 bytes with requests of 0, 20, 104 and 375; a pool of four blocks with five requests; 3 processes of up to 4 arguments | `StartsInPlace`, `HeapWellFormed` (`TypeOK`, `BlocksTile`, `EachOnOneList`, `FreeSorted`, `TotalKept`), `PoolIsTiled`, `StatusIsExact`, `MallocKeepsPromise`, `ProcessesGiveBack` |
| `keyboard` | 2 readers, 5 keys, a buffer of 2, 3 key presses, time limit 1 or none, liveness | `InOrderOnce` (with `TypeOK`), `OnlyFreshKeys`, `StaysInBuffer`, `TimedReadReturns` |
| `phylo_table` | 3 philosophers and one who may join, `MAX = 4`, `MIN = 2` | `MutexExclusion` (with `TypeOK`), `NeighboursEatApart`, `LeavesFed` |
| `terminal_lines` | a screen of 10 columns and 5 rows, two fonts, lines of 2, four outputs; up to 5 keys typed to a program | `ScreenShowsText` (with `TypeOK`), `NumbersReadBack`, `ProgramsAnswer` |
| `wc_lines` | the same screen with one letter | a violation of `CountsLines`, what the help says of `wc` (`shell.c:78`): a line counts as none |
| `shell_lines` | every line of up to 5 characters, 2 processes | `WordsAreSplit`, `PartsInMemory` (with `TypeOK`), `WaitsForItsProgram`, `EndsOnlyOnExit` |
| `tron_games` | boards of 6 by 5 and 7 by 5 cells, one point, liveness | `DrawIsMutual` (with `TypeOK`), `TrailsNeverMeet`, `WinnerIsUnharmed`, `GameEnds` |

Bounds. `Node` and `Proc` bound the number of processes: IDLE, the shell and two or three
more are needed for a parent with a child that has a child, for a process removed
before, at and after the current one, and for the root to be handed its successor's
node; five are enough for two families side by side. `QUANTUM_MAX = 1` makes slices
of one or two ticks, so that a slice ends by itself and by a forced switch.
`ChildrenMod` is the width of `children` and is small enough for it to wrap
(2 in `sched_control`; in `sched_fork_join`, 5, it cannot, as `ForkJoin` assumes). In `sem_mutex` `MAX_PROC = 2` with up to three entries makes
the ring of waiting pids wrap; `CountMod = 16` makes `open_count` wrap below zero;
three slots, one of them the kernel's, allow two names to live at a time and a freed
slot to be taken again by another name; `MaxCreated = 3` bounds how often that
happens and `MaxQueued` how far `blocked_last` grows. Deadlock is not checked in the
semaphore runs, where all processes may have been killed.

The heap of `kernel_memory` has room for several short blocks and for long ones next to each
other, so that blocks split, are taken whole, and join with the one before, the one after
and both; 20 is no multiple of a word. `SizeMod` = 384 is 16 headers, so the drift of
`allocated` comes round and both counters wrap; of a request of 375 the whole size is the last that is not rounded
up to 384, that is to 0 (`Aligned`). A pool of level 2 has rows that are split once and twice;
requests of 0, of whole blocks, between blocks, and above the pool are in it. The kernel
ends before, on and after the end of a page, modules are empty, of whole pieces of the packer's
buffer and with a rest, and the variables of the programs are none, one byte or a page.
Of the processes' arguments four tell even from odd counts, and an argument that is freed from one that
is kept; three processes are one that lives, one that ends and one that could not be made.
In `keyboard` a buffer of two overflows with three keys, and Shift with the bar, which puts in two characters, comes to four
with three presses: the third is stored in `count` and the fourth behind it. Callers' buffers of 3
bytes hold two keys and the 0. `CountMod` = 4 stands for 256, and the one number a character has there, 3, is more than the
buffer has keys, as every printable character is more than 55. Few codes, one length and one time limit keep the
liveness check small; the theorems of section 4 cover all of them. Nobody but one new philosopher joins in `phylo_table`
because all the seats have to fit `MAX`; four seats are enough for neighbours that are
apart, and three processes for a seat to be taken again. Deadlock is not checked there:
everybody may be stuck on a contended semaphore, and does get stuck.

The screen of `terminal_lines` scrolls after four lines, in the larger font after one, and the font has
an odd number of rows; its lines fit into a row from the first columns and not from the last, and one
output is longer than a row in the larger font, another takes back what was there before. In `shell_lines` five characters make three words, a word
that is too long, and a pipe with a background program on either side; `MaxChildren` = 3 lets the count be
wrong by more than one, and `MAX_WORDS` = 4 is to lines of five what 80 is to lines of 123 and less
generous. Deadlock is not checked there: the shell ends, and it may hang (section 5).

On the boards of `tron_games` the players start an odd and an even number of cells apart, so they meet
face to face and on one cell; they are large enough for every pair of directions, for driving around each
other and for trails that cut a player off. One point is enough because scores take part in nothing.
Deadlock is not checked: the program ends. `ProgramsAnswer` tries every sequence of up to five keys out of two letters, blank, Enter
and Ctrl-D: two lines with something in them, words apart and lines over longer ones.

States are compared through `RingView` in the safety runs of the scheduler: memory cells are
interchangeable because nothing compares or orders addresses. The liveness run uses
no view; its action constraint fixes which free cell `malloc` returns. `sem_mutex` uses
symmetry in processes and names, `shell_lines` in processes.

Fairness. `FairSpec` of `Scheduler` assumes that the timer never stops (`WF Tick`) and that IDLE does run
its first instructions (`WF Boot`). Nothing obliges a program to make a system call, so
no other action is fair. `StarvationFree` supposes that processes are created only
finitely often: a new process goes in right after its creator, and a chain of
creations keeps everybody behind it waiting.
`FairSpec` of `Keyboard` supposes the timer and that a reader that may go on does (`WF` of its own
steps); an interrupt ends its `_hlt`, and `StarvationFree` is what gives it the processor. No
key is ever obliged to come, so only the timed read is claimed to return. `FairSpec` of `Tron` takes from it that a
turn ends (`WF Turn`); nobody has to press a key, and a pause may last for ever.

## 4. Proofs

`SchedulerProofs` proves, for any number of nodes and blocks, any quantum, priorities
and programs, that every reachable state satisfies `TypeOK`, `RingIsOneCycle`,
`CountersAgree` and `OnlyCurrentRuns`. The invariant `IInv` is the conjunction of the types of
the globals, of `WellFormed(table)` (types, one cycle, one node for each block, both
counters equal to the number of nodes) and of `RunsOnly`: nobody but the process of
`currentNode` is RUNNING, even after a pointer dangles. The types alone are not
inductive: that removing the node after the current one leaves a cycle, and a ring with
somebody in it, depends on the ring having been one cycle with distinct blocks; and the
counters never go below zero because they count the nodes, and only a node of the ring is
removed. `UnlinkWellFormed` and `AddNodeWellFormed` are the two lemmas that
matter; the rest carries them through `schedule` and the handlers, one lemma for each. `TurnsKept` proves the
action property `KeepsTurns` from the same invariant: `Spared` relates two tables by who follows whom, an unlinking
satisfies it (`UnlinkSpares`), and it survives changes of the control blocks on either side (`SparedAround`).

The second part of `SchedulerProofs` proves `NoDangling` and `ChildrenKept` for any number of processes whose programs create others,
wait, yield, change priorities and end (`ForkJoin`: nobody kills, blocks or readies another, only the shell
runs programs in the foreground, and it lives for ever). The two depend on each other, so one invariant carries both. `removeNode` frees the node
*after* the one removed, so `Home` says that IDLE is at the root and the shell behind it, and `Front` that
the program in the foreground is behind the shell that waits for it: then the node freed is never one that `root`,
`foreground` or `background` refers to unless it is moved with it. That the program is still behind the shell needs the
shell not to have run in between, that is, to be blocked or about to be; that it stays blocked needs its count
of children to be right (`Kin`: `children` is the cardinality of the `Offspring`), which needs `removeNode` to find the parent
by its pid, and so unique pids: this is where the properties stop at `reused`. IDLE never blocks, so
`findNext` always ends (`SomebodyRunnable`). With `kill`, `block` or Ctrl-C the argument breaks down, and what holds then is what the first part shows.

`SemaphoreProofs` proves, for any number of processes, names and slots and any width,
`TypeOK`, `OneSlotPerName`, `QueueOrdered`, `MutualExclusion`, `ValueConserved` and the
action property `ContentionIsFinal`. The invariant says in addition that, until a
semaphore is freed under somebody, what a process has open is there (`OpenIsThere`), a
contended semaphore has its lock set (`ContendedLocked`), and a retry gets no further than
its `xchg` (`RetriesInVain`): so only `Wait`, which is atomic, lets anybody in, and mutual
exclusion follows from the value. A second part says what `open_count` does count, in place of what the run `sem_closes` refutes: `CountsOneLess` proves that it is one less than
the openers (`OneLessThanOpeners`) when there are no
more processes than `open_count` can tell apart (`FewProcesses`), from an invariant of its own (`CInv`) in which slot 0, that takes the
count of every creation, stays the kernel's.

`ProgramProofs` proves `ScreenShowsText` for a screen of any size, any fonts, prompt and outputs. `ScreenInv` says that the cursor
is on the screen, or one place beside a row of it, from where the next character begins a new row (`Placed`); that, until `spilled`, the rows down to the
cursor show the last lines of the text, the cursor stands after the last character, and everything behind it is blank (`Shows`); and that a
line being edited is the end of the last line of the text and has room in its row for all it may become (`Editing`). `Editing` is
what makes the property inductive: a backspace is then never met at the beginning of a row, where the cursor
would leave the screen and the text lose nothing, nor at its end. Printing is a fold over the characters, which `Reached` follows from one to the next, with
`PutChar` for the cells beside `Written` for the text, so each way to put a character, scrolling among them, is a lemma on its own. The other folds are followed in the same way (`Reaches`, and a lemma such as `CatTurnReached` for each).

The second part proves `NumbersReadBack` for all numbers up to any `INT_MAX`. `Tens` is the recursive function of the digits, which exists
(`TensExist`) and satisfies the equation it is written with (`TensSteps`); that a number reads back (`DigitsReadBack`) is then shown for
the smallest one that would not, whose quotient by ten reads back, and a digit more of a string multiplies what `atoul` has by ten
(`TensRead`). For the other direction the values `atoul` passes through are, from the second on, no less than ten and never fall, so each is
the quotient of the next, and the digits come out as they were typed (`TypedReadBack`); without a leading zero, or the first step fails. Of a time the hour that is shown is compared with the hour the clock has in a zone three hours behind (`HourShown`), which
is what `LocalHour` makes of all hours but 3, 4 and 5 (section 5).

The third part proves `ProgramsAnswer`, and more: `EveryLineAnswered` holds for any alphabet without the NUL and any number of
keys, as long as every line fits into the buffer (`Fits`). All folds are followed a key at a time beside the fold that makes the lines
(`Typed`). The invariant is that the buffer holds the line (`Holds`): its characters in front of the place of the next, whatever is behind. The NUL that `Enter`
stores makes a string of just this line (`EndedString`, from `StringIs`: the first NUL ends it), so what an earlier, longer line left there is never
printed. `SaidKey` and `SaidEnter` say how what `cat` owes grows with a key. `Kept` is `filter`'s second loop, that writes into the string it
reads: the vowels are in front, never beyond the place that is read, and what is to be read is untouched. `WcKeeps` says what `wc` finds after
Ctrl-D: behind the only line the zeros from the beginning, and after an Enter the line before, terminated;
`Counted` what it has counted of it, words being the places where one begins. The third number is not in it:
`CountsLines` fails (section 3).

The last part proves, for a board of any size and any scores of `Tron`, `DrawIsMutual`, `TrailsNeverMeet` and
`WinnerIsUnharmed`. The invariant adds to the types that both players stand on their own trails and that
a game that goes on has no result (`OnTrail`): a move onto a free cell then cannot fall on the other's trail, and
a crash is always into a cell that was there before the turn.
What `GameEnds` needs besides fairness is proved as `BoardRunsOut`: a turn after which the game goes on leaves two cells fewer
without a trail (`TwoFewer`) and a pause as many, so a game has at most half as many turns as there are cells.

`KernelProofs` has four parts. The first proves, for any heap, any set of request sizes and any block, header and word sizes that
fit each other, that the list allocator is well formed (`WellFormed`) and that it implements `Allocator` (`Refines`). `IInv` says
that the blocks tile the heap in whole words (`Tiles`), that the allocated list is a chain through exactly the blocks in
use (`Chain`), that the free list is the rest in the order of addresses (`Ordered`), that no free block
ends where the next begins (`Separate`), that what is handed out is in use and long enough (`HeldFits`), and that the counters keep
their sum (`Counters`). `Separate` is what makes joining to one neighbour on each side enough, and
the order of the free list is what lets `Release` find both. `Release` is proved in three stages: unlinked
from the allocated list (`ChainRemove`), put into its place (`PlacePrecedes`, `OrderedInsert`), and joined in
one or two steps that keep everything but `Separate` (`JoinKeeps`, `CoalesceKeeps`). That blocks held by callers are
apart follows from the tiling.

The second part is `Buddy`, for a pool of any level and any requests: `PoolInvariant` and `PoolRefines`. What the loops of `malloc` and
`mergeBuddy` compute are recursive functions over levels; that these exist (`Recursion`), and what they come to (`Induct`), follows from
every set of naturals having a least element, which the library states without an operator for a parameter. `PoolInv`
joins two views by one set, that of the free blocks: `Linked` says that the rows link exactly these, each in the row of its level, and
knows nothing of addresses; `Tiled` says that blocks lie at multiples of their lengths, apart, and fill the pool, and knows nothing of rows.
`addBlock` and `removeBlock` are proved to keep the first (`AddLinked`, `RemoveLinked`), a split to keep the second (`PoolSplits`), and
`SplitDownKeeps` follows both down to the level asked for. `Held` ties what was handed out to blocks in use that are long enough, `Counted`
the status to the number of blocks in use. `free` joins nothing (`NothingMerged`, section 5), so it only moves a block to its row.

In the third part, the kernel with either allocator built in takes only steps of that allocator, or steps that leave its
variables alone (`KernelIsHeap`, `KernelIsPool`); so the run's properties, `HeapWellFormed`, `PoolIsTiled`, `StatusIsExact` and `MallocKeepsPromise`, hold of
`KernelSpec`. The fourth proves `StartsInPlace`: a file written in pieces of the packer's buffer comes out whole
(`WrittenWhole`), a length of four bytes reads back (`ReadBack`), the image is what the loader takes apart (`ImageIs`, `LoadsTwo`), and copying, clearing
and the first program's own clearing leave the kernel and the modules where they belong (`LoadedInPlace`), because the places are
apart: `FitsAssumption`. It says that the image ends below the place of the first module, and that this and the next leave room for their files
and variables; `AddressAssumption` that addresses fit into the `uint32_t` that the lengths are stored in.

`PhyloProofs` proves, for any number of seats and processes, `MutexExclusion`, `NeighboursEatApart` and `LeavesFed`. `Phases` says what `phylo`
knows of `count` where it stands, `Exclusive` that the mutex is held by one or free and by nobody before
its first post. `TableInv` adds that until somebody leaves process *p* sits on seat *p* - 1 (`Seated`) and, until somebody was granted forks it had not asked for, that who is granted
forks waits for them (`Forks`): a seat shown `HUNGRY` has a philosopher that waits, or one that has not asked yet (`Hungers`), and
`NobodyAsked` is where a step that grants to the second kind sets `unasked`. `LeaveInv` follows the order to leave: `think_unlock`
has a value only while its philosopher pauses. Nothing is assumed of what the states hold at first.

`KeyboardProofs` proves, for any finite set of readers, any codes, characters, buffers and timeouts, `InOrderOnce`, `OnlyFreshKeys` and
`StaysInBuffer`. `StoreAtKeeps` and `PutMeans` say what a key does to the buffer, its `count` and what is behind. The invariant has two
kinds of parts. `Release`, `Bound`, `Calls` and `Room` hold throughout: a
caller's buffer is never overfull, whatever number `count` has become, because `Fits` compares with the room; `count` is no more than the buffer has keys until it
overflows; and a reader alone that goes to take a key finds one. `Order` holds until Ctrl is
released or the buffer overflows: nothing is half stored, and the buffer is in the order of typing, younger than what was
taken and than the beginning of every call. The last is what emptying the buffer on each call is for.

`ProcessMemoryProofs` proves `ProcessesGiveBack` for any number of processes and arguments. The property is inductive as it is, with
each process told its own pid or a stray one by how far it came (`AllTold`); that
blocks name their process (`Block`, `Args`) keeps what one gives back apart from what the others hold.

`ShellProofs` proves all that `shell_lines` checks, for any processes and any lengths. `LoopInv` adds to the types that the memory for parts is
there exactly while they are carried out, with text in it that fits (`PartsHeld`), and that a shell about to wait, or
waiting, has its program or was told that it ended, and waits only while a child is counted (`Waits`): from there on the last child wakes it,
unless the counts are wrong (section 5). `WordsAreSplit` is about a fold: `Followed` shows that `FoldLeft` passes from one character to the next,
and `SplitUpTo` says what `parseString` has after the first *k* of them: its words are the pieces from `first[a]` to `last[a]`, in order, all
that begin there, none going on but the last, and no more than half of *k* rounded up. The last bound, with
`WordAssumption`, is why a line never fills the array: 123 characters are at most 62 words, and there is room for 80.

Assumptions, besides `ForkJoin` and `FewProcesses`, are those of the constants: the cells are finitely many, NULL is none of
them, the widths are at least 2; for the keyboard, a `count` that can tell one more than the size of its buffer and a key beyond (`SizesAssumption`); and for the heap: sizes in whole words, `MIN_BLOCK_SIZE` no less than a
header, a heap with room for the manager and one block and shorter than `size_t` counts; a pool that `size_t` counts, too; for the start, room
between the places (`FitsAssumption`); for the screen, letters and a prompt in which no character is a newline or a backspace; for the programs, letters without NUL, Enter and Ctrl-D, and
a `BUFF_MAX` (2048) no less than `MAX_TERMINAL_CHARS`; for the shell, `MAX_TERMINAL_CHARS` (124) less than twice `MAX_WORDS` (80).

Only model-checked: the liveness properties `StarvationFree`, `TimedReadReturns` and `GameEnds`, which need ENABLED and
fairness, which the provers do not handle. Every safety property that a run shows to hold is a theorem.

## 5. Findings

Two runs show a violation of what the repository says: `sem_closes` and `wc_lines`; all others check what holds. The rest of what follows was
read in the code while it was modelled;
where a property is stated up to a point (`reused`, `early`, `released`, `Overflowed`, `someLeft`, `unasked`, `lost`, `undefined`), this is why.

* `process.c:48` (`freeProcess`) takes the pid counter back by one whoever exits, so a pid
  in use is handed out again. `NoDangling` and the properties of parents and children hold until then.
* `scheduler.c:117`, `:134`: a process that could not be made is used all the same; its state is written, and its pid read
  for the caller, where NULL points (`pid = "stray"` in `ProcessMemory`).
* `MemoryManager.c:213`: a request of the last few bytes below 2^64 is rounded up to 0, and `malloc` hands out a block without room.
* `scheduler.c:87`: with the scheduler disabled a tick returns the stack pointer saved at an
  earlier switch. `sem_wait` disables it with interrupts on once it retries.
* `semaphore.c:150`: a `sem_wait` that fails leaves the lock set, so a contended
  semaphore lets nobody in any more (this one is proved, as `ContentionIsFinal`). A philosopher
  who has to wait for a fork waits for ever, and `test_sync` stops at its first contention.
* `MemoryManager.c:195`: the first block of the list allocator ends `sizeof(MemoryManager)` bytes past
  the memory it was given; `:43`, `:47`: the pool of the buddy allocator `sizeof(BuddyInfo)`
  bytes past it. `:301`: `allocated` loses a header when a block that was taken whole
  is freed.
* `MemoryManager.c:166`: the buddy allocator never joins blocks; `:66`: a request above the pool ends
  in `removeBlock(NULL)`.
* `keyboardDriver.c:45`: `ctrl` stays set when the key is released. `interrupts.asm:214-219`: the
  release passes a word of the interrupted stack to `saveKey` and the interrupted program
  goes on with another value in `rax`.
* `keyboardDriver.c:71`: nothing looks at whether the buffer is full. The 56th key is stored in `count`, which is the number of its
  character from then on; readers copy what is behind the keys, and the next key is stored there. `InOrderOnce`, `OnlyFreshKeys`
  and what `StaysInBuffer` says of `buf[-1]` hold up to there; that callers' buffers are not overfilled holds beyond.
* `syscallManager.c:40`: a key that comes between the two places that empty the buffer is lost.
* `phylo.c:103`: a philosopher told to leave who has not read it yet stays when the seat is taken
  again, and two share it; `:123`: the first states are not initialised, and one that happens
  to be `HUNGRY` is granted forks before it asks (`unasked`), asks, yields to a neighbour that eats, and eats beside it; `:155`: the key for a new philosopher is `a`,
  the help says `n`.
* `semaphore.c:112`: `semInit` returns 0, so the opening that creates a semaphore is counted on slot 0 and
  `open_count` is no "Counter of pending 'close' signals" (`syscalls.h:25`): the run `sem_closes`. `OneLessThanOpeners`
  of `SemaphoreProofs` is what it is; the semaphore is freed when all but one have closed it.
* `phylo.c:116`: when the philosopher on the last seat leaves, its two neighbours may both be eating and
  sit beside each other from then on.
* `pipe.c:22`: the operations work on copies, so a pipe carries nothing: in `a | b` the output of `a` is lost and
  `b` reads the keyboard, as `a` does. Every use opens the semaphore `pipes` once more.
* `shell.c:427`: a program that ends before the shell calls `waitpid` leaves the shell waiting for a
  program in the background, or, after a Ctrl-C that lowered the count of the wrong parent, for nobody.
  `shell.c:277`: with one word `argv[-1]` is read, and NULL is written to it if it looks like `&`.
* `shell.c:55`: 124 characters fit into one line in the smallest font only; in a larger one a line that is
  edited past the end of its row is not erased any more. `videoDriver.c:113`: `fillrect` is given a corner for
  a size; `:105`: with a larger font the scrolling copies from beyond the framebuffer.
* `lib.c:129`: `atoul` keeps an `unsigned long` in an `int`, so what is typed beyond 2147483647 is another number.
* `lib.c:287`, `:298`: `%x` and `%l` print octal digits, and `%ld` a `d` after them; `:217`: digits of negative numbers
  come out as other characters. `timer.c:26` (user module): 3, 4 and 5 o'clock UTC become 3, 22 and 23
  (`LocalHour`, and the exception of `HourShown`).
* `shell.c:78`: "Prints the number of lines of the input": `wc` counts no lines (`wc.c:51` looks for a 0
  in front of the first 0): the run `wc_lines`. The one exception is an empty input, of which it counts a line if the byte in front of the
  buffer, which `wc.c:64` reads, is 0. `shell.c:285`: `printmem` is given what follows the word in a buffer that ends
  there. `shell.c:297`: `tron` reports an error when it has been started.
* `process.c:52`: `freeProcess` advances its index twice a turn: it frees every other argument, and with an odd
  number of them goes on past the NULL at the end.
* `tron.c:97` lacks the exclusion of `DOWN` and `LEFT` that line 100 has, so two players that come from there to neighbouring cells are
  said to have drawn. `:33`: the canvas is 768 KB on a stack of 4000 bytes. `:227`, `:240`: a score is written to
  two characters. The scores are globals and outlive the process; the down arrow is the character of Ctrl-D.
* `cat`, `wc` and `filter` never look whether their buffer is full, and `wc` counts the words of the last line only.
* `exceptions.c:32`: after an exception the program that caused it calls `main` of the first program on the stack of
  IDLE and starts another shell, where the screen says that it returns to the shell.

## 6. Plan

Done, in this order: `ProcessTable`, `Scheduler`, `SchedulerProofs`; `SemaphoreTable`, `Semaphore`,
`SemaphoreProofs`; `Allocator`, `HeapList`, `Buddy`, `Keyboard`, `Phylo`; `Terminal`, `Shell` with what there is of the pipes;
`Tron`; `KernelStart` with the packer and the loader, `ProcessMemory`, `Programs`; `PhyloProofs`, `KeyboardProofs`,
`ProcessMemoryProofs`, `KernelProofs`, `ShellProofs`, `ProgramProofs`.

A run stands for a question. Two ask whether what the repository says of its code is so, and show that it is not; the other
findings of section 5 are where the properties of the passing runs end.

Left to prove: liveness, with provers that have ENABLED.

Not modelled, and why:

* the boot loader, Pure64 and BMFS: third-party code that runs before the kernel, or on another machine;
* exceptions: a dump of the registers, ten seconds' wait, and `main` run once more on the stack of
  IDLE. What follows when IDLE gets its turn is undefined; up to there it is another `Exec`;
* what a pipe carries: every operation works on a copy, so nothing. `Shell` has what its callers do;
* `Kernel/lib.c` and the string functions of the user library: loops over bytes with nothing to interleave with, except the
  conversions, which are in `Terminal`; `stack.c`, which nothing uses; wrappers of system calls, which have their call's action;
* the options of the module packer and the errors of its files: it ends;
* drawing and sounds of `tron`, the colours of the screen, the real-time clock's wait for an update.
