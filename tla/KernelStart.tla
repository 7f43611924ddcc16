------------------------------ MODULE KernelStart ------------------------------
(***************************************************************************)
(* From the files the kernel is packed of to the memory it manages.  The   *)
(* module packer puts the kernel and its modules into one image; the boot  *)
(* loader puts the image where the kernel is linked; the kernel copies the *)
(* modules to their places out of memory that becomes its .bss and its     *)
(* stack, and gives what lies behind them to one of two allocators: the    *)
(* list of HeapList, or in the build with -DBUDDY the pool of Buddy.       *)
(*                                                                         *)
(* Memory is bytes up to the point where the first program starts; from    *)
(* there on it is what the allocators say, who count from startOfMem.      *)
(***************************************************************************)
EXTENDS HeapList, Sequences, SequencesExt

CONSTANTS
  Packages,            \* kernel and modules (contents of files), and the sizes of .bss of both programs
  Builds,              \* which allocators the kernel is built with
  BUFFER_SIZE,         \* of the packer
  KERNEL,              \* where the kernel is linked (0x100000)
  uCodeModuleAddress, uDataModuleAddress,
  PageSize,
  MEMORY,              \* bounds the addresses looked at
  \* What Buddy is given, see there.
  TOP, BLOCK_SIZE, INFO, PoolRequests

VARIABLES
  build,
  package,
  memory,
  startOfMem,
  phase,               \* packed, booted, started (the first program), running
  buddy, poolHeld, lost

heap == <<size, next, free_mem, alloc_mem, infoMem, held>>
pool == <<buddy, poolHeld, lost>>
start == <<package, memory, startOfMem, phase>>

Pool == INSTANCE Buddy WITH Requests <- PoolRequests, held <- poolHeld

-----------------------------------------------------------------------------
(* The module packer.                                                      *)

\* The file is written in pieces, the last of them short or empty.
write_file(file) ==
  LET piece(i) == SubSeq(file, (i - 1) * BUFFER_SIZE + 1,
                         IF i * BUFFER_SIZE < Len(file) THEN i * BUFFER_SIZE ELSE Len(file))
  IN  FlattenSeq([i \in 1 .. Len(file) \div BUFFER_SIZE + 1 |-> piece(i)])

\* A uint32_t in memory, the low byte first.
Uint32(n) ==
  LET second == n \div 256
      third == second \div 256
      fourth == third \div 256
  IN  <<n % 256, second % 256, third % 256, fourth % 256>>

buildImage(files) ==
  write_file(files.kernel) \o Uint32(Len(files.modules)) \o
    FlattenSeq([i \in DOMAIN files.modules |->
                  Uint32(Len(files.modules[i])) \o write_file(files.modules[i])])

-----------------------------------------------------------------------------
(* The memory of the kernel, as it is linked, and of the first program.    *)

ALIGN(a) == a + ((PageSize - (a % PageSize)) % PageSize)

endOfKernelBinary(files) == KERNEL + Len(files.kernel)
bss(files) == ALIGN(endOfKernelBinary(files))
endOfKernel(files) == ALIGN(bss(files) + files.bss)
getStackBase(files) == endOfKernel(files) + PageSize * 8 - WORD

userBss(files) == ALIGN(uCodeModuleAddress + Len(files.modules[1]))
endOfBinary(files) == userBss(files) + files.userBss

moduleAddresses == <<uCodeModuleAddress, uDataModuleAddress>>

\* A page, and a piece of a file, are not empty, and addresses fit a uint32_t.
ASSUME AddressAssumption ==
  /\ {BUFFER_SIZE, PageSize} \subseteq Nat \ {0}
  /\ {KERNEL, uCodeModuleAddress, uDataModuleAddress, MEMORY} \subseteq Nat
  /\ ((MEMORY \div 256) \div 256) \div 256 < 256
\* There are as many modules as places for them, and everything is linked so that
\* it has room where it goes.
ASSUME FitsAssumption ==
  \A files \in Packages :
    /\ files.kernel \in Seq(0 .. 255) /\ files.bss \in Nat
    /\ files.modules \in Seq(Seq(0 .. 255)) /\ files.userBss \in Nat
    /\ Len(files.modules) = Len(moduleAddresses)
    /\ getStackBase(files) + WORD <= uCodeModuleAddress
    /\ KERNEL + Len(buildImage(files)) <= uCodeModuleAddress
    /\ endOfBinary(files) <= uDataModuleAddress
    /\ uDataModuleAddress + Len(files.modules[2]) + PageSize < MEMORY
ASSUME PoolAssumption == Pool!NullAssumption /\ Pool!SizesAssumption /\ Pool!RequestsAssumption

-----------------------------------------------------------------------------
(* Operations on memory.                                                   *)

memcpy(mem, destination, source, length) ==
  [a \in DOMAIN mem |->
     IF a \in destination .. destination + length - 1 THEN mem[source + a - destination] ELSE mem[a]]

memset(mem, destination, c, length) ==
  [a \in DOMAIN mem |-> IF a \in destination .. destination + length - 1 THEN c ELSE mem[a]]

readUint32(mem, a) == mem[a] + 256 * (mem[a + 1] + 256 * (mem[a + 2] + 256 * mem[a + 3]))

\* One module: s.module is where it is read from, s.end where the last one ended.
loadModule(s, target) ==
  LET length == readUint32(s.mem, s.module)
  IN  [mem |-> memcpy(s.mem, target, s.module + 4, length),
       module |-> s.module + 4 + length,
       end |-> target + length]

loadModules(mem, payload) ==
  LET count == readUint32(mem, payload)
  IN  FoldLeft(loadModule, [mem |-> mem, module |-> payload + 4, end |-> 0],
               SubSeq(moduleAddresses, 1, count))

clearBSS(mem, files) == memset(mem, bss(files), 0, endOfKernel(files) - bss(files))

\* A faulty variant: .bss is cleared first, as programs do.
ClearedFirst(mem, files) == loadModules(clearBSS(mem, files), endOfKernelBinary(files))

\* What initializeKernelBinary leaves, and the end of the modules.
Loaded(mem, files) ==
  LET s == loadModules(mem, endOfKernelBinary(files))
  IN  [s EXCEPT !.mem = clearBSS(@, files)]

-----------------------------------------------------------------------------

\* What no program has written yet.
GARBAGE == 255

\* The image is where the boot loader puts it.
KernelInit ==
  /\ Init /\ Pool!Init
  /\ build \in Builds /\ package \in Packages
  /\ memory = LET image == buildImage(package)
              IN  [a \in 0 .. MEMORY - 1 |->
                     IF a \in KERNEL .. KERNEL + Len(image) - 1 THEN image[a - KERNEL + 1] ELSE GARBAGE]
  /\ startOfMem = 0
  /\ phase = "packed"

\* initializeKernelBinary; what init_scheduler does is Init of Scheduler.
Boot ==
  /\ phase = "packed" /\ phase' = "booted"
  /\ LET s == Loaded(memory, package)
     IN  /\ memory' = s.mem
         /\ startOfMem' = s.end + PageSize - (s.end % PageSize)
  /\ UNCHANGED <<build, package, heap, pool>>

\* main calls the first module, which clears its own .bss.
Start ==
  /\ phase = "booted" /\ phase' = "started"
  /\ memory' = memset(memory, userBss(package), 0, endOfBinary(package) - userBss(package))
  /\ UNCHANGED <<build, package, startOfMem, heap, pool>>

\* From here on addresses do not matter.
Run ==
  /\ phase = "started" /\ phase' = "running"
  /\ package' = NULL /\ memory' = <<>> /\ startOfMem' = NULL
  /\ UNCHANGED <<build, heap, pool>>

ListStep == phase = "running" /\ build = "list" /\ Next /\ UNCHANGED <<build, start, pool>>

BuddyStep == phase = "running" /\ build = "buddy" /\ Pool!Next /\ UNCHANGED <<build, start, heap>>

KernelNext == Boot \/ Start \/ Run \/ ListStep \/ BuddyStep

KernelSpec == KernelInit /\ [][KernelNext]_<<build, start, heap, pool>>

-----------------------------------------------------------------------------
(* Properties.                                                             *)

Holds(a, bytes) == \A i \in DOMAIN bytes : memory[a + i - 1] = bytes[i]
Zero(from, to) == \A a \in from .. to - 1 : memory[a] = 0

\* When the first program starts, the kernel and its modules are in their places
\* as they were packed, though the modules came in memory that was cleared since;
\* both programs have their variables cleared and nothing more; and the memory
\* that is handed out begins on a page behind all of them and behind the stack.
StartsInPlace ==
  /\ phase \in {"packed", "booted", "started", "running"}
  /\ phase = "started" =>
       /\ Holds(KERNEL, package.kernel)
       /\ Zero(bss(package), endOfKernel(package))
       /\ \A i \in DOMAIN moduleAddresses : Holds(moduleAddresses[i], package.modules[i])
       /\ Zero(userBss(package), endOfBinary(package))
       /\ startOfMem % PageSize = 0
       /\ startOfMem > getStackBase(package) + WORD /\ startOfMem >= endOfBinary(package)
       /\ \A i \in DOMAIN moduleAddresses : startOfMem >= moduleAddresses[i] + Len(package.modules[i])

\* In the build with -DBUDDY, the pool and its counters are as Buddy says.
PoolIsTiled == Pool!PoolIsTiled
StatusIsExact == Pool!StatusIsExact

\* Whichever allocator is built in, it keeps the promises of malloc and free.
MallocKeepsPromise == KeepsPromise /\ Pool!KeepsPromise
================================================================================
