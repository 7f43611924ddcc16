----------------------------- MODULE MCKernelStart -----------------------------
(***************************************************************************)
(* Small programs on small pages: kernels that end on a page, before and   *)
(* after it, modules with and without a rest when they are copied in       *)
(* pieces, and an empty one.                                               *)
(*                                                                         *)
(* Once the kernel runs, one of its allocators is followed, or the         *)
(* processes that ask for memory.  For these it does not matter which      *)
(* allocator is built in: they rely on what both have promised.            *)
(***************************************************************************)
EXTENDS KernelStart, ProcessMemory

Contents(first, length) == [i \in 1 .. length |-> first + i]

MCPackages ==
  {[kernel |-> Contents(10, k), bss |-> b, userBss |-> u,
    modules |-> <<Contents(30, c), Contents(60, d)>>] :
     k \in {7, 8, 9}, b \in {1, 8}, c \in {1, 7, 8}, d \in {0, 2, 9}, u \in {0, 8}}

MCInit == KernelInit /\ ProcessInit

Followed == phase = "running" /\ build = "either"

ProcessStep == Followed /\ ProcessNext /\ UNCHANGED <<build, start, heap, pool>>

\* No more processes, or one has used memory that is nobody's.
Stopped ==
  /\ Followed /\ (undefined \/ Len(procs) = MaxCreated)
  /\ UNCHANGED <<build, start, heap, pool, processes>>

MCNext == (KernelNext /\ UNCHANGED processes) \/ ProcessStep \/ Stopped

MCSpec == MCInit /\ [][MCNext]_<<build, start, heap, pool, processes>>
================================================================================
