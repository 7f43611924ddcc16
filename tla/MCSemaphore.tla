----------------------------- MODULE MCSemaphore -----------------------------
(* Small instances of Semaphore.                                            *)
EXTENDS Semaphore, TLC

\* Processes and names are interchangeable: neither is ever compared or ordered.
Symmetry == Permutations(Proc) \cup Permutations(Names)
===============================================================================
