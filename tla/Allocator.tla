------------------------------- MODULE Allocator -------------------------------
(***************************************************************************)
(* What malloc and free promise, whichever allocator the kernel is built   *)
(* with: memory is handed out from one region, nothing is handed out twice *)
(* at a time, and freeing it hands it back.  malloc may always fail.       *)
(***************************************************************************)
EXTENDS Naturals

CONSTANTS
  Requests,   \* the sizes programs ask for, in bytes
  Addresses,  \* where memory handed out may begin
  HIGH        \* where all of it has ended

VARIABLE held \* held[a]: how many bytes were asked for when a was returned

Apart(a, n, b, m) == a + n <= b \/ b + m <= a

Init == held = [a \in {} |-> 0]

Malloc ==
  \E request \in Requests, a \in Addresses :
    /\ a \notin DOMAIN held
    /\ a + request <= HIGH
    /\ \A b \in DOMAIN held : Apart(a, request, b, held[b])
    /\ held' = [x \in DOMAIN held \cup {a} |-> IF x = a THEN request ELSE held[x]]

Free ==
  \E a \in DOMAIN held : held' = [x \in DOMAIN held \ {a} |-> held[x]]

Next == Malloc \/ Free

Spec == Init /\ [][Next]_held
===============================================================================
