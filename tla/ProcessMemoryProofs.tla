-------------------------- MODULE ProcessMemoryProofs --------------------------
(* Proofs about ProcessMemory, for programs with any number of arguments    *)
(* and any number of processes.                                             *)
EXTENDS ProcessMemory, FiniteSetTheorems, TLAPS

Argcs == 0 .. MaxArgs
Uses == {"process", "stack", "argv"}
Entry == [argc : 0 .. MaxArgs, argv : {"copied", "none"},
          where : {"ring", "nowhere", "never", "ended"}, pid : {"own", "stray"}]
\* What a process can have been given.
Whole(n) == {Block(n, use) : use \in Uses} \cup Args(n, 0 .. MaxArgs - 1)

\* What Left and In say of a table of processes.
Share(ps, n) ==
  CASE ps[n].where = "never" -> {}
    [] ps[n].where = "ended" -> Args(n, {i \in 0 .. ps[n].argc - 1 : i % 2 = 1})
    [] OTHER -> {Block(n, "process"), Block(n, "stack")}
                  \cup (IF ps[n].argv = "copied" THEN Copied(n, ps[n].argc) ELSE {})
Shares(ps) == UNION {Share(ps, n) : n \in DOMAIN ps}
Found(ps, places) == {n \in DOMAIN ps : ps[n].where \in places}
\* Everybody was told what addProcess returns for it.
AllTold(ps) == \A n \in DOMAIN ps : ps[n].pid = Told(ps[n].where)

\* The property in these terms: it is inductive as it is.
PInv ==
  /\ ProcessTypeOK
  /\ ~ undefined =>
       /\ owned = Shares(procs)
       /\ nodes = Cardinality(Found(procs, {"ring"}))
       /\ nodeCount = nodes + Cardinality(Found(procs, {"never", "nowhere"}))
       /\ AllTold(procs)

\* Stated as in ProcessMemory, it is the property.
LEMMA Means == PInv => ProcessesGiveBack
<1>1. AllTold(procs) => {n \in DOMAIN procs : procs[n].pid = "stray"} = In({"never"})
  BY DEF AllTold, Told, In
<1> QED BY <1>1 DEF PInv, ProcessesGiveBack, Left, In, Share, Shares, Found

\* Processes are numbered from 1, and those in some place are finitely many.
LEMMA Places ==
  ASSUME ProcessTypeOK, NEW where
  PROVE  /\ DOMAIN procs = 1 .. Len(procs) /\ Len(procs) \in Nat
         /\ Found(procs, where) \subseteq DOMAIN procs /\ IsFiniteSet(Found(procs, where))
         /\ Cardinality(Found(procs, where)) \in Nat
<1>1. DOMAIN procs = 1 .. Len(procs) /\ Len(procs) \in Nat
  BY DEF ProcessTypeOK
<1>2. Found(procs, where) \subseteq DOMAIN procs
  BY DEF Found
<1>3. IsFiniteSet(1 .. Len(procs))
  BY <1>1, FS_Interval
<1>4. IsFiniteSet(Found(procs, where))
  BY <1>1, <1>2, <1>3, FS_Subset
<1> QED BY <1>1, <1>2, <1>4, FS_CardinalityType

\* One more process: the others keep what they have and are where they were.
LEMMA OneMore ==
  ASSUME ProcessTypeOK, NEW n, NEW argc \in Argcs, NEW argv \in {"copied", "none"},
         NEW where \in {"ring", "nowhere", "never"}, Asked(n, argc, argv, where)
  PROVE  /\ procs' \in Seq(Entry) /\ n \in DOMAIN procs' /\ DOMAIN procs' = DOMAIN procs \cup {n}
         /\ n \notin DOMAIN procs
         /\ procs'[n].argc = argc /\ procs'[n].argv = argv /\ procs'[n].where = where
         /\ procs'[n].pid = Told(where)
         /\ \A i \in DOMAIN procs : procs'[i] = procs[i]
<1> DEFINE new == [argc |-> argc, argv |-> argv, where |-> where, pid |-> Told(where)]
<1>1. n = Len(procs) + 1 /\ procs' = Append(procs, new)
  BY DEF Asked
<1>2. procs \in Seq(Entry) /\ new \in Entry
  BY DEF ProcessTypeOK, Entry, Argcs, Told
<1>3. procs' \in Seq(Entry) /\ Len(procs') = n
  BY <1>1, <1>2
<1>4. /\ DOMAIN procs = 1 .. Len(procs) /\ DOMAIN procs' = 1 .. n /\ Len(procs) \in Nat
  BY <1>2, <1>3
<1>5. n \in DOMAIN procs' /\ DOMAIN procs' = DOMAIN procs \cup {n} /\ n \notin DOMAIN procs
  BY <1>1, <1>4
<1>6. procs'[n] = new
  <2> HIDE DEF new
  <2> QED BY <1>1, <1>2
<1>7. \A i \in DOMAIN procs : procs'[i] = procs[i]
  <2> HIDE DEF new
  <2> QED BY <1>1, <1>2, <1>4
<1> QED BY <1>3, <1>5, <1>6, <1>7

\* All together they have what they had, and what the new one has.
LEMMA OneMoreShare ==
  ASSUME ProcessTypeOK, NEW n, NEW argc \in Argcs, NEW argv \in {"copied", "none"},
         NEW where \in {"ring", "nowhere", "never"}, Asked(n, argc, argv, where)
  PROVE  Shares(procs') = Shares(procs) \cup Share(procs', n)
<1>1. DOMAIN procs' = DOMAIN procs \cup {n} /\ \A i \in DOMAIN procs : procs'[i] = procs[i]
  BY OneMore
<1>2. \A i \in DOMAIN procs : Share(procs', i) = Share(procs, i)
  BY <1>1 DEF Share
<1> QED BY <1>1, <1>2 DEF Shares

\* And the new one is where it says.
LEMMA OneMoreFound ==
  ASSUME ProcessTypeOK, NEW n, NEW argc \in Argcs, NEW argv \in {"copied", "none"},
         NEW where \in {"ring", "nowhere", "never"}, Asked(n, argc, argv, where), NEW places
  PROVE  Found(procs', places) = Found(procs, places) \cup (IF where \in places THEN {n} ELSE {})
<1>1. /\ DOMAIN procs' = DOMAIN procs \cup {n} /\ \A i \in DOMAIN procs : procs'[i] = procs[i]
      /\ procs'[n].where = where
  BY OneMore, ZenonT(60)
<1> QED BY <1>1 DEF Found

\* It is counted once more, and either it is in the ring or one that is not.
LEMMA OneCounted ==
  ASSUME PInv, NEW n, NEW argc \in Argcs, NEW argv \in {"copied", "none"},
         NEW where \in {"ring", "nowhere", "never"}, Asked(n, argc, argv, where)
  PROVE  /\ nodes' \in Nat /\ nodeCount' \in Nat
         /\ nodes' = Cardinality(Found(procs', {"ring"}))
         /\ nodeCount' = nodes' + Cardinality(Found(procs', {"never", "nowhere"}))
<1>1. /\ ProcessTypeOK /\ nodes = Cardinality(Found(procs, {"ring"}))
      /\ nodeCount = nodes + Cardinality(Found(procs, {"never", "nowhere"}))
      /\ nodes' = nodes + (IF where = "ring" THEN 1 ELSE 0) /\ nodeCount' = nodeCount + 1
  BY DEF Asked, PInv
<1>2. /\ n \notin DOMAIN procs
      /\ \A places : Found(procs', places) = Found(procs, places) \cup (IF where \in places THEN {n} ELSE {})
  <2>1. n \notin DOMAIN procs
    BY <1>1, OneMore
  <2>2. \A places : Found(procs', places) = Found(procs, places) \cup (IF where \in places THEN {n} ELSE {})
    BY <1>1, OneMoreFound
  <2> QED BY <2>1, <2>2
<1>3. \A places : Found(procs, places) \subseteq DOMAIN procs /\ IsFiniteSet(Found(procs, places))
                    /\ Cardinality(Found(procs, places)) \in Nat
  BY <1>1, Places
<1>4. \A places : Cardinality(Found(procs', places)) = Cardinality(Found(procs, places)) + (IF where \in places THEN 1 ELSE 0)
  <2> SUFFICES ASSUME NEW places
               PROVE  Cardinality(Found(procs', places)) = Cardinality(Found(procs, places)) + (IF where \in places THEN 1 ELSE 0)
    OBVIOUS
  <2>1. CASE where \in places
    <3>1. Found(procs', places) = Found(procs, places) \cup {n} /\ n \notin Found(procs, places)
      BY <1>2, <1>3, <2>1
    <3>2. Cardinality(Found(procs, places) \cup {n}) = Cardinality(Found(procs, places)) + 1
      BY <1>3, <3>1, FS_AddElement
    <3> QED BY <2>1, <3>1, <3>2
  <2>2. CASE where \notin places
    <3>1. Found(procs', places) = Found(procs, places)
      BY <1>2, <2>2
    <3> QED BY <1>3, <2>2, <3>1
  <2> QED BY <2>1, <2>2
<1>5. CASE where = "ring"
  <2>1. /\ Cardinality(Found(procs', {"ring"})) = Cardinality(Found(procs, {"ring"})) + 1
        /\ Cardinality(Found(procs', {"never", "nowhere"})) = Cardinality(Found(procs, {"never", "nowhere"})) + 0
    BY <1>4, <1>5
  <2> QED BY <1>1, <1>3, <1>5, <2>1
<1>6. CASE where # "ring"
  <2>1. /\ Cardinality(Found(procs', {"ring"})) = Cardinality(Found(procs, {"ring"})) + 0
        /\ Cardinality(Found(procs', {"never", "nowhere"})) = Cardinality(Found(procs, {"never", "nowhere"})) + 1
    BY <1>4, <1>6
  <2> QED BY <1>1, <1>3, <1>6, <2>1
<1> QED BY <1>5, <1>6

\* What is given to one process goes to nobody else's part.
LEMMA Given ==
  ASSUME PInv, ~ undefined, NEW n, NEW argc \in Argcs,
         NEW argv \in {"copied", "none"}, NEW where \in {"ring", "nowhere", "never"},
         Asked(n, argc, argv, where),
         owned' \subseteq owned \cup Whole(n), undefined' \in BOOLEAN,
         ~ undefined' => owned' = owned \cup Share(procs', n)
  PROVE  PInv'
<1>1. ProcessTypeOK /\ owned = Shares(procs)
  BY DEF PInv
<1>2. /\ procs' \in Seq(Entry) /\ DOMAIN procs' = DOMAIN procs \cup {n}
      /\ Shares(procs') = Shares(procs) \cup Share(procs', n)
  BY <1>1, OneMore, OneMoreShare, ZenonT(60)
<1>3. /\ nodes' \in Nat /\ nodeCount' \in Nat /\ nodes' = Cardinality(Found(procs', {"ring"}))
      /\ nodeCount' = nodes' + Cardinality(Found(procs', {"never", "nowhere"}))
  BY OneCounted
<1>4. owned' \subseteq {Block(i, use) : i \in DOMAIN procs', use \in {"process", "stack", "argv"}}
                        \cup UNION {Args(i, 0 .. MaxArgs - 1) : i \in DOMAIN procs'}
  BY <1>1, <1>2 DEF ProcessTypeOK, Whole, Uses
<1>5. ProcessTypeOK'
  BY <1>2, <1>3, <1>4 DEF ProcessTypeOK, Entry
<1>6. ~ undefined' => owned' = Shares(procs')
  BY <1>1, <1>2
<1>7. AllTold(procs')
  <2>1. AllTold(procs)
    BY DEF PInv
  <2>2. /\ DOMAIN procs' = DOMAIN procs \cup {n} /\ \A i \in DOMAIN procs : procs'[i] = procs[i]
        /\ procs'[n].where = where /\ procs'[n].pid = Told(where)
    BY <1>1, OneMore, ZenonT(60)
  <2> QED BY <2>1, <2>2 DEF AllTold
<1> QED BY <1>3, <1>5, <1>6, <1>7 DEF PInv

\* Whatever malloc gives and refuses, what is held is what processes have.
LEMMA AddedKept ==
  ASSUME PInv, addProcess
  PROVE  PInv'
<1>1. PICK n \in 1 .. MaxCreated, argc \in 0 .. MaxArgs :
        NoProcess(n, argc) \/ NoArgv(n, argc) \/ NoArgument(n, argc) \/ Added(n, argc)
  BY DEF addProcess
<1>2. argc \in Argcs /\ ProcessTypeOK /\ argc \in Nat /\ MaxArgs \in Nat /\ argc <= MaxArgs
  BY BoundsAssumption DEF PInv, Argcs
<1>3. Block(n, "process") \in Whole(n) /\ Block(n, "stack") \in Whole(n) /\ Block(n, "argv") \in Whole(n)
  BY DEF Whole, Uses
<1>4. Copied(n, argc) \subseteq Whole(n)
  <2>1. 0 .. argc - 1 \subseteq 0 .. MaxArgs - 1
    BY <1>2
  <2> QED BY <1>3, <2>1 DEF Copied, Args, Whole
<1>5. CASE NoProcess(n, argc)
  <2>1. /\ Asked(n, argc, "none", "never") /\ undefined' \in BOOLEAN
        /\ \E given \in {{}, {Block(n, "process")}} : owned' = (owned \cup given) \ {Block(n, "process")}
    BY <1>5 DEF NoProcess, GivenBack
  <2>2. n \notin DOMAIN procs /\ procs'[n].where = "never"
    BY <1>2, <2>1, OneMore
  <2>3. Block(n, "process") \notin owned
    <3>1. \A x \in owned : x[1] \in DOMAIN procs
      BY <1>2 DEF ProcessTypeOK, Block, Args
    <3>2. Block(n, "process")[1] = n
      BY DEF Block
    <3> QED BY <2>2, <3>1, <3>2
  <2>4. owned' = owned
    BY <2>1, <2>3
  <2>5. Share(procs', n) = {}
    BY <2>2 DEF Share
  <2>6. ~ undefined
    BY <2>1 DEF Asked
  <2> QED BY <1>2, <2>1, <2>4, <2>5, <2>6, Given
<1>6. CASE NoArgv(n, argc)
  <2>1. PICK where \in {"ring", "nowhere"} : Asked(n, argc, "none", where)
    BY <1>6 DEF NoArgv
  <2>2. owned' = owned \cup {Block(n, "process"), Block(n, "stack")} /\ undefined' = undefined /\ ~ undefined
    BY <1>6, <2>1 DEF NoArgv, Asked
  <2>3. procs'[n].where = where /\ procs'[n].argv = "none"
    BY <1>2, <2>1, OneMore
  <2>4. Share(procs', n) = {Block(n, "process"), Block(n, "stack")}
    BY <2>3 DEF Share
  <2>5. undefined' \in BOOLEAN
    BY <1>2, <2>2 DEF ProcessTypeOK
  <2>6. owned' \subseteq owned \cup Whole(n) /\ owned' = owned \cup Share(procs', n)
    BY <1>3, <2>2, <2>4
  <2> QED BY <1>2, <2>1, <2>2, <2>5, <2>6, Given
<1>7. CASE NoArgument(n, argc)
  <2>1. /\ Asked(n, argc, "none", "nowhere") /\ ~ undefined /\ undefined' = TRUE
        /\ owned' = owned \cup {Block(n, "process"), Block(n, "stack")}
    BY <1>7 DEF NoArgument, Asked
  <2> QED BY <1>2, <1>3, <2>1, Given
<1>8. CASE Added(n, argc)
  <2>1. PICK where \in {"ring", "nowhere"} : Asked(n, argc, "copied", where)
    BY <1>8 DEF Added
  <2>2. /\ owned' = owned \cup {Block(n, "process"), Block(n, "stack")} \cup Copied(n, argc)
        /\ undefined' = undefined /\ ~ undefined
    BY <1>8, <2>1 DEF Added, Asked
  <2>3. procs'[n].where = where /\ procs'[n].argv = "copied" /\ procs'[n].argc = argc
    BY <1>2, <2>1, OneMore
  <2>4. Share(procs', n) = {Block(n, "process"), Block(n, "stack")} \cup Copied(n, argc)
    BY <2>3 DEF Share, Copied, Args, Block
  <2>5. undefined' \in BOOLEAN
    BY <1>2, <2>2 DEF ProcessTypeOK
  <2>6. owned' \subseteq owned \cup Whole(n) /\ owned' = owned \cup Share(procs', n)
    BY <1>3, <1>4, <2>2, <2>4
  <2> QED BY <1>2, <2>1, <2>2, <2>5, <2>6, Given
<1> QED BY <1>1, <1>5, <1>6, <1>7, <1>8

\* One that ends gives back its block, its stack, its argv and every other argument, and
\* nothing of anybody else's.
LEMMA Returned ==
  ASSUME PInv, ~ undefined, NEW n \in DOMAIN procs, procs[n].where = "ring", Ends(n),
         NEW ps, DOMAIN ps = DOMAIN procs, \A i \in DOMAIN procs \ {n} : ps[i] = procs[i],
         ps[n].where = "ended", ps[n].argc = procs[n].argc
  PROVE  Shares(ps) = owned \ ({Block(n, use) : use \in {"process", "stack", "argv"}}
                                 \cup Args(n, Walked(procs[n].argc)))
<1> DEFINE argc == procs[n].argc
           R == {Block(n, use) : use \in {"process", "stack", "argv"}} \cup Args(n, Walked(argc))
<1>1. ProcessTypeOK /\ owned = Shares(procs)
  BY DEF PInv
<1>2. argc \in Nat
  <2>1. procs \in Seq(Entry) /\ DOMAIN procs = 1 .. Len(procs)
    BY <1>1 DEF ProcessTypeOK, Entry
  <2>2. \A i \in 1 .. Len(procs) : procs[i] \in Entry
    BY <2>1
  <2>3. procs[n].argc \in 0 .. MaxArgs
    BY <2>1, <2>2 DEF Entry
  <2> QED BY <2>3
<1>3. \A x \in R : x[1] = n
  BY DEF Block, Args
<1>4. \A i \in DOMAIN procs : \A x \in Share(procs, i) : x[1] = i
  BY DEF Share, Copied, Block, Args
<1>5. \A i \in DOMAIN procs \ {n} : Share(ps, i) = Share(procs, i) \ R
  <2>1. \A i \in DOMAIN procs \ {n} : Share(ps, i) = Share(procs, i)
    BY DEF Share
  <2> QED BY <1>3, <1>4, <2>1
<1>6. Share(ps, n) = Share(procs, n) \ R
  <2>1. Share(procs, n) = {Block(n, "process"), Block(n, "stack"), Block(n, "argv")} \cup Args(n, 0 .. argc - 1)
    BY DEF Share, Copied, Ends
  <2>2. Share(ps, n) = Args(n, {i \in 0 .. argc - 1 : i % 2 = 1})
    BY DEF Share
  <2>3. Args(n, 0 .. argc - 1) \ R = Args(n, {i \in 0 .. argc - 1 : i % 2 = 1})
    <3>1. \A i \in 0 .. argc - 1 : <<n, "arg", i>> \in R <=> i % 2 = 0
      <4>1. \A i \in 0 .. argc - 1 : i % 2 = 0 => <<n, "arg", i>> \in R
        BY <1>2 DEF Args, Walked
      <4>2. \A i \in 0 .. argc - 1 : <<n, "arg", i>> \in R => i % 2 = 0
        <5> SUFFICES ASSUME NEW i \in 0 .. argc - 1, <<n, "arg", i>> \in R
                     PROVE  i % 2 = 0
          OBVIOUS
        <5>1. \A use \in {"process", "stack", "argv"} : <<n, "arg", i>> # Block(n, use)
          BY DEF Block
        <5>2. <<n, "arg", i>> \in Args(n, Walked(argc))
          BY <5>1
        <5>3. PICK j \in Walked(argc) : <<n, "arg", i>> = <<n, "arg", j>>
          BY <5>2 DEF Args
        <5> QED BY <5>3 DEF Walked
      <4> QED BY <4>1, <4>2
    <3>2. \A i \in 0 .. argc - 1 : i % 2 \in {0, 1}
      BY <1>2
    <3> HIDE DEF R
    <3> QED BY <3>1, <3>2 DEF Args
  <2>4. {Block(n, "process"), Block(n, "stack"), Block(n, "argv")} \ R = {}
    OBVIOUS
  <2> HIDE DEF R
  <2> QED BY <2>1, <2>2, <2>3, <2>4
<1> HIDE DEF R
<1>7. \A i \in DOMAIN procs : Share(ps, i) = Share(procs, i) \ R
  BY <1>5, <1>6
<1>8. Shares(ps) = Shares(procs) \ R
  BY <1>7 DEF Shares
<1> QED BY <1>1, <1>8 DEF R

\* When a process has ended what is held is what the others have, and what it left.
LEMMA RemovedKept ==
  ASSUME PInv, removeNode
  PROVE  PInv'
<1>1. PICK n \in DOMAIN procs :
        /\ ~ undefined /\ procs[n].where = "ring"
        /\ procs' = [procs EXCEPT ![n].where = "ended"]
        /\ nodes' = nodes - 1 /\ nodeCount' = nodeCount - 1
        /\ \/ /\ Ends(n) /\ undefined' = undefined
              /\ owned' = owned \ ({Block(n, use) : use \in {"process", "stack", "argv"}}
                                   \cup Args(n, Walked(procs[n].argc)))
           \/ undefined' = TRUE /\ owned' = owned
  BY DEF removeNode
<1>2. /\ ProcessTypeOK /\ nodes = Cardinality(Found(procs, {"ring"}))
      /\ nodeCount = nodes + Cardinality(Found(procs, {"never", "nowhere"}))
      /\ undefined \in BOOLEAN
  BY <1>1 DEF PInv, ProcessTypeOK
<1>3. procs \in Seq(Entry) /\ DOMAIN procs = 1 .. Len(procs) /\ Len(procs) \in Nat
  BY <1>2 DEF ProcessTypeOK, Entry
<1>4. /\ DOMAIN procs' = DOMAIN procs /\ \A i \in DOMAIN procs \ {n} : procs'[i] = procs[i]
      /\ procs'[n] = [procs[n] EXCEPT !.where = "ended"]
  BY <1>1
<1>5. procs[n] \in Entry
  BY <1>3
<1>6. /\ procs'[n].where = "ended" /\ procs'[n].argc = procs[n].argc /\ procs'[n] \in Entry
      /\ procs'[n].pid = procs[n].pid
  BY <1>4, <1>5 DEF Entry
<1>7. procs' \in Seq(Entry)
  <2>1. \A i \in 1 .. Len(procs) : procs'[i] \in Entry
    BY <1>3, <1>4, <1>6
  <2>2. procs' \in [1 .. Len(procs) -> Entry]
    BY <1>1, <1>3, <1>4, <2>1
  <2> QED BY <1>3, <2>2
<1>8. /\ Found(procs', {"ring"}) = Found(procs, {"ring"}) \ {n} /\ n \in Found(procs, {"ring"})
      /\ Found(procs', {"never", "nowhere"}) = Found(procs, {"never", "nowhere"})
  BY <1>1, <1>4, <1>6 DEF Found
<1>9. /\ IsFiniteSet(Found(procs, {"ring"}))
      /\ Cardinality(Found(procs, {"ring"})) \in Nat
      /\ Cardinality(Found(procs, {"never", "nowhere"})) \in Nat
  BY <1>2, Places
<1>10. Cardinality(Found(procs', {"ring"})) = Cardinality(Found(procs, {"ring"})) - 1
  BY <1>8, <1>9, FS_RemoveElement
<1>11. Cardinality(Found(procs', {"ring"})) \in Nat
  BY <1>8, <1>9, FS_RemoveElement, FS_CardinalityType
<1>12. /\ nodes' = Cardinality(Found(procs', {"ring"})) /\ nodes' \in Nat /\ nodeCount' \in Nat
       /\ nodeCount' = nodes' + Cardinality(Found(procs', {"never", "nowhere"}))
  BY <1>1, <1>2, <1>8, <1>9, <1>10, <1>11
<1>13. ProcessTypeOK'
  <2>1. owned' \subseteq owned /\ undefined' \in BOOLEAN
    BY <1>1, <1>2
  <2> QED BY <1>2, <1>4, <1>7, <1>12, <2>1, SMTT(30) DEF ProcessTypeOK, Entry
<1>14. ~ undefined' => owned' = Shares(procs')
  BY <1>1, <1>4, <1>6, Returned
<1>15. AllTold(procs')
  <2>1. AllTold(procs)
    BY <1>1 DEF PInv
  <2> QED BY <1>1, <1>4, <1>6, <2>1 DEF AllTold, Told
<1> QED BY <1>12, <1>13, <1>14, <1>15 DEF PInv

\* Nothing is held at first.
LEMMA FirstKept ==
  ASSUME ProcessInit
  PROVE  PInv
<1>1. procs = <<>> /\ owned = {} /\ nodes = 0 /\ nodeCount = 0 /\ undefined = FALSE
  BY DEF ProcessInit
<1>2. DOMAIN procs = {} /\ procs \in Seq(Entry)
  BY <1>1
<1>3. Shares(procs) = {} /\ \A places : Found(procs, places) = {}
  BY <1>2 DEF Shares, Found
<1>4. Cardinality({}) = 0
  BY FS_EmptySet
<1>5. ProcessTypeOK
  <2>1. /\ nodes \in Nat /\ nodeCount \in Nat /\ undefined \in BOOLEAN
        /\ procs \in Seq([argc : 0 .. MaxArgs, argv : {"copied", "none"},
                            where : {"ring", "nowhere", "never", "ended"}, pid : {"own", "stray"}])
    BY <1>1, <1>2 DEF Entry
  <2>2. owned \subseteq {Block(i, use) : i \in DOMAIN procs, use \in {"process", "stack", "argv"}}
                        \cup UNION {Args(i, 0 .. MaxArgs - 1) : i \in DOMAIN procs}
    BY <1>1
  <2> QED BY <2>1, <2>2 DEF ProcessTypeOK
<1>6. /\ Cardinality(Found(procs, {"ring"})) = 0
      /\ Cardinality(Found(procs, {"never", "nowhere"})) = 0
  BY <1>3, <1>4
<1>7. AllTold(procs)
  BY <1>2 DEF AllTold
<1> QED BY <1>1, <1>3, <1>5, <1>6, <1>7 DEF PInv

-----------------------------------------------------------------------------

\* Whatever malloc refuses, and however many arguments programs are given: up to the first
\* use of memory that is nobody's, processes have what is held, one that has ended has left
\* its arguments at odd positions, and the scheduler counts its nodes and the
\* processes that have none.
THEOREM GiveBack == ProcessSpec => []ProcessesGiveBack
<1>1. ProcessInit => PInv
  BY FirstKept
<1>2. PInv /\ [ProcessNext]_processes => PInv'
  <2> SUFFICES ASSUME PInv, [ProcessNext]_processes
               PROVE  PInv'
    OBVIOUS
  <2>1. CASE UNCHANGED processes
    <3>1. owned' = owned /\ procs' = procs /\ nodes' = nodes /\ nodeCount' = nodeCount /\ undefined' = undefined
      BY <2>1 DEF processes
    <3>2. ProcessTypeOK'
      BY <3>1 DEF PInv, ProcessTypeOK
    <3> QED BY <3>1, <3>2 DEF PInv
  <2> QED BY <2>1, AddedKept, RemovedKept DEF ProcessNext
<1>3. PInv => ProcessesGiveBack
  BY Means
<1> QED BY <1>1, <1>2, <1>3, PTL DEF ProcessSpec

================================================================================
