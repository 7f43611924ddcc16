-------------------------------- MODULE Keyboard --------------------------------
(***************************************************************************)
(* The keyboard driver and the system calls that read from it.  Keys come  *)
(* in through an interrupt; processes call sys_read and sys_timedRead.     *)
(*                                                                         *)
(* A call runs with interrupts off up to its first _hlt, and with them on  *)
(* from there to its end, but for the body of readBuf.  The handler of a   *)
(* key runs with interrupts off, but for the release of Ctrl, whose        *)
(* snapshot of the registers enables them: the rest of it is interleaved   *)
(* with the readers, while the interrupt controller holds back other keys. *)
(*                                                                         *)
(* Nothing asks whether the buffer is full: what is stored behind its last *)
(* key is stored in count, and what is stored behind that is in memory the *)
(* model says nothing of.                                                  *)
(*                                                                         *)
(* Of a key it matters when it was typed and whether it ends a line.       *)
(***************************************************************************)
EXTENDS Integers, Sequences, FiniteSets

CONSTANTS
  Reader,      \* the processes that read
  Foreground,  \* the one that Ctrl-C kills
  Codes,       \* the scan codes that come in
  BUF_SIZE,
  CountMod,    \* count is a byte: 256
  Bytes,       \* the characters, as numbers that count may take
  Counts,      \* the lengths of the callers' buffers
  Timeouts,    \* in ticks, of sys_timedRead
  NULL,
  MaxKeys      \* bounds how many keys are pressed

ASSUME CodesAssumption ==
  Codes \subseteq {"key", "enter", "bar", "c", "d", "null", "shift", "shiftUp", "ctrl", "e0"}
ASSUME SizesAssumption ==
  /\ BUF_SIZE \in Nat /\ BUF_SIZE > 0 /\ CountMod \in Nat /\ BUF_SIZE + 1 < CountMod
  /\ Bytes \subseteq 0 .. CountMod - 1
  /\ Counts \subseteq Nat \ {0} /\ Timeouts \subseteq Nat /\ MaxKeys \in Nat
ASSUME ReaderAssumption == Foreground \in Reader /\ IsFiniteSet(Reader)
ASSUME NullAssumption == NULL \notin Int

VARIABLES
  buf,         \* keys, count and what was hit behind the keys: nothing, count or more
  shift, ctrl,
  pending,     \* what the release of Ctrl has still to put into the buffer,
  loaded,      \*   the count it has loaded to do so
  counted,     \*   and whether it has stored the next one
  pc,          \* where each reader is: idle, halted, take, clear or killed
  got,         \* the caller's buffer up to i, during a call
  room,        \* count - 1
  left,        \* the ticks left of a timed read, or NULL
  pressed,     \* how many keys were pressed so far (history)
  since,       \* how many of them before the call began, or NULL (history)
  taken,       \* the keys in the order in which readers took them (history)
  ctrlIsDown,  \* where the key is (history)
  released     \* whether it was released at all (history)

driver == <<buf, shift, ctrl>>
release == <<pending, loaded, counted>>
callers == <<pc, got, room, left, since, taken>>
vars == <<driver, release, callers, pressed, ctrlIsDown, released>>

Key == [n : 0 .. MaxKeys, ends : BOOLEAN]

Init ==
  /\ buf = [keys |-> [i \in 0 .. BUF_SIZE - 1 |-> [n |-> 0, ends |-> TRUE]],
            count |-> 0, hit |-> "nothing"]
  /\ shift = FALSE /\ ctrl = FALSE
  /\ pending = <<>> /\ loaded = NULL /\ counted = FALSE
  /\ pc = [r \in Reader |-> "idle"]
  /\ got = [r \in Reader |-> <<>>]
  /\ room = [r \in Reader |-> 0]
  /\ left = [r \in Reader |-> NULL]
  /\ pressed = 0 /\ since = [r \in Reader |-> NULL] /\ taken = <<>>
  /\ ctrlIsDown = FALSE /\ released = FALSE

-----------------------------------------------------------------------------
(* saveKey.                                                                *)

\* What a key puts into the buffer: shift takes 32 off its character, and what
\* ends a line is '\n' or 0.  Shift and the bar put in '|' and '\' - 32.
Puts(c) ==
  LET key == [n |-> pressed + 1, ends |-> c \in {"enter", "null"} /\ ~ shift]
  IN  IF c \in {"shift", "shiftUp", "e0"} THEN <<>>
      ELSE IF c = "bar" /\ shift THEN <<key, key>>
      ELSE <<key>>

NextCount(count) == (count + 1) % CountMod

\* count comes right behind the keys.
StoreAt(b, i, key, byte) ==
  CASE i < BUF_SIZE -> [b EXCEPT !.keys[i] = key]
    [] i = BUF_SIZE -> [b EXCEPT !.count = byte, !.hit = "count"]
    [] OTHER        -> [b EXCEPT !.hit = "more"]

\* buf.keys[buf.count++] = ..., which stores the key last.
Put(b, key, byte) == StoreAt([b EXCEPT !.count = NextCount(b.count)], b.count, key, byte)

PutAll(b, keys, byte) ==
  CASE Len(keys) = 0 -> b
    [] Len(keys) = 1 -> Put(b, keys[1], byte)
    [] OTHER         -> Put(Put(b, keys[1], byte), keys[2], byte)

Overflowed == buf.hit # "nothing"
lost == buf.hit = "more"

\* Ctrl is taken to be up after an extended key or a code of 0 only.
CtrlAfter(c) == IF c = "ctrl" THEN TRUE ELSE ctrl /\ c \notin {"e0", "null"}

Kills(c) == ctrl /\ c = "c"

\* The switch of saveKey and its two branches for Ctrl-C and Ctrl-D.
Modifiers(c) ==
  /\ shift' = CASE c = "shift" -> TRUE [] c = "shiftUp" -> FALSE [] OTHER -> shift
  /\ ctrl' = (CtrlAfter(c) /\ ~ (ctrl /\ c \in {"c", "d"}))
  /\ pc' = IF Kills(c) THEN [pc EXCEPT ![Foreground] = "killed"] ELSE pc
  /\ pressed' = pressed + 1

KeyPressed ==
  /\ pending = <<>> /\ pressed < MaxKeys
  /\ \E c \in Codes, byte \in Bytes :
       /\ Modifiers(c)
       /\ buf' = PutAll(buf, IF Kills(c) THEN <<>> ELSE Puts(c), byte)
       /\ ctrlIsDown' = (ctrlIsDown \/ c = "ctrl")
  /\ UNCHANGED <<release, got, room, left, since, taken, released>>

\* The handler has used rax for the snapshot before it passes it on: saveKey is
\* called with a word of the interrupted stack, which may be any code.
CtrlReleased ==
  /\ pending = <<>> /\ pressed < MaxKeys /\ ctrlIsDown
  /\ ctrlIsDown' = FALSE /\ released' = TRUE
  /\ \E c \in Codes :
       /\ Modifiers(c)
       /\ pending' = IF Kills(c) THEN <<>> ELSE Puts(c)
  /\ UNCHANGED <<buf, loaded, counted, got, room, left, since, taken>>

\* buf.keys[buf.count++] = ... loads count,
LoadCount ==
  /\ pending # <<>> /\ loaded = NULL
  /\ loaded' = buf.count
  /\ UNCHANGED <<driver, pending, counted, callers, pressed, ctrlIsDown, released>>

\* stores the next one,
StoreCount ==
  /\ pending # <<>> /\ loaded # NULL /\ ~ counted
  /\ buf' = [buf EXCEPT !.count = NextCount(loaded)]
  /\ counted' = TRUE
  /\ UNCHANGED <<shift, ctrl, pending, loaded, callers, pressed, ctrlIsDown, released>>

\* and stores the key.
StoreKey ==
  /\ counted
  /\ \E byte \in Bytes : buf' = StoreAt(buf, loaded, Head(pending), byte)
  /\ pending' = Tail(pending) /\ loaded' = NULL /\ counted' = FALSE
  /\ UNCHANGED <<shift, ctrl, callers, pressed, ctrlIsDown, released>>

-----------------------------------------------------------------------------
(* sys_read and sys_timedRead.                                             *)

Forever == NULL

\* Whether the loop goes on.
GoesOn(r) == Len(got[r]) < room[r] /\ (left[r] = Forever \/ left[r] > 0)

\* The call ends, and with it what it has in its variables.
Return(r) ==
  /\ pc' = [pc EXCEPT ![r] = "idle"]
  /\ got' = [got EXCEPT ![r] = <<>>] /\ left' = [left EXCEPT ![r] = Forever]

\* A faulty variant: what was typed before the call is left in the buffer.
BufferKept == UNCHANGED buf

clearKeyboardBuffer == buf' = [buf EXCEPT !.count = 0]

\* The call, up to its first _hlt.
Read(r) ==
  /\ pc[r] = "idle"
  /\ \E count \in Counts, timeout \in Timeouts \cup {Forever} :
       /\ room' = [room EXCEPT ![r] = count - 1]
       /\ IF count > 1 /\ timeout # 0
          THEN /\ left' = [left EXCEPT ![r] = timeout]
               /\ pc' = [pc EXCEPT ![r] = "halted"]
               /\ UNCHANGED got
          ELSE Return(r)
  /\ since' = [since EXCEPT ![r] = pressed]
  /\ clearKeyboardBuffer
  /\ UNCHANGED <<shift, ctrl, release, taken, pressed, ctrlIsDown, released>>

\* A faulty variant: whether there is a key is not asked.
KeysAssumed == TRUE

KeysWaiting == buf.count > 0

\* An interrupt ends _hlt; with no key in the buffer the process halts again.
Poll(r) ==
  /\ pc[r] = "halted"
  /\ IF GoesOn(r)
     THEN /\ KeysWaiting
          /\ pc' = [pc EXCEPT ![r] = "take"] /\ UNCHANGED <<got, left>>
     ELSE Return(r)
  /\ UNCHANGED <<driver, release, room, since, taken, pressed, ctrlIsDown, released>>

\* How many keys readBuf copies: there has to be room for a 0 after them.
Fits(r) == IF buf.count < room[r] - Len(got[r]) THEN buf.count ELSE room[r] - Len(got[r])

\* What stands behind the keys is no key of anybody's and may end a line.
Copied(r, ends) ==
  [i \in 1 .. Fits(r) |-> IF i <= BUF_SIZE THEN buf.keys[i - 1] ELSE [n |-> 0, ends |-> ends]]

\* readBuf, which empties the buffer before it enables interrupts.
Take(r) ==
  /\ pc[r] = "take"
  /\ \E ends \in BOOLEAN :
       /\ got' = [got EXCEPT ![r] = @ \o Copied(r, ends)]
       /\ taken' = taken \o Copied(r, ends)
  /\ clearKeyboardBuffer
  /\ pc' = [pc EXCEPT ![r] = "clear"]
  /\ UNCHANGED <<shift, ctrl, release, room, left, since, pressed, ctrlIsDown, released>>

\* Whether the last key ends the line; before the caller's buffer is whatever is there.
EndsLine(r) == IF got[r] = <<>> THEN BOOLEAN ELSE {got[r][Len(got[r])].ends}

\* getKbdBuffer empties it once more, and sys_read looks at the last key.
Clear(r) ==
  /\ pc[r] = "clear"
  /\ clearKeyboardBuffer
  /\ \E ends \in EndsLine(r) :
       IF ends THEN Return(r)
               ELSE pc' = [pc EXCEPT ![r] = "halted"] /\ UNCHANGED <<got, left>>
  /\ UNCHANGED <<shift, ctrl, release, room, since, taken, pressed, ctrlIsDown, released>>

\* A faulty variant: the time stands still.
NoTimePasses == left

\* A tick of the timer.
TimePassed == [r \in Reader |-> IF left[r] \in {Forever, 0} THEN left[r] ELSE left[r] - 1]

Tick ==
  /\ left' = TimePassed
  /\ UNCHANGED <<driver, release, pc, got, room, since, taken, pressed, ctrlIsDown, released>>

Undefined == lost /\ UNCHANGED vars

Next ==
  \/ /\ ~ lost
     /\ \/ KeyPressed \/ CtrlReleased
        \/ LoadCount \/ StoreCount \/ StoreKey
        \/ \E r \in Reader : Read(r) \/ Poll(r) \/ Take(r) \/ Clear(r)
        \/ Tick
  \/ Undefined

Spec == Init /\ [][Next]_vars

\* The timer never stops, and with it the scheduler gives every reader its turn.
FairSpec ==
  /\ Spec
  /\ WF_vars(~ lost /\ Tick)
  /\ \A r \in Reader : WF_vars(~ lost /\ (Poll(r) \/ Take(r) \/ Clear(r)))

-----------------------------------------------------------------------------
(* Properties.                                                             *)

TypeOK ==
  /\ buf \in [keys : [0 .. BUF_SIZE - 1 -> Key], count : 0 .. CountMod - 1,
               hit : {"nothing", "count", "more"}]
  /\ shift \in BOOLEAN /\ ctrl \in BOOLEAN
  /\ pending \in Seq(Key) /\ loaded \in 0 .. CountMod - 1 \cup {NULL} /\ counted \in BOOLEAN
  /\ pc \in [Reader -> {"idle", "halted", "take", "clear", "killed"}]
  /\ got \in [Reader -> Seq(Key)]
  /\ room \in [Reader -> Nat]
  /\ left \in [Reader -> Nat \cup {Forever}]
  /\ pressed \in 0 .. MaxKeys
  /\ since \in [Reader -> 0 .. pressed \cup {NULL}]
  /\ taken \in Seq(Key)
  /\ ctrlIsDown \in BOOLEAN /\ released \in BOOLEAN

\* Until Ctrl is released or the buffer overflows, keys reach readers in the order in
\* which they were typed and each reaches one of them at most once ('|' and the
\* character after it come from one key), though every reader empties a buffer it
\* shares.  That keys are typed faster than they are read does overflow the buffer.
InOrderOnce ==
  /\ TypeOK
  /\ ~ released /\ ~ Overflowed =>
       /\ \A i, j \in DOMAIN taken : i < j => taken[i].n <= taken[j].n
       /\ \A i, j \in DOMAIN taken : i + 1 < j => taken[i].n < taken[j].n

\* Until Ctrl is released or the buffer overflows, a call returns only keys that were
\* typed since it began, even when another process's call left some behind.
OnlyFreshKeys ==
  ~ released /\ ~ Overflowed => \A r \in Reader : \A i \in DOMAIN got[r] : got[r][i].n > since[r]

\* Nobody else has read so far.
FirstReader(r) == \A q \in Reader \ {r} : since[q] = NULL

\* The caller's buffer is never filled past the 0 at its end, however many keys the
\* overflown count pretends there are.  Until it overflows, the character that is
\* looked at for the end of the line is in that buffer, for the first process that
\* reads, because a key that was seen is still there when taken.
StaysInBuffer ==
  \A r \in Reader :
    /\ Len(got[r]) <= room[r]
    /\ FirstReader(r) /\ ~ Overflowed /\ pc[r] = "clear" => got[r] # <<>>

\* sys_timedRead returns, whatever is typed, unless its process is killed or keys are
\* stored behind the driver's buffer and its count: nobody is in a timed read for good.
TimedReadReturns ==
  \A r \in Reader : []<>(pc[r] \in {"idle", "killed"} \/ left[r] = Forever \/ lost)
===============================================================================
