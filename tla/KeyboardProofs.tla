---------------------------- MODULE KeyboardProofs ----------------------------
(* Proofs about Keyboard, for any number of readers, any buffers and codes. *)
EXTENDS Keyboard, SequenceTheorems, FiniteSetTheorems, TLAPS

-----------------------------------------------------------------------------
(* What is put into the buffer and taken out of it.                         *)

\* A key puts in nothing, one entry or two, all with its own number.
LEMMA PutsMeans ==
  ASSUME TypeOK, pressed < MaxKeys, NEW c \in Codes
  PROVE  /\ Puts(c) \in Seq(Key) /\ Len(Puts(c)) <= 2
         /\ \A i \in 1 .. Len(Puts(c)) : Puts(c)[i].n = pressed + 1
<1> DEFINE key == [n |-> pressed + 1, ends |-> c \in {"enter", "null"} /\ ~ shift]
<1>1. pressed + 1 \in 0 .. MaxKeys
  BY SizesAssumption DEF TypeOK
<1>2. key \in Key /\ key.n = pressed + 1
  <2>1. (c \in {"enter", "null"} /\ ~ shift) \in BOOLEAN
    OBVIOUS
  <2> QED BY <1>1, <2>1 DEF Key
<1>3. Puts(c) = <<>> \/ Puts(c) = <<key, key>> \/ Puts(c) = <<key>>
  BY DEF Puts
<1> HIDE DEF key
<1>4. CASE Puts(c) = <<>>
  BY <1>4
<1>5. CASE Puts(c) = <<key, key>>
  BY <1>2, <1>5
<1>6. CASE Puts(c) = <<key>>
  BY <1>2, <1>6
<1> QED BY <1>3, <1>4, <1>5, <1>6

Buffer == [keys : [0 .. BUF_SIZE - 1 -> Key], count : 0 .. CountMod - 1, hit : {"nothing", "count", "more"}]

\* count goes up by one, but for the largest.
LEMMA NextCountMeans ==
  ASSUME NEW count \in 0 .. CountMod - 1
  PROVE  /\ NextCount(count) \in 0 .. CountMod - 1
         /\ count < CountMod - 1 => NextCount(count) = count + 1
<1>1. CountMod \in Nat /\ CountMod > 0
  BY SizesAssumption
<1>2. CASE count < CountMod - 1
  <2>1. (count + 1) % CountMod = count + 1
    BY <1>1, <1>2
  <2> QED BY <1>1, <1>2, <2>1 DEF NextCount
<1>3. CASE count = CountMod - 1
  <2>1. (count + 1) % CountMod = 0
    BY <1>1, <1>3
  <2> QED BY <1>1, <1>3, <2>1 DEF NextCount
<1> QED BY <1>1, <1>2, <1>3

\* A store keeps the buffer what it is, and leaves a trace when it is behind the keys.
LEMMA StoreAtKeeps ==
  ASSUME NEW b \in Buffer, NEW i \in 0 .. CountMod - 1, NEW key \in Key, NEW byte \in Bytes
  PROVE  /\ StoreAt(b, i, key, byte) \in Buffer
         /\ StoreAt(b, i, key, byte).hit = "nothing" =>
              b.hit = "nothing" /\ i < BUF_SIZE /\ StoreAt(b, i, key, byte).count = b.count
<1>1. BUF_SIZE \in Nat /\ BUF_SIZE > 0 /\ CountMod \in Nat /\ BUF_SIZE + 1 < CountMod /\ byte \in 0 .. CountMod - 1
  BY SizesAssumption
<1>2. CASE i < BUF_SIZE
  <2>1. StoreAt(b, i, key, byte) = [b EXCEPT !.keys[i] = key] /\ i \in 0 .. BUF_SIZE - 1
    BY <1>1, <1>2 DEF StoreAt
  <2>2. [b EXCEPT !.keys[i] = key] \in Buffer
    BY <1>1, <2>1 DEF Buffer
  <2>3. [b EXCEPT !.keys[i] = key].hit = b.hit /\ [b EXCEPT !.keys[i] = key].count = b.count
    BY DEF Buffer
  <2> QED BY <1>2, <2>1, <2>2, <2>3
<1>3. CASE i = BUF_SIZE
  <2>1. StoreAt(b, i, key, byte) = [b EXCEPT !.count = byte, !.hit = "count"]
    BY <1>1, <1>3 DEF StoreAt
  <2>2. /\ [b EXCEPT !.count = byte, !.hit = "count"] \in Buffer
        /\ [b EXCEPT !.count = byte, !.hit = "count"].hit = "count"
    BY <1>1 DEF Buffer
  <2> QED BY <2>1, <2>2
<1>4. CASE ~ i < BUF_SIZE /\ i # BUF_SIZE
  <2>1. StoreAt(b, i, key, byte) = [b EXCEPT !.hit = "more"]
    BY <1>1, <1>4 DEF StoreAt
  <2>2. [b EXCEPT !.hit = "more"] \in Buffer /\ [b EXCEPT !.hit = "more"].hit = "more"
    BY DEF Buffer
  <2> QED BY <2>1, <2>2
<1> QED BY <1>2, <1>3, <1>4

\* What is not stored behind the keys is stored where it was to be.
LEMMA StoreAtStores ==
  ASSUME NEW b \in Buffer, NEW i \in 0 .. CountMod - 1, NEW key \in Key, NEW byte \in Bytes,
         i < BUF_SIZE
  PROVE  StoreAt(b, i, key, byte).keys = [b.keys EXCEPT ![i] = key]
<1>1. StoreAt(b, i, key, byte) = [b EXCEPT !.keys[i] = key]
  BY DEF StoreAt
<1>2. [b EXCEPT !.keys[i] = key].keys = [b.keys EXCEPT ![i] = key]
  BY DEF Buffer
<1> QED BY <1>1, <1>2

\* A key is put behind those that are there, or the buffer overflows.
LEMMA PutMeans ==
  ASSUME NEW b \in Buffer, NEW key \in Key, NEW byte \in Bytes
  PROVE  /\ Put(b, key, byte) \in Buffer
         /\ Put(b, key, byte).hit = "nothing" =>
              /\ b.hit = "nothing" /\ b.count < BUF_SIZE
              /\ Put(b, key, byte).count = b.count + 1
              /\ Put(b, key, byte).keys = [b.keys EXCEPT ![b.count] = key]
<1> DEFINE a == [b EXCEPT !.count = NextCount(b.count)]
<1>1. BUF_SIZE \in Nat /\ BUF_SIZE > 0 /\ CountMod \in Nat /\ BUF_SIZE + 1 < CountMod /\ b.count \in 0 .. CountMod - 1
  BY SizesAssumption DEF Buffer
<1>2. NextCount(b.count) \in 0 .. CountMod - 1 /\ (b.count < BUF_SIZE => NextCount(b.count) = b.count + 1)
  BY <1>1, NextCountMeans
<1>3. a \in Buffer /\ a.hit = b.hit /\ a.keys = b.keys /\ a.count = NextCount(b.count)
  BY <1>2 DEF Buffer
<1>4. Put(b, key, byte) = StoreAt(a, b.count, key, byte)
  BY DEF Put
<1> HIDE DEF a
<1> DEFINE put == StoreAt(a, b.count, key, byte)
<1>5. /\ put \in Buffer
      /\ put.hit = "nothing" => a.hit = "nothing" /\ b.count < BUF_SIZE /\ put.count = a.count
  BY <1>1, <1>3, StoreAtKeeps
<1>6. b.count < BUF_SIZE => put.keys = [a.keys EXCEPT ![b.count] = key]
  BY <1>1, <1>3, StoreAtStores
<1> HIDE DEF put
<1> QED BY <1>1, <1>2, <1>3, <1>4, <1>5, <1>6 DEF put

\* So are two keys at most, each behind the one before.
LEMMA PutAllMeans ==
  ASSUME NEW b \in Buffer, NEW keys \in Seq(Key), Len(keys) <= 2, NEW byte \in Bytes
  PROVE  /\ PutAll(b, keys, byte) \in Buffer
         /\ PutAll(b, keys, byte).hit = "nothing" =>
              /\ b.hit = "nothing" /\ (b.count <= BUF_SIZE => b.count + Len(keys) <= BUF_SIZE)
              /\ PutAll(b, keys, byte).count = b.count + Len(keys)
              /\ \A i \in 0 .. BUF_SIZE - 1 : i < b.count => PutAll(b, keys, byte).keys[i] = b.keys[i]
              /\ \A i \in 0 .. BUF_SIZE - 1 : i >= b.count /\ i < b.count + Len(keys) =>
                   /\ PutAll(b, keys, byte).keys[i] = keys[(i - b.count) + 1]
                   /\ (i - b.count) + 1 \in 1 .. Len(keys)
<1>1. /\ BUF_SIZE \in Nat /\ BUF_SIZE > 0 /\ CountMod \in Nat /\ BUF_SIZE + 1 < CountMod
      /\ b.count \in 0 .. CountMod - 1 /\ b.keys \in [0 .. BUF_SIZE - 1 -> Key]
      /\ Len(keys) \in Nat
  BY SizesAssumption DEF Buffer
<1>2. CASE Len(keys) = 0
  <2>1. PutAll(b, keys, byte) = b
    BY <1>2 DEF PutAll
  <2> QED BY <1>1, <1>2, <2>1
<1>3. CASE Len(keys) = 1
  <2>1. PutAll(b, keys, byte) = Put(b, keys[1], byte) /\ keys[1] \in Key
    BY <1>3 DEF PutAll
  <2> DEFINE one == Put(b, keys[1], byte)
  <2>2. /\ one \in Buffer
        /\ one.hit = "nothing" =>
             /\ b.hit = "nothing" /\ b.count < BUF_SIZE /\ one.count = b.count + 1
             /\ one.keys = [b.keys EXCEPT ![b.count] = keys[1]]
    BY <2>1, PutMeans
  <2>3. PutAll(b, keys, byte) = one
    BY <2>1
  <2> HIDE DEF one
  <2> SUFFICES ASSUME one.hit = "nothing"
               PROVE  /\ b.hit = "nothing" /\ (b.count <= BUF_SIZE => b.count + Len(keys) <= BUF_SIZE)
                      /\ one.count = b.count + Len(keys)
                      /\ \A i \in 0 .. BUF_SIZE - 1 : i < b.count => one.keys[i] = b.keys[i]
                      /\ \A i \in 0 .. BUF_SIZE - 1 : i >= b.count /\ i < b.count + Len(keys) =>
                           /\ one.keys[i] = keys[(i - b.count) + 1]
                           /\ (i - b.count) + 1 \in 1 .. Len(keys)
    BY <2>2, <2>3
  <2>4. \A i \in 0 .. BUF_SIZE - 1 : i < b.count => one.keys[i] = b.keys[i]
    BY <1>1, <2>2
  <2>5. ASSUME NEW i \in 0 .. BUF_SIZE - 1, i >= b.count, i < b.count + Len(keys)
        PROVE  one.keys[i] = keys[(i - b.count) + 1] /\ (i - b.count) + 1 \in 1 .. Len(keys)
    <3>1. i = b.count /\ (i - b.count) + 1 = 1
      BY <1>1, <1>3, <2>5
    <3>2. one.hit = "nothing" /\ b.count \in 0 .. BUF_SIZE - 1 /\ 1 \in 1 .. Len(keys)
      BY <1>1, <1>3, <2>2
    <3>3. one.keys[b.count] = keys[1]
      BY <1>1, <2>2, <3>2
    <3> QED BY <3>1, <3>2, <3>3
  <2> QED BY <1>1, <1>3, <2>2, <2>4, <2>5
<1>4. CASE Len(keys) = 2
  <2> DEFINE one == Put(b, keys[1], byte)
             two == Put(one, keys[2], byte)
  <2>1. PutAll(b, keys, byte) = two /\ keys[1] \in Key /\ keys[2] \in Key
    <3>1. PutAll(b, keys, byte) = Put(Put(b, keys[1], byte), keys[2], byte)
      BY <1>1, <1>4 DEF PutAll
    <3>2. keys[1] \in Key /\ keys[2] \in Key
      <4>1. 1 \in 1 .. Len(keys) /\ 2 \in 1 .. Len(keys)
        BY <1>4
      <4> QED BY <4>1, ElementOfSeq
    <3> QED BY <3>1, <3>2
  <2>2. /\ one \in Buffer
        /\ one.hit = "nothing" =>
             /\ b.hit = "nothing" /\ b.count < BUF_SIZE /\ one.count = b.count + 1
             /\ one.keys = [b.keys EXCEPT ![b.count] = keys[1]]
    BY <2>1, PutMeans
  <2> HIDE DEF one
  <2>3. /\ two \in Buffer
        /\ two.hit = "nothing" =>
             /\ one.hit = "nothing" /\ one.count < BUF_SIZE /\ two.count = one.count + 1
             /\ two.keys = [one.keys EXCEPT ![one.count] = keys[2]]
    BY <2>1, <2>2, PutMeans
  <2> HIDE DEF two
  <2> SUFFICES ASSUME two.hit = "nothing"
               PROVE  /\ b.hit = "nothing" /\ (b.count <= BUF_SIZE => b.count + Len(keys) <= BUF_SIZE)
                      /\ two.count = b.count + Len(keys)
                      /\ \A i \in 0 .. BUF_SIZE - 1 : i < b.count => two.keys[i] = b.keys[i]
                      /\ \A i \in 0 .. BUF_SIZE - 1 : i >= b.count /\ i < b.count + Len(keys) =>
                           /\ two.keys[i] = keys[(i - b.count) + 1]
                           /\ (i - b.count) + 1 \in 1 .. Len(keys)
    BY <2>1, <2>3
  <2>4. /\ b.hit = "nothing" /\ one.count = b.count + 1 /\ b.count + 1 < BUF_SIZE
        /\ two.count = b.count + 2
        /\ \A i \in 0 .. BUF_SIZE - 1 : one.keys[i] = IF i = b.count THEN keys[1] ELSE b.keys[i]
    <3>1. /\ one.hit = "nothing" /\ b.hit = "nothing" /\ one.count = b.count + 1
          /\ one.keys = [b.keys EXCEPT ![b.count] = keys[1]]
          /\ one.count < BUF_SIZE /\ two.count = one.count + 1
      BY <2>2, <2>3
    <3>2. b.count + 1 < BUF_SIZE /\ two.count = b.count + 2
      BY <1>1, <3>1
    <3>3. \A i \in 0 .. BUF_SIZE - 1 : one.keys[i] = IF i = b.count THEN keys[1] ELSE b.keys[i]
      BY <1>1, <3>1
    <3> QED BY <3>1, <3>2, <3>3
  <2>5. one.keys \in [0 .. BUF_SIZE - 1 -> Key]
    BY <2>2 DEF Buffer
  <2>6. \A i \in 0 .. BUF_SIZE - 1 : two.keys[i] = IF i = b.count + 1 THEN keys[2] ELSE one.keys[i]
    <3>1. two.keys = [one.keys EXCEPT ![b.count + 1] = keys[2]]
      BY <2>3, <2>4
    <3> QED BY <2>5, <3>1
  <2>7. \A i \in 0 .. BUF_SIZE - 1 : i < b.count => two.keys[i] = b.keys[i]
    BY <1>1, <2>4, <2>6
  <2>8. ASSUME NEW i \in 0 .. BUF_SIZE - 1, i >= b.count, i < b.count + Len(keys)
        PROVE  two.keys[i] = keys[(i - b.count) + 1] /\ (i - b.count) + 1 \in 1 .. Len(keys)
    <3>1. CASE i = b.count
      <4>1. (i - b.count) + 1 = 1 /\ i # b.count + 1
        BY <1>1, <3>1
      <4> QED BY <1>4, <2>4, <2>6, <3>1, <4>1
    <3>2. CASE i # b.count
      <4>1. i = b.count + 1 /\ (i - b.count) + 1 = 2
        BY <1>1, <1>4, <2>8, <3>2
      <4> QED BY <1>4, <2>6, <4>1
    <3> QED BY <3>1, <3>2
  <2> QED BY <1>1, <1>4, <2>4, <2>7, <2>8
<1>5. Len(keys) = 0 \/ Len(keys) = 1 \/ Len(keys) = 2
  <2> DEFINE n == Len(keys)
  <2>1. n \in Nat /\ n <= 2
    BY <1>1
  <2> HIDE DEF n
  <2>2. n = 0 \/ n = 1 \/ n = 2
    BY <2>1
  <2> QED BY <2>2 DEF n
<1> QED BY <1>2, <1>3, <1>4, <1>5

\* What readBuf takes is no more than count says and there is room for, and not empty when
\* there is a key and room for it; as far as the keys go it is the oldest of them.
LEMMA CopiedMeans ==
  ASSUME TypeOK, NEW r \in Reader, Len(got[r]) <= room[r], NEW ends \in BOOLEAN
  PROVE  /\ Copied(r, ends) \in Seq(Key) /\ Len(Copied(r, ends)) = Fits(r)
         /\ Fits(r) \in Nat /\ Fits(r) <= buf.count /\ Len(got[r]) + Fits(r) <= room[r]
         /\ buf.count > 0 /\ Len(got[r]) < room[r] => Fits(r) > 0
         /\ \A i \in 1 .. Fits(r) : i <= BUF_SIZE => Copied(r, ends)[i] = buf.keys[i - 1]
<1>1. /\ buf.count \in 0 .. CountMod - 1 /\ buf.keys \in [0 .. BUF_SIZE - 1 -> Key] /\ BUF_SIZE \in Nat
      /\ Len(got[r]) \in Nat /\ room[r] \in Nat
  BY SizesAssumption DEF TypeOK
<1> DEFINE n == Fits(r)
<1>2. /\ n \in Nat /\ n <= buf.count /\ Len(got[r]) + n <= room[r]
      /\ buf.count > 0 /\ Len(got[r]) < room[r] => n > 0
  BY <1>1, SMTT(30) DEF Fits
<1> HIDE DEF n
<1> DEFINE copy == [i \in 1 .. n |-> IF i <= BUF_SIZE THEN buf.keys[i - 1] ELSE [n |-> 0, ends |-> ends]]
<1>3. Copied(r, ends) = copy
  BY DEF Copied, n
<1>4. [n |-> 0, ends |-> ends] \in Key
  <2>1. 0 \in 0 .. MaxKeys
    BY SizesAssumption
  <2> QED BY <2>1 DEF Key
<1>5. \A i \in 1 .. n : i <= BUF_SIZE => buf.keys[i - 1] \in Key
  BY <1>1, <1>2
<1>6. copy \in Seq(Key) /\ Len(copy) = n
  BY <1>2, <1>4, <1>5
<1>7. \A i \in 1 .. n : i <= BUF_SIZE => copy[i] = buf.keys[i - 1]
  OBVIOUS
<1> HIDE DEF copy
<1> QED BY <1>2, <1>3, <1>6, <1>7 DEF n

-----------------------------------------------------------------------------
(* Types, and what the callers' buffers hold.                               *)

Pc == {"idle", "halted", "take", "clear", "killed"}

\* The release of Ctrl has loaded count before it stores the next one, and there is a key
\* to be put in.
Release == counted => loaded # NULL /\ pending # <<>>

\* Until something is stored behind the keys, count is no more than their number, but for
\* the moment in which the release of Ctrl has counted a key too many.
Bound ==
  ~ Overflowed =>
    /\ loaded # NULL => loaded <= BUF_SIZE
    /\ buf.count <= BUF_SIZE \/ (counted /\ loaded = BUF_SIZE)

\* Nothing is in the variables of a call that is over or has not begun.
Calls ==
  \A r \in Reader :
    /\ since[r] = NULL => pc[r] \in {"idle", "killed"} /\ got[r] = <<>>
    /\ pc[r] = "idle" => got[r] = <<>>

\* A caller's buffer has room for what is taken, and the first reader that goes to take
\* a key finds one.
Room ==
  /\ \A r \in Reader : Len(got[r]) <= room[r] /\ (pc[r] = "take" => Len(got[r]) < room[r])
  /\ \A r \in Reader : FirstReader(r) /\ ~ Overflowed =>
       /\ pc[r] = "take" => buf.count > 0
       /\ pc[r] = "clear" => got[r] # <<>>

TInv == TypeOK /\ Release /\ Bound /\ Calls /\ Room

\* The steps of saveKey that take no part of the buffer.
LEMMA ModifiersMeans ==
  ASSUME TypeOK, pressed < MaxKeys, NEW c \in Codes, Modifiers(c)
  PROVE  /\ shift' \in BOOLEAN /\ ctrl' \in BOOLEAN /\ pressed' \in 0 .. MaxKeys
         /\ pressed' = pressed + 1 /\ pc' \in [Reader -> Pc]
         /\ \A r \in Reader : pc'[r] = pc[r] \/ pc'[r] = "killed"
         /\ since \in [Reader -> 0 .. pressed' \cup {NULL}]
<1>1. pressed' = pressed + 1 /\ pressed \in 0 .. MaxKeys
  BY DEF Modifiers, TypeOK
<1>2. pressed' \in 0 .. MaxKeys /\ since \in [Reader -> 0 .. pressed' \cup {NULL}]
  BY <1>1, SizesAssumption DEF TypeOK
<1>3. shift' \in BOOLEAN
  BY DEF Modifiers, TypeOK
<1>4. ctrl' \in BOOLEAN
  BY DEF Modifiers
<1>5. pc' = pc \/ pc' = [pc EXCEPT ![Foreground] = "killed"]
  BY DEF Modifiers
<1>6. pc \in [Reader -> Pc]
  BY DEF TypeOK, Pc
<1>7. pc' \in [Reader -> Pc] /\ \A r \in Reader : pc'[r] = pc[r] \/ pc'[r] = "killed"
  BY <1>5, <1>6, ReaderAssumption DEF Pc
<1> QED BY <1>1, <1>2, <1>3, <1>4, <1>7

\* What KeyPressed does to the buffer.
LEMMA PressedMeans ==
  ASSUME TypeOK, KeyPressed
  PROVE  /\ pending = <<>> /\ pressed < MaxKeys
         /\ \E c \in Codes, byte \in Bytes, keys \in Seq(Key) :
              /\ Modifiers(c) /\ Len(keys) <= 2
              /\ \A i \in 1 .. Len(keys) : keys[i].n = pressed + 1
              /\ buf' = PutAll(buf, keys, byte)
<1>1. pending = <<>> /\ pressed < MaxKeys
  BY DEF KeyPressed
<1>2. PICK c \in Codes, byte \in Bytes :
        Modifiers(c) /\ buf' = PutAll(buf, IF Kills(c) THEN <<>> ELSE Puts(c), byte)
  BY DEF KeyPressed
<1> DEFINE keys == IF Kills(c) THEN <<>> ELSE Puts(c)
<1>3. /\ keys \in Seq(Key) /\ Len(keys) <= 2
      /\ \A i \in 1 .. Len(keys) : keys[i].n = pressed + 1
  <2>1. /\ Puts(c) \in Seq(Key) /\ Len(Puts(c)) <= 2
        /\ \A i \in 1 .. Len(Puts(c)) : Puts(c)[i].n = pressed + 1
    BY <1>1, PutsMeans
  <2>2. <<>> \in Seq(Key) /\ Len(<<>>) = 0
    OBVIOUS
  <2>3. CASE Kills(c)
    <3>1. keys = <<>>
      BY <2>3
    <3> HIDE DEF keys
    <3> QED BY <2>2, <3>1
  <2>4. CASE ~ Kills(c)
    <3>1. keys = Puts(c)
      BY <2>4
    <3> HIDE DEF keys
    <3> QED BY <2>1, <3>1
  <2> QED BY <2>3, <2>4
<1>4. buf' = PutAll(buf, keys, byte)
  BY <1>2
<1> HIDE DEF keys
<1> QED BY <1>1, <1>2, <1>3, <1>4

\* A key that is pressed, at whatever moment, leaves the types and the room of callers as they are.
LEMMA PressedTyped ==
  ASSUME TInv, KeyPressed
  PROVE  TInv'
<1>1. pending = <<>> /\ pressed < MaxKeys
  BY PressedMeans DEF TInv
<1>2. PICK c \in Codes, byte \in Bytes, keys \in Seq(Key) :
        Modifiers(c) /\ Len(keys) <= 2 /\ buf' = PutAll(buf, keys, byte)
  BY PressedMeans DEF TInv
<1>3. /\ shift' \in BOOLEAN /\ ctrl' \in BOOLEAN /\ pressed' \in 0 .. MaxKeys
      /\ pc' \in [Reader -> Pc]
      /\ \A r \in Reader : pc'[r] = pc[r] \/ pc'[r] = "killed"
      /\ since \in [Reader -> 0 .. pressed' \cup {NULL}]
  BY <1>1, <1>2, ModifiersMeans DEF TInv
<1>4. UNCHANGED <<release, got, room, left, since, taken, released>> /\ ctrlIsDown' \in BOOLEAN
  BY DEF KeyPressed
<1>5. /\ buf \in Buffer /\ buf' \in Buffer /\ buf.count \in Nat /\ Len(keys) \in Nat
      /\ ~ Overflowed' =>
           /\ ~ Overflowed /\ buf'.count = buf.count + Len(keys)
           /\ buf.count <= BUF_SIZE => buf'.count <= BUF_SIZE
  <2>1. buf \in Buffer
    BY DEF TInv, TypeOK, Buffer
  <2>2. buf.count \in Nat
    BY <2>1 DEF Buffer
  <2> QED BY <1>2, <2>1, <2>2, PutAllMeans DEF Overflowed
<1>6. TypeOK'
  BY <1>3, <1>4, <1>5 DEF TInv, TypeOK, Buffer, Pc, release, Forever
<1>7. Release'
  BY <1>4 DEF TInv, Release, release
<1>8. Bound'
  BY <1>1, <1>4, <1>5 DEF TInv, Bound, Release, release
<1>9. Calls'
  BY <1>3, <1>4 DEF TInv, Calls
<1>10. Room'
  <2>1. \A r \in Reader : (pc'[r] = "take" => pc[r] = "take") /\ (pc'[r] = "clear" => pc[r] = "clear")
    BY <1>3
  <2>2. \A r \in Reader : Len(got'[r]) <= room'[r] /\ (pc'[r] = "take" => Len(got'[r]) < room'[r])
    BY <1>4, <2>1 DEF TInv, Room
  <2>3. ASSUME NEW r \in Reader, FirstReader(r)', ~ Overflowed'
        PROVE  (pc'[r] = "take" => buf'.count > 0) /\ (pc'[r] = "clear" => got'[r] # <<>>)
    <3>1. FirstReader(r)
      BY <1>4, <2>3 DEF FirstReader
    <3>2. (pc[r] = "take" => buf.count > 0) /\ (pc[r] = "clear" => got[r] # <<>>)
      BY <1>5, <2>3, <3>1 DEF TInv, Room
    <3> QED BY <1>4, <1>5, <2>1, <2>3, <3>2
  <2> QED BY <2>2, <2>3 DEF Room
<1> QED BY <1>6, <1>7, <1>8, <1>9, <1>10 DEF TInv

\* So does the release of Ctrl, which only notes what it has still to put in,
LEMMA ReleasedTyped ==
  ASSUME TInv, CtrlReleased
  PROVE  TInv'
<1>1. pending = <<>> /\ pressed < MaxKeys
  BY DEF CtrlReleased
<1>2. PICK c \in Codes : Modifiers(c) /\ pending' \in {<<>>, Puts(c)}
  BY DEF CtrlReleased
<1>3. /\ shift' \in BOOLEAN /\ ctrl' \in BOOLEAN /\ pressed' \in 0 .. MaxKeys
      /\ pc' \in [Reader -> Pc]
      /\ \A r \in Reader : pc'[r] = pc[r] \/ pc'[r] = "killed"
      /\ since \in [Reader -> 0 .. pressed' \cup {NULL}]
  BY <1>1, <1>2, ModifiersMeans DEF TInv
<1>4. pending' \in Seq(Key)
  <2>1. Puts(c) \in Seq(Key)
    BY <1>1, PutsMeans DEF TInv
  <2>2. <<>> \in Seq(Key)
    OBVIOUS
  <2> QED BY <1>2, <2>1, <2>2
<1>5. /\ UNCHANGED <<buf, loaded, counted, got, room, left, since, taken>>
      /\ ctrlIsDown' = FALSE /\ released' = TRUE
  BY DEF CtrlReleased
<1>6. TypeOK'
  BY <1>3, <1>4, <1>5 DEF TInv, TypeOK, Pc, Forever
<1>7. Release'
  BY <1>1, <1>5 DEF TInv, Release
<1>8. Bound'
  BY <1>5 DEF TInv, Bound, Overflowed
<1>9. Calls'
  BY <1>3, <1>5 DEF TInv, Calls
<1>10. Room'
  BY <1>3, <1>5 DEF TInv, Room, FirstReader, Overflowed
<1> QED BY <1>6, <1>7, <1>8, <1>9, <1>10 DEF TInv

\* and each of the steps in which it does put it in.
LEMMA StoringTyped ==
  ASSUME TInv, LoadCount \/ StoreCount \/ StoreKey
  PROVE  TInv'
<1>1. /\ buf \in Buffer /\ buf.count \in 0 .. CountMod - 1 /\ buf.keys \in [0 .. BUF_SIZE - 1 -> Key]
      /\ pending \in Seq(Key) /\ loaded \in 0 .. CountMod - 1 \cup {NULL}
      /\ BUF_SIZE \in Nat /\ BUF_SIZE > 0 /\ CountMod \in Nat /\ BUF_SIZE + 1 < CountMod
      /\ NULL \notin Int
  BY SizesAssumption, NullAssumption DEF TInv, TypeOK, Buffer
\* What is to be shown: callers are left alone, and no key that is there goes away.
<1>2. ASSUME buf' \in Buffer, pending' \in Seq(Key), loaded' \in 0 .. CountMod - 1 \cup {NULL},
             counted' \in BOOLEAN,
             UNCHANGED <<shift, ctrl, callers, pressed, ctrlIsDown, released>>,
             Release', Bound',
             ~ Overflowed' => ~ Overflowed /\ (buf.count > 0 => buf'.count > 0)
      PROVE  TInv'
  <2>1. TypeOK'
    BY <1>2 DEF TInv, TypeOK, Buffer, callers, Forever
  <2>2. Calls'
    BY <1>2 DEF TInv, Calls, callers
  <2>3. Room'
    BY <1>2 DEF TInv, Room, FirstReader, callers
  <2> QED BY <1>2, <2>1, <2>2, <2>3 DEF TInv
<1>3. CASE LoadCount
  <2>1. /\ loaded = NULL /\ loaded' = buf.count
        /\ UNCHANGED <<driver, pending, counted, callers, pressed, ctrlIsDown, released>>
    BY <1>3 DEF LoadCount
  <2>2. ~ counted
    BY <2>1 DEF TInv, Release
  <2>3. Release' /\ counted' \in BOOLEAN
    <3>1. counted' = counted
      BY <2>1, Zenon
    <3>2. counted \in BOOLEAN
      <4>1. TypeOK
        BY Zenon DEF TInv
      <4> QED BY <4>1, Zenon DEF TypeOK
    <3> QED BY <2>2, <3>1, <3>2, Zenon DEF Release
  <2>4. Bound' /\ (~ Overflowed' => ~ Overflowed)
    BY <1>1, <2>1, <2>2 DEF TInv, Bound, Overflowed, driver
  <2> QED BY <1>1, <1>2, <2>1, <2>3, <2>4 DEF driver
<1>4. CASE StoreCount
  <2>1. /\ pending # <<>> /\ loaded \in 0 .. CountMod - 1 /\ loaded # NULL /\ counted' = TRUE
        /\ buf' = [buf EXCEPT !.count = NextCount(loaded)]
        /\ UNCHANGED <<shift, ctrl, pending, loaded, callers, pressed, ctrlIsDown, released>>
    BY <1>1, <1>4 DEF StoreCount
  <2>2. NextCount(loaded) \in 0 .. CountMod - 1 /\ (loaded < CountMod - 1 => NextCount(loaded) = loaded + 1)
    BY <2>1, NextCountMeans
  <2>3. buf' \in Buffer /\ buf'.count = NextCount(loaded) /\ buf'.hit = buf.hit
    BY <1>1, <2>1, <2>2 DEF Buffer
  <2>4. Release'
    BY <2>1 DEF Release
  <2>5. ~ Overflowed' => ~ Overflowed /\ loaded <= BUF_SIZE /\ buf'.count = loaded + 1
    BY <1>1, <2>1, <2>2, <2>3 DEF TInv, Bound, Overflowed
  <2>6. Bound'
    BY <1>1, <2>1, <2>5 DEF Bound
  <2>7. ~ Overflowed' => buf'.count > 0
    BY <2>1, <2>5
  <2> QED BY <1>1, <1>2, <2>1, <2>3, <2>4, <2>5, <2>6, <2>7
<1>5. CASE StoreKey
  <2>1. /\ loaded \in 0 .. CountMod - 1 /\ loaded # NULL /\ pending # <<>>
        /\ pending' = Tail(pending) /\ loaded' = NULL /\ counted' = FALSE
        /\ UNCHANGED <<shift, ctrl, callers, pressed, ctrlIsDown, released>>
    BY <1>1, <1>5 DEF StoreKey, TInv, Release
  <2>2. PICK byte \in Bytes : buf' = StoreAt(buf, loaded, Head(pending), byte)
    BY <1>5 DEF StoreKey
  <2>3. Head(pending) \in Key /\ Tail(pending) \in Seq(Key)
    BY <1>1, <2>1
  <2>4. /\ buf' \in Buffer
        /\ ~ Overflowed' => ~ Overflowed /\ loaded < BUF_SIZE /\ buf'.count = buf.count
    <3> DEFINE stored == StoreAt(buf, loaded, Head(pending), byte)
    <3>1. /\ stored \in Buffer
          /\ stored.hit = "nothing" => buf.hit = "nothing" /\ loaded < BUF_SIZE /\ stored.count = buf.count
      <4> DEFINE head == Head(pending)
      <4>1. buf \in Buffer /\ loaded \in 0 .. CountMod - 1 /\ head \in Key /\ byte \in Bytes
        BY <1>1, <2>1, <2>3
      <4> HIDE DEF head
      <4>2. /\ StoreAt(buf, loaded, head, byte) \in Buffer
            /\ StoreAt(buf, loaded, head, byte).hit = "nothing" =>
                 buf.hit = "nothing" /\ loaded < BUF_SIZE /\ StoreAt(buf, loaded, head, byte).count = buf.count
        BY <4>1, StoreAtKeeps
      <4> QED BY <4>2 DEF head
    <3>2. buf' = stored
      BY <2>2
    <3> HIDE DEF stored
    <3> QED BY <3>1, <3>2 DEF Overflowed
  <2>5. Release'
    BY <2>1 DEF Release
  <2>6. Bound'
    BY <1>1, <2>1, <2>4 DEF TInv, Bound
  <2> QED BY <1>2, <2>1, <2>3, <2>4, <2>5, <2>6
<1> QED BY <1>3, <1>4, <1>5

\* What concerns the buffers of callers is kept where only one reader's step changes
\* its own, and the buffer of the driver is emptied by nobody but a reader.
LEMMA ReaderTyped ==
  ASSUME TInv, NEW r \in Reader, Read(r) \/ Poll(r) \/ Take(r) \/ Clear(r)
  PROVE  TInv'
<1>1. /\ buf \in Buffer /\ buf.count \in 0 .. CountMod - 1 /\ BUF_SIZE \in Nat
      /\ pc \in [Reader -> Pc] /\ got \in [Reader -> Seq(Key)] /\ room \in [Reader -> Nat]
      /\ left \in [Reader -> Nat \cup {Forever}] /\ since \in [Reader -> 0 .. pressed \cup {NULL}]
      /\ pressed \in 0 .. MaxKeys /\ taken \in Seq(Key) /\ TypeOK
  BY SizesAssumption DEF TInv, TypeOK, Buffer, Pc
<1>2. clearKeyboardBuffer => buf' \in Buffer /\ buf'.count = 0 /\ buf'.hit = buf.hit
  <2>1. 0 \in 0 .. CountMod - 1
    BY SizesAssumption
  <2> QED BY <1>1, <2>1 DEF clearKeyboardBuffer, Buffer
<1>3. <<>> \in Seq(Key) /\ Len(<<>>) = 0
  OBVIOUS
\* What is to be shown of a step of one reader.
<1>4. ASSUME buf' \in Buffer, buf'.hit = buf.hit, buf' = buf \/ buf'.count = 0,
             pc' \in [Reader -> Pc], got' \in [Reader -> Seq(Key)],
             room' \in [Reader -> Nat], left' \in [Reader -> Nat \cup {Forever}],
             since' \in [Reader -> 0 .. pressed \cup {NULL}], taken' \in Seq(Key),
             UNCHANGED <<shift, ctrl, release, pressed, ctrlIsDown, released>>,
             \A q \in Reader : q # r => /\ pc'[q] = pc[q] /\ got'[q] = got[q]
                                      /\ room'[q] = room[q] /\ since'[q] = since[q],
             since'[r] # NULL,
             Len(got'[r]) <= room'[r], pc'[r] = "take" => Len(got'[r]) < room'[r],
             pc'[r] = "idle" => got'[r] = <<>>,
             pc'[r] = "take" => buf'.count > 0,
             FirstReader(r) /\ ~ Overflowed => (pc'[r] = "clear" => got'[r] # <<>>)
      PROVE  TInv'
  <2>1. TypeOK'
    BY <1>1, <1>4 DEF TypeOK, Buffer, Pc, release
  <2>2. Release'
    BY <1>4 DEF TInv, Release, release
  <2>3. Bound'
    BY <1>1, <1>4 DEF TInv, Bound, release, Overflowed
  <2>4. Calls'
    BY <1>4 DEF TInv, Calls
  <2>5. \A q \in Reader : Len(got'[q]) <= room'[q] /\ (pc'[q] = "take" => Len(got'[q]) < room'[q])
    BY <1>4 DEF TInv, Room
  <2>6. ASSUME NEW q \in Reader, FirstReader(q)', ~ Overflowed'
        PROVE  (pc'[q] = "take" => buf'.count > 0) /\ (pc'[q] = "clear" => got'[q] # <<>>)
    <3>1. q = r
      BY <1>4, <2>6 DEF FirstReader
    <3>2. FirstReader(r) /\ ~ Overflowed
      BY <1>4, <2>6, <3>1 DEF FirstReader, Overflowed
    <3> QED BY <1>4, <3>1, <3>2
  <2>7. Room'
    BY <2>5, <2>6 DEF Room
  <2> QED BY <2>1, <2>2, <2>3, <2>4, <2>7 DEF TInv
\* Who is in a call has begun it.
<1>5. pc[r] \notin {"idle", "killed"} => since[r] # NULL
  BY DEF TInv, Calls
<1>6. Return(r) =>
        /\ pc' \in [Reader -> Pc] /\ pc'[r] = "idle" /\ got' \in [Reader -> Seq(Key)] /\ got'[r] = <<>>
        /\ left' \in [Reader -> Nat \cup {Forever}]
        /\ \A q \in Reader : q # r => pc'[q] = pc[q] /\ got'[q] = got[q]
  <2> SUFFICES ASSUME Return(r)
               PROVE  /\ pc' \in [Reader -> Pc] /\ pc'[r] = "idle"
                      /\ got' \in [Reader -> Seq(Key)] /\ got'[r] = <<>>
                      /\ left' \in [Reader -> Nat \cup {Forever}]
                      /\ \A q \in Reader : q # r => pc'[q] = pc[q] /\ got'[q] = got[q]
    OBVIOUS
  <2>1. /\ pc' = [pc EXCEPT ![r] = "idle"] /\ got' = [got EXCEPT ![r] = <<>>]
        /\ left' = [left EXCEPT ![r] = Forever]
    BY DEF Return
  <2>2. pc' \in [Reader -> Pc] /\ pc'[r] = "idle" /\ \A q \in Reader : q # r => pc'[q] = pc[q]
    BY <1>1, <2>1 DEF Pc
  <2>3. /\ got' \in [Reader -> Seq(Key)] /\ got'[r] = <<>>
        /\ \A q \in Reader : q # r => got'[q] = got[q]
    BY <1>1, <1>3, <2>1
  <2>4. left' \in [Reader -> Nat \cup {Forever}]
    BY <1>1, <2>1
  <2> QED BY <2>2, <2>3, <2>4
<1>7. CASE Read(r)
  <2>1. PICK count \in Counts, timeout \in Timeouts \cup {Forever} :
          /\ room' = [room EXCEPT ![r] = count - 1]
          /\ \/ /\ left' = [left EXCEPT ![r] = timeout]
                /\ pc' = [pc EXCEPT ![r] = "halted"] /\ got' = got
             \/ Return(r)
    BY <1>7 DEF Read
  <2>2. /\ pc[r] = "idle" /\ since' = [since EXCEPT ![r] = pressed]
        /\ clearKeyboardBuffer
        /\ UNCHANGED <<shift, ctrl, release, taken, pressed, ctrlIsDown, released>>
    BY <1>7 DEF Read
  <2>3. count - 1 \in Nat /\ timeout \in Nat \cup {Forever} /\ pressed \in 0 .. pressed
    BY <1>1, SizesAssumption
  <2>4. /\ room' \in [Reader -> Nat] /\ room'[r] \in Nat
        /\ \A q \in Reader : q # r => room'[q] = room[q]
    BY <1>1, <2>1, <2>3
  <2>5. /\ since' \in [Reader -> 0 .. pressed \cup {NULL}] /\ since'[r] # NULL
        /\ \A q \in Reader : q # r => since'[q] = since[q]
    BY <1>1, <2>2, <2>3, NullAssumption
  <2>6. got[r] = <<>>
    BY <2>2 DEF TInv, Calls
  <2>7. /\ pc' \in [Reader -> Pc] /\ pc'[r] \in {"halted", "idle"}
        /\ got' \in [Reader -> Seq(Key)] /\ got'[r] = <<>> /\ left' \in [Reader -> Nat \cup {Forever}]
        /\ \A q \in Reader : q # r => pc'[q] = pc[q] /\ got'[q] = got[q]
    <3>1. CASE /\ left' = [left EXCEPT ![r] = timeout]
               /\ pc' = [pc EXCEPT ![r] = "halted"] /\ got' = got
      <4>1. pc' \in [Reader -> Pc] /\ pc'[r] = "halted" /\ \A q \in Reader : q # r => pc'[q] = pc[q]
        BY <1>1, <3>1 DEF Pc
      <4>2. left' \in [Reader -> Nat \cup {Forever}]
        BY <1>1, <2>3, <3>1
      <4> QED BY <1>1, <2>6, <3>1, <4>1, <4>2
    <3>2. CASE Return(r)
      BY <1>6, <3>2
    <3> QED BY <2>1, <3>1, <3>2
  <2>8. Len(got'[r]) <= room'[r]
    BY <1>3, <2>4, <2>7
  <2> QED BY <1>1, <1>2, <1>4, <2>2, <2>4, <2>5, <2>7, <2>8
<1>8. CASE Poll(r)
  <2>1. /\ pc[r] = "halted"
        /\ \/ /\ GoesOn(r) /\ KeysWaiting /\ pc' = [pc EXCEPT ![r] = "take"]
              /\ got' = got /\ left' = left
           \/ Return(r)
        /\ UNCHANGED <<driver, release, room, since, taken, pressed, ctrlIsDown, released>>
    BY <1>8 DEF Poll
  <2>2. CASE /\ GoesOn(r) /\ KeysWaiting /\ pc' = [pc EXCEPT ![r] = "take"]
             /\ got' = got /\ left' = left
    <3>1. /\ pc' \in [Reader -> Pc] /\ \A q \in Reader : q # r => pc'[q] = pc[q]
          /\ pc'[r] = "take" /\ Len(got[r]) < room[r] /\ buf.count > 0
      BY <1>1, <2>2 DEF Pc, GoesOn, KeysWaiting
    <3>2. Len(got[r]) <= room[r]
      BY DEF TInv, Room
    <3> QED BY <1>1, <1>4, <1>5, <2>1, <2>2, <3>1, <3>2 DEF driver
  <2>3. CASE Return(r)
    <3>1. Len(got'[r]) <= room'[r]
      BY <1>1, <1>3, <1>6, <2>1, <2>3
    <3> QED BY <1>1, <1>4, <1>5, <1>6, <2>1, <2>3, <3>1 DEF driver
  <2> QED BY <2>1, <2>2, <2>3
<1>9. CASE Take(r)
  <2>1. PICK ends \in BOOLEAN :
          got' = [got EXCEPT ![r] = @ \o Copied(r, ends)] /\ taken' = taken \o Copied(r, ends)
    BY <1>9 DEF Take
  <2>2. /\ pc[r] = "take" /\ clearKeyboardBuffer /\ pc' = [pc EXCEPT ![r] = "clear"]
        /\ UNCHANGED <<shift, ctrl, release, room, left, since, pressed, ctrlIsDown, released>>
    BY <1>9 DEF Take
  <2> DEFINE copied == Copied(r, ends)
  <2>3. Len(got[r]) <= room[r] /\ Len(got[r]) < room[r]
    BY <2>2 DEF TInv, Room
  <2>4. /\ copied \in Seq(Key) /\ Len(copied) = Fits(r) /\ Fits(r) \in Nat
        /\ Len(got[r]) + Fits(r) <= room[r] /\ (buf.count > 0 => Fits(r) > 0)
    BY <1>1, <2>3, CopiedMeans
  <2>5. got' = [got EXCEPT ![r] = @ \o copied] /\ taken' = taken \o copied
    BY <2>1
  <2> HIDE DEF copied
  <2>6. /\ got[r] \o copied \in Seq(Key)
        /\ Len(got[r] \o copied) = Len(got[r]) + Fits(r)
        /\ taken \o copied \in Seq(Key)
    <3>1. got[r] \in Seq(Key) /\ taken \in Seq(Key) /\ copied \in Seq(Key) /\ Len(copied) = Fits(r)
      BY <1>1, <2>4
    <3>2. got[r] \o copied \in Seq(Key) /\ Len(got[r] \o copied) = Len(got[r]) + Len(copied)
      BY <3>1, ConcatProperties
    <3>3. taken \o copied \in Seq(Key)
      BY <3>1, ConcatProperties
    <3> QED BY <3>1, <3>2, <3>3
  <2>7. got'[r] = got[r] \o copied /\ \A q \in Reader : q # r => got'[q] = got[q] /\ pc'[q] = pc[q]
    BY <1>1, <2>2, <2>5
  <2>8. got' \in [Reader -> Seq(Key)] /\ pc' \in [Reader -> Pc] /\ pc'[r] = "clear"
    BY <1>1, <2>2, <2>5, <2>6 DEF Pc
  <2>9. FirstReader(r) /\ ~ Overflowed => got'[r] # <<>>
    <3>1. Len(got[r]) \in Nat
      BY <1>1
    <3>2. FirstReader(r) /\ ~ Overflowed => Fits(r) > 0
      BY <2>2, <2>4 DEF TInv, Room
    <3> QED BY <1>3, <2>4, <2>6, <2>7, <3>1, <3>2
  <2>10. Len(got'[r]) <= room'[r]
    BY <2>2, <2>4, <2>6, <2>7
  <2> QED BY <1>1, <1>2, <1>4, <1>5, <2>2, <2>5, <2>6, <2>7, <2>8, <2>9, <2>10
<1>10. CASE Clear(r)
  <2>1. /\ pc[r] = "clear" /\ clearKeyboardBuffer
        /\ \/ pc' = [pc EXCEPT ![r] = "halted"] /\ got' = got /\ left' = left
           \/ Return(r)
        /\ UNCHANGED <<shift, ctrl, release, room, since, taken, pressed, ctrlIsDown, released>>
    BY <1>10 DEF Clear
  <2>2. CASE pc' = [pc EXCEPT ![r] = "halted"] /\ got' = got /\ left' = left
    <3>1. /\ pc' \in [Reader -> Pc] /\ \A q \in Reader : q # r => pc'[q] = pc[q]
          /\ pc'[r] = "halted"
      BY <1>1, <2>2 DEF Pc
    <3>2. Len(got[r]) <= room[r]
      BY DEF TInv, Room
    <3> QED BY <1>1, <1>2, <1>4, <1>5, <2>1, <2>2, <3>1, <3>2
  <2>3. CASE Return(r)
    <3>1. Len(got'[r]) <= room'[r]
      BY <1>1, <1>3, <1>6, <2>1, <2>3
    <3> QED BY <1>1, <1>2, <1>4, <1>5, <1>6, <2>1, <2>3, <3>1
  <2> QED BY <2>1, <2>2, <2>3
<1> QED BY <1>7, <1>8, <1>9, <1>10

\* Every step keeps the types, and the room in the buffers of callers.
LEMMA TypesKept ==
  ASSUME TInv, [Next]_vars
  PROVE  TInv'
<1>1. CASE Tick
  <2>1. /\ left' = TimePassed
        /\ UNCHANGED <<driver, release, pc, got, room, since, taken, pressed, ctrlIsDown, released>>
    BY <1>1 DEF Tick
  <2>2. left' \in [Reader -> Nat \cup {Forever}]
    <3>1. \A r \in Reader : left[r] \in Nat \cup {Forever}
      BY DEF TInv, TypeOK
    <3>2. Forever \notin Int
      BY NullAssumption DEF Forever
    <3>3. \A r \in Reader : (IF left[r] \in {Forever, 0} THEN left[r] ELSE left[r] - 1) \in Nat \cup {Forever}
      BY <3>1, <3>2
    <3> QED BY <2>1, <3>3 DEF TimePassed
  <2>3. TypeOK'
    BY <2>1, <2>2 DEF TInv, TypeOK, driver, release
  <2> QED BY <2>1, <2>3 DEF TInv, Release, Bound, Calls, Room, FirstReader, Overflowed, driver, release
<1>2. CASE UNCHANGED vars
  <2>1. TypeOK'
    BY <1>2 DEF vars, driver, release, callers, TInv, TypeOK, Forever
  <2> QED BY <1>2, <2>1 DEF vars, driver, release, callers, TInv, Release, Bound, Calls, Room,
                            FirstReader, Overflowed
<1> QED BY <1>1, <1>2, PressedTyped, ReleasedTyped, StoringTyped, ReaderTyped DEF Next, Undefined

\* They hold of what the system starts with.
LEMMA TypesAtFirst ==
  ASSUME Init
  PROVE  TInv
<1>1. 0 \in 0 .. MaxKeys /\ 0 \in 0 .. CountMod - 1 /\ BUF_SIZE \in Nat
  BY SizesAssumption
<1>2. buf \in Buffer /\ buf.count = 0 /\ buf.hit = "nothing"
  <2>1. [n |-> 0, ends |-> TRUE] \in Key
    BY <1>1 DEF Key
  <2> QED BY <1>1, <2>1 DEF Init, Buffer
<1>3. <<>> \in Seq(Key) /\ Len(<<>>) = 0
  OBVIOUS
<1>4. TypeOK
  <2>1. /\ pc \in [Reader -> Pc] /\ got \in [Reader -> Seq(Key)] /\ room \in [Reader -> Nat]
        /\ left \in [Reader -> Nat \cup {Forever}] /\ since \in [Reader -> 0 .. pressed \cup {NULL}]
    BY <1>3 DEF Init, Pc, Forever
  <2>2. /\ pressed \in 0 .. MaxKeys /\ taken \in Seq(Key) /\ pending \in Seq(Key)
        /\ loaded \in 0 .. CountMod - 1 \cup {NULL}
    BY <1>1, <1>3 DEF Init
  <2>3. /\ shift \in BOOLEAN /\ ctrl \in BOOLEAN /\ counted \in BOOLEAN
        /\ ctrlIsDown \in BOOLEAN /\ released \in BOOLEAN
    BY DEF Init
  <2> QED BY <1>2, <2>1, <2>2, <2>3 DEF TypeOK, Buffer, Pc
<1>5. Release /\ Bound /\ Calls /\ Room
  BY <1>1, <1>2, <1>3 DEF Init, Release, Bound, Calls, Room
<1> QED BY <1>4, <1>5 DEF TInv

-----------------------------------------------------------------------------
(* The order of keys, until Ctrl is released or the buffer overflows.       *)

InOrder(keys, from, to) ==
  \A i, j \in from .. to :
    /\ i < j => keys[i].n <= keys[j].n
    /\ i + 1 < j => keys[i].n < keys[j].n

\* How many keys had been pressed when the call began, if there was one.
Began(r) == IF since[r] = NULL THEN 0 ELSE since[r]

\* Nothing is half done; the buffer and what was taken are in the order of typing, the buffer
\* after what was taken, and younger than the beginning of every call.
Order ==
  ~ released /\ ~ Overflowed =>
    /\ pending = <<>> /\ ~ counted
    /\ InOrder(buf.keys, 0, buf.count - 1)
    /\ InOrder(taken, 1, Len(taken))
    /\ \A i \in 1 .. Len(taken) : taken[i].n <= pressed
    /\ \A j \in 0 .. buf.count - 1 :
         /\ buf.keys[j].n <= pressed
         /\ \A i \in 1 .. Len(taken) : taken[i].n < buf.keys[j].n
         /\ \A r \in Reader : Began(r) < buf.keys[j].n
    /\ \A r \in Reader : \A i \in 1 .. Len(got[r]) : Began(r) < got[r][i].n

OInv == TInv /\ Order

\* The numbers of keys, and what they are compared with.
LEMMA Numbers ==
  ASSUME TypeOK
  PROVE  /\ buf \in Buffer /\ buf.count \in Nat /\ pressed \in Nat /\ BUF_SIZE \in Nat
         /\ \A j \in 0 .. BUF_SIZE - 1 : buf.keys[j].n \in Nat
         /\ taken \in Seq(Key) /\ \A i \in 1 .. Len(taken) : taken[i].n \in Nat
         /\ \A r \in Reader : Began(r) \in Nat /\ Began(r) <= pressed
<1>1. \A key \in Key : key.n \in Nat
  BY SizesAssumption DEF Key
<1>2. /\ buf \in Buffer /\ buf.count \in 0 .. CountMod - 1 /\ buf.keys \in [0 .. BUF_SIZE - 1 -> Key]
      /\ BUF_SIZE \in Nat /\ pressed \in 0 .. MaxKeys /\ taken \in Seq(Key)
      /\ since \in [Reader -> 0 .. pressed \cup {NULL}]
  BY SizesAssumption DEF TypeOK, Buffer
<1>3. pressed \in Nat /\ \A r \in Reader : Began(r) \in Nat /\ Began(r) <= pressed
  BY <1>2, SizesAssumption DEF Began
<1>4. \A i \in 1 .. Len(taken) : taken[i] \in Key
  BY <1>2
<1> QED BY <1>1, <1>2, <1>3, <1>4

\* A key is younger than all that there are.
LEMMA OrderPressed ==
  ASSUME OInv, KeyPressed
  PROVE  Order'
<1>1. /\ buf \in Buffer /\ buf.count \in Nat /\ pressed \in Nat /\ BUF_SIZE \in Nat
      /\ \A j \in 0 .. BUF_SIZE - 1 : buf.keys[j].n \in Nat
      /\ taken \in Seq(Key) /\ \A i \in 1 .. Len(taken) : taken[i].n \in Nat
      /\ \A r \in Reader : Began(r) \in Nat /\ Began(r) <= pressed
      /\ TypeOK
  BY Numbers DEF OInv, TInv
<1>2. pending = <<>> /\ pressed < MaxKeys
  BY <1>1, PressedMeans
<1>3. PICK c \in Codes, byte \in Bytes, keys \in Seq(Key) :
        /\ Modifiers(c) /\ Len(keys) <= 2
        /\ \A i \in 1 .. Len(keys) : keys[i].n = pressed + 1
        /\ buf' = PutAll(buf, keys, byte)
  BY <1>1, PressedMeans
<1>4. pressed' = pressed + 1 /\ UNCHANGED <<pending, counted, got, since, taken, released>>
  BY <1>3 DEF KeyPressed, Modifiers, release
<1> SUFFICES ASSUME ~ released, ~ Overflowed'
             PROVE  Order'
  BY <1>4 DEF Order
<1>5. /\ ~ Overflowed
      /\ (buf.count <= BUF_SIZE => buf.count + Len(keys) <= BUF_SIZE)
      /\ buf'.count = buf.count + Len(keys)
      /\ \A i \in 0 .. BUF_SIZE - 1 : i < buf.count => buf'.keys[i] = buf.keys[i]
      /\ \A i \in 0 .. BUF_SIZE - 1 : i >= buf.count /\ i < buf.count + Len(keys) =>
           buf'.keys[i] = keys[(i - buf.count) + 1] /\ (i - buf.count) + 1 \in 1 .. Len(keys)
  BY <1>1, <1>3, PutAllMeans DEF Overflowed
<1>6. /\ ~ counted /\ InOrder(buf.keys, 0, buf.count - 1) /\ InOrder(taken, 1, Len(taken))
      /\ \A i \in 1 .. Len(taken) : taken[i].n <= pressed
      /\ \A j \in 0 .. buf.count - 1 :
           /\ buf.keys[j].n <= pressed
           /\ \A i \in 1 .. Len(taken) : taken[i].n < buf.keys[j].n
           /\ \A r \in Reader : Began(r) < buf.keys[j].n
      /\ \A r \in Reader : \A i \in 1 .. Len(got[r]) : Began(r) < got[r][i].n
  BY <1>5 DEF OInv, Order
<1>7. buf.count <= BUF_SIZE
  BY <1>5, <1>6 DEF OInv, TInv, Bound
<1>8. ASSUME NEW i \in 1 .. Len(taken)
      PROVE  taken[i].n <= pressed + 1
  <2>1. taken[i].n \in Nat /\ taken[i].n <= pressed /\ pressed \in Nat
    BY <1>1, <1>6, Zenon
  <2> QED BY <2>1
<1>9. Order'
  <2> DEFINE n == buf.count + Len(keys)
             k == buf'.keys
  <2>1. Len(keys) \in Nat
    BY <1>3
  <2>2. /\ buf'.count = n
        /\ \A i \in 0 .. BUF_SIZE - 1 : i < buf.count => k[i] = buf.keys[i]
        /\ \A i \in 0 .. BUF_SIZE - 1 : i >= buf.count /\ i < n =>
             k[i] = keys[(i - buf.count) + 1] /\ (i - buf.count) + 1 \in 1 .. Len(keys)
    BY <1>5
  <2>3. n \in Nat /\ n <= BUF_SIZE /\ n <= buf.count + 2
    BY <1>1, <1>3, <1>5, <1>7, <2>1
  <2> HIDE DEF n, k
  <2>4. \A i \in 0 .. n - 1 : i \in 0 .. BUF_SIZE - 1 /\ i < n
    BY <1>1, <2>3
  <2>5. \A i \in 0 .. n - 1 : i < buf.count => k[i] = buf.keys[i] /\ i \in 0 .. buf.count - 1
    BY <1>1, <2>2, <2>4
  <2>6. \A i \in 0 .. n - 1 : i >= buf.count => k[i].n = pressed + 1
    BY <1>3, <2>2, <2>4
  <2>7. \A i \in 0 .. n - 1 : k[i].n \in Nat /\ k[i].n <= pressed + 1
                           /\ (i < buf.count => k[i].n <= pressed)
    BY <1>1, <1>6, <2>4, <2>5, <2>6
  <2>8. InOrder(k, 0, n - 1)
    <3> SUFFICES ASSUME NEW i \in 0 .. n - 1, NEW j \in 0 .. n - 1
                 PROVE  /\ i < j => k[i].n <= k[j].n
                        /\ i + 1 < j => k[i].n < k[j].n
      BY DEF InOrder
    <3>1. CASE j < buf.count
      <4>1. i < j => i < buf.count
        BY <1>1, <2>3, <3>1
      <4>2. i + 1 < j => i < j
        BY <2>3
      <4> QED BY <1>6, <2>5, <3>1, <4>1, <4>2 DEF InOrder
    <3>2. CASE ~ j < buf.count
      <4>1. k[j].n = pressed + 1
        BY <1>1, <2>3, <2>6, <3>2
      <4>2. i + 1 < j => i < buf.count
        BY <1>1, <2>3
      <4> QED BY <1>1, <2>7, <4>1, <4>2
    <3> QED BY <3>1, <3>2
  <2>9. \A j \in 0 .. n - 1 :
          /\ k[j].n <= pressed + 1
          /\ \A i \in 1 .. Len(taken) : taken[i].n < k[j].n
          /\ \A r \in Reader : Began(r) < k[j].n
    <3> SUFFICES ASSUME NEW j \in 0 .. n - 1
                 PROVE  /\ \A i \in 1 .. Len(taken) : taken[i].n < k[j].n
                        /\ \A r \in Reader : Began(r) < k[j].n
      BY <2>7
    <3>1. CASE j < buf.count
      BY <1>6, <2>5, <3>1
    <3>2. CASE ~ j < buf.count
      <4>1. k[j].n = pressed + 1
        BY <1>1, <2>3, <2>6, <3>2
      <4> QED BY <1>1, <1>6, <4>1
    <3> QED BY <3>1, <3>2
  <2> QED BY <1>2, <1>4, <1>6, <1>8, <2>2, <2>8, <2>9 DEF Order, Began, k
<1> QED BY <1>9

\* With the buffer empty only what readers have is left to say.
LEMMA OrderEmptied ==
  ASSUME buf'.count = 0, buf'.hit = buf.hit,
         UNCHANGED <<pending, counted, pressed, released>>,
         ~ released /\ ~ Overflowed => pending = <<>> /\ ~ counted,
         ~ released /\ ~ Overflowed => InOrder(taken, 1, Len(taken))',
         ~ released /\ ~ Overflowed => (\A i \in 1 .. Len(taken) : taken[i].n <= pressed)',
         ~ released /\ ~ Overflowed =>
           (\A r \in Reader : \A i \in 1 .. Len(got[r]) : Began(r) < got[r][i].n)'
  PROVE  Order'
<1>1. 0 .. buf'.count - 1 = {}
  OBVIOUS
<1>2. InOrder(buf.keys, 0, buf.count - 1)'
  BY <1>1 DEF InOrder
<1> QED BY <1>1, <1>2 DEF Order, Overflowed

\* Who takes keys takes the oldest, in their order, and leaves none behind.
LEMMA OrderTaken ==
  ASSUME OInv, NEW r \in Reader, Take(r)
  PROVE  Order'
<1>1. PICK ends \in BOOLEAN :
        got' = [got EXCEPT ![r] = @ \o Copied(r, ends)] /\ taken' = taken \o Copied(r, ends)
  BY DEF Take
<1>a. clearKeyboardBuffer /\ UNCHANGED <<since, pressed, released, pending, counted>>
  BY DEF Take, release
<1>2. /\ TypeOK /\ got \in [Reader -> Seq(Key)] /\ got[r] \in Seq(Key) /\ taken \in Seq(Key)
      /\ Len(got[r]) \in Nat /\ Len(taken) \in Nat
  BY DEF OInv, TInv, TypeOK
<1>3. Len(got[r]) <= room[r]
  BY DEF OInv, TInv, Room
<1> DEFINE n == Fits(r)
           copied == Copied(r, ends)
<1>4. /\ copied \in Seq(Key) /\ Len(copied) = n /\ n \in Nat /\ n <= buf.count
      /\ \A i \in 1 .. n : i <= BUF_SIZE => copied[i] = buf.keys[i - 1]
  BY <1>2, <1>3, CopiedMeans
<1> HIDE DEF n, copied
<1>5. buf'.count = 0 /\ buf'.hit = buf.hit
  <2>1. buf \in Buffer
    BY <1>2 DEF TypeOK, Buffer
  <2> QED BY <1>a, <2>1 DEF clearKeyboardBuffer, Buffer
<1> SUFFICES ASSUME ~ released, ~ Overflowed
             PROVE  /\ pending = <<>> /\ ~ counted
                    /\ InOrder(taken', 1, Len(taken'))
                    /\ \A i \in 1 .. Len(taken') : taken'[i].n <= pressed
                    /\ \A q \in Reader : \A i \in 1 .. Len(got'[q]) : Began(q) < got'[q][i].n
  BY <1>a, <1>5, OrderEmptied DEF InOrder, Began
<1>6. /\ pending = <<>> /\ ~ counted
      /\ InOrder(buf.keys, 0, buf.count - 1) /\ InOrder(taken, 1, Len(taken))
      /\ \A i \in 1 .. Len(taken) : taken[i].n <= pressed
      /\ \A j \in 0 .. buf.count - 1 :
           /\ buf.keys[j].n <= pressed
           /\ \A i \in 1 .. Len(taken) : taken[i].n < buf.keys[j].n
           /\ \A q \in Reader : Began(q) < buf.keys[j].n
      /\ \A q \in Reader : \A i \in 1 .. Len(got[q]) : Began(q) < got[q][i].n
  BY DEF OInv, Order
<1>7. buf.count \in Nat /\ buf.count <= BUF_SIZE /\ BUF_SIZE \in Nat
  BY <1>2, <1>6, Numbers DEF OInv, TInv, Bound
<1>8. \A i \in 1 .. n : i - 1 \in 0 .. buf.count - 1 /\ copied[i].n = buf.keys[i - 1].n
  BY <1>4, <1>7
<1> DEFINE m == Len(taken)
           all == taken \o copied
<1>9. /\ Len(all) = m + n
      /\ \A i \in 1 .. m + n : all[i] = IF i <= m THEN taken[i] ELSE copied[i - m]
  BY <1>2, <1>4, ConcatProperties
<1>10. taken' = all
  BY <1>1 DEF copied
<1>11. m \in Nat
  BY <1>2
<1> HIDE DEF m, all
<1>12. \A i \in 1 .. m + n :
         /\ i <= m => all[i] = taken[i] /\ i \in 1 .. m
         /\ ~ i <= m => all[i] = copied[i - m] /\ i - m \in 1 .. n
  BY <1>4, <1>9, <1>11
<1>13. InOrder(all, 1, m + n)
  <2> SUFFICES ASSUME NEW i \in 1 .. m + n, NEW j \in 1 .. m + n
               PROVE  /\ i < j => all[i].n <= all[j].n
                      /\ i + 1 < j => all[i].n < all[j].n
    BY DEF InOrder
  <2>1. CASE i <= m /\ j <= m
    BY <1>6, <1>12, <2>1 DEF InOrder, m
  <2>2. CASE i <= m /\ ~ j <= m
    <3>1. all[i] = taken[i] /\ i \in 1 .. m /\ all[j].n = copied[j - m].n /\ j - m \in 1 .. n
      BY <1>12, <2>2
    <3>2. taken[i].n < copied[j - m].n
      BY <1>6, <1>8, <3>1 DEF m
    <3>3. taken[i].n \in Nat /\ copied[j - m].n \in Nat
      <4>1. copied[j - m] \in Key
        BY <1>4, <3>1
      <4> QED BY <1>2, <3>1, <4>1, Numbers, SizesAssumption DEF Key, m
    <3> QED BY <3>1, <3>2, <3>3
  <2>3. CASE ~ i <= m
    <3>1. i < j => ~ j <= m
      BY <1>4, <1>11, <2>3
    <3>2. i + 1 < j => i < j
      BY <1>4, <1>11
    <3> SUFFICES ASSUME ~ j <= m
                 PROVE  /\ i < j => all[i].n <= all[j].n
                        /\ i + 1 < j => all[i].n < all[j].n
      BY <3>1, <3>2
    <3> DEFINE a == (i - m) - 1
               b == (j - m) - 1
    <3>3. all[i].n = buf.keys[a].n /\ all[j].n = buf.keys[b].n
      BY <1>8, <1>12, <2>3
    <3>4. a \in 0 .. buf.count - 1 /\ b \in 0 .. buf.count - 1
      BY <1>8, <1>12, <2>3
    <3>5. (i < j => a < b) /\ (i + 1 < j => a + 1 < b)
      BY <1>4, <1>11
    <3> HIDE DEF a, b
    <3> QED BY <1>6, <3>3, <3>4, <3>5 DEF InOrder
  <2> QED BY <2>1, <2>2, <2>3
<1>14. \A i \in 1 .. m + n : all[i].n <= pressed
  BY <1>6, <1>8, <1>12, SMTT(30) DEF m
<1>15. ASSUME NEW q \in Reader
       PROVE  \A i \in 1 .. Len(got'[q]) : Began(q) < got'[q][i].n
  <2>1. CASE q # r
    BY <1>1, <1>2, <1>6, <2>1
  <2>2. CASE q = r
    <3> DEFINE g == got[r] \o copied
               k == Len(got[r])
    <3>1. got'[r] = g
      BY <1>1, <1>2 DEF copied
    <3>2. /\ Len(g) = k + n
          /\ \A i \in 1 .. k + n : g[i] = IF i <= k THEN got[r][i] ELSE copied[i - k]
      BY <1>2, <1>4, ConcatProperties
    <3>3. k \in Nat
      BY <1>2
    <3> HIDE DEF g
    <3>4. \A i \in 1 .. k + n : Began(r) < g[i].n
      <4> SUFFICES ASSUME NEW i \in 1 .. k + n
                   PROVE  Began(r) < g[i].n
        OBVIOUS
      <4>1. CASE i <= k
        BY <1>6, <3>2, <3>3, <4>1
      <4>2. CASE ~ i <= k
        <5>1. g[i] = copied[i - k] /\ i - k \in 1 .. n
          BY <1>4, <3>2, <3>3, <4>2
        <5> QED BY <1>6, <1>8, <5>1
      <4> QED BY <4>1, <4>2
    <3> QED BY <2>2, <3>1, <3>2, <3>4
  <2> QED BY <2>1, <2>2
<1> QED BY <1>6, <1>9, <1>10, <1>13, <1>14, <1>15

\* Every step keeps the order.
LEMMA OrderKept ==
  ASSUME OInv, [Next]_vars
  PROVE  OInv'
<1>1. TInv'
  BY TypesKept DEF OInv
<1> SUFFICES Order'
  BY <1>1 DEF OInv
<1>2. /\ buf \in Buffer /\ TypeOK /\ got \in [Reader -> Seq(Key)] /\ since \in [Reader -> 0 .. pressed \cup {NULL}]
  BY DEF OInv, TInv, TypeOK, Buffer
<1>3. clearKeyboardBuffer => buf'.count = 0 /\ buf'.hit = buf.hit
  BY <1>2 DEF clearKeyboardBuffer, Buffer
<1>4. CASE KeyPressed
  BY <1>4, OrderPressed
<1>5. CASE CtrlReleased
  BY <1>5 DEF CtrlReleased, Order
<1>6. CASE LoadCount \/ StoreCount \/ StoreKey
  <2>1. released' = released /\ (released \/ Overflowed)
    BY <1>6 DEF LoadCount, StoreCount, StoreKey, OInv, Order
  <2>2. ~ Overflowed' => ~ Overflowed
    <3>1. LoadCount => buf' = buf
      BY DEF LoadCount, driver
    <3>2. StoreCount => buf'.hit = buf.hit
      <4>1. StoreCount => buf' = [buf EXCEPT !.count = NextCount(loaded)]
        BY DEF StoreCount
      <4> QED BY <1>2, <4>1 DEF Buffer
    <3>3. ASSUME StoreKey
          PROVE  buf'.hit = "nothing" => buf.hit = "nothing"
      <4>1. PICK byte \in Bytes : buf' = StoreAt(buf, loaded, Head(pending), byte)
        BY <3>3 DEF StoreKey
      <4>2. loaded \in 0 .. CountMod - 1 /\ Head(pending) \in Key
        <5>1. counted /\ pending # <<>> /\ loaded # NULL
          BY <3>3 DEF StoreKey, OInv, TInv, Release
        <5>2. pending \in Seq(Key) /\ loaded \in 0 .. CountMod - 1 \cup {NULL}
          BY DEF OInv, TInv, TypeOK
        <5> QED BY <5>1, <5>2
      <4> DEFINE stored == StoreAt(buf, loaded, Head(pending), byte)
      <4>3. stored.hit = "nothing" => buf.hit = "nothing"
        <5> DEFINE head == Head(pending)
        <5>1. buf \in Buffer /\ loaded \in 0 .. CountMod - 1 /\ head \in Key /\ byte \in Bytes
          BY <1>2, <4>2
        <5> HIDE DEF head
        <5>2. StoreAt(buf, loaded, head, byte).hit = "nothing" => buf.hit = "nothing"
          BY <5>1, StoreAtKeeps
        <5> QED BY <5>2 DEF head
      <4>4. buf' = stored
        BY <4>1
      <4> HIDE DEF stored
      <4> QED BY <4>3, <4>4
    <3> QED BY <1>6, <3>1, <3>2, <3>3 DEF Overflowed
  <2> QED BY <2>1, <2>2 DEF Order
<1>7. ASSUME NEW r \in Reader, Read(r)
      PROVE  Order'
  <2>1. /\ since' = [since EXCEPT ![r] = pressed] /\ clearKeyboardBuffer
        /\ UNCHANGED <<pending, counted, taken, pressed, released>>
    BY <1>7 DEF Read, release
  <2>2. got[r] = <<>> /\ (got' = got \/ got' = [got EXCEPT ![r] = <<>>])
    BY <1>7 DEF Read, Return, OInv, TInv, Calls
  <2>3. \A q \in Reader : got'[q] = got[q]
    BY <1>2, <2>2
  <2>4. ~ released /\ ~ Overflowed =>
          (\A q \in Reader : \A i \in 1 .. Len(got[q]) : Began(q) < got[q][i].n)'
    <3> SUFFICES ASSUME ~ released, ~ Overflowed, NEW q \in Reader, NEW i \in 1 .. Len(got'[q])
                 PROVE  Began(q)' < got'[q][i].n
      OBVIOUS
    <3>1. CASE q = r
      <4>1. got'[q] = <<>> /\ Len(<<>>) = 0
        BY <2>2, <2>3, <3>1
      <4>2. FALSE
        BY <4>1
      <4> QED BY <4>2
    <3>2. CASE q # r
      <4>1. since'[q] = since[q]
        BY <1>2, <2>1, <3>2
      <4>2. Began(q)' = Began(q) /\ got'[q] = got[q]
        BY <2>3, <4>1 DEF Began
      <4> QED BY <4>2 DEF OInv, Order
    <3> QED BY <3>1, <3>2
  <2> QED BY <1>3, <2>1, <2>4, OrderEmptied DEF OInv, Order
\* The call of r is over.
<1>a. ASSUME NEW r \in Reader, got' = got \/ got' = [got EXCEPT ![r] = <<>>], since' = since
      PROVE  ~ released /\ ~ Overflowed =>
               (\A q \in Reader : \A i \in 1 .. Len(got[q]) : Began(q) < got[q][i].n)'
  <2> SUFFICES ASSUME ~ released, ~ Overflowed, NEW q \in Reader, NEW i \in 1 .. Len(got'[q])
               PROVE  Began(q) < got'[q][i].n
    BY <1>a DEF Began
  <2>1. got'[q] = got[q] \/ got'[q] = <<>>
    BY <1>2, <1>a
  <2>2. got'[q] # <<>>
    <3>1. Len(<<>>) = 0
      OBVIOUS
    <3> QED BY <3>1
  <2> QED BY <2>1, <2>2 DEF OInv, Order
<1>8. ASSUME NEW r \in Reader, Clear(r)
      PROVE  Order'
  <2>1. /\ clearKeyboardBuffer /\ UNCHANGED <<pending, counted, since, taken, pressed, released>>
        /\ got' = got \/ got' = [got EXCEPT ![r] = <<>>]
    BY <1>8 DEF Clear, Return, release
  <2>2. ~ released /\ ~ Overflowed =>
          (\A q \in Reader : \A i \in 1 .. Len(got[q]) : Began(q) < got[q][i].n)'
    BY <1>a, <2>1
  <2> QED BY <1>3, <2>1, <2>2, OrderEmptied DEF OInv, Order
<1>9. ASSUME UNCHANGED <<buf, pending, counted, got, since, taken, pressed, released>>
      PROVE  Order'
  BY <1>9 DEF OInv, Order, Began, Overflowed
<1>10. ASSUME NEW r \in Reader, Poll(r)
       PROVE  Order'
  <2>1. /\ UNCHANGED <<buf, pending, counted, since, taken, pressed, released>>
        /\ got' = got \/ got' = [got EXCEPT ![r] = <<>>]
    BY <1>10 DEF Poll, Return, driver, release
  <2>2. ~ released /\ ~ Overflowed =>
          (\A q \in Reader : \A i \in 1 .. Len(got[q]) : Began(q) < got[q][i].n)'
    BY <1>a, <2>1
  <2> QED BY <2>1, <2>2 DEF OInv, Order, Began, Overflowed
<1>11. CASE Tick
  BY <1>9, <1>11 DEF Tick, driver, release
<1>12. CASE UNCHANGED vars
  BY <1>9, <1>12 DEF vars, driver, release, callers
<1> QED BY <1>4, <1>5, <1>6, <1>7, <1>8, <1>10, <1>11, <1>12, OrderTaken DEF Next, Undefined

\* At first there is no key anywhere, and so nothing out of order.
LEMMA OrderAtFirst ==
  ASSUME Init
  PROVE  OInv
<1>1. Len(<<>>) = 0
  OBVIOUS
<1>2. buf.count = 0 /\ taken = <<>> /\ pending = <<>> /\ counted = FALSE
      /\ \A r \in Reader : got[r] = <<>>
  BY DEF Init
<1> QED BY <1>1, <1>2, TypesAtFirst DEF OInv, Order, InOrder

-----------------------------------------------------------------------------

\* Types, room and order hold in every state of every behaviour.
LEMMA Invariant == Spec => []OInv
<1>1. Init => OInv
  BY OrderAtFirst
<1>2. OInv /\ [Next]_vars => OInv'
  BY OrderKept
<1> QED BY <1>1, <1>2, PTL DEF Spec

\* The state is well typed, and until Ctrl is released or the buffer overflows, keys reach
\* readers in the order of typing, each one of them at most once.
THEOREM KeysInOrder == Spec => []InOrderOnce
<1>1. OInv => InOrderOnce
  <2> SUFFICES ASSUME OInv
               PROVE  InOrderOnce
    OBVIOUS
  <2>1. DOMAIN taken = 1 .. Len(taken)
    BY DEF OInv, TInv, TypeOK
  <2> QED BY <2>1 DEF OInv, TInv, Order, InOrder, InOrderOnce
<1> QED BY <1>1, Invariant, PTL

\* Until Ctrl is released or the buffer overflows, no call returns a key that was typed
\* before it began.
THEOREM KeysAreFresh == Spec => []OnlyFreshKeys
<1>1. OInv => OnlyFreshKeys
  <2> SUFFICES ASSUME OInv
               PROVE  OnlyFreshKeys
    OBVIOUS
  <2>1. /\ \A r \in Reader : DOMAIN got[r] = 1 .. Len(got[r])
        /\ \A r \in Reader : \A i \in 1 .. Len(got[r]) : got[r][i].n \in Nat
    <3>1. \A r \in Reader : got[r] \in Seq(Key)
      BY DEF OInv, TInv, TypeOK
    <3>2. \A r \in Reader : \A i \in 1 .. Len(got[r]) : got[r][i] \in Key
      BY <3>1
    <3> QED BY <3>1, <3>2, SizesAssumption DEF Key
  <2>2. ASSUME NEW r \in Reader, NEW i \in 1 .. Len(got[r])
        PROVE  since[r] # NULL /\ Began(r) = since[r] /\ Began(r) \in Nat
    <3>1. got[r] # <<>>
      <4>1. Len(<<>>) = 0
        OBVIOUS
      <4> QED BY <2>2, <4>1
    <3>2. since[r] # NULL
      BY <3>1 DEF OInv, TInv, Calls
    <3> QED BY <3>2, Numbers DEF OInv, TInv, Began
  <2>3. ~ released /\ ~ Overflowed =>
          \A r \in Reader : \A i \in 1 .. Len(got[r]) : Began(r) < got[r][i].n
    BY DEF OInv, Order
  <2> QED BY <2>1, <2>2, <2>3 DEF OnlyFreshKeys
<1> QED BY <1>1, Invariant, PTL

\* No caller's buffer is filled past the 0 at its end, whatever count has become; until it
\* overflows the first reader never looks in front of its buffer, even when Ctrl is
\* released while it reads.
THEOREM CallersKept == Spec => []StaysInBuffer
<1>1. OInv => StaysInBuffer
  BY DEF OInv, TInv, Room, StaysInBuffer
<1> QED BY <1>1, Invariant, PTL
===============================================================================
