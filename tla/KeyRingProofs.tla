--------------------------- MODULE KeyRingProofs ---------------------------
(***************************************************************************)
(* The ring of KeyRing implements the FIFO of KeyFifo for every size of    *)
(* the buffer and every set of keys.                                       *)
(***************************************************************************)
EXTENDS KeyRing, TLAPS

\* The remainder of a number within one turn of the ring on either side.
LEMMA OneTurn ==
  ASSUME NEW n \in Nat, n > 0, NEW a \in Int, -n <= a, a < 2 * n
  PROVE  a % n = IF a < 0 THEN a + n ELSE IF a < n THEN a ELSE a - n
  <1>1. CASE a < 0
    <2>1. (a + n) \in 0 .. n - 1
      BY <1>1
    <2> QED BY <2>1, <1>1
  <1>2. CASE a >= 0 /\ a < n
    BY <1>2
  <1>3. CASE a >= n
    <2>1. (a - n) \in 0 .. n - 1
      BY <1>3
    <2> QED BY <2>1, <1>3
  <1> QED BY <1>1, <1>2, <1>3

\* The slot of the i-th key of a ring whose head is h.
LEMMA SlotOf ==
  ASSUME NEW h \in Slots, NEW i \in Int, 1 <= i, i <= KEYPAD_EFI_KEY_MAX_COUNT
  PROVE  (h + i - 1) % KEYPAD_EFI_KEY_MAX_COUNT
           = IF h + i - 1 < KEYPAD_EFI_KEY_MAX_COUNT THEN h + i - 1
             ELSE h + i - 1 - KEYPAD_EFI_KEY_MAX_COUNT
  <1> DEFINE a == h + i - 1
  <1>1. a \in Int /\ 0 <= a /\ a < 2 * KEYPAD_EFI_KEY_MAX_COUNT
    BY SizeAssumption DEF Slots
  <1> HIDE DEF a
  <1>2. a % KEYPAD_EFI_KEY_MAX_COUNT
          = IF a < KEYPAD_EFI_KEY_MAX_COUNT THEN a ELSE a - KEYPAD_EFI_KEY_MAX_COUNT
    <2>1. KEYPAD_EFI_KEY_MAX_COUNT \in Nat /\ KEYPAD_EFI_KEY_MAX_COUNT > 0
          /\ -KEYPAD_EFI_KEY_MAX_COUNT <= a
      BY <1>1, SizeAssumption
    <2> QED BY <1>1, <2>1, OneTurn
  <1> QED BY <1>2, SizeAssumption DEF a, Slots

\* Advancing an index wraps to 0 exactly at the last slot.
LEMMA NextSlotWraps ==
  ASSUME NEW i \in Slots
  PROVE  NextSlot(i) = IF i = KEYPAD_EFI_KEY_MAX_COUNT - 1 THEN 0 ELSE i + 1
  BY SizeAssumption DEF Slots, NextSlot

\* Popping keeps a queue a queue and yields a key.
LEMMA PopTyping ==
  ASSUME NEW q \in EFI_KEY_QUEUE
  PROVE  /\ NextSlot(q.Head) \in Slots /\ NextSlot(q.Tail) \in Slots
         /\ PopEfikeyBufHead(q) \in EFI_KEY_QUEUE
         /\ AtHead(q) \in Key
  <1>1. NextSlot(q.Head) \in Slots /\ NextSlot(q.Tail) \in Slots
    BY SizeAssumption DEF EFI_KEY_QUEUE, Slots, NextSlot
  <1> QED BY <1>1 DEF EFI_KEY_QUEUE, PopEfikeyBufHead, AtHead

\* Pushing keeps a queue a queue.
LEMMA PushTyping ==
  ASSUME NEW q \in EFI_KEY_QUEUE, NEW k \in Key
  PROVE  PushEfikeyBufTail(q, k) \in EFI_KEY_QUEUE
  <1> DEFINE room == IF NextSlot(q.Tail) = q.Head THEN PopEfikeyBufHead(q) ELSE q
  <1>1. room \in EFI_KEY_QUEUE
    BY PopTyping
  <1>2. q.Tail \in Slots /\ NextSlot(q.Tail) \in Slots
    BY PopTyping DEF EFI_KEY_QUEUE
  <1> HIDE DEF room
  <1>3. [room EXCEPT !.Buffer[q.Tail] = k, !.Tail = NextSlot(q.Tail)] \in EFI_KEY_QUEUE
    BY <1>1, <1>2 DEF EFI_KEY_QUEUE
  <1> QED BY <1>3 DEF room, PushEfikeyBufTail

\* The indices of the ring stay inside its buffer (Keypad.h, EFI_KEY_QUEUE).
THEOREM RingTypeOK == Spec => []TypeOK
  <1>1. Init => TypeOK
    BY SizeAssumption, KeyAssumption DEF Init, TypeOK, EFI_KEY_QUEUE, Slots
  <1>2. TypeOK /\ [Next]_vars => TypeOK'
    <2> SUFFICES ASSUME TypeOK, [Next]_vars PROVE TypeOK'
      OBVIOUS
    <2> USE DEF TypeOK
    <2>1. CASE \E k \in Key : Push(k)
      BY <2>1, PushTyping DEF Push
    <2>2. CASE Pop
      BY <2>2, PopTyping DEF Pop
    <2>3. CASE WaitSkip
      BY <2>3, PopTyping DEF WaitSkip
    <2>4. CASE WaitSignal
      BY <2>4, PopTyping DEF WaitSignal
    <2>5. CASE Reset
      <3>1. 0 \in Slots
        BY SizeAssumption DEF Slots
      <3> QED BY <2>5, <3>1 DEF Reset, EFI_KEY_QUEUE
    <2>6. CASE UNCHANGED vars
      BY <2>6 DEF vars
    <2> QED BY <2>1, <2>2, <2>3, <2>4, <2>5, <2>6 DEF Next
  <1> QED BY <1>1, <1>2, PTL DEF Spec

\* The number of keys is the distance from Head to Tail around the ring.
LEMMA CountValue ==
  ASSUME NEW q \in EFI_KEY_QUEUE
  PROVE  /\ Count(q) \in Slots
         /\ Count(q) = IF q.Head <= q.Tail THEN q.Tail - q.Head
                       ELSE q.Tail - q.Head + KEYPAD_EFI_KEY_MAX_COUNT
         /\ Count(q) = 0 <=> IsEfikeyBufEmpty(q)
         /\ Count(q) = KEYPAD_EFI_KEY_MAX_COUNT - 1 <=> NextSlot(q.Tail) = q.Head
  <1> DEFINE N == KEYPAD_EFI_KEY_MAX_COUNT
  <1>1. q.Head \in 0 .. N - 1 /\ q.Tail \in 0 .. N - 1 /\ N \in Nat \ {0}
    BY SizeAssumption DEF EFI_KEY_QUEUE, Slots
  <1>2. Count(q) = IF q.Head <= q.Tail THEN q.Tail - q.Head ELSE q.Tail - q.Head + N
    <2>1. (q.Tail - q.Head) \in Int /\ -N <= q.Tail - q.Head /\ q.Tail - q.Head < N
      BY <1>1
    <2>2. (q.Tail - q.Head) % N
            = IF q.Tail - q.Head < 0 THEN q.Tail - q.Head + N ELSE q.Tail - q.Head
      BY <1>1, <2>1, OneTurn
    <2> QED BY <1>1, <2>2 DEF Count
  <1>3. NextSlot(q.Tail) = IF q.Tail = N - 1 THEN 0 ELSE q.Tail + 1
    BY NextSlotWraps DEF EFI_KEY_QUEUE
  <1> QED BY <1>1, <1>2, <1>3 DEF Slots, IsEfikeyBufEmpty

\* The contents of a ring are a sequence of as many keys.
LEMMA ContentsTyping ==
  ASSUME NEW q \in EFI_KEY_QUEUE
  PROVE  /\ Contents(q) \in Seq(Key)
         /\ Len(Contents(q)) = Count(q)
         /\ \A i \in 1 .. Count(q) :
              /\ (q.Head + i - 1) % KEYPAD_EFI_KEY_MAX_COUNT \in Slots
              /\ Contents(q)[i] = q.Buffer[(q.Head + i - 1) % KEYPAD_EFI_KEY_MAX_COUNT]
  <1>1. Count(q) \in Nat
    BY CountValue DEF Slots
  <1>2. \A i \in 1 .. Count(q) : (q.Head + i - 1) % KEYPAD_EFI_KEY_MAX_COUNT \in Slots
    BY <1>1, SizeAssumption DEF EFI_KEY_QUEUE, Slots
  <1>3. \A i \in 1 .. Count(q) :
           q.Buffer[(q.Head + i - 1) % KEYPAD_EFI_KEY_MAX_COUNT] \in Key
    BY <1>2 DEF EFI_KEY_QUEUE
  <1> QED BY <1>1, <1>2, <1>3 DEF Contents

\* Popping a ring that is not empty takes the head off its contents.
LEMMA PopContents ==
  ASSUME NEW q \in EFI_KEY_QUEUE, ~IsEfikeyBufEmpty(q)
  PROVE  /\ Contents(q) # << >>
         /\ AtHead(q) = Head(Contents(q))
         /\ Contents(PopEfikeyBufHead(q)) = Tail(Contents(q))
  <1> DEFINE r == PopEfikeyBufHead(q)
             N == KEYPAD_EFI_KEY_MAX_COUNT
  <1>1. r \in EFI_KEY_QUEUE /\ r.Buffer = q.Buffer /\ r.Tail = q.Tail
        /\ r.Head = IF q.Head = N - 1 THEN 0 ELSE q.Head + 1
    <2>1. NextSlot(q.Head) = IF q.Head = N - 1 THEN 0 ELSE q.Head + 1
      BY NextSlotWraps DEF EFI_KEY_QUEUE
    <2> QED BY <2>1, SizeAssumption DEF EFI_KEY_QUEUE, PopEfikeyBufHead, Slots
  <1> HIDE DEF r
  <1>2. Count(q) \in Nat /\ Count(q) > 0 /\ Count(r) = Count(q) - 1
    <2>1. q.Head \in 0 .. N - 1 /\ q.Tail \in 0 .. N - 1 /\ q.Head # q.Tail
      BY DEF EFI_KEY_QUEUE, Slots, IsEfikeyBufEmpty
    <2>2. Count(r) = IF r.Head <= r.Tail THEN r.Tail - r.Head ELSE r.Tail - r.Head + N
      BY <1>1, CountValue
    <2>3. Count(q) = IF q.Head <= q.Tail THEN q.Tail - q.Head ELSE q.Tail - q.Head + N
      BY CountValue
    <2> QED BY <1>1, <2>1, <2>2, <2>3, SizeAssumption
  <1>3. \A i \in 1 .. Count(r) : (r.Head + i - 1) % N = (q.Head + (i + 1) - 1) % N
    <2>1. q.Head \in 0 .. N - 1 /\ r.Head \in 0 .. N - 1
      BY <1>1 DEF EFI_KEY_QUEUE, Slots
    <2>2. Count(r) \in 0 .. N - 1
      BY <1>1, CountValue DEF Slots
    <2> SUFFICES ASSUME NEW i \in 1 .. Count(r)
                 PROVE  (r.Head + i - 1) % N = (q.Head + (i + 1) - 1) % N
      OBVIOUS
    <2> DEFINE j == i + 1
    <2>3. i \in Int /\ 1 <= i /\ i <= N /\ j \in Int /\ 1 <= j /\ j <= N
      BY <1>2, <2>2, SizeAssumption, CountValue DEF Slots
    <2> HIDE DEF j
    <2>4. (r.Head + i - 1) % N = IF r.Head + i - 1 < N THEN r.Head + i - 1 ELSE r.Head + i - 1 - N
      BY <2>1, <2>3, SlotOf DEF Slots
    <2>5. (q.Head + j - 1) % N = IF q.Head + j - 1 < N THEN q.Head + j - 1 ELSE q.Head + j - 1 - N
      BY <2>1, <2>3, SlotOf DEF Slots
    <2> QED BY <1>1, <2>1, <2>3, <2>4, <2>5, SizeAssumption DEF j
  <1>4. \A i \in 1 .. Count(r) : Contents(r)[i] = Contents(q)[i + 1]
    <2> SUFFICES ASSUME NEW i \in 1 .. Count(r) PROVE Contents(r)[i] = Contents(q)[i + 1]
      OBVIOUS
    <2>1. i + 1 \in 1 .. Count(q)
      BY <1>2
    <2>2. Contents(q)[i + 1] = q.Buffer[(q.Head + (i + 1) - 1) % N]
      BY <2>1 DEF Contents
    <2>3. Contents(r)[i] = r.Buffer[(r.Head + i - 1) % N]
      BY DEF Contents
    <2> QED BY <1>1, <1>3, <2>2, <2>3
  <1>5. Contents(q) \in Seq(Key) /\ Len(Contents(q)) = Count(q)
        /\ Contents(r) \in Seq(Key) /\ Len(Contents(r)) = Count(r)
    BY <1>1, ContentsTyping
  <1>6. Contents(r) = Tail(Contents(q))
    BY <1>2, <1>4, <1>5
  <1>7. Contents(q)[1] = q.Buffer[q.Head]
    <2>1. (q.Head + 1 - 1) % N = q.Head
      BY SizeAssumption DEF EFI_KEY_QUEUE, Slots
    <2> QED BY <1>2, <2>1, ContentsTyping
  <1> QED BY <1>2, <1>5, <1>6, <1>7 DEF r, AtHead

\* Writing the slot at Tail of a ring with room appends to its contents.
LEMMA AppendContents ==
  ASSUME NEW q \in EFI_KEY_QUEUE, NEW k \in Key, NextSlot(q.Tail) # q.Head
  PROVE  Contents([q EXCEPT !.Buffer[q.Tail] = k, !.Tail = NextSlot(q.Tail)])
           = Append(Contents(q), k)
  <1> DEFINE r == [q EXCEPT !.Buffer[q.Tail] = k, !.Tail = NextSlot(q.Tail)]
             N == KEYPAD_EFI_KEY_MAX_COUNT
  <1>1. q.Tail \in 0 .. N - 1 /\ q.Head \in 0 .. N - 1
    BY DEF EFI_KEY_QUEUE, Slots
  <1>2. r \in EFI_KEY_QUEUE /\ r.Head = q.Head
        /\ r.Buffer = [q.Buffer EXCEPT ![q.Tail] = k]
        /\ r.Tail = IF q.Tail = N - 1 THEN 0 ELSE q.Tail + 1
    <2>1. NextSlot(q.Tail) = IF q.Tail = N - 1 THEN 0 ELSE q.Tail + 1
      BY NextSlotWraps DEF EFI_KEY_QUEUE
    <2>2. NextSlot(q.Tail) \in Slots
      BY <1>1, <2>1, SizeAssumption DEF Slots
    <2> QED BY <2>1, <2>2 DEF EFI_KEY_QUEUE
  <1> HIDE DEF r
  <1>3. Count(q) \in Nat /\ Count(r) = Count(q) + 1
    <2>1. Count(r) = IF r.Head <= r.Tail THEN r.Tail - r.Head ELSE r.Tail - r.Head + N
      BY <1>2, CountValue
    <2>2. Count(q) = IF q.Head <= q.Tail THEN q.Tail - q.Head ELSE q.Tail - q.Head + N
      BY CountValue
    <2>3. r.Tail # r.Head
      BY <1>2, NextSlotWraps DEF EFI_KEY_QUEUE
    <2> QED BY <1>1, <1>2, <2>1, <2>2, <2>3, SizeAssumption
  <1>4. \A i \in 1 .. Count(q) :
          /\ (q.Head + i - 1) % N \in Slots
          /\ (q.Head + i - 1) % N # q.Tail
    <2>1. Count(q) = IF q.Head <= q.Tail THEN q.Tail - q.Head ELSE q.Tail - q.Head + N
      BY CountValue
    <2> SUFFICES ASSUME NEW i \in 1 .. Count(q)
                 PROVE  /\ (q.Head + i - 1) % N \in Slots
                        /\ (q.Head + i - 1) % N # q.Tail
      OBVIOUS
    <2>2. Count(q) < N
      BY CountValue, SizeAssumption DEF Slots
    <2>3. (q.Head + i - 1) % N = IF q.Head + i - 1 < N THEN q.Head + i - 1 ELSE q.Head + i - 1 - N
      <3>1. i \in Int /\ 1 <= i /\ i <= N
        BY <1>3, <2>2, SizeAssumption
      <3> QED BY <1>1, <3>1, SlotOf DEF Slots
    <2> QED BY <1>1, <1>3, <2>1, <2>2, <2>3, SizeAssumption DEF Slots
  <1>5. (q.Head + Count(r) - 1) % N = q.Tail
    <2>1. Count(q) = IF q.Head <= q.Tail THEN q.Tail - q.Head ELSE q.Tail - q.Head + N
      BY CountValue
    <2> DEFINE c == Count(r)
    <2>2. c \in Int /\ 1 <= c /\ c <= N
      BY <1>3, CountValue, SizeAssumption DEF Slots
    <2>3. c = Count(q) + 1
      BY <1>3
    <2> HIDE DEF c
    <2>4. (q.Head + c - 1) % N = IF q.Head + c - 1 < N THEN q.Head + c - 1 ELSE q.Head + c - 1 - N
      BY <1>1, <2>2, SlotOf DEF Slots
    <2>5. (q.Head + c - 1) % N = q.Tail
      BY <1>1, <1>3, <2>1, <2>3, <2>4, SizeAssumption
    <2> QED BY <2>5 DEF c
  <1>6. q.Buffer \in [Slots -> Key] /\ q.Tail \in Slots
    BY DEF EFI_KEY_QUEUE
  <1>7. \A i \in 1 .. Count(q) : Contents(r)[i] = Contents(q)[i]
    <2> SUFFICES ASSUME NEW i \in 1 .. Count(q) PROVE Contents(r)[i] = Contents(q)[i]
      OBVIOUS
    <2>1. i \in 1 .. Count(r)
      BY <1>3
    <2>2. Contents(r)[i] = r.Buffer[(r.Head + i - 1) % N]
      BY <2>1 DEF Contents
    <2>3. Contents(q)[i] = q.Buffer[(q.Head + i - 1) % N]
      BY DEF Contents
    <2> QED BY <1>2, <1>4, <1>6, <2>2, <2>3
  <1>8. Contents(r)[Count(r)] = k
    <2>1. Contents(r)[Count(r)] = r.Buffer[(r.Head + Count(r) - 1) % N]
      BY <1>3 DEF Contents
    <2> QED BY <1>2, <1>5, <1>6, <2>1
  <1>9. Contents(q) \in Seq(Key) /\ Len(Contents(q)) = Count(q)
        /\ Contents(r) \in Seq(Key) /\ Len(Contents(r)) = Count(r)
    BY <1>2, ContentsTyping
  <1>10. Contents(r) = Append(Contents(q), k)
    BY <1>3, <1>7, <1>8, <1>9
  <1> QED BY <1>10 DEF r

\* Pushing appends, after dropping the oldest key of a full ring.
LEMMA PushContents ==
  ASSUME NEW q \in EFI_KEY_QUEUE, NEW k \in Key
  PROVE  Contents(PushEfikeyBufTail(q, k)) = Fifo!Put(Contents(q), k)
  <1> DEFINE room == IF NextSlot(q.Tail) = q.Head THEN PopEfikeyBufHead(q) ELSE q
             full == Len(Contents(q)) = KEYPAD_EFI_KEY_MAX_COUNT - 1
  <1>1. full <=> NextSlot(q.Tail) = q.Head
    BY CountValue, ContentsTyping
  <1>2. NextSlot(q.Tail) = q.Head => ~IsEfikeyBufEmpty(q)
    BY NextSlotWraps, SizeAssumption DEF EFI_KEY_QUEUE, IsEfikeyBufEmpty, Slots
  <1>3. Contents(room) = IF full THEN Tail(Contents(q)) ELSE Contents(q)
    BY <1>1, <1>2, PopContents
  <1>4. room \in EFI_KEY_QUEUE /\ room.Tail = q.Tail
    BY PopTyping DEF PopEfikeyBufHead, EFI_KEY_QUEUE
  <1>5. NextSlot(q.Tail) # room.Head
    BY <1>2, NextSlotWraps, SizeAssumption
       DEF PopEfikeyBufHead, EFI_KEY_QUEUE, Slots, IsEfikeyBufEmpty
  <1> HIDE DEF room
  <1>6. Contents([room EXCEPT !.Buffer[q.Tail] = k, !.Tail = NextSlot(q.Tail)])
          = Append(Contents(room), k)
    BY <1>4, <1>5, AppendContents
  <1> QED BY <1>3, <1>6 DEF PushEfikeyBufTail, Fifo!Put, room

\* The ring of the driver is the drop-oldest FIFO of KeyFifo, whatever the
\* positions of its indices (PopEfikeyBufHead, PushEfikeyBufTail, InitKeypad).
THEOREM RingImplementsFifo == Spec => ImplementsKeyFifo
  <1>1. Init => Fifo!Init
    <2> SUFFICES ASSUME Init PROVE Contents(Queue) = << >>
      BY DEF Init, Fifo!Init
    <2>1. Count(Queue) = 0
      BY SizeAssumption DEF Init, Count
    <2> QED BY <2>1 DEF Contents
  <1>2. TypeOK /\ TypeOK' /\ [Next]_vars => [Fifo!Next]_<<Contents(Queue), Received>>
    <2> SUFFICES ASSUME TypeOK, TypeOK', [Next]_vars
                 PROVE  [Fifo!Next]_<<Contents(Queue), Received>>
      OBVIOUS
    <2>1. Queue \in EFI_KEY_QUEUE
      BY DEF TypeOK
    <2>2. ASSUME NEW k \in Key, Push(k) PROVE Fifo!Accept(k)
      BY <2>1, <2>2, PushContents DEF Push, Fifo!Accept
    <2>3. IsEfikeyBufEmpty(Queue) <=> Contents(Queue) = << >>
      <3>1. Contents(Queue) \in Seq(Key)
        BY <2>1, ContentsTyping
      <3> QED BY <2>1, <3>1, CountValue, ContentsTyping
    <2>4. CASE Pop
      <3>1. CASE IsEfikeyBufEmpty(Queue)
        BY <2>3, <2>4, <3>1 DEF Pop, PopEfikeyBufHead, Fifo!Next, Fifo!Take
      <3>2. CASE ~IsEfikeyBufEmpty(Queue)
        BY <2>1, <2>4, <3>2, PopContents DEF Pop, Fifo!Next, Fifo!Take
      <3> QED BY <3>1, <3>2
    <2>5. CASE WaitSkip
      BY <2>1, <2>5, PopContents DEF WaitSkip, Fifo!Next, Fifo!Skip
    <2>6. CASE WaitSignal
      BY <2>1, <2>6, PopContents DEF WaitSignal, Fifo!Next, Fifo!Announce
    <2>7. CASE Reset
      <3>1. Count(Queue') = 0
        BY <2>1, <2>7, SizeAssumption DEF Reset, Count, EFI_KEY_QUEUE
      <3>2. Contents(Queue') = << >>
        BY <3>1 DEF Contents
      <3> QED BY <2>7, <3>2 DEF Reset, Fifo!Next, Fifo!Clear
    <2>8. CASE UNCHANGED vars
      BY <2>8 DEF vars
    <2> QED BY <2>2, <2>4, <2>5, <2>6, <2>7, <2>8 DEF Next, Fifo!Next
  <1> QED BY <1>1, <1>2, RingTypeOK, PTL DEF Spec, ImplementsKeyFifo, Fifo!Spec
=============================================================================
