---------------------------- MODULE KeypadProofs ----------------------------
(***************************************************************************)
(* Theorems about the keypad driver for any number of keys, functions,     *)
(* registrations and callers and any capacity of its queues, and about its *)
(* start and stop (Binding) for any number of registrations.               *)
(***************************************************************************)
EXTENDS Keypad, KeypadBinding, SequenceTheorems, FiniteSetTheorems, WellFoundedInduction, TLAPS

(***************************************************************************)
(* Queues.                                                                 *)
(***************************************************************************)
\* A sequence is empty exactly if its length is 0.
LEMMA EmptyLen ==
  ASSUME NEW s \in Seq(Key)
  PROVE  Len(s) \in Nat /\ (s = << >> <=> Len(s) = 0)
  BY EmptySeq, LenProperties

\* What a queue keeps of a sequence is a queue, and nothing is lost while the
\* sequence fits.
LEMMA NewestTyping ==
  ASSUME NEW s \in Seq(Key)
  PROVE  /\ Newest(s) \in Queue
         /\ Len(s) <= Capacity => Newest(s) = s
         /\ s # << >> => Newest(s) # << >>
  <1>1. Len(s) \in Nat
    BY LenProperties
  <1>2. CASE Len(s) <= Capacity
    BY <1>2 DEF Newest, Queue
  <1>3. CASE ~(Len(s) <= Capacity)
    <2> DEFINE m == Len(s) - Capacity + 1
    <2>1. m \in Int /\ m >= 1 /\ m <= Len(s)
      BY <1>1, <1>3, CapacityAssumption
    <2>2. \A i \in m .. Len(s) : s[i] \in Key
      BY <1>1, <2>1, ElementOfSeq
    <2>3. SubSeq(s, m, Len(s)) \in Seq(Key) /\ Len(SubSeq(s, m, Len(s))) = Len(s) - m + 1
      BY <1>1, <2>1, <2>2, SubSeqProperties
    <2>4. Len(s) - m + 1 = Capacity
      BY <1>1, CapacityAssumption
    <2>5. Newest(s) = SubSeq(s, m, Len(s))
      BY <1>3 DEF Newest
    <2>6. Newest(s) \in Queue
      BY <2>3, <2>4, <2>5 DEF Queue
    <2>7. Newest(s) # << >>
      <3>1. Newest(s) \in Seq(Key) /\ Len(Newest(s)) > 0
        BY <2>3, <2>4, <2>5, CapacityAssumption
      <3> QED BY <3>1, EmptyLen
    <2> QED BY <1>3, <2>6, <2>7
  <1> QED BY <1>2, <1>3

\* An ordinary key or room in the queue: the keys accepted with it stay useful.
LEMMA NewestAppend ==
  ASSUME NEW s \in Queue, NEW k \in Key
  PROVE  /\ Newest(Append(s, k)) \in Queue
         /\ Newest(Append(s, k)) # << >>
         /\ Len(s) < Capacity => Newest(Append(s, k)) = Append(s, k)
         /\ k \notin Partial => ValueKeys(Newest(Append(s, k))) # {}
  <1> DEFINE t == Append(s, k)
  <1>1. s \in Seq(Key) /\ Len(s) \in Nat /\ Len(s) <= Capacity
    BY LenProperties DEF Queue
  <1>2. t \in Seq(Key) /\ Len(t) = Len(s) + 1 /\ t[Len(t)] = k
    BY <1>1, AppendProperties
  <1>3. Newest(t) \in Queue /\ (Len(t) <= Capacity => Newest(t) = t)
    BY <1>2, NewestTyping
  <1>4. Newest(t) # << >>
    <2>1. t # << >>
      BY <1>1, <1>2, EmptyLen
    <2> QED BY <1>2, <2>1, NewestTyping
  <1>5. ASSUME k \notin Partial PROVE ValueKeys(Newest(t)) # {}
    <2>1. CASE Len(t) <= Capacity
      <3>1. Len(t) \in ValueKeys(t)
        BY <1>1, <1>2, <1>5 DEF ValueKeys
      <3> QED BY <2>1, <3>1, <1>3
    <2>2. CASE ~(Len(t) <= Capacity)
      <3> DEFINE m == Len(t) - Capacity + 1
                 r == SubSeq(t, m, Len(t))
      <3>1. m \in Int /\ Len(t) \in Int /\ m >= 1 /\ m <= Len(t) /\ Len(t) - m + 1 = Capacity
        BY <1>1, <1>2, <2>2, CapacityAssumption
      <3>2. \A i \in m .. Len(t) : t[i] \in Key
        BY <1>2, <3>1, ElementOfSeq
      <3> HIDE DEF m, t
      <3>3. Len(r) = Len(t) - m + 1 /\ \A i \in 1 .. Len(t) - m + 1 : r[i] = t[m + i - 1]
        BY <3>1, <3>2, SubSeqProperties
      <3>4. Len(r) = Capacity /\ r[Capacity] = t[m + Capacity - 1]
        BY <3>1, <3>3, CapacityAssumption
      <3>5. m + Capacity - 1 = Len(t)
        BY <3>1, CapacityAssumption
      <3>6. Len(r) \in ValueKeys(r)
        <4>1. Len(r) \in 1 .. Len(r)
          BY <3>4, CapacityAssumption
        <4>2. r[Len(r)] \notin Partial
          BY <1>2, <1>5, <3>4, <3>5 DEF t
        <4> QED BY <4>1, <4>2 DEF ValueKeys
      <3>7. Newest(t) = r
        BY <2>2 DEF Newest, m
      <3> QED BY <3>6, <3>7
    <2> QED BY <2>1, <2>2
  <1>6. Len(s) < Capacity => Newest(t) = t
    BY <1>1, <1>2, <1>3, CapacityAssumption
  <1> QED BY <1>3, <1>4, <1>5, <1>6

\* Repeating a key makes a sequence of keys, empty for no repetition.
LEMMA RepeatTyping ==
  ASSUME NEW k \in Key, NEW n \in Nat
  PROVE  Repeat(k, n) \in Seq(Key) /\ (n = 0 => Repeat(k, n) = << >>)
  BY SeqDef DEF Repeat

\* A nonempty set of natural numbers has a least element.
LEMMA LeastElement ==
  ASSUME NEW T \in SUBSET Nat, T # {}
  PROVE  \E x \in T : \A y \in T : x <= y
  <1>1. PICK x \in T : \A y \in T : ~(<<y, x>> \in OpToRel(<, Nat))
    BY NatLessThanWellFounded, WFMin
  <1>2. \A y \in T : ~(y < x)
    BY <1>1 DEF OpToRel
  <1> QED BY <1>2

\* Skipping partial keys leaves a queue that starts with an ordinary key, and
\* is empty only if there was none.
LEMMA SkipPartialTyping ==
  ASSUME NEW s \in Queue
  PROVE  /\ SkipPartial(s) \in Queue
         /\ SkipPartial(s) # << >> => ValueKeys(SkipPartial(s)) # {}
         /\ ValueKeys(s) # {} => SkipPartial(s) # << >>
  <1>1. s \in Seq(Key) /\ Len(s) \in Nat /\ Len(s) <= Capacity
    BY LenProperties DEF Queue
  <1>2. CASE ValueKeys(s) = {}
    <2>1. Len(<< >>) = 0 /\ << >> \in Seq(Key)
      BY EmptySeq
    <2> QED BY <1>2, <2>1, CapacityAssumption DEF SkipPartial, Queue
  <1>3. CASE ValueKeys(s) # {}
    <2> DEFINE m == CHOOSE i \in ValueKeys(s) : \A j \in ValueKeys(s) : i <= j
               r == SubSeq(s, m, Len(s))
    <2>1. ValueKeys(s) \in SUBSET Nat
      BY <1>1 DEF ValueKeys
    <2>2. m \in ValueKeys(s)
      <3>1. \E i \in ValueKeys(s) : \A j \in ValueKeys(s) : i <= j
        BY <1>3, <2>1, LeastElement
      <3> QED BY <3>1
    <2> HIDE DEF m
    <2>3. m \in 1 .. Len(s) /\ s[m] \notin Partial
      BY <2>2 DEF ValueKeys
    <2>4. \A i \in m .. Len(s) : s[i] \in Key
      BY <1>1, <2>3, ElementOfSeq
    <2>5. /\ r \in Seq(Key)
          /\ Len(r) = Len(s) - m + 1
          /\ \A i \in 1 .. Len(s) - m + 1 : r[i] = s[m + i - 1]
      BY <1>1, <2>3, <2>4, SubSeqProperties
    <2>6. Len(r) >= 1 /\ Len(r) <= Capacity /\ r[1] = s[m]
      BY <1>1, <2>3, <2>5, CapacityAssumption
    <2>7. 1 \in ValueKeys(r)
      BY <1>1, <2>3, <2>5, <2>6 DEF ValueKeys
    <2>8. SkipPartial(s) = r
      BY <1>3 DEF SkipPartial, m
    <2>9. r \in Queue /\ r # << >>
      <3>1. r \in Queue
        BY <2>5, <2>6 DEF Queue
      <3> HIDE DEF r
      <3>2. r # << >>
        BY <2>5, <2>6, EmptyLen
      <3> QED BY <3>1, <3>2
    <2> QED BY <2>7, <2>8, <2>9
  <1> QED BY <1>2, <1>3

\* Taking the head of a queue leaves a queue; if the head was partial, the
\* ordinary keys are still there.
LEMMA TailTyping ==
  ASSUME NEW s \in Queue, s # << >>
  PROVE  /\ Head(s) \in Key
         /\ Tail(s) \in Queue
         /\ Head(s) \in Partial /\ ValueKeys(s) # {} => ValueKeys(Tail(s)) # {}
  <1>1. s \in Seq(Key) /\ Len(s) \in Nat /\ Len(s) <= Capacity
    BY LenProperties DEF Queue
  <1>2. /\ Head(s) \in Key /\ Tail(s) \in Seq(Key) /\ Len(Tail(s)) = Len(s) - 1
        /\ \A i \in 1 .. Len(Tail(s)) : Tail(s)[i] = s[i + 1]
    BY <1>1, HeadTailProperties
  <1>3. Head(s) = s[1]
    BY <1>1
  <1>4. ASSUME Head(s) \in Partial, ValueKeys(s) # {} PROVE ValueKeys(Tail(s)) # {}
    <2>1. PICK i \in 1 .. Len(s) : s[i] \notin Partial
      BY <1>4 DEF ValueKeys
    <2>2. i # 1
      BY <1>3, <1>4, <2>1
    <2>3. i - 1 \in 1 .. Len(Tail(s)) /\ Tail(s)[i - 1] = s[(i - 1) + 1]
      BY <1>1, <1>2, <2>1, <2>2
    <2>4. (i - 1) + 1 = i
      BY <2>1
    <2>5. i - 1 \in ValueKeys(Tail(s))
      BY <2>1, <2>3, <2>4 DEF ValueKeys
    <2> QED BY <2>5
  <1>5. Tail(s) \in Queue
    BY <1>1, <1>2, CapacityAssumption DEF Queue
  <1> QED BY <1>2, <1>4, <1>5

\* The number of registrations that match a key is a natural number, zero
\* exactly if none does.
LEMMA MatchesTyping ==
  ASSUME NotifyList \in Seq(Registration), NEW k
  PROVE  /\ Cardinality(Matches(k)) \in Nat
         /\ Cardinality(Matches(k)) = 0 <=> Matches(k) = {}
  <1>1. Len(NotifyList) \in Nat /\ DOMAIN NotifyList = 1 .. Len(NotifyList)
    BY LenProperties
  <1>2. IsFiniteSet(DOMAIN NotifyList)
    BY <1>1, FS_Interval
  <1>3. Matches(k) \in SUBSET DOMAIN NotifyList
    BY DEF Matches
  <1>4. IsFiniteSet(Matches(k))
    BY <1>2, <1>3, FS_Subset
  <1> QED BY <1>4, FS_CardinalityType, FS_EmptySet

(***************************************************************************)
(* Type correctness.                                                       *)
(***************************************************************************)
\* A poll keeps the queues queues, whatever key it brings.
LEMMA PollTyping ==
  ASSUME TypeOK, NEW k \in CanArrive
  PROVE  /\ QueueWith(k) \in Queue
         /\ NotifyQueueWith(k) \in Queue
         /\ Accepted(k) => k \in Key
  <1>1. Accepted(k) => k \in Key
    BY KeyAssumption DEF Accepted, CanArrive
  <1>2. EfiKeyQueue \in Queue /\ EfiKeyQueueForNotify \in Queue
        /\ NotifyList \in Seq(Registration)
    BY DEF TypeOK
  <1>3. QueueWith(k) \in Queue
    BY <1>1, <1>2, NewestAppend DEF QueueWith
  <1>4. NotifyQueueWith(k) \in Queue
    <2>1. CASE Accepted(k)
      <3>1. Repeat(k, Cardinality(Matches(k))) \in Seq(Key)
        BY <1>1, <1>2, <2>1, MatchesTyping, RepeatTyping
      <3>2. EfiKeyQueueForNotify \o Repeat(k, Cardinality(Matches(k))) \in Seq(Key)
        BY <1>2, <3>1, ConcatProperties DEF Queue
      <3> QED BY <2>1, <3>2, NewestTyping DEF NotifyQueueWith
    <2>2. CASE ~Accepted(k)
      BY <1>2, <2>2 DEF NotifyQueueWith
    <2> QED BY <2>1, <2>2
  <1> QED BY <1>1, <1>3, <1>4

\* The handle of a node, and the node after it.
LEMMA NodeTyping ==
  ASSUME NotifyList \in Seq(Registration)
  PROVE  /\ Handles \subseteq Handle
         /\ FirstNode \in Handles \cup {NULL}
         /\ \A h \in Handles :
              /\ NodeOf(h) \in 1 .. Len(NotifyList)
              /\ NotifyList[NodeOf(h)].handle = h
              /\ NextNode(h) \in Handles \cup {NULL}
  <1>1. Len(NotifyList) \in Nat /\ DOMAIN NotifyList = 1 .. Len(NotifyList)
        /\ \A i \in 1 .. Len(NotifyList) : NotifyList[i] \in Registration
    BY LenProperties, ElementOfSeq
  <1>2. Handles \subseteq Handle
    BY <1>1 DEF Handles, Registration
  <1>3. FirstNode \in Handles \cup {NULL}
    BY <1>1, EmptySeq DEF FirstNode, Handles
  <1>4. ASSUME NEW h \in Handles
        PROVE  /\ NodeOf(h) \in 1 .. Len(NotifyList)
               /\ NotifyList[NodeOf(h)].handle = h
               /\ NextNode(h) \in Handles \cup {NULL}
    <2>1. \E i \in DOMAIN NotifyList : NotifyList[i].handle = h
      BY <1>4 DEF Handles
    <2>2. NodeOf(h) \in DOMAIN NotifyList /\ NotifyList[NodeOf(h)].handle = h
      BY <2>1 DEF NodeOf
    <2>3. NodeOf(h) # Len(NotifyList) => NodeOf(h) + 1 \in DOMAIN NotifyList
      BY <1>1, <2>2
    <2>4. NextNode(h) \in Handles \cup {NULL}
      BY <2>3 DEF NextNode, Handles
    <2> QED BY <1>1, <2>2, <2>4
  <1> QED BY <1>2, <1>3, <1>4

\* Removing the i-th element of a sequence.
LEMMA RemoveTyping ==
  ASSUME NEW s \in Seq(Registration), NEW i \in 1 .. Len(s)
  PROVE  LET r == SubSeq(s, 1, i - 1) \o SubSeq(s, i + 1, Len(s))
         IN /\ r \in Seq(Registration)
            /\ Len(r) = Len(s) - 1
            /\ \A j \in 1 .. Len(r) : r[j] = IF j < i THEN s[j] ELSE s[j + 1]
  <1> DEFINE a == SubSeq(s, 1, i - 1)
             b == SubSeq(s, i + 1, Len(s))
  <1>1. Len(s) \in Nat /\ \A j \in 1 .. Len(s) : s[j] \in Registration
    BY LenProperties, ElementOfSeq
  <1>2. a \in Seq(Registration) /\ Len(a) = i - 1
        /\ \A j \in 1 .. i - 1 : a[j] = s[j]
    <2>1. /\ a \in Seq(Registration)
          /\ Len(a) = IF 1 <= i - 1 THEN i - 1 - 1 + 1 ELSE 0
          /\ \A j \in 1 .. (i - 1) - 1 + 1 : a[j] = s[1 + j - 1]
      BY <1>1, SubSeqProperties
    <2> QED BY <1>1, <2>1
  <1>3. b \in Seq(Registration) /\ Len(b) = Len(s) - i
        /\ \A j \in 1 .. Len(s) - i : b[j] = s[i + j]
    <2>1. /\ b \in Seq(Registration)
          /\ Len(b) = IF i + 1 <= Len(s) THEN Len(s) - (i + 1) + 1 ELSE 0
          /\ \A j \in 1 .. Len(s) - (i + 1) + 1 : b[j] = s[i + 1 + j - 1]
      BY <1>1, SubSeqProperties
    <2>2. \A j \in 1 .. Len(s) - i : i + 1 + j - 1 = i + j
      BY <1>1
    <2> QED BY <1>1, <2>1, <2>2
  <1> HIDE DEF a, b
  <1>4. /\ a \o b \in Seq(Registration)
        /\ Len(a \o b) = Len(a) + Len(b)
        /\ \A j \in 1 .. Len(a) + Len(b) :
             (a \o b)[j] = IF j <= Len(a) THEN a[j] ELSE b[j - Len(a)]
    BY <1>2, <1>3, ConcatProperties
  <1>5. Len(a \o b) = Len(s) - 1
    BY <1>1, <1>2, <1>3, <1>4
  <1>6. \A j \in 1 .. Len(a \o b) : (a \o b)[j] = IF j < i THEN s[j] ELSE s[j + 1]
    <2> SUFFICES ASSUME NEW j \in 1 .. Len(a \o b)
                 PROVE  (a \o b)[j] = IF j < i THEN s[j] ELSE s[j + 1]
      OBVIOUS
    <2>1. CASE j < i
      BY <1>1, <1>2, <1>4, <1>5, <2>1
    <2>2. CASE ~(j < i)
      <3>1. j - (i - 1) \in 1 .. Len(s) - i
        BY <1>1, <1>5, <2>2
      <3>2. b[j - (i - 1)] = s[i + (j - (i - 1))]
        BY <1>3, <3>1
      <3>3. i + (j - (i - 1)) = j + 1
        BY <1>5, <1>1
      <3> QED BY <1>1, <1>2, <1>4, <1>5, <2>2, <3>2, <3>3
    <2> QED BY <2>1, <2>2
  <1> QED BY <1>4, <1>5, <1>6 DEF a, b

\* What unregistering does to the list.
LEMMA UnregisterList ==
  ASSUME TypeOK, NEW c, NEW h \in Handles, KeypadUnregisterKeyNotify(c, h)
  PROVE  /\ NodeOf(h) \in 1 .. Len(NotifyList)
         /\ NotifyList' \in Seq(Registration)
         /\ Len(NotifyList') = Len(NotifyList) - 1
         /\ \A j \in 1 .. Len(NotifyList') :
              NotifyList'[j] = IF j < NodeOf(h) THEN NotifyList[j] ELSE NotifyList[j + 1]
  <1>1. NotifyList \in Seq(Registration) /\ NodeOf(h) \in 1 .. Len(NotifyList)
    BY NodeTyping DEF TypeOK
  <1>2. NotifyList' = SubSeq(NotifyList, 1, NodeOf(h) - 1)
                        \o SubSeq(NotifyList, NodeOf(h) + 1, Len(NotifyList))
    BY DEF KeypadUnregisterKeyNotify
  <1> QED BY <1>1, <1>2, RemoveTyping

\* What registering does to the list: nothing, or one node more at its end.
LEMMA RegisterList ==
  ASSUME TypeOK, NEW c, NEW KeyData \in Wanted, NEW fn \in Fn,
         KeypadRegisterKeyNotify(c, KeyData, fn)
  PROVE  /\ NotifyList' \in Seq(Registration)
         /\ \/ NotifyList' = NotifyList
            \/ /\ \A i \in DOMAIN NotifyList : ~Covers(NotifyList[i], KeyData, fn)
               /\ \E h \in Handle \ Handles :
                    NotifyList' = Append(NotifyList,
                      [handle |-> h, KeyData |-> KeyData, KeyNotificationFn |-> fn])
  <1>1. \/ NotifyList' = NotifyList
        \/ /\ \A i \in DOMAIN NotifyList : ~Covers(NotifyList[i], KeyData, fn)
           /\ \E h \in Handle \ Handles :
                NotifyList' = Append(NotifyList,
                  [handle |-> h, KeyData |-> KeyData, KeyNotificationFn |-> fn])
    BY DEF KeypadRegisterKeyNotify, InsertTailList
  <1>2. NotifyList \in Seq(Registration) /\ KeyData \in Key
    BY KeyAssumption DEF TypeOK
  <1>3. ASSUME NEW h \in Handle
        PROVE  [handle |-> h, KeyData |-> KeyData, KeyNotificationFn |-> fn] \in Registration
    BY <1>2 DEF Registration
  <1>4. ASSUME NEW h \in Handle,
               NotifyList' = Append(NotifyList, [handle |-> h, KeyData |-> KeyData,
                                                 KeyNotificationFn |-> fn])
        PROVE  NotifyList' \in Seq(Registration)
    BY <1>2, <1>3, <1>4, AppendProperties
  <1>5. NotifyList' \in Seq(Registration)
    BY <1>1, <1>2, <1>4
  <1> QED BY <1>1, <1>5

\* The promise is made, over or standing.
LEMMA PromiseTyping ==
  ASSUME promised \in BOOLEAN, NEW k, PromiseStands(k) \/ PromiseOver \/ PromiseMade
  PROVE  promised' \in BOOLEAN /\ crowded' \in BOOLEAN
  <1>1. CASE PromiseStands(k)
    <2>1. promised' = promised
      BY <1>1 DEF PromiseStands
    <2>2. \/ crowded' = TRUE
          \/ crowded' = FALSE
      BY <1>1, Zenon DEF PromiseStands
    <2> QED BY <2>1, <2>2
  <1>2. CASE PromiseOver \/ PromiseMade
    BY <1>2 DEF PromiseOver, PromiseMade
  <1> QED BY <1>1, <1>2

\* Every service and every step of the handler keeps the types.
LEMMA TypeStep == TypeOK /\ [Next]_vars => TypeOK'
  <1> SUFFICES ASSUME TypeOK, [Next]_vars PROVE TypeOK'
    OBVIOUS
  <1>1. /\ EfiKeyQueue \in Queue /\ EfiKeyQueueForNotify \in Queue
        /\ NotifyList \in Seq(Registration)
        /\ IsSupportPartialKey \in BOOLEAN /\ signaled \in BOOLEAN
        /\ promised \in BOOLEAN /\ crowded \in BOOLEAN
        /\ waiting \in SUBSET Handle
        /\ handler \in [pc : {"idle", "pop", "walk", "call", "exit"},
                         KeyData : Key \cup {NULL}, Link : Handle \cup {NULL}]
        /\ reading \in SUBSET Callers
        /\ result \in [op : Ops, status : Statuses]
        /\ typed \in Nat
    BY DEF TypeOK
  <1>2. << >> \in Queue
    BY CapacityAssumption, EmptySeq DEF Queue
  <1>3. ASSUME NEW k \in CanArrive, Poll(k)
        PROVE  /\ EfiKeyQueueForNotify' \in Queue
               /\ signaled' \in BOOLEAN
               /\ typed' \in Nat
               /\ QueueWith(k) \in Queue
               /\ PromiseStands(k) \/ PromiseOver \/ PromiseMade =>
                    promised' \in BOOLEAN /\ crowded' \in BOOLEAN
    BY <1>1, <1>3, PollTyping, PromiseTyping DEF Poll, SignalWith
  <1>4. ASSUME NEW op \in Ops, NEW status \in Statuses, Answer(op, status)
        PROVE  result' \in [op : Ops, status : Statuses]
    BY <1>4 DEF Answer
  <1>5. ASSUME NEW k \in Typed, KeypadTimerHandler(k) PROVE TypeOK'
    <2>1. k \in CanArrive /\ Poll(k)
      BY <1>5 DEF KeypadTimerHandler
    <2> QED BY <1>1, <1>3, <1>5, <2>1 DEF KeypadTimerHandler, TypeOK
  <1>6. ASSUME NEW c \in Callers, ReadKeyStroke(c) PROVE TypeOK'
    <2>1. PICK k \in CanArrive :
            /\ Poll(k)
            /\ \/ /\ QueueWith(k) = << >>
                  /\ Answer("ReadKeyStroke", "EFI_NOT_READY")
                  /\ reading' = reading \ {c}
                  /\ PromiseStands(k)
                  /\ UNCHANGED EfiKeyQueue
               \/ /\ QueueWith(k) # << >>
                  /\ EfiKeyQueue' = Tail(QueueWith(k))
                  /\ \/ /\ reading' = reading \cup {c}
                        /\ PromiseStands(k)
                        /\ UNCHANGED result
                     \/ /\ Answer("ReadKeyStroke", "EFI_SUCCESS")
                        /\ reading' = reading \ {c}
                        /\ PromiseOver
      BY <1>6 DEF ReadKeyStroke
    <2>2. QueueWith(k) # << >> => Tail(QueueWith(k)) \in Queue
      BY <1>3, <2>1, TailTyping
    <2>3. /\ EfiKeyQueue' \in Queue /\ reading' \subseteq Callers
          /\ promised' \in BOOLEAN /\ crowded' \in BOOLEAN
      BY <1>1, <1>3, <2>1, <2>2
    <2>4. result' \in [op : Ops, status : Statuses]
      BY <1>1, <1>4, <2>1 DEF Ops, Statuses
    <2>5. UNCHANGED <<NotifyList, IsSupportPartialKey, handler, waiting>>
      BY <1>6 DEF ReadKeyStroke
    <2> QED BY <1>1, <1>3, <2>1, <2>3, <2>4, <2>5 DEF TypeOK
  <1>7. ASSUME NEW c \in Callers, ReadKeyStrokeEx(c) PROVE TypeOK'
    <2>1. PICK k \in CanArrive :
            /\ Poll(k)
            /\ \/ /\ Answer("ReadKeyStrokeEx", "EFI_NOT_READY")
                  /\ PromiseStands(k)
                  /\ UNCHANGED EfiKeyQueue
               \/ /\ QueueWith(k) # << >>
                  /\ Answer("ReadKeyStrokeEx", "EFI_SUCCESS")
                  /\ EfiKeyQueue' = Tail(QueueWith(k))
                  /\ PromiseStands(k) \/ PromiseOver
      BY <1>7 DEF ReadKeyStrokeEx
    <2>2. QueueWith(k) # << >> => Tail(QueueWith(k)) \in Queue
      BY <1>3, <2>1, TailTyping
    <2>3. EfiKeyQueue' \in Queue /\ promised' \in BOOLEAN /\ crowded' \in BOOLEAN
      BY <1>1, <1>3, <2>1, <2>2
    <2>4. result' \in [op : Ops, status : Statuses]
      BY <1>4, <2>1 DEF Ops, Statuses
    <2>5. UNCHANGED <<NotifyList, IsSupportPartialKey, handler, waiting, reading>>
      BY <1>7 DEF ReadKeyStrokeEx
    <2> QED BY <1>1, <1>3, <2>1, <2>3, <2>4, <2>5 DEF TypeOK
  <1>8. ASSUME NEW c \in Callers, KeypadWaitForKey(c) PROVE TypeOK'
    <2>1. PICK k \in CanArrive :
            /\ Poll(k)
            /\ EfiKeyQueue' = SkipPartial(QueueWith(k))
            /\ PromiseStands(k) \/ PromiseMade
            /\ Answer("WaitForKey", IF EfiKeyQueue' = << >> THEN "EFI_NOT_READY"
                                                          ELSE "EFI_SUCCESS")
      BY <1>8 DEF KeypadWaitForKey
    <2>2. EfiKeyQueue' \in Queue /\ promised' \in BOOLEAN /\ crowded' \in BOOLEAN
      BY <1>3, <2>1, SkipPartialTyping
    <2>3. result' \in [op : Ops, status : Statuses]
      BY <2>1 DEF Answer, Ops, Statuses
    <2>4. UNCHANGED <<NotifyList, IsSupportPartialKey, handler, waiting, reading>>
      BY <1>8 DEF KeypadWaitForKey
    <2> QED BY <1>1, <1>3, <2>1, <2>2, <2>3, <2>4 DEF TypeOK
  <1>9. ASSUME NEW c \in Callers, KeypadEfiReset(c) PROVE TypeOK'
    <2>1. result' \in [op : Ops, status : Statuses]
      BY <1>9 DEF KeypadEfiReset, Answer, Ops, Statuses
    <2> QED BY <1>1, <1>2, <1>9, <2>1 DEF KeypadEfiReset, PromiseOver, TypeOK
  <1>10. ASSUME NEW c \in Callers, KeypadSetState(c) PROVE TypeOK'
    <2>1. result' \in [op : Ops, status : Statuses] /\ IsSupportPartialKey' \in BOOLEAN
      BY <1>1, <1>10 DEF KeypadSetState, Answer, Ops, Statuses
    <2> QED BY <1>1, <1>10, <2>1 DEF KeypadSetState, promise, TypeOK
  <1>11. ASSUME NEW c \in Callers, NEW KeyData \in Wanted, NEW fn \in Fn,
                KeypadRegisterKeyNotify(c, KeyData, fn)
         PROVE  TypeOK'
    <2>1. NotifyList' \in Seq(Registration)
      BY <1>11, RegisterList
    <2>2. result' \in [op : Ops, status : Statuses]
      <3>1. \E status \in {"EFI_SUCCESS", "EFI_OUT_OF_RESOURCES"} : Answer("Register", status)
        BY <1>11 DEF KeypadRegisterKeyNotify
      <3> QED BY <3>1 DEF Answer, Ops, Statuses
    <2>3. UNCHANGED <<EfiKeyQueue, EfiKeyQueueForNotify, IsSupportPartialKey, signaled,
                      handler, reading, promised, crowded, typed>>
      BY <1>11 DEF KeypadRegisterKeyNotify, promise
    <2>4. waiting' \subseteq Handle
      BY <1>1, <1>11 DEF KeypadRegisterKeyNotify, Hearing
    <2> QED BY <1>1, <2>1, <2>2, <2>3, <2>4 DEF TypeOK
  <1>12. ASSUME NEW c \in Callers, NEW h \in Handle, KeypadUnregisterKeyNotify(c, h)
         PROVE  TypeOK'
    <2>1. NotifyList' \in Seq(Registration)
      <3>1. CASE h \in Handles
        BY <1>12, <3>1, UnregisterList
      <3>2. CASE h \notin Handles
        BY <1>1, <1>12, <3>2 DEF KeypadUnregisterKeyNotify
      <3> QED BY <3>1, <3>2
    <2>2. result' \in [op : Ops, status : Statuses]
      BY <1>12 DEF KeypadUnregisterKeyNotify, Answer, Ops, Statuses
    <2>3. UNCHANGED <<EfiKeyQueue, EfiKeyQueueForNotify, IsSupportPartialKey, signaled,
                      handler, reading, promised, crowded, typed>>
      BY <1>12 DEF KeypadUnregisterKeyNotify, promise
    <2>4. waiting' \subseteq Handle
      BY <1>1, <1>12 DEF KeypadUnregisterKeyNotify
    <2> QED BY <1>1, <2>1, <2>2, <2>3, <2>4 DEF TypeOK
  <1>13. CASE HandlerDispatch
    BY <1>1, <1>13 DEF HandlerDispatch, HandlerUnchanged, promise, TypeOK
  <1>14. CASE HandlerPop
    <2>1. EfiKeyQueueForNotify # << >> =>
            Head(EfiKeyQueueForNotify) \in Key /\ Tail(EfiKeyQueueForNotify) \in Queue
      BY <1>1, TailTyping
    <2>2. FirstNode \in Handle \cup {NULL}
      BY <1>1, NodeTyping
    <2>3. EfiKeyQueueForNotify' \in Queue
          /\ handler' \in [pc : {"idle", "pop", "walk", "call", "exit"},
                            KeyData : Key \cup {NULL}, Link : Handle \cup {NULL}]
      <3>1. CASE EfiKeyQueueForNotify = << >>
        BY <1>1, <1>14, <3>1 DEF HandlerPop, Idle
      <3>2. CASE EfiKeyQueueForNotify # << >>
        <4>1. EfiKeyQueueForNotify' = Tail(EfiKeyQueueForNotify)
          BY <1>14, <3>2 DEF HandlerPop
        <4>2. handler' = [pc |-> "walk", KeyData |-> Head(EfiKeyQueueForNotify),
                          Link |-> FirstNode]
          BY <1>14, <3>2 DEF HandlerPop
        <4>3. EfiKeyQueueForNotify' \in Queue
          BY <2>1, <3>2, <4>1
        <4>4. handler' \in [pc : {"idle", "pop", "walk", "call", "exit"},
                            KeyData : Key \cup {NULL}, Link : Handle \cup {NULL}]
          <5> DEFINE k == Head(EfiKeyQueueForNotify)
          <5>1. k \in Key
            BY <2>1, <3>2
          <5> HIDE DEF k
          <5>2. [pc |-> "walk", KeyData |-> k, Link |-> FirstNode]
                  \in [pc : {"idle", "pop", "walk", "call", "exit"},
                      KeyData : Key \cup {NULL}, Link : Handle \cup {NULL}]
            BY <2>2, <5>1
          <5> QED BY <4>2, <5>2 DEF k
        <4> QED BY <4>3, <4>4
      <3> QED BY <3>1, <3>2
    <2>4. waiting' \subseteq Handle
      <3>1. \A k : {NotifyList[i].handle : i \in Matches(k)} \subseteq Handles
        BY DEF Matches, Handles
      <3> QED BY <1>1, <1>14, <3>1, NodeTyping DEF HandlerPop
    <2> QED BY <1>1, <1>14, <2>3, <2>4 DEF HandlerPop, HandlerUnchanged, promise, TypeOK
  <1>15. CASE HandlerVisit
    <2>1. handler.Link # NULL => NextNode(handler.Link) \in Handle \cup {NULL}
      BY <1>1, <1>15, NodeTyping DEF HandlerVisit
    <2>2. handler' \in [pc : {"idle", "pop", "walk", "call", "exit"},
                        KeyData : Key \cup {NULL}, Link : Handle \cup {NULL}]
      BY <1>1, <1>15, <2>1 DEF HandlerVisit, Idle
    <2>3. waiting' \subseteq Handle
      BY <1>1, <1>15 DEF HandlerVisit
    <2> QED BY <1>1, <1>15, <2>2, <2>3 DEF HandlerVisit, HandlerUnchanged, promise, TypeOK
  <1>16. CASE HandlerExit
    BY <1>1, <1>16 DEF HandlerExit, HandlerUnchanged, promise, Idle, TypeOK
  <1>17. CASE CallbackReturn
    <2>1. LinkOf(handler.Link) \subseteq Handle \cup {NULL}
      BY <1>1, NodeTyping DEF LinkOf
    <2>2. handler' \in [pc : {"idle", "pop", "walk", "call", "exit"},
                        KeyData : Key \cup {NULL}, Link : Handle \cup {NULL}]
      BY <1>1, <1>17, <2>1 DEF CallbackReturn
    <2> QED BY <1>1, <1>17, <2>2 DEF CallbackReturn, HandlerUnchanged, promise, TypeOK
  <1>18. CASE UNCHANGED vars
    BY <1>1, <1>18 DEF vars, TypeOK
  <1> QED BY <1>5, <1>6, <1>7, <1>8, <1>9, <1>10, <1>11, <1>12, <1>13, <1>14, <1>15,
             <1>16, <1>17, <1>18 DEF Next, Service, Handler

\* Neither queue outgrows its ring and every pointer of the handler is one,
\* for every capacity and every set of callers.
THEOREM KeypadTypeOK == Spec => []TypeOK
  <1>1. Init => TypeOK
    <2> SUFFICES ASSUME Init PROVE TypeOK
      OBVIOUS
    <2>1. << >> \in Queue /\ << >> \in Seq(Registration)
      BY CapacityAssumption, EmptySeq DEF Queue
    <2> QED BY <2>1 DEF Init, TypeOK, Idle, Ops, Statuses
  <1> QED BY <1>1, TypeStep, PTL DEF Spec

(***************************************************************************)
(* No lost wakeup.                                                         *)
(***************************************************************************)
\* A poll that makes the notification queue longer signals the event.
LEMMA PollSignals ==
  ASSUME TypeOK, NEW k \in CanArrive, Poll(k)
  PROVE  /\ EfiKeyQueueForNotify' = EfiKeyQueueForNotify \/ signaled'
         /\ signaled => signaled'
  <1>1. NotifyList \in Seq(Registration) /\ EfiKeyQueueForNotify \in Queue
    BY DEF TypeOK
  <1>2. CASE Accepted(k) /\ Matches(k) = {}
    <2>1. k \in Key
      BY <1>2, PollTyping
    <2>2. Repeat(k, Cardinality(Matches(k))) = << >>
      BY <1>1, <1>2, <2>1, MatchesTyping, RepeatTyping
    <2>3. EfiKeyQueueForNotify \o << >> = EfiKeyQueueForNotify
          /\ Newest(EfiKeyQueueForNotify) = EfiKeyQueueForNotify
      BY <1>1, ConcatEmptySeq, NewestTyping DEF Queue
    <2> QED BY <1>2, <2>2, <2>3 DEF Poll, NotifyQueueWith, SignalWith
  <1>3. CASE Accepted(k) /\ Matches(k) # {}
    BY <1>3 DEF Poll, SignalWith
  <1>4. CASE ~Accepted(k)
    BY <1>4 DEF Poll, SignalWith, NotifyQueueWith
  <1> QED BY <1>2, <1>3, <1>4

\* A key queued for notification always has somebody who will look at it: the
\* event is signalled or the handler has yet to find the queue empty
\* (KeypadReturnApiPushEfikeyBufTail, KeyNotifyProcessHandler).
THEOREM KeypadNoLostWakeup == Spec => []NoLostWakeup
  <1>1. Init => NoLostWakeup
    BY DEF Init, NoLostWakeup
  <1>2. TypeOK /\ NoLostWakeup /\ [Next]_vars => NoLostWakeup'
    <2> SUFFICES ASSUME TypeOK, NoLostWakeup, [Next]_vars PROVE NoLostWakeup'
      OBVIOUS
    <2>1. ASSUME NEW k \in CanArrive, Poll(k), UNCHANGED handler PROVE NoLostWakeup'
      BY <2>1, PollSignals DEF NoLostWakeup
    <2>2. ASSUME NEW k \in Typed, KeypadTimerHandler(k) PROVE NoLostWakeup'
      BY <2>1, <2>2 DEF KeypadTimerHandler
    <2>3. ASSUME NEW c \in Callers, ReadKeyStroke(c) PROVE NoLostWakeup'
      BY <2>1, <2>3 DEF ReadKeyStroke
    <2>4. ASSUME NEW c \in Callers, ReadKeyStrokeEx(c) PROVE NoLostWakeup'
      BY <2>1, <2>4 DEF ReadKeyStrokeEx
    <2>5. ASSUME NEW c \in Callers, KeypadWaitForKey(c) PROVE NoLostWakeup'
      BY <2>1, <2>5 DEF KeypadWaitForKey
    <2>6. ASSUME NEW c \in Callers, KeypadEfiReset(c) PROVE NoLostWakeup'
      BY <2>6 DEF KeypadEfiReset, NoLostWakeup
    <2>7. ASSUME NEW c \in Callers, KeypadSetState(c) PROVE NoLostWakeup'
      BY <2>7 DEF KeypadSetState, NoLostWakeup
    <2>8. ASSUME NEW c \in Callers, NEW KeyData \in Wanted, NEW fn \in Fn,
                 KeypadRegisterKeyNotify(c, KeyData, fn)
          PROVE  NoLostWakeup'
      BY <2>8 DEF KeypadRegisterKeyNotify, NoLostWakeup
    <2>9. ASSUME NEW c \in Callers, NEW h \in Handle, KeypadUnregisterKeyNotify(c, h)
          PROVE  NoLostWakeup'
      BY <2>9 DEF KeypadUnregisterKeyNotify, NoLostWakeup
    <2>10. CASE HandlerDispatch
      BY <2>10 DEF HandlerDispatch, NoLostWakeup, TypeOK
    <2>11. CASE HandlerPop
      BY <2>11 DEF HandlerPop, NoLostWakeup
    <2>12. CASE HandlerVisit
      BY <2>12 DEF HandlerVisit, Idle, NoLostWakeup, TypeOK
    <2>13. CASE HandlerExit
      BY <2>13 DEF HandlerExit, NoLostWakeup
    <2>14. CASE CallbackReturn
      BY <2>14 DEF CallbackReturn, NoLostWakeup, TypeOK
    <2>15. CASE UNCHANGED vars
      BY <2>15 DEF vars, NoLostWakeup
    <2> QED BY <2>2, <2>3, <2>4, <2>5, <2>6, <2>7, <2>8, <2>9, <2>10, <2>11, <2>12, <2>13,
               <2>14, <2>15 DEF Next, Service, Handler
  <1> QED BY <1>1, <1>2, KeypadTypeOK, PTL DEF Spec

(***************************************************************************)
(* The handler stands on a live node.                                      *)
(***************************************************************************)
\* Registering keeps the handles there are.
LEMMA RegisterHandles ==
  ASSUME TypeOK, NEW c, NEW KeyData \in Wanted, NEW fn \in Fn,
         KeypadRegisterKeyNotify(c, KeyData, fn)
  PROVE  Handles \subseteq Handles'
  <1>1. NotifyList \in Seq(Registration) /\ NotifyList' \in Seq(Registration)
        /\ Len(NotifyList) \in Nat /\ DOMAIN NotifyList = 1 .. Len(NotifyList)
        /\ DOMAIN NotifyList' = 1 .. Len(NotifyList')
    BY RegisterList, LenProperties DEF TypeOK
  <1>2. CASE NotifyList' = NotifyList
    BY <1>2 DEF Handles
  <1>3. CASE \E r : r \in Registration /\ NotifyList' = Append(NotifyList, r)
    <2>1. Len(NotifyList') = Len(NotifyList) + 1
          /\ \A i \in 1 .. Len(NotifyList) : NotifyList'[i] = NotifyList[i]
      BY <1>1, <1>3, AppendProperties
    <2>2. DOMAIN NotifyList \subseteq DOMAIN NotifyList'
      BY <1>1, <2>1
    <2> QED BY <1>1, <2>1, <2>2 DEF Handles
  <1>4. ASSUME NEW h \in Handle
        PROVE  [handle |-> h, KeyData |-> KeyData, KeyNotificationFn |-> fn] \in Registration
    BY KeyAssumption DEF Registration
  <1> QED BY <1>2, <1>3, <1>4, RegisterList

\* Unregistering h keeps every other handle.
LEMMA UnregisterHandles ==
  ASSUME TypeOK, NEW c, NEW h \in Handle, KeypadUnregisterKeyNotify(c, h),
         NEW g \in Handles, g # h
  PROVE  g \in Handles'
  <1>1. NotifyList \in Seq(Registration) /\ Len(NotifyList) \in Nat
        /\ DOMAIN NotifyList = 1 .. Len(NotifyList)
    BY LenProperties DEF TypeOK
  <1>2. CASE h \notin Handles
    BY <1>2 DEF KeypadUnregisterKeyNotify, Handles
  <1>3. CASE h \in Handles
    <2> DEFINE n == NodeOf(h)
               i == NodeOf(g)
    <2>1. n \in 1 .. Len(NotifyList) /\ NotifyList[n].handle = h
          /\ i \in 1 .. Len(NotifyList) /\ NotifyList[i].handle = g
      BY <1>1, <1>3, NodeTyping
    <2>2. /\ NotifyList' \in Seq(Registration)
          /\ Len(NotifyList') = Len(NotifyList) - 1
          /\ \A j \in 1 .. Len(NotifyList') :
               NotifyList'[j] = IF j < n THEN NotifyList[j] ELSE NotifyList[j + 1]
      BY <1>3, UnregisterList
    <2>3. DOMAIN NotifyList' = 1 .. Len(NotifyList')
      BY <2>2, LenProperties
    <2> HIDE DEF n, i
    <2>4. i # n
      BY <2>1
    <2>5. CASE i < n
      <3>1. i \in 1 .. Len(NotifyList') /\ NotifyList'[i] = NotifyList[i]
        BY <1>1, <2>1, <2>2, <2>5
      <3> QED BY <2>1, <2>3, <3>1 DEF Handles
    <2>6. CASE i > n
      <3>1. i - 1 \in 1 .. Len(NotifyList') /\ ~(i - 1 < n) /\ (i - 1) + 1 = i
        BY <1>1, <2>1, <2>2, <2>6
      <3>2. NotifyList'[i - 1] = NotifyList[i]
        BY <2>2, <3>1
      <3> QED BY <2>1, <2>3, <3>1, <3>2 DEF Handles
    <2> QED BY <2>1, <2>4, <2>5, <2>6
  <1> QED BY <1>2, <1>3

\* While no notification function unregisters itself, the handler only ever
\* follows the links of nodes that are in the list, whatever else is
\* registered and unregistered between two of its steps.
THEOREM KeypadHandlerLinkLive ==
  ASSUME ~SelfUnregister
  PROVE  Spec => []HandlerLinkLive
  <1>1. Init => HandlerLinkLive
    BY DEF Init, Idle, HandlerLinkLive
  <1>2. TypeOK /\ HandlerLinkLive /\ [Next]_vars => HandlerLinkLive'
    <2> SUFFICES ASSUME TypeOK, HandlerLinkLive, [Next]_vars
                 PROVE  HandlerLinkLive'
      OBVIOUS
    <2>1. ASSUME UNCHANGED <<NotifyList, handler>> PROVE HandlerLinkLive'
      BY <2>1 DEF HandlerLinkLive, Handles
    <2>2. CASE \E k \in Typed : KeypadTimerHandler(k)
      BY <2>1, <2>2 DEF KeypadTimerHandler
    <2>3. ASSUME NEW c \in Callers,
                 \/ ReadKeyStroke(c) \/ ReadKeyStrokeEx(c) \/ KeypadWaitForKey(c)
                 \/ KeypadEfiReset(c) \/ KeypadSetState(c)
          PROVE  HandlerLinkLive'
      BY <2>1, <2>3 DEF ReadKeyStroke, ReadKeyStrokeEx, KeypadWaitForKey, KeypadEfiReset,
                        KeypadSetState
    <2>4. ASSUME NEW c \in Callers, NEW KeyData \in Wanted, NEW fn \in Fn,
                 KeypadRegisterKeyNotify(c, KeyData, fn)
          PROVE  HandlerLinkLive'
      <3>1. Handles \subseteq Handles' /\ handler' = handler
        BY <2>4, RegisterHandles DEF KeypadRegisterKeyNotify
      <3> QED BY <3>1 DEF HandlerLinkLive
    <2>5. ASSUME NEW c \in Callers, NEW h \in Handle, KeypadUnregisterKeyNotify(c, h)
          PROVE  HandlerLinkLive'
      <3>1. handler' = handler /\ ~Running(h) /\ Runs(c)
        BY <2>5 DEF KeypadUnregisterKeyNotify, Calls
      <3>2. handler.pc \in {"idle", "call"}
        BY <3>1, CallersAssumption DEF Runs
      <3>3. CASE handler.pc = "call"
        <4>1. handler.Link \in Handles /\ handler.Link # h
          BY <3>1, <3>3 DEF HandlerLinkLive, Running
        <4>2. handler.Link \in Handles'
          BY <2>5, <4>1, UnregisterHandles
        <4> QED BY <3>1, <3>3, <4>2 DEF HandlerLinkLive
      <3> QED BY <3>1, <3>2, <3>3 DEF HandlerLinkLive
    <2>6. NotifyList \in Seq(Registration)
      BY DEF TypeOK
    <2>7. CASE HandlerDispatch \/ HandlerExit
      BY <2>7 DEF HandlerDispatch, HandlerExit, Idle, HandlerUnchanged, HandlerLinkLive, TypeOK
    <2>8. CASE HandlerPop
      <3>1. FirstNode \in Handles \cup {NULL} /\ Handles' = Handles
        BY <2>6, <2>8, NodeTyping DEF HandlerPop, HandlerUnchanged, Handles
      <3> QED BY <2>8, <3>1 DEF HandlerPop, Idle, HandlerLinkLive
    <2>9. CASE HandlerVisit
      <3>1. Handles' = Handles /\ handler.Link \in Handles \cup {NULL}
        BY <2>9 DEF HandlerVisit, HandlerUnchanged, Handles
      <3>2. handler.Link # NULL => NextNode(handler.Link) \in Handles \cup {NULL}
        BY <2>6, <3>1, NodeTyping
      <3> QED BY <2>9, <3>1, <3>2 DEF HandlerVisit, Idle, HandlerLinkLive, TypeOK
    <2>10. CASE CallbackReturn
      <3>1. Handles' = Handles /\ handler.Link \in Handles
        BY <2>10 DEF CallbackReturn, HandlerUnchanged, Handles, HandlerLinkLive
      <3>2. LinkOf(handler.Link) \subseteq Handles \cup {NULL}
        BY <2>6, <3>1, NodeTyping DEF LinkOf
      <3> QED BY <2>10, <3>1, <3>2 DEF CallbackReturn, HandlerLinkLive, TypeOK
    <2>11. CASE UNCHANGED vars
      BY <2>1, <2>11 DEF vars
    <2> QED BY <2>2, <2>3, <2>4, <2>5, <2>7, <2>8, <2>9, <2>10, <2>11
            DEF Next, Service, Handler
  <1> QED BY <1>1, <1>2, KeypadTypeOK, PTL DEF Spec

(***************************************************************************)
(* Everybody hears.  No two nodes have one address, so the node of a       *)
(* handle has one place in the list; those who wait are the matching nodes *)
(* from a place on: the next one to visit, or the one after the function   *)
(* that runs.                                                              *)
(***************************************************************************)
Distinct(list) ==
  \A i, j \in DOMAIN list : list[i].handle = list[j].handle => i = j

Hearers(list, k, n) ==
  {list[i].handle : i \in {j \in DOMAIN list : /\ IsKeyRegistered(list[j].KeyData, k)
                                               /\ n <= j}}

Place(list, l) ==
  IF l = NULL THEN Len(list) + 1 ELSE CHOOSE i \in DOMAIN list : list[i].handle = l

Hears ==
  /\ handler.pc = "walk" =>
       waiting = Hearers(NotifyList, handler.KeyData, Place(NotifyList, handler.Link))
  /\ handler.pc = "call" =>
       waiting = Hearers(NotifyList, handler.KeyData, Place(NotifyList, handler.Link) + 1)

\* The node of a handle is the only one with it.
LEMMA PlaceOfHandle ==
  ASSUME NEW list \in Seq(Registration), Distinct(list), NEW i \in 1 .. Len(list)
  PROVE  list[i].handle # NULL /\ Place(list, list[i].handle) = i
  <1> DEFINE h == list[i].handle
             p == CHOOSE j \in DOMAIN list : list[j].handle = h
  <1>1. i \in DOMAIN list /\ list[i] \in Registration
    BY LenProperties, ElementOfSeq
  <1>2. h \in Handle /\ h # NULL
    BY <1>1, NullAssumption DEF Registration
  <1>3. p \in DOMAIN list /\ list[p].handle = h
    BY <1>1
  <1>4. p = i
    BY <1>1, <1>3 DEF Distinct
  <1>5. Place(list, h) = p
    BY <1>2 DEF Place
  <1> QED BY <1>2, <1>4, <1>5

\* The handler visits one place after the other, from the first to the last.
LEMMA Places ==
  ASSUME NotifyList \in Seq(Registration), Distinct(NotifyList)
  PROVE  /\ Place(NotifyList, FirstNode) = 1
         /\ \A h \in Handles :
              /\ h # NULL
              /\ NodeOf(h) \in 1 .. Len(NotifyList) /\ NotifyList[NodeOf(h)].handle = h
              /\ Place(NotifyList, h) = NodeOf(h)
              /\ Place(NotifyList, NextNode(h)) = NodeOf(h) + 1
  <1>1. Len(NotifyList) \in Nat /\ DOMAIN NotifyList = 1 .. Len(NotifyList)
    BY LenProperties
  <1>2. Place(NotifyList, NULL) = Len(NotifyList) + 1
    BY DEF Place
  <1>3. Place(NotifyList, FirstNode) = 1
    <2>1. CASE NotifyList = << >>
      BY <1>2, <2>1, EmptySeq DEF FirstNode
    <2>2. CASE NotifyList # << >>
      <3>1. 1 \in 1 .. Len(NotifyList)
        BY <1>1, <2>2, EmptySeq
      <3> QED BY <2>2, <3>1, PlaceOfHandle DEF FirstNode
    <2> QED BY <2>1, <2>2
  <1>4. ASSUME NEW h \in Handles
        PROVE  /\ h # NULL
               /\ NodeOf(h) \in 1 .. Len(NotifyList) /\ NotifyList[NodeOf(h)].handle = h
               /\ Place(NotifyList, h) = NodeOf(h)
               /\ Place(NotifyList, NextNode(h)) = NodeOf(h) + 1
    <2> DEFINE n == NodeOf(h)
    <2>1. n \in 1 .. Len(NotifyList) /\ NotifyList[n].handle = h
      BY <1>4, NodeTyping
    <2>2. h # NULL /\ Place(NotifyList, h) = n
      BY <2>1, PlaceOfHandle
    <2>3. CASE n = Len(NotifyList)
      <3>1. NextNode(h) = NULL
        BY <2>3 DEF NextNode
      <3> QED BY <1>2, <2>1, <2>2, <2>3, <3>1
    <2>4. CASE n # Len(NotifyList)
      <3>1. n + 1 \in 1 .. Len(NotifyList)
        BY <1>1, <2>1, <2>4
      <3>2. NextNode(h) = NotifyList[n + 1].handle
        BY <2>4 DEF NextNode
      <3>3. Place(NotifyList, NextNode(h)) = n + 1
        BY <3>1, <3>2, PlaceOfHandle
      <3> QED BY <2>1, <2>2, <3>3
    <2> QED BY <2>1, <2>2, <2>3, <2>4
  <1> QED BY <1>3, <1>4

\* A new node is at the end: no other changes its place, and one more hears.
LEMMA RegisterHears ==
  ASSUME NEW list \in Seq(Registration), Distinct(list), NEW r \in Registration,
         \A i \in 1 .. Len(list) : list[i].handle # r.handle
  PROVE  /\ Distinct(Append(list, r))
         /\ \A i \in 1 .. Len(list) : Place(Append(list, r), list[i].handle) = i
         /\ \A k : \A n \in 1 .. Len(list) + 1 :
              Hearers(Append(list, r), k, n) =
                Hearers(list, k, n) \cup IF IsKeyRegistered(r.KeyData, k) THEN {r.handle} ELSE {}
  <1> DEFINE m == Len(list)
             new == Append(list, r)
  <1>1. m \in Nat /\ DOMAIN list = 1 .. m
    BY LenProperties
  <1>2. /\ new \in Seq(Registration) /\ Len(new) = m + 1 /\ DOMAIN new = 1 .. m + 1
        /\ new[m + 1] = r /\ \A i \in 1 .. m : new[i] = list[i]
    BY AppendProperties, LenProperties
  <1> HIDE DEF m, new
  <1>3. \A i : i \in 1 .. m + 1 <=> i \in 1 .. m \/ i = m + 1
    BY <1>1
  <1>4. \A i \in 1 .. m : list[i].handle # r.handle
    BY DEF m
  <1>5. Distinct(new)
    BY <1>1, <1>2, <1>3, <1>4 DEF Distinct
  <1>6. \A i \in 1 .. m : Place(new, list[i].handle) = i
    BY <1>2, <1>3, <1>5, PlaceOfHandle
  <1>7. ASSUME NEW k, NEW n \in 1 .. m + 1
        PROVE  Hearers(new, k, n) =
                 Hearers(list, k, n) \cup IF IsKeyRegistered(r.KeyData, k) THEN {r.handle} ELSE {}
    <2> DEFINE Ahead(s) == {j \in DOMAIN s : IsKeyRegistered(s[j].KeyData, k) /\ n <= j}
    <2>1. Hearers(new, k, n) = {new[i].handle : i \in Ahead(new)}
          /\ Hearers(list, k, n) = {list[i].handle : i \in Ahead(list)}
      BY DEF Hearers
    <2>2. n <= m + 1
      BY <1>1, <1>7
    <2>3. Ahead(new) = Ahead(list) \cup IF IsKeyRegistered(r.KeyData, k) THEN {m + 1} ELSE {}
      BY <1>1, <1>2, <1>3, <2>2
    <2>4. \A i \in Ahead(list) : new[i] = list[i]
      BY <1>1, <1>2
    <2> HIDE DEF Ahead
    <2> QED BY <1>2, <2>1, <2>3, <2>4
  <1> QED BY <1>5, <1>6, <1>7 DEF m, new

\* A node taken out of the list hears no more; all the others keep their order.
LEMMA UnregisterHears ==
  ASSUME NEW list \in Seq(Registration), Distinct(list), NEW n \in 1 .. Len(list),
         NEW new \in Seq(Registration), Len(new) = Len(list) - 1,
         \A j \in 1 .. Len(new) : new[j] = IF j < n THEN list[j] ELSE list[j + 1]
  PROVE  /\ Distinct(new)
         /\ \A k : \A p \in 1 .. Len(list) : p # n =>
              Hearers(new, k, Place(new, list[p].handle) + 1) =
                Hearers(list, k, p + 1) \ {list[n].handle}
  <1> DEFINE m == Len(list)
             old(j) == IF j < n THEN j ELSE j + 1
             late(i) == IF i < n THEN i ELSE i - 1
  <1>1. m \in Nat /\ DOMAIN list = 1 .. m /\ DOMAIN new = 1 .. m - 1 /\ n \in 1 .. m
    BY LenProperties
  <1>2. \A j \in 1 .. m - 1 : new[j] = list[old(j)]
    OBVIOUS
  <1>3. Len(new) = m - 1
    OBVIOUS
  <1> HIDE DEF m
  <1>4. \A j \in 1 .. m - 1 : old(j) \in 1 .. m /\ old(j) # n
    BY <1>1
  <1>5. \A i \in 1 .. m : i # n => late(i) \in 1 .. m - 1 /\ old(late(i)) = i
    BY <1>1
  <1>6. \A i, j \in 1 .. m - 1 : /\ old(i) = old(j) => i = j
                                 /\ i + 1 <= j <=> old(i) + 1 <= old(j)
    BY <1>1
  <1>7. \A i, j \in 1 .. m : list[i].handle = list[j].handle => i = j
    BY <1>1 DEF Distinct
  <1> HIDE DEF old, late
  <1>8. Distinct(new)
    <2>1. ASSUME NEW i \in 1 .. m - 1, NEW j \in 1 .. m - 1, new[i].handle = new[j].handle
          PROVE  i = j
      <3>1. old(i) = old(j)
        BY <1>2, <1>4, <1>7, <2>1
      <3> QED BY <1>6, <3>1
    <2> QED BY <1>1, <2>1 DEF Distinct
  <1>9. ASSUME NEW k, NEW p \in 1 .. m, p # n
        PROVE  Hearers(new, k, Place(new, list[p].handle) + 1) =
                 Hearers(list, k, p + 1) \ {list[n].handle}
    <2> DEFINE q == late(p)
    <2>1. q \in 1 .. m - 1 /\ old(q) = p /\ new[q].handle = list[p].handle
      BY <1>2, <1>5, <1>9
    <2>2. Place(new, list[p].handle) = q
      BY <1>3, <1>8, <2>1, PlaceOfHandle
    <2> HIDE DEF q
    <2>3. ASSUME NEW x \in Hearers(new, k, q + 1)
          PROVE  x \in Hearers(list, k, p + 1) \ {list[n].handle}
      <3>1. PICK j \in 1 .. m - 1 : /\ IsKeyRegistered(new[j].KeyData, k)
                                    /\ q + 1 <= j /\ x = new[j].handle
        BY <1>1, <2>3 DEF Hearers
      <3>2. /\ old(j) \in 1 .. m /\ old(j) # n /\ x = list[old(j)].handle
            /\ IsKeyRegistered(list[old(j)].KeyData, k)
        BY <1>2, <1>4, <3>1
      <3>3. p + 1 <= old(j)
        BY <1>6, <2>1, <3>1
      <3>4. x # list[n].handle
        BY <1>1, <1>7, <3>2
      <3> QED BY <1>1, <3>2, <3>3, <3>4 DEF Hearers
    <2>4. ASSUME NEW x \in Hearers(list, k, p + 1) \ {list[n].handle}
          PROVE  x \in Hearers(new, k, q + 1)
      <3>1. PICK i \in 1 .. m : /\ IsKeyRegistered(list[i].KeyData, k)
                                /\ p + 1 <= i /\ x = list[i].handle
        BY <1>1, <2>4 DEF Hearers
      <3>2. i # n
        BY <2>4, <3>1
      <3>3. late(i) \in 1 .. m - 1 /\ old(late(i)) = i /\ new[late(i)] = list[i]
        BY <1>2, <1>5, <3>2
      <3>4. q + 1 <= late(i)
        BY <1>6, <2>1, <3>1, <3>3
      <3> QED BY <1>1, <3>1, <3>3, <3>4 DEF Hearers
    <2> QED BY <2>2, <2>3, <2>4
  <1> QED BY <1>8, <1>9 DEF m

\* If no function unregisters itself: while the handler walks the list, exactly
\* the functions of the matching nodes ahead wait for its key, so that each one
\* registered for it hears it once, whatever the functions it calls do to the
\* list (KeyNotifyProcessHandler).
THEOREM KeypadEveryFunctionHears ==
  ASSUME ~SelfUnregister
  PROVE  Spec => []EveryFunctionHears
  <1>1. Init => Distinct(NotifyList) /\ Hears
    BY EmptySeq DEF Init, Idle, Distinct, Hears
  <1>2. /\ TypeOK /\ HandlerLinkLive /\ Distinct(NotifyList) /\ Hears /\ [Next]_vars
        => Distinct(NotifyList)' /\ Hears'
    <2> SUFFICES ASSUME TypeOK, HandlerLinkLive, Distinct(NotifyList), Hears, [Next]_vars
                 PROVE  Distinct(NotifyList)' /\ Hears'
      OBVIOUS
    <2>1. NotifyList \in Seq(Registration) /\ Len(NotifyList) \in Nat
          /\ DOMAIN NotifyList = 1 .. Len(NotifyList)
      BY LenProperties DEF TypeOK
    <2>2. ASSUME UNCHANGED <<NotifyList, handler, waiting>>
          PROVE  Distinct(NotifyList)' /\ Hears'
      BY <2>2 DEF Hears
    <2>3. handler.pc = "call" =>
            /\ handler.Link \in Handles
            /\ NodeOf(handler.Link) \in 1 .. Len(NotifyList)
            /\ NotifyList[NodeOf(handler.Link)].handle = handler.Link
            /\ Place(NotifyList, handler.Link) = NodeOf(handler.Link)
      BY <2>1, Places DEF HandlerLinkLive
    <2>4. ASSUME NEW c \in Callers, NEW KeyData \in Wanted, NEW fn \in Fn,
                 KeypadRegisterKeyNotify(c, KeyData, fn)
          PROVE  Distinct(NotifyList)' /\ Hears'
      <3>1. handler' = handler /\ handler.pc # "walk"
        BY <2>4, CallersAssumption DEF KeypadRegisterKeyNotify, Calls, Runs
      <3>2. ASSUME NEW h \in Handle \ Handles,
                   NotifyList' = Append(NotifyList, [handle |-> h, KeyData |-> KeyData,
                                                     KeyNotificationFn |-> fn]),
                   waiting' = waiting \cup Hearing(h, KeyData)
            PROVE  Distinct(NotifyList)' /\ Hears'
        <4> DEFINE r == [handle |-> h, KeyData |-> KeyData, KeyNotificationFn |-> fn]
        <4>1. r \in Registration /\ r.handle = h /\ r.KeyData = KeyData
          BY KeyAssumption DEF Registration
        <4>2. NotifyList' = Append(NotifyList, r)
          BY <3>2
        <4>3. \A i \in 1 .. Len(NotifyList) : NotifyList[i].handle # r.handle
          BY <2>1, <3>2 DEF Handles
        <4> HIDE DEF r
        <4>4. /\ Distinct(NotifyList')
              /\ \A i \in 1 .. Len(NotifyList) : Place(NotifyList', NotifyList[i].handle) = i
              /\ \A k : \A n \in 1 .. Len(NotifyList) + 1 :
                   Hearers(NotifyList', k, n) = Hearers(NotifyList, k, n) \cup
                     IF IsKeyRegistered(r.KeyData, k) THEN {r.handle} ELSE {}
          BY <2>1, <4>1, <4>2, <4>3, RegisterHears
        <4>5. CASE handler.pc = "call"
          <5> DEFINE p == NodeOf(handler.Link)
                     k == handler.KeyData
          <5>1. p \in 1 .. Len(NotifyList) /\ p + 1 \in 1 .. Len(NotifyList) + 1
            BY <2>1, <2>3, <4>5
          <5>2. Place(NotifyList', handler.Link) = p
            BY <2>3, <4>4, <4>5
          <5>3. Hearing(h, KeyData) = IF IsKeyRegistered(r.KeyData, k) THEN {r.handle} ELSE {}
            BY <4>1, <4>5 DEF Hearing
          <5>4. waiting = Hearers(NotifyList, k, p + 1)
            BY <2>3, <4>5 DEF Hears
          <5> HIDE DEF p, k
          <5>5. waiting' = Hearers(NotifyList', k, p + 1)
            BY <3>2, <4>4, <5>1, <5>3, <5>4
          <5> QED BY <3>1, <4>4, <4>5, <5>2, <5>5 DEF Hears, p, k
        <4> QED BY <2>4, <3>1, <4>4, <4>5 DEF Hears
      <3> QED BY <2>2, <2>4, <3>1, <3>2 DEF KeypadRegisterKeyNotify, InsertTailList
    <2>5. ASSUME NEW c \in Callers, NEW h \in Handle, KeypadUnregisterKeyNotify(c, h)
          PROVE  Distinct(NotifyList)' /\ Hears'
      <3>1. handler' = handler /\ handler.pc # "walk" /\ waiting' = waiting \ {h}
            /\ ~Running(h)
        BY <2>5, CallersAssumption DEF KeypadUnregisterKeyNotify, Calls, Runs
      <3>2. CASE h \notin Handles
        <4>1. UNCHANGED NotifyList
          BY <2>5, <3>2 DEF KeypadUnregisterKeyNotify
        <4>2. \A k, n : Hearers(NotifyList, k, n) \subseteq Handles
          BY DEF Hearers, Handles
        <4>3. handler.pc = "call" => waiting' = waiting
          BY <3>1, <3>2, <4>2 DEF Hears
        <4> QED BY <3>1, <4>1, <4>3 DEF Hears
      <3>3. CASE h \in Handles
        <4> DEFINE n == NodeOf(h)
        <4>1. n \in 1 .. Len(NotifyList) /\ NotifyList[n].handle = h
          BY <2>1, <3>3, NodeTyping
        <4>2. /\ NotifyList' \in Seq(Registration)
              /\ Len(NotifyList') = Len(NotifyList) - 1
              /\ \A j \in 1 .. Len(NotifyList') :
                   NotifyList'[j] = IF j < n THEN NotifyList[j] ELSE NotifyList[j + 1]
          BY <2>5, <3>3, UnregisterList
        <4> HIDE DEF n
        <4>3. /\ Distinct(NotifyList')
              /\ \A k : \A p \in 1 .. Len(NotifyList) : p # n =>
                   Hearers(NotifyList', k, Place(NotifyList', NotifyList[p].handle) + 1) =
                     Hearers(NotifyList, k, p + 1) \ {NotifyList[n].handle}
          BY <2>1, <4>1, <4>2, UnregisterHears
        <4>4. CASE handler.pc = "call"
          <5> DEFINE p == NodeOf(handler.Link)
                     k == handler.KeyData
          <5>1. handler.Link # h
            BY <3>1, <4>4 DEF Running
          <5>2. p \in 1 .. Len(NotifyList) /\ NotifyList[p].handle = handler.Link
            BY <2>3, <4>4
          <5>3. p # n
            BY <4>1, <5>1, <5>2
          <5>4. waiting = Hearers(NotifyList, k, p + 1)
            BY <2>3, <4>4 DEF Hears
          <5> HIDE DEF p, k
          <5>5. waiting' = Hearers(NotifyList', k, Place(NotifyList', handler.Link) + 1)
            BY <3>1, <4>1, <4>3, <5>2, <5>3, <5>4
          <5> QED BY <3>1, <4>3, <4>4, <5>5 DEF Hears, k
        <4> QED BY <3>1, <4>3, <4>4 DEF Hears
      <3> QED BY <3>2, <3>3
    <2>6. CASE HandlerDispatch \/ HandlerExit
      BY <2>6 DEF HandlerDispatch, HandlerExit, HandlerUnchanged, Idle, Hears, TypeOK
    <2>7. CASE HandlerPop
      <3>1. UNCHANGED NotifyList
        BY <2>7 DEF HandlerPop, HandlerUnchanged
      <3>2. CASE EfiKeyQueueForNotify = << >>
        BY <2>7, <3>1, <3>2 DEF HandlerPop, Idle, Hears
      <3>3. CASE EfiKeyQueueForNotify # << >>
        <4> DEFINE k == Head(EfiKeyQueueForNotify)
        <4>1. /\ waiting' = {NotifyList[i].handle : i \in Matches(k)}
              /\ handler' = [pc |-> "walk", KeyData |-> k, Link |-> FirstNode]
          BY <2>7, <3>3 DEF HandlerPop
        <4> HIDE DEF k
        <4>2. Matches(k) = {j \in DOMAIN NotifyList : /\ IsKeyRegistered(NotifyList[j].KeyData, k)
                                                      /\ 1 <= j}
          BY <2>1 DEF Matches
        <4>3. waiting' = Hearers(NotifyList, k, 1)
          BY <4>1, <4>2 DEF Hearers
        <4>4. handler'.pc = "walk" /\ handler'.KeyData = k /\ handler'.Link = FirstNode
          BY <4>1
        <4>5. Place(NotifyList', handler'.Link) = 1
          BY <2>1, <3>1, <4>4, Places
        <4> QED BY <3>1, <4>3, <4>4, <4>5 DEF Hears
      <3> QED BY <3>2, <3>3
    <2>8. CASE HandlerVisit
      <3>1. UNCHANGED NotifyList /\ handler.pc = "walk"
            /\ waiting = Hearers(NotifyList, handler.KeyData, Place(NotifyList, handler.Link))
        BY <2>8 DEF HandlerVisit, HandlerUnchanged, Hears
      <3>2. CASE handler.Link = NULL
        BY <2>8, <3>1, <3>2 DEF HandlerVisit, Idle, Hears
      <3>3. CASE handler.Link # NULL
        <4> DEFINE l == handler.Link
                   k == handler.KeyData
                   a == NodeOf(handler.Link)
                   next == NextNode(handler.Link)
        <4>1. l \in Handles
          BY <2>8, <3>3 DEF HandlerVisit
        <4>2. /\ a \in 1 .. Len(NotifyList) /\ NotifyList[a].handle = l
              /\ Place(NotifyList, l) = a /\ Place(NotifyList, next) = a + 1
          BY <2>1, <4>1, Places
        <4>3. waiting = Hearers(NotifyList, k, a)
          BY <3>1, <4>2
        <4>4. IsKeyRegistered(NotifyList[a].KeyData, k) =>
                handler' = [handler EXCEPT !.pc = "call"]
          BY <2>8, <3>3 DEF HandlerVisit
        <4>5. ~IsKeyRegistered(NotifyList[a].KeyData, k) =>
                handler' = [handler EXCEPT !.Link = next]
          BY <2>8, <3>3 DEF HandlerVisit
        <4>6. waiting' = IF handler'.pc = "call" THEN waiting \ {l} ELSE waiting
          BY <2>8 DEF HandlerVisit
        <4>7. l \in Handle
          BY <3>3 DEF TypeOK
        <4> HIDE DEF l, k, a, next
        <4>8. Hearers(NotifyList, k, a + 1) = Hearers(NotifyList, k, a) \ {l}
              /\ (~IsKeyRegistered(NotifyList[a].KeyData, k) =>
                    Hearers(NotifyList, k, a + 1) = Hearers(NotifyList, k, a))
          <5> DEFINE Ahead(n) == {j \in DOMAIN NotifyList :
                                    IsKeyRegistered(NotifyList[j].KeyData, k) /\ n <= j}
          <5>1. \A n : Hearers(NotifyList, k, n) = {NotifyList[i].handle : i \in Ahead(n)}
            BY DEF Hearers
          <5>2. Ahead(a + 1) = Ahead(a) \ {a}
            BY <2>1, <4>2
          <5>3. \A i \in Ahead(a) : NotifyList[i].handle = l <=> i = a
            BY <2>1, <4>2 DEF Distinct
          <5>4. ~IsKeyRegistered(NotifyList[a].KeyData, k) => a \notin Ahead(a)
            OBVIOUS
          <5> HIDE DEF Ahead
          <5>5. {NotifyList[i].handle : i \in Ahead(a) \ {a}}
                  = {NotifyList[i].handle : i \in Ahead(a)} \ {l}
            BY <5>3
          <5>6. a \notin Ahead(a) => Ahead(a) \ {a} = Ahead(a)
            OBVIOUS
          <5> QED BY <5>1, <5>2, <5>4, <5>5, <5>6
        <4>9. CASE IsKeyRegistered(NotifyList[a].KeyData, k)
          <5>1. handler'.pc = "call" /\ handler'.Link = l /\ handler'.KeyData = k
            BY <4>4, <4>9 DEF TypeOK, l, k
          <5>2. waiting' = Hearers(NotifyList', k, Place(NotifyList', l) + 1)
            BY <3>1, <4>2, <4>3, <4>6, <4>8, <5>1
          <5> QED BY <3>1, <5>1, <5>2 DEF Hears
        <4>10. CASE ~IsKeyRegistered(NotifyList[a].KeyData, k)
          <5>1. handler'.pc = "walk" /\ handler'.Link = next /\ handler'.KeyData = k
            BY <3>1, <4>5, <4>10 DEF TypeOK, k
          <5>2. waiting' = Hearers(NotifyList', k, Place(NotifyList', next))
            BY <3>1, <4>2, <4>3, <4>6, <4>8, <4>10, <5>1
          <5> QED BY <3>1, <5>1, <5>2 DEF Hears
        <4> QED BY <4>9, <4>10
      <3> QED BY <3>2, <3>3
    <2>9. CASE CallbackReturn
      <3> DEFINE k == handler.KeyData
                 a == NodeOf(handler.Link)
                 next == NextNode(handler.Link)
      <3>1. /\ UNCHANGED <<NotifyList, waiting>> /\ handler.pc = "call"
            /\ handler.Link \in Handles
            /\ waiting = Hearers(NotifyList, k, a + 1)
        BY <2>3, <2>9 DEF CallbackReturn, HandlerUnchanged, Hears
      <3>2. handler' = [handler EXCEPT !.pc = "walk", !.Link = next]
        BY <2>9, <3>1 DEF CallbackReturn, LinkOf
      <3>3. handler'.pc = "walk" /\ handler'.Link = next /\ handler'.KeyData = k
        BY <3>2 DEF TypeOK
      <3>4. Place(NotifyList, next) = a + 1
        BY <2>1, <3>1, Places
      <3> HIDE DEF k, a, next
      <3> QED BY <3>1, <3>3, <3>4 DEF Hears
    <2>10. CASE \E k \in Typed : KeypadTimerHandler(k)
      BY <2>2, <2>10 DEF KeypadTimerHandler
    <2>11. ASSUME NEW c \in Callers,
                  \/ ReadKeyStroke(c) \/ ReadKeyStrokeEx(c) \/ KeypadWaitForKey(c)
                  \/ KeypadEfiReset(c) \/ KeypadSetState(c)
           PROVE  Distinct(NotifyList)' /\ Hears'
      BY <2>2, <2>11 DEF ReadKeyStroke, ReadKeyStrokeEx, KeypadWaitForKey, KeypadEfiReset,
                         KeypadSetState
    <2>12. CASE UNCHANGED vars
      BY <2>2, <2>12 DEF vars
    <2> QED BY <2>4, <2>5, <2>6, <2>7, <2>8, <2>9, <2>10, <2>11, <2>12
            DEF Next, Service, Handler
  <1>3. TypeOK /\ Distinct(NotifyList) /\ HandlerLinkLive /\ Hears => EveryFunctionHears
    <2> SUFFICES ASSUME TypeOK, Distinct(NotifyList), HandlerLinkLive, Hears,
                        handler.pc = "walk"
                 PROVE  waiting = {NotifyList[i].handle :
                          i \in {j \in Matches(handler.KeyData) :
                                   handler.Link # NULL /\ NodeOf(handler.Link) <= j}}
      BY DEF EveryFunctionHears
    <2>1. DOMAIN NotifyList = 1 .. Len(NotifyList) /\ Len(NotifyList) \in Nat
          /\ NotifyList \in Seq(Registration)
      BY LenProperties DEF TypeOK
    <2>2. CASE handler.Link = NULL
      BY <2>1, <2>2 DEF Hears, Hearers, Place, Matches
    <2>3. CASE handler.Link # NULL
      <3>1. Place(NotifyList, handler.Link) = NodeOf(handler.Link)
        BY <2>1, <2>3, Places DEF HandlerLinkLive
      <3> QED BY <2>3, <3>1 DEF Hears, Hearers, Matches
    <2> QED BY <2>2, <2>3
  <1> QED BY <1>1, <1>2, <1>3, KeypadTypeOK, KeypadHandlerLinkLive, PTL DEF Spec

(***************************************************************************)
(* Promises are kept.                                                      *)
(***************************************************************************)
\* A poll keeps a promise unless it crowds the queue.
LEMMA PollKeepsPromise ==
  ASSUME TypeOK, PromiseKept, NEW k \in CanArrive, PromiseStands(k), promised', ~crowded'
  PROVE  ValueKeys(QueueWith(k)) # {}
  <1>1. EfiKeyQueue \in Queue /\ ValueKeys(EfiKeyQueue) # {}
    BY DEF TypeOK, PromiseKept, PromiseStands
  <1>2. CASE ~Accepted(k)
    BY <1>1, <1>2 DEF QueueWith
  <1>3. CASE Accepted(k) /\ k \notin Partial
    BY <1>1, <1>3, PollTyping, NewestAppend DEF QueueWith
  <1>4. CASE Accepted(k) /\ k \in Partial
    <2> ~(Len(EfiKeyQueue) = Capacity)
      BY <1>4, Zenon DEF PromiseStands
    <2>1. EfiKeyQueue \in Seq(Key) /\ Len(EfiKeyQueue) \in Nat
          /\ Len(EfiKeyQueue) < Capacity
      BY <1>1, LenProperties, CapacityAssumption DEF Queue
    <2>2. k \in Key
      BY <1>4, PollTyping
    <2>3. QueueWith(k) = Append(EfiKeyQueue, k)
      BY <1>1, <1>4, <2>1, <2>2, NewestAppend DEF QueueWith
    <2>4. Len(QueueWith(k)) = Len(EfiKeyQueue) + 1
          /\ \A i \in 1 .. Len(EfiKeyQueue) : QueueWith(k)[i] = EfiKeyQueue[i]
      BY <2>1, <2>2, <2>3, AppendProperties
    <2>5. ValueKeys(EfiKeyQueue) \subseteq ValueKeys(QueueWith(k))
      BY <2>1, <2>4 DEF ValueKeys
    <2> QED BY <1>1, <2>5
  <1> QED BY <1>2, <1>3, <1>4

\* Once WaitForKey was signalled an ordinary key stays in the queue until a
\* reader takes one or the device is reset, unless a partial keystroke comes
\* into the full queue (KeypadWaitForKey).
THEOREM KeypadPromiseKept == Spec => []PromiseKept
  <1>1. Init => PromiseKept
    BY DEF Init, PromiseKept
  <1>2. TypeOK /\ PromiseKept /\ [Next]_vars => PromiseKept'
    <2> SUFFICES ASSUME TypeOK, PromiseKept, [Next]_vars PROVE PromiseKept'
      OBVIOUS
    <2>1. ASSUME UNCHANGED <<EfiKeyQueue, promise>> PROVE PromiseKept'
      BY <2>1 DEF PromiseKept, ValueKeys, promise
    <2>2. ASSUME NEW k \in CanArrive, PromiseStands(k), promised', ~crowded',
                 QueueWith(k) # << >>, Head(QueueWith(k)) \in Partial
          PROVE  ValueKeys(Tail(QueueWith(k))) # {}
      BY <2>2, PollKeepsPromise, PollTyping, TailTyping
    <2>3. ASSUME NEW k \in Typed, KeypadTimerHandler(k) PROVE PromiseKept'
      BY <2>3, PollKeepsPromise DEF KeypadTimerHandler, PromiseKept
    <2>4. ASSUME NEW c \in Callers, ReadKeyStroke(c) PROVE PromiseKept'
      <3>1. PICK k \in CanArrive :
              \/ QueueWith(k) = << >> /\ PromiseStands(k)
              \/ PromiseOver
              \/ /\ QueueWith(k) # << >> /\ Head(QueueWith(k)) \in Partial
                 /\ EfiKeyQueue' = Tail(QueueWith(k))
                 /\ PromiseStands(k)
        BY <2>4 DEF ReadKeyStroke
      <3>2. QueueWith(k) = << >> /\ PromiseStands(k) => ~promised' \/ crowded'
        BY PollKeepsPromise, EmptySeq DEF ValueKeys
      <3> QED BY <2>2, <3>1, <3>2 DEF PromiseKept, PromiseOver
    <2>5. ASSUME NEW c \in Callers, ReadKeyStrokeEx(c) PROVE PromiseKept'
      <3>1. PICK k \in CanArrive :
              \/ QueueWith(k) = << >> /\ PromiseStands(k)
              \/ PromiseOver
              \/ /\ QueueWith(k) # << >> /\ Head(QueueWith(k)) \in Partial
                 /\ EfiKeyQueue' = Tail(QueueWith(k))
                 /\ PromiseStands(k)
        BY <2>5 DEF ReadKeyStrokeEx
      <3>2. QueueWith(k) = << >> /\ PromiseStands(k) => ~promised' \/ crowded'
        BY PollKeepsPromise, EmptySeq DEF ValueKeys
      <3> QED BY <2>2, <3>1, <3>2 DEF PromiseKept, PromiseOver
    <2>6. ASSUME NEW c \in Callers, KeypadWaitForKey(c) PROVE PromiseKept'
      <3>1. PICK k \in CanArrive :
              /\ EfiKeyQueue' = SkipPartial(QueueWith(k))
              /\ EfiKeyQueue' = << >> => PromiseStands(k)
        BY <2>6 DEF KeypadWaitForKey
      <3>2. EfiKeyQueue' = << >> => ~promised' \/ crowded'
        BY <3>1, PollKeepsPromise, PollTyping, SkipPartialTyping
      <3>3. EfiKeyQueue' # << >> => ValueKeys(EfiKeyQueue') # {}
        BY <3>1, PollTyping, SkipPartialTyping
      <3> QED BY <3>1, <3>2, <3>3 DEF PromiseKept
    <2>7. ASSUME NEW c \in Callers, KeypadEfiReset(c) PROVE PromiseKept'
      BY <2>7 DEF KeypadEfiReset, PromiseOver, PromiseKept
    <2>8. ASSUME NEW c \in Callers, KeypadSetState(c) PROVE PromiseKept'
      BY <2>1, <2>8 DEF KeypadSetState
    <2>9. ASSUME NEW c \in Callers, NEW KeyData \in Wanted, NEW fn \in Fn,
                 KeypadRegisterKeyNotify(c, KeyData, fn)
          PROVE  PromiseKept'
      BY <2>1, <2>9 DEF KeypadRegisterKeyNotify
    <2>10. ASSUME NEW c \in Callers, NEW h \in Handle, KeypadUnregisterKeyNotify(c, h)
           PROVE  PromiseKept'
      BY <2>1, <2>10 DEF KeypadUnregisterKeyNotify
    <2>11. CASE Handler \/ CallbackReturn
      BY <2>1, <2>11 DEF Handler, HandlerDispatch, HandlerPop, HandlerVisit, HandlerExit,
                         CallbackReturn, HandlerUnchanged
    <2>12. CASE UNCHANGED vars
      BY <2>1, <2>12 DEF vars, promise
    <2> QED BY <2>3, <2>4, <2>5, <2>6, <2>7, <2>8, <2>9, <2>10, <2>11, <2>12
            DEF Next, Service
  <1> QED BY <1>1, <1>2, KeypadTypeOK, PTL DEF Spec

(***************************************************************************)
(* Driver binding: the steps of Start, ErrorExit and Stop still to do are  *)
(* the rest of their list from a place on, and what is held depends on     *)
(* that place alone.                                                       *)
(***************************************************************************)
Rest(s, n) == SubSeq(s, n, Len(s))

LEMMA RestSteps ==
  ASSUME NEW S, NEW s \in Seq(S), NEW n \in 1 .. Len(s) + 1
  PROVE  /\ Rest(s, n) = << >> <=> n = Len(s) + 1
         /\ n <= Len(s) => Head(Rest(s, n)) = s[n] /\ Tail(Rest(s, n)) = Rest(s, n + 1)
  <1>1. Len(s) \in Nat
    BY LenProperties
  <1>2. \A i \in n .. Len(s) : s[i] \in S
    BY <1>1, ElementOfSeq
  <1>3. Rest(s, n) \in Seq(S) /\ Len(Rest(s, n)) = Len(s) - n + 1
    BY <1>1, <1>2, SubSeqProperties DEF Rest
  <1>4. Rest(s, n) = << >> <=> n = Len(s) + 1
    BY <1>1, <1>3, EmptySeq
  <1>5. ASSUME n <= Len(s)
        PROVE  Head(Rest(s, n)) = s[n] /\ Tail(Rest(s, n)) = Rest(s, n + 1)
    BY <1>1, <1>5, HeadTailOfSubSeq DEF Rest
  <1> QED BY <1>4, <1>5

Strings == Resources \cup {"SetTimer", "Reset", "NotifyList"}

\* The three lists of steps.
LEMMA Lists ==
  /\ StartSteps \in Seq(Strings) /\ Len(StartSteps) = 9
  /\ ErrorExitSteps \in Seq(Strings) /\ Len(ErrorExitSteps) = 8
  /\ StopSteps \in Seq(Strings) /\ Len(StopSteps) = 7
  BY DEF Strings, Resources, Events, StartSteps,
         ErrorExitSteps, StopSteps

\* What Start has acquired before its step n; what a list releases from step n on.
Acquired(n) ==
  {"KeypadDevice"} \cup ({StartSteps[i] : i \in 1 .. n - 1} \cap Resources)

ToRelease(s, n) == {s[i] : i \in n .. Len(s)} \cap Resources

\* Clients are registered and events signalled only where the protocols are, or were.
BindingStarting ==
  \E n \in 1 .. 10 :
    /\ todo = Rest(StartSteps, n) /\ held = Acquired(n)
    /\ n < 10 => registered = 0 /\ ~dispatch

\* A failed Start may not have acquired what is still to be released.
BindingFailing ==
  \E n \in 1 .. 9 :
    /\ todo = Rest(ErrorExitSteps, n)
    /\ held \subseteq ToRelease(ErrorExitSteps, n)
    /\ armed => n <= 2
    /\ registered = 0 /\ ~dispatch

BindingRunning ==
  /\ todo = << >> /\ held \subseteq Resources
  /\ Resources \ {"TimerEvent"} \subseteq held

\* The event is closed before the list is freed, and the list before ConsoleIn.
BindingStopping ==
  \E n \in 1 .. 8 :
    /\ todo = Rest(StopSteps, n)
    /\ held \subseteq ToRelease(StopSteps, n)
    /\ n <= 7 => "ConsoleIn" \in held
    /\ ~armed
    /\ n > 4 => ~dispatch
    /\ n > 5 => registered = 0

BindingInv ==
  /\ pc \in {"stopped", "starting", "failing", "running", "stopping", "exception"}
  /\ registered \in Nat /\ dispatch \in BOOLEAN /\ armed \in BOOLEAN
  /\ ContextLive
  /\ pc = "stopped" => held = {} /\ ~armed /\ registered = 0 /\ ~dispatch
  /\ pc = "starting" => BindingStarting
  /\ pc = "failing" => BindingFailing
  /\ pc = "running" => BindingRunning
  /\ pc = "stopping" => BindingStopping
  /\ pc = "exception" => registered = 0 /\ ~dispatch /\ "Installed" \notin held

LEMMA AcquiredSteps ==
  /\ Acquired(1) = {"KeypadDevice"} /\ Acquired(10) = Resources
  /\ \A n \in 1 .. 9 :
       /\ Acquired(n + 1) = Acquired(n) \cup ({StartSteps[n]} \cap Resources)
       /\ Acquired(n) \subseteq ToRelease(ErrorExitSteps, 1)
       /\ "ConsoleIn" \in Acquired(n + 1)
  <1> USE DEF Resources, Events
  <1>1. Acquired(1) = {"KeypadDevice"}
    BY DEF Acquired
  <1>2. ASSUME NEW n \in 1 .. 9
        PROVE  Acquired(n + 1) = Acquired(n) \cup ({StartSteps[n]} \cap Resources)
    <2>1. 1 .. (n + 1) - 1 = (1 .. n - 1) \cup {n}
      OBVIOUS
    <2> QED BY <2>1 DEF Acquired
  <1>3. /\ StartSteps[1] = "ConsoleIn" /\ StartSteps[2] = "WaitForKey"
        /\ StartSteps[3] = "WaitForKeyEx" /\ StartSteps[4] = "TimerEvent"
        /\ StartSteps[5] = "SetTimer" /\ StartSteps[6] = "KeyNotifyProcessEvent"
        /\ StartSteps[7] = "Reset" /\ StartSteps[8] = "ControllerNameTable"
        /\ StartSteps[9] = "Installed"
    BY DEF StartSteps
  <1>4. \A i \in 1 .. 9 : i \in {1, 2, 3, 4, 5, 6, 7, 8, 9}
    OBVIOUS
  <1>5. {StartSteps[i] : i \in 1 .. 9} =
          {"ConsoleIn", "WaitForKey", "WaitForKeyEx", "TimerEvent", "SetTimer",
           "KeyNotifyProcessEvent", "Reset", "ControllerNameTable", "Installed"}
    BY <1>3, <1>4
  <1>6. Acquired(10) = Resources
    BY <1>5 DEF Acquired
  <1>7. ASSUME NEW n \in 1 .. 9
        PROVE  Acquired(n) \subseteq ToRelease(ErrorExitSteps, 1)
    <2>1. {StartSteps[i] : i \in 1 .. n - 1} \subseteq {StartSteps[i] : i \in 1 .. 8}
      OBVIOUS
    <2>2. {StartSteps[i] : i \in 1 .. 8} =
            {"ConsoleIn", "WaitForKey", "WaitForKeyEx", "TimerEvent", "SetTimer",
             "KeyNotifyProcessEvent", "Reset", "ControllerNameTable"}
      BY <1>3
    <2>3. ToRelease(ErrorExitSteps, 1) =
            {"WaitForKey", "TimerEvent", "WaitForKeyEx", "KeyNotifyProcessEvent",
             "ControllerNameTable", "ConsoleIn", "KeypadDevice"}
      BY Lists DEF ToRelease, ErrorExitSteps
    <2> QED BY <2>1, <2>2, <2>3 DEF Acquired
  <1>8. \A n \in 1 .. 9 : "ConsoleIn" \in Acquired(n + 1)
    BY <1>3 DEF Acquired
  <1> QED BY <1>1, <1>2, <1>6, <1>7, <1>8

LEMMA ReleaseSteps ==
  ASSUME NEW s \in Seq(Strings), NEW n \in 1 .. Len(s)
  PROVE  ToRelease(s, n) \ {s[n]} \subseteq ToRelease(s, n + 1)
  <1>1. Len(s) \in Nat
    BY LenProperties
  <1>2. n .. Len(s) = {n} \cup (n + 1 .. Len(s))
    BY <1>1
  <1> QED BY <1>2 DEF ToRelease

LEMMA ReleaseEnds ==
  /\ ToRelease(ErrorExitSteps, 9) = {} /\ ToRelease(StopSteps, 8) = {}
  /\ Events \cap ToRelease(ErrorExitSteps, 8) = {}
  /\ "Installed" \notin ToRelease(ErrorExitSteps, 1)
  /\ "Installed" \notin ToRelease(StopSteps, 1)
  /\ Resources \ {"TimerEvent", "Installed"} \subseteq ToRelease(StopSteps, 1)
  <1> USE DEF Resources, Events
  <1>1. /\ ErrorExitSteps[1] = "WaitForKey" /\ ErrorExitSteps[2] = "TimerEvent"
        /\ ErrorExitSteps[3] = "WaitForKeyEx"
        /\ ErrorExitSteps[4] = "KeyNotifyProcessEvent"
        /\ ErrorExitSteps[5] = "NotifyList"
        /\ ErrorExitSteps[6] = "ControllerNameTable"
        /\ ErrorExitSteps[7] = "ConsoleIn" /\ ErrorExitSteps[8] = "KeypadDevice"
    BY DEF ErrorExitSteps
  <1>2. /\ StopSteps[1] = "KeypadDevice" /\ StopSteps[2] = "WaitForKey"
        /\ StopSteps[3] = "WaitForKeyEx"
        /\ StopSteps[4] = "KeyNotifyProcessEvent"
        /\ StopSteps[5] = "NotifyList"
        /\ StopSteps[6] = "ControllerNameTable" /\ StopSteps[7] = "ConsoleIn"
    BY DEF StopSteps
  <1>3. /\ Len(ErrorExitSteps) = 8 /\ Len(StopSteps) = 7
    BY Lists
  <1>4. /\ \A i \in 1 .. 8 : i \in {1, 2, 3, 4, 5, 6, 7, 8}
        /\ \A i \in 1 .. 7 : i \in {1, 2, 3, 4, 5, 6, 7}
    OBVIOUS
  <1>5. ToRelease(ErrorExitSteps, 9) = {} /\ ToRelease(StopSteps, 8) = {}
    BY <1>3 DEF ToRelease
  <1>6. ToRelease(ErrorExitSteps, 8) = {"KeypadDevice"}
    BY <1>1, <1>3 DEF ToRelease
  <1>7. "Installed" \notin ToRelease(ErrorExitSteps, 1)
    BY <1>1, <1>3, <1>4 DEF ToRelease
  <1>8. "Installed" \notin ToRelease(StopSteps, 1)
    BY <1>2, <1>3, <1>4 DEF ToRelease
  <1>9. Resources \ {"TimerEvent", "Installed"} \subseteq ToRelease(StopSteps, 1)
    BY <1>2, <1>3 DEF ToRelease
  <1> QED BY <1>5, <1>6, <1>7, <1>8, <1>9

\* Where the rest of a list begins, and where it ends.
LEMMA StartRest ==
  ASSUME NEW n \in 1 .. 10
  PROVE  /\ Rest(StartSteps, n) = << >> <=> n = 10
         /\ n # 10 => /\ Head(Rest(StartSteps, n)) = StartSteps[n]
                      /\ Tail(Rest(StartSteps, n)) = Rest(StartSteps, n + 1)
  <1> DEFINE s == StartSteps
  <1>1. s \in Seq(Strings) /\ Len(s) = 9
    BY Lists
  <1> HIDE DEF s
  <1>2. n \in 1 .. Len(s) + 1
    BY <1>1
  <1>3. /\ Rest(s, n) = << >> <=> n = Len(s) + 1
        /\ n <= Len(s) => Head(Rest(s, n)) = s[n] /\ Tail(Rest(s, n)) = Rest(s, n + 1)
    BY <1>1, <1>2, RestSteps
  <1> QED BY <1>1, <1>3 DEF s

LEMMA ErrorExitRest ==
  ASSUME NEW n \in 1 .. 9
  PROVE  /\ Rest(ErrorExitSteps, n) = << >> <=> n = 9
         /\ n # 9 => /\ Head(Rest(ErrorExitSteps, n)) = ErrorExitSteps[n]
                      /\ Tail(Rest(ErrorExitSteps, n)) = Rest(ErrorExitSteps, n + 1)
  <1> DEFINE s == ErrorExitSteps
  <1>1. s \in Seq(Strings) /\ Len(s) = 8
    BY Lists
  <1> HIDE DEF s
  <1>2. n \in 1 .. Len(s) + 1
    BY <1>1
  <1>3. /\ Rest(s, n) = << >> <=> n = Len(s) + 1
        /\ n <= Len(s) => Head(Rest(s, n)) = s[n] /\ Tail(Rest(s, n)) = Rest(s, n + 1)
    BY <1>1, <1>2, RestSteps
  <1> QED BY <1>1, <1>3 DEF s

LEMMA StopRest ==
  ASSUME NEW n \in 1 .. 8
  PROVE  /\ Rest(StopSteps, n) = << >> <=> n = 8
         /\ n # 8 => /\ Head(Rest(StopSteps, n)) = StopSteps[n]
                      /\ Tail(Rest(StopSteps, n)) = Rest(StopSteps, n + 1)
  <1> DEFINE s == StopSteps
  <1>1. s \in Seq(Strings) /\ Len(s) = 7
    BY Lists
  <1> HIDE DEF s
  <1>2. n \in 1 .. Len(s) + 1
    BY <1>1
  <1>3. /\ Rest(s, n) = << >> <=> n = Len(s) + 1
        /\ n <= Len(s) => Head(Rest(s, n)) = s[n] /\ Tail(Rest(s, n)) = Rest(s, n + 1)
    BY <1>1, <1>2, RestSteps
  <1> QED BY <1>1, <1>3 DEF s

LEMMA NotYetInstalled == \A n \in 1 .. 9 : "Installed" \notin Acquired(n)
  <1>1. /\ \A i \in 1 .. 8 : i \in {1, 2, 3, 4, 5, 6, 7, 8}
        /\ \A i \in {1, 2, 3, 4, 5, 6, 7, 8} : StartSteps[i] # "Installed"
    BY DEF StartSteps
  <1> QED BY <1>1 DEF Acquired

LEMMA BindingInit == BindInit => BindingInv
  <1> SUFFICES ASSUME BindInit PROVE BindingInv
    OBVIOUS
  <1>1. pc = "stopped" /\ held = {} /\ armed = FALSE /\ registered = 0 /\ dispatch = FALSE
    BY DEF BindInit
  <1>2. ContextLive
    BY <1>1 DEF ContextLive
  <1> QED BY <1>1, <1>2 DEF BindingInv

LEMMA StartingStep ==
  ASSUME BindingInv, StartStep
  PROVE  BindingInv'
  <1> USE DEF StartStep
  <1>1. PICK n \in 1 .. 10 :
          /\ todo = Rest(StartSteps, n) /\ held = Acquired(n)
          /\ n < 10 => registered = 0 /\ ~dispatch
    BY DEF BindingInv, BindingStarting
  <1>2. /\ n \in 1 .. 9 /\ Head(todo) = StartSteps[n]
        /\ Tail(todo) = Rest(StartSteps, n + 1)
    <2>1. todo # << >>
      OBVIOUS
    <2> HIDE DEF StartStep
    <2>2. n # 10
      BY <1>1, <2>1, StartRest
    <2>3. /\ Head(Rest(StartSteps, n)) = StartSteps[n]
          /\ Tail(Rest(StartSteps, n)) = Rest(StartSteps, n + 1)
      BY <2>2, StartRest
    <2> QED BY <1>1, <2>2, <2>3
  <1>3. registered = 0 /\ ~dispatch /\ UNCHANGED <<registered, dispatch>>
    BY <1>1, <1>2
  <1>4. CASE /\ held' = IF Head(todo) \in Resources THEN held \cup {Head(todo)} ELSE held
             /\ armed' = (armed \/ Head(todo) = "SetTimer")
             /\ todo' = Tail(todo)
             /\ UNCHANGED <<pc, dispatch>>
    <2>1. held' = Acquired(n + 1)
      <3>1. Acquired(n + 1) = Acquired(n) \cup ({StartSteps[n]} \cap Resources)
        BY <1>2, AcquiredSteps
      <3> HIDE DEF StartStep
      <3> QED BY <1>1, <1>2, <1>4, <3>1
    <2>2. BindingStarting'
      <3>1. n + 1 \in 1 .. 10
        BY <1>2
      <3>2. todo' = Rest(StartSteps, n + 1)
        BY <1>2, <1>4
      <3> QED BY <1>3, <2>1, <3>1, <3>2 DEF BindingStarting, Rest, Acquired, StartSteps,
                                            Resources, Events
    <2>3. ContextLive'
      BY <1>2, <2>1, AcquiredSteps DEF ContextLive
    <2> QED BY <1>3, <1>4, <2>2, <2>3 DEF BindingInv
  <1>5. CASE /\ pc' = "failing" /\ todo' = ErrorExitSteps
             /\ UNCHANGED <<held, armed, dispatch>>
    <2>1. todo' = Rest(ErrorExitSteps, 1)
      BY <1>5, Lists, SubSeqFull DEF Rest
    <2>2. held' \subseteq ToRelease(ErrorExitSteps, 1)
      BY <1>1, <1>2, <1>5, AcquiredSteps
    <2>3. BindingFailing'
      BY <1>3, <1>5, <2>1, <2>2 DEF BindingFailing, Rest, ToRelease, ErrorExitSteps,
                                    Resources, Events
    <2>4. ContextLive'
      BY <1>5 DEF BindingInv, ContextLive, Events
    <2> QED BY <1>3, <1>5, <2>3, <2>4 DEF BindingInv
  <1> QED BY <1>4, <1>5

LEMMA FailingStep ==
  ASSUME BindingInv, Release, pc = "failing"
  PROVE  BindingInv'
  <1> USE DEF Release
  <1>1. PICK n \in 1 .. 9 :
          /\ todo = Rest(ErrorExitSteps, n)
          /\ held \subseteq ToRelease(ErrorExitSteps, n)
          /\ armed => n <= 2
          /\ registered = 0 /\ ~dispatch
    BY DEF BindingInv, BindingFailing
  <1>2. /\ n \in 1 .. 8 /\ Head(todo) = ErrorExitSteps[n]
        /\ Tail(todo) = Rest(ErrorExitSteps, n + 1)
    <2>1. todo # << >>
      OBVIOUS
    <2> HIDE DEF Release
    <2>2. n # 9
      BY <1>1, <2>1, ErrorExitRest
    <2>3. /\ Head(Rest(ErrorExitSteps, n)) = ErrorExitSteps[n]
          /\ Tail(Rest(ErrorExitSteps, n)) = Rest(ErrorExitSteps, n + 1)
      BY <2>2, ErrorExitRest
    <2> QED BY <1>1, <2>2, <2>3
  <1>3. CASE Head(todo) = "NotifyList" /\ "ConsoleIn" \notin held
    <2>1. "Installed" \notin held
      <3>1. ToRelease(ErrorExitSteps, n) \subseteq ToRelease(ErrorExitSteps, 1)
        BY <1>2, Lists DEF ToRelease
      <3> QED BY <1>1, <3>1, ReleaseEnds
    <2> QED BY <1>1, <1>3, <2>1 DEF BindingInv, ContextLive, Events
  <1>4. CASE ~(Head(todo) = "NotifyList" /\ "ConsoleIn" \notin held)
    <2>1. /\ held' = held \ {Head(todo)} /\ todo' = Tail(todo) /\ pc' = pc
          /\ armed' = (armed /\ Head(todo) # "TimerEvent")
          /\ registered' = 0 /\ ~dispatch'
      BY <1>1, <1>4
    <2>2. held' \subseteq ToRelease(ErrorExitSteps, n + 1)
      BY <1>1, <1>2, <2>1, ReleaseSteps, Lists
    <2>3. n + 1 \in 1 .. 9 /\ (armed' => n + 1 <= 2)
      BY <1>1, <1>2, <2>1 DEF ErrorExitSteps
    <2>4. BindingFailing'
      BY <1>2, <2>1, <2>2, <2>3 DEF BindingFailing, Rest, ToRelease, ErrorExitSteps,
                                    Resources, Events
    <2>5. ContextLive'
      <3>1. CASE n = 7
        BY <2>2, <3>1, ReleaseEnds DEF ContextLive, Events
      <3>2. CASE n # 7
        <4>1. Head(todo) # "ConsoleIn"
          BY <1>2, <3>2 DEF ErrorExitSteps
        <4> QED BY <2>1, <4>1 DEF BindingInv, ContextLive, Events
      <3> QED BY <3>1, <3>2
    <2> QED BY <2>1, <2>4, <2>5 DEF BindingInv
  <1> QED BY <1>3, <1>4

LEMMA StoppingStep ==
  ASSUME BindingInv, Release, pc = "stopping"
  PROVE  BindingInv'
  <1> USE DEF Release
  <1>1. PICK n \in 1 .. 8 :
          /\ todo = Rest(StopSteps, n)
          /\ held \subseteq ToRelease(StopSteps, n)
          /\ n <= 7 => "ConsoleIn" \in held
          /\ ~armed
          /\ n > 4 => ~dispatch
          /\ n > 5 => registered = 0
    BY DEF BindingInv, BindingStopping
  <1>2. /\ n \in 1 .. 7 /\ Head(todo) = StopSteps[n]
        /\ Tail(todo) = Rest(StopSteps, n + 1)
    <2>1. todo # << >>
      OBVIOUS
    <2> HIDE DEF Release
    <2>2. n # 8
      BY <1>1, <2>1, StopRest
    <2>3. /\ Head(Rest(StopSteps, n)) = StopSteps[n]
          /\ Tail(Rest(StopSteps, n)) = Rest(StopSteps, n + 1)
      BY <2>2, StopRest
    <2> QED BY <1>1, <2>2, <2>3
  <1>3. /\ held' = held \ {Head(todo)} /\ todo' = Tail(todo) /\ pc' = pc /\ ~armed'
        /\ dispatch' = (dispatch /\ Head(todo) # "KeyNotifyProcessEvent")
        /\ registered' = IF Head(todo) = "NotifyList" THEN 0 ELSE registered
    <2>1. "ConsoleIn" \in held
      BY <1>1, <1>2
    <2>2. /\ held' = held \ {Head(todo)} /\ todo' = Tail(todo) /\ pc' = pc
          /\ armed' = (armed /\ Head(todo) # "TimerEvent")
          /\ dispatch' = (dispatch /\ Head(todo) # "KeyNotifyProcessEvent")
          /\ registered' = IF Head(todo) = "NotifyList" THEN 0 ELSE registered
      BY <2>1
    <2> QED BY <1>1, <2>2
  <1>4. held' \subseteq ToRelease(StopSteps, n + 1)
    BY <1>1, <1>2, <1>3, ReleaseSteps, Lists
  <1>5. n + 1 <= 7 => "ConsoleIn" \in held'
    BY <1>1, <1>2, <1>3 DEF StopSteps
  <1>6. /\ n + 1 > 4 => ~dispatch'
        /\ n + 1 > 5 => registered' = 0
    BY <1>1, <1>2, <1>3 DEF StopSteps
  <1>7. BindingStopping'
    <2> HIDE DEF Release
    <2>1. n + 1 \in 1 .. 8 /\ todo' = Rest(StopSteps, n + 1) /\ ~armed'
      BY <1>2, <1>3
    <2> QED BY <1>4, <1>5, <1>6, <2>1 DEF BindingStopping, Rest, ToRelease, StopSteps,
                                        Resources, Events
  <1>8. ContextLive'
    <2>1. CASE n = 7
      <3>1. held' = {}
        BY <1>4, <2>1, ReleaseEnds
      <3> QED BY <3>1 DEF ContextLive
    <2>2. CASE n # 7
      BY <1>2, <1>5, <2>2 DEF ContextLive
    <2> QED BY <2>1, <2>2
  <1> QED BY <1>3, <1>7, <1>8 DEF BindingInv

\* Starting and ending, and what happens in between.
LEMMA BindingStep == BindingInv /\ [BindNext]_bindVars => BindingInv'
  <1> SUFFICES ASSUME BindingInv, [BindNext]_bindVars PROVE BindingInv'
    OBVIOUS
  <1> USE DEF BindingInv
  <1>1. CASE Start
    <2>1. Rest(StartSteps, 1) = StartSteps
      BY Lists, SubSeqFull DEF Rest
    <2>2. BindingStarting'
      BY <1>1, <2>1, AcquiredSteps DEF Start, BindingStarting, Rest, Acquired,
             StartSteps, Resources, Events
    <2>3. held' = {"KeypadDevice"}
      BY <1>1 DEF Start
    <2> QED BY <1>1, <2>2, <2>3 DEF Start, ContextLive, Events
  <1>2. CASE StartStep
    BY <1>2, StartingStep
  <1>3. CASE Started
    <2>1. held = Resources
      BY <1>3, StartRest, AcquiredSteps DEF Started, BindingStarting
    <2>2. BindingRunning'
      BY <1>3, <2>1 DEF Started, BindingRunning, Resources, Events
    <2> QED BY <1>3, <2>2 DEF Started, ContextLive, Events
  <1>4. CASE Release
    BY <1>4, FailingStep, StoppingStep DEF Release
  <1>5. CASE Released
    <2>1. held = {} /\ ~armed /\ registered = 0 /\ ~dispatch
      <3>1. CASE pc = "failing"
        BY <1>5, <3>1, ErrorExitRest, ReleaseEnds DEF Released, BindingFailing
      <3>2. CASE pc = "stopping"
        BY <1>5, <3>2, StopRest, ReleaseEnds DEF Released, BindingStopping
      <3> QED BY <1>5, <3>1, <3>2 DEF Released
    <2> QED BY <1>5, <2>1 DEF Released, ContextLive
  <1>6. CASE Stop
    <2>1. CASE held' = held \ {"TimerEvent"} /\ UNCHANGED <<pc, todo>>
      BY <1>6, <2>1 DEF Stop, BindingRunning, ContextLive, Resources,
                        Events
    <2>2. CASE /\ held' = held \ {"TimerEvent", "Installed"}
               /\ pc' = "stopping" /\ todo' = StopSteps
      <3>1. todo' = Rest(StopSteps, 1)
        BY <2>2, Lists, SubSeqFull DEF Rest
      <3>2. held' \subseteq ToRelease(StopSteps, 1) /\ "ConsoleIn" \in held'
        BY <1>6, <2>2, ReleaseEnds DEF Stop, BindingRunning, Resources, Events
      <3>3. BindingStopping'
        BY <1>6, <3>1, <3>2 DEF Stop, BindingStopping, Rest, ToRelease, StopSteps,
                                Resources, Events
      <3> QED BY <1>6, <2>2, <3>2, <3>3 DEF Stop, ContextLive
    <2> QED BY <1>6, <2>1, <2>2 DEF Stop
  <1>7. CASE Timer \/ PollKeypad \/ KeyNotifyProcessHandler
             \/ RegisterKeyNotify \/ UnregisterKeyNotify
    <2>1. UNCHANGED <<pc, todo, held, armed>> /\ registered' \in Nat /\ dispatch' \in BOOLEAN
      <3>1. CASE Timer \/ PollKeypad \/ KeyNotifyProcessHandler
        BY <3>1 DEF Timer, PollKeypad, KeyNotifyProcessHandler
      <3>2. CASE RegisterKeyNotify \/ UnregisterKeyNotify
        BY <3>2 DEF RegisterKeyNotify, UnregisterKeyNotify, Found
      <3> QED BY <1>7, <3>1, <3>2
    <2>2. \/ "Installed" \in held
          \/ armed /\ registered > 0 /\ registered' = registered
          \/ dispatch /\ ~dispatch' /\ registered' = registered
      BY <1>7 DEF Timer, PollKeypad, KeyNotifyProcessHandler,
                  RegisterKeyNotify, UnregisterKeyNotify
    <2>3. ASSUME pc = "starting" PROVE BindingStarting'
      <3>1. PICK n \in 1 .. 10 :
              /\ todo = Rest(StartSteps, n) /\ held = Acquired(n)
              /\ n < 10 => registered = 0 /\ ~dispatch
        BY <2>3 DEF BindingStarting
      <3>2. n = 10
        BY <2>2, <3>1, NotYetInstalled
      <3> QED BY <2>1, <3>1, <3>2 DEF BindingStarting
    <2>4. ASSUME pc = "failing" PROVE FALSE
      <3>1. PICK n \in 1 .. 9 :
              /\ held \subseteq ToRelease(ErrorExitSteps, n)
              /\ registered = 0 /\ ~dispatch
        BY <2>4 DEF BindingFailing
      <3>2. ToRelease(ErrorExitSteps, n) \subseteq ToRelease(ErrorExitSteps, 1)
        BY Lists DEF ToRelease
      <3> QED BY <2>2, <3>1, <3>2, ReleaseEnds
    <2>5. ASSUME pc = "stopping" PROVE BindingStopping'
      <3>1. PICK n \in 1 .. 8 :
              /\ todo = Rest(StopSteps, n)
              /\ held \subseteq ToRelease(StopSteps, n)
              /\ n <= 7 => "ConsoleIn" \in held
              /\ ~armed
              /\ n > 4 => ~dispatch
              /\ n > 5 => registered = 0
        BY <2>5 DEF BindingStopping
      <3>2. ToRelease(StopSteps, n) \subseteq ToRelease(StopSteps, 1)
        BY Lists DEF ToRelease
      <3>3. ~dispatch' /\ registered' = registered
        BY <2>2, <3>1, <3>2, ReleaseEnds
      <3> QED BY <2>1, <3>1, <3>3 DEF BindingStopping, Rest, ToRelease
    <2>6. pc # "stopped"
      BY <2>2
    <2>7. ASSUME pc = "running" PROVE BindingRunning'
      BY <2>1, <2>7 DEF BindingRunning
    <2>8. pc # "exception"
      BY <2>2
    <2> QED BY <2>1, <2>3, <2>4, <2>5, <2>6, <2>7, <2>8 DEF ContextLive
  <1>8. CASE Halted \/ UNCHANGED bindVars
    BY <1>8 DEF Halted, bindVars, ContextLive, BindingStarting, BindingFailing, BindingRunning,
                BindingStopping
  <1> QED BY <1>1, <1>2, <1>3, <1>4, <1>5, <1>6, <1>7, <1>8 DEF BindNext

\* KeypadControllerDriverStart fails at any step and Stop is refused or not: no handler
\* runs on a ConsoleIn that is freed, and KeyNotifyProcessEvent is there when it is
\* signalled.
THEOREM BindingHandlersSafe == BindSpec => []HandlersSafe
  <1>1. BindingInv => HandlersSafe
    <2> SUFFICES ASSUME BindingInv, armed \/ "Installed" \in held, registered > 0
                 PROVE  "KeyNotifyProcessEvent" \in held
      BY DEF BindingInv, HandlersSafe, SignalsCreatedEvent
    <2>1. CASE pc = "starting"
      <3>1. held = Resources
        BY <2>1, AcquiredSteps DEF BindingInv, BindingStarting
      <3> QED BY <3>1 DEF Resources, Events
    <2>2. CASE pc = "running"
      BY <2>2 DEF BindingInv, BindingRunning, Resources, Events
    <2>3. CASE pc = "stopping"
      <3>1. PICK n \in 1 .. 8 : held \subseteq ToRelease(StopSteps, n) /\ ~armed
        BY <2>3 DEF BindingInv, BindingStopping
      <3>2. ToRelease(StopSteps, n) \subseteq ToRelease(StopSteps, 1)
        BY Lists DEF ToRelease
      <3> QED BY <3>1, <3>2, ReleaseEnds
    <2> QED BY <2>1, <2>2, <2>3 DEF BindingInv, BindingFailing
  <1> QED BY <1>1, BindingInit, BindingStep, PTL DEF BindSpec

\* A Start that failed and a Stop that succeeded leave nothing behind: every event is
\* closed and every protocol and piece of memory given back.
THEOREM BindingNothingLeaked == BindSpec => []NothingLeaked
  <1>1. BindingInv => NothingLeaked
    BY DEF BindingInv, NothingLeaked
  <1> QED BY <1>1, BindingInit, BindingStep, PTL DEF BindSpec
=============================================================================
