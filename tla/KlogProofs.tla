----------------------------- MODULE KlogProofs -----------------------------
(***************************************************************************)
(* The flight recorder for every ring size, any number of threads and any  *)
(* width of the stamps: types, the refinement of FlightRecorder and        *)
(* gap-free snapshots.                                                     *)
(***************************************************************************)
EXTENDS Klog, TLAPS

\* A leaf is tried with Zenon, with SMT, and with Zenon for longer.
USE ZenonT(5), SMTT(30), ZenonT(60)

-----------------------------------------------------------------------------
(* Ring arithmetic                                                         *)

\* The slot j places before the newest of a ring whose next slot is h.
Back(h, j) == IF h - 1 - j >= 0 THEN h - 1 - j ELSE h - 1 - j + KLOG_SIZE

\* A number below twice the ring's size is reduced by at most one subtraction.
LEMMA RingMod ==
  ASSUME NEW a \in Nat, a < KLOG_SIZE + KLOG_SIZE
  PROVE  a % KLOG_SIZE = IF a < KLOG_SIZE THEN a ELSE a - KLOG_SIZE
<1>1. CASE a < KLOG_SIZE
  BY <1>1, KlogAssumption
<1>2. CASE KLOG_SIZE <= a
  BY <1>2, KlogAssumption
<1> QED
  BY <1>1, <1>2, KlogAssumption

\* head = (head + 1) % KLOG_SIZE stays in the ring.
LEMMA SlotNext ==
  ASSUME NEW h \in Slots
  PROVE  /\ Slot(h, 1) \in Slots
         /\ Slot(h, 1) = IF h + 1 = KLOG_SIZE THEN 0 ELSE h + 1
<1> DEFINE a == h + 1
<1>1. a \in Nat /\ a < KLOG_SIZE + KLOG_SIZE
  BY KlogAssumption DEF Slots
<1>2. a % KLOG_SIZE = IF a < KLOG_SIZE THEN a ELSE a - KLOG_SIZE
  <2> HIDE DEF a
  <2> QED BY <1>1, RingMod
<1> QED
  BY <1>2, KlogAssumption DEF Slots, Slot

\* The index computation of klog_getlogs: entry i of q is the one q - i places
\* before the newest.
LEMMA SlotBack ==
  ASSUME NEW h \in Slots, NEW q \in 0 .. KLOG_SIZE, NEW i \in 1 .. q
  PROVE  /\ Slot((h - q + KLOG_SIZE) % KLOG_SIZE, i - 1) = Back(h, q - i)
         /\ Back(h, q - i) \in Slots
<1> DEFINE start == (h - q + KLOG_SIZE) % KLOG_SIZE
<1>1. start = IF h >= q THEN h - q ELSE h - q + KLOG_SIZE
  <2> DEFINE a == h - q + KLOG_SIZE
  <2>1. a \in Nat /\ a < KLOG_SIZE + KLOG_SIZE
    BY KlogAssumption DEF Slots
  <2>2. a % KLOG_SIZE = IF a < KLOG_SIZE THEN a ELSE a - KLOG_SIZE
    <3> HIDE DEF a
    <3> QED BY <2>1, RingMod
  <2> QED
    BY <2>2, KlogAssumption DEF Slots
<1>2. start \in 0 .. KLOG_SIZE - 1
  BY <1>1, KlogAssumption DEF Slots
<1> HIDE DEF start
<1> DEFINE b == start + (i - 1)
<1>3. b \in Nat /\ b < KLOG_SIZE + KLOG_SIZE
  BY <1>2, KlogAssumption
<1>4. b % KLOG_SIZE = IF b < KLOG_SIZE THEN b ELSE b - KLOG_SIZE
  <2> HIDE DEF b
  <2> QED BY <1>3, RingMod
<1>5. Slot(start, i - 1) = b % KLOG_SIZE
  BY DEF Slot
<1>6. b % KLOG_SIZE = Back(h, q - i) /\ Back(h, q - i) \in Slots
  BY <1>1, <1>4, KlogAssumption DEF Slots, Back
<1> QED
  BY <1>5, <1>6 DEF start

-----------------------------------------------------------------------------
(* Types and the lock                                                      *)

\* klog.lock is held by exactly the thread inside klog_add's critical section.
LockInv ==
  \A t \in Threads : pc[t] \in {"fill", "head", "count"} <=> lock = t

\* CopyLast and DoneWindow read slots of the ring only.
LEMMA CopyType ==
  ASSUME TypeOK, NEW q \in 0 .. KLOG_SIZE
  PROVE  /\ CopyLast(q) = [i \in 1..q |-> entries[Back(head, q - i)]]
         /\ CopyLast(q) \in Seq(Entry)
<1>1. \A i \in 1..q : /\ Slot((head - q + KLOG_SIZE) % KLOG_SIZE, i - 1)
                         = Back(head, q - i)
                      /\ Back(head, q - i) \in Slots
  BY SlotBack DEF TypeOK
<1>2. CopyLast(q) = [i \in 1..q |-> entries[Back(head, q - i)]]
  BY <1>1 DEF CopyLast
<1>3. \A i \in 1..q : entries[Back(head, q - i)] \in Entry
  BY <1>1 DEF TypeOK
<1> QED
  BY <1>2, <1>3

\* klog_getlogs never copies more than the ring holds; only for a negative max
\* is its n negative.
LEMMA CopyCount ==
  ASSUME TypeOK, NEW max \in MaxArgs
  PROVE  /\ LeastOf(LeastOf(count, max), TempSize) = LeastOf(count, max)
         /\ LeastOf(count, max) \in Int
         /\ LeastOf(count, max) >= 0 => LeastOf(count, max) \in 0 .. count
         /\ LeastOf(count, max) >= 0 => LeastOf(count, max) \in 0 .. KLOG_SIZE
  BY KlogAssumption DEF TypeOK, LeastOf

\* With a negative number of rounds the loop fills nothing.
LEMMA CopyNone ==
  ASSUME NEW q \in Int, q < 0
  PROVE  CopyLast(q) = <<>>
<1>1. 1..q = {}
  OBVIOUS
<1> QED
  BY <1>1 DEF CopyLast

\* The initial state has its types and a free lock.
LEMMA InitTypes == Init => TypeOK /\ LockInv
  BY KlogAssumption DEF Init, TypeOK, LockInv, Slots, Entry

\* Every step of klog.c keeps types and lock discipline.
LEMMA NextTypes == TypeOK /\ LockInv /\ [Next]_vars => TypeOK' /\ LockInv'
<1> SUFFICES ASSUME TypeOK, LockInv, [Next]_vars PROVE TypeOK' /\ LockInv'
  OBVIOUS
<1> USE KlogAssumption
<1>1. ASSUME NEW t \in Threads, NEW e \in Events, AddStamp(t, e)
      PROVE  TypeOK' /\ LockInv'
  <2>1. (ticks + 1) % UintMod \in 0 .. UintMod - 1
    BY DEF TypeOK
  <2>2. entries' \in [Slots -> Entry]
    BY <1>1 DEF AddStamp, TypeOK, Entry
  <2> QED
    BY <1>1, <2>1, <2>2 DEF AddStamp, TypeOK, LockInv
<1>2. ASSUME NEW t \in Threads, AddFill(t) PROVE TypeOK' /\ LockInv'
  <2>1. entries' \in [Slots -> Entry]
    BY <1>2 DEF AddFill, TypeOK, Entry
  <2> QED
    BY <1>2, <2>1 DEF AddFill, TypeOK, LockInv
<1>3. ASSUME NEW t \in Threads, AddHead(t) PROVE TypeOK' /\ LockInv'
  <2>1. head' \in Slots
    BY <1>3, SlotNext DEF AddHead, TypeOK
  <2> QED
    BY <1>3, <2>1 DEF AddHead, TypeOK, LockInv
<1>4. ASSUME NEW t \in Threads, AddCount(t) PROVE TypeOK' /\ LockInv'
  BY <1>4 DEF AddCount, TypeOK, LockInv
<1>5. ASSUME NEW t \in Threads, NEW max \in MaxArgs, GetCopy(t, max)
      PROVE  TypeOK' /\ LockInv'
  <2> DEFINE q == LeastOf(LeastOf(count, max), TempSize)
  <2>1. q \in Int /\ CopyLast(q) \in Seq(Entry)
    <3>1. q \in Int /\ (q < 0 \/ q \in 0 .. KLOG_SIZE)
      BY CopyCount
    <3> HIDE DEF q
    <3>2. CASE q < 0
      <4>1. CopyLast(q) = <<>>
        BY <3>1, <3>2, CopyNone
      <4> QED
        BY <3>1, <4>1
    <3>3. CASE q \in 0 .. KLOG_SIZE
      BY <3>1, <3>3, CopyType
    <3> QED
      BY <3>1, <3>2, <3>3
  <2> QED
    BY <1>5, <2>1 DEF GetCopy, TypeOK, LockInv
<1>6. ASSUME NEW t \in Threads, GetReturn(t) PROVE TypeOK' /\ LockInv'
  BY <1>6 DEF GetReturn, TypeOK, LockInv
<1>7. CASE UNCHANGED vars
  BY <1>7 DEF vars, TypeOK, LockInv
<1> QED
  BY <1>1, <1>2, <1>3, <1>4, <1>5, <1>6, <1>7 DEF Next

\* klog.head never leaves the ring, klog.count never exceeds it and every
\* other variable of klog.c keeps its type.
THEOREM TypeCorrect == Spec => []TypeOK
<1>1. Spec => [](TypeOK /\ LockInv)
  BY InitTypes, NextTypes, PTL DEF Spec
<1> QED
  BY <1>1, PTL

-----------------------------------------------------------------------------
(* The window a critical section in progress will leave                    *)

\* The refinement mapping's variables have the ring's types.
LEMMA DoneTypes ==
  ASSUME TypeOK, LockInv
  PROVE  /\ DoneEntries \in [Slots -> Entry]
         /\ DoneHead \in Slots
         /\ DoneCount \in 0 .. KLOG_SIZE
<1>1. CASE lock = NoThread
  BY <1>1 DEF DoneEntries, DoneHead, DoneCount, InAdd, TypeOK
<1>2. CASE lock \in Threads
  <2>1. [entries EXCEPT ![head].event = arg[lock]] \in [Slots -> Entry]
    BY <1>2 DEF TypeOK, Entry
  <2>2. Slot(head, 1) \in Slots
    BY SlotNext DEF TypeOK
  <2> QED
    BY <1>2, <2>1, <2>2, KlogAssumption DEF DoneEntries, DoneHead, DoneCount, TypeOK
<1> QED
  BY <1>1, <1>2 DEF TypeOK

\* The window, oldest first, counted back from the newest entry.
WindowShape ==
  /\ DoneWindow = [i \in 1..DoneCount |->
                     DoneEntries[Back(DoneHead, DoneCount - i)]]
  /\ DoneWindow \in Seq(Entry)
  /\ Len(DoneWindow) = DoneCount

\* The refinement mapping's window has that shape in every state.
LEMMA DoneShape == TypeOK /\ LockInv => WindowShape
<1> SUFFICES ASSUME TypeOK, LockInv PROVE WindowShape
  OBVIOUS
<1>1. \A i \in 1..DoneCount :
        /\ Slot((DoneHead - DoneCount + KLOG_SIZE) % KLOG_SIZE, i - 1)
           = Back(DoneHead, DoneCount - i)
        /\ Back(DoneHead, DoneCount - i) \in Slots
  BY SlotBack, DoneTypes
<1>2. DoneWindow = [i \in 1..DoneCount |->
                      DoneEntries[Back(DoneHead, DoneCount - i)]]
  BY <1>1 DEF DoneWindow
<1>3. \A i \in 1..DoneCount :
        DoneEntries[Back(DoneHead, DoneCount - i)] \in Entry
  BY <1>1, DoneTypes
<1> QED
  BY <1>2, <1>3, DoneTypes DEF WindowShape

\* Assigning one field of an entry leaves the other.
LEMMA StoreField ==
  ASSUME NEW r \in Entry, NEW x
  PROVE  /\ [r EXCEPT !.timestamp = x] = [timestamp |-> x, event |-> r.event]
         /\ [r EXCEPT !.event = x] = [timestamp |-> r.timestamp, event |-> x]
  BY DEF Entry

\* Moving the head one slot on moves every entry one place further back, and
\* the slot just written is met again only after a whole turn.
LEMMA BackNext ==
  ASSUME NEW h \in Slots
  PROVE  /\ Back(Slot(h, 1), 0) = h
         /\ \A j \in 1 .. KLOG_SIZE - 1 :
              /\ Back(Slot(h, 1), j) = Back(h, j - 1)
              /\ Back(h, j - 1) # h
              /\ Back(h, j - 1) \in Slots
  BY SlotNext, KlogAssumption DEF Back, Slots

\* klog_add's first store records the event.
LEMMA StampRecords ==
  ASSUME TypeOK, LockInv, TypeOK', LockInv',
         NEW t \in Threads, NEW e \in Events, AddStamp(t, e)
  PROVE  Recorder!Record(e)
<1> DEFINE new == [timestamp |-> ticks, event |-> e]
           all == Append(DoneWindow, new)
<1>1. /\ DoneEntries = entries /\ DoneHead = head /\ DoneCount = count
  BY KlogAssumption DEF AddStamp, DoneEntries, DoneHead, DoneCount, InAdd
<1>2. lock' = t /\ pc'[t] = "fill" /\ arg'[t] = e /\ lock' # NoThread
  BY KlogAssumption DEF AddStamp, TypeOK
<1>3. DoneEntries' = [entries' EXCEPT ![head].event = e]
  BY <1>2 DEF AddStamp, DoneEntries, InAdd
<1>4. DoneEntries' = [entries EXCEPT ![head] = new]
  <2>1. entries[head] \in Entry /\ head \in Slots
    BY DEF TypeOK
  <2>2. [entries[head] EXCEPT !.timestamp = ticks]
          = [timestamp |-> ticks, event |-> entries[head].event]
    BY <2>1, StoreField
  <2>3. entries' =
          [entries EXCEPT ![head] =
             [timestamp |-> ticks, event |-> entries[head].event]]
    BY <2>2 DEF AddStamp
  <2>4. entries'[head] = [timestamp |-> ticks, event |-> entries[head].event]
    BY <2>1, <2>3 DEF TypeOK
  <2>5. entries'[head] \in Entry
    BY <2>1 DEF TypeOK
  <2>6. [entries'[head] EXCEPT !.event = e] = new
    BY <2>4, <2>5, StoreField
  <2>7. DoneEntries' = [entries' EXCEPT ![head] = new]
    BY <1>3, <2>6
  <2> HIDE DEF new
  <2> QED
    BY <2>3, <2>7 DEF TypeOK
<1>5. DoneHead' = Slot(head, 1)
  BY <1>2 DEF AddStamp, DoneHead, InAdd
<1>6. DoneCount' = IF count < KLOG_SIZE THEN count + 1 ELSE count
  BY <1>2 DEF AddStamp, DoneCount, InAdd
<1>7. /\ DoneWindow = [i \in 1..count |-> entries[Back(head, count - i)]]
      /\ DoneWindow \in Seq(Entry)
      /\ Len(DoneWindow) = count
  BY <1>1, DoneShape DEF WindowShape
<1>8. /\ Len(all) = count + 1
      /\ all[count + 1] = new
      /\ \A i \in 1..count : all[i] = entries[Back(head, count - i)]
  BY <1>7 DEF TypeOK
<1>9. DoneWindow' = [i \in 1..DoneCount' |->
                       DoneEntries'[Back(DoneHead', DoneCount' - i)]]
  <2>1. (TypeOK /\ LockInv)' => WindowShape'
    BY DoneShape, PTL
  <2> QED
    BY <2>1 DEF WindowShape
<1>10. PICK m \in 1 .. KLOG_SIZE : /\ m = Recorder!Least(Len(all), KLOG_SIZE)
                                   /\ m = DoneCount'
                                   /\ m <= count + 1
  BY SMTT(30), <1>6, <1>8, KlogAssumption DEF Recorder!Least, TypeOK
<1> HIDE DEF all
<1> HIDE DEF new
<1>a. KLOG_SIZE \in Nat /\ count \in Nat /\ m \in Nat /\ m <= count + 1
  BY <1>10, KlogAssumption DEF TypeOK
<1>11. ASSUME NEW i \in 1..m
       PROVE  DoneEntries'[Back(Slot(head, 1), m - i)] = all[(count + 1) - m + i]
  <2>a. i \in Nat /\ 1 <= i /\ i <= m
    BY <1>11, <1>a
  <2>1. CASE i = m
    <3>1. m - i = 0 /\ (count + 1) - m + i = count + 1
      BY <2>1, <1>a
    <3>2. Back(Slot(head, 1), 0) = head
      BY BackNext DEF TypeOK
    <3> QED
      BY <3>1, <3>2, <1>4, <1>8 DEF TypeOK
  <2>2. CASE i < m
    <3>1. m - i \in 1 .. KLOG_SIZE - 1
      BY <2>2, <2>a, <1>a
    <3>2. /\ Back(Slot(head, 1), m - i) = Back(head, m - i - 1)
          /\ Back(head, m - i - 1) # head
          /\ Back(head, m - i - 1) \in Slots
      BY <3>1, BackNext DEF TypeOK
    <3>3. DoneEntries'[Back(Slot(head, 1), m - i)] = entries[Back(head, m - i - 1)]
      BY <3>2, <1>4 DEF TypeOK
    <3>4. /\ (count + 1) - m + i \in 1..count
          /\ count - ((count + 1) - m + i) = m - i - 1
      BY <2>2, <2>a, <1>a
    <3>5. all[(count + 1) - m + i] = entries[Back(head, m - i - 1)]
      BY <3>4, <1>8
    <3> QED BY <3>3, <3>5
  <2> QED BY <2>1, <2>2, <2>a, <1>a
<1>12. DoneWindow' = Recorder!Newest(all, m)
  <2>1. DoneWindow' = [i \in 1..m |-> DoneEntries'[Back(Slot(head, 1), m - i)]]
    BY <1>5, <1>9, <1>10
  <2>2. Recorder!Newest(all, m) = [i \in 1..m |-> all[(count + 1) - m + i]]
    <3> DEFINE c == count + 1
    <3>1. Len(all) = c
      BY <1>8
    <3> HIDE DEF c
    <3>2. Recorder!Newest(all, m) = [i \in 1..m |-> all[c - m + i]]
      BY <3>1 DEF Recorder!Newest
    <3> QED
      BY <3>2 DEF c
  <2> QED
    BY <2>1, <2>2, <1>11
<1> QED
  BY <1>10, <1>12 DEF AddStamp, Recorder!Record, all, new

\* The later stores of klog_add complete the entry and change no window.
LEMMA CompletionStutters ==
  ASSUME TypeOK, LockInv, NEW t \in Threads, AddFill(t) \/ AddHead(t) \/ AddCount(t)
  PROVE  UNCHANGED <<DoneWindow, ticks, temp>>
<1>1. lock = t /\ t # NoThread
  BY KlogAssumption DEF AddFill, AddHead, AddCount, LockInv
<1>2. CASE AddFill(t)
  <2>1. pc[t] = "fill" /\ pc'[t] = "head" /\ lock' = t
    BY <1>1, <1>2 DEF AddFill, TypeOK
  <2> QED
    BY <1>1, <1>2, <2>1
    DEF AddFill, DoneWindow, DoneEntries, DoneHead, DoneCount, InAdd
<1>3. CASE AddHead(t)
  <2>1. pc[t] = "head" /\ pc'[t] = "count" /\ lock' = t
    BY <1>1, <1>3 DEF AddHead, TypeOK
  <2> QED
    BY <1>1, <1>3, <2>1
    DEF AddHead, DoneWindow, DoneEntries, DoneHead, DoneCount, InAdd
<1>4. CASE AddCount(t)
  <2>1. pc[t] = "count" /\ lock' = NoThread
    BY <1>1, <1>4 DEF AddCount, TypeOK
  <2> QED
    BY <1>1, <1>4, <2>1
    DEF AddCount, DoneWindow, DoneEntries, DoneHead, DoneCount, InAdd
<1> QED
  BY <1>2, <1>3, <1>4

\* klog_getlogs hands out the newest entries of the window.
LEMMA CopyReads ==
  ASSUME TypeOK, LockInv, NEW t \in Threads, NEW max \in MaxArgs, GetCopy(t, max)
  PROVE  Recorder!Read(t, max)
<1> DEFINE q == LeastOf(count, max)
<1>1. /\ DoneEntries = entries /\ DoneHead = head /\ DoneCount = count
  BY KlogAssumption DEF GetCopy, DoneEntries, DoneHead, DoneCount, InAdd
<1>2. /\ DoneWindow = [i \in 1..count |-> entries[Back(head, count - i)]]
      /\ Len(DoneWindow) = count
  BY <1>1, DoneShape DEF WindowShape
<1>3. /\ Recorder!Least(Len(DoneWindow), max) = q
      /\ LeastOf(LeastOf(count, max), TempSize) = q
      /\ q \in Int
      /\ q < 0 \/ (q \in 0 .. count /\ q \in 0 .. KLOG_SIZE)
  <2>1. Recorder!Least(Len(DoneWindow), max) = q
    BY <1>2 DEF Recorder!Least, LeastOf
  <2> QED
    BY <2>1, CopyCount
<1> HIDE DEF q
<1>4. ASSUME q \in 0 .. count, q \in 0 .. KLOG_SIZE
      PROVE  CopyLast(q) = Recorder!Newest(DoneWindow, q)
  <2>1. CopyLast(q) = [i \in 1..q |-> entries[Back(head, q - i)]]
    BY <1>4, CopyType
  <2>2. Recorder!Newest(DoneWindow, q) = [i \in 1..q |-> DoneWindow[count - q + i]]
    <3>1. Len(DoneWindow) = count
      BY <1>2
    <3> QED
      BY <3>1 DEF Recorder!Newest
  <2>3. ASSUME NEW i \in 1..q
        PROVE  DoneWindow[count - q + i] = entries[Back(head, q - i)]
    <3>1. count - q + i \in 1..count /\ count - (count - q + i) = q - i
      BY <1>4, <2>3 DEF TypeOK
    <3> QED
      BY <1>2, <3>1
  <2> QED
    BY <2>1, <2>2, <2>3
<1>5. ASSUME q < 0 PROVE CopyLast(q) = Recorder!Newest(DoneWindow, q)
  <2>1. CopyLast(q) = <<>>
    BY <1>3, <1>5, CopyNone
  <2>2. 1..q = {}
    BY <1>3, <1>5
  <2> QED
    BY <2>1, <2>2 DEF Recorder!Newest
<1>7. CopyLast(q) = Recorder!Newest(DoneWindow, q)
  BY <1>3, <1>4, <1>5
<1>8. DoneWindow' = DoneWindow
  <2>1. lock' = NoThread
    BY DEF GetCopy
  <2> QED
    BY <1>1, <2>1 DEF GetCopy, DoneWindow, DoneEntries, DoneHead, DoneCount, InAdd
<1> QED
  BY <1>3, <1>7, <1>8 DEF GetCopy, Recorder!Read

\* Returning from klog_getlogs drops the local array; a klog_add in progress
\* on another CPU is not disturbed.
LEMMA ReturnReturns ==
  ASSUME TypeOK, LockInv, NEW t \in Threads, GetReturn(t)
  PROVE  Recorder!Return(t)
<1>1. \A u \in Threads \ {t} : pc'[u] = pc[u]
  BY DEF GetReturn, TypeOK
<1>2. lock # t /\ lock' = lock
  BY DEF GetReturn, LockInv
<1>3. DoneWindow' = DoneWindow
  BY <1>1, <1>2
  DEF GetReturn, TypeOK, DoneWindow, DoneEntries, DoneHead, DoneCount, InAdd
<1> QED
  BY <1>3 DEF GetReturn, Recorder!Return

\* Every step of klog.c is a step of the recorder or changes nothing it sees.
LEMMA StepSimulates ==
  TypeOK /\ LockInv /\ TypeOK' /\ LockInv' /\ [Next]_vars
  => [Recorder!Next]_(Recorder!vars)
<1> SUFFICES ASSUME TypeOK, LockInv, TypeOK', LockInv', [Next]_vars
             PROVE  [Recorder!Next]_(Recorder!vars)
  OBVIOUS
<1>1. ASSUME NEW t \in Threads, NEW e \in Events, AddStamp(t, e)
      PROVE  Recorder!Next
  BY <1>1, StampRecords DEF Recorder!Next
<1>2. ASSUME NEW t \in Threads, AddFill(t) \/ AddHead(t) \/ AddCount(t)
      PROVE  UNCHANGED Recorder!vars
  BY <1>2, CompletionStutters DEF Recorder!vars
<1>3. ASSUME NEW t \in Threads, NEW max \in MaxArgs, GetCopy(t, max)
      PROVE  Recorder!Next
  BY <1>3, CopyReads DEF Recorder!Next
<1>4. ASSUME NEW t \in Threads, GetReturn(t) PROVE Recorder!Next
  BY <1>4, ReturnReturns DEF Recorder!Next
<1>5. CASE UNCHANGED vars
  BY <1>5 DEF vars, Recorder!vars, DoneWindow, DoneEntries, DoneHead,
              DoneCount, InAdd
<1> QED
  BY <1>1, <1>2, <1>3, <1>4, <1>5 DEF Next

\* Before the first klog_add the window is empty.
LEMMA InitSimulates == Init => Recorder!Init
<1> SUFFICES ASSUME Init PROVE Recorder!Init
  OBVIOUS
<1>1. DoneCount = 0
  BY DEF Init, DoneCount, InAdd
<1>2. DoneWindow = <<>>
  BY <1>1 DEF DoneWindow
<1> QED
  BY <1>2 DEF Init, Recorder!Init

\* klog.c implements the flight recorder: each klog_add appends exactly one
\* entry and evicts at most the oldest, each klog_getlogs returns the newest
\* entries of a single instant.
THEOREM Refinement == Spec => ImplementsRecorder
<1>1. Spec => [](TypeOK /\ LockInv)
  BY InitTypes, NextTypes, PTL DEF Spec
<1> QED
  BY <1>1, InitSimulates, StepSimulates, PTL DEF Spec, ImplementsRecorder, Recorder!Spec

-----------------------------------------------------------------------------
(* Gap-free snapshots                                                      *)

\* A run of recorded entries with consecutive stamps.
GapFree(s) ==
  /\ Consecutive(s)
  /\ \A i \in 1 .. Len(s) : s[i].event # NoEvent

\* The window is gap-free and klog.ticks follows on from its newest entry.
WindowInv ==
  /\ GapFree(DoneWindow)
  /\ Len(DoneWindow) > 0
     => ticks = (DoneWindow[Len(DoneWindow)].timestamp + 1) % UintMod

\* So is what each klog_getlogs has filled.
SeenInv == \A t \in Threads : GapFree(temp[t])

\* copyout is asked for what the loop filled, unless n is negative.
HandedInv ==
  \A t \in Threads :
    /\ n[t] >= 0 => Asked(t) = Len(temp[t])
    /\ n[t] < 0 => temp[t] = <<>>

\* The newest entries of a gap-free run are a gap-free run with the same end.
LEMMA NewestGapFree ==
  ASSUME NEW s \in Seq(Entry), GapFree(s), NEW q \in 0 .. Len(s)
  PROVE  /\ GapFree(Recorder!Newest(s, q))
         /\ Len(Recorder!Newest(s, q)) = q
         /\ q > 0 => Recorder!Newest(s, q)[q] = s[Len(s)]
<1> DEFINE w == Recorder!Newest(s, q)
<1>1. \A i \in 1..q : Len(s) - q + i \in 1..Len(s)
  OBVIOUS
<1>2. w = [i \in 1..q |-> s[Len(s) - q + i]]
  BY DEF Recorder!Newest
<1>3. \A i \in 1..q : w[i] = s[Len(s) - q + i] /\ w[i] \in Entry
  BY <1>1, <1>2
<1>4. Len(w) = q
  BY <1>1, <1>2
<1> HIDE DEF w
<1>5. ASSUME NEW i \in 1 .. q - 1
      PROVE  w[i + 1].timestamp = (w[i].timestamp + 1) % UintMod
  <2>1. /\ Len(s) - q + i \in 1 .. Len(s) - 1
        /\ Len(s) - q + (i + 1) = (Len(s) - q + i) + 1
        /\ i \in 1..q /\ i + 1 \in 1..q
    BY <1>5
  <2>2. s[(Len(s) - q + i) + 1].timestamp
          = (s[Len(s) - q + i].timestamp + 1) % UintMod
    BY <2>1 DEF GapFree, Consecutive
  <2> QED
    BY SMTT(30), <1>3, <2>1, <2>2
<1>6. \A i \in 1..q : w[i].event # NoEvent
  BY <1>1, <1>3 DEF GapFree
<1>7. q > 0 => w[q] = s[Len(s)]
  BY <1>3
<1> QED
  BY <1>4, <1>5, <1>6, <1>7 DEF GapFree, Consecutive, w

\* Recording one more entry keeps the run gap-free.
LEMMA AppendGapFree ==
  ASSUME TypeOK, LockInv, WindowInv, NEW e \in Events
  PROVE  LET all == Append(DoneWindow, [timestamp |-> ticks, event |-> e])
         IN  /\ all \in Seq(Entry)
             /\ GapFree(all)
             /\ Len(all) > 0
             /\ all[Len(all)].timestamp = ticks
<1> DEFINE new == [timestamp |-> ticks, event |-> e]
           all == Append(DoneWindow, new)
<1>1. new \in Entry /\ new.timestamp = ticks /\ new.event # NoEvent
  BY KlogAssumption DEF TypeOK, Entry
<1>2. DoneWindow \in Seq(Entry)
  BY DoneShape DEF WindowShape
<1> DEFINE k == Len(DoneWindow)
<1>3. k \in Nat
  BY <1>2
<1> HIDE DEF new
<1>4. /\ all \in Seq(Entry)
      /\ Len(all) = k + 1
      /\ all[k + 1] = new
      /\ \A i \in 1..k : all[i] = DoneWindow[i]
  BY <1>1, <1>2
<1> HIDE DEF all
<1>5. ASSUME NEW i \in 1 .. k
      PROVE  all[i + 1].timestamp = (all[i].timestamp + 1) % UintMod
  <2>1. CASE i = k
    BY <1>1, <1>3, <1>4, <1>5, <2>1 DEF WindowInv
  <2>2. CASE i # k
    <3>1. i \in 1 .. k - 1 /\ i + 1 \in 1 .. k
      BY <1>3, <1>5, <2>2
    <3> QED
      BY <1>4, <3>1 DEF WindowInv, GapFree, Consecutive
  <2> QED
    BY <2>1, <2>2
<1>6. \A i \in 1 .. k + 1 : all[i].event # NoEvent
  BY <1>1, <1>3, <1>4 DEF WindowInv, GapFree
<1>7. GapFree(all)
  <2>1. Len(all) - 1 = k
    BY <1>3, <1>4
  <2> QED
    BY <1>4, <1>5, <1>6, <2>1 DEF GapFree, Consecutive
<1> QED
  BY <1>1, <1>3, <1>4, <1>7 DEF all, new

\* The state a step of the recorder leaves is gap-free again.
LEMMA RecorderGapFree ==
  ASSUME TypeOK, LockInv, WindowInv, SeenInv,
         [Recorder!Next]_(Recorder!vars)
  PROVE  WindowInv' /\ SeenInv'
<1>1. ASSUME NEW e \in Events, Recorder!Record(e)
      PROVE  WindowInv' /\ SeenInv'
  <2> DEFINE all == Append(DoneWindow, [timestamp |-> ticks, event |-> e])
             q   == Recorder!Least(Len(all), KLOG_SIZE)
  <2>1. /\ all \in Seq(Entry) /\ GapFree(all) /\ Len(all) > 0
        /\ all[Len(all)].timestamp = ticks
    BY <1>1, AppendGapFree
  <2>2. DoneWindow' = Recorder!Newest(all, q) /\ ticks' = (ticks + 1) % UintMod
        /\ temp' = temp
    BY <1>1 DEF Recorder!Record
  <2> HIDE DEF all
  <2>3. q \in 0 .. Len(all) /\ q > 0
    BY <2>1, KlogAssumption DEF Recorder!Least
  <2> HIDE DEF q
  <2>4. /\ GapFree(Recorder!Newest(all, q))
        /\ Len(Recorder!Newest(all, q)) = q
        /\ Recorder!Newest(all, q)[q] = all[Len(all)]
    BY <2>1, <2>3, NewestGapFree
  <2>5. WindowInv'
    BY <2>1, <2>2, <2>4 DEF WindowInv, GapFree, Consecutive
  <2> QED
    BY <2>2, <2>5 DEF SeenInv, Consecutive
<1>2. ASSUME NEW t \in Threads, NEW max \in MaxArgs, Recorder!Read(t, max)
      PROVE  WindowInv' /\ SeenInv'
  <2> DEFINE q == Recorder!Least(Len(DoneWindow), max)
             w == Recorder!Newest(DoneWindow, q)
  <2>1. DoneWindow \in Seq(Entry) /\ GapFree(DoneWindow)
    BY DoneShape DEF WindowShape, WindowInv
  <2>2. q \in Int /\ (q < 0 \/ q \in 0 .. Len(DoneWindow))
    BY <1>2, <2>1, KlogAssumption DEF Recorder!Least
  <2>3. temp' = [temp EXCEPT ![t] = w] /\ UNCHANGED <<DoneWindow, ticks>>
    BY <1>2 DEF Recorder!Read
  <2> HIDE DEF q
  <2>4. GapFree(w)
    <3>1. CASE q \in 0 .. Len(DoneWindow)
      BY <2>1, <3>1, NewestGapFree
    <3>2. CASE q < 0
      <4>1. 1..q = {}
        BY <2>2, <3>2
      <4>2. w = <<>>
        BY <4>1 DEF Recorder!Newest
      <4> QED
        BY <4>2 DEF GapFree, Consecutive
    <3> QED
      BY <2>2, <3>1, <3>2
  <2> HIDE DEF w
  <2>5. \A u \in Threads : temp'[u] = IF u = t THEN w ELSE temp[u]
    BY <2>3 DEF TypeOK
  <2>6. SeenInv'
    <3>1. \A u \in Threads : GapFree(temp[u])
      BY DEF SeenInv, GapFree
    <3>2. \A u \in Threads : GapFree(temp'[u])
      BY <2>4, <2>5, <3>1
    <3> QED
      BY <3>2 DEF SeenInv, GapFree, Consecutive
  <2> QED
    BY <2>3, <2>6 DEF WindowInv, GapFree, Consecutive
<1>3. ASSUME NEW t \in Threads, Recorder!Return(t)
      PROVE  WindowInv' /\ SeenInv'
  <2>1. \A u \in Threads : temp'[u] = IF u = t THEN <<>> ELSE temp[u]
    BY <1>3 DEF Recorder!Return, TypeOK
  <2>2. SeenInv'
    <3>1. GapFree(<<>>)
      BY DEF GapFree, Consecutive
    <3>2. \A u \in Threads : GapFree(temp[u])
      BY DEF SeenInv, GapFree
    <3>3. \A u \in Threads : GapFree(temp'[u])
      BY <2>1, <3>1, <3>2
    <3> QED
      BY <3>3 DEF SeenInv, GapFree, Consecutive
  <2> QED
    BY <1>3, <2>2 DEF Recorder!Return, WindowInv, GapFree, Consecutive
<1>4. CASE UNCHANGED Recorder!vars
  BY <1>4 DEF Recorder!vars, WindowInv, GapFree, Consecutive, SeenInv
<1> QED
  BY <1>1, <1>2, <1>3, <1>4 DEF Recorder!Next

\* No step leaves copyout with another length than that of what was filled,
\* except the copy for a negative max.
LEMMA NextHanded ==
  ASSUME TypeOK, HandedInv, [Next]_vars
  PROVE  HandedInv'
<1>1. ASSUME NEW t \in Threads, NEW max \in MaxArgs, GetCopy(t, max)
      PROVE  HandedInv'
  <2> DEFINE q == LeastOf(LeastOf(count, max), TempSize)
             w == CopyLast(q)
  <2>1. q \in Int /\ (q < 0 \/ q \in 0 .. KLOG_SIZE)
    BY CopyCount
  <2>2. n' = [n EXCEPT ![t] = q] /\ temp' = [temp EXCEPT ![t] = w]
    BY <1>1 DEF GetCopy
  <2> HIDE DEF q
  <2>3. q >= 0 => q % LenMod = q
    BY <2>1, KlogAssumption
  <2>4. q >= 0 => Len(w) = q
    <3> SUFFICES ASSUME q >= 0 PROVE Len(w) = q
      OBVIOUS
    <3>1. /\ w = [i \in 1..q |-> entries[Back(head, q - i)]]
          /\ w \in Seq(Entry)
      BY <2>1, CopyType, KlogAssumption
    <3> QED
      BY <2>1, <3>1
  <2>5. q < 0 => w = <<>>
    BY <2>1, CopyNone
  <2> HIDE DEF w
  <2>6. ASSUME NEW u \in Threads
        PROVE  /\ n'[u] >= 0 => n'[u] % LenMod = Len(temp'[u])
               /\ n'[u] < 0 => temp'[u] = <<>>
    <3>1. CASE u = t
      <4>1. n'[u] = q /\ temp'[u] = w
        BY <2>2, <3>1 DEF TypeOK
      <4> QED
        BY <2>3, <2>4, <2>5, <4>1
    <3>2. CASE u # t
      <4>1. n'[u] = n[u] /\ temp'[u] = temp[u]
        BY <2>2, <3>2 DEF TypeOK
      <4> QED
        BY <4>1 DEF HandedInv, Asked
    <3> QED
      BY <3>1, <3>2
  <2> QED
    BY <2>6 DEF HandedInv, Asked
<1>2. ASSUME NEW t \in Threads, GetReturn(t) PROVE HandedInv'
  <2>1. 0 % LenMod = 0 /\ Len(<<>>) = 0
    BY KlogAssumption
  <2>2. n' = [n EXCEPT ![t] = 0] /\ temp' = [temp EXCEPT ![t] = <<>>]
    BY <1>2 DEF GetReturn
  <2>3. ASSUME NEW u \in Threads
        PROVE  /\ n'[u] >= 0 => n'[u] % LenMod = Len(temp'[u])
               /\ n'[u] < 0 => temp'[u] = <<>>
    <3>1. CASE u = t
      <4>1. n'[u] = 0 /\ temp'[u] = <<>>
        BY <2>2, <3>1 DEF TypeOK
      <4> QED
        BY <2>1, <4>1
    <3>2. CASE u # t
      <4>1. n'[u] = n[u] /\ temp'[u] = temp[u]
        BY <2>2, <3>2 DEF TypeOK
      <4> QED
        BY <4>1 DEF HandedInv, Asked
    <3> QED
      BY <3>1, <3>2
  <2> QED
    BY <2>3 DEF HandedInv, Asked
<1>3. CASE UNCHANGED <<n, temp>>
  BY <1>3 DEF HandedInv, Asked
<1> QED
  BY <1>1, <1>2, <1>3
  DEF Next, vars, AddStamp, AddFill, AddHead, AddCount

\* Whatever interleaving of klog_add and klog_getlogs the CPUs run and however
\* often the ring wrapped, the entries a call has filled have consecutive
\* stamps and were all recorded, and they are what a call whose max is not
\* negative hands to user space.  For a negative max, which the code does not
\* refuse, the theorem says that nothing was filled.
THEOREM Snapshots == Spec => []SnapshotIsGapFree
<1> DEFINE IInv == TypeOK /\ LockInv /\ WindowInv /\ SeenInv /\ HandedInv
<1>1. Init => IInv
  <2> SUFFICES ASSUME Init PROVE IInv
    OBVIOUS
  <2>1. DoneWindow = <<>>
    BY InitSimulates DEF Recorder!Init
  <2>2. WindowInv /\ SeenInv
    BY <2>1 DEF Init, WindowInv, GapFree, Consecutive, SeenInv
  <2>3. 0 % LenMod = 0 /\ Len(<<>>) = 0
    BY KlogAssumption
  <2>4. HandedInv
    BY <2>3 DEF Init, HandedInv, Asked
  <2> QED
    BY <2>2, <2>4, InitTypes
<1>2. IInv /\ [Next]_vars => IInv'
  BY NextTypes, StepSimulates, RecorderGapFree, NextHanded
<1>3. IInv => SnapshotIsGapFree
  BY DEF SeenInv, HandedInv, GapFree, SnapshotIsGapFree
<1> QED
  BY <1>1, <1>2, <1>3, PTL DEF Spec
=============================================================================
