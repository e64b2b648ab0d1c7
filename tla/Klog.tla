-------------------------------- MODULE Klog --------------------------------
(***************************************************************************)
(* The kernel flight recorder of klog.c: a ring of KLOG_SIZE entries under *)
(* one spin lock, written by klog_add and copied out by klog_getlogs.      *)
(*                                                                         *)
(* klog_add is one step per group of stores of its critical section, so    *)
(* that the lock, and not the model, keeps two callers apart.              *)
(***************************************************************************)
EXTENDS Integers, Sequences

CONSTANTS
  Threads,    \* kernel threads (one per CPU) that call into klog.c
  NoThread,   \* "klog.lock is free"
  Events,     \* the (type, pid, extra) arguments of klog_add
  NoEvent,    \* the zeroed fields of an entry never written
  KLOG_SIZE,  \* slots of the ring
  TempSize,   \* slots of the local array temp of klog_getlogs
  UintMod,    \* 2^32 in the code: klog.ticks is an unsigned int
  LenMod,     \* 2^32 / sizeof(struct logentry): entries in an unsigned length
  MaxArgs     \* values of klog_getlogs' argument max, a signed int

ASSUME KlogAssumption ==
  /\ NoThread \notin Threads
  /\ NoEvent \notin Events
  /\ KLOG_SIZE \in Nat \ {0}
  /\ TempSize \in Nat /\ KLOG_SIZE <= TempSize
  /\ UintMod \in Nat \ {0}
  /\ LenMod \in Nat /\ KLOG_SIZE < LenMod
  /\ MaxArgs \subseteq Int

VARIABLES
  lock,       \* klog.lock: the thread that holds it
  entries,    \* klog.entries
  head,       \* klog.head, the next slot to write
  count,      \* klog.count, how many slots hold entries
  ticks,      \* klog.ticks, the next stamp
  pc,         \* where each thread is inside klog_add or klog_getlogs
  arg,        \* the event a thread in klog_add is recording
  n,          \* the local n of a thread in klog_getlogs, a signed int
  temp        \* the elements of temp that its loop has filled

vars == <<lock, entries, head, count, ticks, pc, arg, n, temp>>

Slots == 0 .. KLOG_SIZE - 1
Entry == [timestamp : 0 .. UintMod - 1, event : Events \cup {NoEvent}]

\* The slot i places after slot "from" in the ring.
Slot(from, i) == (from + i) % KLOG_SIZE

Init ==
  /\ lock = NoThread
  /\ entries = [s \in Slots |-> [timestamp |-> 0, event |-> NoEvent]]
  /\ head = 0
  /\ count = 0
  /\ ticks = 0
  /\ pc = [t \in Threads |-> "idle"]
  /\ arg = [t \in Threads |-> NoEvent]
  /\ n = [t \in Threads |-> 0]
  /\ temp = [t \in Threads |-> <<>>]

-----------------------------------------------------------------------------
(* klog_add                                                                *)
\* Mutant of AddStamp: the lock is not taken into account.
AddStampUnlocked(t, e) ==
  /\ pc[t] = "idle"
  /\ lock' = t
  /\ entries' = [entries EXCEPT ![head].timestamp = ticks]
  /\ ticks' = (ticks + 1) % UintMod
  /\ arg' = [arg EXCEPT ![t] = e]
  /\ pc' = [pc EXCEPT ![t] = "fill"]
  /\ UNCHANGED <<head, count, n, temp>>

\* acquire(&klog.lock); entries[head].timestamp = ticks++
AddStamp(t, e) ==
  /\ pc[t] = "idle"
  /\ lock = NoThread
  /\ lock' = t
  /\ entries' = [entries EXCEPT ![head].timestamp = ticks]
  /\ ticks' = (ticks + 1) % UintMod
  /\ arg' = [arg EXCEPT ![t] = e]
  /\ pc' = [pc EXCEPT ![t] = "fill"]
  /\ UNCHANGED <<head, count, n, temp>>

\* entries[head].event_type, .pid, .extra
AddFill(t) ==
  /\ pc[t] = "fill"
  /\ entries' = [entries EXCEPT ![head].event = arg[t]]
  /\ pc' = [pc EXCEPT ![t] = "head"]
  /\ UNCHANGED <<lock, head, count, ticks, arg, n, temp>>

\* head = (head + 1) % KLOG_SIZE
AddHead(t) ==
  /\ pc[t] = "head"
  /\ head' = Slot(head, 1)
  /\ pc' = [pc EXCEPT ![t] = "count"]
  /\ UNCHANGED <<lock, entries, count, ticks, arg, n, temp>>

\* if(count < KLOG_SIZE) count++; release(&klog.lock)
AddCount(t) ==
  /\ pc[t] = "count"
  /\ count' = IF count < KLOG_SIZE THEN count + 1 ELSE count
  /\ lock' = NoThread
  /\ arg' = [arg EXCEPT ![t] = NoEvent]
  /\ pc' = [pc EXCEPT ![t] = "idle"]
  /\ UNCHANGED <<entries, head, ticks, n, temp>>

-----------------------------------------------------------------------------
(* klog_getlogs                                                            *)

LeastOf(a, b) == IF a < b THEN a ELSE b
\* Mutant of CopyLast: the copy starts one slot early.
CopyLastEarly(m) ==
  LET start == (head - m - 1 + KLOG_SIZE) % KLOG_SIZE
  IN  [i \in 1..m |-> entries[Slot(start, i - 1)]]

\* The last m entries, oldest first: the loop that fills temp, which makes no
\* round when m is negative.
CopyLast(m) ==
  LET start == (head - m + KLOG_SIZE) % KLOG_SIZE
  IN  [i \in 1..m |-> entries[Slot(start, i - 1)]]

\* The critical section: nobody else writes the ring while the lock is held,
\* so the whole copy is one step.
GetCopy(t, max) ==
  /\ pc[t] = "idle"
  /\ lock = NoThread
  /\ n' = [n EXCEPT ![t] = LeastOf(LeastOf(count, max), TempSize)]
  /\ temp' = [temp EXCEPT
        ![t] = CopyLast(LeastOf(LeastOf(count, max), TempSize))]
  /\ pc' = [pc EXCEPT ![t] = "copyout"]
  /\ UNCHANGED <<lock, entries, head, count, ticks, arg>>

\* How many entries from temp on copyout is asked for: the signed product
\* n * sizeof(struct logentry) becomes its unsigned parameter len.
Asked(t) == n[t] % LenMod

\* copyout() to the caller's buffer, outside the lock; it succeeds or not, and
\* either way the function returns and its locals go with its stack frame.
GetReturn(t) ==
  /\ pc[t] = "copyout"
  /\ n' = [n EXCEPT ![t] = 0]
  /\ temp' = [temp EXCEPT ![t] = <<>>]
  /\ pc' = [pc EXCEPT ![t] = "idle"]
  /\ UNCHANGED <<lock, entries, head, count, ticks, arg>>

-----------------------------------------------------------------------------
Next ==
  \E t \in Threads :
    \/ \E e \in Events : AddStamp(t, e)
    \/ AddFill(t)
    \/ AddHead(t)
    \/ AddCount(t)
    \/ \E max \in MaxArgs : GetCopy(t, max)
    \/ GetReturn(t)

Spec == Init /\ [][Next]_vars

-----------------------------------------------------------------------------
(* Properties                                                              *)

\* Every variable of klog.c keeps its type; in particular head never leaves
\* the array and count never exceeds it.
TypeOK ==
  /\ lock \in Threads \cup {NoThread}
  /\ entries \in [Slots -> Entry]
  /\ head \in Slots
  /\ count \in 0 .. KLOG_SIZE
  /\ ticks \in 0 .. UintMod - 1
  /\ pc \in [Threads -> {"idle", "fill", "head", "count", "copyout"}]
  /\ arg \in [Threads -> Events \cup {NoEvent}]
  /\ n \in [Threads -> Int]
  /\ temp \in [Threads -> Seq(Entry)]

Consecutive(s) ==
  \A i \in 1 .. Len(s) - 1 :
    s[i + 1].timestamp = (s[i].timestamp + 1) % UintMod

\* What a call with max >= 0 hands to user space is exactly what it filled,
\* and that is a gap-free run of the history: consecutive stamps and no slot
\* that was never written, whatever klog_add calls interleaved with it and
\* however often the ring wrapped (klog.c:72-86).  A negative max is not
\* tested for: nothing is filled and copyout is asked for more than
\* the array, so of such a call only the part about temp is claimed.
SnapshotIsGapFree ==
  \A t \in Threads :
    /\ Consecutive(temp[t])
    /\ \A i \in 1 .. Len(temp[t]) : temp[t][i].event # NoEvent
    /\ n[t] >= 0 => Asked(t) = Len(temp[t])
    /\ n[t] < 0 => temp[t] = <<>>

\* The ring as the critical section in progress will leave it: klog_add takes
\* effect at its first store, the later ones complete it.
InAdd(stages) == lock # NoThread /\ pc[lock] \in stages
DoneEntries ==
  IF InAdd({"fill"}) THEN [entries EXCEPT ![head].event = arg[lock]]
                     ELSE entries
DoneHead == IF InAdd({"fill", "head"}) THEN Slot(head, 1) ELSE head
DoneCount ==
  IF InAdd({"fill", "head", "count"}) /\ count < KLOG_SIZE
  THEN count + 1 ELSE count
DoneWindow ==
  LET start == (DoneHead - DoneCount + KLOG_SIZE) % KLOG_SIZE
  IN  [i \in 1..DoneCount |-> DoneEntries[Slot(start, i - 1)]]

Recorder ==
  INSTANCE FlightRecorder
    WITH window <- DoneWindow, next <- ticks, seen <- temp

\* The ring implements the abstract recorder: each klog_add appends exactly
\* one entry and evicts at most the oldest, each klog_getlogs returns the
\* newest entries of a single instant (klog.c:32-46, 66-91).
ImplementsRecorder == Recorder!Spec
=============================================================================
