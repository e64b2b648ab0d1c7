------------------------------ MODULE BufCache ------------------------------
(***************************************************************************)
(* The buffer cache of bio.c over the disk driver of ide.c: processes that *)
(* read, modify, pin and write blocks through a fixed set of buffers, and  *)
(* a disk that serves one request at a time and reports with an interrupt. *)
(*                                                                         *)
(* One action per critical section of bcache.lock, of a buffer's sleep     *)
(* lock (module Sleeplock has its inside) and of idelock.                  *)
(***************************************************************************)
EXTENDS Integers, Sequences, FiniteSets

CONSTANTS
  Procs,
  Nobody,     \* the buffer's sleep lock is free
  Bufs,       \* bcache.buf
  Blocks,
  NoBlock,    \* the number of a buffer that never held a block
  NoBuf,
  Values,
  MaxPinned,  \* bound: buffers log.c keeps dirty until it commits
  MaxFailed   \* bound: buffers whose last transfer failed, at a time

ASSUME BufCacheAssumption ==
  /\ Nobody \notin Procs
  /\ NoBlock \notin Blocks
  /\ NoBuf \notin Bufs
  /\ IsFiniteSet(Procs) /\ IsFiniteSet(Bufs)
  /\ MaxPinned \in Nat /\ MaxFailed \in Nat

VARIABLES
  blockno,    \* b->blockno
  valid,      \* buffers with B_VALID
  dirty,      \* buffers with B_DIRTY
  refcnt,     \* b->refcnt
  owner,      \* who holds b->lock
  data,       \* b->data
  lru,        \* the list of all buffers, most recently used first
  idequeue,   \* the driver's queue; its head is the active request
  device,     \* the request the disk works on or has finished
  disk,       \* what is on the platters
  failed,     \* buffers whose last transfer the disk did not carry out
  buf,        \* the buffer a process got from bget
  asleep,     \* processes in sleep(): on b->lock in acquiresleep, on b in iderw
  pc

vars == <<blockno, valid, dirty, refcnt, owner, data, lru, idequeue, device,
          disk, failed, buf, asleep, pc>>
driver == <<idequeue, device, disk, failed>>

\* The registers of the disk: idle, at work, or with its interrupt raised.
Idle == [state |-> "idle"]
Idestart(b) ==
  [state |-> "busy", block |-> blockno[b], write |-> b \in dirty',
   data |-> data'[b]]

Init ==
  /\ blockno = [b \in Bufs |-> NoBlock]
  /\ valid = {}
  /\ dirty = {}
  /\ refcnt = [b \in Bufs |-> 0]
  /\ owner = [b \in Bufs |-> Nobody]
  /\ \E v \in Values : data = [b \in Bufs |-> v]
  /\ lru \in [1 .. Cardinality(Bufs) -> Bufs]
  /\ \A i, j \in DOMAIN lru : lru[i] = lru[j] => i = j
  /\ idequeue = <<>>
  /\ device = Idle
  /\ disk \in [Blocks -> Values]
  /\ failed = {}
  /\ buf = [p \in Procs |-> NoBuf]
  /\ asleep = {}
  /\ pc = [p \in Procs |-> "idle"]

Goto(p, label) == pc' = [pc EXCEPT ![p] = label]

-----------------------------------------------------------------------------
(* bget and acquiresleep                                                   *)

Cached(k) == {b \in Bufs : blockno[b] = k}
\* Mutant of Recyclable: B_DIRTY does not pin the buffer.
RecyclableDirty(b) == refcnt[b] = 0

Recyclable(b) == refcnt[b] = 0 /\ b \notin dirty

\* The least recently used buffer that may be recycled.
Victim ==
  lru[CHOOSE i \in DOMAIN lru :
        /\ Recyclable(lru[i])
        /\ \A j \in DOMAIN lru : j > i => ~Recyclable(lru[j])]

\* Mutant of BgetHit: no b->refcnt++.
BgetHitUncounted(p, k) ==
  /\ pc[p] = "idle"
  /\ \E b \in Cached(k) : buf' = [buf EXCEPT ![p] = b]
  /\ Goto(p, "lock")
  /\ UNCHANGED <<blockno, valid, dirty, refcnt, owner, data, lru, driver,
                 asleep>>

BgetHit(p, k) ==
  /\ pc[p] = "idle"
  /\ \E b \in Cached(k) :
       /\ refcnt' = [refcnt EXCEPT ![b] = @ + 1]
       /\ buf' = [buf EXCEPT ![p] = b]
  /\ Goto(p, "lock")
  /\ UNCHANGED <<blockno, valid, dirty, owner, data, lru, driver, asleep>>

\* Mutant of BgetMiss: bcache.lock is dropped between search and recycling.
BgetMissUnlocked(p, k) ==
  /\ pc[p] = "idle"
  /\ \E b \in Bufs : Recyclable(b)
  /\ blockno' = [blockno EXCEPT ![Victim] = k]
  /\ valid' = valid \ {Victim}
  /\ refcnt' = [refcnt EXCEPT ![Victim] = 1]
  /\ buf' = [buf EXCEPT ![p] = Victim]
  /\ Goto(p, "lock")
  /\ UNCHANGED <<dirty, owner, data, lru, driver, asleep>>

BgetMiss(p, k) ==
  /\ pc[p] = "idle"
  /\ Cached(k) = {}
  /\ IF \E b \in Bufs : Recyclable(b)
     THEN /\ blockno' = [blockno EXCEPT ![Victim] = k]
          /\ valid' = valid \ {Victim}
          /\ refcnt' = [refcnt EXCEPT ![Victim] = 1]
          /\ buf' = [buf EXCEPT ![p] = Victim]
          /\ Goto(p, "lock")
     ELSE /\ Goto(p, "panic")    \* "bget: no buffers"
          /\ UNCHANGED <<blockno, valid, refcnt, buf>>
  /\ UNCHANGED <<dirty, owner, data, lru, driver, asleep>>

\* acquiresleep(&b->lock): take it, or sleep and test again.
AcquireSleep(p) ==
  /\ pc[p] = "lock"
  /\ p \notin asleep
  /\ IF owner[buf[p]] = Nobody
     THEN /\ owner' = [owner EXCEPT ![buf[p]] = p]
          /\ Goto(p, "locked")
          /\ UNCHANGED asleep
     ELSE /\ asleep' = asleep \cup {p}
          /\ UNCHANGED <<owner, pc>>
  /\ UNCHANGED <<blockno, valid, dirty, refcnt, data, lru, driver, buf>>

-----------------------------------------------------------------------------
(* iderw and ideintr                                                       *)

\* iderw up to its sleep.
Submit(p) ==
  /\ idequeue' = Append(idequeue, buf[p])
  /\ device' = IF idequeue = <<>> THEN Idestart(buf[p]) ELSE device
  /\ asleep' = asleep \cup {p}
  /\ Goto(p, "io")
  /\ UNCHANGED <<disk, failed>>

\* The end of bread: a buffer that is not valid is read from the disk.
Bread(p) ==
  /\ pc[p] = "locked"
  /\ IF buf[p] \in valid
     THEN Goto(p, "using") /\ UNCHANGED <<data, dirty, driver, asleep>>
     ELSE UNCHANGED <<data, dirty>> /\ Submit(p)
  /\ UNCHANGED <<blockno, valid, refcnt, owner, lru, buf>>

\* A holder fills the buffer and calls bwrite, as write_log and write_head do.
Bwrite(p, v) ==
  /\ pc[p] = "using"
  /\ data' = [data EXCEPT ![buf[p]] = v]
  /\ dirty' = dirty \cup {buf[p]}
  /\ Submit(p)
  /\ UNCHANGED <<blockno, valid, refcnt, owner, lru, buf>>

\* The loop of iderw, after a wakeup.
IdeWait(p) ==
  /\ pc[p] = "io"
  /\ p \notin asleep
  /\ IF buf[p] \in valid \ dirty
     THEN Goto(p, "using") /\ UNCHANGED asleep
     ELSE asleep' = asleep \cup {p} /\ UNCHANGED pc
  /\ UNCHANGED <<blockno, valid, dirty, refcnt, owner, data, lru, driver, buf>>

\* The disk finishes its request and raises the interrupt line.
DiskDone(outcome) ==
  /\ device.state = "busy"
  /\ outcome = "error" => Cardinality(failed) < MaxFailed
  /\ device' = [device EXCEPT !.state = outcome]
  /\ disk' = IF device.write /\ outcome = "ok"
             THEN [disk EXCEPT ![device.block] = device.data] ELSE disk
  /\ UNCHANGED <<blockno, valid, dirty, refcnt, owner, data, lru, idequeue,
                 failed, buf, asleep, pc>>

\* Mutant of IdeIntr: the next request is not started.
IdeIntrStalls ==
  /\ device.state \in {"ok", "error"}
  /\ valid' = valid \cup {Head(idequeue)}
  /\ dirty' = dirty \ {Head(idequeue)}
  /\ asleep' = asleep \ {p \in Procs : pc[p] = "io" /\ buf[p] = Head(idequeue)}
  /\ idequeue' = Tail(idequeue)
  /\ device' = Idle
  /\ UNCHANGED <<blockno, refcnt, owner, data, lru, disk, failed, buf, pc>>

IdeIntr ==
  /\ device.state \in {"ok", "error"}
  /\ LET b == Head(idequeue) IN
       /\ data' = IF b \notin dirty /\ device.state = "ok"
                  THEN [data EXCEPT ![b] = disk[device.block]] ELSE data
       /\ valid' = valid \cup {b}
       /\ dirty' = dirty \ {b}
       /\ asleep' = asleep \ {p \in Procs : pc[p] = "io" /\ buf[p] = b}
       /\ failed' = IF device.state = "error" THEN failed \cup {b}
                    ELSE failed \ {b}
  /\ idequeue' = Tail(idequeue)
  /\ device' = IF idequeue' # <<>> THEN Idestart(Head(idequeue')) ELSE Idle
  /\ UNCHANGED <<blockno, refcnt, owner, lru, disk, buf, pc>>

-----------------------------------------------------------------------------
(* What holders of a buffer do, brelse, and kill                           *)

\* A holder changes the block and calls log_write, which pins the buffer until
\* the commit writes it.
LogWrite(p, v) ==
  /\ pc[p] = "using"
  /\ Cardinality(dirty \cup {buf[p]}) <= MaxPinned
  /\ data' = [data EXCEPT ![buf[p]] = v]
  /\ dirty' = dirty \cup {buf[p]}
  /\ UNCHANGED <<blockno, valid, refcnt, owner, lru, driver, buf, asleep, pc>>

\* Mutant of BrelseUnlock: no wakeup(lk).
BrelseUnlockSilent(p) ==
  /\ pc[p] = "using"
  /\ owner' = [owner EXCEPT ![buf[p]] = Nobody]
  /\ Goto(p, "unlocked")
  /\ UNCHANGED <<blockno, valid, dirty, refcnt, data, lru, driver, buf, asleep>>

\* releasesleep(&b->lock)
BrelseUnlock(p) ==
  /\ pc[p] = "using"
  /\ owner' = [owner EXCEPT ![buf[p]] = Nobody]
  /\ asleep' = asleep \ {q \in Procs : pc[q] = "lock" /\ buf[q] = buf[p]}
  /\ Goto(p, "unlocked")
  /\ UNCHANGED <<blockno, valid, dirty, refcnt, data, lru, driver, buf>>

\* The list after b is unlinked and put at its head.
MoveToFront(b) ==
  LET place == CHOOSE i \in DOMAIN lru : lru[i] = b
  IN  [i \in DOMAIN lru |-> IF i = 1 THEN b
                           ELSE IF i <= place THEN lru[i - 1] ELSE lru[i]]

BrelsePut(p) ==
  /\ pc[p] = "unlocked"
  /\ refcnt' = [refcnt EXCEPT ![buf[p]] = @ - 1]
  /\ lru' = IF refcnt'[buf[p]] = 0 THEN MoveToFront(buf[p]) ELSE lru
  /\ buf' = [buf EXCEPT ![p] = NoBuf]
  /\ Goto(p, "idle")
  /\ UNCHANGED <<blockno, valid, dirty, owner, data, driver, asleep>>

\* kill() makes a sleeper runnable, whatever it waits for.
Kill(p) ==
  /\ p \in asleep
  /\ asleep' = asleep \ {p}
  /\ UNCHANGED <<blockno, valid, dirty, refcnt, owner, data, lru, driver, buf,
                 pc>>

-----------------------------------------------------------------------------
\* panic keeps bcache.lock and its CPU for good: nothing moves after it.
Panicked == \E p \in Procs : pc[p] = "panic"
Panic == Panicked /\ UNCHANGED vars

Step ==
  \/ \E p \in Procs :
       \/ \E k \in Blocks : BgetHit(p, k) \/ BgetMiss(p, k)
       \/ AcquireSleep(p) \/ Bread(p) \/ IdeWait(p)
       \/ \E v \in Values : LogWrite(p, v) \/ Bwrite(p, v)
       \/ BrelseUnlock(p) \/ BrelsePut(p)
       \/ Kill(p)
  \/ \E o \in {"ok", "error"} : DiskDone(o)
  \/ IdeIntr

Next == (~Panicked /\ Step) \/ Panic

Spec == Init /\ [][Next]_vars

-----------------------------------------------------------------------------
(* Properties                                                              *)

Holding == {"locked", "io", "using"}

\* A block is never in two buffers: bget's search and its recycling are one
\* critical section (bio.c:66-91).
OneBufferPerBlock ==
  \A b, c \in Bufs : blockno[b] = blockno[c] /\ blockno[b] # NoBlock => b = c

\* The contents a reader of block k is entitled to.
Contents(k) ==
  IF \E b \in Cached(k) \cap valid : TRUE
  THEN data[CHOOSE b \in Cached(k) \cap valid : TRUE] ELSE disk[k]

\* Only a process that holds the block's buffer locked changes a block's
\* contents: recycling, rereading, queueing, interrupts and wakeups in whatever
\* order never lose or revive a write, unless the disk failed a transfer
\* (bio.c:78-91, ide.c:115-124, 152-164).
ContentsKept ==
  [][\A k \in Blocks :
       Contents(k)' # Contents(k) =>
         \/ \E p \in Procs : pc[p] = "using" /\ blockno[buf[p]] = k
         \/ \E b \in Bufs : blockno[b] = k /\ b \in failed \cup failed']_vars

\* The disk works on the head of the queue, and a queued buffer stays locked by
\* the process that waits for it (ide.c:27-29, 108, 115-128, 142).
QueueServed ==
  /\ (device = Idle) <=> (idequeue = <<>>)
  /\ idequeue # <<>> => device.block = blockno[Head(idequeue)]
  /\ \A i \in DOMAIN idequeue :
       \E p \in Procs :
         pc[p] = "io" /\ buf[p] = idequeue[i] /\ owner[idequeue[i]] = p

\* b->refcnt is the number of processes between bget and the end of brelse, so
\* that a buffer somebody waits for is never recycled, and of these one at most
\* is past acquiresleep.  bget can panic for want of a buffer, since NBUF is
\* below LOGSIZE plus what NPROC processes can hold; but it does so only when
\* every buffer is dirty or with another process, never because a reference
\* was not given back (bio.c:71, 80-92, 113, 124, 129, ide.c:143).
RefcntCounts ==
  /\ \A b \in Bufs : refcnt[b] = Cardinality({p \in Procs : buf[p] = b})
  /\ \A p \in Procs :
       /\ pc[p] \in Holding => owner[buf[p]] = p
       /\ pc[p] = "panic" =>
            \A b \in Bufs \ dirty : \E q \in Procs \ {p} : buf[q] = b

\* Whoever sleeps has something to wait for: its transfer is still queued, or
\* somebody else has the buffer (ide.c:124, 162-164, sleeplock.c:26-28, 40).
SleepersAwaited ==
  \A p \in asleep :
    \/ pc[p] = "io" /\ \E i \in DOMAIN idequeue : idequeue[i] = buf[p]
    \/ pc[p] = "lock" /\ owner[buf[p]] \notin {p, Nobody}
=============================================================================
