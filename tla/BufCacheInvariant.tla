-------------------------- MODULE BufCacheInvariant -------------------------
(***************************************************************************)
(* An inductive invariant of the buffer cache and the disk driver for any  *)
(* number of processes, buffers and blocks, and that bget, acquiresleep,   *)
(* bread, bwrite and the driver keep it.                                   *)
(***************************************************************************)
EXTENDS BufCache, TLAPS

\* A leaf is tried with Zenon, with SMT, and with Zenon for longer.
USE ZenonT(5), SMTT(30), ZenonT(60)

Labels == Holding \cup {"idle", "lock", "unlocked", "panic"}

Types ==
  /\ blockno \in [Bufs -> Blocks \cup {NoBlock}]
  /\ valid \in SUBSET Bufs /\ dirty \in SUBSET Bufs /\ failed \in SUBSET Bufs
  /\ refcnt \in [Bufs -> Nat]
  /\ owner \in [Bufs -> Procs \cup {Nobody}]
  /\ data \in [Bufs -> Values]
  /\ lru \in [1 .. Cardinality(Bufs) -> Bufs]
  /\ idequeue \in Seq(Bufs)
  /\ disk \in [Blocks -> Values]
  /\ buf \in [Procs -> Bufs \cup {NoBuf}]
  /\ asleep \in SUBSET Procs
  /\ pc \in [Procs -> Labels]

\* Every buffer is in the list.
Ordered == \A b \in Bufs : \E i \in DOMAIN lru : lru[i] = b

\* Who is past acquiresleep has the buffer's lock, and nobody else has.
Holds ==
  /\ \A p \in Procs : pc[p] \in {"idle", "panic"} <=> buf[p] = NoBuf
  /\ \A p \in Procs : pc[p] \in Holding => owner[buf[p]] = p
  /\ \A b \in Bufs : owner[b] # Nobody => pc[owner[b]] \in Holding /\ buf[owner[b]] = b

Users(b) == {p \in Procs : buf[p] = b}
Counted == \A b \in Bufs : refcnt[b] = Cardinality(Users(b))

\* A valid buffer that is neither dirty nor failed is a copy of its block.
Loaded ==
  /\ \A p \in Procs : buf[p] # NoBuf => blockno[buf[p]] \in Blocks
  /\ \A p \in Procs : pc[p] = "using" => buf[p] \in valid
  /\ dirty \subseteq valid
  /\ \A b \in valid : blockno[b] \in Blocks
  /\ \A b \in valid : b \in dirty \/ b \in failed \/ data[b] = disk[blockno[b]]

\* Requests are for distinct buffers, of processes that wait in iderw until
\* they are served; what is dirty and not requested has been pinned by log_write.
Queued == {idequeue[i] : i \in 1 .. Len(idequeue)}
Queue ==
  /\ \A i, j \in 1 .. Len(idequeue) : idequeue[i] = idequeue[j] => i = j
  /\ \A b \in Queued : owner[b] # Nobody /\ pc[owner[b]] = "io" /\ (b \in valid => b \in dirty)
Served == \A p \in Procs : pc[p] = "io" => buf[p] \in Queued \/ buf[p] \in valid \ dirty

\* The disk works for the head of the queue.
Requests == [state : {"busy", "ok", "error"}, block : Blocks, write : BOOLEAN, data : Values]
Device ==
  /\ idequeue = <<>> => device = Idle
  /\ idequeue # <<>> =>
       /\ device \in Requests
       /\ device.block = blockno[idequeue[1]]
       /\ device.write <=> idequeue[1] \in dirty
       /\ device.data = data[idequeue[1]]
       /\ device.state = "ok" /\ device.write => disk[device.block] = device.data

IInv == Types /\ Ordered /\ Holds /\ Counted /\ Loaded /\ Queue /\ Served
          /\ Device /\ OneBufferPerBlock /\ SleepersAwaited

\* Between bget and the end of brelse a process has a buffer.
LEMMA HasBuffer ==
  ASSUME IInv, NEW p \in Procs, pc[p] = "lock" \/ pc[p] = "unlocked"
  PROVE  buf[p] \in Bufs /\ buf[p] # NoBuf
<1>1. pc[p] \notin {"idle", "panic"}
  OBVIOUS
<1>2. buf[p] # NoBuf
  BY <1>1 DEF IInv, Holds
<1> QED
  BY <1>2 DEF IInv, Types

\* A process that has a sleeplock has the buffer it belongs to.
LEMMA HolderHas ==
  ASSUME IInv, NEW p \in Procs, pc[p] \in Holding
  PROVE  buf[p] \in Bufs /\ owner[buf[p]] = p
<1>1. pc[p] \notin {"idle", "panic"}
  BY DEF Holding
<1>2. buf[p] # NoBuf
  BY <1>1 DEF IInv, Holds
<1>3. buf[p] \in Bufs
  BY <1>2 DEF IInv, Types
<1> QED
  BY <1>3 DEF IInv, Holds

-----------------------------------------------------------------------------
(* Conjuncts whose variables a step leaves alone                           *)

LEMMA OrderedKept ==
  ASSUME Ordered, lru' = lru
  PROVE  Ordered'
  BY DEF Ordered

LEMMA HoldsKept ==
  ASSUME Holds, UNCHANGED <<pc, buf, owner>>
  PROVE  Holds'
  BY DEF Holds

LEMMA CountedKept ==
  ASSUME Counted, UNCHANGED <<refcnt, buf>>
  PROVE  Counted'
  BY DEF Counted, Users

LEMMA LoadedKept ==
  ASSUME Loaded, UNCHANGED <<buf, blockno, valid, dirty, failed, data, disk>>,
         \A p \in Procs : pc'[p] = "using" => pc[p] = "using" \/ buf[p] \in valid
  PROVE  Loaded'
  BY DEF Loaded

LEMMA QueueKept ==
  ASSUME Queue, idequeue' = idequeue,
         \A b \in Queued : /\ owner'[b] = owner[b] /\ pc'[owner[b]] = pc[owner[b]]
                           /\ (b \in valid' => b \in valid) /\ (b \in dirty => b \in dirty')
  PROVE  Queue' /\ Queued' = Queued
<1>1. Queued' = Queued
  BY DEF Queued
<1> QED
  BY <1>1 DEF Queue

LEMMA ServedKept ==
  ASSUME Served, Queued' = Queued,
         \A p \in Procs : pc'[p] = "io" =>
           pc[p] = "io" /\ buf'[p] = buf[p] /\ (buf[p] \in valid \ dirty => buf[p] \in valid' \ dirty')
  PROVE  Served'
  BY DEF Served

LEMMA HeadQueued ==
  ASSUME Types, idequeue # <<>>
  PROVE  /\ idequeue[1] \in Queued /\ idequeue[1] \in Bufs
         /\ Head(idequeue) = idequeue[1] /\ 1 \in 1 .. Len(idequeue)
<1>1. idequeue \in Seq(Bufs) /\ Len(idequeue) \in Nat /\ Len(idequeue) # 0
  BY DEF Types
<1>2. 1 \in 1 .. Len(idequeue) /\ idequeue[1] \in Bufs /\ Head(idequeue) = idequeue[1]
  BY <1>1
<1> QED
  BY <1>2 DEF Queued

LEMMA DeviceKept ==
  ASSUME Types, Device, UNCHANGED <<idequeue, device, disk>>,
         \A b \in Queued : blockno'[b] = blockno[b] /\ data'[b] = data[b] /\ (b \in dirty' <=> b \in dirty)
  PROVE  Device'
<1>1. CASE idequeue = <<>>
  BY <1>1 DEF Device, Idle
<1>2. CASE idequeue # <<>>
  BY <1>2, HeadQueued DEF Device, Requests
<1> QED
  BY <1>1, <1>2

LEMMA OneBufferKept ==
  ASSUME OneBufferPerBlock, blockno' = blockno
  PROVE  OneBufferPerBlock'
  BY DEF OneBufferPerBlock

-----------------------------------------------------------------------------
(* Users of a buffer                                                       *)

\* What counting buffers and processes needs of finite sets.
Counts ==
  /\ \A S \in SUBSET Bufs :
       /\ Cardinality(S) \in Nat
       /\ \A T \in SUBSET S : Cardinality(T) <= Cardinality(S)
  /\ \A S \in SUBSET Procs :
       /\ Cardinality(S) \in Nat
       /\ Cardinality(S) = 0 => S = {}
       /\ \A p \in S : Cardinality(S \ {p}) = Cardinality(S) - 1
       /\ \A p \in Procs \ S : Cardinality(S \cup {p}) = Cardinality(S) + 1

\* The reference count follows when one process takes or drops a buffer.
LEMMA TakeCounted ==
  ASSUME Counts, IInv, NEW p \in Procs, NEW b \in Bufs, buf[p] = NoBuf,
         buf' = [buf EXCEPT ![p] = b],
         refcnt' = [refcnt EXCEPT ![b] = refcnt[b] + 1]
  PROVE  Counted'
<1>1. /\ \A q \in Procs : buf'[q] = IF q = p THEN b ELSE buf[q]
      /\ \A c \in Bufs : refcnt'[c] = IF c = b THEN refcnt[b] + 1 ELSE refcnt[c]
  BY DEF IInv, Types
<1>2. p \notin Users(b) /\ Users(b)' = Users(b) \cup {p}
  BY <1>1, BufCacheAssumption DEF Users
<1>3. \A c \in Bufs : c # b => Users(c)' = Users(c)
  BY <1>1, BufCacheAssumption DEF Users
<1>4. Cardinality(Users(b)') = Cardinality(Users(b)) + 1
  <2>1. Users(b) \in SUBSET Procs
    BY DEF Users
  <2> QED
    BY <1>2, <2>1 DEF Counts
<1> QED
  BY <1>1, <1>3, <1>4 DEF IInv, Counted

LEMMA DropCounted ==
  ASSUME Counts, IInv, NEW p \in Procs, NEW b \in Bufs, buf[p] = b,
         buf' = [buf EXCEPT ![p] = NoBuf],
         refcnt' = [refcnt EXCEPT ![b] = refcnt[b] - 1]
  PROVE  Counted' /\ refcnt' \in [Bufs -> Nat]
<1>1. /\ \A q \in Procs : buf'[q] = IF q = p THEN NoBuf ELSE buf[q]
      /\ \A c \in Bufs : refcnt'[c] = IF c = b THEN refcnt[b] - 1 ELSE refcnt[c]
      /\ DOMAIN refcnt' = Bufs /\ refcnt' = [c \in Bufs |-> refcnt'[c]]
  BY DEF IInv, Types
<1>2. p \in Users(b) /\ Users(b)' = Users(b) \ {p}
  BY <1>1, BufCacheAssumption DEF Users
<1>3. \A c \in Bufs : c # b => Users(c)' = Users(c)
  BY <1>1, BufCacheAssumption DEF Users
<1>4. Cardinality(Users(b)') = Cardinality(Users(b)) - 1 /\ Cardinality(Users(b)') \in Nat
  <2>1. Users(b) \in SUBSET Procs /\ Users(b)' \in SUBSET Procs
    BY <1>2 DEF Users
  <2> QED
    BY <1>2, <2>1 DEF Counts
<1>5. Counted'
  BY <1>1, <1>3, <1>4 DEF IInv, Counted
<1>6. \A c \in Bufs : refcnt'[c] \in Nat
  BY <1>1, <1>4 DEF IInv, Types, Counted
<1> QED
  BY <1>1, <1>5, <1>6

\* A buffer without users is not locked and not queued.
LEMMA Unused ==
  ASSUME Counts, IInv, NEW b \in Bufs, refcnt[b] = 0
  PROVE  /\ \A p \in Procs : buf[p] # b
         /\ owner[b] = Nobody /\ b \notin Queued
<1>1. Users(b) = {}
  <2>1. Users(b) \in SUBSET Procs /\ Cardinality(Users(b)) = 0
    BY DEF Users, IInv, Counted
  <2> QED
    BY <2>1 DEF Counts
<1>2. \A p \in Procs : buf[p] # b
  BY <1>1 DEF Users
<1>3. owner[b] = Nobody
  BY <1>2 DEF IInv, Holds, Types
<1> QED
  BY <1>2, <1>3 DEF IInv, Queue

-----------------------------------------------------------------------------
(* bget, acquiresleep                                                      *)

LEMMA BgetHitInv ==
  ASSUME Counts, IInv, NEW p \in Procs, NEW k \in Blocks, BgetHit(p, k)
  PROVE  IInv'
<1>1. PICK b \in Bufs : /\ blockno[b] = k
                        /\ refcnt' = [refcnt EXCEPT ![b] = refcnt[b] + 1]
                        /\ buf' = [buf EXCEPT ![p] = b]
  BY DEF BgetHit, Cached
<1>2. /\ pc[p] = "idle" /\ buf[p] = NoBuf /\ pc' = [pc EXCEPT ![p] = "lock"]
      /\ UNCHANGED <<blockno, valid, dirty, owner, data, lru, asleep, idequeue, device, disk, failed>>
  BY DEF BgetHit, Goto, driver, IInv, Holds
<1>3. /\ \A q \in Procs : pc'[q] = IF q = p THEN "lock" ELSE pc[q]
      /\ \A q \in Procs : buf'[q] = IF q = p THEN b ELSE buf[q]
  BY <1>1, <1>2 DEF IInv, Types
<1>4. Types'
  BY <1>1, <1>2 DEF IInv, Types, Labels
<1>5. Counted'
  BY <1>1, <1>2, TakeCounted
<1>6. Holds'
  BY <1>1, <1>2, <1>3, BufCacheAssumption DEF IInv, Holds, Holding, Types
<1>7. Loaded'
  BY <1>1, <1>2, <1>3 DEF IInv, Loaded
<1>8. Queue' /\ Queued' = Queued
  <2>1. \A c \in Queued : owner[c] # p /\ owner[c] \in Procs
    BY <1>2 DEF IInv, Queue, Types, Queued
  <2> QED
    BY <1>2, <1>3, <2>1, QueueKept DEF IInv
<1>9. Ordered' /\ Device' /\ OneBufferPerBlock'
  BY <1>2, OrderedKept, DeviceKept, OneBufferKept DEF IInv
<1>11. Served'
  BY <1>2, <1>3, <1>8, ServedKept DEF IInv
<1>10. SleepersAwaited'
  <2>1. p \notin asleep
    BY <1>2 DEF IInv, SleepersAwaited
  <2> QED
    BY <1>2, <1>3, <2>1 DEF IInv, SleepersAwaited, Types
<1> QED
  BY <1>4, <1>5, <1>6, <1>7, <1>8, <1>9, <1>10, <1>11 DEF IInv

LEMMA BgetMissInv ==
  ASSUME Counts, IInv, NEW p \in Procs, NEW k \in Blocks, BgetMiss(p, k),
         Victim \in Bufs, Recyclable(Victim)
  PROVE  IInv'
<1> DEFINE v == Victim
<1>1. pc[p] = "idle" /\ \A c \in Bufs : blockno[c] # k
  BY DEF BgetMiss, Cached
<1>2. v \in Bufs /\ refcnt[v] = 0 /\ v \notin dirty /\ \E b \in Bufs : Recyclable(b)
  BY DEF Recyclable
<1>3. /\ blockno' = [blockno EXCEPT ![v] = k]
      /\ valid' = valid \ {v}
      /\ refcnt' = [refcnt EXCEPT ![v] = 1]
      /\ buf' = [buf EXCEPT ![p] = v]
      /\ pc' = [pc EXCEPT ![p] = "lock"]
      /\ UNCHANGED <<dirty, owner, data, lru, asleep, idequeue, device, disk, failed>>
  BY <1>2 DEF BgetMiss, Goto, driver
<1> HIDE DEF v
<1>5. (\A q \in Procs : buf[q] # v) /\ owner[v] = Nobody /\ v \notin Queued /\ buf[p] = NoBuf
  BY <1>1, <1>2, Unused DEF IInv, Holds
<1>6. /\ \A q \in Procs : pc'[q] = IF q = p THEN "lock" ELSE pc[q]
      /\ \A q \in Procs : buf'[q] = IF q = p THEN v ELSE buf[q]
      /\ \A b \in Bufs : blockno'[b] = IF b = v THEN k ELSE blockno[b]
  BY <1>3 DEF IInv, Types
<1>7. Types'
  BY <1>2, <1>3 DEF IInv, Types, Labels
<1>8. Counted'
  <2>1. refcnt' = [refcnt EXCEPT ![v] = refcnt[v] + 1]
    BY <1>2, <1>3
  <2> QED
    BY <1>2, <1>3, <1>5, <2>1, TakeCounted
<1>9. Holds'
  BY <1>1, <1>2, <1>3, <1>5, <1>6, BufCacheAssumption DEF IInv, Holds, Holding, Types
<1>10. Loaded'
  <2>1. \A q \in Procs : buf'[q] # NoBuf => blockno'[buf'[q]] \in Blocks
    <3> TAKE q \in Procs
    <3>1. CASE q = p
      BY <1>2, <1>6, <3>1
    <3>2. CASE q # p
      <4>1. buf'[q] = buf[q] /\ buf[q] # v /\ (buf[q] # NoBuf => buf[q] \in Bufs)
        BY <1>5, <1>6, <3>2 DEF IInv, Types
      <4> QED
        BY <1>6, <4>1 DEF IInv, Loaded
    <3> QED
      BY <3>1, <3>2
  <2>2. \A q \in Procs : pc'[q] = "using" => buf'[q] \in valid'
    BY <1>3, <1>5, <1>6 DEF IInv, Loaded
  <2>3. \A b \in valid' : blockno'[b] = blockno[b] /\ b \in valid
    BY <1>3, <1>6 DEF IInv, Types
  <2>4. dirty' \subseteq valid'
    BY <1>2, <1>3 DEF IInv, Loaded
  <2> QED
    BY <1>3, <2>1, <2>2, <2>3, <2>4 DEF IInv, Loaded
<1>11. \A c \in Queued : c \in Bufs /\ c # v /\ owner[c] # p /\ owner[c] \in Procs
  BY <1>1, <1>5 DEF IInv, Queue, Types, Queued
<1>12. Queue' /\ Queued' = Queued
  BY <1>3, <1>6, <1>11, QueueKept DEF IInv
<1>13. Ordered' /\ Device'
  BY <1>3, <1>6, <1>11, OrderedKept, DeviceKept DEF IInv
<1>14. OneBufferPerBlock'
  BY <1>1, <1>2, <1>6 DEF IInv, OneBufferPerBlock
<1>16. Served'
  BY <1>3, <1>5, <1>6, <1>12, ServedKept DEF IInv
<1>15. SleepersAwaited'
  <2>1. p \notin asleep
    BY <1>1 DEF IInv, SleepersAwaited
  <2> QED
    BY <1>3, <1>6, <2>1 DEF IInv, SleepersAwaited, Types
<1> QED
  BY <1>7, <1>8, <1>9, <1>10, <1>12, <1>13, <1>14, <1>15, <1>16 DEF IInv

LEMMA AcquireSleepInv ==
  ASSUME IInv, NEW p \in Procs, AcquireSleep(p)
  PROVE  IInv'
<1> DEFINE b == buf[p]
<1>1. /\ pc[p] = "lock" /\ p \notin asleep
      /\ UNCHANGED <<blockno, valid, dirty, refcnt, data, lru, idequeue, device, disk, failed, buf>>
  BY DEF AcquireSleep, driver
<1>2. b \in Bufs /\ b # NoBuf
  BY <1>1, HasBuffer
<1>3. Counted' /\ Ordered' /\ Device' /\ OneBufferPerBlock'
  BY <1>1, CountedKept, OrderedKept, DeviceKept, OneBufferKept DEF IInv
<1>4. CASE owner[b] = Nobody
  <2>1. /\ owner' = [owner EXCEPT ![b] = p] /\ pc' = [pc EXCEPT ![p] = "locked"] /\ asleep' = asleep
    BY <1>4 DEF AcquireSleep, Goto
  <2>2. /\ \A q \in Procs : pc'[q] = IF q = p THEN "locked" ELSE pc[q]
        /\ \A c \in Bufs : owner'[c] = IF c = b THEN p ELSE owner[c]
    BY <1>2, <2>1 DEF IInv, Types
  <2>3. Types'
    BY <1>1, <2>1 DEF IInv, Types, Labels, Holding
  <2>4. p # Nobody /\ \A q \in Procs : pc[q] \in Holding => buf[q] # b
    BY <1>4, BufCacheAssumption DEF IInv, Holds
  <2>5. Holds'
    <3>1. \A q \in Procs : pc'[q] \in {"idle", "panic"} <=> buf'[q] = NoBuf
      BY <1>1, <2>2 DEF IInv, Holds
    <3>2. \A q \in Procs : pc[q] \in Holding => buf[q] \in Bufs
      BY HolderHas
    <3>3. \A q \in Procs : pc'[q] \in Holding => owner'[buf'[q]] = q
      BY <1>1, <1>2, <2>2, <2>4, <3>2 DEF IInv, Holds
    <3>4. \A c \in Bufs : owner'[c] # Nobody => pc'[owner'[c]] \in Holding /\ buf'[owner'[c]] = c
      <4> TAKE c \in Bufs
      <4>1. CASE c = b
        BY <1>1, <2>2, <4>1 DEF Holding
      <4>2. CASE c # b
        <5>1. owner[c] = Nobody \/ (owner[c] \in Procs /\ owner[c] # p)
          BY <4>2 DEF IInv, Holds, Types
        <5> QED
          BY <1>1, <2>2, <4>2, <5>1 DEF IInv, Holds
      <4> QED
        BY <4>1, <4>2
    <3> QED
      BY <3>1, <3>3, <3>4 DEF Holds
  <2>6. Loaded'
    BY <1>1, <2>2, LoadedKept DEF IInv
  <2>7. Queue' /\ Served'
    <3>1. \A c \in Queued : c \in Bufs /\ c # b /\ owner[c] # p /\ owner[c] \in Procs
      BY <1>1, <1>4 DEF IInv, Queue, Types, Queued
    <3> QED
      BY <1>1, <2>2, <3>1, QueueKept, ServedKept DEF IInv
  <2>8. SleepersAwaited'
    <3> HIDE DEF b
    <3>1. \A q \in asleep : q \in Procs /\ q # p /\ (pc[q] = "lock" => buf[q] \in Bufs)
      <4>1. \A q \in asleep : q \in Procs /\ q # p
        BY <1>1 DEF IInv, Types
      <4> QED
        BY <4>1, HasBuffer
    <3> QED
      BY <1>1, <1>4, <2>1, <2>2, <3>1 DEF IInv, SleepersAwaited
  <2> QED
    BY <1>3, <2>3, <2>5, <2>6, <2>7, <2>8 DEF IInv
<1>5. CASE owner[b] # Nobody
  <2>1. asleep' = asleep \cup {p} /\ UNCHANGED <<owner, pc>>
    BY <1>5 DEF AcquireSleep
  <2>2. Types'
    BY <1>1, <2>1 DEF IInv, Types
  <2>3. Holds' /\ Loaded' /\ Queue' /\ Served'
    BY <1>1, <2>1, HoldsKept, LoadedKept, QueueKept, ServedKept DEF IInv
  <2>4. SleepersAwaited'
    <3>1. owner[b] # p
      BY <1>1, <1>2, BufCacheAssumption DEF IInv, Holds, Holding
    <3> QED
      BY <1>1, <1>5, <2>1, <3>1 DEF IInv, SleepersAwaited
  <2> QED
    BY <1>3, <2>2, <2>3, <2>4 DEF IInv
<1> QED
  BY <1>4, <1>5

-----------------------------------------------------------------------------
(* iderw and ideintr                                                       *)

LEMMA QueueAppended ==
  ASSUME Types, NEW b \in Bufs, idequeue' = Append(idequeue, b)
  PROVE  /\ idequeue' \in Seq(Bufs) /\ Len(idequeue') = Len(idequeue) + 1 /\ Len(idequeue) \in Nat
         /\ \A i \in 1 .. Len(idequeue) : i \in 1 .. Len(idequeue') /\ idequeue'[i] = idequeue[i]
         /\ idequeue'[Len(idequeue')] = b /\ idequeue' # <<>>
         /\ Queued' = Queued \cup {b}
<1>1. idequeue \in Seq(Bufs)
  BY DEF Types
<1>2. /\ idequeue' \in Seq(Bufs) /\ Len(idequeue') = Len(idequeue) + 1 /\ Len(idequeue) \in Nat
      /\ \A i \in 1 .. Len(idequeue) : i \in 1 .. Len(idequeue') /\ idequeue'[i] = idequeue[i]
      /\ idequeue'[Len(idequeue')] = b
  BY <1>1
<1>3. \A i \in 1 .. Len(idequeue') : i \in 1 .. Len(idequeue) \/ i = Len(idequeue')
  BY <1>2
<1>4. Queued' = Queued \cup {b}
  BY <1>2, <1>3 DEF Queued
<1>5. idequeue' # <<>>
  BY <1>2
<1> QED
  BY <1>2, <1>4, <1>5

\* A holder hands its buffer to the driver.
LEMMA SubmitInv ==
  ASSUME Counts, IInv, NEW p \in Procs, pc[p] \in {"locked", "using"}, Submit(p),
         UNCHANGED <<blockno, valid, refcnt, owner, lru, buf>>,
         data' \in [Bufs -> Values], dirty' \in SUBSET valid,
         \A c \in Bufs : c # buf[p] => data'[c] = data[c] /\ (c \in dirty' <=> c \in dirty),
         buf[p] \in valid => buf[p] \in dirty'
  PROVE  IInv'
<1> DEFINE b == buf[p]
<1>1. /\ idequeue' = Append(idequeue, b)
      /\ device' = IF idequeue = <<>> THEN Idestart(b) ELSE device
      /\ asleep' = asleep \cup {p} /\ pc' = [pc EXCEPT ![p] = "io"]
      /\ UNCHANGED <<disk, failed>>
  BY DEF Submit, Goto
<1>2. b \in Bufs /\ owner[b] = p /\ blockno[b] \in Blocks /\ p # Nobody
  <2>1. pc[p] \in Holding
    BY DEF Holding
  <2>2. b \in Bufs /\ owner[b] = p
    BY <2>1, HolderHas
  <2>3. b # NoBuf /\ p # Nobody
    BY <2>2, BufCacheAssumption
  <2> QED
    BY <2>2, <2>3 DEF IInv, Loaded
<1>3. b \notin Queued
  BY <1>2 DEF IInv, Queue
<1>4. \A q \in Procs : pc'[q] = IF q = p THEN "io" ELSE pc[q]
  BY <1>1 DEF IInv, Types
<1>5. /\ idequeue' \in Seq(Bufs) /\ Len(idequeue') = Len(idequeue) + 1 /\ Len(idequeue) \in Nat
      /\ \A i \in 1 .. Len(idequeue) : i \in 1 .. Len(idequeue') /\ idequeue'[i] = idequeue[i]
      /\ idequeue'[Len(idequeue')] = b /\ idequeue' # <<>>
      /\ Queued' = Queued \cup {b}
  BY <1>1, <1>2, QueueAppended DEF IInv
<1>6. Types'
  BY <1>1, <1>5 DEF IInv, Types, Labels, Holding
<1>7. Ordered' /\ Counted' /\ OneBufferPerBlock'
  BY OrderedKept, CountedKept, OneBufferKept DEF IInv
<1>8. Holds'
  <2>1. \A q \in Procs : pc'[q] \in {"idle", "panic"} <=> pc[q] \in {"idle", "panic"}
    BY <1>4
  <2>2. \A q \in Procs : pc'[q] \in Holding <=> pc[q] \in Holding
    BY <1>4 DEF Holding
  <2>3. \A c \in Bufs : owner[c] # Nobody => owner[c] \in Procs
    BY DEF IInv, Types
  <2> QED
    BY <2>1, <2>2, <2>3 DEF IInv, Holds
<1>9. Loaded'
  <2>1. \A q \in Procs : pc'[q] = "using" => pc[q] = "using"
    BY <1>4
  <2>2. \A c \in valid : c \in Bufs
    BY DEF IInv, Types
  <2> QED
    BY <1>1, <2>1, <2>2 DEF IInv, Loaded
<1>10. Queue'
  <2>1. \A i, j \in 1 .. Len(idequeue') : idequeue'[i] = idequeue'[j] => i = j
    <3>1. \A i \in 1 .. Len(idequeue') : i \in 1 .. Len(idequeue) \/ i = Len(idequeue')
      BY <1>5
    <3>2. \A i \in 1 .. Len(idequeue) : idequeue[i] # b
      BY <1>3 DEF Queued
    <3> HIDE DEF b
    <3> QED
      BY <1>5, <3>1, <3>2 DEF IInv, Queue
  <2>2. \A c \in Queued : c \in Bufs /\ c # b /\ owner[c] # p /\ owner[c] \in Procs
    BY <1>3 DEF IInv, Queue, Types, Queued, Holds
  <2>3. \A c \in Queued : owner[c] # Nobody /\ pc'[owner[c]] = "io" /\ (c \in valid => c \in dirty')
    BY <1>4, <2>2 DEF IInv, Queue
  <2>4. owner[b] # Nobody /\ pc'[owner[b]] = "io" /\ (b \in valid => b \in dirty')
    BY <1>2, <1>4
  <2> QED
    BY <1>5, <2>1, <2>3, <2>4 DEF Queue
<1>14. Served'
  <2>1. \A q \in Procs : q # p /\ pc[q] = "io" => buf[q] # b /\ buf[q] \in Bufs
    BY <1>2, BufCacheAssumption DEF IInv, Holds, Holding, Types
  <2> QED
    BY <1>4, <1>5, <2>1 DEF IInv, Served
<1>12. Device'
  <2>1. CASE idequeue = <<>>
    <3>1. device' = [state |-> "busy", block |-> blockno[b], write |-> b \in dirty', data |-> data'[b]]
      BY <1>1, <2>1 DEF Idestart
    <3>2. idequeue'[1] = b
      BY <1>5, <2>1
    <3>3. device' \in Requests
      BY <1>2, <3>1 DEF Requests
    <3>4. device'.block = blockno[b] /\ device'.data = data'[b] /\ device'.state = "busy"
      BY <3>1
    <3>5. device'.write <=> b \in dirty'
      BY <3>1
    <3> QED
      BY <1>5, <3>2, <3>3, <3>4, <3>5 DEF Device
  <2>2. CASE idequeue # <<>>
    <3>1. device' = device /\ idequeue'[1] = idequeue[1] /\ idequeue[1] \in Bufs /\ idequeue[1] # b
      BY <1>1, <1>3, <1>5, <2>2, HeadQueued DEF IInv
    <3> QED
      BY <1>1, <1>5, <2>2, <3>1 DEF IInv, Device, Requests
  <2> QED
    BY <2>1, <2>2
<1>13. SleepersAwaited'
  <2>0. DOMAIN idequeue = 1 .. Len(idequeue) /\ DOMAIN idequeue' = 1 .. Len(idequeue')
    BY <1>5 DEF IInv, Types
  <2>1. \A i \in DOMAIN idequeue : i \in DOMAIN idequeue' /\ idequeue'[i] = idequeue[i]
    BY <1>5, <2>0
  <2>2. \E i \in DOMAIN idequeue' : idequeue'[i] = b
    BY <1>5, <2>0
  <2>3. \A q \in asleep : q \in Procs
    BY DEF IInv, Types
  <2>4. p \notin asleep
    BY DEF IInv, SleepersAwaited
  <2> QED
    BY <1>1, <1>4, <2>1, <2>2, <2>3, <2>4 DEF IInv, SleepersAwaited
<1> QED
  BY <1>6, <1>7, <1>8, <1>9, <1>10, <1>12, <1>13, <1>14 DEF IInv

LEMMA BreadInv ==
  ASSUME Counts, IInv, NEW p \in Procs, Bread(p)
  PROVE  IInv'
<1>1. CASE buf[p] \in valid
  <2>1. /\ pc[p] = "locked" /\ pc' = [pc EXCEPT ![p] = "using"]
        /\ UNCHANGED <<blockno, valid, dirty, refcnt, owner, data, lru, idequeue, device, disk,
                       failed, buf, asleep>>
    BY <1>1 DEF Bread, Goto, driver
  <2>2. \A q \in Procs : pc'[q] = IF q = p THEN "using" ELSE pc[q]
    BY <2>1 DEF IInv, Types
  <2>3. Types'
    BY <2>1 DEF IInv, Types, Labels, Holding
  <2>4. Ordered' /\ Counted' /\ OneBufferPerBlock'
    BY <2>1, OrderedKept, CountedKept, OneBufferKept DEF IInv
  <2>5. Loaded'
    BY <1>1, <2>1, <2>2, LoadedKept DEF IInv
  <2>6. Holds'
    <3>1. \A q \in Procs : pc'[q] \in {"idle", "panic"} <=> pc[q] \in {"idle", "panic"}
      BY <2>1, <2>2
    <3>2. \A q \in Procs : pc'[q] \in Holding <=> pc[q] \in Holding
      BY <2>1, <2>2 DEF Holding
    <3>3. \A c \in Bufs : owner[c] # Nobody => owner[c] \in Procs
      BY DEF IInv, Types
    <3> QED
      BY <2>1, <3>1, <3>2, <3>3 DEF IInv, Holds
  <2>7. Queue' /\ Served'
    <3>1. \A c \in Queued : owner[c] \in Procs /\ owner[c] # p
      BY <2>1 DEF IInv, Queue, Types, Queued
    <3> QED
      BY <2>1, <2>2, <3>1, QueueKept, ServedKept DEF IInv
  <2>8. Device'
    BY <2>1, DeviceKept DEF IInv
  <2>9. SleepersAwaited'
    <3>1. p \notin asleep /\ asleep \in SUBSET Procs
      BY <2>1 DEF IInv, SleepersAwaited, Types
    <3> QED
      BY <2>1, <2>2, <3>1 DEF IInv, SleepersAwaited
  <2> QED
    BY <2>3, <2>4, <2>5, <2>6, <2>7, <2>8, <2>9 DEF IInv
<1>2. CASE buf[p] \notin valid
  <2>1. /\ pc[p] = "locked" /\ Submit(p)
        /\ UNCHANGED <<blockno, valid, dirty, refcnt, owner, data, lru, buf>>
    BY <1>2 DEF Bread
  <2>2. data \in [Bufs -> Values] /\ dirty \in SUBSET valid
    BY DEF IInv, Types, Loaded
  <2> QED
    BY <1>2, <2>1, <2>2, SubmitInv
<1> QED
  BY <1>1, <1>2

LEMMA BwriteInv ==
  ASSUME Counts, IInv, NEW p \in Procs, NEW v \in Values, Bwrite(p, v)
  PROVE  IInv'
<1>1. /\ pc[p] = "using" /\ Submit(p)
      /\ data' = [data EXCEPT ![buf[p]] = v] /\ dirty' = dirty \cup {buf[p]}
      /\ UNCHANGED <<blockno, valid, refcnt, owner, lru, buf>>
  BY DEF Bwrite
<1>2. buf[p] \in valid /\ buf[p] \in Bufs
  BY <1>1 DEF IInv, Loaded, Types
<1>3. data' \in [Bufs -> Values] /\ dirty' \in SUBSET valid
  BY <1>1, <1>2 DEF IInv, Types, Loaded
<1>4. \A c \in Bufs : c # buf[p] => data'[c] = data[c] /\ (c \in dirty' <=> c \in dirty)
  BY <1>1 DEF IInv, Types
<1> QED
  BY <1>1, <1>2, <1>3, <1>4, SubmitInv

LEMMA IdeWaitInv ==
  ASSUME IInv, NEW p \in Procs, IdeWait(p)
  PROVE  IInv'
<1>1. /\ pc[p] = "io" /\ p \notin asleep
      /\ IF buf[p] \in valid \ dirty
         THEN pc' = [pc EXCEPT ![p] = "using"] /\ UNCHANGED asleep
         ELSE asleep' = asleep \cup {p} /\ UNCHANGED pc
      /\ UNCHANGED <<blockno, valid, dirty, refcnt, owner, data, lru, idequeue, device, disk,
                     failed, buf>>
  BY DEF IdeWait, Goto, driver
<1>2. Ordered' /\ Counted' /\ OneBufferPerBlock' /\ Device'
  BY <1>1, OrderedKept, CountedKept, OneBufferKept, DeviceKept DEF IInv
<1>3. asleep \in SUBSET Procs
  BY DEF IInv, Types
<1>4. CASE buf[p] \in valid \ dirty
  <2>1. \A q \in Procs : pc'[q] = IF q = p THEN "using" ELSE pc[q]
    BY <1>1, <1>4 DEF IInv, Types
  <2>2. Types'
    BY <1>1, <1>4 DEF IInv, Types, Labels, Holding
  <2>3. Loaded'
    BY <1>1, <1>4, <2>1, LoadedKept DEF IInv
  <2>4. Holds'
    <3>1. \A q \in Procs : pc'[q] \in {"idle", "panic"} <=> pc[q] \in {"idle", "panic"}
      BY <1>1, <2>1
    <3>2. \A q \in Procs : pc'[q] \in Holding <=> pc[q] \in Holding
      BY <1>1, <2>1 DEF Holding
    <3>3. \A c \in Bufs : owner[c] # Nobody => owner[c] \in Procs
      BY DEF IInv, Types
    <3> QED
      BY <1>1, <3>1, <3>2, <3>3 DEF IInv, Holds
  <2>5. Queue' /\ Served'
    <3>1. \A c \in Queued : c \in Bufs /\ owner[c] \in Procs /\ c # buf[p]
      BY <1>4 DEF IInv, Queue, Types, Queued
    <3>2. \A c \in Queued : owner[c] # p
      BY <3>1 DEF IInv, Holds, Queue
    <3> QED
      BY <1>1, <2>1, <3>1, <3>2, QueueKept, ServedKept DEF IInv
  <2>6. SleepersAwaited'
    BY <1>1, <1>3, <1>4, <2>1 DEF IInv, SleepersAwaited
  <2> QED
    BY <1>2, <2>2, <2>3, <2>4, <2>5, <2>6 DEF IInv
<1>5. CASE buf[p] \notin valid \ dirty
  <2>1. asleep' = asleep \cup {p} /\ UNCHANGED pc
    BY <1>1, <1>5
  <2>2. Types'
    BY <1>1, <2>1 DEF IInv, Types
  <2>3. Loaded' /\ Holds' /\ Queue' /\ Served'
    BY <1>1, <2>1, LoadedKept, HoldsKept, QueueKept, ServedKept DEF IInv
  <2>4. SleepersAwaited'
    <3>1. \E i \in DOMAIN idequeue : idequeue[i] = buf[p]
      BY <1>1, <1>5 DEF IInv, Served, Queued, Types
    <3> QED
      BY <1>1, <2>1, <3>1 DEF IInv, SleepersAwaited
  <2> QED
    BY <1>2, <2>2, <2>3, <2>4 DEF IInv
<1> QED
  BY <1>4, <1>5

LEMMA DiskDoneInv ==
  ASSUME IInv, NEW outcome \in {"ok", "error"}, DiskDone(outcome)
  PROVE  IInv'
<1> DEFINE h == idequeue[1]
<1>1. /\ device.state = "busy"
      /\ device' = [device EXCEPT !.state = outcome]
      /\ disk' = IF device.write /\ outcome = "ok"
                 THEN [disk EXCEPT ![device.block] = device.data] ELSE disk
      /\ UNCHANGED <<blockno, valid, dirty, refcnt, owner, data, lru, idequeue, failed, buf, asleep, pc>>
  BY DEF DiskDone
<1>2. idequeue # <<>>
  BY <1>1 DEF IInv, Device, Idle
<1>3. h \in Bufs /\ h \in Queued
  BY <1>2, HeadQueued DEF IInv
<1>4. /\ device \in Requests /\ device.block = blockno[h] /\ (device.write <=> h \in dirty)
      /\ device.data = data[h]
  BY <1>2 DEF IInv, Device
<1>5. device.block \in Blocks /\ device.data \in Values
  BY <1>4 DEF Requests
<1>6. Types'
  BY <1>1, <1>5 DEF IInv, Types
<1>7. Ordered' /\ Holds' /\ Counted' /\ OneBufferPerBlock'
  BY <1>1, OrderedKept, HoldsKept, CountedKept, OneBufferKept DEF IInv
<1>8. Queue' /\ Served'
  BY <1>1, QueueKept, ServedKept DEF IInv
<1>9. Loaded'
  <2>1. \A b \in valid : b \in Bufs /\ blockno[b] \in Blocks
    BY DEF IInv, Types, Loaded
  <2>2. \A b \in valid : b \notin dirty /\ device.write => blockno[b] # device.block
    BY <1>3, <1>4, <1>5, <2>1, BufCacheAssumption DEF IInv, OneBufferPerBlock
  <2>3. \A b \in valid : b \notin dirty => disk'[blockno[b]] = disk[blockno[b]]
    BY <1>1, <2>1, <2>2 DEF IInv, Types
  <2> HIDE DEF h
  <2> QED
    BY <1>1, <2>3 DEF IInv, Loaded
<1>10. Device'
  <2>1. device' \in Requests /\ device'.block = device.block /\ device'.data = device.data
        /\ device'.write = device.write /\ device'.state = outcome
    BY <1>1, <1>4 DEF Requests
  <2>2. outcome = "ok" /\ device.write => disk'[device.block] = device.data
    BY <1>1, <1>5 DEF IInv, Types
  <2> QED
    BY <1>1, <1>2, <1>4, <2>1, <2>2 DEF Device
<1>11. SleepersAwaited'
  BY <1>1 DEF IInv, SleepersAwaited
<1> QED
  BY <1>6, <1>7, <1>8, <1>9, <1>10, <1>11 DEF IInv

LEMMA QueuePopped ==
  ASSUME Types, Queue, idequeue # <<>>, idequeue' = Tail(idequeue)
  PROVE  /\ idequeue' \in Seq(Bufs) /\ Len(idequeue') = Len(idequeue) - 1 /\ Len(idequeue) \in Nat
         /\ \A i \in 1 .. Len(idequeue') : i + 1 \in 1 .. Len(idequeue) /\ idequeue'[i] = idequeue[i + 1]
         /\ Head(idequeue) = idequeue[1]
         /\ Queued' = Queued \ {idequeue[1]}
<1>1. idequeue \in Seq(Bufs)
  BY DEF Types
<1>2. /\ idequeue' \in Seq(Bufs) /\ Len(idequeue') = Len(idequeue) - 1 /\ Len(idequeue) \in Nat
      /\ Head(idequeue) = idequeue[1] /\ Len(idequeue) >= 1
  BY <1>1
<1>3. \A i \in 1 .. Len(idequeue') : i + 1 \in 1 .. Len(idequeue) /\ idequeue'[i] = idequeue[i + 1]
  BY <1>1, <1>2
<1>4. Queued' = Queued \ {idequeue[1]}
  <2>1. \A i \in 1 .. Len(idequeue') : idequeue[i + 1] # idequeue[1] /\ i + 1 \in 1 .. Len(idequeue)
    BY <1>2, <1>3 DEF Queue
  <2>2. \A i \in 1 .. Len(idequeue) : i = 1 \/ (i - 1 \in 1 .. Len(idequeue') /\ (i - 1) + 1 = i)
    BY <1>2
  <2>3. \A b \in Queued' : b \in Queued /\ b # idequeue[1]
    BY <1>3, <2>1 DEF Queued
  <2>4. \A b \in Queued : b = idequeue[1] \/ b \in Queued'
    <3> TAKE b \in Queued
    <3>1. PICK i \in 1 .. Len(idequeue) : b = idequeue[i]
      BY DEF Queued
    <3>2. CASE i # 1
      <4>1. i - 1 \in 1 .. Len(idequeue') /\ idequeue'[i - 1] = idequeue[(i - 1) + 1] /\ (i - 1) + 1 = i
        BY <1>3, <2>2, <3>2
      <4> QED
        BY <3>1, <4>1 DEF Queued
    <3> QED
      BY <3>1, <3>2
  <2> QED
    BY <2>3, <2>4
<1> QED
  BY <1>2, <1>3, <1>4

LEMMA IdeIntrInv ==
  ASSUME IInv, IdeIntr
  PROVE  IInv'
<1> DEFINE b == idequeue[1]
<1>1. device.state \in {"ok", "error"} /\ idequeue # <<>>
  BY DEF IdeIntr, IInv, Device, Idle
<1>2. /\ idequeue' = Tail(idequeue) /\ Head(idequeue) = b
      /\ idequeue' \in Seq(Bufs) /\ Len(idequeue') = Len(idequeue) - 1 /\ Len(idequeue) \in Nat
      /\ \A i \in 1 .. Len(idequeue') : i + 1 \in 1 .. Len(idequeue) /\ idequeue'[i] = idequeue[i + 1]
      /\ Queued' = Queued \ {b}
  BY <1>1, QueuePopped DEF IdeIntr, IInv
<1>3. /\ data' = IF b \notin dirty /\ device.state = "ok"
                 THEN [data EXCEPT ![b] = disk[device.block]] ELSE data
      /\ valid' = valid \cup {b}
      /\ dirty' = dirty \ {b}
      /\ asleep' = asleep \ {p \in Procs : pc[p] = "io" /\ buf[p] = b}
      /\ failed' = IF device.state = "error" THEN failed \cup {b} ELSE failed \ {b}
      /\ device' = IF idequeue' # <<>> THEN Idestart(Head(idequeue')) ELSE Idle
      /\ UNCHANGED <<blockno, refcnt, owner, lru, disk, buf, pc>>
  BY <1>2 DEF IdeIntr
<1>4. b \in Bufs /\ b \in Queued
  BY <1>1, HeadQueued DEF IInv
<1>5. /\ device.block \in Blocks /\ device.block = blockno[b] /\ (device.write <=> b \in dirty)
      /\ device.data = data[b]
      /\ (device.state = "ok" /\ device.write => disk[device.block] = device.data)
  BY <1>1 DEF IInv, Device, Requests
<1> HIDE DEF b
<1>6. \A c \in Bufs : data'[c] = IF c = b /\ b \notin dirty /\ device.state = "ok"
                                 THEN disk[device.block] ELSE data[c]
  BY <1>3 DEF IInv, Types
<1>7. Types'
  <2>1. data' \in [Bufs -> Values]
    BY <1>3, <1>5 DEF IInv, Types
  <2>2. valid' \in SUBSET Bufs /\ dirty' \in SUBSET Bufs /\ failed' \in SUBSET Bufs /\ asleep' \in SUBSET Procs
    BY <1>3, <1>4 DEF IInv, Types
  <2> QED
    BY <1>2, <1>3, <2>1, <2>2 DEF IInv, Types
<1>8. Ordered' /\ Holds' /\ Counted' /\ OneBufferPerBlock'
  BY <1>3, OrderedKept, HoldsKept, CountedKept, OneBufferKept DEF IInv
<1>9. Loaded'
  <2>1. \A c \in valid' : c \in Bufs /\ blockno[c] \in Blocks
    BY <1>3, <1>4, <1>5 DEF IInv, Types, Loaded
  <2>2. \A c \in valid' : c \in dirty' \/ c \in failed' \/ data'[c] = disk[blockno[c]]
    <3> TAKE c \in valid'
    <3>1. CASE c = b
      BY <1>1, <1>3, <1>4, <1>5, <1>6, <3>1
    <3>2. CASE c # b
      <4>1. c \in valid /\ c \in Bufs
        BY <1>3, <2>1, <3>2
      <4>2. (c \in dirty' <=> c \in dirty) /\ (c \in failed' <=> c \in failed) /\ data'[c] = data[c]
        BY <1>3, <1>6, <3>2, <4>1
      <4> QED
        BY <4>1, <4>2 DEF IInv, Loaded
    <3> QED
      BY <3>1, <3>2
  <2>3. dirty' \subseteq valid' /\ \A p \in Procs : pc[p] = "using" => buf[p] \in valid'
    BY <1>3 DEF IInv, Loaded
  <2> QED
    BY <1>3, <2>1, <2>2, <2>3 DEF IInv, Loaded
<1>10. Queue'
  <2>1. \A i, j \in 1 .. Len(idequeue') : idequeue'[i] = idequeue'[j] => i = j
    <3> TAKE i, j \in 1 .. Len(idequeue')
    <3> HAVE idequeue'[i] = idequeue'[j]
    <3>1. i + 1 = j + 1
      BY <1>2 DEF IInv, Queue
    <3> QED
      BY <1>2, <3>1
  <2>2. \A c \in Queued' : c \in Queued /\ c # b
    BY <1>2
  <2>3. \A c \in Queued' : (c \in valid' => c \in valid) /\ (c \in dirty => c \in dirty')
    BY <1>3, <2>2
  <2> QED
    BY <1>3, <2>1, <2>2, <2>3 DEF IInv, Queue
<1>11. Served'
  BY <1>2, <1>3 DEF IInv, Served
<1>13. Device'
  <2>1. CASE idequeue' = <<>>
    BY <1>3, <2>1 DEF Device
  <2>2. CASE idequeue' # <<>>
    <3> DEFINE c == idequeue'[1]
    <3>1. Head(idequeue') = c /\ 1 \in 1 .. Len(idequeue')
      BY <1>2, <2>2
    <3>2. c \in Queued
      BY <1>2, <3>1 DEF Queued
    <3>3. c \in Bufs /\ blockno[c] \in Blocks
      <4>1. c \in Bufs /\ owner[c] \in Procs /\ buf[owner[c]] = c
        BY <3>2 DEF IInv, Queue, Holds, Types, Queued
      <4> QED
        BY <4>1, BufCacheAssumption DEF IInv, Loaded
    <3>4. device' = [state |-> "busy", block |-> blockno[c], write |-> c \in dirty', data |-> data'[c]]
      BY <1>3, <2>2, <3>1 DEF Idestart
    <3>5. data'[c] \in Values
      BY <1>7, <3>3 DEF Types
    <3>6. device' \in Requests
      BY <3>3, <3>4, <3>5 DEF Requests
    <3>7. device'.block = blockno[c] /\ device'.data = data'[c] /\ device'.state = "busy"
          /\ (device'.write <=> c \in dirty')
      BY <3>4
    <3> QED
      BY <1>3, <2>2, <3>6, <3>7 DEF Device
  <2> QED
    BY <2>1, <2>2
<1>14. SleepersAwaited'
  <2> SUFFICES ASSUME NEW p \in asleep',
                      ~(pc[p] = "lock" /\ owner[buf[p]] \notin {p, Nobody})
               PROVE  pc[p] = "io" /\ \E i \in DOMAIN idequeue' : idequeue'[i] = buf[p]
    BY <1>3 DEF SleepersAwaited
  <2>1. p \in asleep /\ p \in Procs /\ ~(pc[p] = "io" /\ buf[p] = b)
    BY <1>3 DEF IInv, Types
  <2>2. pc[p] = "io" /\ \E i \in DOMAIN idequeue : idequeue[i] = buf[p]
    BY <2>1 DEF IInv, SleepersAwaited
  <2>5. DOMAIN idequeue = 1 .. Len(idequeue)
    BY DEF IInv, Types
  <2>6. buf[p] \in Queued
    BY <2>2, <2>5 DEF Queued
  <2>3. buf[p] \in Queued'
    BY <1>2, <2>1, <2>2, <2>6
  <2>4. DOMAIN idequeue' = 1 .. Len(idequeue')
    BY <1>2
  <2> QED
    BY <2>2, <2>3, <2>4 DEF Queued
<1> QED
  BY <1>7, <1>8, <1>9, <1>10, <1>11, <1>13, <1>14 DEF IInv
=============================================================================
