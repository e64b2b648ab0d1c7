--------------------------- MODULE BufCacheProofs ---------------------------
(***************************************************************************)
(* The buffer cache and the disk driver for any number of processes,       *)
(* buffers and blocks: one buffer per block, buffers that are used or      *)
(* pinned stay, requests are served in turn, nobody waits for nothing, and *)
(* only the holder of a buffer changes its block.                          *)
(***************************************************************************)
EXTENDS BufCacheInvariant

\* A leaf is tried with Zenon, with SMT, and with Zenon for longer.
USE ZenonT(5), SMTT(30), ZenonT(60)

-----------------------------------------------------------------------------
(* log_write, brelse, kill                                                 *)

LEMMA LogWriteInv ==
  ASSUME Counts, IInv, NEW p \in Procs, NEW v \in Values, LogWrite(p, v)
  PROVE  IInv'
<1> DEFINE b == buf[p]
<1>1. /\ pc[p] = "using"
      /\ data' = [data EXCEPT ![b] = v] /\ dirty' = dirty \cup {b}
      /\ UNCHANGED <<blockno, valid, refcnt, owner, lru, idequeue, device, disk, failed, buf, asleep, pc>>
  BY DEF LogWrite, driver
<1>2. b \in valid /\ b \in Bufs /\ owner[b] = p
  BY <1>1 DEF IInv, Loaded, Types, Holds, Holding
<1>3. b \notin Queued
  BY <1>1, <1>2 DEF IInv, Queue
<1> HIDE DEF b
<1>4. \A c \in Bufs : data'[c] = IF c = b THEN v ELSE data[c]
  BY <1>1 DEF IInv, Types
<1>5. Types'
  BY <1>1, <1>2 DEF IInv, Types
<1>6. Ordered' /\ Holds' /\ Counted' /\ OneBufferPerBlock'
  BY <1>1, OrderedKept, HoldsKept, CountedKept, OneBufferKept DEF IInv
<1>7. Loaded'
  <2>1. dirty' \subseteq valid
    BY <1>1, <1>2 DEF IInv, Loaded
  <2>2. \A c \in valid : c \in dirty' \/ c \in failed \/ data'[c] = disk[blockno[c]]
    BY <1>1, <1>4 DEF IInv, Loaded, Types
  <2> QED
    BY <1>1, <2>1, <2>2 DEF IInv, Loaded
<1>8. Queue' /\ Queued' = Queued
  BY <1>1, QueueKept DEF IInv
<1>9. Served'
  <2>1. \A q \in Procs : pc[q] = "io" => owner[buf[q]] = q /\ q # p
    BY <1>1 DEF IInv, Holds, Holding
  <2> QED
    BY <1>1, <1>2, <1>8, <2>1, ServedKept DEF IInv
<1>11. Device'
  <2>1. \A c \in Queued : c \in Bufs /\ c # b
    BY <1>3 DEF IInv, Types, Queued
  <2> QED
    BY <1>1, <1>4, <2>1, DeviceKept DEF IInv
<1>12. SleepersAwaited'
  BY <1>1 DEF IInv, SleepersAwaited
<1> QED
  BY <1>5, <1>6, <1>7, <1>8, <1>9, <1>11, <1>12 DEF IInv

LEMMA BrelseUnlockInv ==
  ASSUME IInv, NEW p \in Procs, BrelseUnlock(p)
  PROVE  IInv'
<1> DEFINE b == buf[p]
<1>1. /\ pc[p] = "using"
      /\ owner' = [owner EXCEPT ![b] = Nobody]
      /\ asleep' = asleep \ {q \in Procs : pc[q] = "lock" /\ buf[q] = b}
      /\ pc' = [pc EXCEPT ![p] = "unlocked"]
      /\ UNCHANGED <<blockno, valid, dirty, refcnt, data, lru, idequeue, device, disk, failed, buf>>
  BY DEF BrelseUnlock, Goto, driver
<1>2. b \in Bufs /\ owner[b] = p
  BY <1>1 DEF IInv, Loaded, Types, Holds, Holding
<1>3. /\ \A q \in Procs : pc'[q] = IF q = p THEN "unlocked" ELSE pc[q]
      /\ \A c \in Bufs : owner'[c] = IF c = b THEN Nobody ELSE owner[c]
  BY <1>1 DEF IInv, Types
<1>4. Types'
  BY <1>1 DEF IInv, Types, Labels
<1>5. Ordered' /\ Counted' /\ OneBufferPerBlock' /\ Device'
  BY <1>1, OrderedKept, CountedKept, OneBufferKept, DeviceKept DEF IInv
<1>6. Loaded'
  BY <1>1, <1>3, LoadedKept DEF IInv
<1>7. Holds'
  <2>1. \A q \in Procs : pc'[q] \in {"idle", "panic"} <=> buf'[q] = NoBuf
    BY <1>1, <1>3 DEF IInv, Holds
  <2>2. \A q \in Procs : pc'[q] \in Holding => owner'[buf'[q]] = q
    <3>1. \A q \in Procs : pc'[q] \in Holding => q # p /\ pc[q] \in Holding
      BY <1>1, <1>3 DEF Holding
    <3>2. \A q \in Procs : pc[q] \in Holding => buf[q] \in Bufs /\ owner[buf[q]] = q
      BY HolderHas
    <3> QED
      BY <1>1, <1>2, <1>3, <3>1, <3>2
  <2>3. \A c \in Bufs : owner'[c] # Nobody => pc'[owner'[c]] \in Holding /\ buf'[owner'[c]] = c
    <3>1. \A c \in Bufs : owner'[c] # Nobody => owner'[c] = owner[c] /\ owner[c] \in Procs /\ owner[c] # p
      BY <1>2, <1>3 DEF IInv, Holds, Types
    <3> QED
      BY <1>1, <1>3, <3>1 DEF IInv, Holds
  <2> QED
    BY <2>1, <2>2, <2>3 DEF Holds
<1>8. Queue' /\ Served'
  <2>1. \A c \in Queued : c \in Bufs /\ c # b /\ owner[c] # p /\ owner[c] \in Procs
    BY <1>1, <1>2 DEF IInv, Queue, Types, Queued
  <2> QED
    BY <1>1, <1>3, <2>1, QueueKept, ServedKept DEF IInv
<1>9. SleepersAwaited'
  <2> HIDE DEF b
  <2>1. \A q \in asleep' : q \in Procs /\ q \in asleep /\ q # p /\ ~(pc[q] = "lock" /\ buf[q] = b)
    BY <1>1 DEF IInv, Types, SleepersAwaited
  <2>2. \A q \in asleep' : pc[q] = "lock" => buf[q] \in Bufs
    BY <2>1, HasBuffer
  <2> QED
    BY <1>1, <1>3, <2>1, <2>2 DEF IInv, SleepersAwaited
<1> QED
  BY <1>4, <1>5, <1>6, <1>7, <1>8, <1>9 DEF IInv

LEMMA KillInv ==
  ASSUME IInv, NEW p \in Procs, Kill(p)
  PROVE  IInv'
<1>1. /\ asleep' = asleep \ {p}
      /\ UNCHANGED <<blockno, valid, dirty, refcnt, owner, data, lru, idequeue, device, disk, failed, buf, pc>>
  BY DEF Kill, driver
<1>2. Types' /\ Ordered' /\ Holds' /\ Counted' /\ Loaded'
  BY <1>1, OrderedKept, HoldsKept, CountedKept, LoadedKept DEF IInv, Types
<1>3. Queue' /\ Served' /\ Device' /\ OneBufferPerBlock'
  BY <1>1, QueueKept, ServedKept, DeviceKept, OneBufferKept DEF IInv
<1>4. SleepersAwaited'
  BY <1>1 DEF IInv, SleepersAwaited
<1> QED
  BY <1>2, <1>3, <1>4 DEF IInv

\* Moving a buffer to the front of the list keeps every buffer in the list.
LEMMA MovedToFront ==
  ASSUME Counts, Types, Ordered, NEW b \in Bufs, lru' = MoveToFront(b)
  PROVE  lru' \in [1 .. Cardinality(Bufs) -> Bufs] /\ Ordered'
<1> DEFINE n == Cardinality(Bufs)
           place == CHOOSE i \in DOMAIN lru : lru[i] = b
<1>1. lru \in [1 .. n -> Bufs] /\ DOMAIN lru = 1 .. n /\ n \in Nat
  BY DEF Counts, Types
<1>2. place \in 1 .. n /\ lru[place] = b
  BY <1>1 DEF Ordered
<1>3. lru' = [i \in 1 .. n |-> IF i = 1 THEN b ELSE IF i <= place THEN lru[i - 1] ELSE lru[i]]
  BY <1>1 DEF MoveToFront
<1> HIDE DEF place, n
<1>4. \A i \in 1 .. n : i # 1 => i - 1 \in 1 .. n
  BY <1>1
<1>5. lru' \in [1 .. n -> Bufs] /\ DOMAIN lru' = 1 .. n
  BY <1>1, <1>3, <1>4
<1>6. Ordered'
  <2> SUFFICES ASSUME NEW c \in Bufs PROVE \E i \in 1 .. n : lru'[i] = c
    BY <1>5 DEF Ordered
  <2>1. 1 \in 1 .. n
    BY <1>1, <1>2
  <2>2. CASE c = b
    BY <1>3, <2>1, <2>2
  <2>3. CASE c # b
    <3>1. PICK i \in 1 .. n : lru[i] = c
      BY <1>1 DEF Ordered
    <3>2. i # place
      BY <1>2, <2>3, <3>1
    <3>3. CASE i < place
      <4>1. i + 1 \in 1 .. n /\ i + 1 # 1 /\ i + 1 <= place /\ (i + 1) - 1 = i
        BY <1>1, <1>2, <3>3
      <4>2. lru'[i + 1] = lru[i]
        BY <1>3, <4>1
      <4> QED
        BY <3>1, <4>1, <4>2
    <3>4. CASE i > place
      <4>1. i # 1 /\ ~(i <= place)
        BY <1>1, <1>2, <3>4
      <4> QED
        BY <1>3, <3>1, <4>1
    <3> QED
      BY <1>1, <1>2, <3>2, <3>3, <3>4
  <2> QED
    BY <2>2, <2>3
<1> QED
  BY <1>5, <1>6 DEF n

LEMMA BrelsePutInv ==
  ASSUME Counts, IInv, NEW p \in Procs, BrelsePut(p)
  PROVE  IInv'
<1> DEFINE b == buf[p]
<1>1. /\ pc[p] = "unlocked"
      /\ refcnt' = [refcnt EXCEPT ![b] = refcnt[b] - 1]
      /\ lru' = MoveToFront(b) \/ lru' = lru
      /\ buf' = [buf EXCEPT ![p] = NoBuf]
      /\ pc' = [pc EXCEPT ![p] = "idle"]
      /\ UNCHANGED <<blockno, valid, dirty, owner, data, idequeue, device, disk, failed, asleep>>
  BY DEF BrelsePut, Goto, driver
<1>2. b \in Bufs /\ \A c \in Bufs : owner[c] # p
  <2>1. b \in Bufs
    BY <1>1, HasBuffer
  <2>2. p # Nobody /\ pc[p] \notin Holding
    BY <1>1, BufCacheAssumption DEF Holding
  <2> QED
    BY <2>1, <2>2 DEF IInv, Holds
<1>3. /\ \A q \in Procs : pc'[q] = IF q = p THEN "idle" ELSE pc[q]
      /\ \A q \in Procs : buf'[q] = IF q = p THEN NoBuf ELSE buf[q]
  BY <1>1 DEF IInv, Types
<1>4. Counted' /\ refcnt' \in [Bufs -> Nat]
  BY <1>1, <1>2, DropCounted
<1>5. lru' \in [1 .. Cardinality(Bufs) -> Bufs] /\ Ordered'
  <2>1. CASE lru' = MoveToFront(b)
    BY <1>2, <2>1, MovedToFront DEF IInv
  <2>2. CASE lru' = lru
    BY <2>2, OrderedKept DEF IInv, Types
  <2> QED
    BY <1>1, <2>1, <2>2
<1> HIDE DEF b
<1>6. Types'
  BY <1>1, <1>4, <1>5 DEF IInv, Types, Labels
<1>7. Holds'
  <2>1. \A q \in Procs : pc'[q] \in {"idle", "panic"} <=> buf'[q] = NoBuf
    BY <1>3 DEF IInv, Holds
  <2>2. \A q \in Procs : pc'[q] \in Holding => owner[buf'[q]] = q
    BY <1>3 DEF IInv, Holds, Holding
  <2>3. \A c \in Bufs : owner[c] # Nobody => pc'[owner[c]] \in Holding /\ buf'[owner[c]] = c
    BY <1>2, <1>3 DEF IInv, Holds, Types
  <2> QED
    BY <1>1, <2>1, <2>2, <2>3 DEF Holds
<1>8. Loaded'
  <2>1. \A q \in Procs : buf'[q] # NoBuf => buf'[q] = buf[q]
    BY <1>3
  <2>2. \A q \in Procs : pc'[q] = "using" => pc[q] = "using" /\ buf'[q] = buf[q]
    BY <1>3
  <2> QED
    BY <1>1, <2>1, <2>2 DEF IInv, Loaded
<1>9. Queue' /\ Served'
  <2>1. \A c \in Queued : c \in Bufs /\ owner[c] \in Procs
    BY DEF IInv, Queue, Types, Queued
  <2>2. Queue' /\ Queued' = Queued
    BY <1>1, <1>2, <1>3, <2>1, QueueKept DEF IInv
  <2> QED
    BY <1>1, <1>3, <2>2, ServedKept DEF IInv
<1>10. Device' /\ OneBufferPerBlock'
  BY <1>1, DeviceKept, OneBufferKept DEF IInv
<1>11. SleepersAwaited'
  <2>1. \A q \in asleep : q \in Procs /\ q # p
    BY <1>1 DEF IInv, Types, SleepersAwaited
  <2> QED
    BY <1>1, <1>3, <2>1 DEF IInv, SleepersAwaited
<1> QED
  BY <1>4, <1>5, <1>6, <1>7, <1>8, <1>9, <1>10, <1>11 DEF IInv

-----------------------------------------------------------------------------
(* The contents of a block                                                 *)

\* A block is in its valid buffer, or on the disk when there is none.
Located ==
  \A k \in Blocks :
    /\ \A b \in valid : blockno[b] = k => Contents(k) = data[b]
    /\ (\A b \in valid : blockno[b] # k) => Contents(k) = disk[k]

LEMMA LocatedInv == IInv => Located
<1> SUFFICES ASSUME IInv, NEW k \in Blocks
             PROVE  /\ \A b \in valid : blockno[b] = k => Contents(k) = data[b]
                    /\ (\A b \in valid : blockno[b] # k) => Contents(k) = disk[k]
  BY DEF Located
<1> DEFINE S == Cached(k) \cap valid
<1>1. \A b \in valid : b \in Bufs
  BY DEF IInv, Types
<1>2. ASSUME NEW b \in valid, blockno[b] = k
      PROVE  Contents(k) = data[b]
  <2>1. b \in S /\ \A c \in S : c = b
    BY <1>1, <1>2, BufCacheAssumption DEF Cached, IInv, OneBufferPerBlock
  <2>2. (CHOOSE c \in S : TRUE) = b
    BY <2>1
  <2> QED
    BY <2>1, <2>2 DEF Contents
<1>3. ASSUME \A b \in valid : blockno[b] # k
      PROVE  Contents(k) = disk[k]
  BY <1>3 DEF Contents, Cached
<1> QED
  BY <1>2, <1>3

LEMMA LocatedNext == IInv' => Located'
  BY LocatedInv, PTL

LEMMA ContentsSame ==
  ASSUME IInv, IInv', NEW k \in Blocks,
         \A b \in Bufs : b \in valid /\ blockno[b] = k <=> b \in valid' /\ blockno'[b] = k,
         \A b \in valid : blockno[b] = k => data'[b] = data[b],
         (\A b \in valid : blockno[b] # k) => disk'[k] = disk[k]
  PROVE  Contents(k)' = Contents(k)
<1>1. Located /\ Located' /\ valid \subseteq Bufs /\ valid' \subseteq Bufs
  BY LocatedInv, LocatedNext DEF IInv, Types
<1>2. CASE \E b \in valid : blockno[b] = k
  <2>1. PICK b \in valid : blockno[b] = k
    BY <1>2
  <2>2. b \in valid' /\ blockno'[b] = k
    BY <1>1, <2>1
  <2>3. Contents(k) = data[b] /\ Contents(k)' = data'[b]
    BY <1>1, <2>1, <2>2 DEF Located
  <2> QED
    BY <2>1, <2>3
<1>3. CASE \A b \in valid : blockno[b] # k
  <2>1. \A b \in valid' : blockno'[b] # k
    BY <1>1, <1>3
  <2>2. Contents(k) = disk[k] /\ Contents(k)' = disk'[k]
    BY <1>1, <1>3, <2>1 DEF Located
  <2> QED
    BY <1>3, <2>2
<1> QED
  BY <1>2, <1>3

\* The two sides of ContentsKept.
Changed(k) == Contents(k)' # Contents(k)
Excused(k) ==
  \/ \E p \in Procs : pc[p] = "using" /\ blockno[buf[p]] = k
  \/ \E b \in Bufs : blockno[b] = k /\ b \in failed \cup failed'

LEMMA UntouchedKept ==
  ASSUME IInv, IInv', UNCHANGED <<blockno, valid, data, disk>>, NEW k \in Blocks
  PROVE  ~Changed(k)
  BY ContentsSame DEF Changed

LEMMA RecyclingKeeps ==
  ASSUME IInv, IInv', NEW p \in Procs, NEW j \in Blocks, BgetMiss(p, j),
         Victim \in Bufs, Recyclable(Victim), NEW k \in Blocks
  PROVE  Changed(k) => Excused(k)
<1> DEFINE v == Victim
<1>1. v \in Bufs /\ Recyclable(v)
  OBVIOUS
<1>2. /\ blockno' = [blockno EXCEPT ![v] = j] /\ valid' = valid \ {v}
      /\ v \notin dirty /\ UNCHANGED <<data, disk>>
      /\ \A c \in Bufs : blockno[c] # j
  BY <1>1 DEF BgetMiss, driver, Cached, Recyclable
<1> HIDE DEF v
<1>3. \A b \in Bufs : blockno'[b] = IF b = v THEN j ELSE blockno[b]
  BY <1>2 DEF IInv, Types
<1>4. CASE v \in valid /\ blockno[v] = k
  <2>1. \A b \in valid' : blockno'[b] # k
    BY <1>1, <1>2, <1>3, <1>4, BufCacheAssumption DEF IInv, Types, OneBufferPerBlock
  <2>2. Contents(k) = data[v] /\ Contents(k)' = disk'[k]
    BY <1>4, <2>1, LocatedInv, LocatedNext DEF Located
  <2>3. v \in failed \/ data[v] = disk[k]
    BY <1>2, <1>4 DEF IInv, Loaded
  <2> QED
    BY <1>1, <1>2, <1>4, <2>2, <2>3 DEF Changed, Excused
<1>5. CASE ~(v \in valid /\ blockno[v] = k)
  <2>1. \A b \in Bufs : b \in valid /\ blockno[b] = k <=> b \in valid' /\ blockno'[b] = k
    BY <1>2, <1>3, <1>5
  <2> QED
    BY <1>2, <2>1, ContentsSame DEF Changed
<1> QED
  BY <1>4, <1>5

LEMMA FillingExcused ==
  ASSUME IInv, IInv', NEW p \in Procs, NEW v, pc[p] = "using",
         data' = [data EXCEPT ![buf[p]] = v], UNCHANGED <<blockno, valid, disk>>, NEW k \in Blocks
  PROVE  Changed(k) => Excused(k)
<1>1. CASE blockno[buf[p]] = k
  BY <1>1 DEF Excused
<1>2. CASE blockno[buf[p]] # k
  <2>1. \A b \in valid : blockno[b] = k => data'[b] = data[b]
    BY <1>2 DEF IInv, Types
  <2> QED
    BY <2>1, ContentsSame DEF Changed
<1> QED
  BY <1>1, <1>2

LEMMA WrittenBackKeeps ==
  ASSUME IInv, IInv', NEW outcome \in {"ok", "error"}, DiskDone(outcome), NEW k \in Blocks
  PROVE  ~Changed(k)
<1>1. /\ device.state = "busy"
      /\ disk' = IF device.write /\ outcome = "ok"
                 THEN [disk EXCEPT ![device.block] = device.data] ELSE disk
      /\ UNCHANGED <<blockno, valid, data>>
  BY DEF DiskDone
<1>2. idequeue # <<>>
  BY <1>1 DEF IInv, Device, Idle
<1>3. device.write => device.block = blockno[idequeue[1]] /\ idequeue[1] \in valid
  BY <1>2 DEF IInv, Device, Loaded
<1>4. (\A b \in valid : blockno[b] # k) => disk'[k] = disk[k]
  BY <1>1, <1>3 DEF IInv, Types
<1> QED
  BY <1>1, <1>4, ContentsSame DEF Changed

LEMMA InterruptKeeps ==
  ASSUME IInv, IInv', IdeIntr, NEW k \in Blocks
  PROVE  Changed(k) => Excused(k)
<1> DEFINE b == idequeue[1]
<1>1. device.state \in {"ok", "error"} /\ idequeue # <<>>
  BY DEF IdeIntr, IInv, Device, Idle
<1>2. Head(idequeue) = b
  BY <1>1 DEF IInv, Types
<1>3. /\ data' = IF b \notin dirty /\ device.state = "ok"
                 THEN [data EXCEPT ![b] = disk[device.block]] ELSE data
      /\ valid' = valid \cup {b}
      /\ failed' = IF device.state = "error" THEN failed \cup {b} ELSE failed \ {b}
      /\ UNCHANGED <<blockno, disk>>
  BY <1>2 DEF IdeIntr
<1>4. b \in Bufs /\ b \in Queued /\ device.block = blockno[b]
  BY <1>1, HeadQueued DEF IInv, Device
<1>5. (b \in valid => b \in dirty) /\ (b \in dirty => b \in valid)
  BY <1>4 DEF IInv, Queue, Loaded
<1> HIDE DEF b
<1>6. \A c \in Bufs : data'[c] = IF c = b /\ b \notin dirty /\ device.state = "ok"
                                 THEN disk[device.block] ELSE data[c]
  BY <1>3 DEF IInv, Types
<1>7. valid \subseteq Bufs
  BY DEF IInv, Types
<1>8. CASE b \in valid \/ blockno[b] # k
  <2>1. \A c \in Bufs : c \in valid /\ blockno[c] = k <=> c \in valid' /\ blockno'[c] = k
    BY <1>3, <1>8
  <2>2. \A c \in valid : blockno[c] = k => data'[c] = data[c]
    BY <1>5, <1>6, <1>7, <1>8
  <2> QED
    BY <1>3, <2>1, <2>2, ContentsSame DEF Changed
<1>9. CASE b \notin valid /\ blockno[b] = k
  <2>1. Contents(k)' = data'[b]
    BY <1>3, <1>9, LocatedNext DEF Located
  <2>2. \A c \in valid : blockno[c] # k
    BY <1>4, <1>7, <1>9, BufCacheAssumption DEF IInv, OneBufferPerBlock
  <2>3. Contents(k) = disk[k]
    BY <2>2, LocatedInv DEF Located
  <2>4. CASE device.state = "ok"
    BY <1>4, <1>5, <1>6, <1>9, <2>1, <2>3, <2>4 DEF Changed
  <2>5. CASE device.state = "error"
    BY <1>3, <1>4, <1>9, <2>5 DEF Excused
  <2> QED
    BY <1>1, <2>4, <2>5
<1> QED
  BY <1>8, <1>9

-----------------------------------------------------------------------------
(* Finite sets, and the theorems                                           *)

INSTANCE FiniteSetTheorems

LEMMA CountsHold == Counts
<1>1. ASSUME NEW S \in SUBSET Bufs
      PROVE  Cardinality(S) \in Nat /\ \A T \in SUBSET S : Cardinality(T) <= Cardinality(S)
  <2>1. IsFiniteSet(S)
    BY BufCacheAssumption, FS_Subset
  <2> QED
    BY <2>1, FS_Subset, FS_CardinalityType
<1>2. ASSUME NEW S \in SUBSET Procs
      PROVE  /\ Cardinality(S) \in Nat
             /\ Cardinality(S) = 0 => S = {}
             /\ \A p \in S : Cardinality(S \ {p}) = Cardinality(S) - 1
             /\ \A p \in Procs \ S : Cardinality(S \cup {p}) = Cardinality(S) + 1
  <2>1. IsFiniteSet(S)
    BY BufCacheAssumption, FS_Subset
  <2>2. Cardinality(S) \in Nat /\ (Cardinality(S) = 0 => S = {})
    BY <2>1, FS_EmptySet, FS_CardinalityType
  <2>3. \A p \in S : Cardinality(S \ {p}) = Cardinality(S) - 1
    BY <2>1, FS_RemoveElement
  <2>4. \A p \in Procs \ S : Cardinality(S \cup {p}) = Cardinality(S) + 1
    BY <2>1, FS_AddElement
  <2> QED
    BY <2>2, <2>3, <2>4
<1> QED
  BY <1>1, <1>2 DEF Counts

LEMMA InitInv == Init => IInv
<1> SUFFICES ASSUME Init PROVE IInv
  OBVIOUS
<1> USE DEF Init
<1>1. <<>> \in Seq(Bufs) /\ Len(<<>>) = 0 /\ Queued = {}
  BY DEF Queued
<1>2. Types
  BY <1>1 DEF Types, Labels
<1>3. Ordered
  <2>1. lru \in Injection(1 .. Cardinality(Bufs), Bufs)
    BY DEF Injection, IsInjective
  <2>2. Cardinality(Bufs) \in Nat /\ IsFiniteSet(Bufs)
    BY BufCacheAssumption, FS_CardinalityType
  <2>3. Cardinality(1 .. Cardinality(Bufs)) = Cardinality(Bufs)
    BY <2>2, FS_Interval
  <2>4. lru \in Surjection(1 .. Cardinality(Bufs), Bufs)
    BY <2>1, <2>2, <2>3, FS_Injection
  <2> QED
    BY <2>4 DEF Ordered, Surjection
<1>4. Holds
  BY DEF Holds, Holding
<1>5. Counted
  <2>1. \A b \in Bufs : Users(b) = {}
    BY BufCacheAssumption DEF Users
  <2> QED
    BY <2>1, FS_EmptySet DEF Counted
<1>6. Loaded
  BY DEF Loaded
<1>7. Queue
  BY <1>1 DEF Queue
<1>12. Served
  BY DEF Served
<1>9. Device
  BY DEF Device
<1>10. OneBufferPerBlock
  BY DEF OneBufferPerBlock
<1>11. SleepersAwaited
  BY DEF SleepersAwaited
<1> QED
  BY <1>2, <1>3, <1>4, <1>5, <1>6, <1>7, <1>9, <1>10, <1>11, <1>12 DEF IInv

\* The search from the end of the list finds a buffer if there is one.
LEMMA VictimFound ==
  ASSUME IInv, NEW b \in Bufs, Recyclable(b)
  PROVE  Victim \in Bufs /\ Recyclable(Victim)
<1> DEFINE N == Cardinality(Bufs)
           T == {j \in Nat : \E i \in 1 .. N : j = N - i /\ Recyclable(lru[i])}
           R == OpToRel(<, Nat)
<1>1. N \in Nat /\ DOMAIN lru = 1 .. N /\ \A i \in 1 .. N : lru[i] \in Bufs
  BY BufCacheAssumption, FS_CardinalityType DEF IInv, Types
<1>2. T # {}
  <2> HIDE DEF N
  <2>1. PICK i \in 1 .. N : lru[i] = b
    BY <1>1 DEF IInv, Ordered
  <2>2. N - i \in T
    BY <1>1, <2>1
  <2> QED
    BY <2>2
<1>3. PICK m \in T : \A y \in T : ~(<<y, m>> \in R)
  <2> HIDE DEF R, T
  <2>1. IsWellFoundedOn(R, Nat)
    BY NatLessThanWellFounded DEF R
  <2>2. T \subseteq Nat
    BY DEF T
  <2> QED
    BY <1>2, <2>1, <2>2, WFMin
<1>4. \A y \in T : m <= y
  <2>1. \A x, y \in Nat : ~(<<y, x>> \in R) => x <= y
    BY DEF OpToRel
  <2>2. T \subseteq Nat
    OBVIOUS
  <2> HIDE DEF R, T
  <2> QED
    BY <1>3, <2>1, <2>2
<1> HIDE DEF N, R
<1>5. PICK i \in 1 .. N : m = N - i /\ Recyclable(lru[i])
  BY <1>3
<1>6. \A j \in DOMAIN lru : j > i => ~Recyclable(lru[j])
  <2> SUFFICES ASSUME NEW j \in 1 .. N, j > i, Recyclable(lru[j]) PROVE FALSE
    BY <1>1
  <2>1. N - j \in T
    BY <1>1
  <2> QED
    BY <1>1, <1>4, <1>5, <2>1
<1>7. \E k \in DOMAIN lru : /\ Recyclable(lru[k])
                            /\ \A j \in DOMAIN lru : j > k => ~Recyclable(lru[j])
  BY <1>1, <1>5, <1>6
<1> DEFINE Last(k) == /\ Recyclable(lru[k])
                      /\ \A j \in DOMAIN lru : j > k => ~Recyclable(lru[j])
           c == CHOOSE k \in DOMAIN lru : Last(k)
<1>8. c \in DOMAIN lru /\ Last(c)
  <2> HIDE DEF Last
  <2>1. \E k \in DOMAIN lru : Last(k)
    BY <1>7 DEF Last
  <2> QED
    BY <2>1
<1>9. Victim = lru[c]
  BY DEF Victim
<1> HIDE DEF c
<1> QED
  BY <1>1, <1>8, <1>9

\* A bget that finds no buffer stops without touching any.
LEMMA BgetPanics ==
  ASSUME IInv, NEW p \in Procs, NEW k \in Blocks, BgetMiss(p, k),
         \A b \in Bufs : ~Recyclable(b)
  PROVE  /\ IInv'
         /\ pc' = [pc EXCEPT ![p] = "panic"] /\ buf[p] = NoBuf
         /\ UNCHANGED <<blockno, valid, dirty, refcnt, owner, data, lru, idequeue,
                        device, disk, failed, buf, asleep>>
<1>1. /\ pc[p] = "idle" /\ pc' = [pc EXCEPT ![p] = "panic"]
      /\ UNCHANGED <<blockno, valid, dirty, refcnt, owner, data, lru, idequeue,
                     device, disk, failed, buf, asleep>>
  BY DEF BgetMiss, Goto, driver
<1>2. \A q \in Procs : pc'[q] = IF q = p THEN "panic" ELSE pc[q]
  BY <1>1 DEF IInv, Types
<1>3. Types'
  BY <1>1 DEF IInv, Types, Labels
<1>4. Ordered' /\ Counted' /\ Device' /\ OneBufferPerBlock'
  BY <1>1, OrderedKept, CountedKept, DeviceKept, OneBufferKept DEF IInv
<1>5. \A c \in Bufs : owner[c] # Nobody => owner[c] \in Procs /\ owner[c] # p
  <2>1. "idle" \notin Holding
    BY DEF Holding
  <2> QED
    BY <1>1, <2>1 DEF IInv, Holds, Types
<1>6. Holds'
  <2>1. \A q \in Procs : pc'[q] \in {"idle", "panic"} <=> buf'[q] = NoBuf
    BY <1>1, <1>2 DEF IInv, Holds
  <2>2. \A q \in Procs : pc'[q] \in Holding <=> pc[q] \in Holding
    BY <1>1, <1>2 DEF Holding
  <2> QED
    BY <1>1, <1>2, <1>5, <2>1, <2>2 DEF IInv, Holds
<1>7. Loaded'
  BY <1>1, <1>2, LoadedKept DEF IInv
<1>8. Queue' /\ Queued' = Queued
  <2>1. \A b \in Queued : b \in Bufs
    BY DEF IInv, Types, Queued
  <2>2. \A b \in Queued : pc'[owner[b]] = pc[owner[b]]
    BY <1>2, <1>5, <2>1 DEF IInv, Queue
  <2> QED
    BY <1>1, <2>2, QueueKept DEF IInv
<1>9. Served'
  BY <1>1, <1>2, <1>8, ServedKept DEF IInv
<1>10. SleepersAwaited'
  BY <1>1, <1>2 DEF IInv, SleepersAwaited, Types
<1>11. buf[p] = NoBuf
  BY <1>1 DEF IInv, Holds
<1> QED
  BY <1>1, <1>3, <1>4, <1>6, <1>7, <1>8, <1>9, <1>10, <1>11 DEF IInv

LEMMA StepInv ==
  IInv /\ [Next]_vars => IInv'
<1> SUFFICES ASSUME IInv, [Next]_vars PROVE IInv'
  OBVIOUS
<1>1. CASE Step
  <2>1. ASSUME NEW p \in Procs, NEW k \in Blocks, BgetHit(p, k) \/ BgetMiss(p, k)
        PROVE  IInv'
    <3>1. CASE \E b \in Bufs : Recyclable(b)
      <4>1. Victim \in Bufs /\ Recyclable(Victim)
        BY <3>1, VictimFound
      <4> QED
        BY <2>1, <4>1, CountsHold, BgetHitInv, BgetMissInv
    <3>2. CASE \A b \in Bufs : ~Recyclable(b)
      BY <2>1, <3>2, CountsHold, BgetHitInv, BgetPanics
    <3> QED
      BY <3>1, <3>2
  <2>2. ASSUME NEW p \in Procs, AcquireSleep(p) \/ Bread(p) \/ IdeWait(p)
        PROVE  IInv'
    BY <2>2, CountsHold, AcquireSleepInv, BreadInv, IdeWaitInv
  <2>3. ASSUME NEW p \in Procs, NEW v \in Values, LogWrite(p, v) \/ Bwrite(p, v)
        PROVE  IInv'
    BY <2>3, CountsHold, LogWriteInv, BwriteInv
  <2>4. ASSUME NEW p \in Procs, BrelseUnlock(p) \/ BrelsePut(p) \/ Kill(p)
        PROVE  IInv'
    BY <2>4, CountsHold, BrelseUnlockInv, BrelsePutInv, KillInv
  <2>5. ASSUME NEW o \in {"ok", "error"}, DiskDone(o)
        PROVE  IInv'
    BY <2>5, DiskDoneInv
  <2>6. ASSUME IdeIntr
        PROVE  IInv'
    BY <2>6, IdeIntrInv
  <2> QED
    BY <1>1, <2>1, <2>2, <2>3, <2>4, <2>5, <2>6 DEF Step
<1>2. CASE UNCHANGED vars
  <2>1. UNCHANGED <<blockno, valid, dirty, refcnt, owner, data, lru, idequeue, device, disk, failed,
                    buf, asleep, pc>>
    BY <1>2 DEF vars, driver
  <2>2. Types' /\ Ordered' /\ Holds' /\ Counted' /\ Loaded'
    BY <2>1, OrderedKept, HoldsKept, CountedKept, LoadedKept DEF IInv, Types
  <2>3. Queue' /\ Served' /\ Device' /\ OneBufferPerBlock'
    BY <2>1, QueueKept, ServedKept, DeviceKept, OneBufferKept DEF IInv
  <2>4. SleepersAwaited'
    BY <2>1 DEF IInv, SleepersAwaited
  <2> QED
    BY <2>2, <2>3, <2>4 DEF IInv
<1> QED
  BY <1>1, <1>2 DEF Next, Panic

LEMMA Invariance == Spec => []IInv
  BY InitInv, StepInv, PTL DEF Spec

\* However many processes look up and recycle buffers, a block is never in two
\* of them: bget searches and recycles in one critical section (bio.c:66-91).
THEOREM OneBuffer == Spec => []OneBufferPerBlock
<1>1. IInv => OneBufferPerBlock
  BY DEF IInv
<1> QED
  BY <1>1, Invariance, PTL

\* When bget has panicked every buffer is dirty or another process has it.
Starved ==
  \A p \in Procs : pc[p] = "panic" =>
    \A b \in Bufs \ dirty : \E q \in Procs \ {p} : buf[q] = b

\* bget panics in such a state only, and nothing moves afterwards.
LEMMA StarvedStep ==
  ASSUME IInv, Starved, [Next]_vars
  PROVE  Starved'
<1>1. CASE ~Panicked /\ Step
  <2>1. CASE \E p \in Procs, k \in Blocks :
               BgetMiss(p, k) /\ \A b \in Bufs : ~Recyclable(b)
    <3>1. PICK p \in Procs, k \in Blocks :
            BgetMiss(p, k) /\ \A b \in Bufs : ~Recyclable(b)
      BY <2>1
    <3>2. pc' = [pc EXCEPT ![p] = "panic"] /\ buf[p] = NoBuf /\ UNCHANGED <<dirty, buf>>
      BY <3>1, BgetPanics
    <3>3. \A q \in Procs : pc'[q] = "panic" => q = p
      BY <1>1, <3>2 DEF Panicked, IInv, Types
    <3>4. ASSUME NEW b \in Bufs \ dirty PROVE \E q \in Procs \ {p} : buf[q] = b
      <4>1. refcnt[b] # 0
        BY <3>1, <3>4 DEF Recyclable
      <4>2. Users(b) # {}
        BY <4>1, <3>4, FS_EmptySet DEF IInv, Counted
      <4> QED
        BY <3>2, <3>4, <4>2, BufCacheAssumption DEF Users
    <3> QED
      BY <3>2, <3>3, <3>4 DEF Starved
  <2>2. CASE ~\E p \in Procs, k \in Blocks :
               BgetMiss(p, k) /\ \A b \in Bufs : ~Recyclable(b)
    <3>1. \A q \in Procs : pc[q] # "panic"
      BY <1>1 DEF Panicked
    <3> DEFINE Moves(p) == \E l \in {"idle", "lock", "locked", "using", "io", "unlocked"} :
                             pc' = [pc EXCEPT ![p] = l]
    <3>2. ASSUME NEW p \in Procs, NEW j \in Blocks, BgetHit(p, j) \/ BgetMiss(p, j)
          PROVE  Moves(p)
      <4>1. pc' = [pc EXCEPT ![p] = "lock"]
        BY <2>2, <3>2 DEF BgetHit, BgetMiss, Goto
      <4> QED
        BY <4>1
    <3>3. ASSUME NEW p \in Procs, AcquireSleep(p) \/ Bread(p) \/ IdeWait(p)
          PROVE  pc' = pc \/ Moves(p)
      BY <3>3 DEF AcquireSleep, Bread, IdeWait, Submit, Goto
    <3>4. ASSUME NEW p \in Procs, NEW v \in Values, LogWrite(p, v) \/ Bwrite(p, v)
          PROVE  pc' = pc \/ Moves(p)
      BY <3>4 DEF LogWrite, Bwrite, Submit, Goto
    <3>5. ASSUME NEW p \in Procs, BrelseUnlock(p) \/ BrelsePut(p) \/ Kill(p)
          PROVE  pc' = pc \/ Moves(p)
      BY <3>5 DEF BrelseUnlock, BrelsePut, Kill, Goto
    <3>6. ASSUME NEW o \in {"ok", "error"}, DiskDone(o) \/ IdeIntr
          PROVE  pc' = pc
      BY <3>6 DEF DiskDone, IdeIntr
    <3>7. pc' = pc \/ \E p \in Procs : Moves(p)
      <4> HIDE DEF Moves
      <4> QED
        BY <1>1, <3>2, <3>3, <3>4, <3>5, <3>6 DEF Step
    <3>8. \A q \in Procs : pc'[q] # "panic"
      BY <3>1, <3>7 DEF IInv, Types
    <3> QED
      BY <3>8 DEF Starved
  <2> QED
    BY <2>1, <2>2
<1>2. CASE UNCHANGED vars
  BY <1>2 DEF vars, Starved
<1> QED
  BY <1>1, <1>2 DEF Next, Panic

\* The reference count is the number of processes that look for, wait for or hold
\* the buffer, and one of them at most holds it; for any number of buffers, bget
\* panics only when every one is dirty or with another process, and never for a
\* reference that was not given back (bio.c:71, 80-92, 113, 124, 129).
THEOREM ReferenceCounts == Spec => []RefcntCounts
<1>1. IInv /\ Starved => RefcntCounts
  <2> SUFFICES ASSUME IInv, Starved PROVE RefcntCounts
    OBVIOUS
  <2>1. \A b \in Bufs : refcnt[b] = Cardinality({p \in Procs : buf[p] = b})
    BY DEF IInv, Counted, Users
  <2> QED
    BY <2>1 DEF RefcntCounts, IInv, Holds, Starved
<1>2. Init => Starved
  BY DEF Init, Starved
<1> QED
  BY <1>1, <1>2, Invariance, StarvedStep, PTL DEF Spec

\* The disk always works for the head of the queue of iderw, and each request in
\* the queue is of a process that waits with the buffer locked (ide.c:27-29,
\* 108, 115-128, 142).
THEOREM ServedInTurn == Spec => []QueueServed
<1>1. IInv => QueueServed
  <2> SUFFICES ASSUME IInv PROVE QueueServed
    OBVIOUS
  <2>1. (device = Idle) <=> (idequeue = <<>>)
    BY DEF IInv, Device, Requests, Idle
  <2>2. idequeue # <<>> => device.block = blockno[Head(idequeue)]
    <3>1. idequeue # <<>> => Head(idequeue) = idequeue[1]
      BY DEF IInv, Types
    <3> QED
      BY <3>1 DEF IInv, Device
  <2>3. ASSUME NEW i \in DOMAIN idequeue
        PROVE  \E p \in Procs : pc[p] = "io" /\ buf[p] = idequeue[i] /\ owner[idequeue[i]] = p
    <3>1. idequeue[i] \in Bufs /\ idequeue[i] \in Queued
      BY <2>3 DEF IInv, Types, Queued
    <3>2. owner[idequeue[i]] \in Procs /\ pc[owner[idequeue[i]]] = "io" /\ buf[owner[idequeue[i]]] = idequeue[i]
      BY <3>1 DEF IInv, Queue, Holds, Types
    <3> QED
      BY <3>2
  <2> QED
    BY <2>1, <2>2, <2>3 DEF QueueServed
<1> QED
  BY <1>1, Invariance, PTL

\* Whoever sleeps in iderw has its transfer in the queue, and whoever sleeps for
\* a buffer's lock has another holder to wait for: no wakeup is missed (ide.c:124,
\* 162-164, sleeplock.c:26-28, 40).
THEOREM SleepersHaveCause == Spec => []SleepersAwaited
<1>1. IInv => SleepersAwaited
  BY DEF IInv
<1> QED
  BY <1>1, Invariance, PTL

LEMMA StepKeeps ==
  ASSUME IInv, IInv', Step, NEW k \in Blocks
  PROVE  Changed(k) => Excused(k)
<1>1. ASSUME NEW p \in Procs, NEW j \in Blocks, BgetMiss(p, j)
      PROVE  Changed(k) => Excused(k)
  <2>1. CASE \E b \in Bufs : Recyclable(b)
    <3>1. Victim \in Bufs /\ Recyclable(Victim)
      BY <2>1, VictimFound
    <3> QED
      BY <1>1, <3>1, RecyclingKeeps
  <2>2. CASE \A b \in Bufs : ~Recyclable(b)
    BY <1>1, <2>2, BgetPanics, UntouchedKept
  <2> QED
    BY <2>1, <2>2
<1>2. ASSUME NEW p \in Procs, NEW v \in Values, LogWrite(p, v) \/ Bwrite(p, v)
      PROVE  Changed(k) => Excused(k)
  <2>1. pc[p] = "using" /\ data' = [data EXCEPT ![buf[p]] = v] /\ UNCHANGED <<blockno, valid, disk>>
    BY <1>2 DEF LogWrite, Bwrite, Submit, driver
  <2> QED
    BY <2>1, FillingExcused
<1>3. ASSUME NEW p \in Procs, NEW j \in Blocks, BgetHit(p, j)
      PROVE  ~Changed(k)
  <2>1. UNCHANGED <<blockno, valid, data, disk>>
    BY <1>3 DEF BgetHit, driver
  <2> QED
    BY <2>1, UntouchedKept
<1>4. ASSUME NEW p \in Procs, AcquireSleep(p) \/ Bread(p) \/ IdeWait(p)
      PROVE  ~Changed(k)
  <2>1. UNCHANGED <<blockno, valid, data, disk>>
    BY <1>4 DEF AcquireSleep, Bread, Submit, IdeWait, driver
  <2> QED
    BY <2>1, UntouchedKept
<1>5. ASSUME NEW p \in Procs, BrelseUnlock(p) \/ BrelsePut(p) \/ Kill(p)
      PROVE  ~Changed(k)
  <2>1. UNCHANGED <<blockno, valid, data, disk>>
    BY <1>5 DEF BrelseUnlock, BrelsePut, Kill, driver
  <2> QED
    BY <2>1, UntouchedKept
<1>6. ASSUME NEW o \in {"ok", "error"}, DiskDone(o)
      PROVE  ~Changed(k)
  BY <1>6, WrittenBackKeeps
<1>7. ASSUME IdeIntr
      PROVE  Changed(k) => Excused(k)
  BY <1>7, InterruptKeeps
<1> QED
  BY <1>1, <1>2, <1>3, <1>4, <1>5, <1>6, <1>7 DEF Step

\* Only a process that holds a block's buffer changes the block's contents: no
\* recycling, rereading, request, interrupt or wakeup loses a write or brings an
\* old value back, unless the disk failed a transfer of it (bio.c:78-91,
\* ide.c:115-124, 152-164).
THEOREM WritesNeverLost == Spec => ContentsKept
<1>1. IInv /\ IInv' /\ [Next]_vars => [\A k \in Blocks : Changed(k) => Excused(k)]_vars
  BY StepKeeps DEF Next, Panic
<1> QED
  BY <1>1, Invariance, PTL DEF Spec, ContentsKept, Changed, Excused
=============================================================================
