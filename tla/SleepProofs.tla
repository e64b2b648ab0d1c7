----------------------------- MODULE SleepProofs ----------------------------
(***************************************************************************)
(* Proofs about the two users of sleep() and wakeup() that have a lock of  *)
(* their own: Pipe (its types, who may sleep, when the page is freed, and  *)
(* that its ring is a first-in first-out channel) and Sleeplock (mutual    *)
(* exclusion, no lost wakeup).                                             *)
(***************************************************************************)
EXTENDS Pipe, Sleeplock, TLAPS

\* A leaf is tried with Zenon, with SMT, and with Zenon for longer.
USE ZenonT(5), SMTT(30), ZenonT(60)

Writing == {"write", "write_sleep", "write_slept"}
Reading == {"read_test", "read", "read_sleep", "read_slept"}
Inside == {"write", "write_sleep", "read_test", "read", "read_sleep"}

\* The lock is held by the process that is inside, and sleepers are outside.
LockInv ==
  /\ \A p \in Procs : pc[p] \in Inside <=> lock = p
  /\ \A p \in sleepW : pc[p] = "write_slept"
  /\ \A p \in sleepR : pc[p] = "read_slept"

\* A writer that decided to sleep, or sleeps, has to, unless a reader that will
\* wake it is at work.
WriterInv ==
  /\ \A p \in Procs : pc[p] = "write_sleep" => Full /\ readopen
  /\ sleepW # {} => /\ readopen
                    /\ Full \/ (lock # Nobody /\ pc[lock] = "read")

\* The same of readers, as long as nobody is killed.
ReaderInv ==
  /\ \A p \in Procs : pc[p] = "read_sleep" => Empty /\ writeopen
  /\ killed = {} /\ sleepR # {} =>
       /\ writeopen
       /\ Empty \/ (lock # Nobody /\ pc[lock] = "write")

\* An end is open while somebody has a descriptor of it or is about to close
\* it after the last one, whoever is in a call has one, and the page is freed
\* with the second end.
EndInv ==
  /\ readopen <=> readfds # {} \/ \E p \in Procs : pc[p] = "close_read"
  /\ writeopen <=> writefds # {} \/ \E p \in Procs : pc[p] = "close_write"
  /\ \A p \in Procs : pc[p] = "close_read" => readfds = {}
  /\ \A p \in Procs : pc[p] = "close_write" => writefds = {}
  /\ \A p, q \in Procs : pc[p] = pc[q] /\ pc[p] \in {"close_read", "close_write"} => p = q
  /\ freed = IF readopen \/ writeopen THEN 0 ELSE 1
  /\ \A p \in Procs : pc[p] \in Writing => p \in writefds
  /\ \A p \in Procs : pc[p] \in Reading => p \in readfds

IInv == TypeOK /\ LockInv /\ EndInv /\ WriterInv /\ ReaderInv

\* Each counter stays below UintMod, and its slot inside the array.
LEMMA Ranges ==
  ASSUME NEW n \in Nat
  PROVE  n % UintMod \in 0 .. UintMod - 1 /\ n % PIPESIZE \in Slots
BY PipeAssumption, ProcessAssumption, SMT DEF Slots

\* The initial states satisfy the invariant.
LEMMA InitInv == Init => IInv
BY PipeAssumption, ProcessAssumption, SMT DEF Init, IInv, TypeOK, LockInv, WriterInv, ReaderInv,
   EndInv, Empty, Slots, Inside, Writing, Reading

\* Every step keeps the types.
LEMMA NextTypes == TypeOK /\ [Next]_vars => TypeOK'
<1> SUFFICES ASSUME TypeOK, [Next]_vars PROVE TypeOK'
  OBVIOUS
<1> USE PipeAssumption, ProcessAssumption DEF TypeOK, ends
<1>1. ASSUME NEW p \in Procs, NEW n \in 0 .. MaxCount,
             WriteEnter(p, n) \/ ReadEnter(p, n)
      PROVE  TypeOK'
  BY <1>1, SMT DEF WriteEnter, ReadEnter, Acquire, Goto
<1>2. ASSUME NEW p \in Procs, WriteAgain(p) \/ ReadAgain(p) PROVE TypeOK'
  BY <1>2, SMT DEF WriteAgain, ReadAgain, Acquire, Goto
<1>3. ASSUME NEW p \in Procs, NEW v \in Bytes, WriteByte(p, v) PROVE TypeOK'
  <2>1. (nwrite + 1) % UintMod \in 0 .. UintMod - 1
    <3>1. nwrite + 1 \in Nat
      BY SMT
    <3> QED BY <3>1, Ranges
  <2>3. [data EXCEPT ![nwrite % PIPESIZE] = v] \in [Slots -> Bytes]
    <3>1. data \in [Slots -> Bytes]
      BY DEF TypeOK
    <3> HIDE DEF TypeOK
    <3> DEFINE s == nwrite % PIPESIZE
    <3> HIDE DEF s
    <3>2. [data EXCEPT ![s] = v] \in [Slots -> Bytes]
      BY <3>1, Zenon
    <3> QED BY <3>2 DEF s
  <2>2. left[p] - 1 \in 0 .. MaxCount
    BY <1>3, SMT DEF WriteByte
  <2> QED BY <1>3, <2>1, <2>2, <2>3, SMT DEF WriteByte
<1>4. ASSUME NEW p \in Procs, WriteFull(p) PROVE TypeOK'
  BY <1>4, SMT DEF WriteFull, Leave, Goto
<1>5. ASSUME NEW p \in Procs, WriteSleep(p) \/ ReadSleep(p) PROVE TypeOK'
  BY <1>5, SMT DEF WriteSleep, ReadSleep, Goto
<1>6. ASSUME NEW p \in Procs, WriteReturn(p) \/ ReadReturn(p) PROVE TypeOK'
  BY <1>6, SMT DEF WriteReturn, ReadReturn, Leave, Goto
<1>7. ASSUME NEW p \in Procs, ReadTest(p) PROVE TypeOK'
  BY <1>7, SMT DEF ReadTest, Leave, Goto
<1>8. ASSUME NEW p \in Procs, ReadByte(p) PROVE TypeOK'
  <2>1. (nread + 1) % UintMod \in 0 .. UintMod - 1
    <3>1. nread + 1 \in Nat
      BY SMT
    <3> QED BY <3>1, Ranges
  <2>2. left[p] - 1 \in 0 .. MaxCount
    BY <1>8, SMT DEF ReadByte
  <2> QED BY <1>8, <2>1, <2>2, SMT DEF ReadByte
<1>9. ASSUME NEW p \in Procs, CloseWrite(p) \/ CloseRead(p) PROVE TypeOK'
  BY <1>9, SMT DEF CloseWrite, CloseRead, Goto
<1>12. ASSUME NEW p \in Procs, PipecloseWrite(p) \/ PipecloseRead(p) PROVE TypeOK'
  <2>1. freed' \in {freed, freed + 1}
    BY <1>12, Zenon DEF PipecloseWrite, PipecloseRead
  <2>2. freed' \in Nat
    BY <2>1, SMT
  <2>3. readopen' \in BOOLEAN /\ writeopen' \in BOOLEAN
    BY <1>12, Zenon DEF PipecloseWrite, PipecloseRead
  <2>4. pc' = [pc EXCEPT ![p] = "idle"]
    BY <1>12 DEF PipecloseWrite, PipecloseRead, Goto
  <2>5. sleepR' \in {sleepR, {}} /\ sleepW' \in {sleepW, {}}
    BY <1>12 DEF PipecloseWrite, PipecloseRead
  <2>6. UNCHANGED <<lock, data, nread, nwrite, readfds, writefds, killed, left>>
    BY <1>12 DEF PipecloseWrite, PipecloseRead
  <2> QED BY <2>2, <2>3, <2>4, <2>5, <2>6, SMT
<1>10. ASSUME NEW p \in Procs, Kill(p) PROVE TypeOK'
  BY <1>10, SMT DEF Kill
<1>11. CASE UNCHANGED vars
  BY <1>11, SMTT(30) DEF vars
<1> QED
  BY <1>1, <1>2, <1>3, <1>4, <1>5, <1>6, <1>7, <1>8, <1>9, <1>10, <1>11, <1>12
     DEF Next, Proceed

\* Every step keeps the lock with the one process inside.
LEMMA NextLock == TypeOK /\ LockInv /\ [Next]_vars => LockInv'
<1> SUFFICES ASSUME TypeOK, LockInv, [Next]_vars PROVE LockInv'
  OBVIOUS
<1> USE PipeAssumption, ProcessAssumption DEF TypeOK, LockInv, Inside
<1>1. ASSUME NEW p \in Procs, NEW n \in 0 .. MaxCount, WriteEnter(p, n)
      PROVE LockInv'
  BY <1>1, SMT DEF WriteEnter, Acquire, Goto
<1>2. ASSUME NEW p \in Procs, WriteAgain(p) PROVE LockInv'
  BY <1>2, SMT DEF WriteAgain, Acquire, Awake, Goto
<1>3. ASSUME NEW p \in Procs, NEW v \in Bytes, WriteByte(p, v)
      PROVE LockInv'
  BY <1>3, SMT DEF WriteByte
<1>4. ASSUME NEW p \in Procs, WriteFull(p) PROVE LockInv'
  BY <1>4, SMT DEF WriteFull, Leave, Goto
<1>5. ASSUME NEW p \in Procs, WriteSleep(p) PROVE LockInv'
  BY <1>5, SMT DEF WriteSleep, Goto
<1>6. ASSUME NEW p \in Procs, WriteReturn(p) PROVE LockInv'
  BY <1>6, SMT DEF WriteReturn, Leave, Goto
<1>7. ASSUME NEW p \in Procs, NEW n \in 0 .. MaxCount, ReadEnter(p, n)
      PROVE LockInv'
  BY <1>7, SMT DEF ReadEnter, Acquire, Goto
<1>8. ASSUME NEW p \in Procs, ReadAgain(p) PROVE LockInv'
  BY <1>8, SMT DEF ReadAgain, Acquire, Awake, Goto
<1>9. ASSUME NEW p \in Procs, ReadTest(p) PROVE LockInv'
  BY <1>9, SMT DEF ReadTest, Leave, Goto
<1>10. ASSUME NEW p \in Procs, ReadSleep(p) PROVE LockInv'
  BY <1>10, SMT DEF ReadSleep, Goto
<1>11. ASSUME NEW p \in Procs, ReadByte(p) PROVE LockInv'
  BY <1>11, SMT DEF ReadByte
<1>12. ASSUME NEW p \in Procs, ReadReturn(p) PROVE LockInv'
  BY <1>12, SMT DEF ReadReturn, Leave, Goto
<1>13. ASSUME NEW p \in Procs, CloseWrite(p) PROVE LockInv'
  BY <1>13, SMT DEF CloseWrite, Goto
<1>14. ASSUME NEW p \in Procs, CloseRead(p) PROVE LockInv'
  BY <1>14, SMT DEF CloseRead, Goto
<1>17. ASSUME NEW p \in Procs, PipecloseWrite(p) PROVE LockInv'
  BY <1>17, SMT DEF PipecloseWrite, Goto
<1>18. ASSUME NEW p \in Procs, PipecloseRead(p) PROVE LockInv'
  BY <1>18, SMT DEF PipecloseRead, Goto
<1>15. ASSUME NEW p \in Procs, Kill(p) PROVE LockInv'
  BY <1>15, SMT DEF Kill
<1>16. CASE UNCHANGED vars
  BY <1>16, SMTT(30) DEF vars
<1> QED
  BY <1>1, <1>2, <1>3, <1>4, <1>5, <1>6, <1>7, <1>8,
     <1>9, <1>10, <1>11, <1>12, <1>13, <1>14, <1>15, <1>16, <1>17, <1>18
     DEF Next, Proceed

\* Every step keeps the ends and their descriptors in accord.
LEMMA NextEnds == TypeOK /\ LockInv /\ EndInv /\ [Next]_vars => EndInv'
<1> SUFFICES ASSUME TypeOK, LockInv, EndInv, [Next]_vars PROVE EndInv'
  OBVIOUS
<1> USE PipeAssumption, ProcessAssumption DEF TypeOK, LockInv, EndInv, Inside, Writing, Reading,
       ends
<1>1. ASSUME NEW p \in Procs, NEW n \in 0 .. MaxCount, WriteEnter(p, n)
      PROVE EndInv'
  BY <1>1, SMT DEF WriteEnter, Acquire, Goto
<1>2. ASSUME NEW p \in Procs, WriteAgain(p) PROVE EndInv'
  BY <1>2, SMT DEF WriteAgain, Acquire, Awake, Goto
<1>3. ASSUME NEW p \in Procs, NEW v \in Bytes, WriteByte(p, v)
      PROVE EndInv'
  BY <1>3, SMT DEF WriteByte
<1>4. ASSUME NEW p \in Procs, WriteFull(p) PROVE EndInv'
  BY <1>4, SMT DEF WriteFull, Leave, Goto
<1>5. ASSUME NEW p \in Procs, WriteSleep(p) PROVE EndInv'
  BY <1>5, SMT DEF WriteSleep, Goto
<1>6. ASSUME NEW p \in Procs, WriteReturn(p) PROVE EndInv'
  BY <1>6, SMT DEF WriteReturn, Leave, Goto
<1>7. ASSUME NEW p \in Procs, NEW n \in 0 .. MaxCount, ReadEnter(p, n)
      PROVE EndInv'
  BY <1>7, SMT DEF ReadEnter, Acquire, Goto
<1>8. ASSUME NEW p \in Procs, ReadAgain(p) PROVE EndInv'
  BY <1>8, SMT DEF ReadAgain, Acquire, Awake, Goto
<1>9. ASSUME NEW p \in Procs, ReadTest(p) PROVE EndInv'
  BY <1>9, SMT DEF ReadTest, Leave, Goto
<1>10. ASSUME NEW p \in Procs, ReadSleep(p) PROVE EndInv'
  BY <1>10, SMT DEF ReadSleep, Goto
<1>11. ASSUME NEW p \in Procs, ReadByte(p) PROVE EndInv'
  BY <1>11, SMT DEF ReadByte
<1>12. ASSUME NEW p \in Procs, ReadReturn(p) PROVE EndInv'
  BY <1>12, SMT DEF ReadReturn, Leave, Goto
<1>13. ASSUME NEW p \in Procs, CloseWrite(p) PROVE EndInv'
  BY <1>13, SMT DEF CloseWrite, Goto
<1>14. ASSUME NEW p \in Procs, CloseRead(p) PROVE EndInv'
  BY <1>14, SMT DEF CloseRead, Goto
<1>17. ASSUME NEW p \in Procs, PipecloseWrite(p) PROVE EndInv'
  BY <1>17, SMT DEF PipecloseWrite, Goto
<1>18. ASSUME NEW p \in Procs, PipecloseRead(p) PROVE EndInv'
  BY <1>18, SMT DEF PipecloseRead, Goto
<1>15. ASSUME NEW p \in Procs, Kill(p) PROVE EndInv'
  BY <1>15, SMT DEF Kill
<1>16. CASE UNCHANGED vars
  BY <1>16, SMTT(30) DEF vars
<1> QED
  BY <1>1, <1>2, <1>3, <1>4, <1>5, <1>6, <1>7, <1>8,
     <1>9, <1>10, <1>11, <1>12, <1>13, <1>14, <1>15, <1>16, <1>17, <1>18
     DEF Next, Proceed

\* No step leaves a writer asleep that nobody will wake.
LEMMA NextWriters == TypeOK /\ LockInv /\ WriterInv /\ [Next]_vars => WriterInv'
<1> SUFFICES ASSUME TypeOK, LockInv, WriterInv, [Next]_vars PROVE WriterInv'
  OBVIOUS
<1> USE PipeAssumption, ProcessAssumption DEF TypeOK, LockInv, WriterInv, Inside, ends
<1>0. UNCHANGED <<nread, nwrite>> => Full' = Full
  BY DEF Full
<1>1. ASSUME NEW p \in Procs, NEW n \in 0 .. MaxCount, WriteEnter(p, n)
      PROVE WriterInv'
  BY <1>1, <1>0, SMT DEF WriteEnter, Acquire, Goto
<1>2. ASSUME NEW p \in Procs, WriteAgain(p) PROVE WriterInv'
  BY <1>2, <1>0, SMT DEF WriteAgain, Acquire, Awake, Goto
<1>3. ASSUME NEW p \in Procs, NEW v \in Bytes, WriteByte(p, v)
      PROVE WriterInv'
  BY <1>3, <1>0, SMT DEF WriteByte
<1>4. ASSUME NEW p \in Procs, WriteFull(p) PROVE WriterInv'
  BY <1>4, <1>0, SMT DEF WriteFull, Leave, Goto
<1>5. ASSUME NEW p \in Procs, WriteSleep(p) PROVE WriterInv'
  BY <1>5, <1>0, SMT DEF WriteSleep, Goto
<1>6. ASSUME NEW p \in Procs, WriteReturn(p) PROVE WriterInv'
  BY <1>6, <1>0, SMT DEF WriteReturn, Leave, Goto
<1>7. ASSUME NEW p \in Procs, NEW n \in 0 .. MaxCount, ReadEnter(p, n)
      PROVE WriterInv'
  BY <1>7, <1>0, SMT DEF ReadEnter, Acquire, Goto
<1>8. ASSUME NEW p \in Procs, ReadAgain(p) PROVE WriterInv'
  BY <1>8, <1>0, SMT DEF ReadAgain, Acquire, Awake, Goto
<1>9. ASSUME NEW p \in Procs, ReadTest(p) PROVE WriterInv'
  BY <1>9, <1>0, SMT DEF ReadTest, Leave, Goto
<1>10. ASSUME NEW p \in Procs, ReadSleep(p) PROVE WriterInv'
  BY <1>10, <1>0, SMT DEF ReadSleep, Goto
<1>11. ASSUME NEW p \in Procs, ReadByte(p) PROVE WriterInv'
  BY <1>11, <1>0, SMT DEF ReadByte
<1>12. ASSUME NEW p \in Procs, ReadReturn(p) PROVE WriterInv'
  BY <1>12, <1>0, SMT DEF ReadReturn, Leave, Goto
<1>13. ASSUME NEW p \in Procs, CloseWrite(p) PROVE WriterInv'
  BY <1>13, <1>0, SMT DEF CloseWrite, Goto
<1>14. ASSUME NEW p \in Procs, CloseRead(p) PROVE WriterInv'
  BY <1>14, <1>0, SMT DEF CloseRead, Goto
<1>17. ASSUME NEW p \in Procs, PipecloseWrite(p) PROVE WriterInv'
  BY <1>17, <1>0, SMT DEF PipecloseWrite, Goto
<1>18. ASSUME NEW p \in Procs, PipecloseRead(p) PROVE WriterInv'
  BY <1>18, <1>0, SMT DEF PipecloseRead, Goto
<1>15. ASSUME NEW p \in Procs, Kill(p) PROVE WriterInv'
  BY <1>15, <1>0, SMT DEF Kill
<1>16. CASE UNCHANGED vars
  BY <1>16, <1>0, SMTT(30) DEF vars
<1> QED
  BY <1>1, <1>2, <1>3, <1>4, <1>5, <1>6, <1>7, <1>8,
     <1>9, <1>10, <1>11, <1>12, <1>13, <1>14, <1>15, <1>16, <1>17, <1>18
     DEF Next, Proceed

\* No step leaves a reader asleep that nobody will wake, if nobody is killed.
LEMMA NextReaders ==
  TypeOK /\ LockInv /\ EndInv /\ ReaderInv /\ [Next]_vars => ReaderInv'
<1> SUFFICES ASSUME TypeOK, LockInv, EndInv, ReaderInv, [Next]_vars
             PROVE ReaderInv'
  OBVIOUS
<1> USE PipeAssumption, ProcessAssumption DEF TypeOK, LockInv, ReaderInv, Inside, Empty, ends
<1>1. ASSUME NEW p \in Procs, NEW n \in 0 .. MaxCount, WriteEnter(p, n)
      PROVE ReaderInv'
  BY <1>1, SMT DEF WriteEnter, Acquire, Goto
<1>2. ASSUME NEW p \in Procs, WriteAgain(p) PROVE ReaderInv'
  BY <1>2, SMT DEF WriteAgain, Acquire, Awake, Goto
<1>3. ASSUME NEW p \in Procs, NEW v \in Bytes, WriteByte(p, v)
      PROVE ReaderInv'
  BY <1>3, SMT DEF WriteByte
<1>4. ASSUME NEW p \in Procs, WriteFull(p) PROVE ReaderInv'
  <2>1. sleepR # {} => readopen
    BY SMT DEF EndInv, Reading
  <2>2. CASE ~readopen \/ p \in killed
    BY <1>4, <2>1, <2>2, SMT DEF WriteFull, Leave, Goto
  <2>3. CASE readopen /\ p \notin killed
    BY <1>4, <2>3, SMT DEF WriteFull, Goto
  <2> QED BY <2>2, <2>3
<1>5. ASSUME NEW p \in Procs, WriteSleep(p) PROVE ReaderInv'
  BY <1>5, SMT DEF WriteSleep, Goto
<1>6. ASSUME NEW p \in Procs, WriteReturn(p) PROVE ReaderInv'
  BY <1>6, SMT DEF WriteReturn, Leave, Goto
<1>7. ASSUME NEW p \in Procs, NEW n \in 0 .. MaxCount, ReadEnter(p, n)
      PROVE ReaderInv'
  BY <1>7, SMT DEF ReadEnter, Acquire, Goto
<1>8. ASSUME NEW p \in Procs, ReadAgain(p) PROVE ReaderInv'
  BY <1>8, SMT DEF ReadAgain, Acquire, Awake, Goto
<1>9. ASSUME NEW p \in Procs, ReadTest(p) PROVE ReaderInv'
  BY <1>9, SMT DEF ReadTest, Leave, Goto
<1>10. ASSUME NEW p \in Procs, ReadSleep(p) PROVE ReaderInv'
  BY <1>10, SMT DEF ReadSleep, Goto
<1>11. ASSUME NEW p \in Procs, ReadByte(p) PROVE ReaderInv'
  BY <1>11, SMT DEF ReadByte
<1>12. ASSUME NEW p \in Procs, ReadReturn(p) PROVE ReaderInv'
  BY <1>12, SMT DEF ReadReturn, Leave, Goto
<1>13. ASSUME NEW p \in Procs, CloseWrite(p) PROVE ReaderInv'
  BY <1>13, SMT DEF CloseWrite, Goto
<1>14. ASSUME NEW p \in Procs, CloseRead(p) PROVE ReaderInv'
  BY <1>14, SMT DEF CloseRead, Goto
<1>17. ASSUME NEW p \in Procs, PipecloseWrite(p) PROVE ReaderInv'
  BY <1>17, SMT DEF PipecloseWrite, Goto
<1>18. ASSUME NEW p \in Procs, PipecloseRead(p) PROVE ReaderInv'
  BY <1>18, SMT DEF PipecloseRead, Goto
<1>15. ASSUME NEW p \in Procs, Kill(p) PROVE ReaderInv'
  BY <1>15, SMT DEF Kill
<1>16. CASE UNCHANGED vars
  BY <1>16, SMT DEF vars
<1> QED
  BY <1>1, <1>2, <1>3, <1>4, <1>5, <1>6, <1>7, <1>8,
     <1>9, <1>10, <1>11, <1>12, <1>13, <1>14, <1>15, <1>16, <1>17, <1>18
     DEF Next, Proceed

\* The inductive invariant holds in every reachable state.
THEOREM Invariance == Spec => []IInv
<1>1. IInv /\ [Next]_vars => IInv'
  BY NextTypes, NextLock, NextEnds, NextWriters, NextReaders DEF IInv
<1> QED BY InitInv, <1>1, PTL DEF Spec

\* Types, for any number of processes and any sizes (struct pipe).
THEOREM TypeCorrect == Spec => []TypeOK
<1>1. IInv => TypeOK
  BY DEF IInv
<1> QED BY Invariance, <1>1, PTL

\* With the lock free, a writer asleep in pipewrite finds the pipe full and its
\* reader there (pipe.c:68, 85-91, 118).
THEOREM WriterSleeps == Spec => []WritersMustWait
<1>1. IInv => WritersMustWait
  BY DEF IInv, WriterInv, WritersMustWait
<1> QED BY Invariance, <1>1, PTL

\* With the lock free and nobody killed, a reader asleep in piperead finds the
\* pipe empty and its writer there (pipe.c:65, 90, 95, 106-111).
THEOREM ReaderSleeps == Spec => []UnkilledReadersMustWait
<1>1. IInv => UnkilledReadersMustWait
  BY DEF IInv, ReaderInv, UnkilledReadersMustWait, ReadersMustWait
<1> QED BY Invariance, <1>1, PTL

\* pipeclose frees the page once, after the last descriptor of either end is
\* gone and with nobody in a call on the pipe (pipe.c:70-74).
THEOREM PageFreedLast == Spec => []FreedLast
<1>1. IInv => FreedLast
  BY SMT DEF IInv, TypeOK, EndInv, FreedLast, Writing, Reading
<1> QED BY Invariance, <1>1, PTL

-----------------------------------------------------------------------------
(* Remainders                                                              *)

\* A nonzero multiple is at least the modulus away from zero.
LEMMA Product ==
  ASSUME NEW m \in Nat \ {0}, NEW q \in Int
  PROVE  (q >= 1 => m * q >= m) /\ (q <= -1 => m * q <= -m)
OBVIOUS

\* What % and \div are for any modulus.
LEMMA Remainder ==
  ASSUME NEW m \in Nat \ {0}, NEW a \in Int
  PROVE  /\ a % m \in 0 .. m - 1
         /\ a = m * (a \div m) + (a % m)
         /\ a \div m \in Int
OBVIOUS

\* There is one remainder only.
LEMMA RemainderUnique ==
  ASSUME NEW m \in Nat \ {0}, NEW q \in Int, NEW r \in 0 .. m - 1
  PROVE  (m * q + r) % m = r
<1> DEFINE a == m * q + r
<1>1. a \in Int
  OBVIOUS
<1> DEFINE p == a \div m
           s == a % m
<1>2. s \in 0 .. m - 1 /\ a = m * p + s /\ p \in Int
  BY <1>1, Remainder
<1> HIDE DEF p, s
<1>3. m * (p - q) = r - s
  BY <1>2
<1>4. p - q = 0
  BY <1>2, <1>3, Product
<1> QED BY <1>2, <1>3, <1>4 DEF s

\* A number within one modulus of the range is reduced by one addition or
\* subtraction.
LEMMA Reduced ==
  ASSUME NEW m \in Nat \ {0}, NEW a \in Int, -m <= a, a < m + m
  PROVE  a % m = IF a < 0 THEN a + m ELSE IF a < m THEN a ELSE a - m
<1>1. CASE a < 0
  <2>1. (m * (-1) + (a + m)) % m = a + m
    BY <1>1, RemainderUnique
  <2> QED BY <1>1, <2>1
<1>2. CASE 0 <= a /\ a < m
  <2>1. (m * 0 + a) % m = a
    BY <1>2, RemainderUnique
  <2> QED BY <1>2, <2>1
<1>3. CASE m <= a
  <2>1. (m * 1 + (a - m)) % m = a - m
    BY <1>3, RemainderUnique
  <2> QED BY <1>3, <2>1
<1> QED BY <1>1, <1>2, <1>3

\* The same for the counters of the pipe.
LEMMA Wrapped ==
  ASSUME NEW a \in Int, -UintMod <= a, a < UintMod + UintMod
  PROVE  a % UintMod = IF a < 0 THEN a + UintMod
                       ELSE IF a < UintMod THEN a ELSE a - UintMod
<1>1. UintMod \in Nat \ {0}
  BY PipeAssumption, ProcessAssumption
<1> QED BY <1>1, Reduced

\* Wrapping a counter does not move its slot: 2^32 is a multiple of PIPESIZE.
LEMMA WrapKeepsSlot ==
  ASSUME NEW a \in Nat
  PROVE  (a % UintMod) % PIPESIZE = a % PIPESIZE
<1> DEFINE k == UintMod \div PIPESIZE
           w == a \div UintMod
           b == a % UintMod
           c == b \div PIPESIZE
           r == b % PIPESIZE
<1>1. UintMod = PIPESIZE * k /\ k \in Int
  BY PipeAssumption, ProcessAssumption, Remainder
<1>2. a = UintMod * w + b /\ w \in Int /\ b \in 0 .. UintMod - 1
  BY PipeAssumption, ProcessAssumption, Remainder
<1>3. b = PIPESIZE * c + r /\ c \in Int /\ r \in 0 .. PIPESIZE - 1
  BY <1>2, PipeAssumption, ProcessAssumption, Remainder
<1> HIDE DEF k, w, b, c, r
<1>4. a = PIPESIZE * (k * w + c) + r
  BY <1>1, <1>2, <1>3, PipeAssumption, ProcessAssumption
<1>5. a % PIPESIZE = r
  BY <1>1, <1>2, <1>3, <1>4, RemainderUnique, PipeAssumption, ProcessAssumption
<1> QED BY <1>5 DEF r, b

\* Fewer than PIPESIZE bytes apart, two positions have different slots.
LEMMA SlotsApart ==
  ASSUME NEW a \in Nat, NEW j \in 1 .. PIPESIZE - 1
  PROVE  (a + j) % PIPESIZE # a % PIPESIZE
<1> DEFINE p == a \div PIPESIZE
           q == (a + j) \div PIPESIZE
           r == a % PIPESIZE
           s == (a + j) % PIPESIZE
<1>1. a = PIPESIZE * p + r /\ p \in Int /\ r \in 0 .. PIPESIZE - 1
  BY PipeAssumption, ProcessAssumption, Remainder
<1>2. a + j = PIPESIZE * q + s /\ q \in Int /\ s \in 0 .. PIPESIZE - 1
  <2>1. a + j \in Int
    BY PipeAssumption, ProcessAssumption
  <2> QED BY <2>1, PipeAssumption, ProcessAssumption, Remainder
<1> HIDE DEF p, q, r, s
<1>3. ASSUME r = s PROVE FALSE
  <2>1. PIPESIZE * (q - p) = j
    BY <1>1, <1>2, <1>3, PipeAssumption, ProcessAssumption
  <2> QED BY <1>1, <1>2, <2>1, Product, PipeAssumption, ProcessAssumption
<1> QED BY <1>3 DEF r, s

-----------------------------------------------------------------------------
(* The ring is a first-in first-out channel                                *)

\* The bytes in the pipe, by the counters.
Used == (nwrite - nread) % UintMod

\* There are never more of them than the array has room for.
RingInv == Used <= PIPESIZE

\* The counters of a state of the right types: what Full and Empty test, and
\* where the next byte goes.
LEMMA Counters ==
  ASSUME TypeOK
  PROVE  /\ Used \in Nat
         /\ Used = IF nwrite < nread THEN nwrite - nread + UintMod ELSE nwrite - nread
         /\ Full <=> Used = PIPESIZE
         /\ Empty <=> Used = 0
         /\ nwrite % PIPESIZE = (nread + Used) % PIPESIZE
<1>1. UintMod \in Nat /\ UintMod > PIPESIZE /\ PIPESIZE \in Nat \ {0}
  BY PipeAssumption, ProcessAssumption
<1>2. nread \in 0 .. UintMod - 1 /\ nwrite \in 0 .. UintMod - 1
  BY DEF TypeOK
<1>3. Used = IF nwrite < nread THEN nwrite - nread + UintMod ELSE nwrite - nread
  <2> DEFINE a == nwrite - nread
  <2>1. a \in Int /\ -UintMod <= a /\ a < UintMod
    BY <1>1, <1>2
  <2>2. a % UintMod = IF a < 0 THEN a + UintMod
                      ELSE IF a < UintMod THEN a ELSE a - UintMod
    <3> HIDE DEF a
    <3> QED BY <1>1, <2>1, Wrapped
  <2> QED BY <1>1, <1>2, <2>2 DEF Used
<1>4. (nread + PIPESIZE) % UintMod
        = IF nread + PIPESIZE < UintMod THEN nread + PIPESIZE
          ELSE nread + PIPESIZE - UintMod
  <2> DEFINE a == nread + PIPESIZE
  <2>1. a \in Int /\ 0 <= a /\ a < UintMod + UintMod
    BY <1>1, <1>2
  <2> HIDE DEF a
  <2>2. a % UintMod = IF a < UintMod THEN a ELSE a - UintMod
    BY <1>1, <2>1, Wrapped
  <2> QED BY <1>1, <1>2, <2>2 DEF a
<1>5. (nread + Used) % UintMod = nwrite
  <2> DEFINE a == nread + Used
  <2>1. a \in Int /\ 0 <= a /\ a < UintMod + UintMod
    BY <1>1, <1>2, <1>3
  <2> HIDE DEF a
  <2>2. a % UintMod = IF a < UintMod THEN a ELSE a - UintMod
    BY <1>1, <2>1, Wrapped
  <2> QED BY <1>1, <1>2, <1>3, <2>2 DEF a
<1>6. Used \in Nat
  BY <1>1, <1>2, <1>3
<1>7. nread + Used \in Nat
  BY <1>2, <1>6, <1>1
<1>8. nwrite % PIPESIZE = (nread + Used) % PIPESIZE
  BY <1>5, <1>7, WrapKeepsSlot
<1>9. (Full <=> Used = PIPESIZE) /\ (Empty <=> Used = 0)
  BY <1>1, <1>2, <1>3, <1>4 DEF Full, Empty
<1> QED BY <1>3, <1>6, <1>8, <1>9

\* The difference of the counters, and the bytes it stands for.
UsedIs ==
  Used = IF nwrite < nread THEN nwrite - nread + UintMod ELSE nwrite - nread

QueueIs ==
  /\ Queue \in Seq(Bytes)
  /\ Len(Queue) = Used
  /\ \A i \in 1 .. Used : Queue[i] = data[(nread + i - 1) % PIPESIZE]

\* A counter is counted up.
LEMMA Increment ==
  ASSUME NEW n \in 0 .. UintMod - 1
  PROVE  (n + 1) % UintMod = IF n + 1 = UintMod THEN 0 ELSE n + 1
<1> DEFINE a == n + 1
<1>1. a \in Int /\ 0 <= a /\ a < UintMod + UintMod /\ UintMod \in Nat
  BY PipeAssumption, ProcessAssumption
<1> HIDE DEF a
<1>2. a % UintMod = IF a < UintMod THEN a ELSE a - UintMod
  BY <1>1, Wrapped
<1> QED BY <1>1, <1>2, PipeAssumption, ProcessAssumption DEF a

\* The queue is a sequence of bytes.
LEMMA QueueIsSeq ==
  ASSUME TypeOK
  PROVE  QueueIs
<1>1. Used \in Nat
  BY Counters
<1>2. ASSUME NEW i \in 1 .. Used PROVE data[(nread + i - 1) % PIPESIZE] \in Bytes
  <2>1. nread + i - 1 \in Nat
    BY <1>1, PipeAssumption, ProcessAssumption DEF TypeOK
  <2>2. (nread + i - 1) % PIPESIZE \in Slots
    BY <2>1, Ranges
  <2> QED BY <2>2 DEF TypeOK
<1>3. Queue = [i \in 1 .. Used |-> data[(nread + i - 1) % PIPESIZE]]
  BY DEF Queue, Used
<1>4. Queue \in [1 .. Used -> Bytes]
  BY <1>2, <1>3, Zenon
<1>5. \A i \in 1 .. Used : Queue[i] = data[(nread + i - 1) % PIPESIZE]
  BY <1>3, Zenon
<1> HIDE DEF Queue, Used
<1>6. Queue \in Seq(Bytes) /\ Len(Queue) = Used
  BY <1>1, <1>4
<1> QED BY <1>5, <1>6 DEF QueueIs

\* Both hold in the state after a step too.
LEMMA RingNext == TypeOK' => UsedIs' /\ QueueIs'
<1>1. TypeOK => UsedIs /\ QueueIs
  BY Counters, QueueIsSeq DEF UsedIs
<1> QED BY <1>1, PTL

\* Sequences are equal when their items are.
LEMMA AppendIs ==
  ASSUME NEW S, NEW s \in Seq(S), NEW t \in Seq(S), NEW v \in S,
         Len(t) = Len(s) + 1, t[Len(s) + 1] = v, \A i \in 1 .. Len(s) : t[i] = s[i]
  PROVE  t = Append(s, v)
OBVIOUS

LEMMA TailIs ==
  ASSUME NEW S, NEW s \in Seq(S), NEW t \in Seq(S), Len(s) = Len(t) + 1,
         \A i \in 1 .. Len(t) : t[i] = s[i + 1]
  PROVE  s # <<>> /\ t = Tail(s)
OBVIOUS

\* pipewrite puts a byte behind the others.
LEMMA WriteByteAppends ==
  ASSUME TypeOK, TypeOK', RingInv, NEW p \in Procs, NEW v \in Bytes, WriteByte(p, v)
  PROVE  RingInv' /\ Channel!Put(v)
<1>1. Used \in Nat /\ Used < PIPESIZE /\ PIPESIZE \in Nat /\ nread \in Nat
  <2>1. ~Full
    BY DEF WriteByte
  <2> QED BY <2>1, Counters, PipeAssumption, ProcessAssumption DEF RingInv, TypeOK
<1>2. nread' = nread /\ nwrite' = (nwrite + 1) % UintMod
  BY DEF WriteByte
<1>3. data' = [data EXCEPT ![nwrite % PIPESIZE] = v]
  BY DEF WriteByte
<1>4. Used' = Used + 1
  <2>1. nread \in 0 .. UintMod - 1 /\ nwrite \in 0 .. UintMod - 1 /\ UintMod \in Nat
    BY PipeAssumption, ProcessAssumption DEF TypeOK
  <2>2. nwrite' = IF nwrite + 1 = UintMod THEN 0 ELSE nwrite + 1
    BY <1>2, <2>1, Increment
  <2>3. Used = IF nwrite < nread THEN nwrite - nread + UintMod ELSE nwrite - nread
    BY Counters
  <2>4. Used' = IF nwrite' < nread' THEN nwrite' - nread' + UintMod
                ELSE nwrite' - nread'
    BY RingNext DEF UsedIs
  <2>5. UintMod > PIPESIZE
    BY PipeAssumption, ProcessAssumption
  <2> QED BY <1>1, <1>2, <2>1, <2>2, <2>3, <2>4, <2>5
<1>5. /\ Queue \in Seq(Bytes) /\ Len(Queue) = Used
      /\ \A i \in 1 .. Used : Queue[i] = data[(nread + i - 1) % PIPESIZE]
  BY QueueIsSeq DEF QueueIs
<1>6. /\ Queue' \in Seq(Bytes) /\ Len(Queue') = Used + 1
      /\ \A i \in 1 .. Used + 1 : Queue'[i] = data'[(nread + i - 1) % PIPESIZE]
  BY <1>2, <1>4, RingNext DEF QueueIs
<1>7. nwrite % PIPESIZE = (nread + Used) % PIPESIZE
  BY Counters
<1>8. \A i \in 1 .. Used : Queue'[i] = Queue[i]
  <2> SUFFICES ASSUME NEW i \in 1 .. Used PROVE Queue'[i] = Queue[i]
    OBVIOUS
  <2> DEFINE a == nread + i - 1
             j == Used - i + 1
  <2>1. a \in Nat /\ j \in 1 .. PIPESIZE - 1 /\ a + j = nread + Used
    BY <1>1
  <2>2. (a + j) % PIPESIZE # a % PIPESIZE
    <3> HIDE DEF a, j
    <3> QED BY <2>1, SlotsApart
  <2>3. a % PIPESIZE \in Slots
    BY <2>1, Ranges
  <2>4. a % PIPESIZE # nwrite % PIPESIZE
    BY <1>7, <2>1, <2>2
  <2>5. data'[a % PIPESIZE] = data[a % PIPESIZE]
    <3> HIDE DEF a
    <3> QED BY <1>3, <2>3, <2>4 DEF TypeOK
  <2> QED BY <1>1, <1>5, <1>6, <2>5
<1>9. Queue'[Used + 1] = v
  <2>1. nwrite % PIPESIZE \in Slots
    <3>1. nwrite \in Nat
      BY PipeAssumption, ProcessAssumption DEF TypeOK
    <3> QED BY <3>1, Ranges
  <2>2. data'[nwrite % PIPESIZE] = v
    BY <1>3, <2>1 DEF TypeOK
  <2>3. nread + (Used + 1) - 1 = nread + Used
    BY <1>1
  <2> QED BY <1>1, <1>6, <1>7, <2>2, <2>3
<1>10. Queue' = Append(Queue, v)
  <2> HIDE DEF Queue
  <2> QED BY <1>1, <1>5, <1>6, <1>8, <1>9, AppendIs
<1> QED BY <1>1, <1>4, <1>5, <1>10 DEF RingInv, Channel!Put

\* piperead takes the first byte.
LEMMA ReadByteTakes ==
  ASSUME TypeOK, TypeOK', RingInv, NEW p \in Procs, ReadByte(p)
  PROVE  RingInv' /\ Channel!Get
<1>1. Used \in Nat /\ Used > 0 /\ PIPESIZE \in Nat /\ nread \in Nat
  <2>1. ~Empty
    BY DEF ReadByte
  <2> QED BY <2>1, Counters, PipeAssumption, ProcessAssumption DEF TypeOK
<1>2. nwrite' = nwrite /\ data' = data /\ nread' = (nread + 1) % UintMod
  BY DEF ReadByte
<1>3. nread \in 0 .. UintMod - 1 /\ nwrite \in 0 .. UintMod - 1 /\ UintMod \in Nat
  BY PipeAssumption, ProcessAssumption DEF TypeOK
<1>4. nread' = IF nread + 1 = UintMod THEN 0 ELSE nread + 1
  BY <1>2, <1>3, Increment
<1>5. Used' = Used - 1
  <2>1. Used = IF nwrite < nread THEN nwrite - nread + UintMod ELSE nwrite - nread
    BY Counters
  <2>2. Used' = IF nwrite' < nread' THEN nwrite' - nread' + UintMod
                ELSE nwrite' - nread'
    BY RingNext DEF UsedIs
  <2> QED BY <1>1, <1>2, <1>3, <1>4, <2>1, <2>2
<1>6. /\ Queue \in Seq(Bytes) /\ Len(Queue) = Used
      /\ \A i \in 1 .. Used : Queue[i] = data[(nread + i - 1) % PIPESIZE]
  BY QueueIsSeq DEF QueueIs
<1>7. /\ Queue' \in Seq(Bytes) /\ Len(Queue') = Used - 1
      /\ \A i \in 1 .. Used - 1 : Queue'[i] = data[(nread' + i - 1) % PIPESIZE]
  BY <1>2, <1>5, RingNext DEF QueueIs
<1>8. \A i \in 1 .. Used - 1 : Queue'[i] = Queue[i + 1]
  <2> SUFFICES ASSUME NEW i \in 1 .. Used - 1 PROVE Queue'[i] = Queue[i + 1]
    OBVIOUS
  <2>1. Queue[i + 1] = data[(nread + i) % PIPESIZE]
    <3>1. i + 1 \in 1 .. Used /\ nread + (i + 1) - 1 = nread + i
      BY <1>1
    <3> QED BY <1>6, <3>1
  <2>2. (nread' + i - 1) % PIPESIZE = (nread + i) % PIPESIZE
    <3>1. CASE nread + 1 # UintMod
      <4>1. nread' + i - 1 = nread + i
        BY <1>1, <1>3, <1>4, <3>1
      <4> QED BY <4>1
    <3>2. CASE nread + 1 = UintMod
      <4>1. Used < UintMod + 1
        BY <1>1, PipeAssumption, ProcessAssumption DEF RingInv
      <4>2. nread' + i - 1 = i - 1 /\ nread + i = UintMod + (i - 1) /\ i - 1 \in 0 .. UintMod - 1
        BY <1>1, <1>3, <1>4, <3>2, <4>1
      <4> DEFINE a == UintMod + (i - 1)
      <4>3. a \in Nat /\ UintMod <= a /\ a < UintMod + UintMod /\ a - UintMod = i - 1
        BY <1>3, <4>2
      <4> HIDE DEF a
      <4>4. a % UintMod = i - 1
        BY <1>3, <4>3, Wrapped
      <4>5. (i - 1) % PIPESIZE = a % PIPESIZE
        BY <4>3, <4>4, WrapKeepsSlot
      <4> QED BY <4>2, <4>5 DEF a
    <3> QED BY <3>1, <3>2
  <2> QED BY <1>7, <2>1, <2>2
<1>9. Queue # <<>> /\ Queue' = Tail(Queue)
  <2> HIDE DEF Queue
  <2> QED BY <1>1, <1>6, <1>7, <1>8, TailIs
<1> QED BY <1>1, <1>5, <1>9, PipeAssumption, ProcessAssumption DEF RingInv, Channel!Get

\* No other step changes the ring.
LEMMA OnlyTheseMove ==
  ASSUME Next
  PROVE  \/ \E p \in Procs : \E v \in Bytes : WriteByte(p, v)
         \/ \E p \in Procs : ReadByte(p)
         \/ UNCHANGED <<data, nread, nwrite>>
<1> SUFFICES ASSUME NEW p \in Procs,
                    \/ \E n \in 0 .. MaxCount : WriteEnter(p, n) \/ ReadEnter(p, n)
                    \/ WriteAgain(p) \/ WriteFull(p) \/ WriteSleep(p) \/ WriteReturn(p)
                    \/ ReadAgain(p) \/ ReadTest(p) \/ ReadSleep(p) \/ ReadReturn(p)
                    \/ CloseWrite(p) \/ CloseRead(p) \/ PipecloseWrite(p) \/ PipecloseRead(p)
                    \/ Kill(p)
             PROVE  UNCHANGED <<data, nread, nwrite>>
  BY DEF Next, Proceed
<1> QED
  BY DEF WriteEnter, ReadEnter, WriteAgain, WriteFull, WriteSleep, WriteReturn,
     ReadAgain, ReadTest, ReadSleep, ReadReturn, CloseWrite, CloseRead,
     PipecloseWrite, PipecloseRead, Kill

\* A step of the pipe is a step of the channel, or none.
LEMMA RingStep ==
  ASSUME TypeOK, TypeOK', RingInv, [Next]_vars
  PROVE  RingInv' /\ [Channel!Next]_Queue
<1>1. ASSUME NEW p \in Procs, NEW v \in Bytes, WriteByte(p, v)
      PROVE  RingInv' /\ Channel!Next
  BY <1>1, WriteByteAppends DEF Channel!Next
<1>2. ASSUME NEW p \in Procs, ReadByte(p) PROVE RingInv' /\ Channel!Next
  BY <1>2, ReadByteTakes DEF Channel!Next
<1>3. CASE UNCHANGED <<data, nread, nwrite>>
  BY <1>3 DEF RingInv, Used, Queue
<1>4. CASE UNCHANGED vars
  BY <1>3, <1>4 DEF vars
<1> QED BY <1>1, <1>2, <1>3, <1>4, OnlyTheseMove

\* The pipe starts as an empty channel.
LEMMA RingInit == Init => RingInv /\ Channel!Init
<1> SUFFICES ASSUME Init PROVE RingInv /\ Channel!Init
  OBVIOUS
<1>1. TypeOK
  BY InitInv DEF IInv
<1>2. Used = 0
  BY <1>1, Counters DEF Init, Empty
<1>3. Queue \in Seq(Bytes) /\ Len(Queue) = 0
  BY <1>1, <1>2, QueueIsSeq DEF QueueIs
<1>4. Queue = <<>>
  <2> HIDE DEF Queue
  <2> QED BY <1>3
<1> QED BY <1>2, <1>4, PipeAssumption, ProcessAssumption DEF RingInv, Channel!Init

\* The ring of pipe.c, whose counters run modulo 2^32, is a first-in first-out
\* channel of PIPESIZE bytes (pipe.c:85, 93, 106, 114-116).
THEOREM RingIsChannel == Spec => ImplementsFifo
<1>1. TypeOK /\ TypeOK' /\ RingInv /\ [Next]_vars => RingInv' /\ [Channel!Next]_Queue
  BY RingStep
<1> QED
  BY RingInit, TypeCorrect, <1>1, PTL DEF Spec, ImplementsFifo, Channel!Spec

-----------------------------------------------------------------------------
(* The sleep lock                                                          *)

HasSpin == {"test", "release lk", "unlock", "wakeup", "release"}
HasPtlock == {"release lk", "go to sleep"}

\* Which program points hold which spin lock, and who owns the sleep lock.
Locks ==
  /\ \A p \in Procs : at[p] \in HasSpin <=> spin = p
  /\ \A p \in Procs : at[p] \in HasPtlock <=> ptlock = p
  /\ \A p \in Procs : Owns(p) <=> locked /\ pid = p
  /\ locked <=> pid # Nobody
  /\ \A p \in asleep : at[p] = "sleeping"

SleepInv == LockTypeOK /\ Locks /\ NoLostWakeup

\* initsleeplock establishes the invariant.
LEMMA SleepInit == LockInit => SleepInv
  BY PipeAssumption, ProcessAssumption
  DEF LockInit, SleepInv, LockTypeOK, Locks, NoLostWakeup, HasSpin, HasPtlock, Owns

\* Every step of acquiresleep, releasesleep and kill preserves it.
LEMMA SleepNext == SleepInv /\ [LockNext]_lockvars => SleepInv'
<1> SUFFICES ASSUME SleepInv, [LockNext]_lockvars PROVE SleepInv'
  OBVIOUS
<1> USE PipeAssumption, ProcessAssumption DEF SleepInv, LockTypeOK, Locks, NoLostWakeup, HasSpin,
        HasPtlock, Owns, Step
<1>1. ASSUME NEW p \in Procs, Call(p) PROVE SleepInv'
  BY <1>1 DEF Call
<1>2. ASSUME NEW p \in Procs, AcquireSpin(p) PROVE SleepInv'
  BY <1>2 DEF AcquireSpin
<1>3. ASSUME NEW p \in Procs, Take(p) PROVE SleepInv'
  BY <1>3 DEF Take
<1>4. ASSUME NEW p \in Procs, SleepAcquire(p) PROVE SleepInv'
  BY <1>4 DEF SleepAcquire
<1>5. ASSUME NEW p \in Procs, SleepRelease(p) PROVE SleepInv'
  BY <1>5 DEF SleepRelease
<1>6. ASSUME NEW p \in Procs, GoToSleep(p) PROVE SleepInv'
  BY <1>6 DEF GoToSleep
<1>7. ASSUME NEW p \in Procs, WakeUp(p) PROVE SleepInv'
  BY <1>7 DEF WakeUp
<1>8. ASSUME NEW p \in Procs, ReleaseAcquire(p) PROVE SleepInv'
  BY <1>8 DEF ReleaseAcquire
<1>9. ASSUME NEW p \in Procs, Unlock(p) PROVE SleepInv'
  BY <1>9 DEF Unlock
<1>10. ASSUME NEW p \in Procs, Wakeup(p) PROVE SleepInv'
  BY ZenonT(60), <1>10 DEF Wakeup
<1>11. ASSUME NEW p \in Procs, ReleaseSpin(p) PROVE SleepInv'
  BY <1>11 DEF ReleaseSpin
<1>12. ASSUME NEW p \in Procs, KillSleeper(p) PROVE SleepInv'
  BY <1>12 DEF KillSleeper
<1>13. CASE UNCHANGED lockvars
  BY <1>13 DEF lockvars
<1> QED
  BY <1>1, <1>2, <1>3, <1>4, <1>5, <1>6, <1>7, <1>8, <1>9, <1>10, <1>11,
     <1>12, <1>13 DEF LockNext, Acquiring, Releasing

\* The invariant holds in every reachable state.
THEOREM SleepInvariance == LockSpec => []SleepInv
<1> QED
  BY SleepInit, SleepNext, PTL DEF LockSpec

\* acquiresleep and releasesleep exclude each other's critical sections, and
\* holdingsleep tells the holder from everybody else.
THEOREM SleeplockSafe == LockSpec => []MutualExclusion
<1>1. SleepInv => MutualExclusion
  BY DEF SleepInv, LockTypeOK, Locks, MutualExclusion, HoldingSleep, Owns
<1> QED
  BY <1>1, SleepInvariance, PTL

\* sleep() and wakeup() lose no wakeup between the test of lk->locked and the
\* moment the process sleeps.
THEOREM NoWakeupLost == LockSpec => []NoLostWakeup
<1>1. SleepInv => NoLostWakeup
  BY DEF SleepInv
<1> QED
  BY <1>1, SleepInvariance, PTL
=============================================================================
