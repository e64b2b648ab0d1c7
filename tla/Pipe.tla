-------------------------------- MODULE Pipe --------------------------------
(***************************************************************************)
(* One pipe of pipe.c, shared by the processes that have its read end or   *)
(* its write end open.  The pipe's spin lock is explicit; while a process  *)
(* holds it, each byte and each test of the two loops is a step.  sleep()  *)
(* gives up the lock and goes to sleep in one step (module Sleeplock shows *)
(* why that is sound); kill() needs ptable.lock only and so falls between  *)
(* a test of killed and the sleep that follows.                            *)
(***************************************************************************)
EXTENDS Integers, Sequences, Processes

CONSTANTS
  Bytes,
  PIPESIZE,
  UintMod,    \* 2^32 in the code: nread and nwrite are unsigned ints
  Killable,   \* the processes kill() is called for
  MaxCount    \* bound: bytes asked for in one read or write

ASSUME PipeAssumption ==
  /\ PIPESIZE \in Nat \ {0}
  /\ UintMod \in Nat /\ UintMod > PIPESIZE /\ UintMod % PIPESIZE = 0
  /\ Killable \subseteq Procs
  /\ MaxCount \in Nat \ {0}
  /\ Bytes # {}

VARIABLES
  lock,       \* p->lock
  data,       \* p->data
  nread, nwrite,
  readopen, writeopen,
  readfds,    \* processes with a descriptor of the read end
  writefds,   \* processes with a descriptor of the write end
  freed,      \* how often the pipe's page was given to kfree
  killed,     \* processes with p->killed set
  sleepR,     \* processes asleep on &p->nread
  sleepW,     \* processes asleep on &p->nwrite
  left,       \* n - i of a process in a loop
  pc

vars == <<lock, data, nread, nwrite, readopen, writeopen, readfds, writefds,
          freed, killed, sleepR, sleepW, left, pc>>
ends == <<readopen, writeopen, readfds, writefds, freed>>

Slots == 0 .. PIPESIZE - 1

\* pipealloc, the descriptors spread over the processes by fork.
Init ==
  /\ lock = Nobody
  /\ \E v \in Bytes : data = [s \in Slots |-> v]
  /\ nread = 0
  /\ nwrite = 0
  /\ readopen = TRUE
  /\ writeopen = TRUE
  /\ readfds \in (SUBSET Procs) \ {{}}
  /\ writefds \in (SUBSET Procs) \ {{}}
  /\ freed = 0
  /\ killed = {}
  /\ sleepR = {}
  /\ sleepW = {}
  /\ left = [p \in Procs |-> 0]
  /\ pc = [p \in Procs |-> "idle"]
\* Mutant of Full: off by one.
FullLate == nwrite = (nread + PIPESIZE + 1) % UintMod

Full == nwrite = (nread + PIPESIZE) % UintMod
Empty == nread = nwrite

Awake(p) == p \notin sleepR \cup sleepW
Goto(p, label) == pc' = [pc EXCEPT ![p] = label]

\* acquire(&p->lock), on entry and at the end of sleep().
Acquire(p, from, to) ==
  /\ pc[p] = from
  /\ Awake(p)
  /\ lock = Nobody
  /\ lock' = p
  /\ Goto(p, to)

\* release(&p->lock) and return.
Leave(p) ==
  /\ lock' = Nobody
  /\ left' = [left EXCEPT ![p] = 0]
  /\ Goto(p, "idle")

-----------------------------------------------------------------------------
(* pipewrite                                                               *)

WriteEnter(p, n) ==
  /\ p \in writefds
  /\ Acquire(p, "idle", "write")
  /\ left' = [left EXCEPT ![p] = n]
  /\ UNCHANGED <<data, nread, nwrite, ends, killed, sleepR, sleepW>>

WriteAgain(p) ==
  /\ Acquire(p, "write_slept", "write")
  /\ UNCHANGED <<data, nread, nwrite, ends, killed, sleepR, sleepW, left>>

WriteByte(p, v) ==
  /\ pc[p] = "write"
  /\ left[p] > 0
  /\ ~Full
  /\ data' = [data EXCEPT ![nwrite % PIPESIZE] = v]
  /\ nwrite' = (nwrite + 1) % UintMod
  /\ left' = [left EXCEPT ![p] = @ - 1]
  /\ UNCHANGED <<lock, nread, ends, killed, sleepR, sleepW, pc>>

\* The pipe is full: give up, or wake the readers and decide to sleep.
WriteFull(p) ==
  /\ pc[p] = "write"
  /\ left[p] > 0
  /\ Full
  /\ IF ~readopen \/ p \in killed
     THEN Leave(p) /\ UNCHANGED sleepR
     ELSE /\ sleepR' = {}
          /\ Goto(p, "write_sleep")
          /\ UNCHANGED <<lock, left>>
  /\ UNCHANGED <<data, nread, nwrite, ends, killed, sleepW>>

WriteSleep(p) ==
  /\ pc[p] = "write_sleep"
  /\ sleepW' = sleepW \cup {p}
  /\ lock' = Nobody
  /\ Goto(p, "write_slept")
  /\ UNCHANGED <<data, nread, nwrite, ends, killed, sleepR, left>>
\* Mutant of WriteReturn: no wakeup(&p->nread).
WriteReturnSilent(p) ==
  /\ pc[p] = "write"
  /\ left[p] = 0
  /\ Leave(p)
  /\ UNCHANGED <<data, nread, nwrite, ends, killed, sleepR, sleepW>>

WriteReturn(p) ==
  /\ pc[p] = "write"
  /\ left[p] = 0
  /\ sleepR' = {}
  /\ Leave(p)
  /\ UNCHANGED <<data, nread, nwrite, ends, killed, sleepW>>

-----------------------------------------------------------------------------
(* piperead                                                                *)

ReadEnter(p, n) ==
  /\ p \in readfds
  /\ Acquire(p, "idle", "read_test")
  /\ left' = [left EXCEPT ![p] = n]
  /\ UNCHANGED <<data, nread, nwrite, ends, killed, sleepR, sleepW>>

ReadAgain(p) ==
  /\ Acquire(p, "read_slept", "read_test")
  /\ UNCHANGED <<data, nread, nwrite, ends, killed, sleepR, sleepW, left>>

\* The loop that waits for data: give up, decide to sleep, or go on.
ReadTest(p) ==
  /\ pc[p] = "read_test"
  /\ IF Empty /\ writeopen
     THEN IF p \in killed THEN Leave(p)
          ELSE Goto(p, "read_sleep") /\ UNCHANGED <<lock, left>>
     ELSE Goto(p, "read") /\ UNCHANGED <<lock, left>>
  /\ UNCHANGED <<data, nread, nwrite, ends, killed, sleepR, sleepW>>

ReadSleep(p) ==
  /\ pc[p] = "read_sleep"
  /\ sleepR' = sleepR \cup {p}
  /\ lock' = Nobody
  /\ Goto(p, "read_slept")
  /\ UNCHANGED <<data, nread, nwrite, ends, killed, sleepW, left>>

ReadByte(p) ==
  /\ pc[p] = "read"
  /\ left[p] > 0
  /\ ~Empty
  /\ nread' = (nread + 1) % UintMod
  /\ left' = [left EXCEPT ![p] = @ - 1]
  /\ UNCHANGED <<lock, data, nwrite, ends, killed, sleepR, sleepW, pc>>
\* Mutant of ReadReturn: no wakeup(&p->nwrite).
ReadReturnSilent(p) ==
  /\ pc[p] = "read"
  /\ left[p] = 0 \/ Empty
  /\ Leave(p)
  /\ UNCHANGED <<data, nread, nwrite, ends, killed, sleepR, sleepW>>

ReadReturn(p) ==
  /\ pc[p] = "read"
  /\ left[p] = 0 \/ Empty
  /\ sleepW' = {}
  /\ Leave(p)
  /\ UNCHANGED <<data, nread, nwrite, ends, killed, sleepR>>

-----------------------------------------------------------------------------
(* fileclose, pipeclose and kill                                           *)

\* fileclose drops a descriptor under ftable.lock; whoever drops the last one of
\* an end goes on to pipeclose, which takes the pipe's lock.
CloseWrite(p) ==
  /\ p \in writefds
  /\ pc[p] = "idle"
  /\ writefds' = writefds \ {p}
  /\ Goto(p, IF writefds = {p} THEN "close_write" ELSE "idle")
  /\ UNCHANGED <<lock, data, nread, nwrite, readopen, writeopen, readfds, freed,
                 killed, sleepR, sleepW, left>>

CloseRead(p) ==
  /\ p \in readfds
  /\ pc[p] = "idle"
  /\ readfds' = readfds \ {p}
  /\ Goto(p, IF readfds = {p} THEN "close_read" ELSE "idle")
  /\ UNCHANGED <<lock, data, nread, nwrite, readopen, writeopen, writefds, freed,
                 killed, sleepR, sleepW, left>>

\* Mutant of PipecloseWrite: the page is freed whether or not a reader is left.
PipecloseWriteFrees(p) ==
  /\ pc[p] = "close_write"
  /\ lock = Nobody
  /\ writeopen' = FALSE
  /\ sleepR' = {}
  /\ freed' = freed + 1
  /\ Goto(p, "idle")
  /\ UNCHANGED <<lock, data, nread, nwrite, readopen, readfds, writefds, killed, sleepW, left>>

\* Mutant of PipecloseWrite: no wakeup(&p->nread).
PipecloseWriteSilent(p) ==
  /\ pc[p] = "close_write"
  /\ lock = Nobody
  /\ writeopen' = FALSE
  /\ freed' = IF readopen THEN freed ELSE freed + 1
  /\ Goto(p, "idle")
  /\ UNCHANGED <<lock, data, nread, nwrite, readopen, readfds, writefds, killed, sleepR, sleepW, left>>

PipecloseWrite(p) ==
  /\ pc[p] = "close_write"
  /\ lock = Nobody
  /\ writeopen' = FALSE
  /\ sleepR' = {}
  /\ freed' = IF readopen THEN freed ELSE freed + 1
  /\ Goto(p, "idle")
  /\ UNCHANGED <<lock, data, nread, nwrite, readopen, readfds, writefds, killed, sleepW, left>>

\* Mutant of PipecloseRead: no wakeup(&p->nwrite).
PipecloseReadSilent(p) ==
  /\ pc[p] = "close_read"
  /\ lock = Nobody
  /\ readopen' = FALSE
  /\ freed' = IF writeopen THEN freed ELSE freed + 1
  /\ Goto(p, "idle")
  /\ UNCHANGED <<lock, data, nread, nwrite, writeopen, readfds, writefds, killed, sleepR, sleepW, left>>

PipecloseRead(p) ==
  /\ pc[p] = "close_read"
  /\ lock = Nobody
  /\ readopen' = FALSE
  /\ sleepW' = {}
  /\ freed' = IF writeopen THEN freed ELSE freed + 1
  /\ Goto(p, "idle")
  /\ UNCHANGED <<lock, data, nread, nwrite, writeopen, readfds, writefds, killed, sleepR, left>>

Kill(p) ==
  /\ p \in Killable
  /\ killed' = killed \cup {p}
  /\ sleepR' = sleepR \ {p}
  /\ sleepW' = sleepW \ {p}
  /\ UNCHANGED <<lock, data, nread, nwrite, ends, left, pc>>

-----------------------------------------------------------------------------
\* Steps of a system call that has begun.
Proceed(p) ==
  \/ WriteAgain(p) \/ (\E v \in Bytes : WriteByte(p, v)) \/ WriteFull(p)
  \/ WriteSleep(p) \/ WriteReturn(p)
  \/ ReadAgain(p) \/ ReadTest(p) \/ ReadSleep(p) \/ ReadByte(p) \/ ReadReturn(p)
  \/ PipecloseWrite(p) \/ PipecloseRead(p)

Next ==
  \E p \in Procs :
    \/ \E n \in 0 .. MaxCount : WriteEnter(p, n) \/ ReadEnter(p, n)
    \/ Proceed(p)
    \/ CloseWrite(p) \/ CloseRead(p)
    \/ Kill(p)

Spec == Init /\ [][Next]_vars

\* A process inside the pipe code keeps running and eventually wins the lock.
FairSpec == Spec /\ \A p \in Procs : SF_vars(Proceed(p))

-----------------------------------------------------------------------------
(* Properties                                                              *)

\* Types of struct pipe and of the processes that use it.
TypeOK ==
  /\ lock \in Procs \cup {Nobody}
  /\ data \in [Slots -> Bytes]
  /\ nread \in 0 .. UintMod - 1
  /\ nwrite \in 0 .. UintMod - 1
  /\ readopen \in BOOLEAN /\ writeopen \in BOOLEAN
  /\ readfds \subseteq Procs /\ writefds \subseteq Procs
  /\ freed \in Nat
  /\ killed \subseteq Procs
  /\ sleepR \subseteq Procs /\ sleepW \subseteq Procs
  /\ left \in [Procs -> 0 .. MaxCount]
  /\ pc \in [Procs -> {"idle", "write", "write_sleep", "write_slept",
                       "read_test", "read", "read_sleep", "read_slept",
                       "close_write", "close_read"}]

\* The bytes in the pipe: the difference of the counters survives their wrap.
Queue ==
  [i \in 1 .. (nwrite - nread) % UintMod |-> data[(nread + i - 1) % PIPESIZE]]

Channel == INSTANCE Fifo WITH queue <- Queue, Capacity <- PIPESIZE

\* The ring is a bounded first-in first-out channel, whoever reads and writes
\* it and however often the counters wrap (pipe.c:85, 93, 106, 114-116).
ImplementsFifo == Channel!Spec

\* When the pipe's lock is free, a writer asleep has no room and a reader to
\* wait for: piperead and pipeclose wake it whenever that changes
\* (pipe.c:68, 85-91, 118).
WritersMustWait == lock = Nobody /\ sleepW # {} => Full /\ readopen

\* When the pipe's lock is free, a reader asleep has nothing to read and a
\* writer to wait for (pipe.c:65, 90, 95, 106-111).
ReadersMustWait == lock = Nobody /\ sleepR # {} => Empty /\ writeopen

\* The page is freed once, when nobody can reach it any more (pipe.c:70-74).
FreedLast ==
  /\ freed <= 1
  /\ freed = 1 =>
       /\ readfds = {} /\ writefds = {}
       /\ \A p \in Procs : pc[p] = "idle"

\* As long as nobody is killed, the same holds of readers (unlike
\* in ReadersMustWait, where a killed writer returns without the wakeup of pipe.c:95).
UnkilledReadersMustWait == killed = {} => ReadersMustWait

\* A reader returns once the last descriptor of the write end is closed, wherever
\* the close finds it (pipe.c:65, 106).
ReaderSeesEOF ==
  \A p \in Procs :
    pc[p] \in {"read_slept", "read_test"} /\ writefds = {} ~> pc[p] = "idle"

\* A writer returns once the last descriptor of the read end is closed, wherever
\* the close finds it (pipe.c:68, 86).
WriterSeesClose ==
  \A p \in Procs :
    pc[p] \in {"write_slept", "write"} /\ readfds = {} ~> pc[p] = "idle"
=============================================================================
