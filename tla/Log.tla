--------------------------------- MODULE Log ---------------------------------
(***************************************************************************)
(* The write-ahead log of log.c over the buffer cache of bio.c and the     *)
(* disk: concurrent operations between begin_op and end_op, group commit,  *)
(* and recovery after a crash at any step, recovery included.              *)
(*                                                                         *)
(* One action per critical section of log.lock and per disk write.  Disk   *)
(* writes are synchronous (iderw waits) and a block is one sector, so a    *)
(* crash leaves each block old or new.  Log blocks and the header are only *)
(* touched by the committer, so their cached copies are left out.          *)
(***************************************************************************)
EXTENDS Integers, Sequences, FiniteSets

CONSTANTS
  Procs,        \* processes that run file system calls
  Blocks,       \* home block numbers
  Values,       \* block contents
  NoBlock,      \* "no buffer held"
  NotCached,    \* "not in the buffer cache"
  LOGSIZE,      \* entries of a logheader
  MAXOPBLOCKS,  \* blocks begin_op reserves for an operation
  LogBlocks,    \* sb.nlog: blocks of the on-disk log, header included
  OpBlocks      \* distinct blocks an operation really writes, at most

ASSUME LogAssumption ==
  /\ NoBlock \notin Blocks
  /\ NotCached \notin Values
  /\ IsFiniteSet(Blocks)
  /\ IsFiniteSet(Procs)
  /\ LOGSIZE \in Nat \ {0}
  /\ MAXOPBLOCKS \in Nat \ {0}
  /\ LogBlocks \in Nat \ {0}
  /\ OpBlocks \in 0 .. MAXOPBLOCKS

\* The log has room for one operation alone, and for what begin_op admits beside
\* another one; with param.h and mkfs this says OpBlocks < MAXOPBLOCKS.
ASSUME RoomAssumption ==
  /\ OpBlocks < MAXOPBLOCKS /\ OpBlocks < LOGSIZE /\ OpBlocks < LogBlocks - 1
  /\ LOGSIZE - 2 * (MAXOPBLOCKS - OpBlocks) < LogBlocks - 1

VARIABLES
  home,         \* disk: contents of the home blocks
  dlog,         \* disk: contents of the log's data blocks
  dhead,        \* disk: block numbers of the header block, block[0..n-1]
  cache,        \* buffer cache: contents of the cached home blocks
  dirty,        \* buffer cache: blocks with B_DIRTY, which bget never recycles
  lh,           \* log.lh: block numbers logged in memory
  outstanding,  \* log.outstanding
  committing,   \* log.committing
  op,           \* where each process is in its operation
  held,         \* the buffer a process has modified and not yet logged
  written,      \* the blocks an operation has modified
  phase,        \* what commit() or recover_from_log() does next
  tail,         \* its loop index
  up            \* recovery is over, system calls run

vars == <<home, dlog, dhead, cache, dirty, lh, outstanding, committing,
          op, held, written, phase, tail, up>>
disk == <<home, dlog, dhead>>

Listed(seq) == {seq[i] : i \in 1 .. Len(seq)}

Init ==
  /\ home \in [Blocks -> Values]
  /\ \E v \in Values : dlog = [i \in 1 .. LOGSIZE |-> v]
  /\ dhead = <<>>
  /\ cache = [b \in Blocks |-> NotCached]
  /\ dirty = {}
  /\ lh = <<>>
  /\ outstanding = 0
  /\ committing = FALSE
  /\ op = [p \in Procs |-> "idle"]
  /\ held = [p \in Procs |-> NoBlock]
  /\ written = [p \in Procs |-> {}]
  /\ phase = "read_head"
  /\ tail = 0
  /\ up = FALSE

-----------------------------------------------------------------------------
(* The buffer cache, as far as the log depends on it                       *)

\* What bread(b) returns.
Bread(b) == IF cache[b] = NotCached THEN home[b] ELSE cache[b]

\* A reader brings a block into the cache (reads need no begin_op).
Fetch(b) ==
  /\ up
  /\ cache[b] = NotCached
  /\ cache' = [cache EXCEPT ![b] = home[b]]
  /\ UNCHANGED <<disk, dirty, lh, outstanding, committing, op, held, written,
                 phase, tail, up>>
\* Mutant of Recycle: B_DIRTY does not pin the buffer.
RecycleDirty(b) ==
  /\ cache[b] # NotCached
  /\ \A p \in Procs : held[p] # b
  /\ cache' = [cache EXCEPT ![b] = NotCached]
  /\ UNCHANGED <<disk, dirty, lh, outstanding, committing, op, held, written,
                 phase, tail, up>>

\* bget recycles a buffer that is neither referenced nor dirty.
Recycle(b) ==
  /\ cache[b] # NotCached
  /\ b \notin dirty
  /\ \A p \in Procs : held[p] # b
  /\ cache' = [cache EXCEPT ![b] = NotCached]
  /\ UNCHANGED <<disk, dirty, lh, outstanding, committing, op, held, written,
                 phase, tail, up>>

-----------------------------------------------------------------------------
(* begin_op                                                                *)
\* Mutant of MayBegin: the new operation's own reservation is forgotten.
MayBeginUncounted ==
  /\ ~committing
  /\ Len(lh) + outstanding * MAXOPBLOCKS <= LOGSIZE

\* Neither of the two conditions on which begin_op goes to sleep.
MayBegin ==
  /\ ~committing
  /\ Len(lh) + (outstanding + 1) * MAXOPBLOCKS <= LOGSIZE

\* Mutant of Wakeup: nobody looks again.
WakeupNobody(o) == o

\* wakeup(&log): the sleepers look again.
Wakeup(o) == [p \in Procs |-> IF o[p] = "asleep" THEN "awake" ELSE o[p]]

BeginOp(p) ==
  /\ up
  /\ op[p] \in {"idle", "awake"}
  /\ MayBegin
  /\ outstanding' = outstanding + 1
  /\ op' = [op EXCEPT ![p] = "running"]
  /\ UNCHANGED <<disk, cache, dirty, lh, committing, held, written, phase,
                 tail, up>>

BeginSleep(p) ==
  /\ up
  /\ op[p] \in {"idle", "awake"}
  /\ ~MayBegin
  /\ op' = [op EXCEPT ![p] = "asleep"]
  /\ UNCHANGED <<disk, cache, dirty, lh, outstanding, committing, held,
                 written, phase, tail, up>>

-----------------------------------------------------------------------------
(* bread(b); modify b->data; log_write(b); brelse(b)                       *)

Modify(p, b, v) ==
  /\ op[p] = "running"
  /\ \A q \in Procs : held[q] # b
  /\ Cardinality(written[p] \cup {b}) <= OpBlocks
  /\ cache' = [cache EXCEPT ![b] = v]
  /\ held' = [held EXCEPT ![p] = b]
  /\ written' = [written EXCEPT ![p] = @ \cup {b}]
  /\ op' = [op EXCEPT ![p] = "modified"]
  /\ UNCHANGED <<disk, dirty, lh, outstanding, committing, phase, tail, up>>

\* log_write's sanity checks, made before it takes log.lock.
TooBig == Len(lh) >= LOGSIZE \/ Len(lh) >= LogBlocks - 1

LogCheck(p) ==
  /\ op[p] = "modified"
  /\ op' = [op EXCEPT ![p] =
       IF TooBig THEN "panic too big"
       ELSE IF outstanding < 1 THEN "panic outside"
       ELSE "checked"]
  /\ UNCHANGED <<disk, cache, dirty, lh, outstanding, committing, held,
                 written, phase, tail, up>>

\* The critical section of log_write, with log absorption; then brelse.
LogWrite(p) ==
  /\ op[p] = "checked"
  /\ lh' = IF held[p] \in Listed(lh) THEN lh ELSE Append(lh, held[p])
  /\ dirty' = dirty \cup {held[p]}
  /\ held' = [held EXCEPT ![p] = NoBlock]
  /\ op' = [op EXCEPT ![p] = "running"]
  /\ UNCHANGED <<disk, cache, outstanding, committing, written, phase, tail,
                 up>>

-----------------------------------------------------------------------------
(* end_op                                                                  *)

EndOp(p) ==
  /\ op[p] = "running"
  /\ outstanding' = outstanding - 1
  /\ written' = [written EXCEPT ![p] = {}]
  /\ \/ /\ committing
        /\ op' = [op EXCEPT ![p] = "panic committing"]
        /\ UNCHANGED <<committing, phase, tail>>
     \/ /\ ~committing
        /\ outstanding' = 0
        /\ committing' = TRUE
        /\ op' = [op EXCEPT ![p] = "commit"]
        /\ phase' = IF lh = <<>> THEN "done" ELSE "write_log"
        /\ tail' = 0
     \/ /\ ~committing
        /\ outstanding' # 0
        /\ op' = Wakeup([op EXCEPT ![p] = "idle"])
        /\ UNCHANGED <<committing, phase, tail>>
  /\ UNCHANGED <<disk, cache, dirty, lh, held, up>>
\* The end of end_op, after commit() has returned.
EndCommit(p) ==
  /\ op[p] = "commit"
  /\ phase = "done"
  /\ committing' = FALSE
  /\ op' = Wakeup([op EXCEPT ![p] = "idle"])
  /\ phase' = "none"
  /\ UNCHANGED <<disk, cache, dirty, lh, outstanding, held, written, tail, up>>

-----------------------------------------------------------------------------
(* commit() and recover_from_log(): one action per disk write              *)

\* Advance the loop over lh, or leave it for the phase that follows.
Loop(here, after) ==
  IF tail + 1 < Len(lh) THEN phase' = here /\ tail' = tail + 1
                        ELSE phase' = after /\ tail' = 0

WriteLog ==
  /\ phase = "write_log"
  /\ LET b == lh[tail + 1] IN
       /\ dlog' = [dlog EXCEPT ![tail + 1] = Bread(b)]
       /\ cache' = [cache EXCEPT ![b] = Bread(b)]
  /\ Loop("write_log", "write_head")
  /\ UNCHANGED <<home, dhead, dirty, lh, outstanding, committing, op, held,
                 written, up>>

\* The commit point.
WriteHead ==
  /\ phase = "write_head"
  /\ dhead' = lh
  /\ phase' = "install"
  /\ UNCHANGED <<home, dlog, cache, dirty, lh, outstanding, committing, op,
                 held, written, tail, up>>

InstallTrans ==
  /\ phase = "install"
  /\ LET b == lh[tail + 1] IN
       /\ home' = [home EXCEPT ![b] = dlog[tail + 1]]
       /\ cache' = [cache EXCEPT ![b] = dlog[tail + 1]]
       /\ dirty' = dirty \ {b}
  /\ Loop("install", "clear")
  /\ UNCHANGED <<dlog, dhead, lh, outstanding, committing, op, held, written,
                 up>>

\* log.lh.n = 0; write_head()
ClearHead ==
  /\ phase = "clear"
  /\ lh' = <<>>
  /\ dhead' = <<>>
  /\ phase' = IF up THEN "done" ELSE "none"
  /\ up' = TRUE
  /\ UNCHANGED <<home, dlog, cache, dirty, outstanding, committing, op, held,
                 written, tail>>

ReadHead ==
  /\ phase = "read_head"
  /\ lh' = dhead
  /\ phase' = IF dhead = <<>> THEN "clear" ELSE "install"
  /\ UNCHANGED <<disk, cache, dirty, outstanding, committing, op, held,
                 written, tail, up>>

\* Power is lost: memory is gone, the machine reboots into initlog.
Crash ==
  /\ cache' = [b \in Blocks |-> NotCached]
  /\ dirty' = {}
  /\ lh' = <<>>
  /\ outstanding' = 0
  /\ committing' = FALSE
  /\ op' = [p \in Procs |-> "idle"]
  /\ held' = [p \in Procs |-> NoBlock]
  /\ written' = [p \in Procs |-> {}]
  /\ phase' = "read_head"
  /\ tail' = 0
  /\ up' = FALSE
  /\ UNCHANGED disk

-----------------------------------------------------------------------------
Commit == WriteLog \/ WriteHead \/ InstallTrans \/ ClearHead \/ ReadHead

ProcStep(p) ==
  \/ BeginOp(p)
  \/ BeginSleep(p)
  \/ \E b \in Blocks, v \in Values : Modify(p, b, v)
  \/ LogCheck(p)
  \/ LogWrite(p)
  \/ EndOp(p)
  \/ EndCommit(p)

Next ==
  \/ \E p \in Procs : ProcStep(p)
  \/ Commit
  \/ \E b \in Blocks : Fetch(b) \/ Recycle(b)
  \/ Crash

Spec == Init /\ [][Next]_vars

-----------------------------------------------------------------------------
(* Properties                                                              *)

Panics == {"panic too big", "panic outside", "panic committing"}
InOp == {"running", "modified", "checked"}

\* What begin_op reserves is enough for what log_write later asks: the header in
\* memory never outgrows the header or the log on disk, even when several
\* log_write calls pass the unlocked test together, and no operation runs into
\* one of the three panics of log.c (log.c:132, 153, 218-221, 228-230).
LogFits ==
  /\ Len(lh) <= LOGSIZE /\ Len(lh) <= LogBlocks - 1
  /\ \A p \in Procs : op[p] \notin Panics

\* A process that sleeps in begin_op has something to wait for: no wakeup is
\* missing where the log drains or a reservation is returned (log.c:131-134,
\* 161, 171).
NoMissedWakeup == (\E p \in Procs : op[p] = "asleep") => ~MayBegin

\* What a reboot would find: the committed log, else the home location.
Stable ==
  [b \in Blocks |->
     IF b \in Listed(dhead)
     THEN dlog[CHOOSE i \in 1 .. Len(dhead) : dhead[i] = b]
     ELSE home[b]]
Volatile == [b \in Blocks |-> IF cache[b] = NotCached THEN Stable[b] ELSE cache[b]]
Active == {p \in Procs : op[p] \in InOp}

Atomic ==
  INSTANCE AtomicDisk
    WITH stable <- Stable, volatile <- Volatile, active <- Active

\* The log implements an atomic disk: whatever operations overlap and wherever
\* the machine stops, a reboot finds all the writes of a group of operations
\* or none, and a new group starts only once the previous one is durable
\* (log.c:115-122, 145-202).
ImplementsAtomicDisk == Atomic!Spec
=============================================================================
