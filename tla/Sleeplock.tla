------------------------------ MODULE Sleeplock ------------------------------
(***************************************************************************)
(* A sleep lock (sleeplock.c) on top of sleep() and wakeup() (proc.c), at  *)
(* the grain of the two spin locks involved: the lock's own lk->lk and     *)
(* ptable.lock.  acquiresleep releases lk->lk only after it has            *)
(* ptable.lock, which releasesleep's wakeup() needs; on this order rests   *)
(* that no wakeup is lost.                                                 *)
(***************************************************************************)
EXTENDS Processes

VARIABLES
  spin,       \* holder of the spin lock lk->lk
  ptlock,     \* holder of ptable.lock
  locked,     \* lk->locked
  pid,        \* lk->pid
  asleep,     \* processes SLEEPING on the channel lk
  at          \* where each process is

lockvars == <<spin, ptlock, locked, pid, asleep, at>>

\* initsleeplock
LockInit ==
  /\ spin = Nobody
  /\ ptlock = Nobody
  /\ locked = FALSE
  /\ pid = Nobody
  /\ asleep = {}
  /\ at = [p \in Procs |-> "idle"]

Step(p, from, to) == at[p] = from /\ at' = [at EXCEPT ![p] = to]

-----------------------------------------------------------------------------
(* acquiresleep                                                            *)

Call(p) ==
  /\ Step(p, "idle", "spin")
  /\ UNCHANGED <<spin, ptlock, locked, pid, asleep>>

\* acquire(&lk->lk), on entry and at the end of sleep().
AcquireSpin(p) ==
  /\ Step(p, "spin", "test")
  /\ spin = Nobody
  /\ spin' = p
  /\ UNCHANGED <<ptlock, locked, pid, asleep>>
\* Mutant of Take: "if" instead of "while", the lock is not tested again.
TakeUntested(p) ==
  /\ Step(p, "test", "holds")
  /\ locked' = TRUE
  /\ pid' = p
  /\ spin' = Nobody
  /\ UNCHANGED <<ptlock, asleep>>

\* The loop's exit: take the lock and release lk->lk.
Take(p) ==
  /\ Step(p, "test", "holds")
  /\ ~locked
  /\ locked' = TRUE
  /\ pid' = p
  /\ spin' = Nobody
  /\ UNCHANGED <<ptlock, asleep>>
\* Mutant of SleepAcquire: sleep() does not take ptable.lock first.
SleepUnlocked(p) ==
  /\ Step(p, "test", "release lk")
  /\ locked
  /\ UNCHANGED <<spin, ptlock, locked, pid, asleep>>

\* The lock is taken; sleep() begins with acquire(&ptable.lock) ...
SleepAcquire(p) ==
  /\ Step(p, "test", "release lk")
  /\ locked
  /\ ptlock = Nobody
  /\ ptlock' = p
  /\ UNCHANGED <<spin, locked, pid, asleep>>

\* ... and only then releases lk->lk.
SleepRelease(p) ==
  /\ Step(p, "release lk", "go to sleep")
  /\ spin' = Nobody
  /\ UNCHANGED <<ptlock, locked, pid, asleep>>

\* p->chan = lk; SLEEPING; sched(), where the scheduler drops ptable.lock.
GoToSleep(p) ==
  /\ Step(p, "go to sleep", "sleeping")
  /\ asleep' = asleep \cup {p}
  /\ ptlock' = Nobody
  /\ UNCHANGED <<spin, locked, pid>>

\* The scheduler runs p again (with ptable.lock, which p drops).
WakeUp(p) ==
  /\ Step(p, "sleeping", "spin")
  /\ p \notin asleep
  /\ ptlock = Nobody
  /\ UNCHANGED <<spin, ptlock, locked, pid, asleep>>

-----------------------------------------------------------------------------
(* releasesleep                                                            *)

ReleaseAcquire(p) ==
  /\ Step(p, "holds", "unlock")
  /\ spin = Nobody
  /\ spin' = p
  /\ UNCHANGED <<ptlock, locked, pid, asleep>>

Unlock(p) ==
  /\ Step(p, "unlock", "wakeup")
  /\ locked' = FALSE
  /\ pid' = Nobody
  /\ UNCHANGED <<spin, ptlock, asleep>>
\* Mutant of Wakeup: nobody is woken.
WakeupNobody(p) ==
  /\ Step(p, "wakeup", "release")
  /\ ptlock = Nobody
  /\ UNCHANGED <<spin, ptlock, locked, pid, asleep>>

\* wakeup(lk) under ptable.lock
Wakeup(p) ==
  /\ Step(p, "wakeup", "release")
  /\ ptlock = Nobody
  /\ asleep' = {}
  /\ UNCHANGED <<spin, ptlock, locked, pid>>

ReleaseSpin(p) ==
  /\ Step(p, "release", "idle")
  /\ spin' = Nobody
  /\ UNCHANGED <<ptlock, locked, pid, asleep>>

-----------------------------------------------------------------------------
\* kill(p) makes a sleeper RUNNABLE under ptable.lock; acquiresleep does not
\* look at p->killed and tests the lock again.
KillSleeper(p) ==
  /\ p \in asleep
  /\ ptlock = Nobody
  /\ asleep' = asleep \ {p}
  /\ UNCHANGED <<spin, ptlock, locked, pid, at>>

\* What holdingsleep returns to p: it reads under lk->lk.
HoldingSleep(p) == locked /\ pid = p

Acquiring(p) ==
  AcquireSpin(p) \/ Take(p) \/ SleepAcquire(p) \/ SleepRelease(p)
  \/ GoToSleep(p) \/ WakeUp(p)

Releasing(p) == ReleaseAcquire(p) \/ Unlock(p) \/ Wakeup(p) \/ ReleaseSpin(p)

LockNext == \E p \in Procs : Call(p) \/ Acquiring(p) \/ Releasing(p) \/ KillSleeper(p)

LockSpec == LockInit /\ [][LockNext]_lockvars

\* Processes keep running and holders release; a spin lock that is free over
\* and over is eventually won.
Fairness == \A p \in Procs : SF_lockvars(Acquiring(p)) /\ SF_lockvars(Releasing(p))

LockFairSpec == LockSpec /\ Fairness

-----------------------------------------------------------------------------
(* Properties                                                              *)

\* Types of the two spin locks, the sleep lock and the processes.
LockTypeOK ==
  /\ spin \in Procs \cup {Nobody}
  /\ ptlock \in Procs \cup {Nobody}
  /\ locked \in BOOLEAN
  /\ pid \in Procs \cup {Nobody}
  /\ asleep \subseteq Procs
  /\ at \in [Procs -> {"idle", "spin", "test", "holds", "release lk",
                       "go to sleep", "sleeping", "unlock", "wakeup",
                       "release"}]

Owns(p) == at[p] \in {"holds", "unlock"}

\* At most one process is between acquiresleep and releasesleep, and to
\* holdingsleep it alone looks like the holder, whatever kill() wakes early
\* (sleeplock.c:26-31, 37-39, 50).
MutualExclusion ==
  \A p \in Procs :
    /\ Owns(p) => \A q \in Procs \ {p} : ~Owns(q)
    /\ HoldingSleep(p) <=> Owns(p)

\* A process that sleeps, or has decided to, finds the lock taken or its
\* holder on the way to wake it (proc.c:428-436, sleeplock.c:38-40).
NoLostWakeup ==
  \A p \in Procs :
    p \in asleep \/ at[p] \in {"release lk", "go to sleep"} =>
      locked \/ \E q \in Procs : at[q] = "wakeup"

\* A free lock that somebody waits for is taken again: the waiter does not
\* sleep through the release (sleeplock.c:26-29, 38-40).
FreeLockIsTaken ==
  (/\ ~locked
   /\ \E p \in Procs : at[p] \notin {"idle", "wakeup", "release"})
  ~> locked
=============================================================================
