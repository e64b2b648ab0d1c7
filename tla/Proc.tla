-------------------------------- MODULE Proc --------------------------------
(***************************************************************************)
(* Processes and the scheduler: proc.c, with the parts of trap.c and       *)
(* sysproc.c that create, stop, kill and preempt processes.                *)
(*                                                                         *)
(* ptable.lock is explicit because the code holds it across swtch: the     *)
(* scheduler takes it, the process it switches to releases it, and the     *)
(* other way round.  A critical section that ends in release() is one      *)
(* step; one that ends in sched() leaves the lock held and the CPU still   *)
(* on the process's kernel stack until Swtch.                              *)
(*                                                                         *)
(* A CPU whose stack is p with the lock in its hand is leaving p when p is *)
(* not RUNNING, and has just arrived on p when it is.                      *)
(***************************************************************************)
EXTENDS Integers, FiniteSets

CONSTANTS
  CPUs,
  Cpu0,       \* the CPU that counts clock ticks
  NPROC,      \* slots of ptable.proc
  MaxPid,     \* bound: the largest pid handed out
  KillArgs,   \* the pids passed to kill()
  Ticks,      \* &ticks, the wait channel of sys_sleep
  None        \* a null pointer, a free lock, or a CPU on its scheduler stack

Slots == 0 .. NPROC - 1
initproc == 0

ASSUME ProcAssumption ==
  /\ Cpu0 \in CPUs
  /\ NPROC \in Nat \ {0}
  /\ MaxPid \in Nat \ {0}
  /\ KillArgs \subseteq Nat
  /\ None \notin Nat \cup CPUs \cup {Ticks}
  /\ Ticks \notin Slots

VARIABLES
  proc,       \* ptable.proc: the struct proc of each slot
  nextpid,
  lock,       \* ptable.lock: the CPU that holds it
  tickslock,  \* tickslock: the process that holds it
  stack,      \* the kernel stack each CPU runs on: a slot's or its scheduler's
  scan,       \* the scheduler's loop index p, or None outside the loop
  intr,       \* CPUs in a timer interrupt that is going to yield()
  pc,         \* where each process is in the kernel
  np,         \* the local np of a process in fork()
  panic       \* panic("init exiting") was called

vars == <<proc, nextpid, lock, tickslock, stack, scan, intr, pc, np, panic>>

FreeSlot ==
  [state |-> "UNUSED", pid |-> 0, parent |-> None, chan |-> None,
   killed |-> FALSE, kstack |-> FALSE]

\* initproc, as userinit makes it.
InitSlot ==
  [state |-> "RUNNABLE", pid |-> 1, parent |-> None, chan |-> None,
   killed |-> FALSE, kstack |-> TRUE]

\* The state userinit leaves: initproc RUNNABLE, the CPUs about to schedule.
Init ==
  /\ proc = [p \in Slots |-> IF p = initproc THEN InitSlot ELSE FreeSlot]
  /\ nextpid = 2
  /\ lock = None
  /\ tickslock = None
  /\ stack = [c \in CPUs |-> None]
  /\ scan = [c \in CPUs |-> None]
  /\ intr = {}
  /\ pc = [p \in Slots |-> IF p = initproc THEN "user" ELSE "none"]
  /\ np = [p \in Slots |-> None]
  /\ panic = FALSE

Lowest(S) == CHOOSE p \in S : \A q \in S : p <= q
Children(p) == {q \in Slots : proc[q].parent = p}

\* Mutant of Wakeup1: nobody is woken.
Wakeup1Nobody(table, chan) == table

\* wakeup1(chan) on a process table.
Wakeup1(table, chan) ==
  [p \in Slots |->
     IF table[p].state = "SLEEPING" /\ table[p].chan = chan
     THEN [table[p] EXCEPT !.state = "RUNNABLE"] ELSE table[p]]

-----------------------------------------------------------------------------
(* scheduler() and sched()                                                 *)

SchedAcquire(c) ==
  /\ stack[c] = None
  /\ scan[c] = None
  /\ lock = None
  /\ lock' = c
  /\ scan' = [scan EXCEPT ![c] = 0]
  /\ UNCHANGED <<proc, nextpid, tickslock, stack, intr, pc, np, panic>>

\* Mutant of Candidates: the scan starts over after every process.
CandidatesAll(c) == {p \in Slots : proc[p].state = "RUNNABLE"}

Candidates(c) == {p \in Slots : p >= scan[c] /\ proc[p].state = "RUNNABLE"}

\* Switch to the next RUNNABLE process; it keeps running with our lock.
SchedPick(c) ==
  /\ stack[c] = None
  /\ scan[c] # None
  /\ Candidates(c) # {}
  /\ LET p == Lowest(Candidates(c)) IN
       /\ proc' = [proc EXCEPT ![p].state = "RUNNING"]
       /\ stack' = [stack EXCEPT ![c] = p]
       /\ scan' = [scan EXCEPT ![c] = p + 1]
  /\ UNCHANGED <<nextpid, lock, tickslock, intr, pc, np, panic>>

SchedRelease(c) ==
  /\ stack[c] = None
  /\ scan[c] # None
  /\ Candidates(c) = {}
  /\ lock' = None
  /\ scan' = [scan EXCEPT ![c] = None]
  /\ UNCHANGED <<proc, nextpid, tickslock, stack, intr, pc, np, panic>>

\* The swtch in sched(), back to the loop of scheduler().
Swtch(c) ==
  /\ stack[c] # None
  /\ lock = c
  /\ proc[stack[c]].state # "RUNNING"
  /\ stack' = [stack EXCEPT ![c] = None]
  /\ UNCHANGED <<proc, nextpid, lock, tickslock, scan, intr, pc, np, panic>>

\* p has just been switched to: the ends of forkret, yield and sleep.
Resume(c) ==
  LET p == stack[c] IN
  /\ p # None
  /\ lock = c
  /\ proc[p].state = "RUNNING"
  /\ pc[p] # "wait_slept"
  /\ lock' = None
  /\ proc' = [proc EXCEPT ![p].chan = None]
  /\ UNCHANGED <<nextpid, tickslock, stack, scan, intr, pc, np, panic>>

-----------------------------------------------------------------------------
(* A process on CPU c runs when the CPU is on its stack and it does not    *)
(* have to finish a context switch or an interrupt first.                  *)

At(c, label) ==
  /\ stack[c] # None
  /\ c \notin intr
  /\ lock # c
  /\ pc[stack[c]] = label

Goto(c, label) == pc' = [pc EXCEPT ![stack[c]] = label]

\* System call entry: trap() lets a process that is not killed in.
Enter(c) == At(c, "user") /\ ~proc[stack[c]].killed

\* init.c: the first process only forks and waits.  It exits when a fork fails
\* (init.c:26-28), into the panic of ExitInit, which a kill of init reaches too.
NotInit(c) == stack[c] # initproc

\* allocproc's critical section, called by fork.
AllocProc(c) ==
  LET free == {q \in Slots : proc[q].state = "UNUSED"}
      q == Lowest(free) IN
  /\ Enter(c)
  /\ lock = None
  /\ IF free = {}
     THEN Goto(c, "return") /\ UNCHANGED <<proc, nextpid, np>>
     ELSE /\ nextpid <= MaxPid
          /\ proc' = [proc EXCEPT ![q].state = "EMBRYO", ![q].pid = nextpid]
          /\ nextpid' = nextpid + 1
          /\ np' = [np EXCEPT ![stack[c]] = q]
          /\ Goto(c, "fork_kstack")
  /\ UNCHANGED <<lock, tickslock, stack, scan, intr, panic>>

\* kalloc of the kernel stack, without the lock; memory may run out.
AllocKstack(c) ==
  LET p == stack[c] IN
  /\ At(c, "fork_kstack")
  /\ \/ /\ proc' = [proc EXCEPT ![np[p]].kstack = TRUE]
        /\ pc' = [pc EXCEPT ![p] = "fork_copy", ![np[p]] = "user"]
        /\ UNCHANGED np
     \/ /\ proc' = [proc EXCEPT ![np[p]].state = "UNUSED"]
        /\ np' = [np EXCEPT ![p] = None]
        /\ Goto(c, "return")
  /\ UNCHANGED <<nextpid, lock, tickslock, stack, scan, intr, panic>>

\* copyuvm and the rest of fork's unlocked part; memory may run out.
ForkCopy(c) ==
  LET p == stack[c] IN
  /\ At(c, "fork_copy")
  /\ \/ /\ proc' = [proc EXCEPT ![np[p]].parent = p]
        /\ Goto(c, "fork_run")
        /\ UNCHANGED np
     \/ /\ proc' = [proc EXCEPT ![np[p]].kstack = FALSE,
                                ![np[p]].state = "UNUSED"]
        /\ np' = [np EXCEPT ![p] = None]
        /\ Goto(c, "return")
  /\ UNCHANGED <<nextpid, lock, tickslock, stack, scan, intr, panic>>

ForkRun(c) ==
  LET p == stack[c] IN
  /\ At(c, "fork_run")
  /\ lock = None
  /\ proc' = [proc EXCEPT ![np[p]].state = "RUNNABLE"]
  /\ np' = [np EXCEPT ![p] = None]
  /\ Goto(c, "return")
  /\ UNCHANGED <<nextpid, lock, tickslock, stack, scan, intr, panic>>

-----------------------------------------------------------------------------
(* Returning to user space, exit and wait                                  *)

\* trap() checks killed before it goes back to user space.
Return(c) ==
  /\ At(c, "return")
  /\ Goto(c, IF proc[stack[c]].killed THEN "exit" ELSE "user")
  /\ UNCHANGED <<proc, nextpid, lock, tickslock, stack, scan, intr, np, panic>>

\* A trap from user space finds the process killed.
TrapKilled(c) ==
  /\ At(c, "user")
  /\ proc[stack[c]].killed
  /\ Goto(c, "exit")
  /\ UNCHANGED <<proc, nextpid, lock, tickslock, stack, scan, intr, np, panic>>

\* The default case of trap(): a fault in user space kills its process.
Fault(c) ==
  /\ At(c, "user")
  /\ NotInit(c)
  /\ proc' = [proc EXCEPT ![stack[c]].killed = TRUE]
  /\ Goto(c, "exit")
  /\ UNCHANGED <<nextpid, lock, tickslock, stack, scan, intr, np, panic>>

SysExit(c) ==
  /\ Enter(c)
  /\ NotInit(c)
  /\ Goto(c, "exit")
  /\ UNCHANGED <<proc, nextpid, lock, tickslock, stack, scan, intr, np, panic>>

\* exit() of initproc.
ExitInit(c) ==
  /\ At(c, "exit")
  /\ ~NotInit(c)
  /\ panic' = TRUE
  /\ UNCHANGED <<proc, nextpid, lock, tickslock, stack, scan, intr, pc, np>>

\* Mutant of Reparent: the children keep their parent.
ReparentNobody(table, p) == table

\* Pass p's children to init, and wake init for those already dead.
Reparent(table, p) ==
  LET given == [q \in Slots |->
        IF table[q].parent = p THEN [table[q] EXCEPT !.parent = initproc]
                               ELSE table[q]]
  IN  IF \E q \in Slots : table[q].parent = p /\ table[q].state = "ZOMBIE"
      THEN Wakeup1(given, initproc) ELSE given

\* Mutant of Exit: the lock is released before sched().
ExitUnlocked(c) ==
  LET p == stack[c] IN
  /\ At(c, "exit")
  /\ NotInit(c)
  /\ lock = None
  /\ proc' = [Reparent(Wakeup1(proc, proc[p].parent), p)
                EXCEPT ![p].state = "ZOMBIE"]
  /\ Goto(c, "zombie")
  /\ UNCHANGED <<nextpid, lock, tickslock, stack, scan, intr, np, panic>>

\* exit() after it has closed its files; it leaves with the lock held.
Exit(c) ==
  LET p == stack[c] IN
  /\ At(c, "exit")
  /\ NotInit(c)
  /\ lock = None
  /\ lock' = c
  /\ proc' = [Reparent(Wakeup1(proc, proc[p].parent), p)
                EXCEPT ![p].state = "ZOMBIE"]
  /\ Goto(c, "zombie")
  /\ UNCHANGED <<nextpid, tickslock, stack, scan, intr, np, panic>>

SysWait(c) ==
  /\ Enter(c)
  /\ Goto(c, "wait")
  /\ UNCHANGED <<proc, nextpid, lock, tickslock, stack, scan, intr, np, panic>>

\* One pass of wait()'s loop: on entry it takes the lock, after sleep() it
\* still has it.  It reaps a zombie child, gives up, or sleeps again.
Wait(c) ==
  LET p == stack[c]
      zombies == {q \in Children(p) : proc[q].state = "ZOMBIE"} IN
  /\ \/ At(c, "wait") /\ lock = None
     \/ /\ p # None
        /\ pc[p] = "wait_slept"
        /\ proc[p].state = "RUNNING"
        /\ lock = c
  /\ \/ /\ zombies # {}
        /\ proc' = [proc EXCEPT ![Lowest(zombies)] = FreeSlot, ![p].chan = None]
        /\ pc' = [pc EXCEPT ![p] = "return", ![Lowest(zombies)] = "none"]
        /\ lock' = None
     \/ /\ zombies = {}
        /\ Children(p) = {} \/ proc[p].killed
        /\ proc' = [proc EXCEPT ![p].chan = None]
        /\ Goto(c, "return")
        /\ lock' = None
     \/ /\ zombies = {}
        /\ Children(p) # {}
        /\ ~proc[p].killed
        /\ proc' = [proc EXCEPT ![p].chan = p, ![p].state = "SLEEPING"]
        /\ lock' = c
        /\ Goto(c, "wait_slept")
  /\ UNCHANGED <<nextpid, tickslock, stack, scan, intr, np, panic>>

-----------------------------------------------------------------------------
(* sys_sleep, kill and the clock                                           *)

SysSleep(c) ==
  /\ Enter(c)
  /\ NotInit(c)
  /\ Goto(c, "sleep")
  /\ UNCHANGED <<proc, nextpid, lock, tickslock, stack, scan, intr, np, panic>>

\* The test of sys_sleep's loop, under tickslock: the time is over, the
\* process was killed, or it will sleep.
SleepTest(c) ==
  /\ At(c, "sleep")
  /\ tickslock = None
  /\ \/ Goto(c, "return") /\ UNCHANGED tickslock
     \/ /\ ~proc[stack[c]].killed
        /\ tickslock' = stack[c]
        /\ Goto(c, "sleep_lock")
  /\ UNCHANGED <<proc, nextpid, lock, stack, scan, intr, np, panic>>

\* sleep(&ticks, &tickslock): take ptable.lock, then release tickslock.
Sleep(c) ==
  LET p == stack[c] IN
  /\ At(c, "sleep_lock")
  /\ lock = None
  /\ lock' = c
  /\ tickslock' = None
  /\ proc' = [proc EXCEPT ![p].chan = Ticks, ![p].state = "SLEEPING"]
  /\ Goto(c, "sleep")
  /\ UNCHANGED <<nextpid, stack, scan, intr, np, panic>>

\* Mutant of MarkKilled: a sleeper is not woken.
MarkKilledSilent(q) == [proc EXCEPT ![q].killed = TRUE]

MarkKilled(q) ==
  [proc EXCEPT ![q].killed = TRUE,
               ![q].state = IF @ = "SLEEPING" THEN "RUNNABLE" ELSE @]

Kill(c, pid) ==
  LET found == {q \in Slots : proc[q].pid = pid} IN
  /\ Enter(c)
  /\ NotInit(c)
  /\ lock = None
  /\ proc' = IF found = {} THEN proc ELSE MarkKilled(Lowest(found))
  /\ Goto(c, "return")
  /\ UNCHANGED <<nextpid, lock, tickslock, stack, scan, intr, np, panic>>

\* Interrupts are on: c holds no spin lock and is not in a handler.
Interruptible(c) ==
  /\ c \notin intr
  /\ lock # c
  /\ stack[c] # None => tickslock # stack[c]

\* The timer case of trap(), up to yield(); Cpu0 also wakes the sleepers.
Timer(c) ==
  LET p == stack[c] IN
  /\ Interruptible(c)
  /\ IF c = Cpu0
     THEN /\ tickslock = None
          /\ lock = None
          /\ proc' = Wakeup1(proc, Ticks)
     ELSE UNCHANGED proc
  /\ IF p # None /\ pc[p] = "user" /\ proc[p].killed
     THEN Goto(c, "exit") /\ UNCHANGED intr
     ELSE /\ intr' = IF p = None THEN intr ELSE intr \cup {c}
          /\ UNCHANGED pc
  /\ UNCHANGED <<nextpid, lock, tickslock, stack, scan, np, panic>>

\* yield() in the handler; back in trap(), killed is checked once more if the
\* interrupt came from user space.
Yield(c) ==
  LET p == stack[c] IN
  /\ c \in intr
  /\ lock = None
  /\ lock' = c
  /\ intr' = intr \ {c}
  /\ proc' = [proc EXCEPT ![p].state = "RUNNABLE"]
  /\ Goto(c, IF pc[p] = "user" THEN "return" ELSE pc[p])
  /\ UNCHANGED <<nextpid, tickslock, stack, scan, np, panic>>

-----------------------------------------------------------------------------
SchedStep(c) ==
  SchedAcquire(c) \/ SchedPick(c) \/ SchedRelease(c) \/ Swtch(c) \/ Resume(c)

\* Kernel code that runs on its own accord.
KernelStep(c) ==
  \/ AllocKstack(c) \/ ForkCopy(c) \/ ForkRun(c)
  \/ Return(c) \/ TrapKilled(c) \/ ExitInit(c) \/ Exit(c)
  \/ Wait(c) \/ SleepTest(c) \/ Sleep(c)

\* What the user program chooses to do.
UserStep(c) ==
  \/ AllocProc(c) \/ Fault(c) \/ SysExit(c) \/ SysWait(c) \/ SysSleep(c)
  \/ \E pid \in KillArgs : Kill(c, pid)

Next ==
  /\ ~panic
  /\ \E c \in CPUs :
       \/ SchedStep(c)
       \/ KernelStep(c)
       \/ UserStep(c)
       \/ Timer(c)
       \/ Yield(c)

Spec == Init /\ [][Next]_vars

\* A CPU keeps executing; a timer interrupt stays pending until it is taken;
\* the kernel code of a process is shorter than a clock tick, so preemption
\* cannot stop it from getting ahead each time it runs.
Fairness ==
  /\ \A c \in CPUs : WF_vars(~panic /\ SchedStep(c))
                    /\ SF_vars(~panic /\ Timer(c))
                    /\ WF_vars(~panic /\ Yield(c))
  /\ \A p \in Slots :
       SF_vars(~panic /\ \E c \in CPUs : stack[c] = p /\ KernelStep(c))

FairSpec == Spec /\ Fairness

-----------------------------------------------------------------------------
(* Properties                                                              *)

\* A kernel stack is in use by at most one CPU, it is allocated while it is,
\* and a process that is no longer RUNNING keeps ptable.lock until its CPU has
\* left the stack: wait() cannot free it and no other CPU can enter it
\* (proc.c:264-266, 290, 342-346, 380).
StackInUse ==
  \A c \in CPUs : stack[c] # None =>
    /\ \A d \in CPUs \ {c} : stack[d] # stack[c]
    /\ proc[stack[c]].kstack
    /\ proc[stack[c]].state = "RUNNING" \/ lock = c

Alive(p) == proc[p].state \in {"SLEEPING", "RUNNABLE", "RUNNING"}

\* Every started process but init has a living parent, which will be able to
\* wait for it: exit hands its children over before it dies (proc.c:255-262).
NoOrphans ==
  \A p \in Slots \ {initproc} :
    Alive(p) \/ proc[p].state = "ZOMBIE" =>
      proc[p].parent # None /\ Alive(proc[p].parent)

\* A process asleep in wait() has a child to wait for, none of its children is
\* dead already and it has not been killed: no wakeup from exit, from the
\* reparenting in exit or from kill is lost (proc.c:253, 260, 304, 310, 489).
WaitSleepsSoundly ==
  \A p \in Slots :
    proc[p].state = "SLEEPING" /\ proc[p].chan = p =>
      /\ Children(p) # {}
      /\ \A q \in Children(p) : proc[q].state # "ZOMBIE"
      /\ ~proc[p].killed

InWait == {"wait", "wait_slept"}

\* A RUNNABLE process gets a CPU: the scheduler's scan goes on from the slot
\* after the one that ran and starves nobody (proc.c:335-353).
RunnableRuns ==
  \A p \in Slots :
    proc[p].state = "RUNNABLE" ~> proc[p].state = "RUNNING" \/ panic

\* A killed process dies whether kill found it in user space, in sys_sleep or in
\* wait, asleep or between the test of killed and going to sleep (proc.c:476-490,
\* trap.c:40-45, 97-111, sysproc.c:69-75).  The readers of pipes and of the
\* console are not part of this module: those may sleep on after a kill that
\* falls before their sleep (pipe.c:107-111, console.c:246-251).
KilledExits ==
  \A p \in Slots \ {initproc} :
    proc[p].killed /\ Alive(p) ~> ~Alive(p) \/ panic

\* A wait() whose caller has a dead child returns.
WaitReturns ==
  \A p \in Slots :
    /\ pc[p] \in InWait
    /\ \E q \in Children(p) : proc[q].state = "ZOMBIE"
    ~> pc[p] = "return" \/ panic
=============================================================================
