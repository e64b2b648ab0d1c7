----------------------------- MODULE ProcProofs -----------------------------
(***************************************************************************)
(* The process table for any number of slots and CPUs: kernel stacks,      *)
(* parents and the sleep in wait().                                        *)
(***************************************************************************)
EXTENDS Proc, WellFoundedInduction, TLAPS

\* A leaf is tried with Zenon, with SMT, and with Zenon for longer.
USE ZenonT(5), SMTT(30), ZenonT(60)

States == {"UNUSED", "EMBRYO", "SLEEPING", "RUNNABLE", "RUNNING", "ZOMBIE"}
InFork == {"fork_kstack", "fork_copy", "fork_run"}
Labels == InFork \cup {"none", "user", "return", "exit", "zombie", "wait",
                       "wait_slept", "sleep", "sleep_lock"}

Record == [state : States, pid : Nat, parent : Slots \cup {None},
           chan : Slots \cup {Ticks, None}, killed : BOOLEAN, kstack : BOOLEAN]

Types ==
  /\ proc \in [Slots -> Record]
  /\ nextpid \in Nat
  /\ lock \in CPUs \cup {None}
  /\ stack \in [CPUs -> Slots \cup {None}]
  /\ scan \in [CPUs -> Nat \cup {None}]
  /\ intr \subseteq CPUs
  /\ pc \in [Slots -> Labels]
  /\ np \in [Slots -> Slots \cup {None}]

\* The fields of the process table, one by one.
State(p) == proc[p].state
Parent(p) == proc[p].parent
Chan(p) == proc[p].chan
Killed(p) == proc[p].killed = TRUE
HasStack(p) == proc[p].kstack = TRUE

Living == {"SLEEPING", "RUNNABLE", "RUNNING"}
Started == Living \cup {"ZOMBIE"}

\* Who may hold ptable.lock, and who is in an interrupt.
Switching ==
  \A c \in CPUs :
    /\ stack[c] = None /\ scan[c] # None => lock = c
    /\ c \in intr => stack[c] # None /\ lock # c

\* The stacks of started processes are allocated, and only they are in use.
Stacks ==
  /\ \A c, d \in CPUs : stack[c] # None /\ c # d => stack[d] # stack[c]
  /\ \A c \in CPUs : stack[c] # None =>
       /\ State(stack[c]) \in Started
       /\ State(stack[c]) = "RUNNING" \/ lock = c
  /\ \A p \in Slots : State(p) \in Started => HasStack(p)

\* A process in fork() has a slot of its own, in state EMBRYO.
Forking ==
  /\ \A p \in Slots : pc[p] \in InFork => np[p] \in Slots
  /\ \A p, n \in Slots : pc[p] \in InFork /\ np[p] = n =>
       /\ State(n) = "EMBRYO"
       /\ pc[p] # "fork_kstack" => HasStack(n)
       /\ pc[p] # "fork_run" => Parent(n) = None
       /\ pc[p] = "fork_run" => Parent(n) = p
  /\ \A p, q \in Slots : pc[p] \in InFork /\ pc[q] \in InFork /\ p # q => np[p] # np[q]

\* init lives and has no parent; everybody else that was started has one.
Family ==
  /\ State(initproc) \in Living /\ Parent(initproc) = None
  /\ \A p \in Slots : Parent(p) \in Slots \cup {None} /\ Parent(p) # p
  /\ \A p \in Slots : State(p) = "UNUSED" => Parent(p) = None
  /\ \A p \in Slots \ {initproc} : State(p) \in Started => Parent(p) # None
  /\ \A p, q \in Slots : State(p) \in Started /\ Parent(p) = q => State(q) \in Living

\* Who sleeps in wait() has children, all of them alive, and is not killed.
Waiting ==
  \A p \in Slots : State(p) = "SLEEPING" /\ Chan(p) = p =>
    /\ \E q \in Slots : Parent(q) = p
    /\ \A q \in Slots : Parent(q) = p => State(q) # "ZOMBIE"
    /\ ~Killed(p)

IInv == Types /\ Switching /\ Stacks /\ Forking /\ Family /\ Waiting

-----------------------------------------------------------------------------
\* The first match of a scan of the table is a match.
LEMMA LowestIn ==
  ASSUME NEW S, S \subseteq Slots, S # {}
  PROVE  Lowest(S) \in S
<1> DEFINE R == OpToRel(<, Nat)
<1>1. S \subseteq Nat
  BY ProcAssumption DEF Slots
<1>2. \E x \in S : \A y \in S : ~(<<y, x>> \in R)
  <2> HIDE DEF R
  <2>1. IsWellFoundedOn(R, Nat)
    BY NatLessThanWellFounded DEF R
  <2> QED
    BY <1>1, <2>1, WFMin
<1>3. \A x, y \in S : ~(<<y, x>> \in R) => x <= y
  BY <1>1 DEF OpToRel
<1> QED
  BY <1>2, <1>3 DEF Lowest

\* What the proofs need of the constants.
LEMMA Constants ==
  /\ Slots \subseteq Nat /\ initproc \in Slots
  /\ None \notin Slots /\ None \notin CPUs /\ None \notin Nat /\ Ticks \notin Slots
  BY ProcAssumption DEF Slots, initproc

\* userinit establishes the invariant.
LEMMA InitInv == Init => IInv
<1> SUFFICES ASSUME Init PROVE IInv
  OBVIOUS
<1> USE Constants
<1>1. /\ Types
      /\ \A p \in Slots : State(p) = IF p = initproc THEN "RUNNABLE" ELSE "UNUSED"
      /\ \A p \in Slots : Parent(p) = None /\ (p = initproc => HasStack(p))
      /\ \A p \in Slots : pc[p] \notin InFork
  <2>1. FreeSlot \in Record /\ InitSlot \in Record
    BY DEF FreeSlot, InitSlot, Record, States
  <2>2. proc \in [Slots -> Record]
    BY <2>1 DEF Init
  <2>3. Types
    BY <2>2 DEF Init, Types, Labels, InFork
  <2>4. \A p \in Slots : proc[p] = IF p = initproc THEN InitSlot ELSE FreeSlot
    BY DEF Init
  <2>5. \A p \in Slots : pc[p] \notin InFork
    BY DEF Init, InFork
  <2> QED
    BY <2>3, <2>4, <2>5 DEF FreeSlot, InitSlot, State, Parent, HasStack
<1>2. Switching
  BY DEF Init, Switching
<1>3. Stacks
  BY <1>1 DEF Init, Stacks, Started, Living
<1>4. Forking /\ Family /\ Waiting
  BY <1>1 DEF Forking, Family, Waiting, Started, Living
<1> QED
  BY <1>1, <1>2, <1>3, <1>4 DEF IInv

(***************************************************************************)
(* Most steps start, end or reap nobody: no parent changes, the living     *)
(* stay alive, nobody enters or leaves fork(), and nobody goes to sleep in *)
(* wait().                                                                 *)
(***************************************************************************)
LEMMA NobodyBornOrDead ==
  ASSUME IInv, np' = np,
         \A q \in Slots : Parent(q)' = Parent(q) /\ HasStack(q)' = HasStack(q),
         \A q \in Slots : State(q)' = State(q) \/ (State(q) \in Living /\ State(q)' \in Living),
         \A q \in Slots : pc'[q] = pc[q] \/ (pc[q] \notin InFork /\ pc'[q] \notin InFork),
         \A q \in Slots : State(q)' = "SLEEPING" /\ Chan(q)' = q =>
           State(q) = "SLEEPING" /\ Chan(q) = q /\ (Killed(q)' => Killed(q))
  PROVE  Forking' /\ Family' /\ Waiting'
<1> USE Constants DEF IInv
<1>1. Forking'
  BY ZenonT(60) DEF Forking, Living
<1>2. Family'
  <2>1. \A q \in Slots : State(q)' \in Living <=> State(q) \in Living
    OBVIOUS
  <2>2. \A q \in Slots : State(q)' \in Started <=> State(q) \in Started
    BY <2>1 DEF Started
  <2>3. \A q \in Slots : State(q)' = "UNUSED" => State(q) = "UNUSED"
    BY DEF Living
  <2>4. Family
    OBVIOUS
  <2> HIDE DEF IInv
  <2>5. State(initproc)' \in Living /\ Parent(initproc)' = None
    BY <2>1, <2>4 DEF Family
  <2>6. \A p \in Slots : /\ Parent(p)' \in Slots \cup {None} /\ Parent(p)' # p
                         /\ State(p)' = "UNUSED" => Parent(p)' = None
    BY <2>3, <2>4 DEF Family
  <2>7. \A p \in Slots \ {initproc} : State(p)' \in Started => Parent(p)' # None
    BY <2>2, <2>4 DEF Family
  <2>8. \A p, q \in Slots : State(p)' \in Started /\ Parent(p)' = q => State(q)' \in Living
    BY <2>1, <2>2, <2>4 DEF Family
  <2> QED
    BY <2>5, <2>6, <2>7, <2>8 DEF Family
<1>3. Waiting'
  <2>1. \A q \in Slots : State(q)' = "ZOMBIE" => State(q) = "ZOMBIE"
    BY DEF Living
  <2>2. \A p \in Slots : State(p)' = "SLEEPING" /\ Chan(p)' = p =>
          /\ \E q \in Slots : Parent(q) = p
          /\ \A q \in Slots : Parent(q) = p => State(q) # "ZOMBIE"
          /\ ~Killed(p)'
    BY DEF Waiting
  <2> QED
    BY <2>1, <2>2 DEF Waiting
<1> QED
  BY <1>1, <1>2, <1>3

\* The process on CPU c's stack; it is RUNNING unless c is switching.
LEMMA OnStack ==
  ASSUME IInv, NEW c \in CPUs, stack[c] # None
  PROVE  /\ stack[c] \in Slots
         /\ State(stack[c]) \in Started
         /\ lock # c => State(stack[c]) = "RUNNING"
  BY DEF IInv, Types, Stacks

\* The table after a new state is stored in slot p.
LEMMA SetState ==
  ASSUME Types, NEW p \in Slots, NEW v \in States,
         proc' = [proc EXCEPT ![p].state = v]
  PROVE  /\ proc' \in [Slots -> Record]
         /\ \A q \in Slots : State(q)' = IF q = p THEN v ELSE State(q)
         /\ \A q \in Slots : Parent(q)' = Parent(q) /\ Chan(q)' = Chan(q)
         /\ \A q \in Slots : Killed(q)' = Killed(q) /\ HasStack(q)' = HasStack(q)
  BY DEF Types, Record, States, State, Parent, Chan, Killed, HasStack

\* The scheduler's loop: ptable.lock goes with the CPU to the process.
LEMMA SchedInv ==
  ASSUME IInv, NEW c \in CPUs, SchedAcquire(c) \/ SchedRelease(c) \/ Swtch(c)
  PROVE  IInv'
<1> USE Constants DEF IInv
<1>0. /\ UNCHANGED <<proc, nextpid, intr, pc, np>>
      /\ \/ /\ stack[c] = None /\ lock = None /\ lock' = c
            /\ scan' = [scan EXCEPT ![c] = 0] /\ stack' = stack
         \/ /\ scan[c] # None /\ stack[c] = None /\ lock' = None
            /\ scan' = [scan EXCEPT ![c] = None] /\ stack' = stack
         \/ /\ stack[c] # None /\ lock = c /\ lock' = c
            /\ scan' = scan /\ stack' = [stack EXCEPT ![c] = None]
  BY DEF SchedAcquire, SchedRelease, Swtch
<1>1. Types'
  BY <1>0 DEF Types
<1>2. Switching'
  BY <1>0 DEF Types, Switching
<1>3. \A q \in Slots : /\ State(q)' = State(q) /\ Parent(q)' = Parent(q)
                       /\ Chan(q)' = Chan(q) /\ Killed(q)' = Killed(q)
                       /\ HasStack(q)' = HasStack(q)
  BY <1>0 DEF State, Parent, Chan, Killed, HasStack
<1>4. Stacks'
  <2>1. \A d \in CPUs : stack'[d] # None => stack'[d] = stack[d] /\ stack[d] \in Slots
    BY <1>0 DEF Types
  <2>2. \A d \in CPUs : lock = d /\ stack'[d] # None => lock' = d
    BY <1>0 DEF Types, Switching
  <2> QED
    BY <2>1, <2>2, <1>3 DEF Stacks
<1>5. Forking' /\ Family' /\ Waiting'
  BY <1>0, <1>3, NobodyBornOrDead
<1> QED
  BY <1>1, <1>2, <1>4, <1>5

\* Nobody else is on the stack of a RUNNABLE process when the scheduler picks it.
LEMMA SchedPickInv ==
  ASSUME IInv, NEW c \in CPUs, SchedPick(c)
  PROVE  IInv'
<1> USE Constants DEF IInv
<1> DEFINE p == Lowest(Candidates(c))
<1>1. p \in Slots /\ State(p) = "RUNNABLE"
  <2>1. Candidates(c) \subseteq Slots /\ Candidates(c) # {}
    BY DEF Candidates, SchedPick
  <2>2. p \in Candidates(c)
    BY <2>1, LowestIn
  <2> QED
    BY <2>2 DEF Candidates, State
<1>2. /\ UNCHANGED <<nextpid, lock, intr, pc, np>>
      /\ proc' = [proc EXCEPT ![p].state = "RUNNING"]
      /\ stack' = [stack EXCEPT ![c] = p]
      /\ scan' = [scan EXCEPT ![c] = p + 1]
      /\ stack[c] = None /\ scan[c] # None
  BY DEF SchedPick
<1> HIDE DEF p
<1>3. /\ proc' \in [Slots -> Record]
      /\ \A q \in Slots : State(q)' = IF q = p THEN "RUNNING" ELSE State(q)
      /\ \A q \in Slots : Parent(q)' = Parent(q) /\ Chan(q)' = Chan(q)
      /\ \A q \in Slots : Killed(q)' = Killed(q) /\ HasStack(q)' = HasStack(q)
  BY <1>1, <1>2, SetState DEF States
<1>4. Types'
  BY <1>1, <1>2, <1>3 DEF Types
<1>5. Switching'
  BY <1>1, <1>2 DEF Types, Switching
<1>6. Stacks'
  BY <1>1, <1>2, <1>3 DEF Types, Switching, Stacks, Started, Living
<1>7. Forking' /\ Family' /\ Waiting'
  BY <1>1, <1>2, <1>3, NobodyBornOrDead DEF Living
<1> QED
  BY <1>4, <1>5, <1>6, <1>7

(***************************************************************************)
(* Steps that moreover leave every CPU on its stack.                       *)
(***************************************************************************)
LEMMA InPlace ==
  ASSUME IInv, Types', Switching', stack' = stack, np' = np,
         \A q \in Slots : Parent(q)' = Parent(q) /\ HasStack(q)' = HasStack(q),
         \A q \in Slots : State(q)' = State(q) \/ (State(q) \in Living /\ State(q)' \in Living),
         \A q \in Slots : pc'[q] = pc[q] \/ (pc[q] \notin InFork /\ pc'[q] \notin InFork),
         \A q \in Slots : State(q)' = "SLEEPING" /\ Chan(q)' = q =>
           State(q) = "SLEEPING" /\ Chan(q) = q /\ (Killed(q)' => Killed(q)),
         \A d \in CPUs, q \in Slots : stack[d] = q => State(q)' = "RUNNING" \/ lock' = d
  PROVE  IInv'
<1>1. Forking' /\ Family' /\ Waiting'
  BY NobodyBornOrDead
<1>2. Stacks'
  <2>1. \A d \in CPUs : stack[d] # None => stack[d] \in Slots
    BY DEF IInv, Types
  <2> QED
    BY <2>1 DEF IInv, Stacks, Started, Living
<1> QED
  BY <1>1, <1>2 DEF IInv

\* The ends of forkret, yield and sleep.
LEMMA ResumeInv ==
  ASSUME IInv, NEW c \in CPUs, Resume(c)
  PROVE  IInv'
<1> USE Constants
<1> DEFINE p == stack[c]
<1>1. p \in Slots /\ lock = c /\ State(p) = "RUNNING"
  BY OnStack DEF Resume, State
<1>2. /\ UNCHANGED <<nextpid, stack, scan, intr, pc, np>> /\ lock' = None
      /\ proc' = [proc EXCEPT ![p].chan = None]
  BY DEF Resume
<1> HIDE DEF p
<1>3. /\ proc' \in [Slots -> Record]
      /\ \A q \in Slots : /\ State(q)' = State(q) /\ Parent(q)' = Parent(q)
                          /\ Killed(q)' = Killed(q) /\ HasStack(q)' = HasStack(q)
                          /\ Chan(q)' = IF q = p THEN None ELSE Chan(q)
  BY <1>1, <1>2 DEF IInv, Types, Record, State, Parent, Chan, Killed, HasStack
<1>4. Types'
  BY <1>2, <1>3 DEF IInv, Types
<1>5. Switching'
  BY <1>1, <1>2 DEF p, IInv, Switching
<1>6. \A d \in CPUs, q \in Slots : stack[d] = q => State(q)' = "RUNNING" \/ lock' = d
  BY <1>1, <1>3 DEF p, IInv, Stacks
<1> QED
  BY <1>1, <1>2, <1>3, <1>4, <1>5, <1>6, InPlace

\* yield() gives up the CPU with ptable.lock held.
LEMMA YieldInv ==
  ASSUME IInv, NEW c \in CPUs, Yield(c)
  PROVE  IInv'
<1> USE Constants
<1> DEFINE p == stack[c]
<1>1. p \in Slots /\ lock = None /\ c \in intr /\ State(p) = "RUNNING"
  BY OnStack DEF Yield, IInv, Switching
<1>2. /\ UNCHANGED <<nextpid, stack, scan, np>> /\ lock' = c /\ intr' = intr \ {c}
      /\ proc' = [proc EXCEPT ![p].state = "RUNNABLE"]
      /\ pc' = [pc EXCEPT ![p] = IF pc[p] = "user" THEN "return" ELSE pc[p]]
  BY DEF Yield, Goto
<1> HIDE DEF p
<1>3. /\ proc' \in [Slots -> Record]
      /\ \A q \in Slots : State(q)' = IF q = p THEN "RUNNABLE" ELSE State(q)
      /\ \A q \in Slots : Parent(q)' = Parent(q) /\ Chan(q)' = Chan(q)
      /\ \A q \in Slots : Killed(q)' = Killed(q) /\ HasStack(q)' = HasStack(q)
  BY <1>1, <1>2, SetState DEF States, IInv
<1>4. pc' \in [Slots -> Labels] /\ \A q \in Slots : pc'[q] = pc[q] \/ (pc[q] \notin InFork /\ pc'[q] \notin InFork)
  BY <1>1, <1>2 DEF IInv, Types, Labels, InFork
<1>5. Types'
  BY <1>2, <1>3, <1>4 DEF IInv, Types
<1>6. Switching'
  BY <1>1, <1>2 DEF IInv, Switching, Types
<1>7. \A d \in CPUs, q \in Slots : stack[d] = q => State(q)' = "RUNNING" \/ lock' = d
  BY <1>1, <1>2, <1>3 DEF p, IInv, Stacks
<1> QED
  BY <1>1, <1>2, <1>3, <1>4, <1>5, <1>6, <1>7, InPlace DEF Living

\* A process that executes kernel code of its own.
LEMMA Executing ==
  ASSUME IInv, NEW c \in CPUs, NEW l, At(c, l)
  PROVE  /\ stack[c] \in Slots /\ stack[c] # None /\ lock # c /\ c \notin intr
         /\ State(stack[c]) = "RUNNING" /\ pc[stack[c]] = l
  BY OnStack DEF At

\* Steps from one place to another, outside fork() and without a lock.
LEMMA LocalInv ==
  ASSUME IInv, NEW c \in CPUs,
         \/ Return(c) \/ TrapKilled(c) \/ SysExit(c) \/ ExitInit(c)
         \/ SysWait(c) \/ SysSleep(c) \/ SleepTest(c)
  PROVE  IInv'
<1> USE Constants
<1> DEFINE p == stack[c]
<1>1. p \in Slots /\ State(p) = "RUNNING" /\ pc[p] \in {"return", "user", "exit", "sleep"}
  BY Executing
  DEF Return, TrapKilled, SysExit, ExitInit, SysWait, SysSleep, SleepTest, Enter
<1>2. /\ UNCHANGED <<proc, nextpid, lock, stack, scan, intr, np>>
      /\ \/ pc' = pc
         \/ \E l \in {"exit", "user", "wait", "sleep", "sleep_lock", "return"} :
              pc' = [pc EXCEPT ![p] = l]
  BY DEF Return, TrapKilled, SysExit, ExitInit, SysWait, SysSleep, SleepTest, Goto
<1> HIDE DEF p
<1>3. /\ pc' \in [Slots -> Labels]
      /\ \A q \in Slots : pc'[q] = pc[q] \/ (pc[q] \notin InFork /\ pc'[q] \notin InFork)
  BY ZenonT(60), <1>1, <1>2 DEF IInv, Types, Labels, InFork
<1>4. \A q \in Slots : /\ State(q)' = State(q) /\ Parent(q)' = Parent(q)
                       /\ Chan(q)' = Chan(q) /\ Killed(q)' = Killed(q)
                       /\ HasStack(q)' = HasStack(q)
  BY <1>2 DEF State, Parent, Chan, Killed, HasStack
<1>5. Types' /\ Switching'
  BY <1>2, <1>3 DEF IInv, Types, Switching
<1>6. \A d \in CPUs, q \in Slots : stack[d] = q => State(q)' = "RUNNING" \/ lock' = d
  BY <1>2, <1>4 DEF IInv, Stacks
<1> QED
  BY <1>2, <1>3, <1>4, <1>5, <1>6, InPlace

\* A fault kills its own process.
LEMMA FaultInv ==
  ASSUME IInv, NEW c \in CPUs, Fault(c)
  PROVE  IInv'
<1> USE Constants
<1> DEFINE p == stack[c]
<1>1. p \in Slots /\ State(p) = "RUNNING" /\ pc[p] = "user"
  BY Executing DEF Fault
<1>2. /\ UNCHANGED <<nextpid, lock, stack, scan, intr, np>>
      /\ pc' = [pc EXCEPT ![p] = "exit"]
      /\ proc' = [proc EXCEPT ![p].killed = TRUE]
  BY DEF Fault, Goto
<1> HIDE DEF p
<1>3. /\ proc' \in [Slots -> Record]
      /\ \A q \in Slots : /\ State(q)' = State(q) /\ Parent(q)' = Parent(q)
                          /\ Chan(q)' = Chan(q) /\ HasStack(q)' = HasStack(q)
                          /\ q # p => Killed(q)' = Killed(q)
  <2>1. proc[p] \in Record /\ proc \in [Slots -> Record]
    BY <1>1 DEF IInv, Types
  <2> DEFINE r == [proc[p] EXCEPT !.killed = TRUE]
  <2>2. r \in Record /\ r.state = proc[p].state /\ r.parent = proc[p].parent
        /\ r.chan = proc[p].chan /\ r.kstack = proc[p].kstack
    BY <2>1 DEF Record
  <2>3. proc' = [proc EXCEPT ![p] = r]
    BY <1>2
  <2> HIDE DEF r
  <2>4. proc' \in [Slots -> Record] /\ \A q \in Slots : proc'[q] = IF q = p THEN r ELSE proc[q]
    BY <2>1, <2>2, <2>3
  <2> QED
    BY <2>2, <2>4 DEF State, Parent, Chan, Killed, HasStack
<1>4. /\ pc' \in [Slots -> Labels]
      /\ \A q \in Slots : pc'[q] = pc[q] \/ (pc[q] \notin InFork /\ pc'[q] \notin InFork)
  BY <1>1, <1>2 DEF IInv, Types, Labels, InFork
<1>5. Types' /\ Switching'
  BY <1>2, <1>3, <1>4 DEF IInv, Types, Switching
<1>6. \A d \in CPUs, q \in Slots : stack[d] = q => State(q)' = "RUNNING" \/ lock' = d
  BY <1>2, <1>3 DEF IInv, Stacks
<1> QED
  BY <1>1, <1>2, <1>3, <1>4, <1>5, <1>6, InPlace

\* sys_sleep sleeps on &ticks, never on a slot.
LEMMA SleepInv ==
  ASSUME IInv, NEW c \in CPUs, Sleep(c)
  PROVE  IInv'
<1> USE Constants
<1> DEFINE p == stack[c]
<1>1. p \in Slots /\ lock = None /\ c \notin intr /\ p # None
      /\ State(p) = "RUNNING" /\ pc[p] = "sleep_lock"
  BY Executing DEF Sleep
<1>2. /\ UNCHANGED <<nextpid, stack, scan, intr, np>> /\ lock' = c
      /\ pc' = [pc EXCEPT ![p] = "sleep"]
      /\ proc' = [proc EXCEPT ![p].chan = Ticks, ![p].state = "SLEEPING"]
  BY DEF Sleep, Goto
<1> HIDE DEF p
<1>3. /\ proc' \in [Slots -> Record]
      /\ \A q \in Slots : /\ Parent(q)' = Parent(q) /\ Killed(q)' = Killed(q)
                          /\ HasStack(q)' = HasStack(q)
                          /\ State(q)' = IF q = p THEN "SLEEPING" ELSE State(q)
                          /\ Chan(q)' = IF q = p THEN Ticks ELSE Chan(q)
  <2>1. proc[p] \in Record /\ proc \in [Slots -> Record]
    BY <1>1 DEF IInv, Types
  <2> DEFINE r == [proc[p] EXCEPT !.chan = Ticks, !.state = "SLEEPING"]
  <2>2. r \in Record /\ r.state = "SLEEPING" /\ r.parent = proc[p].parent
        /\ r.chan = Ticks /\ r.kstack = proc[p].kstack /\ r.killed = proc[p].killed
    BY <2>1 DEF Record, States
  <2>3. proc' = [proc EXCEPT ![p] = r]
    BY <1>2
  <2> HIDE DEF r
  <2>4. proc' \in [Slots -> Record] /\ \A q \in Slots : proc'[q] = IF q = p THEN r ELSE proc[q]
    BY <2>1, <2>2, <2>3
  <2> QED
    BY <2>2, <2>4 DEF State, Parent, Chan, Killed, HasStack
<1>4. /\ pc' \in [Slots -> Labels]
      /\ \A q \in Slots : pc'[q] = pc[q] \/ (pc[q] \notin InFork /\ pc'[q] \notin InFork)
  BY <1>1, <1>2 DEF IInv, Types, Labels, InFork
<1>5. Types'
  BY <1>2, <1>3, <1>4 DEF IInv, Types
<1>6. Switching'
  BY <1>1, <1>2 DEF IInv, Switching, Types
<1>7. \A d \in CPUs, q \in Slots : stack[d] = q => State(q)' = "RUNNING" \/ lock' = d
  BY <1>1, <1>2, <1>3 DEF p, IInv, Stacks
<1> QED
  BY <1>1, <1>2, <1>3, <1>4, <1>5, <1>6, <1>7, InPlace DEF Living

\* The table after record r is stored in slot p.
LEMMA Store ==
  ASSUME Types, NEW p \in Slots, NEW r \in Record, proc' = [proc EXCEPT ![p] = r]
  PROVE  /\ proc' \in [Slots -> Record]
         /\ \A q \in Slots : q # p =>
              /\ State(q)' = State(q) /\ Parent(q)' = Parent(q) /\ Chan(q)' = Chan(q)
              /\ Killed(q)' = Killed(q) /\ HasStack(q)' = HasStack(q)
         /\ State(p)' = r.state /\ Parent(p)' = r.parent /\ Chan(p)' = r.chan
         /\ Killed(p)' = (r.killed = TRUE) /\ HasStack(p)' = (r.kstack = TRUE)
<1>1. proc' \in [Slots -> Record] /\ \A q \in Slots : proc'[q] = IF q = p THEN r ELSE proc[q]
  BY DEF Types
<1> QED
  BY <1>1 DEF State, Parent, Chan, Killed, HasStack

\* kill() wakes its victim from any sleep.
LEMMA KillInv ==
  ASSUME IInv, NEW c \in CPUs, NEW pid \in KillArgs, Kill(c, pid)
  PROVE  IInv'
<1> USE Constants
<1> DEFINE p == stack[c]
           found == {q \in Slots : proc[q].pid = pid}
           v == Lowest(found)
           r == [proc[v] EXCEPT !.killed = TRUE,
                                !.state = IF @ = "SLEEPING" THEN "RUNNABLE" ELSE @]
<1>1. p \in Slots /\ State(p) = "RUNNING" /\ pc[p] = "user"
  BY SMTT(30), Executing DEF Kill, Enter
<1>2. /\ UNCHANGED <<nextpid, lock, stack, scan, intr, np>>
      /\ pc' = [pc EXCEPT ![p] = "return"]
      /\ proc' = proc \/ (found # {} /\ proc' = [proc EXCEPT ![v] = r])
  BY DEF Kill, Goto, MarkKilled
<1>3. /\ proc' \in [Slots -> Record]
      /\ \A q \in Slots :
           /\ Parent(q)' = Parent(q) /\ HasStack(q)' = HasStack(q) /\ Chan(q)' = Chan(q)
           /\ \/ State(q)' = State(q) /\ Killed(q)' = Killed(q)
              \/ State(q)' = State(q) /\ State(q) # "SLEEPING"
              \/ State(q)' = "RUNNABLE" /\ State(q) = "SLEEPING"
  <2>1. CASE proc' = proc
    BY <2>1 DEF IInv, Types, State, Parent, Chan, Killed, HasStack
  <2>2. CASE found # {} /\ proc' = [proc EXCEPT ![v] = r]
    <3>1. v \in Slots
      <4>1. found \subseteq Slots
        OBVIOUS
      <4> HIDE DEF found
      <4> QED
        BY <2>2, <4>1, LowestIn
    <3>2. proc[v] \in Record
      BY <3>1 DEF IInv, Types
    <3>3. /\ r \in Record /\ r.parent = proc[v].parent /\ r.chan = proc[v].chan
          /\ r.kstack = proc[v].kstack
          /\ r.state = IF proc[v].state = "SLEEPING" THEN "RUNNABLE" ELSE proc[v].state
      <4> HIDE DEF v
      <4> QED
        BY <3>2 DEF Record, States
    <3> HIDE DEF r, v
    <3>4. /\ Parent(v) = r.parent /\ Chan(v) = r.chan /\ HasStack(v) = (r.kstack = TRUE)
          /\ r.state = IF State(v) = "SLEEPING" THEN "RUNNABLE" ELSE State(v)
      BY <3>3 DEF State, Parent, Chan, HasStack
    <3>5. Types
      BY DEF IInv
    <3> QED
      BY ZenonT(60), <2>2, <3>1, <3>3, <3>4, <3>5, Store
  <2> QED
    BY <1>2, <2>1, <2>2
<1> HIDE DEF p, found, v, r
<1>4. /\ pc' \in [Slots -> Labels]
      /\ \A q \in Slots : pc'[q] = pc[q] \/ (pc[q] \notin InFork /\ pc'[q] \notin InFork)
  BY <1>1, <1>2 DEF IInv, Types, Labels, InFork
<1>5. Types' /\ Switching'
  BY <1>2, <1>3, <1>4 DEF IInv, Types, Switching
<1>6. \A d \in CPUs, q \in Slots : stack[d] = q => State(q)' = "RUNNING" \/ lock' = d
  BY <1>2, <1>3 DEF IInv, Stacks
<1> QED
  BY <1>2, <1>3, <1>4, <1>5, <1>6, InPlace DEF Living

\* wakeup1() on channel ch makes its sleepers RUNNABLE and changes nothing else.
LEMMA Woken ==
  ASSUME NEW t \in [Slots -> Record], NEW ch
  PROVE  /\ Wakeup1(t, ch) \in [Slots -> Record]
         /\ \A q \in Slots :
              LET w == Wakeup1(t, ch)[q] IN
              /\ w.parent = t[q].parent /\ w.chan = t[q].chan
              /\ w.killed = t[q].killed /\ w.kstack = t[q].kstack
              /\ w.state = IF t[q].state = "SLEEPING" /\ t[q].chan = ch
                           THEN "RUNNABLE" ELSE t[q].state
<1>1. ASSUME NEW q \in Slots
      PROVE  LET w == Wakeup1(t, ch)[q] IN
              /\ w \in Record
              /\ w.parent = t[q].parent /\ w.chan = t[q].chan
              /\ w.killed = t[q].killed /\ w.kstack = t[q].kstack
              /\ w.state = IF t[q].state = "SLEEPING" /\ t[q].chan = ch
                           THEN "RUNNABLE" ELSE t[q].state
  <2> DEFINE x == t[q]
  <2>1. x \in Record
    OBVIOUS
  <2>2. Wakeup1(t, ch)[q] = IF x.state = "SLEEPING" /\ x.chan = ch
                            THEN [x EXCEPT !.state = "RUNNABLE"] ELSE x
    BY DEF Wakeup1
  <2> HIDE DEF x
  <2>3. /\ [x EXCEPT !.state = "RUNNABLE"] \in Record
        /\ [x EXCEPT !.state = "RUNNABLE"].parent = x.parent
        /\ [x EXCEPT !.state = "RUNNABLE"].chan = x.chan
        /\ [x EXCEPT !.state = "RUNNABLE"].killed = x.killed
        /\ [x EXCEPT !.state = "RUNNABLE"].kstack = x.kstack
        /\ [x EXCEPT !.state = "RUNNABLE"].state = "RUNNABLE"
    BY <2>1 DEF Record, States
  <2> QED
    BY <2>1, <2>2, <2>3 DEF x
<1>2. Wakeup1(t, ch) \in [Slots -> Record]
  BY <1>1 DEF Wakeup1
<1> QED
  BY <1>1, <1>2

\* The clock wakes who sleeps on &ticks, and nobody who waits for a child.
LEMMA TimerInv ==
  ASSUME IInv, NEW c \in CPUs, Timer(c)
  PROVE  IInv'
<1> USE Constants
<1> DEFINE p == stack[c]
<1>1. /\ UNCHANGED <<nextpid, lock, stack, scan, np>>
      /\ proc' = proc \/ proc' = Wakeup1(proc, Ticks)
      /\ \/ /\ p # None /\ pc[p] = "user" /\ pc' = [pc EXCEPT ![p] = "exit"] /\ intr' = intr
         \/ pc' = pc /\ (intr' = intr \/ (p # None /\ intr' = intr \cup {c}))
      /\ lock # c
  BY DEF Timer, Interruptible, Goto
<1>2. p # None => p \in Slots
  BY OnStack
<1>3. proc \in [Slots -> Record]
  BY DEF IInv, Types
<1>4. /\ proc' \in [Slots -> Record]
      /\ \A q \in Slots :
           /\ Parent(q)' = Parent(q) /\ HasStack(q)' = HasStack(q)
           /\ Chan(q)' = Chan(q) /\ Killed(q)' = Killed(q)
           /\ State(q)' = State(q) \/ (State(q)' = "RUNNABLE" /\ State(q) = "SLEEPING")
  <2>1. CASE proc' = proc
    BY <1>3, <2>1 DEF State, Parent, Chan, Killed, HasStack
  <2>2. CASE proc' = Wakeup1(proc, Ticks)
    BY <1>3, <2>2, Woken DEF State, Parent, Chan, Killed, HasStack
  <2> QED
    BY <1>1, <2>1, <2>2
<1>5. /\ pc' \in [Slots -> Labels]
      /\ \A q \in Slots : pc'[q] = pc[q] \/ (pc[q] \notin InFork /\ pc'[q] \notin InFork)
  BY ZenonT(60), <1>1, <1>2 DEF IInv, Types, Labels, InFork
<1>6. Types' /\ Switching'
  BY <1>1, <1>4, <1>5 DEF IInv, Types, Switching
<1>7. \A d \in CPUs, q \in Slots : stack[d] = q => State(q)' = "RUNNING" \/ lock' = d
  BY <1>1, <1>4 DEF IInv, Stacks
<1> QED
  BY <1>1, <1>4, <1>5, <1>6, <1>7, InPlace DEF Living

-----------------------------------------------------------------------------
(* fork()                                                                  *)

\* Forking is kept when process p moves and no other in fork() is disturbed.
LEMMA ForkingKept ==
  ASSUME IInv, NEW p \in Slots,
         \A x \in Slots \ {p} : np'[x] = np[x] /\ (pc'[x] = pc[x] \/ pc'[x] \notin InFork),
         \A x \in Slots \ {p}, m \in Slots : pc[x] \in InFork /\ np[x] = m =>
           State(m)' = State(m) /\ Parent(m)' = Parent(m) /\ HasStack(m)' = HasStack(m),
         pc'[p] \in InFork =>
           /\ np'[p] \in Slots
           /\ \A x \in Slots \ {p} : pc[x] \in InFork => np[x] # np'[p]
           /\ \A m \in Slots : np'[p] = m =>
                /\ State(m)' = "EMBRYO"
                /\ pc'[p] # "fork_kstack" => HasStack(m)'
                /\ pc'[p] # "fork_run" => Parent(m)' = None
                /\ pc'[p] = "fork_run" => Parent(m)' = p
  PROVE  Forking'
<1>1. \A x \in Slots \ {p} : pc'[x] \in InFork => pc[x] = pc'[x] /\ np'[x] \in Slots
  BY DEF IInv, Forking
<1>2. ASSUME NEW x \in Slots, NEW m \in Slots, pc'[x] \in InFork, np'[x] = m
      PROVE  /\ State(m)' = "EMBRYO"
             /\ pc'[x] # "fork_kstack" => HasStack(m)'
             /\ pc'[x] # "fork_run" => Parent(m)' = None
             /\ pc'[x] = "fork_run" => Parent(m)' = x
  <2>1. CASE x = p
    BY <1>2, <2>1
  <2>2. CASE x # p
    <3>1. pc[x] = pc'[x] /\ np[x] = m
      BY <1>1, <1>2, <2>2
    <3>2. State(m)' = State(m) /\ Parent(m)' = Parent(m) /\ HasStack(m)' = HasStack(m)
      BY <1>2, <2>2, <3>1
    <3> QED
      BY <1>2, <3>1, <3>2 DEF IInv, Forking
  <2> QED
    BY <2>1, <2>2
<1>3. ASSUME NEW x \in Slots, NEW y \in Slots, pc'[x] \in InFork, pc'[y] \in InFork, x # y
      PROVE  np'[x] # np'[y]
  <2>1. CASE x = p
    BY <1>1, <1>3, <2>1
  <2>2. CASE y = p
    BY <1>1, <1>3, <2>2
  <2>3. CASE x # p /\ y # p
    BY <1>1, <1>3, <2>3 DEF IInv, Forking
  <2> QED
    BY <2>1, <2>2, <2>3
<1> QED
  BY <1>1, <1>2, <1>3 DEF Forking

\* allocproc finds a slot that nobody is forking into, or none.
LEMMA AllocProcInv ==
  ASSUME IInv, NEW c \in CPUs, AllocProc(c)
  PROVE  IInv'
<1> USE Constants
<1> DEFINE p == stack[c]
           free == {q \in Slots : proc[q].state = "UNUSED"}
           n == Lowest(free)
           r == [proc[n] EXCEPT !.state = "EMBRYO", !.pid = nextpid]
<1>1. p \in Slots /\ State(p) = "RUNNING" /\ pc[p] = "user" /\ p # None
  BY Executing DEF AllocProc, Enter
<1>2. /\ UNCHANGED <<lock, stack, scan, intr>>
      /\ \/ pc' = [pc EXCEPT ![p] = "return"] /\ UNCHANGED <<proc, nextpid, np>>
         \/ /\ free # {} /\ proc' = [proc EXCEPT ![n] = r] /\ nextpid' = nextpid + 1
            /\ np' = [np EXCEPT ![p] = n] /\ pc' = [pc EXCEPT ![p] = "fork_kstack"]
  BY DEF AllocProc, Goto
<1>3. CASE pc' = [pc EXCEPT ![p] = "return"] /\ UNCHANGED <<proc, nextpid, np>>
  <2> HIDE DEF p
  <2>1. /\ pc' \in [Slots -> Labels]
        /\ \A q \in Slots : pc'[q] = pc[q] \/ (pc[q] \notin InFork /\ pc'[q] \notin InFork)
    BY <1>1, <1>3 DEF IInv, Types, Labels, InFork
  <2>2. \A q \in Slots : /\ State(q)' = State(q) /\ Parent(q)' = Parent(q)
                         /\ Chan(q)' = Chan(q) /\ Killed(q)' = Killed(q)
                         /\ HasStack(q)' = HasStack(q)
    BY <1>3 DEF State, Parent, Chan, Killed, HasStack
  <2>3. Types' /\ Switching'
    BY <1>2, <1>3, <2>1 DEF IInv, Types, Switching
  <2>4. \A d \in CPUs, q \in Slots : stack[d] = q => State(q)' = "RUNNING" \/ lock' = d
    BY <1>2, <2>2 DEF IInv, Stacks
  <2> QED
    BY <1>2, <1>3, <2>1, <2>2, <2>3, <2>4, InPlace
<1>4. CASE /\ free # {} /\ proc' = [proc EXCEPT ![n] = r] /\ nextpid' = nextpid + 1
           /\ np' = [np EXCEPT ![p] = n] /\ pc' = [pc EXCEPT ![p] = "fork_kstack"]
  <2>1. n \in Slots /\ State(n) = "UNUSED"
    <3>1. free \subseteq Slots
      OBVIOUS
    <3>2. n \in free
      <4> HIDE DEF free
      <4> QED
        BY <1>4, <3>1, LowestIn
    <3> QED
      BY <3>2 DEF State
  <2> HIDE DEF n, p
  <2>2. /\ r \in Record /\ r.state = "EMBRYO" /\ r.parent = Parent(n) /\ r.chan = Chan(n)
        /\ (r.killed = TRUE) = Killed(n) /\ (r.kstack = TRUE) = HasStack(n)
    <3>1. proc[n] \in Record /\ nextpid \in Nat
      BY <2>1 DEF IInv, Types
    <3> QED
      BY <3>1 DEF Record, States, Parent, Chan, Killed, HasStack
  <2> HIDE DEF r
  <2>3. /\ proc' \in [Slots -> Record]
        /\ \A q \in Slots :
             /\ Parent(q)' = Parent(q) /\ HasStack(q)' = HasStack(q)
             /\ Chan(q)' = Chan(q) /\ Killed(q)' = Killed(q)
             /\ State(q)' = IF q = n THEN "EMBRYO" ELSE State(q)
    BY <1>4, <2>1, <2>2, Store DEF IInv
  <2>4. Types'
    <3>1. pc' \in [Slots -> Labels]
      BY <1>1, <1>4 DEF IInv, Types, Labels, InFork
    <3>2. np' \in [Slots -> Slots \cup {None}]
      BY <1>1, <1>4, <2>1 DEF IInv, Types
    <3>3. nextpid' \in Nat
      <4>1. nextpid' = nextpid + 1
        BY <1>4
      <4>2. nextpid \in Nat
        BY DEF IInv, Types
      <4> QED
        BY <4>1, <4>2
    <3> QED
      BY <1>2, <2>3, <3>1, <3>2, <3>3 DEF IInv, Types
  <2>5. Switching'
    BY <1>2 DEF IInv, Switching
  <2>6. Stacks'
    <3>1. \A d \in CPUs : stack[d] # None => stack[d] \in Slots /\ stack[d] # n
      BY <2>1 DEF IInv, Types, Stacks, Started, Living
    <3> QED
      BY <1>2, <2>3, <3>1 DEF IInv, Stacks, Started, Living
  <2>7. Forking'
    <3>1. \A x \in Slots \ {p} : np'[x] = np[x] /\ pc'[x] = pc[x]
      BY <1>1, <1>4 DEF IInv, Types
    <3>2. \A x, m \in Slots : pc[x] \in InFork /\ np[x] = m => m # n
      BY <2>1 DEF IInv, Forking
    <3>3. pc'[p] = "fork_kstack" /\ np'[p] = n /\ Parent(n) = None
      BY <1>1, <1>4, <2>1 DEF IInv, Types, Family
    <3> QED
      BY <1>1, <2>1, <2>3, <3>1, <3>2, <3>3, ForkingKept
  <2>8. Family'
    BY <2>1, <2>3 DEF IInv, Family, Started, Living
  <2>9. Waiting'
    BY <2>1, <2>3 DEF IInv, Waiting
  <2> QED
    BY <2>4, <2>5, <2>6, <2>7, <2>8, <2>9 DEF IInv
<1> QED
  BY <1>2, <1>3, <1>4

\* Family is kept when slot n alone changes, and is or becomes a child of p.
LEMMA FamilyKept ==
  ASSUME IInv, NEW p \in Slots, NEW n \in Slots, n # p, State(p) = "RUNNING",
         \A m \in Slots : m = n =>
           /\ State(m) = "EMBRYO"
           /\ Parent(m)' = None \/ Parent(m)' = p
           /\ State(m)' = "UNUSED" => Parent(m)' = None
           /\ State(m)' \in Started => Parent(m)' = p,
         \A q \in Slots : q # n => State(q)' = State(q) /\ Parent(q)' = Parent(q)
  PROVE  Family'
<1> USE Constants
<1>1. n # initproc
  BY DEF IInv, Family, Living
<1>2. \A x \in Slots : State(x) \in Started => x # n /\ Parent(x) # n
  BY DEF IInv, Family, Started, Living
<1>3. State(initproc)' \in Living /\ Parent(initproc)' = None
  BY <1>1 DEF IInv, Family
<1>4. \A x \in Slots : /\ Parent(x)' \in Slots \cup {None} /\ Parent(x)' # x
                       /\ State(x)' = "UNUSED" => Parent(x)' = None
  BY DEF IInv, Family
<1>5. \A x \in Slots \ {initproc} : State(x)' \in Started => Parent(x)' # None
  BY DEF IInv, Family
<1>6. ASSUME NEW x \in Slots, NEW q \in Slots, State(x)' \in Started, Parent(x)' = q
      PROVE  State(q)' \in Living
  <2>1. q # n
    BY <1>2, <1>6
  <2>2. State(q) \in Living
    BY <1>6 DEF IInv, Family, Living
  <2> QED
    BY <2>1, <2>2
<1> QED
  BY <1>3, <1>4, <1>5, <1>6 DEF Family

\* So is Waiting.
LEMMA WaitingKept ==
  ASSUME IInv, NEW p \in Slots, NEW n \in Slots, n # p, State(p) = "RUNNING",
         \A m \in Slots : m = n =>
           /\ State(m)' # "SLEEPING"
           /\ Parent(m) = None \/ Parent(m) = p
           /\ Parent(m)' = None \/ Parent(m)' = p,
         \A q \in Slots : q # n =>
           /\ State(q)' = State(q) /\ Parent(q)' = Parent(q) /\ Chan(q)' = Chan(q)
           /\ Killed(q)' => Killed(q)
  PROVE  Waiting'
<1> SUFFICES ASSUME NEW x \in Slots, State(x)' = "SLEEPING", Chan(x)' = x
             PROVE  /\ \E q \in Slots : Parent(q)' = x
                    /\ \A q \in Slots : Parent(q)' = x => State(q)' # "ZOMBIE"
                    /\ ~Killed(x)'
  BY DEF Waiting
<1> USE Constants
<1>1. x # n /\ x # p /\ State(x) = "SLEEPING" /\ Chan(x) = x
  OBVIOUS
<1>2. ~Killed(x)'
  BY <1>1 DEF IInv, Waiting
<1>3. \A q \in Slots : Parent(q) = x \/ Parent(q)' = x => q # n
  BY <1>1
<1>4. \E q \in Slots : Parent(q) = x
  BY <1>1 DEF IInv, Waiting
<1>5. \A q \in Slots : Parent(q) = x => State(q) # "ZOMBIE"
  BY <1>1 DEF IInv, Waiting
<1> QED
  BY <1>2, <1>3, <1>4, <1>5

\* No slot but n changes.
Untouched(n) ==
  \A q \in Slots : q # n =>
    /\ State(q)' = State(q) /\ Parent(q)' = Parent(q) /\ Chan(q)' = Chan(q)
    /\ Killed(q)' = Killed(q) /\ HasStack(q)' = HasStack(q)

\* What p's step in fork() makes of its slot n.
ForkOutcome(p, n) ==
  \A m \in Slots : m = n =>
    \/ /\ State(m)' = "EMBRYO" /\ pc'[p] \in InFork /\ np'[p] = n
       /\ pc'[p] # "fork_kstack" => HasStack(m)'
       /\ Parent(m)' = IF pc'[p] = "fork_run" THEN p ELSE None
    \/ State(m)' = "UNUSED" /\ pc'[p] \notin InFork /\ Parent(m)' = None
    \/ State(m)' = "RUNNABLE" /\ pc'[p] \notin InFork /\ Parent(m)' = p /\ HasStack(m)'

\* The rest of fork(): p works on the slot n that it has to itself.
LEMMA ForkStep ==
  ASSUME IInv, NEW p \in Slots, NEW n \in Slots,
         State(p) = "RUNNING", pc[p] \in InFork, np[p] = n,
         UNCHANGED <<nextpid, lock, stack, scan, intr>>,
         proc' \in [Slots -> Record],
         pc' \in [Slots -> Labels], np' \in [Slots -> Slots \cup {None}],
         \A x \in Slots \ {p} : np'[x] = np[x] /\ (pc'[x] = pc[x] \/ pc'[x] \notin InFork),
         Untouched(n),
         ForkOutcome(p, n)
  PROVE  IInv'
<1> USE Constants DEF Untouched, ForkOutcome
<1>1. /\ State(n) = "EMBRYO" /\ n # p
      /\ \A m \in Slots : m = n => State(m) = "EMBRYO" /\ (Parent(m) = None \/ Parent(m) = p)
  BY DEF IInv, Forking
<1>2. Types'
  BY DEF IInv, Types
<1>3. Switching'
  BY DEF IInv, Switching
<1>4. Stacks'
  <2>1. \A d \in CPUs : stack[d] # None => stack[d] \in Slots /\ stack[d] # n
    BY ZenonT(60), <1>1 DEF IInv, Types, Stacks, Started, Living
  <2>2. \A m \in Slots : m = n /\ State(m)' \in Started => HasStack(m)'
    BY DEF Started, Living
  <2> QED
    BY <2>1, <2>2 DEF IInv, Stacks
<1>5. Forking'
  <2>1. \A x \in Slots \ {p} : pc[x] \in InFork => np[x] # n
    BY DEF IInv, Forking
  <2>2. \A x \in Slots \ {p}, m \in Slots : pc[x] \in InFork /\ np[x] = m =>
          State(m)' = State(m) /\ Parent(m)' = Parent(m) /\ HasStack(m)' = HasStack(m)
    BY <2>1
  <2>3. pc'[p] \in InFork =>
           /\ np'[p] = n
           /\ \A m \in Slots : np'[p] = m =>
                /\ State(m)' = "EMBRYO"
                /\ pc'[p] # "fork_kstack" => HasStack(m)'
                /\ pc'[p] # "fork_run" => Parent(m)' = None
                /\ pc'[p] = "fork_run" => Parent(m)' = p
    OBVIOUS
  <2> QED
    BY <2>1, <2>2, <2>3, ForkingKept
<1>6. Family'
  <2>1. \A m \in Slots : m = n =>
          /\ State(m) = "EMBRYO"
          /\ Parent(m)' = None \/ Parent(m)' = p
          /\ State(m)' = "UNUSED" => Parent(m)' = None
          /\ State(m)' \in Started => Parent(m)' = p
    BY <1>1 DEF Started, Living
  <2>2. \A q \in Slots : q # n => State(q)' = State(q) /\ Parent(q)' = Parent(q)
    OBVIOUS
  <2> QED
    BY ZenonT(60), <1>1, <2>1, <2>2, FamilyKept
<1>7. Waiting'
  <2>1. \A m \in Slots : m = n =>
          /\ State(m)' # "SLEEPING"
          /\ Parent(m) = None \/ Parent(m) = p
          /\ Parent(m)' = None \/ Parent(m)' = p
    BY <1>1
  <2>2. \A q \in Slots : q # n =>
          /\ State(q)' = State(q) /\ Parent(q)' = Parent(q) /\ Chan(q)' = Chan(q)
          /\ Killed(q)' => Killed(q)
    OBVIOUS
  <2> QED
    BY ZenonT(60), <1>1, <2>1, <2>2, WaitingKept
<1> QED
  BY ZenonT(60), <1>2, <1>3, <1>4, <1>5, <1>6, <1>7 DEF IInv

\* The same, where record r is stored in slot n.
LEMMA ForkStore ==
  ASSUME IInv, NEW p \in Slots, NEW n \in Slots, NEW r \in Record,
         State(p) = "RUNNING", pc[p] \in InFork, np[p] = n,
         UNCHANGED <<nextpid, lock, stack, scan, intr>>,
         proc' = [proc EXCEPT ![n] = r],
         pc' \in [Slots -> Labels], np' \in [Slots -> Slots \cup {None}],
         \A x \in Slots \ {p} : np'[x] = np[x] /\ (pc'[x] = pc[x] \/ pc'[x] \notin InFork),
         \/ /\ r.state = "EMBRYO" /\ pc'[p] \in InFork /\ np'[p] = n
            /\ pc'[p] # "fork_kstack" => r.kstack = TRUE
            /\ r.parent = IF pc'[p] = "fork_run" THEN p ELSE None
         \/ r.state = "UNUSED" /\ pc'[p] \notin InFork /\ r.parent = None
         \/ r.state = "RUNNABLE" /\ pc'[p] \notin InFork /\ r.parent = p /\ r.kstack = TRUE
  PROVE  IInv'
<1> USE Constants
<1>1. /\ proc' \in [Slots -> Record]
      /\ Untouched(n)
      /\ \A m \in Slots : m = n =>
           /\ State(m)' = r.state /\ Parent(m)' = r.parent
           /\ HasStack(m)' = (r.kstack = TRUE)
  <2>1. proc' \in [Slots -> Record] /\ \A q \in Slots : proc'[q] = IF q = n THEN r ELSE proc[q]
    BY DEF IInv, Types
  <2> QED
    BY ZenonT(60), <2>1 DEF Untouched, State, Parent, Chan, Killed, HasStack
<1>2. ForkOutcome(p, n)
  BY <1>1 DEF ForkOutcome
<1> QED
  BY <1>1, <1>2, ForkStep

\* What fork() knows of its own slot.
LEMMA OwnSlot ==
  ASSUME IInv, NEW c \in CPUs, NEW l \in InFork, At(c, l)
  PROVE  /\ stack[c] \in Slots /\ State(stack[c]) = "RUNNING"
         /\ pc[stack[c]] = l /\ np[stack[c]] \in Slots
<1> DEFINE p == stack[c]
<1>1. p \in Slots /\ State(p) = "RUNNING" /\ pc[p] = l
  BY SMTT(30), Executing
<1> HIDE DEF p
<1>2. np[p] \in Slots
  BY <1>1 DEF IInv, Forking
<1> QED
  BY <1>1, <1>2 DEF p

\* kalloc() of the kernel stack succeeds, or the slot is given back.
LEMMA AllocKstackInv ==
  ASSUME IInv, NEW c \in CPUs, AllocKstack(c)
  PROVE  IInv'
<1> USE Constants
<1> DEFINE p == stack[c]
           n == np[p]
           good == [proc[n] EXCEPT !.kstack = TRUE]
           bad == [proc[n] EXCEPT !.state = "UNUSED"]
<1>1. p \in Slots /\ n \in Slots /\ State(p) = "RUNNING" /\ pc[p] = "fork_kstack"
  BY OwnSlot DEF AllocKstack, InFork
<1>2. /\ UNCHANGED <<nextpid, lock, stack, scan, intr>>
      /\ \/ /\ proc' = [proc EXCEPT ![n] = good] /\ np' = np
            /\ pc' = [pc EXCEPT ![p] = "fork_copy", ![n] = "user"]
         \/ /\ proc' = [proc EXCEPT ![n] = bad] /\ np' = [np EXCEPT ![p] = None]
            /\ pc' = [pc EXCEPT ![p] = "return"]
  BY DEF AllocKstack, Goto
<1>3. np[p] = n
  OBVIOUS
<1> HIDE DEF n, p
<1>4. State(n) = "EMBRYO" /\ Parent(n) = None /\ n # p
  BY <1>1, <1>3 DEF IInv, Forking, InFork
<1>5. /\ good \in Record /\ good.state = "EMBRYO" /\ good.parent = None /\ good.kstack = TRUE
      /\ bad \in Record /\ bad.state = "UNUSED" /\ bad.parent = None
  <2>1. proc[n] \in Record
    BY <1>1 DEF IInv, Types
  <2> QED
    BY <1>4, <2>1 DEF Record, States, State, Parent
<1> HIDE DEF good, bad
<1>6. /\ pc \in [Slots -> Labels] /\ np \in [Slots -> Slots \cup {None}]
      /\ pc[p] \in InFork
  BY <1>1 DEF IInv, Types, InFork
<1>7. CASE /\ proc' = [proc EXCEPT ![n] = good] /\ np' = np
           /\ pc' = [pc EXCEPT ![p] = "fork_copy", ![n] = "user"]
  <2>1. /\ pc' \in [Slots -> Labels] /\ pc'[p] = "fork_copy" /\ pc'[p] \in InFork
        /\ \A x \in Slots \ {p} : pc'[x] = pc[x] \/ pc'[x] \notin InFork
    BY ZenonT(60), <1>1, <1>4, <1>6, <1>7 DEF Labels, InFork
  <2> QED
    BY <1>1, <1>2, <1>3, <1>5, <1>6, <1>7, <2>1, ForkStore
<1>8. CASE /\ proc' = [proc EXCEPT ![n] = bad] /\ np' = [np EXCEPT ![p] = None]
           /\ pc' = [pc EXCEPT ![p] = "return"]
  <2>1. /\ pc' \in [Slots -> Labels] /\ pc'[p] \notin InFork
        /\ np' \in [Slots -> Slots \cup {None}]
        /\ \A x \in Slots \ {p} : pc'[x] = pc[x] /\ np'[x] = np[x]
    BY <1>1, <1>6, <1>8 DEF Labels, InFork
  <2> QED
    BY <1>1, <1>2, <1>3, <1>5, <1>6, <1>8, <2>1, ForkStore
<1> QED
  BY <1>2, <1>7, <1>8

\* The child becomes a child, or the slot and its stack are given back.
LEMMA ForkCopyInv ==
  ASSUME IInv, NEW c \in CPUs, ForkCopy(c)
  PROVE  IInv'
<1> USE Constants
<1> DEFINE p == stack[c]
           n == np[p]
           good == [proc[n] EXCEPT !.parent = p]
           bad == [proc[n] EXCEPT !.kstack = FALSE, !.state = "UNUSED"]
<1>1. p \in Slots /\ n \in Slots /\ State(p) = "RUNNING" /\ pc[p] = "fork_copy"
  BY OwnSlot DEF ForkCopy, InFork
<1>2. /\ UNCHANGED <<nextpid, lock, stack, scan, intr>>
      /\ \/ /\ proc' = [proc EXCEPT ![n] = good] /\ np' = np
            /\ pc' = [pc EXCEPT ![p] = "fork_run"]
         \/ /\ proc' = [proc EXCEPT ![n] = bad] /\ np' = [np EXCEPT ![p] = None]
            /\ pc' = [pc EXCEPT ![p] = "return"]
  BY ZenonT(60) DEF ForkCopy, Goto
<1>3. np[p] = n
  OBVIOUS
<1> HIDE DEF n, p
<1>4. State(n) = "EMBRYO" /\ Parent(n) = None /\ HasStack(n)
  BY <1>1, <1>3 DEF IInv, Forking, InFork
<1>5. /\ good \in Record /\ good.state = "EMBRYO" /\ good.parent = p /\ good.kstack = TRUE
      /\ bad \in Record /\ bad.state = "UNUSED" /\ bad.parent = None
  <2>1. proc[n] \in Record
    BY <1>1 DEF IInv, Types
  <2> QED
    BY <1>1, <1>4, <2>1 DEF Record, States, State, Parent, HasStack
<1> HIDE DEF good, bad
<1>6. /\ pc \in [Slots -> Labels] /\ np \in [Slots -> Slots \cup {None}]
      /\ pc[p] \in InFork
  BY ZenonT(60), <1>1 DEF IInv, Types, InFork
<1>7. CASE /\ proc' = [proc EXCEPT ![n] = good] /\ np' = np
           /\ pc' = [pc EXCEPT ![p] = "fork_run"]
  <2>1. /\ pc' \in [Slots -> Labels] /\ pc'[p] = "fork_run" /\ pc'[p] \in InFork
        /\ \A x \in Slots \ {p} : pc'[x] = pc[x] \/ pc'[x] \notin InFork
    BY ZenonT(60), <1>1, <1>6, <1>7 DEF Labels, InFork
  <2> QED
    BY <1>1, <1>2, <1>3, <1>5, <1>6, <1>7, <2>1, ForkStore
<1>8. CASE /\ proc' = [proc EXCEPT ![n] = bad] /\ np' = [np EXCEPT ![p] = None]
           /\ pc' = [pc EXCEPT ![p] = "return"]
  <2>1. /\ pc' \in [Slots -> Labels] /\ pc'[p] \notin InFork
        /\ np' \in [Slots -> Slots \cup {None}]
        /\ \A x \in Slots \ {p} : pc'[x] = pc[x] /\ np'[x] = np[x]
    BY <1>1, <1>6, <1>8 DEF Labels, InFork
  <2> QED
    BY <1>1, <1>2, <1>3, <1>5, <1>6, <1>8, <2>1, ForkStore
<1> QED
  BY <1>2, <1>7, <1>8

\* The child is RUNNABLE: it has a stack and a living parent.
LEMMA ForkRunInv ==
  ASSUME IInv, NEW c \in CPUs, ForkRun(c)
  PROVE  IInv'
<1> USE Constants
<1> DEFINE p == stack[c]
           n == np[p]
           r == [proc[n] EXCEPT !.state = "RUNNABLE"]
<1>1. p \in Slots /\ n \in Slots /\ State(p) = "RUNNING" /\ pc[p] = "fork_run"
  BY OwnSlot DEF ForkRun, InFork
<1>2. /\ UNCHANGED <<nextpid, lock, stack, scan, intr>>
      /\ proc' = [proc EXCEPT ![n] = r]
      /\ np' = [np EXCEPT ![p] = None] /\ pc' = [pc EXCEPT ![p] = "return"]
  BY DEF ForkRun, Goto
<1>3. np[p] = n
  OBVIOUS
<1> HIDE DEF n, p
<1>4. Parent(n) = p /\ HasStack(n)
  BY <1>1, <1>3 DEF IInv, Forking, InFork
<1>5. r \in Record /\ r.state = "RUNNABLE" /\ r.parent = p /\ r.kstack = TRUE
  <2>1. proc[n] \in Record
    BY <1>1 DEF IInv, Types
  <2> QED
    BY <1>4, <2>1 DEF Record, States, Parent, HasStack
<1> HIDE DEF r
<1>6. /\ pc \in [Slots -> Labels] /\ np \in [Slots -> Slots \cup {None}]
      /\ pc[p] \in InFork
  BY <1>1 DEF IInv, Types, InFork
<1>7. /\ pc' \in [Slots -> Labels] /\ pc'[p] \notin InFork
      /\ np' \in [Slots -> Slots \cup {None}]
      /\ \A x \in Slots \ {p} : pc'[x] = pc[x] /\ np'[x] = np[x]
  BY <1>1, <1>2, <1>6 DEF Labels, InFork
<1> QED
  BY <1>1, <1>2, <1>3, <1>5, <1>6, <1>7, ForkStore

-----------------------------------------------------------------------------
(* exit() and wait()                                                       *)

\* What exit() of p does to the table: p wakes its parent, its children go to
\* init, init is woken if one of them is dead, and p is a ZOMBIE.
ExitEffect(p) ==
  \A q \in Slots :
    /\ Parent(q)' = IF Parent(q) = p THEN initproc ELSE Parent(q)
    /\ Chan(q)' = Chan(q) /\ Killed(q)' = Killed(q) /\ HasStack(q)' = HasStack(q)
    /\ q = p => State(q)' = "ZOMBIE"
    /\ q # p => State(q)' = State(q) \/ (State(q) = "SLEEPING" /\ State(q)' = "RUNNABLE")
    /\ State(q)' = "SLEEPING" =>
         /\ Chan(q) # Parent(p)
         /\ Chan(q) = initproc => \A x \in Slots : Parent(x) = p => State(x) # "ZOMBIE"

\* The code has that effect.
LEMMA ExitTable ==
  ASSUME NEW p \in Slots, proc \in [Slots -> Record], State(p) = "RUNNING", Parent(p) # p,
         proc' = [Reparent(Wakeup1(proc, proc[p].parent), p) EXCEPT ![p].state = "ZOMBIE"]
  PROVE  proc' \in [Slots -> Record] /\ ExitEffect(p)
<1> USE Constants
<1> DEFINE t == Wakeup1(proc, proc[p].parent)
           dead == \E q \in Slots : t[q].parent = p /\ t[q].state = "ZOMBIE"
           given == [q \in Slots |-> IF t[q].parent = p
                                     THEN [t[q] EXCEPT !.parent = initproc] ELSE t[q]]
           u == IF dead THEN Wakeup1(given, initproc) ELSE given
           r == [u[p] EXCEPT !.state = "ZOMBIE"]
<1>1. /\ t \in [Slots -> Record]
      /\ \A q \in Slots :
           /\ t[q].parent = proc[q].parent /\ t[q].chan = proc[q].chan
           /\ t[q].killed = proc[q].killed /\ t[q].kstack = proc[q].kstack
           /\ t[q].state = IF proc[q].state = "SLEEPING" /\ proc[q].chan = proc[p].parent
                           THEN "RUNNABLE" ELSE proc[q].state
  BY SMTT(30), Woken
<1>2. proc' = [u EXCEPT ![p] = r]
  BY DEF Reparent
<1> HIDE DEF t
<1>3. /\ given \in [Slots -> Record]
      /\ \A q \in Slots :
           /\ given[q].parent = IF t[q].parent = p THEN initproc ELSE t[q].parent
           /\ given[q].chan = t[q].chan /\ given[q].killed = t[q].killed
           /\ given[q].kstack = t[q].kstack /\ given[q].state = t[q].state
  <2>1. ASSUME NEW q \in Slots
        PROVE  /\ given[q] \in Record
               /\ given[q].parent = IF t[q].parent = p THEN initproc ELSE t[q].parent
               /\ given[q].chan = t[q].chan /\ given[q].killed = t[q].killed
               /\ given[q].kstack = t[q].kstack /\ given[q].state = t[q].state
    <3> DEFINE x == t[q]
               y == [x EXCEPT !.parent = initproc]
    <3>1. x \in Record
      BY <1>1
    <3>2. given[q] = IF x.parent = p THEN y ELSE x
      OBVIOUS
    <3> HIDE DEF x, given
    <3>3. /\ y \in Record /\ y.parent = initproc /\ y.chan = x.chan
          /\ y.killed = x.killed /\ y.kstack = x.kstack /\ y.state = x.state
      BY <3>1 DEF Record
    <3> QED
      BY <3>1, <3>2, <3>3 DEF x
  <2> QED
    BY <2>1
<1> HIDE DEF given
<1>4. dead <=> \E q \in Slots : proc[q].parent = p /\ proc[q].state = "ZOMBIE"
  BY <1>1
<1>5. /\ u \in [Slots -> Record]
      /\ \A q \in Slots :
           /\ u[q].parent = given[q].parent /\ u[q].chan = given[q].chan
           /\ u[q].killed = given[q].killed /\ u[q].kstack = given[q].kstack
           /\ u[q].state = IF dead /\ given[q].state = "SLEEPING" /\ given[q].chan = initproc
                           THEN "RUNNABLE" ELSE given[q].state
  <2> HIDE DEF dead
  <2>1. CASE dead
    BY <1>3, <2>1, Woken
  <2>2. CASE ~dead
    BY <1>3, <2>2
  <2> QED
    BY <2>1, <2>2
<1> HIDE DEF dead, u
<1>6. /\ r \in Record /\ r.state = "ZOMBIE" /\ r.parent = u[p].parent /\ r.chan = u[p].chan
      /\ r.killed = u[p].killed /\ r.kstack = u[p].kstack
  <2>1. u[p] \in Record
    BY <1>5
  <2> QED
    BY <2>1 DEF Record, States
<1> HIDE DEF r
<1>7. /\ proc' \in [Slots -> Record]
      /\ \A q \in Slots : proc'[q] = IF q = p THEN r ELSE u[q]
  BY <1>2, <1>5, <1>6
<1>8. \A q \in Slots :
        /\ proc'[q].parent = IF proc[q].parent = p THEN initproc ELSE proc[q].parent
        /\ proc'[q].chan = proc[q].chan /\ proc'[q].killed = proc[q].killed
        /\ proc'[q].kstack = proc[q].kstack
  <2>1. \A q \in Slots :
          /\ u[q].parent = IF proc[q].parent = p THEN initproc ELSE proc[q].parent
          /\ u[q].chan = proc[q].chan /\ u[q].killed = proc[q].killed
          /\ u[q].kstack = proc[q].kstack
    BY <1>1, <1>3, <1>5
  <2>2. \A q \in Slots :
          /\ proc'[q].parent = u[q].parent /\ proc'[q].chan = u[q].chan
          /\ proc'[q].killed = u[q].killed /\ proc'[q].kstack = u[q].kstack
    <3> SUFFICES ASSUME NEW q \in Slots
                 PROVE  /\ proc'[q].parent = u[q].parent /\ proc'[q].chan = u[q].chan
                        /\ proc'[q].killed = u[q].killed /\ proc'[q].kstack = u[q].kstack
      OBVIOUS
    <3>1. CASE q = p
      BY <1>6, <1>7, <3>1
    <3>2. CASE q # p
      BY <1>7, <3>2
    <3> QED
      BY <3>1, <3>2
  <2> QED
    BY <2>1, <2>2
<1>9. \A q \in Slots :
        /\ q = p => proc'[q].state = "ZOMBIE"
        /\ q # p => \/ proc'[q].state = proc[q].state
                    \/ proc[q].state = "SLEEPING" /\ proc'[q].state = "RUNNABLE"
        /\ proc'[q].state = "SLEEPING" =>
             /\ proc[q].chan # proc[p].parent
             /\ proc[q].chan = initproc => ~dead
  BY <1>1, <1>3, <1>5, <1>6, <1>7
<1>10. \A q \in Slots :
         /\ Parent(q)' = IF Parent(q) = p THEN initproc ELSE Parent(q)
         /\ Chan(q)' = Chan(q) /\ Killed(q)' = Killed(q) /\ HasStack(q)' = HasStack(q)
  BY <1>8 DEF Parent, Chan, Killed, HasStack
<1>11. \A q \in Slots :
         /\ q = p => State(q)' = "ZOMBIE"
         /\ q # p => State(q)' = State(q) \/ (State(q) = "SLEEPING" /\ State(q)' = "RUNNABLE")
         /\ State(q)' = "SLEEPING" => Chan(q) # Parent(p) /\ (Chan(q) = initproc => ~dead)
  BY <1>9 DEF State, Parent, Chan
<1>12. ~dead => \A x \in Slots : Parent(x) = p => State(x) # "ZOMBIE"
  BY SMTT(30), <1>4 DEF State, Parent
<1> QED
  BY <1>7, <1>10, <1>11, <1>12 DEF ExitEffect

\* exit() leaves no orphan, and nobody asleep who should reap.
LEMMA ExitInv ==
  ASSUME IInv, NEW c \in CPUs, Exit(c)
  PROVE  IInv'
<1> USE Constants
<1> DEFINE p == stack[c]
           par == Parent(p)
<1>1. p \in Slots /\ p # None /\ State(p) = "RUNNING" /\ p # initproc /\ lock = None /\ c \notin intr
  BY Executing DEF Exit, NotInit
<1>2. /\ UNCHANGED <<nextpid, stack, scan, intr, np>> /\ lock' = c
      /\ pc' = [pc EXCEPT ![p] = "zombie"]
      /\ proc' = [Reparent(Wakeup1(proc, proc[p].parent), p) EXCEPT ![p].state = "ZOMBIE"]
  BY DEF Exit, Goto
<1>3. stack[c] = p
  OBVIOUS
<1> HIDE DEF p
<1>4. proc' \in [Slots -> Record] /\ ExitEffect(p)
  <2>1. Parent(p) # p /\ proc \in [Slots -> Record]
    BY <1>1 DEF IInv, Types, Family
  <2> QED
    BY <1>1, <1>2, <2>1, ExitTable
<1>5. /\ pc' \in [Slots -> Labels] /\ pc'[p] \notin InFork
      /\ \A q \in Slots \ {p} : pc'[q] = pc[q]
  BY <1>1, <1>2 DEF IInv, Types, Labels, InFork
<1>6. Types'
  BY <1>2, <1>4, <1>5 DEF IInv, Types
<1>7. Switching'
  BY <1>1, <1>2 DEF IInv, Switching, Types
<1>8. \A q \in Slots :
        /\ q # p => State(q)' = State(q) \/ (State(q) = "SLEEPING" /\ State(q)' = "RUNNABLE")
        /\ q = p => State(q)' = "ZOMBIE" /\ State(q) = "RUNNING"
        /\ HasStack(q)' = HasStack(q)
        /\ Parent(q)' = IF Parent(q) = p THEN initproc ELSE Parent(q)
  BY <1>1, <1>4 DEF ExitEffect
<1>9. Stacks'
  BY SMTT(30), <1>1, <1>2, <1>3, <1>8 DEF IInv, Types, Stacks, Started, Living
<1>10. Forking'
  <2>1. \A x \in Slots \ {p} : np'[x] = np[x] /\ pc'[x] = pc[x]
    BY <1>2, <1>5
  <2>2. \A x \in Slots \ {p}, m \in Slots : pc[x] \in InFork /\ np[x] = m =>
          State(m) = "EMBRYO" /\ (Parent(m) = None \/ Parent(m) = x)
    BY DEF IInv, Forking
  <2>3. \A x \in Slots \ {p}, m \in Slots : pc[x] \in InFork /\ np[x] = m =>
          State(m)' = State(m) /\ Parent(m)' = Parent(m) /\ HasStack(m)' = HasStack(m)
    BY <1>1, <1>8, <2>2
  <2> QED
    BY <1>1, <1>5, <2>1, <2>3, ForkingKept
<1>11. Family'
  <2>1. State(initproc)' \in Living /\ Parent(initproc)' = None
    BY <1>1, <1>8 DEF IInv, Family, Living
  <2>2. \A x \in Slots : /\ Parent(x)' \in Slots \cup {None} /\ Parent(x)' # x
                         /\ State(x)' = "UNUSED" => Parent(x)' = None
    BY <1>1, <1>8 DEF IInv, Family
  <2>3. \A x \in Slots \ {initproc} : State(x)' \in Started => Parent(x)' # None
    BY <1>8 DEF IInv, Family, Started, Living
  <2>4. ASSUME NEW x \in Slots, NEW q \in Slots, State(x)' \in Started, Parent(x)' = q
        PROVE  State(q)' \in Living
    <3>1. State(x) \in Started
      BY <1>8, <2>4 DEF Started, Living
    <3>2. q # p /\ State(q) \in Living
      BY SMTT(30), <1>1, <1>8, <2>4, <3>1 DEF IInv, Family
    <3> QED
      BY <1>8, <3>2 DEF Living
  <2> QED
    BY <2>1, <2>2, <2>3, <2>4 DEF Family
<1>12. Waiting'
  <2> SUFFICES ASSUME NEW x \in Slots, State(x)' = "SLEEPING", Chan(x)' = x
               PROVE  /\ \E q \in Slots : Parent(q)' = x
                      /\ \A q \in Slots : Parent(q)' = x => State(q)' # "ZOMBIE"
                      /\ ~Killed(x)'
    BY DEF Waiting
  <2>1. /\ x # p /\ State(x) = "SLEEPING" /\ Chan(x) = x /\ Killed(x)' = Killed(x)
        /\ x # Parent(p)
        /\ x = initproc => \A y \in Slots : Parent(y) = p => State(y) # "ZOMBIE"
    BY <1>4, <1>8 DEF ExitEffect
  <2>2. /\ \E q \in Slots : Parent(q) = x
        /\ \A q \in Slots : Parent(q) = x => State(q) # "ZOMBIE"
        /\ ~Killed(x)
    BY <2>1 DEF IInv, Waiting
  <2>3. ASSUME NEW q \in Slots, Parent(q)' = x
        PROVE  State(q)' # "ZOMBIE"
    <3>1. Parent(q) = x \/ (Parent(q) = p /\ x = initproc)
      BY <1>8, <2>3
    <3>2. q # p
      BY <1>1, <2>1, <3>1 DEF IInv, Family
    <3> QED
      BY <1>8, <2>1, <2>2, <3>1, <3>2
  <2>4. \E q \in Slots : Parent(q)' = x
    BY <1>8, <2>1, <2>2
  <2> QED
    BY <2>1, <2>2, <2>3, <2>4
<1> QED
  BY <1>6, <1>7, <1>9, <1>10, <1>11, <1>12 DEF IInv

\* wait() frees a stack that nobody is on, or sleeps for a living child.
LEMMA WaitInv ==
  ASSUME IInv, NEW c \in CPUs, Wait(c)
  PROVE  IInv'
<1> USE Constants
<1> DEFINE p == stack[c]
           zombies == {q \in Children(p) : proc[q].state = "ZOMBIE"}
           z == Lowest(zombies)
           awake == [proc[p] EXCEPT !.chan = None]
           asleep == [proc[p] EXCEPT !.chan = p, !.state = "SLEEPING"]
<1>1. /\ p \in Slots /\ p # None /\ State(p) = "RUNNING" /\ pc[p] \in {"wait", "wait_slept"}
      /\ lock = None \/ lock = c
      /\ c \notin intr
  <2>1. CASE At(c, "wait") /\ lock = None
    BY <2>1, Executing
  <2>2. CASE p # None /\ pc[p] = "wait_slept" /\ proc[p].state = "RUNNING" /\ lock = c
    BY ZenonT(60), <2>2 DEF IInv, Types, Switching, State
  <2> QED
    BY <2>1, <2>2 DEF Wait
<1>2. /\ UNCHANGED <<nextpid, stack, scan, intr, np>>
      /\ \/ /\ zombies # {} /\ lock' = None
            /\ proc' = [proc EXCEPT ![z] = FreeSlot, ![p].chan = None]
            /\ pc' = [pc EXCEPT ![p] = "return", ![z] = "none"]
         \/ /\ proc' = [proc EXCEPT ![p] = awake] /\ lock' = None
            /\ pc' = [pc EXCEPT ![p] = "return"]
         \/ /\ zombies = {} /\ Children(p) # {} /\ ~proc[p].killed /\ lock' = c
            /\ proc' = [proc EXCEPT ![p] = asleep]
            /\ pc' = [pc EXCEPT ![p] = "wait_slept"]
  BY DEF Wait, Goto
<1>3. stack[c] = p
  OBVIOUS
<1>4. zombies \subseteq Slots /\ \A q \in zombies : Parent(q) = p /\ State(q) = "ZOMBIE"
  BY DEF Children, Parent, State
<1>5. /\ zombies = {} => \A q \in Slots : Parent(q) = p => State(q) # "ZOMBIE"
      /\ Children(p) # {} => \E q \in Slots : Parent(q) = p
  BY DEF Children, Parent, State
<1> HIDE DEF p, zombies
<1>6. /\ proc \in [Slots -> Record] /\ proc[p] \in Record
      /\ pc \in [Slots -> Labels] /\ pc[p] \notin InFork
  BY <1>1 DEF IInv, Types, InFork
<1>7. /\ awake \in Record /\ awake.state = "RUNNING" /\ awake.parent = Parent(p)
      /\ (awake.killed = TRUE) = Killed(p) /\ (awake.kstack = TRUE) = HasStack(p)
      /\ awake.chan = None
      /\ asleep \in Record /\ asleep.state = "SLEEPING" /\ asleep.parent = Parent(p)
      /\ (asleep.killed = TRUE) = Killed(p) /\ (asleep.kstack = TRUE) = HasStack(p)
      /\ asleep.chan = p
  BY <1>1, <1>6 DEF Record, States, State, Parent, Killed, HasStack
<1>8. \A d \in CPUs : stack[d] # None /\ d # c => State(stack[d]) = "RUNNING"
  BY <1>1 DEF IInv, Stacks, Types
<1>9. CASE /\ zombies # {} /\ lock' = None
           /\ proc' = [proc EXCEPT ![z] = FreeSlot, ![p].chan = None]
           /\ pc' = [pc EXCEPT ![p] = "return", ![z] = "none"]
  <2>1. z \in Slots /\ Parent(z) = p /\ State(z) = "ZOMBIE"
    BY <1>4, <1>9, LowestIn
  <2> HIDE DEF z
  <2>2. z # p /\ z # initproc
    BY <1>1, <2>1 DEF IInv, Family, Living
  <2>3. /\ proc' \in [Slots -> Record]
        /\ \A q \in Slots : proc'[q] = IF q = z THEN FreeSlot ELSE IF q = p THEN awake ELSE proc[q]
    <3>1. FreeSlot \in Record
      BY DEF FreeSlot, Record, States
    <3>2. proc' = [q \in Slots |-> IF q = z THEN FreeSlot ELSE IF q = p THEN awake ELSE proc[q]]
      BY <1>1, <1>6, <1>9, <2>1, <2>2
    <3> HIDE DEF awake
    <3> QED
      BY <1>6, <1>7, <3>1, <3>2
  <2>4. \A q \in Slots :
          /\ q = z => State(q)' = "UNUSED" /\ Parent(q)' = None
          /\ q # z => /\ State(q)' = State(q) /\ Parent(q)' = Parent(q)
                      /\ HasStack(q)' = HasStack(q) /\ Killed(q)' = Killed(q)
          /\ q # z /\ q # p => Chan(q)' = Chan(q)
    <3>1. FreeSlot.state = "UNUSED" /\ FreeSlot.parent = None
      BY DEF FreeSlot
    <3> HIDE DEF awake
    <3> QED
      BY <1>1, <1>7, <2>3, <3>1 DEF State, Parent, Chan, Killed, HasStack
  <2>5. /\ pc' \in [Slots -> Labels] /\ pc'[p] \notin InFork
        /\ \A q \in Slots \ {p} : pc'[q] = pc[q] \/ pc'[q] \notin InFork
    BY <1>1, <1>6, <1>9, <2>1, <2>2 DEF Labels, InFork
  <2>6. Types'
    BY <1>2, <1>9, <2>3, <2>5 DEF IInv, Types
  <2>7. Switching'
    BY <1>1, <1>2, <1>3, <1>9 DEF IInv, Switching
  <2>8. Stacks'
    <3>1. \A d \in CPUs : stack[d] # None => stack[d] \in Slots
      BY DEF IInv, Types
    <3>2. \A d \in CPUs, q \in Slots : stack[d] = q => q # z /\ State(q)' = "RUNNING"
      <4>1. \A d \in CPUs, q \in Slots : stack[d] = q => State(q) = "RUNNING"
        BY ZenonT(60), <1>1, <1>3, <1>8
      <4> QED
        BY <2>1, <2>4, <4>1
    <3> QED
      BY <1>2, <2>4, <3>1, <3>2 DEF IInv, Stacks, Started, Living
  <2>9. Forking'
    <3>1. \A x \in Slots \ {p} : np'[x] = np[x] /\ (pc'[x] = pc[x] \/ pc'[x] \notin InFork)
      BY <1>2, <2>5
    <3>2. \A x, m \in Slots : pc[x] \in InFork /\ np[x] = m => m # z
      BY <2>1 DEF IInv, Forking
    <3>3. \A x \in Slots \ {p}, m \in Slots : pc[x] \in InFork /\ np[x] = m =>
            State(m)' = State(m) /\ Parent(m)' = Parent(m) /\ HasStack(m)' = HasStack(m)
      BY <2>4, <3>2
    <3> QED
      BY <1>1, <2>5, <3>1, <3>3, ForkingKept
  <2>10. Family'
    <3>1. State(initproc)' \in Living /\ Parent(initproc)' = None
      BY <2>2, <2>4 DEF IInv, Family
    <3>2. \A x \in Slots : /\ Parent(x)' \in Slots \cup {None} /\ Parent(x)' # x
                           /\ State(x)' = "UNUSED" => Parent(x)' = None
      BY <2>4 DEF IInv, Family
    <3>3. \A x \in Slots : State(x)' \in Started => x # z /\ State(x) \in Started
      BY <2>4 DEF Started, Living
    <3>4. \A x \in Slots \ {initproc} : State(x)' \in Started => Parent(x)' # None
      BY <2>4, <3>3 DEF IInv, Family
    <3>5. \A x, q \in Slots : State(x) \in Started /\ Parent(x) = q => q # z /\ State(q) \in Living
      BY <2>1 DEF IInv, Family, Living
    <3>6. \A x, q \in Slots : State(x)' \in Started /\ Parent(x)' = q => State(q)' \in Living
      BY <2>4, <3>3, <3>5
    <3> QED
      BY <3>1, <3>2, <3>4, <3>6 DEF Family
  <2>11. Waiting'
    <3> SUFFICES ASSUME NEW x \in Slots, State(x)' = "SLEEPING", Chan(x)' = x
                 PROVE  /\ \E q \in Slots : Parent(q)' = x
                        /\ \A q \in Slots : Parent(q)' = x => State(q)' # "ZOMBIE"
                        /\ ~Killed(x)'
      BY DEF Waiting
    <3>1. x # z /\ x # p /\ State(x) = "SLEEPING" /\ Chan(x) = x /\ Killed(x)' = Killed(x)
      BY <1>1, <2>4
    <3>2. /\ \E q \in Slots : Parent(q) = x
          /\ \A q \in Slots : Parent(q) = x => State(q) # "ZOMBIE"
          /\ ~Killed(x)
      BY <3>1 DEF IInv, Waiting
    <3>3. \A q \in Slots : Parent(q) = x => q # z
      BY <2>1, <3>1
    <3>4. \A q \in Slots : Parent(q)' = x => q # z
      BY <2>4, <3>1
    <3> QED
      BY <2>4, <3>1, <3>2, <3>3, <3>4
  <2> QED
    BY <2>6, <2>7, <2>8, <2>9, <2>10, <2>11 DEF IInv
<1>10. CASE /\ proc' = [proc EXCEPT ![p] = awake] /\ lock' = None
            /\ pc' = [pc EXCEPT ![p] = "return"]
  <2> HIDE DEF awake
  <2>1. /\ proc' \in [Slots -> Record]
        /\ \A q \in Slots :
             /\ Parent(q)' = Parent(q) /\ HasStack(q)' = HasStack(q)
             /\ State(q)' = State(q) /\ Killed(q)' = Killed(q)
             /\ Chan(q)' = IF q = p THEN None ELSE Chan(q)
    BY ZenonT(60), <1>1, <1>7, <1>10, Store DEF IInv
  <2>2. /\ pc' \in [Slots -> Labels]
        /\ \A q \in Slots : pc'[q] = pc[q] \/ (pc[q] \notin InFork /\ pc'[q] \notin InFork)
    BY <1>1, <1>6, <1>10 DEF Labels, InFork
  <2>3. Types'
    BY <1>2, <1>10, <2>1, <2>2 DEF IInv, Types
  <2>4. Switching'
    BY <1>1, <1>2, <1>3, <1>10 DEF IInv, Switching
  <2>5. \A d \in CPUs, q \in Slots : stack[d] = q => State(q)' = "RUNNING" \/ lock' = d
    <3>1. \A d \in CPUs, q \in Slots : stack[d] = q => State(q) = "RUNNING"
      BY <1>1, <1>3, <1>8
    <3> QED
      BY SMTT(30), <2>1, <3>1
  <2>6. \A q \in Slots : State(q)' = "SLEEPING" /\ Chan(q)' = q =>
          State(q) = "SLEEPING" /\ Chan(q) = q /\ (Killed(q)' => Killed(q))
    BY <2>1
  <2> QED
    BY <1>2, <2>1, <2>2, <2>3, <2>4, <2>5, <2>6, InPlace
<1>11. CASE /\ zombies = {} /\ Children(p) # {} /\ ~proc[p].killed /\ lock' = c
            /\ proc' = [proc EXCEPT ![p] = asleep]
            /\ pc' = [pc EXCEPT ![p] = "wait_slept"]
  <2> HIDE DEF asleep
  <2>1. /\ proc' \in [Slots -> Record]
        /\ \A q \in Slots :
             /\ Parent(q)' = Parent(q) /\ HasStack(q)' = HasStack(q)
             /\ State(q)' = IF q = p THEN "SLEEPING" ELSE State(q)
             /\ Killed(q)' = Killed(q)
             /\ Chan(q)' = IF q = p THEN p ELSE Chan(q)
    BY ZenonT(60), <1>1, <1>7, <1>11, Store DEF IInv
  <2>2. /\ pc' \in [Slots -> Labels] /\ pc'[p] \notin InFork
        /\ \A q \in Slots \ {p} : pc'[q] = pc[q]
    BY <1>1, <1>6, <1>11 DEF Labels, InFork
  <2>3. Types'
    BY <1>2, <1>11, <2>1, <2>2 DEF IInv, Types
  <2>4. Switching'
    BY <1>1, <1>2, <1>3, <1>11 DEF IInv, Switching
  <2>5. Stacks'
    BY ZenonT(60), <1>1, <1>2, <1>3, <1>8, <1>11, <2>1 DEF IInv, Types, Stacks, Started, Living
  <2>6. Forking'
    <3>1. \A x \in Slots \ {p} : np'[x] = np[x] /\ pc'[x] = pc[x]
      BY <1>2, <2>2
    <3>2. \A x, m \in Slots : pc[x] \in InFork /\ np[x] = m => m # p
      BY <1>1 DEF IInv, Forking
    <3>3. \A x \in Slots \ {p}, m \in Slots : pc[x] \in InFork /\ np[x] = m =>
            State(m)' = State(m) /\ Parent(m)' = Parent(m) /\ HasStack(m)' = HasStack(m)
      BY <2>1, <3>2
    <3> QED
      BY <1>1, <2>2, <3>1, <3>3, ForkingKept
  <2>7. Family'
    <3>1. \A q \in Slots : /\ Parent(q)' = Parent(q)
                           /\ State(q)' = State(q) \/ (State(q) \in Living /\ State(q)' \in Living)
      BY <1>1, <2>1 DEF Living
    <3> QED
      BY <3>1 DEF IInv, Family, Started, Living
  <2>8. Waiting'
    <3>1. \A q \in Slots : q = p => ~Killed(q)
      BY <1>11 DEF Killed
    <3> SUFFICES ASSUME NEW x \in Slots, State(x)' = "SLEEPING", Chan(x)' = x
                 PROVE  /\ \E q \in Slots : Parent(q)' = x
                        /\ \A q \in Slots : Parent(q)' = x => State(q)' # "ZOMBIE"
                        /\ ~Killed(x)'
      BY DEF Waiting
    <3>2. CASE x = p
      BY ZenonT(60), <1>5, <1>11, <2>1, <3>1, <3>2
    <3>3. CASE x # p
      <4>1. State(x) = "SLEEPING" /\ Chan(x) = x
        BY <2>1, <3>3
      <4>2. /\ \E q \in Slots : Parent(q) = x
            /\ \A q \in Slots : Parent(q) = x => State(q) # "ZOMBIE"
            /\ ~Killed(x)
        BY SMTT(30), <4>1 DEF IInv, Waiting
      <4> QED
        BY <2>1, <4>2
    <3> QED
      BY <3>2, <3>3
  <2> QED
    BY <2>3, <2>4, <2>5, <2>6, <2>7, <2>8 DEF IInv
<1> QED
  BY <1>2, <1>9, <1>10, <1>11

-----------------------------------------------------------------------------
(* The invariant, and what follows from it                                 *)

\* A step that changes nothing.
LEMMA StutterInv == IInv /\ UNCHANGED vars => IInv'
<1> SUFFICES ASSUME IInv, UNCHANGED vars PROVE IInv'
  OBVIOUS
<1>1. UNCHANGED <<proc, nextpid, lock, stack, scan, intr, pc, np>>
  BY DEF vars
<1>2. \A q \in Slots : /\ State(q)' = State(q) /\ Parent(q)' = Parent(q)
                       /\ Chan(q)' = Chan(q) /\ Killed(q)' = Killed(q)
                       /\ HasStack(q)' = HasStack(q)
  BY <1>1 DEF State, Parent, Chan, Killed, HasStack
<1>3. Types' /\ Switching'
  BY <1>1 DEF IInv, Types, Switching
<1>4. \A d \in CPUs, q \in Slots : stack[d] = q => State(q)' = "RUNNING" \/ lock' = d
  BY <1>1, <1>2, Constants DEF IInv, Stacks
<1> QED
  <2>1. \A q \in Slots : pc'[q] = pc[q]
    BY <1>1
  <2>2. stack' = stack /\ np' = np
    BY <1>1
  <2> QED
    BY <1>2, <1>3, <1>4, <2>1, <2>2, InPlace

\* Every step of every CPU preserves the invariant.
LEMMA NextInv == IInv /\ [Next]_vars => IInv'
<1> SUFFICES ASSUME IInv, Next PROVE IInv'
  BY StutterInv
<1> PICK c \in CPUs :
      SchedStep(c) \/ KernelStep(c) \/ UserStep(c) \/ Timer(c) \/ Yield(c)
  BY DEF Next
<1>1. CASE SchedStep(c)
  <2>1. CASE SchedAcquire(c) \/ SchedRelease(c) \/ Swtch(c)
    BY <2>1, SchedInv
  <2>2. CASE SchedPick(c)
    BY <2>2, SchedPickInv
  <2>3. CASE Resume(c)
    BY <2>3, ResumeInv
  <2> QED
    BY <1>1, <2>1, <2>2, <2>3 DEF SchedStep
<1>2. CASE KernelStep(c)
  <2>1. CASE AllocKstack(c)
    BY <2>1, AllocKstackInv
  <2>2. CASE ForkCopy(c)
    BY <2>2, ForkCopyInv
  <2>3. CASE ForkRun(c)
    BY <2>3, ForkRunInv
  <2>4. CASE Return(c) \/ TrapKilled(c) \/ ExitInit(c) \/ SleepTest(c)
    BY <2>4, LocalInv
  <2>5. CASE Exit(c)
    BY <2>5, ExitInv
  <2>6. CASE Wait(c)
    BY <2>6, WaitInv
  <2>7. CASE Sleep(c)
    BY <2>7, SleepInv
  <2> QED
    BY SMTT(30), <1>2, <2>1, <2>2, <2>3, <2>4, <2>5, <2>6, <2>7 DEF KernelStep
<1>3. CASE UserStep(c)
  <2>1. CASE AllocProc(c)
    BY <2>1, AllocProcInv
  <2>2. CASE Fault(c)
    BY <2>2, FaultInv
  <2>3. CASE SysExit(c) \/ SysWait(c) \/ SysSleep(c)
    BY <2>3, LocalInv
  <2>4. CASE \E pid \in KillArgs : Kill(c, pid)
    BY <2>4, KillInv
  <2> QED
    BY <1>3, <2>1, <2>2, <2>3, <2>4 DEF UserStep
<1>4. CASE Timer(c)
  BY <1>4, TimerInv
<1>5. CASE Yield(c)
  BY <1>5, YieldInv
<1> QED
  BY <1>1, <1>2, <1>3, <1>4, <1>5

\* The invariant holds in every reachable state of the process table, for any
\* number of slots and CPUs (proc.c).
THEOREM Invariance == Spec => []IInv
  BY InitInv, NextInv, PTL DEF Spec

\* For any number of slots and CPUs, no kernel stack is freed or entered by a
\* second CPU while one is on it: exit, yield and sleep give ptable.lock to the
\* scheduler and never to wait() (proc.c:264-266, 290, 342-346, 380).
THEOREM StackSafe == Spec => []StackInUse
<1>1. IInv => StackInUse
  <2> SUFFICES ASSUME IInv, NEW c \in CPUs, stack[c] # None
               PROVE  /\ \A d \in CPUs \ {c} : stack[d] # stack[c]
                      /\ proc[stack[c]].kstack
                      /\ proc[stack[c]].state = "RUNNING" \/ lock = c
    BY DEF StackInUse
  <2>1. \A d \in CPUs \ {c} : stack[d] # stack[c]
    BY DEF IInv, Stacks
  <2> DEFINE p == stack[c]
  <2>2. p \in Slots /\ State(p) \in Started /\ (State(p) = "RUNNING" \/ lock = c)
    BY OnStack
  <2> HIDE DEF p
  <2>3. HasStack(p)
    BY SMTT(30), <2>2 DEF IInv, Stacks
  <2> QED
    BY <2>1, <2>2, <2>3 DEF p, State, HasStack
<1> QED
  BY <1>1, Invariance, PTL

\* For any number of slots and CPUs, a process that runs, sleeps or is dead has
\* a living parent: exit passes its children to init in the critical section
\* in which it dies, and init never dies (proc.c:234-262).
THEOREM ParentsLive == Spec => []NoOrphans
<1>1. IInv => NoOrphans
  <2> SUFFICES ASSUME IInv, NEW p \in Slots \ {initproc}, State(p) \in Started
               PROVE  proc[p].parent # None /\ Alive(proc[p].parent)
    BY DEF NoOrphans, Alive, State, Started, Living
  <2> DEFINE q == Parent(p)
  <2>1. q \in Slots /\ q # None
    BY Constants DEF IInv, Family
  <2>2. State(q) \in Living
    BY <2>1 DEF IInv, Family
  <2> QED
    BY <2>1, <2>2 DEF Parent, State, Alive, Living
<1> QED
  BY <1>1, Invariance, PTL

\* For any number of slots and CPUs, a process asleep in wait() has children,
\* none of them dead, and is not killed: exit's two wakeups and kill's are
\* never lost (proc.c:253, 260, 304, 310, 489).
THEOREM WaitSound == Spec => []WaitSleepsSoundly
<1>1. IInv => WaitSleepsSoundly
  BY DEF IInv, Waiting, WaitSleepsSoundly, Children, State, Parent, Chan, Killed
<1> QED
  BY <1>1, Invariance, PTL
=============================================================================
