# xv6 with a kernel flight recorder: TLA+ specification

The repository is xv6 (x86) with a kernel event recorder, `klog.c`, added to it.
This directory holds TLA+ modules for the kernel's components and the shell, the TLC
instances that check them, and proofs checked by TLAPS. `PROJECT.json` lists the
components, the runs, the source lines of every definition, the hazards and the
findings; this file explains them.

## Inventory

| Component | Source | State | Operations | Talks to |
|---|---|---|---|---|
| flight recorder | klog.c | ring, head, count, stamp, lock | klog_add, klog_getlogs, klog_dump | meant for syscall, trap and proc; not linked in this tree |
| processes, scheduler | proc.c, sysproc.c | process table, pids, per-CPU current process | fork, exit, wait, sleep, wakeup, kill, yield, scheduler | traps, page allocator, files |
| traps, clock | trap.c | ticks | timer, preemption, tests of killed | processes, devices |
| sleep locks | sleeplock.c | locked, owner | acquiresleep, releasesleep | sleep, wakeup |
| pipes | pipe.c | ring of bytes, two counters, two open flags | pipewrite, piperead, pipeclose | files, sleep, kill |
| log | log.c | header, reservations, log blocks on disk | begin_op, log_write, end_op, recovery | buffer cache, file system calls |
| buffer cache | bio.c | buffers, LRU list, reference counts | bget, bread, bwrite, brelse | disk driver, log |
| disk driver | ide.c | request queue | iderw, ideintr | buffer cache |
| open files | file.c | file table, descriptors | filealloc, filedup, fileclose, read, write | inodes, pipes |
| inodes, directories, blocks | fs.c | inode cache, inodes, directory entries, bitmap | iget, iput, ilock, ialloc, namex, dirlink, balloc, itrunc | log, buffer cache |
| file system calls | sysfile.c | descriptors, current directories | open, create, mkdir, mknod, link, unlink, chdir, close, dup | files, inodes |
| page allocator, virtual memory, exec | kalloc.c, vm.c, exec.c | free list, page tables | kalloc, kfree, setupkvm, allocuvm, copyuvm, freevm, exec, sbrk | processes |
| system call arguments | syscall.c | | fetchint, fetchstr, argptr | process sizes |
| console | console.c | input ring, cursor, cons.lock | consoleintr, consoleread, consolewrite, cprintf, panic | sleep, kill, drivers |
| shell, init | sh.c, init.c | command line, descriptors, children | parsecmd, runcmd | fork, pipe, dup, wait |

What makes this code hard: sleep and wakeup around every condition; kill(), which
wakes a sleeper early and can fall between a test and a sleep; locks that are given
up and taken again inside one operation (iput, brelse, fork); free-running counters
that wrap; a kernel stack still in use when its process is already a zombie; group
commit and recovery after a crash at any disk write; allocations that fail half way
through a fork or an exec. The list of hazards, each with
its line and the properties that watch it, is in `PROJECT.json`.

## Modules

| Module | Models | Abstract counterpart |
|---|---|---|
| `Klog` | klog.c | `FlightRecorder`: a window of the latest events |
| `Log` | log.c over a cache and a disk | `AtomicDisk`: groups of writes become durable together |
| `BufCache` | bio.c and ide.c | |
| `Proc` | proc.c, trap.c, sys_sleep | |
| `Sleeplock` | sleeplock.c over sleep and wakeup | |
| `Pipe` | pipe.c | `Fifo`: a bounded channel |
| `Files` | file.c, fs.c (inodes, directories, blocks), sysfile.c | |
| `Memory` | kalloc.c, vm.c, exec.c, growproc, the pages of fork, exit and wait, argument tests of syscall.c | |
| `Console` | console.c | `LineInput`: a line editor in front of a queue |
| `Shell` | sh.c, and init.c as its parent | a grammar of the command line, in the module itself |

`MC*` modules and the `.cfg` files instantiate them for TLC. `KlogProofs`,
`SleeplockProofs`, `PipeProofs` and `ProcProofs` hold the proofs. An operator whose comment says "Mutant of X" is X
with a plausible mistake; no specification uses it. `PROJECT.json` pairs each
property with a mutant that breaks it.

In every module the state of the code is kept under the code's names, a local program
counter `pc` says where a process is inside a function, and an action is the code
between two points where another process can interfere: a spin lock's critical
section where the lock protects all of the data touched, a single store or test
where it does not.

**Klog.** `klog_add` takes four steps (stamp, fields, head, count) under `lock`.
`klog_getlogs` copies in one step under the lock and returns in another. The
refinement mapping completes the `klog_add` in progress, which takes effect at its
first store.

**Log.** `begin_op` and `end_op` are one step per critical section; `log_write` is
split at the test it makes before it takes the lock. Commit and recovery do one disk
write a step. `Crash` loses memory and keeps the disk, at any point, recovery
included. A cached block may be dropped whenever it is not dirty and not held.

**BufCache.** Buffers, their sleep locks, the LRU order, the request queue and the
disk. The device finishes the request at the head of its queue at any later time, or
fails it. A caller is a process that reads a block, changes it, logs it or writes it.

**Proc.** Slots, CPUs, `ptable.lock`, kernel stacks, timer interrupts. `stack[c]` is
the kernel stack that CPU c runs on, which is not the same as the state RUNNING: a
zombie is still on its stack until the switch. fork is four steps, each of which can
fail as in the code.

**Sleeplock.** One step per acquire, release, test and store, with `sleep` split as
in proc.c, since the point of the module is that no wakeup is lost between them.
The other modules use its conclusion and let a process test and sleep in one step.

**Pipe.** One pipe, one byte a step, free-running counters modulo `UintMod`.

**Files.** A step lies between two points where a process may wait for an inode's
lock. A process holds its references to inodes in `cur`, `ip` and `put`, so that
reference counting can be stated as an equation. `iput` is four steps, because the
code gives up the lock between reading the count and decrementing it. Each process
has a current directory, from which relative paths start; chdir replaces it after it
has given up the inode's lock. Directories, files and devices are told apart; the
entries "." and ".." are not kept.

**Memory.** Every `kalloc` and `kfree` is a step, so another process can empty the
free list between any two of them. A page has no identity: the free list is its
length, a page table is the set of pages it maps, the page tables it owns and the
number of tables of its kernel part. A call in progress is a record: the place it is
at, the loop variables of vm.c and the places its subroutines return to, which is how
one `deallocuvm` serves sbrk, exec, fork, wait and the failures of each. `cr3` is the
table that the CPU of a process has loaded. Addresses are unsigned and wrap.

**Console.** `buf`, `r`, `w` and `e` are the input ring. The input interrupts are one
actor, which takes `cons.lock`, handles any number of keys and gives it up; readers
sleep and can be killed; printers print with the lock or, once a panic has cleared
`cons.locking`, without it. A CPU that finds `panicked` set stops inside its next
character, with whatever lock it holds.

**Shell.** The parser is a set of operators with the names of sh.c that return the
command and the place reached; words are pairs of places in the line, as in the code,
and become strings only after `nulterminate` has written its NULs. `runcmd` is one
action per fork, pipe, wait and exit. A program is known by how it uses its input:
`c` reads it to the end, `e` ignores it. Pipes are sets of holders of their two ends,
which is what decides whether a read ends or a write fails. A fork or a pipe may fail.

## Runs

| Run | Instance | Shows |
|---|---|---|
| klog_ring | 2 threads, ring of 3, stamps modulo 5 | the ring is the abstract recorder across wraps of the ring and of the stamp; snapshots have no gap |
| log | 3 processes, 4 blocks, 2 values, log of 4, crashes | atomic disk; the reservation is enough; no missed wakeup |
| buffer_cache | 2 processes, 3 buffers, 4 blocks, 2 values, 1 failing transfer | one buffer per block, no lost write, every request and every sleeper is served |
| proc_table | 2 CPUs, 3 slots, pids up to 4 | stacks, parents, no lost wakeup in wait |
| proc_live | 1 CPU, 3 slots | runnable processes run, killed ones exit, wait returns |
| sleeplock | 3 processes with early wakeups | mutual exclusion, no lost wakeup, a free lock is taken |
| pipe | 2 processes, 2 bytes, pipe of 2, counters modulo 4, kill of one | a FIFO; sleepers have a reason; end of file and closed pipe are seen; freed once |
| files | 2 processes, a directory or device and files in it and beside it, 3 inodes, 1 open file, 1 block | references, links and blocks counted; nothing in use is freed |
| memory | 2 processes, 0 to 9 free pages, addresses modulo 16 in pages of 2 | no page lost or freed twice; failed calls leave nothing behind; arguments are in mapped memory; a loaded table is whole |
| console | 2 readers, 1 printing CPU, ring of 2, indices modulo 4, screen of 3 by 2 | the ring is a line editor in front of a queue; no reader sleeps over input; panic gets its message out; the cursor stays on the screen |
| shell | all lines of up to 4 characters and 14 longer ones, 6 processes, 1 failing call | the parser agrees with the grammar; the prompt waits for the foreground, and always comes back |
| files_deadlock | as files | **violated**: see findings |

*Bounds.* A ring of three with a stamp period of five makes the two wraps fall at
different places. Two processes are enough for every two-party race of the pipe, the
cache and the inodes; the sleep lock has three, so that two can wait for one holder.
Counters modulo 4 on a pipe of 2 wrap after two fillings. The pids bound `MaxPid`
allows a slot to be reused. `MaxPinned` and `MaxFailed` bound the dirty buffers and
the failed transfers; `OpBlocks` bounds the blocks an operation writes. In `Files`
the number of inodes and blocks is a bound too: the code panics when it runs out.
`MaxLinks` stops the count of links that the lost names would let grow for ever.
In the log, `OpBlocks = MAXOPBLOCKS - 1`: see the hazard at log.c:218. The free lists
of `Memory` go from none, where the first allocation fails, to 9, where an exec with a
segment and a stack succeeds; every place where an allocation can fail is reached.
`Segments` are headers that load and headers refused before or after their memory is
allocated; `MaxArgs` is more than the stack page holds, so that `copyout` fails too.
A ring of 2 is full after two keys, in the middle of a line, and the indices wrap
after two fillings; the smallest screen that scrolls has 3 rows. Four characters are
enough for every pair of neighbours in a line, with one more on each side; the longer
lines nest pipes, lists, blocks and redirections and reach MAXARGS. A second line
typed is `e`, to see what a first one leaves behind.

*Symmetry* is used in safety runs only, on processes, names, blocks and values that
no definition orders.

*Deadlock* is not checked in proc_table, where init's panic stops the machine and the
pids run out; in pipe, where everybody may have closed and left; in files, because the
code can deadlock (files_deadlock shows how); in console, where a panic stops every
CPU; and in shell, where no more lines are typed.

*Fairness.* Proc: the interrupt controller latches a timer interrupt until it is
taken, and the kernel code between two interruptible points is short, hence strong
fairness of the timer and of kernel steps. The run has one CPU, because xv6's spin
locks promise no turn to a second one. Sleeplock and Pipe: a process that can go on
again and again does, as the scheduler of proc_live guarantees. Shell: each process is
scheduled, and a program ends once its input has ended and its output is read or
refused (weak fairness, since no other process can take such a step away); nothing is
assumed of the lines typed or of programs that end early.

## Findings

* **Deadlock between create and unlink** (`NoLockCycle`, sysfile.c:280, fs.c:334).
  `create` keeps the new inode locked while `iunlockput(dp)` locks `dp` once more. An
  unlink of the same name can own `dp` by then and wait for the new inode.

The following were met while choosing instances. They are hazards in `PROJECT.json`,
with a note; no run is about them.

* *An inode is lost* (`NoLostInode` of `Files`, fs.c:337). Each of two `iput` calls
  decides that a name or another reference is left before either decrements the
  count; neither frees the unlinked inode. As an invariant of the files instance,
  `NoLostInode` is violated after 18 steps.
* *A killed writer leaves readers asleep* (`ReadersMustWait` of `Pipe`, pipe.c:87). The
  early return of `pipewrite` skips the wakeup of the readers. Without a kill the
  property holds, which the pipe run checks and `PipeProofs` proves
  (`UnkilledReadersMustWait`). Three processes show the violation.
* *sbrk(-sz)* (proc.c:169). `growproc` takes the new size 0 for a failure: every page
  is freed and `p->sz` stays. With `ShrinkToZero = TRUE` and an argument that reaches
  it, `AtRest` and `ArgumentsMapped` are violated.
* *The log is one block short* (log.c:218). With `OpBlocks = MAXOPBLOCKS` and mkfs's log
  size, `log_write` panics, as one block of the log is the header.
* *A name in a removed directory* (sysfile.c:246). A file can be entered in a directory
  that has just been removed (found by `nameiparent`, not yet locked by `create`), and
  keeps a link that nothing names; `LinksCounted` accounts for such names in the
  history variable `dropped`.

## Proofs

All theorems hold for every value of the constants that satisfies the named `ASSUME`
of the module.

* `KlogProofs`. `TypeCorrect` needs that the lock is held exactly by the thread inside
  klog_add (`LockInv`). `Refinement` shows that each step of `Klog` is a step of
  `FlightRecorder` or a stutter: the first store of klog_add appends an event
  (`StampRecords`), the later ones change nothing abstract (`CompletionStutters`),
  and the copy of klog_getlogs reads the newest events (`CopyReads`); arithmetic
  modulo the ring is in `RingMod`, `SlotNext` and `SlotBack`. `Snapshots` proves the
  abstract window gap-free and carries it over to what klog_getlogs returns: the
  inductive invariant adds that the window itself has consecutive stamps.
* `SleeplockProofs`. One inductive invariant relates the two spin locks to the
  program counters; mutual exclusion and the absence of lost wakeups follow from it.
* `PipeProofs`. The invariant has a part for the lock and the sleepers (`LockInv`), one
  for the ends and their descriptors (`EndInv`), and one each for writers and readers.
  `WritersMustWait` is not inductive: while a reader takes bytes the pipe is no longer
  full and the writers still sleep, so `WriterInv` allows it as long as the lock's
  holder is in the read loop, which ends with the wakeup. `ReaderInv` is its mirror
  image and needs `EndInv` too: a writer that gives up on a closed read end wakes
  nobody, and no reader can then be asleep. `FreedLast` follows from `EndInv`.
* `ProcProofs`. The invariant `IInv`, checked by TLC on the proc_table instance before
  it was proved, has one part per concern. `Switching` says who holds `ptable.lock`
  around a context switch, and `Stacks` that a CPU is on the stack of a started process,
  alone, and that one no longer RUNNING is covered by the lock; `StackInUse` follows.
  `Forking` is needed because `fork` gives up the lock between its steps: the slot it
  fills is EMBRYO, has no other filler, and gets its parent only at the end. `Family`
  is `NoOrphans` made inductive: also the parent of a zombie is alive, unused slots
  have no parent, and init lives and has none, so that handing children over to it is
  sound. `Waiting` is `WaitSleepsSoundly` itself and needs `Family`, since a child that
  exits must find its parent among the living to wake it. There is a lemma per action,
  or per group of actions that touch one process (`LocalInv`); steps that start, end
  or reap nobody share `NobodyBornOrDead`. The first free slot that `allocproc` finds
  exists because the order of the naturals is well founded (`LowestIn`).

Everything else is only model-checked. Liveness and whatever speaks of ENABLED
(`PanicProceeds`) are out of the prover's reach; so is what recursive definitions
compute for every input, hence the parser of `Shell` is compared with its grammar on
bounded lines.

## Not modelled

* Boot, assembly, the interrupt controllers, the serial port, the keyboard and the
  programming of the disk controller: sequences of port accesses and register saving
  without state that another part shares. What they deliver is an input of the models.
* Spin locks. Each module takes one as mutual exclusion with a named holder; the nesting
  count of `pushcli` belongs to one CPU at a time.
* `procdump`, `klog_dump` and the conversions of `cprintf`: they only print. The port
  accesses that move the console's cursor are one step, so the garbling of two CPUs
  that print during a panic is not shown.
* File contents and offsets, `fstat`, the failure paths of `sys_pipe`, and the
  directory entries "." and "..". Crashes are in `Log` and not in `Files`.
* The contents of pages, and `seginit`.
* In `Shell`, init's own failing forks and its opening of the console, and the limit
  of 100 characters of a line.
* The host tool mkfs, whose choice of the log's size is a constant of `Log`, the user
  programs and their library (`malloc`, `printf`): sequential clients. klogs and sysdash
  use system calls that this tree does not define.
