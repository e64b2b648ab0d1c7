------------------------------ MODULE Console -------------------------------
(***************************************************************************)
(* console.c: the input buffer between the keyboard and serial interrupts  *)
(* and the processes in consoleread, and the output of consolewrite,       *)
(* cprintf and panic, all under cons.lock, except that panic prints        *)
(* without it.  The handlers of the two input interrupts run on one cpu,   *)
(* one after the other, so they are one actor, Intr.  Each access of       *)
(* cgaputc to the ports of the cursor is a step of its own.                *)
(***************************************************************************)
EXTENDS Integers, Sequences, TLC

CONSTANTS
  Readers,        \* processes in consoleread
  Cpus,           \* callers of consolewrite, cprintf and panic
  Intr, Nobody,
  Plain,          \* characters without a meaning of their own
  INPUT_BUF,
  UintMod,        \* 2^32 in the code: r, w and e are unsigned ints
  COLS, ROWS,     \* 80 and 25: the screen
  BYTE,           \* 256: the cursor is in two registers of one byte
  MaxRead,        \* bound: bytes asked for in one read
  MaxPrint,       \* bound: characters of one message
  PanicCalls      \* bound: cprintf calls of one panic

ASSUME ConsoleAssumption ==
  /\ INPUT_BUF \in Nat \ {0} /\ UintMod % INPUT_BUF = 0 /\ UintMod > INPUT_BUF
  /\ COLS \in Nat \ {0} /\ ROWS \in Nat /\ ROWS > 2
  /\ BYTE \in Nat /\ ROWS * COLS < BYTE * BYTE
  /\ Plain \cap {"nl", "cr", "eof"} = {}

Keys == Plain \cup {"nl", "cr", "eof", "kill_line", "backspace", "list", "nul"}
Stored == Plain \cup {"nl", "eof"}

VARIABLES
  lock,           \* cons.lock
  locking,        \* cons.locking
  panicked,
  buf, r, w, e,   \* input
  boot,           \* the cursor as the firmware left it
  index,          \* the register that CRTPORT selects: 14 or 15
  cursor,         \* the two registers, the high byte in 14
  out,            \* the consputc a printer is in
  killed,
  asleep,         \* processes asleep on &input.r
  pc,
  left,           \* a reader's n, or the characters left of a message
  part,           \* readers with n < target
  calls           \* cprintf calls left in a panic

vars == <<lock, locking, panicked, buf, r, w, e, boot, index, cursor, out,
          killed, asleep, pc, left, part, calls>>
input == <<buf, r, w, e>>
screen == <<index, cursor, boot>>
output == <<locking, panicked, out, calls, screen>>

Printers == Cpus \cup {Intr}
Actors == Readers \cup Printers
Positions == 0 .. BYTE * BYTE - 1

NoPutc == [at |-> "none", c |-> "nul", pos |-> 0]
High(p) == (p \div BYTE) % BYTE
Low(p) == p % BYTE
Cursor == cursor[14] * BYTE + cursor[15]

\* consoleinit; it leaves the cursor where the firmware put it.
Init ==
  /\ lock = Nobody
  /\ locking = TRUE
  /\ panicked = FALSE
  /\ buf = [i \in 0 .. INPUT_BUF - 1 |-> "nul"]
  /\ r = 0 /\ w = 0 /\ e = 0
  /\ boot \in Positions
  /\ cursor = (14 :> High(boot) @@ 15 :> Low(boot))
  /\ index = 15
  /\ out = [a \in Printers |-> NoPutc]
  /\ killed = {}
  /\ asleep = {}
  /\ pc = [a \in Actors |-> "idle"]
  /\ left = [a \in Actors |-> 0]
  /\ part = {}
  /\ calls = [a \in Printers |-> 0]

Goto(a, label) == pc' = [pc EXCEPT ![a] = label]
Left(a, n) == left' = [left EXCEPT ![a] = n]

Acquire(a, from, to) ==
  /\ pc[a] = from
  /\ lock = Nobody
  /\ lock' = a
  /\ Goto(a, to)

Release(a, to) == lock' = Nobody /\ Goto(a, to)

-----------------------------------------------------------------------------
(* consputc, cgaputc                                                       *)

Busy(a) == out[a].at # "none"

\* consputc(c): a cpu that finds the machine panicked spins with what it holds.
Consputc(a, c) ==
  out' = [out EXCEPT ![a] = [at |-> IF panicked THEN "frozen" ELSE "read_14", c |-> c, pos |-> 0]]

\* The position p once c is on the screen, before scrolling.
Advance(p, c) ==
  CASE c = "nl" -> p + COLS - (p % COLS)
    [] c = "backspace" -> IF p > 0 THEN p - 1 ELSE 0
    [] OTHER -> p + 1

Scroll(p) == IF p \div COLS >= ROWS - 1 THEN p - COLS ELSE p

\* The accesses in the order of the code: register 14 is selected and read,
\* then 15, and after the test both are selected and written.
Select(a, at, i, next) ==
  /\ out[a].at = at
  /\ index' = i
  /\ out' = [out EXCEPT ![a].at = next]
  /\ UNCHANGED <<cursor, locking, calls, pc>>

CgaSelect(a) ==
  /\ \/ Select(a, "read_14", 14, "get_high") \/ Select(a, "read_15", 15, "get_low")
     \/ Select(a, "write_14", 14, "put_high") \/ Select(a, "write_15", 15, "put_low")
  /\ UNCHANGED <<lock, input, panicked, boot, killed, asleep, left, part>>

CgaHigh(a) ==
  /\ \/ /\ out[a].at = "get_high"
        /\ out' = [out EXCEPT ![a].at = "read_15", ![a].pos = cursor[index] * BYTE]
        /\ UNCHANGED cursor
     \/ /\ out[a].at = "put_high"
        /\ out' = [out EXCEPT ![a].at = "write_15"]
        /\ cursor' = [cursor EXCEPT ![index] = High(out[a].pos)]
  /\ UNCHANGED <<lock, input, locking, panicked, calls, boot, index, killed, asleep, pc, left, part>>

\* panic(): the report is PanicCalls calls of cprintf.
StartPanic(a) ==
  /\ locking' = FALSE
  /\ calls' = [calls EXCEPT ![a] = PanicCalls]
  /\ Goto(a, "panic")

\* The second read, the move, and the test whose failure is a panic in the
\* middle of the message, or in the middle of the report of another panic.
CgaMove(a) ==
  LET p == Advance(out[a].pos + cursor[index], out[a].c) IN
  /\ out[a].at = "get_low"
  /\ \/ /\ p > ROWS * COLS
        /\ out' = [out EXCEPT ![a] = NoPutc]
        /\ StartPanic(a)
     \/ /\ p <= ROWS * COLS
        /\ out' = [out EXCEPT ![a].at = "write_14", ![a].pos = Scroll(p)]
        /\ UNCHANGED <<locking, calls, pc>>
  /\ UNCHANGED <<lock, input, panicked, screen, killed, asleep, left, part>>

CgaLow(a) ==
  /\ out[a].at = "put_low"
  /\ cursor' = [cursor EXCEPT ![index] = Low(out[a].pos)]
  /\ out' = [out EXCEPT ![a] = NoPutc]
  /\ UNCHANGED <<lock, input, locking, panicked, calls, boot, index, killed, asleep, pc, left, part>>

Cgaputc(a) == CgaSelect(a) \/ CgaHigh(a) \/ CgaMove(a) \/ CgaLow(a)

-----------------------------------------------------------------------------
(* consoleintr                                                             *)

IntrEnter ==
  /\ Acquire(Intr, "idle", "intr")
  /\ UNCHANGED <<input, output, killed, asleep, left, part>>

Room == (e - r) % UintMod < INPUT_BUF
LastTyped == buf[(e - 1) % INPUT_BUF]

\* The default case of the switch, up to the echo ...
IntrStore(key) ==
  LET c == IF key = "cr" THEN "nl" ELSE key IN
  /\ pc[Intr] = "intr"
  /\ ~Busy(Intr)
  /\ c \in Stored
  /\ Room
  /\ buf' = [buf EXCEPT ![e % INPUT_BUF] = c]
  /\ e' = (e + 1) % UintMod
  /\ Consputc(Intr, c)
  /\ Goto(Intr, "echo")
  /\ UNCHANGED <<lock, r, w, locking, panicked, calls, screen, killed, asleep, left, part>>

\* Mutant of Commits: a full buffer is not handed to the reader.
CommitsLines == LastTyped \in {"nl", "eof"}

Commits == LastTyped \in {"nl", "eof"} \/ e = (r + INPUT_BUF) % UintMod

\* Mutant of Handover: nobody is woken for a full buffer.
HandoverQuiet == w' = e /\ asleep' = IF LastTyped \in {"nl", "eof"} THEN {} ELSE asleep

\* input.w = input.e; wakeup(&input.r)
Handover == w' = e /\ asleep' = {}

\* ... and after it.
IntrCommit ==
  /\ pc[Intr] = "echo"
  /\ ~Busy(Intr)
  /\ IF Commits THEN Handover ELSE UNCHANGED <<w, asleep>>
  /\ Goto(Intr, "intr")
  /\ UNCHANGED <<lock, buf, r, e, output, killed, left, part>>

\* ^H, or one round of the loop of ^U.
IntrErase ==
  /\ pc[Intr] \in {"intr", "erasing"}
  /\ ~Busy(Intr)
  /\ e # w
  /\ pc[Intr] = "erasing" => LastTyped # "nl"
  /\ e' = (e - 1) % UintMod
  /\ Consputc(Intr, "backspace")
  /\ UNCHANGED <<lock, buf, r, w, locking, panicked, calls, screen, killed, asleep, pc, left, part>>

IntrKillLine ==
  /\ ~Busy(Intr)
  /\ \/ pc[Intr] = "intr" /\ Goto(Intr, "erasing")
     \/ pc[Intr] = "erasing" /\ (e = w \/ LastTyped = "nl") /\ Goto(Intr, "intr")
  /\ UNCHANGED <<lock, input, output, killed, asleep, left, part>>

\* getc() has nothing more; if there was a ^P, procdump() prints now.
IntrExit ==
  /\ pc[Intr] = "intr"
  /\ ~Busy(Intr)
  /\ Release(Intr, "idle") \/ Release(Intr, "cprintf")
  /\ UNCHANGED <<input, output, killed, asleep, left, part>>

-----------------------------------------------------------------------------
(* consoleread                                                             *)

\* A killed process exits before it enters a system call.
ReadEnter(p, n) ==
  /\ p \notin killed
  /\ Acquire(p, "idle", "read")
  /\ Left(p, n)
  /\ UNCHANGED <<input, output, killed, asleep, part>>

ReadReturn(p) ==
  /\ Release(p, "idle")
  /\ Left(p, 0)
  /\ part' = part \ {p}

\* Nothing committed: give up if killed, else sleep on &input.r.
ReadEmpty(p) ==
  /\ pc[p] = "read"
  /\ left[p] > 0
  /\ r = w
  /\ \/ p \in killed /\ ReadReturn(p)
     \/ p \notin killed /\ Goto(p, "read_sleep") /\ UNCHANGED <<lock, left, part>>
  /\ UNCHANGED <<input, output, killed, asleep>>

ReadSleep(p) ==
  /\ pc[p] = "read_sleep"
  /\ Release(p, "read_slept")
  /\ asleep' = asleep \cup {p}
  /\ UNCHANGED <<input, output, killed, left, part>>

ReadAgain(p) ==
  /\ p \notin asleep
  /\ Acquire(p, "read_slept", "read")
  /\ UNCHANGED <<input, output, killed, asleep, left, part>>

\* One character; a ^D after others stays for the next read.
ReadByte(p) ==
  LET c == buf[r % INPUT_BUF] IN
  /\ pc[p] = "read"
  /\ left[p] > 0
  /\ r # w
  /\ r' = IF c = "eof" /\ p \in part THEN r ELSE (r + 1) % UintMod
  /\ IF c \in {"eof", "nl"} \/ left[p] = 1
     THEN ReadReturn(p)
     ELSE Left(p, left[p] - 1) /\ part' = part \cup {p} /\ UNCHANGED <<lock, pc>>
  /\ UNCHANGED <<buf, w, e, output, killed, asleep>>

\* kill(): with ptable.lock only.
Kill(p) ==
  /\ p \notin killed
  /\ killed' = killed \cup {p}
  /\ asleep' = asleep \ {p}
  /\ UNCHANGED <<lock, input, output, pc, left, part>>

-----------------------------------------------------------------------------
(* consolewrite, cprintf and panic                                         *)

Write(a, n) ==
  /\ a \in Cpus
  /\ pc[a] = "idle"
  /\ Goto(a, "acquire")
  /\ Left(a, n)
  /\ UNCHANGED <<lock, input, output, killed, asleep, part>>

\* Mutant of Cprintf: it takes no lock.
CprintfUnlocked(a, n) ==
  /\ pc[a] \in {"cprintf", "panic"} \/ (pc[a] = "idle" /\ a \in Cpus)
  /\ Goto(a, "print")
  /\ Left(a, n)
  /\ UNCHANGED <<lock, input, output, killed, asleep, part>>

\* cprintf reads cons.locking once.
Cprintf(a, n) ==
  /\ pc[a] \in {"cprintf", "panic"} \/ (pc[a] = "idle" /\ a \in Cpus)
  /\ Goto(a, IF locking THEN "acquire" ELSE "print")
  /\ Left(a, n)
  /\ UNCHANGED <<lock, input, output, killed, asleep, part>>

PrintAcquire(a) ==
  /\ Acquire(a, "acquire", "print_locked")
  /\ UNCHANGED <<input, output, killed, asleep, left, part>>

\* The next character of the message.
Putc(a, c) ==
  /\ pc[a] \in {"print", "print_locked"}
  /\ ~Busy(a)
  /\ left[a] > 0
  /\ Left(a, left[a] - 1)
  /\ Consputc(a, c)
  /\ UNCHANGED <<lock, input, locking, panicked, calls, screen, killed, asleep, pc, part>>

\* cprintf returns, to its caller or into panic.
PrintDone(a) ==
  /\ pc[a] \in {"print", "print_locked"}
  /\ ~Busy(a)
  /\ left[a] = 0
  /\ lock' = IF pc[a] = "print_locked" THEN Nobody ELSE lock
  /\ calls' = [calls EXCEPT ![a] = IF @ > 0 THEN @ - 1 ELSE 0]
  /\ panicked' = (panicked \/ calls[a] = 1)
  /\ Goto(a, IF calls[a] = 0 THEN "idle" ELSE IF calls[a] = 1 THEN "spin" ELSE "panic")
  /\ UNCHANGED <<input, locking, out, screen, killed, asleep, left, part>>

\* Mutant of Panic: cons.locking stays set.
PanicLocking(a) ==
  /\ pc[a] \in {"idle", "print", "print_locked"}
  /\ ~Busy(a)
  /\ calls[a] = 0
  /\ calls' = [calls EXCEPT ![a] = PanicCalls]
  /\ Goto(a, "panic")
  /\ UNCHANGED <<lock, input, locking, panicked, out, screen, killed, asleep, left, part>>

\* Kernel code that runs on the cpu calls panic, whatever lock it holds.
Panic(a) ==
  /\ pc[a] \in {"idle", "print", "print_locked"}
  /\ ~Busy(a)
  /\ calls[a] = 0
  /\ StartPanic(a)
  /\ UNCHANGED <<lock, input, panicked, out, screen, killed, asleep, left, part>>

-----------------------------------------------------------------------------
PanicStep(a) ==
  /\ calls[a] > 0
  /\ \/ \E n \in 1 .. MaxPrint : Cprintf(a, n)
     \/ PrintAcquire(a)
     \/ \E c \in {"nl", "x"} : Putc(a, c)
     \/ Cgaputc(a)
     \/ PrintDone(a)

Reader(p) ==
  \/ \E n \in 1 .. MaxRead : ReadEnter(p, n)
  \/ ReadEmpty(p) \/ ReadSleep(p) \/ ReadAgain(p) \/ ReadByte(p)
  \/ Kill(p)

Interrupt ==
  IntrEnter \/ (\E key \in Keys : IntrStore(key)) \/ IntrCommit \/ IntrErase \/ IntrKillLine \/ IntrExit

Printer(a) ==
  \/ \E n \in 1 .. MaxPrint : Write(a, n) \/ Cprintf(a, n)
  \/ PrintAcquire(a) \/ PrintDone(a) \/ Cgaputc(a)
  \/ \E c \in {"nl", "x"} : Putc(a, c)

Step(a) ==
  \/ a \in Readers /\ Reader(a)
  \/ a = Intr /\ Interrupt
  \/ a \in Printers /\ Printer(a)
  \/ a \in Cpus /\ Panic(a)

Next == \E a \in Actors : Step(a)

Spec == Init /\ [][Next]_vars

-----------------------------------------------------------------------------
(* Properties                                                              *)

\* The characters from index i up to index j.
Between(i, j) == [x \in 1 .. (j - i) % UintMod |-> buf[((i + x - 1) % UintMod) % INPUT_BUF]]

Promise == INSTANCE LineInput
  WITH Chars <- Stored, Ends <- {"nl", "eof"}, Capacity <- INPUT_BUF,
       queue <- Between(r, w), line <- Between(w, e)

\* The ring of console.c, with its three indices that wrap around, is a line
\* editor in front of a queue: nothing committed is edited or overwritten, a
\* line is committed whole, a full buffer is committed so that it can be read,
\* and readers get the characters in order (console.c:203-226, 244-266).
ImplementsLineInput == Promise!Spec

\* A process asleep in consoleread has nothing to read, whichever of the
\* commits of consoleintr came last and whichever reader took what was there
\* (console.c:221-224, 245-252).
ReadersWait == asleep # {} => r = w

\* A cpu that panics never waits: each step of its report can be taken at
\* once, even if it holds cons.lock itself or another cpu does, until the report
\* is out or another cpu's report has stopped the machine (console.c:61-63,
\* 112-121, 168-172).
PanicProceeds == \A a \in Cpus : calls[a] > 0 /\ ~panicked => ENABLED PanicStep(a)

\* Until a cpu calls panic, cons.lock keeps the port accesses of one character
\* apart from those of another: whatever place on the ROWS rows the firmware left
\* the cursor at, newlines, backspaces and scrolling keep it on the screen, and
\* cgaputc's own panic never comes.  Nothing is claimed once a cpu reports a
\* panic, which prints without the lock (console.c:61-63, 137-162).
CursorOnScreen ==
  locking /\ boot < ROWS * COLS =>
    /\ \/ Cursor = boot \/ Cursor <= (ROWS - 1) * COLS
       \/ \E a \in Printers : Busy(a) /\ lock = a
    /\ \A a \in Printers : out[a].at = "get_low"
         => Advance(out[a].pos + cursor[index], out[a].c) <= ROWS * COLS
=============================================================================
