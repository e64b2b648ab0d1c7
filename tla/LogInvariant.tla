---------------------------- MODULE LogInvariant -----------------------------
(***************************************************************************)
(* The inductive invariant of the log, and the steps that neither add to   *)
(* the log nor count operations: commit, recovery, the cache and a crash   *)
(* keep it, and under it every step is one of an atomic disk or a stutter. *)
(***************************************************************************)
EXTENDS Log, TLAPS

\* A leaf is tried with Zenon, with SMT, and with Zenon for longer.
USE ZenonT(5), SMTT(30), ZenonT(60)

Phases == {"none", "write_log", "write_head", "install", "clear", "done",
           "read_head"}

Labels == InOp \cup {"idle", "awake", "asleep", "commit"}

Types ==
  /\ home \in [Blocks -> Values]
  /\ dlog \in [1 .. LOGSIZE -> Values]
  /\ dhead \in Seq(Blocks) /\ lh \in Seq(Blocks)
  /\ cache \in [Blocks -> Values \cup {NotCached}]
  /\ dirty \in SUBSET Blocks
  /\ outstanding \in Nat
  /\ committing \in BOOLEAN
  /\ op \in [Procs -> Labels]
  /\ held \in [Procs -> Blocks \cup {NoBlock}]
  /\ written \in [Procs -> SUBSET Blocks]
  /\ phase \in Phases
  /\ tail \in Nat
  /\ up \in BOOLEAN

\* What each process has modified is logged, but for the buffer it still holds.
Operations ==
  /\ outstanding = Cardinality(Active)
  /\ \A p \in Procs : op[p] \in {"modified", "checked"} <=> held[p] # NoBlock
  /\ \A p, q \in Procs : held[p] # NoBlock /\ p # q => held[q] # held[p]
  /\ \A p \in Procs : held[p] # NoBlock => held[p] \in written[p]
  /\ \A p \in Active : /\ Cardinality(written[p]) <= OpBlocks
                       /\ written[p] \subseteq Listed(lh) \cup {held[p]}
  /\ \A p \in Procs \ Active : written[p] = {}

\* One shot of what each running operation may still add to the log.
Logged(p) == written[p] \cap Listed(lh)

Unused == {t \in Active \X (1 .. OpBlocks) : t[2] <= OpBlocks - Cardinality(Logged(t[1]))}

\* The most that two operations or more, or a single one, can bring together.
Limit == LOGSIZE - 2 * (MAXOPBLOCKS - OpBlocks)

Room == IF Limit < OpBlocks THEN OpBlocks ELSE Limit

Fits ==
  /\ Len(lh) + Cardinality(Unused) <= Room
  /\ Len(dhead) <= Room

\* Which phases go with which state of the memory and of the disk.
Recovering == phase \in {"read_head", "install", "clear"}

Modes ==
  /\ IF up THEN phase # "read_head" /\ (committing <=> phase # "none")
     ELSE Recovering /\ ~committing /\ \A p \in Procs : op[p] = "idle"
  /\ committing => Active = {}
  /\ up /\ ~committing /\ Active = {} => lh = <<>>
  /\ phase \in {"read_head", "done"} => lh = <<>>
  /\ phase \in {"write_log", "install"} => tail < Len(lh)
  /\ phase \in {"write_head", "read_head"} => tail = 0
  /\ phase = "write_head" => lh # <<>>
  /\ phase \in {"install", "clear"} => lh = dhead
  /\ ~Recovering => dhead = <<>>

Distinct(seq) == \A i, j \in 1 .. Len(seq) : seq[i] = seq[j] => i = j

\* Where the contents of a block are to be found.
Copies ==
  /\ Distinct(lh) /\ Distinct(dhead)
  /\ \A b \in dirty : cache[b] # NotCached
  /\ \A p \in Procs : held[p] # NoBlock => cache[held[p]] # NotCached
  /\ ~Recovering =>
       /\ Listed(lh) \subseteq dirty
       /\ \A b \in Blocks : b \notin Listed(lh) /\ (\A p \in Procs : held[p] # b) =>
            cache[b] = NotCached \/ cache[b] = home[b]
  /\ Recovering =>
       /\ \A i \in 1 .. Len(dhead) : cache[dhead[i]] = NotCached \/ cache[dhead[i]] = dlog[i]
       /\ \A b \in Blocks : b \notin Listed(dhead) =>
            cache[b] = NotCached \/ cache[b] = home[b]

\* How far the loops of commit() and recover_from_log() have come.
Progress ==
  /\ phase = "write_log" => \A i \in 1 .. tail : dlog[i] = cache[lh[i]]
  /\ phase = "write_head" => \A i \in 1 .. Len(lh) : dlog[i] = cache[lh[i]]
  /\ phase = "install" => \A i \in 1 .. tail : home[lh[i]] = dlog[i]
  /\ phase = "install" /\ up => \A i \in 1 .. Len(lh) : i > tail => lh[i] \in dirty
  /\ phase = "clear" => \A i \in 1 .. Len(lh) : home[lh[i]] = dlog[i]

IInv == Types /\ Operations /\ Fits /\ Modes /\ Copies /\ Progress /\ NoMissedWakeup

-----------------------------------------------------------------------------
LEMMA NoneCounted == Cardinality({}) = 0
<1> DEFINE F(f) == [T \in SUBSET {} |-> IF T = {} THEN 0 ELSE 1 + f[T \ {CHOOSE x : x \in T}]]
<1>1. \E f : f = F(f)
  <2>1. [T \in SUBSET {} |-> 0] = F([T \in SUBSET {} |-> 0])
    OBVIOUS
  <2> QED
    BY <2>1
<1>2. (CHOOSE f : f = F(f)) = F(CHOOSE f : f = F(f))
  BY <1>1
<1>3. (CHOOSE f : f = F(f))[{}] = 0
  BY <1>2
<1> QED
  BY <1>3 DEF Cardinality

(* Sequences of block numbers                                              *)

LEMMA ListedAppend ==
  ASSUME NEW seq \in Seq(Blocks), NEW b \in Blocks
  PROVE  /\ Append(seq, b) \in Seq(Blocks) /\ Len(Append(seq, b)) = Len(seq) + 1
         /\ Listed(Append(seq, b)) = Listed(seq) \cup {b}
         /\ Distinct(seq) /\ b \notin Listed(seq) => Distinct(Append(seq, b))
<1>1. /\ Append(seq, b) \in Seq(Blocks) /\ Len(Append(seq, b)) = Len(seq) + 1
      /\ Len(seq) \in Nat
      /\ \A i \in 1 .. Len(seq) : Append(seq, b)[i] = seq[i]
      /\ Append(seq, b)[Len(seq) + 1] = b
  OBVIOUS
<1>2. \A i \in 1 .. Len(seq) + 1 : i \in 1 .. Len(seq) \/ i = Len(seq) + 1
  BY <1>1
<1>3. Listed(Append(seq, b)) = Listed(seq) \cup {b}
  BY <1>1, <1>2 DEF Listed
<1>4. ASSUME Distinct(seq), b \notin Listed(seq)
      PROVE  Distinct(Append(seq, b))
  BY <1>1, <1>2, <1>4 DEF Distinct, Listed
<1> QED
  BY <1>1, <1>3, <1>4

LEMMA SomeListed ==
  ASSUME NEW seq \in Seq(Blocks), seq # <<>>
  PROVE  0 < Len(seq)
<1>1. Len(seq) \in Nat /\ (Len(seq) = 0 => seq = <<>>)
  OBVIOUS
<1> QED
  BY <1>1

LEMMA ListedEmpty ==
  /\ <<>> \in Seq(Blocks) /\ Len(<<>>) = 0
  /\ Listed(<<>>) = {} /\ Distinct(<<>>)
  BY DEF Listed, Distinct

\* The bounds that the assumptions on the constants give.
LEMMA RoomBound ==
  /\ Room \in Int /\ Room < LOGSIZE /\ Room < LogBlocks - 1 /\ OpBlocks <= Room
  /\ \A n \in Nat \ {0}, k \in Nat :
       k + (n + 1) * MAXOPBLOCKS <= LOGSIZE => k + (n + 1) * OpBlocks <= Room
<1> USE LogAssumption, RoomAssumption
<1>1. Room \in Int /\ Room < LOGSIZE /\ Room < LogBlocks - 1 /\ OpBlocks <= Room /\ Limit <= Room
  BY DEF Room, Limit
<1>2. ASSUME NEW n \in Nat \ {0}, NEW k \in Nat, k + (n + 1) * MAXOPBLOCKS <= LOGSIZE
      PROVE  k + (n + 1) * OpBlocks <= Room
  <2> DEFINE d == MAXOPBLOCKS - OpBlocks
  <2>1. d \in Nat /\ MAXOPBLOCKS = OpBlocks + d /\ OpBlocks \in Nat
    OBVIOUS
  <2>2. (n + 1) * MAXOPBLOCKS = (n + 1) * OpBlocks + (n + 1) * d
    BY <2>1
  <2>3. (n + 1) * d >= 2 * d
    BY <2>1
  <2>4. (n + 1) * OpBlocks \in Int /\ (n + 1) * d \in Int
    BY <2>1
  <2> QED
    BY <1>1, <1>2, <2>1, <2>2, <2>3, <2>4 DEF Limit
<1> QED
  BY <1>1, <1>2

LEMMA OperationsKept ==
  ASSUME Operations, UNCHANGED <<outstanding, op, held, written, lh>>
  PROVE  Operations'
  BY DEF Operations, Active, Listed

LEMMA FitsKept ==
  ASSUME Fits, UNCHANGED <<op, written, lh, dhead>>
  PROVE  Fits'
  BY DEF Fits, Unused, Logged, Active, Listed

LEMMA CopiesKept ==
  ASSUME Copies, UNCHANGED <<lh, dhead, dirty, cache, held, home, dlog>>,
         Recovering' = Recovering
  PROVE  Copies'
  BY DEF Copies, Listed, Distinct

LEMMA ProgressKept ==
  ASSUME Progress, UNCHANGED <<phase, tail, dlog, cache, lh, home, up, dirty>>
  PROVE  Progress'
  BY DEF Progress

\* A step of a process that is in no operation, or stays in it.
LEMMA OutsideKept ==
  ASSUME Operations, Fits,
         UNCHANGED <<outstanding, held, written, lh, dhead>>,
         \A q \in Procs : \/ op'[q] = op[q]
                          \/ op[q] \notin InOp /\ op'[q] \notin InOp
                          \/ op[q] = "modified" /\ op'[q] = "checked"
  PROVE  Active' = Active /\ Operations' /\ Fits'
<1>1. Active' = Active
  BY DEF Active, InOp
<1>2. Listed(lh)' = Listed(lh)
  BY DEF Listed
<1>3. \A q \in Procs : op'[q] \in {"modified", "checked"} <=> op[q] \in {"modified", "checked"}
  BY DEF InOp
<1>4. Operations'
  BY <1>1, <1>2, <1>3 DEF Operations
<1>5. Unused' = Unused
  BY <1>1, <1>2 DEF Unused, Logged
<1> QED
  BY <1>1, <1>4, <1>5 DEF Fits

\* While an operation runs nobody commits.
LEMMA Running ==
  ASSUME IInv, NEW p \in Procs, op[p] \in InOp
  PROVE  /\ p \in Active
         /\ up = TRUE /\ committing = FALSE /\ phase = "none" /\ dhead = <<>>
         /\ ~Recovering /\ Listed(lh) \subseteq dirty
<1>1. p \in Active
  BY DEF Active
<1>2. up
  BY DEF IInv, Modes, InOp
<1>3. ~committing
  BY <1>1 DEF IInv, Modes
<1>4. phase = "none"
  BY <1>2, <1>3 DEF IInv, Modes
<1>5. ~Recovering
  BY <1>4 DEF Recovering
<1>6. dhead = <<>> /\ Listed(lh) \subseteq dirty
  BY <1>5 DEF IInv, Modes, Copies
<1> QED
  BY <1>1, <1>2, <1>3, <1>4, <1>5, <1>6 DEF IInv, Types

LEMMA BeginSleepInv ==
  ASSUME IInv, NEW p \in Procs, BeginSleep(p)
  PROVE  IInv' /\ Active' = Active
<1> USE DEF BeginSleep, disk
<1>1. Types'
  BY DEF IInv, Types, Labels, InOp
<1>2. \A q \in Procs : op'[q] = IF q = p THEN "asleep" ELSE op[q]
  BY DEF IInv, Types
<1>3. Active' = Active /\ Operations' /\ Fits'
  BY <1>2, OutsideKept DEF IInv, InOp
<1>4. Modes'
  BY <1>3 DEF IInv, Modes, Recovering
<1>5. Copies' /\ Progress'
  BY CopiesKept, ProgressKept DEF IInv, Recovering
<1>6. NoMissedWakeup'
  BY DEF NoMissedWakeup, MayBegin
<1> QED
  BY <1>1, <1>3, <1>4, <1>5, <1>6 DEF IInv

-----------------------------------------------------------------------------
(* bread, log_write                                                        *)

LEMMA Woken ==
  ASSUME NEW o, NEW p \in Procs
  PROVE  /\ Wakeup(o)[p] # "asleep"
         /\ Wakeup(o)[p] \in InOp <=> o[p] \in InOp
         /\ Wakeup(o)[p] \in {"modified", "checked"} <=> o[p] \in {"modified", "checked"}
         /\ Wakeup(o)[p] = o[p] \/ Wakeup(o)[p] = "awake"
  BY DEF Wakeup, InOp

LEMMA EndOpActive ==
  ASSUME IInv, NEW p \in Procs, EndOp(p)
  PROVE  p \in Active /\ Active' = Active \ {p}
<1>1. op[p] = "running" /\ p \in Active /\ committing = FALSE
  BY Running DEF EndOp, InOp
<1> DEFINE o == [op EXCEPT ![p] = "idle"]
<1>2. \A q \in Procs : o[q] \in InOp <=> q # p /\ op[q] \in InOp
  BY DEF IInv, Types, InOp
<1>3. op' = [op EXCEPT ![p] = "commit"] \/ op' = Wakeup(o)
  BY <1>1 DEF EndOp
<1>4. \A q \in Procs : op'[q] \in InOp <=> q # p /\ op[q] \in InOp
  <2> HIDE DEF o
  <2>1. CASE op' = [op EXCEPT ![p] = "commit"]
    BY <2>1 DEF IInv, Types, InOp
  <2>2. CASE op' = Wakeup(o)
    BY <1>2, <2>2, Woken
  <2> QED
    BY <1>3, <2>1, <2>2
<1> QED
  BY <1>1, <1>4 DEF Active

LEMMA EndCommitInv ==
  ASSUME IInv, NEW p \in Procs, EndCommit(p)
  PROVE  IInv' /\ Active' = Active
<1>1. /\ op[p] = "commit" /\ phase = "done" /\ phase' = "none" /\ committing' = FALSE
      /\ op' = Wakeup([op EXCEPT ![p] = "idle"])
      /\ UNCHANGED <<home, dlog, dhead, cache, dirty, lh, outstanding, held, written, tail, up>>
  BY DEF EndCommit, disk
<1> DEFINE o == [op EXCEPT ![p] = "idle"]
<1>2. \A q \in Procs : o[q] = IF q = p THEN "idle" ELSE op[q]
  BY DEF IInv, Types
<1>3. Types'
  <2>1. op' \in [Procs -> Labels]
    BY <1>1 DEF IInv, Types, Labels, InOp, Wakeup
  <2> QED
    BY <1>1, <2>1 DEF IInv, Types, Phases
<1>4. \A q \in Procs : op'[q] # "asleep" /\ (op'[q] = op[q] \/ (op[q] \notin InOp /\ op'[q] \notin InOp))
  <2> HIDE DEF o
  <2>1. op' = Wakeup(o)
    BY <1>1 DEF o
  <2>2. \A q \in Procs : op'[q] # "asleep"
    BY <2>1, Woken
  <2>3. \A q \in Procs : op'[q] = op[q] \/ (op[q] \notin InOp /\ op'[q] \notin InOp)
    BY <1>1, <1>2, <2>1 DEF InOp, Wakeup
  <2> QED
    BY <2>2, <2>3
<1>5. Active' = Active /\ Operations' /\ Fits'
  BY <1>1, <1>4, OutsideKept DEF IInv
<1>6. up
  BY <1>1 DEF IInv, Modes
<1>7. lh = <<>> /\ dhead = <<>> /\ committing
  BY <1>1, <1>6 DEF IInv, Modes, Recovering
<1>8. Modes'
  BY <1>1, <1>6, <1>7 DEF Modes, Recovering
<1>9. Copies'
  BY <1>1, CopiesKept DEF IInv, Recovering
<1>10. Progress'
  BY <1>1 DEF Progress
<1>11. NoMissedWakeup'
  BY <1>4 DEF NoMissedWakeup
<1> QED
  BY <1>3, <1>5, <1>8, <1>9, <1>10, <1>11 DEF IInv

-----------------------------------------------------------------------------
(* commit() and recover_from_log()                                         *)

\* Nobody is in an operation while the log is written or installed.
LEMMA CommitAlone ==
  ASSUME IInv, phase # "none"
  PROVE  /\ Active = {} /\ Unused = {} /\ Cardinality(Unused) = 0
         /\ \A p \in Procs : held[p] = NoBlock /\ written[p] = {}
<1>1. CASE up
  <2>1. committing
    BY <1>1 DEF IInv, Modes
  <2>2. Active = {} /\ ~MayBegin
    BY <2>1 DEF IInv, Modes, MayBegin
  <2> QED
    BY <2>2, NoneCounted DEF IInv, Operations, Active, InOp, Unused
<1>2. CASE ~up
  <2>1. \A p \in Procs : op[p] = "idle"
    BY <1>2 DEF IInv, Modes
  <2>2. Active = {}
    BY <2>1 DEF Active, InOp
  <2> QED
    BY <2>1, <2>2, NoneCounted DEF IInv, Operations, Unused
<1> QED
  BY <1>1, <1>2 DEF IInv, Types

\* The entry the loop is at.
LEMMA Entry ==
  ASSUME IInv, phase # "none", tail < Len(lh)
  PROVE  /\ tail \in Nat /\ Len(lh) \in Nat /\ tail + 1 \in 1 .. Len(lh)
         /\ 1 .. Len(lh) \subseteq 1 .. LOGSIZE
         /\ lh[tail + 1] \in Blocks /\ lh[tail + 1] \in Listed(lh)
         /\ lh \in [1 .. Len(lh) -> Blocks]
<1>1. lh \in Seq(Blocks) /\ tail \in Nat /\ Len(lh) \in Nat
  BY DEF IInv, Types
<1>2. Len(lh) <= LOGSIZE
  BY <1>1, CommitAlone, RoomBound, LogAssumption DEF IInv, Fits
<1>3. tail + 1 \in 1 .. Len(lh) /\ 1 .. Len(lh) \subseteq 1 .. LOGSIZE
  BY <1>1, <1>2, LogAssumption
<1> QED
  BY <1>1, <1>3 DEF Listed

\* What a step of the loop leaves alone.
LEMMA LoopKeeps ==
  ASSUME IInv, phase # "none", phase' # "none",
         UNCHANGED <<dhead, lh, outstanding, committing, op, held, written, up>>
  PROVE  Operations' /\ Fits' /\ NoMissedWakeup' /\ Active' = Active
<1>1. Operations' /\ Fits'
  BY OperationsKept, FitsKept DEF IInv
<1>2. NoMissedWakeup'
  BY DEF IInv, NoMissedWakeup, MayBegin
<1> QED
  BY <1>1, <1>2 DEF Active

LEMMA WriteLogInv ==
  ASSUME IInv, WriteLog
  PROVE  IInv' /\ cache' = cache
<1> DEFINE b == lh[tail + 1]
<1>1. /\ phase = "write_log" /\ tail < Len(lh)
      /\ UNCHANGED <<home, dhead, dirty, lh, outstanding, committing, op, held, written, up>>
  BY DEF WriteLog, IInv, Modes
<1>2. /\ tail \in Nat /\ Len(lh) \in Nat /\ tail + 1 \in 1 .. Len(lh)
      /\ 1 .. Len(lh) \subseteq 1 .. LOGSIZE
      /\ b \in Blocks /\ b \in Listed(lh)
  BY <1>1, Entry
<1>3. ~Recovering
  BY <1>1 DEF Recovering
<1>4. cache[b] # NotCached /\ Bread(b) = cache[b]
  BY <1>2, <1>3 DEF IInv, Copies, Bread
<1>5. cache' = cache
  BY <1>2, <1>4 DEF WriteLog, IInv, Types
<1>6. /\ dlog' \in [1 .. LOGSIZE -> Values]
      /\ \A i \in 1 .. LOGSIZE : dlog'[i] = IF i = tail + 1 THEN cache[b] ELSE dlog[i]
  <2>1. cache[b] \in Values
    BY <1>2, <1>4 DEF IInv, Types
  <2> QED
    BY <1>2, <1>4, <2>1 DEF WriteLog, IInv, Types
<1>7. \/ tail + 1 < Len(lh) /\ phase' = "write_log" /\ tail' = tail + 1
      \/ tail + 1 = Len(lh) /\ phase' = "write_head" /\ tail' = 0
  BY <1>2 DEF WriteLog, Loop
<1>8. Types'
  BY <1>1, <1>2, <1>5, <1>6, <1>7 DEF IInv, Types, Phases
<1>9. Operations' /\ Fits' /\ NoMissedWakeup' /\ Active' = Active
  BY <1>1, <1>7, LoopKeeps
<1>10. ~Recovering'
  BY <1>7 DEF Recovering
<1>11. Modes'
  <2>1. lh # <<>>
    BY <1>2, ListedEmpty
  <2> QED
    BY <1>1, <1>3, <1>7, <1>9, <1>10, <2>1 DEF IInv, Modes, Recovering
<1>12. Copies'
  <2>1. Listed(lh)' = Listed(lh) /\ Distinct(lh)' /\ Distinct(dhead)'
    BY <1>1 DEF IInv, Copies, Listed, Distinct
  <2> QED
    BY <1>1, <1>3, <1>5, <1>10, <2>1 DEF IInv, Copies
<1>13. Progress'
  <2>1. \A i \in 1 .. tail + 1 : dlog'[i] = cache[lh[i]]
    <3>1. \A i \in 1 .. tail : dlog[i] = cache[lh[i]]
      BY <1>1 DEF IInv, Progress
    <3> QED
      BY <1>2, <1>6, <3>1
  <2> QED
    BY <1>1, <1>5, <1>7, <2>1 DEF Progress
<1> QED
  BY <1>5, <1>8, <1>9, <1>11, <1>12, <1>13 DEF IInv

LEMMA WriteHeadInv ==
  ASSUME IInv, WriteHead
  PROVE  IInv'
<1>1. /\ phase = "write_head" /\ tail = 0 /\ phase' = "install" /\ dhead' = lh
      /\ UNCHANGED <<home, dlog, cache, dirty, lh, outstanding, committing, op, held, written,
                     tail, up>>
  BY DEF WriteHead, IInv, Modes
<1>2. ~Recovering /\ Recovering'
  BY <1>1 DEF Recovering
<1>3. lh \in Seq(Blocks) /\ Len(lh) \in Nat
  BY DEF IInv, Types
<1>4. \A p \in Procs : held[p] = NoBlock
  BY <1>1, CommitAlone
<1>5. Types'
  BY <1>1 DEF IInv, Types, Phases
<1>6. Operations' /\ NoMissedWakeup' /\ Active' = Active
  BY <1>1, OperationsKept DEF IInv, NoMissedWakeup, MayBegin, Active
<1>7. Fits'
  <2>1. Unused' = Unused
    BY <1>1 DEF Unused, Active, Logged, Listed
  <2>2. Len(lh) <= Room
    BY <1>1, <1>3, CommitAlone, RoomBound DEF IInv, Fits
  <2> QED
    BY <1>1, <2>1, <2>2 DEF IInv, Fits
<1>8. 0 < Len(lh)
  BY <1>1, <1>3, SomeListed DEF IInv, Modes
<1>9. Modes'
  BY <1>1, <1>2, <1>6, <1>8 DEF IInv, Modes, Recovering
<1>10. Listed(dhead') = Listed(lh) /\ Listed(dhead)' = Listed(lh) /\ Listed(lh)' = Listed(lh)
  BY <1>1 DEF Listed
<1>11. Copies'
  <2>1. Distinct(lh)' /\ Distinct(dhead)'
    BY <1>1 DEF IInv, Copies, Distinct
  <2>2. \A i \in 1 .. Len(lh) : cache[lh[i]] = NotCached \/ cache[lh[i]] = dlog[i]
    BY <1>1 DEF IInv, Progress
  <2>3. \A c \in Blocks : c \notin Listed(lh) => cache[c] = NotCached \/ cache[c] = home[c]
    BY <1>2, <1>4, LogAssumption DEF IInv, Copies
  <2> QED
    BY <1>1, <1>2, <1>10, <2>1, <2>2, <2>3 DEF IInv, Copies
<1>12. Progress'
  <2>1. \A i \in 1 .. Len(lh) : lh[i] \in dirty
    BY <1>2 DEF IInv, Copies, Listed
  <2> QED
    BY <1>1, <2>1 DEF Progress
<1> QED
  BY <1>5, <1>6, <1>7, <1>9, <1>11, <1>12 DEF IInv

LEMMA InstallTransInv ==
  ASSUME IInv, InstallTrans
  PROVE  IInv'
<1> DEFINE b == lh[tail + 1]
<1>1. /\ phase = "install" /\ tail < Len(lh) /\ lh = dhead
      /\ UNCHANGED <<dlog, dhead, lh, outstanding, committing, op, held, written, up>>
  BY DEF InstallTrans, IInv, Modes
<1>2. /\ tail \in Nat /\ Len(lh) \in Nat /\ tail + 1 \in 1 .. Len(lh)
      /\ 1 .. Len(lh) \subseteq 1 .. LOGSIZE
      /\ b \in Blocks /\ b \in Listed(lh)
      /\ lh \in [1 .. Len(lh) -> Blocks]
  BY <1>1, Entry
<1>3. dlog[tail + 1] \in Values
  BY <1>2 DEF IInv, Types
<1>4. /\ \A c \in Blocks : home'[c] = IF c = b THEN dlog[tail + 1] ELSE home[c]
      /\ \A c \in Blocks : cache'[c] = IF c = b THEN dlog[tail + 1] ELSE cache[c]
      /\ dirty' = dirty \ {b}
      /\ home' \in [Blocks -> Values] /\ cache' \in [Blocks -> Values \cup {NotCached}]
  BY <1>2, <1>3 DEF InstallTrans, IInv, Types
<1>5. \A i \in 1 .. Len(lh) : lh[i] = b => i = tail + 1
  BY <1>2 DEF IInv, Copies, Distinct
<1>6. \/ tail + 1 < Len(lh) /\ phase' = "install" /\ tail' = tail + 1
      \/ tail + 1 = Len(lh) /\ phase' = "clear" /\ tail' = 0
  BY <1>2 DEF InstallTrans, Loop
<1>7. Recovering /\ Recovering'
  BY <1>1, <1>6 DEF Recovering
<1>8. Types'
  <2>1. phase' \in Phases /\ tail' \in Nat
    BY <1>2, <1>6 DEF Phases
  <2>2. dirty' \in SUBSET Blocks
    BY <1>4 DEF IInv, Types
  <2> QED
    BY <1>1, <1>4, <2>1, <2>2 DEF IInv, Types
<1>9. Operations' /\ Fits' /\ NoMissedWakeup' /\ Active' = Active
  BY <1>1, <1>6, LoopKeeps
<1>10. Modes'
  <2>1. tail' < Len(lh) \/ phase' = "clear"
    BY <1>6
  <2>2. up => committing
    BY <1>1 DEF IInv, Modes
  <2> QED
    BY <1>1, <1>6, <1>7, <1>9, <2>1, <2>2 DEF IInv, Modes, Recovering
<1>11. Copies'
  <2>1. /\ Listed(lh)' = Listed(lh) /\ Listed(dhead)' = Listed(lh)
        /\ Distinct(lh)' /\ Distinct(dhead)'
    BY <1>1 DEF IInv, Copies, Listed, Distinct
  <2>2. \A c \in dirty' : cache'[c] # NotCached
    BY <1>3, <1>4, LogAssumption DEF IInv, Copies, Types
  <2>3. \A p \in Procs : held'[p] = NoBlock
    BY <1>1, CommitAlone
  <2>4. \A i \in 1 .. Len(lh) : cache'[lh[i]] = NotCached \/ cache'[lh[i]] = dlog[i]
    <3> TAKE i \in 1 .. Len(lh)
    <3>1. lh[i] \in Blocks /\ (cache[lh[i]] = NotCached \/ cache[lh[i]] = dlog[i])
      BY <1>1, <1>2, <1>7 DEF IInv, Copies
    <3> QED
      BY <1>4, <1>5, <3>1
  <2>5. \A c \in Blocks : c \notin Listed(lh) => cache'[c] = NotCached \/ cache'[c] = home'[c]
    BY <1>1, <1>2, <1>4, <1>7 DEF IInv, Copies
  <2> QED
    BY <1>1, <1>7, <2>1, <2>2, <2>3, <2>4, <2>5 DEF Copies
<1>12. Progress'
  <2>1. \A i \in 1 .. tail + 1 : home'[lh[i]] = dlog[i]
    <3> TAKE i \in 1 .. tail + 1
    <3>1. CASE i = tail + 1
      BY <1>2, <1>4, <3>1
    <3>2. CASE i # tail + 1
      <4>1. i \in 1 .. tail /\ i \in 1 .. Len(lh)
        BY <1>2, <3>2
      <4>2. home[lh[i]] = dlog[i]
        BY <1>1, <4>1 DEF IInv, Progress
      <4> QED
        BY <1>2, <1>4, <1>5, <3>2, <4>1, <4>2
    <3> QED
      BY <3>1, <3>2
  <2>2. up => \A i \in 1 .. Len(lh) : i > tail + 1 => lh[i] \in dirty'
    <3> SUFFICES ASSUME up, NEW i \in 1 .. Len(lh), i > tail + 1 PROVE lh[i] \in dirty'
      OBVIOUS
    <3>1. lh[i] \in dirty
      BY <1>1, <1>2 DEF IInv, Progress
    <3>2. lh[i] # b
      BY <1>2, <1>5
    <3> QED
      BY <1>4, <3>1, <3>2
  <2> QED
    BY <1>1, <1>6, <2>1, <2>2 DEF Progress
<1> QED
  BY <1>8, <1>9, <1>10, <1>11, <1>12 DEF IInv

LEMMA ClearHeadInv ==
  ASSUME IInv, ClearHead
  PROVE  IInv' /\ Active' = Active
<1>1. /\ phase = "clear" /\ lh = dhead /\ lh' = <<>> /\ dhead' = <<>> /\ up' = TRUE
      /\ phase' = IF up THEN "done" ELSE "none"
      /\ UNCHANGED <<home, dlog, cache, dirty, outstanding, committing, op, held, written, tail>>
  BY DEF ClearHead, IInv, Modes
<1>2. Recovering /\ ~Recovering'
  BY <1>1 DEF Recovering
<1>3. /\ Active = {} /\ \A p \in Procs : held[p] = NoBlock /\ written[p] = {}
  BY <1>1, CommitAlone
<1>4. Active' = {}
  BY <1>1, <1>3 DEF Active
<1>5. Types'
  BY <1>1, ListedEmpty DEF IInv, Types, Phases
<1>6. Operations'
  BY <1>1, <1>3, <1>4 DEF IInv, Operations
<1>7. Fits'
  <2>1. Cardinality(Unused') = 0
    BY <1>4, NoneCounted DEF Unused
  <2>2. 0 <= Room
    BY RoomBound, LogAssumption
  <2> QED
    BY <1>1, <2>1, <2>2, ListedEmpty DEF Fits
<1>8. Modes'
  BY <1>1, <1>2, <1>4 DEF IInv, Modes, Recovering
<1>9. Copies'
  <2>1. \A c \in Blocks : cache[c] = NotCached \/ cache[c] = home[c]
    <3> TAKE c \in Blocks
    <3>1. CASE c \in Listed(dhead)
      <4>1. PICK i \in 1 .. Len(dhead) : dhead[i] = c
        BY <3>1 DEF Listed
      <4>2. cache[c] = NotCached \/ cache[c] = dlog[i]
        BY <1>2, <4>1 DEF IInv, Copies
      <4>3. home[c] = dlog[i]
        BY <1>1, <4>1 DEF IInv, Progress
      <4> QED
        BY <4>2, <4>3
    <3>2. CASE c \notin Listed(dhead)
      BY <1>2, <3>2 DEF IInv, Copies
    <3> QED
      BY <3>1, <3>2
  <2>2. Listed(lh)' = {} /\ Distinct(lh)' /\ Distinct(dhead)'
    BY <1>1, ListedEmpty DEF Listed, Distinct
  <2> QED
    BY <1>1, <1>2, <2>1, <2>2 DEF IInv, Copies
<1>10. Progress'
  BY <1>1 DEF Progress
<1>11. NoMissedWakeup'
  <2>1. CASE up
    <3>1. committing
      BY <1>1, <2>1 DEF IInv, Modes
    <3> QED
      BY <1>1, <3>1 DEF NoMissedWakeup, MayBegin
  <2>2. CASE ~up
    BY <1>1, <2>2 DEF IInv, Modes, NoMissedWakeup
  <2> QED
    BY <2>1, <2>2
<1> QED
  BY <1>3, <1>4, <1>5, <1>6, <1>7, <1>8, <1>9, <1>10, <1>11 DEF IInv

LEMMA ReadHeadInv ==
  ASSUME IInv, ReadHead
  PROVE  IInv' /\ Active' = Active
<1>1. /\ phase = "read_head" /\ lh' = dhead /\ tail = 0
      /\ phase' = IF dhead = <<>> THEN "clear" ELSE "install"
      /\ UNCHANGED <<home, dlog, dhead, cache, dirty, outstanding, committing, op, held, written,
                     tail, up>>
  BY DEF ReadHead, disk, IInv, Modes
<1>2. Recovering /\ Recovering'
  BY <1>1 DEF Recovering
<1>3. ~up /\ ~committing /\ \A p \in Procs : op[p] = "idle"
  BY <1>1 DEF IInv, Modes
<1>4. /\ Active = {} /\ \A p \in Procs : held[p] = NoBlock /\ written[p] = {}
  BY <1>1, CommitAlone
<1>5. Active' = {}
  BY <1>1, <1>4 DEF Active
<1>6. dhead \in Seq(Blocks) /\ Len(dhead) \in Nat /\ (dhead # <<>> => 0 < Len(dhead))
  BY SomeListed DEF IInv, Types
<1>7. Types'
  BY <1>1 DEF IInv, Types, Phases
<1>8. Operations'
  BY <1>1, <1>4, <1>5 DEF IInv, Operations
<1>9. Fits'
  <2>1. Cardinality(Unused') = 0
    BY <1>5, NoneCounted DEF Unused
  <2> QED
    BY <1>1, <1>6, <2>1, RoomBound DEF IInv, Fits
<1>10. Modes'
  BY <1>1, <1>2, <1>3, <1>5, <1>6 DEF Modes, Recovering
<1>11. Copies'
  <2>1. Listed(dhead)' = Listed(dhead) /\ Distinct(lh)' /\ Distinct(dhead)'
    BY <1>1 DEF IInv, Copies, Listed, Distinct
  <2> QED
    BY <1>1, <1>2, <2>1 DEF IInv, Copies
<1>12. Progress'
  BY <1>1, <1>3, <1>6, ListedEmpty DEF Progress
<1>13. NoMissedWakeup'
  BY <1>1, <1>3 DEF NoMissedWakeup
<1> QED
  BY <1>4, <1>5, <1>7, <1>8, <1>9, <1>10, <1>11, <1>12, <1>13 DEF IInv

-----------------------------------------------------------------------------
(* The buffer cache, and a crash                                           *)

\* A block that is not cached is up to date at home once the system is up.
LEMMA HomeCurrent ==
  ASSUME IInv, up, NEW b \in Blocks, cache[b] = NotCached
  PROVE  \A i \in 1 .. Len(dhead) : dhead[i] = b => home[b] = dlog[i]
<1> TAKE i \in 1 .. Len(dhead)
<1> HAVE dhead[i] = b
<1>1. Recovering
  BY ListedEmpty DEF IInv, Modes
<1>2. phase = "install" \/ phase = "clear"
  BY <1>1 DEF IInv, Modes, Recovering
<1>3. lh = dhead
  BY <1>2 DEF IInv, Modes
<1>4. CASE phase = "install"
  <2>1. b \notin dirty
    BY DEF IInv, Copies
  <2>2. ~(i > tail)
    BY <1>3, <1>4, <2>1 DEF IInv, Progress
  <2>3. i \in 1 .. tail
    BY <2>2 DEF IInv, Types
  <2> QED
    BY <1>3, <1>4, <2>3 DEF IInv, Progress
<1>5. CASE phase = "clear"
  BY <1>3, <1>5 DEF IInv, Progress
<1> QED
  BY <1>2, <1>4, <1>5

\* Fetch and Recycle change the cached copy of one block.
LEMMA CacheStep ==
  ASSUME IInv, NEW b \in Blocks,
         UNCHANGED <<home, dlog, dhead, dirty, lh, outstanding, committing, op, held, written,
                     phase, tail, up>>,
         cache' \in [Blocks -> Values \cup {NotCached}],
         \A c \in Blocks : c # b => cache'[c] = cache[c],
         b \notin dirty /\ \A p \in Procs : held[p] # b,
         cache'[b] = NotCached \/ cache'[b] = home[b],
         cache'[b] = NotCached \/ \A i \in 1 .. Len(dhead) : dhead[i] = b => home[b] = dlog[i]
  PROVE  IInv'
<1>1. Types'
  BY DEF IInv, Types
<1>2. Operations' /\ Fits' /\ NoMissedWakeup'
  BY OperationsKept, FitsKept DEF IInv, NoMissedWakeup, MayBegin
<1>3. Modes'
  BY DEF IInv, Modes, Recovering, Active
<1>4. Recovering' = Recovering
  BY DEF Recovering
<1>5. /\ \A c \in dirty : cache'[c] = cache[c]
      /\ \A p \in Procs : held[p] # NoBlock => cache'[held[p]] = cache[held[p]]
  BY DEF IInv, Types
<1>6. Copies'
  <2>1. /\ Listed(lh)' = Listed(lh) /\ Listed(dhead)' = Listed(dhead)
        /\ Distinct(lh)' /\ Distinct(dhead)'
    BY DEF IInv, Copies, Listed, Distinct
  <2>2. /\ \A c \in dirty' : cache'[c] # NotCached
        /\ \A p \in Procs : held'[p] # NoBlock => cache'[held'[p]] # NotCached
    BY <1>5 DEF IInv, Copies
  <2>3. CASE ~Recovering
    <3>1. \A c \in Blocks : c \notin Listed(lh) /\ (\A p \in Procs : held[p] # c) =>
            cache'[c] = NotCached \/ cache'[c] = home[c]
      BY <2>3 DEF IInv, Copies
    <3> QED
      BY <1>4, <2>1, <2>2, <2>3, <3>1 DEF IInv, Copies
  <2>4. CASE Recovering
    <3>1. \A c \in Blocks : c \notin Listed(dhead) => cache'[c] = NotCached \/ cache'[c] = home[c]
      BY <2>4 DEF IInv, Copies
    <3>2. \A i \in 1 .. Len(dhead) : cache'[dhead[i]] = NotCached \/ cache'[dhead[i]] = dlog[i]
      <4> TAKE i \in 1 .. Len(dhead)
      <4>1. dhead[i] \in Blocks
        BY DEF IInv, Types
      <4>2. CASE dhead[i] = b
        BY <4>2
      <4>3. CASE dhead[i] # b
        BY <2>4, <4>1, <4>3 DEF IInv, Copies
      <4> QED
        BY <4>2, <4>3
    <3> QED
      BY <1>4, <2>1, <2>2, <2>4, <3>1, <3>2 DEF IInv, Copies
  <2> QED
    BY <2>3, <2>4
<1>7. Progress'
  <2>1. CASE Recovering
    BY <2>1 DEF IInv, Progress, Recovering
  <2>2. CASE ~Recovering
    <3>1. \A i \in 1 .. Len(lh) : cache'[lh[i]] = cache[lh[i]]
      BY <1>5, <2>2 DEF IInv, Copies, Listed
    <3>2. phase = "write_log" => 1 .. tail \subseteq 1 .. Len(lh)
      BY DEF IInv, Modes, Types
    <3> QED
      BY <2>2, <3>1, <3>2 DEF IInv, Progress, Recovering
  <2> QED
    BY <2>1, <2>2
<1> QED
  BY <1>1, <1>2, <1>3, <1>6, <1>7 DEF IInv

LEMMA FetchInv ==
  ASSUME IInv, NEW b \in Blocks, Fetch(b)
  PROVE  IInv'
<1>1. /\ up /\ cache[b] = NotCached /\ cache' = [cache EXCEPT ![b] = home[b]]
      /\ UNCHANGED <<home, dlog, dhead, dirty, lh, outstanding, committing, op, held, written,
                     phase, tail, up>>
  BY DEF Fetch, disk
<1>2. /\ cache' \in [Blocks -> Values \cup {NotCached}]
      /\ \A c \in Blocks : c # b => cache'[c] = cache[c]
      /\ cache'[b] = home[b]
  BY <1>1 DEF IInv, Types
<1>3. b \notin dirty /\ \A p \in Procs : held[p] # b
  <2>1. b # NoBlock
    BY LogAssumption
  <2>2. /\ \A c \in dirty : cache[c] # NotCached
        /\ \A p \in Procs : held[p] # NoBlock => cache[held[p]] # NotCached
    BY DEF IInv, Copies
  <2> QED
    BY <1>1, <2>1, <2>2
<1>4. \A i \in 1 .. Len(dhead) : dhead[i] = b => home[b] = dlog[i]
  BY <1>1, HomeCurrent
<1> QED
  BY <1>1, <1>2, <1>3, <1>4, CacheStep

LEMMA RecycleInv ==
  ASSUME IInv, NEW b \in Blocks, Recycle(b)
  PROVE  IInv'
<1>1. /\ b \notin dirty /\ (\A p \in Procs : held[p] # b)
      /\ cache' = [cache EXCEPT ![b] = NotCached]
      /\ UNCHANGED <<home, dlog, dhead, dirty, lh, outstanding, committing, op, held, written,
                     phase, tail, up>>
  BY DEF Recycle, disk
<1>2. /\ cache' \in [Blocks -> Values \cup {NotCached}]
      /\ \A c \in Blocks : c # b => cache'[c] = cache[c]
      /\ cache'[b] = NotCached
  BY <1>1 DEF IInv, Types
<1> QED
  BY <1>1, <1>2, CacheStep

LEMMA CrashInv ==
  ASSUME IInv, Crash
  PROVE  IInv' /\ Active' = {}
<1> USE DEF Crash, disk
<1>1. Types'
  BY ListedEmpty DEF IInv, Types, Labels, Phases
<1>2. Active' = {} /\ Cardinality(Active') = 0
  BY NoneCounted DEF Active, InOp
<1>3. Operations'
  BY <1>2, LogAssumption DEF Operations
<1>4. Unused' = {} /\ Cardinality(Unused') = 0
  BY <1>2, NoneCounted DEF Unused
<1>5. Fits'
  BY <1>4, ListedEmpty, RoomBound, LogAssumption DEF Fits, IInv
<1>6. Modes'
  BY <1>2 DEF Modes, Recovering
<1>7. Copies'
  <2>1. Recovering' /\ Distinct(lh)' /\ Distinct(dhead)'
    BY ListedEmpty DEF Recovering, Distinct, IInv, Copies
  <2>2. \A i \in 1 .. Len(dhead) : dhead[i] \in Blocks
    BY DEF IInv, Types
  <2> QED
    BY <2>1, <2>2 DEF Copies
<1>8. Progress' /\ NoMissedWakeup'
  BY DEF Progress, NoMissedWakeup
<1> QED
  BY <1>1, <1>2, <1>3, <1>5, <1>6, <1>7, <1>8 DEF IInv

\* What the refinement mapping amounts to.
Mapping ==
  /\ Stable \in [Blocks -> Values] /\ Volatile \in [Blocks -> Values]
  /\ \A b \in Blocks : b \notin Listed(dhead) => Stable[b] = home[b]
  /\ \A i \in 1 .. Len(dhead) : dhead[i] \in Blocks /\ Stable[dhead[i]] = dlog[i]
  /\ \A b \in Blocks : Volatile[b] = IF cache[b] = NotCached THEN Stable[b] ELSE cache[b]

LEMMA Mapped == IInv => Mapping
<1> SUFFICES ASSUME IInv PROVE Mapping
  OBVIOUS
<1>1. /\ dhead \in Seq(Blocks) /\ Len(dhead) \in Nat /\ Len(dhead) <= LOGSIZE
      /\ \A i \in 1 .. Len(dhead) : dhead[i] \in Blocks /\ i \in 1 .. LOGSIZE
  BY RoomBound, LogAssumption DEF IInv, Types, Fits
<1>2. \A b \in Blocks : b \notin Listed(dhead) => Stable[b] = home[b]
  BY DEF Stable
<1>3. \A i \in 1 .. Len(dhead) : Stable[dhead[i]] = dlog[i]
  <2> TAKE i \in 1 .. Len(dhead)
  <2>1. \A j \in 1 .. Len(dhead) : dhead[j] = dhead[i] <=> j = i
    BY DEF IInv, Copies, Distinct
  <2>2. (CHOOSE j \in 1 .. Len(dhead) : dhead[j] = dhead[i]) = i
    BY <2>1
  <2>3. dhead[i] \in Listed(dhead) /\ dhead[i] \in Blocks
    BY <1>1 DEF Listed
  <2> QED
    BY <2>2, <2>3 DEF Stable
<1>4. \A b \in Blocks : Stable[b] \in Values
  <2> TAKE b \in Blocks
  <2>1. CASE b \in Listed(dhead)
    <3>1. PICK i \in 1 .. Len(dhead) : dhead[i] = b
      BY <2>1 DEF Listed
    <3> QED
      BY <1>1, <1>3, <3>1 DEF IInv, Types
  <2>2. CASE b \notin Listed(dhead)
    BY <1>2, <2>2 DEF IInv, Types
  <2> QED
    BY <2>1, <2>2
<1>5. Stable \in [Blocks -> Values]
  <2>1. Stable = [b \in Blocks |-> Stable[b]]
    BY DEF Stable
  <2> QED
    BY <1>4, <2>1
<1>6. \A b \in Blocks : Volatile[b] = IF cache[b] = NotCached THEN Stable[b] ELSE cache[b]
  BY DEF Volatile
<1>7. Volatile \in [Blocks -> Values]
  <2>1. \A b \in Blocks : Volatile[b] \in Values
    BY <1>4, <1>6 DEF IInv, Types
  <2>2. Volatile = [b \in Blocks |-> Volatile[b]]
    BY DEF Volatile
  <2> QED
    BY <2>1, <2>2
<1> QED
  BY <1>1, <1>2, <1>3, <1>5, <1>6, <1>7 DEF Mapping

LEMMA MappedNext == IInv' => Mapping'
  BY Mapped, PTL

LEMMA SameContents ==
  ASSUME Mapping, Mapping'
  PROVE  /\ (\A b \in Blocks : Stable'[b] = Stable[b]) => Stable' = Stable
         /\ (\A b \in Blocks : Volatile'[b] = Volatile[b]) => Volatile' = Volatile
         /\ (\A b \in Blocks : Volatile[b] = Stable[b]) => Volatile = Stable
         /\ (\A b \in Blocks : Volatile'[b] = Stable[b]) => Volatile' = Stable
         /\ (\A b \in Blocks : Stable'[b] = Volatile[b]) => Stable' = Volatile
<1>1. \A f, g \in [Blocks -> Values] : (\A b \in Blocks : f[b] = g[b]) => f = g
  OBVIOUS
<1>2. /\ Stable \in [Blocks -> Values] /\ Stable' \in [Blocks -> Values]
      /\ Volatile \in [Blocks -> Values] /\ Volatile' \in [Blocks -> Values]
  BY DEF Mapping
<1> QED
  BY <1>1, <1>2

LEMMA Untouched ==
  /\ UNCHANGED <<home, dlog, dhead>> => Stable' = Stable
  /\ UNCHANGED <<home, dlog, dhead, cache>> => Volatile' = Volatile
<1>1. ASSUME UNCHANGED <<home, dlog, dhead>> PROVE Stable' = Stable
  <2>1. home' = home /\ dlog' = dlog /\ dhead' = dhead /\ Listed(dhead)' = Listed(dhead)
    BY <1>1 DEF Listed
  <2> QED
    BY <2>1 DEF Stable
<1>2. ASSUME UNCHANGED <<home, dlog, dhead, cache>> PROVE Volatile' = Volatile
  <2>1. Stable' = Stable /\ cache' = cache
    BY <1>1, <1>2
  <2> QED
    BY <2>1 DEF Volatile
<1> QED
  BY <1>1, <1>2

\* A step that changes no contents and nobody's operation is a stutter.
LEMMA Stutters ==
  ASSUME Mapping, Mapping', Active' = Active,
         \A b \in Blocks : Stable'[b] = Stable[b] /\ Volatile'[b] = Volatile[b]
  PROVE  UNCHANGED Atomic!vars
  BY SameContents DEF Atomic!vars

LEMMA ProcSimulates ==
  ASSUME IInv, IInv', NEW p \in Procs, ProcStep(p)
  PROVE  [Atomic!Next]_(Atomic!vars)
<1>1. Mapping
  BY Mapped
<1>2. CASE BeginOp(p)
  <2>1. p \notin Active /\ Active' = Active \cup {p}
    BY <1>2 DEF BeginOp, Active, InOp, IInv, Types
  <2>2. Stable' = Stable /\ Volatile' = Volatile
    BY <1>2, Untouched DEF BeginOp, disk
  <2>3. ASSUME Active = {} PROVE Stable = Volatile
    <3>1. up /\ ~committing /\ lh = <<>>
      BY <1>2, <2>3 DEF BeginOp, MayBegin, IInv, Modes
    <3>2. ~Recovering
      BY <3>1 DEF IInv, Modes, Recovering
    <3>3. dhead = <<>> /\ \A q \in Procs : held[q] = NoBlock
      BY <2>3, <3>2 DEF IInv, Modes, Operations, Active, InOp
    <3>4. \A b \in Blocks : cache[b] = NotCached \/ cache[b] = home[b]
      BY <3>1, <3>2, <3>3, ListedEmpty, LogAssumption DEF IInv, Copies
    <3>5. \A b \in Blocks : Stable[b] = home[b]
      BY <1>1, <3>3, ListedEmpty DEF Mapping
    <3>6. \A b \in Blocks : Volatile[b] = Stable[b]
      BY <1>1, <3>4, <3>5 DEF Mapping
    <3> QED
      BY <1>1, <3>6 DEF Mapping
  <2>4. Atomic!Begin(p)
    BY <2>1, <2>2, <2>3 DEF Atomic!Begin
  <2> QED
    BY <2>4 DEF Atomic!Next
<1>3. ASSUME BeginSleep(p) \/ LogCheck(p) \/ LogWrite(p) \/ EndCommit(p)
      PROVE  UNCHANGED Atomic!vars
  <2>1. Active' = Active
    <3>1. CASE BeginSleep(p) \/ EndCommit(p)
      BY <3>1, BeginSleepInv, EndCommitInv
    <3>2. CASE LogCheck(p)
      <4>1. /\ op[p] = "modified" /\ op'[p] \in Labels
            /\ \A q \in Procs : q # p => op'[q] = op[q]
        BY <3>2 DEF LogCheck, IInv, Types
      <4>2. op'[p] = "checked"
        BY <3>2, <4>1 DEF LogCheck, Labels, InOp, IInv, Types
      <4> QED
        BY <4>1, <4>2 DEF Active, InOp
    <3>3. CASE LogWrite(p)
      BY <3>3 DEF LogWrite, Active, InOp, IInv, Types
    <3> QED
      BY <1>3, <3>1, <3>2, <3>3
  <2>2. UNCHANGED <<home, dlog, dhead, cache>>
    BY <1>3 DEF BeginSleep, LogCheck, LogWrite, EndCommit, disk
  <2> QED
    BY <2>1, <2>2, Untouched DEF Atomic!vars
<1>4. ASSUME NEW b \in Blocks, NEW v \in Values, Modify(p, b, v)
      PROVE  Atomic!Write(p, b, v)
  <2>1. Active' = Active /\ p \in Active
    BY <1>4 DEF Modify, Active, InOp, IInv, Types
  <2>2. Mapping'
    BY MappedNext
  <2>3. Stable' = Stable
    BY <1>4, Untouched DEF Modify, disk
  <2>4. \A c \in Blocks : cache'[c] = IF c = b THEN v ELSE cache[c]
    BY <1>4 DEF Modify, IInv, Types
  <2>5. \A c \in Blocks : Volatile'[c] = IF c = b THEN v ELSE Volatile[c]
    BY <1>1, <2>2, <2>3, <2>4, LogAssumption DEF Mapping
  <2>6. Volatile' = [Volatile EXCEPT ![b] = v]
    BY <1>1, <2>2, <2>5 DEF Mapping
  <2> QED
    BY <2>1, <2>3, <2>6 DEF Atomic!Write
<1>5. CASE EndOp(p)
  <2>1. p \in Active /\ Active' = Active \ {p}
    BY <1>5, EndOpActive
  <2>2. Stable' = Stable /\ Volatile' = Volatile
    BY <1>5, Untouched DEF EndOp, disk
  <2> QED
    BY <2>1, <2>2 DEF Atomic!End, Atomic!Next
<1> QED
  BY <1>2, <1>3, <1>4, <1>5 DEF ProcStep, Atomic!Next

LEMMA CommitSimulates ==
  ASSUME IInv, IInv', Commit
  PROVE  [Atomic!Next]_(Atomic!vars)
<1>1. Mapping /\ Mapping'
  BY Mapped, MappedNext
<1>2. \A b \in Blocks : /\ Volatile[b] = IF cache[b] = NotCached THEN Stable[b] ELSE cache[b]
                        /\ Volatile'[b] = IF cache'[b] = NotCached THEN Stable'[b] ELSE cache'[b]
  BY <1>1 DEF Mapping
<1>3. CASE WriteLog
  <2>1. ~Recovering /\ dhead = <<>> /\ UNCHANGED <<home, dhead, op>> /\ cache' = cache
    BY <1>3, WriteLogInv DEF WriteLog, IInv, Modes, Recovering
  <2>2. \A b \in Blocks : Stable[b] = home[b] /\ Stable'[b] = home[b]
    BY <1>1, <2>1, ListedEmpty DEF Mapping
  <2>3. \A b \in Blocks : Volatile'[b] = Volatile[b]
    BY <1>2, <2>1, <2>2
  <2> QED
    BY <1>1, <2>1, <2>2, <2>3, Stutters DEF Active
<1>4. CASE WriteHead
  <2>1. /\ phase = "write_head" /\ dhead' = lh /\ ~Recovering /\ dhead = <<>>
        /\ UNCHANGED <<home, dlog, cache, op, lh>>
    BY <1>4 DEF WriteHead, IInv, Modes, Recovering
  <2>2. /\ Active = {} /\ Active' = {} /\ \A p \in Procs : held[p] = NoBlock
    BY <2>1, CommitAlone DEF Active
  <2>3. \A b \in Blocks : Stable[b] = home[b]
    BY <1>1, <2>1, ListedEmpty DEF Mapping
  <2>4. \A b \in Blocks : Stable'[b] = Volatile[b] /\ Volatile'[b] = Volatile[b]
    <3> TAKE b \in Blocks
    <3>1. CASE b \in Listed(lh)
      <4>1. PICK i \in 1 .. Len(lh) : lh[i] = b
        BY <3>1 DEF Listed
      <4>2. cache[b] # NotCached /\ dlog[i] = cache[b]
        BY <2>1, <3>1, <4>1 DEF IInv, Copies, Progress
      <4>3. Stable'[b] = dlog[i]
        BY <1>1, <2>1, <4>1 DEF Mapping
      <4> QED
        BY <1>2, <2>1, <4>2, <4>3
    <3>2. CASE b \notin Listed(lh)
      <4>1. cache[b] = NotCached \/ cache[b] = home[b]
        BY <2>1, <2>2, <3>2, LogAssumption DEF IInv, Copies
      <4>2. Listed(dhead)' = Listed(lh)
        BY <2>1 DEF Listed
      <4>3. Stable'[b] = home[b]
        BY <1>1, <2>1, <3>2, <4>2 DEF Mapping
      <4> QED
        BY <1>2, <2>1, <2>3, <4>1, <4>3
    <3> QED
      BY <3>1, <3>2
  <2>5. Stable' = Volatile /\ Volatile' = Volatile
    BY <1>1, <2>4, SameContents
  <2> QED
    BY <2>2, <2>5 DEF Atomic!Commit, Atomic!Next
<1>5. CASE InstallTrans
  <2> DEFINE c == lh[tail + 1]
  <2>1. /\ phase = "install" /\ tail < Len(lh) /\ lh = dhead /\ Recovering
        /\ UNCHANGED <<dlog, dhead, op, lh>>
    BY <1>5 DEF InstallTrans, IInv, Modes, Recovering
  <2>2. tail + 1 \in 1 .. Len(dhead) /\ c \in Blocks /\ c \in Listed(dhead) /\ c = dhead[tail + 1]
    BY <2>1, Entry
  <2>3. \A b \in Blocks : /\ home'[b] = IF b = c THEN dlog[tail + 1] ELSE home[b]
                          /\ cache'[b] = IF b = c THEN dlog[tail + 1] ELSE cache[b]
    BY <1>5, <2>2 DEF InstallTrans, IInv, Types
  <2>4. \A b \in Blocks : Stable'[b] = Stable[b]
    <3> TAKE b \in Blocks
    <3>1. CASE b \in Listed(dhead)
      <4>1. PICK i \in 1 .. Len(dhead) : dhead[i] = b
        BY <3>1 DEF Listed
      <4> QED
        BY <1>1, <2>1, <4>1 DEF Mapping
    <3>2. CASE b \notin Listed(dhead)
      <4>1. Listed(dhead)' = Listed(dhead) /\ b # c
        BY <2>1, <2>2, <3>2 DEF Listed
      <4> QED
        BY <1>1, <2>3, <3>2, <4>1 DEF Mapping
    <3> QED
      BY <3>1, <3>2
  <2>5. Stable[c] = dlog[tail + 1] /\ (cache[c] = NotCached \/ cache[c] = dlog[tail + 1])
    BY <1>1, <2>1, <2>2 DEF Mapping, IInv, Copies
  <2>6. \A b \in Blocks : Volatile'[b] = Volatile[b]
    <3> HIDE DEF c
    <3> QED
      BY <1>2, <2>2, <2>3, <2>4, <2>5
  <2> QED
    BY <1>1, <2>1, <2>4, <2>6, Stutters DEF Active
<1>6. CASE ClearHead
  <2>1. /\ phase = "clear" /\ lh = dhead /\ dhead' = <<>> /\ UNCHANGED <<home, dlog, cache>>
        /\ Active' = Active
    BY <1>6, ClearHeadInv DEF ClearHead, IInv, Modes
  <2>2. \A b \in Blocks : Stable'[b] = home[b]
    <3>1. Listed(dhead)' = {}
      BY <2>1, ListedEmpty DEF Listed
    <3> QED
      BY <1>1, <2>1, <3>1 DEF Mapping
  <2>3. \A b \in Blocks : Stable[b] = home[b]
    <3> TAKE b \in Blocks
    <3>1. CASE b \in Listed(dhead)
      <4>1. PICK i \in 1 .. Len(dhead) : dhead[i] = b
        BY <3>1 DEF Listed
      <4>2. home[b] = dlog[i]
        BY <2>1, <4>1 DEF IInv, Progress
      <4> QED
        BY <1>1, <4>1, <4>2 DEF Mapping
    <3>2. CASE b \notin Listed(dhead)
      BY <1>1, <3>2 DEF Mapping
    <3> QED
      BY <3>1, <3>2
  <2>4. \A b \in Blocks : Volatile'[b] = Volatile[b]
    BY <1>2, <2>1, <2>2, <2>3
  <2> QED
    BY <1>1, <2>1, <2>2, <2>3, <2>4, Stutters
<1>7. CASE ReadHead
  BY <1>7, ReadHeadInv, Untouched DEF ReadHead, disk, Atomic!vars
<1> QED
  BY <1>3, <1>4, <1>5, <1>6, <1>7 DEF Commit

LEMMA CacheSimulates ==
  ASSUME IInv, NEW b \in Blocks, Fetch(b) \/ Recycle(b)
  PROVE  UNCHANGED Atomic!vars
<1>1. Mapping /\ IInv' /\ Mapping'
  BY FetchInv, RecycleInv, Mapped, MappedNext
<1>2. UNCHANGED <<home, dlog, dhead, op>>
  BY DEF Fetch, Recycle, disk
<1>3. Stable' = Stable
  BY <1>2, Untouched
<1>4. \A c \in Blocks : c # b => cache'[c] = cache[c]
  BY DEF Fetch, Recycle, IInv, Types
<1>5. Volatile'[b] = Volatile[b]
  <2>1. CASE Fetch(b)
    <3>1. up /\ cache[b] = NotCached /\ cache'[b] = home[b]
      BY <2>1 DEF Fetch, IInv, Types
    <3>2. Stable[b] = home[b]
      <4>1. CASE b \in Listed(dhead)
        <5>1. PICK i \in 1 .. Len(dhead) : dhead[i] = b
          BY <4>1 DEF Listed
        <5> QED
          BY <1>1, <3>1, <5>1, HomeCurrent DEF Mapping
      <4>2. CASE b \notin Listed(dhead)
        BY <1>1, <4>2 DEF Mapping
      <4> QED
        BY <4>1, <4>2
    <3> QED
      BY <1>1, <1>3, <3>1, <3>2 DEF Mapping
  <2>2. CASE Recycle(b)
    <3>1. /\ cache[b] # NotCached /\ b \notin dirty /\ (\A p \in Procs : held[p] # b)
          /\ cache'[b] = NotCached
      BY <2>2 DEF Recycle, IInv, Types
    <3>2. cache[b] = Stable[b]
      <4>1. CASE Recovering
        <5>1. CASE b \in Listed(dhead)
          <6>1. PICK i \in 1 .. Len(dhead) : dhead[i] = b
            BY <5>1 DEF Listed
          <6> QED
            BY <1>1, <3>1, <4>1, <6>1 DEF Mapping, IInv, Copies
        <5>2. CASE b \notin Listed(dhead)
          BY <1>1, <3>1, <4>1, <5>2 DEF Mapping, IInv, Copies
        <5> QED
          BY <5>1, <5>2
      <4>2. CASE ~Recovering
        <5>1. dhead = <<>> /\ Listed(dhead) = {}
          BY <4>2, ListedEmpty DEF IInv, Modes
        <5>2. cache[b] = home[b]
          BY <3>1, <4>2 DEF IInv, Copies
        <5> QED
          BY <1>1, <5>1, <5>2 DEF Mapping
      <4> QED
        BY <4>1, <4>2
    <3> QED
      BY <1>1, <1>3, <3>1, <3>2 DEF Mapping
  <2> QED
    BY <2>1, <2>2
<1>6. \A c \in Blocks : Volatile'[c] = Volatile[c]
  BY <1>1, <1>3, <1>4, <1>5 DEF Mapping
<1> QED
  BY <1>1, <1>2, <1>3, <1>6, Stutters DEF Active

LEMMA CrashSimulates ==
  ASSUME IInv, Crash
  PROVE  Atomic!Crash
<1>1. Mapping /\ IInv' /\ Mapping' /\ Active' = {}
  BY CrashInv, Mapped, MappedNext
<1>2. Stable' = Stable
  BY Untouched DEF Crash, disk
<1>3. \A b \in Blocks : Volatile'[b] = Stable[b]
  BY <1>1, <1>2 DEF Mapping, Crash
<1>4. Volatile' = Stable
  BY <1>1, <1>3, SameContents
<1> QED
  BY <1>1, <1>2, <1>4 DEF Atomic!Crash

LEMMA StepSimulates == IInv /\ IInv' /\ [Next]_vars => [Atomic!Next]_(Atomic!vars)
<1> SUFFICES ASSUME IInv, IInv', [Next]_vars PROVE [Atomic!Next]_(Atomic!vars)
  OBVIOUS
<1>1. CASE UNCHANGED vars
  BY <1>1, Untouched DEF vars, Active, Atomic!vars
<1>2. CASE Crash
  BY <1>2, CrashSimulates DEF Atomic!Next
<1> QED
  BY <1>1, <1>2, ProcSimulates, CommitSimulates, CacheSimulates DEF Next
=============================================================================
