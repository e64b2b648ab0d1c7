--------------------------- MODULE FlightRecorder ---------------------------
(***************************************************************************)
(* What the kernel flight recorder (klog.c) promises: a window onto the    *)
(* most recent events.  Recording an event stamps it with the next stamp   *)
(* and drops the oldest event once the window is full; a reader receives   *)
(* the newest events of one single moment, oldest first.                   *)
(***************************************************************************)
EXTENDS Integers, Sequences

CONSTANTS
  Threads,    \* the kernel threads that record and read
  Events,     \* what is recorded: a (type, pid, extra) triple
  KLOG_SIZE,  \* capacity of the window
  UintMod,    \* stamps are unsigned ints: they wrap at UintMod
  MaxArgs     \* the "max" a reader may ask for

VARIABLES
  window,     \* the retained entries, oldest first
  next,       \* the stamp of the next entry
  seen        \* the entries each reader holds

vars == <<window, next, seen>>

\* The k newest elements of s, oldest first.
Newest(s, k) == [i \in 1..k |-> s[Len(s) - k + i]]

Least(a, b) == IF a < b THEN a ELSE b

Init ==
  /\ window = <<>>
  /\ next = 0
  /\ seen = [t \in Threads |-> <<>>]

Record(e) ==
  LET all == Append(window, [timestamp |-> next, event |-> e]) IN
  /\ window' = Newest(all, Least(Len(all), KLOG_SIZE))
  /\ next' = (next + 1) % UintMod
  /\ UNCHANGED seen

Read(t, max) ==
  /\ seen' = [seen EXCEPT ![t] = Newest(window, Least(Len(window), max))]
  /\ UNCHANGED <<window, next>>

Return(t) ==
  /\ seen' = [seen EXCEPT ![t] = <<>>]
  /\ UNCHANGED <<window, next>>

Next ==
  \/ \E e \in Events : Record(e)
  \/ \E t \in Threads, max \in MaxArgs : Read(t, max)
  \/ \E t \in Threads : Return(t)

Spec == Init /\ [][Next]_vars
=============================================================================
