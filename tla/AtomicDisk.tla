----------------------------- MODULE AtomicDisk -----------------------------
(***************************************************************************)
(* What the file system expects of log.c: a disk on which a group of       *)
(* overlapping operations becomes durable all at once.  "volatile" is what *)
(* running operations read and write, "stable" is what a reboot finds.     *)
(***************************************************************************)
EXTENDS FiniteSets

CONSTANTS Procs, Blocks, Values

VARIABLES stable, volatile, active

vars == <<stable, volatile, active>>

Init ==
  /\ stable \in [Blocks -> Values]
  /\ volatile = stable
  /\ active = {}

\* A group starts only when the previous one is durable.
Begin(p) ==
  /\ p \notin active
  /\ active = {} => stable = volatile
  /\ active' = active \cup {p}
  /\ UNCHANGED <<stable, volatile>>

Write(p, b, v) ==
  /\ p \in active
  /\ volatile' = [volatile EXCEPT ![b] = v]
  /\ UNCHANGED <<stable, active>>

End(p) ==
  /\ p \in active
  /\ active' = active \ {p}
  /\ UNCHANGED <<stable, volatile>>

\* The whole group at once, and only when no operation is half done.
Commit ==
  /\ active = {}
  /\ stable' = volatile
  /\ UNCHANGED <<volatile, active>>

Crash ==
  /\ volatile' = stable
  /\ active' = {}
  /\ UNCHANGED stable

Next ==
  \/ \E p \in Procs :
       \/ Begin(p)
       \/ \E b \in Blocks, v \in Values : Write(p, b, v)
       \/ End(p)
  \/ Commit
  \/ Crash

Spec == Init /\ [][Next]_vars
=============================================================================
