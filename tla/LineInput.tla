----------------------------- MODULE LineInput ------------------------------
(***************************************************************************)
(* What console input promises: characters typed form a line that can be   *)
(* edited until it is complete; committed characters are read in the       *)
(* order they were typed and are out of the editor's reach.                *)
(***************************************************************************)
EXTENDS Naturals, Sequences

CONSTANTS
  Chars,      \* characters that can be stored
  Ends,       \* the characters that commit a line: newline and ^D
  Capacity    \* INPUT_BUF

VARIABLES
  line,       \* typed, not committed
  queue       \* committed, not read

Init == line = <<>> /\ queue = <<>>

\* A line is complete with its end, or because nothing more fits.
Complete ==
  /\ line # <<>>
  /\ line[Len(line)] \in Ends \/ Len(queue) + Len(line) = Capacity

Keep(c) ==
  /\ ~Complete
  /\ Len(queue) + Len(line) < Capacity
  /\ line' = Append(line, c)
  /\ UNCHANGED queue

Commit ==
  /\ Complete
  /\ queue' = queue \o line
  /\ line' = <<>>

Erase ==
  /\ ~Complete
  /\ line # <<>>
  /\ line' = SubSeq(line, 1, Len(line) - 1)
  /\ UNCHANGED queue

Take ==
  /\ queue # <<>>
  /\ queue' = Tail(queue)
  /\ UNCHANGED line

Next == (\E c \in Chars : Keep(c)) \/ Commit \/ Erase \/ Take

Spec == Init /\ [][Next]_<<line, queue>>
=============================================================================
