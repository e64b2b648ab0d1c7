------------------------------ MODULE MCFiles -------------------------------
(***************************************************************************)
(* Files with a directory (or a device) a, and files b in the root or in a.*)
(***************************************************************************)
EXTENDS Files, TLC

CONSTANTS a, b

Absolute(op, pa, to) == [op |-> op, path |-> pa, new |-> to, abs |-> TRUE]
Relative(op, pa) == [op |-> op, path |-> pa, new |-> pa, abs |-> FALSE]

TreeCalls ==
  {Absolute(op, <<a>>, <<a>>) : op \in {"mkdir", "mknod", "unlink", "chdir"}}
  \union {Absolute(op, <<>>, <<>>) : op \in {"chdir", "openw"}}
  \union {Relative(op, <<b>>) : op \in {"create", "open", "unlink"}}
  \union {Absolute("link", <<b>>, <<a, b>>), Absolute("link", <<>>, <<b>>)}

OneBlock == {1}
Symmetry == Permutations(Procs)
=============================================================================
