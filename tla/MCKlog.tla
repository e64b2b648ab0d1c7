------------------------------- MODULE MCKlog -------------------------------
(* Klog for TLC, with the mutants of its definitions.                      *)
EXTENDS Klog, TLC

\* Negative, none, fewer and more than the ring holds.
MaxValues == {-1, 0, 2, 5}

Symmetry == Permutations(Threads) \cup Permutations(Events)
=============================================================================
