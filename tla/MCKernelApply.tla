---------------------------- MODULE MCKernelApply ----------------------------
(* Small instances of KernelApply for TLC. *)
EXTENDS KernelApply, TLC

CONSTANTS p1, p2, r1, r2, h1, x, y

\* Processes and byte strings are interchangeable.
Symmetry == Permutations({p1, p2}) \cup Permutations({x, y})
=============================================================================
