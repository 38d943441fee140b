--------------------------- MODULE MCRunExecution ---------------------------
(* Small instances of RunExecution for TLC. *)
EXTENDS RunExecution, TLC

CONSTANTS c1, c2, c3, r1, r2, a1, a2, h1, h2

\* The second attempt may write what the first may write, and more.
SharedWrites == (a1 :> {1}) @@ (a2 :> {1, 2})
\* The two ROOT claims of run_contract are interchangeable.
RootSymmetry == Permutations({c1, c3})
=============================================================================
