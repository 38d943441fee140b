--------------------------- MODULE MCDurableJobs ---------------------------
(* Small instances of DurableJobs for TLC. *)
EXTENDS DurableJobs, TLC

CONSTANTS d1, d2, d3, a, b, p, q, s

\* One command of each kind: automatic retry, manual retry, synchronous.
MixedPlan == (p :> "IDEMPOTENT") @@ (q :> "MANUAL_ONLY") @@ (s :> "SYNC")
\* What production_runtime configures: every durable command is MANUAL_ONLY.
ProductionPlan == (q :> "MANUAL_ONLY") @@ (s :> "SYNC")
ManualPlan == q :> "MANUAL_ONLY"
AnyRetry == {"IDEMPOTENT", "MANUAL_ONLY"}
NoResolver == {}
Nobody == {}
\* The two pumps are interchangeable.
PumpSymmetry == Permutations({d1, d3})
=============================================================================
