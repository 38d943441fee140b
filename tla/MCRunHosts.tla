----------------------------- MODULE MCRunHosts -----------------------------
(* Hosts and attempts of RunExecution, from a started run in two states:    *)
(* one attempt is over and two hosts that may crash race for the other; or  *)
(* one attempt is paused after its execution, the other, whose write set    *)
(* overlaps, is still to come, and the hosts crash no more.                 *)
EXTENDS RunExecution, TLC

CONSTANTS c1, r1, a1, a2, h1, h2

\* The second attempt may write what the first may write, and more.
SharedWrites == (a1 :> {1}) @@ (a2 :> {1, 2})

\* FreezeContract, RegisterClaim, StartRun and RegisterRoute have happened.
Started ==
    /\ run = "RUNNING"
    /\ contract = [version |-> 1, status |-> "FROZEN", defect |-> {}]
    /\ root = c1
    /\ interrupted = FALSE
    /\ fuse = FALSE
    /\ claim = [c \in Claims |->
                  [life |-> "ACTIVE", version |-> 1, text |-> 1, verified |-> FALSE]]
    /\ route = [r \in Routes |-> [status |-> "ACTIVE", version |-> 1, target |-> c1]]
    /\ host = [h \in Hosts |-> Down]

Absent == [status |-> "ABSENT", route |-> None, bound |-> FALSE]
NoLease == [status |-> "NONE", ttl |-> 0]
NoClaim == [state |-> "NONE", ttl |-> 0]

\* The second attempt was leased and released as ABORTED.
HostsRace ==
    /\ attempt = (a1 :> Absent) @@ (a2 :> [status |-> "ABORTED", route |-> r1, bound |-> TRUE])
    /\ lease = (a1 :> NoLease) @@ (a2 :> [status |-> "RELEASED", ttl |-> 1])
    /\ hostClaim = [a \in Attempts |-> NoClaim]
    /\ receipt = [a \in Attempts |-> NoReceipt]
    /\ calls = [a \in Attempts |-> 0]
    /\ crashes = 0

\* The first attempt was executed with a failed result and released as PAUSED; its
\* host crashed while it looked for more work.
AttemptsOverlap ==
    /\ attempt = (a1 :> [status |-> "PAUSED", route |-> r1, bound |-> TRUE]) @@ (a2 :> Absent)
    /\ lease = (a1 :> [status |-> "RELEASED", ttl |-> 1]) @@ (a2 :> NoLease)
    /\ hostClaim = (a1 :> [state |-> "COMPLETED", ttl |-> 1]) @@ (a2 :> NoClaim)
    /\ receipt = (a1 :> [NoReceipt EXCEPT !.count = 1, !.version = 1]) @@ (a2 :> NoReceipt)
    /\ calls = (a1 :> 1) @@ (a2 :> 0)
    /\ crashes = MaxCrashes

MCInit == Started /\ (HostsRace \/ AttemptsOverlap)
MCFairSpec == MCInit /\ [][Next]_vars /\ Fairness
=============================================================================
