-------------------------- MODULE ReceiptLifecycle --------------------------
(***************************************************************************)
(* What a ProductReceipt promises its client, whatever happens to jobs,    *)
(* leases and daemons behind it: a request id is reserved once, for one    *)
(* content; from PENDING it moves at most once, to DECIDED or to           *)
(* OUTCOME_UNKNOWN; and every change of state is a new receipt version.    *)
(***************************************************************************)
EXTENDS Integers

CONSTANTS Requests, Contents, Absent

VARIABLES receipts     \* request -> [state, digest, version]

Init == receipts = [r \in Requests |-> Absent]

Reserve(r, c) ==
    /\ receipts[r] = Absent
    /\ receipts' = [receipts EXCEPT ![r] = [state |-> "PENDING", digest |-> c, version |-> 1]]

Settle(r, final) ==
    /\ receipts[r].state = "PENDING"
    /\ receipts' = [receipts EXCEPT ![r] =
                       [state |-> final, digest |-> receipts[r].digest, version |-> 2]]

Next ==
    \E r \in Requests :
        \/ \E c \in Contents : Reserve(r, c)
        \/ \E final \in {"DECIDED", "OUTCOME_UNKNOWN"} : Settle(r, final)

Spec == Init /\ [][Next]_receipts
=============================================================================
