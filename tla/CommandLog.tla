----------------------------- MODULE CommandLog -----------------------------
(***************************************************************************)
(* What the command log of a run promises its clients (docs/spec/api.md,   *)
(* section 4): a request id gets one decision, which is never changed;     *)
(* accepting a command makes exactly one new revision, rejecting one       *)
(* leaves the revision alone.                                              *)
(***************************************************************************)
EXTENDS Integers

CONSTANTS Requests, Contents, Undecided

VARIABLES entries,   \* request -> [digest, accepted, before, after] or Undecided
          counter    \* the run's revision

logVars == <<entries, counter>>

Init == entries = [r \in Requests |-> Undecided] /\ counter = 0

Accept(r, d) ==
    /\ entries[r] = Undecided
    /\ entries' = [entries EXCEPT ![r] = [digest |-> d, accepted |-> TRUE,
                                          before |-> counter, after |-> counter + 1]]
    /\ counter' = counter + 1

Reject(r, d) ==
    /\ entries[r] = Undecided
    /\ entries' = [entries EXCEPT ![r] = [digest |-> d, accepted |-> FALSE,
                                          before |-> counter, after |-> counter]]
    /\ counter' = counter

Next == \E r \in Requests, d \in Contents : Accept(r, d) \/ Reject(r, d)

Spec == Init /\ [][Next]_logVars
=============================================================================
