--------------------------- MODULE MCProductStores ---------------------------
(* The product's command front and the stores behind it, one at a time:    *)
(* `focus' names the component that moves, the others stay at their first  *)
(* state.                                                                  *)
EXTENDS Sessions, ToolWork, PaperTrail, ProblemPool, DomainCommands, Executors

CONSTANTS i1, i2, j1, j2, j3, t1, t2, r1, r2, a1, n1, n2, n3, p1, p2, q1, q2,
          c1, c2, x1, x2, g1, g2

\* A main worker and a worker; the second job is never given a lease.
Roles == i1 :> "MAIN" @@ i2 :> "WORKER"
Leases == j1 :> 2 @@ j2 :> 0

\* Reviews of one candidate by both reviewers and of the other by one.
Signed == {[text |-> t1, signer |-> r1, verdict |-> "ACCEPT"],
           [text |-> t2, signer |-> r1, verdict |-> "ACCEPT"],
           [text |-> t1, signer |-> r2, verdict |-> "NEEDS_REVISION"]}

\* A root closed by a machine proof, and an open one.
Roots == {[closed |-> c, refuted |-> FALSE, machine |-> TRUE, peer |-> FALSE,
           open |-> ~c, witnesses |-> IF c THEN 1 ELSE 0] : c \in BOOLEAN}

\* A paper in two versions that state the same problem; a snapshot that failed.
Entry(p, v, s) == [paper |-> p, version |-> v, statement |-> s]
Entries == n1 :> <<Entry(p1, 1, q1)>> @@ n2 :> <<Entry(p1, 2, q1), Entry(p2, 1, q2)>> @@ n3 :> NoPool
Lists == {<<n1>>, <<n1, n2>>, <<n2, n1, n3>>}

\* Pairs of commands that meet in a research, in the catalogue or in a store.
Loads == {c1 :> x @@ c2 :> y : <<x, y>> \in
            {<<"CREATE_RESEARCH", "CONFIRM_CONTRACT">>, <<"CONFIRM_CONTRACT", "PAUSE_RESEARCH">>,
             <<"CREATE_RESEARCH", "CREATE_RESEARCH">>, <<"SUBMIT_GUIDANCE", "FREEZE_PROBLEM_POOL">>,
             <<"REGISTER_BRIDGE_SPEC", "SUBMIT_GUIDANCE">>}}
NamedMaterials == c1 :> <<x1>> @@ c2 :> <<x1, x2>>
NamedRoutes == c1 :> <<g1, g2>> @@ c2 :> <<>>

\* Three jobs each, among them retries of a job whose outcome is unknown.
Order(x, y, z) == j1 :> x @@ j2 :> y @@ j3 :> z
Plain(type) == [type |-> type]
Deploy(action) == [type |-> "DEPLOYMENT_OPERATION", action |-> action]
Literature(profiles) == [type |-> "RUN_LITERATURE_QUERY", profiles |-> profiles]
RetryOf(j, strategy) == [type |-> "RETRY_UNKNOWN_OUTCOME", about |-> j, strategy |-> strategy]
MCOrders ==
    {Order(Plain("START_RESEARCH"), Literature(<<"a", "b">>), RetryOf(j1, "MARK_ABANDONED")),
     Order(Deploy("RESTORE"), RetryOf(j1, "QUERY_REMOTE"), RetryOf(j2, "MARK_ABANDONED")),
     Order(Plain("RUN_TOOL"), Literature(<<"a", "z">>), RetryOf(j2, "ACCEPT_RECEIPT")),
     Order(Plain("REPLAY_SOURCE_SNAPSHOT"), Plain("COMPILE_FINAL_PDF"), Plain("RESUME_RESEARCH")),
     Order(Plain("ASSIGN_ABLATION"), Deploy("UPGRADE_PREFLIGHT"), Deploy("RESTART"))}
MCPortSets == {DurableCommandTypes, DurableCommandTypes \ {"RUN_LITERATURE_QUERY", "COMPILE_FINAL_PDF"}}

VARIABLE focus
vars == <<sessionVars, toolVars, paperVars, poolVars, commandVars, executorVars, focus>>

Init ==
    /\ focus \in {"sessions", "tools", "papers", "pool", "commands", "executors"}
    /\ SessionInit /\ ToolInit /\ PaperInit /\ PoolInit
    /\ CommandInit /\ (focus = "commands" \/ kindOf = CHOOSE l \in CommandLoads : TRUE)
    /\ ExecutorInit /\ (focus = "executors" \/ /\ order = CHOOSE o \in Orders : TRUE
                                               /\ deployed = DurableCommandTypes)

MoveSessions == focus = "sessions" /\ SessionNext
    /\ UNCHANGED <<toolVars, paperVars, poolVars, commandVars, executorVars, focus>>
MoveTools == focus = "tools" /\ ToolNext
    /\ UNCHANGED <<sessionVars, paperVars, poolVars, commandVars, executorVars, focus>>
MovePapers == focus = "papers" /\ PaperNext
    /\ UNCHANGED <<sessionVars, toolVars, poolVars, commandVars, executorVars, focus>>
MovePool == focus = "pool" /\ PoolNext
    /\ UNCHANGED <<sessionVars, toolVars, paperVars, commandVars, executorVars, focus>>
MoveCommands == focus = "commands" /\ CommandNext
    /\ UNCHANGED <<sessionVars, toolVars, paperVars, poolVars, executorVars, focus>>
MoveExecutors == focus = "executors" /\ ExecutorNext
    /\ UNCHANGED <<sessionVars, toolVars, paperVars, poolVars, commandVars, focus>>

Next == \/ MoveSessions \/ MoveTools \/ MovePapers
        \/ MovePool \/ MoveCommands \/ MoveExecutors

Spec == Init /\ [][Next]_vars

\* The command front alone.
CommandSpec == Init /\ focus = "commands" /\ [][Next]_vars
=============================================================================
