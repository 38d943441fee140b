------------------------- MODULE MCProductOperations -------------------------
(* Running a deployment, one part at a time: `focus' names the part that    *)
(* moves, the others stay at their first state.  Two parts of one component *)
(* are worked on separately where they share no row.                        *)
EXTENDS Steering, ActivityTrail, Maintenance, Placement, CaseLineage, GraphIndex, TLC

CONSTANTS w1, w2, w3, t1, t2, p1, s1, s2, m1, m2, m3, h1, h2, r1, c1, c2, q1, q2, d1, d2

\* Three items that compete for two targets of one group; t1 is probed by a command.
ScheduledWork == p1 :> <<w1, w2, w3>>
Fitting == w1 :> <<t1>> @@ w2 :> <<t1, t2>> @@ w3 :> <<t2, t1>>
Needs == t1 :> "gpu" @@ t2 :> "tools"
Groups == t1 :> "g" @@ t2 :> "g"
Capacities == t1 :> 1 @@ t2 :> 2

\* One case of each mode; the first two belong to one run.
Manifest(mode, run, root, inputs, olds) ==
    [mode |-> mode, run |-> run, root |-> root, inputs |-> inputs, claims |-> olds]
CaseManifests ==
    m1 :> Manifest("CLEAN_ROOM_REDISCOVERY", 1, 1, {s1}, {})
    @@ m2 :> Manifest("IMPORTED_CERTIFICATE_VERIFICATION", 1, 2, {s1, s2}, {})
    @@ m3 :> Manifest("HISTORICAL_CANDIDATE_MIGRATION", 2, 3, {s2}, {h1, h2})

\* Deltas that build a graph, move and delete parts of it, and delete what a
\* node still stands on.
GNode(i, dependable, route) == [id |-> i, dependable |-> dependable, route |-> route]
GEdge(i, a, b, direction) == [id |-> i, from |-> a, to |-> b, direction |-> direction]
Delta(ns, es, dns, des) == [nodes |-> ns, edges |-> es, deleteNodes |-> dns, deleteEdges |-> des]
GraphDeltas ==
    {Delta({GNode(1, TRUE, "x"), GNode(2, TRUE, "x"), GNode(3, TRUE, "y")},
           {GEdge("a", 1, 2, "FORWARD"), GEdge("b", 3, 2, "REVERSE")}, {}, {}),
     Delta({GNode(2, TRUE, "y"), GNode(4, FALSE, "x")}, {GEdge("a", 1, 3, "BIDIRECTIONAL")}, {2}, {}),
     Delta({GNode(1, TRUE, "x"), GNode(2, FALSE, "x")}, {}, {3}, {"a"})}
Slice(seeds, direction, depth, routes, limit) ==
    [kind |-> "SLICE", mode |-> "VERIFIED", seeds |-> seeds, direction |-> direction,
     depth |-> depth, routes |-> routes, limit |-> limit]
GraphQueries ==
    {Slice({1}, "SUCCESSORS", 2, {}, 1), Slice({1, 3}, "BOTH", 1, {"x", "y"}, 2),
     Slice({1}, "BOTH", 2, {"x"}, 1),
     [kind |-> "SEARCH", mode |-> "VERIFIED", seeds |-> {}, direction |-> "BOTH",
      depth |-> 0, routes |-> {}, limit |-> 1]}

VARIABLE focus
vars == <<steeringVars, trailVars, maintenanceVars, placementVars, caseVars, graphVars, focus>>

Init ==
    /\ focus \in {"plans", "guidance", "derivers", "work", "streams", "logs", "backups",
                  "restores", "schema", "service", "placement", "cases", "graph"}
    /\ SteeringInit /\ TrailInit /\ PlacementInit /\ CaseInit /\ GraphInit
    /\ IF focus = "schema" THEN \E b \in BackupRequests : MaintenanceInit({b})
                           ELSE MaintenanceInit({})

\* Three plan commands beside one deriver, then two beside two derivers.
MoveSteering ==
    /\ \/ focus = "plans" /\ PlanNext
       \/ focus = "guidance" /\ GuidanceNext /\ derivers'[d2] = NoSteering
       \/ focus = "derivers" /\ GuidanceNext /\ Len(planLog') <= 2
    /\ UNCHANGED <<trailVars, maintenanceVars, placementVars, caseVars, graphVars, focus>>
MoveTrail ==
    /\ \/ focus = "work" /\ WorkNext
       \/ focus = "streams" /\ StreamNext
       \/ focus = "logs" /\ LogNext
    /\ UNCHANGED <<steeringVars, maintenanceVars, placementVars, caseVars, graphVars, focus>>
\* Two backups beside one restore, then one backup beside two restores.
MoveMaintenance ==
    /\ \/ focus = "backups" /\ BackupNext /\ restores'[q2] = "none"
          /\ UNCHANGED <<schemaVars, serviceVars>>
       \/ focus = "restores" /\ BackupNext /\ backupCalls'[c2] = NoDeployment
          /\ UNCHANGED <<schemaVars, serviceVars>>
       \/ focus = "schema" /\ SchemaNext /\ UNCHANGED <<backupVars, serviceVars>>
       \/ focus = "service" /\ ServiceNext /\ UNCHANGED <<backupVars, schemaVars>>
    /\ UNCHANGED <<steeringVars, trailVars, placementVars, caseVars, graphVars, focus>>
MovePlacement == focus = "placement" /\ PlacementNext
    /\ UNCHANGED <<steeringVars, trailVars, maintenanceVars, caseVars, graphVars, focus>>
MoveCases == focus = "cases" /\ CaseNext
    /\ UNCHANGED <<steeringVars, trailVars, maintenanceVars, placementVars, graphVars, focus>>
MoveGraph == focus = "graph" /\ GraphNext
    /\ UNCHANGED <<steeringVars, trailVars, maintenanceVars, placementVars, caseVars, focus>>

Next == MoveSteering \/ MoveTrail \/ MoveMaintenance \/ MovePlacement \/ MoveCases \/ MoveGraph

Spec == Init /\ [][Next]_vars
=============================================================================
