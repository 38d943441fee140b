--------------------------- MODULE MCResearchPass ---------------------------
(* Instances of ResearchPass for TLC. *)
EXTENDS ResearchPass, TLC

CONSTANTS r1, r2

\* Two routes that are falsified in parallel and get no second chance.
Wide == [minimum_routes |-> 2, max_route_revisions |-> 0, max_composition_revisions |-> 0,
         max_tool_cycles |-> 0, found |-> {r1, r2}, tools |-> {}, forced |-> {}, max_reviews |-> 1]

\* One route that may be revised.
Deep == [minimum_routes |-> 1, max_route_revisions |-> 1, max_composition_revisions |-> 0,
         max_tool_cycles |-> 0, found |-> {r1}, tools |-> {}, forced |-> {}, max_reviews |-> 2]

\* One route, a composition that may be revised, tools on request and forced.
Tooled == [minimum_routes |-> 1, max_route_revisions |-> 0, max_composition_revisions |-> 1,
           max_tool_cycles |-> 1, found |-> {r1},
           tools |-> {"FORMALIZE_ROUTE", "COMPOSITION_CHECK"}, forced |-> {"FORMALIZE_ROUTE"},
           max_reviews |-> 1]

MCPlans == {Wide, Deep, Tooled}

=============================================================================
