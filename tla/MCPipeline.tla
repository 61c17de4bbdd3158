----------------------------- MODULE MCPipeline -----------------------------
(***************************************************************************)
(* A request of every form beside one that is limited and executed; two    *)
(* with one request id, also as the parts of one batch.                    *)
(***************************************************************************)
EXTENDS Pipeline

CONSTANTS r1, r2, i1, i2

Form(route, own, document, query) ==
  [route |-> route, own |-> own, document |-> document, query |-> query, id |-> i1]

Good == Form("graphql", FALSE, "inline", "good")
OwnService == Form("graphql", TRUE, "inline", "good")
WithoutData == Form("graphql", FALSE, "inline", "variables")
InBatch == Form("batch", FALSE, "unknown", "good")

Forms ==
  {Good, OwnService, WithoutData, InBatch,
   Form("graphql", FALSE, "inline", "home"),
   Form("graphql", FALSE, "unknown", "good"),
   Form("graphql", FALSE, "inline", "invalid"),
   Form("other", FALSE, "inline", "good"),
   Form("batch", FALSE, "inline", "invalid")}

\* A request of any form beside one that is limited and executed, and those
\* that use the log beside one with the same request id.
MCTraffic ==
  {[r \in {r1, r2} |-> IF r = r1 THEN f ELSE [Good EXCEPT !.id = i2]] : f \in Forms}
  \cup {[r \in {r1, r2} |-> IF r = r1 THEN f ELSE g] :
          f \in {OwnService, WithoutData, InBatch}, g \in {OwnService, InBatch}}
=============================================================================
