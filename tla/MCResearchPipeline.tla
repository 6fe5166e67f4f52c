-------------------------- MODULE MCResearchPipeline --------------------------
(* Two subtasks: apart, one after the other, and in a circle.              *)
EXTENDS ResearchPipelineInvariant

NoEdge  == [n \in Node |-> {}]
Chain   == [n \in Node |-> IF n = 1 THEN {} ELSE {n - 1}]
Circle  == [n \in Node |-> IF n = 1 THEN {N} ELSE {n - 1}]

SomePlans == {NoEdge, Chain, Circle}
===============================================================================
