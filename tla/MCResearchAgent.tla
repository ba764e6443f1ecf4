--------------------------- MODULE MCResearchAgent ---------------------------
(* Model values for the run of the research agent: costs in units of 5       *)
(* cents, two titles that begin alike, a budget with room for both steps if  *)
(* the search is not dear.                                                   *)
EXTENDS ResearchAgent, TLC

CONSTANTS i1, i2

SearchThenResearch == <<"search", "research">>
Estimates == [e \in Endpoints |-> IF e = "research" THEN 10 ELSE 3]
Prices    == [e \in Endpoints |-> IF e = "research" THEN {11} ELSE {3, 4}]
Beginning == [i \in Topics |-> "Research on"]

RunSymmetry == Permutations(Runs)
=============================================================================
