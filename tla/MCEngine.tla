------------------------------ MODULE MCEngine ------------------------------
(* Engine over every catalog of three tasks that obeys the catalog rule, and *)
(* over every catalog with at most one dependency a task, cycles and names   *)
(* of no task among them.                                                    *)
EXTENDS Engine, FiniteSets

RuleCatalogs ==
    {D \in [Tasks -> SUBSET Tasks] : \A t \in Tasks : \A d \in D[t] : d < t}

ChainCatalogs ==
    {D \in [Tasks -> SUBSET Names] : \A t \in Tasks : Cardinality(D[t]) <= 1}

AnyCatalogs == RuleCatalogs \cup ChainCatalogs

=============================================================================
