--------------------------- MODULE MCContextPlan ----------------------------
(* Instances of ContextPlan for TLC. *)
EXTENDS ContextPlan

Skill(covers, workers, priority) ==
  [covers |-> covers, workers |-> workers, priority |-> priority]

\* Every catalog of two skills, and a few larger ones.
Skills2 == [covers : (SUBSET {"a", "b"}) \ {{}}, workers : {{"codex"}, {"pi"}, {"codex", "pi"}},
            priority : {0, 1}]
MCCatalogs ==
  [1..2 -> Skills2]
  \cup {[k \in 1..3 |-> Skill({<<"a", "b", "c">>[k]}, {"codex"}, k)],
        <<Skill({"a", "b"}, {"codex"}, 0), Skill({"b", "c"}, {"codex", "pi"}, 0),
          Skill({"c", "a"}, {"pi"}, 1)>>}
\* A skill that covers much, and two that cover everything.
MCGreedyCatalog ==
  {<<Skill({"b", "c", "d", "e"}, {"codex"}, 0), Skill({"a", "b", "c"}, {"codex"}, 0),
     Skill({"d", "e", "f"}, {"codex"}, 0)>>}
MCRequired == SUBSET {"a", "b", "c"}
MCEveryClass == {classes \in SUBSET {"a", "b", "c", "d", "e", "f"} : Cardinality(classes) > 4}
MCRequests == {<<>>, <<2>>, <<1, 2, 1>>, <<3>>}
MCNoRequest == {<<>>}
MCRecallInputs ==
  [project_scoped : {TRUE}, fresh_run : BOOLEAN, reasons : {{}, {"cross_worker_handoff"}}]
MCOneRecall == [project_scoped : {TRUE}, fresh_run : {TRUE}, reasons : {{}}]
=============================================================================
