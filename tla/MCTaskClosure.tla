---------------------------- MODULE MCTaskClosure ---------------------------
(* Instances of TaskClosure for TLC. *)
EXTENDS TaskClosure

Sound ==
  [intent_refs |-> SourceRefs, coverage |-> "complete", source_refs |-> SourceRefs,
   evidence_refs |-> SourceRefs, verdict |-> "converged",
   verifier |-> [role |-> "independent_verifier", id |-> "reviewer"]]

\* A sound claim, one that covers nothing, and one the executor verified itself.
MCSomeClaims ==
  {Sound, [Sound EXCEPT !.source_refs = {}],
   [Sound EXCEPT !.verifier = [role |-> "supervisor", id |-> Executor]]}

Fact(category, verified, secret, ephemeral) ==
  [category |-> category, verified |-> verified, contains_secret |-> secret,
   ephemeral |-> ephemeral]
MCFacts ==
  {Fact("business_rule", TRUE, FALSE, FALSE), Fact("reusable_sop", FALSE, FALSE, FALSE),
   Fact("raw_log", TRUE, FALSE, FALSE)}

\* An edit may leave the documents out of date.
MCImpacts == {{}, {"docs"}}
=============================================================================
