--------------------------- MODULE MCGateLifecycle ---------------------------
(***************************************************************************)
(* Small instances of GateLifecycle for TLC.                               *)
(***************************************************************************)
EXTENDS GateLifecycle, TLC

CONSTANTS g1, g2, c1, c2

NoRequirement == [gate \in Gates |-> {}]
Chain == [NoRequirement EXCEPT ![g2] = {g1}]
Ring == [Chain EXCEPT ![g1] = {g2}]

Content(requires, authorized, completed) ==
  [gates |-> Gates, requires |-> requires, authorized_gates |-> authorized,
   completed_gates |-> completed, blocked_gates |-> Gates \ (authorized \cup completed)]

\* Both gates are free; or the first is done and the second runs; or they form a ring.
LeastContents ==
  {Content(NoRequirement, {g1, g2}, {}), Content(Chain, {g2}, {g1}), Content(Ring, {}, {})}
OneCriterion == {{c1}}
\* Evidence that falls short, that fits, and that covers too much.
AllEvidence == {{}, {c1}, {c1, c2}}
=============================================================================
