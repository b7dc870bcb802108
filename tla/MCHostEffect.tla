---------------------------- MODULE MCHostEffect ----------------------------
(* Instances of HostEffect for TLC. *)
EXTENDS HostEffect, TLC

InvocationSymmetry == Permutations(Invocations)

MakeRequest(attempt, epoch, operation) ==
  [effect |-> "e1", task |-> "t1", attempt |-> attempt, epoch |-> epoch, operation |-> operation]
\* Requests that differ in the operation or the epoch alone, and one that is too large.
SomeRequests == {MakeRequest("a1", 1, "write"), MakeRequest("a1", 1, "other"),
                 MakeRequest("a1", 2, "write"), MakeRequest("a1", 1, "huge")}

\* One grant covers both operations, one only the second epoch.
MakeGrant(requests, expires_at) ==
  [task |-> "t1", attempt |-> "a1", expires_at |-> expires_at,
   scope |-> {ResumeTask} \cup {Scope(request) : request \in requests}]
MCGrants == {MakeGrant({MakeRequest("a1", 1, "write"), MakeRequest("a1", 1, "other")}, 2),
             MakeGrant({MakeRequest("a1", 1, "other"), MakeRequest("a1", 2, "write")}, Never)}
=============================================================================
