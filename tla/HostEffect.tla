----------------------------- MODULE HostEffect -----------------------------
(***************************************************************************)
(* supervisor-policy/authorized-host-effect.mjs with durable-authority.mjs:*)
(* invocations of host effects under an authority that its owner grants,   *)
(* revokes and lets expire. The Host and its handlers are external, with   *)
(* the duties AUTHORIZED-HOST-EFFECT-CONTRACT-v1.md gives them; a retry is *)
(* another invocation.                                                     *)
(***************************************************************************)
EXTENDS DurableAuthority

CONSTANTS
  Invocations,  \* calls of the Host, each made once
  Effects,      \* effect ids
  Operations,   \* what to do: kind, resource and input, well formed
  Malformed,    \* the same, refused by the validator
  Requests,     \* the effect requests that are made
  Grants,       \* the records the owner may issue, but for their epoch
  NoReceipt,
  MaxClock,
  MaxEpoch      \* bound on the grants

EffectRequest == [effect : Effects, task : Tasks, attempt : Attempts,
                  epoch : Nat \ {0}, operation : Operations \cup Malformed]

ValidRequest(request) == request.operation \in Operations

\* The scope token and the receipt's digest are made of the whole request.
ResumeTask == <<"resume_task">>
Scope(request) == <<"host_effect", request>>
Tokens == {ResumeTask} \cup {Scope(request) : request \in Requests}

\* Mutant: a receipt is named by all of its request.
ReceiptByRequest(request) ==
  [ref |-> <<"host-effect", request>>, digest |-> <<"sha256", request>>]

\* Mutant: the digest repeats the identity.
ReceiptOfIdentity(request) ==
  [ref |-> <<"host-effect", request.task, request.attempt, request.effect>>,
   digest |-> <<"sha256", request.task, request.attempt, request.effect>>]

\* The name leaves out the epoch and the operation, the digest nothing.
CreateReceipt(request) ==
  [ref |-> <<"host-effect", request.task, request.attempt, request.effect>>,
   digest |-> <<"sha256", request>>]

Receipts == {CreateReceipt(request) : request \in Requests}
Effect_Statuses == {"SUCCEEDED", "FAILED", "OUTCOME_UNKNOWN"}

\* What validateAuthorizedHostEffectResult accepts.
Results == {result \in [status : Effect_Statuses, receipt : Receipts \cup {NoReceipt},
                        reconciled : BOOLEAN] :
              result.status = "SUCCEEDED" => result.receipt \in Receipts}

CreateResult(status, receipt, reconciled) ==
  [status |-> status, receipt |-> receipt, reconciled |-> reconciled]

ASSUME EffectAssumption ==
  /\ Requests \subseteq EffectRequest
  /\ \A grant \in Grants : grant \in [task : Tasks, attempt : Attempts,
       scope : (SUBSET Tokens) \ {{}}, expires_at : Nat \cup {Never}]
  /\ NoReceipt \notin Receipts
  /\ NoRecord \notin AuthorityRecords(Tokens)
  /\ Never \notin Nat
  /\ MaxClock \in Nat /\ MaxEpoch \in Nat

VARIABLES
  clock,
  record,      \* the authority record the Host keeps
  ended,       \* <<epoch, time>>: authority of epoch is not in force from time on
  call,        \* call[i]: the local variables of an invocation
  handler,     \* handler[i]: the handler that i dispatched
  reserved,    \* receipts in the checkpoint's cursor
  terminal     \* terminal results in the checkpoint, by their receipts

vars == <<clock, record, ended, call, handler, reserved, terminal>>

(***************************************************************************)
(* A call: its phase, its request, the projection of the authority it was  *)
(* given and, once it is answered, its result.                             *)
(***************************************************************************)
NewCall == [phase |-> "idle"]
RequestOf(i) == call[i].request

Calls ==
  [phase : {"idle", "rejected"}]
  \cup [phase : {"evaluated", "reserved", "dispatched", "crashed"},
        request : Requests, projection : Projections(Tokens)]
  \cup [phase : {"answered"}, request : Requests, projection : Projections(Tokens),
        result : Results]

Answered(i, status, receipt, reconciled) ==
  call' = [call EXCEPT ![i] =
    [phase |-> "answered", request |-> call[i].request, projection |-> call[i].projection,
     result |-> CreateResult(status, receipt, reconciled)]]

-----------------------------------------------------------------------------
(***************************************************************************)
(* The authority's owner, and time.                                        *)
(***************************************************************************)
CurrentEpoch == IF record = NoRecord THEN 0 ELSE record.epoch

\* A grant replaces the record under the next epoch.
Grant(grant) ==
  /\ CurrentEpoch < MaxEpoch
  /\ record' = [task |-> grant.task, attempt |-> grant.attempt, epoch |-> CurrentEpoch + 1,
                scope |-> grant.scope, status |-> "active",
                expires_at |-> grant.expires_at, revoked_at |-> Never]
  /\ ended' = ended
       \cup (IF record = NoRecord THEN {} ELSE {<<CurrentEpoch, clock + 1>>})
       \cup (IF grant.expires_at = Never THEN {} ELSE {<<CurrentEpoch + 1, grant.expires_at>>})
  /\ UNCHANGED <<clock, call, handler, reserved, terminal>>

\* Withdrawn by its status at once, or revoked at a time to come.
Withdraw ==
  /\ record # NoRecord
  /\ \/ /\ \E status \in {"revoked", "expired"} :
             record' = [record EXCEPT !.status = status]
        /\ ended' = ended \cup {<<record.epoch, clock + 1>>}
     \/ /\ record.revoked_at = Never
        /\ record' = [record EXCEPT !.revoked_at = clock + 1]
        /\ ended' = ended \cup {<<record.epoch, clock + 1>>}
  /\ UNCHANGED <<clock, call, handler, reserved, terminal>>

Tick ==
  /\ clock < MaxClock
  /\ clock' = clock + 1
  /\ UNCHANGED <<record, ended, call, handler, reserved, terminal>>

-----------------------------------------------------------------------------
(***************************************************************************)
(* An invocation. The authority is evaluated at the time it names, for the *)
(* one token that binds its request; the Host acts on the answer later.    *)
(***************************************************************************)
EvaluationRequest(request) ==
  [task |-> request.task, attempt |-> request.attempt, required_epoch |-> request.epoch,
   requested_scope |-> {Scope(request)}, evaluated_at |-> clock]

Authorize(i, request) ==
  /\ call[i].phase = "idle"
  /\ ValidRequest(request)
  /\ call' = [call EXCEPT ![i] = [phase |-> "evaluated", request |-> request,
       projection |-> CreateAuthorityProjection(record, EvaluationRequest(request))]]
  /\ UNCHANGED <<clock, record, ended, handler, reserved, terminal>>

\* A request that is not well formed has neither a scope nor a receipt.
Reject(i, request) ==
  /\ call[i].phase = "idle"
  /\ ~ValidRequest(request)
  /\ call' = [call EXCEPT ![i] = [phase |-> "rejected"]]
  /\ UNCHANGED <<clock, record, ended, handler, reserved, terminal>>

Refuse(i) ==
  /\ call[i].phase = "evaluated"
  /\ call[i].projection.evaluation.decision # "authorized"
  /\ Answered(i, "FAILED", NoReceipt, FALSE)
  /\ UNCHANGED <<clock, record, ended, handler, reserved, terminal>>

\* Before it dispatches, the Host reserves the receipt by compare and swap.
Reserve(i) ==
  LET receipt == CreateReceipt(RequestOf(i))
  IN  /\ call[i].phase = "evaluated"
      /\ call[i].projection.evaluation.decision = "authorized"
      /\ \A other \in reserved : other.ref # receipt.ref
      /\ reserved' = reserved \cup {receipt}
      /\ call' = [call EXCEPT ![i].phase = "reserved"]
      /\ UNCHANGED <<clock, record, ended, handler, terminal>>

\* The identity was used before: the same request is reconciled with what is
\* stored of it, and another one is not dispatched.
Reconcile(i) ==
  LET receipt == CreateReceipt(RequestOf(i))
  IN  /\ call[i].phase = "evaluated"
      /\ call[i].projection.evaluation.decision = "authorized"
      /\ \/ \E result \in terminal :
              /\ result.receipt = receipt
              /\ Answered(i, result.status, receipt, TRUE)
         \/ /\ receipt \in reserved
            /\ \A result \in terminal : result.receipt # receipt
            /\ Answered(i, "OUTCOME_UNKNOWN", receipt, FALSE)
         \/ /\ receipt \notin reserved
            /\ \E other \in reserved : other.ref = receipt.ref
            /\ Answered(i, "FAILED", NoReceipt, FALSE)
      /\ UNCHANGED <<clock, record, ended, handler, reserved, terminal>>

Dispatch(i) ==
  /\ call[i].phase = "reserved"
  /\ call' = [call EXCEPT ![i].phase = "dispatched"]
  /\ handler' = [handler EXCEPT ![i] = "running"]
  /\ UNCHANGED <<clock, record, ended, reserved, terminal>>

\* The handler returned: the terminal receipt is persisted and reported.
Settle(i) ==
  LET receipt == CreateReceipt(RequestOf(i))
      status == IF handler[i] = "applied" THEN "SUCCEEDED" ELSE "FAILED"
  IN  /\ call[i].phase = "dispatched"
      /\ handler[i] \in {"applied", "declined"}
      /\ terminal' = terminal \cup {[receipt |-> receipt, status |-> status]}
      /\ Answered(i, status, receipt, FALSE)
      /\ UNCHANGED <<clock, record, ended, handler, reserved>>

\* Mutant: the call that gives up says that nothing was applied.
GiveUpFailed(i) ==
  /\ call[i].phase = "dispatched"
  /\ Answered(i, "FAILED", CreateReceipt(RequestOf(i)), FALSE)
  /\ UNCHANGED <<clock, record, ended, handler, reserved, terminal>>

\* The Host does not wait for the handler any longer.
GiveUp(i) ==
  /\ call[i].phase = "dispatched"
  /\ Answered(i, "OUTCOME_UNKNOWN", CreateReceipt(RequestOf(i)), FALSE)
  /\ UNCHANGED <<clock, record, ended, handler, reserved, terminal>>

\* The Host crashes: the checkpoint and the handler survive.
Crash(i) ==
  /\ call[i].phase \in {"evaluated", "reserved", "dispatched"}
  /\ call' = [call EXCEPT ![i].phase = "crashed"]
  /\ UNCHANGED <<clock, record, ended, handler, reserved, terminal>>

\* A handler applies its effect or returns a known non-application.
HandlerEnds(i) ==
  /\ handler[i] = "running"
  /\ \E outcome \in {"applied", "declined"} : handler' = [handler EXCEPT ![i] = outcome]
  /\ UNCHANGED <<clock, record, ended, call, reserved, terminal>>

Init ==
  /\ clock = 1
  /\ record = NoRecord
  /\ ended = {}
  /\ call = [i \in Invocations |-> NewCall]
  /\ handler = [i \in Invocations |-> "none"]
  /\ reserved = {}
  /\ terminal = {}

Next ==
  \/ \E grant \in Grants : Grant(grant)
  \/ Withdraw
  \/ Tick
  \/ \E i \in Invocations :
       \/ \E request \in Requests : Authorize(i, request) \/ Reject(i, request)
       \/ Refuse(i)
       \/ Reserve(i)
       \/ Reconcile(i)
       \/ Dispatch(i)
       \/ Settle(i)
       \/ GiveUp(i)
       \/ Crash(i)
       \/ HandlerEnds(i)

Spec == Init /\ [][Next]_vars

-----------------------------------------------------------------------------
Applied == {i \in Invocations : handler[i] = "applied"}

TypeOK ==
  /\ clock \in Nat
  /\ record \in AuthorityRecords(Tokens) \cup {NoRecord}
  /\ ended \subseteq Nat \X Nat
  /\ call \in [Invocations -> Calls]
  /\ handler \in [Invocations -> {"none", "running", "applied", "declined"}]
  /\ reserved \subseteq Receipts
  /\ terminal \subseteq [receipt : reserved, status : {"SUCCEEDED", "FAILED"}]

(***************************************************************************)
(* However an effect is retried, with whatever operation and under         *)
(* whatever epoch, one task's attempt applies one effect id once.          *)
(***************************************************************************)
AppliedOnce ==
  \A i, j \in Applied :
    /\ RequestOf(i).task = RequestOf(j).task
    /\ RequestOf(i).attempt = RequestOf(j).attempt
    /\ RequestOf(i).effect = RequestOf(j).effect
    => i = j

(***************************************************************************)
(* An effect that was applied had been granted, exact request and epoch,   *)
(* by a record that was in force when it was evaluated: not superseded,    *)
(* withdrawn, revoked or expired.                                          *)
(***************************************************************************)
AppliedUnderAuthority ==
  \A i \in Applied :
    /\ Scope(RequestOf(i)) \in call[i].projection.record.scope
    /\ \A end \in ended :
         end[1] = RequestOf(i).epoch => call[i].projection.request.evaluated_at < end[2]

(***************************************************************************)
(* SUCCEEDED means that the very request was applied, by this invocation   *)
(* or the one it was reconciled with; FAILED that this one applied         *)
(* nothing, and with a receipt that none did nor will.                     *)
(***************************************************************************)
ResultsAreTrue ==
  \A i \in Invocations : call[i].phase = "answered" =>
    LET result == call[i].result
        same == {j \in Invocations : handler[j] # "none" /\ RequestOf(j) = RequestOf(i)}
    IN  /\ result.status = "SUCCEEDED" => \E j \in same : handler[j] = "applied"
        /\ result.status = "FAILED" => handler[i] \in {"none", "declined"}
        /\ result.status = "FAILED" /\ result.receipt \in Receipts =>
             \A j \in same : handler[j] = "declined"

(***************************************************************************)
(* Seen from its callers, the Host, the policy and the handlers implement  *)
(* EffectRegister: an identity is spent once, whichever call crashes or    *)
(* gives up, and every answer is true when it is given and ever after.     *)
(***************************************************************************)
Spent == {receipt.digest[2] : receipt \in reserved}
Concluded(end) == {RequestOf(i) : i \in {j \in Invocations : handler[j] = end}}

Answer(result) ==
  IF result.status = "SUCCEEDED" THEN "applied"
  ELSE IF result.status = "OUTCOME_UNKNOWN" THEN "unknown"
  ELSE IF result.receipt \in Receipts THEN "declined" ELSE "nothing_done"

Told == {<<i, RequestOf(i), Answer(call[i].result)>> :
           i \in {j \in Invocations : call[j].phase = "answered"}}

Register == INSTANCE EffectRegister WITH
  Callers <- Invocations,
  spent <- Spent,
  applied <- Concluded("applied"),
  declined <- Concluded("declined"),
  told <- Told

EffectsAreExactlyOnce == Register!Spec
=============================================================================
