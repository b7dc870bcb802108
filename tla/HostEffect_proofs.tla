-------------------------- MODULE HostEffect_proofs --------------------------
(***************************************************************************)
(* Proofs about HostEffect for any invocations, requests and grants. IInv  *)
(* says what an invocation knows at each phase, that the receipts keep two *)
(* dispatched invocations apart, and what the stored and the reported      *)
(* results stand for.                                                      *)
(***************************************************************************)
EXTENDS HostEffect, TLAPS

Active(i) == call[i].phase \notin {"idle", "rejected"}
Authorized(i) == Active(i) /\ call[i].projection.evaluation.decision = "authorized"
Launched(i) == call[i].phase = "reserved" \/ handler[i] # "none"

\* The evaluation is the one the code makes, for this request, not later than now.
Evaluated(i) ==
  LET projection == call[i].projection
  IN  /\ projection.request.required_epoch = RequestOf(i).epoch
      /\ projection.request.requested_scope = {Scope(RequestOf(i))}
      /\ projection.request.evaluated_at <= clock
      /\ projection.evaluation = EvaluateDurableAuthority(projection.record, projection.request)

InForce(i) ==
  /\ RequestOf(i).epoch <= CurrentEpoch
  /\ \A end \in ended :
       end[1] = RequestOf(i).epoch => call[i].projection.request.evaluated_at < end[2]

\* What the record says of its own end.
AuthorityInv ==
  \A end \in ended :
    /\ end[1] <= CurrentEpoch
    /\ end[1] = CurrentEpoch =>
         \/ record.status # "active"
         \/ Reached(record.expires_at, end[2])
         \/ Reached(record.revoked_at, end[2])

CallInv(i) ==
  /\ call[i].phase \in {"idle", "rejected", "evaluated", "reserved"} => handler[i] = "none"
  /\ Active(i) => Evaluated(i)
  /\ Authorized(i) => InForce(i)
  /\ Launched(i) => Authorized(i) /\ CreateReceipt(RequestOf(i)) \in reserved

Apart ==
  \A i, j \in Invocations :
    /\ Launched(i) /\ Launched(j)
    /\ CreateReceipt(RequestOf(i)).ref = CreateReceipt(RequestOf(j)).ref
    => i = j

Ended(i, status) == handler[i] = IF status = "SUCCEEDED" THEN "applied" ELSE "declined"

TerminalInv ==
  \A stored \in terminal : \E j \in Invocations :
    Ended(j, stored.status) /\ CreateReceipt(RequestOf(j)) = stored.receipt

ResultInv(i) ==
  call[i].phase = "answered" =>
    LET result == call[i].result
    IN  /\ result.status = "SUCCEEDED" \/ (result.status = "FAILED" /\ result.receipt \in Receipts)
             => \E j \in Invocations : Ended(j, result.status) /\ RequestOf(j) = RequestOf(i)
        /\ result.status = "FAILED" => handler[i] \in {"none", "declined"}

IInv ==
  /\ TypeOK
  /\ AuthorityInv
  /\ \A i \in Invocations : CallInv(i)
  /\ Apart
  /\ TerminalInv
  /\ \A i \in Invocations : ResultInv(i)

-----------------------------------------------------------------------------
(***************************************************************************)
(* The operators of the two source modules.                                *)
(***************************************************************************)
\* A receipt's digest determines the request.
LEMMA ReceiptInjective ==
  ASSUME NEW r, NEW s, CreateReceipt(r) = CreateReceipt(s)
  PROVE  r = s
BY DEF CreateReceipt

\* A receipt's name is the identity of the effect.
LEMMA ReceiptIdentity ==
  ASSUME NEW r, NEW s, r.task = s.task, r.attempt = s.attempt, r.effect = s.effect
  PROVE  CreateReceipt(r).ref = CreateReceipt(s).ref
BY DEF CreateReceipt

LEMMA ProjectionType ==
  ASSUME TypeOK, NEW request \in Requests
  PROVE  CreateAuthorityProjection(record, EvaluationRequest(request)) \in Projections(Tokens)
<1>1. request \in EffectRequest
  BY EffectAssumption
<1>2. EvaluationRequest(request) \in EvaluationRequests(Tokens)
  BY <1>1 DEF EvaluationRequest, EvaluationRequests, EffectRequest, Tokens, TypeOK
<1>3. \A q : EvaluateDurableAuthority(record, q) \in [decision : Decisions, reason : Reasons]
  BY DEF EvaluateDurableAuthority, Reason, Decisions, Reasons
<1> QED BY <1>2, <1>3 DEF CreateAuthorityProjection, Projections, TypeOK

LEMMA ResultType ==
  ASSUME NEW status \in Effect_Statuses, NEW receipt \in Receipts \cup {NoReceipt},
         NEW reconciled \in BOOLEAN, status = "SUCCEEDED" => receipt \in Receipts
  PROVE  CreateResult(status, receipt, reconciled) \in Results
BY DEF CreateResult, Results

\* What "authorized" says of the record and the request it was decided for.
LEMMA AuthorizedMeans ==
  ASSUME NEW r, NEW q, EvaluateDurableAuthority(r, q).decision = "authorized"
  PROVE  /\ r # NoRecord
         /\ r.epoch = q.required_epoch
         /\ r.status \notin {"revoked", "expired"}
         /\ ~Reached(r.revoked_at, q.evaluated_at)
         /\ ~Reached(r.expires_at, q.evaluated_at)
         /\ q.requested_scope \subseteq r.scope
<1>1. Reason(r, q) = "authority_valid"
  BY DEF EvaluateDurableAuthority
<1> QED BY <1>1 DEF Reason

LEMMA ActiveType ==
  ASSUME TypeOK, NEW i \in Invocations, Active(i)
  PROVE  RequestOf(i) \in Requests /\ call[i].projection \in Projections(Tokens)
BY DEF TypeOK, Active, Calls, RequestOf

-----------------------------------------------------------------------------
(***************************************************************************)
(* Types.                                                                  *)
(***************************************************************************)
LEMMA AnsweredType ==
  ASSUME TypeOK, NEW i \in Invocations, Active(i),
         NEW status \in Effect_Statuses, NEW receipt \in Receipts \cup {NoReceipt},
         NEW reconciled \in BOOLEAN, status = "SUCCEEDED" => receipt \in Receipts,
         Answered(i, status, receipt, reconciled)
  PROVE  call' \in [Invocations -> Calls]
<1> DEFINE new == [phase |-> "answered", request |-> call[i].request,
                   projection |-> call[i].projection,
                   result |-> CreateResult(status, receipt, reconciled)]
<1>1. new \in Calls
  BY ActiveType, ResultType DEF Calls, RequestOf
<1>2. call' = [call EXCEPT ![i] = new]
  BY DEF Answered
<1> HIDE DEF new
<1> QED BY <1>1, <1>2 DEF TypeOK

LEMMA PhaseType ==
  ASSUME TypeOK, NEW i \in Invocations,
         call[i].phase \in {"evaluated", "reserved", "dispatched"},
         NEW phase \in {"reserved", "dispatched", "crashed"},
         call' = [call EXCEPT ![i].phase = phase]
  PROVE  call' \in [Invocations -> Calls]
<1> DEFINE new == [call[i] EXCEPT !.phase = phase]
<1>1. call[i] \in [phase : {"evaluated", "reserved", "dispatched", "crashed"},
                   request : Requests, projection : Projections(Tokens)]
  BY DEF TypeOK, Calls
<1>2. new \in Calls
  BY <1>1 DEF Calls
<1> HIDE DEF new
<1>3. call' = [call EXCEPT ![i] = new]
  BY DEF new, TypeOK
<1> QED BY <1>2, <1>3 DEF TypeOK

LEMMA ReceiptType ==
  ASSUME TypeOK, NEW i \in Invocations, Active(i)
  PROVE  CreateReceipt(RequestOf(i)) \in Receipts
BY ActiveType DEF Receipts

LEMMA CallStepType ==
  ASSUME TypeOK, NEW i \in Invocations,
         \/ \E request \in Requests : Authorize(i, request) \/ Reject(i, request)
         \/ Refuse(i) \/ Reserve(i) \/ Reconcile(i) \/ Dispatch(i) \/ Settle(i)
         \/ GiveUp(i) \/ Crash(i)
  PROVE  call' \in [Invocations -> Calls]
<1>1. ASSUME NEW request \in Requests, Authorize(i, request)
      PROVE  call' \in [Invocations -> Calls]
  <2> DEFINE new == [phase |-> "evaluated", request |-> request,
                     projection |-> CreateAuthorityProjection(record, EvaluationRequest(request))]
  <2>1. new \in Calls
    BY ProjectionType DEF Calls
  <2>2. call' = [call EXCEPT ![i] = new]
    BY <1>1 DEF Authorize
  <2> HIDE DEF new
  <2> QED BY <2>1, <2>2 DEF TypeOK
<1>2. ASSUME NEW request \in Requests, Reject(i, request)
      PROVE  call' \in [Invocations -> Calls]
  BY <1>2 DEF Reject, TypeOK, Calls
<1>3. CASE Refuse(i)
  BY <1>3, AnsweredType DEF Refuse, Active, Effect_Statuses
<1>4. CASE Reserve(i)
  BY <1>4, PhaseType DEF Reserve
<1>5. CASE Reconcile(i)
  <2>1. Active(i)
    BY <1>5 DEF Reconcile, Active
  <2>2. \A stored \in terminal : stored.status \in Effect_Statuses
    BY DEF TypeOK, Effect_Statuses
  <2> QED BY <1>5, <2>1, <2>2, ReceiptType, AnsweredType DEF Reconcile, Effect_Statuses
<1>6. CASE Dispatch(i)
  BY <1>6, PhaseType DEF Dispatch
<1>7. CASE Settle(i)
  <2>1. Active(i)
    BY <1>7 DEF Settle, Active
  <2> QED BY <1>7, <2>1, ReceiptType, AnsweredType DEF Settle, Effect_Statuses
<1>8. CASE GiveUp(i)
  <2>1. Active(i)
    BY <1>8 DEF GiveUp, Active
  <2> QED BY <1>8, <2>1, ReceiptType, AnsweredType DEF GiveUp, Effect_Statuses
<1>9. CASE Crash(i)
  BY <1>9, PhaseType DEF Crash
<1> QED BY <1>1, <1>2, <1>3, <1>4, <1>5, <1>6, <1>7, <1>8, <1>9

LEMMA GrantType ==
  ASSUME TypeOK, NEW grant \in Grants, Grant(grant)
  PROVE  record' \in AuthorityRecords(Tokens) /\ ended' \subseteq Nat \X Nat
<1>1. CurrentEpoch \in Nat /\ clock \in Nat
  BY DEF TypeOK, CurrentEpoch, AuthorityRecords
<1>2. grant \in [task : Tasks, attempt : Attempts,
                 scope : (SUBSET Tokens) \ {{}}, expires_at : Nat \cup {Never}]
  BY EffectAssumption
<1>3. record' \in AuthorityRecords(Tokens)
  BY <1>1, <1>2 DEF Grant, AuthorityRecords
<1>4. ended' \subseteq Nat \X Nat
  BY <1>1, <1>2 DEF Grant, TypeOK
<1> QED BY <1>3, <1>4

LEMMA WithdrawType ==
  ASSUME TypeOK, Withdraw
  PROVE  record' \in AuthorityRecords(Tokens) /\ ended' \subseteq Nat \X Nat
<1>1. record \in AuthorityRecords(Tokens) /\ clock + 1 \in Nat
  BY DEF Withdraw, TypeOK
<1>2. record' \in AuthorityRecords(Tokens)
  BY <1>1 DEF Withdraw, AuthorityRecords
<1>3. ended' = ended \cup {<<record.epoch, clock + 1>>}
  BY DEF Withdraw
<1>4. record.epoch \in Nat
  BY <1>1 DEF AuthorityRecords
<1>5. ended' \subseteq Nat \X Nat
  BY <1>1, <1>3, <1>4 DEF TypeOK
<1> QED BY <1>2, <1>5

LEMMA TypeStep ==
  TypeOK /\ (\A i \in Invocations : CallInv(i)) /\ [Next]_vars => TypeOK'
<1> SUFFICES ASSUME TypeOK, \A i \in Invocations : CallInv(i), [Next]_vars
             PROVE  TypeOK'
  OBVIOUS
<1>1. ASSUME NEW grant \in Grants, Grant(grant)
      PROVE  TypeOK'
  BY <1>1, GrantType DEF Grant, TypeOK
<1>2. CASE Withdraw
  BY <1>2, WithdrawType DEF Withdraw, TypeOK
<1>3. CASE Tick
  BY <1>3 DEF Tick, TypeOK
<1>4. ASSUME NEW i \in Invocations,
             \/ \E request \in Requests : Authorize(i, request) \/ Reject(i, request)
             \/ Refuse(i) \/ Reserve(i) \/ Reconcile(i) \/ Dispatch(i) \/ Settle(i)
             \/ GiveUp(i) \/ Crash(i)
      PROVE  TypeOK'
  <2>1. call' \in [Invocations -> Calls]
    BY <1>4, CallStepType
  <2>2. UNCHANGED <<clock, record, ended>>
    BY <1>4 DEF Authorize, Reject, Refuse, Reserve, Reconcile, Dispatch, Settle, GiveUp, Crash
  <2>3. handler' \in [Invocations -> {"none", "running", "applied", "declined"}]
    BY <1>4 DEF Authorize, Reject, Refuse, Reserve, Reconcile, Dispatch, Settle, GiveUp, Crash, TypeOK
  <2>4. reserved' \subseteq Receipts /\ reserved \subseteq reserved'
    <3>1. CASE Reserve(i)
      BY <3>1, ReceiptType DEF Reserve, TypeOK, Active
    <3>2. CASE ~Reserve(i)
      BY <1>4, <3>2
         DEF Authorize, Reject, Refuse, Reconcile, Dispatch, Settle, GiveUp, Crash, TypeOK
    <3> QED BY <3>1, <3>2
  <2>5. terminal' \subseteq [receipt : reserved', status : {"SUCCEEDED", "FAILED"}]
    <3>1. CASE Settle(i)
      <4> DEFINE new == [receipt |-> CreateReceipt(RequestOf(i)),
                         status |-> IF handler[i] = "applied" THEN "SUCCEEDED" ELSE "FAILED"]
      <4>1. handler[i] # "none"
        BY <3>1 DEF Settle
      <4>2. CreateReceipt(RequestOf(i)) \in reserved'
        BY <2>4, <4>1 DEF CallInv, Launched
      <4>3. new \in [receipt : reserved', status : {"SUCCEEDED", "FAILED"}]
        BY <4>2
      <4>4. terminal' = terminal \cup {new}
        BY <3>1 DEF Settle
      <4> HIDE DEF new
      <4> QED BY <2>4, <4>3, <4>4 DEF TypeOK
    <3>2. CASE ~Settle(i)
      <4>1. terminal' = terminal
        BY <1>4, <3>2 DEF Authorize, Reject, Refuse, Reserve, Reconcile, Dispatch, GiveUp, Crash
      <4> QED BY <2>4, <4>1 DEF TypeOK
    <3> QED BY <3>1, <3>2
  <2> QED BY <2>1, <2>2, <2>3, <2>4, <2>5 DEF TypeOK
<1>5. ASSUME NEW i \in Invocations, HandlerEnds(i)
      PROVE  TypeOK'
  BY <1>5 DEF HandlerEnds, TypeOK
<1>6. CASE UNCHANGED vars
  BY <1>6 DEF vars, TypeOK
<1> QED BY <1>1, <1>2, <1>3, <1>4, <1>5, <1>6 DEF Next

-----------------------------------------------------------------------------
(***************************************************************************)
(* What every step keeps: an invocation's request and projection once it   *)
(* has them, the end of a handler, reserved receipts; and what a step may  *)
(* add to the record of the authority's ends.                              *)
(***************************************************************************)
Kept(i) ==
  Active(i) =>
    /\ Active(i)'
    /\ call'[i].request = call[i].request
    /\ call'[i].projection = call[i].projection

CallStep(i) ==
  \/ \E request \in Requests : Authorize(i, request) \/ Reject(i, request)
  \/ Refuse(i) \/ Reserve(i) \/ Reconcile(i) \/ Dispatch(i) \/ Settle(i)
  \/ GiveUp(i) \/ Crash(i)

LEMMA AnsweredFrom ==
  ASSUME TypeOK, NEW i \in Invocations, Refuse(i) \/ Reconcile(i) \/ Settle(i) \/ GiveUp(i)
  PROVE  \E status \in Effect_Statuses, receipt \in Receipts \cup {NoReceipt},
            reconciled \in BOOLEAN : Answered(i, status, receipt, reconciled)
<1>1. Active(i)
  BY DEF Refuse, Reconcile, Settle, GiveUp, Active
<1>2. CreateReceipt(RequestOf(i)) \in Receipts
  BY <1>1, ReceiptType
<1>3. \A stored \in terminal : stored.status \in Effect_Statuses
  BY DEF TypeOK, Effect_Statuses
<1> QED BY <1>2, <1>3 DEF Refuse, Reconcile, Settle, GiveUp, Effect_Statuses

LEMMA CallStepKeeps ==
  ASSUME TypeOK, NEW i \in Invocations, CallStep(i)
  PROVE  /\ \A j \in Invocations \ {i} : call'[j] = call[j] /\ handler'[j] = handler[j]
         /\ Kept(i)
         /\ handler'[i] = handler[i] \/ (Dispatch(i) /\ handler'[i] = "running")
         /\ UNCHANGED <<clock, record, ended>>
         /\ reserved \subseteq reserved' /\ terminal \subseteq terminal'
<1>1. call \in [Invocations -> Calls] /\ DOMAIN handler = Invocations
  BY DEF TypeOK
<1>2. \A j \in Invocations \ {i} : call'[j] = call[j] /\ handler'[j] = handler[j]
  BY <1>1 DEF CallStep, Authorize, Reject, Refuse, Reserve, Reconcile, Dispatch, Settle,
              GiveUp, Crash, Answered
<1>3. /\ UNCHANGED <<clock, record, ended>>
      /\ reserved \subseteq reserved' /\ terminal \subseteq terminal'
      /\ handler'[i] = handler[i] \/ (Dispatch(i) /\ handler'[i] = "running")
  BY <1>1 DEF CallStep, Authorize, Reject, Refuse, Reserve, Reconcile, Dispatch, Settle, GiveUp, Crash
<1>4. Kept(i)
  <2>1. CASE \E request \in Requests : Authorize(i, request) \/ Reject(i, request)
    BY <2>1 DEF Kept, Active, Authorize, Reject
  <2>2. CASE Refuse(i) \/ Reconcile(i) \/ Settle(i) \/ GiveUp(i)
    <3>1. PICK status \in Effect_Statuses, receipt \in Receipts \cup {NoReceipt},
                reconciled \in BOOLEAN : Answered(i, status, receipt, reconciled)
      BY <2>2, AnsweredFrom
    <3> DEFINE new == [phase |-> "answered", request |-> call[i].request,
                       projection |-> call[i].projection,
                       result |-> CreateResult(status, receipt, reconciled)]
    <3>2. call'[i] = new
      BY <1>1, <3>1 DEF Answered
    <3> QED BY <3>2 DEF Kept, Active
  <2>3. CASE Reserve(i)
    BY <1>1, <2>3 DEF Kept, Active, Reserve, Calls
  <2>4. CASE Dispatch(i)
    BY <1>1, <2>4 DEF Kept, Active, Dispatch, Calls
  <2>5. CASE Crash(i)
    BY <1>1, <2>5 DEF Kept, Active, Crash, Calls
  <2> QED BY <2>1, <2>2, <2>3, <2>4, <2>5 DEF CallStep
<1> QED BY <1>2, <1>3, <1>4

LEMMA OwnerStepKeeps ==
  ASSUME TypeOK, (\E grant \in Grants : Grant(grant)) \/ Withdraw \/ Tick
  PROVE  /\ UNCHANGED <<call, handler, reserved, terminal>>
         /\ clock <= clock'
         /\ CurrentEpoch <= CurrentEpoch'
         /\ \A end \in ended' : end \in ended \/ clock < end[2] \/ CurrentEpoch < end[1]
<1>1. CurrentEpoch \in Nat /\ clock \in Nat
  BY DEF TypeOK, CurrentEpoch, AuthorityRecords
<1>2. ASSUME NEW grant \in Grants, Grant(grant)
      PROVE  /\ UNCHANGED <<call, handler, reserved, terminal, clock>>
             /\ CurrentEpoch <= CurrentEpoch'
             /\ \A end \in ended' : end \in ended \/ clock < end[2] \/ CurrentEpoch < end[1]
  <2>1. record' # NoRecord => CurrentEpoch' = CurrentEpoch + 1
    BY <1>2 DEF Grant, CurrentEpoch
  <2>2. record' # NoRecord
    <3>1. record' \in AuthorityRecords(Tokens)
      BY <1>2, GrantType
    <3> QED BY <3>1, EffectAssumption
  <2>3. \A end \in ended' : end \in ended \/ end = <<CurrentEpoch, clock + 1>>
                                          \/ end = <<CurrentEpoch + 1, grant.expires_at>>
    BY <1>2 DEF Grant
  <2>4. \A end \in ended' : end \in ended \/ clock < end[2] \/ CurrentEpoch < end[1]
    BY <1>1, <2>3
  <2> QED BY <1>1, <1>2, <2>1, <2>2, <2>4 DEF Grant
<1>3. CASE Withdraw
  <2>1. record \in AuthorityRecords(Tokens)
    BY <1>3 DEF Withdraw, TypeOK
  <2>2. record'.epoch = record.epoch /\ CurrentEpoch = record.epoch
    BY <1>3, <2>1 DEF Withdraw, AuthorityRecords, CurrentEpoch
  <2>3. ended' = ended \cup {<<record.epoch, clock + 1>>}
    BY <1>3 DEF Withdraw
  <2>4. record' # NoRecord
    BY <1>3, WithdrawType, EffectAssumption
  <2>5. CurrentEpoch' = CurrentEpoch
    BY <2>2, <2>4 DEF CurrentEpoch
  <2>6. \A end \in ended' : end \in ended \/ clock < end[2]
    BY <1>1, <2>3
  <2> QED BY <1>1, <1>3, <2>5, <2>6 DEF Withdraw
<1>4. CASE Tick
  BY <1>1, <1>4 DEF Tick, CurrentEpoch
<1> QED BY <1>1, <1>2, <1>3, <1>4

-----------------------------------------------------------------------------
(***************************************************************************)
(* Every conjunct of IInv is preserved.                                    *)
(***************************************************************************)
LEMMA AuthorityStep ==
  ASSUME IInv, [Next]_vars
  PROVE  AuthorityInv'
<1>1. TypeOK /\ AuthorityInv /\ CurrentEpoch \in Nat /\ clock \in Nat
  BY DEF IInv, TypeOK, CurrentEpoch, AuthorityRecords
<1>2. CASE \E grant \in Grants : Grant(grant)
  <2>1. PICK grant \in Grants : Grant(grant)
    BY <1>2
  <2>2. record' # NoRecord
    BY <1>1, <2>1, GrantType, EffectAssumption
  <2>3. CurrentEpoch' = CurrentEpoch + 1
    BY <2>1, <2>2 DEF Grant, CurrentEpoch
  <2>4. record'.expires_at = grant.expires_at /\ grant.expires_at \in Nat \cup {Never}
    BY <2>1, EffectAssumption DEF Grant
  <2>5. ASSUME NEW end \in ended'
        PROVE  /\ end[1] <= CurrentEpoch'
               /\ end[1] = CurrentEpoch' => Reached(record'.expires_at, end[2])
    <3>1. CASE end \in ended
      BY <1>1, <2>3, <3>1 DEF AuthorityInv, TypeOK
    <3>2. CASE end = <<CurrentEpoch, clock + 1>>
      BY <1>1, <2>3, <3>2
    <3>3. CASE grant.expires_at # Never /\ end = <<CurrentEpoch + 1, grant.expires_at>>
      BY <1>1, <2>3, <2>4, <3>3 DEF Reached
    <3> QED BY <2>1, <3>1, <3>2, <3>3 DEF Grant
  <2> QED BY <2>5 DEF AuthorityInv
<1>3. CASE Withdraw
  <2>1. record \in AuthorityRecords(Tokens) /\ record # NoRecord
    BY <1>1, <1>3 DEF Withdraw, TypeOK
  <2>2. record' # NoRecord
    BY <1>1, <1>3, WithdrawType, EffectAssumption
  <2>3. record'.epoch = record.epoch /\ record'.expires_at = record.expires_at
    BY <1>3, <2>1 DEF Withdraw, AuthorityRecords
  <2>4. CurrentEpoch' = CurrentEpoch /\ CurrentEpoch = record.epoch
    BY <2>1, <2>2, <2>3 DEF CurrentEpoch
  <2>5. /\ record'.status # "active" \/ record'.status = record.status
        /\ record'.status # "active" \/ record'.revoked_at = clock + 1
        /\ record'.revoked_at = record.revoked_at
             \/ (record.revoked_at = Never /\ record'.revoked_at = clock + 1)
    BY <1>3, <2>1 DEF Withdraw, AuthorityRecords
  <2>6. ASSUME NEW end \in ended'
        PROVE  /\ end[1] <= CurrentEpoch
               /\ end[1] = CurrentEpoch =>
                    \/ record'.status # "active"
                    \/ Reached(record'.expires_at, end[2])
                    \/ Reached(record'.revoked_at, end[2])
    <3>1. CASE end \in ended
      BY <1>1, <2>3, <2>5, <3>1 DEF AuthorityInv, Reached
    <3>2. CASE end = <<record.epoch, clock + 1>>
      <4>1. clock + 1 \in Nat /\ clock + 1 # Never
        BY <1>1, EffectAssumption
      <4> QED BY <1>1, <2>4, <2>5, <3>2, <4>1 DEF Reached
    <3> QED BY <1>3, <3>1, <3>2 DEF Withdraw
  <2> QED BY <2>4, <2>6 DEF AuthorityInv
<1>4. CASE UNCHANGED <<record, ended>>
  BY <1>1, <1>4 DEF AuthorityInv, CurrentEpoch
<1>5. CASE \E i \in Invocations : CallStep(i)
  BY <1>1, <1>4, <1>5, CallStepKeeps
<1> QED BY <1>2, <1>3, <1>4, <1>5 DEF Next, CallStep, Tick, HandlerEnds, vars

\* An invocation that had its projection is still within what it was given.
LEMMA InForceKept ==
  ASSUME TypeOK, NEW i \in Invocations, Authorized(i), Evaluated(i), InForce(i), Kept(i),
         clock \in Nat, clock' \in Nat, clock <= clock',
         CurrentEpoch \in Nat, CurrentEpoch' \in Nat, CurrentEpoch <= CurrentEpoch',
         \A end \in ended' : end \in ended \/ clock < end[2] \/ CurrentEpoch < end[1],
         ended' \subseteq Nat \X Nat
  PROVE  InForce(i)'
<1>1. /\ RequestOf(i)' = RequestOf(i)
      /\ call'[i].projection = call[i].projection
  BY DEF Kept, Authorized, RequestOf
<1>2. /\ RequestOf(i).epoch \in Nat
      /\ call[i].projection.request.evaluated_at \in Nat
  BY ActiveType, EffectAssumption
     DEF Authorized, EffectRequest, Projections, EvaluationRequests
<1>3. RequestOf(i).epoch <= CurrentEpoch /\ call[i].projection.request.evaluated_at <= clock
  BY DEF InForce, Evaluated
<1>4. RequestOf(i).epoch <= CurrentEpoch'
  BY <1>2, <1>3
<1>5. ASSUME NEW end \in ended', end[1] = RequestOf(i).epoch
      PROVE  call[i].projection.request.evaluated_at < end[2]
  <2>1. CASE end \in ended
    BY <1>5, <2>1 DEF InForce
  <2>2. CASE clock < end[2]
    BY <1>2, <1>3, <2>2
  <2>3. CASE CurrentEpoch < end[1]
    BY <1>2, <1>3, <1>5, <2>3
  <2> QED BY <2>1, <2>2, <2>3
<1> QED BY <1>1, <1>4, <1>5 DEF InForce

LEMMA EpochType ==
  TypeOK => CurrentEpoch \in Nat
BY DEF TypeOK, CurrentEpoch, AuthorityRecords

\* An evaluation that authorizes finds the record in force now.
LEMMA AuthorizeInForce ==
  ASSUME TypeOK, AuthorityInv, NEW request \in Requests,
         EvaluateDurableAuthority(record, EvaluationRequest(request)).decision = "authorized"
  PROVE  /\ request.epoch <= CurrentEpoch
         /\ \A end \in ended : end[1] = request.epoch => clock < end[2]
<1> DEFINE q == EvaluationRequest(request)
<1>1. /\ record # NoRecord /\ record.epoch = q.required_epoch
      /\ record.status \notin {"revoked", "expired"}
      /\ ~Reached(record.revoked_at, q.evaluated_at) /\ ~Reached(record.expires_at, q.evaluated_at)
  BY AuthorizedMeans
<1>2. q.required_epoch = request.epoch /\ q.evaluated_at = clock
  BY DEF EvaluationRequest
<1>3. /\ CurrentEpoch = request.epoch /\ CurrentEpoch \in Nat /\ clock \in Nat
      /\ record.status = "active"
      /\ record.revoked_at \in Nat \cup {Never} /\ record.expires_at \in Nat \cup {Never}
  BY <1>1, <1>2, EpochType DEF CurrentEpoch, TypeOK, AuthorityRecords
<1>4. ASSUME NEW end \in ended, end[1] = request.epoch
      PROVE  clock < end[2]
  <2>1. Reached(record.expires_at, end[2]) \/ Reached(record.revoked_at, end[2])
    BY <1>3, <1>4 DEF AuthorityInv
  <2>2. end[2] \in Nat
    BY DEF TypeOK
  <2> QED BY <1>1, <1>2, <1>3, <2>1, <2>2 DEF Reached
<1> QED BY <1>3, <1>4

LEMMA CallStepInv ==
  ASSUME IInv, TypeOK', NEW i \in Invocations, CallStep(i), NEW j \in Invocations
  PROVE  CallInv(j)'
<1>1. /\ TypeOK /\ AuthorityInv /\ CallInv(i) /\ CallInv(j)
      /\ call \in [Invocations -> Calls] /\ DOMAIN handler = Invocations
      /\ UNCHANGED <<clock, record, ended>> /\ reserved \subseteq reserved'
  BY CallStepKeeps DEF IInv, TypeOK
<1>2. CASE j # i
  <2>1. call'[j] = call[j] /\ handler'[j] = handler[j]
    BY <1>1, <1>2, CallStepKeeps
  <2> QED BY <1>1, <2>1 DEF CallInv, Active, Authorized, Launched, Evaluated, InForce,
                            CurrentEpoch, RequestOf
<1>3. ASSUME NEW request \in Requests, Authorize(i, request)
      PROVE  CallInv(i)'
  <2> DEFINE projection == CreateAuthorityProjection(record, EvaluationRequest(request))
  <2>1. /\ call'[i].phase = "evaluated" /\ call'[i].request = request
        /\ call'[i].projection = projection
        /\ handler'[i] = "none"
    BY <1>1, <1>3 DEF Authorize, CallInv
  <2>2. /\ projection.record = record /\ projection.request = EvaluationRequest(request)
        /\ projection.evaluation =
             EvaluateDurableAuthority(record, EvaluationRequest(request))
    BY DEF CreateAuthorityProjection
  <2> HIDE DEF projection
  <2>3. Evaluated(i)'
    BY <1>1, <2>1, <2>2 DEF Evaluated, EvaluationRequest, RequestOf, TypeOK
  <2>4. projection.evaluation.decision = "authorized" => InForce(i)'
    BY <1>1, <2>1, <2>2, AuthorizeInForce
       DEF InForce, RequestOf, EvaluationRequest, CurrentEpoch
  <2> QED BY <2>1, <2>3, <2>4 DEF CallInv, Active, Authorized, Launched
<1>4. ASSUME NEW request \in Requests, Reject(i, request)
      PROVE  CallInv(i)'
  <2>1. call'[i].phase = "rejected" /\ handler'[i] = "none"
    BY <1>1, <1>4 DEF Reject, CallInv
  <2> QED BY <2>1 DEF CallInv, Active, Authorized, Launched
<1>5. ASSUME Active(i)
      PROVE  /\ Kept(i) /\ Evaluated(i)' /\ Active(i)' /\ (Authorized(i)' <=> Authorized(i))
             /\ Authorized(i) => InForce(i)'
             /\ RequestOf(i)' = RequestOf(i)
  <2>1. Kept(i)
    BY <1>1, CallStepKeeps
  <2> QED BY <1>1, <1>5, <2>1
          DEF Kept, CallInv, Authorized, Evaluated, InForce, RequestOf, CurrentEpoch
<1>6. ASSUME Refuse(i) \/ Reconcile(i) \/ Settle(i) \/ GiveUp(i)
      PROVE  CallInv(i)'
  <2>1. /\ Active(i) /\ handler' = handler /\ reserved' = reserved
        /\ call[i].phase \in {"evaluated", "dispatched"}
    BY <1>6 DEF Refuse, Reconcile, Settle, GiveUp, Active
  <2>2. call'[i].phase = "answered"
    <3>1. PICK status \in Effect_Statuses, receipt \in Receipts \cup {NoReceipt},
                reconciled \in BOOLEAN : Answered(i, status, receipt, reconciled)
      BY <1>1, <1>6, AnsweredFrom
    <3> QED BY <1>1, <3>1 DEF Answered
  <2> QED BY <1>1, <1>5, <2>1, <2>2 DEF CallInv, Launched
<1>7. ASSUME Reserve(i)
      PROVE  CallInv(i)'
  <2>1. /\ Active(i) /\ Authorized(i) /\ handler' = handler
        /\ CreateReceipt(RequestOf(i)) \in reserved' /\ handler[i] = "none"
    BY <1>1, <1>7 DEF Reserve, Active, Authorized, CallInv
  <2>2. call'[i].phase = "reserved"
    BY <1>1, <1>7, <2>1 DEF Reserve, Calls, Active
  <2> QED BY <1>1, <1>5, <2>1, <2>2 DEF CallInv, Launched
<1>8. ASSUME Dispatch(i)
      PROVE  CallInv(i)'
  <2>1. Active(i) /\ Launched(i)
    BY <1>8 DEF Dispatch, Active, Launched
  <2>2. call'[i].phase = "dispatched"
    BY <1>1, <1>8, <2>1 DEF Dispatch, Calls, Active
  <2> QED BY <1>1, <1>5, <2>1, <2>2 DEF CallInv, Launched
<1>9. ASSUME Crash(i)
      PROVE  CallInv(i)'
  <2>1. Active(i) /\ handler' = handler
    BY <1>9 DEF Crash, Active
  <2>2. call'[i].phase = "crashed"
    BY <1>1, <1>9, <2>1 DEF Crash, Calls, Active
  <2> QED BY <1>1, <1>5, <2>1, <2>2 DEF CallInv, Launched
<1> QED BY <1>2, <1>3, <1>4, <1>6, <1>7, <1>8, <1>9 DEF CallStep

LEMMA CallInvStep ==
  ASSUME IInv, TypeOK', [Next]_vars
  PROVE  \A j \in Invocations : CallInv(j)'
<1>1. /\ TypeOK /\ \A j \in Invocations : CallInv(j)
      /\ clock \in Nat /\ clock' \in Nat /\ ended' \subseteq Nat \X Nat
  BY DEF IInv, TypeOK
<1>2. CASE (\E grant \in Grants : Grant(grant)) \/ Withdraw \/ Tick
  <2>1. /\ UNCHANGED <<call, handler, reserved, terminal>>
        /\ clock <= clock' /\ CurrentEpoch <= CurrentEpoch'
        /\ \A end \in ended' : end \in ended \/ clock < end[2] \/ CurrentEpoch < end[1]
    BY <1>1, <1>2, OwnerStepKeeps
  <2>2. CurrentEpoch \in Nat /\ CurrentEpoch' \in Nat
    BY EpochType, <1>1 DEF TypeOK, CurrentEpoch, AuthorityRecords
  <2>3. ASSUME NEW j \in Invocations
        PROVE  CallInv(j)'
    <3>1. Kept(j) /\ CallInv(j)
      BY <1>1, <2>1 DEF Kept, Active
    <3>2. Authorized(j) => InForce(j)'
      BY <1>1, <2>1, <2>2, <3>1, InForceKept DEF CallInv, Authorized
    <3>3. Active(j) => Evaluated(j)'
      <4>1. Active(j) => call[j].projection.request.evaluated_at \in Nat
        BY <1>1, ActiveType DEF Projections, EvaluationRequests
      <4> QED BY <1>1, <2>1, <3>1, <4>1 DEF CallInv, Evaluated, RequestOf
    <3> QED BY <2>1, <3>1, <3>2, <3>3 DEF CallInv, Active, Authorized, Launched, RequestOf
  <2> QED BY <2>3
<1>3. CASE \E i \in Invocations : CallStep(i)
  BY <1>3, CallStepInv
<1>4. CASE (\E i \in Invocations : HandlerEnds(i)) \/ UNCHANGED vars
  <2>1. /\ UNCHANGED <<clock, record, ended, call, reserved>>
        /\ \A j \in Invocations : (handler'[j] = "none") = (handler[j] = "none")
    BY <1>1, <1>4 DEF HandlerEnds, vars, TypeOK
  <2> QED BY <1>1, <2>1 DEF CallInv, Active, Authorized, Launched, Evaluated, InForce,
                            CurrentEpoch, RequestOf
<1> QED BY <1>2, <1>3, <1>4 DEF Next, CallStep

(***************************************************************************)
(* What any step keeps of the invocations that were launched.              *)
(***************************************************************************)
LEMMA StepKeeps ==
  ASSUME IInv, [Next]_vars, NEW j \in Invocations
  PROVE  /\ Kept(j)
         /\ handler[j] \in {"applied", "declined"} => handler'[j] = handler[j]
         /\ terminal \subseteq terminal' /\ reserved \subseteq reserved'
<1>1. TypeOK /\ CallInv(j) /\ DOMAIN handler = Invocations
  BY DEF IInv, TypeOK
<1>2. CASE (\E grant \in Grants : Grant(grant)) \/ Withdraw \/ Tick \/ UNCHANGED vars
  <2>1. UNCHANGED <<call, handler, terminal, reserved>>
    BY <1>1, <1>2, OwnerStepKeeps DEF vars
  <2> QED BY <2>1 DEF Kept, Active
<1>3. ASSUME NEW i \in Invocations, HandlerEnds(i)
      PROVE  /\ Kept(j)
             /\ handler[j] \in {"applied", "declined"} => handler'[j] = handler[j]
             /\ terminal \subseteq terminal' /\ reserved \subseteq reserved'
  BY <1>1, <1>3 DEF HandlerEnds, Kept, Active
<1>4. ASSUME NEW i \in Invocations, CallStep(i)
      PROVE  /\ Kept(j)
             /\ handler[j] \in {"applied", "declined"} => handler'[j] = handler[j]
             /\ terminal \subseteq terminal' /\ reserved \subseteq reserved'
  <2>1. CASE j # i
    BY <1>1, <1>4, <2>1, CallStepKeeps DEF Kept, Active
  <2>2. CASE j = i
    <3>1. Kept(j) /\ terminal \subseteq terminal' /\ reserved \subseteq reserved'
      BY <1>1, <1>4, <2>2, CallStepKeeps
    <3>2. handler[j] \in {"applied", "declined"} => handler'[j] = handler[j]
      BY <1>1, <1>4, <2>2, CallStepKeeps DEF Dispatch, CallInv
    <3> QED BY <3>1, <3>2
  <2> QED BY <2>1, <2>2
<1> QED BY <1>2, <1>3, <1>4 DEF Next, CallStep

\* An invocation is launched by its own reservation.
LEMMA LaunchedBefore ==
  ASSUME IInv, [Next]_vars, NEW j \in Invocations, Launched(j)'
  PROVE  Launched(j) \/ Reserve(j)
<1>1. TypeOK /\ CallInv(j) /\ DOMAIN handler = Invocations /\ call \in [Invocations -> Calls]
  BY DEF IInv, TypeOK
<1>2. CASE (\E grant \in Grants : Grant(grant)) \/ Withdraw \/ Tick \/ UNCHANGED vars
  <2>1. UNCHANGED <<call, handler>>
    BY <1>1, <1>2, OwnerStepKeeps DEF vars
  <2> QED BY <2>1 DEF Launched
<1>3. ASSUME NEW i \in Invocations, HandlerEnds(i)
      PROVE  Launched(j)
  BY <1>1, <1>3 DEF HandlerEnds, Launched
<1>4. ASSUME NEW i \in Invocations, CallStep(i)
      PROVE  Launched(j) \/ Reserve(j)
  <2>1. CASE j # i
    BY <1>1, <1>4, <2>1, CallStepKeeps DEF Launched
  <2>2. CASE j = i /\ Dispatch(i)
    BY <2>2 DEF Dispatch, Launched
  <2>3. CASE j = i /\ ~Dispatch(i) /\ ~Reserve(i)
    <3>1. handler'[i] = handler[i]
      BY <1>1, <1>4, <2>3, CallStepKeeps
    <3>2. CASE \E request \in Requests : Authorize(i, request) \/ Reject(i, request)
      <4>1. call'[i].phase \in {"evaluated", "rejected"}
        BY <1>1, <3>2 DEF Authorize, Reject
      <4> QED BY <2>3, <3>1, <4>1 DEF Launched
    <3>3. CASE Refuse(i) \/ Reconcile(i) \/ Settle(i) \/ GiveUp(i)
      <4>1. PICK status \in Effect_Statuses, receipt \in Receipts \cup {NoReceipt},
                  reconciled \in BOOLEAN : Answered(i, status, receipt, reconciled)
        BY <1>1, <3>3, AnsweredFrom
      <4>2. call'[i].phase = "answered"
        BY <1>1, <4>1 DEF Answered
      <4> QED BY <2>3, <3>1, <4>2 DEF Launched
    <3>4. CASE Crash(i)
      <4>1. call'[i].phase = "crashed"
        BY <1>1, <3>4 DEF Crash, Calls
      <4> QED BY <2>3, <3>1, <4>1 DEF Launched
    <3> QED BY <1>4, <2>3, <3>2, <3>3, <3>4 DEF CallStep
  <2> QED BY <2>1, <2>2, <2>3
<1> QED BY <1>2, <1>3, <1>4 DEF Next, CallStep

LEMMA ApartStep ==
  ASSUME IInv, [Next]_vars
  PROVE  Apart'
<1> SUFFICES ASSUME NEW i \in Invocations, NEW j \in Invocations,
                    Launched(i)', Launched(j)',
                    CreateReceipt(RequestOf(i)').ref = CreateReceipt(RequestOf(j)').ref
             PROVE  i = j
  BY DEF Apart
<1>1. \A k \in {i, j} : Launched(k) \/ Reserve(k)
  BY LaunchedBefore
<1>2. \A k \in {i, j} : CallInv(k)
  BY DEF IInv
<1>3. \A k \in {i, j} : Active(k)
  BY <1>1, <1>2 DEF CallInv, Authorized, Reserve, Active
<1>4. \A k \in {i, j} : Kept(k)
  BY StepKeeps
<1>5. RequestOf(i)' = RequestOf(i) /\ RequestOf(j)' = RequestOf(j)
  BY <1>3, <1>4 DEF Kept, RequestOf
<1>6. CreateReceipt(RequestOf(i)).ref = CreateReceipt(RequestOf(j)).ref
  BY <1>5
<1>7. CASE Launched(i) /\ Launched(j)
  BY <1>6, <1>7 DEF IInv, Apart
<1>8. CASE Reserve(i) /\ Launched(j)
  BY <1>2, <1>6, <1>8 DEF Reserve, CallInv
<1>9. CASE Launched(i) /\ Reserve(j)
  BY <1>2, <1>6, <1>9 DEF Reserve, CallInv
<1>10. CASE Reserve(i) /\ Reserve(j)
  <2>1. call \in [Invocations -> Calls]
    BY DEF IInv, TypeOK
  <2>2. call'[j].phase = "reserved" /\ call[j].phase = "evaluated"
    BY <1>10, <2>1 DEF Reserve, Calls
  <2>3. i # j => call'[j] = call[j]
    BY <1>10, <2>1 DEF Reserve
  <2> QED BY <2>2, <2>3
<1> QED BY <1>1, <1>7, <1>8, <1>9, <1>10

\* A launched invocation that ended stays a witness of what was stored.
LEMMA WitnessKept ==
  ASSUME IInv, [Next]_vars, NEW j \in Invocations, NEW status, Ended(j, status)
  PROVE  Ended(j, status)' /\ RequestOf(j)' = RequestOf(j)
<1>1. handler[j] \in {"applied", "declined"}
  BY DEF Ended
<1>2. Active(j) /\ Kept(j) /\ handler'[j] = handler[j]
  BY <1>1, StepKeeps DEF IInv, CallInv, Launched, Authorized
<1> QED BY <1>2 DEF Ended, Kept, RequestOf

LEMMA TerminalStep ==
  ASSUME IInv, [Next]_vars
  PROVE  TerminalInv'
<1>1. ASSUME NEW stored \in terminal
      PROVE  \E j \in Invocations :
               Ended(j, stored.status)' /\ CreateReceipt(RequestOf(j)') = stored.receipt
  <2>1. PICK j \in Invocations :
          Ended(j, stored.status) /\ CreateReceipt(RequestOf(j)) = stored.receipt
    BY DEF IInv, TerminalInv
  <2> QED BY <2>1, WitnessKept
<1>2. CASE terminal' = terminal
  BY <1>1, <1>2 DEF TerminalInv
<1>3. ASSUME NEW i \in Invocations, Settle(i)
      PROVE  TerminalInv'
  <2>1. PICK status, receipt :
          /\ status = IF handler[i] = "applied" THEN "SUCCEEDED" ELSE "FAILED"
          /\ receipt = CreateReceipt(RequestOf(i))
    OBVIOUS
  <2>2. Ended(i, status)
    BY <1>3, <2>1 DEF Settle, Ended
  <2>3. Ended(i, status)' /\ RequestOf(i)' = RequestOf(i)
    BY <2>2, WitnessKept
  <2>4. terminal' = terminal \cup {[receipt |-> receipt, status |-> status]}
    BY <1>3, <2>1 DEF Settle
  <2>5. CreateReceipt(RequestOf(i)') = receipt
    BY <2>1, <2>3
  <2> QED BY <1>1, <2>3, <2>4, <2>5 DEF TerminalInv
<1>4. terminal' = terminal \/ \E i \in Invocations : Settle(i)
  BY DEF Next, vars, Grant, Withdraw, Tick, Authorize, Reject, Refuse, Reserve, Reconcile,
         Dispatch, GiveUp, Crash, HandlerEnds
<1> QED BY <1>2, <1>3, <1>4

LEMMA ResultStep ==
  ASSUME IInv, [Next]_vars, NEW j \in Invocations
  PROVE  ResultInv(j)'
<1>1. /\ TypeOK /\ CallInv(j) /\ ResultInv(j) /\ DOMAIN handler = Invocations
      /\ call \in [Invocations -> Calls]
  BY DEF IInv, TypeOK
\* An answer that was given stays true.
<1>2. ASSUME call[j].phase = "answered", call'[j] = call[j],
             handler'[j] = handler[j] \/ handler[j] = "running"
      PROVE  ResultInv(j)'
  <2>1. PICK result : result = call[j].result
    OBVIOUS
  <2>2. ASSUME NEW i \in Invocations, Ended(i, result.status), RequestOf(i) = RequestOf(j)
        PROVE  \E k \in Invocations : Ended(k, result.status)' /\ RequestOf(k)' = RequestOf(j)'
    <3>1. Ended(i, result.status)' /\ RequestOf(i)' = RequestOf(i)
      BY <2>2, WitnessKept
    <3> QED BY <1>2, <2>2, <3>1 DEF RequestOf
  <2>3. result.status = "FAILED" => handler'[j] \in {"none", "declined"}
    BY <1>1, <1>2, <2>1 DEF ResultInv
  <2>4. result.status = "SUCCEEDED" \/ (result.status = "FAILED" /\ result.receipt \in Receipts)
          => \E k \in Invocations : Ended(k, result.status)' /\ RequestOf(k)' = RequestOf(j)'
    BY <1>1, <1>2, <2>1, <2>2 DEF ResultInv
  <2> QED BY <1>2, <2>1, <2>3, <2>4 DEF ResultInv, Ended
<1>3. CASE (\E grant \in Grants : Grant(grant)) \/ Withdraw \/ Tick \/ UNCHANGED vars
  <2>1. UNCHANGED <<call, handler>>
    BY <1>1, <1>3, OwnerStepKeeps DEF vars
  <2> QED BY <1>2, <2>1 DEF ResultInv
<1>4. ASSUME NEW i \in Invocations, HandlerEnds(i)
      PROVE  ResultInv(j)'
  <2>1. call' = call /\ (handler'[j] = handler[j] \/ handler[j] = "running")
    BY <1>1, <1>4 DEF HandlerEnds
  <2> QED BY <1>2, <2>1 DEF ResultInv
<1>5. ASSUME NEW i \in Invocations, i # j, CallStep(i)
      PROVE  ResultInv(j)'
  <2>1. call'[j] = call[j] /\ handler'[j] = handler[j]
    BY <1>1, <1>5, CallStepKeeps
  <2> QED BY <1>2, <2>1 DEF ResultInv
\* A new answer: what is stored of its receipt, or its own handler, is the witness.
<1>6. ASSUME NEW status, NEW receipt, NEW reconciled, Answered(j, status, receipt, reconciled),
             Active(j), handler' = handler,
             status = "SUCCEEDED" \/ (status = "FAILED" /\ receipt \in Receipts)
               => \E k \in Invocations : Ended(k, status) /\ RequestOf(k) = RequestOf(j),
             status = "FAILED" => handler[j] \in {"none", "declined"}
      PROVE  ResultInv(j)'
  <2>1. call'[j] = [phase |-> "answered", request |-> call[j].request,
                    projection |-> call[j].projection,
                    result |-> CreateResult(status, receipt, reconciled)]
    BY <1>1, <1>6 DEF Answered
  <2>2. /\ call'[j].result.status = status /\ call'[j].result.receipt = receipt
        /\ RequestOf(j)' = RequestOf(j)
    BY <2>1 DEF CreateResult, RequestOf
  <2>3. status = "SUCCEEDED" \/ (status = "FAILED" /\ receipt \in Receipts)
          => \E k \in Invocations : Ended(k, status)' /\ RequestOf(k)' = RequestOf(j)'
    BY <1>6, <2>2, WitnessKept
  <2> QED BY <1>6, <2>2, <2>3 DEF ResultInv, Ended
<1>7. CASE Refuse(j)
  BY <1>1, <1>6, <1>7, EffectAssumption DEF Refuse, Active, CallInv
<1>8. CASE Reconcile(j)
  <2>1. Active(j) /\ handler' = handler /\ handler[j] = "none"
    BY <1>1, <1>8 DEF Reconcile, Active, CallInv
  <2>2. ASSUME NEW stored \in terminal, stored.receipt = CreateReceipt(RequestOf(j)),
               Answered(j, stored.status, CreateReceipt(RequestOf(j)), TRUE)
        PROVE  ResultInv(j)'
    <3>1. PICK k \in Invocations :
            Ended(k, stored.status) /\ CreateReceipt(RequestOf(k)) = stored.receipt
      BY DEF IInv, TerminalInv
    <3>2. RequestOf(k) = RequestOf(j)
      BY <2>2, <3>1, ReceiptInjective
    <3> QED BY <1>6, <2>1, <2>2, <3>1, <3>2
  <2>3. ASSUME Answered(j, "OUTCOME_UNKNOWN", CreateReceipt(RequestOf(j)), FALSE)
        PROVE  ResultInv(j)'
    BY <1>6, <2>1, <2>3
  <2>4. ASSUME Answered(j, "FAILED", NoReceipt, FALSE)
        PROVE  ResultInv(j)'
    BY <1>6, <2>1, <2>4, EffectAssumption
  <2> QED BY <1>8, <2>2, <2>3, <2>4 DEF Reconcile
<1>9. CASE Settle(j)
  <2>1. PICK status, receipt :
          /\ status = IF handler[j] = "applied" THEN "SUCCEEDED" ELSE "FAILED"
          /\ receipt = CreateReceipt(RequestOf(j))
    OBVIOUS
  <2>2. Answered(j, status, receipt, FALSE) /\ Active(j) /\ handler' = handler
    BY <1>9, <2>1 DEF Settle, Active
  <2>3. Ended(j, status)
    BY <1>9, <2>1 DEF Settle, Ended
  <2>4. status = "FAILED" => handler[j] = "declined"
    BY <1>9, <2>1 DEF Settle
  <2> QED BY <1>6, <2>2, <2>3, <2>4
<1>10. CASE GiveUp(j)
  BY <1>6, <1>10 DEF GiveUp, Active
<1>11. CASE \/ \E request \in Requests : Authorize(j, request) \/ Reject(j, request)
            \/ Reserve(j) \/ Dispatch(j) \/ Crash(j)
  <2>1. call'[j].phase # "answered"
    BY <1>1, <1>11 DEF Authorize, Reject, Reserve, Dispatch, Crash, Calls
  <2> QED BY <2>1 DEF ResultInv
<1> QED BY <1>3, <1>4, <1>5, <1>7, <1>8, <1>9, <1>10, <1>11 DEF Next, CallStep

-----------------------------------------------------------------------------
(***************************************************************************)
(* IInv always holds: the induction the theorems below rest on.            *)
(***************************************************************************)
THEOREM Invariance == Spec => []IInv
<1>1. Init => IInv
  <2> SUFFICES ASSUME Init PROVE IInv
    OBVIOUS
  <2>1. TypeOK
    BY DEF Init, TypeOK, Calls, NewCall
  <2>2. \A i \in Invocations : call[i].phase = "idle" /\ handler[i] = "none"
    BY DEF Init, NewCall
  <2> QED BY <2>1, <2>2 DEF Init, IInv, AuthorityInv, CallInv, Active, Authorized, Launched,
                            Apart, TerminalInv, ResultInv
<1>2. IInv /\ [Next]_vars => IInv'
  <2> SUFFICES ASSUME IInv, [Next]_vars PROVE IInv'
    OBVIOUS
  <2>1. TypeOK'
    BY TypeStep DEF IInv
  <2>2. AuthorityInv' /\ Apart' /\ TerminalInv'
    BY AuthorityStep, ApartStep, TerminalStep
  <2>3. \A j \in Invocations : CallInv(j)' /\ ResultInv(j)'
    BY <2>1, CallInvStep, ResultStep
  <2> QED BY <2>1, <2>2, <2>3 DEF IInv
<1> QED BY <1>1, <1>2, PTL DEF Spec

(***************************************************************************)
(* Records, projections, results and receipts keep their types; a terminal *)
(* result is stored under a reserved receipt only.                         *)
(***************************************************************************)
THEOREM TypeCorrect == Spec => []TypeOK
<1>1. IInv => TypeOK
  BY DEF IInv
<1> QED BY <1>1, Invariance, PTL

(***************************************************************************)
(* One effect id of a task's attempt is applied once, whatever is retried, *)
(* crashes or runs at the same time.                                       *)
(***************************************************************************)
THEOREM NeverAppliedTwice == Spec => []AppliedOnce
<1>1. IInv => AppliedOnce
  <2> SUFFICES ASSUME IInv, NEW i \in Applied, NEW j \in Applied,
                      RequestOf(i).task = RequestOf(j).task,
                      RequestOf(i).attempt = RequestOf(j).attempt,
                      RequestOf(i).effect = RequestOf(j).effect
               PROVE  i = j
    BY DEF AppliedOnce
  <2>1. CreateReceipt(RequestOf(i)).ref = CreateReceipt(RequestOf(j)).ref
    BY ReceiptIdentity
  <2>2. i \in Invocations /\ j \in Invocations /\ Launched(i) /\ Launched(j)
    BY DEF Applied, Launched
  <2> QED BY <2>1, <2>2 DEF IInv, Apart
<1> QED BY <1>1, Invariance, PTL

(***************************************************************************)
(* Every applied effect was granted, exactly as it was requested, by a     *)
(* record in force when it was evaluated.                                  *)
(***************************************************************************)
THEOREM AlwaysUnderAuthority == Spec => []AppliedUnderAuthority
<1>1. IInv => AppliedUnderAuthority
  <2> SUFFICES ASSUME IInv, NEW i \in Applied
               PROVE  /\ Scope(RequestOf(i)) \in call[i].projection.record.scope
                      /\ \A end \in ended : end[1] = RequestOf(i).epoch =>
                           call[i].projection.request.evaluated_at < end[2]
    BY DEF AppliedUnderAuthority
  <2>1. i \in Invocations /\ Launched(i) /\ CallInv(i)
    BY DEF Applied, Launched, IInv
  <2>2. Authorized(i) /\ InForce(i) /\ Evaluated(i)
    BY <2>1 DEF CallInv, Authorized
  <2>3. call[i].projection.request.requested_scope \subseteq call[i].projection.record.scope
    BY <2>2, AuthorizedMeans DEF Authorized, Evaluated
  <2> QED BY <2>2, <2>3 DEF InForce, Evaluated
<1> QED BY <1>1, Invariance, PTL

(***************************************************************************)
(* A result says what happened to its request, whoever dispatched it.      *)
(***************************************************************************)
THEOREM ResultsAlwaysTrue == Spec => []ResultsAreTrue
<1>1. IInv => ResultsAreTrue
  <2> SUFFICES ASSUME IInv, NEW i \in Invocations, call[i].phase = "answered"
               PROVE  LET result == call[i].result
                          same == {j \in Invocations :
                                     handler[j] # "none" /\ RequestOf(j) = RequestOf(i)}
                      IN  /\ result.status = "SUCCEEDED" => \E j \in same : handler[j] = "applied"
                          /\ result.status = "FAILED" => handler[i] \in {"none", "declined"}
                          /\ result.status = "FAILED" /\ result.receipt \in Receipts =>
                               \A j \in same : handler[j] = "declined"
    BY DEF ResultsAreTrue
  <2>1. ResultInv(i)
    BY DEF IInv
  <2>2. ASSUME NEW j \in Invocations, NEW k \in Invocations, handler[j] # "none",
               handler[k] # "none", RequestOf(j) = RequestOf(k)
        PROVE  j = k
    BY <2>2 DEF IInv, Apart, Launched
  <2> QED BY <2>1, <2>2 DEF ResultInv, Ended
<1> QED BY <1>1, Invariance, PTL

-----------------------------------------------------------------------------
(***************************************************************************)
(* The refinement of EffectRegister. A reservation spends the identity, a  *)
(* handler's end concludes the request and an answer tells it; every other *)
(* step is a stutter: it changes no receipt, no end and no answer.         *)
(***************************************************************************)
DispatchedRuns == \A i \in Invocations : call[i].phase = "dispatched" => handler[i] # "none"

LEMMA DispatchedStep ==
  ASSUME IInv, DispatchedRuns, [Next]_vars
  PROVE  DispatchedRuns'
<1> SUFFICES ASSUME NEW j \in Invocations, call'[j].phase = "dispatched"
             PROVE  handler'[j] # "none"
  BY DEF DispatchedRuns
<1>1. /\ TypeOK /\ call \in [Invocations -> Calls] /\ DOMAIN handler = Invocations
      /\ call[j].phase = "dispatched" => handler[j] # "none"
  BY DEF IInv, TypeOK, DispatchedRuns
<1>2. CASE (\E grant \in Grants : Grant(grant)) \/ Withdraw \/ Tick \/ UNCHANGED vars
  <2>1. UNCHANGED <<call, handler>>
    BY <1>1, <1>2, OwnerStepKeeps DEF vars
  <2> QED BY <1>1, <2>1
<1>3. ASSUME NEW i \in Invocations, HandlerEnds(i)
      PROVE  handler'[j] # "none"
  BY <1>1, <1>3 DEF HandlerEnds
<1>4. ASSUME NEW i \in Invocations, i # j, CallStep(i)
      PROVE  handler'[j] # "none"
  BY <1>1, <1>4, CallStepKeeps
<1>5. CASE Dispatch(j)
  BY <1>1, <1>5 DEF Dispatch
<1>6. CASE Refuse(j) \/ Reconcile(j) \/ Settle(j) \/ GiveUp(j)
  <2>1. PICK status \in Effect_Statuses, receipt \in Receipts \cup {NoReceipt},
              reconciled \in BOOLEAN : Answered(j, status, receipt, reconciled)
    BY <1>1, <1>6, AnsweredFrom
  <2>2. call'[j].phase = "answered"
    BY <1>1, <2>1 DEF Answered
  <2> QED BY <2>2
<1>7. CASE \/ \E request \in Requests : Authorize(j, request) \/ Reject(j, request)
           \/ Reserve(j) \/ Crash(j)
  <2>1. call'[j].phase \in {"evaluated", "rejected", "reserved", "crashed"}
    BY <1>1, <1>7 DEF Authorize, Reject, Reserve, Crash, Calls
  <2> QED BY <2>1
<1> QED BY <1>2, <1>3, <1>4, <1>5, <1>6, <1>7 DEF Next, CallStep

THEOREM DispatchedAlwaysRuns == Spec => []DispatchedRuns
<1>1. Init => DispatchedRuns
  BY DEF Init, NewCall, DispatchedRuns
<1> QED BY <1>1, DispatchedStep, Invariance, PTL DEF Spec

\* A receipt's digest names the request that its identity was spent on.
LEMMA SpentWhenReserved ==
  ASSUME reserved \subseteq Receipts, NEW request
  PROVE  request \in Spent <=> CreateReceipt(request) \in reserved
<1>1. \A r : CreateReceipt(r).digest[2] = r
  BY DEF CreateReceipt
<1>2. \A receipt \in reserved : \E r \in Requests : receipt = CreateReceipt(r)
  BY DEF Receipts
<1> QED BY <1>1, <1>2 DEF Spent

LEMMA ConcludedIff ==
  ASSUME NEW end, NEW request
  PROVE  request \in Concluded(end) <=>
           \E j \in Invocations : handler[j] = end /\ RequestOf(j) = request
BY DEF Concluded

\* The ends of handlers are final; without a new one the concluded stay the same.
LEMMA EndKept ==
  ASSUME IInv, [Next]_vars, NEW j \in Invocations, handler[j] \in {"applied", "declined"}
  PROVE  handler'[j] = handler[j] /\ RequestOf(j)' = RequestOf(j)
<1>1. Active(j) /\ Kept(j) /\ handler'[j] = handler[j]
  BY StepKeeps DEF IInv, CallInv, Launched, Authorized
<1> QED BY <1>1 DEF Kept, RequestOf

LEMMA ConcludedKept ==
  ASSUME IInv, [Next]_vars, NEW end \in {"applied", "declined"},
         \A j \in Invocations : handler'[j] = end => handler[j] = end
  PROVE  Concluded(end)' = Concluded(end)
<1>1. ASSUME NEW j \in Invocations, handler[j] = end
      PROVE  handler'[j] = end /\ RequestOf(j)' = RequestOf(j)
  BY <1>1, EndKept
<1> QED BY <1>1 DEF Concluded

\* A launched call has spent its request's identity, and it alone.
LEMMA LaunchedSpent ==
  ASSUME IInv, NEW i \in Invocations, Launched(i)
  PROVE  RequestOf(i) \in Spent /\ RequestOf(i) \in Requests
<1>1. CreateReceipt(RequestOf(i)) \in reserved /\ Active(i) /\ TypeOK
  BY DEF IInv, CallInv, Authorized
<1>2. RequestOf(i) \in Requests
  BY <1>1, ActiveType
<1> QED BY <1>1, <1>2, SpentWhenReserved DEF TypeOK

LEMMA ToldIff ==
  ASSUME NEW said
  PROVE  said \in Told <=>
           \E j \in Invocations : /\ call[j].phase = "answered"
                                  /\ said = <<j, RequestOf(j), Answer(call[j].result)>>
BY DEF Told

LEMMA ToldKept ==
  ASSUME \A j \in Invocations : call'[j] = call[j]
           \/ (call[j].phase # "answered" /\ call'[j].phase # "answered")
  PROVE  Told' = Told
<1>1. \A j \in Invocations : call[j].phase = "answered" <=> call'[j].phase = "answered"
  OBVIOUS
<1>2. ASSUME NEW j \in Invocations, call[j].phase = "answered"
      PROVE  call'[j] = call[j]
  BY <1>2
<1>3. Told' = {<<i, RequestOf(i)', Answer(call'[i].result)>> :
                 i \in {j \in Invocations : call'[j].phase = "answered"}}
  BY DEF Told, Answer
<1>4. \A j \in Invocations : call[j].phase = "answered" => RequestOf(j)' = RequestOf(j)
  BY <1>2 DEF RequestOf
<1> QED BY <1>1, <1>2, <1>3, <1>4 DEF Told

\* A call that is answered, truly, is one Tell.
LEMMA AnswerTells ==
  ASSUME IInv, [Next]_vars, NEW i \in Invocations, Active(i), call[i].phase # "answered",
         NEW status \in Effect_Statuses, NEW receipt \in Receipts \cup {NoReceipt},
         NEW reconciled \in BOOLEAN, Answered(i, status, receipt, reconciled),
         UNCHANGED <<handler, reserved>>,
         Register!IsTrue(RequestOf(i), Answer(CreateResult(status, receipt, reconciled)))
  PROVE  Register!Next
<1> DEFINE result == CreateResult(status, receipt, reconciled)
           answer == Answer(result)
           said == <<i, RequestOf(i), answer>>
<1>1. TypeOK /\ call \in [Invocations -> Calls]
  BY DEF IInv, TypeOK
<1>2. /\ call'[i].phase = "answered" /\ call'[i].result = result
      /\ RequestOf(i)' = RequestOf(i)
      /\ \A j \in Invocations \ {i} : call'[j] = call[j] /\ RequestOf(j)' = RequestOf(j)
  BY <1>1 DEF Answered, RequestOf
<1>3. RequestOf(i) \in Requests
  BY <1>1, ActiveType
<1>4. answer \in Register!Answers
  BY DEF Answer, Register!Answers
<1>5. Register!IsTrue(RequestOf(i), answer)
  OBVIOUS
<1> HIDE DEF result
<1>6. Told' = Told \cup {said}
  <2>1. Answer(call[i].result)' = answer
    BY <1>2 DEF Answer
  <2>2. \A j \in Invocations \ {i} : Answer(call[j].result)' = Answer(call[j].result)
    BY <1>2 DEF Answer
  <2> HIDE DEF answer
  <2>3. ASSUME NEW x
        PROVE  x \in Told' <=> x \in Told \/ x = said
    <3>1. x \in Told' <=>
            \E j \in Invocations : /\ call'[j].phase = "answered"
                                   /\ x = <<j, RequestOf(j)', Answer(call[j].result)'>>
      BY DEF Told
    <3>2. x \in Told <=>
            \E j \in Invocations : /\ call[j].phase = "answered"
                                   /\ x = <<j, RequestOf(j), Answer(call[j].result)>>
      BY ToldIff
    <3> QED BY <1>2, <2>1, <2>2, <3>1, <3>2
  <2> QED BY <2>3
<1>7. \A x \in Told : x[1] # i
  BY ToldIff
<1>8. Concluded("applied")' = Concluded("applied") /\ Concluded("declined")' = Concluded("declined")
  BY ConcludedKept
<1>9. Spent' = Spent
  BY DEF Spent
<1>10. Register!Tell(i)
  <2> HIDE DEF answer
  <2> QED BY <1>3, <1>4, <1>5, <1>6, <1>7, <1>8, <1>9 DEF Register!Tell
<1> QED BY <1>10 DEF Register!Next

LEMMA RefuseTells ==
  ASSUME IInv, [Next]_vars, NEW i \in Invocations, Refuse(i)
  PROVE  Register!Next
<1>1. Answer(CreateResult("FAILED", NoReceipt, FALSE)) = "nothing_done"
  BY EffectAssumption DEF Answer, CreateResult
<1>2. Register!IsTrue(RequestOf(i), Answer(CreateResult("FAILED", NoReceipt, FALSE)))
  BY <1>1 DEF Register!IsTrue
<1> QED BY <1>2, AnswerTells DEF Refuse, Active, Effect_Statuses

\* A result that is stored of a request is true of it, and so is a handler's.
LEMMA EndIsTrue ==
  ASSUME NEW i, NEW k \in Invocations, NEW status \in {"SUCCEEDED", "FAILED"},
         Ended(k, status), RequestOf(k) = RequestOf(i),
         NEW receipt \in Receipts, NEW reconciled
  PROVE  Register!IsTrue(RequestOf(i), Answer(CreateResult(status, receipt, reconciled)))
<1>1. CASE status = "SUCCEEDED"
  <2>1. RequestOf(i) \in Concluded("applied")
    BY <1>1, ConcludedIff DEF Ended
  <2>2. Answer(CreateResult(status, receipt, reconciled)) = "applied"
    BY <1>1 DEF Answer, CreateResult
  <2> QED BY <2>1, <2>2 DEF Register!IsTrue
<1>2. CASE status = "FAILED"
  <2>1. RequestOf(i) \in Concluded("declined")
    BY <1>2, ConcludedIff DEF Ended
  <2>2. Answer(CreateResult(status, receipt, reconciled)) = "declined"
    BY <1>2 DEF Answer, CreateResult
  <2> QED BY <2>1, <2>2 DEF Register!IsTrue
<1> QED BY <1>1, <1>2

LEMMA UnknownIsTrue ==
  ASSUME NEW request \in Spent, NEW receipt
  PROVE  Register!IsTrue(request, Answer(CreateResult("OUTCOME_UNKNOWN", receipt, FALSE)))
<1>1. Answer(CreateResult("OUTCOME_UNKNOWN", receipt, FALSE)) = "unknown"
  BY DEF Answer, CreateResult
<1> QED BY <1>1 DEF Register!IsTrue

LEMMA ReconcileTells ==
  ASSUME IInv, [Next]_vars, NEW i \in Invocations, Reconcile(i)
  PROVE  Register!Next
<1>1. PICK receipt : receipt = CreateReceipt(RequestOf(i))
  OBVIOUS
<1>2. /\ TypeOK /\ Active(i) /\ call[i].phase # "answered"
      /\ UNCHANGED <<handler, reserved>>
  BY DEF IInv, Reconcile, Active
<1>3. receipt \in Receipts
  BY <1>1, <1>2, ReceiptType
<1>4. ASSUME NEW stored \in terminal, stored.receipt = receipt,
             Answered(i, stored.status, receipt, TRUE)
      PROVE  Register!Next
  <2>1. PICK k \in Invocations :
          Ended(k, stored.status) /\ CreateReceipt(RequestOf(k)) = stored.receipt
    BY DEF IInv, TerminalInv
  <2>2. RequestOf(k) = RequestOf(i)
    BY <1>1, <1>4, <2>1, ReceiptInjective
  <2>3. stored.status \in {"SUCCEEDED", "FAILED"}
    BY <1>2 DEF TypeOK
  <2>4. Register!IsTrue(RequestOf(i), Answer(CreateResult(stored.status, receipt, TRUE)))
    BY <1>3, <2>1, <2>2, <2>3, EndIsTrue
  <2> QED BY <1>2, <1>3, <1>4, <2>3, <2>4, AnswerTells DEF Effect_Statuses
<1>5. ASSUME receipt \in reserved, Answered(i, "OUTCOME_UNKNOWN", receipt, FALSE)
      PROVE  Register!Next
  <2>1. RequestOf(i) \in Spent
    BY <1>1, <1>2, <1>5, SpentWhenReserved DEF TypeOK
  <2> QED BY <1>2, <1>3, <1>5, <2>1, UnknownIsTrue, AnswerTells DEF Effect_Statuses
<1>6. ASSUME Answered(i, "FAILED", NoReceipt, FALSE)
      PROVE  Register!Next
  <2>1. Answer(CreateResult("FAILED", NoReceipt, FALSE)) = "nothing_done"
    BY EffectAssumption DEF Answer, CreateResult
  <2>2. Register!IsTrue(RequestOf(i), Answer(CreateResult("FAILED", NoReceipt, FALSE)))
    BY <2>1 DEF Register!IsTrue
  <2> QED BY <1>2, <1>6, <2>2, AnswerTells DEF Effect_Statuses
<1> QED BY <1>1, <1>4, <1>5, <1>6 DEF Reconcile

LEMMA SettleTells ==
  ASSUME IInv, [Next]_vars, NEW i \in Invocations, Settle(i)
  PROVE  Register!Next
<1>1. PICK status, receipt :
        /\ status = IF handler[i] = "applied" THEN "SUCCEEDED" ELSE "FAILED"
        /\ receipt = CreateReceipt(RequestOf(i))
  OBVIOUS
<1>2. /\ Active(i) /\ call[i].phase # "answered" /\ UNCHANGED <<handler, reserved>>
      /\ Answered(i, status, receipt, FALSE)
  BY <1>1 DEF Settle, Active
<1>3. status \in {"SUCCEEDED", "FAILED"} /\ Ended(i, status)
  BY <1>1 DEF Settle, Ended
<1>4. receipt \in Receipts
  BY <1>1, <1>2, ReceiptType DEF IInv
<1>5. Register!IsTrue(RequestOf(i), Answer(CreateResult(status, receipt, FALSE)))
  BY <1>3, <1>4, EndIsTrue
<1> QED BY <1>2, <1>3, <1>4, <1>5, AnswerTells DEF Effect_Statuses

LEMMA GiveUpTells ==
  ASSUME IInv, DispatchedRuns, [Next]_vars, NEW i \in Invocations, GiveUp(i)
  PROVE  Register!Next
<1>1. PICK receipt : receipt = CreateReceipt(RequestOf(i))
  OBVIOUS
<1>2. /\ Active(i) /\ call[i].phase # "answered" /\ UNCHANGED <<handler, reserved>>
      /\ Answered(i, "OUTCOME_UNKNOWN", receipt, FALSE)
  BY <1>1 DEF GiveUp, Active
<1>3. RequestOf(i) \in Spent
  BY LaunchedSpent DEF GiveUp, DispatchedRuns, Launched
<1>4. receipt \in Receipts
  BY <1>1, <1>2, ReceiptType DEF IInv
<1> QED BY <1>2, <1>3, <1>4, UnknownIsTrue, AnswerTells DEF Effect_Statuses

\* The identity that a reservation spends was not spent before.
LEMMA ReserveSpends ==
  ASSUME IInv, [Next]_vars, NEW i \in Invocations, Reserve(i)
  PROVE  Register!Next
<1>1. PICK request, receipt : request = RequestOf(i) /\ receipt = CreateReceipt(request)
  OBVIOUS
<1>2. /\ TypeOK /\ Active(i) /\ call \in [Invocations -> Calls]
      /\ UNCHANGED handler
      /\ reserved' = reserved \cup {receipt}
      /\ \A other \in reserved : other.ref # receipt.ref
      /\ call' = [call EXCEPT ![i].phase = "reserved"]
  BY <1>1 DEF IInv, TypeOK, Reserve, Active
<1>3. request \in Requests /\ receipt \in Receipts
  BY <1>1, <1>2, ActiveType, ReceiptType
<1>4. /\ reserved \subseteq Receipts /\ reserved' \subseteq Receipts
  BY <1>2, <1>3 DEF TypeOK
<1>5. ASSUME NEW r
      PROVE  /\ r \in Spent <=> CreateReceipt(r) \in reserved
             /\ r \in Spent' <=> CreateReceipt(r) \in reserved'
  <2>1. \A s : CreateReceipt(s).digest[2] = s
    BY DEF CreateReceipt
  <2>2. \A x \in reserved' : \E s \in Requests : x = CreateReceipt(s)
    BY <1>4 DEF Receipts
  <2>3. r \in Spent' <=> CreateReceipt(r) \in reserved'
    BY <2>1, <2>2 DEF Spent
  <2> QED BY <1>4, <2>3, SpentWhenReserved
<1>6. Spent' = Spent \cup {request}
  BY <1>1, <1>2, <1>5, ReceiptInjective
<1>7. \A other \in Spent : Register!IdentityOf(other) # Register!IdentityOf(request)
  <2> SUFFICES ASSUME NEW other \in Spent,
                      Register!IdentityOf(other) = Register!IdentityOf(request)
               PROVE  FALSE
    OBVIOUS
  <2>1. CreateReceipt(other).ref = receipt.ref
    BY <1>1, ReceiptIdentity DEF Register!IdentityOf
  <2> QED BY <1>2, <1>5, <2>1
<1>8. request \notin Spent
  BY <1>7
<1>9. Concluded("applied")' = Concluded("applied") /\ Concluded("declined")' = Concluded("declined")
  BY <1>2, ConcludedKept
<1>10. Told' = Told
  <2>1. call[i].phase = "evaluated"
    BY DEF Reserve
  <2>2. call'[i].phase = "reserved"
    BY <1>2, <2>1 DEF Calls
  <2>3. \A j \in Invocations \ {i} : call'[j] = call[j]
    BY <1>2
  <2> QED BY <2>1, <2>2, <2>3, ToldKept
<1>11. Register!Spend(request)
  BY <1>6, <1>7, <1>9, <1>10 DEF Register!Spend
<1> QED BY <1>3, <1>8, <1>11 DEF Register!Next

\* A handler ends for a request that no other handler ended for.
LEMMA HandlerConcludes ==
  ASSUME IInv, [Next]_vars, NEW i \in Invocations, HandlerEnds(i)
  PROVE  Register!Next
<1>1. PICK outcome \in {"applied", "declined"} : handler' = [handler EXCEPT ![i] = outcome]
  BY DEF HandlerEnds
<1>2. /\ TypeOK /\ DOMAIN handler = Invocations /\ handler[i] = "running"
      /\ UNCHANGED <<call, reserved>>
  BY DEF IInv, TypeOK, HandlerEnds
<1>3. PICK request : request = RequestOf(i)
  OBVIOUS
<1>4. Launched(i)
  BY <1>2 DEF Launched
<1>5. request \in Spent
  BY <1>3, <1>4, LaunchedSpent
<1>6. \A end \in {"applied", "declined"} : request \notin Concluded(end)
  <2> SUFFICES ASSUME NEW end \in {"applied", "declined"}, request \in Concluded(end)
               PROVE  FALSE
    OBVIOUS
  <2>1. PICK j \in Invocations : handler[j] = end /\ RequestOf(j) = request
    BY ConcludedIff
  <2>2. Launched(j)
    BY <2>1 DEF Launched
  <2>3. CreateReceipt(RequestOf(i)).ref = CreateReceipt(RequestOf(j)).ref
    BY <1>3, <2>1
  <2>4. i = j
    BY <1>4, <2>2, <2>3 DEF IInv, Apart
  <2> QED BY <1>2, <2>1, <2>4
<1>7. \A j \in Invocations : RequestOf(j)' = RequestOf(j)
  BY <1>2 DEF RequestOf
<1>8. Concluded(outcome)' = Concluded(outcome) \cup {request}
  <2>1. ASSUME NEW x
        PROVE  x \in Concluded(outcome)' <=> x \in Concluded(outcome) \/ x = request
    <3>1. x \in Concluded(outcome)' <=>
            \E j \in Invocations : handler'[j] = outcome /\ RequestOf(j)' = x
      BY DEF Concluded
    <3>2. x \in Concluded(outcome) <=>
            \E j \in Invocations : handler[j] = outcome /\ RequestOf(j) = x
      BY ConcludedIff
    <3> QED BY <1>1, <1>2, <1>3, <1>7, <3>1, <3>2
  <2> QED BY <2>1
<1>9. \A end \in {"applied", "declined"} \ {outcome} : Concluded(end)' = Concluded(end)
  BY <1>1, <1>2, ConcludedKept
<1>10. Spent' = Spent /\ Told' = Told
  BY <1>2, ToldKept DEF Spent
<1>11. Register!Conclude(request)
  <2>1. CASE outcome = "applied"
    BY <1>8, <1>9, <1>10, <2>1 DEF Register!Conclude
  <2>2. CASE outcome = "declined"
    BY <1>8, <1>9, <1>10, <2>2 DEF Register!Conclude
  <2> QED BY <2>1, <2>2
<1> QED BY <1>5, <1>6, <1>11 DEF Register!Next

LEMMA QuietStep ==
  ASSUME IInv, [Next]_vars, reserved' = reserved,
         \A j \in Invocations : handler'[j] = handler[j] \/ handler'[j] = "running",
         \A j \in Invocations : call'[j] = call[j]
           \/ (call[j].phase # "answered" /\ call'[j].phase # "answered")
  PROVE  UNCHANGED Register!vars
<1>1. Concluded("applied")' = Concluded("applied") /\ Concluded("declined")' = Concluded("declined")
  BY ConcludedKept
<1>2. Told' = Told /\ Spent' = Spent
  BY ToldKept DEF Spent
<1> QED BY <1>1, <1>2 DEF Register!vars

LEMMA StepRefines ==
  ASSUME IInv, DispatchedRuns, [Next]_vars
  PROVE  [Register!Next]_(Register!vars)
<1>1. TypeOK /\ call \in [Invocations -> Calls] /\ DOMAIN handler = Invocations
  BY DEF IInv, TypeOK
<1>2. CASE (\E grant \in Grants : Grant(grant)) \/ Withdraw \/ Tick \/ UNCHANGED vars
  <2>1. UNCHANGED <<call, handler, reserved>>
    BY <1>1, <1>2, OwnerStepKeeps DEF vars
  <2> QED BY <2>1, QuietStep
<1>3. ASSUME NEW i \in Invocations,
             \/ \E request \in Requests : Authorize(i, request) \/ Reject(i, request)
             \/ Dispatch(i) \/ Crash(i)
      PROVE  UNCHANGED Register!vars
  <2>1. CallStep(i) /\ reserved' = reserved /\ call[i].phase # "answered"
    BY <1>3 DEF CallStep, Authorize, Reject, Dispatch, Crash
  <2>2. call'[i].phase \in {"evaluated", "rejected", "dispatched", "crashed"}
    BY <1>1, <1>3 DEF Authorize, Reject, Dispatch, Crash, Calls
  <2>3. /\ \A j \in Invocations \ {i} : call'[j] = call[j] /\ handler'[j] = handler[j]
        /\ handler'[i] = handler[i] \/ handler'[i] = "running"
    BY <1>1, <2>1, CallStepKeeps
  <2> QED BY <2>1, <2>2, <2>3, QuietStep
<1>4. ASSUME NEW i \in Invocations, Refuse(i) \/ Reconcile(i) \/ Settle(i) \/ GiveUp(i)
      PROVE  Register!Next
  BY <1>4, RefuseTells, ReconcileTells, SettleTells, GiveUpTells
<1>5. ASSUME NEW i \in Invocations, Reserve(i) \/ HandlerEnds(i)
      PROVE  Register!Next
  BY <1>5, ReserveSpends, HandlerConcludes
<1> QED BY <1>2, <1>3, <1>4, <1>5 DEF Next

(***************************************************************************)
(* Whatever crashes, gives up, is retried or runs at the same time, the    *)
(* Host spends an identity once, on one request, a request is concluded    *)
(* once, and each answer is true from then on.                             *)
(***************************************************************************)
THEOREM RefinesRegister == Spec => EffectsAreExactlyOnce
<1>1. Init => Register!Init
  <2> SUFFICES ASSUME Init PROVE Register!Init
    OBVIOUS
  <2>1. \A i \in Invocations : call[i].phase = "idle" /\ handler[i] = "none"
    BY DEF Init, NewCall
  <2> QED BY <2>1 DEF Init, Register!Init, Spent, Concluded, Told
<1>2. IInv /\ DispatchedRuns /\ [Next]_vars => [Register!Next]_(Register!vars)
  BY StepRefines
<1> QED BY <1>1, <1>2, Invariance, DispatchedAlwaysRuns, PTL
        DEF Spec, EffectsAreExactlyOnce, Register!Spec
=============================================================================
