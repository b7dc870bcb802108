--------------------------- MODULE EffectRegister ---------------------------
(***************************************************************************)
(* What authorized host effects promise their callers. The identity of an  *)
(* effect - a task's attempt and the effect's id - is spent on one request *)
(* and once; the request is applied or known not to be, for good; and a    *)
(* caller is told what has become of its request, that it is not known, or *)
(* that nothing was done for the call.                                     *)
(***************************************************************************)
CONSTANTS Callers, Requests

VARIABLES
  spent,      \* the requests that an identity was spent on
  applied,    \* those that were applied
  declined,   \* those that were not and never will be
  told        \* <<caller, request, answer>> for each answer

vars == <<spent, applied, declined, told>>

Answers == {"applied", "declined", "unknown", "nothing_done"}
IdentityOf(request) == <<request.task, request.attempt, request.effect>>

Init == spent = {} /\ applied = {} /\ declined = {} /\ told = {}

Spend(request) ==
  /\ \A other \in spent : IdentityOf(other) # IdentityOf(request)
  /\ spent' = spent \cup {request}
  /\ UNCHANGED <<applied, declined, told>>

Conclude(request) ==
  /\ \/ applied' = applied \cup {request} /\ UNCHANGED declined
     \/ declined' = declined \cup {request} /\ UNCHANGED applied
  /\ UNCHANGED <<spent, told>>

IsTrue(request, answer) ==
  /\ answer = "applied" => request \in applied
  /\ answer = "declined" => request \in declined
  /\ answer = "unknown" => request \in spent

Tell(caller) ==
  /\ \A said \in told : said[1] # caller
  /\ \E request \in Requests, answer \in Answers :
       IsTrue(request, answer) /\ told' = told \cup {<<caller, request, answer>>}
  /\ UNCHANGED <<spent, applied, declined>>

Next ==
  \/ \E request \in Requests \ spent : Spend(request)
  \/ \E request \in spent \ (applied \cup declined) : Conclude(request)
  \/ \E caller \in Callers : Tell(caller)

Spec == Init /\ [][Next]_vars
=============================================================================
