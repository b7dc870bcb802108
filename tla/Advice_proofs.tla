--------------------------- MODULE Advice_proofs ----------------------------
(***************************************************************************)
(* Proofs about the two policies that advise a Supervisor before and       *)
(* between runs: ContextPlan, for any catalogs, classes, requests and      *)
(* workers, and ContractWatch, for any domains and number of changes.      *)
(***************************************************************************)
EXTENDS ContextPlan, ContractWatch, SequenceTheorems, FiniteSetTheorems, TLAPS

-----------------------------------------------------------------------------
(***************************************************************************)
(* Seams. Tests that passed are of the seams as they are, because a change *)
(* and a patch take them back; and as long as no version has changed, a    *)
(* seam that is broken is seen to be, or not known.                        *)
(***************************************************************************)
SeamStates == Watched_States \cup {"unknown", "not_applicable", Unobserved}

SeamInv ==
  /\ seam \in [Domains -> Watched_States]
  /\ domains \in [Domains -> SeamStates]
  /\ tests = "passed" => \A domain \in Domains : seam[domain] # "breaking"
  /\ ~native_version_changed =>
       \A domain \in Domains : seam[domain] = "breaking" =>
         domains[domain] \in {"breaking", "unknown", Unobserved}
  /\ AcceptedIsUnbroken

\* What is asked for says what was observed.
LEMMA AcceptingMeans ==
  ASSUME AssessContractWatch \in {"pass", "observe_only"}
  PROVE  /\ \A domain \in Required : NormalizedDomains[domain] \notin {"breaking", "unknown"}
         /\ tests = "passed" \/ ~native_version_changed
BY DEF AssessContractWatch, Observed, UnknownRequired, Required

LEMMA AcceptKeepsUnbroken ==
  ASSUME SeamInv, Accept
  PROVE  \A domain \in Required : seam[domain] # "breaking"
<1>1. /\ \A domain \in Required : NormalizedDomains[domain] \notin {"breaking", "unknown"}
      /\ tests = "passed" \/ ~native_version_changed
  BY AcceptingMeans DEF Accept
<1>2. \A domain \in Required : domain \in Domains
  BY DEF Required
<1>3. CASE tests = "passed"
  BY <1>2, <1>3 DEF SeamInv
<1>4. CASE ~native_version_changed
  <2>1. ASSUME NEW domain \in Required
        PROVE  domains[domain] \notin {"breaking", "unknown", Unobserved}
    BY <1>1, <1>2 DEF NormalizedDomains
  <2>2. QED
    BY <2>1, <1>2, <1>4 DEF SeamInv
<1>5. QED
  BY <1>1, <1>3, <1>4

LEMMA DriftKeepsSeamInv ==
  ASSUME SeamInv, NEW domain \in Domains, NEW state \in Watched_States, Drift(domain, state)
  PROVE  SeamInv'
<1>1. /\ seam' = [seam EXCEPT ![domain] = state]
      /\ tests' = "not_run" /\ accepted' = FALSE
  BY DEF Drift
<1>2. \/ native_version_changed' = TRUE /\ domains' = domains
      \/ /\ native_version_changed' = native_version_changed
         /\ \E unknown \in {"unknown", Unobserved} :
              domains' = [domains EXCEPT ![domain] = unknown]
  BY DEF Drift
<1>3. domains' \in [Domains -> SeamStates] /\ seam' \in [Domains -> Watched_States]
  BY <1>1, <1>2 DEF SeamInv, SeamStates
<1>4. QED
  BY <1>1, <1>2, <1>3 DEF SeamInv, AcceptedIsUnbroken

LEMMA ProbeKeepsSeamInv == SeamInv /\ Probe => SeamInv'
<1> SUFFICES ASSUME SeamInv, Probe
             PROVE  SeamInv'
  OBVIOUS
<1>1. /\ UNCHANGED <<watched, tests, native_version_changed, seam, accepted>>
      /\ domains' = [domain \in Domains |->
                       IF UnknownRequired = {} \/ domain \in UnknownRequired
                       THEN seam[domain] ELSE domains[domain]]
  BY DEF Probe
<1>2. \A domain \in Domains : domains'[domain] \in {seam[domain], domains[domain]}
  BY <1>1
<1>3. domains' \in [Domains -> SeamStates]
  BY <1>1, <1>2 DEF SeamInv, SeamStates
<1>4. QED
  BY <1>1, <1>2, <1>3 DEF SeamInv, AcceptedIsUnbroken, Required

LEMMA PatchKeepsSeamInv == SeamInv /\ Patch => SeamInv'
<1> SUFFICES ASSUME SeamInv, Patch
             PROVE  SeamInv'
  OBVIOUS
<1> DEFINE repaired(state) == [domain \in Domains |->
                                 IF domain \in Observed("breaking") THEN "stable"
                                 ELSE state[domain]]
<1>1. /\ UNCHANGED <<watched, native_version_changed, accepted>>
      /\ tests' = "not_run" /\ seam' = repaired(seam) /\ domains' = repaired(domains)
  BY DEF Patch
<1>2. \A domain \in Domains :
        \/ seam'[domain] = "stable" /\ domains'[domain] = "stable"
        \/ seam'[domain] = seam[domain] /\ domains'[domain] = domains[domain]
  BY <1>1
<1>3. seam' \in [Domains -> Watched_States] /\ domains' \in [Domains -> SeamStates]
  BY <1>1 DEF SeamInv, SeamStates, Watched_States
<1>4. QED
  BY <1>1, <1>2, <1>3 DEF SeamInv, AcceptedIsUnbroken, Required

LEMMA InitSeamInv == WatchInit => SeamInv
<1> SUFFICES ASSUME WatchInit
             PROVE  SeamInv
  OBVIOUS
<1>1. \A domain \in Domains : seam[domain] = "stable"
  BY DEF WatchInit
<1>2. seam \in [Domains -> Watched_States] /\ domains \in [Domains -> SeamStates]
  BY DEF WatchInit, Watched_States, SeamStates
<1>3. QED
  BY <1>1, <1>2 DEF SeamInv, AcceptedIsUnbroken, Required

LEMMA WatchKeepsSeamInv == SeamInv /\ [WatchNext]_watch_vars => SeamInv'
<1> SUFFICES ASSUME SeamInv, [WatchNext]_watch_vars
             PROVE  SeamInv'
  OBVIOUS
<1>1. CASE Accept
  <2>1. UNCHANGED <<watched, domains, tests, seam>> /\ native_version_changed' = FALSE
    BY <1>1 DEF Accept
  <2>2. \A domain \in Required : seam[domain] # "breaking"
    BY <1>1, AcceptKeepsUnbroken
  <2>3. CASE tests = "passed"
    BY <2>1, <2>2, <2>3 DEF SeamInv, AcceptedIsUnbroken, Required
  <2>4. CASE ~native_version_changed
    BY <2>1, <2>2, <2>4 DEF SeamInv, AcceptedIsUnbroken, Required
  <2>5. QED
    BY <2>3, <2>4, <1>1, AcceptingMeans DEF Accept
<1>2. CASE RunTests
  <2>1. /\ UNCHANGED <<watched, domains, native_version_changed, seam, accepted>>
        /\ tests' = "passed" => \A domain \in Domains : seam[domain] # "breaking"
    BY <1>2 DEF RunTests
  <2>2. QED
    BY <2>1 DEF SeamInv, AcceptedIsUnbroken, Required
<1>3. CASE Probe \/ Patch
  BY <1>3, ProbeKeepsSeamInv, PatchKeepsSeamInv
<1>4. CASE \E domain \in Domains, state \in Watched_States : Drift(domain, state)
  BY <1>4, DriftKeepsSeamInv
<1>5. CASE UNCHANGED watch_vars
  BY <1>5 DEF watch_vars, SeamInv, AcceptedIsUnbroken, Required
<1>6. QED
  BY <1>1, <1>2, <1>3, <1>4, <1>5 DEF WatchNext, Watch

(***************************************************************************)
(* A Bridge is in use only while no required seam is broken, however many  *)
(* domains there are and however often they change, with a version or      *)
(* without: what assessContractWatch passes on observations of an earlier  *)
(* version has been tested since.                                          *)
(***************************************************************************)
THEOREM AcceptsUnbroken == WatchSpec => []AcceptedIsUnbroken
<1>1. SeamInv => AcceptedIsUnbroken
  BY DEF SeamInv
<1>2. QED
  BY <1>1, InitSeamInv, WatchKeepsSeamInv, PTL DEF WatchSpec

-----------------------------------------------------------------------------
(***************************************************************************)
(* Sources of context. Authorities are ranked by their place.              *)
(***************************************************************************)
Sources == Range(ContextAuthority)

LEMMA SourcesAre ==
  /\ DOMAIN ContextAuthority = 1..6
  /\ Sources = {"security_hard_runtime", "task_and_project_contract",
                "verified_current_evidence", "skill_procedure", "advisory_memory",
                "historical_raw_context"}
BY DEF Sources, Range, ContextAuthority

LEMMA RankIsPlace ==
  /\ \A source \in Sources : AuthorityRank(source) \in 1..6
  /\ AuthorityRank("security_hard_runtime") = 1
<1>1. ASSUME NEW source \in Sources
      PROVE  /\ AuthorityRank(source) \in DOMAIN ContextAuthority
             /\ ContextAuthority[AuthorityRank(source)] = source
  BY DEF Sources, Range, AuthorityRank
<1>2. \A k \in DOMAIN ContextAuthority :
        ContextAuthority[k] = "security_hard_runtime" => k = 1
  BY SourcesAre DEF ContextAuthority
<1>3. QED
  BY <1>1, <1>2, SourcesAre

\* Whoever prevails has the higher authority of the two.
LEMMA PrevailsByRank ==
  ASSUME NEW left \in Sources, NEW right \in Sources,
         NEW word, word = ResolveContextConflict(left, right)
  PROVE  /\ word \in Sources
         /\ AuthorityRank(word) <= AuthorityRank(left)
         /\ AuthorityRank(word) <= AuthorityRank(right)
<1>1. AuthorityRank(left) \in 1..6 /\ AuthorityRank(right) \in 1..6
  BY RankIsPlace
<1>2. CASE {left, right} = {"task_and_project_contract", "security_hard_runtime"}
  <2>1. word = "security_hard_runtime" /\ word \in Sources
    BY <1>2, SourcesAre DEF ResolveContextConflict
  <2>2. QED
    BY <1>1, <2>1, RankIsPlace
<1>3. CASE {left, right} # {"task_and_project_contract", "security_hard_runtime"}
  <2>1. word = IF left = right THEN left
               ELSE IF AuthorityRank(left) < AuthorityRank(right) THEN left ELSE right
    BY <1>3 DEF ResolveContextConflict
  <2>2. QED
    BY <1>1, <2>1
<1>4. QED
  BY <1>2, <1>3

WordStands ==
  /\ seen \subseteq Sources
  /\ seen # {} => winner \in Sources
  /\ seen = {} => winner = "none"
  /\ AuthorityStands

LEMMA StepsKeepWordStands == WordStands /\ [Next]_vars => WordStands'
<1> SUFFICES ASSUME WordStands, [Next]_vars
             PROVE  WordStands'
  OBVIOUS
<1>1. ASSUME NEW source \in Sources, Conflict(source)
      PROVE  WordStands'
  <2>1. /\ seen' = seen \cup {source}
        /\ winner' = IF seen = {} THEN source ELSE ResolveContextConflict(winner, source)
    BY <1>1 DEF Conflict
  <2>2. CASE seen = {}
    BY <2>1, <2>2, RankIsPlace DEF WordStands, AuthorityStands
  <2>3. CASE seen # {}
    <3>1. /\ winner' \in Sources
          /\ AuthorityRank(winner') <= AuthorityRank(winner)
          /\ AuthorityRank(winner') <= AuthorityRank(source)
      BY <2>1, <2>3, PrevailsByRank DEF WordStands
    <3>2. ASSUME NEW other \in seen
          PROVE  AuthorityRank(winner') <= AuthorityRank(other)
      <4>1. AuthorityRank(winner) <= AuthorityRank(other)
        BY DEF WordStands, AuthorityStands
      <4>2. /\ AuthorityRank(winner') \in 1..6 /\ AuthorityRank(winner) \in 1..6
            /\ AuthorityRank(other) \in 1..6
        BY <2>3, <3>1, RankIsPlace DEF WordStands
      <4>3. QED
        BY <3>1, <4>1, <4>2
    <3>3. QED
      BY <2>1, <3>1, <3>2 DEF WordStands, AuthorityStands
  <2>4. QED
    BY <2>2, <2>3
<1>2. CASE Request \/ Requested \/ Pick \/ SelectContextPlan \/ UNCHANGED vars
  BY <1>2 DEF Request, Requested, Pick, SelectContextPlan, vars, WordStands, AuthorityStands
<1>3. QED
  BY <1>1, <1>2 DEF Next, Sources

(***************************************************************************)
(* Whatever sources meet, and in whatever order, resolveContextConflict    *)
(* lets the highest authority stand.                                       *)
(***************************************************************************)
THEOREM AuthorityAlwaysStands == Spec => []AuthorityStands
<1>1. Init => WordStands
  BY DEF Init, WordStands, AuthorityStands
<1>2. WordStands => AuthorityStands
  BY DEF WordStands
<1>3. QED
  BY <1>1, <1>2, StepsKeepWordStands, PTL DEF Spec

-----------------------------------------------------------------------------
(***************************************************************************)
(* Skills. What was selected is compatible and none of it twice; and what  *)
(* was planned had nobody left to select.                                  *)
(***************************************************************************)
Ids == DOMAIN catalog
Resolvable ==
  \A class \in required :
    \E id \in Ids : Compatible(id) /\ class \in catalog[id].covers

SkillsInv ==
  /\ catalog \in Catalogs /\ worker \in Workers
  /\ selected \in Seq(Ids)
  /\ \A k \in 1..Len(selected) : Compatible(selected[k])
  /\ Len(selected) = Cardinality(Range(selected)) /\ IsFiniteSet(Range(selected))
  /\ phase \in {"request", "cover", "planned"}
  /\ plan.memory \in {"none", "recall", "skip_recall"}
  /\ phase = "planned" =>
       ((plan.skills = "ready") <=> (unresolved = {} /\ Remaining = {}))
  /\ phase = "planned" => Candidates = {}

LEMMA SelectedRange ==
  ASSUME NEW S, NEW s \in Seq(S)
  PROVE  /\ Range(s) \subseteq S
         /\ \A e : Contains(s, e) <=> e \in Range(s)
         /\ Range(s) = {s[k] : k \in 1..Len(s)}
<1>1. Len(s) \in Nat /\ DOMAIN s = 1..Len(s) /\ \A k \in 1..Len(s) : s[k] \in S
  BY ElementOfSeq, LenProperties
<1>2. QED
  BY <1>1 DEF Range, Contains

\* One more skill is one more in the set.
LEMMA OneMoreSkill ==
  ASSUME NEW S, NEW s \in Seq(S), NEW e \in S, e \notin Range(s),
         IsFiniteSet(Range(s)), Len(s) = Cardinality(Range(s))
  PROVE  /\ Append(s, e) \in Seq(S)
         /\ Range(Append(s, e)) = Range(s) \cup {e}
         /\ IsFiniteSet(Range(Append(s, e)))
         /\ Len(Append(s, e)) = Cardinality(Range(Append(s, e)))
         /\ \A k \in 1..Len(Append(s, e)) : Append(s, e)[k] = e \/
              (k \in 1..Len(s) /\ Append(s, e)[k] = s[k])
<1>1. /\ Append(s, e) \in Seq(S) /\ Len(Append(s, e)) = Len(s) + 1 /\ Len(s) \in Nat
      /\ Append(s, e)[Len(s) + 1] = e
      /\ \A k \in 1..Len(s) : Append(s, e)[k] = s[k]
  BY AppendProperties, LenProperties
<1>2. \A k \in 1..Len(Append(s, e)) : Append(s, e)[k] = e \/
           (k \in 1..Len(s) /\ Append(s, e)[k] = s[k])
  BY <1>1
<1>3. Range(Append(s, e)) = Range(s) \cup {e}
  <2>1. /\ \A x : x \in Range(s) <=> \E k \in 1..Len(s) : s[k] = x
        /\ \A x : x \in Range(Append(s, e)) <=>
             \E k \in 1..Len(Append(s, e)) : Append(s, e)[k] = x
    BY <1>1, SelectedRange, Zenon DEF Contains
  <2>2. ASSUME NEW x \in Range(Append(s, e))
        PROVE  x \in Range(s) \cup {e}
    BY <1>2, <2>1
  <2>3. ASSUME NEW x \in Range(s)
        PROVE  x \in Range(Append(s, e))
    <3>1. PICK k \in 1..Len(s) : s[k] = x
      BY <2>1
    <3>2. k \in 1..Len(Append(s, e)) /\ Append(s, e)[k] = x
      BY <1>1, <3>1
    <3>3. QED
      BY <2>1, <3>2
  <2>4. e \in Range(Append(s, e))
    <3>1. Len(s) + 1 \in 1..Len(Append(s, e))
      BY <1>1
    <3>2. QED
      BY <1>1, <2>1, <3>1
  <2>5. QED
    BY <2>2, <2>3, <2>4
<1>4. QED
  BY <1>1, <1>2, <1>3, FS_AddElement

\* A step that takes a compatible skill that was not taken keeps what is selected.
LEMMA TakingKeepsSelected ==
  ASSUME SkillsInv, NEW id \in Ids, Compatible(id), ~Contains(selected, id),
         selected' = Append(selected, id), UNCHANGED arguments,
         phase' = phase, phase # "planned", plan' = plan
  PROVE  SkillsInv'
<1>1. id \notin Range(selected)
  BY SelectedRange DEF SkillsInv
<1>2. /\ selected' \in Seq(Ids)
      /\ IsFiniteSet(Range(selected')) /\ Len(selected') = Cardinality(Range(selected'))
      /\ \A k \in 1..Len(selected') : selected'[k] = id \/
           (k \in 1..Len(selected) /\ selected'[k] = selected[k])
  BY <1>1, OneMoreSkill DEF SkillsInv
<1>3. UNCHANGED <<catalog, worker>>
  BY DEF arguments
<1>4. \A k \in 1..Len(selected') : Compatible(selected'[k])
  BY <1>2 DEF SkillsInv
<1>5. QED
  BY <1>2, <1>3, <1>4 DEF SkillsInv, Ids, Compatible

LEMMA InitSkillsInv == Init => SkillsInv
<1> SUFFICES ASSUME Init
             PROVE  SkillsInv
  OBVIOUS
<1>1. /\ selected = <<>> /\ Len(selected) = 0 /\ selected \in Seq(Ids)
      /\ DOMAIN <<>> = {}
  BY EmptySeq DEF Init
<1>2. DOMAIN selected = {} /\ Range(selected) = {}
  BY <1>1, Zenon DEF Range
<1>3. IsFiniteSet(Range(selected)) /\ Cardinality(Range(selected)) = 0
  BY <1>2, FS_EmptySet
<1>4. phase = "request" /\ catalog \in Catalogs /\ worker \in Workers /\ plan.memory = "none"
  BY DEF Init
<1>5. QED
  BY <1>1, <1>3, <1>4 DEF SkillsInv

LEMMA StepsKeepSkillsInv == SkillsInv /\ [Next]_vars => SkillsInv'
<1> SUFFICES ASSUME SkillsInv, [Next]_vars
             PROVE  SkillsInv'
  OBVIOUS
<1>1. CASE Request
  <2>1. UNCHANGED <<arguments, phase, plan>> /\ phase = "request"
    BY <1>1 DEF Request
  <2>2. CASE selected' = selected
    BY <2>1, <2>2 DEF SkillsInv, Ids, Compatible, arguments
  <2>3. CASE selected' # selected
    <3>1. /\ Head(requested) \in Ids /\ Compatible(Head(requested))
          /\ ~Contains(selected, Head(requested))
          /\ selected' = Append(selected, Head(requested))
      BY <1>1, <2>3 DEF Request, Ids
    <3>2. QED
      BY <2>1, <3>1, TakingKeepsSelected
  <2>4. QED
    BY <2>2, <2>3
<1>2. CASE Pick
  <2>1. PICK best \in Candidates : selected' = Append(selected, best)
    BY <1>2 DEF Pick
  <2>2. /\ best \in Ids /\ Compatible(best) /\ ~Contains(selected, best)
        /\ UNCHANGED <<arguments, phase, plan>> /\ phase = "cover"
    BY <1>2, <2>1 DEF Pick, Candidates, Ids
  <2>3. QED
    BY <2>1, <2>2, TakingKeepsSelected
<1>3. CASE SelectContextPlan
  <2>1. /\ Candidates = {} /\ phase' = "planned"
        /\ UNCHANGED <<worker, catalog, required, selected, unresolved>>
        /\ plan'.memory = EvaluateRecallPolicy
        /\ plan'.skills = IF unresolved = {} /\ Remaining = {} THEN "ready"
                          ELSE "needs_skill_resolution"
    BY <1>3 DEF SelectContextPlan, arguments
  <2>2. Candidates' = {} /\ Remaining' = Remaining
    BY <2>1 DEF Candidates, Overlap, Remaining, Covered, Compatible
  <2>3. plan'.memory \in {"recall", "skip_recall"}
    BY <2>1 DEF EvaluateRecallPolicy
  <2>4. QED
    BY <2>1, <2>2, <2>3 DEF SkillsInv, Ids, Compatible
<1>4. CASE Requested
  <2>1. phase' = "cover" /\ UNCHANGED <<worker, catalog, selected, plan>>
    BY <1>4 DEF Requested, arguments
  <2>2. QED
    BY <2>1 DEF SkillsInv, Ids, Compatible
<1>5. CASE (\E source \in Range(ContextAuthority) : Conflict(source)) \/ UNCHANGED vars
  <2>1. UNCHANGED <<worker, catalog, required, selected, unresolved, phase, plan>>
    BY <1>5 DEF Conflict, vars, arguments
  <2>2. Candidates' = Candidates /\ Remaining' = Remaining
    BY <2>1 DEF Candidates, Overlap, Remaining, Covered, Compatible
  <2>3. QED
    BY <2>1, <2>2 DEF SkillsInv, Ids, Compatible
<1>6. QED
  BY <1>1, <1>2, <1>3, <1>4, <1>5 DEF Next

LEMMA SkillsAlways == Spec => []SkillsInv
BY InitSkillsInv, StepsKeepSkillsInv, PTL DEF Spec

\* A skill that covers something that remains adds to what is covered.
LEMMA OverlapMeans ==
  ASSUME SkillsInv, NEW id \in Ids, NEW class \in Remaining,
         class \in catalog[id].covers
  PROVE  Overlap(id) > 0
<1>1. IsFiniteSet(catalog[id].covers)
  BY CatalogAssumption DEF SkillsInv, Ids
<1>2. IsFiniteSet(catalog[id].covers \cap Remaining)
  BY <1>1, FS_Subset
<1>3. Overlap(id) \in Nat /\ Overlap(id) # 0
  BY <1>2, FS_CardinalityType, FS_EmptySet DEF Overlap
<1>4. QED
  BY <1>3

\* When nobody is left to select, nothing remains exactly if all can be covered.
LEMMA NothingRemains ==
  ASSUME SkillsInv, Candidates = {}
  PROVE  Remaining = {} <=> Resolvable
<1>1. /\ Range(selected) \subseteq Ids
      /\ \A id : Contains(selected, id) <=> id \in Range(selected)
      /\ \A id \in Range(selected) : Compatible(id)
  BY SelectedRange DEF SkillsInv
<1>2. ASSUME Remaining = {}
      PROVE  Resolvable
  <2>1. ASSUME NEW class \in required
        PROVE  \E id \in Ids : Compatible(id) /\ class \in catalog[id].covers
    <3>1. class \in Covered(Range(selected))
      BY <1>2 DEF Remaining
    <3>2. QED
      BY <1>1, <3>1 DEF Covered
  <2>2. QED
    BY <2>1 DEF Resolvable
<1>3. ASSUME Resolvable, NEW class \in Remaining
      PROVE  FALSE
  <2>1. PICK id \in Ids : Compatible(id) /\ class \in catalog[id].covers
    BY <1>3 DEF Resolvable, Remaining
  <2>2. ~Contains(selected, id)
    BY <1>1, <2>1 DEF Remaining, Covered
  <2>3. Overlap(id) > 0
    BY <2>1, OverlapMeans
  <2>4. QED
    BY <2>1, <2>2, <2>3 DEF Candidates, Ids
<1>4. QED
  BY <1>2, <1>3

(***************************************************************************)
(* Greed does not miss: selectMinimalSkills is ready exactly when what was *)
(* asked for is to be had and compatible skills cover what is required,    *)
(* for any catalog and any order in which it chooses.                      *)
(***************************************************************************)
THEOREM ReadyExactlyWhenResolvable == Spec => []ReadyIffResolvable
<1>1. SkillsInv => ReadyIffResolvable
  <2> SUFFICES ASSUME SkillsInv, phase = "planned"
               PROVE  (plan.skills = "ready") <=> (unresolved = {} /\ Resolvable)
    BY DEF ReadyIffResolvable, Resolvable, Ids
  <2>1. Remaining = {} <=> Resolvable
    BY NothingRemains DEF SkillsInv
  <2>2. QED
    BY <2>1 DEF SkillsInv
<1>2. QED
  BY <1>1, SkillsAlways, PTL

\* Skills are compatible and never selected twice, and the word that stands is
\* that of a source.
THEOREM ContextTypeCorrect == Spec => []TypeOK
<1>1. SkillsInv /\ WordStands => TypeOK
  <2> SUFFICES ASSUME SkillsInv, WordStands
               PROVE  TypeOK
    OBVIOUS
  <2>1. Range(selected) \subseteq {id \in DOMAIN catalog : Compatible(id)}
    BY SelectedRange DEF SkillsInv, Ids
  <2>2. QED
    BY <2>1 DEF TypeOK, SkillsInv, WordStands, Sources
<1>2. Init => WordStands
  BY DEF Init, WordStands, AuthorityStands
<1>3. QED
  BY <1>1, <1>2, SkillsAlways, StepsKeepWordStands, PTL DEF Spec
=============================================================================
