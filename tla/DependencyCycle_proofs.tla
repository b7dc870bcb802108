----------------------- MODULE DependencyCycle_proofs -----------------------
(***************************************************************************)
(* Partial correctness of detectCycle for every set of gates and every     *)
(* dependency list over it.                                                *)
(***************************************************************************)
EXTENDS DependencyCycle, SequenceTheorems, TLAPS

-----------------------------------------------------------------------------
\* The gates of path are those being visited, each once.
PathIsVisiting ==
  /\ \A gate \in Gates :
       state[gate] = "visiting" <=> \E i \in 1 .. Len(path) : path[i] = gate
  /\ \A i, j \in 1 .. Len(path) : path[i] = path[j] => i = j

\* Each gate of path requires the next.
PathIsChain == \A i \in 1 .. Len(path) - 1 : path[i + 1] \in requires[path[i]]

\* A requirement that a loop has passed is done, or is the call in progress.
PassedIsDone == \A i \in 1 .. Len(path) : \A r \in requires[path[i]] \ todo[path[i]] :
  state[r] = "done" \/ (i < Len(path) /\ r = path[i + 1])

TodoIsRequired == \A gate \in Gates : todo[gate] \subseteq requires[gate]

NewIsUntouched == \A gate \in Gates : state[gate] = "new" => todo[gate] = requires[gate]

DoneIsClosed == \A gate \in Gates :
  state[gate] = "done" => \A r \in requires[gate] : state[r] = "done"

RootsPassed == \A gate \in Gates :
  state[gate] = "new" /\ requires[gate] # {} => gate \in roots

\* No gates that are done all require one another.
DoneIsAcyclic == \A S \in SUBSET Gates :
  (\A gate \in S : state[gate] = "done" /\ requires[gate] \cap S # {}) => S = {}

SearchInv ==
  /\ PathIsVisiting
  /\ PathIsChain
  /\ PassedIsDone
  /\ TodoIsRequired
  /\ NewIsUntouched
  /\ DoneIsClosed
  /\ RootsPassed
  /\ DoneIsAcyclic

IInv == TypeOK /\ (cycle = <<>> => SearchInv) /\ ReportedCycleIsReal

-----------------------------------------------------------------------------
LEMMA InitHolds == Init => IInv
<1>. SUFFICES ASSUME Init PROVE IInv
  OBVIOUS
<1>1. TypeOK
  BY DEF Init, TypeOK, Requirements
<1>2. SearchInv
  BY <1>1 DEF Init, TypeOK, SearchInv, PathIsVisiting, PathIsChain, PassedIsDone,
              TodoIsRequired, NewIsUntouched, DoneIsClosed, RootsPassed, DoneIsAcyclic
<1>3. ReportedCycleIsReal
  BY DEF Init, ReportedCycleIsReal
<1>4. QED
  BY <1>1, <1>2, <1>3 DEF IInv

(***************************************************************************)
(* The outcomes of a call of visit. All its caller's loop changed is that  *)
(* it has passed gate.                                                     *)
(***************************************************************************)
Passes(gate) ==
  /\ roots' \in SUBSET Gates
  /\ todo' \in Requirements
  /\ roots \ {gate} \subseteq roots'
  /\ \A g \in Gates : todo'[g] = todo[g]
       \/ (path # <<>> /\ g = Current /\ todo'[g] = todo[g] \ {gate})
  /\ path # <<>> => gate \in requires[Current]
  /\ requires' = requires

\* The loop's gate is the last of path and no other.
LEMMA CurrentIsLast ==
  ASSUME TypeOK, SearchInv, path # <<>>
  PROVE  /\ Len(path) \in Nat \ {0}
         /\ Current \in Gates
         /\ state[Current] = "visiting"
         /\ \A i \in 1 .. Len(path) : path[i] \in Gates
         /\ \A i \in 1 .. Len(path) : path[i] = Current => i = Len(path)
BY DEF TypeOK, SearchInv, PathIsVisiting, Current

LEMMA CallPasses ==
  ASSUME TypeOK, SearchInv, NEW gate \in Gates,
         VisitRoot(gate) \/ VisitRequired(gate)
  PROVE  Passes(gate)
<1>1. CASE VisitRoot(gate)
  BY <1>1 DEF VisitRoot, Rest, Passes, TypeOK
<1>2. CASE VisitRequired(gate)
  <2>1. Current \in Gates
    BY <1>2, CurrentIsLast DEF VisitRequired
  <2>2. todo' = [todo EXCEPT ![Current] = @ \ {gate}]
    BY <1>2 DEF VisitRequired, Rest
  <2>3. todo' \in Requirements
    BY <2>1, <2>2 DEF TypeOK, Requirements
  <2>4. gate \in requires[Current]
    BY <1>2, <2>1 DEF VisitRequired, SearchInv, TodoIsRequired
  <2>5. QED
    BY <1>2, <2>1, <2>2, <2>3, <2>4 DEF VisitRequired, Passes, TypeOK, Requirements
<1>3. QED
  BY <1>1, <1>2

LEMMA VisitDone ==
  ASSUME TypeOK, SearchInv, NEW gate \in Gates, Passes(gate),
         state[gate] = "done", UNCHANGED <<state, path, cycle>>
  PROVE  SearchInv'
<1>1. PassedIsDone'
  <2>. SUFFICES ASSUME NEW i \in 1 .. Len(path),
                       NEW r \in requires[path[i]] \ todo'[path[i]]
                PROVE  state[r] = "done" \/ (i < Len(path) /\ r = path[i + 1])
    BY DEF PassedIsDone, Passes
  <2>1. path # <<>> /\ path[i] \in Gates
    BY CurrentIsLast DEF TypeOK
  <2>2. r = gate \/ r \in requires[path[i]] \ todo[path[i]]
    BY <2>1 DEF Passes
  <2>3. QED
    BY <2>2 DEF SearchInv, PassedIsDone
<1>2. NewIsUntouched'
  <2>. SUFFICES ASSUME NEW g \in Gates, state[g] = "new" PROVE todo'[g] = requires[g]
    BY DEF NewIsUntouched, Passes
  <2>1. ~ (path # <<>> /\ g = Current)
    BY CurrentIsLast
  <2>2. QED
    BY <2>1 DEF Passes, SearchInv, NewIsUntouched
<1>3. TodoIsRequired' /\ RootsPassed'
  BY DEF Passes, SearchInv, TodoIsRequired, RootsPassed
<1>4. PathIsVisiting' /\ PathIsChain' /\ DoneIsClosed' /\ DoneIsAcyclic'
  BY DEF Passes, SearchInv, PathIsVisiting, PathIsChain, DoneIsClosed, DoneIsAcyclic
<1>5. QED
  BY <1>1, <1>2, <1>3, <1>4 DEF SearchInv

LEMMA VisitNew ==
  ASSUME TypeOK, SearchInv, NEW gate \in Gates, Passes(gate),
         state[gate] = "new", state' = [state EXCEPT ![gate] = "visiting"],
         path' = Append(path, gate), cycle' = cycle
  PROVE  SearchInv'
<1>. DEFINE n == Len(path)
<1>1. /\ n \in Nat
      /\ Len(path') = n + 1
      /\ path'[n + 1] = gate
      /\ \A i \in 1 .. n : path'[i] = path[i] /\ path[i] \in Gates
  BY DEF TypeOK
<1>2. /\ \A i \in 1 .. n : path[i] # gate
      /\ \A g \in Gates : state'[g] = IF g = gate THEN "visiting" ELSE state[g]
  BY <1>1 DEF TypeOK, SearchInv, PathIsVisiting
<1>. HIDE DEF n
<1>3. PathIsVisiting'
  <2>1. \A g \in Gates : state[g] = "visiting" <=> \E i \in 1 .. n : path[i] = g
    BY DEF SearchInv, PathIsVisiting, n
  <2>2. \A i, j \in 1 .. n : path[i] = path[j] => i = j
    BY DEF SearchInv, PathIsVisiting, n
  <2>3. \A i \in 1 .. n + 1 : i \in 1 .. n \/ i = n + 1
    BY <1>1
  <2>4. \A i, j \in 1 .. n + 1 : path'[i] = path'[j] => i = j
    BY <1>1, <1>2, <2>2, <2>3
  <2>5. \A g \in Gates : state'[g] = "visiting" <=> \E i \in 1 .. n + 1 : path'[i] = g
    BY <1>1, <1>2, <2>1, <2>3
  <2>6. QED
    BY <1>1, <2>4, <2>5 DEF PathIsVisiting
<1>4. PathIsChain'
  <2>. SUFFICES ASSUME NEW i \in 1 .. n PROVE path'[i + 1] \in requires[path[i]]
    BY <1>1 DEF PathIsChain, Passes
  <2>1. CASE i = n
    BY <1>1, <2>1 DEF Passes, Current, n
  <2>2. CASE i < n
    BY <1>1, <2>2 DEF SearchInv, PathIsChain, n
  <2>3. QED
    BY <1>1, <2>1, <2>2
<1>5. PassedIsDone'
  <2>. SUFFICES ASSUME NEW i \in 1 .. n + 1,
                       NEW r \in requires[path'[i]] \ todo'[path'[i]]
                PROVE  state'[r] = "done" \/ (i < n + 1 /\ r = path'[i + 1])
    BY <1>1 DEF PassedIsDone, Passes
  <2>1. CASE i = n + 1
    <3>1. path'[i] = gate /\ ~ (path # <<>> /\ gate = Current)
      BY <1>1, <2>1, CurrentIsLast
    <3>2. todo'[gate] = requires[gate]
      BY <3>1 DEF Passes, SearchInv, NewIsUntouched
    <3>3. QED
      BY <3>1, <3>2
  <2>2. CASE i \in 1 .. n
    <3>1. /\ path'[i] = path[i] /\ path[i] \in Gates /\ path # <<>>
          /\ r \in Gates
      BY <1>1, <2>2 DEF n, TypeOK, Requirements
    <3>2. CASE r \in requires[path[i]] \ todo[path[i]]
      <4>1. state[r] = "done" \/ (i < n /\ r = path[i + 1])
        BY <2>2, <3>2 DEF SearchInv, PassedIsDone, n
      <4>2. i < n => path'[i + 1] = path[i + 1]
        BY <1>1, <2>2
      <4>3. QED
        BY <1>1, <1>2, <2>2, <3>1, <4>1, <4>2
    <3>3. CASE r \in todo[path[i]]
      <4>1. path[i] = Current /\ r = gate
        BY <3>1, <3>3 DEF Passes
      <4>2. i = n
        BY <2>2, <3>1, <4>1, CurrentIsLast DEF n
      <4>3. QED
        BY <1>1, <4>1, <4>2
    <3>4. QED
      BY <3>1, <3>2, <3>3
  <2>3. QED
    BY <1>1, <2>1, <2>2
<1>6. NewIsUntouched'
  <2>. SUFFICES ASSUME NEW g \in Gates, state'[g] = "new" PROVE todo'[g] = requires[g]
    BY DEF NewIsUntouched, Passes
  <2>1. state[g] = "new"
    BY <1>2
  <2>2. ~ (path # <<>> /\ g = Current)
    BY <2>1, CurrentIsLast
  <2>3. QED
    BY <2>1, <2>2 DEF Passes, SearchInv, NewIsUntouched
<1>7. TodoIsRequired' /\ RootsPassed'
  BY <1>2 DEF Passes, SearchInv, TodoIsRequired, RootsPassed
<1>8. \A g \in Gates : state'[g] = "done" <=> state[g] = "done"
  BY <1>2
<1>9. DoneIsClosed'
  BY <1>8 DEF Passes, SearchInv, DoneIsClosed, TypeOK, Requirements
<1>10. DoneIsAcyclic'
  BY <1>8 DEF Passes, SearchInv, DoneIsAcyclic
<1>11. QED
  BY <1>3, <1>4, <1>5, <1>6, <1>7, <1>9, <1>10 DEF SearchInv

\* The end of a chain, followed by its first element, is a closed chain.
LEMMA ClosedPath ==
  ASSUME NEW p, NEW s, NEW needs, NEW n \in Nat, NEW k \in 1 .. n, NEW gate,
         \A i \in 1 .. n - 1 : p[i + 1] \in needs[p[i]],
         gate \in needs[p[n]],
         s[n - k + 2] = gate,
         \A i \in 1 .. n - k + 1 : s[i] = p[k + i - 1]
  PROVE  \A i \in 1 .. n - k + 1 : s[i + 1] \in needs[s[i]]
<1>. SUFFICES ASSUME NEW i \in 1 .. n - k + 1 PROVE s[i + 1] \in needs[s[i]]
  OBVIOUS
<1>1. CASE i = n - k + 1
  <2>1. s[i] = p[n] /\ s[i + 1] = gate
    BY <1>1
  <2>2. QED
    BY <2>1
<1>2. CASE i < n - k + 1
  <2>1. /\ i + 1 \in 1 .. n - k + 1
        /\ k + i - 1 \in 1 .. n - 1
        /\ k + (i + 1) - 1 = (k + i - 1) + 1
    BY <1>2
  <2>2. s[i] = p[k + i - 1] /\ s[i + 1] = p[(k + i - 1) + 1]
    BY <2>1
  <2>3. QED
    BY <2>1, <2>2
<1>3. QED
  BY <1>1, <1>2

Throws(gate) == cycle' = Append(SubSeq(path, CycleStart(gate), Len(path)), gate)

\* A gate that is being visited closes a cycle with the rest of the path.
LEMMA VisitVisiting ==
  ASSUME TypeOK, SearchInv, NEW gate \in Gates, Passes(gate),
         state[gate] = "visiting", Throws(gate)
  PROVE  /\ ReportedCycleIsReal'
         /\ cycle' # <<>>
         /\ cycle' \in Seq(Gates)
<1>. DEFINE n == Len(path)
            k == CycleStart(gate)
            m == n - k + 1
<1>1. \E i \in DOMAIN path : path[i] = gate
  BY DEF SearchInv, PathIsVisiting, TypeOK
<1>2. k \in DOMAIN path /\ path[k] = gate
  BY <1>1 DEF CycleStart
<1>3. k \in 1 .. n /\ n \in Nat /\ path # <<>>
  BY <1>2 DEF TypeOK
<1>. HIDE DEF k
<1>4. /\ SubSeq(path, k, n) \in Seq(Gates)
      /\ Len(SubSeq(path, k, n)) = m
      /\ \A i \in 1 .. m : SubSeq(path, k, n)[i] = path[k + i - 1]
  BY <1>3 DEF TypeOK
<1>5. /\ cycle' \in Seq(Gates)
      /\ Len(cycle') = m + 1
      /\ cycle'[m + 1] = gate
      /\ \A i \in 1 .. m : cycle'[i] = path[k + i - 1]
  BY <1>4 DEF k, Throws
<1>6. m \in Nat \ {0} /\ cycle'[1] = gate
  <2>1. m \in Nat \ {0} /\ k + 1 - 1 = k
    BY <1>3
  <2>2. cycle'[1] = path[k + 1 - 1]
    BY <1>5, <2>1
  <2>3. QED
    BY <1>2, <2>1, <2>2
<1>7. \A i \in 1 .. n - 1 : path[i + 1] \in requires[path[i]]
  BY DEF SearchInv, PathIsChain
<1>8. gate \in requires[path[n]]
  BY <1>3 DEF Passes, Current
<1>9. cycle'[n - k + 2] = gate
  <2>1. m + 1 = n - k + 2
    BY <1>3
  <2>2. QED
    BY <1>5, <2>1
<1>. HIDE DEF n
<1>10. \A i \in 1 .. n - k + 1 : cycle'[i + 1] \in requires[cycle'[i]]
  BY <1>3, <1>5, <1>7, <1>8, <1>9, ClosedPath
<1>11. Len(cycle') - 1 = n - k + 1
  BY <1>5, <1>6
<1>12. Len(cycle') > 1 /\ cycle'[1] = cycle'[Len(cycle')]
  BY <1>5, <1>6
<1>13. ReportedCycleIsReal'
  BY <1>10, <1>11, <1>12 DEF ReportedCycleIsReal, Passes
<1>14. cycle' # <<>>
  BY <1>5, <1>12
<1>15. QED
  BY <1>5, <1>13, <1>14

-----------------------------------------------------------------------------
\* visit returns: its gate is done, and required only gates done before it.
LEMMA FinishHolds ==
  ASSUME TypeOK, SearchInv, Finish
  PROVE  SearchInv'
<1>. DEFINE n == Len(path)
            g == Current
<1>1. /\ n \in Nat \ {0}
      /\ g \in Gates /\ path[n] = g
      /\ state[g] = "visiting"
      /\ todo[g] = {}
      /\ \A i \in 1 .. n : path[i] \in Gates
      /\ \A i \in 1 .. n - 1 : path[i] # g
  BY CurrentIsLast DEF Finish, Current
<1>2. /\ Len(path') = n - 1
      /\ \A i \in 1 .. n - 1 : path'[i] = path[i]
  <2>1. path' = SubSeq(path, 1, n - 1) /\ path \in Seq(Gates)
    BY DEF Finish, TypeOK
  <2>2. \A i \in 1 .. n - 1 : path[i] \in Gates /\ 1 + i - 1 = i
    BY <1>1
  <2>3. /\ Len(SubSeq(path, 1, n - 1)) = IF 1 <= n - 1 THEN (n - 1) - 1 + 1 ELSE 0
        /\ \A i \in 1 .. (n - 1) - 1 + 1 : SubSeq(path, 1, n - 1)[i] = path[1 + i - 1]
    <3>1. 1 \in Int /\ n - 1 \in Int
      BY <1>1
    <3>. HIDE DEF n
    <3>2. QED
      BY <2>2, <3>1, SubSeqProperties
  <2>4. n \in Nat \ {0} /\ (n - 1) - 1 + 1 = n - 1
    BY <1>1
  <2>. HIDE DEF n, g
  <2>5. \A i \in 1 .. n - 1 : path'[i] = path[i]
    BY <2>1, <2>2, <2>3, <2>4
  <2>6. Len(path') = n - 1
    BY <2>1, <2>3, <2>4
  <2>7. QED
    BY <2>5, <2>6
<1>3. /\ \A x \in Gates : state'[x] = IF x = g THEN "done" ELSE state[x]
      /\ requires' = requires /\ todo' = todo /\ roots' = roots
  BY <1>1 DEF Finish, TypeOK
<1>4. \A r \in requires[g] : r \in Gates /\ r # g /\ state[r] = "done"
  BY <1>1 DEF SearchInv, PassedIsDone, TypeOK, Requirements
<1>. HIDE DEF n, g
<1>5. PathIsVisiting'
  <2>1. /\ \A x \in Gates : state[x] = "visiting" <=> \E i \in 1 .. n : path[i] = x
        /\ \A i, j \in 1 .. n : path[i] = path[j] => i = j
    BY DEF SearchInv, PathIsVisiting, n
  <2>2. \A i \in 1 .. n : i \in 1 .. n - 1 \/ i = n
    BY <1>1
  <2>3. \A i \in 1 .. n - 1 : i \in 1 .. n
    BY <1>1
  <2>4. \A x \in Gates : state'[x] = "visiting" <=> \E i \in 1 .. n - 1 : path'[i] = x
    BY <1>1, <1>2, <1>3, <2>1, <2>2, <2>3
  <2>5. \A i, j \in 1 .. n - 1 : path'[i] = path'[j] => i = j
    BY <1>2, <2>1, <2>3
  <2>6. QED
    BY <1>2, <2>4, <2>5 DEF PathIsVisiting
<1>6. PathIsChain'
  <2>. SUFFICES ASSUME NEW i \in 1 .. (n - 1) - 1
                PROVE  path'[i + 1] \in requires[path'[i]]
    BY <1>2, <1>3 DEF PathIsChain
  <2>1. i \in 1 .. n - 1 /\ i + 1 \in 1 .. n - 1
    BY <1>1
  <2>2. QED
    BY <1>2, <2>1 DEF SearchInv, PathIsChain, n
<1>7. PassedIsDone'
  <2>. SUFFICES ASSUME NEW i \in 1 .. n - 1, NEW r \in requires[path[i]] \ todo[path[i]]
                PROVE  state'[r] = "done" \/ (i < n - 1 /\ r = path'[i + 1])
    BY <1>2, <1>3 DEF PassedIsDone
  <2>1. i \in 1 .. n /\ i + 1 \in 1 .. n /\ path[i] \in Gates
    BY <1>1
  <2>2. r \in Gates
    BY <2>1 DEF TypeOK, Requirements
  <2>3. state[r] = "done" \/ r = path[i + 1]
    BY <2>1 DEF SearchInv, PassedIsDone, n
  <2>4. CASE i + 1 = n
    BY <1>1, <1>3, <2>2, <2>3, <2>4
  <2>5. CASE i + 1 # n
    <3>1. i < n - 1 /\ i + 1 \in 1 .. n - 1
      BY <1>1, <2>5
    <3>2. QED
      BY <1>2, <1>3, <2>2, <2>3, <3>1
  <2>6. QED
    BY <2>4, <2>5
<1>8. TodoIsRequired' /\ NewIsUntouched' /\ RootsPassed'
  BY <1>1, <1>3 DEF SearchInv, TodoIsRequired, NewIsUntouched, RootsPassed
<1>9. DoneIsClosed'
  <2>. SUFFICES ASSUME NEW x \in Gates, state'[x] = "done", NEW r \in requires[x]
                PROVE  state'[r] = "done"
    BY <1>3 DEF DoneIsClosed
  <2>1. r \in Gates
    BY DEF TypeOK, Requirements
  <2>2. state[r] = "done"
    BY <1>3, <1>4 DEF SearchInv, DoneIsClosed
  <2>3. QED
    BY <1>3, <2>1, <2>2
<1>10. DoneIsAcyclic'
  <2>. SUFFICES ASSUME NEW S \in SUBSET Gates,
                       \A x \in S : state'[x] = "done" /\ requires[x] \cap S # {}
                PROVE  S = {}
    BY <1>3 DEF DoneIsAcyclic
  <2>. DEFINE T == S \ {g}
  <2>1. \A x \in T : state[x] = "done"
    BY <1>3
  <2>2. \A x \in T : g \notin requires[x]
    <3>1. \A x \in T : \A r \in requires[x] : state[r] = "done"
      BY <2>1 DEF SearchInv, DoneIsClosed
    <3>2. QED
      BY <1>1, <3>1
  <2>3. \A x \in T : requires[x] \cap T # {}
    BY <2>2
  <2>4. T = {}
    BY <2>1, <2>3 DEF SearchInv, DoneIsAcyclic
  <2>5. g \notin S
    BY <1>4, <2>4
  <2>6. QED
    BY <2>4, <2>5
<1>11. QED
  BY <1>5, <1>6, <1>7, <1>8, <1>9, <1>10 DEF SearchInv

-----------------------------------------------------------------------------
LEMMA NextHolds == IInv /\ [Next]_vars => IInv'
<1>. SUFFICES ASSUME IInv, [Next]_vars PROVE IInv'
  OBVIOUS
<1>1. CASE UNCHANGED vars
  BY <1>1 DEF vars, IInv, TypeOK, SearchInv, PathIsVisiting, PathIsChain,
              PassedIsDone, TodoIsRequired, NewIsUntouched, DoneIsClosed,
              RootsPassed, DoneIsAcyclic, ReportedCycleIsReal
<1>2. ASSUME NEW gate \in Gates, VisitRoot(gate) \/ VisitRequired(gate) PROVE IInv'
  <2>1. TypeOK /\ SearchInv /\ cycle = <<>> /\ Visit(gate)
    BY <1>2 DEF IInv, VisitRoot, VisitRequired, Searching
  <2>2. Passes(gate)
    BY <1>2, <2>1, CallPasses
  <2>3. /\ requires' \in Requirements
        /\ roots' \in SUBSET Gates
        /\ todo' \in Requirements
    BY <2>1, <2>2 DEF Passes, TypeOK
  <2>4. CASE state[gate] = "done" /\ UNCHANGED <<state, path, cycle>>
    <3>1. SearchInv'
      BY <2>1, <2>2, <2>4, VisitDone
    <3>2. QED
      BY <2>1, <2>3, <2>4, <3>1 DEF IInv, TypeOK, ReportedCycleIsReal
  <2>5. CASE /\ state[gate] = "visiting"
             /\ Throws(gate)
             /\ UNCHANGED <<state, path>>
    <3>1. ReportedCycleIsReal' /\ cycle' # <<>> /\ cycle' \in Seq(Gates)
      BY <2>1, <2>2, <2>5, VisitVisiting
    <3>2. QED
      BY <2>1, <2>3, <2>5, <3>1 DEF IInv, TypeOK
  <2>6. CASE /\ state[gate] = "new"
             /\ state' = [state EXCEPT ![gate] = "visiting"]
             /\ path' = Append(path, gate)
             /\ cycle' = cycle
    <3>1. SearchInv'
      BY <2>1, <2>2, <2>6, VisitNew
    <3>2. state' \in [Gates -> {"new", "visiting", "done"}] /\ path' \in Seq(Gates)
      BY <2>1, <2>6 DEF TypeOK
    <3>3. cycle' = <<>> /\ cycle' \in Seq(Gates)
      BY <2>1, <2>6
    <3>4. QED
      BY <2>3, <3>1, <3>2, <3>3 DEF IInv, TypeOK, ReportedCycleIsReal
  <2>7. QED
    BY <2>1, <2>4, <2>5, <2>6 DEF Visit, Throws
<1>3. CASE Finish
  <2>1. TypeOK /\ SearchInv /\ cycle = <<>>
    BY <1>3 DEF IInv, Finish, Searching
  <2>2. SearchInv'
    BY <1>3, <2>1, FinishHolds
  <2>3. Len(path) \in Nat \ {0} /\ Current \in Gates
    BY <1>3, <2>1, CurrentIsLast DEF Finish
  <2>4. path' \in Seq(Gates)
    BY <1>3, <2>1, <2>3 DEF Finish, TypeOK
  <2>5. state' \in [Gates -> {"new", "visiting", "done"}]
    BY <1>3, <2>1, <2>3 DEF Finish, TypeOK
  <2>6. UNCHANGED <<requires, roots, todo, cycle>>
    BY <1>3 DEF Finish
  <2>7. QED
    BY <2>1, <2>2, <2>4, <2>5, <2>6 DEF IInv, TypeOK, ReportedCycleIsReal
<1>4. QED
  BY <1>1, <1>2, <1>3 DEF Next

LEMMA SearchIsSound == Spec => []IInv
  BY InitHolds, NextHolds, PTL DEF Spec

\* A list the search has let through has no cycle.
LEMMA AcceptedFromInv == IInv => AcceptedIsAcyclic
<1>. SUFFICES ASSUME IInv, Accepted,
                     NEW S \in SUBSET Gates, S # {},
                     \A gate \in S : requires[gate] \cap S # {}
              PROVE  FALSE
  BY DEF AcceptedIsAcyclic, Acyclic
<1>1. TypeOK /\ SearchInv /\ path = <<>> /\ roots = {}
  BY DEF IInv, Accepted
<1>2. \A gate \in S : state[gate] # "visiting"
  <2>1. 1 .. Len(path) = {}
    BY <1>1
  <2>2. QED
    BY <1>1, <2>1 DEF SearchInv, PathIsVisiting
<1>3. \A gate \in S : state[gate] # "new"
  BY <1>1 DEF SearchInv, RootsPassed
<1>4. \A gate \in S : state[gate] = "done"
  BY <1>1, <1>2, <1>3 DEF TypeOK
<1>5. QED
  BY <1>1, <1>4 DEF SearchInv, DoneIsAcyclic

(***************************************************************************)
(* The search keeps one mark for every gate, and gates on its path only.   *)
(***************************************************************************)
THEOREM SearchTypeCorrect == Spec => []TypeOK
<1>1. IInv => TypeOK
  BY DEF IInv
<1>2. QED
  BY <1>1, SearchIsSound, PTL

(***************************************************************************)
(* A dependency list that detectCycle lets through has no cycle.           *)
(***************************************************************************)
THEOREM LetsThroughAcyclic == Spec => []AcceptedIsAcyclic
  BY SearchIsSound, AcceptedFromInv, PTL

(***************************************************************************)
(* A cycle that detectCycle reports is a cycle of the dependency list.     *)
(***************************************************************************)
THEOREM ReportsRealCycles == Spec => []ReportedCycleIsReal
<1>1. IInv => ReportedCycleIsReal
  BY DEF IInv
<1>2. QED
  BY <1>1, SearchIsSound, PTL

(***************************************************************************)
(* The search decides Acyclic: the definition that AuthoritativePlan uses  *)
(* for it holds of every list let through, and of none that is refused.    *)
(***************************************************************************)
THEOREM SearchDecidesAcyclic ==
  Spec => [](/\ Accepted => Acyclic(requires)
             /\ cycle # <<>> => ~ Acyclic(requires))
<1>1. ASSUME IInv, cycle # <<>>
      PROVE  ~ Acyclic(requires)
  <2> DEFINE S == {cycle[i] : i \in 1 .. Len(cycle) - 1}
  <2>1. /\ cycle \in Seq(Gates) /\ Len(cycle) \in Nat /\ Len(cycle) > 1
        /\ cycle[1] = cycle[Len(cycle)]
        /\ \A i \in 1 .. Len(cycle) - 1 : cycle[i + 1] \in requires[cycle[i]]
    BY <1>1 DEF IInv, TypeOK, ReportedCycleIsReal
  <2>2. \A i \in 1 .. Len(cycle) : cycle[i] \in Gates
    BY <2>1
  <2>3. S \in SUBSET Gates
    BY <2>1, <2>2
  <2>4. cycle[1] \in S
    BY <2>1
  <2>5. ASSUME NEW i \in 1 .. Len(cycle) - 1
        PROVE  requires[cycle[i]] \cap S # {}
    <3>1. cycle[i + 1] \in requires[cycle[i]]
      BY <2>1
    <3>2. CASE i + 1 \in 1 .. Len(cycle) - 1
      BY <3>1, <3>2
    <3>3. CASE i + 1 = Len(cycle)
      <4>1. cycle[i + 1] = cycle[1]
        BY <2>1, <3>3
      <4> QED
        BY <2>4, <3>1, <4>1
    <3> QED
      BY <2>1, <3>2, <3>3
  <2>6. \A gate \in S : requires[gate] \cap S # {}
    BY <2>5
  <2> HIDE DEF S
  <2> QED
    BY <2>3, <2>4, <2>6 DEF Acyclic
<1>2. IInv => /\ Accepted => Acyclic(requires)
              /\ cycle # <<>> => ~ Acyclic(requires)
  BY <1>1, AcceptedFromInv DEF AcceptedIsAcyclic
<1> QED
  BY <1>2, SearchIsSound, PTL
=============================================================================
