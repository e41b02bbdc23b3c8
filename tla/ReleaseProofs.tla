------------------------------ MODULE ReleaseProofs ------------------------------
(***************************************************************************)
(* Proofs about what is released: progressive delivery, for every set of   *)
(* tasks and every limit, and the trajectory gate, for every set of roles  *)
(* and tools, every baseline, data set and gate configuration.             *)
(***************************************************************************)
EXTENDS Rollout, Trajectory, FiniteSetTheorems, WellFoundedInduction, TLAPS

(* The rows of the deployments table. *)
Row == [status : {"none", "running", "rolled_back", "promoted"},
        candidate : 0 .. MaxConfigs, samples : Nat, errors : Nat,
        shadow : Nat, disagreements : Nat]

(* The part of the types that is about the row. *)
RowOK(d) == d \in Row /\ d.errors <= d.samples /\ d.disagreements <= d.shadow

(* The candidate that is running is within its budget. *)
WithinBudget(d) == d.status = "running" /\ d.samples >= MinSamples => ~OverBudget(d)

(* What one record_deployment_result does to the row: it stays a row of the *)
(* same candidate, only a running one changes its status, and one that goes *)
(* on running is within its budget.                                         *)
LEMMA RecordedRow ==
  ASSUME RowOK(dep), NEW failed \in BOOLEAN
  PROVE  /\ RowOK(Recorded(failed))
         /\ Recorded(failed).candidate = dep.candidate
         /\ Recorded(failed).status # dep.status => dep.status = "running"
         /\ WithinBudget(Recorded(failed))
<1> DEFINE c == Counted(dep, failed)
<1>1. RowOK(c) /\ c.candidate = dep.candidate /\ c.status = dep.status
  <2> DEFINE error == IF failed THEN 1 ELSE 0
  <2>1. error \in {0, 1}
    BY Zenon
  <2>2. c = [dep EXCEPT !.samples = @ + 1, !.errors = @ + error]
    BY Zenon DEF Counted
  <2> HIDE DEF error, c
  <2>3. /\ dep \in Row /\ dep.samples \in Nat /\ dep.errors \in Nat
        /\ dep.samples + 1 \in Nat /\ dep.errors + error \in Nat
        /\ dep.errors + error <= dep.samples + 1
    BY <2>1 DEF RowOK, Row
  <2>4. /\ c \in Row /\ c.samples = dep.samples + 1 /\ c.errors = dep.errors + error
        /\ c.shadow = dep.shadow /\ c.disagreements = dep.disagreements
        /\ c.candidate = dep.candidate /\ c.status = dep.status
    BY <2>2, <2>3 DEF Row
  <2> QED
    BY <2>3, <2>4 DEF RowOK
<1> HIDE DEF c
<1>2. CASE c.status = "running" /\ c.samples >= MinSamples /\ OverBudget(c)
  <2>1. Decided(c) = [c EXCEPT !.status = "rolled_back"]
    BY <1>2 DEF Decided
  <2>2. /\ RowOK(Decided(c)) /\ Decided(c).candidate = c.candidate
        /\ Decided(c).status = "rolled_back"
    BY <1>1, <2>1 DEF RowOK, Row
  <2> QED
    BY <1>1, <1>2, <2>2 DEF Recorded, c, WithinBudget
<1>3. CASE ~(c.status = "running" /\ c.samples >= MinSamples /\ OverBudget(c))
  <2>1. Decided(c) = c
    BY <1>3 DEF Decided
  <2> QED
    BY <1>1, <1>3, <2>1 DEF Recorded, c, WithinBudget
<1> QED
  BY <1>2, <1>3

(* The same for one record_shadow_observation, which counts nothing towards *)
(* the budget and promotes none but a running candidate.                    *)
LEMMA ShadowedRow ==
  ASSUME RowOK(dep), NEW disagrees \in BOOLEAN, NEW failed \in BOOLEAN
  PROVE  LET d == Shadowed(disagrees, failed)
         IN /\ RowOK(d)
            /\ d.candidate = dep.candidate
            /\ d.status # dep.status => dep.status = "running"
            /\ WithinBudget(dep) => WithinBudget(d)
<1> DEFINE o == [dep EXCEPT !.shadow = @ + 1,
                            !.disagreements = @ + IF disagrees THEN 1 ELSE 0]
           d == Shadowed(disagrees, failed)
<1>1. /\ RowOK(o) /\ o.candidate = dep.candidate /\ o.status = dep.status
      /\ o.samples = dep.samples /\ o.errors = dep.errors
  <2> DEFINE differs == IF disagrees THEN 1 ELSE 0
  <2>1. differs \in {0, 1}
    BY Zenon
  <2>2. o = [dep EXCEPT !.shadow = @ + 1, !.disagreements = @ + differs]
    BY Zenon
  <2> HIDE DEF differs, o
  <2>3. /\ dep \in Row /\ dep.shadow \in Nat /\ dep.disagreements \in Nat
        /\ dep.shadow + 1 \in Nat /\ dep.disagreements + differs \in Nat
        /\ dep.disagreements + differs <= dep.shadow + 1
    BY <2>1 DEF RowOK, Row
  <2>4. /\ o \in Row /\ o.shadow = dep.shadow + 1
        /\ o.disagreements = dep.disagreements + differs
        /\ o.samples = dep.samples /\ o.errors = dep.errors
        /\ o.candidate = dep.candidate /\ o.status = dep.status
    BY <2>2, <2>3 DEF Row
  <2> QED
    BY <2>3, <2>4 DEF RowOK
<1>2. \/ d = o
      \/ d = [o EXCEPT !.status = "promoted"] /\ o.status = "running"
  BY DEF Shadowed
<1> HIDE DEF o, d
<1>3. CASE d = o
  BY <1>1, <1>3 DEF WithinBudget, OverBudget, d
<1>4. CASE d = [o EXCEPT !.status = "promoted"] /\ o.status = "running"
  <2>1. RowOK(d) /\ d.candidate = o.candidate /\ d.status = "promoted"
    BY <1>1, <1>4 DEF RowOK, Row
  <2> QED
    BY <1>1, <1>4, <2>1 DEF WithinBudget, d
<1> QED
  BY <1>2, <1>3, <1>4

(* What any step does to the row: a new configuration replaces it, and      *)
(* everything else is one of the two records or leaves it alone.            *)
LEMMA RowStep ==
  ASSUME RowOK(dep), [Next]_rolloutVars
  PROVE  /\ RowOK(dep')
         /\ WithinBudget(dep) => WithinBudget(dep')
         /\ dep'.status # dep.status =>
              dep.status = "running" \/ dep'.candidate # dep.candidate
<1> USE RolloutAssumption
<1>1. CASE Configure
  <2>1. dep' = Fresh("running", dep.candidate + 1) /\ dep.candidate < MaxConfigs
    BY <1>1 DEF Configure
  <2>2. RowOK(dep') /\ dep'.candidate = dep.candidate + 1 /\ dep'.samples = 0
    BY <2>1 DEF Fresh, RowOK, Row
  <2> QED
    BY <2>2 DEF WithinBudget, RowOK, Row
<1>2. CASE ObserveShadow
  <2>1. PICK disagrees \in BOOLEAN, failed \in BOOLEAN : dep' = Shadowed(disagrees, failed)
    BY <1>2 DEF ObserveShadow
  <2> QED
    BY <2>1, ShadowedRow
<1>3. ASSUME NEW t \in Tasks, NEW failed \in BOOLEAN, Observe(t, failed)
      PROVE  dep' = dep \/ dep' = Recorded(failed)
  BY <1>3 DEF Observe
<1>4. CASE \E failed \in BOOLEAN : dep' = Recorded(failed)
  BY <1>4, RecordedRow
<1>5. CASE UNCHANGED dep
  BY <1>5
<1>6. ASSUME NEW t \in Tasks,
             Create(t) \/ Run(t) \/ RecordFails(t) \/ AlertFails(t) \/ Crash(t)
      PROVE  UNCHANGED dep \/ \E failed \in BOOLEAN : dep' = Recorded(failed)
  <2>1. CASE Succeed(t) \/ FailRun(t) \/ AlertFails(t)
    BY <1>3, <2>1 DEF Succeed, FailRun, AlertFails
  <2>2. CASE Create(t) \/ RecordFails(t) \/ Alert(t) \/ Finish(t) \/ Retry(t) \/ Crash(t)
    BY <2>2 DEF Create, RecordFails, Alert, Finish, Retry, Crash
  <2> QED
    BY <1>6, <2>1, <2>2 DEF Run
<1> QED
  BY <1>1, <1>2, <1>4, <1>5, <1>6 DEF Next, rolloutVars

(* Every step keeps the types. *)
LEMMA TypeStep == TypeOK /\ [Next]_rolloutVars => TypeOK'
<1> SUFFICES ASSUME TypeOK, [Next]_rolloutVars PROVE TypeOK'
  OBVIOUS
<1> USE RolloutAssumption
<1>1. RowOK(dep')
  BY RowStep DEF TypeOK, RowOK, Row
<1>2. CASE Configure
  BY <1>1, <1>2 DEF Configure, TypeOK, RowOK, Row
<1>3. CASE ObserveShadow
  <2>1. alerts' \subseteq {"rollout", "rollout-promoted"}
    BY <1>3 DEF ObserveShadow, TypeOK
  <2>2. shadows' \in 0 .. MaxShadows
    BY <1>3 DEF ObserveShadow, TypeOK
  <2>3. UNCHANGED <<lane, pc, alerting, unheard, attempt, crashes, faults>>
    BY <1>3 DEF ObserveShadow
  <2> QED
    BY <1>1, <2>1, <2>2, <2>3 DEF TypeOK, RowOK, Row
<1>4. ASSUME NEW t \in Tasks, Create(t) PROVE TypeOK'
  BY <1>1, <1>4 DEF Create, TypeOK, RowOK, Row
<1>5. ASSUME NEW t \in Tasks, NEW failed \in BOOLEAN, Observe(t, failed)
      PROVE  alerting' \in [Tasks -> 0 .. MaxConfigs] /\ unheard' \in [Tasks -> 0 .. MaxConfigs]
  BY <1>5 DEF Observe, TypeOK
<1>6. ASSUME NEW t \in Tasks, Succeed(t) PROVE TypeOK'
  BY <1>1, <1>5, <1>6 DEF Succeed, TypeOK, RowOK, Row
<1>7. ASSUME NEW t \in Tasks, FailRun(t) PROVE TypeOK'
  BY <1>1, <1>5, <1>7 DEF FailRun, TypeOK, RowOK, Row
<1>8. ASSUME NEW t \in Tasks, Alert(t) PROVE TypeOK'
  BY <1>1, <1>8 DEF Alert, TypeOK, RowOK, Row
<1>9. ASSUME NEW t \in Tasks, Finish(t) PROVE TypeOK'
  BY <1>1, <1>9 DEF Finish, TypeOK, RowOK, Row
<1>10. ASSUME NEW t \in Tasks, Retry(t) PROVE TypeOK'
  BY <1>1, <1>10 DEF Retry, TypeOK, RowOK, Row
<1>11. ASSUME NEW t \in Tasks, Crash(t) PROVE TypeOK'
  BY <1>1, <1>11 DEF Crash, TypeOK, RowOK, Row
<1>12. CASE UNCHANGED rolloutVars
  BY <1>12 DEF rolloutVars, TypeOK
<1>13. ASSUME NEW t \in Tasks, RecordFails(t) PROVE TypeOK'
  BY <1>1, <1>13 DEF RecordFails, TypeOK, RowOK, Row
<1>14. ASSUME NEW t \in Tasks, AlertFails(t) PROVE TypeOK'
  <2>1. alerting' \in [Tasks -> 0 .. MaxConfigs] /\ unheard' \in [Tasks -> 0 .. MaxConfigs]
    <3>1. CASE Observe(t, TRUE)
      BY <1>5, <3>1
    <3>2. CASE /\ alerting' = [alerting EXCEPT ![t] = 0]
               /\ unheard' = [unheard EXCEPT ![t] = alerting[t]]
      BY <3>2 DEF TypeOK
    <3> QED
      BY <1>14, <3>1, <3>2 DEF AlertFails
  <2>2. pc' = [pc EXCEPT ![t] = "retry"]
    BY <1>14 DEF AlertFails
  <2> QED
    BY <1>1, <1>14, <2>1, <2>2 DEF AlertFails, TypeOK, RowOK, Row
<1> QED
  BY <1>2, <1>3, <1>4, <1>6, <1>7, <1>8, <1>9, <1>10, <1>11, <1>12, <1>13, <1>14 DEF Next, Run

(* Every reachable state is typed; no more errors than samples are counted. *)
THEOREM TypeCorrect == Spec => []TypeOK
<1>1. Init => TypeOK
  BY RolloutAssumption DEF Init, Fresh, TypeOK
<1> QED
  BY <1>1, TypeStep, PTL DEF Spec

(* A candidate over its error budget never goes on taking traffic, with any *)
(* number of tasks, attempts and configurations.                            *)
THEOREM BudgetKept == Spec => []RunningWithinBudget
<1>1. Init => RunningWithinBudget
  BY DEF Init, Fresh, RunningWithinBudget
<1>2. TypeOK /\ RunningWithinBudget /\ [Next]_rolloutVars => RunningWithinBudget'
  BY RowStep DEF RunningWithinBudget, WithinBudget, TypeOK, RowOK, Row
<1> QED
  BY <1>1, <1>2, TypeCorrect, PTL DEF Spec

(* The verdict on a candidate is final until another one is configured. *)
THEOREM VerdictKept == Spec => VerdictFinal
<1>1. TypeOK /\ [Next]_rolloutVars
        => [dep.status \in {"rolled_back", "promoted"} /\ dep'.status # dep.status
              => dep'.candidate # dep.candidate]_rolloutVars
  BY RowStep DEF TypeOK, RowOK, Row
<1> QED
  BY <1>1, TypeCorrect, PTL DEF Spec, VerdictFinal

-------------------------------------------------------------------------------
(* The trajectory gate: numbers, sorts and the spans of a role.              *)

LEMMA UpTo == \A n \in Nat : IsFiniteSet(1 .. n) /\ Cardinality(1 .. n) = n
  BY FS_Interval

(* The place of a number among the members of a set: it grows with them and  *)
(* every place is taken.                                                     *)
LEMMA Ranks ==
  \A at : at \in SUBSET Nat /\ IsFiniteSet(at) =>
    /\ Cardinality(at) \in Nat
    /\ \A i \in at : Rank(at, i) \in 1 .. Cardinality(at)
    /\ \A i, j \in at : i < j => Rank(at, i) < Rank(at, j)
    /\ \A n \in 1 .. Cardinality(at) : \E i \in at : Rank(at, i) = n
<1> SUFFICES ASSUME NEW at \in SUBSET Nat, IsFiniteSet(at)
             PROVE  /\ Cardinality(at) \in Nat
                    /\ \A i \in at : Rank(at, i) \in 1 .. Cardinality(at)
                    /\ \A i, j \in at : i < j => Rank(at, i) < Rank(at, j)
                    /\ \A n \in 1 .. Cardinality(at) : \E i \in at : Rank(at, i) = n
  OBVIOUS
<1> DEFINE upto(i) == {j \in at : j <= i}
           N == Cardinality(at)
<1>1. N \in Nat
  BY FS_CardinalityType
<1>2. \A i : upto(i) \subseteq at
  OBVIOUS
<1>3. \A i : IsFiniteSet(upto(i)) /\ Cardinality(upto(i)) <= N /\ Cardinality(upto(i)) \in Nat
  BY <1>2, FS_Subset, FS_CardinalityType
<1>4. \A i \in at : Cardinality(upto(i)) # 0
  <2> SUFFICES ASSUME NEW i \in at PROVE Cardinality(upto(i)) # 0
    OBVIOUS
  <2>1. i \in upto(i)
    OBVIOUS
  <2> HIDE DEF upto
  <2> QED
    BY <1>3, <2>1, FS_EmptySet
<1>5. ASSUME NEW i \in at, NEW j \in at, i < j
      PROVE  Cardinality(upto(i)) < Cardinality(upto(j))
  <2>0. i \in Nat /\ j \in Nat /\ \A k \in at : k \in Nat
    OBVIOUS
  <2>4. j <= j /\ ~(j <= i) /\ \A k \in at : k <= i => k <= j
    BY <1>5, <2>0
  <2>1. upto(i) \subseteq upto(j) /\ j \in upto(j) /\ j \notin upto(i)
    BY <2>4, Zenon
  <2> HIDE DEF upto
  <2>2. upto(i) # upto(j) /\ upto(i) \subseteq upto(j)
    BY <2>1
  <2>3. Cardinality(upto(i)) <= Cardinality(upto(j))
        /\ (Cardinality(upto(i)) = Cardinality(upto(j)) => upto(i) = upto(j))
    BY <1>3, <2>2, FS_Subset
  <2> QED
    BY <1>3, <2>2, <2>3
<1> DEFINE f == [i \in at |-> Cardinality(upto(i))]
<1>6. f \in Injection(at, 1 .. N)
  <2>1. \A i \in at : Cardinality(upto(i)) \in 1 .. N
    BY <1>1, <1>3, <1>4
  <2> HIDE DEF upto, N
  <2>2. f \in [at -> 1 .. N]
    BY <2>1
  <2>3. \A i, j \in at : f[i] = f[j] => i = j
    <3> SUFFICES ASSUME NEW i \in at, NEW j \in at, i # j PROVE f[i] # f[j]
      OBVIOUS
    <3>1. i < j \/ j < i
      OBVIOUS
    <3>2. f[i] = Cardinality(upto(i)) /\ f[j] = Cardinality(upto(j))
      OBVIOUS
    <3> QED
      BY <1>3, <1>5, <3>1, <3>2
  <2> QED
    BY <2>2, <2>3 DEF Injection, IsInjective
<1>7. IsFiniteSet(1 .. N) /\ Cardinality(1 .. N) = N
  BY <1>1, UpTo
<1> HIDE DEF f
<1>8. f \in Surjection(at, 1 .. N)
  BY <1>6, <1>7, FS_Injection
<1>9. \A n \in 1 .. N : \E i \in at : f[i] = n
  BY <1>8 DEF Surjection
<1> USE DEF f
<1> HIDE DEF N
<1> QED
  BY <1>1, <1>3, <1>4, <1>5, <1>9 DEF Rank, N

(* The n-th member of a set. *)
LEMMA NthMember ==
  \A at : at \in SUBSET Nat /\ IsFiniteSet(at) =>
    /\ \A n \in 1 .. Cardinality(at) : Nth(at, n) \in at /\ Rank(at, Nth(at, n)) = n
    /\ \A i \in at : Nth(at, Rank(at, i)) = i
<1> SUFFICES ASSUME NEW at \in SUBSET Nat, IsFiniteSet(at)
             PROVE  /\ \A n \in 1 .. Cardinality(at) : Nth(at, n) \in at /\ Rank(at, Nth(at, n)) = n
                    /\ \A i \in at : Nth(at, Rank(at, i)) = i
  OBVIOUS
<1>1. /\ \A i \in at : Rank(at, i) \in 1 .. Cardinality(at)
      /\ \A i, j \in at : i < j => Rank(at, i) < Rank(at, j)
      /\ \A n \in 1 .. Cardinality(at) : \E i \in at : Rank(at, i) = n
      /\ Cardinality(at) \in Nat
  BY Ranks
<1>2. \A n \in 1 .. Cardinality(at) : Nth(at, n) \in at /\ Rank(at, Nth(at, n)) = n
  BY <1>1 DEF Nth
<1>3. \A i, j \in at : Rank(at, i) = Rank(at, j) => i = j
  <2> SUFFICES ASSUME NEW i \in at, NEW j \in at, i # j PROVE Rank(at, i) # Rank(at, j)
    OBVIOUS
  <2>1. i < j \/ j < i
    OBVIOUS
  <2>2. Rank(at, i) \in Nat /\ Rank(at, j) \in Nat
    BY <1>1
  <2> QED
    BY <1>1, <2>1, <2>2
<1> QED
  BY <1>1, <1>2, <1>3

(* A number behind all others is the last; the others keep their place.      *)
LEMMA RankBehind ==
  \A at, m : at \in SUBSET Nat /\ IsFiniteSet(at) /\ m \in Nat /\ (\A i \in at : i < m) =>
    /\ IsFiniteSet(at \cup {m}) /\ Cardinality(at \cup {m}) = Cardinality(at) + 1
    /\ Rank(at \cup {m}, m) = Cardinality(at) + 1
    /\ \A i \in at : Rank(at \cup {m}, i) = Rank(at, i)
<1> SUFFICES ASSUME NEW at \in SUBSET Nat, NEW m \in Nat, IsFiniteSet(at), \A i \in at : i < m
             PROVE  /\ IsFiniteSet(at \cup {m}) /\ Cardinality(at \cup {m}) = Cardinality(at) + 1
                    /\ Rank(at \cup {m}, m) = Cardinality(at) + 1
                    /\ \A i \in at : Rank(at \cup {m}, i) = Rank(at, i)
  OBVIOUS
<1>1. m \notin at
  OBVIOUS
<1>2. IsFiniteSet(at \cup {m}) /\ Cardinality(at \cup {m}) = Cardinality(at) + 1
  BY <1>1, FS_AddElement
<1>3. {j \in at \cup {m} : j <= m} = at \cup {m}
  <2>1. \A j \in at \cup {m} : j <= m
    OBVIOUS
  <2> QED
    BY <2>1, Zenon
<1>4. \A i \in at : {j \in at \cup {m} : j <= i} = {j \in at : j <= i}
  OBVIOUS
<1> QED
  BY <1>2, <1>3, <1>4 DEF Rank

(* One set of numbers moved into another one without a change of the order.  *)
LEMMA RankMoved ==
  \A at, P : /\ at \in SUBSET Nat /\ IsFiniteSet(at)
             /\ \A i \in at : P[i] \in Nat
             /\ \A i, j \in at : i < j => P[i] < P[j]
    => LET moved == {P[k] : k \in at} IN
       /\ IsFiniteSet(moved) /\ moved \in SUBSET Nat /\ Cardinality(moved) = Cardinality(at)
       /\ \A i \in at : Rank(moved, P[i]) = Rank(at, i)
<1> SUFFICES ASSUME NEW at \in SUBSET Nat, IsFiniteSet(at), NEW P,
                    \A i \in at : P[i] \in Nat, \A i, j \in at : i < j => P[i] < P[j]
             PROVE  /\ IsFiniteSet({P[i] : i \in at}) /\ {P[i] : i \in at} \in SUBSET Nat
                    /\ Cardinality({P[i] : i \in at}) = Cardinality(at)
                    /\ \A i \in at : Rank({P[k] : k \in at}, P[i]) = Rank(at, i)
  BY Zenon
<1>1. ASSUME NEW some \in SUBSET at
      PROVE  IsFiniteSet({P[i] : i \in some}) /\ Cardinality({P[i] : i \in some}) = Cardinality(some)
  <2> DEFINE f == [i \in some |-> P[i]]
             image == {P[i] : i \in some}
  <2>1. f \in Bijection(some, image)
    <3>1. f \in [some -> image] /\ \A n \in image : \E i \in some : f[i] = n
      OBVIOUS
    <3>2. \A i, j \in some : f[i] = f[j] => i = j
      <4> SUFFICES ASSUME NEW i \in some, NEW j \in some, i # j PROVE f[i] # f[j]
        OBVIOUS
      <4>1. i < j \/ j < i
        OBVIOUS
      <4>2. f[i] = P[i] /\ f[j] = P[j] /\ P[i] \in Nat /\ P[j] \in Nat
        OBVIOUS
      <4> QED
        BY <4>1, <4>2
    <3> HIDE DEF f, image
    <3> QED
      BY <3>1, <3>2 DEF Bijection, Injection, Surjection, IsInjective
  <2>2. IsFiniteSet(some)
    BY FS_Subset
  <2> HIDE DEF f, image
  <2>3. IsFiniteSet(image) /\ Cardinality(image) = Cardinality(some)
    BY <2>1, <2>2, FS_Bijection DEF ExistsBijection
  <2> QED
    BY <2>3 DEF image
<1>2. ASSUME NEW i \in at PROVE Rank({P[k] : k \in at}, P[i]) = Rank(at, i)
  <2>1. \A j \in at : P[j] <= P[i] <=> j <= i
    <3> SUFFICES ASSUME NEW j \in at PROVE P[j] <= P[i] <=> j <= i
      OBVIOUS
    <3>1. P[i] \in Nat /\ P[j] \in Nat /\ i \in Nat /\ j \in Nat
      OBVIOUS
    <3>2. (i < j => P[i] < P[j]) /\ (j < i => P[j] < P[i]) /\ (i = j => P[i] = P[j])
      OBVIOUS
    <3> QED
      BY <3>1, <3>2
  <2> DEFINE some == {j \in at : j <= i}
  <2>2. {n \in {P[k] : k \in at} : n <= P[i]} = {P[j] : j \in some}
    BY <2>1
  <2>3. some \in SUBSET at
    OBVIOUS
  <2>4. Rank(at, i) = Cardinality(some)
    BY DEF Rank
  <2> HIDE DEF some
  <2>5. Cardinality({P[j] : j \in some}) = Cardinality(some)
    BY <1>1, <2>3
  <2> QED
    BY <2>2, <2>4, <2>5 DEF Rank
<1> QED
  BY <1>1, <1>2

-------------------------------------------------------------------------------
(* t is s with the entry at i moved to P[i]. *)
Reorders(P, t, s, N) ==
  /\ P \in [1 .. N -> 1 .. N] /\ DOMAIN t = 1 .. N
  /\ \A i, j \in 1 .. N : P[i] = P[j] => i = j
  /\ \A n \in 1 .. N : \E i \in 1 .. N : P[i] = n
  /\ \A i \in 1 .. N : t[P[i]] = s[i]

(* A stable sort moves every entry, and none before one that it does not     *)
(* come behind by its key.                                                   *)
LEMMA Sorts ==
  ASSUME NEW N \in Nat, NEW s, DOMAIN s = 1 .. N, NEW key, \A i \in 1 .. N : key[i] \in Nat
  PROVE  \E P : /\ Reorders(P, StablySorted(s, key), s, N)
                /\ \A i, j \in 1 .. N : i < j /\ key[i] <= key[j] => P[i] < P[j]
<1> DEFINE I == 1 .. N
           before(j, i) == key[j] < key[i] \/ (key[j] = key[i] /\ j <= i)
           upto(i) == {j \in I : before(j, i)}
           P == [i \in I |-> Cardinality(upto(i))]
<1>1. IsFiniteSet(I) /\ Cardinality(I) = N
  BY UpTo
<1>2. \A i : upto(i) \subseteq I
  OBVIOUS
<1>3. \A i : IsFiniteSet(upto(i)) /\ Cardinality(upto(i)) \in Nat /\ Cardinality(upto(i)) <= N
  <2> HIDE DEF upto, I
  <2> QED
    BY <1>1, <1>2, FS_Subset, FS_CardinalityType
<1>4. \A i \in I : before(i, i)
  OBVIOUS
<1>5. \A i, j, k \in I : before(i, j) /\ before(k, i) => before(k, j)
  OBVIOUS
<1>6. \A i, j \in I : i # j /\ before(i, j) => ~before(j, i)
  OBVIOUS
<1>7. \A i, j \in I : before(i, j) \/ before(j, i)
  OBVIOUS
<1>7a. \A i, j \in I : i < j /\ key[i] <= key[j] => i # j /\ before(i, j)
  OBVIOUS
<1> HIDE DEF before
<1>8. \A i \in I : Cardinality(upto(i)) # 0
  <2> SUFFICES ASSUME NEW i \in I PROVE Cardinality(upto(i)) # 0
    OBVIOUS
  <2>1. i \in upto(i)
    BY <1>4
  <2> HIDE DEF upto
  <2> QED
    BY <1>3, <2>1, FS_EmptySet
<1>9. ASSUME NEW i \in I, NEW j \in I, i # j, before(i, j)
      PROVE  Cardinality(upto(i)) < Cardinality(upto(j))
  <2>1. upto(i) \subseteq upto(j) /\ j \in upto(j) /\ j \notin upto(i)
    BY <1>4, <1>5, <1>6, <1>9, Zenon
  <2> HIDE DEF upto
  <2>2. upto(i) # upto(j)
    BY <2>1
  <2>3. Cardinality(upto(i)) <= Cardinality(upto(j))
        /\ (Cardinality(upto(i)) = Cardinality(upto(j)) => upto(i) = upto(j))
    BY <1>3, <2>1, FS_Subset
  <2> QED
    BY <1>3, <2>2, <2>3
<1>10. /\ P \in [I -> I] /\ \A i \in I : P[i] = Cardinality(upto(i))
  <2>1. \A i \in I : Cardinality(upto(i)) \in I
    <3> HIDE DEF upto
    <3> QED
      BY <1>3, <1>8
  <2> HIDE DEF upto, I
  <2> QED
    BY <2>1
<1>11. \A i, j \in I : i # j /\ before(i, j) => P[i] < P[j]
  <2> HIDE DEF upto, P, I
  <2> QED
    BY <1>9, <1>10
<1>12. \A i, j \in I : P[i] = P[j] => i = j
  <2> SUFFICES ASSUME NEW i \in I, NEW j \in I, i # j PROVE P[i] # P[j]
    OBVIOUS
  <2>1. P[i] < P[j] \/ P[j] < P[i]
    BY <1>7, <1>11
  <2>2. P[i] \in Nat /\ P[j] \in Nat
    BY <1>10
  <2> HIDE DEF P
  <2> QED
    BY <2>1, <2>2
<1>13. \A n \in I : \E i \in I : P[i] = n
  <2>1. P \in Injection(I, I)
    <3> HIDE DEF P, I
    <3> QED
      BY <1>10, <1>12 DEF Injection, IsInjective
  <2> HIDE DEF P, I
  <2>2. P \in Surjection(I, I)
    BY <1>1, <2>1, FS_Injection
  <2> QED
    BY <2>2 DEF Surjection
<1>14. StablySorted(s, key) = [n \in I |-> s[CHOOSE i \in I : Cardinality(upto(i)) = n]]
  BY DEF StablySorted, before
<1>15. \A i \in I : StablySorted(s, key)[P[i]] = s[i]
  <2> SUFFICES ASSUME NEW i \in I PROVE StablySorted(s, key)[P[i]] = s[i]
    OBVIOUS
  <2> HIDE DEF upto, P, I
  <2> DEFINE k == CHOOSE j \in I : Cardinality(upto(j)) = P[i]
  <2>1. P[i] \in I /\ StablySorted(s, key)[P[i]] = s[k]
    BY <1>10, <1>14
  <2>2. k \in I /\ Cardinality(upto(k)) = P[i]
    BY <1>10
  <2> HIDE DEF k
  <2>3. k = i
    BY <1>10, <1>12, <2>2
  <2> QED
    BY <2>1, <2>3
<1>16. DOMAIN StablySorted(s, key) = I
  BY <1>14
<1>17. \A i, j \in I : i < j /\ key[i] <= key[j] => P[i] < P[j]
  BY <1>7a, <1>11
<1> HIDE DEF P
<1>18. Reorders(P, StablySorted(s, key), s, N)
  BY <1>10, <1>12, <1>13, <1>15, <1>16 DEF Reorders
<1> QED
  BY <1>17, <1>18

Of(log, r) == {i \in DOMAIN log : log[i].role = r}

(* The calls of a role are recorded in the order they started in.            *)
RoleByRole(log) ==
  \A i, j \in DOMAIN log : log[i].role = log[j].role /\ i < j => log[i].start <= log[j].start

LEMMA TimeOrder ==
  ASSUME NEW N \in Nat, NEW log, DOMAIN log = 1 .. N, \A i \in 1 .. N : log[i].start \in Nat
  PROVE  \E P : /\ Reorders(P, InTimeOrder(log), log, N)
                /\ RoleByRole(log) =>
                     \A i, j \in 1 .. N : i < j /\ log[i].role = log[j].role => P[i] < P[j]
<1>1. CASE \A i \in DOMAIN log : log[i].end > 0
  <2> DEFINE key == [i \in DOMAIN log |-> log[i].start]
  <2>1. InTimeOrder(log) = StablySorted(log, key)
    BY <1>1 DEF InTimeOrder
  <2>2. \A i \in 1 .. N : key[i] \in Nat /\ key[i] = log[i].start
    OBVIOUS
  <2> HIDE DEF key
  <2>3. PICK P : /\ Reorders(P, StablySorted(log, key), log, N)
                 /\ \A i, j \in 1 .. N : i < j /\ key[i] <= key[j] => P[i] < P[j]
    BY <2>2, Sorts
  <2>4. RoleByRole(log) =>
          \A i, j \in 1 .. N : i < j /\ log[i].role = log[j].role => key[i] <= key[j]
    BY <2>2 DEF RoleByRole
  <2> QED
    BY <2>1, <2>3, <2>4
<1>2. CASE ~\A i \in DOMAIN log : log[i].end > 0
  <2> DEFINE P == [i \in 1 .. N |-> i]
  <2>1. InTimeOrder(log) = log
    BY <1>2, Zenon DEF InTimeOrder
  <2>2. Reorders(P, log, log, N)
    BY DEF Reorders
  <2>3. \A i, j \in 1 .. N : i < j => P[i] < P[j]
    OBVIOUS
  <2> QED
    BY <2>1, <2>2, <2>3
<1> QED
  BY <1>1, <1>2

(* The n-th span of a role is that of the n-th of its calls.                 *)
RoleMoved(log, spans, P, r) ==
  /\ IsFiniteSet(Of(log, r)) /\ Of(log, r) \in SUBSET Nat
  /\ Cardinality(Of(log, r)) \in Nat
  /\ DOMAIN OfRole(spans, r) = 1 .. Cardinality(Of(log, r))
  /\ \A n \in 1 .. Cardinality(Of(log, r)) :
       OfRole(spans, r)[n] = spans[P[Nth(Of(log, r), n)]]

LEMMA OfRoleMoved ==
  \A N, log, spans, P, r :
    /\ N \in Nat /\ DOMAIN log = 1 .. N /\ DOMAIN spans = 1 .. N
    /\ P \in [1 .. N -> 1 .. N] /\ \A n \in 1 .. N : \E i \in 1 .. N : P[i] = n
    /\ \A i \in 1 .. N : spans[P[i]].role = log[i].role
    /\ \A i, j \in 1 .. N : i < j /\ log[i].role = log[j].role => P[i] < P[j]
    => RoleMoved(log, spans, P, r)
<1> SUFFICES
      ASSUME NEW N \in Nat, NEW log, DOMAIN log = 1 .. N, NEW spans, DOMAIN spans = 1 .. N,
             NEW P, P \in [1 .. N -> 1 .. N], \A n \in 1 .. N : \E i \in 1 .. N : P[i] = n,
             \A i \in 1 .. N : spans[P[i]].role = log[i].role,
             \A i, j \in 1 .. N : i < j /\ log[i].role = log[j].role => P[i] < P[j],
             NEW r
      PROVE  RoleMoved(log, spans, P, r)
  BY Zenon
<1> DEFINE at == Of(log, r)
           moved == {P[i] : i \in at}
           there == {i \in DOMAIN spans : spans[i].role = r}
<1>1. at \subseteq 1 .. N /\ at \in SUBSET Nat
  BY DEF Of
<1>2. IsFiniteSet(at) /\ Cardinality(at) \in Nat
  <2>1. IsFiniteSet(1 .. N)
    BY UpTo
  <2> HIDE DEF at
  <2> QED
    BY <1>1, <2>1, FS_Subset, FS_CardinalityType
<1>3. there = moved
  <2>1. ASSUME NEW n \in there PROVE n \in moved
    <3>1. n \in 1 .. N /\ spans[n].role = r
      OBVIOUS
    <3>2. PICK i \in 1 .. N : P[i] = n
      BY <3>1
    <3>3. i \in at
      BY <3>1, <3>2 DEF Of
    <3> QED
      BY <3>2, <3>3
  <2>2. ASSUME NEW i \in at PROVE P[i] \in there
    <3>1. i \in 1 .. N /\ log[i].role = r
      BY DEF Of
    <3>2. P[i] \in 1 .. N /\ spans[P[i]].role = r
      BY <3>1
    <3> QED
      BY <3>2
  <2> HIDE DEF there, at
  <2> QED
    BY <2>1, <2>2
<1>4. \A i, j \in at : i < j => P[i] < P[j]
  BY DEF Of
<1>5. OfRole(spans, r) = [n \in 1 .. Cardinality(there) |-> spans[Nth(there, n)]]
  BY DEF OfRole
<1> HIDE DEF at, there
<1>6. \A i \in at : P[i] \in Nat
  BY <1>1
<1>7. /\ IsFiniteSet(moved) /\ moved \in SUBSET Nat /\ Cardinality(moved) = Cardinality(at)
      /\ \A i \in at : Rank(moved, P[i]) = Rank(at, i)
  <2>1. LET m == {P[k] : k \in at} IN
        /\ IsFiniteSet(m) /\ m \in SUBSET Nat /\ Cardinality(m) = Cardinality(at)
        /\ \A i \in at : Rank(m, P[i]) = Rank(at, i)
    BY <1>1, <1>2, <1>4, <1>6, RankMoved, Zenon
  <2> QED
    BY <2>1, Zenon
<1>7a. \A i \in at : P[i] \in moved
  OBVIOUS
<1> HIDE DEF moved
<1>8. \A n \in 1 .. Cardinality(at) : Nth(at, n) \in at /\ Rank(at, Nth(at, n)) = n
  BY <1>1, <1>2, NthMember
<1>9. \A i \in moved : Nth(moved, Rank(moved, i)) = i
  BY <1>7, NthMember
<1>10. \A n \in 1 .. Cardinality(at) : Nth(moved, n) = P[Nth(at, n)]
  BY <1>7, <1>7a, <1>8, <1>9
<1>11. OfRole(spans, r) = [n \in 1 .. Cardinality(at) |-> spans[Nth(moved, n)]]
  BY <1>3, <1>5, <1>7
<1> DEFINE n_th(n) == Nth(moved, n)
           size == Cardinality(at)
<1>12. OfRole(spans, r) = [n \in 1 .. size |-> spans[n_th(n)]]
  BY <1>11
<1>13. \A n \in 1 .. size : n_th(n) = P[Nth(at, n)]
  BY <1>10
<1> HIDE DEF n_th, size
<1>14. DOMAIN OfRole(spans, r) = 1 .. size
  BY <1>12
<1>15. \A n \in 1 .. size : OfRole(spans, r)[n] = spans[n_th(n)]
  BY <1>12
<1>16. \A n \in 1 .. size : OfRole(spans, r)[n] = spans[P[Nth(at, n)]]
  BY <1>13, <1>15, Zenon
<1> QED
  BY <1>1, <1>2, <1>14, <1>16 DEF at, size, RoleMoved

-------------------------------------------------------------------------------
(* The ledger and the roles. *)

Deed == [tool : Tools, asserted : BOOLEAN, ok : BOOLEAN]
Entry == [role : Roles, tool : Tools, asserted : BOOLEAN, ok : BOOLEAN, start : Nat, end : Nat]
Begun == [tool : Tools, asserted : BOOLEAN, ok : BOOLEAN, start : Nat]

(* What is left of a call when the time and the role are forgotten.          *)
Reduced(call) == [tool |-> call.tool, asserted |-> call.asserted, ok |-> call.ok]

(* The entries of a role are its calls, in the order it made them.           *)
Tells(log, deeds, r) ==
  /\ Len(deeds) = Cardinality(Of(log, r))
  /\ \A i \in Of(log, r) : deeds[Rank(Of(log, r), i)] = Reduced(log[i])

LedgerTyped ==
  /\ models \in Seq([ok : BOOLEAN]) /\ tools \in Seq(Entry)
  /\ did \in [Roles -> Seq(Deed)] /\ calls \in [Runs -> Begun \cup {NoCall}]
  /\ clock \in Nat /\ answered \in BOOLEAN /\ resumes \in Nat /\ overlapped \in BOOLEAN

(* The checkpoint holds the ledger as it was. *)
SavedTyped ==
  /\ saved.models \in Seq([ok : BOOLEAN]) /\ saved.tools \in Seq(Entry)
  /\ saved.did \in [Roles -> Seq(Deed)]

(* A call of a role starts after all that are recorded of the role.          *)
StartedLast(q) ==
  /\ calls[q].start <= clock
  /\ \A i \in DOMAIN tools : tools[i].role = RoleOf[q] => tools[i].start <= calls[q].start

InTime ==
  /\ \A i \in DOMAIN tools : tools[i].start <= clock
  /\ \A q \in Runs : calls[q] # NoCall => StartedLast(q)

(* Of the runs of a role one at a time has a call under way.                 *)
Alone ==
  \A p, q \in Runs :
    calls[p] # NoCall /\ calls[q] # NoCall /\ RoleOf[p] = RoleOf[q] => p = q

Conduct ==
  /\ InTime /\ Alone /\ RoleByRole(tools)
  /\ \A r \in Roles : Tells(tools, did[r], r)

(* A resumed review has two clocks and the calls of a worker that did not    *)
(* report; two runs of one role that overlap have no order.                  *)
ConductInv == LedgerTyped /\ SavedTyped /\ (Accountable => Conduct)

LEMMA OfFinite ==
  ASSUME NEW log, NEW N \in Nat, DOMAIN log = 1 .. N, NEW r
  PROVE  Of(log, r) \in SUBSET Nat /\ IsFiniteSet(Of(log, r)) /\ \A i \in Of(log, r) : i <= N
<1> DEFINE at == Of(log, r)
<1>1. at \subseteq 1 .. N /\ at \in SUBSET Nat /\ \A i \in at : i <= N
  BY DEF Of
<1>2. IsFiniteSet(1 .. N)
  BY UpTo
<1> HIDE DEF at
<1>3. IsFiniteSet(at)
  BY <1>1, <1>2, FS_Subset
<1> QED
  BY <1>1, <1>3 DEF at

(* Recording the call that a role has just made. *)
LEMMA Told ==
  ASSUME NEW log \in Seq(Entry), NEW entry \in Entry, NEW deeds \in Seq(Deed), NEW r,
         Tells(log, deeds, r)
  PROVE  /\ entry.role # r => Tells(Append(log, entry), deeds, r)
         /\ entry.role = r => Tells(Append(log, entry), Append(deeds, Reduced(entry)), r)
<1> DEFINE longer == Append(log, entry)
           at == Of(log, r)
           m == Len(log) + 1
<1>1. /\ Len(log) \in Nat /\ m \in Nat /\ DOMAIN log = 1 .. Len(log) /\ DOMAIN longer = 1 .. m
      /\ longer[m] = entry /\ \A i \in DOMAIN log : longer[i] = log[i]
  OBVIOUS
<1>2. at \in SUBSET Nat /\ IsFiniteSet(at) /\ \A i \in at : i <= Len(log)
  BY <1>1, OfFinite
<1>2a. \A i \in at : i \in DOMAIN log /\ i < m
  BY <1>1, <1>2 DEF Of
<1>3. Cardinality(at) \in Nat /\ \A i \in at : Rank(at, i) \in 1 .. Cardinality(at)
  BY <1>2, Ranks
<1>4. Len(deeds) = Cardinality(at) /\ \A i \in at : deeds[Rank(at, i)] = Reduced(log[i])
  BY DEF Tells
<1>5. CASE entry.role # r
  <2>1. Of(longer, r) = at
    <3>1. \A i \in DOMAIN longer : i \in DOMAIN log \/ i = m
      BY <1>1
    <3>2. DOMAIN log \subseteq DOMAIN longer
      BY <1>1
    <3> HIDE DEF longer, m
    <3> QED
      BY <1>1, <1>5, <3>1, <3>2 DEF Of
  <2>2. \A i \in at : Reduced(longer[i]) = Reduced(log[i])
    BY <1>1, <1>2a
  <2> HIDE DEF longer, at
  <2> QED
    BY <1>4, <1>5, <2>1, <2>2 DEF Tells, longer
<1>6. CASE entry.role = r
  <2>1. Of(longer, r) = at \cup {m}
    <3>1. \A i \in DOMAIN longer : i \in DOMAIN log \/ i = m
      BY <1>1
    <3>2. DOMAIN log \subseteq DOMAIN longer /\ m \in DOMAIN longer
      BY <1>1
    <3> HIDE DEF longer, m
    <3> QED
      BY <1>1, <1>6, <3>1, <3>2 DEF Of
  <2> DEFINE told == Append(deeds, Reduced(entry))
  <2>2. \A i \in at : longer[i] = log[i]
    BY <1>1, <1>2a
  <2>3. Reduced(entry) \in Deed
    BY DEF Reduced, Entry, Deed
  <2>4. /\ Len(told) = Len(deeds) + 1 /\ told[Len(deeds) + 1] = Reduced(entry)
        /\ \A i \in 1 .. Len(deeds) : told[i] = deeds[i]
    BY <2>3
  <2> HIDE DEF longer, at, m, told
  <2>5. /\ Cardinality(at \cup {m}) = Cardinality(at) + 1
        /\ Rank(at \cup {m}, m) = Cardinality(at) + 1
        /\ \A i \in at : Rank(at \cup {m}, i) = Rank(at, i)
    BY <1>1, <1>2, <1>2a, RankBehind
  <2>6. ASSUME NEW i \in at \cup {m}
        PROVE  told[Rank(at \cup {m}, i)] = Reduced(longer[i])
    <3>1. CASE i = m
      BY <1>1, <1>4, <2>4, <2>5, <3>1
    <3>2. CASE i \in at
      <4>1. Rank(at \cup {m}, i) = Rank(at, i) /\ Rank(at, i) \in 1 .. Len(deeds)
        BY <1>3, <1>4, <2>5, <3>2
      <4>2. told[Rank(at, i)] = deeds[Rank(at, i)] /\ deeds[Rank(at, i)] = Reduced(log[i])
        BY <1>4, <2>4, <3>2, <4>1
      <4>3. longer[i] = log[i]
        BY <2>2, <3>2
      <4> QED
        BY <4>1, <4>2, <4>3
    <3> QED
      BY <3>1, <3>2
  <2>7. Len(told) = Cardinality(at \cup {m})
    BY <1>4, <2>4, <2>5
  <2>8. Tells(longer, told, r)
    BY <2>1, <2>6, <2>7, Zenon DEF Tells
  <2> QED
    BY <1>6, <2>8 DEF longer, told
<1> QED
  BY <1>5, <1>6

LEMMA ConductStart == TrajectoryInit => ConductInv
<1> SUFFICES ASSUME TrajectoryInit PROVE ConductInv
  OBVIOUS
<1>1. LedgerTyped
  <2>1. /\ models = <<>> /\ tools = <<>> /\ clock = 0 /\ answered = FALSE
        /\ calls = [q \in Runs |-> NoCall] /\ did = [r \in Roles |-> <<>>] /\ resumes = 0
        /\ overlapped = FALSE
    BY DEF TrajectoryInit
  <2>2. models \in Seq([ok : BOOLEAN]) /\ tools \in Seq(Entry) /\ <<>> \in Seq(Deed)
    BY <2>1
  <2>3. did \in [Roles -> Seq(Deed)] /\ calls \in [Runs -> Begun \cup {NoCall}]
    BY <2>1, <2>2
  <2> QED
    BY <2>1, <2>2, <2>3 DEF LedgerTyped
<1>2. \A r : Of(tools, r) = {}
  BY DEF TrajectoryInit, Of
<1>3. \A r \in Roles : Tells(tools, did[r], r)
  <2> SUFFICES ASSUME NEW r \in Roles PROVE Tells(tools, did[r], r)
    OBVIOUS
  <2>1. did[r] = << >>
    BY DEF TrajectoryInit
  <2> QED
    BY <1>2, <2>1, FS_EmptySet DEF Tells
<1>4. InTime /\ Alone /\ RoleByRole(tools)
  BY DEF TrajectoryInit, InTime, Alone, RoleByRole
<1>5. SavedTyped
  <2>1. saved.models = <<>> /\ saved.tools = <<>> /\ saved.did = [r \in Roles |-> <<>>]
    BY DEF TrajectoryInit
  <2>2. <<>> \in Seq(Deed) /\ <<>> \in Seq(Entry) /\ <<>> \in Seq([ok : BOOLEAN])
    OBVIOUS
  <2> QED
    BY <2>1, <2>2 DEF SavedTyped
<1> QED
  BY <1>1, <1>3, <1>4, <1>5 DEF ConductInv, Conduct

(* The types of the ledger and of its checkpoint are kept.                   *)
LEMMA TypesStep ==
  LedgerTyped /\ SavedTyped /\ [TrajectoryNext]_trajectoryVars => LedgerTyped' /\ SavedTyped'
<1> SUFFICES ASSUME LedgerTyped, SavedTyped, [TrajectoryNext]_trajectoryVars
             PROVE  LedgerTyped' /\ SavedTyped'
  OBVIOUS
<1>1. /\ models \in Seq([ok : BOOLEAN]) /\ tools \in Seq(Entry)
      /\ did \in [Roles -> Seq(Deed)] /\ calls \in [Runs -> Begun \cup {NoCall}]
      /\ clock \in Nat /\ answered \in BOOLEAN /\ resumes \in Nat /\ overlapped \in BOOLEAN
      /\ saved.models \in Seq([ok : BOOLEAN]) /\ saved.tools \in Seq(Entry)
      /\ saved.did \in [Roles -> Seq(Deed)]
  BY DEF LedgerTyped, SavedTyped
<1>2. \A ok \in BOOLEAN : ModelCall(ok) \in Seq([ok : BOOLEAN])
  <2> SUFFICES ASSUME NEW ok \in BOOLEAN PROVE ModelCall(ok) \in Seq([ok : BOOLEAN])
    OBVIOUS
  <2> DEFINE said == [ok |-> ok]
  <2>1. said \in [ok : BOOLEAN] /\ ModelCall(ok) = Append(models, said)
    BY DEF ModelCall
  <2> HIDE DEF said
  <2> QED
    BY <1>1, <2>1
<1>3. ASSUME NEW where, Checkpoint(where), models' \in Seq([ok : BOOLEAN])
      PROVE  SavedTyped'
  <2> DEFINE kept == [r \in Roles |-> IF RunsOf(r) \subseteq reported' THEN did[r] ELSE <<>>]
  <2>1. kept \in [Roles -> Seq(Deed)]
    <3>1. <<>> \in Seq(Deed) /\ \A r \in Roles : did[r] \in Seq(Deed)
      BY <1>1
    <3> QED
      BY <3>1
  <2>2. saved' = [models |-> models', tools |-> tools, phase |-> where, reported |-> reported',
                  did |-> kept]
    BY <1>3, Zenon DEF Checkpoint
  <2> HIDE DEF kept
  <2>3. saved'.models = models' /\ saved'.tools = tools /\ saved'.did = kept
    BY <2>2
  <2> QED
    BY <1>1, <1>3, <2>1, <2>3 DEF SavedTyped
<1>4. CASE ModelRetries
  BY <1>1, <1>2, <1>4 DEF ModelRetries, LedgerTyped, SavedTyped
<1>5. CASE Plan
  <2>1. models' \in Seq([ok : BOOLEAN])
    BY <1>2, <1>5 DEF Plan
  <2> QED
    BY <1>1, <1>3, <1>5, <2>1 DEF Plan, LedgerTyped
<1>6. CASE Conclude
  BY <1>1, <1>2, <1>6 DEF Conclude, LedgerTyped, SavedTyped
<1>7. CASE Tick
  BY <1>1, <1>7 DEF Tick, LedgerTyped, SavedTyped
<1>8. CASE Resume
  <2>1. calls' \in [Runs -> Begun \cup {NoCall}]
    BY <1>8 DEF Resume
  <2>2. models' = saved.models /\ tools' = saved.tools /\ did' = saved.did /\ clock' = 0
        /\ saved' = saved /\ resumes' = resumes + 1 /\ answered' = answered
        /\ overlapped' = overlapped
    BY <1>8 DEF Resume
  <2> QED
    BY <1>1, <2>1, <2>2 DEF LedgerTyped, SavedTyped
<1>9. ASSUME NEW q \in Runs, Invoke(q) PROVE LedgerTyped' /\ SavedTyped'
  <2>1. PICK tool \in Tools, asserted \in BOOLEAN, ok \in BOOLEAN :
          calls' = [calls EXCEPT ![q] =
            [tool |-> tool, asserted |-> asserted, ok |-> ok, start |-> clock]]
    BY <1>9 DEF Invoke
  <2>2. [tool |-> tool, asserted |-> asserted, ok |-> ok, start |-> clock] \in Begun
    BY <1>1 DEF Begun
  <2>3. calls' \in [Runs -> Begun \cup {NoCall}]
    BY <1>1, <2>1, <2>2
  <2> QED
    BY <1>1, <1>9, <2>3 DEF Invoke, LedgerTyped, SavedTyped
<1>10. ASSUME NEW q \in Runs, Record(q) PROVE LedgerTyped' /\ SavedTyped'
  <2>0. calls[q] \in Begun
    BY <1>1, <1>10 DEF Record
  <2> DEFINE r == RoleOf[q]
             entry == [role |-> r, tool |-> calls[q].tool, asserted |-> calls[q].asserted,
                       ok |-> calls[q].ok, start |-> calls[q].start, end |-> clock]
             deed == [tool |-> calls[q].tool, asserted |-> calls[q].asserted, ok |-> calls[q].ok]
  <2>1. r \in Roles /\ entry \in Entry /\ deed \in Deed
    BY <1>1, <2>0, TrajectoryAssumption DEF Entry, Deed, Begun
  <2>2. tools' = Append(tools, entry) /\ did' = [did EXCEPT ![r] = Append(@, deed)]
        /\ calls' = [calls EXCEPT ![q] = NoCall]
    BY <1>10 DEF Record
  <2> HIDE DEF r, entry, deed
  <2>3. Append(did[r], deed) \in Seq(Deed)
    BY <1>1, <2>1
  <2>4. /\ tools' \in Seq(Entry) /\ did' \in [Roles -> Seq(Deed)]
        /\ calls' \in [Runs -> Begun \cup {NoCall}]
    BY <1>1, <2>1, <2>2, <2>3
  <2> QED
    BY <1>1, <1>10, <2>4 DEF Record, LedgerTyped, SavedTyped
<1>11. ASSUME NEW q \in Runs, Report(q) PROVE LedgerTyped' /\ SavedTyped'
  <2>1. models' \in Seq([ok : BOOLEAN])
    BY <1>2, <1>11 DEF Report
  <2> QED
    BY <1>1, <1>3, <1>11, <2>1 DEF Report, LedgerTyped
<1>12. CASE UNCHANGED trajectoryVars
  BY <1>1, <1>12 DEF trajectoryVars, LedgerTyped, SavedTyped
<1>13. ASSUME NEW q \in Runs, Unrecorded(q) PROVE LedgerTyped' /\ SavedTyped'
  BY <1>1, <1>13 DEF Unrecorded, LedgerTyped, SavedTyped
<1> QED
  BY <1>4, <1>5, <1>6, <1>7, <1>8, <1>9, <1>10, <1>11, <1>12, <1>13 DEF TrajectoryNext

(* So is the account, as long as the review is accountable.                  *)
LEMMA ConductStep == ConductInv /\ [TrajectoryNext]_trajectoryVars => ConductInv'
<1> SUFFICES ASSUME ConductInv, [TrajectoryNext]_trajectoryVars PROVE ConductInv'
  OBVIOUS
<1>1. LedgerTyped /\ LedgerTyped' /\ SavedTyped'
  BY TypesStep DEF ConductInv
<1> SUFFICES ASSUME resumes' = 0, ~overlapped' PROVE Conduct'
  BY <1>1 DEF ConductInv, Accountable
<1>2. ~Resume
  BY <1>1 DEF Resume, LedgerTyped
<1>3. resumes' = resumes
  BY <1>2 DEF TrajectoryNext, ModelRetries, Plan, Conclude, Tick, Invoke, Record, Unrecorded,
         Report, trajectoryVars
<1>3a. ~overlapped
  BY <1>2, Zenon DEF TrajectoryNext, ModelRetries, Plan, Conclude, Tick, Invoke, Record,
         Unrecorded, Report, trajectoryVars
<1>4. InTime /\ Alone /\ RoleByRole(tools) /\ \A r \in Roles : Tells(tools, did[r], r)
  BY <1>3, <1>3a DEF ConductInv, Conduct, Accountable
<1>5. /\ tools \in Seq(Entry) /\ did \in [Roles -> Seq(Deed)]
      /\ calls \in [Runs -> Begun \cup {NoCall}] /\ clock \in Nat
  BY <1>1 DEF LedgerTyped
<1>6. ASSUME UNCHANGED <<tools, did>>
      PROVE  RoleByRole(tools)' /\ \A r \in Roles : Tells(tools, did[r], r)'
  BY <1>4, <1>6 DEF RoleByRole, Tells, Of
<1>7. CASE UNCHANGED <<tools, calls, did, clock>>
  BY <1>4, <1>6, <1>7 DEF Conduct, InTime, StartedLast, Alone
<1>8. CASE Tick
  <2>1. UNCHANGED <<tools, calls, did>> /\ clock' = clock + 1
    BY <1>8 DEF Tick
  <2>2. \A i \in DOMAIN tools : tools[i].start \in Nat
    <3>1. \A i \in DOMAIN tools : tools[i] \in Entry
      BY <1>5
    <3> QED
      BY <3>1 DEF Entry
  <2>3. \A q \in Runs : calls[q] # NoCall => calls[q].start \in Nat
    BY <1>5 DEF Begun
  <2>4. InTime' /\ Alone'
    BY <1>4, <1>5, <2>1, <2>2, <2>3 DEF InTime, StartedLast, Alone
  <2> QED
    BY <1>6, <2>1, <2>4 DEF Conduct
<1>9. ASSUME NEW r \in Runs, Invoke(r) PROVE Conduct'
  <2>1. PICK tool \in Tools, asserted \in BOOLEAN, ok \in BOOLEAN :
          calls' = [calls EXCEPT ![r] =
            [tool |-> tool, asserted |-> asserted, ok |-> ok, start |-> clock]]
    BY <1>9 DEF Invoke
  <2> DEFINE call == [tool |-> tool, asserted |-> asserted, ok |-> ok, start |-> clock]
  <2>2. UNCHANGED <<tools, did, clock>> /\ calls' = [calls EXCEPT ![r] = call] /\ call.start = clock
    BY <1>9, <2>1 DEF Invoke
  <2> HIDE DEF call
  <2>3. InTime'
    <3>1. \A i \in DOMAIN tools : tools[i].start <= clock
      BY <1>4 DEF InTime
    <3> SUFFICES ASSUME NEW q \in Runs, calls'[q] # NoCall
                 PROVE  /\ calls'[q].start <= clock
                        /\ \A i \in DOMAIN tools :
                             tools[i].role = RoleOf[q] => tools[i].start <= calls'[q].start
      BY <2>2, <3>1 DEF InTime, StartedLast
    <3>2. CASE q = r
      <4>1. calls'[q] = call
        BY <1>5, <2>2, <3>2
      <4> QED
        BY <1>5, <2>2, <3>1, <4>1
    <3>3. CASE q # r
      <4>1. calls'[q] = calls[q]
        BY <1>5, <2>2, <3>3
      <4> QED
        BY <1>4, <4>1 DEF InTime, StartedLast
    <3> QED
      BY <3>2, <3>3
  <2>4. Calling(RoleOf[r]) = {}
    BY <1>9 DEF Invoke
  <2>5. \A q \in Runs : RoleOf[q] = RoleOf[r] => calls[q] = NoCall
    BY <2>4 DEF Calling, RunsOf
  <2>6. \A q \in Runs : q # r => calls'[q] = calls[q]
    BY <1>5, <2>2
  <2>7. Alone'
    BY <1>4, <2>5, <2>6 DEF Alone
  <2> QED
    BY <1>6, <2>2, <2>3, <2>7 DEF Conduct
<1>10. ASSUME NEW q \in Runs, Record(q) PROVE Conduct'
  <2>1. clock' = clock /\ calls[q] # NoCall /\ calls' = [calls EXCEPT ![q] = NoCall]
    BY <1>10 DEF Record
  <2> DEFINE r == RoleOf[q]
             entry == [role |-> r, tool |-> calls[q].tool, asserted |-> calls[q].asserted,
                       ok |-> calls[q].ok, start |-> calls[q].start, end |-> clock]
  <2>2. calls[q] \in Begun /\ r \in Roles
    BY <1>5, <2>1, TrajectoryAssumption
  <2>3. /\ entry \in Entry /\ entry.role = r /\ entry.start = calls[q].start
        /\ Reduced(entry) = [tool |-> calls[q].tool, asserted |-> calls[q].asserted, ok |-> calls[q].ok]
    BY <1>5, <2>2 DEF Entry, Begun, Reduced
  <2> HIDE DEF entry
  <2>4. tools' = Append(tools, entry) /\ did' = [did EXCEPT ![r] = Append(@, Reduced(entry))]
    BY <1>10, <2>3 DEF Record, entry
  <2> HIDE DEF r
  <2>5. /\ Len(tools) \in Nat /\ DOMAIN tools = 1 .. Len(tools)
        /\ DOMAIN tools' = DOMAIN tools \cup {Len(tools) + 1}
        /\ tools'[Len(tools) + 1] = entry /\ \A i \in DOMAIN tools : tools'[i] = tools[i]
    BY <1>5, <2>3, <2>4
  <2>6. entry.start <= clock /\ \A i \in DOMAIN tools : tools[i].role = r => tools[i].start <= entry.start
    BY <1>4, <2>1, <2>3 DEF InTime, StartedLast, r
  <2>7. InTime' /\ Alone'
    <3>1. \A i \in DOMAIN tools' : tools'[i].start <= clock
      BY <1>4, <2>5, <2>6 DEF InTime
    <3>2. ASSUME NEW p \in Runs, calls'[p] # NoCall
          PROVE  /\ calls'[p].start <= clock
                 /\ \A i \in DOMAIN tools' :
                      tools'[i].role = RoleOf[p] => tools'[i].start <= calls'[p].start
      <4>1. p # q /\ calls'[p] = calls[p]
        BY <1>5, <2>1, <3>2
      <4>2. /\ calls[p].start <= clock
            /\ \A i \in DOMAIN tools : tools[i].role = RoleOf[p] => tools[i].start <= calls[p].start
        BY <1>4, <3>2, <4>1 DEF InTime, StartedLast
      <4>3. RoleOf[p] # r
        BY <1>4, <2>1, <3>2, <4>1 DEF Alone, r
      <4> QED
        BY <2>3, <2>5, <4>1, <4>2, <4>3
    <3>3. \A p \in Runs : calls'[p] # NoCall => calls'[p] = calls[p]
      BY <1>5, <2>1
    <3>4. Alone'
      BY <1>4, <3>3 DEF Alone
    <3> QED
      BY <2>1, <3>1, <3>2, <3>4 DEF InTime, StartedLast
  <2>8. RoleByRole(tools)'
    <3> SUFFICES ASSUME NEW i \in DOMAIN tools', NEW j \in DOMAIN tools',
                        tools'[i].role = tools'[j].role, i < j
                 PROVE  tools'[i].start <= tools'[j].start
      BY DEF RoleByRole
    <3>1. i \in DOMAIN tools
      BY <2>5
    <3>2. CASE j \in DOMAIN tools
      BY <1>4, <2>5, <3>1, <3>2 DEF RoleByRole
    <3>3. CASE j = Len(tools) + 1
      BY <2>3, <2>5, <2>6, <3>1, <3>3
    <3> QED
      BY <2>5, <3>2, <3>3
  <2>9. ASSUME NEW s \in Roles PROVE Tells(tools', did'[s], s)
    <3>1. did[s] \in Seq(Deed) /\ Tells(tools, did[s], s)
      BY <1>4, <1>5
    <3>2. /\ entry.role # s => Tells(Append(tools, entry), did[s], s)
          /\ entry.role = s => Tells(Append(tools, entry), Append(did[s], Reduced(entry)), s)
      BY <1>5, <2>3, <3>1, Told
    <3>3. did'[s] = IF s = r THEN Append(did[s], Reduced(entry)) ELSE did[s]
      BY <1>5, <2>4
    <3> QED
      BY <2>3, <2>4, <3>2, <3>3
  <2> QED
    BY <2>7, <2>8, <2>9 DEF Conduct
<1>11. CASE \E q \in Runs : Report(q) \/ Unrecorded(q)
  BY <1>7, <1>11 DEF Report, Unrecorded
<1>12. CASE ModelRetries \/ Plan \/ Conclude \/ UNCHANGED trajectoryVars
  BY <1>7, <1>12 DEF ModelRetries, Plan, Conclude, trajectoryVars
<1> QED
  BY <1>2, <1>8, <1>9, <1>10, <1>11, <1>12 DEF TrajectoryNext

-------------------------------------------------------------------------------
(* The trajectory of the ledger has of each role what it did. *)

Spans == ToolSpans(InTimeOrder(tools))

Span == [step : Nat \ {0}, role : Roles, tool : Tools, asserted : BOOLEAN, error : BOOLEAN]

LEMMA SpansTyped ==
  ASSUME LedgerTyped
  PROVE  Spans \in Seq(Span) /\ \A i \in DOMAIN Spans : Spans[i].step = i + 1
<1> DEFINE N == Len(tools)
           sorted == InTimeOrder(tools)
<1>1. tools \in Seq(Entry) /\ N \in Nat /\ DOMAIN tools = 1 .. N
  BY DEF LedgerTyped
<1>2. \A i \in 1 .. N : tools[i] \in Entry
  BY <1>1
<1>3. \A i \in 1 .. N : tools[i].start \in Nat
  BY <1>2 DEF Entry
<1> HIDE DEF N
<1>4. PICK P : Reorders(P, InTimeOrder(tools), tools, N)
  BY <1>1, <1>3, TimeOrder
<1> HIDE DEF sorted
<1>5. DOMAIN sorted = 1 .. N /\ \A i \in 1 .. N : sorted[i] \in Entry
  <2>1. /\ DOMAIN sorted = 1 .. N /\ \A n \in 1 .. N : \E i \in 1 .. N : P[i] = n
        /\ \A i \in 1 .. N : sorted[P[i]] = tools[i]
    BY <1>4 DEF Reorders, sorted
  <2> QED
    BY <1>2, <2>1
<1> DEFINE span(i) == [step |-> i + 1, role |-> sorted[i].role, tool |-> sorted[i].tool,
                       asserted |-> sorted[i].asserted, error |-> ~sorted[i].ok]
<1>6. Spans = [i \in 1 .. N |-> span(i)]
  BY <1>5, Zenon DEF Spans, ToolSpans, sorted
<1>7. ASSUME NEW i \in 1 .. N PROVE span(i) \in Span /\ span(i).step = i + 1
  <2> DEFINE gone == ~sorted[i].ok
  <2>1. gone \in BOOLEAN
    OBVIOUS
  <2>2. span(i) = [step |-> i + 1, role |-> sorted[i].role, tool |-> sorted[i].tool,
                   asserted |-> sorted[i].asserted, error |-> gone]
    OBVIOUS
  <2>3. /\ i + 1 \in Nat \ {0} /\ sorted[i].role \in Roles /\ sorted[i].tool \in Tools
        /\ sorted[i].asserted \in BOOLEAN
    BY <1>1, <1>5 DEF Entry
  <2> HIDE DEF gone, span
  <2> QED
    BY <2>1, <2>2, <2>3 DEF Span
<1> HIDE DEF span
<1>8. DOMAIN Spans = 1 .. N /\ \A i \in 1 .. N : Spans[i] = span(i)
  BY <1>6
<1>9. Spans \in Seq(Span)
  BY <1>1, <1>6, <1>7
<1> QED
  BY <1>7, <1>8, <1>9

(* The spans of a role. *)
HasRole(spans, r) ==
  /\ \E m \in Nat : DOMAIN OfRole(spans, r) = 1 .. m
  /\ \A i \in DOMAIN OfRole(spans, r) : \E k \in DOMAIN spans :
       spans[k].role = r /\ OfRole(spans, r)[i] = spans[k]
  /\ \A k \in DOMAIN spans : spans[k].role = r =>
       \E i \in DOMAIN OfRole(spans, r) : OfRole(spans, r)[i] = spans[k]

LEMMA RoleSpans == \A spans \in Seq(Span) : \A r : HasRole(spans, r)
<1> SUFFICES ASSUME NEW spans \in Seq(Span), NEW r PROVE HasRole(spans, r)
  OBVIOUS
<1> DEFINE at == Of(spans, r)
           size == Cardinality(at)
<1>1. /\ at \in SUBSET Nat /\ IsFiniteSet(at)
      /\ \A k \in at : k \in DOMAIN spans /\ spans[k].role = r
      /\ \A k \in DOMAIN spans : spans[k].role = r => k \in at
  <2>1. at \in SUBSET Nat /\ IsFiniteSet(at)
    <3>1. Len(spans) \in Nat /\ DOMAIN spans = 1 .. Len(spans)
      OBVIOUS
    <3> QED
      BY <3>1, OfFinite
  <2> QED
    BY <2>1 DEF Of
<1>2. OfRole(spans, r) = [n \in 1 .. size |-> spans[Nth(at, n)]]
  BY Zenon DEF OfRole, Of
<1> HIDE DEF at
<1>3. /\ size \in Nat
      /\ \A n \in 1 .. size : Nth(at, n) \in at
      /\ \A k \in at : Rank(at, k) \in 1 .. size /\ Nth(at, Rank(at, k)) = k
  BY <1>1, Ranks, NthMember
<1> DEFINE nth(n) == Nth(at, n)
<1>4. /\ \A n \in 1 .. size : nth(n) \in at
      /\ \A k \in at : \E n \in 1 .. size : nth(n) = k
  BY <1>3
<1>5. OfRole(spans, r) = [n \in 1 .. size |-> spans[nth(n)]]
  BY <1>2
<1> HIDE DEF nth, size
<1>6. DOMAIN OfRole(spans, r) = 1 .. size /\ \A n \in 1 .. size : OfRole(spans, r)[n] = spans[nth(n)]
  BY <1>5
<1> QED
  BY <1>1, <1>3, <1>4, <1>6, Zenon DEF HasRole, size

(* The spans of a role are its calls.                                        *)
SpansTell(r) ==
  /\ DOMAIN OfRole(Spans, r) = 1 .. Len(did[r])
  /\ \A n \in 1 .. Len(did[r]) :
       /\ OfRole(Spans, r)[n].tool = did[r][n].tool

(* Every span is a call of its role, and every call has a span.              *)
SpansAccount ==
  /\ DOMAIN Spans = 1 .. Len(tools)
  /\ \A k \in DOMAIN Spans : Spans[k].role \in Roles
  /\ \A k \in DOMAIN Spans : \E n \in DOMAIN did[Spans[k].role] :
       /\ Spans[k].asserted = did[Spans[k].role][n].asserted
       /\ Spans[k].error = ~did[Spans[k].role][n].ok
  /\ \A r \in Roles : \A n \in DOMAIN did[r] : \E k \in DOMAIN Spans :
       /\ Spans[k].role = r
       /\ Spans[k].asserted = did[r][n].asserted
       /\ Spans[k].error = ~did[r][n].ok

LEMMA SpansOfLedger ==
  ASSUME LedgerTyped, Conduct
  PROVE  SpansAccount /\ \A r \in Roles : SpansTell(r)
<1> DEFINE N == Len(tools)
           sorted == InTimeOrder(tools)
<1>1. /\ tools \in Seq(Entry) /\ N \in Nat /\ DOMAIN tools = 1 .. N
      /\ did \in [Roles -> Seq(Deed)] /\ RoleByRole(tools)
      /\ \A r \in Roles : Tells(tools, did[r], r)
  BY DEF Conduct, LedgerTyped
<1>2. \A i \in 1 .. N : tools[i].role \in Roles /\ tools[i].start \in Nat
  <2>1. \A i \in 1 .. N : tools[i] \in Entry
    BY <1>1
  <2> QED
    BY <2>1 DEF Entry
<1> HIDE DEF N
<1>3. PICK P : /\ Reorders(P, InTimeOrder(tools), tools, N)
               /\ \A i, j \in 1 .. N : i < j /\ tools[i].role = tools[j].role => P[i] < P[j]
  BY <1>1, <1>2, TimeOrder
<1> HIDE DEF sorted
<1>4. /\ P \in [1 .. N -> 1 .. N] /\ DOMAIN sorted = 1 .. N
      /\ \A n \in 1 .. N : \E i \in 1 .. N : P[i] = n
      /\ \A i \in 1 .. N : sorted[P[i]] = tools[i]
  BY <1>3 DEF Reorders, sorted
<1>5. Spans = [i \in 1 .. N |->
        [step |-> i + 1, role |-> sorted[i].role, tool |-> sorted[i].tool,
         asserted |-> sorted[i].asserted, error |-> ~sorted[i].ok]]
  BY <1>4, Zenon DEF Spans, ToolSpans, sorted
<1>6. DOMAIN Spans = 1 .. N
  BY <1>5
<1>7. \A i \in 1 .. N : /\ Spans[i].role = sorted[i].role /\ Spans[i].tool = sorted[i].tool
                        /\ Spans[i].asserted = sorted[i].asserted
                        /\ Spans[i].error = ~sorted[i].ok
  <2> SUFFICES ASSUME NEW i \in 1 .. N
               PROVE  /\ Spans[i].role = sorted[i].role /\ Spans[i].tool = sorted[i].tool
                      /\ Spans[i].asserted = sorted[i].asserted
                      /\ Spans[i].error = ~sorted[i].ok
    OBVIOUS
  <2>1. Spans[i] = [step |-> i + 1, role |-> sorted[i].role, tool |-> sorted[i].tool,
                    asserted |-> sorted[i].asserted, error |-> ~sorted[i].ok]
    BY <1>5, Zenon
  <2> DEFINE gone == ~sorted[i].ok
  <2>2. gone = ~sorted[i].ok
    OBVIOUS
  <2>3. Spans[i] = [step |-> i + 1, role |-> sorted[i].role, tool |-> sorted[i].tool,
                    asserted |-> sorted[i].asserted, error |-> gone]
    BY <2>1
  <2> HIDE DEF gone
  <2>4. /\ Spans[i].role = sorted[i].role /\ Spans[i].tool = sorted[i].tool
        /\ Spans[i].asserted = sorted[i].asserted /\ Spans[i].error = gone
    BY <2>3
  <2> QED
    BY <2>2, <2>4, Zenon
<1>8. \A i \in 1 .. N : /\ P[i] \in 1 .. N
                        /\ Spans[P[i]].role = tools[i].role /\ Spans[P[i]].tool = tools[i].tool
                        /\ Spans[P[i]].asserted = tools[i].asserted
                        /\ Spans[P[i]].error = ~tools[i].ok
  <2> SUFFICES ASSUME NEW i \in 1 .. N
               PROVE  /\ P[i] \in 1 .. N
                      /\ Spans[P[i]].role = tools[i].role /\ Spans[P[i]].tool = tools[i].tool
                      /\ Spans[P[i]].asserted = tools[i].asserted
                      /\ Spans[P[i]].error = ~tools[i].ok
    OBVIOUS
  <2>1. P[i] \in 1 .. N /\ sorted[P[i]] = tools[i]
    BY <1>4
  <2> QED
    BY <1>7, <2>1, Zenon
<1> HIDE DEF Spans
<1>9. ASSUME NEW r \in Roles PROVE SpansTell(r)
  <2> DEFINE at == Of(tools, r)
  <2>1. /\ IsFiniteSet(at) /\ at \in SUBSET Nat /\ Cardinality(at) \in Nat
        /\ DOMAIN OfRole(Spans, r) = 1 .. Cardinality(at)
        /\ \A n \in 1 .. Cardinality(at) : OfRole(Spans, r)[n] = Spans[P[Nth(at, n)]]
    <3>1. \A i \in 1 .. N : Spans[P[i]].role = tools[i].role
      BY <1>8
    <3>2. RoleMoved(tools, Spans, P, r)
      BY <1>1, <1>3, <1>4, <1>6, <3>1, OfRoleMoved, Zenon
    <3> QED
      BY <3>2 DEF RoleMoved
  <2>2. /\ Len(did[r]) = Cardinality(at)
        /\ \A i \in at : did[r][Rank(at, i)] = Reduced(tools[i])
    BY <1>1 DEF Tells
  <2>2a. at \subseteq 1 .. N
    BY <1>1 DEF Of
  <2> HIDE DEF at
  <2>3. \A n \in 1 .. Cardinality(at) : Nth(at, n) \in at /\ Rank(at, Nth(at, n)) = n
    BY <2>1, NthMember
  <2>4. ASSUME NEW n \in 1 .. Cardinality(at)
        PROVE  OfRole(Spans, r)[n].tool = did[r][n].tool
    <3> DEFINE i == Nth(at, n)
    <3>1. i \in at /\ Rank(at, i) = n
      BY <2>3
    <3>2. OfRole(Spans, r)[n] = Spans[P[i]]
      BY <2>1
    <3> HIDE DEF i
    <3>3. did[r][n] = Reduced(tools[i]) /\ i \in 1 .. N
      BY <2>2, <2>2a, <3>1, Zenon
    <3>4. Spans[P[i]].tool = tools[i].tool /\ did[r][n].tool = tools[i].tool
      BY <1>8, <3>3 DEF Reduced
    <3> QED
      BY <3>2, <3>4
  <2> QED
    BY <2>1, <2>2, <2>4 DEF SpansTell
<1>10. SpansAccount
  <2>1. ASSUME NEW k \in 1 .. N
        PROVE  /\ Spans[k].role \in Roles
               /\ \E n \in DOMAIN did[Spans[k].role] :
                    /\ Spans[k].asserted = did[Spans[k].role][n].asserted
                    /\ Spans[k].error = ~did[Spans[k].role][n].ok
    <3>1. PICK i \in 1 .. N : P[i] = k
      BY <1>4
    <3> DEFINE r == tools[i].role
               n == Rank(Of(tools, r), i)
    <3>2. /\ r \in Roles /\ Spans[k].role = r /\ Spans[k].asserted = tools[i].asserted
          /\ Spans[k].error = ~tools[i].ok
      BY <1>2, <1>8, <3>1, Zenon
    <3>3. i \in Of(tools, r)
      BY <1>1 DEF Of
    <3> HIDE DEF r
    <3>4. n \in 1 .. Cardinality(Of(tools, r))
      BY <1>1, <3>3, OfFinite, Ranks
    <3>5. /\ Len(did[r]) = Cardinality(Of(tools, r)) /\ did[r][n] = Reduced(tools[i])
      BY <1>1, <3>2, <3>3, Zenon DEF Tells
    <3>6. did[r] \in Seq(Deed)
      BY <1>1, <3>2
    <3> HIDE DEF n
    <3>7. n \in DOMAIN did[r] /\ did[r][n].asserted = tools[i].asserted /\ did[r][n].ok = tools[i].ok
      BY <3>4, <3>5, <3>6 DEF Reduced
    <3> QED
      BY <3>2, <3>7, Zenon
  <2>2. ASSUME NEW r \in Roles, NEW n \in DOMAIN did[r]
        PROVE  \E k \in 1 .. N : /\ Spans[k].role = r
                                 /\ Spans[k].asserted = did[r][n].asserted
                                 /\ Spans[k].error = ~did[r][n].ok
    <3> DEFINE at == Of(tools, r)
               i == Nth(at, n)
    <3>1. did[r] \in Seq(Deed) /\ Len(did[r]) = Cardinality(at)
      BY <1>1 DEF Tells
    <3>2. n \in 1 .. Cardinality(at)
      BY <3>1
    <3>3. i \in at /\ Rank(at, i) = n
      BY <1>1, <3>2, OfFinite, NthMember
    <3>4. i \in 1 .. N /\ tools[i].role = r
      BY <1>1, <3>3 DEF Of
    <3> HIDE DEF i
    <3>5. did[r][n] = Reduced(tools[i])
      BY <1>1, <3>3, Zenon DEF Tells
    <3>6. did[r][n].asserted = tools[i].asserted /\ did[r][n].ok = tools[i].ok
      BY <3>5 DEF Reduced
    <3>7. /\ P[i] \in 1 .. N /\ Spans[P[i]].role = r /\ Spans[P[i]].asserted = tools[i].asserted
          /\ Spans[P[i]].error = ~tools[i].ok
      BY <1>8, <3>4, Zenon
    <3> QED
      BY <3>6, <3>7, Zenon
  <2> QED
    BY <1>6, <2>1, <2>2, Zenon DEF SpansAccount, N
<1> QED
  BY <1>9, <1>10

(* The tools by role that the evaluation reads.                              *)
LEMMA ToolsOfRoles ==
  ASSUME NEW spans \in Seq(Span)
  PROVE  ToolsByRole(spans) = Groups <=> \A r \in Roles : Names(OfRole(spans, r)) = Groups[r]
<1> DEFINE seen == {spans[i].role : i \in DOMAIN spans}
<1>1. seen \subseteq Roles
  <2>1. \A i \in DOMAIN spans : spans[i] \in Span
    OBVIOUS
  <2> QED
    BY <2>1 DEF Span
<1>2. \A r \in Roles : Groups[r] \in Seq(Tools) /\ Groups[r] # <<>>
  BY TrajectoryAssumption
<1>3. ToolsByRole(spans) = [r \in seen |-> Names(OfRole(spans, r))]
  BY DEF ToolsByRole
<1>4. ASSUME NEW r \in Roles, Names(OfRole(spans, r)) = Groups[r] PROVE r \in seen
  <2>1. DOMAIN Groups[r] = DOMAIN OfRole(spans, r)
    BY <1>4 DEF Names
  <2>2. Len(Groups[r]) \in Nat /\ Len(Groups[r]) # 0 /\ DOMAIN Groups[r] = 1 .. Len(Groups[r])
    BY <1>2
  <2>3. 1 \in DOMAIN OfRole(spans, r)
    BY <2>1, <2>2
  <2>4. PICK k \in DOMAIN spans : spans[k].role = r
    BY <2>3, RoleSpans DEF HasRole
  <2> QED
    BY <2>4
<1> HIDE DEF seen
<1>5. ASSUME ToolsByRole(spans) = Groups, NEW r \in Roles
      PROVE  Names(OfRole(spans, r)) = Groups[r]
  <2>1. seen = Roles
    BY TrajectoryAssumption, <1>3, <1>5
  <2>2. ToolsByRole(spans)[r] = Names(OfRole(spans, r))
    BY <1>3, <2>1
  <2> QED
    BY <1>5, <2>2
<1>6. ASSUME \A r \in Roles : Names(OfRole(spans, r)) = Groups[r]
      PROVE  ToolsByRole(spans) = Groups
  <2>1. seen = Roles
    BY <1>1, <1>4, <1>6
  <2>2. Groups = [r \in Roles |-> Groups[r]]
    BY TrajectoryAssumption
  <2> QED
    BY <1>3, <1>6, <2>1, <2>2
<1> QED
  BY <1>5, <1>6

(* They are those the roles called. *)
LEMMA ToolsAsDone ==
  ASSUME LedgerTyped, Conduct
  PROVE  ToolsByRole(Spans) = Groups <=> \A r \in Roles : Names(did[r]) = Groups[r]
<1>1. \A r \in Roles : SpansTell(r)
  BY SpansOfLedger
<1>2. \A r \in Roles : did[r] \in Seq(Deed)
  BY DEF LedgerTyped
<1>3. ASSUME NEW r \in Roles PROVE Names(OfRole(Spans, r)) = Names(did[r])
  <2>1. /\ DOMAIN OfRole(Spans, r) = DOMAIN did[r]
        /\ \A n \in DOMAIN did[r] : OfRole(Spans, r)[n].tool = did[r][n].tool
    BY <1>1, <1>2, <1>3 DEF SpansTell
  <2> QED
    BY <2>1 DEF Names
<1>4. Spans \in Seq(Span)
  BY SpansTyped
<1> QED
  BY <1>3, <1>4, ToolsOfRoles

(* The planner's model calls and the others are all of them.                 *)
LEMMA ModelsFailed ==
  ASSUME models \in Seq([ok : BOOLEAN])
  PROVE  \/ SomeFailed(IF models = <<>> THEN <<>> ELSE <<models[1]>>)
         \/ SomeFailed(Remaining(models))
         <=> SomeFailed(models)
<1>1. CASE models = <<>>
  BY <1>1 DEF SomeFailed, Remaining
<1>2. CASE models # <<>>
  <2>1. /\ Len(models) \in Nat /\ Len(models) # 0 /\ DOMAIN models = 1 .. Len(models)
        /\ DOMAIN Tail(models) = 1 .. Len(models) - 1
        /\ \A i \in 1 .. Len(models) - 1 : Tail(models)[i] = models[i + 1]
    BY <1>2
  <2>2. Remaining(models) = Tail(models)
    BY <1>2 DEF Remaining
  <2>3. SomeFailed(<<models[1]>>) <=> ~models[1].ok
    BY DEF SomeFailed
  <2>4. SomeFailed(Tail(models)) <=> \E i \in 2 .. Len(models) : ~models[i].ok
    <3>1. ASSUME NEW i \in 1 .. Len(models) - 1, ~Tail(models)[i].ok
          PROVE  \E k \in 2 .. Len(models) : ~models[k].ok
      <4>1. i + 1 \in 2 .. Len(models) /\ Tail(models)[i] = models[i + 1]
        BY <2>1
      <4> QED
        BY <3>1, <4>1
    <3>2. ASSUME NEW k \in 2 .. Len(models), ~models[k].ok
          PROVE  \E i \in 1 .. Len(models) - 1 : ~Tail(models)[i].ok
      <4>1. k - 1 \in 1 .. Len(models) - 1 /\ k - 1 + 1 = k
        BY <2>1
      <4>2. Tail(models)[k - 1] = models[k]
        BY <2>1, <4>1
      <4> QED
        BY <3>2, <4>1, <4>2
    <3> QED
      BY <2>1, <3>1, <3>2 DEF SomeFailed
  <2>5. DOMAIN models = {1} \cup 2 .. Len(models)
    BY <2>1
  <2>6. SomeFailed(models) <=> ~models[1].ok \/ \E i \in 2 .. Len(models) : ~models[i].ok
    BY <2>5 DEF SomeFailed
  <2> QED
    BY <1>2, <2>2, <2>3, <2>4, <2>6
<1> QED
  BY <1>1, <1>2

(* What the evaluation reads of the result. *)
LEMMA ResultParts ==
  /\ Result.tools = Spans /\ (Result.answer <=> answered)
  /\ HasError(Result) <=> \/ SomeFailed(IF models = <<>> THEN <<>> ELSE <<models[1]>>)
                          \/ SomeFailed(Remaining(models))
                          \/ \E k \in DOMAIN Spans : Spans[k].error
<1> DEFINE first == IF models = <<>> THEN <<>> ELSE <<models[1]>>
           planned == [error |-> SomeFailed(first)]
           closed == [error |-> SomeFailed(Remaining(models))]
<1>1. Result = [plan |-> planned, tools |-> Spans, final |-> closed, answer |-> answered]
  BY Zenon DEF Result, Trajectory, Spans
<1>2. (planned.error <=> SomeFailed(first)) /\ (closed.error <=> SomeFailed(Remaining(models)))
  BY Zenon
<1> HIDE DEF planned, closed
<1>3. /\ Result.plan = planned /\ Result.tools = Spans /\ Result.final = closed
      /\ Result.answer = answered
  BY <1>1, Zenon
<1>4. HasError(Result) <=> \/ planned.error \/ closed.error
                           \/ \E k \in DOMAIN Spans : Spans[k].error
  BY <1>3, Zenon DEF HasError
<1> QED
  BY <1>2, <1>3, <1>4, Zenon

(* What an evaluation says. *)
LEMMA EvaluationParts ==
  \A grouped, result :
    LET evaluation == Evaluation(grouped, result)
        tool == HasCorrectTools(grouped, result)
        asserted == \A i \in DOMAIN result.tools : result.tools[i].asserted
    IN /\ evaluation.tools <=> tool
       /\ evaluation.arguments <=> tool /\ asserted
       /\ evaluation.execution <=> ~HasError(result)
       /\ evaluation.success <=> tool /\ asserted /\ result.answer /\ ~HasError(result)
<1> SUFFICES ASSUME NEW grouped, NEW result
             PROVE  LET evaluation == Evaluation(grouped, result)
                        tool == HasCorrectTools(grouped, result)
                        asserted == \A i \in DOMAIN result.tools : result.tools[i].asserted
                    IN /\ evaluation.tools <=> tool
                       /\ evaluation.arguments <=> tool /\ asserted
                       /\ evaluation.execution <=> ~HasError(result)
                       /\ evaluation.success <=> tool /\ asserted /\ result.answer /\ ~HasError(result)
  OBVIOUS
<1> DEFINE tool == HasCorrectTools(grouped, result)
           asserted == \A i \in DOMAIN result.tools : result.tools[i].asserted
           arguments == tool /\ asserted
           fine == ~HasError(result)
           success == tool /\ arguments /\ result.answer /\ fine
           evaluation == [tools |-> tool, arguments |-> arguments, execution |-> fine, success |-> success]
<1>1. Evaluation(grouped, result) = evaluation
  BY Zenon DEF Evaluation
<1>2. /\ evaluation.tools <=> tool
      /\ evaluation.arguments <=> arguments
      /\ evaluation.execution <=> fine
      /\ evaluation.success <=> success
  BY Zenon
<1> HIDE DEF evaluation, tool, asserted
<1>3. /\ Evaluation(grouped, result).tools <=> tool
      /\ Evaluation(grouped, result).arguments <=> arguments
      /\ Evaluation(grouped, result).execution <=> fine
      /\ Evaluation(grouped, result).success <=> success
  BY <1>1, <1>2, Zenon
<1> QED
  BY <1>3, Zenon DEF tool, asserted

LEMMA Judged ==
  ASSUME LedgerTyped, Conduct
  PROVE  Evaluation(TRUE, Result).success <=> DidRight
<1>1. SpansAccount
  BY SpansOfLedger
<1>2. \A r \in Roles : did[r] \in Seq(Deed)
  BY DEF Conduct, LedgerTyped
<1>3. \A r \in Roles : \A n \in DOMAIN did[r] : did[r][n].asserted \in BOOLEAN /\ did[r][n].ok \in BOOLEAN
  <2>1. \A r \in Roles : \A n \in DOMAIN did[r] : did[r][n] \in Deed
    BY <1>2
  <2> QED
    BY <2>1 DEF Deed
<1>4. (\A k \in DOMAIN Spans : Spans[k].asserted)
      <=> \A r \in Roles : \A n \in DOMAIN did[r] : did[r][n].asserted
  <2>1. ASSUME \A k \in DOMAIN Spans : Spans[k].asserted, NEW r \in Roles, NEW n \in DOMAIN did[r]
        PROVE  did[r][n].asserted
    <3>1. PICK k \in DOMAIN Spans : Spans[k].asserted = did[r][n].asserted
      BY <1>1 DEF SpansAccount
    <3>2. Spans[k].asserted
      BY <2>1
    <3> QED
      BY <3>1, <3>2, Zenon
  <2>2. ASSUME \A r \in Roles : \A n \in DOMAIN did[r] : did[r][n].asserted, NEW k \in DOMAIN Spans
        PROVE  Spans[k].asserted
    <3>1. Spans[k].role \in Roles
      BY <1>1 DEF SpansAccount
    <3>2. PICK n \in DOMAIN did[Spans[k].role] :
            Spans[k].asserted = did[Spans[k].role][n].asserted
      BY <1>1 DEF SpansAccount
    <3>3. did[Spans[k].role][n].asserted
      BY <2>2, <3>1
    <3> QED
      BY <3>2, <3>3, Zenon
  <2> QED
    BY <2>1, <2>2
<1>5. (\E k \in DOMAIN Spans : Spans[k].error)
      <=> \E r \in Roles : \E n \in DOMAIN did[r] : ~did[r][n].ok
  BY <1>1, Zenon DEF SpansAccount
<1>6. HasCorrectTools(TRUE, Result) <=> \A r \in Roles : Names(did[r]) = Groups[r]
  BY ResultParts, ToolsAsDone, Zenon DEF HasCorrectTools
<1>7. HasError(Result) <=> \/ SomeFailed(models)
                           \/ \E r \in Roles : \E n \in DOMAIN did[r] : ~did[r][n].ok
  <2>1. models \in Seq([ok : BOOLEAN])
    BY DEF Conduct, LedgerTyped
  <2> QED
    BY <1>5, <2>1, ModelsFailed, ResultParts, Zenon
<1>8. Evaluation(TRUE, Result).success
      <=> /\ HasCorrectTools(TRUE, Result) /\ \A k \in DOMAIN Spans : Spans[k].asserted
          /\ answered /\ ~HasError(Result)
  BY EvaluationParts, ResultParts, Zenon
<1> QED
  BY <1>4, <1>6, <1>7, <1>8, Zenon DEF DidRight

(* A task is judged by the calls of each role that reached a tool of the     *)
(* suite, however the calls of the roles interleave in the ledger, if the    *)
(* review was not resumed and no two runs of a role overlapped.              *)
THEOREM JudgedAsDone == TrajectorySpec => []JudgedByConduct
<1>1. ConductInv => JudgedByConduct
  BY Judged DEF ConductInv, JudgedByConduct
<1> QED
  BY <1>1, ConductStart, ConductStep, PTL DEF TrajectorySpec

-------------------------------------------------------------------------------
(* The release gate. *)

(* A regression at the end of the outcomes is counted, and so is a critical  *)
(* one among the critical ones.                                              *)
LEMMA RegressionCounted ==
  ASSUME NEW others \in OtherTasks, NEW outcome, Regressed(outcome)
  PROVE  LET outcomes == Append(others, outcome) IN
         /\ Cardinality(Regressions(outcomes)) > 0
         /\ outcome.critical =>
              Cardinality({i \in Regressions(outcomes) : outcomes[i].critical}) > 0
<1> DEFINE S == [baseline : BOOLEAN, candidate : BOOLEAN, tools : BOOLEAN, critical : BOOLEAN]
           outcomes == Append(others, outcome)
           m == Len(others) + 1
<1>1. others \in Seq(S) /\ Len(others) \in Nat
  BY TrajectoryAssumption
<1>2. /\ m \in Nat /\ DOMAIN outcomes = 1 .. m /\ m \in DOMAIN outcomes /\ outcomes[m] = outcome
  <2> DEFINE T == S \cup {outcome}
  <2>1. outcome \in T /\ \A x \in S : x \in T
    OBVIOUS
  <2> HIDE DEF T, S
  <2>2. others \in Seq(T)
    BY <1>1, <2>1
  <2> QED
    BY <1>1, <2>1, <2>2
<1> HIDE DEF outcomes, m
<1>3. m \in Regressions(outcomes)
  BY <1>2 DEF Regressions
<1>4. IsFiniteSet(DOMAIN outcomes)
  BY <1>2, UpTo
<1>5. ASSUME NEW X, X \subseteq Regressions(outcomes), m \in X PROVE Cardinality(X) > 0
  <2>1. X \subseteq DOMAIN outcomes
    BY <1>5 DEF Regressions
  <2>2. IsFiniteSet(X) /\ Cardinality(X) \in Nat
    BY <1>4, <2>1, FS_Subset, FS_CardinalityType
  <2>3. Cardinality(X) # 0
    BY <1>5, <2>2, FS_EmptySet
  <2> QED
    BY <2>2, <2>3
<1>6. Cardinality(Regressions(outcomes)) > 0
  BY <1>3, <1>5
<1>7. ASSUME outcome.critical
      PROVE  Cardinality({i \in Regressions(outcomes) : outcomes[i].critical}) > 0
  <2> DEFINE X == {i \in Regressions(outcomes) : outcomes[i].critical}
  <2>1. X \subseteq Regressions(outcomes) /\ m \in X
    BY <1>2, <1>3, <1>7
  <2> HIDE DEF X
  <2>2. Cardinality(X) > 0
    BY <1>5, <2>1
  <2> QED
    BY <2>2 DEF X
<1> QED
  BY <1>6, <1>7 DEF outcomes

(* A rule of the configuration that forbids every regression. *)
Forbids(config, rule) == rule \in DOMAIN config.thresholds /\ config.thresholds[rule] = 0

LEMMA RegressionHeld ==
  ASSUME NEW others \in OtherTasks, NEW outcome, Regressed(outcome), NEW config, NEW excess
  PROVE  LET status == GateStatus(config, Append(others, outcome), excess) IN
         /\ /\ outcome.critical /\ Forbids(config, "maximum_critical_task_regressions")
            /\ "maximum_critical_task_regressions" \notin DOMAIN config.overrides
            => status = "BLOCK"
         /\ Forbids(config, "maximum_task_regressions") => status # "PASS"
<1> DEFINE outcomes == Append(others, outcome)
           broken == {rule \in DOMAIN config.thresholds :
                        Breaks(rule, config.thresholds[rule], outcomes, excess)}
           status == GateStatus(config, outcomes, excess)
<1>1. /\ Cardinality(Regressions(outcomes)) > 0
      /\ outcome.critical =>
           Cardinality({i \in Regressions(outcomes) : outcomes[i].critical}) > 0
  BY RegressionCounted
<1>2. status = IF \E rule \in broken : Severity(config, rule) = "block" THEN "BLOCK"
               ELSE IF broken # {} THEN "WARNING" ELSE "PASS"
  BY Zenon DEF GateStatus
<1> HIDE DEF outcomes, status
<1>3. ASSUME outcome.critical, Forbids(config, "maximum_critical_task_regressions"),
             "maximum_critical_task_regressions" \notin DOMAIN config.overrides
      PROVE  status = "BLOCK"
  <2> DEFINE rule == "maximum_critical_task_regressions"
  <2>1. Breaks(rule, 0, outcomes, excess)
    BY <1>1, <1>3 DEF Breaks
  <2>2. rule \in broken
    BY <1>3, <2>1 DEF Forbids
  <2>3. Severity(config, rule) = "block"
    BY <1>3 DEF Severity, BlockRules
  <2> HIDE DEF broken, rule
  <2> QED
    BY <1>2, <2>2, <2>3, Zenon
<1>4. ASSUME Forbids(config, "maximum_task_regressions") PROVE status # "PASS"
  <2> DEFINE rule == "maximum_task_regressions"
  <2>1. Breaks(rule, 0, outcomes, excess)
    BY <1>1 DEF Breaks
  <2>2. rule \in broken
    BY <1>4, <2>1 DEF Forbids
  <2> HIDE DEF broken, rule
  <2> QED
    BY <1>2, <2>2
<1> QED
  BY <1>3, <1>4 DEF outcomes, status

(* A version that answers a task wrong, or uses the tools of the suite       *)
(* wrong, where the baseline does it right is not released under a           *)
(* configuration that allows no critical regression, nor passes under one    *)
(* that allows none.                                                         *)
THEOREM RegressionsHeld == TrajectorySpec => []NoRegressionReleased
<1>1. ASSUME ConductInv PROVE NoRegressionReleased
  <2> SUFFICES
        ASSUME phase = "done", Accountable, ~DidRight,
               NEW baseline \in Successful[TRUE],
               NEW critical \in BOOLEAN, NEW others \in OtherTasks, NEW config \in Configs,
               NEW excess \in Excesses
        PROVE  LET outcome == Outcome(TRUE, critical, baseline, Result)
                   status == GateStatus(config, Append(others, outcome), excess)
               IN /\ critical /\ Forbids(config, "maximum_critical_task_regressions")
                     /\ "maximum_critical_task_regressions" \notin DOMAIN config.overrides
                       => status = "BLOCK"
                  /\ Forbids(config, "maximum_task_regressions") => status # "PASS"
    BY Zenon DEF NoRegressionReleased, Forbids
  <2> DEFINE outcome == Outcome(TRUE, critical, baseline, Result)
             before == Evaluation(TRUE, baseline).success
             after == Evaluation(TRUE, Result).success
             chosen == Evaluation(TRUE, Result).tools
  <2>1. ~after /\ before
    BY <1>1, Judged DEF ConductInv, Successful
  <2>2. outcome = [baseline |-> before, candidate |-> after, tools |-> chosen, critical |-> critical]
    BY Zenon DEF Outcome
  <2> HIDE DEF before, after, chosen, outcome
  <2>3. outcome.baseline = before /\ outcome.candidate = after /\ outcome.critical = critical
    BY <2>2
  <2>4. Regressed(outcome) /\ (outcome.critical <=> critical)
    BY <2>1, <2>3, Zenon DEF Regressed
  <2> QED
    BY <2>4, RegressionHeld DEF outcome
<1> QED
  BY <1>1, ConductStart, ConductStep, PTL DEF TrajectorySpec

-------------------------------------------------------------------------------
(* The attribution of a regression. *)

LEMMA Smallest ==
  ASSUME NEW S \in SUBSET Nat, S # {}
  PROVE  \E n \in S : \A m \in S : n <= m
<1> DEFINE less == OpToRel(<, Nat)
<1>1. IsWellFoundedOn(less, Nat)
  BY NatLessThanWellFounded
<1>2. \A m, n \in Nat : m < n => <<m, n>> \in less
  BY DEF OpToRel
<1> HIDE DEF less
<1>3. S \subseteq Nat
  OBVIOUS
<1>4. PICK n \in S : \A m \in S : ~(<<m, n>> \in less)
  BY <1>1, <1>3, WFMin
<1>5. \A m \in S : ~(m < n)
  BY <1>2, <1>3, <1>4
<1>6. \A m \in S : n <= m
  BY <1>3, <1>5
<1> QED
  BY <1>6

(* Of the pairs of a set one comes first. *)
LEMMA FirstPair ==
  ASSUME NEW S, S # {},
         \A pair \in S : pair.step \in Nat /\ pair.lane \in Nat /\ pair.index \in Nat
  PROVE  \E pair \in S : \A other \in S : ~Before(other, pair)
<1> DEFINE steps == {pair.step : pair \in S}
<1>1. steps \in SUBSET Nat /\ steps # {}
  OBVIOUS
<1>2. PICK step \in steps : \A m \in steps : step <= m
  BY <1>1, Smallest
<1> DEFINE soonest == {pair \in S : pair.step = step}
           lanes == {pair.lane : pair \in soonest}
<1>3. lanes \in SUBSET Nat /\ lanes # {}
  BY <1>2
<1>4. PICK chain \in lanes : \A m \in lanes : chain <= m
  BY <1>3, Smallest
<1> DEFINE there == {pair \in soonest : pair.lane = chain}
           indices == {pair.index : pair \in there}
<1>5. indices \in SUBSET Nat /\ indices # {}
  BY <1>4
<1>6. PICK index \in indices : \A m \in indices : index <= m
  BY <1>5, Smallest
<1>7. PICK pair \in there : pair.index = index
  BY <1>6
<1>8. ASSUME NEW other \in S PROVE ~Before(other, pair)
  <2>1. /\ pair.step = step /\ pair.lane = chain /\ pair.index = index
        /\ step \in Nat /\ chain \in Nat /\ index \in Nat
    BY <1>1, <1>2, <1>3, <1>4, <1>5, <1>6, <1>7
  <2>2. other.step \in Nat /\ other.lane \in Nat /\ other.index \in Nat
    OBVIOUS
  <2>3. step <= other.step
    BY <1>2
  <2>4. other.step = step => chain <= other.lane
    BY <1>4
  <2>5. other.step = step /\ other.lane = chain => index <= other.index
    BY <1>6
  <2> HIDE DEF steps, soonest, lanes, there, indices
  <2> QED
    BY <2>1, <2>2, <2>3, <2>4, <2>5 DEF Before
<1> QED
  BY <1>7, <1>8

(* What a chain of calls has to hold. *)
ChainOf(n) == IF n = Flat THEN FlatChain ELSE Groups[RoleOrder[n]]

(* The chains of a trajectory have its spans, and only those.                *)
InLanes(spans, grouped) ==
  /\ \A n \in Lanes(grouped) : \A i \in DOMAIN Lane(spans, n) :
       i \in Nat /\ \E k \in DOMAIN spans : Lane(spans, n)[i] = spans[k]
  /\ \A k \in DOMAIN spans : \E n \in Lanes(grouped) :
       \E i \in DOMAIN Lane(spans, n) : Lane(spans, n)[i] = spans[k]

LEMMA RoleLanes ==
  /\ \A n \in Lanes(TRUE) : n \in Nat /\ n # Flat /\ RoleOrder[n] \in Roles
  /\ \A r \in Roles : \E n \in Lanes(TRUE) : RoleOrder[n] = r
<1>1. RoleOrder \in Seq(Roles) /\ Lanes(TRUE) = DOMAIN RoleOrder
  BY TrajectoryAssumption DEF Lanes
<1>2. \A n \in DOMAIN RoleOrder : n \in Nat /\ n # 0 /\ RoleOrder[n] \in Roles
  BY <1>1
<1>3. \A r \in Roles : \E n \in DOMAIN RoleOrder : RoleOrder[n] = r
  BY DEF Roles, Range
<1> QED
  BY <1>1, <1>2, <1>3 DEF Flat

LEMMA LaneSpans == \A spans \in Seq(Span) : \A grouped \in BOOLEAN : InLanes(spans, grouped)
<1> SUFFICES ASSUME NEW spans \in Seq(Span), NEW grouped \in BOOLEAN PROVE InLanes(spans, grouped)
  OBVIOUS
<1>1. CASE ~grouped
  <2>1. Lanes(grouped) = {Flat} /\ Lane(spans, Flat) = spans
    BY <1>1 DEF Lanes, Lane
  <2>2. \A k \in DOMAIN spans : k \in Nat
    OBVIOUS
  <2> QED
    BY <2>1, <2>2 DEF InLanes
<1>2. CASE grouped
  <2>1. grouped = TRUE
    BY <1>2
  <2>2. \A n \in Lanes(grouped) : Lane(spans, n) = OfRole(spans, RoleOrder[n])
    BY <2>1, RoleLanes DEF Lane
  <2>3. \A n \in Lanes(grouped) : HasRole(spans, RoleOrder[n])
    BY RoleSpans
  <2>4. \A k \in DOMAIN spans : spans[k].role \in Roles
    <3>1. \A k \in DOMAIN spans : spans[k] \in Span
      OBVIOUS
    <3> QED
      BY <3>1 DEF Span
  <2>5. ASSUME NEW n \in Lanes(grouped), NEW i \in DOMAIN Lane(spans, n)
        PROVE  i \in Nat /\ \E k \in DOMAIN spans : Lane(spans, n)[i] = spans[k]
    <3>1. Lane(spans, n) = OfRole(spans, RoleOrder[n]) /\ HasRole(spans, RoleOrder[n])
      BY <2>2, <2>3
    <3>2. i \in DOMAIN OfRole(spans, RoleOrder[n])
      BY <3>1
    <3>3. PICK m \in Nat : DOMAIN OfRole(spans, RoleOrder[n]) = 1 .. m
      BY <3>1 DEF HasRole
    <3>4. i \in Nat
      BY <3>2, <3>3
    <3>5. \E k \in DOMAIN spans : OfRole(spans, RoleOrder[n])[i] = spans[k]
      BY <3>1, <3>2 DEF HasRole
    <3> QED
      BY <3>1, <3>4, <3>5
  <2>6. ASSUME NEW k \in DOMAIN spans
        PROVE  \E n \in Lanes(grouped) :
                 \E i \in DOMAIN Lane(spans, n) : Lane(spans, n)[i] = spans[k]
    <3>1. PICK n \in Lanes(grouped) : RoleOrder[n] = spans[k].role
      BY <2>1, <2>4, RoleLanes
    <3>2. Lane(spans, n) = OfRole(spans, spans[k].role) /\ HasRole(spans, spans[k].role)
      BY <2>2, <2>3, <3>1
    <3>3. \E i \in DOMAIN OfRole(spans, spans[k].role) : OfRole(spans, spans[k].role)[i] = spans[k]
      BY <3>2 DEF HasRole
    <3> QED
      BY <3>2, <3>3
  <2> QED
    BY <2>5, <2>6 DEF InLanes
<1> QED
  BY <1>1, <1>2

(* The tools are right if every chain has the names that are expected.       *)
LEMMA ToolsInLanes ==
  ASSUME NEW result, result.tools \in Seq(Span), NEW grouped \in BOOLEAN
  PROVE  HasCorrectTools(grouped, result)
         <=> \A n \in Lanes(grouped) : Names(Lane(result.tools, n)) = ChainOf(n)
<1>1. CASE ~grouped
  <2>1. Lanes(grouped) = {Flat} /\ Lane(result.tools, Flat) = result.tools /\ ChainOf(Flat) = FlatChain
    BY <1>1 DEF Lanes, Lane, ChainOf
  <2> QED
    BY <1>1, <2>1 DEF HasCorrectTools
<1>2. CASE grouped
  <2>1. grouped = TRUE
    BY <1>2
  <2>2. HasCorrectTools(grouped, result)
        <=> \A r \in Roles : Names(OfRole(result.tools, r)) = Groups[r]
    BY <2>1, ToolsOfRoles DEF HasCorrectTools
  <2>3. \A n \in Lanes(TRUE) : /\ Lane(result.tools, n) = OfRole(result.tools, RoleOrder[n])
                               /\ ChainOf(n) = Groups[RoleOrder[n]]
    BY RoleLanes DEF Lane, ChainOf
  <2>4. (\A r \in Roles : Names(OfRole(result.tools, r)) = Groups[r])
        <=> \A n \in Lanes(TRUE) : Names(OfRole(result.tools, RoleOrder[n])) = Groups[RoleOrder[n]]
    BY RoleLanes
  <2> QED
    BY <2>1, <2>2, <2>3, <2>4
<1> QED
  BY <1>1, <1>2

(* The fields of a pair, and that spans are not the missing one.             *)
LEMMA PairParts ==
  \A b, c, n, i :
    LET pair == Pair(b, c, n, i) IN
    /\ pair.baseline = At(Lane(b, n), i) /\ pair.candidate = At(Lane(c, n), i)
    /\ pair.lane = n /\ pair.index = i
    /\ pair.step = IF n = Flat THEN i
                   ELSE IF At(Lane(c, n), i) # NoSpan THEN At(Lane(c, n), i).step
                   ELSE At(Lane(b, n), i).step
<1> SUFFICES ASSUME NEW b, NEW c, NEW n, NEW i
             PROVE  LET pair == Pair(b, c, n, i) IN
                    /\ pair.baseline = At(Lane(b, n), i) /\ pair.candidate = At(Lane(c, n), i)
                    /\ pair.lane = n /\ pair.index = i
                    /\ pair.step = IF n = Flat THEN i
                                   ELSE IF At(Lane(c, n), i) # NoSpan THEN At(Lane(c, n), i).step
                                   ELSE At(Lane(b, n), i).step
  OBVIOUS
<1> DEFINE left == At(Lane(b, n), i)
           right == At(Lane(c, n), i)
           step == IF n = Flat THEN i ELSE IF right # NoSpan THEN right.step ELSE left.step
<1>1. Pair(b, c, n, i) =
        [baseline |-> left, candidate |-> right, lane |-> n, index |-> i, step |-> step]
  BY Zenon DEF Pair
<1> HIDE DEF left, right, step
<1> QED
  BY <1>1 DEF left, right, step

LEMMA SpanThere == \A span \in Span : span # NoSpan /\ span.step \in Nat
<1> SUFFICES ASSUME NEW span \in Span PROVE span # NoSpan /\ span.step \in Nat
  OBVIOUS
<1>1. span.step \in Nat /\ span.step # 0
  BY DEF Span
<1>2. NoSpan.step = 0
  BY DEF NoSpan
<1> QED
  BY <1>1, <1>2

(* One side of a pair: a span of the trajectory, or none behind the chain.   *)
Side(spans, n, i) ==
  LET span == At(Lane(spans, n), i) IN
  /\ i \in DOMAIN Lane(spans, n) =>
       /\ span = Lane(spans, n)[i] /\ span # NoSpan /\ span.step \in Nat
       /\ \E k \in DOMAIN spans : span = spans[k]
  /\ i \notin DOMAIN Lane(spans, n) => span = NoSpan

LEMMA Sides ==
  \A spans \in Seq(Span) : \A grouped \in BOOLEAN : \A n \in Lanes(grouped) : \A i :
    Side(spans, n, i)
<1> SUFFICES ASSUME NEW spans \in Seq(Span), NEW grouped \in BOOLEAN, NEW n \in Lanes(grouped), NEW i
             PROVE  Side(spans, n, i)
  OBVIOUS
<1> DEFINE chain == Lane(spans, n)
<1>1. \A j \in DOMAIN chain : \E k \in DOMAIN spans : chain[j] = spans[k]
  BY LaneSpans DEF InLanes
<1>2. \A k \in DOMAIN spans : spans[k] \in Span
  OBVIOUS
<1>3. At(chain, i) = IF i \in DOMAIN chain THEN chain[i] ELSE NoSpan
  BY DEF At
<1> HIDE DEF chain
<1>4. CASE i \in DOMAIN chain
  <2>1. PICK k \in DOMAIN spans : chain[i] = spans[k]
    BY <1>1, <1>4
  <2>2. chain[i] # NoSpan /\ chain[i].step \in Nat
    BY <1>2, <2>1, SpanThere
  <2>3. At(chain, i) = chain[i]
    BY <1>3, <1>4
  <2> QED
    BY <1>4, <2>1, <2>2, <2>3 DEF Side, chain
<1>5. CASE i \notin DOMAIN chain
  BY <1>3, <1>5 DEF Side, chain
<1> QED
  BY <1>4, <1>5

(* How two calls diverge. *)
LEMMA Divergences ==
  ASSUME NEW pair
  PROVE  /\ Divergence(pair) \in {"tool_selection_error", "tool_argument_error",
                                  "tool_execution_error", "none"}
         /\ Divergence(pair) = "none" =>
              /\ pair.baseline # NoSpan /\ pair.candidate # NoSpan
              /\ pair.baseline.tool = pair.candidate.tool
              /\ pair.baseline.asserted => pair.candidate.asserted
              /\ ~pair.candidate.error
         /\ Divergence(pair) = "tool_selection_error" =>
              \/ pair.baseline = NoSpan \/ pair.candidate = NoSpan
              \/ pair.baseline.tool # pair.candidate.tool
         /\ Divergence(pair) = "tool_argument_error" =>
              pair.candidate # NoSpan /\ ~pair.candidate.asserted
         /\ Divergence(pair) = "tool_execution_error" =>
              pair.candidate # NoSpan /\ pair.candidate.error
<1> DEFINE b == pair.baseline
           c == pair.candidate
           missing == NoSpan \in {b, c}
           other == b.tool # c.tool
           wrong == b.asserted /\ ~c.asserted
           failed == c.error
<1>1. Divergence(pair) = IF missing \/ other THEN "tool_selection_error"
                         ELSE IF wrong THEN "tool_argument_error"
                         ELSE IF failed THEN "tool_execution_error" ELSE "none"
  BY Zenon DEF Divergence
<1> HIDE DEF missing, other, wrong, failed
<1>2. /\ Divergence(pair) \in {"tool_selection_error", "tool_argument_error",
                               "tool_execution_error", "none"}
      /\ Divergence(pair) = "none" => ~missing /\ ~other /\ ~wrong /\ ~failed
      /\ Divergence(pair) = "tool_selection_error" => missing \/ other
      /\ Divergence(pair) = "tool_argument_error" => ~missing /\ ~other /\ wrong
      /\ Divergence(pair) = "tool_execution_error" => ~missing /\ ~other /\ failed
  BY <1>1
<1> QED
  BY <1>2 DEF missing, other, wrong, failed

Diverging(grouped, baseline, candidate) ==
  {pair \in Aligned(grouped, baseline.tools, candidate.tools) : Divergence(pair) # "none"}

Earliest(grouped, baseline, candidate) ==
  CHOOSE pair \in Diverging(grouped, baseline, candidate) :
    \A other \in Diverging(grouped, baseline, candidate) : ~Before(other, pair)

(* Which pair and which category an attribution gives. *)
LEMMA ErrorParts ==
  ASSUME NEW grouped, NEW baseline, NEW candidate
  PROVE  LET error == FirstError(grouped, baseline, candidate)
             diverging == Diverging(grouped, baseline, candidate)
             first == Earliest(grouped, baseline, candidate)
         IN /\ candidate.plan.error => error.category = "execution_error" /\ error.pair = NoPair
            /\ ~candidate.plan.error /\ diverging # {} =>
                 error.category = Divergence(first) /\ error.pair = first
            /\ ~candidate.plan.error /\ diverging = {} =>
                 /\ error.category = IF HasError(candidate) THEN "execution_error" ELSE "generation_error"
                 /\ error.pair = NoPair
<1> DEFINE error == FirstError(grouped, baseline, candidate)
           diverging == Diverging(grouped, baseline, candidate)
           first == Earliest(grouped, baseline, candidate)
           planned == candidate.plan.error
           failed == IF HasError(candidate) THEN "execution_error" ELSE "generation_error"
<1>1. error = CASE planned -> [category |-> "execution_error", pair |-> NoPair]
                [] ~planned /\ diverging # {} -> [category |-> Divergence(first), pair |-> first]
                [] OTHER -> [category |-> failed, pair |-> NoPair]
  BY DEF FirstError, Diverging, Earliest
<1> HIDE DEF error, diverging, first, planned, failed
<1>2. CASE planned
  <2>1. error = [category |-> "execution_error", pair |-> NoPair]
    BY <1>1, <1>2
  <2> QED
    BY <1>2, <2>1 DEF error, planned
<1>3. CASE ~planned /\ diverging # {}
  <2>1. error = [category |-> Divergence(first), pair |-> first]
    BY <1>1, <1>3
  <2> QED
    BY <1>3, <2>1 DEF error, planned, diverging, first
<1>4. CASE ~planned /\ diverging = {}
  <2>1. error = [category |-> failed, pair |-> NoPair]
    BY <1>1, <1>4
  <2> QED
    BY <1>4, <2>1 DEF error, planned, diverging, failed
<1> QED
  BY <1>2, <1>3, <1>4

(* The pairs of the alignment, and which of them diverges first.             *)
LEMMA AlignedPairs ==
  ASSUME NEW b \in Seq(Span), NEW c \in Seq(Span), NEW grouped \in BOOLEAN,
         NEW pair \in Aligned(grouped, b, c)
  PROVE  /\ pair.step \in Nat /\ pair.lane \in Nat /\ pair.index \in Nat
         /\ \E n \in Lanes(grouped) :
              \E i \in DOMAIN Lane(b, n) \cup DOMAIN Lane(c, n) : pair = Pair(b, c, n, i)
<1>1. PICK n \in Lanes(grouped) : pair \in PairsOf(b, c, n)
  BY Zenon DEF Aligned
<1>2. PICK i \in DOMAIN Lane(b, n) \cup DOMAIN Lane(c, n) : pair = Pair(b, c, n, i)
  BY <1>1 DEF PairsOf
<1>3. i \in Nat
  BY <1>2, LaneSpans DEF InLanes
<1>4. n \in Nat
  <2>1. CASE grouped
    BY <2>1, RoleLanes
  <2>2. CASE ~grouped
    BY <2>2 DEF Lanes, Flat
  <2> QED
    BY <2>1, <2>2
<1>5. Side(b, n, i) /\ Side(c, n, i)
  BY Sides
<1>6. /\ pair.lane = n /\ pair.index = i
      /\ pair.step = IF n = Flat THEN i
                     ELSE IF At(Lane(c, n), i) # NoSpan THEN At(Lane(c, n), i).step
                     ELSE At(Lane(b, n), i).step
  BY <1>2, PairParts
<1>7. /\ At(Lane(c, n), i) # NoSpan => At(Lane(c, n), i).step \in Nat
      /\ At(Lane(c, n), i) = NoSpan => At(Lane(b, n), i).step \in Nat
  BY <1>2, <1>5 DEF Side
<1> QED
  BY <1>2, <1>3, <1>4, <1>6, <1>7

LEMMA EarliestPair ==
  ASSUME NEW grouped \in BOOLEAN, NEW baseline, NEW candidate,
         baseline.tools \in Seq(Span), candidate.tools \in Seq(Span),
         Diverging(grouped, baseline, candidate) # {}
  PROVE  LET first == Earliest(grouped, baseline, candidate) IN
         /\ first \in Diverging(grouped, baseline, candidate)
         /\ \A other \in Diverging(grouped, baseline, candidate) : ~Before(other, first)
<1> DEFINE diverging == Diverging(grouped, baseline, candidate)
<1>1. \A pair \in diverging : pair.step \in Nat /\ pair.lane \in Nat /\ pair.index \in Nat
  BY AlignedPairs DEF Diverging
<1> HIDE DEF diverging
<1>2. \E pair \in diverging : \A other \in diverging : ~Before(other, pair)
  BY <1>1, FirstPair DEF diverging
<1> QED
  BY <1>2, Zenon DEF Earliest, diverging

(* What the attribution says of a regression agrees with how it is judged.   *)
LEMMA Attributed ==
  ASSUME NEW grouped \in BOOLEAN, NEW baseline, NEW candidate,
         baseline.tools \in Seq(Span), candidate.tools \in Seq(Span),
         \A i \in DOMAIN candidate.tools : candidate.tools[i].step = i + 1,
         Evaluation(grouped, baseline).success, ~Evaluation(grouped, candidate).success
  PROVE  LET judged == Evaluation(grouped, candidate)
             error == FirstError(grouped, baseline, candidate)
             call == error.pair.candidate
         IN /\ error.category = "generation_error" =>
                 judged.tools /\ judged.arguments /\ judged.execution /\ ~candidate.answer
            /\ judged.tools => error.category # "tool_selection_error"
            /\ error.category = "tool_argument_error" => ~judged.arguments
            /\ judged.execution =>
                 error.category \notin {"tool_execution_error", "execution_error"}
            /\ call # NoSpan =>
                 \A n \in Lanes(grouped) : \A pair \in PairsOf(baseline.tools, candidate.tools, n) :
                   pair.candidate # NoSpan /\ pair.candidate.step < call.step
                     => Divergence(pair) = "none"
<1> DEFINE b == baseline.tools
           c == candidate.tools
           judged == Evaluation(grouped, candidate)
           error == FirstError(grouped, baseline, candidate)
           diverging == Diverging(grouped, baseline, candidate)
           first == Earliest(grouped, baseline, candidate)
           right == HasCorrectTools(grouped, candidate)
           planned == candidate.plan.error
<1>1. /\ judged.tools <=> right
      /\ judged.arguments <=> right /\ \A k \in DOMAIN c : c[k].asserted
      /\ judged.execution <=> ~HasError(candidate)
      /\ right /\ (\A k \in DOMAIN c : c[k].asserted) /\ ~HasError(candidate) => ~candidate.answer
  BY EvaluationParts, Zenon
<1>2. HasCorrectTools(grouped, baseline) /\ \A k \in DOMAIN b : b[k].asserted
  BY EvaluationParts, Zenon
<1>3. /\ planned => error.category = "execution_error" /\ error.pair = NoPair
      /\ ~planned /\ diverging # {} => error.category = Divergence(first) /\ error.pair = first
      /\ ~planned /\ diverging = {} =>
           /\ error.category = IF HasError(candidate) THEN "execution_error" ELSE "generation_error"
           /\ error.pair = NoPair
  BY ErrorParts, Zenon
<1>4. (planned => HasError(candidate)) /\ ((\E k \in DOMAIN c : c[k].error) => HasError(candidate))
  BY Zenon DEF HasError
<1>5. \A n \in Lanes(grouped) : Names(Lane(b, n)) = ChainOf(n)
  BY <1>2, ToolsInLanes
<1>6. right <=> \A n \in Lanes(grouped) : Names(Lane(c, n)) = ChainOf(n)
  BY ToolsInLanes
<1>7. diverging # {} =>
        first \in diverging /\ \A other \in diverging : ~Before(other, first)
  BY EarliestPair, Zenon
<1>8. /\ InLanes(b, grouped) /\ InLanes(c, grouped)
      /\ \A n \in Lanes(grouped) : \A i : Side(b, n, i) /\ Side(c, n, i)
  BY LaneSpans, Sides, Zenon
<1>9. \A pair : pair \in diverging =>
        /\ Divergence(pair) # "none"
        /\ \E n \in Lanes(grouped) :
             \E i \in DOMAIN Lane(b, n) \cup DOMAIN Lane(c, n) : pair = Pair(b, c, n, i)
  BY AlignedPairs DEF Diverging
<1>10. ASSUME NEW n \in Lanes(grouped), NEW i \in DOMAIN Lane(b, n) \cup DOMAIN Lane(c, n)
       PROVE  Divergence(Pair(b, c, n, i)) # "none" => Pair(b, c, n, i) \in diverging
  <2>1. Pair(b, c, n, i) \in PairsOf(b, c, n)
    BY DEF PairsOf
  <2>2. Pair(b, c, n, i) \in Aligned(grouped, b, c)
    BY <2>1, Zenon DEF Aligned
  <2> QED
    BY <2>2 DEF Diverging
<1>11. \A n, i : /\ Pair(b, c, n, i).baseline = At(Lane(b, n), i)
                 /\ Pair(b, c, n, i).candidate = At(Lane(c, n), i)
  BY PairParts
<1>12. planned \/ diverging = {} => error.pair.candidate = NoSpan
  <2>1. NoPair.candidate = NoSpan
    BY DEF NoPair
  <2> QED
    BY <1>3, <2>1
<1>13. \A k \in DOMAIN c : c[k].step = k + 1 /\ c[k] \in Span
  OBVIOUS
<1>14. \A n \in Lanes(grouped) : \A i \in DOMAIN Lane(c, n) : i \in Nat
  BY <1>8 DEF InLanes
<1> HIDE DEF b, c, judged, error, diverging, first, right, planned
<1>15. ASSUME diverging # {} PROVE first.candidate # NoSpan => \E k \in DOMAIN c : first.candidate = c[k]
  <2>1a. PICK n \in Lanes(grouped) : \E i \in DOMAIN Lane(b, n) \cup DOMAIN Lane(c, n) : first = Pair(b, c, n, i)
    BY <1>7, <1>9, <1>15
  <2>1. PICK i \in DOMAIN Lane(b, n) \cup DOMAIN Lane(c, n) : first = Pair(b, c, n, i)
    BY <2>1a
  <2>2. first.candidate = At(Lane(c, n), i) /\ Side(c, n, i)
    BY <1>8, <1>11, <2>1
  <2> QED
    BY <2>2 DEF Side
<1>16. ASSUME error.category = "generation_error"
       PROVE  right /\ (\A k \in DOMAIN c : c[k].asserted) /\ ~HasError(candidate)
  <2>1. ~planned /\ diverging = {} /\ ~HasError(candidate)
    <3>1. ~planned
      BY <1>3, <1>16
    <3>2. diverging = {}
      BY <1>3, <1>16, <3>1, Divergences
    <3>3. ~HasError(candidate)
      BY <1>3, <1>16, <3>1, <3>2
    <3> QED
      BY <3>1, <3>2, <3>3
  <2>2. ASSUME NEW n \in Lanes(grouped), NEW i \in DOMAIN Lane(b, n) \cup DOMAIN Lane(c, n)
        PROVE  /\ i \in DOMAIN Lane(b, n) /\ i \in DOMAIN Lane(c, n)
               /\ Lane(b, n)[i].tool = Lane(c, n)[i].tool
               /\ Lane(b, n)[i].asserted => Lane(c, n)[i].asserted
    <3> DEFINE pair == Pair(b, c, n, i)
    <3>1. Divergence(pair) = "none"
      BY <1>10, <2>1, <2>2
    <3>2. pair.baseline = At(Lane(b, n), i) /\ pair.candidate = At(Lane(c, n), i)
      BY <1>11
    <3>3. Side(b, n, i) /\ Side(c, n, i)
      BY <1>8
    <3> HIDE DEF pair
    <3>4. /\ pair.baseline # NoSpan /\ pair.candidate # NoSpan
          /\ pair.baseline.tool = pair.candidate.tool
          /\ pair.baseline.asserted => pair.candidate.asserted
      BY <3>1, Divergences
    <3>5. i \in DOMAIN Lane(b, n) /\ i \in DOMAIN Lane(c, n)
      BY <3>2, <3>3, <3>4, Zenon DEF Side
    <3>6. pair.baseline = Lane(b, n)[i] /\ pair.candidate = Lane(c, n)[i]
      BY <3>2, <3>5, Zenon DEF At
    <3> QED
      BY <3>4, <3>5, <3>6, Zenon
  <2>3. right
    <3>1. ASSUME NEW n \in Lanes(grouped) PROVE Names(Lane(c, n)) = Names(Lane(b, n))
      <4>1. DOMAIN Lane(b, n) = DOMAIN Lane(c, n)
        BY <2>2
      <4>2. \A i \in DOMAIN Lane(b, n) : Lane(b, n)[i].tool = Lane(c, n)[i].tool
        BY <2>2
      <4> QED
        BY <4>1, <4>2 DEF Names
    <3> QED
      BY <1>5, <1>6, <3>1
  <2>4. ASSUME NEW k \in DOMAIN c PROVE c[k].asserted
    <3>1. PICK n \in Lanes(grouped) : \E i \in DOMAIN Lane(c, n) : Lane(c, n)[i] = c[k]
      BY <1>8 DEF InLanes
    <3>2. PICK i \in DOMAIN Lane(c, n) : Lane(c, n)[i] = c[k]
      BY <3>1
    <3>3. i \in DOMAIN Lane(b, n) /\ (Lane(b, n)[i].asserted => Lane(c, n)[i].asserted)
      BY <2>2, <3>2
    <3>4. PICK j \in DOMAIN b : Lane(b, n)[i] = b[j]
      BY <1>8, <3>3 DEF InLanes
    <3>5. b[j].asserted
      BY <1>2 DEF b
    <3> QED
      BY <3>2, <3>3, <3>4, <3>5
  <2> QED
    BY <2>1, <2>3, <2>4
<1>17. ASSUME right PROVE error.category # "tool_selection_error"
  <2> SUFFICES ASSUME error.category = "tool_selection_error" PROVE FALSE
    OBVIOUS
  <2>1. ~planned
    BY <1>3
  <2>2. diverging # {}
    BY <1>3, <2>1
  <2>3. Divergence(first) = "tool_selection_error"
    BY <1>3, <2>1, <2>2
  <2>4a. PICK n \in Lanes(grouped) : \E i \in DOMAIN Lane(b, n) \cup DOMAIN Lane(c, n) : first = Pair(b, c, n, i)
    BY <1>7, <1>9, <2>2
  <2>4. PICK i \in DOMAIN Lane(b, n) \cup DOMAIN Lane(c, n) : first = Pair(b, c, n, i)
    BY <2>4a
  <2>5. Names(Lane(b, n)) = Names(Lane(c, n))
    BY <1>5, <1>6, <1>17
  <2>6. DOMAIN Lane(b, n) = DOMAIN Lane(c, n)
    BY <2>5 DEF Names
  <2>7. i \in DOMAIN Lane(b, n) /\ i \in DOMAIN Lane(c, n)
    BY <2>4, <2>6
  <2>8. Lane(b, n)[i].tool = Lane(c, n)[i].tool
    <3>1. Names(Lane(b, n))[i] = Lane(b, n)[i].tool /\ Names(Lane(c, n))[i] = Lane(c, n)[i].tool
      BY <2>7 DEF Names
    <3> QED
      BY <2>5, <3>1
  <2>9. first.baseline = At(Lane(b, n), i) /\ first.candidate = At(Lane(c, n), i)
    BY <1>11, <2>4
  <2>10. Side(b, n, i) /\ Side(c, n, i)
    BY <1>8
  <2>11. /\ first.baseline # NoSpan /\ first.candidate # NoSpan
         /\ first.baseline.tool = first.candidate.tool
    BY <2>7, <2>8, <2>9, <2>10 DEF Side
  <2> QED
    BY <2>3, <2>11, Divergences
<1>18. ASSUME error.category = "tool_argument_error" PROVE ~\A k \in DOMAIN c : c[k].asserted
  <2>1. ~planned
    BY <1>3, <1>18
  <2>2. diverging # {}
    BY <1>3, <1>18, <2>1
  <2>3. first.candidate # NoSpan /\ ~first.candidate.asserted
    BY <1>3, <1>18, <2>1, <2>2, Divergences
  <2> QED
    BY <1>15, <2>2, <2>3
<1>19. ASSUME error.category \in {"tool_execution_error", "execution_error"} PROVE HasError(candidate)
  <2>1. CASE planned
    BY <1>4, <2>1
  <2>2. CASE ~planned /\ diverging = {}
    BY <1>3, <1>19, <2>2
  <2>3. CASE ~planned /\ diverging # {}
    <3>1. Divergence(first) = "tool_execution_error"
      BY <1>3, <1>19, <2>3, Divergences
    <3>2. first.candidate # NoSpan /\ first.candidate.error
      BY <3>1, Divergences
    <3> QED
      BY <1>4, <1>15, <2>3, <3>2
  <2> QED
    BY <2>1, <2>2, <2>3
<1>20. ASSUME error.pair.candidate # NoSpan, NEW n \in Lanes(grouped), NEW pair \in PairsOf(b, c, n),
              pair.candidate # NoSpan, pair.candidate.step < error.pair.candidate.step
       PROVE  Divergence(pair) = "none"
  <2> SUFFICES ASSUME Divergence(pair) # "none" PROVE FALSE
    OBVIOUS
  <2>1. ~planned /\ diverging # {} /\ error.pair = first
    BY <1>3, <1>12, <1>20
  <2>2. PICK i \in DOMAIN Lane(b, n) \cup DOMAIN Lane(c, n) : pair = Pair(b, c, n, i)
    BY DEF PairsOf
  <2>3. pair \in diverging
    BY <1>10, <2>2
  <2>4a. PICK m \in Lanes(grouped) : \E j \in DOMAIN Lane(b, m) \cup DOMAIN Lane(c, m) : first = Pair(b, c, m, j)
    BY <1>7, <1>9, <2>1
  <2>4. PICK j \in DOMAIN Lane(b, m) \cup DOMAIN Lane(c, m) : first = Pair(b, c, m, j)
    BY <2>4a
  <2>5. /\ pair.candidate = At(Lane(c, n), i) /\ first.candidate = At(Lane(c, m), j)
        /\ pair.step = IF n = Flat THEN i ELSE pair.candidate.step
        /\ first.step = IF m = Flat THEN j ELSE first.candidate.step
    BY <1>20, <2>1, <2>2, <2>4, PairParts
  <2>6. i \in DOMAIN Lane(c, n) /\ j \in DOMAIN Lane(c, m)
    BY <1>8, <1>20, <2>1, <2>5 DEF Side
  <2>7. pair.step < first.step
    <3>1. CASE grouped
      <4>1. n # Flat /\ m # Flat
        BY <3>1, RoleLanes
      <4> QED
        BY <1>20, <2>1, <2>5, <4>1
    <3>2. CASE ~grouped
      <4>1. n = Flat /\ m = Flat
        BY <3>2 DEF Lanes
      <4>2. Lane(c, Flat) = c
        BY DEF Lane
      <4>3. i \in DOMAIN c /\ j \in DOMAIN c /\ pair.candidate = c[i] /\ first.candidate = c[j]
        BY <2>5, <2>6, <4>1, <4>2 DEF At
      <4>4. c[i].step = i + 1 /\ c[j].step = j + 1 /\ i \in Nat /\ j \in Nat
        BY <1>13, <1>14, <2>6, <4>3
      <4>5. i + 1 < j + 1
        BY <1>20, <2>1, <4>3, <4>4
      <4> QED
        BY <2>5, <4>1, <4>4, <4>5
    <3> QED
      BY <3>1, <3>2
  <2>8. Before(pair, first)
    BY <2>7 DEF Before
  <2> QED
    BY <1>7, <2>1, <2>3, <2>8
<1>21. /\ error.category = "generation_error" =>
            judged.tools /\ judged.arguments /\ judged.execution /\ ~candidate.answer
       /\ judged.tools => error.category # "tool_selection_error"
       /\ error.category = "tool_argument_error" => ~judged.arguments
       /\ judged.execution => error.category \notin {"tool_execution_error", "execution_error"}
  BY <1>1, <1>16, <1>17, <1>18, <1>19 DEF c
<1> QED
  BY <1>20, <1>21 DEF b, c, judged, error

(* The attribution of a regression agrees with its evaluation, and no        *)
(* earlier call of any role diverges, for every baseline.                    *)
THEOREM RegressionsAttributed == TrajectorySpec => []AttributionSound
<1>1. ASSUME ConductInv PROVE AttributionSound
  <2>1. LedgerTyped
    BY <1>1 DEF ConductInv
  <2>2. Result.tools = Spans /\ (Result.answer <=> answered)
    BY ResultParts
  <2>3. Result.tools \in Seq(Span) /\ \A i \in DOMAIN Result.tools : Result.tools[i].step = i + 1
    BY <2>1, <2>2, SpansTyped
  <2>4. \A grouped \in BOOLEAN : \A baseline \in Successful[grouped] :
          baseline.tools \in Seq(Span) /\ Evaluation(grouped, baseline).success
    BY TrajectoryAssumption DEF Span, Successful
  <2> SUFFICES
        ASSUME NEW grouped \in BOOLEAN, NEW baseline \in Successful[grouped],
               ~Evaluation(grouped, Result).success
        PROVE  LET judged == Evaluation(grouped, Result)
                   error == FirstError(grouped, baseline, Result)
                   call == error.pair.candidate
               IN /\ error.category = "generation_error" =>
                       judged.tools /\ judged.arguments /\ judged.execution /\ ~answered
                  /\ judged.tools => error.category # "tool_selection_error"
                  /\ error.category = "tool_argument_error" => ~judged.arguments
                  /\ judged.execution =>
                       error.category \notin {"tool_execution_error", "execution_error"}
                  /\ call # NoSpan =>
                       \A n \in Lanes(grouped) : \A pair \in PairsOf(baseline.tools, Result.tools, n) :
                         pair.candidate # NoSpan /\ pair.candidate.step < call.step
                           => Divergence(pair) = "none"
    BY Zenon DEF AttributionSound
  <2> QED
    BY <2>2, <2>3, <2>4, Attributed
<1> QED
  BY <1>1, ConductStart, ConductStep, PTL DEF TrajectorySpec
===============================================================================
