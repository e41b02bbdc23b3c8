------------------------------- MODULE ReplayGate ------------------------------
(***************************************************************************)
(* The replay behind evolution: RegressionEvaluator (evolution.py) with    *)
(* the matcher of evaluation_harness.py, and the gates that decide about a *)
(* candidate (evolution.py, skill_evolution.py).                           *)
(*                                                                         *)
(* The content of a version is the set of the constraints it has learned.  *)
(* A location is a number: a path with a line, lines of two files further  *)
(* apart than the tolerance.  A replay calls the model at temperature 0:   *)
(* what it finds is a function of the version and the case.  Metrics are   *)
(* in ten-thousandths, as the code rounds them.                            *)
(***************************************************************************)
EXTENDS Naturals, Sequences, FiniteSets, FiniteSetsExt, SequencesExt, TLC

CONSTANTS
  Rules,            \* rule ids that feedback names
  EvaluationCases,  \* names of cases that somebody may add
  Case,             \* [name -> [split, lines, expected]], see ValidCase
  Answers,          \* [content -> [name -> sequence of findings]]
  RuleToCwe,        \* [rule -> identity], of the rules that have one
  Unsafe,           \* contents the deterministic gate refuses
  MinCases, MinHoldout, MaxCases, MinImprovement, MaxRegression, Tolerance

Categories == {"missed_issue", "false_positive", "bad_fix", "execution_error"}
Constraints == Rules \cup Categories
Splits == {"validation", "holdout"}
One == 10000

(* Severities, as SEVERITY_RANK has them. *)
High == 2
NoIdentity == ""

(* f, which TLC evaluates once instead of at every use. *)
Table(f) == f @@ <<>>

-------------------------------------------------------------------------------
(* A case may be added if it is well-formed: what it expects lies on added   *)
(* lines, and nothing is expected twice.                                     *)
ValidCase(name) ==
  LET c == Case[name] IN
  /\ c.lines # {} /\ c.split \in Splits \cup {"train"}
  /\ \A i \in DOMAIN c.expected :
       /\ c.expected[i].first <= c.expected[i].last
       /\ \E line \in c.lines : line \in c.expected[i].first .. c.expected[i].last
       /\ \A j \in DOMAIN c.expected : i # j =>
            \/ c.expected[i].first # c.expected[j].first
            \/ c.expected[i].last # c.expected[j].last
            \/ c.expected[i].rule # c.expected[j].rule

Addable == {name \in EvaluationCases : ValidCase(name)}
OfSplit == Table([split \in Splits |-> {name \in EvaluationCases : Case[name].split = split}])

(* The cases of a split, oldest first, are cut to MaxCases. *)
Listed(cases, split) ==
  LET all == {i \in DOMAIN cases : cases[i] \in OfSplit[split]}
      older(i) == {j \in all : j < i}
  IN {cases[i] : i \in {i \in all : Cardinality(older(i)) < MaxCases}}

(* Findings of one rule at one location are one prediction, the first of     *)
(* those that are most severe.                                               *)
Predicted(findings) ==
  LET same(i) == {j \in DOMAIN findings :
                    findings[j].line = findings[i].line /\ findings[j].rule = findings[i].rule}
      highest(i) == {j \in same(i) : \A k \in same(i) : findings[k].severity <= findings[j].severity}
      first == SetToSortSeq({i \in DOMAIN findings : i = Min(same(i))}, <)
  IN [n \in DOMAIN first |-> findings[Min(highest(first[n]))]]

(* canonical_cwe: the CWE a finding names or that of its rule, if it has one; *)
(* canonical_identity: else the rule itself.                                 *)
CanonicalCwe(f) ==
  IF f.cwe # NoIdentity THEN f.cwe
  ELSE IF f.rule \in DOMAIN RuleToCwe THEN RuleToCwe[f.rule] ELSE NoIdentity

Canonical(f) == IF CanonicalCwe(f) # NoIdentity THEN CanonicalCwe(f) ELSE f.rule

-------------------------------------------------------------------------------
(* one_to_one_match.  An expected item without an identity fits whatever is  *)
(* near enough.  The identity of an item is canonicalised twice, the second  *)
(* time as if it were a CWE, so that a rule without one is lost.             *)
Apart(a, b) == IF a < b THEN b - a ELSE a - b

Distance(item, f) ==
  IF f.line \in item.first .. item.last THEN 0
  ELSE Min({Apart(f.line, item.first), Apart(f.line, item.last)})

Fits(item, f) ==
  CanonicalCwe(item) \in {NoIdentity, Canonical(f)} /\ Distance(item, f) <= Tolerance

(* The predictions an item may take, the nearest first. *)
Options(item, predicted) ==
  SetToSortSeq({p \in DOMAIN predicted : Fits(item, predicted[p])},
    LAMBDA p, q :
      \/ Distance(item, predicted[p]) < Distance(item, predicted[q])
      \/ Distance(item, predicted[p]) = Distance(item, predicted[q]) /\ p < q)

(* Constrained items go first.  An item takes its first option that is free  *)
(* or whose owner finds another; owner[p] = 0 while p is free.               *)
Owners(expected, predicted) ==
  LET options == [i \in DOMAIN expected |-> Options(expected[i], predicted)]
      order == SetToSortSeq(DOMAIN expected,
                 LAMBDA i, j :
                   \/ Len(options[i]) < Len(options[j])
                   \/ Len(options[i]) = Len(options[j]) /\ i < j)
      Search ==
        [item : DOMAIN expected, next : Nat, visited : SUBSET DOMAIN predicted,
         owner : [DOMAIN predicted -> 0 .. Len(expected)]]
      Assign[s \in Search] ==
        IF s.next > Len(options[s.item])
          THEN [found |-> FALSE, visited |-> s.visited, owner |-> s.owner]
          ELSE LET p == options[s.item][s.next]
                   seen == s.visited \cup {p}
                   moved == Assign[[item |-> s.owner[p], next |-> 1,
                                    visited |-> seen, owner |-> s.owner]]
                   skip(visited) == Assign[[s EXCEPT !.next = @ + 1, !.visited = visited]]
               IN CASE p \in s.visited -> skip(s.visited)
                    [] p \notin s.visited /\ s.owner[p] = 0 ->
                         [found |-> TRUE, visited |-> seen, owner |-> [s.owner EXCEPT ![p] = s.item]]
                    [] OTHER ->
                         IF moved.found
                           THEN [moved EXCEPT !.owner[p] = s.item]
                           ELSE skip(moved.visited)
  IN FoldLeft(
       LAMBDA owner, i :
         Assign[[item |-> i, next |-> 1, visited |-> {}, owner |-> owner]].owner,
       [p \in DOMAIN predicted |-> 0], order)

-------------------------------------------------------------------------------
(* What one case adds to the totals.  The hits among the high severities     *)
(* count every expected item of such a minimum, their total only the items   *)
(* that spell it min_severity.                                               *)
Counts(expected, predicted, owner) ==
  LET matched == {p \in DOMAIN predicted : owner[p] # 0}
      passed == {p \in matched : predicted[p].severity >= expected[owner[p]].severity}
  IN [expected |-> Len(expected),
      tp |-> Cardinality(matched),
      fp |-> Len(predicted) - Cardinality(matched),
      fn |-> Len(expected) - Cardinality(matched),
      severity |-> Cardinality(passed),
      high |-> Cardinality({p \in passed : expected[owner[p]].severity >= High}),
      highs |-> Cardinality({i \in DOMAIN expected :
                               expected[i].minimum /\ expected[i].severity >= High}),
      clean |-> IF expected = <<>> THEN 1 ELSE 0,
      cleanHit |-> IF expected = <<>> /\ predicted = <<>> THEN 1 ELSE 0]

CaseCounts(expected, predicted) == Counts(expected, predicted, Owners(expected, predicted))

Ratio(n, d) == (2 * One * n + d) \div (2 * d)
RatioOr(n, d, default) == IF d > 0 THEN Ratio(n, d) ELSE default

(* The score: the F1, 65 parts, and the severity accuracy, 15, if anything   *)
(* was expected, and the clean accuracy, 20, if anything was clean.          *)
Score(total) ==
  LET a == 2 * total.tp + total.fp + total.fn
      b == Max({1, total.tp})
      c == Max({1, total.clean})
      weights == (IF total.expected > 0 THEN 80 ELSE 0) + (IF total.clean > 0 THEN 20 ELSE 0)
      parts == (IF total.expected > 0
                  THEN 65 * 2 * total.tp * b * c + 15 * total.severity * a * c ELSE 0)
               + 20 * total.cleanHit * Max({1, a}) * b
  IN RatioOr(parts, weights * Max({1, a}) * b * c, 0)

Counted ==
  Table([content \in DOMAIN Answers |->
           Table([name \in EvaluationCases |->
              CaseCounts(Case[name].expected, Predicted(Answers[content][name]))])])

(* The totals of a data set, by what each of its cases adds, and its metrics. *)
Totals(counted, names) ==
  Table([field \in {"expected", "tp", "fp", "fn", "severity", "high", "highs", "clean", "cleanHit"} |->
           MapThenSumSet(LAMBDA name : counted[name][field], names)])

Metrics(total) ==
  LET missed == total.fn > 0
  IN [score |-> Score(total),
      precision |-> RatioOr(total.tp, total.tp + total.fp, IF missed THEN 0 ELSE One),
      recall |-> RatioOr(total.tp, total.tp + total.fn, One),
      highSeverityRecall |-> RatioOr(total.high, total.highs, One),
      severityAccuracy |-> RatioOr(total.severity, total.tp, IF missed THEN 0 ELSE One),
      cleanAccuracy |-> RatioOr(total.cleanHit, total.clean, One),
      positive |-> total.expected > 0,
      clean |-> total.clean > 0]

(* Each content on each data set. *)
Replayed ==
  Table([content \in DOMAIN Answers |->
           Table([names \in SUBSET EvaluationCases |-> Metrics(Totals(Counted[content], names))])])

(* _non_regressing.  The success rate a Skill protects too is that of        *)
(* replays without errors, which the gate has already required.              *)
NonRegressing(candidate, baseline) ==
  LET protected ==
        {"score", "precision", "recall", "highSeverityRecall"}
        \cup (IF baseline.positive THEN {"severityAccuracy"} ELSE {})
        \cup (IF baseline.clean THEN {"cleanAccuracy"} ELSE {})
  IN \A metric \in protected : candidate[metric] + MaxRegression >= baseline[metric]

Improved(candidate, baseline) == candidate.score >= baseline.score + MinImprovement

(* What was replayed of the candidate and of the baseline.                   *)
Passes(after, before, data) ==
  /\ Improved(after[data.validation], before[data.validation])
  /\ \A split \in Splits : NonRegressing(after[data[split]], before[data[split]])

(* safety_evaluate: a prompt needs its terms and none of the forbidden ones. *)
Refused(engine, candidate) == engine = "prompt" /\ candidate \in Unsafe

TooFew(data) ==
  Cardinality(data.validation) < MinCases \/ Cardinality(data.holdout) < MinHoldout

(* Mutant of Decision: the holdout is replayed but not looked at. *)
DecisionValidation(engine, policy, candidate, baseline, data, failed) ==
  LET after == Replayed[candidate][data.validation]
      before == Replayed[baseline][data.validation]
  IN IF Refused(engine, candidate) THEN "rejected"
     ELSE IF TooFew(data) THEN "deferred"
     ELSE IF failed \/ ~Improved(after, before) \/ ~NonRegressing(after, before) THEN "rejected"
     ELSE IF policy = "auto" THEN "activated" ELSE "shadow_ready"

(* The decision; failed: a replay of either version had an error.            *)
Decision(engine, policy, candidate, baseline, data, failed) ==
  IF Refused(engine, candidate) THEN "rejected"
  ELSE IF TooFew(data) THEN "deferred"
  ELSE IF failed \/ ~Passes(Replayed[candidate], Replayed[baseline], data) THEN "rejected"
  ELSE IF policy = "auto" THEN "activated" ELSE "shadow_ready"

-------------------------------------------------------------------------------
(* What an expected item is meant to match: its CWE or, of a rule without    *)
(* one, exactly that rule.                                                   *)
Meant(item, f) ==
  Canonical(item) \in {NoIdentity, Canonical(f)} /\ Distance(item, f) <= Tolerance

(* How many expected items of a case can be told apart by what was found:    *)
(* the largest choice of pairs that uses no item and no prediction twice.    *)
Findable(content, name) ==
  LET expected == Case[name].expected
      predicted == Predicted(Answers[content][name])
      pairs == {x \in (DOMAIN expected) \X (DOMAIN predicted) :
                  Meant(expected[x[1]], predicted[x[2]])}
      Disjoint(chosen) ==
        \A x, y \in chosen : x # y => x[1] # y[1] /\ x[2] # y[2]
  IN Max({Cardinality(chosen) : chosen \in {s \in SUBSET pairs : Disjoint(s)}})

Merits ==
  Table([content \in DOMAIN Answers |->
           Table([names \in SUBSET EvaluationCases |->
              [found |-> MapThenSumSet(LAMBDA name : Findable(content, name), names),
               totals |-> Totals(Counted[content], names)]])])

(* A candidate that was activated finds no fewer of the issues that its data *)
(* sets expect, and on the validation set something is better than before:   *)
(* more is found, with fewer false alarms, of a sufficient severity, or more *)
(* of the clean cases are left alone.                                        *)
Merited(after, before, data) ==
  LET After(split) == after[data[split]]
      Before(split) == before[data[split]]
  IN /\ \A split \in Splits : After(split).found >= Before(split).found
     /\ \/ After("validation").found > Before("validation").found
        \/ After("validation").totals.fp < Before("validation").totals.fp
        \/ \E good \in {"severity", "cleanHit"} :
             After("validation").totals[good] > Before("validation").totals[good]

DataSets == [validation : SUBSET OfSplit["validation"], holdout : SUBSET OfSplit["holdout"]]

(* The cases of which an item loses its identity when it is matched. *)
Nameless ==
  {name \in EvaluationCases : \E i \in DOMAIN Case[name].expected :
     CanonicalCwe(Case[name].expected[i]) # Canonical(Case[name].expected[i])}

Identified(data) == (data.validation \cup data.holdout) \cap Nameless = {}

(* The gates let pass only what has merits, whatever is compared on such     *)
(* data sets: a statement about the constants, the thresholds among them.    *)
SoundOn(data) ==
  \A after, before \in SUBSET Constraints :
    ~TooFew(data) /\ Passes(Replayed[after], Replayed[before], data)
      => Merited(Merits[after], Merits[before], data)

GateSound == \A data \in DataSets : Identified(data) => SoundOn(data)
===============================================================================
