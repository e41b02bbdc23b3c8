------------------------------ MODULE MCEvolution ------------------------------
(* A small instance of prompt and Skill evolution for TLC. *)
EXTENDS Evolution, TLC

CONSTANTS t1, t2, r1, r2

(* A rule that is missed first and then a false positive. *)
MCCases ==
  {[id |-> 1, category |-> "missed_issue", rule |-> r1],
   [id |-> 2, category |-> "false_positive", rule |-> r1]}

MCDrafts == {{r2}}

Expects(first, last, rule, cwe, severity, minimum) ==
  [first |-> first, last |-> last, rule |-> rule, cwe |-> cwe,
   severity |-> severity, minimum |-> minimum]

Item(first, last, cwe, severity, minimum) ==
  Expects(first, last, NoIdentity, cwe, severity, minimum)

MCRuleToCwe == "SEC-EVAL" :> "CWE-95" @@ "SEC-PATH-TRAVERSAL" :> "CWE-22"

(* Two expected items that may take the same prediction, a clean case, and a *)
(* holdout; one of a rule without a CWE, which only the gates see; one more  *)
(* is refused, since it expects what no added line has.                      *)
MCCase ==
  "defects" :>
    [split |-> "validation", lines |-> 1 .. 4,
     expected |-> <<Item(1, 4, NoIdentity, 1, TRUE), Item(2, 2, "CWE-95", High, TRUE)>>]
  @@ "clean" :> [split |-> "validation", lines |-> {1}, expected |-> <<>>]
  @@ "bare" :>
    [split |-> "holdout", lines |-> {1},
     expected |-> <<Expects(1, 1, "LEGACY", NoIdentity, High, FALSE)>>]
  @@ [name \in {"holdout", "elsewhere"} |->
        [split |-> "holdout", lines |-> {IF name = "holdout" THEN 1 ELSE 9},
         expected |-> <<Item(1, 1, "CWE-95", High, FALSE)>>]]

MCEvaluationCases == DOMAIN MCCase
MCOffered == {"holdout", "elsewhere"}
MCSeeded == <<"defects", "clean">>

Finding(line, rule, severity) ==
  [line |-> line, rule |-> rule, cwe |-> NoIdentity, severity |-> severity]

(* r1 and r2 each teach to find the dangerous line, and r2 to stay silent on *)
(* clean code; what only misses have taught forgets the holdout; with r1 the *)
(* wrong rule is named where one without a CWE is expected.                  *)
MCAnswers ==
  [content \in SUBSET Constraints |->
    [name \in MCEvaluationCases |->
      CASE name = "defects" ->
             (IF r1 \in content THEN <<Finding(3, "SEC-EVAL", 1), Finding(3, "SEC-EVAL", High)>> ELSE <<>>)
             \o (IF r2 \in content THEN <<Finding(1, "SEC-EVAL", High)>> ELSE <<>>)
             \o (IF "missed_issue" \in content THEN <<Finding(4, "SEC-PATH-TRAVERSAL", 1)>> ELSE <<>>)
        [] name = "clean" ->
             IF {"false_positive", r2} \cap content = {}
               THEN <<Finding(1, "SEC-EVAL", High)>> ELSE <<>>
        [] name = "bare" ->
             <<Finding(1, IF r1 \in content THEN "SEC-EVAL" ELSE "LEGACY", High)>>
        [] OTHER ->
             IF "missed_issue" \in content /\ "false_positive" \notin content
               THEN <<>> ELSE <<Finding(1, "SEC-EVAL", High)>>]]

(* With these thresholds the gates let pass only what has merits, of all     *)
(* contents and data sets, those that no run of the engines compares too ... *)
ASSUME MCGateSound == GateSound

(* ... but not where an expected item loses its identity.                    *)
ASSUME MCGateUnsound == \E data \in DataSets : ~SoundOn(data)
===============================================================================
