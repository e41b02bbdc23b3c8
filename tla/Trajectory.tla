------------------------------- MODULE Trajectory -------------------------------
(***************************************************************************)
(* From a review to the release gate: the roles of a review call tools in    *)
(* parallel, the ExecutionLedger records the calls, ledger_to_spans makes a  *)
(* trajectory of them, evaluate_task judges it, compare_results and          *)
(* locate_first_error hold it against a baseline, evaluate_gate releases.    *)
(*                                                                         *)
(* The arguments of a call are reduced to whether they hold what the task    *)
(* asserts, an answer to whether it holds the expected text.  A role may     *)
(* have several runs, one after the other or at once.  The roles follow the  *)
(* expected chain but for a few slips.                                       *)
(***************************************************************************)
EXTENDS Naturals, FiniteSets, Sequences, SequencesExt

CONSTANTS
  RoleOrder,    \* the roles of the task in the order of their names
  Runs,         \* the assignments that are run
  RoleOf,       \* of each run
  Tools,
  Groups,       \* expected_tool_groups: of each role
  FlatChain,    \* expected_tools, of the flat variant of the task
  Baselines,    \* results of the baseline version for the task
  OtherTasks,   \* what the rest of the data set may have given
  Configs,      \* gate configurations
  Excesses,     \* sets of cost rules whose average is above its threshold
  MaxMishaps,   \* bound on slips and crashes together
  MaxClock      \* bound on the time of one process

Roles == Range(RoleOrder)

ASSUME TrajectoryAssumption ==
  /\ RoleOrder \in Seq(Roles) /\ Cardinality(Roles) = Len(RoleOrder)
  /\ RoleOf \in [Runs -> Roles]
  /\ Groups \in [Roles -> Seq(Tools) \ {<<>>}] /\ FlatChain \in Seq(Tools)
  /\ OtherTasks \subseteq Seq([baseline : BOOLEAN, candidate : BOOLEAN, tools : BOOLEAN, critical : BOOLEAN])
  /\ \A baseline \in Baselines : baseline.tools \in
       Seq([step : Nat \ {0}, role : Roles, tool : Tools, asserted : BOOLEAN, error : BOOLEAN])
  /\ MaxMishaps \in Nat /\ MaxClock \in Nat

VARIABLES
  models,    \* model_calls of the ledger
  tools,     \* tool_calls of the ledger, in the order they were recorded
  clock,     \* time since the ledger was made
  phase,     \* of the review
  calls,     \* run -> the call it has under way
  did,       \* role -> its calls that reached a tool of the suite, as they ended
  reported,  \* runs that have reported
  answered,  \* whether the answer holds what it should
  saved,     \* the checkpoint of the session
  overlapped, \* whether two runs of one role have had a call under way at once
  slips, resumes

trajectoryVars ==
  <<models, tools, clock, phase, calls, did, reported, answered, saved, overlapped, slips, resumes>>

NoCall == [tool |-> "none"]

TrajectoryInit ==
  /\ models = <<>> /\ tools = <<>> /\ clock = 0
  /\ phase = "planning" /\ answered = FALSE
  /\ calls = [q \in Runs |-> NoCall] /\ overlapped = FALSE
  /\ did = [r \in Roles |-> <<>>] /\ reported = {}
  /\ saved = [models |-> <<>>, tools |-> <<>>, phase |-> "planning", reported |-> {},
              did |-> [r \in Roles |-> <<>>]]
  /\ slips = 0 /\ resumes = 0

-------------------------------------------------------------------------------
(* The review. *)

(* Bounds: a review is resumed once and makes no slip after that. *)
Slips(n) ==
  /\ n = 0 \/ resumes = 0
  /\ slips + resumes + n <= MaxMishaps
  /\ slips' = slips + n

Slip == Slips(1)
SlipUnless(right) == Slips(IF right THEN 0 ELSE 1)

RunsOf(r) == {q \in Runs : RoleOf[q] = r}
Calling(r) == {q \in RunsOf(r) : calls[q] # NoCall}

(* record_model, of a call that succeeded or not. *)
ModelCall(ok) == Append(models, [ok |-> ok])

Checkpoint(where) ==
  saved' = [models |-> models', tools |-> tools, phase |-> where,
            reported |-> reported', did |-> [r \in Roles |->
                IF RunsOf(r) \subseteq reported' THEN did[r] ELSE <<>>]]

(* An attempt of the model client that is made again.                        *)
ModelRetries ==
  /\ phase # "done" /\ Slip
  /\ models' = ModelCall(FALSE)
  /\ UNCHANGED <<tools, clock, phase, calls, did, reported, answered, saved, overlapped, resumes>>

Plan ==
  /\ phase = "planning"
  /\ models' = ModelCall(TRUE)
  /\ phase' = "working"
  /\ UNCHANGED reported /\ Checkpoint("working")
  /\ UNCHANGED <<tools, clock, calls, did, answered, overlapped, slips, resumes>>

Working(q) == phase = "working" /\ q \notin reported /\ calls[q] = NoCall

(* The call a role is expected to make next. *)
Expected(r) ==
  LET made == Len(did[r]) + Cardinality(Calling(r)) IN
  IF made < Len(Groups[r]) THEN Groups[r][made + 1] ELSE "none"

(* A call that the registry lets through to a tool of the suite. *)
Invoke(q) ==
  /\ Working(q)
  /\ \E tool \in Tools, asserted \in BOOLEAN, ok \in BOOLEAN :
       /\ Slips((IF tool = Expected(RoleOf[q]) THEN 0 ELSE 1)
                + (IF asserted THEN 0 ELSE 1) + (IF ok THEN 0 ELSE 1))
       /\ calls' = [calls EXCEPT ![q] =
            [tool |-> tool, asserted |-> asserted, ok |-> ok, start |-> clock]]
  /\ overlapped' = (overlapped \/ Calling(RoleOf[q]) # {})
  /\ UNCHANGED <<models, tools, clock, phase, did, reported, answered, saved, resumes>>

(* record_tool, by the wrapper of the suite, after the call. *)
Record(q) ==
  /\ calls[q] # NoCall
  /\ tools' = Append(tools,
       [role |-> RoleOf[q], tool |-> calls[q].tool, asserted |-> calls[q].asserted,
        ok |-> calls[q].ok, start |-> calls[q].start, end |-> clock])
  /\ did' = [did EXCEPT ![RoleOf[q]] = Append(@,
       [tool |-> calls[q].tool, asserted |-> calls[q].asserted, ok |-> calls[q].ok])]
  /\ calls' = [calls EXCEPT ![q] = NoCall]
  /\ UNCHANGED <<models, clock, phase, reported, answered, saved, overlapped, slips, resumes>>

(* A call that never reaches the wrapper: of a tool the role does not have,  *)
(* with arguments its schema refuses, or of read_skill_resource.  The role   *)
(* has its answer, the ledger nothing.                                       *)
Unrecorded(q) ==
  /\ Working(q) /\ Slip
  /\ UNCHANGED <<models, tools, clock, phase, calls, did, reported, answered, saved, overlapped, resumes>>

(* The final answer of a worker; the session is saved with the ledger, which *)
(* holds the calls of the other workers so far.                              *)
Report(q) ==
  /\ Working(q)
  /\ SlipUnless(RunsOf(RoleOf[q]) \subseteq reported \cup {q}
                  => Len(did[RoleOf[q]]) >= Len(Groups[RoleOf[q]]))
  /\ models' = ModelCall(TRUE)
  /\ reported' = reported \cup {q}
  /\ Checkpoint("working")
  /\ UNCHANGED <<tools, clock, phase, calls, did, answered, overlapped, resumes>>

Conclude ==
  /\ phase = "working" /\ reported = Runs
  /\ \E right \in BOOLEAN : answered' = right /\ SlipUnless(right)
  /\ models' = ModelCall(TRUE)
  /\ phase' = "done"
  /\ UNCHANGED <<tools, clock, calls, did, reported, saved, overlapped, resumes>>

(* Time that passes without a call under way changes no order of the times   *)
(* that are recorded.                                                        *)
Tick ==
  /\ clock < MaxClock /\ \E q \in Runs : calls[q] # NoCall
  /\ clock' = clock + 1
  /\ UNCHANGED <<models, tools, phase, calls, did, reported, answered, saved, overlapped, slips, resumes>>

(* A crash and the run that resumes the session: ExecutionLedger.restore     *)
(* takes the calls over, the clock of the new ledger starts at zero.         *)
Resume ==
  /\ phase # "done" /\ slips < MaxMishaps /\ resumes = 0
  /\ models' = saved.models /\ tools' = saved.tools /\ clock' = 0
  /\ phase' = saved.phase /\ reported' = saved.reported /\ did' = saved.did
  /\ calls' = [q \in Runs |-> NoCall]
  /\ resumes' = resumes + 1
  /\ UNCHANGED <<answered, saved, overlapped, slips>>

TrajectoryNext ==
  \/ ModelRetries \/ Plan \/ Conclude \/ Tick \/ Resume
  \/ \E q \in Runs : Invoke(q) \/ Record(q) \/ Unrecorded(q) \/ Report(q)

TrajectorySpec == TrajectoryInit /\ [][TrajectoryNext]_trajectoryVars

-------------------------------------------------------------------------------
(* ledger_to_spans. *)

(* sorted(): of equal keys the first stays first. *)
StablySorted(s, key) ==
  LET place(i) == Cardinality({j \in DOMAIN s :
                    key[j] < key[i] \/ (key[j] = key[i] /\ j <= i)})
  IN [n \in DOMAIN s |-> s[CHOOSE i \in DOMAIN s : place(i) = n]]

(* The calls in the order they started in, if all have their times.          *)
InTimeOrder(log) ==
  IF \A i \in DOMAIN log : log[i].end > 0
    THEN StablySorted(log, [i \in DOMAIN log |-> log[i].start]) ELSE log

ToolSpans(log) ==
  [i \in DOMAIN log |->
     [step |-> i + 1, role |-> log[i].role, tool |-> log[i].tool,
      asserted |-> log[i].asserted, error |-> ~log[i].ok]]

SomeFailed(log) == \E i \in DOMAIN log : ~log[i].ok

Remaining(log) == IF log = <<>> THEN <<>> ELSE Tail(log)

(* The planner's span has the first model call, the final one the rest.      *)
Trajectory(modelLog, toolLog, answer) ==
  LET first == IF modelLog = <<>> THEN <<>> ELSE <<modelLog[1]>> IN
  [plan |-> [error |-> SomeFailed(first)],
   tools |-> ToolSpans(InTimeOrder(toolLog)),
   final |-> [error |-> SomeFailed(Remaining(modelLog))],
   answer |-> answer]

-------------------------------------------------------------------------------
(* evaluate_task. *)

Names(spans) == [i \in DOMAIN spans |-> spans[i].tool]

(* The n-th of a set of numbers.                                             *)
Rank(at, i) == Cardinality({j \in at : j <= i})
Nth(at, n) == CHOOSE i \in at : Rank(at, i) = n

(* The spans of a role, in their order.                                      *)
OfRole(spans, r) ==
  LET at == {i \in DOMAIN spans : spans[i].role = r}
  IN [n \in 1 .. Cardinality(at) |-> spans[Nth(at, n)]]

ToolsByRole(spans) ==
  [r \in {spans[i].role : i \in DOMAIN spans} |-> Names(OfRole(spans, r))]

(* Mutant of HasCorrectTools: groups are compared along one chain. *)
HasCorrectToolsFlat(grouped, result) ==
  Names(result.tools) = IF grouped THEN FlattenSeq([n \in DOMAIN RoleOrder |-> Groups[RoleOrder[n]]])
                                   ELSE FlatChain

HasCorrectTools(grouped, result) ==
  IF grouped THEN ToolsByRole(result.tools) = Groups
             ELSE Names(result.tools) = FlatChain

HasError(result) ==
  \/ result.plan.error \/ result.final.error
  \/ \E i \in DOMAIN result.tools : result.tools[i].error

Evaluation(grouped, result) ==
  LET tool == HasCorrectTools(grouped, result)
      arguments == tool /\ \A i \in DOMAIN result.tools : result.tools[i].asserted
  IN [tools |-> tool, arguments |-> arguments, execution |-> ~HasError(result),
      success |-> tool /\ arguments /\ result.answer /\ ~HasError(result)]

-------------------------------------------------------------------------------
(* locate_first_error. *)

NoSpan == [step |-> 0]
At(spans, i) == IF i \in DOMAIN spans THEN spans[i] ELSE NoSpan

(* Calls are paired within each role, or along one chain.                    *)
Flat == 0
Lanes(grouped) == IF grouped THEN DOMAIN RoleOrder ELSE {Flat}
Lane(spans, n) == IF n = Flat THEN spans ELSE OfRole(spans, RoleOrder[n])

Pair(baseline, candidate, n, i) ==
  LET b == At(Lane(baseline, n), i)
      c == At(Lane(candidate, n), i)
  IN [baseline |-> b, candidate |-> c, lane |-> n, index |-> i,
      step |-> IF n = Flat THEN i ELSE IF c # NoSpan THEN c.step ELSE b.step]

PairsOf(baseline, candidate, n) ==
  {Pair(baseline, candidate, n, i) : i \in DOMAIN Lane(baseline, n) \cup DOMAIN Lane(candidate, n)}

(* Mutant of Aligned: roles are not told apart. *)
AlignedFlat(grouped, baseline, candidate) == PairsOf(baseline, candidate, Flat)

Aligned(grouped, baseline, candidate) ==
  UNION {PairsOf(baseline, candidate, n) : n \in Lanes(grouped)}

(* The sort by step keeps the order by role and place of equal steps.        *)
Before(p, q) ==
  \/ p.step < q.step
  \/ p.step = q.step /\ p.lane < q.lane
  \/ p.step = q.step /\ p.lane = q.lane /\ p.index < q.index

Divergence(pair) ==
  IF NoSpan \in {pair.baseline, pair.candidate} \/ pair.baseline.tool # pair.candidate.tool
    THEN "tool_selection_error"
  ELSE IF pair.baseline.asserted /\ ~pair.candidate.asserted THEN "tool_argument_error"
  ELSE IF pair.candidate.error THEN "tool_execution_error" ELSE "none"

NoPair == [baseline |-> NoSpan, candidate |-> NoSpan]

FirstError(grouped, baseline, candidate) ==
  LET diverging == {pair \in Aligned(grouped, baseline.tools, candidate.tools) :
                      Divergence(pair) # "none"}
      first == CHOOSE pair \in diverging : \A other \in diverging : ~Before(other, pair)
  IN CASE candidate.plan.error -> [category |-> "execution_error", pair |-> NoPair]
       [] ~candidate.plan.error /\ diverging # {} -> [category |-> Divergence(first), pair |-> first]
       [] OTHER -> [category |-> IF HasError(candidate) THEN "execution_error" ELSE "generation_error",
                    pair |-> NoPair]

-------------------------------------------------------------------------------
(* compare_results and evaluate_gate, over the outcomes of all tasks.        *)

Outcome(grouped, critical, baseline, candidate) ==
  LET judged == Evaluation(grouped, candidate) IN
  [baseline |-> Evaluation(grouped, baseline).success,
   candidate |-> judged.success, tools |-> judged.tools, critical |-> critical]

Regressed(outcome) == outcome.baseline /\ ~outcome.candidate

(* How many tasks have a field set. *)
Count(outcomes, field) == Cardinality({i \in DOMAIN outcomes : outcomes[i][field]})

Regressions(outcomes) == {i \in DOMAIN outcomes : Regressed(outcomes[i])}

BlockRules ==
  {"minimum_success_rate", "maximum_success_rate_drop", "minimum_tool_selection_accuracy",
   "maximum_critical_task_regressions", "maximum_average_latency_ms"}

Rules == BlockRules \cup
  {"maximum_task_regressions", "maximum_average_total_tokens", "maximum_average_cost_usd"}

(* validate_gate_config: an unknown rule or severity is refused, a rule that *)
(* is left out is not.                                                       *)
ValidGateConfig(config) ==
  /\ DOMAIN config.thresholds \subseteq Rules /\ DOMAIN config.overrides \subseteq Rules
  /\ \A rule \in DOMAIN config.overrides : config.overrides[rule] \in {"block", "warning"}

ASSUME GateAssumption == \A config \in Configs : ValidGateConfig(config)

(* Rates are in percent; a rule without a threshold is skipped.              *)
Breaks(rule, threshold, outcomes, excess) ==
  LET n == Len(outcomes)
      before == Count(outcomes, "baseline")
      after == Count(outcomes, "candidate")
  IN CASE rule = "minimum_success_rate" -> 100 * after < threshold * n
       [] rule = "maximum_success_rate_drop" -> 100 * before > 100 * after + threshold * n
       [] rule = "minimum_tool_selection_accuracy" ->
            100 * Count(outcomes, "tools") < threshold * n
       [] rule = "maximum_critical_task_regressions" ->
            Cardinality({i \in Regressions(outcomes) : outcomes[i].critical}) > threshold
       [] rule = "maximum_task_regressions" -> Cardinality(Regressions(outcomes)) > threshold
       [] OTHER -> rule \in excess

Severity(config, rule) ==
  IF rule \in DOMAIN config.overrides THEN config.overrides[rule]
  ELSE IF rule \in BlockRules THEN "block" ELSE "warning"

(* Mutant of GateStatus: one violation overwrites the other. *)
GateStatusLast(config, outcomes, excess) ==
  LET broken == {rule \in DOMAIN config.thresholds :
                   Breaks(rule, config.thresholds[rule], outcomes, excess)}
  IN IF broken = {} THEN "PASS"
     ELSE IF \A rule \in broken : Severity(config, rule) = "block" THEN "BLOCK" ELSE "WARNING"

GateStatus(config, outcomes, excess) ==
  LET broken == {rule \in DOMAIN config.thresholds :
                   Breaks(rule, config.thresholds[rule], outcomes, excess)}
  IN IF \E rule \in broken : Severity(config, rule) = "block" THEN "BLOCK"
     ELSE IF broken # {} THEN "WARNING" ELSE "PASS"

-------------------------------------------------------------------------------
Result == Trajectory(models, tools, answered)

(* What the review did with the tools of the suite, whatever was recorded.   *)
DidRight ==
  /\ answered /\ ~SomeFailed(models)
  /\ \A r \in Roles :
       /\ Names(did[r]) = Groups[r]
       /\ \A i \in DOMAIN did[r] : did[r][i].asserted /\ did[r][i].ok

(* The account of the review is its own: it was not resumed, and no two runs *)
(* of a role called tools at the same time.                                  *)
Accountable == resumes = 0 /\ ~overlapped

(* A task is judged by the calls of each role that reached a tool of the     *)
(* suite, in their order, however the calls of the roles interleave in the   *)
(* ledger and whatever other calls the roles made.                           *)
JudgedByConduct ==
  phase = "done" /\ Accountable => (Evaluation(TRUE, Result).success <=> DidRight)

(* The baselines that do the task right, in each variant of the task. *)
Successful == [grouped \in BOOLEAN |-> {b \in Baselines : Evaluation(grouped, b).success}]

(* The attribution of a regression agrees with its evaluation, and no        *)
(* earlier call of any role diverges, but for calls that are missing.        *)
AttributionSound ==
  phase = "done" =>
    LET result == Result IN
    \A grouped \in BOOLEAN : \A baseline \in Successful[grouped] :
      LET judged == Evaluation(grouped, result)
          error == FirstError(grouped, baseline, result)
          call == error.pair.candidate
      IN ~judged.success =>
           /\ error.category = "generation_error" =>
                judged.tools /\ judged.arguments /\ judged.execution /\ ~answered
           /\ judged.tools => error.category # "tool_selection_error"
           /\ error.category = "tool_argument_error" => ~judged.arguments
           /\ judged.execution =>
                error.category \notin {"tool_execution_error", "execution_error"}
           /\ call # NoSpan =>
                \A n \in Lanes(grouped) : \A pair \in PairsOf(baseline.tools, result.tools, n) :
                  pair.candidate # NoSpan /\ pair.candidate.step < call.step
                    => Divergence(pair) = "none"

(* A version that answers a critical task wrong, fails in a model call or    *)
(* uses the tools of the suite wrong is not released if the baseline does    *)
(* the task right, nor passes with any such task, under a configuration that *)
(* allows no regression.                                                     *)
NoRegressionReleased ==
  phase = "done" /\ Accountable /\ ~DidRight =>
    \A baseline \in Successful[TRUE], critical \in BOOLEAN :
      LET outcome == Outcome(TRUE, critical, baseline, Result) IN
      \A others \in OtherTasks, config \in Configs, excess \in Excesses :
        LET status == GateStatus(config, Append(others, outcome), excess)
            forbids(rule) == rule \in DOMAIN config.thresholds /\ config.thresholds[rule] = 0
        IN /\ critical /\ forbids("maximum_critical_task_regressions")
              /\ "maximum_critical_task_regressions" \notin DOMAIN config.overrides
                => status = "BLOCK"
           /\ forbids("maximum_task_regressions") => status # "PASS"
===============================================================================
