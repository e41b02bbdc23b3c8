------------------------------ MODULE MCTrajectory ------------------------------
EXTENDS Trajectory

CONSTANTS security, reliability, s1, s2, r1, t1, t2

MCRoles == <<security, reliability>>
MCRoleOf == s1 :> security @@ s2 :> security @@ r1 :> reliability
Symmetry == Permutations({s1, s2})
MCGroups == security :> <<t1, t2>> @@ reliability :> <<t1>>
MCFlat == <<t1, t1, t2>>

Call(r, t, at) == [role |-> r, tool |-> t, asserted |-> TRUE, ok |-> TRUE, start |-> at, end |-> at + 1]
Answered == <<[ok |-> TRUE]>>

(* The interleavings of a baseline that does the task right, and one that    *)
(* does not. *)
MCBaselines ==
  {Trajectory(Answered, log, TRUE) : log \in
     {<<Call(security, t1, 0), Call(security, t2, 1), Call(reliability, t1, 2)>>,
      <<Call(security, t1, 0), Call(reliability, t1, 1), Call(security, t2, 2)>>,
      <<Call(reliability, t1, 0), Call(security, t2, 1)>>}}

Other(before, after) == [baseline |-> before, candidate |-> after, tools |-> TRUE, critical |-> FALSE]
MCOthers == {<<>>, <<Other(FALSE, TRUE), Other(TRUE, TRUE)>>}

CostRules == {"maximum_average_latency_ms", "maximum_average_total_tokens", "maximum_average_cost_usd"}
MCExcesses == {{}, CostRules \ {"maximum_average_latency_ms"}}

(* release-gate.yaml, its variant with an override, and a partial one.       *)
Default ==
  "minimum_success_rate" :> 90 @@ "maximum_success_rate_drop" :> 3
  @@ "minimum_tool_selection_accuracy" :> 95 @@ "maximum_critical_task_regressions" :> 0
  @@ "maximum_task_regressions" :> 0 @@ [rule \in CostRules |-> 0]
MCConfigs ==
  {[thresholds |-> Default, overrides |-> <<>>],
   [thresholds |-> Default, overrides |-> "maximum_task_regressions" :> "block"],
   [thresholds |-> [rule \in {"maximum_critical_task_regressions", "maximum_task_regressions"} |-> 0],
    overrides |-> <<>>],
   [thresholds |-> "minimum_success_rate" :> 90,
    overrides |-> "minimum_success_rate" :> "warning"]}
===============================================================================
