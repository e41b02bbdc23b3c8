-------------------------------- MODULE Rollout --------------------------------
(***************************************************************************)
(* Progressive delivery: evoagent/rollout.py, the deployments row of the   *)
(* store, and the calls ReviewService makes around each run of a queued    *)
(* task.  One row per tenant and skill; a task is given its lane when it   *)
(* is created and every later run of it reports its outcome to whatever    *)
(* candidate the row names by then.                                        *)
(*                                                                         *)
(* The record and its decision are one transaction, the alert is another:  *)
(* a process can crash in between, either can raise, and the queue will    *)
(* run the task again while it has attempts left.                          *)
(* Rates are in percent.  The hash that picks a task's bucket is a choice. *)
(***************************************************************************)
EXTENDS Naturals, FiniteSets

CONSTANTS
  Tasks,
  MaxAttempts,          \* queue_max_attempts
  MinSamples,           \* min_samples of every configuration
  MaxErrorPercent,      \* max_error_rate
  MaxDisagreePercent,   \* max_disagreement_rate; auto_promote is set
  MaxConfigs,           \* bound on configurations
  MaxShadows,           \* bound on shadow observations
  MaxCrashes,           \* bound on crashes
  MaxFaults             \* bound on transactions that raise

ASSUME RolloutAssumption ==
  /\ MaxAttempts \in Nat \ {0} /\ MinSamples \in Nat \ {0}
  /\ MaxErrorPercent \in 0 .. 100 /\ MaxDisagreePercent \in 0 .. 100
  /\ MaxConfigs \in Nat /\ MaxShadows \in Nat /\ MaxCrashes \in Nat
  /\ MaxFaults \in Nat

VARIABLES
  dep,        \* the deployments row; its candidate is the number of the configuration
  lane,       \* release_lane in the input of each task
  pc,         \* where the run of each task is in _process_queued
  alerting,   \* per task, the candidate it read as rolled back and is about to
              \* raise the alert of; 0: none
  unheard,    \* per task, the candidate rolled back that its last call of
              \* observe() raised about; 0: none
  attempt,    \* attempt of the envelope of each task
  alerts,     \* alert keys in the alerts table
  shadows, crashes, faults

rolloutVars == <<dep, lane, pc, alerting, unheard, attempt, alerts, shadows, crashes, faults>>

Fresh(status, n) ==
  [status |-> status, candidate |-> n, samples |-> 0, errors |-> 0, shadow |-> 0,
   disagreements |-> 0]

Init ==
  /\ dep = Fresh("none", 0)
  /\ lane = [t \in Tasks |-> "stable"]
  /\ pc = [t \in Tasks |-> "new"]
  /\ alerting = [t \in Tasks |-> 0] /\ unheard = [t \in Tasks |-> 0]
  /\ alerts = {}
  /\ attempt = [t \in Tasks |-> 0]
  /\ shadows = 0 /\ crashes = 0 /\ faults = 0

OverBudget(c) == c.errors * 100 > MaxErrorPercent * c.samples

-------------------------------------------------------------------------------
(* Mutant of Configure: the upsert leaves the counters alone. *)
ConfigureKeepsCounters ==
  /\ dep.candidate < MaxConfigs
  /\ dep' = [dep EXCEPT !.status = "running", !.candidate = @ + 1]
  /\ UNCHANGED <<lane, pc, alerting, unheard, attempt, alerts, shadows, crashes, faults>>

(* POST /v1/deployments/llm-review: save_deployment sets every counter back. *)
Configure ==
  /\ dep.candidate < MaxConfigs
  /\ dep' = Fresh("running", dep.candidate + 1)
  /\ UNCHANGED <<lane, pc, alerting, unheard, attempt, alerts, shadows, crashes, faults>>

(* _create_task: assignment() puts the lane into the task's input. *)
Create(t) ==
  /\ pc[t] = "new"
  /\ \E l \in IF dep.status = "running" THEN {"stable", "canary"} ELSE {"stable"} :
       lane' = [lane EXCEPT ![t] = l]
  /\ pc' = [pc EXCEPT ![t] = "run"]
  /\ attempt' = [attempt EXCEPT ![t] = 1]
  /\ UNCHANGED <<dep, alerting, unheard, alerts, shadows, crashes, faults>>

(* record_deployment_result: the sample and the decision it leads to. *)
Counted(c, failed) ==
  [c EXCEPT !.samples = @ + 1, !.errors = @ + IF failed THEN 1 ELSE 0]

Decided(d) ==
  IF d.status = "running" /\ d.samples >= MinSamples /\ OverBudget(d)
    THEN [d EXCEPT !.status = "rolled_back"] ELSE d

Recorded(failed) == Decided(Counted(dep, failed))


(* observe(): only the canary lane is recorded, and only an existing row.    *)
(* A row that is already rolled back is reported as such every time.         *)
Observe(t, failed) ==
  IF lane[t] = "canary"
    THEN /\ dep' = Recorded(failed)
         /\ alerting' = [alerting EXCEPT ![t] =
              IF dep'.status = "rolled_back" THEN dep.candidate ELSE 0]
         /\ unheard' = [unheard EXCEPT ![t] = 0]
    ELSE UNCHANGED <<dep, alerting, unheard>>

Ready(t, at) == pc[t] = at /\ alerting[t] = 0

(* The harness returns a report: the sample is recorded before the comment   *)
(* is posted.                                                                *)
Succeed(t) ==
  /\ Ready(t, "run")
  /\ Observe(t, FALSE)
  /\ pc' = [pc EXCEPT ![t] = "post"]
  /\ UNCHANGED <<lane, attempt, alerts, shadows, crashes, faults>>

(* The except clause, reached from the harness, from a record that raised    *)
(* and from the comment alike: a run whose comment fails is recorded twice.  *)
FailRun(t) ==
  /\ Ready(t, "run") \/ Ready(t, "post")
  /\ Observe(t, TRUE)
  /\ pc' = [pc EXCEPT ![t] = "retry"]
  /\ UNCHANGED <<lane, attempt, alerts, shadows, crashes, faults>>

(* The record of the except clause raises: nothing is recorded of this run.  *)
RecordFails(t) ==
  /\ Ready(t, "run") \/ Ready(t, "post")
  /\ lane[t] = "canary"
  /\ faults < MaxFaults
  /\ faults' = faults + 1
  /\ pc' = [pc EXCEPT ![t] = "retry"]
  /\ unheard' = [unheard EXCEPT ![t] = IF dep.status = "rolled_back" THEN dep.candidate ELSE 0]
  /\ UNCHANGED <<dep, lane, alerting, attempt, alerts, shadows, crashes>>

(* create_alert on rollout:<skill>: INSERT OR IGNORE, so that the alert of   *)
(* an earlier rollback is the alert of this one too.                         *)
Alert(t) ==
  /\ alerting[t] # 0
  /\ alerts' = alerts \cup {"rollout"}
  /\ alerting' = [alerting EXCEPT ![t] = 0]
  /\ UNCHANGED <<dep, lane, pc, unheard, attempt, shadows, crashes, faults>>

(* create_alert raises.  After a run that succeeded the except clause calls  *)
(* observe() again, which counts the run as failed and may come to the alert *)
(* once more.  When it raises there, or the second record does, the run ends.*)
AlertFails(t) ==
  /\ alerting[t] # 0
  /\ faults < MaxFaults
  /\ faults' = faults + 1
  /\ \/ /\ pc[t] = "post"
        /\ Observe(t, TRUE)
        /\ pc' = [pc EXCEPT ![t] = "retry"]
     \/ /\ pc' = [pc EXCEPT ![t] = "retry"]
        /\ alerting' = [alerting EXCEPT ![t] = 0]
        /\ unheard' = [unheard EXCEPT ![t] = alerting[t]]
        /\ UNCHANGED dep
  /\ UNCHANGED <<lane, attempt, alerts, shadows, crashes>>

Finish(t) ==
  /\ Ready(t, "post")
  /\ pc' = [pc EXCEPT ![t] = "done"]
  /\ UNCHANGED <<dep, lane, alerting, unheard, attempt, alerts, shadows, crashes, faults>>

(* The queue runs the task again, or gives it up. *)
Retry(t) ==
  /\ Ready(t, "retry")
  /\ IF attempt[t] < MaxAttempts
       THEN /\ pc' = [pc EXCEPT ![t] = "run"]
            /\ attempt' = [attempt EXCEPT ![t] = @ + 1]
       ELSE /\ pc' = [pc EXCEPT ![t] = "done"]
            /\ UNCHANGED attempt
  /\ UNCHANGED <<dep, lane, alerting, unheard, alerts, shadows, crashes, faults>>

(* The worker dies before the acknowledgement: the entry is delivered again  *)
(* after its lease, with the same attempt.                                   *)
Crash(t) ==
  /\ pc[t] \in {"run", "post", "retry"}
  /\ crashes < MaxCrashes
  /\ crashes' = crashes + 1
  /\ pc' = [pc EXCEPT ![t] = "run"]
  /\ alerting' = [alerting EXCEPT ![t] = 0]
  /\ UNCHANGED <<dep, lane, unheard, attempt, alerts, shadows, faults>>

(* Mutant of Shadowed: a promotion that does not ask whether the candidate   *)
(* is still running.                                                         *)
ShadowedAnyStatus(disagrees, failed) ==
  LET d == [dep EXCEPT !.shadow = @ + 1, !.disagreements = @ + IF disagrees THEN 1 ELSE 0]
  IN IF /\ d.shadow >= MinSamples
        /\ d.disagreements * 100 <= MaxDisagreePercent * d.shadow
        /\ ~failed
       THEN [d EXCEPT !.status = "promoted"] ELSE d

(* record_shadow_observation.  The candidate of the observation may have     *)
(* failed, and disagree with the primary or not: a failed candidate agrees   *)
(* with a primary that found nothing.                                        *)
Shadowed(disagrees, failed) ==
  LET d == [dep EXCEPT !.shadow = @ + 1, !.disagreements = @ + IF disagrees THEN 1 ELSE 0]
  IN IF /\ d.status = "running"
        /\ d.shadow >= MinSamples
        /\ d.disagreements * 100 <= MaxDisagreePercent * d.shadow
        /\ ~OverBudget(d)
        /\ ~failed
       THEN [d EXCEPT !.status = "promoted"] ELSE d

(* The alert of a promotion is raised by whoever recorded it, and by every   *)
(* later observation of a promoted row, unless it raises or the process      *)
(* dies.                                                                     *)
ObserveShadow ==
  /\ shadows < MaxShadows
  /\ shadows' = shadows + 1
  /\ dep.status # "none"
  /\ \E disagrees, failed \in BOOLEAN : dep' = Shadowed(disagrees, failed)
  /\ \/ alerts' = alerts
     \/ dep'.status = "promoted" /\ alerts' = alerts \cup {"rollout-promoted"}
  /\ UNCHANGED <<lane, pc, alerting, unheard, attempt, crashes, faults>>

-------------------------------------------------------------------------------
Run(t) == Succeed(t) \/ FailRun(t) \/ Alert(t) \/ Finish(t) \/ Retry(t)

Next ==
  \/ Configure
  \/ ObserveShadow
  \/ \E t \in Tasks : Create(t) \/ Run(t) \/ RecordFails(t) \/ AlertFails(t) \/ Crash(t)

Spec == Init /\ [][Next]_rolloutVars

(* A created task is in the queue, whose workers run it until it is settled  *)
(* (ReviewSystem, ReviewSettles).                                            *)
FairSpec == Spec /\ \A t \in Tasks : WF_rolloutVars(Run(t))

-------------------------------------------------------------------------------
(* Properties *)

(* Types of the variables; no more errors than samples are counted.          *)
TypeOK ==
  /\ dep \in [status : {"none", "running", "rolled_back", "promoted"},
              candidate : 0 .. MaxConfigs, samples : Nat, errors : Nat,
              shadow : Nat, disagreements : Nat]
  /\ dep.errors <= dep.samples /\ dep.disagreements <= dep.shadow
  /\ lane \in [Tasks -> {"stable", "canary"}]
  /\ pc \in [Tasks -> {"new", "run", "post", "retry", "done"}]
  /\ alerting \in [Tasks -> 0 .. MaxConfigs] /\ unheard \in [Tasks -> 0 .. MaxConfigs]
  /\ attempt \in [Tasks -> 0 .. MaxAttempts]
  /\ alerts \subseteq {"rollout", "rollout-promoted"}
  /\ shadows \in 0 .. MaxShadows /\ crashes \in 0 .. MaxCrashes
  /\ faults \in 0 .. MaxFaults

(* A candidate that is still taking canary traffic is within its error       *)
(* budget once min_samples are in: no order of results, retries, shadow      *)
(* observations and new configurations leaves an overdrawn one running.      *)
RunningWithinBudget ==
  dep.status = "running" /\ dep.samples >= MinSamples => ~OverBudget(dep)

(* The verdict on a candidate is final: results that arrive late, canary or  *)
(* shadow, never reopen or turn it; only a new configuration does.           *)
VerdictFinal ==
  [][dep.status \in {"rolled_back", "promoted"} /\ dep'.status # dep.status
       => dep'.candidate # dep.candidate]_rolloutVars

(* A rollback is reported: once a candidate is rolled back the alert is      *)
(* raised, or the operator has configured another one, or a message was      *)
(* given up, its attempts used, whose last call of observe() raised          *)
(* (service.py:388-393).  A crash between the two transactions, an alert     *)
(* that raises while attempts are left and a task that ends well never cost  *)
(* the alert.                                                                *)
GivenUp(n) == \E t \in Tasks : pc[t] = "done" /\ unheard[t] = n

===============================================================================
