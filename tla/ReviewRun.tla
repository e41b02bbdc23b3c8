------------------------------- MODULE ReviewRun -------------------------------
(***************************************************************************)
(* One review task run by ReviewHarness.run (evoagent/harness.py) on the   *)
(* checkpointed node loop of AgentRuntime.execute (evoagent/runtime.py),   *)
(* against the task tables of evoagent/store.py.                           *)
(*                                                                         *)
(* Every database operation is one step.  A runner is a queue worker (or   *)
(* the API thread of a synchronous review) that has been handed the task:  *)
(* with one runner this is the task redelivered, resumed and retried in    *)
(* sequence, with two it is the task delivered twice, which the queue does *)
(* when a lease runs out under a running worker and resume_task does when  *)
(* it is called on a task in progress.                                     *)
(***************************************************************************)
EXTENDS Integers, Sequences, FiniteSets

CONSTANTS
  Runners,      \* threads that may run the task
  MaxSteps,     \* max_steps: node attempts in one run
  NodeRetries,  \* node_retries: more attempts of a node that raises
  MaxRuns,      \* bound on calls of run(), one that overlaps another counted twice
  MaxFaults,    \* bound on database operations that raise
  MaxCrashes    \* bound on processes that die in a run

ASSUME RunAssumption ==
  /\ MaxSteps \in Nat \ {0} /\ NodeRetries \in Nat
  /\ MaxRuns \in Nat /\ MaxFaults \in Nat /\ MaxCrashes \in Nat

VARIABLES
  state, report,  \* tasks.state; whether tasks.report_json is set
  cancel,         \* tasks.cancel_requested
  ckpt,           \* checkpoints: node -> [status, attempt]
  trace,          \* trace_events: the states written, with their step
  cases,          \* rows of failure_cases for the task
  pc,             \* where each runner is
  ctx,            \* self._ctx.state of the runner's thread
  step,           \* self._ctx.step of the runner's thread
  cached,         \* the checkpoints execute() loaded
  node,           \* index of the node being executed
  offset,         \* attempt of that node within this run
  steps,          \* node attempts of this run
  overlapped,     \* history: two runners have had the task at the same time
  runs, faults, crashes

dbVars == <<state, report, cancel, ckpt, trace, cases>>
loopVars == <<cached, node, offset, steps>>
bounds == <<overlapped, runs, faults, crashes>>
runVars == <<dbVars, pc, ctx, step, loopVars, bounds>>

(* node_order, and the state each node moves the task to. *)
Nodes == 1 .. 3
Target == <<"PLANNING", "EXECUTING", "REVIEWING">>
Last == 3

Final == {"SUCCESS", "FAILED", "CANCELLED"}

ALLOWED == [s \in {"PENDING", "PLANNING", "EXECUTING", "REVIEWING"} |->
  {"FAILED", "CANCELLED"} \cup
  CASE s = "PENDING"   -> {"PLANNING"}
    [] s = "PLANNING"  -> {"EXECUTING"}
    [] s = "EXECUTING" -> {"REVIEWING"}
    [] s = "REVIEWING" -> {"SUCCESS"}]

NoCheckpoint == [status |-> "none", attempt |-> 0]

(* Mutant of Done: any checkpoint counts. *)
DoneAny(c, n) == c[n].status # "none"

Done(c, n) == c[n].status = "completed"

(* Mutant of NextNode: nothing is skipped. *)
NextNodeAll(c, n) == n

(* The node the loop stops at when the ones from n on are looked up in c:   *)
(* completed ones are restored and skipped.  Last + 1 is the end.           *)
NextNode(c, n) ==
  CHOOSE m \in n .. Last + 1 :
    /\ \A k \in n .. m - 1 : Done(c, k)
    /\ m > Last \/ ~Done(c, m)

(* Mutant of MaxStep: the number of events. *)
EventCount == Len(trace)

(* The largest step in the trace, as run() computes it. *)
MaxStep == IF trace = <<>> THEN 0
           ELSE CHOOSE m \in {trace[i].step : i \in DOMAIN trace} :
                  \A i \in DOMAIN trace : trace[i].step <= m

Init ==
  /\ state = "PENDING" /\ report = FALSE /\ cancel = FALSE
  /\ ckpt = [n \in Nodes |-> NoCheckpoint]
  /\ trace = <<>> /\ cases = 0
  /\ pc = [r \in Runners |-> "idle"]
  /\ ctx = [r \in Runners |-> "PENDING"]
  /\ step = [r \in Runners |-> 0]
  /\ cached = [r \in Runners |-> [n \in Nodes |-> NoCheckpoint]]
  /\ node = [r \in Runners |-> 1]
  /\ offset = [r \in Runners |-> 0]
  /\ steps = [r \in Runners |-> 0]
  /\ overlapped = FALSE
  /\ runs = 0 /\ faults = 0 /\ crashes = 0

Goto(r, where) == pc' = [pc EXCEPT ![r] = where]

(* An operation of the database raises. *)
Faulty ==
  /\ faults < MaxFaults /\ ~overlapped
  /\ faults' = faults + 1 /\ UNCHANGED <<overlapped, runs, crashes>>

(* The state and its trace event, in one transaction. *)
Record(r, s) ==
  /\ step' = [step EXCEPT ![r] = @ + 1]
  /\ state' = s
  /\ trace' = Append(trace, [step |-> step'[r], state |-> s])

-------------------------------------------------------------------------------
(* Another runner has the task. *)
Busy(r) == \E q \in Runners \ {r} : pc[q] # "idle"

(* A thread keeps nothing between runs: one that begins alone is given to     *)
(* the same thread each time.                                                *)
First == CHOOSE r \in Runners : TRUE

(* run(): a finished task answers with its report. *)
Begin(r) ==
  /\ pc[r] = "idle" /\ (Busy(r) \/ r = First)
  /\ runs' = runs + IF Busy(r) THEN 2 ELSE 1
  /\ runs' <= MaxRuns
  /\ Busy(r) => faults + crashes = 0
  /\ overlapped' = (overlapped \/ Busy(r))
  /\ IF state = "SUCCESS" /\ report
       THEN UNCHANGED <<pc, step>>
       ELSE Goto(r, "load") /\ step' = [step EXCEPT ![r] = MaxStep]
  /\ UNCHANGED <<dbVars, ctx, loopVars, faults, crashes>>

(* The first load_checkpoints: the thread's idea of the task's state. *)
LoadState(r) ==
  /\ pc[r] = "load"
  /\ ctx' = [ctx EXCEPT ![r] =
       IF Done(ckpt, 3) THEN "REVIEWING" ELSE IF Done(ckpt, 2) THEN "EXECUTING"
       ELSE IF Done(ckpt, 1) THEN "PLANNING" ELSE "PENDING"]
  /\ Goto(r, "restore")
  /\ UNCHANGED <<dbVars, step, loopVars, bounds>>

(* On to the first node from n on that c has not completed. *)
Continue(r, c, n) ==
  /\ node' = [node EXCEPT ![r] = NextNode(c, n)]
  /\ offset' = [offset EXCEPT ![r] = 0]
  /\ Goto(r, IF NextNode(c, n) > Last THEN "succeed" ELSE "guard")

(* execute() loads the checkpoints a second time. *)
Restore(r) ==
  /\ pc[r] = "restore"
  /\ cached' = [cached EXCEPT ![r] = ckpt]
  /\ steps' = [steps EXCEPT ![r] = 0]
  /\ Continue(r, ckpt, 1)
  /\ UNCHANGED <<dbVars, ctx, step, bounds>>

(* guard(): cancellation, then the budget of steps and of time. *)
GuardCancelled(r) ==
  /\ pc[r] = "guard" /\ cancel
  /\ Goto(r, "cancel")
  /\ UNCHANGED <<dbVars, ctx, step, loopVars, bounds>>

GuardExhausted(r) ==
  /\ pc[r] = "guard" /\ ~cancel
  /\ Goto(r, "fail")     \* steps >= max_steps, or the timeout at any step
  /\ UNCHANGED <<dbVars, ctx, step, loopVars, bounds>>

GuardPasses(r) ==
  /\ pc[r] = "guard" /\ ~cancel
  /\ steps[r] < MaxSteps
  /\ steps' = [steps EXCEPT ![r] = @ + 1]
  /\ offset' = [offset EXCEPT ![r] = @ + 1]
  /\ Goto(r, "enter")
  /\ UNCHANGED <<dbVars, ctx, step, cached, node, bounds>>

(* _transition at the head of the node's handler.  The thread's state and   *)
(* step move before the database does.                                      *)
Enter(r) ==
  LET target == Target[node[r]] IN
  /\ pc[r] = "enter"
  /\ \/ /\ target = ctx[r]
        /\ Goto(r, "work")
        /\ UNCHANGED <<state, trace, ctx, step>>
     \/ /\ target # ctx[r] /\ target \notin ALLOWED[ctx[r]]
        /\ Goto(r, "saveFailed")
        /\ UNCHANGED <<state, trace, ctx, step>>
     \/ /\ target \in ALLOWED[ctx[r]]
        /\ ctx' = [ctx EXCEPT ![r] = target]
        /\ Record(r, target)
        /\ Goto(r, "work")
  /\ UNCHANGED <<report, cancel, ckpt, cases, loopVars, bounds>>

EnterFault(r) ==
  LET target == Target[node[r]] IN
  /\ pc[r] = "enter"
  /\ target # ctx[r] /\ target \in ALLOWED[ctx[r]]
  /\ ctx' = [ctx EXCEPT ![r] = target]
  /\ step' = [step EXCEPT ![r] = @ + 1]
  /\ Goto(r, "saveFailed")
  /\ Faulty
  /\ UNCHANGED <<dbVars, loopVars>>

(* The rest of the handler: it returns, raises, or raises ValueError, which *)
(* is not retried and leaves no checkpoint.  _planning raises that one      *)
(* before its transition, for a diff it cannot parse.                       *)
WorkReturns(r) ==
  /\ pc[r] = "work"
  /\ Goto(r, "save")
  /\ UNCHANGED <<dbVars, ctx, step, loopVars, bounds>>

WorkRaises(r) ==
  /\ pc[r] = "work" /\ node[r] # 1
  /\ Goto(r, "saveFailed")
  /\ UNCHANGED <<dbVars, ctx, step, loopVars, bounds>>

WorkRaisesValueError(r) ==
  /\ IF node[r] = 1 THEN pc[r] = "enter" ELSE pc[r] = "work"
  /\ Goto(r, "fail")
  /\ UNCHANGED <<dbVars, ctx, step, loopVars, bounds>>

Attempt(r) == cached[r][node[r]].attempt + offset[r]

(* save_checkpoint ... "completed": an upsert, whatever is stored. *)
Save(r) ==
  /\ pc[r] = "save"
  /\ ckpt' = [ckpt EXCEPT ![node[r]] = [status |-> "completed", attempt |-> Attempt(r)]]
  /\ Continue(r, cached[r], node[r] + 1)
  /\ UNCHANGED <<state, report, cancel, trace, cases, ctx, step, cached, steps, bounds>>

(* A write that raises is an error of the node. *)
SaveFault(r) ==
  /\ pc[r] = "save"
  /\ Goto(r, "saveFailed")
  /\ Faulty
  /\ UNCHANGED <<dbVars, ctx, step, loopVars>>

(* save_checkpoint ... "failed", and the next attempt if there is one. *)
SaveFailed(r) ==
  /\ pc[r] = "saveFailed"
  /\ ckpt' = [ckpt EXCEPT ![node[r]] = [status |-> "failed", attempt |-> Attempt(r)]]
  /\ Goto(r, IF offset[r] <= NodeRetries THEN "guard" ELSE "fail")
  /\ UNCHANGED <<state, report, cancel, trace, cases, ctx, step, loopVars, bounds>>

(* An error raised by guard, by the second load or by the write of a failed *)
(* attempt leaves execute() at once.                                        *)
ExecuteFault(r) ==
  /\ pc[r] \in {"restore", "guard", "saveFailed"}
  /\ Goto(r, "fail")
  /\ Faulty
  /\ UNCHANGED <<dbVars, ctx, step, loopVars>>

-------------------------------------------------------------------------------
(* The three ends of run(). *)
Succeed(r) ==
  /\ pc[r] = "succeed"
  /\ Record(r, "SUCCESS")
  /\ report' = TRUE
  /\ Goto(r, "idle")
  /\ UNCHANGED <<cancel, ckpt, cases, ctx, loopVars, bounds>>

SucceedFault(r) ==
  /\ pc[r] = "succeed"
  /\ step' = [step EXCEPT ![r] = @ + 1]
  /\ Goto(r, "fail")
  /\ Faulty
  /\ UNCHANGED <<dbVars, ctx, loopVars>>

(* Mutant of Fail: nothing is recorded. *)
FailUnrecorded(r) ==
  /\ pc[r] = "fail"
  /\ Goto(r, "case")
  /\ UNCHANGED <<dbVars, ctx, step, loopVars, bounds>>

Fail(r) ==
  /\ pc[r] = "fail"
  /\ Record(r, "FAILED")
  /\ Goto(r, "case")
  /\ UNCHANGED <<report, cancel, ckpt, cases, ctx, loopVars, bounds>>

(* record_failure_case, whose errors are swallowed. *)
RecordCase(r) ==
  /\ pc[r] = "case"
  /\ cases' = cases + 1
  /\ Goto(r, "idle")
  /\ UNCHANGED <<state, report, cancel, ckpt, trace, ctx, step, loopVars, bounds>>

Cancel(r) ==
  /\ pc[r] = "cancel"
  /\ Record(r, "CANCELLED")
  /\ Goto(r, "idle")
  /\ UNCHANGED <<report, cancel, ckpt, cases, ctx, loopVars, bounds>>

(* The write of the outcome or of the failure case raises, or a read before *)
(* the try block does: run() raises and the row stays as it is.             *)
RunFault(r) ==
  /\ pc[r] \in {"load", "fail", "case", "cancel"}
  /\ Goto(r, "idle")
  /\ Faulty
  /\ UNCHANGED <<dbVars, ctx, step, loopVars>>

(* The process dies; the database stays. *)
Crash(r) ==
  /\ pc[r] # "idle"
  /\ crashes < MaxCrashes /\ ~overlapped
  /\ crashes' = crashes + 1
  /\ Goto(r, "idle")
  /\ UNCHANGED <<dbVars, ctx, step, loopVars, overlapped, runs, faults>>

(* request_cancel: nothing ever clears the flag. *)
RequestCancel ==
  /\ ~cancel
  /\ cancel' = TRUE
  /\ UNCHANGED <<state, report, ckpt, trace, cases, pc, ctx, step, loopVars, bounds>>

-------------------------------------------------------------------------------
Guard(r) == GuardCancelled(r) \/ GuardExhausted(r) \/ GuardPasses(r)
Work(r) == WorkReturns(r) \/ WorkRaises(r) \/ WorkRaisesValueError(r)
End(r) == Succeed(r) \/ Fail(r) \/ RecordCase(r) \/ Cancel(r)
Fault(r) == EnterFault(r) \/ SaveFault(r) \/ ExecuteFault(r) \/ SucceedFault(r) \/ RunFault(r)

(* What a runner does by itself once run() is called. *)
Progress(r) ==
  LoadState(r) \/ Restore(r) \/ Guard(r) \/ Enter(r) \/ Work(r) \/ Save(r)
  \/ SaveFailed(r) \/ End(r)

Next ==
  \/ \E r \in Runners : Begin(r) \/ Progress(r) \/ Fault(r) \/ Crash(r)
  \/ RequestCancel

Spec == Init /\ [][Next]_runVars

(* A running thread keeps running, and model calls end: they have timeouts. *)
FairSpec == Spec /\ \A r \in Runners : WF_runVars(Progress(r))

-------------------------------------------------------------------------------
(* Properties *)

(* SUCCESS is never reached without a report and every node's checkpoint,    *)
(* and they stay (harness.py:79-97): what is resumed later cannot take a     *)
(* finished task apart, unless two runners have had it at the same time.     *)
SuccessEarned ==
  state = "SUCCESS" /\ ~overlapped =>
    report /\ \A n \in Nodes : ckpt[n].status = "completed"

(* One runner at a time: the events of a task are numbered in order across   *)
(* its runs, also after a crash or a write that failed (harness.py:67).      *)
TraceOrdered ==
  ~overlapped => \A i, j \in DOMAIN trace : i < j => trace[i].step < trace[j].step

(* README.md:296, "Resume a task from its latest checkpoint": a completed    *)
(* node stays completed and no later run executes it again, while the task   *)
(* is run by one runner at a time.                                           *)
CompletedKept ==
  [][~overlapped' => \A n \in Nodes : ckpt[n].status = "completed" => ckpt'[n] = ckpt[n]]_runVars

(* No run is left hanging, and when it is over, and neither the database nor *)
(* the process failed under it and no other run went on beside it, the task  *)
(* is in a final state (harness.py:78-114).                                  *)
RunSettles ==
  \A r \in Runners :
    pc[r] # "idle" ~>
      pc[r] = "idle" /\ (faults + crashes = 0 /\ ~overlapped => state \in Final)
===============================================================================
