----------------------------- MODULE ReviewSystem ------------------------------
(***************************************************************************)
(* ReviewService (evoagent/service.py) on the Redis queue of TaskQueue:  *)
(* one review task, created, queued, run by workers, cancelled and resumed *)
(* through the API, its comment posted on the pull request, and its dead   *)
(* letter turned into a failed task and an alert.                          *)
(*                                                                         *)
(* A worker inside the queue's handler goes through _process_queued, one   *)
(* inside the dead-letter callback through _on_dead_letter.  The run of    *)
(* the review is three steps here (begin, enter, end); ReviewRun has it    *)
(* node by node.                                                           *)
(***************************************************************************)
EXTENDS TaskQueue

CONSTANTS
  Created,       \* the submission enqueue_review or the webhook makes
  FetchLater,    \* TRUE for a webhook's task: the worker fetches the diff
  PostComments,  \* auto_post_review, for a task of a pull request
  MaxMishaps     \* bound on crashes, Redis errors and lost leases together

ASSUME ReviewAssumption ==
  /\ Created \in Submissions /\ Malformed = {}
  /\ FetchLater \in BOOLEAN /\ PostComments \in BOOLEAN /\ MaxMishaps \in Nat

VARIABLES
  task,      \* tasks.state; "RUNNING" is PLANNING, EXECUTING or REVIEWING
  report,    \* tasks.report_json is set
  diff,      \* the task has a row in task_payloads
  cancel,    \* tasks.cancel_requested
  comments,  \* comments with the task's marker on the pull request
  alerted,   \* create_alert was called for the dead-lettered task
  svc        \* where each worker is in _process_queued or _on_dead_letter

taskVars == <<task, report, diff, cancel, comments, alerted>>
systemVars == <<queueVars, taskVars, svc>>

Final == {"SUCCESS", "FAILED", "CANCELLED"}

SystemInit ==
  /\ Init
  /\ task = "absent" /\ report = FALSE /\ diff = FALSE /\ cancel = FALSE
  /\ comments = 0 /\ alerted = FALSE
  /\ svc = [w \in Workers |-> "start"]

Service(w, from, to) ==
  /\ svc[w] = from
  /\ svc' = [svc EXCEPT ![w] = to]
  /\ UNCHANGED queueVars

-------------------------------------------------------------------------------
(* _create_task or _create_deferred_task, and queue.submit as a step of its *)
(* own: the API process can die in between.                                 *)
CreateTask ==
  /\ task = "absent"
  /\ task' = "PENDING" /\ diff' = ~FetchLater
  /\ UNCHANGED <<queueVars, report, cancel, comments, alerted, svc>>

SubmitTask ==
  /\ task # "absent"
  /\ Submit(Created)
  /\ UNCHANGED <<taskVars, svc>>

(* resume_task: any state but SUCCESS, also that of a task in progress. *)
ResumeTask(s) ==
  /\ s # Created
  /\ task \notin {"absent", "SUCCESS"} /\ diff
  /\ Submit(s)
  /\ UNCHANGED <<task, report, diff, cancel, comments, alerted, svc>>

CancelTask ==
  /\ task # "absent" /\ ~cancel
  /\ cancel' = TRUE
  /\ UNCHANGED <<queueVars, task, report, diff, comments, alerted, svc>>

-------------------------------------------------------------------------------
(* _process_queued.  The task's row is there: it was inserted before the    *)
(* message was submitted and nothing deletes it.  So is the diff or its URL,*)
(* and PermanentTaskError is not raised.                                    *)
Load(w) ==
  /\ pc[w] = "handle"
  /\ Service(w, "start", IF diff THEN "run" ELSE "fetch")
  /\ UNCHANGED taskVars

Fetch(w) ==
  /\ pc[w] = "handle"
  /\ Service(w, "fetch", "run")
  /\ diff' = TRUE
  /\ UNCHANGED <<task, report, cancel, comments, alerted>>

(* The comment is posted for the message of the webhook: the one of a resume *)
(* carries no issue URL.                                                    *)
Reviewed(w) ==
  IF PostComments /\ Entry(job[w].id).sub = Created THEN "list" ELSE "return"

(* Mutant of RunBegin: any final state counts as finished. *)
RunBeginFinal(w) ==
  /\ pc[w] = "handle"
  /\ Service(w, "run", IF task \in Final THEN Reviewed(w) ELSE "enter")
  /\ UNCHANGED taskVars

(* harness.run: the report of a finished task, or a run. *)
RunBegin(w) ==
  /\ pc[w] = "handle"
  /\ Service(w, "run", IF task = "SUCCESS" THEN Reviewed(w) ELSE "enter")
  /\ UNCHANGED taskVars

RunEnter(w) ==
  /\ pc[w] = "handle" /\ ~cancel
  /\ Service(w, "enter", "work")
  /\ task' = "RUNNING"
  /\ UNCHANGED <<report, diff, cancel, comments, alerted>>

RunSucceeds(w) ==
  /\ pc[w] = "handle"
  /\ Service(w, "work", Reviewed(w))
  /\ task' = "SUCCESS" /\ report' = TRUE
  /\ UNCHANGED <<diff, cancel, comments, alerted>>

(* The outcome of a run that ended badly, recorded before it is raised. *)
RunFails(w) ==
  /\ pc[w] = "handle"
  /\ Service(w, "work", "raise")
  /\ task' = "FAILED"
  /\ UNCHANGED <<report, diff, cancel, comments, alerted>>

RunCancelled(w) ==
  /\ pc[w] = "handle" /\ cancel
  /\ Service(w, "enter", "raise") \/ Service(w, "work", "raise")
  /\ task' = "CANCELLED"
  /\ UNCHANGED <<report, diff, cancel, comments, alerted>>

(* upsert_comment: the comments are listed, then one is patched or posted. *)
ListComments(w) ==
  /\ pc[w] = "handle"
  /\ Service(w, "list", IF comments = 0 THEN "post" ELSE "patch")
  /\ UNCHANGED taskVars

PostComment(w) ==
  /\ pc[w] = "handle"
  /\ Service(w, "post", "return")
  /\ comments' = comments + 1
  /\ UNCHANGED <<task, report, diff, cancel, alerted>>

PatchComment(w) ==
  /\ pc[w] = "handle"
  /\ Service(w, "patch", "return")
  /\ UNCHANGED taskVars

(* A call of the database or of GitHub raises, at any place of the handler:  *)
(* the task is left as it is, also in progress when the outcome of its run   *)
(* could not be written.  At "return" it is the answer to the last call that *)
(* is lost.                                                                  *)
CallFails(w) ==
  /\ pc[w] = "handle" /\ svc[w] # "raise"
  /\ Service(w, svc[w], "raise")
  /\ UNCHANGED taskVars

Returns(w) ==
  /\ svc[w] = "return" /\ HandlerReturns(w)
  /\ svc' = [svc EXCEPT ![w] = "start"]
  /\ UNCHANGED taskVars

Raises(w) ==
  /\ svc[w] = "raise" /\ HandlerFails(w)
  /\ svc' = [svc EXCEPT ![w] = "start"]
  /\ UNCHANGED taskVars

(* Mutant of DeadLetterRead: only a task in progress is failed. *)
DeadLetterReadRunning(w) ==
  /\ pc[w] = "notify"
  /\ Service(w, "start", IF task # "RUNNING" THEN "alert" ELSE "fail")
  /\ UNCHANGED taskVars

(* _on_dead_letter: the state is read, and failed if it was not final. *)
DeadLetterRead(w) ==
  /\ pc[w] = "notify"
  /\ Service(w, "start", IF task \in Final THEN "alert" ELSE "fail")
  /\ UNCHANGED taskVars

DeadLetterFail(w) ==
  /\ pc[w] = "notify"
  /\ Service(w, "fail", "alert")
  /\ task' = "FAILED"
  /\ UNCHANGED <<report, diff, cancel, comments, alerted>>

DeadLetterAlert(w) ==
  /\ svc[w] = "alert" /\ Notify(w)
  /\ svc' = [svc EXCEPT ![w] = "start"]
  /\ alerted' = TRUE
  /\ UNCHANGED <<task, report, diff, cancel, comments>>

-------------------------------------------------------------------------------
Process(w) ==
  \/ Load(w) \/ Fetch(w) \/ CallFails(w)
  \/ RunBegin(w) \/ RunEnter(w) \/ RunSucceeds(w) \/ RunFails(w) \/ RunCancelled(w)
  \/ ListComments(w) \/ PostComment(w) \/ PatchComment(w)
  \/ Returns(w) \/ Raises(w)

DeadLettered(w) == DeadLetterRead(w) \/ DeadLetterFail(w) \/ DeadLetterAlert(w)

(* The queue's own steps. *)
QueueStep(w) ==
  /\ Poll(w) \/ Requeue(w) \/ Bury(w) \/ Ack(w)
  /\ UNCHANGED <<taskVars, svc>>

ComesBack(w) == Restart(w) /\ UNCHANGED <<taskVars, svc>>

Mishaps == crashes + faults + overruns

(* XAUTOCLAIM or XREADGROUP raises: the reclaim is skipped, and the read ends *)
(* the worker's thread for good.                                             *)
PollFails(w) ==
  /\ ReclaimFails(w) \/ ReadFails(w)
  /\ Mishaps' <= MaxMishaps
  /\ UNCHANGED <<taskVars, svc>>

(* A crash or a Redis error takes the worker out of the handler. *)
Interrupted(w) ==
  /\ InfrastructureFailure(w) \/ Crash(w)
  /\ Mishaps' <= MaxMishaps
  /\ svc' = [svc EXCEPT ![w] = "start"]
  /\ UNCHANGED taskVars

LeaseRunsOut(id) ==
  /\ LeaseExpires(id)
  /\ Mishaps' <= MaxMishaps
  /\ UNCHANGED <<taskVars, svc>>

WorkerStep(w) == Process(w) \/ DeadLettered(w) \/ QueueStep(w)

SystemNext ==
  \/ CreateTask \/ SubmitTask \/ CancelTask
  \/ \E s \in Submissions : ResumeTask(s)
  \/ \E w \in Workers : WorkerStep(w) \/ PollFails(w) \/ Interrupted(w) \/ ComesBack(w)
  \/ \E id \in pending : LeaseRunsOut(id)

SystemSpec == SystemInit /\ [][SystemNext]_systemVars

(* The fairness of the queue: a dead worker need not come back, and a thread *)
(* that ended does not, so that a task is only promised to end while a       *)
(* worker is left.                                                           *)
SystemFair ==
  /\ SystemSpec
  /\ \A w \in Workers : WF_systemVars(WorkerStep(w))
  /\ WF_systemVars(\E id \in pending : ~Held(id) /\ LeaseRunsOut(id))

-------------------------------------------------------------------------------
(* Properties *)

(* Whatever the queue did with it, a task whose messages are all             *)
(* acknowledged is finished when no worker is at it any more: it is never    *)
(* left PENDING or in progress with nobody to continue it.                   *)
NothingStranded ==
  (/\ Submitted # {} /\ Open = {}
   /\ \A w \in Workers : pc[w] \notin {"handle", "requeue", "bury", "notify"})
    => task \in Final

(* A handler that returned stands for a report (task_queue.py:74,            *)
(* service.py:374-383) and, for the message that carries the pull request,   *)
(* for a comment: the queue never counts as handled a review that has none,  *)
(* whichever of its duplicates wrote it.                                     *)
HandledHasReport ==
  /\ done # {} => report
  /\ PostComments /\ Created \in done => comments > 0

(* A task that was submitted comes to an end, and so does its last message,  *)
(* with crashes, Redis errors and failed calls on the way, provided that in  *)
(* the end a worker is left: a crash and a read that raised can take them    *)
(* all (task_queue.py:99-101), and then nothing is promised.                 *)
WorkerLeft == \E w \in Workers : pc[w] \notin {"down", "ended"}

ReviewSettles ==
  <>[]WorkerLeft => ((Submitted # {}) ~> (task \in Final /\ Open = {}))

===============================================================================
