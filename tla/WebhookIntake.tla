----------------------------- MODULE WebhookIntake -----------------------------
(***************************************************************************)
(* ReviewService.handle_github_pull_request (evoagent/service.py): how a   *)
(* GitHub delivery becomes a queued review task, once.  The delivery id is *)
(* claimed in webhook_deliveries, the task row is inserted, its message is *)
(* put on the queue and the delivery is completed with the task's id: four *)
(* separate writes, between which the request can fail or the process die. *)
(* Requests refused before the claim (signature, replay window, other      *)
(* events) change nothing and are left out.                                *)
(***************************************************************************)
EXTENDS Naturals, FiniteSets

CONSTANTS
  Deliveries,    \* X-GitHub-Delivery ids
  Payloads,      \* bodies, told apart by their SHA-256
  Unsupported,   \* payloads with another action than opened, reopened, synchronize
  Tasks,         \* task ids uuid4 can return
  Threads,       \* threads of the HTTP server
  MaxRequests,   \* bound on requests; a delivery can be sent again at any time
  MaxFaults,     \* bound on database or queue operations that raise
  MaxCrashes     \* bound on processes that die in a request

NoOne == "none"

ASSUME IntakeAssumption ==
  /\ Unsupported \subseteq Payloads
  /\ NoOne \notin Deliveries \cup Payloads \cup Tasks
  /\ MaxRequests \in Nat /\ MaxFaults \in Nat /\ MaxCrashes \in Nat

VARIABLES
  claimed,    \* webhook_deliveries: delivery -> payload_sha256
  completed,  \* webhook_deliveries: delivery -> task_id
  rows,       \* tasks: task id -> the delivery it was created for
  queued,     \* task ids submitted to the queue
  pc,         \* where each thread is in the handler
  request,    \* thread -> [delivery, payload, task]
  answers,    \* history: [delivery, payload, kind, task] answered
  requests, faults, crashes

intakeVars == <<claimed, completed, rows, queued, pc, request, answers, requests,
                faults, crashes>>

Idle == [delivery |-> NoOne, payload |-> NoOne, task |-> NoOne]

Init ==
  /\ claimed = [d \in Deliveries |-> NoOne]
  /\ completed = [d \in Deliveries |-> NoOne]
  /\ rows = [t \in Tasks |-> NoOne]
  /\ queued = {}
  /\ pc = [h \in Threads |-> "idle"]
  /\ request = [h \in Threads |-> Idle]
  /\ answers = {}
  /\ requests = 0 /\ faults = 0 /\ crashes = 0

Delivery(h) == request[h].delivery
Payload(h) == request[h].payload

Goto(h, where) == pc' = [pc EXCEPT ![h] = where] /\ UNCHANGED request

(* The thread answers the request and is free. *)
Answer(h, kind, task) ==
  /\ answers' = answers \cup {[delivery |-> Delivery(h), payload |-> Payload(h),
                               kind |-> kind, task |-> task]}
  /\ pc' = [pc EXCEPT ![h] = "idle"]
  /\ request' = [request EXCEPT ![h] = Idle]

-------------------------------------------------------------------------------
Receive(h, d, p) ==
  /\ pc[h] = "idle"
  /\ requests < MaxRequests
  /\ requests' = requests + 1
  /\ request' = [request EXCEPT ![h] = [delivery |-> d, payload |-> p, task |-> NoOne]]
  /\ pc' = [pc EXCEPT ![h] = "claim"]
  /\ UNCHANGED <<claimed, completed, rows, queued, answers, faults, crashes>>

(* Mutant of Claim: a claim counts only once a task has completed it. *)
ClaimUncompleted(h) ==
  /\ pc[h] = "claim"
  /\ completed[Delivery(h)] = NoOne
  /\ claimed' = [claimed EXCEPT ![Delivery(h)] = Payload(h)]
  /\ Goto(h, "validate")
  /\ UNCHANGED <<completed, rows, queued, answers, requests, faults, crashes>>

(* claim_webhook: the insert wins, or the stored payload is compared. *)
Claim(h) ==
  /\ pc[h] = "claim"
  /\ claimed[Delivery(h)] = NoOne
  /\ claimed' = [claimed EXCEPT ![Delivery(h)] = Payload(h)]
  /\ Goto(h, "validate")
  /\ UNCHANGED <<completed, rows, queued, answers, requests, faults, crashes>>

ClaimDuplicate(h) ==
  /\ pc[h] = "claim"
  /\ claimed[Delivery(h)] = Payload(h)
  /\ Goto(h, "duplicate")
  /\ UNCHANGED <<claimed, completed, rows, queued, answers, requests, faults, crashes>>

ClaimMismatch(h) ==
  /\ pc[h] = "claim"
  /\ claimed[Delivery(h)] \notin {NoOne, Payload(h)}
  /\ Answer(h, "mismatch", NoOne)
  /\ UNCHANGED <<claimed, completed, rows, queued, requests, faults, crashes>>

(* get_webhook, and 202 with the task's id if it is there yet. *)
AnswerDuplicate(h) ==
  /\ pc[h] = "duplicate"
  /\ Answer(h, "duplicate", completed[Delivery(h)])
  /\ UNCHANGED <<claimed, completed, rows, queued, requests, faults, crashes>>

(* An unsupported action: the delivery is completed without a task. *)
Ignore(h) ==
  /\ pc[h] = "validate"
  /\ Payload(h) \in Unsupported
  /\ completed' = [completed EXCEPT ![Delivery(h)] = NoOne]
  /\ Answer(h, "ignored", NoOne)
  /\ UNCHANGED <<claimed, rows, queued, requests, faults, crashes>>

Accept(h) ==
  /\ pc[h] = "validate"
  /\ Payload(h) \notin Unsupported
  /\ Goto(h, "create")
  /\ UNCHANGED <<claimed, completed, rows, queued, answers, requests, faults, crashes>>

(* No model configured, an invalid payload or a repository the tenant may   *)
(* not use: the exception becomes an error answer.  The claim stays.        *)
Reject(h) ==
  /\ pc[h] = "validate"
  /\ Payload(h) \notin Unsupported
  /\ Answer(h, "rejected", NoOne)
  /\ UNCHANGED <<claimed, completed, rows, queued, requests, faults, crashes>>

(* Mutant of Create: the delivery is completed with the row. *)
CreateCompletes(h) ==
  /\ pc[h] = "create"
  /\ \E t \in Tasks :
       /\ rows[t] = NoOne
       /\ rows' = [rows EXCEPT ![t] = Delivery(h)]
       /\ request' = [request EXCEPT ![h].task = t]
       /\ completed' = [completed EXCEPT ![Delivery(h)] = t]
  /\ pc' = [pc EXCEPT ![h] = "submit"]
  /\ UNCHANGED <<claimed, queued, answers, requests, faults, crashes>>

(* _create_deferred_task: a fresh id, and the task's row. *)
Create(h) ==
  /\ pc[h] = "create"
  /\ \E t \in Tasks :
       /\ rows[t] = NoOne
       /\ rows' = [rows EXCEPT ![t] = Delivery(h)]
       /\ request' = [request EXCEPT ![h].task = t]
  /\ pc' = [pc EXCEPT ![h] = "submit"]
  /\ UNCHANGED <<claimed, completed, queued, answers, requests, faults, crashes>>

Submit(h) ==
  /\ pc[h] = "submit"
  /\ queued' = queued \cup {request[h].task}
  /\ Goto(h, "complete")
  /\ UNCHANGED <<claimed, completed, rows, answers, requests, faults, crashes>>

(* complete_webhook, and 202 with the task. *)
Complete(h) ==
  /\ pc[h] = "complete"
  /\ completed' = [completed EXCEPT ![Delivery(h)] = request[h].task]
  /\ Answer(h, "queued", request[h].task)
  /\ UNCHANGED <<claimed, rows, queued, requests, faults, crashes>>

(* The database or the queue raises: an error answer, and nothing is undone. *)
Fault(h) ==
  /\ pc[h] # "idle"
  /\ faults < MaxFaults
  /\ faults' = faults + 1
  /\ Answer(h, "error", NoOne)
  /\ UNCHANGED <<claimed, completed, rows, queued, requests, crashes>>

(* The process dies: no answer, and nothing is undone. *)
Crash(h) ==
  /\ pc[h] # "idle"
  /\ crashes < MaxCrashes
  /\ crashes' = crashes + 1
  /\ pc' = [pc EXCEPT ![h] = "idle"]
  /\ request' = [request EXCEPT ![h] = Idle]
  /\ UNCHANGED <<claimed, completed, rows, queued, answers, requests, faults>>

Handle(h) ==
  \/ Claim(h) \/ ClaimDuplicate(h) \/ ClaimMismatch(h) \/ AnswerDuplicate(h)
  \/ Ignore(h) \/ Accept(h) \/ Reject(h) \/ Create(h) \/ Submit(h) \/ Complete(h)

Next ==
  \/ \E h \in Threads, d \in Deliveries, p \in Payloads : Receive(h, d, p)
  \/ \E h \in Threads : Handle(h) \/ Fault(h) \/ Crash(h)

Spec == Init /\ [][Next]_intakeVars

-------------------------------------------------------------------------------
(* Properties *)

Request == [delivery : Deliveries \cup {NoOne}, payload : Payloads \cup {NoOne},
            task : Tasks \cup {NoOne}]
Kinds == {"mismatch", "duplicate", "ignored", "rejected", "queued", "error"}

(* Types of the variables. *)
TypeOK ==
  /\ claimed \in [Deliveries -> Payloads \cup {NoOne}]
  /\ completed \in [Deliveries -> Tasks \cup {NoOne}]
  /\ rows \in [Tasks -> Deliveries \cup {NoOne}]
  /\ queued \subseteq Tasks
  /\ pc \in [Threads -> {"idle", "claim", "duplicate", "validate", "create", "submit",
                         "complete"}]
  /\ request \in [Threads -> Request]
  /\ \A h \in Threads : pc[h] # "idle" =>
       Delivery(h) \in Deliveries /\ Payload(h) \in Payloads
  /\ \A h \in Threads : pc[h] \in {"submit", "complete"} => request[h].task \in Tasks
  /\ answers \subseteq [delivery : Deliveries, payload : Payloads, kind : Kinds,
                        task : Tasks \cup {NoOne}]
  /\ requests \in Nat /\ faults \in Nat /\ crashes \in Nat

TasksOf(d) == {t \in Tasks : rows[t] = d}

(* README.md:22, "Idempotent webhook delivery": however often and however    *)
(* concurrently a delivery arrives, at most one task is created for it.      *)
OneTaskPerDelivery == \A d \in Deliveries : Cardinality(TasksOf(d)) <= 1

(* tests/test_production_features.py:42, "idempotent_and_payload_bound": a   *)
(* delivery id is good for one payload; another body sent under it changes   *)
(* nothing and is told so, or meets an error.                                *)
PayloadBound ==
  \A a, b \in answers :
    a.delivery = b.delivery /\ a.payload # b.payload =>
      "mismatch" \in {a.kind, b.kind} \/ "error" \in {a.kind, b.kind}

(* The id a sender is given, at once or for a duplicate, is the id of a task *)
(* of its own delivery that has a row and was put on the queue               *)
(* (service.py:427-457).                                                     *)
AnswerKept ==
  \A a \in answers : a.task # NoOne => a.task \in queued /\ rows[a.task] = a.delivery

===============================================================================
