------------------------------ MODULE MemoryQueue ------------------------------
(***************************************************************************)
(* The in-process backend of evoagent/task_queue.py, used when no Redis is *)
(* configured: a thread pool with its work queue, retries that wait on a   *)
(* daemon timer each, a dead-letter list, and close().                     *)
(*                                                                         *)
(* Nothing is stored, so a crash loses every open submission; what close() *)
(* does to them in a process that goes on is the subject here.             *)
(***************************************************************************)
EXTENDS Naturals, Sequences, FiniteSets

CONSTANTS
  Submissions,   \* calls of submit()
  Workers,       \* threads of the pool
  MaxAttempts    \* queue_max_attempts

ASSUME MemoryAssumption == MaxAttempts \in Nat \ {0}

VARIABLES
  queue,      \* the work queue of the executor: envelopes [sub, attempt]
  timers,     \* envelopes whose timer is running
  firing,     \* envelopes whose timer thread found _stop clear and has not submitted
  pc, job,    \* each thread: where it is in _deliver, and its envelope
  dlq,        \* _memory_dlq, as [sub, why]
  phase,      \* "open", "stopping" (_stop set), "shut" (executor shut down), "closed"
  submitted, done,   \* history: submissions, and those whose handler returned
  failures    \* history: handler errors per submission

memoryVars == <<queue, timers, firing, pc, job, dlq, phase, submitted, done, failures>>

NoJob == [sub |-> "none", attempt |-> 0]

Init ==
  /\ queue = <<>> /\ timers = {} /\ firing = {}
  /\ pc = [w \in Workers |-> "idle"]
  /\ job = [w \in Workers |-> NoJob]
  /\ dlq = {}
  /\ phase = "open"
  /\ submitted = {} /\ done = {}
  /\ failures = [s \in Submissions |-> 0]

Stopped == phase # "open"
Shut == phase \in {"shut", "closed"}
Goto(w, where) == pc' = [pc EXCEPT ![w] = where]

-------------------------------------------------------------------------------
(* submit(): the executor refuses work once it is shut down. *)
Submit(s) ==
  /\ s \notin submitted
  /\ ~Shut
  /\ submitted' = submitted \cup {s}
  /\ queue' = Append(queue, [sub |-> s, attempt |-> 0])
  /\ UNCHANGED <<timers, firing, pc, job, dlq, phase, done, failures>>

(* A thread of the pool takes the oldest work item and calls _deliver. *)
Begin(w) ==
  /\ pc[w] = "idle"
  /\ queue # <<>>
  /\ job' = [job EXCEPT ![w] = [Head(queue) EXCEPT !.attempt = @ + 1]]
  /\ queue' = Tail(queue)
  /\ Goto(w, "handle")
  /\ UNCHANGED <<timers, firing, dlq, phase, submitted, done, failures>>

HandlerReturns(w) ==
  /\ pc[w] = "handle"
  /\ done' = done \cup {job[w].sub}
  /\ Goto(w, "leave")
  /\ UNCHANGED <<queue, timers, firing, job, dlq, phase, submitted, failures>>

HandlerPermanent(w) ==
  /\ pc[w] = "handle"
  /\ Goto(w, "bury")
  /\ UNCHANGED <<queue, timers, firing, job, dlq, phase, submitted, done, failures>>

(* The handler raised: at the limit the envelope is dead-lettered, else its  *)
(* timer is started.                                                         *)
HandlerFails(w) ==
  LET atLimit == job[w].attempt >= MaxAttempts IN
  /\ pc[w] = "handle"
  /\ failures' = [failures EXCEPT ![job[w].sub] = @ + 1]
  /\ timers' = IF atLimit THEN timers ELSE timers \cup {job[w]}
  /\ Goto(w, IF atLimit THEN "exhausted" ELSE "idle")
  /\ job' = IF atLimit THEN job ELSE [job EXCEPT ![w] = NoJob]
  /\ UNCHANGED <<queue, firing, dlq, phase, submitted, done>>

(* _dead_letter, then the service callback; an exception of the callback     *)
(* ends the work item just as its return does.                               *)
Bury(w) ==
  /\ pc[w] \in {"bury", "exhausted"}
  /\ dlq' = dlq \cup {[sub |-> job[w].sub,
                       why |-> IF pc[w] = "bury" THEN "permanent" ELSE "exhausted"]}
  /\ Goto(w, "leave")
  /\ UNCHANGED <<queue, timers, firing, job, phase, submitted, done, failures>>

(* Mutant of Leave: a thread that leaves needs the lock close() holds. *)
LeaveLocked(w) ==
  /\ pc[w] = "leave" /\ phase = "open"
  /\ job' = [job EXCEPT ![w] = NoJob]
  /\ Goto(w, "idle")
  /\ UNCHANGED <<queue, timers, firing, dlq, phase, submitted, done, failures>>

(* The work item is done with. *)
Leave(w) ==
  /\ pc[w] = "leave"
  /\ job' = [job EXCEPT ![w] = NoJob]
  /\ Goto(w, "idle")
  /\ UNCHANGED <<queue, timers, firing, dlq, phase, submitted, done, failures>>

(* Mutant of TimerFires: the test of _stop, inverted. *)
TimerFiresStopped(e) ==
  /\ e \in timers
  /\ timers' = timers \ {e}
  /\ firing' = IF Stopped THEN firing \cup {e} ELSE firing
  /\ UNCHANGED <<queue, pc, job, dlq, phase, submitted, done, failures>>

(* _submit_memory in the timer's thread: the test of _stop, and the call of  *)
(* executor.submit, which raises (and ends the thread) after the shutdown.   *)
TimerFires(e) ==
  /\ e \in timers
  /\ timers' = timers \ {e}
  /\ firing' = IF Stopped THEN firing ELSE firing \cup {e}
  /\ UNCHANGED <<queue, pc, job, dlq, phase, submitted, done, failures>>

TimerSubmits(e) ==
  /\ e \in firing
  /\ firing' = firing \ {e}
  /\ queue' = IF Shut THEN queue ELSE Append(queue, e)
  /\ UNCHANGED <<timers, pc, job, dlq, phase, submitted, done, failures>>

-------------------------------------------------------------------------------
(* close(): _stop is set, the executor is shut down with its queue cancelled,*)
(* and every thread is joined.                                               *)
CloseBegins ==
  /\ phase = "open"
  /\ phase' = "stopping"
  /\ UNCHANGED <<queue, timers, firing, pc, job, dlq, submitted, done, failures>>

Shutdown ==
  /\ phase = "stopping"
  /\ phase' = "shut"
  /\ queue' = <<>>
  /\ UNCHANGED <<timers, firing, pc, job, dlq, submitted, done, failures>>

(* Mutant of CloseReturns: wait is False. *)
CloseReturnsAtOnce ==
  /\ phase = "shut"
  /\ phase' = "closed"
  /\ UNCHANGED <<queue, timers, firing, pc, job, dlq, submitted, done, failures>>

CloseReturns ==
  /\ phase = "shut"
  /\ queue = <<>> /\ \A w \in Workers : pc[w] = "idle"
  /\ phase' = "closed"
  /\ UNCHANGED <<queue, timers, firing, pc, job, dlq, submitted, done, failures>>

-------------------------------------------------------------------------------
Deliver(w) == Begin(w) \/ HandlerReturns(w) \/ HandlerPermanent(w) \/ HandlerFails(w)
              \/ Bury(w) \/ Leave(w)
Timer(e) == TimerFires(e) \/ TimerSubmits(e)
Envelopes == [sub : Submissions, attempt : 0 .. MaxAttempts]

Next ==
  \/ \E s \in Submissions : Submit(s)
  \/ \E w \in Workers : Deliver(w)
  \/ \E e \in timers \cup firing : Timer(e)
  \/ CloseBegins \/ Shutdown \/ CloseReturns

Spec == Init /\ [][Next]_memoryVars

(* Threads of the pool and of the timers run, handlers end, and a close()    *)
(* that has begun goes on.                                                   *)
FairSpec ==
  /\ Spec
  /\ \A w \in Workers : WF_memoryVars(Deliver(w))
  /\ \A e \in Envelopes : WF_memoryVars(Timer(e))
  /\ WF_memoryVars(Shutdown \/ CloseReturns)

-------------------------------------------------------------------------------
(* Properties *)

Buried == {d.sub : d \in dlq}
Queued == {queue[i].sub : i \in 1 .. Len(queue)}
Waiting == {e.sub : e \in timers \cup firing}
InFlight == {job[w].sub : w \in {v \in Workers : pc[v] # "idle"}}
Open == Queued \cup Waiting \cup InFlight

(* task_queue.py:163-168, "drain in-flight work and cancel queued items.     *)
(* Callers that shut the process down [...] must not race a worker thread":  *)
(* after close() has returned no handler runs and none ever starts.          *)
ClosedIsQuiet == phase = "closed" => queue = <<>> /\ InFlight = {}

(* close() returns, whatever is in flight and however the retries race it.   *)
CloseEnds == (phase = "stopping") ~> (phase = "closed")

D == INSTANCE Delivery WITH open <- Open, done <- done, dead <- Buried

(* Until close() is called, every step of the backend is a step of Delivery  *)
(* or changes nothing there: a retry that moves from a worker to a timer,    *)
(* from there to the timer's thread and back to the executor is never        *)
(* dropped on the way (task_queue.py:85-96).                                 *)
DeliverySafe == D!Init /\ [][D!Next \/ Stopped]_<<Open, done, Buried>>

(* As long as nobody closes the queue every submission is handled or         *)
(* dead-lettered in the end, whatever its timers and the other submissions   *)
(* on the pool do.                                                           *)
EventuallySettled ==
  \A s \in Submissions :
    (s \in Open) ~> (Stopped \/ s \in (done \cup Buried) \ Open)
===============================================================================
