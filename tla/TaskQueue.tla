------------------------------- MODULE TaskQueue -------------------------------
(***************************************************************************)
(* The Redis Streams backend of evoagent/task_queue.py: one stream that is *)
(* never trimmed, one consumer group with its pending entries list, worker *)
(* threads that reclaim stale entries and then read one new entry, retry   *)
(* by re-adding the envelope, and a dead-letter stream.                    *)
(*                                                                         *)
(* Each Redis command is one step and so is each return of the handler: a  *)
(* worker can crash, a lease can run out and another worker can act        *)
(* between any two of them.  What the handler does is left open here       *)
(* (HandlerReturns, HandlerFails, HandlerPermanent); ReviewSystem puts the *)
(* review service in its place.                                            *)
(***************************************************************************)
EXTENDS Naturals, Sequences, FiniteSets

CONSTANTS
  Submissions,   \* calls of submit(); (message_id, submitted_at) of an envelope
  Malformed,     \* entries of the stream json.loads rejects
  Workers,       \* threads running _redis_worker
  MaxAttempts,   \* queue_max_attempts
  ClaimCount,    \* count of XAUTOCLAIM, 10 in the code
  MaxCrashes,    \* bound on process crashes
  MaxFaults,     \* bound on Redis or callback errors
  MaxOverruns    \* bound on leases that run out while the entry is being worked on

ASSUME QueueAssumption ==
  /\ Malformed \subseteq Submissions
  /\ MaxAttempts \in Nat \ {0}
  /\ ClaimCount \in Nat \ {0}
  /\ MaxCrashes \in Nat /\ MaxFaults \in Nat /\ MaxOverruns \in Nat

VARIABLES
  stream,      \* entries [sub, attempt] in the order XADD wrote them
  cursor,      \* number of entries XREADGROUP has delivered to the group
  pending,     \* ids delivered and not acknowledged
  stale,       \* pending ids idle for lease_seconds
  dlq,         \* dead letters [sub, attempt, why]
  pc,          \* where each worker is in _redis_worker
  batch,       \* ids XAUTOCLAIM gave the worker and it has not begun
  job,         \* [id, attempt, claimed, why]: the entry the worker is delivering
  done,        \* history: submissions whose handler returned
  failures,    \* history: handler errors per submission
  crashes, faults, overruns

queueVars == <<stream, cursor, pending, stale, dlq, pc, batch, job, done,
               failures, crashes, faults, overruns>>

Entry(id) == stream[id]
Ids == 1 .. Len(stream)
Submitted == {stream[id].sub : id \in Ids}

(* An entry the group still answers for: unread, or pending. *)
Live(id) == id \in pending \/ id > cursor

Idle == [id |-> 0, attempt |-> 0, claimed |-> FALSE, why |-> "none"]

Busy == {"handle", "requeue", "bury", "notify", "ack"}

(* Entries some worker has been given and has not finished with. *)
Held(id) == \E w \in Workers : id \in batch[w] \/ (pc[w] \in Busy /\ job[w].id = id)

Init ==
  /\ stream = <<>> /\ cursor = 0
  /\ pending = {} /\ stale = {} /\ dlq = {}
  /\ pc = [w \in Workers |-> "reclaim"]
  /\ batch = [w \in Workers |-> {}]
  /\ job = [w \in Workers |-> Idle]
  /\ done = {}
  /\ failures = [s \in Submissions |-> 0]
  /\ crashes = 0 /\ faults = 0 /\ overruns = 0

-------------------------------------------------------------------------------
(* submit(): the envelope starts at attempt 0.  replay_dead_letter() is the *)
(* same call: it submits the dead letter's payload again as a new envelope  *)
(* and leaves the dead letter where it is.                                  *)
Submit(s) ==
  /\ s \notin Submitted
  /\ stream' = Append(stream, [sub |-> s, attempt |-> 0])
  /\ UNCHANGED <<cursor, pending, stale, dlq, pc, batch, job, done, failures,
                 crashes, faults, overruns>>

(* Where a worker goes when it is through with an entry: a claimed entry is *)
(* followed by the rest of its batch and then by the read, a new entry by   *)
(* the next turn of the loop.                                               *)
AfterEntry(w) ==
  IF ~job[w].claimed THEN "reclaim" ELSE IF batch[w] = {} THEN "read" ELSE "next"

(* _reclaim_stale: XAUTOCLAIM takes the lowest stale ids, at most ClaimCount,*)
(* and resets their idle time.                                              *)
Claimable(C) ==
  /\ C \subseteq stale
  /\ Cardinality(C) <= ClaimCount
  /\ \A i \in C, j \in stale \ C : i < j
  /\ C # stale => Cardinality(C) = ClaimCount

Reclaim(w) ==
  /\ pc[w] = "reclaim"
  /\ \E C \in SUBSET stale :
       /\ Claimable(C)
       /\ batch' = [batch EXCEPT ![w] = C]
       /\ stale' = stale \ C
       /\ pc' = [pc EXCEPT ![w] = IF C = {} THEN "read" ELSE "next"]
  /\ UNCHANGED <<stream, cursor, pending, dlq, job, done, failures, crashes,
                 faults, overruns>>

(* The loop over the claimed entries.  An envelope json.loads rejects ends  *)
(* _reclaim_stale through its except clause, with the rest of the batch.    *)
NextClaimed(w) ==
  /\ pc[w] = "next"
  /\ \E id \in batch[w] :
       /\ \A other \in batch[w] : id <= other
       /\ IF Entry(id).sub \in Malformed
            THEN /\ batch' = [batch EXCEPT ![w] = {}]
                 /\ pc' = [pc EXCEPT ![w] = "read"]
                 /\ UNCHANGED job
            ELSE /\ batch' = [batch EXCEPT ![w] = @ \ {id}]
                 /\ job' = [job EXCEPT ![w] = [id |-> id, attempt |-> Entry(id).attempt + 1,
                                               claimed |-> TRUE, why |-> "none"]]
                 /\ pc' = [pc EXCEPT ![w] = "handle"]
  /\ UNCHANGED <<stream, cursor, pending, stale, dlq, done, failures, crashes,
                 faults, overruns>>

(* XREADGROUP ... ">" count=1.  A malformed envelope is dead-lettered with  *)
(* attempt = max_attempts.                                                  *)
ReadNew(w) ==
  /\ pc[w] = "read"
  /\ cursor < Len(stream)
  /\ cursor' = cursor + 1
  /\ pending' = pending \cup {cursor'}
  /\ LET e == Entry(cursor')
         bad == e.sub \in Malformed
     IN /\ job' = [job EXCEPT ![w] = [id |-> cursor',
                      attempt |-> IF bad THEN MaxAttempts ELSE e.attempt + 1,
                      claimed |-> FALSE, why |-> IF bad THEN "malformed" ELSE "none"]]
        /\ pc' = [pc EXCEPT ![w] = IF bad THEN "bury" ELSE "handle"]
  /\ UNCHANGED <<stream, stale, dlq, batch, done, failures, crashes, faults, overruns>>

(* The blocking read times out with nothing to deliver. *)
ReadNothing(w) ==
  /\ pc[w] = "read"
  /\ cursor = Len(stream)
  /\ pc' = [pc EXCEPT ![w] = "reclaim"]
  /\ UNCHANGED <<stream, cursor, pending, stale, dlq, batch, job, done, failures,
                 crashes, faults, overruns>>

-------------------------------------------------------------------------------
(* The three ways self.handler() ends in _deliver. *)
HandlerReturns(w) ==
  /\ pc[w] = "handle"
  /\ done' = done \cup {Entry(job[w].id).sub}
  /\ pc' = [pc EXCEPT ![w] = "ack"]
  /\ UNCHANGED <<stream, cursor, pending, stale, dlq, batch, job, failures, crashes,
                 faults, overruns>>

(* PermanentTaskError: no retry. *)
HandlerPermanent(w) ==
  /\ pc[w] = "handle"
  /\ job' = [job EXCEPT ![w].why = "permanent"]
  /\ pc' = [pc EXCEPT ![w] = "bury"]
  /\ UNCHANGED <<stream, cursor, pending, stale, dlq, batch, done, failures, crashes,
                 faults, overruns>>

(* except Exception: the dead letter at the limit, else the retry. *)
FailHandler(w, limit, retry) ==
  /\ pc[w] = "handle"
  /\ failures' = [failures EXCEPT ![Entry(job[w].id).sub] = @ + 1]
  /\ IF job[w].attempt >= limit
       THEN /\ job' = [job EXCEPT ![w].why = "exhausted"]
            /\ pc' = [pc EXCEPT ![w] = "bury"]
       ELSE /\ pc' = [pc EXCEPT ![w] = retry]
            /\ UNCHANGED job
  /\ UNCHANGED <<stream, cursor, pending, stale, dlq, batch, done, crashes, faults,
                 overruns>>

(* Mutants of HandlerFails: the limit one attempt early, and a retry that is *)
(* acknowledged without being written.                                      *)
HandlerFailsEarly(w) == FailHandler(w, MaxAttempts - 1, "requeue")
HandlerFailsUnwritten(w) == FailHandler(w, MaxAttempts, "ack")

HandlerFails(w) == FailHandler(w, MaxAttempts, "requeue")

(* XADD of the envelope with its attempt raised: the retry. *)
Requeue(w) ==
  /\ pc[w] = "requeue"
  /\ stream' = Append(stream, [sub |-> Entry(job[w].id).sub, attempt |-> job[w].attempt])
  /\ pc' = [pc EXCEPT ![w] = "ack"]
  /\ UNCHANGED <<cursor, pending, stale, dlq, batch, job, done, failures, crashes,
                 faults, overruns>>

(* _dead_letter: XADD to the dead-letter stream, then the service callback. *)
Bury(w) ==
  /\ pc[w] = "bury"
  /\ dlq' = dlq \cup {[sub |-> Entry(job[w].id).sub, attempt |-> job[w].attempt,
                       why |-> job[w].why]}
  /\ pc' = [pc EXCEPT ![w] = "notify"]
  /\ UNCHANGED <<stream, cursor, pending, stale, batch, job, done, failures, crashes,
                 faults, overruns>>

Notify(w) ==
  /\ pc[w] = "notify"
  /\ pc' = [pc EXCEPT ![w] = "ack"]
  /\ UNCHANGED <<stream, cursor, pending, stale, dlq, batch, job, done, failures,
                 crashes, faults, overruns>>

Ack(w) ==
  /\ pc[w] = "ack"
  /\ pending' = pending \ {job[w].id}
  /\ stale' = stale \ {job[w].id}
  /\ pc' = [pc EXCEPT ![w] = AfterEntry(w)]
  /\ job' = [job EXCEPT ![w] = Idle]
  /\ UNCHANGED <<stream, cursor, dlq, batch, done, failures, crashes, faults, overruns>>

(* Mutant of InfrastructureFailure: XACK in a finally clause. *)
InfrastructureFailureAcks(w) ==
  /\ pc[w] \in {"requeue", "bury", "notify", "ack"}
  /\ faults < MaxFaults
  /\ faults' = faults + 1
  /\ pending' = pending \ {job[w].id}
  /\ stale' = stale \ {job[w].id}
  /\ pc' = [pc EXCEPT ![w] = IF job[w].why = "malformed" THEN "ended"
                             ELSE IF job[w].claimed THEN "read" ELSE "reclaim"]
  /\ batch' = [batch EXCEPT ![w] = {}]
  /\ job' = [job EXCEPT ![w] = Idle]
  /\ UNCHANGED <<stream, cursor, dlq, done, failures, crashes, overruns>>

-------------------------------------------------------------------------------
(* An XADD, XACK or callback raises.  For a new entry the except clause of  *)
(* _redis_worker leaves it pending and turns the loop; for a claimed entry  *)
(* the one of _reclaim_stale gives up the rest of the batch as well.  Under *)
(* a malformed entry no try is left open, and the thread ends.              *)
InfrastructureFailure(w) ==
  /\ pc[w] \in {"requeue", "bury", "notify", "ack"}
  /\ faults < MaxFaults
  /\ faults' = faults + 1
  /\ pc' = [pc EXCEPT ![w] = IF job[w].why = "malformed" THEN "ended"
                             ELSE IF job[w].claimed THEN "read" ELSE "reclaim"]
  /\ batch' = [batch EXCEPT ![w] = {}]
  /\ job' = [job EXCEPT ![w] = Idle]
  /\ UNCHANGED <<stream, cursor, pending, stale, dlq, done, failures, crashes, overruns>>

(* XAUTOCLAIM raises: _reclaim_stale returns. *)
ReclaimFails(w) ==
  /\ pc[w] = "reclaim"
  /\ faults < MaxFaults
  /\ faults' = faults + 1
  /\ pc' = [pc EXCEPT ![w] = "read"]
  /\ UNCHANGED <<stream, cursor, pending, stale, dlq, batch, job, done, failures,
                 crashes, overruns>>

(* XREADGROUP raises: it is outside every try of _redis_worker, so the      *)
(* thread ends and its future keeps the exception.                          *)
ReadFails(w) ==
  /\ pc[w] = "read"
  /\ faults < MaxFaults
  /\ faults' = faults + 1
  /\ pc' = [pc EXCEPT ![w] = "ended"]
  /\ UNCHANGED <<stream, cursor, pending, stale, dlq, batch, job, done, failures,
                 crashes, overruns>>

(* A pending entry has been idle for lease_seconds: because its worker is   *)
(* gone, or because the work (up to the task timeout, which is longer than  *)
(* the lease, or the rest of a claimed batch) takes longer than that.       *)
LeaseExpires(id) ==
  /\ id \in pending \ stale
  /\ stale' = stale \cup {id}
  /\ IF Held(id) THEN overruns < MaxOverruns /\ overruns' = overruns + 1
                 ELSE UNCHANGED overruns
  /\ UNCHANGED <<stream, cursor, pending, dlq, pc, batch, job, done, failures, crashes,
                 faults>>

(* The process of a worker dies; a process with several threads is several  *)
(* of these steps.  The stream and the pending list survive in Redis.       *)
Crash(w) ==
  /\ pc[w] # "down"
  /\ crashes < MaxCrashes
  /\ crashes' = crashes + 1
  /\ pc' = [pc EXCEPT ![w] = "down"]
  /\ batch' = [batch EXCEPT ![w] = {}]
  /\ job' = [job EXCEPT ![w] = Idle]
  /\ UNCHANGED <<stream, cursor, pending, stale, dlq, done, failures, faults, overruns>>

Restart(w) ==
  /\ pc[w] = "down"
  /\ pc' = [pc EXCEPT ![w] = "reclaim"]
  /\ UNCHANGED <<stream, cursor, pending, stale, dlq, batch, job, done, failures,
                 crashes, faults, overruns>>

-------------------------------------------------------------------------------
Poll(w) == Reclaim(w) \/ NextClaimed(w) \/ ReadNew(w) \/ ReadNothing(w)
Handler(w) == HandlerReturns(w) \/ HandlerPermanent(w) \/ HandlerFails(w)
Settle(w) == Requeue(w) \/ Bury(w) \/ Notify(w) \/ Ack(w)
Fault(w) == InfrastructureFailure(w) \/ ReclaimFails(w) \/ ReadFails(w)

Next ==
  \/ \E s \in Submissions : Submit(s)
  \/ \E w \in Workers : Poll(w) \/ Handler(w) \/ Settle(w) \/ Fault(w)
                        \/ Crash(w) \/ Restart(w)
  \/ \E id \in pending : LeaseExpires(id)

Spec == Init /\ [][Next]_queueVars

-------------------------------------------------------------------------------
(* Properties *)

Envelope == [sub : Submissions, attempt : Nat]
Job == [id : Nat, attempt : Nat, claimed : BOOLEAN,
        why : {"none", "malformed", "permanent", "exhausted"}]
DeadLetter == [sub : Submissions, attempt : Nat,
               why : {"malformed", "permanent", "exhausted"}]
Locations == Busy \cup {"reclaim", "next", "read", "ended", "down"}

(* Types of the variables; the lists Redis keeps name only delivered entries *)
(* and a worker holds only entries it was given.                             *)
TypeOK ==
  /\ stream \in Seq(Envelope)
  /\ cursor \in 0 .. Len(stream)
  /\ pending \subseteq 1 .. cursor
  /\ stale \subseteq pending
  /\ dlq \subseteq DeadLetter
  /\ pc \in [Workers -> Locations]
  /\ batch \in [Workers -> SUBSET (1 .. cursor)]
  /\ job \in [Workers -> Job]
  /\ \A w \in Workers : pc[w] \in Busy => job[w].id \in 1 .. cursor
  /\ \A w \in Workers : pc[w] \in {"bury", "notify"} => job[w].why # "none"
  /\ done \subseteq Submissions
  /\ failures \in [Submissions -> Nat]
  /\ crashes \in Nat /\ faults \in Nat /\ overruns \in Nat

Buried == {d.sub : d \in dlq}
Open == {stream[id].sub : id \in {i \in Ids : Live(i)}}

(* No submission is lost: whatever crashed, failed or ran late, it has been  *)
(* handled, is in the dead-letter queue, or the group still has an entry of  *)
(* it to deliver (task_queue.py:116, "ACK only after work completed or was   *)
(* safely requeued/DLQed").                                                  *)
NoSilentLoss == \A s \in Submitted : s \in done \cup Buried \cup Open

(* A submission is dead-lettered as exhausted only after max_attempts runs   *)
(* of its handler really failed: crashes, lease recoveries and duplicates    *)
(* of its envelope never use up an attempt.                                  *)
DeadLetterEarned ==
  \A d \in dlq : d.why = "exhausted" =>
     d.attempt = MaxAttempts /\ failures[d.sub] >= MaxAttempts

(* The attempt of an envelope on the stream is below max_attempts, so that   *)
(* each entry, redelivered or not, is worth at least one more run.           *)
AttemptsBounded == \A id \in Ids : stream[id].attempt < MaxAttempts

D == INSTANCE Delivery WITH open <- Open, done <- done, dead <- Buried

(* Every step of the backend is a step of Delivery or changes nothing there. *)
DeliverySafe == D!Safe

===============================================================================
