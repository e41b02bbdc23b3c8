-------------------------- MODULE ReviewSystemProofs ---------------------------
(***************************************************************************)
(* Proofs about the queue and the service that runs on it, for every set   *)
(* of workers and submissions, every value of the limits, and any number   *)
(* of crashes, Redis errors, lost leases, resumes and retries.             *)
(*                                                                         *)
(* The first part is about TaskQueue, with any handler: its types, that a  *)
(* submission is never lost, that a dead letter has used up its attempts,  *)
(* and that it implements Delivery.  The second is about ReviewSystem: it  *)
(* uses the queue, so that all of this holds of it, a message counted as   *)
(* handled has its report and its comment, and it takes both a lost lease  *)
(* and a crash or a Redis error to leave a task with nobody to continue it.*)
(***************************************************************************)
EXTENDS ReviewSystem, TLAPS

(* The entry a worker holds is an entry of the stream. *)
LEMMA HeldEntry ==
  ASSUME TypeOK, NEW w \in Workers, pc[w] \in Busy
  PROVE  /\ job[w] \in Job
         /\ job[w].id \in 1 .. cursor
         /\ stream[job[w].id] \in Envelope
BY DEF TypeOK

(* Every step keeps the types. *)
LEMMA TypeStep == TypeOK /\ [Next]_queueVars => TypeOK'
<1> SUFFICES ASSUME TypeOK, [Next]_queueVars PROVE TypeOK'
  OBVIOUS
<1>1. ASSUME NEW s \in Submissions, Submit(s) PROVE TypeOK'
  <2>1. [sub |-> s, attempt |-> 0] \in Envelope
    BY DEF Envelope
  <2>2. stream' \in Seq(Envelope) /\ Len(stream') = Len(stream) + 1
    BY <1>1, <2>1 DEF Submit, TypeOK
  <2> QED
    BY <1>1, <2>2 DEF Submit, TypeOK
<1>2. ASSUME NEW w \in Workers, Reclaim(w) PROVE TypeOK'
  <2>1. PICK C \in SUBSET stale :
          /\ batch' = [batch EXCEPT ![w] = C]
          /\ stale' = stale \ C
          /\ pc' = [pc EXCEPT ![w] = IF C = {} THEN "read" ELSE "next"]
    BY <1>2 DEF Reclaim
  <2>2. pc' \in [Workers -> Locations] /\ pc'[w] \notin Busy
    BY <2>1 DEF TypeOK, Locations, Busy
  <2>3. batch' \in [Workers -> SUBSET (1 .. cursor)]
    BY <2>1 DEF TypeOK
  <2> QED
    BY <1>2, <2>1, <2>2, <2>3 DEF Reclaim, TypeOK, Busy
<1>3. ASSUME NEW w \in Workers, NextClaimed(w) PROVE TypeOK'
  <2> DEFINE taken(id) == [id |-> id, attempt |-> stream[id].attempt + 1,
                           claimed |-> TRUE, why |-> "none"]
  <2>1. PICK id \in batch[w] :
          IF stream[id].sub \in Malformed
            THEN /\ batch' = [batch EXCEPT ![w] = {}]
                 /\ pc' = [pc EXCEPT ![w] = "read"]
                 /\ UNCHANGED job
            ELSE /\ batch' = [batch EXCEPT ![w] = @ \ {id}]
                 /\ job' = [job EXCEPT ![w] = taken(id)]
                 /\ pc' = [pc EXCEPT ![w] = "handle"]
    BY <1>3 DEF NextClaimed, Entry
  <2>2. id \in 1 .. cursor /\ stream[id] \in Envelope
    BY DEF TypeOK
  <2>3. taken(id) \in Job /\ taken(id).id = id
    BY <2>2 DEF Job, Envelope
  <2> HIDE DEF taken
  <2>4. batch' \in [Workers -> SUBSET (1 .. cursor)]
    BY <2>1 DEF TypeOK
  <2>5. pc' \in [Workers -> Locations]
    BY <2>1 DEF TypeOK, Locations, Busy
  <2>6. job' \in [Workers -> Job]
    BY <2>1, <2>3 DEF TypeOK
  <2>7. \A v \in Workers : pc'[v] \in Busy => job'[v].id \in 1 .. cursor
    BY <2>1, <2>2, <2>3 DEF TypeOK, Busy
  <2>8. \A v \in Workers : pc'[v] \in {"bury", "notify"} => job'[v].why # "none"
    BY <2>1 DEF TypeOK
  <2> QED
    BY <1>3, <2>4, <2>5, <2>6, <2>7, <2>8 DEF NextClaimed, TypeOK
<1>4. ASSUME NEW w \in Workers, ReadNew(w) PROVE TypeOK'
  <2> DEFINE bad == stream[cursor'].sub \in Malformed
             new == [id |-> cursor',
                     attempt |-> IF bad THEN MaxAttempts ELSE stream[cursor'].attempt + 1,
                     claimed |-> FALSE, why |-> IF bad THEN "malformed" ELSE "none"]
  <2>1. /\ cursor' = cursor + 1 /\ cursor' \in 1 .. Len(stream)
        /\ pending' = pending \cup {cursor'}
        /\ job' = [job EXCEPT ![w] = new]
        /\ pc' = [pc EXCEPT ![w] = IF bad THEN "bury" ELSE "handle"]
        /\ UNCHANGED <<stream, stale, dlq, batch, done, failures, crashes, faults,
                       overruns>>
    BY <1>4 DEF ReadNew, Entry, TypeOK
  <2>2. stream[cursor'] \in Envelope
    BY <2>1 DEF TypeOK
  <2>3. new \in Job /\ new.id = cursor' /\ (bad => new.why # "none")
    BY <2>1, <2>2, QueueAssumption DEF Job, Envelope
  <2> HIDE DEF new, bad
  <2>4. job' \in [Workers -> Job] /\ batch' \in [Workers -> SUBSET (1 .. cursor')]
    BY <2>1, <2>3 DEF TypeOK
  <2>5. pc' \in [Workers -> Locations]
    BY <2>1 DEF TypeOK, Locations, Busy
  <2>6. \A v \in Workers : pc'[v] \in Busy => job'[v].id \in 1 .. cursor'
    BY <2>1, <2>3 DEF TypeOK
  <2>7. \A v \in Workers : pc'[v] \in {"bury", "notify"} => job'[v].why # "none"
    BY <2>1, <2>3 DEF TypeOK
  <2>8. pending' \subseteq 1 .. cursor' /\ stale' \subseteq pending'
        /\ cursor' \in 0 .. Len(stream)
    BY <2>1 DEF TypeOK
  <2> QED
    BY <2>1, <2>4, <2>5, <2>6, <2>7, <2>8 DEF TypeOK
<1>5. ASSUME NEW w \in Workers, ReadNothing(w) PROVE TypeOK'
  BY <1>5 DEF ReadNothing, TypeOK, Locations, Busy
<1>6. ASSUME NEW w \in Workers, HandlerReturns(w) PROVE TypeOK'
  <2>1. pc[w] \in Busy /\ pc' = [pc EXCEPT ![w] = "ack"]
    BY <1>6 DEF HandlerReturns, Busy
  <2>2. stream[job[w].id].sub \in Submissions
    BY <2>1, HeldEntry DEF Envelope
  <2>3. pc' \in [Workers -> Locations]
    BY <2>1 DEF TypeOK, Locations, Busy
  <2> QED
    BY <1>6, <2>1, <2>2, <2>3 DEF HandlerReturns, Entry, TypeOK
<1>7. ASSUME NEW w \in Workers, HandlerPermanent(w) PROVE TypeOK'
  <2>1. pc[w] \in Busy /\ pc' = [pc EXCEPT ![w] = "bury"]
        /\ job' = [job EXCEPT ![w].why = "permanent"]
    BY <1>7 DEF HandlerPermanent, Busy
  <2>2. job' \in [Workers -> Job] /\ job'[w].id = job[w].id /\ job'[w].why = "permanent"
    BY <2>1 DEF TypeOK, Job
  <2>3. pc' \in [Workers -> Locations]
    BY <2>1 DEF TypeOK, Locations, Busy
  <2> QED
    BY <1>7, <2>1, <2>2, <2>3 DEF HandlerPermanent, TypeOK
<1>8. ASSUME NEW w \in Workers, HandlerFails(w) PROVE TypeOK'
  <2>1. pc[w] \in Busy /\ pc[w] \notin {"bury", "notify"}
    BY <1>8 DEF HandlerFails, FailHandler, Busy
  <2>2. stream[job[w].id].sub \in Submissions
    BY <2>1, HeldEntry DEF Envelope
  <2>3. failures' \in [Submissions -> Nat]
    BY <1>8, <2>2 DEF HandlerFails, FailHandler, Entry, TypeOK
  <2>4. \/ pc' = [pc EXCEPT ![w] = "bury"] /\ job' = [job EXCEPT ![w].why = "exhausted"]
        \/ pc' = [pc EXCEPT ![w] = "requeue"] /\ job' = job
    BY <1>8 DEF HandlerFails, FailHandler
  <2>5. /\ job' \in [Workers -> Job]
        /\ \A v \in Workers : pc'[v] \in Busy => job'[v].id \in 1 .. cursor
        /\ \A v \in Workers : pc'[v] \in {"bury", "notify"} => job'[v].why # "none"
    <3>1. CASE pc' = [pc EXCEPT ![w] = "bury"] /\ job' = [job EXCEPT ![w].why = "exhausted"]
      <4>1. /\ job' \in [Workers -> Job]
            /\ job'[w].id = job[w].id /\ job'[w].why = "exhausted"
        BY <3>1 DEF TypeOK, Job
      <4>2. \A v \in Workers \ {w} : job'[v] = job[v] /\ pc'[v] = pc[v]
        BY <3>1 DEF TypeOK
      <4> QED
        BY <2>1, <4>1, <4>2 DEF TypeOK
    <3>2. CASE pc' = [pc EXCEPT ![w] = "requeue"] /\ job' = job
      BY <2>1, <3>2 DEF TypeOK
    <3> QED
      BY <2>4, <3>1, <3>2
  <2>6. pc' \in [Workers -> Locations]
    BY <2>4 DEF TypeOK, Locations, Busy
  <2> QED
    BY <1>8, <2>3, <2>5, <2>6 DEF HandlerFails, FailHandler, TypeOK
<1>9. ASSUME NEW w \in Workers, Requeue(w) PROVE TypeOK'
  <2>1. pc[w] \in Busy /\ pc' = [pc EXCEPT ![w] = "ack"]
    BY <1>9 DEF Requeue, Busy
  <2>2. [sub |-> stream[job[w].id].sub, attempt |-> job[w].attempt] \in Envelope
    BY <2>1, HeldEntry DEF Envelope, Job
  <2>3. stream' \in Seq(Envelope) /\ Len(stream') = Len(stream) + 1
    BY <1>9, <2>2 DEF Requeue, Entry, TypeOK
  <2>4. pc' \in [Workers -> Locations]
    BY <2>1 DEF TypeOK, Locations, Busy
  <2> QED
    BY <1>9, <2>1, <2>3, <2>4 DEF Requeue, TypeOK
<1>10. ASSUME NEW w \in Workers, Bury(w) PROVE TypeOK'
  <2>1. pc[w] \in Busy /\ pc' = [pc EXCEPT ![w] = "notify"] /\ job[w].why # "none"
    BY <1>10 DEF Bury, Busy, TypeOK
  <2>2. [sub |-> stream[job[w].id].sub, attempt |-> job[w].attempt, why |-> job[w].why]
          \in DeadLetter
    BY <2>1, HeldEntry DEF DeadLetter, Envelope, Job
  <2>3. pc' \in [Workers -> Locations]
    BY <2>1 DEF TypeOK, Locations, Busy
  <2> QED
    BY <1>10, <2>1, <2>2, <2>3 DEF Bury, Entry, TypeOK
<1>11. ASSUME NEW w \in Workers, Notify(w) PROVE TypeOK'
  <2>1. pc[w] \in Busy /\ pc' = [pc EXCEPT ![w] = "ack"]
    BY <1>11 DEF Notify, Busy
  <2>2. pc' \in [Workers -> Locations]
    BY <2>1 DEF TypeOK, Locations, Busy
  <2> QED
    BY <1>11, <2>1, <2>2 DEF Notify, TypeOK
<1>12. ASSUME NEW w \in Workers, NEW where \in {"reclaim", "read", "next", "ended", "down"},
              pc' = [pc EXCEPT ![w] = where], job' = [job EXCEPT ![w] = Idle] \/ job' = job,
              batch' = [batch EXCEPT ![w] = {}] \/ batch' = batch,
              pending' \subseteq pending, stale' \subseteq stale \cap pending',
              UNCHANGED <<stream, cursor, dlq, done, failures>>,
              crashes' \in Nat, faults' \in Nat, overruns' \in Nat
       PROVE  TypeOK'
  <2>1. Idle \in Job
    BY DEF Idle, Job
  <2>2. job' \in [Workers -> Job] /\ batch' \in [Workers -> SUBSET (1 .. cursor)]
    BY <1>12, <2>1 DEF TypeOK
  <2>3. pc' \in [Workers -> Locations] /\ pc'[w] \notin Busy
    BY <1>12 DEF TypeOK, Locations, Busy
  <2> QED
    BY <1>12, <2>2, <2>3 DEF TypeOK, Busy
<1>13. ASSUME NEW w \in Workers,
              Ack(w) \/ Fault(w) \/ Crash(w) \/ Restart(w)
       PROVE  TypeOK'
  <2> DEFINE idle == {"reclaim", "read", "next", "ended", "down"}
  <2>1. crashes \in Nat /\ faults \in Nat /\ overruns \in Nat /\ stale \subseteq pending
    BY DEF TypeOK
  <2>2. CASE Ack(w)
    <3>1. AfterEntry(w) \in idle
      BY DEF AfterEntry
    <3> QED
      BY <1>12, <2>1, <2>2, <3>1 DEF Ack
  <2>3. CASE InfrastructureFailure(w)
    <3> DEFINE next == IF job[w].why = "malformed" THEN "ended"
                       ELSE IF job[w].claimed THEN "read" ELSE "reclaim"
    <3>1. next \in idle
      OBVIOUS
    <3>2. pc' = [pc EXCEPT ![w] = next] /\ faults' \in Nat
      BY <2>1, <2>3 DEF InfrastructureFailure
    <3> HIDE DEF next
    <3> QED
      BY <1>12, <2>1, <2>3, <3>1, <3>2 DEF InfrastructureFailure
  <2>4. CASE ReclaimFails(w)
    <3>1. /\ pc' = [pc EXCEPT ![w] = "read"]
          /\ UNCHANGED <<stream, cursor, pending, stale, dlq, batch, job, done, failures>>
          /\ crashes' \in Nat /\ faults' \in Nat /\ overruns' \in Nat
      BY <2>1, <2>4 DEF ReclaimFails
    <3> QED
      BY <1>12, <2>1, <3>1
  <2>5. CASE ReadFails(w)
    <3>1. /\ pc' = [pc EXCEPT ![w] = "ended"]
          /\ UNCHANGED <<stream, cursor, pending, stale, dlq, batch, job, done, failures>>
          /\ crashes' \in Nat /\ faults' \in Nat /\ overruns' \in Nat
      BY <2>1, <2>5 DEF ReadFails
    <3> QED
      BY <1>12, <2>1, <3>1
  <2>6. CASE Crash(w)
    <3>1. /\ pc' = [pc EXCEPT ![w] = "down"]
          /\ job' = [job EXCEPT ![w] = Idle] /\ batch' = [batch EXCEPT ![w] = {}]
          /\ UNCHANGED <<stream, cursor, pending, stale, dlq, done, failures>>
          /\ crashes' \in Nat /\ faults' \in Nat /\ overruns' \in Nat
      BY <2>1, <2>6 DEF Crash
    <3> QED
      BY <1>12, <2>1, <3>1
  <2>7. CASE Restart(w)
    BY <1>12, <2>1, <2>7 DEF Restart
  <2> QED
    BY <1>13, <2>2, <2>3, <2>4, <2>5, <2>6, <2>7 DEF Fault
<1>14. ASSUME NEW id \in pending, LeaseExpires(id) PROVE TypeOK'
  BY <1>14 DEF LeaseExpires, TypeOK
<1>15. CASE UNCHANGED queueVars
  BY <1>15 DEF queueVars, TypeOK
<1> QED
  BY <1>1, <1>2, <1>3, <1>4, <1>5, <1>6, <1>7, <1>8, <1>9, <1>10, <1>11, <1>13,
     <1>14, <1>15 DEF Next, Poll, Handler, Settle

(* Type correctness of every reachable state of the backend. *)
THEOREM TypeCorrect == Spec => []TypeOK
<1>1. Init => TypeOK
  <2> SUFFICES ASSUME Init PROVE TypeOK
    OBVIOUS
  <2>1. Idle \in Job
    BY DEF Idle, Job
  <2>2. pc \in [Workers -> Locations] /\ \A w \in Workers : pc[w] \notin Busy
    BY DEF Init, Locations, Busy
  <2> QED
    BY <2>1, <2>2 DEF Init, TypeOK, Busy
<1> QED
  BY <1>1, TypeStep, PTL DEF Spec

-------------------------------------------------------------------------------
(* Why nothing is lost: an entry may leave the pending list only when its   *)
(* submission is settled or a later entry of it is still to be delivered.   *)
(* Later, because the worker holding that one may acknowledge it first.     *)
Settled(id) == stream[id].sub \in done \cup Buried
Replaced(id) == \E j \in Ids : j > id /\ Live(j) /\ stream[j].sub = stream[id].sub
Covered(id) == \E j \in Ids : Live(j) /\ stream[j].sub = stream[id].sub

LossInv ==
  /\ \A id \in Ids : Settled(id) \/ Covered(id)
  /\ \A w \in Workers : pc[w] = "notify" => Settled(job[w].id)
  /\ \A w \in Workers : pc[w] = "ack" => Settled(job[w].id) \/ Replaced(job[w].id)

(* Why attempts are earned: the attempt of an envelope counts handler runs  *)
(* of its submission that failed.                                           *)
Failed(id) == failures[stream[id].sub]

AttemptInv ==
  /\ \A id \in Ids : stream[id].attempt < MaxAttempts /\ stream[id].attempt <= Failed(id)
  /\ \A w \in Workers : pc[w] = "handle" => job[w].attempt = stream[job[w].id].attempt + 1
  /\ \A w \in Workers : pc[w] = "requeue" =>
       job[w].attempt < MaxAttempts /\ job[w].attempt <= Failed(job[w].id)
  /\ \A w \in Workers : pc[w] = "bury" /\ job[w].why = "exhausted" =>
       job[w].attempt = MaxAttempts /\ Failed(job[w].id) >= MaxAttempts
  /\ DeadLetterEarned

(* Entries stay settled, covered and replaced while the stream grows at its *)
(* end, live entries stay live and the outcomes recorded stay recorded.     *)
LEMMA KeepCover ==
  ASSUME Len(stream) \in Nat, Len(stream') \in Nat, Len(stream) <= Len(stream'),
         \A id \in Ids : stream'[id] = stream[id],
         \A id \in Ids : Live(id) => Live(id)',
         done \subseteq done', dlq \subseteq dlq',
         NEW id \in Ids
  PROVE  /\ id \in Ids'
         /\ Settled(id) => Settled(id)'
         /\ Covered(id) => Covered(id)'
         /\ Replaced(id) => Replaced(id)'
<1>1. \A j \in Ids : j \in Ids'
  BY DEF Ids
<1>2. Buried \subseteq Buried'
  BY DEF Buried
<1> QED
  BY <1>1, <1>2 DEF Settled, Covered, Replaced

(* Every step keeps what the loss of a submission would break. *)
LEMMA LossStep == TypeOK /\ LossInv /\ [Next]_queueVars => LossInv'
<1> SUFFICES ASSUME TypeOK, LossInv, [Next]_queueVars PROVE LossInv'
  OBVIOUS
<1>a. /\ Len(stream) \in Nat /\ cursor \in Nat /\ cursor <= Len(stream)
      /\ \A w \in Workers : pc[w] \in Busy => job[w].id \in Ids
      /\ pc \in [Workers -> Locations] /\ job \in [Workers -> Job]
  BY DEF TypeOK, Ids
<1>1. ASSUME Len(stream') \in Nat, Len(stream) <= Len(stream'),
             \A id \in Ids : stream'[id] = stream[id],
             \A id \in Ids : Live(id) => Live(id)',
             \A id \in Ids' \ Ids : Live(id)',
             done \subseteq done', dlq \subseteq dlq',
             \A v \in Workers : pc'[v] = "notify" =>
               \/ pc[v] = "notify" /\ job'[v] = job[v]
               \/ Settled(job[v].id)',
             \A v \in Workers : pc'[v] = "ack" =>
               \/ pc[v] = "ack" /\ job'[v] = job[v]
               \/ Settled(job[v].id)' \/ Replaced(job[v].id)'
      PROVE  LossInv'
  <2>1. \A id \in Ids : /\ Settled(id) => Settled(id)'
                        /\ Covered(id) => Covered(id)'
                        /\ Replaced(id) => Replaced(id)'
    BY <1>1, <1>a, KeepCover
  <2>2. \A id \in Ids' : Settled(id)' \/ Covered(id)'
    BY <1>1, <2>1 DEF LossInv, Covered
  <2>3. ASSUME NEW v \in Workers, pc'[v] = "notify" PROVE Settled(job[v].id)'
    BY <1>1, <1>a, <2>1, <2>3 DEF LossInv, Busy, Settled
  <2>4. ASSUME NEW v \in Workers, pc'[v] = "ack"
        PROVE  Settled(job[v].id)' \/ Replaced(job[v].id)'
    <3>1. CASE pc[v] = "ack" /\ job'[v] = job[v]
      <4>1. PICK id \in Ids : id = job[v].id /\ (Settled(id) \/ Replaced(id))
        BY <1>a, <3>1 DEF LossInv, Busy
      <4>2. Settled(id)' \/ Replaced(id)'
        BY <2>1, <4>1
      <4> QED
        BY <3>1, <4>1, <4>2 DEF Settled, Replaced
    <3> QED
      BY <1>1, <2>4, <3>1
  <2> QED
    BY <2>2, <2>3, <2>4 DEF LossInv
<1>2. ASSUME UNCHANGED <<stream, done, dlq>>,
             \A id \in Ids : Live(id) => Live(id)',
             \A v \in Workers : pc'[v] \in {"notify", "ack"} =>
               pc[v] = pc'[v] /\ job[v] = job'[v]
      PROVE  LossInv'
  BY <1>1, <1>2, <1>a DEF Ids
<1>3. ASSUME NEW w \in Workers, ReadNew(w) PROVE LossInv'
  <2>1. UNCHANGED <<stream, done, dlq>> /\ cursor' = cursor + 1
        /\ pending' = pending \cup {cursor'}
        /\ pc'[w] \notin {"notify", "ack"}
        /\ \A v \in Workers \ {w} : pc'[v] = pc[v] /\ job'[v] = job[v]
    BY <1>3, <1>a DEF ReadNew
  <2>2. \A id \in Ids : Live(id) => Live(id)'
    BY <2>1, <1>a DEF Live, Ids
  <2> QED
    BY <1>2, <2>1, <2>2
<1>4. ASSUME NEW w \in Workers,
             Reclaim(w) \/ NextClaimed(w) \/ ReadNothing(w) \/ HandlerPermanent(w)
             \/ HandlerFails(w) \/ Fault(w) \/ Crash(w) \/ Restart(w)
      PROVE  LossInv'
  <2>1. UNCHANGED <<stream, cursor, pending, done, dlq>>
    BY <1>4 DEF Reclaim, NextClaimed, ReadNothing, HandlerPermanent, HandlerFails,
       FailHandler, Fault, InfrastructureFailure, ReclaimFails, ReadFails, Crash, Restart
  <2>2. /\ pc'[w] \notin {"notify", "ack"}
        /\ \A v \in Workers \ {w} : pc'[v] = pc[v] /\ job'[v] = job[v]
    <3>1. CASE Reclaim(w)
      BY <3>1, <1>a DEF Reclaim
    <3>2. CASE NextClaimed(w)
      BY <3>2, <1>a DEF NextClaimed
    <3>3. CASE ReadNothing(w) \/ Crash(w) \/ Restart(w) \/ ReclaimFails(w) \/ ReadFails(w)
      BY <3>3, <1>a DEF ReadNothing, Crash, Restart, ReclaimFails, ReadFails
    <3>4. CASE HandlerPermanent(w)
      BY <3>4, <1>a DEF HandlerPermanent
    <3>5. CASE HandlerFails(w)
      BY <3>5, <1>a DEF HandlerFails, FailHandler
    <3>6. CASE InfrastructureFailure(w)
      BY <3>6, <1>a DEF InfrastructureFailure
    <3> QED
      BY <1>4, <3>1, <3>2, <3>3, <3>4, <3>5, <3>6 DEF Fault
  <2>3. \A id \in Ids : Live(id) => Live(id)'
    BY <2>1 DEF Live
  <2> QED
    BY <1>2, <2>1, <2>2, <2>3
<1>5. ASSUME NEW id \in pending, LeaseExpires(id) PROVE LossInv'
  BY <1>2, <1>5 DEF LeaseExpires, Live
<1>6. CASE UNCHANGED queueVars
  BY <1>2, <1>6 DEF queueVars, Live
<1>7. ASSUME NEW e \in Envelope, stream' = Append(stream, e),
             UNCHANGED <<cursor, pending, done, dlq>>
      PROVE  /\ Len(stream') \in Nat /\ Len(stream) <= Len(stream')
             /\ \A id \in Ids : stream'[id] = stream[id]
             /\ \A id \in Ids : Live(id) => Live(id)'
             /\ \A id \in Ids' \ Ids : Live(id)' /\ stream'[id] = e
             /\ \E id \in Ids' \ Ids : TRUE
             /\ done \subseteq done' /\ dlq \subseteq dlq'
  <2>1. Len(stream') = Len(stream) + 1 /\ stream'[Len(stream) + 1] = e
        /\ \A id \in Ids : stream'[id] = stream[id]
    BY <1>7 DEF Ids, TypeOK
  <2>2. \A id \in Ids : Live(id) => Live(id)'
    BY <1>7 DEF Live
  <2>3. Ids' = Ids \cup {Len(stream) + 1} /\ Len(stream) + 1 \notin Ids
    BY <2>1, <1>a DEF Ids
  <2>4. ASSUME NEW id \in Ids' \ Ids PROVE Live(id)' /\ stream'[id] = e
    BY <1>7, <1>a, <2>1, <2>3 DEF Live
  <2>5. \E id \in Ids' \ Ids : TRUE
    BY <2>3
  <2>6. Len(stream') \in Nat /\ Len(stream) <= Len(stream')
    BY <1>a, <2>1
  <2> QED
    BY <1>7, <2>1, <2>2, <2>4, <2>5, <2>6
<1>8. ASSUME NEW s \in Submissions, Submit(s) PROVE LossInv'
  <2>1. /\ UNCHANGED <<cursor, pending, dlq, job, done, pc>>
        /\ stream' = Append(stream, [sub |-> s, attempt |-> 0])
        /\ [sub |-> s, attempt |-> 0] \in Envelope
    BY <1>8 DEF Submit, Envelope
  <2> QED
    BY <1>1, <1>7, <2>1
<1>9. ASSUME NEW w \in Workers, Requeue(w) PROVE LossInv'
  <2>1. /\ UNCHANGED <<cursor, pending, dlq, job, done>>
        /\ pc[w] = "requeue" /\ pc' = [pc EXCEPT ![w] = "ack"]
        /\ stream' = Append(stream, [sub |-> stream[job[w].id].sub,
                                     attempt |-> job[w].attempt])
    BY <1>9 DEF Requeue, Entry
  <2>2. [sub |-> stream[job[w].id].sub, attempt |-> job[w].attempt] \in Envelope
    BY <2>1, HeldEntry DEF Envelope, Job, Busy
  <2>3. Replaced(job[w].id)'
    <3> DEFINE e == [sub |-> stream[job[w].id].sub, attempt |-> job[w].attempt]
    <3>0. e.sub = stream[job[w].id].sub
      OBVIOUS
    <3> HIDE DEF e
    <3>1. PICK n \in Ids' \ Ids : Live(n)' /\ stream'[n].sub = stream[job[w].id].sub
      <4>1. PICK n \in Ids' \ Ids : Live(n)' /\ stream'[n] = e
        BY <1>7, <2>1, <2>2 DEF e
      <4> QED
        BY <3>0, <4>1
    <3>2. job[w].id \in Ids /\ stream'[job[w].id] = stream[job[w].id]
      BY <1>7, <1>a, <2>1, <2>2 DEF Busy
    <3>3. n > job[w].id
      BY <1>7, <1>a, <2>1, <2>2, <3>1, <3>2 DEF Ids
    <3> QED
      BY <2>1, <3>1, <3>2, <3>3 DEF Replaced
  <2> QED
    BY <1>1, <1>7, <1>a, <2>1, <2>2, <2>3
<1>10. ASSUME NEW w \in Workers, HandlerReturns(w) PROVE LossInv'
  <2>1. /\ UNCHANGED <<stream, cursor, pending, dlq, job>>
        /\ done' = done \cup {stream[job[w].id].sub}
        /\ pc' = [pc EXCEPT ![w] = "ack"]
    BY <1>10 DEF HandlerReturns, Entry
  <2>2. Settled(job[w].id)' /\ \A id \in Ids : Live(id) => Live(id)'
    BY <2>1 DEF Settled, Live
  <2> QED
    BY <1>1, <1>a, <2>1, <2>2 DEF Ids
<1>11. ASSUME NEW w \in Workers, Bury(w) PROVE LossInv'
  <2>1. /\ UNCHANGED <<stream, cursor, pending, done, job>>
        /\ dlq' = dlq \cup {[sub |-> stream[job[w].id].sub, attempt |-> job[w].attempt,
                             why |-> job[w].why]}
        /\ pc' = [pc EXCEPT ![w] = "notify"]
    BY <1>11 DEF Bury, Entry
  <2>2. stream[job[w].id].sub \in Buried'
    <3> DEFINE d == [sub |-> stream[job[w].id].sub, attempt |-> job[w].attempt,
                     why |-> job[w].why]
    <3>1. d \in dlq' /\ d.sub = stream[job[w].id].sub
      BY <2>1
    <3> HIDE DEF d
    <3> QED
      BY <3>1 DEF Buried
  <2>3. Settled(job[w].id)' /\ \A id \in Ids : Live(id) => Live(id)'
    BY <2>1, <2>2 DEF Settled, Live
  <2> QED
    BY <1>1, <1>a, <2>1, <2>3 DEF Ids
<1>12. ASSUME NEW w \in Workers, Notify(w) PROVE LossInv'
  <2>1. /\ UNCHANGED <<stream, cursor, pending, done, dlq, job>>
        /\ pc[w] = "notify" /\ pc' = [pc EXCEPT ![w] = "ack"]
    BY <1>12 DEF Notify
  <2>2. Buried' = Buried /\ \A id \in Ids : Live(id) => Live(id)'
    BY <2>1 DEF Buried, Live
  <2>3. Settled(job[w].id)'
    BY <2>1, <2>2 DEF LossInv, Settled
  <2> QED
    BY <1>1, <1>a, <2>1, <2>2, <2>3 DEF Ids
<1>13. ASSUME NEW w \in Workers, Ack(w) PROVE LossInv'
  <2> DEFINE gone == job[w].id
  <2>1. /\ UNCHANGED <<stream, cursor, done, dlq>>
        /\ pc[w] = "ack" /\ pending' = pending \ {gone}
        /\ \A v \in Workers \ {w} : pc'[v] = pc[v] /\ job'[v] = job[v]
        /\ pc'[w] \notin {"notify", "ack"}
    BY <1>13, <1>a DEF Ack, AfterEntry
  <2>2. gone \in Ids /\ (Settled(gone) \/ Replaced(gone))
    BY <1>a, <2>1 DEF LossInv, Busy
  <2>3. Ids' = Ids /\ Buried' = Buried
    BY <2>1 DEF Ids, Buried
  <2>4. \A id \in Ids : Settled(id) => Settled(id)'
    BY <2>1, <2>3 DEF Settled
  <2>5. \A id \in Ids : Live(id) => Live(id)' \/ id = gone
    BY <2>1 DEF Live
  <2>6. \A id \in Ids : Covered(id) => Settled(id)' \/ Covered(id)'
    BY <2>1, <2>2, <2>3, <2>4, <2>5 DEF Covered, Settled, Replaced, Ids
  <2>7. \A id \in Ids : Replaced(id) => Settled(id)' \/ Replaced(id)'
    BY <2>1, <2>2, <2>3, <2>4, <2>5 DEF Settled, Replaced, Ids
  <2>8. ASSUME NEW v \in Workers, pc'[v] = "notify" PROVE Settled(job[v].id)'
    BY <1>a, <2>1, <2>3, <2>8 DEF LossInv, Busy, Settled
  <2>9. ASSUME NEW v \in Workers, pc'[v] = "ack"
        PROVE  Settled(job[v].id)' \/ Replaced(job[v].id)'
    <3>1. PICK id \in Ids : /\ id = job[v].id /\ job'[v] = job[v]
                            /\ Settled(id) \/ Replaced(id)
      BY <1>a, <2>1, <2>9 DEF LossInv, Busy
    <3>2. Settled(id)' \/ Replaced(id)'
      BY <2>4, <2>7, <3>1
    <3> QED
      BY <3>1, <3>2 DEF Settled, Replaced
  <2> QED
    BY <2>3, <2>4, <2>6, <2>8, <2>9 DEF LossInv
<1> QED
  BY <1>3, <1>4, <1>5, <1>6, <1>8, <1>9, <1>10, <1>11, <1>12, <1>13
     DEF Next, Poll, Handler, Settle

(* No crash, fault, late lease or duplicate delivery loses a submission.    *)
THEOREM NothingLost == Spec => []NoSilentLoss
<1>1. Init => LossInv
  BY DEF Init, LossInv, Ids
<1>2. LossInv => NoSilentLoss
  BY DEF LossInv, NoSilentLoss, Submitted, Settled, Covered, Open
<1> QED
  BY <1>1, <1>2, LossStep, TypeCorrect, PTL DEF Spec

(* Every step keeps the attempt of an envelope at the failures counted for it. *)
LEMMA AttemptStep == TypeOK /\ AttemptInv /\ [Next]_queueVars => AttemptInv'
<1> SUFFICES ASSUME TypeOK, AttemptInv, [Next]_queueVars PROVE AttemptInv'
  OBVIOUS
<1> DEFINE counted == {"handle", "requeue", "bury"}
<1>a. /\ MaxAttempts \in Nat
      /\ stream \in Seq(Envelope) /\ Len(stream) \in Nat /\ cursor \in 0 .. Len(stream)
      /\ \A id \in Ids : stream[id].sub \in Submissions /\ stream[id].attempt \in Nat
      /\ \A w \in Workers : pc[w] \in Busy => job[w].id \in Ids
      /\ \A w \in Workers : job[w].attempt \in Nat
      /\ pc \in [Workers -> Locations] /\ job \in [Workers -> Job]
      /\ failures \in [Submissions -> Nat]
  <2>1. MaxAttempts \in Nat
    BY QueueAssumption
  <2>2. \A id \in Ids : stream[id] \in Envelope
    BY DEF TypeOK, Ids
  <2>3. \A id \in Ids : stream[id].sub \in Submissions /\ stream[id].attempt \in Nat
    BY <2>2 DEF Envelope
  <2>4. \A w \in Workers : job[w] \in Job
    BY DEF TypeOK
  <2>5. \A w \in Workers : job[w].attempt \in Nat
    BY <2>4 DEF Job
  <2> QED
    BY <2>1, <2>3, <2>5 DEF TypeOK, Ids
<1>b. /\ \A id \in Ids : stream[id].attempt < MaxAttempts
                         /\ stream[id].attempt <= failures[stream[id].sub]
      /\ \A w \in Workers : pc[w] = "handle" => job[w].attempt = stream[job[w].id].attempt + 1
      /\ \A w \in Workers : pc[w] = "requeue" =>
           job[w].attempt < MaxAttempts /\ job[w].attempt <= failures[stream[job[w].id].sub]
      /\ \A w \in Workers : pc[w] = "bury" /\ job[w].why = "exhausted" =>
           job[w].attempt = MaxAttempts /\ failures[stream[job[w].id].sub] >= MaxAttempts
      /\ DeadLetterEarned
  BY DEF AttemptInv, Failed
<1>1. ASSUME UNCHANGED <<stream, dlq, failures>>,
             \A v \in Workers : pc'[v] \in counted => pc[v] = pc'[v] /\ job[v] = job'[v]
      PROVE  AttemptInv'
  BY <1>1, <1>b DEF AttemptInv, Failed, DeadLetterEarned, Ids
<1>2. ASSUME NEW w \in Workers,
             Reclaim(w) \/ ReadNothing(w) \/ HandlerReturns(w) \/ Notify(w) \/ Ack(w)
             \/ Fault(w) \/ Crash(w) \/ Restart(w)
      PROVE  AttemptInv'
  <2>1. UNCHANGED <<stream, dlq, failures>>
    BY <1>2 DEF Reclaim, ReadNothing, HandlerReturns, Notify, Ack, Fault,
                InfrastructureFailure, ReclaimFails, ReadFails, Crash, Restart
  <2>2. /\ pc'[w] \notin counted
        /\ \A v \in Workers \ {w} : pc'[v] = pc[v] /\ job'[v] = job[v]
    <3>1. CASE Reclaim(w)
      BY <3>1, <1>a DEF Reclaim
    <3>2. CASE Ack(w)
      BY <3>2, <1>a DEF Ack, AfterEntry
    <3>3. CASE ReadNothing(w) \/ Crash(w) \/ Restart(w) \/ ReclaimFails(w) \/ ReadFails(w)
      BY <3>3, <1>a DEF ReadNothing, Crash, Restart, ReclaimFails, ReadFails
    <3>4. CASE HandlerReturns(w) \/ Notify(w)
      BY <3>4, <1>a DEF HandlerReturns, Notify
    <3>5. CASE InfrastructureFailure(w)
      BY <3>5, <1>a DEF InfrastructureFailure
    <3> QED
      BY <1>2, <3>1, <3>2, <3>3, <3>4, <3>5 DEF Fault
  <2> QED
    BY <1>1, <2>1, <2>2
<1>3. ASSUME NEW id \in pending, LeaseExpires(id) PROVE AttemptInv'
  BY <1>1, <1>3 DEF LeaseExpires
<1>4. CASE UNCHANGED queueVars
  BY <1>1, <1>4 DEF queueVars
<1>5. ASSUME NEW w \in Workers, NextClaimed(w) PROVE AttemptInv'
  <2>1. UNCHANGED <<stream, dlq, failures>>
        /\ \A v \in Workers \ {w} : pc'[v] = pc[v] /\ job'[v] = job[v]
    BY <1>5, <1>a DEF NextClaimed
  <2>2. \/ pc'[w] = "read"
        \/ pc'[w] = "handle" /\ job'[w].attempt = stream[job'[w].id].attempt + 1
    BY <1>5, <1>a DEF NextClaimed, Entry
  <2> QED
    BY <1>b, <2>1, <2>2 DEF AttemptInv, Failed, DeadLetterEarned, Ids
<1>6. ASSUME NEW w \in Workers, ReadNew(w) PROVE AttemptInv'
  <2>1. UNCHANGED <<stream, dlq, failures>>
        /\ \A v \in Workers \ {w} : pc'[v] = pc[v] /\ job'[v] = job[v]
    BY <1>6, <1>a DEF ReadNew
  <2>2. \/ pc'[w] = "bury" /\ job'[w].why = "malformed"
        \/ pc'[w] = "handle" /\ job'[w].attempt = stream[job'[w].id].attempt + 1
    BY <1>6, <1>a DEF ReadNew, Entry
  <2> QED
    BY <1>b, <2>1, <2>2 DEF AttemptInv, Failed, DeadLetterEarned, Ids
<1>7. ASSUME NEW w \in Workers, HandlerPermanent(w) PROVE AttemptInv'
  <2>1. UNCHANGED <<stream, dlq, failures>>
        /\ \A v \in Workers \ {w} : pc'[v] = pc[v] /\ job'[v] = job[v]
    BY <1>7, <1>a DEF HandlerPermanent
  <2>2. pc'[w] = "bury" /\ job'[w].why = "permanent"
    BY <1>7, <1>a DEF HandlerPermanent, Job
  <2> QED
    BY <1>b, <2>1, <2>2 DEF AttemptInv, Failed, DeadLetterEarned, Ids
<1>8. ASSUME NEW w \in Workers, HandlerFails(w) PROVE AttemptInv'
  <2> DEFINE sub == stream[job[w].id].sub
  <2>1. /\ UNCHANGED <<stream, dlq>> /\ pc[w] = "handle"
        /\ failures' = [failures EXCEPT ![sub] = @ + 1]
        /\ \A v \in Workers \ {w} : pc'[v] = pc[v] /\ job'[v] = job[v]
    BY <1>8, <1>a DEF HandlerFails, FailHandler, Entry
  <2>2. /\ job[w].id \in Ids /\ sub \in Submissions
        /\ job[w].attempt <= failures[sub] + 1 /\ job[w].attempt <= MaxAttempts
    <3>1. job[w].id \in Ids
      BY <1>a, <2>1 DEF Busy
    <3>2. sub \in Submissions /\ failures[sub] \in Nat /\ stream[job[w].id].attempt \in Nat
      BY <1>a, <3>1
    <3>3. /\ stream[job[w].id].attempt < MaxAttempts
          /\ stream[job[w].id].attempt <= failures[sub]
          /\ job[w].attempt = stream[job[w].id].attempt + 1
      BY <1>b, <2>1, <3>1
    <3> QED
      BY <1>a, <3>1, <3>2, <3>3
  <2>3. failures'[sub] = failures[sub] + 1
        /\ \A s \in Submissions : failures'[s] \in Nat /\ failures'[s] >= failures[s]
    BY <1>a, <2>1, <2>2, SMTT(30)
  <2>4. /\ pc'[w] \in {"bury", "requeue"}
        /\ job'[w].id = job[w].id /\ job'[w].attempt = job[w].attempt
        /\ pc'[w] = "bury" => job[w].attempt >= MaxAttempts
        /\ pc'[w] = "requeue" => job[w].attempt < MaxAttempts
    <3>1. CASE job[w].attempt >= MaxAttempts
      BY <1>8, <1>a, <3>1 DEF HandlerFails, FailHandler, Job
    <3>2. CASE ~(job[w].attempt >= MaxAttempts)
      BY <1>8, <1>a, <3>2 DEF HandlerFails, FailHandler
    <3> QED
      BY <3>1, <3>2
  <2>5. \A id \in Ids : stream[id].attempt <= failures'[stream[id].sub]
    BY <1>a, <1>b, <2>3
  <2>6. ASSUME NEW v \in Workers, pc'[v] = "requeue"
        PROVE  job'[v].attempt < MaxAttempts
               /\ job'[v].attempt <= failures'[stream[job'[v].id].sub]
    <3>1. CASE v = w
      BY <1>a, <2>2, <2>3, <2>4, <2>6, <3>1
    <3>2. CASE v # w
      <4>1. /\ pc[v] = "requeue" /\ job'[v] = job[v] /\ job[v].id \in Ids
            /\ stream[job[v].id].sub \in Submissions
        BY <1>a, <2>1, <2>6, <3>2 DEF Busy
      <4> QED
        BY <1>a, <1>b, <2>3, <4>1
    <3> QED
      BY <3>1, <3>2
  <2>7. ASSUME NEW v \in Workers, pc'[v] = "bury", job'[v].why = "exhausted"
        PROVE  job'[v].attempt = MaxAttempts
               /\ failures'[stream[job'[v].id].sub] >= MaxAttempts
    <3>1. CASE v = w
      BY <1>a, <2>2, <2>3, <2>4, <2>7, <3>1
    <3>2. CASE v # w
      <4>1. /\ pc[v] = "bury" /\ job'[v] = job[v] /\ job[v].id \in Ids
            /\ stream[job[v].id].sub \in Submissions
        BY <1>a, <2>1, <2>7, <3>2 DEF Busy
      <4> QED
        BY <1>a, <1>b, <2>3, <2>7, <4>1
    <3> QED
      BY <3>1, <3>2
  <2>8. DeadLetterEarned'
    <3>1. \A d \in dlq : d.sub \in Submissions
      BY DEF TypeOK, DeadLetter
    <3> QED
      BY <1>a, <1>b, <2>1, <2>3, <3>1, SMTT(30) DEF DeadLetterEarned
  <2>9. \A v \in Workers : pc'[v] = "handle" => job'[v].attempt = stream[job'[v].id].attempt + 1
    BY <1>b, <2>1, <2>4
  <2> QED
    BY <1>b, <2>1, <2>5, <2>6, <2>7, <2>8, <2>9 DEF AttemptInv, Failed, Ids
<1>9. ASSUME NEW e \in Envelope, stream' = Append(stream, e),
             e.attempt < MaxAttempts, e.attempt <= failures[e.sub],
             UNCHANGED <<dlq, failures>>,
             \A v \in Workers : pc'[v] \in counted => pc[v] = pc'[v] /\ job[v] = job'[v]
      PROVE  AttemptInv'
  <2>1. \A id \in Ids : stream'[id] = stream[id]
    BY <1>9, <1>a DEF Ids
  <2>2. \A id \in Ids' : id \in Ids \/ stream'[id] = e
    BY <1>9, <1>a DEF Ids
  <2>3. ASSUME NEW v \in Workers, pc'[v] \in counted
        PROVE  pc'[v] = pc[v] /\ job'[v] = job[v] /\ stream'[job'[v].id] = stream[job[v].id]
    BY <1>9, <1>a, <2>1, <2>3 DEF Busy
  <2> QED
    <3>1. \A id \in Ids' : stream'[id].attempt < MaxAttempts
                            /\ stream'[id].attempt <= failures'[stream'[id].sub]
      BY <1>9, <1>b, <2>1, <2>2
    <3>2. \A v \in Workers : pc'[v] = "handle" =>
            job'[v].attempt = stream'[job'[v].id].attempt + 1
      BY <1>b, <2>3
    <3>3. \A v \in Workers : pc'[v] = "requeue" =>
            job'[v].attempt < MaxAttempts
            /\ job'[v].attempt <= failures'[stream'[job'[v].id].sub]
      BY <1>9, <1>b, <2>3
    <3>4. \A v \in Workers : pc'[v] = "bury" /\ job'[v].why = "exhausted" =>
            job'[v].attempt = MaxAttempts
            /\ failures'[stream'[job'[v].id].sub] >= MaxAttempts
      BY <1>9, <1>b, <2>3
    <3>5. DeadLetterEarned'
      BY <1>9, <1>b DEF DeadLetterEarned
    <3> QED
      BY <3>1, <3>2, <3>3, <3>4, <3>5 DEF AttemptInv, Failed
<1>10. ASSUME NEW s \in Submissions, Submit(s) PROVE AttemptInv'
  <2> DEFINE e == [sub |-> s, attempt |-> 0]
  <2>1. e \in Envelope /\ e.sub = s /\ e.attempt = 0
    BY DEF Envelope
  <2>2. stream' = Append(stream, e) /\ UNCHANGED <<dlq, failures, pc, job>>
    BY <1>10 DEF Submit
  <2>3. 0 < MaxAttempts /\ 0 <= failures[s]
    BY <1>a, QueueAssumption
  <2> HIDE DEF e
  <2> QED
    BY <1>9, <2>1, <2>2, <2>3
<1>11. ASSUME NEW w \in Workers, Requeue(w) PROVE AttemptInv'
  <2> DEFINE e == [sub |-> stream[job[w].id].sub, attempt |-> job[w].attempt]
  <2>1. /\ pc[w] = "requeue" /\ pc' = [pc EXCEPT ![w] = "ack"]
        /\ stream' = Append(stream, e) /\ UNCHANGED <<dlq, failures, job>>
    BY <1>11 DEF Requeue, Entry
  <2>2. e \in Envelope /\ e.sub = stream[job[w].id].sub /\ e.attempt = job[w].attempt
    BY <2>1, <1>a DEF Envelope, Busy
  <2> HIDE DEF e
  <2> QED
    BY <1>9, <1>a, <1>b, <2>1, <2>2
<1>12. ASSUME NEW w \in Workers, Bury(w) PROVE AttemptInv'
  <2> DEFINE d == [sub |-> stream[job[w].id].sub, attempt |-> job[w].attempt,
                   why |-> job[w].why]
  <2>1. /\ pc[w] = "bury" /\ pc' = [pc EXCEPT ![w] = "notify"]
        /\ dlq' = dlq \cup {d} /\ UNCHANGED <<stream, failures, job>>
    BY <1>12 DEF Bury, Entry
  <2>2. /\ d.sub = stream[job[w].id].sub /\ d.attempt = job[w].attempt
        /\ d.why = job[w].why
    OBVIOUS
  <2> HIDE DEF d
  <2>3. d.why = "exhausted" => d.attempt = MaxAttempts /\ failures[d.sub] >= MaxAttempts
    BY <1>b, <2>1, <2>2
  <2>4. DeadLetterEarned'
    BY <1>b, <2>1, <2>3 DEF DeadLetterEarned
  <2> QED
    BY <1>a, <1>b, <2>1, <2>4 DEF AttemptInv, Failed, Ids
<1> QED
  BY <1>2, <1>3, <1>4, <1>5, <1>6, <1>7, <1>8, <1>10, <1>11, <1>12
     DEF Next, Poll, Handler, Settle

(* A submission is given up as exhausted only after max_attempts handler    *)
(* runs of it have failed.                                                  *)
THEOREM AttemptsEarned == Spec => []DeadLetterEarned
<1>1. Init => AttemptInv
  BY DEF Init, AttemptInv, Ids, DeadLetterEarned
<1>2. AttemptInv => DeadLetterEarned
  BY DEF AttemptInv
<1> QED
  BY <1>1, <1>2, AttemptStep, TypeCorrect, PTL DEF Spec

(* Every entry of the stream, redelivered or not, has an attempt left.      *)
THEOREM AttemptsLeft == Spec => []AttemptsBounded
<1>1. Init => AttemptInv
  BY DEF Init, AttemptInv, Ids, DeadLetterEarned
<1>2. AttemptInv => AttemptsBounded
  BY DEF AttemptInv, AttemptsBounded
<1> QED
  BY <1>1, <1>2, AttemptStep, TypeCorrect, PTL DEF Spec

-------------------------------------------------------------------------------
(* The backend implements Delivery: with the submissions that have a live    *)
(* entry as the open ones, every command it sends to Redis is a step of      *)
(* Delivery or changes nothing there.  The one place where this could fail   *)
(* is the XACK that takes the last live entry of a submission away; that     *)
(* nothing is lost says it is settled then.                                  *)

(* An entry the stream already had keeps what it says.                      *)
LEMMA Appended ==
  ASSUME TypeOK, NEW e \in Envelope, stream' = Append(stream, e),
         UNCHANGED <<cursor, pending>>
  PROVE  Open' = Open \cup {e.sub}
<1>1. /\ Len(stream) \in Nat /\ Len(stream') = Len(stream) + 1
      /\ \A id \in Ids : stream'[id] = stream[id]
      /\ stream'[Len(stream) + 1] = e
      /\ cursor \in Nat /\ cursor <= Len(stream)
  BY DEF TypeOK, Ids
<1>2. Ids' = Ids \cup {Len(stream) + 1} /\ Live(Len(stream) + 1)'
  BY <1>1 DEF Ids, Live
<1>3. \A id \in Ids : Live(id)' = Live(id)
  BY DEF Live
<1>4. ASSUME NEW s \in Open' PROVE s \in Open \cup {e.sub}
  <2>1. PICK id \in Ids' : Live(id)' /\ stream'[id].sub = s
    BY <1>4 DEF Open
  <2>2. CASE id \in Ids
    BY <1>1, <1>3, <2>1, <2>2 DEF Open
  <2>3. CASE id = Len(stream) + 1
    BY <1>1, <2>1, <2>3
  <2> QED
    BY <1>2, <2>2, <2>3
<1>5. ASSUME NEW s \in Open PROVE s \in Open'
  <2>1. PICK id \in Ids : Live(id) /\ stream[id].sub = s
    BY <1>5 DEF Open
  <2> QED
    BY <1>1, <1>2, <1>3, <2>1 DEF Open
<1>6. e.sub \in Open'
  <2> DEFINE n == Len(stream) + 1
  <2>1. n \in Ids' /\ stream'[n].sub = e.sub
    BY <1>1, <1>2
  <2>2. n \in pending' \/ n > cursor'
    BY <1>1
  <2> HIDE DEF n
  <2> QED
    BY <2>1, <2>2 DEF Open, Live
<1> QED
  BY <1>4, <1>5, <1>6

(* What a step does that neither appends nor acknowledges.                  *)
LEMMA SameOpen ==
  ASSUME TypeOK, UNCHANGED stream, \A id \in Ids : Live(id)' = Live(id)
  PROVE  Open' = Open
BY DEF Open, Ids

(* Every step of the backend is a step of Delivery.                         *)
LEMMA DeliveryStep ==
  TypeOK /\ NoSilentLoss /\ NoSilentLoss' /\ [Next]_queueVars => [D!Next]_(D!vars)
<1> SUFFICES ASSUME TypeOK, NoSilentLoss, NoSilentLoss', [Next]_queueVars
             PROVE  [D!Next]_(D!vars)
  OBVIOUS
<1> DEFINE Quiet == UNCHANGED <<Open, done, Buried>>
<1>1. ASSUME NEW s \in Submissions, Open' = Open \cup {s}, UNCHANGED <<done, dlq>>
      PROVE  Quiet \/ D!Next
  <2>1. Buried' = Buried
    BY <1>1 DEF Buried
  <2>2. CASE s \in Open
    BY <1>1, <2>1, <2>2
  <2>3. CASE s \notin Open
    BY <1>1, <2>1, <2>3 DEF D!Next, D!Accept
  <2> QED
    BY <2>2, <2>3
<1>2. ASSUME NEW w \in Workers, pc[w] \in Busy
      PROVE  LET s == stream[job[w].id].sub
             IN s \in Submissions /\ s \in Open \cup done \cup Buried
  <2>1. job[w].id \in Ids /\ stream[job[w].id] \in Envelope
    BY <1>2, HeldEntry DEF TypeOK, Ids
  <2> QED
    BY <2>1 DEF NoSilentLoss, Submitted, Envelope
<1>3. ASSUME NEW s \in Submissions, Submit(s) PROVE Quiet \/ D!Next
  <2>1. [sub |-> s, attempt |-> 0] \in Envelope
    BY DEF Envelope
  <2>2. Open' = Open \cup {s}
    BY <1>3, <2>1, Appended DEF Submit
  <2> QED
    BY <1>1, <1>3, <2>2 DEF Submit
<1>4. ASSUME NEW w \in Workers, Requeue(w) PROVE Quiet \/ D!Next
  <2> DEFINE s == stream[job[w].id].sub
             e == [sub |-> s, attempt |-> job[w].attempt]
  <2>1. pc[w] \in Busy
    BY <1>4 DEF Requeue, Busy
  <2>2. s \in Submissions /\ e \in Envelope
    BY <1>2, <2>1, HeldEntry DEF Envelope, Job
  <2>3. stream' = Append(stream, e)
    BY <1>4 DEF Requeue, Entry
  <2>4. Open' = Open \cup {s}
    BY <1>4, <2>2, <2>3, Appended DEF Requeue
  <2> QED
    BY <1>1, <1>4, <2>2, <2>4 DEF Requeue
<1>5. ASSUME NEW w \in Workers, HandlerReturns(w) PROVE Quiet \/ D!Next
  <2> DEFINE s == stream[job[w].id].sub
  <2>1. s \in Submissions /\ s \in Open \cup done \cup Buried
    BY <1>2, <1>5 DEF HandlerReturns, Busy
  <2>2. done' = done \cup {s} /\ UNCHANGED <<stream, cursor, pending, dlq>>
    BY <1>5 DEF HandlerReturns, Entry
  <2>3. Open' = Open /\ Buried' = Buried
    BY <2>2 DEF Open, Buried, Ids, Live
  <2> QED
    BY <2>1, <2>2, <2>3 DEF D!Next, D!Complete, D!Settled
<1>6. ASSUME NEW w \in Workers, Bury(w) PROVE Quiet \/ D!Next
  <2> DEFINE s == stream[job[w].id].sub
             d == [sub |-> s, attempt |-> job[w].attempt, why |-> job[w].why]
  <2>1. s \in Submissions /\ s \in Open \cup done \cup Buried
    BY <1>2, <1>6 DEF Bury, Busy
  <2>2. dlq' = dlq \cup {d} /\ d.sub = s /\ UNCHANGED <<stream, cursor, pending, done>>
    BY <1>6 DEF Bury, Entry
  <2>3. Open' = Open
    BY <2>2 DEF Open, Ids, Live
  <2>4. Buried' = Buried \cup {s}
    <3> HIDE DEF s, d
    <3> QED
      BY <2>2 DEF Buried
  <2> QED
    BY <2>1, <2>2, <2>3, <2>4 DEF D!Next, D!Bury, D!Settled
<1>7. ASSUME NEW w \in Workers, Ack(w) PROVE Quiet \/ D!Next
  <2> DEFINE s == stream[job[w].id].sub
  <2>1. s \in Submissions
    BY <1>2, <1>7 DEF Ack, Busy
  <2>2. pending' = pending \ {job[w].id} /\ UNCHANGED <<stream, cursor, done, dlq>>
    BY <1>7 DEF Ack
  <2>3. Open' \subseteq Open /\ Open \subseteq Open' \cup {s}
    BY <2>2 DEF Open, Ids, Live
  <2>4. Buried' = Buried
    BY <2>2 DEF Buried
  <2>5. CASE s \in Open' \/ s \notin Open
    BY <2>2, <2>3, <2>4, <2>5
  <2>6. CASE s \in Open /\ s \notin Open'
    <3>1. s \in Submitted'
      BY <2>2, <2>6 DEF Open, Submitted, Ids
    <3>2. s \in done \cup Buried
      BY <2>2, <2>4, <2>6, <3>1 DEF NoSilentLoss
    <3>3. Open' = Open \ {s}
      BY <2>3, <2>6
    <3> HIDE DEF s
    <3> QED
      BY <2>1, <2>2, <2>4, <2>6, <3>2, <3>3 DEF D!Next, D!Close, D!Settled
  <2> QED
    BY <2>5, <2>6
<1>8. ASSUME NEW w \in Workers, ReadNew(w) PROVE Quiet
  <2>1. cursor' = cursor + 1 /\ pending' = pending \cup {cursor + 1}
        /\ UNCHANGED <<stream, done, dlq>>
    BY <1>8 DEF ReadNew
  <2>2. cursor \in Nat
    BY DEF TypeOK
  <2>3. \A id \in Ids : Live(id)' = Live(id)
    BY <2>1, <2>2 DEF Live, Ids
  <2> QED
    BY <2>1, <2>3, SameOpen DEF Buried
<1>9. ASSUME UNCHANGED <<stream, cursor, pending, done, dlq>> PROVE Quiet
  BY <1>9 DEF Open, Buried, Ids, Live
<1>10. ASSUME NEW w \in Workers,
              \/ Reclaim(w) \/ NextClaimed(w) \/ ReadNothing(w)
              \/ HandlerPermanent(w) \/ HandlerFails(w) \/ Notify(w) \/ Fault(w)
              \/ Crash(w) \/ Restart(w)
       PROVE  UNCHANGED <<stream, cursor, pending, done, dlq>>
  BY <1>10 DEF Reclaim, NextClaimed, ReadNothing, HandlerPermanent, HandlerFails,
               FailHandler, Notify, Fault, InfrastructureFailure, ReclaimFails, ReadFails,
               Crash, Restart
<1>11. ASSUME NEW id \in pending, LeaseExpires(id) PROVE Quiet
  BY <1>9, <1>11 DEF LeaseExpires
<1>12. ASSUME UNCHANGED queueVars PROVE Quiet
  BY <1>9, <1>12 DEF queueVars
<1> QED
  BY <1>3, <1>4, <1>5, <1>6, <1>7, <1>8, <1>9, <1>10, <1>11, <1>12
     DEF Next, Poll, Handler, Settle, D!vars

(* The backend keeps the promise of Delivery, with any number of workers,   *)
(* submissions, crashes, Redis errors and lost leases.                      *)
THEOREM ImplementsDelivery == Spec => DeliverySafe
<1>1. Init => D!Init
  BY DEF Init, D!Init, Open, Buried, Ids
<1> QED
  BY <1>1, DeliveryStep, TypeCorrect, NothingLost, PTL DEF Spec, DeliverySafe, D!Safe

-------------------------------------------------------------------------------
(* The service. *)
Handling == {"fetch", "run", "enter", "work", "list", "post", "patch", "return", "raise"}
Alerting == {"fail", "alert"}
Successful == {"list", "post", "patch", "return"}

(* The service is at work for a worker only inside the queue's callbacks.    *)
Called ==
  /\ svc \in [Workers -> Handling \cup Alerting \cup {"start"}]
  /\ \A w \in Workers : /\ svc[w] \in Handling => pc[w] = "handle"
                        /\ svc[w] \in Alerting => pc[w] = "notify"

(* A handler past its run found or wrote the report, which stays when        *)
(* another run of the task ends badly; one that returns also has a comment.  *)
Reported ==
  /\ comments \in Nat
  /\ task = "SUCCESS" => report
  /\ \A w \in Workers :
       /\ svc[w] \in Successful => report
       /\ svc[w] = "patch" => comments > 0
       /\ svc[w] = "return" /\ PostComments /\ Entry(job[w].id).sub = Created => comments > 0
  /\ HandledHasReport

-------------------------------------------------------------------------------
(* The entries a worker has.  Unless a lease runs out under it, it has them  *)
(* alone, and they are pending until it acknowledges them.                   *)
Has(w) == IF pc[w] \in Busy THEN batch[w] \cup {job[w].id} ELSE batch[w]

Leased ==
  /\ \A w \in Workers : /\ Has(w) \subseteq pending \ stale
                        /\ pc[w] \in Busy => job[w].id \notin batch[w]
  /\ \A v, w \in Workers : v # w => Has(v) \cap Has(w) = {}

(* A worker that will acknowledge its entry without running the task again.  *)
Spent(w) == pc[w] = "ack" \/ svc[w] \in Successful \cup {"alert"}

(* An entry that will be handled.  That one is live is not enough: it could  *)
(* be the one a worker is about to acknowledge.                              *)
EntryWaits == \E id \in Ids : Live(id) /\ \A w \in Workers : Spent(w) => job[w].id # id

(* A task that is not finished has an entry that waits, as long as no lease  *)
(* ran out under a worker, or, as long as no process crashed and Redis did   *)
(* not fail, such an entry or a worker that carries the task on: the entry   *)
(* that worker has may be another's to acknowledge.                          *)
Carries(w) ==
  \/ svc[w] \in {"work", "raise", "fail"} \/ pc[w] \in {"requeue", "bury"}
  \/ pc[w] = "notify" /\ svc[w] = "start"

Continued ==
  /\ Submitted # {} => task # "absent"
  /\ overruns = 0 => Leased
  /\ Submitted # {} /\ task \notin Final =>
       /\ overruns = 0 => EntryWaits
       /\ crashes = 0 /\ faults = 0 => EntryWaits \/ \E w \in Workers : Carries(w)

-------------------------------------------------------------------------------
(* A worker that starts again, or that polls in vain or for the last time.   *)
Resets(w) == ComesBack(w) \/ PollFails(w)

(* The service is one user of the queue: each of its steps is one of the     *)
(* queue's or changes nothing there.                                         *)
LEMMA QueueSteps == [SystemNext]_systemVars => [Next]_queueVars
<1> SUFFICES ASSUME [SystemNext]_systemVars
             PROVE  [Next]_queueVars
  OBVIOUS
<1>1. CASE CreateTask \/ CancelTask
  BY <1>1 DEF CreateTask, CancelTask
<1>2. CASE SubmitTask
  BY <1>2, ReviewAssumption DEF SubmitTask, Next
<1>3. ASSUME NEW s \in Submissions, ResumeTask(s) PROVE Next
  BY <1>3 DEF ResumeTask, Next
<1>4. ASSUME NEW w \in Workers, Process(w) PROVE [Next]_queueVars
  BY <1>4 DEF Process, Load, Fetch, CallFails, RunBegin, RunEnter, RunSucceeds, RunFails,
              RunCancelled, ListComments, PostComment, PatchComment, Service,
              Returns, Raises, Handler, Next
<1>5. ASSUME NEW w \in Workers, DeadLettered(w) PROVE [Next]_queueVars
  BY <1>5 DEF DeadLettered, DeadLetterRead, DeadLetterFail, DeadLetterAlert, Service,
              Settle, Next
<1>6. ASSUME NEW w \in Workers, QueueStep(w) PROVE Next
  BY <1>6 DEF QueueStep, Settle, Next
<1>7. ASSUME NEW w \in Workers, Interrupted(w) \/ Resets(w) PROVE Next
  BY <1>7 DEF Interrupted, Resets, ComesBack, PollFails, ReclaimFails, ReadFails, Fault,
     Next
<1>8. ASSUME NEW id \in pending, LeaseRunsOut(id) PROVE Next
  BY <1>8 DEF LeaseRunsOut, Next
<1>9. CASE UNCHANGED systemVars
  BY <1>9 DEF systemVars
<1> QED
  BY <1>1, <1>2, <1>3, <1>4, <1>5, <1>6, <1>7, <1>8, <1>9 DEF SystemNext, WorkerStep, Resets

(* What is proved of the queue therefore holds of the service.               *)
THEOREM ServiceUsesQueue == SystemSpec => Spec
BY QueueSteps, PTL DEF SystemSpec, SystemInit, Spec

(* The kinds of steps, by where they leave a worker.                         *)
Serves(w) ==
  /\ Process(w) /\ ~(Returns(w) \/ Raises(w))
  /\ pc[w] = "handle" /\ UNCHANGED queueVars
  /\ \E to \in Handling : svc' = [svc EXCEPT ![w] = to]
Alerts(w) ==
  /\ DeadLetterRead(w) \/ DeadLetterFail(w)
  /\ pc[w] = "notify" /\ UNCHANGED queueVars
  /\ \E to \in Alerting : svc' = [svc EXCEPT ![w] = to]
Leaves(w) ==
  /\ Returns(w) \/ Raises(w) \/ DeadLetterAlert(w) \/ Interrupted(w)
  /\ svc' = [svc EXCEPT ![w] = "start"]
Others ==
  /\ \/ CreateTask \/ CancelTask \/ SubmitTask \/ (\E s \in Submissions : ResumeTask(s))
     \/ (\E id \in pending : LeaseRunsOut(id)) \/ UNCHANGED systemVars
  /\ UNCHANGED <<svc, pc, batch, job>>

LEMMA Kinds ==
  ASSUME [SystemNext]_systemVars
  PROVE  \/ Others
         \/ \E w \in Workers : \/ Serves(w) \/ Alerts(w) \/ Leaves(w)
                               \/ QueueStep(w) \/ Resets(w)
<1>1. CASE CreateTask \/ CancelTask \/ UNCHANGED systemVars
  BY <1>1 DEF CreateTask, CancelTask, systemVars, queueVars, Others
<1>2. CASE SubmitTask
  BY <1>2 DEF SubmitTask, Submit, Others
<1>3. ASSUME NEW s \in Submissions, ResumeTask(s) PROVE Others
  BY <1>3 DEF ResumeTask, Submit, Others
<1>4. ASSUME NEW w \in Workers, Process(w) PROVE Serves(w) \/ Leaves(w)
  <2>1. CASE Returns(w) \/ Raises(w)
    BY <2>1 DEF Returns, Raises, Leaves
  <2>2. CASE ~(Returns(w) \/ Raises(w))
    <3>1. pc[w] = "handle" /\ \E from : \E to \in Handling : Service(w, from, to)
      BY <1>4, <2>2
         DEF Process, Load, Fetch, CallFails, RunBegin, RunEnter, RunSucceeds, RunFails,
             RunCancelled, ListComments, PostComment, PatchComment, Reviewed,
             Handling
    <3> QED
      BY <1>4, <2>2, <3>1 DEF Service, Serves
  <2> QED
    BY <2>1, <2>2
<1>5. ASSUME NEW w \in Workers, DeadLettered(w) PROVE Alerts(w) \/ Leaves(w)
  BY <1>5 DEF DeadLettered, DeadLetterRead, DeadLetterFail, DeadLetterAlert, Service,
              Alerts, Leaves, Alerting
<1>6. ASSUME NEW w \in Workers, Interrupted(w) PROVE Leaves(w)
  BY <1>6 DEF Interrupted, Leaves
<1>7. ASSUME NEW id \in pending, LeaseRunsOut(id) PROVE Others
  BY <1>7 DEF LeaseRunsOut, LeaseExpires, Others
<1> QED
  BY <1>1, <1>2, <1>3, <1>4, <1>5, <1>6, <1>7 DEF SystemNext, WorkerStep, Resets

(* A step of one worker leaves the others where they are.                    *)
LEMMA Alone ==
  ASSUME TypeOK, Called, NEW w \in Workers, NEW v \in Workers, v # w,
         Leaves(w) \/ QueueStep(w) \/ Resets(w)
  PROVE  pc'[v] = pc[v] /\ job'[v] = job[v] /\ batch'[v] = batch[v] /\ svc'[v] = svc[v]
<1> DEFINE Same == pc'[v] = pc[v] /\ job'[v] = job[v] /\ batch'[v] = batch[v]
<1>1. pc \in [Workers -> Locations] /\ job \in [Workers -> Job]
      /\ batch \in [Workers -> SUBSET (1 .. cursor)]
  BY DEF TypeOK
<1>2. ASSUME HandlerReturns(w) \/ HandlerFails(w) \/ Notify(w) PROVE Same
  BY <1>1, <1>2 DEF HandlerReturns, HandlerFails, FailHandler, Notify
<1>3. ASSUME \/ InfrastructureFailure(w) \/ Crash(w) \/ Restart(w)
             \/ ReclaimFails(w) \/ ReadFails(w)
      PROVE  Same
  BY <1>1, <1>3 DEF InfrastructureFailure, Crash, Restart, ReclaimFails, ReadFails
<1>4. ASSUME Poll(w) PROVE Same
  BY <1>1, <1>4 DEF Poll, Reclaim, NextClaimed, ReadNew, ReadNothing
<1>5. ASSUME Requeue(w) \/ Bury(w) \/ Ack(w) PROVE Same
  BY <1>1, <1>5 DEF Requeue, Bury, Ack
<1>6. Same
  BY <1>2, <1>3, <1>4, <1>5 DEF Leaves, Returns, Raises, DeadLetterAlert, Interrupted,
     QueueStep, Resets, ComesBack, PollFails
<1>7. svc'[v] = svc[v]
  <2>1. svc' = svc \/ svc' = [svc EXCEPT ![w] = "start"]
    BY DEF Leaves, QueueStep, Resets, ComesBack, PollFails
  <2> QED
    BY <2>1 DEF Called
<1> QED
  BY <1>6, <1>7

LEMMA CalledStep ==
  ASSUME TypeOK, Called, [SystemNext]_systemVars
  PROVE  Called'
<1> DEFINE Place == Handling \cup Alerting \cup {"start"}
<1>1. "start" \in Place /\ "start" \notin Handling \cup Alerting
  BY DEF Handling, Alerting
<1>2. svc \in [Workers -> Place]
  BY DEF Called
<1> HIDE DEF Place
<1>3. CASE Others
  BY <1>3 DEF Others, Called
<1>4. ASSUME NEW w \in Workers, Serves(w) \/ Alerts(w) PROVE Called'
  <2>1. PICK to \in Handling \cup Alerting :
          /\ svc' = [svc EXCEPT ![w] = to] /\ UNCHANGED pc
          /\ to \in Handling => pc[w] = "handle"
          /\ to \in Alerting => pc[w] = "notify"
    BY <1>4 DEF Serves, Alerts, queueVars, Handling, Alerting
  <2>2. svc' \in [Workers -> Handling \cup Alerting \cup {"start"}]
    BY <2>1 DEF Called
  <2> QED
    BY <2>1, <2>2 DEF Called
<1>5. ASSUME NEW w \in Workers, Leaves(w) PROVE Called'
  <2>1. svc' = [svc EXCEPT ![w] = "start"]
    BY <1>5 DEF Leaves
  <2>2. svc' \in [Workers -> Place] /\ svc'[w] = "start"
    BY <1>1, <1>2, <2>1
  <2> QED
    BY <1>1, <1>5, <2>2, Alone DEF Called, Place
<1>6. ASSUME NEW w \in Workers, QueueStep(w) \/ Resets(w) PROVE Called'
  <2>1. svc' = svc /\ pc[w] \notin {"handle", "notify"}
    BY <1>6 DEF QueueStep, Resets, ComesBack, PollFails, ReclaimFails, ReadFails, Poll,
       Reclaim, NextClaimed, ReadNew, ReadNothing, Requeue, Bury, Ack, Restart
  <2>2. svc[w] \notin Handling \cup Alerting
    BY <2>1 DEF Called
  <2> QED
    BY <1>2, <1>6, <2>1, <2>2, Alone DEF Called, Place
<1> QED
  BY <1>3, <1>4, <1>5, <1>6, Kinds

-------------------------------------------------------------------------------
(* Entries are only appended: one that was there says what it said.          *)
LEMMA EntriesStay ==
  ASSUME TypeOK, [Next]_queueVars
  PROVE  /\ Ids \subseteq Ids' /\ \A id \in Ids : stream'[id] = stream[id]
         /\ Submitted \subseteq Submitted'
<1>1. Ids \subseteq Ids' /\ \A id \in Ids : stream'[id] = stream[id]
  <2>1. CASE UNCHANGED stream
    BY <2>1 DEF Ids
  <2>2. ASSUME NEW e \in Envelope, stream' = Append(stream, e)
        PROVE  Ids \subseteq Ids' /\ \A id \in Ids : stream'[id] = stream[id]
    BY <2>2 DEF TypeOK, Ids
  <2>3. ASSUME NEW s \in Submissions, Submit(s)
        PROVE  \E e \in Envelope : stream' = Append(stream, e)
    BY <2>3 DEF Submit, Envelope
  <2>4. ASSUME NEW w \in Workers, Requeue(w)
        PROVE  \E e \in Envelope : stream' = Append(stream, e)
    <3>1. pc[w] \in Busy
      BY <2>4 DEF Requeue, Busy
    <3>2. [sub |-> stream[job[w].id].sub, attempt |-> job[w].attempt] \in Envelope
      BY <3>1, HeldEntry DEF Envelope, Job
    <3> QED
      BY <2>4, <3>2 DEF Requeue, Entry
  <2>5. CASE ~(\E s \in Submissions : Submit(s)) /\ ~(\E w \in Workers : Requeue(w))
    <3>1. UNCHANGED stream
      BY <2>5 DEF Next, Poll, Handler, Settle, Fault, Reclaim, NextClaimed, ReadNew,
         ReadNothing, HandlerReturns, HandlerPermanent, HandlerFails, FailHandler, Bury,
         Notify, Ack, InfrastructureFailure, ReclaimFails, ReadFails, Crash, Restart,
         LeaseExpires, queueVars
    <3> QED
      BY <2>1, <3>1
  <2> QED
    BY <2>2, <2>3, <2>4, <2>5
<1>2. Submitted \subseteq Submitted'
  BY <1>1 DEF Submitted
<1> QED
  BY <1>1, <1>2

-------------------------------------------------------------------------------
(* What is reported stays reported.                                          *)
ReportedBy(w) ==
  /\ svc[w] \in Successful => report
  /\ svc[w] = "patch" => comments > 0
  /\ svc[w] = "return" /\ PostComments /\ Entry(job[w].id).sub = Created => comments > 0

Grows ==
  /\ comments' \in Nat /\ comments' >= comments /\ (report => report')
  /\ task' = "SUCCESS" => report'

LEMMA GrowsIs ==
  ASSUME Reported, [SystemNext]_systemVars
  PROVE  Grows
<1>1. comments \in Nat /\ (task = "SUCCESS" => report)
  BY DEF Reported
<1>2. ASSUME NEW w \in Workers, Process(w) PROVE Grows
  BY <1>1, <1>2
     DEF Process, Load, Fetch, CallFails, RunBegin, RunEnter, RunSucceeds, RunFails,
         RunCancelled, ListComments, PostComment, PatchComment, Returns,
         Raises, taskVars, Grows
<1>3. ASSUME NEW w \in Workers, ~Process(w),
             WorkerStep(w) \/ Interrupted(w) \/ Resets(w)
      PROVE  Grows
  BY <1>1, <1>3 DEF WorkerStep, DeadLettered, DeadLetterRead, DeadLetterFail,
     DeadLetterAlert, QueueStep, Interrupted, Resets, ComesBack, PollFails, ReclaimFails,
     ReadFails, taskVars, Grows
<1>4. CASE ~\E w \in Workers : WorkerStep(w) \/ Interrupted(w) \/ Resets(w)
  BY <1>1, <1>4 DEF SystemNext, Resets, CreateTask, SubmitTask, CancelTask, ResumeTask,
     LeaseRunsOut, systemVars, taskVars, Grows
<1> QED
  BY <1>2, <1>3, <1>4 DEF WorkerStep

LEMMA ReportedByStays ==
  ASSUME TypeOK, Called, [SystemNext]_systemVars, Grows, comments \in Nat,
         NEW v \in Workers, ReportedBy(v), svc'[v] = svc[v], job'[v] = job[v]
  PROVE  ReportedBy(v)'
<1>1. svc[v] = "return" => Entry(job[v].id)' = Entry(job[v].id)
  <2>1. ASSUME svc[v] = "return" PROVE job[v].id \in Ids
    <3>1. pc[v] \in Busy
      BY <2>1 DEF Called, Handling, Busy
    <3> QED
      BY <3>1 DEF TypeOK, Ids
  <2> QED
    BY <2>1, QueueSteps, EntriesStay DEF Entry
<1> QED
  BY <1>1 DEF ReportedBy, Grows

LEMMA ReportedStep ==
  ASSUME TypeOK, Called, Reported, [SystemNext]_systemVars
  PROVE  Reported'
<1>1. Grows /\ comments \in Nat /\ \A w \in Workers : ReportedBy(w)
  BY GrowsIs DEF Reported, ReportedBy
<1>2. ASSUME NEW w \in Workers,
             \A v \in Workers \ {w} : svc'[v] = svc[v] /\ job'[v] = job[v],
             ReportedBy(w)'
      PROVE  \A v \in Workers : ReportedBy(v)'
  BY <1>1, <1>2, ReportedByStays
<1>3. \A w \in Workers : ReportedBy(w)'
  <2>1. CASE Others
    BY <1>1, <2>1, ReportedByStays DEF Others
  <2>2. ASSUME NEW w \in Workers, Serves(w) PROVE \A v \in Workers : ReportedBy(v)'
    <3>1. UNCHANGED queueVars /\ \E to : svc' = [svc EXCEPT ![w] = to]
      BY <2>2 DEF Serves
    <3>2. \A v \in Workers \ {w} : svc'[v] = svc[v] /\ job'[v] = job[v]
      BY <3>1 DEF Called, queueVars
    <3>3. Entry(job[w].id)' = Entry(job[w].id)
      BY <3>1 DEF Entry, queueVars
    <3>4. svc \in [Workers -> Handling \cup Alerting \cup {"start"}]
      BY DEF Called
    <3>5. ReportedBy(w)'
      <4>1. CASE \/ Load(w) \/ Fetch(w) \/ CallFails(w) \/ RunEnter(w) \/ RunFails(w)
                 \/ RunCancelled(w)
        <5>1. svc'[w] \in {"run", "fetch", "raise", "work"}
          BY <3>4, <4>1 DEF Load, Fetch, CallFails, RunEnter, RunFails, RunCancelled,
             Service
        <5> QED
          BY <5>1 DEF ReportedBy, Successful
      <4>2. CASE RunBegin(w) \/ RunSucceeds(w)
        <5>1. svc'[w] = "enter" \/ (svc'[w] = Reviewed(w) /\ report')
          BY <1>1, <3>4, <4>2 DEF RunBegin, RunSucceeds, Service, Reported, Grows
        <5>2. Reviewed(w) \in {"list", "return"}
              /\ (Reviewed(w) = "return" =>
                    ~(PostComments /\ Entry(job[w].id).sub = Created))
          BY DEF Reviewed
        <5> QED
          BY <3>3, <5>1, <5>2 DEF ReportedBy, Successful
      <4>3. CASE ListComments(w)
        <5>1. svc[w] = "list" /\ svc'[w] = (IF comments = 0 THEN "post" ELSE "patch")
              /\ UNCHANGED <<comments, report>>
          BY <3>4, <4>3 DEF ListComments, Service, taskVars
        <5> QED
          BY <1>1, <5>1 DEF ReportedBy, Successful
      <4>4. CASE PostComment(w) \/ PatchComment(w)
        <5>1. svc[w] \in {"post", "patch"} /\ svc'[w] = "return" /\ report' = report
              /\ comments' > 0
          <6>1. CASE PostComment(w)
            BY <1>1, <3>4, <6>1 DEF PostComment, Service
          <6>2. CASE PatchComment(w)
            BY <1>1, <3>4, <6>2 DEF PatchComment, Service, taskVars, ReportedBy
          <6> QED
            BY <4>4, <6>1, <6>2
        <5> QED
          BY <1>1, <5>1 DEF ReportedBy, Successful
      <4> QED
        BY <2>2, <4>1, <4>2, <4>3, <4>4 DEF Serves, Process
    <3> QED
      BY <1>2, <3>2, <3>5
  <2>3. ASSUME NEW w \in Workers, Alerts(w) PROVE \A v \in Workers : ReportedBy(v)'
    <3>1. \A v \in Workers \ {w} : svc'[v] = svc[v] /\ job'[v] = job[v]
      BY <2>3 DEF Alerts, Called, queueVars
    <3>2. svc'[w] \in Alerting
      BY <2>3 DEF Alerts, Called
    <3>3. ReportedBy(w)'
      BY <3>2 DEF ReportedBy, Alerting, Successful
    <3> QED
      BY <1>2, <3>1, <3>3
  <2>4. ASSUME NEW w \in Workers, Leaves(w) \/ QueueStep(w) \/ Resets(w)
        PROVE  \A v \in Workers : ReportedBy(v)'
    <3>1. \A v \in Workers \ {w} : svc'[v] = svc[v] /\ job'[v] = job[v]
      BY <2>4, Alone
    <3>2. svc'[w] \notin Successful
      <4>1. CASE Leaves(w)
        BY <4>1 DEF Leaves, Called, Successful
      <4>2. CASE QueueStep(w) \/ Resets(w)
        <5>1. svc' = svc /\ pc[w] \notin {"handle", "notify"}
          BY <4>2 DEF QueueStep, Resets, ComesBack, PollFails, ReclaimFails, ReadFails,
             Poll, Reclaim, NextClaimed, ReadNew, ReadNothing, Requeue, Bury, Ack, Restart
        <5> QED
          BY <5>1 DEF Called, Handling, Successful
      <4> QED
        BY <2>4, <4>1, <4>2
    <3>3. ReportedBy(w)'
      BY <3>2 DEF ReportedBy, Successful
    <3> QED
      BY <1>2, <3>1, <3>3
  <2> QED
    BY <2>1, <2>2, <2>3, <2>4, Kinds
<1>4. HandledHasReport'
  <2>1. ASSUME done' = done PROVE HandledHasReport'
    BY <1>1, <2>1 DEF Reported, HandledHasReport, Grows
  <2>2. ASSUME NEW w \in Workers, Returns(w) PROVE HandledHasReport'
    <3>1. svc[w] = "return" /\ done' = done \cup {Entry(job[w].id).sub}
      BY <2>2 DEF Returns, HandlerReturns
    <3>2. ReportedBy(w)
      BY <1>1
    <3>3. report' /\ (PostComments /\ Entry(job[w].id).sub = Created => comments' > 0)
      BY <1>1, <3>1, <3>2 DEF ReportedBy, Successful, Grows
    <3>4. PostComments /\ Created \in done => comments' > 0
      BY <1>1 DEF Reported, HandledHasReport, Grows
    <3> QED
      BY <3>1, <3>3, <3>4 DEF HandledHasReport
  <2>3. done' = done \/ \E w \in Workers : Returns(w)
    <3>1. CASE Others
      BY <3>1 DEF Others, CreateTask, CancelTask, SubmitTask, ResumeTask, Submit,
         LeaseRunsOut, LeaseExpires, systemVars, queueVars
    <3>2. ASSUME NEW w \in Workers, Serves(w) \/ Alerts(w) \/ QueueStep(w) \/ Resets(w)
          PROVE  done' = done
      BY <3>2 DEF Serves, Alerts, queueVars, QueueStep, Resets, ComesBack, PollFails,
         ReclaimFails, ReadFails, Poll, Reclaim, NextClaimed, ReadNew, ReadNothing,
         Requeue, Bury, Ack, Restart
    <3>3. ASSUME NEW w \in Workers, Leaves(w) PROVE done' = done \/ Returns(w)
      BY <3>3 DEF Leaves, Raises, HandlerFails, FailHandler, DeadLetterAlert, Notify,
         Interrupted, InfrastructureFailure, Crash
    <3> QED
      BY <3>1, <3>2, <3>3, Kinds
  <2> QED
    BY <2>1, <2>2, <2>3
<1> QED
  BY <1>1, <1>3, <1>4 DEF Reported, ReportedBy, Grows

-------------------------------------------------------------------------------
(* Without a lease that ran out an entry is one worker's.                    *)
LEMMA HasIs ==
  ASSUME TypeOK, Leased, NEW w \in Workers, pc[w] \in Busy
  PROVE  /\ job[w].id \in Ids /\ Live(job[w].id)
         /\ \A v \in Workers : pc[v] \in Busy /\ job[v].id = job[w].id => v = w
<1>1. job[w].id \in Ids
  BY DEF TypeOK, Ids
<1>2. job[w].id \in pending
  BY DEF Leased, Has
<1>3. ASSUME NEW v \in Workers, pc[v] \in Busy, job[v].id = job[w].id PROVE v = w
  BY <1>3 DEF Leased, Has
<1> QED
  BY <1>1, <1>2, <1>3 DEF Live

LEMMA LeasedStep ==
  ASSUME TypeOK, Called, Leased, [SystemNext]_systemVars, overruns' = 0
  PROVE  Leased'
<1>1. /\ pc \in [Workers -> Locations] /\ job \in [Workers -> Job]
      /\ batch \in [Workers -> SUBSET (1 .. cursor)] /\ cursor \in Nat
      /\ pending \subseteq 1 .. cursor /\ stale \subseteq pending
      /\ \A w \in Workers : pc[w] \in Busy => job[w].id \in 1 .. cursor
  BY DEF TypeOK
<1>2. ASSUME NEW w \in Workers,
             \A v \in Workers \ {w} : pc'[v] = pc[v] /\ job'[v] = job[v] /\ batch'[v] = batch[v],
             Has(w)' \subseteq pending' \ stale', pc'[w] \in Busy => job'[w].id \notin batch'[w],
             \A v \in Workers \ {w} : Has(v) \subseteq pending' \ stale' /\ Has(w)' \cap Has(v) = {}
      PROVE  Leased'
  <2>1. \A v \in Workers \ {w} : Has(v)' = Has(v)
    BY <1>2 DEF Has
  <2> QED
    BY <1>2, <2>1 DEF Leased
<1>3. ASSUME UNCHANGED <<pending, stale, pc, batch, job>> PROVE Leased'
  BY <1>3 DEF Leased, Has
<1>4. CASE Others
  <2>1. CASE \E id \in pending : LeaseRunsOut(id)
    <3>1. PICK id \in pending : LeaseExpires(id)
      BY <2>1 DEF LeaseRunsOut
    <3>2. ~Held(id)
      BY <3>1, QueueAssumption DEF LeaseExpires, TypeOK
    <3>3. stale' = stale \cup {id} /\ UNCHANGED <<pending, pc, batch, job>>
      BY <3>1 DEF LeaseExpires
    <3>4. \A w \in Workers : id \notin Has(w)
      BY <3>2 DEF Held, Has
    <3> QED
      BY <3>3, <3>4 DEF Leased, Has
  <2>2. CASE ~\E id \in pending : LeaseRunsOut(id)
    <3>1. UNCHANGED <<pending, stale, pc, batch, job>>
      BY <1>4, <2>2 DEF Others, CreateTask, CancelTask, SubmitTask, ResumeTask, Submit,
         systemVars, queueVars
    <3> QED
      BY <1>3, <3>1
  <2> QED
    BY <2>1, <2>2
<1>5. ASSUME NEW w \in Workers, Serves(w) \/ Alerts(w) PROVE Leased'
  BY <1>3, <1>5 DEF Serves, Alerts, queueVars
<1>6. ASSUME NEW w \in Workers, Leaves(w) PROVE Leased'
  <2>1. \A v \in Workers \ {w} : pc'[v] = pc[v] /\ job'[v] = job[v] /\ batch'[v] = batch[v]
    BY <1>6, Alone
  <2>2. UNCHANGED <<pending, stale>>
    BY <1>6 DEF Leaves, Returns, Raises, DeadLetterAlert, Interrupted, HandlerReturns,
       HandlerFails, FailHandler, Notify, InfrastructureFailure, Crash
  <2>3. Has(w)' \subseteq Has(w) /\ (pc'[w] \in Busy => job'[w].id \notin batch'[w])
    <3>1. CASE HandlerReturns(w) \/ HandlerFails(w) \/ Notify(w)
      <4>1. pc[w] \in Busy /\ batch' = batch /\ job'[w].id = job[w].id
        BY <1>1, <3>1 DEF HandlerReturns, HandlerFails, FailHandler, Notify, Busy, Job
      <4> QED
        BY <4>1 DEF Has, Leased
    <3>2. CASE InfrastructureFailure(w) \/ Crash(w)
      <4>1. batch'[w] = {} /\ pc'[w] \in {"ended", "read", "reclaim", "down"}
        BY <1>1, <3>2 DEF InfrastructureFailure, Crash
      <4> QED
        BY <4>1 DEF Has, Busy
    <3> QED
      BY <1>6, <3>1, <3>2 DEF Leaves, Returns, Raises, DeadLetterAlert, Interrupted
  <2> QED
    BY <1>2, <2>1, <2>2, <2>3 DEF Leased
<1>7. ASSUME NEW w \in Workers, QueueStep(w) \/ Resets(w) PROVE Leased'
  <2>1. \A v \in Workers \ {w} : pc'[v] = pc[v] /\ job'[v] = job[v] /\ batch'[v] = batch[v]
    BY <1>7, Alone
  <2>2. CASE Reclaim(w)
    <3>1. PICK C \in SUBSET stale :
            /\ batch' = [batch EXCEPT ![w] = C] /\ stale' = stale \ C
            /\ pc' = [pc EXCEPT ![w] = IF C = {} THEN "read" ELSE "next"]
      BY <2>2 DEF Reclaim
    <3>2. UNCHANGED <<pending, job>>
      BY <2>2 DEF Reclaim
    <3>3. Has(w)' = C /\ pc'[w] \notin Busy
      BY <1>1, <3>1 DEF Has, Busy
    <3>4. C \subseteq pending' \ stale' /\ \A v \in Workers : C \cap Has(v) = {}
      BY <1>1, <3>1, <3>2 DEF Leased
    <3>5. \A v \in Workers : Has(v) \subseteq pending' \ stale'
      BY <3>1, <3>2 DEF Leased
    <3> QED
      BY <1>2, <2>1, <3>3, <3>4, <3>5
  <2>3. CASE NextClaimed(w)
    <3>1. UNCHANGED <<pending, stale>> /\ pc[w] = "next"
      BY <2>3 DEF NextClaimed
    <3>2. Has(w) = batch[w]
      BY <3>1 DEF Has, Busy
    <3>3. Has(w)' \subseteq batch[w] /\ (pc'[w] \in Busy => job'[w].id \notin batch'[w])
      <4>1. PICK id \in batch[w] :
              \/ batch' = [batch EXCEPT ![w] = {}] /\ pc' = [pc EXCEPT ![w] = "read"]
              \/ /\ batch' = [batch EXCEPT ![w] = @ \ {id}]
                 /\ job' = [job EXCEPT ![w] = [id |-> id, attempt |-> Entry(id).attempt + 1,
                                               claimed |-> TRUE, why |-> "none"]]
        BY <2>3 DEF NextClaimed
      <4>2. CASE batch' = [batch EXCEPT ![w] = {}] /\ pc' = [pc EXCEPT ![w] = "read"]
        BY <1>1, <4>2 DEF Has, Busy
      <4>3. CASE /\ batch' = [batch EXCEPT ![w] = @ \ {id}]
                 /\ job' = [job EXCEPT ![w] = [id |-> id, attempt |-> Entry(id).attempt + 1,
                                               claimed |-> TRUE, why |-> "none"]]
        <5>1. batch'[w] = batch[w] \ {id} /\ job'[w].id = id
          BY <1>1, <4>3
        <5> QED
          BY <5>1 DEF Has
      <4> QED
        BY <4>1, <4>2, <4>3
    <3> QED
      BY <1>2, <2>1, <3>1, <3>2, <3>3 DEF Leased
  <2>4. CASE ReadNew(w)
    <3>1. /\ cursor' = cursor + 1 /\ pending' = pending \cup {cursor + 1} /\ pc[w] = "read"
          /\ UNCHANGED <<stale, batch>> /\ job'[w].id = cursor + 1
      BY <1>1, <2>4 DEF ReadNew
    <3>2. Has(w) = batch[w] /\ Has(w)' \subseteq batch[w] \cup {cursor + 1}
      BY <3>1 DEF Has, Busy
    <3>3. cursor + 1 \notin 1 .. cursor
      BY <1>1
    <3>4. \A v \in Workers : {cursor + 1} \cap Has(v) = {}
      BY <1>1, <3>3 DEF Has
    <3>5. pending \ stale \subseteq pending' \ stale' /\ {cursor + 1} \subseteq pending' \ stale'
      BY <1>1, <3>1, <3>3
    <3>6. job'[w].id \notin batch'[w]
      BY <1>1, <3>1, <3>3
    <3>7. \A v \in Workers : Has(v) \subseteq pending' \ stale'
      BY <3>5 DEF Leased
    <3>8. Has(w)' \subseteq pending' \ stale'
      BY <3>2, <3>5, <3>7
    <3>9. \A v \in Workers \ {w} : Has(w)' \cap Has(v) = {}
      BY <3>2, <3>4 DEF Leased
    <3> QED
      BY <1>2, <2>1, <3>6, <3>7, <3>8, <3>9
  <2>5. CASE \/ ReadNothing(w) \/ Restart(w) \/ Requeue(w) \/ Bury(w)
             \/ ReclaimFails(w) \/ ReadFails(w)
    <3>1. /\ UNCHANGED <<pending, stale, batch, job>>
          /\ pc[w] \in Busy \/ pc'[w] \notin Busy
      BY <1>1, <2>5 DEF ReadNothing, Restart, Requeue, Bury, ReclaimFails, ReadFails, Busy
    <3>2. Has(w)' \subseteq Has(w) /\ (pc'[w] \in Busy => job'[w].id \notin batch'[w])
      BY <3>1 DEF Has, Leased
    <3> QED
      BY <1>2, <2>1, <3>1, <3>2 DEF Leased
  <2>6. CASE Ack(w)
    <3>1. /\ pending' = pending \ {job[w].id} /\ stale' = stale \ {job[w].id} /\ batch' = batch
          /\ pc[w] \in Busy /\ pc'[w] \notin Busy
      BY <1>1, <2>6 DEF Ack, AfterEntry, Busy
    <3>2. Has(w)' = batch[w] /\ batch[w] = Has(w) \ {job[w].id}
          /\ {job[w].id} \subseteq Has(w)
      BY <3>1 DEF Has, Leased
    <3>3. (pending \ stale) \ {job[w].id} \subseteq pending' \ stale'
      BY <3>1
    <3>4. \A v \in Workers \ {w} : Has(v) \subseteq pending' \ stale'
                                   /\ Has(w)' \cap Has(v) = {}
      BY <3>2, <3>3 DEF Leased
    <3>5. Has(w)' \subseteq pending' \ stale'
      BY <3>2, <3>3 DEF Leased
    <3> QED
      BY <1>2, <2>1, <3>1, <3>4, <3>5
  <2> QED
    BY <1>7, <2>2, <2>3, <2>4, <2>5, <2>6 DEF QueueStep, Resets, ComesBack, PollFails, Poll
<1> QED
  BY <1>4, <1>5, <1>6, <1>7, Kinds

-------------------------------------------------------------------------------
(* What becomes of an entry that waits and of a worker that is active.       *)
LEMMA SpentIsBusy ==
  ASSUME Called, NEW w \in Workers, Spent(w)
  PROVE  pc[w] \in Busy
BY DEF Called, Spent, Successful, Handling, Alerting, Busy

(* An entry that is written waits: nobody has it.                            *)
LEMMA WrittenWaits ==
  ASSUME TypeOK, TypeOK', Called', NEW e, stream' = Append(stream, e), cursor' = cursor,
         \A w \in Workers : pc'[w] \in Busy => job'[w].id \in 1 .. cursor
  PROVE  EntryWaits'
<1>1. /\ Len(stream) \in Nat /\ cursor \in Nat /\ cursor <= Len(stream)
      /\ Len(stream') = Len(stream) + 1
  BY DEF TypeOK
<1>2. PICK n \in Ids' : n > cursor /\ n \notin 1 .. cursor
  BY <1>1 DEF Ids
<1>3. \A w \in Workers : Spent(w)' => pc'[w] \in Busy
  BY DEF Called, Spent, Successful, Handling, Alerting, Busy
<1>4. Live(n)'
  BY <1>2 DEF Live
<1> QED
  BY <1>2, <1>3, <1>4 DEF EntryWaits

LEMMA RequeueWaits ==
  ASSUME TypeOK, TypeOK', Called', NEW w \in Workers, Requeue(w)
  PROVE  EntryWaits'
<1>1. cursor' = cursor /\ job' = job /\ \E e : stream' = Append(stream, e)
  BY DEF Requeue
<1>2. ASSUME NEW v \in Workers, pc'[v] \in Busy PROVE job'[v].id \in 1 .. cursor
  <2>1. job'[v].id \in 1 .. cursor'
    BY <1>2 DEF TypeOK
  <2> QED
    BY <1>1, <2>1
<1> QED
  BY <1>1, <1>2, WrittenWaits

(* A worker is through with its entry when the task is finished, or when it  *)
(* has written the message again.                                            *)
LEMMA BecomesSpent ==
  ASSUME TypeOK, Called, [SystemNext]_systemVars, NEW w \in Workers, ~Spent(w), Spent(w)'
  PROVE  task' \in Final \/ Requeue(w)
<1>1. pc \in [Workers -> Locations]
      /\ svc \in [Workers -> Handling \cup Alerting \cup {"start"}]
  BY DEF TypeOK, Called
<1>2. CASE Others
  BY <1>2 DEF Others, Spent
<1>3. ASSUME NEW v \in Workers, v # w, Serves(v) \/ Alerts(v) PROVE FALSE
  <2>1. pc'[w] = pc[w] /\ svc'[w] = svc[w]
    BY <1>1, <1>3 DEF Serves, Alerts, queueVars
  <2> QED
    BY <2>1 DEF Spent
<1>4. ASSUME NEW v \in Workers, v # w, Leaves(v) \/ QueueStep(v) \/ Resets(v)
      PROVE  FALSE
  <2>1. pc'[w] = pc[w] /\ svc'[w] = svc[w]
    BY <1>4, Alone
  <2> QED
    BY <2>1 DEF Spent
<1>5. CASE Serves(w)
  <2>1. pc' = pc /\ pc[w] = "handle" /\ svc[w] \notin Successful /\ svc'[w] \in Successful
    BY <1>5, <1>1 DEF Serves, queueVars, Spent, Handling
  <2>2. CASE RunBegin(w)
    BY <1>1, <2>1, <2>2 DEF RunBegin, Service, taskVars, Successful, Final
  <2>3. CASE RunSucceeds(w)
    BY <2>3 DEF RunSucceeds, Final
  <2>4. CASE \/ Load(w) \/ Fetch(w) \/ CallFails(w) \/ RunEnter(w) \/ RunFails(w)
             \/ RunCancelled(w)
    BY <1>1, <2>1, <2>4 DEF Load, Fetch, CallFails, RunEnter, RunFails, RunCancelled,
       Service, Successful
  <2>5. CASE ListComments(w) \/ PostComment(w) \/ PatchComment(w)
    BY <2>1, <2>5 DEF ListComments, PostComment, PatchComment, Service,
       Successful
  <2> QED
    BY <1>5, <2>2, <2>3, <2>4, <2>5 DEF Serves, Process
<1>6. CASE Alerts(w)
  <2>1. svc'[w] = "alert"
    BY <1>1, <1>6 DEF Alerts, queueVars, Spent, Alerting, Successful
  <2> QED
    BY <1>1, <1>6, <2>1 DEF Alerts, DeadLetterRead, DeadLetterFail, Service, taskVars, Final
<1>7. ASSUME Leaves(w) PROVE FALSE
  <2>1. svc'[w] = "start"
    BY <1>1, <1>7 DEF Leaves
  <2>2. pc'[w] = "ack"
    BY <2>1 DEF Spent, Successful
  <2>3. ~Returns(w) /\ ~DeadLetterAlert(w)
    BY DEF Returns, DeadLetterAlert, Spent, Successful
  <2> QED
    BY <1>1, <1>7, <2>2, <2>3 DEF Leaves, Raises, HandlerFails, FailHandler, Interrupted,
       InfrastructureFailure, Crash
<1>8. CASE QueueStep(w) \/ Resets(w)
  <2>1. svc' = svc /\ pc[w] \notin {"handle", "notify"}
    BY <1>8 DEF QueueStep, Resets, ComesBack, PollFails, ReclaimFails, ReadFails, Poll,
       Reclaim, NextClaimed, ReadNew, ReadNothing, Requeue, Bury, Ack, Restart
  <2>2. pc'[w] = "ack"
    BY <2>1 DEF Spent, Called, Successful, Handling, Alerting
  <2> QED
    BY <1>1, <1>8, <2>2 DEF QueueStep, Resets, ComesBack, PollFails, ReclaimFails,
       ReadFails, Poll, Reclaim, NextClaimed, ReadNew, ReadNothing, Bury, Ack, AfterEntry,
       Restart
<1> QED
  BY <1>2, <1>3, <1>4, <1>5, <1>6, <1>7, <1>8, Kinds

(* While a worker stays spent it stays with its entry.                       *)
LEMMA StaysSpent ==
  ASSUME TypeOK, Called, [SystemNext]_systemVars, NEW w \in Workers, Spent(w), Spent(w)'
  PROVE  job'[w].id = job[w].id
<1>1. pc[w] \in Busy /\ pc \in [Workers -> Locations] /\ job \in [Workers -> Job]
      /\ svc \in [Workers -> Handling \cup Alerting \cup {"start"}]
  BY SpentIsBusy DEF TypeOK, Called
<1>2. CASE Others
  BY <1>2 DEF Others
<1>3. ASSUME NEW v \in Workers, Serves(v) \/ Alerts(v) PROVE job' = job
  BY <1>3 DEF Serves, Alerts, queueVars
<1>4. ASSUME NEW v \in Workers, v # w, Leaves(v) \/ QueueStep(v) \/ Resets(v)
      PROVE  job'[w] = job[w]
  BY <1>4, Alone
<1>5. CASE Leaves(w)
  <2>1. svc'[w] = "start"
    BY <1>1, <1>5 DEF Leaves
  <2>2. pc'[w] = "ack"
    BY <2>1 DEF Spent, Successful
  <2> QED
    BY <1>1, <1>5, <2>2 DEF Leaves, Returns, Raises, DeadLetterAlert, HandlerReturns,
       HandlerFails, FailHandler, Notify, Interrupted, InfrastructureFailure, Crash
<1>6. CASE QueueStep(w) \/ Resets(w)
  <2>1. Requeue(w) \/ Bury(w) \/ Ack(w)
    BY <1>1, <1>6 DEF QueueStep, Resets, ComesBack, PollFails, ReclaimFails, ReadFails,
       Poll, Reclaim, NextClaimed, ReadNew, ReadNothing, Restart, Busy
  <2>2. svc' = svc /\ pc[w] \notin {"handle", "notify"}
    BY <1>6, <2>1 DEF QueueStep, Resets, ComesBack, PollFails, ReclaimFails, ReadFails,
       Requeue, Bury, Ack, Restart
  <2>3. pc'[w] = "ack"
    BY <2>2 DEF Spent, Called, Successful, Handling, Alerting
  <2>4. ~Ack(w)
    BY <1>1, <2>3 DEF Ack, AfterEntry
  <2> QED
    BY <2>1, <2>4 DEF Requeue, Bury
<1> QED
  BY <1>2, <1>3, <1>4, <1>5, <1>6, Kinds

(* An entry waits until the task is finished.                                *)
LEMMA WaitStep ==
  ASSUME TypeOK, TypeOK', Called, Called', EntryWaits, [SystemNext]_systemVars
  PROVE  EntryWaits' \/ task' \in Final
<1> SUFFICES ASSUME task' \notin Final, \A w \in Workers : ~Requeue(w)
             PROVE  EntryWaits'
  BY RequeueWaits
<1>1. PICK id \in Ids : Live(id) /\ \A w \in Workers : Spent(w) => job[w].id # id
  BY DEF EntryWaits
<1>2. id \in Ids'
  BY QueueSteps, EntriesStay
<1>3. \A w \in Workers : Spent(w)' => job'[w].id # id
  BY <1>1, BecomesSpent, StaysSpent
<1>4. Live(id)'
  <2>1. cursor \in Nat /\ id \in Nat
    BY DEF TypeOK, Ids
  <2>2. CASE UNCHANGED <<cursor, pending>>
    BY <1>1, <2>2 DEF Live
  <2>3. ASSUME NEW w \in Workers, Ack(w) PROVE Live(id)'
    <3>1. Spent(w) /\ cursor' = cursor /\ pending' = pending \ {job[w].id}
      BY <2>3 DEF Ack, Spent
    <3> QED
      BY <1>1, <3>1 DEF Live
  <2>4. ASSUME NEW w \in Workers, ReadNew(w) PROVE Live(id)'
    <3>1. cursor' = cursor + 1 /\ pending' = pending \cup {cursor + 1}
      BY <2>4 DEF ReadNew
    <3> QED
      BY <1>1, <2>1, <3>1 DEF Live
  <2>5. CASE ~\E w \in Workers : Ack(w) \/ ReadNew(w)
    <3>1. UNCHANGED <<cursor, pending>>
      BY <2>5, QueueSteps DEF Next, Poll, Handler, Settle, Fault, Submit, Reclaim,
         NextClaimed, ReadNothing, HandlerReturns, HandlerPermanent, HandlerFails,
         FailHandler, Requeue, Bury, Notify, InfrastructureFailure, ReclaimFails, ReadFails,
         Crash, Restart, LeaseExpires, queueVars
    <3> QED
      BY <2>2, <3>1
  <2> QED
    BY <2>3, <2>4, <2>5
<1> QED
  BY <1>2, <1>3, <1>4 DEF EntryWaits

(* The worker that carries a task on does so until the task is finished or   *)
(* its message is written again, unless its process crashes or Redis fails.  *)
LEMMA WorkStep ==
  ASSUME TypeOK, Called, NEW w \in Workers, Carries(w),
         [SystemNext]_systemVars, crashes' = crashes, faults' = faults
  PROVE  Carries(w)' \/ task' \in Final \/ Requeue(w)
<1>1. /\ pc \in [Workers -> Locations] /\ crashes \in Nat /\ faults \in Nat
      /\ svc \in [Workers -> Handling \cup Alerting \cup {"start"}]
      /\ svc[w] \in {"work", "raise"} => pc[w] = "handle"
      /\ svc[w] \in {"fail", "alert"} => pc[w] = "notify"
      /\ pc[w] \in {"requeue", "bury"} => svc[w] = "start"
  BY DEF Called, TypeOK, Handling, Alerting
<1>2. CASE Others
  BY <1>2 DEF Others, Carries
<1>3. ASSUME NEW v \in Workers, v # w, Serves(v) \/ Alerts(v) PROVE Carries(w)'
  <2>1. svc'[w] = svc[w] /\ pc'[w] = pc[w]
    BY <1>1, <1>3 DEF Serves, Alerts, queueVars
  <2> QED
    BY <2>1 DEF Carries
<1>4. ASSUME NEW v \in Workers, v # w, Leaves(v) \/ QueueStep(v) \/ Resets(v)
      PROVE  Carries(w)'
  <2>1. svc'[w] = svc[w] /\ pc'[w] = pc[w]
    BY <1>4, Alone
  <2> QED
    BY <2>1 DEF Carries
<1>5. CASE Serves(w)
  <2>1. pc[w] = "handle" /\ svc[w] \in {"work", "raise"}
    BY <1>1, <1>5 DEF Serves, Carries
  <2>2. svc'[w] = "raise" \/ task' \in Final
    BY <1>1, <1>5, <2>1 DEF Serves, Process, Load, Fetch, CallFails, RunBegin, RunEnter,
       RunSucceeds, RunFails, RunCancelled, ListComments, PostComment, PatchComment,
       Service, Final
  <2> QED
    BY <2>2 DEF Carries
<1>6. CASE Alerts(w)
  <2>1. svc'[w] = "fail" \/ task' \in Final
    BY <1>1, <1>6 DEF Alerts, DeadLetterRead, DeadLetterFail, Service, taskVars, Final
  <2> QED
    BY <2>1 DEF Carries
<1>7. CASE Leaves(w)
  <2>1. ~Interrupted(w)
    BY <1>1 DEF Interrupted, InfrastructureFailure, Crash
  <2>2. ~Returns(w) /\ ~DeadLetterAlert(w)
    BY <1>1 DEF Returns, DeadLetterAlert, HandlerReturns, Notify, Carries
  <2>3. pc'[w] \in {"requeue", "bury"}
    BY <1>1, <1>7, <2>1, <2>2 DEF Leaves, Raises, HandlerFails, FailHandler
  <2> QED
    BY <2>3 DEF Carries
<1>8. CASE QueueStep(w) \/ Resets(w)
  <2>1. pc[w] \in {"handle", "requeue", "bury", "notify"}
    BY <1>1 DEF Carries
  <2>2. Requeue(w) \/ Bury(w)
    BY <1>8, <2>1 DEF QueueStep, Resets, ComesBack, PollFails, ReclaimFails, ReadFails,
       Poll, Reclaim, NextClaimed, ReadNew, ReadNothing, Ack, Restart
  <2>3. CASE Bury(w)
    <3>1. pc'[w] = "notify" /\ svc[w] = "start"
      BY <1>1, <2>3 DEF Bury
    <3>2. svc' = svc
      BY <1>8 DEF QueueStep, Resets, ComesBack, PollFails
    <3> QED
      BY <3>1, <3>2 DEF Carries
  <2> QED
    BY <2>2, <2>3
<1> QED
  BY <1>2, <1>3, <1>4, <1>5, <1>6, <1>7, <1>8, Kinds

(* Only a run that enters takes a task that is finished up again.  While no  *)
(* lease ran out it has an entry of its own.                                 *)
LEMMA FinalStep ==
  ASSUME task \in Final, [SystemNext]_systemVars
  PROVE  task' \in Final \/ \E w \in Workers : RunEnter(w)
<1>1. ASSUME NEW w \in Workers, Process(w) \/ DeadLettered(w)
      PROVE  task' \in Final \/ RunEnter(w)
  BY <1>1 DEF Process, DeadLettered, Load, Fetch, CallFails, RunBegin, RunSucceeds,
     RunFails, RunCancelled, ListComments, PostComment, PatchComment, Returns, Raises,
     DeadLetterRead, DeadLetterFail, DeadLetterAlert, taskVars, Final
<1>2. ASSUME NEW w \in Workers, QueueStep(w) \/ Interrupted(w) \/ Resets(w)
      PROVE  task' = task
  BY <1>2 DEF QueueStep, Interrupted, Resets, ComesBack, PollFails, ReclaimFails,
     ReadFails, taskVars
<1>3. CASE ~\E w \in Workers : WorkerStep(w) \/ Interrupted(w) \/ Resets(w)
  BY <1>3 DEF SystemNext, Resets, CreateTask, SubmitTask, CancelTask, ResumeTask, LeaseRunsOut,
     systemVars, taskVars, Final
<1> QED
  BY <1>1, <1>2, <1>3 DEF WorkerStep

LEMMA EnterStep ==
  ASSUME TypeOK, Called, Called', NEW w \in Workers, RunEnter(w)
  PROVE  svc'[w] = "work" /\ (Leased => EntryWaits')
<1>1. pc[w] = "handle" /\ UNCHANGED queueVars /\ svc' = [svc EXCEPT ![w] = "work"]
  BY DEF RunEnter, Service
<1>2. svc'[w] = "work" /\ pc' = pc /\ job' = job
  BY <1>1 DEF Called, queueVars
<1>3. ~Spent(w)'
  BY <1>1, <1>2 DEF Spent, Successful
<1>4. ASSUME Leased PROVE EntryWaits'
  <2>1. job[w].id \in Ids /\ Live(job[w].id)
    BY <1>1, <1>4, HasIs DEF Busy
  <2>2. \A v \in Workers : pc[v] \in Busy /\ job[v].id = job[w].id => v = w
    BY <1>1, <1>4, HasIs DEF Busy
  <2>3. \A v \in Workers : Spent(v)' => pc'[v] \in Busy
    BY DEF Called, Spent, Successful, Handling, Alerting, Busy
  <2>4. \A v \in Workers : Spent(v)' => job'[v].id # job[w].id
    BY <1>2, <1>3, <2>2, <2>3
  <2>5. job[w].id \in Ids' /\ (job[w].id \in pending' \/ job[w].id > cursor')
    BY <1>1, <2>1 DEF queueVars, Ids, Live
  <2> QED
    BY <1>2, <2>4, <2>5 DEF EntryWaits, Live
<1> QED
  BY <1>2, <1>4

LEMMA Counted ==
  ASSUME TypeOK, [Next]_queueVars
  PROVE  crashes' >= crashes /\ faults' >= faults /\ overruns' >= overruns
<1> DEFINE Counts == crashes' >= crashes /\ faults' >= faults /\ overruns' >= overruns
<1>1. crashes \in Nat /\ faults \in Nat /\ overruns \in Nat
  BY DEF TypeOK
<1>2. CASE UNCHANGED <<crashes, faults, overruns>>
  BY <1>1, <1>2
<1>3. ASSUME NEW w \in Workers, Fault(w) \/ Crash(w)
      PROVE  Counts
  BY <1>1, <1>3 DEF Fault, InfrastructureFailure, ReclaimFails, ReadFails, Crash
<1>4. ASSUME NEW id \in pending, LeaseExpires(id)
      PROVE  Counts
  BY <1>1, <1>4 DEF LeaseExpires
<1>5. CASE /\ ~\E w \in Workers : Fault(w) \/ Crash(w)
           /\ ~\E id \in pending : LeaseExpires(id)
  <2>1. UNCHANGED <<crashes, faults, overruns>>
    BY <1>5 DEF Next, Poll, Handler, Settle, Submit, Reclaim, NextClaimed, ReadNew,
       ReadNothing, HandlerReturns, HandlerPermanent, HandlerFails, FailHandler, Requeue,
       Bury, Notify, Ack, Restart, queueVars
  <2> QED
    BY <1>2, <2>1
<1> QED
  BY <1>3, <1>4, <1>5

(* The first message of a task waits, and the task is there.                 *)
LEMMA FirstMessage ==
  ASSUME TypeOK, TypeOK', Called', [SystemNext]_systemVars, Submitted = {}, Submitted' # {}
  PROVE  task' # "absent" /\ EntryWaits'
<1>1. ASSUME NEW w \in Workers, Requeue(w) PROVE FALSE
  <2>1. job[w].id \in Ids
    BY <1>1 DEF Requeue, Busy, TypeOK, Ids
  <2> QED
    BY <2>1 DEF Submitted
<1>2. stream' # stream
  BY DEF Submitted, Ids
<1>3. ASSUME NEW w \in Workers,
             Serves(w) \/ Alerts(w) \/ Leaves(w) \/ QueueStep(w) \/ Resets(w)
      PROVE  FALSE
  BY <1>1, <1>2, <1>3 DEF Serves, Alerts, queueVars, Leaves, Returns, Raises,
     DeadLetterAlert, Interrupted, QueueStep, Resets, ComesBack, PollFails, ReclaimFails,
     ReadFails, HandlerReturns, HandlerFails, FailHandler, Notify, InfrastructureFailure,
     Crash, Restart, Poll, Reclaim, NextClaimed, ReadNew, ReadNothing, Bury, Ack
<1>4. SubmitTask \/ \E s \in Submissions : ResumeTask(s)
  BY <1>2, <1>3, Kinds DEF Others, CreateTask, CancelTask, LeaseRunsOut, LeaseExpires,
     systemVars, queueVars
<1>5. task' # "absent" /\ \E s : Submit(s)
  BY <1>4 DEF SubmitTask, ResumeTask, taskVars
<1>6. UNCHANGED <<cursor, pc, job>> /\ \E e : stream' = Append(stream, e)
  BY <1>5 DEF Submit
<1>7. \A w \in Workers : pc'[w] \in Busy => job'[w].id \in 1 .. cursor
  BY <1>6 DEF TypeOK
<1> QED
  BY <1>5, <1>6, <1>7, WrittenWaits

LEMMA ContinuedStep ==
  ASSUME TypeOK, TypeOK', Called, Called', Continued, [SystemNext]_systemVars
  PROVE  Continued'
<1>1. /\ overruns' = 0 => overruns = 0
      /\ crashes' = 0 => crashes = 0
      /\ faults' = 0 => faults = 0
  BY QueueSteps, Counted DEF TypeOK
<1>2. overruns' = 0 => Leased'
  BY <1>1, LeasedStep DEF Continued
<1>3. task # "absent" => task' # "absent"
  <2>1. ASSUME NEW w \in Workers, WorkerStep(w) \/ Interrupted(w) \/ Resets(w)
        PROVE  task' = task \/ task' # "absent"
    BY <2>1 DEF WorkerStep, Process, DeadLettered, Load, Fetch, CallFails, RunBegin,
       RunEnter, RunSucceeds, RunFails, RunCancelled, ListComments, PostComment,
       PatchComment, Returns, Raises, DeadLetterRead, DeadLetterFail, DeadLetterAlert,
       QueueStep, Interrupted, Resets, ComesBack, PollFails, ReclaimFails, ReadFails,
       taskVars
  <2>2. CASE ~\E w \in Workers : WorkerStep(w) \/ Interrupted(w) \/ Resets(w)
    BY <2>2 DEF SystemNext, Resets, CreateTask, SubmitTask, CancelTask, ResumeTask, LeaseRunsOut,
       systemVars, taskVars
  <2> QED
    BY <2>1, <2>2
<1>4. Submitted' # {} => task' # "absent"
  BY <1>3, FirstMessage DEF Continued
<1>5. ASSUME Submitted' # {}, task' \notin Final, overruns' = 0
      PROVE  EntryWaits'
  <2>1. CASE Submitted = {}
    BY <1>5, <2>1, FirstMessage
  <2>2. CASE Submitted # {} /\ task \notin Final
    BY <1>1, <1>5, <2>2, WaitStep DEF Continued
  <2>3. CASE task \in Final
    BY <1>1, <1>5, <2>3, FinalStep, EnterStep DEF Continued
  <2> QED
    BY <2>1, <2>2, <2>3
<1>6. ASSUME Submitted' # {}, task' \notin Final, crashes' = 0, faults' = 0
      PROVE  EntryWaits' \/ \E w \in Workers : Carries(w)'
  <2>1. CASE Submitted = {}
    BY <1>6, <2>1, FirstMessage
  <2>2. CASE Submitted # {} /\ task \notin Final
    <3>1. EntryWaits \/ \E w \in Workers : Carries(w)
      BY <1>1, <1>6, <2>2 DEF Continued
    <3> QED
      BY <1>1, <1>6, <3>1, WaitStep, WorkStep, RequeueWaits
  <2>3. CASE task \in Final
    BY <1>6, <2>3, FinalStep, EnterStep DEF Carries
  <2> QED
    BY <2>1, <2>2, <2>3
<1> QED
  BY <1>2, <1>4, <1>5, <1>6 DEF Continued

-------------------------------------------------------------------------------
LEMMA SystemInitially == SystemInit => Called /\ Reported /\ Continued
<1> SUFFICES ASSUME SystemInit
             PROVE  Called /\ Reported /\ Continued
  OBVIOUS
<1>1. /\ svc = [w \in Workers |-> "start"] /\ comments = 0 /\ task = "absent"
      /\ done = {} /\ stream = <<>> /\ batch = [w \in Workers |-> {}]
      /\ pc = [w \in Workers |-> "reclaim"]
  BY DEF SystemInit, Init
<1>2. \A w \in Workers : svc[w] = "start" /\ pc[w] = "reclaim" /\ batch[w] = {}
  BY <1>1
<1>3. Called
  BY <1>1, <1>2 DEF Called, Handling, Alerting
<1>4. Reported
  BY <1>1, <1>2 DEF Reported, Successful, HandledHasReport
<1>5. Leased
  BY <1>2 DEF Leased, Has, Busy
<1>6. Submitted = {}
  BY <1>1 DEF Submitted, Ids
<1> QED
  BY <1>3, <1>4, <1>5, <1>6 DEF Continued

LEMMA SystemInvariance == SystemSpec => [](TypeOK /\ Called /\ Reported /\ Continued)
<1>1. /\ TypeOK /\ TypeOK' /\ Called /\ Reported /\ Continued /\ [SystemNext]_systemVars
      => Called' /\ Reported' /\ Continued'
  BY CalledStep, ReportedStep, ContinuedStep
<1>2. SystemSpec => []TypeOK
  BY ServiceUsesQueue, TypeCorrect, PTL
<1> QED
  BY <1>1, <1>2, SystemInitially, PTL DEF SystemSpec

(* A message that counts as handled has its report, and its comment on the   *)
(* pull request, with any duplicates, retries, crashes and lost leases.      *)
THEOREM HandledIsReported == SystemSpec => []HandledHasReport
<1>1. Reported => HandledHasReport
  BY DEF Reported
<1> QED
  BY <1>1, SystemInvariance, PTL

(* It takes both a lease that ran out under its worker and a crash or a      *)
(* Redis error to leave a task that is not finished with nobody to continue  *)
(* it; calls that fail in the handler never do.                              *)
THEOREM StrandedTakesTwo ==
  SystemSpec => [](overruns = 0 \/ (crashes = 0 /\ faults = 0) => NothingStranded)
<1>1. Called /\ Continued =>
        (overruns = 0 \/ (crashes = 0 /\ faults = 0) => NothingStranded)
  <2> SUFFICES ASSUME Called, Continued, overruns = 0 \/ (crashes = 0 /\ faults = 0),
                      Submitted # {}, Open = {},
                      \A w \in Workers : pc[w] \notin {"handle", "requeue", "bury", "notify"},
                      task \notin Final
               PROVE  FALSE
    BY DEF NothingStranded
  <2>1. ~EntryWaits
    BY DEF EntryWaits, Open
  <2>2. PICK w \in Workers : Carries(w)
    BY <2>1 DEF Continued
  <2> QED
    BY <2>2 DEF Called, Carries, Handling, Alerting
<1> QED
  BY <1>1, SystemInvariance, PTL

(* In particular one mishap, whatever it is, strands no task.                *)
THEOREM OneMishapStrandsNothing ==
  ASSUME MaxMishaps <= 1
  PROVE  SystemSpec => []NothingStranded
<1> DEFINE Few == Mishaps <= MaxMishaps
<1>1. SystemInit => Few
  BY ReviewAssumption DEF SystemInit, Init, Mishaps
<1>2. TypeOK /\ Few /\ [SystemNext]_systemVars => Few'
  <2> SUFFICES ASSUME TypeOK, Few, [SystemNext]_systemVars
               PROVE  Few'
    OBVIOUS
  <2>1. CASE \/ \E w \in Workers : Interrupted(w) \/ PollFails(w)
             \/ \E id \in pending : LeaseRunsOut(id)
    BY <2>1 DEF Interrupted, PollFails, LeaseRunsOut
  <2>2. CASE UNCHANGED <<crashes, faults, overruns>>
    BY <2>2 DEF Mishaps
  <2>3. CASE Others
    BY <2>1, <2>2, <2>3 DEF Others, CreateTask, CancelTask, SubmitTask, ResumeTask, Submit,
       systemVars, queueVars
  <2>4. ASSUME NEW w \in Workers, Serves(w) \/ Alerts(w) \/ QueueStep(w) \/ ComesBack(w)
        PROVE  UNCHANGED <<crashes, faults, overruns>>
    BY <2>4 DEF Serves, Alerts, queueVars, QueueStep, ComesBack, Poll, Reclaim, NextClaimed,
       ReadNew, ReadNothing, Requeue, Bury, Ack, Restart
  <2>5. ASSUME NEW w \in Workers, Leaves(w), ~Interrupted(w)
        PROVE  UNCHANGED <<crashes, faults, overruns>>
    BY <2>5 DEF Leaves, Returns, Raises, DeadLetterAlert, HandlerReturns, HandlerFails,
       FailHandler, Notify
  <2> QED
    BY <2>1, <2>2, <2>3, <2>4, <2>5, Kinds DEF Resets
<1>3. TypeOK /\ Few => overruns = 0 \/ (crashes = 0 /\ faults = 0)
  BY ReviewAssumption DEF TypeOK, Mishaps
<1> HIDE DEF Few
<1> QED
  BY <1>1, <1>2, <1>3, SystemInvariance, StrandedTakesTwo, PTL DEF SystemSpec
===============================================================================
