------------------------------ MODULE GitHubProofs ------------------------------
(***************************************************************************)
(* Proofs about what the service exchanges with GitHub.                    *)
(*                                                                         *)
(* The webhook intake, for any number of deliveries, payloads, threads,    *)
(* requests, faults and crashes: the types, one task for each delivery, the*)
(* binding of a delivery to its payload, and the answers.                  *)
(*                                                                         *)
(* Automatic fixes, for any number of requests and failures, any files,    *)
(* pushes and patches: what is published was tested, is reported truly, and*)
(* is the patch and nothing else.  The last rests on an algorithm: a patch *)
(* that applies can be taken back (TakenBack), which is shown from what    *)
(* each step of ApplyHunks leaves behind, as the lines of a file.  The     *)
(* induction over the steps is over sets of numbers (Smallest, Upwards,    *)
(* Downwards).                                                             *)
(***************************************************************************)
EXTENDS WebhookIntake, Repair, FiniteSetTheorems, WellFoundedInduction, TLAPS

(* The thread has won the claim and goes on with the delivery. *)
Working == {"validate", "create", "submit", "complete"}

(* The delivery of a thread past the claim is bound to the thread's payload. *)
Bound ==
  \A h \in Threads :
    pc[h] \in Working \cup {"duplicate"} => claimed[Delivery(h)] = Payload(h)

(* Only the thread that won the claim works on a delivery. *)
Alone ==
  \A g, h \in Threads :
    pc[g] \in Working /\ pc[h] \in Working /\ Delivery(g) = Delivery(h) => g = h

(* A task was created for a delivery that is claimed, at most one for each,  *)
(* and none before the thread that won the claim creates it.                 *)
RowsClaimed == \A t \in Tasks : rows[t] # NoOne => claimed[rows[t]] # NoOne
RowsUnique == \A t, u \in Tasks : rows[t] = rows[u] /\ rows[t] # NoOne => t = u
RowsLater ==
  \A h \in Threads : pc[h] \in {"validate", "create"} =>
    \A t \in Tasks : rows[t] # Delivery(h)

(* The task a thread has created, and the one a delivery is completed with,  *)
(* is the delivery's own; the latter has been queued.                        *)
OwnTask ==
  \A h \in Threads : pc[h] \in {"submit", "complete"} =>
    /\ rows[request[h].task] = Delivery(h)
    /\ pc[h] = "complete" => request[h].task \in queued
Completed ==
  \A d \in Deliveries : completed[d] # NoOne =>
    completed[d] \in queued /\ rows[completed[d]] = d

(* An answer other than a refusal was given to the payload of the claim.     *)
AnswersBound ==
  \A a \in answers : a.kind \notin {"mismatch", "error"} => claimed[a.delivery] = a.payload

ThreadInv == Bound /\ Alone /\ RowsClaimed /\ RowsUnique /\ RowsLater /\ OwnTask
AnswerInv == Completed /\ AnswersBound /\ AnswerKept
-------------------------------------------------------------------------------
(* Every step keeps the types. *)
LEMMA TypeStep == TypeOK /\ [Next]_intakeVars => TypeOK'
<1> SUFFICES ASSUME TypeOK, [Next]_intakeVars PROVE TypeOK'
  OBVIOUS
<1> USE IntakeAssumption
<1>1. ASSUME NEW h \in Threads, NEW d \in Deliveries, NEW p \in Payloads, Receive(h, d, p)
      PROVE  TypeOK'
  <2>1. request' \in [Threads -> Request] /\ request'[h].delivery = d /\ request'[h].payload = p
    BY <1>1 DEF Receive, TypeOK, Request
  <2> QED
    BY <1>1, <2>1 DEF Receive, TypeOK, Delivery, Payload
<1>2. ASSUME NEW h \in Threads, pc[h] # "idle", NEW kind \in Kinds,
             NEW task \in Tasks \cup {NoOne}, Answer(h, kind, task)
      PROVE  /\ answers' \subseteq [delivery : Deliveries, payload : Payloads, kind : Kinds,
                                     task : Tasks \cup {NoOne}]
             /\ pc' = [pc EXCEPT ![h] = "idle"]
             /\ request' \in [Threads -> Request]
             /\ \A g \in Threads : g # h => request'[g] = request[g]
  <2>1. Idle \in Request
    BY DEF Idle, Request
  <2>2. Delivery(h) \in Deliveries /\ Payload(h) \in Payloads
    BY <1>2 DEF TypeOK
  <2> QED
    BY <1>2, <2>1, <2>2 DEF Answer, TypeOK
<1>3. ASSUME NEW h \in Threads, Claim(h) PROVE TypeOK'
  BY <1>3 DEF Claim, Goto, TypeOK, Delivery, Payload, Request
<1>4. ASSUME NEW h \in Threads, ClaimDuplicate(h) PROVE TypeOK'
  BY <1>4 DEF ClaimDuplicate, Goto, TypeOK, Delivery, Payload, Request
<1>5. ASSUME NEW h \in Threads, Accept(h) PROVE TypeOK'
  BY <1>5 DEF Accept, Goto, TypeOK, Delivery, Payload, Request
<1>6. ASSUME NEW h \in Threads, Submit(h) PROVE TypeOK'
  BY <1>6 DEF Submit, Goto, TypeOK, Delivery, Payload, Request
<1>7. ASSUME NEW h \in Threads, ClaimMismatch(h) PROVE TypeOK'
  <2>1. pc[h] # "idle" /\ Answer(h, "mismatch", NoOne)
    BY <1>7 DEF ClaimMismatch
  <2>2. "mismatch" \in Kinds /\ NoOne \in Tasks \cup {NoOne}
    BY <2>1 DEF Kinds, TypeOK, Request
  <2> QED
    BY <1>2, <1>7, <2>1, <2>2 DEF ClaimMismatch, TypeOK, Delivery, Payload
<1>8. ASSUME NEW h \in Threads, AnswerDuplicate(h) PROVE TypeOK'
  <2>1. pc[h] # "idle" /\ Answer(h, "duplicate", completed[Delivery(h)])
    BY <1>8 DEF AnswerDuplicate
  <2>2. "duplicate" \in Kinds /\ completed[Delivery(h)] \in Tasks \cup {NoOne}
    BY <2>1 DEF Kinds, TypeOK, Request
  <2> QED
    BY <1>2, <1>8, <2>1, <2>2 DEF AnswerDuplicate, TypeOK, Delivery, Payload
<1>9. ASSUME NEW h \in Threads, Ignore(h) PROVE TypeOK'
  <2>1. pc[h] # "idle" /\ Answer(h, "ignored", NoOne)
    BY <1>9 DEF Ignore
  <2>2. "ignored" \in Kinds /\ NoOne \in Tasks \cup {NoOne}
    BY <2>1 DEF Kinds, TypeOK, Request
  <2> QED
    BY <1>2, <1>9, <2>1, <2>2 DEF Ignore, TypeOK, Delivery, Payload
<1>10. ASSUME NEW h \in Threads, Reject(h) PROVE TypeOK'
  <2>1. pc[h] # "idle" /\ Answer(h, "rejected", NoOne)
    BY <1>10 DEF Reject
  <2>2. "rejected" \in Kinds /\ NoOne \in Tasks \cup {NoOne}
    BY <2>1 DEF Kinds, TypeOK, Request
  <2> QED
    BY <1>2, <1>10, <2>1, <2>2 DEF Reject, TypeOK, Delivery, Payload
<1>11. ASSUME NEW h \in Threads, Complete(h) PROVE TypeOK'
  <2>1. pc[h] # "idle" /\ Answer(h, "queued", request[h].task)
    BY <1>11 DEF Complete
  <2>2. "queued" \in Kinds /\ request[h].task \in Tasks \cup {NoOne}
    BY <2>1 DEF Kinds, TypeOK, Request
  <2> QED
    BY <1>2, <1>11, <2>1, <2>2 DEF Complete, TypeOK, Delivery, Payload
<1>12. ASSUME NEW h \in Threads, Fault(h) PROVE TypeOK'
  <2>1. pc[h] # "idle" /\ Answer(h, "error", NoOne)
    BY <1>12 DEF Fault
  <2>2. "error" \in Kinds /\ NoOne \in Tasks \cup {NoOne}
    BY <2>1 DEF Kinds, TypeOK, Request
  <2> QED
    BY <1>2, <1>12, <2>1, <2>2 DEF Fault, TypeOK, Delivery, Payload
<1>13. ASSUME NEW h \in Threads, Create(h) PROVE TypeOK'
  <2>1. PICK t \in Tasks : /\ rows' = [rows EXCEPT ![t] = Delivery(h)]
                          /\ request' = [request EXCEPT ![h].task = t]
    BY <1>13 DEF Create
  <2>2. Delivery(h) \in Deliveries
    BY <1>13 DEF Create, TypeOK
  <2> QED
    BY <1>13, <2>1, <2>2 DEF Create, TypeOK, Delivery, Payload, Request
<1>14. ASSUME NEW h \in Threads, Crash(h) PROVE TypeOK'
  <2>1. Idle \in Request
    BY DEF Idle, Request
  <2> QED
    BY <1>14, <2>1 DEF Crash, TypeOK, Delivery, Payload
<1>15. CASE UNCHANGED intakeVars
  BY <1>15 DEF intakeVars, TypeOK, Delivery, Payload
<1> QED
  BY <1>1, <1>3, <1>4, <1>5, <1>6, <1>7, <1>8, <1>9, <1>10, <1>11, <1>12, <1>13, <1>14, <1>15
     DEF Next, Handle

(* Every reachable state is typed. *)
THEOREM TypeCorrect == Spec => []TypeOK
<1>1. Init => TypeOK
  BY IntakeAssumption DEF Init, TypeOK, Idle, Request
<1> QED
  BY <1>1, TypeStep, PTL DEF Spec

-------------------------------------------------------------------------------
(* A thread that becomes idle disturbs nothing the others rely on.          *)
LEMMA Released ==
  ASSUME TypeOK, ThreadInv, NEW h \in Threads,
         pc' = [pc EXCEPT ![h] = "idle"], request' = [request EXCEPT ![h] = Idle],
         UNCHANGED <<claimed, rows, queued>>
  PROVE  ThreadInv'
<1>1. \A g \in Threads : pc'[g] # "idle" =>
        g # h /\ pc'[g] = pc[g] /\ request'[g] = request[g]
  BY DEF TypeOK
<1>2. Bound' /\ Alone'
  BY <1>1 DEF ThreadInv, Bound, Alone, Working, Delivery, Payload
<1>3. RowsClaimed' /\ RowsUnique'
  BY DEF ThreadInv, RowsClaimed, RowsUnique
<1>4. RowsLater' /\ OwnTask'
  BY <1>1 DEF ThreadInv, RowsLater, OwnTask, Delivery
<1> QED
  BY <1>2, <1>3, <1>4 DEF ThreadInv

(* The claim decides which thread works on a delivery.                      *)
LEMMA ThreadStep == TypeOK /\ ThreadInv /\ [Next]_intakeVars => ThreadInv'
<1> SUFFICES ASSUME TypeOK, ThreadInv, [Next]_intakeVars PROVE ThreadInv'
  OBVIOUS
<1> USE IntakeAssumption
<1>1. ASSUME NEW h \in Threads, NEW d \in Deliveries, NEW p \in Payloads, Receive(h, d, p)
      PROVE  ThreadInv'
  <2>1. /\ pc'[h] = "claim" /\ UNCHANGED <<claimed, rows, queued>>
        /\ \A g \in Threads \ {h} : pc'[g] = pc[g] /\ request'[g] = request[g]
    BY <1>1 DEF Receive, TypeOK
  <2>2. Bound' /\ Alone'
    BY <2>1 DEF ThreadInv, Bound, Alone, Working, Delivery, Payload
  <2>3. RowsClaimed' /\ RowsUnique'
    BY <2>1 DEF ThreadInv, RowsClaimed, RowsUnique
  <2>4. RowsLater' /\ OwnTask'
    BY <2>1 DEF ThreadInv, RowsLater, OwnTask, Delivery
  <2> QED
    BY <2>2, <2>3, <2>4 DEF ThreadInv
<1>2. ASSUME NEW h \in Threads, Claim(h) PROVE ThreadInv'
  <2>1. /\ pc[h] = "claim" /\ claimed[Delivery(h)] = NoOne
        /\ pc' = [pc EXCEPT ![h] = "validate"]
        /\ claimed' = [claimed EXCEPT ![Delivery(h)] = Payload(h)]
        /\ UNCHANGED <<request, rows, queued>>
    BY <1>2 DEF Claim, Goto
  <2>2. /\ Delivery(h) \in Deliveries /\ Payload(h) \in Payloads
        /\ claimed'[Delivery(h)] = Payload(h) /\ claimed'[Delivery(h)] # NoOne
        /\ \A d \in Deliveries : d # Delivery(h) => claimed'[d] = claimed[d]
    BY <2>1 DEF TypeOK
  <2>3. /\ pc'[h] = "validate"
        /\ \A g \in Threads \ {h} : pc'[g] = pc[g]
        /\ \A g \in Threads : Delivery(g)' = Delivery(g) /\ Payload(g)' = Payload(g)
    BY <2>1 DEF TypeOK, Delivery, Payload
  <2>4. \A g \in Threads : pc[g] \in Working \cup {"duplicate"} =>
          /\ Delivery(g) \in Deliveries /\ Delivery(g) # Delivery(h)
          /\ claimed[Delivery(g)] = Payload(g)
    <3> SUFFICES ASSUME NEW g \in Threads, pc[g] \in Working \cup {"duplicate"}
                 PROVE  /\ Delivery(g) \in Deliveries /\ Delivery(g) # Delivery(h)
                        /\ claimed[Delivery(g)] = Payload(g)
      OBVIOUS
    <3>1. Delivery(g) \in Deliveries /\ Payload(g) \in Payloads
      BY DEF TypeOK, Working
    <3>2. claimed[Delivery(g)] = Payload(g)
      BY DEF ThreadInv, Bound
    <3> QED
      BY <3>1, <3>2, <2>1
  <2>5. \A t \in Tasks : rows[t] # Delivery(h)
    BY <2>1, <2>2 DEF ThreadInv, RowsClaimed
  <2>6. Bound'
    BY <2>2, <2>3, <2>4 DEF Bound
  <2>7. Alone'
    BY <2>3, <2>4 DEF ThreadInv, Alone, Working
  <2>8. RowsClaimed' /\ RowsUnique'
    BY <2>1, <2>2, <2>5 DEF ThreadInv, RowsClaimed, RowsUnique, TypeOK
  <2>9. RowsLater' /\ OwnTask'
    BY <2>1, <2>3, <2>5 DEF ThreadInv, RowsLater, OwnTask
  <2> QED
    BY <2>6, <2>7, <2>8, <2>9 DEF ThreadInv
<1>3. ASSUME NEW h \in Threads, ClaimDuplicate(h) PROVE ThreadInv'
  <2>1. /\ pc'[h] = "duplicate" /\ claimed[Delivery(h)] = Payload(h)
        /\ \A g \in Threads \ {h} : pc'[g] = pc[g]
        /\ UNCHANGED <<request, claimed, rows, queued>>
    BY <1>3 DEF ClaimDuplicate, Goto, TypeOK
  <2>2. Bound' /\ Alone'
    BY <2>1 DEF ThreadInv, Bound, Alone, Working, Delivery, Payload
  <2>3. RowsClaimed' /\ RowsUnique'
    BY <2>1 DEF ThreadInv, RowsClaimed, RowsUnique
  <2>4. RowsLater' /\ OwnTask'
    BY <2>1 DEF ThreadInv, RowsLater, OwnTask, Delivery
  <2> QED
    BY <2>2, <2>3, <2>4 DEF ThreadInv
<1>4. ASSUME NEW h \in Threads, Accept(h) PROVE ThreadInv'
  <2>1. /\ pc[h] = "validate" /\ pc'[h] = "create"
        /\ \A g \in Threads \ {h} : pc'[g] = pc[g]
        /\ UNCHANGED <<request, claimed, rows, queued>>
    BY <1>4 DEF Accept, Goto, TypeOK
  <2>2. Bound' /\ Alone'
    BY <2>1 DEF ThreadInv, Bound, Alone, Working, Delivery, Payload
  <2>3. RowsClaimed' /\ RowsUnique'
    BY <2>1 DEF ThreadInv, RowsClaimed, RowsUnique
  <2>4. RowsLater' /\ OwnTask'
    BY <2>1 DEF ThreadInv, RowsLater, OwnTask, Delivery
  <2> QED
    BY <2>2, <2>3, <2>4 DEF ThreadInv
<1>5. ASSUME NEW h \in Threads, Create(h) PROVE ThreadInv'
  <2>1. PICK t \in Tasks : /\ rows[t] = NoOne
                          /\ rows' = [rows EXCEPT ![t] = Delivery(h)]
                          /\ request' = [request EXCEPT ![h].task = t]
    BY <1>5 DEF Create
  <2>2. /\ pc[h] = "create" /\ pc'[h] = "submit"
        /\ \A g \in Threads \ {h} : pc'[g] = pc[g]
        /\ UNCHANGED <<claimed, queued>>
        /\ Delivery(h) \in Deliveries /\ Payload(h) \in Payloads
    BY <1>5 DEF Create, TypeOK
  <2>3. /\ \A g \in Threads : Delivery(g)' = Delivery(g) /\ Payload(g)' = Payload(g)
        /\ \A g \in Threads \ {h} : request'[g] = request[g]
        /\ request'[h].task = t
    BY <2>1 DEF TypeOK, Request, Delivery, Payload
  <2>4. rows'[t] = Delivery(h) /\ \A u \in Tasks \ {t} : rows'[u] = rows[u]
    BY <2>1 DEF TypeOK
  <2>5. /\ \A u \in Tasks : rows[u] # Delivery(h)
        /\ claimed[Delivery(h)] = Payload(h)
        /\ \A g \in Threads : pc[g] \in Working /\ Delivery(g) = Delivery(h) => g = h
    BY <2>2 DEF ThreadInv, RowsLater, Bound, Alone, Working
  <2>6. Bound' /\ Alone'
    BY <2>2, <2>3 DEF ThreadInv, Bound, Alone, Working
  <2>7. RowsClaimed' /\ RowsUnique'
    BY <2>2, <2>4, <2>5 DEF ThreadInv, RowsClaimed, RowsUnique
  <2>8. RowsLater'
    BY <2>2, <2>3, <2>4, <2>5 DEF ThreadInv, RowsLater, Working
  <2>9. OwnTask'
    <3> SUFFICES ASSUME NEW g \in Threads, pc'[g] \in {"submit", "complete"}
                 PROVE  /\ rows'[request'[g].task] = Delivery(g)'
                        /\ pc'[g] = "complete" => request'[g].task \in queued'
      BY DEF OwnTask
    <3>1. CASE g = h
      BY <2>2, <2>3, <2>4, <3>1
    <3>2. CASE g # h
      <4>1. /\ request[g].task \in Tasks /\ rows[request[g].task] = Delivery(g)
            /\ pc[g] = "complete" => request[g].task \in queued
            /\ Delivery(g) \in Deliveries
        BY <2>2, <3>2 DEF ThreadInv, OwnTask, TypeOK
      <4>2. request[g].task # t
        BY <2>1, <4>1
      <4> QED
        BY <2>2, <2>3, <2>4, <3>2, <4>1, <4>2
    <3> QED
      BY <3>1, <3>2
  <2> QED
    BY <2>6, <2>7, <2>8, <2>9 DEF ThreadInv
<1>6. ASSUME NEW h \in Threads, Submit(h) PROVE ThreadInv'
  <2>1. /\ pc[h] = "submit" /\ pc'[h] = "complete"
        /\ \A g \in Threads \ {h} : pc'[g] = pc[g]
        /\ queued' = queued \cup {request[h].task}
        /\ UNCHANGED <<request, claimed, rows>>
    BY <1>6 DEF Submit, Goto, TypeOK
  <2>2. Bound' /\ Alone'
    BY <2>1 DEF ThreadInv, Bound, Alone, Working, Delivery, Payload
  <2>3. RowsClaimed' /\ RowsUnique'
    BY <2>1 DEF ThreadInv, RowsClaimed, RowsUnique
  <2>4. RowsLater' /\ OwnTask'
    BY <2>1 DEF ThreadInv, RowsLater, OwnTask, Delivery
  <2> QED
    BY <2>2, <2>3, <2>4 DEF ThreadInv
<1>7. ASSUME NEW h \in Threads,
             \/ ClaimMismatch(h) \/ AnswerDuplicate(h) \/ Ignore(h) \/ Reject(h)
             \/ Complete(h) \/ Fault(h) \/ Crash(h)
      PROVE  ThreadInv'
  BY <1>7, Released
     DEF ClaimMismatch, AnswerDuplicate, Ignore, Reject, Complete, Fault, Crash, Answer
<1>8. CASE UNCHANGED intakeVars
  BY <1>8 DEF intakeVars, ThreadInv, Bound, Alone, RowsClaimed, RowsUnique, RowsLater,
              OwnTask, Delivery, Payload
<1> QED
  BY <1>1, <1>2, <1>3, <1>4, <1>5, <1>6, <1>7, <1>8 DEF Next, Handle

-------------------------------------------------------------------------------
(* A claim, a row and a place in the queue are never taken back.            *)
LEMMA NothingTakenBack ==
  ASSUME TypeOK, [Next]_intakeVars
  PROVE  /\ \A d \in Deliveries : claimed[d] # NoOne => claimed'[d] = claimed[d]
         /\ \A t \in Tasks : rows[t] # NoOne => rows'[t] = rows[t]
         /\ queued \subseteq queued'
<1>1. ASSUME NEW h \in Threads, Claim(h)
      PROVE  /\ \A d \in Deliveries : claimed[d] # NoOne => claimed'[d] = claimed[d]
             /\ UNCHANGED <<rows, queued>>
  BY <1>1 DEF Claim, TypeOK
<1>2. ASSUME NEW h \in Threads, Create(h)
      PROVE  /\ \A t \in Tasks : rows[t] # NoOne => rows'[t] = rows[t]
             /\ UNCHANGED <<claimed, queued>>
  BY <1>2 DEF Create, TypeOK
<1>3. ASSUME NEW h \in Threads, Submit(h)
      PROVE  queued \subseteq queued' /\ UNCHANGED <<claimed, rows>>
  BY <1>3 DEF Submit
<1>4. ASSUME NEW h \in Threads,
             \/ \E d \in Deliveries, p \in Payloads : Receive(h, d, p)
             \/ ClaimDuplicate(h) \/ ClaimMismatch(h) \/ AnswerDuplicate(h) \/ Ignore(h)
             \/ Accept(h) \/ Reject(h) \/ Complete(h) \/ Fault(h) \/ Crash(h)
      PROVE  UNCHANGED <<claimed, rows, queued>>
  BY <1>4 DEF Receive, ClaimDuplicate, ClaimMismatch, AnswerDuplicate, Ignore, Accept,
              Reject, Complete, Fault, Crash
<1> QED
  BY <1>1, <1>2, <1>3, <1>4 DEF Next, Handle, intakeVars

(* What a delivery is completed with is the task of the thread that won the *)
(* claim, and an answer repeats one of the two.                             *)
LEMMA AnswerStep ==
  TypeOK /\ ThreadInv /\ AnswerInv /\ [Next]_intakeVars => AnswerInv'
<1> SUFFICES ASSUME TypeOK, ThreadInv, AnswerInv, [Next]_intakeVars PROVE AnswerInv'
  OBVIOUS
<1> USE IntakeAssumption
<1> DEFINE Fine(a) ==
             /\ a.kind \notin {"mismatch", "error"} => claimed'[a.delivery] = a.payload
             /\ a.task # NoOne => a.task \in queued' /\ rows'[a.task] = a.delivery
<1>1. \A a \in answers : Fine(a)
  <2> SUFFICES ASSUME NEW a \in answers PROVE Fine(a)
    OBVIOUS
  <2>1. /\ a.delivery \in Deliveries /\ a.payload \in Payloads
        /\ a.task \in Tasks \cup {NoOne}
        /\ a.kind \notin {"mismatch", "error"} => claimed[a.delivery] = a.payload
        /\ a.task # NoOne => a.task \in queued /\ rows[a.task] = a.delivery
    BY DEF TypeOK, AnswerInv, AnswersBound, AnswerKept
  <2>2. a.payload # NoOne /\ a.delivery # NoOne
    BY <2>1
  <2> QED
    BY <2>1, <2>2, NothingTakenBack
<1>2. \A d \in Deliveries : completed[d] # NoOne =>
        completed[d] \in queued' /\ rows'[completed[d]] = d
  BY NothingTakenBack DEF AnswerInv, Completed, TypeOK
<1>3. ASSUME answers' = answers, completed' = completed PROVE AnswerInv'
  BY <1>1, <1>2, <1>3 DEF AnswerInv, Completed, AnswersBound, AnswerKept
<1>4. ASSUME NEW h \in Threads, NEW kind, NEW task, Answer(h, kind, task),
             UNCHANGED <<claimed, rows, queued>>,
             \A d \in Deliveries : \/ completed'[d] \in {completed[d], NoOne}
                                   \/ d = Delivery(h) /\ completed'[d] = task,
             kind \notin {"mismatch", "error"} => claimed[Delivery(h)] = Payload(h),
             task # NoOne => task \in queued /\ rows[task] = Delivery(h)
      PROVE  AnswerInv'
  <2> DEFINE a == [delivery |-> Delivery(h), payload |-> Payload(h), kind |-> kind,
                   task |-> task]
  <2>1. answers' = answers \cup {a}
    BY <1>4 DEF Answer
  <2>2. Fine(a)
    BY <1>4
  <2> HIDE DEF a
  <2>3. AnswersBound' /\ AnswerKept'
    BY <1>1, <2>1, <2>2 DEF AnswersBound, AnswerKept
  <2>4. Completed'
    BY <1>2, <1>4 DEF Completed
  <2> QED
    BY <2>3, <2>4 DEF AnswerInv
<1>5. ASSUME NEW h \in Threads, ClaimMismatch(h) \/ Fault(h) PROVE AnswerInv'
  <2>1. /\ UNCHANGED <<claimed, completed, rows, queued>>
        /\ Answer(h, "mismatch", NoOne) \/ Answer(h, "error", NoOne)
    BY <1>5 DEF ClaimMismatch, Fault
  <2> QED
    BY <1>4, <2>1
<1>6. ASSUME NEW h \in Threads, Reject(h) PROVE AnswerInv'
  <2>1. /\ UNCHANGED <<claimed, completed, rows, queued>>
        /\ pc[h] = "validate" /\ Answer(h, "rejected", NoOne)
    BY <1>6 DEF Reject
  <2> QED
    BY <1>4, <2>1 DEF ThreadInv, Bound, Working
<1>7. ASSUME NEW h \in Threads, AnswerDuplicate(h) PROVE AnswerInv'
  <2>1. /\ pc[h] = "duplicate" /\ Answer(h, "duplicate", completed[Delivery(h)])
        /\ UNCHANGED <<claimed, completed, rows, queued>>
    BY <1>7 DEF AnswerDuplicate
  <2>2. Delivery(h) \in Deliveries /\ claimed[Delivery(h)] = Payload(h)
    BY <2>1 DEF TypeOK, ThreadInv, Bound
  <2> QED
    BY <1>4, <2>1, <2>2 DEF AnswerInv, Completed
<1>8. ASSUME NEW h \in Threads, Ignore(h) PROVE AnswerInv'
  <2>1. /\ pc[h] = "validate" /\ Answer(h, "ignored", NoOne)
        /\ completed' = [completed EXCEPT ![Delivery(h)] = NoOne]
        /\ UNCHANGED <<claimed, rows, queued>>
    BY <1>8 DEF Ignore
  <2>2. Delivery(h) \in Deliveries /\ claimed[Delivery(h)] = Payload(h)
    BY <2>1 DEF TypeOK, ThreadInv, Bound, Working
  <2> QED
    BY <1>4, <2>1, <2>2 DEF TypeOK
<1>9. ASSUME NEW h \in Threads, Complete(h) PROVE AnswerInv'
  <2>1. /\ pc[h] = "complete" /\ Answer(h, "queued", request[h].task)
        /\ completed' = [completed EXCEPT ![Delivery(h)] = request[h].task]
        /\ UNCHANGED <<claimed, rows, queued>>
    BY <1>9 DEF Complete
  <2>2. /\ Delivery(h) \in Deliveries /\ claimed[Delivery(h)] = Payload(h)
        /\ request[h].task \in queued /\ rows[request[h].task] = Delivery(h)
    BY <2>1 DEF TypeOK, ThreadInv, Bound, OwnTask, Working
  <2> QED
    BY <1>4, <2>1, <2>2 DEF TypeOK
<1>10. ASSUME NEW h \in Threads,
             \/ \E d \in Deliveries, p \in Payloads : Receive(h, d, p)
             \/ Claim(h) \/ ClaimDuplicate(h) \/ Accept(h) \/ Create(h) \/ Submit(h) \/ Crash(h)
      PROVE  UNCHANGED <<answers, completed>>
  BY <1>10 DEF Receive, Claim, ClaimDuplicate, Accept, Create, Submit, Crash
<1> QED
  BY <1>3, <1>5, <1>6, <1>7, <1>8, <1>9, <1>10 DEF Next, Handle, intakeVars

(* The inductive invariant holds.                                           *)
LEMMA IntakeInvariant == Spec => [](TypeOK /\ ThreadInv /\ AnswerInv)
<1>1. Init => ThreadInv /\ AnswerInv
  BY DEF Init, ThreadInv, Bound, Alone, RowsClaimed, RowsUnique, RowsLater, OwnTask,
         AnswerInv, Completed, AnswersBound, AnswerKept, Working
<1> QED
  BY <1>1, TypeCorrect, ThreadStep, AnswerStep, PTL DEF Spec

(* However often, and on however many threads, a delivery arrives: at most  *)
(* one task is created for it.                                              *)
THEOREM OneTask == Spec => []OneTaskPerDelivery
<1>1. RowsUnique => OneTaskPerDelivery
  <2> SUFFICES ASSUME RowsUnique, NEW d \in Deliveries
               PROVE  Cardinality(TasksOf(d)) <= 1
    BY DEF OneTaskPerDelivery
  <2>1. CASE TasksOf(d) = {}
    BY <2>1, FS_EmptySet
  <2>2. ASSUME NEW t \in TasksOf(d) PROVE Cardinality(TasksOf(d)) <= 1
    <3>1. ASSUME NEW u \in TasksOf(d) PROVE u = t
      <4>1. u \in Tasks /\ t \in Tasks /\ rows[u] = d /\ rows[t] = d
        BY <2>2, <3>1 DEF TasksOf
      <4> QED
        BY <4>1, IntakeAssumption DEF RowsUnique
    <3>2. TasksOf(d) = {t}
      BY <2>2, <3>1
    <3>3. Cardinality({t}) = 1
      BY FS_Singleton
    <3> QED
      BY <3>2, <3>3
  <2> QED
    BY <2>1, <2>2
<1> QED
  BY <1>1, IntakeInvariant, PTL DEF ThreadInv

(* A delivery id is good for one payload only.                              *)
THEOREM PayloadsBound == Spec => []PayloadBound
<1>1. AnswersBound => PayloadBound
  BY DEF AnswersBound, PayloadBound
<1> QED
  BY <1>1, IntakeInvariant, PTL DEF AnswerInv

(* The id a sender was given stays the id of a queued task of its delivery. *)
THEOREM AnswersKept == Spec => []AnswerKept
  BY IntakeInvariant, PTL DEF AnswerInv

-------------------------------------------------------------------------------
(* Automatic fixes.                                                          *)

(* A set of numbers has a smallest one. *)
LEMMA Smallest ==
  ASSUME NEW S \in SUBSET Nat, S # {}
  PROVE  \E n \in S : \A m \in S : n <= m
<1> DEFINE less == OpToRel(<, Nat)
<1>1. IsWellFoundedOn(less, Nat)
  BY NatLessThanWellFounded
<1>2. \A m, n \in Nat : m < n => <<m, n>> \in less
  BY DEF OpToRel
<1> HIDE DEF less
<1>3. S \subseteq Nat
  OBVIOUS
<1>4. PICK n \in S : \A m \in S : ~(<<m, n>> \in less)
  BY <1>1, <1>3, WFMin
<1>5. \A m \in S : ~(m < n)
  BY <1>2, <1>3, <1>4
<1>6. \A m \in S : n <= m
  BY <1>3, <1>5
<1> QED
  BY <1>6

(* What is built up step by step from a first value. *)
Builds(f, S, base, step, n) ==
  /\ f \in [0 .. n -> S] /\ f[0] = base
  /\ \A k \in 1 .. n : f[k] = step[<<k, f[k - 1]>>]

LEMMA Built ==
  ASSUME NEW S, NEW base \in S, NEW n \in Nat, NEW step \in [(1 .. n) \X S -> S]
  PROVE  \E f : Builds(f, S, base, step, n)
<1> DEFINE Bad == {k \in Nat : k <= n /\ ~\E f : Builds(f, S, base, step, k)}
<1>1. SUFFICES ASSUME Bad # {} PROVE FALSE
  OBVIOUS
<1>2. PICK k \in Bad : \A m \in Bad : k <= m
  BY <1>1, Smallest
<1>3. CASE k = 0
  <2> DEFINE f == [i \in 0 .. 0 |-> base]
  <2>1. Builds(f, S, base, step, 0)
    BY DEF Builds
  <2> QED
    BY <1>2, <1>3, <2>1
<1>4. CASE k # 0
  <2>1. k - 1 \in Nat /\ k - 1 <= n /\ k - 1 \notin Bad
    BY <1>2, <1>4
  <2>2. PICK f : Builds(f, S, base, step, k - 1)
    BY <2>1
  <2> DEFINE g == [i \in 0 .. k |-> IF i # k THEN f[i] ELSE step[<<k, f[k - 1]>>]]
  <2>3. /\ f \in [0 .. k - 1 -> S] /\ f[0] = base
        /\ \A i \in 1 .. k - 1 : f[i] = step[<<i, f[i - 1]>>]
    BY <2>2 DEF Builds
  <2>4. k \in 1 .. n /\ f[k - 1] \in S /\ <<k, f[k - 1]>> \in (1 .. n) \X S
    BY <1>2, <1>4, <2>1, <2>3
  <2>5. step[<<k, f[k - 1]>>] \in S
    BY <2>4
  <2>6. g \in [0 .. k -> S] /\ g[0] = base
    BY <1>4, <2>1, <2>3, <2>5
  <2>7. ASSUME NEW i \in 1 .. k PROVE g[i] = step[<<i, g[i - 1]>>]
    <3>1. g[i - 1] = f[i - 1]
      BY <2>1
    <3>2. CASE i = k
      <4>1. g[k] = step[<<k, f[k - 1]>>]
        BY <2>1
      <4> HIDE DEF g
      <4> QED
        BY <3>1, <3>2, <4>1
    <3>3. CASE i # k
      <4>1. i \in 1 .. k - 1 /\ g[i] = f[i]
        BY <2>1, <3>3
      <4> HIDE DEF g
      <4> QED
        BY <2>3, <3>1, <4>1
    <3> QED
      BY <3>2, <3>3
  <2> HIDE DEF g
  <2>8. Builds(g, S, base, step, k)
    BY <2>6, <2>7 DEF Builds
  <2> QED
    BY <1>2, <2>8
<1> QED
  BY <1>3, <1>4

-------------------------------------------------------------------------------
(* Sequences: two that agree everywhere are equal; what three have to say.   *)
LEMMA SameSequence ==
  ASSUME NEW T, NEW s \in Seq(T), NEW t \in Seq(T), Len(s) = Len(t),
         \A i \in 1 .. Len(s) : s[i] = t[i]
  PROVE  s = t
OBVIOUS

Joins(t, a, b, c) ==
  /\ Len(t) = Len(a) + Len(b) + Len(c)
  /\ \A i \in 1 .. Len(a) : t[i] = a[i]
  /\ \A i \in 1 .. Len(b) : t[Len(a) + i] = b[i]
  /\ \A i \in 1 .. Len(c) : t[Len(a) + Len(b) + i] = c[i]

LEMMA Concatenated ==
  \A T : \A a, b, c \in Seq(T) : a \o b \o c \in Seq(T) /\ Joins(a \o b \o c, a, b, c)
<1> SUFFICES ASSUME NEW T, NEW a \in Seq(T), NEW b \in Seq(T), NEW c \in Seq(T)
             PROVE  a \o b \o c \in Seq(T) /\ Joins(a \o b \o c, a, b, c)
  OBVIOUS
<1>1. /\ a \o b \in Seq(T) /\ Len(a \o b) = Len(a) + Len(b)
      /\ \A i \in 1 .. Len(a) : (a \o b)[i] = a[i]
      /\ \A i \in 1 .. Len(b) : (a \o b)[Len(a) + i] = b[i]
  OBVIOUS
<1> DEFINE ab == a \o b
<1> HIDE DEF ab
<1>2. /\ ab \o c \in Seq(T) /\ Len(ab \o c) = Len(ab) + Len(c)
      /\ \A i \in 1 .. Len(ab) : (ab \o c)[i] = ab[i]
      /\ \A i \in 1 .. Len(c) : (ab \o c)[Len(ab) + i] = c[i]
  BY <1>1 DEF ab
<1>3. ab \in Seq(T) /\ Len(ab) = Len(a) + Len(b)
  BY <1>1 DEF ab
<1>4. \A i \in 1 .. Len(a) : i \in 1 .. Len(ab)
  BY <1>3
<1>5. \A i \in 1 .. Len(b) : Len(a) + i \in 1 .. Len(ab)
  BY <1>3
<1> QED
  BY <1>1, <1>2, <1>3, <1>4, <1>5 DEF ab, Joins

Copies(t, s, m, n) ==
  /\ Len(t) = n - m
  /\ \A i \in 1 .. n - m : t[i] = s[m + i]

LEMMA Part ==
  \A T : \A s \in Seq(T), m \in Nat, n \in Nat : m <= n /\ n <= Len(s) =>
    SubSeq(s, m + 1, n) \in Seq(T) /\ Copies(SubSeq(s, m + 1, n), s, m, n)
BY DEF Copies

-------------------------------------------------------------------------------
(* The place of a number among the members of a set: it grows with them and  *)
(* every place is taken.                                                     *)
LEMMA Ranks ==
  \A at : at \in SUBSET Nat /\ IsFiniteSet(at) =>
    /\ Cardinality(at) \in Nat
    /\ \A i \in at : Rank(at, i) \in 1 .. Cardinality(at)
    /\ \A i, j \in at : i < j => Rank(at, i) < Rank(at, j)
    /\ \A n \in 1 .. Cardinality(at) : \E i \in at : Rank(at, i) = n
<1> SUFFICES ASSUME NEW at \in SUBSET Nat, IsFiniteSet(at)
             PROVE  /\ Cardinality(at) \in Nat
                    /\ \A i \in at : Rank(at, i) \in 1 .. Cardinality(at)
                    /\ \A i, j \in at : i < j => Rank(at, i) < Rank(at, j)
                    /\ \A n \in 1 .. Cardinality(at) : \E i \in at : Rank(at, i) = n
  OBVIOUS
<1> DEFINE upto(i) == {j \in at : j <= i}
           N == Cardinality(at)
<1>1. N \in Nat
  BY FS_CardinalityType
<1>2. \A i : upto(i) \subseteq at
  OBVIOUS
<1>3. \A i : IsFiniteSet(upto(i)) /\ Cardinality(upto(i)) <= N /\ Cardinality(upto(i)) \in Nat
  BY <1>2, FS_Subset, FS_CardinalityType
<1>4. \A i \in at : Cardinality(upto(i)) # 0
  <2> SUFFICES ASSUME NEW i \in at PROVE Cardinality(upto(i)) # 0
    OBVIOUS
  <2>1. i \in upto(i)
    OBVIOUS
  <2> HIDE DEF upto
  <2> QED
    BY <1>3, <2>1, FS_EmptySet
<1>5. ASSUME NEW i \in at, NEW j \in at, i < j
      PROVE  Cardinality(upto(i)) < Cardinality(upto(j))
  <2>0. i \in Nat /\ j \in Nat /\ \A k \in at : k \in Nat
    OBVIOUS
  <2>4. j <= j /\ ~(j <= i) /\ \A k \in at : k <= i => k <= j
    BY <1>5, <2>0
  <2>1. upto(i) \subseteq upto(j) /\ j \in upto(j) /\ j \notin upto(i)
    BY <2>4, Zenon
  <2> HIDE DEF upto
  <2>2. upto(i) # upto(j) /\ upto(i) \subseteq upto(j)
    BY <2>1
  <2>3. Cardinality(upto(i)) <= Cardinality(upto(j))
        /\ (Cardinality(upto(i)) = Cardinality(upto(j)) => upto(i) = upto(j))
    BY <1>3, <2>2, FS_Subset
  <2> QED
    BY <1>3, <2>2, <2>3
<1> DEFINE f == [i \in at |-> Cardinality(upto(i))]
<1>6. f \in Injection(at, 1 .. N)
  <2>1. \A i \in at : Cardinality(upto(i)) \in 1 .. N
    BY <1>1, <1>3, <1>4
  <2> HIDE DEF upto, N
  <2>2. f \in [at -> 1 .. N]
    BY <2>1
  <2>3. \A i, j \in at : f[i] = f[j] => i = j
    <3> SUFFICES ASSUME NEW i \in at, NEW j \in at, i # j PROVE f[i] # f[j]
      OBVIOUS
    <3>1. i < j \/ j < i
      OBVIOUS
    <3>2. f[i] = Cardinality(upto(i)) /\ f[j] = Cardinality(upto(j))
      OBVIOUS
    <3> QED
      BY <1>3, <1>5, <3>1, <3>2
  <2> QED
    BY <2>2, <2>3 DEF Injection, IsInjective
<1>7. IsFiniteSet(1 .. N) /\ Cardinality(1 .. N) = N
  BY <1>1, FS_Interval
<1> HIDE DEF f
<1>8. f \in Surjection(at, 1 .. N)
  BY <1>6, <1>7, FS_Injection
<1>9. \A n \in 1 .. N : \E i \in at : f[i] = n
  BY <1>8 DEF Surjection
<1> USE DEF f
<1> HIDE DEF N
<1> QED
  BY <1>1, <1>3, <1>4, <1>5, <1>9 DEF Rank, N

-------------------------------------------------------------------------------
(* The sides of a hunk. *)
LEMMA SideType ==
  ASSUME NEW hunk, NEW n \in Nat, DOMAIN hunk.lines = 1 .. n, NEW tags
  PROVE  Side(hunk, tags) \in Seq({Side(hunk, tags)[k] : k \in DOMAIN Side(hunk, tags)})
<1> DEFINE at == {i \in DOMAIN hunk.lines : hunk.lines[i].tag \in tags}
<1>1. IsFiniteSet(1 .. n)
  BY FS_Interval
<1>2. IsFiniteSet(at)
  BY <1>1, FS_Subset
<1>3. Cardinality(at) \in Nat
  BY <1>2, FS_CardinalityType
<1> HIDE DEF at
<1>4. DOMAIN Side(hunk, tags) = 1 .. Cardinality(at)
  BY DEF Side, at
<1>5. \E place : Side(hunk, tags) = [k \in 1 .. Cardinality(at) |-> place[k]]
  <2>1. Side(hunk, tags) = [k \in 1 .. Cardinality(at) |-> Side(hunk, tags)[k]]
    BY <1>4 DEF Side, at
  <2> QED
    BY <2>1
<1> QED
  BY <1>3, <1>4, <1>5

(* The steps of ApplyHunks. *)
Begin == [ok |-> TRUE, cursor |-> 0, out |-> <<>>]
Progress(T) == [ok : BOOLEAN, cursor : Nat, out : Seq(T)]

Steps(f, content, hunks, T) ==
  /\ f \in [0 .. Len(hunks) -> Progress(T)] /\ f[0] = Begin
  /\ \A n \in 1 .. Len(hunks) : f[n] = Taken(content, f[n - 1], hunks[n])
  /\ ApplyHunks(content, hunks) =
       [ok |-> f[Len(hunks)].ok,
        out |-> f[Len(hunks)].out \o SubSeq(content, f[Len(hunks)].cursor + 1, Len(content))]

(* What a hunk must be for its step to be one. *)
Applicable(hunk, T) ==
  /\ hunk.start \in Int /\ hunk.old \in Nat /\ NewSide(hunk) \in Seq(T)

LEMMA TakenType ==
  ASSUME NEW T, NEW content \in Seq(T), NEW done \in Progress(T), NEW hunk, Applicable(hunk, T)
  PROVE  /\ Taken(content, done, hunk) \in Progress(T)
         /\ Taken(content, done, hunk).ok =>
              LET from == hunk.start - 1 IN
              /\ done.ok /\ Matches(hunk, content, done.cursor)
              /\ Taken(content, done, hunk) =
                   [ok |-> TRUE, cursor |-> from + hunk.old,
                    out |-> done.out \o SubSeq(content, done.cursor + 1, from) \o NewSide(hunk)]
<1>1. CASE ~done.ok \/ ~Matches(hunk, content, done.cursor)
  BY <1>1 DEF Taken, Progress
<1>2. CASE done.ok /\ Matches(hunk, content, done.cursor)
  <2> DEFINE from == hunk.start - 1
  <2>0. from >= done.cursor /\ from + hunk.old <= Len(content)
    BY <1>2, Zenon DEF Matches
  <2>1. /\ from \in Nat /\ done.cursor \in Nat /\ done.cursor <= from /\ from <= Len(content)
        /\ from + hunk.old \in Nat
    <3>1. hunk.start \in Int /\ hunk.old \in Nat /\ done.cursor \in Nat /\ Len(content) \in Nat
      BY DEF Applicable, Progress
    <3> QED
      BY <2>0, <3>1
  <2> DEFINE kept == SubSeq(content, done.cursor + 1, from)
  <2>2. kept \in Seq(T)
    BY <2>1, Part, Zenon
  <2>3. done.out \in Seq(T) /\ NewSide(hunk) \in Seq(T)
    BY DEF Progress, Applicable
  <2>4. Taken(content, done, hunk) = [ok |-> TRUE, cursor |-> from + hunk.old,
                                      out |-> done.out \o kept \o NewSide(hunk)]
    BY <1>2 DEF Taken
  <2> HIDE DEF kept, from
  <2>5. done.out \o kept \o NewSide(hunk) \in Seq(T)
    BY <2>2, <2>3, Concatenated, Zenon
  <2>6. Taken(content, done, hunk) \in Progress(T)
    BY <2>1, <2>4, <2>5 DEF Progress
  <2> QED
    BY <1>2, <2>4, <2>6 DEF kept, from
<1> QED
  BY <1>1, <1>2

LEMMA ApplySteps ==
  ASSUME NEW T, NEW content \in Seq(T), NEW hunks, Len(hunks) \in Nat,
         \A n \in 1 .. Len(hunks) : Applicable(hunks[n], T)
  PROVE  \E f : Steps(f, content, hunks, T)
<1> DEFINE N == Len(hunks)
           Is(f) == f = [n \in 0 .. N |->
                      IF n = 0 THEN Begin ELSE Taken(content, f[n - 1], hunks[n])]
           step == [x \in (1 .. N) \X Progress(T) |-> Taken(content, x[2], hunks[x[1]])]
           done == CHOOSE f : Is(f)
<1>1. Begin \in Progress(T)
  BY DEF Begin, Progress
<1>2. step \in [(1 .. N) \X Progress(T) -> Progress(T)]
  <2> SUFFICES ASSUME NEW n \in 1 .. N, NEW d \in Progress(T)
               PROVE  Taken(content, d, hunks[n]) \in Progress(T)
    OBVIOUS
  <2> QED
    BY TakenType
<1> HIDE DEF step
<1>3. PICK f : Builds(f, Progress(T), Begin, step, N)
  BY <1>1, <1>2, Built
<1>4. \A n \in 1 .. N : f[n] = Taken(content, f[n - 1], hunks[n])
  <2> SUFFICES ASSUME NEW n \in 1 .. N PROVE f[n] = Taken(content, f[n - 1], hunks[n])
    OBVIOUS
  <2>0. n - 1 \in 0 .. N
    OBVIOUS
  <2>1. f[n - 1] \in Progress(T) /\ f[n] = step[<<n, f[n - 1]>>]
    BY <1>3, <2>0, Zenon DEF Builds
  <2>2. \A x \in (1 .. N) \X Progress(T) : step[x] = Taken(content, x[2], hunks[x[1]])
    BY DEF step
  <2>3. <<n, f[n - 1]>> \in (1 .. N) \X Progress(T)
    BY <2>1
  <2> QED
    BY <2>1, <2>2, <2>3
<1>5. f \in [0 .. N -> Progress(T)] /\ f[0] = Begin
  BY <1>3 DEF Builds
<1>6. Is(f)
  <2> DEFINE g == [n \in 0 .. N |->
                      IF n = 0 THEN Begin ELSE Taken(content, f[n - 1], hunks[n])]
  <2>1. \A n \in 0 .. N : f[n] = g[n]
    <3> SUFFICES ASSUME NEW n \in 0 .. N PROVE f[n] = g[n]
      OBVIOUS
    <3>1. CASE n = 0
      BY <1>5, <3>1
    <3>2. CASE n # 0
      <4>1. n \in 1 .. N
        BY <3>2
      <4> QED
        BY <1>4, <3>2, <4>1
    <3> QED
      BY <3>1, <3>2
  <2> HIDE DEF g
  <2>2. DOMAIN g = 0 .. N /\ DOMAIN f = 0 .. N /\ g = [n \in 0 .. N |-> g[n]]
        /\ f = [n \in 0 .. N |-> f[n]]
    BY <1>5 DEF g
  <2>3. f = g
    BY <2>1, <2>2
  <2> QED
    BY <2>3 DEF g
<1>7. Is(done)
  BY <1>6, Zenon
<1>8. /\ ApplyHunks(content, hunks) =
           [ok |-> done[N].ok, out |-> done[N].out \o SubSeq(content, done[N].cursor + 1, Len(content))]
  BY DEF ApplyHunks, Begin
<1> HIDE DEF done
<1>9. done[0] = Begin /\ \A n \in 1 .. N : done[n] = Taken(content, done[n - 1], hunks[n])
  <2>1. \A n \in 0 .. N : done[n] = IF n = 0 THEN Begin ELSE Taken(content, done[n - 1], hunks[n])
    BY <1>7, Zenon
  <2>2. 0 \in 0 .. N /\ \A n \in 1 .. N : n \in 0 .. N /\ n # 0
    OBVIOUS
  <2> QED
    BY <2>1, <2>2, Zenon
<1>10. done \in [0 .. N -> Progress(T)]
  <2> DEFINE Bad == {n \in 0 .. N : done[n] \notin Progress(T)}
  <2>1. Bad = {}
    <3> SUFFICES ASSUME Bad # {} PROVE FALSE
      OBVIOUS
    <3>0. Bad \in SUBSET Nat
      OBVIOUS
    <3> HIDE DEF Bad
    <3>1. PICK n \in Bad : \A m \in Bad : n <= m
      BY <3>0, Smallest
    <3> USE DEF Bad
    <3>2. n # 0
      BY <1>1, <1>9, <3>1
    <3>3. n \in 1 .. N /\ n - 1 \in 0 .. N /\ n - 1 \notin Bad
      BY <3>1, <3>2
    <3>4. done[n] = Taken(content, done[n - 1], hunks[n]) /\ done[n - 1] \in Progress(T)
      BY <1>9, <3>3
    <3>5. done[n] \in Progress(T)
      BY <3>3, <3>4, TakenType
    <3> QED
      BY <3>1, <3>5
  <2>2. \E e : done = [n \in 0 .. N |-> e[n]]
    <3>1. done = [n \in 0 .. N |->
                      IF n = 0 THEN Begin ELSE Taken(content, done[n - 1], hunks[n])]
      BY <1>7
    <3> DEFINE e == [n \in 0 .. N |->
                      IF n = 0 THEN Begin ELSE Taken(content, done[n - 1], hunks[n])]
    <3>2. done = e /\ e = [n \in 0 .. N |-> e[n]]
      BY <3>1, Zenon
    <3> QED
      BY <3>2, Zenon
  <2> QED
    BY <2>1, <2>2
<1> QED
  BY <1>8, <1>9, <1>10 DEF Steps

-------------------------------------------------------------------------------
(* A hunk with its lines turned has its sides changed.                       *)
Turn(tag) == CASE tag = "-" -> "+" [] tag = "+" -> "-" [] OTHER -> tag

TurnedOver(turned, hunk) ==
  /\ DOMAIN turned.lines = DOMAIN hunk.lines
  /\ \A k \in DOMAIN hunk.lines :
       turned.lines[k].text = hunk.lines[k].text /\ turned.lines[k].tag = Turn(hunk.lines[k].tag)

LEMMA HunkLines ==
  ASSUME NEW hunk \in Hunks
  PROVE  /\ DOMAIN hunk.lines = 1 .. Len(hunk.lines) /\ Len(hunk.lines) \in Nat
         /\ \A k \in DOMAIN hunk.lines : hunk.lines[k] \in [tag : {" ", "-", "+"}, text : Texts]
         /\ \A k \in DOMAIN hunk.lines : hunk.lines[k].tag \in {" ", "-", "+"}
<1> DEFINE Line == [tag : {" ", "-", "+"}, text : Texts]
<1>1. hunk.lines \in Seq(Line)
  BY DEF Hunks
<1>2. \A line \in Line : line.tag \in {" ", "-", "+"}
  OBVIOUS
<1> HIDE DEF Line
<1>3. DOMAIN hunk.lines = 1 .. Len(hunk.lines) /\ Len(hunk.lines) \in Nat
  BY <1>1
<1>4. \A k \in DOMAIN hunk.lines : hunk.lines[k] \in Line
  BY <1>1
<1> QED
  BY <1>2, <1>3, <1>4, Zenon DEF Line

LEMMA SideTurned ==
  ASSUME NEW hunk \in Hunks, NEW turned, TurnedOver(turned, hunk)
  PROVE  OldSide(turned) = NewSide(hunk) /\ NewSide(turned) = OldSide(hunk)
<1>1. ASSUME NEW tags, NEW others,
             {i \in DOMAIN turned.lines : turned.lines[i].tag \in tags}
               = {i \in DOMAIN hunk.lines : hunk.lines[i].tag \in others}
      PROVE  Side(turned, tags) = Side(hunk, others)
  <2> DEFINE at == {i \in DOMAIN hunk.lines : hunk.lines[i].tag \in others}
  <2>1. Side(turned, tags) = [n \in 1 .. Cardinality(at) |-> turned.lines[Nth(at, n)].text]
    BY <1>1 DEF Side
  <2>2. Side(hunk, others) = [n \in 1 .. Cardinality(at) |-> hunk.lines[Nth(at, n)].text]
    BY DEF Side
  <2>3. at \in SUBSET Nat /\ IsFiniteSet(at)
    <3>1. DOMAIN hunk.lines = 1 .. Len(hunk.lines) /\ Len(hunk.lines) \in Nat
      BY HunkLines
    <3>2. IsFiniteSet(1 .. Len(hunk.lines)) /\ at \subseteq 1 .. Len(hunk.lines)
      BY <3>1, FS_Interval
    <3> HIDE DEF at
    <3>3. IsFiniteSet(at)
      BY <3>2, FS_Subset
    <3>4. 1 .. Len(hunk.lines) \subseteq Nat
      BY <3>1
    <3> QED
      BY <3>2, <3>3, <3>4
  <2>4. at \subseteq DOMAIN hunk.lines
    OBVIOUS
  <2> HIDE DEF at
  <2>5. \A n \in 1 .. Cardinality(at) : Nth(at, n) \in at
    BY <2>3, Ranks DEF Nth
  <2>6. \A n \in 1 .. Cardinality(at) : turned.lines[Nth(at, n)].text = hunk.lines[Nth(at, n)].text
    BY <2>4, <2>5 DEF TurnedOver
  <2> QED
    BY <2>1, <2>2, <2>6
<1>2. \A k \in DOMAIN hunk.lines : hunk.lines[k].tag \in {" ", "-", "+"}
  BY HunkLines
<1>3. \A k \in DOMAIN hunk.lines :
        /\ turned.lines[k].tag \in {" ", "-"} <=> hunk.lines[k].tag \in {" ", "+"}
        /\ turned.lines[k].tag \in {" ", "+"} <=> hunk.lines[k].tag \in {" ", "-"}
  BY <1>2 DEF TurnedOver, Turn
<1> QED
  BY <1>1, <1>3 DEF OldSide, NewSide, TurnedOver

(* How far the lines behind the first n hunks have moved. *)
Shifts(g, hunks) ==
  /\ g \in [0 .. Len(hunks) -> Int] /\ g[0] = 0
  /\ \A n \in 1 .. Len(hunks) : g[n] = g[n - 1] + hunks[n].new - hunks[n].old

(* The hunk that takes another one back, with the lines before it moved.     *)
Opposite(back, hunk, moved) ==
  /\ back.start = hunk.start + moved /\ back.old = hunk.new /\ back.new = hunk.old
  /\ OldSide(back) = NewSide(hunk) /\ NewSide(back) = OldSide(hunk)

LEMMA ReversedHunks ==
  ASSUME NEW hunks \in Seq(Hunks)
  PROVE  /\ Len(Reversed(hunks)) = Len(hunks)
         /\ \E g : /\ Shifts(g, hunks)
                   /\ \A n \in 1 .. Len(hunks) :
                        Opposite(Reversed(hunks)[n], hunks[n], g[n - 1])
<1> DEFINE N == Len(hunks)
           Is(g) == g = [n \in 0 .. N |->
                      IF n = 0 THEN 0 ELSE g[n - 1] + hunks[n].new - hunks[n].old]
           step == [x \in (1 .. N) \X Int |-> x[2] + hunks[x[1]].new - hunks[x[1]].old]
           shift == CHOOSE g : Is(g)
<1>1. /\ N \in Nat /\ DOMAIN hunks = 1 .. N
      /\ \A n \in 1 .. N : hunks[n] \in Hunks
      /\ \A n \in 1 .. N : hunks[n].new \in Nat /\ hunks[n].old \in Nat /\ hunks[n].start \in Nat
  <2>1. N \in Nat /\ DOMAIN hunks = 1 .. N /\ \A n \in 1 .. N : hunks[n] \in Hunks
    OBVIOUS
  <2>2. \A h \in Hunks : h.new \in Nat /\ h.old \in Nat /\ h.start \in Nat
    BY DEF Hunks
  <2> QED
    BY <2>1, <2>2
<1> HIDE DEF N
<1>2. step \in [(1 .. N) \X Int -> Int]
  BY <1>1
<1>2a. \A n \in 1 .. N, x \in Int : step[<<n, x>>] = x + hunks[n].new - hunks[n].old
  <2> SUFFICES ASSUME NEW n \in 1 .. N, NEW x \in Int
               PROVE  step[<<n, x>>] = x + hunks[n].new - hunks[n].old
    OBVIOUS
  <2>1. <<n, x>> \in (1 .. N) \X Int
    OBVIOUS
  <2> QED
    BY <2>1
<1> HIDE DEF step
<1>3. PICK f : Builds(f, Int, 0, step, N)
  <2>1. 0 \in Int
    OBVIOUS
  <2> HIDE DEF Is, shift
  <2> QED
    BY <1>1, <1>2, <2>1, Built, Zenon
<1>4. /\ f \in [0 .. N -> Int] /\ f[0] = 0
      /\ \A n \in 1 .. N : f[n] = f[n - 1] + hunks[n].new - hunks[n].old
  <2>1. f \in [0 .. N -> Int] /\ f[0] = 0
        /\ \A n \in 1 .. N : f[n] = step[<<n, f[n - 1]>>]
    BY <1>3, Zenon DEF Builds
  <2>2. \A n \in 1 .. N : f[n - 1] \in Int
    BY <1>1, <2>1
  <2> QED
    BY <1>2a, <2>1, <2>2
<1>5. Is(f)
  <2> DEFINE g == [n \in 0 .. N |->
                     IF n = 0 THEN 0 ELSE f[n - 1] + hunks[n].new - hunks[n].old]
  <2>1. \A n \in 0 .. N : f[n] = g[n]
    <3> SUFFICES ASSUME NEW n \in 0 .. N PROVE f[n] = g[n]
      OBVIOUS
    <3>1. CASE n = 0
      BY <1>4, <3>1
    <3>2. CASE n # 0
      <4>1. n \in 1 .. N
        BY <1>1, <3>2
      <4> QED
        BY <1>4, <3>2, <4>1
    <3> QED
      BY <3>1, <3>2
  <2> HIDE DEF g
  <2>2. DOMAIN g = 0 .. N /\ DOMAIN f = 0 .. N /\ g = [n \in 0 .. N |-> g[n]]
        /\ f = [n \in 0 .. N |-> f[n]]
    BY <1>4 DEF g
  <2>3. f = g
    BY <2>1, <2>2
  <2> QED
    BY <2>3 DEF g
<1>6. Is(shift)
  BY <1>5, Zenon
<1>7. Reversed(hunks) =
        [n \in DOMAIN hunks |->
          [start |-> hunks[n].start + shift[n - 1], old |-> hunks[n].new, new |-> hunks[n].old,
           lines |-> [k \in DOMAIN hunks[n].lines |->
             [hunks[n].lines[k] EXCEPT !.tag = CASE @ = "-" -> "+" [] @ = "+" -> "-" [] OTHER -> @]]]]
  BY DEF Reversed, N
<1> HIDE DEF shift
<1>8. Shifts(shift, hunks)
  <2>1. \A n \in 0 .. N :
          shift[n] = IF n = 0 THEN 0 ELSE shift[n - 1] + hunks[n].new - hunks[n].old
    BY <1>6, Zenon
  <2>2. 0 \in 0 .. N /\ \A n \in 1 .. N : n \in 0 .. N /\ n # 0
    BY <1>1
  <2>3. shift[0] = 0 /\ \A n \in 1 .. N : shift[n] = shift[n - 1] + hunks[n].new - hunks[n].old
    BY <2>1, <2>2, Zenon
  <2> DEFINE Bad == {n \in 0 .. N : shift[n] \notin Int}
  <2>4. Bad = {}
    <3> SUFFICES ASSUME Bad # {} PROVE FALSE
      OBVIOUS
    <3>0. Bad \in SUBSET Nat
      BY <1>1
    <3> HIDE DEF Bad
    <3>1. PICK n \in Bad : \A m \in Bad : n <= m
      BY <3>0, Smallest
    <3> USE DEF Bad
    <3>2. n # 0
      BY <2>3, <3>1
    <3>3. n \in 1 .. N /\ n - 1 \in 0 .. N /\ n - 1 \notin Bad
      BY <1>1, <3>1, <3>2
    <3>4. shift[n - 1] \in Int /\ shift[n] = shift[n - 1] + hunks[n].new - hunks[n].old
      BY <2>3, <3>3
    <3> QED
      BY <1>1, <3>1, <3>3, <3>4
  <2>5. shift = [n \in 0 .. N |-> shift[n]]
    <3> DEFINE e == [n \in 0 .. N |->
                      IF n = 0 THEN 0 ELSE shift[n - 1] + hunks[n].new - hunks[n].old]
    <3>1. shift = e
      BY <1>6
    <3>2. e = [n \in 0 .. N |-> e[n]]
      OBVIOUS
    <3> HIDE DEF e
    <3> QED
      BY <3>1, <3>2
  <2> QED
    BY <2>3, <2>4, <2>5 DEF Shifts, N
<1>9. ASSUME NEW n \in 1 .. N PROVE Opposite(Reversed(hunks)[n], hunks[n], shift[n - 1])
  <2> DEFINE hunk == hunks[n]
             back == Reversed(hunks)[n]
             Turned(line) == [line EXCEPT !.tag =
                                CASE @ = "-" -> "+" [] @ = "+" -> "-" [] OTHER -> @]
  <2>1. back = [start |-> hunk.start + shift[n - 1], old |-> hunk.new, new |-> hunk.old,
                lines |-> [k \in DOMAIN hunk.lines |-> Turned(hunk.lines[k])]]
    BY <1>1, <1>7
  <2>2. hunk \in Hunks
    BY <1>1
  <2> HIDE DEF hunk, back
  <2>3. back.lines = [k \in DOMAIN hunk.lines |-> Turned(hunk.lines[k])]
    BY <2>1
  <2>4. \A line \in [tag : {" ", "-", "+"}, text : Texts] :
          Turned(line).text = line.text /\ Turned(line).tag = Turn(line.tag)
    BY DEF Turn
  <2>5. \A k \in DOMAIN hunk.lines : hunk.lines[k] \in [tag : {" ", "-", "+"}, text : Texts]
    BY <2>2, HunkLines
  <2> HIDE DEF Turned
  <2>6. TurnedOver(back, hunk)
    BY <2>3, <2>4, <2>5 DEF TurnedOver
  <2>7. OldSide(back) = NewSide(hunk) /\ NewSide(back) = OldSide(hunk)
    BY <2>2, <2>6, SideTurned
  <2> QED
    BY <2>1, <2>7 DEF Opposite, hunk, back
<1>10. Len(Reversed(hunks)) = N
  <2>1. \E e : Reversed(hunks) = [n \in 1 .. N |-> e[n]]
    <3>1. Reversed(hunks) = [n \in 1 .. N |-> Reversed(hunks)[n]]
      BY <1>1, <1>7
    <3> QED
      BY <3>1
  <2> QED
    BY <1>1, <2>1
<1> QED
  BY <1>8, <1>9, <1>10 DEF N

-------------------------------------------------------------------------------
(* Everything a text is put together from by hunks.                          *)
Written(hunks) ==
  Texts \cup UNION {{NewSide(hunks[n])[k] : k \in DOMAIN NewSide(hunks[n])} : n \in DOMAIN hunks}

Sized(hunk) == hunk.old = Len(OldSide(hunk)) /\ hunk.new = Len(NewSide(hunk))

(* The hunks and the texts they are about. *)
LEMMA HunkTypes ==
  ASSUME NEW hunks \in Seq(Hunks)
  PROVE  \A n \in 1 .. Len(hunks) :
           /\ hunks[n].start \in Nat /\ hunks[n].old \in Nat /\ hunks[n].new \in Nat
           /\ NewSide(hunks[n]) \in Seq(Written(hunks))
<1> SUFFICES ASSUME NEW n \in 1 .. Len(hunks)
             PROVE  /\ hunks[n].start \in Nat /\ hunks[n].old \in Nat /\ hunks[n].new \in Nat
                    /\ NewSide(hunks[n]) \in Seq(Written(hunks))
  OBVIOUS
<1>1. hunks[n] \in Hunks /\ n \in DOMAIN hunks
  OBVIOUS
<1>2. hunks[n].start \in Nat /\ hunks[n].old \in Nat /\ hunks[n].new \in Nat
  BY <1>1 DEF Hunks
<1> DEFINE side == NewSide(hunks[n])
           own == {side[k] : k \in DOMAIN side}
<1>3. side \in Seq(own)
  <2>1. \A hunk, tags, m : m \in Nat /\ DOMAIN hunk.lines = 1 .. m =>
          Side(hunk, tags) \in Seq({Side(hunk, tags)[k] : k \in DOMAIN Side(hunk, tags)})
    BY SideType
  <2>2. DOMAIN hunks[n].lines = 1 .. Len(hunks[n].lines) /\ Len(hunks[n].lines) \in Nat
    BY <1>1, HunkLines
  <2> QED
    BY <2>1, <2>2, Zenon DEF NewSide
<1>4. own \subseteq Written(hunks)
  BY <1>1 DEF Written
<1> HIDE DEF side, own
<1>5. side \in Seq(Written(hunks))
  BY <1>3, <1>4
<1> QED
  BY <1>2, <1>5 DEF side

(* All hunks of a text match: where the n-th leaves off in the old text, and *)
(* what the new text is then.                                                *)
Runs(f, content, hunks, T) ==
  LET N == Len(hunks) IN
  /\ \A n \in 0 .. N :
       f[n].out \in Seq(T) /\ f[n].cursor \in Nat /\ f[n].cursor <= Len(content)
  /\ f[0].cursor = 0 /\ f[0].out = <<>>
  /\ \A n \in 1 .. N :
       LET from == hunks[n].start - 1 IN
       /\ from \in Nat /\ f[n - 1].cursor <= from /\ f[n].cursor = from + hunks[n].old
       /\ SubSeq(content, from + 1, from + hunks[n].old) = OldSide(hunks[n])
       /\ f[n].out = f[n - 1].out \o SubSeq(content, f[n - 1].cursor + 1, from) \o NewSide(hunks[n])
  /\ ApplyHunks(content, hunks) =
       [ok |-> TRUE, out |-> f[N].out \o SubSeq(content, f[N].cursor + 1, Len(content))]

LEMMA ApplyRuns ==
  ASSUME NEW T, NEW content \in Seq(T), NEW hunks, Len(hunks) \in Nat,
         \A n \in 1 .. Len(hunks) : Applicable(hunks[n], T),
         ApplyHunks(content, hunks).ok
  PROVE  \E f : Runs(f, content, hunks, T)
<1> DEFINE N == Len(hunks)
<1>1. PICK f : Steps(f, content, hunks, T)
  BY ApplySteps
<1>2. /\ f \in [0 .. N -> Progress(T)] /\ f[0] = Begin
      /\ \A n \in 1 .. N : f[n] = Taken(content, f[n - 1], hunks[n])
      /\ ApplyHunks(content, hunks) =
           [ok |-> f[N].ok, out |-> f[N].out \o SubSeq(content, f[N].cursor + 1, Len(content))]
  BY <1>1, Zenon DEF Steps
<1>3. N \in Nat
  OBVIOUS
<1> HIDE DEF N
<1>4. \A n \in 0 .. N : f[n] \in Progress(T)
  BY <1>2
<1>5. f[N].ok
  BY <1>2
<1>6. \A n \in 1 .. N : f[n].ok =>
        /\ f[n - 1].ok /\ Matches(hunks[n], content, f[n - 1].cursor)
        /\ f[n] = [ok |-> TRUE, cursor |-> hunks[n].start - 1 + hunks[n].old,
                   out |-> f[n - 1].out \o SubSeq(content, f[n - 1].cursor + 1, hunks[n].start - 1)
                           \o NewSide(hunks[n])]
  <2> SUFFICES ASSUME NEW n \in 1 .. N, f[n].ok
               PROVE  /\ f[n - 1].ok /\ Matches(hunks[n], content, f[n - 1].cursor)
                      /\ f[n] = [ok |-> TRUE, cursor |-> hunks[n].start - 1 + hunks[n].old,
                                 out |-> f[n - 1].out
                                         \o SubSeq(content, f[n - 1].cursor + 1, hunks[n].start - 1)
                                         \o NewSide(hunks[n])]
    BY Zenon
  <2>1. f[n - 1] \in Progress(T) /\ f[n] = Taken(content, f[n - 1], hunks[n])
    BY <1>2, <1>3, <1>4
  <2>2. Applicable(hunks[n], T)
    BY DEF N
  <2>3. \A done \in Progress(T) : \A hunk : Applicable(hunk, T) /\ Taken(content, done, hunk).ok =>
          /\ done.ok /\ Matches(hunk, content, done.cursor)
          /\ Taken(content, done, hunk) =
               [ok |-> TRUE, cursor |-> hunk.start - 1 + hunk.old,
                out |-> done.out \o SubSeq(content, done.cursor + 1, hunk.start - 1) \o NewSide(hunk)]
    BY TakenType
  <2>4. Taken(content, f[n - 1], hunks[n]).ok
    BY <2>1
  <2> QED
    BY <2>1, <2>2, <2>3, <2>4, Zenon
<1>7. \A n \in 0 .. N : f[n].ok
  <2> DEFINE Bad == {m \in Nat : m <= N /\ ~f[N - m].ok}
  <2> SUFFICES ASSUME Bad # {} PROVE FALSE
    <3>1. \A n \in 0 .. N : N - n \in Nat /\ N - n <= N /\ N - (N - n) = n
      BY <1>3
    <3> QED
      BY <3>1
  <2>0. Bad \in SUBSET Nat
    OBVIOUS
  <2> HIDE DEF Bad
  <2>1. PICK m \in Bad : \A k \in Bad : m <= k
    BY <2>0, Smallest
  <2> USE DEF Bad
  <2>2. m # 0
    BY <1>3, <1>5, <2>1
  <2>3. m - 1 \in Nat /\ m - 1 <= N /\ ~(m <= m - 1) /\ N - (m - 1) \in 1 .. N
        /\ N - (m - 1) - 1 = N - m
    BY <1>3, <2>1, <2>2
  <2>4. f[N - (m - 1)].ok
    BY <2>1, <2>3
  <2>5. f[N - m].ok
    BY <1>6, <2>3, <2>4
  <2> QED
    BY <2>1, <2>5
<1>8. \A n \in 0 .. N : f[n].out \in Seq(T) /\ f[n].cursor \in Nat
  BY <1>4 DEF Progress
<1>9. ASSUME NEW n \in 1 .. N
      PROVE  LET from == hunks[n].start - 1 IN
             /\ from \in Nat /\ f[n - 1].cursor <= from /\ f[n].cursor = from + hunks[n].old
             /\ f[n].cursor <= Len(content)
             /\ SubSeq(content, from + 1, from + hunks[n].old) = OldSide(hunks[n])
             /\ f[n].out = f[n - 1].out \o SubSeq(content, f[n - 1].cursor + 1, from)
                           \o NewSide(hunks[n])
  <2> DEFINE from == hunks[n].start - 1
  <2>1. /\ Matches(hunks[n], content, f[n - 1].cursor)
        /\ f[n].cursor = from + hunks[n].old
        /\ f[n].out = f[n - 1].out \o SubSeq(content, f[n - 1].cursor + 1, from) \o NewSide(hunks[n])
    <3>1. n \in 0 .. N
      BY <1>3
    <3>2. f[n].ok
      BY <1>7, <3>1
    <3>3. /\ Matches(hunks[n], content, f[n - 1].cursor)
          /\ f[n] = [ok |-> TRUE, cursor |-> hunks[n].start - 1 + hunks[n].old,
                     out |-> f[n - 1].out
                             \o SubSeq(content, f[n - 1].cursor + 1, hunks[n].start - 1)
                             \o NewSide(hunks[n])]
      BY <1>6, <3>2, Zenon
    <3> DEFINE x == hunks[n].start - 1 + hunks[n].old
               y == f[n - 1].out \o SubSeq(content, f[n - 1].cursor + 1, hunks[n].start - 1)
                    \o NewSide(hunks[n])
    <3>4. f[n] = [ok |-> TRUE, cursor |-> x, out |-> y]
      BY <3>3, Zenon
    <3> HIDE DEF x, y
    <3>5. f[n].cursor = x /\ f[n].out = y
      BY <3>4
    <3> QED
      BY <3>3, <3>5, Zenon DEF x, y
  <2>2. /\ from >= f[n - 1].cursor /\ from + hunks[n].old <= Len(content)
        /\ SubSeq(content, from + 1, from + hunks[n].old) = OldSide(hunks[n])
    BY <2>1, Zenon DEF Matches
  <2>3. hunks[n].start \in Int /\ f[n - 1].cursor \in Nat
    BY <1>3, <1>8 DEF Applicable, N
  <2>4. from \in Nat /\ f[n - 1].cursor <= from
    BY <2>2, <2>3
  <2> HIDE DEF from
  <2>5. f[n].cursor <= Len(content)
    BY <2>1, <2>2
  <2> QED
    BY <2>1, <2>2, <2>4, <2>5 DEF from
<1>10. f[0].cursor = 0 /\ f[0].out = <<>>
  BY <1>2 DEF Begin
<1>11. \A n \in 0 .. N : f[n].cursor <= Len(content)
  <2> SUFFICES ASSUME NEW n \in 0 .. N PROVE f[n].cursor <= Len(content)
    OBVIOUS
  <2>1. CASE n = 0
    BY <1>10, <2>1
  <2>2. CASE n # 0
    <3>1. n \in 1 .. N
      BY <1>3, <2>2
    <3> QED
      BY <1>9, <3>1
  <2> QED
    BY <2>1, <2>2
<1>12. ApplyHunks(content, hunks) =
         [ok |-> TRUE, out |-> f[N].out \o SubSeq(content, f[N].cursor + 1, Len(content))]
  <2>1. f[N].ok \in BOOLEAN
    BY <1>3, <1>4 DEF Progress
  <2>2. f[N].ok = TRUE
    BY <1>5, <2>1
  <2> QED
    BY <1>2, <2>2
<1> QED
  BY <1>8, <1>9, <1>10, <1>11, <1>12 DEF Runs, N

-------------------------------------------------------------------------------
(* Steps from both ends.                                                     *)
LEMMA Upwards ==
  \A N, S : N \in Nat /\ 0 \in S /\ (\A n \in 1 .. N : n - 1 \in S => n \in S)
              => 0 .. N \subseteq S
<1> SUFFICES ASSUME NEW N, NEW S, N \in Nat, 0 \in S, \A n \in 1 .. N : n - 1 \in S => n \in S
             PROVE  0 .. N \subseteq S
  OBVIOUS
<1> DEFINE Bad == {n \in Nat : n <= N /\ n \notin S}
<1> SUFFICES ASSUME Bad # {} PROVE FALSE
  OBVIOUS
<1>0. Bad \in SUBSET Nat
  OBVIOUS
<1> HIDE DEF Bad
<1>1. PICK n \in Bad : \A m \in Bad : n <= m
  BY <1>0, Smallest
<1> USE DEF Bad
<1>2. n \in 1 .. N /\ n - 1 \in Nat /\ n - 1 <= N /\ ~(n <= n - 1)
  BY <1>1
<1>3. n - 1 \in S
  BY <1>1, <1>2
<1> QED
  BY <1>1, <1>2, <1>3

LEMMA Downwards ==
  \A N, S : N \in Nat /\ N \in S /\ (\A n \in 1 .. N : n \in S => n - 1 \in S)
              => 0 .. N \subseteq S
<1> SUFFICES ASSUME NEW N, NEW S, N \in Nat, N \in S, \A n \in 1 .. N : n \in S => n - 1 \in S
             PROVE  0 .. N \subseteq S
  OBVIOUS
<1> DEFINE back == {m \in Nat : N - m \in S}
<1>1. 0 \in back /\ \A n \in 1 .. N : n - 1 \in back => n \in back
  <2>1. \A n \in 1 .. N : /\ N - (n - 1) \in 1 .. N /\ N - (n - 1) - 1 = N - n
                          /\ n \in Nat /\ N - 0 = N
    OBVIOUS
  <2> QED
    BY <2>1
<1> HIDE DEF back
<1>2. 0 .. N \subseteq back
  BY <1>1, Upwards
<1>3. \A n \in 0 .. N : N - n \in 0 .. N /\ N - (N - n) = n
  OBVIOUS
<1> QED
  BY <1>2, <1>3 DEF back

LEMMA ThreeParts ==
  \A T : \A s, a, b, c \in Seq(T) : Joins(s, a, b, c) => a \o b \o c = s
<1> SUFFICES ASSUME NEW T, NEW s \in Seq(T), NEW a \in Seq(T), NEW b \in Seq(T), NEW c \in Seq(T),
                    Joins(s, a, b, c)
             PROVE  a \o b \o c = s
  OBVIOUS
<1>s. /\ Len(s) = Len(a) + Len(b) + Len(c)
      /\ \A i \in 1 .. Len(a) : s[i] = a[i]
      /\ \A i \in 1 .. Len(b) : s[Len(a) + i] = b[i]
      /\ \A i \in 1 .. Len(c) : s[Len(a) + Len(b) + i] = c[i]
  BY DEF Joins
<1> DEFINE t == a \o b \o c
<1>0. t \in Seq(T) /\ Joins(t, a, b, c)
  BY Concatenated, Zenon
<1> HIDE DEF t
<1>1. /\ t \in Seq(T) /\ Len(t) = Len(a) + Len(b) + Len(c)
      /\ \A i \in 1 .. Len(a) : t[i] = a[i]
      /\ \A i \in 1 .. Len(b) : t[Len(a) + i] = b[i]
      /\ \A i \in 1 .. Len(c) : t[Len(a) + Len(b) + i] = c[i]
  BY <1>0 DEF Joins
<1>2. ASSUME NEW i \in 1 .. Len(t) PROVE t[i] = s[i]
  <2>0. Len(a) \in Nat /\ Len(b) \in Nat /\ Len(c) \in Nat
    OBVIOUS
  <2>1. CASE i <= Len(a)
    <3>1. i \in 1 .. Len(a)
      BY <2>0, <2>1
    <3> QED
      BY <1>1, <1>s, <3>1
  <2>2. CASE Len(a) < i /\ i <= Len(a) + Len(b)
    <3>1. i - Len(a) \in 1 .. Len(b) /\ Len(a) + (i - Len(a)) = i
      BY <2>0, <2>2
    <3> QED
      BY <1>1, <1>s, <3>1
  <2>3. CASE Len(a) + Len(b) < i
    <3>1. /\ i - (Len(a) + Len(b)) \in 1 .. Len(c)
          /\ Len(a) + Len(b) + (i - (Len(a) + Len(b))) = i
      BY <1>1, <2>0, <2>3
    <3> QED
      BY <1>1, <1>s, <3>1
  <2> QED
    BY <2>0, <2>1, <2>2, <2>3
<1>3. t = s
  BY <1>1, <1>2, <1>s, SameSequence
<1> QED
  BY <1>3 DEF t

Follows(t, a, b) ==
  /\ Len(t) = Len(a) + Len(b)
  /\ \A i \in 1 .. Len(a) : t[i] = a[i]
  /\ \A i \in 1 .. Len(b) : t[Len(a) + i] = b[i]

LEMMA TwoParts ==
  \A T : \A a, b \in Seq(T) :
    /\ a \o b \in Seq(T) /\ Follows(a \o b, a, b)
    /\ \A s \in Seq(T) : Follows(s, a, b) => a \o b = s
<1> SUFFICES ASSUME NEW T, NEW a \in Seq(T), NEW b \in Seq(T)
             PROVE  /\ a \o b \in Seq(T) /\ Follows(a \o b, a, b)
                    /\ \A s \in Seq(T) : Follows(s, a, b) => a \o b = s
  OBVIOUS
<1> DEFINE t == a \o b
<1>1. /\ t \in Seq(T) /\ Len(t) = Len(a) + Len(b)
      /\ \A i \in 1 .. Len(a) : t[i] = a[i]
      /\ \A i \in 1 .. Len(b) : t[Len(a) + i] = b[i]
  OBVIOUS
<1> HIDE DEF t
<1>2. ASSUME NEW s \in Seq(T), Follows(s, a, b) PROVE t = s
  <2>1. /\ Len(s) = Len(a) + Len(b)
        /\ \A i \in 1 .. Len(a) : s[i] = a[i]
        /\ \A i \in 1 .. Len(b) : s[Len(a) + i] = b[i]
    BY <1>2 DEF Follows
  <2>2. ASSUME NEW i \in 1 .. Len(t) PROVE t[i] = s[i]
    <3>0. Len(a) \in Nat /\ Len(b) \in Nat
      OBVIOUS
    <3>1. CASE i <= Len(a)
      <4>1. i \in 1 .. Len(a)
        BY <3>0, <3>1
      <4> QED
        BY <1>1, <2>1, <4>1
    <3>2. CASE Len(a) < i
      <4>1. i - Len(a) \in 1 .. Len(b) /\ Len(a) + (i - Len(a)) = i
        BY <1>1, <3>0, <3>2
      <4> QED
        BY <1>1, <2>1, <4>1
    <3> QED
      BY <3>0, <3>1, <3>2
  <2> QED
    BY <1>1, <2>1, <2>2, SameSequence
<1> QED
  BY <1>1, <1>2 DEF t, Follows

-------------------------------------------------------------------------------
(* What one hunk adds to the new text, and what it took from the old one.    *)
Adds(f, content, hunk, n) ==
  LET from == hunk.start - 1
      kept == from - f[n - 1].cursor
      was  == Len(f[n - 1].out)
  IN
  /\ from \in Nat /\ kept \in Nat /\ f[n].cursor = from + hunk.old
  /\ hunk.old \in Nat /\ hunk.new \in Nat
  /\ Len(f[n].out) = was + kept + hunk.new
  /\ \A i \in 1 .. was : f[n].out[i] = f[n - 1].out[i]
  /\ \A i \in 1 .. kept : f[n].out[was + i] = content[f[n - 1].cursor + i]
  /\ \A i \in 1 .. hunk.new : f[n].out[was + kept + i] = NewSide(hunk)[i]
  /\ Len(OldSide(hunk)) = hunk.old /\ Len(NewSide(hunk)) = hunk.new
  /\ \A i \in 1 .. hunk.old : OldSide(hunk)[i] = content[from + i]

LEMMA HunkAdds ==
  ASSUME NEW hunks \in Seq(Hunks), NEW T, NEW content \in Seq(T),
         \A n \in 1 .. Len(hunks) : Sized(hunks[n]) /\ NewSide(hunks[n]) \in Seq(T),
         NEW f, Runs(f, content, hunks, T)
  PROVE  \A n \in 1 .. Len(hunks) : Adds(f, content, hunks[n], n) /\ OldSide(hunks[n]) \in Seq(T)
<1> SUFFICES ASSUME NEW n \in 1 .. Len(hunks)
             PROVE  Adds(f, content, hunks[n], n) /\ OldSide(hunks[n]) \in Seq(T)
  OBVIOUS
<1> DEFINE hunk == hunks[n]
           from == hunk.start - 1
           cursor == f[n - 1].cursor
           old == f[n - 1].out
           kept == SubSeq(content, cursor + 1, from)
<1>1. n \in 0 .. Len(hunks) /\ n - 1 \in 0 .. Len(hunks)
  OBVIOUS
<1>2. /\ from \in Nat /\ cursor <= from /\ f[n].cursor = from + hunk.old
      /\ SubSeq(content, from + 1, from + hunk.old) = OldSide(hunk)
      /\ f[n].out = old \o kept \o NewSide(hunk)
  BY Zenon DEF Runs
<1>3. /\ old \in Seq(T) /\ cursor \in Nat
      /\ f[n].cursor <= Len(content)
  BY <1>1, Zenon DEF Runs
<1>4. /\ hunk.old \in Nat /\ hunk.new \in Nat /\ NewSide(hunk) \in Seq(T)
      /\ hunk.old = Len(OldSide(hunk)) /\ hunk.new = Len(NewSide(hunk))
  <2>1. hunk \in Hunks
    OBVIOUS
  <2>2. hunk.old \in Nat /\ hunk.new \in Nat
    BY <2>1 DEF Hunks
  <2> QED
    BY <2>2 DEF Sized
<1> HIDE DEF hunk, from, cursor, old
<1>5. from <= Len(content) /\ from + hunk.old <= Len(content) /\ from + hunk.old \in Nat
      /\ from <= from + hunk.old
  BY <1>2, <1>3, <1>4
<1>6. kept \in Seq(T) /\ Copies(kept, content, cursor, from)
  BY <1>2, <1>3, <1>5, Part, Zenon
<1>7. OldSide(hunk) \in Seq(T) /\ Copies(OldSide(hunk), content, from, from + hunk.old)
  <2>1. SubSeq(content, from + 1, from + hunk.old) \in Seq(T)
        /\ Copies(SubSeq(content, from + 1, from + hunk.old), content, from, from + hunk.old)
    BY <1>2, <1>5, Part, Zenon
  <2> QED
    BY <1>2, <2>1, Zenon
<1> HIDE DEF kept
<1>8. Joins(f[n].out, old, kept, NewSide(hunk))
  BY <1>2, <1>3, <1>4, <1>6, Concatenated, Zenon
<1>9. from + hunk.old - from = hunk.old /\ from - cursor \in Nat
  <2>1. from \in Nat /\ cursor \in Nat /\ cursor <= from /\ hunk.old \in Nat
    BY <1>2, <1>3, <1>4
  <2> QED
    BY <2>1
<1>10. Adds(f, content, hunk, n)
  <2>1. /\ from \in Nat /\ from - cursor \in Nat /\ f[n].cursor = from + hunk.old
        /\ hunk.old \in Nat /\ hunk.new \in Nat
        /\ Len(f[n].out) = Len(old) + (from - cursor) + hunk.new
        /\ \A i \in 1 .. Len(old) : f[n].out[i] = old[i]
        /\ \A i \in 1 .. (from - cursor) : f[n].out[Len(old) + i] = content[cursor + i]
        /\ \A i \in 1 .. hunk.new : f[n].out[Len(old) + (from - cursor) + i] = NewSide(hunk)[i]
        /\ Len(OldSide(hunk)) = hunk.old /\ Len(NewSide(hunk)) = hunk.new
        /\ \A i \in 1 .. hunk.old : OldSide(hunk)[i] = content[from + i]
    <3>1. Len(kept) = from - cursor /\ \A i \in 1 .. (from - cursor) : kept[i] = content[cursor + i]
      BY <1>6 DEF Copies
    <3>2. \A i \in 1 .. hunk.old : OldSide(hunk)[i] = content[from + i]
      <4> DEFINE end == from + hunk.old
      <4>1. Copies(OldSide(hunk), content, from, end)
        BY <1>7, Zenon
      <4>3. end - from = hunk.old
        BY <1>2, <1>4
      <4> HIDE DEF end
      <4>2. \A i \in 1 .. end - from : OldSide(hunk)[i] = content[from + i]
        BY <4>1, Zenon DEF Copies
      <4> QED
        BY <4>2, <4>3
    <3> QED
      BY <1>2, <1>4, <1>8, <1>9, <3>1, <3>2 DEF Joins
  <2> QED
    BY <2>1, Zenon DEF Adds, from, cursor, old
<1> QED
  BY <1>7, <1>10 DEF hunk

(* The new text as it is when the n-th hunk is done is how it begins in the  *)
(* end, and its length has moved as far as the hunks say.                    *)
BeginsAs(W, f, N) ==
  \A n \in 0 .. N : /\ Len(f[n].out) <= Len(W)
                    /\ \A i \in 1 .. Len(f[n].out) : W[i] = f[n].out[i]

LEMMA Beginnings ==
  ASSUME NEW hunks \in Seq(Hunks), NEW T, NEW content \in Seq(T), NEW f,
         Runs(f, content, hunks, T),
         \A n \in 1 .. Len(hunks) : Adds(f, content, hunks[n], n)
  PROVE  \A W \in Seq(T) : ApplyHunks(content, hunks).out = W => BeginsAs(W, f, Len(hunks))
<1> SUFFICES ASSUME NEW W \in Seq(T), ApplyHunks(content, hunks).out = W
             PROVE  BeginsAs(W, f, Len(hunks))
  OBVIOUS
<1> DEFINE N == Len(hunks)
           tail == SubSeq(content, f[N].cursor + 1, Len(content))
           S == {n \in 0 .. N : /\ Len(f[n].out) <= Len(W)
                                /\ \A i \in 1 .. Len(f[n].out) : W[i] = f[n].out[i]}
<1>0. N \in Nat /\ Len(content) \in Nat /\ Len(W) \in Nat /\ Len(content) <= Len(content)
  OBVIOUS
<1>1. /\ \A n \in 0 .. N : f[n].out \in Seq(T) /\ f[n].cursor \in Nat /\ f[n].cursor <= Len(content)
      /\ ApplyHunks(content, hunks) = [ok |-> TRUE, out |-> f[N].out \o tail]
  BY Zenon DEF Runs
<1>2. W = f[N].out \o tail
  <2> HIDE DEF tail, N
  <2> QED
    BY <1>1
<1>3. N \in 0 .. N
  BY <1>0
<1>4. tail \in Seq(T)
  BY <1>0, <1>1, <1>3, Part, Zenon
<1> HIDE DEF tail
<1>5. N \in S
  <2>1. f[N].out \in Seq(T)
    BY <1>1, <1>3
  <2> HIDE DEF N
  <2>2. Len(f[N].out) <= Len(W) /\ \A i \in 1 .. Len(f[N].out) : W[i] = f[N].out[i]
    BY <1>2, <1>4, <2>1
  <2> QED
    BY <1>3, <2>2
<1>6. \A n \in 1 .. N : n \in S => n - 1 \in S
  <2> SUFFICES ASSUME NEW n \in 1 .. N, n \in S PROVE n - 1 \in S
    OBVIOUS
  <2> DEFINE was == Len(f[n - 1].out)
             is == Len(f[n].out)
  <2>1. n - 1 \in 0 .. N /\ n \in 0 .. N
    BY <1>0
  <2>2. was \in Nat /\ is \in Nat
    <3>1. \A s \in Seq(T) : Len(s) \in Nat
      OBVIOUS
    <3> QED
      BY <1>1, <2>1, <3>1
  <2>3. Adds(f, content, hunks[n], n)
    OBVIOUS
  <2>4. /\ hunks[n].start - 1 - f[n - 1].cursor \in Nat /\ hunks[n].new \in Nat
        /\ is = was + (hunks[n].start - 1 - f[n - 1].cursor) + hunks[n].new
        /\ \A i \in 1 .. was : f[n].out[i] = f[n - 1].out[i]
    BY <2>3, Zenon DEF Adds
  <2>5. is <= Len(W) /\ \A i \in 1 .. is : W[i] = f[n].out[i]
    BY DEF S
  <2> HIDE DEF was, is, N
  <2>6. was <= is
    BY <2>2, <2>4
  <2>7. was <= Len(W) /\ \A i \in 1 .. was : i \in 1 .. is
    BY <1>0, <2>2, <2>5, <2>6
  <2>8. \A i \in 1 .. was : W[i] = f[n - 1].out[i]
    BY <2>4, <2>5, <2>7, Zenon
  <2> QED
    BY <2>1, <2>7, <2>8 DEF was
<1>7. 0 .. N \subseteq S
  <2> HIDE DEF S, N
  <2> QED
    BY <1>0, <1>5, <1>6, Downwards, Zenon
<1> QED
  BY <1>7 DEF BeginsAs

LEMMA Moved ==
  ASSUME NEW hunks \in Seq(Hunks), NEW T, NEW content \in Seq(T), NEW f,
         Runs(f, content, hunks, T),
         \A n \in 1 .. Len(hunks) : Adds(f, content, hunks[n], n),
         NEW g, Shifts(g, hunks)
  PROVE  \A n \in 0 .. Len(hunks) : g[n] = Len(f[n].out) - f[n].cursor
<1> DEFINE N == Len(hunks)
           S == {n \in 0 .. N : g[n] = Len(f[n].out) - f[n].cursor}
<1>0. N \in Nat
  OBVIOUS
<1>1. /\ \A n \in 0 .. N : f[n].out \in Seq(T) /\ f[n].cursor \in Nat
      /\ f[0].cursor = 0 /\ f[0].out = <<>>
  BY Zenon DEF Runs
<1>2. g[0] = 0 /\ \A n \in 1 .. N : g[n] = g[n - 1] + hunks[n].new - hunks[n].old
  BY DEF Shifts
<1>3. 0 \in S
  BY <1>0, <1>1, <1>2
<1>4. \A n \in 1 .. N : n - 1 \in S => n \in S
  <2> SUFFICES ASSUME NEW n \in 1 .. N, n - 1 \in S PROVE n \in S
    OBVIOUS
  <2> DEFINE was == Len(f[n - 1].out)
             is == Len(f[n].out)
             from == hunks[n].start - 1
             old == hunks[n].old
             new == hunks[n].new
             before == f[n - 1].cursor
             after == f[n].cursor
  <2>1. n - 1 \in 0 .. N /\ n \in 0 .. N
    BY <1>0
  <2>2. was \in Nat /\ is \in Nat /\ before \in Nat /\ after \in Nat
    <3>1. \A s \in Seq(T) : Len(s) \in Nat
      OBVIOUS
    <3> QED
      BY <1>1, <2>1, <3>1
  <2>3. Adds(f, content, hunks[n], n)
    OBVIOUS
  <2>4. /\ from \in Nat /\ old \in Nat /\ new \in Nat
        /\ is = was + (from - before) + new /\ after = from + old
    BY <2>3, Zenon DEF Adds
  <2>5. g[n - 1] = was - before /\ g[n] = g[n - 1] + new - old
    BY <1>2 DEF S
  <2> HIDE DEF was, is, from, old, new, before, after
  <2>6. g[n] = is - after
    BY <2>2, <2>4, <2>5
  <2> QED
    BY <2>1, <2>6 DEF is, after
<1>5. 0 .. N \subseteq S
  <2> HIDE DEF S, N
  <2> QED
    BY <1>0, <1>3, <1>4, Upwards, Zenon
<1> QED
  BY <1>5

(* Taking a patch back. *)
LEMMA TakenBack ==
  ASSUME NEW hunks \in Seq(Hunks), NEW T, NEW content \in Seq(T),
         \A n \in 1 .. Len(hunks) : Sized(hunks[n]) /\ NewSide(hunks[n]) \in Seq(T),
         ApplyHunks(content, hunks).ok
  PROVE  ApplyHunks(ApplyHunks(content, hunks).out, Reversed(hunks)) = [ok |-> TRUE, out |-> content]
<1> DEFINE N == Len(hunks)
           W == ApplyHunks(content, hunks).out
           back == Reversed(hunks)
           tail(f) == SubSeq(content, f[N].cursor + 1, Len(content))
<1>0. /\ N \in Nat /\ Len(content) \in Nat /\ \A n \in 1 .. N : hunks[n] \in Hunks
      /\ \A n \in 1 .. N : n \in 0 .. N /\ n - 1 \in 0 .. N
      /\ 0 \in 0 .. N /\ N \in 0 .. N
  OBVIOUS
<1>1. \A n \in 1 .. N : hunks[n].start \in Nat /\ hunks[n].old \in Nat /\ hunks[n].new \in Nat
  <2>1. \A hunk \in Hunks : hunk.start \in Nat /\ hunk.old \in Nat /\ hunk.new \in Nat
    BY DEF Hunks
  <2> QED
    BY <1>0, <2>1
<1>2. PICK f : Runs(f, content, hunks, T)
  <2>1. \A n \in 1 .. N : Applicable(hunks[n], T)
    BY <1>1 DEF Applicable
  <2> QED
    BY <1>0, <2>1, ApplyRuns
<1>3. \A n \in 1 .. N : Adds(f, content, hunks[n], n) /\ OldSide(hunks[n]) \in Seq(T)
  BY <1>2, HunkAdds
<1>4. /\ \A n \in 0 .. N : f[n].out \in Seq(T) /\ f[n].cursor \in Nat /\ f[n].cursor <= Len(content)
      /\ f[0].cursor = 0 /\ f[0].out = <<>>
      /\ ApplyHunks(content, hunks) = [ok |-> TRUE, out |-> f[N].out \o tail(f)]
  BY <1>2, Zenon DEF Runs
<1>5. W = f[N].out \o tail(f)
  <2> HIDE DEF tail, N
  <2> QED
    BY <1>4
<1>6. tail(f) \in Seq(T) /\ Copies(tail(f), content, f[N].cursor, Len(content))
  <2>1. Len(content) <= Len(content)
    BY <1>0
  <2> QED
    BY <1>0, <1>4, <2>1, Part, Zenon
<1>7. W \in Seq(T) /\ Len(W) = Len(f[N].out) + Len(tail(f))
      /\ \A i \in 1 .. Len(tail(f)) : W[Len(f[N].out) + i] = tail(f)[i]
  <2>1. f[N].out \in Seq(T)
    BY <1>0, <1>4
  <2> HIDE DEF W, tail
  <2>2. W \in Seq(T) /\ Follows(W, f[N].out, tail(f))
    BY <1>5, <1>6, <2>1, TwoParts, Zenon
  <2> QED
    BY <2>2, Zenon DEF Follows
<1>8. PICK g : /\ Shifts(g, hunks)
               /\ \A n \in 1 .. N : Opposite(back[n], hunks[n], g[n - 1])
  BY ReversedHunks
<1>9. Len(back) = N
  BY ReversedHunks
<1>10. \A n \in 0 .. N : g[n] = Len(f[n].out) - f[n].cursor
  BY <1>2, <1>3, <1>8, Moved
<1>11. \A n \in 0 .. N : /\ Len(f[n].out) <= Len(W)
                         /\ \A i \in 1 .. Len(f[n].out) : W[i] = f[n].out[i]
  <2>1. \A w \in Seq(T) : ApplyHunks(content, hunks).out = w => BeginsAs(w, f, N)
    BY <1>2, <1>3, Beginnings
  <2>2. BeginsAs(W, f, N)
    BY <1>7, <2>1, Zenon
  <2> QED
    BY <2>2, Zenon DEF BeginsAs
<1>12. \A n \in 0 .. N : Len(f[n].out) \in Nat
  <2>1. \A s \in Seq(T) : Len(s) \in Nat
    OBVIOUS
  <2> QED
    BY <1>4, <2>1
<1> HIDE DEF W, back, N, tail
<1>13. PICK R : Steps(R, W, back, T)
  <2>1. \A n \in 1 .. N : Applicable(back[n], T)
    <3> SUFFICES ASSUME NEW n \in 1 .. N PROVE Applicable(back[n], T)
      OBVIOUS
    <3>1. /\ back[n].start = hunks[n].start + g[n - 1] /\ back[n].old = hunks[n].new
          /\ NewSide(back[n]) = OldSide(hunks[n])
      BY <1>8 DEF Opposite
    <3>2. g[n - 1] \in Int
      <4>1. g \in [0 .. N -> Int] /\ n - 1 \in 0 .. N
        BY <1>0, <1>8 DEF Shifts, N
      <4> QED
        BY <4>1, Zenon
    <3> QED
      BY <1>1, <1>3, <3>1, <3>2 DEF Applicable
  <2> QED
    BY <1>0, <1>7, <1>9, <2>1, ApplySteps
<1>14. /\ R[0] = Begin
       /\ \A n \in 1 .. N : R[n] = Taken(W, R[n - 1], back[n])
       /\ ApplyHunks(W, back) = [ok |-> R[N].ok, out |-> R[N].out \o SubSeq(W, R[N].cursor + 1, Len(W))]
  BY <1>9, <1>13, Zenon DEF Steps
<1> DEFINE Reached(n) == [ok |-> TRUE, cursor |-> Len(f[n].out),
                          out |-> SubSeq(content, 1, f[n].cursor)]
<1>15. \A n \in 0 .. N : SubSeq(content, 1, f[n].cursor) \in Seq(T)
                         /\ Copies(SubSeq(content, 1, f[n].cursor), content, 0, f[n].cursor)
  <2> SUFFICES ASSUME NEW n \in 0 .. N
               PROVE  SubSeq(content, 1, f[n].cursor) \in Seq(T)
                      /\ Copies(SubSeq(content, 1, f[n].cursor), content, 0, f[n].cursor)
    OBVIOUS
  <2>1. 0 \in Nat /\ 0 <= f[n].cursor /\ 0 + 1 = 1
    BY <1>4
  <2>2. SubSeq(content, 0 + 1, f[n].cursor) \in Seq(T)
        /\ Copies(SubSeq(content, 0 + 1, f[n].cursor), content, 0, f[n].cursor)
    BY <1>4, <2>1, Part, Zenon
  <2> QED
    BY <2>1, <2>2
<1>16. R[0] = Reached(0)
  <2>1. SubSeq(content, 1, 0) = <<>>
    OBVIOUS
  <2> QED
    BY <1>4, <1>14, <2>1 DEF Begin
<1>17. ASSUME NEW n \in 1 .. N, R[n - 1] = Reached(n - 1) PROVE R[n] = Reached(n)
  <2> DEFINE was == Len(f[n - 1].out)
             is == Len(f[n].out)
             from == hunks[n].start - 1
             old == hunks[n].old
             new == hunks[n].new
             before == f[n - 1].cursor
             after == f[n].cursor
             at == back[n].start - 1
             a == SubSeq(content, 1, before)
             b == SubSeq(W, was + 1, at)
             c == OldSide(hunks[n])
             s == SubSeq(content, 1, after)
  <2>1. n - 1 \in 0 .. N /\ n \in 0 .. N
    BY <1>0
  <2>2. /\ was \in Nat /\ is \in Nat /\ before \in Nat /\ after \in Nat /\ is <= Len(W)
        /\ Len(W) \in Nat
    <3>1. \A t \in Seq(T) : Len(t) \in Nat
      OBVIOUS
    <3> QED
      BY <1>4, <1>7, <1>11, <1>12, <2>1, <3>1
  <2>3. Adds(f, content, hunks[n], n)
    BY <1>3
  <2>4. /\ from \in Nat /\ from - before \in Nat /\ old \in Nat /\ new \in Nat
        /\ is = was + (from - before) + new /\ after = from + old
        /\ \A i \in 1 .. (from - before) : f[n].out[was + i] = content[before + i]
        /\ \A i \in 1 .. new : f[n].out[was + (from - before) + i] = NewSide(hunks[n])[i]
        /\ Len(c) = old /\ Len(NewSide(hunks[n])) = new
        /\ \A i \in 1 .. old : c[i] = content[from + i]
    BY <2>3, Zenon DEF Adds
  <2>5. \A i \in 1 .. is : W[i] = f[n].out[i]
    BY <1>11, <2>1
  <2>6. /\ back[n].start = hunks[n].start + g[n - 1] /\ back[n].old = new
        /\ OldSide(back[n]) = NewSide(hunks[n]) /\ NewSide(back[n]) = c
    BY <1>8 DEF Opposite
  <2>7. at = was + (from - before)
    <3>1. g[n - 1] = was - before /\ hunks[n].start \in Nat
      BY <1>1, <1>10, <2>1
    <3> DEFINE start == hunks[n].start
    <3>2. back[n].start = start + (was - before) /\ start \in Nat /\ from = start - 1
      BY <2>6, <3>1, Zenon
    <3> HIDE DEF start, was, before, from
    <3> QED
      BY <2>2, <3>2
  <2>8. c \in Seq(T) /\ NewSide(hunks[n]) \in Seq(T)
    BY <1>3 DEF N
  <2>9. s \in Seq(T) /\ Copies(s, content, 0, after) /\ a \in Seq(T) /\ Copies(a, content, 0, before)
    BY <1>15, <2>1
  <2>10. R[n - 1] = [ok |-> TRUE, cursor |-> was, out |-> a]
    BY <1>17
  <2> HIDE DEF was, is, from, old, new, before, after, a, c, s, N
  <2>11. at \in Nat /\ at >= was /\ was <= at /\ at + new <= Len(W) /\ at + new = is /\ at <= Len(W)
         /\ at <= at + new /\ at + new \in Nat
    BY <2>2, <2>4, <2>7
  <2>12. b \in Seq(T) /\ Copies(b, W, was, at)
    BY <1>7, <2>2, <2>11, Part, Zenon
  <2> HIDE DEF b, at
  <2>13. SubSeq(W, at + 1, at + new) = OldSide(back[n])
    <3> DEFINE part == SubSeq(W, at + 1, at + new)
               end == at + new
    <3>1. part \in Seq(T) /\ Copies(part, W, at, end)
      BY <1>7, <2>11, Part, Zenon
    <3>2. end - at = new
      BY <2>4, <2>11
    <3> HIDE DEF part, end
    <3>3. Len(part) = new /\ \A i \in 1 .. new : part[i] = W[at + i]
      BY <3>1, <3>2 DEF Copies
    <3>4. \A i \in 1 .. new : at + i \in 1 .. is
      BY <2>2, <2>4, <2>11
    <3>5. \A i \in 1 .. new : part[i] = NewSide(hunks[n])[i]
      BY <2>4, <2>5, <2>7, <3>3, <3>4, Zenon
    <3>6. part = NewSide(hunks[n])
      BY <2>4, <2>8, <3>1, <3>3, <3>5, SameSequence
    <3> QED
      BY <2>6, <3>6 DEF part
  <2>14. a \o b \o c = s
    <3>1. Len(a) = before /\ \A i \in 1 .. before : a[i] = content[i]
      BY <2>2, <2>9 DEF Copies
    <3>2. Len(s) = after /\ \A i \in 1 .. after : s[i] = content[i]
      BY <2>2, <2>9 DEF Copies
    <3>3. Len(b) = from - before /\ \A i \in 1 .. (from - before) : b[i] = W[was + i]
      <4>1. at - was = from - before
        BY <2>2, <2>4, <2>7
      <4> QED
        BY <2>12, <4>1, Zenon DEF Copies
    <3>4. \A i \in 1 .. (from - before) : was + i \in 1 .. is /\ before + i \in 1 .. after
      BY <2>2, <2>4
    <3>5. \A i \in 1 .. (from - before) : b[i] = s[before + i]
      BY <2>4, <2>5, <3>2, <3>3, <3>4, Zenon
    <3>6. \A i \in 1 .. old : from + i \in 1 .. after
      BY <2>2, <2>4
    <3>7. \A i \in 1 .. old : c[i] = s[from + i]
      BY <2>4, <3>2, <3>6, Zenon
    <3>8. \A i \in 1 .. before : i \in 1 .. after
      BY <2>2, <2>4
    <3>9. before + (from - before) = from /\ from + old = after
      BY <2>2, <2>4
    <3>10. /\ \A i \in 1 .. Len(a) : s[i] = a[i]
           /\ \A i \in 1 .. Len(b) : s[Len(a) + i] = b[i]
      BY <3>1, <3>2, <3>3, <3>5, <3>8, Zenon
    <3>11. /\ \A i \in 1 .. Len(c) : s[Len(a) + Len(b) + i] = c[i]
           /\ Len(s) = Len(a) + Len(b) + Len(c)
      <4>1. Len(a) + Len(b) = from
        BY <2>2, <2>4, <3>1, <3>3
      <4> QED
        BY <2>4, <3>2, <3>7, <3>9, <4>1, Zenon
    <3>12. Joins(s, a, b, c)
      BY <3>10, <3>11, Zenon DEF Joins
    <3> QED
      <4>1. s \in Seq(T) /\ a \in Seq(T) /\ b \in Seq(T) /\ c \in Seq(T)
        BY <2>8, <2>9, <2>12
      <4> QED
        BY <3>12, <4>1, ThreeParts
  <2>15. Matches(back[n], W, was)
    <3>1. at >= was /\ at + back[n].old <= Len(W)
          /\ SubSeq(W, at + 1, at + back[n].old) = OldSide(back[n])
      BY <2>6, <2>11, <2>13, Zenon
    <3> QED
      BY <3>1, Zenon DEF Matches, at
  <2>16. Taken(W, R[n - 1], back[n]) = [ok |-> TRUE, cursor |-> is, out |-> a \o b \o c]
    <3>1. R[n - 1].ok /\ R[n - 1].cursor = was /\ R[n - 1].out = a
      BY <2>10
    <3>2. Taken(W, R[n - 1], back[n]) =
            [ok |-> TRUE, cursor |-> at + back[n].old,
             out |-> R[n - 1].out \o SubSeq(W, R[n - 1].cursor + 1, at) \o NewSide(back[n])]
      BY <2>15, <3>1, Zenon DEF Taken, at
    <3> QED
      BY <2>6, <2>11, <3>1, <3>2, Zenon DEF b
  <2> QED
    BY <1>14, <2>14, <2>16, Zenon DEF is, s, after
<1>18. R[N] = Reached(N)
  <2> DEFINE S == {n \in 0 .. N : R[n] = Reached(n)}
  <2>1. 0 \in S /\ \A n \in 1 .. N : n - 1 \in S => n \in S
    BY <1>0, <1>16, <1>17
  <2>2. \A n \in S : R[n] = Reached(n)
    OBVIOUS
  <2> HIDE DEF S, Reached
  <2>3. 0 .. N \subseteq S
    BY <1>0, <2>1, Upwards, Zenon
  <2> QED
    BY <1>0, <2>2, <2>3
<1>19. SubSeq(content, 1, f[N].cursor) \o SubSeq(W, Len(f[N].out) + 1, Len(W)) = content
  <2> DEFINE a == SubSeq(content, 1, f[N].cursor)
             b == SubSeq(W, Len(f[N].out) + 1, Len(W))
             length == Len(f[N].out)
             cursor == f[N].cursor
  <2>1. /\ length \in Nat /\ length <= Len(W) /\ Len(W) \in Nat /\ Len(W) <= Len(W)
        /\ cursor \in Nat /\ cursor <= Len(content)
    <3>1. \A t \in Seq(T) : Len(t) \in Nat
      OBVIOUS
    <3> QED
      BY <1>0, <1>4, <1>7, <1>11, <1>12, <3>1
  <2>2. b \in Seq(T) /\ Copies(b, W, length, Len(W))
    BY <1>7, <2>1, Part, Zenon
  <2>3. a \in Seq(T) /\ Copies(a, content, 0, cursor)
    BY <1>0, <1>15
  <2> HIDE DEF a, b
  <2>4. Len(a) = cursor /\ \A i \in 1 .. cursor : a[i] = content[i]
    BY <2>1, <2>3 DEF Copies
  <2>5. Len(tail(f)) = Len(content) - cursor
        /\ \A i \in 1 .. Len(content) - cursor : tail(f)[i] = content[cursor + i]
    BY <1>6, Zenon DEF Copies
  <2> HIDE DEF length, cursor
  <2>6. Len(W) - length = Len(content) - cursor
    BY <1>0, <1>7, <2>1, <2>5 DEF length
  <2>7. Len(b) = Len(content) - cursor
        /\ \A i \in 1 .. Len(content) - cursor : b[i] = W[length + i]
    BY <2>2, <2>6, Zenon DEF Copies
  <2>8. \A i \in 1 .. Len(content) - cursor : b[i] = content[cursor + i]
    BY <1>7, <2>5, <2>7, Zenon DEF length
  <2>9. Len(content) = Len(a) + Len(b)
    BY <1>0, <2>1, <2>4, <2>7 DEF cursor
  <2>10. Follows(content, a, b)
    BY <2>4, <2>8, <2>9, <2>7, Zenon DEF Follows
  <2>11. a \o b = content
    BY <2>2, <2>3, <2>10, TwoParts, Zenon
  <2> QED
    BY <2>11 DEF a, b
<1>20. ApplyHunks(W, back) = [ok |-> TRUE, out |-> content]
  <2>1. R[N].ok = TRUE /\ R[N].cursor = Len(f[N].out) /\ R[N].out = SubSeq(content, 1, f[N].cursor)
    <3> DEFINE x == Len(f[N].out)
               y == SubSeq(content, 1, f[N].cursor)
    <3>1. R[N] = [ok |-> TRUE, cursor |-> x, out |-> y]
      BY <1>18, Zenon
    <3> HIDE DEF x, y
    <3>2. R[N].ok = TRUE /\ R[N].cursor = x /\ R[N].out = y
      BY <3>1
    <3> QED
      BY <3>2, Zenon DEF x, y
  <2> QED
    BY <1>14, <1>19, <2>1, Zenon
<1> QED
  BY <1>20 DEF W, back

-------------------------------------------------------------------------------
Trees == {Tree0} \cup Pushes

(* Where a request has tested its change, and where its branch may be there. *)
Proven == {"branching", "drafting", "verified-draft"}
Beyond == Proven \cup {"failed"}
Begun == {"reading", "asking", "checking", "testing"} \cup Proven

RepairTyped ==
  /\ pushed \in Seq(Trees) /\ Len(pushed) # 0
  /\ DOMAIN stage = Requests /\ DOMAIN source = Requests /\ DOMAIN changed = Requests
  /\ DOMAIN tested = Requests /\ DOMAIN branch = Requests
  /\ \A r \in Requests : stage[r] \in Begun => source[r] \in 1 .. Len(pushed)

(* The tests of r have passed on a tree. *)
PassedOn(r, tree) == [tree |-> tree, passed |-> TRUE] \in tested[r]

(* A request that is going to publish has tested what it publishes.          *)
Tested ==
  \A r \in Requests : stage[r] \in Proven =>
    /\ PassedOn(r, Commit(r).tree) /\ PassedOn(r, pushed[Commit(r).parent])

(* What is published is a commit that was tested, by a request that will not *)
(* test again.                                                               *)
Published ==
  \A name \in DOMAIN branches :
    LET commit == branches[name] IN
    /\ commit.by \in Requests /\ stage[commit.by] \in Beyond /\ commit.parent \in 1 .. Len(pushed)
    /\ PassedOn(commit.by, commit.tree) /\ PassedOn(commit.by, pushed[commit.parent])

(* A request that goes on has a branch, and then a draft, of its own.        *)
Owned ==
  \A r \in Requests :
    /\ stage[r] \in {"drafting", "verified-draft"} =>
         branch[r] \in DOMAIN branches /\ branches[branch[r]].by = r
    /\ stage[r] = "verified-draft" => branch[r] \in DOMAIN drafts /\ drafts[branch[r]] = r

RepairInv == RepairTyped /\ Tested /\ Published /\ Owned

LEMMA RepairInvInit == RepairInit => RepairInv
<1> SUFFICES ASSUME RepairInit PROVE RepairInv
  OBVIOUS
<1>1. pushed \in Seq(Trees) /\ Len(pushed) = 1
  BY DEF RepairInit, Trees
<1> QED
  BY <1>1 DEF RepairInit, RepairInv, RepairTyped, Tested, Published, Owned, Begun, Proven

(* The commits of the pull request stay where they are: a push adds one.     *)
LEMMA PushedKept ==
  ASSUME RepairTyped, [RepairNext]_repairVars
  PROVE  /\ pushed' \in Seq(Trees) /\ Len(pushed') # 0
         /\ \A n \in 1 .. Len(pushed) : n \in 1 .. Len(pushed') /\ pushed'[n] = pushed[n]
<1>1. CASE Push
  <2>1. PICK tree \in Pushes : pushed' = Append(pushed, tree)
    BY <1>1 DEF Push
  <2> QED
    BY <2>1 DEF RepairTyped, Trees
<1>2. CASE UNCHANGED pushed
  BY <1>2 DEF RepairTyped
<1>3. ASSUME NEW r \in Requests, Fix(r) PROVE UNCHANGED pushed
  BY <1>3 DEF Fix, Start, ReadFile, NoPatch, BadPatch, GoodPatch, Check, Test, Fails,
     CreateBranch, CreateDraft
<1> QED
  BY <1>1, <1>2, <1>3 DEF RepairNext, repairVars

(* A step keeps the types. *)
LEMMA RepairTypedKept ==
  ASSUME RepairTyped, [RepairNext]_repairVars PROVE RepairTyped'
<1> USE PushedKept DEF RepairTyped, Begun, Proven
<1>1. CASE Push \/ UNCHANGED repairVars
  BY <1>1 DEF Push, repairVars, github, work
<1>2. ASSUME NEW r \in Requests, Start(r) PROVE RepairTyped'
  BY <1>2 DEF Start, To
<1>3. ASSUME NEW r \in Requests, ReadFile(r) PROVE RepairTyped'
  BY <1>3 DEF ReadFile, To
<1>4. ASSUME NEW r \in Requests, NoPatch(r) \/ BadPatch(r) \/ Check(r) \/ Fails(r)
      PROVE RepairTyped'
  BY <1>4 DEF NoPatch, BadPatch, Check, Fails, To, work
<1>5. ASSUME NEW r \in Requests, GoodPatch(r) PROVE RepairTyped'
  BY <1>5 DEF GoodPatch, To
<1>6. ASSUME NEW r \in Requests, Test(r) PROVE RepairTyped'
  BY <1>6 DEF Test, To
<1>7. ASSUME NEW r \in Requests, CreateBranch(r) PROVE RepairTyped'
  BY <1>7 DEF CreateBranch, Answered, Again, To, work
<1>8. ASSUME NEW r \in Requests, CreateDraft(r) PROVE RepairTyped'
  BY <1>8 DEF CreateDraft, Answered, Again, To, work
<1> QED
  BY <1>1, <1>2, <1>3, <1>4, <1>5, <1>6, <1>7, <1>8 DEF RepairNext, Fix

(* A step that publishes nothing and does not test: whoever is proven after  *)
(* it was before, with the same change and the same tests, and nobody leaves *)
(* a stage from which it has published but to fail.                          *)
Quiet ==
  /\ UNCHANGED <<branches, drafts, branch, tested>>
  /\ \A q \in Requests :
       /\ stage'[q] \in Proven =>
            stage'[q] = stage[q] /\ source'[q] = source[q] /\ changed'[q] = changed[q]
       /\ stage[q] \in Beyond => stage'[q] \in Beyond

LEMMA QuietKeeps ==
  ASSUME RepairInv, [RepairNext]_repairVars, Quiet PROVE RepairInv'
<1> USE DEF RepairInv
<1>1. RepairTyped'
  BY RepairTypedKept
<1>2. \A n \in 1 .. Len(pushed) : n \in 1 .. Len(pushed') /\ pushed'[n] = pushed[n]
  BY PushedKept
<1>3. Tested'
  <2> SUFFICES ASSUME NEW r \in Requests, stage'[r] \in Proven
               PROVE  /\ PassedOn(r, Commit(r).tree)'
                      /\ PassedOn(r, pushed[Commit(r).parent])'
    BY DEF Tested
  <2>1. stage[r] \in Proven /\ source'[r] = source[r] /\ changed'[r] = changed[r]
    BY DEF Quiet
  <2>2. source[r] \in 1 .. Len(pushed) /\ pushed'[source[r]] = pushed[source[r]]
    BY <1>2, <2>1 DEF RepairTyped, Begun
  <2>3. Commit(r)' = Commit(r) /\ Commit(r).parent = source[r]
    BY <2>1, <2>2 DEF Commit
  <2> QED
    BY <2>1, <2>2, <2>3 DEF Tested, PassedOn, Quiet
<1>4. Published'
  BY <1>2 DEF Published, PassedOn, Quiet
<1>5. Owned'
  BY DEF Owned, Quiet, Proven
<1> QED
  BY <1>1, <1>3, <1>4, <1>5

LEMMA QuietStep ==
  ASSUME RepairTyped
  PROVE  /\ Push \/ UNCHANGED repairVars => Quiet
         /\ \A r \in Requests :
              Start(r) \/ ReadFile(r) \/ NoPatch(r) \/ BadPatch(r) \/ GoodPatch(r)
              \/ Check(r) \/ Fails(r) => Quiet
<1> USE DEF RepairTyped, Quiet, Beyond, Proven, To, github, work
<1>1. Push \/ UNCHANGED repairVars => Quiet
  BY DEF Push, repairVars
<1>2. ASSUME NEW r \in Requests PROVE Start(r) => Quiet
  BY DEF Start
<1>3. ASSUME NEW r \in Requests PROVE ReadFile(r) => Quiet
  BY DEF ReadFile
<1>4. ASSUME NEW r \in Requests PROVE NoPatch(r) \/ BadPatch(r) => Quiet
  BY DEF NoPatch, BadPatch
<1>5. ASSUME NEW r \in Requests PROVE GoodPatch(r) => Quiet
  BY DEF GoodPatch
<1>6. ASSUME NEW r \in Requests PROVE Check(r) \/ Fails(r) => Quiet
  BY DEF Check, Fails
<1> QED
  BY <1>1, <1>2, <1>3, <1>4, <1>5, <1>6

(* The test makes its request proven, of what it will commit.                *)
LEMMA TestKeeps ==
  ASSUME RepairInv, NEW r \in Requests, Test(r) PROVE RepairInv'
<1> USE DEF RepairInv
<1>0. RepairTyped'
  BY RepairTypedKept DEF RepairNext, Fix
<1>1. /\ stage[r] = "testing" /\ stage'[r] \in {"branching", "blocked"}
      /\ UNCHANGED <<pushed, branches, drafts, source, changed>>
      /\ \A q \in Requests \ {r} :
           stage'[q] = stage[q] /\ tested'[q] = tested[q] /\ branch'[q] = branch[q]
  BY DEF Test, To, github, RepairTyped
<1>2. ASSUME stage'[r] = "branching"
      PROVE  PassedOn(r, Commit(r).tree)' /\ PassedOn(r, pushed[Commit(r).parent])'
  <2> DEFINE before == pushed[source[r]]
             after == Over(changed[r], before)
  <2>1. tested'[r] = {[tree |-> before, passed |-> TRUE], [tree |-> after, passed |-> TRUE]}
    BY <1>2 DEF Test, To, RepairTyped
  <2>2. Commit(r)' = [parent |-> source[r], tree |-> after, by |-> r]
    BY <1>1 DEF Commit
  <2> HIDE DEF before, after
  <2>3. Commit(r).tree' = after /\ (pushed[Commit(r).parent])' = before
    BY <1>1, <2>2 DEF before
  <2> QED
    BY <2>1, <2>3 DEF PassedOn
<1>3. ASSUME NEW q \in Requests \ {r} PROVE Commit(q)' = Commit(q)
  BY <1>1 DEF Commit
<1>4. Tested'
  <2> SUFFICES ASSUME NEW q \in Requests, stage'[q] \in Proven
               PROVE  /\ PassedOn(q, Commit(q).tree)' /\ PassedOn(q, pushed[Commit(q).parent])'
    BY DEF Tested
  <2>1. CASE q = r
    BY <1>1, <1>2, <2>1 DEF Proven
  <2>2. CASE q # r
    BY <1>1, <1>3, <2>2 DEF Tested, PassedOn
  <2> QED
    BY <2>1, <2>2
<1>5. Published'
  BY <1>1 DEF Published, PassedOn, Beyond, Proven
<1>6. Owned'
  BY <1>1 DEF Owned
<1> QED
  BY <1>0, <1>4, <1>5, <1>6

(* A branch that is made is new, with the commit of a request that is proven;*)
(* no other branch changes.                                                  *)
LEMMA CreateBranchKeeps ==
  ASSUME RepairInv, NEW r \in Requests, CreateBranch(r) PROVE RepairInv'
<1> USE DEF RepairInv
<1>0. RepairTyped'
  BY RepairTypedKept DEF RepairNext, Fix
<1>1. /\ stage[r] = "branching" /\ stage'[r] \in {"branching", "drafting", "failed"}
      /\ UNCHANGED <<pushed, drafts, source, changed, tested, branch>>
      /\ \A q \in Requests \ {r} : stage'[q] = stage[q]
  BY DEF CreateBranch, Answered, Again, To, work, RepairTyped
<1>2. \A q : Commit(q)' = Commit(q)
  BY <1>1 DEF Commit
<1>3. Tested'
  BY <1>1, <1>2 DEF Tested, PassedOn, Proven
<1>4. CASE NewBranch(r)
  <2>1. /\ DOMAIN branches' = DOMAIN branches \cup {branch[r]}
        /\ branch[r] \notin DOMAIN branches /\ branches'[branch[r]] = Commit(r)
        /\ \A name \in DOMAIN branches : branches'[name] = branches[name]
    BY <1>4 DEF NewBranch, Put, Over
  <2>2. Commit(r).by = r /\ Commit(r).parent = source[r]
    BY DEF Commit
  <2>3. Published'
    <3> SUFFICES ASSUME NEW name \in DOMAIN branches'
                 PROVE  LET commit == branches'[name] IN
                        /\ commit.by \in Requests /\ stage'[commit.by] \in Beyond
                        /\ commit.parent \in 1 .. Len(pushed)
                        /\ PassedOn(commit.by, commit.tree)
                        /\ PassedOn(commit.by, pushed[commit.parent])
      BY <1>1 DEF Published, PassedOn
    <3>1. CASE name \in DOMAIN branches
      BY <1>1, <2>1, <3>1 DEF Published, Beyond, Proven
    <3>2. CASE name = branch[r]
      BY <1>1, <2>1, <2>2, <3>2 DEF Tested, RepairTyped, Begun, Beyond, Proven
    <3> QED
      BY <2>1, <3>1, <3>2
  <2>4. Owned'
    BY <1>1, <2>1, <2>2 DEF Owned
  <2> QED
    BY <1>0, <1>3, <2>3, <2>4
<1>5. CASE UNCHANGED branches
  <2>1. stage'[r] \in {"branching", "failed"}
    BY <1>1, <1>5 DEF CreateBranch, Answered, Again, To, NewBranch, RepairTyped, Put, Over
  <2>2. Published'
    BY <1>1, <1>5, <2>1 DEF Published, PassedOn, Beyond, Proven
  <2>3. Owned'
    BY <1>1, <1>5, <2>1 DEF Owned
  <2> QED
    BY <1>0, <1>3, <2>2, <2>3
<1> QED
  BY <1>4, <1>5 DEF CreateBranch

(* A draft that is made is new; no other draft changes.                      *)
LEMMA CreateDraftKeeps ==
  ASSUME RepairInv, NEW r \in Requests, CreateDraft(r) PROVE RepairInv'
<1> USE DEF RepairInv
<1>0. RepairTyped'
  BY RepairTypedKept DEF RepairNext, Fix
<1>1. /\ stage[r] = "drafting" /\ stage'[r] \in {"drafting", "verified-draft", "failed"}
      /\ UNCHANGED <<pushed, branches, source, changed, tested, branch>>
      /\ \A q \in Requests \ {r} : stage'[q] = stage[q]
  BY DEF CreateDraft, Answered, Again, To, work, RepairTyped
<1>2. \A q : Commit(q)' = Commit(q)
  BY <1>1 DEF Commit
<1>3. Tested'
  BY <1>1, <1>2 DEF Tested, PassedOn, Proven
<1>4. Published'
  BY <1>1 DEF Published, PassedOn, Beyond, Proven
<1>5. \A q \in Requests : stage'[q] \in {"drafting", "verified-draft"} =>
        branch[q] \in DOMAIN branches /\ branches[branch[q]].by = q
  BY <1>1 DEF Owned
<1>6. CASE NewDraft(r)
  <2>1. /\ DOMAIN drafts' = DOMAIN drafts \cup {branch[r]}
        /\ branch[r] \notin DOMAIN drafts /\ drafts'[branch[r]] = r
        /\ \A name \in DOMAIN drafts : drafts'[name] = drafts[name]
    BY <1>6 DEF NewDraft, Put, Over
  <2> QED
    BY <1>0, <1>1, <1>3, <1>4, <1>5, <2>1 DEF Owned
<1>7. CASE UNCHANGED drafts
  <2>1. stage'[r] \in {"drafting", "failed"}
    BY <1>1, <1>7 DEF CreateDraft, Answered, Again, To, NewDraft, RepairTyped, Put, Over
  <2> QED
    BY <1>0, <1>1, <1>3, <1>4, <1>5, <1>7, <2>1 DEF Owned
<1> QED
  BY <1>6, <1>7 DEF CreateDraft

LEMMA RepairInvariant == RepairSpec => []RepairInv
<1>1. RepairInv /\ [RepairNext]_repairVars => RepairInv'
  <2> SUFFICES ASSUME RepairInv, [RepairNext]_repairVars PROVE RepairInv'
    OBVIOUS
  <2>1. ASSUME Quiet PROVE RepairInv'
    BY <2>1, QuietKeeps
  <2>2. CASE Push \/ UNCHANGED repairVars
    BY <2>1, <2>2, QuietStep DEF RepairInv
  <2>3. ASSUME NEW r \in Requests, Fix(r) PROVE RepairInv'
    BY <2>1, <2>3, QuietStep, TestKeeps, CreateBranchKeeps, CreateDraftKeeps DEF Fix, RepairInv
  <2> QED
    BY <2>2, <2>3 DEF RepairNext
<1> QED
  BY <1>1, RepairInvInit, PTL DEF RepairSpec

(* What a branch of the service has was tested as it is, on a parent that    *)
(* passes the same tests, with any number of requests that fail, are sent    *)
(* again and take the same name, and any tree the author pushes meanwhile.   *)
THEOREM PublishedIsVerified == RepairSpec => []VerifiedPublished
<1>1. RepairInv => VerifiedPublished
  BY DEF RepairInv, Published, PassedOn, VerifiedPublished
<1> QED
  BY <1>1, RepairInvariant, PTL

(* A draft that is reported is there, and is the request's own.              *)
THEOREM ReportIsTrue == RepairSpec => []ReportTrue
<1>1. RepairInv => ReportTrue
  BY DEF RepairInv, Owned, ReportTrue
<1> QED
  BY <1>1, RepairInvariant, PTL

-------------------------------------------------------------------------------
(* A request that has its files changed has a patch that applies to what it  *)
(* has read and made these changes, and nobody reads or asks again.          *)
Drafted(r) ==
  /\ patch[r] \in Patches /\ Parses(patch[r])
  /\ \A path \in DOMAIN patch[r] : Applied(originals[r], patch[r])[path].ok
  /\ changed[r] = Changed(originals[r], patch[r])

DraftInv ==
  /\ DOMAIN patch = Requests /\ DOMAIN originals = Requests /\ DOMAIN changed = Requests
  /\ \A r \in Requests : stage[r] \in {"checking", "testing"} \cup Proven => Drafted(r)
  /\ \A name \in DOMAIN branches : \A r \in Requests : branches[name].by = r =>
       Drafted(r) /\ branches[name].tree = Over(changed[r], pushed[branches[name].parent])

(* What a step does to the work of a request on its patch.                   *)
PatchSteps ==
  /\ \A r \in Requests : stage[r] \notin {"reading", "asking"} =>
       /\ originals'[r] = originals[r] /\ patch'[r] = patch[r] /\ changed'[r] = changed[r]
       /\ stage'[r] \in {"checking", "testing"} \cup Proven =>
            stage[r] \in {"checking", "testing"} \cup Proven
  /\ \A r \in Requests : stage[r] \in {"reading", "asking"}
                         /\ stage'[r] \in {"checking", "testing"} \cup Proven => Drafted(r)'
  /\ DOMAIN patch' = Requests /\ DOMAIN originals' = Requests /\ DOMAIN changed' = Requests

LEMMA PatchStepsTaken ==
  ASSUME RepairTyped, DraftInv, [RepairNext]_repairVars PROVE PatchSteps
<1> USE DEF RepairTyped, DraftInv, PatchSteps, Proven, To, github, work
<1>1. CASE Push \/ UNCHANGED repairVars
  BY <1>1 DEF Push, repairVars
<1>2. ASSUME NEW r \in Requests, Start(r) PROVE PatchSteps
  BY <1>2 DEF Start
<1>3. ASSUME NEW r \in Requests, ReadFile(r) PROVE PatchSteps
  BY <1>3 DEF ReadFile
<1>4. ASSUME NEW r \in Requests, NoPatch(r) \/ BadPatch(r) \/ Check(r) \/ Fails(r)
      PROVE PatchSteps
  BY <1>4 DEF NoPatch, BadPatch, Check, Fails
<1>5. ASSUME NEW r \in Requests, GoodPatch(r) PROVE PatchSteps
  <2>1. PICK p \in Patches :
          /\ Parses(p) /\ \A path \in DOMAIN p : Applied(originals[r], p)[path].ok
          /\ patch' = [patch EXCEPT ![r] = p]
          /\ changed' = [changed EXCEPT ![r] = Changed(originals[r], p)]
    BY <1>5 DEF GoodPatch
  <2>2. stage[r] = "asking" /\ stage' = [stage EXCEPT ![r] = "checking"] /\ UNCHANGED originals
    BY <1>5 DEF GoodPatch
  <2>3. patch'[r] = p /\ changed'[r] = Changed(originals[r], p) /\ originals'[r] = originals[r]
    BY <2>1, <2>2
  <2>4. Drafted(r)'
    BY <2>1, <2>3, Zenon DEF Drafted
  <2>5. \A q \in Requests \ {r} :
          stage'[q] = stage[q] /\ patch'[q] = patch[q] /\ changed'[q] = changed[q]
    BY <2>1, <2>2
  <2>6. DOMAIN patch' = Requests /\ DOMAIN changed' = Requests /\ DOMAIN originals' = Requests
    BY <2>1, <2>2
  <2> QED
    BY <2>2, <2>3, <2>4, <2>5, <2>6
<1>6. ASSUME NEW r \in Requests, Test(r) PROVE PatchSteps
  BY <1>6 DEF Test
<1>7. ASSUME NEW r \in Requests, CreateBranch(r) PROVE PatchSteps
  BY <1>7 DEF CreateBranch, Answered, Again
<1>8. ASSUME NEW r \in Requests, CreateDraft(r) PROVE PatchSteps
  BY <1>8 DEF CreateDraft, Answered, Again
<1> QED
  BY <1>1, <1>2, <1>3, <1>4, <1>5, <1>6, <1>7, <1>8 DEF RepairNext, Fix

(* The branches of a step are those before it, and one by a request that is  *)
(* proven.                                                                   *)
LEMMA BranchStep ==
  ASSUME RepairTyped, [RepairNext]_repairVars, NEW name \in DOMAIN branches'
  PROVE  \/ name \in DOMAIN branches /\ branches'[name] = branches[name]
         \/ \E r \in Requests : stage[r] = "branching" /\ branches'[name] = Commit(r)
<1>1. CASE UNCHANGED branches
  BY <1>1
<1>2. ASSUME NEW r \in Requests, CreateBranch(r), NewBranch(r)
      PROVE  \/ name \in DOMAIN branches /\ branches'[name] = branches[name]
             \/ \E q \in Requests : stage[q] = "branching" /\ branches'[name] = Commit(q)
  <2>1. /\ DOMAIN branches' = DOMAIN branches \cup {branch[r]}
        /\ branch[r] \notin DOMAIN branches /\ branches'[branch[r]] = Commit(r)
        /\ \A other \in DOMAIN branches : branches'[other] = branches[other]
    BY <1>2 DEF NewBranch, Put, Over
  <2>2. stage[r] = "branching"
    BY <1>2 DEF CreateBranch
  <2> QED
    BY <2>1, <2>2
<1>3. ASSUME NEW r \in Requests, Fix(r)
      PROVE  UNCHANGED branches \/ (CreateBranch(r) /\ NewBranch(r))
  <2>1. CASE CreateBranch(r)
    BY <2>1 DEF CreateBranch
  <2>2. CASE ~CreateBranch(r)
    BY <1>3, <2>2 DEF Fix, Start, ReadFile, NoPatch, BadPatch, GoodPatch, Check, Test, Fails,
       CreateDraft, github
  <2> QED
    BY <2>1, <2>2
<1>4. CASE Push \/ UNCHANGED repairVars
  BY <1>1, <1>4 DEF Push, repairVars, github
<1> QED
  BY <1>1, <1>2, <1>3, <1>4 DEF RepairNext

LEMMA DraftInvKept ==
  ASSUME RepairInv, DraftInv, [RepairNext]_repairVars PROVE DraftInv'
<1>0. RepairTyped /\ Published
  BY DEF RepairInv
<1>1. PatchSteps
  BY <1>0, PatchStepsTaken
<1>2. ASSUME NEW r \in Requests, stage[r] \notin {"reading", "asking"}, Drafted(r)
      PROVE  Drafted(r)'
  <2>1. originals'[r] = originals[r] /\ patch'[r] = patch[r] /\ changed'[r] = changed[r]
    BY <1>1, <1>2 DEF PatchSteps
  <2> QED
    BY <1>2, <2>1, Zenon DEF Drafted
<1>3. \A r \in Requests : stage'[r] \in {"checking", "testing"} \cup Proven => Drafted(r)'
  BY <1>1, <1>2 DEF PatchSteps, DraftInv
<1>4. \A n \in 1 .. Len(pushed) : pushed'[n] = pushed[n]
  BY <1>0, PushedKept
<1>5. ASSUME NEW name \in DOMAIN branches', NEW r \in Requests, branches'[name].by = r
      PROVE  /\ Drafted(r)'
             /\ branches'[name].tree = Over(changed'[r], pushed'[branches'[name].parent])
  <2> SUFFICES \E n \in 1 .. Len(pushed) :
                 /\ branches'[name].parent = n /\ branches'[name].tree = Over(changed[r], pushed[n])
                 /\ stage[r] \notin {"reading", "asking"} /\ Drafted(r)
    BY <1>1, <1>2, <1>4 DEF PatchSteps
  <2>1. CASE name \in DOMAIN branches /\ branches'[name] = branches[name]
    <3>1. stage[r] \in Beyond /\ branches[name].parent \in 1 .. Len(pushed)
      BY <1>0, <1>5, <2>1 DEF Published
    <3>2. Drafted(r) /\ branches[name].tree = Over(changed[r], pushed[branches[name].parent])
      BY <1>5, <2>1 DEF DraftInv
    <3>3. stage[r] \notin {"reading", "asking"}
      BY <3>1 DEF Beyond, Proven
    <3> QED
      BY <2>1, <3>1, <3>2, <3>3
  <2>2. ASSUME NEW q \in Requests, stage[q] = "branching", branches'[name] = Commit(q)
        PROVE  \E n \in 1 .. Len(pushed) :
                 /\ branches'[name].parent = n /\ branches'[name].tree = Over(changed[r], pushed[n])
                 /\ stage[r] \notin {"reading", "asking"} /\ Drafted(r)
    <3>1. /\ q = r /\ branches'[name].parent = source[r]
          /\ branches'[name].tree = Over(changed[r], pushed[source[r]])
      BY <1>5, <2>2 DEF Commit
    <3>2. Drafted(r) /\ source[r] \in 1 .. Len(pushed)
      BY <1>0, <2>2, <3>1 DEF DraftInv, RepairTyped, Begun, Proven
    <3> QED
      BY <2>2, <3>1, <3>2
  <2> QED
    BY <1>0, <2>1, <2>2, BranchStep
<1> QED
  BY <1>1, <1>3, <1>5 DEF DraftInv, PatchSteps

LEMMA DraftInvariant == RepairSpec => [](RepairInv /\ DraftInv)
<1>1. RepairInit => DraftInv
  BY DEF RepairInit, DraftInv, Proven
<1>2. RepairInv /\ DraftInv /\ [RepairNext]_repairVars => DraftInv'
  BY DraftInvKept
<1> QED
  BY <1>1, <1>2, RepairInvariant, PTL DEF RepairSpec

(* The text of a patched file, taken back. *)
LEMMA TextTakenBack ==
  ASSUME NEW p, p \in Patches, Parses(p), NEW path, path \in DOMAIN p,
         NEW content \in Seq(Texts), ApplyHunks(content, p[path]).ok
  PROVE  \E T : \E new \in Seq(T) :
           /\ ApplyHunks(content, p[path]) = [ok |-> TRUE, out |-> new]
           /\ ApplyHunks(new, Reversed(p[path])) = [ok |-> TRUE, out |-> content]
<1> DEFINE hunks == p[path]
           T == Written(hunks)
<1>1. hunks \in Seq(Hunks)
  BY RepairAssumption
<1>2. \A n \in 1 .. Len(hunks) : Sized(hunks[n])
  <2>1. DOMAIN hunks = 1 .. Len(hunks)
    BY <1>1
  <2> QED
    BY <2>1 DEF Parses, Sized
<1> HIDE DEF hunks
<1>3. content \in Seq(T)
  <2>1. Texts \subseteq T
    BY DEF Written
  <2> HIDE DEF T
  <2> QED
    BY <2>1
<1>4. \A n \in 1 .. Len(hunks) : Sized(hunks[n]) /\ NewSide(hunks[n]) \in Seq(T)
  BY <1>1, <1>2, HunkTypes
<1>5. \A n \in 1 .. Len(hunks) : Applicable(hunks[n], T)
  BY <1>1, HunkTypes DEF Applicable
<1> HIDE DEF T
<1>6. ApplyHunks(content, hunks).ok
  BY DEF hunks
<1>7. ApplyHunks(ApplyHunks(content, hunks).out, Reversed(hunks)) = [ok |-> TRUE, out |-> content]
  BY <1>1, <1>3, <1>4, <1>6, TakenBack
<1>8. \E new \in Seq(T) : ApplyHunks(content, hunks) = [ok |-> TRUE, out |-> new]
  <2>1. Len(hunks) \in Nat
    BY <1>1
  <2>2. PICK f : Runs(f, content, hunks, T)
    BY <1>3, <1>5, <1>6, <2>1, ApplyRuns
  <2> DEFINE N == Len(hunks)
             rest == SubSeq(content, f[N].cursor + 1, Len(content))
  <2>3. /\ \A n \in 0 .. N :
              f[n].out \in Seq(T) /\ f[n].cursor \in Nat /\ f[n].cursor <= Len(content)
        /\ ApplyHunks(content, hunks) = [ok |-> TRUE, out |-> f[N].out \o rest]
    BY <2>2, Zenon DEF Runs
  <2>4. N \in 0 .. N
    BY <2>1
  <2> HIDE DEF N
  <2>5. f[N].out \in Seq(T) /\ f[N].cursor \in Nat /\ f[N].cursor <= Len(content)
    BY <2>3, <2>4
  <2>6. rest \in Seq(T)
    BY <1>3, <2>5, Part
  <2> HIDE DEF rest
  <2>7. f[N].out \o rest \in Seq(T)
    BY <2>5, <2>6
  <2> QED
    BY <2>3, <2>7
<1>9. PICK new \in Seq(T) : ApplyHunks(content, hunks) = [ok |-> TRUE, out |-> new]
  BY <1>8
<1>10. ApplyHunks(new, Reversed(hunks)) = [ok |-> TRUE, out |-> content]
  <2>1. ApplyHunks(content, hunks).out = new
    BY <1>9
  <2> QED
    BY <1>7, <2>1
<1> QED
  BY <1>9, <1>10 DEF hunks

(* What a file was joined from is one of the three its lines allow. *)
LEMMA JoinedBack ==
  ASSUME NEW T, NEW texts \in Seq(T), NEW closed \in BOOLEAN
  PROVE  texts \in JoinedFrom(Joined(texts, closed), closed)
<1> DEFINE file == Joined(texts, closed)
<1>1. CASE texts = <<>>
  BY <1>1 DEF JoinedFrom
<1>2. CASE texts # <<>> /\ ~closed /\ Last(texts) = Empty
  <2> DEFINE front == Front(texts)
  <2>1. Len(texts) \in Nat \ {0} /\ front = SubSeq(texts, 1, Len(texts) - 1)
    BY <1>2 DEF Front
  <2>2. /\ front \in Seq(T) /\ Len(front) = Len(texts) - 1
        /\ \A i \in 1 .. Len(front) : front[i] = texts[i]
    <3> DEFINE n == Len(texts) - 1
    <3>1. n \in Nat /\ 0 \in Nat /\ 0 <= n /\ n <= Len(texts) /\ 0 + 1 = 1
      BY <2>1
    <3> HIDE DEF n
    <3>2. SubSeq(texts, 0 + 1, n) \in Seq(T) /\ Copies(SubSeq(texts, 0 + 1, n), texts, 0, n)
      BY <3>1, Part
    <3>3. front \in Seq(T) /\ Copies(front, texts, 0, n)
      BY <2>1, <3>1, <3>2 DEF n
    <3> HIDE DEF front
    <3>4. Len(front) = n /\ \A i \in 1 .. n : front[i] = texts[i]
      BY <3>1, <3>3 DEF Copies
    <3> QED
      BY <3>3, <3>4 DEF n
  <2> HIDE DEF front
  <2>3. Append(front, texts[Len(texts)]) = texts
    BY <2>1, <2>2
  <2>4. texts[Len(texts)] = Empty
    BY <1>2 DEF Last
  <2>5. file = [i \in DOMAIN front |->
                  [text |-> front[i], end |-> IF closed \/ i < Len(texts) THEN "lf" ELSE "none"]]
    BY <1>2 DEF Joined, front
  <2>6. DOMAIN file = DOMAIN front /\ \A i \in DOMAIN front : file[i].text = front[i]
    BY <2>5
  <2> HIDE DEF file
  <2>7. Lines(file) = front
    BY <2>2, <2>6 DEF Lines
  <2>8. Append(Lines(file), Empty) = texts
    BY <2>3, <2>4, <2>7
  <2> QED
    BY <2>8 DEF JoinedFrom, file
<1>3. CASE texts # <<>> /\ (closed \/ Last(texts) # Empty)
  <2>1. file = [i \in DOMAIN texts |->
                  [text |-> texts[i], end |-> IF closed \/ i < Len(texts) THEN "lf" ELSE "none"]]
    BY <1>3 DEF Joined
  <2>2. DOMAIN file = DOMAIN texts /\ \A i \in DOMAIN texts : file[i].text = texts[i]
    BY <2>1
  <2> HIDE DEF file
  <2>3. Lines(file) = texts
    BY <2>2 DEF Lines
  <2> QED
    BY <2>3 DEF JoinedFrom, file
<1> QED
  BY <1>1, <1>2, <1>3

(* One file of what is published. *)
LEMMA FileTakenBack ==
  ASSUME NEW p, p \in Patches, Parses(p), NEW path, path \in DOMAIN p,
         NEW file \in Files, Apply(file, p[path]).ok
  PROVE  /\ TakesBack(Apply(file, p[path]).out, p[path], file)
         /\ Apply(file, p[path]).ok = TRUE
<1> DEFINE hunks == p[path]
           new == ApplyHunks(Lines(file), hunks)
<1>1. Lines(file) \in Seq(Texts)
  <2> DEFINE Line == [text : Texts, end : Ends]
  <2>1. file \in Seq(Line)
    BY DEF Files
  <2>2. \A line \in Line : line.text \in Texts
    OBVIOUS
  <2> HIDE DEF Line
  <2>3. DOMAIN file = 1 .. Len(file) /\ Len(file) \in Nat
    BY <2>1
  <2>4. \A i \in 1 .. Len(file) : file[i].text \in Texts
    BY <2>1, <2>2
  <2> QED
    BY <2>3, <2>4 DEF Lines
<1>2. Apply(file, hunks) = [ok |-> new.ok, out |-> Joined(new.out, Closed(file))]
  BY DEF Apply
<1>3. new.ok
  BY <1>2
<1>4. PICK T : \E texts \in Seq(T) :
        /\ new = [ok |-> TRUE, out |-> texts]
        /\ ApplyHunks(texts, Reversed(hunks)) = [ok |-> TRUE, out |-> Lines(file)]
  BY <1>1, <1>3, TextTakenBack
<1> HIDE DEF new, hunks
<1>5. PICK texts \in Seq(T) :
        /\ new = [ok |-> TRUE, out |-> texts]
        /\ ApplyHunks(texts, Reversed(hunks)) = [ok |-> TRUE, out |-> Lines(file)]
  BY <1>4
<1>6. new.ok = TRUE /\ new.out = texts
  BY <1>5
<1>7. Apply(file, hunks).ok = TRUE /\ Apply(file, hunks).out = Joined(texts, Closed(file))
  BY <1>2, <1>6
<1>8. texts \in JoinedFrom(Apply(file, hunks).out, Closed(file))
  <2>1. Closed(file) \in BOOLEAN
    BY DEF Closed
  <2>2. texts \in JoinedFrom(Joined(texts, Closed(file)), Closed(file))
    BY <2>1, JoinedBack
  <2> QED
    BY <1>7, <2>2
<1> QED
  BY <1>5, <1>7, <1>8 DEF TakesBack, hunks

-------------------------------------------------------------------------------
(* What a request has read is a version of each file since its source commit,*)
(* and of all files before it asks for a patch.                              *)
HasRead(r, commit) ==
  \A path \in DOMAIN originals[r] : path \in Paths /\ originals[r][path] \in Versions(path, commit)

Informed == {"asking", "checking", "testing"} \cup Proven

ReadInv ==
  /\ DOMAIN originals = Requests
  /\ \A r \in Requests :
       /\ stage[r] = "start" => DOMAIN originals[r] = {}
       /\ stage[r] \in Begun => HasRead(r, source[r])
       /\ stage[r] \in Informed => DOMAIN originals[r] = Paths
  /\ \A name \in DOMAIN branches : \A r \in Requests : branches[name].by = r =>
       HasRead(r, branches[name].parent) /\ DOMAIN originals[r] = Paths

(* A push adds a version of each file and takes none away. *)
LEMMA HasReadKept ==
  ASSUME RepairTyped, [RepairNext]_repairVars, NEW r, originals'[r] = originals[r],
         NEW commit \in 1 .. Len(pushed), HasRead(r, commit)
  PROVE  HasRead(r, commit)'
<1>1. /\ pushed \in Seq(Trees) /\ pushed' \in Seq(Trees)
      /\ \A n \in 1 .. Len(pushed) : n \in 1 .. Len(pushed') /\ pushed'[n] = pushed[n]
  BY PushedKept DEF RepairTyped
<1>2. \A k \in commit .. Len(pushed) : k \in commit .. Len(pushed') /\ pushed'[k] = pushed[k]
  BY <1>1
<1>3. ASSUME NEW path PROVE Versions(path, commit) \subseteq Versions(path, commit)'
  BY <1>2 DEF Versions
<1> QED
  BY <1>3 DEF HasRead

(* A request reads the head, which is its source commit or a later one.       *)
LEMMA ReadFileReads ==
  ASSUME RepairTyped, ReadInv, NEW r \in Requests, ReadFile(r)
  PROVE  /\ stage[r] = "reading" /\ stage'[r] \in {"reading", "asking"}
         /\ DOMAIN originals' = Requests /\ HasRead(r, source[r])' /\ UNCHANGED <<source, branches>>
         /\ stage'[r] = "asking" => DOMAIN originals'[r] = Paths
         /\ \A q \in Requests \ {r} : stage'[q] = stage[q] /\ originals'[q] = originals[q]
<1> DEFINE left == Paths \ DOMAIN originals[r]
<1>1. /\ stage[r] = "reading" /\ UNCHANGED <<pushed, branches, source>>
      /\ stage' = [stage EXCEPT ![r] = stage'[r]] /\ stage'[r] \in {"reading", "asking"}
  BY DEF ReadFile, To, github, RepairTyped
<1>2. PICK path \in left :
        /\ originals' = [originals EXCEPT ![r] = Put(path, Last(pushed)[path], @)]
        /\ stage'[r] = "asking" => left = {path}
  BY DEF ReadFile, To, RepairTyped
<1>3. HasRead(r, source[r]) /\ source[r] \in 1 .. Len(pushed) /\ DOMAIN originals = Requests
  BY <1>1 DEF ReadInv, RepairTyped, Begun
<1>4. originals'[r] = Put(path, Last(pushed)[path], originals[r])
  BY <1>2, <1>3
<1>5. /\ DOMAIN originals'[r] = DOMAIN originals[r] \cup {path}
      /\ originals'[r][path] = Last(pushed)[path]
      /\ \A other \in DOMAIN originals[r] : originals'[r][other] = originals[r][other]
  BY <1>4 DEF Put, Over
<1>6. Last(pushed)[path] \in Versions(path, source[r])
  <2>1. pushed \in Seq(Trees) /\ Len(pushed) # 0
    BY DEF RepairTyped
  <2>2. Len(pushed) \in source[r] .. Len(pushed) /\ Last(pushed) = pushed[Len(pushed)]
    BY <1>3, <2>1 DEF Last
  <2> QED
    BY <2>2 DEF Versions
<1>7. HasRead(r, source[r])'
  BY <1>1, <1>3, <1>5, <1>6 DEF HasRead, Versions
<1>8. stage'[r] = "asking" => DOMAIN originals'[r] = Paths
  BY <1>2, <1>3, <1>5 DEF HasRead
<1>9. \A q \in Requests \ {r} : stage'[q] = stage[q] /\ originals'[q] = originals[q]
  BY <1>1, <1>2, <1>3 DEF RepairTyped
<1> QED
  BY <1>1, <1>2, <1>3, <1>7, <1>8, <1>9

(* Every other step leaves what was read alone. *)
LEMMA OthersReadNothing ==
  ASSUME RepairTyped, NEW r \in Requests, Fix(r), ~ReadFile(r)
  PROVE  /\ UNCHANGED <<originals, pushed>>
         /\ \A q \in Requests :
              /\ stage'[q] = "start" => stage[q] = "start"
              /\ stage'[q] \in Begun =>
                   \/ stage[q] \in Begun /\ source'[q] = source[q]
                   \/ stage[q] = "start" /\ source'[q] \in 1 .. Len(pushed)
              /\ stage'[q] \in Informed => stage[q] \in Informed
<1> USE DEF RepairTyped, Begun, Informed, Proven, To, work
<1>1. ASSUME Start(r)
      PROVE  /\ UNCHANGED <<originals, pushed>>
             /\ \A q \in Requests \ {r} : stage'[q] = stage[q] /\ source'[q] = source[q]
             /\ stage[r] = "start" /\ stage'[r] \in {"reading", "suggestion-only"}
             /\ source'[r] \in 1 .. Len(pushed)
  BY <1>1 DEF Start
<1>2. CASE Start(r)
  BY <1>1, <1>2
<1>3. CASE NoPatch(r) \/ BadPatch(r)
  BY <1>3 DEF NoPatch, BadPatch
<1>4. CASE GoodPatch(r)
  BY <1>4 DEF GoodPatch
<1>5. CASE Check(r)
  BY <1>5 DEF Check
<1>6. CASE Test(r)
  BY <1>6 DEF Test
<1>7. CASE Fails(r)
  BY <1>7 DEF Fails
<1>8. CASE CreateBranch(r)
  BY <1>8 DEF CreateBranch, Answered, Again
<1>9. CASE CreateDraft(r)
  BY <1>9 DEF CreateDraft, Answered, Again
<1> QED
  BY <1>2, <1>3, <1>4, <1>5, <1>6, <1>7, <1>8, <1>9 DEF Fix

LEMMA ReadInvKept ==
  ASSUME RepairInv, ReadInv, [RepairNext]_repairVars PROVE ReadInv'
<1>0. RepairTyped /\ Published
  BY DEF RepairInv
<1>1. ASSUME NEW name \in DOMAIN branches, NEW q \in Requests, branches[name].by = q
      PROVE  /\ stage[q] \in Beyond /\ branches[name].parent \in 1 .. Len(pushed)
             /\ HasRead(q, branches[name].parent) /\ DOMAIN originals[q] = Paths
  BY <1>0, <1>1 DEF Published, ReadInv
<1>2. ASSUME NEW name \in DOMAIN branches', NEW q \in Requests, branches'[name].by = q,
             \A o \in Requests : stage[o] # "reading" => originals'[o] = originals[o]
      PROVE  HasRead(q, branches[name].parent)' /\ DOMAIN originals'[q] = Paths
  <2>1. CASE name \in DOMAIN branches /\ branches'[name] = branches[name]
    <3>1. branches[name].by = q
      BY <1>2, <2>1
    <3>2. /\ stage[q] \in Beyond /\ branches[name].parent \in 1 .. Len(pushed)
          /\ HasRead(q, branches[name].parent) /\ DOMAIN originals[q] = Paths
      BY <1>1, <2>1, <3>1
    <3>3. originals'[q] = originals[q]
      BY <1>2, <3>2 DEF Beyond, Proven
    <3>4. PICK commit : commit = branches[name].parent
      OBVIOUS
    <3>5. HasRead(q, commit)'
      BY <1>0, <3>2, <3>3, <3>4, HasReadKept
    <3> QED
      BY <2>1, <3>2, <3>3, <3>4, <3>5 DEF HasRead, Versions
  <2>2. ASSUME NEW o \in Requests, stage[o] = "branching", branches'[name] = Commit(o)
        PROVE  HasRead(q, branches[name].parent)' /\ DOMAIN originals'[q] = Paths
    <3>1. o = q /\ branches'[name].parent = source[q]
      BY <1>2, <2>2 DEF Commit
    <3>2. /\ HasRead(q, source[q]) /\ source[q] \in 1 .. Len(pushed) /\ DOMAIN originals[q] = Paths
          /\ originals'[q] = originals[q]
      BY <1>0, <1>2, <2>2, <3>1 DEF ReadInv, RepairTyped, Begun, Informed, Proven
    <3>3. PICK commit : commit = source[q]
      OBVIOUS
    <3>4. HasRead(q, commit)'
      BY <1>0, <3>2, <3>3, HasReadKept
    <3> QED
      BY <3>1, <3>2, <3>3, <3>4 DEF HasRead, Versions
  <2> QED
    BY <1>0, <2>1, <2>2, BranchStep
<1>3. ASSUME NEW q \in Requests, stage[q] \in Begun, originals'[q] = originals[q],
             source'[q] = source[q]
      PROVE  HasRead(q, source[q])'
  <2>1. HasRead(q, source[q]) /\ source[q] \in 1 .. Len(pushed)
    BY <1>0, <1>3 DEF ReadInv, RepairTyped
  <2>2. PICK commit : commit = source[q]
    OBVIOUS
  <2>3. HasRead(q, commit)'
    BY <1>0, <1>3, <2>1, <2>2, HasReadKept
  <2> QED
    BY <1>3, <2>2, <2>3 DEF HasRead, Versions
<1>4. CASE Push \/ UNCHANGED repairVars
  <2>1. UNCHANGED <<stage, source, originals, branches>>
    BY <1>4 DEF Push, repairVars, github, work
  <2> QED
    BY <1>2, <1>3, <2>1 DEF ReadInv
<1>5. ASSUME NEW r \in Requests, ReadFile(r) PROVE ReadInv'
  <2>1. /\ stage[r] = "reading" /\ stage'[r] \in {"reading", "asking"}
        /\ DOMAIN originals' = Requests /\ HasRead(r, source[r])' /\ UNCHANGED <<source, branches>>
        /\ stage'[r] = "asking" => DOMAIN originals'[r] = Paths
        /\ \A q \in Requests \ {r} : stage'[q] = stage[q] /\ originals'[q] = originals[q]
    BY <1>0, <1>5, ReadFileReads
  <2>2. \A name \in DOMAIN branches' : \A q \in Requests : branches'[name].by = q =>
          HasRead(q, branches[name].parent)' /\ DOMAIN originals'[q] = Paths
    BY <1>2, <2>1
  <2>3. ASSUME NEW q \in Requests
        PROVE  /\ stage'[q] = "start" => DOMAIN originals'[q] = {}
               /\ stage'[q] \in Begun => HasRead(q, source[q])'
               /\ stage'[q] \in Informed => DOMAIN originals'[q] = Paths
    <3>1. CASE q = r
      BY <2>1, <3>1 DEF Informed, Proven
    <3>2. CASE q # r
      BY <1>3, <2>1, <3>2 DEF ReadInv
    <3> QED
      BY <3>1, <3>2
  <2> QED
    BY <2>1, <2>2, <2>3 DEF ReadInv
<1>6. ASSUME NEW r \in Requests, Fix(r), ~ReadFile(r) PROVE ReadInv'
  <2>1. /\ UNCHANGED <<originals, pushed>>
        /\ \A q \in Requests :
             /\ stage'[q] = "start" => stage[q] = "start"
             /\ stage'[q] \in Begun =>
                  \/ stage[q] \in Begun /\ source'[q] = source[q]
                  \/ stage[q] = "start" /\ source'[q] \in 1 .. Len(pushed)
             /\ stage'[q] \in Informed => stage[q] \in Informed
    BY <1>0, <1>6, OthersReadNothing
  <2>2. \A name \in DOMAIN branches' : \A q \in Requests : branches'[name].by = q =>
          HasRead(q, branches[name].parent)' /\ DOMAIN originals'[q] = Paths
    BY <1>2, <2>1
  <2>3. ASSUME NEW q \in Requests, stage'[q] \in Begun PROVE HasRead(q, source[q])'
    <3>1. CASE stage[q] \in Begun /\ source'[q] = source[q]
      BY <1>3, <2>1, <3>1
    <3>2. CASE stage[q] = "start"
      <4>1. DOMAIN originals'[q] = {}
        BY <2>1, <3>2 DEF ReadInv
      <4> QED
        BY <4>1 DEF HasRead
    <3> QED
      BY <2>1, <2>3, <3>1, <3>2
  <2> QED
    BY <2>1, <2>2, <2>3 DEF ReadInv
<1> QED
  BY <1>4, <1>5, <1>6 DEF RepairNext

LEMMA ReadInvariant == RepairSpec => [](RepairInv /\ DraftInv /\ ReadInv)
<1>1. RepairInit => ReadInv
  BY DEF RepairInit, ReadInv, Begun, Informed, Proven, None
<1>2. RepairInv /\ ReadInv /\ [RepairNext]_repairVars => ReadInv'
  BY ReadInvKept
<1> QED
  BY <1>1, <1>2, DraftInvariant, PTL DEF RepairSpec

(* What a branch of the service has is the source commit with the patch and  *)
(* nothing else, line by line: taking the patch back from a file gives the   *)
(* lines of the source commit, or of a later one if its author pushed before *)
(* it was read.  For any files, line ends, patches the model may answer and  *)
(* pushes.                                                                   *)
THEOREM PatchAndNothingElse == RepairSpec => []PatchOnly
<1>1. RepairInv /\ DraftInv /\ ReadInv => PatchOnly
  <2> SUFFICES ASSUME RepairInv, DraftInv, ReadInv, NEW name \in DOMAIN branches, NEW path \in Paths
               PROVE  LET published == branches[name]
                          p == patch[published.by]
                          read == Versions(path, published.parent)
                      IN \/ /\ path \in DOMAIN p
                            /\ \E old \in read : TakesBack(published.tree[path], p[path], old)
                         \/ /\ published.tree[path] = pushed[published.parent][path]
                            /\ path \in DOMAIN p => \E old \in read : Leaves(p[path], old)
    BY Zenon DEF PatchOnly
  <2> DEFINE by == branches[name].by
             parent == branches[name].parent
             before == pushed[parent]
             tree == branches[name].tree
             p == patch[by]
             files == originals[by]
             read == Versions(path, parent)
             new == Applied(files, p)
             differ == {f \in DOMAIN p : new[f].out # files[f]}
  <2>1. Drafted(by) /\ tree = Over(changed[by], before)
    BY DEF DraftInv, RepairInv, Published
  <2>2. /\ before \in [Paths -> Files]
        /\ \A k \in parent .. Len(pushed) : pushed[k] \in [Paths -> Files]
    <3>1. pushed \in Seq(Trees) /\ parent \in 1 .. Len(pushed)
      BY DEF RepairInv, RepairTyped, Published
    <3>2. \A k \in parent .. Len(pushed) : k \in 1 .. Len(pushed)
      BY <3>1
    <3>3. before \in Trees /\ \A k \in parent .. Len(pushed) : pushed[k] \in Trees
      BY <3>1, <3>2
    <3> QED
      BY <3>3, RepairAssumption DEF Trees
  <2>3. HasRead(by, parent) /\ DOMAIN files = Paths
    BY DEF ReadInv, RepairInv, Published
  <2>4. files[path] \in read /\ files[path] \in Files
    <3>1. files[path] \in read
      BY <2>3 DEF HasRead
    <3> QED
      BY <2>2, <3>1 DEF Versions
  <2>5. /\ p \in Patches /\ Parses(p) /\ \A f \in DOMAIN p : new[f].ok
        /\ changed[by] = Changed(files, p)
    BY <2>1, Zenon DEF Drafted
  <2> HIDE DEF by, parent, before, tree, p, files, read
  <2>6. changed[by] = [f \in differ |-> new[f].out]
    BY <2>5 DEF Changed
  <2>7. \A f \in DOMAIN p : new[f] = Apply(files[f], p[f])
    BY DEF Applied
  <2> HIDE DEF new
  <2>8. tree[path] = IF path \in differ THEN new[path].out ELSE before[path]
    <3>1. DOMAIN changed[by] = differ /\ (path \in differ => changed[by][path] = new[path].out)
      BY <2>6
    <3>2. path \in DOMAIN before
      BY <2>2
    <3> HIDE DEF differ
    <3>3. tree[path] = IF path \in differ THEN changed[by][path] ELSE before[path]
      BY <2>1, <3>1, <3>2 DEF Over
    <3> QED
      BY <3>1, <3>3
  <2>9. ASSUME path \in DOMAIN p
        PROVE  /\ TakesBack(new[path].out, p[path], files[path])
               /\ new[path] = Apply(files[path], p[path]) /\ new[path].ok = TRUE
    <3>1. new[path] = Apply(files[path], p[path]) /\ Apply(files[path], p[path]).ok
      BY <2>5, <2>7, <2>9
    <3>2. /\ TakesBack(Apply(files[path], p[path]).out, p[path], files[path])
          /\ Apply(files[path], p[path]).ok = TRUE
      BY <2>4, <2>5, <2>9, <3>1, FileTakenBack
    <3> QED
      BY <3>1, <3>2
  <2>10. CASE path \in differ
    <3>1. tree[path] = new[path].out
      BY <2>8, <2>10
    <3>2. path \in DOMAIN p /\ TakesBack(tree[path], p[path], files[path])
      BY <2>9, <2>10, <3>1
    <3> QED
      BY <2>4, <3>2 DEF by, parent, tree, p, read
  <2>11. CASE path \notin differ
    <3>1. tree[path] = before[path]
      BY <2>8, <2>11
    <3>2. ASSUME path \in DOMAIN p PROVE Leaves(p[path], files[path])
      <4>1. new[path].out = files[path]
        BY <2>11, <3>2
      <4>2. new[path] = Apply(files[path], p[path]) /\ new[path].ok = TRUE
        BY <2>9, <3>2
      <4>3. \E ok, out : Apply(files[path], p[path]) = [ok |-> ok, out |-> out]
        BY Zenon DEF Apply
      <4> QED
        BY <4>1, <4>2, <4>3 DEF Leaves
    <3> QED
      BY <2>4, <3>1, <3>2 DEF by, parent, before, tree, p, read
  <2> QED
    BY <2>10, <2>11
<1> QED
  BY <1>1, ReadInvariant, PTL
===============================================================================
