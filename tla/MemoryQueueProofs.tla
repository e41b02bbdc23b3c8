--------------------------- MODULE MemoryQueueProofs ---------------------------
(***************************************************************************)
(* The in-process backend implements Delivery until it is closed, and is   *)
(* quiet once close() has returned.  A work item moves from the executor   *)
(* to a worker, to a timer and to the timer's thread, and never leaves one *)
(* of them before it is in the next; a worker lets go of it for good only  *)
(* after it was handled or buried.                                         *)
(***************************************************************************)
EXTENDS MemoryQueue, TLAPS

Item == [sub : Submissions, attempt : Nat]
Places == {"idle", "handle", "bury", "exhausted", "leave"}

TypeOK ==
  /\ queue \in Seq(Item) /\ timers \subseteq Item /\ firing \subseteq Item
  /\ pc \in [Workers -> Places]
  /\ job \in [Workers -> Item \cup {NoJob}]
  /\ \A w \in Workers : pc[w] # "idle" => job[w] \in Item
  /\ phase \in {"open", "stopping", "shut", "closed"}

(* What a worker lets go of is settled, and what is open was submitted once. *)
Earned ==
  /\ Open \subseteq submitted
  /\ \A w \in Workers : pc[w] = "leave" => job[w].sub \in done \cup Buried

(* The executor's queue stays empty behind the shutdown, so that no thread   *)
(* finds anything to begin with.                                             *)
Drained ==
  /\ Shut => queue = <<>>
  /\ phase = "closed" => \A w \in Workers : pc[w] = "idle"

(* Where a step takes work from and where it puts it.                        *)
LEMMA TypeStep == TypeOK /\ [Next]_memoryVars => TypeOK'
<1> SUFFICES ASSUME TypeOK, [Next]_memoryVars PROVE TypeOK'
  OBVIOUS
<1> USE DEF TypeOK
<1>1. ASSUME NEW s \in Submissions, Submit(s) PROVE TypeOK'
  <2>1. [sub |-> s, attempt |-> 0] \in Item
    BY DEF Item
  <2> QED
    BY <1>1, <2>1 DEF Submit
<1>2. ASSUME NEW w \in Workers, Begin(w) PROVE TypeOK'
  <2>1. Head(queue) \in Item /\ Tail(queue) \in Seq(Item)
    BY <1>2 DEF Begin
  <2>2. [Head(queue) EXCEPT !.attempt = @ + 1] \in Item
    BY <2>1 DEF Item
  <2> QED
    BY <1>2, <2>1, <2>2 DEF Begin, Goto, Places
<1>3. ASSUME NEW w \in Workers,
             HandlerReturns(w) \/ HandlerPermanent(w) \/ Bury(w) \/ Leave(w)
      PROVE  TypeOK'
  BY <1>3 DEF HandlerReturns, HandlerPermanent, Bury, Leave, Goto, Places
<1>4. ASSUME NEW w \in Workers, HandlerFails(w) PROVE TypeOK'
  BY <1>4 DEF HandlerFails, Goto, Places
<1>5. ASSUME NEW e \in timers \cup firing, Timer(e) PROVE TypeOK'
  <2>1. e \in Item
    OBVIOUS
  <2> QED
    BY <1>5, <2>1 DEF Timer, TimerFires, TimerSubmits
<1>6. ASSUME CloseBegins \/ Shutdown \/ CloseReturns PROVE TypeOK'
  <2>1. <<>> \in Seq(Item)
    OBVIOUS
  <2>2. ASSUME CloseBegins PROVE TypeOK'
    BY <2>2 DEF CloseBegins
  <2>3. ASSUME Shutdown PROVE TypeOK'
    BY <2>1, <2>3 DEF Shutdown
  <2>4. ASSUME CloseReturns PROVE TypeOK'
    BY <2>4 DEF CloseReturns
  <2> QED
    BY <1>6, <2>2, <2>3, <2>4
<1>7. ASSUME UNCHANGED memoryVars PROVE TypeOK'
  BY <1>7 DEF memoryVars
<1> QED
  BY <1>1, <1>2, <1>3, <1>4, <1>5, <1>6, <1>7 DEF Next, Deliver

(* Every reachable state is typed: a busy worker has a work item.            *)
THEOREM TypeCorrect == Spec => []TypeOK
<1>1. Init => TypeOK
  BY DEF Init, TypeOK, Places
<1> QED
  BY <1>1, TypeStep, PTL DEF Spec

-------------------------------------------------------------------------------
LEMMA DrainedStep == TypeOK /\ Drained /\ [Next]_memoryVars => Drained'
<1> SUFFICES ASSUME TypeOK, Drained, [Next]_memoryVars PROVE Drained'
  OBVIOUS
<1> USE DEF Drained, Shut
<1>1. ASSUME NEW s \in Submissions, Submit(s) PROVE Drained'
  BY <1>1 DEF Submit
<1>2. ASSUME NEW w \in Workers, Deliver(w) PROVE Drained'
  BY <1>2 DEF TypeOK, Deliver, Begin, HandlerReturns, HandlerPermanent, HandlerFails,
              Bury, Leave, Goto
<1>3. ASSUME NEW e \in timers \cup firing, Timer(e) PROVE Drained'
  BY <1>3 DEF Timer, TimerFires, TimerSubmits
<1>4. ASSUME CloseBegins \/ Shutdown \/ CloseReturns PROVE Drained'
  BY <1>4 DEF CloseBegins, Shutdown, CloseReturns
<1>5. ASSUME UNCHANGED memoryVars PROVE Drained'
  BY <1>5 DEF memoryVars
<1> QED
  BY <1>1, <1>2, <1>3, <1>4, <1>5 DEF Next

(* After close() has returned no handler runs and none ever starts, whatever *)
(* timers, retries and submissions raced it.                                 *)
THEOREM QuietOnceClosed == Spec => []ClosedIsQuiet
<1>1. Init => Drained
  BY DEF Init, Drained, Shut
<1>2. Drained => ClosedIsQuiet
  BY DEF Drained, ClosedIsQuiet, Shut, InFlight
<1> QED
  BY <1>1, <1>2, TypeCorrect, DrainedStep, PTL DEF Spec

-------------------------------------------------------------------------------
(* The open work items                                                       *)

LEMMA QueuedAppend ==
  ASSUME NEW e \in Item, queue \in Seq(Item), queue' = Append(queue, e)
  PROVE  Queued' = Queued \cup {e.sub}
<1>1. Len(queue) \in Nat /\ Len(queue') = Len(queue) + 1
  OBVIOUS
<1>2. queue'[Len(queue) + 1] = e /\ \A i \in 1 .. Len(queue) : queue'[i] = queue[i]
  OBVIOUS
<1>3. 1 .. Len(queue') = 1 .. Len(queue) \cup {Len(queue) + 1}
  BY <1>1
<1> QED
  BY <1>2, <1>3 DEF Queued

LEMMA QueuedTail ==
  ASSUME queue \in Seq(Item), queue # <<>>, queue' = Tail(queue)
  PROVE  Queued = Queued' \cup {Head(queue).sub}
<1>1. Len(queue) \in Nat \ {0} /\ Len(queue') = Len(queue) - 1
  OBVIOUS
<1>2. \A i \in 1 .. Len(queue') : queue'[i] = queue[i + 1]
  OBVIOUS
<1>3. Head(queue) = queue[1]
  OBVIOUS
<1>4. ASSUME NEW i \in 1 .. Len(queue) PROVE queue[i].sub \in Queued' \cup {Head(queue).sub}
  <2>1. CASE i = 1
    BY <1>3, <2>1
  <2>2. CASE i # 1
    <3>1. i - 1 \in 1 .. Len(queue')
      BY <1>1, <2>2
    <3>2. queue'[i - 1] = queue[i]
      BY <1>2, <3>1
    <3> QED
      BY <3>1, <3>2 DEF Queued
  <2> QED
    BY <2>1, <2>2
<1>5. ASSUME NEW i \in 1 .. Len(queue') PROVE queue'[i].sub \in Queued
  <2>1. i + 1 \in 1 .. Len(queue)
    BY <1>1
  <2> QED
    BY <1>2, <2>1 DEF Queued
<1>6. Head(queue).sub \in Queued
  <2>1. 1 \in 1 .. Len(queue)
    BY <1>1
  <2> QED
    BY <1>3, <2>1 DEF Queued
<1> QED
  BY <1>4, <1>5, <1>6 DEF Queued

(* A step of one worker, seen from the work in flight.                       *)
LEMMA InFlightStep ==
  ASSUME TypeOK, NEW w \in Workers, NEW place, NEW item,
         pc' = [pc EXCEPT ![w] = place], job' = [job EXCEPT ![w] = item]
  PROVE  LET others == {job[v].sub : v \in {v \in Workers \ {w} : pc[v] # "idle"}}
         IN /\ InFlight = others \cup (IF pc[w] # "idle" THEN {job[w].sub} ELSE {})
            /\ InFlight' = others \cup (IF place # "idle" THEN {item.sub} ELSE {})
<1>1. \A v \in Workers \ {w} : pc'[v] = pc[v] /\ job'[v] = job[v]
  BY DEF TypeOK
<1>2. pc'[w] = place /\ job'[w] = item
  BY DEF TypeOK
<1> QED
  BY <1>1, <1>2 DEF InFlight

(* Each step is one of Delivery, changes nothing there, or comes after       *)
(* close() was called; and what makes it so is kept.                         *)
LEMMA DeliveryStep ==
  ASSUME TypeOK, Earned, [Next]_memoryVars
  PROVE  Earned' /\ [D!Next \/ Stopped]_<<Open, done, Buried>>
<1> DEFINE Same == UNCHANGED <<Open, done, Buried>>
           Goal == Earned' /\ [D!Next \/ Stopped]_<<Open, done, Buried>>
<1>1. ASSUME NEW s \in Submissions, Submit(s) PROVE Goal
  <2>1. [sub |-> s, attempt |-> 0] \in Item
    BY DEF Item
  <2>2. Queued' = Queued \cup {s}
    BY <1>1, <2>1, QueuedAppend DEF Submit, TypeOK
  <2>3. Waiting' = Waiting /\ InFlight' = InFlight
    BY <1>1 DEF Submit, Waiting, InFlight
  <2>4. Open' = Open \cup {s}
    BY <2>2, <2>3 DEF Open
  <2>5. Buried' = Buried /\ done' = done
    BY <1>1 DEF Submit, Buried
  <2>6. Earned'
    BY <1>1, <2>4, <2>5 DEF Submit, Earned
  <2>7. D!Accept(s)
    <3>1. s \notin Open
      BY <1>1 DEF Submit, Earned
    <3> QED
      BY <2>4, <2>5, <3>1 DEF D!Accept
  <2> QED
    BY <2>6, <2>7 DEF D!Next
<1>2. ASSUME NEW w \in Workers, Begin(w) PROVE Goal
  <2>1. Head(queue) \in Item
    BY <1>2 DEF Begin, TypeOK
  <2> DEFINE item == [Head(queue) EXCEPT !.attempt = @ + 1]
  <2>2. item.sub = Head(queue).sub
    BY <2>1 DEF Item
  <2>3. job' = [job EXCEPT ![w] = item] /\ pc' = [pc EXCEPT ![w] = "handle"]
    BY <1>2 DEF Begin, Goto
  <2> HIDE DEF item
  <2> DEFINE others == {job[v].sub : v \in {v \in Workers \ {w} : pc[v] # "idle"}}
  <2>4. InFlight' = InFlight \cup {Head(queue).sub}
    <3>1. pc[w] = "idle"
      BY <1>2 DEF Begin
    <3>2. InFlight = others
      BY <2>3, <3>1, InFlightStep
    <3>3. InFlight' = others \cup {item.sub}
      BY <2>3, InFlightStep
    <3> QED
      BY <2>2, <3>2, <3>3
  <2>5. Queued = Queued' \cup {Head(queue).sub}
    BY <1>2, QueuedTail DEF Begin, TypeOK
  <2>6. Waiting' = Waiting
    BY <1>2 DEF Begin, Waiting
  <2>7. Same
    BY <1>2, <2>4, <2>5, <2>6 DEF Begin, Open, Buried
  <2>8. ASSUME NEW v \in Workers, pc'[v] = "leave" PROVE v # w /\ pc[v] = "leave"
    BY <2>3, <2>8 DEF TypeOK
  <2>9. Earned'
    <3>1. submitted' = submitted
      BY <1>2 DEF Begin
    <3>2. ASSUME NEW v \in Workers, pc'[v] = "leave"
          PROVE  job'[v].sub \in done' \cup Buried'
      BY <2>3, <2>7, <2>8, <3>2 DEF Earned, TypeOK
    <3> QED
      BY <2>7, <3>1, <3>2 DEF Earned
  <2> QED
    BY <2>7, <2>9
<1>3. ASSUME NEW w \in Workers, HandlerReturns(w) PROVE Goal
  <2> DEFINE s == job[w].sub
  <2>1. pc[w] = "handle" /\ s \in Submissions /\ s \in Open
    BY <1>3 DEF HandlerReturns, TypeOK, Item, Open, InFlight
  <2>2. InFlight' = InFlight
    BY <1>3, <2>1 DEF HandlerReturns, Goto, TypeOK, InFlight
  <2>3. Open' = Open /\ Buried' = Buried /\ done' = done \cup {s}
    BY <1>3, <2>2 DEF HandlerReturns, Open, Queued, Waiting, Buried
  <2>4. Earned'
    BY <1>3, <2>3 DEF HandlerReturns, Goto, TypeOK, Earned
  <2>5. D!Complete(s)
    BY <2>1, <2>3 DEF D!Complete
  <2> QED
    BY <2>1, <2>4, <2>5 DEF D!Next
<1>4. ASSUME NEW w \in Workers, HandlerPermanent(w) PROVE Goal
  <2>1. InFlight' = InFlight
    BY <1>4 DEF HandlerPermanent, Goto, TypeOK, InFlight
  <2>2. Same
    BY <1>4, <2>1 DEF HandlerPermanent, Open, Queued, Waiting, Buried
  <2>3. Earned'
    BY <1>4, <2>2 DEF HandlerPermanent, Goto, TypeOK, Earned
  <2> QED
    BY <2>2, <2>3
<1>5. ASSUME NEW w \in Workers, HandlerFails(w) PROVE Goal
  <2>1. UNCHANGED <<queue, firing, dlq, submitted, done>> /\ pc[w] = "handle"
    BY <1>5 DEF HandlerFails
  <2>2. CASE job[w].attempt >= MaxAttempts
    <3>1. timers' = timers /\ job' = job /\ pc' = [pc EXCEPT ![w] = "exhausted"]
      BY <1>5, <2>2 DEF HandlerFails, Goto
    <3>2. InFlight' = InFlight
      BY <2>1, <3>1 DEF TypeOK, InFlight
    <3>3. Same
      BY <2>1, <3>1, <3>2 DEF Open, Queued, Waiting, Buried
    <3>4. Earned'
      BY <2>1, <3>1, <3>3 DEF TypeOK, Earned
    <3> QED
      BY <3>3, <3>4
  <2>3. CASE ~(job[w].attempt >= MaxAttempts)
    <3>1. /\ timers' = timers \cup {job[w]}
          /\ job' = [job EXCEPT ![w] = NoJob] /\ pc' = [pc EXCEPT ![w] = "idle"]
      BY <1>5, <2>3 DEF HandlerFails, Goto
    <3>2. InFlight = InFlight' \cup {job[w].sub}
      BY <2>1, <3>1, InFlightStep
    <3>3. Waiting' = Waiting \cup {job[w].sub}
      BY <2>1, <3>1 DEF Waiting
    <3>4. Same
      BY <2>1, <3>2, <3>3 DEF Open, Queued, Buried
    <3>5. Earned'
      BY <2>1, <3>1, <3>4 DEF TypeOK, Earned
    <3> QED
      BY <3>4, <3>5
  <2> QED
    BY <2>2, <2>3
<1>6. ASSUME NEW w \in Workers, Bury(w) PROVE Goal
  <2> DEFINE s == job[w].sub
  <2>1. s \in Submissions /\ s \in Open
    BY <1>6 DEF Bury, TypeOK, Item, Open, InFlight
  <2>2. InFlight' = InFlight
    BY <1>6 DEF Bury, Goto, TypeOK, InFlight
  <2>3. Open' = Open /\ done' = done /\ Buried' = Buried \cup {s}
    <3>1. PICK d : d.sub = s /\ dlq' = dlq \cup {d}
      BY <1>6 DEF Bury
    <3>2. Buried' = Buried \cup {s}
      BY <3>1 DEF Buried
    <3> QED
      BY <1>6, <2>2, <3>2 DEF Bury, Open, Queued, Waiting
  <2>4. Earned'
    <3>1. job' = job /\ submitted' = submitted
      BY <1>6 DEF Bury
    <3>2. ASSUME NEW v \in Workers, pc'[v] = "leave" PROVE v = w \/ pc[v] = "leave"
      BY <1>6, <3>2 DEF Bury, Goto, TypeOK
    <3> QED
      BY <2>3, <3>1, <3>2 DEF Earned
  <2>5. D!Bury(s)
    BY <2>1, <2>3 DEF D!Bury
  <2> QED
    BY <2>1, <2>4, <2>5 DEF D!Next
<1>7. ASSUME NEW w \in Workers, Leave(w) PROVE Goal
  <2> DEFINE s == job[w].sub
  <2>1. s \in Submissions /\ s \in Open /\ s \in done \cup Buried
    BY <1>7 DEF Leave, TypeOK, Item, Open, InFlight, Earned
  <2>2. job' = [job EXCEPT ![w] = NoJob] /\ pc' = [pc EXCEPT ![w] = "idle"]
    BY <1>7 DEF Leave, Goto
  <2>3. InFlight = InFlight' \cup {s}
    BY <1>7, <2>2, InFlightStep DEF Leave
  <2>4. Open = Open' \cup {s} /\ done' = done /\ Buried' = Buried
    BY <1>7, <2>3 DEF Leave, Open, Queued, Waiting, Buried
  <2>5. Earned'
    <3>1. submitted' = submitted
      BY <1>7 DEF Leave
    <3>2. ASSUME NEW v \in Workers, pc'[v] = "leave"
          PROVE  job'[v] = job[v] /\ pc[v] = "leave"
      BY <2>2, <3>2 DEF TypeOK
    <3> QED
      BY <2>4, <3>1, <3>2 DEF Earned
  <2>6. CASE s \in Open'
    BY <2>4, <2>5, <2>6
  <2>7. CASE s \notin Open'
    <3>1. D!Close(s)
      BY <2>1, <2>4, <2>7 DEF D!Close, D!Settled
    <3> QED
      BY <2>1, <2>5, <3>1 DEF D!Next
  <2> QED
    BY <2>6, <2>7
<1>8. ASSUME NEW e \in timers \cup firing, Timer(e) PROVE Goal
  <2>1. e \in Item /\ UNCHANGED <<pc, job, dlq, phase, submitted, done>>
    BY <1>8 DEF TypeOK, Timer, TimerFires, TimerSubmits
  <2>2. InFlight' = InFlight /\ Buried' = Buried
    BY <2>1 DEF InFlight, Buried
  <2>3. CASE TimerFires(e)
    BY <2>1, <2>2, <2>3 DEF TimerFires, Stopped, Open, Queued, Waiting, Earned
  <2>4. CASE TimerSubmits(e)
    <3>1. CASE Shut
      BY <2>1, <2>2, <2>4, <3>1 DEF TimerSubmits, Shut, Stopped, Open, Queued, Waiting, Earned
    <3>2. CASE ~Shut
      <4>1. Queued' = Queued \cup {e.sub}
        BY <2>1, <2>4, <3>2, QueuedAppend DEF TimerSubmits, TypeOK
      <4>2. Waiting = Waiting' \cup {e.sub}
        BY <2>4 DEF TimerSubmits, Waiting
      <4>3. Same
        BY <2>1, <2>2, <4>1, <4>2 DEF Open
      <4> QED
        BY <2>1, <4>3 DEF Earned
    <3> QED
      BY <3>1, <3>2
  <2> QED
    BY <1>8, <2>3, <2>4 DEF Timer
<1>9. ASSUME CloseBegins \/ CloseReturns \/ UNCHANGED memoryVars PROVE Goal
  <2>1. UNCHANGED <<queue, timers, firing, pc, job, dlq, submitted, done>>
    BY <1>9 DEF CloseBegins, CloseReturns, memoryVars
  <2>2. Same
    BY <2>1 DEF Open, Queued, Waiting, InFlight, Buried
  <2> QED
    BY <2>1, <2>2 DEF Earned
<1>10. ASSUME Shutdown PROVE Goal
  <2>1. Stopped /\ UNCHANGED <<timers, firing, pc, job, dlq, submitted, done>>
    BY <1>10 DEF Shutdown, Stopped
  <2>2. Queued' = {}
    BY <1>10 DEF Shutdown, Queued
  <2>3. Open' \subseteq Open /\ Buried' = Buried
    BY <2>1, <2>2 DEF Open, Waiting, InFlight, Buried
  <2> QED
    BY <2>1, <2>3 DEF Earned
<1> HIDE DEF Goal
<1>11. Goal
  BY <1>1, <1>2, <1>3, <1>4, <1>5, <1>6, <1>7, <1>8, <1>9, <1>10 DEF Next, Deliver
<1> QED
  BY <1>11 DEF Goal

(* The backend keeps the promise of Delivery until close() is called, with   *)
(* any number of threads, submissions and retries.                           *)
THEOREM ImplementsDelivery == Spec => DeliverySafe
<1>1. Init => D!Init /\ Earned
  BY DEF Init, D!Init, Earned, Open, Queued, Waiting, InFlight, Buried
<1>2. TypeOK /\ Earned /\ [Next]_memoryVars
        => Earned' /\ [D!Next \/ Stopped]_<<Open, done, Buried>>
  BY DeliveryStep
<1> QED
  BY <1>1, <1>2, TypeCorrect, PTL DEF Spec, DeliverySafe
===============================================================================
