---------------------------- MODULE ReviewRunProofs ----------------------------
(***************************************************************************)
(* What a review leaves in the database while one runner has it at a time, *)
(* for any number of runs, faults, crashes and cancellations: its nodes    *)
(* stay completed, SUCCESS is earned, and the trace is in order.           *)
(*                                                                         *)
(* All of it speaks of a task that no two runners have had together, so    *)
(* the inductive invariant does as well (Sequential).                      *)
(***************************************************************************)
EXTENDS ReviewRun, TLAPS

Loop == {"guard", "enter", "work", "save", "saveFailed"}
Places == Loop \cup {"idle", "load", "restore", "succeed", "fail", "case", "cancel"}
Event == [step : Int, state : {Target[n] : n \in Nodes} \cup Final]
Checkpoint == [status : {"none", "completed", "failed"}, attempt : Int]

(* The trace is only appended to, and a runner's place is a node or the end. *)
Typed ==
  /\ trace \in Seq(Event)
  /\ ckpt \in [Nodes -> Checkpoint]
  /\ cached \in [Runners -> [Nodes -> Checkpoint]]
  /\ node \in [Runners -> 1 .. Last + 1]
  /\ offset \in [Runners -> Int]
  /\ pc \in [Runners -> Places]
  /\ step \in [Runners -> Int]

OneRunner == \A q, r \in Runners : pc[q] # "idle" /\ pc[r] # "idle" => q = r

(* A runner in the loop of execute() has every node before its own done, and *)
(* what it cached is still what the table says of its own and later nodes.   *)
InLoop ==
  \A r \in Runners : pc[r] \in Loop \cup {"succeed"} =>
    /\ \A k \in Nodes : k < node[r] => Done(ckpt, k)
    /\ \A k \in Nodes : k >= node[r] => (Done(ckpt, k) <=> Done(cached[r], k))
    /\ node[r] \in Nodes => ~Done(cached[r], node[r])
    /\ node[r] \in Nodes <=> pc[r] # "succeed"

(* A task that has succeeded is finished: it is all there, and nobody is at  *)
(* it any more.                                                              *)
Finished ==
  state = "SUCCESS" =>
    report /\ (\A n \in Nodes : Done(ckpt, n)) /\ \A r \in Runners : pc[r] = "idle"

Ordered == \A i, j \in DOMAIN trace : i < j => trace[i].step < trace[j].step

(* A runner counts on from the last event, whichever run wrote it.           *)
Counting ==
  \A r \in Runners : pc[r] # "idle" => \A i \in DOMAIN trace : trace[i].step <= step[r]

Sequential ==
  ~overlapped => Typed /\ OneRunner /\ InLoop /\ Finished /\ Ordered /\ Counting

-------------------------------------------------------------------------------
(* The first node that is not done, or the end.                              *)
LEMMA NextNodeIs ==
  ASSUME NEW c, NEW n \in 1 .. Last + 1
  PROVE  LET m == NextNode(c, n) IN
         /\ m \in n .. Last + 1
         /\ \A k \in n .. m - 1 : Done(c, k)
         /\ m \in Nodes => ~Done(c, m)
<1> DEFINE P(m) == /\ \A k \in n .. m - 1 : Done(c, k)
                   /\ m > Last \/ ~Done(c, m)
<1>1. \E m \in n .. Last + 1 : P(m)
  <2> DEFINE D(k) == Done(c, k)
  <2>1. n \in {1, 2, 3, 4} /\ Last = 3
    BY DEF Last
  <2> HIDE DEF D
  <2>2. \E m \in n .. 4 : (\A k \in n .. m - 1 : D(k)) /\ (m > 3 \/ ~D(m))
    <3>1. CASE n <= 1 /\ ~D(1)
      BY <2>1, <3>1
    <3>2. CASE n <= 2 /\ ~D(2) /\ (n <= 1 => D(1))
      BY <2>1, <3>2
    <3>3. CASE n <= 3 /\ ~D(3) /\ (n <= 1 => D(1)) /\ (n <= 2 => D(2))
      BY <2>1, <3>3
    <3>4. CASE (n <= 1 => D(1)) /\ (n <= 2 => D(2)) /\ (n <= 3 => D(3))
      <4>1. \A k \in n .. 4 - 1 : D(k)
        BY <2>1, <3>4
      <4> QED
        BY <2>1, <4>1
    <3> QED
      BY <3>1, <3>2, <3>3, <3>4
  <2> QED
    BY <2>1, <2>2 DEF D
<1>2. NextNode(c, n) = CHOOSE m \in n .. Last + 1 : P(m)
  BY DEF NextNode
<1>3. NextNode(c, n) \in n .. Last + 1 /\ P(NextNode(c, n))
  BY <1>1, <1>2
<1> QED
  BY <1>3 DEF Nodes, Last

(* The largest step of an ordered trace is that of its last event.           *)
LEMMA MaxStepIs ==
  ASSUME Typed, Ordered
  PROVE  MaxStep \in Int /\ \A i \in DOMAIN trace : trace[i].step <= MaxStep
<1>1. /\ DOMAIN trace = 1 .. Len(trace) /\ Len(trace) \in Nat
      /\ \A i \in DOMAIN trace : trace[i].step \in Int
  <2>1. trace \in Seq(Event)
    BY DEF Typed
  <2>2. DOMAIN trace = 1 .. Len(trace) /\ Len(trace) \in Nat
    BY <2>1
  <2>3. \A i \in DOMAIN trace : trace[i] \in Event
    BY <2>1, <2>2
  <2> QED
    BY <2>2, <2>3 DEF Event
<1>2. CASE trace = <<>>
  <2>1. DOMAIN trace = {}
    BY <1>2
  <2>2. MaxStep = 0
    BY <1>2 DEF MaxStep
  <2> QED
    BY <2>1, <2>2
<1>3. CASE trace # <<>>
  <2> DEFINE n == Len(trace)
             Steps == {trace[i].step : i \in DOMAIN trace}
             Is(m) == \A i \in DOMAIN trace : trace[i].step <= m
  <2>1. n \in DOMAIN trace
    BY <1>1, <1>3 DEF Typed
  <2>2. Is(trace[n].step)
    <3> SUFFICES ASSUME NEW i \in DOMAIN trace PROVE trace[i].step <= trace[n].step
      OBVIOUS
    <3>1. CASE i = n
      BY <1>1, <3>1
    <3>2. CASE i < n
      BY <1>1, <2>1, <3>2 DEF Ordered
    <3> QED
      BY <1>1, <3>1, <3>2
  <2>3. trace[n].step \in Steps
    BY <2>1
  <2>4. MaxStep = CHOOSE m \in Steps : Is(m)
    BY <1>3 DEF MaxStep
  <2> HIDE DEF Steps, Is
  <2>5. MaxStep \in Steps /\ Is(MaxStep)
    BY <2>2, <2>3, <2>4
  <2> QED
    BY <1>1, <2>5 DEF Steps, Is
<1> QED
  BY <1>2, <1>3

-------------------------------------------------------------------------------
(* One step.  Only Begin starts a run; what a runner does next moves it      *)
(* alone, and no other is under way.                                         *)

Step(r) == Progress(r) \/ Fault(r) \/ Crash(r)

LEMMA Moves ==
  ASSUME Typed, NEW r \in Runners, Step(r)
  PROVE  /\ pc[r] # "idle" /\ overlapped' = overlapped
         /\ \E x \in Places : pc' = [pc EXCEPT ![r] = x]
<1> DEFINE Goal == /\ pc[r] # "idle" /\ overlapped' = overlapped
                   /\ \E x \in Places : pc' = [pc EXCEPT ![r] = x]
<1>1. ASSUME Crash(r) PROVE Goal
  BY <1>1 DEF Crash, Goto, Places, Loop
<1>2. ASSUME RunFault(r) PROVE Goal
  BY <1>2 DEF RunFault, Goto, Faulty, Places, Loop
<1>3. ASSUME SaveFault(r) \/ ExecuteFault(r) \/ SucceedFault(r) \/ EnterFault(r) PROVE Goal
  BY <1>3 DEF SaveFault, ExecuteFault, SucceedFault, EnterFault, Goto, Faulty, Places, Loop
<1>4. ASSUME LoadState(r) \/ Guard(r) PROVE Goal
  BY <1>4 DEF LoadState, Guard, GuardCancelled, GuardExhausted, GuardPasses, Goto, bounds, Places, Loop
<1>5. ASSUME Work(r) PROVE Goal
  BY <1>5 DEF Work, WorkReturns, WorkRaises, WorkRaisesValueError, Goto, bounds, Places, Loop
<1>6. ASSUME End(r) PROVE Goal
  BY <1>6 DEF End, Cancel, RecordCase, Fail, Succeed, Goto, bounds, Places, Loop
<1>7. ASSUME Enter(r) PROVE Goal
  BY <1>7 DEF Enter, Goto, bounds, Places, Loop
<1>8. ASSUME Restore(r) \/ Save(r) \/ SaveFailed(r) PROVE Goal
  BY <1>8 DEF Restore, Save, SaveFailed, Continue, Goto, bounds, Places, Loop
<1> QED
  BY <1>1, <1>2, <1>3, <1>4, <1>5, <1>6, <1>7, <1>8 DEF Step, Progress, Fault

LEMMA TypedStep ==
  ASSUME Typed, Ordered, InLoop, [Next]_runVars
  PROVE  Typed'
<1>1. ASSUME NEW r \in Runners, Begin(r) PROVE Typed'
  <2>1. UNCHANGED <<trace, ckpt, cached, node, offset>>
    BY <1>1 DEF Begin, dbVars, loopVars
  <2>2. pc' \in [Runners -> Places] /\ step' \in [Runners -> Int]
    BY <1>1, MaxStepIs DEF Begin, Goto, Typed, Places
  <2> QED
    BY <2>1, <2>2 DEF Typed
<1>2. ASSUME NEW r \in Runners, NEW s \in {Target[n] : n \in Nodes} \cup Final, Record(r, s)
      PROVE  step' \in [Runners -> Int] /\ trace' \in Seq(Event)
  <2>1. step' \in [Runners -> Int]
    BY <1>2 DEF Record, Typed
  <2>2. [step |-> step'[r], state |-> s] \in Event
    BY <2>1 DEF Event
  <2> QED
    BY <1>2, <2>1, <2>2 DEF Record, Typed
<1>3. ASSUME NEW r \in Runners, Step(r) PROVE pc' \in [Runners -> Places]
  BY <1>3, Moves DEF Typed
<1>4. ASSUME NEW r \in Runners, Restore(r) PROVE Typed'
  <2>1. NextNode(ckpt, 1) \in 1 .. Last + 1
    BY NextNodeIs DEF Last
  <2>2. UNCHANGED <<trace, ckpt, step>>
    BY <1>4 DEF Restore, dbVars
  <2>3. pc' \in [Runners -> Places]
    BY <1>3, <1>4 DEF Step, Progress
  <2>4. cached' \in [Runners -> [Nodes -> Checkpoint]]
    BY <1>4 DEF Restore, Typed
  <2>5. node' \in [Runners -> 1 .. Last + 1] /\ offset' \in [Runners -> Int]
    BY <1>4, <2>1 DEF Restore, Continue, Typed
  <2> QED
    BY <2>2, <2>3, <2>4, <2>5 DEF Typed
<1>5. ASSUME NEW r \in Runners, pc[r] \in {"save", "saveFailed"}, NEW status \in {"completed", "failed"}
      PROVE  [status |-> status, attempt |-> Attempt(r)] \in Checkpoint /\ node[r] \in Nodes
  <2>1. node[r] \in Nodes
    BY <1>5 DEF InLoop, Loop
  <2> QED
    BY <2>1 DEF Typed, Attempt, Checkpoint
<1>6. ASSUME NEW r \in Runners, Save(r) PROVE Typed'
  <2>1. pc[r] = "save" /\ node[r] \in Nodes
    BY <1>5, <1>6 DEF Save
  <2>2. NextNode(cached[r], node[r] + 1) \in 1 .. Last + 1
    BY <2>1, NextNodeIs DEF Last, Nodes
  <2>3. pc' \in [Runners -> Places]
    BY <1>3, <1>6 DEF Step, Progress
  <2>4. ckpt' \in [Nodes -> Checkpoint]
    BY <1>5, <1>6, <2>1 DEF Save, Typed
  <2>5. node' \in [Runners -> 1 .. Last + 1] /\ offset' \in [Runners -> Int]
    BY <1>6, <2>2 DEF Save, Continue, Typed
  <2>6. UNCHANGED <<trace, step, cached>>
    BY <1>6 DEF Save
  <2> QED
    BY <2>3, <2>4, <2>5, <2>6 DEF Typed
<1>7. ASSUME NEW r \in Runners, SaveFailed(r) PROVE Typed'
  <2>1. ckpt' \in [Nodes -> Checkpoint]
    BY <1>5, <1>7 DEF SaveFailed, Typed
  <2>2. pc' \in [Runners -> Places]
    BY <1>3, <1>7 DEF Step, Progress
  <2> QED
    BY <1>7, <2>1, <2>2 DEF SaveFailed, loopVars, Typed
<1>8. ASSUME NEW r \in Runners, Enter(r) PROVE Typed'
  <2>1. pc' \in [Runners -> Places] /\ UNCHANGED <<ckpt, cached, node, offset>>
    BY <1>3, <1>8 DEF Step, Progress, Enter, loopVars
  <2>2. node[r] \in Nodes
    BY <1>8 DEF Enter, InLoop, Loop
  <2>3. step' \in [Runners -> Int] /\ trace' \in Seq(Event)
    BY <1>2, <1>8, <2>2 DEF Enter, Typed
  <2> QED
    BY <2>1, <2>3 DEF Typed
<1>9. ASSUME NEW r \in Runners, Succeed(r) \/ Fail(r) \/ Cancel(r) PROVE Typed'
  <2>1. pc' \in [Runners -> Places]
    BY <1>3, <1>9 DEF Step, Progress, End
  <2>2. UNCHANGED <<ckpt, cached, node, offset>>
    BY <1>9 DEF Succeed, Fail, Cancel, loopVars
  <2>3. step' \in [Runners -> Int] /\ trace' \in Seq(Event)
    BY <1>2, <1>9 DEF Succeed, Fail, Cancel, Final
  <2> QED
    BY <2>1, <2>2, <2>3 DEF Typed
<1>10. ASSUME NEW r \in Runners,
              \/ LoadState(r) \/ Guard(r) \/ Work(r) \/ RecordCase(r) \/ Fault(r) \/ Crash(r)
       PROVE  Typed'
  <2>1. pc' \in [Runners -> Places]
    BY <1>3, <1>10 DEF Step, Progress, End
  <2>2. UNCHANGED <<trace, ckpt, cached, node>>
    BY <1>10 DEF LoadState, Guard, GuardCancelled, GuardExhausted, GuardPasses, Work,
                 WorkReturns, WorkRaises, WorkRaisesValueError, RecordCase, Fault,
                 EnterFault, SaveFault, ExecuteFault, SucceedFault, RunFault, Crash,
                 dbVars, loopVars
  <2>3. offset' \in [Runners -> Int] /\ step' \in [Runners -> Int]
    BY <1>10 DEF LoadState, Guard, GuardCancelled, GuardExhausted, GuardPasses, Work,
                 WorkReturns, WorkRaises, WorkRaisesValueError, RecordCase, Fault,
                 EnterFault, SaveFault, ExecuteFault, SucceedFault, RunFault, Crash,
                 dbVars, loopVars, Typed
  <2> QED
    BY <2>1, <2>2, <2>3 DEF Typed
<1>11. ASSUME RequestCancel \/ UNCHANGED runVars PROVE Typed'
  BY <1>11 DEF RequestCancel, runVars, dbVars, loopVars, Typed
<1> QED
  BY <1>1, <1>4, <1>6, <1>7, <1>8, <1>9, <1>10, <1>11 DEF Next, Progress, End

(* A run begins only beside none, or the task counts as overlapped.          *)
LEMMA OneRunnerStep ==
  ASSUME Typed, OneRunner, [Next]_runVars, ~overlapped'
  PROVE  OneRunner'
<1>1. ASSUME NEW r \in Runners, Begin(r) PROVE OneRunner'
  <2>1. ~Busy(r)
    BY <1>1 DEF Begin
  <2>2. \A q \in Runners \ {r} : pc[q] = "idle" /\ pc'[q] = "idle"
    BY <1>1, <2>1 DEF Begin, Busy, Goto, Typed
  <2> QED
    BY <2>2 DEF OneRunner
<1>2. ASSUME NEW r \in Runners, Step(r) PROVE OneRunner'
  <2>1. \A q \in Runners \ {r} : pc[q] = "idle" /\ pc'[q] = "idle"
    BY <1>2, Moves DEF OneRunner, Typed
  <2> QED
    BY <2>1 DEF OneRunner
<1>3. ASSUME RequestCancel \/ UNCHANGED runVars PROVE OneRunner'
  BY <1>3 DEF RequestCancel, runVars, OneRunner
<1> QED
  BY <1>1, <1>2, <1>3 DEF Next, Step

(* Where a runner is after it went on to the first node from n on that c has *)
(* not completed.                                                            *)
LEMMA Continues ==
  ASSUME Typed, NEW r \in Runners, NEW c, NEW n \in 1 .. Last + 1, Continue(r, c, n)
  PROVE  /\ node'[r] \in n .. Last + 1
         /\ \A k \in n .. node'[r] - 1 : Done(c, k)
         /\ node'[r] \in Nodes => ~Done(c, node'[r])
         /\ pc'[r] = IF node'[r] \in Nodes THEN "guard" ELSE "succeed"
         /\ \A q \in Runners \ {r} : pc'[q] = pc[q]
<1> DEFINE m == NextNode(c, n)
<1>1. /\ m \in n .. Last + 1 /\ (\A k \in n .. m - 1 : Done(c, k))
      /\ m \in Nodes => ~Done(c, m)
  BY NextNodeIs
<1>2. node'[r] = m
  BY DEF Continue, Typed
<1>3. m > Last <=> m \notin Nodes
  BY <1>1 DEF Nodes, Last
<1> HIDE DEF m
<1>4. pc'[r] = IF m > Last THEN "succeed" ELSE "guard"
  BY DEF Continue, Goto, Typed, m
<1>5. \A q \in Runners \ {r} : pc'[q] = pc[q]
  BY DEF Continue, Goto, Typed
<1> QED
  BY <1>1, <1>2, <1>3, <1>4, <1>5

(* The table is written by the runner in the loop alone, and only at its     *)
(* own node.                                                                 *)
LEMMA InLoopStep ==
  ASSUME Typed, OneRunner, InLoop, [Next]_runVars, ~overlapped'
  PROVE  InLoop'
<1> USE DEF Loop
<1>1. ASSUME NEW r \in Runners, Step(r), NEW q \in Runners \ {r}
      PROVE  pc'[q] = "idle"
  BY <1>1, Moves DEF OneRunner, Typed
<1>2. ASSUME NEW r \in Runners, Begin(r) PROVE InLoop'
  BY <1>2 DEF Begin, dbVars, loopVars, Goto, Typed, InLoop, Done
<1>3. ASSUME NEW r \in Runners, Restore(r) PROVE InLoop'
  <2>1. /\ Continue(r, ckpt, 1) /\ UNCHANGED ckpt /\ cached'[r] = ckpt
    BY <1>3 DEF Restore, dbVars, Typed
  <2>2. /\ node'[r] \in 1 .. Last + 1 /\ (\A k \in 1 .. node'[r] - 1 : Done(ckpt, k))
        /\ node'[r] \in Nodes => ~Done(ckpt, node'[r])
        /\ pc'[r] = IF node'[r] \in Nodes THEN "guard" ELSE "succeed"
    BY <2>1, Continues DEF Last
  <2>3. \A q \in Runners \ {r} : pc'[q] = "idle"
    BY <1>1, <1>3 DEF Step, Progress
  <2>4. \A k \in Nodes : Done(ckpt', k) <=> Done(ckpt, k)
    BY <2>1 DEF Done
  <2>5. \A k \in Nodes : Done(cached'[r], k) <=> Done(ckpt, k)
    BY <2>1 DEF Done
  <2> QED
    BY <2>2, <2>3, <2>4, <2>5 DEF InLoop, Nodes, Last
<1>4. ASSUME NEW r \in Runners, Save(r) PROVE InLoop'
  <2> DEFINE n == node[r]
  <2>1. /\ pc[r] = "save" /\ Continue(r, cached[r], n + 1) /\ UNCHANGED cached
        /\ ckpt' = [ckpt EXCEPT ![n] = [status |-> "completed", attempt |-> Attempt(r)]]
    BY <1>4 DEF Save
  <2>2. n \in Nodes /\ (\A k \in Nodes : k < n => Done(ckpt, k))
        /\ (\A k \in Nodes : k >= n => (Done(ckpt, k) <=> Done(cached[r], k)))
    BY <2>1 DEF InLoop
  <2> HIDE DEF n
  <2>3. n + 1 \in 1 .. Last + 1
    BY <2>2 DEF Nodes, Last
  <2>4. /\ node'[r] \in n + 1 .. Last + 1 /\ (\A k \in n + 1 .. node'[r] - 1 : Done(cached[r], k))
        /\ node'[r] \in Nodes => ~Done(cached[r], node'[r])
        /\ pc'[r] = IF node'[r] \in Nodes THEN "guard" ELSE "succeed"
    BY <2>1, <2>3, Continues
  <2>5. Done(ckpt', n) /\ \A k \in Nodes \ {n} : Done(ckpt', k) <=> Done(ckpt, k)
    BY <2>1, <2>2 DEF Done, Typed
  <2>6. \A q \in Runners \ {r} : pc'[q] = "idle"
    BY <1>1, <1>4 DEF Step, Progress
  <2>7. ASSUME NEW k \in Nodes, k < node'[r] PROVE Done(ckpt', k)
    <3>1. CASE k < n
      BY <2>2, <2>5, <3>1
    <3>2. CASE k = n
      BY <2>5, <3>2
    <3>3. CASE k > n
      <4>1. Done(cached[r], k)
        BY <2>2, <2>4, <2>7, <3>3 DEF Nodes, Last
      <4> QED
        BY <2>2, <2>5, <3>3, <4>1 DEF Nodes
    <3> QED
      BY <2>2, <3>1, <3>2, <3>3 DEF Nodes
  <2>8. ASSUME NEW k \in Nodes, k >= node'[r]
        PROVE  Done(ckpt', k) <=> Done(cached'[r], k)
    <3>1. k > n
      BY <2>2, <2>4, <2>8 DEF Nodes, Last
    <3>2. Done(ckpt, k) <=> Done(cached[r], k)
      BY <2>2, <3>1 DEF Nodes
    <3> QED
      BY <2>1, <2>2, <2>5, <3>1, <3>2 DEF Nodes, Done
  <2>9. node'[r] \in Nodes => ~Done(cached'[r], node'[r])
    BY <2>1, <2>4 DEF Done
  <2> QED
    BY <2>4, <2>6, <2>7, <2>8, <2>9 DEF InLoop
<1>5. ASSUME NEW r \in Runners, SaveFailed(r) PROVE InLoop'
  <2> DEFINE n == node[r]
  <2>1. /\ pc[r] = "saveFailed" /\ UNCHANGED <<cached, node>>
        /\ ckpt' = [ckpt EXCEPT ![n] = [status |-> "failed", attempt |-> Attempt(r)]]
        /\ pc'[r] \in {"guard", "fail"}
    BY <1>5 DEF SaveFailed, loopVars, Goto, Typed
  <2>2. n \in Nodes /\ ~Done(ckpt, n)
    BY <2>1 DEF InLoop, Nodes
  <2>3. \A k \in Nodes : Done(ckpt', k) <=> Done(ckpt, k)
    BY <2>1, <2>2 DEF Done, Typed
  <2>4. \A q \in Runners \ {r} : pc'[q] = "idle"
    BY <1>1, <1>5 DEF Step, Progress
  <2> QED
    BY <2>1, <2>3, <2>4 DEF InLoop, Done
<1>6. ASSUME UNCHANGED <<ckpt, cached, node>>, NEW r \in Runners, Step(r),
             \/ pc'[r] \notin Loop \cup {"succeed"}
             \/ pc'[r] \in Loop /\ pc[r] \in Loop
      PROVE  InLoop'
  BY <1>1, <1>6 DEF InLoop, Done
<1>7. ASSUME NEW r \in Runners,
             \/ LoadState(r) \/ Guard(r) \/ Enter(r) \/ Work(r) \/ End(r) \/ Fault(r) \/ Crash(r)
      PROVE  InLoop'
  <2>1. UNCHANGED <<ckpt, cached, node>>
    BY <1>7 DEF LoadState, Guard, GuardCancelled, GuardExhausted, GuardPasses, Enter, Work,
                WorkReturns, WorkRaises, WorkRaisesValueError, End, Succeed, Fail,
                RecordCase, Cancel, Fault, EnterFault, SaveFault, ExecuteFault,
                SucceedFault, RunFault, Crash, dbVars, loopVars
  <2>2. \/ pc'[r] \notin Loop \cup {"succeed"}
        \/ pc'[r] \in Loop /\ pc[r] \in Loop
    BY <1>7 DEF LoadState, Guard, GuardCancelled, GuardExhausted, GuardPasses, Enter, Work,
                WorkReturns, WorkRaises, WorkRaisesValueError, End, Succeed, Fail,
                RecordCase, Cancel, Fault, EnterFault, SaveFault, ExecuteFault,
                SucceedFault, RunFault, Crash, Goto, Typed
  <2> QED
    BY <1>6, <1>7, <2>1, <2>2 DEF Step, Progress
<1>8. ASSUME RequestCancel \/ UNCHANGED runVars PROVE InLoop'
  BY <1>8 DEF RequestCancel, runVars, dbVars, loopVars, InLoop, Done
<1> QED
  BY <1>2, <1>3, <1>4, <1>5, <1>7, <1>8 DEF Next, Progress

(* Nothing takes a finished task apart: the only way on is a run, and run()  *)
(* answers with the report.                                                  *)
LEMMA FinishedStep ==
  ASSUME Typed, OneRunner, InLoop, Finished, [Next]_runVars, ~overlapped'
  PROVE  Finished'
<1>1. ASSUME NEW r \in Runners, Begin(r) PROVE Finished'
  BY <1>1 DEF Begin, dbVars, Finished, Done
<1>2. ASSUME NEW r \in Runners, Step(r) PROVE state # "SUCCESS"
  BY <1>2, Moves DEF Finished
<1>3. ASSUME NEW r \in Runners, Succeed(r) PROVE Finished'
  <2>1. pc[r] = "succeed" /\ node[r] \notin Nodes /\ node[r] \in 1 .. Last + 1
    BY <1>3 DEF Succeed, InLoop, Loop, Typed
  <2>2. \A n \in Nodes : Done(ckpt, n)
    BY <2>1 DEF InLoop, Nodes, Last
  <2>3. ckpt' = ckpt /\ report' /\ pc'[r] = "idle"
    BY <1>3 DEF Succeed, Goto, Typed
  <2>4. \A q \in Runners \ {r} : pc'[q] = "idle"
    BY <1>3, Moves DEF Step, Progress, End, OneRunner, Typed
  <2> QED
    BY <2>2, <2>3, <2>4 DEF Finished, Done
<1>4. ASSUME NEW r \in Runners, Enter(r) PROVE state' # "SUCCESS"
  <2>1. node[r] \in Nodes
    BY <1>4 DEF Enter, InLoop, Loop
  <2>2. Target[node[r]] # "SUCCESS"
    BY <2>1 DEF Nodes, Target
  <2>3. state # "SUCCESS"
    BY <1>2, <1>4 DEF Step, Progress
  <2> QED
    BY <1>4, <2>2, <2>3 DEF Enter, Record
<1>5. ASSUME NEW r \in Runners, Fail(r) \/ Cancel(r) PROVE state' # "SUCCESS"
  BY <1>5 DEF Fail, Cancel, Record
<1>6. ASSUME NEW r \in Runners,
             \/ LoadState(r) \/ Restore(r) \/ Guard(r) \/ Work(r) \/ Save(r) \/ SaveFailed(r)
             \/ RecordCase(r) \/ Fault(r) \/ Crash(r)
      PROVE  state' # "SUCCESS"
  <2>1. state' = state
    BY <1>6 DEF LoadState, Restore, Guard, GuardCancelled, GuardExhausted, GuardPasses,
                Work, WorkReturns, WorkRaises, WorkRaisesValueError, Save, SaveFailed,
                RecordCase, Fault, EnterFault, SaveFault, ExecuteFault, SucceedFault,
                RunFault, Crash, dbVars
  <2> QED
    BY <1>2, <1>6, <2>1 DEF Step, Progress, End
<1>7. ASSUME RequestCancel \/ UNCHANGED runVars PROVE Finished'
  BY <1>7 DEF RequestCancel, runVars, dbVars, Finished, Done
<1>8. ASSUME state' # "SUCCESS" PROVE Finished'
  BY <1>8 DEF Finished
<1> QED
  BY <1>1, <1>3, <1>4, <1>5, <1>6, <1>7, <1>8 DEF Next, Progress, End

(* An event goes behind those there are, with the next number.               *)
LEMMA Recorded ==
  ASSUME Typed, Ordered, NEW r \in Runners, NEW s, Record(r, s),
         \A i \in DOMAIN trace : trace[i].step <= step[r]
  PROVE  Ordered' /\ \A i \in DOMAIN trace' : trace'[i].step <= step'[r]
<1> DEFINE n == Len(trace)
<1>1. /\ n \in Nat /\ DOMAIN trace = 1 .. n
      /\ \A i \in 1 .. n : trace[i].step \in Int
  <2>1. trace \in Seq(Event)
    BY DEF Typed
  <2>2. n \in Nat /\ DOMAIN trace = 1 .. n
    BY <2>1
  <2>3. \A i \in DOMAIN trace : trace[i] \in Event
    BY <2>1, <2>2
  <2> QED
    BY <2>2, <2>3 DEF Event
<1>2. step'[r] = step[r] + 1 /\ step[r] \in Int
  BY DEF Record, Typed
<1>3. /\ DOMAIN trace' = 1 .. n + 1
      /\ (\A i \in 1 .. n : trace'[i] = trace[i]) /\ trace'[n + 1].step = step'[r]
  <2>1. trace \in Seq(Event) /\ trace' = Append(trace, [step |-> step'[r], state |-> s])
    BY DEF Typed, Record
  <2> QED
    BY <2>1
<1> HIDE DEF n
<1>4. \A i \in DOMAIN trace' : trace'[i].step \in Int /\ trace'[i].step <= step'[r]
  <2> SUFFICES ASSUME NEW i \in 1 .. n + 1
               PROVE  trace'[i].step \in Int /\ trace'[i].step <= step'[r]
    BY <1>3
  <2>1. CASE i = n + 1
    BY <1>2, <1>3, <2>1
  <2>2. CASE i \in 1 .. n
    <3>1. trace'[i] = trace[i] /\ trace[i].step \in Int
      BY <1>1, <1>3, <2>2
    <3>2. trace[i].step <= step[r]
      BY <1>1, <2>2
    <3> QED
      BY <1>2, <3>1, <3>2
  <2> QED
    BY <1>1, <2>1, <2>2
<1>5. ASSUME NEW i \in 1 .. n + 1, NEW j \in 1 .. n + 1, i < j
      PROVE  trace'[i].step < trace'[j].step
  <2>1. i \in 1 .. n
    BY <1>1, <1>5
  <2>2. CASE j = n + 1
    <3>1. trace'[i] = trace[i] /\ trace[i].step \in Int
      BY <1>1, <1>3, <2>1
    <3>2. trace[i].step <= step[r]
      BY <1>1, <2>1
    <3> QED
      BY <1>2, <1>3, <2>2, <3>1, <3>2
  <2>3. CASE j \in 1 .. n
    BY <1>1, <1>3, <1>5, <2>1, <2>3 DEF Ordered
  <2> QED
    BY <1>1, <2>2, <2>3
<1> QED
  BY <1>3, <1>4, <1>5 DEF Ordered

LEMMA OrderedStep ==
  ASSUME Typed, OneRunner, Ordered, Counting, [Next]_runVars, ~overlapped'
  PROVE  Ordered' /\ Counting'
<1>1. ASSUME NEW r \in Runners, Begin(r) PROVE Ordered' /\ Counting'
  <2>1. trace' = trace
    BY <1>1 DEF Begin, dbVars
  <2>2. ASSUME NEW q \in Runners, pc'[q] # "idle" PROVE \A i \in DOMAIN trace : trace[i].step <= step'[q]
    <3>1. CASE q = r
      <4>1. step'[r] = MaxStep
        BY <1>1, <2>2, <3>1 DEF Begin, Typed
      <4> QED
        BY <3>1, <4>1, MaxStepIs
    <3>2. CASE q # r
      <4>1. pc[q] = pc'[q] /\ step'[q] = step[q]
        BY <1>1, <3>2 DEF Begin, Goto, Typed
      <4> QED
        BY <2>2, <4>1 DEF Counting
    <3> QED
      BY <3>1, <3>2
  <2> QED
    BY <2>1, <2>2 DEF Ordered, Counting
<1>2. ASSUME NEW r \in Runners, Step(r)
      PROVE  /\ \A q \in Runners \ {r} : pc'[q] = "idle"
             /\ \A i \in DOMAIN trace : trace[i].step <= step[r]
  BY <1>2, Moves DEF OneRunner, Typed, Counting
<1>3. ASSUME NEW r \in Runners, Step(r), NEW s, Record(r, s) PROVE Ordered' /\ Counting'
  BY <1>2, <1>3, Recorded DEF Counting
<1>4. ASSUME NEW r \in Runners, Step(r), UNCHANGED trace,
             step'[r] = step[r] \/ step'[r] = step[r] + 1
      PROVE  Ordered' /\ Counting'
  <2>1. step[r] \in Int /\ \A i \in DOMAIN trace : trace[i].step \in Int
    <3>1. trace \in Seq(Event)
      BY DEF Typed
    <3>2. \A i \in DOMAIN trace : trace[i] \in Event
      BY <3>1
    <3> QED
      BY <3>2 DEF Event, Typed
  <2>2. \A i \in DOMAIN trace : trace[i].step <= step'[r]
    BY <1>2, <1>4, <2>1
  <2> QED
    BY <1>2, <1>4, <2>2 DEF Ordered, Counting
<1>5. ASSUME NEW r \in Runners, Enter(r) PROVE Ordered' /\ Counting'
  BY <1>3, <1>4, <1>5 DEF Enter, Step, Progress
<1>6. ASSUME NEW r \in Runners, Succeed(r) \/ Fail(r) \/ Cancel(r) PROVE Ordered' /\ Counting'
  BY <1>3, <1>6 DEF Succeed, Fail, Cancel, Step, Progress, End
<1>7. ASSUME NEW r \in Runners,
             \/ LoadState(r) \/ Restore(r) \/ Guard(r) \/ Work(r) \/ Save(r) \/ SaveFailed(r)
             \/ RecordCase(r) \/ Fault(r) \/ Crash(r)
      PROVE  Ordered' /\ Counting'
  <2>1. UNCHANGED trace /\ (step'[r] = step[r] \/ step'[r] = step[r] + 1)
    BY <1>7 DEF LoadState, Restore, Guard, GuardCancelled, GuardExhausted, GuardPasses,
                Work, WorkReturns, WorkRaises, WorkRaisesValueError, Save, SaveFailed,
                RecordCase, Fault, EnterFault, SaveFault, ExecuteFault, SucceedFault,
                RunFault, Crash, dbVars, Typed
  <2> QED
    BY <1>4, <1>7, <2>1 DEF Step, Progress, End
<1>8. ASSUME RequestCancel \/ UNCHANGED runVars PROVE Ordered' /\ Counting'
  BY <1>8 DEF RequestCancel, runVars, dbVars, Ordered, Counting
<1> QED
  BY <1>1, <1>5, <1>6, <1>7, <1>8 DEF Next, Progress, End

-------------------------------------------------------------------------------
LEMMA OverlapStays ==
  ASSUME ~overlapped => Typed, [Next]_runVars, ~overlapped'
  PROVE  ~overlapped
<1>1. ASSUME NEW r \in Runners, Begin(r) PROVE ~overlapped
  BY <1>1 DEF Begin
<1>2. ASSUME NEW r \in Runners, Fault(r) \/ Crash(r) PROVE ~overlapped
  BY <1>2 DEF Fault, EnterFault, SaveFault, ExecuteFault, SucceedFault, RunFault, Crash, Faulty
<1>3. ASSUME NEW r \in Runners, Progress(r) PROVE ~overlapped
  BY <1>3 DEF Progress, LoadState, Restore, Guard, GuardCancelled, GuardExhausted,
              GuardPasses, Enter, Work, WorkReturns, WorkRaises, WorkRaisesValueError,
              Save, SaveFailed, End, Succeed, Fail, RecordCase, Cancel, bounds
<1>4. ASSUME RequestCancel \/ UNCHANGED runVars PROVE ~overlapped
  BY <1>4 DEF RequestCancel, runVars, bounds
<1> QED
  BY <1>1, <1>2, <1>3, <1>4 DEF Next

LEMMA SequentialStep == Sequential /\ [Next]_runVars => Sequential'
<1> SUFFICES ASSUME Sequential, [Next]_runVars, ~overlapped'
             PROVE  (Typed /\ OneRunner /\ InLoop /\ Finished /\ Ordered /\ Counting)'
  BY DEF Sequential
<1>1. Typed /\ OneRunner /\ InLoop /\ Finished /\ Ordered /\ Counting
  BY OverlapStays DEF Sequential
<1> QED
  BY <1>1, TypedStep, OneRunnerStep, InLoopStep, FinishedStep, OrderedStep

(* Every state of a task that one runner has at a time.                      *)
LEMMA AlwaysSequential == Spec => []Sequential
<1>1. Init => Sequential
  <2> SUFFICES ASSUME Init PROVE Typed /\ OneRunner /\ InLoop /\ Finished /\ Ordered /\ Counting
    BY DEF Sequential
  <2>1. Typed
    <3>1. NoCheckpoint \in Checkpoint /\ <<>> \in Seq(Event)
      BY DEF NoCheckpoint, Checkpoint
    <3> QED
      BY <3>1 DEF Init, Typed, Places, Last
  <2>2. DOMAIN trace = {}
    BY DEF Init
  <2> QED
    BY <2>1, <2>2 DEF Init, OneRunner, InLoop, Loop, Finished, Ordered, Counting
<1> QED
  BY <1>1, SequentialStep, PTL DEF Spec

(* A task is a SUCCESS only with its report and every node completed, and    *)
(* stays one (harness.py:79-97).                                             *)
THEOREM SuccessIsEarned == Spec => []SuccessEarned
<1>1. Sequential => SuccessEarned
  BY DEF Sequential, Finished, SuccessEarned, Done
<1> QED
  BY <1>1, AlwaysSequential, PTL

(* The trace is numbered in order across all runs (harness.py:67).           *)
THEOREM TraceIsOrdered == Spec => []TraceOrdered
<1>1. Sequential => TraceOrdered
  BY DEF Sequential, Ordered, TraceOrdered
<1> QED
  BY <1>1, AlwaysSequential, PTL

(* No run executes or rewrites a node that an earlier one completed: what    *)
(* the runner cached tells it of each (runtime.py, execute).                 *)
THEOREM CompletedIsKept == Spec => CompletedKept
<1> DEFINE Keeps == ~overlapped' =>
             \A n \in Nodes : ckpt[n].status = "completed" => ckpt'[n] = ckpt[n]
<1>1. ASSUME Sequential, [Next]_runVars, ~overlapped', NEW n \in Nodes,
             ckpt[n].status = "completed"
      PROVE  ckpt'[n] = ckpt[n]
  <2>1. Typed /\ InLoop
    BY <1>1, OverlapStays DEF Sequential
  <2>2. ASSUME NEW r \in Runners, Save(r) \/ SaveFailed(r) PROVE ckpt'[n] = ckpt[n]
    <3>1. pc[r] \in Loop /\ node[r] \in Nodes
      BY <2>1, <2>2 DEF Save, SaveFailed, InLoop, Loop
    <3>2. ~Done(ckpt, node[r])
      BY <2>1, <3>1 DEF InLoop, Nodes
    <3>3. node[r] # n
      BY <1>1, <3>2 DEF Done
    <3> QED
      BY <2>1, <2>2, <3>3 DEF Save, SaveFailed, Typed
  <2>3. ASSUME NEW r \in Runners,
               \/ LoadState(r) \/ Restore(r) \/ Guard(r) \/ Enter(r) \/ Work(r) \/ End(r)
               \/ Begin(r) \/ Fault(r) \/ Crash(r)
        PROVE  ckpt' = ckpt
    BY <2>3 DEF LoadState, Restore, Guard, GuardCancelled, GuardExhausted, GuardPasses,
                Enter, Work, WorkReturns, WorkRaises, WorkRaisesValueError, End, Succeed,
                Fail, RecordCase, Cancel, Begin, Fault, EnterFault, SaveFault,
                ExecuteFault, SucceedFault, RunFault, Crash, dbVars
  <2>4. ASSUME RequestCancel \/ UNCHANGED runVars PROVE ckpt' = ckpt
    BY <2>4 DEF RequestCancel, runVars, dbVars
  <2> QED
    BY <1>1, <2>2, <2>3, <2>4 DEF Next, Progress
<1>2. Sequential /\ [Next]_runVars => [Keeps]_runVars
  BY <1>1
<1> QED
  BY <1>2, AlwaysSequential, PTL DEF Spec, CompletedKept
===============================================================================
