-------------------------- MODULE AgentSessionProofs ---------------------------
(***************************************************************************)
(* What a resumed agentic review may rely on, for any workers, delegations,*)
(* answers, failures and crashes: nothing in the checkpoint is paid for    *)
(* again, all of it is in the ledger, a completed session holds the latest *)
(* work, and what is returned is what the Lead accepted.                   *)
(*                                                                         *)
(* A session is the checkpoint's when a run begins and only adds to it, so *)
(* most is said of a session, and holds of the one at work and of the one  *)
(* that was saved (Sound, Paid); the rest follows a run (Placed).          *)
(***************************************************************************)
EXTENDS AgentSession, FiniteSetTheorems, TLAPS

Fields ==
  {"scanned", "worker", "high", "results", "assessed", "requests", "revised", "rounds",
   "criticized", "candidates", "finalized", "final", "completed"}

Reworks(s) == {Rework(a) : a \in s.requests}
Held(s) == DOMAIN s.results \cup DOMAIN s.revised
AllFirst(s) == \A a \in DOMAIN s.worker : First(a) \in DOMAIN s.results

(* All that was delegated and all that was asked again is in. *)
Collected(s) == AllFirst(s) /\ DOMAIN s.revised = Reworks(s)

(* What a result is kept under: the first run of an assignment, or a rework  *)
(* until it has replaced that.                                               *)
Filed(s, k) ==
  \/ \E a \in DOMAIN s.worker :
       /\ k = First(a)
       /\ s.results[k].of = IF Rework(a) \in DOMAIN s.revised THEN Rework(a) ELSE First(a)
  \/ \E a \in s.requests :
       k = Rework(a) /\ k \notin DOMAIN s.revised /\ s.results[k].of = k

Sound(s) ==
  /\ DOMAIN s = Fields
  /\ DOMAIN s.worker \subseteq Assignments /\ s.requests \subseteq DOMAIN s.worker
  /\ DOMAIN s.revised \in {{}, Reworks(s)}
  /\ DOMAIN s.revised # {} => AllFirst(s)
  /\ s.requests # {} => s.assessed /\ s.high
  /\ \A k \in DOMAIN s.results : Filed(s, k)
  /\ s.worker # None \/ s.assessed \/ s.completed => s.worker \in Delegations
  /\ s.completed => Collected(s) /\ (s.high => s.assessed \/ DOMAIN s.worker = {})

(* The calls behind a session are in a ledger.                               *)
Paid(s, l) ==
  /\ Held(s) \subseteq l
  /\ s.worker # None => Phase("delegate") \in l
  /\ s.assessed => Phase("assess") \in l
  /\ s.criticized /\ critic => Phase("critic") \in l
  /\ s.finalized => Phase("finalize") \in l

(* A run has all that was saved.                                             *)
Kept ==
  LET s == saved.session IN
  /\ Held(s) \subseteq Held(session)
  /\ s.worker # None => session.worker # None
  /\ s.assessed => session.assessed
  /\ s.criticized => session.criticized
  /\ s.finalized => session.finalized

(* The pool runs what has no result, and a run that has ended was paid for.  *)
Pooled ==
  \A k \in DOMAIN pool :
    /\ k \in RunKeys /\ k \notin Held(session)
    /\ pool[k].state = "ended" => k \in ledger
    /\ pool[k].state = "running" => DOMAIN pool[k] = {"state", "step"}

(* Where a run is, or will be when it has saved.                             *)
AfterSave ==
  {"delegate", "assign", "collect", "assess", "rework", "criticize", "finalize", "return"}
At == IF pc = "saving" THEN next ELSE pc
Late == {"finalize", "finalizing", "complete", "return", "returned", "done"}
Closing == {"criticize", "criticizing"} \cup Late
Working == {"assign", "collect", "assess", "assessing", "rework"} \cup Closing

(* The keys of a round: those it runs, unless they have their results.       *)
RoundKeys == IF round = 0 THEN FirstKeys ELSE {Rework(a) : a \in Revisions}

Placed ==
  /\ pc = "saving" => next \in AfterSave
  /\ pc = "idle" => pool = None
  /\ At \in Working => session.worker \in Delegations
  /\ At = "collect" =>
       /\ DOMAIN pool \subseteq RoundKeys
       /\ RoundKeys \subseteq DOMAIN pool \cup DOMAIN session.results
       /\ round # 0 => AllFirst(session) /\ session.assessed
  /\ At \in {"assess", "assessing", "rework"} => AllFirst(session)
  /\ At = "rework" => session.assessed
  /\ At = "assessing" => session.high
  /\ At \in Closing => Collected(session) /\ (session.high => session.assessed)
  /\ At \in Late => session.criticized /\ candidates = session.candidates
  /\ At \in {"complete", "return", "returned", "done"} => session.finalized
  /\ pc = "delegating" => session.worker = None
  /\ pc = "assessing" => ~session.assessed
  /\ pc = "criticizing" => critic /\ ~session.criticized
  /\ pc = "finalizing" => ~session.finalized

(* What the Lead accepted of a list is kept with that list.                  *)
Accepted(s) ==
  s.finalized => s.criticized /\ judged = {s.candidates[i] : i \in s.final}

Inv ==
  /\ Sound(session) /\ Sound(saved.session)
  /\ Paid(session, ledger) /\ Paid(saved.session, saved.ledger)
  /\ Kept /\ Pooled /\ Placed
  /\ Accepted(session) /\ Accepted(saved.session)
  /\ pc \in {"returned", "done"} => report = judged

-------------------------------------------------------------------------------
(* Where no delegation is possible there is no other one.                    *)
LEMMA NoneOrSome ==
  ASSUME None \in Delegations
  PROVE  \A d \in Delegations : d = None
<1> SUFFICES ASSUME NEW d \in Delegations
             PROVE  d = None
  OBVIOUS
<1>1. \E S \in SUBSET Assignments : d \in [S -> Workers]
  BY DEF Delegations
<1>2. IsFiniteSet(DOMAIN d) /\ Cardinality(DOMAIN d) <= MaxAssignments
  BY DEF Delegations
<1>3. DOMAIN None = {}
  BY DEF None
<1>4. Workers = {} \/ Cardinality({}) = MaxAssignments
  BY <1>3 DEF Delegations
<1>5. DOMAIN d = {}
  <2>1. CASE Workers = {}
    BY <1>1, <2>1
  <2>2. CASE Cardinality({}) = MaxAssignments
    <3>1. Cardinality({}) = 0
      BY FS_EmptySet
    <3>2. Cardinality(DOMAIN d) \in Nat
      BY <1>2, FS_CardinalityType
    <3>3. Cardinality(DOMAIN d) = 0
      BY <1>2, <2>2, <3>1, <3>2
    <3> QED
      BY <1>2, <3>3, FS_EmptySet
  <2> QED
    BY <1>4, <2>1, <2>2
<1> QED
  BY <1>1, <1>5 DEF None

(* What is said of the checkpoint stays while it does.                       *)
LEMMA SavedStays ==
  ASSUME Inv, saved' = saved, critic' = critic
  PROVE  /\ Sound(saved.session)' /\ Paid(saved.session, saved.ledger)'
         /\ (judged' = judged => Accepted(saved.session)')
<1>1. Sound(saved.session)'
  BY DEF Inv, Sound, Collected, AllFirst, Reworks, Filed
<1>2. Paid(saved.session, saved.ledger)'
  BY DEF Inv, Paid, Held
<1>3. judged' = judged => Accepted(saved.session)'
  BY DEF Inv, Accepted
<1> QED
  BY <1>1, <1>2, <1>3

(* ... and of the session, whatever else is paid for.                        *)
LEMMA SessionStays ==
  ASSUME Inv, session' = session, saved' = saved, critic' = critic, judged' = judged,
         ledger \subseteq ledger'
  PROVE  /\ Sound(session)' /\ Paid(session, ledger)' /\ Kept' /\ Accepted(session)'
         /\ Sound(saved.session)' /\ Paid(saved.session, saved.ledger)'
         /\ Accepted(saved.session)'
<1>1. Sound(session)'
  BY DEF Inv, Sound, Collected, AllFirst, Reworks, Filed
<1>2. Paid(session, ledger)'
  BY DEF Inv, Paid, Held
<1>3. Kept'
  BY DEF Inv, Kept, Held
<1>4. Accepted(session)'
  BY DEF Inv, Accepted
<1> QED
  BY <1>1, <1>2, <1>3, <1>4, SavedStays

LEMMA Initially == Init => Inv
<1> SUFFICES ASSUME Init
             PROVE  Inv
  OBVIOUS
<1>1. /\ DOMAIN New = Fields
      /\ New.worker = None /\ New.results = None /\ New.revised = None /\ New.requests = {}
      /\ ~New.assessed /\ ~New.completed /\ ~New.criticized /\ ~New.finalized
  BY DEF New, Fields
<1>2. DOMAIN None = {}
  BY DEF None
<1>3. Sound(New)
  BY <1>1, <1>2 DEF Sound, Reworks
<1>4. Paid(New, {})
  BY <1>1, <1>2 DEF Paid, Held
<1>5. Accepted(New)
  BY <1>1 DEF Accepted
<1>6. session = New /\ ledger = {} /\ saved.session = New /\ saved.ledger = {}
  BY DEF Init
<1>7. Kept
  BY <1>6 DEF Kept
<1>8. Pooled
  BY <1>2 DEF Init, Pooled
<1>9. Placed
  BY DEF Init, Placed, At, Working, Closing, Late
<1>10. pc \notin {"returned", "done"}
  BY DEF Init
<1> QED
  BY <1>3, <1>4, <1>5, <1>6, <1>7, <1>8, <1>9, <1>10 DEF Inv

-------------------------------------------------------------------------------
(* The checkpoint is read and written whole.                                 *)
LEMMA BeginStep ==
  ASSUME SessionAssumption, Inv, Begin
  PROVE  Inv'
<1>1. /\ session' = saved.session /\ ledger' = saved.ledger /\ pc' = "scan"
      /\ saved' = saved /\ critic' = critic /\ judged' = judged /\ pool' = pool
  BY DEF Begin
<1>2. pc = "idle" /\ pool = None
  BY DEF Begin, Inv, Placed
<1>3. Sound(session)'
  BY <1>1 DEF Inv, Sound, Collected, AllFirst, Reworks, Filed
<1>4. Paid(session, ledger)'
  BY <1>1 DEF Inv, Paid, Held
<1>5. Kept'
  BY <1>1 DEF Kept
<1>6. Pooled'
  BY <1>1, <1>2 DEF Pooled, None
<1>7. Placed'
  BY <1>1 DEF Placed, At, Working, Closing, Late
<1>8. Accepted(session)'
  BY <1>1 DEF Inv, Accepted
<1> QED
  BY <1>1, <1>3, <1>4, <1>5, <1>6, <1>7, <1>8, SavedStays DEF Inv

LEMMA SaveStep ==
  ASSUME SessionAssumption, Inv, Save
  PROVE  Inv'
<1>1. /\ saved' = [session |-> session, ledger |-> ledger]
      /\ session' = session /\ ledger' = ledger /\ pool' = pool /\ round' = round
      /\ candidates' = candidates /\ judged' = judged /\ critic' = critic
      /\ pc = "saving" /\ pc' = next /\ next' = next
  BY DEF Save
<1>2. saved'.session = session /\ saved'.ledger = ledger
  BY <1>1
<1>3. next \in AfterSave
  BY <1>1 DEF Inv, Placed
<1>4. At' = At /\ pc' \notin Calling \cup {"saving", "idle", "returned", "done"}
  BY <1>1, <1>3 DEF At, AfterSave, Calling
<1>5. Sound(session)' /\ Sound(saved.session)'
  BY <1>1, <1>2 DEF Inv, Sound, Collected, AllFirst, Reworks, Filed
<1>6. Paid(session, ledger)' /\ Paid(saved.session, saved.ledger)'
  BY <1>1, <1>2 DEF Inv, Paid, Held
<1>7. Kept'
  BY <1>1, <1>2 DEF Kept
<1>8. Pooled'
  BY <1>1 DEF Inv, Pooled, Held
<1>9. Placed'
  <2>1. FirstKeys' = FirstKeys /\ Revisions' = Revisions
    BY <1>1 DEF FirstKeys, Revisions
  <2>2. RoundKeys' = RoundKeys /\ AllFirst(session)' = AllFirst(session)
        /\ Collected(session)' = Collected(session)
    BY <1>1, <2>1 DEF RoundKeys, AllFirst, Collected, Reworks
  <2> QED
    BY <1>1, <1>4, <2>2 DEF Inv, Placed, Calling
<1>10. Accepted(session)' /\ Accepted(saved.session)'
  BY <1>1, <1>2 DEF Inv, Accepted
<1> QED
  BY <1>4, <1>5, <1>6, <1>7, <1>8, <1>9, <1>10 DEF Inv

-------------------------------------------------------------------------------
(* The thread goes on and nothing else changes but the report.               *)
LEMMA GoesOn ==
  ASSUME Inv, session' = session, saved' = saved, ledger' = ledger, pool' = pool,
         critic' = critic, judged' = judged,
         Placed', pc' \in {"returned", "done"} => report' = judged
  PROVE  Inv'
<1>1. Pooled'
  BY DEF Inv, Pooled, Held
<1>2. ledger \subseteq ledger'
  OBVIOUS
<1> QED
  BY <1>1, <1>2, SessionStays DEF Inv

LEMMA SameKeys ==
  ASSUME session' = session, round' = round
  PROVE  /\ RoundKeys' = RoundKeys /\ AllFirst(session)' = AllFirst(session)
         /\ Collected(session)' = Collected(session)
<1>1. FirstKeys' = FirstKeys /\ Revisions' = Revisions
  BY DEF FirstKeys, Revisions
<1> QED
  BY <1>1 DEF RoundKeys, AllFirst, Collected, Reworks

LEMMA DelegateStep ==
  ASSUME SessionAssumption, Inv, Delegate
  PROVE  Inv'
<1>1. /\ pc = "delegate" /\ session' = session /\ pool' = pool /\ round' = round
      /\ pc' = (IF session.worker = None THEN "delegating" ELSE "assign") /\ next' = next
  BY DEF Delegate, GoTo
<1>2. Placed'
  BY <1>1, SameKeys DEF Inv, Sound, Placed, At, Working, Closing, Late
<1> QED
  BY <1>1, <1>2, GoesOn DEF Delegate

LEMMA FirstRoundDoneStep ==
  ASSUME SessionAssumption, Inv, FirstRoundDone
  PROVE  Inv'
<1>1. /\ pc = "collect" /\ pool = None /\ round = 0 /\ session' = session
      /\ pool' = pool /\ round' = round /\ pc' = "saving" /\ next' = "assess"
  BY DEF FirstRoundDone, SaveThen
<1>2. At = "collect" /\ At' = "assess"
  BY <1>1 DEF At
<1>3. FirstKeys \subseteq DOMAIN session.results
  BY <1>1, <1>2 DEF Inv, Placed, RoundKeys, None
<1>4. AllFirst(session)
  BY <1>3 DEF AllFirst, FirstKeys
<1>5. Placed'
  BY <1>1, <1>2, <1>4, SameKeys DEF Inv, Placed, AfterSave, Working, Closing, Late
<1> QED
  BY <1>1, <1>5, GoesOn DEF FirstRoundDone

LEMMA AssessStep ==
  ASSUME SessionAssumption, Inv, Assess
  PROVE  Inv'
<1>1. /\ pc = "assess" /\ session' = session /\ pool' = pool /\ round' = round
      /\ pc' = (IF ~session.high THEN "criticize"
                ELSE IF session.assessed THEN "rework" ELSE "assessing")
  BY DEF Assess, GoTo
<1>2. At = "assess" /\ At' = pc'
  BY <1>1 DEF At
<1>3. AllFirst(session) /\ session.worker \in Delegations
  BY <1>2 DEF Inv, Placed, Working
<1>4. ~session.high => Collected(session)
  <2>1. ~session.high => session.requests = {} /\ DOMAIN session.revised \in {{}, Reworks(session)}
    BY DEF Inv, Sound
  <2> QED
    BY <1>3, <2>1 DEF Collected, Reworks
<1>5. Placed'
  BY <1>1, <1>2, <1>3, <1>4, SameKeys DEF Inv, Placed, Working, Closing, Late
<1> QED
  BY <1>1, <1>5, GoesOn DEF Assess

LEMMA FinalizeStep ==
  ASSUME SessionAssumption, Inv, Finalize
  PROVE  Inv'
<1>1. /\ pc = "finalize" /\ session' = session /\ pool' = pool /\ round' = round
      /\ candidates' = candidates
      /\ pc' = (IF session.finalized THEN "complete" ELSE "finalizing")
  BY DEF Finalize, GoTo
<1>2. Placed'
  BY <1>1, SameKeys DEF Inv, Placed, At, Working, Closing, Late
<1> QED
  BY <1>1, <1>2, GoesOn DEF Finalize

(* The report is the Lead's choice of the list that was kept with it.        *)
LEMMA ReturnStep ==
  ASSUME SessionAssumption, Inv, Return
  PROVE  Inv'
<1>1. /\ pc = "return" /\ session' = session /\ pool' = pool /\ round' = round
      /\ candidates' = candidates /\ pc' = "returned" /\ judged' = judged
      /\ report' = Chosen(session.final)
  BY DEF Return, GoTo
<1>2. Placed'
  BY <1>1, SameKeys DEF Inv, Placed, At, Working, Closing, Late
<1>3. report' = judged
  BY <1>1 DEF Inv, Placed, At, Late, Accepted, Chosen
<1> QED
  BY <1>1, <1>2, <1>3, GoesOn DEF Return

LEMMA NodeCompletedStep ==
  ASSUME SessionAssumption, Inv, NodeCompleted
  PROVE  Inv'
<1>1. /\ pc = "returned" /\ session' = session /\ pool' = pool /\ round' = round
      /\ candidates' = candidates /\ pc' = "done" /\ report' = report
  BY DEF NodeCompleted, GoTo
<1>2. Placed'
  BY <1>1, SameKeys DEF Inv, Placed, At, Working, Closing, Late
<1>3. report = judged
  BY <1>1 DEF Inv
<1> QED
  BY <1>1, <1>2, <1>3, GoesOn DEF NodeCompleted

(* A run that fails keeps what it has in memory until the next one begins.   *)
LEMMA RunFailsStep ==
  ASSUME SessionAssumption, Inv, RunFails
  PROVE  Inv'
<1>1. /\ session' = session /\ pool' = pool
      /\ pc' = (IF pool = None THEN "idle" ELSE "unwinding")
  BY DEF RunFails, GoTo
<1>2. Placed'
  BY <1>1 DEF Placed, At, Working, Closing, Late
<1> QED
  BY <1>1, <1>2, GoesOn DEF RunFails

(* Unwound and Crash: the results of the pool are lost.                      *)
LEMMA RunIsLost ==
  ASSUME SessionAssumption, Inv, Unwound \/ Crash
  PROVE  Inv'
<1>1. /\ session' = session /\ saved' = saved /\ ledger' = ledger /\ critic' = critic
      /\ judged' = judged /\ pool' = None /\ pc' = "idle"
  BY DEF Unwound, Crash, GoTo
<1>2. Pooled'
  BY <1>1 DEF Pooled, None
<1>3. Placed'
  BY <1>1 DEF Placed, At, Working, Closing, Late
<1> QED
  BY <1>1, <1>2, <1>3, SessionStays DEF Inv

-------------------------------------------------------------------------------
(* The thread pool.                                                          *)
LEMMA KeysOf ==
  ASSUME Inv
  PROVE  /\ FirstKeys \cup Reworks(session) \subseteq RunKeys
         /\ \A k \in FirstKeys : k \notin DOMAIN session.revised
         /\ \A a \in Revisions : Rework(a) \notin DOMAIN session.revised
<1>1. /\ DOMAIN session.worker \subseteq Assignments
      /\ session.requests \subseteq DOMAIN session.worker
      /\ DOMAIN session.revised \subseteq Reworks(session)
  BY DEF Inv, Sound
<1>2. FirstKeys \cup Reworks(session) \subseteq RunKeys
  BY <1>1 DEF FirstKeys, Reworks, First, Rework, RunKeys
<1>3. \A a, b : First(a) # Rework(b)
  <2> SUFFICES ASSUME NEW a, NEW b
               PROVE  First(a) # Rework(b)
    OBVIOUS
  <2>1. First(a).round = 0 /\ Rework(b).round = 1
    BY DEF First, Rework
  <2> QED
    BY <2>1
<1> QED
  BY <1>1, <1>2, <1>3 DEF FirstKeys, Reworks, Revisions

LEMMA RunsAre ==
  ASSUME NEW keys, keys \subseteq RunKeys, \A k \in keys : k \notin DOMAIN session.revised,
         session' = session, pool' = Runs(keys)
  PROVE  Pooled' /\ DOMAIN pool' = keys \ DOMAIN session.results
<1>1. DOMAIN pool' = keys \ DOMAIN session.results
  BY DEF Runs, Pending
<1>2. ASSUME NEW k \in DOMAIN pool'
      PROVE  pool'[k].state = "running" /\ DOMAIN pool'[k] = {"state", "step"}
  BY <1>2 DEF Runs
<1> QED
  BY <1>1, <1>2 DEF Pooled, Held

LEMMA AssignStep ==
  ASSUME SessionAssumption, Inv, Assign
  PROVE  Inv'
<1>1. /\ pc = "assign" /\ session' = session /\ saved' = saved /\ ledger' = ledger
      /\ critic' = critic /\ judged' = judged /\ pool' = Runs(FirstKeys) /\ round' = 0
      /\ pc' = "collect"
  BY DEF Assign, GoTo
<1>2. Pooled' /\ DOMAIN pool' = FirstKeys \ DOMAIN session.results
  BY <1>1, KeysOf, RunsAre
<1>3. RoundKeys' = FirstKeys
  BY <1>1 DEF RoundKeys, FirstKeys
<1>4. session.worker \in Delegations
  BY <1>1 DEF Inv, Placed, At, Working
<1>5. Placed'
  BY <1>1, <1>2, <1>3, <1>4 DEF Placed, At, Working, Closing, Late
<1>6. ledger \subseteq ledger' /\ pc' \notin {"returned", "done"}
  BY <1>1
<1> QED
  BY <1>1, <1>2, <1>5, <1>6, SessionStays DEF Inv

LEMMA ReviseStep ==
  ASSUME SessionAssumption, Inv, Revise
  PROVE  Inv'
<1> DEFINE keys == {Rework(a) : a \in Revisions}
<1>1. /\ pc = "rework" /\ session' = session /\ saved' = saved /\ ledger' = ledger
      /\ critic' = critic /\ judged' = judged /\ pool' = Runs(keys) /\ round' = 1
      /\ pc' = "collect"
  BY DEF Revise, GoTo
<1>2. keys \subseteq RunKeys /\ \A k \in keys : k \notin DOMAIN session.revised
  BY KeysOf DEF Reworks, Revisions
<1>3. RoundKeys' = keys
  BY <1>1 DEF RoundKeys, Revisions
<1> HIDE DEF keys
<1>4. Pooled' /\ DOMAIN pool' = keys \ DOMAIN session.results
  BY <1>1, <1>2, RunsAre
<1>5. session.worker \in Delegations /\ AllFirst(session) /\ session.assessed
  BY <1>1 DEF Inv, Placed, At, Working
<1>6. AllFirst(session)'
  BY <1>1, <1>5 DEF AllFirst
<1>7. Placed'
  BY <1>1, <1>3, <1>4, <1>5, <1>6 DEF Placed, At, Working, Closing, Late
<1>8. ledger \subseteq ledger' /\ pc' \notin {"returned", "done"}
  BY <1>1
<1> QED
  BY <1>1, <1>4, <1>7, <1>8, SessionStays DEF Inv

(* A model call is paid for before its run ends.                             *)
LEMMA CallStep ==
  ASSUME SessionAssumption, Inv, NEW k \in DOMAIN pool, WorkerStep(k)
  PROVE  Inv'
<1>1. /\ session' = session /\ saved' = saved /\ ledger' = ledger \cup {k}
      /\ critic' = critic /\ judged' = judged /\ report' = report /\ candidates' = candidates
      /\ pc' = pc /\ next' = next /\ round' = round /\ pool[k].state = "running"
      /\ \E v : pool' = [pool EXCEPT ![k] = v]
  BY DEF WorkerStep
<1>2. DOMAIN pool' = DOMAIN pool /\ \A j \in DOMAIN pool \ {k} : pool'[j] = pool[j]
  BY <1>1
<1>3. pool'[k].state = "running" => DOMAIN pool'[k] = {"state", "step"}
  <2>1. DOMAIN pool[k] = {"state", "step"}
    BY <1>1 DEF Inv, Pooled
  <2>2. CASE pool' = [pool EXCEPT ![k].step = @ + 1]
    BY <2>1, <2>2
  <2>3. CASE \E ok, f : pool' = [pool EXCEPT ![k] = Ended(ok, f)]
    BY <2>3 DEF Ended
  <2> QED
    BY <2>2, <2>3 DEF WorkerStep
<1>4. Pooled'
  BY <1>1, <1>2, <1>3 DEF Inv, Pooled, Held
<1>5. Placed'
  <2>1. pool # None
    BY DEF None
  <2>2. At' = At
    BY <1>1 DEF At
  <2> QED
    BY <1>1, <1>2, <2>1, <2>2, SameKeys DEF Inv, Placed
<1>6. ledger \subseteq ledger' /\ (pc' \in {"returned", "done"} => report' = judged')
  BY <1>1 DEF Inv
<1> QED
  BY <1>1, <1>4, <1>5, <1>6, SessionStays DEF Inv

-------------------------------------------------------------------------------
(* Steps of the main thread that leave the work of the workers alone.        *)
SameWork ==
  /\ DOMAIN session' = Fields
  /\ \A f \in {"worker", "high", "results", "assessed", "requests", "revised"} :
       session'[f] = session[f]
  /\ saved' = saved /\ pool' = pool /\ round' = round /\ critic' = critic
  /\ ledger \subseteq ledger'

LEMMA WorkStays ==
  ASSUME Inv, SameWork,
         session'.completed =>
           \/ session.completed
           \/ /\ session.worker \in Delegations
              /\ Collected(session) /\ (session.high => session.assessed)
  PROVE  /\ Sound(session)' /\ Pooled' /\ RoundKeys' = RoundKeys
         /\ AllFirst(session)' = AllFirst(session) /\ Collected(session)' = Collected(session)
         /\ Held(session)' = Held(session)
<1>1. /\ session'.worker = session.worker /\ session'.high = session.high
      /\ session'.results = session.results /\ session'.assessed = session.assessed
      /\ session'.requests = session.requests /\ session'.revised = session.revised
  BY DEF SameWork
<1>2. /\ AllFirst(session)' = AllFirst(session) /\ Collected(session)' = Collected(session)
      /\ Reworks(session)' = Reworks(session) /\ Held(session)' = Held(session)
  BY <1>1 DEF AllFirst, Collected, Reworks, Held
<1>3. RoundKeys' = RoundKeys
  <2>1. FirstKeys' = FirstKeys /\ Revisions' = Revisions
    BY <1>1 DEF FirstKeys, Revisions
  <2> QED
    BY <2>1 DEF RoundKeys, SameWork
<1>4. ASSUME NEW k \in DOMAIN session.results
      PROVE  Filed(session, k)'
  <2>1. Filed(session, k)
    BY DEF Inv, Sound
  <2> QED
    BY <1>1, <2>1 DEF Filed
<1>5. Sound(session)'
  BY <1>1, <1>2, <1>4 DEF Inv, Sound, SameWork
<1>6. Pooled'
  BY <1>2 DEF Inv, Pooled, SameWork
<1> QED
  BY <1>2, <1>3, <1>5, <1>6

LEMMA ScanStep ==
  ASSUME SessionAssumption, Inv, Scan
  PROVE  Inv'
<1>1. /\ pc = "scan" /\ saved' = saved /\ pool' = pool /\ round' = round /\ critic' = critic
      /\ ledger' = ledger /\ judged' = judged
      /\ session' = session \/ session' = [session EXCEPT !.scanned = TRUE]
      /\ pc' = "delegate" \/ (pc' = "saving" /\ next' = "delegate")
  BY DEF Scan, GoTo, SaveThen
<1>2. DOMAIN session = Fields
  BY DEF Inv, Sound
<1>3. \A f \in Fields \ {"scanned"} : session'[f] = session[f]
  BY <1>1, <1>2
<1>4. SameWork
  BY <1>1, <1>2, <1>3 DEF SameWork, Fields
<1>5. /\ session'.completed = session.completed /\ session'.criticized = session.criticized
      /\ session'.finalized = session.finalized /\ session'.final = session.final
      /\ session'.candidates = session.candidates
      /\ session'.worker = session.worker /\ session'.assessed = session.assessed
  BY <1>3 DEF Fields
<1>6. Sound(session)' /\ Pooled' /\ Held(session)' = Held(session)
  BY <1>4, <1>5, WorkStays
<1>7. Paid(session, ledger)'
  BY <1>1, <1>5, <1>6 DEF Inv, Paid
<1>8. Kept'
  BY <1>1, <1>5, <1>6 DEF Inv, Kept, Held
<1>9. Placed'
  BY <1>1 DEF Placed, At, AfterSave, Working, Closing, Late
<1>10. Accepted(session)'
  BY <1>1, <1>5 DEF Inv, Accepted
<1>11. pc' \notin {"returned", "done"}
  BY <1>1
<1> QED
  BY <1>1, <1>6, <1>7, <1>8, <1>9, <1>10, <1>11, SavedStays DEF Inv

(* The list is built anew only if the critic has not judged it.              *)
LEMMA CriticizeStep ==
  ASSUME SessionAssumption, Inv, Criticize
  PROVE  Inv'
<1>1. /\ pc = "criticize" /\ saved' = saved /\ pool' = pool /\ round' = round
      /\ critic' = critic /\ ledger' = ledger /\ judged' = judged
      /\ pc' = (IF critic /\ ~session.criticized THEN "criticizing" ELSE "finalize")
      /\ session' = [session EXCEPT
           !.candidates = IF critic THEN @ ELSE candidates', !.criticized = @ \/ ~critic]
      /\ session.criticized => candidates' = session.candidates
  BY DEF Criticize, GoTo, AtHand
<1>2. DOMAIN session = Fields
  BY DEF Inv, Sound
<1>3. /\ DOMAIN session' = Fields
      /\ \A f \in Fields \ {"candidates", "criticized"} : session'[f] = session[f]
      /\ session'.candidates = IF critic THEN session.candidates ELSE candidates'
      /\ session'.criticized <=> session.criticized \/ ~critic
  BY <1>1, <1>2 DEF Fields
<1>4. SameWork
  BY <1>1, <1>3 DEF SameWork, Fields
<1>5. /\ session'.completed = session.completed /\ session'.finalized = session.finalized
      /\ session'.final = session.final /\ session'.high = session.high
      /\ session'.worker = session.worker /\ session'.assessed = session.assessed
  BY <1>3 DEF Fields
<1>6. /\ Sound(session)' /\ Pooled' /\ Held(session)' = Held(session)
      /\ Collected(session)' = Collected(session)
  BY <1>4, <1>5, WorkStays
<1>7. Paid(session, ledger)'
  BY <1>1, <1>3, <1>5, <1>6 DEF Inv, Paid
<1>8. Kept'
  BY <1>1, <1>3, <1>5, <1>6 DEF Inv, Kept, Held
<1>9. Placed'
  <2>1. /\ session.worker \in Delegations /\ Collected(session)
        /\ session.high => session.assessed
    BY <1>1 DEF Inv, Placed, At, Working, Closing
  <2>2. pc' = "finalize" => session'.criticized /\ candidates' = session'.candidates
    BY <1>1, <1>3
  <2> QED
    BY <1>1, <1>3, <1>5, <1>6, <2>1, <2>2 DEF Placed, At, Working, Closing, Late
<1>10. Accepted(session)'
  <2>1. CASE session.finalized
    <3>1. session.criticized /\ session'.candidates = session.candidates
      BY <1>1, <1>3, <2>1 DEF Inv, Accepted
    <3> QED
      BY <1>1, <1>3, <1>5, <3>1 DEF Inv, Accepted
  <2>2. CASE ~session.finalized
    BY <1>5, <2>2 DEF Accepted
  <2> QED
    BY <2>1, <2>2
<1>11. pc' \notin {"returned", "done"}
  BY <1>1
<1> QED
  BY <1>1, <1>6, <1>7, <1>8, <1>9, <1>10, <1>11, SavedStays DEF Inv

LEMMA CriticizedStep ==
  ASSUME SessionAssumption, Inv, Criticized
  PROVE  Inv'
<1>1. /\ pc = "criticizing" /\ saved' = saved /\ pool' = pool /\ round' = round
      /\ critic' = critic /\ ledger' = ledger \cup {Phase("critic")} /\ judged' = judged
      /\ pc' = "saving" /\ next' = "finalize" /\ candidates' = candidates
      /\ session' = [session EXCEPT !.candidates = candidates, !.criticized = TRUE]
  BY DEF Criticized, SaveThen
<1>2. DOMAIN session = Fields
  BY DEF Inv, Sound
<1>3. /\ DOMAIN session' = Fields
      /\ \A f \in Fields \ {"candidates", "criticized"} : session'[f] = session[f]
      /\ session'.candidates = candidates /\ session'.criticized
  BY <1>1, <1>2 DEF Fields
<1>4. SameWork
  BY <1>1, <1>3 DEF SameWork, Fields
<1>5. /\ session'.completed = session.completed /\ session'.finalized = session.finalized
      /\ session'.worker = session.worker /\ session'.assessed = session.assessed
      /\ session'.high = session.high
  BY <1>3 DEF Fields
<1>6. /\ Sound(session)' /\ Pooled' /\ Held(session)' = Held(session)
      /\ Collected(session)' = Collected(session)
  BY <1>4, <1>5, WorkStays
<1>7. Paid(session, ledger)'
  BY <1>1, <1>5, <1>6 DEF Inv, Paid
<1>8. Kept'
  BY <1>1, <1>3, <1>5, <1>6 DEF Inv, Kept, Held
<1>9. /\ session.worker \in Delegations /\ Collected(session)
      /\ session.high => session.assessed
      /\ ~session.criticized
  BY <1>1 DEF Inv, Placed, At, Working, Closing
<1>10. Placed'
  BY <1>1, <1>3, <1>5, <1>6, <1>9 DEF Placed, At, AfterSave, Working, Closing, Late
<1>11. Accepted(session)'
  BY <1>5, <1>9 DEF Inv, Accepted
<1>12. pc' \notin {"returned", "done"}
  BY <1>1
<1> QED
  BY <1>1, <1>6, <1>7, <1>8, <1>10, <1>11, <1>12, SavedStays DEF Inv

(* What the Lead accepts is new: no checkpoint speaks of an earlier choice.  *)
LEMMA FinalizedStep ==
  ASSUME SessionAssumption, Inv, Finalized
  PROVE  Inv'
<1> PICK indices \in SUBSET DOMAIN candidates :
      /\ session' = [session EXCEPT !.finalized = TRUE, !.final = indices]
      /\ judged' = Chosen(indices)
  BY DEF Finalized
<1>1. /\ pc = "finalizing" /\ saved' = saved /\ pool' = pool /\ round' = round
      /\ critic' = critic /\ ledger' = ledger \cup {Phase("finalize")}
      /\ pc' = "complete" /\ candidates' = candidates
  BY DEF Finalized, GoTo
<1>2. DOMAIN session = Fields
  BY DEF Inv, Sound
<1>3. /\ DOMAIN session' = Fields
      /\ \A f \in Fields \ {"finalized", "final"} : session'[f] = session[f]
      /\ session'.finalized /\ session'.final = indices
  BY <1>2 DEF Fields
<1>4. SameWork
  BY <1>1, <1>3 DEF SameWork, Fields
<1>5. /\ session'.completed = session.completed /\ session'.criticized = session.criticized
      /\ session'.candidates = session.candidates /\ session'.high = session.high
      /\ session'.worker = session.worker /\ session'.assessed = session.assessed
  BY <1>3 DEF Fields
<1>6. /\ Sound(session)' /\ Pooled' /\ Held(session)' = Held(session)
      /\ Collected(session)' = Collected(session)
  BY <1>4, <1>5, WorkStays
<1>7. Paid(session, ledger)'
  BY <1>1, <1>5, <1>6 DEF Inv, Paid
<1>8. Kept'
  BY <1>1, <1>3, <1>5, <1>6 DEF Inv, Kept, Held
<1>9. /\ session.worker \in Delegations /\ Collected(session)
      /\ session.high => session.assessed
      /\ ~session.finalized /\ session.criticized /\ candidates = session.candidates
  BY <1>1 DEF Inv, Placed, At, Working, Closing, Late
<1>10. Placed'
  BY <1>1, <1>3, <1>5, <1>6, <1>9 DEF Placed, At, Working, Closing, Late
<1>11. Accepted(session)'
  BY <1>3, <1>5, <1>9 DEF Accepted, Chosen
<1>12. Accepted(saved.session)'
  BY <1>1, <1>9 DEF Inv, Kept, Accepted
<1>13. pc' \notin {"returned", "done"}
  BY <1>1
<1> QED
  BY <1>1, <1>6, <1>7, <1>8, <1>10, <1>11, <1>12, <1>13, SavedStays DEF Inv

LEMMA CompleteStep ==
  ASSUME SessionAssumption, Inv, Complete
  PROVE  Inv'
<1>1. /\ pc = "complete" /\ saved' = saved /\ pool' = pool /\ round' = round
      /\ critic' = critic /\ ledger' = ledger /\ judged' = judged
      /\ pc' = "saving" /\ next' = "return" /\ candidates' = candidates
      /\ session' = [session EXCEPT !.completed = TRUE]
  BY DEF Complete, SaveThen
<1>2. DOMAIN session = Fields
  BY DEF Inv, Sound
<1>3. DOMAIN session' = Fields /\ \A f \in Fields \ {"completed"} : session'[f] = session[f]
  BY <1>1, <1>2 DEF Fields
<1>4. SameWork
  BY <1>1, <1>3 DEF SameWork, Fields
<1>5. /\ session'.finalized = session.finalized /\ session'.criticized = session.criticized
      /\ session'.candidates = session.candidates /\ session'.final = session.final
      /\ session'.worker = session.worker /\ session'.assessed = session.assessed
      /\ session'.high = session.high
  BY <1>3 DEF Fields
<1>6. /\ session.worker \in Delegations /\ Collected(session)
      /\ session.high => session.assessed
      /\ session.finalized /\ session.criticized /\ candidates = session.candidates
  BY <1>1 DEF Inv, Placed, At, Working, Closing, Late
<1>7. /\ Sound(session)' /\ Pooled' /\ Held(session)' = Held(session)
      /\ Collected(session)' = Collected(session)
  BY <1>4, <1>6, WorkStays
<1>8. Paid(session, ledger)'
  BY <1>1, <1>5, <1>7 DEF Inv, Paid
<1>9. Kept'
  BY <1>1, <1>5, <1>7 DEF Inv, Kept, Held
<1>10. Placed'
  BY <1>1, <1>5, <1>6, <1>7 DEF Placed, At, AfterSave, Working, Closing, Late
<1>11. Accepted(session)'
  BY <1>1, <1>5 DEF Inv, Accepted
<1>12. pc' \notin {"returned", "done"}
  BY <1>1
<1> QED
  BY <1>1, <1>7, <1>8, <1>9, <1>10, <1>11, <1>12, SavedStays DEF Inv

-------------------------------------------------------------------------------
(* The work of the workers.  A session without delegations holds none.       *)
LEMMA DelegatedStep ==
  ASSUME SessionAssumption, Inv, Delegated
  PROVE  Inv'
<1> PICK d \in Delegations, high \in BOOLEAN :
      session' = [session EXCEPT !.worker = d, !.high = high]
  BY DEF Delegated
<1>1. /\ pc = "delegating" /\ saved' = saved /\ pool' = pool /\ round' = round
      /\ critic' = critic /\ ledger' = ledger \cup {Phase("delegate")} /\ judged' = judged
      /\ pc' = "saving" /\ next' = "assign"
  BY DEF Delegated, SaveThen
<1>2. DOMAIN session = Fields
  BY DEF Inv, Sound
<1>3. /\ DOMAIN session' = Fields
      /\ \A f \in Fields \ {"worker", "high"} : session'[f] = session[f]
      /\ session'.worker = d
  BY <1>2 DEF Fields
<1>4. /\ session'.results = session.results /\ session'.assessed = session.assessed
      /\ session'.requests = session.requests /\ session'.revised = session.revised
      /\ session'.criticized = session.criticized /\ session'.finalized = session.finalized
      /\ session'.candidates = session.candidates /\ session'.final = session.final
      /\ session'.completed = session.completed
  BY <1>3 DEF Fields
<1>5. DOMAIN None = {} /\ session.worker = None
  BY <1>1 DEF None, Inv, Placed
<1>6. session.requests = {} /\ DOMAIN session.revised = {} /\ DOMAIN session.results = {}
  <2>1. session.requests = {} /\ DOMAIN session.revised = {}
    BY <1>5 DEF Inv, Sound, Reworks
  <2>2. ASSUME NEW k \in DOMAIN session.results PROVE FALSE
    <3>1. Filed(session, k)
      BY DEF Inv, Sound
    <3> QED
      BY <1>5, <2>1, <3>1 DEF Filed
  <2> QED
    BY <2>1, <2>2
<1>7. DOMAIN d \subseteq Assignments
  BY DEF Delegations
<1>8. session.assessed \/ session.completed => d = None
  BY <1>5, NoneOrSome DEF Inv, Sound
<1>9. session'.completed =>
        Collected(session)' /\ (session'.high => session'.assessed \/ DOMAIN d = {})
  BY <1>3, <1>4, <1>5, <1>6, <1>8 DEF Collected, AllFirst, Reworks
<1>10. Sound(session)'
  BY <1>3, <1>4, <1>6, <1>7, <1>9 DEF Sound, Reworks
<1>11. Paid(session, ledger)'
  BY <1>1, <1>4 DEF Inv, Paid, Held
<1>12. Kept'
  BY <1>1, <1>4, <1>5 DEF Inv, Kept, Held
<1>13. Pooled'
  BY <1>1, <1>4 DEF Inv, Pooled, Held
<1>14. Placed'
  BY <1>1, <1>3 DEF Placed, At, AfterSave, Working, Closing, Late
<1>15. Accepted(session)'
  BY <1>1, <1>4 DEF Inv, Accepted
<1>16. pc' \notin {"returned", "done"}
  BY <1>1
<1> QED
  BY <1>1, <1>10, <1>11, <1>12, <1>13, <1>14, <1>15, <1>16, SavedStays DEF Inv

(* Before the assessment nothing was asked again.                            *)
LEMMA AssessedStep ==
  ASSUME SessionAssumption, Inv, Assessed
  PROVE  Inv'
<1> PICK requests \in SUBSET DOMAIN session.worker :
      session' = [session EXCEPT !.assessed = TRUE, !.requests = requests]
  BY DEF Assessed
<1>1. /\ pc = "assessing" /\ saved' = saved /\ pool' = pool /\ round' = round
      /\ critic' = critic /\ ledger' = ledger \cup {Phase("assess")} /\ judged' = judged
      /\ pc' = "saving" /\ next' = "rework"
  BY DEF Assessed, SaveThen
<1>2. DOMAIN session = Fields
  BY DEF Inv, Sound
<1>3. /\ DOMAIN session' = Fields
      /\ \A f \in Fields \ {"assessed", "requests"} : session'[f] = session[f]
      /\ session'.assessed /\ session'.requests = requests
  BY <1>2 DEF Fields
<1>4. /\ session'.results = session.results /\ session'.worker = session.worker
      /\ session'.high = session.high /\ session'.revised = session.revised
      /\ session'.criticized = session.criticized /\ session'.finalized = session.finalized
      /\ session'.candidates = session.candidates /\ session'.final = session.final
      /\ session'.completed = session.completed
  BY <1>3 DEF Fields
<1>5. /\ session.worker \in Delegations /\ AllFirst(session) /\ session.high
      /\ ~session.assessed
  BY <1>1 DEF Inv, Placed, At, Working
<1>6. session.requests = {} /\ DOMAIN session.revised = {}
  BY <1>5 DEF Inv, Sound, Reworks
<1>7. AllFirst(session)'
  BY <1>4, <1>5 DEF AllFirst
<1>8. ASSUME NEW k \in DOMAIN session.results PROVE Filed(session, k)'
  <2>1. Filed(session, k)
    BY DEF Inv, Sound
  <2> QED
    BY <1>4, <1>6, <2>1 DEF Filed
<1>9. session.completed => requests = {}
  BY <1>5 DEF Inv, Sound
<1>10. session'.completed => Collected(session)'
  BY <1>3, <1>4, <1>6, <1>7, <1>9 DEF Collected, Reworks
<1>11. Sound(session)'
  BY <1>3, <1>4, <1>5, <1>6, <1>7, <1>8, <1>10 DEF Inv, Sound
<1>12. Paid(session, ledger)'
  BY <1>1, <1>3, <1>4 DEF Inv, Paid, Held
<1>13. Kept'
  BY <1>1, <1>3, <1>4 DEF Inv, Kept, Held
<1>14. Pooled'
  BY <1>1, <1>4 DEF Inv, Pooled, Held
<1>15. Placed'
  BY <1>1, <1>3, <1>4, <1>5, <1>7 DEF Placed, At, AfterSave, Working, Closing, Late
<1>16. Accepted(session)'
  BY <1>1, <1>4 DEF Inv, Accepted
<1>17. pc' \notin {"returned", "done"}
  BY <1>1
<1> QED
  BY <1>1, <1>11, <1>12, <1>13, <1>14, <1>15, <1>16, <1>17, SavedStays DEF Inv

(* A result is recorded once; a first one never after the rework's.          *)
LEMMA CollectStep ==
  ASSUME SessionAssumption, Inv, NEW k \in DOMAIN pool, Collect(k)
  PROVE  Inv'
<1> DEFINE result == [of |-> k, ok |-> pool[k].ok, findings |-> pool[k].findings]
<1>1. /\ pc = "collect" /\ saved' = saved /\ round' = round /\ critic' = critic
      /\ ledger' = ledger /\ judged' = judged /\ pc' = "saving" /\ next' = "collect"
      /\ pool' = Without(pool, k) /\ pool[k].state = "ended"
      /\ session' = [session EXCEPT !.results = With(@, k, result)]
  BY DEF Collect, SaveThen
<1>2. DOMAIN session = Fields
  BY DEF Inv, Sound
<1>3. /\ DOMAIN session' = Fields
      /\ \A f \in Fields \ {"results"} : session'[f] = session[f]
      /\ session'.results = With(session.results, k, result)
  BY <1>1, <1>2 DEF Fields
<1>4. /\ DOMAIN session'.results = DOMAIN session.results \cup {k}
      /\ session'.results[k].of = k
      /\ \A j \in DOMAIN session.results \ {k} : session'.results[j] = session.results[j]
  BY <1>3 DEF With
<1>5. /\ session'.requests = session.requests /\ session'.worker = session.worker
      /\ session'.high = session.high /\ session'.revised = session.revised
      /\ session'.criticized = session.criticized /\ session'.finalized = session.finalized
      /\ session'.candidates = session.candidates /\ session'.final = session.final
      /\ session'.completed = session.completed /\ session'.assessed = session.assessed
  BY <1>3 DEF Fields
<1>6. k \notin Held(session) /\ k \in ledger
  BY <1>1 DEF Inv, Pooled
<1>7. /\ session.worker \in Delegations /\ k \in RoundKeys
      /\ RoundKeys \subseteq DOMAIN pool \cup DOMAIN session.results
      /\ DOMAIN pool \subseteq RoundKeys
      /\ round # 0 => AllFirst(session) /\ session.assessed
  BY <1>1 DEF Inv, Placed, At, Working
<1>8. /\ AllFirst(session) => AllFirst(session)'
      /\ Collected(session) => Collected(session)'
      /\ Held(session)' = Held(session) \cup {k}
  BY <1>4, <1>5 DEF AllFirst, Collected, Held, Reworks
<1>9. RoundKeys' = RoundKeys
  <2>1. FirstKeys' = FirstKeys /\ Revisions' = Revisions
    BY <1>5 DEF FirstKeys, Revisions
  <2> QED
    BY <1>1, <2>1 DEF RoundKeys
<1>10. Filed(session, k)'
  <2>1. CASE round = 0
    <3>1. PICK a \in DOMAIN session.worker : k = First(a)
      BY <1>7, <2>1 DEF RoundKeys, FirstKeys
    <3>2. Rework(a) \notin DOMAIN session.revised
      <4>1. ~AllFirst(session)
        BY <1>6, <3>1 DEF AllFirst, Held
      <4> QED
        BY <4>1 DEF Inv, Sound
    <3> QED
      BY <1>4, <1>5, <3>1, <3>2 DEF Filed
  <2>2. CASE round # 0
    <3>1. PICK a \in Revisions : k = Rework(a)
      BY <1>7, <2>2 DEF RoundKeys
    <3> QED
      BY <1>4, <1>5, <3>1 DEF Filed, Revisions
  <2> QED
    BY <2>1, <2>2
<1>11. ASSUME NEW j \in DOMAIN session.results \ {k} PROVE Filed(session, j)'
  <2>1. Filed(session, j)
    BY DEF Inv, Sound
  <2> QED
    BY <1>4, <1>5, <2>1 DEF Filed
<1>12. Sound(session)'
  BY <1>3, <1>4, <1>5, <1>8, <1>10, <1>11 DEF Inv, Sound, Reworks
<1>13. Paid(session, ledger)'
  BY <1>1, <1>5, <1>6, <1>8 DEF Inv, Paid
<1>14. Kept'
  BY <1>1, <1>5, <1>8 DEF Inv, Kept, Held
<1>15. DOMAIN pool' = DOMAIN pool \ {k} /\ \A j \in DOMAIN pool' : pool'[j] = pool[j]
  BY <1>1 DEF Without
<1>16. Pooled'
  BY <1>1, <1>8, <1>15 DEF Inv, Pooled
<1>17. Placed'
  BY <1>1, <1>4, <1>5, <1>7, <1>8, <1>9, <1>15
     DEF Placed, At, AfterSave, Working, Closing, Late
<1>18. Accepted(session)'
  BY <1>1, <1>5 DEF Inv, Accepted
<1>19. pc' \notin {"returned", "done"}
  BY <1>1
<1> QED
  BY <1>1, <1>12, <1>13, <1>14, <1>16, <1>17, <1>18, <1>19, SavedStays DEF Inv

(* The reworks take the place of the first results.                          *)
LEMMA ReplacedIs ==
  ASSUME Inv, Revisions \subseteq session.requests,
         \A a \in Revisions : Rework(a) \in DOMAIN session.results,
         session'.worker = session.worker, session'.requests = session.requests,
         session'.results = Replaced, DOMAIN session'.revised = Reworks(session)
  PROVE  /\ \A k \in DOMAIN session'.results : Filed(session, k)'
         /\ AllFirst(session) => AllFirst(session)'
         /\ DOMAIN session'.results \subseteq DOMAIN session.results
<1> DEFINE late == {Rework(a) : a \in Revisions}
<1>1. /\ DOMAIN session'.results = DOMAIN session.results \ late
      /\ \A k \in DOMAIN session.results \ late : session'.results[k] =
           IF k.name \in Revisions THEN session.results[Rework(k.name)] ELSE session.results[k]
  BY DEF Replaced
<1>2. \A a, b : /\ First(a) # Rework(b) /\ First(a).name = a
                /\ First(a) = First(b) => a = b
                /\ Rework(a) = Rework(b) => a = b
  <2> TAKE a, b
  <2>1. /\ First(a).name = a /\ First(a).round = 0 /\ Rework(b).name = b /\ Rework(b).round = 1
        /\ First(b).name = b /\ Rework(a).name = a
    BY DEF First, Rework
  <2> QED
    BY <2>1
<1>3. \A k \in DOMAIN session.results : Filed(session, k)
  BY DEF Inv, Sound
<1>4. ASSUME NEW k \in DOMAIN session.results \ late PROVE Filed(session, k)'
  <2>1. ~\E a \in session.requests : k = Rework(a) /\ k \notin DOMAIN session.revised
    BY DEF Revisions
  <2>2. PICK a \in DOMAIN session.worker :
          /\ k = First(a)
          /\ session.results[k].of =
               IF Rework(a) \in DOMAIN session.revised THEN Rework(a) ELSE First(a)
    BY <1>3, <2>1 DEF Filed
  <2>3. k.name = a
    BY <1>2, <2>2
  <2>4. CASE a \in Revisions
    <3>1. Filed(session, Rework(a))
      BY <1>3, <2>4
    <3>2. session.results[Rework(a)].of = Rework(a)
      BY <1>2, <3>1 DEF Filed
    <3>3. Rework(a) \in DOMAIN session'.revised
      BY <2>4 DEF Reworks
    <3> QED
      BY <1>1, <2>2, <2>3, <2>4, <3>2, <3>3 DEF Filed
  <2>5. CASE a \notin Revisions
    <3>1. Rework(a) \in DOMAIN session.revised <=> Rework(a) \in DOMAIN session'.revised
      <4>1. Rework(a) \in DOMAIN session.revised => a \in session.requests
        BY <1>2 DEF Inv, Sound, Reworks
      <4>2. Rework(a) \in Reworks(session) <=> a \in session.requests
        BY <1>2 DEF Reworks
      <4> QED
        BY <2>5, <4>1, <4>2 DEF Revisions
    <3> QED
      BY <1>1, <2>2, <2>3, <2>5, <3>1 DEF Filed
  <2> QED
    BY <2>4, <2>5
<1>5. AllFirst(session) => AllFirst(session)'
  BY <1>1, <1>2 DEF AllFirst
<1> QED
  BY <1>1, <1>4, <1>5

LEMMA SecondRoundDoneStep ==
  ASSUME SessionAssumption, Inv, SecondRoundDone
  PROVE  Inv'
<1> DEFINE late == {Rework(a) : a \in Revisions}
           revised == [k \in DOMAIN session.revised \cup late |->
             IF k \in DOMAIN session.revised THEN session.revised[k] ELSE session.results[k]]
           rounds == IF session.requests = {} THEN session.rounds ELSE 1
<1>1. /\ pc = "collect" /\ pool = None /\ round = 1 /\ saved' = saved /\ round' = round
      /\ critic' = critic /\ ledger' = ledger /\ judged' = judged /\ pool' = pool
      /\ pc' = "criticize" \/ (pc' = "saving" /\ next' = "criticize")
      /\ session' = [session EXCEPT
           !.results = Replaced, !.revised = revised, !.rounds = rounds]
  BY DEF SecondRoundDone, GoTo, SaveThen
<1>2. DOMAIN session = Fields
  BY DEF Inv, Sound
<1> HIDE DEF rounds
<1>3. /\ DOMAIN session' = Fields
      /\ \A f \in Fields \ {"results", "revised", "rounds"} : session'[f] = session[f]
      /\ session'.results = Replaced /\ DOMAIN session'.revised = DOMAIN session.revised \cup late
  BY <1>1, <1>2 DEF Fields
<1>4. /\ session'.requests = session.requests /\ session'.worker = session.worker
      /\ session'.high = session.high
      /\ session'.criticized = session.criticized /\ session'.finalized = session.finalized
      /\ session'.candidates = session.candidates /\ session'.final = session.final
      /\ session'.completed = session.completed /\ session'.assessed = session.assessed
  BY <1>3 DEF Fields
<1>5. /\ session.worker \in Delegations /\ AllFirst(session) /\ session.assessed
      /\ late \subseteq DOMAIN session.results
  <2>1. /\ session.worker \in Delegations /\ RoundKeys \subseteq DOMAIN pool \cup DOMAIN session.results
        /\ round # 0 => AllFirst(session) /\ session.assessed
    BY <1>1 DEF Inv, Placed, At, Working
  <2>2. DOMAIN pool = {} /\ RoundKeys = late
    BY <1>1 DEF RoundKeys, None
  <2> QED
    BY <1>1, <2>1, <2>2
<1>6. DOMAIN session'.revised = Reworks(session)
  <2>1. DOMAIN session.revised \subseteq Reworks(session)
    BY DEF Inv, Sound
  <2> QED
    BY <1>3, <2>1 DEF Revisions, Reworks
<1>7. /\ \A k \in DOMAIN session'.results : Filed(session, k)'
      /\ AllFirst(session)'
      /\ DOMAIN session'.results \subseteq DOMAIN session.results
  BY <1>3, <1>4, <1>5, <1>6, ReplacedIs DEF Revisions
<1>8. Held(session)' = Held(session)
  <2>1. DOMAIN session'.results = DOMAIN session.results \ late
    BY <1>3 DEF Replaced
  <2> QED
    BY <1>3, <1>5, <2>1 DEF Held
<1>9. Collected(session)'
  BY <1>4, <1>6, <1>7 DEF Collected, Reworks
<1>10. Sound(session)'
  BY <1>3, <1>4, <1>6, <1>7, <1>9 DEF Inv, Sound, Reworks
<1>11. Paid(session, ledger)'
  BY <1>1, <1>4, <1>8 DEF Inv, Paid
<1>12. Kept'
  BY <1>1, <1>4, <1>8 DEF Inv, Kept, Held
<1>13. Pooled'
  BY <1>1 DEF Pooled, None
<1>14. Placed'
  BY <1>1, <1>4, <1>5, <1>9 DEF Placed, At, AfterSave, Working, Closing, Late
<1>15. Accepted(session)'
  BY <1>1, <1>4 DEF Inv, Accepted
<1>16. pc' \notin {"returned", "done"}
  BY <1>1
<1> QED
  BY <1>1, <1>10, <1>11, <1>12, <1>13, <1>14, <1>15, <1>16, SavedStays DEF Inv

-------------------------------------------------------------------------------
LEMMA Stutters ==
  ASSUME Inv, UNCHANGED sessionVars
  PROVE  Inv'
<1>1. /\ session' = session /\ saved' = saved /\ ledger' = ledger /\ pool' = pool
      /\ critic' = critic /\ judged' = judged /\ report' = report /\ pc' = pc /\ next' = next
      /\ round' = round /\ candidates' = candidates
  BY DEF sessionVars, run
<1>2. Placed'
  BY <1>1, SameKeys DEF Inv, Placed, At
<1> QED
  BY <1>1, <1>2, GoesOn DEF Inv

LEMMA Invariance == Spec => []Inv
<1>1. ASSUME Inv, [Next]_sessionVars
      PROVE  Inv'
  <2>1. CASE Begin
    BY <1>1, <2>1, BeginStep, SessionAssumption
  <2>2. CASE Save
    BY <1>1, <2>2, SaveStep, SessionAssumption
  <2>3. CASE Scan
    BY <1>1, <2>3, ScanStep, SessionAssumption
  <2>4. CASE Delegate
    BY <1>1, <2>4, DelegateStep, SessionAssumption
  <2>5. CASE Delegated
    BY <1>1, <2>5, DelegatedStep, SessionAssumption
  <2>6. CASE Assign
    BY <1>1, <2>6, AssignStep, SessionAssumption
  <2>7. CASE \E k \in DOMAIN pool : Collect(k)
    BY <1>1, <2>7, CollectStep, SessionAssumption
  <2>8. CASE FirstRoundDone
    BY <1>1, <2>8, FirstRoundDoneStep, SessionAssumption
  <2>9. CASE Assess
    BY <1>1, <2>9, AssessStep, SessionAssumption
  <2>10. CASE Assessed
    BY <1>1, <2>10, AssessedStep, SessionAssumption
  <2>11. CASE Revise
    BY <1>1, <2>11, ReviseStep, SessionAssumption
  <2>12. CASE SecondRoundDone
    BY <1>1, <2>12, SecondRoundDoneStep, SessionAssumption
  <2>13. CASE Criticize
    BY <1>1, <2>13, CriticizeStep, SessionAssumption
  <2>14. CASE Criticized
    BY <1>1, <2>14, CriticizedStep, SessionAssumption
  <2>15. CASE Finalize
    BY <1>1, <2>15, FinalizeStep, SessionAssumption
  <2>16. CASE Finalized
    BY <1>1, <2>16, FinalizedStep, SessionAssumption
  <2>17. CASE Complete
    BY <1>1, <2>17, CompleteStep, SessionAssumption
  <2>18. CASE Return
    BY <1>1, <2>18, ReturnStep, SessionAssumption
  <2>19. CASE NodeCompleted
    BY <1>1, <2>19, NodeCompletedStep, SessionAssumption
  <2>20. CASE Unwound \/ Crash
    BY <1>1, <2>20, RunIsLost, SessionAssumption
  <2>21. CASE \E k \in DOMAIN pool : WorkerStep(k)
    BY <1>1, <2>21, CallStep, SessionAssumption
  <2>22. CASE RunFails
    BY <1>1, <2>22, RunFailsStep, SessionAssumption
  <2>23. CASE UNCHANGED sessionVars
    BY <1>1, <2>23, Stutters
  <2> QED
    BY <1>1, <2>1, <2>2, <2>3, <2>4, <2>5, <2>6, <2>7, <2>8, <2>9, <2>10, <2>11, <2>12,
       <2>13, <2>14, <2>15, <2>16, <2>17, <2>18, <2>19, <2>20, <2>21, <2>22, <2>23
       DEF Next, Main
<1> QED
  BY <1>1, Initially, PTL DEF Spec

-------------------------------------------------------------------------------
(* A review that is run again, after any failures and crashes, calls no      *)
(* model for a step whose result is in the checkpoint.                       *)
THEOREM NothingIsPaidTwice == Spec => []NoRepeatedWork
<1>1. ASSUME Inv
      PROVE  NoRepeatedWork
  <2> DEFINE s == saved.session
  <2>1. ASSUME NEW k \in DOMAIN pool
        PROVE  k \in RunKeys /\ k \notin Held(s) /\ \A p \in Phases : k # Phase(p)
    <3>1. k \in RunKeys /\ k \notin Held(s)
      BY <1>1 DEF Inv, Pooled, Kept
    <3>2. k.name \in Assignments
      BY <3>1 DEF RunKeys
    <3>3. \A p \in Phases : Phase(p).name = p
      BY DEF Phase
    <3> QED
      BY <3>1, <3>2, <3>3, SessionAssumption DEF Assignments
  <2>2. ASSUME NEW p \in Phases
        PROVE  Phase(p) \notin RunKeys /\ \A q \in Phases : Phase(p) = Phase(q) => p = q
    <3>1. \A q \in Phases : Phase(q).name = q
      BY DEF Phase
    <3>2. ASSUME Phase(p) \in RunKeys PROVE FALSE
      <4>1. Phase(p).name \in Assignments
        BY <3>2 DEF RunKeys
      <4> QED
        BY <3>1, <4>1, SessionAssumption DEF Assignments
    <3> QED
      BY <3>1, <3>2
  <2>3. /\ pc = "delegating" => s.worker = None
        /\ pc = "assessing" => ~s.assessed
        /\ pc = "criticizing" => ~s.criticized
        /\ pc = "finalizing" => ~s.finalized
    BY <1>1 DEF Inv, Kept, Placed
  <2> HIDE DEF s
  <2>4. \A x \in InFlight : x \notin DoneIn(s)
    <3> SUFFICES ASSUME NEW x \in InFlight, x \in DoneIn(s)
                 PROVE  FALSE
      OBVIOUS
    <3>1. CASE x \in DOMAIN pool
      BY <2>1, <3>1 DEF DoneIn, Held
    <3>2. CASE x \notin DOMAIN pool
      <4>1. PICK p \in Phases :
              /\ x = Phase(p)
              /\ \/ p = "delegate" /\ pc = "delegating"
                 \/ p = "assess" /\ pc = "assessing"
                 \/ p = "critic" /\ pc = "criticizing"
                 \/ p = "finalize" /\ pc = "finalizing"
        BY <3>2 DEF InFlight
      <4>2. PICK q \in Phases :
              /\ x = Phase(q)
              /\ \/ q = "delegate" /\ s.worker # None
                 \/ q = "assess" /\ s.assessed
                 \/ q = "critic" /\ s.criticized /\ critic
                 \/ q = "finalize" /\ s.finalized
        BY <2>2, <4>1 DEF DoneIn
      <4>3. p = q
        BY <2>2, <4>1, <4>2
      <4> QED
        BY <2>3, <4>1, <4>2, <4>3
    <3> QED
      BY <3>1, <3>2
  <2> QED
    BY <2>4 DEF NoRepeatedWork, s
<1> QED
  BY <1>1, Invariance, PTL

(* The model calls behind every result in the checkpoint are in the ledger   *)
(* saved with it.                                                            *)
THEOREM CostIsKept == Spec => []AccountedFor
<1>1. ASSUME Inv
      PROVE  AccountedFor
  <2>1. Paid(saved.session, saved.ledger)
    BY <1>1 DEF Inv
  <2> QED
    BY <2>1 DEF Paid, Held, AccountedFor, DoneIn
<1> QED
  BY <1>1, Invariance, PTL

(* A completed session has one result of each assignment, the rework's where *)
(* the Lead asked for one, and nothing else.                                 *)
THEOREM WorkIsLatest == Spec => []LatestWork
<1>1. ASSUME Inv
      PROVE  LatestWork
  <2> DEFINE s == saved.session
  <2> SUFFICES ASSUME s.completed
               PROVE  /\ DOMAIN s.results = {First(a) : a \in DOMAIN s.worker}
                      /\ DOMAIN s.revised = Reworks(s)
                      /\ \A a \in DOMAIN s.worker : s.results[First(a)].of =
                           IF a \in s.requests THEN Rework(a) ELSE First(a)
    BY DEF LatestWork, Reworks
  <2>1. AllFirst(s) /\ DOMAIN s.revised = Reworks(s) /\ \A k \in DOMAIN s.results : Filed(s, k)
    BY <1>1 DEF Inv, Sound, Collected
  <2>2. \A a, b : /\ First(a) # Rework(b)
                  /\ First(a) = First(b) => a = b
                  /\ Rework(a) = Rework(b) => a = b
    <3> TAKE a, b
    <3>1. /\ First(a).name = a /\ First(a).round = 0 /\ Rework(b).name = b /\ Rework(b).round = 1
          /\ First(b).name = b /\ Rework(a).name = a
      BY DEF First, Rework
    <3> QED
      BY <3>1
  <2> HIDE DEF s
  <2>3. ASSUME NEW k \in DOMAIN s.results
        PROVE  \E a \in DOMAIN s.worker :
                 k = First(a) /\ s.results[k].of = IF a \in s.requests THEN Rework(a) ELSE First(a)
    <3>1. Filed(s, k)
      BY <2>1
    <3>2. ~\E a \in s.requests : k = Rework(a) /\ k \notin DOMAIN s.revised
      BY <2>1 DEF Reworks
    <3>3. \A a : Rework(a) \in DOMAIN s.revised <=> a \in s.requests
      BY <2>1, <2>2 DEF Reworks
    <3> QED
      BY <3>1, <3>2, <3>3 DEF Filed
  <2>4. DOMAIN s.results = {First(a) : a \in DOMAIN s.worker}
    BY <2>1, <2>3 DEF AllFirst
  <2>5. ASSUME NEW a \in DOMAIN s.worker
        PROVE  s.results[First(a)].of = IF a \in s.requests THEN Rework(a) ELSE First(a)
    <3>1. First(a) \in DOMAIN s.results
      BY <2>1 DEF AllFirst
    <3> QED
      BY <2>2, <2>3, <3>1
  <2> QED
    BY <2>1, <2>4, <2>5
<1> QED
  BY <1>1, Invariance, PTL

(* The review returns what the Lead accepted, whichever run returns it.      *)
THEOREM ReturnsWhatWasJudged == Spec => []ReportIsJudged
<1>1. Inv => ReportIsJudged
  BY DEF Inv, ReportIsJudged
<1> QED
  BY <1>1, Invariance, PTL
===============================================================================
