------------------------------ MODULE AgentSession ------------------------------
(***************************************************************************)
(* The agentic review of one task: AgenticReviewer._agentic, the roles it   *)
(* runs (BoundedRole), the LeadSession it checkpoints after each step and   *)
(* the ExecutionLedger saved with it.  The node that runs the review is     *)
(* tried again after a failure or a crash, by one runner at a time, and     *)
(* each run goes on from the last checkpoint.                               *)
(*                                                                         *)
(* What a model answers is a choice.  A finding is a member of Findings,    *)
(* two equal ones are merged.                                               *)
(***************************************************************************)
EXTENDS Naturals, FiniteSets

CONSTANTS
  Workers,          \* worker roles that are enabled
  Ids,              \* assignment ids the Lead may choose
  Findings,
  Answers,          \* sets of findings a worker may report
  MaxAssignments,   \* delegations are cut to this number (12)
  FirstSteps,       \* model calls of a worker on a task of high risk (3)
  ReworkSteps,      \* ... and in the rework round (2)
  MaxAttempts,      \* runs that fail before the task is given up
  MaxCrashes        \* bound on crashes

Phases == {"delegate", "assess", "critic", "finalize"}

(* The id of a default assignment, "<worker>-default", is its worker's name. *)
Assignments == Ids \cup Workers

ASSUME SessionAssumption ==
  /\ Ids \cap Workers = {} /\ (Ids \cup Workers) \cap Phases = {}
  /\ IsFiniteSet(Findings) /\ Answers \subseteq SUBSET Findings
  /\ MaxAssignments \in Nat /\ FirstSteps \in Nat \ {0} /\ ReworkSteps \in Nat \ {0}
  /\ MaxAttempts \in Nat /\ MaxCrashes \in Nat

(* A step of the session that calls the model: a phase of the Lead, the      *)
(* critic, or the run of an assignment in the first or the rework round.     *)
Phase(p) == [name |-> p, round |-> 0]
First(a) == [name |-> a, round |-> 0]
Rework(a) == [name |-> a, round |-> 1]
RunKeys == [name : Assignments, round : {0, 1}]

VARIABLES
  saved,        \* the checkpoint "agentic-lead-session": session and ledger
  session,      \* the LeadSession of the run under way
  ledger,       \* steps with a model call in its ExecutionLedger
  pc, next,     \* where its main thread is, and where it goes after a save
  pool, round,  \* runs of assignments on the thread pool, and their round
  candidates,   \* findings at hand, in the order of their indices
  judged,       \* what the Lead accepted, of the list it was last shown
  report,       \* what review_with_context returned
  critic,       \* the task has the critic enabled
  failures, crashes

run == <<session, ledger, pc, next, pool, round, candidates>>
sessionVars == <<saved, run, judged, report, critic,
                 failures, crashes>>

None == [x \in {} |-> 0]

New ==
  [scanned |-> FALSE, worker |-> None, high |-> FALSE, results |-> None,
   assessed |-> FALSE, requests |-> {}, revised |-> None, rounds |-> 0,
   criticized |-> FALSE, candidates |-> <<>>, finalized |-> FALSE, final |-> {},
   completed |-> FALSE]

Init ==
  /\ saved = [session |-> New, ledger |-> {}]
  /\ session = New /\ ledger = {} /\ pc = "idle" /\ next = "idle"
  /\ pool = None /\ round = 0 /\ candidates = <<>>
  /\ judged = {} /\ report = {}
  /\ critic \in BOOLEAN
  /\ failures = 0 /\ crashes = 0

With(f, x, v) == [y \in DOMAIN f \cup {x} |-> IF y = x THEN v ELSE f[y]]
Without(f, x) == [y \in DOMAIN f \ {x} |-> f[y]]

-------------------------------------------------------------------------------
(* Mutant of Begin: the checkpoint's ledger is not restored. *)
BeginNewLedger ==
  /\ pc = "idle" /\ failures < MaxAttempts
  /\ session' = saved.session /\ ledger' = {}
  /\ pc' = "scan"
  /\ UNCHANGED <<saved, next, pool, round, candidates, judged, report, critic,
                 failures, crashes>>

(* LeadSession.load. *)
Begin ==
  /\ pc = "idle" /\ failures < MaxAttempts
  /\ session' = saved.session /\ ledger' = saved.ledger
  /\ pc' = "scan"
  /\ UNCHANGED <<saved, next, pool, round, candidates, judged, report, critic,
                 failures, crashes>>

SaveThen(where) == pc' = "saving" /\ next' = where
GoTo(where) == pc' = where /\ UNCHANGED next

(* _save_lead_session: the session and the ledger in one upsert.             *)
Save ==
  /\ pc = "saving"
  /\ saved' = [session |-> session, ledger |-> ledger]
  /\ pc' = next
  /\ UNCHANGED <<session, ledger, next, pool, round, candidates, judged, report, critic,
                 failures, crashes>>

Scan ==
  /\ pc = "scan"
  /\ IF session.scanned
       THEN GoTo("delegate") /\ UNCHANGED session
       ELSE SaveThen("delegate") /\ session' = [session EXCEPT !.scanned = TRUE]
  /\ UNCHANGED <<saved, ledger, pool, round, candidates, judged, report, critic,
                 failures, crashes>>

(* normalize_delegations: a worker without an assignment gets a default one  *)
(* while there is room.  Any worker's assignment may be named like a default; *)
(* where the default itself is added too, two assignments have one id: the    *)
(* answers that lead there are left out.                                     *)
Delegations ==
  {d \in UNION {[S -> Workers] : S \in SUBSET Assignments} :
     /\ IsFiniteSet(DOMAIN d) /\ Cardinality(DOMAIN d) <= MaxAssignments
     /\ (\E w \in Workers : \A a \in DOMAIN d : d[a] # w)
          => Cardinality(DOMAIN d) = MaxAssignments}

Delegate ==
  /\ pc = "delegate"
  /\ GoTo(IF session.worker = None THEN "delegating" ELSE "assign")
  /\ UNCHANGED <<saved, session, ledger, pool, round, candidates, judged, report, critic,
                 failures, crashes>>

Delegated ==
  /\ pc = "delegating"
  /\ \E d \in Delegations, high \in BOOLEAN :
       session' = [session EXCEPT !.worker = d, !.high = high]
  /\ ledger' = ledger \cup {Phase("delegate")}
  /\ SaveThen("assign")
  /\ UNCHANGED <<saved, pool, round, candidates, judged, report, critic,
                 failures, crashes>>

-------------------------------------------------------------------------------
(* Mutant of Pending: what has a result is run again. *)
PendingAll(keys) == keys

(* _run_pending_assignments: those without a result are run in parallel.     *)
Pending(keys) == keys \ DOMAIN session.results

Runs(keys) == [k \in Pending(keys) |-> [state |-> "running", step |-> 1]]

FirstKeys == {First(a) : a \in DOMAIN session.worker}

Assign ==
  /\ pc = "assign"
  /\ pool' = Runs(FirstKeys) /\ round' = 0
  /\ GoTo("collect")
  /\ UNCHANGED <<saved, session, ledger, candidates, judged, report, critic,
                 failures, crashes>>

MaxSteps(k) == IF k.round = 1 THEN ReworkSteps ELSE IF session.high THEN FirstSteps ELSE 1

Ended(ok, findings) == [state |-> "ended", ok |-> ok, findings |-> findings]

(* BoundedRole.run of a worker: one model call and what it asks for.  A tool *)
(* call needs another step; an error of the model client, a budget that is   *)
(* used up or an invalid action fails the run.                               *)
WorkerStep(k) ==
  /\ pool[k].state = "running"
  /\ ledger' = ledger \cup {k}
  /\ \/ /\ pool[k].step < MaxSteps(k)
        /\ pool' = [pool EXCEPT ![k].step = @ + 1]
     \/ \E f \in Answers : pool' = [pool EXCEPT ![k] = Ended(TRUE, f)]
     \/ pool' = [pool EXCEPT ![k] = Ended(FALSE, {})]
  /\ UNCHANGED <<saved, session, pc, next, round, candidates, judged, report, critic,
                 failures, crashes>>

(* Mutant of Collect: the exception of a failed run is not caught. *)
CollectOk(k) ==
  /\ pc = "collect" /\ pool[k].state = "ended" /\ pool[k].ok
  /\ session' = [session EXCEPT !.results =
       With(@, k, [of |-> k, ok |-> TRUE, findings |-> pool[k].findings])]
  /\ pool' = Without(pool, k)
  /\ SaveThen("collect")
  /\ UNCHANGED <<saved, ledger, round, candidates, judged, report, critic, failures, crashes>>

(* as_completed: the result is recorded and the session saved.              *)
Collect(k) ==
  /\ pc = "collect" /\ pool[k].state = "ended"
  /\ session' = [session EXCEPT !.results =
       With(@, k, [of |-> k, ok |-> pool[k].ok, findings |-> pool[k].findings])]
  /\ pool' = Without(pool, k)
  /\ SaveThen("collect")
  /\ UNCHANGED <<saved, ledger, round, candidates, judged, report, critic,
                 failures, crashes>>

(* All runs of the round are in. *)
FirstRoundDone ==
  /\ pc = "collect" /\ pool = None /\ round = 0
  /\ SaveThen("assess")
  /\ UNCHANGED <<saved, session, ledger, pool, round, candidates, judged, report, critic,
                 failures, crashes>>

-------------------------------------------------------------------------------
(* A task of high risk is assessed once, a saved assessment is used again.   *)
Assess ==
  /\ pc = "assess"
  /\ GoTo(IF ~session.high THEN "criticize" ELSE IF session.assessed THEN "rework" ELSE "assessing")
  /\ UNCHANGED <<saved, session, ledger, pool, round, candidates, judged, report, critic,
                 failures, crashes>>

(* normalize_revision_requests: at most one of each assignment. *)
Assessed ==
  /\ pc = "assessing"
  /\ \E requests \in SUBSET DOMAIN session.worker :
       session' = [session EXCEPT !.assessed = TRUE, !.requests = requests]
  /\ ledger' = ledger \cup {Phase("assess")}
  /\ SaveThen("rework")
  /\ UNCHANGED <<saved, pool, round, candidates, judged, report, critic,
                 failures, crashes>>

Revisions == {a \in session.requests : Rework(a) \notin DOMAIN session.revised}

Revise ==
  /\ pc = "rework"
  /\ pool' = Runs({Rework(a) : a \in Revisions}) /\ round' = 1
  /\ GoTo("collect")
  /\ UNCHANGED <<saved, session, ledger, candidates, judged, report, critic,
                 failures, crashes>>

(* Mutant of Replaced: the first result is kept. *)
ReplacedNot ==
  [k \in DOMAIN session.results \ {Rework(a) : a \in Revisions} |-> session.results[k]]

(* A rework's result replaces the first one, whatever it is.                 *)
Replaced ==
  [k \in DOMAIN session.results \ {Rework(a) : a \in Revisions} |->
     IF k.name \in Revisions THEN session.results[Rework(k.name)] ELSE session.results[k]]

SecondRoundDone ==
  /\ pc = "collect" /\ pool = None /\ round = 1
  /\ session' = [session EXCEPT
       !.results = Replaced,
       !.revised = [k \in DOMAIN @ \cup {Rework(a) : a \in Revisions} |->
                      IF k \in DOMAIN @ THEN @[k] ELSE session.results[k]],
       !.rounds = IF session.requests = {} THEN @ ELSE 1]
  /\ IF session.requests = {} THEN GoTo("criticize") ELSE SaveThen("criticize")
  /\ UNCHANGED <<saved, ledger, pool, round, candidates, judged, report, critic,
                 failures, crashes>>

-------------------------------------------------------------------------------
(* _session_candidates: equal findings are merged, those of one severity and *)
(* line come in the order the results were recorded in.                      *)
Found == UNION {session.results[k].findings : k \in DOMAIN session.results}

Orders(S) ==
  {s \in [1..Cardinality(S) -> S] : \A i, j \in DOMAIN s : s[i] = s[j] => i = j}

(* Mutant of AtHand: the list is built anew. *)
AtHandAnew(order) == order

(* After the critic the list it was shown is used again. *)
AtHand(order) == IF session.criticized THEN session.candidates ELSE order

Criticize ==
  /\ pc = "criticize"
  /\ \E order \in Orders(Found) :
       /\ candidates' = AtHand(order)
       /\ session' = [session EXCEPT
            !.candidates = IF critic THEN @ ELSE candidates',
            !.criticized = @ \/ ~critic]
  /\ GoTo(IF critic /\ ~session.criticized THEN "criticizing" ELSE "finalize")
  /\ UNCHANGED <<saved, ledger, pool, round, judged, report, critic,
                 failures, crashes>>

(* _apply_critic adjusts the findings in place and leaves their order.       *)
Criticized ==
  /\ pc = "criticizing"
  /\ session' = [session EXCEPT !.candidates = candidates, !.criticized = TRUE]
  /\ ledger' = ledger \cup {Phase("critic")}
  /\ SaveThen("finalize")
  /\ UNCHANGED <<saved, pool, round, candidates, judged, report, critic,
                 failures, crashes>>

Finalize ==
  /\ pc = "finalize"
  /\ GoTo(IF session.finalized THEN "complete" ELSE "finalizing")
  /\ UNCHANGED <<saved, session, ledger, pool, round, candidates, judged, report, critic,
                 failures, crashes>>

Chosen(indices) == {candidates[i] : i \in indices}

(* The Lead names indices of the list it is shown; without any the critic's  *)
(* verdicts decide.                                                          *)
Finalized ==
  /\ pc = "finalizing"
  /\ \E indices \in SUBSET DOMAIN candidates :
       /\ session' = [session EXCEPT !.finalized = TRUE, !.final = indices]
       /\ judged' = Chosen(indices)
  /\ ledger' = ledger \cup {Phase("finalize")}
  /\ GoTo("complete")
  /\ UNCHANGED <<saved, pool, round, candidates, report, critic, failures, crashes>>

Complete ==
  /\ pc = "complete"
  /\ session' = [session EXCEPT !.completed = TRUE]
  /\ SaveThen("return")
  /\ UNCHANGED <<saved, ledger, pool, round, candidates, judged, report, critic,
                 failures, crashes>>

(* _apply_lead_final, and what review_with_context returns. *)
Return ==
  /\ pc = "return"
  /\ report' = Chosen(session.final)
  /\ GoTo("returned")
  /\ UNCHANGED <<saved, session, ledger, pool, round, candidates, judged, critic, failures, crashes>>

(* The runtime's own checkpoint of the node: it is not entered again.        *)
NodeCompleted ==
  /\ pc = "returned"
  /\ GoTo("done")
  /\ UNCHANGED <<saved, session, ledger, pool, round, candidates, judged, report, critic,
                 failures, crashes>>

-------------------------------------------------------------------------------
Calling == {"delegating", "assessing", "criticizing", "finalizing"}

(* A call of the Lead or the critic fails, or a write to the database; with  *)
(* runs on the pool the failed run waits for them and drops their results.   *)
RunFails ==
  /\ pc \in Calling \cup {"saving", "returned"} /\ failures < MaxAttempts
  /\ GoTo(IF pool = None THEN "idle" ELSE "unwinding")
  /\ failures' = failures + 1
  /\ UNCHANGED <<saved, session, ledger, pool, round, candidates, judged, report, critic, crashes>>

Unwound ==
  /\ pc = "unwinding" /\ \A k \in DOMAIN pool : pool[k].state = "ended"
  /\ pool' = None /\ GoTo("idle")
  /\ UNCHANGED <<saved, session, ledger, round, candidates, judged, report, critic,
                 failures, crashes>>

Crash ==
  /\ pc \notin {"idle", "done"} /\ crashes < MaxCrashes
  /\ pool' = None /\ GoTo("idle")
  /\ crashes' = crashes + 1
  /\ UNCHANGED <<saved, session, ledger, round, candidates, judged, report, critic, failures>>

(* The main thread of a run. *)
Main ==
  \/ Begin \/ Save \/ Scan \/ Delegate \/ Delegated \/ Assign
  \/ (\E k \in DOMAIN pool : Collect(k)) \/ FirstRoundDone
  \/ Assess \/ Assessed \/ Revise \/ SecondRoundDone
  \/ Criticize \/ Criticized \/ Finalize \/ Finalized \/ Complete \/ Return
  \/ NodeCompleted \/ Unwound

Next == Main \/ (\E k \in DOMAIN pool : WorkerStep(k)) \/ RunFails \/ Crash

Spec == Init /\ [][Next]_sessionVars

(* Every model call ends (it has a timeout), the queue runs a task again.    *)
FairSpec ==
  /\ Spec /\ WF_sessionVars(Main)
  /\ \A k \in RunKeys : WF_sessionVars(k \in DOMAIN pool /\ WorkerStep(k))

-------------------------------------------------------------------------------
(* The steps whose result a session holds. *)
DoneIn(s) ==
  {k \in RunKeys : k \in DOMAIN s.results \cup DOMAIN s.revised}
  \cup {Phase(p) : p \in
         {q \in Phases :
            \/ q = "delegate" /\ s.worker # None
            \/ q = "assess" /\ s.assessed
            \/ q = "critic" /\ s.criticized /\ critic
            \/ q = "finalize" /\ s.finalized}}

(* The steps whose model call is under way. *)
InFlight ==
  {k \in DOMAIN pool : pool[k].state = "running"}
  \cup {Phase(p) : p \in
         {q \in Phases :
            \/ q = "delegate" /\ pc = "delegating"
            \/ q = "assess" /\ pc = "assessing"
            \/ q = "critic" /\ pc = "criticizing"
            \/ q = "finalize" /\ pc = "finalizing"}}

(* A step whose result is in the checkpoint is never paid for again, however *)
(* often the review fails or crashes and is run again.                       *)
NoRepeatedWork == InFlight \cap DoneIn(saved.session) = {}

(* The model calls of every result in the checkpoint are in the ledger that  *)
(* was saved with it: the cost a resumed review reports is not too low.      *)
AccountedFor == DoneIn(saved.session) \subseteq saved.ledger

(* A completed session has one result of each assignment and of nothing      *)
(* else: that of the rework if the Lead asked for one, which it did once.    *)
LatestWork ==
  LET s == saved.session IN
  s.completed =>
    /\ DOMAIN s.results = {First(a) : a \in DOMAIN s.worker}
    /\ DOMAIN s.revised = {Rework(a) : a \in s.requests}
    /\ \A a \in DOMAIN s.worker :
         s.results[First(a)].of = IF a \in s.requests THEN Rework(a) ELSE First(a)

(* The review returns the very findings the Lead accepted, although it names *)
(* them by index and another run may be the one that returns them.           *)
ReportIsJudged == pc \in {"returned", "done"} => report = judged

(* A review comes to an end: it is returned, or its attempts are used up.    *)
Settles == <>(pc = "done" \/ (pc = "idle" /\ failures = MaxAttempts))
===============================================================================
