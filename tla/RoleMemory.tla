------------------------------- MODULE RoleMemory -------------------------------
(***************************************************************************)
(* The roles of reviews that share a repository, and the memory between     *)
(* them: the loop of BoundedRole.run, the working memory its observations    *)
(* go to and come back from (MemoryManager over the table agent_memories),   *)
(* and the episode that replaces it when the review is over                 *)
(* (_persist_task_memory).                                                  *)
(*                                                                         *)
(* The Lead and the critic run alone, workers run together on a pool.        *)
(* A task is reviewed by one runner at a time, again after a failure.        *)
(* The identity of a working row is the hash of its text, which names the    *)
(* role, the step and what the tool returned, but not the task.              *)
(***************************************************************************)
EXTENDS ContextWindow, FiniteSets

CONSTANTS
  Tasks, Lead, Critic,
  Runs,              \* the runs of roles, as numbers, with the next two as functions on them
  TaskOf, RoleOf,
  Failed,            \* outcomes of a tool that are errors
  Findings,          \* of a review
  DiffOf,            \* task -> its hunks
  HunkTokens, Risk,  \* the size of a hunk, and role -> its risk score
  MaxSteps,          \* of a worker; the others have one
  TokenBudget,       \* of a role
  CallTokens,        \* run -> what one of its model calls costs
  RecallLimit,       \* the supplier asks for 12 rows
  CandidateLimit,    \* rows read from the store (200)
  MaxTools, MaxMishaps  \* bounds: observations, and faults, timeouts and expired rows

Outputs == DOMAIN RawTokens
Roles == {RoleOf[r] : r \in Runs}

ASSUME MemoryAssumption ==
  /\ Runs \subseteq Nat /\ TaskOf \in [Runs -> Tasks] /\ Failed \subseteq Outputs
  /\ TokenBudget \in Nat \ {0} /\ CallTokens \in [Runs -> Nat]
  /\ DiffOf \in [Tasks -> Seq(DOMAIN HunkTokens)] /\ HunkTokens \in [DOMAIN HunkTokens -> Nat]
  /\ Path \in [DOMAIN HunkTokens -> Nat] /\ Risk \in [Roles -> [DOMAIN HunkTokens -> Nat]]
  /\ {InputLimit, ToolTokens} \subseteq [Roles -> Nat]
  /\ {TaskTexts, Candidates} \subseteq [Roles -> Seq(Nat)]
  /\ {MaxSteps, RecallLimit, CandidateLimit} \subseteq Nat \ {0} /\ MaxTools \in Nat

VARIABLES
  store,      \* agent_memories of scope "working", in the order of creation
  episodes,   \* ... of scope "episodic"
  state,      \* of each task
  found,      \* its findings, and those whose decision is still to be remembered
  at, step,   \* where each role run is
  outputs,    \* its observations: what the tool returned in each step
  prompt,     \* what the model is shown while it is called
  tokens,     \* task, role -> the tokens of its model calls in the ledger
  started,    \* starting_tokens of a run
  spent,      \* history: tokens of the run's own calls
  alone,      \* history: no other run of its role was under way beside it
  observed,   \* history: every observation that was made
  tools, mishaps

memory == <<store, episodes>>
ledger == <<tokens, started, spent, alone>>
bounds == <<tools, mishaps>>
loop == <<at, step, outputs, prompt>>
roleVars == <<memory, state, found, loop, ledger, observed, bounds>>

Nothing == [memory |-> <<>>, recalled |-> <<>>, heard |-> FALSE]

(* Faults are only counted, so that a run has finitely many of them.         *)
Mishap == mishaps < MaxMishaps /\ mishaps' = mishaps + 1

Init ==
  /\ store = <<>> /\ episodes = {}
  /\ state = [t \in Tasks |-> "waiting"]
  /\ found = [t \in Tasks |-> [all |-> {}, left |-> {}]]
  /\ at = [r \in Runs |-> "idle"] /\ step = [r \in Runs |-> 1]
  /\ outputs = [r \in Runs |-> <<>>] /\ prompt = [r \in Runs |-> Nothing]
  /\ tokens = [t \in Tasks |-> [role \in Roles |-> 0]]
  /\ started = [r \in Runs |-> 0] /\ spent = [r \in Runs |-> 0]
  /\ alone = [r \in Runs |-> TRUE]
  /\ observed = {} /\ tools = 0 /\ mishaps = 0

-------------------------------------------------------------------------------
(* The store *)

Row == [task : Tasks, role : Roles, step : Nat, out : Outputs, expired : BOOLEAN]

(* The rows of a sequence that are in a set, in their order. *)
Among(rows, kept) ==
  LET first[n \in 0 .. Len(rows)] ==
        IF n = 0 THEN <<>>
        ELSE IF rows[n] \in kept THEN Append(first[n - 1], rows[n]) ELSE first[n - 1]
  IN first[Len(rows)]

Live(rows) == Among(rows, {row \in Row : ~row.expired})

(* purge_expired_agent_memories. *)
Purged == Live(store)

(* save_agent_memory: a row of the same identity keeps its task.             *)
Saved(task, role, k, out) ==
  LET Same(row) == row.role = role /\ row.step = k /\ row.out = out
  IN IF \E i \in DOMAIN store : Same(store[i])
       THEN [i \in DOMAIN store |->
               IF Same(store[i]) THEN [store[i] EXCEPT !.expired = FALSE] ELSE store[i]]
       ELSE Append(store, [task |-> task, role |-> role, step |-> k, out |-> out,
                           expired |-> FALSE])

(* list_agent_memories: the most important rows, of those the newest.        *)
Listed(rows) ==
  LET newest == Reverse(Live(rows))
      all == Among(newest, {row \in Row : row.out \notin Failed})
             \o Among(newest, {row \in Row : row.out \in Failed})
  IN SubSeq(all, 1, Least(CandidateLimit, Len(all)))

Cut(rows) == SubSeq(rows, 1, Least(RecallLimit, Len(rows)))
Mine(row, role) == role = Lead \/ row.role = role

(* Mutants of Recalled: rows of any task, and the limit before the filter.   *)
RecalledAnyTask(task, role) == Cut(Among(Listed(store), {row \in Row : Mine(row, role)}))
RecalledCutFirst(task, role) ==
  Among(Cut(Among(Listed(store), {row \in Row : row.task = task})),
        {row \in Row : Mine(row, role)})

(* recall_working: the Lead sees every row of its task, the others their own. *)
Recalled(task, role) ==
  Cut(Among(Listed(store), {row \in Row : row.task = task /\ Mine(row, role)}))

(* The time to live of a row runs out. *)
Expire ==
  /\ Mishap
  /\ \E i \in DOMAIN store :
       /\ ~store[i].expired
       /\ store' = [store EXCEPT ![i].expired = TRUE]
  /\ UNCHANGED <<episodes, state, found, loop, ledger, observed, tools>>

-------------------------------------------------------------------------------
(* The review of a task *)

RunsOf(t) == {r \in Runs : TaskOf[r] = t}
Active(r) == at[r] \in {"ready", "calling"}

(* review_with_context, until the roles begin: what the repository's past    *)
(* reviews left is recalled, which purges the store unless it fails.         *)
Begin(t) ==
  /\ state[t] = "waiting"
  /\ state' = [state EXCEPT ![t] = "running"]
  /\ \/ store' = Purged /\ UNCHANGED mishaps
     \/ store' = store /\ Mishap
  /\ \E restored \in {tokens[t], [role \in Roles |-> 0]} : tokens' = [tokens EXCEPT ![t] = restored]
  /\ UNCHANGED <<episodes, found, loop, started, spent, alone, observed, tools>>

(* What may run beside a run.  Runs of the same role are numbered as they start. *)
Together(r, q) == {RoleOf[r], RoleOf[q]} \cap {Lead, Critic} = {}

StartRun(r) ==
  LET others == {q \in RunsOf(TaskOf[r]) \ {r} : Active(q)}
      same == {q \in others : RoleOf[q] = RoleOf[r]}
  IN
  /\ state[TaskOf[r]] = "running" /\ at[r] = "idle"
  /\ \A q \in others : Together(r, q)
  /\ \A q \in RunsOf(TaskOf[r]) : RoleOf[q] = RoleOf[r] /\ q < r => at[q] # "idle"
  /\ at' = [at EXCEPT ![r] = "ready"]
  /\ started' = [started EXCEPT ![r] = tokens[TaskOf[r]][RoleOf[r]]]
  /\ alone' = [q \in Runs |-> alone[q] /\ q \notin same /\ (q = r => same = {})]
  /\ UNCHANGED <<memory, state, found, step, outputs, prompt, tokens, spent, observed, bounds>>

(* Mutant of Used: what earlier runs of the role spent is charged as well. *)
UsedEver(r) == tokens[TaskOf[r]][RoleOf[r]]

Used(r) == tokens[TaskOf[r]][RoleOf[r]] - started[r]

StepsOf(r) == IF RoleOf[r] \in {Lead, Critic} THEN 1 ELSE MaxSteps

(* Either budget is exhausted: the run ends without a result. *)
Refused(r) ==
  /\ at[r] = "ready" /\ Used(r) >= TokenBudget
  /\ at' = [at EXCEPT ![r] = "refused"]
  /\ UNCHANGED <<memory, state, found, step, outputs, prompt, ledger, observed, bounds>>

TimeUp(r) ==
  /\ at[r] = "ready" /\ Mishap
  /\ at' = [at EXCEPT ![r] = "ended"]
  /\ UNCHANGED <<memory, state, found, step, outputs, prompt, ledger, observed, tools>>

(* f, which TLC evaluates once instead of at every use. *)
Table(f) == CHOOSE g \in {f} : g = f

DiffViews ==
  Table([t \in Tasks |->
           Table([role \in Roles |-> DiffView(DiffOf[t], HunkTokens, Risk[role])])])

(* What a run may have observed and what may come back from working memory,  *)
(* and the window on both.                                                   *)
Observations == UNION {[1 .. n -> Outputs] : n \in 0 .. MaxTools}
Recalls == UNION {[1 .. n -> Outputs] : n \in 0 .. RecallLimit}

Windows ==
  Table([t \in Tasks |->
    Table([role \in Roles |->
      Table([seen \in Observations |->
        Table([recalled \in Recalls |->
                 Window(seen, role, DiffViews[t][role], recalled)])])])])

(* What was observed in rows. *)
Outs(rows) == [i \in 1 .. Len(rows) |-> rows[i].out]

(* The prompt of a step: the diff, the window on the run's own observations,  *)
(* and the rows of working memory, of which the task keeps all or none.      *)
Shown(r, rows, heard) ==
  LET window == Windows[TaskOf[r]][RoleOf[r]][outputs[r]][Outs(rows)]
  IN [memory |-> IF window.task.memory = <<>> THEN <<>> ELSE rows,
      recalled |-> Outs(rows), heard |-> heard,
      diff |-> DiffViews[TaskOf[r]][RoleOf[r]], window |-> window]

Prepare(r) ==
  /\ at[r] = "ready" /\ Used(r) < TokenBudget
  /\ at' = [at EXCEPT ![r] = "calling"]
  /\ \/ /\ store' = Purged
        /\ prompt' = [prompt EXCEPT ![r] = Shown(r, Recalled(TaskOf[r], RoleOf[r]), TRUE)]
        /\ UNCHANGED mishaps
     \/ /\ prompt' = [prompt EXCEPT ![r] = Shown(r, <<>>, FALSE)]
        /\ Mishap /\ UNCHANGED store
  /\ UNCHANGED <<episodes, state, found, step, outputs, ledger, observed, tools>>

Charged(r, c) ==
  /\ tokens' = [tokens EXCEPT ![TaskOf[r]][RoleOf[r]] = @ + c]
  /\ spent' = [spent EXCEPT ![r] = @ + c]
  /\ prompt' = [prompt EXCEPT ![r] = Nothing]
  /\ UNCHANGED <<started, alone>>

(* The model's final action, an invalid one, or an error of the call. *)
AnswerEnds(r) ==
  /\ at[r] = "calling"
  /\ \/ /\ Charged(r, CallTokens[r])
        /\ UNCHANGED mishaps
     \/ /\ Charged(r, 0)
        /\ Mishap
  /\ at' = [at EXCEPT ![r] = "ended"]
  /\ UNCHANGED <<memory, state, found, step, outputs, observed, tools>>

(* It asks for a tool: the observation is kept in the run and, if the sink   *)
(* does not fail, in the store.  Lead and critic have no tools: they observe *)
(* an error.                                                                 *)
AnswerTool(r) ==
  LET task == TaskOf[r]
      role == RoleOf[r]
      last == step[r] = StepsOf(r)
  IN
  /\ at[r] = "calling" /\ tools < MaxTools /\ tools' = tools + 1
  /\ Charged(r, CallTokens[r])
  /\ \E out \in IF role \in {Lead, Critic} THEN Failed ELSE Outputs :
       /\ outputs' = [outputs EXCEPT ![r] = Append(@, out)]
       /\ observed' = observed \cup {[task |-> task, role |-> role, step |-> step[r], out |-> out]}
       /\ \/ store' = Saved(task, role, step[r], out) /\ UNCHANGED mishaps
          \/ store' = store /\ Mishap
  /\ at' = [at EXCEPT ![r] = IF last THEN "ended" ELSE "ready"]
  /\ step' = [step EXCEPT ![r] = IF last THEN @ ELSE @ + 1]
  /\ UNCHANGED <<episodes, state, found>>

(* The review fails or its process dies: the runs are gone, the store stays. *)
Fails(t) ==
  LET Anew(f, v) == [r \in Runs |-> IF TaskOf[r] = t THEN v ELSE f[r]] IN
  /\ state[t] \in {"running", "learning", "archived"} /\ Mishap
  /\ state' = [state EXCEPT ![t] = "waiting"]
  /\ at' = Anew(at, "idle") /\ step' = Anew(step, 1) /\ outputs' = Anew(outputs, <<>>)
  /\ prompt' = Anew(prompt, Nothing) /\ spent' = Anew(spent, 0) /\ alone' = Anew(alone, TRUE)
  /\ started' = Anew(started, 0)
  /\ UNCHANGED <<memory, found, tokens, observed, tools>>

-------------------------------------------------------------------------------
(* _persist_task_memory *)

Move(t, to) == state' = [state EXCEPT ![t] = to]
Decision(f) == [kind |-> "decision", of |-> f]
Summary(t) == [kind |-> "summary", of |-> t]

(* The roles are done: their findings, judged by the gate, are to be remembered. *)
Conclude(t) ==
  /\ state[t] = "running" /\ \A r \in RunsOf(t) : at[r] \in {"ended", "refused"}
  /\ found' = [found EXCEPT ![t] = [all |-> Findings, left |-> Findings]]
  /\ Move(t, "learning")
  /\ UNCHANGED <<memory, loop, ledger, observed, bounds>>

RememberFinding(t) ==
  /\ state[t] = "learning"
  /\ \E f \in found[t].left :
       /\ episodes' = episodes \cup {Decision(f)}
       /\ found' = [found EXCEPT ![t].left = @ \ {f}]
  /\ UNCHANGED <<store, state, loop, ledger, observed, bounds>>

(* consolidate_task *)
Archive(t) ==
  /\ state[t] = "learning" /\ found[t].left = {}
  /\ episodes' = episodes \cup {Summary(t)}
  /\ Move(t, "archived")
  /\ UNCHANGED <<store, found, loop, ledger, observed, bounds>>

ForgetWorking(t) ==
  /\ state[t] = "archived"
  /\ store' = Among(store, {row \in Row : row.task # t})
  /\ Move(t, "done")
  /\ UNCHANGED <<episodes, found, loop, ledger, observed, bounds>>

(* Mutant of PersistFails: what fails is left out, and the rest goes on. *)
PersistFailsSkipped(t) ==
  /\ state[t] = "learning" /\ Mishap
  /\ Move(t, "archived")
  /\ UNCHANGED <<memory, found, loop, ledger, observed, tools>>

(* An error of any of these writes ends them, and not the review. *)
PersistFails(t) ==
  /\ state[t] \in {"learning", "archived"} /\ Mishap
  /\ Move(t, "done")
  /\ UNCHANGED <<memory, found, loop, ledger, observed, tools>>

-------------------------------------------------------------------------------
RunStep(r) ==
  StartRun(r) \/ Refused(r) \/ TimeUp(r) \/ Prepare(r) \/ AnswerEnds(r) \/ AnswerTool(r)
Persist(t) ==
  RememberFinding(t) \/ Archive(t) \/ ForgetWorking(t) \/ PersistFails(t)

Next ==
  \/ \E r \in Runs : RunStep(r)
  \/ \E t \in Tasks : Begin(t) \/ Conclude(t) \/ Persist(t) \/ Fails(t)
  \/ Expire

Spec == Init /\ [][Next]_roleVars

-------------------------------------------------------------------------------
(* Properties *)

(* agentic_core.py:603-606: what a prompt shows of working memory was         *)
(* observed in the review of that very task, and for a worker by that role,  *)
(* also when two reviews of a repository observe the same and share a row.   *)
WorkingPrivate ==
  \A r \in Runs : \A i \in DOMAIN prompt[r].memory :
    LET row == prompt[r].memory[i] IN
    /\ [task |-> TaskOf[r], role |-> row.role, step |-> row.step, out |-> row.out] \in observed
    /\ Mine(row, RoleOf[r])

(* memory.py:115-117, "so another role's higher-importance entries cannot    *)
(* hide this role's own observations": as long as the repository has no more *)
(* rows than the store returns, a role that sees its own rows only (all but   *)
(* the Lead) misses none that its limit has room for, unless its task is too *)
(* much with them even when every text in it is cut (context_manager.py:724).*)
NotHidden ==
  [][\A r \in Runs : at[r] = "ready" /\ at'[r] = "calling" /\ prompt'[r].heard =>
       LET own == {i \in DOMAIN store' : store'[i].task = TaskOf[r] /\ store'[i].role = RoleOf[r]}
       IN /\ RoleOf[r] # Lead /\ Len(store') <= CandidateLimit /\ Cardinality(own) <= RecallLimit
          /\ ~Crowded(RoleOf[r], prompt'[r].diff, prompt'[r].recalled)
          => \A i \in own :
               \E j \in DOMAIN prompt'[r].memory : prompt'[r].memory[j] = store'[i]]_roleVars

(* memory.py:198, "Archive a compact task episode, then release transient    *)
(* working memory": a row that has not expired leaves the store only when    *)
(* the summary of its task and the decision on every finding of the review   *)
(* are in it, whatever failed or died in between.                            *)
ReleasedOnceLearned ==
  [][\A i \in DOMAIN store :
       LET row == store[i] IN
       \/ row.expired
       \/ \E j \in DOMAIN store' : store'[j] = row \/ store'[j] = [row EXCEPT !.expired = TRUE]
       \/ /\ Summary(row.task) \in episodes
          /\ \A f \in found[row.task].all : Decision(f) \in episodes]_roleVars

(* context_manager.py:90, "bounded semantic views while retaining auditable   *)
(* compression facts": the view of the diff has the riskiest hunk and counts *)
(* the ones it leaves out; old observations are left out before new ones, no *)
(* more of them than the trace of the prompt counts, and all only when the   *)
(* last is too much beside the task; the task stays whole unless the prompt  *)
(* is too large; every candidate stays, in its place, however little is left *)
(* of the rest (context_manager.py:628, 728), and every row of memory, unless *)
(* the task is too much with them even when every text in it is cut.         *)
HonestView ==
  \A r \in Runs : at[r] = "calling" =>
    LET diff == prompt[r].diff
        window == prompt[r].window
        role == RoleOf[r]
        hunks == DiffOf[TaskOf[r]]
        n == Len(outputs[r])
        m == Len(window.shown)
        recalled == prompt[r].recalled
        whole == Task(role, diff, recalled)
        compact == Compact(outputs[r], ObservationBudget(role))
        Over(size) == TaskSize(whole) + size > Room(role)
    IN
    /\ hunks # <<>> =>
         /\ diff.shown # <<>>
         /\ \A i \in DOMAIN hunks :
              Risk[role][hunks[i]] <= Risk[role][hunks[diff.shown[1].hunk]]
    /\ diff.omitted = Len(hunks) - Len(diff.shown)
    /\ window.shown = [i \in 1 .. m |-> n - m + i] /\ n - m <= window.counted
    /\ n > 0 /\ m = 0 => Over(Last(compact.sizes))
    /\ window.task = whole \/ Over(Total(EntrySizes(Entries(compact))))
    /\ Len(window.task.candidates) = Len(whole.candidates)
    /\ Len(window.task.memory) = Len(recalled) \/ Crowded(role, diff, recalled)

(* bounded_role.py:48-62: a run that shares its role with no other run under *)
(* way is refused for its tokens only when it spent the budget itself, and   *)
(* no run overspends it by more than one call.                               *)
BudgetIsItsOwn ==
  \A r \in Runs :
    /\ at[r] = "refused" /\ alone[r] => spent[r] >= TokenBudget
    /\ spent[r] < TokenBudget + CallTokens[r]
===============================================================================
