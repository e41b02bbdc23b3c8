------------------------------- MODULE Evolution -------------------------------
(***************************************************************************)
(* Replay-gated evolution: evolution.py (the prompt "llm-review"),         *)
(* skill_evolution.py (one Agent Skill of one tenant), their rows in the   *)
(* TaskStore, and the reload the HTTP handlers of api.py do after a        *)
(* change.  The threads are those of one server.                           *)
(*                                                                         *)
(* A proposal holds its engine's lock from the read of the baseline to the *)
(* record of the run, a rollback of the prompt takes it too; a rollback of *)
(* a Skill does not, nor does the shadow proposal of                       *)
(* RootCauseEvolutionGenerator.  What the replay in between decides is     *)
(* ReplayGate's.  Any request may fail where it stands, by an error of the *)
(* database or of what is built on reload.                                 *)
(***************************************************************************)
EXTENDS ReplayGate

CONSTANTS
  Threads, NoThread,
  Cases,         \* failure cases [id, category, rule], the id is their age
  Drafts,        \* contents an operator or the generator may propose
  Seeded,        \* the evaluation cases the first start of the server saves
  Offered,       \* bound on the cases that are added
  MaxRequests,   \* bound on proposals and rollbacks
  MaxFaults      \* bound on failed requests and crashes, together

Engines == {"prompt", "skill"}
Idle == [at |-> "idle"]

ASSUME EvolutionAssumption ==
  /\ NoThread \notin Threads
  /\ Cases \subseteq [id : Nat, category : Categories, rule : Rules]
  /\ \A c, d \in Cases : c.id = d.id => c = d
  /\ Drafts \subseteq SUBSET Constraints /\ Seeded \in Seq(EvaluationCases)
  /\ MaxRequests \in Nat /\ MaxFaults \in Nat

VARIABLES
  rows,        \* skill_versions, skill_artifact_versions: the index is the version
  runs,        \* evolution_runs, skill_evolution_runs
  filed,       \* failure cases up to this id have been filed
  resolved,    \* those with resolved = 1
  cases,       \* evaluation_cases, by id
  generator,   \* candidate_generator is configured
  lock,        \* holder of each engine's _lock
  job,         \* the request each thread serves
  reloader,    \* holder of _reload_lock
  loaded,      \* version of the prompt the reviewer in use was built with
  unserved,    \* history: a request failed between its change and its reload, and none has read since
  requests, faults, crashes

feedback == <<filed, resolved>>
table == <<rows, runs, feedback, cases, generator>>
served == <<loaded, unserved>>
bounds == <<requests, faults, crashes>>
evolutionVars == <<table, lock, job, reloader, served, bounds>>

Live(e) == {v \in DOMAIN rows[e] : rows[e][v].active}

Newest(versions) ==
  IF versions = {} THEN 0 ELSE CHOOSE v \in versions : \A w \in versions : w <= v

(* get_active_skill_version, get_active_skill_artifact: 0 when there is none. *)
ActiveOf(e) == Newest(Live(e))

Content(e, v) == IF v = 0 THEN {} ELSE rows[e][v].content

Init ==
  /\ rows = [e \in Engines |-> <<>>] /\ runs = [e \in Engines |-> {}]
  /\ filed = 0 /\ resolved = {} /\ cases = Seeded /\ generator \in BOOLEAN
  /\ lock = [e \in Engines |-> NoThread]
  /\ job = [t \in Threads |-> Idle]
  /\ reloader = NoThread /\ loaded = 0 /\ unserved = FALSE
  /\ requests = 0 /\ faults = 0 /\ crashes = 0

-------------------------------------------------------------------------------
(* list_failure_cases with unresolved = TRUE. *)
Open == {c \in Cases : c.id <= filed} \ resolved

(* What the prompt learns from a case: the directive of its category and, of *)
(* a missed issue, that of its rule.                                         *)
Directives(c) ==
  {c.category} \cup (IF c.category = "missed_issue" THEN {c.rule} ELSE {})

(* A Skill gains the block of a missed issue and loses that of a false       *)
(* positive.  Cases are applied from the newest to the oldest, each to what  *)
(* the newer ones of its rule have left, and only one that changes the       *)
(* content counts as used.                                                   *)
Supported == {c \in Open : c.category \in {"missed_issue", "false_positive"}}
Gains(c) == c.category = "missed_issue"
Oldest(c) == \A d \in Supported : d.rule = c.rule => c.id <= d.id

NextNewer(c, d) ==
  /\ d.rule = c.rule /\ d.id > c.id
  /\ \A o \in Supported : o.rule = c.rule /\ o.id > c.id => d.id <= o.id

LearnedContent(base) ==
  {r \in Constraints :
     \/ \E c \in Supported : c.rule = r /\ Oldest(c) /\ Gains(c)
     \/ r \in base /\ \A c \in Supported : c.rule # r}

UsedCases(base) ==
  {c \in Supported :
     \/ \E d \in Supported : NextNewer(c, d) /\ Gains(d) # Gains(c)
     \/ /\ \A d \in Supported : ~NextNewer(c, d)
        /\ (c.rule \in base) # Gains(c)}

Waiting(e, policy, content, used) ==
  [at |-> "waiting", engine |-> e, policy |-> policy, content |-> content, used |-> used]

Begins(t, j) ==
  /\ job[t] = Idle /\ requests < MaxRequests
  /\ job' = [job EXCEPT ![t] = j]
  /\ requests' = requests + 1

(* POST /v1/evolution/propose and /v1/skill-evolution/propose. *)
Propose(t, e) ==
  /\ \E d \in Drafts : Begins(t, Waiting(e, "auto", d, {}))
  /\ UNCHANGED <<table, lock, reloader, served, faults, crashes>>

(* POST /v1/evolution/auto without a generator: the base is read before the  *)
(* lock is taken, and every case that was listed counts as used.             *)
AutoPrompt(t) ==
  /\ ~generator
  /\ LET base == Content("prompt", ActiveOf("prompt"))
         next == base \cup UNION {Directives(c) : c \in Open}
     IN /\ next # base
        /\ Begins(t, Waiting("prompt", "auto", next, Open))
  /\ UNCHANGED <<table, lock, reloader, served, faults, crashes>>

(* ... and with one: the model returns any candidate, and _propose is called *)
(* without the lock, never to activate.                                      *)
ShadowPrompt(t) ==
  /\ generator /\ Open # {}
  /\ \E d \in Drafts :
       /\ d # Content("prompt", ActiveOf("prompt"))
       /\ Begins(t, Waiting("prompt", "shadow", d, {}))
  /\ UNCHANGED <<table, lock, reloader, served, faults, crashes>>

(* POST /v1/skill-evolution/auto: the base is read before the lock is taken. *)
AutoSkill(t) ==
  /\ LET base == Content("skill", ActiveOf("skill"))
     IN /\ UsedCases(base) # {}
        /\ Begins(t, Waiting("skill", "auto", LearnedContent(base), UsedCases(base)))
  /\ UNCHANGED <<table, lock, reloader, served, faults, crashes>>

-------------------------------------------------------------------------------
Locks(t) == job[t].policy = "auto"

Data == [validation |-> Listed(cases, "validation"), holdout |-> Listed(cases, "holdout")]

(* _propose reads the baseline and the data sets, once for all replays; a    *)
(* candidate that equals the baseline is deferred.                           *)
ReadBaseline(t) ==
  /\ job[t].at = "waiting"
  /\ LET e == job[t].engine
         base == ActiveOf(e)
         same == base # 0 /\ Content(e, base) = job[t].content
     IN /\ Locks(t) => lock[e] = NoThread
        /\ lock' = IF Locks(t) /\ ~same THEN [lock EXCEPT ![e] = t] ELSE lock
        /\ job' = [job EXCEPT ![t] =
             IF same THEN Idle
             ELSE [at |-> "replay", engine |-> e, policy |-> @.policy, content |-> @.content,
                   used |-> @.used, baseline |-> base, data |-> Data]]
  /\ UNCHANGED <<table, reloader, served, bounds>>

(* What the gates may say: a replay can fail, a call of the model has errors.*)
Decisions(t) ==
  {Decision(job[t].engine, job[t].policy, job[t].content,
            Content(job[t].engine, job[t].baseline), job[t].data, failed) : failed \in BOOLEAN}

Replay(t) ==
  /\ job[t].at = "replay"
  /\ \E d \in Decisions(t) :
       job' = [job EXCEPT ![t] =
         [at |-> "decided", engine |-> @.engine, policy |-> @.policy, content |-> @.content,
          used |-> @.used, baseline |-> @.baseline, data |-> @.data, decision |-> d]]
  /\ UNCHANGED <<table, lock, reloader, served, bounds>>

(* Mutant of Deactivated: only the newest row is cleared. *)
DeactivatedNewest(e) ==
  [v \in DOMAIN rows[e] |->
     IF v = Len(rows[e]) THEN [rows[e][v] EXCEPT !.active = FALSE] ELSE rows[e][v]]

(* UPDATE ... SET active = 0: all rows of the name. *)
Deactivated(e) == [v \in DOMAIN rows[e] |-> [rows[e][v] EXCEPT !.active = FALSE]]

(* save_skill_version, save_skill_artifact: one transaction. *)
Save(t) ==
  /\ job[t].at = "decided"
  /\ LET e == job[t].engine
         active == job[t].decision = "activated"
         row == [content |-> job[t].content, active |-> active, parent |-> ActiveOf(e)]
     IN /\ rows' = [rows EXCEPT ![e] =
             Append(IF active THEN Deactivated(e) ELSE @, row)]
        /\ job' = [job EXCEPT ![t] =
             [at |-> "saved", engine |-> e, policy |-> @.policy, used |-> @.used,
              baseline |-> @.baseline, data |-> @.data, decision |-> @.decision,
              version |-> Len(rows[e]) + 1]]
  /\ UNCHANGED <<runs, feedback, cases, generator, lock, reloader, served, bounds>>

Unlocked(t) ==
  IF Locks(t) THEN [lock EXCEPT ![job[t].engine] = NoThread] ELSE lock

(* save_evolution_run, save_skill_evolution_run; the lock is released.       *)
Record(t) ==
  /\ job[t].at = "saved"
  /\ LET j == job[t]
     IN /\ runs' = [runs EXCEPT ![j.engine] = @ \cup
             {[version |-> j.version, baseline |-> j.baseline, decision |-> j.decision,
               used |-> j.used, data |-> j.data]}]
        /\ lock' = Unlocked(t)
        /\ job' = [job EXCEPT ![t] =
             IF j.decision = "activated" THEN [at |-> "resolve", used |-> j.used] ELSE Idle]
  /\ UNCHANGED <<rows, feedback, cases, generator, reloader, served, bounds>>

(* Mutant of Resolve: every open case is resolved. *)
ResolveAll(t) ==
  /\ job[t].at = "resolve"
  /\ resolved' = resolved \cup Open
  /\ job' = [job EXCEPT ![t] = [at |-> "reload"]]
  /\ UNCHANGED <<rows, runs, filed, cases, generator, lock, reloader, served, bounds>>

(* resolve_failure_cases after an activation. *)
Resolve(t) ==
  /\ job[t].at = "resolve"
  /\ resolved' = resolved \cup job[t].used
  /\ job' = [job EXCEPT ![t] = [at |-> "reload"]]
  /\ UNCHANGED <<rows, runs, filed, cases, generator, lock, reloader, served, bounds>>

-------------------------------------------------------------------------------
Activated(e, v) == [Deactivated(e) EXCEPT ![v].active = TRUE]

Activate(t, e, v) ==
  /\ Begins(t, [at |-> "reload"])
  /\ rows' = [rows EXCEPT ![e] = Activated(e, v)]
  /\ UNCHANGED <<runs, feedback, cases, generator, lock, reloader, served, faults, crashes>>

(* Mutant of RollbackPrompt: without the lock. *)
RollbackPromptUnlocked(t, v) == Activate(t, "prompt", v)

(* EvolutionEngine.rollback: any row, under the lock. *)
RollbackPrompt(t, v) ==
  /\ lock["prompt"] = NoThread
  /\ Activate(t, "prompt", v)

(* SkillEvolutionEngine.rollback: the active row or one whose run passed.    *)
RollbackSkill(t, v) ==
  /\ \/ rows["skill"][v].active
     \/ \E r \in runs["skill"] : r.version = v /\ r.decision = "activated"
  /\ Activate(t, "skill", v)

(* Mutant of ReloadRead: reloads do not exclude each other. *)
ReloadReadUnlocked(t) ==
  /\ job[t].at = "reload"
  /\ job' = [job EXCEPT ![t] = [at |-> "swap", prompt |-> ActiveOf("prompt")]]
  /\ reloader' = t /\ unserved' = FALSE
  /\ UNCHANGED <<table, lock, loaded, bounds>>

(* reload_skills reads the active prompt, builds reviewer and harness ...    *)
ReloadRead(t) ==
  /\ job[t].at = "reload" /\ reloader = NoThread
  /\ job' = [job EXCEPT ![t] = [at |-> "swap", prompt |-> ActiveOf("prompt")]]
  /\ reloader' = t /\ unserved' = FALSE
  /\ UNCHANGED <<table, lock, loaded, bounds>>

(* ... and swaps them. *)
ReloadSwap(t) ==
  /\ job[t].at = "swap"
  /\ loaded' = job[t].prompt
  /\ reloader' = NoThread
  /\ job' = [job EXCEPT ![t] = Idle]
  /\ UNCHANGED <<table, lock, unserved, bounds>>

(* What has changed the store and has still to be reloaded. *)
Reloads(j) ==
  \/ j.at \in {"resolve", "reload", "swap"}
  \/ j.at = "saved" /\ j.decision = "activated"

(* A request raises, at a read, a write, or as it builds the new reviewer: it *)
(* is answered 500 and does no more; its locks are released.                  *)
RequestFails(t) ==
  /\ job[t] # Idle /\ faults + crashes < MaxFaults
  /\ lock' = [e \in Engines |-> IF lock[e] = t THEN NoThread ELSE lock[e]]
  /\ reloader' = IF reloader = t THEN NoThread ELSE reloader
  /\ unserved' = (unserved \/ Reloads(job[t]))
  /\ job' = [job EXCEPT ![t] = Idle]
  /\ faults' = faults + 1
  /\ UNCHANGED <<table, loaded, requests, crashes>>

(* record_feedback and failed reviews file cases at any time. *)
File ==
  /\ \E c \in Cases : c.id = filed + 1
  /\ filed' = filed + 1
  /\ UNCHANGED <<rows, runs, resolved, cases, generator, lock, job, reloader, served, bounds>>

(* POST /v1/evaluation/cases: a name is taken once and for all. *)
AddCase ==
  /\ \E name \in Addable \cap Offered :
       /\ \A i \in DOMAIN cases : cases[i] # name
       /\ cases' = Append(cases, name)
  /\ UNCHANGED <<rows, runs, feedback, generator, lock, job, reloader, served, bounds>>

(* The server dies; the next one builds its reviewer from the active prompt. *)
Crash ==
  /\ faults + crashes < MaxFaults
  /\ lock' = [e \in Engines |-> NoThread]
  /\ job' = [t \in Threads |-> Idle]
  /\ reloader' = NoThread
  /\ loaded' = ActiveOf("prompt") /\ unserved' = FALSE
  /\ crashes' = crashes + 1
  /\ UNCHANGED <<table, requests, faults>>

Serve(t) ==
  ReadBaseline(t) \/ Replay(t) \/ Save(t) \/ Record(t) \/ Resolve(t)
  \/ ReloadRead(t) \/ ReloadSwap(t)

Next ==
  \/ \E t \in Threads :
       \/ \E e \in Engines : Propose(t, e)
       \/ AutoPrompt(t) \/ ShadowPrompt(t) \/ AutoSkill(t)
       \/ Serve(t) \/ RequestFails(t)
       \/ \E v \in DOMAIN rows["prompt"] : RollbackPrompt(t, v)
       \/ \E v \in DOMAIN rows["skill"] : RollbackSkill(t, v)
  \/ File
  \/ AddCase
  \/ Crash

Spec == Init /\ [][Next]_evolutionVars

(* A request that is served goes on: a replay ends, each call of the model   *)
(* has a timeout.                                                            *)
FairSpec == Spec /\ \A t \in Threads : WF_evolutionVars(Serve(t))

-------------------------------------------------------------------------------
Policies == {"auto", "shadow"}
Verdicts == {"deferred", "rejected", "activated", "shadow_ready"}
Row == [content : SUBSET Constraints, active : BOOLEAN, parent : Nat]
Run ==
  [version : Nat, baseline : Nat, decision : Verdicts, used : SUBSET Cases, data : DataSets]
WaitingJob ==
  [at : {"waiting"}, engine : Engines, policy : Policies,
   content : SUBSET Constraints, used : SUBSET Cases]
ReplayJob ==
  [at : {"replay"}, engine : Engines, policy : Policies,
   content : SUBSET Constraints, used : SUBSET Cases, baseline : Nat, data : DataSets]
DecidedJob ==
  [at : {"decided"}, engine : Engines, policy : Policies, baseline : Nat,
   content : SUBSET Constraints, used : SUBSET Cases, data : DataSets,
   decision : Verdicts]
SavedJob ==
  [at : {"saved"}, engine : Engines, policy : Policies, baseline : Nat,
   used : SUBSET Cases, data : DataSets, decision : Verdicts, version : Nat]
ResolveJob == [at : {"resolve"}, used : SUBSET Cases]
SwapJob == [at : {"swap"}, prompt : Nat]
Job ==
  {Idle} \cup WaitingJob \cup ReplayJob \cup DecidedJob \cup SavedJob
  \cup ResolveJob \cup [at : {"reload"}] \cup SwapJob

TypeOK ==
  /\ rows \in [Engines -> Seq(Row)]
  /\ runs \in [Engines -> SUBSET Run]
  /\ filed \in Nat /\ resolved \subseteq Cases /\ cases \in Seq(EvaluationCases) /\ generator \in BOOLEAN
  /\ lock \in [Engines -> Threads \cup {NoThread}]
  /\ job \in [Threads -> Job]
  /\ reloader \in Threads \cup {NoThread} /\ loaded \in Nat /\ unserved \in BOOLEAN
  /\ requests \in Nat /\ faults \in Nat /\ crashes \in Nat

(* At most one version of a prompt or of a Skill is active, although a Skill *)
(* can be rolled back while a proposal is under way.                         *)
OneActive ==
  \A e \in Engines : \A v, w \in DOMAIN rows[e] :
    rows[e][v].active /\ rows[e][w].active => v = w

(* A prompt that a proposal activated was compared with the very version it  *)
(* replaced: nothing changed the active version while it was replayed.       *)
GatedAgainstParent ==
  \A r \in runs["prompt"] :
    r.decision = "activated" => rows["prompt"][r.version].parent = r.baseline

(* A candidate is activated on its merits: on the cases it was replayed on   *)
(* it finds no fewer of the issues they expect than the version it was       *)
(* compared with, and something on the validation set is better.  Except     *)
(* where a case expects a rule without a CWE: the gate takes any finding     *)
(* near it for that rule, and lets a worse candidate pass.                   *)
ActivatedOnMerit ==
  \A e \in Engines : \A r \in runs[e] :
    r.decision = "activated" /\ Identified(r.data) =>
      Merited(Merits[rows[e][r.version].content], Merits[Content(e, r.baseline)], r.data)

(* A failure case is resolved only by a proposal that used it and whose      *)
(* candidate passed the gates and became active.  That candidate has learned *)
(* from the case, or it is a Skill, and the same proposal also used an older *)
(* case of the rule that says the contrary: cases are applied from the       *)
(* newest to the oldest, and so the older one has the last word.             *)
Learned(c, e, content) ==
  IF e = "prompt" THEN Directives(c) \subseteq content ELSE (c.rule \in content) = Gains(c)

Overridden(c, used) ==
  \E d \in used : d.rule = c.rule /\ d.id < c.id /\ Gains(d) # Gains(c)

ResolvedLearned ==
  \A c \in resolved : \E e \in Engines : \E r \in runs[e] :
    /\ r.decision = "activated" /\ c \in r.used
    /\ \/ Learned(c, e, rows[e][r.version].content)
       \/ e = "skill" /\ Overridden(c, r.used)

(* A request failed after it changed the store, and no other is on its way   *)
(* to reload: nothing reloads the prompt then.                               *)
Unserved == unserved /\ \A t \in Threads : ~Reloads(job[t])

(* The prompt in use is the active one again after every activation, unless  *)
(* the request failed between its activation and the end of its reload, and  *)
(* no other reloads.                                                         *)
ServedIsActive ==
  (loaded # ActiveOf("prompt")) ~> (loaded = ActiveOf("prompt") \/ Unserved)
===============================================================================
