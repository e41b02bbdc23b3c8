----------------------------- MODULE EvolutionProofs -----------------------------
(***************************************************************************)
(* Proofs about Evolution, for any number of threads, requests, failure    *)
(* cases and faults: the types, that at most one version is active, that an *)
(* activated prompt was compared with the version it replaced, that a       *)
(* resolved case was learned by a version that was activated, and that what *)
(* was activated is what has passed the gates.                              *)
(***************************************************************************)
EXTENDS Evolution, WellFoundedInduction, TLAPS

(* The data sets of a proposal are cases of their split. *)
LEMMA DataType == Data \in DataSets
<1>1. \A split : Listed(cases, split) \in SUBSET OfSplit[split]
  BY DEF Listed
<1> QED
  BY <1>1 DEF Data, DataSets

(* What a decision is, and who may activate. *)
LEMMA DecisionType ==
  ASSUME NEW t \in Threads, NEW d \in Decisions(t)
  PROVE  d \in Verdicts /\ (d = "activated" => job[t].policy = "auto")
BY DEF Decisions, Decision, Verdicts

(* What a job says of itself, by where it is. *)
LEMMA JobFields ==
  ASSUME NEW j \in Job
  PROVE  /\ j.at = "waiting" => j \in WaitingJob
         /\ j.at = "replay" => j \in ReplayJob
         /\ j.at = "decided" => j \in DecidedJob
         /\ j.at = "saved" => j \in SavedJob
         /\ j.at = "resolve" => j \in ResolveJob
         /\ j.at = "swap" => j \in SwapJob
BY DEF Job, Idle, WaitingJob, ReplayJob, DecidedJob, SavedJob, ResolveJob, SwapJob

(* The step of a new request: its job is typed. *)
LEMMA BeginsType ==
  ASSUME TypeOK, NEW t \in Threads, NEW j \in Job, Begins(t, j)
  PROVE  job' \in [Threads -> Job] /\ requests' \in Nat
BY DEF TypeOK, Begins

LEMMA WaitingType ==
  ASSUME NEW e \in Engines, NEW p \in Policies,
         NEW content \in SUBSET Constraints, NEW used \in SUBSET Cases
  PROVE  Waiting(e, p, content, used) \in Job
BY DEF Waiting, Job, WaitingJob

(* What is active is a number of a version, 0 when there is none. *)
LEMMA ActiveType ==
  ASSUME TypeOK, NEW e \in Engines, OneActive
  PROVE  /\ ActiveOf(e) \in Nat
         /\ ActiveOf(e) # 0 => ActiveOf(e) \in DOMAIN rows[e]
<1>1. CASE Live(e) = {}
  BY <1>1 DEF ActiveOf, Newest
<1>2. CASE Live(e) # {}
  <2>1. PICK v \in Live(e) : TRUE
    BY <1>2
  <2>2. rows[e] \in Seq(Row) /\ Live(e) \subseteq DOMAIN rows[e] /\ DOMAIN rows[e] \subseteq Nat
    BY DEF TypeOK, Live
  <2>3. \A w \in Live(e) : w <= v
    <3>1. \A w \in Live(e) : w = v
      BY <2>1 DEF OneActive, Live
    <3> QED
      BY <2>1, <2>2, <3>1
  <2>4. (CHOOSE x \in Live(e) : \A w \in Live(e) : w <= x) \in Live(e)
    BY <2>1, <2>3
  <2> QED
    BY <1>2, <2>2, <2>4 DEF ActiveOf, Newest
<1> QED
  BY <1>1, <1>2

LEMMA ContentType ==
  ASSUME TypeOK, OneActive, NEW e \in Engines
  PROVE  Content(e, ActiveOf(e)) \in SUBSET Constraints
<1>1. CASE ActiveOf(e) = 0
  BY <1>1 DEF Content
<1>2. CASE ActiveOf(e) # 0
  <2>1. ActiveOf(e) \in DOMAIN rows[e] /\ rows[e] \in Seq(Row)
    BY <1>2, ActiveType DEF TypeOK
  <2> HIDE DEF TypeOK
  <2>2. rows[e][ActiveOf(e)] \in Row
    BY <2>1
  <2> QED
    BY <1>2, <2>2 DEF Content, Row
<1> QED
  BY <1>1, <1>2

(* Clearing the flag of the versions keeps everything else of them. *)
LEMMA DeactivatedRows ==
  ASSUME TypeOK, NEW e \in Engines
  PROVE  /\ Deactivated(e) \in Seq(Row)
         /\ Len(Deactivated(e)) = Len(rows[e])
         /\ DOMAIN Deactivated(e) = DOMAIN rows[e]
         /\ \A v \in DOMAIN rows[e] :
              /\ ~Deactivated(e)[v].active
              /\ Deactivated(e)[v].parent = rows[e][v].parent
              /\ Deactivated(e)[v].content = rows[e][v].content
<1>1. rows[e] \in Seq(Row) /\ DOMAIN rows[e] = 1 .. Len(rows[e]) /\ Len(rows[e]) \in Nat
  BY DEF TypeOK
<1>2. \A v \in DOMAIN rows[e] :
        /\ rows[e][v] \in Row
        /\ Deactivated(e)[v] = [rows[e][v] EXCEPT !.active = FALSE]
  BY <1>1 DEF Deactivated
<1>3. \A v \in DOMAIN rows[e] :
        /\ Deactivated(e)[v] \in Row
        /\ ~Deactivated(e)[v].active
        /\ Deactivated(e)[v].parent = rows[e][v].parent
        /\ Deactivated(e)[v].content = rows[e][v].content
  BY <1>2 DEF Row
<1>4. DOMAIN Deactivated(e) = 1 .. Len(rows[e])
  BY <1>1 DEF Deactivated
<1>5. Deactivated(e) \in [1 .. Len(rows[e]) -> Row]
  BY <1>1, <1>3, <1>4 DEF Deactivated
<1>6. Deactivated(e) \in Seq(Row) /\ Len(Deactivated(e)) = Len(rows[e])
  BY <1>1, <1>5
<1> QED
  BY <1>1, <1>3, <1>4, <1>6

OthersKept(e) == \A f \in Engines : f # e => rows'[f] = rows[f]

(* The earlier versions of e after a write that clears them, or does not. *)
VersionsKept(e, clears) ==
  \A v \in DOMAIN rows[e] :
    /\ rows'[e][v].parent = rows[e][v].parent
    /\ rows'[e][v].content = rows[e][v].content
    /\ clears => ~rows'[e][v].active
    /\ ~clears => (rows'[e][v].active <=> rows[e][v].active)

(* One transaction appends the candidate, with the version it replaces as its *)
(* parent, and clears the others only if it is activated.                     *)
LEMMA SaveEffect ==
  ASSUME TypeOK, OneActive, NEW t \in Threads, Save(t),
         NEW e \in Engines, e = job[t].engine,
         NEW n \in Nat, n = Len(rows[e]) + 1
  PROVE  /\ n \notin DOMAIN rows[e]
         /\ rows' \in [Engines -> Seq(Row)]
         /\ DOMAIN rows'[e] = DOMAIN rows[e] \cup {n}
         /\ rows'[e][n].parent = ActiveOf(e)
         /\ rows'[e][n].content = job[t].content
         /\ rows'[e][n].active = (job[t].decision = "activated")
         /\ OthersKept(e)
         /\ VersionsKept(e, job[t].decision = "activated")
<1> DEFINE active == job[t].decision = "activated"
           row == [content |-> job[t].content, active |-> active, parent |-> ActiveOf(e)]
           old == IF active THEN Deactivated(e) ELSE rows[e]
<1>1. e \in Engines /\ job[t].content \in SUBSET Constraints
  BY JobFields DEF TypeOK, Save, DecidedJob
<1>2. rows[e] \in Seq(Row) /\ DOMAIN rows[e] = 1 .. Len(rows[e]) /\ Len(rows[e]) \in Nat
  BY <1>1 DEF TypeOK
<1>3. ActiveOf(e) \in Nat
  BY <1>1, ActiveType
<1>4. rows' = [rows EXCEPT ![e] = Append(old, row)]
  BY DEF Save
<1>5. /\ row \in Row /\ row.parent = ActiveOf(e) /\ row.active = active
      /\ row.content = job[t].content
  BY <1>1, <1>3 DEF Row
<1>6. /\ old \in Seq(Row) /\ Len(old) = Len(rows[e])
      /\ \A v \in DOMAIN rows[e] :
           /\ old[v].parent = rows[e][v].parent
           /\ old[v].content = rows[e][v].content
           /\ active => ~old[v].active
           /\ ~active => (old[v].active <=> rows[e][v].active)
  BY <1>1, <1>2, DeactivatedRows
<1> HIDE DEF row, old, active
<1>7. /\ Append(old, row) \in Seq(Row)
      /\ DOMAIN Append(old, row) = 1 .. n
      /\ Append(old, row)[n] = row
      /\ \A v \in 1 .. Len(rows[e]) : Append(old, row)[v] = old[v]
  BY <1>2, <1>5, <1>6
<1>8. rows'[e] = Append(old, row) /\ rows' \in [Engines -> Seq(Row)]
      /\ OthersKept(e)
  BY <1>1, <1>4, <1>7 DEF TypeOK, OthersKept
<1>9. 1 .. n = DOMAIN rows[e] \cup {n} /\ n \in Nat /\ n \notin DOMAIN rows[e]
  BY <1>2
<1> QED
  BY <1>1, <1>2, <1>5, <1>6, <1>7, <1>8, <1>9, SMTT(30) DEF active, VersionsKept

(* One transaction clears the others and sets one. *)
LEMMA ActivateEffect ==
  ASSUME TypeOK, NEW t \in Threads, NEW e \in Engines, NEW v \in DOMAIN rows[e],
         Activate(t, e, v)
  PROVE  /\ rows' \in [Engines -> Seq(Row)]
         /\ OthersKept(e)
         /\ DOMAIN rows'[e] = DOMAIN rows[e]
         /\ \A w \in DOMAIN rows[e] :
              /\ rows'[e][w].parent = rows[e][w].parent
              /\ rows'[e][w].content = rows[e][w].content
              /\ rows'[e][w].active <=> w = v
<1>1. /\ Deactivated(e) \in Seq(Row) /\ DOMAIN Deactivated(e) = DOMAIN rows[e]
      /\ Len(Deactivated(e)) = Len(rows[e])
      /\ \A w \in DOMAIN rows[e] :
           /\ ~Deactivated(e)[w].active
           /\ Deactivated(e)[w].parent = rows[e][w].parent
           /\ Deactivated(e)[w].content = rows[e][w].content
  BY DeactivatedRows
<1> DEFINE d == Deactivated(e)
           r == [d[v] EXCEPT !.active = TRUE]
<1>2. Activated(e, v) = [d EXCEPT ![v] = r]
  BY DEF Activated
<1>3. d[v] \in Row
  BY <1>1
<1>4. r \in Row /\ r.active /\ r.parent = d[v].parent /\ r.content = d[v].content
  BY <1>3 DEF Row
<1> HIDE DEF d, r
<1>5. /\ [d EXCEPT ![v] = r] \in Seq(Row)
      /\ DOMAIN [d EXCEPT ![v] = r] = DOMAIN rows[e]
      /\ \A w \in DOMAIN rows[e] :
           [d EXCEPT ![v] = r][w] = IF w = v THEN r ELSE d[w]
  BY <1>1, <1>4 DEF d
<1>6. rows' = [rows EXCEPT ![e] = Activated(e, v)]
  BY DEF Activate
<1>7. rows'[e] = [d EXCEPT ![v] = r] /\ rows' \in [Engines -> Seq(Row)]
      /\ OthersKept(e)
  BY <1>2, <1>5, <1>6 DEF TypeOK, OthersKept
<1> QED
  BY <1>1, <1>4, <1>5, <1>7 DEF d

(* The types and OneActive are inductive together: the active version is a    *)
(* number only because there are not two.                                     *)
Typed == TypeOK /\ OneActive

LEMMA TypedInit == Init => Typed
<1> SUFFICES ASSUME Init PROVE Typed
  OBVIOUS
<1>1. rows \in [Engines -> Seq(Row)] /\ \A e \in Engines : DOMAIN rows[e] = {}
  BY DEF Init
<1>2. job \in [Threads -> Job] /\ lock \in [Engines -> Threads \cup {NoThread}]
      /\ runs \in [Engines -> SUBSET Run]
  BY DEF Init, Job
<1> QED
  BY <1>1, <1>2, EvolutionAssumption DEF Init, Typed, TypeOK, OneActive

(* OneActive is kept by whatever leaves the versions alone. *)
LEMMA SameRows ==
  ASSUME Typed, UNCHANGED rows
  PROVE  OneActive' /\ rows' \in [Engines -> Seq(Row)]
BY DEF Typed, OneActive, TypeOK

LEMMA RequestTyped ==
  ASSUME Typed, NEW t \in Threads,
         (\E e \in Engines : Propose(t, e)) \/ AutoPrompt(t) \/ ShadowPrompt(t) \/ AutoSkill(t)
  PROVE  Typed'
<1> USE DEF Typed
<1>1. UNCHANGED <<rows, runs, filed, resolved, cases, generator, lock, reloader, loaded, unserved, faults, crashes>>
  BY DEF Propose, AutoPrompt, ShadowPrompt, AutoSkill, table, feedback, served
<1>2. Open \subseteq Cases /\ Supported \subseteq Cases
  BY DEF Open, Supported
<1>3. \A c \in Cases : c.category \in Categories /\ c.rule \in Rules
  BY EvolutionAssumption
<1>4. "prompt" \in Engines /\ "skill" \in Engines /\ "auto" \in Policies /\ "shadow" \in Policies
  BY DEF Engines, Policies
<1>5. \E j \in Job : Begins(t, j)
  <2>1. ASSUME NEW e \in Engines, Propose(t, e) PROVE \E j \in Job : Begins(t, j)
    BY <1>4, <2>1, WaitingType, EvolutionAssumption DEF Propose
  <2>2. CASE AutoPrompt(t)
    <3> DEFINE base == Content("prompt", ActiveOf("prompt"))
               next == base \cup UNION {Directives(c) : c \in Open}
    <3>1. base \in SUBSET Constraints
      BY <1>4, ContentType
    <3>2. \A c \in Cases : Directives(c) \subseteq Constraints
      BY <1>3 DEF Directives, Constraints
    <3>3. next \in SUBSET Constraints
      BY <1>2, <3>1, <3>2
    <3>4. Begins(t, Waiting("prompt", "auto", next, Open))
      BY <2>2 DEF AutoPrompt
    <3> QED
      BY <1>2, <1>4, <3>3, <3>4, WaitingType
  <2>3. CASE ShadowPrompt(t)
    BY <1>4, <2>3, WaitingType, EvolutionAssumption DEF ShadowPrompt
  <2>4. CASE AutoSkill(t)
    <3> DEFINE base == Content("skill", ActiveOf("skill"))
    <3>1. LearnedContent(base) \in SUBSET Constraints /\ UsedCases(base) \in SUBSET Cases
      BY <1>2 DEF LearnedContent, UsedCases
    <3>2. Begins(t, Waiting("skill", "auto", LearnedContent(base), UsedCases(base)))
      BY <2>4 DEF AutoSkill
    <3> QED
      BY <1>4, <3>1, <3>2, WaitingType
  <2> QED
    BY <2>1, <2>2, <2>3, <2>4
<1>6. job' \in [Threads -> Job] /\ requests' \in Nat
  BY <1>5, BeginsType
<1> QED
  BY <1>1, <1>6, SameRows DEF TypeOK, served

LEMMA ReadBaselineTyped == ASSUME Typed, NEW t \in Threads, ReadBaseline(t) PROVE Typed'
<1> USE DEF Typed
<1> DEFINE e == job[t].engine
<1>1. job[t] \in WaitingJob
  BY JobFields DEF TypeOK, ReadBaseline
<1>2. e \in Engines /\ ActiveOf(e) \in Nat
  BY <1>1, ActiveType DEF WaitingJob
<1> DEFINE next == [at |-> "replay", engine |-> e, policy |-> job[t].policy,
                    content |-> job[t].content, used |-> job[t].used,
                    baseline |-> ActiveOf(e), data |-> Data]
<1>3. next \in Job /\ Idle \in Job
  BY <1>1, <1>2, DataType DEF WaitingJob, ReplayJob, Job
<1>4. job' = [job EXCEPT ![t] = next] \/ job' = [job EXCEPT ![t] = Idle]
  BY DEF ReadBaseline, TypeOK
<1>5. lock' = [lock EXCEPT ![e] = t] \/ lock' = lock
  BY DEF ReadBaseline
<1> HIDE DEF next
<1>6. job' \in [Threads -> Job] /\ lock' \in [Engines -> Threads \cup {NoThread}]
  BY <1>2, <1>3, <1>4, <1>5 DEF TypeOK
<1> QED
  BY <1>6, SameRows DEF ReadBaseline, TypeOK, table, feedback, bounds, served

LEMMA ReplayTyped == ASSUME Typed, NEW t \in Threads, Replay(t) PROVE Typed'
<1> USE DEF Typed
<1>1. job[t] \in ReplayJob
  BY JobFields DEF TypeOK, Replay
<1>2. PICK d \in Decisions(t) : job' = [job EXCEPT ![t] =
         [at |-> "decided", engine |-> job[t].engine, policy |-> job[t].policy,
          content |-> job[t].content, used |-> job[t].used,
          baseline |-> job[t].baseline, data |-> job[t].data, decision |-> d]]
  BY DEF Replay, TypeOK
<1>3. d \in Verdicts
  BY DecisionType
<1> DEFINE next == [at |-> "decided", engine |-> job[t].engine, policy |-> job[t].policy,
                    content |-> job[t].content, used |-> job[t].used,
                    baseline |-> job[t].baseline, data |-> job[t].data, decision |-> d]
<1>4. next \in Job
  BY <1>1, <1>3 DEF ReplayJob, DecidedJob, Job
<1> HIDE DEF next
<1>5. job' \in [Threads -> Job]
  BY <1>2, <1>4 DEF TypeOK, next
<1> QED
  BY <1>5, SameRows DEF Replay, TypeOK, table, feedback, bounds, served

LEMMA SaveTyped == ASSUME Typed, NEW t \in Threads, Save(t) PROVE Typed'
<1> USE DEF Typed
<1>0. PICK e \in Engines, n \in Nat : e = job[t].engine /\ n = Len(rows[e]) + 1
  BY JobFields DEF TypeOK, Save, DecidedJob
<1> DEFINE next == [at |-> "saved", engine |-> e, policy |-> job[t].policy,
                    used |-> job[t].used, baseline |-> job[t].baseline,
                    data |-> job[t].data, decision |-> job[t].decision, version |-> n]
<1>1. job[t] \in DecidedJob
  BY JobFields DEF TypeOK, Save
<1>2. TypeOK /\ OneActive /\ Save(t) /\ e = job[t].engine /\ n = Len(rows[e]) + 1
  BY <1>0
<1> HIDE DEF Typed
<1>7. rows' \in [Engines -> Seq(Row)] /\ OthersKept(e)
  BY <1>2, SaveEffect
<1>8. DOMAIN rows'[e] = DOMAIN rows[e] \cup {n} /\ n \notin DOMAIN rows[e]
  BY <1>2, SaveEffect
<1>9. rows'[e][n].active = (job[t].decision = "activated")
  BY <1>2, SaveEffect
<1>10. VersionsKept(e, job[t].decision = "activated")
  BY <1>2, SaveEffect
<1>3. next \in Job
  BY <1>1, <1>2 DEF DecidedJob, SavedJob, Job
<1>4. job' = [job EXCEPT ![t] = next]
  BY <1>0 DEF Save, TypeOK
<1> HIDE DEF next
<1>5. job' \in [Threads -> Job]
  BY <1>2, <1>3, <1>4 DEF TypeOK
<1>6. OneActive'
  <2> SUFFICES ASSUME NEW f \in Engines, NEW v \in DOMAIN rows'[f], NEW w \in DOMAIN rows'[f],
                      rows'[f][v].active, rows'[f][w].active
               PROVE  v = w
    BY DEF OneActive
  <2>1. CASE f # e
    BY <1>2, <1>7, <2>1 DEF OneActive, OthersKept
  <2>2. CASE f = e
    BY <1>2, <1>8, <1>9, <1>10, <2>2 DEF OneActive, VersionsKept
  <2> QED
    BY <2>1, <2>2
<1> QED
  BY <1>2, <1>5, <1>6, <1>7 DEF Save, Typed, TypeOK, feedback, bounds, served

LEMMA UnlockedType ==
  ASSUME TypeOK, NEW t \in Threads, job[t] \in SavedJob
  PROVE  Unlocked(t) \in [Engines -> Threads \cup {NoThread}]
BY DEF TypeOK, Unlocked, SavedJob

LEMMA RecordTyped == ASSUME Typed, NEW t \in Threads, Record(t) PROVE Typed'
<1> USE DEF Typed
<1>1. job[t] \in SavedJob
  BY JobFields DEF TypeOK, Record
<1> DEFINE j == job[t]
           r == [version |-> j.version, baseline |-> j.baseline, decision |-> j.decision,
                 used |-> j.used, data |-> j.data]
           next == IF j.decision = "activated" THEN [at |-> "resolve", used |-> j.used] ELSE Idle
<1>2. next \in Job /\ r \in Run /\ j.engine \in Engines
  BY <1>1 DEF SavedJob, ResolveJob, Job, Run
<1>3. job' = [job EXCEPT ![t] = next] /\ runs' = [runs EXCEPT ![j.engine] = @ \cup {r}]
  BY DEF Record
<1> HIDE DEF next, r
<1>4. job' \in [Threads -> Job] /\ runs' \in [Engines -> SUBSET Run]
  BY <1>2, <1>3 DEF TypeOK
<1>5. lock' \in [Engines -> Threads \cup {NoThread}]
  BY <1>1, UnlockedType DEF Record
<1> QED
  BY <1>4, <1>5, SameRows DEF Record, TypeOK, feedback, bounds, served

LEMMA RequestFailsTyped == ASSUME Typed, NEW t \in Threads, RequestFails(t) PROVE Typed'
<1> USE DEF Typed
<1>1. unserved' \in BOOLEAN
  BY DEF RequestFails, Reloads, TypeOK
<1>2. lock' \in [Engines -> Threads \cup {NoThread}] /\ reloader' \in Threads \cup {NoThread}
  BY DEF RequestFails, TypeOK
<1>3. job' \in [Threads -> Job]
  BY DEF RequestFails, TypeOK, Job
<1>4. UNCHANGED <<rows, runs, filed, resolved, cases, generator, loaded, requests, crashes>>
      /\ faults' \in Nat
  BY DEF RequestFails, TypeOK, table, feedback
<1> QED
  BY <1>1, <1>2, <1>3, <1>4, SameRows DEF TypeOK

LEMMA RestTyped ==
  ASSUME Typed, NEW t \in Threads, Resolve(t) \/ ReloadRead(t) \/ ReloadSwap(t)
  PROVE  Typed'
<1> USE DEF Typed
<1>1. CASE Resolve(t)
  <2>1. job[t] \in ResolveJob
    BY <1>1, JobFields DEF TypeOK, Resolve
  <2>2. resolved' \subseteq Cases
    BY <1>1, <2>1 DEF Resolve, ResolveJob, TypeOK
  <2>3. job' \in [Threads -> Job]
    BY <1>1 DEF Resolve, TypeOK, Job
  <2> QED
    BY <1>1, <2>2, <2>3, SameRows DEF Resolve, TypeOK, bounds, served
<1>2. CASE ReloadRead(t)
  <2>1. [at |-> "swap", prompt |-> ActiveOf("prompt")] \in Job
    BY ActiveType DEF SwapJob, Job, Engines
  <2>2. job' \in [Threads -> Job]
    BY <1>2, <2>1 DEF ReloadRead, TypeOK
  <2> QED
    BY <1>2, <2>2, SameRows DEF ReloadRead, TypeOK, table, feedback, bounds, served
<1>3. CASE ReloadSwap(t)
  <2>1. job[t] \in SwapJob
    BY <1>3, JobFields DEF TypeOK, ReloadSwap
  <2>2. loaded' \in Nat /\ job' \in [Threads -> Job]
    BY <1>3, <2>1 DEF ReloadSwap, TypeOK, SwapJob, Job
  <2> QED
    BY <1>3, <2>2, SameRows DEF ReloadSwap, TypeOK, table, feedback, bounds, served
<1> QED
  BY <1>1, <1>2, <1>3

LEMMA ActivateTyped ==
  ASSUME Typed, NEW t \in Threads, NEW e \in Engines, NEW v \in DOMAIN rows[e],
         Activate(t, e, v)
  PROVE  Typed'
<1> USE DEF Typed
<1>1. job' \in [Threads -> Job] /\ requests' \in Nat
  <2>1. [at |-> "reload"] \in Job
    BY DEF Job
  <2> QED
    BY <2>1, BeginsType DEF Activate
<1>2. /\ rows' \in [Engines -> Seq(Row)]
      /\ OthersKept(e)
      /\ DOMAIN rows'[e] = DOMAIN rows[e]
      /\ \A w \in DOMAIN rows[e] : rows'[e][w].active <=> w = v
  BY ActivateEffect
<1>3. OneActive'
  BY <1>2 DEF OneActive, OthersKept
<1>4. UNCHANGED <<runs, filed, resolved, cases, generator, lock, reloader, loaded, unserved, faults, crashes>>
  BY DEF Activate, feedback, served
<1>5. TypeOK'
  BY <1>1, <1>2, <1>4 DEF TypeOK
<1> QED
  BY <1>3, <1>5

LEMMA CrashTyped == ASSUME Typed, File \/ AddCase \/ Crash PROVE Typed'
<1> USE DEF Typed
<1>1. CASE File
  <2>1. filed' \in Nat
    BY <1>1 DEF File, TypeOK
  <2> QED
    BY <1>1, <2>1, SameRows DEF File, TypeOK, bounds, served
<1>2. CASE Crash
  <2>1. loaded' \in Nat /\ unserved' \in BOOLEAN
    BY <1>2, ActiveType DEF Crash, Engines
  <2>2. job' \in [Threads -> Job] /\ lock' \in [Engines -> Threads \cup {NoThread}]
    BY <1>2 DEF Crash, Job
  <2> QED
    BY <1>2, <2>1, <2>2, SameRows DEF Crash, TypeOK, table, feedback
<1>3. CASE AddCase
  <2>1. cases' \in Seq(EvaluationCases)
    BY <1>3 DEF AddCase, Addable, TypeOK
  <2> QED
    BY <1>3, <2>1, SameRows DEF AddCase, TypeOK, feedback, bounds, served
<1> QED
  BY <1>1, <1>2, <1>3

LEMMA TypedStep == ASSUME Typed, [Next]_evolutionVars PROVE Typed'
<1>1. ASSUME NEW t \in Threads, NEW v \in DOMAIN rows["prompt"], RollbackPrompt(t, v)
      PROVE  Typed'
  BY <1>1, ActivateTyped DEF RollbackPrompt, Engines
<1>2. ASSUME NEW t \in Threads, NEW v \in DOMAIN rows["skill"], RollbackSkill(t, v)
      PROVE  Typed'
  BY <1>2, ActivateTyped DEF RollbackSkill, Engines
<1>3. ASSUME UNCHANGED evolutionVars PROVE Typed'
  BY <1>3, SameRows DEF Typed, TypeOK, evolutionVars, table, feedback, bounds, served
<1> QED
  BY <1>1, <1>2, <1>3, RequestTyped, ReadBaselineTyped, ReplayTyped, SaveTyped, RecordTyped,
     RequestFailsTyped, RestTyped, CrashTyped DEF Next, Serve

(* Every reachable state is typed. *)
THEOREM TypeCorrect == Spec => []TypeOK
<1>1. Init => Typed
  BY TypedInit
<1>2. Typed /\ [Next]_evolutionVars => Typed'
  BY TypedStep
<1>3. Typed => TypeOK
  BY DEF Typed
<1> QED
  BY <1>1, <1>2, <1>3, PTL DEF Spec

(* At most one version of a prompt or of a Skill is active, for any number of *)
(* threads, although a Skill is rolled back without its engine's lock.        *)
THEOREM OneVersionActive == Spec => []OneActive
<1>1. Init => Typed
  BY TypedInit
<1>2. Typed /\ [Next]_evolutionVars => Typed'
  BY TypedStep
<1>3. Typed => OneActive
  BY DEF Typed
<1> QED
  BY <1>1, <1>2, <1>3, PTL DEF Spec

-------------------------------------------------------------------------------
(* Why a prompt is compared with the version it replaces: a proposal that may *)
(* activate holds the lock from the read of the baseline to the record, one   *)
(* that does not hold it never activates, and a rollback waits for the lock.  *)
Holds(t) ==
  /\ job[t].at \in {"replay", "decided", "saved"}
  /\ job[t].engine = "prompt" /\ job[t].policy = "auto"

Judged(t) ==
  /\ job[t].at \in {"decided", "saved"} /\ job[t].engine = "prompt"
  /\ job[t].decision = "activated"

Gate ==
  /\ \A t \in Threads : Holds(t) => lock["prompt"] = t
  /\ \A t \in Threads : Judged(t) => job[t].policy = "auto"
  /\ \A t \in Threads :
       Holds(t) /\ job[t].at # "saved" => job[t].baseline = ActiveOf("prompt")
  /\ \A t \in Threads : job[t].at = "saved" /\ job[t].engine = "prompt" =>
       /\ job[t].version \in DOMAIN rows["prompt"]
       /\ Judged(t) => rows["prompt"][job[t].version].parent = job[t].baseline
  /\ \A r \in runs["prompt"] : r.version \in DOMAIN rows["prompt"]
  /\ GatedAgainstParent

LEMMA GateInit == Init => Gate
BY DEF Init, Gate, Holds, Judged, Idle, GatedAgainstParent, Engines

(* Steps that touch neither the versions nor the runs nor the lock. *)
LEMMA QuietStep ==
  ASSUME Gate, UNCHANGED <<rows, runs, lock>>,
         \A t \in Threads :
           job'[t] = job[t] \/ job'[t].at \notin {"replay", "decided", "saved"}
  PROVE  Gate'
BY DEF Gate, Holds, Judged, GatedAgainstParent, ActiveOf, Live

(* The other jobs of a step that changes one. *)
LEMMA OneJob ==
  ASSUME Typed, NEW t \in Threads, NEW j, job' = [job EXCEPT ![t] = j]
  PROVE  job'[t] = j /\ \A s \in Threads : s # t => job'[s] = job[s]
BY DEF Typed, TypeOK

LEMMA GateRequest ==
  ASSUME Typed, Gate, NEW t \in Threads,
         (\E e \in Engines : Propose(t, e)) \/ AutoPrompt(t) \/ ShadowPrompt(t) \/ AutoSkill(t)
  PROVE  Gate'
<1>1. UNCHANGED <<rows, runs, lock>>
  BY DEF Propose, AutoPrompt, ShadowPrompt, AutoSkill, table
<1>2. \E e, p, c, u : Begins(t, Waiting(e, p, c, u))
  BY DEF Propose, AutoPrompt, ShadowPrompt, AutoSkill
<1>3. PICK e, p, c, u : job' = [job EXCEPT ![t] = Waiting(e, p, c, u)]
  BY <1>2 DEF Begins
<1>4. Waiting(e, p, c, u).at = "waiting"
  BY DEF Waiting
<1>5. \A s \in Threads : job'[s] = job[s] \/ job'[s].at = "waiting"
  BY <1>3, <1>4, OneJob
<1> QED
  BY <1>1, <1>5, QuietStep

LEMMA GateRest ==
  ASSUME Typed, Gate, NEW t \in Threads, Resolve(t) \/ ReloadRead(t) \/ ReloadSwap(t)
  PROVE  Gate'
<1>1. UNCHANGED <<rows, runs, lock>>
  BY DEF Resolve, ReloadRead, ReloadSwap, table
<1>2. \E j : job' = [job EXCEPT ![t] = j] /\ j.at \notin {"replay", "decided", "saved"}
  BY DEF Resolve, ReloadRead, ReloadSwap, Idle
<1> QED
  BY <1>1, <1>2, OneJob, QuietStep

LEMMA GateReadBaseline ==
  ASSUME Typed, Gate, NEW t \in Threads, ReadBaseline(t)
  PROVE  Gate'
<1>1. job[t] \in WaitingJob
  BY JobFields DEF Typed, TypeOK, ReadBaseline
<1>2. PICK e \in Engines : e = job[t].engine
  BY <1>1 DEF WaitingJob
<1>3. UNCHANGED <<rows, runs>>
  BY DEF ReadBaseline, table
<1>4. ActiveOf("prompt")' = ActiveOf("prompt")
  BY <1>3 DEF ActiveOf, Live
<1> DEFINE next == [at |-> "replay", engine |-> e, policy |-> job[t].policy,
                    content |-> job[t].content, used |-> job[t].used,
                    baseline |-> ActiveOf(e), data |-> Data]
<1>5. CASE job' = [job EXCEPT ![t] = Idle] /\ lock' = lock
  <2>1. \A s \in Threads : job'[s] = job[s] \/ job'[s].at = "idle"
    BY <1>5, OneJob DEF Idle
  <2> QED
    BY <1>3, <1>5, <2>1, QuietStep
<1>6. CASE /\ job' = [job EXCEPT ![t] = next]
           /\ lock' = IF Locks(t) THEN [lock EXCEPT ![e] = t] ELSE lock
           /\ Locks(t) => lock[e] = NoThread
  <2>1. job'[t] = next /\ \A s \in Threads : s # t => job'[s] = job[s]
    BY <1>6, OneJob
  <2>2. lock \in [Engines -> Threads \cup {NoThread}] /\ "prompt" \in Engines
    BY DEF Typed, TypeOK, Engines
  <2>3. ASSUME NEW s \in Threads, Holds(s)' PROVE lock'["prompt"] = s
    <3>1. CASE s = t
      BY <1>6, <2>1, <2>2, <2>3, <3>1 DEF Holds, Locks
    <3>2. CASE s # t
      <4>1. lock["prompt"] = s /\ s # NoThread
        BY <2>1, <2>3, <3>2, EvolutionAssumption DEF Gate, Holds
      <4>2. e = "prompt" => ~Locks(t)
        BY <1>6, <4>1
      <4> QED
        BY <1>6, <2>2, <4>1, <4>2
    <3> QED
      BY <3>1, <3>2
  <2>4. \A s \in Threads : Judged(s)' => s # t
    BY <2>1 DEF Judged
  <2>5. \A s \in Threads : Judged(s)' => job'[s].policy = "auto"
    BY <2>1, <2>4 DEF Judged, Gate
  <2>6. \A s \in Threads :
          Holds(s)' /\ job'[s].at # "saved" => job'[s].baseline = ActiveOf("prompt")'
    BY <1>4, <2>1 DEF Holds, Gate
  <2>7. \A s \in Threads : job'[s].at = "saved" => s # t
    BY <2>1
  <2> QED
    BY <1>3, <2>1, <2>3, <2>4, <2>5, <2>6, <2>7 DEF Gate, Judged, GatedAgainstParent
<1>7. \/ job' = [job EXCEPT ![t] = Idle] /\ lock' = lock
      \/ /\ job' = [job EXCEPT ![t] = next]
         /\ lock' = IF Locks(t) THEN [lock EXCEPT ![e] = t] ELSE lock
         /\ Locks(t) => lock[e] = NoThread
  BY <1>2 DEF ReadBaseline, Typed, TypeOK
<1> QED
  BY <1>5, <1>6, <1>7

LEMMA GateReplay ==
  ASSUME Typed, Gate, NEW t \in Threads, Replay(t)
  PROVE  Gate'
<1>1. PICK d \in Decisions(t) : job' = [job EXCEPT ![t] =
         [at |-> "decided", engine |-> job[t].engine, policy |-> job[t].policy,
          content |-> job[t].content, used |-> job[t].used,
          baseline |-> job[t].baseline, data |-> job[t].data, decision |-> d]]
  BY DEF Replay, Typed, TypeOK
<1>2. d = "activated" => job[t].policy = "auto"
  BY DecisionType
<1>3. /\ job'[t] = [at |-> "decided", engine |-> job[t].engine, policy |-> job[t].policy,
          content |-> job[t].content, used |-> job[t].used,
          baseline |-> job[t].baseline, data |-> job[t].data, decision |-> d]
      /\ \A s \in Threads : s # t => job'[s] = job[s]
  BY <1>1, OneJob
<1>4. UNCHANGED <<rows, runs, lock>> /\ job[t].at = "replay"
  BY DEF Replay, table
<1>5. ActiveOf("prompt")' = ActiveOf("prompt")
  BY <1>4 DEF ActiveOf, Live
<1>6. \A s \in Threads : Holds(s)' => Holds(s)
  BY <1>3, <1>4 DEF Holds
<1>7. \A s \in Threads : Judged(s)' => job'[s].policy = "auto"
  BY <1>2, <1>3 DEF Judged, Gate
<1>8. \A s \in Threads :
        Holds(s)' /\ job'[s].at # "saved" => job'[s].baseline = ActiveOf("prompt")'
  BY <1>3, <1>4, <1>5, <1>6 DEF Holds, Gate
<1>9. \A s \in Threads : job'[s].at = "saved" => s # t
  BY <1>3
<1> QED
  BY <1>3, <1>4, <1>6, <1>7, <1>8, <1>9 DEF Gate, Judged, GatedAgainstParent

LEMMA GateSave ==
  ASSUME Typed, Gate, NEW t \in Threads, Save(t)
  PROVE  Gate'
<1>0. PICK e \in Engines, n \in Nat : e = job[t].engine /\ n = Len(rows[e]) + 1
  BY JobFields DEF Typed, TypeOK, Save, DecidedJob
<1> DEFINE next == [at |-> "saved", engine |-> e, policy |-> job[t].policy,
                    used |-> job[t].used, baseline |-> job[t].baseline,
                    data |-> job[t].data, decision |-> job[t].decision, version |-> n]
           activates == job[t].decision = "activated"
<1>1. TypeOK /\ OneActive /\ "prompt" \in Engines
  BY DEF Typed, Engines
<1>2. /\ DOMAIN rows'[e] = DOMAIN rows[e] \cup {n} /\ n \notin DOMAIN rows[e]
      /\ OthersKept(e)
      /\ rows'[e][n].parent = ActiveOf(e)
  BY <1>0, <1>1, SaveEffect
<1>14. rows'[e][n].active = activates
  BY <1>0, <1>1, SaveEffect
<1>15. VersionsKept(e, activates)
  BY <1>0, <1>1, SaveEffect
<1> HIDE DEF activates
<1>3. job'[t] = next /\ \A s \in Threads : s # t => job'[s] = job[s]
  BY <1>0, OneJob DEF Save
<1>4. UNCHANGED <<runs, lock>> /\ job[t].at = "decided"
  BY DEF Save
<1>5. /\ DOMAIN rows["prompt"] \subseteq DOMAIN rows'["prompt"]
      /\ \A v \in DOMAIN rows["prompt"] :
           rows'["prompt"][v].parent = rows["prompt"][v].parent
  BY <1>1, <1>2, <1>15 DEF OthersKept, VersionsKept
<1>6. \A s \in Threads : Holds(s)' => Holds(s)
  BY <1>0, <1>3, <1>4 DEF Holds
<1>7. \A s \in Threads : Judged(s)' => Judged(s) /\ job'[s].policy = job[s].policy
  BY <1>0, <1>3, <1>4 DEF Judged
<1>8. ASSUME NEW s \in Threads, Holds(s)', job'[s].at # "saved"
      PROVE  job'[s].baseline = ActiveOf("prompt")'
  <2>1. s # t /\ job'[s] = job[s] /\ Holds(s)
    BY <1>3, <1>6, <1>8
  <2>2. CASE e # "prompt"
    BY <1>1, <1>2, <1>8, <2>1, <2>2 DEF Gate, OthersKept, ActiveOf, Live
  <2>3. CASE e = "prompt"
    <3>1. ~activates
      <4>1. SUFFICES ASSUME activates PROVE FALSE
        OBVIOUS
      <4>2. Holds(t)
        BY <1>0, <1>4, <2>3, <4>1 DEF Gate, Judged, Holds, activates
      <4> QED
        BY <2>1, <4>2 DEF Gate
    <3>2. Live("prompt")' = Live("prompt")
      BY <1>2, <1>14, <1>15, <2>3, <3>1 DEF Live, VersionsKept
    <3> QED
      BY <1>8, <2>1, <3>2 DEF Gate, ActiveOf
  <2> QED
    BY <2>2, <2>3
<1>9. ASSUME NEW s \in Threads, job'[s].at = "saved", job'[s].engine = "prompt"
      PROVE  /\ job'[s].version \in DOMAIN rows'["prompt"]
             /\ Judged(s)' => rows'["prompt"][job'[s].version].parent = job'[s].baseline
  <2>1. CASE s # t
    BY <1>3, <1>5, <1>9, <2>1 DEF Gate, Judged
  <2>2. CASE s = t
    <3>1. e = "prompt" /\ job'[s].version = n /\ job'[s].baseline = job[t].baseline
      BY <1>3, <1>9, <2>2
    <3>2. Judged(s)' => Holds(t)
      BY <1>0, <1>4, <1>7, <2>2, <3>1 DEF Gate, Judged, Holds
    <3>3. Judged(s)' => job[t].baseline = ActiveOf("prompt")
      BY <1>4, <3>2 DEF Gate
    <3> QED
      BY <1>2, <3>1, <3>3
  <2> QED
    BY <2>1, <2>2
<1>10. \A s \in Threads : Judged(s)' => job'[s].policy = "auto"
  BY <1>7 DEF Gate
<1>11. \A s \in Threads : Holds(s)' => lock'["prompt"] = s
  BY <1>4, <1>6 DEF Gate
<1>12. \A r \in runs'["prompt"] : r.version \in DOMAIN rows'["prompt"]
  BY <1>4, <1>5 DEF Gate
<1>13. GatedAgainstParent'
  BY <1>4, <1>5 DEF Gate, GatedAgainstParent
<1> QED
  BY <1>8, <1>9, <1>10, <1>11, <1>12, <1>13 DEF Gate

(* The lock is released by the job that holds it, or was not its own. *)
LEMMA UnlockedOthers ==
  ASSUME Typed, Gate, NEW t \in Threads, job[t] \in SavedJob, NEW s \in Threads, s # t,
         Holds(s)
  PROVE  Unlocked(t)["prompt"] = s
<1>1. lock["prompt"] = s
  BY DEF Gate
<1>2. Locks(t) => job[t].engine # "prompt"
  BY <1>1 DEF Gate, Holds, Locks, SavedJob
<1> QED
  BY <1>1, <1>2 DEF Unlocked, SavedJob, Typed, TypeOK, Engines

LEMMA GateRecord ==
  ASSUME Typed, Gate, NEW t \in Threads, Record(t)
  PROVE  Gate'
<1>1. job[t] \in SavedJob /\ job[t].at = "saved"
  BY JobFields DEF Typed, TypeOK, Record
<1>2. job'[t].at \in {"idle", "resolve"}
  <2>1. CASE job[t].decision = "activated"
    <3>1. job' = [job EXCEPT ![t] = [at |-> "resolve", used |-> job[t].used]]
      BY <2>1 DEF Record
    <3>2. job'[t] = [at |-> "resolve", used |-> job[t].used]
      BY <3>1, OneJob
    <3> QED
      BY <3>2
  <2>2. CASE job[t].decision # "activated"
    <3>1. job' = [job EXCEPT ![t] = Idle]
      BY <2>2 DEF Record
    <3>2. job'[t] = Idle
      BY <3>1, OneJob
    <3> QED
      BY <3>2 DEF Idle
  <2> QED
    BY <2>1, <2>2
<1>3. \A s \in Threads : s # t => job'[s] = job[s]
  <2>1. PICK j : job' = [job EXCEPT ![t] = j]
    BY DEF Record
  <2> QED
    BY <2>1, OneJob
<1>4. UNCHANGED rows /\ lock' = Unlocked(t)
  BY DEF Record
<1>5. ActiveOf("prompt")' = ActiveOf("prompt")
  BY <1>4 DEF ActiveOf, Live
<1>6. \A s \in Threads : Holds(s)' => s # t /\ Holds(s)
  BY <1>2, <1>3 DEF Holds
<1>7. \A s \in Threads : Holds(s)' => lock'["prompt"] = s
  BY <1>1, <1>4, <1>6, UnlockedOthers
<1>8. \A r \in runs'["prompt"] :
        \/ r \in runs["prompt"]
        \/ /\ job[t].engine = "prompt" /\ r.version = job[t].version
           /\ r.baseline = job[t].baseline /\ r.decision = job[t].decision
  BY <1>1 DEF Record, Typed, TypeOK, SavedJob, Engines
<1>9. \A r \in runs'["prompt"] : r.version \in DOMAIN rows'["prompt"]
  BY <1>1, <1>4, <1>8 DEF Gate
<1>10. GatedAgainstParent'
  BY <1>1, <1>4, <1>8 DEF Gate, GatedAgainstParent, Judged
<1>11. \A s \in Threads : job'[s].at \in {"replay", "decided", "saved"} => s # t
  BY <1>2, <1>3
<1>12. \A s \in Threads : Judged(s)' => job'[s].policy = "auto"
  BY <1>3, <1>11 DEF Judged, Gate
<1>13. \A s \in Threads :
         Holds(s)' /\ job'[s].at # "saved" => job'[s].baseline = ActiveOf("prompt")'
  BY <1>3, <1>5, <1>6 DEF Gate
<1>14. \A s \in Threads : job'[s].at = "saved" /\ job'[s].engine = "prompt" =>
         /\ job'[s].version \in DOMAIN rows'["prompt"]
         /\ Judged(s)' => rows'["prompt"][job'[s].version].parent = job'[s].baseline
  BY <1>3, <1>4, <1>11 DEF Gate, Judged
<1> QED
  BY <1>7, <1>9, <1>10, <1>12, <1>13, <1>14 DEF Gate

(* A request that fails gives up its own locks only. *)
LEMMA GateFails ==
  ASSUME Typed, Gate, NEW t \in Threads, RequestFails(t)
  PROVE  Gate'
<1>1. UNCHANGED <<rows, runs>>
  BY DEF RequestFails, table
<1>2. job'[t] = Idle /\ \A s \in Threads : s # t => job'[s] = job[s]
  BY OneJob DEF RequestFails
<1>3. \A s \in Threads : job'[s].at \in {"replay", "decided", "saved"} => s # t
  BY <1>2 DEF Idle
<1>4. \A s \in Threads : Holds(s)' => s # t /\ Holds(s)
  BY <1>2, <1>3 DEF Holds
<1>5. \A s \in Threads : Holds(s)' => lock'["prompt"] = s
  BY <1>4 DEF RequestFails, Gate, Engines
<1>6. \A s \in Threads : Judged(s)' => job'[s].policy = "auto"
  BY <1>2, <1>3 DEF Judged, Gate
<1>7. ActiveOf("prompt")' = ActiveOf("prompt")
  BY <1>1 DEF ActiveOf, Live
<1>8. \A s \in Threads :
        Holds(s)' /\ job'[s].at # "saved" => job'[s].baseline = ActiveOf("prompt")'
  BY <1>2, <1>4, <1>7 DEF Gate
<1>9. \A s \in Threads : job'[s].at = "saved" /\ job'[s].engine = "prompt" =>
        /\ job'[s].version \in DOMAIN rows'["prompt"]
        /\ Judged(s)' => rows'["prompt"][job'[s].version].parent = job'[s].baseline
  BY <1>1, <1>2, <1>3 DEF Gate, Judged
<1>10. GatedAgainstParent' /\ \A r \in runs'["prompt"] : r.version \in DOMAIN rows'["prompt"]
  BY <1>1 DEF Gate, GatedAgainstParent
<1> QED
  BY <1>5, <1>6, <1>8, <1>9, <1>10 DEF Gate

LEMMA GateActivate ==
  ASSUME Typed, Gate, NEW t \in Threads, NEW e \in Engines, NEW v \in DOMAIN rows[e],
         Activate(t, e, v), e = "prompt" => lock["prompt"] = NoThread
  PROVE  Gate'
<1>1. /\ OthersKept(e)
      /\ DOMAIN rows'[e] = DOMAIN rows[e]
      /\ \A w \in DOMAIN rows[e] : rows'[e][w].parent = rows[e][w].parent
  BY ActivateEffect DEF Typed
<1>2. /\ DOMAIN rows'["prompt"] = DOMAIN rows["prompt"]
      /\ \A w \in DOMAIN rows["prompt"] :
           rows'["prompt"][w].parent = rows["prompt"][w].parent
  BY <1>1 DEF OthersKept, Engines
<1>3. UNCHANGED <<runs, lock>> /\ job' = [job EXCEPT ![t] = [at |-> "reload"]]
  BY DEF Activate, Begins
<1>4. job'[t] = [at |-> "reload"] /\ \A s \in Threads : s # t => job'[s] = job[s]
  BY <1>3, OneJob
<1>5. \A s \in Threads : job'[s].at \in {"replay", "decided", "saved"} => s # t
  BY <1>4
<1>6. \A s \in Threads : Holds(s)' => Holds(s) /\ job'[s] = job[s]
  BY <1>4, <1>5 DEF Holds
<1>7. ASSUME NEW s \in Threads, Holds(s) PROVE ActiveOf("prompt")' = ActiveOf("prompt")
  <2>1. e # "prompt"
    BY <1>7, EvolutionAssumption DEF Gate
  <2>2. rows'["prompt"] = rows["prompt"]
    BY <1>1, <2>1 DEF OthersKept, Engines
  <2> QED
    BY <2>2 DEF ActiveOf, Live
<1>8. \A s \in Threads : Judged(s)' => job'[s].policy = "auto"
  BY <1>4, <1>5 DEF Judged, Gate
<1>9. \A s \in Threads :
        Holds(s)' /\ job'[s].at # "saved" => job'[s].baseline = ActiveOf("prompt")'
  BY <1>6, <1>7 DEF Gate
<1>10. \A s \in Threads : job'[s].at = "saved" /\ job'[s].engine = "prompt" =>
         /\ job'[s].version \in DOMAIN rows'["prompt"]
         /\ Judged(s)' => rows'["prompt"][job'[s].version].parent = job'[s].baseline
  BY <1>2, <1>4, <1>5 DEF Gate, Judged
<1>11. GatedAgainstParent' /\ \A r \in runs'["prompt"] : r.version \in DOMAIN rows'["prompt"]
  BY <1>2, <1>3 DEF Gate, GatedAgainstParent
<1>12. \A s \in Threads : Holds(s)' => lock'["prompt"] = s
  BY <1>3, <1>6 DEF Gate
<1> QED
  BY <1>8, <1>9, <1>10, <1>11, <1>12 DEF Gate

LEMMA GateCrash == ASSUME Gate, File \/ AddCase \/ Crash PROVE Gate'
<1>1. CASE File \/ AddCase
  BY <1>1, QuietStep DEF File, AddCase
<1>2. CASE Crash
  BY <1>2 DEF Crash, table, Gate, Holds, Judged, Idle, GatedAgainstParent
<1> QED
  BY <1>1, <1>2

LEMMA GateStep == ASSUME Typed, Gate, [Next]_evolutionVars PROVE Gate'
<1>1. ASSUME NEW t \in Threads, NEW v \in DOMAIN rows["prompt"], RollbackPrompt(t, v)
      PROVE  Gate'
  BY <1>1, GateActivate DEF RollbackPrompt, Engines
<1>2. ASSUME NEW t \in Threads, NEW v \in DOMAIN rows["skill"], RollbackSkill(t, v)
      PROVE  Gate'
  BY <1>2, GateActivate DEF RollbackSkill, Engines
<1>3. ASSUME UNCHANGED evolutionVars PROVE Gate'
  BY <1>3, QuietStep DEF evolutionVars, table
<1> QED
  BY <1>1, <1>2, <1>3, GateRequest, GateReadBaseline, GateReplay, GateSave, GateRecord,
     GateFails, GateRest, GateCrash DEF Next, Serve

(* Whatever the threads do, the prompt a proposal activates was compared with *)
(* the very version it replaced.                                              *)
THEOREM ComparedWithParent == Spec => []GatedAgainstParent
<1>1. Init => Typed /\ Gate
  BY TypedInit, GateInit
<1>2. Typed /\ Gate /\ [Next]_evolutionVars => (Typed /\ Gate)'
  BY TypedStep, GateStep
<1>3. Gate => GatedAgainstParent
  BY DEF Gate
<1> QED
  BY <1>1, <1>2, <1>3, PTL DEF Spec

-------------------------------------------------------------------------------
(* Why a resolved case has been learned: a request carries the cases it used *)
(* along with the content they have made, and no write changes what a        *)
(* version contains.  A used case of a Skill is not in the content when an    *)
(* older one of its rule had the last word.                                   *)
Taught(c, used, e, content) ==
  \/ Learned(c, e, content)
  \/ e = "skill" /\ Overridden(c, used)

Teaches(used, e, content) == \A c \in used : Taught(c, used, e, content)

Approved(c) ==
  \E e \in Engines : \E r \in runs[e] :
    /\ r.decision = "activated" /\ c \in r.used
    /\ Taught(c, r.used, e, rows[e][r.version].content)

Earned(t) ==
  LET j == job[t] IN
  /\ j.at \in {"waiting", "replay", "decided"} => Teaches(j.used, j.engine, j.content)
  /\ j.at = "saved" =>
       /\ j.version \in DOMAIN rows[j.engine]
       /\ Teaches(j.used, j.engine, rows[j.engine][j.version].content)
  /\ j.at = "resolve" => \A c \in j.used : Approved(c)

Learning ==
  /\ \A e \in Engines : \A r \in runs[e] : r.version \in DOMAIN rows[e]
  /\ \A t \in Threads : Earned(t)
  /\ ResolvedLearned

(* A set of numbers has a smallest one, and a largest if it has a bound.      *)
LEMMA Smallest ==
  ASSUME NEW S \in SUBSET Nat, S # {}
  PROVE  \E n \in S : \A m \in S : n <= m
<1> DEFINE less == OpToRel(<, Nat)
<1>1. IsWellFoundedOn(less, Nat)
  BY NatLessThanWellFounded
<1>2. \A m, n \in Nat : m < n => <<m, n>> \in less
  BY DEF OpToRel
<1> HIDE DEF less
<1>3. S \subseteq Nat
  OBVIOUS
<1>4. PICK n \in S : \A m \in S : ~(<<m, n>> \in less)
  BY <1>1, <1>3, WFMin
<1>5. \A m \in S : ~(m < n)
  BY <1>2, <1>3, <1>4
<1>6. \A m \in S : n <= m
  BY <1>3, <1>5
<1> QED
  BY <1>6

LEMMA Greatest ==
  ASSUME NEW S \in SUBSET Nat, S # {}, NEW b \in Nat, \A n \in S : n <= b
  PROVE  \E n \in S : \A m \in S : m <= n
<1> DEFINE T == {k \in Nat : b - k \in S}
<1>1. S \subseteq Nat
  OBVIOUS
<1>2. PICK s \in S : TRUE
  OBVIOUS
<1>3. b - (b - s) = s /\ b - s \in Nat
  BY <1>1, <1>2
<1>4. b - s \in T
  BY <1>2, <1>3
<1>5. T \in SUBSET Nat /\ T # {}
  BY <1>4
<1> HIDE DEF T
<1>6. PICK k \in T : \A m \in T : k <= m
  BY <1>5, Smallest
<1>7. k \in Nat /\ b - k \in S
  BY <1>6 DEF T
<1>8. ASSUME NEW m \in S PROVE m <= b - k
  <2>1. m \in Nat /\ m <= b
    BY <1>1
  <2>2. b - m \in Nat /\ b - (b - m) = m
    BY <2>1
  <2>3. b - m \in T
    BY <2>2 DEF T
  <2>4. k <= b - m
    BY <1>6, <2>3
  <2> QED
    BY <1>7, <2>1, <2>2, <2>4
<1> QED
  BY <1>7, <1>8

(* Every case that counts as used by a Skill is learned, or an older one of   *)
(* its rule, which is used as well, has undone it.                            *)
LEMMA SkillTeaches ==
  ASSUME NEW base
  PROVE  Teaches(UsedCases(base), "skill", LearnedContent(base))
<1> SUFFICES ASSUME NEW c \in UsedCases(base)
             PROVE  \/ (c.rule \in LearnedContent(base)) = Gains(c)
                    \/ Overridden(c, UsedCases(base))
  BY DEF Teaches, Taught, Learned
<1> DEFINE Same == {d \in Supported : d.rule = c.rule}
<1>1. /\ c \in Same /\ c.rule \in Constraints
      /\ \A d \in Same : d \in Supported /\ d.rule = c.rule /\ d.id \in Nat
      /\ \A d, e \in Same : d.id = e.id => d = e
  BY EvolutionAssumption DEF UsedCases, Supported, Open, Constraints
<1>2. PICK o \in Same : \A d \in Same : o.id <= d.id
  <2> DEFINE Ids == {d.id : d \in Same}
  <2>1. Ids \in SUBSET Nat /\ Ids # {}
    BY <1>1
  <2>2. PICK n \in Ids : \A m \in Ids : n <= m
    BY <2>1, Smallest
  <2> QED
    BY <2>2
<1>3. o \in Supported /\ o.rule = c.rule /\ Oldest(o)
  BY <1>2 DEF Oldest
<1>4. CASE Gains(o) = Gains(c)
  <2>1. c.rule \in LearnedContent(base) <=> Gains(o)
    <3>1. Gains(o) => c.rule \in LearnedContent(base)
      BY <1>1, <1>3 DEF LearnedContent
    <3>2. ASSUME c.rule \in LearnedContent(base) PROVE Gains(o)
      <4>1. PICK d \in Supported : d.rule = c.rule /\ Oldest(d) /\ Gains(d)
        BY <1>1, <3>2 DEF LearnedContent
      <4>2. d.id <= o.id /\ o.id <= d.id /\ d \in Same
        BY <1>3, <4>1 DEF Oldest
      <4>3. d = o
        BY <1>1, <1>2, <4>2
      <4> QED
        BY <4>1, <4>3
    <3> QED
      BY <3>1, <3>2
  <2> QED
    BY <1>4, <2>1 DEF Gains
<1>5. CASE Gains(o) # Gains(c)
  <2> DEFINE Opposed == {d \in Same : d.id < c.id /\ Gains(d) # Gains(c)}
  <2>1. o \in Opposed
    BY <1>1, <1>2, <1>5
  <2>2. PICK d \in Opposed : \A e \in Opposed : e.id <= d.id
    <3> DEFINE Ids == {e.id : e \in Opposed}
    <3>1. Ids \in SUBSET Nat /\ Ids # {} /\ c.id \in Nat /\ \A n \in Ids : n <= c.id
      BY <1>1, <2>1
    <3>2. PICK n \in Ids : \A m \in Ids : m <= n
      BY <3>1, Greatest
    <3> QED
      BY <3>2
  <2> DEFINE Newer == {e \in Same : e.id > d.id}
  <2>3. c \in Newer
    BY <1>1, <2>2
  <2>4. PICK n \in Newer : \A e \in Newer : n.id <= e.id
    <3> DEFINE Ids == {e.id : e \in Newer}
    <3>1. Ids \in SUBSET Nat /\ Ids # {}
      BY <1>1, <2>3
    <3>2. PICK k \in Ids : \A m \in Ids : k <= m
      BY <3>1, Smallest
    <3> QED
      BY <3>2
  <2>5. NextNewer(d, n)
    BY <1>1, <2>2, <2>4 DEF NextNewer
  <2>6. Gains(n) = Gains(c)
    <3>1. SUFFICES ASSUME Gains(n) # Gains(c) PROVE FALSE
      OBVIOUS
    <3>2. n # c /\ n.id <= c.id /\ n.id \in Nat /\ c.id \in Nat /\ d.id \in Nat
      BY <1>1, <2>2, <2>3, <2>4, <3>1
    <3>3. n.id < c.id
      BY <1>1, <2>4, <3>2
    <3>4. n \in Opposed
      BY <2>4, <3>1, <3>3
    <3> QED
      BY <2>2, <2>4, <3>2, <3>4
  <2>7. d \in UsedCases(base)
    <3>1. Gains(n) # Gains(d) /\ n \in Supported /\ d \in Supported
      BY <1>1, <2>2, <2>4, <2>6
    <3> QED
      BY <2>5, <3>1 DEF UsedCases
  <2> QED
    BY <2>2, <2>7 DEF Overridden
<1> QED
  BY <1>4, <1>5

LEMMA PromptTeaches ==
  ASSUME NEW base
  PROVE  Teaches(Open, "prompt", base \cup UNION {Directives(c) : c \in Open})
BY DEF Teaches, Taught, Learned

(* No write changes what a version contains. *)
ContentsKept ==
  \A e \in Engines : \A v \in DOMAIN rows[e] :
    v \in DOMAIN rows'[e] /\ rows'[e][v].content = rows[e][v].content

LEMMA LearningInit == Init => Learning
BY DEF Init, Learning, Earned, ResolvedLearned, Idle, Engines

LEMMA ApprovedKept ==
  ASSUME Learning, ContentsKept, \A e \in Engines : runs[e] \subseteq runs'[e],
         NEW c, Approved(c)
  PROVE  Approved(c)'
<1>1. PICK e \in Engines : \E r \in runs[e] :
        /\ r.decision = "activated" /\ c \in r.used
        /\ Taught(c, r.used, e, rows[e][r.version].content)
  BY DEF Approved
<1>0. PICK r \in runs[e] :
        /\ r.decision = "activated" /\ c \in r.used
        /\ Taught(c, r.used, e, rows[e][r.version].content)
  BY <1>1
<1>2. r \in runs'[e] /\ rows'[e][r.version].content = rows[e][r.version].content
  BY DEF Learning, ContentsKept
<1> QED
  BY <1>0, <1>2 DEF Approved

(* A step that resolves nothing has to answer for the jobs it changes.       *)
LEMMA LearningKept ==
  ASSUME Typed, Learning, ContentsKept, resolved' = resolved,
         \A e \in Engines : runs[e] \subseteq runs'[e],
         \A e \in Engines : \A r \in runs'[e] : r \in runs[e] \/ r.version \in DOMAIN rows'[e],
         \A s \in Threads : job'[s] = job[s] \/ Earned(s)'
  PROVE  Learning'
<1>1. \A e \in Engines : \A r \in runs'[e] : r.version \in DOMAIN rows'[e]
  BY DEF Learning, ContentsKept
<1>2. ASSUME NEW s \in Threads, job'[s] = job[s] PROVE Earned(s)'
  <2>1. Earned(s)
    BY DEF Learning
  <2>2. ASSUME job[s].at = "saved"
        PROVE  /\ job[s].version \in DOMAIN rows'[job[s].engine]
               /\ rows'[job[s].engine][job[s].version].content
                    = rows[job[s].engine][job[s].version].content
    <3>1. job[s].engine \in Engines
      BY <2>2, JobFields DEF Typed, TypeOK, SavedJob
    <3> QED
      BY <2>1, <2>2, <3>1 DEF Earned, ContentsKept
  <2>3. \A c : Approved(c) => Approved(c)'
    BY ApprovedKept
  <2> QED
    BY <1>2, <2>1, <2>2, <2>3 DEF Earned
<1>3. ResolvedLearned'
  <2>1. ResolvedLearned /\ \A c : Approved(c) => Approved(c)'
    BY ApprovedKept DEF Learning
  <2> QED
    BY <2>1 DEF ResolvedLearned, Approved, Taught
<1> QED
  BY <1>1, <1>2, <1>3 DEF Learning

(* ... and where it leaves the tables alone, for nothing else.               *)
LEMMA LearningJob ==
  ASSUME Typed, Learning, UNCHANGED <<rows, runs, resolved>>, NEW t \in Threads, NEW j,
         job' = [job EXCEPT ![t] = j], Earned(t)'
  PROVE  Learning'
<1>1. ContentsKept
  BY DEF ContentsKept
<1>2. \A s \in Threads : job'[s] = job[s] \/ Earned(s)'
  BY OneJob
<1> QED
  BY <1>1, <1>2, LearningKept

LEMMA LearningRequest ==
  ASSUME Typed, Learning, NEW t \in Threads,
         (\E e \in Engines : Propose(t, e)) \/ AutoPrompt(t) \/ ShadowPrompt(t) \/ AutoSkill(t)
  PROVE  Learning'
<1>1. UNCHANGED <<rows, runs, resolved>>
  BY DEF Propose, AutoPrompt, ShadowPrompt, AutoSkill, table, feedback
<1>2. PICK e, p, c, u : Begins(t, Waiting(e, p, c, u)) /\ Teaches(u, e, c)
  <2>1. \A e, c : Teaches({}, e, c)
    BY DEF Teaches
  <2>2. CASE \E e \in Engines : Propose(t, e)
    BY <2>1, <2>2 DEF Propose
  <2>3. CASE ShadowPrompt(t)
    BY <2>1, <2>3 DEF ShadowPrompt
  <2>4. CASE AutoPrompt(t)
    BY <2>4, PromptTeaches DEF AutoPrompt
  <2>5. CASE AutoSkill(t)
    BY <2>5, SkillTeaches DEF AutoSkill
  <2> QED
    BY <2>2, <2>3, <2>4, <2>5
<1>3. job' = [job EXCEPT ![t] = Waiting(e, p, c, u)]
  BY <1>2 DEF Begins
<1>4. job'[t] = Waiting(e, p, c, u)
  BY <1>3, OneJob
<1>5. Earned(t)'
  BY <1>2, <1>4 DEF Earned, Waiting
<1> QED
  BY <1>1, <1>3, <1>5, LearningJob

LEMMA LearningReplay ==
  ASSUME Typed, Learning, NEW t \in Threads, ReadBaseline(t) \/ Replay(t)
  PROVE  Learning'
<1>1. UNCHANGED <<rows, runs, resolved>> /\ job[t].at \in {"waiting", "replay"}
  BY DEF ReadBaseline, Replay, table, feedback
<1>2. Teaches(job[t].used, job[t].engine, job[t].content)
  BY <1>1 DEF Learning, Earned
<1>3. PICK j : /\ job' = [job EXCEPT ![t] = j]
               /\ \/ j = Idle
                  \/ /\ j.at \in {"replay", "decided"} /\ j.used = job[t].used
                     /\ j.engine = job[t].engine /\ j.content = job[t].content
  <2>1. job \in [Threads -> Job]
    BY DEF Typed, TypeOK
  <2>2. CASE ReadBaseline(t)
    <3> DEFINE next == [at |-> "replay", engine |-> job[t].engine, policy |-> job[t].policy,
                        content |-> job[t].content, used |-> job[t].used,
                        baseline |-> ActiveOf(job[t].engine), data |-> Data]
    <3>1. \/ job' = [job EXCEPT ![t] = Idle]
          \/ job' = [job EXCEPT ![t] = next]
      BY <2>1, <2>2 DEF ReadBaseline
    <3> QED
      BY <3>1
  <2>3. CASE Replay(t)
    BY <2>1, <2>3 DEF Replay
  <2> QED
    BY <2>2, <2>3
<1>4. job'[t] = j
  BY <1>3, OneJob
<1>5. Earned(t)'
  BY <1>2, <1>3, <1>4 DEF Earned, Idle
<1> QED
  BY <1>1, <1>3, <1>5, LearningJob

LEMMA LearningSave ==
  ASSUME Typed, Learning, NEW t \in Threads, Save(t)
  PROVE  Learning'
<1>0. PICK e \in Engines, n \in Nat : e = job[t].engine /\ n = Len(rows[e]) + 1
  BY JobFields DEF Typed, TypeOK, Save, DecidedJob
<1> DEFINE next == [at |-> "saved", engine |-> e, policy |-> job[t].policy,
                    used |-> job[t].used, baseline |-> job[t].baseline,
                    data |-> job[t].data, decision |-> job[t].decision, version |-> n]
<1>1. /\ DOMAIN rows'[e] = DOMAIN rows[e] \cup {n} /\ OthersKept(e)
      /\ rows'[e][n].content = job[t].content
      /\ \A v \in DOMAIN rows[e] : rows'[e][v].content = rows[e][v].content
  <2>1. TypeOK /\ OneActive
    BY DEF Typed
  <2>2. DOMAIN rows'[e] = DOMAIN rows[e] \cup {n} /\ OthersKept(e)
        /\ rows'[e][n].content = job[t].content
    BY <1>0, <2>1, SaveEffect
  <2>3. VersionsKept(e, job[t].decision = "activated")
    BY <1>0, <2>1, SaveEffect
  <2> QED
    BY <2>2, <2>3 DEF VersionsKept
<1>2. ContentsKept
  BY <1>1 DEF ContentsKept, OthersKept
<1>3. job'[t] = next /\ \A s \in Threads : s # t => job'[s] = job[s]
  BY <1>0, OneJob DEF Save
<1>4. UNCHANGED <<runs, resolved>> /\ job[t].at = "decided"
  BY DEF Save, feedback
<1>5. Teaches(job[t].used, e, job[t].content)
  BY <1>0, <1>4 DEF Learning, Earned
<1>6. Earned(t)'
  BY <1>1, <1>3, <1>5 DEF Earned
<1>7. \A s \in Threads : job'[s] = job[s] \/ Earned(s)'
  BY <1>3, <1>6
<1> QED
  BY <1>2, <1>4, <1>7, LearningKept

LEMMA LearningRecord ==
  ASSUME Typed, Learning, NEW t \in Threads, Record(t)
  PROVE  Learning'
<1>1. job[t] \in SavedJob /\ job[t].at = "saved"
  BY JobFields DEF Typed, TypeOK, Record
<1>2. UNCHANGED <<rows, resolved>>
  BY DEF Record, feedback
<1>3. ContentsKept
  BY <1>2 DEF ContentsKept
<1>4. job[t].version \in DOMAIN rows[job[t].engine] /\ job[t].engine \in Engines
      /\ Teaches(job[t].used, job[t].engine, rows[job[t].engine][job[t].version].content)
  BY <1>1 DEF Learning, Earned, SavedJob
<1> DEFINE run == [version |-> job[t].version, baseline |-> job[t].baseline,
                   decision |-> job[t].decision, used |-> job[t].used, data |-> job[t].data]
<1>5. runs' = [runs EXCEPT ![job[t].engine] = @ \cup {run}] /\ runs \in [Engines -> SUBSET Run]
  BY DEF Record, Typed, TypeOK
<1>6. /\ \A e \in Engines : runs[e] \subseteq runs'[e]
      /\ \A e \in Engines : \A r \in runs'[e] : r \in runs[e] \/ r.version \in DOMAIN rows'[e]
      /\ run \in runs'[job[t].engine]
  BY <1>2, <1>4, <1>5
<1>7. ASSUME job[t].decision = "activated" PROVE Earned(t)'
  <2>1. job' = [job EXCEPT ![t] = [at |-> "resolve", used |-> job[t].used]]
    BY <1>7 DEF Record
  <2>2. job'[t] = [at |-> "resolve", used |-> job[t].used]
    BY <2>1, OneJob
  <2>3. ASSUME NEW c \in job[t].used PROVE Approved(c)'
    <3>1. Taught(c, run.used, job[t].engine, rows'[job[t].engine][run.version].content)
      BY <1>2, <1>4, <2>3 DEF Teaches
    <3>2. run.decision = "activated" /\ c \in run.used
      BY <1>7, <2>3
    <3> QED
      BY <1>4, <1>6, <3>1, <3>2 DEF Approved, Taught
  <2> QED
    BY <2>2, <2>3 DEF Earned
<1>8. ASSUME job[t].decision # "activated" PROVE Earned(t)'
  <2>1. job' = [job EXCEPT ![t] = Idle]
    BY <1>8 DEF Record
  <2>2. job'[t] = Idle
    BY <2>1, OneJob
  <2> QED
    BY <2>2 DEF Earned, Idle
<1>9. PICK j : job' = [job EXCEPT ![t] = j]
  BY DEF Record
<1>10. \A s \in Threads : job'[s] = job[s] \/ Earned(s)'
  BY <1>7, <1>8, <1>9, OneJob
<1> QED
  BY <1>2, <1>3, <1>6, <1>10, LearningKept

LEMMA LearningFails ==
  ASSUME Typed, Learning, NEW t \in Threads, RequestFails(t)
  PROVE  Learning'
<1>1. job' = [job EXCEPT ![t] = Idle] /\ UNCHANGED <<rows, runs, resolved>>
  BY DEF RequestFails, table, feedback
<1>2. job'[t] = Idle
  BY <1>1, OneJob
<1>3. Earned(t)'
  BY <1>2 DEF Earned, Idle
<1> QED
  BY <1>1, <1>3, LearningJob

(* The cases of an activation are resolved together. *)
LEMMA LearningResolve ==
  ASSUME Typed, Learning, NEW t \in Threads, Resolve(t)
  PROVE  Learning'
<1>1. /\ job[t].at = "resolve" /\ resolved' = resolved \cup job[t].used
      /\ job' = [job EXCEPT ![t] = [at |-> "reload"]] /\ UNCHANGED <<rows, runs>>
  BY DEF Resolve
<1>2. job'[t] = [at |-> "reload"] /\ \A s \in Threads : s # t => job'[s] = job[s]
  BY <1>1, OneJob
<1>3. \A c : Approved(c)' <=> Approved(c)
  BY <1>1 DEF Approved
<1>4. \A s \in Threads : Earned(s)'
  BY <1>1, <1>2, <1>3 DEF Learning, Earned
<1>5. \A c \in resolved' : Approved(c)
  <2>1. \A c \in resolved : Approved(c)
    BY DEF Learning, ResolvedLearned, Approved, Taught
  <2>2. \A c \in job[t].used : Approved(c)
    BY <1>1 DEF Learning, Earned
  <2> QED
    BY <1>1, <2>1, <2>2
<1>6. ResolvedLearned'
  BY <1>3, <1>5 DEF ResolvedLearned, Approved, Taught
<1> QED
  BY <1>1, <1>4, <1>6 DEF Learning

LEMMA LearningReload ==
  ASSUME Typed, Learning, NEW t \in Threads, ReloadRead(t) \/ ReloadSwap(t)
  PROVE  Learning'
<1>1. UNCHANGED <<rows, runs, resolved>>
  BY DEF ReloadRead, ReloadSwap, table, feedback
<1>2. PICK j : job' = [job EXCEPT ![t] = j] /\ j.at \in {"swap", "idle"}
  <2>1. CASE ReloadRead(t)
    <3> DEFINE next == [at |-> "swap", prompt |-> ActiveOf("prompt")]
    <3>1. job' = [job EXCEPT ![t] = next]
      BY <2>1 DEF ReloadRead
    <3>2. next.at = "swap"
      OBVIOUS
    <3> QED
      BY <3>1, <3>2
  <2>2. CASE ReloadSwap(t)
    <3>1. job' = [job EXCEPT ![t] = Idle]
      BY <2>2 DEF ReloadSwap
    <3>2. Idle.at = "idle"
      BY DEF Idle
    <3> QED
      BY <3>1, <3>2
  <2> QED
    BY <2>1, <2>2
<1>3. Earned(t)'
  BY <1>2, OneJob DEF Earned
<1> QED
  BY <1>1, <1>2, <1>3, LearningJob

LEMMA LearningActivate ==
  ASSUME Typed, Learning, NEW t \in Threads, NEW e \in Engines, NEW v \in DOMAIN rows[e],
         Activate(t, e, v)
  PROVE  Learning'
<1>1. ContentsKept
  BY ActivateEffect DEF Typed, ContentsKept, OthersKept
<1>2. UNCHANGED <<runs, resolved>> /\ job' = [job EXCEPT ![t] = [at |-> "reload"]]
  BY DEF Activate, Begins, feedback
<1>3. job'[t] = [at |-> "reload"] /\ \A s \in Threads : s # t => job'[s] = job[s]
  BY <1>2, OneJob
<1>4. \A s \in Threads : job'[s] = job[s] \/ Earned(s)'
  BY <1>3 DEF Earned
<1> QED
  BY <1>1, <1>2, <1>4, LearningKept

LEMMA LearningRest ==
  ASSUME Typed, Learning, File \/ AddCase \/ Crash \/ UNCHANGED evolutionVars
  PROVE  Learning'
<1>1. UNCHANGED <<rows, runs, resolved>>
  BY DEF File, AddCase, Crash, evolutionVars, table, feedback
<1>2. ContentsKept
  BY <1>1 DEF ContentsKept
<1>3. \A s \in Threads : job'[s] = job[s] \/ Earned(s)'
  BY DEF File, AddCase, Crash, evolutionVars, Earned, Idle
<1> QED
  BY <1>1, <1>2, <1>3, LearningKept

LEMMA LearningStep == ASSUME Typed, Learning, [Next]_evolutionVars PROVE Learning'
<1>1. ASSUME NEW t \in Threads, NEW v \in DOMAIN rows["prompt"], RollbackPrompt(t, v)
      PROVE  Learning'
  BY <1>1, LearningActivate DEF RollbackPrompt, Engines
<1>2. ASSUME NEW t \in Threads, NEW v \in DOMAIN rows["skill"], RollbackSkill(t, v)
      PROVE  Learning'
  BY <1>2, LearningActivate DEF RollbackSkill, Engines
<1> QED
  BY <1>1, <1>2, LearningRequest, LearningReplay, LearningSave, LearningRecord,
     LearningFails, LearningResolve, LearningReload, LearningRest DEF Next, Serve

(* A failure case is resolved only by a proposal that used it and activated a *)
(* version that has learned from it, or a Skill that an older case used with  *)
(* it overrides, in any interleaving of proposals, rollbacks, failures and    *)
(* crashes.                                                                   *)
THEOREM ResolvedIsLearned == Spec => []ResolvedLearned
<1>1. Init => Typed /\ Learning
  BY TypedInit, LearningInit
<1>2. Typed /\ Learning /\ [Next]_evolutionVars => (Typed /\ Learning)'
  BY TypedStep, LearningStep
<1>3. Learning => ResolvedLearned
  BY DEF Learning
<1> QED
  BY <1>1, <1>2, <1>3, PTL DEF Spec
-------------------------------------------------------------------------------
(* What was activated is what has passed: while a candidate is replayed,      *)
(* saved and recorded, neither its content nor that of the version it was     *)
(* compared with changes, whatever is rolled back or proposed in between.     *)
Passed(e, candidate, baseline, data) ==
  /\ ~Refused(e, candidate) /\ ~TooFew(data)
  /\ Passes(Replayed[candidate], Replayed[baseline], data)

ActivatedPassed ==
  \A e \in Engines : \A r \in runs[e] :
    r.decision = "activated" =>
      Passed(e, Content(e, r.version), Content(e, r.baseline), r.data)

Versions(e) == {0} \cup DOMAIN rows[e]

Vetted(t) ==
  LET j == job[t] IN
  /\ j.at \in {"replay", "decided", "saved"} => j.baseline \in Versions(j.engine)
  /\ j.at = "decided" /\ j.decision = "activated" =>
       Passed(j.engine, j.content, Content(j.engine, j.baseline), j.data)
  /\ j.at = "saved" => j.version \in Versions(j.engine)
  /\ j.at = "saved" /\ j.decision = "activated" =>
       Passed(j.engine, Content(j.engine, j.version), Content(j.engine, j.baseline), j.data)

Vetting ==
  /\ \A e \in Engines : \A r \in runs[e] : {r.version, r.baseline} \subseteq Versions(e)
  /\ \A t \in Threads : Vetted(t)
  /\ ActivatedPassed

LEMMA VettingInit == Init => Vetting
BY DEF Init, Vetting, Vetted, ActivatedPassed, Idle, Engines

(* A decision to activate is that the gates were passed. *)
LEMMA DecisionPassed ==
  ASSUME NEW t \in Threads, "activated" \in Decisions(t)
  PROVE  Passed(job[t].engine, job[t].content, Content(job[t].engine, job[t].baseline), job[t].data)
BY DEF Decisions, Decision, Passed

(* What a version contains is settled once it is there. *)
LEMMA VersionsSettled ==
  ASSUME ContentsKept, NEW e \in Engines, NEW v \in Versions(e)
  PROVE  v \in Versions(e)' /\ Content(e, v)' = Content(e, v)
BY DEF ContentsKept, Versions, Content

(* A job that a step leaves alone is vetted still. *)
LEMMA VettedKept ==
  ASSUME Typed, Vetting, ContentsKept, NEW t \in Threads, job'[t] = job[t]
  PROVE  Vetted(t)'
<1> DEFINE j == job[t]
<1>1. CASE j.at \in {"replay", "decided", "saved"}
  <2>1. j.engine \in Engines
    BY <1>1, JobFields DEF Typed, TypeOK, ReplayJob, DecidedJob, SavedJob
  <2>2. j.baseline \in Versions(j.engine) /\ (j.at = "saved" => j.version \in Versions(j.engine))
    BY <1>1 DEF Vetting, Vetted
  <2>3. PICK e, b, v : e = j.engine /\ b = j.baseline /\ v = j.version
    OBVIOUS
  <2>4. /\ b \in Versions(e)' /\ Content(e, b)' = Content(e, b)
        /\ j.at = "saved" => v \in Versions(e)' /\ Content(e, v)' = Content(e, v)
    BY <2>1, <2>2, <2>3, VersionsSettled
  <2>5. Vetted(t)
    BY DEF Vetting
  <2> QED
    BY <2>3, <2>4, <2>5 DEF Vetted, Content, Versions
<1>2. CASE j.at \notin {"replay", "decided", "saved"}
  BY <1>2 DEF Vetted
<1> QED
  BY <1>1, <1>2

(* A step has to answer for the job it changes and for the runs it records.   *)
LEMMA VettingKept ==
  ASSUME Typed, Vetting, ContentsKept,
         \A e \in Engines : \A r \in runs'[e] : r \in runs[e] \/
           /\ {r.version, r.baseline} \subseteq Versions(e)'
           /\ r.decision = "activated" =>
                Passed(e, Content(e, r.version)', Content(e, r.baseline)', r.data),
         \A t \in Threads : job'[t] = job[t] \/ Vetted(t)'
  PROVE  Vetting'
<1>1. \A t \in Threads : Vetted(t)'
  BY VettedKept
<1>2. ASSUME NEW e \in Engines, NEW r \in runs'[e]
      PROVE  /\ {r.version, r.baseline} \subseteq Versions(e)'
             /\ r.decision = "activated" =>
                  Passed(e, Content(e, r.version)', Content(e, r.baseline)', r.data)
  <2>1. CASE r \in runs[e]
    <3>1. {r.version, r.baseline} \subseteq Versions(e)
      BY <2>1 DEF Vetting
    <3>2. /\ r.version \in Versions(e)' /\ Content(e, r.version)' = Content(e, r.version)
          /\ r.baseline \in Versions(e)' /\ Content(e, r.baseline)' = Content(e, r.baseline)
      BY <3>1, VersionsSettled
    <3> QED
      BY <2>1, <3>2 DEF Vetting, ActivatedPassed
  <2> QED
    BY <2>1
<1> QED
  BY <1>1, <1>2 DEF Vetting, ActivatedPassed

LEMMA VettingJob ==
  ASSUME Typed, Vetting, UNCHANGED <<rows, runs>>, NEW t \in Threads, NEW j,
         job' = [job EXCEPT ![t] = j], Vetted(t)'
  PROVE  Vetting'
<1>1. ContentsKept
  BY DEF ContentsKept
<1>2. \A s \in Threads : job'[s] = job[s] \/ Vetted(s)'
  BY OneJob
<1> QED
  BY <1>1, <1>2, VettingKept

(* Requests, and what follows a record, are in no place the gates speak of.  *)
LEMMA VettingRest ==
  ASSUME Typed, Vetting, NEW t \in Threads,
         \/ \E e \in Engines : Propose(t, e)
         \/ AutoPrompt(t) \/ ShadowPrompt(t) \/ AutoSkill(t)
         \/ RequestFails(t) \/ Resolve(t) \/ ReloadRead(t) \/ ReloadSwap(t)
  PROVE  Vetting'
<1>1. UNCHANGED <<rows, runs>>
  BY DEF Propose, AutoPrompt, ShadowPrompt, AutoSkill, RequestFails, Resolve, ReloadRead,
         ReloadSwap,
         table
<1>2. \E j : job' = [job EXCEPT ![t] = j] /\ j.at \notin {"replay", "decided", "saved"}
  BY DEF Propose, AutoPrompt, ShadowPrompt, AutoSkill, RequestFails, Resolve, ReloadRead,
         ReloadSwap,
         Begins, Waiting, Idle
<1>3. PICK j : job' = [job EXCEPT ![t] = j] /\ j.at \notin {"replay", "decided", "saved"}
  BY <1>2
<1>4. job'[t] = j
  BY <1>3, OneJob
<1>5. Vetted(t)'
  BY <1>3, <1>4 DEF Vetted
<1> QED
  BY <1>1, <1>3, <1>5, VettingJob

LEMMA VettingReadBaseline ==
  ASSUME Typed, Vetting, NEW t \in Threads, ReadBaseline(t)
  PROVE  Vetting'
<1>1. job[t] \in WaitingJob
  BY JobFields DEF Typed, TypeOK, ReadBaseline
<1>2. PICK e \in Engines : e = job[t].engine
  BY <1>1 DEF WaitingJob
<1> DEFINE next == [at |-> "replay", engine |-> e, policy |-> job[t].policy,
                    content |-> job[t].content, used |-> job[t].used,
                    baseline |-> ActiveOf(e), data |-> Data]
<1>3. UNCHANGED <<rows, runs>>
  BY DEF ReadBaseline, table
<1>4. ActiveOf(e) \in Versions(e)'
  BY <1>3, ActiveType DEF Typed, Versions
<1>5. job' = [job EXCEPT ![t] = Idle] \/ job' = [job EXCEPT ![t] = next]
  BY <1>2 DEF ReadBaseline, Typed, TypeOK
<1>6. job'[t] = Idle \/ job'[t] = next
  BY <1>5, OneJob
<1>7. Vetted(t)'
  BY <1>4, <1>6 DEF Vetted, Idle
<1> QED
  BY <1>3, <1>5, <1>7, VettingJob

LEMMA VettingReplay ==
  ASSUME Typed, Vetting, NEW t \in Threads, Replay(t)
  PROVE  Vetting'
<1>1. job[t] \in ReplayJob /\ job[t].at = "replay"
  BY JobFields DEF Typed, TypeOK, Replay
<1>2. PICK e \in Engines, b \in Nat : e = job[t].engine /\ b = job[t].baseline
  BY <1>1 DEF ReplayJob
<1>3. UNCHANGED <<rows, runs>>
  BY DEF Replay, table
<1>4. PICK d \in Decisions(t) : job' = [job EXCEPT ![t] =
         [at |-> "decided", engine |-> e, policy |-> job[t].policy,
          content |-> job[t].content, used |-> job[t].used,
          baseline |-> b, data |-> job[t].data, decision |-> d]]
  BY <1>2 DEF Replay, Typed, TypeOK
<1> DEFINE next == [at |-> "decided", engine |-> e, policy |-> job[t].policy,
                    content |-> job[t].content, used |-> job[t].used,
                    baseline |-> b, data |-> job[t].data, decision |-> d]
<1>5. b \in Versions(e)' /\ Content(e, b)' = Content(e, b)
  BY <1>1, <1>2, <1>3 DEF Vetting, Vetted, Versions, Content
<1>6. d = "activated" => Passed(e, job[t].content, Content(e, b)', job[t].data)
  BY <1>2, <1>5, DecisionPassed
<1>7. job'[t] = next
  BY <1>4, OneJob
<1>8. Vetted(t)'
  BY <1>5, <1>6, <1>7 DEF Vetted, Content
<1> QED
  BY <1>3, <1>4, <1>8, VettingJob

LEMMA VettingSave ==
  ASSUME Typed, Vetting, NEW t \in Threads, Save(t)
  PROVE  Vetting'
<1>0. PICK e \in Engines, n \in Nat, b \in Nat :
        e = job[t].engine /\ n = Len(rows[e]) + 1 /\ b = job[t].baseline
  BY JobFields DEF Typed, TypeOK, Save, DecidedJob
<1> DEFINE next == [at |-> "saved", engine |-> e, policy |-> job[t].policy,
                    used |-> job[t].used, baseline |-> b,
                    data |-> job[t].data, decision |-> job[t].decision, version |-> n]
<1>1. /\ DOMAIN rows'[e] = DOMAIN rows[e] \cup {n} /\ OthersKept(e)
      /\ rows'[e][n].content = job[t].content
      /\ \A v \in DOMAIN rows[e] : rows'[e][v].content = rows[e][v].content
  <2>1. TypeOK /\ OneActive
    BY DEF Typed
  <2>2. DOMAIN rows'[e] = DOMAIN rows[e] \cup {n} /\ OthersKept(e)
        /\ rows'[e][n].content = job[t].content
    BY <1>0, <2>1, SaveEffect
  <2>3. VersionsKept(e, job[t].decision = "activated")
    BY <1>0, <2>1, SaveEffect
  <2> QED
    BY <2>2, <2>3 DEF VersionsKept
<1>2. ContentsKept
  BY <1>1 DEF ContentsKept, OthersKept
<1>3. job'[t] = next /\ \A s \in Threads : s # t => job'[s] = job[s]
  BY <1>0, OneJob DEF Save
<1>4. runs' = runs /\ job[t].at = "decided"
  BY DEF Save
<1>5. /\ b \in Versions(e)
      /\ job[t].decision = "activated" =>
           Passed(e, job[t].content, Content(e, b), job[t].data)
  BY <1>0, <1>4 DEF Vetting, Vetted
<1>6. b \in Versions(e)' /\ Content(e, b)' = Content(e, b)
  BY <1>2, <1>5, VersionsSettled
<1>7. n \in Versions(e)' /\ Content(e, n)' = job[t].content
  <2>1. n # 0
    BY <1>0, SMT DEF Typed, TypeOK
  <2> QED
    BY <1>1, <2>1 DEF Versions, Content
<1>8. Vetted(t)'
  BY <1>3, <1>5, <1>6, <1>7 DEF Vetted, Content, Versions
<1>9. \A s \in Threads : job'[s] = job[s] \/ Vetted(s)'
  BY <1>3, <1>8
<1> QED
  BY <1>2, <1>4, <1>9, VettingKept

LEMMA VettingRecord ==
  ASSUME Typed, Vetting, NEW t \in Threads, Record(t)
  PROVE  Vetting'
<1>1. job[t] \in SavedJob /\ job[t].at = "saved"
  BY JobFields DEF Typed, TypeOK, Record
<1>2. rows' = rows
  BY DEF Record
<1>3. ContentsKept
  BY <1>2 DEF ContentsKept
<1> DEFINE run == [version |-> job[t].version, baseline |-> job[t].baseline,
                   decision |-> job[t].decision, used |-> job[t].used, data |-> job[t].data]
<1>4. runs' = [runs EXCEPT ![job[t].engine] = @ \cup {run}] /\ runs \in [Engines -> SUBSET Run]
  BY DEF Record, Typed, TypeOK
<1>5. /\ {run.version, run.baseline} \subseteq Versions(job[t].engine)
      /\ run.decision = "activated" =>
           Passed(job[t].engine, Content(job[t].engine, run.version),
                  Content(job[t].engine, run.baseline), run.data)
  BY <1>1 DEF Vetting, Vetted
<1>6. ASSUME NEW e \in Engines, NEW r \in runs'[e]
      PROVE  r \in runs[e] \/
               /\ {r.version, r.baseline} \subseteq Versions(e)'
               /\ r.decision = "activated" =>
                    Passed(e, Content(e, r.version)', Content(e, r.baseline)', r.data)
  <2>1. r \in runs[e] \/ (e = job[t].engine /\ r = run)
    BY <1>1, <1>4
  <2>2. Versions(e)' = Versions(e) /\ \A v : Content(e, v)' = Content(e, v)
    BY <1>2 DEF Versions, Content
  <2> HIDE DEF run
  <2> QED
    BY <1>5, <2>1, <2>2
<1>7. PICK j : job' = [job EXCEPT ![t] = j] /\ j.at \notin {"replay", "decided", "saved"}
  <2>1. CASE job[t].decision = "activated"
    <3>1. job' = [job EXCEPT ![t] = [at |-> "resolve", used |-> job[t].used]]
      BY <2>1 DEF Record
    <3>2. [at |-> "resolve", used |-> job[t].used].at = "resolve"
      OBVIOUS
    <3> QED
      BY <3>1, <3>2
  <2>2. CASE job[t].decision # "activated"
    <3>1. job' = [job EXCEPT ![t] = Idle]
      BY <2>2 DEF Record
    <3>2. Idle.at = "idle"
      BY DEF Idle
    <3> QED
      BY <3>1, <3>2
  <2> QED
    BY <2>1, <2>2
<1>8. job'[t] = j /\ \A s \in Threads : s # t => job'[s] = job[s]
  BY <1>7, OneJob
<1>9. \A s \in Threads : job'[s] = job[s] \/ Vetted(s)'
  BY <1>7, <1>8 DEF Vetted
<1> QED
  BY <1>3, <1>6, <1>9, VettingKept

LEMMA VettingActivate ==
  ASSUME Typed, Vetting, NEW t \in Threads, NEW e \in Engines, NEW v \in DOMAIN rows[e],
         Activate(t, e, v)
  PROVE  Vetting'
<1>1. ContentsKept
  BY ActivateEffect DEF Typed, ContentsKept, OthersKept
<1>2. runs' = runs /\ job' = [job EXCEPT ![t] = [at |-> "reload"]]
  BY DEF Activate, Begins
<1>3. job'[t] = [at |-> "reload"] /\ \A s \in Threads : s # t => job'[s] = job[s]
  BY <1>2, OneJob
<1>4. \A s \in Threads : job'[s] = job[s] \/ Vetted(s)'
  BY <1>3 DEF Vetted
<1> QED
  BY <1>1, <1>2, <1>4, VettingKept

LEMMA VettingCrash ==
  ASSUME Typed, Vetting, File \/ AddCase \/ Crash \/ UNCHANGED evolutionVars
  PROVE  Vetting'
<1>1. UNCHANGED <<rows, runs>>
  BY DEF File, AddCase, Crash, evolutionVars, table
<1>2. ContentsKept
  BY <1>1 DEF ContentsKept
<1>3. \A s \in Threads : job'[s] = job[s] \/ Vetted(s)'
  BY DEF File, AddCase, Crash, evolutionVars, Vetted, Idle
<1> QED
  BY <1>1, <1>2, <1>3, VettingKept

LEMMA VettingStep == ASSUME Typed, Vetting, [Next]_evolutionVars PROVE Vetting'
<1>1. ASSUME NEW t \in Threads, NEW v \in DOMAIN rows["prompt"], RollbackPrompt(t, v)
      PROVE  Vetting'
  BY <1>1, VettingActivate DEF RollbackPrompt, Engines
<1>2. ASSUME NEW t \in Threads, NEW v \in DOMAIN rows["skill"], RollbackSkill(t, v)
      PROVE  Vetting'
  BY <1>2, VettingActivate DEF RollbackSkill, Engines
<1> QED
  BY <1>1, <1>2, VettingRest, VettingReadBaseline, VettingReplay, VettingSave, VettingRecord,
     VettingCrash DEF Next, Serve

(* A run that is recorded as an activation speaks of contents that are in the *)
(* rows it names: the candidate's was not refused, and passed the gates       *)
(* against the baseline's on data sets that are large enough.                 *)
THEOREM WhatPassedIsActivated == Spec => []ActivatedPassed
<1>1. Init => Typed /\ Vetting
  BY TypedInit, VettingInit
<1>2. Typed /\ Vetting /\ [Next]_evolutionVars => (Typed /\ Vetting)'
  BY TypedStep, VettingStep
<1>3. Vetting => ActivatedPassed
  BY DEF Vetting
<1> QED
  BY <1>1, <1>2, <1>3, PTL DEF Spec

(* ... so that what is activated has merits, if the gates let pass nothing    *)
(* that has none.                                                             *)
LEMMA MeritsShown == ASSUME GateSound, Typed, Learning, Vetting PROVE ActivatedOnMerit
<1> SUFFICES ASSUME NEW e \in Engines, NEW r \in runs[e], r.decision = "activated",
                    Identified(r.data)
             PROVE  Merited(Merits[rows[e][r.version].content], Merits[Content(e, r.baseline)], r.data)
  BY DEF ActivatedOnMerit
<1>1. rows[e] \in Seq(Row) /\ r \in Run
  BY DEF Typed, TypeOK
<1>2. \A v \in DOMAIN rows[e] : rows[e][v] \in Row
  BY <1>1
<1>3. \A v \in Versions(e) : Content(e, v) \in SUBSET Constraints
  BY <1>2 DEF Versions, Content, Row
<1>4. {r.version, r.baseline} \subseteq Versions(e)
  BY DEF Vetting
<1>5. Passed(e, Content(e, r.version), Content(e, r.baseline), r.data)
  BY DEF Vetting, ActivatedPassed
<1>6. r.data \in DataSets
  BY <1>1 DEF Run
<1>7. Merited(Merits[Content(e, r.version)], Merits[Content(e, r.baseline)], r.data)
  BY <1>3, <1>4, <1>5, <1>6 DEF GateSound, SoundOn, Passed
<1>8. r.version \in DOMAIN rows[e] /\ r.version # 0
  BY <1>1, SMT DEF Learning
<1> QED
  BY <1>7, <1>8 DEF Content

(* A candidate is activated on its merits, where no expected item loses its   *)
(* identity: no interleaving, rollback, failure or crash adds anything to     *)
(* what the gates decide, which MCEvolution evaluates.                        *)
THEOREM ActivatedHasMerits == ASSUME GateSound PROVE Spec => []ActivatedOnMerit
<1>1. Init => Typed /\ Learning /\ Vetting
  BY TypedInit, LearningInit, VettingInit
<1>2. Typed /\ Learning /\ Vetting /\ [Next]_evolutionVars => (Typed /\ Learning /\ Vetting)'
  BY TypedStep, LearningStep, VettingStep
<1>3. Typed /\ Learning /\ Vetting => ActivatedOnMerit
  BY MeritsShown
<1> QED
  BY <1>1, <1>2, <1>3, PTL DEF Spec
===============================================================================
