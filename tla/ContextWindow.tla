----------------------------- MODULE ContextWindow -----------------------------
(***************************************************************************)
(* What ContextManager (evoagent/context_manager.py) leaves of a diff and   *)
(* of a role's observations to fit a prompt into its budgets.  Texts are    *)
(* their estimated tokens: a hunk is its size, its risk score and the rank   *)
(* of its path, an observation its size as it is and when it is summarised,  *)
(* a recalled row the size of its content.                                  *)
(*                                                                         *)
(* Used by RoleMemory, whose roles are shown the result.                    *)
(***************************************************************************)
EXTENDS Integers, Sequences, SequencesExt

CONSTANTS
  DiffBudget,        \* diff_token_budget
  EntryTokens,       \* a selected hunk's path, header, score and symbols
  SummaryTokens,     \* the summary of a hunk that was not selected
  BriefTokens,       \* ... of one that was selected and dropped again
  PayloadTokens,     \* the rest of the payload
  RawTokens,         \* of an observation, by what the tool returned
  ShortTokens,       \* of its summary
  AgainTokens,       \* of its summary summarised again, to 160 characters
  MemoryTokens,      \* of the content of the row that remembers it
  RowTokens,         \* the rest of such a row: its id, kind, score and time
  BoundTokens,       \* a recent observation above this is summarised (1200)
  RecentObservations,
  ObservationTokens, \* observation_token_budget
  InputLimit,        \* role -> hard_input_limit
  Path,              \* hunk -> the rank of its path
  TaskTexts,         \* role -> its task's texts beside the diff
  Candidates,        \* role -> the prose of each candidate finding in its task
  KeyTokens,         \* a candidate's index, place and severity
  ToolTokens,        \* role -> available_tools
  PolicyTokens,      \* the rest of a prompt: what remains of the budgets, the policy
  RollupTokens       \* the entry that replaces dropped observations

ASSUME ContextAssumption ==
  /\ {DiffBudget, EntryTokens, SummaryTokens, BriefTokens, PayloadTokens, BoundTokens,
      RecentObservations, ObservationTokens, PolicyTokens, RowTokens, RollupTokens,
      KeyTokens} \subseteq Nat
  /\ {RawTokens, ShortTokens, AgainTokens, MemoryTokens} \subseteq [DOMAIN RawTokens -> Nat]

Least(a, b) == IF a < b THEN a ELSE b
Most(a, b) == IF a > b THEN a ELSE b

Total(sizes) ==
  LET sum[n \in 0 .. Len(sizes)] == IF n = 0 THEN 0 ELSE sum[n - 1] + sizes[n]
  IN sum[Len(sizes)]

-------------------------------------------------------------------------------
(* compress_diff *)

(* _reduce_maps: the riskiest hunk goes first, by path and in the order of    *)
(* the diff else.                                                            *)
Foremost(hunks, risk, rest) ==
  CHOOSE i \in rest : \A j \in rest :
    \/ risk[hunks[i]] > risk[hunks[j]]
    \/ /\ risk[hunks[i]] = risk[hunks[j]]
       /\ \/ Path[hunks[i]] < Path[hunks[j]]
          \/ Path[hunks[i]] = Path[hunks[j]] /\ i <= j

ContentBudget == Most(128, (DiffBudget * 68) \div 100)

(* One hunk of the loop: the excerpt is cut to what remains, and the entry   *)
(* around it may still be too large.                                         *)
Select(hunks, size, risk, chosen) ==
  LET i == Foremost(hunks, risk, chosen.rest)
      remaining == ContentBudget - chosen.used
      content == Least(size[hunks[i]], Most(80, Least(remaining, 1800)))
      first == chosen.shown = <<>>
      next == [chosen EXCEPT !.rest = @ \ {i}]
  IN IF (remaining < 80 \/ content + EntryTokens > remaining) /\ ~first
       THEN [next EXCEPT !.left = Append(@, [hunk |-> i, tokens |-> SummaryTokens])]
       ELSE [next EXCEPT !.shown = Append(@, [hunk |-> i, tokens |-> content]),
                         !.used = @ + content + EntryTokens]

Selected(hunks, size, risk) ==
  LET after[n \in 0 .. Len(hunks)] ==
        IF n = 0 THEN [shown |-> <<>>, left |-> <<>>, used |-> 0, rest |-> DOMAIN hunks]
        ELSE Select(hunks, size, risk, after[n - 1])
  IN after[Len(hunks)]

PayloadSize(p) ==
  PayloadTokens + Total([k \in 1 .. Len(p.shown) |-> p.shown[k].tokens + EntryTokens])
  + Total([k \in 1 .. Len(p.left) |-> p.left[k].tokens])

(* The three loops of _fit_diff_payload: the summaries go, the last selected *)
(* hunk is halved or given up for a summary, then cut to 120 characters or   *)
(* given up.  A diff has few enough files for the step between the last two  *)
(* to change nothing.                                                        *)
Fitting(p) == PayloadSize(p) <= DiffBudget

DropSummaries(p) ==
  LET first(n) == [p EXCEPT !.left = SubSeq(@, 1, n)]
      enough == {n \in 0 .. Len(p.left) : Fitting(first(n))}
  IN IF enough = {} THEN first(0)
     ELSE first(CHOOSE n \in enough : \A other \in enough : other <= n)

Resized(p, size) == [p EXCEPT !.shown[Len(p.shown)].tokens = size]

HalveOnce(p) ==
  LET entry == Last(p.shown) IN
  IF Fitting(p) \/ p.shown = <<>> THEN p
  ELSE IF entry.tokens > 98 THEN Resized(p, Most(79, entry.tokens \div 2))
  ELSE IF Len(p.shown) = 1 THEN p
  ELSE [p EXCEPT !.shown = Front(@),
                 !.left = <<[hunk |-> entry.hunk, tokens |-> BriefTokens]>> \o @]

ClipOnce(p) ==
  IF Fitting(p) \/ p.shown = <<>> THEN p
  ELSE IF Last(p.shown).tokens > 42 THEN Resized(p, 42)
  ELSE IF Len(p.shown) = 1 THEN p
  ELSE [p EXCEPT !.shown = Front(@)]

(* Both loops end by themselves: a hunk of at most 1800 tokens is halved or  *)
(* cut less than seven times, and given up once.                             *)
Rounds(p) == 8 * Len(p.shown)

Halved(p) ==
  LET after[n \in 0 .. Rounds(p)] == IF n = 0 THEN p ELSE HalveOnce(after[n - 1])
  IN after[Rounds(p)]

Clipped120(p) ==
  LET after[n \in 0 .. Rounds(p)] == IF n = 0 THEN p ELSE ClipOnce(after[n - 1])
  IN after[Rounds(p)]

(* The view of the diff, and "omitted_hunks" of its metadata.                *)
DiffView(hunks, size, risk) ==
  LET p == Clipped120(Halved(DropSummaries(Selected(hunks, size, risk))))
  IN [shown |-> p.shown, left |-> p.left, omitted |-> Len(hunks) - Len(p.shown)]

(* render_diff_view: the string that a task holds. *)
ViewTokens(view) ==
  Total([i \in DOMAIN view.shown |-> view.shown[i].tokens])
  + Total([i \in DOMAIN view.left |-> view.left[i].tokens])

-------------------------------------------------------------------------------
(* The task of a role: its texts, of which the diff is the first, the        *)
(* candidates that the Lead or the critic decides about by their index, and  *)
(* the rows of working memory that came back (bounded_role.py:74-79).        *)
Task(role, view, recalled) ==
  [texts |-> <<ViewTokens(view)>> \o TaskTexts[role], candidates |-> Candidates[role],
   memory |-> [i \in 1 .. Len(recalled) |-> MemoryTokens[recalled[i]]]]

TaskSize(task) ==
  Total(task.texts) + Total(task.candidates) + KeyTokens * Len(task.candidates)
  + Total(task.memory) + RowTokens * Len(task.memory)

Shortened(sizes, size) == [i \in 1 .. Len(sizes) |-> Least(sizes[i], size)]

(* Every text is cut, and none is removed. *)
Clipped(task, text, prose, row) ==
  [texts |-> Shortened(task.texts, text), candidates |-> Shortened(task.candidates, prose),
   memory |-> Shortened(task.memory, row)]

(* _compact_task: texts of 600 characters, of 300 inside a candidate or a    *)
(* row, then of 180, 90 and 45.                                              *)
CompactTask(task, budget) ==
  LET once == Clipped(task, 188, 94, 94)
      Cut(size) == Clipped(once, size, size, size)
      cut == <<once, Cut(57), Cut(29), Cut(15)>>
      enough == {k \in DOMAIN cut : TaskSize(cut[k]) <= budget}
  IN IF TaskSize(task) <= budget THEN task
     ELSE IF enough = {} THEN cut[Len(cut)]
     ELSE cut[CHOOSE k \in enough : \A other \in enough : k <= other]

(* _minimal_task: texts of 160 characters, of 80 inside a row, and in the    *)
(* last resort a manifest: 500 characters of the diff, the instruction, and  *)
(* the index and place of every candidate, but no row of working memory.     *)
Brief(task) == Clipped(task, 50, 50, 25)

MinimalTask(task, budget) ==
  LET manifest == [texts |-> [i \in 1 .. Least(2, Len(task.texts)) |->
                                Least(task.texts[i], IF i = 1 THEN 156 ELSE 50)],
                   candidates |-> Shortened(task.candidates, 0), memory |-> <<>>]
  IN IF TaskSize(Brief(task)) <= budget THEN Brief(task) ELSE manifest

-------------------------------------------------------------------------------
(* compact_observations and build_managed_context *)

Size(out, brief) ==
  IF brief \/ RawTokens[out] > BoundTokens THEN ShortTokens[out] ELSE RawTokens[out]

(* The observations from the k-th to the last, those up to the s-th summarised. *)
Sizes(seen, k, s) ==
  [i \in 1 .. Len(seen) - k + 1 |-> Size(seen[i + k - 1], i + k - 1 <= s)]

ObservationBudget(role) ==
  Least(ObservationTokens, Most(128, InputLimit[role] - ToolTokens[role] - 512))

(* Old ones are summarised, then recent ones from the oldest on, then the    *)
(* oldest are dropped; the last one stays, summarised again if it must be.   *)
Compact(seen, budget) ==
  LET n == Len(seen)
      raw == [i \in 1 .. n |-> RawTokens[seen[i]]]
      split == Most(0, n - RecentObservations)
      Fits(k, s) == Total(Sizes(seen, k, s)) <= budget
      enough == {s \in split .. n : Fits(1, s)}
      kept == {k \in 1 .. n : Fits(k, n)}
      First(S) == CHOOSE x \in S : \A y \in S : x <= y
  IN IF Total(raw) <= budget THEN [from |-> 1, sizes |-> raw]
     ELSE IF enough # {} THEN [from |-> 1, sizes |-> Sizes(seen, 1, First(enough))]
     ELSE IF kept # {} THEN [from |-> First(kept), sizes |-> Sizes(seen, First(kept), n)]
     ELSE [from |-> n, sizes |-> <<AgainTokens[Last(seen)]>>]

(* Entries of the prompt: the rollup, as 0, if there is one, and the         *)
(* observations that stay.                                                   *)
Entries(c) ==
  LET stay == [i \in 1 .. Len(c.sizes) |-> [of |-> c.from + i - 1, tokens |-> c.sizes[i]]]
  IN IF c.from = 1 THEN stay ELSE <<[of |-> 0, tokens |-> RollupTokens]>> \o stay

EntrySizes(entries) == [i \in 1 .. Len(entries) |-> entries[i].tokens]

(* Mutant of Trimmed: the last entry goes first. *)
TrimmedLast(entries, room) ==
  LET fit == {n \in 0 .. Len(entries) : Total(EntrySizes(SubSeq(entries, 1, n))) <= room}
  IN IF fit = {} THEN <<>>
     ELSE SubSeq(entries, 1, CHOOSE n \in fit : \A other \in fit : other <= n)

(* "A final defensive reduction": the first entry goes while it is too much. *)
Trimmed(entries, room) ==
  LET n == Len(entries)
      fit == {k \in 1 .. n : Total(EntrySizes(SubSeq(entries, k, n))) <= room}
  IN IF fit = {} THEN <<>>
     ELSE SubSeq(entries, CHOOSE k \in fit : \A other \in fit : k <= other, n)

(* What a prompt of the role shows of its own observations, by their steps,  *)
(* how many of them the trace of the prompt counts as dropped (the rollup    *)
(* counts as one when it goes), and its task: the task is compacted if all   *)
(* is too much, entries go, and the task is cut in the last resort.          *)
TooMuch(task, entries, room) == TaskSize(task) + Total(EntrySizes(entries)) > room

Reduced(task, before, entries, from, room, least) ==
  LET own == IF entries # <<>> /\ entries[1].of = 0 THEN Tail(entries) ELSE entries
  IN [shown |-> [i \in DOMAIN own |-> own[i].of],
      counted |-> from - 1 + Len(before) - Len(entries),
      task |-> IF TooMuch(task, entries, room) THEN MinimalTask(task, least) ELSE task]

Fitted(task, before, from, room, least) ==
  Reduced(task, before, Trimmed(before, room - TaskSize(task)), from, room, least)

(* What the tools leave of the limit, for the whole rest and for a task that  *)
(* is compacted and cut in the last resort.                                  *)
Room(role) == InputLimit[role] - ToolTokens[role] - PolicyTokens
CompactRoom(role) ==
  Most(256, InputLimit[role] - ToolTokens[role] - ObservationBudget(role) - 256)
LeastRoom(role) == Most(192, InputLimit[role] - ToolTokens[role] - 320)

(* A task is too much with its rows, however short its texts are cut.         *)
Crowded(role, view, recalled) ==
  TaskSize(Brief(Task(role, view, recalled))) > LeastRoom(role)

Window(seen, role, view, recalled) ==
  LET compact == Compact(seen, ObservationBudget(role))
      whole == Task(role, view, recalled)
      Fit(before) ==
        Fitted(IF TooMuch(whole, before, Room(role)) THEN CompactTask(whole, CompactRoom(role))
               ELSE whole,
               before, compact.from, Room(role), LeastRoom(role))
  IN Fit(Entries(compact))
===============================================================================
