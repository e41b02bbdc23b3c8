--------------------------------- MODULE Repair ---------------------------------
(***************************************************************************)
(* Automatic fixes: ReviewService.create_fix with VerifiedPatchFixer        *)
(* (evoagent/patching.py), the sandbox of RepairVerifier, and the commit    *)
(* and draft pull request it leaves on GitHub through GitHubClient, whose   *)
(* every call may be tried again.                                          *)
(*                                                                         *)
(* A request runs on a thread of the API.  Others work on the same pull     *)
(* request, and its author pushes while they do.  GitHub is external: a     *)
(* reference is created once, a branch has one draft.                       *)
(*                                                                         *)
(* A file is the sequence of its lines, each a text and what ends it; a     *)
(* tree maps paths to files.                                               *)
(***************************************************************************)
EXTENDS Integers, Sequences, SequencesExt

CONSTANTS
  Requests,
  Path,           \* -> a number: files are read in the order of their paths
  Texts,          \* of lines
  Empty,          \* the text of an empty line
  Tree0,          \* the head of the pull request
  Pushes,         \* trees its author pushes after it
  Patches,        \* what the model answers: path -> hunks
  Stamps,         \* the seconds in which a branch is named
  MaxAttempts,    \* max_attempts of a call
  MaxFailures       \* bound

Paths == DOMAIN Tree0

(* What splitlines() takes for the end of a line: a line feed, a carriage    *)
(* return with it, another separator, or the end of the file.                *)
Ends == {"lf", "crlf", "other", "none"}
Files == {file \in Seq([text : Texts, end : Ends]) :
            \A i \in DOMAIN file :
              file[i].end = "none" => i = Len(file) /\ file[i].text # Empty}

Hunks == [start : Nat, old : Nat, new : Nat,
          lines : Seq([tag : {" ", "-", "+"}, text : Texts])]

ASSUME RepairAssumption ==
  /\ {Tree0} \cup Pushes \subseteq [Paths -> Files]
  /\ \A p \in Patches : \A path \in DOMAIN p : p[path] \in Seq(Hunks)
  /\ MaxAttempts \in Nat \ {0} /\ MaxFailures \in Nat

VARIABLES
  pushed,     \* the commits of the pull request; the last is its head
  branches,   \* fix branches on GitHub: name -> its commit
  drafts,     \* draft pull requests: branch -> the request that opened it
  stage,         \* where each request is
  source,     \* source_sha
  originals,  \* files it has read
  patch,      \* what the model answered
  changed,    \* files it is going to commit
  tested,     \* history: the trees the test command ran on, and whether it passed
  branch, attempt,
  failures

github == <<branches, drafts>>
work == <<source, originals, patch, changed, tested>>
repairVars == <<pushed, github, stage, work, branch, attempt, failures>>

None == <<>>

RepairInit ==
  /\ pushed = <<Tree0>>
  /\ branches = <<>> /\ drafts = <<>>
  /\ stage = [r \in Requests |-> "start"]
  /\ source = [r \in Requests |-> 0]
  /\ originals = [r \in Requests |-> None]
  /\ patch = [r \in Requests |-> None] /\ changed = [r \in Requests |-> None]
  /\ tested = [r \in Requests |-> {}]
  /\ branch = [r \in Requests |-> 0] /\ attempt = [r \in Requests |-> 1]
  /\ failures = 0

(* new over old, and one entry over what is there. *)
Over(new, old) ==
  [x \in DOMAIN new \cup DOMAIN old |-> IF x \in DOMAIN new THEN new[x] ELSE old[x]]
Put(name, value, old) == Over([x \in {name} |-> value], old)

To(r, label) == stage' = [stage EXCEPT ![r] = label]
Failure == failures < MaxFailures /\ failures' = failures + 1

(* The author of the pull request, once. *)
Push ==
  /\ Len(pushed) = 1
  /\ \E tree \in Pushes : pushed' = Append(pushed, tree)
  /\ UNCHANGED <<github, stage, work, branch, attempt, failures>>

-------------------------------------------------------------------------------
(* parse_unified_patch and apply_file_patch.  A hunk starts at a line of the *)
(* source, says how many lines it takes and leaves, and is a sequence of     *)
(* lines that are kept (" "), taken ("-") or put ("+").                      *)

(* The n-th of a set of numbers.                                             *)
Rank(at, i) == Cardinality({j \in at : j <= i})
Nth(at, n) == CHOOSE i \in at : Rank(at, i) = n

(* The texts of the lines with one of the tags, in their order.              *)
Side(hunk, tags) ==
  LET at == {i \in DOMAIN hunk.lines : hunk.lines[i].tag \in tags}
  IN [n \in 1 .. Cardinality(at) |-> hunk.lines[Nth(at, n)].text]
OldSide(hunk) == Side(hunk, {" ", "-"})
NewSide(hunk) == Side(hunk, {" ", "+"})

Parses(p) ==
  /\ DOMAIN p \subseteq Paths
  /\ \A path \in DOMAIN p : \A i \in DOMAIN p[path] :
       LET hunk == p[path][i] IN
       hunk.old = Len(OldSide(hunk)) /\ hunk.new = Len(NewSide(hunk))

(* Mutant of Matches: a hunk may begin before the end of the last one. *)
MatchesAnywhere(hunk, content, cursor) ==
  LET from == hunk.start - 1 IN
  /\ from >= 0 /\ from + hunk.old <= Len(content)
  /\ SubSeq(content, from + 1, from + hunk.old) = OldSide(hunk)

(* A hunk matches behind the last one, at the line it names and no other.    *)
Matches(hunk, content, cursor) ==
  LET from == hunk.start - 1 IN
  /\ from >= cursor /\ from + hunk.old <= Len(content)
  /\ SubSeq(content, from + 1, from + hunk.old) = OldSide(hunk)

(* What is between the last hunk and this one is copied, if it matches.      *)
Taken(content, done, hunk) ==
  IF ~done.ok \/ ~Matches(hunk, content, done.cursor) THEN [done EXCEPT !.ok = FALSE]
  ELSE [ok |-> TRUE, cursor |-> hunk.start - 1 + hunk.old,
        out |-> done.out \o SubSeq(content, done.cursor + 1, hunk.start - 1) \o NewSide(hunk)]

(* All hunks, and what is behind them; "ok" says whether all of them match.  *)
ApplyHunks(content, hunks) ==
  LET done[n \in 0 .. Len(hunks)] ==
        IF n = 0 THEN [ok |-> TRUE, cursor |-> 0, out |-> <<>>]
        ELSE Taken(content, done[n - 1], hunks[n])
      end == done[Len(hunks)]
  IN [ok |-> end.ok, out |-> end.out \o SubSeq(content, end.cursor + 1, Len(content))]

Lines(file) == [i \in DOMAIN file |-> file[i].text]
Closed(file) == file # <<>> /\ Last(file).end \in {"lf", "crlf"}

(* Every line is ended by a line feed, the last one where the file was       *)
(* closed: a closed file without lines has an empty one, and an empty last   *)
(* line of another file is lost.                                             *)
Joined(texts, closed) ==
  LET written ==
        CASE closed /\ texts = <<>> -> <<Empty>>
          [] ~closed /\ texts # <<>> /\ Last(texts) = Empty -> Front(texts)
          [] OTHER -> texts
  IN [i \in DOMAIN written |->
        [text |-> written[i], end |-> IF closed \/ i < Len(texts) THEN "lf" ELSE "none"]]

Apply(file, hunks) ==
  LET new == ApplyHunks(Lines(file), hunks)
  IN [ok |-> new.ok, out |-> Joined(new.out, Closed(file))]

Applied(files, p) == [path \in DOMAIN p |-> Apply(files[path], p[path])]

(* The files that are new after a patch that applies to all of its files.    *)
Changed(files, p) ==
  LET new == Applied(files, p)
      differ == {path \in DOMAIN p : new[path].out # files[path]}
  IN [path \in differ |-> new[path].out]

-------------------------------------------------------------------------------
(* create_fix_commits, until something is to be published *)

(* The commit under review is the head of this moment.  A report may have no *)
(* finding that passed the gate.                                             *)
Start(r) ==
  /\ stage[r] = "start"
  /\ source' = [source EXCEPT ![r] = Len(pushed)]
  /\ To(r, "reading") \/ To(r, "suggestion-only")
  /\ UNCHANGED <<pushed, github, originals, patch, changed, tested, branch, attempt, failures>>

(* The files are read by the name of the branch, not from that commit.       *)
ReadFile(r) ==
  LET left == Paths \ DOMAIN originals[r] IN
  /\ stage[r] = "reading"
  /\ \E path \in left :
       /\ \A other \in left : Path[path] <= Path[other]
       /\ originals' = [originals EXCEPT ![r] = Put(path, Last(pushed)[path], @)]
       /\ To(r, IF left = {path} THEN "asking" ELSE "reading")
  /\ UNCHANGED <<pushed, github, source, patch, changed, tested, branch, attempt, failures>>

(* The model has no patch. *)
NoPatch(r) ==
  /\ stage[r] = "asking" /\ To(r, "suggestion-only")
  /\ UNCHANGED <<pushed, github, work, branch, attempt, failures>>

(* A patch that cannot be parsed or applied, or changes nothing: an error.   *)
BadPatch(r) ==
  /\ stage[r] = "asking"
  /\ \E p \in Patches :
       \/ ~Parses(p)
       \/ \E path \in DOMAIN p : ~Applied(originals[r], p)[path].ok
       \/ DOMAIN Changed(originals[r], p) = {}
  /\ To(r, "failed")
  /\ UNCHANGED <<pushed, github, work, branch, attempt, failures>>

(* One that applies and changes files.                                       *)
GoodPatch(r) ==
  /\ stage[r] = "asking"
  /\ \E p \in {q \in Patches : Parses(q)} :
       /\ \A path \in DOMAIN p : Applied(originals[r], p)[path].ok
       /\ DOMAIN Changed(originals[r], p) # {}
       /\ patch' = [patch EXCEPT ![r] = p]
       /\ changed' = [changed EXCEPT ![r] = Changed(originals[r], p)]
  /\ To(r, "checking")
  /\ UNCHANGED <<pushed, github, source, originals, tested, branch, attempt, failures>>

(* verify_contents: the files compile, or they do not.  What compiles is a   *)
(* suggestion only where no command for the tests is configured.             *)
Check(r) ==
  /\ stage[r] = "checking"
  /\ \E next \in {"testing", "blocked", "suggestion-only"} : To(r, next)
  /\ UNCHANGED <<pushed, github, work, branch, attempt, failures>>

(* verify_archive on the source commit as it is and with the changed files,  *)
(* then compare; what passes is given the name of its branch.                *)
Test(r) ==
  LET before == pushed[source[r]]
      after == Over(changed[r], before)
  IN
  /\ stage[r] = "testing"
  /\ \E baseline, fixed \in BOOLEAN :
       /\ tested' = [tested EXCEPT ![r] = {[tree |-> before, passed |-> baseline],
                                          [tree |-> after, passed |-> fixed]}]
       /\ \/ /\ baseline /\ fixed /\ To(r, "branching")
             /\ \E stamp \in Stamps : branch' = [branch EXCEPT ![r] = stamp]
          \/ /\ ~(baseline /\ fixed) /\ To(r, "blocked")
             /\ UNCHANGED branch
  /\ UNCHANGED <<pushed, github, source, originals, patch, changed, attempt, failures>>

(* A call that only reads, the model's, or the creation of a tree or a       *)
(* commit nobody refers to yet has failed for good.                          *)
Fails(r) ==
  /\ stage[r] \in {"start", "reading", "asking", "testing", "branching"} /\ Failure
  /\ To(r, "failed")
  /\ UNCHANGED <<pushed, github, work, branch, attempt>>

-------------------------------------------------------------------------------
(* create_atomic_commit and create_draft_pull_request.  A call whose answer  *)
(* is lost or says that the server has failed is sent again; that a branch   *)
(* or a draft exists is not a failure of this kind.                          *)

(* Mutant of Commit: it is put on the head the pull request has now. *)
CommitOnHead(r) ==
  [parent |-> Len(pushed), tree |-> Over(changed[r], Last(pushed)), by |-> r]

Commit(r) ==
  [parent |-> source[r], tree |-> Over(changed[r], pushed[source[r]]), by |-> r]

Answered(r, label) ==
  /\ To(r, label) /\ attempt' = [attempt EXCEPT ![r] = 1]
  /\ UNCHANGED failures

Again(r) ==
  /\ Failure
  /\ \/ attempt[r] < MaxAttempts /\ attempt' = [attempt EXCEPT ![r] = @ + 1] /\ UNCHANGED stage
     \/ attempt[r] = MaxAttempts /\ To(r, "failed") /\ UNCHANGED attempt

NewBranch(r) ==
  /\ branch[r] \notin DOMAIN branches
  /\ branches' = Put(branch[r], Commit(r), branches)

(* Mutant of CreateBranch: a branch that exists is taken for its own. *)
CreateBranchTaken(r) ==
  /\ stage[r] = "branching"
  /\ \/ NewBranch(r) /\ Answered(r, "drafting")
     \/ branch[r] \in DOMAIN branches /\ Answered(r, "drafting") /\ UNCHANGED branches
  /\ UNCHANGED <<pushed, drafts, work, branch>>

CreateBranch(r) ==
  /\ stage[r] = "branching"
  /\ \/ NewBranch(r) /\ (Answered(r, "drafting") \/ Again(r))
     \/ branch[r] \in DOMAIN branches /\ Answered(r, "failed") /\ UNCHANGED branches
     \/ Again(r) /\ UNCHANGED branches
  /\ UNCHANGED <<pushed, drafts, work, branch>>

NewDraft(r) ==
  /\ branch[r] \notin DOMAIN drafts
  /\ drafts' = Put(branch[r], r, drafts)

CreateDraft(r) ==
  /\ stage[r] = "drafting"
  /\ \/ NewDraft(r) /\ (Answered(r, "verified-draft") \/ Again(r))
     \/ branch[r] \in DOMAIN drafts /\ Answered(r, "failed") /\ UNCHANGED drafts
     \/ Again(r) /\ UNCHANGED drafts
  /\ UNCHANGED <<pushed, branches, work, branch>>

-------------------------------------------------------------------------------
Fix(r) ==
  \/ Start(r) \/ ReadFile(r) \/ NoPatch(r) \/ BadPatch(r) \/ GoodPatch(r)
  \/ Check(r) \/ Test(r) \/ Fails(r) \/ CreateBranch(r) \/ CreateDraft(r)

RepairNext == Push \/ \E r \in Requests : Fix(r)

RepairSpec == RepairInit /\ [][RepairNext]_repairVars

-------------------------------------------------------------------------------
(* Properties *)

(* patching.py:210, "configured tests passed in an isolated checkout": the   *)
(* tests have passed on the very tree a branch has, and on the one its       *)
(* parent has, whatever was pushed in between and however often a call was   *)
(* sent.                                                                     *)
VerifiedPublished ==
  \A name \in DOMAIN branches :
    LET published == branches[name]
        Passed(tree) == [tree |-> tree, passed |-> TRUE] \in tested[published.by]
    IN Passed(published.tree) /\ Passed(pushed[published.parent])

(* The hunks that take a patched file back: what was put is taken, at the     *)
(* line where it is now.                                                     *)
Reversed(hunks) ==
  LET Turned(line) == [line EXCEPT !.tag = CASE @ = "-" -> "+" [] @ = "+" -> "-" [] OTHER -> @]
      shift[n \in 0 .. Len(hunks)] ==
        IF n = 0 THEN 0 ELSE shift[n - 1] + hunks[n].new - hunks[n].old
  IN [n \in DOMAIN hunks |->
        [start |-> hunks[n].start + shift[n - 1], old |-> hunks[n].new, new |-> hunks[n].old,
         lines |-> [k \in DOMAIN hunks[n].lines |-> Turned(hunks[n].lines[k])]]]

(* The lines a file was joined from. *)
JoinedFrom(file, closed) ==
  {texts \in {Lines(file), Append(Lines(file), Empty), <<>>} : Joined(texts, closed) = file}

(* Taking the hunks back from the new file gives the lines of the old one;   *)
(* the lines of the new one end as they are joined.                          *)
TakesBack(new, hunks, old) ==
  \E texts \in JoinedFrom(new, Closed(old)) :
    ApplyHunks(texts, Reversed(hunks)) = [ok |-> TRUE, out |-> Lines(old)]

Leaves(hunks, file) == Apply(file, hunks) = [ok |-> TRUE, out |-> file]

(* What a file has been since a commit was pushed. *)
Versions(path, commit) == {pushed[k][path] : k \in commit .. Len(pushed)}

(* patching.py:14, "without unrelated changes": a published file that is not  *)
(* its parent's is one the patch names, and taking the patch back from it    *)
(* gives, line by line, the file of the parent or of a commit pushed after   *)
(* it, which is what was read.  A file the patch names is its parent's only  *)
(* if the patch leaves what was read as it is.                               *)
PatchOnly ==
  \A name \in DOMAIN branches, path \in Paths :
    LET published == branches[name]
        p == patch[published.by]
        read == Versions(path, published.parent)
    IN \/ /\ path \in DOMAIN p
          /\ \E old \in read : TakesBack(published.tree[path], p[path], old)
       \/ /\ published.tree[path] = pushed[published.parent][path]
          /\ path \in DOMAIN p => \E old \in read : Leaves(p[path], old)

(* patching.py:213: what is reported as a verified draft is on GitHub, and is *)
(* the request's own commit and draft, also when two requests name their     *)
(* branch in the same second or a call was carried out and sent again.       *)
ReportTrue ==
  \A r \in Requests : stage[r] = "verified-draft" =>
    /\ branch[r] \in DOMAIN branches /\ branches[branch[r]].by = r
    /\ branch[r] \in DOMAIN drafts /\ drafts[branch[r]] = r
===============================================================================
