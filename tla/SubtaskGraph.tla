---------------------------- MODULE SubtaskGraph ----------------------------
(***************************************************************************)
(* The product subtasks of one application task: declared with owned paths *)
(* and dependencies, started in worktrees of their own, reviewed, folded   *)
(* by the Git broker into the task branch when their review passes, and    *)
(* retired or reopened.  harness/board.py keeps the plan and the review    *)
(* requests; harness/git_broker.py moves the branches and keeps a journal  *)
(* that survives a board transaction that does not commit.                 *)
(*                                                                         *)
(* A commit of the task branch is its place in hist (the branch only grows *)
(* by folds), a tree a function from paths to the commit that last wrote   *)
(* them.  Every operation holds the board lock and the broker's project    *)
(* lock, so only a death shows what lies between two of its steps: the     *)
(* actions say how far an operation got.                                   *)
(***************************************************************************)
EXTENDS Naturals, Sequences, FiniteSets, FiniteSetsExt, TLC

CONSTANTS
    Subtasks, Paths,
    Scopes,      \* the sets of paths a subtask may be declared to own
    Nobody,      \* the author of what the task began with
    MaxCommits,  \* commits of one subtask
    MaxReviews,  \* review requests, chunk reviews included
    Budget,      \* how often each kind of disturbance happens
    MaxTroubles  \* disturbances in all

Kinds == {"death", "edit", "invalid", "withdraw", "refused", "split"}

ASSUME SubtaskAssumption ==
    /\ Scopes \subseteq SUBSET Paths
    /\ Nobody \notin Subtasks
    /\ MaxCommits \in Nat /\ MaxReviews \in Nat /\ Budget \in [Kinds -> Nat] /\ MaxTroubles \in Nat

VARIABLES
    items,     \* the plan: a record for each declared subtask
    requests,  \* the review requests, in order
    branch,    \* the tree of each subtask's branch
    at,        \* the task commit that branch is at, 0 once it has its own
    hist,      \* the trees of the task branch, oldest first
    work,      \* the commit the task worktree holds
    edited,    \* somebody edited the task worktree by hand
    journal,   \* the broker's fold transactions
    spent
vars == <<items, requests, branch, at, hist, work, edited, journal, spent>>
git == <<branch, at, hist, work, edited, journal>>

Statuses == {"open", "passed", "superseded"}
Pipelines == {"pending", "in_progress", "in_review", "passed", "superseded"}
Trees == [Paths -> (Subtasks \cup {Nobody}) \X (0..MaxCommits)]

TypeOK ==
    /\ DOMAIN items \subseteq Subtasks
    /\ \A s \in DOMAIN items : items[s] \in
         [status : Statuses, pipe : Pipelines, deps : SUBSET DOMAIN items, owned : Scopes,
          base : 1..Len(hist), active : 0..Len(requests),
          chunk : {"none", "open", "passed"}]
    /\ \A r \in DOMAIN requests : requests[r] \in
         [sub : DOMAIN items, phase : {"chunk", "acceptance"}, tree : Trees,
          base : 1..Len(hist), current : BOOLEAN, integrated : 0..Len(hist),
          status : {"open", "passed", "failed", "invalidated", "withdrawn"}]
    /\ branch \in [Subtasks -> Trees] /\ at \in [Subtasks -> 0..Len(hist)]
    /\ \A n \in DOMAIN hist : hist[n] \in Trees
    /\ work \in DOMAIN hist /\ edited \in BOOLEAN
    /\ \A j \in DOMAIN journal : journal[j] \in
         [request : DOMAIN requests, prev : 1..Len(hist), target : 0..Len(hist),
          done : BOOLEAN, held : BOOLEAN]
    /\ \A k \in Kinds : spent[k] \in 0..Budget[k]

Tip == Len(hist)
Spend(k) ==
    /\ spent[k] < Budget[k] /\ MapThenSumSet(LAMBDA j : spent[j], Kinds) < MaxTroubles
    /\ spent' = [spent EXCEPT ![k] = @ + 1]

----------------------------------------------------------------------------
(* The plan                                                                *)

Open(r) == requests[r].status = "open"
OfSubtask(s) == {r \in DOMAIN requests : requests[r].sub = s}

\* A PASS counts first, then a review under way, then what the item says.
Effective(s) ==
    IF items[s].status = "passed" THEN "passed"
    ELSE IF \E r \in OfSubtask(s) : Open(r) THEN "in_review"
    ELSE items[s].pipe

Live == {s \in DOMAIN items : items[s].status # "superseded"}
Passed(s) == items[s].status = "passed"
Active(s) == Effective(s) \in {"in_progress", "in_review"}
\* A mutant: two scopes are compared as wholes, not path by path.
OverlapsWholly(s, t) == items[s].owned = items[t].owned

Overlaps(s, t) == items[s].owned \cap items[t].owned # {}

\* No subtask waits, in the end, for itself.
Acyclic(deps) ==
    ~ \E loop \in SUBSET DOMAIN deps \ {{}} :
         \A s \in loop : deps[s] \cap loop # {}

\* A new structure revision: the requests made before it are of an older one.
Restructured == requests' = [r \in DOMAIN requests |-> [requests[r] EXCEPT !.current = FALSE]]

Declare(batch, deps, owned) ==
    LET all == (batch \cup DOMAIN items) IN
    /\ batch # {}
    /\ Acyclic([s \in all |-> IF s \in batch THEN deps[s] ELSE items[s].deps])
    /\ items' = [s \in all |->
                   IF s \in batch
                   THEN [status |-> "open", pipe |-> "pending", deps |-> deps[s], owned |-> owned[s],
                         base |-> Tip, active |-> 0, chunk |-> "none"]
                   ELSE items[s]]
    /\ branch' = [s \in Subtasks |-> IF s \in batch THEN hist[Tip] ELSE branch[s]]
    /\ at' = [s \in Subtasks |-> IF s \in batch THEN Tip ELSE at[s]]
    /\ Restructured
    /\ UNCHANGED <<hist, work, edited, journal, spent>>

\* Splitting sets the subtask back to pending, whatever it was.
DeclareChunks(s) ==
    /\ items[s].chunk = "none" /\ Spend("split")
    /\ items' = [items EXCEPT ![s].chunk = "open", ![s].status = "open",
                              ![s].pipe = "pending", ![s].active = 0]
    /\ Restructured
    /\ UNCHANGED git

LastFailed(s) ==
    LET last == Max(OfSubtask(s)) IN
    OfSubtask(s) # {} /\ requests[last].status \in {"failed", "invalidated"}

\* Work that runs, failed, passed or is needed is never retired.
Supersede(s) ==
    /\ items[s].status = "open" /\ ~Active(s) /\ ~LastFailed(s)
    /\ \A t \in Live : s \in items[t].deps => Passed(t)
    /\ Live # {s}
    /\ items' = [items EXCEPT ![s].status = "superseded", ![s].pipe = "superseded"]
    /\ UNCHANGED <<requests, git, spent>>

----------------------------------------------------------------------------
(* Starting a subtask and committing in its worktree                       *)

\* The branch of a subtask nobody worked on is moved to the task's head.
Refreshable(s) == items[s].pipe = "pending" /\ at[s] \in {items[s].base, Tip}
Refreshed(s) ==
    /\ branch' = [branch EXCEPT ![s] = hist[Tip]] /\ at' = [at EXCEPT ![s] = Tip]

\* A mutant: a dependency whose review is still under way is enough.
DependenciesReviewed(s) == \A d \in items[s].deps : Effective(d) \in {"passed", "in_review"}

DependenciesPassed(s) == \A d \in items[s].deps : Passed(d)
Free(s) == \A t \in DOMAIN items \ {s} : Active(t) => ~Overlaps(s, t)

Startable(s) ==
    /\ Effective(s) \notin {"in_progress", "in_review", "passed", "superseded"}
    /\ DependenciesPassed(s)

Start(s) ==
    /\ Startable(s) /\ Refreshable(s) /\ Free(s)
    /\ Refreshed(s)
    /\ items' = [items EXCEPT ![s].pipe = "in_progress", ![s].base = Tip]
    /\ UNCHANGED <<requests, hist, work, edited, journal, spent>>

\* The branch is moved before the ownership is compared: when the start is
\* then refused, or dies, the board keeps the base it had.
StartUndone(s) ==
    /\ Startable(s) /\ Refreshable(s)
    /\ \/ ~Free(s) /\ Spend("refused")
       \/ Spend("death")
    /\ Refreshed(s)
    /\ UNCHANGED <<items, requests, hist, work, edited, journal>>

CommitsOf(s) == Max({branch[s][p][2] : p \in {q \in Paths : branch[s][q][1] = s}} \cup {0})

Commit(s, written) ==
    /\ Effective(s) = "in_progress" /\ written \in SUBSET items[s].owned \ {{}}
    /\ CommitsOf(s) < MaxCommits
    /\ branch' = [branch EXCEPT ![s] =
                    [p \in Paths |-> IF p \in written THEN <<s, CommitsOf(s) + 1>> ELSE @[p]]]
    /\ at' = [at EXCEPT ![s] = 0]
    /\ UNCHANGED <<items, requests, hist, work, edited, journal, spent>>

----------------------------------------------------------------------------
(* Reviews                                                                 *)

RequestReview(s, phase) ==
    /\ Effective(s) = "in_progress" /\ Len(requests) < MaxReviews
    /\ branch[s] # hist[items[s].base]
    /\ IF phase = "chunk" THEN items[s].chunk = "open"
       ELSE DependenciesPassed(s) /\ items[s].chunk # "open"
    /\ requests' = Append(requests,
         [sub |-> s, phase |-> phase, tree |-> branch[s], base |-> items[s].base,
          current |-> TRUE, integrated |-> 0, status |-> "open"])
    /\ items' = [items EXCEPT ![s].pipe = "in_review", ![s].active = Len(requests')]
    /\ UNCHANGED <<git, spent>>

\* What a result does to the item of its scope (_set_review_scope_status).
Settled(item, phase, result) ==
    [item EXCEPT !.chunk = IF phase = "chunk" THEN result ELSE @,
                 !.status = IF phase = "acceptance" THEN result ELSE @,
                 !.active = 0,
                 !.pipe = IF phase = "acceptance" /\ result = "passed"
                          THEN "passed" ELSE "in_progress"]

Settle(r, status, result) ==
    /\ requests' = [requests EXCEPT ![r].status = status]
    /\ items' = [items EXCEPT ![requests[r].sub] = Settled(@, requests[r].phase, result)]

Fail(r) ==
    /\ Open(r) /\ Settle(r, "failed", "open") /\ UNCHANGED <<git, spent>>

PassChunk(r) ==
    /\ Open(r) /\ requests[r].phase = "chunk" /\ Settle(r, "passed", "passed")
    /\ UNCHANGED <<git, spent>>

\* A request that can reach no verdict is closed and its scope freed.
Freed(item, r) ==
    IF item.active # r THEN item
    ELSE [item EXCEPT !.active = 0, !.pipe = IF @ = "in_review" THEN "in_progress" ELSE @]

Withdraw(r) ==
    LET s == requests[r].sub IN
    /\ Open(r) /\ Spend("withdraw")
    /\ requests' = [requests EXCEPT ![r].status = "withdrawn"]
    /\ items' = [items EXCEPT ![s] = Freed(@, r)]
    /\ UNCHANGED git

----------------------------------------------------------------------------
(* The fold of a reviewed subtask, inside the transaction of its PASS      *)

Manifest(r) == {p \in Paths : requests[r].tree[p] # hist[requests[r].base][p]}
HeadHas(r) == \A p \in Manifest(r) : hist[Tip][p] = requests[r].tree[p]

\* The patch applies, and gives exactly the reviewed bytes, where the task
\* still has what the subtask began from.
Applies(r) == \A p \in Manifest(r) : hist[Tip][p] = hist[requests[r].base][p]
\* A mutant: the branch of the subtask takes the place of the task's tree.
FoldedBranch(r) == requests[r].tree

FoldedTree(r) == [p \in Paths |-> IF p \in Manifest(r) THEN requests[r].tree[p] ELSE hist[Tip][p]]

CleanWorktree == work = Tip /\ ~edited

\* A mutant: a journal line is enough, whether or not the branch was moved.
BegunFolds(r) == {j \in DOMAIN journal : journal[j].request = r /\ ~journal[j].held}

\* Earlier folds of this request that are in the task's history.
CompletedFolds(r) ==
    {j \in DOMAIN journal : journal[j].request = r /\ ~journal[j].held /\ journal[j].target # 0}

Row(r, target, done) ==
    [request |-> r, prev |-> Tip, target |-> target, done |-> done, held |-> FALSE]

\* git reset --hard: what was edited by hand is gone.
Reset(commit) == work' = commit /\ edited' = FALSE

\* A mutant: the worktree is reset without looking for edits.
FoldAgainBlind(r, upto) ==
    LET j == Max(CompletedFolds(r)) IN
    /\ CompletedFolds(r) # {} /\ upto \in {"reset", "done", "recorded"}
    /\ Reset(Tip)
    /\ journal' = [journal EXCEPT ![j].done = @ \/ upto # "reset"]
    /\ hist' = hist
    /\ requests' = IF upto = "recorded"
                   THEN [requests EXCEPT ![r].integrated = journal[j].target, ![r].status = "passed"]
                   ELSE requests

FoldAgain(r, upto) ==
    LET j == Max(CompletedFolds(r)) IN
    /\ CompletedFolds(r) # {} /\ ~edited /\ upto \in {"reset", "done", "recorded"}
    /\ Reset(Tip)
    /\ journal' = [journal EXCEPT ![j].done = @ \/ upto # "reset"]
    /\ hist' = hist
    /\ requests' = IF upto = "recorded"
                   THEN [requests EXCEPT ![r].integrated = journal[j].target, ![r].status = "passed"]
                   ELSE requests

FoldNothing(r, upto) ==
    /\ CompletedFolds(r) = {} /\ CleanWorktree /\ HeadHas(r) /\ upto \in {"intent", "done", "recorded"}
    /\ journal' = Append(journal, Row(r, Tip, upto # "intent"))
    /\ UNCHANGED <<work, edited, hist>>
    /\ requests' = IF upto = "recorded"
                   THEN [requests EXCEPT ![r].integrated = Tip, ![r].status = "passed"]
                   ELSE requests

FoldPatch(r, upto) ==
    /\ CompletedFolds(r) = {} /\ CleanWorktree /\ ~HeadHas(r) /\ Applies(r)
    /\ journal' = Append(journal, Row(r, IF upto = "intent" THEN 0 ELSE Tip + 1,
                                      upto \in {"done", "recorded"}))
    /\ hist' = IF upto = "intent" THEN hist ELSE Append(hist, FoldedTree(r))
    /\ IF upto \in {"intent", "moved"} THEN UNCHANGED <<work, edited>> ELSE Reset(Tip + 1)
    /\ requests' = IF upto = "recorded"
                   THEN [requests EXCEPT ![r].integrated = Tip + 1, ![r].status = "passed"]
                   ELSE requests

\* A PASS of a subtask's acceptance.  "recorded" is the whole of it; anything
\* else is how far it got before the process died and the board forgot it.
Pass(r, upto) ==
    LET s == requests[r].sub IN
    /\ Open(r) /\ requests[r].phase = "acceptance" /\ items[s].active = r
    /\ FoldAgain(r, upto) \/ FoldNothing(r, upto) \/ FoldPatch(r, upto)
    /\ IF upto = "recorded"
       THEN items' = [items EXCEPT ![s] = Settled(@, "acceptance", "passed")] /\ spent' = spent
       ELSE Spend("death") /\ items' = items
    /\ UNCHANGED <<branch, at>>

\* Worker start, recover-git: the transactions that are not done, in order.
Recover ==
    LET rest == {j \in DOMAIN journal : ~journal[j].done}
        moved == {j \in rest : journal[j].target # 0}
        closed == IF edited THEN {} ELSE moved
        nothing == {j \in rest \ moved : journal[j].prev = Tip}
    IN
    /\ rest # {}
    /\ journal' = [j \in DOMAIN journal |->
                     IF j \in closed \cup nothing THEN [journal[j] EXCEPT !.done = TRUE]
                     ELSE IF j \in rest THEN [journal[j] EXCEPT !.held = TRUE]
                     ELSE journal[j]]
    /\ IF closed = {} THEN UNCHANGED <<work, edited>> ELSE Reset(Tip)
    /\ requests' = [r \in DOMAIN requests |->
                      IF \E j \in closed : journal[j].request = r
                      THEN [requests[r] EXCEPT !.integrated =
                              journal[Max({j \in closed : journal[j].request = r})].target]
                      ELSE requests[r]]
    /\ UNCHANGED <<items, branch, at, hist, spent>>

HandEdit == ~edited /\ Spend("edit") /\ edited' = TRUE
            /\ UNCHANGED <<items, requests, branch, at, hist, work, journal>>
PutAway == edited /\ edited' = FALSE
           /\ UNCHANGED <<items, requests, branch, at, hist, work, journal, spent>>

----------------------------------------------------------------------------
(* PASSes that stop counting, or count again                               *)

Latest(s, phase) ==
    {r \in OfSubtask(s) : /\ requests[r].phase = phase /\ requests[r].current
                          /\ \A q \in OfSubtask(s) : q > r => requests[q].phase # phase}

\* A chunk inside a subtask is compared with the whole task tree.
StillHolds(r) ==
    IF requests[r].phase = "acceptance" THEN HeadHas(r) ELSE requests[r].tree = hist[Tip]

\* The PASS of every scope that counts, or counted, last.
Saved == UNION {Latest(s, "chunk") \cup Latest(s, "acceptance") : s \in DOMAIN items}

\* other: the PASSes of which something besides the tree has changed.
Lost(other) ==
    {r \in Saved : requests[r].status = "passed" /\ (r \in other \/ ~StillHolds(r))}
Back(other) ==
    {r \in Saved : /\ requests[r].status = "invalidated" /\ requests[r].integrated # 0
                   /\ HeadHas(r) /\ r \notin other}

\* The item of subtask s, after the last request of this phase was compared.
Compared(item, s, phase, other) ==
    IF Latest(s, phase) \cap Lost(other) # {} THEN Settled(item, phase, "open")
    ELSE IF Latest(s, phase) \cap Back(other) # {} THEN Settled(item, phase, "passed")
    ELSE item

\* The project is resumed: saved PASSes are compared with what they reviewed.
Resume(other) ==
    /\ Lost(other) \cup Back(other) # {} /\ Spend("invalid")
    /\ requests' = [r \in DOMAIN requests |->
                      IF r \in Lost(other) THEN [requests[r] EXCEPT !.status = "invalidated"]
                      ELSE IF r \in Back(other) THEN [requests[r] EXCEPT !.status = "passed"]
                      ELSE requests[r]]
    /\ items' = [s \in DOMAIN items |->
                   Compared(Compared(items[s], s, "chunk", other), s, "acceptance", other)]
    /\ UNCHANGED git

\* The evidence of a PASS is missing or changed (reopen-integrity and the
\* audits that do the same).
Reopen(r) ==
    /\ requests[r].status = "passed" /\ Spend("invalid")
    /\ Settle(r, "invalidated", "open")
    /\ UNCHANGED git

\* The final review compares the task's head with what the subtasks' PASSes
\* reviewed: a path may differ when another PASS reviewed what it holds now,
\* a later one or one that wrote the path itself.
PassedFolds == {r \in DOMAIN requests : requests[r].status = "passed" /\ requests[r].phase = "acceptance"}
Accounted(r, p) ==
    \/ hist[Tip][p] = requests[r].tree[p]
    \/ \E q \in PassedFolds \ {r} :
          /\ requests[q].tree[p] = hist[Tip][p]
          /\ requests[q].integrated >= requests[r].integrated \/ p \in Manifest(q)

----------------------------------------------------------------------------

Baseline == [p \in Paths |-> <<Nobody, 0>>]

Init ==
    /\ items = <<>> /\ requests = <<>>
    /\ branch = [s \in Subtasks |-> Baseline] /\ at = [s \in Subtasks |-> 0]
    /\ hist = <<Baseline>> /\ work = 1 /\ edited = FALSE /\ journal = <<>>
    /\ spent = [k \in Kinds |-> 0]

Planning ==
    \/ \E batch \in SUBSET (Subtasks \ DOMAIN items) :
         \E deps \in [batch -> SUBSET (batch \cup DOMAIN items)], owned \in [batch -> Scopes] :
            Declare(batch, deps, owned)
    \/ \E s \in DOMAIN items : DeclareChunks(s) \/ Supersede(s)

Working ==
    \E s \in DOMAIN items :
       \/ Start(s) \/ StartUndone(s)
       \/ \E written \in SUBSET items[s].owned : Commit(s, written)
       \/ \E phase \in {"chunk", "acceptance"} : RequestReview(s, phase)

Reviewing ==
    \E r \in DOMAIN requests :
       \/ Fail(r) \/ PassChunk(r) \/ Withdraw(r) \/ Reopen(r)
       \/ \E upto \in {"intent", "moved", "reset", "done", "recorded"} : Pass(r, upto)

Next ==
    \/ Planning \/ Working \/ Reviewing
    \/ Recover \/ HandEdit \/ PutAway
    \/ \E other \in SUBSET DOMAIN requests : Resume(other)

Spec == Init /\ [][Next]_vars
----------------------------------------------------------------------------
(* What must hold                                                          *)

\* A passed subtask is in the task's history: whatever died between the
\* broker's update-ref and the commit of the board, the commit recorded with
\* the PASS is one of the task branch, and holds every byte that was reviewed.
PassedIsInHistory ==
    /\ TypeOK
    /\ \A s \in DOMAIN items : Passed(s) =>
         \E r \in OfSubtask(s) :
            /\ requests[r].status = "passed" /\ requests[r].phase = "acceptance"
            /\ requests[r].integrated # 0
            /\ \A p \in Manifest(r) : hist[requests[r].integrated][p] = requests[r].tree[p]

\* What a subtask folded that was retired later: a fold that died before its
\* PASS was recorded, or a PASS that stopped counting, and then a split.
LeftBehind(p) ==
    \E r \in DOMAIN requests : requests[r].sub \notin Live /\ requests[r].tree[p] = hist[Tip][p]

\* When every live subtask has passed, the final review can account for the
\* task branch: each reviewed byte is still there, or another PASS reviewed
\* the one that took its place.
FinalDiffStands ==
    (\A s \in Live : Passed(s)) =>
       \A r \in PassedFolds : \A p \in Manifest(r) : LeftBehind(p) \/ Accounted(r, p)

\* A subtask that is worked on began from a task commit that holds each of
\* its dependencies' folds ...
DependenciesInBase ==
    \A s \in DOMAIN items : items[s].pipe \in {"in_progress", "in_review"} =>
       \A d \in items[s].deps :
          \E r \in OfSubtask(d) : requests[r].integrated \in 1..items[s].base

\* ... and nothing else wrote the paths it changed until its PASS: its first
\* fold never meets a changed head.
FirstFoldApplies ==
    \A r \in DOMAIN requests :
       /\ Open(r) /\ requests[r].phase = "acceptance"
       /\ ~ \E j \in DOMAIN journal : requests[journal[j].request].sub = requests[r].sub
       => Applies(r)

BaseStands == DependenciesInBase /\ FirstFoldApplies

\* Nothing the broker does discards an edit somebody made by hand in the
\* task worktree, not even while it repairs a fold that died.
HandEditKept == [][edited /\ ~edited' => PutAway]_vars
=============================================================================
