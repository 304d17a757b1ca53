---------------------------- MODULE ReleaseFlow ----------------------------
(***************************************************************************)
(* From a reviewed candidate to the owner's main branch and to the place   *)
(* the project is uploaded to: the git broker (harness/git_broker.py), the *)
(* release operations of harness/board.py, the release coordinator and the *)
(* upload queue (harness/upload_on_accept.py).                             *)
(*                                                                         *)
(* A commit is the set of the changes it contains: a commit descends from  *)
(* another iff it is a superset, and a fast-forward replaces a set by a    *)
(* superset.  A line is a first-parent history, oldest first.              *)
(*                                                                         *)
(* The broker works inside a transaction of the board (tx), step by step:  *)
(* its journal, the refs and the worktree change at once, the board when   *)
(* the transaction ends.  The process that holds it may die between any    *)
(* two steps; all of it then starts again with recover_git_transactions.   *)
(* Pauses, previews, collected builds, attachments, the separate push on   *)
(* the owner's instruction and tasks without a repository are left out.    *)
(***************************************************************************)
EXTENDS Naturals, SequencesExt, FiniteSetsExt

CONSTANTS
    TaskOrder,      \* the governed tasks, in the order their names sort
    Presses,        \* bound: requests to Mission Control in flight
    Others,         \* who else may write to the upload destination
    None,
    MaxVersions,    \* bound: saved versions per task
    MaxOwner,       \* bound: commits the owner makes on main
    MaxJournal,     \* bound: unfinished entries of the broker's journal
    MaxTroubles,    \* bound: disturbances together
    Kinds           \* the disturbances that happen in this instance

Tasks == Range(TaskOrder)
\* Versions of the tasks, commits of the owner, pushes of others.
Change == (Tasks \X (1..MaxVersions)) \cup ({"owner"} \X (1..MaxOwner)) \cup (Others \X {1})
Commit == SUBSET Change

ASSUME ReleaseAssumption ==
    /\ TaskOrder \in Seq(Range(TaskOrder)) /\ IsInjective(TaskOrder) /\ TaskOrder # <<>>
    /\ None \notin Tasks \cup Presses /\ \A c \in Commit : c # None
    /\ MaxVersions \in Nat \ {0} /\ {MaxOwner, MaxJournal, MaxTroubles} \subseteq Nat

VARIABLES
    main,           \* the line of refs/heads/main
    behind,         \* main moved and its worktree has not been reset yet
    edited,         \* tracked files of that worktree hold the owner's edits
    branch,         \* the lines of the task branches
    mirror,         \* refs/harness/<task>/reviewed-<n> of the git mirror
    journal,        \* the broker's transactions without a "done" record
    requests,       \* final reviews of each task: commit and status
    releases,       \* state["releases"]
    decisions,      \* state["release_decisions"]
    voided,         \* state["voided_release_decisions"]: the heads
    acceptances,    \* state["git_acceptances"]
    owed,           \* tasks in state["git_reintegration_required"]
    prepared,       \* coordinator-journal.jsonl
    coord,          \* the pass of the coordinator under way
    check,          \* a record-release of the CTO between check and record
    tx,             \* the transaction in which the broker works
    press,          \* the owner's requests
    uploader,       \* the upload thread
    remote,         \* the branch at the upload destination
    landing,        \* pushes cut off that may still be carried out there
    app,            \* "up", "down", or "recovering"
    troubles        \* bound

git == <<main, behind, edited, branch, mirror, journal>>
board == <<requests, releases, decisions, voided, acceptances, owed>>
preparing == <<prepared, coord, check>>
upload == <<uploader, remote, landing>>
vars == <<git, board, preparing, tx, press, upload, app, troubles>>

Main == Last(main)
Tip(t) == Last(branch[t])
Versions(t) == {n \in 1..MaxVersions : <<t, n>> \in Tip(t)}
Awaiting == "VISUAL_TEST_REQUIRED"

NoTx == [kind |-> "none", task |-> None, press |-> None, commit |-> {}, base |-> {},
         entry |-> 0, draft |-> None, step |-> "none"]
NoRelease == [head |-> None, base |-> None, status |-> "none"]
NoUploader == [on |-> FALSE, again |-> FALSE, all |-> FALSE, queue |-> <<>>,
               task |-> None, commit |-> None, phase |-> "take", outcome |-> "none"]
IdlePress == [task |-> None, step |-> "idle", stale |-> {}]
NoPass == [task |-> None, commit |-> {}, base |-> {}, step |-> "idle"]

Init ==
    /\ main = <<{}>> /\ behind = FALSE /\ edited = FALSE
    /\ branch = [t \in Tasks |-> <<{}, {<<t, 1>>}>>]
    /\ mirror = [t \in Tasks |-> <<>>]
    /\ journal = <<>>
    /\ requests = [t \in Tasks |-> <<>>]
    /\ releases = [t \in Tasks |-> NoRelease]
    /\ decisions = [t \in Tasks |-> None]
    /\ voided = [t \in Tasks |-> {}]
    /\ acceptances = [t \in Tasks |-> None]
    /\ owed = {}
    /\ prepared = {} /\ coord = NoPass /\ check = NoPass
    /\ tx = NoTx
    /\ press = [p \in Presses |-> IdlePress]
    /\ uploader = NoUploader /\ remote = {} /\ landing = {}
    /\ app = "up" /\ troubles = 0

Free == app = "up" /\ tx = NoTx         \* the board lock can be taken
Trouble(kind) == kind \in Kinds /\ troubles < MaxTroubles /\ troubles' = troubles + 1

Reviewed(t) == requests[t] # <<>>
Newest(t) == Last(requests[t])
\* _final_pass_for
FinalPass(t, commit) == Reviewed(t) /\ Newest(t).status = "passed" /\ Newest(t).commit = commit
\* unreleased_final_passes
Unreleased(t) == Reviewed(t) /\ Newest(t).status = "passed" /\ releases[t].head # Newest(t).commit
Accepted(t) == decisions[t] # None /\ decisions[t].decision = "accepted"
Rejected(t) == decisions[t] # None /\ decisions[t].decision = "not_accepted"

-----------------------------------------------------------------------------
(* Delivery and the final review *)

\* A new version: the first reviews asked for changes, or the owner did.
Work(t) ==
    LET n == Cardinality(Versions(t)) + 1
    IN /\ Free /\ t \notin owed /\ acceptances[t] = None /\ n <= MaxVersions
       /\ Reviewed(t) => Newest(t).status = "failed" \/ Rejected(t)
       /\ branch' = [branch EXCEPT ![t] = Append(@, Tip(t) \cup {<<t, n>>})]
       /\ UNCHANGED <<main, behind, edited, mirror, journal, board, preparing, tx, press,
                      upload, app, troubles>>

\* broker_reintegrate_main: main merged into the task branch, or already in it.
Reintegrate(t) ==
    LET n == Cardinality(Versions(t)) + 1
        current == Main \subseteq Tip(t)
    IN /\ Free /\ t \in owed /\ (~current => n <= MaxVersions)
       /\ branch' = IF current THEN branch
                    ELSE [branch EXCEPT ![t] = Append(@, Tip(t) \cup Main \cup {<<t, n>>})]
       /\ owed' = owed \ {t}
       /\ UNCHANGED <<main, behind, edited, mirror, journal, requests, releases, decisions, voided,
                      acceptances, preparing, tx, press, upload, app, troubles>>

ReviewNumber(t) == Len(requests[t]) + 1
Sealed(t, n) == IF n <= Len(mirror[t]) THEN mirror[t][n] ELSE None
MirrorEntry(t, commit) ==
    [op |-> "mirror", task |-> t, number |-> ReviewNumber(t), base |-> None, target |-> commit]

\* The publication of a review request: create_review_ref writes its intent.
RequestReview(t) ==
    /\ Free /\ Len(journal) < MaxJournal
    /\ Reviewed(t) => /\ Newest(t).status # "open"
                      /\ Newest(t).commit # Tip(t)
    /\ tx' = [NoTx EXCEPT !.kind = "mirror", !.task = t, !.commit = Tip(t), !.step = "intent"]
    /\ journal' = Append(journal, MirrorEntry(t, Tip(t)))
    /\ UNCHANGED <<main, behind, edited, branch, mirror, board, preparing, press, upload, app,
                   troubles>>

\* MUTANT of CreateRef: a ref that exists is taken for the one wanted.
CreateRefTaken(n, free, retry) ==
    /\ mirror' = [mirror EXCEPT ![tx.task] = IF free THEN Append(@, tx.commit) ELSE @]
    /\ tx' = [tx EXCEPT !.step = "ref"]

\* update-ref against the zero id, or the attachment to an earlier attempt.
CreateRef(n, free, retry) ==
    IF free
    THEN /\ mirror' = [mirror EXCEPT ![tx.task] = Append(@, tx.commit)]
         /\ tx' = [tx EXCEPT !.step = "ref"]
    ELSE /\ tx' = IF retry THEN [tx EXCEPT !.step = "ref"] ELSE NoTx
         /\ UNCHANGED mirror

SealStep ==
    LET t == tx.task
        n == ReviewNumber(t)
        earlier == \E i \in 1..(Len(journal) - 1) : journal[i] = MirrorEntry(t, tx.commit)
    IN /\ tx.kind = "mirror" /\ tx.step = "intent"
       /\ CreateRef(n, Sealed(t, n) = None, Sealed(t, n) = tx.commit /\ earlier)
       /\ UNCHANGED <<main, behind, edited, branch, journal, board, preparing, press, upload, app,
                      troubles>>

SealDone ==
    /\ tx.kind = "mirror" /\ tx.step = "ref"
    /\ journal' = Front(journal)
    /\ tx' = [tx EXCEPT !.step = "done"]
    /\ UNCHANGED <<main, behind, edited, branch, mirror, board, preparing, press, upload, app,
                   troubles>>

SealCommit ==
    /\ tx.kind = "mirror" /\ tx.step = "done"
    /\ requests' = [requests EXCEPT ![tx.task] = Append(@, [commit |-> tx.commit, status |-> "open"])]
    /\ tx' = NoTx
    /\ UNCHANGED <<git, releases, decisions, voided, acceptances, owed, preparing, press, upload,
                   app, troubles>>

Verdict(t) ==
    /\ Free /\ Reviewed(t) /\ Newest(t).status = "open"
    /\ \E status \in {"passed", "failed"} :
         /\ status = "failed" => Trouble("fail")
         /\ status = "passed" => UNCHANGED troubles
         /\ requests' = [requests EXCEPT ![t][Len(requests[t])].status = status]
    /\ UNCHANGED <<git, releases, decisions, voided, acceptances, owed, preparing, tx, press,
                   upload, app>>

-----------------------------------------------------------------------------
(* The coordinator and the CTO's release record *)

Line(step) == [task |-> coord.task, commit |-> coord.commit, base |-> coord.base, step |-> step]

\* _coordinate_locked: the key names the reviewed commit and main, among others.
CoordBegin(t) ==
    LET key == [task |-> t, commit |-> Newest(t).commit, base |-> Main]
    IN /\ Free /\ coord = NoPass /\ Unreleased(t)
       /\ \A line \in prepared : [task |-> line.task, commit |-> line.commit,
                                  base |-> line.base] # key
       /\ coord' = [task |-> t, commit |-> key.commit, base |-> Main, step |-> "checking"]
       /\ UNCHANGED <<git, board, prepared, check, tx, press, upload, app, troubles>>

\* release_check on what main is by then; then the journal, and for a stale
\* base the way back to Delivery.
CoordCheck ==
    LET safe == Main \subseteq coord.commit
    IN /\ app = "up" /\ coord.step = "checking"
       /\ prepared' = prepared \cup {Line(IF safe THEN "prepared" ELSE "checks_failed")}
       /\ coord' = IF safe THEN NoPass ELSE [coord EXCEPT !.step = "failed"]
       /\ UNCHANGED <<git, board, check, tx, press, upload, app, troubles>>

\* MUTANT of CoordRoute: failed checks are only written down.
CoordRouteNever ==
    /\ Free /\ coord.step = "failed"
    /\ coord' = NoPass
    /\ UNCHANGED <<git, board, prepared, check, tx, press, upload, app, troubles>>

CoordRoute ==
    /\ Free /\ coord.step = "failed"
    /\ owed' = owed \cup {coord.task}
    /\ coord' = NoPass
    /\ UNCHANGED <<git, requests, releases, decisions, voided, acceptances, prepared, check, tx,
                   press, upload, app, troubles>>

\* record_release: the check runs outside the lock, for minutes.
CheckRelease(t) ==
    /\ Free /\ check = NoPass /\ Unreleased(t)
    /\ Main \subseteq Newest(t).commit
    /\ check' = [task |-> t, commit |-> Newest(t).commit, base |-> Main, step |-> "checked"]
    /\ UNCHANGED <<git, board, prepared, coord, tx, press, upload, app, troubles>>

\* record_release_ready: a new candidate supersedes the earlier response.
RecordRelease ==
    LET t == check.task
        ready == FinalPass(t, check.commit)
    IN /\ Free /\ check.step = "checked"
       /\ releases' = IF ready THEN [releases EXCEPT ![t] = [head |-> check.commit, base |-> check.base,
                                                            status |-> Awaiting]] ELSE releases
       /\ decisions' = IF ready THEN [decisions EXCEPT ![t] = None] ELSE decisions
       /\ check' = NoPass
       /\ UNCHANGED <<git, requests, voided, acceptances, owed, prepared, coord, tx, press, upload,
                      app, troubles>>

-----------------------------------------------------------------------------
(* The owner's response *)

NextAccept == 1 + Max({0} \cup {decisions[t].at : t \in {u \in Tasks : decisions[u] # None}})

\* record_release_decision: a first Accept, or one more after a failed merge.
Accept(p, t) ==
    LET retry == Accepted(t) /\ acceptances[t] = None /\ decisions[t].merge = "failed"
    IN /\ Free /\ press[p] = IdlePress
       /\ releases[t].status \in {Awaiting, "ACCEPTED"}
       /\ decisions[t] = None \/ retry
       /\ decisions' = IF retry THEN decisions
                       ELSE [decisions EXCEPT ![t] = [decision |-> "accepted", merge |-> "none",
                                at |-> NextAccept, head |-> releases[t].head, upload |-> "pending"]]
       /\ press' = [press EXCEPT ![p] = [task |-> t, step |-> "accept", stale |-> {}]]
       /\ UNCHANGED <<git, requests, releases, voided, acceptances, owed, preparing, tx, upload,
                      app, troubles>>

Reject(t) ==
    /\ Free /\ Trouble("reject")
    /\ releases[t].status \in {Awaiting, "ACCEPTED"} /\ decisions[t] = None
    /\ decisions' = [decisions EXCEPT ![t] = [decision |-> "not_accepted", merge |-> "none",
                        at |-> 0, head |-> releases[t].head, upload |-> "none"]]
    /\ UNCHANGED <<git, requests, releases, voided, acceptances, owed, preparing, tx, press,
                   upload, app>>

Step(p, step) == press' = [press EXCEPT ![p].step = step]

\* accept_owner_release up to the broker's intent.  Whatever the broker
\* refuses before it is a failed merge, main having moved a void one.
BeginMerge(p) ==
    LET t == press[p].task
        final == FinalPass(t, releases[t].head) /\ releases[t].base # None
        n == Len(requests[t])
        commit == Newest(t).commit
        base == releases[t].base
        entry == [op |-> "accept", task |-> t, number |-> n, base |-> base, target |-> commit]
        moved == Main # base \/ ~(base \subseteq commit)
        clean == ~edited /\ ~behind
    IN /\ Free /\ press[p].step = "accept"
       /\ CASE ~Accepted(t) \/ ~final -> Step(p, "fail") /\ UNCHANGED <<journal, tx>>
            [] Accepted(t) /\ final /\ moved ->
                 /\ Step(p, "void") /\ UNCHANGED tx
                 /\ Len(journal) < MaxJournal
                 /\ journal' = IF Main # base THEN Append(journal, entry) ELSE journal
            [] Accepted(t) /\ final /\ ~moved /\ ~(clean /\ Sealed(t, n) = commit) ->
                 Step(p, "fail") /\ UNCHANGED <<journal, tx>>
            [] OTHER ->
                 /\ Len(journal) < MaxJournal
                 /\ journal' = Append(journal, entry)
                 /\ Step(p, "merging")
                 /\ tx' = [NoTx EXCEPT !.kind = "accept", !.task = t, !.press = p,
                                       !.commit = commit, !.base = base, !.step = "intent"]
       /\ UNCHANGED <<main, behind, edited, branch, mirror, board, preparing, upload, app, troubles>>

\* The line of a task branch up to a commit.
LineTo(t, commit) ==
    LET n == CHOOSE n \in DOMAIN branch[t] : branch[t][n] = commit
    IN SubSeq(branch[t], 1, n)

\* MUTANT of MayMove: update-ref without the old value.
MayMoveAlways == TRUE

\* The compare-and-swap of update-ref.
MayMove == Main = tx.base

MoveMain ==
    /\ tx.kind = "accept" /\ tx.step = "intent"
    /\ IF MayMove
       THEN /\ main' = LineTo(tx.task, tx.commit)
            /\ behind' = (tx.commit # Main)
            /\ tx' = [tx EXCEPT !.step = "moved"] /\ UNCHANGED press
       ELSE tx' = NoTx /\ Step(tx.press, "fail") /\ UNCHANGED <<main, behind>>
    /\ UNCHANGED <<edited, branch, mirror, journal, board, preparing, upload, app, troubles>>

\* reset --hard, and the board record in memory; or a reset that fails.
Materialize ==
    /\ tx.kind = "accept" /\ tx.step = "moved"
    /\ \/ /\ behind' = FALSE /\ edited' = FALSE
          /\ IF Main = tx.commit
             THEN tx' = [tx EXCEPT !.step = "recorded"] /\ UNCHANGED press
             ELSE tx' = NoTx /\ Step(tx.press, "fail")
          /\ UNCHANGED troubles
       \/ Trouble("reset") /\ tx' = NoTx /\ Step(tx.press, "fail") /\ UNCHANGED <<behind, edited>>
    /\ UNCHANGED <<main, branch, mirror, journal, board, preparing, upload, app>>

MergeDone ==
    /\ tx.kind = "accept" /\ tx.step = "recorded"
    /\ journal' = Front(journal)
    /\ tx' = [tx EXCEPT !.step = "done"]
    /\ UNCHANGED <<main, behind, edited, branch, mirror, board, preparing, press, upload, app,
                   troubles>>

Stale(t) == {u \in Tasks \ {t} : acceptances[u] = None /\ ~(Main \subseteq Tip(u))}

\* The rest of accept_owner_release; the board is saved.
MergeCommit ==
    LET t == tx.task
    IN /\ tx.kind = "accept" /\ tx.step = "done"
       /\ acceptances' = [acceptances EXCEPT ![t] = tx.commit]
       /\ releases' = [releases EXCEPT ![t].status = "ACCEPTED"]
       /\ owed' = owed \ {t}
       /\ press' = [press EXCEPT ![tx.press].step = "finish",
                                 ![tx.press].stale = IF tx.commit # tx.base THEN Stale(t) ELSE {}]
       /\ tx' = NoTx
       /\ UNCHANGED <<git, requests, decisions, voided, preparing, upload, app, troubles>>

\* wake(): one thread per project; a wake while it runs makes it loop again.
Woken(up, all) ==
    IF up.on THEN [up EXCEPT !.again = TRUE, !.all = up.all \/ all]
    ELSE [NoUploader EXCEPT !.on = TRUE, !.all = all]

\* MUTANT of Wake: a thread that still runs is left alone.
WakeOnlyIdle(all) == uploader' = IF uploader.on THEN uploader ELSE Woken(uploader, all)

Wake(all) == uploader' = Woken(uploader, all)

\* The other tasks hear that main moved; the page answers and wakes the queue.
FinishPress(p) ==
    /\ Free /\ press[p].step = "finish"
    /\ owed' = owed \cup press[p].stale
    /\ decisions' = IF Accepted(press[p].task)
                    THEN [decisions EXCEPT ![press[p].task].merge = "none"] ELSE decisions
    /\ press' = [press EXCEPT ![p] = IdlePress]
    /\ Wake(FALSE)
    /\ UNCHANGED <<git, requests, releases, voided, acceptances, preparing, tx, remote, landing,
                   app, troubles>>

FailMerge(p) ==
    LET t == press[p].task
    IN /\ Free /\ press[p].step = "fail"
       /\ decisions' = IF decisions[t] # None THEN [decisions EXCEPT ![t].merge = "failed"]
                       ELSE decisions
       /\ press' = [press EXCEPT ![p] = IdlePress]
       /\ Wake(FALSE)
       /\ UNCHANGED <<git, requests, releases, voided, acceptances, owed, preparing, tx, remote,
                      landing, app, troubles>>

\* _void_unmerged_accept
Void(t) ==
    /\ voided' = IF decisions[t] # None
                 THEN [voided EXCEPT ![t] = @ \cup {releases[t].head}] ELSE voided
    /\ decisions' = [decisions EXCEPT ![t] = None]
    /\ releases' = IF releases[t].status = Awaiting
                   THEN [releases EXCEPT ![t].status = "REINTEGRATION_REQUIRED"] ELSE releases
    /\ owed' = owed \cup {t}

VoidAccept(p) ==
    /\ Free /\ press[p].step = "void"
    /\ Void(press[p].task)
    /\ press' = [press EXCEPT ![p] = IdlePress]
    /\ Wake(FALSE)
    /\ UNCHANGED <<git, requests, acceptances, preparing, tx, remote, landing, app, troubles>>

\* reconcile_unmerged_accept, a command of the operator.
Reconcile(t) ==
    /\ Free /\ Trouble("reconcile")
    /\ acceptances[t] = None
    /\ Accepted(t) \/ (t \in owed /\ releases[t].status # "REINTEGRATION_REQUIRED")
    /\ Void(t)
    /\ UNCHANGED <<git, requests, acceptances, preparing, tx, press, upload, app>>

-----------------------------------------------------------------------------
(* The owner's own work in the repository *)

OwnerCommits ==
    LET n == Cardinality({k \in 1..MaxOwner : <<"owner", k>> \in Main}) + 1
    IN /\ n <= MaxOwner /\ Trouble("owner") /\ ~behind
       /\ main' = Append(main, Main \cup {<<"owner", n>>})
       /\ edited' = FALSE
       /\ UNCHANGED <<behind, branch, mirror, journal, board, preparing, tx, press, upload, app>>

OwnerEdits ==
    /\ ~edited /\ Trouble("edit")
    /\ edited' = TRUE
    /\ UNCHANGED <<main, behind, branch, mirror, journal, board, preparing, tx, press, upload, app>>

OwnerUndoes ==
    /\ edited /\ edited' = FALSE
    /\ UNCHANGED <<main, behind, branch, mirror, journal, board, preparing, tx, press, upload, app,
                   troubles>>

-----------------------------------------------------------------------------
(* Death and recovery *)

\* The process dies: what was not saved is gone, a push under way may still
\* be carried out at its destination.
Die ==
    /\ app # "down" /\ Trouble("die")
    /\ app' = "down"
    /\ tx' = NoTx /\ press' = [p \in Presses |-> IdlePress] /\ coord' = NoPass /\ check' = NoPass
    /\ landing' = IF uploader.phase = "push" THEN landing \cup {uploader.commit} ELSE landing
    /\ uploader' = NoUploader
    /\ UNCHANGED <<git, board, prepared, remote>>

Start ==
    /\ app = "down"
    /\ app' = "recovering"
    /\ tx' = [NoTx EXCEPT !.kind = "recover", !.entry = 1, !.step = "entries",
                          !.draft = acceptances]
    /\ UNCHANGED <<git, board, preparing, press, upload, troubles>>

\* record(): the callback knows the task of the loop, and the first task's
\* round meets every transaction of the project.
Recorded == TaskOrder[1]

Unresolved == [tx EXCEPT !.entry = @ + 1]
Resolve == journal' = RemoveAt(journal, tx.entry)

\* MUTANT of RecoverMerge: main is taken for merged when the ref never moved.
RecoverMergeUnmoved(entry) ==
    /\ tx' = [tx EXCEPT !.draft[Recorded] = entry.target]
    /\ Resolve /\ behind' = FALSE /\ UNCHANGED edited

\* MUTANT of RecoverMerge: the worktree is reset without a look at it.
RecoverMergeOver(entry) ==
    CASE Main = entry.target ->
           /\ tx' = [tx EXCEPT !.draft[Recorded] = entry.target]
           /\ behind' = FALSE /\ edited' = FALSE
           /\ Resolve
      [] Main # entry.target /\ Main = entry.base -> Resolve /\ UNCHANGED <<tx, behind, edited>>
      [] OTHER -> tx' = Unresolved /\ UNCHANGED <<journal, behind, edited>>

\* An edit made after the crash holds the transaction open for the owner.
RecoverMerge(entry) ==
    CASE Main = entry.target /\ ~edited ->
           /\ tx' = [tx EXCEPT !.draft[Recorded] = entry.target]
           /\ behind' = FALSE /\ UNCHANGED edited
           /\ Resolve
      [] Main # entry.target /\ Main = entry.base -> Resolve /\ UNCHANGED <<tx, behind, edited>>
      [] OTHER -> tx' = Unresolved /\ UNCHANGED <<journal, behind, edited>>

RecoverSeal(entry) ==
    LET sealed == Sealed(entry.task, entry.number)
        known == \E i \in 1..Len(requests[entry.task]) :
                     requests[entry.task][i].commit = entry.target
    IN /\ IF sealed = None \/ (sealed = entry.target /\ known)
          THEN Resolve /\ UNCHANGED tx
          ELSE tx' = Unresolved /\ UNCHANGED journal
       /\ UNCHANGED <<behind, edited>>

RecoverEntry ==
    /\ tx.kind = "recover" /\ tx.entry <= Len(journal)
    /\ LET entry == journal[tx.entry]
       IN IF entry.op = "mirror" THEN RecoverSeal(entry) ELSE RecoverMerge(entry)
    /\ UNCHANGED <<main, branch, mirror, board, preparing, press, upload, app, troubles>>

\* The board is saved; the coordinator and the upload queue follow.
RecoverCommit ==
    LET t == Recorded
        found == tx.draft[t] # acceptances[t]
    IN /\ tx.kind = "recover" /\ tx.entry > Len(journal)
       /\ acceptances' = tx.draft
       /\ releases' = IF found /\ releases[t].status = Awaiting
                      THEN [releases EXCEPT ![t].status = "ACCEPTED"] ELSE releases
       /\ tx' = NoTx /\ app' = "up"
       /\ Wake(TRUE)
       /\ UNCHANGED <<git, requests, decisions, voided, owed, preparing, press, remote, landing,
                      troubles>>

-----------------------------------------------------------------------------
(* The upload queue *)

Wanted(all) == {"pending", "running"} \cup IF all THEN {"failed", "diverged"} ELSE {}
Due(all) == {t \in Tasks : Accepted(t) /\ decisions[t].upload \in Wanted(all)}

\* pending_tasks: oldest Accept first.
UploadOrder(due) ==
    {order \in SetToSeqs(due) :
        \A i, j \in DOMAIN order : i < j => decisions[order[i]].at <= decisions[order[j]].at}

\* _worker takes the flags and run_pending lists what is due.
UploadTake ==
    /\ Free /\ uploader.on /\ uploader.phase = "take"
    /\ \E order \in UploadOrder(Due(uploader.all)) :
         uploader' = [uploader EXCEPT !.again = FALSE, !.all = FALSE, !.phase = "next",
                                      !.queue = order]
    /\ UNCHANGED <<git, board, preparing, tx, press, remote, landing, app, troubles>>

\* MUTANT of FindCommit: without a record, whatever main holds is uploaded.
FindCommitMain(t) == IF acceptances[t] # None THEN acceptances[t] ELSE Main

\* find_commit: the recorded commit, or the oldest on main's line with the head.
FindCommit(t) ==
    LET head == decisions[t].head
        oldest == Min({n \in DOMAIN main : head \subseteq main[n]})
    IN IF acceptances[t] # None /\ acceptances[t] \subseteq Main THEN acceptances[t]
       ELSE IF head \subseteq Main THEN main[oldest] ELSE None

\* run_one: what main does not hold yet is passed over.
UploadNext ==
    /\ Free /\ uploader.phase = "next" /\ uploader.queue # <<>>
    /\ LET t == uploader.queue[1]
           runs == Accepted(t) /\ decisions[t].upload # "uploaded" /\ FindCommit(t) # None
       IN uploader' = IF runs THEN [uploader EXCEPT !.queue = Tail(@), !.task = t,
                                                    !.commit = FindCommit(t), !.phase = "found"]
                      ELSE [uploader EXCEPT !.queue = Tail(@)]
    /\ UNCHANGED <<git, board, preparing, tx, press, remote, landing, app, troubles>>

\* _mark_running, on the board as it is after git has searched.
UploadMark ==
    LET t == uploader.task
        runs == decisions[t] # None /\ decisions[t].upload \notin {"none", "uploaded"}
    IN /\ Free /\ uploader.phase = "found"
       /\ decisions' = IF runs THEN [decisions EXCEPT ![t].upload = "running"] ELSE decisions
       /\ uploader' = IF runs THEN [uploader EXCEPT !.phase = "push"]
                      ELSE [uploader EXCEPT !.phase = "next", !.task = None, !.commit = None]
       /\ UNCHANGED <<git, requests, releases, voided, acceptances, owed, preparing, tx, press,
                      remote, landing, app, troubles>>

\* No force: the destination takes a fast-forward only; a refusal is compared
\* with what the branch holds.
Outcome(commit) ==
    IF remote \subseteq commit \/ commit \subseteq remote THEN "uploaded" ELSE "diverged"

UploadPush ==
    /\ app # "down" /\ uploader.phase = "push"
    /\ \/ /\ remote' = IF remote \subseteq uploader.commit THEN uploader.commit ELSE remote
          /\ uploader' = [uploader EXCEPT !.phase = "save", !.outcome = Outcome(uploader.commit)]
          /\ UNCHANGED <<landing, troubles>>
       \/ /\ Trouble("network")         \* refused, or cut off at the time limit
          /\ landing' \in {landing, landing \cup {uploader.commit}}
          /\ uploader' = [uploader EXCEPT !.phase = "save", !.outcome = "failed"]
          /\ UNCHANGED remote
    /\ UNCHANGED <<git, board, preparing, tx, press, app>>

\* _save_outcome
UploadSave ==
    LET t == uploader.task
    IN /\ Free /\ uploader.phase = "save"
       /\ decisions' = IF decisions[t] # None /\ decisions[t].upload # "none"
                       THEN [decisions EXCEPT ![t].upload = uploader.outcome] ELSE decisions
       /\ uploader' = [uploader EXCEPT !.phase = "next", !.task = None, !.commit = None,
                                       !.outcome = "none"]
       /\ UNCHANGED <<git, requests, releases, voided, acceptances, owed, preparing, tx, press,
                      remote, landing, app, troubles>>

\* The last look at `again`, under the lock wake() takes.
UploadEnd ==
    /\ app # "down" /\ uploader.on /\ uploader.phase = "next" /\ uploader.queue = <<>>
    /\ uploader' = IF uploader.again THEN [uploader EXCEPT !.phase = "take"] ELSE NoUploader
    /\ UNCHANGED <<git, board, preparing, tx, press, remote, landing, app, troubles>>

\* "Upload again"
UploadRetry(t) ==
    /\ Free /\ Trouble("retry")
    /\ Accepted(t) /\ decisions[t].upload \in {"failed", "diverged"}
    /\ decisions' = [decisions EXCEPT ![t].upload = "pending"]
    /\ Wake(FALSE)
    /\ UNCHANGED <<git, requests, releases, voided, acceptances, owed, preparing, tx, press,
                   remote, landing, app>>

\* The destination: a push cut off here is carried out there; others push too.
Land(c) ==
    /\ c \in landing
    /\ remote' = IF remote \subseteq c THEN c ELSE remote
    /\ landing' = landing \ {c}
    /\ UNCHANGED <<git, board, preparing, tx, press, uploader, app, troubles>>

OtherPush(o) ==
    /\ Trouble("remote") /\ <<o, 1>> \notin remote
    /\ remote' = remote \cup {<<o, 1>>}
    /\ UNCHANGED <<git, board, preparing, tx, press, uploader, landing, app>>

-----------------------------------------------------------------------------
Coordinator == (\E t \in Tasks : CoordBegin(t)) \/ CoordCheck \/ CoordRoute
Transaction ==
    \/ SealStep \/ SealDone \/ SealCommit
    \/ MoveMain \/ Materialize \/ MergeDone \/ MergeCommit
    \/ RecoverEntry \/ RecoverCommit
Answering == \E p \in Presses : BeginMerge(p) \/ FinishPress(p) \/ FailMerge(p) \/ VoidAccept(p)
Uploading == UploadTake \/ UploadNext \/ UploadMark \/ UploadPush \/ UploadSave \/ UploadEnd
Surroundings ==
    \/ OwnerCommits \/ OwnerEdits \/ OwnerUndoes \/ Die \/ Start
    \/ \E c \in landing : Land(c)
    \/ \E o \in Others : OtherPush(o)

Next ==
    \/ Coordinator \/ RecordRelease \/ Transaction \/ Answering \/ Uploading \/ Surroundings
    \/ \E t \in Tasks : \/ Work(t) \/ Reintegrate(t) \/ RequestReview(t) \/ Verdict(t)
                       \/ CheckRelease(t) \/ Reject(t) \/ Reconcile(t) \/ UploadRetry(t)
                       \/ \E p \in Presses : Accept(p, t)

Spec == Init /\ [][Next]_vars

\* What was begun goes on while the process lives, and the coordinator's timer
\* fires; nobody has to deliver, review, accept or start the process again.
Fairness ==
    /\ WF_vars(Coordinator) /\ WF_vars(Transaction) /\ WF_vars(Uploading)
    /\ \A p \in Presses : WF_vars(BeginMerge(p) \/ FinishPress(p) \/ FailMerge(p) \/ VoidAccept(p))

FairSpec == Spec /\ Fairness

-----------------------------------------------------------------------------
MaybeCommit == Commit \cup {None}
Entry == [op : {"mirror", "accept"}, task : Tasks, number : Nat, base : MaybeCommit, target : Commit]
Decision == [decision : {"accepted", "not_accepted"}, merge : {"none", "failed"}, at : Nat,
             head : MaybeCommit,
             upload : {"none", "pending", "running", "uploaded", "failed", "diverged"}]

\* Every variable has its shape.
TypeOK ==
    /\ main \in Seq(Commit) /\ main # <<>> /\ {behind, edited} \subseteq BOOLEAN
    /\ DOMAIN branch = Tasks /\ \A t \in Tasks : branch[t] \in Seq(Commit) /\ branch[t] # <<>>
    /\ DOMAIN mirror = Tasks /\ \A t \in Tasks : mirror[t] \in Seq(Commit)
    /\ \A i \in DOMAIN journal : journal[i] \in Entry
    /\ \A t \in Tasks : \A i \in DOMAIN requests[t] :
           requests[t][i] \in [commit : Commit, status : {"open", "passed", "failed"}]
    /\ \A t \in Tasks : /\ releases[t].head \in MaybeCommit /\ releases[t].base \in MaybeCommit
                        /\ decisions[t] \in Decision \cup {None}
                        /\ voided[t] \subseteq Commit /\ acceptances[t] \in MaybeCommit
    /\ owed \subseteq Tasks /\ remote \in Commit /\ landing \subseteq Commit
    /\ tx.commit \in Commit /\ tx.base \in Commit /\ tx.entry \in Nat
    /\ uploader.commit \in MaybeCommit /\ uploader.task \in Tasks \cup {None}
    /\ app \in {"up", "down", "recovering"} /\ troubles \in 0..MaxTroubles

\* A merge the board records is in main: no acceptance that the merge, its
\* failure, a death or the recovery left behind names a commit main lacks
\* (board.py accept_owner_release, git_broker.py accept_merge and recover).
AcceptedInMain == \A t \in Tasks : acceptances[t] # None => acceptances[t] \subseteq Main

\* Whoever moves main, nothing that was in it is lost; and what the broker
\* brings into it is a head that passed its final review and that the owner
\* accepted, though main, the board and the worktree are three writes and the
\* owner commits between them.
MainForward ==
    main' # main =>
        /\ Main \subseteq Main'
        /\ \/ Main' \ Main \subseteq {"owner"} \X Nat
           \/ \E t \in Tasks : /\ Accepted(t) /\ decisions[t].head = Main'
                              /\ \E i \in DOMAIN requests[t] : requests[t][i] =
                                     [commit |-> Main', status |-> "passed"]

\* The recovery of an interrupted merge never resets the owner's worktree over
\* edits made since the death.
EditsSurvive == app = "recovering" /\ edited /\ tx' # tx => edited'

\* A merge and its recovery lose nothing of what others wrote (git_broker.py
\* accept_merge, recover, _uncommitted_edits).
NothingLost == [][MainForward /\ EditsSurvive]_vars

\* Each review on the board can be read back: its number in the mirror names
\* the commit that was reviewed, also when an earlier attempt at that number
\* died between the ref and the board (git_broker.py create_review_ref).
SealedCopies ==
    \A t \in Tasks : \A i \in DOMAIN requests[t] : Sealed(t, i) = requests[t][i].commit

\* A release reported as uploaded is at the destination, whatever was pushed
\* there by others, cut off, retried, passed over or voided and accepted again:
\* of a task that was released once (upload_on_accept.py find_commit,
\* _attempt_push).
ReleasedOnce(t) == Cardinality({i \in DOMAIN requests[t] : requests[t][i].status = "passed"}) = 1
UploadedThere ==
    /\ TypeOK
    /\ \A t \in Tasks : Accepted(t) /\ decisions[t].upload = "uploaded" /\ ReleasedOnce(t)
                        => decisions[t].head \subseteq remote

\* An Accept whose head is in main is tried at the destination until it has an
\* outcome: no wake is lost between the worker's last look and its end
\* (upload_on_accept.py wake, _worker).
UploadSettles ==
    \A t \in Tasks :
        (Accepted(t) /\ decisions[t].upload = "pending" /\ decisions[t].head \subseteq Main /\ app = "up")
            ~> (app # "up" \/ ~Accepted(t) \/ decisions[t].upload \notin {"pending", "running"})

\* A final review whose candidate main has left behind goes back to Delivery:
\* the coordinator neither overlooks it nor stops at its own journal
\* (release_coordinator.py _coordinate_locked).
LeftBehind(t) == Unreleased(t) /\ Newest(t).commit = Tip(t) /\ ~(Main \subseteq Tip(t))
StaleBaseRouted ==
    \A t \in Tasks : (LeftBehind(t) /\ app = "up") ~> (app # "up" \/ t \in owed \/ ~LeftBehind(t))
=============================================================================
