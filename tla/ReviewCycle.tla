---------------------------- MODULE ReviewCycle ----------------------------
(***************************************************************************)
(* The independent final review of one task (harness/board.py).            *)
(*                                                                         *)
(* request_review() freezes a candidate commit and stages a request, runs  *)
(* the Delivery evidence outside the board lock and then publishes the     *)
(* request; a Reviewer may reserve it meanwhile, attaches a Challenge      *)
(* Ledger once Delivery has passed, has the board execute it (again        *)
(* outside the lock) and records a verdict.  Requests are identified by    *)
(* their cycle; a request that is cancelled or recovered leaves the board, *)
(* and the next one takes its cycle and its id again.                      *)
(*                                                                         *)
(* Every action is one transaction of locked_state; what runs between two  *)
(* transactions is a process that may die, or fall silent while the        *)
(* machine sleeps.  Routing only chooses among the Reviewers that may      *)
(* reserve, and is left out, as are the rounds of judgment, repair         *)
(* packages, subtasks, and the re-use of a PASS for other commits.         *)
(***************************************************************************)
EXTENDS Naturals, FiniteSetsExt

CONSTANTS
    Developers,     \* Delivery agents that may own the task in turn
    Reviewers,      \* of another vendor than the Delivery agents
    Ledgers,        \* contents of a Challenge Ledger
    Calls,          \* bound: request_review calls in flight
    None,
    MaxCommits,     \* bound: saved versions of the task
    MaxCycles,      \* bound: review cycles
    MaxTroubles     \* bound: takeovers, failures, stops, pauses, ... together

Cycles == 1..MaxCycles
Settled == {"passed", "failed"}
Terminal == Settled \cup {"withdrawn"}          \* TERMINAL_QA
Staged == {"authoring", "open", "reserved"}
Held == {"reserved", "claimed"}

Maybe(S) == S \cup {None}
Authorization == [by : Reviewers, commit : 1..MaxCommits, ledger : Ledgers]
Run == [commit : 1..MaxCommits, ledger : Ledgers]
Request ==
    [status : Staged \cup Terminal \cup {"claimed", "suspended"},
     delivery : {"executing", "passed"}, commit : 1..MaxCommits,
     developer : Developers, reservedBy : Maybe(Reviewers), claimedBy : Maybe(Reviewers),
     ledger : Maybe(Ledgers), authorized : Maybe(Authorization), certified : Maybe(Run),
     last : {"none", "failed", "interrupted", "passed"}, retry : BOOLEAN,
     gaveBack : SUBSET Reviewers, intents : {"free", "owed", "given"},
     old : BOOLEAN, pausedFrom : {"none", "reserved", "claimed"}]

ASSUME ReviewAssumption ==
    /\ None \notin Developers \cup Reviewers \cup Ledgers
    /\ None \notin Authorization /\ None \notin Request
    /\ Developers \cap Reviewers = {}
    /\ MaxCommits \in Nat \ {0} /\ MaxCycles \in Nat \ {0}
    /\ MaxTroubles \in Nat

VARIABLES
    head,           \* the saved version of the task's branch
    writer,         \* the Delivery agent with write authority
    requests,       \* qa_requests of the task, by cycle
    calls,          \* request_review calls
    execs,          \* execute_challenge, one per request (its file lock)
    store,          \* certified runs: the execution store
    verdicts,       \* a PASS between the two transactions of qa_result
    lease,          \* review_execution of each agent
    reviewer,       \* the Reviewers' agent records
    paused,         \* project_pause
    troubles        \* bound: how much has happened of what MaxTroubles bounds

work == <<head, writer>>
people == <<reviewer, paused>>
running == <<calls, execs, store, verdicts>>
vars == <<work, requests, running, lease, people, troubles>>

Idle == [phase |-> "idle", by |-> None, commit |-> 0, cycle |-> 0]
NoLease == [cycle |-> 0, active |-> FALSE, fresh |-> FALSE]

\* A request as request_review stages it.
NewRequest(d, commit) ==
    [status |-> "authoring", delivery |-> "executing", commit |-> commit,
     developer |-> d, reservedBy |-> None, claimedBy |-> None,
     ledger |-> None,           \* the bytes of the ledger file named by it
     authorized |-> None,       \* challenge_execution_authorization
     certified |-> None,        \* challenge_execution
     last |-> "none",           \* the last of challenge_execution_attempts
     retry |-> FALSE,           \* challenge_interrupted_retry_required
     gaveBack |-> {},           \* relinquished_by
     intents |-> "free",        \* "owed" once reserved while Delivery runs
     old |-> FALSE,             \* 90 s since it was requested or claimed
     pausedFrom |-> "none"]     \* paused_from_status

Present == {c \in Cycles : requests[c] # None}
Active == {c \in Present : requests[c].status \notin Terminal}
NextCycle == IF Present = {} THEN 1 ELSE Max(Present) + 1

Trouble == troubles < MaxTroubles /\ troubles' = troubles + 1

HeldBy(c, r) == requests[c].reservedBy = r \/ requests[c].claimedBy = r
ReservedBy(c, r) == c \in Present /\ requests[c].status = "reserved" /\ requests[c].reservedBy = r
ClaimedBy(c, r) == c \in Present /\ requests[c].status = "claimed" /\ requests[c].claimedBy = r

\* A stopped Reviewer's terminal may still have calls to make.  A Reviewer
\* gives one command at a time; only an execution may outlive its command.
Acting(r) == ~paused /\ reviewer[r] # "offline" /\ verdicts[r] = None

Init ==
    /\ head = 1 /\ writer \in Developers
    /\ requests = [c \in Cycles |-> None]
    /\ calls = [k \in Calls |-> Idle]
    /\ execs = [c \in Cycles |-> None]
    /\ store = {}
    /\ verdicts = [r \in Reviewers |-> None]
    /\ lease = [a \in Developers \cup Reviewers |-> NoLease]
    /\ reviewer = [r \in Reviewers |-> "active"]
    /\ paused = FALSE
    /\ troubles = 0

\* Nothing reads the bookkeeping of a request that is settled or withdrawn.
Closed(q, status) ==
    [q EXCEPT !.status = status, !.last = "none", !.retry = FALSE, !.old = FALSE,
              !.intents = "free", !.gaveBack = {}]

-----------------------------------------------------------------------------
(* Execution leases and time *)

\* review_execution_finish: the lease settles for 90 seconds.
Finished(l, c) == IF l.cycle = c THEN [l EXCEPT !.active = FALSE, !.fresh = TRUE] ELSE l

\* Whether a process of agent a is left that refreshes its lease.
Beating(a) ==
    /\ ~paused /\ lease[a].active
    /\ IF a \in Developers
       THEN a = writer /\ \E k \in Calls : /\ calls[k].phase = "executing" /\ calls[k].by = a
                                           /\ calls[k].cycle = lease[a].cycle
       ELSE reviewer[a] = "active" /\ \E c \in Cycles : /\ execs[c] # None /\ execs[c].by = a
                                                        /\ c = lease[a].cycle

Heartbeat(a) ==
    /\ Beating(a) /\ ~lease[a].fresh
    /\ lease' = [lease EXCEPT ![a].fresh = TRUE]
    /\ UNCHANGED <<work, requests, running, people, troubles>>

\* REVIEW_EXECUTION_STALE_SECONDS pass, with the heartbeats of the processes
\* that run, or, when the machine sleeps, without.
Lapse ==
    /\ \E awake \in BOOLEAN :
        lease' = [a \in DOMAIN lease |-> [lease[a] EXCEPT !.fresh = awake /\ Beating(a)]]
    /\ requests' = [c \in Cycles |-> IF c \in Active THEN [requests[c] EXCEPT !.old = TRUE]
                                                      ELSE requests[c]]
    /\ UNCHANGED <<work, running, people, troubles>>

-----------------------------------------------------------------------------
(* Delivery: request_review *)

\* _candidate_freeze_reason
Frozen ==
    LET verdictsGiven == {c \in Present : requests[c].status \in Settled}
    IN verdictsGiven # {} /\ requests[Max(verdictsGiven)].status = "passed"

Commit ==
    /\ ~paused /\ ~Frozen /\ head < MaxCommits
    /\ head' = head + 1
    /\ UNCHANGED <<writer, requests, running, lease, people, troubles>>

\* The first transaction: authenticate, and read the candidate.
Capture(k) ==
    /\ calls[k] = Idle /\ ~paused /\ Active = {}
    /\ calls' = [calls EXCEPT ![k] = [phase |-> "captured", by |-> writer,
                                      commit |-> head, cycle |-> 0]]
    /\ UNCHANGED <<work, requests, execs, store, verdicts, lease, people, troubles>>

\* MUTANT of MayRequest: the repeated check of the active review is missing.
MayRequestUnchecked(k, others) ==
    /\ calls[k].by = writer
    /\ others # {} => /\ requests[Max(others)].status = "passed"
                         => requests[Max(others)].commit # calls[k].commit

\* The checks both later transactions repeat, among the other requests.
MayRequest(k, others) ==
    /\ calls[k].by = writer
    /\ Active \cap others = {}
    /\ others # {} => /\ requests[Max(others)].status = "passed"
                         => requests[Max(others)].commit # calls[k].commit

\* The second transaction stages the request; its lease starts.
Stage(k) ==
    /\ calls[k].phase = "captured" /\ ~paused
    /\ IF MayRequest(k, Present)
       THEN LET c == NextCycle
                d == calls[k].by
            IN /\ c <= MaxCycles
               /\ requests' = [requests EXCEPT ![c] = NewRequest(d, calls[k].commit)]
               /\ lease' = [lease EXCEPT ![d] = [cycle |-> c, active |-> TRUE, fresh |-> TRUE]]
               /\ calls' = [calls EXCEPT ![k].phase = "executing", ![k].cycle = c]
       ELSE calls' = [calls EXCEPT ![k] = Idle] /\ UNCHANGED <<requests, lease>>
    /\ UNCHANGED <<work, execs, store, verdicts, people, troubles>>

\* What the third transaction keeps of the staged request.
Republished(staged, k) ==
    [NewRequest(calls[k].by, calls[k].commit) EXCEPT
        !.status = IF staged.status = "reserved" THEN "reserved" ELSE "open",
        !.delivery = "passed", !.old = staged.old,
        !.reservedBy = staged.reservedBy, !.intents = staged.intents]

\* The evidence has passed: the third transaction, or its refusal.
Publish(k) ==
    LET c == calls[k].cycle
        published == /\ c \in Present /\ requests[c].status \in Staged
                     /\ MayRequest(k, Present \ {c})
    IN /\ calls[k].phase = "executing" /\ ~paused
       /\ requests' = IF published
                      THEN [requests EXCEPT ![c] = Republished(requests[c], k)] ELSE requests
       /\ lease' = [lease EXCEPT ![calls[k].by] = Finished(@, c)]
       /\ calls' = [calls EXCEPT ![k] = Idle]
       /\ UNCHANGED <<work, execs, store, verdicts, people, troubles>>

\* The evidence failed, or could not run: the request leaves the board.
FailDelivery(k) ==
    LET c == calls[k].cycle
    IN /\ calls[k].phase = "executing" /\ ~paused /\ Trouble
       /\ requests' = IF c \in Present /\ requests[c].status \in Staged
                      THEN [requests EXCEPT ![c] = None] ELSE requests
       /\ lease' = [lease EXCEPT ![calls[k].by] = Finished(@, c)]
       /\ calls' = [calls EXCEPT ![k] = Idle]
       /\ UNCHANGED <<work, execs, store, verdicts, people>>

\* The command is killed, or finds the board closed.
CallDies(k) ==
    /\ calls[k].phase # "idle" /\ Trouble
    /\ calls' = [calls EXCEPT ![k] = Idle]
    /\ UNCHANGED <<work, requests, execs, store, verdicts, lease, people>>

-----------------------------------------------------------------------------
(* Recovery: recover_interrupted_executions *)

LeaseHolds(a, c) == lease[a].cycle = c /\ lease[a].fresh

\* MUTANT of RecoverDelivery: a reserved request is taken for a Reviewer's.
RecoverUnreserved(c) ==
    /\ ~paused /\ c \in Present
    /\ requests[c].status \in Staged \ {"reserved"} /\ requests[c].delivery = "executing"
    /\ requests[c].old /\ ~LeaseHolds(requests[c].developer, c)
    /\ requests' = [requests EXCEPT ![c] = None]
    /\ UNCHANGED <<work, running, lease, people, troubles>>

\* A staged request whose Delivery evidence nobody runs leaves the board.
RecoverDelivery(c) ==
    /\ ~paused /\ c \in Present
    /\ requests[c].status \in Staged /\ requests[c].delivery = "executing"
    /\ requests[c].old /\ ~LeaseHolds(requests[c].developer, c)
    /\ requests' = [requests EXCEPT ![c] = None]
    /\ UNCHANGED <<work, running, lease, people, troubles>>

\* _reopen_reserved_request, and what every reopening shares: back to the
\* queue, with the intents of the last Reviewer abandoned.
Reopened(q) ==
    [q EXCEPT !.status = IF q.delivery = "executing" THEN "authoring" ELSE "open",
              !.reservedBy = None, !.claimedBy = None, !.ledger = None,
              !.retry = FALSE, !.intents = "free"]

\* A claimed request whose challenge nobody executes: an active Reviewer
\* keeps it and is told to retry, an inactive one loses it.
RecoverReview(c) ==
    /\ ~paused /\ c \in Present
    /\ LET q == requests[c]
           r == q.claimedBy
           interrupted == [q EXCEPT !.last = "interrupted"]
       IN /\ q.status = "claimed" /\ q.certified = None /\ ~q.retry
          /\ IF lease[r].cycle = c THEN ~lease[r].fresh ELSE q.old
          /\ requests' = [requests EXCEPT ![c] =
                            IF reviewer[r] = "active" THEN [interrupted EXCEPT !.retry = TRUE]
                            ELSE [Reopened(interrupted) EXCEPT !.authorized = None]]
          /\ lease' = IF lease[r].cycle = c THEN [lease EXCEPT ![r].active = FALSE] ELSE lease
    /\ UNCHANGED <<work, running, people, troubles>>

-----------------------------------------------------------------------------
(* The Reviewer *)

Reserve(r, c) ==
    /\ Acting(r) /\ c \in Present /\ requests[c].status \in {"authoring", "open"}
    /\ r \notin requests[c].gaveBack
    /\ \A o \in Present : requests[o].status \in Held => ~HeldBy(o, r)
    /\ requests' = [requests EXCEPT ![c].status = "reserved", ![c].reservedBy = r,
                        ![c].retry = FALSE,
                        ![c].intents = IF requests[c].delivery = "executing" THEN "owed" ELSE @]
    /\ UNCHANGED <<work, running, lease, people, troubles>>

RecordIntents(r, c) ==
    /\ Acting(r) /\ ReservedBy(c, r) /\ requests[c].intents = "owed"
    /\ requests' = [requests EXCEPT ![c].intents = "given"]
    /\ UNCHANGED <<work, running, lease, people, troubles>>

\* Given back: open to others, or withdrawn when the work has moved on.
Relinquish(r, c) ==
    /\ Acting(r) /\ ReservedBy(c, r)
    /\ LET given == [Reopened(requests[c]) EXCEPT !.gaveBack = @ \cup {r}]
       IN requests' = [requests EXCEPT ![c] = IF given.commit = head THEN given
                                              ELSE Closed(given, "withdrawn")]
    /\ UNCHANGED <<work, running, lease, people, troubles>>

\* release_expired_review_reservations
Expire(c) ==
    /\ ~paused /\ c \in Present /\ requests[c].status = "reserved" /\ Trouble
    /\ requests' = [requests EXCEPT ![c] = Reopened(@)]
    /\ UNCHANGED <<work, running, lease, people>>

\* _withdraw_for_lost_evidence: a reservation found the evidence gone.
LoseEvidence(c) ==
    /\ ~paused /\ c \in Present /\ requests[c].status = "open"
    /\ requests[c].delivery = "passed" /\ Trouble
    /\ requests' = [requests EXCEPT ![c] = Closed(@, "withdrawn")]
    /\ UNCHANGED <<work, running, lease, people>>

\* A failed or interrupted challenge lets its Reviewer replace the ledger.
MayCorrect(r, c) ==
    ClaimedBy(c, r) /\ requests[c].certified = None /\ requests[c].last \in {"failed", "interrupted"}

\* MUTANT of Attach: does not wait for the Delivery evidence.
AttachEarly(r, c, l) ==
    /\ Acting(r)
    /\ ReservedBy(c, r) \/ MayCorrect(r, c)
    /\ requests[c].intents # "owed"
    /\ requests' = [requests EXCEPT ![c].status = "claimed", ![c].claimedBy = r,
                        ![c].ledger = l, ![c].retry = FALSE, ![c].old = FALSE,
                        ![c].authorized = [by |-> r, commit |-> requests[c].commit, ledger |-> l]]
    /\ UNCHANGED <<work, running, lease, people, troubles>>

Attach(r, c, l) ==
    /\ Acting(r)
    /\ ReservedBy(c, r) \/ MayCorrect(r, c)
    /\ requests[c].delivery = "passed" /\ requests[c].intents # "owed"
    /\ requests' = [requests EXCEPT ![c].status = "claimed", ![c].claimedBy = r,
                        ![c].ledger = l, ![c].retry = FALSE, ![c].old = FALSE,
                        ![c].authorized = [by |-> r, commit |-> requests[c].commit, ledger |-> l]]
    /\ UNCHANGED <<work, running, lease, people, troubles>>

\* The attached file is changed on disk.
EditLedger(c, l) ==
    /\ c \in Active /\ requests[c].ledger \notin {None, l} /\ Trouble
    /\ requests' = [requests EXCEPT ![c].ledger = l]
    /\ UNCHANGED <<work, running, lease, people>>

\* execute_challenge, under the request's file lock.
StartExecute(r, c) ==
    /\ Acting(r) /\ reviewer[r] = "active" /\ ClaimedBy(c, r) /\ execs[c] = None
    /\ LET q == requests[c]
       IN /\ q.authorized = [by |-> r, commit |-> q.commit, ledger |-> q.ledger]
          /\ q.certified # None => q.certified.ledger # q.ledger      \* already_certified
          /\ execs' = [execs EXCEPT ![c] = [by |-> r, commit |-> q.commit, ledger |-> q.ledger]]
    /\ lease' = [lease EXCEPT ![r] = [cycle |-> c, active |-> TRUE, fresh |-> TRUE]]
    /\ UNCHANGED <<work, requests, calls, store, verdicts, people, troubles>>

ExecuteEnds(c) ==
    /\ execs[c] # None
    /\ execs' = [execs EXCEPT ![c] = None]
    /\ UNCHANGED <<work, calls, verdicts, people>>

CertifyExecute(c) ==
    LET run == [commit |-> execs[c].commit, ledger |-> execs[c].ledger]
    IN
    /\ ExecuteEnds(c) /\ ~paused
    /\ store' = store \cup {run}
    /\ requests' = IF ClaimedBy(c, execs[c].by)
                   THEN [requests EXCEPT ![c].last = "passed", ![c].certified = run]
                   ELSE requests
    /\ lease' = [lease EXCEPT ![execs[c].by] = Finished(@, c)]
    /\ UNCHANGED troubles

FailExecute(c) ==
    /\ ExecuteEnds(c) /\ ~paused /\ Trouble
    /\ requests' = IF c \in Active /\ requests[c].claimedBy = execs[c].by
                   THEN [requests EXCEPT ![c].last = "failed"] ELSE requests
    /\ lease' = [lease EXCEPT ![execs[c].by] = Finished(@, c)]
    /\ UNCHANGED store

ExecuteDies(c) ==
    /\ ExecuteEnds(c) /\ Trouble
    /\ UNCHANGED <<requests, lease, store>>

\* MUTANT of CheckPass: any certified execution will do.
CheckPassAnyLedger(r, c) ==
    /\ Acting(r) /\ ClaimedBy(c, r) /\ requests[c].certified # None
    /\ verdicts' = [verdicts EXCEPT ![r] = [cycle |-> c, ledger |-> requests[c].ledger]]
    /\ UNCHANGED <<work, requests, calls, execs, store, lease, people, troubles>>

\* qa_result, PASS: the first transaction checks the certification.
CheckPass(r, c) ==
    /\ Acting(r) /\ ClaimedBy(c, r)
    /\ requests[c].certified # None /\ requests[c].certified.ledger = requests[c].ledger
    /\ verdicts' = [verdicts EXCEPT ![r] = [cycle |-> c, ledger |-> requests[c].ledger]]
    /\ UNCHANGED <<work, requests, calls, execs, store, lease, people, troubles>>

RecordPass(r) ==
    /\ ~paused /\ verdicts[r] # None
    /\ LET c == verdicts[r].cycle
       IN requests' = IF ClaimedBy(c, r) /\ requests[c].ledger = verdicts[r].ledger
                      THEN [requests EXCEPT ![c] = Closed(@, "passed")] ELSE requests
    /\ verdicts' = [verdicts EXCEPT ![r] = None]
    /\ UNCHANGED <<work, calls, execs, store, lease, people, troubles>>

\* A FAIL needs no certification, nor a ledger (_early_fail_allowed).
RecordFail(r, c) ==
    /\ Acting(r)
    /\ \/ ClaimedBy(c, r)
       \/ ReservedBy(c, r) /\ requests[c].delivery = "passed"
    /\ requests' = [requests EXCEPT ![c] = Closed([requests[c] EXCEPT !.claimedBy = r], "failed")]
    /\ UNCHANGED <<work, running, lease, people, troubles>>

-----------------------------------------------------------------------------
(* Agents and the project *)

\* resume_task: another Delivery agent takes the task and its requests over.
Takeover(d) ==
    /\ ~paused /\ d # writer /\ Trouble
    /\ writer' = d
    /\ requests' = [c \in Cycles |-> IF c \in Active /\ requests[c].developer = writer
                                     THEN [requests[c] EXCEPT !.developer = d] ELSE requests[c]]
    /\ UNCHANGED <<head, running, lease, people>>

\* MUTANT of ReopensOnStop: every request the Reviewer ever held.
ReopensAllHeld(c, r) == HeldBy(c, r)

\* _reopen_stopped_reviews: settled verdicts are left alone.
ReopensOnStop(c, r) == requests[c].status \in Staged \cup {"claimed"} /\ HeldBy(c, r)

StopReviewer(r) ==
    /\ reviewer[r] = "active" /\ Trouble
    /\ reviewer' = [reviewer EXCEPT ![r] = "stopped"]
    /\ requests' = [c \in Cycles |-> IF c \in Present /\ ReopensOnStop(c, r)
                                     THEN Reopened(requests[c]) ELSE requests[c]]
    /\ UNCHANGED <<work, running, lease, paused>>

\* The terminal ends; its agent goes offline and keeps what it holds.
GoOffline(r) ==
    /\ ~paused /\ reviewer[r] # "offline"
    /\ IF reviewer[r] = "active" THEN Trouble ELSE UNCHANGED troubles
    /\ reviewer' = [reviewer EXCEPT ![r] = "offline"]
    /\ verdicts' = [verdicts EXCEPT ![r] = None]
    /\ UNCHANGED <<work, requests, calls, execs, store, lease, paused>>

Return(r) ==
    /\ ~paused /\ reviewer[r] = "offline"
    /\ reviewer' = [reviewer EXCEPT ![r] = "active"]
    /\ UNCHANGED <<work, requests, running, lease, paused, troubles>>

Pause ==
    /\ ~paused /\ Trouble /\ paused' = TRUE
    /\ requests' = [c \in Cycles |-> IF c \in Present /\ requests[c].status \in Held
                                     THEN [requests[c] EXCEPT !.status = "suspended",
                                                              !.pausedFrom = requests[c].status]
                                     ELSE requests[c]]
    /\ UNCHANGED <<work, running, lease, reviewer>>

\* MUTANT of Resume: requests that were not suspended are restored too.
ResumeAll ==
    /\ paused /\ paused' = FALSE
    /\ requests' = [c \in Cycles |-> IF c \in Present
                                     THEN [requests[c] EXCEPT !.status = requests[c].pausedFrom,
                                                              !.pausedFrom = "none"]
                                     ELSE requests[c]]
    /\ UNCHANGED <<work, running, lease, reviewer, troubles>>

Resume ==
    /\ paused /\ paused' = FALSE
    /\ requests' = [c \in Cycles |-> IF c \in Present /\ requests[c].status = "suspended"
                                     THEN [requests[c] EXCEPT !.status = requests[c].pausedFrom,
                                                              !.pausedFrom = "none"]
                                     ELSE requests[c]]
    /\ UNCHANGED <<work, running, lease, reviewer, troubles>>

-----------------------------------------------------------------------------
Delivery(k) == Capture(k) \/ Stage(k) \/ Publish(k) \/ FailDelivery(k) \/ CallDies(k)

Review(r, c) ==
    \/ Reserve(r, c) \/ RecordIntents(r, c) \/ Relinquish(r, c) \/ StartExecute(r, c)
    \/ CheckPass(r, c) \/ RecordFail(r, c)
    \/ \E l \in Ledgers : Attach(r, c, l)

Executing(c) == CertifyExecute(c) \/ FailExecute(c) \/ ExecuteDies(c)

Tick(c) == RecoverDelivery(c) \/ RecoverReview(c)

Owner(r) == StopReviewer(r) \/ GoOffline(r) \/ Return(r) \/ RecordPass(r)

Next ==
    \/ Commit \/ Lapse \/ Pause \/ Resume
    \/ \E k \in Calls : Delivery(k)
    \/ \E c \in Cycles : \/ Executing(c) \/ Tick(c) \/ Expire(c) \/ LoseEvidence(c)
                         \/ \E r \in Reviewers : Review(r, c)
                         \/ \E l \in Ledgers : EditLedger(c, l)
    \/ \E r \in Reviewers : Owner(r)
    \/ \E d \in Developers : Takeover(d)
    \/ \E a \in Developers \cup Reviewers : Heartbeat(a)

Spec == Init /\ [][Next]_vars

\* Time passes, and the coordination tick keeps coming.
FairSpec == Spec /\ WF_vars(Lapse) /\ \A c \in Cycles : WF_vars(RecoverDelivery(c))

-----------------------------------------------------------------------------
\* Types: requests, calls and leases are well formed, and an executing
\* call names a cycle.
TypeOK ==
    /\ head \in 1..MaxCommits /\ writer \in Developers /\ paused \in BOOLEAN
    /\ requests \in [Cycles -> Maybe(Request)]
    /\ calls \in [Calls -> [phase : {"idle", "captured", "executing"}, by : Maybe(Developers),
                            commit : 0..MaxCommits, cycle : 0..MaxCycles]]
    /\ execs \in [Cycles -> Maybe(Authorization)]
    /\ store \subseteq Run
    /\ verdicts \in [Reviewers -> Maybe([cycle : Cycles, ledger : Ledgers])]
    /\ lease \in [Developers \cup Reviewers ->
                    [cycle : 0..MaxCycles, active : BOOLEAN, fresh : BOOLEAN]]
    /\ reviewer \in [Reviewers -> {"active", "stopped", "offline"}]
    /\ \A k \in Calls : calls[k].phase = "executing" => calls[k].cycle \in Cycles
    /\ troubles \in 0..MaxTroubles

\* The task never has two reviews under way, although request_review checks
\* it, lets the lock go and stages later, and requests are popped and made
\* again while older calls still run.
OneActiveReview == Cardinality(Active) <= 1

\* Only Delivery success opens the execution: whoever holds a claim, also
\* across a pause, attached a ledger to the commit the request still names,
\* after its Delivery evidence passed.
AuthorizedClaim ==
    \A c \in Present :
        LET q == requests[c]
        IN q.status = "claimed" \/ q.pausedFrom = "claimed"
           => /\ q.delivery = "passed" /\ q.authorized # None
              /\ q.authorized.by = q.claimedBy /\ q.authorized.commit = q.commit

\* A PASS rests on an execution of the reviewed commit and of the ledger as
\* it is at the verdict, and its Reviewer had been authorized for that commit.
PassIsCertified ==
    \A c \in Present :
        LET q == requests[c]
        IN q.status = "passed"
           => /\ [commit |-> q.commit, ledger |-> q.ledger] \in store /\ q.authorized # None
              /\ q.authorized.by = q.claimedBy /\ q.authorized.commit = q.commit

\* A settled verdict is history: whatever stops, pauses, moves or still runs,
\* it keeps its commit, its Reviewer, its ledger and its execution.
SettledVerdictKept ==
    [][\A c \in Present :
        requests[c].status \in Settled
        => /\ requests'[c] # None
           /\ \A f \in {"status", "commit", "claimedBy", "ledger", "certified"} :
                requests'[c][f] = requests[c][f]]_vars

\* A staged request whose Delivery command is gone does not block the scope:
\* it is cleared, unless the project is paused.
Orphaned(c) ==
    /\ c \in Present /\ requests[c].status \in Staged /\ requests[c].delivery = "executing"
    /\ \A k \in Calls : calls[k].phase # "executing" \/ calls[k].cycle # c

OrphanCleared == \A c \in Cycles : Orphaned(c) ~> ~Orphaned(c) \/ paused
=============================================================================
