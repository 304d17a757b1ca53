------------------------- MODULE ReviewCycleProofs -------------------------
(***************************************************************************)
(* Theorems about the final review of a task: how many reviews there are,  *)
(* what a claim and a PASS rest on, and what becomes of a verdict, for any *)
(* number of agents, Reviewers, ledgers, commits, cycles and troubles, and *)
(* (except for the PASS) of overlapping request_review calls.              *)
(***************************************************************************)
EXTENDS ReviewCycle, FiniteSetTheorems, TLAPS

(***************************************************************************)
(* The invariant.  The board: a request is suspended exactly when it says  *)
(* from what, and a claim rests on an authorization for its commit.        *)
(***************************************************************************)
Suspension(q) == q.status = "suspended" <=> q.pausedFrom # "none"

Claim(q) ==
    q.status = "claimed" \/ q.pausedFrom = "claimed"
    => /\ q.delivery = "passed" /\ q.authorized # None
       /\ q.authorized.by = q.claimedBy /\ q.authorized.commit = q.commit

Good(q) == q \in Request /\ Suspension(q) /\ Claim(q)

Board ==
    /\ requests \in [Cycles -> Maybe(Request)]
    /\ \A c \in Present : Good(requests[c])
    /\ \A c, d \in Active : c = d

\* The processes beside the board.
Processes ==
    /\ head \in 1..MaxCommits /\ writer \in Developers /\ paused \in BOOLEAN
    /\ calls \in [Calls -> [phase : {"idle", "captured", "executing"}, by : Maybe(Developers),
                            commit : 0..MaxCommits, cycle : 0..MaxCycles]]
    /\ \A k \in Calls : /\ calls[k].phase # "idle" => calls[k].commit \in 1..MaxCommits
                        /\ calls[k].phase = "executing" => calls[k].cycle \in Cycles
    /\ execs \in [Cycles -> Maybe(Authorization)]
    /\ store \subseteq Run
    /\ verdicts \in [Reviewers -> Maybe([cycle : Cycles, ledger : Ledgers])]
    /\ lease \in [Developers \cup Reviewers ->
                    [cycle : 0..MaxCycles, active : BOOLEAN, fresh : BOOLEAN]]
    /\ reviewer \in [Reviewers -> {"active", "stopped", "offline"}]
    /\ troubles \in 0..MaxTroubles

\* What a PASS will rest on: executions are of the commit their request names,
\* a verdict under way and a certification are backed by the execution store.
\* Delivery evidence that runs is never that of a request already delivered.
Delivered(c) == c \in Present /\ requests[c].delivery = "passed"
Stored(c, l) == [commit |-> requests[c].commit, ledger |-> l] \in store

Delivering ==
    \A k \in Calls : calls[k].phase = "executing" => ~Delivered(calls[k].cycle)

Executions ==
    \A c \in Cycles : execs[c] # None => Delivered(c) /\ requests[c].commit = execs[c].commit

Verdicts ==
    \A r \in Reviewers : verdicts[r] # None =>
        Delivered(verdicts[r].cycle) /\ Stored(verdicts[r].cycle, verdicts[r].ledger)

Certified == \A c \in Present : requests[c].certified # None => Stored(c, requests[c].certified.ledger)

Evidence == Delivering /\ Executions /\ Verdicts /\ Certified /\ PassIsCertified

(***************************************************************************)
(* Lemmas about requests.                                                  *)
(***************************************************************************)
\* A request keeps what the evidence is about, and does not pass.
Alike(q, n) == /\ n.delivery = q.delivery /\ n.commit = q.commit /\ n.certified = q.certified
               /\ n.status = "passed" => q.status = "passed"

LEMMA NewGood ==
    ASSUME NEW d \in Developers, NEW m \in 1..MaxCommits
    PROVE  Good(NewRequest(d, m)) /\ NewRequest(d, m).status = "authoring"
           /\ NewRequest(d, m).delivery = "executing" /\ NewRequest(d, m).certified = None
           /\ NewRequest(d, m).commit = m
BY DEF Good, Suspension, Claim, NewRequest, Request, Maybe, Staged

LEMMA ReopenedGood ==
    ASSUME NEW q, Good(q), q.pausedFrom = "none"
    PROVE  Good(Reopened(q)) /\ Reopened(q).status \in {"authoring", "open"}
           /\ Alike(q, Reopened(q))
<1>1. Reopened(q) \in Request
  <2> DEFINE s == IF q.delivery = "executing" THEN "authoring" ELSE "open"
  <2>1. s \in Staged /\ None \in Maybe(Reviewers) /\ None \in Maybe(Ledgers)
    BY DEF Staged, Maybe
  <2>2. Reopened(q) = [q EXCEPT !.status = s, !.reservedBy = None, !.claimedBy = None,
                                !.ledger = None, !.retry = FALSE, !.intents = "free"]
    BY DEF Reopened
  <2> HIDE DEF s
  <2> QED BY <2>1, <2>2 DEF Good, Request
<1>2. /\ Reopened(q).status \in {"authoring", "open"} /\ Reopened(q).pausedFrom = q.pausedFrom
      /\ Reopened(q).delivery = q.delivery /\ Reopened(q).commit = q.commit
      /\ Reopened(q).certified = q.certified
  BY DEF Good, Reopened, Request
<1> QED BY <1>1, <1>2 DEF Good, Suspension, Claim, Alike

LEMMA ClosedGood ==
    ASSUME NEW q, Good(q), q.pausedFrom = "none", NEW s \in Terminal
    PROVE  Good(Closed(q, s)) /\ Closed(q, s).status = s
           /\ (s # "passed" => Alike(q, Closed(q, s)))
           /\ Closed(q, s).delivery = q.delivery /\ Closed(q, s).commit = q.commit
           /\ Closed(q, s).claimedBy = q.claimedBy /\ Closed(q, s).ledger = q.ledger
           /\ Closed(q, s).authorized = q.authorized /\ Closed(q, s).certified = q.certified
<1>1. Closed(q, s) \in Request
  BY DEF Good, Closed, Request, Terminal
<1>2. /\ Closed(q, s).status = s /\ Closed(q, s).pausedFrom = q.pausedFrom
      /\ Closed(q, s).delivery = q.delivery /\ Closed(q, s).commit = q.commit
      /\ Closed(q, s).claimedBy = q.claimedBy /\ Closed(q, s).ledger = q.ledger
      /\ Closed(q, s).authorized = q.authorized /\ Closed(q, s).certified = q.certified
  BY DEF Good, Closed, Request
<1> QED BY <1>1, <1>2 DEF Good, Suspension, Claim, Alike, Terminal, Settled

\* The next cycle is a new one.
LEMMA NextCycleFresh == NextCycle \in Nat \ {0} /\ NextCycle \notin Present
<1>1. CASE Present = {}
  BY <1>1 DEF NextCycle
<1>2. CASE Present # {}
  <2> DEFINE T == {MaxCycles - c : c \in Present}
             R == OpToRel(<, Nat)
  <2>1. Present \subseteq Cycles /\ MaxCycles \in Nat
    BY ReviewAssumption DEF Present
  <2>2. T \in SUBSET Nat /\ T # {}
    <3>1. PICK c \in Present : TRUE
      BY <1>2
    <3>2. MaxCycles - c \in T
      BY <3>1
    <3>3. \A n \in T : n \in Nat
      BY <2>1 DEF Cycles
    <3> QED BY <3>2, <3>3
  <2>3. PICK n \in T : \A k \in T : <<k, n>> \notin R
    <3> HIDE DEF T
    <3> QED BY <2>2, NatLessThanWellFounded, WFMin
  <2>4. PICK m \in Present : n = MaxCycles - m
    OBVIOUS
  <2>5. \A c \in Present : m >= c
    <3> SUFFICES ASSUME NEW c \in Present PROVE m >= c
      OBVIOUS
    <3>1. MaxCycles - c \in T
      OBVIOUS
    <3>2. MaxCycles - c \in Nat /\ n \in Nat /\ <<MaxCycles - c, n>> \notin R
      BY <2>2, <2>3, <3>1
    <3>3. ~(MaxCycles - c < n)
      BY <3>2 DEF OpToRel
    <3>4. m \in 1..MaxCycles /\ c \in 1..MaxCycles
      BY <2>1 DEF Cycles
    <3> QED BY <2>1, <2>4, <3>3, <3>4
  <2>6. Max(Present) \in Present /\ \A c \in Present : Max(Present) >= c
    BY <2>4, <2>5 DEF Max
  <2>7. Max(Present) \in 1..MaxCycles /\ NextCycle = Max(Present) + 1
    BY <1>2, <2>1, <2>6 DEF NextCycle, Cycles
  <2>8. NextCycle \notin Present
    BY <2>6, <2>7
  <2> QED BY <2>7, <2>8
<1> QED BY <1>1, <1>2

(***************************************************************************)
(* Lemmas about steps.                                                     *)
(***************************************************************************)
\* What every step does to the board.
KeepsSettled == \A c \in Present : requests[c].status \in Settled => requests'[c] = requests[c]

BoardStep == Board' /\ KeepsSettled

\* Every request keeps what the evidence is about.
AllAlike ==
    \A c \in Cycles : IF c \in Present THEN c \in Present' /\ Alike(requests[c], requests'[c])
                                       ELSE c \notin Present'

LEMMA ActiveOnly ==
    ASSUME Board, requests' \in [Cycles -> Maybe(Request)],
           \A c \in Cycles \ Active : requests'[c] = requests[c],
           \A c \in Active : requests'[c] = None \/ Good(requests'[c])
    PROVE  /\ BoardStep
           /\ (\A c \in Active : Good(requests'[c]) /\ Alike(requests[c], requests'[c]))
              => AllAlike
<1>1. Active' \subseteq Active
  BY DEF Active, Present
<1>2. \A c \in Present' : Good(requests'[c])
  BY DEF Board, Active, Present
<1>3. KeepsSettled
  BY DEF KeepsSettled, Active, Present, Terminal
<1>4. (\A c \in Active : Good(requests'[c]) /\ Alike(requests[c], requests'[c])) => AllAlike
  BY ReviewAssumption DEF AllAlike, Alike, Active, Present, Good
<1> QED BY <1>1, <1>2, <1>3, <1>4 DEF Board, BoardStep

LEMMA OneOnly ==
    ASSUME Board, NEW c \in Active, NEW q, q = None \/ Good(q),
           requests' = [requests EXCEPT ![c] = q]
    PROVE  BoardStep /\ (Good(q) /\ Alike(requests[c], q) => AllAlike)
<1>1. c \in Cycles /\ q \in Maybe(Request)
  BY DEF Active, Present, Good, Maybe
<1>2. requests' \in [Cycles -> Maybe(Request)] /\ requests'[c] = q
      /\ \A d \in Cycles \ {c} : requests'[d] = requests[d]
  BY <1>1 DEF Board
<1>3. \A d \in Active : requests'[d] = None \/ Good(requests'[d])
  BY <1>2 DEF Board, Active, Present
<1>4. Good(q) /\ Alike(requests[c], q) => AllAlike
  BY <1>1, <1>2, ReviewAssumption DEF AllAlike, Alike, Present, Active, Good
<1> QED BY <1>2, <1>3, <1>4, ActiveOnly

LEMMA NoneChanges ==
    ASSUME Board, UNCHANGED requests
    PROVE  BoardStep /\ AllAlike
<1>1. BoardStep
  BY ActiveOnly DEF Board, Active, Present
<1>2. AllAlike
  BY DEF AllAlike, Alike, Present
<1> QED BY <1>1, <1>2

LEMMA TroubleCounted ==
    ASSUME Processes, Trouble
    PROVE  troubles' \in 0..MaxTroubles
BY ReviewAssumption DEF Processes, Trouble

\* A step of the board alone.
LEMMA ProcessesKept ==
    ASSUME Processes, UNCHANGED <<work, running, lease, people>>, troubles' \in 0..MaxTroubles
    PROVE  Processes'
BY DEF Processes, work, running, people

LEMMA CallKept ==
    ASSUME Processes, NEW k \in Calls, calls' = [calls EXCEPT ![k] = Idle]
    PROVE  /\ calls' \in [Calls -> [phase : {"idle", "captured", "executing"},
                                    by : Maybe(Developers), commit : 0..MaxCommits,
                                    cycle : 0..MaxCycles]]
           /\ \A l \in Calls : /\ calls'[l].phase # "idle" => calls'[l].commit \in 1..MaxCommits
                               /\ calls'[l].phase = "executing" => calls'[l].cycle \in Cycles
<1>1. Idle \in [phase : {"idle", "captured", "executing"}, by : Maybe(Developers),
                commit : 0..MaxCommits, cycle : 0..MaxCycles] /\ Idle.phase = "idle"
  BY ReviewAssumption DEF Idle, Maybe
<1> QED BY <1>1 DEF Processes

LEMMA LeaseKept ==
    ASSUME Processes, NEW a, NEW l \in [cycle : 0..MaxCycles, active : BOOLEAN, fresh : BOOLEAN],
           lease' = [lease EXCEPT ![a] = l]
    PROVE  lease' \in [Developers \cup Reviewers ->
                         [cycle : 0..MaxCycles, active : BOOLEAN, fresh : BOOLEAN]]
BY DEF Processes

LEMMA LeaseFinished ==
    ASSUME Processes, NEW a, NEW c, lease' = [lease EXCEPT ![a] = Finished(lease[a], c)]
    PROVE  lease' \in [Developers \cup Reviewers ->
                         [cycle : 0..MaxCycles, active : BOOLEAN, fresh : BOOLEAN]]
<1>1. CASE a \in Developers \cup Reviewers
  <2>1. lease[a] \in [cycle : 0..MaxCycles, active : BOOLEAN, fresh : BOOLEAN]
    BY <1>1 DEF Processes
  <2>2. Finished(lease[a], c) \in [cycle : 0..MaxCycles, active : BOOLEAN, fresh : BOOLEAN]
    BY <2>1 DEF Finished
  <2> QED BY <2>2, LeaseKept
<1>2. CASE a \notin Developers \cup Reviewers
  BY <1>2 DEF Processes
<1> QED BY <1>1, <1>2

(***************************************************************************)
(* Every action keeps the board and the processes well formed.             *)
(***************************************************************************)
Kept == BoardStep /\ Processes'

LEMMA CommitKept == ASSUME Board, Processes, Commit PROVE Kept
<1>1. BoardStep
  BY NoneChanges DEF Commit
<1>2. head' \in 1..MaxCommits
  BY ReviewAssumption DEF Commit, Processes
<1>3. Processes'
  BY <1>2 DEF Commit, Processes, running, people
<1> QED BY <1>1, <1>3 DEF Kept

LEMMA HeartbeatKept ==
    ASSUME Board, Processes, NEW a \in Developers \cup Reviewers, Heartbeat(a)
    PROVE  Kept
<1>1. BoardStep
  BY NoneChanges DEF Heartbeat
<1>2. Processes'
  BY DEF Heartbeat, Processes, work, running, people
<1> QED BY <1>1, <1>2 DEF Kept

LEMMA LapseKept == ASSUME Board, Processes, Lapse PROVE Kept /\ AllAlike
<1>1. \A c \in Cycles : requests'[c] = IF c \in Active THEN [requests[c] EXCEPT !.old = TRUE]
                                                      ELSE requests[c]
  BY DEF Lapse
<1>2. \A c \in Active : Good(requests'[c]) /\ Alike(requests[c], requests'[c])
  <2> SUFFICES ASSUME NEW c \in Active PROVE  Good(requests'[c]) /\ Alike(requests[c], requests'[c])
    OBVIOUS
  <2>1. Good(requests[c]) /\ requests'[c] = [requests[c] EXCEPT !.old = TRUE]
    BY <1>1 DEF Board, Active, Present
  <2> QED BY <2>1 DEF Good, Suspension, Claim, Alike, Request
<1>3. requests' \in [Cycles -> Maybe(Request)]
  BY <1>1, <1>2 DEF Lapse, Board, Good, Maybe
<1>4. BoardStep /\ AllAlike
  BY <1>1, <1>2, <1>3, ActiveOnly
<1>5. PICK awake \in BOOLEAN :
        lease' = [a \in DOMAIN lease |-> [lease[a] EXCEPT !.fresh = awake /\ Beating(a)]]
  BY DEF Lapse
<1>6. \A a \in Developers \cup Reviewers : Beating(a) \in BOOLEAN
  BY DEF Beating, Processes
<1>7. lease' \in [Developers \cup Reviewers ->
                    [cycle : 0..MaxCycles, active : BOOLEAN, fresh : BOOLEAN]]
  BY <1>5, <1>6 DEF Processes
<1>8. Processes'
  BY <1>7 DEF Lapse, Processes, work, running, people
<1> QED BY <1>4, <1>8 DEF Kept

LEMMA CaptureKept == ASSUME Board, Processes, NEW k \in Calls, Capture(k) PROVE Kept
<1>1. BoardStep
  BY NoneChanges DEF Capture
<1>2. [phase |-> "captured", by |-> writer, commit |-> head, cycle |-> 0] \in
        [phase : {"idle", "captured", "executing"}, by : Maybe(Developers),
         commit : 0..MaxCommits, cycle : 0..MaxCycles]
  BY ReviewAssumption DEF Processes, Maybe
<1>3. Processes'
  BY <1>2 DEF Capture, Processes, work, people
<1> QED BY <1>1, <1>3 DEF Kept

LEMMA StageKept == ASSUME Board, Processes, NEW k \in Calls, Stage(k) PROVE Kept
<1> DEFINE c == NextCycle
           d == calls[k].by
           m == calls[k].commit
<1>1. m \in 1..MaxCommits /\ calls[k].phase = "captured" /\ calls[k].phase # "executing"
  BY DEF Stage, Processes
<1>2. CASE MayRequest(k, Present)
  <2>1. /\ c <= MaxCycles /\ requests' = [requests EXCEPT ![c] = NewRequest(d, m)]
        /\ lease' = [lease EXCEPT ![d] = [cycle |-> c, active |-> TRUE, fresh |-> TRUE]]
        /\ calls' = [calls EXCEPT ![k].phase = "executing", ![k].cycle = c]
        /\ UNCHANGED <<work, execs, store, verdicts, people, troubles>>
    BY <1>2 DEF Stage
  <2>2. d = writer /\ d \in Developers /\ Active = {}
    BY <1>2 DEF MayRequest, Processes, Active
  <2>3. c \in Cycles /\ c \notin Present
    BY <2>1, NextCycleFresh, ReviewAssumption DEF Cycles
  <2> HIDE DEF c, d, m
  <2>4. Good(NewRequest(d, m)) /\ NewRequest(d, m) \in Maybe(Request)
    BY <1>1, <2>2, NewGood DEF Good, Maybe
  <2>5. /\ requests' \in [Cycles -> Maybe(Request)] /\ requests'[c] = NewRequest(d, m)
        /\ \A e \in Cycles \ {c} : requests'[e] = requests[e]
    BY <2>1, <2>3, <2>4 DEF Board
  <2>6. \A e \in Active' : e = c
    BY <2>2, <2>5 DEF Active, Present
  <2>7. \A e \in Present' : Good(requests'[e])
    BY <2>4, <2>5 DEF Board, Present
  <2>8. BoardStep
    BY <2>3, <2>5, <2>6, <2>7 DEF BoardStep, Board, KeepsSettled, Present
  <2>9. lease' \in [Developers \cup Reviewers ->
                      [cycle : 0..MaxCycles, active : BOOLEAN, fresh : BOOLEAN]]
    <3>1. [cycle |-> c, active |-> TRUE, fresh |-> TRUE] \in
            [cycle : 0..MaxCycles, active : BOOLEAN, fresh : BOOLEAN]
      BY <2>3, ReviewAssumption DEF Cycles
    <3> QED BY <2>1, <3>1, LeaseKept
  <2>10. /\ calls' \in [Calls -> [phase : {"idle", "captured", "executing"},
                                  by : Maybe(Developers), commit : 0..MaxCommits,
                                  cycle : 0..MaxCycles]]
         /\ \A l \in Calls : /\ calls'[l].phase # "idle" => calls'[l].commit \in 1..MaxCommits
                             /\ calls'[l].phase = "executing" => calls'[l].cycle \in Cycles
    <3>1. calls' = [calls EXCEPT ![k] = [calls[k] EXCEPT !.phase = "executing", !.cycle = c]]
      BY <2>1 DEF Processes
    <3>2. c \in 0..MaxCycles
      BY <2>3, ReviewAssumption DEF Cycles
    <3> DEFINE e == [calls[k] EXCEPT !.phase = "executing", !.cycle = c]
    <3>3. /\ e \in [phase : {"idle", "captured", "executing"}, by : Maybe(Developers),
                     commit : 0..MaxCommits, cycle : 0..MaxCycles]
          /\ e.commit = m /\ e.cycle = c
      BY <3>2 DEF Processes, m
    <3> HIDE DEF e
    <3> QED BY <1>1, <2>3, <3>1, <3>3 DEF Processes, m
  <2>11. Processes'
    BY <2>1, <2>9, <2>10 DEF Processes, work, people
  <2> QED BY <2>8, <2>11 DEF Kept
<1>3. CASE ~MayRequest(k, Present)
  <2>1. /\ calls' = [calls EXCEPT ![k] = Idle]
        /\ UNCHANGED <<requests, lease, work, execs, store, verdicts, people, troubles>>
    BY <1>3 DEF Stage
  <2>2. BoardStep
    BY <2>1, NoneChanges
  <2>3. Processes'
    BY <2>1, CallKept DEF Processes, work, people
  <2> QED BY <2>2, <2>3 DEF Kept
<1> QED BY <1>2, <1>3

\* The end of a call, whatever became of its request.
LEMMA CallEnds ==
    ASSUME Processes, NEW k \in Calls,
           lease' = [lease EXCEPT ![calls[k].by] = Finished(lease[calls[k].by], calls[k].cycle)],
           calls' = [calls EXCEPT ![k] = Idle],
           UNCHANGED <<work, execs, store, verdicts, people>>, troubles' \in 0..MaxTroubles
    PROVE  Processes'
<1>1. lease' \in [Developers \cup Reviewers ->
                    [cycle : 0..MaxCycles, active : BOOLEAN, fresh : BOOLEAN]]
  BY LeaseFinished
<1>2. /\ calls' \in [Calls -> [phase : {"idle", "captured", "executing"},
                               by : Maybe(Developers), commit : 0..MaxCommits,
                               cycle : 0..MaxCycles]]
      /\ \A l \in Calls : /\ calls'[l].phase # "idle" => calls'[l].commit \in 1..MaxCommits
                          /\ calls'[l].phase = "executing" => calls'[l].cycle \in Cycles
  BY CallKept
<1> QED BY <1>1, <1>2 DEF Processes, work, people

LEMMA PublishKept == ASSUME Board, Processes, NEW k \in Calls, Publish(k) PROVE Kept
<1> DEFINE c == calls[k].cycle
           published == /\ c \in Present /\ requests[c].status \in Staged
                        /\ MayRequest(k, Present \ {c})
<1>1. /\ requests' = IF published THEN [requests EXCEPT ![c] = Republished(requests[c], k)]
                                  ELSE requests
      /\ lease' = [lease EXCEPT ![calls[k].by] = Finished(lease[calls[k].by], c)]
      /\ calls' = [calls EXCEPT ![k] = Idle] /\ calls[k].phase = "executing"
      /\ UNCHANGED <<work, execs, store, verdicts, people, troubles>>
  BY DEF Publish
<1>2. Processes'
  <2>1. troubles' \in 0..MaxTroubles
    BY <1>1 DEF Processes
  <2> QED BY <1>1, <2>1, CallEnds
<1>3. CASE published
  <2>1. c \in Active /\ Good(requests[c])
    BY <1>3 DEF Active, Board, Present, Terminal, Settled, Staged
  <2>2. calls[k].by \in Developers /\ calls[k].commit \in 1..MaxCommits
    BY <1>1, <1>3 DEF MayRequest, Processes
  <2>3. Good(Republished(requests[c], k))
    <3> DEFINE n == NewRequest(calls[k].by, calls[k].commit)
               s == IF requests[c].status = "reserved" THEN "reserved" ELSE "open"
    <3>1. /\ n \in Request /\ s \in Staged /\ requests[c] \in Request
          /\ n.pausedFrom = "none"
      BY <2>1, <2>2, NewGood DEF Good, Staged, NewRequest
    <3>2. Republished(requests[c], k) =
            [n EXCEPT !.status = s, !.delivery = "passed", !.old = requests[c].old,
                      !.reservedBy = requests[c].reservedBy, !.intents = requests[c].intents]
      BY DEF Republished
    <3> HIDE DEF n, s
    <3>3. Republished(requests[c], k) \in Request
      BY <3>1, <3>2 DEF Request
    <3>4. /\ Republished(requests[c], k).status \in Staged
          /\ Republished(requests[c], k).pausedFrom = "none"
      BY <3>1, <3>2 DEF Request
    <3> QED BY <3>3, <3>4 DEF Good, Suspension, Claim, Staged
  <2> QED BY <1>1, <1>2, <1>3, <2>1, <2>3, OneOnly DEF Kept
<1>4. CASE ~published
  BY <1>1, <1>2, <1>4, NoneChanges DEF Kept
<1> QED BY <1>3, <1>4

LEMMA FailDeliveryKept == ASSUME Board, Processes, NEW k \in Calls, FailDelivery(k) PROVE Kept
<1> DEFINE c == calls[k].cycle
<1>1. /\ requests' = IF c \in Present /\ requests[c].status \in Staged
                     THEN [requests EXCEPT ![c] = None] ELSE requests
      /\ lease' = [lease EXCEPT ![calls[k].by] = Finished(lease[calls[k].by], c)]
      /\ calls' = [calls EXCEPT ![k] = Idle] /\ Trouble
      /\ UNCHANGED <<work, execs, store, verdicts, people>>
  BY DEF FailDelivery
<1>2. Processes'
  BY <1>1, CallEnds, TroubleCounted
<1>3. CASE c \in Present /\ requests[c].status \in Staged
  <2>1. c \in Active
    BY <1>3 DEF Active, Terminal, Settled, Staged
  <2> QED BY <1>1, <1>2, <1>3, <2>1, OneOnly DEF Kept
<1>4. CASE ~(c \in Present /\ requests[c].status \in Staged)
  BY <1>1, <1>2, <1>4, NoneChanges DEF Kept
<1> QED BY <1>3, <1>4

LEMMA CallDiesKept == ASSUME Board, Processes, NEW k \in Calls, CallDies(k) PROVE Kept
<1>1. BoardStep
  BY NoneChanges DEF CallDies
<1>2. /\ calls' = [calls EXCEPT ![k] = Idle] /\ Trouble
      /\ UNCHANGED <<work, execs, store, verdicts, lease, people>>
  BY DEF CallDies
<1>3. Processes'
  BY <1>2, CallKept, TroubleCounted DEF Processes, work, people
<1> QED BY <1>1, <1>3 DEF Kept

LEMMA RecoverDeliveryKept ==
    ASSUME Board, Processes, NEW c \in Cycles, RecoverDelivery(c)
    PROVE  Kept
<1>1. c \in Active /\ requests' = [requests EXCEPT ![c] = None]
  BY DEF RecoverDelivery, Active, Terminal, Settled, Staged
<1>2. Processes'
  BY ProcessesKept DEF RecoverDelivery, Processes
<1> QED BY <1>1, <1>2, OneOnly DEF Kept

LEMMA ClaimedFacts ==
    ASSUME Board, NEW c \in Present, requests[c].status = "claimed"
    PROVE  /\ c \in Active /\ Good(requests[c]) /\ requests[c].pausedFrom = "none"
           /\ requests[c].claimedBy \in Reviewers /\ requests[c].delivery = "passed"
           /\ requests[c].authorized \in Authorization
           /\ requests[c].authorized.by = requests[c].claimedBy
           /\ requests[c].authorized.commit = requests[c].commit
<1>1. Good(requests[c])
  BY DEF Board
<1>2. requests[c].authorized \in Maybe(Authorization) /\ requests[c].authorized # None
  BY <1>1 DEF Good, Claim, Request
<1> QED BY <1>1, <1>2 DEF Good, Suspension, Claim, Active, Terminal, Settled, Maybe, Authorization

LEMMA StagedFacts ==
    ASSUME Board, NEW c \in Present, requests[c].status \in Staged
    PROVE  c \in Active /\ Good(requests[c]) /\ requests[c].pausedFrom = "none"
BY DEF Board, Good, Suspension, Active, Staged, Terminal, Settled

LEMMA RecoverReviewKept ==
    ASSUME Board, Processes, NEW c \in Cycles, RecoverReview(c)
    PROVE  Kept /\ AllAlike
<1> DEFINE q == requests[c]
           r == q.claimedBy
           interrupted == [q EXCEPT !.last = "interrupted"]
<1>1. /\ c \in Present /\ q.status = "claimed"
      /\ requests' = [requests EXCEPT ![c] =
                        IF reviewer[r] = "active" THEN [interrupted EXCEPT !.retry = TRUE]
                        ELSE [Reopened(interrupted) EXCEPT !.authorized = None]]
      /\ lease' = IF lease[r].cycle = c THEN [lease EXCEPT ![r].active = FALSE] ELSE lease
      /\ UNCHANGED <<work, running, people, troubles>>
  BY DEF RecoverReview
<1>2. c \in Active /\ Good(q) /\ q.pausedFrom = "none" /\ r \in Reviewers
  BY <1>1, ClaimedFacts
<1>3. Good(interrupted) /\ interrupted.pausedFrom = "none" /\ Alike(q, interrupted)
  BY <1>2 DEF Good, Suspension, Claim, Alike, Request
<1>4. LET n == [interrupted EXCEPT !.retry = TRUE] IN Good(n) /\ Alike(q, n)
  <2> HIDE DEF interrupted
  <2> QED BY <1>3 DEF Good, Suspension, Claim, Alike, Request
<1>5. LET n == [Reopened(interrupted) EXCEPT !.authorized = None] IN Good(n) /\ Alike(q, n)
  <2> DEFINE o == Reopened(interrupted)
  <2>1. Good(o) /\ o.status \in {"authoring", "open"} /\ Alike(q, o)
    BY <1>3, ReopenedGood DEF Alike
  <2> HIDE DEF o
  <2>2. [o EXCEPT !.authorized = None] \in Request
    BY <2>1 DEF Good, Request, Maybe
  <2>3. /\ [o EXCEPT !.authorized = None].status = o.status
        /\ [o EXCEPT !.authorized = None].pausedFrom = o.pausedFrom
        /\ Alike(o, [o EXCEPT !.authorized = None])
    BY <2>1 DEF Good, Alike, Request
  <2>4. o.pausedFrom = "none"
    BY <2>1 DEF Good, Suspension
  <2>5. Good([o EXCEPT !.authorized = None]) /\ Alike(q, [o EXCEPT !.authorized = None])
    BY <2>1, <2>2, <2>3, <2>4 DEF Good, Suspension, Claim, Alike
  <2> QED BY <2>5 DEF o
<1>6. BoardStep /\ AllAlike
  <2> HIDE DEF interrupted
  <2>1. PICK n : n = IF reviewer[r] = "active" THEN [interrupted EXCEPT !.retry = TRUE]
                     ELSE [Reopened(interrupted) EXCEPT !.authorized = None]
    OBVIOUS
  <2>2. Good(n) /\ Alike(q, n) /\ requests' = [requests EXCEPT ![c] = n]
    BY <1>1, <1>4, <1>5, <2>1
  <2> QED BY <1>2, <2>2, OneOnly
<1>7. lease' \in [Developers \cup Reviewers ->
                    [cycle : 0..MaxCycles, active : BOOLEAN, fresh : BOOLEAN]]
  <2>1. lease[r] \in [cycle : 0..MaxCycles, active : BOOLEAN, fresh : BOOLEAN]
    BY <1>2 DEF Processes
  <2>2. [lease[r] EXCEPT !.active = FALSE] \in
          [cycle : 0..MaxCycles, active : BOOLEAN, fresh : BOOLEAN]
    BY <2>1
  <2>3. lease' = lease \/ lease' = [lease EXCEPT ![r] = [lease[r] EXCEPT !.active = FALSE]]
    BY <1>1
  <2> QED BY <2>2, <2>3, LeaseKept DEF Processes
<1>8. Processes'
  BY <1>1, <1>7 DEF Processes, work, running, people
<1> QED BY <1>6, <1>8 DEF Kept

LEMMA ReserveKept ==
    ASSUME Board, Processes, NEW r \in Reviewers, NEW c \in Cycles, Reserve(r, c)
    PROVE  Kept /\ AllAlike
<1> DEFINE i == IF requests[c].delivery = "executing" THEN "owed" ELSE requests[c].intents
           n == [requests[c] EXCEPT !.status = "reserved", !.reservedBy = r, !.retry = FALSE,
                                    !.intents = i]
<1>1. c \in Active /\ Good(requests[c]) /\ requests[c].pausedFrom = "none"
  BY StagedFacts DEF Reserve, Staged
<1>2. i \in {"free", "owed", "given"}
  BY <1>1 DEF Good, Request
<1>3. requests' = [requests EXCEPT ![c] = n]
  BY <1>1 DEF Reserve, Active, Present, Board, Good, Request
<1> HIDE DEF i
<1>4. n \in Request
  BY <1>1, <1>2 DEF Good, Request, Staged, Maybe
<1>5. n.status = "reserved" /\ n.pausedFrom = "none" /\ Alike(requests[c], n)
  BY <1>1 DEF Good, Alike, Request
<1>6. Good(n)
  BY <1>4, <1>5 DEF Good, Suspension, Claim
<1> HIDE DEF n
<1>7. Processes'
  BY ProcessesKept DEF Reserve, Processes
<1> QED BY <1>1, <1>3, <1>5, <1>6, <1>7, OneOnly DEF Kept

LEMMA RecordIntentsKept ==
    ASSUME Board, Processes, NEW r \in Reviewers, NEW c \in Cycles, RecordIntents(r, c)
    PROVE  Kept /\ AllAlike
<1> DEFINE n == [requests[c] EXCEPT !.intents = "given"]
<1>1. c \in Active /\ Good(requests[c]) /\ requests[c].pausedFrom = "none"
  BY StagedFacts DEF RecordIntents, ReservedBy, Staged
<1>2. requests' = [requests EXCEPT ![c] = n]
  BY DEF RecordIntents
<1>3. Good(n) /\ Alike(requests[c], n)
  BY <1>1 DEF Good, Suspension, Claim, Alike, Request
<1>4. Processes'
  BY ProcessesKept DEF RecordIntents, Processes
<1> HIDE DEF n
<1> QED BY <1>1, <1>2, <1>3, <1>4, OneOnly DEF Kept

LEMMA RelinquishKept ==
    ASSUME Board, Processes, NEW r \in Reviewers, NEW c \in Cycles, Relinquish(r, c)
    PROVE  Kept /\ AllAlike
<1> DEFINE o == Reopened(requests[c])
           given == [o EXCEPT !.gaveBack = o.gaveBack \cup {r}]
<1>1. c \in Active /\ Good(requests[c]) /\ requests[c].pausedFrom = "none"
  BY StagedFacts DEF Relinquish, ReservedBy, Staged
<1>2. requests' = [requests EXCEPT ![c] = IF given.commit = head THEN given
                                          ELSE Closed(given, "withdrawn")]
  BY DEF Relinquish
<1>3. Good(o) /\ o.status \in {"authoring", "open"} /\ Alike(requests[c], o)
  BY <1>1, ReopenedGood
<1> HIDE DEF o
<1>4. given \in Request
  BY <1>3 DEF Good, Request
<1>5. given.status = o.status /\ given.pausedFrom = o.pausedFrom /\ Alike(o, given)
  BY <1>3 DEF Good, Alike, Request
<1>6. Good(given) /\ given.pausedFrom = "none" /\ Alike(requests[c], given)
  BY <1>3, <1>4, <1>5 DEF Good, Suspension, Claim, Alike
<1> HIDE DEF given
<1>7. Good(Closed(given, "withdrawn")) /\ Alike(requests[c], Closed(given, "withdrawn"))
  BY <1>6, ClosedGood DEF Alike, Terminal
<1>8. BoardStep /\ AllAlike
  <2>1. PICK n : n = IF given.commit = head THEN given ELSE Closed(given, "withdrawn")
    OBVIOUS
  <2> QED BY <1>1, <1>2, <1>6, <1>7, <2>1, OneOnly
<1>9. Processes'
  BY ProcessesKept DEF Relinquish, Processes
<1> QED BY <1>8, <1>9 DEF Kept

LEMMA ExpireKept == ASSUME Board, Processes, NEW c \in Cycles, Expire(c) PROVE Kept /\ AllAlike
<1>1. c \in Active /\ Good(Reopened(requests[c])) /\ Alike(requests[c], Reopened(requests[c]))
  BY StagedFacts, ReopenedGood DEF Expire, Staged
<1>2. requests' = [requests EXCEPT ![c] = Reopened(requests[c])]
  BY DEF Expire
<1>3. Processes'
  BY ProcessesKept, TroubleCounted DEF Expire
<1> QED BY <1>1, <1>2, <1>3, OneOnly DEF Kept

LEMMA LoseEvidenceKept == ASSUME Board, Processes, NEW c \in Cycles, LoseEvidence(c) PROVE Kept /\ AllAlike
<1>1. c \in Active /\ Good(Closed(requests[c], "withdrawn"))
      /\ Alike(requests[c], Closed(requests[c], "withdrawn"))
  BY StagedFacts, ClosedGood DEF LoseEvidence, Staged, Terminal
<1>2. requests' = [requests EXCEPT ![c] = Closed(requests[c], "withdrawn")]
  BY DEF LoseEvidence
<1>3. Processes'
  BY ProcessesKept, TroubleCounted DEF LoseEvidence
<1> QED BY <1>1, <1>2, <1>3, OneOnly DEF Kept

LEMMA AttachKept ==
    ASSUME Board, Processes, NEW r \in Reviewers, NEW c \in Cycles, NEW l \in Ledgers,
           Attach(r, c, l)
    PROVE  Kept /\ AllAlike
<1> DEFINE z == [by |-> r, commit |-> requests[c].commit, ledger |-> l]
           n == [requests[c] EXCEPT !.status = "claimed", !.claimedBy = r, !.ledger = l,
                                    !.retry = FALSE, !.old = FALSE, !.authorized = z]
<1>1. /\ c \in Active /\ Good(requests[c]) /\ requests[c].pausedFrom = "none"
      /\ requests[c].delivery = "passed"
  BY StagedFacts, ClaimedFacts DEF Attach, ReservedBy, MayCorrect, ClaimedBy, Staged
<1>2. requests' = [requests EXCEPT ![c] = n]
  BY DEF Attach
<1>3. z \in Authorization /\ z # None /\ z.by = r /\ z.commit = requests[c].commit
  BY <1>1, ReviewAssumption DEF Good, Request, Authorization
<1> HIDE DEF z
<1>4. n \in Request
  BY <1>1, <1>3 DEF Good, Request, Maybe
<1>5. /\ n.status = "claimed" /\ n.pausedFrom = "none" /\ n.delivery = "passed"
      /\ n.authorized = z /\ n.claimedBy = r /\ n.commit = requests[c].commit
      /\ Alike(requests[c], n)
  BY <1>1 DEF Good, Alike, Request
<1> HIDE DEF n
<1>6. Good(n)
  BY <1>3, <1>4, <1>5 DEF Good, Suspension, Claim
<1>7. Processes'
  BY ProcessesKept DEF Attach, Processes
<1> QED BY <1>1, <1>2, <1>5, <1>6, <1>7, OneOnly DEF Kept

LEMMA EditLedgerKept ==
    ASSUME Board, Processes, NEW c \in Cycles, NEW l \in Ledgers, EditLedger(c, l)
    PROVE  Kept /\ AllAlike
<1> DEFINE n == [requests[c] EXCEPT !.ledger = l]
<1>1. c \in Active /\ Good(requests[c])
  BY DEF EditLedger, Active, Board
<1>2. requests' = [requests EXCEPT ![c] = n]
  BY DEF EditLedger
<1>3. Good(n) /\ Alike(requests[c], n)
  BY <1>1 DEF Good, Suspension, Claim, Alike, Request, Maybe
<1>4. Processes'
  BY ProcessesKept, TroubleCounted DEF EditLedger
<1> HIDE DEF n
<1> QED BY <1>1, <1>2, <1>3, <1>4, OneOnly DEF Kept

LEMMA StartExecuteKept ==
    ASSUME Board, Processes, NEW r \in Reviewers, NEW c \in Cycles, StartExecute(r, c)
    PROVE  Kept
<1> DEFINE z == [by |-> r, commit |-> requests[c].commit, ledger |-> requests[c].ledger]
           l == [cycle |-> c, active |-> TRUE, fresh |-> TRUE]
<1>1. /\ c \in Present /\ requests[c].status = "claimed" /\ requests[c].authorized = z
      /\ execs' = [execs EXCEPT ![c] = z] /\ lease' = [lease EXCEPT ![r] = l]
      /\ UNCHANGED <<work, requests, calls, store, verdicts, people, troubles>>
  BY DEF StartExecute, ClaimedBy
<1>2. z \in Authorization
  BY <1>1, ClaimedFacts
<1>3. l \in [cycle : 0..MaxCycles, active : BOOLEAN, fresh : BOOLEAN]
  BY ReviewAssumption DEF Cycles
<1> HIDE DEF z, l
<1>4. Processes'
  BY <1>1, <1>2, <1>3, LeaseKept DEF Processes, Maybe, work, people
<1> QED BY <1>1, <1>4, NoneChanges DEF Kept

\* An execution ends: what it leaves in the execution store, and its lease.
LEMMA ExecutionEnds ==
    ASSUME Processes, NEW c \in Cycles, ExecuteEnds(c),
           \/ lease' = lease
           \/ lease' = [lease EXCEPT ![execs[c].by] = Finished(lease[execs[c].by], c)],
           store' \subseteq Run, troubles' \in 0..MaxTroubles
    PROVE  Processes'
<1>1. lease' \in [Developers \cup Reviewers ->
                    [cycle : 0..MaxCycles, active : BOOLEAN, fresh : BOOLEAN]]
  BY LeaseFinished DEF Processes
<1> QED BY <1>1 DEF ExecuteEnds, Processes, Maybe, work, people

LEMMA CertifyExecuteKept ==
    ASSUME Board, Processes, NEW c \in Cycles, CertifyExecute(c)
    PROVE  Kept
<1> DEFINE run == [commit |-> execs[c].commit, ledger |-> execs[c].ledger]
           n == [requests[c] EXCEPT !.last = "passed", !.certified = run]
<1>1. /\ ExecuteEnds(c) /\ store' = store \cup {run} /\ UNCHANGED troubles
      /\ lease' = [lease EXCEPT ![execs[c].by] = Finished(lease[execs[c].by], c)]
  BY DEF CertifyExecute
<1>2. requests' = IF ClaimedBy(c, execs[c].by)
                  THEN [requests EXCEPT ![c].last = "passed", ![c].certified = run] ELSE requests
  BY DEF CertifyExecute
<1>3. run \in Run
  BY <1>1 DEF ExecuteEnds, Processes, Maybe, Authorization, Run
<1> HIDE DEF run
<1>4. Processes'
  <2>1. store' \subseteq Run /\ troubles' \in 0..MaxTroubles
    BY <1>1, <1>3 DEF Processes
  <2> QED BY <1>1, <2>1, ExecutionEnds
<1>5. CASE ClaimedBy(c, execs[c].by)
  <2>1. c \in Active /\ Good(requests[c])
    BY <1>5, ClaimedFacts DEF ClaimedBy
  <2>2. requests' = [requests EXCEPT ![c] = n]
    <3>1. c \in DOMAIN requests
      BY DEF Board
    <3>2. requests[c] \in Request
      BY <2>1 DEF Good
    <3> QED BY <1>2, <1>5, <3>1, <3>2 DEF Request
  <2>3. n \in Request
    BY <1>3, <2>1 DEF Good, Request, Maybe
  <2>4. /\ n.status = requests[c].status /\ n.pausedFrom = requests[c].pausedFrom
        /\ n.delivery = requests[c].delivery /\ n.authorized = requests[c].authorized
        /\ n.claimedBy = requests[c].claimedBy /\ n.commit = requests[c].commit
    BY <2>1 DEF Good, Request
  <2> HIDE DEF n
  <2>5. Good(n)
    BY <2>1, <2>3, <2>4 DEF Good, Suspension, Claim
  <2> QED BY <1>4, <2>1, <2>2, <2>5, OneOnly DEF Kept
<1>6. CASE ~ClaimedBy(c, execs[c].by)
  BY <1>2, <1>4, <1>6, NoneChanges DEF Kept
<1> QED BY <1>5, <1>6

LEMMA FailExecuteKept == ASSUME Board, Processes, NEW c \in Cycles, FailExecute(c) PROVE Kept /\ AllAlike
<1> DEFINE n == [requests[c] EXCEPT !.last = "failed"]
<1>1. /\ ExecuteEnds(c) /\ Trouble /\ UNCHANGED store
      /\ lease' = [lease EXCEPT ![execs[c].by] = Finished(lease[execs[c].by], c)]
      /\ requests' = IF c \in Active /\ requests[c].claimedBy = execs[c].by
                     THEN [requests EXCEPT ![c] = n] ELSE requests
  BY DEF FailExecute
<1>2. Processes'
  <2>1. store' \subseteq Run /\ troubles' \in 0..MaxTroubles
    BY <1>1, TroubleCounted DEF Processes
  <2> QED BY <1>1, <2>1, ExecutionEnds
<1>3. c \in Active => Good(n) /\ Alike(requests[c], n)
  BY DEF Board, Active, Good, Suspension, Claim, Alike, Request
<1> HIDE DEF n
<1> QED BY <1>1, <1>2, <1>3, OneOnly, NoneChanges DEF Kept

LEMMA ExecuteDiesKept == ASSUME Board, Processes, NEW c \in Cycles, ExecuteDies(c) PROVE Kept
<1>1. store' \subseteq Run /\ troubles' \in 0..MaxTroubles /\ lease' = lease /\ ExecuteEnds(c)
  BY TroubleCounted DEF ExecuteDies, Processes
<1>2. UNCHANGED requests
  BY DEF ExecuteDies
<1> QED BY <1>1, <1>2, ExecutionEnds, NoneChanges DEF Kept

LEMMA CheckPassKept ==
    ASSUME Board, Processes, NEW r \in Reviewers, NEW c \in Cycles, CheckPass(r, c)
    PROVE  Kept
<1> DEFINE v == [cycle |-> c, ledger |-> requests[c].ledger]
<1>1. /\ c \in Present /\ requests[c].certified # None
      /\ requests[c].certified.ledger = requests[c].ledger
      /\ verdicts' = [verdicts EXCEPT ![r] = v]
      /\ UNCHANGED <<work, requests, calls, execs, store, lease, people, troubles>>
  BY DEF CheckPass, ClaimedBy
<1>2. requests[c].certified \in Run
  BY <1>1 DEF Board, Good, Request, Maybe
<1>3. v \in [cycle : Cycles, ledger : Ledgers]
  BY <1>1, <1>2 DEF Run
<1> HIDE DEF v
<1>4. Processes'
  BY <1>1, <1>3 DEF Processes, Maybe, work, people
<1> QED BY <1>1, <1>4, NoneChanges DEF Kept

LEMMA RecordPassKept == ASSUME Board, Processes, NEW r \in Reviewers, RecordPass(r) PROVE Kept
<1> DEFINE c == verdicts[r].cycle
<1>1. /\ requests' = IF ClaimedBy(c, r) /\ requests[c].ledger = verdicts[r].ledger
                     THEN [requests EXCEPT ![c] = Closed(requests[c], "passed")] ELSE requests
      /\ verdicts' = [verdicts EXCEPT ![r] = None]
      /\ UNCHANGED <<work, calls, execs, store, lease, people, troubles>>
  BY DEF RecordPass
<1>2. Processes'
  BY <1>1 DEF Processes, Maybe, work, people
<1>3. ClaimedBy(c, r) => c \in Active /\ Good(Closed(requests[c], "passed"))
  BY ClaimedFacts, ClosedGood DEF ClaimedBy, Terminal, Settled
<1> QED BY <1>1, <1>2, <1>3, OneOnly, NoneChanges DEF Kept

LEMMA RecordFailKept ==
    ASSUME Board, Processes, NEW r \in Reviewers, NEW c \in Cycles, RecordFail(r, c)
    PROVE  Kept /\ AllAlike
<1> DEFINE q == [requests[c] EXCEPT !.status = "open", !.claimedBy = r]
           n == Closed([requests[c] EXCEPT !.claimedBy = r], "failed")
<1>1. c \in Active /\ Good(requests[c]) /\ requests[c].pausedFrom = "none"
  BY StagedFacts, ClaimedFacts DEF RecordFail, ReservedBy, ClaimedBy, Staged
<1>2. requests' = [requests EXCEPT ![c] = n]
  BY DEF RecordFail
<1>3. Good(q) /\ q.pausedFrom = "none" /\ Alike(requests[c], q)
  BY <1>1 DEF Good, Suspension, Claim, Alike, Request, Staged, Maybe
<1>4. Closed(q, "failed") = n
  BY <1>1 DEF Closed, Good, Request
<1> HIDE DEF q, n
<1>5. Good(n) /\ Alike(requests[c], n)
  BY <1>3, <1>4, ClosedGood DEF Alike, Terminal, Settled
<1>6. Processes'
  BY ProcessesKept DEF RecordFail, Processes
<1> QED BY <1>1, <1>2, <1>5, <1>6, OneOnly DEF Kept

LEMMA TakeoverKept == ASSUME Board, Processes, NEW d \in Developers, Takeover(d) PROVE Kept /\ AllAlike
<1>1. /\ \A c \in Cycles : requests'[c] = IF c \in Active /\ requests[c].developer = writer
                                          THEN [requests[c] EXCEPT !.developer = d]
                                          ELSE requests[c]
      /\ DOMAIN requests' = Cycles /\ requests' = [c \in Cycles |-> requests'[c]]
  BY DEF Takeover
<1>2. \A c \in Active : Good(requests[c])
  BY DEF Board, Active
<1>3. ASSUME NEW c \in Active PROVE Good(requests'[c]) /\ Alike(requests[c], requests'[c])
  <2> DEFINE n == [requests[c] EXCEPT !.developer = d]
  <2>1. n \in Request
    BY <1>2 DEF Good, Request
  <2>2. /\ n.status = requests[c].status /\ n.pausedFrom = requests[c].pausedFrom
        /\ n.authorized = requests[c].authorized /\ n.claimedBy = requests[c].claimedBy
        /\ Alike(requests[c], n)
    BY <1>2 DEF Good, Alike, Request
  <2>3. requests'[c] = n \/ requests'[c] = requests[c]
    BY <1>1 DEF Active, Present
  <2> HIDE DEF n
  <2>4. Good(n) /\ Alike(requests[c], n)
    BY <1>2, <2>1, <2>2 DEF Good, Suspension, Claim, Alike
  <2> QED BY <1>2, <2>3, <2>4 DEF Alike
<1>4. \A c \in Active : Good(requests'[c]) /\ Alike(requests[c], requests'[c])
  BY <1>3
<1>5. requests' \in [Cycles -> Maybe(Request)]
  BY <1>1, <1>4 DEF Board, Good, Maybe
<1>6. BoardStep /\ AllAlike
  BY <1>1, <1>4, <1>5, ActiveOnly
<1>7. Processes'
  BY TroubleCounted DEF Takeover, Processes, running, people
<1> QED BY <1>6, <1>7 DEF Kept

LEMMA StopReviewerKept ==
    ASSUME Board, Processes, NEW r \in Reviewers, StopReviewer(r)
    PROVE  Kept /\ AllAlike
<1>1. /\ \A c \in Cycles : requests'[c] = IF c \in Present /\ ReopensOnStop(c, r)
                                          THEN Reopened(requests[c]) ELSE requests[c]
      /\ requests' = [c \in Cycles |-> requests'[c]]
  BY DEF StopReviewer
<1>2. \A c \in Present :
        ReopensOnStop(c, r) => /\ c \in Active /\ Good(Reopened(requests[c]))
                               /\ Alike(requests[c], Reopened(requests[c]))
  BY StagedFacts, ClaimedFacts, ReopenedGood DEF ReopensOnStop
<1>3. \A c \in Active : Good(requests'[c]) /\ Alike(requests[c], requests'[c])
  BY <1>1, <1>2 DEF Board, Alike, Active, Present
<1>4. \A c \in Cycles \ Active : requests'[c] = requests[c]
  BY <1>1, <1>2
<1>5. requests' \in [Cycles -> Maybe(Request)]
  BY <1>1, <1>3, <1>4 DEF Board, Good, Maybe
<1>6. BoardStep /\ AllAlike
  BY <1>3, <1>4, <1>5, ActiveOnly
<1>7. Processes'
  BY TroubleCounted DEF StopReviewer, Processes, work, running
<1> QED BY <1>6, <1>7 DEF Kept

LEMMA GoOfflineKept ==
    ASSUME Board, Processes, NEW r \in Reviewers, GoOffline(r)
    PROVE  Kept
<1>1. troubles' \in 0..MaxTroubles
  BY TroubleCounted DEF GoOffline, Processes
<1>2. Processes'
  BY <1>1 DEF GoOffline, Processes, Maybe, work
<1>3. UNCHANGED requests
  BY DEF GoOffline
<1> QED BY <1>2, <1>3, NoneChanges DEF Kept

LEMMA ReturnKept == ASSUME Board, Processes, NEW r \in Reviewers, Return(r) PROVE Kept
<1>1. Processes'
  BY DEF Return, Processes, work, running
<1>2. UNCHANGED requests
  BY DEF Return
<1> QED BY <1>1, <1>2, NoneChanges DEF Kept

LEMMA PauseKept == ASSUME Board, Processes, Pause PROVE Kept /\ AllAlike
<1>1. /\ \A c \in Cycles : requests'[c] =
            IF c \in Present /\ requests[c].status \in Held
            THEN [requests[c] EXCEPT !.status = "suspended", !.pausedFrom = requests[c].status]
            ELSE requests[c]
      /\ requests' = [c \in Cycles |-> requests'[c]]
  BY DEF Pause
<1>2. ASSUME NEW c \in Present, requests[c].status \in Held
      PROVE  LET n == [requests[c] EXCEPT !.status = "suspended", !.pausedFrom = requests[c].status]
             IN c \in Active /\ Good(n) /\ Alike(requests[c], n)
  <2> DEFINE q == requests[c]
             n == [q EXCEPT !.status = "suspended", !.pausedFrom = q.status]
  <2>1. Good(q) /\ q.status \in {"reserved", "claimed"} /\ c \in Active
    BY <1>2 DEF Board, Held, Active, Terminal, Settled
  <2>2. n \in Request /\ n.status = "suspended" /\ n.pausedFrom = q.status
        /\ n.delivery = q.delivery /\ n.authorized = q.authorized /\ n.claimedBy = q.claimedBy
        /\ n.commit = q.commit /\ n.certified = q.certified
    BY <2>1 DEF Good, Request
  <2> HIDE DEF n
  <2>3. Good(n) /\ Alike(q, n)
    BY <2>1, <2>2 DEF Good, Suspension, Claim, Alike
  <2> QED BY <2>1, <2>3 DEF n
<1>3. \A c \in Active : Good(requests'[c]) /\ Alike(requests[c], requests'[c])
  BY <1>1, <1>2 DEF Board, Alike, Active, Present
<1>4. \A c \in Cycles \ Active : requests'[c] = requests[c]
  BY <1>1, <1>2
<1>5. requests' \in [Cycles -> Maybe(Request)]
  BY <1>1, <1>3, <1>4 DEF Board, Good, Maybe
<1>6. BoardStep /\ AllAlike
  BY <1>3, <1>4, <1>5, ActiveOnly
<1>7. Processes'
  BY TroubleCounted DEF Pause, Processes, work, running
<1> QED BY <1>6, <1>7 DEF Kept

LEMMA ResumeKept == ASSUME Board, Processes, Resume PROVE Kept /\ AllAlike
<1>1. /\ \A c \in Cycles : requests'[c] =
            IF c \in Present /\ requests[c].status = "suspended"
            THEN [requests[c] EXCEPT !.status = requests[c].pausedFrom, !.pausedFrom = "none"]
            ELSE requests[c]
      /\ requests' = [c \in Cycles |-> requests'[c]]
  BY DEF Resume
<1>2. ASSUME NEW c \in Present, requests[c].status = "suspended"
      PROVE  LET n == [requests[c] EXCEPT !.status = requests[c].pausedFrom, !.pausedFrom = "none"]
             IN c \in Active /\ Good(n) /\ Alike(requests[c], n)
  <2> DEFINE q == requests[c]
             n == [q EXCEPT !.status = q.pausedFrom, !.pausedFrom = "none"]
  <2>1. Good(q) /\ c \in Active
    BY <1>2 DEF Board, Active, Terminal, Settled
  <2>2. q.pausedFrom \in {"reserved", "claimed"}
    BY <1>2, <2>1 DEF Good, Suspension, Request
  <2>3. n \in Request /\ n.status = q.pausedFrom /\ n.pausedFrom = "none"
        /\ n.delivery = q.delivery /\ n.authorized = q.authorized /\ n.claimedBy = q.claimedBy
        /\ n.commit = q.commit /\ n.certified = q.certified
    BY <2>1, <2>2 DEF Good, Request, Staged
  <2> HIDE DEF n
  <2>4. Good(n) /\ Alike(q, n)
    BY <2>1, <2>2, <2>3 DEF Good, Suspension, Claim, Alike
  <2> QED BY <2>1, <2>4 DEF n
<1>3. \A c \in Active : Good(requests'[c]) /\ Alike(requests[c], requests'[c])
  BY <1>1, <1>2 DEF Board, Alike, Active, Present
<1>4. \A c \in Cycles \ Active : requests'[c] = requests[c]
  BY <1>1, <1>2
<1>5. requests' \in [Cycles -> Maybe(Request)]
  BY <1>1, <1>3, <1>4 DEF Board, Good, Maybe
<1>6. BoardStep /\ AllAlike
  BY <1>3, <1>4, <1>5, ActiveOnly
<1>7. Processes'
  BY DEF Resume, Processes, work, running
<1> QED BY <1>6, <1>7 DEF Kept

LEMMA InitHolds == ASSUME Init PROVE Board /\ Processes
<1>1. Present = {}
  BY DEF Init, Present
<1>2. Board
  BY <1>1 DEF Init, Board, Active, Maybe
<1>3. Idle \in [phase : {"idle", "captured", "executing"}, by : Maybe(Developers),
                commit : 0..MaxCommits, cycle : 0..MaxCycles] /\ Idle.phase = "idle"
  BY ReviewAssumption DEF Idle, Maybe
<1>4. NoLease \in [cycle : 0..MaxCycles, active : BOOLEAN, fresh : BOOLEAN]
  BY ReviewAssumption DEF NoLease
<1>5. Processes
  <2>1. writer \in Developers /\ paused \in BOOLEAN
    BY DEF Init
  <2>2. head \in 1..MaxCommits /\ troubles \in 0..MaxTroubles
    BY ReviewAssumption DEF Init
  <2>3. /\ calls \in [Calls -> [phase : {"idle", "captured", "executing"}, by : Maybe(Developers),
                                commit : 0..MaxCommits, cycle : 0..MaxCycles]]
        /\ \A k \in Calls : calls[k].phase = "idle"
    BY <1>3 DEF Init
  <2>4. /\ lease \in [Developers \cup Reviewers ->
                       [cycle : 0..MaxCycles, active : BOOLEAN, fresh : BOOLEAN]]
        /\ reviewer \in [Reviewers -> {"active", "stopped", "offline"}]
    BY <1>4 DEF Init
  <2>5. /\ execs \in [Cycles -> Maybe(Authorization)] /\ store \subseteq Run
        /\ verdicts \in [Reviewers -> Maybe([cycle : Cycles, ledger : Ledgers])]
    BY DEF Init, Maybe
  <2> QED BY <2>1, <2>2, <2>3, <2>4, <2>5 DEF Processes
<1> QED BY <1>2, <1>5

LEMMA StepKept == ASSUME Board, Processes, [Next]_vars PROVE Kept
<1>1. CASE Commit \/ Lapse \/ Pause \/ Resume
  BY <1>1, CommitKept, LapseKept, PauseKept, ResumeKept
<1>2. ASSUME NEW k \in Calls, Delivery(k) PROVE Kept
  BY <1>2, CaptureKept, StageKept, PublishKept, FailDeliveryKept, CallDiesKept DEF Delivery
<1>3. ASSUME NEW c \in Cycles, Executing(c) \/ Tick(c) \/ Expire(c) \/ LoseEvidence(c) PROVE Kept
  BY <1>3, CertifyExecuteKept, FailExecuteKept, ExecuteDiesKept, RecoverDeliveryKept,
     RecoverReviewKept, ExpireKept, LoseEvidenceKept DEF Executing, Tick
<1>4. ASSUME NEW c \in Cycles, NEW r \in Reviewers, Review(r, c) PROVE Kept
  BY <1>4, ReserveKept, RecordIntentsKept, RelinquishKept, StartExecuteKept, CheckPassKept,
     RecordFailKept, AttachKept DEF Review
<1>5. ASSUME NEW c \in Cycles, NEW l \in Ledgers, EditLedger(c, l) PROVE Kept
  BY <1>5, EditLedgerKept
<1>6. ASSUME NEW r \in Reviewers, Owner(r) PROVE Kept
  BY <1>6, StopReviewerKept, GoOfflineKept, ReturnKept, RecordPassKept DEF Owner
<1>7. ASSUME NEW d \in Developers, Takeover(d) PROVE Kept
  BY <1>7, TakeoverKept
<1>8. ASSUME NEW a \in Developers \cup Reviewers, Heartbeat(a) PROVE Kept
  BY <1>8, HeartbeatKept
<1>9. CASE UNCHANGED vars
  <2>1. BoardStep
    BY <1>9, NoneChanges DEF vars
  <2>2. Processes'
    BY <1>9 DEF vars, Processes, work, running, people
  <2> QED BY <2>1, <2>2 DEF Kept
<1> QED BY <1>1, <1>2, <1>3, <1>4, <1>5, <1>6, <1>7, <1>8, <1>9 DEF Next

LEMMA BoardAndProcesses == Spec => [](Board /\ Processes)
<1>1. Board /\ Processes /\ [Next]_vars => (Board /\ Processes)'
  BY StepKept DEF Kept, BoardStep
<1> QED BY <1>1, InitHolds, PTL DEF Spec

(***************************************************************************)
(* Theorems about the board.                                               *)
(***************************************************************************)

\* The board, the calls, the executions and the leases stay well formed.
THEOREM TypeCorrect == Spec => []TypeOK
<1>1. Board /\ Processes => TypeOK
  BY DEF Board, Processes, TypeOK
<1> QED BY <1>1, BoardAndProcesses, PTL

\* However many request_review calls overlap, and whatever takes requests off
\* the board meanwhile, no task has two reviews under way (board.py:14324).
THEOREM OneReview == Spec => []OneActiveReview
<1>1. Board => OneActiveReview
  <2>1. ASSUME Board, Active = {} PROVE OneActiveReview
    BY <2>1, FS_EmptySet DEF OneActiveReview
  <2>2. ASSUME Board, NEW c \in Active PROVE OneActiveReview
    <3>1. Active = {c}
      BY <2>2 DEF Board
    <3>2. Cardinality({c}) = 1
      BY FS_Singleton
    <3>3. Cardinality(Active) = 1
      BY <3>1, <3>2
    <3> QED BY <3>3 DEF OneActiveReview
  <2> QED BY <2>1, <2>2
<1> QED BY <1>1, BoardAndProcesses, PTL

\* A claim, suspended or not, rests on a ledger attached to the commit under
\* review after its Delivery evidence passed (board.py:15370).
THEOREM ClaimsAreAuthorized == Spec => []AuthorizedClaim
<1>1. Board => AuthorizedClaim
  BY DEF Board, Good, Claim, AuthorizedClaim
<1> QED BY <1>1, BoardAndProcesses, PTL

\* No sweep over an agent's requests, no late command and no recovery touches a
\* settled verdict (board.py:18127).
THEOREM VerdictsAreKept == Spec => SettledVerdictKept
<1> DEFINE Same(c) == /\ requests'[c] # None
                      /\ \A f \in {"status", "commit", "claimedBy", "ledger", "certified"} :
                           requests'[c][f] = requests[c][f]
<1>1. Board /\ Processes /\ [Next]_vars
      => [\A c \in Present : requests[c].status \in Settled => Same(c)]_vars
  <2> SUFFICES ASSUME Board, Processes, [Next]_vars, NEW c \in Present,
                      requests[c].status \in Settled
               PROVE  Same(c)
    OBVIOUS
  <2>1. requests'[c] = requests[c]
    BY StepKept DEF Kept, BoardStep, KeepsSettled
  <2> QED BY <2>1 DEF Present
<1> QED BY <1>1, BoardAndProcesses, PTL DEF SettledVerdictKept, Spec

(***************************************************************************)
(* What a PASS rests on, when one request_review call is in flight: a call *)
(* that outlives its request could otherwise withdraw, or publish with     *)
(* another commit, the request that took its place.                        *)
(***************************************************************************)
OneCall == \A k, l \in Calls : k = l

LEMMA AlikeDelivered ==
    ASSUME AllAlike, store \subseteq store', NEW c \in Cycles
    PROVE  /\ Delivered(c)' = Delivered(c)
           /\ c \in Present => requests'[c].commit = requests[c].commit
           /\ \A l : c \in Present /\ Stored(c, l) => Stored(c, l)'
BY DEF AllAlike, Alike, Delivered, Stored, Present

LEMMA EvidenceKept ==
    ASSUME Board, Board', Processes, Processes', KeepsSettled, Evidence, AllAlike,
           store \subseteq store',
           \A k \in Calls : calls'[k].phase = "executing" => calls'[k] = calls[k],
           \A c \in Cycles : execs'[c] # None =>
                \/ execs'[c] = execs[c]
                \/ Delivered(c) /\ requests[c].commit = execs'[c].commit,
           \A r \in Reviewers : verdicts'[r] # None =>
                \/ verdicts'[r] = verdicts[r]
                \/ /\ Delivered(verdicts'[r].cycle)
                   /\ Stored(verdicts'[r].cycle, verdicts'[r].ledger)
    PROVE  Evidence'
<1>1. Delivering'
  BY AlikeDelivered DEF Evidence, Delivering, Processes
<1>2. Executions'
  BY AlikeDelivered DEF Evidence, Executions, Delivered
<1>3. Verdicts'
  <2> SUFFICES ASSUME NEW r \in Reviewers, verdicts'[r] # None,
                      NEW c, NEW l, c = verdicts'[r].cycle, l = verdicts'[r].ledger
               PROVE  /\ c \in Present' /\ requests'[c].delivery = "passed"
                      /\ [commit |-> requests'[c].commit, ledger |-> l] \in store'
    BY DEF Verdicts, Delivered, Stored
  <2>1. Delivered(c) /\ Stored(c, l) /\ c \in Cycles
    BY DEF Evidence, Verdicts, Delivered, Present
  <2>2. Delivered(c)' /\ Stored(c, l)'
    BY <2>1, AlikeDelivered DEF Delivered
  <2> QED BY <2>2 DEF Delivered, Stored
<1>4. Certified'
  <2> SUFFICES ASSUME NEW c \in Present', requests'[c].certified # None,
                      NEW l, l = requests'[c].certified.ledger
               PROVE  [commit |-> requests'[c].commit, ledger |-> l] \in store'
    BY DEF Certified, Stored
  <2>1. c \in Cycles /\ c \in Present /\ requests'[c].certified = requests[c].certified
    BY DEF AllAlike, Alike, Present
  <2>2. Stored(c, l)
    BY <2>1 DEF Evidence, Certified
  <2>3. Stored(c, l)'
    BY <2>1, <2>2, AlikeDelivered
  <2> QED BY <2>3 DEF Stored
<1>5. PassIsCertified'
  <2> SUFFICES ASSUME NEW c \in Present', requests'[c].status = "passed"
               PROVE  /\ [commit |-> requests'[c].commit, ledger |-> requests'[c].ledger] \in store'
                      /\ requests'[c].authorized # None
                      /\ requests'[c].authorized.by = requests'[c].claimedBy
                      /\ requests'[c].authorized.commit = requests'[c].commit
    BY DEF PassIsCertified
  <2>1. c \in Present /\ requests[c].status = "passed"
    BY DEF AllAlike, Alike, Present
  <2>2. requests'[c] = requests[c]
    BY <2>1 DEF KeepsSettled, Settled
  <2> QED BY <2>1, <2>2 DEF Evidence, PassIsCertified
<1> QED BY <1>1, <1>2, <1>3, <1>4, <1>5 DEF Evidence

\* A step of the board alone, or of a process that leaves the board alone.
LEMMA BoardOnly ==
    ASSUME Board, Processes, Kept, Evidence, AllAlike, UNCHANGED running
    PROVE  Evidence'
BY EvidenceKept DEF Kept, BoardStep, running

\* A request that is not delivered goes, or makes room for a new one.
LEMMA Undelivered ==
    ASSUME Board, Processes, Kept, Evidence, NEW c \in Cycles, ~Delivered(c), NEW n,
           requests' = [requests EXCEPT ![c] = n],
           n = None \/ (n.certified = None /\ n.status # "passed"),
           Delivering', UNCHANGED <<execs, store, verdicts>>
    PROVE  Evidence'
<1>1. requests'[c] = n /\ \A d \in Cycles \ {c} : requests'[d] = requests[d]
  BY DEF Board
<1>2. \A d \in Cycles : Delivered(d) => d # c /\ requests'[d] = requests[d] /\ Delivered(d)'
  BY <1>1 DEF Delivered, Present
<1>3. Executions'
  BY <1>2 DEF Evidence, Executions
<1>4. Verdicts'
  <2> SUFFICES ASSUME NEW r \in Reviewers, verdicts[r] # None,
                      NEW d, NEW l, d = verdicts[r].cycle, l = verdicts[r].ledger
               PROVE  /\ d \in Present' /\ requests'[d].delivery = "passed"
                      /\ [commit |-> requests'[d].commit, ledger |-> l] \in store'
    BY DEF Verdicts, Delivered, Stored
  <2>1. Delivered(d) /\ Stored(d, l) /\ d \in Cycles
    BY DEF Evidence, Verdicts, Delivered, Present
  <2> QED BY <1>2, <2>1 DEF Delivered, Stored
<1>5. Certified'
  BY <1>1 DEF Evidence, Certified, Stored, Present
<1>6. PassIsCertified'
  BY <1>1 DEF Evidence, PassIsCertified, Present
<1> QED BY <1>3, <1>4, <1>5, <1>6 DEF Evidence

LEMMA CallEvidence ==
    ASSUME OneCall, Board, Processes, Evidence, NEW k \in Calls, Delivery(k)
    PROVE  Evidence'
<1>1. Kept
  BY CaptureKept, StageKept, PublishKept, FailDeliveryKept, CallDiesKept DEF Delivery
<1>2. CASE Capture(k) \/ CallDies(k)
  <2>1. UNCHANGED <<requests, execs, store, verdicts>>
    BY <1>2 DEF Capture, CallDies
  <2>2. \A l \in Calls : calls'[l].phase = "executing" => calls'[l] = calls[l]
    BY <1>2 DEF Capture, CallDies, Processes, Idle
  <2>3. AllAlike
    BY <2>1, NoneChanges
  <2> QED BY <1>1, <2>1, <2>2, <2>3, EvidenceKept DEF Kept, BoardStep
<1>3. CASE Stage(k)
  <2> DEFINE c == NextCycle
             n == NewRequest(calls[k].by, calls[k].commit)
  <2>1. CASE ~MayRequest(k, Present)
    <3>1. /\ calls' = [calls EXCEPT ![k] = Idle]
          /\ UNCHANGED <<requests, execs, store, verdicts>>
      BY <1>3, <2>1 DEF Stage
    <3>2. \A l \in Calls : calls'[l].phase = "executing" => calls'[l] = calls[l]
      BY <3>1 DEF Processes, Idle
    <3> QED BY <1>1, <3>1, <3>2, NoneChanges, EvidenceKept DEF Kept, BoardStep
  <2>2. CASE MayRequest(k, Present)
    <3>1. /\ MayRequest(k, Present) /\ requests' = [requests EXCEPT ![c] = n]
          /\ calls' = [calls EXCEPT ![k].phase = "executing", ![k].cycle = c]
          /\ c <= MaxCycles /\ UNCHANGED <<execs, store, verdicts>>
      BY <1>3, <2>2 DEF Stage
    <3>2. calls[k].by \in Developers /\ calls[k].commit \in 1..MaxCommits
      BY <1>3, <3>1 DEF MayRequest, Stage, Processes
    <3>3. c \in Cycles /\ c \notin Present
      BY <3>1, NextCycleFresh, ReviewAssumption DEF Cycles
    <3>4. n.certified = None /\ n.status # "passed" /\ n.delivery = "executing"
      BY <3>2, NewGood
    <3> HIDE DEF n, c
    <3>5. Delivering'
      <4>1. \A l \in Calls : l = k
        BY DEF OneCall
      <4>2. calls'[k].cycle = c
        BY <3>1 DEF Processes
      <4>3. requests'[c].delivery # "passed"
        BY <3>1, <3>3, <3>4 DEF Board
      <4>4. \A l \in Calls : requests'[calls'[l].cycle].delivery # "passed"
        BY <4>1, <4>2, <4>3
      <4> QED BY <4>4 DEF Delivering, Delivered
    <3> QED BY <1>1, <3>1, <3>3, <3>4, <3>5, Undelivered DEF Delivered
  <2> QED BY <2>1, <2>2
<1>4. CASE Publish(k) \/ FailDelivery(k)
  <2> DEFINE c == calls[k].cycle
  <2>1. calls[k].phase = "executing" /\ calls' = [calls EXCEPT ![k] = Idle]
        /\ UNCHANGED <<execs, store, verdicts>>
    BY <1>4 DEF Publish, FailDelivery
  <2>2. c \in Cycles /\ ~Delivered(c)
    BY <2>1 DEF Evidence, Delivering, Processes
  <2>3. \A l \in Calls : calls'[l].phase # "executing"
    <3>1. \A l \in Calls : l = k
      BY DEF OneCall
    <3> QED BY <2>1, <3>1 DEF Processes, Idle
  <2>4. Delivering'
    BY <2>3 DEF Delivering
  <2>5. CASE UNCHANGED requests
    BY <1>1, <2>1, <2>3, <2>5, NoneChanges, EvidenceKept DEF Kept, BoardStep
  <2>6. CASE ~UNCHANGED requests /\ FailDelivery(k)
    <3>1. requests' = [requests EXCEPT ![c] = None]
      BY <2>6 DEF FailDelivery
    <3> QED BY <1>1, <2>1, <2>2, <2>4, <3>1, Undelivered
  <2>7. CASE ~UNCHANGED requests /\ Publish(k)
    <3> DEFINE n == Republished(requests[c], k)
    <3>1. requests' = [requests EXCEPT ![c] = n] /\ requests[c].status \in Staged
      BY <2>7 DEF Publish
    <3>2. n.certified = None /\ n.status # "passed"
      BY DEF Republished, NewRequest
    <3> HIDE DEF n
    <3> QED BY <1>1, <2>1, <2>2, <2>4, <3>1, <3>2, Undelivered
  <2> QED BY <1>4, <2>5, <2>6, <2>7
<1> QED BY <1>2, <1>3, <1>4 DEF Delivery

LEMMA RecoverDeliveryEvidence ==
    ASSUME Board, Processes, Evidence, NEW c \in Cycles, RecoverDelivery(c)
    PROVE  Evidence'
<1>1. /\ requests' = [requests EXCEPT ![c] = None] /\ ~Delivered(c)
      /\ UNCHANGED <<calls, execs, store, verdicts>>
  BY DEF RecoverDelivery, Delivered, running
<1>2. Delivering'
  <2>1. \A d \in Cycles : requests'[d] = requests[d] \/ requests'[d] = None
    BY <1>1 DEF Board
  <2> QED BY <1>1, <2>1 DEF Evidence, Delivering, Delivered, Present
<1> QED BY <1>1, <1>2, RecoverDeliveryKept, Undelivered

LEMMA StartExecuteEvidence ==
    ASSUME Board, Processes, Evidence, NEW r \in Reviewers, NEW c \in Cycles, StartExecute(r, c)
    PROVE  Evidence'
<1> DEFINE z == [by |-> r, commit |-> requests[c].commit, ledger |-> requests[c].ledger]
<1>1. /\ c \in Present /\ requests[c].status = "claimed" /\ execs' = [execs EXCEPT ![c] = z]
      /\ UNCHANGED <<requests, calls, store, verdicts>>
  BY DEF StartExecute, ClaimedBy
<1>2. Delivered(c) /\ z.commit = requests[c].commit
  BY <1>1, ClaimedFacts DEF Delivered
<1> HIDE DEF z
<1>3. \A d \in Cycles : execs'[d] # None =>
        execs'[d] = execs[d] \/ (Delivered(d) /\ requests[d].commit = execs'[d].commit)
  BY <1>1, <1>2 DEF Processes
<1> QED BY <1>1, <1>3, StartExecuteKept, NoneChanges, EvidenceKept DEF Kept, BoardStep

\* An execution that ends without a certification.
LEMMA UncertifiedEvidence ==
    ASSUME Board, Processes, Evidence, NEW c \in Cycles, FailExecute(c) \/ ExecuteDies(c)
    PROVE  Evidence'
<1>1. Kept /\ AllAlike
  <2>1. ExecuteDies(c) => UNCHANGED requests
    BY DEF ExecuteDies
  <2> QED BY <2>1, FailExecuteKept, ExecuteDiesKept, NoneChanges
<1>2. UNCHANGED <<calls, store, verdicts>> /\ execs' = [execs EXCEPT ![c] = None]
  BY DEF FailExecute, ExecuteDies, ExecuteEnds
<1>3. \A d \in Cycles : execs'[d] # None => execs'[d] = execs[d]
  BY <1>2 DEF Processes
<1> QED BY <1>1, <1>2, <1>3, EvidenceKept DEF Kept, BoardStep

LEMMA CertifiedRequest ==
    ASSUME NEW q \in Request, NEW run \in Run
    PROVE  [q EXCEPT !.last = "passed", !.certified = run] \in Request
BY DEF Request, Maybe

LEMMA CertifyExecuteEvidence ==
    ASSUME Board, Processes, Evidence, NEW c \in Cycles, CertifyExecute(c)
    PROVE  Evidence'
<1> DEFINE run == [commit |-> execs[c].commit, ledger |-> execs[c].ledger]
<1>1. /\ execs[c] # None /\ execs' = [execs EXCEPT ![c] = None]
      /\ store' = store \cup {run} /\ UNCHANGED <<calls, verdicts>>
      /\ requests' = IF ClaimedBy(c, execs[c].by)
                     THEN [requests EXCEPT ![c].last = "passed", ![c].certified = run]
                     ELSE requests
  BY DEF CertifyExecute, ExecuteEnds
<1>2. Kept
  BY CertifyExecuteKept
<1>3. \A d \in Cycles : execs'[d] # None => execs'[d] = execs[d]
  BY <1>1 DEF Processes
<1>4. run = [commit |-> requests[c].commit, ledger |-> execs[c].ledger]
  BY <1>1 DEF Evidence, Executions
<1>5. run \in Run
  BY <1>1 DEF Processes, Maybe, Authorization, Run
<1>6. CASE UNCHANGED requests
  BY <1>1, <1>2, <1>3, <1>6, NoneChanges, EvidenceKept DEF Kept, BoardStep
<1>7. CASE ~UNCHANGED requests
  <2> DEFINE n == [requests[c] EXCEPT !.last = "passed", !.certified = run]
  <2>1. /\ c \in Present /\ requests[c].status = "claimed" /\ requests[c] \in Request
        /\ c \in DOMAIN requests
    BY <1>1, <1>7 DEF ClaimedBy, Board, Good
  <2>2. requests' = [requests EXCEPT ![c].last = "passed", ![c].certified = run]
    BY <1>1, <1>7
  <2>3. run.ledger = execs[c].ledger
    OBVIOUS
  <2> HIDE DEF run
  <2>4. requests' = [requests EXCEPT ![c] = n]
    BY <2>1, <2>2 DEF Request
  <2>5. /\ n.delivery = requests[c].delivery /\ n.commit = requests[c].commit
        /\ n.status = "claimed" /\ n.certified = run
    BY <2>1 DEF Request
  <2>6. n # None
    <3>1. n \in Request
      BY <1>5, <2>1, CertifiedRequest
    <3> HIDE DEF n
    <3> QED BY <3>1, ReviewAssumption
  <2> HIDE DEF n
  <2>7. requests'[c] = n /\ \A d \in Cycles \ {c} : requests'[d] = requests[d]
    BY <2>1, <2>4 DEF Board
  <2>8. \A d \in Cycles : /\ Delivered(d)' = Delivered(d)
                          /\ requests'[d].commit = requests[d].commit
    <3>1. \A d \in Cycles \ {c} : /\ (requests'[d] # None) = (requests[d] # None)
                                  /\ requests'[d] = requests[d]
      BY <2>7
    <3>2. requests'[c] # None /\ requests[c] # None /\ requests'[c].delivery = requests[c].delivery
          /\ requests'[c].commit = requests[c].commit
      BY <2>1, <2>5, <2>7, <2>6 DEF Present
    <3> QED BY <3>1, <3>2 DEF Delivered, Present
  <2>9. Delivering' /\ Executions'
    <3>1. Delivering'
      BY <1>1, <2>8 DEF Evidence, Delivering, Processes
    <3>2. Executions'
      BY <1>3, <2>8 DEF Evidence, Executions
    <3> QED BY <3>1, <3>2
  <2>10. Verdicts'
    <3> SUFFICES ASSUME NEW r \in Reviewers, verdicts[r] # None,
                        NEW d, NEW l, d = verdicts[r].cycle, l = verdicts[r].ledger
                 PROVE  /\ d \in Present' /\ requests'[d].delivery = "passed"
                        /\ [commit |-> requests'[d].commit, ledger |-> l] \in store'
      BY <1>1 DEF Verdicts, Delivered, Stored
    <3>1. Delivered(d) /\ Stored(d, l) /\ d \in Cycles
      BY DEF Evidence, Verdicts, Delivered, Present
    <3>2. d \in Present' /\ requests'[d].delivery = "passed"
      BY <2>8, <3>1 DEF Delivered
    <3>3. requests'[d].commit = requests[d].commit
      BY <2>8, <3>1
    <3>4. [commit |-> requests'[d].commit, ledger |-> l] \in store
      BY <3>1, <3>3 DEF Stored
    <3> QED BY <1>1, <3>2, <3>4
  <2>11. Certified'
    <3> SUFFICES ASSUME NEW d \in Present', requests'[d].certified # None,
                        NEW l, l = requests'[d].certified.ledger
                 PROVE  [commit |-> requests'[d].commit, ledger |-> l] \in store'
      BY DEF Certified, Stored
    <3>1. CASE d = c
      BY <1>1, <1>4, <2>3, <2>5, <2>7, <3>1
    <3>2. CASE d # c
      <4>1. d \in Present /\ requests'[d] = requests[d]
        BY <2>7, <3>2 DEF Present
      <4>2. Stored(d, l)
        BY <4>1 DEF Evidence, Certified
      <4>3. [commit |-> requests[d].commit, ledger |-> l] \in store
        BY <4>2 DEF Stored
      <4> QED BY <1>1, <4>1, <4>3
    <3> QED BY <3>1, <3>2
  <2>12. PassIsCertified'
    <3> SUFFICES ASSUME NEW d \in Present', requests'[d].status = "passed"
                 PROVE  /\ [commit |-> requests'[d].commit, ledger |-> requests'[d].ledger] \in store'
                        /\ requests'[d].authorized # None
                        /\ requests'[d].authorized.by = requests'[d].claimedBy
                        /\ requests'[d].authorized.commit = requests'[d].commit
      BY DEF PassIsCertified
    <3>1. d \in Present /\ requests'[d] = requests[d]
      BY <2>5, <2>7 DEF Present
    <3> QED BY <1>1, <3>1 DEF Evidence, PassIsCertified
  <2> QED BY <2>9, <2>10, <2>11, <2>12 DEF Evidence
<1> QED BY <1>6, <1>7

LEMMA CheckPassEvidence ==
    ASSUME Board, Processes, Evidence, NEW r \in Reviewers, NEW c \in Cycles, CheckPass(r, c)
    PROVE  Evidence'
<1> DEFINE v == [cycle |-> c, ledger |-> requests[c].ledger]
<1>1. /\ c \in Present /\ requests[c].status = "claimed" /\ requests[c].certified # None
      /\ requests[c].certified.ledger = requests[c].ledger
      /\ verdicts' = [verdicts EXCEPT ![r] = v] /\ UNCHANGED <<requests, calls, execs, store>>
  BY DEF CheckPass, ClaimedBy
<1>2. Delivered(c) /\ Stored(c, requests[c].ledger)
  BY <1>1, ClaimedFacts DEF Delivered, Evidence, Certified
<1>3. v.cycle = c /\ v.ledger = requests[c].ledger
  OBVIOUS
<1> HIDE DEF v
<1>4. \A q \in Reviewers : verdicts'[q] # None =>
        \/ verdicts'[q] = verdicts[q]
        \/ /\ Delivered(verdicts'[q].cycle)
           /\ Stored(verdicts'[q].cycle, verdicts'[q].ledger)
  BY <1>1, <1>2, <1>3 DEF Processes, Delivered, Stored
<1> QED BY <1>1, <1>4, CheckPassKept, NoneChanges, EvidenceKept DEF Kept, BoardStep

LEMMA RecordPassEvidence ==
    ASSUME Board, Processes, Evidence, NEW r \in Reviewers, RecordPass(r)
    PROVE  Evidence'
<1> DEFINE c == verdicts[r].cycle
           n == Closed(requests[c], "passed")
<1>1. /\ requests' = IF ClaimedBy(c, r) /\ requests[c].ledger = verdicts[r].ledger
                     THEN [requests EXCEPT ![c] = n] ELSE requests
      /\ verdicts[r] # None /\ verdicts' = [verdicts EXCEPT ![r] = None]
      /\ UNCHANGED <<calls, execs, store>>
  BY DEF RecordPass
<1>2. Kept
  BY RecordPassKept
<1>3. \A q \in Reviewers : verdicts'[q] # None => verdicts'[q] = verdicts[q]
  BY <1>1 DEF Processes
<1>4. CASE UNCHANGED requests
  BY <1>1, <1>2, <1>3, <1>4, NoneChanges, EvidenceKept DEF Kept, BoardStep
<1>5. CASE ~UNCHANGED requests
  <2> DEFINE q == requests[c]
  <2>1. /\ c \in Present /\ q.status = "claimed" /\ q.ledger = verdicts[r].ledger
        /\ requests' = [requests EXCEPT ![c] = n]
    BY <1>1, <1>5 DEF ClaimedBy
  <2>2. /\ Good(q) /\ q.pausedFrom = "none" /\ c \in Cycles
        /\ q.authorized \in Authorization /\ q.authorized.by = q.claimedBy
        /\ q.authorized.commit = q.commit
    BY <2>1, ClaimedFacts DEF Present
  <2>3. /\ Good(n) /\ n.delivery = q.delivery /\ n.commit = q.commit
        /\ n.claimedBy = q.claimedBy /\ n.ledger = q.ledger
        /\ n.authorized = q.authorized /\ n.certified = q.certified
    BY <2>2, ClosedGood DEF Terminal, Settled
  <2>4. [commit |-> q.commit, ledger |-> q.ledger] \in store
    BY <1>1, <2>1 DEF Evidence, Verdicts, Stored
  <2> HIDE DEF n
  <2>5. requests'[c] = n /\ n # None /\ \A d \in Cycles \ {c} : requests'[d] = requests[d]
    BY <2>1, <2>2, <2>3, ReviewAssumption DEF Board, Good
  <2>6. \A d \in Cycles : /\ Delivered(d)' = Delivered(d)
                          /\ requests'[d].commit = requests[d].commit
                          /\ requests'[d].certified = requests[d].certified
                          /\ d \in Present' <=> d \in Present
    BY <2>1, <2>3, <2>5 DEF Delivered, Present
  <2>7. Delivering'
    BY <1>1, <2>6 DEF Evidence, Delivering, Processes
  <2>8. Executions'
    BY <1>1, <2>6 DEF Evidence, Executions
  <2>9. Verdicts'
    <3> SUFFICES ASSUME NEW p \in Reviewers, verdicts'[p] # None,
                        NEW d, NEW l, d = verdicts'[p].cycle, l = verdicts'[p].ledger
                 PROVE  /\ d \in Present' /\ requests'[d].delivery = "passed"
                        /\ [commit |-> requests'[d].commit, ledger |-> l] \in store'
      BY DEF Verdicts, Delivered, Stored
    <3>1. Delivered(d) /\ Stored(d, l) /\ d \in Cycles
      BY <1>3 DEF Evidence, Verdicts, Delivered, Present
    <3> QED BY <1>1, <2>6, <3>1 DEF Delivered, Stored
  <2>10. Certified'
    <3> SUFFICES ASSUME NEW d \in Present', requests'[d].certified # None,
                        NEW l, l = requests'[d].certified.ledger
                 PROVE  [commit |-> requests'[d].commit, ledger |-> l] \in store'
      BY DEF Certified, Stored
    <3>1. d \in Cycles
      BY DEF Present
    <3> QED BY <1>1, <2>6, <3>1 DEF Evidence, Certified, Stored
  <2>11. PassIsCertified'
    <3> SUFFICES ASSUME NEW d \in Present', requests'[d].status = "passed"
                 PROVE  /\ [commit |-> requests'[d].commit, ledger |-> requests'[d].ledger] \in store'
                        /\ requests'[d].authorized # None
                        /\ requests'[d].authorized.by = requests'[d].claimedBy
                        /\ requests'[d].authorized.commit = requests'[d].commit
      BY DEF PassIsCertified
    <3>1. CASE d = c
      BY <1>1, <2>2, <2>3, <2>4, <2>5, <3>1, ReviewAssumption
    <3>2. CASE d # c
      <4>1. d \in Present /\ requests'[d] = requests[d]
        BY <2>5, <3>2 DEF Present
      <4> QED BY <1>1, <4>1 DEF Evidence, PassIsCertified
    <3> QED BY <3>1, <3>2
  <2> QED BY <2>7, <2>8, <2>9, <2>10, <2>11 DEF Evidence
<1> QED BY <1>4, <1>5

\* A Reviewer that leaves gives up the verdict under way.
LEMMA GoOfflineEvidence ==
    ASSUME Board, Processes, Evidence, NEW r \in Reviewers, GoOffline(r)
    PROVE  Evidence'
<1>1. /\ UNCHANGED <<requests, calls, execs, store>>
      /\ verdicts' = [verdicts EXCEPT ![r] = None]
  BY DEF GoOffline
<1>2. \A q \in Reviewers : verdicts'[q] # None => verdicts'[q] = verdicts[q]
  BY <1>1 DEF Processes
<1> QED BY <1>1, <1>2, GoOfflineKept, NoneChanges, EvidenceKept DEF Kept, BoardStep

LEMMA EvidenceInit == ASSUME Init PROVE Evidence
<1>1. /\ \A k \in Calls : calls[k].phase = "idle"
      /\ \A c \in Cycles : requests[c] = None /\ execs[c] = None
      /\ \A r \in Reviewers : verdicts[r] = None
  BY DEF Init, Idle
<1> QED BY <1>1 DEF Evidence, Delivering, Executions, Verdicts, Certified, PassIsCertified, Present

LEMMA EvidenceStep ==
    ASSUME OneCall, Board, Processes, Evidence, [Next]_vars
    PROVE  Evidence'
<1>1. Kept
  BY StepKept
<1>2. CASE Commit \/ Lapse \/ Pause \/ Resume
  <2>1. AllAlike
    <3>1. Commit => UNCHANGED requests
      BY DEF Commit
    <3> QED BY <1>2, <3>1, LapseKept, PauseKept, ResumeKept, NoneChanges
  <2>2. UNCHANGED running
    <3>1. Commit => UNCHANGED running
      BY DEF Commit
    <3>2. Lapse => UNCHANGED running
      BY DEF Lapse
    <3>3. Pause => UNCHANGED running
      BY DEF Pause
    <3>4. Resume => UNCHANGED running
      BY DEF Resume
    <3> QED BY <1>2, <3>1, <3>2, <3>3, <3>4
  <2> QED BY <1>1, <2>1, <2>2, BoardOnly
<1>3. ASSUME NEW k \in Calls, Delivery(k) PROVE Evidence'
  BY <1>3, CallEvidence
<1>4. ASSUME NEW c \in Cycles, Executing(c) \/ RecoverDelivery(c) PROVE Evidence'
  BY <1>4, CertifyExecuteEvidence, UncertifiedEvidence, RecoverDeliveryEvidence DEF Executing
<1>5. ASSUME NEW c \in Cycles, RecoverReview(c) \/ Expire(c) \/ LoseEvidence(c) PROVE Evidence'
  <2>1. AllAlike
    BY <1>5, RecoverReviewKept, ExpireKept, LoseEvidenceKept
  <2>2. UNCHANGED running
    BY <1>5 DEF RecoverReview, Expire, LoseEvidence
  <2> QED BY <1>1, <2>1, <2>2, BoardOnly
<1>6. ASSUME NEW c \in Cycles, NEW r \in Reviewers, StartExecute(r, c) \/ CheckPass(r, c)
      PROVE Evidence'
  BY <1>6, StartExecuteEvidence, CheckPassEvidence
<1>7. ASSUME NEW c \in Cycles, NEW r \in Reviewers,
             \/ Reserve(r, c) \/ RecordIntents(r, c) \/ Relinquish(r, c) \/ RecordFail(r, c)
             \/ \E l \in Ledgers : Attach(r, c, l)
      PROVE Evidence'
  <2>1. AllAlike
    BY <1>7, ReserveKept, RecordIntentsKept, RelinquishKept, RecordFailKept, AttachKept
  <2>2. UNCHANGED running
    <3>1. Reserve(r, c) => UNCHANGED running
      BY DEF Reserve
    <3>2. RecordIntents(r, c) => UNCHANGED running
      BY DEF RecordIntents
    <3>3. Relinquish(r, c) => UNCHANGED running
      BY DEF Relinquish
    <3>4. RecordFail(r, c) => UNCHANGED running
      BY DEF RecordFail
    <3>5. ASSUME NEW l \in Ledgers, Attach(r, c, l) PROVE UNCHANGED running
      BY <3>5 DEF Attach
    <3> QED BY <1>7, <3>1, <3>2, <3>3, <3>4, <3>5
  <2> QED BY <1>1, <2>1, <2>2, BoardOnly
<1>8. ASSUME NEW c \in Cycles, NEW l \in Ledgers, EditLedger(c, l) PROVE Evidence'
  <2>1. AllAlike /\ UNCHANGED running
    BY <1>8, EditLedgerKept DEF EditLedger
  <2> QED BY <1>1, <2>1, BoardOnly
<1>9. ASSUME NEW r \in Reviewers, StopReviewer(r) \/ Return(r) PROVE Evidence'
  <2>1. AllAlike
    <3>1. Return(r) => UNCHANGED requests
      BY DEF Return
    <3> QED BY <1>9, <3>1, StopReviewerKept, NoneChanges
  <2>2. UNCHANGED running
    BY <1>9 DEF StopReviewer, Return
  <2> QED BY <1>1, <2>1, <2>2, BoardOnly
<1>10. ASSUME NEW r \in Reviewers, GoOffline(r) \/ RecordPass(r) PROVE Evidence'
  BY <1>10, GoOfflineEvidence, RecordPassEvidence
<1>11. ASSUME NEW d \in Developers, Takeover(d) PROVE Evidence'
  <2>1. AllAlike /\ UNCHANGED running
    BY <1>11, TakeoverKept DEF Takeover
  <2> QED BY <1>1, <2>1, BoardOnly
<1>12. CASE (\E a \in Developers \cup Reviewers : Heartbeat(a)) \/ UNCHANGED vars
  <2>1. UNCHANGED requests /\ UNCHANGED running
    BY <1>12 DEF Heartbeat, vars
  <2> QED BY <1>1, <2>1, NoneChanges, BoardOnly
<1> QED BY <1>2, <1>3, <1>4, <1>5, <1>6, <1>7, <1>8, <1>9, <1>10, <1>11, <1>12
        DEF Next, Executing, Tick, Review, Owner

\* A PASS rests on an execution of the reviewed commit and of the ledger as it
\* was at the verdict (board.py:15735): the claim's authorization, the detached
\* execution and the two transactions of the verdict never disagree.
THEOREM PassesAreCertified ==
    ASSUME OneCall
    PROVE  Spec => []PassIsCertified
<1> DEFINE I == Board /\ Processes /\ Evidence
<1>1. Init => I
  BY InitHolds, EvidenceInit
<1>2. I /\ [Next]_vars => I'
  BY StepKept, EvidenceStep DEF Kept, BoardStep
<1>3. I => PassIsCertified
  BY DEF Evidence
<1> HIDE DEF I
<1> QED BY <1>1, <1>2, <1>3, PTL DEF Spec
=============================================================================
